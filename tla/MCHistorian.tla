---------------------------- MODULE MCHistorian ----------------------------
(* Small groups and topics for TLC.                                        *)
EXTENDS Historian, TLC

OnePartition == {0}
ThreeLog == [p \in {0} |-> 0 .. 2]
TwoLog == [p \in {0} |-> 0 .. 1]

AllEvents == [r \in Records |-> "event"]
UnitSize == [r \in Records |-> 1]
OneDay == [r \in Records |-> 1]

\* Every event has its own identity, or all are one event.
OwnId == [r \in Records |-> <<r[2], r[2]>>]
SameId == [r \in Records |-> <<0, 0>>]

NoneLate == {}

\* An event, a late event, a record without telemetry, an event and one with too many
\* metrics; the last two do not fit in one batch.  The second is the first once more
\* with another time (a source message without a time of its own, delivered again).
FiveLog == [p \in {0} |-> 0 .. 4]
MixedKind == [r \in Records |-> <<"event", "event", "ignored", "event", "wide">>[r[2] + 1]]
MixedSize == [r \in Records |-> <<1, 2, 1, 2, 2>>[r[2] + 1]]
RecurringId == [r \in Records |-> <<r[2], IF r[2] = 1 THEN 0 ELSE r[2]>>]
SecondLate == {<<0, 1>>}

\* Two events, and one that is larger than a batch may be.
OversizeLast == [r \in Records |-> IF r[2] = 2 THEN 9 ELSE 1]
=========================
