---------------------------- MODULE MCLakeMapper ----------------------------
(* Small topics for TLC.                                                   *)
EXTENDS LakeMapper, TLC

\* The kind, route or size of a record, by partition and offset.
Field(table) == [r \in Records |-> table[r[1]][r[2]]]
FromZero == [p \in Partitions |-> 0]
\* The second event of partition 1 is written later.
SecondLater == [p \in Partitions |-> IF p = 1 THEN 1 ELSE 5]

\* An event, two records that are rejected and one that is not archived, beside a
\* partition whose two events go to different routes; the numbering has a gap.
TwoPartitions == {0, 1}
MixedLog == [p \in {0, 1} |-> IF p = 0 THEN {0, 1, 2, 4} ELSE {0, 1}]
MixedKind == Field([p \in {0, 1} |-> IF p = 0
  THEN 0 :> "event" @@ 1 :> "reject" @@ 2 :> "reject" @@ 4 :> "skip"
  ELSE 0 :> "event" @@ 1 :> "event"])
MixedRoute == Field([p \in {0, 1} |-> IF p = 0 THEN [o \in 0 .. 4 |-> 1] ELSE 0 :> 2 @@ 1 :> 1])

\* The two events of partition 1 do not fit in one flush, and the second one does not
\* fit in the worker beside the event of partition 0.
Heavy == Field([p \in {0, 1} |-> IF p = 0 THEN [o \in 0 .. 4 |-> 3] ELSE 0 :> 2 @@ 1 :> 4])
=============================================================================
