-------------------------- MODULE LakeMapperProofs --------------------------
(***************************************************************************)
(* What a mapper guarantees for every topic, every set of limits and every *)
(* history of failures, rebalances and retention, once its group has       *)
(* committed offsets.  The argument: between the committed offset and the  *)
(* fetch position every record of the log is in the ledger (PrefixOK), and *)
(* what the ledger calls resolved is settled; so whatever lies below the   *)
(* next offset of the prefix is settled.  A frozen flush carries such an   *)
(* offset (FlushOK) until the commit, because while it is frozen nothing   *)
(* is polled (LoopOK) and nobody else may commit (StandingOK).             *)
(***************************************************************************)
EXTENDS LakeMapper, OffsetLemmas

\* The group has an offset for every partition.
HasOffsets == FirstCommitted \in [Partitions -> Nat]

DataOK ==
  /\ low \in [Partitions -> Nat] /\ high \in [Partitions -> Nat]
  /\ committed \in [Partitions -> Nat]
  /\ archived \subseteq Records /\ rejected \subseteq Records
  /\ pc \in PcValues /\ then \in {"poll", "top"}
  /\ owned \subseteq Partitions /\ generation \in Nat
  /\ position \in [Partitions -> Nat]
  /\ observed \in [Partitions -> SUBSET Nat]
  /\ resolved \in [Partitions -> SUBSET Nat]
  /\ buffer \in [Partitions -> SUBSET Nat]
  /\ \A p \in Partitions : observed[p] \subseteq Log[p] /\ buffer[p] \subseteq Log[p]
  /\ \A p \in Partitions : resolved[p] \subseteq Log[p]
  /\ aged \subseteq Partitions
  /\ frozen \in Flushes \cup {NoFlush}
  /\ pending \subseteq Records /\ todo \subseteq pending
  /\ current \in Records \cup {NoRecord}
  /\ failures \in Nat /\ stops \in Nat /\ rebalances \in Nat /\ retention \in Nat

\* Every record from the first committed offset up to n is settled.
Safe(p, n) == \A o \in Log[p] : FirstCommitted[p] <= o /\ o < n => IsSettled(<<p, o>>)

CommittedOK == \A p \in Partitions : Safe(p, committed[p])

\* The ledger covers what lies between the committed offset and the fetch position,
\* and what it calls resolved is settled.
PrefixOK ==
  \A p \in Partitions :
    /\ \A o \in observed[p] : o < position[p]
    /\ \A o \in Log[p] : committed[p] <= o /\ o < position[p] => o \in observed[p]
    /\ resolved[p] \subseteq observed[p]
    /\ \A o \in resolved[p] : IsSettled(<<p, o>>)

\* While the group counts the process in, nobody else commits its partitions.
StandingOK ==
  member => \A p \in owned :
    /\ committed[p] <= position[p]
    /\ \A o \in observed[p] : committed[p] <= o

\* What is buffered or rejected belongs to the assignment and is of its kind.
HeldOK ==
  /\ \A p \in Partitions : buffer[p] \subseteq Unresolved(p)
  /\ \A p \in Partitions : \A o \in buffer[p] : Kind[<<p, o>>] = "event"
  /\ \A p \in Partitions \ owned : buffer[p] = {}
  /\ \A r \in pending : Kind[r] = "reject" /\ r[1] \in owned

\* The frozen flush, and the offset it is going to commit.
FlushOK ==
  frozen # NoFlush =>
    /\ frozen.part \in owned /\ frozen.gen = generation
    /\ frozen.left \subseteq Unresolved(frozen.part)
    /\ frozen.left \cap buffer[frozen.part] = {}
    /\ \A o \in frozen.left : Kind[<<frozen.part, o>>] = "event"
    /\ frozen.commit # None =>
         /\ Safe(frozen.part, frozen.commit)
         /\ frozen.commit <= position[frozen.part]
         /\ \A u \in Unresolved(frozen.part) : frozen.commit <= u
         /\ member => committed[frozen.part] <= frozen.commit

\* Where the loop may stand.
LoopOK ==
  /\ pc \in {"poll", "exclude"} => frozen = NoFlush
  /\ pc \in {"settle", "exclude"} => current \in Records /\ current[1] \in owned
  /\ pc = "settle" => current \in rejected /\ Kind[current] = "reject"

LakeInv ==
  DataOK /\ CommittedOK /\ PrefixOK /\ StandingOK /\ HeldOK /\ FlushOK /\ LoopOK

-----------------------------------------------------------------------------
(* The prefix of the ledger                                                *)

\* What next_offset returns: an offset within what was polled, below every open
\* record, such that everything up to it is settled.
LEMMA PrefixNext ==
  ASSUME DataOK, CommittedOK, PrefixOK, StandingOK,
         NEW p \in Partitions, NEW R, \A o \in R : IsSettled(<<p, o>>),
         NextOffset(observed[p], R) # None
  PROVE  LET n == NextOffset(observed[p], R)
         IN  /\ n \in Nat /\ n <= position[p]
             /\ Safe(p, n)
             /\ \A u \in observed[p] \ R : n <= u
             /\ member /\ p \in owned => committed[p] <= n
<1> DEFINE done == {o \in observed[p] : \A u \in observed[p] \ R : o < u}
           m == Max(done)
<1>1. /\ observed[p] \subseteq Nat /\ observed[p] \subseteq Log[p] /\ Log[p] \subseteq Nat
      /\ position[p] \in Nat /\ committed[p] \in Nat /\ FirstCommitted[p] \in Nat \cup {None}
  BY LogAssumption DEF DataOK
<1>2. done # {} /\ NextOffset(observed[p], R) = m + 1
  BY DEF NextOffset
<1>3. m \in done /\ \A y \in done : y <= m
  <2>1. done \in SUBSET Nat /\ \A x \in done : x < position[p]
    BY <1>1 DEF PrefixOK
  <2> HIDE DEF done
  <2> QED BY <1>1, <1>2, <2>1, MaxOfBounded
<1> HIDE DEF m
<1>4. m \in Nat /\ m \in observed[p] /\ m < position[p] /\ \A u \in observed[p] \ R : m < u
  BY <1>1, <1>3 DEF PrefixOK
<1>5. Safe(p, m + 1)
  <2> SUFFICES ASSUME NEW o \in Log[p], FirstCommitted[p] <= o, o < m + 1
               PROVE  IsSettled(<<p, o>>)
    BY DEF Safe
  <2>1. o \in Nat
    BY <1>1
  <2>2. CASE o < committed[p]
    BY <2>2 DEF CommittedOK, Safe
  <2>3. CASE committed[p] <= o
    <3>1. o < position[p]
      BY <1>1, <1>4, <2>1
    <3>2. o \in observed[p]
      BY <2>3, <3>1 DEF PrefixOK
    <3>3. o \in R
      BY <1>1, <1>4, <2>1, <3>2
    <3> QED BY <3>3
  <2> QED BY <1>1, <2>1, <2>2, <2>3
<1>6. \A u \in observed[p] \ R : m + 1 <= u
  BY <1>1, <1>4
<1>7. member /\ p \in owned => committed[p] <= m + 1
  BY <1>1, <1>4 DEF StandingOK
<1> QED BY <1>1, <1>2, <1>4, <1>5, <1>6, <1>7

\* A commit of such an offset keeps the ledger sound, and what is buffered open.
LEMMA CommitStep ==
  ASSUME DataOK, CommittedOK, PrefixOK, StandingOK,
         NEW p \in owned, NEW n \in Nat, NEW R \in [Partitions -> SUBSET Nat],
         \A q \in Partitions : R[q] \subseteq Log[q],
         \A q \in Partitions : q # p => R[q] = resolved[q],
         R[p] \subseteq observed[p], \A o \in R[p] : IsSettled(<<p, o>>),
         Safe(p, n), n <= position[p], committed[p] <= n,
         \A u \in observed[p] \ R[p] : n <= u,
         CommitOk(p, n, observed, R),
         UNCHANGED <<archived, rejected, position, owned, member>>
  PROVE  /\ committed' \in [Partitions -> Nat]
         /\ observed' \in [Partitions -> SUBSET Nat] /\ resolved' \in [Partitions -> SUBSET Nat]
         /\ \A q \in Partitions : observed'[q] \subseteq Log[q] /\ resolved'[q] \subseteq Log[q]
         /\ \A q \in Partitions : Unresolved(q)' = observed[q] \ R[q]
         /\ CommittedOK' /\ PrefixOK' /\ StandingOK'
<1>1. p \in Partitions /\ n \in Nat /\ \A q \in Partitions : Log[q] \subseteq Nat
  BY LogAssumption DEF DataOK
<1>2. /\ committed' = [committed EXCEPT ![p] = n]
      /\ observed' = [observed EXCEPT ![p] = {o \in @ : o >= n}]
      /\ resolved' = [R EXCEPT ![p] = {o \in @ : o >= n}]
  BY DEF CommitOk, Discard
<1>3. /\ committed' \in [Partitions -> Nat]
      /\ observed' \in [Partitions -> SUBSET Nat] /\ resolved' \in [Partitions -> SUBSET Nat]
      /\ \A q \in Partitions : observed'[q] \subseteq Log[q] /\ resolved'[q] \subseteq Log[q]
  BY <1>1, <1>2 DEF DataOK
<1>4. \A q \in Partitions : Unresolved(q)' = observed[q] \ R[q]
  BY <1>1, <1>2 DEF DataOK, Unresolved
<1>5. \A q \in Partitions : \A o : IsSettled(<<q, o>>)' <=> IsSettled(<<q, o>>)
  BY DEF IsSettled
<1>6. CommittedOK'
  BY <1>1, <1>2, <1>5 DEF CommittedOK, Safe, DataOK
<1>7. PrefixOK'
  <2> SUFFICES ASSUME NEW q \in Partitions
               PROVE  /\ \A o \in observed'[q] : o < position'[q]
                      /\ \A o \in Log[q] : committed'[q] <= o /\ o < position'[q] => o \in observed'[q]
                      /\ resolved'[q] \subseteq observed'[q]
                      /\ \A o \in resolved'[q] : IsSettled(<<q, o>>)'
    BY DEF PrefixOK
  <2>1. CASE q = p
    BY <1>1, <1>2, <1>5, <2>1 DEF PrefixOK, DataOK
  <2>2. CASE q # p
    BY <1>1, <1>2, <1>5, <2>2 DEF PrefixOK, DataOK
  <2> QED BY <2>1, <2>2
<1>8. StandingOK'
  BY <1>1, <1>2 DEF StandingOK, DataOK
<1> QED BY <1>3, <1>4, <1>6, <1>7, <1>8

-----------------------------------------------------------------------------
(* Steps shared by several actions                                         *)

\* A step that leaves the ledger, the offsets and the assignment alone.
LEMMA LedgerFrame ==
  ASSUME DataOK, CommittedOK, PrefixOK, StandingOK,
         archived \subseteq archived', rejected \subseteq rejected', member' => member,
         owned' \subseteq owned,
         UNCHANGED <<committed, position, observed, resolved>>
  PROVE  CommittedOK' /\ PrefixOK' /\ StandingOK'
BY DEF CommittedOK, PrefixOK, StandingOK, Safe, IsSettled

\* A step that, besides, leaves the buffers and the flush alone.
LEMMA FlushFrame ==
  ASSUME DataOK, HeldOK, FlushOK,
         archived \subseteq archived', rejected \subseteq rejected', member' => member,
         pending' \subseteq pending,
         UNCHANGED <<committed, position, observed, resolved, owned, generation, buffer, frozen>>
  PROVE  HeldOK' /\ FlushOK'
<1>1. \A p \in Partitions : Unresolved(p)' = Unresolved(p)
  BY DEF Unresolved
<1>2. HeldOK'
  BY <1>1 DEF HeldOK
<1>3. ASSUME NEW p \in Partitions, NEW n, Safe(p, n) PROVE Safe(p, n)'
  BY <1>3 DEF Safe, IsSettled
<1>4. frozen # NoFlush => frozen.part \in Partitions
  BY DEF FlushOK, DataOK
<1>5. FlushOK'
  BY <1>1, <1>3, <1>4 DEF FlushOK
<1> QED BY <1>2, <1>5

\* A dead process holds nothing, and what it had settled stays settled.
LEMMA DieStep ==
  ASSUME LakeInv, Die, committed' = committed,
         archived \subseteq archived', rejected \subseteq rejected'
  PROVE  CommittedOK' /\ PrefixOK' /\ StandingOK' /\ HeldOK' /\ FlushOK' /\ LoopOK'
<1>1. CommittedOK'
  BY DEF LakeInv, CommittedOK, Safe, IsSettled
<1>2. \A p \in Partitions : Log[p] \subseteq Nat
  BY LogAssumption
<1>3. PrefixOK'
  BY <1>2 DEF Die, PrefixOK, Nothing
<1>4. StandingOK' /\ FlushOK' /\ LoopOK'
  BY DEF Die, StandingOK, FlushOK, LoopOK
<1>5. HeldOK'
  BY DEF Die, HeldOK, Nothing
<1> QED BY <1>1, <1>3, <1>4, <1>5

LEMMA DieTypes ==
  ASSUME DataOK, Die
  PROVE  /\ pc' \in PcValues /\ then' \in {"poll", "top"}
         /\ owned' \subseteq Partitions /\ generation' \in Nat
         /\ position' \in [Partitions -> Nat]
         /\ observed' \in [Partitions -> SUBSET Nat]
         /\ resolved' \in [Partitions -> SUBSET Nat]
         /\ buffer' \in [Partitions -> SUBSET Nat]
         /\ \A p \in Partitions : observed'[p] \subseteq Log[p] /\ buffer'[p] \subseteq Log[p]
         /\ \A p \in Partitions : resolved'[p] \subseteq Log[p]
         /\ aged' \subseteq Partitions
         /\ frozen' \in Flushes \cup {NoFlush}
         /\ pending' \subseteq Records /\ todo' \subseteq pending'
         /\ current' \in Records \cup {NoRecord}
BY DEF Die, Nothing, PcValues

\* The parts of the type invariant that _flush_ready_partitions can disturb.
BatchTypes ==
  /\ buffer \in [Partitions -> SUBSET Nat]
  /\ \A p \in Partitions : buffer[p] \subseteq Log[p]
  /\ aged \subseteq Partitions
  /\ frozen \in Flushes \cup {NoFlush}

\* What a buffer must be, in terms of the ledger of the next state.
GoodBuffers(b) ==
  /\ b \in [Partitions -> SUBSET Nat]
  /\ \A p \in Partitions : b[p] \subseteq Log[p] /\ b[p] \subseteq Unresolved(p)
  /\ \A p \in Partitions : \A o \in b[p] : Kind[<<p, o>>] = "event"
  /\ \A p \in Partitions \ owned : b[p] = {}

\* A flush that has not begun to commit.
FreshFlush(f, b) ==
  f # NoFlush =>
    /\ f \in Flushes
    /\ f.part \in owned /\ f.gen = generation /\ f.commit = None
    /\ f.left \subseteq Unresolved(f.part)
    /\ f.left \cap b[f.part] = {}
    /\ \A o \in f.left : Kind[<<f.part, o>>] = "event"

\* Freezing a buffer moves its records to the flush; they stay open and of their kind.
LEMMA FlushReadyStep ==
  ASSUME DataOK, NEW b, NEW old \in SUBSET Partitions, NEW f, FlushReady(b, old, f),
         UNCHANGED <<owned, generation>>,
         GoodBuffers(b)', FreshFlush(f, b)'
  PROVE  BatchTypes' /\ GoodBuffers(buffer)' /\ FreshFlush(frozen, buffer)'
<1>1. PICK p \in FlushChoices(b, old) :
        /\ buffer' = IF p = NoPartition THEN b ELSE [b EXCEPT ![p] = {}]
        /\ aged' = old \ {p}
        /\ frozen' = IF p = NoPartition THEN f ELSE Freeze(b, p)
  BY DEF FlushReady
<1>2. p = NoPartition \/ (p \in Partitions /\ b[p] # {})
  BY DEF FlushChoices, ShouldFlush
<1>3. NoPartition \notin Partitions
  BY LogAssumption DEF NoPartition, None
<1>4. CASE p = NoPartition
  BY <1>1, <1>4 DEF BatchTypes, GoodBuffers, FreshFlush, DataOK
<1>5. CASE p # NoPartition
  <2>1. p \in Partitions /\ p \in owned' /\ b \in [Partitions -> SUBSET Nat]
    BY <1>2, <1>5 DEF GoodBuffers
  <2>2. buffer' = [b EXCEPT ![p] = {}]
    BY <1>1, <1>5
  <2>3. frozen' = [part |-> p, left |-> b[p], commit |-> None, attempts |-> 0, gen |-> generation]
    BY <1>1, <1>5 DEF Freeze
  <2>4. frozen' \in Flushes
    BY <2>1, <2>3 DEF Flushes, DataOK
  <2>5. BatchTypes'
    BY <1>1, <2>1, <2>2, <2>4 DEF BatchTypes, GoodBuffers
  <2>6. GoodBuffers(buffer)'
    BY <2>1, <2>2 DEF GoodBuffers
  <2>7. FreshFlush(frozen, buffer)'
    BY <2>1, <2>2, <2>3, <2>4 DEF FreshFlush, GoodBuffers
  <2> QED BY <2>5, <2>6, <2>7
<1> QED BY <1>4, <1>5

-----------------------------------------------------------------------------
(* The steps of run_once                                                   *)

LEMMA FlushTopStep == ASSUME LakeInv, FlushTop PROVE LakeInv'
<1>1. PICK b : b = buffer
  OBVIOUS
<1>2. PICK old : old = aged
  OBVIOUS
<1>3. PICK f : f = NoFlush
  OBVIOUS
<1>4. /\ FlushReady(b, old, f)
      /\ pc' = "reject" /\ then' = "poll" /\ pending' = pending /\ todo' = pending
      /\ current' = NoRecord
      /\ UNCHANGED <<low, high, committed, member, archived, rejected, owned, generation,
                     position, observed, resolved, failures, stops, rebalances, retention>>
  BY <1>1, <1>2, <1>3 DEF FlushTop, StartRejections, kafkaVars, storeVars, consumerVars,
                          ledgerVars, boundVars
<1>5. GoodBuffers(b)' /\ FreshFlush(f, b)' /\ old \in SUBSET Partitions
  BY <1>1, <1>2, <1>3, <1>4 DEF LakeInv, DataOK, HeldOK, GoodBuffers, FreshFlush, Unresolved
<1>6. BatchTypes' /\ GoodBuffers(buffer)' /\ FreshFlush(frozen, buffer)'
  BY <1>4, <1>5, FlushReadyStep DEF LakeInv
<1>7. DataOK'
  BY <1>4, <1>6 DEF LakeInv, DataOK, BatchTypes, PcValues
<1>8. CommittedOK' /\ PrefixOK' /\ StandingOK'
  BY <1>4, LedgerFrame DEF LakeInv
<1>9. HeldOK' /\ FlushOK'
  BY <1>4, <1>6 DEF LakeInv, HeldOK, FlushOK, GoodBuffers, FreshFlush
<1>10. LoopOK'
  BY <1>4 DEF LoopOK
<1> QED BY <1>7, <1>8, <1>9, <1>10 DEF LakeInv

\* Steps that only move the loop along, and store at most a rejection.
LEMMA LoopStep ==
  ASSUME LakeInv,
         \/ \E r \in todo : RejectionWaits(r) \/ PublishRejectionFails(r) \/ PublishRejection(r)
         \/ RejectionsDone \/ PollNothing
  PROVE  LakeInv'
<1>1. /\ pc' \in {"reject", "settle", "top", "poll"}
      /\ pc' = "poll" => frozen = NoFlush
      /\ pc' = "settle" => /\ current' \in pending /\ current' \in rejected'
      /\ todo' \subseteq todo /\ current' \in Records \cup {NoRecord}
      /\ rejected \subseteq rejected' /\ rejected' \subseteq Records
      /\ failures' \in Nat
      /\ UNCHANGED <<low, high, committed, member, archived, owned, generation, position,
                     observed, resolved, buffer, aged, frozen, then, pending, stops,
                     rebalances, retention>>
  <2>1. todo \subseteq pending /\ pending \subseteq Records /\ rejected \subseteq Records
        /\ current \in Records \cup {NoRecord} /\ failures \in Nat /\ then \in {"poll", "top"}
    BY DEF LakeInv, DataOK
  <2>2. CASE RejectionsDone
    BY <2>1, <2>2 DEF RejectionsDone, AfterRejections, kafkaVars, storeVars, consumerVars,
                      ledgerVars, batchVars, boundVars
  <2>3. CASE PollNothing
    BY <2>1, <2>3 DEF PollNothing, kafkaVars, storeVars, consumerVars, ledgerVars, batchVars,
                      boundVars
  <2>4. ASSUME NEW r \in todo, RejectionWaits(r) PROVE <1>1
    BY <2>1, <2>4 DEF RejectionWaits, KeepRejection, kafkaVars, storeVars, consumerVars,
                      ledgerVars, batchVars
  <2>5. ASSUME NEW r \in todo, PublishRejectionFails(r) PROVE <1>1
    BY <2>1, <2>5 DEF PublishRejectionFails, Fail, KeepRejection, kafkaVars, consumerVars,
                      ledgerVars, batchVars
  <2>6. ASSUME NEW r \in todo, PublishRejection(r) PROVE <1>1
    BY <2>1, <2>6 DEF PublishRejection, kafkaVars, consumerVars, ledgerVars, batchVars,
                      boundVars
  <2> QED BY <2>2, <2>3, <2>4, <2>5, <2>6
<1>2. DataOK'
  BY <1>1 DEF LakeInv, DataOK, PcValues
<1>3. CommittedOK' /\ PrefixOK' /\ StandingOK'
  BY <1>1, LedgerFrame DEF LakeInv
<1>4. HeldOK' /\ FlushOK'
  BY <1>1, FlushFrame DEF LakeInv
<1>5. LoopOK'
  BY <1>1 DEF LakeInv, LoopOK, HeldOK, DataOK
<1> QED BY <1>2, <1>3, <1>4, <1>5 DEF LakeInv

\* The next route group consists of open records of the log.
LEMMA GroupTypes ==
  ASSUME LakeInv, Advancing
  PROVE  /\ frozen \in Flushes /\ frozen.part \in Partitions /\ frozen.part \in owned
         /\ Group \subseteq frozen.left /\ frozen.left \subseteq Log[frozen.part]
         /\ GroupRecords \subseteq Records
<1>1. frozen \in Flushes /\ frozen.part \in Partitions /\ frozen.part \in owned
  BY DEF LakeInv, DataOK, FlushOK, Advancing
<1>2. frozen.left \subseteq Log[frozen.part]
  BY <1>1 DEF LakeInv, DataOK, FlushOK, Advancing, Unresolved
<1>3. Group \subseteq frozen.left
  BY DEF Group
<1>4. GroupRecords \subseteq Records
  BY <1>1, <1>2, <1>3 DEF GroupRecords, Records
<1> QED BY <1>1, <1>2, <1>3, <1>4

\* Every way in which the process ends.
LEMMA EndStep ==
  ASSUME LakeInv,
         \/ LedgerError \/ PollOutOfRange \/ ExcludeFails \/ CommitFenced \/ RevokeFails
         \/ \E S \in (SUBSET Partitions) \ {{}} : AssignFails(S)
         \/ PublishGivesUp \/ Crash
  PROVE  LakeInv'
<1>1. /\ Die /\ UNCHANGED <<low, high, committed, rejected, rebalances, retention>>
      /\ archived \subseteq archived' /\ archived' \subseteq Records
      /\ failures' \in Nat /\ stops' \in Nat
  <2>1. archived \subseteq Records /\ failures \in Nat /\ stops \in Nat
    BY DEF LakeInv, DataOK
  <2>2. CASE \/ LedgerError \/ PollOutOfRange \/ ExcludeFails \/ CommitFenced \/ RevokeFails
             \/ \E S \in (SUBSET Partitions) \ {{}} : AssignFails(S)
    BY <2>1, <2>2 DEF LedgerError, PollOutOfRange, ExcludeFails, CommitFenced, RevokeFails,
                      AssignFails, Fail, storeVars, boundVars
  <2>3. CASE PublishGivesUp
    <3>1. GroupRecords \subseteq Records
      BY <2>3, GroupTypes DEF PublishGivesUp
    <3> QED BY <2>1, <2>3, <3>1 DEF PublishGivesUp, Fail
  <2>4. CASE Crash
    BY <2>1, <2>4 DEF Crash, storeVars
  <2> QED BY <2>2, <2>3, <2>4
<1>2. DataOK'
  BY <1>1, DieTypes DEF LakeInv, DataOK
<1> QED BY <1>1, <1>2, DieStep DEF LakeInv

\* The parts of the type invariant about the ledger.
LedgerTypes ==
  /\ committed \in [Partitions -> Nat]
  /\ observed \in [Partitions -> SUBSET Nat] /\ resolved \in [Partitions -> SUBSET Nat]
  /\ \A p \in Partitions : observed[p] \subseteq Log[p] /\ resolved[p] \subseteq Log[p]

\* Records of p that are settled become resolved; then the prefix is committed, or not.
LEMMA ResolveStep ==
  ASSUME LakeInv, NEW p \in owned, NEW R \in [Partitions -> SUBSET Nat],
         \A q \in Partitions : R[q] \subseteq Log[q],
         \A q \in Partitions : q # p => R[q] = resolved[q],
         resolved[p] \subseteq R[p], R[p] \subseteq observed[p],
         \A o \in R[p] : IsSettled(<<p, o>>),
         buffer[p] \subseteq observed[p] \ R[p],
         frozen # NoFlush /\ frozen.part = p => frozen.left \subseteq observed[p] \ R[p],
         \/ committed' = committed /\ observed' = observed /\ resolved' = R
         \/ /\ frozen = NoFlush /\ NextOffset(observed[p], R[p]) # None
            /\ CommitOk(p, NextOffset(observed[p], R[p]), observed, R),
         UNCHANGED <<archived, rejected, position, owned, member, generation, buffer, frozen>>,
         pending' \subseteq pending
  PROVE  LedgerTypes' /\ CommittedOK' /\ PrefixOK' /\ StandingOK' /\ HeldOK' /\ FlushOK'
<1>1. /\ p \in Partitions /\ observed \in [Partitions -> SUBSET Nat]
      /\ \A q \in Partitions : observed[q] \subseteq Log[q]
      /\ committed \in [Partitions -> Nat]
  BY DEF LakeInv, DataOK
<1>2. /\ LedgerTypes' /\ CommittedOK' /\ PrefixOK' /\ StandingOK'
      /\ \A q \in Partitions : Unresolved(q)' = observed[q] \ R[q]
  <2>1. CASE committed' = committed /\ observed' = observed /\ resolved' = R
    <3>1. LedgerTypes' /\ \A q \in Partitions : Unresolved(q)' = observed[q] \ R[q]
      BY <1>1, <2>1 DEF LedgerTypes, Unresolved
    <3>2. CommittedOK' /\ StandingOK'
      BY <2>1 DEF LakeInv, CommittedOK, StandingOK, Safe, IsSettled
    <3>3. PrefixOK'
      BY <2>1 DEF LakeInv, PrefixOK, IsSettled
    <3> QED BY <3>1, <3>2, <3>3
  <2>2. CASE /\ frozen = NoFlush /\ NextOffset(observed[p], R[p]) # None
             /\ CommitOk(p, NextOffset(observed[p], R[p]), observed, R)
    <3>1. PICK n : n = NextOffset(observed[p], R[p])
      OBVIOUS
    <3>2. /\ n \in Nat /\ n <= position[p] /\ Safe(p, n)
          /\ \A u \in observed[p] \ R[p] : n <= u
          /\ member => committed[p] <= n
      BY <1>1, <2>2, <3>1, PrefixNext DEF LakeInv
    <3>3. CommitOk(p, n, observed, R) /\ committed[p] <= n
      BY <2>2, <3>1, <3>2 DEF CommitOk
    <3> QED BY <3>2, <3>3, CommitStep DEF LakeInv, LedgerTypes
  <2> QED BY <2>1, <2>2
<1>3. HeldOK'
  BY <1>1, <1>2 DEF LakeInv, HeldOK, Unresolved
<1>4. FlushOK'
  <2> SUFFICES ASSUME frozen # NoFlush PROVE FlushOK'
    BY DEF FlushOK
  <2>1. committed' = committed /\ observed' = observed /\ resolved' = R
    OBVIOUS
  <2>2. frozen.part \in Partitions /\ \A n : Safe(frozen.part, n)' <=> Safe(frozen.part, n)
    BY DEF LakeInv, DataOK, FlushOK, Safe, IsSettled
  <2>3. Unresolved(frozen.part)' \subseteq Unresolved(frozen.part)
        /\ frozen.left \subseteq Unresolved(frozen.part)'
    BY <1>1, <1>2, <2>2 DEF LakeInv, FlushOK, Unresolved
  <2> QED BY <2>1, <2>2, <2>3 DEF LakeInv, FlushOK
<1> QED BY <1>2, <1>3, <1>4

LEMMA SettleStep == ASSUME LakeInv, SettleRejection PROVE LakeInv'
<1> DEFINE p == current[1]
<1>1. PICK R : R = ResolvedNow
  OBVIOUS
<1>2. /\ current \in Records /\ p \in owned /\ p \in Partitions /\ current[2] \in Log[p]
      /\ current = <<p, current[2]>> /\ current \in rejected /\ Kind[current] = "reject"
      /\ current[2] \in Nat
  BY LogAssumption DEF SettleRejection, LakeInv, LoopOK, Records
<1>3. R = [resolved EXCEPT ![p] = @ \cup {current[2]}]
  BY <1>1 DEF ResolvedNow
<1>4. /\ R \in [Partitions -> SUBSET Nat]
      /\ \A q \in Partitions : R[q] \subseteq Log[q]
      /\ \A q \in Partitions : q # p => R[q] = resolved[q]
      /\ R[p] = resolved[p] \cup {current[2]} /\ R[p] \subseteq observed[p]
  BY <1>2, <1>3 DEF LakeInv, DataOK, PrefixOK, SettleRejection
<1>5. \A o \in R[p] : IsSettled(<<p, o>>)
  BY <1>2, <1>4 DEF LakeInv, PrefixOK, IsSettled
<1>6. buffer[p] \subseteq observed[p] \ R[p]
  BY <1>2, <1>4 DEF LakeInv, HeldOK, Unresolved
<1>7. frozen # NoFlush /\ frozen.part = p => frozen.left \subseteq observed[p] \ R[p]
  BY <1>2, <1>4 DEF LakeInv, FlushOK, Unresolved
<1>8. /\ \/ committed' = committed /\ observed' = observed /\ resolved' = R
         \/ /\ frozen = NoFlush /\ NextOffset(observed[p], R[p]) # None
            /\ CommitOk(p, NextOffset(observed[p], R[p]), observed, R)
      /\ pc' = "reject" /\ todo' = todo \ {current} /\ pending' \in {pending, pending \ {current}}
      /\ current' = NoRecord /\ failures' \in {failures, failures + 1}
      /\ UNCHANGED <<low, high, member, archived, rejected, owned, generation, position, buffer,
                     aged, frozen, then, stops, rebalances, retention>>
  BY <1>1 DEF SettleRejection, CommitOk, CommitRefused, Settled, Unsettled, Fail, NoFailure,
              storeVars, consumerVars, batchVars
<1>9. LedgerTypes' /\ CommittedOK' /\ PrefixOK' /\ StandingOK' /\ HeldOK' /\ FlushOK'
  <2> HIDE DEF p
  <2> QED BY <1>2, <1>4, <1>5, <1>6, <1>7, <1>8, ResolveStep
<1>10. DataOK'
  BY <1>8, <1>9 DEF LakeInv, DataOK, LedgerTypes, PcValues
<1>11. LoopOK'
  BY <1>8 DEF LoopOK
<1> QED BY <1>9, <1>10, <1>11 DEF LakeInv

LEMMA ExcludeStep == ASSUME LakeInv, ExcludeRecord PROVE LakeInv'
<1> DEFINE p == current[1]
<1>1. p \in owned /\ p \in Partitions
  BY DEF ExcludeRecord, LakeInv, LoopOK, DataOK
<1>2. PICK R : R = resolved
  OBVIOUS
<1>3. /\ \/ committed' = committed /\ observed' = observed /\ resolved' = R
         \/ /\ frozen = NoFlush /\ NextOffset(observed[p], R[p]) # None
            /\ CommitOk(p, NextOffset(observed[p], R[p]), observed, R)
      /\ pc' = "top" /\ current' = NoRecord /\ failures' = failures
      /\ UNCHANGED <<low, high, member, archived, rejected, owned, generation, position, buffer,
                     aged, frozen, then, pending, todo, stops, rebalances, retention>>
  BY <1>2 DEF ExcludeRecord, CommitOk, NoFailure, LakeInv, LoopOK, storeVars, consumerVars,
              ledgerVars, batchVars
<1>4. /\ R \in [Partitions -> SUBSET Nat]
      /\ \A q \in Partitions : R[q] \subseteq Log[q] /\ R[q] = resolved[q]
      /\ R[p] \subseteq observed[p]
      /\ \A o \in R[p] : IsSettled(<<p, o>>)
      /\ buffer[p] \subseteq observed[p] \ R[p]
      /\ frozen # NoFlush /\ frozen.part = p => frozen.left \subseteq observed[p] \ R[p]
  BY <1>1, <1>2 DEF LakeInv, DataOK, PrefixOK, HeldOK, FlushOK, Unresolved
<1>5. LedgerTypes' /\ CommittedOK' /\ PrefixOK' /\ StandingOK' /\ HeldOK' /\ FlushOK'
  <2> HIDE DEF p
  <2> QED BY <1>1, <1>3, <1>4, ResolveStep
<1>6. DataOK'
  BY <1>3, <1>5 DEF LakeInv, DataOK, LedgerTypes, PcValues
<1>7. LoopOK'
  BY <1>3 DEF LoopOK
<1> QED BY <1>5, <1>6, <1>7 DEF LakeInv

\* A polled record is new to the ledger and the first one past the fetch position.
LEMMA PolledStep ==
  ASSUME LakeInv, NEW p \in Partitions, NEW o \in Log[p], Polled(p, o),
         \/ resolved' = resolved
         \/ resolved' = [resolved EXCEPT ![p] = @ \cup {o}] /\ Kind[<<p, o>>] = "skip"
  PROVE  /\ LedgerTypes' /\ CommittedOK' /\ PrefixOK' /\ StandingOK'
         /\ frozen = NoFlush /\ p \in owned /\ <<p, o>> \in Records
         /\ position' \in [Partitions -> Nat]
         /\ o \notin observed[p]
         /\ \A q \in Partitions : Unresolved(q) \subseteq Unresolved(q)'
         /\ resolved' = resolved => o \in Unresolved(p)'
         /\ UNCHANGED <<low, high, committed, member, archived, rejected, owned, generation,
                        failures, stops, rebalances, retention>>
<1>1. /\ pc = "poll" /\ p \in owned /\ position[p] <= o
      /\ \A e \in Log[p] : position[p] <= e => o <= e
      /\ position' = [position EXCEPT ![p] = o + 1]
      /\ observed' = [observed EXCEPT ![p] = @ \cup {o}]
      /\ UNCHANGED <<low, high, committed, member, archived, rejected, owned, generation,
                     failures, stops, rebalances, retention>>
  BY DEF Polled, kafkaVars, storeVars, boundVars
<1>2. \A q \in Partitions : Log[q] \subseteq Nat
  BY LogAssumption
<1>3. o \in Nat /\ <<p, o>> \in Records
  BY <1>2 DEF Records
<1>4. o \notin observed[p] /\ o \notin resolved[p]
  BY <1>1, <1>2 DEF LakeInv, DataOK, PrefixOK
<1>5. LedgerTypes' /\ position' \in [Partitions -> Nat]
  BY <1>1, <1>3 DEF LakeInv, DataOK, LedgerTypes
<1>6. frozen = NoFlush
  BY <1>1 DEF LakeInv, LoopOK
<1>7. /\ \A q \in Partitions : Unresolved(q) \subseteq Unresolved(q)'
      /\ resolved' = resolved => o \in Unresolved(p)'
  BY <1>1, <1>3, <1>4 DEF LakeInv, DataOK, Unresolved
<1>8. CommittedOK' /\ \A r : IsSettled(r)' <=> IsSettled(r)
  BY <1>1 DEF LakeInv, CommittedOK, Safe, IsSettled
<1>9. PrefixOK'
  <2> SUFFICES ASSUME NEW q \in Partitions
               PROVE  /\ \A e \in observed'[q] : e < position'[q]
                      /\ \A e \in Log[q] : committed'[q] <= e /\ e < position'[q] => e \in observed'[q]
                      /\ resolved'[q] \subseteq observed'[q]
                      /\ \A e \in resolved'[q] : IsSettled(<<q, e>>)'
    BY DEF PrefixOK
  <2>1. CASE q # p
    BY <1>1, <1>8, <2>1 DEF LakeInv, DataOK, PrefixOK
  <2>2. CASE q = p
    <3>1. observed'[p] = observed[p] \cup {o} /\ position'[p] = o + 1
      BY <1>1 DEF LakeInv, DataOK
    <3>2. resolved'[p] \subseteq resolved[p] \cup {o}
          /\ (o \in resolved'[p] => Kind[<<p, o>>] = "skip")
      BY <1>4 DEF LakeInv, DataOK
    <3>3. \A e \in observed'[p] : e < position'[p]
      BY <1>1, <1>2, <1>3, <3>1 DEF LakeInv, DataOK, PrefixOK
    <3>4. ASSUME NEW e \in Log[p], committed[p] <= e, e < o + 1 PROVE e \in observed'[p]
      <4>1. e \in Nat /\ position[p] \in Nat
        BY <1>2 DEF LakeInv, DataOK
      <4>2. e < position[p] => e \in observed[p]
        BY <3>4 DEF LakeInv, PrefixOK
      <4>3. ~(e < position[p]) => e = o
        <5>1. ~(e < position[p]) => o <= e
          BY <1>1, <4>1
        <5> QED BY <1>3, <3>4, <4>1, <5>1
      <4> QED BY <3>1, <4>2, <4>3
    <3>5. /\ resolved'[p] \subseteq observed'[p]
          /\ \A e \in resolved'[p] : IsSettled(<<p, e>>)'
      BY <1>8, <3>1, <3>2 DEF LakeInv, PrefixOK, IsSettled
    <3> QED BY <1>1, <2>2, <3>1, <3>3, <3>4, <3>5
  <2> QED BY <2>1, <2>2
<1>10. StandingOK'
  BY <1>1, <1>2, <1>3 DEF LakeInv, DataOK, StandingOK
<1> QED BY <1>1, <1>3, <1>4, <1>5, <1>6, <1>7, <1>8, <1>9, <1>10

LEMMA PollRejectStep ==
  ASSUME LakeInv, NEW p \in Partitions, NEW o \in Log[p], PollReject(p, o)
  PROVE  LakeInv'
<1>1. /\ Polled(p, o) /\ Kind[<<p, o>>] = "reject" /\ resolved' = resolved
      /\ pc' = "reject" /\ then' = "top" /\ current' = NoRecord
      /\ pending' = pending \cup {<<p, o>>} /\ todo' = pending'
      /\ UNCHANGED <<buffer, aged, frozen>>
  BY DEF PollReject, StartRejections, batchVars
<1>2. /\ LedgerTypes' /\ CommittedOK' /\ PrefixOK' /\ StandingOK'
      /\ frozen = NoFlush /\ p \in owned /\ <<p, o>> \in Records
      /\ position' \in [Partitions -> Nat]
      /\ \A q \in Partitions : Unresolved(q) \subseteq Unresolved(q)'
      /\ UNCHANGED <<low, high, committed, member, archived, rejected, owned, generation,
                     failures, stops, rebalances, retention>>
  BY <1>1, PolledStep
<1>3. DataOK'
  BY <1>1, <1>2 DEF LakeInv, DataOK, LedgerTypes, PcValues
<1>4. HeldOK' /\ FlushOK' /\ LoopOK'
  BY <1>1, <1>2 DEF LakeInv, HeldOK, FlushOK, LoopOK
<1> QED BY <1>2, <1>3, <1>4 DEF LakeInv

LEMMA PollSkipStep ==
  ASSUME LakeInv, NEW p \in Partitions, NEW o \in Log[p], PollSkip(p, o)
  PROVE  LakeInv'
<1>1. /\ Polled(p, o) /\ Kind[<<p, o>>] = "skip"
      /\ resolved' = [resolved EXCEPT ![p] = @ \cup {o}]
      /\ pc' = "exclude" /\ current' = <<p, o>>
      /\ UNCHANGED <<then, pending, todo, buffer, aged, frozen>>
  BY DEF PollSkip, batchVars
<1>2. /\ LedgerTypes' /\ CommittedOK' /\ PrefixOK' /\ StandingOK'
      /\ frozen = NoFlush /\ p \in owned /\ <<p, o>> \in Records
      /\ position' \in [Partitions -> Nat]
      /\ \A q \in Partitions : Unresolved(q) \subseteq Unresolved(q)'
      /\ UNCHANGED <<low, high, committed, member, archived, rejected, owned, generation,
                     failures, stops, rebalances, retention>>
  BY <1>1, PolledStep
<1>3. DataOK'
  BY <1>1, <1>2 DEF LakeInv, DataOK, LedgerTypes, PcValues
<1>4. HeldOK' /\ FlushOK' /\ LoopOK'
  BY <1>1, <1>2 DEF LakeInv, HeldOK, FlushOK, LoopOK
<1> QED BY <1>2, <1>3, <1>4 DEF LakeInv

\* A record is buffered, in its buffer or, after a forced flush, in an empty one.
LEMMA PollEventStep ==
  ASSUME LakeInv, NEW p \in Partitions, NEW o \in Log[p],
         PollBuffer(p, o) \/ PollFlushThenBuffer(p, o)
  PROVE  LakeInv'
<1>1. /\ Polled(p, o) /\ Kind[<<p, o>>] = "event" /\ resolved' = resolved
      /\ pc' = "reject" /\ then' = "top" /\ current' = NoRecord
      /\ pending' = pending /\ todo' = pending
  BY DEF PollBuffer, PollFlushThenBuffer, StartRejections
<1>2. /\ LedgerTypes' /\ CommittedOK' /\ PrefixOK' /\ StandingOK'
      /\ frozen = NoFlush /\ p \in owned /\ <<p, o>> \in Records
      /\ position' \in [Partitions -> Nat]
      /\ o \notin observed[p]
      /\ \A q \in Partitions : Unresolved(q) \subseteq Unresolved(q)'
      /\ o \in Unresolved(p)'
      /\ UNCHANGED <<low, high, committed, member, archived, rejected, owned, generation,
                     failures, stops, rebalances, retention>>
  BY <1>1, PolledStep
<1>3. /\ buffer \in [Partitions -> SUBSET Nat] /\ aged \subseteq Partitions /\ o \in Nat
      /\ \A q \in Partitions : buffer[q] \subseteq Log[q] /\ buffer[q] \subseteq Unresolved(q)'
      /\ \A q \in Partitions : \A e \in buffer[q] : Kind[<<q, e>>] = "event"
      /\ \A q \in Partitions \ owned : buffer[q] = {}
      /\ o \notin buffer[p]
  BY <1>2, LogAssumption DEF LakeInv, DataOK, HeldOK, Unresolved
<1>4. BatchTypes' /\ GoodBuffers(buffer)' /\ FreshFlush(frozen, buffer)'
  <2>1. CASE PollBuffer(p, o)
    <3>1. PICK b : b = [buffer EXCEPT ![p] = @ \cup {o}]
      OBVIOUS
    <3>2. PICK old : old = aged
      OBVIOUS
    <3>3. PICK f : f = NoFlush
      OBVIOUS
    <3>4. FlushReady(b, old, f)
      BY <1>2, <2>1, <3>1, <3>2, <3>3 DEF PollBuffer
    <3>5. GoodBuffers(b)'
      BY <1>1, <1>2, <1>3, <3>1 DEF GoodBuffers
    <3>6. FreshFlush(f, b)' /\ old \in SUBSET Partitions
      BY <1>3, <3>2, <3>3 DEF FreshFlush
    <3> QED BY <1>2, <3>4, <3>5, <3>6, FlushReadyStep DEF LakeInv
  <2>2. CASE PollFlushThenBuffer(p, o)
    <3>1. PICK b : b = [buffer EXCEPT ![p] = {o}]
      OBVIOUS
    <3>2. PICK old : old = aged \ {p}
      OBVIOUS
    <3>3. PICK f : f = Freeze(buffer, p)
      OBVIOUS
    <3>4. FlushReady(b, old, f)
      BY <2>2, <3>1, <3>2, <3>3 DEF PollFlushThenBuffer
    <3>5. GoodBuffers(b)'
      BY <1>1, <1>2, <1>3, <3>1 DEF GoodBuffers
    <3>6. f = [part |-> p, left |-> buffer[p], commit |-> None, attempts |-> 0, gen |-> generation]
      BY <3>3 DEF Freeze
    <3>7. f \in Flushes
      BY <1>3, <3>6 DEF Flushes, LakeInv, DataOK
    <3>8. b[p] = {o}
      BY <1>3, <3>1
    <3>9. FreshFlush(f, b)'
      BY <1>2, <1>3, <3>6, <3>7, <3>8 DEF FreshFlush
    <3>10. old \in SUBSET Partitions
      BY <1>3, <3>2
    <3> QED BY <1>2, <3>4, <3>5, <3>9, <3>10, FlushReadyStep DEF LakeInv
  <2> QED BY <2>1, <2>2
<1>5. DataOK'
  BY <1>1, <1>2, <1>4 DEF LakeInv, DataOK, LedgerTypes, BatchTypes, PcValues
<1>6. HeldOK' /\ FlushOK' /\ LoopOK'
  BY <1>1, <1>2, <1>4 DEF LakeInv, HeldOK, FlushOK, LoopOK, GoodBuffers, FreshFlush
<1> QED BY <1>2, <1>5, <1>6 DEF LakeInv

-----------------------------------------------------------------------------
(* Rebalances, the flush and the environment                               *)

\* Every partition starts at the offset of the group, with an empty ledger.
LEMMA AssignStep ==
  ASSUME LakeInv, NEW S \in SUBSET Partitions, Assign(S)
  PROVE  LakeInv'
<1>1. /\ pc = "poll" /\ owned = {} /\ pc' = "top" /\ owned' = S
      /\ generation' = generation + 1
      /\ position' = [p \in Partitions |-> IF p \in S THEN Start(p) ELSE 0]
      /\ \A p \in S : Start(p) # None
      /\ observed' = Nothing /\ resolved' = Nothing
      /\ UNCHANGED <<low, high, committed, archived, rejected, buffer, aged, frozen, then, pending,
                     todo, current, failures, stops, rebalances, retention>>
  BY DEF Assign, Cleared, storeVars, batchVars, boundVars
<1>2. frozen = NoFlush /\ pending = {} /\ \A p \in Partitions : buffer[p] = {}
  BY <1>1 DEF LakeInv, LoopOK, HeldOK
<1>3. \A p \in S : Start(p) = committed[p] /\ Start(p) \in Nat
  BY <1>1 DEF LakeInv, DataOK, Start, ChooseStart, None
<1>4. position' \in [Partitions -> Nat] /\ \A p \in Partitions : Log[p] \subseteq Nat
  BY <1>1, <1>3, LogAssumption
<1>5. DataOK'
  BY <1>1, <1>4 DEF LakeInv, DataOK, PcValues, Nothing
<1>6. CommittedOK'
  BY <1>1 DEF LakeInv, CommittedOK, Safe, IsSettled
<1>7. PrefixOK'
  <2> SUFFICES ASSUME NEW p \in Partitions, NEW o \in Log[p], committed[p] <= o, o < position'[p]
               PROVE  FALSE
    BY <1>1 DEF PrefixOK, Nothing
  <2>1. o \in Nat /\ committed[p] \in Nat
    BY <1>4 DEF LakeInv, DataOK
  <2>2. CASE p \in S
    BY <1>1, <1>3, <2>1, <2>2
  <2>3. CASE p \notin S
    BY <1>1, <2>1, <2>3
  <2> QED BY <2>2, <2>3
<1>8. StandingOK'
  BY <1>1, <1>3 DEF LakeInv, DataOK, StandingOK, Nothing
<1>9. HeldOK' /\ FlushOK' /\ LoopOK'
  BY <1>1, <1>2 DEF HeldOK, FlushOK, LoopOK, Nothing
<1> QED BY <1>5, <1>6, <1>7, <1>8, <1>9 DEF LakeInv

LEMMA RevokeStep == ASSUME LakeInv, Revoke PROVE LakeInv'
<1>1. /\ pending = {} /\ \A p \in Partitions : buffer[p] = {}
      /\ owned' = {} /\ frozen' = NoFlush /\ pc' = "top"
      /\ UNCHANGED <<low, high, committed, member, archived, rejected, generation, position,
                     observed, resolved, buffer, aged, then, pending, todo, current,
                     failures, stops, rebalances, retention>>
  BY DEF Revoke, HoldsWork, kafkaVars, storeVars, ledgerVars, batchVars, boundVars
<1>2. DataOK'
  BY <1>1 DEF LakeInv, DataOK, PcValues
<1>3. CommittedOK' /\ PrefixOK' /\ StandingOK'
  BY <1>1, LedgerFrame DEF LakeInv
<1>4. HeldOK' /\ FlushOK' /\ LoopOK'
  BY <1>1 DEF HeldOK, FlushOK, LoopOK
<1> QED BY <1>2, <1>3, <1>4 DEF LakeInv

\* The members of a verified object are resolved; what is left stays open.
LEMMA PublishGroupStep == ASSUME LakeInv, PublishGroup PROVE LakeInv'
<1> DEFINE p == frozen.part
<1>1. /\ frozen \in Flushes /\ p \in Partitions /\ p \in owned
      /\ Group \subseteq frozen.left /\ frozen.left \subseteq Log[p] /\ GroupRecords \subseteq Records
  BY GroupTypes DEF PublishGroup
<1>2. PICK G : G = Group
  OBVIOUS
<1>3. /\ pc = "top" /\ frozen # NoFlush
      /\ archived' = archived \cup GroupRecords
      /\ resolved' = [resolved EXCEPT ![p] = @ \cup G]
      /\ frozen' = [frozen EXCEPT !.left = @ \ G, !.attempts = 0]
      /\ UNCHANGED <<low, high, committed, member, rejected, owned, generation, position, observed,
                     buffer, aged, pc, then, pending, todo, current, failures, stops,
                     rebalances, retention>>
  BY <1>2 DEF PublishGroup, Advancing, kafkaVars, consumerVars, batchVars, loopVars, boundVars
<1>4. /\ G \subseteq frozen.left /\ G \subseteq observed[p] /\ G \subseteq Log[p]
      /\ G \cap buffer[p] = {} /\ \A o \in G : <<p, o>> \in archived'
  BY <1>1, <1>2, <1>3 DEF LakeInv, FlushOK, Unresolved, GroupRecords
<1>5. frozen' \in Flushes /\ frozen'.part = p /\ frozen'.left = frozen.left \ G
      /\ frozen'.commit = frozen.commit /\ frozen'.gen = frozen.gen
  BY <1>1, <1>3 DEF Flushes
<1>6. /\ resolved' \in [Partitions -> SUBSET Nat] /\ resolved'[p] = resolved[p] \cup G
      /\ \A q \in Partitions : q # p => resolved'[q] = resolved[q]
      /\ \A q \in Partitions : resolved'[q] \subseteq Log[q]
  BY <1>1, <1>3, <1>4, LogAssumption DEF LakeInv, DataOK
<1>7. DataOK'
  BY <1>1, <1>3, <1>5, <1>6 DEF LakeInv, DataOK
<1>8. CommittedOK' /\ StandingOK'
  BY <1>3 DEF LakeInv, CommittedOK, StandingOK, Safe, IsSettled
<1>9. PrefixOK'
  BY <1>3, <1>4, <1>6 DEF LakeInv, PrefixOK, IsSettled
<1>10. HeldOK'
  BY <1>3, <1>4, <1>6 DEF LakeInv, HeldOK, Unresolved
<1>11. FlushOK'
  <2>1. frozen'.left \subseteq Unresolved(p)' /\ Unresolved(p)' \subseteq Unresolved(p)
    BY <1>3, <1>5, <1>6 DEF LakeInv, FlushOK, Unresolved
  <2>2. \A n : Safe(p, n) => Safe(p, n)'
    BY <1>3 DEF Safe, IsSettled
  <2> QED BY <1>3, <1>5, <2>1, <2>2 DEF LakeInv, FlushOK
<1>12. LoopOK'
  BY <1>3 DEF LoopOK
<1> QED BY <1>7, <1>8, <1>9, <1>10, <1>11, <1>12 DEF LakeInv

LEMMA PublishFailsStep == ASSUME LakeInv, PublishFails PROVE LakeInv'
<1>1. frozen \in Flushes /\ GroupRecords \subseteq Records
  BY GroupTypes DEF PublishFails
<1>2. /\ pc = "top" /\ frozen # NoFlush
      /\ archived \subseteq archived' /\ archived' \subseteq Records
      /\ failures' \in Nat
      /\ frozen' = [frozen EXCEPT !.attempts = @ + 1]
      /\ UNCHANGED <<low, high, committed, member, rejected, owned, generation, position, observed,
                     resolved, buffer, aged, pc, then, pending, todo, current, stops,
                     rebalances, retention>>
  BY <1>1 DEF PublishFails, Fail, Advancing, kafkaVars, consumerVars, ledgerVars, batchVars,
              loopVars, LakeInv, DataOK
<1>3. frozen' \in Flushes /\ frozen'.part = frozen.part /\ frozen'.left = frozen.left
      /\ frozen'.commit = frozen.commit /\ frozen'.gen = frozen.gen
  BY <1>1, <1>2 DEF Flushes
<1>4. DataOK'
  BY <1>2, <1>3 DEF LakeInv, DataOK
<1>5. CommittedOK' /\ PrefixOK' /\ StandingOK'
  BY <1>2, LedgerFrame DEF LakeInv
<1>6. HeldOK' /\ LoopOK'
  BY <1>2 DEF LakeInv, HeldOK, LoopOK, Unresolved
<1>7. FlushOK'
  BY <1>2, <1>3 DEF LakeInv, FlushOK, Unresolved, Safe, IsSettled
<1> QED BY <1>4, <1>5, <1>6, <1>7 DEF LakeInv

\* The offset a finished flush is going to commit is the next offset of its prefix.
LEMMA FinishFlushStep == ASSUME LakeInv, FinishFlush PROVE LakeInv'
<1> DEFINE p == frozen.part
<1>1. frozen \in Flushes /\ p \in Partitions /\ p \in owned
  BY GroupTypes DEF FinishFlush
<1>2. PICK n : n = NextOffset(observed[p], resolved[p])
  OBVIOUS
<1>3. /\ pc = "top" /\ frozen # NoFlush /\ frozen.left = {}
      /\ frozen' = [frozen EXCEPT !.commit = n]
      /\ UNCHANGED <<low, high, committed, member, archived, rejected, owned, generation, position,
                     observed, resolved, buffer, aged, pc, then, pending, todo, current,
                     failures, stops, rebalances, retention>>
  BY <1>2 DEF FinishFlush, Advancing, kafkaVars, storeVars, consumerVars, ledgerVars, batchVars,
              loopVars, boundVars
<1>4. n # None => /\ n \in Nat /\ n <= position[p] /\ Safe(p, n)
                  /\ \A u \in Unresolved(p) : n <= u
                  /\ member => committed[p] <= n
  <2>1. \A o \in resolved[p] : IsSettled(<<p, o>>)
    BY <1>1 DEF LakeInv, PrefixOK
  <2> QED BY <1>1, <1>2, <2>1, PrefixNext DEF LakeInv, Unresolved
<1>5. frozen' \in Flushes /\ frozen'.part = p /\ frozen'.left = {}
      /\ frozen'.commit = n /\ frozen'.gen = frozen.gen
  BY <1>1, <1>3, <1>4 DEF Flushes
<1>6. DataOK'
  BY <1>3, <1>5 DEF LakeInv, DataOK
<1>7. CommittedOK' /\ PrefixOK' /\ StandingOK'
  BY <1>3, LedgerFrame DEF LakeInv
<1>8. HeldOK' /\ LoopOK'
  BY <1>3 DEF LakeInv, HeldOK, LoopOK, Unresolved
<1>9. FlushOK'
  BY <1>1, <1>3, <1>4, <1>5 DEF LakeInv, FlushOK, Unresolved, Safe, IsSettled
<1> QED BY <1>6, <1>7, <1>8, <1>9 DEF LakeInv

LEMMA CompleteCommitStep ==
  ASSUME LakeInv, CompleteCommit \/ CompleteCommitFails
  PROVE  LakeInv'
<1> DEFINE p == frozen.part
<1>1. frozen \in Flushes /\ p \in Partitions /\ p \in owned
  BY GroupTypes DEF CompleteCommit, CompleteCommitFails
<1>2. CASE CompleteCommit
  <2>1. PICK n : n = frozen.commit
    OBVIOUS
  <2>2. PICK R : R = resolved
    OBVIOUS
  <2>3. /\ CommitOk(p, n, observed, R) /\ n # None /\ frozen # NoFlush /\ frozen' = NoFlush
        /\ pc' = "reject" /\ then' = "top" /\ todo' = pending /\ current' = NoRecord
        /\ UNCHANGED <<low, high, member, archived, rejected, owned, generation, position,
                       buffer, aged, pending, failures, stops, rebalances, retention>>
    BY <1>2, <2>1, <2>2 DEF CompleteCommit, Advancing, CommitOk, NoFailure, StartRejections,
                            storeVars, consumerVars, batchVars
  <2>4. /\ n \in Nat /\ n <= position[p] /\ Safe(p, n) /\ committed[p] <= n
        /\ \A u \in observed[p] \ R[p] : n <= u
    BY <1>1, <2>1, <2>2, <2>3 DEF LakeInv, FlushOK, Flushes, Unresolved, CommitOk
  <2>5. /\ R \in [Partitions -> SUBSET Nat]
        /\ \A q \in Partitions : R[q] \subseteq Log[q] /\ R[q] = resolved[q]
        /\ R[p] \subseteq observed[p] /\ \A o \in R[p] : IsSettled(<<p, o>>)
    BY <1>1, <2>2 DEF LakeInv, DataOK, PrefixOK
  <2>6. /\ LedgerTypes' /\ CommittedOK' /\ PrefixOK' /\ StandingOK'
        /\ \A q \in Partitions : Unresolved(q)' = observed[q] \ R[q]
    <3> HIDE DEF p
    <3> QED BY <1>1, <2>3, <2>4, <2>5, CommitStep DEF LakeInv, LedgerTypes
  <2>7. DataOK'
    BY <2>3, <2>6 DEF LakeInv, DataOK, LedgerTypes, PcValues
  <2>8. HeldOK' /\ FlushOK' /\ LoopOK'
    BY <2>2, <2>3, <2>6 DEF LakeInv, HeldOK, FlushOK, LoopOK, Unresolved
  <2> QED BY <2>6, <2>7, <2>8 DEF LakeInv
<1>3. CASE CompleteCommitFails
  <2>1. /\ failures' = failures + 1
        /\ UNCHANGED <<low, high, committed, member, archived, rejected, owned, generation,
                       position, observed, resolved, buffer, aged, frozen, pc, then, pending, todo,
                       current, stops, rebalances, retention>>
    BY <1>3 DEF CompleteCommitFails, CommitRefused, Fail, storeVars, consumerVars, batchVars,
                loopVars
  <2>2. DataOK' /\ LoopOK'
    BY <2>1 DEF LakeInv, DataOK, LoopOK
  <2>3. CommittedOK' /\ PrefixOK' /\ StandingOK'
    BY <2>1, LedgerFrame DEF LakeInv
  <2>4. HeldOK' /\ FlushOK'
    BY <2>1, FlushFrame DEF LakeInv
  <2> QED BY <2>2, <2>3, <2>4 DEF LakeInv
<1> QED BY <1>2, <1>3
\* Time, producers, retention and the group, none of which touches the ledger.
LEMMA OutsideStep ==
  ASSUME LakeInv,
         \/ \E p \in Partitions : Age(p) \/ Produce(p) \/ Retain(p) \/ ElsewhereStores(p)
         \/ Evict \/ Restart \/ UNCHANGED vars
  PROVE  LakeInv'
<1>1. /\ low' \in [Partitions -> Nat] /\ high' \in [Partitions -> Nat]
      /\ archived \subseteq archived' /\ rejected \subseteq rejected'
      /\ archived' \subseteq Records /\ rejected' \subseteq Records
      /\ aged' \subseteq Partitions
      /\ pc' = pc \/ pc' = "top"
      /\ member' => member
      /\ rebalances' \in Nat /\ retention' \in Nat
      /\ UNCHANGED <<committed, owned, generation, position, observed, resolved, buffer, frozen,
                     then, pending, todo, current, failures, stops>>
  <2>1. /\ low \in [Partitions -> Nat] /\ high \in [Partitions -> Nat]
        /\ archived \subseteq Records /\ rejected \subseteq Records /\ aged \subseteq Partitions
        /\ rebalances \in Nat /\ retention \in Nat
        /\ \A p \in Partitions : Log[p] \subseteq Nat /\ \A o \in Log[p] : <<p, o>> \in Records
    <3>1. \A p \in Partitions : Log[p] \subseteq Nat /\ \A o \in Log[p] : <<p, o>> \in Records
      BY LogAssumption DEF Records
    <3> QED BY <3>1 DEF LakeInv, DataOK
  <2>2. ASSUME NEW p \in Partitions, Age(p) PROVE <1>1
    BY <2>1, <2>2 DEF Age, kafkaVars, storeVars, consumerVars, ledgerVars, loopVars, boundVars
  <2>3. ASSUME NEW p \in Partitions, Produce(p) PROVE <1>1
    <3>1. PICK o \in Log[p] : high' = [high EXCEPT ![p] = o + 1]
      BY <2>3 DEF Produce
    <3>2. high' \in [Partitions -> Nat]
      BY <2>1, <3>1
    <3> QED BY <2>1, <2>3, <3>2 DEF Produce, storeVars, processVars, consumerVars, ledgerVars,
                                    batchVars, loopVars, boundVars
  <2>4. ASSUME NEW p \in Partitions, Retain(p) PROVE <1>1
    BY <2>1, <2>4 DEF Retain, storeVars, processVars, consumerVars, ledgerVars, batchVars,
                      loopVars
  <2>5. CASE Evict
    BY <2>1, <2>5 DEF Evict, storeVars, processVars, consumerVars, ledgerVars, batchVars,
                      loopVars
  <2>6. ASSUME NEW p \in Partitions, ElsewhereStores(p) PROVE <1>1
    BY <2>1, <2>6 DEF ElsewhereStores, kafkaVars, processVars, consumerVars, ledgerVars,
                      batchVars, loopVars, boundVars
  <2>7. CASE Restart
    BY <2>1, <2>7 DEF Restart, kafkaVars, storeVars, consumerVars, ledgerVars, batchVars,
                      boundVars
  <2>8. CASE UNCHANGED vars
    BY <2>1, <2>8 DEF vars, kafkaVars, storeVars, consumerVars, ledgerVars, batchVars,
                      loopVars, boundVars
  <2> QED BY <2>2, <2>3, <2>4, <2>5, <2>6, <2>7, <2>8
<1>2. DataOK'
  BY <1>1 DEF LakeInv, DataOK, PcValues
<1>3. CommittedOK' /\ PrefixOK' /\ StandingOK'
  BY <1>1, LedgerFrame DEF LakeInv
<1>4. HeldOK' /\ FlushOK'
  BY <1>1, FlushFrame DEF LakeInv
<1>5. LoopOK'
  BY <1>1 DEF LakeInv, LoopOK
<1> QED BY <1>2, <1>3, <1>4, <1>5 DEF LakeInv

\* Another mapper commits the next record of a partition this process cannot commit.
LEMMA ElsewhereCommitsStep ==
  ASSUME LakeInv, NEW p \in Partitions, ElsewhereCommits(p)
  PROVE  LakeInv'
<1>1. PICK o \in Log[p] :
        /\ ElsewhereNext(p, o) /\ IsSettled(<<p, o>>)
        /\ committed' = [committed EXCEPT ![p] = o + 1]
  BY DEF ElsewhereCommits
<1>2. UNCHANGED <<low, high, member, archived, rejected, owned, generation, position, observed,
                  resolved, buffer, aged, frozen, pc, then, pending, todo, current,
                  failures, stops, rebalances, retention>>
  BY DEF ElsewhereCommits, storeVars, processVars, consumerVars, ledgerVars, batchVars,
         loopVars, boundVars
<1>3. /\ Log[p] \subseteq Nat /\ committed \in [Partitions -> Nat] /\ position \in [Partitions -> Nat]
      /\ committed[p] <= o /\ \A e \in Log[p] : committed[p] <= e => o <= e
      /\ ~(member /\ p \in owned)
      /\ \A q \in Partitions : FirstCommitted[q] \in Nat \cup {None} /\ Log[q] \subseteq Nat
  BY <1>1, LogAssumption DEF ElsewhereNext, LakeInv, DataOK
<1>4. /\ committed' \in [Partitions -> Nat] /\ committed'[p] = o + 1
      /\ \A q \in Partitions : q # p => committed'[q] = committed[q]
  BY <1>1, <1>3
<1>5. DataOK'
  BY <1>2, <1>4 DEF LakeInv, DataOK
<1>6. CommittedOK'
  <2>1. \A r : IsSettled(r)' <=> IsSettled(r)
    BY <1>2 DEF IsSettled
  <2>2. ASSUME NEW e \in Log[p], FirstCommitted[p] <= e, e < o + 1
        PROVE  IsSettled(<<p, e>>)
    <3>1. CASE e < committed[p]
      BY <2>2, <3>1 DEF LakeInv, CommittedOK, Safe
    <3>2. CASE ~(e < committed[p])
      <4>1. e = o
        BY <1>3, <2>2, <3>2
      <4> QED BY <1>1, <4>1
    <3> QED BY <3>1, <3>2
  <2>3. ASSUME NEW q \in Partitions, NEW e \in Log[q], q # p,
               FirstCommitted[q] <= e, e < committed'[q]
        PROVE  IsSettled(<<q, e>>)
    BY <1>4, <2>3 DEF LakeInv, CommittedOK, Safe
  <2>4. ASSUME NEW q \in Partitions, NEW e \in Log[q],
               FirstCommitted[q] <= e, e < committed'[q]
        PROVE  IsSettled(<<q, e>>)'
    BY <1>4, <2>1, <2>2, <2>3, <2>4
  <2> QED BY <2>4 DEF CommittedOK, Safe
<1>7. PrefixOK'
  <2>1. \A q \in Partitions : committed[q] <= committed'[q]
    BY <1>3, <1>4
  <2>2. ASSUME NEW q \in Partitions, NEW e \in Log[q], committed'[q] <= e, e < position[q]
        PROVE  e \in observed[q]
    <3>1. committed[q] <= e
      BY <1>3, <1>4, <2>1, <2>2
    <3> QED BY <2>2, <3>1 DEF LakeInv, PrefixOK
  <2> QED BY <1>2, <2>2 DEF LakeInv, PrefixOK, IsSettled
<1>8. StandingOK'
  BY <1>2, <1>3, <1>4 DEF LakeInv, DataOK, StandingOK
<1>9. HeldOK' /\ LoopOK'
  BY <1>2 DEF LakeInv, HeldOK, LoopOK, Unresolved
<1>10. FlushOK'
  <2>1. frozen # NoFlush => frozen.part \in Partitions /\ frozen.part \in owned
    BY DEF LakeInv, FlushOK, DataOK
  <2>2. frozen # NoFlush /\ member => committed'[frozen.part] = committed[frozen.part]
    BY <1>3, <1>4, <2>1
  <2> QED BY <1>2, <2>2 DEF LakeInv, FlushOK, Unresolved, Safe, IsSettled
<1> QED BY <1>5, <1>6, <1>7, <1>8, <1>9, <1>10 DEF LakeInv

-----------------------------------------------------------------------------
(* The invariant, and what follows from it                                 *)

LEMMA InitStep == ASSUME HasOffsets, Init PROVE LakeInv
<1>1. DataOK
  BY LogAssumption DEF HasOffsets, Init, DataOK, PcValues, Nothing
<1>2. \A p \in Partitions : Log[p] \subseteq Nat /\ FirstCommitted[p] \in Nat
  BY LogAssumption DEF HasOffsets
<1>3. CommittedOK
  BY <1>2 DEF Init, CommittedOK, Safe
<1>4. PrefixOK
  BY <1>2 DEF HasOffsets, Init, PrefixOK, Nothing
<1>5. StandingOK /\ HeldOK /\ FlushOK /\ LoopOK
  BY DEF Init, StandingOK, HeldOK, FlushOK, LoopOK, Nothing
<1> QED BY <1>1, <1>3, <1>4, <1>5 DEF LakeInv

LEMMA NextInv == ASSUME LakeInv, [Next]_vars PROVE LakeInv'
<1>1. CASE FlushTop
  BY <1>1, FlushTopStep
<1>2. CASE Rejections
  <2>1. CASE SettleRejection
    BY <2>1, SettleStep
  <2>2. CASE LedgerError
    BY <2>2, EndStep
  <2>3. CASE \/ \E r \in todo : RejectionWaits(r) \/ PublishRejectionFails(r) \/ PublishRejection(r)
             \/ RejectionsDone
    BY <2>3, LoopStep
  <2> QED BY <1>2, <2>1, <2>2, <2>3 DEF Rejections
<1>3. CASE PollNothing
  BY <1>3, LoopStep
<1>4. ASSUME NEW p \in Partitions, PollRecord(p) PROVE LakeInv'
  <2>1. PICK o \in Log[p] :
          PollReject(p, o) \/ PollSkip(p, o) \/ PollBuffer(p, o) \/ PollFlushThenBuffer(p, o)
    BY <1>4 DEF PollRecord
  <2> QED BY <2>1, PollRejectStep, PollSkipStep, PollEventStep
<1>5. CASE ExcludeRecord
  BY <1>5, ExcludeStep
<1>6. CASE PollOutOfRange \/ ExcludeFails \/ CommitFenced \/ Crash
  BY <1>6, EndStep
<1>7. CASE Rebalanced
  <2>1. ASSUME NEW S \in (SUBSET Partitions) \ {{}}, Assign(S) PROVE LakeInv'
    BY <2>1, AssignStep
  <2>2. CASE RevokeFails \/ \E S \in (SUBSET Partitions) \ {{}} : AssignFails(S)
    BY <2>2, EndStep
  <2> QED BY <1>7, <2>1, <2>2, RevokeStep DEF Rebalanced
<1>8. CASE AdvanceFlush
  BY <1>8, PublishGroupStep, PublishFailsStep, EndStep, FinishFlushStep, CompleteCommitStep
     DEF AdvanceFlush
<1>9. CASE Environment
  <2>1. CASE Evict
    BY <2>1, OutsideStep
  <2> QED BY <1>9, <2>1, OutsideStep, ElsewhereCommitsStep DEF Environment, Elsewhere
<1>10. CASE Restart \/ UNCHANGED vars
  BY <1>10, OutsideStep
<1> QED BY <1>1, <1>2, <1>3, <1>4, <1>5, <1>6, <1>7, <1>8, <1>9, <1>10 DEF Next, Process

\* The invariant above, as a theorem: the strengthening every result below rests on.
THEOREM LakeInductive == ASSUME HasOffsets PROVE Spec => []LakeInv
<1>1. Init => LakeInv
  BY InitStep
<1>2. LakeInv /\ [Next]_vars => LakeInv'
  BY NextInv
<1> QED BY <1>1, <1>2, PTL DEF Spec

-----------------------------------------------------------------------------
(* Nothing open is forgotten                                               *)

\* A flush that is going to commit has no record left, and every open record is held
\* or was in a flush that another one replaced.
KeptOK ==
  /\ replaced \subseteq Records
  /\ frozen.commit # None => frozen.left = {}
  /\ UnresolvedIsHeld

\* A step that opens no record and forgets none.
LEMMA KeptFrame ==
  ASSUME KeptOK, owned' \subseteq owned, owned \subseteq Partitions,
         \A p \in Partitions : Unresolved(p)' \subseteq Unresolved(p),
         \A r \in pending \ pending' : r[2] \notin Unresolved(r[1])',
         frozen'.part = frozen.part, frozen'.left = frozen.left,
         frozen'.commit = frozen.commit \/ frozen.left = {},
         UNCHANGED <<buffer, replaced>>
  PROVE  KeptOK'
<1>1. ASSUME NEW p \in owned', NEW o \in Unresolved(p)'
      PROVE  \/ o \in buffer[p]
             \/ frozen.part = p /\ o \in frozen.left
             \/ <<p, o>> \in pending' \/ <<p, o>> \in replaced
  <2>1. p \in owned /\ o \in Unresolved(p)
    BY <1>1
  <2>2. <<p, o>> \in pending => <<p, o>> \in pending'
    BY <1>1
  <2> QED BY <2>1, <2>2 DEF KeptOK, UnresolvedIsHeld
<1> QED BY <1>1 DEF KeptOK, UnresolvedIsHeld

\* What _flush_ready_partitions takes from the buffers it puts in the frozen flush, and
\* what it drops from there it dropped from a flush that was not committed.
LEMMA KeptFlush ==
  ASSUME NEW b \in [Partitions -> SUBSET Nat], NEW old, NEW f, FlushReady(b, old, f),
         f.commit = None, replaced \subseteq Records, owned' \subseteq Partitions,
         f # NoFlush => f.part \in Partitions /\ f.left \subseteq Log[f.part],
         \A p \in owned' : \A o \in Unresolved(p)' :
           \/ o \in b[p]
           \/ f.part = p /\ o \in f.left
           \/ <<p, o>> \in pending' \/ <<p, o>> \in replaced
  PROVE  KeptOK'
<1>1. PICK p \in FlushChoices(b, old) :
        /\ buffer' = IF p = NoPartition THEN b ELSE [b EXCEPT ![p] = {}]
        /\ frozen' = IF p = NoPartition THEN f ELSE Freeze(b, p)
        /\ replaced' = IF p = NoPartition THEN replaced
                       ELSE replaced \cup {<<f.part, o>> : o \in f.left}
  BY DEF FlushReady
<1>2. CASE p = NoPartition
  BY <1>1, <1>2 DEF KeptOK, UnresolvedIsHeld
<1>3. CASE p # NoPartition
  <2>1. p \in Partitions
    BY <1>3 DEF FlushChoices
  <2>2. /\ buffer' = [b EXCEPT ![p] = {}]
        /\ frozen' = [part |-> p, left |-> b[p], commit |-> None, attempts |-> 0, gen |-> generation]
        /\ replaced' = replaced \cup {<<f.part, o>> : o \in f.left}
    BY <1>1, <1>3 DEF Freeze
  <2>3. replaced' \subseteq Records
    BY <2>2 DEF Records, NoFlush
  <2>4. ASSUME NEW q \in owned', NEW o \in Unresolved(q)'
        PROVE  \/ o \in buffer'[q]
               \/ frozen'.part = q /\ o \in frozen'.left
               \/ <<q, o>> \in pending' \/ <<q, o>> \in replaced'
    BY <2>1, <2>2, <2>4
  <2> QED BY <2>2, <2>3, <2>4 DEF KeptOK, UnresolvedIsHeld
<1> QED BY <1>2, <1>3

LEMMA KeptDie == ASSUME Die PROVE KeptOK'
BY DEF Die, KeptOK, UnresolvedIsHeld, NoFlush

\* A settled rejection is resolved when it leaves the list.
LEMMA KeptSettle == ASSUME LakeInv, KeptOK, SettleRejection PROVE KeptOK'
<1>0. PICK p : p = current[1]
  OBVIOUS
<1>1. /\ p \in Partitions /\ current[2] \in Nat /\ current = <<p, current[2]>>
      /\ observed \in [Partitions -> SUBSET Nat] /\ resolved \in [Partitions -> SUBSET Nat]
      /\ owned \subseteq Partitions /\ pending \subseteq Records
  BY <1>0, LogAssumption DEF SettleRejection, LakeInv, DataOK, LoopOK, Records
<1>2. PICK R : R = ResolvedNow
  OBVIOUS
<1>3. R = [resolved EXCEPT ![p] = @ \cup {current[2]}]
  BY <1>0, <1>2 DEF ResolvedNow
<1>4. PICK n : n = NextOffset(observed[p], R[p])
  OBVIOUS
<1>5. /\ \/ observed' = observed /\ resolved' = R
         \/ observed' = Discard(observed, p, n) /\ resolved' = Discard(R, p, n)
      /\ pending \ {current} \subseteq pending'
      /\ UNCHANGED <<owned, buffer, replaced, frozen>>
  BY <1>0, <1>2, <1>4 DEF SettleRejection, CommitOk, CommitRefused, Settled, Unsettled,
                    consumerVars, batchVars
<1>6. /\ \A q \in Partitions : q # p => R[q] = resolved[q]
      /\ R[p] = resolved[p] \cup {current[2]}
  BY <1>1, <1>3
<1>7. PICK c : c = current[2]
  OBVIOUS
<1>8. /\ \A q \in Partitions : Unresolved(q)' \subseteq Unresolved(q)
      /\ c \notin Unresolved(p)'
  <2>1. CASE observed' = observed /\ resolved' = R
    BY <1>1, <1>6, <1>7, <2>1 DEF Unresolved
  <2>2. CASE observed' = Discard(observed, p, n) /\ resolved' = Discard(R, p, n)
    <3>1. R \in [Partitions -> SUBSET Nat]
      BY <1>1, <1>3
    <3>2. \A q \in Partitions : /\ observed'[q] \subseteq observed[q]
                                /\ R[q] \cap observed'[q] \subseteq resolved'[q]
      BY <1>1, <2>2, <3>1 DEF Discard
    <3> QED BY <1>1, <1>6, <1>7, <3>2 DEF Unresolved
  <2> QED BY <1>5, <2>1, <2>2
<1>9. ASSUME NEW r \in pending, r \notin pending' PROVE r[2] \notin Unresolved(r[1])'
  <2>1. r = current
    BY <1>5, <1>9
  <2> QED BY <1>0, <1>7, <1>8, <2>1
<1> QED BY <1>1, <1>5, <1>8, <1>9, KeptFrame

LEMMA KeptPoll ==
  ASSUME LakeInv, KeptOK, NEW p \in Partitions, PollRecord(p)
  PROVE  KeptOK'
<1>1. PICK o \in Log[p] :
        PollReject(p, o) \/ PollSkip(p, o) \/ PollBuffer(p, o) \/ PollFlushThenBuffer(p, o)
  BY DEF PollRecord
<1>2. /\ frozen = NoFlush /\ owned' = owned /\ owned \subseteq Partitions /\ o \in Nat
      /\ observed' = [observed EXCEPT ![p] = @ \cup {o}]
      /\ \A q \in Partitions : Log[q] \subseteq Nat /\ buffer[q] \subseteq Log[q]
      /\ observed \in [Partitions -> SUBSET Nat] /\ resolved \in [Partitions -> SUBSET Nat]
      /\ buffer \in [Partitions -> SUBSET Nat] /\ replaced \subseteq Records
  BY <1>1, LogAssumption DEF PollReject, PollSkip, PollBuffer, PollFlushThenBuffer, Polled, LakeInv,
                             DataOK, LoopOK, KeptOK
<1>3. resolved' = resolved =>
        \A q \in Partitions : \A e \in Unresolved(q)' : e \in Unresolved(q) \/ (q = p /\ e = o)
  BY <1>2 DEF Unresolved
<1>4. \A q \in owned : \A e \in Unresolved(q) :
        e \in buffer[q] \/ <<q, e>> \in pending \/ <<q, e>> \in replaced
  BY <1>2 DEF KeptOK, UnresolvedIsHeld, NoFlush
<1>5. CASE PollReject(p, o)
  <2>1. /\ resolved' = resolved /\ pending' = pending \cup {<<p, o>>}
        /\ UNCHANGED <<buffer, frozen, replaced>>
    BY <1>5 DEF PollReject, StartRejections, batchVars
  <2> QED BY <1>2, <1>3, <1>4, <2>1 DEF KeptOK, UnresolvedIsHeld, NoFlush
<1>6. CASE PollSkip(p, o)
  <2>1. /\ resolved' = [resolved EXCEPT ![p] = @ \cup {o}] /\ pending' = pending
        /\ UNCHANGED <<buffer, frozen, replaced>>
    BY <1>6 DEF PollSkip, batchVars
  <2>2. \A q \in Partitions : Unresolved(q)' \subseteq Unresolved(q)
    BY <1>2, <2>1 DEF Unresolved
  <2> QED BY <1>2, <2>1, <2>2, KeptFrame
<1>7. CASE PollBuffer(p, o)
  <2>1. PICK b : b = [buffer EXCEPT ![p] = @ \cup {o}]
    OBVIOUS
  <2>2. PICK old : old = aged
    OBVIOUS
  <2>3. PICK f : f = NoFlush
    OBVIOUS
  <2>4. FlushReady(b, old, f) /\ resolved' = resolved /\ pending' = pending
    BY <1>2, <1>7, <2>1, <2>2, <2>3 DEF PollBuffer, StartRejections
  <2>5. b \in [Partitions -> SUBSET Nat] /\ o \in b[p] /\ \A q \in Partitions : buffer[q] \subseteq b[q]
    BY <1>2, <2>1
  <2>6. \A q \in owned' : \A e \in Unresolved(q)' :
          e \in b[q] \/ <<q, e>> \in pending' \/ <<q, e>> \in replaced
    BY <1>2, <1>3, <1>4, <2>4, <2>5
  <2>7. f.commit = None /\ f = NoFlush
    BY <2>3 DEF NoFlush
  <2> QED BY <1>2, <2>4, <2>5, <2>6, <2>7, KeptFlush
<1>8. CASE PollFlushThenBuffer(p, o)
  <2>1. PICK b : b = [buffer EXCEPT ![p] = {o}]
    OBVIOUS
  <2>2. PICK old : old = aged \ {p}
    OBVIOUS
  <2>3. PICK f : f = Freeze(buffer, p)
    OBVIOUS
  <2>4. FlushReady(b, old, f) /\ resolved' = resolved /\ pending' = pending
    BY <1>8, <2>1, <2>2, <2>3 DEF PollFlushThenBuffer, StartRejections
  <2>5. /\ b \in [Partitions -> SUBSET Nat] /\ o \in b[p]
        /\ \A q \in Partitions : q # p => b[q] = buffer[q]
    BY <1>2, <2>1
  <2>6. f.commit = None /\ f.part = p /\ f.left = buffer[p]
    BY <2>3 DEF Freeze
  <2>7. \A q \in owned' : \A e \in Unresolved(q)' :
          \/ e \in b[q]
          \/ f.part = q /\ e \in f.left
          \/ <<q, e>> \in pending' \/ <<q, e>> \in replaced
    BY <1>2, <1>3, <1>4, <2>4, <2>5, <2>6
  <2> QED BY <1>2, <2>4, <2>5, <2>6, <2>7, KeptFlush
<1> QED BY <1>1, <1>5, <1>6, <1>7, <1>8

\* The flush resolves what it has written and, when all of it is, commits.
LEMMA KeptAdvance ==
  ASSUME LakeInv, KeptOK,
         PublishGroup \/ PublishFails \/ FinishFlush \/ CompleteCommit \/ CompleteCommitFails
  PROVE  KeptOK'
<1>0. PICK p : p = frozen.part
  OBVIOUS
<1>1. /\ frozen \in Flushes /\ p \in Partitions /\ owned \subseteq Partitions
      /\ observed \in [Partitions -> SUBSET Nat] /\ resolved \in [Partitions -> SUBSET Nat]
  BY <1>0, GroupTypes DEF PublishGroup, PublishFails, FinishFlush, CompleteCommit, CompleteCommitFails,
                    LakeInv, DataOK
<1>2. CASE PublishGroup
  <2>1. PICK G : G = Group
    OBVIOUS
  <2>2. /\ frozen' = [frozen EXCEPT !.left = @ \ G, !.attempts = 0] /\ frozen.commit = None
        /\ resolved' = [resolved EXCEPT ![p] = @ \cup G]
        /\ UNCHANGED <<owned, observed, buffer, pending, replaced>>
    BY <1>0, <1>2, <2>1 DEF PublishGroup, KeptOK, consumerVars, batchVars, loopVars
  <2>3. frozen'.part = p /\ frozen'.left = frozen.left \ G /\ frozen'.commit = None
    BY <1>0, <1>1, <2>2 DEF Flushes
  <2>4. /\ \A q \in Partitions : Unresolved(q)' \subseteq Unresolved(q)
        /\ Unresolved(p)' \cap G = {}
    <3>1. /\ \A q \in Partitions : q # p => resolved'[q] = resolved[q]
          /\ resolved'[p] = resolved[p] \cup G
      BY <1>1, <2>2
    <3> QED BY <1>1, <2>2, <3>1 DEF Unresolved
  <2>5. \A q \in owned : \A o \in Unresolved(q) :
          \/ o \in buffer[q]
          \/ p = q /\ o \in frozen.left
          \/ <<q, o>> \in pending \/ <<q, o>> \in replaced
    BY <1>0 DEF KeptOK, UnresolvedIsHeld
  <2>6. \A q \in owned : \A o \in Unresolved(q)' :
          \/ o \in buffer[q]
          \/ p = q /\ o \in frozen.left \ G
          \/ <<q, o>> \in pending \/ <<q, o>> \in replaced
    BY <1>1, <2>4, <2>5
  <2> QED BY <2>2, <2>3, <2>6 DEF KeptOK, UnresolvedIsHeld
<1>3. CASE PublishFails
  <2>1. /\ frozen' = [frozen EXCEPT !.attempts = @ + 1]
        /\ UNCHANGED <<owned, observed, resolved, buffer, pending, replaced>>
    BY <1>3 DEF PublishFails, consumerVars, ledgerVars, batchVars, loopVars
  <2>2. /\ frozen'.part = frozen.part /\ frozen'.left = frozen.left
        /\ frozen'.commit = frozen.commit
    BY <1>1, <2>1 DEF Flushes
  <2> QED BY <1>1, <2>1, <2>2, KeptFrame DEF Unresolved
<1>4. CASE FinishFlush
  <2>1. PICK n : n = NextOffset(observed[p], resolved[p])
    OBVIOUS
  <2>2. /\ frozen' = [frozen EXCEPT !.commit = n] /\ frozen.left = {}
        /\ UNCHANGED <<owned, observed, resolved, buffer, pending, replaced>>
    BY <1>0, <1>4, <2>1 DEF FinishFlush, consumerVars, ledgerVars, batchVars, loopVars
  <2>3. frozen'.part = frozen.part /\ frozen'.left = frozen.left
    BY <1>1, <2>2 DEF Flushes
  <2> QED BY <1>1, <2>2, <2>3, KeptFrame DEF Unresolved
<1>5. CASE CompleteCommit
  <2>1. PICK n : n = frozen.commit
    OBVIOUS
  <2>2. /\ frozen.left = {} /\ frozen' = NoFlush
        /\ observed' = Discard(observed, p, n) /\ resolved' = Discard(resolved, p, n)
        /\ UNCHANGED <<owned, buffer, pending, replaced>>
    BY <1>0, <1>5, <2>1 DEF CompleteCommit, CommitOk, StartRejections, KeptOK, consumerVars, batchVars
  <2>3. \A q \in Partitions : Unresolved(q)' \subseteq Unresolved(q)
    BY <1>1, <2>2 DEF Unresolved, Discard
  <2>4. \A q \in owned : \A o \in Unresolved(q)' :
          o \in buffer[q] \/ <<q, o>> \in pending \/ <<q, o>> \in replaced
    BY <1>1, <2>2, <2>3 DEF KeptOK, UnresolvedIsHeld
  <2> QED BY <2>2, <2>4 DEF KeptOK, UnresolvedIsHeld, NoFlush
<1>6. CASE CompleteCommitFails
  <2>1. UNCHANGED <<owned, observed, resolved, buffer, pending, replaced, frozen>>
    BY <1>6 DEF CompleteCommitFails, CommitRefused, consumerVars, batchVars, loopVars
  <2> QED BY <1>1, <2>1, KeptFrame DEF Unresolved
<1> QED BY <1>2, <1>3, <1>4, <1>5, <1>6

\* The ledger, the buffers, the flush and the assignment as they are.
LEMMA KeptSame ==
  ASSUME LakeInv, KeptOK,
         UNCHANGED <<owned, observed, resolved, buffer, pending, replaced, frozen>>
  PROVE  KeptOK'
<1>1. owned \subseteq Partitions
  BY DEF LakeInv, DataOK
<1> QED BY <1>1, KeptFrame DEF Unresolved

LEMMA KeptExclude == ASSUME LakeInv, KeptOK, ExcludeRecord PROVE KeptOK'
<1> DEFINE p == current[1]
<1>1. /\ p \in Partitions /\ owned \subseteq Partitions
      /\ observed \in [Partitions -> SUBSET Nat] /\ resolved \in [Partitions -> SUBSET Nat]
  BY DEF ExcludeRecord, LakeInv, DataOK, LoopOK
<1>2. PICK n : n = NextOffset(observed[p], resolved[p])
  OBVIOUS
<1>3. /\ \/ UNCHANGED <<observed, resolved>>
         \/ observed' = Discard(observed, p, n) /\ resolved' = Discard(resolved, p, n)
      /\ UNCHANGED <<owned, buffer, pending, replaced, frozen>>
  BY <1>2 DEF ExcludeRecord, CommitOk, consumerVars, ledgerVars, batchVars
<1> HIDE DEF p
<1>4. \A q \in Partitions : Unresolved(q)' \subseteq Unresolved(q)
  <2>1. CASE UNCHANGED <<observed, resolved>>
    BY <2>1 DEF Unresolved
  <2>2. CASE observed' = Discard(observed, p, n) /\ resolved' = Discard(resolved, p, n)
    BY <1>1, <2>2 DEF Unresolved, Discard
  <2> QED BY <1>3, <2>1, <2>2
<1> QED BY <1>1, <1>3, <1>4, KeptFrame

LEMMA KeptStep == ASSUME LakeInv, KeptOK, [Next]_vars PROVE KeptOK'
<1>1. CASE FlushTop
  <2>1. PICK b : b = buffer
    OBVIOUS
  <2>2. PICK old : old = aged
    OBVIOUS
  <2>3. PICK f : f = NoFlush
    OBVIOUS
  <2>4. /\ FlushReady(b, old, f) /\ frozen = NoFlush
        /\ UNCHANGED <<owned, observed, resolved, pending>>
    BY <1>1, <2>1, <2>2, <2>3 DEF FlushTop, StartRejections, consumerVars, ledgerVars
  <2>5. \A p \in owned' : \A o \in Unresolved(p)' :
          o \in b[p] \/ <<p, o>> \in pending' \/ <<p, o>> \in replaced
    BY <2>1, <2>4 DEF KeptOK, UnresolvedIsHeld, NoFlush, Unresolved
  <2>6. /\ b \in [Partitions -> SUBSET Nat] /\ owned' \subseteq Partitions
        /\ f.commit = None /\ replaced \subseteq Records
    BY <2>1, <2>3, <2>4 DEF LakeInv, DataOK, KeptOK, NoFlush
  <2> QED BY <2>3, <2>4, <2>5, <2>6, KeptFlush
<1>2. CASE LedgerError \/ PollOutOfRange \/ ExcludeFails \/ CommitFenced \/ RevokeFails
           \/ PublishGivesUp \/ Crash \/ \E S \in (SUBSET Partitions) \ {{}} : AssignFails(S)
  BY <1>2, KeptDie, Zenon DEF LedgerError, PollOutOfRange, ExcludeFails, CommitFenced, RevokeFails,
                              PublishGivesUp, Crash, AssignFails
<1>3. ASSUME NEW S \in SUBSET Partitions, Assign(S) PROVE KeptOK'
  <2>1. /\ observed' = Nothing /\ replaced' = {} /\ frozen' = frozen /\ pc = "poll"
        /\ owned' = S
    BY <1>3 DEF Assign, Cleared
  <2>2. frozen = NoFlush
    BY <2>1 DEF LakeInv, LoopOK
  <2>3. \A p \in S : Unresolved(p)' = {}
    BY <2>1 DEF Nothing, Unresolved
  <2> QED BY <1>3, <2>1, <2>2, <2>3 DEF KeptOK, UnresolvedIsHeld, NoFlush
<1>4. CASE Revoke
  BY <1>4 DEF Revoke, KeptOK, UnresolvedIsHeld, NoFlush, batchVars
<1>5. CASE PollNothing \/ RejectionsDone \/ Restart \/ Evict \/ UNCHANGED vars
  <2>1. UNCHANGED <<owned, observed, resolved, buffer, pending, replaced, frozen>>
    BY <1>5, Zenon DEF PollNothing, RejectionsDone, Restart, Evict, vars, processVars,
                       consumerVars, ledgerVars, batchVars, loopVars
  <2> QED BY <2>1, KeptSame
<1>6. ASSUME NEW r, RejectionWaits(r) \/ PublishRejectionFails(r) \/ PublishRejection(r)
      PROVE  KeptOK'
  <2>1. UNCHANGED <<owned, observed, resolved, buffer, pending, replaced, frozen>>
    BY <1>6, Zenon DEF RejectionWaits, PublishRejectionFails, PublishRejection, KeepRejection,
                       consumerVars, ledgerVars, batchVars
  <2> QED BY <2>1, KeptSame
<1>7. ASSUME NEW p \in Partitions, Age(p) \/ Produce(p) \/ Retain(p) \/ Elsewhere(p)
      PROVE  KeptOK'
  <2>1. UNCHANGED <<owned, observed, resolved, buffer, pending, replaced, frozen>>
    BY <1>7, Zenon DEF Age, Produce, Retain, Elsewhere, ElsewhereStores, ElsewhereCommits,
                       processVars, consumerVars, ledgerVars, batchVars, loopVars
  <2> QED BY <2>1, KeptSame
<1>8. ASSUME NEW S \in (SUBSET Partitions) \ {{}}, Assign(S) PROVE KeptOK'
  BY <1>3, <1>8
<1> QED BY <1>1, <1>2, <1>4, <1>5, <1>6, <1>7, <1>8, KeptSettle, KeptExclude, KeptPoll, KeptAdvance
        DEF Next, Process, Environment, Rejections, Rebalanced, AdvanceFlush

LEMMA LakeKept == ASSUME HasOffsets PROVE Spec => [](LakeInv /\ KeptOK)
<1>1. Init => KeptOK
  BY DEF Init, KeptOK, UnresolvedIsHeld, NoFlush
<1>2. LakeInv /\ KeptOK /\ [Next]_vars => KeptOK'
  BY KeptStep
<1> QED BY <1>1, <1>2, LakeInductive, PTL DEF Spec

LEMMA MemberStep == ASSUME member \in BOOLEAN, [Next]_vars PROVE member' \in BOOLEAN
<1>1. CASE FlushTop \/ PollNothing \/ Restart \/ UNCHANGED vars
  BY <1>1, Zenon DEF FlushTop, PollNothing, Restart, vars, kafkaVars
<1>2. CASE Rebalanced
  BY <1>2, Zenon DEF Rebalanced, Assign, AssignFails, Revoke, RevokeFails, Die, kafkaVars
<1>3. CASE PollOutOfRange \/ ExcludeFails \/ CommitFenced \/ Crash \/ LedgerError
  BY <1>3, Zenon DEF PollOutOfRange, ExcludeFails, CommitFenced, Crash, LedgerError, Die
<1>4. ASSUME NEW r, RejectionWaits(r) \/ PublishRejectionFails(r) \/ PublishRejection(r)
      PROVE  member' \in BOOLEAN
  BY <1>4, Zenon DEF RejectionWaits, PublishRejectionFails, PublishRejection, KeepRejection,
                     kafkaVars
<1>5. CASE SettleRejection \/ RejectionsDone \/ ExcludeRecord
  BY <1>5, Zenon DEF SettleRejection, RejectionsDone, ExcludeRecord, kafkaVars
<1>6. ASSUME NEW p, NEW o, PollReject(p, o) \/ PollSkip(p, o) \/ PollBuffer(p, o)
                           \/ PollFlushThenBuffer(p, o)
      PROVE  member' \in BOOLEAN
  BY <1>6, Zenon DEF PollReject, PollSkip, PollBuffer, PollFlushThenBuffer, Polled, kafkaVars
<1>7. CASE AdvanceFlush
  BY <1>7, Zenon DEF AdvanceFlush, PublishGroup, PublishFails, PublishGivesUp, FinishFlush,
                     CompleteCommit, CompleteCommitFails, Die, kafkaVars
<1>8. ASSUME NEW p, Age(p) \/ Produce(p) \/ Retain(p) \/ Elsewhere(p)
      PROVE  member' \in BOOLEAN
  BY <1>8, Zenon DEF Age, Produce, Retain, Elsewhere, ElsewhereStores, ElsewhereCommits, kafkaVars
<1>9. CASE Evict
  BY <1>9, Zenon DEF Evict
<1> QED BY <1>1, <1>2, <1>3, <1>4, <1>5, <1>6, <1>7, <1>8, <1>9
        DEF Next, Process, Rejections, PollRecord, Environment

\* Every variable keeps its type: offsets and records are those of the log.
THEOREM LakeTypes == ASSUME HasOffsets PROVE Spec => []TypeOK
<1>1. Init => member \in BOOLEAN
  BY Zenon DEF Init
<1>2. member \in BOOLEAN /\ [Next]_vars => (member \in BOOLEAN)'
  BY MemberStep
<1>3. LakeInv /\ KeptOK /\ member \in BOOLEAN => TypeOK
  <2>1. LakeInv => /\ {observed, resolved, buffer} \subseteq [Partitions -> SUBSET Nat]
                   /\ {failures, stops, rebalances, retention} \subseteq Nat
                   /\ committed \in [Partitions -> Nat \cup {None}]
    BY DEF LakeInv, DataOK
  <2> QED BY <2>1, Zenon DEF LakeInv, DataOK, KeptOK, TypeOK
<1> QED BY <1>1, <1>2, <1>3, LakeKept, PTL DEF Spec

\* No commit of the group passes a record that is neither in a verified object nor in the
\* dead-letter topic nor excluded, whatever fails, restarts or is reassigned.
THEOREM CommittedSettled == ASSUME HasOffsets PROVE Spec => []CommittedIsSettled
<1>1. LakeInv => CommittedIsSettled
  <2> SUFFICES ASSUME LakeInv, NEW r \in Records,
                      FirstCommitted[r[1]] <= r[2], r[2] < committed[r[1]]
               PROVE  IsSettled(r)
    BY DEF CommittedIsSettled
  <2>1. r[1] \in Partitions /\ r[2] \in Log[r[1]] /\ r = <<r[1], r[2]>>
    BY DEF Records
  <2>2. IsSettled(<<r[1], r[2]>>)
    BY <2>1 DEF LakeInv, CommittedOK, Safe
  <2> QED BY <2>1, <2>2
<1> QED BY <1>1, LakeInductive, PTL

\* What is buffered or frozen is open in the ledger, so the prefix stops in front of it.
THEOREM HeldOpen == ASSUME HasOffsets PROVE Spec => []HeldIsOpen
<1>1. LakeInv => HeldIsOpen
  BY DEF LakeInv, HeldOK, FlushOK, HeldIsOpen
<1> QED BY <1>1, LakeInductive, PTL

\* The frozen flush belongs to the current assignment: the OwnershipLostErrors of
\* _advance_frozen_flush and _complete_commit are unreachable.
THEOREM FrozenOwned == ASSUME HasOffsets PROVE Spec => []FrozenIsOwned
<1>1. LakeInv => FrozenIsOwned
  BY DEF LakeInv, HeldOK, FlushOK, FrozenIsOwned
<1> QED BY <1>1, LakeInductive, PTL

\* The offsets of the ledger are below the fetch position: observe() never raises its
\* duplicate or out-of-order ValueError.
THEOREM InOrder == ASSUME HasOffsets PROVE Spec => []ObserveInOrder
<1>1. LakeInv => ObserveInOrder
  BY DEF LakeInv, DataOK, PrefixOK, ObserveInOrder
<1> QED BY <1>1, LakeInductive, PTL

\* The ledger of offsets, the buffers, the frozen flush and the assignment agree: nothing
\* held is resolved, nothing open is forgotten except by the flush that replaces another,
\* no work outlives its assignment, and no offset is observed twice.
THEOREM LedgerAlwaysAgrees == ASSUME HasOffsets PROVE Spec => []LedgerAgrees
<1>1. KeptOK => UnresolvedIsHeld
  BY DEF KeptOK
<1> QED BY <1>1, HeldOpen, FrozenOwned, InOrder, LakeKept, PTL DEF LedgerAgrees

-----------------------------------------------------------------------------
(* The mapper implements the durable hand-off                              *)

\* A step stores records, or it moves committed offsets forward.
Stores ==
  /\ committed' = committed
  /\ archived \subseteq archived' /\ rejected \subseteq rejected'

Commits ==
  /\ UNCHANGED <<archived, rejected>>
  /\ \A p \in Partitions : committed[p] <= committed'[p]

\* A commit of an offset that is not behind the group's.
LEMMA CommitForward ==
  ASSUME LakeInv, NEW p \in Partitions, NEW n \in Nat, committed[p] <= n,
         committed' = [committed EXCEPT ![p] = n], UNCHANGED <<archived, rejected>>
  PROVE  Commits
BY DEF LakeInv, DataOK, Commits

LEMMA SettleCommits ==
  ASSUME LakeInv, SettleRejection PROVE Stores \/ Commits
<1> DEFINE p == current[1]
<1>1. UNCHANGED <<archived, rejected>>
  BY DEF SettleRejection, storeVars
<1>2. CASE committed' = committed
  BY <1>1, <1>2 DEF Stores
<1>3. CASE committed' # committed
  <2>1. PICK R : R = ResolvedNow[p]
    OBVIOUS
  <2>2. PICK n : n = NextOffset(observed[p], R)
    OBVIOUS
  <2>3. n # None /\ member /\ committed' = [committed EXCEPT ![p] = n]
    BY <1>3, <2>1, <2>2 DEF SettleRejection, CommitOk, CommitRefused
  <2>4. /\ p \in owned /\ p \in Partitions /\ current[2] \in Log[p]
        /\ current = <<p, current[2]>> /\ current \in rejected
    BY DEF SettleRejection, LakeInv, LoopOK, Records
  <2>5. R = resolved[p] \cup {current[2]}
    BY <2>1, <2>4 DEF ResolvedNow, LakeInv, DataOK
  <2>6. \A o \in R : IsSettled(<<p, o>>)
    BY <2>4, <2>5 DEF LakeInv, PrefixOK, IsSettled
  <2>7. n \in Nat /\ committed[p] <= n
    BY <2>2, <2>3, <2>4, <2>6, PrefixNext DEF LakeInv
  <2> HIDE DEF p
  <2> QED BY <1>1, <2>3, <2>4, <2>7, CommitForward
<1> QED BY <1>2, <1>3

LEMMA ExcludeCommits ==
  ASSUME LakeInv, ExcludeRecord PROVE Stores \/ Commits
<1> DEFINE p == current[1]
<1>1. UNCHANGED <<archived, rejected>>
  BY DEF ExcludeRecord, storeVars
<1>2. CASE committed' = committed
  BY <1>1, <1>2 DEF Stores
<1>3. CASE committed' # committed
  <2>1. PICK n : n = NextOffset(observed[p], resolved[p])
    OBVIOUS
  <2>2. n # None /\ member /\ committed' = [committed EXCEPT ![p] = n]
    BY <1>3, <2>1 DEF ExcludeRecord, CommitOk
  <2>3. p \in owned /\ p \in Partitions
    BY DEF ExcludeRecord, LakeInv, LoopOK, DataOK
  <2>4. \A o \in resolved[p] : IsSettled(<<p, o>>)
    BY <2>3 DEF LakeInv, PrefixOK
  <2>5. n \in Nat /\ committed[p] <= n
    BY <2>1, <2>2, <2>3, <2>4, PrefixNext DEF LakeInv
  <2> HIDE DEF p
  <2> QED BY <1>1, <2>2, <2>3, <2>5, CommitForward
<1> QED BY <1>2, <1>3

LEMMA FlushCommits ==
  ASSUME LakeInv, CompleteCommit PROVE Commits
<1> DEFINE p == frozen.part
<1>1. PICK n : n = frozen.commit
  OBVIOUS
<1>2. frozen \in Flushes /\ p \in Partitions
  BY GroupTypes DEF CompleteCommit
<1>3. /\ n # None /\ frozen # NoFlush /\ member
      /\ committed' = [committed EXCEPT ![p] = n] /\ UNCHANGED <<archived, rejected>>
  BY <1>1 DEF CompleteCommit, Advancing, CommitOk, storeVars
<1>4. n \in Nat /\ committed[p] <= n
  BY <1>1, <1>2, <1>3 DEF LakeInv, FlushOK, Flushes
<1> HIDE DEF p
<1> QED BY <1>2, <1>3, <1>4, CommitForward

LEMMA StoresOrCommits ==
  ASSUME LakeInv, [Next]_vars PROVE Stores \/ Commits
<1>1. CASE SettleRejection
  BY <1>1, SettleCommits
<1>2. CASE ExcludeRecord
  BY <1>2, ExcludeCommits
<1>3. CASE CompleteCommit
  BY <1>3, FlushCommits
<1>4. ASSUME NEW p \in Partitions, ElsewhereCommits(p) PROVE Commits
  <2>1. PICK o \in Log[p] : committed[p] <= o /\ committed' = [committed EXCEPT ![p] = o + 1]
    BY <1>4 DEF ElsewhereCommits, ElsewhereNext
  <2>2. o \in Nat /\ committed[p] \in Nat
    BY LogAssumption DEF LakeInv, DataOK
  <2>3. PICK n : n = o + 1
    OBVIOUS
  <2>4. n \in Nat /\ committed[p] <= n /\ committed' = [committed EXCEPT ![p] = n]
    BY <2>1, <2>2, <2>3
  <2>5. UNCHANGED <<archived, rejected>>
    BY <1>4 DEF ElsewhereCommits, storeVars
  <2> QED BY <2>4, <2>5, CommitForward
<1>5. CASE FlushTop \/ PollNothing \/ Rebalanced \/ Restart \/ UNCHANGED vars
  BY <1>5, Zenon DEF FlushTop, PollNothing, Rebalanced, Assign, AssignFails, Revoke, RevokeFails,
       Restart, Stores, vars, kafkaVars, storeVars
<1>6. CASE LedgerError \/ PollOutOfRange \/ ExcludeFails \/ CommitFenced \/ Crash
  BY <1>6 DEF LedgerError, PollOutOfRange, ExcludeFails, CommitFenced, Crash, Stores, storeVars
<1>7. CASE RejectionsDone \/ \E r \in todo :
             RejectionWaits(r) \/ PublishRejectionFails(r) \/ PublishRejection(r)
  BY <1>7 DEF RejectionsDone, RejectionWaits, PublishRejectionFails, PublishRejection,
              KeepRejection, Stores, kafkaVars, storeVars
<1>8. ASSUME NEW p \in Partitions, PollRecord(p) PROVE Stores
  BY <1>8 DEF PollRecord, PollReject, PollSkip, PollBuffer, PollFlushThenBuffer, Polled, Stores,
              kafkaVars, storeVars
<1>9. CASE PublishGroup \/ PublishFails \/ PublishGivesUp \/ FinishFlush \/ CompleteCommitFails
  BY <1>9 DEF PublishGroup, PublishFails, PublishGivesUp, FinishFlush, CompleteCommitFails,
              CommitRefused, Stores, kafkaVars, storeVars
<1>10. CASE Evict \/ \E p \in Partitions :
              Age(p) \/ Produce(p) \/ Retain(p) \/ ElsewhereStores(p)
  BY <1>10 DEF Evict, Age, Produce, Retain, ElsewhereStores, Stores, kafkaVars, storeVars
<1> QED BY <1>1, <1>2, <1>3, <1>4, <1>5, <1>6, <1>7, <1>8, <1>9, <1>10
        DEF Next, Process, Rejections, AdvanceFlush, Environment, Elsewhere

\* Storing is Persist, committing is Release: what a commit newly covers is settled.
LEMMA HandStep ==
  ASSUME HasOffsets, LakeInv, LakeInv', Stores \/ Commits
  PROVE  Handoff!Next
<1>1. /\ Handed \subseteq Records
      /\ \A r \in Handed : /\ r[1] \in Partitions /\ r[2] \in Log[r[1]] /\ r = <<r[1], r[2]>>
                           /\ r[2] \in Nat /\ committed[r[1]] \in Nat /\ committed'[r[1]] \in Nat
                           /\ FirstCommitted[r[1]] <= r[2]
  BY LogAssumption DEF Handed, Records, LakeInv, DataOK
<1>2. CASE Stores
  <2>1. PICK S : S = (archived' \cup rejected') \cap Handed
    OBVIOUS
  <2>2. S \in SUBSET Handed /\ Handoff!Persist(S)
    BY <1>2, <2>1 DEF Stores, Handoff!Persist
  <2> QED BY <2>2 DEF Handoff!Next
<1>3. CASE Commits
  <2>1. PICK S : S = {r \in Handed : committed[r[1]] <= r[2] /\ r[2] < committed'[r[1]]}
    OBVIOUS
  <2>2. \A r \in Handed : committed[r[1]] <= committed'[r[1]]
    BY <1>1, <1>3 DEF Commits
  <2>3. ASSUME NEW r \in S PROVE r \in archived \cup rejected \/ Kind[r] = "skip"
    <3>1. IsSettled(r)'
      <4>1. r[1] \in Partitions /\ r[2] \in Log[r[1]] /\ FirstCommitted[r[1]] <= r[2]
            /\ r[2] < committed'[r[1]] /\ r = <<r[1], r[2]>>
        BY <1>1, <2>1
      <4>2. IsSettled(<<r[1], r[2]>>)'
        BY <4>1 DEF LakeInv, CommittedOK, Safe
      <4> QED BY <4>1, <4>2
    <3> QED BY <1>3, <3>1 DEF Commits, IsSettled
  <2>4. {r \in Handed : committed'[r[1]] <= r[2]} = {r \in Handed : committed[r[1]] <= r[2]} \ S
    BY <1>1, <2>1, <2>2
  <2>5. {r \in Handed : r[2] < committed'[r[1]]} = {r \in Handed : r[2] < committed[r[1]]} \cup S
    BY <1>1, <2>1, <2>2
  <2>6. S \in SUBSET Handed /\ S \subseteq {r \in Handed : committed[r[1]] <= r[2]}
    BY <2>1
  <2>7. S \subseteq ((archived \cup rejected) \cap Handed) \cup {r \in Handed : Kind[r] = "skip"}
    BY <2>3, <2>6
  <2>8. Handoff!Release(S)
    BY <1>3, <2>4, <2>5, <2>6, <2>7 DEF Commits, Handoff!Release
  <2> QED BY <2>6, <2>8 DEF Handoff!Next
<1> QED BY <1>2, <1>3

\* The mapper implements the durable hand-off from Kafka to the lake and the dead-letter
\* topic, for the records at and after the offset the group had committed.
THEOREM LakeImplements == ASSUME HasOffsets PROVE Spec => ImplementsHandoff
<1>1. ASSUME Init PROVE Handoff!Init
  <2>1. /\ committed = FirstCommitted /\ archived = {} /\ rejected = {}
        /\ \A r \in Handed : FirstCommitted[r[1]] \in Nat /\ r[2] \in Nat
                             /\ FirstCommitted[r[1]] <= r[2]
    BY <1>1, LogAssumption DEF Init, Handed, Records, HasOffsets
  <2> QED BY <2>1 DEF Handoff!Init
<1>2. Init => LakeInv /\ Handoff!Init
  BY <1>1, InitStep
<1>3. LakeInv /\ [Next]_vars => LakeInv' /\ [Handoff!Next]_(Handoff!vars)
  BY NextInv, StoresOrCommits, HandStep
<1> QED BY <1>2, <1>3, PTL DEF Spec, ImplementsHandoff, Handoff!Spec
=============================================================================
