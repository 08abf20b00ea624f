-------------------------- MODULE HistorianProofs --------------------------
(***************************************************************************)
(* What the historians guarantee for every topic, every group and every    *)
(* history of crashes, rebalances, failed transactions and commits.  The   *)
(* argument: a checkpoint moves only inside the transaction that stores    *)
(* what it passes (PersistStep, IgnoreStep), it never moves back, and the  *)
(* offsets that a task is going to commit to Kafka were checkpoints once   *)
(* (TaskOK); so every commit is at or below the checkpoint, whoever owns   *)
(* the partition by then.                                                  *)
(***************************************************************************)
EXTENDS Historian, OffsetLemmas

\* The tables, and what they say of each other.
DataInv == DatabaseTypeOK /\ CheckpointIsHandled /\ MetricsMatchRows

\* A task of the loop, given the checkpoints: what it commits is at or below them, and
\* the message it goes on with is what its place in the code says.
TaskOK(t, points) ==
  /\ t \in TaskType
  /\ \A p \in Partitions : t.next[p] <= points[p]
  /\ t.at = "ignore" \/ t.then = "ignore" => t.msg \in Records /\ Kind[t.msg] = "ignored"
  /\ t.then \in {"handle", "retry"} => t.msg \in Records
  /\ t.then = "retry" => Kind[t.msg] # "ignored"

TasksInv ==
  /\ tasks \in [Members -> SUBSET TaskType]
  /\ \A m \in Members : \A t \in tasks[m] : TaskOK(t, checkpoint)

\* What a refresh has read covers its generation.
ClaimOK(c) ==
  /\ c.gen <= requested[c.day]
  /\ c.at = "read" /\ c.gen = requested[c.day] => DayRows(c.day) \cap Late \subseteq c.seen

RefreshInv ==
  /\ \A d \in Days : processed[d] <= requested[d]
  /\ \A k \in 1 .. MaxClaims : claims[k] # Nobody => ClaimOK(claims[k])
  /\ RefreshCovers

Inv ==
  /\ KafkaTypeOK /\ KafkaBehindSql /\ DataInv /\ RefreshInv
  /\ ThreadTypeOK /\ TasksInv /\ LoopTypeOK /\ BoundsOK

-----------------------------------------------------------------------------
(* The transactions                                                        *)

LEMMA RecordsAre ==
  /\ Records \subseteq Nat \X Nat
  /\ \A r \in Records : r = <<r[1], r[2]>> /\ r[1] \in Partitions /\ r[2] \in Log[r[1]] /\ r[2] \in Nat
  /\ IsFiniteSet(Records)
  /\ Nobody \notin Records
<1>1. \A r \in Records :
        r = <<r[1], r[2]>> /\ r[1] \in Partitions /\ r[2] \in Log[r[1]] /\ r[2] \in Nat
  BY LogAssumption DEF Records
<1>2. Records \subseteq Nat \X Nat
  BY LogAssumption DEF Records
<1> DEFINE Of(p) == {p} \X Log[p]
           all == {Of(p) : p \in Partitions}
<1>3. IsFiniteSet(all)
  <2>1. [p \in Partitions |-> Of(p)] \in Surjection(Partitions, all)
    BY DEF Surjection
  <2>2. IsFiniteSet(Partitions)
    BY LogAssumption
  <2> HIDE DEF all, Of
  <2> QED BY <2>1, <2>2, FS_Surjection
<1>4. \A S \in all : IsFiniteSet(S)
  <2>1. ASSUME NEW p \in Partitions PROVE IsFiniteSet({p} \X Log[p])
    <3>1. IsFiniteSet({p}) /\ IsFiniteSet(Log[p])
      BY LogAssumption, FS_Singleton
    <3> QED BY <3>1, FS_Product
  <2> QED BY <2>1
<1>5. IsFiniteSet(Records)
  <2>1. Records = UNION all
    BY DEF Records
  <2> HIDE DEF all, Of
  <2> QED BY <1>3, <1>4, <2>1, FS_UNION
<1> QED BY <1>1, <1>2, <1>5, LogAssumption

\* compute_next_offset: never back, and only over handled offsets.
LEMMA NextOffsetMoves ==
  ASSUME NEW from \in Nat, NEW handled \in SUBSET Nat, IsFiniteSet(handled)
  PROVE  LET n == NextOffset(from, handled)
         IN  n \in Nat /\ n >= from /\ \A o \in Nat : from <= o /\ o < n => o \in handled
<1> DEFINE reach == {o \in handled : o >= from /\ from .. o \subseteq handled}
<1>1. CASE reach = {}
  BY <1>1 DEF NextOffset
<1>2. CASE reach # {}
  <2>1. reach \in SUBSET Nat /\ IsFiniteSet(reach)
    BY FS_Subset
  <2>3. Max(reach) \in reach
    <3> HIDE DEF reach
    <3> QED BY <1>2, <2>1, MaxOfFinite
  <2>4. NextOffset(from, handled) = Max(reach) + 1
    BY <1>2 DEF NextOffset
  <2>5. Max(reach) \in Nat /\ Max(reach) >= from /\ from .. Max(reach) \subseteq handled
    BY <2>3
  <2> HIDE DEF reach
  <2>6. \A o \in Nat : from <= o /\ o < Max(reach) + 1 => o \in from .. Max(reach)
    BY <2>5
  <2> QED BY <2>4, <2>5, <2>6
<1> QED BY <1>1, <1>2

\* An accepted record is in the table afterwards, itself or the first one of the
\* batch with its identity.
LEMMA AcceptedIsInserted ==
  ASSUME NEW batch, NEW r \in Accepted(batch)
  PROVE  \E q \in Inserted(batch) : Id[q] = Id[r]
<1> DEFINE same == {q \in Accepted(batch) : Id[q] = Id[r]}
<1>1. same \in SUBSET (Nat \X Nat) /\ same # {}
  BY RecordsAre DEF Accepted, Fresh, In
<1>2. PICK f \in same : \A q \in same : ~(q[1] < f[1] \/ (q[1] = f[1] /\ q[2] < f[2]))
  <2> HIDE DEF same
  <2> QED BY <1>1, FirstInOrder
<1>3. f \in Accepted(batch) /\ Id[f] = Id[r]
  OBVIOUS
<1>4. ASSUME NEW q \in Accepted(batch), Id[q] = Id[f] PROVE ~Before(q, f)
  BY <1>2, <1>3, <1>4 DEF Before
<1> QED BY <1>3, <1>4 DEF Inserted

\* The checkpoint of a batch: within what it has handled, and not below the old one.
LEMMA ReachedMoves ==
  ASSUME checkpoint \in Offsets, NEW batch, NEW p \in Partitions
  PROVE  /\ Reached(batch, p) \in Nat /\ Reached(batch, p) >= checkpoint[p]
         /\ \A r \in Records : r[1] = p /\ checkpoint[p] <= r[2] /\ r[2] < Reached(batch, p)
              => r \in Fresh(batch)
<1>1. Handled(batch, p) \in SUBSET Nat /\ IsFiniteSet(Handled(batch, p))
  <2>1. Handled(batch, p) \subseteq Log[p] /\ IsFiniteSet(Log[p]) /\ Log[p] \subseteq Nat
    BY LogAssumption DEF Handled
  <2> QED BY <2>1, FS_Subset
<1>2. checkpoint[p] \in Nat
  BY DEF Offsets
<1>3. /\ Reached(batch, p) \in Nat /\ Reached(batch, p) >= checkpoint[p]
      /\ \A o \in Nat : checkpoint[p] <= o /\ o < Reached(batch, p) => o \in Handled(batch, p)
  BY <1>1, <1>2, NextOffsetMoves DEF Reached
<1>4. ASSUME NEW r \in Records, r[1] = p, checkpoint[p] <= r[2], r[2] < Reached(batch, p)
      PROVE  r \in Fresh(batch)
  <2>1. r[2] \in Nat /\ r = <<p, r[2]>>
    BY RecordsAre, <1>4
  <2>2. r[2] \in Handled(batch, p)
    BY <2>1, <1>3, <1>4
  <2> QED BY <2>1, <2>2 DEF Handled
<1> QED BY <1>3, <1>4

\* The offsets a transaction returns are the checkpoints it has written.
LEMMA AdvancedIsWritten ==
  ASSUME checkpoint \in Offsets, NEW batch
  PROVE  /\ Advanced(batch) \in NextOffsets
         /\ Override(checkpoint, Advanced(batch)) = [p \in Partitions |-> Reached(batch, p)]
         /\ \A p \in Partitions : Advanced(batch)[p] <= Reached(batch, p)
<1>1. \A p \in Partitions : Reached(batch, p) \in Nat /\ checkpoint[p] \in Nat
  BY ReachedMoves DEF Offsets
<1> QED BY <1>1 DEF Advanced, NextOffsets, Override, Absent

\* persist_batch keeps the tables consistent, moves no checkpoint back and asks for a
\* refresh of the days of the late rows it inserts.
LEMMA PersistStep ==
  ASSUME DataInv, NEW batch \in Batches, PersistBatch(batch),
         UNCHANGED <<processed, aggregated, claims>>
  PROVE  /\ DatabaseTypeOK' /\ CheckpointIsHandled' /\ MetricsMatchRows'
         /\ \A p \in Partitions : checkpoint'[p] >= checkpoint[p]
         /\ \A p \in Partitions : Advanced(batch)[p] <= checkpoint'[p]
         /\ rows \subseteq rows'
         /\ \A d \in Days :
              /\ requested'[d] >= requested[d]
              /\ DayRows(d)' \cap Late # DayRows(d) \cap Late => requested'[d] > requested[d]
         /\ \A q, r \in Records : Id[q] = Id[r] /\ metrics[q] > 0 /\ metrics'[r] # metrics[r] =>
              \E n \in rows' \ rows : EventId(n) = EventId(r) /\ Id[n] # Id[r]
<1> DEFINE new == Inserted(batch)
           late(d) == {r \in new \cap Late : Day[r] = d}
<1>1. /\ checkpoint \in Offsets /\ rows \subseteq Records /\ metrics \in [Records -> Nat]
      /\ requested \in [Days -> Nat]
  BY DEF DataInv, DatabaseTypeOK
<1>2. /\ rows' = rows \cup new
      /\ metrics' = [r \in Records |->
                       metrics[r] + IF r \in MetricRows(batch) THEN batch[r] ELSE 0]
      /\ requested' = [d \in Days |-> requested[d] + Cardinality(late(d))]
      /\ checkpoint' = [p \in Partitions |-> Reached(batch, p)]
  BY <1>1, AdvancedIsWritten DEF PersistBatch
<1>3. /\ new \subseteq Accepted(batch) /\ Accepted(batch) \subseteq Fresh(batch)
      /\ Fresh(batch) \subseteq In(batch) /\ In(batch) \subseteq Records
  BY DEF Inserted, Accepted, Fresh, In
<1>4. \A r \in In(batch) : batch[r] \in Nat /\ batch[r] > 0
  BY DEF In, Batches
<1>5. \A r \in Records :
        r \in MetricRows(batch) => r \in In(batch) /\ \E q \in new : EventId(q) = EventId(r)
  BY DEF MetricRows
<1>6. \A q \in new : ~Known(q)
  BY <1>3 DEF Accepted
<1>7. \A p \in Partitions : checkpoint'[p] \in Nat /\ checkpoint'[p] >= checkpoint[p]
  BY <1>1, <1>2, ReachedMoves
<1>8. \A p \in Partitions : Advanced(batch)[p] <= checkpoint'[p]
  BY <1>1, <1>2, AdvancedIsWritten
<1>9. \A d \in Days : /\ Cardinality(late(d)) \in Nat
                      /\ late(d) # {} => Cardinality(late(d)) > 0
  <2>1. TAKE d \in Days
  <2>2. IsFiniteSet(late(d))
    <3>1. late(d) \subseteq Records
      BY <1>3
    <3> QED BY <3>1, RecordsAre, FS_Subset
  <2> HIDE DEF late
  <2>3. Cardinality(late(d)) \in Nat /\ (Cardinality(late(d)) = 0 <=> late(d) = {})
    BY <2>2, FS_CardinalityType, FS_EmptySet
  <2> QED BY <2>3
<1>10. \A d \in Days : /\ requested'[d] \in Nat /\ requested'[d] >= requested[d]
                       /\ late(d) # {} => requested'[d] > requested[d]
  <2> HIDE DEF late
  <2> QED BY <1>1, <1>2, <1>9
<1>11. \A d \in Days : DayRows(d)' \cap Late = (DayRows(d) \cap Late) \cup late(d)
  BY <1>2 DEF DayRows
<1>12. \A r \in Records : Known(r) => Known(r)'
  BY <1>2 DEF Known
<1>13. \A r \in Records : r \in Accepted(batch) => Known(r)'
  BY <1>2, AcceptedIsInserted DEF Known
<1>14. metrics' \in [Records -> Nat]
  BY <1>1, <1>2, <1>4, <1>5
<1>15. DatabaseTypeOK'
  <2>1. checkpoint' \in Offsets
    BY <1>2, <1>7 DEF Offsets
  <2>2. requested' \in [Days -> Nat]
    BY <1>2, <1>10
  <2>3. rows' \subseteq Records
    BY <1>1, <1>2, <1>3
  <2> QED BY <2>1, <2>2, <2>3, <1>14 DEF DataInv, DatabaseTypeOK
<1>16. CheckpointIsHandled'
  <2>1. SUFFICES ASSUME NEW r \in Records, r[2] < checkpoint'[r[1]]
                 PROVE  IsHandled(r)'
    BY DEF CheckpointIsHandled
  <2>2. CASE r[2] < checkpoint[r[1]]
    BY <2>2, <1>12 DEF DataInv, CheckpointIsHandled, IsHandled
  <2>3. CASE ~(r[2] < checkpoint[r[1]])
    <3>1. r[1] \in Partitions /\ r[2] \in Nat
      BY RecordsAre
    <3>2. checkpoint[r[1]] \in Nat
      BY <1>1, <3>1 DEF Offsets
    <3>3. checkpoint[r[1]] <= r[2] /\ r[2] < Reached(batch, r[1])
      BY <2>1, <2>3, <3>1, <3>2, <1>2
    <3>4. r \in Fresh(batch)
      BY <3>1, <3>3, <1>1, ReachedMoves
    <3> QED BY <3>4, <1>12, <1>13 DEF Accepted, IsHandled
  <2> QED BY <2>2, <2>3
<1>17. MetricsMatchRows'
  <2>1. SUFFICES ASSUME NEW r \in Records
                 PROVE  (r \in rows' => metrics'[r] > 0) /\ (metrics'[r] > 0 => Known(r)')
    BY DEF MetricsMatchRows
  <2>2. (r \in rows => metrics[r] > 0) /\ (metrics[r] > 0 => Known(r)) /\ metrics[r] \in Nat
    BY <1>1 DEF DataInv, MetricsMatchRows
  <2>3. r \in new => r \in MetricRows(batch)
    BY <1>3 DEF MetricRows
  <2>4. r \in MetricRows(batch) => batch[r] \in Nat /\ batch[r] > 0 /\ Known(r)'
    <3>1. ASSUME r \in In(batch) PROVE Known(r)'
      <4>1. Kind[r] # "ignored"
        BY <3>1 DEF Batches
      <4>2. CASE r \in Fresh(batch)
        BY <4>2, <1>12, <1>13 DEF Accepted
      <4>3. CASE r \notin Fresh(batch)
        <5>1. r[1] \in Partitions /\ r[2] \in Nat
          BY RecordsAre
        <5>2. checkpoint[r[1]] \in Nat
          BY <1>1, <5>1 DEF Offsets
        <5>3. r[2] < checkpoint[r[1]]
          BY <3>1, <4>3, <5>1, <5>2 DEF Fresh
        <5> QED BY <4>1, <5>3, <1>12 DEF DataInv, CheckpointIsHandled, IsHandled
      <4> QED BY <4>2, <4>3
    <3> QED BY <3>1, <1>4, <1>5
  <2>5. metrics'[r] = metrics[r] + IF r \in MetricRows(batch) THEN batch[r] ELSE 0
    BY <1>2
  <2> HIDE DEF new
  <2> QED BY <2>2, <2>3, <2>4, <2>5, <1>2, <1>12
<1>18. ASSUME NEW q \in Records, NEW r \in Records, Id[q] = Id[r], metrics[q] > 0,
              metrics'[r] # metrics[r]
       PROVE  \E n \in rows' \ rows : EventId(n) = EventId(r) /\ Id[n] # Id[r]
  <2>1. Known(r)
    BY <1>18 DEF DataInv, MetricsMatchRows, Known
  <2>2. r \in MetricRows(batch)
    <3>1. r \notin MetricRows(batch) => metrics'[r] = metrics[r] + 0
      BY <1>2
    <3>2. metrics[r] \in Nat
      BY <1>1
    <3> QED BY <3>1, <3>2, <1>18
  <2>3. PICK n \in new : EventId(n) = EventId(r)
    BY <2>2, <1>5
  <2>4. ~Known(n)
    BY <1>6
  <2>5. Id[n] # Id[r]
    BY <2>1, <2>4 DEF Known
  <2>6. n \notin rows
    BY <2>4 DEF Known
  <2> QED BY <2>3, <2>5, <2>6, <1>2
<1> HIDE DEF new, late
<1> QED BY <1>2, <1>7, <1>8, <1>10, <1>11, <1>15, <1>16, <1>17, <1>18

\* checkpoint_ignored_records passes an ignored record, and only when it is the next.
LEMMA IgnoreStep ==
  ASSUME DataInv, NEW m \in Members, NEW t, TaskOK(t, checkpoint), t.at = "ignore",
         IgnoreCommits(m, t)
  PROVE  /\ DatabaseTypeOK' /\ CheckpointIsHandled' /\ MetricsMatchRows'
         /\ \A p \in Partitions : checkpoint'[p] >= checkpoint[p]
         /\ PastOffsets(t.msg) \in NextOffsets
         /\ \A p \in Partitions : PastOffsets(t.msg)[p] <= checkpoint'[p]
         /\ UNCHANGED <<rows, metrics, requested, processed, aggregated, claims>>
<1>1. t.msg \in Records /\ Kind[t.msg] = "ignored"
  BY DEF TaskOK
<1>2. /\ t.msg = <<t.msg[1], t.msg[2]>> /\ t.msg[1] \in Partitions /\ t.msg[2] \in Nat
      /\ \A r \in Records : r = <<r[1], r[2]>> /\ r[1] \in Partitions /\ r[2] \in Nat
  BY <1>1, RecordsAre
<1>3. checkpoint \in [Partitions -> Nat]
  BY DEF DataInv, DatabaseTypeOK, Offsets
<1>4. /\ checkpoint' = Override(checkpoint, PastOffsets(t.msg))
      /\ UNCHANGED <<rows, metrics, requested, processed, aggregated, claims>>
  BY DEF IgnoreCommits, refreshVars
<1>5. /\ PastOffsets(t.msg) \in NextOffsets
      /\ \A p \in Partitions : PastOffsets(t.msg)[p] =
           IF p = t.msg[1] /\ t.msg[2] = checkpoint[p] THEN t.msg[2] + 1 ELSE -1
  BY <1>2 DEF PastOffsets, Past, NextOffsets, Absent
<1>6. checkpoint' = [p \in Partitions |->
        IF p = t.msg[1] /\ t.msg[2] = checkpoint[p] THEN t.msg[2] + 1 ELSE checkpoint[p]]
  <2>1. \A p \in Partitions :
          Override(checkpoint, PastOffsets(t.msg))[p] =
          IF p = t.msg[1] /\ t.msg[2] = checkpoint[p] THEN t.msg[2] + 1 ELSE checkpoint[p]
    BY <1>2, <1>3, <1>5 DEF Override, Absent
  <2> QED BY <1>4, <2>1 DEF Override
<1>7. checkpoint' \in Offsets
  BY <1>2, <1>3, <1>6 DEF Offsets
<1>8. DatabaseTypeOK' /\ MetricsMatchRows'
  BY <1>4, <1>7 DEF DataInv, DatabaseTypeOK, MetricsMatchRows, Known
<1>9. ASSUME NEW r \in Records, r[2] < checkpoint'[r[1]]
      PROVE  IsHandled(r)'
  <2>1. r[2] < checkpoint[r[1]] \/ (r[1] = t.msg[1] /\ r[2] = t.msg[2])
    <3>1. r[1] \in Partitions /\ r[2] \in Nat /\ checkpoint[r[1]] \in Nat
      BY <1>2, <1>3
    <3> QED BY <1>2, <1>6, <1>9, <3>1
  <2>2. CASE r[2] < checkpoint[r[1]]
    BY <2>2, <1>4 DEF DataInv, CheckpointIsHandled, IsHandled, Known
  <2>3. CASE r[1] = t.msg[1] /\ r[2] = t.msg[2]
    <3>1. r = t.msg
      BY <2>3, <1>2
    <3> QED BY <3>1, <1>1 DEF IsHandled
  <2> QED BY <2>1, <2>2, <2>3
<1>10. \A p \in Partitions : checkpoint'[p] >= checkpoint[p]
  BY <1>2, <1>3, <1>6
<1>11. \A p \in Partitions : PastOffsets(t.msg)[p] <= checkpoint'[p]
  BY <1>2, <1>3, <1>5, <1>6
<1> QED BY <1>4, <1>5, <1>7, <1>8, <1>9, <1>10, <1>11 DEF CheckpointIsHandled

\* Which steps write the tables of the events.
Transaction ==
  \/ UNCHANGED rowVars
  \/ /\ UNCHANGED <<processed, aggregated, claims, committed>>
     /\ \E m \in Members : \E t \in tasks[m] : PersistBatch(t.batch)
  \/ \E m \in Members : \E t \in tasks[m] : t.at = "ignore" /\ IgnoreCommits(m, t)

\* Every step is one of them.
LEMMA Transactions == [Next]_vars => Transaction
<1> SUFFICES ASSUME [Next]_vars PROVE Transaction
  OBVIOUS
<1> USE DEF Transaction
<1>1. ASSUME NEW m \in Members, MemberNext(m) PROVE Transaction
  <2>1. CASE Consume(m)
    BY <2>1 DEF Consume, HandleMessage, FlushBeforeMessage, DropMessage, TakeMessage
  <2>2. CASE FlushTick(m) \/ Age(m)
    BY <2>2 DEF FlushTick, Age
  <2>3. ASSUME NEW t \in tasks[m], RunTask(m, t) PROVE Transaction
    <3>1. CASE PersistCommits(m, t)
      BY <3>1 DEF PersistCommits, refreshVars, kafkaVars
    <3>2. CASE IgnoreCommits(m, t)
      BY <3>2 DEF IgnoreCommits, Waits
    <3>3. CASE Persisted(m, t) \/ CommitKafka(m, t) \/ Resume(m, t) \/ Ignored(m, t)
      BY <3>3 DEF Persisted, CommitKafka, Resume, Ignored
    <3> QED BY <2>3, <3>1, <3>2, <3>3 DEF RunTask
  <2>4. ASSUME NEW t \in tasks[m], FailTask(m, t) PROVE Transaction
    <3>1. CASE PersistFails(m, t)
      BY <3>1 DEF PersistFails, Rollback, rowVars, refreshVars, kafkaVars
    <3>2. CASE CommitFails(m, t) \/ IgnoreFails(m, t)
      BY <3>2 DEF CommitFails, IgnoreFails
    <3> QED BY <2>4, <3>1, <3>2 DEF FailTask
  <2>5. CASE CheckPressure(m) \/ Pause(m) \/ PollNothing(m)
    BY <2>5 DEF CheckPressure, Pause, PollNothing
  <2>6. ASSUME NEW p \in Partitions, PollMessage(m, p) PROVE Transaction
    BY <2>6 DEF PollMessage
  <2>7. ASSUME NEW S \in SUBSET Partitions, StartAssign(m, S) PROVE Transaction
    BY <2>7 DEF StartAssign
  <2>8. CASE Assigning(m) \/ ReadFails(m)
    BY <2>8 DEF Assigning, ReadCheckpoints, KafkaAheadOfSql, RetentionGap, Assign, ReadFails,
                ThreadDies
  <2>9. CASE Revoke(m) \/ Evict(m)
    BY <2>9 DEF Revoke, Evict
  <2>10. CASE Crash(m) \/ Restart(m)
    BY <2>10 DEF Crash, Restart
  <2> QED BY <1>1, <2>1, <2>2, <2>3, <2>4, <2>5, <2>6, <2>7, <2>8, <2>9, <2>10 DEF MemberNext
<1>2. ASSUME NEW p \in Partitions, Retain(p) PROVE Transaction
  BY <1>2 DEF Retain
<1>3. ASSUME NEW k \in 1 .. MaxClaims, RefreshWork(k) \/ RefreshFails(k) PROVE Transaction
  BY <1>3 DEF RefreshWork, RefreshFails, ClaimDay, RefreshDay, MarkProcessed, Superseded
<1>4. CASE UNCHANGED vars
  BY <1>4 DEF vars
<1> QED BY <1>1, <1>2, <1>3, <1>4 DEF Next

RowsTypeOK ==
  /\ checkpoint \in Offsets /\ rows \subseteq Records
  /\ metrics \in [Records -> Nat] /\ requested \in [Days -> Nat]

\* How the tables move: nothing is taken back, the metrics of an event stay what they
\* are unless its event_id comes with another time, and a new late row asks for a
\* refresh of its day.
RowsMove ==
  /\ \A p \in Partitions : checkpoint'[p] >= checkpoint[p]
  /\ rows \subseteq rows'
  /\ \A d \in Days :
       /\ requested'[d] >= requested[d]
       /\ DayRows(d)' \cap Late # DayRows(d) \cap Late => requested'[d] > requested[d]
  /\ \A q, r \in Records : Id[q] = Id[r] /\ metrics[q] > 0 /\ metrics'[r] # metrics[r] =>
       \E n \in rows' \ rows : EventId(n) = EventId(r) /\ Id[n] # Id[r]

LEMMA RowsStep ==
  ASSUME DataInv, TasksInv, Transaction
  PROVE  RowsMove /\ RowsTypeOK' /\ CheckpointIsHandled' /\ MetricsMatchRows'
<1>1. /\ checkpoint \in [Partitions -> Nat] /\ rows \subseteq Records
      /\ metrics \in [Records -> Nat] /\ requested \in [Days -> Nat]
  BY DEF DataInv, DatabaseTypeOK, Offsets
<1>2. CASE UNCHANGED rowVars
  <2>1. UNCHANGED <<checkpoint, rows, metrics, requested>>
    BY <1>2 DEF rowVars
  <2>2. RowsMove
    BY <1>1, <2>1 DEF RowsMove, DayRows
  <2>3. RowsTypeOK' /\ MetricsMatchRows'
    BY <2>1 DEF DataInv, DatabaseTypeOK, RowsTypeOK, MetricsMatchRows, Known
  <2>4. CheckpointIsHandled'
    BY <2>1 DEF DataInv, CheckpointIsHandled, IsHandled, Known
  <2> QED BY <2>2, <2>3, <2>4
<1>3. ASSUME UNCHANGED <<processed, aggregated, claims>>,
             NEW m \in Members, NEW t \in tasks[m], PersistBatch(t.batch)
      PROVE  RowsMove /\ RowsTypeOK' /\ CheckpointIsHandled' /\ MetricsMatchRows'
  <2>1. t.batch \in Batches
    BY DEF TasksInv, TaskOK, TaskType
  <2>2. PICK batch : batch = t.batch
    OBVIOUS
  <2> QED BY <1>3, <2>1, <2>2, PersistStep DEF RowsMove, RowsTypeOK, DatabaseTypeOK
<1>4. ASSUME NEW m \in Members, NEW t \in tasks[m], t.at = "ignore", IgnoreCommits(m, t)
      PROVE  RowsMove /\ RowsTypeOK' /\ CheckpointIsHandled' /\ MetricsMatchRows'
  <2>1. TaskOK(t, checkpoint)
    BY DEF TasksInv
  <2>2. /\ DatabaseTypeOK' /\ CheckpointIsHandled' /\ MetricsMatchRows'
        /\ \A p \in Partitions : checkpoint'[p] >= checkpoint[p]
        /\ UNCHANGED <<rows, metrics, requested>>
    BY <1>4, <2>1, IgnoreStep
  <2>3. RowsMove
    BY <1>1, <2>2 DEF RowsMove, DayRows
  <2> QED BY <2>2, <2>3 DEF RowsTypeOK, DatabaseTypeOK
<1> QED BY <1>2, <1>3, <1>4 DEF Transaction

-----------------------------------------------------------------------------
(* The refresh of the aggregates                                           *)

\* A claim stays sound when the tables move: a late row that it has not read raises the
\* generation above its own.
LEMMA ClaimStays ==
  ASSUME RowsMove, requested \in [Days -> Nat], requested' \in [Days -> Nat],
         NEW c \in ClaimType, ClaimOK(c)
  PROVE  ClaimOK(c)'
<1>1. c.day \in Days /\ c.gen \in Nat
  BY DEF ClaimType
<1>2. /\ requested[c.day] \in Nat /\ requested'[c.day] \in Nat
      /\ requested'[c.day] >= requested[c.day] /\ c.gen <= requested[c.day]
  BY <1>1 DEF RowsMove, ClaimOK
<1>3. c.gen = requested'[c.day] => DayRows(c.day)' \cap Late = DayRows(c.day) \cap Late
  BY <1>1, <1>2 DEF RowsMove
<1>4. c.gen = requested'[c.day] => c.gen = requested[c.day]
  BY <1>2
<1>5. c.at = "read" /\ c.gen = requested[c.day] => DayRows(c.day) \cap Late \subseteq c.seen
  BY DEF ClaimOK
<1>6. c.gen <= requested'[c.day]
  BY <1>1, <1>2
<1>7. c.at = "read" /\ c.gen = requested'[c.day] => DayRows(c.day)' \cap Late \subseteq c.seen
  BY ONLY <1>3, <1>4, <1>5
<1> QED BY <1>6, <1>7 DEF ClaimOK

RefreshTypeOK ==
  /\ processed \in [Days -> Nat]
  /\ aggregated \in [Days -> SUBSET Records]
  /\ claims \in [1 .. MaxClaims -> ClaimType \cup {Nobody}]

\* Every step except those that claim, read or mark leaves a claim or drops it.
LEMMA ClaimsStep ==
  ASSUME [Next]_vars
  PROVE  \/ \E k \in 1 .. MaxClaims : RefreshWork(k)
         \/ /\ UNCHANGED <<processed, aggregated>>
            /\ \/ UNCHANGED claims
               \/ \E k \in 1 .. MaxClaims : claims' = [claims EXCEPT ![k] = Nobody]
               \/ \E K \in SUBSET (1 .. MaxClaims) :
                    claims' = [k \in 1 .. MaxClaims |-> IF k \in K THEN Nobody ELSE claims[k]]
<1> DEFINE Stays == UNCHANGED <<processed, aggregated, claims>>
           Drops == /\ UNCHANGED <<processed, aggregated>>
                    /\ \E K \in SUBSET (1 .. MaxClaims) : claims' =
                         [k \in 1 .. MaxClaims |-> IF k \in K THEN Nobody ELSE claims[k]]
<1>1. ASSUME NEW m \in Members, MemberNext(m) PROVE Stays \/ Drops
  <2>1. CASE Consume(m)
    BY <2>1 DEF Consume, HandleMessage, FlushBeforeMessage, DropMessage, TakeMessage, refreshVars
  <2>2. CASE FlushTick(m) \/ Age(m)
    BY <2>2 DEF FlushTick, Age, refreshVars
  <2>3. ASSUME NEW t \in tasks[m], RunTask(m, t) PROVE Stays
    BY <2>3 DEF RunTask, PersistCommits, IgnoreCommits, Persisted, CommitKafka, Resume, Ignored,
                refreshVars
  <2>4. ASSUME NEW t \in tasks[m], FailTask(m, t) PROVE Stays
    BY <2>4 DEF FailTask, PersistFails, CommitFails, IgnoreFails, refreshVars
  <2>5. CASE CheckPressure(m) \/ Pause(m) \/ PollNothing(m)
    BY <2>5 DEF CheckPressure, Pause, PollNothing, refreshVars
  <2>6. ASSUME NEW p \in Partitions, PollMessage(m, p) PROVE Stays
    BY <2>6 DEF PollMessage, refreshVars
  <2>7. ASSUME NEW S \in SUBSET Partitions, StartAssign(m, S) PROVE Stays
    BY <2>7 DEF StartAssign, refreshVars
  <2>8. CASE Assigning(m) \/ ReadFails(m)
    BY <2>8 DEF Assigning, ReadCheckpoints, KafkaAheadOfSql, RetentionGap, Assign, ReadFails,
                ThreadDies, refreshVars
  <2>9. CASE Revoke(m) \/ Evict(m)
    BY <2>9 DEF Revoke, Evict, refreshVars
  <2>10. CASE Restart(m)
    BY <2>10 DEF Restart, refreshVars
  <2>11. CASE Crash(m)
    BY <2>11 DEF Crash, refreshVars
  <2> HIDE DEF Stays, Drops
  <2> QED BY <1>1, <2>1, <2>2, <2>3, <2>4, <2>5, <2>6, <2>7, <2>8, <2>9, <2>10, <2>11
          DEF MemberNext
<1>2. ASSUME NEW p \in Partitions, Retain(p) PROVE Stays
  BY <1>2 DEF Retain, refreshVars
<1>3. ASSUME NEW k \in 1 .. MaxClaims, RefreshFails(k)
      PROVE  UNCHANGED <<processed, aggregated>> /\ claims' = [claims EXCEPT ![k] = Nobody]
  BY <1>3 DEF RefreshFails, SetClaim, refreshVars
<1>4. CASE UNCHANGED vars
  BY <1>4 DEF vars, refreshVars
<1> QED BY <1>1, <1>2, <1>3, <1>4 DEF Next

\* What is behind stays behind, and a covered day covered, when the tables move.
LEMMA DaysStay ==
  ASSUME RefreshInv, RefreshTypeOK, RowsTypeOK, RowsTypeOK', RowsMove,
         UNCHANGED <<processed, aggregated>>
  PROVE  (\A d \in Days : processed'[d] <= requested'[d]) /\ RefreshCovers'
<1>1. ASSUME NEW d \in Days
      PROVE  /\ processed[d] <= requested'[d]
             /\ processed[d] = requested'[d] => DayRows(d)' \cap Late \subseteq aggregated[d]
  <2>1. /\ processed[d] \in Nat /\ requested[d] \in Nat /\ requested'[d] \in Nat
        /\ processed[d] <= requested[d] /\ requested[d] <= requested'[d]
    BY DEF RefreshInv, RefreshTypeOK, RowsTypeOK, RowsMove
  <2>2. processed[d] = requested'[d] => /\ processed[d] = requested[d]
                                        /\ ~(requested'[d] > requested[d])
    BY <2>1
  <2>3. processed[d] = requested'[d] => DayRows(d)' \cap Late = DayRows(d) \cap Late
    BY <2>2 DEF RowsMove
  <2>4. processed[d] = requested[d] => DayRows(d) \cap Late \subseteq aggregated[d]
    BY DEF RefreshInv, RefreshCovers
  <2>5. processed[d] <= requested'[d]
    BY <2>1
  <2> QED BY ONLY <2>2, <2>3, <2>4, <2>5
<1>2. UNCHANGED processed /\ UNCHANGED aggregated
  OBVIOUS
<1> QED BY <1>1, <1>2 DEF RefreshCovers

LEMMA RefreshStep ==
  ASSUME RefreshInv, RefreshTypeOK, RowsTypeOK, RowsTypeOK', RowsMove, [Next]_vars
  PROVE  RefreshInv' /\ RefreshTypeOK'
<1>1. /\ processed \in [Days -> Nat] /\ aggregated \in [Days -> SUBSET Records]
      /\ claims \in [1 .. MaxClaims -> ClaimType \cup {Nobody}]
      /\ requested \in [Days -> Nat] /\ requested' \in [Days -> Nat]
  BY DEF RefreshTypeOK, RowsTypeOK
<1>2. \A k \in 1 .. MaxClaims : claims[k] # Nobody => claims[k] \in ClaimType /\ ClaimOK(claims[k])
  BY <1>1 DEF RefreshInv
<1>3. ASSUME UNCHANGED <<processed, aggregated>>, claims' \in [1 .. MaxClaims -> ClaimType \cup {Nobody}],
             \A k \in 1 .. MaxClaims : claims'[k] \in {claims[k], Nobody}
      PROVE  RefreshInv' /\ RefreshTypeOK'
  <2>1. RefreshTypeOK'
    BY <1>1, <1>3 DEF RefreshTypeOK
  <2>2. ASSUME NEW k \in 1 .. MaxClaims, claims'[k] # Nobody PROVE ClaimOK(claims[k])'
    <3>1. claims'[k] = claims[k] /\ claims[k] \in ClaimType /\ ClaimOK(claims[k])
      BY <1>2, <1>3, <2>2
    <3>2. PICK c \in ClaimType : c = claims[k]
      BY <3>1
    <3>3. ClaimOK(c)'
      BY <1>1, <3>1, <3>2, ClaimStays
    <3> QED BY <3>1, <3>2, <3>3 DEF ClaimOK
  <2>3. (\A d \in Days : processed'[d] <= requested'[d]) /\ RefreshCovers'
    BY <1>3, DaysStay
  <2> QED BY <2>1, <2>2, <2>3 DEF RefreshInv
<1>4. ASSUME NEW k \in 1 .. MaxClaims, RefreshWork(k) PROVE RefreshInv' /\ RefreshTypeOK'
  <2>1. UNCHANGED <<rows, requested>>
    BY <1>4 DEF RefreshWork, ClaimDay, RefreshDay, MarkProcessed, Superseded, rowVars
  <2>2. ASSUME NEW n \in 1 .. MaxClaims, claims'[n] = claims[n], claims[n] # Nobody
        PROVE  ClaimOK(claims[n])'
    BY <1>2, <2>1, <2>2 DEF ClaimOK, DayRows
  <2>3. ASSUME NEW c \in ClaimType, claims' = [claims EXCEPT ![k] = c], ClaimOK(c),
               UNCHANGED <<processed, aggregated>>
        PROVE  RefreshInv' /\ RefreshTypeOK'
    <3>1. claims' \in [1 .. MaxClaims -> ClaimType \cup {Nobody}]
      BY <1>1, <2>3
    <3>2. RefreshTypeOK'
      BY <1>1, <2>3, <3>1 DEF RefreshTypeOK
    <3>3. ASSUME NEW n \in 1 .. MaxClaims, claims'[n] # Nobody PROVE ClaimOK(claims[n])'
      <4>1. CASE n = k
        <5>1. claims'[n] = c
          BY <1>1, <2>3, <4>1
        <5> QED BY <2>1, <2>3, <5>1 DEF ClaimOK, DayRows
      <4>2. CASE n # k
        <5>1. claims'[n] = claims[n]
          BY <1>1, <2>3, <4>2
        <5> QED BY <2>2, <3>3, <5>1
      <4> QED BY <4>1, <4>2
    <3>4. (\A d \in Days : processed'[d] <= requested'[d]) /\ RefreshCovers'
      BY <2>3, DaysStay
    <3> QED BY <3>2, <3>3, <3>4 DEF RefreshInv
  <2>4. ASSUME NEW d \in Days, ClaimDay(k, d) PROVE RefreshInv' /\ RefreshTypeOK'
    <3> DEFINE c == [day |-> d, gen |-> requested[d], at |-> "claimed", seen |-> {}]
    <3>1. c \in ClaimType /\ ClaimOK(c)
      BY <1>1 DEF ClaimType, ClaimOK
    <3>2. claims' = [claims EXCEPT ![k] = c] /\ UNCHANGED <<processed, aggregated>>
      BY <2>4 DEF ClaimDay, SetClaim, refreshVars
    <3>3. PICK e \in ClaimType : e = c
      BY <3>1
    <3> HIDE DEF c
    <3> QED BY <2>3, <3>1, <3>2, <3>3
  <2>5. CASE RefreshDay(k)
    <3>1. claims[k] \in ClaimType /\ ClaimOK(claims[k])
      BY <1>2, <2>5 DEF RefreshDay, InWork
    <3> DEFINE c == [claims[k] EXCEPT !.at = "read", !.seen = DayRows(claims[k].day)]
    <3>2. c \in ClaimType /\ ClaimOK(c)
      <4>1. /\ c \in ClaimType /\ c.day = claims[k].day /\ c.gen = claims[k].gen
            /\ c.seen = DayRows(claims[k].day)
        BY <3>1 DEF ClaimType, DayRows, RowsTypeOK
      <4> QED BY <3>1, <4>1 DEF ClaimOK
    <3>3. claims' = [claims EXCEPT ![k] = c] /\ UNCHANGED <<processed, aggregated>>
      BY <2>5 DEF RefreshDay, SetClaim, refreshVars
    <3>4. PICK e \in ClaimType : e = c
      BY <3>2
    <3> HIDE DEF c
    <3> QED BY <2>3, <3>2, <3>3, <3>4
  <2>6. CASE MarkProcessed(k)
    <3>1. claims[k] \in ClaimType /\ ClaimOK(claims[k]) /\ claims[k].at = "read"
      BY <1>2, <2>6 DEF MarkProcessed, InWork
    <3>2. PICK c \in ClaimType : c = claims[k]
      BY <3>1
    <3>3. /\ processed' = [processed EXCEPT ![c.day] = c.gen]
          /\ aggregated' = [aggregated EXCEPT ![c.day] = @ \cup c.seen]
          /\ claims' = [claims EXCEPT ![k] = Nobody]
      BY <2>6, <3>2 DEF MarkProcessed, RefreshedTo, SetClaim
    <3>4. c.day \in Days /\ c.gen \in Nat /\ c.seen \subseteq Records
      BY DEF ClaimType
    <3>5. RefreshTypeOK'
      BY <1>1, <3>3, <3>4 DEF RefreshTypeOK
    <3>6. ASSUME NEW n \in 1 .. MaxClaims, claims'[n] # Nobody PROVE ClaimOK(claims[n])'
      <4>1. claims'[n] = claims[n]
        BY <1>1, <3>3, <3>6
      <4> QED BY <2>2, <3>6, <4>1
    <3>7. /\ c.gen <= requested[c.day]
          /\ c.gen = requested[c.day] => DayRows(c.day) \cap Late \subseteq c.seen
      BY <3>1, <3>2 DEF ClaimOK
    <3>8. \A d \in Days : processed'[d] <= requested'[d]
      BY <1>1, <2>1, <3>3, <3>4, <3>7 DEF RefreshInv
    <3>9. \A d \in Days : processed[d] = requested[d] => DayRows(d) \cap Late \subseteq aggregated[d]
      BY DEF RefreshInv, RefreshCovers
    <3>10. \A d \in Days : processed'[d] = requested[d] => DayRows(d) \cap Late \subseteq aggregated'[d]
      BY <1>1, <3>3, <3>4, <3>7, <3>9
    <3>11. RefreshCovers'
      BY <2>1, <3>10 DEF RefreshCovers, DayRows
    <3> QED BY <3>5, <3>6, <3>8, <3>11 DEF RefreshInv
  <2>7. CASE Superseded(k)
    BY <1>1, <1>3, <2>7 DEF Superseded, SetClaim, refreshVars
  <2> QED BY <1>4, <2>4, <2>5, <2>6, <2>7 DEF RefreshWork
<1> QED BY <1>1, <1>3, <1>4, ClaimsStep

-----------------------------------------------------------------------------
(* Kafka                                                                   *)

\* The group commits only what a task has to commit, which the checkpoints cover.
LEMMA KafkaStep ==
  ASSUME KafkaTypeOK, KafkaBehindSql, TasksInv, RowsTypeOK, RowsTypeOK', RowsMove, [Next]_vars
  PROVE  KafkaTypeOK' /\ KafkaBehindSql'
<1>1. /\ owner \in [Partitions -> Members \cup {Nobody}]
      /\ standing \in [Members -> {"out", "in", "evicted"}]
      /\ committed \in [Partitions -> Nat] /\ low \in [Partitions -> Nat]
      /\ checkpoint \in [Partitions -> Nat] /\ checkpoint' \in [Partitions -> Nat]
      /\ \A p \in Partitions : committed[p] <= checkpoint[p] /\ checkpoint[p] <= checkpoint'[p]
  BY DEF KafkaTypeOK, KafkaBehindSql, RowsTypeOK, RowsMove, Offsets
<1> DEFINE Same == UNCHANGED kafkaVars
           Group == /\ UNCHANGED committed
                    /\ owner' \in [Partitions -> Members \cup {Nobody}]
                    /\ standing' \in [Members -> {"out", "in", "evicted"}]
                    /\ low' \in [Partitions -> Nat]
           Commit == /\ UNCHANGED <<owner, standing, low>>
                     /\ \E m \in Members : \E t \in tasks[m] : committed' = Override(committed, t.next)
<1>2. ASSUME NEW m \in Members, MemberNext(m) PROVE Same \/ Group \/ Commit
  <2>1. CASE Consume(m)
    BY <2>1 DEF Consume, HandleMessage, FlushBeforeMessage, DropMessage, TakeMessage
  <2>2. CASE FlushTick(m) \/ Age(m)
    BY <2>2 DEF FlushTick, Age
  <2>3. ASSUME NEW t \in tasks[m], RunTask(m, t) PROVE Same \/ Commit
    <3>1. CASE CommitKafka(m, t)
      BY <3>1 DEF CommitKafka, CommitOffsets
    <3>2. CASE PersistCommits(m, t) \/ IgnoreCommits(m, t) \/ Persisted(m, t) \/ Resume(m, t)
               \/ Ignored(m, t)
      BY <3>2 DEF PersistCommits, IgnoreCommits, Persisted, Resume, Ignored
    <3> QED BY <2>3, <3>1, <3>2 DEF RunTask
  <2>4. ASSUME NEW t \in tasks[m], FailTask(m, t) PROVE Same
    BY <2>4 DEF FailTask, PersistFails, CommitFails, IgnoreFails
  <2>5. CASE CheckPressure(m) \/ Pause(m) \/ PollNothing(m)
    BY <2>5 DEF CheckPressure, Pause, PollNothing
  <2>6. ASSUME NEW p \in Partitions, PollMessage(m, p) PROVE Same
    BY <2>6 DEF PollMessage
  <2>7. ASSUME NEW S \in SUBSET Partitions, StartAssign(m, S) PROVE Group
    BY <1>1, <2>7 DEF StartAssign
  <2>8. CASE Assigning(m) \/ ReadFails(m)
    BY <2>8 DEF Assigning, ReadCheckpoints, KafkaAheadOfSql, RetentionGap, Assign, ReadFails,
                ThreadDies
  <2>9. ASSUME Revoke(m) \/ Evict(m) \/ Crash(m) PROVE Group
    <3>1. Freed(m) \in [Partitions -> Members \cup {Nobody}]
      BY <1>1 DEF Freed
    <3>2. /\ owner' = Freed(m) /\ UNCHANGED <<committed, low>>
          /\ \E s \in {"out", "evicted"} : standing' = [standing EXCEPT ![m] = s]
      BY <2>9 DEF Revoke, Evict, Crash
    <3> QED BY <1>1, <3>1, <3>2
  <2>10. CASE Restart(m)
    BY <2>10 DEF Restart
  <2> HIDE DEF Same, Group, Commit
  <2> QED BY <1>2, <2>1, <2>2, <2>3, <2>4, <2>5, <2>6, <2>7, <2>8, <2>9, <2>10 DEF MemberNext
<1>3. ASSUME NEW p \in Partitions, Retain(p) PROVE Group
  BY <1>1, <1>3 DEF Retain
<1>4. ASSUME NEW k \in 1 .. MaxClaims, RefreshWork(k) \/ RefreshFails(k) PROVE Same
  BY <1>4 DEF RefreshWork, RefreshFails, ClaimDay, RefreshDay, MarkProcessed, Superseded
<1>5. ASSUME UNCHANGED vars PROVE Same
  BY <1>5 DEF vars
<1>6. Same \/ Group \/ Commit
  <2> HIDE DEF Same, Group, Commit
  <2> QED BY <1>2, <1>3, <1>4, <1>5 DEF Next
<1>7. CASE Same
  BY <1>1, <1>7 DEF kafkaVars, KafkaTypeOK, KafkaBehindSql, Offsets
<1>8. CASE Group
  BY <1>1, <1>8 DEF KafkaTypeOK, KafkaBehindSql, Offsets
<1>9. CASE Commit
  <2>8. PICK m \in Members : \E t \in tasks[m] : committed' = Override(committed, t.next)
    BY <1>9
  <2>1. PICK t \in tasks[m] : committed' = Override(committed, t.next)
    BY <2>8
  <2>2. t.next \in [Partitions -> Nat \cup {-1}] /\ \A p \in Partitions : t.next[p] <= checkpoint[p]
    BY DEF TasksInv, TaskOK, TaskType, NextOffsets, Absent
  <2>3. PICK next \in [Partitions -> Nat \cup {-1}] : next = t.next
    BY <2>2
  <2>4. committed' = [p \in Partitions |-> IF next[p] = -1 THEN committed[p] ELSE next[p]]
    BY <2>1, <2>3 DEF Override, Absent
  <2>5. \A p \in Partitions : committed'[p] \in Nat /\ committed'[p] <= checkpoint'[p]
    BY <1>1, <2>2, <2>3, <2>4
  <2>6. committed' \in [Partitions -> Nat]
    BY <2>4, <2>5
  <2>7. UNCHANGED <<owner, standing, low>>
    BY <1>9
  <2> QED BY <1>1, <2>5, <2>6, <2>7 DEF KafkaTypeOK, KafkaBehindSql, Offsets
<1> QED BY <1>6, <1>7, <1>8, <1>9

-----------------------------------------------------------------------------
(* The poll threads                                                        *)

LEMMA ThreadStep ==
  ASSUME ThreadTypeOK, KafkaTypeOK, RowsTypeOK, [Next]_vars
  PROVE  ThreadTypeOK'
<1> DEFINE Places == {"check", "pause", "poll", "reading", "deciding", "dead"}
           Same == UNCHANGED <<thread, target, read, cause, owned, paused, position>>
<1>1. /\ thread \in [Members -> Places]
      /\ target \in [Members -> SUBSET Partitions]
      /\ read \in [Members -> NextOffsets]
      /\ cause \in [Members -> {"none", "sql", "ahead", "gap"}]
      /\ owned \in [Members -> SUBSET Partitions]
      /\ paused \in [Members -> SUBSET Partitions]
      /\ position \in [Members -> [Partitions -> Nat]]
  BY DEF ThreadTypeOK, Offsets
<1>2. NoOffsets \in NextOffsets
  BY DEF NoOffsets, NextOffsets
<1>3. CASE Same
  BY <1>3 DEF ThreadTypeOK
<1>4. ASSUME NEW m \in Members, Consume(m) \/ FlushTick(m) \/ Age(m) PROVE Same
  BY <1>4 DEF Consume, HandleMessage, FlushBeforeMessage, DropMessage, TakeMessage, FlushTick, Age,
              threadVars, ownerVars, fetchVars
<1>5. ASSUME NEW m \in Members, NEW t \in tasks[m], RunTask(m, t) PROVE ThreadTypeOK'
  <2>1. CASE Resume(m, t)
    <3>1. /\ UNCHANGED <<thread, target, read, cause, owned, position>>
          /\ paused' = [paused EXCEPT ![m] = @ \ owned[m]]
      BY <2>1 DEF Resume, threadVars, ownerVars
    <3> QED BY <1>1, <3>1 DEF ThreadTypeOK
  <2>2. ASSUME PersistCommits(m, t) \/ IgnoreCommits(m, t) \/ Persisted(m, t) \/ CommitKafka(m, t)
               \/ Ignored(m, t)
        PROVE  Same
    BY <2>2 DEF PersistCommits, IgnoreCommits, Persisted, CommitKafka, Ignored, threadVars,
                ownerVars, fetchVars
  <2> QED BY <1>3, <1>5, <2>1, <2>2 DEF RunTask
<1>6. ASSUME NEW m \in Members, NEW t \in tasks[m], FailTask(m, t) PROVE Same
  BY <1>6 DEF FailTask, PersistFails, CommitFails, IgnoreFails, threadVars, ownerVars, fetchVars
<1>7. ASSUME NEW m \in Members, CheckPressure(m) \/ PollNothing(m) PROVE ThreadTypeOK'
  <2>1. /\ UNCHANGED <<target, read, cause, owned, paused, position>>
        /\ \E place \in Places : thread' = [thread EXCEPT ![m] = place]
    BY <1>7 DEF CheckPressure, PollNothing, Thread, ownerVars, fetchVars
  <2> QED BY <1>1, <2>1 DEF ThreadTypeOK
<1>8. ASSUME NEW m \in Members, Pause(m) PROVE ThreadTypeOK'
  <2>1. /\ UNCHANGED <<target, read, cause, owned, position>>
        /\ thread' = [thread EXCEPT ![m] = "poll"]
        /\ paused' = [paused EXCEPT ![m] = owned[m]]
    BY <1>8 DEF Pause, Thread, ownerVars
  <2> QED BY <1>1, <2>1 DEF ThreadTypeOK
<1>9. ASSUME NEW m \in Members, NEW p \in Partitions, PollMessage(m, p) PROVE ThreadTypeOK'
  <2>1. /\ UNCHANGED <<target, read, cause, owned, paused>>
        /\ thread' = [thread EXCEPT ![m] = "check"]
        /\ position' = [position EXCEPT ![m][p] = Min(Pending(m, p)) + 1]
        /\ Pending(m, p) # {}
    BY <1>9 DEF PollMessage, Thread, ownerVars
  <2>2. Pending(m, p) \in SUBSET Nat
    BY LogAssumption DEF Pending
  <2>3. Min(Pending(m, p)) \in Nat
    <3> DEFINE S == Pending(m, p)
    <3> HIDE DEF S
    <3>1. PICK o \in S : \A n \in S : o <= n
      BY <2>1, <2>2, SmallestOffset DEF S
    <3>2. Min(S) \in S
      BY <3>1 DEF Min
    <3> QED BY <2>2, <3>2 DEF S
  <2>4. position' \in [Members -> [Partitions -> Nat]]
    BY <1>1, <2>1, <2>3
  <2> QED BY <1>1, <2>1, <2>4 DEF ThreadTypeOK, Offsets
<1>10. ASSUME NEW m \in Members, NEW S \in SUBSET Partitions, StartAssign(m, S)
       PROVE  ThreadTypeOK'
  <2>1. /\ UNCHANGED <<read, cause, owned, paused, position>>
        /\ thread' = [thread EXCEPT ![m] = "reading"]
        /\ target' = [target EXCEPT ![m] = S]
    BY <1>10 DEF StartAssign, Thread, ownerVars, fetchVars
  <2> QED BY <1>1, <2>1 DEF ThreadTypeOK
<1>11. ASSUME NEW m \in Members, Assigning(m) \/ ReadFails(m) PROVE ThreadTypeOK'
  <2>1. CASE ReadCheckpoints(m)
    <3>1. /\ UNCHANGED <<target, cause, owned, paused, position>>
          /\ thread' = [thread EXCEPT ![m] = "deciding"]
          /\ read' = [read EXCEPT ![m] =
               [p \in Partitions |-> IF p \in target[m] THEN checkpoint[p] ELSE Absent]]
      BY <2>1 DEF ReadCheckpoints, Thread, ownerVars, fetchVars
    <3>2. [p \in Partitions |-> IF p \in target[m] THEN checkpoint[p] ELSE Absent] \in NextOffsets
      BY DEF NextOffsets, RowsTypeOK, Offsets
    <3> QED BY <1>1, <3>1, <3>2 DEF ThreadTypeOK
  <2>2. CASE KafkaAheadOfSql(m) \/ RetentionGap(m) \/ ReadFails(m)
    <3>1. /\ UNCHANGED <<owned, paused, position>>
          /\ thread' = [thread EXCEPT ![m] = "dead"]
          /\ target' = [target EXCEPT ![m] = {}]
          /\ read' = [read EXCEPT ![m] = NoOffsets]
          /\ \E why \in {"ahead", "gap", "sql"} : cause' = [cause EXCEPT ![m] = why]
      BY <2>2 DEF KafkaAheadOfSql, RetentionGap, ReadFails, ThreadDies, Thread, ownerVars, fetchVars
    <3> QED BY <1>1, <1>2, <3>1 DEF ThreadTypeOK
  <2>3. CASE Assign(m)
    <3>1. /\ thread' = [thread EXCEPT ![m] = "check"]
          /\ owned' = [owned EXCEPT ![m] = target[m]]
          /\ paused' = [paused EXCEPT ![m] = {}]
          /\ position' = [position EXCEPT ![m] = Seek(m)]
          /\ target' = [target EXCEPT ![m] = {}]
          /\ read' = [read EXCEPT ![m] = NoOffsets]
          /\ cause' = cause /\ Gap(m) = {}
      BY <2>3 DEF Assign, Thread
    <3>2. \A p \in target[m] : read[m][p] \in Nat
      <4>1. ASSUME NEW p \in target[m] PROVE read[m][p] \in Nat
        <5>1. p \in Partitions /\ low[p] \in Nat /\ read[m][p] \in Nat \cup {-1}
          BY <1>1 DEF KafkaTypeOK, Offsets, NextOffsets, Absent
        <5>2. ~(read[m][p] < low[p])
          BY <3>1 DEF Gap
        <5> QED BY <5>1, <5>2
      <4> QED BY <4>1
    <3>3. Seek(m) \in [Partitions -> Nat]
      BY <3>2 DEF Seek
    <3> QED BY <1>1, <1>2, <3>1, <3>3 DEF ThreadTypeOK, Offsets
  <2> QED BY <1>11, <2>1, <2>2, <2>3 DEF Assigning
<1>12. ASSUME NEW m \in Members, Revoke(m) PROVE ThreadTypeOK'
  <2>1. /\ UNCHANGED <<target, read, cause, paused, position>>
        /\ thread' = [thread EXCEPT ![m] = "check"]
        /\ owned' = [owned EXCEPT ![m] = {}]
    BY <1>12 DEF Revoke, Thread, fetchVars
  <2> QED BY <1>1, <2>1 DEF ThreadTypeOK
<1>13. ASSUME NEW m \in Members, Crash(m) PROVE ThreadTypeOK'
  <2>1. /\ thread' = [thread EXCEPT ![m] = "check"]
        /\ target' = [target EXCEPT ![m] = {}]
        /\ read' = [read EXCEPT ![m] = NoOffsets]
        /\ cause' = [cause EXCEPT ![m] = "none"]
        /\ owned' = [owned EXCEPT ![m] = {}]
        /\ paused' = [paused EXCEPT ![m] = {}]
        /\ position' = [position EXCEPT ![m] = [p \in Partitions |-> 0]]
    BY <1>13 DEF Crash
  <2> QED BY <1>1, <1>2, <2>1 DEF ThreadTypeOK, Offsets
<1>14. ASSUME NEW m \in Members, Evict(m) \/ Restart(m) PROVE Same
  BY <1>14 DEF Evict, Restart, processVars, threadVars, ownerVars, fetchVars
<1>15. ASSUME NEW p \in Partitions, Retain(p) PROVE Same
  BY <1>15 DEF Retain, processVars, threadVars, ownerVars, fetchVars
<1>16. ASSUME NEW k \in 1 .. MaxClaims, RefreshWork(k) \/ RefreshFails(k) PROVE Same
  BY <1>16 DEF RefreshWork, RefreshFails, ClaimDay, RefreshDay, MarkProcessed, Superseded,
               processVars, threadVars, ownerVars, fetchVars
<1>17. ASSUME UNCHANGED vars PROVE Same
  BY <1>17 DEF vars, processVars, threadVars, ownerVars, fetchVars
<1> HIDE DEF Same
<1> QED BY <1>3, <1>4, <1>5, <1>6, <1>7, <1>8, <1>9, <1>10, <1>11, <1>12, <1>13, <1>14, <1>15,
           <1>16, <1>17 DEF Next, MemberNext

-----------------------------------------------------------------------------
(* The tasks of the event loops                                            *)

\* What a task is going to commit stays covered: checkpoints only grow.
LEMMA TaskStays ==
  ASSUME RowsTypeOK, RowsTypeOK', RowsMove, NEW t, TaskOK(t, checkpoint)
  PROVE  TaskOK(t, checkpoint')
<1>1. ASSUME NEW p \in Partitions PROVE t.next[p] <= checkpoint'[p]
  <2>1. t.next[p] \in Nat \cup {-1} /\ checkpoint[p] \in Nat /\ checkpoint'[p] \in Nat
    BY DEF TaskOK, TaskType, NextOffsets, RowsTypeOK, Offsets, Absent
  <2>2. t.next[p] <= checkpoint[p] /\ checkpoint[p] <= checkpoint'[p]
    BY DEF TaskOK, RowsMove
  <2> QED BY <2>1, <2>2
<1> QED BY <1>1 DEF TaskOK

LEMMA TasksStay ==
  ASSUME TasksInv, RowsTypeOK, RowsTypeOK', RowsMove, UNCHANGED tasks
  PROVE  TasksInv'
BY TaskStays DEF TasksInv

LEMMA TasksSet ==
  ASSUME TasksInv, RowsTypeOK, RowsTypeOK', RowsMove,
         NEW m \in Members, NEW S, SetTasks(m, S),
         \A t \in S : t \in tasks[m] \/ TaskOK(t, checkpoint')
  PROVE  TasksInv'
<1>1. tasks \in [Members -> SUBSET TaskType] /\ tasks' = [tasks EXCEPT ![m] = S]
  BY DEF TasksInv, SetTasks
<1>2. \A t \in S : TaskOK(t, checkpoint')
  BY TaskStays DEF TasksInv
<1>3. S \subseteq TaskType
  BY <1>2 DEF TaskOK
<1>4. tasks' \in [Members -> SUBSET TaskType]
  BY <1>1, <1>3
<1>5. \A n \in Members : \A t \in tasks'[n] : TaskOK(t, checkpoint')
  <2>1. TAKE n \in Members
  <2>2. CASE n = m
    BY <1>1, <1>2, <2>2
  <2>3. CASE n # m
    BY <1>1, <2>3, TaskStays DEF TasksInv
  <2> QED BY <2>2, <2>3
<1> QED BY <1>4, <1>5 DEF TasksInv

\* A task without offsets to commit.
LEMMA NewTask ==
  ASSUME RowsTypeOK',
         NEW at \in {"persist", "ignore"}, NEW then \in {"none", "handle", "retry", "ignore"},
         NEW msg \in Records \cup {Nobody}, NEW batch \in Batches,
         at = "ignore" \/ then = "ignore" => msg \in Records /\ Kind[msg] = "ignored",
         then \in {"handle", "retry"} => msg \in Records,
         then = "retry" => Kind[msg] # "ignored"
  PROVE  TaskOK(Task(at, then, msg, batch, NoOffsets), checkpoint')
<1>1. NoOffsets \in NextOffsets /\ \A p \in Partitions : NoOffsets[p] = -1 /\ checkpoint'[p] \in Nat
  BY DEF NoOffsets, NextOffsets, Absent, RowsTypeOK, Offsets
<1>2. \A p \in Partitions : NoOffsets[p] <= checkpoint'[p]
  BY <1>1
<1>3. Task(at, then, msg, batch, NoOffsets) \in TaskType
  BY <1>1 DEF Task, TaskType
<1> QED BY <1>2, <1>3 DEF Task, TaskOK

LEMMA EmptyIsBatch == EmptyBatch \in Batches
BY DEF EmptyBatch, Batches, In

LEMMA OneMore ==
  ASSUME NEW batch \in Batches, NEW r \in Records, Kind[r] # "ignored"
  PROVE  [batch EXCEPT ![r] = @ + 1] \in Batches
<1> DEFINE more == [batch EXCEPT ![r] = @ + 1]
<1>1. batch \in [Records -> Nat] /\ \A q \in In(batch) : Kind[q] # "ignored"
  BY DEF Batches
<1>2. more \in [Records -> Nat]
  BY <1>1
<1>3. \A q \in Records : q # r => more[q] = batch[q]
  BY <1>1
<1> HIDE DEF more
<1>4. \A q \in In(more) : Kind[q] # "ignored"
  BY <1>1, <1>3 DEF In
<1> QED BY <1>2, <1>4 DEF Batches, more

LEMMA FlushStep ==
  ASSUME TasksInv, LoopTypeOK, RowsTypeOK, RowsTypeOK', RowsMove, NEW m \in Members,
         NEW then \in {"none", "handle", "retry", "ignore"}, NEW msg \in Records \cup {Nobody},
         NEW others, others \subseteq tasks[m], NEW batch \in Batches,
         then = "ignore" => msg \in Records /\ Kind[msg] = "ignored",
         then \in {"handle", "retry"} => msg \in Records,
         then = "retry" => Kind[msg] # "ignored",
         StartFlush(m, then, msg, others, batch)
  PROVE  TasksInv' /\ collector' \in [Members -> Batches]
<1>1. TaskOK(Task("persist", then, msg, batch, NoOffsets), checkpoint')
  BY NewTask
<1>2. SetTasks(m, others \cup {Task("persist", then, msg, batch, NoOffsets)})
  BY DEF StartFlush
<1>3. TasksInv'
  BY <1>1, <1>2, TasksSet
<1>4. collector' \in [Members -> Batches]
  BY EmptyIsBatch DEF StartFlush, LoopTypeOK
<1> QED BY <1>3, <1>4

LEMMA BufferStep ==
  ASSUME TasksInv, LoopTypeOK, RowsTypeOK, RowsTypeOK', RowsMove, NEW m \in Members,
         NEW r \in Records, NEW others, others \subseteq tasks[m], Buffer(m, r, others)
  PROVE  TasksInv' /\ collector' \in [Members -> Batches]
<1>1. collector \in [Members -> Batches]
  BY DEF LoopTypeOK
<1>2. ASSUME UNCHANGED collector, SetTasks(m, others)
      PROVE  TasksInv' /\ collector' \in [Members -> Batches]
  BY <1>1, <1>2, TasksSet
<1>3. Kind[r] # "ignored" => [collector[m] EXCEPT ![r] = @ + 1] \in Batches
  BY <1>1, OneMore
<1>4. CASE RejectPoison(m, r, others)
  BY <1>2, <1>4 DEF RejectPoison, batchVars
<1>5. CASE IgnoreRecord(m, r, others)
  <2>1. CASE collector[m] = EmptyBatch /\ UNCHANGED collector
             /\ SetTasks(m, others \cup {Task("ignore", "none", r, EmptyBatch, NoOffsets)})
    <3>1. TaskOK(Task("ignore", "none", r, EmptyBatch, NoOffsets), checkpoint')
      BY <1>5, NewTask, EmptyIsBatch DEF IgnoreRecord
    <3>2. TasksInv'
      BY <2>1, <3>1, TasksSet
    <3> QED BY <1>1, <2>1, <3>2
  <2>2. CASE StartFlush(m, "ignore", r, others, collector[m])
    <3>1. Kind[r] = "ignored" /\ collector[m] \in Batches
      BY <1>1, <1>5 DEF IgnoreRecord
    <3> QED BY <2>2, <3>1, FlushStep
  <2> QED BY <1>5, <2>1, <2>2 DEF IgnoreRecord, batchVars
<1>6. CASE CollectEvent(m, r, others)
  <2> DEFINE batch == [collector[m] EXCEPT ![r] = @ + 1]
  <2>1. CASE StartFlush(m, "none", Nobody, others, batch)
    <3>1. PICK b \in Batches : b = batch
      BY <1>3, <1>6 DEF CollectEvent
    <3> HIDE DEF batch
    <3> QED BY <2>1, <3>1, FlushStep
  <2>2. CASE collector' = [collector EXCEPT ![m] = batch] /\ SetTasks(m, others)
    <3>1. TasksInv'
      BY <2>2, TasksSet
    <3>2. batch \in Batches
      BY <1>3, <1>6 DEF CollectEvent
    <3> HIDE DEF batch
    <3> QED BY <1>1, <2>2, <3>1, <3>2
  <2> QED BY <1>6, <2>1, <2>2 DEF CollectEvent
<1>7. CASE OverflowEvent(m, r, others)
  <2>1. CASE StartFlush(m, "retry", r, others, collector[m])
    <3>1. collector[m] \in Batches /\ Kind[r] # "ignored"
      BY <1>1, <1>7 DEF OverflowEvent
    <3> QED BY <2>1, <3>1, FlushStep
  <2> QED BY <1>2, <1>7, <2>1 DEF OverflowEvent, batchVars
<1> QED BY <1>4, <1>5, <1>6, <1>7 DEF Buffer

\* A task ends, or goes on with the offsets it has.
LEMMA TaskEnds ==
  ASSUME TasksInv, RowsTypeOK, RowsTypeOK', RowsMove, NEW m \in Members, NEW t \in tasks[m],
         SetTasks(m, Others(m, t))
  PROVE  TasksInv'
BY TasksSet DEF Others

LEMMA TaskGoesOn ==
  ASSUME TasksInv, RowsTypeOK, RowsTypeOK', RowsMove, NEW m \in Members, NEW t \in tasks[m],
         t.at \in {"persisted", "ignored", "commit"},
         \/ SetTasks(m, Others(m, t) \cup {[t EXCEPT !.at = "commit"]})
         \/ SetTasks(m, Others(m, t) \cup {[t EXCEPT !.at = "observe", !.next = NoOffsets]})
         \/ SetTasks(m, Others(m, t))
  PROVE  TasksInv'
<1>1. TaskOK(t, checkpoint')
  BY TaskStays DEF TasksInv
<1>2. NoOffsets \in NextOffsets /\ \A p \in Partitions : NoOffsets[p] <= checkpoint'[p]
  BY DEF NoOffsets, NextOffsets, Absent, RowsTypeOK, Offsets
<1>3. TaskOK([t EXCEPT !.at = "commit"], checkpoint')
  BY <1>1 DEF TaskOK, TaskType
<1>4. TaskOK([t EXCEPT !.at = "observe", !.next = NoOffsets], checkpoint')
  BY <1>1, <1>2 DEF TaskOK, TaskType
<1> QED BY <1>3, <1>4, TasksSet DEF Others

\* A task whose transaction has committed: its offsets are the new checkpoints.
LEMMA Returned ==
  ASSUME RowsTypeOK', NEW at \in {"persisted", "ignored"}, NEW then, NEW msg, NEW next \in NextOffsets,
         then \in {"none", "handle", "retry", "ignore", "ignored"}, msg \in Records \cup {Nobody},
         \A p \in Partitions : next[p] <= checkpoint'[p],
         then = "ignore" => msg \in Records /\ Kind[msg] = "ignored",
         then \in {"handle", "retry"} => msg \in Records,
         then = "retry" => Kind[msg] # "ignored"
  PROVE  TaskOK(Task(at, then, msg, EmptyBatch, next), checkpoint')
<1>1. Task(at, then, msg, EmptyBatch, next) \in TaskType
  BY EmptyIsBatch DEF Task, TaskType
<1> QED BY <1>1 DEF Task, TaskOK

LEMMA TransactionTasks ==
  ASSUME TasksInv, DataInv, RowsTypeOK, RowsTypeOK', RowsMove,
         NEW m \in Members, NEW t \in tasks[m], PersistCommits(m, t) \/ IgnoreCommits(m, t)
  PROVE  TasksInv'
<1>1. TaskOK(t, checkpoint)
  BY DEF TasksInv
<1>2. CASE PersistCommits(m, t)
  <2>1. PICK batch \in Batches : batch = t.batch
    BY <1>1 DEF TaskOK, TaskType
  <2>2. PersistBatch(batch) /\ UNCHANGED <<processed, aggregated, claims>>
    BY <1>2, <2>1 DEF PersistCommits, refreshVars
  <2>3. \A p \in Partitions : Advanced(batch)[p] <= checkpoint'[p]
    BY <2>2, PersistStep
  <2>4. PICK next \in NextOffsets : next = Advanced(batch)
    BY AdvancedIsWritten DEF RowsTypeOK
  <2>5. TaskOK(Task("persisted", t.then, t.msg, EmptyBatch, next), checkpoint')
    <3>1. /\ t.then \in {"none", "handle", "retry", "ignore", "ignored"}
          /\ t.msg \in Records \cup {Nobody}
          /\ t.then = "ignore" => t.msg \in Records /\ Kind[t.msg] = "ignored"
          /\ t.then \in {"handle", "retry"} => t.msg \in Records
          /\ t.then = "retry" => Kind[t.msg] # "ignored"
      BY <1>1 DEF TaskOK, TaskType
    <3>2. \A p \in Partitions : next[p] <= checkpoint'[p]
      BY <2>3, <2>4
    <3> QED BY <3>1, <3>2, Returned
  <2>6. SetTasks(m, Others(m, t) \cup {Task("persisted", t.then, t.msg, EmptyBatch, next)})
    BY <1>2, <2>1, <2>4 DEF PersistCommits
  <2> QED BY <2>5, <2>6, TasksSet DEF Others
<1>3. CASE IgnoreCommits(m, t)
  <2>1. /\ t.at = "ignore" /\ PastOffsets(t.msg) \in NextOffsets
        /\ \A p \in Partitions : PastOffsets(t.msg)[p] <= checkpoint'[p]
    BY <1>1, <1>3, IgnoreStep DEF IgnoreCommits, Waits
  <2>2. PICK next \in NextOffsets : next = PastOffsets(t.msg)
    BY <2>1
  <2>3. TaskOK(Task("ignored", "ignored", Nobody, EmptyBatch, next), checkpoint')
    BY <2>1, <2>2, Returned
  <2>4. SetTasks(m, Others(m, t) \cup {Task("ignored", "ignored", Nobody, EmptyBatch, next)})
    BY <1>3, <2>2 DEF IgnoreCommits
  <2> QED BY <2>3, <2>4, TasksSet DEF Others
<1> QED BY <1>2, <1>3

\* The tasks that are resumed by the answer of a transaction, a commit or the binder.
LEMMA RunTaskStep ==
  ASSUME TasksInv, DataInv, LoopTypeOK, RowsTypeOK, RowsTypeOK', RowsMove,
         NEW m \in Members, NEW t \in tasks[m], RunTask(m, t) \/ FailTask(m, t)
  PROVE  TasksInv' /\ collector' \in [Members -> Batches] /\ UNCHANGED inbox
<1>1. collector \in [Members -> Batches]
  BY DEF LoopTypeOK
<1>2. TaskOK(t, checkpoint) /\ t \in TaskType
  BY DEF TasksInv, TaskOK
<1>3. CASE PersistCommits(m, t) \/ IgnoreCommits(m, t)
  <2>1. UNCHANGED <<collector, inbox>>
    BY <1>3 DEF PersistCommits, IgnoreCommits, batchVars
  <2> QED BY <1>1, <1>3, <2>1, TransactionTasks
<1>4. CASE Persisted(m, t)
  <2>1. UNCHANGED <<collector, inbox>> /\ t.at = "persisted"
    BY <1>4 DEF Persisted, Waits
  <2>2. \/ SetTasks(m, Others(m, t) \cup {[t EXCEPT !.at = "commit"]})
        \/ SetTasks(m, Others(m, t) \cup {[t EXCEPT !.at = "observe", !.next = NoOffsets]})
    BY <1>4, Zenon DEF Persisted
  <2>3. TasksInv'
    BY <2>1, <2>2, TaskGoesOn
  <2> QED BY <1>1, <2>1, <2>3
<1>5. CASE CommitKafka(m, t)
  <2>1. UNCHANGED <<collector, inbox>> /\ t.at = "commit"
    BY <1>5 DEF CommitKafka, Waits, batchVars
  <2> DEFINE u == [t EXCEPT !.at = "observe", !.next = NoOffsets]
  <2>2. SetTasks(m, Others(m, t) \cup {v \in {u} : v.then # "ignored"})
    BY <1>5 DEF CommitKafka, AfterCommit
  <2>3. {v \in {u} : v.then # "ignored"} = {u} \/ {v \in {u} : v.then # "ignored"} = {}
    <3> HIDE DEF u
    <3> QED OBVIOUS
  <2>4. SetTasks(m, Others(m, t) \cup {u}) \/ SetTasks(m, Others(m, t))
    <3> HIDE DEF u
    <3>1. Others(m, t) \cup {} = Others(m, t)
      OBVIOUS
    <3> QED BY <2>2, <2>3, <3>1
  <2>5. TasksInv'
    BY <2>1, <2>4, TaskGoesOn
  <2> QED BY <1>1, <2>1, <2>5
<1>6. CASE Ignored(m, t)
  <2>1. UNCHANGED <<collector, inbox>> /\ t.at = "ignored"
    BY <1>6 DEF Ignored, Waits, batchVars
  <2> DEFINE u == [t EXCEPT !.at = "commit"]
             may == MayCommit(m) /\ t.next # NoOffsets
  <2>2. SetTasks(m, Others(m, t) \cup {v \in {u} : may})
    BY <1>6 DEF Ignored
  <2>3. {v \in {u} : may} = {u} \/ {v \in {u} : may} = {}
    <3> HIDE DEF u, may
    <3> QED BY Zenon
  <2>4. SetTasks(m, Others(m, t) \cup {u}) \/ SetTasks(m, Others(m, t))
    <3> HIDE DEF u, may
    <3>1. Others(m, t) \cup {} = Others(m, t)
      OBVIOUS
    <3> QED BY <2>2, <2>3, <3>1
  <2>5. TasksInv'
    BY <2>1, <2>4, TaskGoesOn
  <2> QED BY <1>1, <2>1, <2>5
<1>7. CASE Resume(m, t)
  <2> DEFINE others == Others(m, t)
  <2>0. others \subseteq tasks[m]
    BY DEF Others
  <2>1. UNCHANGED inbox
    BY <1>7 DEF Resume
  <2>2. CASE SetTasks(m, others) /\ UNCHANGED batchVars
    <3>1. UNCHANGED collector
      BY <2>2 DEF batchVars
    <3> QED BY <1>1, <2>1, <2>2, <3>1, TaskEnds
  <2>3. CASE t.then = "handle" /\ Buffer(m, t.msg, others)
    <3>1. PICK r \in Records : r = t.msg
      BY <1>2, <2>3 DEF TaskOK
    <3> HIDE DEF others
    <3> QED BY <2>0, <2>1, <2>3, <3>1, BufferStep
  <2>4. CASE t.then = "retry" /\ RetryBuffer(m, t.msg, others)
    <3>1. PICK r \in Records : r = t.msg
      BY <1>2, <2>4 DEF TaskOK
    <3>2. collector' \in [Members -> Batches]
      <4>1. collector' = collector \/ collector' = [collector EXCEPT ![m][r] = @ + 1]
        BY <2>4, <3>1, Zenon DEF RetryBuffer
      <4>2. Kind[r] # "ignored" /\ collector[m] \in Batches
        BY <1>1, <1>2, <2>4, <3>1 DEF TaskOK
      <4>3. PICK b \in Batches : b = [collector[m] EXCEPT ![r] = @ + 1]
        BY <4>2, OneMore
      <4>4. [collector EXCEPT ![m][r] = @ + 1] = [collector EXCEPT ![m] = b]
        BY <4>3
      <4> QED BY <1>1, <4>1, <4>3, <4>4
    <3>3. TasksInv'
      BY <2>4, TaskEnds DEF RetryBuffer
    <3> QED BY <2>1, <3>2, <3>3
  <2>5. CASE /\ t.then = "ignore" /\ UNCHANGED batchVars
             /\ SetTasks(m, others \cup {Task("ignore", "none", t.msg, EmptyBatch, NoOffsets)})
    <3>1. PICK r \in Records : r = t.msg /\ Kind[r] = "ignored"
      BY <1>2, <2>5 DEF TaskOK
    <3>2. TaskOK(Task("ignore", "none", r, EmptyBatch, NoOffsets), checkpoint')
      BY <3>1, NewTask, EmptyIsBatch
    <3>3. TasksInv'
      <4> HIDE DEF others
      <4> QED BY <2>0, <2>5, <3>1, <3>2, TasksSet
    <3>4. UNCHANGED collector
      BY <2>5 DEF batchVars
    <3> QED BY <1>1, <2>1, <3>3, <3>4
  <2> HIDE DEF others
  <2> QED BY <1>7, <2>2, <2>3, <2>4, <2>5, Zenon DEF Resume, others
<1>8. CASE FailTask(m, t)
  <2>1. UNCHANGED <<collector, inbox>> /\ SetTasks(m, Others(m, t))
    BY <1>8 DEF FailTask, PersistFails, CommitFails, IgnoreFails, batchVars
  <2> QED BY <1>1, <2>1, TaskEnds
<1> QED BY <1>3, <1>4, <1>5, <1>6, <1>7, <1>8 DEF RunTask

LEMMA LoopStep ==
  ASSUME TasksInv, DataInv, LoopTypeOK, RowsTypeOK, RowsTypeOK', RowsMove, [Next]_vars
  PROVE  TasksInv' /\ LoopTypeOK'
<1> DEFINE Same == UNCHANGED <<inbox, collector, tasks>>
           Kept == TasksInv' /\ LoopTypeOK'
<1>1. inbox \in [Members -> Seq(Records)] /\ collector \in [Members -> Batches]
  BY DEF LoopTypeOK
<1>2. ASSUME Same PROVE Kept
  BY <1>2, TasksStay DEF LoopTypeOK
<1>3. ASSUME TasksInv', collector' \in [Members -> Batches], inbox' \in [Members -> Seq(Records)]
      PROVE  Kept
  BY <1>3 DEF LoopTypeOK, TasksInv
<1>4. ASSUME NEW m \in Members, Consume(m) PROVE Kept
  <2>1. inbox[m] # <<>> /\ inbox' = [inbox EXCEPT ![m] = Tail(@)]
    BY <1>4 DEF Consume, HandleMessage, FlushBeforeMessage, DropMessage, TakeMessage
  <2>2. Head(inbox[m]) \in Records /\ inbox' \in [Members -> Seq(Records)]
    BY <1>1, <2>1
  <2>3. PICK r \in Records : r = Head(inbox[m])
    BY <2>2
  <2>4. CASE HandleMessage(m)
    <3>1. Buffer(m, r, tasks[m])
      BY <2>3, <2>4 DEF HandleMessage
    <3> QED BY <1>3, <2>2, <3>1, BufferStep
  <2>5. CASE FlushBeforeMessage(m)
    <3>1. StartFlush(m, "handle", r, tasks[m], collector[m]) /\ collector[m] \in Batches
      BY <1>1, <2>3, <2>5 DEF FlushBeforeMessage
    <3> QED BY <1>3, <2>2, <3>1, FlushStep
  <2>6. CASE DropMessage(m)
    <3>1. UNCHANGED <<collector, tasks>>
      BY <2>6 DEF DropMessage, batchVars
    <3> QED BY <1>1, <1>3, <2>2, <3>1, TasksStay
  <2> QED BY <1>4, <2>4, <2>5, <2>6 DEF Consume
<1>5. ASSUME NEW m \in Members, FlushTick(m) PROVE Kept
  <2>1. /\ StartFlush(m, "none", Nobody, tasks[m], collector[m]) /\ collector[m] \in Batches
        /\ UNCHANGED inbox
    BY <1>1, <1>5 DEF FlushTick
  <2> QED BY <1>1, <1>3, <2>1, FlushStep
<1>6. ASSUME NEW m \in Members, NEW t \in tasks[m], RunTask(m, t) \/ FailTask(m, t) PROVE Kept
  <2>1. TasksInv' /\ collector' \in [Members -> Batches] /\ UNCHANGED inbox
    BY <1>6, RunTaskStep
  <2> QED BY <1>1, <1>3, <2>1
<1>7. ASSUME NEW m \in Members,
             Age(m) \/ CheckPressure(m) \/ Pause(m) \/ PollNothing(m) \/ Assigning(m) \/ ReadFails(m)
      PROVE  Same
  BY <1>7 DEF Age, CheckPressure, Pause, PollNothing, Assigning, ReadCheckpoints, KafkaAheadOfSql,
              RetentionGap, Assign, ReadFails, ThreadDies, batchVars
<1>8. ASSUME NEW m \in Members, NEW p \in Partitions, PollMessage(m, p) PROVE Kept
  <2>1. /\ UNCHANGED <<collector, tasks>> /\ Pending(m, p) # {}
        /\ inbox' = [inbox EXCEPT ![m] = Append(@, <<p, Min(Pending(m, p))>>)]
    BY <1>8 DEF PollMessage, batchVars
  <2>2. <<p, Min(Pending(m, p))>> \in Records
    <3> DEFINE S == Pending(m, p)
    <3>1. S \in SUBSET Nat /\ S \subseteq Log[p]
      BY LogAssumption DEF Pending
    <3>2. S # {}
      BY <2>1
    <3> HIDE DEF S
    <3>3. PICK o \in S : \A n \in S : o <= n
      BY <3>1, <3>2, SmallestOffset
    <3>4. Min(S) \in S
      BY <3>3 DEF Min
    <3> QED BY <3>1, <3>4 DEF S, Records
  <2>3. inbox' \in [Members -> Seq(Records)]
    <3>1. PICK r \in Records : r = <<p, Min(Pending(m, p))>>
      BY <2>2
    <3> QED BY <1>1, <2>1, <3>1
  <2> QED BY <1>1, <1>3, <2>1, <2>3, TasksStay
<1>9. ASSUME NEW m \in Members, NEW S \in SUBSET Partitions, StartAssign(m, S) PROVE Same
  BY <1>9 DEF StartAssign, batchVars
<1>10. ASSUME NEW m \in Members, Revoke(m) \/ Evict(m) \/ Restart(m) PROVE Same
  BY <1>10 DEF Revoke, Evict, Restart, processVars, batchVars
<1>11. ASSUME NEW m \in Members, Crash(m) PROVE Kept
  <2>1. /\ inbox' = [inbox EXCEPT ![m] = <<>>] /\ collector' = [collector EXCEPT ![m] = EmptyBatch]
        /\ SetTasks(m, {})
    BY <1>11 DEF Crash
  <2>2. TasksInv'
    BY <2>1, TasksSet
  <2>3. inbox' \in [Members -> Seq(Records)] /\ collector' \in [Members -> Batches]
    BY <1>1, <2>1, EmptyIsBatch
  <2> QED BY <1>3, <2>2, <2>3
<1>12. ASSUME NEW p \in Partitions, Retain(p) PROVE Same
  BY <1>12 DEF Retain, processVars, batchVars
<1>13. ASSUME NEW k \in 1 .. MaxClaims, RefreshWork(k) \/ RefreshFails(k) PROVE Same
  BY <1>13 DEF RefreshWork, RefreshFails, ClaimDay, RefreshDay, MarkProcessed, Superseded,
               processVars, batchVars
<1>14. ASSUME UNCHANGED vars PROVE Same
  BY <1>14 DEF vars, processVars, batchVars
<1> HIDE DEF Same, Kept
<1>15. Kept
  BY <1>2, <1>4, <1>5, <1>6, <1>7, <1>8, <1>9, <1>10, <1>11, <1>12, <1>13, <1>14
     DEF Next, MemberNext
<1> QED BY <1>15 DEF Kept

-----------------------------------------------------------------------------
(* Flags and bounds                                                        *)

LEMMA FlagsStep == ASSUME FlagsOK, [Next]_vars PROVE FlagsOK'
<1> DEFINE Set(f, g) == g = f \/ \E m \in Members : \E b \in BOOLEAN : g = [f EXCEPT ![m] = b]
           Flags == /\ Set(alive, alive') /\ Set(active, active') /\ Set(revoked, revoked')
                    /\ Set(aged, aged') /\ Set(flight, flight')
<1>1. ASSUME NEW m \in Members, NEW r, NEW others, Buffer(m, r, others)
      PROVE  Set(aged, aged') /\ Set(flight, flight')
  BY <1>1 DEF Buffer, RejectPoison, IgnoreRecord, CollectEvent, OverflowEvent, StartFlush, batchVars
<1>2. ASSUME NEW m \in Members, Consume(m) \/ FlushTick(m) \/ Age(m) PROVE Flags
  <2>1. CASE HandleMessage(m)
    <3>1. UNCHANGED <<alive, active, revoked>>
      BY <2>1 DEF HandleMessage, TakeMessage, ownerVars
    <3>2. Buffer(m, Head(inbox[m]), tasks[m])
      BY <2>1 DEF HandleMessage
    <3>3. Set(aged, aged') /\ Set(flight, flight')
      <4> HIDE DEF Set
      <4> QED BY <1>1, <3>2
    <3> QED BY <3>1, <3>3
  <2>2. CASE FlushBeforeMessage(m)
    BY <2>2 DEF FlushBeforeMessage, TakeMessage, StartFlush, ownerVars
  <2>3. CASE DropMessage(m)
    BY <2>3 DEF DropMessage, TakeMessage, ownerVars, batchVars
  <2>4. CASE FlushTick(m) \/ Age(m)
    BY <2>4 DEF FlushTick, Age, StartFlush, ownerVars
  <2> HIDE DEF Flags
  <2> QED BY <1>2, <2>1, <2>2, <2>3, <2>4 DEF Consume
<1>3. ASSUME NEW m \in Members, NEW t \in tasks[m], RunTask(m, t) \/ FailTask(m, t) PROVE Flags
  <2>1. CASE Resume(m, t)
    <3>1. UNCHANGED <<alive, active, revoked>>
      BY <2>1 DEF Resume, ownerVars
    <3>2. UNCHANGED <<aged, flight>> \/ Buffer(m, t.msg, Others(m, t))
      BY <2>1 DEF Resume, RetryBuffer, batchVars
    <3>3. Set(aged, aged') /\ Set(flight, flight')
      <4>1. UNCHANGED <<aged, flight>> => Set(aged, aged') /\ Set(flight, flight')
        OBVIOUS
      <4> HIDE DEF Set
      <4> QED BY <1>1, <3>2, <4>1
    <3> QED BY <3>1, <3>3
  <2>2. CASE PersistCommits(m, t) \/ IgnoreCommits(m, t) \/ CommitKafka(m, t) \/ Ignored(m, t)
    BY <2>2 DEF PersistCommits, IgnoreCommits, CommitKafka, Ignored, ownerVars, batchVars
  <2>3. CASE Persisted(m, t)
    BY <2>3 DEF Persisted, ownerVars
  <2>4. CASE FailTask(m, t)
    BY <2>4 DEF FailTask, PersistFails, CommitFails, IgnoreFails, ownerVars, batchVars
  <2> HIDE DEF Flags
  <2> QED BY <1>3, <2>1, <2>2, <2>3, <2>4 DEF RunTask
<1>4. ASSUME NEW m \in Members, CheckPressure(m) \/ Pause(m) \/ PollNothing(m) PROVE Flags
  BY <1>4 DEF CheckPressure, Pause, PollNothing, ownerVars, batchVars
<1>5. ASSUME NEW m \in Members, NEW p \in Partitions, PollMessage(m, p) PROVE Flags
  BY <1>5 DEF PollMessage, ownerVars, batchVars
<1>6. ASSUME NEW m \in Members, NEW S \in SUBSET Partitions, StartAssign(m, S) PROVE Flags
  BY <1>6 DEF StartAssign, ownerVars, batchVars
<1>7. ASSUME NEW m \in Members, Assigning(m) \/ ReadFails(m) PROVE Flags
  BY <1>7 DEF Assigning, ReadCheckpoints, KafkaAheadOfSql, RetentionGap, Assign, ReadFails,
              ThreadDies, ownerVars, batchVars
<1>8. ASSUME NEW m \in Members, Revoke(m) \/ Evict(m) PROVE Flags
  BY <1>8 DEF Revoke, Evict, processVars, ownerVars, batchVars
<1>9. ASSUME NEW m \in Members, Crash(m) \/ Restart(m) PROVE Flags
  BY <1>9 DEF Crash, Restart, ownerVars, batchVars
<1>10. ASSUME NEW p \in Partitions, Retain(p) PROVE Flags
  BY <1>10 DEF Retain, processVars, ownerVars, batchVars
<1>11. ASSUME NEW k \in 1 .. MaxClaims, RefreshWork(k) \/ RefreshFails(k) PROVE Flags
  BY <1>11 DEF RefreshWork, RefreshFails, ClaimDay, RefreshDay, MarkProcessed, Superseded,
               processVars, ownerVars, batchVars
<1>12. ASSUME UNCHANGED vars PROVE Flags
  BY <1>12 DEF vars, processVars, ownerVars, batchVars
<1>13. Flags
  <2> HIDE DEF Flags
  <2> QED BY <1>2, <1>3, <1>4, <1>5, <1>6, <1>7, <1>8, <1>9, <1>10, <1>11, <1>12 DEF Next, MemberNext
<1>14. ASSUME NEW f \in [Members -> BOOLEAN], NEW g, Set(f, g) PROVE g \in [Members -> BOOLEAN]
  BY <1>14
<1>15. /\ alive \in [Members -> BOOLEAN] /\ active \in [Members -> BOOLEAN]
       /\ revoked \in [Members -> BOOLEAN] /\ aged \in [Members -> BOOLEAN]
       /\ flight \in [Members -> BOOLEAN]
  BY DEF FlagsOK
<1>16. /\ alive' \in [Members -> BOOLEAN] /\ active' \in [Members -> BOOLEAN]
       /\ revoked' \in [Members -> BOOLEAN] /\ aged' \in [Members -> BOOLEAN]
       /\ flight' \in [Members -> BOOLEAN]
  <2> HIDE DEF Set
  <2> QED BY <1>13, <1>14, <1>15, Zenon
<1> QED BY <1>16, Zenon DEF FlagsOK

LEMMA BoundsStep == ASSUME BoundsOK, [Next]_vars PROVE BoundsOK'
<1> DEFINE Up(n, next, bound) == next = n \/ (n < bound /\ next = n + 1)
           Bounds == /\ Up(failures, failures', MaxFailures) /\ Up(stops, stops', MaxStops)
                     /\ Up(rebalances, rebalances', MaxRebalances)
                     /\ Up(retention, retention', MaxRetention)
           Same == UNCHANGED <<failures, stops, rebalances, retention>>
<1>1. ASSUME NEW m \in Members, MemberNext(m) PROVE Bounds
  <2>1. ASSUME Consume(m) \/ FlushTick(m) \/ Age(m) PROVE Same
    BY <2>1 DEF Consume, HandleMessage, FlushBeforeMessage, DropMessage, TakeMessage, FlushTick, Age,
                boundVars
  <2>2. ASSUME NEW t \in tasks[m], RunTask(m, t) PROVE Same
    BY <2>2 DEF RunTask, PersistCommits, IgnoreCommits, Persisted, CommitKafka, Resume, Ignored,
                boundVars
  <2>3. ASSUME NEW t \in tasks[m], FailTask(m, t) PROVE Bounds
    BY <2>3 DEF FailTask, PersistFails, CommitFails, IgnoreFails, Fail
  <2>4. ASSUME CheckPressure(m) \/ Pause(m) \/ PollNothing(m) PROVE Same
    BY <2>4 DEF CheckPressure, Pause, PollNothing, boundVars
  <2>5. ASSUME NEW p \in Partitions, PollMessage(m, p) PROVE Same
    BY <2>5 DEF PollMessage, boundVars
  <2>6. ASSUME NEW S \in SUBSET Partitions, StartAssign(m, S) PROVE Same
    BY <2>6 DEF StartAssign, boundVars
  <2>7. ASSUME Assigning(m) PROVE Same
    BY <2>7 DEF Assigning, ReadCheckpoints, KafkaAheadOfSql, RetentionGap, Assign, boundVars
  <2>8. ASSUME ReadFails(m) PROVE Bounds
    BY <2>8 DEF ReadFails, Fail
  <2>9. ASSUME Revoke(m) \/ Evict(m) PROVE Bounds
    BY <2>9 DEF Revoke, Evict
  <2>10. ASSUME Crash(m) \/ Restart(m) PROVE Bounds
    BY <2>10 DEF Crash, Restart, boundVars
  <2>11. ASSUME Same PROVE Bounds
    BY <2>11
  <2> HIDE DEF Same, Bounds
  <2> QED BY <1>1, <2>1, <2>2, <2>3, <2>4, <2>5, <2>6, <2>7, <2>8, <2>9, <2>10, <2>11 DEF MemberNext
<1>2. ASSUME NEW p \in Partitions, Retain(p) PROVE Bounds
  BY <1>2 DEF Retain
<1>3. ASSUME NEW k \in 1 .. MaxClaims, RefreshWork(k) \/ RefreshFails(k) PROVE Bounds
  BY <1>3 DEF RefreshWork, RefreshFails, ClaimDay, RefreshDay, MarkProcessed, Superseded, Fail,
              boundVars
<1>4. ASSUME UNCHANGED vars PROVE Bounds
  BY <1>4 DEF vars, boundVars
<1>5. Bounds
  <2> HIDE DEF Bounds
  <2> QED BY <1>1, <1>2, <1>3, <1>4 DEF Next
<1> QED BY <1>5, BoundsAssumption DEF BoundsOK

-----------------------------------------------------------------------------
(* The theorems                                                            *)

LEMMA InitStep == ASSUME Init PROVE Inv /\ FlagsOK
<1>1. KafkaTypeOK /\ KafkaBehindSql /\ RowsTypeOK /\ RefreshTypeOK
  BY DEF Init, KafkaTypeOK, KafkaBehindSql, RowsTypeOK, RefreshTypeOK, Offsets
<1>2. CheckpointIsHandled /\ MetricsMatchRows
  BY RecordsAre DEF Init, CheckpointIsHandled, MetricsMatchRows
<1>3. RefreshInv
  BY DEF Init, RefreshInv, RefreshCovers, DayRows
<1>4. ThreadTypeOK
  BY DEF Init, ThreadTypeOK, NoOffsets, NextOffsets, Offsets
<1>5. TasksInv
  BY DEF Init, TasksInv
<1>6. LoopTypeOK
  BY EmptyIsBatch DEF Init, LoopTypeOK
<1>7. BoundsOK
  BY BoundsAssumption DEF Init, BoundsOK
<1>8. FlagsOK
  BY DEF Init, FlagsOK
<1> QED BY <1>1, <1>2, <1>3, <1>4, <1>5, <1>6, <1>7, <1>8
        DEF Inv, DataInv, DatabaseTypeOK, RowsTypeOK, RefreshTypeOK

LEMMA NextInv == ASSUME Inv, [Next]_vars PROVE Inv' /\ RowsMove
<1>1. RowsTypeOK /\ RefreshTypeOK
  BY DEF Inv, DataInv, DatabaseTypeOK, RowsTypeOK, RefreshTypeOK
<1>2. RowsMove /\ RowsTypeOK' /\ CheckpointIsHandled' /\ MetricsMatchRows'
  BY Transactions, RowsStep DEF Inv
<1>3. RefreshInv' /\ RefreshTypeOK'
  BY <1>1, <1>2, RefreshStep DEF Inv
<1>4. KafkaTypeOK' /\ KafkaBehindSql'
  BY <1>1, <1>2, KafkaStep DEF Inv
<1>5. ThreadTypeOK'
  BY <1>1, ThreadStep DEF Inv
<1>6. TasksInv' /\ LoopTypeOK'
  BY <1>1, <1>2, LoopStep DEF Inv
<1>7. BoundsOK'
  BY BoundsStep DEF Inv
<1>8. DataInv'
  BY <1>2, <1>3 DEF DataInv, DatabaseTypeOK, RowsTypeOK, RefreshTypeOK
<1> QED BY <1>2, <1>3, <1>4, <1>5, <1>6, <1>7, <1>8 DEF Inv

\* The inductive invariant: the tables, the refreshes and the commits under way, for any
\* group, topic, limits and history of crashes, rebalances and failures.
THEOREM HistorianInductive == Spec => []Inv
<1>1. Init => Inv
  BY InitStep
<1>2. Inv /\ [Next]_vars => Inv'
  BY NextInv
<1> QED BY <1>1, <1>2, PTL DEF Spec

\* Every variable keeps its type, the flags of flow control and ownership included.
THEOREM HistorianTypes == Spec => []TypeOK
<1>1. Init => FlagsOK
  BY InitStep
<1>2. FlagsOK /\ [Next]_vars => FlagsOK'
  BY FlagsStep
<1>3. Inv /\ FlagsOK => TypeOK
  BY DEF Inv, DataInv, TypeOK
<1> QED BY <1>1, <1>2, <1>3, HistorianInductive, PTL DEF Spec

\* Below a checkpoint every record is in the raw table or needs no row: the transaction
\* of persist_batch passes only what it has stored (compute_next_offset).
THEOREM CheckpointHandled == Spec => []CheckpointIsHandled
<1>1. Inv => CheckpointIsHandled
  BY DEF Inv, DataInv
<1> QED BY <1>1, HistorianInductive, PTL

\* No Kafka commit overtakes SQL, whoever sends it and however late: the condition that
\* reconcile_partition_offset calls fatal is never caused by these processes.
THEOREM KafkaBehind == Spec => []KafkaBehindSql
<1>1. Inv => KafkaBehindSql
  BY DEF Inv
<1> QED BY <1>1, HistorianInductive, PTL

\* Raw rows and metrics are written together (one transaction of persist_batch).
THEOREM MetricsMatch == Spec => []MetricsMatchRows
<1>1. Inv => MetricsMatchRows
  BY DEF Inv, DataInv
<1> QED BY <1>1, HistorianInductive, PTL

\* A refreshed day has all its late rows in the aggregates: the generation of a claim is
\* read before the rows are.
THEOREM RefreshCovered == Spec => []RefreshCovers
<1>1. Inv => RefreshCovers
  BY DEF Inv, RefreshInv
<1> QED BY <1>1, HistorianInductive, PTL

\* No checkpoint moves back, also when a former owner writes after its successor.
THEOREM CheckpointForward == Spec => CheckpointMonotone
<1>1. Inv /\ [Next]_vars => [\A p \in Partitions : checkpoint'[p] >= checkpoint[p]]_vars
  BY NextInv DEF RowsMove
<1> QED BY <1>1, HistorianInductive, PTL DEF Spec, CheckpointMonotone

\* Once an event has metrics, no later transaction writes more for its identity, except
\* beside the insertion of another event that has the same event_id at another time.
THEOREM MetricsOnceOnly == Spec => MetricsWrittenOnce
<1>1. Inv /\ [Next]_vars =>
        [\A q, r \in Records :
           Id[q] = Id[r] /\ metrics[q] > 0 /\ metrics'[r] # metrics[r] =>
             \E n \in rows' \ rows : EventId(n) = EventId(r) /\ Id[n] # Id[r]]_vars
  BY NextInv DEF RowsMove
<1> QED BY <1>1, HistorianInductive, PTL DEF Spec, MetricsWrittenOnce

\* So where an event_id always comes with one time (the key metric rows are kept by is then
\* that of the raw table), no replay writes metrics of a stored event again.
THEOREM ReplayWritesNoMetrics ==
  ASSUME \A q, r \in Records : EventId(q) = EventId(r) => Id[q] = Id[r]
  PROVE  Spec => [][\A q, r \in Records :
                      Id[q] = Id[r] /\ metrics[q] > 0 => metrics'[r] = metrics[r]]_vars
<1>1. Inv /\ [Next]_vars =>
        [\A q, r \in Records : Id[q] = Id[r] /\ metrics[q] > 0 => metrics'[r] = metrics[r]]_vars
  <2>1. SUFFICES ASSUME Inv, [Next]_vars, ~ UNCHANGED vars,
                        NEW q \in Records, NEW r \in Records,
                        Id[q] = Id[r], metrics[q] > 0, metrics'[r] # metrics[r]
                 PROVE  FALSE
    OBVIOUS
  <2>2. Inv' /\ RowsMove
    BY <2>1, NextInv
  <2>3. rows' \subseteq Records
    BY <2>2 DEF Inv, DataInv, DatabaseTypeOK
  <2>4. PICK n \in rows' \ rows : EventId(n) = EventId(r) /\ Id[n] # Id[r]
    BY <2>1, <2>2 DEF RowsMove
  <2> QED BY <2>3, <2>4
<1> QED BY <1>1, HistorianInductive, PTL DEF Spec

\* The historian is a durable hop: a message is owed until the checkpoint passes it, and
\* every transaction stores before, or while, it releases.
THEOREM HistorianImplements == Spec => ImplementsHandoff
<1> DEFINE owed == {r \in Records : r[2] >= checkpoint[r[1]]}
           durable == {r \in Records : Known(r)}
           released == {r \in Records : r[2] < checkpoint[r[1]]}
           exempt == {r \in Records : Kind[r] = "ignored"}
<1>1. Init => Handoff!Init
  <2> SUFFICES ASSUME Init PROVE owed = Records /\ durable = {} /\ released = {}
    BY DEF Handoff!Init
  <2>1. \A r \in Records : r[1] \in Partitions /\ r[2] \in Nat
    BY RecordsAre
  <2>2. rows = {} /\ \A p \in Partitions : checkpoint[p] = 0
    BY DEF Init
  <2> QED BY <2>1, <2>2 DEF Known
<1>2. Inv /\ [Next]_vars => [Handoff!Next]_(Handoff!vars)
  <2> SUFFICES ASSUME Inv, [Next]_vars PROVE Handoff!Next
    OBVIOUS
  <2>1. /\ RowsMove /\ CheckpointIsHandled'
        /\ checkpoint \in [Partitions -> Nat] /\ checkpoint' \in [Partitions -> Nat]
    BY NextInv DEF Inv, DataInv, DatabaseTypeOK, Offsets
  <2>2. \A r \in Records : /\ r[2] \in Nat /\ checkpoint[r[1]] \in Nat /\ checkpoint'[r[1]] \in Nat
                           /\ checkpoint[r[1]] <= checkpoint'[r[1]]
    BY <2>1, RecordsAre DEF RowsMove
  <2> DEFINE S == {r \in Records : Known(r)'}
             T == {r \in Records : checkpoint[r[1]] <= r[2] /\ r[2] < checkpoint'[r[1]]}
  <2>3. \A r \in Records : Known(r) => Known(r)'
    BY <2>1 DEF RowsMove, Known
  <2>4. durable' = durable \cup S
    BY <2>3
  <2>5. T \subseteq owed /\ owed' = owed \ T /\ released' = released \cup T
    <3>1. T \subseteq owed
      BY <2>2
    <3>2. owed' = owed \ T
      BY <2>2
    <3>3. released' = released \cup T
      BY <2>2
    <3> QED BY <3>1, <3>2, <3>3
  <2>6. T \subseteq durable \cup S \cup exempt
    BY <2>1 DEF CheckpointIsHandled, IsHandled
  <2>7. S \in SUBSET Records /\ T \in SUBSET Records
    OBVIOUS
  <2>8. PICK A \in SUBSET Records : A = S
    BY <2>7
  <2>9. PICK B \in SUBSET Records : B = T
    BY <2>7
  <2>10. Handoff!Accept(A, B)
    <3> HIDE DEF S, T
    <3> QED BY <2>4, <2>5, <2>6, <2>8, <2>9 DEF Handoff!Accept
  <2> QED BY <2>10 DEF Handoff!Next
<1> QED BY <1>1, <1>2, HistorianInductive, PTL DEF Spec, ImplementsHandoff, Handoff!Spec
=============================================================================
