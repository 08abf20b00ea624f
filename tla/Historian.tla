------------------------------ MODULE Historian ------------------------------
(***************************************************************************)
(* The historian (04_uns_historian): processes of one consumer group that  *)
(* copy uns.historic-events into TimescaleDB.  In each process a poll      *)
(* thread hands messages to an asyncio loop whose tasks collect them into  *)
(* batches, write a batch in one SQL transaction that also advances the    *)
(* checkpoint of its partitions, and then commit the same offsets to       *)
(* Kafka; a third thread refreshes the aggregates of days with late data.  *)
(*                                                                         *)
(* Kafka, its group coordinator and the database are external: commits of  *)
(* members that lost their partitions are fenced, a transaction is atomic  *)
(* and holds the lock of its checkpoint rows.                              *)
(***************************************************************************)
EXTENDS Integers, Sequences, FiniteSets, FiniteSetsExt

CONSTANTS
  Members,         \* historian processes of the consumer group
  Nobody,          \* no process, no claim, no record
  Partitions,
  Log,             \* the offsets of a partition
  Kind,            \* what try_buffer_message makes of a record
  Id,              \* <<time, event_id>> of an event
  Late,            \* telemetry events with the historical flag
  Day,             \* the UTC day of an event
  Size,            \* bytes of its envelope
  MaxEvents,       \* BatchLimits.max_events
  MaxBytes,        \* BatchLimits.max_bytes
  MaxFailures,     \* bound: failed transactions and commits
  MaxStops,        \* bound: crashes
  MaxRebalances,   \* bound: revocations and evictions
  MaxClaims,       \* bound: refreshes of a day in work
  MaxRetention     \* bound: segments that retention deletes

Records == UNION {{p} \X Log[p] : p \in Partitions}

\* An event, one whose metrics exceed the expansion limit, one that the legacy
\* projection ignores, one that does not decode.
Kinds == {"event", "wide", "ignored", "poison"}

ASSUME LogAssumption ==
  /\ Nobody \notin Members /\ Nobody \notin Records
  /\ Partitions \subseteq Nat
  /\ Log \in [Partitions -> SUBSET Nat]
  /\ IsFiniteSet(Partitions) /\ \A p \in Partitions : IsFiniteSet(Log[p])
  /\ Kind \in [Records -> Kinds]
  /\ Size \in [Records -> Nat]
  /\ Late \subseteq Records

ASSUME BoundsAssumption ==
  /\ MaxEvents \in Nat \ {0} /\ MaxBytes \in Nat
  /\ {MaxFailures, MaxStops, MaxRebalances, MaxClaims, MaxRetention} \subseteq Nat

Days == {Day[r] : r \in Records}

VARIABLES
  \* Kafka and its group coordinator
  owner,        \* partition |-> the member it is assigned to
  standing,     \* member |-> "out", "in" or "evicted" without knowing it
  committed,    \* partition |-> committed offset of the group
  low,          \* partition |-> first retained offset
  \* the database
  checkpoint,   \* kafka_partition_checkpoint.next_offset
  rows,         \* records inserted in the raw table
  metrics,      \* record |-> how many times its metrics were inserted
  requested,    \* late_refresh_worklist.pending_generation
  processed,    \* late_refresh_worklist.processed_generation
  aggregated,   \* day |-> rows that a refresh has put into its aggregates
  claims,       \* the RefreshClaims in work, of all members
  \* the processes
  alive,
  thread,       \* where the poll thread is
  target,       \* the partitions that a rebalance callback assigns
  read,         \* the checkpoints that the callback has read
  cause,        \* why the poll thread died
  owned,        \* HistorianKafkaMapper.owned_partitions
  active,       \* HistorianKafkaMapper.ownership_active
  revoked,      \* HistorianKafkaMapper.revoked
  paused,       \* partitions the consumer has paused
  position,     \* next offset that poll() returns
  inbox,        \* polled messages whose task has not started
  collector,    \* BatchCollector.events
  aged,         \* the collector is older than max_age_seconds
  flight,       \* HistorianKafkaMapper.batch_in_flight
  tasks,        \* suspended tasks of the loop
  \* bounds
  failures, stops, rebalances, retention

kafkaVars == <<owner, standing, committed, low>>
rowVars == <<checkpoint, rows, metrics, requested>>
refreshVars == <<processed, aggregated>>
threadVars == <<thread, target, read, cause>>
ownerVars == <<owned, active, revoked>>
fetchVars == <<paused, position>>
batchVars == <<collector, aged, flight>>
processVars == <<alive, threadVars, ownerVars, fetchVars, inbox, batchVars, tasks>>
boundVars == <<failures, stops, rebalances, retention>>
vars == <<kafkaVars, rowVars, refreshVars, claims, processVars, boundVars>>

\* Definitions named Fault... restate the definition after them with a plausible
\* bug; no action uses them.  They show that each property can fail.

\* A dictionary of offsets is a function with Absent for the keys it has not.
Absent == -1
NoOffsets == [p \in Partitions |-> Absent]

\* f.update(next)
Override(f, next) == [p \in Partitions |-> IF next[p] = Absent THEN f[p] ELSE next[p]]

\* A batch is a bag: persist_batch sorts it, and a record can be in it twice.
EmptyBatch == [r \in Records |-> 0]
In(batch) == {r \in Records : batch[r] > 0}
Count(batch) == MapThenSumSet(LAMBDA r : batch[r], Records)
Bytes(batch) == MapThenSumSet(LAMBDA r : batch[r] * Size[r], Records)

Init ==
  /\ owner = [p \in Partitions |-> Nobody]
  /\ standing = [m \in Members |-> "out"]
  /\ committed = [p \in Partitions |-> 0]
  /\ low = [p \in Partitions |-> 0]
  /\ checkpoint = [p \in Partitions |-> 0]
  /\ rows = {}
  /\ metrics = [r \in Records |-> 0]
  /\ requested = [d \in Days |-> 0]
  /\ processed = [d \in Days |-> 0]
  /\ aggregated = [d \in Days |-> {}]
  /\ claims = [k \in 1 .. MaxClaims |-> Nobody]
  /\ alive = [m \in Members |-> TRUE]
  /\ thread = [m \in Members |-> "check"]
  /\ target = [m \in Members |-> {}]
  /\ read = [m \in Members |-> NoOffsets]
  /\ cause = [m \in Members |-> "none"]
  /\ owned = [m \in Members |-> {}]
  /\ active = [m \in Members |-> FALSE]
  /\ revoked = [m \in Members |-> FALSE]
  /\ paused = [m \in Members |-> {}]
  /\ position = [m \in Members |-> [p \in Partitions |-> 0]]
  /\ inbox = [m \in Members |-> <<>>]
  /\ collector = [m \in Members |-> EmptyBatch]
  /\ aged = [m \in Members |-> FALSE]
  /\ flight = [m \in Members |-> FALSE]
  /\ tasks = [m \in Members |-> {}]
  /\ failures = 0 /\ stops = 0 /\ rebalances = 0 /\ retention = 0

Fail == failures < MaxFailures /\ failures' = failures + 1

-----------------------------------------------------------------------------
(* The SQL transaction of a batch                                          *)

\* Fault: the checkpoint advances to the highest handled offset.
FaultNextOffset(from, handled) ==
  LET above == {o \in handled : o >= from}
  IN  IF above = {} THEN from ELSE Max(above) + 1

\* compute_next_offset: only across the contiguous prefix of handled offsets.
NextOffset(from, handled) ==
  LET reach == {o \in handled : o >= from /\ from .. o \subseteq handled}
  IN  IF reach = {} THEN from ELSE Max(reach) + 1

\* What the authoritative checkpoint does not cover yet.
Fresh(batch) == {r \in In(batch) : r[2] >= checkpoint[r[1]]}

Handled(batch, p) == {o \in Log[p] : <<p, o>> \in Fresh(batch)}

Known(r) == \E q \in rows : Id[q] = Id[r]

Accepted(batch) == {r \in Fresh(batch) : ~Known(r)}

Before(q, r) == q[1] < r[1] \/ (q[1] = r[1] /\ q[2] < r[2])

\* ON CONFLICT DO NOTHING: of the accepted records with one identity the first in
\* (partition, offset) order is inserted, whatever the content of the others.
Inserted(batch) ==
  {r \in Accepted(batch) : \A q \in Accepted(batch) : Id[q] = Id[r] => ~Before(q, r)}

EventId(r) == Id[r][2]

\* Metric rows are kept when their event_id alone is among the inserted ones: also those
\* of a record that lost the conflict, is in the batch twice, or is stale or stored
\* already while its event_id comes with another time.
MetricRows(batch) == {r \in In(batch) : \E q \in Inserted(batch) : EventId(q) = EventId(r)}

\* Fault: the last offset of the batch is written, wherever the checkpoint is.
FaultReached(batch, p) ==
  LET own == {r[2] : r \in {q \in In(batch) : q[1] = p}}
  IN  IF own = {} THEN checkpoint[p] ELSE Max(own) + 1

Reached(batch, p) == NextOffset(checkpoint[p], Handled(batch, p))

\* The next offsets that persist_batch returns.
Advanced(batch) ==
  [p \in Partitions |-> IF Reached(batch, p) = checkpoint[p] THEN Absent ELSE Reached(batch, p)]

\* persist_batch; it raises before BEGIN when an event has too many metrics.
PersistBatch(batch) ==
  /\ \A r \in In(batch) : Kind[r] # "wide"
  /\ rows' = rows \cup Inserted(batch)
  /\ metrics' = [r \in Records |-> metrics[r] + IF r \in MetricRows(batch) THEN batch[r] ELSE 0]
  /\ requested' = [d \in Days |->
       requested[d] + Cardinality({r \in Inserted(batch) \cap Late : Day[r] = d})]
  /\ checkpoint' = Override(checkpoint, Advanced(batch))

-----------------------------------------------------------------------------
(* Batch collector, flow control and tasks                                 *)

\* BatchCollector.is_full
IsFull(m) ==
  /\ collector[m] # EmptyBatch
  /\ Count(collector[m]) >= MaxEvents \/ Bytes(collector[m]) >= MaxBytes \/ aged[m]

\* should_pause_for_backpressure
ShouldPause(m) == flight[m] \/ IsFull(m)

\* BatchCollector.try_add on a collector that is not full.
Fits(batch, r) == Count(batch) + 1 <= MaxEvents /\ Bytes(batch) + Size[r] <= MaxBytes

\* A task that is suspended, or blocks the loop in a Kafka commit ("commit"); "then"
\* is what a flushing task does with its own message afterwards.
Task(at, then, msg, batch, next) ==
  [at |-> at, then |-> then, msg |-> msg, batch |-> batch, next |-> next]

LoopFree(m) == alive[m] /\ \A t \in tasks[m] : t.at # "commit"

SetTasks(m, S) == tasks' = [tasks EXCEPT ![m] = S]

\* flush_batch up to the await of persist_batch; the others are the tasks of m
\* without the one that takes this step.
StartFlush(m, then, msg, others, batch) ==
  /\ SetTasks(m, others \cup {Task("persist", then, msg, batch, NoOffsets)})
  /\ collector' = [collector EXCEPT ![m] = EmptyBatch]
  /\ aged' = [aged EXCEPT ![m] = FALSE]
  /\ flight' = [flight EXCEPT ![m] = TRUE]

-----------------------------------------------------------------------------
(* Handling a message on the event loop                                    *)

\* Does not decode: counted and logged, its offset is never handled.
RejectPoison(m, r, others) ==
  /\ Kind[r] = "poison"
  /\ SetTasks(m, others)
  /\ UNCHANGED batchVars

\* _handle_ignored_record: what is collected is flushed before the checkpoint.
IgnoreRecord(m, r, others) ==
  /\ Kind[r] = "ignored"
  /\ \/ /\ collector[m] = EmptyBatch
        /\ SetTasks(m, others \cup {Task("ignore", "none", r, EmptyBatch, NoOffsets)})
        /\ UNCHANGED batchVars
     \/ /\ collector[m] # EmptyBatch
        /\ StartFlush(m, "ignore", r, others, collector[m])

\* try_add succeeds; a collector that is full now is flushed at once.
CollectEvent(m, r, others) ==
  LET batch == [collector[m] EXCEPT ![r] = @ + 1] IN
  /\ Kind[r] \in {"event", "wide"}
  /\ Fits(collector[m], r)
  /\ IF Count(batch) >= MaxEvents \/ Bytes(batch) >= MaxBytes
     THEN StartFlush(m, "none", Nobody, others, batch)
     ELSE /\ collector' = [collector EXCEPT ![m] = batch]
          /\ SetTasks(m, others)
          /\ UNCHANGED <<aged, flight>>

\* needs_flush: flush and try once more; without anything to flush the second try
\* fails like the first, and its result is not looked at.
OverflowEvent(m, r, others) ==
  /\ Kind[r] \in {"event", "wide"}
  /\ ~Fits(collector[m], r)
  /\ \/ /\ collector[m] = EmptyBatch
        /\ SetTasks(m, others)
        /\ UNCHANGED batchVars
     \/ /\ collector[m] # EmptyBatch
        /\ StartFlush(m, "retry", r, others, collector[m])

Buffer(m, r, others) ==
  \/ RejectPoison(m, r, others)
  \/ IgnoreRecord(m, r, others)
  \/ CollectEvent(m, r, others)
  \/ OverflowEvent(m, r, others)

TakeMessage(m) ==
  /\ LoopFree(m)
  /\ inbox[m] # <<>>
  /\ inbox' = [inbox EXCEPT ![m] = Tail(@)]
  /\ UNCHANGED <<kafkaVars, rowVars, refreshVars, alive, threadVars, ownerVars, fetchVars,
                 claims, boundVars>>

HandleMessage(m) ==
  /\ ~ShouldPause(m)
  /\ TakeMessage(m)
  /\ Buffer(m, Head(inbox[m]), tasks[m])

\* The collector is full: flush before this message.
FlushBeforeMessage(m) ==
  /\ ~flight[m] /\ IsFull(m)
  /\ TakeMessage(m)
  /\ StartFlush(m, "handle", Head(inbox[m]), tasks[m], collector[m])

\* A batch is in flight: _maybe_flush returns at once, and the message is dropped.
DropMessage(m) ==
  /\ flight[m]
  /\ TakeMessage(m)
  /\ UNCHANGED <<batchVars, tasks>>

\* _maybe_flush(force=False) of a poll that returned nothing.
FlushTick(m) ==
  /\ LoopFree(m)
  /\ ~flight[m] /\ IsFull(m)
  /\ StartFlush(m, "none", Nobody, tasks[m], collector[m])
  /\ UNCHANGED <<kafkaVars, rowVars, refreshVars, alive, threadVars, ownerVars, fetchVars,
                 inbox, claims, boundVars>>

\* max_age_seconds pass.
Age(m) ==
  /\ alive[m]
  /\ collector[m] # EmptyBatch
  /\ ~aged[m]
  /\ aged' = [aged EXCEPT ![m] = TRUE]
  /\ UNCHANGED <<kafkaVars, rowVars, refreshVars, alive, threadVars, ownerVars, fetchVars,
                 inbox, collector, flight, tasks, claims, boundVars>>

-----------------------------------------------------------------------------
(* The flush of a batch                                                    *)

Waits(m, t, at) == alive[m] /\ t \in tasks[m] /\ t.at = at

Others(m, t) == tasks[m] \ {t}

\* The transaction of persist_batch commits.
PersistCommits(m, t) ==
  /\ Waits(m, t, "persist")
  /\ PersistBatch(t.batch)
  /\ SetTasks(m, Others(m, t) \cup
                 {Task("persisted", t.then, t.msg, EmptyBatch, Advanced(t.batch))})
  /\ UNCHANGED <<kafkaVars, refreshVars, alive, threadVars, ownerVars, fetchVars, inbox,
                 batchVars, claims, boundVars>>

\* Fault: the raw rows are inserted by a transaction of their own.
FaultRollback(batch) ==
  /\ rows' = rows \cup Inserted(batch)
  /\ UNCHANGED <<checkpoint, metrics, requested>>

Rollback(batch) == UNCHANGED rowVars

\* It raises, rolled back or with a commit whose answer is lost: the events are no
\* longer in memory, and neither the continuation nor _resume_owned runs.
PersistFails(m, t) ==
  /\ Waits(m, t, "persist")
  /\ \/ Fail /\ (PersistBatch(t.batch) \/ Rollback(t.batch))
     \/ (\E r \in In(t.batch) : Kind[r] = "wide") /\ UNCHANGED <<rowVars, failures>>
  /\ SetTasks(m, Others(m, t))
  /\ flight' = [flight EXCEPT ![m] = FALSE]
  /\ UNCHANGED <<kafkaVars, refreshVars, alive, threadVars, ownerVars, fetchVars, inbox,
                 collector, aged, claims, stops, rebalances, retention>>

\* may_commit_kafka
MayCommit(m) == active[m] /\ ~revoked[m]

\* record_sql_success after the await: with commits to send, or without.
Persisted(m, t) ==
  /\ LoopFree(m)
  /\ Waits(m, t, "persisted")
  /\ flight' = [flight EXCEPT ![m] = FALSE]
  /\ SetTasks(m, Others(m, t) \cup
       {IF MayCommit(m) /\ t.next # NoOffsets THEN [t EXCEPT !.at = "commit"]
                                             ELSE [t EXCEPT !.at = "observe", !.next = NoOffsets]})
  /\ UNCHANGED <<kafkaVars, rowVars, refreshVars, alive, threadVars, ownerVars, fetchVars, inbox,
                 collector, aged, claims, boundVars>>

\* What follows a commit: the topic binder for a batch, nothing for an ignored record.
AfterCommit(m, t) ==
  SetTasks(m, Others(m, t) \cup
    {u \in {[t EXCEPT !.at = "observe", !.next = NoOffsets]} : u.then # "ignored"})

\* Fault: commit() without offsets commits what was polled.
FaultCommitOffsets(m, next) ==
  [p \in Partitions |-> IF p \in owned[m] THEN position[m][p] ELSE Absent]

CommitOffsets(m, next) == next

\* consumer.commit: accepted from a member of the current generation, also for a
\* partition that is now another member's.
CommitKafka(m, t) ==
  /\ Waits(m, t, "commit")
  /\ standing[m] = "in"
  /\ committed' = Override(committed, CommitOffsets(m, t.next))
  /\ AfterCommit(m, t)
  /\ UNCHANGED <<owner, standing, low, rowVars, refreshVars, alive, threadVars, ownerVars,
                 fetchVars, inbox, batchVars, claims, boundVars>>

\* It raises: fenced after a lost generation, or an error of the broker.
CommitFails(m, t) ==
  /\ Waits(m, t, "commit")
  /\ standing[m] = "in" => failures < MaxFailures
  /\ failures' = IF standing[m] = "in" THEN failures + 1 ELSE failures
  /\ SetTasks(m, Others(m, t))
  /\ UNCHANGED <<kafkaVars, rowVars, refreshVars, alive, threadVars, ownerVars, fetchVars, inbox,
                 batchVars, claims, stops, rebalances, retention>>

\* try_add of the second attempt.
RetryBuffer(m, r, others) ==
  /\ SetTasks(m, others)
  /\ collector' = IF ~IsFull(m) /\ Fits(collector[m], r)
                  THEN [collector EXCEPT ![m][r] = @ + 1] ELSE collector
  /\ UNCHANGED <<aged, flight>>

\* _observe_topics is done: _resume_owned, then what the flushing task had to do.
Resume(m, t) ==
  /\ LoopFree(m)
  /\ Waits(m, t, "observe")
  /\ paused' = [paused EXCEPT ![m] = @ \ owned[m]]
  /\ \/ /\ t.then = "none" \/ (t.then = "handle" /\ ShouldPause(m))
        /\ SetTasks(m, Others(m, t))
        /\ UNCHANGED batchVars
     \/ t.then = "handle" /\ ~ShouldPause(m) /\ Buffer(m, t.msg, Others(m, t))
     \/ t.then = "retry" /\ RetryBuffer(m, t.msg, Others(m, t))
     \/ /\ t.then = "ignore"
        /\ SetTasks(m, Others(m, t) \cup {Task("ignore", "none", t.msg, EmptyBatch, NoOffsets)})
        /\ UNCHANGED batchVars
  /\ UNCHANGED <<kafkaVars, rowVars, refreshVars, alive, threadVars, ownerVars, position, inbox,
                 claims, boundVars>>

-----------------------------------------------------------------------------
(* The checkpoint of an ignored record                                     *)

\* Fault: an ignored record moves the checkpoint over what precedes it.
FaultPast(r) == r[2] >= checkpoint[r[1]]

\* compute_next_offset of one handled offset.
Past(r) == r[2] = checkpoint[r[1]]

\* The next offsets that checkpoint_ignored_records returns.
PastOffsets(r) == [p \in Partitions |-> IF p = r[1] /\ Past(r) THEN r[2] + 1 ELSE Absent]

\* checkpoint_ignored_records commits.
IgnoreCommits(m, t) ==
  /\ Waits(m, t, "ignore")
  /\ checkpoint' = Override(checkpoint, PastOffsets(t.msg))
  /\ SetTasks(m, Others(m, t) \cup
       {Task("ignored", "ignored", Nobody, EmptyBatch, PastOffsets(t.msg))})
  /\ UNCHANGED <<kafkaVars, rows, metrics, requested, refreshVars, alive, threadVars, ownerVars,
                 fetchVars, inbox, batchVars, claims, boundVars>>

IgnoreFails(m, t) ==
  /\ Waits(m, t, "ignore")
  /\ Fail
  /\ SetTasks(m, Others(m, t))
  /\ UNCHANGED <<kafkaVars, rowVars, refreshVars, alive, threadVars, ownerVars, fetchVars, inbox,
                 batchVars, claims, stops, rebalances, retention>>

\* record_sql_success of an ignored record.
Ignored(m, t) ==
  /\ LoopFree(m)
  /\ Waits(m, t, "ignored")
  /\ SetTasks(m, Others(m, t) \cup
       {u \in {[t EXCEPT !.at = "commit"]} : MayCommit(m) /\ t.next # NoOffsets})
  /\ UNCHANGED <<kafkaVars, rowVars, refreshVars, alive, threadVars, ownerVars, fetchVars, inbox,
                 batchVars, claims, boundVars>>

-----------------------------------------------------------------------------
(* The poll thread                                                         *)

Thread(m, from, to) ==
  /\ alive[m]
  /\ thread[m] = from
  /\ thread' = [thread EXCEPT ![m] = to]

\* The top of _poll_loop reads the state of the loop thread ...
CheckPressure(m) ==
  /\ Thread(m, "check", IF ShouldPause(m) THEN "pause" ELSE "poll")
  /\ UNCHANGED <<kafkaVars, rowVars, refreshVars, alive, target, read, cause, ownerVars, fetchVars,
                 inbox, batchVars, tasks, claims, boundVars>>

\* ... and pauses on what it has read.
Pause(m) ==
  /\ Thread(m, "pause", "poll")
  /\ paused' = [paused EXCEPT ![m] = owned[m]]
  /\ UNCHANGED <<kafkaVars, rowVars, refreshVars, alive, target, read, cause, ownerVars, position,
                 inbox, batchVars, tasks, claims, boundVars>>

Pending(m, p) == {o \in Log[p] : o >= position[m][p] /\ o >= low[p]}

PollMessage(m, p) ==
  LET o == Min(Pending(m, p)) IN
  /\ Thread(m, "poll", "check")
  /\ p \in owned[m] \ paused[m]
  /\ Pending(m, p) # {}
  /\ position' = [position EXCEPT ![m][p] = o + 1]
  /\ inbox' = [inbox EXCEPT ![m] = Append(@, <<p, o>>)]
  /\ UNCHANGED <<kafkaVars, rowVars, refreshVars, alive, target, read, cause, ownerVars, paused,
                 batchVars, tasks, claims, boundVars>>

PollNothing(m) ==
  /\ Thread(m, "poll", "check")
  /\ UNCHANGED <<kafkaVars, rowVars, refreshVars, alive, target, read, cause, ownerVars, fetchVars,
                 inbox, batchVars, tasks, claims, boundVars>>

Free == {p \in Partitions : owner[p] = Nobody}
MayJoin(m) == standing[m] = "out" /\ alive[m] /\ thread[m] # "dead"

\* The group assigns free partitions to a member, all of them unless there is another
\* to take the rest, and poll() runs _on_assign, which waits for reconcile() on the
\* event loop.
StartAssign(m, S) ==
  /\ Thread(m, "poll", "reading")
  /\ standing[m] = "out"
  /\ S \subseteq Free
  /\ S = Free \/ \E n \in Members \ {m} : MayJoin(n)
  /\ standing' = [standing EXCEPT ![m] = "in"]
  /\ owner' = [p \in Partitions |-> IF p \in S THEN m ELSE owner[p]]
  /\ target' = [target EXCEPT ![m] = S]
  /\ UNCHANGED <<committed, low, rowVars, refreshVars, alive, read, cause, ownerVars, fetchVars,
                 inbox, batchVars, tasks, claims, boundVars>>

\* read_partition_checkpoints
ReadCheckpoints(m) ==
  /\ LoopFree(m)
  /\ Thread(m, "reading", "deciding")
  /\ read' = [read EXCEPT ![m] = 
       [p \in Partitions |-> IF p \in target[m] THEN checkpoint[p] ELSE Absent]]
  /\ UNCHANGED <<kafkaVars, rowVars, refreshVars, alive, target, cause, ownerVars, fetchVars,
                 inbox, batchVars, tasks, claims, boundVars>>

\* An exception of the callback leaves poll() and ends the thread, not the process.
ThreadDies(m, from, why) ==
  /\ LoopFree(m)
  /\ Thread(m, from, "dead")
  /\ cause' = [cause EXCEPT ![m] = why]
  /\ target' = [target EXCEPT ![m] = {}]
  /\ read' = [read EXCEPT ![m] = NoOffsets]
  /\ UNCHANGED <<kafkaVars, rowVars, refreshVars, alive, ownerVars, fetchVars, inbox, batchVars,
                 tasks, claims>>

ReadFails(m) ==
  /\ Fail
  /\ ThreadDies(m, "reading", "sql")
  /\ UNCHANGED <<stops, rebalances, retention>>

\* reconcile_partition_offset, with committed() and the watermarks of this moment.
Ahead(m) == {p \in target[m] : committed[p] > read[m][p]}
Gap(m) == {p \in target[m] : read[m][p] < low[p]}

KafkaAheadOfSql(m) ==
  /\ Ahead(m) # {}
  /\ ThreadDies(m, "deciding", "ahead")
  /\ UNCHANGED boundVars

RetentionGap(m) ==
  /\ Gap(m) # {}
  /\ ThreadDies(m, "deciding", "gap")
  /\ UNCHANGED boundVars

Seek(m) == [p \in Partitions |-> IF p \in target[m] THEN read[m][p] ELSE 0]

\* mapper.on_assign and consumer.assign at the checkpoints that were read.  What the
\* previous assignment left in the collector and on the loop stays.
Assign(m) ==
  /\ LoopFree(m)
  /\ Ahead(m) = {} /\ Gap(m) = {}
  /\ Thread(m, "deciding", "check")
  /\ owned' = [owned EXCEPT ![m] = target[m]]
  /\ active' = [active EXCEPT ![m] = TRUE]
  /\ revoked' = [revoked EXCEPT ![m] = FALSE]
  /\ paused' = [paused EXCEPT ![m] = {}]
  /\ position' = [position EXCEPT ![m] = Seek(m)]
  /\ target' = [target EXCEPT ![m] = {}]
  /\ read' = [read EXCEPT ![m] = NoOffsets]
  /\ UNCHANGED <<kafkaVars, rowVars, refreshVars, alive, cause, inbox, batchVars, tasks, claims,
                 boundVars>>

Freed(m) == [p \in Partitions |-> IF owner[p] = m THEN Nobody ELSE owner[p]]

\* A rebalance: poll() runs on_revoke, also for partitions that are already lost.
Revoke(m) ==
  /\ Thread(m, "poll", "check")
  /\ standing[m] # "out"
  /\ standing[m] = "in" => rebalances < MaxRebalances
  /\ rebalances' = IF standing[m] = "in" THEN rebalances + 1 ELSE rebalances
  /\ standing' = [standing EXCEPT ![m] = "out"]
  /\ owner' = Freed(m)
  /\ owned' = [owned EXCEPT ![m] = {}]
  /\ active' = [active EXCEPT ![m] = FALSE]
  /\ revoked' = [revoked EXCEPT ![m] = TRUE]
  /\ UNCHANGED <<committed, low, rowVars, refreshVars, alive, target, read, cause, fetchVars,
                 inbox, batchVars, tasks, claims, failures, stops, retention>>

\* The coordinator gives up a member that goes on believing in its assignment.
Evict(m) ==
  /\ standing[m] = "in"
  /\ rebalances < MaxRebalances
  /\ rebalances' = rebalances + 1
  /\ standing' = [standing EXCEPT ![m] = "evicted"]
  /\ owner' = Freed(m)
  /\ UNCHANGED <<committed, low, rowVars, refreshVars, claims, processVars, failures, stops,
                 retention>>

-----------------------------------------------------------------------------
(* The aggregate refresh of late days                                      *)

DayRows(d) == {r \in rows : Day[r] = d}

\* Fault: the day is marked up to what is requested by now.
FaultRefreshedTo(c) == requested[c.day]

\* _MARK_PROCESSED writes the generation of the claim.
RefreshedTo(c) == c.gen

\* Fault: a day is refreshed once.
FaultPendingWork(d) == processed[d] = 0 /\ requested[d] > 0

\* _PENDING_WORK
PendingWork(d) == processed[d] < requested[d]

InWork(k, at) == claims[k] # Nobody /\ claims[k].at = at

SetClaim(k, c) == claims' = [claims EXCEPT ![k] = c]

\* claim_pending; its row lock ends with its transaction, so that several refreshes of
\* a day may be in work: of other members, or after the 120 s that the loop waits.
ClaimDay(k, d) ==
  /\ \E m \in Members : alive[m]
  /\ PendingWork(d)
  /\ claims[k] = Nobody
  /\ SetClaim(k, [day |-> d, gen |-> requested[d], at |-> "claimed", seen |-> {}])
  /\ UNCHANGED <<kafkaVars, rowVars, refreshVars, processVars, boundVars>>

\* refresh_claim reads the day for both views.
RefreshDay(k) ==
  /\ InWork(k, "claimed")
  /\ SetClaim(k, [claims[k] EXCEPT !.at = "read", !.seen = DayRows(claims[k].day)])
  /\ UNCHANGED <<kafkaVars, rowVars, refreshVars, processVars, boundVars>>

MarksRow(c) == requested[c.day] >= RefreshedTo(c) /\ processed[c.day] < RefreshedTo(c)

\* _MARK_PROCESSED updates one row, and the views are committed with it ...
MarkProcessed(k) ==
  LET c == claims[k] IN
  /\ InWork(k, "read")
  /\ MarksRow(c)
  /\ processed' = [processed EXCEPT ![c.day] = RefreshedTo(c)]
  /\ aggregated' = [aggregated EXCEPT ![c.day] = @ \cup c.seen]
  /\ SetClaim(k, Nobody)
  /\ UNCHANGED <<kafkaVars, rowVars, processVars, boundVars>>

\* ... or none: "superseded", rolled back.
Superseded(k) ==
  /\ InWork(k, "read")
  /\ ~MarksRow(claims[k])
  /\ SetClaim(k, Nobody)
  /\ UNCHANGED <<kafkaVars, rowVars, refreshVars, processVars, boundVars>>

\* The refresh raises; the loop logs it and goes on.
RefreshFails(k) ==
  /\ claims[k] # Nobody
  /\ Fail
  /\ SetClaim(k, Nobody)
  /\ UNCHANGED <<kafkaVars, rowVars, refreshVars, processVars, stops, rebalances, retention>>

-----------------------------------------------------------------------------
(* Crashes and retention                                                   *)

Crash(m) ==
  /\ alive[m]
  /\ stops < MaxStops
  /\ stops' = stops + 1
  /\ standing' = [standing EXCEPT ![m] = "out"]
  /\ owner' = Freed(m)
  /\ alive' = [alive EXCEPT ![m] = FALSE]
  /\ thread' = [thread EXCEPT ![m] = "check"]
  /\ target' = [target EXCEPT ![m] = {}]
  /\ read' = [read EXCEPT ![m] = NoOffsets]
  /\ cause' = [cause EXCEPT ![m] = "none"]
  /\ owned' = [owned EXCEPT ![m] = {}]
  /\ active' = [active EXCEPT ![m] = FALSE]
  /\ revoked' = [revoked EXCEPT ![m] = FALSE]
  /\ paused' = [paused EXCEPT ![m] = {}]
  /\ position' = [position EXCEPT ![m] = [p \in Partitions |-> 0]]
  /\ inbox' = [inbox EXCEPT ![m] = <<>>]
  /\ collector' = [collector EXCEPT ![m] = EmptyBatch]
  /\ aged' = [aged EXCEPT ![m] = FALSE]
  /\ flight' = [flight EXCEPT ![m] = FALSE]
  /\ SetTasks(m, {})
  /\ \E K \in SUBSET (1 .. MaxClaims) :
       /\ (\A n \in Members \ {m} : ~alive[n]) => K = 1 .. MaxClaims
       /\ claims' = [k \in 1 .. MaxClaims |-> IF k \in K THEN Nobody ELSE claims[k]]
  /\ UNCHANGED <<committed, low, rowVars, refreshVars, failures, rebalances, retention>>

Restart(m) ==
  /\ ~alive[m]
  /\ alive' = [alive EXCEPT ![m] = TRUE]
  /\ UNCHANGED <<kafkaVars, rowVars, refreshVars, threadVars, ownerVars, fetchVars, inbox,
                 batchVars, tasks, claims, boundVars>>

Retain(p) ==
  /\ low[p] \in Log[p]
  /\ retention < MaxRetention
  /\ retention' = retention + 1
  /\ low' = [low EXCEPT ![p] = @ + 1]
  /\ UNCHANGED <<owner, standing, committed, rowVars, refreshVars, claims, processVars, failures,
                 stops, rebalances>>

-----------------------------------------------------------------------------
Consume(m) == HandleMessage(m) \/ FlushBeforeMessage(m) \/ DropMessage(m)

RunTask(m, t) ==
  \/ PersistCommits(m, t) \/ Persisted(m, t) \/ CommitKafka(m, t) \/ Resume(m, t)
  \/ IgnoreCommits(m, t) \/ Ignored(m, t)

FailTask(m, t) == PersistFails(m, t) \/ CommitFails(m, t) \/ IgnoreFails(m, t)

Assigning(m) == ReadCheckpoints(m) \/ KafkaAheadOfSql(m) \/ RetentionGap(m) \/ Assign(m)

RefreshWork(k) ==
  \/ \E d \in Days : ClaimDay(k, d)
  \/ RefreshDay(k) \/ MarkProcessed(k) \/ Superseded(k)

MemberNext(m) ==
  \/ Consume(m) \/ FlushTick(m) \/ Age(m)
  \/ \E t \in tasks[m] : RunTask(m, t) \/ FailTask(m, t)
  \/ CheckPressure(m) \/ Pause(m) \/ PollNothing(m)
  \/ \E p \in Partitions : PollMessage(m, p)
  \/ \E S \in SUBSET Partitions : StartAssign(m, S)
  \/ Assigning(m) \/ ReadFails(m)
  \/ Revoke(m) \/ Evict(m)
  \/ Crash(m) \/ Restart(m)

Next ==
  \/ \E m \in Members : MemberNext(m)
  \/ \E p \in Partitions : Retain(p)
  \/ \E k \in 1 .. MaxClaims : RefreshWork(k) \/ RefreshFails(k)

Spec == Init /\ [][Next]_vars

\* The loop runs its tasks and their SQL and Kafka calls answer; the poll thread
\* turns and gets what is there; batches age; the group assigns all partitions.
Fairness ==
  /\ \A k \in 1 .. MaxClaims : WF_vars(RefreshWork(k))
  /\ \A m \in Members :
    /\ SF_vars(Consume(m)) /\ SF_vars(FlushTick(m)) /\ WF_vars(Age(m))
    /\ WF_vars(\E t \in tasks[m] : RunTask(m, t) \/ FailTask(m, t))
    /\ WF_vars(CheckPressure(m)) /\ WF_vars(Pause(m)) /\ WF_vars(PollNothing(m))
    /\ \A p \in Partitions : SF_vars(PollMessage(m, p))
    /\ SF_vars(StartAssign(m, Free))
    /\ SF_vars(Assigning(m)) /\ WF_vars(Restart(m))

FairSpec == Spec /\ Fairness

-----------------------------------------------------------------------------
(* Properties                                                              *)

Offsets == [Partitions -> Nat]
NextOffsets == [Partitions -> Nat \cup {Absent}]
\* Ignored records are never collected.
Batches == {b \in [Records -> Nat] : \A r \in In(b) : Kind[r] # "ignored"}
TaskType ==
  [at : {"persist", "persisted", "ignore", "ignored", "commit", "observe"},
   then : {"none", "handle", "retry", "ignore", "ignored"},
   msg : Records \cup {Nobody}, batch : Batches, next : NextOffsets]
ClaimType == [day : Days, gen : Nat, at : {"claimed", "read"}, seen : SUBSET Records]

KafkaTypeOK ==
  /\ owner \in [Partitions -> Members \cup {Nobody}]
  /\ standing \in [Members -> {"out", "in", "evicted"}]
  /\ committed \in Offsets /\ low \in Offsets

DatabaseTypeOK ==
  /\ checkpoint \in Offsets
  /\ rows \subseteq Records
  /\ metrics \in [Records -> Nat]
  /\ requested \in [Days -> Nat] /\ processed \in [Days -> Nat]
  /\ aggregated \in [Days -> SUBSET Records]
  /\ claims \in [1 .. MaxClaims -> ClaimType \cup {Nobody}]

ThreadTypeOK ==
  /\ thread \in [Members -> {"check", "pause", "poll", "reading", "deciding", "dead"}]
  /\ target \in [Members -> SUBSET Partitions]
  /\ read \in [Members -> NextOffsets]
  /\ cause \in [Members -> {"none", "sql", "ahead", "gap"}]
  /\ owned \in [Members -> SUBSET Partitions]
  /\ paused \in [Members -> SUBSET Partitions]
  /\ position \in [Members -> Offsets]

LoopTypeOK ==
  /\ inbox \in [Members -> Seq(Records)]
  /\ collector \in [Members -> Batches]
  /\ tasks \in [Members -> SUBSET TaskType]
FlagsOK == {alive, active, revoked, aged, flight} \subseteq [Members -> BOOLEAN]

BoundsOK ==
  /\ failures \in 0 .. MaxFailures /\ stops \in 0 .. MaxStops
  /\ rebalances \in 0 .. MaxRebalances /\ retention \in 0 .. MaxRetention

\* Every variable keeps its type: the offsets, the rows, the batches and the state of
\* each process are what HistorianKafkaMapper and the tables can hold.
TypeOK ==
  /\ KafkaTypeOK /\ DatabaseTypeOK /\ ThreadTypeOK /\ LoopTypeOK /\ FlagsOK /\ BoundsOK

\* The record is stored, or needs no row.
IsHandled(r) == Kind[r] = "ignored" \/ Known(r)

\* Nothing below a checkpoint is missing in the raw table, whatever batches of the old
\* and the new owner, failures and crashes come between (compute_next_offset and the
\* one transaction of persist_batch).
CheckpointIsHandled ==
  \A r \in Records : r[2] < checkpoint[r[1]] => IsHandled(r)

\* The group never commits past the checkpoint: "Kafka ahead of SQL is a fatal
\* consistency error" (foundation design, line 297) that these processes never cause.
KafkaBehindSql == \A p \in Partitions : committed[p] <= checkpoint[p]

\* A raw row never lacks the metrics of its event, nor are there metrics of an event
\* that is not in the raw table (one transaction for both).
MetricsMatchRows ==
  \A r \in Records : (r \in rows => metrics[r] > 0) /\ (metrics[r] > 0 => Known(r))

\* "no backward checkpoint movement" (foundation design, line 442), also when the
\* batch of a former owner is written after those of its successor.
CheckpointMonotone == [][\A p \in Partitions : checkpoint'[p] >= checkpoint[p]]_vars

\* Once an event has metrics, a replay after a crash, a lost answer or a rebalance adds
\* more of them in one case only: its event_id has come with another time, and the
\* transaction that inserts the raw row of that time has the replayed record in its
\* batch (the filter of persist_batch asks for the event_id alone).
MetricsWrittenOnce ==
  [][\A q, r \in Records : Id[q] = Id[r] /\ metrics[q] > 0 /\ metrics'[r] # metrics[r] =>
       \E n \in rows' \ rows : EventId(n) = EventId(r) /\ Id[n] # Id[r]]_vars

\* A day whose generation is processed has aggregates of all its late rows: the rows
\* that arrive during a refresh keep it pending (late_refresh_worklist).
RefreshCovers ==
  \A d \in Days : processed[d] = requested[d] => DayRows(d) \cap Late \subseteq aggregated[d]

\* Late days are refreshed in the end, however many generations arrive meanwhile and
\* whichever refreshes fail or are superseded.
LateDaysRefreshed == []<>(\A d \in Days : processed[d] = requested[d])

Handoff == INSTANCE DurableHandoff WITH
  Messages <- Records,
  Exempt <- {r \in Records : Kind[r] = "ignored"},
  owed <- {r \in Records : r[2] >= checkpoint[r[1]]},
  durable <- {r \in Records : Known(r)},
  released <- {r \in Records : r[2] < checkpoint[r[1]]}

\* The historian keeps the promise of a hop of the pipeline, the checkpoint being the
\* position in the log from which a successor goes on.
ImplementsHandoff == Handoff!Spec

\* "Verify duplicate raw events do not create duplicate Metrics" (foundation plan,
\* line 243): an event's metrics are inserted once.
MetricsOnce ==
  \A q, r \in Records :
    /\ metrics[r] <= 1
    /\ Id[q] = Id[r] /\ metrics[q] > 0 /\ metrics[r] > 0 => q = r

Done == \A p \in Partitions : Log[p] \subseteq 0 .. checkpoint[p] - 1

\* "Burst/recovery lag must converge after the fault clears" (foundation design,
\* line 443): the checkpoint reaches the end of the log.
LagConverges == <>Done
=============================================================================
