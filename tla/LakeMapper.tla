----------------------------- MODULE LakeMapper -----------------------------
(***************************************************************************)
(* The Kafka to object store mapper (14_uns_datalake).  One thread repeats *)
(* run_once: advance the frozen flush if there is one, otherwise freeze a  *)
(* ready partition, retry the pending rejections, poll one record.  Each   *)
(* call that leaves the process (upload, DLQ publish, offset commit, poll) *)
(* is a step of its own, so that a crash falls between any two of them.    *)
(*                                                                         *)
(* The Kafka group, the other mappers of the group, the dead-letter topic  *)
(* and the object store are external.  Rebalances are eager (the default   *)
(* assignor): on_revoke takes every partition.  The byte and time limits   *)
(* keep their role; a record has a size and a buffer may become old.       *)
(***************************************************************************)
EXTENDS Integers, FiniteSets, FiniteSetsExt

CONSTANTS
  Partitions,        \* partitions of uns.historic-events, as integers
  Log,               \* partition |-> offsets of its records (gaps allowed)
  Kind,              \* record |-> what _handle_message makes of it
  Route,             \* record |-> rank of its lake route in sorted order
  Size,              \* record |-> bytes of its envelope
  FirstCommitted,    \* partition |-> group offset before the first run, or None
  FirstHigh,         \* partition |-> its high watermark at that time
  InitialPosition,   \* DatalakeConfig.initial_position
  MaxRecords,        \* FlushLimits.max_records
  MaxBytes,          \* FlushLimits.max_bytes
  MaxGroups,         \* FlushLimits.max_active_route_groups
  WorkerMaxBytes,    \* FlushLimits.worker_max_buffered_bytes
  MaxAttempts,       \* DatalakeConfig.upload_max_attempts
  MaxFailures,       \* bound: failed uploads, DLQ publishes and commits
  MaxStops,          \* bound: crashes and signals
  MaxRebalances,     \* bound: times the group takes the partitions away
  MaxRetention       \* bound: times retention deletes a record

None == -1           \* Kafka's "no committed offset"; the code tests offset < 0

Records == UNION {{<<p, o>> : o \in Log[p]} : p \in Partitions}

ASSUME LogAssumption ==
  /\ Partitions \subseteq Nat
  /\ \A p \in Partitions : Log[p] \subseteq Nat
  /\ Kind \in [Records -> {"event", "reject", "skip"}]
  /\ Route \in [Records -> Nat] /\ Size \in [Records -> 1 .. MaxBytes]
  /\ FirstCommitted \in [Partitions -> Nat \cup {None}]
  /\ FirstHigh \in [Partitions -> Nat]
  /\ InitialPosition \in {"require_committed", "earliest", "latest"}

\* validate_flush_limits
ASSUME LimitsAssumption ==
  /\ {MaxRecords, MaxBytes, MaxGroups, WorkerMaxBytes, MaxAttempts} \subseteq Nat \ {0}
  /\ MaxBytes <= WorkerMaxBytes
  /\ {MaxFailures, MaxStops, MaxRebalances, MaxRetention} \subseteq Nat

NoPartition == None
NoFlush == [part |-> NoPartition, left |-> {}, commit |-> None, attempts |-> 0, gen |-> 0]

VARIABLES
  \* external: the topic, the group, the stores
  low,          \* partition |-> low watermark
  high,         \* partition |-> high watermark
  committed,    \* partition |-> offset of the group, or None
  member,       \* the group still counts this process as the owner
  archived,     \* records in a verified object of the lake
  rejected,     \* records in the dead-letter topic
  \* the process
  pc,           \* "top" | "reject" | "settle" | "poll" | "exclude" | "down"
  then,         \* where _try_advance_rejections returns to: "poll" | "top"
  owned,        \* DatalakeMapper.owned_partitions
  generation,   \* DatalakeMapper.generation
  position,     \* partition |-> next offset the consumer fetches
  observed,     \* partition |-> ConsumedPrefix._observed (strictly increasing)
  resolved,     \* partition |-> ConsumedPrefix._resolved
  buffer,       \* partition |-> offsets in BatchManager.buffers
  aged,         \* partitions whose buffer is older than interval_seconds
  frozen,       \* frozen_flush, group_index, pending_commit_offset, upload_attempts
  pending,      \* pending_rejections
  todo,         \* those the running _try_advance_rejections has not looked at
  current,      \* the record being settled or excluded
  replaced,     \* history: records of an uncommitted flush that another one replaced
  \* bounds
  failures, stops, rebalances, retention

kafkaVars == <<low, high, committed, member>>
storeVars == <<archived, rejected>>
consumerVars == <<owned, generation, position>>
ledgerVars == <<observed, resolved>>
batchVars == <<buffer, aged, replaced>>
loopVars == <<pc, then, pending, todo, current>>
boundVars == <<failures, stops, rebalances, retention>>
vars == <<kafkaVars, storeVars, consumerVars, ledgerVars, batchVars, frozen, loopVars, boundVars>>

NoRecord == <<NoPartition, None>>       \* no record
Nothing == [p \in Partitions |-> {}]

Init ==
  /\ low = [p \in Partitions |-> 0]
  /\ high = FirstHigh
  /\ committed = FirstCommitted
  /\ member = FALSE
  /\ archived = {}
  /\ rejected = {}
  /\ pc = "top"
  /\ then = "top"
  /\ owned = {}
  /\ generation = 0
  /\ position = [p \in Partitions |-> 0]
  /\ observed = Nothing
  /\ resolved = Nothing
  /\ buffer = Nothing
  /\ aged = {}
  /\ replaced = {}
  /\ frozen = NoFlush
  /\ pending = {}
  /\ todo = {}
  /\ current = NoRecord
  /\ failures = 0
  /\ stops = 0
  /\ rebalances = 0
  /\ retention = 0

-----------------------------------------------------------------------------
(* ConsumedPrefix                                                          *)

Unresolved(p) == observed[p] \ resolved[p]

\* Fault: the prefix ends at the last resolved offset, whatever is open before it.
FaultPrefix(obs, res) == IF res = {} THEN None ELSE Max(res) + 1

\* next_offset: one past the last record before the first unresolved one.
NextOffset(obs, res) ==
  LET done == {o \in obs : \A u \in obs \ res : o < u}
  IN  IF done = {} THEN None ELSE Max(done) + 1

\* discard_committed
Discard(ledger, p, n) == [ledger EXCEPT ![p] = {o \in @ : o >= n}]

-----------------------------------------------------------------------------
(* BatchManager                                                            *)

Bytes(b, p) == MapThenSumSet(LAMBDA o : Size[<<p, o>>], b[p])
Groups(b, p) == {Route[<<p, o>>] : o \in b[p]}

\* should_flush_partition
ShouldFlush(b, old, p) ==
  /\ b[p] # {}
  /\ \/ Cardinality(b[p]) >= MaxRecords
     \/ Bytes(b, p) >= MaxBytes
     \/ Cardinality(Groups(b, p)) >= MaxGroups
     \/ p \in old

\* choose_flush_partition: the first ready partition; under memory pressure the
\* oldest one, which may be any.
FlushChoices(b, old) ==
  LET ready == {p \in Partitions : ShouldFlush(b, old, p)}
      held == {p \in Partitions : b[p] # {}}
      total == MapThenSumSet(LAMBDA p : Bytes(b, p), held)
  IN  IF ready # {} THEN {p \in ready : \A q \in ready : p <= q}
      ELSE IF total > WorkerMaxBytes THEN held
      ELSE {NoPartition}

\* admission_would_exceed_limits
WouldExceed(p, o) ==
  LET b == [buffer EXCEPT ![p] = @ \cup {o}]
  IN  \/ Cardinality(b[p]) > MaxRecords
      \/ Bytes(b, p) > MaxBytes
      \/ Cardinality(Groups(b, p)) > MaxGroups

\* _freeze_partition
Freeze(b, p) ==
  [part |-> p, left |-> b[p], commit |-> None, attempts |-> 0, gen |-> generation]

\* _flush_ready_partitions, applied to buffers b, ages old and frozen flush f.
FlushReady(b, old, f) ==
  \E p \in FlushChoices(b, old) :
    /\ buffer' = IF p = NoPartition THEN b ELSE [b EXCEPT ![p] = {}]
    /\ aged' = old \ {p}
    /\ frozen' = IF p = NoPartition THEN f ELSE Freeze(b, p)
    /\ replaced' = IF p = NoPartition THEN replaced
                   ELSE replaced \cup {<<f.part, o>> : o \in f.left}

-----------------------------------------------------------------------------
(* The end of a process                                                    *)

\* An exception or a False result ends the process; its memory is gone, and
\* close() leaves the group.
Die ==
  /\ pc' = "down"
  /\ then' = "top"
  /\ member' = FALSE
  /\ owned' = {}
  /\ generation' = 0
  /\ position' = [p \in Partitions |-> 0]
  /\ observed' = Nothing
  /\ resolved' = Nothing
  /\ buffer' = Nothing
  /\ aged' = {}
  /\ replaced' = {}
  /\ frozen' = NoFlush
  /\ pending' = {}
  /\ todo' = {}
  /\ current' = NoRecord

Fail == failures < MaxFailures /\ failures' = failures + 1
NoFailure == UNCHANGED failures

Crash ==
  /\ pc # "down"
  /\ stops < MaxStops
  /\ stops' = stops + 1
  /\ Die
  /\ UNCHANGED <<low, high, committed, storeVars, failures, rebalances, retention>>

\* Compose restarts a process that failed.
Restart ==
  /\ pc = "down"
  /\ pc' = "top"
  /\ UNCHANGED <<kafkaVars, storeVars, consumerVars, ledgerVars, batchVars, frozen, then,
                 pending, todo, current, boundVars>>

-----------------------------------------------------------------------------
(* Offset commits: the group refuses a process it no longer counts in, which *)
(* confluent_kafka raises; any other failure is reported for the partition.  *)

CommitOk(p, n, obs, res) ==
  /\ member
  /\ committed' = [committed EXCEPT ![p] = n]
  /\ observed' = Discard(obs, p, n)
  /\ resolved' = Discard(res, p, n)
  /\ NoFailure

CommitRefused(obs, res) ==
  /\ member
  /\ Fail
  /\ observed' = obs
  /\ resolved' = res
  /\ UNCHANGED committed

\* may_commit_kafka
MayCommit == owned # {}

-----------------------------------------------------------------------------
(* run_once with nothing frozen: freeze, then _try_advance_rejections       *)

\* _try_advance_rejections looks at each rejection it finds, then returns to "next".
StartRejections(found, next) ==
  /\ pc' = "reject"
  /\ then' = next
  /\ pending' = found
  /\ todo' = found
  /\ current' = NoRecord

FlushTop ==
  /\ pc = "top"
  /\ frozen = NoFlush
  /\ FlushReady(buffer, aged, frozen)
  /\ StartRejections(pending, "poll")
  /\ UNCHANGED <<kafkaVars, storeVars, consumerVars, ledgerVars, boundVars>>

\* The list is in arrival order, so by offset within a partition.
Turn(r) == r \in todo /\ \A s \in todo : s[1] = r[1] => r[2] <= s[2]

\* _rejection_blocked
RejectionBlocked(r) ==
  \E o \in Unresolved(r[1]) \cup buffer[r[1]] : o < r[2]

\* Fault: a rejection that cannot be settled yet is not carried over.
FaultKeepRejection(r) ==
  /\ todo' = todo \ {r}
  /\ pending' = pending \ {r}
  /\ UNCHANGED <<pc, then, current, kafkaVars, consumerVars, ledgerVars, batchVars,
                 frozen, stops, rebalances, retention>>

\* The rejection is carried over to the next pass.
KeepRejection(r) ==
  /\ todo' = todo \ {r}
  /\ UNCHANGED <<pc, then, pending, current, kafkaVars, consumerVars, ledgerVars, batchVars,
                 frozen, stops, rebalances, retention>>

RejectionWaits(r) ==
  /\ pc = "reject"
  /\ Turn(r)
  /\ RejectionBlocked(r)
  /\ KeepRejection(r)
  /\ UNCHANGED <<storeVars, failures>>

\* The DLQ publish raises; the record may have been written all the same.
PublishRejectionFails(r) ==
  /\ pc = "reject"
  /\ Turn(r)
  /\ ~RejectionBlocked(r)
  /\ Fail
  /\ rejected' \in {rejected, rejected \cup {r}}
  /\ KeepRejection(r)
  /\ UNCHANGED archived

PublishRejection(r) ==
  /\ pc = "reject"
  /\ Turn(r)
  /\ ~RejectionBlocked(r)
  /\ rejected' = rejected \cup {r}
  /\ pc' = "settle"
  /\ current' = r
  /\ UNCHANGED <<kafkaVars, archived, consumerVars, ledgerVars, batchVars, frozen, then,
                 pending, todo, boundVars>>

\* Fault: the rejection leaves the list but not the pass over it.
FaultSettled(r) ==
  /\ pc' = "reject"
  /\ pending' = pending \ {r}
  /\ current' = NoRecord
  /\ UNCHANGED todo

\* The rejection leaves the list.
Settled(r) ==
  /\ pc' = "reject"
  /\ todo' = todo \ {r}
  /\ pending' = pending \ {r}
  /\ current' = NoRecord

\* The rejection stays in the list although it is in the DLQ and resolved.
Unsettled(r) ==
  /\ pc' = "reject"
  /\ todo' = todo \ {r}
  /\ current' = NoRecord
  /\ UNCHANGED pending

\* resolve() of an offset the ledger has discarded raises ValueError.
LedgerError ==
  /\ pc = "settle"
  /\ current[2] \notin observed[current[1]]
  /\ Die
  /\ UNCHANGED <<low, high, committed, storeVars, boundVars>>

ResolvedNow == [resolved EXCEPT ![current[1]] = @ \cup {current[2]}]

\* resolve() and _try_commit_ready_prefix of a published rejection.
SettleRejection ==
  LET p == current[1]
      n == NextOffset(observed[p], ResolvedNow[p])
  IN
  /\ pc = "settle"
  /\ current[2] \in observed[p]
  /\ \/ /\ frozen # NoFlush \/ n = None
        /\ resolved' = ResolvedNow
        /\ Settled(current)
        /\ UNCHANGED <<committed, observed, failures>>
     \/ /\ frozen = NoFlush /\ n # None /\ MayCommit
        /\ \/ CommitOk(p, n, observed, ResolvedNow) /\ Settled(current)
           \/ CommitRefused(observed, ResolvedNow) /\ Unsettled(current)
  /\ UNCHANGED <<low, high, member, storeVars, consumerVars, batchVars, frozen, then,
                 stops, rebalances, retention>>

AfterRejections == IF frozen = NoFlush THEN then ELSE "top"

RejectionsDone ==
  /\ pc = "reject"
  /\ todo = {}
  /\ pc' = AfterRejections
  /\ UNCHANGED <<then, kafkaVars, storeVars, consumerVars, ledgerVars, batchVars, frozen,
                 pending, todo, current, boundVars>>

-----------------------------------------------------------------------------
(* run_once: poll and _handle_message                                      *)

PollNothing ==
  /\ pc = "poll"
  /\ pc' = "top"
  /\ UNCHANGED <<then, kafkaVars, storeVars, consumerVars, ledgerVars, batchVars, frozen,
                 pending, todo, current, boundVars>>

\* auto.offset.reset = error: retention has overtaken the position of a partition.
PollOutOfRange ==
  /\ pc = "poll"
  /\ \E p \in owned : position[p] < low[p]
  /\ Die
  /\ UNCHANGED <<low, high, committed, storeVars, boundVars>>

\* The next record of partition p is polled and observed.
Polled(p, o) ==
  /\ pc = "poll"
  /\ p \in owned
  /\ position[p] >= low[p]
  /\ o \in Log[p]
  /\ position[p] <= o /\ o < high[p]
  /\ \A e \in Log[p] : position[p] <= e => o <= e
  /\ position' = [position EXCEPT ![p] = o + 1]
  /\ observed' = [observed EXCEPT ![p] = @ \cup {o}]
  /\ UNCHANGED <<kafkaVars, storeVars, owned, generation, boundVars>>

\* Decoding, routing or the size limit rejects the record.
PollReject(p, o) ==
  /\ Polled(p, o)
  /\ Kind[<<p, o>>] = "reject"
  /\ StartRejections(pending \cup {<<p, o>>}, "top")
  /\ UNCHANGED <<resolved, batchVars, frozen>>

\* A record that is not archive_eligible is resolved at once.
PollSkip(p, o) ==
  /\ Polled(p, o)
  /\ Kind[<<p, o>>] = "skip"
  /\ resolved' = [resolved EXCEPT ![p] = @ \cup {o}]
  /\ pc' = "exclude"
  /\ current' = <<p, o>>
  /\ UNCHANGED <<then, pending, todo, batchVars, frozen>>

\* _try_commit_ready_prefix after PollSkip: a failed commit ends the process.
ExcludeRecord ==
  LET p == current[1]
      n == NextOffset(observed[p], resolved[p])
  IN
  /\ pc = "exclude"
  /\ pc' = "top"
  /\ \/ n = None /\ UNCHANGED <<committed, ledgerVars, failures>>
     \/ n # None /\ MayCommit /\ CommitOk(p, n, observed, resolved)
  /\ current' = NoRecord
  /\ UNCHANGED <<low, high, member, storeVars, consumerVars, batchVars, frozen, then, pending,
                 todo, stops, rebalances, retention>>

ExcludeFails ==
  /\ pc = "exclude"
  /\ NextOffset(observed[current[1]], resolved[current[1]]) # None
  /\ member
  /\ Fail
  /\ Die
  /\ UNCHANGED <<low, high, committed, storeVars, stops, rebalances, retention>>

\* try_add accepts the record; its partition or another one may be ready now.
PollBuffer(p, o) ==
  /\ Polled(p, o)
  /\ Kind[<<p, o>>] = "event"
  /\ ~WouldExceed(p, o)
  /\ FlushReady([buffer EXCEPT ![p] = @ \cup {o}], aged, frozen)
  /\ StartRejections(pending, "top")
  /\ UNCHANGED resolved

\* try_add refuses the record: the partition is frozen, the record starts its next
\* buffer, and then _flush_ready_partitions looks for a ready partition again.
PollFlushThenBuffer(p, o) ==
  /\ Polled(p, o)
  /\ Kind[<<p, o>>] = "event"
  /\ WouldExceed(p, o)
  /\ FlushReady([buffer EXCEPT ![p] = {o}], aged \ {p}, Freeze(buffer, p))
  /\ StartRejections(pending, "top")
  /\ UNCHANGED resolved

\* The synchronous commit of a process the group has evicted raises KafkaException.
CommitFenced ==
  LET p == current[1] IN
  /\ ~member
  /\ \/ /\ pc = "settle"
        /\ frozen = NoFlush
        /\ current[2] \in observed[p]
        /\ NextOffset(observed[p], ResolvedNow[p]) # None
     \/ /\ pc = "exclude"
        /\ NextOffset(observed[p], resolved[p]) # None
     \/ pc = "top" /\ frozen.commit # None
  /\ Die
  /\ UNCHANGED <<low, high, committed, storeVars, boundVars>>

-----------------------------------------------------------------------------
(* Rebalance callbacks, run inside poll                                    *)

\* choose_start: None stands for its ReplayError.
ChooseStart(offset, lo, hi) ==
  IF offset # None
  THEN IF lo <= offset /\ offset <= hi THEN offset ELSE None
  ELSE CASE InitialPosition = "require_committed" -> None
         [] InitialPosition = "earliest" -> lo
         [] InitialPosition = "latest" -> hi

Start(p) == ChooseStart(committed[p], low[p], high[p])

\* Fault: on_assign keeps the ledgers of the previous assignment.
FaultCleared == observed

\* on_assign starts every ledger afresh.
Cleared == Nothing

\* _assign_with_replay_policy and on_assign
Assign(S) ==
  /\ pc = "poll"
  /\ owned = {}
  /\ \A p \in S : Start(p) # None
  /\ member' = TRUE
  /\ owned' = S
  /\ generation' = generation + 1
  /\ position' = [p \in Partitions |-> IF p \in S THEN Start(p) ELSE 0]
  /\ observed' = Cleared
  /\ resolved' = Nothing
  /\ replaced' = {}
  /\ pc' = "top"
  /\ UNCHANGED <<low, high, committed, storeVars, buffer, aged, frozen, then, pending, todo,
                 current, boundVars>>

\* A ReplayError leaves the callback and ends the process.
AssignFails(S) ==
  /\ pc = "poll"
  /\ owned = {}
  /\ \E p \in S : Start(p) = None
  /\ Die
  /\ UNCHANGED <<low, high, committed, storeVars, boundVars>>

\* Fault: on_revoke does not look at the buffers and the rejections.
FaultHoldsWork == FALSE

\* Uncommitted work that on_revoke refuses to carry over.
HoldsWork == pending # {} \/ \E p \in Partitions : buffer[p] # {}

\* on_revoke without uncommitted work: the frozen work is dropped.
Revoke ==
  /\ pc = "poll"
  /\ owned # {} /\ ~member
  /\ ~HoldsWork
  /\ owned' = {}
  /\ frozen' = NoFlush
  /\ pc' = "top"
  /\ UNCHANGED <<kafkaVars, storeVars, generation, position, ledgerVars, batchVars, then,
                 pending, todo, current, boundVars>>

\* on_revoke with uncommitted work raises OwnershipLostError.
RevokeFails ==
  /\ pc = "poll"
  /\ owned # {} /\ ~member
  /\ HoldsWork
  /\ Die
  /\ UNCHANGED <<low, high, committed, storeVars, boundVars>>

-----------------------------------------------------------------------------
(* run_once with a frozen flush                                            *)

\* Otherwise _advance_frozen_flush raises OwnershipLostError (see FrozenIsOwned).
Advancing ==
  /\ pc = "top"
  /\ frozen # NoFlush
  /\ frozen.gen = generation /\ owned # {}

\* The offsets of the next route group in sorted order.
Group ==
  LET of(o) == Route[<<frozen.part, o>>]
  IN  {o \in frozen.left : \A e \in frozen.left : of(o) <= of(e)}

GroupRecords == {<<frozen.part, o>> : o \in Group}

\* publish_exact and verify_exact succeed, the members of the group are resolved.
PublishGroup ==
  /\ Advancing
  /\ frozen.left # {}
  /\ archived' = archived \cup GroupRecords
  /\ resolved' = [resolved EXCEPT ![frozen.part] = @ \cup Group]
  /\ frozen' = [frozen EXCEPT !.left = @ \ Group, !.attempts = 0]
  /\ UNCHANGED <<kafkaVars, rejected, consumerVars, observed, batchVars, loopVars,
                 boundVars>>

\* Fault: a failed upload is treated like a verified one.
FaultPublishFails ==
  /\ Advancing
  /\ frozen.left # {}
  /\ Fail
  /\ resolved' = [resolved EXCEPT ![frozen.part] = @ \cup Group]
  /\ frozen' = [frozen EXCEPT !.left = @ \ Group]
  /\ UNCHANGED <<kafkaVars, storeVars, consumerVars, observed, batchVars, loopVars,
                 stops, rebalances, retention>>

\* The upload or its verification fails, with or without an object behind it; the
\* same bytes are tried again under the same key.
PublishFails ==
  /\ Advancing
  /\ frozen.left # {}
  /\ frozen.attempts + 1 < MaxAttempts
  /\ Fail
  /\ archived' \in {archived, archived \cup GroupRecords}
  /\ frozen' = [frozen EXCEPT !.attempts = @ + 1]
  /\ UNCHANGED <<kafkaVars, rejected, consumerVars, ledgerVars, batchVars, loopVars,
                 stops, rebalances, retention>>

\* The last attempt fails, or an IntegrityError at any attempt.
PublishGivesUp ==
  /\ Advancing
  /\ frozen.left # {}
  /\ Fail
  /\ archived' \in {archived, archived \cup GroupRecords}
  /\ Die
  /\ UNCHANGED <<low, high, committed, rejected, stops, rebalances, retention>>

\* All groups are done.  Without a next offset (None) run_once returns True and
\* changes nothing: the loop spins.
FinishFlush ==
  /\ Advancing
  /\ frozen.left = {} /\ frozen.commit = None
  /\ frozen' = [frozen EXCEPT
       !.commit = NextOffset(observed[frozen.part], resolved[frozen.part])]
  /\ UNCHANGED <<kafkaVars, storeVars, consumerVars, ledgerVars, batchVars, loopVars,
                 boundVars>>

\* _complete_commit; the rejections the flush held back are tried at once.
CompleteCommit ==
  /\ Advancing
  /\ frozen.commit # None
  /\ CommitOk(frozen.part, frozen.commit, observed, resolved)
  /\ frozen' = NoFlush
  /\ StartRejections(pending, "top")
  /\ UNCHANGED <<low, high, member, storeVars, consumerVars, batchVars,
                 stops, rebalances, retention>>

\* The commit is reported as failed: the next run_once tries it again.
CompleteCommitFails ==
  /\ Advancing
  /\ frozen.commit # None
  /\ CommitRefused(observed, resolved)
  /\ UNCHANGED <<low, high, member, storeVars, consumerVars, batchVars, frozen, loopVars, stops, rebalances, retention>>

-----------------------------------------------------------------------------
(* The environment                                                         *)

\* A record is settled: in a verified object, in the DLQ, or not to be archived.
IsSettled(r) == r \in archived \cup rejected \/ Kind[r] = "skip"

processVars == <<consumerVars, ledgerVars, batchVars, frozen, loopVars>>

\* The interval of a buffer elapses.
Age(p) ==
  /\ buffer[p] # {} /\ p \notin aged
  /\ aged' = aged \cup {p}
  /\ UNCHANGED <<kafkaVars, storeVars, consumerVars, ledgerVars, buffer, replaced,
                 frozen, loopVars, boundVars>>

\* A producer appends the next record of the log.
Produce(p) ==
  /\ \E o \in Log[p] :
       /\ high[p] <= o /\ \A e \in Log[p] : high[p] <= e => o <= e
       /\ high' = [high EXCEPT ![p] = o + 1]
  /\ UNCHANGED <<low, committed, member, storeVars, processVars, boundVars>>

\* Retention deletes the oldest record.
Retain(p) ==
  /\ retention < MaxRetention
  /\ low[p] < high[p]
  /\ low' = [low EXCEPT ![p] = @ + 1]
  /\ retention' = retention + 1
  /\ UNCHANGED <<high, committed, member, storeVars, processVars, failures, stops,
                 rebalances>>

\* The group evicts the process: a rebalance, or max.poll.interval.ms has passed.
Evict ==
  /\ member
  /\ rebalances < MaxRebalances
  /\ member' = FALSE
  /\ rebalances' = rebalances + 1
  /\ UNCHANGED <<low, high, committed, storeVars, processVars, failures, stops, retention>>

\* Another mapper of the group, bound by the same promise, settles the next record
\* of a partition this process does not own, and then commits it.
ElsewhereNext(p, o) ==
  /\ committed[p] # None /\ (p \notin owned \/ ~member)
  /\ o \in Log[p]
  /\ committed[p] <= o /\ o < high[p] /\ low[p] <= committed[p]
  /\ \A e \in Log[p] : committed[p] <= e => o <= e

ElsewhereStores(p) ==
  /\ \E o \in Log[p] :
       /\ ElsewhereNext(p, o)
       /\ \/ /\ Kind[<<p, o>>] = "event"
             /\ archived' = archived \cup {<<p, o>>}
             /\ UNCHANGED rejected
          \/ /\ Kind[<<p, o>>] = "reject"
             /\ rejected' = rejected \cup {<<p, o>>}
             /\ UNCHANGED archived
  /\ UNCHANGED <<kafkaVars, processVars, boundVars>>

ElsewhereCommits(p) ==
  /\ \E o \in Log[p] :
       /\ ElsewhereNext(p, o)
       /\ IsSettled(<<p, o>>)
       /\ committed' = [committed EXCEPT ![p] = o + 1]
  /\ UNCHANGED <<low, high, member, storeVars, processVars, boundVars>>

Elsewhere(p) == ElsewhereStores(p) \/ ElsewhereCommits(p)

-----------------------------------------------------------------------------
Rejections ==
  \/ \E r \in todo : RejectionWaits(r) \/ PublishRejectionFails(r) \/ PublishRejection(r)
  \/ LedgerError \/ SettleRejection \/ RejectionsDone

PollRecord(p) ==
  \E o \in Log[p] :
    PollReject(p, o) \/ PollSkip(p, o) \/ PollBuffer(p, o) \/ PollFlushThenBuffer(p, o)

Rebalanced ==
  \/ \E S \in (SUBSET Partitions) \ {{}} : Assign(S) \/ AssignFails(S)
  \/ Revoke \/ RevokeFails

AdvanceFlush ==
  \/ PublishGroup \/ PublishFails \/ PublishGivesUp
  \/ FinishFlush \/ CompleteCommit \/ CompleteCommitFails

Process ==
  \/ FlushTop \/ Rejections \/ PollNothing \/ PollOutOfRange
  \/ \E p \in Partitions : PollRecord(p)
  \/ ExcludeRecord \/ ExcludeFails \/ CommitFenced
  \/ Rebalanced \/ AdvanceFlush

Environment ==
  \/ \E p \in Partitions : Age(p) \/ Produce(p) \/ Retain(p) \/ Elsewhere(p)
  \/ Evict

Next == Process \/ Environment \/ Crash \/ Restart

Spec == Init /\ [][Next]_vars

-----------------------------------------------------------------------------
(* Fairness: the loop runs and poll eventually returns what is due, time    *)
(* passes, the group gives an idle member its partitions and the other      *)
(* mappers serve theirs, Compose restarts a failed process.                *)

Fairness ==
  /\ WF_vars(FlushTop) /\ WF_vars(Rejections) /\ WF_vars(PollNothing)
  /\ WF_vars(ExcludeRecord) /\ WF_vars(CommitFenced) /\ WF_vars(AdvanceFlush)
  /\ \A p \in Partitions : SF_vars(PollRecord(p)) /\ WF_vars(Age(p)) /\ WF_vars(Elsewhere(p))
  /\ SF_vars(Assign(Partitions)) /\ SF_vars(Revoke \/ RevokeFails)
  /\ WF_vars(Restart)

FairSpec == Spec /\ Fairness

-----------------------------------------------------------------------------
(* Properties                                                              *)

PcValues == {"top", "reject", "settle", "poll", "exclude", "down"}

Flushes ==
  [part : Partitions, left : SUBSET Nat, commit : Nat \cup {None}, attempts : Nat, gen : Nat]

\* Every variable has its type, and offsets and records are those of the log.
TypeOK ==
  /\ low \in [Partitions -> Nat] /\ high \in [Partitions -> Nat]
  /\ committed \in [Partitions -> Nat \cup {None}]
  /\ member \in BOOLEAN
  /\ archived \subseteq Records /\ rejected \subseteq Records
  /\ pc \in PcValues /\ then \in {"poll", "top"}
  /\ owned \subseteq Partitions /\ generation \in Nat
  /\ position \in [Partitions -> Nat]
  /\ {observed, resolved, buffer} \subseteq [Partitions -> SUBSET Nat]
  /\ \A p \in Partitions : observed[p] \subseteq Log[p] /\ buffer[p] \subseteq Log[p]
  /\ \A p \in Partitions : resolved[p] \subseteq Log[p]
  /\ aged \subseteq Partitions /\ replaced \subseteq Records
  /\ frozen \in Flushes \cup {NoFlush}
  /\ pending \subseteq Records /\ todo \subseteq pending
  /\ current \in Records \cup {NoRecord}
  /\ {failures, stops, rebalances, retention} \subseteq Nat

\* The offset the group commits never passes a record that is neither archived nor
\* rejected nor excluded: uploads, DLQ publishes and the resolution of the ledger
\* precede every commit, through retries, rebalances and crashes.
CommittedIsSettled ==
  \A r \in Records :
    FirstCommitted[r[1]] <= r[2] /\ r[2] < committed[r[1]] => IsSettled(r)

\* What the process holds in memory is open in the ledger: a record in a buffer or
\* in the frozen flush is observed and unresolved, so no commit can pass it.
HeldIsOpen ==
  /\ \A p \in Partitions : buffer[p] \subseteq Unresolved(p)
  /\ frozen # NoFlush => frozen.left \subseteq Unresolved(frozen.part)

\* Every open offset of the ledger is still held somewhere: in a buffer, in the frozen
\* flush or as a pending rejection.  One that is not stops the commits of its partition
\* for good, and there is one way to lose it: the flush check after a forced flush finds
\* another partition ready and freezes it over the uncommitted flush.
UnresolvedIsHeld ==
  \A p \in owned : \A o \in Unresolved(p) :
    \/ o \in buffer[p]
    \/ frozen.part = p /\ o \in frozen.left
    \/ <<p, o>> \in pending
    \/ <<p, o>> \in replaced

\* A frozen flush belongs to the assignment it was frozen under: the two
\* OwnershipLostErrors of the flush never occur, because rebalance callbacks run
\* only in poll and on_revoke ends a process that holds work.
FrozenIsOwned ==
  /\ frozen # NoFlush => frozen.gen = generation /\ frozen.part \in owned
  /\ \A p \in Partitions \ owned : buffer[p] = {}

\* observe() never sees a duplicate or an older offset: the ledger only holds offsets
\* below the fetch position, also when a partition comes back.
ObserveInOrder ==
  \A p \in owned : \A o \in observed[p] : o < position[p]

\* The ledger of offsets, the buffers, the frozen flush and the assignment agree.
LedgerAgrees == HeldIsOpen /\ UnresolvedIsHeld /\ FrozenIsOwned /\ ObserveInOrder

\* The mapper implements the durable hand-off of the records at and after the offset
\* the group had committed (when there was one).
Handed == {r \in Records : FirstCommitted[r[1]] <= r[2]}

Handoff == INSTANCE DurableHandoff WITH
  Messages <- Handed,
  Exempt <- {r \in Handed : Kind[r] = "skip"},
  owed <- {r \in Handed : committed[r[1]] <= r[2]},
  durable <- (archived \cup rejected) \cap Handed,
  released <- {r \in Handed : r[2] < committed[r[1]]}

ImplementsHandoff == Handoff!Spec

\* run_once spins: the flush is uploaded, but the ledger of its partition begins with an
\* open record (one that a replaced flush held, or a rejection the DLQ has refused), and
\* while a flush is frozen no rejection is tried again and nothing is polled.
Spins ==
  /\ frozen # NoFlush /\ frozen.left = {} /\ frozen.commit = None
  /\ NextOffset(observed[frozen.part], resolved[frozen.part]) = None

\* At or after a record of a replaced flush, which no step resolves any more.
Stranded(r) == \E s \in replaced : s[1] = r[1] /\ s[2] <= r[2]

\* Resolved while the flush of another partition was frozen: _try_commit_ready_prefix
\* has committed nothing, and only a later record of the partition makes up for it.
LeftBehind(r) ==
  /\ r[2] \in resolved[r[1]] /\ \A o \in Unresolved(r[1]) : r[2] < o
  /\ frozen = NoFlush /\ pc # "exclude" /\ r \notin pending

\* Every record that is appended is settled and committed in the end, through transient
\* failures, crashes and rebalances, unless retention deletes records or the mapper is in
\* one of the three states in which it commits the record no more.  The left side stays
\* true: a state that ends (with the process, or by a later record) excuses nothing.
EveryRecordCommitted ==
  \A r \in Records :
    r[2] < high[r[1]] ~> \/ r[2] < committed[r[1]] /\ IsSettled(r)
                         \/ Spins \/ Stranded(r) \/ LeftBehind(r)
                         \/ retention > 0
=============================================================================
