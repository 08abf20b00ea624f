----------------------------- MODULE MCProgress -----------------------------
(* What must eventually happen on the way of a publication, for the three     *)
(* processes that hold it: a behaviour runs one of them (scope) and leaves the *)
(* other two in their initial states.  Each property assumes the fairness of   *)
(* its process, so it says what FairSpec => ... would say of that module.      *)
EXTENDS Historian, TLC

VARIABLES
  scope,
  \* one ingestion shard
  link, backlog, session, sent, acked, lost, pc, connected, connectedOnce,
  generation, ready, halted, pending, pendingRecords, pendingBytes, queue, reports,
  archived, rejected, drops, shardStops, shardFailures,
  \* one lake mapper with a single partition
  lakeLow, lakeHigh, lakeCommitted, member, lakeArchived, lakeRejected, lakePc, then,
  lakeOwned, lakeGeneration, lakePosition, observed, resolved, buffer, lakeAged,
  replaced, frozen, lakePending, todo, current, lakeFailures, lakeStops, lakeRebalances,
  lakeRetention,
  \* one lake mapper with two partitions
  twoLow, twoHigh, twoCommitted, twoMember, twoArchived, twoRejected, twoPc, twoThen,
  twoOwned, twoGeneration, twoPosition, twoObserved, twoResolved, twoBuffer, twoAged,
  twoReplaced, twoFrozen, twoPending, twoTodo, twoCurrent, twoFailures, twoStops,
  twoRebalances, twoRetention

shard == <<link, backlog, session, sent, acked, lost, pc, connected, connectedOnce,
           generation, ready, halted, pending, pendingRecords, pendingBytes, queue,
           reports, archived, rejected, drops, shardStops, shardFailures>>
lake == <<lakeLow, lakeHigh, lakeCommitted, member, lakeArchived, lakeRejected, lakePc,
          then, lakeOwned, lakeGeneration, lakePosition, observed, resolved, buffer,
          lakeAged, replaced, frozen, lakePending, todo, current, lakeFailures, lakeStops,
          lakeRebalances, lakeRetention>>
lakes == <<twoLow, twoHigh, twoCommitted, twoMember, twoArchived, twoRejected, twoPc,
           twoThen, twoOwned, twoGeneration, twoPosition, twoObserved, twoResolved,
           twoBuffer, twoAged, twoReplaced, twoFrozen, twoPending, twoTodo, twoCurrent,
           twoFailures, twoStops, twoRebalances, twoRetention>>
historian == vars

-----------------------------------------------------------------------------
\* Ordinary traffic, a message that the shard ignores, and a heartbeat that keeps
\* on_message being called.
LiveMessages == {"e1", "skip", "plat", "beat"}
LiveKind == [m \in LiveMessages |->
  CASE m \in {"skip", "beat"} -> "excluded" [] m = "plat" -> "platform" [] OTHER -> "event"]
LiveQos == [m \in LiveMessages |-> IF m = "beat" THEN 0 ELSE 1]

I == INSTANCE Ingestion WITH
  Messages <- LiveMessages, Kind <- LiveKind, Qos <- LiveQos,
  Size <- [m \in LiveMessages |-> 1], Periodic <- {"beat"}, NoMsg <- "none",
  ReceiveMaximum <- 2, PendingRecordLimit <- 4, PendingByteLimit <- 4, QueueLimit <- 4,
  MaxDrops <- 1, MaxStops <- 1, MaxFailures <- 0,
  stops <- shardStops, failures <- shardFailures

\* One partition: an event, a record that is rejected, and an event that no longer fits in
\* the buffer of the first; the second flush may freeze before a rejection refused twice.
LakeRecords == {0} \X (0 .. 2)

L == INSTANCE LakeMapper WITH
  Partitions <- {0}, Log <- [p \in {0} |-> 0 .. 2],
  Kind <- [r \in LakeRecords |-> IF r[2] = 1 THEN "reject" ELSE "event"],
  Route <- [r \in LakeRecords |-> 1], Size <- [r \in LakeRecords |-> 2],
  FirstCommitted <- [p \in {0} |-> 0], FirstHigh <- [p \in {0} |-> 1],
  InitialPosition <- "require_committed",
  MaxRecords <- 2, MaxBytes <- 3, MaxGroups <- 2, WorkerMaxBytes <- 3, MaxAttempts <- 2,
  MaxFailures <- 2, MaxStops <- 1, MaxRebalances <- 1, MaxRetention <- 0,
  low <- lakeLow, high <- lakeHigh, committed <- lakeCommitted, archived <- lakeArchived,
  rejected <- lakeRejected, pc <- lakePc, owned <- lakeOwned, generation <- lakeGeneration,
  position <- lakePosition, aged <- lakeAged, pending <- lakePending,
  failures <- lakeFailures, stops <- lakeStops, rebalances <- lakeRebalances,
  retention <- lakeRetention

\* Two partitions: a rejection that may be resolved while the flush of the other partition
\* is frozen, and two events of which the second one fills a buffer alone, so that its
\* forced flush is replaced.
TwoRecords == {<<0, 0>>, <<0, 1>>, <<0, 2>>, <<1, 0>>}

T == INSTANCE LakeMapper WITH
  Partitions <- {0, 1}, Log <- [p \in {0, 1} |-> IF p = 0 THEN 0 .. 2 ELSE {0}],
  Kind <- [r \in TwoRecords |-> IF r = <<0, 0>> THEN "reject" ELSE "event"],
  Route <- [r \in TwoRecords |-> 1],
  Size <- [r \in TwoRecords |-> IF r[2] = 2 THEN 3 ELSE 2],
  FirstCommitted <- [p \in {0, 1} |-> 0], FirstHigh <- [p \in {0, 1} |-> 1],
  InitialPosition <- "require_committed",
  MaxRecords <- 2, MaxBytes <- 3, MaxGroups <- 2, WorkerMaxBytes <- 6, MaxAttempts <- 2,
  MaxFailures <- 1, MaxStops <- 0, MaxRebalances <- 0, MaxRetention <- 0,
  low <- twoLow, high <- twoHigh, committed <- twoCommitted, member <- twoMember,
  archived <- twoArchived, rejected <- twoRejected, pc <- twoPc, then <- twoThen,
  owned <- twoOwned, generation <- twoGeneration, position <- twoPosition,
  observed <- twoObserved, resolved <- twoResolved, buffer <- twoBuffer, aged <- twoAged,
  replaced <- twoReplaced, frozen <- twoFrozen, pending <- twoPending, todo <- twoTodo,
  current <- twoCurrent, failures <- twoFailures, stops <- twoStops,
  rebalances <- twoRebalances, retention <- twoRetention

\* The historian: two late events of one day, and one fault: a failure or a crash.
OnePartition == {0}
TwoLog == [p \in {0} |-> 0 .. 1]
AllEvents == [r \in Records |-> "event"]
UnitSize == [r \in Records |-> 1]
OneDay == [r \in Records |-> 1]
OwnId == [r \in Records |-> <<r[2], r[2]>>]
AllLate == Records
OneFault == failures' + stops' <= 1

-----------------------------------------------------------------------------
AllInit ==
  /\ scope \in {"shard", "lake", "lakes", "historian"}
  /\ I!Init /\ L!Init /\ T!Init /\ Init

AllNext ==
  /\ UNCHANGED scope
  /\ \/ scope = "shard" /\ I!Next /\ UNCHANGED <<lake, lakes, historian>>
     \/ scope = "lake" /\ L!Next /\ UNCHANGED <<shard, lakes, historian>>
     \/ scope = "lakes" /\ T!Next /\ UNCHANGED <<shard, lake, historian>>
     \/ scope = "historian" /\ Next /\ OneFault /\ UNCHANGED <<shard, lake, lakes>>

AllSpec == AllInit /\ [][AllNext]_<<scope, shard, lake, lakes, historian>>

\* With recurring traffic, a Kafka that accepts and budgets that suffice, every QoS 1
\* message is stored and acknowledged in spite of a reconnect and a restart.
EveryMessageReleased ==
  scope = "shard" => (I!Fairness => I!EveryMessageReleased)

\* Every record below the high watermark is settled and committed, through failures, a
\* crash and a rebalance, unless the mapper spins or has stranded or left it behind.
EveryRecordCommitted ==
  /\ scope = "lake" => (L!Fairness => L!EveryRecordCommitted)
  /\ scope = "lakes" => (T!Fairness => T!EveryRecordCommitted)

\* Late days are refreshed in the end, however many generations arrive meanwhile.
LateDaysAreRefreshed ==
  scope = "historian" => (Fairness => LateDaysRefreshed)
=============================================================================
