------------------------------ MODULE EdgeSpool ------------------------------
(* The OPC UA edge connector (src/10_uns_opcua): collectors put the data      *)
(* changes of their servers into one bounded queue, a single writer moves     *)
(* batches of the queue into a SQLite file bounded by rows, bytes and age, and *)
(* a forwarder publishes the oldest rows to the broker and deletes what was   *)
(* acknowledged.  Every SQLite call runs in a thread under one lock, so a call *)
(* is one step and the steps of writer and forwarder interleave between calls. *)
(*                                                                           *)
(* A row of the file is <<id, tag, n>>: the n-th change of a tag.  One row     *)
(* fills one database page.                                                  *)
EXTENDS Integers, Sequences, FiniteSets

CONSTANTS
  Tags,           \* configured nodes; each has a topic of its own (find_conflicts)
  Servers,        \* OPC UA servers
  ServerOf,       \* the server of a tag
  Answer,         \* what the server says to a tag's monitored item:
                  \*   "ok", "deadband" (refuses the filter), "refused", "unparsable"
  Filtered,       \* tags configured with a deadband
  QueueSize,      \* queue_maxsize
  WriteBatch,     \* SpoolWriter batch_size
  ForwardBatch,   \* forward_batch_size
  MaxRows,        \* spool.max_rows
  MaxPages,       \* spool.max_bytes, in pages
  ChunkDivisor,   \* the byte trim drops a tenth of the rows at a time
  MaxChanges,     \* bound: changes, by tag
  MaxFaults       \* bound: failing SQLite calls, outages, reloads and crashes

\* The settings are read with int(), and the tags are a list.
ASSUME SizesAssumption ==
  /\ IsFiniteSet(Tags) /\ MaxChanges \in [Tags -> Nat \ {0}]
  /\ {QueueSize, WriteBatch, ForwardBatch} \subseteq Nat

VARIABLES
  plant,      \* the newest change of each tag at its server
  session,    \* servers whose subscription is up
  queue,      \* asyncio.Queue of changes
  writer,     \* [at, rows, trimmed]: where drain_once is, the batch it took
  spool,      \* rows on disk
  lastId,     \* sqlite_sequence of the AUTOINCREMENT key
  pages,      \* PRAGMA page_count; pages no row uses are on the free list
  forwarder,  \* [at, batch, acked, failed]
  shown,      \* the change the broker retains for each tag
  published,  \* rows the broker has received, by identifier
  dropped,    \* changes given up: full queue, trim, failed write, restart
  faults      \* faults so far

vars == <<plant, session, queue, writer, spool, lastId, pages, forwarder,
          shown, published, dropped, faults>>
diskVars == <<spool, lastId, pages>>
brokerVars == <<shown, published>>

Changes == UNION {{t} \X (1 .. MaxChanges[t]) : t \in Tags}
Change(row) == <<row[2], row[3]>>
ChangesOf(rows) == {Change(r) : r \in rows}
InQueue == {queue[i] : i \in 1 .. Len(queue)}
InWriter == {writer.rows[i] : i \in 1 .. Len(writer.rows)}

IdleWriter == [at |-> "idle", rows |-> <<>>, trimmed |-> FALSE]
DownForwarder == [at |-> "down", batch |-> {}, acked |-> 0, failed |-> FALSE]

Init ==
  /\ plant = [t \in Tags |-> 1]
  /\ session = {}
  /\ queue = <<>>
  /\ writer = IdleWriter
  /\ spool = {} /\ lastId = 0 /\ pages = 0
  /\ forwarder = DownForwarder
  /\ shown = [t \in Tags |-> 0]
  /\ published = {} /\ dropped = {}
  /\ faults = 0

Fault == faults < MaxFaults /\ faults' = faults + 1

------------------------------------------------------------------------------
(* The plant and the collectors.                                             *)

\* The items a server accepts: a rejected item is asked for once more without
\* its deadband, when it had one.
Accepted(s) ==
  {t \in Tags : /\ ServerOf[t] = s
                /\ \/ Answer[t] = "ok"
                   \/ Answer[t] = "deadband" /\ t \in Filtered}
Usable(s) == {t \in Tags : ServerOf[t] = s /\ Answer[t] # "unparsable"}

Over(all) == IF Len(all) > QueueSize THEN Len(all) - QueueSize ELSE 0
FaultPushed(all) == SubSeq(all, 1, Len(all) - Over(all))

\* enqueue_drop_oldest for each of some changes put behind those in the queue: a full
\* queue gives up its oldest.
Pushed(all) == SubSeq(all, Over(all) + 1, Len(all))
PushedOut(all) == {all[i] : i \in 1 .. Over(all)}
Enqueue(new) ==
  /\ queue' = Pushed(queue \o new)
  /\ dropped' = dropped \union PushedOut(queue \o new)

\* A value changes at its server; a subscription that is up notifies it.
DataChange(t) ==
  /\ plant[t] < MaxChanges[t]
  /\ plant' = [plant EXCEPT ![t] = @ + 1]
  /\ IF ServerOf[t] \in session /\ t \in Accepted(ServerOf[t])
       THEN Enqueue(<<<<t, plant'[t]>>>>)
       ELSE UNCHANGED <<queue, dropped>>
  /\ UNCHANGED <<session, writer, diskVars, forwarder, brokerVars, faults>>

\* The monitored items of a server in some fixed order, that of its tags.
Items(s) == CHOOSE f \in [1 .. Cardinality(Accepted(s)) -> Accepted(s)] :
              \A i, j \in DOMAIN f : i # j => f[i] # f[j]
Current(t) == <<t, plant[t]>>

\* Collector.connect_once: a new monitored item delivers its current value at once.
Connect(s) ==
  /\ s \notin session
  /\ Usable(s) # {}
  /\ session' = session \union {s}
  /\ Enqueue([i \in 1 .. Cardinality(Accepted(s)) |-> Current(Items(s)[i])])
  /\ UNCHANGED <<plant, writer, diskVars, forwarder, brokerVars, faults>>

\* check_connection raises: the collector drops the session and connects again.
SessionLost(s) ==
  /\ s \in session
  /\ Fault
  /\ session' = session \ {s}
  /\ UNCHANGED <<plant, queue, writer, diskVars, forwarder, brokerVars, dropped>>

------------------------------------------------------------------------------
(* The spool file.                                                           *)

FreePages == pages - Cardinality(spool)
FaultNextId == IF spool = {} THEN 1 ELSE 1 + CHOOSE m \in {r[1] : r \in spool} :
                                             \A r \in spool : r[1] <= m
NextId == lastId + 1

\* peek: the oldest rows, at most a forward batch of them.
Oldest(rows, k) == {r \in rows : Cardinality({q \in rows : q[1] <= r[1]}) <= k}

\* What stays after the bounds on age and on rows.  Rows are spooled in the order
\* of their times, so those older than max_age_hours are some oldest part.
Young(expired) == spool \ Oldest(spool, expired)
WithinRows(rows) == rows \ Oldest(rows, Cardinality(rows) - MaxRows)

\* One turn of the byte trim drops a tenth of the n rows that are left and then runs
\* one step of incremental_vacuum, which returns a single free page.
Tenth(n) == IF n < ChunkDivisor THEN 1 ELSE n \div ChunkDivisor
WithinPages(rows, size) ==
  LET n == Cardinality(rows)
      left[i \in 0 .. n] ==
        IF i = 0 THEN n ELSE IF left[i - 1] = 0 THEN 0 ELSE left[i - 1] - Tenth(left[i - 1])
      turns == CHOOSE i \in 0 .. n :
                 /\ size - i <= MaxPages \/ left[i] = 0
                 /\ \A j \in 0 .. i - 1 : size - j > MaxPages /\ left[j] > 0
  IN <<rows \ Oldest(rows, n - left[turns]), size - turns>>

------------------------------------------------------------------------------
(* SpoolWriter.drain_once.                                                   *)

Take ==
  /\ writer.at = "idle" /\ queue # <<>>
  /\ LET k == IF Len(queue) < WriteBatch THEN Len(queue) ELSE WriteBatch
     IN /\ writer' = [writer EXCEPT !.at = "writing", !.rows = SubSeq(queue, 1, k)]
        /\ queue' = SubSeq(queue, k + 1, Len(queue))
  /\ UNCHANGED <<plant, session, diskVars, forwarder, brokerVars, dropped, faults>>

\* enqueue: the whole batch in one transaction, on free pages first.
Written == {<<NextId + i - 1, writer.rows[i][1], writer.rows[i][2]>> : i \in 1 .. Len(writer.rows)}
Stored ==
  /\ spool' = spool \union Written
  /\ lastId' = NextId + Len(writer.rows) - 1
  /\ pages' = IF FreePages >= Len(writer.rows) THEN pages
              ELSE pages + Len(writer.rows) - FreePages

\* The first batch of a process is always followed by a trim, a later one when
\* the trim interval is over.
Store ==
  /\ writer.at = "writing"
  /\ Stored
  /\ \E next \in IF writer.trimmed THEN {"idle", "trimming"} ELSE {"trimming"} :
       writer' = [writer EXCEPT !.at = next, !.rows = <<>>]
  /\ UNCHANGED <<plant, session, queue, forwarder, brokerVars, dropped, faults>>

\* A failed transaction is rolled back and its batch is lost.
StoreFails ==
  /\ writer.at = "writing"
  /\ Fault
  /\ dropped' = dropped \union InWriter
  /\ writer' = [writer EXCEPT !.at = "idle", !.rows = <<>>]
  /\ UNCHANGED <<plant, session, queue, diskVars, forwarder, brokerVars>>

Trim ==
  /\ writer.at = "trimming"
  /\ \E expired \in 0 .. Cardinality(spool) :
       LET result == WithinPages(WithinRows(Young(expired)), pages)
       IN spool' = result[1] /\ pages' = result[2]
  /\ dropped' = dropped \union ChangesOf(spool \ spool')
  /\ writer' = [writer EXCEPT !.at = "idle", !.trimmed = TRUE]
  /\ UNCHANGED <<plant, session, queue, lastId, forwarder, brokerVars, faults>>

------------------------------------------------------------------------------
(* Forwarder.run and forward_batch.                                          *)

BrokerUp ==
  /\ forwarder.at = "down"
  /\ forwarder' = [DownForwarder EXCEPT !.at = "idle"]
  /\ UNCHANGED <<plant, session, queue, writer, diskVars, brokerVars, dropped, faults>>

FaultBatch == {r \in spool : Cardinality({q \in spool : q[1] >= r[1]}) <= ForwardBatch}
Batch == Oldest(spool, ForwardBatch)

Peek ==
  /\ forwarder.at = "idle" /\ spool # {}
  /\ forwarder' = [at |-> "publishing", batch |-> Batch,
                   acked |-> 0, failed |-> FALSE]
  /\ UNCHANGED <<plant, session, queue, writer, diskVars, brokerVars, dropped, faults>>

FaultNextRow == CHOOSE r \in forwarder.batch : \A q \in forwarder.batch : r[1] >= q[1]
NextRow == CHOOSE r \in forwarder.batch : \A q \in forwarder.batch : r[1] <= q[1]

Received(row) ==
  /\ shown' = [shown EXCEPT ![row[2]] = row[3]]
  /\ published' = published \union {row[1]}

\* The broker acknowledges the oldest row of the batch that is left.
Publish ==
  /\ forwarder.at = "publishing" /\ forwarder.batch # {}
  /\ Received(NextRow)
  /\ forwarder' = [forwarder EXCEPT !.batch = @ \ {NextRow}, !.acked = NextRow[1]]
  /\ UNCHANGED <<plant, session, queue, writer, diskVars, dropped, faults>>

\* The publication raises; the broker may have received the message all the same.
PublishFails ==
  /\ forwarder.at = "publishing" /\ forwarder.batch # {}
  /\ Fault
  /\ Received(NextRow) \/ UNCHANGED brokerVars
  /\ forwarder' = [forwarder EXCEPT !.at = IF forwarder.acked = 0 THEN "down" ELSE "deleting",
                                    !.batch = {}, !.failed = TRUE]
  /\ UNCHANGED <<plant, session, queue, writer, diskVars, dropped>>

\* delete_through, in the finally clause: up to the last acknowledged row.
FaultKept(through) == spool \ Oldest(spool, ForwardBatch)
Kept(through) == {r \in spool : r[1] > through}
Deleted ==
  /\ spool' = IF forwarder.acked = 0 THEN spool ELSE Kept(forwarder.acked)
  /\ UNCHANGED <<lastId, pages>>

Delete ==
  /\ \/ forwarder.at = "publishing" /\ forwarder.batch = {}
     \/ forwarder.at = "deleting"
  /\ Deleted
  /\ forwarder' = [DownForwarder EXCEPT !.at = IF forwarder.failed THEN "down" ELSE "idle"]
  /\ UNCHANGED <<plant, session, queue, writer, brokerVars, dropped, faults>>

\* peek or delete_through raises: the connection is closed and opened again.
SpoolFails ==
  /\ forwarder.at # "down"
  /\ Fault
  /\ forwarder' = DownForwarder
  /\ UNCHANGED <<plant, session, queue, writer, diskVars, brokerVars, dropped>>

------------------------------------------------------------------------------
(* run_connector ends: its queue and its tasks are gone, the file stays.       *)

Fresh ==
  /\ session' = {} /\ queue' = <<>>
  /\ writer' = IdleWriter /\ forwarder' = DownForwarder

\* Cancelled tasks: a write whose thread still runs commits before the file is
\* closed or not at all, and the forwarder deletes what it has acknowledged.
Reload ==
  /\ \/ Fault
     \/ writer.at = "trimming" /\ Fault  \* nothing catches a failing trim
  /\ Fresh
  /\ \/ /\ writer.at = "writing"
        /\ dropped' = dropped \union InQueue
        /\ spool' = (IF forwarder.acked = 0 THEN spool ELSE Kept(forwarder.acked)) \union Written
        /\ lastId' = NextId + Len(writer.rows) - 1
        /\ pages' = IF FreePages >= Len(writer.rows) THEN pages
                    ELSE pages + Len(writer.rows) - FreePages
     \/ /\ dropped' = dropped \union InQueue \union InWriter
        /\ Deleted
  /\ UNCHANGED <<plant, brokerVars>>

\* The process dies: nothing runs any more, not the finally clause either.
Crash ==
  /\ Fault
  /\ Fresh
  /\ dropped' = dropped \union InQueue \union InWriter
  /\ UNCHANGED <<plant, diskVars, brokerVars>>

Next ==
  \/ \E t \in Tags : DataChange(t)
  \/ \E s \in Servers : Connect(s) \/ SessionLost(s)
  \/ Take \/ Store \/ StoreFails \/ Trim
  \/ BrokerUp \/ Peek \/ Publish \/ PublishFails \/ Delete \/ SpoolFails
  \/ Reload \/ Crash

Spec == Init /\ [][Next]_vars

\* The event loop runs some task whenever one can run; reconnection loops for ever
\* with a bounded back-off.  Every such step is progress, so no more is needed.
Work ==
  \/ \E s \in Servers : Connect(s)
  \/ Take \/ Store \/ Trim
  \/ BrokerUp \/ Peek \/ Publish \/ Delete

Fairness == WF_vars(Work)
FairSpec == Spec /\ Fairness

------------------------------------------------------------------------------
(* Properties.                                                               *)

\* Row identifiers are never used twice and pages are accounted for.
TypeOK ==
  /\ \A t \in Tags : plant[t] \in 1 .. MaxChanges[t]
  /\ session \subseteq Servers
  /\ queue \in Seq(Changes) /\ Len(queue) <= QueueSize
  /\ writer.at \in {"idle", "writing", "trimming"} /\ writer.rows \in Seq(Changes)
  /\ \A r \in spool : r[1] \in 1 .. lastId /\ Change(r) \in Changes
  /\ \A r, q \in spool : r[1] = q[1] => r = q
  /\ pages >= Cardinality(spool)
  /\ forwarder.at \in {"down", "idle", "publishing", "deleting"}
  /\ forwarder.acked \in 0 .. lastId
  /\ published \subseteq 1 .. lastId /\ dropped \subseteq Changes

\* A change a collector has queued reaches the file unless it is given up, and a
\* row leaves the file only when it was published or is given up: delete_through
\* works on an identifier read before trims and writes of the other task, and
\* removes nothing else.
NothingVanishes ==
  [][/\ (InQueue \union InWriter) \ (InQueue' \union InWriter')
          \subseteq ChangesOf(spool') \union dropped'
     /\ \A r \in spool \ spool' : r[1] \in published \/ Change(r) \in dropped']_vars

\* What a crash or a lost connection makes the forwarder publish again is the
\* oldest part of the file and at most one batch.
ReplayIsOneBatch == {r \in spool : r[1] \in published} \subseteq Oldest(spool, ForwardBatch)

\* A row is published for the first time only while no newer row has been: a
\* draining backlog never overtakes, and is never overtaken by, fresh values.
FirstPublicationInOrder ==
  [][\A i \in published' \ published : \A j \in published : j < i]_vars

\* Once the plant rests, the broker shows the newest value of every tag that the
\* server accepts, unless that very change was given up.
NewestArrives ==
  \A t \in Tags :
    t \in Accepted(ServerOf[t]) =>
      <>[](shown[t] = plant[t] \/ <<t, plant[t]>> \in dropped)
=============================================================================
