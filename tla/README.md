# Specifications of the UNS platform

This directory holds TLA+ models of the platform's services, the TLC runs that
check them, and TLAPS proofs about them.  Every definition is translated from the
Python source named beside it in `PROJECT.json` (`map`), and every property says in
its comment which behaviour of the code it is about.

Contents

1. The system and its components
2. What is modelled, and how it corresponds to the code
3. The runs, their bounds and the fairness they assume
4. What is proved, and how
5. What only TLC checks
6. Disagreements between the code and its documents
7. What is not modelled
8. Plan

To repeat the checks: `tlc -config X.cfg M` for each run of section 3, and
`tlapm M.tla` for `OffsetLemmas` and the modules whose names end in `Proofs`.

## 1. The system and its components

The platform takes publications from an MQTT broker and makes them a replayable
history.  The hops of the history pipeline are

```
devices -> MQTT broker -> ingestion shard (06) -> Kafka uns.historic-events
                                                     |-> historian (04)   -> TimescaleDB
                                                     |-> lake mapper (14) -> object store
                                                     `-> dead-letter topics
```

and around them stand the Sparkplug mapper (05), the graph database writer (03), the
GraphQL service (07), the asset model (09), the OPC UA edge (10), the OEE engine (12),
the factory copilot (13) and the web console (11).

Each hop is a process (or a few) with its own idea of what it has accepted from the
hop before it: an MQTT packet identifier, a Kafka offset, a checkpoint row.  The
promise that makes the pipeline correct is the same everywhere (ADR-0011): a hop gives
up a message to its upstream only after the message is durable downstream.  What makes
it hard is that the acceptance, the storage and the acknowledgment are separate calls,
made by callbacks of several threads, and any of them may fail, time out with an
unknown outcome, be repeated, or be overtaken by a reconnect, a rebalance or a crash.

| Component | State | Operations | Hard behaviour | What makes it correct |
|---|---|---|---|---|
| Ingestion shard (06 `ingest.py`, `uns_kafka_listener.py`, `kafka_handler.py`) | Paho session, `IngestionOwner._pending`, record and byte budget, `connection_generation`, `ready`, `halted`, librdkafka queue | `on_connect`, `on_disconnect`, `on_message`, `ingest_*`, `complete_delivery`, poll and flush, `shutdown` | delivery reports that are served after a reconnect, packet identifiers that are used again, `BufferError` after a reservation, halting, crashes with deliveries pending | PUBACK only after the Kafka report of that very message; budgets exact; no message is stuck |
| Envelopes, routes, rejections (00 `events.py`, `publication*.py`, 06 `rejections.py`, 14 `routing.py`) | none | decode, route, build, hash, key, reject | two routes for a topic, two envelope versions, redelivery, timestamps in two units | one route per topic; a redelivery is the same row; what comes back is what was published |
| Lake mapper (14 `mapper.py`, `checkpoint.py`, `batch.py`, `replay.py`) | ledger per partition, buffers, frozen flush, pending rejections, ownership generation | `run_once`: freeze, reject, poll, upload and verify, commit; assignment and revocation | out-of-order resolution, retries, rebalance and eviction with work held, retention, crash between upload and commit | no commit passes an unsettled record; nothing open is forgotten; every record is committed in the end |
| Historian (04 `kafka_consumer.py`, `batch.py`, `historian_handler.py`) | batch collector, tasks of an asyncio loop, poll thread, pause state, SQL checkpoints | poll, collect, flush, `persist_batch`, ignored records, Kafka commit, reconcile on assignment, revoke | two threads without a lock, batches of a former owner, lost answers of a commit, Kafka and SQL as two stores of one position | checkpoint passes only handled records and never moves back; Kafka behind SQL; metrics match raw rows |
| Aggregate refresh (04 `aggregate_refresh.py`) | `late_refresh_worklist` generations | claim, refresh, mark | several refreshes of one day, rows that arrive during one, failures | a processed day covers all its late rows |
| Sparkplug codec and mapper (02, 05) | alias tables of the devices and of the mapper, retained messages | birth, data, death, publish | a birth that is lost, restarts of either side, several topics from one message | a value is published under the name its birth gave it, with the value it meant |
| Graph writer and graph queries (03, 07 `queries/graph.py`) | Neo4j nodes and relations | merge per message, retry, query by topic, property, metric | attribute nodes that are found again, retries, messages of one topic with other parts | a query answers with the newest value of each attribute, where it was published |
| Live events (07 `event_stream.py`, `auth/scope.py`, 09 `asset_context.py`) | registrations, client queues, budgets, resolver cache | register, fan out, resync, leave | slow clients, full queues, reassignment, edits of the model | a client misses nothing it is not told of and sees only its scope |
| Signing keys (07 `auth/jwks.py`) | cached keys | ask, wait, fetch | requests that arrive together after a rotation, an unreachable realm | one fetch serves all who wait |
| Connectivity catalog (07 `mutations/connectivity.py`, 09 `connectivity.py`, 00 `hivemq_edge_*`) | servers, tags, `config.xml`, the running broker | save, update, unsubscribe, delete, probe, discover, live apply | concurrent transactions, file and broker outside of them | engineers' edits survive; a status never hides a broker that runs something else |
| OPC UA connector (10) | supervisor, collection queue, SQLite spool, forwarder | load, reload, collect, spool, trim, forward | stamps out of commit order, full queue, trim between peek and delete, crash between publish and delete | the connector ends up with the catalog; a spooled row is deleted only after publication or by retention |
| Plant hierarchy (07 `mutations/hierarchy.py`, 09 `seed.py`, `hierarchy*.py`) | tree file, assets, access groups, job file, stored topics | save, reseed, rename in historian and graph, retry | many transactions for one save, two stores that rename separately, restarts | assets are those of the tree; a rename is dropped only when both stores have moved |
| Topic binding (09 `topic_binder.py`, `notifications.py`) | bindings, an LRU per historian, listeners | edit, rebind, announce, bind, forget | binds in flight while the cache is dropped, lost notices | a stale binding is going to be corrected |
| OEE master data (09 `oee_seed.py`, `oee_master_data.py`, 12 `master_data.py`) | tables of units, products, patterns, rules | import, reconcile, load | imports that die halfway, a load between transactions | the engine calculates with what the files say |
| OEE engine (12) | results with revisions, downtime events, requests | pass, save, publish, mark, claim, complete | operators and a second engine beside a pass, crash between commit and publication | revisions without gap, only what was sent is marked, a reason reaches its result |
| OEE calculations (12 `states.py`, `counters.py`, `oee_calc.py`, `shift_calendar.py`) | none | intervals, counters, segments, windows | overlapping stops, counter restarts, missing boundary samples, changes of the clock | each instant and each part counts once |
| Factory copilot (13) | conversations in Postgres or in memory | ask, answer, load, delete; lookups of a playbook | concurrent turns, deletion under a turn, more messages than are loaded, several limits and scopes | answers have questions; the model is told what is in focus and in scope |
| Web console, observability, deployment (11, 08, 01, scripts) | none that services share | | | |

Interactions.  The ingestion shard and the two consumers share only the Kafka topic:
offsets are assigned there, so the consumers never wait for each other, and live events
read the same topic without a group of their own.  The historian and the asset model
share the database; the binder observes topics after a batch was written, which has no
influence on delivery.  The connector publishes to the broker as any device; the
connectivity mutations write the tables it polls and the file and the adapters of
HiveMQ Edge.  A hierarchy save rewrites the stores of historian and graph.  The OEE
engine reads the historian's tables and the master data and publishes through the broker.

The complete list of components, with the files of each, is `components` of
`PROJECT.json`; the hazards of the code, each at the line where it bites, are
`hazards` there.

## 2. What is modelled, and how it corresponds to the code

| Module | What it is |
|---|---|
| `DurableHandoff` | the abstract promise of one hop: `Persist`, `Release`, `Accept`, `Forget` |
| `Ingestion` | one MQTT to Kafka shard with the broker session and the producer |
| `LakeMapper` | one Kafka to object store mapper with its group and its stores |
| `Historian` | the processes of the historian group with Kafka and the database |
| `Publications` | what becomes of one or two deliveries: routes, envelopes, identities, keys |
| `SparkplugCodec`, `Sparkplug` | values and fields; devices, wire, mapper, topics |
| `GraphStore` | the graph, its writer and the queries over it |
| `LiveEvents`, `SigningKeys` | the live stream of the GraphQL service; its key cache |
| `ConnectivityCatalog` | console mutations, `config.xml`, the broker, the connector's supervisor |
| `EdgeSpool` | collectors, queue, writer, SQLite spool, forwarder |
| `PlantHierarchy` | the save of a hierarchy and its rename job |
| `TopicBinding` | bindings, binder caches, listeners |
| `AssetPaths` | prefixes of a path and the deepest Asset of a topic, for the two modules before |
| `OeeMasterData`, `OeeEngine`, `OeeShift` | import and load; passes, results, requests; the arithmetic of a shift |
| `CopilotChat`, `CopilotPlaybook` | a conversation and its store; the lookups of a question |
| `OffsetLemmas`, `IngestionProofs`, `LakeMapperProofs`, `HistorianProofs`, `OeeEngineProofs`, `EdgeProofs`, `CatalogProofs`, `ServicesProofs` | lemmas, theorems and proofs |
| `MCIngestion`, `MCLakeMapper`, `MCHistorian`, `MCOeeEngine` | small messages, topics, groups and shifts for TLC |
| `MCProgress`, `MCEdge`, `MCServices` | several modules side by side, one of them per behaviour (section 3) |

`Ingestion`, `LakeMapper` and `Historian` contain an instance of `DurableHandoff` under a
refinement mapping (`Handoff`) and the property `ImplementsHandoff`.  Definitions named
`Fault...` are plausible bugs: no action uses them, they serve to show that a property
can fail.  Modules whose code has no state of its own (`Publications`, `OeeShift`,
`CopilotPlaybook`, `SparkplugCodec`) have one variable, the question that is asked, and
operators translated from the code; their properties compare these with a reference
definition written from sets of instants, of rows or of deliveries.

### DurableHandoff

`owed` is what the upstream still holds, `durable` what is stored downstream, and
`released` what the upstream gave up.  A message is released only if it is durable or
exempt from being stored.  `Accept` is the hop that keeps its position beside the data
and moves both in one transaction (the historian); `Forget` is the upstream losing
messages by itself (an expired MQTT session), which the promise does not cover.
Storing twice is allowed: every hop is at-least-once.

### Ingestion

One network thread runs every callback, and librdkafka serves delivery reports only
while that thread is in `poll()` or `flush()`; `pc` says where it is (`idle` in the
MQTT loop, `polling` after `on_message`, `flushing` in `on_disconnect`, `draining` in
`main()`'s `finally`).

| In the model | In the code |
|---|---|
| `Connect`, `OnDisconnect` | `on_connect` with `connection_generation`, `on_disconnect` with `flush(1)` |
| `IgnorePlatform` ... `Admit` | the outcomes of `on_message` for QoS 1: early returns, `_resolve_ingress`, `_reserve_pending`, `_begin_delivery` |
| `DropQos0`, `PublishQos0`, `Qos0BufferError` | `ingest_qos0` |
| `KafkaAccept`, `KafkaFail` | the broker's verdict; a failure may have stored the record |
| `CompleteDelivery`, `ServeQos0` | `complete_delivery`, the empty callback |
| `Interrupt`, `FinishDrain`, `Crash`, `Restart` | `KeyboardInterrupt`, the drain of `main()`, the end of the process, Compose |

A message carries the decision `_resolve_ingress` takes about it (`Kind`): an event, an
invalid one (dead-letter topic), one whose route excludes it, one under `uns/platform/`,
one too large even for the dead-letter topic.  External: the broker keeps a session,
sends each unacknowledged message again after a reconnect under its packet identifier,
may lose the session, and uses freed identifiers again; the producer queue is bounded;
there is one report per record.  `_MqttAckAdapter` is taken to acknowledge what it is
asked to.

Not represented: SIGTERM (the program installs no handler, the process ends as in
`Crash`), `health_check.py` (a process of its own, which never sees the readiness of
the shard), partition numbers.

### LakeMapper

One thread repeats `run_once`.  `pc` names the call the thread is about to make that
leaves the process: `reject` and `settle` inside `_try_advance_rejections`, `poll`,
`exclude` for the commit of an excluded record, `top` for the beginning of `run_once`,
where a frozen flush is advanced.  Between two steps the environment may act: records
arrive and are deleted, buffers age, the group evicts the process, another mapper goes
on with partitions that are not owned here.

| In the model | In the code |
|---|---|
| `FlushTop`, `FlushReady`, `Freeze` | `_flush_ready_partitions`, `choose_flush_partition`, `_freeze_partition` |
| `RejectionWaits`, `PublishRejection`, `SettleRejection`, `LedgerError` | `_try_advance_rejections`, `_rejection_blocked`, the `ValueError` of `resolve()` |
| `PollReject`, `PollSkip`, `PollBuffer`, `PollFlushThenBuffer` | the outcomes of `_handle_message` |
| `PublishGroup`, `PublishFails`, `PublishGivesUp`, `FinishFlush`, `CompleteCommit` | `_advance_frozen_flush`, `_complete_commit` |
| `Assign`, `Revoke`, `RevokeFails`, `ChooseStart` | `_assign_with_replay_policy`, `on_assign`, `on_revoke`, `choose_start` |
| `NextOffset`, `Discard` | `ConsumedPrefix.next_offset`, `discard_committed` |

Simplifications: rebalances are eager (the default assignor of the client); the
pending rejections and the records of a buffer are sets taken in offset order, which is
the order of the lists in the code; "the oldest buffer" under memory pressure may be any
(arrival times are not kept); a commit that raises ends the process, as the exception
does; other mappers of the group are taken to keep the same promise
(`ElsewhereStores`, `ElsewhereCommits`).  `replaced` is history, which no action reads: the
records of an uncommitted flush that a second one took the place of.  `initial_position = latest` is written down
in `ChooseStart` but no run uses it: the runs and the theorems start from committed
offsets.

### Historian

Several processes (`Members`) share Kafka and the database.  In each of them

- the poll thread (`thread`) reads the backpressure condition, pauses, polls and runs
  the assignment callback, each a step, because it shares its flags with the loop
  thread without a lock;
- the event loop runs tasks (`tasks`), each standing at the await where it can be
  suspended: `persist`, `persisted`, `ignore`, `ignored`, `commit`, `observe`.  A task
  in `commit` blocks the loop, since `consumer.commit` is synchronous (`LoopFree`);
- refreshes of days are slots of `claims`, shared by all processes because the claim's
  row lock ends before the refresh begins.

| In the model | In the code |
|---|---|
| `HandleMessage`, `FlushBeforeMessage`, `DropMessage` | `_handle_message` with its two looks at `should_pause_for_backpressure` |
| `CollectEvent`, `OverflowEvent`, `IgnoreRecord`, `RejectPoison` | `try_buffer_message`, `try_add`, `_handle_ignored_record` |
| `StartFlush`, `PersistCommits`, `PersistFails`, `Persisted`, `CommitKafka`, `Resume` | `flush_batch`, `persist_batch`, `record_sql_success`, `_resume_owned` |
| `Inserted`, `MetricRows`, `NextOffset`, `Advanced` | `ON CONFLICT DO NOTHING RETURNING`, the filter of metric rows, `compute_next_offset` |
| `StartAssign`, `ReadCheckpoints`, `KafkaAheadOfSql`, `RetentionGap`, `Assign` | `_on_assign`, `reconcile_partition_offset`, `on_assign` |
| `ClaimDay`, `RefreshDay`, `MarkProcessed`, `Superseded` | `claim_pending`, `refresh_claim`, `_MARK_PROCESSED` |

Taken as given: a transaction is atomic and holds the lock of its checkpoint rows;
`executemany` with `RETURNING` and `refresh_continuous_aggregate` inside a transaction
do what the code intends; offsets of a partition are contiguous
(`compute_next_offset` stops for ever at a gap, so that a compacted or transactional
topic is outside the code's own assumptions); assignment is eager.  `Id` is the
pair (time, event_id), by which raw rows are unique; metric rows are kept by `EventId`
alone, as in the code.  A record's `Size` is its envelope, its `Day` the UTC day of its
time.  A graceful shutdown flushes nothing, so to the model it is a crash.

### Publications

`Outcome` is `_resolve_ingress` for one delivery: `halted`, `excluded`, `dlq`, `raised`
or `archived` with its envelope; `Ingestion` takes it as `Kind`.  A wire is a form
(`json`, `bytes`, `wrapped`) with the fields the decisions read.

| In the model | In the code |
|---|---|
| `Matches`, `Overlap`, `ValidRoutes`, `RouteOf` | `_topic_matches_filter`, `_filters_overlap`, `validate_routes`, `resolve_route` |
| `BuildV1`, `BuildV2`, `Rejection`, `Usable` | `_build_v1_envelope`, `_build_v2_envelope`, `encode_rejection`, `__post_init__` |
| `Content`, `Identity`, `EventKey`, `Decoded`, `LakeRoute` | `immutable_content_hash`, `raw_row_from_event`, `event_key`, `decode_event`, `_resolve_v1`, `_resolve_v2` |

Hashes are their arguments (no collisions).  A timestamp is a small number with the
thresholds of `normalize_legacy_timestamp_value` scaled down (`Threshold`, `Factor`,
`Horizon`).

### Sparkplug, SparkplugCodec

| In the model | In the code |
|---|---|
| `Birth`, `Data`, `Death`, `Send`, `Metric`, `Raises`, `NotedBy` | `SpBMessageGenerator` of a device: `add_metric`, `_get_metric_wrapper` |
| `Receive`, `HandleMetric`, `PublishToUns` | `on_message` with `clear_metric_alias`, one turn of the loop of `handle_spb_messages`, `publish_to_uns` |
| `NameOf`, `SaveAlias`, `Extract` | `get_metric_name`, `save_name_for_alias`, `extract_uns_message_for_topic` |
| `Lose`, `MapperRestarts`, `DeviceRestarts` | a disconnect of the mapper, the end of either process |
| `PackInts`, `PackBooleans`, `PackStrings`, `SetValue`, `GetValue`, `FixValue` | `SPBMetricDataTypes`, `_fix_keys_and_value_types` |

A byte has two bits in the run, so that all widths and signs are enumerated.  The messages
of one device arrive in order, those of two devices in any.  A metric that raises ends the
composition of its message and what the mapper makes of it; the aliases noted before it stay,
in the process of the device and in the cache of the mapper.  A metric carries what the mapper
cannot see: the name it `means`, whether it is `aliased` (an alias nobody set reads 0), and
whether the device ever `told` the name in a message it sent.  `misled` marks a device whose
aliases the mapper cannot know: a message that named some was lost or given up before them, or
a metric without alias was read as alias 0.  `PublishedIsMeant` excuses what is read for those
devices (`guess`) only, since the protocol gives the mapper no way to tell.

### GraphStore

`Persist` is one message: `SaveAll` merges the names of its topic and `SaveAttributes`
its dictionaries and lists.  A retry after a `TransientError` uses the default labels, as
the recursive call does.  External: the statement semantics of Cypher (`MERGE`, `OPTIONAL
MATCH`), modelled by what each clause selects.  The properties speak of topics none of
whose names repeats the last one, and of payloads whose elements keep their names and
places (`Steady`); what happens otherwise is in section 6.

### LiveEvents, SigningKeys

`posted` is the queue of `call_soon_threadsafe`, `fanned` the event `_fan_out` gets next;
a client takes an item and shows it in two steps, between which the model may change.
The loop of `FanOut` over the clients is written in closed form: `Full` are the clients that
want the event and whose queue is full, the first of which raises `QueueFull`; those before
it are `Offered` the event, it and those after it `Missed` it.  `attended` is history: what a
client took, and what it was not offered.  `Reassign` is the consumer starting at the end
again.  `SigningKeys` has one step per
await of `signing_key`: ask, enter the lock, fetch or fail.

### ConnectivityCatalog

A mutation (`console[c].at`) goes through `write`, `sync` (the file), `commit`, the live
apply with its requests (`list`, `apply`), and `record`; `Overlay` is what a statement of a
read-committed transaction sees, `Free` the row locks.  `clock` is PostgreSQL's `now()`: the
begin of the transaction.  The connector polls the newest stamp (`Poll`), loads servers and
tags by two statements (`LoadServers`, `LoadTags`) and starts their bindings.  `excused` and
`unseen` mark what the code cannot see: a fault, an overlap of two mutations, a change
without a stamp.

### EdgeSpool

Every SQLite call is a thread under one lock, so a call is a step: `Take`, `Store`, `Trim`
of the writer, `Peek`, `Publish`, `Delete` of the forwarder.  A row is `<<id, tag, n>>`,
and one row fills a page, so that the trim by bytes deletes whole tenths of rows while the
file keeps its free pages.  `Reload` is a new catalog (the queue is lost, the file stays),
`Crash` the process.

### PlantHierarchy, TopicBinding

`HierarchyStep` is the next of the separate transactions of a save: tree, branding, branches,
pruning, rebinding, groups, then the job with one rename at a time, first in the
historian, then in the graph.  `RequestDies` ends it anywhere; `StaleAfter` is the record
that has been running for too long.  `TopicBinding` splits a bind into its read, its commit
and its return, because `forget()` may run between them; `Listen`, `GoesDeaf` and `Dispatch`
are the listener.  `boundBy`, `missed` and `overtaken` are history: who wrote a row, which
historian missed a notice, which binds were in flight when a historian forgot.

### OeeEngine, OeeMasterData, OeeShift

`OeeEngine`: a pass (`BeginPass` to `Complete`) has a step per statement or await; `Sample`
and `AssignReason` are the historian and an operator.  `mingled` and `lost` mark shifts that
two engines worked on at once, and requests that a crash or a failed window used up: both
are ways of the code, excused in the properties and listed in section 6.
`OeeMasterData`: an import saves each row in a transaction of its own, one kind after the
other, then reconciles each kind; a load is a sequence of selects, each of its own snapshot.
`OeeShift`: an instant is an integer, a list of intervals a sequence of pairs; `Compute`
is `shift_inputs` followed by `compute`.

### CopilotChat, CopilotPlaybook

A turn is `Chat`, `AppendGet`/`AppendWrite` (two sessions) or `AppendInMemory`, `Consult`,
`Complete` or `Fail`; a `Restart` may choose the other store.  The language model is any
number of rounds up to the limit.  `Observe` is `run_playbook`: the steps of a kind of
question, each limited, scoped and fitted into one budget.

## 3. The runs, their bounds and the fairness they assume

Bounds are constants with names of their own (`MaxDrops`, `MaxStops`, `MaxFailures`,
`MaxRebalances`, `MaxRetention`, `MaxClaims`, `MaxEdits`, ...); they stand in the guards of
the actions for faults and for what the outside does (`MaxClaims`: the refreshes that may be
in work at a time).  The limits of the code (`PendingRecordLimit`, `MaxEvents`, `MaxGroups`,
`QueueSize`, `MaxQueue`, ...) are the code's own parameters with small values.

Several modules that share no state are checked in one run: a variable `scope` of the MC
module is chosen in the initial state, and only the module it names takes steps.  The
reachable states are the disjoint union of the modules' own, so nothing is weakened; a
property of such a run is `scope = "x" => M!Property`, or a conjunction of these.  `MCEdge`
extends the catalog and the spool, and `MCServices` the hierarchy, the bindings, the master
data, the signing keys, the conversation and the live events, instead of instantiating them: the variables of a module that is not in scope keep their initial
values, which satisfy its properties, so these are checked as the modules state them (hence
names like `CatalogInit` and `LiveNext`).

| Run (`cfg`) | What it shows | Instance, and why it is enough |
|---|---|---|
| `ingestion` (`MCIngestion`) | What is acknowledged is stored; the budgets are exact and a halted shard still has its message at the broker (`BooksBalance`); the shard is a durable hop | an event, a rejected message, one too large even for the dead-letter topic, one that is not archived, one of the platform, and a QoS 0 event; window, queue and both budgets of 2, so that each limit is hit by a different message; one connection loss, one crash, one failure: a packet identifier is used again after a lost session while the first delivery is outstanding |
| `lake` (`MCLakeMapper`) | No commit passes an unsettled record; ledger, buffers, rejections and frozen flush agree (`LedgerAgrees`); the mapper is a durable hop | two partitions, two routes, two rejections, an excluded record, a gap in the offsets, a record written later, events that fit neither one flush nor, from both partitions, the worker; one failure, one crash, one rebalance and one deletion by retention |
| `historian` (`MCHistorian`) | The checkpoint passes only handled records; raw rows and metrics match; the process is a durable hop | two events around an ignored record, a late second message with the event_id of the first at another time, and an event with too many metrics that does not fit in a batch with another; no refresh claims (`progress` has them); one failure (with or without the effect), one crash, one deletion by retention |
| `historian_group` (`MCHistorianGroup`) | Kafka never overtakes SQL, no checkpoint moves back | two processes and a partition that moves once, by revocation or eviction, while batches and commits of the old owner are under way; one event is larger than a batch; two members and one rebalance are the smallest group with a stale owner |
| `progress` (`MCProgress`) | Every QoS 1 message is acknowledged, every record committed (or excused by name, see below), every late day refreshed in the end; a processed day has all its late rows | scopes `shard` (an event, an excluded and a platform message, a heartbeat; a reconnect and a restart; budgets that cover the window for two generations, since stale deliveries keep theirs), `lake` (one partition: an event, a rejection, an event that forces a flush; two failures, one crash, one rebalance), `lakes` (two partitions: a rejection, two events of which the second replaces the flush of the first, an event beside them; one failure) and `historian` (two late events of one day in two batches, two refreshes at a time, one failure or one crash) |
| `edge` (`MCEdge`) | Edits survive a discovery, statuses are honest without overlap, the connector follows the catalog; nothing vanishes from the spool, replay is one batch, order is kept, the newest value arrives | scope `catalog`: two consoles with one mutation each of nine kinds, three tags on an OPC UA server and a PLC, one fault; scope `path`: two tags of one server (one deadband refused), three changes, queue, batches and file of two, one fault of any kind |
| `oee` (`MCOeeEngine`) | Revisions have no gap and no double, only what was sent is marked, reasons survive every save and reach the result | a resident engine and one command-line pass over one shift, a late sample, one reason, one fault; with two shifts the passes only repeat |
| `services` (`MCServices`) | The remaining modules, one per scope: see below | see below |
| `poison_message`, `copilot_history`, `historian_metrics`, `historian_lag` (violated) | Section 6 | |

The scopes of `services`:

| Scope | Properties | Instance |
|---|---|---|
| `hierarchy` | `AssetsMatchTree`, `RenamesLeaveWhenMoved` | two trees of two areas with lines, four rename lists (swapped names, a rename to itself), two saves, a retry, a publication, a group edit, one fault |
| `binding` | `StaleIsRevisited` | two historians (one takes messages before it listens), two topics, two branches, an LRU of one, one edit, two messages, one fault |
| `codec` | `ComputedRight` | all 8- and 16-bit integers of a two-bit byte, arrays up to three, five booleans (across a byte) |
| `sparkplug` | `SparkplugIsMeant` | two devices of a node and the node itself, births with and without aliases, three messages, a restart, a lost message |
| `live`, `signing` | `ClientsAreServed`, `OneFetchPerKey` | two clients of two Assets, a queue of two, three events, a reassignment, an edit; three requests for two keys, a rotation, an outage |
| `shift` | `ComputedRight` | all pairs of interval lists of length two over four instants; a window of four ticks with samples before, at and after its edges, exceptions on three levels, counter restarts; calendars of two days with a change of the clock at each instant |
| `master` | `ImportReachesEngine` | four plans, two former tables, two imports (one may die), one load |
| `graph` | `GraphAnswers` | five topics (repeated names, one Sparkplug), five payloads, three messages, one transient error |
| `publication` | `ComputedRight` | eight topics, five route tables, all forms of payload, pairs of deliveries |
| `copilot`, `playbook` | `ConversationHolds`, `ComputedRight` | three turns of two users, two messages loaded, a restart, a fault; all kinds of question with focus, groups and up to three rows |

`TypeOK` of `services` has the type invariant of each scope.  Runs with `CHECK_DEADLOCK
FALSE` have bounded input: when every message is handled and the fault bounds are used up
the modelled system rightly stops.

Fairness stands in the temporal properties of `progress` and `edge` (`Fairness => ...`, each
for its own scope, which is what a fair specification of that module alone would say) and in
`FairSpec` of `oee` and `historian_lag`.  It comes from what schedules the code:

- *Ingestion.*  The network thread runs its callbacks (weak fairness of `Connect`,
  `OnDisconnect`, `EndServing`); the broker keeps sending on a live connection, and a
  connection lives long enough between losses for a message to be delivered (strong
  fairness of each message); Kafka reports each record within `delivery.timeout.ms`;
  Compose restarts the process.  `EveryMessageReleased` has a heartbeat (`Periodic`)
  for a reason: the code calls `poll()` after a message and not otherwise, so without
  traffic the reports of the last messages are not served (a hazard of the code).
- *LakeMapper.*  The loop runs; `poll` eventually returns what is due (strong, as the
  loop has other work in between); time passes for a buffer; the group gives an idle
  member its partitions; the other mappers serve theirs; a failed process is restarted.
  `EveryRecordCommitted` is false of the code without its three excuses, and each of them
  is needed in the instances: `Spins`, where `run_once` has a flush for which there is no
  offset to commit (`mapper.py:460-462`, `:515-518`); `Stranded`, for the records at and
  after one of a replaced flush (`:318-324`); `LeftBehind`, for a resolved record that no
  commit has taken along (`:382-383`).  Since a record once appended stays appended, the
  property asks again whenever an excuse ends: after the restart of a process that span, the
  records it held must be committed.  Without retention, so that its excuse is not used.
- *Historian.*  Tasks and their calls end, the poll thread turns, batches age, the
  refresh thread works, the group assigns all partitions.  Nothing is assumed of the
  order in which the two threads interleave.
- *EdgeSpool.*  The event loop runs some task that can run (one weak fairness of all
  of them together); reconnection loops for ever.
- *ConnectivityCatalog.*  Requests in progress are served, and the poller polls for ever.
- *OeeEngine.*  A resident engine passes again after each interval and ends its passes.

Faults are never fair: no run relies on a crash or a rebalance to happen.

## 4. What is proved, and how

`OffsetLemmas` has the lemmas several proofs share.  On offsets: a finite or bounded
non-empty set of naturals has a largest element, a non-empty one has a smallest, and records
have a first in (partition, offset) order.  They make `NextOffset`, defined with `Max`,
usable for sets of any size.  On sequences: what `SubSeq` and concatenation keep
(`SliceFacts`), and what `RemoveAt` leaves of a sequence without repetitions (`WithoutOne`).

### IngestionProofs: any messages, window, limits

Assumptions: `MessagesAssumption` and `LimitsAssumption` (types of the constants).
`AckedIsDurable` is not inductive: to know that the message released by an
acknowledgment is the message that was stored, one has to know what an outstanding
delivery still owns.  `IndInv` adds

- `OwnsPacket`: a delivery whose report is still to be served and that belongs to the
  current generation owns its packet identifier in the session, and that identifier was
  sent on this connection;
- `ReportedIsStored`: a positive report belongs to a stored message;
- `OneReport`: a QoS 1 delivery is in the queue or has one report, never both, which
  is what keeps `OwnsPacket` true when the identifier is freed and used again;
- `PendingIsOutstanding`, `RecordBudget`, `NothingYet`, `WindowIsQos1`.

`BooksBalance` needs two invariants more.  `BytesInv`: the reserved bytes are the sum over
the pending deliveries.  The sum is the cardinality of `Octets`, which has an element for
each byte, so that no induction is needed to show (`OctetsAdded`) that
a delivery more or less changes it by the size of its message.
`HaltInv`: a halted shard still has the message it refused at the broker; nothing that is
outstanding can acknowledge it, because only events and invalid messages are produced
(`OnlyAdmitted`) and the identifier of a refused message is not freed (`RefusedKept`).

Theorems: `TypeCorrect`, `AckedDurable`, `PendingOwns` (`PendingOwnsPacket`),
`PendingExact` (`PendingIsOutstanding`), `RecordBudgetExact`, `BooksAlwaysBalance` and
`Implements` (the shard refines `DurableHandoff`; for it the invariant gets `OneHolder`: the
broker has a message in one place).

### LakeMapperProofs: any topic, limits, history of faults

Assumptions: `LogAssumption`, `LimitsAssumption` and, in the statements of the
theorems, `HasOffsets` (the group has committed an offset for every partition, as
`require_committed` demands; without it a crash before the first commit and
`initial_position = latest` skip records by design).  `LakeInv` says

- `PrefixOK`: every record between the committed offset and the fetch position is in
  the ledger, and what the ledger calls resolved is settled: therefore everything below
  `NextOffset` is settled;
- `StandingOK`: while the group counts the process in, nobody else commits for it;
- `FlushOK`: the offset a frozen flush is going to commit is safe and stays below
  every open record until the commit, which holds because of `LoopOK`: nothing is
  polled while a flush is frozen;
- `HeldOK`: buffers hold open events of owned partitions, rejections are owned;
- `KeptOK`: every open record is in a buffer, in the frozen flush, among the rejections or
  in `replaced`.  `replaced` is a history variable: the records of an uncommitted flush that
  a second one took the place of (section 6).  Without it the statement is false of the
  code, which the attempt to prove it showed.

Theorems: `LakeTypes`, `CommittedSettled`, `HeldOpen`, `FrozenOwned` (so that the two
`OwnershipLostError`s of the flush are unreachable), `InOrder` (so that `observe()`
never raises), `LedgerAlwaysAgrees` and `LakeImplements`.

### HistorianProofs: any group, topic, limits, history of faults

Assumptions: `LogAssumption`, `BoundsAssumption`.  `Inv` says that the tables agree
with each other (`DataInv`), that every offset a task is going to commit was a
checkpoint once (`TaskOK` in `TasksInv`: this, and that checkpoints never move back,
is why a commit sent by a former owner cannot pass the checkpoint), and that what a
refresh has read covers the generation it will mark (`ClaimOK` in `RefreshInv`), beside
the types of the remaining state.  `RowsMove` is the step fact on which the two action
properties rest: each step leaves the tables alone, or is one transaction.
`MetricsOnceOnly` has the exception the code has: the filter of metric rows asks for the
event_id alone, so a transaction that inserts an event_id with another time writes the metrics
of a replayed record again.  `ReplayWritesNoMetrics` is the statement without the exception,
under the hypothesis that each event_id comes with one time.

Theorems: `HistorianTypes`, `CheckpointHandled`, `KafkaBehind`, `MetricsMatch`,
`RefreshCovered`, `CheckpointForward`, `MetricsOnceOnly` and `ReplayWritesNoMetrics` (action
properties), and `HistorianImplements`.

### OeeEngineProofs: any engines, shifts, samples, reasons, history of faults

Assumption: `ShiftsAssumption` (shift starts are naturals, so a pass has an earliest shift).
`ResultsOnRecord` is not inductive: that a row marked as published was sent depends on what
the engine between `Publish` and `Mark` knows of the row.  `Inv` adds

- `EngineOK`: an engine about to publish or to mark knows the revision of the row, unless
  its shift is `mingled`, and what it is about to mark it has sent;
- `Apart`: two engines on one shift have been noticed, which is what protects `EngineOK`
  of the others from a save;
- `ClaimsOK`: what an engine has claimed is marked as claimed, so that no other engine
  claims it; it gives the claims of `TypeOK`;
- `TablesOK`: the types of the tables, and that histories are finite, so that a save
  adds exactly one revision to them.

Theorems: `TypeCorrect`, `RecordKept` (`ResultsOnRecord`) and `ManualKept`
(`ReasonsSurvive`, an action property: only a save and the console write events).

*OeeMasterData.*  Assumptions: `BeforeAssumption` (the tables have the seven kinds of rows,
each with its flag) and `MasterBounds`.  `ImportReachesEngine` speaks of a load after an
import that has ended; `MasterInv` says what the import has reached at each of its
transactions:

- `ImporterOK`: of the kinds that are saved, and of the rows of the present kind that are not
  left, the tables hold what the plan says, active (`AllWritten` once all are); of the kinds
  that are reconciled and whose file is there no row counts any more but the plan's
  (`Settled`), so that after the last kind (`applied`) the two agree;
- `LoadOK`: a load that is `calm`, one that began after the import had ended and before the
  next, has seen in each of its selects so far what the tables still hold.

`ImportsReachTheEngine` follows from the last: `Resolved` of these tables is the plan's own
unit, slots, cycle times and rules.  A mixture of two plans is impossible only because the
next `Import` takes `calm` away; a load that overlaps an import may see one.

### EdgeProofs: any tags, sizes, devices, lists of metrics, history of faults

*EdgeSpool.*  Assumption: `SizesAssumption` (the sizes are numbers, the tags finitely many,
each with a first value).  None of the three properties is inductive: they speak of rows
that were published, and a trim or a write may change the file between `Peek`, `Publish`
and `Delete`.  `Inv` says

- `Prefix`: whatever is older than a published row, in the file or in the batch, was
  published; so an acknowledged identifier stands for all rows below it;
- `DueOK`: the rows that were published or are about to be leave out no older row and are
  no more than a batch; `LowestAreOldest` turns that into membership in what `peek` returns;
- `RowsOK`: identifiers are unique and bounded by `lastId`, which is why a row that joins
  the file later is newer than the batch (the mutant that reuses identifiers breaks it);
- `QueuesOK`: the types of queue and writer.

Theorems: `ReplayBounded` (`ReplayIsOneBatch`), `BacklogInOrder`
(`FirstPublicationInOrder`) and `NothingLostUnseen` (`NothingVanishes`).  The accounting of
pages in `TypeOK` stays with TLC: how many pages the turns of the byte trim free is a
recursion.

*Sparkplug.*  Assumptions: the types of names, lists and aliases (`NamesAssumption`,
`ListsAssumption`, `AliasAssumption`, `SpbBounds`), and that the filler of an absent tag is no
entry (`NoneAssumption`).  What a message means is fixed when it is composed and judged when
it is published, with other messages, restarts and losses in between, so `SparkplugIsMeant` is
far from inductive.  `SpbInv` says, for every device,

- `MeansOK`: each metric on its way means what its alias stood for in the life of the process
  that sent it, and an alias never changes its name within a life (`NotedOnce`);
- `OrderOK`: the lives on a wire do not decrease, and the message at hand is from none later;
- `ToldOK` and `SaidOK`: whoever asks by an alias the device has told is behind a metric that
  names it in the same message, or the name is `Ahead` of it: in a message before it on the
  wire, in what is left of the message at hand, or known to the mapper, with nothing but
  messages of the same life in between, or the device is `misled`;
- `ParsingOK`: the same for the metrics of the message at hand (`TurnOK`);
- `OutOK`: every message that is retained or collected is `Faithful`, entry by entry.

`MapperKeepsDevice` reduces an action of the mapper to one fact, that what is ahead of a place
stays ahead of it (`AheadStays`); `SendKeeps` and `RestartKeeps` are the device's part.  The
proof found two ways a device may be misled that the ghost of the model had missed: a name
noted while composing a message that raised and was never sent, and names in the rest of a
message the mapper gave up.  Theorems: `SparkplugTypes`, and `ReadingsAreMeant`
(`SparkplugIsMeant`) under the hypothesis `ReadsBack`, that each reading comes back from
its field: this is arithmetic over sequences, which scope `codec` checks (`ReadingsComeBack`).

### CatalogProofs: any consoles, catalogs, requests, history of faults

Assumptions: `RequestsAssumption` (the eight mutations; what is discovered belongs to the
server that was asked) and `CatalogsAssumption` (the columns of a tag and its foreign key).
Both properties rest on `CatalogInv`, what row locks give to transactions that read
committed data:

- `LocksOK`: two transactions that have written hold different rows;
- `TopicsOK`: the topic a transaction is about to write to a stored tag is the one that is
  stored, or the one its `saveTag` or `updateTag` asks for.  `OvertakenFacts` is the lemma
  behind it: a commit does not touch the rows others hold;
- `RowsOK`, `TablesOK`: a transaction writes one server and tags of it, a server that is
  being deleted has no other tags, so no tag is ever without its server.

`EditsAlwaysSurvive` (`EngineerEditsSurvive`, an action property) follows: only commits
write tags, and `merge_discovered` has taken the topic from what is stored.

`StatusesAreHonest` (`HonestWhenSequential`) needs `CopiesOK`, true unless `excused`:
`FileOK` (`config.xml` is what the committed rows say, or what the one transaction that
rewrote it is about to commit), `BrokerOK` (one mutation at a time applies adapters, those
of the committed rows, while its server stands as not applied) and `EdgeOK` (HiveMQ Edge runs
the adapters of the catalog, or a server waits, or a mutation is about to apply them).

*SigningKeys.*  Assumption: `SigningBounds`.  `KeysFetchedOnce` (`OneFetchPerKey`) is
inductive beside `SigningTypeOK`, whose last part is the lock: at most one request fetches,
so that no key arrives in memory between `Enter` and the fetch.

*LiveEvents.*  Assumptions: `LiveAssumption` (the sentinel is no event, an unbound topic lies
in no Access Group) and `LiveBounds`.  `NoSilentGap` is not inductive: `FanOut` puts the next
event at the end of a queue, which keeps the order only if nothing there is newer, and a
client whose queue is full gets nothing at all.  `LiveInv` adds

- `StreamOK`: what is posted is in order, at or above `fanned` and below `position`, and
  between these two is nothing else but what an assignment skipped;
- `ClientsOK`: a client is registered once, so that leaving it leaves one place
  (`WithoutOne`), and holds nothing that was not fanned out before.

`LiveClientsAreServed` (`ClientsAreServed`, with the type invariant) has one lemma per action.
What an event or a sentinel at the end of a queue changes is `PutLast`; `OfferFacts` and
`Served` apply it to `FanOut`: an event that is admitted extends what is expected by itself,
one that is not is the first that is lacking and leaves the sentinel, and behind a sentinel
nothing counts.

### ServicesProofs: any trees, renames, historians, topics, edits, history of faults

*PlantHierarchy.*  Assumptions: `TreesAssumption` (a tree is closed under its branches and
lies below its enterprise) and `RenamesAssumption` (a rename has two paths).

- `SeedOK`: the reseed has added the branches of the stored tree when it prunes, and has
  pruned when it rebinds; whatever interrupts it sets `torn`.  `AssetsAlwaysMatchTree`
  (`AssetsMatchTree`) follows.
- `JobOK`: the pairs the job file still names are those the request has not moved, and a
  request that is between the historian and the graph has moved the historian, if the graph
  is going to accept the pair.  `MovedIsOutside` is the lemma on paths behind it: a move
  beside its siblings leaves nothing below the old prefix, which is false of a move below
  itself or to itself; the historian commits these, and the graph refuses them.
  `RenamesAlwaysMoved` (`RenamesLeaveWhenMoved`, an action property) follows.

*TopicBinding.*  Assumptions: `CapacityAssumption` (`TopicBinder` refuses less than one) and
`TopicsAssumption` (a topic is a path).  `StaleIsRevisited` speaks of rows and of what is
remembered only; it is kept by what is in flight.  `BindInv` adds

- `InformedOK`: a historian that has handled the last notice and missed none has read, has
  committed and remembers nothing but the deepest Asset of now, for all topics that were
  not in flight past their snapshot when it forgot, and unless another historian wrote the
  row since;
- `BinderOK`: a topic is remembered or its bind runs, not both, so that a failed bind
  leaves no memory; the LRU holds at most `Capacity` topics (`RefreshFacts` and
  `RememberFacts` say what `move_to_end` and `popitem` do to a sequence);
- `RowsOK`: a row has an author and names an Asset that exists, or none.

Theorems: `StaleAlwaysRevisited` and `LruStaysBounded` (`BindingTypeOK`, the type invariant
of that scope).

*CopilotChat.*  Assumptions: `TitlesAssumption` (a title nobody gave is no question),
`ChatBounds`, and `TurnsAreShort`: two turns are shorter than the retention, as seconds are
against 30 days.  Without it a conversation could expire under a turn, and the model of a
short conversation would be shown nothing.  The conjuncts of `ConversationHolds` need
`ChatInv`: `GoodTurn` says, for each step of a turn, that it is its owner's, in the store of
the conversation and young; that from `consult` on the conversation, unless it is gone, holds
the question and is not older than the turn; that the title it has read is still to be given
or one of the questions; and that what the model was shown holds the question while the
conversation is short.  Two turns may write between each
other's read and write; what protects the answer is the foreign key (`Inserted`) and that
messages are only appended or deleted with their conversation.  Theorem: `ConversationsHold`.

## 5. What only TLC checks

- All liveness properties: `EveryMessageReleased`, `EveryRecordCommitted`,
  `LateDaysAreRefreshed`, `NewestCatchesUp`, `ConnectorCatchesUp`, `ReasonReachesResult`
  (liveness and `ENABLED` are out of the prover's reach).
- The arithmetic of `OeeShift`, `SparkplugCodec`, `Publications`, `CopilotPlaybook` and the
  graph: operators over sequences, folds and bounded inputs (induction over data is out of
  the prover's reach).
- `TypesOK` of `edge`: the pages of the spool (the accounting of a trim that is a recursion)
  and the type invariant of the catalog.
- The scope `graph` of `services`, whose actions fold over the names of a topic, and the
  `TypeOK` of `services`, which has the type invariant of every scope (those of `hierarchy`,
  `live`, `signing`, `copilot`, `binding` and `sparkplug` are part of the proofs above).

Proved and in no run of their own: `PendingOwnsPacket`, `PendingIsOutstanding`,
`MetricsWrittenOnce`, `HeldIsOpen`, `FrozenIsOwned`, `ObserveInOrder` (the last three are
conjuncts of `LedgerAgrees`) and the types of the historian.

## 6. Disagreements between the code and its documents

Four runs are expected to be violated; each quotes a document of the repository in
`findings` of `PROJECT.json`.

- `poison_message`, `EveryMessageIsSettled`: a timestamp that is text or out of range, a
  Sparkplug topic of three segments, a payload whose rejection is over the limit raise out of
  `on_message`; the message is neither archived nor rejected nor acknowledged
  (`06_uns_kafka/.../ingest.py:429`, README of 06, line 6).  `Ingestion` leaves these
  messages out: its kinds are the outcomes that return.
- `copilot_history`, `LoadsLastMessages`: the Postgres store loads the oldest messages of a
  conversation, not the newest (`13_uns_factory_agent/.../pg_store.py:227`, copilot design,
  line 210).
- `historian_metrics`, `MetricsOnce`: two records with one event identity in one batch
  insert one raw row and the metrics of both
  (`04_uns_historian/.../historian_handler.py:382`, plan of 2026-09-09, line 243).
- `historian_lag`, `LagConverges`: without any fault the poll thread can pause its
  partitions after the batch it paused for is done, and a message that arrives while a
  batch is in flight is dropped, in front of which the checkpoint stops
  (`04_uns_historian/.../kafka_consumer.py:258` and `:293-295`, foundation design,
  line 443).

What follows was met while modelling.  Each is a behaviour of the modelled code; the
properties above exclude it by name (an excuse, a precondition) or are stated so that it
does not falsify them.  Where a document says otherwise it is named.

Pipeline
- A full budget or a failed delivery sets `ready = False` and asks for a disconnect that
  nothing performs; the shard refuses every later message until its process is restarted
  (`ingest.py:508`; plan of 2026-09-09, lines 162-164).
- Platform messages are never acknowledged and use up the Receive Maximum
  (`uns_kafka_listener.py:108`); `BufferError` of a QoS 0 message leaves `loop_forever`.
- After a forced flush `_handle_message` looks for a ready partition again and can freeze a
  second one over the first: the records of the first are open in the ledger and held
  nowhere, and `run_once` spins (`mapper.py:324`, `:516-518`; plan of 2026-09-11, lines
  425-426).  It also spins, for good, when a flush is frozen while an earlier rejection of its
  partition waits for the DLQ: with a flush frozen no rejection is tried again, also when the
  DLQ is back.  A rejection resolved while another partition is frozen is committed only
  with a later record of its own partition (`EveryRecordCommitted`: `Stranded`, `Spins`,
  `LeftBehind`).
- `pending_rejections` has no bound (`mapper.py:268`; the plan of 2026-09-11 asks for one at
  lines 460 and 572, without a number); a rejection whose commit fails can meet a ledger that
  a later commit has trimmed, and the mapper ends with a `ValueError`; a DLQ publish that
  times out and is repeated writes a second entry; `_rejection_blocked` is not needed for
  safety.
- The metrics of a replayed record are written again beside the insertion of its event_id
  with another time (`historian_handler.py:382`); a redelivered publication that has a source
  identity and no `occurred_at` gets such a time (`ingest.py:357`).
- The first start of a historian on a topic from which retention has deleted ends with
  `RetentionGapError` (`kafka_consumer.py:66`); a commit of an ignored record may follow a
  later one of a batch, so that Kafka's offset moves back (`:288`; the SQL checkpoint
  decides); nothing bounds the tasks that `call_soon_threadsafe` queues (`:269`).
- A publication with a source identity but no `occurred_at` is stored again when it is
  redelivered; an unknown topic falls to the v1 catch-all (README of 06, line 38, and
  ADR-0012); v1 seconds past the year 5138 are normalised twice; the filters `a` and
  `a/b/#` are refused as overlapping; an empty raw payload of v1 becomes "legacy_normalized".
- The listener of the Sparkplug mapper refuses the four-level topics of a node (a comment
  calls the device optional); a metric without an alias reads as alias 0; a lost birth puts
  values on another tag until the next one; one metric that cannot be mapped gives up the
  whole message; the second tag of a list begins with `None`, and "newest is at 0" does not
  hold; the dictionary form leaves negative integers unsigned.
- A retry of the graph writer drops the node types (`graphdb_handler.py:211`); the last name
  of a topic is compared by name, not by place; elements of a list and places of an attribute
  are not unique when names change, and stale attribute nodes stay; the first name of a
  query matches at any depth; `#` answers with Sparkplug devices; a failed message is lost;
  labels end at the depth of the setting.

Live events and keys
- The budget of a client counts what it was ever sent: a client that keeps up is told to
  resync all the same, and past the budget `put_nowait` of the sentinel meets a full queue,
  whose `QueueFull` ends the fan-out before the later clients (`event_stream.py:177`).
- An assignment begins at the end of the topic: what was produced between two assignments
  reaches nobody (`event_stream.py:91`); `stop()` wakes no client; the scope of a client is
  the one of its subscription; `app.lifespan = lifespan` (`uns_graphql_app.py:168`) is not
  read by the framework.
- A key that the realm has removed validates until the next unknown one is asked for.

Connectivity and the OPC UA connector
- A successful probe clears `EDGE_APPLY_ERROR` although the broker never applied the change
  (`mutations/connectivity.py:340-344`); a delete whose live apply fails leaves no status.
- Two concurrent `save_tag` transactions may commit one topic (docstring of
  `subscribed_topics`); the connector then refuses the catalog.  A discovery that omits a
  node unsubscribes it (`connectivity.py:603-605`); `replace_subscribed_tags` opens a second pooled
  connection inside an open transaction.
- The stamp is the begin of a transaction: an older one that commits later does not move
  it, and a deleted row has none; without any row the connector keeps what it has.  A failing
  read of the catalog falls back to the configuration file until the next change (docstring
  of `_supervise`).
- A failing trim ends the connector (`forwarder.py:69`); the byte trim counts free pages and
  deletes more rows than needed (`spool.py:171-185`).

Plant hierarchy and topic binding
- Pruning leaves access groups without roots (`access_repository.py:44-45`, `:144`).
- The running record is written before `settings.yaml` (`mutations/hierarchy.py:372`), a
  rename to itself is accepted and fails for ever, so does one to another parent or to the
  name of a sibling, after the historian has committed; data that is published under the new
  name before the graph moves has the same effect.  A later save replaces the list of a
  failed job.
- A rename of the enterprise leaves its old assets; a rename deletes the assets whose OEE
  units depend on them.
- `ancestors_of` ignores `is_active`; a listener that does not start is ignored, and one
  whose connection drops never listens again (`notifications.py:37`, `:107`).

OEE
- Of two engines that compute a shift at once the slower overwrites the newer result, and
  `mark_published` names the row, not the revision (`store.py:358`).
- A publication that fails outside the late window is not retried (`store.py:356-360`); a
  crash after the claim loses the request (`scheduler.py:248`); a recomputation after a
  change of master data is skipped by the fingerprint; numbers that are published again are
  not those stored (`pipeline.py:272-277`).
- Run Time counts unobserved time whose start carries a reason (`pipeline.py:175`, comment at
  54-56); what is counted before the first product report is lost; a shift that begins or ends
  in the hour the clock skips has an inverted window, refused by `ck_shift_result_range` in
  every pass.
- A load between the transactions of an import sees rules with unknown reasons;
  `active_units` joins patterns without `is_active`; downtime reasons are never reconciled; the
  note of an exception is not updated.

Factory copilot
- Question and answer of a turn share `created_at`; concurrent turns interleave and
  `updated_at` may go back; a failed turn leaves its question without an answer.
- Expired rows are deleted at start-up only (copilot design: "A replica pass deletes expired
  rows"); a database that is away at start-up means the memory store for the whole process.
- The row limit comes before the Access Group filter, so that "cannot see" is said when the
  focus is wider than the groups; the live query `path/#` does not read the topic of the focus
  itself; two calls of one tool in a round share their identifier.

## 7. What is not modelled

- The layout of envelopes, Parquet files, object names, SQL text, XML, JSON and protobuf;
  metrics, logging, health endpoints: no property is about them.
- The broker, Kafka, TimescaleDB, PostgreSQL, Neo4j, the object store, HiveMQ Edge, the realm
  and the language model: external, modelled by what the code relies on.
- The insert of the direct MQTT writer and the metric flattener: one statement per message,
  no acknowledgment depends on it.
- Single-row edits of one transaction (alert rules, access-group members, the console's OEE
  master data), read-only SQL queries, settings and their loading, migrations.
- Floating-point and date types, data sets and templates of Sparkplug; OPC UA browsing.
- The copilot's classification of a question and its SQL guard: functions of a text.
- Availability, performance and quality as ratios: their numerators and denominators are
  modelled, the division is not.
- The web console, dashboards, deployment, generated code.
- Several services in one behaviour (the ingestion and a consumer over one topic, the
  catalog and the spool): the modules meet in `DurableHandoff` and in the topic only, and a
  product of their states is past what TLC can explore in minutes.

## 8. Plan

What could follow: a composition of two hops, each replaced by `DurableHandoff`;
floating-point classes in `SparkplugCodec`; the single-row mutations where they meet an
import (`OeeMasterData`); a theorem for `GraphStore`, once its folds over the names of a topic
are stated so that no induction is needed.
