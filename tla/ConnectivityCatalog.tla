------------------------- MODULE ConnectivityCatalog -------------------------
(* The Connectivity catalog: console mutations of the GraphQL service write     *)
(* servers and tags in Postgres, rewrite HiveMQ Edge's config.xml inside the    *)
(* transaction, push the adapters to the running broker afterwards, and the OPC *)
(* UA connector reloads when the newest updated_at moves.                       *)
(*                                                                             *)
(* Transactions are READ COMMITTED: a statement sees what is committed and what *)
(* its own transaction wrote, a written row is locked until the end, and now()  *)
(* is the time the transaction began.  A table is a function on its keys.       *)
EXTENDS Naturals

CONSTANTS
  Consoles,      \* concurrent executions of mutations
  CatalogServers, CatalogTags, \* identifiers of rows
  HostOf,        \* the server a tag belongs to
  Collected,     \* servers of protocol opc_ua, the ones the connector dials
  Browsed,       \* the browse path of a node, its topic when discovered
  Requests,      \* what consoles ask for
  Catalogs,      \* catalogs the service may start from: [servers, tags]
  Yaml,          \* the bindings of opcua.servers in the configuration file
  MaxRequests,   \* bound: mutations
  MaxCatalogFaults  \* bound: failed commits, requests, reads; dead workers

\* The operations of the API; a browse finds nodes of the browsed server.
ASSUME RequestsAssumption ==
  \A r \in Requests :
    /\ r.op \in {"saveServer", "deleteServer", "saveTag", "updateTag", "unsubscribe", "discover",
                "probe", "probeEndpoint"}
    /\ r.op = "discover" => \A t \in r.found : HostOf[t] = r.server

\* connectivity_tags: its columns, and the foreign key to the server of a tag.
ASSUME CatalogsAssumption ==
  \A catalog \in Catalogs : \A t \in DOMAIN catalog.tags :
    /\ DOMAIN catalog.tags[t] = {"topic", "subscribed", "at"}
    /\ HostOf[t] \in DOMAIN catalog.servers

VARIABLES
  servers,    \* committed connectivity_servers: [status, error, at]
  tags,       \* committed connectivity_tags: [topic, subscribed, at]
  file,       \* the adapters in config.xml: server -> published <<tag, topic>>
  edge,       \* the adapters HiveMQ Edge runs
  console,    \* what each mutation is doing
  clock,      \* now(), advanced by every transaction
  connector,  \* [at, conf, baseline, listed]: the supervisor and its poller
  excused,    \* a status may mislead: a fault or an overlap the code cannot see
  unseen,     \* a change may have left no stamp for the poller
  asked,      \* mutations so far
  catalogFaults

catalogVars == <<servers, tags, file, edge, console, clock, connector, excused, unseen,
          asked, catalogFaults>>

None == 0   \* no timestamp
Gone == [gone |-> TRUE]   \* a deleted row, among those a transaction writes
CatalogFault == catalogFaults < MaxCatalogFaults /\ catalogFaults' = catalogFaults + 1

Overlay(table, rows) ==
  [k \in {k \in DOMAIN table \union DOMAIN rows : k \notin DOMAIN rows \/ rows[k] # Gone} |->
     IF k \in DOMAIN rows THEN rows[k] ELSE table[k]]
NoRows == [k \in {} |-> Gone]
Max0(S) == IF S = {} THEN None ELSE CHOOSE m \in S : \A n \in S : n <= m

\* edge_adapters_from_rows: every server with its subscribed tags.
Adapters(ss, ts) ==
  [s \in DOMAIN ss |-> {<<t, ts[t].topic>> : t \in {t \in DOMAIN ts : HostOf[t] = s /\ ts[t].subscribed}}]

FaultUpdatedAt == Max0({tags[t].at : t \in DOMAIN tags})
\* catalog_updated_at: deleted rows have no stamp any more.
UpdatedAt == Max0({servers[s].at : s \in DOMAIN servers} \union {tags[t].at : t \in DOMAIN tags})

Idle == [at |-> "idle"]
Quiet == \A c \in Consoles : console[c].at = "idle"

\* servers_from_catalog over a list of servers: the bindings of the connector.
Bindings(listed) ==
  UNION {Adapters(servers, tags)[s] : s \in {s \in DOMAIN servers : s \in Collected \intersect listed}}
Resolved(found) == IF found = {} THEN Yaml ELSE found

CatalogInit ==
  /\ \E catalog \in Catalogs : servers = catalog.servers /\ tags = catalog.tags
  /\ file = Adapters(servers, tags) /\ edge = file
  /\ console = [c \in Consoles |-> Idle]
  /\ clock = UpdatedAt + 1
  /\ connector = [at |-> "polling", conf |-> Resolved(Bindings(DOMAIN servers)),
                  baseline |-> UpdatedAt, listed |-> {}]
  /\ excused = FALSE /\ unseen = FALSE
  /\ asked = 0 /\ catalogFaults = 0

------------------------------------------------------------------------------
(* The catalog half of a mutation: one transaction of the repository.          *)

OnTag == {"saveTag", "updateTag", "unsubscribe"}
Target(r) == IF r.op \in OnTag THEN HostOf[r.tag] ELSE r.server
TagsOf(s) == {t \in DOMAIN tags : HostOf[t] = s}

\* subscribed_topics: every topic in use but the tag's own.
SubscribedTopics(except) == {tags[t].topic : t \in {t \in DOMAIN tags \ {except} : tags[t].subscribed}}

\* What a mutation reads before it writes: topics inside its transaction, the
\* stored tags in a session of their own, or whether the server was pending.
FirstRead(r) ==
  CASE r.op \in {"saveTag", "updateTag"} -> SubscribedTopics(r.tag)
    [] r.op = "discover" -> [t \in TagsOf(r.server) |-> tags[t]]
    [] r.op = "probe" -> servers[r.server].status = "pending"
    [] OTHER -> {}

\* Browsing and probing begin with _find_server; a probe of a bare endpoint only
\* records its outcome when a saved server has it.
Begin(c, r) ==
  /\ console[c].at = "idle" /\ asked < MaxRequests
  /\ r.op \in {"discover", "probe", "probeEndpoint"} => r.server \in DOMAIN servers
  /\ asked' = asked + 1
  /\ console' = [console EXCEPT ![c] =
       [at |-> IF r.op \in {"probe", "probeEndpoint"} THEN "tested" ELSE "write",
        request |-> r, stamp |-> clock, seen |-> FirstRead(r),
        servers |-> NoRows, tags |-> NoRows, missed |-> FALSE, adapters |-> NoRows, ok |-> TRUE]]
  /\ clock' = clock + 1
  /\ UNCHANGED <<servers, tags, file, edge, connector, excused, unseen, catalogFaults>>

\* merge_discovered, and the upsert that follows it: a stored tag keeps its topic;
\* subscribed is TRUE for a discovered node and what was read for any other.
FaultDiscovered(m, now) ==
  [t \in DOMAIN m.seen \union m.request.found |->
     [topic |-> IF t \in DOMAIN m.seen THEN m.seen[t].topic ELSE Browsed[t],
      subscribed |-> t \in m.request.found \/ m.seen[t].subscribed, at |-> now]]
Discovered(m, now) ==
  [t \in DOMAIN m.seen \union m.request.found |->
     [topic |-> IF t \in DOMAIN tags THEN tags[t].topic
                ELSE IF t \in DOMAIN m.seen THEN m.seen[t].topic ELSE Browsed[t],
      subscribed |-> t \in m.request.found \/ m.seen[t].subscribed, at |-> now]]

\* The rows of connectivity_tags a mutation writes.
TagRows(m, now) ==
  LET r == m.request IN
  CASE r.op = "saveTag" ->
         [t \in {r.tag} |-> [topic |-> r.topic, subscribed |-> r.subscribed, at |-> now]]
    [] r.op = "updateTag" /\ r.tag \in DOMAIN tags ->
         [t \in {r.tag} |-> [tags[t] EXCEPT !.topic = r.topic, !.at = now]]
    [] r.op = "unsubscribe" /\ r.tag \in DOMAIN tags ->
         [t \in {r.tag} |-> [tags[t] EXCEPT !.subscribed = FALSE, !.at = now]]
    [] r.op = "discover" -> Discovered(m, now)
    [] r.op = "deleteServer" -> [t \in TagsOf(r.server) |-> Gone]
    [] OTHER -> NoRows

\* The row of connectivity_servers it writes: every write that is not a delete
\* marks the server as waiting for HiveMQ Edge.
Pending(now) == [status |-> "pending", error |-> "apply", at |-> now]
ServerRows(m, now) ==
  LET r == m.request IN
  [s \in {Target(r)} \intersect (DOMAIN servers \union IF r.op = "saveServer" THEN {r.server} ELSE {}) |->
     IF r.op = "deleteServer" THEN Gone ELSE Pending(now)]

Holding == {c \in Consoles : console[c].at \in {"sync", "commit"}}
FaultFree(ss, ts) == TRUE
Free(ss, ts) ==
  \A c \in Holding : DOMAIN console[c].servers \intersect ss = {} /\ DOMAIN console[c].tags \intersect ts = {}

\* A mutation that ends without a write: assert_unique_mqtt_topic raises, the tag
\* has no server (foreign key), there is no row to update or to delete.
Refused(m) ==
  LET r == m.request IN
  \/ r.op \in {"saveTag", "updateTag"} /\ r.topic \in m.seen
  \/ r.op = "saveTag" /\ Target(r) \notin DOMAIN servers
  \/ r.op = "discover" /\ Target(r) \notin DOMAIN servers /\ DOMAIN m.seen \union r.found # {}
  \/ r.op = "updateTag" /\ r.tag \notin DOMAIN tags
  \/ r.op = "deleteServer" /\ r.server \notin DOMAIN servers

Refuse(c) ==
  /\ console[c].at = "write" /\ Refused(console[c])
  /\ console' = [console EXCEPT ![c] = Idle]
  /\ UNCHANGED <<servers, tags, file, edge, clock, connector, excused, unseen, asked, catalogFaults>>

\* The statements of the transaction.  Discovery opens it only now.
Write(c) ==
  LET m == console[c]
      now == IF m.request.op = "discover" THEN clock ELSE m.stamp
  IN /\ m.at = "write" /\ ~Refused(m)
     /\ Free({Target(m.request)}, DOMAIN TagRows(m, now))
     /\ console' = [console EXCEPT ![c].at = "sync", ![c].stamp = now,
                                   ![c].servers = ServerRows(m, now), ![c].tags = TagRows(m, now)]
     /\ clock' = IF now = clock THEN clock + 1 ELSE clock
     /\ UNCHANGED <<servers, tags, file, edge, connector, excused, unseen, asked, catalogFaults>>

\* _sync_edge: the rows this transaction sees, spliced into config.xml.
FaultSeenBy(m) == Adapters(servers, tags)
SeenBy(m) == Adapters(Overlay(servers, m.servers), Overlay(tags, m.tags))
Sync(c) ==
  /\ console[c].at = "sync"
  /\ file' = SeenBy(console[c])
  /\ console' = [console EXCEPT ![c].at = "commit"]
  /\ UNCHANGED <<servers, tags, edge, clock, connector, excused, unseen, asked, catalogFaults>>

\* Others that are between their first read and their record see a commit too late.
Overtaken(c) ==
  [d \in Consoles |-> IF d = c \/ console[d].at = "idle" THEN console[d]
                      ELSE [console[d] EXCEPT !.missed = TRUE]]

\* unsubscribeConnectivityTag ends here when there was no such tag.
Committed(c) ==
  /\ servers' = Overlay(servers, console[c].servers)
  /\ tags' = Overlay(tags, console[c].tags)
Commit(c) ==
  LET m == console[c]
      others == Overtaken(c)
      done == m.request.op = "unsubscribe" /\ m.tags = NoRows
  IN /\ m.at = "commit"
     /\ Committed(c)
     /\ console' = [others EXCEPT ![c] = IF done THEN Idle ELSE [m EXCEPT !.at = "list"]]
     /\ excused' = (excused \/ m.missed \/ \E d \in Consoles \ {c} : console[d].at # "idle")
     /\ UNCHANGED <<file, edge, clock, connector, unseen, asked, catalogFaults>>

\* The XML splice raises or the commit fails: the rows are rolled back.
Abort(c) ==
  /\ console[c].at \in {"sync", "commit"}
  /\ CatalogFault
  /\ console' = [console EXCEPT ![c] = Idle]
  /\ excused' = (excused \/ console[c].at = "commit")
  /\ UNCHANGED <<servers, tags, file, edge, clock, connector, unseen, asked>>

------------------------------------------------------------------------------
(* The broker half of a mutation: _finish_live_apply.                          *)

ListAdapters(c) ==
  /\ console[c].at = "list"
  /\ console' = [console EXCEPT ![c].at = "apply", ![c].adapters = Adapters(servers, tags)]
  /\ UNCHANGED <<servers, tags, file, edge, clock, connector, excused, unseen, asked, catalogFaults>>

\* Unwanted adapters are deleted, the others written one after the other.
Apply(c) ==
  /\ console[c].at = "apply"
  /\ edge' = console[c].adapters
  /\ console' = [console EXCEPT ![c].at = "record"]
  /\ UNCHANGED <<servers, tags, file, clock, connector, excused, unseen, asked, catalogFaults>>

\* A request fails: some adapters are done, and a new one may have no tags yet.
ApplyFails(c) ==
  LET wanted == console[c].adapters IN
  /\ console[c].at = "apply"
  /\ CatalogFault
  /\ \E done \in SUBSET (DOMAIN edge \union DOMAIN wanted), bare \in SUBSET (DOMAIN wanted \ DOMAIN edge) :
       edge' = [s \in (DOMAIN edge \ (done \ DOMAIN wanted)) \union (done \intersect DOMAIN wanted) \union bare |->
                  IF s \in done THEN wanted[s] ELSE IF s \in bare THEN {} ELSE edge[s]]
  /\ console' = [console EXCEPT ![c].at = "record", ![c].ok = FALSE]
  /\ UNCHANGED <<servers, tags, file, clock, connector, excused, unseen, asked>>

\* record_live_apply: all adapters are untested after a success, the mutated server
\* stays pending after a failure; deleteConnectivityServer has none to name.
Marked(m) ==
  DOMAIN servers \intersect
    (IF m.ok /\ DOMAIN m.adapters # {} THEN DOMAIN m.adapters
     ELSE IF m.request.op = "deleteServer" THEN {} ELSE {Target(m.request)})
Record(c) ==
  LET m == console[c]
      outcome == IF m.ok THEN [status |-> "untested", error |-> "", at |-> clock] ELSE Pending(clock)
  IN /\ m.at = "record"
     /\ Free(Marked(m), {})
     /\ servers' = [s \in DOMAIN servers |-> IF s \in Marked(m) THEN outcome ELSE servers[s]]
     /\ clock' = clock + 1
     /\ console' = [console EXCEPT ![c] = Idle]
     /\ excused' = (excused \/ (~m.ok /\ m.request.op = "deleteServer"))
     /\ unseen' = (unseen \/ Marked(m) = {})
     /\ UNCHANGED <<tags, file, edge, connector, asked, catalogFaults>>

\* record_test.  A saved server that was pending keeps its error when the probe
\* succeeds; a bare endpoint, a failing probe and a second probe replace it.
Tested(m) ==
  [status |-> IF m.request.ok THEN "connected" ELSE "failed",
   error |-> IF ~m.request.ok THEN "probe"
             ELSE IF m.request.op = "probe" /\ m.seen THEN "apply" ELSE "",
   at |-> clock]
RecordTest(c) ==
  LET m == console[c] s == m.request.server IN
  /\ m.at = "tested"
  /\ Free({s}, {})
  /\ servers' = IF s \in DOMAIN servers THEN [servers EXCEPT ![s] = Tested(m)] ELSE servers
  /\ clock' = clock + 1
  /\ console' = [console EXCEPT ![c] = Idle]
  /\ excused' = (excused \/ (s \in DOMAIN servers /\ servers[s].error = "apply" /\ Tested(m).error # "apply"))
  /\ UNCHANGED <<tags, file, edge, connector, unseen, asked, catalogFaults>>

\* The worker dies or the request is cancelled; an open transaction is rolled back.
Die(c) ==
  /\ console[c].at # "idle"
  /\ CatalogFault
  /\ console' = [console EXCEPT ![c] = Idle]
  /\ excused' = TRUE
  /\ unseen' = (unseen \/ console[c].at \in {"list", "apply", "record"})
  /\ UNCHANGED <<servers, tags, file, edge, clock, connector, asked>>

------------------------------------------------------------------------------
(* The connector: _supervise and _poll_and_reload.                             *)

Clash(pairs) == \E a, b \in pairs : a # b /\ a[2] = b[2]

ShouldReload(current) == current # None /\ current # connector.baseline

\* The poller cancels the connector and hands over the stamp it has seen.
Poll ==
  /\ connector.at \in {"polling", "failed"}
  /\ ShouldReload(UpdatedAt)
  /\ connector' = [connector EXCEPT !.at = "servers", !.baseline = UpdatedAt, !.conf = {}]
  /\ UNCHANGED <<servers, tags, file, edge, console, clock, excused, unseen, asked, catalogFaults>>

\* build_bindings_for_all raised; the supervisor backs off and reads again.
Retry ==
  /\ connector.at = "failed"
  /\ connector' = [connector EXCEPT !.at = "servers"]
  /\ UNCHANGED <<servers, tags, file, edge, console, clock, excused, unseen, asked, catalogFaults>>

\* load_servers_from_catalog: the servers in one session, their tags in others.
LoadServers ==
  /\ connector.at = "servers"
  /\ connector' = [connector EXCEPT !.at = "tags", !.listed = DOMAIN servers]
  /\ UNCHANGED <<servers, tags, file, edge, console, clock, excused, unseen, asked, catalogFaults>>

Started(conf) == [connector EXCEPT !.at = IF Clash(conf) THEN "failed" ELSE "polling",
                                   !.conf = IF Clash(conf) THEN {} ELSE conf, !.listed = {}]
LoadTags ==
  /\ connector.at = "tags"
  /\ connector' = Started(Resolved(Bindings(connector.listed)))
  /\ unseen' = FALSE
  /\ UNCHANGED <<servers, tags, file, edge, console, clock, excused, asked, catalogFaults>>

\* A failed read yields no servers, and so the YAML configuration.
LoadFails ==
  /\ connector.at \in {"servers", "tags"}
  /\ CatalogFault
  /\ connector' = Started(Resolved({}))
  /\ unseen' = TRUE
  /\ UNCHANGED <<servers, tags, file, edge, console, clock, excused, asked>>

Step(c) ==
  \/ Refuse(c) \/ Write(c) \/ Sync(c) \/ Commit(c)
  \/ ListAdapters(c) \/ Apply(c) \/ Record(c) \/ RecordTest(c)
Supervise == Poll \/ Retry \/ LoadServers \/ LoadTags

CatalogNext ==
  \/ \E c \in Consoles : (\E r \in Requests : Begin(c, r)) \/ Step(c) \/ Abort(c) \/ ApplyFails(c) \/ Die(c)
  \/ Supervise \/ LoadFails

CatalogSpec == CatalogInit /\ [][CatalogNext]_catalogVars

\* Requests in progress are served by the event loop, and the poller polls for ever.
CatalogFairness == WF_catalogVars(\E c \in Consoles : Step(c)) /\ WF_catalogVars(Supervise)
CatalogFairSpec == CatalogSpec /\ CatalogFairness

------------------------------------------------------------------------------
(* Properties.                                                                *)

\* Row locks exclude one another and a stamp is never in the future.
CatalogTypeOK ==
  /\ DOMAIN servers \subseteq CatalogServers
  /\ DOMAIN tags \subseteq CatalogTags /\ \A t \in DOMAIN tags : HostOf[t] \in DOMAIN servers
  /\ \A s \in DOMAIN servers : servers[s].status \in {"untested", "pending", "connected", "failed"}
  /\ UpdatedAt < clock
  /\ \A c, d \in Holding : c # d =>
       /\ DOMAIN console[c].servers \intersect DOMAIN console[d].servers = {}
       /\ DOMAIN console[c].tags \intersect DOMAIN console[d].tags = {}
  /\ connector.at \in {"polling", "failed", "servers", "tags"}
  /\ excused \in BOOLEAN /\ unseen \in BOOLEAN

\* "Engineer edits survive a re-discovery": whatever is committed while discovery
\* is between its read and its writes, a stored topic only ever changes to the one
\* an engineer asked for.
EngineerEditsSurvive ==
  [][\A t \in DOMAIN tags \intersect DOMAIN tags' :
       tags'[t].topic # tags[t].topic =>
         \E c \in Consoles : LET r == console[c].request IN
           /\ console[c].at = "commit" /\ r.op \in {"saveTag", "updateTag"}
           /\ r.tag = t /\ r.topic = tags'[t].topic]_catalogVars

\* A mutation that is the only one leaves config.xml as the catalog, and whenever
\* HiveMQ Edge runs something else some server says that it waits for it.
HonestWhenSequential ==
  Quiet /\ ~excused =>
    /\ file = Adapters(servers, tags)
    /\ edge # file => \E s \in DOMAIN servers : servers[s].error = "apply"

\* The stamps of transactions do not follow the order of their commits and a load
\* is not atomic, yet the connector ends up with the bindings of the catalog, or
\* refuses them, unless the last change left no stamp or the catalog is empty.
ConnectorFollows ==
  <>[](\/ unseen \/ UpdatedAt = None
       \/ LET wanted == Resolved(Bindings(DOMAIN servers))
          IN IF Clash(wanted) THEN connector.conf = {} ELSE connector.conf = wanted)
=============================================================================
