---------------------------- MODULE CatalogProofs ----------------------------
(***************************************************************************)
(* What the Connectivity mutations guarantee for any consoles, catalogs,    *)
(* requests and faults.  Row locks (LocksOK) keep what a transaction has    *)
(* decided true until it commits: the topic it writes is still the stored   *)
(* one or an engineer's (TopicsOK), a server it deletes gains no tags and   *)
(* a tag it writes keeps its server (RowsOK, TablesOK).  On top of it,     *)
(* unless a fault or an overlap has excused the status, the three copies of  *)
(* the catalog agree or some server says that they do not (CopiesOK).        *)
(*                                                                         *)
(* And the other two parts of the GraphQL service that keep a state.  One    *)
(* request at a time holds the lock of the signing keys, so that the key it   *)
(* fetches for is lacking.  Live events reach the loop in order (StreamOK);  *)
(* what a client took and what its queue holds up to the first sentinel is    *)
(* therefore all that it may expect (NoSilentGap).                           *)
(***************************************************************************)
EXTENDS ConnectivityCatalog, SigningKeys, LiveEvents, OffsetLemmas

-----------------------------------------------------------------------------
(* The invariant of the transactions                                        *)

Probes == {"probe", "probeEndpoint"}
Fields == {"at", "request", "stamp", "seen", "servers", "tags", "missed", "adapters", "ok"}
Columns == {"topic", "subscribed", "at"}

\* A console is idle or has all the fields of a mutation in progress.
GoodConsole(m) ==
  m.at # "idle" =>
    /\ DOMAIN m = Fields
    /\ m.request \in Requests
    /\ m.at = "tested" <=> m.request.op \in Probes
    /\ m.missed \in BOOLEAN /\ m.ok \in BOOLEAN
    /\ m.request.op = "discover" => \A t \in DOMAIN m.seen : HostOf[t] = m.request.server

ConsolesOK ==
  /\ console = [c \in Consoles |-> console[c]]
  /\ \A c \in Consoles : GoodConsole(console[c])

\* A transaction that has written excludes every other from its rows.
LocksOK ==
  \A c, d \in Holding : c # d =>
    /\ DOMAIN console[c].servers \intersect DOMAIN console[d].servers = {}
    /\ DOMAIN console[c].tags \intersect DOMAIN console[d].tags = {}

\* The rows a transaction of request r writes: one server and tags of it.
GoodRows(r, ss, ts) ==
  /\ DOMAIN ss \subseteq {Target(r)}
  /\ \A t \in DOMAIN ts : HostOf[t] = Target(r) /\ (ts[t] = Gone \/ DOMAIN ts[t] = Columns)
  /\ r.op = "deleteServer" =>
       /\ Target(r) \in DOMAIN ss
       /\ \A t \in DOMAIN ts : ts[t] = Gone
       /\ \A t \in DOMAIN tags : HostOf[t] = Target(r) => t \in DOMAIN ts
  /\ r.op # "deleteServer" => \A s \in DOMAIN ss : ss[s] # Gone /\ ss[s].error = "apply"
  /\ r.op # "deleteServer" /\ DOMAIN ts # {} => Target(r) \in DOMAIN ss
  /\ r.op = "saveServer" => Target(r) \in DOMAIN ss
  /\ r.op # "saveServer" => DOMAIN ss \subseteq DOMAIN servers
  /\ r.op \in {"saveTag", "updateTag"} => DOMAIN ts # {}
  /\ r.op = "unsubscribe" /\ ts # NoRows => DOMAIN ts # {}

RowsOK ==
  \A c \in Holding : GoodRows(console[c].request, console[c].servers, console[c].tags)

\* The topics that a transaction is about to write to stored tags.
GoodTopics(r, ts) ==
  \A t \in DOMAIN ts \intersect DOMAIN tags :
    \/ ts[t] = Gone
    \/ ts[t].topic = tags[t].topic
    \/ r.op \in {"saveTag", "updateTag"} /\ r.tag = t /\ r.topic = ts[t].topic

TopicsOK == \A c \in Holding : GoodTopics(console[c].request, console[c].tags)

\* A stored tag has all its columns, and its server is stored.
TablesOK == \A t \in DOMAIN tags : HostOf[t] \in DOMAIN servers /\ DOMAIN tags[t] = Columns

CatalogInv == ConsolesOK /\ LocksOK /\ RowsOK /\ TopicsOK /\ TablesOK

-----------------------------------------------------------------------------
(* Rows and consoles                                                        *)

LEMMA OverlayRows ==
  ASSUME NEW table, NEW rows
  PROVE  /\ \A k : k \in DOMAIN Overlay(table, rows) <=>
                     \/ k \in DOMAIN rows /\ rows[k] # Gone
                     \/ k \in DOMAIN table /\ k \notin DOMAIN rows
         /\ \A k \in DOMAIN Overlay(table, rows) :
              Overlay(table, rows)[k] = IF k \in DOMAIN rows THEN rows[k] ELSE table[k]
BY DEF Overlay

LEMMA NotGone == ASSUME NEW now PROVE Pending(now) # Gone /\ Pending(now).error = "apply"
<1>1. "gone" \in DOMAIN Gone /\ "gone" \notin DOMAIN Pending(now)
  BY DEF Gone, Pending
<1>2. Pending(now).error = "apply"
  BY DEF Pending
<1> QED BY <1>1, <1>2

LEMMA ConsoleSet ==
  ASSUME ConsolesOK, NEW c \in Consoles, NEW m, GoodConsole(m),
         console' = [console EXCEPT ![c] = m]
  PROVE  /\ ConsolesOK'
         /\ console'[c] = m
         /\ \A d \in Consoles : d # c => console'[d] = console[d]
<1>1. \A d \in Consoles : console'[d] = IF d = c THEN m ELSE console[d]
  BY DEF ConsolesOK
<1>2. console' = [d \in Consoles |-> console'[d]]
  BY DEF ConsolesOK
<1>3. \A d \in Consoles : GoodConsole(console'[d])
  BY <1>1 DEF ConsolesOK
<1>4. ConsolesOK'
  BY <1>2, <1>3 DEF ConsolesOK, GoodConsole
<1> QED BY <1>1, <1>4

\* Steps that write no tag and neither add nor remove a server, while the transactions
\* that hold rows hold the same ones as before.
LEMMA KeepStep ==
  ASSUME CatalogInv, tags' = tags, DOMAIN servers' = DOMAIN servers,
         \A d \in Consoles : console'[d].at \in {"sync", "commit"} =>
           /\ console[d].at \in {"sync", "commit"}
           /\ console'[d].request = console[d].request
           /\ console'[d].servers = console[d].servers /\ console'[d].tags = console[d].tags
  PROVE  LocksOK' /\ RowsOK' /\ TopicsOK' /\ TablesOK'
<1>1. \A d \in Holding' : /\ d \in Holding /\ console'[d].request = console[d].request
                          /\ console'[d].servers = console[d].servers
                          /\ console'[d].tags = console[d].tags
  BY DEF Holding
<1>2. LocksOK'
  BY <1>1 DEF CatalogInv, LocksOK
<1>3. RowsOK'
  BY <1>1 DEF CatalogInv, RowsOK, GoodRows
<1>4. TopicsOK'
  BY <1>1 DEF CatalogInv, TopicsOK, GoodTopics
<1>5. TablesOK'
  BY DEF CatalogInv, TablesOK
<1> QED BY <1>2, <1>3, <1>4, <1>5

\* One console moves on, and the rows it holds stay the same or are released.
LEMMA Moved ==
  ASSUME CatalogInv, NEW c \in Consoles, NEW m, GoodConsole(m),
         console' = [console EXCEPT ![c] = m],
         tags' = tags, DOMAIN servers' = DOMAIN servers,
         m.at \in {"sync", "commit"} =>
           /\ console[c].at \in {"sync", "commit"} /\ m.request = console[c].request
           /\ m.servers = console[c].servers /\ m.tags = console[c].tags
  PROVE  CatalogInv'
<1>1. /\ ConsolesOK' /\ console'[c] = m
      /\ \A d \in Consoles : d # c => console'[d] = console[d]
  BY ConsoleSet DEF CatalogInv
<1>2. LocksOK' /\ RowsOK' /\ TopicsOK' /\ TablesOK'
  BY <1>1, KeepStep
<1> QED BY <1>1, <1>2 DEF CatalogInv

\* A mutation in progress reaches a later point of its execution.
LEMMA Advanced ==
  ASSUME NEW m, GoodConsole(m), m.at \notin {"idle", "tested"},
         NEW at \in {"sync", "commit", "list", "apply", "record"}
  PROVE  /\ GoodConsole([m EXCEPT !.at = at])
         /\ [m EXCEPT !.at = at].at = at /\ [m EXCEPT !.at = at].request = m.request
         /\ [m EXCEPT !.at = at].servers = m.servers /\ [m EXCEPT !.at = at].tags = m.tags
         /\ [m EXCEPT !.at = at].missed = m.missed /\ [m EXCEPT !.at = at].ok = m.ok
         /\ [m EXCEPT !.at = at].adapters = m.adapters
<1>1. PICK n : n = [m EXCEPT !.at = at]
  OBVIOUS
<1>2. DOMAIN m = Fields
  BY DEF GoodConsole
<1>3. /\ DOMAIN n = Fields /\ n.at = at /\ n.request = m.request /\ n.seen = m.seen
      /\ n.servers = m.servers /\ n.tags = m.tags /\ n.missed = m.missed
      /\ n.adapters = m.adapters /\ n.ok = m.ok
  BY <1>1, <1>2 DEF Fields
<1>4. GoodConsole(n)
  BY <1>3 DEF GoodConsole
<1> QED BY <1>1, <1>3, <1>4

LEMMA GoodIdle == GoodConsole(Idle) /\ Idle.at = "idle"
BY DEF GoodConsole, Idle

LEMMA BeginStep ==
  ASSUME CatalogInv, NEW c \in Consoles, NEW r \in Requests, Begin(c, r) PROVE CatalogInv'
<1>1. PICK at : at = IF r.op \in Probes THEN "tested" ELSE "write"
  OBVIOUS
<1>2. PICK e : e = FirstRead(r)
  OBVIOUS
<1>3. PICK m : m = [at |-> at, request |-> r, stamp |-> clock, seen |-> e,
                    servers |-> NoRows, tags |-> NoRows, missed |-> FALSE, adapters |-> NoRows,
                    ok |-> TRUE]
  OBVIOUS
<1>4. console' = [console EXCEPT ![c] = m] /\ UNCHANGED <<servers, tags>>
  BY <1>1, <1>2, <1>3 DEF Begin, Probes
<1>5. r.op = "discover" => \A t \in DOMAIN e : HostOf[t] = r.server
  BY <1>2 DEF FirstRead, TagsOf
<1>6. GoodConsole(m)
  BY <1>1, <1>3, <1>5 DEF GoodConsole, Fields, Probes
<1>7. m.at \notin {"sync", "commit"}
  BY <1>1, <1>3
<1> QED BY <1>4, <1>6, <1>7, Moved

\* A console that ends its mutation.
LEMMA IdleStep ==
  ASSUME CatalogInv, NEW c \in Consoles, console' = [console EXCEPT ![c] = Idle],
         tags' = tags, DOMAIN servers' = DOMAIN servers
  PROVE  CatalogInv'
BY GoodIdle, Moved

LEMMA EndStep ==
  ASSUME CatalogInv, NEW c \in Consoles,
         Refuse(c) \/ Abort(c) \/ Die(c) \/ Record(c) \/ RecordTest(c)
  PROVE  CatalogInv' /\ DOMAIN servers' = DOMAIN servers /\ tags' = tags
<1>1. console' = [console EXCEPT ![c] = Idle] /\ tags' = tags
  BY DEF Refuse, Abort, Die, Record, RecordTest
<1>2. DOMAIN servers' = DOMAIN servers
  BY DEF Refuse, Abort, Die, Record, RecordTest
<1> QED BY <1>1, <1>2, IdleStep

LEMMA SyncStep ==
  ASSUME CatalogInv, NEW c \in Consoles, Sync(c) PROVE CatalogInv'
<1>1. PICK m : m = console[c]
  OBVIOUS
<1>2. /\ m.at = "sync" /\ console' = [console EXCEPT ![c] = [m EXCEPT !.at = "commit"]]
      /\ UNCHANGED <<servers, tags>>
  BY <1>1 DEF Sync
<1>3. GoodConsole(m)
  BY <1>1 DEF CatalogInv, ConsolesOK
<1> QED BY <1>1, <1>2, <1>3, Advanced, Moved

LEMMA BrokerStep ==
  ASSUME CatalogInv, NEW c \in Consoles, ListAdapters(c) \/ Apply(c) \/ ApplyFails(c)
  PROVE  CatalogInv'
<1>1. PICK m : m = console[c]
  OBVIOUS
<1>2. GoodConsole(m)
  BY <1>1 DEF CatalogInv, ConsolesOK
<1>3. CASE Apply(c)
  <2>1. /\ m.at = "apply" /\ console' = [console EXCEPT ![c] = [m EXCEPT !.at = "record"]]
        /\ UNCHANGED <<servers, tags>>
    BY <1>1, <1>3 DEF Apply
  <2> QED BY <1>1, <1>2, <2>1, Advanced, Moved
<1>4. CASE ListAdapters(c)
  <2>1. PICK a : a = Adapters(servers, tags)
    OBVIOUS
  <2>2. PICK n : n = [m EXCEPT !.at = "apply", !.adapters = a]
    OBVIOUS
  <2>3. m.at = "list" /\ console' = [console EXCEPT ![c] = n] /\ UNCHANGED <<servers, tags>>
    BY <1>1, <1>4, <2>1, <2>2 DEF ListAdapters
  <2>4. DOMAIN n = Fields /\ n.at = "apply" /\ n.request = m.request /\ n.seen = m.seen
        /\ n.missed = m.missed /\ n.ok = m.ok
    BY <1>2, <2>2, <2>3 DEF GoodConsole, Fields
  <2>5. GoodConsole(n)
    BY <1>2, <2>3, <2>4 DEF GoodConsole
  <2> QED BY <2>3, <2>4, <2>5, Moved
<1>5. CASE ApplyFails(c)
  <2>1. PICK n : n = [m EXCEPT !.at = "record", !.ok = FALSE]
    OBVIOUS
  <2>2. m.at = "apply" /\ console' = [console EXCEPT ![c] = n] /\ UNCHANGED <<servers, tags>>
    BY <1>1, <1>5, <2>1 DEF ApplyFails
  <2>3. DOMAIN n = Fields /\ n.at = "record" /\ n.request = m.request /\ n.seen = m.seen
        /\ n.missed = m.missed /\ n.ok = FALSE
    BY <1>2, <2>1, <2>2 DEF GoodConsole, Fields
  <2>4. GoodConsole(n)
    BY <1>2, <2>2, <2>3 DEF GoodConsole
  <2> QED BY <2>2, <2>3, <2>4, Moved
<1> QED BY <1>3, <1>4, <1>5

\* The connector writes neither the catalog nor the consoles.
LEMMA ConnectorStep ==
  ASSUME CatalogInv, Supervise \/ LoadFails \/ UNCHANGED catalogVars
  PROVE  CatalogInv' /\ UNCHANGED <<servers, tags, console, file, edge, excused>>
<1>1. UNCHANGED <<servers, tags, console, file, edge, excused>>
  BY DEF Supervise, Poll, Retry, LoadServers, LoadTags, LoadFails, catalogVars
<1>2. LocksOK' /\ RowsOK' /\ TopicsOK' /\ TablesOK'
  BY <1>1, KeepStep
<1>3. ConsolesOK'
  BY <1>1 DEF CatalogInv, ConsolesOK
<1> QED BY <1>1, <1>2, <1>3 DEF CatalogInv

-----------------------------------------------------------------------------
(* Writing and committing                                                   *)

\* The row of the server: of the one server, and marked unless it is deleted.
LEMMA ServerRowsFacts ==
  ASSUME NEW m, NEW now
  PROVE  LET ss == ServerRows(m, now)
             s == Target(m.request)
         IN  /\ DOMAIN ss \subseteq {s}
             /\ s \in DOMAIN servers => s \in DOMAIN ss
             /\ m.request.op = "saveServer" => s \in DOMAIN ss
             /\ m.request.op # "saveServer" => DOMAIN ss \subseteq DOMAIN servers
             /\ m.request.op # "deleteServer" =>
                  \A k \in DOMAIN ss : ss[k] # Gone /\ ss[k].error = "apply"
<1>1. PICK p : p = Pending(now)
  OBVIOUS
<1>2. p # Gone /\ p.error = "apply"
  BY <1>1, NotGone
<1>3. m.request.op = "saveServer" => Target(m.request) = m.request.server
  BY DEF Target, OnTag
<1> QED BY <1>1, <1>2, <1>3 DEF ServerRows

\* The rows of tags: of the one server, with the stored topic or the one asked for.
LEMMA TagRowsFacts ==
  ASSUME TablesOK, NEW m, GoodConsole(m), m.at = "write", ~Refused(m), NEW now
  PROVE  LET r == m.request
             ts == TagRows(m, now)
         IN  /\ \A t \in DOMAIN ts : HostOf[t] = Target(r) /\ (ts[t] = Gone \/ DOMAIN ts[t] = Columns)
             /\ r.op # "deleteServer" /\ DOMAIN ts # {} => Target(r) \in DOMAIN servers
             /\ r.op = "deleteServer" =>
                  /\ Target(r) \in DOMAIN servers
                  /\ \A t \in DOMAIN ts : ts[t] = Gone
                  /\ \A t \in DOMAIN tags : HostOf[t] = Target(r) => t \in DOMAIN ts
             /\ r.op \in {"saveTag", "updateTag"} => DOMAIN ts # {}
             /\ r.op = "unsubscribe" /\ ts # NoRows => DOMAIN ts # {}
             /\ GoodTopics(r, ts)
<1>1. PICK r : r = m.request
  OBVIOUS
<1>2. PICK ts : ts = TagRows(m, now)
  OBVIOUS
<1>3. r.op \in {"saveServer", "deleteServer", "saveTag", "updateTag", "unsubscribe", "discover"}
  BY <1>1, RequestsAssumption DEF GoodConsole, Probes
<1>4. CASE r.op = "saveServer"
  <2>1. ts = NoRows /\ DOMAIN ts = {}
    BY <1>1, <1>2, <1>4 DEF TagRows, NoRows
  <2> QED BY <1>1, <1>2, <1>4, <2>1 DEF GoodTopics
<1>5. CASE r.op = "deleteServer"
  <2>1. ts = [t \in TagsOf(r.server) |-> Gone] /\ Target(r) = r.server
    BY <1>1, <1>2, <1>5 DEF TagRows, Target, OnTag
  <2>2. r.server \in DOMAIN servers
    BY <1>1, <1>5 DEF Refused
  <2> QED BY <1>1, <1>2, <1>5, <2>1, <2>2 DEF GoodTopics, TagsOf
<1>6. CASE r.op = "saveTag"
  <2>1. ts = [t \in {r.tag} |-> [topic |-> r.topic, subscribed |-> r.subscribed, at |-> now]]
        /\ Target(r) = HostOf[r.tag]
    BY <1>1, <1>2, <1>6 DEF TagRows, Target, OnTag
  <2>2. Target(r) \in DOMAIN servers
    BY <1>1, <1>6 DEF Refused
  <2> QED BY <1>1, <1>2, <1>6, <2>1, <2>2 DEF GoodTopics, Columns
<1>7. CASE r.op = "updateTag"
  <2>1. r.tag \in DOMAIN tags
    BY <1>1, <1>7 DEF Refused
  <2>2. ts = [t \in {r.tag} |-> [tags[t] EXCEPT !.topic = r.topic, !.at = now]]
        /\ Target(r) = HostOf[r.tag]
    BY <1>1, <1>2, <1>7, <2>1 DEF TagRows, Target, OnTag
  <2>3. \A t \in DOMAIN ts : ts[t].topic = r.topic /\ DOMAIN ts[t] = Columns
    <3>1. PICK old : old = tags[r.tag]
      OBVIOUS
    <3>2. PICK new : new = [old EXCEPT !.topic = r.topic, !.at = now]
      OBVIOUS
    <3>3. DOMAIN old = Columns
      BY <2>1, <3>1 DEF TablesOK
    <3>4. new.topic = r.topic /\ DOMAIN new = Columns
      BY <3>2, <3>3 DEF Columns
    <3> QED BY <2>2, <3>1, <3>2, <3>4
  <2>4. Target(r) \in DOMAIN servers
    BY <2>1, <2>2 DEF TablesOK
  <2> QED BY ZenonT(40), <1>1, <1>2, <1>7, <2>1, <2>2, <2>3, <2>4 DEF GoodTopics
<1>8. CASE r.op = "unsubscribe"
  <2>1. CASE r.tag \in DOMAIN tags
    <3>1. ts = [t \in {r.tag} |-> [tags[t] EXCEPT !.subscribed = FALSE, !.at = now]]
          /\ Target(r) = HostOf[r.tag]
      BY <1>1, <1>2, <1>8, <2>1 DEF TagRows, Target, OnTag
    <3>2. Target(r) \in DOMAIN servers
      BY <2>1, <3>1 DEF TablesOK
    <3>3. \A t \in DOMAIN ts : ts[t].topic = tags[t].topic /\ DOMAIN ts[t] = Columns
      <4>1. PICK old : old = tags[r.tag]
        OBVIOUS
      <4>2. PICK new : new = [old EXCEPT !.subscribed = FALSE, !.at = now]
        OBVIOUS
      <4>3. DOMAIN old = Columns
        BY <2>1, <4>1 DEF TablesOK
      <4>4. new.topic = old.topic /\ DOMAIN new = Columns
        BY <4>2, <4>3 DEF Columns
      <4> QED BY <3>1, <4>1, <4>2, <4>4
    <3> QED BY <1>1, <1>2, <1>8, <3>1, <3>2, <3>3 DEF GoodTopics
  <2>2. CASE r.tag \notin DOMAIN tags
    <3>1. ts = NoRows /\ DOMAIN ts = {}
      BY <1>1, <1>2, <1>8, <2>2 DEF TagRows, NoRows
    <3> QED BY <1>1, <1>2, <1>8, <3>1 DEF GoodTopics
  <2> QED BY <2>1, <2>2
<1>9. CASE r.op = "discover"
  <2>1. ts = Discovered(m, now) /\ Target(r) = r.server
    BY <1>1, <1>2, <1>9 DEF TagRows, Target, OnTag
  <2>2. DOMAIN ts = DOMAIN m.seen \union r.found
    BY <1>1, <2>1 DEF Discovered
  <2>3. \A t \in DOMAIN ts : HostOf[t] = r.server /\ DOMAIN ts[t] = Columns
    <3>1. \A t \in DOMAIN ts : DOMAIN ts[t] = Columns
      BY <2>1 DEF Discovered, Columns
    <3>2. \A t \in DOMAIN ts : HostOf[t] = r.server
      BY <1>1, <1>9, <2>2, RequestsAssumption DEF GoodConsole
    <3> QED BY <3>1, <3>2
  <2>4. DOMAIN ts # {} => Target(r) \in DOMAIN servers
    BY <1>1, <1>9, <2>2 DEF Refused
  <2>5. \A t \in DOMAIN ts \intersect DOMAIN tags : ts[t].topic = tags[t].topic
    BY <2>1 DEF Discovered
  <2> QED BY <1>1, <1>2, <1>9, <2>1, <2>3, <2>4, <2>5 DEF GoodTopics
<1> QED BY <1>3, <1>4, <1>5, <1>6, <1>7, <1>8, <1>9

\* A transaction writes rows that nobody holds.
LEMMA WriteStep ==
  ASSUME CatalogInv, NEW c \in Consoles, Write(c)
  PROVE  CatalogInv' /\ UNCHANGED <<servers, tags, file, edge, excused>>
<1>1. PICK m : m = console[c]
  OBVIOUS
<1>2. PICK now : now = IF m.request.op = "discover" THEN clock ELSE m.stamp
  OBVIOUS
<1>3. PICK ss : ss = ServerRows(m, now)
  OBVIOUS
<1>4. PICK ts : ts = TagRows(m, now)
  OBVIOUS
<1>5. PICK n : n = [m EXCEPT !.at = "sync", !.stamp = now, !.servers = ss, !.tags = ts]
  OBVIOUS
<1>6. /\ m.at = "write" /\ ~Refused(m) /\ Free({Target(m.request)}, DOMAIN ts)
      /\ UNCHANGED <<servers, tags, file, edge, excused>>
  BY <1>1, <1>2, <1>4 DEF Write
<1>7. GoodConsole(m)
  BY <1>1 DEF CatalogInv, ConsolesOK
<1>8. console' = [console EXCEPT ![c] = n]
  BY <1>1, <1>2, <1>3, <1>4, <1>5 DEF Write
<1>9. DOMAIN n = Fields /\ n.at = "sync" /\ n.request = m.request /\ n.seen = m.seen
      /\ n.servers = ss /\ n.tags = ts /\ n.missed = m.missed /\ n.ok = m.ok
  BY <1>5, <1>6, <1>7 DEF GoodConsole, Fields
<1>10. GoodConsole(n)
  BY <1>6, <1>7, <1>9 DEF GoodConsole
<1>11. /\ ConsolesOK' /\ console'[c] = n
       /\ \A d \in Consoles : d # c => console'[d] = console[d]
  BY <1>8, <1>10, ConsoleSet DEF CatalogInv
<1>12. DOMAIN ss \subseteq {Target(m.request)}
  BY <1>3, ServerRowsFacts
<1>13. LocksOK'
  <2>1. \A d \in Holding : DOMAIN console[d].servers \intersect DOMAIN ss = {}
                           /\ DOMAIN console[d].tags \intersect DOMAIN ts = {}
    BY <1>6, <1>12 DEF Free
  <2>2. \A d \in Holding' : d # c => d \in Holding /\ console'[d] = console[d]
    BY <1>11 DEF Holding
  <2> QED BY <1>9, <1>11, <2>1, <2>2 DEF CatalogInv, LocksOK
<1>14. GoodRows(m.request, ss, ts)
  BY <1>3, <1>4, <1>6, <1>7, ServerRowsFacts, TagRowsFacts DEF CatalogInv, GoodRows
<1>15. GoodTopics(m.request, ts)
  BY <1>4, <1>6, <1>7, TagRowsFacts DEF CatalogInv
<1>16. RowsOK' /\ TopicsOK' /\ TablesOK'
  BY <1>6, <1>9, <1>11, <1>14, <1>15
  DEF CatalogInv, RowsOK, GoodRows, TopicsOK, GoodTopics, TablesOK, Holding
<1> QED BY <1>6, <1>11, <1>13, <1>16 DEF CatalogInv

\* What is left of the catalog after the commit of c.
LEMMA Committing ==
  ASSUME CatalogInv, NEW c \in Consoles, Commit(c)
  PROVE  LET m == console[c] IN
         /\ m.at = "commit" /\ GoodConsole(m)
         /\ \A t : t \in DOMAIN tags' <=>
                   \/ t \in DOMAIN m.tags /\ m.tags[t] # Gone
                   \/ t \in DOMAIN tags /\ t \notin DOMAIN m.tags
         /\ \A t \in DOMAIN tags' : tags'[t] = IF t \in DOMAIN m.tags THEN m.tags[t] ELSE tags[t]
         /\ \A s : s \in DOMAIN servers' <=>
                   \/ s \in DOMAIN m.servers /\ m.servers[s] # Gone
                   \/ s \in DOMAIN servers /\ s \notin DOMAIN m.servers
         /\ \A s \in DOMAIN servers' :
              servers'[s] = IF s \in DOMAIN m.servers THEN m.servers[s] ELSE servers[s]
<1>1. servers' = Overlay(servers, console[c].servers) /\ tags' = Overlay(tags, console[c].tags)
      /\ console[c].at = "commit"
  BY DEF Commit, Committed
<1>2. GoodConsole(console[c])
  BY DEF CatalogInv, ConsolesOK
<1> QED BY <1>1, <1>2, OverlayRows

\* The other consoles keep what they do; they may only have missed the commit.
LEMMA OvertakenFacts ==
  ASSUME ConsolesOK, NEW c \in Consoles, Commit(c)
  PROVE  /\ ConsolesOK'
         /\ \A d \in Consoles \ {c} :
              /\ console'[d].at = console[d].at
              /\ console[d].at = "idle" => console'[d] = console[d]
              /\ console[d].at # "idle" =>
                   /\ console'[d].request = console[d].request
                   /\ console'[d].servers = console[d].servers
                   /\ console'[d].tags = console[d].tags
                   /\ console'[d].ok = console[d].ok
                   /\ console'[d].adapters = console[d].adapters
                   /\ console'[d].missed
         /\ console'[c].at \in {"idle", "list"}
         /\ console'[c].at = "list" =>
              /\ console'[c] = [console[c] EXCEPT !.at = "list"]
              /\ ~(console[c].request.op = "unsubscribe" /\ console[c].tags = NoRows)
         /\ console'[c].at = "idle" =>
              console[c].request.op = "unsubscribe" /\ console[c].tags = NoRows
<1>1. PICK m : m = console[c]
  OBVIOUS
<1>2. PICK n : n = IF m.request.op = "unsubscribe" /\ m.tags = NoRows THEN Idle
                   ELSE [m EXCEPT !.at = "list"]
  OBVIOUS
<1>3. m.at = "commit" /\ GoodConsole(m)
  BY <1>1 DEF Commit, ConsolesOK
<1>4. console' = [Overtaken(c) EXCEPT ![c] = n]
  BY <1>1, <1>2 DEF Commit
<1>5. GoodConsole(n) /\ n.at \in {"idle", "list"}
  BY <1>2, <1>3, Advanced, GoodIdle
<1>6. /\ console' = [d \in Consoles |-> console'[d]] /\ console'[c] = n
      /\ \A d \in Consoles \ {c} :
           console'[d] = IF console[d].at = "idle" THEN console[d]
                         ELSE [console[d] EXCEPT !.missed = TRUE]
  BY <1>4 DEF Overtaken
<1>7. ASSUME NEW d \in Consoles \ {c}
      PROVE  /\ GoodConsole(console'[d]) /\ console'[d].at = console[d].at
             /\ console[d].at = "idle" => console'[d] = console[d]
             /\ console[d].at # "idle" =>
                  /\ console'[d].request = console[d].request
                  /\ console'[d].servers = console[d].servers
                  /\ console'[d].tags = console[d].tags
                  /\ console'[d].ok = console[d].ok
                  /\ console'[d].adapters = console[d].adapters
                  /\ console'[d].missed
  <2>1. PICK o : o = console[d]
    OBVIOUS
  <2>2. GoodConsole(o)
    BY <2>1 DEF ConsolesOK
  <2>3. CASE o.at = "idle"
    BY <1>6, <2>1, <2>2, <2>3
  <2>4. CASE o.at # "idle"
    <3>1. PICK p : p = [o EXCEPT !.missed = TRUE]
      OBVIOUS
    <3>2. /\ DOMAIN p = Fields /\ p.at = o.at /\ p.request = o.request /\ p.seen = o.seen
          /\ p.servers = o.servers /\ p.tags = o.tags /\ p.missed = TRUE
          /\ p.adapters = o.adapters /\ p.ok = o.ok
      BY <2>2, <2>4, <3>1 DEF GoodConsole, Fields
    <3>3. GoodConsole(p)
      BY <2>2, <2>4, <3>2 DEF GoodConsole
    <3>4. console'[d] = p
      BY <1>6, <2>1, <2>4, <3>1
    <3> QED BY <2>1, <2>4, <3>2, <3>3, <3>4
  <2> QED BY <2>3, <2>4
<1>8. ConsolesOK'
  <2>1. \A d \in Consoles : GoodConsole(console'[d])
    BY <1>5, <1>6, <1>7
  <2> QED BY <1>6, <2>1 DEF ConsolesOK, GoodConsole
<1>9. /\ console'[c].at = "list" =>
           /\ console'[c] = [console[c] EXCEPT !.at = "list"]
           /\ ~(console[c].request.op = "unsubscribe" /\ console[c].tags = NoRows)
      /\ console'[c].at = "idle" =>
              console[c].request.op = "unsubscribe" /\ console[c].tags = NoRows
  BY <1>1, <1>2, <1>3, <1>6, Advanced, GoodIdle
<1> QED BY <1>5, <1>6, <1>7, <1>8, <1>9

LEMMA CommitStep ==
  ASSUME CatalogInv, NEW c \in Consoles, Commit(c) PROVE CatalogInv'
<1>1. PICK m : m = console[c]
  OBVIOUS
<1>2. /\ m.at = "commit" /\ c \in Holding
      /\ \A t : t \in DOMAIN tags' <=>
                \/ t \in DOMAIN m.tags /\ m.tags[t] # Gone
                \/ t \in DOMAIN tags /\ t \notin DOMAIN m.tags
      /\ \A t \in DOMAIN tags' : tags'[t] = IF t \in DOMAIN m.tags THEN m.tags[t] ELSE tags[t]
      /\ \A s : s \in DOMAIN servers' <=>
                \/ s \in DOMAIN m.servers /\ m.servers[s] # Gone
                \/ s \in DOMAIN servers /\ s \notin DOMAIN m.servers
  BY <1>1, Committing DEF Holding
<1>3. GoodRows(m.request, m.servers, m.tags)
  BY <1>1, <1>2 DEF CatalogInv, RowsOK
<1>4. ConsolesOK'
  BY OvertakenFacts DEF CatalogInv
<1>5. \A d \in Holding' : /\ d \in Holding /\ d # c
                          /\ console'[d].request = console[d].request
                          /\ console'[d].servers = console[d].servers
                          /\ console'[d].tags = console[d].tags
  BY OvertakenFacts DEF CatalogInv, Holding
<1>6. LocksOK'
  BY <1>5 DEF CatalogInv, LocksOK
<1>7. \A d \in Holding' : /\ DOMAIN console[d].servers \intersect DOMAIN m.servers = {}
                          /\ DOMAIN console[d].tags \intersect DOMAIN m.tags = {}
  BY <1>1, <1>2, <1>5 DEF CatalogInv, LocksOK
<1>8. RowsOK'
  <2> SUFFICES ASSUME NEW d \in Holding'
               PROVE  GoodRows(console[d].request, console[d].servers, console[d].tags)'
    BY <1>5 DEF RowsOK, GoodRows
  <2>1. PICK r, ss, ts : r = console[d].request /\ ss = console[d].servers /\ ts = console[d].tags
    OBVIOUS
  <2>2. GoodRows(r, ss, ts)
    BY <1>5, <2>1 DEF CatalogInv, RowsOK
  <2>3. r.op = "deleteServer" => \A t \in DOMAIN tags' : HostOf[t] = Target(r) => t \in DOMAIN ts
    <3> SUFFICES ASSUME r.op = "deleteServer", NEW t \in DOMAIN tags', HostOf[t] = Target(r)
                 PROVE  t \in DOMAIN ts
      OBVIOUS
    <3>1. CASE t \in DOMAIN tags
      BY <2>2, <3>1 DEF GoodRows
    <3>2. CASE t \notin DOMAIN tags
      <4>1. t \in DOMAIN m.tags /\ m.tags[t] # Gone
        BY <1>2, <3>2
      <4>2. Target(m.request) \in DOMAIN m.servers /\ HostOf[t] = Target(m.request)
        BY <1>3, <4>1 DEF GoodRows
      <4>3. Target(r) \in DOMAIN ss
        BY <2>2 DEF GoodRows
      <4> QED BY <1>7, <2>1, <4>2, <4>3
    <3> QED BY <3>1, <3>2
  <2>4. r.op # "saveServer" => DOMAIN ss \subseteq DOMAIN servers'
    <3>1. r.op # "saveServer" => DOMAIN ss \subseteq DOMAIN servers
      BY <2>2 DEF GoodRows
    <3> QED BY <1>2, <1>7, <2>1, <3>1
  <2>5. GoodRows(r, ss, ts)'
    BY <2>2, <2>3, <2>4 DEF GoodRows
  <2>6. /\ console'[d].request = r /\ console'[d].servers = ss /\ console'[d].tags = ts
    BY <1>5, <2>1
  <2> QED BY <2>5, <2>6 DEF GoodRows
<1>9. TopicsOK'
  <2>1. \A d \in Holding' : \A t \in DOMAIN console[d].tags \intersect DOMAIN tags' :
          t \in DOMAIN tags /\ tags'[t] = tags[t]
    BY <1>2, <1>7
  <2> QED BY <1>5, <2>1 DEF CatalogInv, TopicsOK, GoodTopics
<1>10. TablesOK'
  <2> SUFFICES ASSUME NEW t \in DOMAIN tags'
               PROVE  HostOf[t] \in DOMAIN servers' /\ DOMAIN tags'[t] = Columns
    BY DEF TablesOK
  <2>1. CASE t \in DOMAIN m.tags
    <3>1. m.tags[t] # Gone /\ tags'[t] = m.tags[t]
      BY <1>2, <2>1
    <3>2. /\ HostOf[t] = Target(m.request) /\ DOMAIN m.tags[t] = Columns
          /\ Target(m.request) \in DOMAIN m.servers
          /\ m.servers[Target(m.request)] # Gone
      BY <1>3, <2>1, <3>1 DEF GoodRows
    <3> QED BY <1>2, <3>1, <3>2
  <2>2. CASE t \notin DOMAIN m.tags
    <3>1. t \in DOMAIN tags /\ tags'[t] = tags[t]
      BY <1>2, <2>2
    <3>2. HostOf[t] \in DOMAIN servers /\ DOMAIN tags[t] = Columns
      BY <3>1 DEF CatalogInv, TablesOK
    <3>3. HostOf[t] \in DOMAIN m.servers => m.servers[HostOf[t]] # Gone
      BY <1>3, <2>2, <3>1 DEF GoodRows
    <3> QED BY <1>2, <3>1, <3>2, <3>3
  <2> QED BY <2>1, <2>2
<1> QED BY <1>4, <1>6, <1>8, <1>9, <1>10 DEF CatalogInv

LEMMA CatalogBegins == CatalogInit => CatalogInv
<1> SUFFICES ASSUME CatalogInit PROVE CatalogInv
  OBVIOUS
<1>1. console = [c \in Consoles |-> Idle]
  BY DEF CatalogInit
<1>2. ConsolesOK /\ Holding = {}
  BY <1>1, GoodIdle DEF ConsolesOK, Holding
<1>3. LocksOK /\ RowsOK /\ TopicsOK
  BY <1>2 DEF LocksOK, RowsOK, TopicsOK
<1>4. TablesOK
  BY CatalogsAssumption DEF CatalogInit, TablesOK, Columns
<1> QED BY <1>2, <1>3, <1>4 DEF CatalogInv

LEMMA CatalogKept == CatalogInv /\ [CatalogNext]_catalogVars => CatalogInv'
<1> SUFFICES ASSUME CatalogInv, [CatalogNext]_catalogVars PROVE CatalogInv'
  OBVIOUS
<1>1. CASE Supervise \/ LoadFails \/ UNCHANGED catalogVars
  BY <1>1, ConnectorStep
<1>2. ASSUME NEW c \in Consoles, NEW r \in Requests, Begin(c, r) PROVE CatalogInv'
  BY <1>2, BeginStep
<1>3. ASSUME NEW c \in Consoles, Step(c) \/ Abort(c) \/ ApplyFails(c) \/ Die(c)
      PROVE  CatalogInv'
  BY <1>3, WriteStep, SyncStep, CommitStep, BrokerStep, EndStep DEF Step
<1> QED BY <1>1, <1>2, <1>3 DEF CatalogNext

LEMMA CatalogAlwaysKept == CatalogSpec => []CatalogInv
BY CatalogBegins, CatalogKept, PTL DEF CatalogSpec

-----------------------------------------------------------------------------
(* The topic of an engineer                                                 *)

\* Only a commit writes tags.
LEMMA OnlyCommitsWrite ==
  ASSUME CatalogInv, CatalogNext, tags' # tags
  PROVE  \E c \in Consoles : Commit(c)
BY Zenon DEF CatalogNext, Step, Supervise, Begin, Refuse, Write, Sync, ListAdapters, Apply, Record,
   RecordTest, Abort, ApplyFails, Die, Poll, Retry, LoadServers, LoadTags, LoadFails

\* "Engineer edits survive a re-discovery" (merge_discovered): for any interleaving of
\* mutations, the topic of a stored tag only becomes the one that a saveTag or an
\* updateTag of that tag asks for.
THEOREM EditsAlwaysSurvive == CatalogSpec => EngineerEditsSurvive
<1>1. ASSUME CatalogInv, [CatalogNext]_catalogVars
      PROVE  [\A t \in DOMAIN tags \intersect DOMAIN tags' :
                tags'[t].topic # tags[t].topic =>
                  \E c \in Consoles : LET r == console[c].request IN
                    /\ console[c].at = "commit" /\ r.op \in {"saveTag", "updateTag"}
                    /\ r.tag = t /\ r.topic = tags'[t].topic]_catalogVars
  <2> SUFFICES ASSUME NEW t \in DOMAIN tags \intersect DOMAIN tags',
                      tags'[t].topic # tags[t].topic
               PROVE  \E c \in Consoles : LET r == console[c].request IN
                        /\ console[c].at = "commit" /\ r.op \in {"saveTag", "updateTag"}
                        /\ r.tag = t /\ r.topic = tags'[t].topic
    OBVIOUS
  <2>1. tags' # tags /\ CatalogNext
    BY <1>1 DEF catalogVars
  <2>2. PICK c \in Consoles : Commit(c)
    BY <1>1, <2>1, OnlyCommitsWrite
  <2>3. PICK m : m = console[c]
    OBVIOUS
  <2>4. /\ m.at = "commit" /\ c \in Holding
        /\ tags'[t] = (IF t \in DOMAIN m.tags THEN m.tags[t] ELSE tags[t])
        /\ t \in DOMAIN m.tags => m.tags[t] # Gone
    BY <1>1, <2>2, <2>3, Committing DEF Holding
  <2>5. t \in DOMAIN m.tags /\ m.tags[t] # Gone /\ tags'[t] = m.tags[t]
    BY <2>4
  <2>6. GoodTopics(m.request, m.tags)
    BY <1>1, <2>3, <2>4 DEF CatalogInv, TopicsOK
  <2> QED BY <2>3, <2>4, <2>5, <2>6 DEF GoodTopics
<1> QED BY <1>1, CatalogAlwaysKept, PTL DEF CatalogSpec, EngineerEditsSurvive

-----------------------------------------------------------------------------
(* The copies of the catalog                                                *)

InBroker(m) == m.at \in {"list", "apply", "record"}

\* config.xml is what the committed rows say, or what the one transaction that has
\* rewritten it is about to commit.
FileOK ==
  /\ (\A c \in Consoles : console[c].at # "commit") => file = Adapters(servers, tags)
  /\ \A c \in Consoles :
       console[c].at = "commit" /\ (\A d \in Consoles \ {c} : console[d].at # "commit") =>
         file = SeenBy(console[c])

\* One mutation at a time applies the adapters, those of the committed rows, and its
\* server is there to say that they are not applied.
GoodBroker(m) ==
  /\ m.at \in {"apply", "record"} => m.adapters = Adapters(servers, tags)
  /\ m.at = "record" /\ m.ok => edge = m.adapters
  /\ InBroker(m) /\ m.request.op # "deleteServer" => Target(m.request) \in DOMAIN servers
  /\ m.at \in {"write", "sync", "commit"} /\ m.request.op = "discover" /\ ~m.missed =>
       m.request.server \in DOMAIN servers
BrokerOK ==
  /\ \A c, d \in Consoles : InBroker(console[c]) /\ InBroker(console[d]) => c = d
  /\ \A c \in Consoles : GoodBroker(console[c])

\* HiveMQ Edge runs the adapters of the catalog, or a server waits for it, or a
\* mutation is about to apply them.
Waiting == \E s \in DOMAIN servers : servers[s].error = "apply"
EdgeOK ==
  \/ edge = Adapters(servers, tags)
  \/ Waiting
  \/ \E c \in Consoles : InBroker(console[c])

CopiesOK == excused \in BOOLEAN /\ (~excused => FileOK /\ BrokerOK /\ EdgeOK)

LEMMA SameAdapters ==
  ASSUME tags' = tags, DOMAIN servers' = DOMAIN servers
  PROVE  /\ Adapters(servers, tags)' = Adapters(servers, tags)
         /\ \A ss, ts : Adapters(Overlay(servers, ss), Overlay(tags, ts))'
                         = Adapters(Overlay(servers, ss), Overlay(tags, ts))
<1>1. \A ss : DOMAIN Overlay(servers', ss) = DOMAIN Overlay(servers, ss)
  BY DEF Overlay
<1>2. \A ts : Overlay(tags', ts) = Overlay(tags, ts)
  OBVIOUS
<1> QED BY <1>1, <1>2 DEF Adapters

\* A step of a console that does not touch config.xml.
LEMMA FileKept ==
  ASSUME FileOK, NEW c \in Consoles, console[c].at # "commit", console'[c].at # "commit",
         \A d \in Consoles : d # c => console'[d] = console[d],
         tags' = tags, DOMAIN servers' = DOMAIN servers, file' = file
  PROVE  FileOK'
<1>1. /\ Adapters(servers, tags)' = Adapters(servers, tags)
      /\ \A ss, ts : Adapters(Overlay(servers, ss), Overlay(tags, ts))'
                      = Adapters(Overlay(servers, ss), Overlay(tags, ts))
  BY SameAdapters
<1>2. (\A d \in Consoles : console'[d].at # "commit") => file' = Adapters(servers, tags)'
  BY <1>1 DEF FileOK
<1>3. ASSUME NEW d \in Consoles, console'[d].at = "commit",
             \A e \in Consoles \ {d} : console'[e].at # "commit"
      PROVE  file' = SeenBy(console[d])'
  <2>1. d # c /\ console'[d] = console[d]
    BY <1>3
  <2>2. file = SeenBy(console[d])
    BY <1>3, <2>1 DEF FileOK
  <2>3. PICK m : m = console[d]
    OBVIOUS
  <2>4. SeenBy(m)' = SeenBy(m)
    BY <1>1 DEF SeenBy
  <2> QED BY <2>1, <2>2, <2>3, <2>4 DEF SeenBy
<1> QED BY <1>2, <1>3 DEF FileOK

\* A step of a console that does not begin to apply the adapters.
LEMMA BrokerKept ==
  ASSUME BrokerOK, NEW c \in Consoles, InBroker(console[c])' => InBroker(console[c]),
         GoodBroker(console[c])',
         \A d \in Consoles : d # c => console'[d] = console[d],
         tags' = tags, DOMAIN servers' = DOMAIN servers,
         edge' = edge \/ InBroker(console[c])
  PROVE  BrokerOK'
<1>1. Adapters(servers, tags)' = Adapters(servers, tags)
  BY SameAdapters
<1>2. ASSUME NEW d \in Consoles, d # c PROVE GoodBroker(console[d])'
  <2>1. PICK m : m = console[d]
    OBVIOUS
  <2>2. GoodBroker(m)
    BY <2>1 DEF BrokerOK
  <2>3. m.at = "record" => edge' = edge
    BY <1>2, <2>1 DEF BrokerOK, InBroker
  <2>4. GoodBroker(m)'
    BY <1>1, <2>2, <2>3 DEF GoodBroker, InBroker
  <2>5. console'[d] = m
    BY <1>2, <2>1
  <2> QED BY <2>4, <2>5 DEF GoodBroker, InBroker
<1>3. \A d, e \in Consoles : InBroker(console[d])' /\ InBroker(console[e])' => d = e
  <2>1. \A d \in Consoles : InBroker(console[d])' => InBroker(console[d])
    BY DEF InBroker
  <2> QED BY <2>1 DEF BrokerOK
<1> QED BY <1>2, <1>3 DEF BrokerOK

\* A step of a console that leaves HiveMQ Edge alone and keeps the servers waiting.
LEMMA EdgeKept ==
  ASSUME EdgeOK, NEW c \in Consoles, InBroker(console[c]) => InBroker(console[c])',
         \A d \in Consoles : d # c => console'[d] = console[d],
         tags' = tags, DOMAIN servers' = DOMAIN servers, edge' = edge, Waiting => Waiting'
  PROVE  EdgeOK'
<1>1. Adapters(servers, tags)' = Adapters(servers, tags)
  BY SameAdapters
<1>2. ASSUME NEW d \in Consoles, InBroker(console[d]) PROVE InBroker(console[d])'
  BY <1>2 DEF InBroker
<1> QED BY <1>1, <1>2 DEF EdgeOK

LEMMA BeginCopies ==
  ASSUME CatalogInv, CopiesOK, NEW c \in Consoles, NEW r \in Requests, Begin(c, r)
  PROVE  CopiesOK'
<1>1. UNCHANGED <<servers, tags, file, edge, excused>> /\ console[c].at = "idle"
  BY DEF Begin
<1>2. /\ console'[c].at \in {"tested", "write"} /\ console'[c].request = r
      /\ \A d \in Consoles : d # c => console'[d] = console[d]
      /\ r.op = "discover" => r.server \in DOMAIN servers
  BY DEF Begin, CatalogInv, ConsolesOK
<1>3. GoodBroker(console[c])'
  BY <1>1, <1>2 DEF GoodBroker, InBroker, Target
<1>4. SUFFICES ASSUME ~excused PROVE FileOK' /\ BrokerOK' /\ EdgeOK'
  BY <1>1 DEF CopiesOK
<1> QED BY <1>1, <1>2, <1>3, <1>4, FileKept, BrokerKept, EdgeKept DEF CopiesOK, InBroker, Waiting

\* A mutation gives up, with or without having written.
LEMMA GiveUpCopies ==
  ASSUME CatalogInv, CopiesOK, NEW c \in Consoles, Refuse(c) \/ Abort(c) \/ Die(c)
  PROVE  CopiesOK'
<1>1. /\ console' = [console EXCEPT ![c] = Idle] /\ UNCHANGED <<servers, tags, file, edge>>
      /\ excused' \in BOOLEAN
      /\ ~excused' => ~excused /\ console[c].at \in {"write", "sync"}
  BY DEF Refuse, Abort, Die, CopiesOK
<1>2. console'[c] = Idle /\ \A d \in Consoles : d # c => console'[d] = console[d]
  BY <1>1, GoodIdle, ConsoleSet DEF CatalogInv
<1>3. GoodBroker(console[c])' /\ ~InBroker(console[c])' /\ console'[c].at = "idle"
  BY <1>2, GoodIdle DEF GoodBroker, InBroker
<1>4. SUFFICES ASSUME ~excused' PROVE FileOK' /\ BrokerOK' /\ EdgeOK'
  BY <1>1 DEF CopiesOK
<1> QED BY <1>1, <1>2, <1>3, <1>4, FileKept, BrokerKept, EdgeKept DEF CopiesOK, InBroker, Waiting

LEMMA TestCopies ==
  ASSUME CatalogInv, CopiesOK, NEW c \in Consoles, RecordTest(c)
  PROVE  CopiesOK'
<1>1. PICK m : m = console[c]
  OBVIOUS
<1>2. PICK s : s = m.request.server
  OBVIOUS
<1>3. PICK row : row = Tested(m)
  OBVIOUS
<1>4. /\ m.at = "tested" /\ console' = [console EXCEPT ![c] = Idle]
      /\ UNCHANGED <<tags, file, edge>>
      /\ servers' = IF s \in DOMAIN servers THEN [servers EXCEPT ![s] = row] ELSE servers
  BY <1>1, <1>2, <1>3 DEF RecordTest
<1>5. excused' = (excused \/ (s \in DOMAIN servers /\ servers[s].error = "apply" /\ row.error # "apply"))
  BY <1>1, <1>2, <1>3 DEF RecordTest
<1>6. /\ excused' \in BOOLEAN
      /\ ~excused' =>
           /\ ~excused
           /\ s \in DOMAIN servers /\ servers[s].error = "apply" => row.error = "apply"
  BY <1>5 DEF CopiesOK
<1>7. console'[c] = Idle /\ \A d \in Consoles : d # c => console'[d] = console[d]
  BY <1>4, GoodIdle, ConsoleSet DEF CatalogInv
<1>8. GoodBroker(console[c])' /\ ~InBroker(console[c])' /\ console'[c].at = "idle"
  BY <1>7, GoodIdle DEF GoodBroker, InBroker
<1>9. DOMAIN servers' = DOMAIN servers
  BY <1>4
<1>10. SUFFICES ASSUME ~excused' PROVE FileOK' /\ BrokerOK' /\ EdgeOK'
  BY <1>6 DEF CopiesOK
<1>11. Waiting => Waiting'
  BY <1>4, <1>6, <1>9, <1>10 DEF Waiting
<1> QED BY <1>1, <1>4, <1>6, <1>7, <1>8, <1>9, <1>10, <1>11, FileKept, BrokerKept, EdgeKept
        DEF CopiesOK, InBroker

LEMMA WriteCopies ==
  ASSUME CatalogInv, CopiesOK, NEW c \in Consoles, Write(c)
  PROVE  CopiesOK'
<1>1. PICK m : m = console[c]
  OBVIOUS
<1>2. PICK now, ss, ts : console' = [console EXCEPT ![c].at = "sync", ![c].stamp = now,
                                     ![c].servers = ss, ![c].tags = ts]
  BY DEF Write
<1>3. PICK n : n = [m EXCEPT !.at = "sync", !.stamp = now, !.servers = ss, !.tags = ts]
  OBVIOUS
<1>4. m.at = "write" /\ GoodConsole(m) /\ GoodConsole(n) /\ n.at = "sync"
      /\ n.request = m.request /\ n.missed = m.missed
  <2>1. m.at = "write" /\ GoodConsole(m)
    BY <1>1 DEF Write, CatalogInv, ConsolesOK
  <2>2. DOMAIN n = Fields /\ n.at = "sync" /\ n.request = m.request /\ n.seen = m.seen
        /\ n.missed = m.missed /\ n.ok = m.ok
    BY <1>3, <2>1 DEF GoodConsole, Fields
  <2>3. GoodConsole(n)
    BY <2>1, <2>2 DEF GoodConsole
  <2> QED BY <2>1, <2>2, <2>3
<1>5. console' = [console EXCEPT ![c] = n]
  BY <1>1, <1>2, <1>3
<1>6. console'[c] = n /\ \A d \in Consoles : d # c => console'[d] = console[d]
  BY <1>4, <1>5, ConsoleSet DEF CatalogInv
<1>7. UNCHANGED <<servers, tags, file, edge, excused>>
  BY WriteStep
<1>8. SUFFICES ASSUME ~excused PROVE FileOK' /\ BrokerOK' /\ EdgeOK'
  BY <1>7 DEF CopiesOK
<1>9. GoodBroker(m)
  BY <1>1, <1>8 DEF CopiesOK, BrokerOK
<1>10. GoodBroker(n)'
  BY <1>4, <1>7, <1>9 DEF GoodBroker, InBroker
<1>11. GoodBroker(console[c])'
  BY <1>6, <1>10 DEF GoodBroker, InBroker
<1>12. console[c].at = "write" /\ console'[c].at = "sync"
  BY <1>1, <1>4, <1>6
<1> QED BY <1>6, <1>7, <1>8, <1>11, <1>12, FileKept, BrokerKept, EdgeKept
        DEF CopiesOK, InBroker, Waiting

LEMMA SyncCopies ==
  ASSUME CatalogInv, CopiesOK, NEW c \in Consoles, Sync(c)
  PROVE  CopiesOK'
<1>1. PICK m : m = console[c]
  OBVIOUS
<1>2. PICK n : n = [m EXCEPT !.at = "commit"]
  OBVIOUS
<1>3. /\ m.at = "sync" /\ GoodConsole(m) /\ file' = SeenBy(m)
      /\ console' = [console EXCEPT ![c] = n] /\ UNCHANGED <<servers, tags, edge, excused>>
  BY <1>1, <1>2 DEF Sync, CatalogInv, ConsolesOK
<1>4. /\ GoodConsole(n) /\ n.at = "commit" /\ n.request = m.request /\ n.missed = m.missed
      /\ n.servers = m.servers /\ n.tags = m.tags
  BY <1>2, <1>3, Advanced
<1>5. console'[c] = n /\ \A d \in Consoles : d # c => console'[d] = console[d]
  BY <1>3, <1>4, ConsoleSet DEF CatalogInv
<1>6. SUFFICES ASSUME ~excused PROVE FileOK' /\ BrokerOK' /\ EdgeOK'
  BY <1>3 DEF CopiesOK
<1>7. GoodBroker(m)
  BY <1>1, <1>6 DEF CopiesOK, BrokerOK
<1>8. GoodBroker(n)'
  BY <1>3, <1>4, <1>7 DEF GoodBroker, InBroker
<1>9. GoodBroker(console[c])'
  BY <1>5, <1>8 DEF GoodBroker, InBroker
<1>10. SeenBy(console[c])' = SeenBy(m)
  BY <1>3, <1>4, <1>5, SameAdapters DEF SeenBy
<1>11. FileOK'
  BY <1>3, <1>4, <1>5, <1>10 DEF FileOK
<1>12. console[c].at = "sync" /\ console'[c].at = "commit"
  BY <1>1, <1>3, <1>4, <1>5
<1> QED BY <1>3, <1>5, <1>6, <1>9, <1>11, <1>12, BrokerKept, EdgeKept
        DEF CopiesOK, InBroker, Waiting

\* The steps of _finish_live_apply that still have to name the outcome.
LEMMA ApplyingCopies ==
  ASSUME CatalogInv, CopiesOK, NEW c \in Consoles, NEW m, m = console[c], InBroker(m),
         NEW n, GoodConsole(n), n.at \in {"apply", "record"}, n.request = m.request,
         console' = [console EXCEPT ![c] = n],
         GoodBroker(m) => n.adapters = Adapters(servers, tags),
         n.at = "record" /\ n.ok => edge' = n.adapters,
         UNCHANGED <<servers, tags, file, excused>>
  PROVE  CopiesOK'
<1>1. console'[c] = n /\ \A d \in Consoles : d # c => console'[d] = console[d]
  BY ConsoleSet DEF CatalogInv
<1>2. SUFFICES ASSUME ~excused PROVE FileOK' /\ BrokerOK' /\ EdgeOK'
  BY DEF CopiesOK
<1>3. GoodBroker(m)
  BY <1>2 DEF CopiesOK, BrokerOK
<1>4. GoodBroker(n)'
  BY <1>3 DEF GoodBroker, InBroker
<1>5. GoodBroker(console[c])' /\ InBroker(console[c])'
  BY <1>1, <1>4 DEF GoodBroker, InBroker
<1>6. BrokerOK'
  BY <1>1, <1>2, <1>5, BrokerKept DEF CopiesOK
<1>7. FileOK'
  BY <1>1, <1>2, FileKept DEF CopiesOK, InBroker
<1>8. EdgeOK'
  BY <1>5 DEF EdgeOK
<1> QED BY <1>6, <1>7, <1>8

LEMMA ApplyCopies ==
  ASSUME CatalogInv, CopiesOK, NEW c \in Consoles, ListAdapters(c) \/ Apply(c) \/ ApplyFails(c)
  PROVE  CopiesOK'
<1>1. PICK m : m = console[c]
  OBVIOUS
<1>2. GoodConsole(m)
  BY <1>1 DEF CatalogInv, ConsolesOK
<1>3. CASE ListAdapters(c)
  <2>1. PICK a : a = Adapters(servers, tags)
    OBVIOUS
  <2>2. PICK n : n = [m EXCEPT !.at = "apply", !.adapters = a]
    OBVIOUS
  <2>3. /\ m.at = "list" /\ console' = [console EXCEPT ![c] = n]
        /\ UNCHANGED <<servers, tags, file, excused>>
    BY <1>1, <1>3, <2>1, <2>2 DEF ListAdapters
  <2>4. DOMAIN n = Fields /\ n.at = "apply" /\ n.request = m.request /\ n.seen = m.seen
        /\ n.missed = m.missed /\ n.ok = m.ok /\ n.adapters = a
    BY <1>2, <2>2, <2>3 DEF GoodConsole, Fields
  <2>5. GoodConsole(n)
    BY <1>2, <2>3, <2>4 DEF GoodConsole
  <2> QED BY <1>1, <2>1, <2>3, <2>4, <2>5, ApplyingCopies DEF InBroker
<1>4. CASE Apply(c)
  <2>1. PICK n : n = [m EXCEPT !.at = "record"]
    OBVIOUS
  <2>2. /\ m.at = "apply" /\ console' = [console EXCEPT ![c] = n] /\ edge' = m.adapters
        /\ UNCHANGED <<servers, tags, file, excused>>
    BY <1>1, <1>4, <2>1 DEF Apply
  <2>3. GoodConsole(n) /\ n.at = "record" /\ n.request = m.request /\ n.adapters = m.adapters
    BY <1>2, <2>1, <2>2, Advanced
  <2>4. GoodBroker(m) => n.adapters = Adapters(servers, tags)
    BY <2>2, <2>3 DEF GoodBroker
  <2> QED BY <1>1, <2>2, <2>3, <2>4, ApplyingCopies DEF InBroker
<1>5. CASE ApplyFails(c)
  <2>1. PICK n : n = [m EXCEPT !.at = "record", !.ok = FALSE]
    OBVIOUS
  <2>2. /\ m.at = "apply" /\ console' = [console EXCEPT ![c] = n]
        /\ UNCHANGED <<servers, tags, file, excused>>
    BY <1>1, <1>5, <2>1 DEF ApplyFails
  <2>3. DOMAIN n = Fields /\ n.at = "record" /\ n.request = m.request /\ n.seen = m.seen
        /\ n.missed = m.missed /\ n.ok = FALSE /\ n.adapters = m.adapters
    BY <1>2, <2>1, <2>2 DEF GoodConsole, Fields
  <2>4. GoodConsole(n)
    BY <1>2, <2>2, <2>3 DEF GoodConsole
  <2>5. GoodBroker(m) => n.adapters = Adapters(servers, tags)
    BY <2>2, <2>3 DEF GoodBroker
  <2> QED BY <1>1, <2>2, <2>3, <2>4, <2>5, ApplyingCopies DEF InBroker
<1> QED BY <1>3, <1>4, <1>5

\* record_live_apply: the outcome stands at the servers before the mutation ends.
LEMMA RecordCopies ==
  ASSUME CatalogInv, CopiesOK, NEW c \in Consoles, Record(c)
  PROVE  CopiesOK'
<1>1. PICK m : m = console[c]
  OBVIOUS
<1>2. /\ m.at = "record" /\ console' = [console EXCEPT ![c] = Idle]
      /\ UNCHANGED <<tags, file, edge>>
      /\ excused' = (excused \/ (~m.ok /\ m.request.op = "deleteServer"))
      /\ DOMAIN servers' = DOMAIN servers
      /\ ~m.ok => \A s \in Marked(m) : servers'[s] = Pending(clock)
  BY <1>1 DEF Record, Marked
<1>3. excused' \in BOOLEAN
      /\ (~excused' => ~excused /\ (m.ok \/ m.request.op # "deleteServer"))
  BY <1>2 DEF CopiesOK
<1>4. console'[c] = Idle /\ \A d \in Consoles : d # c => console'[d] = console[d]
  BY <1>2, GoodIdle, ConsoleSet DEF CatalogInv
<1>5. GoodBroker(console[c])' /\ ~InBroker(console[c])' /\ console'[c].at = "idle"
  BY <1>4, GoodIdle DEF GoodBroker, InBroker
<1>6. SUFFICES ASSUME ~excused' PROVE FileOK' /\ BrokerOK' /\ EdgeOK'
  BY <1>3 DEF CopiesOK
<1>7. GoodBroker(m)
  BY <1>1, <1>3, <1>6 DEF CopiesOK, BrokerOK
<1>8. EdgeOK'
  <2>1. CASE m.ok
    <3>1. edge = Adapters(servers, tags)
      BY <1>2, <1>7, <2>1 DEF GoodBroker
    <3> QED BY <1>2, <3>1, SameAdapters DEF EdgeOK
  <2>2. CASE ~m.ok
    <3>1. m.request.op # "deleteServer" /\ Target(m.request) \in DOMAIN servers
      BY <1>2, <1>3, <1>6, <1>7, <2>2 DEF GoodBroker, InBroker
    <3>2. Target(m.request) \in Marked(m)
      BY <2>2, <3>1 DEF Marked
    <3>3. Waiting'
      BY <1>2, <2>2, <3>1, <3>2, NotGone DEF Waiting
    <3> QED BY <3>3 DEF EdgeOK
  <2> QED BY <2>1, <2>2
<1>9. FileOK' /\ BrokerOK'
  BY <1>1, <1>2, <1>3, <1>4, <1>5, <1>6, FileKept, BrokerKept DEF CopiesOK
<1> QED BY <1>8, <1>9

\* A commit that no overlap excuses: nothing else is in progress.
LEMMA CommitCopies ==
  ASSUME CatalogInv, CopiesOK, NEW c \in Consoles, Commit(c)
  PROVE  CopiesOK'
<1>1. PICK m : m = console[c]
  OBVIOUS
<1>2. PICK r : r = m.request
  OBVIOUS
<1>3. /\ m.at = "commit" /\ c \in Holding /\ GoodConsole(m)
      /\ \A t : t \in DOMAIN tags' <=>
                \/ t \in DOMAIN m.tags /\ m.tags[t] # Gone
                \/ t \in DOMAIN tags /\ t \notin DOMAIN m.tags
      /\ \A t \in DOMAIN tags' : tags'[t] = IF t \in DOMAIN m.tags THEN m.tags[t] ELSE tags[t]
      /\ \A s : s \in DOMAIN servers' <=>
                \/ s \in DOMAIN m.servers /\ m.servers[s] # Gone
                \/ s \in DOMAIN servers /\ s \notin DOMAIN m.servers
      /\ \A s \in DOMAIN servers' :
           servers'[s] = IF s \in DOMAIN m.servers THEN m.servers[s] ELSE servers[s]
  BY <1>1, Committing DEF Holding
<1>4. /\ file' = file /\ edge' = edge /\ SeenBy(m) = Adapters(servers, tags)'
      /\ excused' = (excused \/ m.missed \/ \E d \in Consoles \ {c} : console[d].at # "idle")
  BY <1>1 DEF Commit, Committed, SeenBy
<1>5. /\ excused' \in BOOLEAN
      /\ ~excused' => ~excused /\ ~m.missed /\ \A d \in Consoles \ {c} : console[d].at = "idle"
  BY <1>3, <1>4 DEF CopiesOK, GoodConsole
<1>6. GoodRows(r, m.servers, m.tags)
  BY <1>1, <1>2, <1>3 DEF CatalogInv, RowsOK
<1>7. SUFFICES ASSUME ~excused' PROVE FileOK' /\ BrokerOK' /\ EdgeOK'
  BY <1>5 DEF CopiesOK
<1>8. \A d \in Consoles \ {c} : console[d].at = "idle" /\ console'[d].at = "idle"
  <2>1. ConsolesOK
    BY DEF CatalogInv
  <2>2. \A d \in Consoles \ {c} : console'[d].at = console[d].at
    BY <2>1, OvertakenFacts
  <2> QED BY <1>5, <1>7, <2>2
<1>9. /\ console'[c].at \in {"idle", "list"}
      /\ console'[c].at = "list" =>
           /\ console'[c].request = r
           /\ ~(r.op = "unsubscribe" /\ m.tags = NoRows)
      /\ console'[c].at = "idle" => r.op = "unsubscribe" /\ m.tags = NoRows
  <2>1. ConsolesOK
    BY DEF CatalogInv
  <2>2. [m EXCEPT !.at = "list"].request = r
    BY <1>2, <1>3, Advanced
  <2>3. console'[c].at \in {"idle", "list"}
    BY <2>1, OvertakenFacts
  <2>4. console'[c].at = "list" =>
          /\ console'[c] = [m EXCEPT !.at = "list"]
          /\ ~(r.op = "unsubscribe" /\ m.tags = NoRows)
    BY <1>1, <1>2, <2>1, OvertakenFacts
  <2>5. console'[c].at = "idle" => r.op = "unsubscribe" /\ m.tags = NoRows
    BY <1>1, <1>2, <2>1, OvertakenFacts
  <2> QED BY <2>2, <2>3, <2>4, <2>5
<1>10. FileOK'
  <2>1. file = SeenBy(m)
    BY <1>1, <1>3, <1>5, <1>7, <1>8 DEF CopiesOK, FileOK
  <2>2. \A d \in Consoles : console'[d].at # "commit"
    BY <1>8, <1>9
  <2> QED BY <1>4, <2>1, <2>2 DEF FileOK
<1>11. BrokerOK'
  <2>1. ASSUME console'[c].at = "list", r.op # "deleteServer"
        PROVE  Target(r) \in DOMAIN servers'
    <3>1. r.op \in {"saveServer", "saveTag", "updateTag", "unsubscribe", "discover"}
      BY <1>2, <1>3, <2>1, RequestsAssumption DEF GoodConsole, Probes
    <3>2. \A s \in DOMAIN m.servers : m.servers[s] # Gone
      BY <1>6, <2>1 DEF GoodRows
    <3>3. CASE r.op = "discover"
      <4>1. r.server \in DOMAIN servers
        BY <1>1, <1>2, <1>3, <1>5, <1>7, <3>3 DEF CopiesOK, BrokerOK, GoodBroker
      <4> QED BY <1>3, <3>2, <3>3, <4>1 DEF Target, OnTag
    <3>4. CASE r.op # "discover"
      <4>1. Target(r) \in DOMAIN m.servers
        BY <1>6, <1>9, <2>1, <3>1, <3>4 DEF GoodRows
      <4> QED BY <1>3, <3>2, <4>1
    <3> QED BY <3>3, <3>4
  <2>2. GoodBroker(console[c])'
    BY <1>9, <2>1 DEF GoodBroker, InBroker
  <2>3. \A d \in Consoles \ {c} : GoodBroker(console[d])' /\ ~InBroker(console[d])'
    BY <1>8 DEF GoodBroker, InBroker
  <2> QED BY <2>2, <2>3 DEF BrokerOK
<1>12. EdgeOK'
  <2>1. CASE console'[c].at = "list"
    BY <2>1 DEF EdgeOK, InBroker
  <2>2. CASE console'[c].at = "idle"
    <3>1. r.op = "unsubscribe" /\ DOMAIN m.tags = {}
      BY <1>9, <2>2 DEF NoRows
    <3>2. /\ DOMAIN m.servers \subseteq DOMAIN servers
          /\ \A s \in DOMAIN m.servers : m.servers[s] # Gone /\ m.servers[s].error = "apply"
      BY <1>6, <3>1 DEF GoodRows
    <3>3. DOMAIN servers' = DOMAIN servers
      BY <1>3, <3>2
    <3>4. DOMAIN tags' = DOMAIN tags /\ \A t \in DOMAIN tags : tags'[t] = tags[t]
      BY <1>3, <3>1
    <3>5. Adapters(servers, tags)' = Adapters(servers, tags)
      BY <3>3, <3>4 DEF Adapters
    <3>6. Waiting => Waiting'
      BY <1>3, <3>2, <3>3 DEF Waiting
    <3>7. \A d \in Consoles : ~InBroker(console[d])
      BY <1>1, <1>3, <1>8 DEF InBroker
    <3> QED BY <1>4, <1>5, <1>7, <3>5, <3>6, <3>7 DEF CopiesOK, EdgeOK
  <2> QED BY <1>9, <2>1, <2>2
<1> QED BY <1>10, <1>11, <1>12

LEMMA CopiesBegin == CatalogInit => CopiesOK
<1> SUFFICES ASSUME CatalogInit PROVE CopiesOK
  OBVIOUS
<1>1. /\ console = [c \in Consoles |-> Idle] /\ excused = FALSE
      /\ file = Adapters(servers, tags) /\ edge = file
  BY DEF CatalogInit
<1>2. \A c \in Consoles : console[c].at = "idle" /\ ~InBroker(console[c])
  BY <1>1, GoodIdle DEF InBroker
<1>3. FileOK /\ BrokerOK /\ EdgeOK
  BY <1>1, <1>2 DEF FileOK, BrokerOK, GoodBroker, InBroker, EdgeOK
<1> QED BY <1>1, <1>3 DEF CopiesOK

LEMMA CopiesKept == CatalogInv /\ CopiesOK /\ [CatalogNext]_catalogVars => CopiesOK'
<1> SUFFICES ASSUME CatalogInv, CopiesOK, [CatalogNext]_catalogVars PROVE CopiesOK'
  OBVIOUS
<1>1. CASE Supervise \/ LoadFails \/ UNCHANGED catalogVars
  <2>1. UNCHANGED <<servers, tags, console, file, edge, excused>>
    BY <1>1, ConnectorStep
  <2>2. FileOK => FileOK'
    BY <2>1, SameAdapters DEF FileOK, SeenBy
  <2>3. BrokerOK => BrokerOK'
    BY <2>1 DEF BrokerOK, GoodBroker, InBroker, Adapters
  <2>4. EdgeOK => EdgeOK'
    BY <2>1 DEF EdgeOK, Waiting, InBroker, Adapters
  <2> QED BY <2>1, <2>2, <2>3, <2>4 DEF CopiesOK
<1>2. ASSUME NEW c \in Consoles, NEW r \in Requests, Begin(c, r) PROVE CopiesOK'
  BY <1>2, BeginCopies
<1>3. ASSUME NEW c \in Consoles, Step(c) \/ Abort(c) \/ ApplyFails(c) \/ Die(c)
      PROVE  CopiesOK'
  BY <1>3, GiveUpCopies, WriteCopies, SyncCopies, CommitCopies, ApplyCopies, RecordCopies,
     TestCopies DEF Step
<1> QED BY <1>1, <1>2, <1>3 DEF CatalogNext

\* _sync_edge and _finish_live_apply: whenever no mutation is in progress and neither a
\* fault nor an overlap has excused it, config.xml holds the adapters of the catalog,
\* and if HiveMQ Edge runs other ones some server still says that it waits for them.
THEOREM StatusesAreHonest == CatalogSpec => []HonestWhenSequential
<1>1. CopiesOK => HonestWhenSequential
  <2> SUFFICES ASSUME CopiesOK, Quiet, ~excused
               PROVE  /\ file = Adapters(servers, tags)
                      /\ edge # file => \E s \in DOMAIN servers : servers[s].error = "apply"
    BY DEF HonestWhenSequential
  <2>1. \A c \in Consoles : console[c].at # "commit" /\ ~InBroker(console[c])
    BY DEF Quiet, InBroker
  <2> QED BY <2>1 DEF CopiesOK, FileOK, EdgeOK, Waiting
<1> QED BY <1>1, CatalogAlwaysKept, CopiesBegin, CopiesKept, PTL DEF CatalogSpec

-----------------------------------------------------------------------------
(* SigningKeys: the lock of the key cache                                   *)

\* A step of one request: the others stay where they are.
LEMMA MoveOne ==
  ASSUME asks \in [Callers -> [kid : Kids, at : Stages]], NEW r \in Callers, NEW stage \in Stages,
         Move(r, stage)
  PROVE  /\ asks' \in [Callers -> [kid : Kids, at : Stages]]
         /\ asks'[r].at = stage
         /\ \A q \in Callers : asks'[q].kid = asks[q].kid /\ (q # r => asks'[q] = asks[q])
BY DEF Move

LEMMA SigningStep ==
  ASSUME SigningTypeOK, OneFetchPerKey, [SigningNext]_signingVars
  PROVE  SigningTypeOK' /\ OneFetchPerKey'
<1> USE SigningBounds DEF SigningTypeOK, OneFetchPerKey, Stages
<1>1. ASSUME NEW r \in Callers, Ask(r) PROVE SigningTypeOK' /\ OneFetchPerKey'
  <2>1. PICK stage \in {"served", "waits"} : Move(r, stage)
    BY <1>1 DEF Ask
  <2> QED BY <1>1, <2>1, MoveOne DEF Ask
<1>2. ASSUME NEW r \in Callers, Enter(r) PROVE SigningTypeOK' /\ OneFetchPerKey'
  <2>1. CASE asks[r].kid \in _keys
    BY <1>2, <2>1, MoveOne DEF Enter, Granted
  <2>2. CASE asks[r].kid \notin _keys
    <3>1. Move(r, "fetches") /\ _keys' = _keys /\ \A q \in Callers : asks[q].at # "fetches"
      BY <1>2, <2>2 DEF Enter, Granted
    <3> QED BY <1>2, <2>2, <3>1, MoveOne DEF Enter
  <2> QED BY <2>1, <2>2
<1>3. ASSUME NEW r \in Callers, Fetch(r) \/ FetchFails(r) PROVE SigningTypeOK' /\ OneFetchPerKey'
  <2>1. PICK stage \in {"served", "refused"} : Move(r, stage)
    BY <1>3 DEF Fetch, FetchFails, Verdict
  <2>2. \A q \in Callers : asks'[q].at # "fetches"
    BY <1>3, <2>1, MoveOne DEF Fetch, FetchFails
  <2>3. outages' \in 0..MaxOutages /\ _keys' \subseteq Kids /\ realm' = realm /\ rotations' = rotations
    BY <1>3 DEF Fetch, FetchFails, Refreshed
  <2> QED BY <2>1, <2>2, <2>3, MoveOne
<1>4. CASE Rotate
  BY <1>4 DEF Rotate
<1>5. CASE UNCHANGED signingVars
  BY <1>5 DEF signingVars
<1> QED BY <1>1, <1>2, <1>3, <1>4, <1>5 DEF SigningNext

\* JwksCache.signing_key: a request that has the lock looks again before it fetches, and no
\* other step brings a key meanwhile: nobody fetches for a key that is in memory.
THEOREM KeysFetchedOnce == SigningSpec => []OneFetchPerKey
<1>1. SigningInit => SigningTypeOK /\ OneFetchPerKey
  BY SigningBounds DEF SigningInit, SigningTypeOK, OneFetchPerKey, Stages
<1> QED BY <1>1, SigningStep, PTL DEF SigningSpec

-----------------------------------------------------------------------------
(* LiveEvents: what one client's queue holds                                *)

\* An event, or the sentinel, at the end of a queue.
LEMMA PutLast ==
  ASSUME NEW S, NEW q \in Seq(S), NEW p \in Seq(S), NEW x,
         Len(p) = Len(q) + 1, \A i \in DOMAIN q : p[i] = q[i], p[Len(p)] = x
  PROVE  /\ Warned(p) <=> x = Resync \/ Warned(q)
         /\ Warned(p) => Heard(p) = Heard(q) /\ Queued(p) = Queued(q)
         /\ ~Warned(p) =>
              /\ Heard(q) = DOMAIN q /\ Heard(p) = DOMAIN p /\ Queued(p) = Queued(q) \union {x}
<1>1. PICK n \in Nat : n = Len(q)
  OBVIOUS
<1>2. /\ p \in Seq(S) /\ Len(p) = n + 1 /\ DOMAIN p = 1..(n + 1) /\ DOMAIN q = 1..n
      /\ p[n + 1] = x /\ \A i \in 1..n : p[i] = q[i]
  BY <1>1
<1>3. Warned(p) <=> x = Resync \/ Warned(q)
  <2>1. \A i \in 1..(n + 1) : i \in 1..n \/ i = n + 1
    OBVIOUS
  <2>2. n + 1 \in 1..(n + 1) /\ \A i \in 1..n : i \in 1..(n + 1)
    OBVIOUS
  <2> QED BY <1>2, <2>1, <2>2 DEF Warned
<1>4. ASSUME NEW i \in 1..n PROVE i \in Heard(p) <=> i \in Heard(q)
  <2>1. \A j \in 1..i : j \in 1..n /\ p[j] = q[j]
    BY <1>2
  <2>2. i \in DOMAIN p /\ i \in DOMAIN q
    BY <1>2
  <2> QED BY <2>1, <2>2 DEF Heard
<1>5. ASSUME Warned(p) PROVE Heard(p) = Heard(q) /\ Queued(p) = Queued(q)
  <2>1. n + 1 \notin Heard(p)
    BY <1>2, <1>5 DEF Heard, Warned
  <2>2. Heard(p) = Heard(q)
    <3>1. Heard(p) \subseteq 1..(n + 1) /\ Heard(q) \subseteq 1..n
      BY <1>2 DEF Heard
    <3>2. \A i \in Heard(p) : i \in 1..n
      BY <2>1, <3>1
    <3> QED BY <1>4, <3>1, <3>2
  <2>3. \A i \in Heard(q) : p[i] = q[i]
    BY <1>2 DEF Heard
  <2> QED BY <2>2, <2>3 DEF Queued
<1>6. ASSUME ~Warned(p)
      PROVE  Heard(q) = DOMAIN q /\ Heard(p) = DOMAIN p /\ Queued(p) = Queued(q) \union {x}
  <2>1. Heard(p) = 1..(n + 1)
    BY <1>2, <1>3, <1>6 DEF Heard, Warned
  <2>2. Heard(q) = 1..n
    BY <1>2, <1>3, <1>6 DEF Heard, Warned
  <2>3. Queued(p) = Queued(q) \union {x}
    <3>1. \A v : v \in Queued(p) <=> \E i \in 1..(n + 1) : v = p[i]
      BY <2>1 DEF Queued
    <3>2. \A v : v \in Queued(q) <=> \E i \in 1..n : v = q[i]
      BY <2>2 DEF Queued
    <3>3. \A i \in 1..(n + 1) : i \in 1..n \/ i = n + 1
      OBVIOUS
    <3>4. n + 1 \in 1..(n + 1) /\ \A i \in 1..n : i \in 1..(n + 1)
      OBVIOUS
    <3> QED BY <1>2, <3>1, <3>2, <3>3, <3>4
  <2> QED BY <1>2, <2>1, <2>2, <2>3
<1> QED BY <1>1, <1>2, <1>3, <1>5, <1>6

\* The first event of a queue is taken.
LEMMA TakeFirst ==
  ASSUME NEW S, NEW q \in Seq(S), NEW p \in Seq(S), NEW first, first = q[1], first # Resync,
         Len(q) = Len(p) + 1, \A i \in DOMAIN p : p[i] = q[i + 1]
  PROVE  /\ 1 \in Heard(q)
         /\ \A i \in Heard(p) : i \in Nat /\ i + 1 \in Heard(q) /\ p[i] = q[i + 1]
         /\ Queued(q) = Queued(p) \union {first}
         /\ Warned(p) <=> Warned(q)
<1>1. PICK n \in Nat : n = Len(p)
  OBVIOUS
<1>2. DOMAIN p = 1..n /\ DOMAIN q = 1..(n + 1) /\ \A i \in 1..n : p[i] = q[i + 1]
  BY <1>1
<1>3. first = q[1] /\ q[1] # Resync /\ 1 \in 1..(n + 1)
  BY <1>1
<1>4. 1 \in Heard(q)
  BY <1>2, <1>3 DEF Heard
<1>5. ASSUME NEW i \in Nat, i \in 1..n PROVE i \in Heard(p) <=> i + 1 \in Heard(q)
  <2>1. i \in DOMAIN p /\ i + 1 \in DOMAIN q
    BY <1>2, <1>5
  <2>2. \A j \in 1..i : j + 1 \in 1..(i + 1) /\ p[j] = q[j + 1]
    BY <1>2, <1>5
  <2>3. \A j \in 1..(i + 1) : j = 1 \/ (j - 1 \in 1..i /\ (j - 1) + 1 = j)
    BY <1>5
  <2>4. (\A j \in 1..i : p[j] # Resync) <=> \A j \in 1..(i + 1) : q[j] # Resync
    <3>1. ASSUME \A j \in 1..i : p[j] # Resync, NEW j \in 1..(i + 1) PROVE q[j] # Resync
      <4>1. CASE j = 1
        BY <1>3, <4>1
      <4>2. CASE j # 1
        <5>1. PICK k \in 1..i : k + 1 = j
          BY <2>3, <4>2
        <5> QED BY <2>2, <3>1, <5>1
      <4> QED BY <4>1, <4>2
    <3> QED BY <2>2, <3>1
  <2> QED BY <2>1, <2>4 DEF Heard
<1>6. \A i \in Heard(p) : i \in Nat /\ i \in 1..n
  BY <1>2 DEF Heard
<1>7. \A i \in Heard(q) : i = 1 \/ (i - 1 \in Nat /\ i - 1 \in 1..n /\ (i - 1) + 1 = i)
  BY <1>2 DEF Heard
<1>8. Queued(q) = Queued(p) \union {first}
  <2>1. ASSUME NEW i \in Heard(q) PROVE q[i] \in Queued(p) \union {first}
    <3>1. CASE i = 1
      BY <1>3, <3>1
    <3>2. CASE i # 1
      <4>1. PICK k \in Nat : k \in 1..n /\ k + 1 = i
        BY <1>7, <3>2
      <4>2. k \in Heard(p) /\ p[k] = q[i]
        BY <1>2, <1>5, <4>1
      <4> QED BY <4>2 DEF Queued
    <3> QED BY <3>1, <3>2
  <2>2. ASSUME NEW i \in Heard(p) PROVE p[i] \in Queued(q)
    <3>1. i + 1 \in Heard(q) /\ p[i] = q[i + 1]
      BY <1>2, <1>5, <1>6
    <3> QED BY <3>1 DEF Queued
  <2>3. first \in Queued(q)
    BY <1>3, <1>4 DEF Queued
  <2> QED BY <2>1, <2>2, <2>3 DEF Queued
<1>9. Warned(p) <=> Warned(q)
  <2>1. ASSUME NEW i \in 1..(n + 1), q[i] = Resync PROVE \E k \in 1..n : p[k] = Resync
    <3>1. i # 1
      BY <1>3, <2>1
    <3>2. i - 1 \in 1..n /\ (i - 1) + 1 = i
      BY <3>1
    <3>3. PICK k \in 1..n : k + 1 = i
      BY <3>2
    <3> QED BY <1>2, <2>1, <3>3
  <2>2. \A i \in 1..n : i + 1 \in 1..(n + 1)
    OBVIOUS
  <2> QED BY <1>2, <2>1, <2>2 DEF Warned
<1> QED BY <1>2, <1>4, <1>5, <1>6, <1>8, <1>9

\* A new event goes to the end of the queue, or the sentinel does.
LEMMA HasAllPut ==
  ASSUME NEW S \in SUBSET Nat, NEW q \in Seq(S \union {Resync}), NEW taken \in SUBSET Nat,
         NEW expected \in SUBSET Nat, HasAll(taken, q, expected), NEW e \in S, \A f \in expected : f < e,
         NEW x \in {e, Resync}
  PROVE  HasAll(taken, Append(q, x), expected \union {e})
<1>1. PICK p : p = Append(q, x)
  OBVIOUS
<1>2. /\ \A i \in DOMAIN q : p[i] = q[i]
      /\ Len(p) = Len(q) + 1 /\ p[Len(p)] = x
      /\ Warned(p) <=> x = Resync \/ Warned(q)
      /\ Warned(p) => Heard(p) = Heard(q) /\ Queued(p) = Queued(q)
      /\ ~Warned(p) => Heard(q) = DOMAIN q /\ Heard(p) = DOMAIN p /\ Queued(p) = Queued(q) \union {x}
  <2>1. PICK T : T = S \union {Resync} /\ q \in Seq(T) /\ x \in T
    OBVIOUS
  <2>2. p \in Seq(T) /\ Len(p) = Len(q) + 1 /\ p[Len(p)] = x /\ \A i \in DOMAIN q : p[i] = q[i]
    <3>1. /\ p \in Seq(T) /\ Len(p) = Len(q) + 1 /\ p[Len(q) + 1] = x
          /\ \A i \in 1..Len(q) : p[i] = q[i]
      BY <1>1, <2>1, AppendProperties
    <3> QED BY <2>1, <3>1
  <2> QED BY <2>1, <2>2, PutLast
<1>3. /\ \A f \in taken \union Queued(q) : f \in expected /\ f \in Nat /\ f < e
      /\ \A i \in Heard(q) : i \in DOMAIN q /\ q[i] \in Queued(q)
  BY DEF HasAll, Heard, Queued
<1>4. CASE Warned(p)
  <2>2. \A i \in Heard(p) : p[i] = q[i]
    BY <1>2, <1>3, <1>4
  <2>3. \A i, j \in Heard(p) : i < j => p[i] < p[j]
    BY <1>2, <1>4, <2>2 DEF HasAll
  <2>4. \A d \in taken, f \in Queued(p) : d < f
    BY <1>2, <1>4 DEF HasAll
  <2>5. ASSUME NEW d \in (expected \union {e}) \ (taken \union Queued(p))
        PROVE  \A f \in taken \union Queued(p) : f < d
    <3>1. CASE d = e
      BY <1>2, <1>3, <1>4, <3>1
    <3>2. CASE d # e
      BY <1>2, <1>4, <2>5, <3>2 DEF HasAll
    <3> QED BY <3>1, <3>2
  <2>6. taken \union Queued(p) \subseteq expected \union {e}
    BY <1>2, <1>3, <1>4
  <2> QED BY <1>1, <1>4, <2>3, <2>4, <2>5, <2>6 DEF HasAll
<1>5. CASE ~Warned(p)
  <2>1. x = e /\ ~Warned(q)
    BY <1>2, <1>5
  <2>2. Queued(p) = Queued(q) \union {e} /\ Heard(q) = DOMAIN q /\ Heard(p) = DOMAIN p
    BY <1>2, <1>5, <2>1
  <2>3. expected \subseteq taken \union Queued(q)
    BY <2>1 DEF HasAll
  <2>4. \A d \in taken, f \in Queued(p) : d < f
    <3>1. \A d \in taken : d < e
      BY <1>3
    <3> QED BY <2>2, <3>1 DEF HasAll
  <2>5. \A i, j \in Heard(p) : i < j => p[i] < p[j]
    <3> SUFFICES ASSUME NEW i \in Heard(p), NEW j \in Heard(p), i < j PROVE p[i] < p[j]
      OBVIOUS
    <3>1. PICK n \in Nat : n = Len(q) /\ DOMAIN q = 1..n /\ DOMAIN p = 1..(n + 1) /\ Len(p) = n + 1
      <4>1. p \in Seq(S \union {Resync})
        BY <1>1
      <4> QED BY <1>2, <4>1
    <3>2. i \in 1..n /\ (j \in 1..n \/ j = n + 1)
      BY <2>2, <3>1
    <3>3. p[i] = q[i] /\ q[i] \in Queued(q)
      BY <1>2, <1>3, <2>2, <3>1, <3>2
    <3>4. CASE j \in 1..n
      BY <1>2, <2>2, <3>1, <3>2, <3>3, <3>4 DEF HasAll
    <3>5. CASE j = n + 1
      BY <1>2, <1>3, <2>1, <3>1, <3>3, <3>5
    <3> QED BY <3>2, <3>4, <3>5
  <2>6. taken \union Queued(p) = expected \union {e}
    BY <1>3, <2>2, <2>3
  <2> QED BY <1>1, <2>4, <2>5, <2>6 DEF HasAll
<1> QED BY <1>4, <1>5

LEMMA HasAllTake ==
  ASSUME NEW S \in SUBSET Nat, NEW q \in Seq(S \union {Resync}), NEW taken \in SUBSET Nat,
         NEW expected \in SUBSET Nat, HasAll(taken, q, expected), q # <<>>, Head(q) # Resync
  PROVE  HasAll(taken \union {Head(q)}, Tail(q), expected)
<1>1. PICK p, first : p = Tail(q) /\ first = Head(q)
  OBVIOUS
<1>2. /\ first = q[1] /\ 1 \in Heard(q)
      /\ \A i \in Heard(p) : i \in Nat /\ i + 1 \in Heard(q) /\ p[i] = q[i + 1]
      /\ Queued(q) = Queued(p) \union {first}
      /\ Warned(p) <=> Warned(q)
  <2>1. PICK T : T = S \union {Resync} /\ q \in Seq(T)
    OBVIOUS
  <2>2. p \in Seq(T) /\ Len(q) = Len(p) + 1 /\ first = q[1] /\ first # Resync /\ \A i \in DOMAIN p : p[i] = q[i + 1]
    <3>1. p \in Seq(T) /\ Len(p) = Len(q) - 1 /\ \A i \in 1..Len(p) : p[i] = q[i + 1]
      BY <1>1, <2>1, HeadTailProperties
    <3> QED BY <1>1, <2>1, <3>1
  <2> QED BY <2>1, <2>2, TakeFirst
<1>3. \A d \in taken \union {first}, f \in Queued(p) : d < f
  <2>1. ASSUME NEW f \in Queued(p) PROVE first < f
    <3>1. PICK i \in Heard(p) : f = p[i]
      BY DEF Queued
    <3>2. i \in Nat /\ i \in DOMAIN p
      BY <1>2, <3>1 DEF Heard
    <3>3. 1 < i + 1
      <4>1. p \in Seq(S \union {Resync})
        BY <1>1
      <4> QED BY <3>2, <4>1
    <3> QED BY <1>2, <3>1, <3>3 DEF HasAll
  <2> QED BY <1>2, <2>1 DEF HasAll
<1>4. \A i, j \in Heard(p) : i < j => p[i] < p[j]
  <2> SUFFICES ASSUME NEW i \in Heard(p), NEW j \in Heard(p), i < j PROVE p[i] < p[j]
    OBVIOUS
  <2>1. PICK m, n : m = i + 1 /\ n = j + 1
    OBVIOUS
  <2>2. m \in Heard(q) /\ n \in Heard(q) /\ m < n /\ p[i] = q[m] /\ p[j] = q[n]
    BY <1>2, <2>1
  <2> QED BY <2>2 DEF HasAll
<1>5. (taken \union {first}) \union Queued(p) = taken \union Queued(q)
  BY <1>2
<1> QED BY <1>1, <1>2, <1>3, <1>4, <1>5 DEF HasAll

-----------------------------------------------------------------------------
(* LiveEvents: the invariant                                                *)

\* The loop gets the offsets that were polled in order; between two of them, and before the
\* first, are only offsets that an assignment skipped.
StreamOK ==
  /\ position <= Len(log) + 1 /\ fanned <= position
  /\ \A i \in DOMAIN posted : fanned <= posted[i] /\ posted[i] < position /\ posted[i] \notin skipped
  /\ \A i, j \in DOMAIN posted : i < j => posted[i] < posted[j]
  /\ \A e \in fanned..(position - 1) : e \in skipped \/ \E i \in DOMAIN posted : posted[i] = e
  /\ skipped \subseteq 1..(position - 1)

\* A client is registered once, and holds and began with nothing newer than the loop.
ClientsOK ==
  /\ \A i, j \in DOMAIN clients : clients[i] = clients[j] => i = j
  /\ \A c \in Clients : /\ registration[c].item < fanned /\ attended[c].since <= fanned
                         /\ \A e \in attended[c].unsent : e < fanned

LiveInv == LiveTypeOK /\ StreamOK /\ ClientsOK /\ NoSilentGap /\ InScopeOnly

LEMMA LiveNats ==
  /\ MaxClients \in Nat /\ MaxQueue \in Nat /\ MaxBytes \in Nat /\ MaxEvents \in Nat
  /\ \A size \in Sizes : size \in Nat
  /\ Resync \notin 1..MaxEvents
BY LiveBounds, LiveAssumption

\* The typed parts of the state, one by one.
LEMMA LiveTypes ==
  ASSUME LiveTypeOK
  PROVE  /\ log \in Seq([topic : LiveTopics, size : Sizes]) /\ Len(log) \in Nat /\ DOMAIN log = 1..Len(log)
         /\ position \in Nat /\ position > 0 /\ fanned \in Nat /\ fanned > 0
         /\ posted \in Seq(1..MaxEvents) /\ Len(posted) \in Nat /\ DOMAIN posted = 1..Len(posted)
         /\ \A i \in DOMAIN posted : posted[i] \in Nat /\ posted[i] \in 1..MaxEvents
         /\ clients \in Seq(Clients) /\ DOMAIN clients = 1..Len(clients) /\ Len(clients) \in Nat
         /\ \A i \in DOMAIN clients : clients[i] \in Clients
         /\ Range(clients) = {clients[i] : i \in DOMAIN clients}
BY LiveNats DEF LiveTypeOK, Range

\* The fields of a client.
LEMMA ClientTypes ==
  ASSUME LiveTypeOK, NEW c \in Clients, NEW r, r = registration[c], NEW a, a = attended[c]
  PROVE  /\ r \in Registrations /\ r.topics \subseteq LiveTopics
         /\ r.queue \in Seq((1..MaxEvents) \union {Resync})
         /\ r.count \in 0..MaxQueue /\ r.bytes \in 0..MaxBytes /\ r.item \in 0..MaxEvents
         /\ Len(r.queue) \in 0..MaxQueue
         /\ a \in [since : 1..(MaxEvents + 1), taken : SUBSET (1..MaxEvents), unsent : SUBSET (1..MaxEvents)]
         /\ a.since \in 1..(MaxEvents + 1) /\ a.since \in Nat /\ a.taken \subseteq 1..MaxEvents /\ a.unsent \subseteq 1..MaxEvents
<1>1. /\ r \in Registrations /\ Len(r.queue) <= MaxQueue
      /\ a \in [since : 1..(MaxEvents + 1), taken : SUBSET (1..MaxEvents), unsent : SUBSET (1..MaxEvents)]
  BY DEF LiveTypeOK
<1>2. r.queue \in Seq((1..MaxEvents) \union {Resync})
  BY <1>1 DEF Registrations
<1>3. Len(r.queue) \in Nat
  BY <1>2
<1>4. MaxQueue \in Nat /\ MaxEvents \in Nat
  BY LiveNats
<1> QED BY <1>1, <1>2, <1>3, <1>4 DEF Registrations

LEMMA NoRegistrationType == NoRegistration \in Registrations /\ NoRegistration.queue = <<>> /\ NoRegistration.item = 0
<1>1. <<>> \in Seq((1..MaxEvents) \union {Resync}) /\ {} \in SUBSET LiveTopics
  OBVIOUS
<1>2. 0 \in 0..MaxQueue /\ 0 \in 0..MaxBytes /\ 0 \in 0..MaxEvents
  BY LiveNats
<1> QED BY <1>1, <1>2 DEF NoRegistration, NoItem, Registrations

\* A client that is left alone expects what it expected.
LEMMA ExpectedSame ==
  ASSUME LiveInv, NEW c \in Clients, attended'[c].since = attended[c].since,
         attended'[c].unsent = attended[c].unsent, registration'[c].topics = registration[c].topics,
         fanned' = fanned, \A e \in 1..(fanned - 1) : log'[e] = log[e] /\ (e \in skipped' <=> e \in skipped)
  PROVE  Expected(c)' = Expected(c)
<1>1. attended[c].since \in Nat /\ attended[c].since > 0 /\ fanned \in Nat
  BY LiveTypes, ClientTypes DEF LiveInv
<1>2. \A e \in attended[c].since..(fanned - 1) : e \in 1..(fanned - 1)
  BY <1>1
<1> QED BY <1>2 DEF Expected, Wants

\* Steps of the stream and of the Asset model.
LEMMA ClientsFrame ==
  ASSUME LiveInv, UNCHANGED <<clients, registration, attended, fanned, shown>>,
         \A e \in 1..(fanned - 1) : log'[e] = log[e] /\ (e \in skipped' <=> e \in skipped)
  PROVE  ClientsOK' /\ NoSilentGap' /\ InScopeOnly'
<1>1. \A c \in Clients : Expected(c)' = Expected(c)
  BY ExpectedSame
<1>2. Range(clients) \subseteq Clients
  BY LiveTypes DEF LiveInv
<1> QED BY <1>1, <1>2 DEF LiveInv, ClientsOK, NoSilentGap, InScopeOnly

LEMMA LiveBegins == LiveInit => LiveInv
<1> SUFFICES ASSUME LiveInit PROVE LiveInv
  OBVIOUS
<1>1. /\ <<>> \in Seq([topic : LiveTopics, size : Sizes]) /\ <<>> \in Seq(1..MaxEvents) /\ <<>> \in Seq(Clients)
      /\ Len(<<>>) = 0 /\ DOMAIN <<>> = {}
  OBVIOUS
<1>2. 1 \in 1..(MaxEvents + 1) /\ 0 <= MaxEvents /\ 0 <= MaxClients /\ 0 <= MaxQueue
  BY LiveNats
<1>3. registration \in [Clients -> Registrations] /\ \A c \in Clients : registration[c] = NoRegistration
  BY NoRegistrationType DEF LiveInit
<1>4. /\ attended \in [Clients -> [since : 1..(MaxEvents + 1), taken : SUBSET (1..MaxEvents), unsent : SUBSET (1..MaxEvents)]]
      /\ \A c \in Clients : attended[c].since = 1 /\ attended[c].unsent = {}
  BY <1>2 DEF LiveInit
<1>5. DOMAIN cache = {}
  BY DEF LiveInit
<1>6. LiveTypeOK
  BY <1>1, <1>2, <1>3, <1>4, <1>5, NoRegistrationType DEF LiveInit, LiveTypeOK
<1>7. StreamOK
  BY <1>1 DEF LiveInit, StreamOK
<1>8. ClientsOK
  BY <1>1, <1>3, <1>4, NoRegistrationType DEF LiveInit, ClientsOK
<1>9. NoSilentGap /\ InScopeOnly
  <2>1. Range(clients) = {}
    BY <1>1 DEF LiveInit, Range
  <2> QED BY <2>1 DEF LiveInit, NoSilentGap, InScopeOnly
<1> QED BY <1>6, <1>7, <1>8, <1>9 DEF LiveInv

LEMMA ProduceKeeps == ASSUME LiveInv, NEW t \in LiveTopics, NEW size \in Sizes, Produce(t, size) PROVE LiveInv'
<1>1. PICK m : m = [topic |-> t, size |-> size]
  OBVIOUS
<1> m \in [topic : LiveTopics, size : Sizes]
  BY <1>1
<1>2. /\ log' \in Seq([topic : LiveTopics, size : Sizes]) /\ Len(log') = Len(log) + 1
      /\ \A e \in 1..Len(log) : log'[e] = log[e]
  <2>1. log' = Append(log, m)
    BY <1>1 DEF Produce
  <2> QED BY <1>1, <2>1, LiveTypes, AppendProperties DEF LiveInv
<1>3. \A e \in 1..(fanned - 1) : log'[e] = log[e] /\ (e \in skipped' <=> e \in skipped)
  <2>1. \A e \in 1..(fanned - 1) : e \in 1..Len(log)
    BY LiveTypes DEF LiveInv, StreamOK
  <2> QED BY <1>2, <2>1 DEF Produce
<1>4. ClientsOK' /\ NoSilentGap' /\ InScopeOnly'
  BY <1>3, ClientsFrame DEF Produce
<1>5. Len(log') <= MaxEvents
  BY <1>2, LiveNats, LiveTypes DEF LiveInv, Produce
<1>6. LiveTypeOK'
  BY <1>2, <1>5 DEF LiveInv, LiveTypeOK, Produce
<1>7. StreamOK'
  <2>1. position' <= Len(log') + 1
    BY <1>2, LiveTypes DEF LiveInv, StreamOK, Produce
  <2> QED BY <2>1 DEF LiveInv, StreamOK, Produce
<1> QED BY <1>4, <1>6, <1>7 DEF LiveInv

LEMMA PollKeeps == ASSUME LiveInv, PollLoop PROVE LiveInv'
<1>1. PICK n : n = Len(posted)
  OBVIOUS
<1>2. PICK p : p = position
  OBVIOUS
<1>3. /\ n \in Nat /\ p \in Nat /\ p > 0 /\ DOMAIN posted = 1..n /\ p <= Len(log) /\ Len(log) \in Nat /\ fanned \in Nat
      /\ \A i \in 1..n : posted[i] \in Nat
  BY <1>1, <1>2, LiveTypes DEF LiveInv, PollLoop
<1>4. p \in 1..MaxEvents /\ p + 1 \in 1..(MaxEvents + 1)
  BY <1>3, LiveNats DEF LiveInv, LiveTypeOK
<1>5. /\ posted' \in Seq(1..MaxEvents) /\ DOMAIN posted' = 1..(n + 1) /\ posted'[n + 1] = p
      /\ \A i \in 1..n : posted'[i] = posted[i]
  <2>1. posted \in Seq(1..MaxEvents)
    BY DEF LiveInv, LiveTypeOK
  <2>2. posted' = Append(posted, p)
    BY <1>2 DEF PollLoop
  <2>3. /\ posted' \in Seq(1..MaxEvents) /\ Len(posted') = n + 1 /\ posted'[n + 1] = p
        /\ \A i \in 1..n : posted'[i] = posted[i]
    BY <1>1, <1>4, <2>1, <2>2, AppendProperties
  <2> QED BY <2>3
<1>6. /\ position' = p + 1
      /\ UNCHANGED <<log, fanned, clients, registration, modelled, connectivity, cache, attended, shown, skipped>>
  BY <1>2 DEF PollLoop
<1>7. ClientsOK' /\ NoSilentGap' /\ InScopeOnly'
  BY <1>6, ClientsFrame
<1>8. LiveTypeOK'
  BY <1>4, <1>5, <1>6 DEF LiveInv, LiveTypeOK
<1>9. StreamOK'
  <2>1. \A i \in 1..(n + 1) : i \in 1..n \/ i = n + 1
    BY <1>3
  <2>2. /\ \A i \in 1..n : fanned <= posted[i] /\ posted[i] < p /\ posted[i] \notin skipped
        /\ fanned <= p /\ skipped \subseteq 1..(p - 1)
    BY <1>2, <1>3 DEF LiveInv, StreamOK
  <2>3. ASSUME NEW i \in 1..(n + 1)
        PROVE  fanned <= posted'[i] /\ posted'[i] < p + 1 /\ posted'[i] \notin skipped
    <3>1. CASE i \in 1..n
      BY <1>3, <1>5, <2>2, <3>1
    <3>2. CASE i = n + 1
      BY <1>3, <1>5, <2>2, <3>2
    <3> QED BY <2>1, <3>1, <3>2
  <2>4. ASSUME NEW i \in 1..(n + 1), NEW j \in 1..(n + 1), i < j PROVE posted'[i] < posted'[j]
    <3>1. i \in 1..n
      BY <1>3, <2>4
    <3>2. CASE j \in 1..n
      BY <1>3, <1>5, <2>4, <3>1, <3>2 DEF LiveInv, StreamOK
    <3>3. CASE j = n + 1
      BY <1>5, <2>2, <3>1, <3>3
    <3> QED BY <2>1, <3>2, <3>3
  <2>5. ASSUME NEW e \in fanned..((p + 1) - 1) PROVE e \in skipped \/ \E i \in 1..(n + 1) : posted'[i] = e
    <3>1. CASE e = p
      <4>1. n + 1 \in 1..(n + 1)
        BY <1>3
      <4> QED BY <1>5, <3>1, <4>1
    <3>2. CASE e # p
      <4>1. e \in fanned..(p - 1)
        BY <1>3, <3>2
      <4>2. e \in skipped \/ \E i \in 1..n : posted[i] = e
        BY <1>2, <1>3, <4>1 DEF LiveInv, StreamOK
      <4>3. \A i \in 1..n : i \in 1..(n + 1)
        BY <1>3
      <4> QED BY <1>5, <4>2, <4>3
    <3> QED BY <3>1, <3>2
  <2>6. p + 1 <= Len(log) + 1 /\ fanned <= p + 1 /\ skipped \subseteq 1..((p + 1) - 1)
    BY <1>3, <2>2
  <2> QED BY <1>5, <1>6, <2>3, <2>4, <2>5, <2>6 DEF StreamOK
<1> QED BY <1>7, <1>8, <1>9 DEF LiveInv

LEMMA ReassignKeeps == ASSUME LiveInv, Reassign PROVE LiveInv'
<1>1. PICK n, p : n = Len(log) /\ p = position
  OBVIOUS
<1>2. /\ n \in Nat /\ p \in Nat /\ p > 0 /\ p <= n + 1 /\ fanned \in Nat /\ fanned <= p /\ n <= MaxEvents
      /\ \A i \in DOMAIN posted : posted[i] \in Nat
  BY <1>1, LiveTypes DEF LiveInv, StreamOK, LiveTypeOK
<1>3. /\ position' = n + 1 /\ skipped' = skipped \union (p..n)
      /\ UNCHANGED <<log, posted, fanned, clients, registration, modelled, connectivity, cache, attended, shown>>
  BY <1>1 DEF Reassign
<1>4. \A e \in 1..(fanned - 1) : e \notin p..n
  BY <1>2
<1>5. ClientsOK' /\ NoSilentGap' /\ InScopeOnly'
  BY <1>3, <1>4, ClientsFrame
<1>6. n + 1 \in 1..(MaxEvents + 1)
  BY <1>2, LiveNats
<1>7. LiveTypeOK'
  BY <1>3, <1>6 DEF LiveInv, LiveTypeOK
<1>8. StreamOK'
  <2>1. \A i \in DOMAIN posted : fanned <= posted[i] /\ posted[i] < n + 1 /\ posted[i] \notin skipped \union (p..n)
    BY <1>1, <1>2 DEF LiveInv, StreamOK
  <2>2. ASSUME NEW e \in fanned..((n + 1) - 1)
        PROVE  e \in skipped \union (p..n) \/ \E i \in DOMAIN posted : posted[i] = e
    <3>1. e \in p..n \/ e \in fanned..(p - 1)
      BY <1>2
    <3> QED BY <1>1, <3>1 DEF LiveInv, StreamOK
  <2>3. skipped \union (p..n) \subseteq 1..((n + 1) - 1) /\ fanned <= n + 1 /\ n + 1 <= n + 1
    <3>1. skipped \subseteq 1..(p - 1)
      BY <1>1 DEF LiveInv, StreamOK
    <3>2. \A e \in 1..(p - 1) : e \in 1..((n + 1) - 1)
      BY <1>2
    <3>3. \A e \in p..n : e \in 1..((n + 1) - 1)
      BY <1>2
    <3>4. fanned <= n + 1 /\ n + 1 <= n + 1
      BY <1>2
    <3> QED BY <3>1, <3>2, <3>3, <3>4
  <2>4. \A i, j \in DOMAIN posted : i < j => posted[i] < posted[j]
    BY DEF LiveInv, StreamOK
  <2> QED BY <1>1, <1>3, <2>1, <2>2, <2>3, <2>4 DEF StreamOK
<1> QED BY <1>5, <1>7, <1>8 DEF LiveInv

\* A step of the Asset model, or of the resolver alone.
LEMMA ModelKeeps ==
  ASSUME LiveInv, UNCHANGED <<log, position, posted, fanned, clients, registration, connectivity, attended, shown, skipped>>,
         modelled' \in [LiveTopics -> Assets \union {Unbound}], DOMAIN cache' \subseteq LiveTopics
  PROVE  LiveInv'
<1>1. ClientsOK' /\ NoSilentGap' /\ InScopeOnly'
  BY ClientsFrame
<1>2. LiveTypeOK' /\ StreamOK'
  BY DEF LiveInv, LiveTypeOK, StreamOK
<1> QED BY <1>1, <1>2 DEF LiveInv

-----------------------------------------------------------------------------
(* LiveEvents: the steps of one client                                      *)

Attendances == [since : 1..(MaxEvents + 1), taken : SUBSET (1..MaxEvents), unsent : SUBSET (1..MaxEvents)]

LEMMA OneClient ==
  ASSUME LiveInv, NEW c \in Clients, NEW r \in Registrations, NEW a \in Attendances,
         Len(r.queue) <= MaxQueue, r.item < fanned, a.since <= fanned, \A e \in a.unsent : e < fanned,
         registration' \in [Clients -> Registrations], registration'[c] = r,
         attended' \in [Clients -> Attendances], attended'[c] = a,
         \A d \in Clients \ {c} : registration'[d] = registration[d] /\ attended'[d] = attended[d],
         UNCHANGED <<log, position, posted, fanned, skipped, modelled, connectivity>>,
         DOMAIN cache' \subseteq LiveTopics,
         clients' \in Seq(Clients), Len(clients') <= MaxClients,
         \A i, j \in DOMAIN clients' : clients'[i] = clients'[j] => i = j,
         \A i \in DOMAIN clients' : clients'[i] = c \/ \E j \in DOMAIN clients : clients[j] = clients'[i],
         (\E i \in DOMAIN clients' : clients'[i] = c) =>
           HasAll(a.taken, r.queue, {e \in a.since..(fanned - 1) :
                                       log[e].topic \in r.topics /\ e \notin a.unsent \union skipped}),
         InScopeOnly'
  PROVE  LiveInv'
<1>1. \A d \in Clients : Len(registration'[d].queue) <= MaxQueue
  BY DEF LiveInv, LiveTypeOK
<1>2. LiveTypeOK'
  BY <1>1 DEF LiveInv, LiveTypeOK, Attendances
<1>3. StreamOK'
  BY DEF LiveInv, StreamOK
<1>4. ClientsOK'
  BY DEF LiveInv, ClientsOK
<1>5. ASSUME NEW d \in Clients, d # c PROVE Expected(d)' = Expected(d)
  BY <1>5, ExpectedSame
<1>6. Expected(c)' = {e \in a.since..(fanned - 1) : log[e].topic \in r.topics /\ e \notin a.unsent \union skipped}
  BY DEF Expected, Wants
<1>7. ASSUME NEW i \in DOMAIN clients' PROVE HasAll(attended[clients[i]].taken, registration[clients[i]].queue, Expected(clients[i]))'
  <2>1. PICK d : d = clients'[i]
    OBVIOUS
  <2>2. d \in Clients
    BY <2>1
  <2>3. CASE d = c
    <3>1. HasAll(a.taken, r.queue, Expected(c)')
      BY <1>6, <2>1, <2>3
    <3>2. HasAll(attended'[c].taken, registration'[c].queue, Expected(c)')
      BY <3>1
    <3> QED BY <2>1, <2>3, <3>2
  <2>4. CASE d # c
    <3>1. PICK j \in DOMAIN clients : clients[j] = d
      BY <2>1, <2>4
    <3>2. HasAll(attended[d].taken, registration[d].queue, Expected(d))
      BY <3>1 DEF LiveInv, NoSilentGap, Range
    <3>3. HasAll(attended'[d].taken, registration'[d].queue, Expected(d)')
      BY <1>5, <2>2, <2>4, <3>2
    <3> QED BY <2>1, <3>3
  <2> QED BY <2>3, <2>4
<1>8. NoSilentGap'
  BY <1>7 DEF NoSilentGap, Range
<1> QED BY <1>2, <1>3, <1>4, <1>8 DEF LiveInv

\* Nobody: no queue, nothing taken, nothing expected.
LEMMA Nobody ==
  ASSUME LiveInv, NEW r \in Registrations, r.queue = <<>>, r.item = 0,
         NEW since \in 1..(MaxEvents + 1), NEW a, a = [since |-> since, taken |-> {}, unsent |-> {}]
  PROVE  /\ Len(r.queue) <= MaxQueue /\ r.item < fanned
         /\ a \in Attendances /\ a.since = since /\ a.taken = {} /\ a.unsent = {}
         /\ HasAll(a.taken, r.queue, {})
<1>1. Len(<<>>) <= MaxQueue /\ 0 < fanned
  BY LiveNats, LiveTypes DEF LiveInv
<1>2. Heard(<<>>) = {} /\ Queued(<<>>) = {}
  BY DEF Heard, Queued
<1>3. a \in Attendances /\ a.since = since /\ a.taken = {} /\ a.unsent = {}
  BY DEF Attendances
<1>4. HasAll({}, <<>>, {})
  BY <1>2 DEF HasAll
<1> QED BY <1>1, <1>3, <1>4

LEMMA SubscribeKeeps ==
  ASSUME LiveInv, NEW c \in Clients, NEW topics \in SUBSET LiveTopics, Subscribe(c, topics) PROVE LiveInv'
<1>1. PICK r : r = [NoRegistration EXCEPT !.topics = topics]
  OBVIOUS
<1>2. PICK a : a = [since |-> fanned, taken |-> {}, unsent |-> {}]
  OBVIOUS
<1>3. fanned \in 1..(MaxEvents + 1) /\ fanned \in Nat
  BY LiveTypes DEF LiveInv, LiveTypeOK
<1>4. /\ r \in Registrations /\ r.queue = <<>> /\ Len(r.queue) <= MaxQueue /\ r.item < fanned
      /\ a \in Attendances /\ a.since = fanned /\ a.taken = {} /\ a.unsent = {} /\ HasAll(a.taken, r.queue, {})
  <2>1. r \in Registrations /\ r.queue = <<>> /\ r.item = 0
    BY <1>1, NoRegistrationType DEF Registrations
  <2> QED BY <1>2, <1>3, <2>1, Nobody
<1>5. /\ registration' = [registration EXCEPT ![c] = r] /\ attended' = [attended EXCEPT ![c] = a]
      /\ UNCHANGED <<log, position, posted, fanned, skipped, modelled, connectivity, cache, shown>>
  BY <1>1, <1>2 DEF Subscribe
<1>6. registration \in [Clients -> Registrations] /\ attended \in [Clients -> Attendances]
  BY SMTT(40) DEF LiveInv, LiveTypeOK, Attendances
<1>7. PICK n \in Nat : n = Len(clients) /\ DOMAIN clients = 1..n /\ \A i \in 1..n : clients[i] \in Clients
  BY LiveTypes DEF LiveInv
<1>8. /\ clients' \in Seq(Clients) /\ Len(clients') = n + 1 /\ clients'[n + 1] = c
      /\ \A i \in 1..n : clients'[i] = clients[i]
  <2>1. clients \in Seq(Clients) /\ clients' = Append(clients, c)
    BY LiveTypes DEF LiveInv, Subscribe
  <2> QED BY <1>7, <2>1, AppendProperties
<1>9. DOMAIN clients' = 1..(n + 1) /\ \A i \in 1..(n + 1) : i \in 1..n \/ i = n + 1
  BY <1>8
<1>10. \A i \in 1..n : clients[i] # c
  BY <1>7, LiveTypes DEF LiveInv, Subscribe
<1>11. \A i, j \in DOMAIN clients' : clients'[i] = clients'[j] => i = j
  <2>1. \A i, j \in 1..n : clients[i] = clients[j] => i = j
    BY <1>7 DEF LiveInv, ClientsOK
  <2> QED BY <1>8, <1>9, <1>10, <2>1
<1>12. Len(clients') <= MaxClients
  BY <1>7, <1>8, LiveNats DEF Subscribe
<1>13. \A i \in DOMAIN clients' : clients'[i] = c \/ \E j \in DOMAIN clients : clients[j] = clients'[i]
  BY <1>7, <1>8, <1>9
<1>14. {e \in a.since..(fanned - 1) : log[e].topic \in r.topics /\ e \notin a.unsent \union skipped} = {}
  BY <1>3, <1>4
<1>15. InScopeOnly'
  BY <1>5 DEF LiveInv, InScopeOnly
<1>16. DOMAIN cache' \subseteq LiveTopics
  BY <1>5 DEF LiveInv, LiveTypeOK
<1>17. /\ registration' \in [Clients -> Registrations] /\ registration'[c] = r
       /\ attended' \in [Clients -> Attendances] /\ attended'[c] = a
       /\ \A d \in Clients \ {c} : registration'[d] = registration[d] /\ attended'[d] = attended[d]
  BY <1>4, <1>5, <1>6
<1>18. a.since <= fanned /\ \A e \in a.unsent : e < fanned
  BY <1>3, <1>4
<1>19. HasAll(a.taken, r.queue, {e \in a.since..(fanned - 1) : log[e].topic \in r.topics /\ e \notin a.unsent \union skipped})
  BY <1>4, <1>14
<1> QED BY <1>4, <1>5, <1>8, <1>11, <1>12, <1>13, <1>15, <1>16, <1>17, <1>18, <1>19, OneClient

LEMMA UnregisterKeeps == ASSUME LiveInv, NEW c \in Clients, Unregister(c) PROVE LiveInv'
<1>1. PICK r : r = NoRegistration
  OBVIOUS
<1>2. PICK a : a = [since |-> 1, taken |-> {}, unsent |-> {}]
  OBVIOUS
<1>3. fanned \in Nat /\ fanned > 0 /\ 1 \in 1..(MaxEvents + 1)
  BY LiveTypes, LiveNats DEF LiveInv
<1>4. /\ r \in Registrations /\ r.queue = <<>> /\ Len(r.queue) <= MaxQueue /\ r.item < fanned
      /\ a \in Attendances /\ a.since = 1 /\ a.taken = {} /\ a.unsent = {}
  <2>1. r \in Registrations /\ r.queue = <<>> /\ r.item = 0
    BY <1>1, NoRegistrationType
  <2> QED BY <1>2, <1>3, <2>1, Nobody
<1>5. /\ registration' = [registration EXCEPT ![c] = r] /\ attended' = [attended EXCEPT ![c] = a]
      /\ UNCHANGED <<log, position, posted, fanned, skipped, modelled, connectivity, cache, shown>>
  BY <1>1, <1>2 DEF Unregister
<1>6. registration \in [Clients -> Registrations] /\ attended \in [Clients -> Attendances]
  BY SMTT(40) DEF LiveInv, LiveTypeOK, Attendances
<1>7. PICK i \in DOMAIN clients : clients[i] = c /\ clients' = RemoveAt(clients, i)
  BY DEF Unregister
<1>8. PICK n \in Nat : n = Len(clients) /\ DOMAIN clients = 1..n
  BY LiveTypes DEF LiveInv
<1>9. /\ clients' \in Seq(Clients) /\ Len(clients') = n - 1
      /\ \A k \in 1..(n - 1) : clients'[k] = IF k < i THEN clients[k] ELSE clients[k + 1]
  <2>1. clients \in Seq(Clients)
    BY LiveTypes DEF LiveInv
  <2> QED BY <1>7, <1>8, <2>1, WithoutOne
<1>10. DOMAIN clients' = 1..(n - 1)
  <2>1. n >= 1
    BY <1>7, <1>8
  <2> QED BY <1>8, <1>9, <2>1
<1>11. \A j, k \in 1..n : clients[j] = clients[k] => j = k
  BY <1>8 DEF LiveInv, ClientsOK
<1>12. \A k \in 1..(n - 1) : k \in 1..n /\ k + 1 \in 1..n /\ k \in Int
  BY <1>8
<1>13. ASSUME NEW k \in 1..(n - 1) PROVE clients'[k] # c /\ \E j \in 1..n : clients[j] = clients'[k]
  <2>1. CASE k < i
    BY <1>7, <1>8, <1>9, <1>11, <1>12, <2>1
  <2>2. CASE ~(k < i)
    <3>1. k + 1 # i
      BY <1>7, <1>8, <1>12, <2>2
    <3> QED BY <1>7, <1>8, <1>9, <1>11, <1>12, <2>2, <3>1
  <2> QED BY <2>1, <2>2
<1>14. ASSUME NEW j \in 1..(n - 1), NEW k \in 1..(n - 1), clients'[j] = clients'[k] PROVE j = k
  <2>1. i \in Int /\ j \in Int /\ k \in Int
    BY <1>7, <1>8
  <2>2. CASE j < i /\ k < i
    BY <1>9, <1>11, <1>12, <1>14, <2>2
  <2>3. CASE ~(j < i) /\ ~(k < i)
    <3>1. j + 1 = k + 1
      BY <1>9, <1>11, <1>12, <1>14, <2>3
    <3> QED BY <2>1, <3>1
  <2>4. CASE j < i /\ ~(k < i)
    <3>1. j = k + 1
      BY <1>9, <1>11, <1>12, <1>14, <2>4
    <3> QED BY <2>1, <2>4, <3>1
  <2>5. CASE ~(j < i) /\ k < i
    <3>1. j + 1 = k
      BY <1>9, <1>11, <1>12, <1>14, <2>5
    <3> QED BY <2>1, <2>5, <3>1
  <2> QED BY <2>2, <2>3, <2>4, <2>5
<1>15. Len(clients') <= MaxClients
  BY <1>8, <1>9, LiveNats DEF LiveInv, LiveTypeOK
<1>16. InScopeOnly' /\ DOMAIN cache' \subseteq LiveTopics
  BY <1>5 DEF LiveInv, InScopeOnly, LiveTypeOK
<1>17. /\ registration' \in [Clients -> Registrations] /\ registration'[c] = r
       /\ attended' \in [Clients -> Attendances] /\ attended'[c] = a
       /\ \A d \in Clients \ {c} : registration'[d] = registration[d] /\ attended'[d] = attended[d]
  BY <1>4, <1>5, <1>6
<1>18. a.since <= fanned /\ \A e \in a.unsent : e < fanned
  BY <1>3, <1>4
<1>19. /\ \A j, k \in DOMAIN clients' : clients'[j] = clients'[k] => j = k
       /\ \A j \in DOMAIN clients' : clients'[j] # c /\ \E k \in DOMAIN clients : clients[k] = clients'[j]
  BY <1>8, <1>10, <1>13, <1>14
<1> QED BY <1>4, <1>5, <1>9, <1>15, <1>16, <1>17, <1>18, <1>19, OneClient

\* A registered client has all it expects.
LEMMA HasAllOf ==
  ASSUME LiveInv, NEW c \in Range(clients)
  PROVE  /\ c \in Clients
         /\ HasAll(attended[c].taken, registration[c].queue,
              {e \in attended[c].since..(fanned - 1) :
                 log[e].topic \in registration[c].topics /\ e \notin attended[c].unsent \union skipped})
<1>1. c \in Clients
  BY LiveTypes DEF LiveInv
<1> QED BY <1>1 DEF LiveInv, NoSilentGap, Expected, Wants

LEMMA TakeKeeps == ASSUME LiveInv, NEW c \in Clients, Take(c) PROVE LiveInv'
<1>1. PICK r, a : r = registration[c] /\ a = attended[c]
  OBVIOUS
<1>2. /\ r \in Registrations /\ r.queue \in Seq((1..MaxEvents) \union {Resync}) /\ Len(r.queue) \in 0..MaxQueue
      /\ a \in Attendances /\ a.taken \subseteq 1..MaxEvents /\ a.since \in Nat
  BY <1>1, ClientTypes DEF LiveInv, Attendances
<1>3. PICK q, first : q = Tail(r.queue) /\ first = Head(r.queue)
  OBVIOUS
<1>4. r.queue # <<>> /\ first # Resync /\ c \in Range(clients)
  BY <1>1, <1>3 DEF Take
<1>5. /\ q \in Seq((1..MaxEvents) \union {Resync}) /\ Len(q) = Len(r.queue) - 1 /\ first \in 1..MaxEvents
      /\ first = r.queue[1]
  BY <1>2, <1>3, <1>4, HeadTailProperties
<1>6. PICK n : n = [r EXCEPT !.item = first, !.queue = q]
  OBVIOUS
<1>7. /\ n \in Registrations /\ n.queue = q /\ n.item = first /\ n.topics = r.topics
  <2>1. first \in 0..MaxEvents
    BY <1>5, LiveNats
  <2> QED BY <1>2, <1>5, <1>6, <2>1 DEF Registrations
<1>8. PICK b : b = [a EXCEPT !.taken = a.taken \union {first}]
  OBVIOUS
<1>9. b \in Attendances /\ b.since = a.since /\ b.unsent = a.unsent /\ b.taken = a.taken \union {first}
  <2>1. a.taken \union {first} \in SUBSET (1..MaxEvents)
    BY <1>2, <1>5
  <2> QED BY <1>2, <1>8, <2>1 DEF Attendances
<1>10. /\ registration' = [registration EXCEPT ![c] = n] /\ attended' = [attended EXCEPT ![c] = b]
       /\ UNCHANGED <<log, position, posted, fanned, clients, skipped, modelled, connectivity, cache, shown>>
  BY <1>1, <1>3, <1>6, <1>8 DEF Take
<1>11. PICK expected : expected = {e \in a.since..(fanned - 1) : log[e].topic \in r.topics /\ e \notin a.unsent \union skipped}
  OBVIOUS
<1>12. fanned \in Nat /\ expected \in SUBSET Nat /\ \A e \in expected : e < fanned
  <2>1. fanned \in Nat
    BY LiveTypes DEF LiveInv
  <2> QED BY <1>2, <1>11, <2>1
<1>13. HasAll(a.taken, r.queue, expected)
  BY <1>1, <1>4, <1>11, HasAllOf
<1>14. HasAll(b.taken, q, expected)
  <2>1. (1..MaxEvents) \in SUBSET Nat /\ a.taken \in SUBSET Nat
    BY <1>2
  <2> QED BY <1>2, <1>3, <1>4, <1>9, <1>12, <1>13, <2>1, HasAllTake
<1>15. first < fanned
  <2>1. 1 \in Heard(r.queue)
    <3>1. 1 \in DOMAIN r.queue /\ \A j \in 1..1 : r.queue[j] # Resync
      BY <1>2, <1>4, <1>5
    <3> QED BY <3>1 DEF Heard
  <2>2. first \in Queued(r.queue)
    BY <1>5, <2>1 DEF Queued
  <2> QED BY <1>12, <1>13, <2>2 DEF HasAll
<1>16. registration \in [Clients -> Registrations] /\ attended \in [Clients -> Attendances]
  BY DEF LiveInv, LiveTypeOK, Attendances
<1>17. /\ registration' \in [Clients -> Registrations] /\ registration'[c] = n
       /\ attended' \in [Clients -> Attendances] /\ attended'[c] = b
       /\ \A d \in Clients \ {c} : registration'[d] = registration[d] /\ attended'[d] = attended[d]
  BY <1>7, <1>9, <1>10, <1>16
<1>18. b.since <= fanned /\ \A e \in b.unsent : e < fanned
  BY <1>1, <1>9 DEF LiveInv, ClientsOK
<1>19. Len(n.queue) <= MaxQueue
  BY <1>2, <1>5, <1>7, LiveNats
<1>20. InScopeOnly' /\ DOMAIN cache' \subseteq LiveTopics
  BY <1>10 DEF LiveInv, InScopeOnly, LiveTypeOK
<1>21. /\ clients' \in Seq(Clients) /\ Len(clients') <= MaxClients
       /\ \A i, j \in DOMAIN clients' : clients'[i] = clients'[j] => i = j
  BY <1>10 DEF LiveInv, LiveTypeOK, ClientsOK
<1>22. HasAll(b.taken, n.queue, {e \in b.since..(fanned - 1) : log[e].topic \in n.topics /\ e \notin b.unsent \union skipped})
  BY <1>7, <1>9, <1>11, <1>14
<1> QED BY <1>7, <1>9, <1>10, <1>15, <1>17, <1>18, <1>19, <1>20, <1>21, <1>22, OneClient

LEMMA ShowKeeps == ASSUME LiveInv, NEW c \in Clients, Show(c) PROVE LiveInv'
<1>1. PICK r, a : r = registration[c] /\ a = attended[c]
  OBVIOUS
<1>2. r \in Registrations /\ Len(r.queue) \in 0..MaxQueue /\ a \in Attendances /\ r.item \in 0..MaxEvents
  BY <1>1, ClientTypes DEF LiveInv, Attendances
<1>3. PICK t : t = log[r.item].topic
  OBVIOUS
<1>4. t \in LiveTopics
  <2>1. r.item # 0 /\ r.item < fanned
    BY <1>1 DEF Show, NoItem, LiveInv, ClientsOK
  <2>2. r.item \in 1..Len(log)
    <3>1. r.item \in Nat /\ fanned \in Nat /\ position \in Nat /\ Len(log) \in Nat
      BY <1>2, LiveTypes DEF LiveInv
    <3>2. fanned <= position /\ position <= Len(log) + 1
      BY DEF LiveInv, StreamOK
    <3> QED BY <2>1, <3>1, <3>2
  <2>3. log[r.item] \in [topic : LiveTopics, size : Sizes]
    BY <2>2, LiveTypes, ElementOfSeq DEF LiveInv
  <2> QED BY <1>3, <2>3
<1>5. PICK bound : bound = IF t \in DOMAIN cache THEN cache[t] ELSE modelled[t]
  OBVIOUS
<1>6. /\ registration' = [registration EXCEPT ![c] = [r EXCEPT !.item = 0]]
      /\ cache' = [u \in DOMAIN cache \union {t} |-> IF u = t THEN bound ELSE cache[u]]
      /\ shown' = IF Visible(Roots[c], bound, connectivity[t])
                  THEN {[client |-> c, stale |-> bound # modelled[t],
                         owner |-> IF modelled[t] = Unbound THEN connectivity[t] ELSE modelled[t]]}
                  ELSE {}
      /\ UNCHANGED <<log, position, posted, fanned, clients, skipped, modelled, connectivity, attended>>
  BY <1>1, <1>3, <1>5 DEF Show, NoItem
<1>7. PICK n : n = [r EXCEPT !.item = 0]
  OBVIOUS
<1>8. n \in Registrations /\ n.queue = r.queue /\ n.topics = r.topics /\ n.item = 0
  <2>1. 0 \in 0..MaxEvents
    BY LiveNats
  <2> QED BY <1>2, <1>7, <2>1 DEF Registrations
<1>9. DOMAIN cache' \subseteq LiveTopics
  BY <1>4, <1>6 DEF LiveInv, LiveTypeOK
<1>10. InScopeOnly'
  <2> SUFFICES ASSUME NEW s \in shown' PROVE s.owner \in Roots[s.client] \/ s.stale
    BY DEF InScopeOnly
  <2>1. PICK owner, stale : /\ owner = IF modelled[t] = Unbound THEN connectivity[t] ELSE modelled[t]
                            /\ stale = (bound # modelled[t])
    OBVIOUS
  <2>2. Visible(Roots[c], bound, connectivity[t]) /\ s = [client |-> c, stale |-> stale, owner |-> owner]
    BY <1>6, <2>1
  <2>3. s.owner = owner /\ s.client = c /\ s.stale = stale
    BY <2>2
  <2>4. Unbound \notin Roots[c]
    BY LiveAssumption
  <2>5. CASE bound = modelled[t]
    <3>1. owner \in Roots[c]
      BY <2>1, <2>2, <2>4, <2>5 DEF Visible
    <3> QED BY <2>3, <3>1
  <2>6. CASE bound # modelled[t]
    BY <2>1, <2>3, <2>6
  <2> QED BY <2>5, <2>6
<1>11. registration \in [Clients -> Registrations] /\ attended \in [Clients -> Attendances]
  BY DEF LiveInv, LiveTypeOK, Attendances
<1>12. /\ registration' \in [Clients -> Registrations] /\ registration'[c] = n
       /\ attended' \in [Clients -> Attendances] /\ attended'[c] = a
       /\ \A d \in Clients \ {c} : registration'[d] = registration[d] /\ attended'[d] = attended[d]
  BY <1>1, <1>6, <1>7, <1>8, <1>11
<1>13. a.since <= fanned /\ (\A e \in a.unsent : e < fanned) /\ n.item < fanned
  BY <1>1, <1>8, LiveTypes DEF LiveInv, ClientsOK
<1>14. Len(n.queue) <= MaxQueue
  BY <1>2, <1>8
<1>15. /\ clients' \in Seq(Clients) /\ Len(clients') <= MaxClients
       /\ \A i, j \in DOMAIN clients' : clients'[i] = clients'[j] => i = j
  BY <1>6 DEF LiveInv, LiveTypeOK, ClientsOK
<1>16. (\E i \in DOMAIN clients' : clients'[i] = c) =>
         HasAll(a.taken, n.queue, {e \in a.since..(fanned - 1) : log[e].topic \in n.topics /\ e \notin a.unsent \union skipped})
  <2>1. (\E i \in DOMAIN clients' : clients'[i] = c) => c \in Range(clients)
    BY <1>6 DEF Range
  <2> QED BY <1>1, <1>8, <2>1, HasAllOf
<1> QED BY ZenonT(40), <1>2, <1>6, <1>8, <1>9, <1>10, <1>12, <1>13, <1>14, <1>15, <1>16, OneClient

-----------------------------------------------------------------------------
(* LiveEvents: the fan-out of one event                                     *)

\* What the offer of an event does to a client: one element more, or, of a full queue, none.
LEMMA OfferFacts ==
  ASSUME LiveTypeOK, NEW c \in Clients, NEW r, r = registration[c], NEW e \in 1..MaxEvents,
         log[e].size \in Nat, NEW o, o = Offer(r, e)
  PROVE  /\ o \in Registrations /\ o.topics = r.topics /\ o.item = r.item /\ Len(o.queue) <= MaxQueue
         /\ Len(r.queue) = MaxQueue => o.queue = r.queue
         /\ Len(r.queue) # MaxQueue => \E x \in {e, Resync} : o.queue = Append(r.queue, x)
<1>1. PICK size : size = log[e].size /\ size \in Nat
  OBVIOUS
<1>2. PICK x \in {e, Resync} : x = IF Admits(r, size) THEN e ELSE Resync
  OBVIOUS
<1>3. PICK q : q = IF Len(r.queue) = MaxQueue THEN r.queue ELSE Append(r.queue, x)
  OBVIOUS
<1>4. PICK m : m = IF x = Resync THEN r.count ELSE r.count + 1
  OBVIOUS
<1>5. PICK b : b = IF x = Resync THEN r.bytes ELSE r.bytes + size
  OBVIOUS
<1>6. /\ r \in Registrations /\ r.queue \in Seq((1..MaxEvents) \union {Resync}) /\ Len(r.queue) \in 0..MaxQueue
      /\ r.count \in 0..MaxQueue /\ r.bytes \in 0..MaxBytes
  BY ClientTypes
<1>7. o = [r EXCEPT !.queue = q, !.count = m, !.bytes = b]
  BY <1>1, <1>2, <1>3, <1>4, <1>5 DEF Offer, Accept
<1>8. x = e <=> Admits(r, size)
  <2>1. e # Resync
    BY LiveNats
  <2> QED BY <1>2, <2>1
<1>9. m \in 0..MaxQueue /\ b \in 0..MaxBytes
  <2>1. e # Resync
    BY LiveNats
  <2>2. CASE x = Resync
    BY <1>4, <1>5, <1>6, <2>2
  <2>3. CASE x # Resync
    <3>1. Admits(r, size)
      BY <1>2, <2>3
    <3> QED BY SMTT(40), <1>1, <1>4, <1>5, <1>6, <2>3, <3>1, LiveNats DEF Admits
  <2> QED BY <2>2, <2>3
<1>10. q \in Seq((1..MaxEvents) \union {Resync}) /\ Len(q) <= MaxQueue
  <2>1. CASE Len(r.queue) = MaxQueue
    BY <1>3, <1>6, <2>1, LiveNats
  <2>2. CASE Len(r.queue) # MaxQueue
    <3>1. x \in (1..MaxEvents) \union {Resync} /\ q = Append(r.queue, x)
      BY <1>3, <2>2
    <3>2. q \in Seq((1..MaxEvents) \union {Resync}) /\ Len(q) = Len(r.queue) + 1
      BY <1>6, <3>1, AppendProperties
    <3> QED BY <1>6, <2>2, <3>2, LiveNats
  <2> QED BY <2>1, <2>2
<1>11. o \in Registrations /\ o.topics = r.topics /\ o.item = r.item /\ o.queue = q
  BY <1>6, <1>7, <1>9, <1>10 DEF Registrations
<1> QED BY <1>3, <1>10, <1>11

\* Only a client whose queue is full, or that comes after one, is missed.
LEMMA Served ==
  ASSUME LiveInv, NEW e, NEW c \in Range(clients)
  PROVE  /\ c \in Missed(e) /\ c \in Offered(e) /\ Wants(c, e) => Len(registration[c].queue) = MaxQueue
         /\ c \notin Missed(e) => c \in Offered(e) /\ (Wants(c, e) => Len(registration[c].queue) # MaxQueue)
<1>1. PICK n \in Nat : DOMAIN clients = 1..n /\ \A i, j \in 1..n : clients[i] = clients[j] => i = j
  BY LiveTypes DEF LiveInv, ClientsOK
<1>2. PICK i \in 1..n : clients[i] = c
  BY <1>1 DEF Range
<1>3. Full(e) \subseteq 1..n
  BY <1>1 DEF Full
<1>4. c \in Missed(e) <=> \E j \in Full(e) : j <= i
  BY <1>1, <1>2 DEF Missed
<1>5. c \in Offered(e) <=> \A j \in Full(e) : i <= j
  BY <1>1, <1>2 DEF Offered
<1>6. i \in Full(e) <=> Wants(c, e) /\ Len(registration[c].queue) = MaxQueue
  BY <1>1, <1>2 DEF Full
<1>7. ASSUME c \in Missed(e), c \in Offered(e) PROVE Len(registration[c].queue) = MaxQueue
  <2>1. PICK j \in Full(e) : j <= i /\ i <= j
    BY <1>4, <1>5, <1>7
  <2>2. i = j
    BY <1>3, <2>1
  <2> QED BY <1>6, <2>1, <2>2
<1>8. ASSUME c \notin Missed(e)
      PROVE  c \in Offered(e) /\ (Wants(c, e) => Len(registration[c].queue) # MaxQueue)
  <2>1. \A j \in Full(e) : ~(j <= i)
    BY <1>4, <1>8
  <2>2. i \notin Full(e)
    BY <2>1
  <2>3. \A j \in Full(e) : i <= j
    BY <1>3, <2>1
  <2> QED BY <1>5, <1>6, <2>2, <2>3
<1> QED BY <1>7, <1>8

LEMMA FanOutKeeps == ASSUME LiveInv, FanOut PROVE LiveInv'
<1>1. PICK e : e = Head(posted)
  OBVIOUS
<1>2. /\ posted # <<>> /\ posted' = Tail(posted) /\ fanned' = e + 1
      /\ registration' = [c \in Clients |-> IF c \in Offered(e) /\ Wants(c, e) THEN Offer(registration[c], e)
                                            ELSE registration[c]]
      /\ attended' = [c \in Clients |-> IF c \in Missed(e)
                        THEN [attended[c] EXCEPT !.unsent = attended[c].unsent \union {e}] ELSE attended[c]]
      /\ UNCHANGED <<log, position, clients, modelled, connectivity, cache, shown, skipped>>
  BY SMTT(40), <1>1 DEF FanOut
<1>3. PICK n \in Nat : DOMAIN posted = 1..n /\ n = Len(posted)
  BY LiveTypes DEF LiveInv
<1>4. /\ e = posted[1] /\ 1 \in 1..n /\ posted' \in Seq(1..MaxEvents) /\ DOMAIN posted' = 1..(n - 1)
      /\ \A i \in 1..(n - 1) : posted'[i] = posted[i + 1]
  <2>1. posted \in Seq(1..MaxEvents) /\ posted # <<>>
    BY <1>2, LiveTypes DEF LiveInv
  <2>2. posted' \in Seq(1..MaxEvents) /\ Len(posted') = n - 1 /\ \A i \in 1..Len(posted') : posted'[i] = posted[i + 1]
    BY <1>2, <1>3, <2>1, HeadTailProperties
  <2>3. n >= 1 /\ e = posted[1]
    BY <1>1, <1>3, <2>1
  <2> QED BY <1>3, <2>2, <2>3
<1>5. /\ e \in Nat /\ e \in 1..MaxEvents /\ fanned \in Nat /\ fanned > 0 /\ position \in Nat /\ Len(log) \in Nat
      /\ \A i \in 1..n : posted[i] \in Nat
  BY <1>3, <1>4, LiveTypes DEF LiveInv
<1>6. /\ fanned <= e /\ e < position /\ e \notin skipped /\ position <= Len(log) + 1
      /\ \A i, j \in 1..n : i < j => posted[i] < posted[j]
      /\ \A x \in fanned..(position - 1) : x \in skipped \/ \E i \in 1..n : posted[i] = x
      /\ \A i \in 1..n : fanned <= posted[i] /\ posted[i] < position /\ posted[i] \notin skipped
  BY <1>3, <1>4 DEF LiveInv, StreamOK
<1>7. \A x \in fanned..(e - 1) : x \in skipped
  <2> SUFFICES ASSUME NEW x \in fanned..(e - 1), x \notin skipped PROVE FALSE
    OBVIOUS
  <2>1. x \in fanned..(position - 1)
    BY <1>5, <1>6
  <2>2. PICK i \in 1..n : posted[i] = x
    BY <1>6, <2>1
  <2>3. CASE i = 1
    BY <1>4, <1>5, <2>2, <2>3
  <2>4. CASE i # 1
    <3>1. posted[1] < posted[i]
      BY <1>4, <1>6, <2>4
    <3> QED BY <1>4, <1>5, <2>2, <3>1
  <2> QED BY <2>3, <2>4
<1>8. StreamOK'
  <2>1. \A i \in 1..(n - 1) : i \in Nat /\ i + 1 \in 1..n
    BY <1>3
  <2>2. ASSUME NEW i \in 1..(n - 1)
        PROVE  e + 1 <= posted'[i] /\ posted'[i] < position /\ posted'[i] \notin skipped
    <3>1. posted[1] < posted[i + 1]
      BY <1>4, <1>6, <2>1
    <3>2. PICK y \in Nat : y = posted[i + 1]
      BY <1>5, <2>1
    <3>3. posted'[i] = y
      BY <1>4, <3>2
    <3>4. y < position /\ y \notin skipped
      BY <1>6, <2>1, <3>2
    <3>5. e < y
      BY <1>4, <3>1, <3>2
    <3>6. e + 1 <= y
      BY <1>5, <3>5
    <3> QED BY <3>3, <3>4, <3>6
  <2>3. ASSUME NEW i \in 1..(n - 1), NEW j \in 1..(n - 1), i < j PROVE posted'[i] < posted'[j]
    <3>1. i + 1 < j + 1
      BY <2>3
    <3> QED BY <1>4, <1>6, <2>1, <3>1
  <2>4. ASSUME NEW x \in (e + 1)..(position - 1) PROVE x \in skipped \/ \E i \in 1..(n - 1) : posted'[i] = x
    <3>1. x \in fanned..(position - 1) /\ x # e
      BY <1>5, <1>6
    <3>2. CASE x \notin skipped
      <4>1. PICK i \in 1..n : posted[i] = x
        BY <1>6, <3>1, <3>2
      <4>2. i # 1
        BY <1>4, <3>1, <4>1
      <4>3. i - 1 \in 1..(n - 1) /\ (i - 1) + 1 = i
        BY <1>3, <4>2
      <4> QED BY <1>4, <4>1, <4>3
    <3> QED BY <3>2
  <2>5. e + 1 <= position
    BY <1>5, <1>6
  <2>6. position <= Len(log) + 1 /\ skipped \subseteq 1..(position - 1)
    BY DEF LiveInv, StreamOK
  <2> QED BY <1>2, <1>4, <2>2, <2>3, <2>4, <2>5, <2>6 DEF StreamOK
<1>9. log[e].size \in Nat
  <2>1. e \in 1..Len(log)
    BY <1>5, <1>6
  <2>2. log[e] \in [topic : LiveTopics, size : Sizes]
    BY <2>1, LiveTypes, ElementOfSeq DEF LiveInv
  <2> QED BY <2>2, LiveNats
<1>10. ASSUME NEW c \in Clients, NEW r, r = registration[c], NEW o, o = registration'[c]
       PROVE  /\ o \in Registrations /\ o.topics = r.topics /\ o.item = r.item /\ Len(o.queue) <= MaxQueue
              /\ ~(c \in Offered(e) /\ Wants(c, e)) \/ Len(r.queue) = MaxQueue => o.queue = r.queue
              /\ c \in Offered(e) /\ Wants(c, e) /\ Len(r.queue) # MaxQueue =>
                   \E x \in {e, Resync} : o.queue = Append(r.queue, x)
  <2>1. CASE c \in Offered(e) /\ Wants(c, e)
    <3>1. o = Offer(r, e)
      BY <1>2, <1>10, <2>1
    <3>2. /\ o \in Registrations /\ o.topics = r.topics /\ o.item = r.item /\ Len(o.queue) <= MaxQueue
          /\ Len(r.queue) = MaxQueue => o.queue = r.queue
          /\ Len(r.queue) # MaxQueue => \E x \in {e, Resync} : o.queue = Append(r.queue, x)
      <4>1. LiveTypeOK
        BY DEF LiveInv
      <4> QED BY SMTT(40), <1>5, <1>9, <1>10, <3>1, <4>1, OfferFacts
    <3> QED BY <2>1, <3>2
  <2>2. CASE ~(c \in Offered(e) /\ Wants(c, e))
    <3>1. o = r
      BY <1>2, <1>10, <2>2
    <3> QED BY <1>10, <2>2, <3>1, ClientTypes DEF LiveInv
  <2> QED BY <2>1, <2>2
<1>11. ASSUME NEW c \in Clients, NEW a, a = attended[c], NEW b, b = attended'[c]
       PROVE  /\ b \in Attendances /\ b.since = a.since /\ b.taken = a.taken
              /\ b.unsent = IF c \in Missed(e) THEN a.unsent \union {e} ELSE a.unsent
  <2>1. a \in Attendances
    BY <1>11, ClientTypes DEF LiveInv, Attendances
  <2>2. b = IF c \in Missed(e) THEN [a EXCEPT !.unsent = a.unsent \union {e}] ELSE a
    BY <1>2, <1>11
  <2> QED BY <1>5, <2>1, <2>2 DEF Attendances
<1>12. LiveTypeOK'
  <2>1. e + 1 \in 1..(MaxEvents + 1)
    BY <1>5, LiveNats
  <2>2. DOMAIN registration' = Clients /\ registration' = [c \in Clients |-> registration'[c]]
    BY <1>2
  <2>3. registration' \in [Clients -> Registrations] /\ \A c \in Clients : Len(registration'[c].queue) <= MaxQueue
    BY <1>10, <2>2
  <2>4. attended' = [c \in Clients |-> attended'[c]]
    BY <1>2
  <2>5. attended' \in [Clients -> Attendances]
    BY <1>11, <2>4
  <2> QED BY <1>2, <1>4, <2>1, <2>3, <2>5 DEF LiveInv, LiveTypeOK, Attendances
<1>13. ClientsOK'
  <2>1. ASSUME NEW c \in Clients
        PROVE  /\ registration'[c].item < e + 1 /\ attended'[c].since <= e + 1
               /\ \A x \in attended'[c].unsent : x < e + 1
    <3>1. PICK r, a, b : r = registration[c] /\ a = attended[c] /\ b = attended'[c]
      OBVIOUS
    <3>2. r.item < fanned /\ a.since <= fanned /\ \A x \in a.unsent : x < fanned
      BY <3>1 DEF LiveInv, ClientsOK
    <3>3. r.item \in Nat /\ a.since \in Nat /\ a.unsent \subseteq Nat
      <4>1. r.item \in 0..MaxEvents /\ a.since \in Nat /\ a.unsent \subseteq 1..MaxEvents
        BY <3>1, ClientTypes DEF LiveInv
      <4> QED BY <4>1
    <3>4. registration'[c].item = r.item
      BY <1>10, <3>1
    <3>5. b.since = a.since /\ b.unsent \subseteq a.unsent \union {e}
      <4>1. b.since = a.since /\ b.unsent = IF c \in Missed(e) THEN a.unsent \union {e} ELSE a.unsent
        BY <1>11, <3>1
      <4> QED BY <4>1
    <3>6. r.item < e + 1 /\ a.since <= e + 1 /\ \A x \in a.unsent \union {e} : x < e + 1
      BY <1>5, <1>6, <3>2, <3>3
    <3> QED BY <3>1, <3>4, <3>5, <3>6
  <2> QED BY <1>2, <2>1 DEF LiveInv, ClientsOK
<1>14. ASSUME NEW c \in Range(clients)
       PROVE  HasAll(attended'[c].taken, registration'[c].queue, Expected(c)')
  <2>1. PICK r, o : r = registration[c] /\ o = registration'[c]
    OBVIOUS
  <2>2. PICK a, b : a = attended[c] /\ b = attended'[c]
    OBVIOUS
  <2>3. c \in Clients
    BY LiveTypes DEF LiveInv
  <2>4. /\ o.topics = r.topics
        /\ ~(c \in Offered(e) /\ Wants(c, e)) \/ Len(r.queue) = MaxQueue => o.queue = r.queue
        /\ c \in Offered(e) /\ Wants(c, e) /\ Len(r.queue) # MaxQueue =>
             \E x \in {e, Resync} : o.queue = Append(r.queue, x)
    BY SMTT(40), <1>10, <2>1, <2>3
  <2>5. /\ b.since = a.since /\ b.taken = a.taken
        /\ b.unsent = IF c \in Missed(e) THEN a.unsent \union {e} ELSE a.unsent
    BY <1>11, <2>2, <2>3
  <2>6. PICK expected : expected = {x \in a.since..(fanned - 1) : log[x].topic \in r.topics /\ x \notin a.unsent \union skipped}
    OBVIOUS
  <2>7. HasAll(a.taken, r.queue, expected)
    BY <2>1, <2>2, <2>6, HasAllOf
  <2>8. PICK next : next = {x \in a.since..((e + 1) - 1) : log[x].topic \in r.topics /\ x \notin b.unsent \union skipped}
    OBVIOUS
  <2>9. Expected(c)' = next
    <3>1. Expected(c)' = {x \in b.since..((e + 1) - 1) : log[x].topic \in o.topics /\ x \notin b.unsent \union skipped}
      BY <1>2, <2>1, <2>2 DEF Expected, Wants
    <3> QED BY <2>4, <2>5, <2>8, <3>1
  <2>10. /\ a.since \in Nat /\ a.since <= fanned /\ a.taken \subseteq 1..MaxEvents /\ a.unsent \subseteq Nat
         /\ \A x \in a.unsent : x < fanned
    <3>1. a.since \in Nat /\ a.taken \subseteq 1..MaxEvents /\ a.unsent \subseteq 1..MaxEvents
      BY <2>2, <2>3, ClientTypes DEF LiveInv
    <3>2. a.since <= fanned /\ \A x \in a.unsent : x < fanned
      BY <2>2, <2>3 DEF LiveInv, ClientsOK
    <3> QED BY <3>1, <3>2
  <2>11. Wants(c, e) <=> log[e].topic \in r.topics
    BY <2>1 DEF Wants
  <2>12. \A x \in a.since..((e + 1) - 1) : x = e \/ x \in skipped \/ x \in a.since..(fanned - 1)
    <3> SUFFICES ASSUME NEW x \in a.since..((e + 1) - 1), x # e, ~(x < fanned) PROVE x \in skipped
      BY <1>5, <2>10
    <3>1. x \in fanned..(e - 1)
      BY <1>5, <2>10
    <3> QED BY <1>7, <3>1
  <2>13. e \in a.since..((e + 1) - 1) /\ e \notin a.unsent /\ e \notin expected
         /\ \A x \in a.since..(fanned - 1) : x \in a.since..((e + 1) - 1) /\ x # e
    <3>1. e \in a.since..((e + 1) - 1)
      BY <1>5, <1>6, <2>10
    <3>2. e \notin a.unsent
      BY <1>5, <1>6, <2>10
    <3>3. \A x \in a.since..(fanned - 1) : x \in a.since..((e + 1) - 1) /\ x # e
      BY <1>5, <1>6, <2>10
    <3> QED BY <2>6, <3>1, <3>2, <3>3
  <2>14. CASE Wants(c, e) /\ c \notin Missed(e)
    <3>1. c \in Offered(e) /\ Len(r.queue) # MaxQueue
      BY <2>1, <2>14, Served
    <3>2. PICK x \in {e, Resync} : o.queue = Append(r.queue, x)
      BY <2>4, <2>14, <3>1
    <3>3. b.unsent = a.unsent
      BY <2>5, <2>14
    <3>4. next = expected \union {e}
      BY <1>6, <2>6, <2>8, <2>11, <2>12, <2>13, <2>14, <3>3
    <3>5. expected \in SUBSET Nat /\ \A f \in expected : f < e
      BY <1>5, <1>6, <2>6, <2>10
    <3>6. r.queue \in Seq((1..MaxEvents) \union {Resync})
      BY <2>1, <2>3, ClientTypes DEF LiveInv
    <3>7. (1..MaxEvents) \in SUBSET Nat /\ a.taken \in SUBSET Nat
      BY <2>10
    <3>8. HasAll(a.taken, Append(r.queue, x), expected \union {e})
      BY <1>5, <2>7, <3>5, <3>6, <3>7, HasAllPut
    <3> QED BY <2>1, <2>2, <2>5, <2>9, <3>2, <3>4, <3>8
  <2>15. CASE ~(Wants(c, e) /\ c \notin Missed(e))
    <3>1. o.queue = r.queue
      BY <2>1, <2>4, <2>15, Served
    <3>2. next = expected
      <4>1. e \notin next
        BY <2>5, <2>8, <2>11, <2>15
      <4>2. \A x : x # e => (x \in b.unsent <=> x \in a.unsent)
        BY <2>5
      <4> QED BY <2>6, <2>8, <2>12, <2>13, <4>1, <4>2
    <3> QED BY <2>1, <2>2, <2>5, <2>7, <2>9, <3>1, <3>2
  <2> QED BY <2>14, <2>15
<1>15. NoSilentGap'
  <2>1. Range(clients') = Range(clients)
    BY <1>2
  <2> QED BY <1>14, <2>1 DEF NoSilentGap
<1>16. InScopeOnly'
  BY <1>2 DEF LiveInv, InScopeOnly
<1> QED BY <1>8, <1>12, <1>13, <1>15, <1>16 DEF LiveInv

LEMMA LiveStep == LiveInv /\ [LiveNext]_liveVars => LiveInv'
<1> SUFFICES ASSUME LiveInv, [LiveNext]_liveVars PROVE LiveInv'
  OBVIOUS
<1>1. ASSUME NEW t \in LiveTopics, NEW size \in Sizes, Produce(t, size) PROVE LiveInv'
  BY <1>1, ProduceKeeps
<1>2. ASSUME NEW t \in LiveTopics, NEW a \in Assets \union {Unbound}, EditModel(t, a) PROVE LiveInv'
  BY <1>2, ModelKeeps DEF EditModel, LiveInv, LiveTypeOK
<1>3. CASE PollLoop
  BY <1>3, PollKeeps
<1>4. CASE Reassign
  BY <1>4, ReassignKeeps
<1>5. CASE FanOut
  BY <1>5, FanOutKeeps
<1>6. CASE Forget
  <2>1. DOMAIN cache' \subseteq LiveTopics
    BY <1>6 DEF Forget
  <2> QED BY <1>6, <2>1, ModelKeeps DEF Forget, LiveInv, LiveTypeOK
<1>7. ASSUME NEW c \in Clients, NEW topics \in SUBSET LiveTopics, Subscribe(c, topics) PROVE LiveInv'
  BY <1>7, SubscribeKeeps
<1>8. ASSUME NEW c \in Clients, Leave(c) PROVE LiveInv'
  BY <1>8, UnregisterKeeps DEF Leave
<1>9. ASSUME NEW c \in Clients, Take(c) PROVE LiveInv'
  BY <1>9, TakeKeeps
<1>10. ASSUME NEW c \in Clients, TakeResync(c) PROVE LiveInv'
  BY <1>10, UnregisterKeeps DEF TakeResync
<1>11. ASSUME NEW c \in Clients, Show(c) PROVE LiveInv'
  BY <1>11, ShowKeeps
<1>12. CASE UNCHANGED liveVars
  BY <1>12, ModelKeeps DEF liveVars, LiveInv, LiveTypeOK
<1> QED BY <1>1, <1>2, <1>3, <1>4, <1>5, <1>6, <1>7, <1>8, <1>9, <1>10, <1>11, <1>12 DEF LiveNext

\* However many clients come and go, whatever their queues and budgets, and wherever an assignment
\* puts the consumer: a client that is not told to resync has every event of its topics that was
\* fanned out since it came, in order, and it sees only what its Access Groups cover (_fan_out,
\* subscribe, allowed_topic).
THEOREM LiveClientsAreServed == LiveSpec => [](LiveTypeOK /\ ClientsAreServed)
<1>1. LiveInit => LiveInv
  BY LiveBegins
<1>2. LiveInv /\ [LiveNext]_liveVars => LiveInv'
  BY LiveStep
<1>3. LiveInv => LiveTypeOK /\ ClientsAreServed
  BY DEF LiveInv, ClientsAreServed
<1> QED BY <1>1, <1>2, <1>3, PTL DEF LiveSpec
=============================================================================
