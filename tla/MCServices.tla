----------------------------- MODULE MCServices -----------------------------
(* The smaller services of the platform, each alone: a behaviour picks one scope *)
(* and takes the steps of that scope's module only.                             *)
EXTENDS TopicBinding, PlantHierarchy, OeeMasterData, SigningKeys, CopilotChat, LiveEvents, Sparkplug,
        TLC

VARIABLES
  scope,
  \* OeeShift
  shift,
  \* GraphStore
  neo4j, persisted, transients,
  \* Publications
  post,
  \* CopilotPlaybook
  lookup

CONSTANTS NoProduct, NoNode

Area(a) == <<"E", "S", a>>
Tree(as) == {<<"E">>, <<"E", "S">>} \union {Area(a) : a \in as} \union {Append(Area(a), "L") : a \in as}
Rename(a, b) == [old |-> Area(a), new |-> Area(b)]

\* Two plants of two areas, and the renames that lead from one to the other.
TwoTrees == {Tree({"A", "C"}), Tree({"B", "D"})}
SomeRenames == {<<>>, <<Rename("A", "B"), Rename("C", "D")>>, <<Rename("B", "A")>>, <<Rename("A", "A")>>}

\* A topic below a machine and one below its line.
BoundTopics == {<<"L", "M", "t">>, <<"L", "u">>}
TwoBranches == {<<"L">>, <<"L", "M">>}

Report(name, alias, timestamp) == [name |-> name, alias |-> alias, timestamp |-> timestamp]
NodeAndDevices == {<<"n", "a">>, <<"n", "b">>, <<"n">>}
SomeNames == {<<"T", "x">>, <<"T", "y">>, <<"bare">>}
SomeBirths == {<<Report(<<"T", "x">>, 0, 1), Report(<<"T", "y">>, 1, 1)>>,
               <<Report(<<"T", "y">>, 0, 1)>>, <<Report(<<"T", "x">>, NoAlias, 1)>>}
SomeDatas == {<<Report(NoName, 0, 2), Report(NoName, 1, 1)>>, <<Report(NoName, 0, 1)>>,
              <<Report(<<"T", "y">>, NoAlias, 1), Report(<<"bare">>, NoAlias, 1)>>}
SomeReadings ==
  [type : {"Int8"}, value : -2..1] \union [type : {"Int16"}, value : -8..7]
  \union [type : {"UInt8"}, value : 0..3]
  \union [type : {"Int16Array"}, value : UNION {[1..n -> {-8, -1, 0, 5}] : n \in 0..3}]
  \union [type : {"BooleanArray"}, value : UNION {[1..n -> BOOLEAN] : n \in 0..5}]
  \union [type : {"StringArray"}, value : UNION {[1..n -> {<<>>, <<0>>, <<3, 0>>}] : n \in 0..3}]

Groups == [ann |-> {"a"}, bob |-> {"b"}]

Partial(times, values) == UNION {[T -> values] : T \in SUBSET times}
Bars == {<<0, 0>>} \union {<<a, b>> \in (0..3) \X (0..3) : a < b}
Lists == {<<>>} \union {<<i>> : i \in Bars} \union {<<i, j>> : i, j \in Bars}
Slot(day, start, duration) == [day |-> day, start |-> start, duration |-> duration]
Closed(path, from, to) == [path |-> path, interval |-> <<from, to>>]
Algebra == [ask : {"algebra"}, left : Lists, right : Lists]
Times == [ask : {"shift"}, window : {<<2, 6>>}, state : Partial({0, 1, 3, 5}, {"RUN", "STOP", "SETUP"}),
          product : {<<>>, 1 :> "p" @@ 4 :> "q"}, good : {<<>>}, reject : {<<>>},
          exceptions : {{}, {Closed(<<>>, 0, 4)}, {Closed(<<"S">>, 3, 5), Closed(<<"S", "L">>, 4, 6)},
                        {Closed(<<"S", "L", "M">>, 2, 6)}},
          manual : {<<>>, 2 :> "SETUP", 3 :> "STOP", 2 :> "STOP" @@ 3 :> "SETUP"}]
Counts == [ask : {"shift"}, window : {<<2, 6>>}, state : {1 :> "RUN"},
           product : Partial({1, 3, 4}, {"p", "q"}), good : Partial({1, 3, 4, 6}, {0, 2}),
           reject : {2 :> 0 @@ 5 :> 1}, exceptions : {{}}, manual : {<<>>}]
Calendars == [ask : {"calendar"}, zone : [at : 0..6, before : {0, 2}, after : {0, 2}],
              slots : {{Slot(d, 0, 3) : d \in 0..1} \union {Slot(d, 3, 3) : d \in 0..1},
                       {Slot(0, 1, 4), Slot(0, 5, 2), Slot(1, 1, 4)}, {Slot(1, 4, 6)}},
              from : {-6, -1, 0}, mid : {0, 3, 6, 7}, to : {8, 12}]

O == INSTANCE OeeShift WITH
       Questions <- Algebra \union Times \union Counts \union Calendars,
       Producing <- {"RUN"}, UnitRules <- "SETUP" :> "SETUP",
       DefaultRules <- "STOP" :> "STOP" @@ "SETUP" :> "STOP", PlannedCodes <- {"SETUP"},
       CycleTimes <- "p" :> 1, DayTicks <- 6, WeekDays <- 2,
       Unit <- <<"S", "L">>, Lookback <- 1

NoRows == [products |-> <<>>, reasons |-> <<>>, patterns |-> <<>>, exceptions |-> <<>>,
           units |-> <<>>, cycles |-> <<>>, rules |-> <<>>]
Machine(pattern) == [pattern |-> pattern, producing |-> {"RUN"}]
FullPlan == [present |-> {"products", "reasons", "shifts", "units"}, products |-> "p" :> <<>>,
             patterns |-> "day" :> [slots |-> {1}], units |-> "a" :> Machine("day"),
             cycles |-> <<"a", "p">> :> [seconds |-> 1], rules |-> <<"a", "STOP">> :> [code |-> "BREAK"]] @@ NoRows
NextPlan == [FullPlan EXCEPT !.reasons = "JAM" :> [planned |-> FALSE],
               !.patterns = "day" :> [slots |-> {2}], !.units = "b" :> Machine("day"),
               !.cycles = <<"b", Everything>> :> [seconds |-> 2],
               !.exceptions = [asset |-> "a", at |-> 1] :> [note |-> ""],
               !.rules = <<Everything, "STOP">> :> [code |-> "JAM"]]
ShiftPlan == [present |-> {"shifts"}, patterns |-> "day" :> [slots |-> {3}]] @@ NoRows
WrongPlan == [FullPlan EXCEPT !.units = "z" :> Machine("day")]
Stored(data, active) == [data |-> data, active |-> active]
Fresh == [NoRows EXCEPT !.reasons = "BREAK" :> Stored([planned |-> TRUE], TRUE)]
Used == [Fresh EXCEPT !.products = "p" :> Stored(<<>>, FALSE),
           !.patterns = "day" :> Stored([slots |-> {2}], TRUE),
           !.units = "a" :> Stored(Machine("day"), FALSE) @@ "b" :> Stored(Machine("day"), TRUE),
           !.exceptions = [asset |-> "b", at |-> 1] :> Stored([note |-> ""], TRUE),
           !.rules = <<"b", "STOP">> :> Stored([code |-> "BREAK"], TRUE)]

SomePlans == {FullPlan, NextPlan, ShiftPlan, WrongPlan}
SomeTables == {Fresh, Used}

Flat(f) == [plain |-> f, dicts |-> <<>>, lists |-> <<>>]
Dict(n, v) == Flat("name" :> n @@ "v" :> v)
TwoDicts == [Flat("v" :> 1) EXCEPT !.dicts = "a" :> Dict("x", 1) @@ "b" :> Dict("x", 2)]
OneDict == [Flat("w" :> 2) EXCEPT !.dicts = "a" :> Flat("name" :> "x" @@ "u" :> 3)]
TwoElements == [Flat(<<>>) EXCEPT !.lists = "metrics" :> <<Dict("x", 1), Dict("y", 2)>>]
OneElement == [Flat(<<>>) EXCEPT !.lists = "metrics" :> <<Dict("y", 3)>>]

G == INSTANCE GraphStore WITH
       GraphTopics <- {<<"E">>, <<"E", "S">>, <<"E", "S", "E">>, <<"F", "E", "S">>, <<"spB", "g">>},
       Payloads <- {TwoDicts, OneDict, TwoElements, OneElement, Flat(<<>>)},
       UnsTypes <- <<"ENTERPRISE", "FACILITY", "AREA">>,
       DefaultTypes <- <<"ENTERPRISE", "FACILITY", "AREA">>,
       SpbTypes <- <<"spBv1_0", "GROUP", "AREA">>, Attribute <- <<"NESTED">>, SpbRoot <- "spB",
       MaxPersisted <- 3, MaxTransient <- 1

Route(filter, wrapped, kind, site, archived) ==
  [filter |-> filter, source |-> "src", application |-> "mes", site |-> site, wrapped |-> wrapped,
   schemas |-> {"s1", "s2"}, default |-> "s1", kind |-> kind, archived |-> archived]
Plain(form, value, ts, size) == [form |-> form, value |-> value, timestamp |-> ts, size |-> size]
At(n) == [is |-> "number", value |-> n]
NoTime == [is |-> "absent"]
Jsons == {Plain("json", 1, NoTime, 3), Plain("json", 2, At(50), 3), Plain("json", 2, At(500), 3),
          Plain("json", 1, [is |-> "text"], 3), Plain("json", 1, At(5000), 3), Plain("json", 1, At(1500), 3)}
Wrapped(application, site, schema, boot, occurred, body) ==
  [form |-> "wrapped", application |-> application, site |-> site, schema |-> schema, boot |-> boot,
   occurred |-> occurred, body |-> body, size |-> 3]
Wrappeds == {Wrapped(a, s, "s1", b, o, p) : a \in {"mes", "erp"}, s \in {"A"}, b \in {<<>>, <<"boot", 1>>},
               o \in {NoTime, At(7)}, p \in {Plain("json", 1, NoTime, 3), Plain("bytes", 2, NoTime, 3)}}
            \union {Wrapped("mes", "B", "s1", <<>>, NoTime, Plain("json", 1, NoTime, 3)),
                    Wrapped("mes", "A", "s3", <<>>, NoTime, Plain("json", 1, NoTime, 3))}
Blobs == {Plain("bytes", 1, NoTime, n) : n \in {3, 9, 13}}
\* A publication is an object of JSON too, for a topic that has no route.
Wires == Jsons \union Blobs \union {w @@ [value |-> 3, timestamp |-> NoTime] : w \in Wrappeds}
MqttTopics == {<<"mes", "a">>, <<"mes", "b", "c">>, <<"x", "a">>, <<"spB", "g", "NDATA", "n">>, <<"spB", "g", "DDATA", "n", "d">>,
           <<"spB", "g", "NDATA">>, <<"spB", "h", "NBIRTH", "n">>, <<"spB", "STATE", "host">>}
Tables == {{}, {Route(<<"mes", "#">>, TRUE, "business_event", "A", TRUE)},
           {Route(<<"mes", "+">>, TRUE, "telemetry", "A", TRUE), Route(<<"mes", "b", "c">>, FALSE, "state_snapshot", "B", TRUE),
            Route(<<"spB", "g", "#">>, FALSE, "sparkplug_raw", "A", TRUE)},
           {Route(<<"mes", "a">>, TRUE, "telemetry", "A", FALSE), Route(<<"mes", "+">>, TRUE, "telemetry", "B", TRUE)}}
Delivery(t, w, n) == [topic |-> t, wire |-> w, at |-> n, receipt |-> n]
One == Plain("json", 1, NoTime, 3)
Posts ==
  [routes : Tables, first : {Delivery(t, w, 20) : t \in MqttTopics, w \in Wires}, second : {Delivery(<<"x", "a">>, One, 21)}]
  \union UNION {[routes : Tables, first : {Delivery(t, w, 20)}, second : {Delivery(t, w, 21)}] : t \in MqttTopics, w \in Wires}
  \union [routes : Tables, first : {Delivery(t, One, 20) : t \in MqttTopics}, second : {Delivery(t, One, 21) : t \in MqttTopics}]
  \union [routes : Tables, first : {Delivery(<<"mes", "a">>, w, 20) : w \in Wires}, second : {Delivery(t, w, 21) : t \in {<<"mes", "a">>, <<"mes", "b">>}, w \in Wires}]
P == INSTANCE Publications WITH
       Posts <- Posts, AllTopics <- MqttTopics \union {<<"mes">>},
       Owners <- {[prefix |-> <<>>, site |-> "A", source |-> "any"],
                  [prefix |-> <<"spB", "h">>, site |-> "B", source |-> "hall"]},
       LegacyRoutes <- <<>>, MaxRejection <- 12, Overhead <- 1,
       Threshold <- 100, Factor <- 10, Horizon <- 250

Askers == [t1 |-> "owner", t2 |-> "owner", t3 |-> "other"]

Sites == {<<"E">>, <<"E", "A">>, <<"E", "A", "m">>, <<"E", "B">>}
Found == {[path |-> <<"E", "A", "m">>, size |-> 2], [path |-> <<"E", "B">>, size |-> 1],
          [path |-> <<"E", "A">>, size |-> 1]}
Lookups ==
  {[kind |-> k, focus |-> f, unrestricted |-> s[1], roots |-> s[2], rows |-> r, broken |-> b] :
     k \in {"alarms_on_focus", "metric_vs_window", "publishers_on_path", "performance_rca", "plant_overview", "other"},
     f \in {<<>>} \union Sites,
     s \in {<<TRUE, {}>>, <<FALSE, {}>>, <<FALSE, {<<"E", "A">>}>>, <<FALSE, {<<"E", "A">>, <<"E", "B">>}>>},
     r \in UNION {[1..n -> Found] : n \in 0..3}, b \in {{}, {"window"}}}

W == INSTANCE CopilotPlaybook WITH
       AdminRoots <- {<<"E">>}, RowCap <- 2, Budget <- 7, Label <- 1, Note <- 2

graphs == <<neo4j, persisted, transients>>
questions == <<shift, post, lookup>>

Init ==
  /\ scope \in {"hierarchy", "binding", "codec", "sparkplug", "live", "signing", "shift", "master", "graph",
              "publication", "copilot", "playbook"}
  /\ HierarchyInit /\ (scope # "hierarchy" => Area("A") \in tree)
  /\ BindingInit /\ (scope # "binding" => asset = {})
  /\ SparkplugInit /\ (scope # "codec" => reading.type = "Int16" /\ reading.value = -8)
  /\ LiveInit /\ (scope # "live" => modelled["t"] = "a" /\ connectivity["t"] = "a")
  /\ SigningInit /\ (scope # "signing" => realm = {} /\ \A r \in 1..3 : asks[r].kid = "k1")
  /\ MasterInit /\ (scope # "master" => master = Fresh /\ plan = FullPlan)
  /\ G!Init
  /\ IF scope = "shift" THEN O!Init ELSE shift = [ask |-> "calendar"]
  /\ IF scope = "publication" THEN P!Init ELSE post = [routes |-> {}]
  /\ ChatInit /\ (scope # "copilot" => home = "memory")
  /\ IF scope = "playbook" THEN W!Init ELSE lookup = [kind |-> "other"]

Next ==
  \/ scope = "hierarchy" /\ HierarchyNext /\ UNCHANGED <<scope, bindingVars, spbVars, liveVars, signingVars, masterVars, graphs, chatVars, questions>>
  \/ scope = "binding" /\ BindingNext /\ UNCHANGED <<scope, hierarchyVars, spbVars, liveVars, signingVars, masterVars, graphs, chatVars, questions>>
  \/ scope = "sparkplug" /\ SparkplugNext /\ UNCHANGED <<scope, hierarchyVars, bindingVars, liveVars, signingVars, masterVars, graphs, chatVars, questions>>
  \/ scope = "live" /\ LiveNext /\ UNCHANGED <<scope, hierarchyVars, bindingVars, spbVars, signingVars, masterVars, graphs, chatVars, questions>>
  \/ scope = "signing" /\ SigningNext /\ UNCHANGED <<scope, hierarchyVars, bindingVars, spbVars, liveVars, masterVars, graphs, chatVars, questions>>
  \/ scope = "master" /\ MasterNext /\ UNCHANGED <<scope, hierarchyVars, bindingVars, spbVars, liveVars, signingVars, graphs, chatVars, questions>>
  \/ scope = "graph" /\ G!Next /\ UNCHANGED <<scope, hierarchyVars, bindingVars, spbVars, liveVars, signingVars, masterVars, chatVars, questions>>
  \/ scope = "copilot" /\ ChatNext /\ UNCHANGED <<scope, hierarchyVars, bindingVars, spbVars, liveVars, signingVars, masterVars, graphs, questions>>

Spec == Init /\ [][Next]_<<scope, hierarchyVars, bindingVars, spbVars, liveVars, signingVars, masterVars, graphs, chatVars, questions>>

\* The type invariants of the services (what a scope leaves alone keeps its initial value).
TypeOK ==
  CASE scope = "hierarchy" -> HierarchyTypeOK
    [] scope = "binding" -> BindingTypeOK
    [] scope \in {"codec", "sparkplug"} -> SparkplugTypeOK
    [] scope = "live" -> LiveTypeOK
    [] scope = "signing" -> SigningTypeOK
    [] scope = "shift" -> O!TypeOK
    [] scope = "master" -> MasterTypeOK
    [] scope = "graph" -> G!TypeOK
    [] scope = "publication" -> P!TypeOK
    [] scope = "copilot" -> ChatTypeOK
    [] scope = "playbook" -> W!TypeOK

\* What is computed without a state of its own is what its definition says. A reading comes
\* back from the value field of its metric (SPBMetricDataTypes). The numbers of
\* a shift: intervals are sets of instants, each instant counts once, for one reason, in one
\* shift, and the products' counts sum to the shift's (states.py, compute, shift_windows). A
\* publication: no topic has two routes; redelivery is told from news by identity and content;
\* what is archived is what was published, filed under its route, keyed by its node
\* (validate_routes, immutable_content_hash, build_envelope, event_key, decode_event). A
\* lookup: the model is told what lies in the focus and the caller's groups (run_playbook).
ComputedRight ==
  /\ scope = "codec" => ReadingsComeBack
  /\ scope = "shift" => O!AlgebraIsSets /\ O!TimeAddsUp /\ O!CountsAddUp /\ O!CalendarOnce
  /\ scope = "publication" => /\ P!RoutesUnambiguous /\ P!TellsApart
                              /\ P!FiledByRoute /\ P!PartitionOfNode /\ P!ComesBack
  /\ scope = "playbook" => W!ToldInFocus /\ W!NothingIsNothing

\* The graph queries answer with what was published, where it was published (save_node,
\* get_uns_nodes, get_uns_nodes_by_property, get_spb_nodes_by_metric).
GraphAnswers == scope = "graph" =>
  G!ReadsNewest /\ G!PropertyFindsTopics /\ G!MetricFindsMessages

\* "Invalid payloads are durably rejected" (06_uns_kafka/README.md).
EveryMessageIsSettled == scope = "publication" => P!EveryMessageIsSettled
=============================================================================
