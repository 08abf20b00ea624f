------------------------------- MODULE MCEdge -------------------------------
(* The OPC UA side: the Connectivity catalog with its broker and its connector, *)
(* and the store-and-forward path of the connector.  They share no state; a      *)
(* behaviour runs one of them (scope).  ConnectorFollows and NewestArrives assume *)
(* the fairness of their module.                                              *)
EXTENDS EdgeSpool, ConnectivityCatalog, TLC

VARIABLE scope

path == vars

-----------------------------------------------------------------------------
(* One OPC UA server with two nodes and one PLC with one node.                *)
OneOfEach == {"ua", "plc"}
Nodes == {"t1", "t2", "t3"}
OnServers == "t1" :> "ua" @@ "t2" :> "ua" @@ "t3" :> "plc"
BrowsePaths == "t1" :> "a" @@ "t2" :> "b" @@ "t3" :> "c"
Fine(s) == [status |-> "untested", error |-> "", at |-> 2]
Row(topic, subscribed) == [topic |-> topic, subscribed |-> subscribed, at |-> 1]

\* One node an engineer has renamed, one that was unsubscribed, a PLC.
Running == [servers |-> "ua" :> Fine("ua") @@ "plc" :> Fine("plc"),
            tags |-> "t1" :> Row("x", TRUE) @@ "t2" :> Row("b", FALSE) @@ "t3" :> Row("c", TRUE)]
OnlyServer == [servers |-> "ua" :> Fine("ua"), tags |-> <<>>]
TwoCatalogs == {Running, OnlyServer}

SaveTag(t, topic) == [op |-> "saveTag", tag |-> t, topic |-> topic, subscribed |-> TRUE]
AllRequests ==
  {[op |-> "saveServer", server |-> "ua"], [op |-> "deleteServer", server |-> "plc"],
   SaveTag("t2", "y"), SaveTag("t3", "y"),
   [op |-> "updateTag", tag |-> "t1", topic |-> "y"],
   [op |-> "unsubscribe", tag |-> "t1"],
   [op |-> "discover", server |-> "ua", found |-> {"t1"}],
   [op |-> "probe", server |-> "ua", ok |-> TRUE],
   [op |-> "probeEndpoint", server |-> "ua", ok |-> TRUE]}
YamlBindings == {<<"t9", "z">>}

OnlyUa == {"ua"}

-----------------------------------------------------------------------------
(* Two tags of one server: one changes, the other keeps its first value, and the *)
(* server refuses its deadband.                                               *)
PathTags == {"a", "b"}
PathServerOf == [t \in PathTags |-> "plc"]
PathAnswer == [t \in PathTags |-> IF t = "b" THEN "deadband" ELSE "ok"]
PathChanges == [t \in PathTags |-> IF t = "b" THEN 1 ELSE 2]

-----------------------------------------------------------------------------
AllInit == scope \in {"catalog", "path"} /\ CatalogInit /\ Init
           /\ (scope = "path" => servers = Running.servers)
AllNext ==
  /\ UNCHANGED scope
  /\ \/ scope = "catalog" /\ CatalogNext /\ UNCHANGED path
     \/ scope = "path" /\ Next /\ UNCHANGED catalogVars
AllSpec == AllInit /\ [][AllNext]_<<scope, catalogVars, path>>

-----------------------------------------------------------------------------
\* The types of both.
TypesOK == CatalogTypeOK /\ TypeOK

\* With fair tasks the broker in the end retains the newest value of every tag.
NewestCatchesUp ==
  WF_path(scope = "path" /\ Work) => (scope = "path" => NewestArrives)

\* With served requests and a polling connector, it ends up with the catalog.
ConnectorCatchesUp ==
  WF_catalogVars(scope = "catalog" /\ \E c \in Consoles : Step(c))
      /\ WF_catalogVars(scope = "catalog" /\ Supervise)
    => (scope = "catalog" => ConnectorFollows)
=============================================================================
