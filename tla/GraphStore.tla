------------------------------ MODULE GraphStore ------------------------------
(* The graph of current values: the MQTT listener that merges every message into *)
(* Neo4j (03_uns_graphdb: uns_mqtt_graphdb.py, graphdb_handler.py) and the GraphQL *)
(* queries that put the payloads together again (07_uns_graphql: queries/graph.py). *)
(* One listener writes, one transaction per message.                               *)
EXTENDS Integers, Sequences, FiniteSets, FiniteSetsExt, SequencesExt, Functions

CONSTANTS
  GraphTopics,     \* topics, sequences of names
  Payloads,        \* [plain, dicts, lists]: see separate_plain_composite_attributes
  UnsTypes, SpbTypes, DefaultTypes, \* node types by depth: two settings and a default argument
  Attribute,       \* nested_attribute_node_type
  SpbRoot,         \* the first name of a Sparkplug topic
  NoNode,
  MaxPersisted, MaxTransient

VARIABLES
  neo4j,      \* [nodes, edges]
  persisted,  \* the messages that were persisted, oldest first
  transients  \* attempts that failed with a TransientError

vars == <<neo4j, persisted, transients>>

-----------------------------------------------------------------------------
(* save_node: the merge of one node under its parent. A relation is <<>> between   *)
(* nodes of a topic, <<attribute, index>> above an attribute node (a dict's index   *)
(* is -1).                                                                          *)

\* The relation above an attribute node is not looked at.
FaultIsChild(g, parent, relation, n) == \E e \in g.edges : e.from = parent /\ e.to = n
\* OPTIONAL MATCH (parent)-[r:PARENT_OF {...}]->(child); no map at all for a topic's node.
IsChild(g, parent, relation, n) ==
  \E e \in g.edges : e.from = parent /\ e.to = n /\ (relation = <<>> \/ e.relation = relation)

Matches(g, parent, relation, label, name) ==
  {n \in DOMAIN g.nodes : /\ g.nodes[n].label = label /\ g.nodes[n].name = name
                          /\ parent # NoNode => IsChild(g, parent, relation, n)}

\* What save_node leaves: the graph and the node it answers with.
SaveNode(g, parent, relation, label, name, plain) ==
  LET found == Matches(g, parent, relation, label, name)
      new == Cardinality(DOMAIN g.nodes)
  IN IF found = {}
     THEN [node |-> new,
           graph |-> [nodes |-> (new :> [label |-> label, name |-> name, props |-> plain]) @@ g.nodes,
                      edges |-> IF parent = NoNode THEN g.edges
                                ELSE g.edges \union {[from |-> parent, to |-> new, relation |-> relation]}]]
     ELSE [node |-> Min(found),
           graph |-> [g EXCEPT !.nodes = [n \in DOMAIN @ |->
                        IF n \in found THEN [@[n] EXCEPT !.props = plain @@ @] ELSE @[n]]]]

IsEmptyPayload(p) == DOMAIN p.plain = {} /\ DOMAIN p.dicts = {} /\ DOMAIN p.lists = {}
\* The name an element gives itself, or the one of its place.
NameOf(p, otherwise) == IF "name" \in DOMAIN p.plain THEN <<p.plain["name"]>> ELSE otherwise

\* The parts of a payload: relation, name and payload of each dict and list element.
Parts(p) ==
  {[relation |-> <<k, -1>>, name |-> NameOf(p.dicts[k], <<k>>), payload |-> p.dicts[k]] : k \in DOMAIN p.dicts}
  \union UNION {{[relation |-> <<k, i>>, name |-> NameOf(p.lists[k][i + 1], <<k, i>>),
                  payload |-> p.lists[k][i + 1]] : i \in 0..(Len(p.lists[k]) - 1)} : k \in DOMAIN p.lists}

\* save_attribute_nodes: the node, unless there is nothing to save, then its parts.
RECURSIVE SaveAttributes(_, _, _, _, _, _)
SaveAttributes(g, parent, relation, label, name, p) ==
  LET saved == IF IsEmptyPayload(p) THEN [node |-> parent, graph |-> g]
               ELSE SaveNode(g, parent, relation, label, name, p.plain)
  IN FoldSet(LAMBDA part, h :
               SaveAttributes(h, saved.node, part.relation, Attribute, part.name, part.payload),
             saved.graph, Parts(p))

\* get_topic_node_type
TypeAt(types, depth) == IF depth <= Len(types) THEN <<types[depth]>>
                        ELSE <<types[Len(types)], depth - Len(types)>>

\* save_all_nodes. A name is the leaf's when it is equal to the last one, wherever it is.
SaveAll(g, topic, p, types) ==
  LET Level(state, depth) ==
        IF topic[depth] # Last(topic)
        THEN SaveNode(state.graph, state.node, <<>>, TypeAt(types, depth), <<topic[depth]>>, <<>>)
        ELSE [state EXCEPT !.graph = SaveAttributes(@, state.node, <<>>, TypeAt(types, depth),
                                                    <<topic[depth]>>, p)]
  IN FoldLeft(Level, [node |-> NoNode, graph |-> g], [d \in 1..Len(topic) |-> d]).graph

-----------------------------------------------------------------------------
IsSparkplug(topic) == topic[1] = SpbRoot
ConfiguredTypes(topic) == IF IsSparkplug(topic) THEN SpbTypes ELSE UnsTypes

Init == neo4j = [nodes |-> <<>>, edges |-> {}] /\ persisted = <<>> /\ transients = 0

\* on_message and persist_mqtt_msg; a retry does not hand the node types on.
Persist(topic, p) ==
  /\ Len(persisted) < MaxPersisted
  /\ \E retried \in BOOLEAN :
       /\ retried => transients < MaxTransient
       /\ transients' = transients + IF retried THEN 1 ELSE 0
       /\ neo4j' = SaveAll(neo4j, topic, p, IF retried THEN DefaultTypes ELSE ConfiguredTypes(topic))
  /\ persisted' = Append(persisted, [topic |-> topic, payload |-> p])

Next == \E topic \in GraphTopics, p \in Payloads : Persist(topic, p)

Spec == Init /\ [][Next]_vars

-----------------------------------------------------------------------------
(* The queries. *)

Nodes == DOMAIN neo4j.nodes
ParentsOf(n) == {e.from : e \in {e \in neo4j.edges : e.to = n}}
Labelled(types) == {n \in Nodes : neo4j.nodes[n].label \in {TypeAt(types, d) : d \in 1..Len(types)}}

\* The names on the way to the root.
RECURSIVE FullName(_)
FullName(n) == (IF ParentsOf(n) = {} THEN <<>> ELSE FullName(Min(ParentsOf(n)))) \o neo4j.nodes[n].name

\* _SEARCH_BY_TOPIC_QUERY for a topic without wildcards: the first name anywhere in the graph.
RECURSIVE FindTopic(_)
FindTopic(topic) ==
  {n \in Labelled(UnsTypes) :
     /\ neo4j.nodes[n].name = <<Last(topic)>>
     /\ Len(topic) > 1 => ParentsOf(n) \intersect FindTopic(Front(topic)) # {}}

\* _SEARCH_BY_PROPERTY_QUERY without a topic filter.
Below(n) == {e \in neo4j.edges : e.from = n /\ neo4j.nodes[e.to].label = Attribute}
FindByProperty(key) ==
  {n \in Labelled(UnsTypes) : key \in DOMAIN neo4j.nodes[n].props \/ \E e \in Below(n) : e.relation[1] = key}

\* _SEARCH_SPB_BY_METRIC_QUERY
FindByMetric(metric) ==
  {n \in Labelled(SpbTypes) :
     \E e \in Below(n) : e.relation[1] = "metrics" /\ neo4j.nodes[e.to].name = <<metric>>}

\* get_nested_properties: for each place of the payload the nodes that may end up there, the
\* last relation in the order of the answer wins. A node two levels down is an element of a
\* list of relations, which the code does not read.
Places(n) == {e.relation : e \in Below(n)}
AtPlace(n, place) == {neo4j.nodes[e.to].props : e \in {e \in Below(n) : e.relation = place}}

-----------------------------------------------------------------------------
TypeOK ==
  /\ \A e \in neo4j.edges : e.from \in Nodes /\ e.to \in Nodes
  /\ Nodes = 0..(Cardinality(Nodes) - 1)
  /\ persisted \in Seq([topic : GraphTopics, payload : Payloads])
  /\ transients \in 0..MaxTransient

\* Messages whose graph the properties below speak of: no name of a topic repeats its last
\* one, and no element of a payload changes its name or its place.
RepeatsLeaf(topic) == \E d \in 1..(Len(topic) - 1) : topic[d] = Last(topic)
Steady ==
  /\ \A i \in DOMAIN persisted : ~RepeatsLeaf(persisted[i].topic)
  /\ \A i, j \in DOMAIN persisted : persisted[i].topic = persisted[j].topic =>
       \A a \in Parts(persisted[i].payload), b \in Parts(persisted[j].payload) :
         a.relation = b.relation => a.name = b.name

\* The newest value of each attribute, of a topic or of one place of its payloads.
Newest(ps) == FoldLeft(LAMBDA known, p : p.plain @@ known, <<>>, ps)
Sent(topic) == LET mine == SelectSeq(persisted, LAMBDA m : m.topic = topic)
               IN [i \in DOMAIN mine |-> mine[i].payload]
At(ps, place) ==
  LET Holds(p) == \E part \in Parts(p) : part.relation = place
      some == SelectSeq(ps, Holds)
  IN [i \in DOMAIN some |-> (CHOOSE part \in Parts(some[i]) : part.relation = place).payload]

\* A query for a topic finds one node of that topic, and it holds the newest value of every
\* attribute and of every nested one, whatever came on other topics (get_uns_nodes).
ReadsNewest == Steady =>
  \A i \in DOMAIN persisted :
    LET topic == persisted[i].topic
        mine == {n \in FindTopic(topic) : FullName(n) = topic}
        sent == SelectSeq(Sent(topic), LAMBDA p : ~IsEmptyPayload(p))
        places == UNION {{part.relation : part \in Parts(p)} : p \in ToSet(sent)}
    IN ~IsSparkplug(topic) /\ sent # <<>> =>
         /\ Cardinality(mine) = 1
         /\ \A n \in mine :
              /\ neo4j.nodes[n].props = Newest(sent)
              /\ Places(n) = places
              /\ \A place \in places : AtPlace(n, place) = {Newest(At(sent, place))}

\* The topics that a query by property answers with are those that were sent that attribute
\* (get_uns_nodes_by_property).
PropertyFindsTopics == Steady /\ transients = 0 =>
  \A key \in UNION {DOMAIN m.payload.plain \union DOMAIN m.payload.dicts \union DOMAIN m.payload.lists
                      : m \in ToSet(persisted)} :
    {FullName(n) : n \in FindByProperty(key)}
      = {m.topic : m \in {m \in ToSet(persisted) :
           /\ ~IsSparkplug(m.topic)
           /\ key \in DOMAIN m.payload.plain \union DOMAIN m.payload.dicts
                       \union {k \in DOMAIN m.payload.lists : m.payload.lists[k] # <<>>}}}

\* A query by metric finds every Sparkplug message with that metric whose first attempt
\* succeeded: a retry stores it under the labels of the UNS tree (get_spb_nodes_by_metric).
MetricFindsMessages == Steady /\ transients = 0 =>
  \A m \in {m \in ToSet(persisted) : IsSparkplug(m.topic) /\ "metrics" \in DOMAIN m.payload.lists} :
    \A element \in ToSet(m.payload.lists["metrics"]) :
      \E n \in FindByMetric(element.plain["name"]) : FullName(n) = m.topic
=============================================================================
