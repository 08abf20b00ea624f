------------------------------- MODULE Sparkplug -------------------------------
(* The Sparkplug B mapper: devices publish metrics under names and aliases        *)
(* (SpBMessageGenerator), the mapper keeps the aliases of each device and puts    *)
(* the metrics of a message on the topics of the UNS, one retained message a topic *)
(* (UNSSparkPlugBMapper, Spb2UNSPublisher).                                       *)
EXTENDS SparkplugCodec

CONSTANTS
  Devices,      \* pairs <<edge node, device>>; of <<edge node>> alone: the node itself
  Names,        \* metric names: <<topic, tag>>, or <<tag>> when no "/" is in the name
  NoName, NoAlias, None,
  Births, Datas, \* the metric lists a device composes: <<[name, alias, timestamp], ...>>
  Readings,     \* the typed values a device may report
  MaxSent, MaxEnds, MaxLost

VARIABLES
  alias_name_map,               \* device process -> alias -> name
  past,                         \* device -> the alias maps of its former processes
  said,                         \* device -> the aliases its process has sent the name of
  wire,                         \* device -> its messages on their way to the mapper
  parsing,                      \* the message the mapper works on, and what it has of it
  node_device_metric_alias_map, \* cache key -> alias -> name
  uns,                          \* topic -> the retained message
  misled,                       \* devices whose aliases the mapper cannot know
  reading,                      \* the value the devices report
  sent, ends, lost

deviceVars == <<alias_name_map, past, said>>
mapperVars == <<parsing, node_device_metric_alias_map, uns, misled>>
spbVars == <<deviceVars, wire, mapperVars, reading, sent, ends, lost>>

Named == {n \in Names : Len(n) = 2}
Topics == {n[1] : n \in Named}
TagNames == {n[2] : n \in Named}
MetricsOf(lists) == UNION {{list[i] : i \in DOMAIN list} : list \in lists}
Composed == MetricsOf(Births \union Datas)
Aliases == {m.alias : m \in Composed} \ {NoAlias}

Empty == [a \in {} |-> NoName]
NoMessage == [source |-> <<>>, timestamp |-> 0, tags |-> Empty]
NoMessages == [t \in Topics |-> NoMessage]
NoWork == [device |-> <<>>, life |-> 0, metrics |-> <<>>, next |-> 1, out |-> NoMessages, guess |-> FALSE]

Put(f, x, value) == [y \in DOMAIN f \union {x} |-> IF y = x THEN value ELSE f[y]]

FaultCacheKey(d) == <<d[1]>>

CacheKey(d) == d

SparkplugInit ==
  /\ alias_name_map = [d \in Devices |-> Empty]
  /\ past = [d \in Devices |-> <<>>] /\ said = [d \in Devices |-> {}]
  /\ wire = [d \in Devices |-> <<>>]
  /\ parsing = NoWork
  /\ node_device_metric_alias_map = [key \in {CacheKey(d) : d \in Devices} |-> Empty]
  /\ uns = NoMessages
  /\ misled = {}
  /\ reading \in Readings
  /\ sent = 0 /\ ends = 0 /\ lost = 0

---- \* The device side

\* The names of an alias when the i-th metric of a list is added: none or one.
Naming(m, a) == m.name # NoName /\ m.alias = a
Noted(d, list, i, a) ==
  {alias_name_map[d][b] : b \in {a} \intersect DOMAIN alias_name_map[d]}
  \union {list[j].name : j \in {k \in 1..(i - 1) : Naming(list[k], a) /\ a # NoAlias}}

\* _get_metric_wrapper: an alias keeps its name for the life of the process.
Raises(d, list, i) ==
  LET m == list[i]  names == Noted(d, list, i, m.alias)
  IN IF m.name = NoName THEN names = {} ELSE ~(names \subseteq {m.name})

The(names) == CHOOSE name \in names : TRUE
\* What was noted before it raises stays.
NotedBy(d, list, n) ==
  [a \in {b \in Aliases : Noted(d, list, n + 1, b) # {}} |-> The(Noted(d, list, n + 1, a))]
\* means, aliased and told are what the mapper cannot see.
Metric(d, list, i) ==
  LET m == list[i]
  IN [name |-> m.name, alias |-> IF m.alias = NoAlias THEN 0 ELSE m.alias, timestamp |-> m.timestamp,
      datatype |-> reading.type, field |-> SetValue(reading),
      means |-> IF m.name = NoName THEN The(Noted(d, list, i, m.alias)) ELSE m.name,
      aliased |-> m.alias # NoAlias,
      told |-> m.name # NoName \/ m.alias \in said[d] \/ \E j \in 1..(i - 1) : Naming(list[j], m.alias)]
AliasesNamed(list, n) == {a \in Aliases : \E j \in 1..n : Naming(list[j], a)}

Life(d) == Len(past[d]) + 1

\* The metrics of a list are added one by one, up to the first one that raises.
Send(d, type, list) ==
  /\ sent < MaxSent /\ sent' = sent + 1
  /\ \E n \in 0..Len(list) :
       /\ \A i \in 1..n : ~Raises(d, list, i)
       /\ n < Len(list) => Raises(d, list, n + 1)
       /\ alias_name_map' = [alias_name_map EXCEPT ![d] = NotedBy(d, list, n)]
       /\ IF n = Len(list)
          THEN /\ wire' = [wire EXCEPT ![d] = Append(@, [type |-> type, life |-> Life(d),
                             metrics |-> [i \in 1..n |-> Metric(d, list, i)]])]
               /\ said' = [said EXCEPT ![d] = @ \union AliasesNamed(list, n)]
          ELSE UNCHANGED <<wire, said>>
  /\ UNCHANGED <<past, mapperVars, reading, ends, lost>>

Birth(d) == \E list \in Births : Send(d, "DBIRTH", list)
Data(d) == \E type \in {"DDATA", "DCMD"}, list \in Datas : Send(d, type, list)
Death(d) == Send(d, "DDEATH", <<>>)

\* The process of a device starts again; it names its aliases anew.
DeviceRestarts(d) ==
  /\ ends < MaxEnds /\ ends' = ends + 1
  /\ past' = [past EXCEPT ![d] = Append(@, alias_name_map[d])]
  /\ alias_name_map' = [alias_name_map EXCEPT ![d] = Empty]
  /\ said' = [said EXCEPT ![d] = {}]
  /\ UNCHANGED <<wire, mapperVars, reading, sent, lost>>

---- \* The mapper side

\* get_metric_name, get_name_for_alias and save_name_for_alias; an unset alias reads 0.
NameOf(names, m) ==
  IF m.name # NoName THEN m.name ELSE IF m.alias \in DOMAIN names THEN names[m.alias] ELSE NoName
SaveAlias(names, m) == IF m.name = NoName THEN names ELSE Put(names, m.alias, m.name)

Entry(m, guess) == [value |-> GetValue(m.datatype, m.field), timestamp |-> m.timestamp,
                    means |-> m.means, guess |-> guess]

FaultExtract(old, source, tag, e) ==
  IF old = NoMessage
  THEN [source |-> source, timestamp |-> e.timestamp, tags |-> Put(Empty, tag, <<e>>)]
  ELSE [old EXCEPT !.timestamp = e.timestamp,
                   !.tags = Put(@, tag, <<e>> \o (IF tag \in DOMAIN old.tags THEN old.tags[tag] ELSE <<None>>))]

\* extract_uns_message_for_topic: from the second metric of a topic on, every tag becomes
\* a list beginning with what the tag held, None when it held nothing.
Extract(old, source, tag, e) ==
  IF old = NoMessage
  THEN [source |-> source, timestamp |-> e.timestamp, tags |-> Put(Empty, tag, <<e>>)]
  ELSE LET held == IF tag \in DOMAIN old.tags THEN old.tags[tag] ELSE <<None>>
           older == old.timestamp > e.timestamp
       IN [source |-> source,
           timestamp |-> IF older THEN old.timestamp ELSE e.timestamp,
           tags |-> Put(old.tags, tag, IF older THEN Append(held, e) ELSE <<e>> \o held)]

\* The listener takes topics of five levels only: what a node itself sends has four.
Mapped(d) == Len(d) = 2

\* What the mapper cannot know: a metric with no alias is read as one with alias 0, and the
\* aliases named in a message it never got or gave up.
Misleads(metrics) == \E i \in DOMAIN metrics : metrics[i].name # NoName /\ ~metrics[i].aliased
NamesSome(metrics, first) == \E i \in first..Len(metrics) : metrics[i].name # NoName

\* on_message and the begin of transform_spb_and_publish_to_uns; clear_metric_alias at birth
\* and death.
Receive(d) ==
  LET msg == Head(wire[d])
      fresh == msg.type \in {"DBIRTH", "DDEATH"}
      known == IF fresh THEN misled \ {d} ELSE misled
      deceived == IF Misleads(msg.metrics) THEN known \union {d} ELSE known
  IN /\ parsing = NoWork /\ wire[d] # <<>>
     /\ wire' = [wire EXCEPT ![d] = Tail(@)]
     /\ IF Mapped(d)
        THEN /\ parsing' = [NoWork EXCEPT !.device = d, !.life = msg.life, !.metrics = msg.metrics,
                                           !.guess = d \in deceived]
             /\ misled' = deceived
             /\ node_device_metric_alias_map' =
                  IF fresh THEN [node_device_metric_alias_map EXCEPT ![CacheKey(d)] = Empty]
                  ELSE node_device_metric_alias_map
        ELSE UNCHANGED <<parsing, misled, node_device_metric_alias_map>>
     /\ UNCHANGED <<deviceVars, uns, reading, sent, ends, lost>>

\* One turn of the loop of handle_spb_messages: a metric without a name, or with a name that
\* has no topic, raises and the whole message is given up; the aliases noted so far stay.
HandleMetric ==
  LET m == parsing.metrics[parsing.next]
      key == CacheKey(parsing.device)
      names == node_device_metric_alias_map[key]
      name == NameOf(names, m)
  IN /\ parsing.next \in DOMAIN parsing.metrics
     /\ node_device_metric_alias_map' = [node_device_metric_alias_map EXCEPT ![key] = SaveAlias(names, m)]
     /\ IF name \in Named
        THEN /\ parsing' = [parsing EXCEPT !.next = @ + 1,
                  !.out[name[1]] = Extract(@, parsing.device, name[2], Entry(m, parsing.guess \/ ~m.told))]
             /\ UNCHANGED misled
        ELSE /\ parsing' = NoWork
             /\ misled' = IF NamesSome(parsing.metrics, parsing.next + 1) THEN misled \union {parsing.device}
                          ELSE misled
     /\ UNCHANGED <<deviceVars, wire, uns, reading, sent, ends, lost>>

PublishToUns ==
  /\ parsing # NoWork /\ parsing.next > Len(parsing.metrics)
  /\ uns' = [t \in Topics |-> IF parsing.out[t] # NoMessage THEN parsing.out[t] ELSE uns[t]]
  /\ parsing' = NoWork
  /\ UNCHANGED <<deviceVars, wire, node_device_metric_alias_map, misled, reading, sent, ends, lost>>

\* A message passes while the mapper is not connected.
Lose(d) ==
  /\ wire[d] # <<>> /\ wire' = [wire EXCEPT ![d] = Tail(@)]
  /\ lost < MaxLost /\ lost' = lost + 1
  /\ misled' = IF NamesSome(Head(wire[d]).metrics, 1) THEN misled \union {d} ELSE misled
  /\ UNCHANGED <<deviceVars, parsing, node_device_metric_alias_map, uns, reading, sent, ends>>

MapperRestarts ==
  /\ ends < MaxEnds /\ ends' = ends + 1
  /\ parsing' = NoWork /\ misled' = {}
  /\ node_device_metric_alias_map' = [key \in DOMAIN node_device_metric_alias_map |-> Empty]
  /\ UNCHANGED <<deviceVars, wire, uns, reading, sent, lost>>

SparkplugNext ==
  \/ \E d \in Devices : Birth(d) \/ Data(d) \/ Death(d) \/ DeviceRestarts(d) \/ Receive(d) \/ Lose(d)
  \/ HandleMetric \/ PublishToUns \/ MapperRestarts

SparkplugSpec == SparkplugInit /\ [][SparkplugNext]_spbVars

---- \* Types and assumptions

\* Names have a topic and a tag or a tag only, devices a node and perhaps a device.
ASSUME NamesAssumption ==
  /\ \A n \in Names : n \in Seq({n[i] : i \in DOMAIN n}) /\ Len(n) \in {1, 2}
  /\ \A d \in Devices : d # <<>>
  /\ NoName \notin Names
ASSUME ListsAssumption == \A list \in Births \union Datas :
  /\ list \in Seq(Composed)
  /\ \A i \in DOMAIN list : /\ list[i].name \in Names \union {NoName}
                            /\ list[i].alias \in Nat \union {NoAlias} /\ list[i].timestamp \in Nat
ASSUME AliasAssumption == NoAlias \notin Nat
\* What fills the place of a tag that was not there is no entry.
ASSUME NoneAssumption == \A r \in Readings, m \in Composed, n \in Names, guess \in BOOLEAN :
  None # [value |-> GetValue(r.type, SetValue(r)), timestamp |-> m.timestamp, means |-> n, guess |-> guess]
ASSUME SpbBounds == {MaxSent, MaxEnds, MaxLost} \subseteq Nat

MapsOf(aliases) == UNION {[A -> Names] : A \in SUBSET aliases}
Stamps == {m.timestamp : m \in Composed}
Metrics == [name : Names \union {NoName}, alias : Aliases \union {0}, timestamp : Stamps, datatype : {reading.type},
            field : {SetValue(reading)}, means : Names, aliased : BOOLEAN, told : BOOLEAN]
Messages == [type : {"DBIRTH", "DDATA", "DCMD", "DDEATH"}, life : Nat \ {0}, metrics : Seq(Metrics)]
EntriesOf == [value : {GetValue(reading.type, SetValue(reading))}, timestamp : Stamps, means : Names, guess : BOOLEAN]
Retained(message) == message = NoMessage \/
  /\ message \in [source : Devices, timestamp : Stamps, tags : {message.tags}]
  /\ message.tags \in [DOMAIN message.tags -> Seq(EntriesOf \union {None})] /\ DOMAIN message.tags \subseteq TagNames
RetainedOn(f) == f = [t \in Topics |-> f[t]] /\ \A t \in Topics : Retained(f[t])

SparkplugTypeOK ==
  /\ reading \in Readings
  /\ alias_name_map \in [Devices -> MapsOf(Aliases)] /\ past \in [Devices -> Seq(MapsOf(Aliases))]
  /\ said \in [Devices -> SUBSET Aliases]
  /\ wire \in [Devices -> Seq(Messages)]
  /\ node_device_metric_alias_map \in [{CacheKey(d) : d \in Devices} -> MapsOf(Aliases \union {0})]
  /\ parsing = NoWork \/ parsing \in [device : Devices, life : Nat \ {0}, metrics : Seq(Metrics), next : Nat \ {0},
                                    out : {parsing.out}, guess : BOOLEAN]
  /\ RetainedOn(uns) /\ RetainedOn(parsing.out)
  /\ misled \subseteq Devices
  /\ sent \in 0..MaxSent /\ ends \in 0..MaxEnds /\ lost \in 0..MaxLost

---- \* Properties

Entries(message, tag) == {message.tags[tag][i] : i \in DOMAIN message.tags[tag]} \ {None}

\* What stands on a topic of the UNS is what the device in its context reported under
\* that very name, with the value it meant (get_name_for_alias, get_value_from_sparkplug);
\* the mapper is only mistaken about a device whose aliases it could not learn.
PublishedIsMeant ==
  \A t \in Topics : \A tag \in DOMAIN uns[t].tags : \A e \in Entries(uns[t], tag) :
    e.value = reading.value /\ (e.means = <<t, tag>> \/ e.guess)

\* The timestamp of a message is that of its newest metric (extract_uns_message_for_topic).
TimestampIsNewest ==
  \A t \in Topics : uns[t] # NoMessage =>
    LET all == UNION {{e.timestamp : e \in Entries(uns[t], tag)} : tag \in DOMAIN uns[t].tags}
    IN uns[t].timestamp \in all /\ \A s \in all : s <= uns[t].timestamp

\* A tag of the UNS holds what its device reported under that name, with the timestamp
\* of its newest reading (Spb2UNSPublisher).
SparkplugIsMeant == PublishedIsMeant /\ TimestampIsNewest

\* A reading comes back from the field of its metric, and from the dictionary form, as
\* the device set it (set_value_in_sparkplug, get_value_from_sparkplug); only a negative
\* integer is another one in the dictionary (_fix_keys_and_value_types).
ReadingsComeBack ==
  LET field == SetValue(reading)
      dictionary == FixValue(reading.type, field)
  IN /\ GetValue(reading.type, field) = reading.value
     /\ dictionary = reading.value \/ (reading.type \in Signed /\ reading.value < 0)
=============================================================================
