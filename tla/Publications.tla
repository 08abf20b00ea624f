---------------------------- MODULE Publications ----------------------------
(* What one MQTT message becomes on its way to the archive: route and ownership,  *)
(* envelope, partition key or rejection (06_uns_kafka: ingest.py, rejections.py;  *)
(* 00_uns_config: events.py, publications.py, publication_routes.py), and what the *)
(* historian and the lake make of the record (04 batch.py, 14 routing.py). Pure    *)
(* functions; Ingestion, Historian and LakeMapper model who calls them when.       *)
EXTENDS Integers, Sequences, SequencesExt, FiniteSets, FiniteSetsExt

CONSTANTS
  Posts,        \* [routes, first, second]: a table of routes and two deliveries
  AllTopics,    \* topics that the routes are tried on, sequences of segments
  Owners,       \* ownership: [prefix, site, source]
  LegacyRoutes, \* <<topic, source, site>> -> [application, schema]
  MaxRejection, Overhead,      \* bytes of a rejection record, and those of its fields
  Threshold, Factor, Horizon   \* timestamps: milliseconds from here, per second, last second

VARIABLE post

-----------------------------------------------------------------------------
(* Routes. "#" ends a filter and stands for any number of segments.               *)

Matches(topic, filter) ==
  LET open == Last(filter) = "#"
      fixed == IF open THEN Front(filter) ELSE filter
  IN /\ IF open THEN Len(topic) >= Len(fixed) ELSE Len(topic) = Len(fixed)
     /\ \A i \in DOMAIN fixed : fixed[i] \in {"+", topic[i]}

\* A wildcard for one segment overlaps its equal only.
FaultCompatible(a, b) == a = b
Compatible(a, b) == a = b \/ a = "+" \/ b = "+"

\* _segments_overlap: the first "#" decides; a shorter filter overlaps what ends with one.
Overlap(left, right) ==
  LET common == 1..Min({Len(left), Len(right)})
      open == {i \in common : "#" \in {left[i], right[i]}}
      seen == IF open = {} THEN common ELSE 1..(Min(open) - 1)
  IN /\ \A i \in seen : Compatible(left[i], right[i])
     /\ \/ open # {} \/ Len(left) = Len(right)
        \/ Len(left) < Len(right) /\ Last(right) = "#"
        \/ Len(right) < Len(left) /\ Last(left) = "#"

ValidRoutes(routes) == \A r, s \in routes : r # s => ~Overlap(r.filter, s.filter)
RoutesOf(topic, routes) == {r \in routes : Matches(topic, r.filter)}
\* resolve_route; without a route, or with two, the legacy path takes over.
Routed(topic, routes) == Cardinality(RoutesOf(topic, routes)) = 1
RouteOf(topic, routes) == CHOOSE r \in RoutesOf(topic, routes) : TRUE

\* resolve_ownership: the longest prefix (here of whole segments).
OwnersOf(topic) == {o \in Owners : IsPrefix(o.prefix, topic)}
OwnerOf(topic) == CHOOSE o \in OwnersOf(topic) : \A p \in OwnersOf(topic) : Len(p.prefix) <= Len(o.prefix)

-----------------------------------------------------------------------------
(* Timestamps, keys, identities. A value is [is |-> "absent" | "text" | "number", ..]. *)

Number(n) == [is |-> "number", value |-> n]
Absent == [is |-> "absent"]
\* normalize_legacy_timestamp_value
Normalized(n) == IF n >= Threshold THEN n \div Factor ELSE n
NormalizedValue(t) == IF t.is = "number" THEN Number(Normalized(t.value)) ELSE t
\* What __post_init__ and datetime.fromtimestamp take.
Usable(t) == t.is = "absent" \/ (t.is = "number" /\ Normalized(t.value) <= Horizon)

IsSparkplug(topic) == Len(topic) > 1 /\ topic[1] = "spB"
IsState(topic) == IsSparkplug(topic) /\ Len(topic) > 2 /\ topic[2] = "STATE"
\* event_key
HasKey(topic) == ~IsSparkplug(topic) \/ IsState(topic) \/ Len(topic) >= 4
EventKey(e) ==
  CASE IsState(e.topic) -> <<e.site, "sparkplug", "STATE", e.topic[3]>>
    [] IsSparkplug(e.topic) /\ ~IsState(e.topic) -> <<e.site, "sparkplug", e.topic[2], e.topic[4]>>
    [] OTHER -> <<e.site, "mqtt">> \o e.topic

\* classify_event_kind
KindOf(topic) ==
  CASE ~IsSparkplug(topic) -> "telemetry"
    [] IsState(topic) -> "lifecycle"
    [] IsSparkplug(topic) /\ ~IsState(topic) ->
         IF Len(topic) < 3 THEN "sparkplug_raw"
         ELSE IF topic[3] \in {"NCMD", "DCMD"} THEN "command"
         ELSE IF topic[3] \in {"NBIRTH", "DBIRTH", "NDEATH", "DDEATH", "STATE"} THEN "lifecycle"
         ELSE "sparkplug_raw"

\* source_event_id and ingress_event_id
SourceId(route, boot) == [quality |-> "source", of |-> <<route.site, route.source>> \o boot]
IngressId(receipt) == [quality |-> "ingress", of |-> <<receipt>>]

-----------------------------------------------------------------------------
(* A wire: its size, its form ("json", "bytes" that are none, "wrapped" for an         *)
(* uns-publication-v1) and what is in it: timestamp and value of a JSON object; the    *)
(* publisher's claims and the body of a publication, its boot and sequence in `boot`.  *)

Body(wire) == IF wire.form = "wrapped" THEN wire.body ELSE wire
NoPayload == [value |-> 0, timestamp |-> Absent]
Payload(wire) == [value |-> wire.value, timestamp |-> wire.timestamp]

\* decode_publication, validate_publisher_message: the claims must be the route's.
FaultAccepted(wire, route) ==
  route.wrapped => wire.form = "wrapped" /\ wire.site = route.site /\ wire.schema \in route.schemas
Accepted(wire, route) ==
  route.wrapped => /\ wire.form = "wrapped" /\ wire.site = route.site
                   /\ wire.application = route.application /\ wire.schema \in route.schemas

\* _compatibility_payload
CompatibilityPayload(wire, route) ==
  IF route.kind \notin {"business_event", "state_snapshot"} /\ Body(wire).form = "json"
  THEN Payload(Body(wire)) ELSE NoPayload

\* encode_rejection: base64 in a record that has the same limit as the message.
Base64(n) == 4 * ((n + 2) \div 3)
Rejection(d) == [is |-> IF Base64(d.wire.size) + Overhead <= MaxRejection THEN "dlq" ELSE "raised"]
Archived(e) == IF HasKey(e.topic) THEN [is |-> "archived", envelope |-> e] ELSE [is |-> "raised"]

\* _build_v2_envelope
BuildV2(d, route) ==
  LET wrapped == route.wrapped
      sourced == wrapped /\ d.wire.boot # <<>>
      timed == wrapped /\ d.wire.occurred.is = "number"
  IN [version |-> 2,
      id |-> IF sourced THEN SourceId(route, d.wire.boot) ELSE IngressId(d.receipt),
      source |-> route.source, site |-> route.site, received |-> d.at,
      time |-> IF timed THEN d.wire.occurred.value ELSE d.at,
      timed |-> IF timed THEN "source" ELSE "ingress",
      topic |-> d.topic, kind |-> route.kind, payload |-> CompatibilityPayload(d.wire, route),
      application |-> IF wrapped THEN d.wire.application ELSE route.application,
      schema |-> IF wrapped THEN d.wire.schema ELSE route.default,
      original |-> Body(d.wire)]

\* _build_v1_envelope, with __post_init__ of the envelope.
BuildV1(d, owner) ==
  LET payload == IF d.wire.form = "json" THEN Payload(d.wire) ELSE NoPayload
      timed == payload.timestamp.is = "number"
      normalized == [payload EXCEPT !.timestamp = NormalizedValue(@)]
  IN [version |-> 1, id |-> IngressId(d.receipt), source |-> owner.source, site |-> owner.site,
      received |-> d.at,
      time |-> IF timed THEN normalized.timestamp.value ELSE d.at,
      timed |-> IF timed THEN "source" ELSE "ingress",
      topic |-> d.topic, kind |-> KindOf(d.topic), payload |-> normalized,
      original |-> IF IsSparkplug(d.topic) THEN d.wire ELSE Absent]

\* ingest_qos1 up to the producer: what becomes of a message.
Outcome(d, routes) ==
  LET route == RouteOf(d.topic, routes)
  IN CASE d.wire.size > MaxRejection -> [is |-> "halted"]
       [] d.wire.size <= MaxRejection /\ Routed(d.topic, routes) ->
            IF ~route.archived THEN [is |-> "excluded"]
            ELSE IF Accepted(d.wire, route) THEN Archived(BuildV2(d, route)) ELSE Rejection(d)
       [] d.wire.size <= MaxRejection /\ ~Routed(d.topic, routes) ->
            IF OwnersOf(d.topic) = {} \/ (~IsSparkplug(d.topic) /\ d.wire.form = "bytes")
            THEN Rejection(d)
            ELSE IF d.wire.form = "json" /\ ~Usable(d.wire.timestamp) THEN [is |-> "raised"]
            ELSE Archived(BuildV1(d, OwnerOf(d.topic)))

-----------------------------------------------------------------------------
(* The consumers. *)

\* decode_event: the envelope is constructed again.
Decoded(e) ==
  IF e.version = 2 THEN e ELSE [e EXCEPT !.payload.timestamp = NormalizedValue(@)]

\* The time of receipt is part of what an event is.
FaultContent(e) == e
\* immutable_content_hash
Content(e) == [f \in DOMAIN e \ {"received"} |-> e[f]]
\* The key of a raw row in the historian.
Identity(e) == <<e.time, e.id>>

\* resolve_lake_event
LegacyKey(e) == <<e.topic, e.source, e.site>>
LakeRoute(e) ==
  IF e.version = 2 THEN [application |-> e.application, site |-> e.site, schema |-> e.schema, day |-> e.received]
  ELSE [application |-> LegacyRoutes[LegacyKey(e)].application, site |-> e.site,
        schema |-> LegacyRoutes[LegacyKey(e)].schema, day |-> e.received]

-----------------------------------------------------------------------------
Init == post \in Posts

Deliveries == {post.first, post.second}
Stored(d) == Decoded(Outcome(d, post.routes).envelope)
\* A process whose table startup refuses takes no message.
IsStored(d) == ValidRoutes(post.routes) /\ Outcome(d, post.routes).is = "archived"

TypeOK ==
  \A d \in Deliveries : Outcome(d, post.routes).is \in {"halted", "excluded", "dlq", "raised", "archived"}

\* A table of routes that startup accepts sends no topic two ways (validate_routes).
RoutesUnambiguous ==
  ValidRoutes(post.routes) => \A topic \in AllTopics : Cardinality(RoutesOf(topic, post.routes)) <= 1

\* A message that carries its source's identity and time is the same row whenever it is
\* delivered again, and only then: the same row with other content is a conflict, never
\* a duplicate (immutable_content_hash; the rows of the historian).
SourceMarked(d) == Stored(d).id.quality = "source" /\ Stored(d).timed = "source"
TellsApart ==
  LET a == post.first  b == post.second
      same == a.topic = b.topic /\ a.wire = b.wire
  IN IsStored(a) /\ IsStored(b) =>
       /\ same /\ SourceMarked(a) => Identity(Stored(a)) = Identity(Stored(b))
       /\ Identity(Stored(a)) = Identity(Stored(b)) =>
            (Content(Stored(a)) = Content(Stored(b)) <=> same)

\* The lake files an archived publication under the application, site and schema that its
\* route is registered for, with the bytes its publisher sent.
FiledByRoute ==
  \A d \in Deliveries : IsStored(d) /\ Stored(d).version = 2 =>
    LET route == RouteOf(d.topic, post.routes)  filed == LakeRoute(Stored(d))
    IN /\ filed.application = route.application /\ filed.site = route.site
       /\ filed.schema \in route.schemas
       /\ Stored(d).original = Body(d.wire)

\* Messages of one Sparkplug node share a partition, those of two sites or nodes have
\* keys of their own (event_key).
PartitionOfNode ==
  LET a == post.first  b == post.second
  IN IsStored(a) /\ IsStored(b) /\ IsSparkplug(a.topic) /\ IsSparkplug(b.topic)
     /\ ~IsState(a.topic) /\ ~IsState(b.topic) =>
       (EventKey(Stored(a)) = EventKey(Stored(b))
          <=> <<Stored(a).site, a.topic[2], a.topic[4]>> = <<Stored(b).site, b.topic[2], b.topic[4]>>)

\* What a consumer decodes is what ingestion encoded, up to the year 5138: from there on a
\* second is taken for a millisecond when the envelope is constructed again.
ComesBack == \A d \in Deliveries : IsStored(d) =>
  LET sent == Outcome(d, post.routes).envelope
  IN \/ Stored(d) = sent
     \/ sent.payload.timestamp.is = "number" /\ sent.version = 1 /\ sent.payload.timestamp.value >= Threshold

\* "Invalid payloads are durably rejected to `uns.historic-events.dlq`": a message is archived,
\* rejected or excluded by its route, or it halts the shard; no exception escapes on_message.
EveryMessageIsSettled == ValidRoutes(post.routes) => \A d \in Deliveries : Outcome(d, post.routes).is # "raised"
=============================================================================
