------------------------------- MODULE LiveEvents -------------------------------
(* The live event stream of the GraphQL service: a thread polls the historic topic *)
(* and posts each event to the event loop, which puts it into the bounded queue of *)
(* every client that asked for its MQTT topic; each client takes from its queue    *)
(* and passes on what its Access Groups let it see (event_stream.py, auth/scope.py, *)
(* TopicContextResolver).                                                          *)
EXTENDS Integers, Sequences, SequencesExt

CONSTANTS
  Clients, LiveTopics, Assets,
  Roots,                    \* client -> the Assets of its Access Groups
  Unbound,                  \* no Asset
  Resync,                   \* RESYNC_SENTINEL
  MaxClients, MaxQueue,     \* max_clients; max_client_messages, of the queue and the budget
  MaxBytes, Sizes,          \* max_client_bytes, sizes of events
  MaxEvents, MaxReassigned, MaxModelEdits   \* bounds

VARIABLES
  log,          \* the historic topic: [topic, size]
  position,     \* the offset the consumer reads next
  posted,       \* call_soon_threadsafe: offsets on their way to _fan_out
  fanned,       \* the offset _fan_out gets next
  clients,      \* _clients, in the order of registration
  registration, \* client -> [topics, queue, count, bytes, item]
  modelled,     \* topic -> the Asset its prefix matches
  connectivity, \* topic -> the Asset a connectivity tag binds it to
  cache,        \* the resolver: topic -> Asset as it was loaded
  attended,     \* client -> [since, taken, unsent]: where it began, the offsets it took
                \* and those it was not offered
  shown,        \* what a client was shown last
  skipped,      \* offsets an assignment passed over
  reassigned, edits

liveVars == <<log, position, posted, fanned, clients, registration, modelled, connectivity, cache,
              attended, shown, skipped, reassigned, edits>>

\* The sentinel is no event; what no Asset binds is in no Access Group.
ASSUME LiveAssumption == /\ Resync \notin Nat /\ Unbound \notin Assets
                         /\ Roots \in [Clients -> SUBSET Assets]
ASSUME LiveBounds == {MaxClients, MaxQueue, MaxBytes, MaxEvents} \union Sizes \subseteq Nat

NoItem == 0
NoRegistration == [topics |-> {}, queue |-> <<>>, count |-> 0, bytes |-> 0, item |-> NoItem]

LiveInit ==
  /\ log = <<>> /\ position = 1 /\ posted = <<>> /\ fanned = 1
  /\ clients = <<>> /\ registration = [c \in Clients |-> NoRegistration]
  /\ modelled \in [LiveTopics -> Assets \union {Unbound}]
  /\ connectivity \in [LiveTopics -> Assets \union {Unbound}]
  /\ cache = [t \in {} |-> Unbound]
  /\ attended = [c \in Clients |-> [since |-> 1, taken |-> {}, unsent |-> {}]]
  /\ shown = {} /\ skipped = {} /\ reassigned = 0 /\ edits = 0

---- \* The consumer and the dispatcher

Produce(t, size) ==
  /\ Len(log) < MaxEvents
  /\ log' = Append(log, [topic |-> t, size |-> size])
  /\ UNCHANGED <<position, posted, fanned, clients, registration, modelled, connectivity, cache,
                 attended, shown, skipped, reassigned, edits>>

\* _poll_loop
PollLoop ==
  /\ position <= Len(log)
  /\ posted' = Append(posted, position) /\ position' = position + 1
  /\ UNCHANGED <<log, fanned, clients, registration, modelled, connectivity, cache, attended,
                 shown, skipped, reassigned, edits>>

\* assign_live_end: every assignment begins at the end of the topic.
Reassign ==
  /\ reassigned < MaxReassigned /\ reassigned' = reassigned + 1
  /\ position' = Len(log) + 1
  /\ skipped' = skipped \union (position..Len(log))
  /\ UNCHANGED <<log, posted, fanned, clients, registration, modelled, connectivity, cache,
                 attended, shown, edits>>

Wants(c, e) == log[e].topic \in registration[c].topics

\* ClientBudget.admit: what was admitted is never given back.
Admits(r, size) == r.count < MaxQueue /\ r.bytes + size <= MaxBytes

Accept(r, item, size) ==
  [r EXCEPT !.queue = IF Len(@) = MaxQueue THEN @ ELSE Append(@, item),
            !.count = IF item = Resync THEN @ ELSE @ + 1,
            !.bytes = IF item = Resync THEN @ ELSE @ + size]

\* A client that is over its budget is skipped without the sentinel.
FaultOffer(r, e) == IF Admits(r, log[e].size) THEN Accept(r, e, log[e].size) ELSE r

\* One turn of the loop of _fan_out: a client over its budget gets the sentinel.
Offer(r, e) == Accept(r, IF Admits(r, log[e].size) THEN e ELSE Resync, log[e].size)

\* _fan_out: the first client in order whose queue is full raises QueueFull out of the loop,
\* so that neither it nor a later one gets the event.
Full(e) == {i \in DOMAIN clients : Wants(clients[i], e) /\ Len(registration[clients[i]].queue) = MaxQueue}
Offered(e) == {clients[i] : i \in {i \in DOMAIN clients : \A j \in Full(e) : i <= j}}
Missed(e) == {clients[i] : i \in {i \in DOMAIN clients : \E j \in Full(e) : j <= i}}

FanOut ==
  LET e == Head(posted)
  IN /\ posted # <<>> /\ posted' = Tail(posted) /\ fanned' = e + 1
     /\ registration' = [c \in Clients |-> IF c \in Offered(e) /\ Wants(c, e) THEN Offer(registration[c], e)
                                           ELSE registration[c]]
     /\ attended' = [c \in Clients |-> IF c \in Missed(e)
                       THEN [attended[c] EXCEPT !.unsent = @ \union {e}] ELSE attended[c]]
     /\ UNCHANGED <<log, position, clients, modelled, connectivity, cache, shown, skipped, reassigned, edits>>

---- \* A client

\* subscribe and _register; a client beyond the limit is refused.
Subscribe(c, topics) ==
  /\ c \notin Range(clients) /\ Len(clients) < MaxClients
  /\ clients' = Append(clients, c)
  /\ registration' = [registration EXCEPT ![c] =
       [NoRegistration EXCEPT !.topics = topics]]
  /\ attended' = [attended EXCEPT ![c] = [since |-> fanned, taken |-> {}, unsent |-> {}]]
  /\ UNCHANGED <<log, position, posted, fanned, modelled, connectivity, cache, shown, skipped, reassigned, edits>>

Unregister(c) ==
  /\ \E i \in DOMAIN clients : clients[i] = c /\ clients' = RemoveAt(clients, i)
  /\ registration' = [registration EXCEPT ![c] = NoRegistration]
  /\ attended' = [attended EXCEPT ![c] = [since |-> 1, taken |-> {}, unsent |-> {}]]
  /\ UNCHANGED <<log, position, posted, fanned, modelled, connectivity, cache, shown, skipped, reassigned, edits>>

\* The console closes the page, at any await.
Leave(c) == Unregister(c)

\* queue.get
Take(c) ==
  LET r == registration[c]
  IN /\ c \in Range(clients) /\ r.item = NoItem /\ r.queue # <<>> /\ Head(r.queue) # Resync
     /\ registration' = [registration EXCEPT ![c] = [r EXCEPT !.item = Head(r.queue), !.queue = Tail(@)]]
     /\ attended' = [attended EXCEPT ![c].taken = @ \union {Head(r.queue)}]
     /\ UNCHANGED <<log, position, posted, fanned, clients, modelled, connectivity, cache, shown,
                    skipped, reassigned, edits>>

\* LiveStreamResyncError ends the subscription.
TakeResync(c) ==
  /\ registration[c].item = NoItem
  /\ registration[c].queue # <<>> /\ Head(registration[c].queue) = Resync
  /\ Unregister(c)

\* TopicContextResolver.resolve and visible_topic: a topic in the Asset tree is seen by
\* its Asset alone; only one outside the tree is looked up in the connectivity catalog.
FaultVisible(roots, bound, fallback) == bound \in roots \/ fallback \in roots

Visible(roots, bound, fallback) == bound \in roots \/ (bound = Unbound /\ fallback \in roots)

\* allowed_topic with the binding of the cache, or the one that is loaded into it.
Show(c) ==
  LET r == registration[c]
      t == log[r.item].topic
      bound == IF t \in DOMAIN cache THEN cache[t] ELSE modelled[t]
  IN /\ r.item # NoItem
     /\ registration' = [registration EXCEPT ![c].item = NoItem]
     /\ cache' = [u \in DOMAIN cache \union {t} |-> IF u = t THEN bound ELSE cache[u]]
     /\ shown' = IF Visible(Roots[c], bound, connectivity[t])
                 THEN {[client |-> c, stale |-> bound # modelled[t],
                         owner |-> IF modelled[t] = Unbound THEN connectivity[t] ELSE modelled[t]]}
                 ELSE {}
     /\ UNCHANGED <<log, position, posted, fanned, clients, modelled, connectivity, attended,
                    skipped, reassigned, edits>>

---- \* The Asset model changes under the clients

EditModel(t, a) ==
  /\ edits < MaxModelEdits /\ edits' = edits + 1
  /\ modelled' = [modelled EXCEPT ![t] = a]
  /\ UNCHANGED <<log, position, posted, fanned, clients, registration, connectivity, cache, attended,
                 shown, skipped, reassigned>>

\* The listener's refresh, or the time to live of the entries.
Forget ==
  /\ cache # [t \in {} |-> Unbound] /\ cache' = [t \in {} |-> Unbound]
  /\ UNCHANGED <<log, position, posted, fanned, clients, registration, modelled, connectivity,
                 attended, shown, skipped, reassigned, edits>>

LiveNext ==
  \/ \E t \in LiveTopics : (\E size \in Sizes : Produce(t, size)) \/ (\E a \in Assets \union {Unbound} : EditModel(t, a))
  \/ PollLoop \/ Reassign \/ FanOut \/ Forget
  \/ \E c \in Clients :
       \/ \E topics \in SUBSET LiveTopics \ {{}} : Subscribe(c, topics)
       \/ Leave(c) \/ Take(c) \/ TakeResync(c) \/ Show(c)

LiveSpec == LiveInit /\ [][LiveNext]_liveVars

---- \* Properties

Registrations == [topics : SUBSET LiveTopics, queue : Seq((1..MaxEvents) \union {Resync}),
                  count : 0..MaxQueue, bytes : 0..MaxBytes, item : 0..MaxEvents]

LiveTypeOK ==
  /\ log \in Seq([topic : LiveTopics, size : Sizes]) /\ Len(log) <= MaxEvents
  /\ position \in 1..(MaxEvents + 1) /\ fanned \in 1..(MaxEvents + 1) /\ posted \in Seq(1..MaxEvents)
  /\ clients \in Seq(Clients) /\ Len(clients) <= MaxClients
  /\ registration \in [Clients -> Registrations]
  /\ \A c \in Clients : Len(registration[c].queue) <= MaxQueue
  /\ attended \in [Clients -> [since : 1..(MaxEvents + 1), taken : SUBSET (1..MaxEvents),
                               unsent : SUBSET (1..MaxEvents)]]
  /\ modelled \in [LiveTopics -> Assets \union {Unbound}]
  /\ connectivity \in [LiveTopics -> Assets \union {Unbound}] /\ DOMAIN cache \subseteq LiveTopics

\* The events of the client's topics that were fanned out since it came, but for those that the
\* consumer skipped on an assignment and those whose fan-out met a full queue.
Expected(c) == {e \in attended[c].since..(fanned - 1) :
                  Wants(c, e) /\ e \notin attended[c].unsent \union skipped}
\* The places of a queue before its first sentinel, and the events there.
Heard(q) == {i \in DOMAIN q : \A j \in 1..i : q[j] # Resync}
Queued(q) == {q[i] : i \in Heard(q)}
Warned(q) == \E i \in DOMAIN q : q[i] = Resync

\* What was taken and what is queued, in order, is all that is expected; with a sentinel in the
\* queue it is all up to the first event that is lacking.
HasAll(taken, q, expected) ==
  /\ \A e \in taken, f \in Queued(q) : e < f
  /\ \A i, j \in Heard(q) : i < j => q[i] < q[j]
  /\ taken \union Queued(q) \subseteq expected
  /\ \A e \in expected \ (taken \union Queued(q)) :
       Warned(q) /\ \A f \in taken \union Queued(q) : f < e

\* A client that was not told to resync has, or has queued in order, every event it may expect
\* (_fan_out, LiveStreamResyncError).
NoSilentGap == \A c \in Range(clients) : HasAll(attended[c].taken, registration[c].queue, Expected(c))

\* A client sees a topic only under its Asset: the one of the tree if there is one, else
\* the one of the connectivity catalog; for as long as the resolver's entry lives it is the
\* Asset of before an edit (allowed_topic, TopicContextResolver).
InScopeOnly == \A s \in shown : s.owner \in Roots[s.client] \/ s.stale

\* A live client misses nothing it is not told of and sees only what its Access Groups cover
\* (_fan_out, allowed_topic).
ClientsAreServed == NoSilentGap /\ InScopeOnly
=============================================================================
