------------------------------ MODULE Ingestion ------------------------------
(***************************************************************************)
(* One MQTT to Kafka ingestion shard (06_uns_kafka): the broker's session  *)
(* window, the Paho callbacks of UNSKafkaMapper, the IngestionOwner that   *)
(* decides when a QoS 1 message may be acknowledged, and the librdkafka    *)
(* producer whose delivery reports are served only while the single        *)
(* network thread is inside poll() or flush().                             *)
(*                                                                         *)
(* The broker, the network and Kafka are external: they are modelled from  *)
(* how the code uses them (stable session, Receive Maximum, manual ack;    *)
(* bounded producer queue, one report per produced record).                *)
(***************************************************************************)
EXTENDS Integers, FiniteSets

CONSTANTS
  Messages,            \* the publications the broker routes to this shard
  NoMsg,               \* marks a free packet identifier
  Kind,                \* what on_message and _resolve_ingress decide about a message
  Qos,                 \* its delivered QoS, 0 or 1
  Size,                \* the serialized size of its envelope or rejection record
  Periodic,            \* QoS 0 publications that recur for ever
  ReceiveMaximum,      \* MQTT 5 Receive Maximum of the subscription
  PendingRecordLimit,  \* IngestionConfig.pending_record_limit
  PendingByteLimit,    \* IngestionConfig.pending_byte_limit
  QueueLimit,          \* queue.buffering.max.messages of the producer
  MaxDrops,            \* bound: connection losses
  MaxStops,            \* bound: crashes and interrupts of the process
  MaxFailures          \* bound: deliveries that Kafka fails

Kinds == {"event", "invalid", "excluded", "platform", "unarchivable"}

ASSUME MessagesAssumption ==
  /\ NoMsg \notin Messages
  /\ Kind \in [Messages -> Kinds]
  /\ Qos \in [Messages -> {0, 1}]
  /\ Size \in [Messages -> Nat]
  /\ Periodic \subseteq {m \in Messages : Qos[m] = 0}

ASSUME LimitsAssumption ==
  /\ ReceiveMaximum \in Nat \ {0}
  /\ PendingRecordLimit \in Nat
  /\ PendingByteLimit \in Nat
  /\ QueueLimit \in Nat
  /\ MaxDrops \in Nat
  /\ MaxStops \in Nat
  /\ MaxFailures \in Nat

Packets == 1 .. ReceiveMaximum
NoPacket == 0            \* the packet identifier of a QoS 0 message

\* The topic a message is produced to, once it is admitted.
Target(m) == IF Kind[m] = "invalid" THEN "dlq" ELSE "historic"

\* A produced record with the receipt token its callback closes over.
Delivery == [msg : Messages, gen : Nat, pkt : Packets \cup {NoPacket}]
Report == [of : Delivery, ok : BOOLEAN]

Qos1Messages == {m \in Messages : Qos[m] = 1}

VARIABLES
  \* the MQTT broker and the network
  link,            \* the TCP connection is alive
  backlog,         \* publications the broker has not sent yet
  session,         \* packet identifier |-> unacknowledged message of the session
  sent,            \* packet identifiers sent on the current connection
  acked,           \* messages the broker has dropped after a PUBACK
  lost,            \* messages the broker lost with an expired session
  \* the process: Paho's network thread and the IngestionOwner
  pc,              \* where the network thread is
  connected,       \* between on_connect and on_disconnect
  connectedOnce,   \* UNSKafkaMapper._connected_once
  generation,      \* IngestionOwner.connection_generation
  ready,           \* IngestionOwner.ready
  halted,          \* IngestionOwner.halted
  pending,         \* IngestionOwner._pending
  pendingRecords,  \* IngestionOwner.pending_records
  pendingBytes,    \* IngestionOwner.pending_bytes
  \* the Kafka producer and the topics
  queue,           \* produced records without a delivery report
  reports,         \* delivery reports no poll has served yet
  archived,        \* messages in uns.historic-events
  rejected,        \* messages in uns.historic-events.dlq
  \* bounds
  drops, stops, failures

brokerVars == <<link, backlog, session, sent, acked, lost>>
ownerVars == <<connected, connectedOnce, generation, ready, halted,
               pending, pendingRecords, pendingBytes>>
kafkaVars == <<queue, reports, archived, rejected>>
boundVars == <<drops, stops, failures>>
vars == <<brokerVars, pc, ownerVars, kafkaVars, boundVars>>

\* Definitions named Fault... restate the definition after them with a plausible
\* bug; no action uses them.  They show that each property can fail.

InFlight == {m \in Messages : \E p \in Packets : session[p] = m}
Stored(m) == m \in (IF Target(m) = "dlq" THEN rejected ELSE archived)

-----------------------------------------------------------------------------
(* Initial state: a fresh process, not connected yet.                      *)

Init ==
  /\ link = FALSE
  /\ backlog = Messages
  /\ session = [p \in Packets |-> NoMsg]
  /\ sent = {}
  /\ acked = {}
  /\ lost = {}
  /\ pc = "idle"
  /\ connected = FALSE
  /\ connectedOnce = FALSE
  /\ generation = 1
  /\ ready = TRUE
  /\ halted = FALSE
  /\ pending = {}
  /\ pendingRecords = 0
  /\ pendingBytes = 0
  /\ queue = {}
  /\ reports = {}
  /\ archived = {}
  /\ rejected = {}
  /\ drops = 0
  /\ stops = 0
  /\ failures = 0

-----------------------------------------------------------------------------
(* Connection lifecycle                                                    *)

NextGeneration == IF connectedOnce THEN generation + 1 ELSE generation

\* on_connect: every successful connect after the first starts a new generation.
\* The broker resumes the session, or has lost it (expiry, restart without a disk).
Connect ==
  /\ pc = "idle"
  /\ ~connected
  /\ link' = TRUE
  /\ connected' = TRUE
  /\ connectedOnce' = TRUE
  /\ generation' = NextGeneration
  /\ sent' = {}
  /\ \/ UNCHANGED <<session, lost>>
     \/ /\ session' = [p \in Packets |-> NoMsg]
        /\ lost' = lost \cup InFlight
  /\ UNCHANGED <<backlog, acked, pc, ready, halted, pending, pendingRecords,
                 pendingBytes, kafkaVars, boundVars>>

NetworkDrop ==
  /\ link
  /\ drops < MaxDrops
  /\ link' = FALSE
  /\ drops' = drops + 1
  /\ UNCHANGED <<backlog, session, sent, acked, lost, pc, ownerVars, kafkaVars,
                 stops, failures>>

\* on_disconnect: readiness is exported, then flush(1) serves reports for a second.
OnDisconnect ==
  /\ pc = "idle"
  /\ connected
  /\ ~link
  /\ connected' = FALSE
  /\ pc' = "flushing"
  /\ UNCHANGED <<brokerVars, connectedOnce, generation, ready, halted, pending,
                 pendingRecords, pendingBytes, kafkaVars, boundVars>>

-----------------------------------------------------------------------------
(* on_message, QoS 1                                                       *)

\* The broker sends a new message under a free packet identifier, or again one
\* that is still unacknowledged, and the network thread enters on_message.
Receive(p, m) ==
  /\ pc = "idle"
  /\ connected
  /\ link
  /\ Qos[m] = 1
  /\ \/ session[p] = NoMsg /\ m \in backlog
     \/ session[p] = m /\ p \notin sent
  /\ backlog' = backlog \ {m}
  /\ sent' = sent \cup {p}

\* A topic under uns/platform/ returns before any acknowledgment and any poll.
IgnorePlatform(p, m) ==
  /\ Receive(p, m)
  /\ Kind[m] = "platform"
  /\ session' = [session EXCEPT ![p] = m]
  /\ UNCHANGED <<link, acked, lost, pc, ownerVars, kafkaVars, boundVars>>

\* A halted shard returns silently; an unready one marks backpressure again.
Refuse(p, m) ==
  /\ Receive(p, m)
  /\ Kind[m] # "platform"
  /\ halted \/ ~ready
  /\ session' = [session EXCEPT ![p] = m]
  /\ pc' = "polling"
  /\ UNCHANGED <<link, acked, lost, ownerVars, kafkaVars, boundVars>>

\* _ExcludeWithoutPublish: the route is not archived, so the message is released.
Exclude(p, m) ==
  /\ Receive(p, m)
  /\ Kind[m] = "excluded"
  /\ ready /\ ~halted
  /\ session' = [session EXCEPT ![p] = NoMsg]
  /\ acked' = acked \cup {m}
  /\ pc' = "polling"
  /\ UNCHANGED <<link, lost, ownerVars, kafkaVars, boundVars>>

\* Fault: the shard halts but releases the message that made it halt.
FaultHaltReleases(p, m) ==
  /\ Receive(p, m)
  /\ Kind[m] = "unarchivable"
  /\ ready /\ ~halted
  /\ halted' = TRUE
  /\ ready' = FALSE
  /\ session' = [session EXCEPT ![p] = NoMsg]
  /\ pc' = "polling"
  /\ UNCHANGED <<link, acked, lost, connected, connectedOnce, generation, pending,
                 pendingRecords, pendingBytes, kafkaVars, boundVars>>

\* _RejectUnarchivable: too large even for the dead-letter topic, the shard halts.
HaltShard(p, m) ==
  /\ Receive(p, m)
  /\ Kind[m] = "unarchivable"
  /\ ready /\ ~halted
  /\ halted' = TRUE
  /\ ready' = FALSE
  /\ session' = [session EXCEPT ![p] = m]
  /\ pc' = "polling"
  /\ UNCHANGED <<link, acked, lost, connected, connectedOnce, generation, pending,
                 pendingRecords, pendingBytes, kafkaVars, boundVars>>

\* Fault: the size of the new message is not counted.
FaultCapacity(m) ==
  /\ pendingRecords + 1 <= PendingRecordLimit
  /\ pendingBytes <= PendingByteLimit

\* _reserve_pending
HasCapacity(m) ==
  /\ pendingRecords + 1 <= PendingRecordLimit
  /\ pendingBytes + Size[m] <= PendingByteLimit

\* librdkafka counts a record until its delivery report has been served.
ProducerFull == Cardinality(queue) + Cardinality(reports) >= QueueLimit

\* Neither a full budget nor BufferError from produce() leaves a trace in _pending:
\* the message stays unacknowledged and the shard is not ready.
MarkBackpressure(p, m) ==
  /\ Receive(p, m)
  /\ Kind[m] \in {"event", "invalid"}
  /\ ready /\ ~halted
  /\ ready' = FALSE
  /\ session' = [session EXCEPT ![p] = m]
  /\ pc' = "polling"
  /\ UNCHANGED <<link, acked, lost, connected, connectedOnce, generation, halted,
                 kafkaVars, boundVars>>

NoBudget(p, m) ==
  /\ MarkBackpressure(p, m)
  /\ ~HasCapacity(m)
  /\ UNCHANGED <<pending, pendingRecords, pendingBytes>>

\* Fault: the roll-back of BufferError returns one record more than was reserved.
FaultBufferError(p, m) ==
  /\ MarkBackpressure(p, m)
  /\ HasCapacity(m) /\ ProducerFull
  /\ pendingRecords' = pendingRecords - 1
  /\ UNCHANGED <<pending, pendingBytes>>

\* The reservation and the pending entry are rolled back.
BufferFull(p, m) ==
  /\ MarkBackpressure(p, m)
  /\ HasCapacity(m) /\ ProducerFull
  /\ UNCHANGED <<pending, pendingRecords, pendingBytes>>

\* _begin_delivery: the message is reserved, registered as pending and produced.
Admit(p, m) ==
  LET d == [msg |-> m, gen |-> generation, pkt |-> p] IN
  /\ Receive(p, m)
  /\ Kind[m] \in {"event", "invalid"}
  /\ ready /\ ~halted
  /\ HasCapacity(m) /\ ~ProducerFull
  /\ pending' = pending \cup {d}
  /\ pendingRecords' = pendingRecords + 1
  /\ pendingBytes' = pendingBytes + Size[m]
  /\ queue' = queue \cup {d}
  /\ session' = [session EXCEPT ![p] = m]
  /\ pc' = "polling"
  /\ UNCHANGED <<link, acked, lost, connected, connectedOnce, generation, ready,
                 halted, reports, archived, rejected, boundVars>>

-----------------------------------------------------------------------------
(* on_message, QoS 0: at most once, never acknowledged                     *)

Receive0(m) ==
  /\ pc = "idle"
  /\ connected
  /\ link
  /\ Qos[m] = 0
  /\ m \in backlog
  /\ backlog' = IF m \in Periodic THEN backlog ELSE backlog \ {m}

Admissible0(m) == Kind[m] \in {"event", "invalid"} /\ ready /\ ~halted

\* Fault: only an admitted message makes on_message poll the producer.
FaultDropWithoutPoll(m) ==
  /\ Receive0(m)
  /\ ~Admissible0(m)
  /\ UNCHANGED <<link, session, sent, acked, lost, pc, ownerVars, kafkaVars, boundVars>>

DropQos0(m) ==
  /\ Receive0(m)
  /\ ~Admissible0(m)
  /\ pc' = IF Kind[m] = "platform" THEN "idle" ELSE "polling"
  /\ UNCHANGED <<link, session, sent, acked, lost, ownerVars, kafkaVars, boundVars>>

PublishQos0(m) ==
  /\ Receive0(m)
  /\ Admissible0(m)
  /\ ~ProducerFull
  /\ queue' = queue \cup {[msg |-> m, gen |-> generation, pkt |-> NoPacket]}
  /\ pc' = "polling"
  /\ UNCHANGED <<link, session, sent, acked, lost, ownerVars, reports, archived,
                 rejected, boundVars>>

\* ingest_qos0 does not catch BufferError: it leaves loop_forever and main() drains.
Qos0BufferError(m) ==
  /\ Receive0(m)
  /\ Admissible0(m)
  /\ ProducerFull
  /\ stops < MaxStops
  /\ stops' = stops + 1
  /\ pc' = "draining"
  /\ UNCHANGED <<link, session, sent, acked, lost, ownerVars, kafkaVars, drops,
                 failures>>

-----------------------------------------------------------------------------
(* Kafka: the broker's verdict on a produced record                        *)

Store(m) ==
  IF Target(m) = "dlq"
  THEN rejected' = rejected \cup {m} /\ UNCHANGED archived
  ELSE archived' = archived \cup {m} /\ UNCHANGED rejected

KafkaAccept(d) ==
  /\ d \in queue
  /\ queue' = queue \ {d}
  /\ reports' = reports \cup {[of |-> d, ok |-> TRUE]}
  /\ Store(d.msg)
  /\ UNCHANGED <<brokerVars, pc, ownerVars, boundVars>>

\* A delivery timeout is ambiguous: the record may have been written all the same.
KafkaFail(d) ==
  /\ d \in queue
  /\ failures < MaxFailures
  /\ failures' = failures + 1
  /\ queue' = queue \ {d}
  /\ reports' = reports \cup {[of |-> d, ok |-> FALSE]}
  /\ Store(d.msg) \/ UNCHANGED <<archived, rejected>>
  /\ UNCHANGED <<brokerVars, pc, ownerVars, drops, stops>>

-----------------------------------------------------------------------------
(* Serving delivery reports                                                *)

Serving == pc \in {"polling", "flushing", "draining"}

\* The PUBACK leaves only if the connection it belongs to is still alive.
Ack(p) ==
  IF link
  THEN /\ session' = [session EXCEPT ![p] = NoMsg]
       /\ acked' = acked \cup {session[p]}
  ELSE UNCHANGED <<session, acked>>

\* The callback of a QoS 0 record is a lambda that does nothing.
ServeQos0(r) ==
  /\ Serving
  /\ r \in reports
  /\ r.of.pkt = NoPacket
  /\ reports' = reports \ {r}
  /\ UNCHANGED <<brokerVars, pc, ownerVars, queue, archived, rejected, boundVars>>

\* Fault: the generation of the token is not compared.
FaultAckStale(r) == r.ok

\* Fault: the outcome of the delivery is not looked at.
FaultAckFailed(r) == r.of.gen = generation

MayAck(r) == r.ok /\ r.of.gen = generation

Unpend(r) == pending \ {r.of}

\* complete_delivery: the budget is returned, then the token decides about the ack.
CompleteDelivery(r) ==
  /\ Serving
  /\ r \in reports
  /\ r.of.pkt # NoPacket
  /\ reports' = reports \ {r}
  /\ pending' = Unpend(r)
  /\ pendingRecords' = pendingRecords - 1
  /\ pendingBytes' = pendingBytes - Size[r.of.msg]
  /\ ready' = (ready /\ r.ok)
  /\ IF MayAck(r)
     THEN Ack(r.of.pkt)
     ELSE UNCHANGED <<session, acked>>
  /\ UNCHANGED <<link, backlog, sent, lost, pc, connected, connectedOnce, generation,
                 halted, queue, archived, rejected, boundVars>>

\* poll(0) returns when no report is left; flush(1) returns then or after a second.
EndServing ==
  /\ \/ pc = "polling" /\ reports = {}
     \/ pc = "flushing"
  /\ pc' = "idle"
  /\ UNCHANGED <<brokerVars, ownerVars, kafkaVars, boundVars>>

-----------------------------------------------------------------------------
(* The end of a process and the next one                                   *)

\* KeyboardInterrupt in loop_forever: main()'s finally clause drains.
Interrupt ==
  /\ pc = "idle"
  /\ stops < MaxStops
  /\ stops' = stops + 1
  /\ pc' = "draining"
  /\ UNCHANGED <<brokerVars, ownerVars, kafkaVars, drops, failures>>

\* The memory of the process is gone, the producer queue with it.
Gone ==
  /\ pc' = "stopped"
  /\ link' = FALSE
  /\ connected' = FALSE
  /\ connectedOnce' = FALSE
  /\ generation' = 1
  /\ ready' = TRUE
  /\ halted' = FALSE
  /\ pending' = {}
  /\ pendingRecords' = 0
  /\ pendingBytes' = 0
  /\ queue' = {}
  /\ reports' = {}
  /\ UNCHANGED <<backlog, session, sent, acked, lost, archived, rejected>>

\* shutdown() waits and flush(10) serves, both with a deadline, then disconnect().
FinishDrain ==
  /\ pc = "draining"
  /\ Gone
  /\ UNCHANGED boundVars

Crash ==
  /\ pc # "stopped"
  /\ stops < MaxStops
  /\ stops' = stops + 1
  /\ Gone
  /\ UNCHANGED <<drops, failures>>

Restart ==
  /\ pc = "stopped"
  /\ pc' = "idle"
  /\ UNCHANGED <<brokerVars, ownerVars, kafkaVars, boundVars>>

-----------------------------------------------------------------------------
OnMessageQos1(p, m) ==
  \/ IgnorePlatform(p, m)
  \/ Refuse(p, m)
  \/ Exclude(p, m)
  \/ HaltShard(p, m)
  \/ NoBudget(p, m)
  \/ BufferFull(p, m)
  \/ Admit(p, m)

OnMessageQos0(m) == DropQos0(m) \/ PublishQos0(m) \/ Qos0BufferError(m)

Next ==
  \/ Connect \/ NetworkDrop \/ OnDisconnect
  \/ \E p \in Packets, m \in Messages : OnMessageQos1(p, m)
  \/ \E m \in Messages : OnMessageQos0(m)
  \/ \E d \in queue : KafkaAccept(d) \/ KafkaFail(d)
  \/ \E r \in reports : ServeQos0(r) \/ CompleteDelivery(r)
  \/ EndServing
  \/ Interrupt \/ FinishDrain \/ Crash \/ Restart

Spec == Init /\ [][Next]_vars

-----------------------------------------------------------------------------
(* Fairness: the network thread runs, the broker keeps sending on a live   *)
(* connection, Kafka reports every record within delivery.timeout.ms, and  *)
(* Compose restarts a stopped process.  Nothing promises that connections  *)
(* drop, that a process stops or that Kafka fails.                         *)

DeliverQos1(m) == \E p \in Packets : OnMessageQos1(p, m)
KafkaReports == \E d \in queue : KafkaAccept(d) \/ KafkaFail(d)
ServesReport == \E r \in reports : ServeQos0(r) \/ CompleteDelivery(r)

Fairness ==
  /\ WF_vars(Connect)
  /\ WF_vars(OnDisconnect)
  /\ \A m \in Messages : SF_vars(DeliverQos1(m)) /\ SF_vars(OnMessageQos0(m))
  /\ WF_vars(KafkaReports)
  /\ SF_vars(ServesReport)
  /\ WF_vars(EndServing)
  /\ WF_vars(FinishDrain)
  /\ WF_vars(Restart)

FairSpec == Spec /\ Fairness

-----------------------------------------------------------------------------
(* Properties                                                              *)

\* The deliveries of a bounded run: one generation per connection loss at most.
Deliveries ==
  [msg : Messages, gen : 1 .. MaxDrops + 1, pkt : Packets \cup {NoPacket}]

Outstanding == queue \cup {r.of : r \in reports}

BooleansOK ==
  /\ link \in BOOLEAN
  /\ connected \in BOOLEAN
  /\ connectedOnce \in BOOLEAN
  /\ ready \in BOOLEAN
  /\ halted \in BOOLEAN

DataOK ==
  /\ backlog \subseteq Messages
  /\ session \in [Packets -> Messages \cup {NoMsg}]
  /\ sent \subseteq Packets
  /\ acked \subseteq Messages
  /\ lost \subseteq Messages
  /\ pc \in {"idle", "polling", "flushing", "draining", "stopped"}
  /\ generation \in Nat
  /\ pending \subseteq Delivery
  /\ pendingRecords \in Nat
  /\ pendingBytes \in Int
  /\ queue \subseteq Delivery
  /\ reports \subseteq Report
  /\ archived \subseteq Messages
  /\ rejected \subseteq Messages
  /\ drops \in Nat /\ stops \in Nat /\ failures \in Nat

\* Every variable has its type: the record counter never goes below zero, tokens
\* name a packet of the window or none.
TypeOK == BooleansOK /\ DataOK

\* A PUBACK is never sent for a message that is neither in its Kafka topic nor
\* excluded by its route: complete_delivery and _release_without_publish are the
\* only acknowledgments, and a reused packet identifier must not be acknowledged
\* by the delivery of the message that held it on an earlier connection.
AckedIsDurable == \A m \in acked : Kind[m] = "excluded" \/ Stored(m)

\* A pending delivery of the current connection still owns its packet identifier:
\* the broker has not freed it nor given it to another message.
PendingOwnsPacket ==
  \A d \in pending :
    d.gen = generation => d.pkt \in sent /\ session[d.pkt] = d.msg

\* The pending set holds exactly the QoS 1 deliveries whose report is still to be
\* served, whatever happened to their connection: no budget leaks, none is freed
\* early.
PendingIsOutstanding == pending = {d \in Outstanding : d.pkt # NoPacket}

\* pending_records and pending_bytes account for _pending exactly, through
\* roll-backs and failures, and stay within the configured limits.
RecordBudget ==
  /\ pendingRecords = Cardinality(pending)
  /\ pendingRecords <= PendingRecordLimit

\* The bytes of pending deliveries, each one an element.
Octets(deliveries) == UNION {{d} \X (1 .. Size[d.msg]) : d \in deliveries}

ByteBudget ==
  /\ pendingBytes = Cardinality(Octets(pending))
  /\ pendingBytes <= PendingByteLimit

BudgetExact == RecordBudget /\ ByteBudget

\* An oversize message halts the shard visibly and is never acknowledged: while the
\* shard is halted the broker still holds such a message, unless it lost the session.
HaltedHoldsMessage ==
  halted =>
    /\ ~ready
    /\ \E m \in InFlight \cup lost : Kind[m] = "unarchivable"

\* The owner's books balance: what it counts is what it owes, and what it refused for
\* good is still at the broker.
BooksBalance == BudgetExact /\ HaltedHoldsMessage

\* The shard implements the durable hand-off of QoS 1 messages.
Handoff == INSTANCE DurableHandoff WITH
  Messages <- Qos1Messages,
  Exempt <- {m \in Qos1Messages : Kind[m] = "excluded"},
  owed <- (backlog \cup InFlight) \cap Qos1Messages,
  durable <- (archived \cup rejected) \cap Qos1Messages,
  released <- acked

ImplementsHandoff == Handoff!Spec

\* With traffic that keeps arriving (and so keeps poll() being called), a Kafka
\* that accepts and budgets that suffice, every QoS 1 message is stored and then
\* acknowledged, unless the broker itself lost it.
EveryMessageReleased ==
  \A m \in Qos1Messages :
    Kind[m] \in {"event", "invalid", "excluded"} => <>(m \in acked \cup lost)

=============================================================================
