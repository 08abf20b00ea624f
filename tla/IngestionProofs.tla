--------------------------- MODULE IngestionProofs ---------------------------
(***************************************************************************)
(* What an ingestion shard guarantees for every set of messages, every     *)
(* window and every limit.  The argument: a delivery whose report is still *)
(* to be served and that belongs to the current connection owns its packet *)
(* identifier (OwnsPacket), and a positive report exists only for a stored *)
(* message (ReportedIsStored); so the message an acknowledgment releases   *)
(* is the message that was stored.  No delivery is counted twice           *)
(* (OneReport), which is what makes the first fact survive the next use of *)
(* the identifier.                                                         *)
(***************************************************************************)
EXTENDS Ingestion, FiniteSetTheorems, TLAPS

\* Every QoS 1 delivery is waiting for Kafka or for a poll, never both.
OneReport ==
  /\ \A r \in reports : r.of.pkt # NoPacket => r.of \notin queue
  /\ \A r, s \in reports : r.of = s.of /\ r.of.pkt # NoPacket => r = s

\* What the token of an outstanding delivery is worth.
OwnsPacket ==
  \A d \in Outstanding :
    /\ d.gen <= generation
    /\ d.pkt # NoPacket => Qos[d.msg] = 1
    /\ d.pkt # NoPacket /\ d.gen = generation =>
         d.pkt \in sent /\ session[d.pkt] = d.msg

ReportedIsStored == \A r \in reports : r.ok => Stored(r.of.msg)

\* Before its first connection a process has produced nothing.
NothingYet ==
  /\ connected => connectedOnce
  /\ ~connectedOnce => Outstanding = {}

\* Only QoS 1 messages are acknowledged or occupy the window.
WindowIsQos1 ==
  /\ \A p \in Packets : session[p] # NoMsg => Qos[session[p]] = 1
  /\ \A m \in acked : Qos[m] = 1

CoreInv ==
  /\ IsFiniteSet(pending)
  /\ RecordBudget
  /\ PendingIsOutstanding
  /\ OneReport
  /\ OwnsPacket
  /\ ReportedIsStored
  /\ NothingYet
  /\ WindowIsQos1
  /\ AckedIsDurable

IndInv == TypeOK /\ CoreInv

-----------------------------------------------------------------------------
\* The fresh process satisfies the invariant.
LEMMA InitInv == Init => IndInv
<1> SUFFICES ASSUME Init PROVE IndInv
  OBVIOUS
<1>1. TypeOK
  <2>1. link \in BOOLEAN /\ connected \in BOOLEAN /\ connectedOnce \in BOOLEAN
        /\ ready \in BOOLEAN /\ halted \in BOOLEAN
    BY DEF Init
  <2>2. session \in [Packets -> Messages \cup {NoMsg}]
    BY DEF Init
  <2>3. generation \in Nat /\ pendingRecords \in Nat /\ pendingBytes \in Int
        /\ drops \in Nat /\ stops \in Nat /\ failures \in Nat
    BY DEF Init
  <2>4. /\ backlog \subseteq Messages /\ sent \subseteq Packets /\ acked \subseteq Messages
        /\ lost \subseteq Messages /\ pending \subseteq Delivery /\ queue \subseteq Delivery
        /\ reports \subseteq Report /\ archived \subseteq Messages
        /\ rejected \subseteq Messages
    BY DEF Init
  <2>5. pc \in {"idle", "polling", "flushing", "draining", "stopped"}
    BY DEF Init
  <2> QED BY <2>1, <2>2, <2>3, <2>4, <2>5 DEF TypeOK, BooleansOK, DataOK
<1>2. IsFiniteSet(pending) /\ RecordBudget
  BY FS_EmptySet, LimitsAssumption DEF Init, RecordBudget
<1>3. PendingIsOutstanding /\ OneReport /\ OwnsPacket /\ ReportedIsStored /\ NothingYet
  BY DEF Init, PendingIsOutstanding, OneReport, OwnsPacket, ReportedIsStored,
         NothingYet, Outstanding
<1>4. WindowIsQos1 /\ AckedIsDurable
  BY DEF Init, WindowIsQos1, AckedIsDurable
<1> QED BY <1>1, <1>2, <1>3, <1>4 DEF IndInv, CoreInv
-----------------------------------------------------------------------------
\* Steps that touch neither the window, the deliveries nor the topics.
LEMMA FrameStep ==
  ASSUME CoreInv,
         UNCHANGED <<session, sent, acked, generation, connectedOnce, pending,
                     pendingRecords, queue, reports, archived, rejected>>,
         connected' => connectedOnce
  PROVE  CoreInv'
<1>1. Outstanding' = Outstanding
  BY DEF Outstanding
<1>2. \A m \in Messages : Stored(m)' <=> Stored(m)
  BY DEF Stored
<1>3. (IsFiniteSet(pending) /\ RecordBudget /\ PendingIsOutstanding)'
  BY <1>1 DEF CoreInv, RecordBudget, PendingIsOutstanding
<1>4. (OneReport /\ OwnsPacket /\ NothingYet /\ WindowIsQos1)'
  BY <1>1 DEF CoreInv, OneReport, OwnsPacket, NothingYet, WindowIsQos1
<1>5. (ReportedIsStored /\ AckedIsDurable)'
  BY <1>2 DEF CoreInv, ReportedIsStored, AckedIsDurable, Stored
<1> QED BY <1>3, <1>4, <1>5 DEF CoreInv

\* The identifier a message arrives under has no outstanding delivery of the
\* current connection: it was free, or not yet sent on this connection.
LEMMA ReceivedIsFresh ==
  ASSUME DataOK, CoreInv, NEW p \in Packets, NEW m \in Messages, Receive(p, m)
  PROVE  \A d \in Outstanding : d.pkt = p => d.gen # generation
<1> SUFFICES ASSUME NEW d \in Outstanding, d.pkt = p, d.gen = generation
             PROVE  FALSE
  OBVIOUS
<1>1. p # NoPacket
  BY LimitsAssumption DEF Packets, NoPacket
<1>2. p \in sent /\ session[p] = d.msg
  BY <1>1 DEF CoreInv, OwnsPacket
<1>3. d.msg \in Messages
  BY DEF DataOK, Outstanding, Delivery, Report
<1>4. d.msg # NoMsg
  BY <1>3, MessagesAssumption
<1> QED BY <1>2, <1>4 DEF Receive

\* A message that is received and then left alone only takes its identifier.
LEMMA ReceivedStep ==
  ASSUME DataOK, CoreInv, NEW p \in Packets, NEW m \in Messages, Receive(p, m),
         session' = [session EXCEPT ![p] = m],
         UNCHANGED <<acked, connected, generation, connectedOnce, pending,
                     pendingRecords, queue, reports, archived, rejected>>
  PROVE  CoreInv'
<1>1. Outstanding' = Outstanding
  BY DEF Outstanding
<1>2. (IsFiniteSet(pending) /\ RecordBudget /\ PendingIsOutstanding /\ OneReport
        /\ NothingYet)'
  BY <1>1 DEF CoreInv, RecordBudget, PendingIsOutstanding, OneReport, NothingYet
<1>3. (ReportedIsStored /\ AckedIsDurable)'
  BY DEF CoreInv, ReportedIsStored, AckedIsDurable, Stored
<1>4. WindowIsQos1'
  BY DEF Receive, DataOK, CoreInv, WindowIsQos1
<1>5. OwnsPacket'
  <2> SUFFICES ASSUME NEW d \in Outstanding
               PROVE  /\ d.gen <= generation
                      /\ d.pkt # NoPacket => Qos[d.msg] = 1
                      /\ d.pkt # NoPacket /\ d.gen = generation =>
                           d.pkt \in sent' /\ session'[d.pkt] = d.msg
    BY <1>1 DEF OwnsPacket
  <2>1. d.gen <= generation /\ (d.pkt # NoPacket => Qos[d.msg] = 1)
    BY DEF CoreInv, OwnsPacket
  <2>2. ASSUME d.pkt # NoPacket, d.gen = generation
        PROVE  d.pkt \in sent' /\ session'[d.pkt] = d.msg
    <3>1. d.pkt \in sent /\ session[d.pkt] = d.msg
      BY <2>2 DEF CoreInv, OwnsPacket
    <3>2. d.pkt # p
      BY <2>2, ReceivedIsFresh
    <3> QED BY <3>1, <3>2 DEF Receive, DataOK
  <2> QED BY <2>1, <2>2
<1> QED BY <1>2, <1>3, <1>4, <1>5 DEF CoreInv

\* An admitted message becomes one more outstanding delivery that owns its identifier.
LEMMA AdmitStep ==
  ASSUME DataOK, CoreInv, NEW p \in Packets, NEW m \in Messages, Admit(p, m)
  PROVE  CoreInv' /\ pendingRecords' \in Nat
<1> DEFINE d == [msg |-> m, gen |-> generation, pkt |-> p]
<1>1. Receive(p, m) /\ session' = [session EXCEPT ![p] = m]
  BY DEF Admit
<1>2. /\ pending' = pending \cup {d}
      /\ pendingRecords' = pendingRecords + 1
      /\ queue' = queue \cup {d}
      /\ pendingRecords + 1 <= PendingRecordLimit
      /\ UNCHANGED <<acked, connected, generation, connectedOnce, reports, archived,
                     rejected>>
  BY DEF Admit, HasCapacity
<1>3. p # NoPacket
  BY LimitsAssumption DEF Packets, NoPacket
<1>4. d \notin Outstanding
  BY <1>1, ReceivedIsFresh
<1>5. Outstanding' = Outstanding \cup {d}
  BY <1>2 DEF Outstanding
<1>6. IsFiniteSet(pending')
  BY <1>2, FS_AddElement DEF CoreInv
<1>7. RecordBudget' /\ pendingRecords' \in Nat
  <2>1. d \notin pending
    BY <1>4 DEF CoreInv, PendingIsOutstanding
  <2>2. Cardinality(pending') = Cardinality(pending) + 1
    BY <2>1, <1>2, FS_AddElement DEF CoreInv
  <2> QED BY <2>2, <1>2 DEF CoreInv, RecordBudget, DataOK
<1>8. PendingIsOutstanding'
  BY <1>2, <1>3, <1>5 DEF CoreInv, PendingIsOutstanding
<1>9. OneReport'
  BY <1>2, <1>4 DEF CoreInv, OneReport, Outstanding
<1>10. (ReportedIsStored /\ AckedIsDurable)'
  BY <1>2 DEF CoreInv, ReportedIsStored, AckedIsDurable, Stored
<1>11. WindowIsQos1'
  BY <1>1, <1>2 DEF Receive, DataOK, CoreInv, WindowIsQos1
<1>12. OwnsPacket'
  <2> SUFFICES ASSUME NEW e \in Outstanding'
               PROVE  /\ e.gen <= generation
                      /\ e.pkt # NoPacket => Qos[e.msg] = 1
                      /\ e.pkt # NoPacket /\ e.gen = generation =>
                           e.pkt \in sent' /\ session'[e.pkt] = e.msg
    BY <1>2 DEF OwnsPacket
  <2>1. CASE e = d
    BY <2>1, <1>1 DEF Receive, DataOK
  <2>2. CASE e # d
    <3>1. e \in Outstanding
      BY <2>2, <1>5
    <3>2. e.gen <= generation /\ (e.pkt # NoPacket => Qos[e.msg] = 1)
      BY <3>1 DEF CoreInv, OwnsPacket
    <3>3. ASSUME e.pkt # NoPacket, e.gen = generation
          PROVE  e.pkt \in sent' /\ session'[e.pkt] = e.msg
      <4>1. e.pkt \in sent /\ session[e.pkt] = e.msg
        BY <3>1, <3>3 DEF CoreInv, OwnsPacket
      <4>2. e.pkt # p
        BY <3>1, <3>3, <1>1, ReceivedIsFresh
      <4> QED BY <4>1, <4>2, <1>1 DEF Receive, DataOK
    <3> QED BY <3>2, <3>3
  <2> QED BY <2>1, <2>2
<1>13. NothingYet'
  <2>1. connected /\ connectedOnce
    BY <1>1 DEF Receive, CoreInv, NothingYet
  <2> QED BY <2>1, <1>2 DEF NothingYet
<1> QED BY <1>6, <1>7, <1>8, <1>9, <1>10, <1>11, <1>12, <1>13 DEF CoreInv

\* Kafka moves a delivery from the producer queue to the reports; only a positive
\* verdict needs the message to be stored.
LEMMA KafkaStep ==
  ASSUME DataOK, CoreInv, NEW d \in queue, NEW ok \in BOOLEAN,
         queue' = queue \ {d},
         reports' = reports \cup {[of |-> d, ok |-> ok]},
         archived \subseteq archived', rejected \subseteq rejected',
         ok => Stored(d.msg)',
         UNCHANGED <<session, sent, acked, connected, generation, connectedOnce,
                     pending, pendingRecords>>
  PROVE  CoreInv'
<1>1. Outstanding' = Outstanding
  <2>1. PICK n : n.of = d /\ reports' = reports \cup {n}
    BY Zenon
  <2>2. {r.of : r \in reports'} = {r.of : r \in reports} \cup {d}
    BY <2>1
  <2> QED BY <2>2 DEF Outstanding
<1>2. (IsFiniteSet(pending) /\ RecordBudget /\ PendingIsOutstanding /\ OwnsPacket
        /\ NothingYet /\ WindowIsQos1)'
  BY <1>1 DEF CoreInv, RecordBudget, PendingIsOutstanding, OwnsPacket, NothingYet,
              WindowIsQos1
<1>3. OneReport'
  BY DEF CoreInv, OneReport
<1>4. \A m \in Messages : Stored(m) => Stored(m)'
  BY DEF Stored
<1>5. AckedIsDurable'
  BY <1>4 DEF CoreInv, AckedIsDurable, DataOK
<1>6. ReportedIsStored'
  BY <1>4 DEF CoreInv, ReportedIsStored, DataOK, Report, Delivery
<1> QED BY <1>2, <1>3, <1>5, <1>6 DEF CoreInv

\* A QoS 0 record holds no budget and no identifier: its report just disappears.
LEMMA Qos0Step ==
  ASSUME DataOK, CoreInv,
         pending' = pending,
         \A d \in Delivery : d.pkt # NoPacket => (d \in Outstanding' <=> d \in Outstanding),
         \A d \in Outstanding' : d.pkt = NoPacket => d.gen <= generation,
         DataOK', OneReport', ReportedIsStored', connectedOnce,
         UNCHANGED <<session, sent, acked, connected, generation, connectedOnce,
                     pendingRecords, archived, rejected>>
  PROVE  CoreInv'
<1>1. \A d \in Outstanding' : d \in Delivery
  BY DEF Outstanding, DataOK, Report
<1>2. \A d \in Outstanding : d \in Delivery
  BY DEF Outstanding, DataOK, Report
<1>3. (IsFiniteSet(pending) /\ RecordBudget /\ PendingIsOutstanding)'
  BY <1>1, <1>2 DEF CoreInv, RecordBudget, PendingIsOutstanding
<1>4. OwnsPacket'
  BY <1>1 DEF CoreInv, OwnsPacket
<1>5. (NothingYet /\ WindowIsQos1)'
  BY DEF CoreInv, NothingYet, WindowIsQos1
<1>6. AckedIsDurable'
  BY DEF CoreInv, AckedIsDurable, Stored
<1> QED BY <1>3, <1>4, <1>5, <1>6 DEF CoreInv

\* Serving a report returns its budget and, if the token is current and the
\* delivery succeeded, releases the message it was about and no other.
LEMMA CompleteStep ==
  ASSUME DataOK, CoreInv, NEW r \in reports, CompleteDelivery(r)
  PROVE  CoreInv' /\ pendingRecords' \in Nat
<1> DEFINE d == r.of
<1>1. d \in Outstanding /\ d.pkt # NoPacket /\ d \in Delivery
  BY DEF CompleteDelivery, Outstanding, DataOK, Report
<1>2. /\ reports' = reports \ {r}
      /\ pending' = pending \ {d}
      /\ pendingRecords' = pendingRecords - 1
      /\ UNCHANGED <<sent, connected, connectedOnce, generation, queue, archived, rejected>>
  BY DEF CompleteDelivery, Unpend
<1>3. d \in pending
  BY <1>1 DEF CoreInv, PendingIsOutstanding
<1>4. Outstanding' = Outstanding \ {d}
  BY <1>1, <1>2 DEF Outstanding, CoreInv, OneReport
<1>5. IsFiniteSet(pending') /\ Cardinality(pending') = Cardinality(pending) - 1
  BY <1>2, <1>3, FS_RemoveElement DEF CoreInv
<1>6. RecordBudget' /\ pendingRecords' \in Nat
  <2>1. Cardinality(pending') \in Nat
    BY <1>5, FS_CardinalityType
  <2> QED BY <2>1, <1>2, <1>5, LimitsAssumption DEF CoreInv, RecordBudget, DataOK
<1>7. PendingIsOutstanding' /\ OneReport' /\ ReportedIsStored' /\ NothingYet'
  BY <1>2, <1>4 DEF CoreInv, PendingIsOutstanding, OneReport, ReportedIsStored,
                    NothingYet, Stored
<1>8. CASE UNCHANGED <<session, acked>>
  <2>1. OwnsPacket' /\ WindowIsQos1' /\ AckedIsDurable'
    BY <1>2, <1>4, <1>8 DEF CoreInv, OwnsPacket, WindowIsQos1, AckedIsDurable, Stored
  <2> QED BY <2>1, <1>5, <1>6, <1>7 DEF CoreInv
<1>9. CASE ~UNCHANGED <<session, acked>>
  <2>1. r.ok /\ d.gen = generation
    BY <1>9 DEF CompleteDelivery, MayAck
  <2>2. /\ session' = [session EXCEPT ![d.pkt] = NoMsg]
        /\ acked' = acked \cup {session[d.pkt]}
    BY <1>9 DEF CompleteDelivery, Ack
  <2>3. session[d.pkt] = d.msg /\ Qos[d.msg] = 1 /\ d.pkt \in Packets
    BY <1>1, <2>1 DEF CoreInv, OwnsPacket, DataOK, Delivery
  <2>4. Stored(d.msg) /\ d.msg \in Messages
    BY <2>1, <1>1 DEF CoreInv, ReportedIsStored, Delivery
  <2>5. AckedIsDurable'
    BY <2>2, <2>3, <2>4, <1>2 DEF CoreInv, AckedIsDurable, Stored
  <2>6. WindowIsQos1'
    BY <2>2, <2>3 DEF CoreInv, WindowIsQos1, DataOK
  <2>7. OwnsPacket'
    <3> SUFFICES ASSUME NEW e \in Outstanding, e # d,
                        e.pkt # NoPacket, e.gen = generation
                 PROVE  e.pkt \in sent /\ session'[e.pkt] = e.msg
      BY <1>2, <1>4 DEF CoreInv, OwnsPacket
    <3>1. e.pkt \in sent /\ session[e.pkt] = e.msg
      BY DEF CoreInv, OwnsPacket
    <3>2. e \in Delivery
      BY DEF Outstanding, DataOK, Report
    <3>3. e.pkt # d.pkt
      BY <3>1, <3>2, <2>1, <2>3, <1>1 DEF Delivery
    <3> QED BY <3>1, <3>2, <3>3, <2>2 DEF DataOK, Delivery
  <2> QED BY <2>5, <2>6, <2>7, <1>5, <1>6, <1>7 DEF CoreInv
<1> QED BY <1>8, <1>9

\* A new connection starts a generation no outstanding delivery belongs to.
LEMMA ConnectStep ==
  ASSUME DataOK, BooleansOK, CoreInv, Connect
  PROVE  CoreInv'
<1>1. Outstanding' = Outstanding
  BY DEF Connect, kafkaVars, Outstanding
<1>2. (IsFiniteSet(pending) /\ RecordBudget /\ PendingIsOutstanding /\ OneReport)'
  BY <1>1 DEF Connect, kafkaVars, CoreInv, RecordBudget, PendingIsOutstanding, OneReport
<1>3. (ReportedIsStored /\ AckedIsDurable)'
  BY DEF Connect, kafkaVars, CoreInv, ReportedIsStored, AckedIsDurable, Stored
<1>4. NothingYet'
  BY DEF Connect, NothingYet
<1>5. WindowIsQos1'
  BY DEF Connect, CoreInv, WindowIsQos1
<1>6. OwnsPacket'
  <2>1. CASE Outstanding = {}
    BY <2>1, <1>1 DEF OwnsPacket
  <2>2. CASE connectedOnce
    <3>1. generation' = generation + 1
      BY <2>2 DEF Connect, NextGeneration
    <3>2. \A d \in Outstanding : d.gen \in Nat /\ d.gen <= generation
      BY DEF CoreInv, OwnsPacket, Outstanding, DataOK, Report, Delivery
    <3> QED BY <1>1, <3>1, <3>2 DEF CoreInv, OwnsPacket, DataOK
  <2> QED BY <2>1, <2>2 DEF CoreInv, NothingYet
<1> QED BY <1>2, <1>3, <1>4, <1>5, <1>6 DEF CoreInv

\* The next process starts with nothing pending.
LEMMA GoneStep ==
  ASSUME CoreInv, Gone
  PROVE  CoreInv'
<1>1. Outstanding' = {}
  BY DEF Gone, Outstanding
<1>2. IsFiniteSet(pending') /\ RecordBudget'
  BY FS_EmptySet, LimitsAssumption DEF Gone, RecordBudget
<1>3. (PendingIsOutstanding /\ OneReport /\ OwnsPacket /\ ReportedIsStored /\ NothingYet)'
  BY <1>1 DEF Gone, PendingIsOutstanding, OneReport, OwnsPacket, ReportedIsStored,
              NothingYet
<1>4. (WindowIsQos1 /\ AckedIsDurable)'
  BY DEF Gone, CoreInv, WindowIsQos1, AckedIsDurable, Stored
<1> QED BY <1>2, <1>3, <1>4 DEF CoreInv

\* A QoS 0 record enters the producer queue.
LEMMA PublishQos0Step ==
  ASSUME DataOK, CoreInv, NEW m \in Messages, PublishQos0(m)
  PROVE  DataOK' /\ CoreInv'
<1> DEFINE d == [msg |-> m, gen |-> generation, pkt |-> NoPacket]
<1>1. d \in Delivery
  BY DEF DataOK, Delivery
<1>2. /\ queue' = queue \cup {d}
      /\ connected
      /\ UNCHANGED <<session, sent, acked, lost, ownerVars, reports, archived, rejected,
                     boundVars>>
      /\ backlog' \subseteq backlog
      /\ pc' = "polling"
  BY DEF PublishQos0, Receive0
<1>3. DataOK'
  BY <1>1, <1>2 DEF DataOK, ownerVars, boundVars
<1>4. Outstanding' = Outstanding \cup {d}
  BY <1>2 DEF Outstanding
<1>5. OneReport' /\ ReportedIsStored'
  BY <1>2 DEF CoreInv, OneReport, ReportedIsStored, Stored
<1>6. connectedOnce
  BY <1>2 DEF CoreInv, NothingYet
<1>7. /\ \A e \in Delivery : e.pkt # NoPacket => (e \in Outstanding' <=> e \in Outstanding)
      /\ \A e \in Outstanding' : e.pkt = NoPacket => e.gen <= generation
  BY <1>4 DEF CoreInv, OwnsPacket, DataOK
<1> QED BY <1>2, <1>3, <1>5, <1>6, <1>7, Qos0Step DEF ownerVars

\* The report of a QoS 0 record is served.
LEMMA ServeQos0Step ==
  ASSUME DataOK, CoreInv, NEW r \in reports, ServeQos0(r)
  PROVE  DataOK' /\ CoreInv'
<1>1. /\ reports' = reports \ {r}
      /\ r.of.pkt = NoPacket
      /\ UNCHANGED <<brokerVars, pc, ownerVars, queue, archived, rejected, boundVars>>
  BY DEF ServeQos0
<1>2. DataOK'
  BY <1>1 DEF DataOK, brokerVars, ownerVars, boundVars
<1>3. OneReport' /\ ReportedIsStored'
  BY <1>1 DEF CoreInv, OneReport, ReportedIsStored, Stored
<1>4. /\ \A e \in Delivery : e.pkt # NoPacket => (e \in Outstanding' <=> e \in Outstanding)
      /\ \A e \in Outstanding' : e \in Outstanding
  BY <1>1 DEF Outstanding
<1>5. \A e \in Outstanding' : e.pkt = NoPacket => e.gen <= generation
  BY <1>4 DEF CoreInv, OwnsPacket
<1>6. connectedOnce
  BY DEF CoreInv, NothingYet, Outstanding
<1> QED BY <1>1, <1>2, <1>3, <1>4, <1>5, <1>6, Qos0Step DEF ownerVars, brokerVars

\* Every message that is received without being produced or released.
LEMMA QuietReceiveStep ==
  ASSUME DataOK, CoreInv, NEW p \in Packets, NEW m \in Messages,
         \/ IgnorePlatform(p, m) \/ Refuse(p, m) \/ HaltShard(p, m)
         \/ NoBudget(p, m) \/ BufferFull(p, m)
  PROVE  DataOK' /\ CoreInv'
<1>1. /\ Receive(p, m)
      /\ session' = [session EXCEPT ![p] = m]
      /\ pc' \in {"polling", pc}
      /\ UNCHANGED <<acked, lost, connected, generation, connectedOnce, pending,
                     pendingRecords, pendingBytes, kafkaVars, boundVars>>
  <2>1. CASE IgnorePlatform(p, m)
    BY <2>1 DEF IgnorePlatform, ownerVars
  <2>2. CASE Refuse(p, m)
    BY <2>2 DEF Refuse, ownerVars
  <2>3. CASE HaltShard(p, m)
    BY <2>3 DEF HaltShard
  <2>4. CASE NoBudget(p, m)
    BY <2>4 DEF NoBudget, MarkBackpressure
  <2>5. CASE BufferFull(p, m)
    BY <2>5 DEF BufferFull, MarkBackpressure
  <2> QED BY <2>1, <2>2, <2>3, <2>4, <2>5
<1>2. DataOK'
  BY <1>1 DEF Receive, DataOK, kafkaVars, boundVars
<1>3. CoreInv'
  BY <1>1, ReceivedStep DEF kafkaVars
<1> QED BY <1>2, <1>3

\* An excluded message is released at once; its identifier had no delivery.
LEMMA ExcludeStep ==
  ASSUME DataOK, CoreInv, NEW p \in Packets, NEW m \in Messages, Exclude(p, m)
  PROVE  DataOK' /\ CoreInv'
<1>1. /\ Receive(p, m)
      /\ Kind[m] = "excluded"
      /\ session' = [session EXCEPT ![p] = NoMsg]
      /\ acked' = acked \cup {m}
      /\ pc' = "polling"
      /\ UNCHANGED <<lost, ownerVars, kafkaVars, boundVars>>
  BY DEF Exclude
<1>2. DataOK'
  BY <1>1 DEF Receive, DataOK, ownerVars, kafkaVars, boundVars
<1>3. Outstanding' = Outstanding
  BY <1>1 DEF Outstanding, kafkaVars
<1>4. (IsFiniteSet(pending) /\ RecordBudget /\ PendingIsOutstanding /\ OneReport
        /\ NothingYet /\ ReportedIsStored)'
  BY <1>1, <1>3 DEF ownerVars, kafkaVars, CoreInv, RecordBudget, PendingIsOutstanding,
                    OneReport, NothingYet, ReportedIsStored, Stored
<1>5. AckedIsDurable'
  BY <1>1 DEF kafkaVars, CoreInv, AckedIsDurable, Stored
<1>6. WindowIsQos1'
  BY <1>1 DEF Receive, DataOK, CoreInv, WindowIsQos1
<1>7. OwnsPacket'
  <2> SUFFICES ASSUME NEW d \in Outstanding, d.pkt # NoPacket, d.gen = generation
               PROVE  d.pkt \in sent' /\ session'[d.pkt] = d.msg
    BY <1>1, <1>3 DEF CoreInv, OwnsPacket, ownerVars
  <2>1. d.pkt \in sent /\ session[d.pkt] = d.msg
    BY DEF CoreInv, OwnsPacket
  <2>2. d.pkt # p
    BY <1>1, ReceivedIsFresh
  <2> QED BY <2>1, <2>2, <1>1 DEF Receive, DataOK
<1> QED BY <1>2, <1>4, <1>5, <1>6, <1>7 DEF CoreInv

\* Steps of the thread and the network that leave deliveries and window alone.
LEMMA QuietStep ==
  ASSUME DataOK, CoreInv,
         \/ NetworkDrop \/ OnDisconnect \/ EndServing \/ Interrupt \/ Restart
         \/ \E m \in Messages : DropQos0(m) \/ Qos0BufferError(m)
         \/ UNCHANGED vars
  PROVE  DataOK' /\ CoreInv'
<1>1. /\ backlog' \subseteq backlog
      /\ pc' \in {"idle", "polling", "flushing", "draining", pc}
      /\ connected' \in {FALSE, connected}
      /\ drops' \in Nat /\ stops' \in Nat /\ failures' \in Nat
      /\ UNCHANGED <<session, sent, acked, lost, generation, connectedOnce, pending,
                     pendingRecords, pendingBytes, queue, reports, archived, rejected>>
  <2>1. CASE NetworkDrop
    BY <2>1 DEF NetworkDrop, ownerVars, kafkaVars, DataOK
  <2>2. CASE OnDisconnect
    BY <2>2 DEF OnDisconnect, brokerVars, kafkaVars, boundVars, DataOK
  <2>3. CASE EndServing
    BY <2>3 DEF EndServing, brokerVars, ownerVars, kafkaVars, boundVars, DataOK
  <2>4. CASE Interrupt
    BY <2>4 DEF Interrupt, brokerVars, ownerVars, kafkaVars, DataOK
  <2>5. CASE Restart
    BY <2>5 DEF Restart, brokerVars, ownerVars, kafkaVars, boundVars, DataOK
  <2>6. CASE \E m \in Messages : DropQos0(m)
    BY <2>6 DEF DropQos0, Receive0, ownerVars, kafkaVars, boundVars, DataOK
  <2>7. CASE \E m \in Messages : Qos0BufferError(m)
    BY <2>7 DEF Qos0BufferError, Receive0, ownerVars, kafkaVars, DataOK
  <2>8. CASE UNCHANGED vars
    BY <2>8 DEF vars, brokerVars, ownerVars, kafkaVars, boundVars, DataOK
  <2> QED BY <2>1, <2>2, <2>3, <2>4, <2>5, <2>6, <2>7, <2>8
<1>2. DataOK'
  BY <1>1 DEF DataOK
<1>3. connected' => connectedOnce
  BY <1>1 DEF CoreInv, NothingYet
<1> QED BY <1>1, <1>2, <1>3, FrameStep

\* The flags stay Boolean.
LEMMA BooleanStep ==
  ASSUME DataOK, BooleansOK, [Next]_vars
  PROVE  BooleansOK'
<1>1. link' \in {TRUE, FALSE, link} /\ connected' \in {TRUE, FALSE, connected}
  BY ZenonT(40) DEF Next, vars, brokerVars, ownerVars, Connect, NetworkDrop, OnDisconnect,
    OnMessageQos1, IgnorePlatform, Refuse, Exclude, HaltShard, NoBudget, BufferFull,
    MarkBackpressure, Admit, OnMessageQos0, DropQos0, PublishQos0, Qos0BufferError,
    KafkaAccept, KafkaFail, ServeQos0, CompleteDelivery, EndServing, Interrupt,
    FinishDrain, Gone, Crash, Restart
<1>2. connectedOnce' \in {TRUE, FALSE, connectedOnce} /\ halted' \in {TRUE, FALSE, halted}
  BY ZenonT(40) DEF Next, vars, brokerVars, ownerVars, Connect, NetworkDrop, OnDisconnect,
    OnMessageQos1, IgnorePlatform, Refuse, Exclude, HaltShard, NoBudget, BufferFull,
    MarkBackpressure, Admit, OnMessageQos0, DropQos0, PublishQos0, Qos0BufferError,
    KafkaAccept, KafkaFail, ServeQos0, CompleteDelivery, EndServing, Interrupt,
    FinishDrain, Gone, Crash, Restart
<1>3. ready' \in {TRUE, FALSE, ready}
  <2>1. CASE \E r \in reports : CompleteDelivery(r)
    BY <2>1, Zenon DEF CompleteDelivery, BooleansOK
  <2>2. CASE ~\E r \in reports : CompleteDelivery(r)
    BY <2>2, ZenonT(40) DEF Next, vars, brokerVars, ownerVars, Connect, NetworkDrop, OnDisconnect,
      OnMessageQos1, IgnorePlatform, Refuse, Exclude, HaltShard, NoBudget, BufferFull,
      MarkBackpressure, Admit, OnMessageQos0, DropQos0, PublishQos0, Qos0BufferError,
      KafkaAccept, KafkaFail, ServeQos0, EndServing, Interrupt, FinishDrain, Gone, Crash,
      Restart
  <2> QED BY <2>1, <2>2
<1> QED BY <1>1, <1>2, <1>3, Zenon DEF BooleansOK

\* Each step of the shard, and stuttering, preserves the invariant.
LEMMA NextInv == IndInv /\ [Next]_vars => IndInv'
<1> SUFFICES ASSUME IndInv, [Next]_vars PROVE IndInv'
  OBVIOUS
<1>1. BooleansOK /\ DataOK /\ CoreInv
  BY DEF IndInv, TypeOK
<1>2. BooleansOK'
  BY <1>1, BooleanStep
<1>3. CASE Connect
  <2>1. DataOK'
    BY <1>1, <1>3 DEF Connect, NextGeneration, DataOK, InFlight, kafkaVars, boundVars
  <2> QED BY <1>1, <1>2, <1>3, <2>1, ConnectStep DEF IndInv, TypeOK
<1>4. CASE \/ NetworkDrop \/ OnDisconnect \/ EndServing \/ Interrupt \/ Restart
           \/ \E m \in Messages : DropQos0(m) \/ Qos0BufferError(m)
           \/ UNCHANGED vars
  BY <1>1, <1>2, <1>4, QuietStep DEF IndInv, TypeOK
<1>5. ASSUME NEW p \in Packets, NEW m \in Messages, OnMessageQos1(p, m)
      PROVE  IndInv'
  <2>1. CASE \/ IgnorePlatform(p, m) \/ Refuse(p, m) \/ HaltShard(p, m)
             \/ NoBudget(p, m) \/ BufferFull(p, m)
    BY <1>1, <1>2, <2>1, QuietReceiveStep DEF IndInv, TypeOK
  <2>2. CASE Exclude(p, m)
    BY <1>1, <1>2, <2>2, ExcludeStep DEF IndInv, TypeOK
  <2>3. CASE Admit(p, m)
    <3>1. CoreInv' /\ pendingRecords' \in Nat
      BY <1>1, <2>3, AdmitStep
    <3>2. DataOK'
      BY <1>1, <2>3, <3>1, MessagesAssumption
      DEF Admit, Receive, DataOK, Delivery, boundVars
    <3> QED BY <1>2, <3>1, <3>2 DEF IndInv, TypeOK
  <2> QED BY <1>5, <2>1, <2>2, <2>3 DEF OnMessageQos1
<1>6. ASSUME NEW m \in Messages, PublishQos0(m) PROVE IndInv'
  BY <1>1, <1>2, <1>6, PublishQos0Step DEF IndInv, TypeOK
<1>7. ASSUME NEW d \in queue, KafkaAccept(d) \/ KafkaFail(d) PROVE IndInv'
  <2>1. d \in Delivery /\ d.msg \in Messages
    BY <1>1 DEF DataOK, Delivery
  <2>2. PICK ok \in BOOLEAN : /\ reports' = reports \cup {[of |-> d, ok |-> ok]}
                              /\ ok => Stored(d.msg)'
    BY <1>7 DEF KafkaAccept, KafkaFail, Store, Stored
  <2>3. /\ queue' = queue \ {d}
        /\ archived \subseteq archived' /\ archived' \subseteq archived \cup {d.msg}
        /\ rejected \subseteq rejected' /\ rejected' \subseteq rejected \cup {d.msg}
        /\ failures' \in {failures, failures + 1}
        /\ UNCHANGED <<brokerVars, pc, ownerVars, drops, stops>>
    BY <1>7 DEF KafkaAccept, KafkaFail, Store, boundVars
  <2>4. [of |-> d, ok |-> ok] \in Report
    BY <2>1 DEF Report
  <2>5. DataOK'
    BY <1>1, <2>1, <2>2, <2>3, <2>4 DEF DataOK, brokerVars, ownerVars
  <2>6. CoreInv'
    BY <1>1, <2>2, <2>3, KafkaStep DEF brokerVars, ownerVars
  <2> QED BY <1>2, <2>5, <2>6 DEF IndInv, TypeOK
<1>8. ASSUME NEW r \in reports, ServeQos0(r) PROVE IndInv'
  BY <1>1, <1>2, <1>8, ServeQos0Step DEF IndInv, TypeOK
<1>9. ASSUME NEW r \in reports, CompleteDelivery(r) PROVE IndInv'
  <2>1. CoreInv' /\ pendingRecords' \in Nat
    BY <1>1, <1>9, CompleteStep
  <2>2. r.of \in Delivery /\ r.of.pkt \in Packets /\ Size[r.of.msg] \in Nat
    BY <1>1, <1>9, MessagesAssumption DEF CompleteDelivery, DataOK, Report, Delivery
  <2>3. session' \in [Packets -> Messages \cup {NoMsg}]
    BY <1>1, <1>9 DEF CompleteDelivery, Ack, DataOK
  <2>4. acked' \subseteq Messages
    <3>1. CASE acked' = acked
      BY <1>1, <3>1 DEF DataOK
    <3>2. CASE acked' # acked
      <4>1. r.of.gen = generation /\ acked' = acked \cup {session[r.of.pkt]}
        BY <1>9, <3>2 DEF CompleteDelivery, MayAck, Ack
      <4>2. r.of \in Outstanding /\ r.of.pkt # NoPacket
        BY <1>9 DEF Outstanding, CompleteDelivery
      <4>3. session[r.of.pkt] = r.of.msg
        BY <1>1, <4>1, <4>2 DEF CoreInv, OwnsPacket
      <4> QED BY <1>1, <2>2, <4>1, <4>3 DEF DataOK, Delivery
    <3> QED BY <3>1, <3>2
  <2>5. DataOK'
    BY <1>1, <1>9, <2>1, <2>2, <2>3, <2>4 DEF CompleteDelivery, Unpend, DataOK, boundVars
  <2> QED BY <1>2, <2>1, <2>5 DEF IndInv, TypeOK
<1>10. CASE FinishDrain \/ Crash
  <2>1. Gone
    BY <1>10 DEF FinishDrain, Crash
  <2>2. CoreInv'
    BY <1>1, <2>1, GoneStep
  <2>3. drops' \in Nat /\ stops' \in Nat /\ failures' \in Nat
    BY <1>1, <1>10 DEF FinishDrain, Crash, boundVars, DataOK
  <2>4. DataOK'
    BY <1>1, <2>1, <2>3 DEF Gone, DataOK
  <2> QED BY <1>2, <2>2, <2>4 DEF IndInv, TypeOK
<1> QED
  BY <1>3, <1>4, <1>5, <1>6, <1>7, <1>8, <1>9, <1>10 DEF Next, OnMessageQos0

-----------------------------------------------------------------------------
(* Theorems                                                                *)

\* The strengthened invariant holds in every state an ingestion shard can reach.
THEOREM Inductive == Spec => []IndInv
BY InitInv, NextInv, PTL DEF Spec

\* Every variable keeps its type; in particular pending_records never goes below
\* zero, whatever mix of roll-backs, failures and stale completions happens.
THEOREM TypeCorrect == Spec => []TypeOK
<1>1. IndInv => TypeOK
  BY DEF IndInv
<1> QED BY <1>1, Inductive, PTL

\* IngestionOwner acknowledges a QoS 1 message only if it is in the Kafka topic it
\* belongs to or its route excludes it from history.
THEOREM AckedDurable == Spec => []AckedIsDurable
<1>1. IndInv => AckedIsDurable
  BY DEF IndInv, CoreInv
<1> QED BY <1>1, Inductive, PTL

\* The token of a pending delivery of the current connection names a packet
\* identifier that still belongs to its message.
THEOREM PendingOwns == Spec => []PendingOwnsPacket
<1>1. IndInv => PendingOwnsPacket
  BY DEF IndInv, CoreInv, PendingOwnsPacket, PendingIsOutstanding, OwnsPacket
<1> QED BY <1>1, Inductive, PTL

\* _pending never leaks a delivery and never forgets one before its report.
THEOREM PendingExact == Spec => []PendingIsOutstanding
<1>1. IndInv => PendingIsOutstanding
  BY DEF IndInv, CoreInv
<1> QED BY <1>1, Inductive, PTL

\* pending_records is the size of _pending and stays within its limit.
THEOREM RecordBudgetExact == Spec => []RecordBudget
<1>1. IndInv => RecordBudget
  BY DEF IndInv, CoreInv
<1> QED BY <1>1, Inductive, PTL

-----------------------------------------------------------------------------
(* The books of the owner balance                                          *)

\* A delivery that is not counted yet adds its size.
LEMMA OctetsAdded ==
  ASSUME NEW D, NEW d, d \notin D, Size[d.msg] \in Nat, IsFiniteSet(Octets(D))
  PROVE  /\ IsFiniteSet(Octets(D \cup {d}))
         /\ Cardinality(Octets(D \cup {d})) = Cardinality(Octets(D)) + Size[d.msg]
<1>1. PICK n \in Nat : n = Size[d.msg]
  OBVIOUS
<1> DEFINE New == {d} \X (1 .. n)
<1>2. Octets(D \cup {d}) = Octets(D) \cup New /\ Octets(D) \cap New = {}
  BY <1>1 DEF Octets
<1>3. IsFiniteSet(1 .. n) /\ Cardinality(1 .. n) = n
  <2> HIDE DEF New
  <2>1. 1 \in Int /\ n \in Int
    OBVIOUS
  <2>2. /\ IsFiniteSet(1 .. n)
        /\ Cardinality(1 .. n) = IF 1 > n THEN 0 ELSE n - 1 + 1
    BY <2>1, FS_Interval
  <2>3. (1 > n => n = 0) /\ n - 1 + 1 = n
    OBVIOUS
  <2> QED BY <2>2, <2>3
<1>4. IsFiniteSet({d}) /\ Cardinality({d}) = 1
  BY FS_Singleton
<1>5. IsFiniteSet(New) /\ Cardinality(New) = 1 * n
  <2> DEFINE bytes == 1 .. n
  <2> HIDE DEF bytes
  <2>1. /\ IsFiniteSet({d} \X bytes)
        /\ Cardinality({d} \X bytes) = Cardinality({d}) * Cardinality(bytes)
    BY <1>3, <1>4, FS_Product DEF bytes
  <2>2. New = {d} \X bytes /\ Cardinality({d}) = 1 /\ Cardinality(bytes) = n
    BY <1>3, <1>4 DEF bytes
  <2> QED BY <2>1, <2>2
<1>6. Cardinality(Octets(D)) \in Nat
  BY FS_CardinalityType
<1> HIDE DEF New
<1>7. /\ IsFiniteSet(Octets(D) \cup New)
      /\ Cardinality(Octets(D) \cup New)
           = Cardinality(Octets(D)) + Cardinality(New) - Cardinality(Octets(D) \cap New)
  BY <1>5, FS_Union
<1>8. Cardinality(Octets(D) \cap New) = 0
  BY <1>2, FS_EmptySet
<1>9. Cardinality(Octets(D) \cup New) = Cardinality(Octets(D)) + n
  BY <1>5, <1>6, <1>7, <1>8
<1> QED BY <1>1, <1>2, <1>7, <1>9

\* Reservation, completion and the death of a process are the only steps that move
\* the counters, and each moves both counters with _pending.
BytesInv == IsFiniteSet(Octets(pending)) /\ ByteBudget

LEMMA BytesStep ==
  ASSUME IndInv, BytesInv, [Next]_vars
  PROVE  BytesInv'
<1>1. DataOK /\ CoreInv
  BY DEF IndInv, TypeOK
<1>2. ASSUME NEW p \in Packets, NEW m \in Messages, Admit(p, m) PROVE BytesInv'
  <2> DEFINE d == [msg |-> m, gen |-> generation, pkt |-> p]
  <2>1. /\ pending' = pending \cup {d}
        /\ pendingBytes' = pendingBytes + Size[m]
        /\ pendingBytes + Size[m] <= PendingByteLimit
        /\ Receive(p, m)
    BY <1>2 DEF Admit, HasCapacity
  <2>2. p # NoPacket /\ d.msg = m /\ d.pkt = p /\ d.gen = generation
    BY LimitsAssumption DEF Packets, NoPacket
  <2>3. d \notin Outstanding
    BY <1>1, <2>1, <2>2, ReceivedIsFresh
  <2>4. d \notin pending /\ Size[d.msg] \in Nat
    BY <1>1, <2>2, <2>3, MessagesAssumption DEF CoreInv, PendingIsOutstanding
  <2> HIDE DEF d
  <2>5. /\ IsFiniteSet(Octets(pending \cup {d}))
        /\ Cardinality(Octets(pending \cup {d})) = Cardinality(Octets(pending)) + Size[d.msg]
    BY <2>4, OctetsAdded DEF BytesInv
  <2>6. Octets(pending)' = Octets(pending \cup {d})
    BY <2>1 DEF Octets
  <2> QED BY <2>1, <2>2, <2>5, <2>6 DEF BytesInv, ByteBudget
<1>3. ASSUME NEW r \in reports, CompleteDelivery(r) PROVE BytesInv'
  <2> DEFINE d == r.of
             Rest == pending \ {d}
  <2>1. /\ pending' = Rest
        /\ pendingBytes' = pendingBytes - Size[d.msg]
        /\ d \in pending
    BY <1>1, <1>3 DEF CompleteDelivery, Unpend, CoreInv, PendingIsOutstanding, Outstanding
  <2>2. Size[d.msg] \in Nat
    BY <1>1, <2>1, MessagesAssumption DEF DataOK, Delivery
  <2>3. Octets(Rest) \in SUBSET Octets(pending) /\ pending = Rest \cup {d} /\ d \notin Rest
    BY <2>1 DEF Octets
  <2> HIDE DEF d, Rest
  <2>4. IsFiniteSet(Octets(Rest))
    BY <2>3, FS_Subset DEF BytesInv
  <2>5. Cardinality(Octets(Rest \cup {d})) = Cardinality(Octets(Rest)) + Size[d.msg]
    BY <2>2, <2>3, <2>4, OctetsAdded
  <2>6. Cardinality(Octets(Rest)) \in Nat
    BY <2>4, FS_CardinalityType
  <2>7. Octets(pending)' = Octets(Rest) /\ Octets(pending) = Octets(Rest \cup {d})
    BY <2>1, <2>3 DEF Octets
  <2>8. PendingByteLimit \in Nat
    BY LimitsAssumption
  <2> QED BY <2>1, <2>2, <2>4, <2>5, <2>6, <2>7, <2>8 DEF BytesInv, ByteBudget
<1>4. CASE Gone
  <2>1. Octets(pending)' = {} /\ pendingBytes' = 0
    BY <1>4 DEF Gone, Octets
  <2> QED BY <2>1, FS_EmptySet, LimitsAssumption DEF BytesInv, ByteBudget
<1>5. CASE UNCHANGED <<pending, pendingBytes>>
  BY <1>5 DEF BytesInv, ByteBudget, Octets
<1>6. \/ UNCHANGED <<pending, pendingBytes>>
      \/ Gone
      \/ \E p \in Packets, m \in Messages : Admit(p, m)
      \/ \E r \in reports : CompleteDelivery(r)
  BY ZenonT(40) DEF Next, vars, ownerVars, Connect, NetworkDrop, OnDisconnect, OnMessageQos1,
    IgnorePlatform, Refuse, Exclude, HaltShard, NoBudget, BufferFull, OnMessageQos0,
    DropQos0, PublishQos0, Qos0BufferError, KafkaAccept, KafkaFail, ServeQos0,
    EndServing, Interrupt, FinishDrain, Crash, Restart
<1> QED BY <1>2, <1>3, <1>4, <1>5, <1>6

\* Only what may be archived or rejected is ever produced, so that no completion can
\* acknowledge the message a halted shard has refused.
OnlyAdmitted == \A d \in Outstanding : Kind[d.msg] \in {"event", "invalid"}

HaltInv == OnlyAdmitted /\ HaltedHoldsMessage

LEMMA OnlyAdmittedStep ==
  ASSUME IndInv, OnlyAdmitted, [Next]_vars
  PROVE  OnlyAdmitted'
<1>1. ASSUME NEW p \in Packets, NEW m \in Messages, Admit(p, m) PROVE OnlyAdmitted'
  <2>1. Outstanding' = Outstanding \cup {[msg |-> m, gen |-> generation, pkt |-> p]}
        /\ Kind[m] \in {"event", "invalid"}
    BY <1>1 DEF Admit, Outstanding
  <2> QED BY <2>1 DEF OnlyAdmitted
<1>2. ASSUME NEW m \in Messages, PublishQos0(m) PROVE OnlyAdmitted'
  <2>1. Outstanding' = Outstanding \cup {[msg |-> m, gen |-> generation, pkt |-> NoPacket]}
        /\ Kind[m] \in {"event", "invalid"}
    BY <1>2 DEF PublishQos0, Admissible0, Outstanding
  <2> QED BY <2>1 DEF OnlyAdmitted
<1>3. CASE Gone
  BY <1>3 DEF Gone, Outstanding, OnlyAdmitted
<1>4. ASSUME NEW d \in queue, KafkaAccept(d) \/ KafkaFail(d) PROVE OnlyAdmitted'
  <2>1. PICK n : n.of = d /\ reports' = reports \cup {n} /\ queue' = queue \ {d}
    <3>1. CASE KafkaAccept(d)
      BY <3>1 DEF KafkaAccept
    <3>2. CASE KafkaFail(d)
      BY <3>2 DEF KafkaFail
    <3> QED BY <1>4, <3>1, <3>2
  <2>2. \A e \in Outstanding' : e \in Outstanding
    BY <2>1 DEF Outstanding
  <2> QED BY <2>2 DEF OnlyAdmitted
<1>5. CASE queue' \subseteq queue /\ reports' \subseteq reports
  BY <1>5 DEF Outstanding, OnlyAdmitted
<1>6. \/ queue' \subseteq queue /\ reports' \subseteq reports
      \/ Gone
      \/ \E p \in Packets, m \in Messages : Admit(p, m)
      \/ \E m \in Messages : PublishQos0(m)
      \/ \E d \in queue : KafkaAccept(d) \/ KafkaFail(d)
  BY ZenonT(40) DEF Next, vars, ownerVars, kafkaVars, Connect, NetworkDrop, OnDisconnect,
    OnMessageQos1, IgnorePlatform, Refuse, Exclude, HaltShard, NoBudget, BufferFull,
    MarkBackpressure, OnMessageQos0, DropQos0, Qos0BufferError, ServeQos0,
    CompleteDelivery, EndServing, Interrupt, FinishDrain, Crash, Restart
<1> QED BY <1>1, <1>2, <1>3, <1>4, <1>5, <1>6

\* A message that halted the shard: the broker holds it or has lost it.
Refused == {m \in InFlight \cup lost : Kind[m] = "unarchivable"}

LEMMA RefusedKept ==
  ASSUME IndInv, OnlyAdmitted, [Next]_vars
  PROVE  Refused \subseteq Refused'
<1>1. DataOK /\ CoreInv /\ lost \subseteq lost'
  <2>1. lost' = lost \/ lost' = lost \cup InFlight
    BY ZenonT(40) DEF Next, vars, brokerVars, Connect, NetworkDrop, OnDisconnect, OnMessageQos1,
      IgnorePlatform, Refuse, Exclude, HaltShard, NoBudget, BufferFull, MarkBackpressure,
      Admit, OnMessageQos0, DropQos0, PublishQos0, Qos0BufferError, KafkaAccept, KafkaFail,
      ServeQos0, CompleteDelivery, EndServing, Interrupt, FinishDrain, Gone, Crash, Restart
  <2> QED BY <2>1 DEF IndInv, TypeOK
<1> SUFFICES ASSUME NEW n \in Messages, Kind[n] = "unarchivable",
                    NEW q \in Packets, session[q] = n
             PROVE  n \in lost' \/ session'[q] = n
  BY <1>1 DEF Refused, InFlight, IndInv, TypeOK, DataOK
<1>2. n # NoMsg /\ n \in InFlight
  BY MessagesAssumption DEF InFlight
<1>3. ASSUME NEW p \in Packets, NEW m \in Messages, Receive(p, m),
             \/ session' = [session EXCEPT ![p] = m]
             \/ Kind[m] = "excluded" /\ session' = [session EXCEPT ![p] = NoMsg]
      PROVE  session'[q] = n
  BY <1>1, <1>2, <1>3 DEF Receive, DataOK
<1>4. ASSUME NEW r \in reports, CompleteDelivery(r) PROVE session'[q] = n
  <2>1. CASE UNCHANGED session
    BY <2>1
  <2>2. CASE ~UNCHANGED session
    <3>1. session' = [session EXCEPT ![r.of.pkt] = NoMsg] /\ r.of.gen = generation
      BY <1>4, <2>2 DEF CompleteDelivery, MayAck, Ack
    <3>2. r.of \in Outstanding /\ r.of.pkt # NoPacket
      BY <1>4 DEF CompleteDelivery, Outstanding
    <3>3. session[r.of.pkt] = r.of.msg /\ Kind[r.of.msg] # "unarchivable"
      BY <1>1, <3>1, <3>2 DEF CoreInv, OwnsPacket, OnlyAdmitted
    <3>4. q # r.of.pkt
      BY <3>3
    <3> QED BY <1>1, <3>1, <3>4 DEF DataOK
  <2> QED BY <2>1, <2>2
<1>5. CASE Connect
  BY <1>2, <1>5 DEF Connect
<1>6. CASE UNCHANGED session
  BY <1>6
<1>7. \/ UNCHANGED session
      \/ Connect
      \/ \E r \in reports : CompleteDelivery(r)
      \/ \E p \in Packets, m \in Messages : Exclude(p, m)
      \/ \E p \in Packets, m \in Messages :
           Receive(p, m) /\ session' = [session EXCEPT ![p] = m]
  BY ZenonT(40) DEF Next, vars, brokerVars, NetworkDrop, OnDisconnect, OnMessageQos1,
    IgnorePlatform, Refuse, HaltShard, NoBudget, BufferFull, MarkBackpressure, Admit,
    OnMessageQos0, DropQos0, PublishQos0, Qos0BufferError, KafkaAccept, KafkaFail,
    ServeQos0, EndServing, Interrupt, FinishDrain, Gone, Crash, Restart
<1> QED BY <1>3, <1>4, <1>5, <1>6, <1>7 DEF Exclude

\* The shard halts over the message it has just received; only the next process is
\* ready again.
LEMMA HaltStep ==
  ASSUME IndInv, HaltInv, [Next]_vars
  PROVE  HaltInv'
<1>1. OnlyAdmitted' /\ Refused \subseteq Refused'
  BY OnlyAdmittedStep, RefusedKept DEF HaltInv
<1>2. ASSUME NEW p \in Packets, NEW m \in Messages, HaltShard(p, m)
      PROVE  ~ready' /\ Refused' # {}
  <2>1. session' = [session EXCEPT ![p] = m] /\ Kind[m] = "unarchivable" /\ ~ready'
    BY <1>2 DEF HaltShard
  <2>2. m \in InFlight'
    BY <2>1 DEF IndInv, TypeOK, DataOK, InFlight
  <2> QED BY <2>1, <2>2 DEF Refused
<1>3. \/ ~halted'
      \/ halted /\ (ready' => ready)
      \/ \E p \in Packets, m \in Messages : HaltShard(p, m)
  BY ZenonT(40) DEF Next, vars, ownerVars, Connect, NetworkDrop, OnDisconnect, OnMessageQos1,
    IgnorePlatform, Refuse, Exclude, NoBudget, BufferFull, MarkBackpressure, Admit,
    OnMessageQos0, DropQos0, PublishQos0, Qos0BufferError, KafkaAccept, KafkaFail,
    ServeQos0, CompleteDelivery, EndServing, Interrupt, FinishDrain, Gone, Crash, Restart
<1>4. (halted => ~ready /\ Refused # {})'
  BY <1>1, <1>2, <1>3 DEF HaltInv, HaltedHoldsMessage, Refused
<1> QED BY <1>1, <1>4 DEF HaltInv, HaltedHoldsMessage, Refused

\* The counters of the owner are the number and the bytes of its pending deliveries,
\* within their limits, and a halted shard still has the message that halted it with
\* the broker: for any messages, sizes, limits, losses and failures.
THEOREM BooksAlwaysBalance == Spec => []BooksBalance
<1> DEFINE Books == IndInv /\ BytesInv /\ HaltInv
<1>1. Init => Books
  <2> SUFFICES ASSUME Init PROVE BytesInv /\ HaltInv
    BY InitInv
  <2>1. Octets(pending) = {} /\ pendingBytes = 0 /\ Outstanding = {} /\ ~halted
    BY DEF Init, Octets, Outstanding
  <2> QED BY <2>1, FS_EmptySet, LimitsAssumption
          DEF BytesInv, ByteBudget, HaltInv, OnlyAdmitted, HaltedHoldsMessage
<1>2. Books /\ [Next]_vars => Books'
  BY NextInv, BytesStep, HaltStep
<1>3. Books => BooksBalance
  BY DEF BytesInv, HaltInv, IndInv, CoreInv, BooksBalance, BudgetExact
<1> QED BY <1>1, <1>2, <1>3, PTL DEF Spec

-----------------------------------------------------------------------------
(* The shard implements the abstract hand-off                              *)

\* What the refinement mapping makes of the shard's state.
owedNow == (backlog \cup InFlight) \cap Qos1Messages
durableNow == (archived \cup rejected) \cap Qos1Messages

\* The broker holds a message in one place: its backlog or one packet identifier.
OneHolder ==
  /\ backlog \cap InFlight = {}
  /\ \A p, q \in Packets : session[p] # NoMsg /\ session[p] = session[q] => p = q

HandInv == IndInv /\ OneHolder

\* A message that is received is owed as before.
LEMMA TakenStep ==
  ASSUME DataOK, OneHolder, NEW p \in Packets, NEW m \in Messages, Receive(p, m),
         session' = [session EXCEPT ![p] = m]
  PROVE  OneHolder' /\ owedNow' = owedNow
<1>1. m \in backlog \cup InFlight
  BY DEF Receive, InFlight
<1>2. InFlight' = InFlight \cup {m}
  BY MessagesAssumption DEF Receive, InFlight, DataOK
<1>3. backlog' = backlog \ {m}
  BY DEF Receive
<1>4. owedNow' = owedNow
  BY <1>1, <1>2, <1>3 DEF owedNow, Qos1Messages
<1>5. \A q \in Packets : q # p => session[q] # m
  BY MessagesAssumption DEF Receive, OneHolder, InFlight, DataOK
<1>6. OneHolder'
  BY <1>2, <1>3, <1>5 DEF OneHolder, DataOK
<1> QED BY <1>4, <1>6

\* A message that is released is no longer owed, and no other one is.
LEMMA FreedStep ==
  ASSUME DataOK, OneHolder, NEW p \in Packets, NEW m \in Qos1Messages,
         \/ session[p] = m
         \/ session[p] = NoMsg /\ m \in backlog,
         backlog' = backlog \ {m},
         session' = [session EXCEPT ![p] = NoMsg]
  PROVE  OneHolder' /\ m \in owedNow /\ owedNow' = owedNow \ {m}
<1>1. m \in Messages /\ m # NoMsg
  BY MessagesAssumption DEF Qos1Messages
<1>2. m \in owedNow
  BY <1>1 DEF owedNow, InFlight
<1>3. InFlight' = InFlight \ {m}
  <2>1. CASE session[p] = m
    BY <1>1, <2>1, MessagesAssumption DEF InFlight, OneHolder, DataOK
  <2>2. CASE session[p] = NoMsg /\ m \in backlog
    BY <1>1, <2>2, MessagesAssumption DEF InFlight, OneHolder, DataOK
  <2> QED BY <2>1, <2>2
<1>4. owedNow' = owedNow \ {m}
  BY <1>3 DEF owedNow, Qos1Messages
<1>5. OneHolder'
  BY <1>3 DEF OneHolder, DataOK
<1> QED BY <1>2, <1>4, <1>5

\* Every step that leaves the window alone: nothing becomes owed again.
LEMMA KeptStep ==
  ASSUME OneHolder, UNCHANGED session, backlog' \subseteq backlog,
         backlog \ backlog' \subseteq {m \in Messages : Qos[m] = 0}
  PROVE  OneHolder' /\ owedNow' = owedNow
BY DEF OneHolder, owedNow, InFlight, Qos1Messages

HopStep == [Handoff!Next]_(Handoff!vars)

\* A step of the shard that changes nothing the hand-off speaks of.
LEMMA StutterStep ==
  ASSUME owedNow' = owedNow, durableNow' = durableNow, acked' = acked
  PROVE  HopStep
BY DEF HopStep, Handoff!vars, owedNow, durableNow

\* An acknowledgment is a Release of the hand-off.
LEMMA ReleasingStep ==
  ASSUME NEW m \in Qos1Messages, m \in owedNow, owedNow' = owedNow \ {m},
         m \in durableNow \/ Kind[m] = "excluded",
         acked' = acked \cup {m}, durableNow' = durableNow
  PROVE  HopStep
<1>1. Handoff!Release({m})
  BY DEF Handoff!Release, owedNow, durableNow
<1>2. {m} \in SUBSET Qos1Messages
  OBVIOUS
<1> QED BY <1>1, <1>2 DEF HopStep, Handoff!Next

\* The messages a QoS 0 step takes from the backlog were never owed.
LEMMA Qos0Owes ==
  ASSUME DataOK, NEW m \in Messages, Receive0(m)
  PROVE  backlog' \subseteq backlog /\ backlog \ backlog' \subseteq {x \in Messages : Qos[x] = 0}
BY DEF Receive0, DataOK

\* What Kafka does to the topics is a Persist of the hand-off, or nothing to it.
LEMMA TopicStep ==
  ASSUME DataOK, NEW m \in Messages,
         Store(m) \/ UNCHANGED <<archived, rejected>>,
         owedNow' = owedNow, acked' = acked
  PROVE  HopStep
<1>1. CASE UNCHANGED <<archived, rejected>>
  BY <1>1, StutterStep DEF durableNow
<1>2. CASE Store(m) /\ Qos[m] = 1
  <2>1. m \in Qos1Messages
    BY <1>2 DEF Qos1Messages
  <2>2. durableNow' = durableNow \cup {m}
    BY <1>2, <2>1 DEF Store, durableNow
  <2>3. Handoff!Persist({m})
    BY <2>2 DEF Handoff!Persist, owedNow, durableNow
  <2>4. {m} \in SUBSET Qos1Messages
    BY <2>1
  <2> QED BY <2>3, <2>4 DEF HopStep, Handoff!Next
<1>3. CASE Store(m) /\ Qos[m] # 1
  <2>1. durableNow' = durableNow
    BY <1>3 DEF Store, durableNow, Qos1Messages
  <2> QED BY <2>1, StutterStep
<1> QED BY <1>1, <1>2, <1>3

\* Each step of the shard is a step of the hand-off or a stutter of it.
LEMMA HandStep ==
  ASSUME HandInv, IndInv', [Next]_vars
  PROVE  OneHolder' /\ HopStep
<1>1. DataOK /\ CoreInv /\ OneHolder
  BY DEF HandInv, IndInv, TypeOK
<1>2. CASE Connect
  <2>1. /\ backlog' = backlog
        /\ UNCHANGED <<acked, archived, rejected>>
    BY <1>2 DEF Connect, kafkaVars
  <2>2. durableNow' = durableNow
    BY <2>1 DEF durableNow
  <2>3. CASE UNCHANGED session
    <3>1. OneHolder' /\ owedNow' = owedNow
      BY <1>1, <2>1, <2>3, KeptStep
    <3> QED BY <2>1, <2>2, <3>1, StutterStep
  <2>4. CASE session' = [q \in Packets |-> NoMsg]
    <3>1. InFlight' = {}
      BY <2>4, MessagesAssumption DEF InFlight
    <3>2. OneHolder'
      BY <2>1, <2>4, <3>1 DEF OneHolder
    <3>3. owedNow' = owedNow \ (InFlight \cap Qos1Messages)
      BY <1>1, <2>1, <3>1 DEF owedNow, OneHolder
    <3>4. Handoff!Forget(InFlight \cap Qos1Messages)
      BY <2>1, <2>2, <3>3 DEF Handoff!Forget, owedNow, durableNow
    <3>5. InFlight \cap Qos1Messages \in SUBSET owedNow
      BY DEF owedNow
    <3>6. Handoff!Next
      BY <3>4, <3>5 DEF Handoff!Next, owedNow
    <3> QED BY <3>2, <3>6 DEF HopStep
  <2> QED BY <1>2, <2>3, <2>4 DEF Connect
<1>3. CASE \/ NetworkDrop \/ OnDisconnect \/ EndServing \/ Interrupt \/ Restart
           \/ FinishDrain \/ Crash \/ UNCHANGED vars
  <2>1. UNCHANGED <<backlog, session, acked, archived, rejected>>
    BY <1>3 DEF NetworkDrop, OnDisconnect, EndServing, Interrupt, Restart, FinishDrain,
                Crash, Gone, vars, brokerVars, kafkaVars
  <2>2. OneHolder' /\ owedNow' = owedNow
    BY <1>1, <2>1, KeptStep
  <2>3. durableNow' = durableNow
    BY <2>1 DEF durableNow
  <2> QED BY <2>1, <2>2, <2>3, StutterStep
<1>4. ASSUME NEW p \in Packets, NEW m \in Messages, OnMessageQos1(p, m)
      PROVE  OneHolder' /\ HopStep
  <2>1. /\ Receive(p, m)
        /\ UNCHANGED <<archived, rejected>>
    BY <1>4 DEF OnMessageQos1, IgnorePlatform, Refuse, Exclude, HaltShard, NoBudget,
                BufferFull, MarkBackpressure, Admit, kafkaVars
  <2>2. durableNow' = durableNow
    BY <2>1 DEF durableNow
  <2>3. CASE Exclude(p, m)
    <3>1. /\ session' = [session EXCEPT ![p] = NoMsg]
          /\ acked' = acked \cup {m}
          /\ Kind[m] = "excluded"
      BY <2>3 DEF Exclude
    <3>2. /\ m \in Qos1Messages
          /\ backlog' = backlog \ {m}
          /\ session[p] = m \/ (session[p] = NoMsg /\ m \in backlog)
      BY <2>1 DEF Receive, Qos1Messages
    <3>3. OneHolder' /\ m \in owedNow /\ owedNow' = owedNow \ {m}
      BY <1>1, <3>1, <3>2, FreedStep
    <3> QED BY <2>2, <3>1, <3>2, <3>3, ReleasingStep
  <2>4. CASE ~Exclude(p, m)
    <3>1. session' = [session EXCEPT ![p] = m] /\ acked' = acked
      BY <1>4, <2>4 DEF OnMessageQos1, IgnorePlatform, Refuse, HaltShard, NoBudget,
                BufferFull, MarkBackpressure, Admit
    <3>2. OneHolder' /\ owedNow' = owedNow
      BY <1>1, <2>1, <3>1, TakenStep
    <3> QED BY <2>2, <3>1, <3>2, StutterStep
  <2> QED BY <2>3, <2>4
<1>5. ASSUME NEW m \in Messages, OnMessageQos0(m)
      PROVE  OneHolder' /\ HopStep
  <2>1. Receive0(m) /\ UNCHANGED <<session, acked, archived, rejected>>
    BY <1>5 DEF OnMessageQos0, DropQos0, PublishQos0, Qos0BufferError, kafkaVars
  <2>2. OneHolder' /\ owedNow' = owedNow
    BY <1>1, <2>1, Qos0Owes, KeptStep
  <2>3. durableNow' = durableNow
    BY <2>1 DEF durableNow
  <2> QED BY <2>1, <2>2, <2>3, StutterStep
<1>6. ASSUME NEW d \in queue, KafkaAccept(d) \/ KafkaFail(d)
      PROVE  OneHolder' /\ HopStep
  <2>1. d.msg \in Messages
    BY <1>1 DEF DataOK, Delivery
  <2>2. /\ UNCHANGED <<backlog, session, acked>>
        /\ Store(d.msg) \/ UNCHANGED <<archived, rejected>>
    BY <1>6 DEF KafkaAccept, KafkaFail, brokerVars
  <2>3. OneHolder' /\ owedNow' = owedNow
    BY <1>1, <2>2, KeptStep
  <2> QED BY <1>1, <2>1, <2>2, <2>3, TopicStep
<1>7. ASSUME NEW r \in reports, ServeQos0(r) \/ CompleteDelivery(r)
      PROVE  OneHolder' /\ HopStep
  <2>1. UNCHANGED <<backlog, archived, rejected>>
    BY <1>7 DEF ServeQos0, CompleteDelivery, brokerVars
  <2>2. durableNow' = durableNow
    BY <2>1 DEF durableNow
  <2>3. CASE UNCHANGED <<session, acked>>
    <3>1. OneHolder' /\ owedNow' = owedNow
      BY <1>1, <2>1, <2>3, KeptStep
    <3> QED BY <2>2, <2>3, <3>1, StutterStep
  <2>4. CASE ~UNCHANGED <<session, acked>>
    <3> DEFINE p == r.of.pkt
    <3>1. /\ CompleteDelivery(r) /\ MayAck(r)
          /\ session' = [session EXCEPT ![p] = NoMsg]
          /\ acked' = acked \cup {session[p]}
      BY <1>7, <2>4 DEF ServeQos0, CompleteDelivery, Ack, brokerVars
    <3>2. r.of \in Outstanding /\ p # NoPacket /\ r.of.gen = generation /\ r.ok
      BY <3>1 DEF Outstanding, CompleteDelivery, MayAck
    <3>3. session[p] = r.of.msg /\ Qos[r.of.msg] = 1
      BY <1>1, <3>2 DEF CoreInv, OwnsPacket
    <3>4. r.of.msg \in Qos1Messages /\ p \in Packets
      BY <1>1, <3>2, <3>3 DEF DataOK, Report, Delivery, Qos1Messages
    <3>5. r.of.msg \in durableNow
      BY <1>1, <3>2, <3>4 DEF CoreInv, ReportedIsStored, Stored, durableNow
    <3>6. r.of.msg \in InFlight
      BY <3>3, <3>4 DEF InFlight, Qos1Messages
    <3>7. backlog' = backlog \ {r.of.msg}
      BY <1>1, <2>1, <3>6 DEF OneHolder
    <3>8. OneHolder' /\ r.of.msg \in owedNow /\ owedNow' = owedNow \ {r.of.msg}
      BY <1>1, <3>1, <3>3, <3>4, <3>7, FreedStep
    <3> QED BY <2>2, <3>1, <3>3, <3>4, <3>5, <3>8, ReleasingStep
  <2> QED BY <2>3, <2>4
<1> QED BY <1>2, <1>3, <1>4, <1>5, <1>6, <1>7 DEF Next

\* The shard implements the durable hand-off, for every window and every mix of
\* losses and failures: an acknowledgment is the only way a message leaves the
\* broker's care, and it happens only when the message is in its Kafka topic.
THEOREM Implements == Spec => ImplementsHandoff
<1>1. Init => HandInv /\ Handoff!Init
  <2> SUFFICES ASSUME Init PROVE OneHolder /\ Handoff!Init
    BY InitInv DEF HandInv
  <2>1. InFlight = {}
    BY MessagesAssumption DEF Init, InFlight
  <2>2. OneHolder
    BY <2>1 DEF Init, OneHolder
  <2>3. Handoff!Init
    BY <2>1 DEF Init, Handoff!Init, Qos1Messages
  <2> QED BY <2>2, <2>3
<1>2. HandInv /\ [Next]_vars => HandInv' /\ [Handoff!Next]_(Handoff!vars)
  BY NextInv, HandStep DEF HandInv, HopStep
<1> QED BY <1>1, <1>2, PTL DEF Spec, ImplementsHandoff, Handoff!Spec
=============================================================================
