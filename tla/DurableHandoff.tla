--------------------------- MODULE DurableHandoff ---------------------------
(***************************************************************************)
(* What one hop of the historic-event pipeline promises: a message that    *)
(* the upstream owes is released only once it is durable downstream, or    *)
(* its content exempts it from being stored.  ADR-0011 states it for the   *)
(* MQTT to Kafka hop as "Manual MQTT acknowledgment only after Kafka (or   *)
(* DLQ) delivery succeeds".                                                *)
(***************************************************************************)
CONSTANTS
  Messages,   \* everything the upstream may hand over
  Exempt      \* messages that are released without being stored

VARIABLES
  owed,       \* still held by the upstream, which will deliver it again
  durable,    \* stored downstream (at least once)
  released    \* given up by the upstream after an acknowledgment

vars == <<owed, durable, released>>

TypeOK ==
  /\ owed \subseteq Messages
  /\ durable \subseteq Messages
  /\ released \subseteq Messages

Init ==
  /\ owed = Messages
  /\ durable = {}
  /\ released = {}

\* The downstream stores messages; nothing stops it from storing one twice.
Persist(S) ==
  /\ durable' = durable \cup S
  /\ UNCHANGED <<owed, released>>

\* An acknowledgment or an offset commit gives up messages that are safe.
Release(S) ==
  /\ S \subseteq owed
  /\ S \subseteq durable \cup Exempt
  /\ owed' = owed \ S
  /\ released' = released \cup S
  /\ UNCHANGED durable

\* A downstream that keeps the position in the upstream beside the messages does
\* both in one transaction.
Accept(S, T) ==
  /\ T \subseteq owed
  /\ T \subseteq durable \cup S \cup Exempt
  /\ durable' = durable \cup S
  /\ owed' = owed \ T
  /\ released' = released \cup T

\* The upstream itself forgets messages (its session expires): outside the promise.
Forget(S) ==
  /\ owed' = owed \ S
  /\ UNCHANGED <<durable, released>>

Next ==
  \/ \E S \in SUBSET Messages : Persist(S) \/ Release(S)
  \/ \E S, T \in SUBSET Messages : Accept(S, T)
  \/ \E S \in SUBSET owed : Forget(S)

Spec == Init /\ [][Next]_vars

\* No message is both unowed-by-acknowledgment and missing downstream.
ReleasedIsDurable == released \subseteq durable \cup Exempt
=============================================================================
