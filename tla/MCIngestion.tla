----------------------------- MODULE MCIngestion -----------------------------
(* One small shard for TLC.                                                 *)
EXTENDS Ingestion

\* An event and a rejected message that may come to share one packet identifier after
\* a lost session, a message too large for any topic, one that is not archived, one of
\* the platform and a QoS 0 event that competes for the producer queue.
MixedMessages == {"event", "invalid", "huge", "skip", "plat", "q0"}
MixedKind == [m \in MixedMessages |->
  CASE m = "invalid" -> "invalid" [] m = "huge" -> "unarchivable"
    [] m = "skip" -> "excluded" [] m = "plat" -> "platform" [] OTHER -> "event"]
MixedQos == [m \in MixedMessages |-> IF m = "q0" THEN 0 ELSE 1]
MixedSize == [m \in MixedMessages |-> IF m = "invalid" THEN 2 ELSE 1]
None == {}
=============================================================================
