----------------------------- MODULE AssetPaths -----------------------------
(* Paths of the Asset Model and topics of the namespace: sequences of segments.  *)
EXTENDS Integers, Sequences, FiniteSets, SequencesExt

PrefixesOf(path) == {SubSeq(path, 1, n) : n \in 1 .. Len(path)}
Under(path, prefix) == IsPrefix(prefix, path)

\* match_asset_path: the deepest Asset that is the topic or a prefix of it.
Best(topic, paths) ==
  LET known == PrefixesOf(topic) \intersect paths
  IN IF known = {} THEN <<>> ELSE CHOOSE p \in known : \A q \in known : Len(q) <= Len(p)
=============================================================================
