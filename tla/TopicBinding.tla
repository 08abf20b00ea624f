----------------------------- MODULE TopicBinding -----------------------------
(* Topic Bindings: the derived rows that join a topic to its deepest Asset.      *)
(* An editor changes the Asset Model, binds every known topic again and sends a  *)
(* NOTIFY; the historians bind a topic when they first see it, remember that in  *)
(* an LRU and forget it on a NOTIFY.  Every statement reads one snapshot and     *)
(* commits later.  A path is a sequence of segments.                            *)
EXTENDS AssetPaths

CONSTANTS
  Historians,   \* processes with a TopicBinder
  Eager,        \* those that take messages before their listener listens
  DataTopics,       \* paths that data is published on
  Branches,     \* paths that an editor creates or deletes
  Capacity,     \* of the LRU
  MaxEdits, MaxMessages, MaxBinderFaults   \* bounds

\* TopicBinder.__init__: "capacity must be at least 1".
ASSUME CapacityAssumption == Capacity \in Nat \ {0}
ASSUME TopicsAssumption == DataTopics \subseteq Seq(STRING)

VARIABLES
  asset,     \* paths of model.asset
  topic_binding,   \* model.topic_binding: topic -> path of its Asset, or <<>> (unmodelled)
  boundBy,    \* the historian whose bind_topic wrote the row last
  editor,     \* what the editor does next
  bound,      \* per historian: the LRU of TopicBinder, oldest first
  inFlight,   \* per historian: topic -> [at, best] of the bind_topic that runs
  listener,   \* per historian: "off", "listening", or "deaf"
  notices,    \* per historian: a NOTIFY waits in its queue
  missed,     \* per historian: a NOTIFY found it not listening, and none was handled since
  overtaken,  \* per historian: topics whose bind was in flight when it forgot all
  modelEdits, stored, binderFaults

bindingVars == <<asset, topic_binding, boundBy, editor, bound, inFlight, listener, notices,
                 missed, overtaken, modelEdits, stored, binderFaults>>
assetModel == <<asset, editor, modelEdits>>
bindingRows == <<topic_binding, boundBy>>
historianState == <<bound, inFlight, listener, notices, missed, overtaken>>

\* _BEST_ASSET_SQL: the longest Asset path that is the topic or a prefix of it.
BestAsset(topic) == Best(topic, asset)

\* A table or a dictionary with one row more, or another one.
With(table, key, row) ==
  [k \in DOMAIN table \union {key} |-> IF k = key THEN row ELSE table[k]]

NoBinds == <<>>
Binds(h) == DOMAIN inFlight[h]
Remembered(h) == {bound[h][i] : i \in DOMAIN bound[h]}
LastOf(s, n) == IF Len(s) > n THEN SubSeq(s, Len(s) - n + 1, Len(s)) ELSE s
\* move_to_end: each topic is remembered once.
Refresh(s, t) ==
  IF \E i \in DOMAIN s : s[i] = t
  THEN Append(RemoveAt(s, CHOOSE i \in DOMAIN s : s[i] = t), t)
  ELSE Append(s, t)

BindingInit ==
  /\ asset \in {UNION {PrefixesOf(b) : b \in B} : B \in SUBSET Branches}
  /\ topic_binding = NoBinds /\ boundBy = NoBinds
  /\ editor = "idle"
  /\ bound = [h \in Historians |-> <<>>]
  /\ inFlight = [h \in Historians |-> NoBinds]
  /\ listener = [h \in Historians |-> "off"]
  /\ notices = [h \in Historians |-> FALSE]
  /\ missed = [h \in Historians |-> FALSE]
  /\ overtaken = [h \in Historians |-> {}]
  /\ modelEdits = 0 /\ stored = 0 /\ binderFaults = 0

------------------------------------------------------------------------------
(* The editor: ensure_branch or delete_asset, then rebind_all.                 *)

EnsureBranch(path) ==
  /\ editor = "idle" /\ modelEdits < MaxEdits
  /\ asset' = asset \union PrefixesOf(path)
  /\ editor' = "rebind" /\ modelEdits' = modelEdits + 1
  /\ UNCHANGED <<bindingRows, historianState, stored, binderFaults>>

\* The foreign key of topic_binding sets the rows of deleted Assets to null.
DeleteAsset(path) ==
  LET kept == {a \in asset : ~Under(a, path)} IN
  /\ editor = "idle" /\ modelEdits < MaxEdits
  /\ asset' = kept
  /\ topic_binding' = [t \in DOMAIN topic_binding |-> IF topic_binding[t] \in kept THEN topic_binding[t] ELSE <<>>]
  /\ editor' = "rebind" /\ modelEdits' = modelEdits + 1
  /\ UNCHANGED <<boundBy, historianState, stored, binderFaults>>

\* _REBIND_ALL_SQL: every row that exists when the statement starts.
RebindAll ==
  /\ editor = "rebind"
  /\ topic_binding' = [t \in DOMAIN topic_binding |-> BestAsset(t)]
  /\ editor' = "announce"
  /\ UNCHANGED <<asset, modelEdits, boundBy, historianState, stored, binderFaults>>

\* NOTIFY reaches the connections that listen now, and no other.
Announce ==
  /\ editor = "announce"
  /\ notices' = [h \in Historians |-> notices[h] \/ listener[h] = "listening"]
  /\ missed' = [h \in Historians |-> missed[h] \/ listener[h] # "listening"]
  /\ editor' = "idle"
  /\ UNCHANGED <<asset, modelEdits, bindingRows, bound, inFlight, listener, overtaken, stored, binderFaults>>

------------------------------------------------------------------------------
(* TopicBinder.observe of historian h.                                         *)

\* A remembered topic is moved to the end; a topic in flight is waited for.
Known(h, t) ==
  /\ t \in Remembered(h)
  /\ bound' = [bound EXCEPT ![h] = Refresh(@, t)]
  /\ UNCHANGED inFlight

StartBind(h, t) ==
  /\ t \notin Remembered(h) \union Binds(h)
  /\ inFlight' = [inFlight EXCEPT ![h] = With(@, t, [at |-> "sent", best |-> <<>>])]
  /\ UNCHANGED bound

\* A message of topic t was stored.
Observe(h, t) ==
  /\ stored < MaxMessages
  /\ h \in Eager \/ listener[h] # "off"
  /\ Known(h, t) \/ StartBind(h, t)
  /\ stored' = stored + 1
  /\ UNCHANGED <<assetModel, bindingRows, listener, notices, missed, overtaken, binderFaults>>

Ending(h, t) == [inFlight EXCEPT ![h] = [u \in Binds(h) \ {t} |-> @[u]]]

\* The statement's snapshot: the Asset it will store.
BindReads(h, t) ==
  /\ t \in Binds(h) /\ inFlight[h][t].at = "sent"
  /\ inFlight' = [inFlight EXCEPT ![h][t] = [at |-> "read", best |-> BestAsset(t)]]
  /\ UNCHANGED <<assetModel, bindingRows, bound, listener, notices, missed, overtaken, stored, binderFaults>>

\* The commit; the foreign key still holds.
BindCommits(h, t) ==
  LET best == inFlight[h][t].best IN
  /\ t \in Binds(h) /\ inFlight[h][t].at = "read"
  /\ best \in asset \union {<<>>}
  /\ topic_binding' = With(topic_binding, t, best)
  /\ boundBy' = With(boundBy, t, h)
  /\ inFlight' = [inFlight EXCEPT ![h][t].at = "committed"]
  /\ UNCHANGED <<assetModel, bound, listener, notices, missed, overtaken, stored, binderFaults>>

FaultRemember(s, t) == Refresh(s, t)
\* _remember: the oldest topics fall out.
Remember(s, t) == LastOf(Refresh(s, t), Capacity)

\* The coroutine resumes after the commit.
BindReturns(h, t) ==
  /\ t \in Binds(h) /\ inFlight[h][t].at = "committed"
  /\ bound' = [bound EXCEPT ![h] = Remember(@, t)]
  /\ inFlight' = Ending(h, t)
  /\ UNCHANGED <<assetModel, bindingRows, listener, notices, missed, overtaken, stored, binderFaults>>

\* The statement failed, or the Asset is gone: logged, retried by the next message.
BindFails(h, t) ==
  /\ t \in Binds(h) /\ inFlight[h][t].at \in {"sent", "read"}
  /\ \/ binderFaults < MaxBinderFaults /\ binderFaults' = binderFaults + 1
     \/ /\ inFlight[h][t].at = "read" /\ inFlight[h][t].best \notin asset \union {<<>>}
        /\ UNCHANGED binderFaults
  /\ inFlight' = Ending(h, t)
  /\ overtaken' = [overtaken EXCEPT ![h] = @ \ {t}]
  /\ UNCHANGED <<assetModel, bindingRows, bound, listener, notices, missed, stored>>

------------------------------------------------------------------------------
(* AssetModelChangeListener.                                                  *)

\* The first connection, and the one after a failed attempt.
Listen(h) ==
  /\ listener[h] = "off"
  /\ listener' = [listener EXCEPT ![h] = "listening"]
  /\ UNCHANGED <<assetModel, bindingRows, bound, inFlight, notices, missed, overtaken, stored, binderFaults>>

\* The server closes the connection: the loop waits on its queue and nothing is raised.
\* An eager process also goes on when start() gives up after ready_timeout.
GoesDeaf(h) ==
  /\ listener[h] = "listening" \/ (listener[h] = "off" /\ h \in Eager)
  /\ binderFaults < MaxBinderFaults /\ binderFaults' = binderFaults + 1
  /\ listener' = [listener EXCEPT ![h] = "deaf"]
  /\ UNCHANGED <<assetModel, bindingRows, bound, inFlight, notices, missed, overtaken, stored>>

FaultForgotten(s) == s
\* forget() without a topic: the whole LRU, but not what is in flight.
Forgotten(s) == <<>>

Dispatch(h) ==
  /\ notices[h]
  /\ notices' = [notices EXCEPT ![h] = FALSE]
  /\ bound' = [bound EXCEPT ![h] = Forgotten(@)]
  /\ missed' = [missed EXCEPT ![h] = FALSE]
  /\ overtaken' = [overtaken EXCEPT ![h] = {t \in Binds(h) : inFlight[h][t].at # "sent"}]
  /\ UNCHANGED <<assetModel, bindingRows, inFlight, listener, stored, binderFaults>>

\* The process ends, with a statement committed or not, and starts again.
RestartHistorian(h) ==
  /\ binderFaults < MaxBinderFaults /\ binderFaults' = binderFaults + 1
  /\ bound' = [bound EXCEPT ![h] = <<>>]
  /\ inFlight' = [inFlight EXCEPT ![h] = NoBinds]
  /\ listener' = [listener EXCEPT ![h] = "off"]
  /\ notices' = [notices EXCEPT ![h] = FALSE]
  /\ missed' = [missed EXCEPT ![h] = FALSE]
  /\ overtaken' = [overtaken EXCEPT ![h] = {}]
  /\ UNCHANGED <<assetModel, bindingRows, stored>>

Binder(h) ==
  \/ \E t \in DataTopics : BindReads(h, t) \/ BindCommits(h, t) \/ BindReturns(h, t)
  \/ Dispatch(h)
Editor == RebindAll \/ Announce
BindingNext ==
  \/ \E path \in Branches : EnsureBranch(path) \/ DeleteAsset(path)
  \/ Editor
  \/ \E h \in Historians :
       \/ Binder(h) \/ Listen(h) \/ GoesDeaf(h) \/ RestartHistorian(h)
       \/ \E t \in DataTopics : Observe(h, t) \/ BindFails(h, t)

BindingSpec == BindingInit /\ [][BindingNext]_bindingVars

------------------------------------------------------------------------------
(* Properties.                                                                *)

\* "The remembered set is an LRU so that a broker with unbounded topic churn cannot grow
\* it"; one bind of a topic runs at a time, and only of a topic that is not remembered.
BindingTypeOK ==
  /\ \A h \in Historians :
       /\ Len(bound[h]) <= Capacity /\ Remembered(h) \subseteq DOMAIN topic_binding
       /\ Remembered(h) \intersect Binds(h) = {}
  /\ \A t \in DOMAIN topic_binding : topic_binding[t] \in asset \union {<<>>}

\* A row that names another Asset than the deepest one is still going to be corrected: the
\* editor or a notice is on its way, or the historian that wrote it binds the topic again
\* on its next message.  The exceptions are the two of the code: a historian that missed
\* the notice, and a bind that was in flight when it forgot.
StaleIsRevisited ==
  \A t \in DOMAIN topic_binding :
    topic_binding[t] # BestAsset(t) =>
      \/ editor # "idle"
      \/ LET h == boundBy[t] IN
         \/ t \notin Remembered(h) \/ notices[h]
         \/ missed[h] \/ t \in overtaken[h]

=============================================================================
