----------------------------- MODULE CopilotChat -----------------------------
(* One conversation with the Factory Copilot (13_uns_factory_agent: app.py,         *)
(* chat.py, conversations.py, pg_store.py, wiring.py): several turns of its owner   *)
(* at once, turns of another user, deletion, expiry and restarts. The conversation  *)
(* lives in Postgres or, when startup could not reach it, in the process.           *)
EXTENDS Integers, Sequences, FiniteSets

CONSTANTS
  Turns, Asker,       \* POST /chat requests, each one's subject; "owner" owns the thread
  Limit,              \* limit of last_messages
  ModelRounds,        \* MAX_TOOL_ROUNDS + 1
  Retention, TurnTime, \* RETENTION; how long a turn takes, far less
  MaxTime, MaxRestarts, MaxChatFaults,
  Gone                \* there is no such conversation

VARIABLES
  home,      \* the store the conversation was created in
  holder,    \* the store in use: holder["store"]
  thread,    \* [title, updated], or Gone; the title "New chat" is "untitled"
  messages,  \* copilot.message of the conversation: [role, turn, at], as inserted
  turn,      \* [step, now, title, rounds, history]
  time, chatRestarts, chatFaults

chatVars == <<home, holder, thread, messages, turn, time, chatRestarts, chatFaults>>

\* A title that nobody gave is none of the questions; there is no conversation or it is a record.
ASSUME TitlesAssumption == /\ "untitled" \notin Turns
                           /\ \A title \in {"untitled"} \union Turns, updated \in 0..MaxTime :
                                [title |-> title, updated |-> updated] # Gone
ASSUME ChatBounds == /\ {Limit, Retention, TurnTime, MaxTime, MaxRestarts, MaxChatFaults} \subseteq Nat
                     /\ ModelRounds \in Nat \ {0}
\* A few rounds of a model and lookups of 5 to 30 seconds, against 30 days (wiring.py, RETENTION).
ASSUME TurnsAreShort == 2 * TurnTime <= Retention

Idle == [step |-> "idle", now |-> 0, title |-> "none", rounds |-> 0, history |-> {}]

Expired(now) == now - thread.updated > Retention
\* get: the caller's own, not expired
Owned(subject, now) == holder = home /\ thread # Gone /\ subject = "owner" /\ ~Expired(now)

\* The newest Limit of a list; the oldest Limit by created_at, ties in any order.
LastOfList == IF Len(messages) <= Limit THEN messages ELSE SubSeq(messages, Len(messages) - Limit + 1, Len(messages))
FirstOfTable(picked) ==
  /\ Cardinality(picked) = IF Len(messages) <= Limit THEN Len(messages) ELSE Limit
  /\ \A i \in picked, j \in (DOMAIN messages) \ picked : messages[i].at <= messages[j].at
\* last_messages(conversation_id, subject): the possible answers
LastMessages(t) ==
  IF ~(holder = home /\ thread # Gone /\ Asker[t] = "owner") THEN {{}}
  ELSE IF home = "memory" THEN {{LastOfList[i] : i \in DOMAIN LastOfList}}
  ELSE IF Expired(time) THEN {{}}
  ELSE {{messages[i] : i \in picked} : picked \in {p \in SUBSET DOMAIN messages : FirstOfTable(p)}}

\* title of the conversation after a message (append)
Titled(title, role, t) == IF role = "user" /\ title = "untitled" THEN t ELSE title

\* A message inserted without the foreign key of its conversation.
FaultInserted(t, role) == TRUE
\* The INSERT finds its conversation (copilot.message REFERENCES copilot.conversation).
Inserted(t, role) == thread # Gone

-----------------------------------------------------------------------------
ChatInit ==
  /\ home \in {"postgres", "memory"} /\ holder = home
  /\ thread = [title |-> "untitled", updated |-> 0]
  /\ messages = <<>> /\ turn = [t \in Turns |-> Idle]
  /\ time = 0 /\ chatRestarts = 0 /\ chatFaults = 0

Step(t, step) ==
  turn' = [turn EXCEPT ![t] = IF step \in {"done", "failed"} THEN [Idle EXCEPT !.step = step]
                              ELSE [@ EXCEPT !.step = step]]

\* POST /chat: the conversation is looked up and the turn takes its time.
Chat(t) ==
  /\ turn[t].step = "idle"
  /\ turn' = [turn EXCEPT ![t] = IF Owned(Asker[t], time)
                                 THEN [@ EXCEPT !.step = "ask", !.now = time]
                                 ELSE [@ EXCEPT !.step = "refused"]]
  /\ UNCHANGED <<home, holder, thread, messages, time, chatRestarts, chatFaults>>

Role(step) == IF step \in {"ask", "insertQuestion"} THEN "user" ELSE "assistant"
Appended(t, role) == Append(messages, [role |-> role, turn |-> t, at |-> turn[t].now])
After(role) == IF role = "user" THEN "consult" ELSE "done"

\* append, up to its UPDATE: the conversation is read in a session of its own.
AppendGet(t) ==
  LET role == Role(turn[t].step) IN
  /\ turn[t].step \in {"ask", "answer"} /\ home = "postgres"
  /\ turn' = [turn EXCEPT ![t] =
       IF Owned(Asker[t], turn[t].now)
       THEN [@ EXCEPT !.title = thread.title,
                      !.step = IF role = "user" THEN "insertQuestion" ELSE "insertAnswer"]
       ELSE [Idle EXCEPT !.step = "failed"]]
  /\ UNCHANGED <<home, holder, thread, messages, time, chatRestarts, chatFaults>>

\* append of the Postgres store: UPDATE and INSERT in one transaction.
AppendWrite(t) ==
  LET role == Role(turn[t].step) IN
  /\ turn[t].step \in {"insertQuestion", "insertAnswer"}
  /\ IF Inserted(t, role)
     THEN /\ messages' = Appended(t, role)
          /\ thread' = IF thread = Gone THEN Gone
                       ELSE [title |-> Titled(turn[t].title, role, t), updated |-> turn[t].now]
          /\ Step(t, After(role))
     ELSE Step(t, "failed") /\ UNCHANGED <<thread, messages>>
  /\ UNCHANGED <<home, holder, time, chatRestarts, chatFaults>>

\* append of the memory store
AppendInMemory(t) ==
  LET role == Role(turn[t].step) IN
  /\ turn[t].step \in {"ask", "answer"} /\ home = "memory"
  /\ IF Owned(Asker[t], turn[t].now)
     THEN /\ messages' = Appended(t, role)
          /\ thread' = [title |-> Titled(thread.title, role, t), updated |-> turn[t].now]
          /\ Step(t, After(role))
     ELSE Step(t, "failed") /\ UNCHANGED <<thread, messages>>
  /\ UNCHANGED <<home, holder, time, chatRestarts, chatFaults>>

\* run_turn between the two appends: playbook, then _history_messages.
Consult(t) ==
  /\ turn[t].step = "consult"
  /\ \E history \in LastMessages(t) :
       turn' = [turn EXCEPT ![t] = [@ EXCEPT !.step = "model", !.history = history, !.rounds = 0]]
  /\ UNCHANGED <<home, holder, thread, messages, time, chatRestarts, chatFaults>>

\* One round of the model: an answer, or tool calls (an empty submit_answer counts as one)
\* that get another round; the last round ends with the fixed reply.
Complete(t) ==
  /\ turn[t].step = "model"
  /\ \E step \in {"answer", "model"} :
       /\ turn[t].rounds + 1 = ModelRounds => step = "answer"
       /\ turn' = [turn EXCEPT ![t] = [@ EXCEPT !.rounds = turn[t].rounds + 1, !.step = step]]
  /\ UNCHANGED <<home, holder, thread, messages, time, chatRestarts, chatFaults>>

\* The model or the database raises: 500, and what was stored stays.
Fail(t) ==
  /\ turn[t].step \notin {"idle", "done", "failed", "refused"} /\ chatFaults < MaxChatFaults
  /\ Step(t, "failed") /\ chatFaults' = chatFaults + 1
  /\ UNCHANGED <<home, holder, thread, messages, time, chatRestarts>>

\* DELETE /conversations/{id}; the messages go with the row (ON DELETE CASCADE).
Delete(subject) ==
  /\ subject = "owner" /\ holder = home /\ thread # Gone
  /\ thread' = Gone /\ messages' = <<>>
  /\ UNCHANGED <<home, holder, turn, time, chatRestarts, chatFaults>>

Elapse ==
  /\ time < MaxTime
  /\ \A t \in Turns : turn[t].step \in {"idle", "done", "failed", "refused"} \/ time - turn[t].now < TurnTime
  /\ time' = time + 1
  /\ UNCHANGED <<home, holder, thread, messages, turn, chatRestarts, chatFaults>>

\* on_startup: Postgres, or a new memory store when the schema cannot be ensured; then
\* purge_expired. A memory store dies with its process.
Restart ==
  /\ chatRestarts < MaxRestarts /\ chatRestarts' = chatRestarts + 1
  /\ holder' \in {"postgres", "memory"}
  /\ LET kept == home = "postgres" /\ thread # Gone /\ ~(holder' = "postgres" /\ Expired(time))
     IN /\ thread' = IF kept THEN thread ELSE Gone
        /\ messages' = IF kept THEN messages ELSE <<>>
  /\ turn' = [t \in Turns |-> IF turn[t].step \in {"idle", "done", "refused"} THEN turn[t]
                          ELSE [Idle EXCEPT !.step = "failed"]]
  /\ UNCHANGED <<home, time, chatFaults>>

ChatNext ==
  \/ \E t \in Turns : Chat(t) \/ AppendGet(t) \/ AppendWrite(t) \/ AppendInMemory(t)
                      \/ Consult(t) \/ Complete(t) \/ Fail(t)
  \/ \E subject \in {"owner", "other"} : Delete(subject)
  \/ Elapse \/ Restart

ChatSpec == ChatInit /\ [][ChatNext]_chatVars

-----------------------------------------------------------------------------
Steps == {"idle", "refused", "ask", "insertQuestion", "consult", "model", "answer", "insertAnswer", "done", "failed"}
Said == [role : {"user", "assistant"}, turn : Turns, at : 0..MaxTime]
TurnStates == [step : Steps, now : 0..MaxTime, title : {"none", "untitled"} \union Turns,
               rounds : 0..ModelRounds, history : SUBSET Said]

ChatTypeOK ==
  /\ home \in {"postgres", "memory"} /\ holder \in {"postgres", "memory"} /\ time \in 0..MaxTime
  /\ thread \in {Gone} \union [title : {"untitled"} \union Turns, updated : 0..MaxTime]
  /\ messages \in Seq(Said) /\ turn \in [Turns -> TurnStates]
  /\ \A t \in Turns : turn[t].now <= time

\* A deleted conversation has no messages, also when a turn was under way.
DeletedIsGone == thread = Gone => messages = <<>>

\* An answer stands beside the question it answers, and nobody but the owner asked it;
\* the title is one of the questions.
AnswersHaveQuestions ==
  /\ \A i \in DOMAIN messages :
       /\ Asker[messages[i].turn] = "owner"
       /\ messages[i].role = "assistant" =>
            \E j \in 1..(i - 1) : messages[j].role = "user" /\ messages[j].turn = messages[i].turn
  /\ thread # Gone /\ messages # <<>> =>
       \E i \in DOMAIN messages : messages[i].role = "user" /\ messages[i].turn = thread.title

\* The model is shown the question it is to answer, as long as the conversation has no more
\* than `limit` messages (_history_messages).
Question(t) == \E m \in turn[t].history : m.role = "user" /\ m.turn = t
ShortHistoryHasQuestion == \A t \in Turns :
  turn[t].step \in {"model", "answer"} /\ Len(messages) <= Limit /\ thread # Gone => Question(t)

\* A conversation holds questions with their answers and the model is shown the question (append,
\* last_messages, run_turn).
ConversationHolds == DeletedIsGone /\ AnswersHaveQuestions /\ ShortHistoryHasQuestion

\* "Replica loads the last 20 messages of that thread from `copilot.message`": a question that is
\* among the newest `limit` messages is loaded.
LoadsLastMessages == home = "postgres" => \A t \in Turns :
  /\ turn[t].step = "model" /\ thread # Gone
  /\ Cardinality({i \in DOMAIN messages : messages[i].at >= turn[t].now}) <= Limit
  => Question(t)
=============================================================================
