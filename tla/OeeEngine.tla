------------------------------ MODULE OeeEngine ------------------------------
(* The OEE engine: passes compute the shifts that are due from the historian's  *)
(* samples and the operators' reasons, store a revisioned result and publish   *)
(* it.  Operators assign reasons to stored stops in the console, which queues   *)
(* the shift for recomputation.  A second engine may run beside the first       *)
(* (uns_oee_recompute --now).  One unit; a shift stands for its row key.       *)
EXTENDS Integers, Sequences, FiniteSets

CONSTANTS
  Engines,       \* engine processes
  Resident,      \* the engines that loop; the others run one pass and exit
  Shifts,        \* shift starts, in order
  Stops(_, _),   \* starts of the stops that the first n samples of a shift show
  Reasons,       \* authored downtime_reason codes
  MaxSamples,    \* bound: samples of a shift
  MaxAssigned,   \* bound: reason assignments
  MaxCliPasses,  \* bound: passes of the engines that are not resident
  ClaimLimit,    \* REQUEST_CLAIM_LIMIT
  MaxFaults      \* bound: failed calls and crashes

\* Shifts are ordered by their starts.
ASSUME ShiftsAssumption == Shifts \subseteq Nat

VARIABLES
  phase,      \* of a settled shift (settle_minutes past its end): "recent" inside late_window_hours,
              \* then "old"
  samples,    \* number of samples of each shift in uns_metrics; a shift has one at least
  events,     \* downtime_event: <<shift, start>> -> [code, source]
  results,    \* shift_result: shift -> [revision, fingerprint, numbers, published]
  revisions,  \* shift_result_revision: shift -> superseded <<revision, numbers>>
  requests,   \* recompute_request, oldest first: [shift, claimed, completed, error]
  engine,     \* what each engine is doing: its pass, and the shift it works on
  sent,       \* messages the broker took: <<shift, revision, numbers>>
  lost,       \* shifts whose request a crash or a failed window used up
  mingled,    \* shifts that two engines worked on at once
  assigned, passes, faults

vars == <<phase, samples, events, results, revisions, requests, engine, sent, lost,
          mingled, assigned, passes, faults>>
storeVars == <<events, results, revisions>>
plantVars == <<phase, samples>>

Fault == faults < MaxFaults /\ faults' = faults + 1
AutoSource == "auto"
Unclassified == "UNCLASSIFIED"

ManualOf(s) == {<<k[2], events[k].code>> : k \in {k \in DOMAIN events : k[1] = s /\ events[k].source = "manual"}}

FaultFingerprint(n, manual) == <<n, {}>>
\* Fingerprint.with_manual: the samples counted, and a digest of the reasons.
Fingerprint(n, manual) == <<n, manual>>

\* compute(shift_inputs(...)): a reason counts where a stop still begins at its start.
Numbers(s, n, manual) == <<n, {m \in manual : m[1] \in Stops(s, n)}>>

Resting == [at |-> "resting", todo |-> {}, claimed |-> {}, failures |-> 0, backfilled |-> FALSE,
            shift |-> 0, counted |-> 0, manual |-> {}, unchanged |-> FALSE, revision |-> 0,
            fetched |-> 0, numbers |-> <<>>]
Init ==
  /\ phase = [s \in Shifts |-> "recent"]
  /\ samples = [s \in Shifts |-> 1]
  /\ events = [k \in {} |-> {}]
  /\ results = [s \in {} |-> {}]
  /\ revisions = [s \in Shifts |-> {}]
  /\ requests = <<>>
  /\ engine = [e \in Engines |-> Resting]
  /\ sent = {} /\ lost = {} /\ mingled = {}
  /\ assigned = 0 /\ passes = 0 /\ faults = 0

------------------------------------------------------------------------------
(* The plant, and the console.                                                 *)

\* Samples may arrive late, for a shift that was reported already.
Sample(s) ==
  /\ samples[s] < MaxSamples
  /\ samples' = [samples EXCEPT ![s] = @ + 1]
  /\ UNCHANGED <<phase, storeVars, requests, engine, sent, lost, mingled, assigned, passes, faults>>

Age(s) ==
  /\ phase[s] = "recent"
  /\ phase' = [phase EXCEPT ![s] = "old"]
  /\ UNCHANGED <<samples, storeVars, requests, engine, sent, lost, mingled, assigned, passes, faults>>

Queued(s) == Append(requests, [shift |-> s, claimed |-> FALSE, completed |-> FALSE, error |-> FALSE])

\* assign_reason: the event becomes manual and its shift is queued, in one transaction.
AssignReason(k, code) ==
  /\ k \in DOMAIN events /\ assigned < MaxAssigned
  /\ events' = [events EXCEPT ![k] = [code |-> code, source |-> "manual"]]
  /\ requests' = Queued(k[1])
  /\ assigned' = assigned + 1
  /\ UNCHANGED <<plantVars, results, revisions, engine, sent, lost, mingled, passes, faults>>

------------------------------------------------------------------------------
(* A pass: ShiftScheduler.run_pass.                                            *)

FaultUnclaimed == {i \in DOMAIN requests : ~requests[i].completed}
\* claimed_at IS NULL, oldest first, FOR UPDATE SKIP LOCKED.
Unclaimed == {i \in DOMAIN requests : ~requests[i].claimed}
Claim == {i \in Unclaimed : Cardinality({j \in Unclaimed : j <= i}) <= ClaimLimit}
Earliest(S) == CHOOSE s \in S : \A t \in S : s <= t

\* recheck_windows, request_windows and, until one pass had no failure, backfill_windows.
Windows(claimed, backfilling) ==
  {s \in Shifts :
     \/ phase[s] = "recent"
     \/ phase[s] = "old" /\ \/ \E i \in claimed : requests[i].shift = s
                            \/ backfilling}

BeginPass(e) ==
  /\ engine[e].at = "resting"
  /\ e \notin Resident => passes < MaxCliPasses
  /\ passes' = IF e \in Resident THEN passes ELSE passes + 1
  /\ requests' = [i \in DOMAIN requests |-> IF i \in Claim THEN [requests[i] EXCEPT !.claimed = TRUE]
                                            ELSE requests[i]]
  /\ engine' = [engine EXCEPT ![e].at = "next", ![e].claimed = Claim, ![e].failures = 0,
                              ![e].todo = Windows(Claim, ~engine[e].backfilled)]
  /\ UNCHANGED <<plantVars, storeVars, sent, lost, mingled, assigned, faults>>

\* The pass goes on with the next shift; what it remembered of this one is gone.
Onward(m, failed) ==
  [Resting EXCEPT !.at = "next", !.todo = m.todo \ {m.shift}, !.claimed = m.claimed,
                  !.failures = m.failures + failed, !.backfilled = m.backfilled]

Unchanged(m) == m.shift \in DOMAIN results /\ results[m.shift].fingerprint = Fingerprint(m.counted, m.manual)

\* Oldest shift first: source.fingerprint, store.manual_reasons, store.existing.  Only
\* the plant changes the first and only the console the second, so the three reads are
\* one step.  Nothing to do when the same inputs are reported and published.
Decide(e) ==
  LET s == Earliest(engine[e].todo)
      m == [engine[e] EXCEPT !.shift = s, !.counted = samples[s], !.manual = ManualOf(s)]
  IN /\ engine[e].at = "next" /\ engine[e].todo # {}
     /\ engine' = [engine EXCEPT ![e] =
          IF Unchanged(m) /\ results[s].published THEN Onward(m, 0)
          ELSE [m EXCEPT !.at = "fetch", !.unchanged = Unchanged(m),
                         !.revision = IF Unchanged(m) THEN results[s].revision ELSE 0]]
     /\ mingled' = IF \E d \in Engines \ {e} : engine[d].at \notin {"resting", "next"} /\ engine[d].shift = s
                   THEN mingled \union {s} ELSE mingled
     /\ UNCHANGED <<plantVars, storeVars, requests, sent, lost, assigned, passes, faults>>

\* _fetch reads the samples themselves, which may be more than were counted.
Fetch(e) ==
  LET m == engine[e] IN
  /\ m.at = "fetch"
  /\ engine' = [engine EXCEPT ![e] =
       [m EXCEPT !.at = IF m.unchanged THEN "publish" ELSE "save", !.fetched = samples[m.shift],
                 !.numbers = Numbers(m.shift, samples[m.shift], m.manual)]]
  /\ UNCHANGED <<plantVars, storeVars, requests, sent, lost, mingled, assigned, passes, faults>>

------------------------------------------------------------------------------
(* ResultStore.save: one transaction.                                          *)

FaultRefreshed(s, starts) ==
  [k \in {k \in DOMAIN events : k[1] # s} \union {<<s, t>> : t \in starts} |->
     IF k[1] # s THEN events[k] ELSE [code |-> Unclassified, source |-> AutoSource]]
\* downtime_upsert keeps what a person set, downtime_auto_delete takes only auto rows.
Refreshed(s, starts) ==
  LET stay == {k \in DOMAIN events : k[1] # s \/ events[k].source = "manual"}
  IN [k \in stay \union {<<s, t>> : t \in starts} |->
        IF k \in stay THEN events[k] ELSE [code |-> Unclassified, source |-> AutoSource]]

FaultNextRevision(m) == m.revision + 1
\* SELECT FOR UPDATE: the revision follows the row as it is now.
NextRevision(m) == results[m.shift].revision + 1

\* result_values and the events of the shift; published_at is NULL again.
Saved(e, m, revision) ==
  /\ results' = [s \in DOMAIN results \union {m.shift} |->
       IF s # m.shift THEN results[s]
       ELSE [revision |-> revision, fingerprint |-> Fingerprint(m.counted, m.manual),
             numbers |-> m.numbers, published |-> FALSE]]
  /\ events' = Refreshed(m.shift, Stops(m.shift, m.fetched))
  /\ engine' = [engine EXCEPT ![e] = [m EXCEPT !.at = "publish", !.revision = revision]]

\* The old row becomes a revision; a save that finds none is going to insert the first.
Save(e) ==
  LET m == engine[e] s == m.shift IN
  /\ m.at = "save"
  /\ IF s \in DOMAIN results
       THEN /\ revisions' = [revisions EXCEPT ![s] = @ \union {<<results[s].revision, results[s].numbers>>}]
            /\ Saved(e, m, NextRevision(m))
       ELSE /\ engine' = [engine EXCEPT ![e].at = "insert"]
            /\ UNCHANGED storeVars
  /\ UNCHANGED <<plantVars, requests, sent, lost, mingled, assigned, passes, faults>>

Insert(e) ==
  LET m == engine[e] IN
  /\ m.at = "insert" /\ m.shift \notin DOMAIN results
  /\ Saved(e, m, 1)
  /\ UNCHANGED <<plantVars, revisions, requests, sent, lost, mingled, assigned, passes, faults>>

\* A window that raised is counted; the request behind it is completed all the same.
Requested(m) == {requests[i].shift : i \in m.claimed}

\* Two inserts of the first revision: the unique constraint refuses the second.
Collide(e) ==
  LET m == engine[e] IN
  /\ m.at = "insert" /\ m.shift \in DOMAIN results
  /\ engine' = [engine EXCEPT ![e] = Onward(m, 1)]
  /\ lost' = lost \union Requested(m)
  /\ UNCHANGED <<plantVars, storeVars, requests, sent, mingled, assigned, passes, faults>>

\* Any read or write of run_shift raises.
WindowFails(e) ==
  /\ engine[e].at \notin {"resting", "next", "publish"}
  /\ Fault
  /\ engine' = [engine EXCEPT ![e] = Onward(engine[e], 1)]
  /\ lost' = lost \union Requested(engine[e])
  /\ UNCHANGED <<plantVars, storeVars, requests, sent, mingled, assigned, passes>>

------------------------------------------------------------------------------
(* Publication, and the end of a pass.                                         *)

Publish(e) ==
  LET m == engine[e] IN
  /\ m.at = "publish"
  /\ sent' = sent \union {<<m.shift, m.revision, m.numbers>>}
  /\ engine' = [engine EXCEPT ![e].at = "mark"]
  /\ UNCHANGED <<plantVars, storeVars, requests, lost, mingled, assigned, passes, faults>>

FaultUnsent(m) == [m EXCEPT !.at = "mark"]
\* The broker did not take it: no failure of the window, the row stays unpublished.
Unsent(m) == Onward(m, 0)
PublishFails(e) ==
  /\ engine[e].at = "publish"
  /\ Fault
  /\ engine' = [engine EXCEPT ![e] = Unsent(engine[e])]
  /\ UNCHANGED <<plantVars, storeVars, requests, sent, lost, mingled, assigned, passes>>

\* mark_published names the row, whatever revision it holds by now.
Mark(e) ==
  LET m == engine[e] IN
  /\ m.at = "mark"
  /\ results' = [results EXCEPT ![m.shift].published = TRUE]
  /\ engine' = [engine EXCEPT ![e] = Onward(m, 0)]
  /\ UNCHANGED <<plantVars, events, revisions, requests, sent, lost, mingled, assigned, passes, faults>>

\* complete_requests, whatever became of the windows; a pass without failures ends
\* the backfill.
Complete(e) ==
  LET m == engine[e] IN
  /\ m.at = "next" /\ m.todo = {}
  /\ requests' = [i \in DOMAIN requests |->
       IF i \in m.claimed THEN [requests[i] EXCEPT !.completed = TRUE, !.error = m.failures > 0]
       ELSE requests[i]]
  /\ engine' = [engine EXCEPT ![e] = [Resting EXCEPT !.backfilled = e \in Resident /\ (m.backfilled \/ m.failures = 0)]]
  /\ UNCHANGED <<plantVars, storeVars, sent, lost, mingled, assigned, passes, faults>>

\* The process dies; what it had claimed stays claimed.
Crash(e) ==
  /\ engine[e].at # "resting"
  /\ Fault
  /\ engine' = [engine EXCEPT ![e] = Resting]
  /\ lost' = lost \union Requested(engine[e])
  /\ UNCHANGED <<plantVars, storeVars, requests, sent, mingled, assigned, passes>>

Advance(e) ==
  \/ BeginPass(e) \/ Decide(e) \/ Fetch(e)
  \/ Save(e) \/ Insert(e) \/ Collide(e) \/ Publish(e) \/ Mark(e) \/ Complete(e)

Next ==
  \/ \E s \in Shifts : Sample(s) \/ Age(s)
  \/ \E k \in DOMAIN events, code \in Reasons : AssignReason(k, code)
  \/ \E e \in Engines : Advance(e) \/ WindowFails(e) \/ PublishFails(e) \/ Crash(e)

Spec == Init /\ [][Next]_vars

\* A resident engine passes again after every scan interval, and ends its passes.
FairSpec == Spec /\ \A e \in Engines : WF_vars(Advance(e))

------------------------------------------------------------------------------
(* Properties.                                                                *)

\* Stops belong to a reported shift, engines work on what they claimed, and a request is
\* claimed by one engine only ("a second engine instance is a no-op").
TypeOK ==
  /\ DOMAIN results \subseteq Shifts
  /\ \A k \in DOMAIN events : k[1] \in DOMAIN results /\ events[k].source \in {AutoSource, "manual"}
  /\ \A e \in Engines : engine[e].todo \subseteq Shifts /\ engine[e].claimed \subseteq DOMAIN requests
  /\ \A d, e \in Engines : d # e => engine[d].claimed \intersect engine[e].claimed = {}
  /\ \A i \in DOMAIN requests : requests[i].completed => requests[i].claimed

\* The revisions on record are those before the current one, each with one set of
\* numbers, although two engines may compute the same shift at once.
RevisionsComplete ==
  \A s \in Shifts :
    LET current == IF s \in DOMAIN results THEN results[s].revision ELSE 1
    IN /\ {r[1] : r \in revisions[s]} = 1 .. current - 1
       /\ Cardinality(revisions[s]) = current - 1

\* "A person-assigned reason is never deleted" and never overwritten by a save that
\* had read the reasons before it was assigned: only the console changes it.
ReasonsSurvive ==
  [][\A k \in DOMAIN events :
       events[k].source = "manual" /\ assigned' = assigned =>
         k \in DOMAIN events' /\ events'[k] = events[k]]_vars

\* A shift is marked as published only when its current revision reached the broker,
\* unless two engines had worked on it at the same time.
PublishedWasSent ==
  \A s \in DOMAIN results \ mingled :
    results[s].published => \E m \in sent : m[1] = s /\ m[2] = results[s].revision

\* The record of results: its revisions and its marks of publication.
ResultsOnRecord == RevisionsComplete /\ PublishedWasSent

\* A reason an operator assigned ends up in the result of its shift, whatever pass was
\* under way, unless the pass that had claimed its request died or failed, or two
\* engines had computed the shift at once.
ReasonReachesResult ==
  \A s \in Shifts :
    <>[](s \in DOMAIN results /\ s \notin lost \union mingled => results[s].fingerprint[2] = ManualOf(s))
=============================================================================
