-------------------------- MODULE OeeEngineProofs --------------------------
(***************************************************************************)
(* What the engine guarantees for any number of engines, shifts, samples,   *)
(* reasons and faults.  The argument: a request is claimed while nobody has *)
(* it (ClaimsOK); as long as one engine alone works on a shift, the revision *)
(* it is about to publish is the row's (EngineOK), because only a save moves *)
(* the row; and a save that two engines race for still counts on from the   *)
(* row it finds (RevisionsComplete).                                        *)
(*                                                                         *)
(* And what it calculates with, for any plans and tables: an import writes   *)
(* the kinds of rows in their order and then settles them (ImporterOK), so    *)
(* that an import that ended leaves what the plan says, and a read that no    *)
(* import overlaps has seen what the tables hold (LoadOK).                   *)
(***************************************************************************)
EXTENDS OeeEngine, OeeMasterData, OffsetLemmas

Stages == {"resting", "next", "fetch", "save", "insert", "publish", "mark"}

Fields == {"at", "todo", "claimed", "failures", "backfilled", "shift", "counted", "manual",
           "unchanged", "revision", "fetched", "numbers"}

\* The fields of an engine's state.
IsPass(m) ==
  /\ DOMAIN m = Fields
  /\ m.at \in Stages /\ m.todo \subseteq Shifts /\ m.unchanged \in BOOLEAN

IsRow(r) ==
  /\ DOMAIN r = {"revision", "fingerprint", "numbers", "published"}
  /\ r.revision \in Nat \ {0}

Requests == Seq([shift : Shifts, claimed : BOOLEAN, completed : BOOLEAN, error : BOOLEAN])

\* The tables of the engine.
TablesOK ==
  /\ results = [s \in DOMAIN results |-> results[s]] /\ DOMAIN results \subseteq Shifts
  /\ \A s \in DOMAIN results : IsRow(results[s])
  /\ events = [k \in DOMAIN events |-> events[k]]
  /\ \A k \in DOMAIN events :
       k[1] \in DOMAIN results /\ events[k] = [code |-> events[k].code, source |-> events[k].source]
         /\ events[k].source \in {AutoSource, "manual"}
  /\ requests \in Requests
  /\ revisions = [s \in Shifts |-> revisions[s]]
  /\ \A s \in Shifts : IsFiniteSet(revisions[s])
  /\ assigned \in Nat

\* No request belongs to two engines.
ClaimsOK ==
  /\ \A e \in Engines : \A i \in engine[e].claimed : i \in DOMAIN requests /\ requests[i].claimed
  /\ \A d, e \in Engines : d # e => engine[d].claimed \cap engine[e].claimed = {}
  /\ \A i \in DOMAIN requests : requests[i].completed => requests[i].claimed

Busy(m) == m.at \notin {"resting", "next"}
Reports(m) == m.at \in {"publish", "mark"} \/ (m.at = "fetch" /\ m.unchanged)

\* What an engine knows of the shift it works on.
EngineOK(m) ==
  /\ IsPass(m)
  /\ Busy(m) => m.shift \in Shifts
  /\ Reports(m) =>
       /\ m.shift \in DOMAIN results
       /\ m.shift \notin mingled => m.revision = results[m.shift].revision
  /\ m.at = "mark" => <<m.shift, m.revision, m.numbers>> \in sent

\* Two engines on one shift have been noticed.
Apart == \A d, e \in Engines :
  d # e /\ Busy(engine[d]) /\ Busy(engine[e]) /\ engine[d].shift = engine[e].shift
    => engine[e].shift \in mingled

EnginesOK ==
  /\ engine = [e \in Engines |-> engine[e]]
  /\ \A e \in Engines : EngineOK(engine[e])
  /\ Apart

Inv == TablesOK /\ ClaimsOK /\ EnginesOK /\ ResultsOnRecord

-----------------------------------------------------------------------------
(* Initial states, and what the invariant says                              *)

LEMMA InitInv == Init => Inv
<1> SUFFICES ASSUME Init PROVE Inv
  OBVIOUS
<1>1. TablesOK
  <2>1. requests \in Requests
    BY DEF Init, Requests
  <2>2. \A s \in Shifts : IsFiniteSet(revisions[s])
    BY FS_EmptySet DEF Init
  <2> QED BY <2>1, <2>2 DEF Init, TablesOK
<1>2. ClaimsOK
  BY DEF Init, ClaimsOK, Resting
<1>3. EnginesOK
  <2>1. IsPass(Resting)
    BY DEF IsPass, Resting, Stages, Fields
  <2> QED BY <2>1 DEF Init, EnginesOK, EngineOK, Apart, Busy, Reports, Resting
<1>4. RevisionsComplete
  BY FS_EmptySet DEF Init, RevisionsComplete
<1>5. PublishedWasSent
  BY DEF Init, PublishedWasSent
<1> QED BY <1>1, <1>2, <1>3, <1>4, <1>5 DEF Inv, ResultsOnRecord

LEMMA InvTypes == Inv => TypeOK
<1> SUFFICES ASSUME Inv PROVE TypeOK
  OBVIOUS
<1>1. DOMAIN results \subseteq Shifts
  BY DEF Inv, TablesOK
<1>2. \A k \in DOMAIN events : k[1] \in DOMAIN results /\ events[k].source \in {AutoSource, "manual"}
  BY DEF Inv, TablesOK
<1>3. \A e \in Engines : engine[e].todo \subseteq Shifts /\ engine[e].claimed \subseteq DOMAIN requests
  <2> TAKE e \in Engines
  <2>1. engine[e].todo \subseteq Shifts
    BY DEF Inv, EnginesOK, EngineOK, IsPass
  <2>2. engine[e].claimed \subseteq DOMAIN requests
    BY DEF Inv, ClaimsOK
  <2> QED BY <2>1, <2>2
<1>4. \A d, e \in Engines : d # e => engine[d].claimed \intersect engine[e].claimed = {}
  BY DEF Inv, ClaimsOK
<1>5. \A i \in DOMAIN requests : requests[i].completed => requests[i].claimed
  BY DEF Inv, ClaimsOK
<1> QED BY <1>1, <1>2, <1>3, <1>4, <1>5 DEF TypeOK

LEMMA EarliestIn ==
  ASSUME NEW S \in SUBSET Shifts, S # {}
  PROVE  Earliest(S) \in S
<1>1. S \in SUBSET Nat
  BY ShiftsAssumption
<1>2. \E s \in S : \A t \in S : s <= t
  BY <1>1, SmallestOffset
<1> QED BY <1>2 DEF Earliest

-----------------------------------------------------------------------------
(* What most steps have in common                                           *)

\* One engine moves on, and the row of the others' shifts keeps its revision unless
\* two of them work on it.
LEMMA OneMoves ==
  ASSUME Inv, NEW e \in Engines,
         engine' = [engine EXCEPT ![e] = engine'[e]],
         EngineOK(engine[e])',
         mingled \subseteq mingled', sent \subseteq sent',
         \A d \in Engines \ {e} :
           Busy(engine[d]) /\ Busy(engine'[e]) /\ engine[d].shift = engine'[e].shift
             => engine'[e].shift \in mingled',
         \A d \in Engines \ {e} :
           Reports(engine[d]) =>
             /\ engine[d].shift \in DOMAIN results'
             /\ engine[d].shift \notin mingled' =>
                  results'[engine[d].shift].revision = results[engine[d].shift].revision
  PROVE  EnginesOK'
<1>1. engine = [d \in Engines |-> engine[d]] /\ \A d \in Engines : EngineOK(engine[d])
  BY DEF Inv, EnginesOK
<1>2. engine' = [d \in Engines |-> engine'[d]] /\ \A d \in Engines \ {e} : engine'[d] = engine[d]
  BY <1>1
<1>3. \A d \in Engines : EngineOK(engine[d])'
  <2> SUFFICES ASSUME NEW d \in Engines, d # e PROVE EngineOK(engine[d])'
    OBVIOUS
  <2>1. engine'[d] = engine[d] /\ EngineOK(engine[d])
    BY <1>1, <1>2
  <2>2. Reports(engine[d]) =>
          /\ engine[d].shift \in DOMAIN results'
          /\ engine[d].shift \notin mingled' => engine[d].revision = results'[engine[d].shift].revision
    BY <2>1 DEF EngineOK
  <2> QED BY <2>1, <2>2 DEF EngineOK, IsPass, Busy, Reports
<1>4. Apart'
  BY <1>2 DEF Inv, EnginesOK, Apart, Busy
<1> QED BY <1>2, <1>3, <1>4 DEF EnginesOK

\* A step that leaves the rows, their history and the events alone.
LEMMA TablesStay ==
  ASSUME Inv, UNCHANGED <<storeVars, assigned>>, requests' \in Requests,
         mingled \subseteq mingled', sent \subseteq sent'
  PROVE  TablesOK' /\ ResultsOnRecord'
<1>1. TablesOK'
  BY DEF Inv, TablesOK, storeVars, IsRow
<1>2. RevisionsComplete'
  BY DEF Inv, ResultsOnRecord, RevisionsComplete, storeVars
<1>3. PublishedWasSent'
  BY DEF Inv, ResultsOnRecord, PublishedWasSent, storeVars
<1> QED BY <1>1, <1>2, <1>3 DEF ResultsOnRecord

\* A step of one engine that claims nothing, and gives up all it claimed or nothing.
LEMMA ClaimsStay ==
  ASSUME Inv, NEW e \in Engines, UNCHANGED requests,
         engine' = [engine EXCEPT ![e] = engine'[e]],
         engine'[e].claimed \subseteq engine[e].claimed
  PROVE  ClaimsOK'
<1>1. \A d \in Engines : engine'[d].claimed \subseteq engine[d].claimed
  BY DEF Inv, EnginesOK
<1> QED BY <1>1 DEF Inv, ClaimsOK

LEMMA OnwardPass ==
  ASSUME NEW m, IsPass(m), NEW n
  PROVE  /\ IsPass(Onward(m, n)) /\ Onward(m, n).claimed = m.claimed
         /\ Onward(m, n).at = "next"
<1> DEFINE o == Onward(m, n)
<1>1. DOMAIN o = Fields
  BY DEF Onward, Resting, Fields
<1>2. /\ o.at = "next" /\ o.todo = m.todo \ {m.shift} /\ o.claimed = m.claimed
      /\ o.unchanged = FALSE
  BY DEF Onward, Resting
<1> HIDE DEF o
<1>3. IsPass(o) /\ o.claimed = m.claimed /\ o.at = "next"
  BY <1>1, <1>2 DEF IsPass, Stages
<1> QED BY <1>3 DEF o

\* An engine that leaves its shift alone from now on.
LEMMA GivesUp ==
  ASSUME Inv, NEW e \in Engines,
         engine' = [engine EXCEPT ![e] = engine'[e]],
         IsPass(engine'[e]), engine'[e].at \in {"resting", "next"},
         engine'[e].claimed \subseteq engine[e].claimed,
         UNCHANGED <<storeVars, requests, sent, assigned>>, mingled \subseteq mingled'
  PROVE  Inv'
<1>1. TablesOK' /\ ResultsOnRecord'
  <2>1. requests' \in Requests
    BY DEF Inv, TablesOK
  <2> QED BY <2>1, TablesStay
<1>2. ClaimsOK'
  BY ClaimsStay
<1>3. EnginesOK'
  <2>1. EngineOK(engine[e])'
    BY DEF EngineOK, Busy, Reports
  <2>2. ~Busy(engine'[e])
    BY DEF Busy
  <2>3. \A d \in Engines \ {e} : Reports(engine[d]) => engine[d].shift \in DOMAIN results
    BY DEF Inv, EnginesOK, EngineOK
  <2> QED BY <2>1, <2>2, <2>3, OneMoves DEF storeVars
<1> QED BY <1>1, <1>2, <1>3 DEF Inv

\* An engine that goes on with its shift, the tables unchanged.
LEMMA GoesOn ==
  ASSUME Inv, NEW e \in Engines,
         engine' = [engine EXCEPT ![e] = engine'[e]],
         EngineOK(engine[e])', Busy(engine[e]), engine'[e].shift = engine[e].shift,
         engine'[e].claimed = engine[e].claimed,
         UNCHANGED <<storeVars, requests, mingled, assigned>>, sent \subseteq sent'
  PROVE  Inv'
<1>1. TablesOK' /\ ResultsOnRecord'
  <2>1. requests' \in Requests
    BY DEF Inv, TablesOK
  <2> QED BY <2>1, TablesStay
<1>2. ClaimsOK'
  BY ClaimsStay
<1>3. EnginesOK'
  <2>1. \A d \in Engines \ {e} :
          Busy(engine[d]) /\ engine[d].shift = engine'[e].shift => engine'[e].shift \in mingled'
    BY DEF Inv, EnginesOK, Apart
  <2>2. \A d \in Engines \ {e} : Reports(engine[d]) => engine[d].shift \in DOMAIN results
    BY DEF Inv, EnginesOK, EngineOK
  <2> QED BY <2>1, <2>2, OneMoves DEF storeVars
<1> QED BY <1>1, <1>2, <1>3 DEF Inv

-----------------------------------------------------------------------------
(* The steps of the plant and the console                                   *)

LEMMA StillInv ==
  ASSUME Inv, UNCHANGED <<storeVars, requests, engine, sent, mingled, assigned>>
  PROVE  Inv'
<1>1. TablesOK' /\ ResultsOnRecord'
  <2>1. requests' \in Requests
    BY DEF Inv, TablesOK
  <2> QED BY <2>1, TablesStay
<1>2. ClaimsOK'
  BY DEF Inv, ClaimsOK
<1>3. EnginesOK'
  BY DEF Inv, EnginesOK, EngineOK, IsPass, Busy, Reports, Apart, storeVars
<1> QED BY <1>1, <1>2, <1>3 DEF Inv

LEMMA AssignInv ==
  ASSUME Inv, NEW k \in DOMAIN events, NEW code \in Reasons, AssignReason(k, code)
  PROVE  Inv'
<1> DEFINE r == [shift |-> k[1], claimed |-> FALSE, completed |-> FALSE, error |-> FALSE]
<1>1. requests' = Append(requests, r) /\ requests \in Requests /\ r.claimed = FALSE
      /\ r.completed = FALSE
      /\ r \in [shift : Shifts, claimed : BOOLEAN, completed : BOOLEAN, error : BOOLEAN]
  BY DEF AssignReason, Queued, Inv, TablesOK
<1> HIDE DEF r
<1>2. /\ requests' \in Requests /\ DOMAIN requests \subseteq DOMAIN requests'
      /\ \A i \in DOMAIN requests : requests'[i] = requests[i]
      /\ \A i \in DOMAIN requests' : i \notin DOMAIN requests => ~requests'[i].completed
  BY <1>1 DEF Requests
<1>3. TablesOK'
  <2>1. events' = [events EXCEPT ![k] = [code |-> code, source |-> "manual"]]
        /\ UNCHANGED <<results, revisions>> /\ assigned' = assigned + 1
    BY DEF AssignReason
  <2>2. /\ events' = [x \in DOMAIN events' |-> events'[x]] /\ DOMAIN events' = DOMAIN events
        /\ \A x \in DOMAIN events' :
             events'[x] = [code |-> events'[x].code, source |-> events'[x].source]
               /\ events'[x].source \in {AutoSource, "manual"}
    BY <2>1 DEF Inv, TablesOK
  <2> QED BY <1>2, <2>1, <2>2 DEF Inv, TablesOK, IsRow
<1>4. ClaimsOK'
  <2>1. engine' = engine
    BY DEF AssignReason
  <2> QED BY <1>2, <2>1 DEF Inv, ClaimsOK
<1>5. EnginesOK'
  BY DEF AssignReason, Inv, EnginesOK, EngineOK, IsPass, Busy, Reports, Apart
<1>6. ResultsOnRecord'
  BY DEF AssignReason, Inv, ResultsOnRecord, RevisionsComplete, PublishedWasSent
<1> QED BY <1>3, <1>4, <1>5, <1>6 DEF Inv

-----------------------------------------------------------------------------
(* The steps of a pass                                                      *)

LEMMA BeginInv ==
  ASSUME Inv, NEW e \in Engines, BeginPass(e)
  PROVE  Inv'
<1>0. /\ requests \in Requests /\ engine[e].at = "resting" /\ IsPass(engine[e])
      /\ engine = [d \in Engines |-> engine[d]]
      /\ UNCHANGED <<storeVars, sent, mingled, assigned>>
  BY DEF Inv, TablesOK, EnginesOK, EngineOK, BeginPass
<1>1. /\ Claim \subseteq DOMAIN requests
      /\ \A i \in Claim : ~requests[i].claimed
  BY DEF Claim, Unclaimed
<1>2. /\ requests' \in Requests /\ DOMAIN requests' = DOMAIN requests
      /\ \A i \in DOMAIN requests :
           /\ requests'[i].completed = requests[i].completed
           /\ requests'[i].claimed <=> i \in Claim \/ requests[i].claimed
  <2>1. requests' = [i \in DOMAIN requests |->
                       IF i \in Claim THEN [requests[i] EXCEPT !.claimed = TRUE] ELSE requests[i]]
    BY DEF BeginPass
  <2> DEFINE R == [shift : Shifts, claimed : BOOLEAN, completed : BOOLEAN, error : BOOLEAN]
  <2>2. \A i \in DOMAIN requests : requests[i] \in R
    <3> HIDE DEF R
    <3>1. requests \in Seq(R)
      BY <1>0 DEF Requests, R
    <3> QED BY <3>1
  <2>3. \A i \in DOMAIN requests :
          /\ requests'[i] \in R
          /\ requests'[i].completed = requests[i].completed
          /\ requests'[i].claimed <=> i \in Claim \/ requests[i].claimed
    <3> TAKE i \in DOMAIN requests
    <3>1. requests[i] \in R
      BY <2>2
    <3>2. CASE i \in Claim
      <4>1. requests'[i] = [requests[i] EXCEPT !.claimed = TRUE]
        BY <2>1, <3>2
      <4>2. [requests[i] EXCEPT !.claimed = TRUE] \in R
        BY <3>1
      <4>3. /\ [requests[i] EXCEPT !.claimed = TRUE].completed = requests[i].completed
            /\ [requests[i] EXCEPT !.claimed = TRUE].claimed
        BY <3>1
      <4> QED BY <3>2, <4>1, <4>2, <4>3
    <3>3. CASE i \notin Claim
      BY <2>1, <3>1, <3>3
    <3> QED BY <3>2, <3>3
  <2>4. requests' \in Seq(R)
    <3> HIDE DEF R
    <3>1. PICK n \in Nat : DOMAIN requests = 1 .. n
      BY <1>0 DEF Requests
    <3>2. requests' \in [1 .. n -> R]
      BY <2>1, <2>3, <3>1
    <3> QED BY <3>2
  <2>5. DOMAIN requests' = DOMAIN requests
    BY <2>1
  <2> QED BY <2>3, <2>4, <2>5 DEF Requests
<1>3. /\ engine' = [engine EXCEPT ![e] = engine'[e]]
      /\ IsPass(engine'[e]) /\ engine'[e].at = "next" /\ engine'[e].claimed = Claim
  <2> DEFINE w == Windows(Claim, ~engine[e].backfilled)
  <2>1. w \subseteq Shifts
    BY DEF Windows
  <2>2. engine' = [engine EXCEPT ![e].at = "next", ![e].claimed = Claim, ![e].failures = 0, ![e].todo = w]
    BY DEF BeginPass
  <2> HIDE DEF w
  <2> QED BY <1>0, <2>1, <2>2 DEF IsPass, Fields, Stages
<1>4. TablesOK' /\ ResultsOnRecord'
  BY <1>0, <1>2, TablesStay
<1>5. ClaimsOK'
  <2>1. \A d \in Engines : d # e => engine'[d] = engine[d]
    BY <1>0, <1>3
  <2>2. \A d \in Engines : d # e => engine[d].claimed \cap Claim = {}
    BY <1>1 DEF Inv, ClaimsOK
  <2> QED BY <1>1, <1>2, <1>3, <2>1, <2>2 DEF Inv, ClaimsOK
<1>6. EnginesOK'
  <2>1. EngineOK(engine[e])'
    BY <1>3 DEF EngineOK, Busy, Reports
  <2>2. ~Busy(engine'[e])
    BY <1>3 DEF Busy
  <2>3. \A d \in Engines \ {e} : Reports(engine[d]) => engine[d].shift \in DOMAIN results
    BY DEF Inv, EnginesOK, EngineOK
  <2> QED BY <1>0, <1>3, <2>1, <2>2, <2>3, OneMoves DEF storeVars
<1> QED BY <1>4, <1>5, <1>6 DEF Inv

LEMMA DecideInv ==
  ASSUME Inv, NEW e \in Engines, Decide(e)
  PROVE  Inv'
<1> DEFINE s == Earliest(engine[e].todo)
           m == [engine[e] EXCEPT !.shift = s, !.counted = samples[s], !.manual = ManualOf(s)]
           n == [m EXCEPT !.at = "fetch", !.unchanged = Unchanged(m),
                          !.revision = IF Unchanged(m) THEN results[s].revision ELSE 0]
<1>1. /\ IsPass(engine[e]) /\ engine[e].at = "next" /\ engine[e].todo # {}
      /\ engine = [d \in Engines |-> engine[d]]
      /\ UNCHANGED <<storeVars, requests, sent, assigned>>
  BY DEF Decide, Inv, EnginesOK, EngineOK
<1>2. s \in Shifts
  BY <1>1, EarliestIn DEF IsPass
<1>3. /\ engine' = [engine EXCEPT ![e] = IF Unchanged(m) /\ results[s].published
                                         THEN Onward(m, 0) ELSE n]
      /\ mingled' = IF \E d \in Engines \ {e} : engine[d].at \notin {"resting", "next"} /\ engine[d].shift = s
                    THEN mingled \union {s} ELSE mingled
  BY DEF Decide
<1>4. IsPass(m) /\ m.claimed = engine[e].claimed /\ m.shift = s
  <2> HIDE DEF s
  <2> QED BY <1>1 DEF IsPass, Fields
<1>5. Unchanged(m) => s \in DOMAIN results
  <2> HIDE DEF m
  <2> QED BY <1>4 DEF Unchanged
<1>6. CASE Unchanged(m) /\ results[s].published
  <2>1. engine' = [engine EXCEPT ![e] = Onward(m, 0)]
    BY <1>3, <1>6
  <2> HIDE DEF m
  <2>2. IsPass(Onward(m, 0)) /\ Onward(m, 0).claimed = m.claimed /\ Onward(m, 0).at = "next"
    BY <1>4, OnwardPass
  <2>3. engine'[e] = Onward(m, 0)
    BY <1>1, <2>1
  <2>4. mingled \subseteq mingled'
    BY <1>3
  <2> QED BY <1>1, <1>4, <2>1, <2>2, <2>3, <2>4, GivesUp
<1>7. CASE ~(Unchanged(m) /\ results[s].published)
  <2>1. engine' = [engine EXCEPT ![e] = n] /\ engine'[e] = n
    BY <1>1, <1>3, <1>7
  <2>2. /\ IsPass(n) /\ n.at = "fetch" /\ n.claimed = engine[e].claimed /\ n.shift = s
        /\ n.unchanged = Unchanged(m)
        /\ Unchanged(m) => n.revision = results[s].revision
    <3>1. Unchanged(m) \in BOOLEAN
      BY DEF Unchanged
    <3> HIDE DEF m, s
    <3> QED BY <1>4, <3>1 DEF IsPass, Fields, Stages
  <2> HIDE DEF m, n
  <2>3. TablesOK' /\ ResultsOnRecord'
    <3>1. requests' \in Requests /\ mingled \subseteq mingled'
      BY <1>1, <1>3 DEF Inv, TablesOK
    <3> QED BY <1>1, <3>1, TablesStay
  <2>4. ClaimsOK'
    BY <1>1, <2>1, <2>2, ClaimsStay
  <2>5. EnginesOK'
    <3>1. EngineOK(engine[e])'
      <4> HIDE DEF s
      <4> QED BY <1>1, <1>2, <1>5, <2>1, <2>2 DEF EngineOK, Busy, Reports, storeVars
    <3>2. \A d \in Engines \ {e} : Busy(engine[d]) /\ engine[d].shift = s => s \in mingled'
      <4> HIDE DEF s
      <4> QED BY <1>3 DEF Busy
    <3>3. \A d \in Engines \ {e} : Reports(engine[d]) => engine[d].shift \in DOMAIN results
      BY DEF Inv, EnginesOK, EngineOK
    <3>4. mingled \subseteq mingled'
      BY <1>3
    <3> HIDE DEF s
    <3> QED BY <1>1, <2>1, <2>2, <3>1, <3>2, <3>3, <3>4, OneMoves DEF storeVars
  <2> QED BY <2>3, <2>4, <2>5 DEF Inv
<1> QED BY <1>6, <1>7

LEMMA FetchInv ==
  ASSUME Inv, NEW e \in Engines, Fetch(e)
  PROVE  Inv'
<1> DEFINE m == engine[e]
           v == Numbers(m.shift, samples[m.shift], m.manual)
           n == [m EXCEPT !.at = IF m.unchanged THEN "publish" ELSE "save",
                          !.fetched = samples[m.shift], !.numbers = v]
<1>1. /\ EngineOK(m) /\ m.at = "fetch" /\ engine = [d \in Engines |-> engine[d]]
      /\ UNCHANGED <<storeVars, requests, mingled, sent, assigned>>
  BY DEF Fetch, Inv, EnginesOK
<1>2. engine' = [engine EXCEPT ![e] = n] /\ engine'[e] = n
  BY <1>1 DEF Fetch
<1>3. /\ IsPass(n) /\ n.at \in {"publish", "save"} /\ (n.at = "publish" => m.unchanged)
      /\ n.shift = m.shift /\ n.claimed = m.claimed /\ n.revision = m.revision
  <2> HIDE DEF v
  <2> QED BY <1>1 DEF EngineOK, IsPass, Fields, Stages
<1> HIDE DEF n
<1>4. EngineOK(engine[e])' /\ Busy(engine[e])
  BY <1>1, <1>2, <1>3 DEF EngineOK, Busy, Reports, storeVars
<1> QED BY <1>1, <1>2, <1>3, <1>4, GoesOn

LEMMA PublishInv ==
  ASSUME Inv, NEW e \in Engines, Publish(e)
  PROVE  Inv'
<1> DEFINE m == engine[e]
           n == [m EXCEPT !.at = "mark"]
<1>1. /\ EngineOK(m) /\ m.at = "publish" /\ engine = [d \in Engines |-> engine[d]]
      /\ UNCHANGED <<storeVars, requests, mingled, assigned>>
      /\ sent' = sent \union {<<m.shift, m.revision, m.numbers>>}
  BY DEF Publish, Inv, EnginesOK
<1>2. engine' = [engine EXCEPT ![e] = n] /\ engine'[e] = n
  BY <1>1 DEF Publish
<1>3. /\ IsPass(n) /\ n.at = "mark" /\ n.shift = m.shift /\ n.claimed = m.claimed
      /\ n.revision = m.revision /\ n.numbers = m.numbers
  BY <1>1 DEF EngineOK, IsPass, Fields, Stages
<1> HIDE DEF n
<1>4. EngineOK(engine[e])' /\ Busy(engine[e])
  BY <1>1, <1>2, <1>3 DEF EngineOK, Busy, Reports, storeVars
<1> QED BY <1>1, <1>2, <1>3, <1>4, GoesOn

\* Giving up the shift: the collision of two inserts, a failed window, a refused message.
LEMMA OnwardInv ==
  ASSUME Inv, NEW e \in Engines, NEW n,
         engine' = [engine EXCEPT ![e] = Onward(engine[e], n)],
         UNCHANGED <<storeVars, requests, sent, mingled, assigned>>
  PROVE  Inv'
<1>1. IsPass(engine[e]) /\ engine = [d \in Engines |-> engine[d]]
  BY DEF Inv, EnginesOK, EngineOK
<1>2. /\ IsPass(Onward(engine[e], n)) /\ Onward(engine[e], n).claimed = engine[e].claimed
      /\ Onward(engine[e], n).at = "next"
  BY <1>1, OnwardPass
<1>3. engine'[e] = Onward(engine[e], n)
  BY <1>1
<1> QED BY <1>1, <1>2, <1>3, GivesUp

LEMMA CrashInv ==
  ASSUME Inv, NEW e \in Engines, Crash(e)
  PROVE  Inv'
<1>1. /\ engine' = [engine EXCEPT ![e] = Resting] /\ engine = [d \in Engines |-> engine[d]]
      /\ UNCHANGED <<storeVars, requests, sent, mingled, assigned>>
  BY DEF Crash, Inv, EnginesOK
<1>2. IsPass(Resting) /\ Resting.at = "resting" /\ Resting.claimed = {}
  BY DEF IsPass, Resting, Fields, Stages
<1>3. engine'[e] = Resting
  BY <1>1
<1> QED BY <1>1, <1>2, <1>3, GivesUp

LEMMA CompleteInv ==
  ASSUME Inv, NEW e \in Engines, Complete(e)
  PROVE  Inv'
<1> DEFINE m == engine[e]
           failed == m.failures > 0
           R == [shift : Shifts, claimed : BOOLEAN, completed : BOOLEAN, error : BOOLEAN]
<1>1. /\ requests \in Requests /\ engine = [d \in Engines |-> engine[d]]
      /\ UNCHANGED <<storeVars, sent, mingled, assigned>>
      /\ m.claimed \subseteq DOMAIN requests
      /\ \A i \in m.claimed : requests[i].claimed
  BY DEF Complete, Inv, TablesOK, EnginesOK, ClaimsOK
<1>2. requests' = [i \in DOMAIN requests |->
        IF i \in m.claimed THEN [requests[i] EXCEPT !.completed = TRUE, !.error = failed]
        ELSE requests[i]]
  BY DEF Complete
<1>3. /\ requests' \in Requests /\ DOMAIN requests' = DOMAIN requests
      /\ \A i \in DOMAIN requests :
           /\ requests'[i].claimed <=> requests[i].claimed
           /\ requests'[i].completed => i \in m.claimed \/ requests[i].completed
  <2>1. \A i \in DOMAIN requests : requests[i] \in R
    <3> HIDE DEF R
    <3>1. requests \in Seq(R)
      BY <1>1 DEF Requests, R
    <3> QED BY <3>1
  <2>2. \A i \in DOMAIN requests :
          /\ requests'[i] \in R
          /\ requests'[i].claimed = requests[i].claimed
          /\ requests'[i].completed => i \in m.claimed \/ requests[i].completed
    <3> TAKE i \in DOMAIN requests
    <3>0. failed \in BOOLEAN
      OBVIOUS
    <3> HIDE DEF failed
    <3>1. requests[i] \in R
      BY <2>1
    <3>2. CASE i \in m.claimed
      <4> DEFINE q == [requests[i] EXCEPT !.completed = TRUE, !.error = failed]
      <4>1. requests'[i] = q
        BY <1>2, <3>2
      <4>2. q \in R /\ q.claimed = requests[i].claimed
        BY <3>0, <3>1
      <4> QED BY <3>2, <4>1, <4>2
    <3>3. CASE i \notin m.claimed
      BY <1>2, <3>1, <3>3
    <3> QED BY <3>2, <3>3
  <2>3. requests' \in Seq(R)
    <3> HIDE DEF R
    <3>1. PICK n \in Nat : DOMAIN requests = 1 .. n
      BY <1>1 DEF Requests
    <3>2. requests' \in [1 .. n -> R]
      BY <1>2, <2>2, <3>1
    <3> QED BY <3>2
  <2>4. DOMAIN requests' = DOMAIN requests
    BY <1>2
  <2> QED BY <2>2, <2>3, <2>4 DEF Requests
<1>4. /\ engine' = [engine EXCEPT ![e] = engine'[e]]
      /\ IsPass(engine'[e]) /\ engine'[e].at = "resting" /\ engine'[e].claimed = {}
  <2> DEFINE b == e \in Resident /\ (m.backfilled \/ m.failures = 0)
  <2>1. engine' = [engine EXCEPT ![e] = [Resting EXCEPT !.backfilled = b]]
    BY DEF Complete
  <2> HIDE DEF b
  <2>2. engine'[e] = [Resting EXCEPT !.backfilled = b]
    BY <1>1, <2>1
  <2>3. /\ IsPass([Resting EXCEPT !.backfilled = b])
        /\ [Resting EXCEPT !.backfilled = b].at = "resting"
        /\ [Resting EXCEPT !.backfilled = b].claimed = {}
    BY DEF IsPass, Resting, Fields, Stages
  <2> QED BY <2>1, <2>2, <2>3
<1>5. TablesOK' /\ ResultsOnRecord'
  BY <1>1, <1>3, TablesStay
<1>6. ClaimsOK'
  <2>1. \A d \in Engines : engine'[d].claimed \subseteq engine[d].claimed
    BY <1>1, <1>4
  <2> QED BY <1>1, <1>3, <2>1 DEF Inv, ClaimsOK
<1>7. EnginesOK'
  <2>1. EngineOK(engine[e])'
    BY <1>4 DEF EngineOK, Busy, Reports
  <2>2. ~Busy(engine'[e])
    BY <1>4 DEF Busy
  <2>3. \A d \in Engines \ {e} : Reports(engine[d]) => engine[d].shift \in DOMAIN results
    BY DEF Inv, EnginesOK, EngineOK
  <2> QED BY <1>1, <1>4, <2>1, <2>2, <2>3, OneMoves DEF storeVars
<1> QED BY <1>5, <1>6, <1>7 DEF Inv

LEMMA MarkInv ==
  ASSUME Inv, NEW e \in Engines, Mark(e)
  PROVE  Inv'
<1> DEFINE m == engine[e]
           s == m.shift
<1>1. /\ EngineOK(m) /\ m.at = "mark" /\ engine = [d \in Engines |-> engine[d]]
      /\ UNCHANGED <<events, revisions, requests, sent, mingled, assigned>>
      /\ results' = [results EXCEPT ![s].published = TRUE]
      /\ engine' = [engine EXCEPT ![e] = Onward(m, 0)]
  BY DEF Mark, Inv, EnginesOK
<1>2. /\ s \in DOMAIN results /\ <<s, m.revision, m.numbers>> \in sent
      /\ s \notin mingled => m.revision = results[s].revision
  BY <1>1 DEF EngineOK, Reports
<1>3. /\ results' = [t \in DOMAIN results |-> results'[t]] /\ DOMAIN results' = DOMAIN results
      /\ \A t \in DOMAIN results :
           /\ IsRow(results'[t]) /\ results'[t].revision = results[t].revision
           /\ t # s => results'[t] = results[t]
  <2> HIDE DEF s
  <2>1. /\ results' = [t \in DOMAIN results |-> results'[t]] /\ DOMAIN results' = DOMAIN results
        /\ results'[s] = [results[s] EXCEPT !.published = TRUE]
        /\ \A t \in DOMAIN results : t # s => results'[t] = results[t]
    BY <1>1, <1>2 DEF Inv, TablesOK
  <2>2. \A t \in DOMAIN results : IsRow(results[t])
    BY DEF Inv, TablesOK
  <2>3. IsRow(results'[s]) /\ results'[s].revision = results[s].revision
    BY <1>2, <2>1, <2>2 DEF IsRow
  <2> QED BY <2>1, <2>2, <2>3
<1>4. TablesOK'
  <2> HIDE DEF s, m
  <2>1. \A t \in DOMAIN results' : IsRow(results'[t])
    BY <1>3
  <2>2. /\ events' = [k \in DOMAIN events' |-> events'[k]]
        /\ \A k \in DOMAIN events' :
             k[1] \in DOMAIN results' /\ events'[k] = [code |-> events'[k].code, source |-> events'[k].source]
               /\ events'[k].source \in {AutoSource, "manual"}
    BY <1>1, <1>3 DEF Inv, TablesOK
  <2> QED BY <1>1, <1>3, <2>1, <2>2 DEF Inv, TablesOK
<1>5. ResultsOnRecord'
  <2>1. RevisionsComplete'
    BY <1>1, <1>3 DEF Inv, ResultsOnRecord, RevisionsComplete
  <2>2. PublishedWasSent'
    <3> SUFFICES ASSUME NEW t \in DOMAIN results \ mingled, results'[t].published
                 PROVE  \E x \in sent : x[1] = t /\ x[2] = results'[t].revision
      BY <1>1, <1>3 DEF PublishedWasSent
    <3>1. CASE t = s
      BY <1>2, <1>3, <3>1
    <3>2. CASE t # s
      BY <1>3, <3>2 DEF Inv, ResultsOnRecord, PublishedWasSent
    <3> QED BY <3>1, <3>2
  <2> QED BY <2>1, <2>2 DEF ResultsOnRecord
<1>6. /\ IsPass(Onward(m, 0)) /\ Onward(m, 0).claimed = m.claimed /\ Onward(m, 0).at = "next"
      /\ engine'[e] = Onward(m, 0)
  BY <1>1, OnwardPass DEF EngineOK
<1>7. ClaimsOK'
  BY <1>1, <1>6, ClaimsStay
<1>8. EnginesOK'
  <2>1. EngineOK(engine[e])' /\ ~Busy(engine'[e])
    BY <1>6 DEF EngineOK, Busy, Reports
  <2>2. \A d \in Engines \ {e} : Reports(engine[d]) => engine[d].shift \in DOMAIN results
    BY DEF Inv, EnginesOK, EngineOK
  <2> QED BY <1>1, <1>3, <1>6, <2>1, <2>2, OneMoves
<1> QED BY <1>4, <1>5, <1>7, <1>8 DEF Inv

-----------------------------------------------------------------------------
(* The transaction of a save                                                *)

\* Whoever else works on the shift is noticed, so the revision he knows need not last;
\* the new row is unpublished.
LEMMA SavedInv ==
  ASSUME Inv, NEW e \in Engines, NEW rev \in Nat \ {0},
         engine[e].at \in {"save", "insert"}, Saved(e, engine[e], rev),
         UNCHANGED <<requests, sent, mingled, assigned>>,
         revisions' = [s \in Shifts |-> revisions'[s]],
         \A s \in Shifts : IsFiniteSet(revisions'[s]),
         RevisionsComplete'
  PROVE  Inv'
<1> DEFINE m == engine[e]
           s == m.shift
           row == [revision |-> rev, fingerprint |-> Fingerprint(m.counted, m.manual),
                   numbers |-> m.numbers, published |-> FALSE]
           n == [m EXCEPT !.at = "publish", !.revision = rev]
<1>1. /\ EngineOK(m) /\ Busy(m) /\ s \in Shifts /\ engine = [d \in Engines |-> engine[d]]
      /\ engine' = [engine EXCEPT ![e] = n] /\ engine'[e] = n
      /\ results' = [t \in DOMAIN results \union {s} |-> IF t # s THEN results[t] ELSE row]
      /\ events' = Refreshed(s, Stops(s, m.fetched))
  BY DEF Saved, Inv, EnginesOK, EngineOK, Busy
<1>2. /\ IsPass(n) /\ n.at = "publish" /\ n.shift = s /\ n.claimed = m.claimed /\ n.revision = rev
  BY <1>1 DEF EngineOK, IsPass, Fields, Stages
<1>3. IsRow(row) /\ row.revision = rev /\ row.published = FALSE
  BY DEF IsRow
<1> HIDE DEF row, n
<1>4. /\ results' = [t \in DOMAIN results' |-> results'[t]]
      /\ DOMAIN results' = DOMAIN results \union {s} /\ DOMAIN results' \subseteq Shifts
      /\ results'[s] = row /\ \A t \in DOMAIN results : t # s => results'[t] = results[t]
      /\ \A t \in DOMAIN results' : IsRow(results'[t])
  <2> HIDE DEF s, m
  <2> QED BY <1>1, <1>3 DEF Inv, TablesOK
<1>5. /\ events' = [k \in DOMAIN events' |-> events'[k]]
      /\ \A k \in DOMAIN events' :
           k[1] \in DOMAIN results' /\ events'[k] = [code |-> events'[k].code, source |-> events'[k].source]
             /\ events'[k].source \in {AutoSource, "manual"}
  <2> DEFINE starts == Stops(s, m.fetched)
             stay == {k \in DOMAIN events : k[1] # s \/ events[k].source = "manual"}
  <2>1. events' = [k \in stay \union {<<s, t>> : t \in starts} |->
          IF k \in stay THEN events[k] ELSE [code |-> Unclassified, source |-> AutoSource]]
    BY <1>1 DEF Refreshed
  <2>2. \A k \in stay :
          k[1] \in DOMAIN results /\ events[k] = [code |-> events[k].code, source |-> events[k].source]
            /\ events[k].source \in {AutoSource, "manual"}
    BY DEF Inv, TablesOK
  <2> HIDE DEF stay, starts, s, m
  <2>3. \A k \in stay \union {<<s, t>> : t \in starts} : k \notin stay => k[1] = s
    OBVIOUS
  <2> QED BY <1>4, <2>1, <2>2, <2>3
<1> HIDE DEF s, m
<1>6. TablesOK'
  <2>1. requests' \in Requests /\ assigned' \in Nat
    BY DEF Inv, TablesOK
  <2> QED BY <1>4, <1>5, <2>1 DEF TablesOK
<1>7. PublishedWasSent'
  <2> SUFFICES ASSUME NEW t \in DOMAIN results' \ mingled', results'[t].published
               PROVE  \E x \in sent : x[1] = t /\ x[2] = results'[t].revision
    BY DEF PublishedWasSent
  <2>1. t # s
    BY <1>3, <1>4
  <2> QED BY <1>4, <2>1 DEF Inv, ResultsOnRecord, PublishedWasSent
<1>8. ClaimsOK'
  <2>1. engine'[e].claimed = engine[e].claimed /\ engine' = [engine EXCEPT ![e] = engine'[e]]
    BY <1>1, <1>2 DEF m
  <2> QED BY <2>1, ClaimsStay
<1>9. EnginesOK'
  <2>1. EngineOK(engine[e])'
    BY <1>1, <1>2, <1>3, <1>4 DEF EngineOK, Busy, Reports
  <2>2. \A d \in Engines \ {e} : Busy(engine[d]) /\ engine[d].shift = s => s \in mingled
    BY <1>1 DEF Inv, EnginesOK, Apart, m, s
  <2>3. \A d \in Engines \ {e} : Reports(engine[d]) => engine[d].shift \in DOMAIN results /\ Busy(engine[d])
    BY DEF Inv, EnginesOK, EngineOK, Reports, Busy
  <2>4. \A d \in Engines \ {e} :
          Reports(engine[d]) =>
            /\ engine[d].shift \in DOMAIN results'
            /\ engine[d].shift \notin mingled' =>
                 results'[engine[d].shift].revision = results[engine[d].shift].revision
    BY <1>4, <2>2, <2>3
  <2> QED BY <1>1, <1>2, <2>1, <2>2, <2>4, OneMoves
<1> QED BY <1>6, <1>7, <1>8, <1>9 DEF Inv, ResultsOnRecord

\* The superseded row becomes the next revision on record.
LEMMA SaveInv ==
  ASSUME Inv, NEW e \in Engines, Save(e)
  PROVE  Inv'
<1> DEFINE m == engine[e]
           s == m.shift
<1>1. /\ EngineOK(m) /\ m.at = "save" /\ engine = [d \in Engines |-> engine[d]] /\ s \in Shifts
      /\ UNCHANGED <<requests, sent, mingled, assigned>>
  BY DEF Save, Inv, EnginesOK, EngineOK, Busy
<1>2. CASE s \in DOMAIN results
  <2> DEFINE r == results[s].revision
             old == <<r, results[s].numbers>>
  <2>1. /\ revisions' = [revisions EXCEPT ![s] = @ \union {old}]
        /\ Saved(e, m, r + 1)
    BY <1>2 DEF Save, NextRevision
  <2>2. r \in Nat \ {0}
    BY <1>2 DEF Inv, TablesOK, IsRow
  <2>3. /\ {x[1] : x \in revisions[s]} = 1 .. r - 1
        /\ Cardinality(revisions[s]) = r - 1 /\ IsFiniteSet(revisions[s])
    BY <1>1, <1>2 DEF Inv, TablesOK, ResultsOnRecord, RevisionsComplete
  <2>4. /\ revisions' = [t \in Shifts |-> revisions'[t]]
        /\ revisions'[s] = revisions[s] \union {old}
        /\ \A t \in Shifts : t # s => revisions'[t] = revisions[t]
    BY <1>1, <2>1 DEF Inv, TablesOK
  <2>5. old \notin revisions[s] /\ old[1] = r
    <3>1. old[1] = r
      OBVIOUS
    <3>2. r \notin 1 .. r - 1
      BY <2>2
    <3> HIDE DEF old, r
    <3> QED BY <2>3, <3>1, <3>2
  <2> HIDE DEF old
  <2>6. IsFiniteSet(revisions'[s]) /\ Cardinality(revisions'[s]) = r
    <3>1. IsFiniteSet(revisions[s] \union {old})
          /\ Cardinality(revisions[s] \union {old}) = Cardinality(revisions[s]) + 1
      BY <2>3, <2>5, FS_AddElement
    <3> QED BY <2>2, <2>3, <2>4, <3>1
  <2>7. {x[1] : x \in revisions'[s]} = 1 .. r
    <3>1. {x[1] : x \in revisions[s] \union {old}} = {x[1] : x \in revisions[s]} \union {r}
      BY <2>5
    <3>2. (1 .. r - 1) \union {r} = 1 .. r
      BY <2>2
    <3> QED BY <2>3, <2>4, <3>1, <3>2
  <2>8. /\ DOMAIN results' = DOMAIN results /\ results'[s].revision = r + 1
        /\ \A t \in DOMAIN results : t # s => results'[t] = results[t]
    <3> HIDE DEF r
    <3> DEFINE row == [revision |-> r + 1, fingerprint |-> Fingerprint(m.counted, m.manual),
                       numbers |-> m.numbers, published |-> FALSE]
    <3>1. results' = [t \in DOMAIN results \union {s} |-> IF t # s THEN results[t] ELSE row]
      BY <2>1 DEF Saved
    <3>2. row.revision = r + 1
      OBVIOUS
    <3> HIDE DEF row, s
    <3> QED BY <1>2, <3>1, <3>2
  <2>9. RevisionsComplete'
    <3> HIDE DEF r, s
    <3> SUFFICES ASSUME NEW t \in Shifts
                 PROVE  LET current == IF t \in DOMAIN results' THEN results'[t].revision ELSE 1
                        IN /\ {x[1] : x \in revisions'[t]} = 1 .. current - 1
                           /\ Cardinality(revisions'[t]) = current - 1
      BY DEF RevisionsComplete
    <3>1. CASE t = s
      <4> DEFINE current == IF t \in DOMAIN results' THEN results'[t].revision ELSE 1
      <4>1. current - 1 = r
        BY <1>2, <2>2, <2>8, <3>1
      <4> HIDE DEF current
      <4>2. {x[1] : x \in revisions'[t]} = 1 .. current - 1 /\ Cardinality(revisions'[t]) = current - 1
        BY <2>6, <2>7, <3>1, <4>1
      <4> QED BY <4>2 DEF current
    <3>2. CASE t # s
      BY <2>4, <2>8, <3>2 DEF Inv, ResultsOnRecord, RevisionsComplete
    <3> QED BY <3>1, <3>2
  <2>10. \A t \in Shifts : IsFiniteSet(revisions'[t])
    BY <2>4, <2>6 DEF Inv, TablesOK
  <2>11. r + 1 \in Nat \ {0}
    BY <2>2
  <2> HIDE DEF r, s
  <2> QED BY <1>1, <2>1, <2>4, <2>9, <2>10, <2>11, SavedInv
<1>3. CASE s \notin DOMAIN results
  <2> DEFINE n == [m EXCEPT !.at = "insert"]
  <2>1. engine' = [engine EXCEPT ![e] = n] /\ engine'[e] = n /\ UNCHANGED storeVars
    BY <1>1, <1>3 DEF Save
  <2>2. IsPass(n) /\ n.at = "insert" /\ n.shift = s /\ n.claimed = m.claimed
    BY <1>1 DEF EngineOK, IsPass, Fields, Stages
  <2> HIDE DEF n
  <2>3. EngineOK(engine[e])' /\ Busy(engine[e])
    BY <1>1, <2>1, <2>2 DEF EngineOK, Busy, Reports
  <2> QED BY <1>1, <2>1, <2>2, <2>3, GoesOn
<1> QED BY <1>2, <1>3

LEMMA InsertInv ==
  ASSUME Inv, NEW e \in Engines, Insert(e)
  PROVE  Inv'
<1> DEFINE m == engine[e]
           s == m.shift
<1>1. /\ EngineOK(m) /\ m.at = "insert" /\ s \in Shifts /\ s \notin DOMAIN results
      /\ Saved(e, m, 1) /\ UNCHANGED <<revisions, requests, sent, mingled, assigned>>
  BY DEF Insert, Inv, EnginesOK, EngineOK, Busy
<1>2. /\ DOMAIN results' = DOMAIN results \union {s} /\ results'[s].revision = 1
      /\ \A t \in DOMAIN results : results'[t] = results[t]
  BY <1>1 DEF Saved
<1>3. RevisionsComplete'
  <2> HIDE DEF s
  <2> QED BY <1>1, <1>2 DEF Inv, ResultsOnRecord, RevisionsComplete
<1>4. /\ revisions' = [t \in Shifts |-> revisions'[t]]
      /\ \A t \in Shifts : IsFiniteSet(revisions'[t])
  BY <1>1 DEF Inv, TablesOK
<1> HIDE DEF s
<1> QED BY <1>1, <1>3, <1>4, SavedInv

-----------------------------------------------------------------------------
(* The theorems                                                             *)

LEMMA StepInv == Inv /\ [Next]_vars => Inv'
<1> SUFFICES ASSUME Inv, [Next]_vars PROVE Inv'
  OBVIOUS
<1>1. ASSUME NEW s \in Shifts, Sample(s) \/ Age(s) PROVE Inv'
  BY <1>1, StillInv DEF Sample, Age
<1>2. ASSUME NEW k \in DOMAIN events, NEW code \in Reasons, AssignReason(k, code) PROVE Inv'
  BY <1>2, AssignInv
<1>3. ASSUME NEW e \in Engines, Advance(e) PROVE Inv'
  <2>1. CASE BeginPass(e)
    BY <2>1, BeginInv
  <2>2. CASE Decide(e)
    BY <2>2, DecideInv
  <2>3. CASE Fetch(e)
    BY <2>3, FetchInv
  <2>4. CASE Save(e)
    BY <2>4, SaveInv
  <2>5. CASE Insert(e)
    BY <2>5, InsertInv
  <2>6. CASE Collide(e)
    BY <2>6, OnwardInv DEF Collide
  <2>7. CASE Publish(e)
    BY <2>7, PublishInv
  <2>8. CASE Mark(e)
    BY <2>8, MarkInv
  <2>9. CASE Complete(e)
    BY <2>9, CompleteInv
  <2> QED BY <1>3, <2>1, <2>2, <2>3, <2>4, <2>5, <2>6, <2>7, <2>8, <2>9 DEF Advance
<1>4. ASSUME NEW e \in Engines, WindowFails(e) PROVE Inv'
  BY <1>4, OnwardInv DEF WindowFails
<1>5. ASSUME NEW e \in Engines, PublishFails(e) PROVE Inv'
  BY <1>5, OnwardInv DEF PublishFails, Unsent
<1>6. ASSUME NEW e \in Engines, Crash(e) PROVE Inv'
  BY <1>6, CrashInv
<1>7. CASE UNCHANGED vars
  BY <1>7, StillInv DEF vars, storeVars
<1> QED BY <1>1, <1>2, <1>3, <1>4, <1>5, <1>6, <1>7 DEF Next

LEMMA AlwaysInv == Spec => []Inv
<1> QED BY InitInv, StepInv, PTL DEF Spec

\* Claims of one engine never reach another's, whatever passes run side by side.
THEOREM TypeCorrect == Spec => []TypeOK
<1> QED BY AlwaysInv, InvTypes, PTL

\* The revision history of a shift has no gap and no double, and only what reached the
\* broker is marked as published, for any number of engines, shifts and failures.
THEOREM RecordKept == Spec => []ResultsOnRecord
<1>1. Inv => ResultsOnRecord
  BY DEF Inv
<1> QED BY <1>1, AlwaysInv, PTL

\* No step but the console's takes or changes a reason a person assigned: a save keeps
\* every manual row, whatever reasons its pass had read.
THEOREM ManualKept == Spec => ReasonsSurvive
<1> DEFINE Kept == \A k \in DOMAIN events :
             events[k].source = "manual" /\ assigned' = assigned =>
               k \in DOMAIN events' /\ events'[k] = events[k]
<1>1. Inv /\ [Next]_vars => [Kept]_vars
  <2> SUFFICES ASSUME Inv, [Next]_vars, NEW k \in DOMAIN events,
                      events[k].source = "manual", assigned' = assigned
               PROVE  k \in DOMAIN events' /\ events'[k] = events[k]
    OBVIOUS
  <2>1. ASSUME UNCHANGED events PROVE k \in DOMAIN events' /\ events'[k] = events[k]
    BY <2>1
  <2>2. ASSUME NEW s, NEW starts, events' = Refreshed(s, starts)
        PROVE  k \in DOMAIN events' /\ events'[k] = events[k]
    BY <2>2 DEF Refreshed
  <2>3. ASSUME NEW e \in Engines, Advance(e)
        PROVE  UNCHANGED events \/ \E s, starts : events' = Refreshed(s, starts)
    <3>1. CASE Save(e) \/ Insert(e)
      <4>1. ASSUME NEW rev, Saved(e, engine[e], rev)
            PROVE  \E s, starts : events' = Refreshed(s, starts)
        BY <4>1 DEF Saved
      <4>2. UNCHANGED storeVars \/ Saved(e, engine[e], NextRevision(engine[e])) \/ Saved(e, engine[e], 1)
        BY SMTT(30), <3>1 DEF Save, Insert
      <4> QED BY <4>1, <4>2 DEF storeVars
    <3>2. CASE ~(Save(e) \/ Insert(e))
      BY <2>3, <3>2 DEF Advance, BeginPass, Decide, Fetch, Collide, Publish, Mark, Complete, storeVars
    <3> QED BY <3>1, <3>2
  <2>4. ASSUME NEW x \in DOMAIN events, NEW code \in Reasons, AssignReason(x, code) PROVE FALSE
    BY <2>4 DEF AssignReason, Inv, TablesOK
  <2>5. ASSUME NEW s \in Shifts, Sample(s) \/ Age(s) PROVE UNCHANGED events
    BY <2>5 DEF Sample, Age, storeVars
  <2>6. ASSUME NEW e \in Engines, WindowFails(e) \/ PublishFails(e) \/ Crash(e)
        PROVE  UNCHANGED events
    BY <2>6 DEF WindowFails, PublishFails, Crash, storeVars
  <2>7. CASE UNCHANGED vars
    BY <2>1, <2>7 DEF vars
  <2> QED BY <2>1, <2>2, <2>3, <2>4, <2>5, <2>6, <2>7 DEF Next
<1>2. Spec => [][Kept]_vars
  BY <1>1, AlwaysInv, PTL DEF Spec
<1> QED BY <1>2 DEF ReasonsSurvive

-----------------------------------------------------------------------------
(* OeeMasterData: what an import leaves in the tables, and what the loader sees *)

\* The rows of the plan are in the tables, as the import writes them.
Written(table, rows, keys) ==
  \A key \in keys : key \in DOMAIN table /\ table[key] = [data |-> rows[key], active |-> TRUE]
\* The rows of a kind that count: those that are not deactivated, or those there are.
Counting(kind, table) ==
  IF kind \in Activated THEN {key \in DOMAIN table : table[key].active}
  ELSE IF kind = "reasons" THEN {} ELSE DOMAIN table
Settled(kind, table, p) == FileOf(kind) \in p.present => Counting(kind, table) \subseteq DOMAIN p[kind]
SoFar(kind, left) == Written(master[kind], plan[kind], DOMAIN plan[kind] \ left)
AllOf(kind) == Written(master[kind], plan[kind], DOMAIN plan[kind])
AllWritten == \A kind \in KindSet : AllOf(kind)

\* An import writes the kinds in their order and then settles them in that order.
ImporterOK ==
  /\ importer.at \in {"saving", "reconciling", "applied"} => Accepted(plan)
  /\ importer.at \in {"saving", "reconciling"} =>
       DOMAIN importer = {"at", "kind", "rows"} /\ importer.kind \in DOMAIN Kinds
  /\ importer.at = "saving" =>
       /\ \A i \in 1..(importer.kind - 1) : AllOf(Kinds[i])
       /\ SoFar(Kinds[importer.kind], importer.rows)
  /\ importer.at \in {"reconciling", "applied"} => AllWritten
  /\ importer.at = "reconciling" => \A i \in 1..(importer.kind - 1) : Settled(Kinds[i], master[Kinds[i]], plan)
  /\ importer.at = "applied" => \A kind \in KindSet : Settled(kind, master[kind], plan)

\* While no import has begun since, what the selects saw is what the tables hold.
SeenOf(at) ==
  CASE at = "rules" -> {"reasons"}
    [] at = "patterns" -> {"reasons", "rules"}
    [] at = "cycles" -> {"reasons", "rules", "patterns"}
    [] at = "units" -> {"reasons", "rules", "patterns", "cycles"}
    [] OTHER -> {}
LoadOK ==
  /\ DOMAIN load = {"at", "calm", "seen", "units"} /\ DOMAIN load.seen = SeenOf("units")
  /\ load.calm => importer.at = "applied"
  /\ load.calm => \A kind \in SeenOf(load.at) : load.seen[kind] = master[kind]

MasterInv == MasterTypeOK /\ ImporterOK /\ LoadOK /\ ImportReachesEngine

LEMMA KindsAre ==
  /\ DOMAIN Kinds = 1..7 /\ Len(Kinds) = 7
  /\ KindSet = {"products", "reasons", "patterns", "exceptions", "units", "cycles", "rules"}
  /\ \A i, j \in 1..7 : Kinds[i] = Kinds[j] => i = j
  /\ \A i \in 1..7 : Kinds[i] \in KindSet
  /\ {Selects[i] : i \in DOMAIN Selects} = {"reasons", "rules", "patterns", "cycles", "units"}
<1>1. DOMAIN Kinds = 1..7 /\ Len(Kinds) = 7
  BY DEF Kinds
<1>2. KindSet = {"products", "reasons", "patterns", "exceptions", "units", "cycles", "rules"}
  BY <1>1 DEF Kinds, KindSet
<1>3. \A i, j \in 1..7 : Kinds[i] = Kinds[j] => i = j
  BY DEF Kinds
<1>4. \A i \in 1..7 : Kinds[i] \in KindSet
  BY <1>1 DEF KindSet
<1>5. {Selects[i] : i \in DOMAIN Selects} = {"reasons", "rules", "patterns", "cycles", "units"}
  <2>1. DOMAIN Selects = 1..5
    BY DEF Selects
  <2> QED BY <2>1 DEF Selects
<1> QED BY <1>1, <1>2, <1>3, <1>4, <1>5

LEMMA WrittenRow ==
  ASSUME NEW table, NEW rows, NEW keys, Written(table, rows, keys), NEW key \in keys
  PROVE  /\ key \in DOMAIN table /\ DOMAIN table[key] = {"data", "active"}
         /\ table[key].data = rows[key] /\ table[key].active
<1>1. key \in DOMAIN table /\ table[key] = [data |-> rows[key], active |-> TRUE]
  BY DEF Written
<1>2. PICK data, row : data = rows[key] /\ row = [data |-> data, active |-> TRUE]
  OBVIOUS
<1>3. DOMAIN row = {"data", "active"} /\ row.data = data /\ row.active = TRUE
  BY <1>2
<1> QED BY <1>1, <1>2, <1>3

LEMMA MasterBegins == MasterInit => MasterInv
<1> SUFFICES ASSUME MasterInit PROVE MasterInv
  OBVIOUS
<1>1. MasterTypeOK
  BY BeforeAssumption, MasterBounds, KindsAre DEF MasterInit, MasterTypeOK, AtRest, NotLoading
<1>2. ImporterOK /\ LoadOK /\ ImportReachesEngine
  BY DEF MasterInit, ImporterOK, LoadOK, ImportReachesEngine, AtRest, NotLoading, Nothing, SeenOf
<1> QED BY <1>1, <1>2 DEF MasterInv

\* The loader is not calm while an import runs: a step of the import leaves it alone.
LEMMA ImportingLoad ==
  ASSUME MasterInv, importer.at \in {"saving", "reconciling"}, UNCHANGED load
  PROVE  LoadOK' /\ ImportReachesEngine'
BY DEF MasterInv, LoadOK, ImportReachesEngine

LEMMA ImportKeeps == ASSUME MasterInv, NEW p \in Plans, Import(p) PROVE MasterInv'
<1>1. PICK l : l = load
  OBVIOUS
<1>2. /\ plan' = p /\ Accepted(p) /\ master' = master /\ load' = [l EXCEPT !.calm = FALSE]
      /\ importer' = [at |-> "saving", kind |-> 1, rows |-> DOMAIN p[Kinds[1]]]
      /\ imports' = imports + 1 /\ imports < MaxImports /\ reads' = reads /\ importFaults' = importFaults
  BY <1>1 DEF Import
<1>3. MasterTypeOK'
  BY <1>1, <1>2, MasterBounds DEF MasterInv, MasterTypeOK, LoadOK
<1>4. ImporterOK'
  BY <1>2, KindsAre DEF ImporterOK, SoFar, Written, Accepted
<1>5. DOMAIN l = {"at", "calm", "seen", "units"} /\ DOMAIN l.seen = SeenOf("units")
  BY <1>1 DEF MasterInv, LoadOK
<1>6. load'.calm = FALSE /\ DOMAIN load' = DOMAIN l /\ load'.seen = l.seen
  BY <1>2, <1>5
<1> QED BY <1>3, <1>4, <1>5, <1>6 DEF MasterInv, LoadOK, ImportReachesEngine

LEMMA SavedAllKeeps == ASSUME MasterInv, SavedAll PROVE MasterInv'
<1>1. PICK m : m = importer
  OBVIOUS
<1>2. /\ m.at = "saving" /\ m.rows = {} /\ DOMAIN m = {"at", "kind", "rows"} /\ m.kind \in 1..7
      /\ UNCHANGED <<master, plan, load, imports, reads, importFaults>>
      /\ importer' = IF m.kind < 7
                     THEN [m EXCEPT !.kind = @ + 1, !.rows = DOMAIN plan[Kinds[m.kind + 1]]]
                     ELSE [at |-> "reconciling", kind |-> 1, rows |-> {}]
  BY <1>1, KindsAre DEF SavedAll, MasterInv, ImporterOK
<1>3. \A i \in 1..m.kind : AllOf(Kinds[i])
  <2> SUFFICES ASSUME NEW i \in 1..m.kind PROVE AllOf(Kinds[i])
    OBVIOUS
  <2>1. CASE i = m.kind
    <3>1. SoFar(Kinds[i], {})
      BY <1>1, <1>2, <2>1 DEF MasterInv, ImporterOK
    <3> QED BY <3>1 DEF SoFar, AllOf
  <2>2. CASE i # m.kind
    <3>1. i \in 1..(m.kind - 1)
      BY <1>2, <2>2
    <3> QED BY <1>1, <1>2, <3>1 DEF MasterInv, ImporterOK
  <2> QED BY <2>1, <2>2
<1>4. \A kind : AllOf(kind)' <=> AllOf(kind)
  BY <1>2 DEF AllOf
<1>5. MasterTypeOK' /\ ImporterOK'
  <2>1. CASE m.kind < 7
    <3>1. /\ importer'.at = "saving" /\ importer'.kind = m.kind + 1 /\ importer'.kind \in 1..7
          /\ importer'.rows = DOMAIN plan[Kinds[m.kind + 1]] /\ DOMAIN importer' = {"at", "kind", "rows"}
      BY <1>2, <2>1
    <3>2. \A i \in 1..(importer'.kind - 1) : AllOf(Kinds[i])'
      BY <1>2, <1>3, <1>4, <3>1
    <3>3. SoFar(Kinds[importer.kind], importer.rows)'
      BY <1>2, <3>1 DEF SoFar, Written
    <3>4. Accepted(plan)'
      BY <1>1, <1>2 DEF MasterInv, ImporterOK, Accepted
    <3>5. MasterTypeOK'
      BY <1>2, <3>1 DEF MasterInv, MasterTypeOK
    <3> QED BY <3>1, <3>2, <3>3, <3>4, <3>5, KindsAre DEF ImporterOK
  <2>2. CASE m.kind = 7
    <3>1. importer' = [at |-> "reconciling", kind |-> 1, rows |-> {}]
      BY <1>2, <2>2
    <3>2. AllWritten'
      BY <1>2, <1>3, <1>4, <2>2, KindsAre DEF AllWritten, KindSet
    <3>4. Accepted(plan)'
      BY <1>1, <1>2 DEF MasterInv, ImporterOK, Accepted
    <3>5. MasterTypeOK'
      BY <1>2, <3>1 DEF MasterInv, MasterTypeOK
    <3> QED BY <3>1, <3>2, <3>4, <3>5, KindsAre DEF ImporterOK
  <2> QED BY <1>2, <2>1, <2>2
<1> QED BY <1>1, <1>2, <1>5, ImportingLoad DEF MasterInv

LEMMA SaveKeeps == ASSUME MasterInv, SaveRow PROVE MasterInv'
<1>1. PICK m : m = importer
  OBVIOUS
<1>2. /\ m.at = "saving" /\ DOMAIN m = {"at", "kind", "rows"} /\ m.kind \in 1..7
      /\ m.rows \subseteq DOMAIN plan[Kinds[m.kind]]
      /\ UNCHANGED <<plan, load, imports, reads, importFaults>>
  BY <1>1, KindsAre DEF SaveRow, MasterInv, MasterTypeOK, ImporterOK
<1>3. PICK kind \in KindSet : kind = Kinds[m.kind]
  BY <1>2, KindsAre
<1>4. PICK key \in m.rows :
        IF Refused(kind, key, plan[kind][key])
        THEN importer' = [AtRest EXCEPT !.at = "failed"] /\ UNCHANGED master
        ELSE /\ master' = [master EXCEPT ![kind] = Upserted(@, key, Row(kind, key, plan[kind][key]))]
             /\ importer' = [m EXCEPT !.rows = @ \ {key}]
  BY <1>1, <1>3 DEF SaveRow
<1>5. CASE Refused(kind, key, plan[kind][key])
  <2>1. importer'.at = "failed" /\ master' = master
    BY <1>4, <1>5 DEF AtRest
  <2>2. MasterTypeOK' /\ ImporterOK'
    BY <1>2, <2>1 DEF MasterInv, MasterTypeOK, ImporterOK
  <2> QED BY <1>1, <1>2, <2>2, ImportingLoad DEF MasterInv
<1>6. CASE ~Refused(kind, key, plan[kind][key])
  <2>1. PICK row : row = Row(kind, key, plan[kind][key])
    OBVIOUS
  <2>2. /\ DOMAIN master' = KindSet /\ \A k \in KindSet : k # kind => master'[k] = master[k]
        /\ DOMAIN master'[kind] = DOMAIN master[kind] \union {key} /\ master'[kind][key] = row
        /\ \A k \in DOMAIN master[kind] : k # key => master'[kind][k] = master[kind][k]
    BY <1>4, <1>6, <2>1 DEF Upserted, MasterInv, MasterTypeOK
  <2>3. /\ importer'.at = "saving" /\ importer'.kind = m.kind /\ importer'.rows = m.rows \ {key}
        /\ DOMAIN importer' = {"at", "kind", "rows"}
    BY <1>2, <1>4, <1>6
  <2>4. MasterTypeOK'
    <3>1. DOMAIN row = {"data", "active"} /\ row.active \in BOOLEAN
      BY <2>1 DEF Row
    <3>2. \A k \in KindSet : \A x \in DOMAIN master'[k] :
            DOMAIN master'[k][x] = {"data", "active"} /\ master'[k][x].active \in BOOLEAN
      BY <2>2, <3>1 DEF MasterInv, MasterTypeOK
    <3> QED BY <1>2, <2>2, <2>3, <3>2 DEF MasterInv, MasterTypeOK
  <2>5. \A i \in 1..(m.kind - 1) : AllOf(Kinds[i])'
    <3> SUFFICES ASSUME NEW i \in 1..(m.kind - 1) PROVE AllOf(Kinds[i])'
      OBVIOUS
    <3>1. i \in 1..7 /\ i # m.kind
      BY <1>2
    <3>2. Kinds[i] \in KindSet /\ Kinds[i] # kind
      BY <1>2, <1>3, <3>1, KindsAre
    <3>3. AllOf(Kinds[i])
      BY <1>1, <1>2 DEF MasterInv, ImporterOK
    <3> QED BY <1>2, <2>2, <3>2, <3>3 DEF AllOf
  <2>6. SoFar(Kinds[importer.kind], importer.rows)'
    <3>1. SoFar(kind, m.rows)
      BY <1>1, <1>2, <1>3 DEF MasterInv, ImporterOK
    <3>2. row = [data |-> plan[kind][key], active |-> TRUE]
      BY <2>1 DEF Row
    <3>3. Written(master'[kind], plan[kind], DOMAIN plan[kind] \ (m.rows \ {key}))
      BY <1>2, <2>2, <3>1, <3>2 DEF SoFar, Written
    <3> QED BY <1>2, <1>3, <2>3, <3>3 DEF SoFar
  <2>7. Accepted(plan)'
    BY <1>1, <1>2 DEF MasterInv, ImporterOK, Accepted
  <2>8. ImporterOK'
    BY <1>2, <1>3, <2>3, <2>5, <2>6, <2>7, KindsAre DEF ImporterOK
  <2> QED BY <1>1, <1>2, <2>4, <2>8, ImportingLoad DEF MasterInv
<1> QED BY <1>5, <1>6

\* reconcile_*: what the plan holds stays, what else there was counts no more.
LEMMA ReconcileKeeps == ASSUME MasterInv, Reconcile PROVE MasterInv'
<1>1. PICK m : m = importer
  OBVIOUS
<1>2. /\ m.at = "reconciling" /\ DOMAIN m = {"at", "kind", "rows"} /\ m.kind \in 1..7
      /\ UNCHANGED <<plan, load, imports, reads, importFaults>>
      /\ importer' = IF m.kind < 7 THEN [m EXCEPT !.kind = @ + 1] ELSE [AtRest EXCEPT !.at = "applied"]
  BY <1>1, KindsAre DEF Reconcile, MasterInv, ImporterOK
<1>3. PICK kind \in KindSet : kind = Kinds[m.kind]
  BY <1>2, KindsAre
<1>4. master' = IF FileOf(kind) \in plan.present THEN [master EXCEPT ![kind] = Reconciled(kind)] ELSE master
  BY <1>1, <1>3 DEF Reconcile
<1>5. /\ DOMAIN master' = KindSet /\ \A k \in KindSet : k # kind => master'[k] = master[k]
      /\ master'[kind] = master[kind] \/ master'[kind] = Reconciled(kind)
  BY <1>4 DEF MasterInv, MasterTypeOK
<1>6. /\ DOMAIN Reconciled(kind) \subseteq DOMAIN master[kind]
      /\ kind \in Activated => DOMAIN Reconciled(kind) = DOMAIN master[kind]
      /\ DOMAIN master[kind] \intersect DOMAIN plan[kind] \subseteq DOMAIN Reconciled(kind)
      /\ \A key \in DOMAIN Reconciled(kind) :
           /\ DOMAIN Reconciled(kind)[key] = {"data", "active"}
           /\ Reconciled(kind)[key].active \in BOOLEAN
           /\ key \in DOMAIN plan[kind] => Reconciled(kind)[key] = master[kind][key]
           /\ kind \in Activated /\ Reconciled(kind)[key].active => key \in DOMAIN plan[kind]
           /\ kind \notin Activated \union {"reasons"} => key \in DOMAIN plan[kind]
  <2>1. \A key \in DOMAIN master[kind] :
          DOMAIN master[kind][key] = {"data", "active"} /\ master[kind][key].active \in BOOLEAN
    BY DEF MasterInv, MasterTypeOK
  <2>2. CASE kind \in Activated
    <3>1. Reconciled(kind) = [key \in DOMAIN master[kind] |->
             [data |-> master[kind][key].data, active |-> master[kind][key].active /\ key \in DOMAIN plan[kind]]]
      BY <2>2 DEF Reconciled, Activated
    <3>2. \A key \in DOMAIN plan[kind] : key \in DOMAIN master[kind] => master[kind][key].active
      BY <1>1, <1>2, WrittenRow DEF MasterInv, ImporterOK, AllWritten, AllOf
    <3>3. ASSUME NEW key \in DOMAIN master[kind]
          PROVE  /\ DOMAIN Reconciled(kind)[key] = {"data", "active"}
                 /\ Reconciled(kind)[key].active = (master[kind][key].active /\ key \in DOMAIN plan[kind])
                 /\ Reconciled(kind)[key].data = master[kind][key].data
      BY <2>1, <3>1
    <3>4. ASSUME NEW key \in DOMAIN master[kind], key \in DOMAIN plan[kind]
          PROVE  Reconciled(kind)[key] = master[kind][key]
      <4>1. master[kind][key] = [data |-> plan[kind][key], active |-> TRUE]
        BY <1>1, <1>2, <3>4 DEF MasterInv, ImporterOK, AllWritten, AllOf, Written
      <4>2. master[kind][key].data = plan[kind][key] /\ master[kind][key].active
        BY <1>1, <1>2, <3>4, WrittenRow DEF MasterInv, ImporterOK, AllWritten, AllOf
      <4>3. PICK active \in BOOLEAN : active = (master[kind][key].active /\ key \in DOMAIN plan[kind])
        OBVIOUS
      <4>4. active = TRUE
        BY <3>4, <4>2, <4>3
      <4>5. Reconciled(kind)[key] = [data |-> plan[kind][key], active |-> active]
        BY <3>1, <4>2, <4>3
      <4> QED BY <4>1, <4>4, <4>5
    <3> QED BY <2>1, <2>2, <3>1, <3>3, <3>4
  <2>3. CASE kind = "reasons"
    BY <2>1, <2>3 DEF Reconciled, Activated
  <2>4. CASE kind \in {"exceptions", "cycles", "rules"}
    <3>1. Reconciled(kind) = [key \in DOMAIN master[kind] \intersect DOMAIN plan[kind] |-> master[kind][key]]
      BY <2>4 DEF Reconciled, Activated, OnlyKeys
    <3> QED BY <2>1, <2>4, <3>1 DEF Activated
  <2> QED BY <2>2, <2>3, <2>4, KindsAre DEF Activated
<1>7. MasterTypeOK'
  <2>1. \A k \in KindSet : \A x \in DOMAIN master'[k] :
          DOMAIN master'[k][x] = {"data", "active"} /\ master'[k][x].active \in BOOLEAN
    BY <1>5, <1>6 DEF MasterInv, MasterTypeOK
  <2>2. importer'.at \in {"reconciling", "applied"}
    BY <1>2 DEF AtRest
  <2> QED BY <1>2, <1>5, <2>1, <2>2 DEF MasterInv, MasterTypeOK
<1>8. AllWritten'
  <2>1. AllWritten
    BY <1>1, <1>2 DEF MasterInv, ImporterOK
  <2> QED BY <1>2, <1>5, <1>6, <2>1 DEF AllWritten, AllOf, Written
<1>9. Settled(kind, master[kind], plan)'
  <2>1. CASE FileOf(kind) \in plan.present
    <3>1. master'[kind] = Reconciled(kind)
      BY <1>4, <2>1 DEF MasterInv, MasterTypeOK
    <3> QED BY <1>2, <1>6, <3>1 DEF Settled, Counting
  <2>2. CASE FileOf(kind) \notin plan.present
    BY <1>2, <2>2 DEF Settled
  <2> QED BY <2>1, <2>2
<1>10. \A i \in 1..m.kind : Settled(Kinds[i], master[Kinds[i]], plan)'
  <2> SUFFICES ASSUME NEW i \in 1..m.kind, i # m.kind PROVE Settled(Kinds[i], master[Kinds[i]], plan)'
    BY <1>3, <1>9
  <2>1. i \in 1..(m.kind - 1) /\ i \in 1..7
    BY <1>2
  <2>2. Settled(Kinds[i], master[Kinds[i]], plan) /\ Kinds[i] \in KindSet /\ Kinds[i] # kind
    BY <1>1, <1>2, <1>3, <2>1, KindsAre DEF MasterInv, ImporterOK
  <2> QED BY <1>2, <1>5, <2>2 DEF Settled, Counting
<1>11. Accepted(plan)'
  BY <1>1, <1>2 DEF MasterInv, ImporterOK, Accepted
<1>12. ImporterOK'
  <2>1. CASE m.kind < 7
    <3>1. /\ importer'.at = "reconciling" /\ importer'.kind = m.kind + 1 /\ importer'.kind \in 1..7
          /\ DOMAIN importer' = {"at", "kind", "rows"} /\ importer'.kind - 1 = m.kind
      BY <1>2, <2>1
    <3> QED BY <1>8, <1>10, <1>11, <3>1, KindsAre DEF ImporterOK
  <2>2. CASE m.kind = 7
    <3>1. importer'.at = "applied"
      BY <1>2, <2>2 DEF AtRest
    <3>2. \A k \in KindSet : Settled(k, master[k], plan)'
      BY <1>10, <2>2, KindsAre DEF KindSet
    <3> QED BY <1>8, <1>11, <3>1, <3>2 DEF ImporterOK
  <2> QED BY <1>2, <2>1, <2>2
<1> QED BY <1>1, <1>2, <1>7, <1>12, ImportingLoad DEF MasterInv

LEMMA ImportDiesKeeps == ASSUME MasterInv, ImportDies PROVE MasterInv'
<1>1. importer'.at = "failed" /\ importer.at \in {"saving", "reconciling"}
      /\ importFaults' = importFaults + 1 /\ importFaults < MaxImportFaults
      /\ UNCHANGED <<master, plan, load, imports, reads>>
  BY DEF ImportDies, AtRest
<1>2. MasterTypeOK' /\ ImporterOK'
  BY <1>1, MasterBounds DEF MasterInv, MasterTypeOK, ImporterOK
<1> QED BY <1>1, <1>2, ImportingLoad DEF MasterInv

\* The importer and the tables know nothing of the loader.
LEMMA LoadingImport ==
  ASSUME MasterInv, UNCHANGED <<master, plan, importer, imports, importFaults>>,
         reads' \in 0..MaxReads, load'.at \in {"reasons", "rules", "patterns", "cycles", "units", "loaded"}
  PROVE  MasterTypeOK' /\ ImporterOK'
<1>1. MasterTypeOK'
  BY KindsAre DEF MasterInv, MasterTypeOK
<1>2. ImporterOK'
  BY DEF MasterInv, ImporterOK, SoFar, AllOf, AllWritten, Accepted
<1> QED BY <1>1, <1>2

LEMMA BeginLoadKeeps == ASSUME MasterInv, BeginLoad PROVE MasterInv'
<1>1. /\ load'.at = "reasons" /\ load'.calm = (importer.at = "applied") /\ load'.seen = Nothing
      /\ DOMAIN load' = {"at", "calm", "seen", "units"}
      /\ UNCHANGED <<master, plan, importer, imports, importFaults>> /\ reads' = reads + 1 /\ reads < MaxReads
  BY DEF BeginLoad, NotLoading
<1>2. reads' \in 0..MaxReads
  BY <1>1, MasterBounds DEF MasterInv, MasterTypeOK
<1>3. LoadOK' /\ ImportReachesEngine'
  BY <1>1 DEF LoadOK, ImportReachesEngine, Nothing, SeenOf
<1> QED BY <1>1, <1>2, <1>3, LoadingImport DEF MasterInv

LEMMA SelectKeeps ==
  ASSUME MasterInv, NEW kind \in SeenOf("units"), NEW next \in {"rules", "patterns", "cycles", "units"},
         SeenOf(next) = SeenOf(kind) \union {kind}, Select(kind, next)
  PROVE  MasterInv'
<1>1. PICK l : l = load
  OBVIOUS
<1>2. /\ l.at = kind /\ load' = [l EXCEPT !.at = next, !.seen[kind] = master[kind]]
      /\ UNCHANGED <<master, plan, importer, imports, reads, importFaults>>
      /\ DOMAIN l = {"at", "calm", "seen", "units"} /\ DOMAIN l.seen = SeenOf("units")
  BY <1>1 DEF Select, MasterInv, LoadOK
<1>3. PICK seen : seen = l.seen
  OBVIOUS
<1>4. /\ DOMAIN load' = {"at", "calm", "seen", "units"} /\ load'.at = next /\ load'.calm = l.calm
      /\ load'.seen = [seen EXCEPT ![kind] = master[kind]]
  BY <1>2, <1>3
<1>5. /\ DOMAIN load'.seen = SeenOf("units") /\ load'.seen[kind] = master[kind]
      /\ \A k \in SeenOf(kind) : k # kind => load'.seen[k] = seen[k]
  BY <1>2, <1>3, <1>4 DEF SeenOf
<1>6. l.calm => importer.at = "applied" /\ \A k \in SeenOf(kind) : seen[k] = master[k]
  BY <1>1, <1>2, <1>3 DEF MasterInv, LoadOK
<1>7. LoadOK' /\ ImportReachesEngine'
  BY <1>2, <1>4, <1>5, <1>6 DEF LoadOK, ImportReachesEngine
<1>8. MasterTypeOK' /\ ImporterOK'
  BY <1>2, <1>4, LoadingImport DEF MasterInv, MasterTypeOK
<1> QED BY <1>7, <1>8 DEF MasterInv

\* The rows of an owner, as the plan has them: all are in the table and no others are.
LEMMA SameRows ==
  ASSUME NEW kind \in {"cycles", "rules"}, NEW table, NEW rows, Written(table, rows, DOMAIN rows),
         Counting(kind, table) \subseteq DOMAIN rows, NEW owner
  PROVE  Of(DataOf(table), owner) = Of(rows, owner)
<1>1. DOMAIN table = DOMAIN rows
  BY WrittenRow DEF Counting, Activated
<1>2. \A key \in DOMAIN rows : DataOf(table)[key] = rows[key]
  BY <1>1, WrittenRow DEF DataOf
<1>3. DOMAIN DataOf(table) = DOMAIN rows
  BY <1>1 DEF DataOf
<1> QED BY <1>2, <1>3 DEF Of

LEMMA SelectUnitsKeeps == ASSUME MasterInv, SelectUnits PROVE MasterInv'
<1>1. PICK l : l = load
  OBVIOUS
<1>2. /\ l.at = "units" /\ DOMAIN l = {"at", "calm", "seen", "units"}
      /\ load' = [l EXCEPT !.at = "loaded", !.seen = Nothing, !.units = Resolved(l.seen, master.units)]
      /\ UNCHANGED <<master, plan, importer, imports, reads, importFaults>>
  BY <1>1 DEF SelectUnits, MasterInv, LoadOK
<1>3. /\ load'.at = "loaded" /\ load'.calm = l.calm /\ load'.seen = Nothing
      /\ load'.units = Resolved(l.seen, master.units) /\ DOMAIN load' = {"at", "calm", "seen", "units"}
  BY <1>2
<1>4. LoadOK'
  BY <1>1, <1>2, <1>3 DEF MasterInv, LoadOK, Nothing, SeenOf
<1>5. ASSUME l.calm PROVE ImportReachesEngine'
  <2>1. /\ AllWritten /\ Accepted(plan) /\ \A kind \in KindSet : Settled(kind, master[kind], plan)
        /\ \A kind \in SeenOf("units") : l.seen[kind] = master[kind]
    BY <1>1, <1>2, <1>5 DEF MasterInv, LoadOK, ImporterOK
  <2>2. /\ l.seen.patterns = master.patterns /\ l.seen.cycles = master.cycles
        /\ l.seen.rules = master.rules /\ l.seen.reasons = master.reasons
    BY <2>1 DEF SeenOf
  <2>3. PICK units : units = load'.units
    BY Zenon
  <2>4. /\ DOMAIN units = {u \in DOMAIN master.units : master.units[u].active}
        /\ \A a \in DOMAIN units :
             /\ units[a].slots = SlotsOf(DataOf(master.patterns), master.units[a].data.pattern)
             /\ units[a].producing = master.units[a].data.producing
             /\ units[a].cycles = Of(DataOf(master.cycles), a)
             /\ units[a].unitRules = Of(DataOf(master.rules), a)
             /\ units[a].defaultRules = Of(DataOf(master.rules), Everything)
             /\ units[a].reasons = DataOf(master.reasons)
    BY <1>3, <2>2, <2>3 DEF Resolved
  <2>5. ASSUME "units" \in plan.present
        PROVE  /\ DOMAIN units = DOMAIN plan.units
               /\ \A a \in DOMAIN units :
                    /\ units[a].producing = plan.units[a].producing
                    /\ units[a].slots = plan.patterns[plan.units[a].pattern].slots
                    /\ units[a].cycles = Of(plan.cycles, a)
    <3>1. Counting("units", master["units"]) \subseteq DOMAIN plan.units /\ Counting("cycles", master["cycles"]) \subseteq DOMAIN plan.cycles
      BY <2>1, <2>5, KindsAre DEF Settled, FileOf
    <3>2. \A a \in DOMAIN plan.units : a \in DOMAIN master.units /\ master.units[a].active
                                      /\ master.units[a].data = plan.units[a]
      BY <2>1, KindsAre, WrittenRow DEF AllWritten, AllOf
    <3>3. DOMAIN units = DOMAIN plan.units
      BY <2>4, <3>1, <3>2 DEF Counting, Activated
    <3>4. ASSUME NEW a \in DOMAIN units
          PROVE  units[a].slots = plan.patterns[plan.units[a].pattern].slots
      <4>1. PICK pattern \in DOMAIN plan.patterns : pattern = plan.units[a].pattern
        BY <2>1, <3>3, <3>4 DEF Accepted
      <4>2. pattern \in DOMAIN master.patterns /\ master.patterns[pattern].data = plan.patterns[pattern]
        BY <2>1, KindsAre, WrittenRow DEF AllWritten, AllOf
      <4>3. master.units[a].data.pattern = pattern
        BY <3>2, <3>3, <3>4, <4>1
      <4>4. DataOf(master.patterns)[pattern] = plan.patterns[pattern]
            /\ DOMAIN DataOf(master.patterns) = DOMAIN master.patterns
        BY <4>2 DEF DataOf
      <4>5. SlotsOf(DataOf(master.patterns), pattern) = plan.patterns[pattern].slots
        BY <4>2, <4>4 DEF SlotsOf
      <4> QED BY <2>4, <3>4, <4>1, <4>3, <4>5
    <3>5. \A owner : Of(DataOf(master.cycles), owner) = Of(plan.cycles, owner)
      BY <2>1, <3>1, SameRows, KindsAre DEF AllWritten, AllOf
    <3> QED BY <2>4, <3>2, <3>3, <3>4, <3>5
  <2>6. ASSUME "reasons" \in plan.present
        PROVE  \A a \in DOMAIN units :
                 /\ units[a].unitRules = Of(plan.rules, a)
                 /\ units[a].defaultRules = Of(plan.rules, Everything)
                 /\ \A code \in DOMAIN plan.reasons : units[a].reasons[code] = plan.reasons[code]
    <3>1. Counting("rules", master["rules"]) \subseteq DOMAIN plan.rules
      BY <2>1, <2>6, KindsAre DEF Settled, FileOf
    <3>2. \A owner : Of(DataOf(master.rules), owner) = Of(plan.rules, owner)
      BY <2>1, <3>1, SameRows, KindsAre DEF AllWritten, AllOf
    <3>3. \A code \in DOMAIN plan.reasons : DataOf(master.reasons)[code] = plan.reasons[code]
      BY <2>1, KindsAre, WrittenRow DEF AllWritten, AllOf, DataOf
    <3> QED BY <2>4, <3>2, <3>3
  <2> QED BY <1>2, <2>3, <2>5, <2>6 DEF ImportReachesEngine
<1>6. ImportReachesEngine'
  BY <1>3, <1>5 DEF ImportReachesEngine
<1> QED BY <1>2, <1>3, <1>4, <1>6, LoadingImport DEF MasterInv, MasterTypeOK

LEMMA MasterStep == MasterInv /\ [MasterNext]_masterVars => MasterInv'
<1> SUFFICES ASSUME MasterInv, [MasterNext]_masterVars PROVE MasterInv'
  OBVIOUS
<1>1. CASE Load
  BY <1>1, SelectKeeps DEF Load, SeenOf
<1>2. CASE UNCHANGED masterVars
  BY <1>2 DEF masterVars, MasterInv, MasterTypeOK, ImporterOK, LoadOK, ImportReachesEngine, SoFar,
     AllOf, AllWritten, Accepted
<1> QED BY <1>1, <1>2, ImportKeeps, SavedAllKeeps, SaveKeeps, ReconcileKeeps, ImportDiesKeeps,
           BeginLoadKeeps, SelectUnitsKeeps DEF MasterNext

\* apply_plan and active_units: after an import that ended, and before the next begins, the
\* engine calculates with what the files say, whatever the tables held before.
THEOREM ImportsReachTheEngine == MasterSpec => []ImportReachesEngine
<1>1. MasterInv => ImportReachesEngine
  BY DEF MasterInv
<1> QED BY <1>1, MasterBegins, MasterStep, PTL DEF MasterSpec
=============================================================================
