------------------------------- MODULE OeeShift -------------------------------
(* The arithmetic of one shift (12_uns_oee: states.py, counters.py, classifier.py, *)
(* shift_calendar.py, oee_calc.py and the pure half of pipeline.py): pure functions *)
(* of the rows they are given. `shift` is one question put to them; it never        *)
(* changes. Time is a number of ticks, an interval a half-open <<start, end>>, a    *)
(* series of samples a function from instants to values.                            *)
EXTENDS Integers, Sequences, FiniteSets, FiniteSetsExt, SequencesExt, Functions

CONSTANTS
  Questions,              \* what is asked: see TypeOK
  Producing,              \* producing_states of the unit
  UnitRules, DefaultRules,\* state -> reason code: this unit's rules, the plant-wide ones
  PlannedCodes,           \* reason codes with is_planned
  CycleTimes,             \* product code -> ideal seconds per unit; NoProduct is the Asset default
  NoProduct,
  DayTicks, WeekDays,     \* the length of a day, the days of a week
  Unit,                   \* path of the unit's Asset
  Lookback                \* prior_lookback_hours

VARIABLE shift

-----------------------------------------------------------------------------
(* Interval algebra (states.py). *)

Length(i) == IF i[2] > i[1] THEN i[2] - i[1] ELSE 0
Earlier(i, j) == i[1] < j[1] \/ (i[1] = j[1] /\ i[2] < j[2])
Ticks(is) == UNION {i[1]..(i[2] - 1) : i \in ToSet(is)}

\* The neighbours are kept apart when they touch (a plausible `<` for `<=`).
FaultJoin(merged, i) == IF merged # <<>> /\ i[1] < Last(merged)[2]
                        THEN Append(Front(merged), <<Last(merged)[1], i[2]>>)
                        ELSE Append(merged, i)
Join(merged, i) == IF merged # <<>> /\ i[1] <= Last(merged)[2]
                   THEN Append(Front(merged), <<Last(merged)[1], Max({Last(merged)[2], i[2]})>>)
                   ELSE Append(merged, i)
Merge(is) == FoldLeft(Join, <<>>, SortSeq(SelectSeq(is, LAMBDA i : Length(i) > 0), Earlier))

UnionDuration(is) == FoldLeft(LAMBDA total, i : total + Length(i), 0, Merge(is))

Clipped(i, j) == <<Max({i[1], j[1]}), Min({i[2], j[2]})>>
Intersect(left, right) ==
  Merge(SetToSeq({Clipped(i, j) : i \in ToSet(Merge(left)), j \in ToSet(Merge(right))}))

Cut(i, cut) == IF cut[2] <= i[1] \/ cut[1] >= i[2] THEN <<i>>
               ELSE SelectSeq(<< <<i[1], cut[1]>>, <<cut[2], i[2]>> >>, LAMBDA p : Length(p) > 0)
CutAll(remaining, cut) == FoldLeft(LAMBDA kept, i : kept \o Cut(i, cut), <<>>, remaining)
Subtract(left, right) == FoldLeft(CutAll, Merge(left), Merge(right))

-----------------------------------------------------------------------------
(* What is read: MetricSource._rows and MasterDataLoader.exception_windows. *)

\* The samples of the closed window, after the last one before it within the lookback.
Rows(samples, window) ==
  LET prior == {t \in DOMAIN samples : window[1] - Lookback <= t /\ t < window[1]}
      inside == {t \in DOMAIN samples : window[1] <= t /\ t <= window[2]}
  IN Restrict(samples, inside \union IF prior = {} THEN {} ELSE {Max(prior)})

\* applies_to: an exception of no Asset, of the unit's own or of one above it.
Covers(path) == path = <<>> \/ IsPrefix(path, Unit)

\* The exceptions of the unit, clipped to the window and coalesced.
Exceptions(authored, window) ==
  Merge(SetToSeq({Clipped(e.interval, window) : e \in {e \in authored : Covers(e.path)}}))

\* The rows of a question as run_shift hands them to the arithmetic.
Fetched(q) == [q EXCEPT !.state = Rows(@, q.window), !.product = Rows(@, q.window),
                        !.good = Rows(@, q.window), !.reject = Rows(@, q.window),
                        !.exceptions = Exceptions(@, q.window)]

-----------------------------------------------------------------------------
(* Segments, reasons and counters. *)

InForce(samples, t) == samples[Max({s \in DOMAIN samples : s <= t})]

\* state_segments: the last sample at or before the start opens; equal neighbours coalesce.
StateSegments(samples, window) ==
  LET opening == IF \E t \in DOMAIN samples : t <= window[1] THEN {window[1]} ELSE {}
      points == opening \union {t \in DOMAIN samples : window[1] < t /\ t < window[2]}
      Previous(p) == {q \in points : q < p}
      starts == {p \in points : Previous(p) = {}
                                \/ InForce(samples, Max(Previous(p))) # InForce(samples, p)}
      End(p) == Min({window[2]} \union {q \in starts : q > p})
  IN {[state |-> InForce(samples, p), interval |-> <<p, End(p)>>] : p \in {p \in starts : End(p) > p}}

Intervals(things) == SetToSeq({thing.interval : thing \in things})

\* ReasonResolver.resolve: the unit's rule, the plant-wide one, the floor.
Resolve(state) == CASE state \in DOMAIN UnitRules -> UnitRules[state]
                    [] state \notin DOMAIN UnitRules /\ state \in DOMAIN DefaultRules -> DefaultRules[state]
                    [] OTHER -> "UNCLASSIFIED"

\* classify: an operator's reason, keyed by the start of the stop, wins over the rules.
Classify(stops, manual) ==
  {[interval |-> s.interval,
    code |-> IF s.interval[1] \in DOMAIN manual THEN manual[s.interval[1]] ELSE Resolve(s.state)]
     : s \in stops}

\* Every gap between segments is a stop, except one that starts where a manual reason does.
Unobserved(q, segments) ==
  {[state |-> "UNKNOWN", interval |-> gap]
     : gap \in {gap \in ToSet(Subtract(<<q.window>>, Intervals(segments))) : gap[1] \notin DOMAIN q.manual}}

\* shift_inputs
Stops(q) ==
  LET segments == StateSegments(q.state, q.window)
      NoReasons == [t \in {} |-> "UNCLASSIFIED"]
  IN Classify({s \in segments : s.state \notin Producing}, q.manual)
       \union Classify(Unobserved(q, segments), NoReasons)

\* counter_delta: a step down is a restart whose new value was produced since.
Step(previous, current) == IF current >= previous THEN current - previous ELSE Max({current, 0})
CounterDelta(samples, instants) ==
  FoldSet(LAMBDA t, total :
            LET before == {s \in instants : s < t}
            IN total + IF before = {} THEN 0 ELSE Step(samples[Max(before)], samples[t]),
          0, instants)

\* The climb up to the first reading of the interval is lost.
FaultCounted(samples, from, to) == {t \in DOMAIN samples : from <= t /\ t <= to}
\* counter_delta_in: the baseline is pulled in unless a sample sits on the start.
Counted(samples, from, to) ==
  LET inside == {t \in DOMAIN samples : from <= t /\ t <= to}
      prior == {t \in DOMAIN samples : t < from}
  IN IF inside # {} /\ prior # {} /\ Min(inside) > from THEN inside \union {Max(prior)} ELSE inside
CounterDeltaIn(samples, from, to) == CounterDelta(samples, Counted(samples, from, to))

\* product_segments: what each product ran during and made; one unnamed segment without data.
Produced(samples, is) ==
  FoldLeft(LAMBDA total, i : total + CounterDeltaIn(samples, i[1], i[2]), 0, is)
ProductSegments(q) ==
  LET segments == StateSegments(q.product, q.window)
      Of(code) == Merge(Intervals({s \in segments : s.state = code}))
      Segment(code, is) == [code |-> code, intervals |-> is,
                            good |-> Produced(q.good, is), reject |-> Produced(q.reject, is)]
  IN IF DOMAIN q.product = {} THEN {Segment(NoProduct, <<q.window>>)}
     ELSE {Segment(code, Of(code)) : code \in {s.state : s \in segments}}

\* ideal_cycle_time_for: the product's own, else the Asset default, else none.
HasIdeal(code) == code \in DOMAIN CycleTimes \/ NoProduct \in DOMAIN CycleTimes

-----------------------------------------------------------------------------
(* compute (oee_calc.py) *)

Planned(stops) == Intervals({s \in stops : s.code \in PlannedCodes})
Unplanned(stops) == Intervals({s \in stops : s.code \notin PlannedCodes})

\* The loading time is not cut out of the unplanned stops.
FaultLoading(q) == <<q.window>>
Loading(q) == Subtract(<<q.window>>, Intersect(q.exceptions \o Planned(Stops(q)), <<q.window>>))
Run(q) == Subtract(Loading(q), Intersect(Unplanned(Stops(q)), Loading(q)))

Sum(f(_), S) == FoldSet(LAMBDA x, total : total + f(x), 0, S)

\* _performance_raw and _status; a factor that is None has no number.
Compute(q) ==
  LET products == ProductSegments(q)
      loading == UnionDuration(Loading(q))
      run == UnionDuration(Run(q))
      good == Sum(LAMBDA p : p.good, products)
      total == Sum(LAMBDA p : p.good + p.reject, products)
      producing == {p \in products : p.good + p.reject > 0}
      comparable == run > 0 /\ total > 0
      missing == comparable /\ \E p \in producing : ~HasIdeal(p.code)
      status == CASE loading = 0 -> "NO_LOADING_TIME"
                  [] loading > 0 /\ ~comparable -> "NO_PRODUCTION"
                  [] loading > 0 /\ missing -> "MISSING_IDEAL_CYCLE_TIME"
                  [] OTHER -> "OK"
  IN [status |-> status, loading |-> loading, run |-> run, good |-> good, total |-> total,
      planned |-> UnionDuration(Intersect(q.exceptions \o Planned(Stops(q)), <<q.window>>)),
      unplanned |-> UnionDuration(Intersect(Unplanned(Stops(q)), Loading(q))),
      times |-> {[code |-> p.code, run |-> UnionDuration(Intersect(p.intervals, Run(q)))] : p \in products}]

-----------------------------------------------------------------------------
(* The shift calendar: a zone changes its offset once, at the instant zone.at. *)

Local(zone, u) == u + IF u < zone.at THEN zone.before ELSE zone.after

\* resolve_local with fold=0: the earlier of two instants, the old offset for a skipped one.
Instant(zone, l) == IF l < zone.at + Max({zone.before, zone.after}) THEN l - zone.before ELSE l - zone.after

\* The shift keeps its real length instead of its length on the wall.
FaultShiftWindow(zone, day, slot) ==
  LET start == Instant(zone, day * DayTicks + slot.start) IN <<start, start + slot.duration>>
ShiftWindow(zone, day, slot) ==
  LET start == day * DayTicks + slot.start
  IN <<Instant(zone, start), Instant(zone, start + slot.duration)>>

\* shift_windows: the local dates from a day before to a day after the range.
ShiftWindows(zone, slots, from, to) ==
  LET days == ((Local(zone, from) - DayTicks) \div DayTicks)..((Local(zone, to) + DayTicks) \div DayTicks)
      all == UNION {{ShiftWindow(zone, day, slot) : slot \in {s \in slots : s.day = day % WeekDays}}
                      : day \in days}
  IN IF to <= from THEN {} ELSE {w \in all : from <= w[1] /\ w[1] < to}

-----------------------------------------------------------------------------
Init == shift \in Questions
Spec == Init /\ [][UNCHANGED shift]_shift

TypeOK == shift.ask \in {"algebra", "shift", "calendar"}

\* The interval lists behave as sets of instants and merge() leaves no two that touch
\* (states.py: "Never sum durations").
AlgebraIsSets == shift.ask = "algebra" =>
  LET left == shift.left  right == shift.right  merged == Merge(left)
  IN /\ Ticks(merged) = Ticks(left)
     /\ \A k \in 2..Len(merged) : merged[k - 1][2] < merged[k][1]
     /\ Ticks(Intersect(left, right)) = Ticks(left) \intersect Ticks(right)
     /\ Ticks(Subtract(left, right)) = Ticks(left) \ Ticks(right)
     /\ UnionDuration(left) = Cardinality(Ticks(left))

\* What a tick of the window is, from the rows alone.
Seen(q, t) == \E s \in DOMAIN q.state : q.window[1] - Lookback <= s /\ s <= t
Excepted(q, t) == \E e \in q.exceptions : t \in Ticks(<<e.interval>>) /\ e.path \in {<<>>, Unit, Front(Unit)}
StopStart(q, t) ==
  LET state == InForce(q.state, t)
      differs == {s \in q.window[1]..t : Seen(q, s) /\ InForce(q.state, s) # state}
  IN Max({q.window[1], Min({s \in DOMAIN q.state : q.window[1] - Lookback <= s})} \union {s + 1 : s \in differs})
CodeAt(q, t) == LET start == StopStart(q, t)
                IN IF start \in DOMAIN q.manual THEN q.manual[start] ELSE Resolve(InForce(q.state, t))
KindAt(q, t) ==
  CASE Excepted(q, t) -> "planned"
    [] ~Excepted(q, t) /\ ~Seen(q, t) -> "unplanned"
    [] ~Excepted(q, t) /\ Seen(q, t) ->
         IF InForce(q.state, t) \in Producing THEN "run"
         ELSE IF CodeAt(q, t) \in PlannedCodes THEN "planned" ELSE "unplanned"

\* No product is reported, or one is in force when the shift begins.
ProductKnown(q) == LET product == Rows(q.product, q.window)
                   IN DOMAIN product = {} \/ \E s \in DOMAIN product : s <= q.window[1]

\* Each tick of a shift is planned down, unplanned down or run, once, for the reason the
\* rows give, whatever overlaps, and the products share the run time (compute). An
\* unobserved opening whose start carries an operator's reason is left out: the code counts
\* it as run time (`gap.start not in manual`).
TimeAddsUp == shift.ask = "shift" /\ (Seen(shift, shift.window[1]) \/ shift.window[1] \notin DOMAIN shift.manual) =>
  LET q == shift
      Of(kind) == Cardinality({t \in Ticks(<<q.window>>) : KindAt(q, t) = kind})
  IN \A fetched \in {Fetched(q)} : \A result \in {Compute(fetched)} :
     /\ result.planned = Of("planned")
     /\ result.unplanned = Of("unplanned")
     /\ result.run = Of("run")
     /\ result.loading = result.run + result.unplanned
     /\ ProductKnown(q) => Sum(LAMBDA p : p.run, result.times) = result.run

\* "The per-product totals therefore sum to the shift's" (_segment), restarts of the counter
\* and missing boundary samples included, when the first product is known at the start.
CountsAddUp == shift.ask = "shift" =>
  \A q \in {Fetched(shift)} : ProductKnown(q) => Compute(q).good = CounterDeltaIn(q.good, q.window[1], q.window[2])

\* A shift belongs to the range its start is in, once, and no instant belongs to two shifts
\* across a change of the clock (shift_windows), unless a shift begins or ends inside the
\* hour that the clock skips.
CalendarOnce == shift.ask = "calendar" =>
  LET zone == shift.zone  slots == shift.slots
      Windows(from, to) == ShiftWindows(zone, slots, from, to)
      all == Windows(shift.from, shift.to)
      skipped == (zone.at + zone.before + 1)..(zone.at + zone.after - 1)
      Edges == UNION {{day * DayTicks + s.start, day * DayTicks + s.start + s.duration}
                        : day \in -1..2, s \in slots}
  IN /\ Windows(shift.from, shift.mid) \union Windows(shift.mid, shift.to) = all
     /\ Windows(shift.from, shift.mid) \intersect Windows(shift.mid, shift.to) = {}
     /\ (Edges \intersect skipped = {}) =>
          \A v, w \in all : v # w => Ticks(<<v>>) \intersect Ticks(<<w>>) = {}

=============================================================================
