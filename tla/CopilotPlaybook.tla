--------------------------- MODULE CopilotPlaybook ---------------------------
(* What the Factory Copilot looks up before the model is asked (13_uns_factory_agent: *)
(* playbook.py, context_pack.py, scope_sql.py, tools_sql.py, tools_graphql.py): the    *)
(* steps of a kind of question, each scoped to the focus of the page and the Access    *)
(* Groups of the caller, and told to the model within one budget.                      *)
EXTENDS Integers, Sequences, SequencesExt, FiniteSets, FiniteSetsExt, Folds

CONSTANTS
  Lookups,    \* [kind, focus, unrestricted, roots, rows, broken]; rows: Seq of [path, size]
  AdminRoots, \* paths of ENTERPRISE and SITE assets
  RowCap,     \* LIMIT 200 and ROW_CAP
  Budget,     \* OBSERVATION_BUDGET_CHARS
  Label, Note \* characters of "store: " and of "I cannot see ..."

VARIABLE lookup

NoFocus == <<>>
Covers(path, root) == IsPrefix(root, path)

\* run_playbook: the tools of a kind of question, in their order.
StepsOf(kind) ==
  CASE kind = "alarms_on_focus" -> <<"alarms">>
    [] kind = "metric_vs_window" -> <<"metrics", "window", "live">>
    [] kind = "publishers_on_path" -> <<"publishers", "live">>
    [] kind = "performance_rca" -> <<"metrics", "window", "downtime", "alarms", "live">>
    [] kind = "plant_overview" -> <<"alarms", "publishers", "map">>
    [] kind \in {"platform_map", "platform_health", "other"} -> <<>>

\* resolve_paths: what is selected on the page, or the plant the caller may see.
Paths(l) ==
  IF l.focus # NoFocus THEN {l.focus} ELSE IF l.unrestricted THEN AdminRoots ELSE l.roots

Under(row, paths) == \E p \in paths : Covers(row.path, p)
\* _path_predicate: TRUE without a path
FaultPredicate(row, paths) == TRUE
Predicate(row, paths) == paths = {} \/ Under(row, paths)
\* wrap_select, filter of the GraphQL service
InScope(row, l) == l.unrestricted \/ Under(row, l.roots)

First(rows, n) == IF Len(rows) <= n THEN rows ELSE SubSeq(rows, 1, n)

\* query_asset_model, query_historian: the template's LIMIT comes before the scope.
SqlRows(l) ==
  LET limited == First(SelectSeq(l.rows, LAMBDA r : Predicate(r, Paths(l))), RowCap)
  IN First(SelectSeq(limited, LAMBDA r : InScope(r, l)), RowCap)
\* query_live asks for what is below each path.
LiveRows(l) == SelectSeq(l.rows, LAMBDA r : InScope(r, l) /\ \E p \in Paths(l) : Covers(r.path, p) /\ r.path # p)
\* query_alarms, _under_a_path
AlarmRows(l) == SelectSeq(l.rows, LAMBDA r : InScope(r, l) /\ Under(r, Paths(l)))

\* A step that raises has no rows.
RowsOf(l, step) ==
  CASE step \in l.broken -> <<>>
    [] step = "live" /\ step \notin l.broken -> LiveRows(l)
    [] step = "alarms" /\ step \notin l.broken -> AlarmRows(l)
    [] step \notin {"live", "alarms"} \union l.broken -> SqlRows(l)

SizeOf(rows) == Label + FoldLeft(LAMBDA n, r : n + r.size, 0, rows)
\* _record: the most rows that fit, none of which is cut; nothing when not one fits.
Fitting(rows, left) == {n \in 1..Len(rows) : SizeOf(First(rows, n)) <= left}
Chunk(rows, left) ==
  CASE rows = <<>> -> IF Note <= left THEN [says |-> "nothing", rows |-> <<>>, size |-> Note]
                      ELSE [says |-> "skipped", rows |-> <<>>, size |-> 0]
    [] rows # <<>> ->
         IF Fitting(rows, left) = {} THEN [says |-> "skipped", rows |-> <<>>, size |-> 0]
         ELSE LET kept == First(rows, Max(Fitting(rows, left)))
              IN [says |-> "rows", rows |-> kept, size |-> SizeOf(kept)]

\* run_playbook: the steps share the budget.
Observe(l) ==
  FoldLeft(LAMBDA told, step :
             LET spent == FoldLeft(LAMBDA n, c : n + c.size, 0, told)
             IN Append(told, Chunk(RowsOf(l, step), Budget - spent)),
           <<>>, StepsOf(l.kind))

-----------------------------------------------------------------------------
Init == lookup \in Lookups

TypeOK ==
  LET told == Observe(lookup)
  IN /\ Len(told) = Len(StepsOf(lookup.kind))
     /\ FoldLeft(LAMBDA n, c : n + c.size, 0, told) <= Budget

\* Everything that the model is told lies in the caller's Access Groups and in the focus of
\* the page ("a Copilot turn scoped to P101 only ever reads P101's rows").
ToldInFocus == \A i \in DOMAIN Observe(lookup) : \A row \in ToSet(Observe(lookup)[i].rows) :
  InScope(row, lookup) /\ (lookup.focus # NoFocus => Covers(row.path, lookup.focus))

\* "I cannot see ..." is said when nothing is there: of a focus within the caller's Access
\* Groups, or none, and a lookup that did not fail.
Within(l) == l.focus = NoFocus \/ l.unrestricted \/ \E r \in l.roots : Covers(l.focus, r)
There(l, step) == {r \in ToSet(l.rows) : InScope(r, l) /\ Under(r, Paths(l)) /\ (step = "live" => r.path \notin Paths(l))}
NothingIsNothing ==
  LET told == Observe(lookup)  steps == StepsOf(lookup.kind)
  IN Within(lookup) => \A i \in DOMAIN told :
       told[i].says = "nothing" /\ steps[i] \notin lookup.broken => There(lookup, steps[i]) = {}

=============================================================================
