---------------------------- MODULE OeeMasterData ----------------------------
(* The import of conf/oee/*.yaml into the OEE master data (uns_model: oee_seed.py, *)
(* oee_master_data.py, oee_tables.py) and the engine's read of it (uns_oee:        *)
(* master_data.py). The import is one transaction per row; the read is five        *)
(* selects that each see what is committed when they run.                          *)
EXTENDS Integers, Sequences

CONSTANTS
  Plans,       \* what the YAML files may say: see PlanOf
  ModelAssets, \* Assets of the model
  Before,      \* what earlier imports and migration 0003 left in the tables
  Everything,  \* the Asset of a row that is for every one (NULL in the tables)
  MaxImports, MaxReads, MaxImportFaults

VARIABLES
  master,   \* the tables: kind of row -> (key -> [data, active])
  plan,     \* the plan of the last import
  importer, \* the running import: the kind of row it is at and the rows of it left
  load,     \* the engine's read: the select that comes next, what the selects saw, the units
  imports, reads, importFaults

masterVars == <<master, plan, importer, load, imports, reads, importFaults>>

-----------------------------------------------------------------------------
(* A plan: `present` are the files there are, the rest what they hold. The order of   *)
(* apply_plan: saves first, products before the cycle times and units before the rules.*)
Kinds == <<"products", "reasons", "patterns", "exceptions", "units", "cycles", "rules">>
FileOf(kind) == CASE kind \in {"patterns", "exceptions"} -> "shifts"
                  [] kind \in {"units", "cycles"} -> "units"
                  [] kind = "products" -> "products"
                  [] kind \in {"reasons", "rules"} -> "reasons"

\* plan_from_oee_config: cross-references that the files must settle among themselves.
Accepted(p) ==
  /\ \A a \in DOMAIN p.units : p.units[a].pattern \in DOMAIN p.patterns
  /\ \A k \in DOMAIN p.cycles : k[2] = Everything \/ k[2] \in DOMAIN p.products
  /\ \A k \in DOMAIN p.rules : \A a \in DOMAIN p.units : k[2] \notin p.units[a].producing

\* The row of an upsert; what a reconcile had deactivated is revived. A table without the
\* column active has it TRUE.
Activated == {"patterns", "units", "products"}
FaultRow(kind, key, value) ==
  [data |-> value, active |-> kind \in Activated /\ key \in DOMAIN master[kind] => master[kind][key].active]
Row(kind, key, value) == [data |-> value, active |-> TRUE]
Upserted(table, key, row) == [k \in DOMAIN table \union {key} |-> IF k = key THEN row ELSE table[k]]
OnlyKeys(table, keys) == [k \in DOMAIN table \intersect keys |-> table[k]]

\* Lookups that raise, and foreign keys that Postgres enforces (save_*).
Refused(kind, key, value) ==
  LET KnownAsset(a) == a \in ModelAssets
  IN CASE kind = "exceptions" -> key.asset # Everything /\ ~KnownAsset(key.asset)
       [] kind = "units" -> ~KnownAsset(key) \/ value.pattern \notin DOMAIN master.patterns
       [] kind = "cycles" -> ~KnownAsset(key[1])
                             \/ (key[2] # Everything /\ key[2] \notin DOMAIN master.products)
       [] kind = "rules" -> (key[1] # Everything /\ key[1] \notin DOMAIN master.units)
                            \/ value.code \notin DOMAIN master.reasons
       [] OTHER -> FALSE

\* reconcile_*: units, patterns and products are deactivated, the others deleted.
Reconciled(kind) ==
  LET table == master[kind]  kept == DOMAIN plan[kind]
  IN CASE kind \in Activated -> [key \in DOMAIN table |-> [data |-> table[key].data, active |-> table[key].active /\ key \in kept]]
       [] kind \in {"exceptions", "cycles", "rules"} -> OnlyKeys(table, kept)
       [] kind = "reasons" -> table

-----------------------------------------------------------------------------
AtRest == [at |-> "resting", kind |-> 0, rows |-> {}]
Selects == <<"reasons", "rules", "patterns", "cycles", "units">>
Nothing == [kind \in {"reasons", "rules", "patterns", "cycles"} |-> <<>>]
NotLoading == [at |-> "resting", calm |-> FALSE, seen |-> Nothing, units |-> <<>>]

MasterInit ==
  /\ master \in Before
  /\ plan \in Plans
  /\ importer = AtRest
  /\ load = NotLoading
  /\ imports = 0 /\ reads = 0 /\ importFaults = 0

\* uns_model_oee_import, the files edited since the last time or not.
Import(p) ==
  /\ importer.at \notin {"saving", "reconciling"} /\ imports < MaxImports /\ Accepted(p)
  /\ imports' = imports + 1 /\ plan' = p
  /\ importer' = [at |-> "saving", kind |-> 1, rows |-> DOMAIN p[Kinds[1]]]
  /\ load' = [load EXCEPT !.calm = FALSE]
  /\ UNCHANGED <<master, reads, importFaults>>

\* The rows of this kind are all saved: the next kind, then the reconciliation.
SavedAll ==
  /\ importer.at = "saving" /\ importer.rows = {}
  /\ importer' = IF importer.kind < Len(Kinds)
                 THEN [importer EXCEPT !.kind = @ + 1, !.rows = DOMAIN plan[Kinds[importer.kind + 1]]]
                 ELSE [at |-> "reconciling", kind |-> 1, rows |-> {}]
  /\ UNCHANGED <<master, plan, load, imports, reads, importFaults>>

\* save_product ... save_state_reason_rule: one row, one transaction.
SaveRow ==
  /\ importer.at = "saving"
  /\ \E key \in importer.rows :
       LET kind == Kinds[importer.kind]  value == plan[kind][key]
       IN IF Refused(kind, key, value)
          THEN importer' = [AtRest EXCEPT !.at = "failed"] /\ UNCHANGED master
          ELSE /\ master' = [master EXCEPT ![kind] = Upserted(@, key, Row(kind, key, value))]
               /\ importer' = [importer EXCEPT !.rows = @ \ {key}]
  /\ UNCHANGED <<plan, load, imports, reads, importFaults>>

\* reconcile_products ... reconcile_state_reason_rules, of the files that are there.
Reconcile ==
  /\ importer.at = "reconciling"
  /\ LET kind == Kinds[importer.kind]
     IN master' = IF FileOf(kind) \in plan.present THEN [master EXCEPT ![kind] = Reconciled(kind)] ELSE master
  /\ importer' = IF importer.kind < Len(Kinds) THEN [importer EXCEPT !.kind = @ + 1]
                 ELSE [AtRest EXCEPT !.at = "applied"]
  /\ UNCHANGED <<plan, load, imports, reads, importFaults>>

\* The importer's container dies between two transactions.
ImportDies ==
  /\ importer.at \in {"saving", "reconciling"} /\ importFaults < MaxImportFaults
  /\ importFaults' = importFaults + 1
  /\ importer' = [AtRest EXCEPT !.at = "failed"]
  /\ UNCHANGED <<master, plan, load, imports, reads>>

-----------------------------------------------------------------------------
(* MasterDataLoader.active_units *)

BeginLoad ==
  /\ load.at \in {"resting", "loaded"} /\ reads < MaxReads
  /\ reads' = reads + 1
  /\ load' = [NotLoading EXCEPT !.at = "reasons", !.calm = importer.at = "applied"]
  /\ UNCHANGED <<master, plan, importer, imports, importFaults>>

\* reasons, rules, slots, cycle times: each select with what is committed by now.
Select(kind, next) ==
  /\ load.at = kind
  /\ load' = [load EXCEPT !.at = next, !.seen[kind] = master[kind]]
  /\ UNCHANGED <<master, plan, importer, imports, reads, importFaults>>

\* _resolve: the unit with its slots, its cycle times and its two maps of rules.
DataOf(table) == [key \in DOMAIN table |-> table[key].data]
Of(rows, owner) == [key \in {k \in DOMAIN rows : k[1] = owner} |-> rows[key]]
SlotsOf(patterns, pattern) == IF pattern \in DOMAIN patterns THEN patterns[pattern].slots ELSE {}
Resolved(seen, units) ==
  [a \in {u \in DOMAIN units : units[u].active} |->
     [slots |-> SlotsOf(DataOf(seen.patterns), units[a].data.pattern),
      producing |-> units[a].data.producing,
      cycles |-> Of(DataOf(seen.cycles), a),
      unitRules |-> Of(DataOf(seen.rules), a),
      defaultRules |-> Of(DataOf(seen.rules), Everything),
      reasons |-> DataOf(seen.reasons)]]

\* The select of the units, and the records that the calculation works with.
SelectUnits ==
  /\ load.at = "units"
  /\ load' = [load EXCEPT !.at = "loaded", !.seen = Nothing, !.units = Resolved(load.seen, master.units)]
  /\ UNCHANGED <<master, plan, importer, imports, reads, importFaults>>

Load ==
  \/ Select("reasons", "rules") \/ Select("rules", "patterns")
  \/ Select("patterns", "cycles") \/ Select("cycles", "units")

MasterNext ==
  \/ \E p \in Plans : Import(p)
  \/ SavedAll \/ SaveRow \/ Reconcile \/ ImportDies
  \/ BeginLoad \/ Load \/ SelectUnits

MasterSpec == MasterInit /\ [][MasterNext]_masterVars

-----------------------------------------------------------------------------
KindSet == {Kinds[i] : i \in DOMAIN Kinds}

\* What earlier imports left are rows of these tables.
ASSUME BeforeAssumption == \A tables \in Before :
  /\ DOMAIN tables = KindSet
  /\ \A kind \in KindSet : \A key \in DOMAIN tables[kind] :
       DOMAIN tables[kind][key] = {"data", "active"} /\ tables[kind][key].active \in BOOLEAN
ASSUME MasterBounds == {MaxImports, MaxReads, MaxImportFaults} \subseteq Nat

MasterTypeOK ==
  /\ DOMAIN master = KindSet /\ plan \in Plans
  /\ \A kind \in KindSet : \A key \in DOMAIN master[kind] :
       DOMAIN master[kind][key] = {"data", "active"} /\ master[kind][key].active \in BOOLEAN
  /\ importer.at \in {"resting", "saving", "reconciling", "applied", "failed"}
  /\ importer.at = "saving" => importer.rows \subseteq DOMAIN plan[Kinds[importer.kind]]
  /\ load.at \in {Selects[i] : i \in DOMAIN Selects} \union {"resting", "loaded"}
  /\ imports \in 0..MaxImports /\ reads \in 0..MaxReads /\ importFaults \in 0..MaxImportFaults

\* What the engine calculates with is what the files say, as far as there are files, once an
\* import has ended and before the next begins: whatever earlier imports and imports that
\* died halfway left in the tables (apply_plan, "idempotent by natural key").
ImportReachesEngine ==
  load.at = "loaded" /\ load.calm =>
    LET units == load.units
    IN /\ "units" \in plan.present =>
            /\ DOMAIN units = DOMAIN plan.units
            /\ \A a \in DOMAIN units :
                 /\ units[a].producing = plan.units[a].producing
                 /\ units[a].slots = plan.patterns[plan.units[a].pattern].slots
                 /\ units[a].cycles = Of(plan.cycles, a)
       /\ "reasons" \in plan.present =>
            \A a \in DOMAIN units :
              /\ units[a].unitRules = Of(plan.rules, a)
              /\ units[a].defaultRules = Of(plan.rules, Everything)
              /\ \A code \in DOMAIN plan.reasons : units[a].reasons[code] = plan.reasons[code]

=============================================================================
