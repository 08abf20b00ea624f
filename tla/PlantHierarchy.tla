---------------------------- MODULE PlantHierarchy ----------------------------
(* Renaming the plant: saveHierarchy writes the tree to settings.yaml, reseeds   *)
(* the Asset Model and moves the stored data of each renamed prefix, first in    *)
(* the historian and then in the graph.  A job file remembers the renames that   *)
(* are left, for retryHierarchyMigrate after a failure or a crash.  A path is a  *)
(* sequence of segments; a tree is the set of its nodes' paths.  One GraphQL     *)
(* process: _migrate_lock admits one request at a time.                         *)
EXTENDS AssetPaths

CONSTANTS
  Trees,         \* trees that are stored or submitted
  RenameLists,   \* submitted renames: sequences of [old, new] paths
  AreaDepth,     \* depth of the Asset Level AREA
  GroupNames,    \* names of groups that an administrator makes
  MaxSaves, MaxRetries, MaxPublished, MaxGroupEdits, MaxSaveFaults  \* bounds

VARIABLES
  tree,      \* default.hierarchy of settings.yaml
  branding,  \* the enterprise that branding and the mapper filters name
  assets,    \* paths of model.asset
  groups,    \* access group: name -> paths of its roots
  bindings,  \* topic_binding: topic -> path of its Asset, or <<>>
  job,       \* hierarchy_job.yaml: [status, pending, stale]
  history,   \* topics with rows in the historian
  graph,     \* paths of the ISA-95 nodes of the graph
  request,   \* the mutation that holds the lock: [at, tree, pending]
  torn,      \* a reseed was interrupted and no later one has ended
  saves, retries, published, groupEdits, saveFaults

hierarchyVars == <<tree, branding, assets, groups, bindings, job, history, graph, request, torn,
                   saves, retries, published, groupEdits, saveFaults>>
seeded == <<assets, groups, bindings>>
stores == <<history, graph>>
files == <<tree, branding, job>>
hierarchyCounters == <<saves, retries, published, groupEdits, saveFaults>>

Moved(path, r) == IF Under(path, r.old) THEN r.new \o SubSeq(path, Len(r.old) + 1, Len(path)) ELSE path
Leaves(t) == {p \in t : \A q \in t : q # p => ~Under(q, p)}
EnterpriseOf(t) == (CHOOSE p \in t : Len(p) = 1)[1]

\* all_prefixes: the one enterprise, and with a node every node above it.
ASSUME TreesAssumption ==
  \A t \in Trees :
    /\ t \subseteq Seq(STRING)
    /\ \A p \in t : Under(p, <<EnterpriseOf(t)>>) /\ PrefixesOf(p) \subseteq t
ASSUME RenamesAssumption ==
  RenameLists \subseteq Seq([old : Seq(STRING), new : Seq(STRING)])

\* validate_renames, with the trees' own paths for all_prefixes.
Valid(new, previous, renames) ==
  /\ \A i \in DOMAIN renames :
       /\ renames[i].old \in previous /\ renames[i].new \in new
       /\ renames[i].old = renames[i].new \/ renames[i].old \notin new
  /\ \A i, j \in DOMAIN renames :
       i # j => ~IsStrictPrefix(renames[i].old, renames[j].old)

NoRequest == [at |-> "idle"]
NoJob == [status |-> "idle", pending |-> <<>>, stale |-> FALSE]
RunningJob(pending) == [status |-> "running", pending |-> pending, stale |-> FALSE]
\* _record_from_raw: a running record is read as failed five minutes after its start.
StatusRead == IF job.status = "running" /\ job.stale THEN "failed" ELSE job.status

\* upsert_area_groups: one group by area segment; its roots are replaced.
AreaGroups(paths) ==
  LET areas == {p \in paths : Len(p) = AreaDepth}
  IN [n \in {p[AreaDepth] : p \in areas} |-> {CHOOSE p \in areas : p[AreaDepth] = n}]
WithAreaGroups(old, paths) ==
  [n \in DOMAIN old \union DOMAIN AreaGroups(paths) |->
     IF n \in DOMAIN AreaGroups(paths) THEN AreaGroups(paths)[n] ELSE old[n]]

HierarchyInit ==
  /\ tree \in Trees
  /\ branding = EnterpriseOf(tree)
  /\ assets = tree
  /\ groups = AreaGroups(tree)
  /\ bindings = [t \in Leaves(tree) |-> t]
  /\ job = NoJob
  /\ history = Leaves(tree) /\ graph = tree
  /\ request = NoRequest
  /\ torn = FALSE
  /\ saves = 0 /\ retries = 0 /\ published = 0 /\ groupEdits = 0 /\ saveFaults = 0

------------------------------------------------------------------------------
(* saveHierarchy, up to the migration.                                         *)

\* The checks, and the running record; without renames the record stays as it is.
BeginSave(new, renames) ==
  /\ request.at = "idle" /\ saves < MaxSaves
  /\ renames # <<>> => StatusRead # "running"
  /\ Valid(new, tree, renames)
  /\ job' = IF renames = <<>> THEN job ELSE RunningJob(renames)
  /\ request' = [at |-> "tree", tree |-> new, pending |-> renames]
  /\ saves' = saves + 1
  /\ UNCHANGED <<tree, branding, seeded, stores, torn, retries, published, groupEdits, saveFaults>>

\* save_plant_tree replaces the file in one step.
WriteTree ==
  /\ request.at = "tree"
  /\ tree' = request.tree
  /\ torn' = TRUE
  /\ request' = [request EXCEPT !.at = "branding"]
  /\ UNCHANGED <<branding, job, seeded, stores, hierarchyCounters>>

\* write_enterprise_settings.
WriteBranding ==
  /\ request.at = "branding"
  /\ branding' = EnterpriseOf(request.tree)
  /\ request' = [request EXCEPT !.at = "branches"]
  /\ UNCHANGED <<tree, job, seeded, stores, torn, hierarchyCounters>>

\* apply_plan: ensure_branch for every branch of the plan.
SeedBranches ==
  /\ request.at = "branches"
  /\ assets' = assets \union request.tree
  /\ request' = [request EXCEPT !.at = "prune"]
  /\ UNCHANGED <<files, groups, bindings, stores, torn, hierarchyCounters>>

FaultExtra(t) == {p \in assets : p \notin t /\ Len(p) <= AreaDepth}
\* _prune_removed_assets: what is not planned, under the plan's own enterprise.
Extra(t) == {p \in assets : p \notin t /\ Under(p, <<EnterpriseOf(t)>>)}

\* delete_asset takes the descendants; roots and bindings follow their foreign keys.
Prune ==
  LET kept == assets \ Extra(request.tree) IN
  /\ request.at = "prune"
  /\ assets' = kept
  /\ groups' = [n \in DOMAIN groups |-> groups[n] \intersect kept]
  /\ bindings' = [t \in DOMAIN bindings |-> IF bindings[t] \in kept THEN bindings[t] ELSE <<>>]
  /\ request' = [request EXCEPT !.at = "rebind"]
  /\ UNCHANGED <<files, stores, torn, hierarchyCounters>>

Rebind ==
  /\ request.at = "rebind"
  /\ bindings' = [t \in DOMAIN bindings |-> Best(t, assets)]
  /\ request' = [request EXCEPT !.at = "groups"]
  /\ UNCHANGED <<files, assets, groups, stores, torn, hierarchyCounters>>

\* upsert_area_groups ends the reseed; without renames the request is answered.
SeedGroups ==
  /\ request.at = "groups"
  /\ groups' = WithAreaGroups(groups, assets)
  /\ torn' = FALSE
  /\ request' = IF request.pending = <<>> THEN NoRequest ELSE [request EXCEPT !.at = "record"]
  /\ UNCHANGED <<files, assets, bindings, stores, hierarchyCounters>>

------------------------------------------------------------------------------
(* _run_migrate, from a save or from a retry.                                  *)

\* retryHierarchyMigrate adopts a failed or a running record.
BeginRetry ==
  /\ request.at = "idle" /\ retries < MaxRetries
  /\ job.status \in {"failed", "running"} /\ job.pending # <<>>
  /\ request' = [at |-> "record", tree |-> tree, pending |-> job.pending]
  /\ retries' = retries + 1
  /\ UNCHANGED <<files, seeded, stores, torn, saves, published, groupEdits, saveFaults>>

CurrentPair == Head(request.pending)

\* The record names the pairs that are left, before each of them and after the last.
WriteRecord ==
  /\ request.at = "record"
  /\ IF request.pending = <<>>
     THEN job' = [NoJob EXCEPT !.status = "done"] /\ request' = NoRequest
     ELSE job' = RunningJob(request.pending) /\ request' = [request EXCEPT !.at = "historian"]
  /\ UNCHANGED <<tree, branding, seeded, stores, torn, hierarchyCounters>>

\* rewrite_topic_prefix: one transaction.
RewriteHistorian ==
  /\ request.at = "historian" /\ CurrentPair.old # CurrentPair.new
  /\ history' = {Moved(t, CurrentPair) : t \in history}
  /\ request' = [request EXCEPT !.at = "graph"]
  /\ UNCHANGED <<files, seeded, graph, torn, hierarchyCounters>>

\* rewrite_graph_prefix renames a node beside its siblings, and only there.
Renames == Front(CurrentPair.old) = Front(CurrentPair.new)
Collides == CurrentPair.old \in graph /\ CurrentPair.new \in graph

RewriteGraph ==
  /\ request.at = "graph" /\ Renames /\ ~Collides
  /\ graph' = {Moved(p, CurrentPair) : p \in graph}
  /\ request' = [request EXCEPT !.at = "record", !.pending = Tail(@)]
  /\ UNCHANGED <<files, seeded, history, torn, hierarchyCounters>>

FaultUnfinished(pending) == Tail(pending)
\* The pair that failed stays the first one of the record.
Unfinished(pending) == pending
FailedJob == [status |-> "failed", pending |-> Unfinished(request.pending), stale |-> FALSE]

\* The prefixes are equal, have different parents, or the new name is taken.
MigrateRaises ==
  /\ \/ request.at = "historian" /\ CurrentPair.old = CurrentPair.new
     \/ request.at = "graph" /\ (~Renames \/ Collides)
  /\ job' = FailedJob /\ request' = NoRequest
  /\ UNCHANGED <<tree, branding, seeded, stores, torn, hierarchyCounters>>

\* A database does not answer: the migration is recorded as failed.
MigrateFails ==
  /\ request.at \in {"historian", "graph"}
  /\ saveFaults < MaxSaveFaults /\ saveFaults' = saveFaults + 1
  /\ job' = FailedJob /\ request' = NoRequest
  /\ UNCHANGED <<tree, branding, seeded, stores, torn, saves, retries, published, groupEdits>>

\* Before the migration an exception leaves the record as it is; so does a crash.
RequestDies ==
  /\ request.at # "idle"
  /\ saveFaults < MaxSaveFaults /\ saveFaults' = saveFaults + 1
  /\ request' = NoRequest
  /\ UNCHANGED <<files, seeded, stores, torn, saves, retries, published, groupEdits>>

------------------------------------------------------------------------------
(* Time, administrators and the plant.                                        *)

StaleAfter ==
  /\ job.status = "running" /\ ~job.stale
  /\ job' = [job EXCEPT !.stale = TRUE]
  /\ UNCHANGED <<tree, branding, seeded, stores, request, torn, hierarchyCounters>>

\* save_group and delete_group of an administrator: at least one root that exists.
SaveGroup(name, root) ==
  /\ groupEdits < MaxGroupEdits /\ root \in assets
  /\ groups' = [n \in DOMAIN groups \union {name} |-> IF n = name THEN {root} ELSE groups[n]]
  /\ groupEdits' = groupEdits + 1
  /\ UNCHANGED <<files, assets, bindings, stores, request, torn, saves, retries, published, saveFaults>>

DeleteGroup(name) ==
  /\ groupEdits < MaxGroupEdits /\ name \in DOMAIN groups
  /\ groups' = [n \in DOMAIN groups \ {name} |-> groups[n]]
  /\ groupEdits' = groupEdits + 1
  /\ UNCHANGED <<files, assets, bindings, stores, request, torn, saves, retries, published, saveFaults>>

\* Data arrives at a node of the tree.  "The rename sticks only after the publisher is
\* retargeted" (ADR-0005): nobody publishes below a prefix that is being renamed.
Publish(topic) ==
  /\ published < MaxPublished /\ topic \in Leaves(tree)
  /\ \A i \in DOMAIN job.pending : ~Under(topic, job.pending[i].old)
  /\ history' = history \union {topic}
  /\ graph' = graph \union PrefixesOf(topic)
  /\ bindings' = [t \in DOMAIN bindings \union {topic} |->
                    IF t = topic THEN Best(topic, assets) ELSE bindings[t]]
  /\ published' = published + 1
  /\ UNCHANGED <<files, assets, groups, request, torn, saves, retries, groupEdits, saveFaults>>

TreeNodes == UNION Trees
HierarchyStep ==
  \/ WriteTree \/ WriteBranding \/ SeedBranches \/ Prune \/ Rebind \/ SeedGroups
  \/ WriteRecord \/ RewriteHistorian \/ RewriteGraph \/ MigrateRaises
HierarchyNext ==
  \/ \E new \in Trees, renames \in RenameLists : BeginSave(new, renames)
  \/ BeginRetry \/ HierarchyStep \/ MigrateFails \/ RequestDies \/ StaleAfter
  \/ \E n \in GroupNames, root \in TreeNodes : SaveGroup(n, root)
  \/ \E n \in GroupNames \union {p[Len(p)] : p \in TreeNodes} : DeleteGroup(n)
  \/ \E topic \in TreeNodes : Publish(topic)

HierarchySpec == HierarchyInit /\ [][HierarchyNext]_hierarchyVars

------------------------------------------------------------------------------
(* Properties.                                                                *)

\* What is stored is well formed, and a record that waits for a retry has something left.
HierarchyTypeOK ==
  /\ tree \in Trees
  /\ job.status \in {"idle", "running", "failed", "done"}
  /\ job.status \in {"running", "failed"} => job.pending # <<>>
  /\ \A n \in DOMAIN groups : groups[n] \subseteq assets
  /\ \A t \in DOMAIN bindings : bindings[t] \in assets \union {<<>>}

\* A rename leaves hierarchy_job.yaml only when neither store holds its old prefix any
\* more (_run_migrate), through failures, crashes and retries; a new batch may replace a
\* failed one.
RenamesLeaveWhenMoved ==
  [][\A i \in DOMAIN job.pending :
       LET r == job.pending[i] IN
       (saves' = saves /\ \A j \in DOMAIN job'.pending : job'.pending[j] # r)
       => \A p \in history' \union graph' : ~Under(p, r.old)]_hierarchyVars

\* "Assets no longer in the plan are deleted", below the plan's enterprise, whenever no
\* reseed was interrupted.
AssetsMatchTree ==
  ~torn => {p \in assets : Under(p, <<EnterpriseOf(tree)>>)} = tree

=============================================================================
