---------------------------- MODULE ServicesProofs ----------------------------
(***************************************************************************)
(* What the Asset Model services guarantee for any plant, rename list and   *)
(* number of historians.  PlantHierarchy: a reseed that ends leaves exactly  *)
(* the Assets of the tree (SeedOK), and the job file forgets a rename only   *)
(* after both stores have moved (JobOK).  TopicBinding: a historian that has *)
(* handled the last notice remembers the present (InformedOK).  CopilotChat: *)
(* a turn under way has its question in the conversation, whatever the other *)
(* turns, a deletion or a restart did meanwhile (GoodTurn).                  *)
(***************************************************************************)
EXTENDS PlantHierarchy, TopicBinding, CopilotChat, SequenceTheorems, OffsetLemmas, TLAPS

-----------------------------------------------------------------------------
(* PlantHierarchy: the Assets of the tree                                   *)

Below == {p \in assets : Under(p, <<EnterpriseOf(tree)>>)}
Seeding == {"branding", "branches", "prune", "rebind", "groups"}

\* A request that runs has all its fields.
RequestOK == request.at # "idle" => DOMAIN request = {"at", "tree", "pending"}

\* Once the tree is written the request works on the stored one; the branches come
\* before the pruning, and after it the Assets are those of the tree.
SeedOK ==
  /\ RequestOK
  /\ tree \in Trees
  /\ ~torn => Below = tree
  /\ request.at = "tree" => request.tree \in Trees
  /\ request.at \in Seeding => request.tree = tree
  /\ request.at = "prune" => tree \subseteq assets
  /\ request.at \in {"rebind", "groups"} => Below = tree

\* A running request reaches a later point.
LEMMA Later ==
  ASSUME NEW r, DOMAIN r = {"at", "tree", "pending"}, NEW at
  PROVE  LET n == [r EXCEPT !.at = at] IN
         DOMAIN n = {"at", "tree", "pending"} /\ n.at = at /\ n.tree = r.tree /\ n.pending = r.pending
OBVIOUS

\* Steps that write neither the tree nor an Asset.
LEMMA SeedFrame ==
  ASSUME SeedOK, UNCHANGED <<tree, assets, torn>>, RequestOK',
         request'.at = "tree" => request'.tree \in Trees,
         request'.at \in Seeding =>
           /\ request'.tree = request.tree
           /\ request.at = request'.at \/ (request.at = "branding" /\ request'.at = "branches")
                \/ (request.at = "rebind" /\ request'.at = "groups")
  PROVE  SeedOK'
BY DEF SeedOK, RequestOK, Below, Seeding

LEMMA SeedInit == HierarchyInit => SeedOK
<1> SUFFICES ASSUME HierarchyInit PROVE SeedOK
  OBVIOUS
<1>1. tree \in Trees /\ assets = tree /\ request.at = "idle"
  BY DEF HierarchyInit, NoRequest
<1>2. Below = tree
  BY <1>1, TreesAssumption DEF Below
<1> QED BY <1>1, <1>2 DEF SeedOK, RequestOK, Seeding

LEMMA SeedBranchesStep == ASSUME SeedOK, SeedBranches PROVE SeedOK'
<1>1. PICK r : r = request
  OBVIOUS
<1>2. /\ r.at = "branches" /\ assets' = assets \union tree /\ request' = [r EXCEPT !.at = "prune"]
      /\ UNCHANGED <<tree, torn>>
  BY <1>1 DEF SeedBranches, SeedOK, Seeding, files
<1>3. /\ DOMAIN request' = {"at", "tree", "pending"} /\ request'.at = "prune"
      /\ request'.tree = tree
  BY <1>1, <1>2, Later DEF SeedOK, RequestOK, Seeding
<1>4. Below' = Below \union tree
  BY <1>2, TreesAssumption DEF Below, SeedOK
<1> QED BY <1>2, <1>3, <1>4 DEF SeedOK, RequestOK, Seeding

LEMMA PruneStep == ASSUME SeedOK, Prune PROVE SeedOK'
<1>1. PICK r : r = request
  OBVIOUS
<1>2. /\ r.at = "prune" /\ assets' = assets \ Extra(tree) /\ request' = [r EXCEPT !.at = "rebind"]
      /\ UNCHANGED <<tree, torn>> /\ tree \subseteq assets
  BY <1>1 DEF Prune, SeedOK, Seeding, files
<1>3. /\ DOMAIN request' = {"at", "tree", "pending"} /\ request'.at = "rebind"
      /\ request'.tree = tree
  BY <1>1, <1>2, Later DEF SeedOK, RequestOK, Seeding
<1>4. Below' = tree
  BY <1>2, TreesAssumption DEF Below, SeedOK, Extra
<1> QED BY <1>2, <1>3, <1>4 DEF SeedOK, RequestOK, Seeding

LEMMA SeedGroupsStep == ASSUME SeedOK, SeedGroups PROVE SeedOK'
<1>1. PICK r : r = request
  OBVIOUS
<1>2. /\ r.at = "groups" /\ UNCHANGED <<tree, assets>>
      /\ request' = IF r.pending = <<>> THEN NoRequest ELSE [r EXCEPT !.at = "record"]
  BY <1>1 DEF SeedGroups, files
<1>3. DOMAIN r = {"at", "tree", "pending"} /\ Below = tree
  BY <1>1, <1>2 DEF SeedOK, RequestOK
<1>4. request'.at \in {"idle", "record"} /\ RequestOK'
  BY <1>2, <1>3, Later DEF RequestOK, NoRequest
<1> QED BY <1>2, <1>3, <1>4 DEF SeedOK, Below, Seeding

\* The other steps of a reseed.
LEMMA SeedStepsStep ==
  ASSUME SeedOK, WriteTree \/ WriteBranding \/ Rebind PROVE SeedOK'
<1>1. PICK r : r = request
  OBVIOUS
<1>2. CASE WriteTree
  <2>1. /\ r.at = "tree" /\ tree' = r.tree /\ torn' = TRUE /\ request' = [r EXCEPT !.at = "branding"]
        /\ tree' \in Trees
    BY <1>1, <1>2 DEF WriteTree, SeedOK
  <2>2. /\ DOMAIN request' = {"at", "tree", "pending"} /\ request'.at = "branding"
        /\ request'.tree = tree'
    BY <1>1, <2>1, Later DEF SeedOK, RequestOK
  <2> QED BY <2>1, <2>2 DEF SeedOK, RequestOK, Seeding
<1>3. CASE WriteBranding \/ Rebind
  <2>1. PICK at \in {"branches", "groups"} :
          /\ request' = [r EXCEPT !.at = at]
          /\ r.at = IF at = "groups" THEN "rebind" ELSE "branding"
    BY <1>1, <1>3 DEF WriteBranding, Rebind
  <2>2. UNCHANGED <<tree, assets, torn>>
    BY <1>3 DEF WriteBranding, Rebind, files, seeded
  <2>3. DOMAIN request' = {"at", "tree", "pending"} /\ request'.at = at /\ request'.tree = r.tree
    BY <1>1, <2>1, Later DEF SeedOK, RequestOK
  <2> QED BY <1>1, <2>1, <2>2, <2>3, SeedFrame DEF RequestOK
<1> QED BY <1>2, <1>3

\* The steps outside the reseed: they write no Asset, and begin, run or end a request.
LEMMA OutsideStep ==
  ASSUME RequestOK,
         \/ \E new \in Trees, renames \in RenameLists : BeginSave(new, renames)
         \/ BeginRetry \/ WriteRecord \/ RewriteHistorian \/ RewriteGraph \/ MigrateRaises
         \/ MigrateFails \/ RequestDies \/ StaleAfter
         \/ \E n, root : SaveGroup(n, root)
         \/ \E n : DeleteGroup(n)
         \/ \E topic : Publish(topic)
  PROVE  /\ UNCHANGED <<tree, assets, torn>> /\ RequestOK'
         /\ \/ request' = request
            \/ request'.at \in {"idle", "record", "historian", "graph"}
            \/ request'.at = "tree" /\ request'.tree \in Trees
<1>1. PICK r : r = request
  OBVIOUS
<1>2. r.at # "idle" => DOMAIN r = {"at", "tree", "pending"}
  BY <1>1 DEF RequestOK
<1>3. NoRequest.at = "idle"
  BY DEF NoRequest
<1>4. CASE \E new \in Trees, renames \in RenameLists : BeginSave(new, renames)
  BY <1>4 DEF BeginSave, seeded, stores, RequestOK
<1>5. CASE BeginRetry
  BY <1>5 DEF BeginRetry, files, seeded, stores, RequestOK
<1>6. CASE WriteRecord
  <2>1. r.at = "record" /\ UNCHANGED <<tree, assets, torn>>
        /\ (request' = NoRequest \/ request' = [r EXCEPT !.at = "historian"])
    BY <1>1, <1>6 DEF WriteRecord, seeded, stores
  <2> QED BY <1>2, <1>3, <2>1, Later DEF RequestOK
<1>7. CASE RewriteHistorian
  <2>1. r.at = "historian" /\ UNCHANGED <<tree, assets, torn>> /\ request' = [r EXCEPT !.at = "graph"]
    BY <1>1, <1>7 DEF RewriteHistorian, files, seeded
  <2> QED BY <1>2, <2>1, Later DEF RequestOK
<1>8. CASE RewriteGraph
  <2>1. r.at = "graph" /\ UNCHANGED <<tree, assets, torn>>
        /\ request' = [r EXCEPT !.at = "record", !.pending = Tail(r.pending)]
    BY <1>1, <1>8 DEF RewriteGraph, files, seeded
  <2> QED BY <1>2, <2>1 DEF RequestOK
<1>9. CASE MigrateRaises \/ MigrateFails \/ RequestDies
  <2>1. UNCHANGED <<tree, assets, torn>> /\ request' = NoRequest
    BY <1>9 DEF MigrateRaises, MigrateFails, RequestDies, files, seeded, stores
  <2> QED BY <1>3, <2>1 DEF RequestOK
<1>10. CASE StaleAfter \/ (\E n, root : SaveGroup(n, root)) \/ (\E n : DeleteGroup(n))
            \/ (\E topic : Publish(topic))
  <2>1. UNCHANGED <<tree, assets, torn, request>>
    BY <1>10 DEF StaleAfter, SaveGroup, DeleteGroup, Publish, files, seeded, stores
  <2> QED BY <2>1 DEF RequestOK
<1> QED BY <1>4, <1>5, <1>6, <1>7, <1>8, <1>9, <1>10

LEMMA SeedKept == SeedOK /\ [HierarchyNext]_hierarchyVars => SeedOK'
<1> SUFFICES ASSUME SeedOK, [HierarchyNext]_hierarchyVars PROVE SeedOK'
  OBVIOUS
<1>1. CASE UNCHANGED hierarchyVars
  BY <1>1 DEF hierarchyVars, SeedOK, RequestOK, Below, Seeding
<1>2. CASE WriteTree \/ WriteBranding \/ SeedBranches \/ Prune \/ Rebind \/ SeedGroups
  BY <1>2, SeedStepsStep, SeedBranchesStep, PruneStep, SeedGroupsStep
<1>3. ASSUME \/ \E new \in Trees, renames \in RenameLists : BeginSave(new, renames)
             \/ BeginRetry \/ WriteRecord \/ RewriteHistorian \/ RewriteGraph \/ MigrateRaises
             \/ MigrateFails \/ RequestDies \/ StaleAfter
             \/ \E n, root : SaveGroup(n, root)
             \/ \E n : DeleteGroup(n)
             \/ \E topic : Publish(topic)
      PROVE  SeedOK'
  <2>1. RequestOK
    BY DEF SeedOK
  <2>2. /\ UNCHANGED <<tree, assets, torn>> /\ RequestOK'
        /\ \/ request' = request
           \/ request'.at \in {"idle", "record", "historian", "graph"}
           \/ request'.at = "tree" /\ request'.tree \in Trees
    BY <1>3, <2>1, OutsideStep
  <2>3. request.at = "tree" => request.tree \in Trees
    BY DEF SeedOK
  <2> QED BY <2>2, <2>3, SeedFrame DEF Seeding
<1> QED BY <1>1, <1>2, <1>3 DEF HierarchyNext, HierarchyStep

\* "Assets no longer in the plan are deleted" (apply_plan): whenever no reseed was
\* interrupted, the Assets under the enterprise are the nodes of the stored tree.
THEOREM AssetsAlwaysMatchTree == HierarchySpec => []AssetsMatchTree
<1>1. SeedOK => AssetsMatchTree
  BY DEF SeedOK, AssetsMatchTree, Below
<1> QED BY <1>1, SeedInit, SeedKept, PTL DEF HierarchySpec

-----------------------------------------------------------------------------
(* PlantHierarchy: the renames that are left                                *)

Pairs == [old : Seq(STRING), new : Seq(STRING)]

\* A submitted list of renames: every prefix names at least the enterprise.
GoodRenames(l) ==
  /\ l \in Seq(Pairs)
  /\ \A i \in DOMAIN l : Len(l[i].old) >= 1 /\ Len(l[i].new) >= 1

Outside(paths, r) == \A p \in paths : ~Under(p, r.old)

\* The request migrates the first pair of the record.  The historian has left its old
\* prefix when the graph is asked, and both have when the pair is no longer in the request.
JobOK ==
  /\ RequestOK
  /\ saves \in Nat
  /\ tree \in Trees /\ (request.at = "tree" => request.tree \in Trees)
  /\ history \subseteq Seq(STRING) /\ graph \subseteq Seq(STRING)
  /\ DOMAIN job = {"status", "pending", "stale"} /\ GoodRenames(job.pending)
  /\ request.at \in Seeding \union {"tree"} => request.pending \in {<<>>, job.pending}
  /\ request.at = "record" =>
       /\ job.pending # <<>>
       /\ \/ request.pending = job.pending
          \/ request.pending = Tail(job.pending) /\ Outside(history \union graph, Head(job.pending))
  /\ request.at \in {"historian", "graph"} => request.pending = job.pending /\ job.pending # <<>>
  /\ request.at = "graph" =>
       LET r == Head(job.pending) IN
       r.old # r.new /\ (Front(r.old) = Front(r.new) => Outside(history, r))

LEMMA UnderPrefix ==
  ASSUME NEW p \in Seq(STRING), NEW q \in PrefixesOf(p), NEW old \in Seq(STRING), Under(q, old)
  PROVE  Under(p, old)
<1>1. PICK n \in 1 .. Len(p) : q = SubSeq(p, 1, n)
  BY DEF PrefixesOf
<1>2. q \in Seq(STRING) /\ Len(q) = n /\ \A i \in 1 .. n : q[i] = p[i]
  BY <1>1
<1>3. Len(old) <= n /\ SubSeq(old, 1, Len(old)) = SubSeq(q, 1, Len(old))
  BY <1>2 DEF Under, IsPrefix
<1>4. SubSeq(q, 1, Len(old)) = SubSeq(p, 1, Len(old))
  BY <1>2, <1>3
<1> QED BY <1>3, <1>4 DEF Under, IsPrefix

LEMMA PartOfPath ==
  ASSUME NEW p \in Seq(STRING), NEW n \in Nat, n <= Len(p)
  PROVE  SubSeq(p, 1, n) \in Seq(STRING) /\ Len(SubSeq(p, 1, n)) = n
<1>1. \A i \in 1 .. n : p[i] \in STRING
  OBVIOUS
<1> QED BY <1>1, SubSeqProperties

LEMMA PrefixIsPath ==
  ASSUME NEW p \in Seq(STRING), NEW q \in PrefixesOf(p) PROVE q \in Seq(STRING)
BY DEF PrefixesOf

\* A moved path is a path, and a rename beside its siblings leaves nothing behind.
LEMMA MovedIsPath ==
  ASSUME NEW r \in Pairs, NEW p \in Seq(STRING) PROVE Moved(p, r) \in Seq(STRING)
<1>1. Under(p, r.old) => SubSeq(p, Len(r.old) + 1, Len(p)) \in Seq(STRING)
  BY DEF Under, IsPrefix, Pairs
<1>2. r.new \in Seq(STRING)
  BY DEF Pairs
<1>3. PICK old, new : old = r.old /\ new = r.new
  OBVIOUS
<1>4. CASE Under(p, old)
  <2>1. PICK rest \in Seq(STRING) : Moved(p, r) = new \o rest
    BY <1>1, <1>3, <1>4 DEF Moved
  <2> QED BY <1>2, <1>3, <2>1, ConcatProperties
<1>5. CASE ~Under(p, old)
  BY <1>3, <1>5 DEF Moved
<1> QED BY <1>4, <1>5

LEMMA MovedIsOutside ==
  ASSUME NEW r \in Pairs, NEW p \in Seq(STRING), r.old # r.new, Front(r.old) = Front(r.new),
         Len(r.old) >= 1, Len(r.new) >= 1
  PROVE  ~Under(Moved(p, r), r.old)
<1>1. PICK old, new : old = r.old /\ new = r.new
  OBVIOUS
<1>2. old \in Seq(STRING) /\ new \in Seq(STRING) /\ old # new /\ Len(old) >= 1 /\ Len(new) >= 1
  BY <1>1 DEF Pairs
<1>3. Len(old) = Len(new)
  <2>1. \A q \in Seq(STRING) : Len(q) >= 1 => Len(Front(q)) = Len(q) - 1
    <3> SUFFICES ASSUME NEW q \in Seq(STRING), Len(q) >= 1 PROVE Len(SubSeq(q, 1, Len(q) - 1)) = Len(q) - 1
      BY DEF Front
    <3>1. Len(q) - 1 \in Nat /\ Len(q) - 1 <= Len(q)
      OBVIOUS
    <3> QED BY <3>1, PartOfPath
  <2> QED BY <1>1, <1>2, <2>1
<1>4. CASE Under(p, old)
  <2>1. PICK rest \in Seq(STRING) : Moved(p, r) = new \o rest
    <3>1. SubSeq(p, Len(old) + 1, Len(p)) \in Seq(STRING)
      BY <1>2, <1>4 DEF Under, IsPrefix
    <3> QED BY <1>1, <1>4, <3>1 DEF Moved
  <2>2. SubSeq(new \o rest, 1, Len(new)) = new
    BY <1>2
  <2>3. SubSeq(old, 1, Len(old)) = old
    BY <1>2
  <2> QED BY <1>1, <1>2, <1>3, <2>1, <2>2, <2>3 DEF Under, IsPrefix
<1>5. CASE ~Under(p, old)
  BY <1>1, <1>5 DEF Moved
<1> QED BY <1>4, <1>5

LEMMA RenamesAreGood ==
  ASSUME tree \in Trees, NEW new \in Trees, NEW renames \in RenameLists, Valid(new, tree, renames)
  PROVE  GoodRenames(renames)
<1>1. renames \in Seq(Pairs)
  BY RenamesAssumption DEF Pairs
<1>2. \A t \in Trees : \A p \in t : Len(p) >= 1
  <2> SUFFICES ASSUME NEW t \in Trees, NEW p \in t PROVE Len(p) >= 1
    OBVIOUS
  <2>1. PICK e : e = EnterpriseOf(t)
    OBVIOUS
  <2>2. p \in Seq(STRING) /\ Under(p, <<e>>)
    BY <2>1, TreesAssumption
  <2> QED BY <2>2 DEF Under, IsPrefix
<1> QED BY <1>1, <1>2 DEF GoodRenames, Valid

LEMMA HeadTail ==
  ASSUME NEW l, GoodRenames(l)
  PROVE  /\ l # <<>> => Head(l) \in Pairs /\ Len(Head(l).old) >= 1 /\ Len(Head(l).new) >= 1
         /\ l # <<>> => GoodRenames(Tail(l))
         /\ l # <<>> => \A i \in DOMAIN l : l[i] = Head(l) \/ \E j \in DOMAIN Tail(l) : Tail(l)[j] = l[i]
<1>1. l \in Seq(Pairs)
  BY DEF GoodRenames
<1>2. l # <<>> => Head(l) = l[1] /\ 1 \in DOMAIN l
  BY <1>1
<1>3. l # <<>> => Tail(l) \in Seq(Pairs) /\ Len(Tail(l)) = Len(l) - 1
                  /\ \A j \in 1 .. Len(l) - 1 : Tail(l)[j] = l[j + 1]
  BY <1>1
<1>4. l # <<>> => GoodRenames(Tail(l))
  BY <1>1, <1>3 DEF GoodRenames
<1>5. ASSUME l # <<>>, NEW i \in DOMAIN l, i # 1
      PROVE  \E j \in DOMAIN Tail(l) : Tail(l)[j] = l[i]
  <2>1. i - 1 \in 1 .. Len(l) - 1 /\ (i - 1) + 1 = i
    BY <1>1, <1>5
  <2> QED BY <1>3, <1>5, <2>1
<1> QED BY <1>1, <1>2, <1>4, <1>5 DEF GoodRenames

LEMMA JobInit == HierarchyInit => JobOK
<1> SUFFICES ASSUME HierarchyInit PROVE JobOK
  OBVIOUS
<1>1. /\ tree \in Trees /\ request.at = "idle" /\ saves = 0
      /\ history \subseteq tree /\ graph = tree /\ job = NoJob
  BY DEF HierarchyInit, NoRequest, Leaves
<1>2. DOMAIN job = {"status", "pending", "stale"} /\ job.pending = <<>>
  BY <1>1 DEF NoJob
<1>3. GoodRenames(<<>>)
  BY DEF GoodRenames
<1> QED BY <1>1, <1>2, <1>3, TreesAssumption DEF JobOK, RequestOK, Seeding

\* Steps that write neither the stores nor the renames of the record.
LEMMA JobFrame ==
  ASSUME JobOK, RequestOK', tree' \in Trees, request'.at = "tree" => request'.tree \in Trees,
         UNCHANGED <<history, graph, saves>>,
         job'.pending = job.pending, DOMAIN job' = DOMAIN job,
         \/ request'.at = "idle"
         \/ /\ request'.pending = request.pending
            /\ \/ request'.at = request.at
               \/ request.at \in Seeding \union {"tree"} /\ request'.at \in Seeding
  PROVE  JobOK'
BY DEF JobOK, Seeding, GoodRenames, Outside

LEMMA JobSeedStep ==
  ASSUME JobOK, WriteTree \/ WriteBranding \/ SeedBranches \/ Prune \/ Rebind
  PROVE  JobOK' /\ job' = job
<1>1. PICK r : r = request
  OBVIOUS
<1>2. PICK at \in Seeding : request' = [r EXCEPT !.at = at] /\ r.at \in Seeding \union {"tree"}
  BY <1>1 DEF WriteTree, WriteBranding, SeedBranches, Prune, Rebind, Seeding
<1>3. UNCHANGED <<history, graph, saves, job>> /\ tree' \in {tree, r.tree}
      /\ (r.at # "tree" => tree' = tree)
  BY <1>1 DEF WriteTree, WriteBranding, SeedBranches, Prune, Rebind, stores, files, hierarchyCounters, seeded
<1>4. DOMAIN r = {"at", "tree", "pending"}
  BY <1>1, <1>2 DEF JobOK, RequestOK, Seeding
<1>5. DOMAIN request' = {"at", "tree", "pending"} /\ request'.at = at
      /\ request'.pending = r.pending
  BY <1>2, <1>4, Later
<1>6. tree' \in Trees
  BY <1>1, <1>3 DEF JobOK
<1> QED BY <1>1, <1>2, <1>3, <1>5, <1>6, JobFrame DEF RequestOK, Seeding

LEMMA JobSeedGroups == ASSUME JobOK, SeedGroups PROVE JobOK' /\ job' = job
<1>1. PICK r : r = request
  OBVIOUS
<1>2. /\ r.at = "groups" /\ UNCHANGED <<tree, job, history, graph, saves>>
      /\ request' = IF r.pending = <<>> THEN NoRequest ELSE [r EXCEPT !.at = "record"]
  BY <1>1 DEF SeedGroups, files, stores, hierarchyCounters
<1>3. DOMAIN r = {"at", "tree", "pending"} /\ r.pending \in {<<>>, job.pending}
  BY <1>1, <1>2 DEF JobOK, RequestOK, Seeding
<1>4. CASE r.pending = <<>>
  <2>1. request'.at = "idle" /\ RequestOK'
    BY <1>2, <1>4 DEF NoRequest, RequestOK
  <2> QED BY <1>2, <2>1, JobFrame DEF JobOK
<1>5. CASE r.pending # <<>>
  <2>1. /\ DOMAIN request' = {"at", "tree", "pending"} /\ request'.at = "record"
        /\ request'.pending = job.pending /\ job.pending # <<>>
    BY <1>2, <1>3, <1>5, Later
  <2> QED BY <1>2, <2>1 DEF JobOK, RequestOK, Seeding, GoodRenames
<1> QED BY <1>4, <1>5

LEMMA JobBegins ==
  ASSUME JobOK, BeginRetry \/ \E new \in Trees, renames \in RenameLists : BeginSave(new, renames)
  PROVE  JobOK' /\ (job' = job \/ saves' # saves)
<1>1. CASE BeginRetry
  <2>1. /\ UNCHANGED <<tree, job, history, graph, saves>> /\ job.pending # <<>>
        /\ request' = [at |-> "record", tree |-> tree, pending |-> job.pending]
    BY <1>1 DEF BeginRetry, files, stores
  <2> QED BY <2>1 DEF JobOK, RequestOK, Seeding, GoodRenames
<1>2. ASSUME NEW new \in Trees, NEW renames \in RenameLists, BeginSave(new, renames)
      PROVE  JobOK' /\ saves' # saves
  <2>1. /\ UNCHANGED <<tree, history, graph>> /\ saves' = saves + 1
        /\ request' = [at |-> "tree", tree |-> new, pending |-> renames]
        /\ job' = IF renames = <<>> THEN job ELSE RunningJob(renames)
        /\ Valid(new, tree, renames)
    BY <1>2 DEF BeginSave, stores
  <2>2. GoodRenames(renames)
    BY <2>1, RenamesAreGood DEF JobOK
  <2>3. /\ DOMAIN job' = {"status", "pending", "stale"} /\ GoodRenames(job'.pending)
        /\ renames \in {<<>>, job'.pending}
    BY <2>1, <2>2 DEF JobOK, RunningJob
  <2>4. saves' \in Nat /\ saves' # saves
    BY <2>1 DEF JobOK
  <2> QED BY <2>1, <2>3, <2>4 DEF JobOK, RequestOK, Seeding, GoodRenames
<1> QED BY <1>1, <1>2

\* The record forgets at most its first pair, and that one has left both stores.
LEMMA JobWriteRecord ==
  ASSUME JobOK, WriteRecord
  PROVE  /\ JobOK' /\ UNCHANGED <<history, graph>>
         /\ \A i \in DOMAIN job.pending :
              (\A j \in DOMAIN job'.pending : job'.pending[j] # job.pending[i])
              => Outside(history \union graph, job.pending[i])
<1>1. PICK r : r = request
  OBVIOUS
<1>2. PICK l : l = job.pending
  OBVIOUS
<1>3. /\ r.at = "record" /\ UNCHANGED <<tree, history, graph, saves>>
      /\ r.pending = <<>> => job' = [NoJob EXCEPT !.status = "done"] /\ request' = NoRequest
      /\ r.pending # <<>> => job' = RunningJob(r.pending) /\ request' = [r EXCEPT !.at = "historian"]
  BY <1>1 DEF WriteRecord, seeded, stores, hierarchyCounters
<1>4. /\ DOMAIN r = {"at", "tree", "pending"} /\ l # <<>> /\ GoodRenames(l)
      /\ r.pending # l => r.pending = Tail(l) /\ Outside(history \union graph, Head(l))
  BY <1>1, <1>2, <1>3 DEF JobOK, RequestOK
<1>5. GoodRenames(r.pending)
  BY <1>4, HeadTail
<1>6. DOMAIN job' = {"status", "pending", "stale"} /\ job'.pending = r.pending
  BY <1>3 DEF NoJob, RunningJob
<1>7. JobOK'
  <2>1. CASE r.pending = <<>>
    <3>1. request'.at = "idle" /\ RequestOK'
      BY <1>3, <2>1 DEF NoRequest, RequestOK
    <3> QED BY <1>3, <1>5, <1>6, <3>1 DEF JobOK, Seeding, GoodRenames
  <2>2. CASE r.pending # <<>>
    <3>1. /\ DOMAIN request' = {"at", "tree", "pending"} /\ request'.at = "historian"
          /\ request'.pending = r.pending
      BY <1>3, <1>4, <2>2, Later
    <3> QED BY <1>3, <1>5, <1>6, <2>2, <3>1 DEF JobOK, RequestOK, Seeding, GoodRenames
  <2> QED BY <2>1, <2>2
<1>8. ASSUME NEW i \in DOMAIN l, \A j \in DOMAIN r.pending : r.pending[j] # l[i]
      PROVE  Outside(history \union graph, l[i])
  <2>1. r.pending # l
    BY <1>8
  <2>2. l[i] = Head(l)
    BY <1>4, <1>8, <2>1, HeadTail
  <2> QED BY <1>4, <2>1, <2>2
<1> QED BY <1>2, <1>3, <1>6, <1>7, <1>8

LEMMA JobHistorian == ASSUME JobOK, RewriteHistorian PROVE JobOK' /\ job' = job
<1>1. PICK r : r = request
  OBVIOUS
<1>2. PICK h : h = Head(job.pending)
  OBVIOUS
<1>3. /\ r.at = "historian" /\ r.pending = job.pending /\ job.pending # <<>>
      /\ DOMAIN r = {"at", "tree", "pending"}
  BY <1>1 DEF RewriteHistorian, JobOK, RequestOK
<1>4. /\ h.old # h.new /\ history' = {Moved(t, h) : t \in history}
      /\ request' = [r EXCEPT !.at = "graph"] /\ UNCHANGED <<tree, job, graph, saves>>
  BY <1>1, <1>2, <1>3 DEF RewriteHistorian, CurrentPair, files, hierarchyCounters
<1>5. h \in Pairs /\ Len(h.old) >= 1 /\ Len(h.new) >= 1
  BY <1>2, <1>3, HeadTail DEF JobOK
<1>6. history' \subseteq Seq(STRING)
  BY <1>4, <1>5, MovedIsPath DEF JobOK
<1>7. Front(h.old) = Front(h.new) => Outside(history', h)
  BY <1>4, <1>5, MovedIsOutside DEF JobOK, Outside
<1>8. DOMAIN request' = {"at", "tree", "pending"} /\ request'.at = "graph" /\ request'.pending = r.pending
  BY <1>3, <1>4, Later
<1> QED BY <1>2, <1>3, <1>4, <1>6, <1>7, <1>8 DEF JobOK, RequestOK, Seeding, GoodRenames, Outside

LEMMA JobGraph == ASSUME JobOK, RewriteGraph PROVE JobOK' /\ job' = job
<1>1. PICK r : r = request
  OBVIOUS
<1>2. PICK h : h = Head(job.pending)
  OBVIOUS
<1>3. /\ r.at = "graph" /\ r.pending = job.pending /\ job.pending # <<>>
      /\ DOMAIN r = {"at", "tree", "pending"} /\ h.old # h.new
      /\ Front(h.old) = Front(h.new) => Outside(history, h)
  BY <1>1, <1>2 DEF RewriteGraph, JobOK, RequestOK
<1>4. /\ Front(h.old) = Front(h.new) /\ graph' = {Moved(p, h) : p \in graph}
      /\ request' = [r EXCEPT !.at = "record", !.pending = Tail(r.pending)]
      /\ UNCHANGED <<tree, job, history, saves>>
  BY <1>1, <1>2, <1>3 DEF RewriteGraph, Renames, CurrentPair, files, hierarchyCounters
<1>5. h \in Pairs /\ Len(h.old) >= 1 /\ Len(h.new) >= 1
  BY <1>2, <1>3, HeadTail DEF JobOK
<1>6. graph' \subseteq Seq(STRING)
  BY <1>4, <1>5, MovedIsPath DEF JobOK
<1>7. Outside(history' \union graph', h)
  BY <1>3, <1>4, <1>5, MovedIsOutside DEF JobOK, Outside
<1>8. /\ DOMAIN request' = {"at", "tree", "pending"} /\ request'.at = "record"
      /\ request'.pending = Tail(job.pending)
  BY <1>3, <1>4
<1> QED BY <1>2, <1>3, <1>4, <1>6, <1>7, <1>8 DEF JobOK, RequestOK, Seeding, GoodRenames, Outside

\* A request that ends keeps the renames of the record, also those that failed.
LEMMA JobEnds ==
  ASSUME JobOK, MigrateRaises \/ MigrateFails \/ RequestDies
  PROVE  JobOK' /\ job'.pending = job.pending
<1>1. UNCHANGED <<tree, history, graph, saves>> /\ request'.at = "idle" /\ RequestOK'
  BY DEF MigrateRaises, MigrateFails, RequestDies, files, stores, hierarchyCounters, NoRequest, RequestOK
<1>2. CASE RequestDies
  <2>1. job' = job
    BY <1>2 DEF RequestDies, files
  <2> QED BY <1>1, <2>1, JobFrame DEF JobOK
<1>3. CASE MigrateRaises \/ MigrateFails
  <2>1. request.pending = job.pending /\ job' = FailedJob
    BY <1>3 DEF MigrateRaises, MigrateFails, JobOK
  <2>2. DOMAIN job' = {"status", "pending", "stale"} /\ job'.pending = job.pending
    BY <2>1 DEF FailedJob, Unfinished
  <2> QED BY <1>1, <2>2, JobFrame DEF JobOK
<1> QED BY <1>2, <1>3

LEMMA JobOthers ==
  ASSUME JobOK,
         \/ StaleAfter \/ UNCHANGED hierarchyVars
         \/ \E n, root : SaveGroup(n, root)
         \/ \E n : DeleteGroup(n)
  PROVE  JobOK' /\ job'.pending = job.pending
<1>1. UNCHANGED <<tree, history, graph, saves, request>>
  BY DEF StaleAfter, SaveGroup, DeleteGroup, files, stores, hierarchyCounters, hierarchyVars
<1>2. PICK j : j = job
  OBVIOUS
<1>3. job' = j \/ job' = [j EXCEPT !.stale = TRUE]
  BY <1>2 DEF StaleAfter, SaveGroup, DeleteGroup, files, hierarchyVars
<1>4. DOMAIN job' = DOMAIN job /\ job'.pending = job.pending
  BY <1>2, <1>3 DEF JobOK
<1> QED BY <1>1, <1>4, JobFrame DEF JobOK, RequestOK

\* Nobody publishes below a prefix that is being renamed.
LEMMA JobPublish == ASSUME JobOK, NEW topic, Publish(topic) PROVE JobOK' /\ job' = job
<1>1. /\ topic \in tree /\ UNCHANGED <<tree, job, request, saves>>
      /\ \A i \in DOMAIN job.pending : ~Under(topic, job.pending[i].old)
      /\ history' = history \union {topic} /\ graph' = graph \union PrefixesOf(topic)
  BY DEF Publish, Leaves, files
<1>2. topic \in Seq(STRING)
  BY <1>1, TreesAssumption DEF JobOK
<1>3. history' \subseteq Seq(STRING) /\ graph' \subseteq Seq(STRING)
  BY <1>1, <1>2, PrefixIsPath DEF JobOK
<1>4. ASSUME job.pending # <<>>
      PROVE  Outside({topic} \union PrefixesOf(topic), Head(job.pending))
  <2>1. /\ job.pending \in Seq(Pairs) /\ Head(job.pending) = job.pending[1] /\ 1 \in DOMAIN job.pending
        /\ Head(job.pending) \in Pairs
    BY <1>4 DEF JobOK, GoodRenames
  <2>2. PICK old \in Seq(STRING) : old = Head(job.pending).old /\ ~Under(topic, old)
    BY <1>1, <2>1 DEF Pairs
  <2> QED BY <1>2, <2>2, UnderPrefix DEF Outside
<1> QED BY <1>1, <1>3, <1>4 DEF JobOK, RequestOK, Seeding, GoodRenames, Outside

LEMMA JobKept ==
  ASSUME JobOK, [HierarchyNext]_hierarchyVars
  PROVE  /\ JobOK'
         /\ saves' = saves => \A i \in DOMAIN job.pending :
              (\A j \in DOMAIN job'.pending : job'.pending[j] # job.pending[i])
              => Outside(history' \union graph', job.pending[i])
<1>1. CASE WriteRecord
  BY <1>1, JobWriteRecord
<1>2. CASE BeginRetry \/ \E new \in Trees, renames \in RenameLists : BeginSave(new, renames)
  BY <1>2, JobBegins
<1>3. CASE MigrateRaises \/ MigrateFails \/ RequestDies
  BY <1>3, JobEnds
<1>4. CASE \/ StaleAfter \/ UNCHANGED hierarchyVars
           \/ \E n, root : SaveGroup(n, root)
           \/ \E n : DeleteGroup(n)
  BY <1>4, JobOthers
<1>5. ASSUME NEW topic, Publish(topic) PROVE JobOK' /\ job' = job
  BY <1>5, JobPublish
<1>6. CASE \/ WriteTree \/ WriteBranding \/ SeedBranches \/ Prune \/ Rebind \/ SeedGroups
           \/ RewriteHistorian \/ RewriteGraph
  BY <1>6, JobSeedStep, JobSeedGroups, JobHistorian, JobGraph
<1> QED BY <1>1, <1>2, <1>3, <1>4, <1>5, <1>6 DEF HierarchyNext, HierarchyStep

\* hierarchy_job.yaml (_run_migrate): for any renames, failures, crashes and retries, a
\* rename leaves the record of a batch only when the historian and the graph hold nothing
\* under its old prefix.
THEOREM RenamesAlwaysMoved == HierarchySpec => RenamesLeaveWhenMoved
<1>1. ASSUME JobOK, [HierarchyNext]_hierarchyVars
      PROVE  [\A i \in DOMAIN job.pending :
                LET r == job.pending[i] IN
                (saves' = saves /\ \A j \in DOMAIN job'.pending : job'.pending[j] # r)
                => \A p \in history' \union graph' : ~Under(p, r.old)]_hierarchyVars
  BY <1>1, JobKept DEF Outside
<1>2. JobOK /\ [HierarchyNext]_hierarchyVars => JobOK'
  BY JobKept
<1> QED BY <1>1, <1>2, JobInit, PTL DEF HierarchySpec, RenamesLeaveWhenMoved

-----------------------------------------------------------------------------
(* TopicBinding: the rows and the memory of the historians                  *)

RowsOK ==
  /\ DOMAIN topic_binding \subseteq DataTopics /\ DOMAIN boundBy = DOMAIN topic_binding
  /\ \A t \in DOMAIN topic_binding :
       boundBy[t] \in Historians /\ topic_binding[t] \in asset \union {<<>>}

HistoriansOK ==
  /\ DOMAIN bound = Historians /\ DOMAIN inFlight = Historians /\ DOMAIN overtaken = Historians
  /\ notices \in [Historians -> BOOLEAN] /\ missed \in [Historians -> BOOLEAN]

\* A topic is remembered or its bind runs, not both; a commit leaves a row behind.
BinderOK(h) ==
  /\ bound[h] \in Seq(DataTopics) /\ Len(bound[h]) <= Capacity
  /\ Remembered(h) \subseteq DOMAIN topic_binding
  /\ Binds(h) \subseteq DataTopics \ Remembered(h)
  /\ \A t \in Binds(h) :
       /\ DOMAIN inFlight[h][t] = {"at", "best"}
       /\ inFlight[h][t].at \in {"sent", "read", "committed"}
       /\ inFlight[h][t].at = "committed" => t \in DOMAIN topic_binding

\* No edit is under way and the historian has handled the notice of the last one.
Informed(h) == editor = "idle" /\ ~notices[h] /\ ~missed[h]
UpToDate(t) == topic_binding[t] = BestAsset(t)

\* What an informed historian has read, committed or remembers is the deepest Asset of
\* now, unless the bind was in flight when it forgot or another one wrote the row since.
InformedOK(h) ==
  Informed(h) =>
    \A t \in DataTopics \ overtaken[h] :
      /\ t \in Binds(h) /\ inFlight[h][t].at = "read" => inFlight[h][t].best = BestAsset(t)
      /\ t \in Binds(h) /\ inFlight[h][t].at = "committed" /\ boundBy[t] = h => UpToDate(t)
      /\ t \in Remembered(h) /\ boundBy[t] = h => UpToDate(t)

BindInv == RowsOK /\ HistoriansOK /\ \A h \in Historians : BinderOK(h) /\ InformedOK(h)

LEMMA BestIsAsset ==
  ASSUME NEW topic \in Seq(STRING), NEW paths PROVE Best(topic, paths) \in paths \union {<<>>}
<1> DEFINE known == PrefixesOf(topic) \intersect paths
           Lengths == {Len(q) : q \in known}
<1>1. CASE known = {}
  BY <1>1 DEF Best
<1>2. CASE known # {}
  <2>1. \A q \in known : Len(q) \in 0 .. Len(topic)
    BY PartOfPath DEF PrefixesOf
  <2> HIDE DEF known
  <2>2. Lengths \in SUBSET Nat /\ Lengths # {} /\ Len(topic) + 1 \in Nat /\ \A n \in Lengths : n < Len(topic) + 1
    <3>1. Len(topic) \in Nat
      OBVIOUS
    <3>2. \A q \in known : Len(q) \in Nat /\ Len(q) < Len(topic) + 1
      BY <2>1, <3>1
    <3>3. ASSUME NEW n \in Lengths PROVE n \in Nat /\ n < Len(topic) + 1
      <4>1. PICK q \in known : n = Len(q)
        OBVIOUS
      <4> QED BY <3>2, <4>1
    <3>4. PICK q \in known : Len(q) \in Lengths
      BY <1>2
    <3> QED BY <3>1, <3>3, <3>4
  <2>3. PICK m \in Lengths : \A n \in Lengths : n <= m
    <3> HIDE DEF Lengths
    <3> QED BY <2>2, MaxOfBounded
  <2> USE DEF known
  <2>4. \E p \in known : \A q \in known : Len(q) <= Len(p)
    BY <2>3
  <2>5. (CHOOSE p \in known : \A q \in known : Len(q) <= Len(p)) \in known
    BY <2>4
  <2> QED BY <1>2, <2>5 DEF Best
<1> QED BY <1>1, <1>2

LEMMA RefreshFacts ==
  ASSUME NEW s \in Seq(DataTopics), NEW t \in DataTopics
  PROVE  /\ Refresh(s, t) \in Seq(DataTopics)
         /\ \A i \in DOMAIN Refresh(s, t) : Refresh(s, t)[i] = t \/ \E j \in DOMAIN s : Refresh(s, t)[i] = s[j]
         /\ Len(Refresh(s, t)) <= Len(s) + 1
         /\ (\E i \in DOMAIN s : s[i] = t) => Len(Refresh(s, t)) = Len(s)
<1>1. CASE \E i \in DOMAIN s : s[i] = t
  <2>1. PICK i \in DOMAIN s : Refresh(s, t) = Append(RemoveAt(s, i), t)
    BY <1>1 DEF Refresh
  <2>2. PICK n \in Nat : n = Len(s) /\ DOMAIN s = 1 .. n /\ n >= 1
    BY <1>1
  <2>3. PICK w : w = RemoveAt(s, i)
    OBVIOUS
  <2>4. /\ w \in Seq(DataTopics) /\ Len(w) = n - 1
        /\ \A k \in 1 .. n - 1 : w[k] = IF k < i THEN s[k] ELSE s[k + 1]
    BY <2>2, <2>3, WithoutOne
  <2>5. \A k \in 1 .. n - 1 : k \in 1 .. n /\ k + 1 \in 1 .. n
    BY <2>2
  <2>6. \A k \in DOMAIN w : \E j \in DOMAIN s : w[k] = s[j]
    BY <2>2, <2>4, <2>5
  <2> QED BY <1>1, <2>1, <2>2, <2>3, <2>4, <2>6
<1>2. CASE ~\E i \in DOMAIN s : s[i] = t
  BY <1>2 DEF Refresh
<1> QED BY <1>1, <1>2

LEMMA RememberFacts ==
  ASSUME NEW s \in Seq(DataTopics), NEW t \in DataTopics
  PROVE  /\ Remember(s, t) \in Seq(DataTopics) /\ Len(Remember(s, t)) <= Capacity
         /\ \A i \in DOMAIN Remember(s, t) : Remember(s, t)[i] = t \/ \E j \in DOMAIN s : Remember(s, t)[i] = s[j]
<1> DEFINE w == Refresh(s, t)
<1>1. w \in Seq(DataTopics) /\ \A i \in DOMAIN w : w[i] = t \/ \E j \in DOMAIN s : w[i] = s[j]
  BY RefreshFacts
<1>2. Remember(s, t) = LastOf(w, Capacity)
  BY DEF Remember
<1> HIDE DEF w
<1>3. CASE Len(w) > Capacity
  <2> DEFINE v == SubSeq(w, Len(w) - Capacity + 1, Len(w))
  <2>1. v \in Seq(DataTopics) /\ Len(v) = Capacity
        /\ \A i \in 1 .. Len(v) : v[i] = w[Len(w) - Capacity + i] /\ Len(w) - Capacity + i \in DOMAIN w
    BY <1>1, <1>3, CapacityAssumption, SubSeqProperties
  <2>2. Remember(s, t) = v
    BY <1>2, <1>3 DEF LastOf
  <2> HIDE DEF v
  <2> QED BY <1>1, <2>1, <2>2, CapacityAssumption
<1>4. CASE ~(Len(w) > Capacity)
  BY <1>1, <1>2, <1>4, CapacityAssumption DEF LastOf
<1> QED BY <1>3, <1>4

LEMMA BindInitOK == BindingInit => BindInv
<1> SUFFICES ASSUME BindingInit PROVE BindInv
  OBVIOUS
<1>1. RowsOK
  BY DEF BindingInit, NoBinds, RowsOK
<1>2. HistoriansOK
  BY DEF BindingInit, HistoriansOK
<1>3. ASSUME NEW h \in Historians PROVE BinderOK(h) /\ InformedOK(h)
  <2>1. bound[h] = <<>> /\ inFlight[h] = <<>>
    BY DEF BindingInit, NoBinds
  <2>2. DOMAIN bound[h] = {} /\ Binds(h) = {} /\ Remembered(h) = {}
    BY <2>1 DEF Binds, Remembered
  <2> QED BY <2>1, <2>2, CapacityAssumption DEF BinderOK, InformedOK
<1> QED BY <1>1, <1>2, <1>3 DEF BindInv

\* What a step leaves alone of a historian stays right.
LEMMA BinderFrame ==
  ASSUME NEW h \in Historians, BinderOK(h), bound'[h] = bound[h], inFlight'[h] = inFlight[h],
         DOMAIN topic_binding \subseteq DOMAIN topic_binding'
  PROVE  BinderOK(h)'
<1>1. Binds(h)' = Binds(h) /\ Remembered(h)' = Remembered(h)
  BY DEF Binds, Remembered
<1> QED BY <1>1 DEF BinderOK

LEMMA InformedFrame ==
  ASSUME NEW h \in Historians, BinderOK(h), InformedOK(h),
         bound'[h] = bound[h], inFlight'[h] = inFlight[h], overtaken'[h] = overtaken[h],
         Informed(h)' => Informed(h), asset' = asset,
         \A t \in DOMAIN topic_binding :
           boundBy'[t] = h => boundBy[t] = h /\ topic_binding'[t] = topic_binding[t]
  PROVE  InformedOK(h)'
<1>1. Binds(h)' = Binds(h) /\ Remembered(h)' = Remembered(h)
  BY DEF Binds, Remembered
<1>2. ASSUME NEW t PROVE BestAsset(t)' = BestAsset(t)
  BY DEF BestAsset
<1>3. ASSUME NEW t \in DOMAIN topic_binding, boundBy'[t] = h, UpToDate(t) PROVE UpToDate(t)'
  BY <1>2, <1>3 DEF UpToDate
<1>4. CASE Informed(h)
  BY <1>1, <1>2, <1>3, <1>4 DEF InformedOK, BinderOK
<1>5. CASE ~Informed(h)
  BY <1>5 DEF InformedOK
<1> QED BY <1>4, <1>5

LEMMA EditorStep ==
  ASSUME BindInv,
         \/ \E path \in Branches : EnsureBranch(path) \/ DeleteAsset(path)
         \/ RebindAll \/ Announce
  PROVE  BindInv'
<1>1. /\ UNCHANGED <<boundBy, bound, inFlight, overtaken>>
      /\ DOMAIN topic_binding' = DOMAIN topic_binding
  BY DEF EnsureBranch, DeleteAsset, RebindAll, Announce, bindingRows, historianState
<1>2. HistoriansOK'
  BY <1>1 DEF BindInv, HistoriansOK, EnsureBranch, DeleteAsset, RebindAll, Announce, historianState
<1>3. RowsOK'
  <2>1. ASSUME NEW t \in DOMAIN topic_binding PROVE topic_binding'[t] \in asset' \union {<<>>}
    <3>1. topic_binding[t] \in asset \union {<<>>} /\ t \in Seq(STRING)
      BY TopicsAssumption DEF BindInv, RowsOK
    <3>2. CASE \E path \in Branches : EnsureBranch(path)
      BY <3>1, <3>2 DEF EnsureBranch, bindingRows
    <3>3. CASE \E path \in Branches : DeleteAsset(path)
      BY <3>1, <3>3 DEF DeleteAsset
    <3>4. CASE RebindAll
      BY <3>1, <3>4, BestIsAsset DEF RebindAll, BestAsset
    <3>5. CASE Announce
      BY <3>1, <3>5 DEF Announce, bindingRows
    <3> QED BY <3>2, <3>3, <3>4, <3>5
  <2> QED BY <1>1, <2>1 DEF BindInv, RowsOK
<1>4. ASSUME NEW h \in Historians PROVE BinderOK(h)' /\ InformedOK(h)'
  <2>1. BinderOK(h)'
    BY <1>1, BinderFrame DEF BindInv
  <2>2. ~Informed(h)'
    <3>1. CASE Announce
      <4>1. notices'[h] = (notices[h] \/ listener[h] = "listening")
            /\ missed'[h] = (missed[h] \/ listener[h] # "listening")
        BY <3>1 DEF Announce
      <4> QED BY <4>1 DEF Informed
    <3>2. CASE ~Announce
      BY <3>2 DEF EnsureBranch, DeleteAsset, RebindAll, Informed
    <3> QED BY <3>1, <3>2
  <2> QED BY <2>1, <2>2 DEF InformedOK
<1> QED BY <1>2, <1>3, <1>4 DEF BindInv

\* The steps of one historian leave the editor and the others alone.
OwnStep(h) ==
  \/ Binder(h) \/ Listen(h) \/ GoesDeaf(h) \/ RestartHistorian(h)
  \/ \E t \in DataTopics : Observe(h, t) \/ BindFails(h, t)

LEMMA OthersStand ==
  ASSUME BindInv, NEW h \in Historians, OwnStep(h)
  PROVE  /\ HistoriansOK' /\ RowsOK' /\ UNCHANGED <<asset, editor>>
         /\ DOMAIN topic_binding \subseteq DOMAIN topic_binding'
         /\ \A g \in Historians \ {h} : BinderOK(g)' /\ InformedOK(g)'
<1>1. UNCHANGED <<asset, editor>> /\ HistoriansOK'
  <2>1. UNCHANGED <<asset, editor>>
    BY DEF OwnStep, Binder, BindReads, BindCommits, BindReturns, BindFails, Dispatch, Listen, GoesDeaf,
           RestartHistorian, Observe, assetModel
  <2>2. DOMAIN bound' = DOMAIN bound /\ DOMAIN inFlight' = DOMAIN inFlight /\ DOMAIN overtaken' = DOMAIN overtaken
    BY DEF OwnStep, Binder, BindReads, BindCommits, BindReturns, BindFails, Dispatch, Listen, GoesDeaf,
           RestartHistorian, Observe, Known, StartBind, Ending, assetModel, historianState
  <2>3. /\ notices' = notices \/ notices' = [notices EXCEPT ![h] = FALSE]
        /\ missed' = missed \/ missed' = [missed EXCEPT ![h] = FALSE]
    BY DEF OwnStep, Binder, BindReads, BindCommits, BindReturns, BindFails, Dispatch, Listen, GoesDeaf,
           RestartHistorian, Observe, assetModel, historianState
  <2> QED BY <2>1, <2>2, <2>3 DEF BindInv, HistoriansOK
<1>2. \/ UNCHANGED <<topic_binding, boundBy>>
      \/ \E t \in DataTopics : BindCommits(h, t)
  BY DEF OwnStep, Binder, BindReads, BindReturns, BindFails, Dispatch, Listen, GoesDeaf,
         RestartHistorian, Observe, bindingRows
<1> DEFINE RowsMove ==
      /\ RowsOK' /\ DOMAIN topic_binding \subseteq DOMAIN topic_binding'
      /\ \A g \in Historians \ {h} : \A t \in DOMAIN topic_binding :
           boundBy'[t] = g => boundBy[t] = g /\ topic_binding'[t] = topic_binding[t]
<1>3. RowsMove
  <2>1. CASE UNCHANGED <<topic_binding, boundBy>>
    BY <1>1, <2>1 DEF BindInv, RowsOK
  <2>2. ASSUME NEW t \in DataTopics, BindCommits(h, t) PROVE RowsMove
    <3> DEFINE best == inFlight[h][t].best
    <3>1. /\ best \in asset \union {<<>>}
          /\ topic_binding' = With(topic_binding, t, best) /\ boundBy' = With(boundBy, t, h)
      BY <2>2 DEF BindCommits
    <3> QED BY <1>1, <3>1 DEF BindInv, RowsOK, With
  <2> QED BY <1>2, <2>1, <2>2
<1>4. ASSUME NEW g \in Historians \ {h} PROVE BinderOK(g)' /\ InformedOK(g)'
  <2>1. /\ bound'[g] = bound[g] /\ inFlight'[g] = inFlight[g] /\ overtaken'[g] = overtaken[g]
        /\ notices'[g] = notices[g] /\ missed'[g] = missed[g]
    BY DEF BindInv, HistoriansOK, OwnStep, Binder, BindReads, BindCommits, BindReturns, BindFails, Dispatch,
           Listen, GoesDeaf, RestartHistorian, Observe, Known, StartBind, Ending, assetModel, historianState
  <2>2. Informed(g)' => Informed(g)
    BY <1>1, <2>1 DEF Informed
  <2> QED BY <1>1, <1>3, <2>1, <2>2, BinderFrame, InformedFrame DEF BindInv
<1> QED BY <1>1, <1>3, <1>4

\* What the historian knows of one topic, and nothing of the others, changes.
LEMMA OwnObserve ==
  ASSUME BindInv, NEW h \in Historians, NEW t \in DataTopics, Observe(h, t)
  PROVE  BinderOK(h)' /\ InformedOK(h)'
<1>1. BinderOK(h) /\ InformedOK(h) /\ DOMAIN bound = Historians /\ DOMAIN inFlight = Historians
  BY DEF BindInv, HistoriansOK
<1>2. UNCHANGED <<asset, editor, topic_binding, boundBy, notices, missed, overtaken>>
  BY DEF Observe, assetModel, bindingRows
<1>3. \A u : BestAsset(u)' = BestAsset(u)
  BY <1>2 DEF BestAsset
<1>4. CASE Known(h, t)
  <2>1. bound'[h] = Refresh(bound[h], t) /\ inFlight' = inFlight /\ \E i \in DOMAIN bound[h] : bound[h][i] = t
    BY <1>1, <1>4 DEF Known, Remembered
  <2>2. bound'[h] \in Seq(DataTopics) /\ Len(bound'[h]) <= Capacity /\ Remembered(h)' \subseteq Remembered(h)
    <3>1. /\ bound'[h] \in Seq(DataTopics) /\ Len(bound'[h]) = Len(bound[h])
          /\ \A i \in DOMAIN bound'[h] : bound'[h][i] = t \/ \E j \in DOMAIN bound[h] : bound'[h][i] = bound[h][j]
      <4>1. PICK s \in Seq(DataTopics) : s = bound[h] /\ \E i \in DOMAIN s : s[i] = t
        BY <1>1, <2>1 DEF BinderOK
      <4>2. PICK w : w = bound'[h] /\ w = Refresh(s, t)
        BY <2>1, <4>1
      <4>3. /\ w \in Seq(DataTopics) /\ Len(w) = Len(s)
            /\ \A i \in DOMAIN w : w[i] = t \/ \E j \in DOMAIN s : w[i] = s[j]
        <5>1. \E i \in DOMAIN s : s[i] = t
          BY <4>1
        <5>2. /\ Refresh(s, t) \in Seq(DataTopics)
              /\ \A i \in DOMAIN Refresh(s, t) :
                   Refresh(s, t)[i] = t \/ \E j \in DOMAIN s : Refresh(s, t)[i] = s[j]
          BY RefreshFacts
        <5>3. Len(Refresh(s, t)) = Len(s)
          BY <5>1, RefreshFacts
        <5> QED BY <4>2, <5>2, <5>3
      <4> QED BY <4>1, <4>2, <4>3
    <3> QED BY <1>1, <2>1, <3>1 DEF BinderOK, Remembered
  <2>3. Binds(h)' = Binds(h)
    BY <2>1 DEF Binds
  <2>4. BinderOK(h)'
    BY <1>1, <1>2, <2>1, <2>2, <2>3 DEF BinderOK
  <2>5. InformedOK(h)'
    BY <1>1, <1>2, <1>3, <2>1, <2>2, <2>3 DEF InformedOK, Informed, UpToDate
  <2> QED BY <2>4, <2>5
<1>5. CASE StartBind(h, t)
  <2>1. /\ bound' = bound /\ inFlight'[h] = With(inFlight[h], t, [at |-> "sent", best |-> <<>>])
        /\ t \notin Remembered(h) /\ t \notin Binds(h)
    BY <1>1, <1>5 DEF StartBind
  <2>2. Remembered(h)' = Remembered(h) /\ Binds(h)' = Binds(h) \union {t}
    BY <2>1 DEF Binds, Remembered, With
  <2>3. inFlight'[h][t] = [at |-> "sent", best |-> <<>>] /\ \A u \in Binds(h) : inFlight'[h][u] = inFlight[h][u]
    BY <2>1 DEF With, Binds
  <2>4. BinderOK(h)'
    BY <1>1, <1>2, <2>1, <2>2, <2>3 DEF BinderOK
  <2>5. InformedOK(h)'
    BY <1>1, <1>2, <1>3, <2>1, <2>2, <2>3 DEF InformedOK, Informed, UpToDate
  <2> QED BY <2>4, <2>5
<1> QED BY <1>4, <1>5 DEF Observe

LEMMA OwnReads ==
  ASSUME BindInv, NEW h \in Historians, NEW t \in DataTopics, BindReads(h, t)
  PROVE  BinderOK(h)' /\ InformedOK(h)'
<1>1. BinderOK(h) /\ InformedOK(h) /\ DOMAIN inFlight = Historians
  BY DEF BindInv, HistoriansOK
<1>2. /\ UNCHANGED <<asset, editor, topic_binding, boundBy, bound, notices, missed, overtaken>>
      /\ t \in Binds(h)
      /\ inFlight'[h] = [inFlight[h] EXCEPT ![t] = [at |-> "read", best |-> BestAsset(t)]]
  BY <1>1 DEF BindReads, assetModel, bindingRows
<1>3. \A u : BestAsset(u)' = BestAsset(u)
  BY <1>2 DEF BestAsset
<1>4. Remembered(h)' = Remembered(h) /\ Binds(h)' = Binds(h)
  BY <1>2 DEF Binds, Remembered
<1>5. /\ inFlight'[h][t] = [at |-> "read", best |-> BestAsset(t)]
      /\ \A u \in Binds(h) \ {t} : inFlight'[h][u] = inFlight[h][u]
  BY <1>2 DEF Binds
<1>6. BinderOK(h)'
  BY <1>1, <1>2, <1>4, <1>5 DEF BinderOK
<1>7. InformedOK(h)'
  BY <1>1, <1>2, <1>3, <1>4, <1>5 DEF InformedOK, Informed, UpToDate
<1> QED BY <1>6, <1>7

LEMMA OwnCommits ==
  ASSUME BindInv, NEW h \in Historians, NEW t \in DataTopics, BindCommits(h, t)
  PROVE  BinderOK(h)' /\ InformedOK(h)'
<1>1. BinderOK(h) /\ InformedOK(h) /\ DOMAIN inFlight = Historians /\ RowsOK
  BY DEF BindInv, HistoriansOK
<1>2. /\ UNCHANGED <<asset, editor, bound, notices, missed, overtaken>>
      /\ t \in Binds(h) /\ inFlight[h][t].at = "read"
      /\ topic_binding' = With(topic_binding, t, inFlight[h][t].best)
      /\ boundBy' = With(boundBy, t, h)
      /\ inFlight'[h] = [inFlight[h] EXCEPT ![t].at = "committed"]
  BY <1>1 DEF BindCommits, assetModel
<1>3. \A u : BestAsset(u)' = BestAsset(u)
  BY <1>2 DEF BestAsset
<1>4. Remembered(h)' = Remembered(h) /\ Binds(h)' = Binds(h)
  BY <1>2 DEF Binds, Remembered
<1>5. /\ inFlight'[h][t].at = "committed" /\ DOMAIN inFlight'[h][t] = {"at", "best"}
      /\ \A u \in Binds(h) \ {t} : inFlight'[h][u] = inFlight[h][u]
  BY <1>1, <1>2 DEF Binds, BinderOK
<1>6. /\ DOMAIN topic_binding' = DOMAIN topic_binding \union {t}
      /\ topic_binding'[t] = inFlight[h][t].best
      /\ \A u \in DOMAIN topic_binding \ {t} : topic_binding'[u] = topic_binding[u] /\ boundBy'[u] = boundBy[u]
  BY <1>1, <1>2 DEF With, RowsOK
<1>7. BinderOK(h)'
  BY <1>1, <1>2, <1>4, <1>5, <1>6 DEF BinderOK
<1>8. ASSUME Informed(h)', NEW u \in DataTopics \ overtaken[h]
      PROVE  /\ u \in Binds(h) /\ inFlight'[h][u].at = "read" => inFlight'[h][u].best = BestAsset(u)
             /\ u \in Binds(h) /\ inFlight'[h][u].at = "committed" /\ boundBy'[u] = h => UpToDate(u)'
             /\ u \in Remembered(h) /\ boundBy'[u] = h => UpToDate(u)'
  <2>1. Informed(h)
    BY <1>2, <1>8 DEF Informed
  <2>2. CASE u = t
    <3>1. inFlight[h][t].best = BestAsset(t)
      BY <1>1, <1>2, <1>8, <2>1, <2>2 DEF InformedOK
    <3>2. UpToDate(t)'
      BY <1>3, <1>6, <3>1 DEF UpToDate
    <3> QED BY <1>5, <2>2, <3>2
  <2>3. CASE u # t
    <3>1. u \in Binds(h) => inFlight'[h][u] = inFlight[h][u]
      BY <1>5, <2>3
    <3>2. u \in DOMAIN topic_binding /\ boundBy'[u] = h /\ UpToDate(u) => UpToDate(u)'
      BY <1>3, <1>6, <2>3 DEF UpToDate
    <3>3. u \in DOMAIN topic_binding => boundBy'[u] = boundBy[u]
      BY <1>6, <2>3
    <3> QED BY <1>1, <1>8, <2>1, <3>1, <3>2, <3>3 DEF InformedOK, BinderOK
  <2> QED BY <2>2, <2>3
<1>9. InformedOK(h)'
  BY <1>2, <1>3, <1>4, <1>8 DEF InformedOK
<1> QED BY <1>7, <1>9

LEMMA OwnReturns ==
  ASSUME BindInv, NEW h \in Historians, NEW t \in DataTopics, BindReturns(h, t)
  PROVE  BinderOK(h)' /\ InformedOK(h)'
<1>1. BinderOK(h) /\ InformedOK(h) /\ DOMAIN inFlight = Historians /\ DOMAIN bound = Historians
  BY DEF BindInv, HistoriansOK
<1>2. /\ UNCHANGED <<asset, editor, topic_binding, boundBy, notices, missed, overtaken>>
      /\ t \in Binds(h) /\ inFlight[h][t].at = "committed"
      /\ bound'[h] = Remember(bound[h], t)
      /\ inFlight'[h] = [u \in Binds(h) \ {t} |-> inFlight[h][u]]
  BY <1>1 DEF BindReturns, Ending, assetModel, bindingRows
<1>3. \A u : BestAsset(u)' = BestAsset(u)
  BY <1>2 DEF BestAsset
<1>4. Binds(h)' = Binds(h) \ {t} /\ \A u \in Binds(h)' : inFlight'[h][u] = inFlight[h][u]
  BY <1>2 DEF Binds
<1>5. bound'[h] \in Seq(DataTopics) /\ Len(bound'[h]) <= Capacity /\ Remembered(h)' \subseteq Remembered(h) \union {t}
  <2>1. /\ bound'[h] \in Seq(DataTopics) /\ Len(bound'[h]) <= Capacity
        /\ \A i \in DOMAIN bound'[h] : bound'[h][i] = t \/ \E j \in DOMAIN bound[h] : bound'[h][i] = bound[h][j]
    BY <1>1, <1>2, RememberFacts DEF BinderOK
  <2> QED BY <2>1 DEF Remembered
<1>6. BinderOK(h)'
  BY <1>1, <1>2, <1>4, <1>5 DEF BinderOK
<1>7. InformedOK(h)'
  BY <1>1, <1>2, <1>3, <1>4, <1>5 DEF InformedOK, Informed, UpToDate
<1> QED BY <1>6, <1>7

LEMMA OwnFails ==
  ASSUME BindInv, NEW h \in Historians, NEW t \in DataTopics, BindFails(h, t)
  PROVE  BinderOK(h)' /\ InformedOK(h)'
<1>1. /\ BinderOK(h) /\ InformedOK(h) /\ DOMAIN inFlight = Historians /\ DOMAIN overtaken = Historians
  BY DEF BindInv, HistoriansOK
<1>2. /\ UNCHANGED <<asset, editor, topic_binding, boundBy, bound, notices, missed>>
      /\ t \in Binds(h) /\ overtaken'[h] = overtaken[h] \ {t}
      /\ inFlight'[h] = [u \in Binds(h) \ {t} |-> inFlight[h][u]]
  BY <1>1 DEF BindFails, Ending, assetModel, bindingRows
<1>3. \A u : BestAsset(u)' = BestAsset(u)
  BY <1>2 DEF BestAsset
<1>4. /\ Binds(h)' = Binds(h) \ {t} /\ \A u \in Binds(h)' : inFlight'[h][u] = inFlight[h][u]
      /\ Remembered(h)' = Remembered(h) /\ t \notin Remembered(h)
  BY <1>1, <1>2 DEF Binds, Remembered, BinderOK
<1>5. BinderOK(h)'
  BY <1>1, <1>2, <1>4 DEF BinderOK
<1>6. InformedOK(h)'
  BY <1>1, <1>2, <1>3, <1>4 DEF InformedOK, Informed, UpToDate
<1> QED BY <1>5, <1>6

\* It forgets: what is in flight past its snapshot is overtaken.
LEMMA OwnDispatch ==
  ASSUME BindInv, NEW h \in Historians, Dispatch(h)
  PROVE  BinderOK(h)' /\ InformedOK(h)'
<1>1. /\ BinderOK(h) /\ DOMAIN bound = Historians /\ DOMAIN overtaken = Historians
  BY DEF BindInv, HistoriansOK
<1>2. /\ UNCHANGED <<topic_binding, inFlight>> /\ bound'[h] = <<>>
      /\ overtaken'[h] = {t \in Binds(h) : inFlight[h][t].at # "sent"}
  BY <1>1 DEF Dispatch, Forgotten, bindingRows
<1>3. Binds(h)' = Binds(h) /\ Remembered(h)' = {}
  BY <1>2 DEF Binds, Remembered
<1> QED BY <1>1, <1>2, <1>3, CapacityAssumption DEF BinderOK, InformedOK

LEMMA OwnRestart ==
  ASSUME BindInv, NEW h \in Historians, RestartHistorian(h)
  PROVE  BinderOK(h)' /\ InformedOK(h)'
<1>1. DOMAIN bound = Historians /\ DOMAIN inFlight = Historians
  BY DEF BindInv, HistoriansOK
<1>2. bound'[h] = <<>> /\ inFlight'[h] = <<>>
  BY <1>1 DEF RestartHistorian, NoBinds
<1>3. Binds(h)' = {} /\ Remembered(h)' = {}
  BY <1>2 DEF Binds, Remembered
<1> QED BY <1>2, <1>3, CapacityAssumption DEF BinderOK, InformedOK

LEMMA OwnListener ==
  ASSUME BindInv, NEW h \in Historians, Listen(h) \/ GoesDeaf(h)
  PROVE  BinderOK(h)' /\ InformedOK(h)'
<1>1. UNCHANGED <<asset, editor, topic_binding, boundBy, bound, inFlight, notices, missed, overtaken>>
  BY DEF Listen, GoesDeaf, assetModel, bindingRows
<1>2. Informed(h)' => Informed(h)
  BY <1>1 DEF Informed
<1> QED BY <1>1, <1>2, BinderFrame, InformedFrame DEF BindInv

LEMMA BindKept == BindInv /\ [BindingNext]_bindingVars => BindInv'
<1> SUFFICES ASSUME BindInv, [BindingNext]_bindingVars PROVE BindInv'
  OBVIOUS
<1>1. CASE \/ \E path \in Branches : EnsureBranch(path) \/ DeleteAsset(path)
           \/ Editor
  BY <1>1, EditorStep DEF Editor
<1>2. ASSUME NEW h \in Historians, OwnStep(h) PROVE BindInv'
  <2>1. BinderOK(h)' /\ InformedOK(h)'
    BY <1>2, OwnObserve, OwnReads, OwnCommits, OwnReturns, OwnFails, OwnDispatch, OwnRestart, OwnListener
       DEF OwnStep, Binder
  <2> QED BY <1>2, <2>1, OthersStand DEF BindInv
<1>3. CASE UNCHANGED bindingVars
  <2>1. UNCHANGED <<asset, topic_binding, boundBy, editor, bound, inFlight, notices, missed, overtaken>>
    BY <1>3 DEF bindingVars
  <2>2. RowsOK' /\ HistoriansOK'
    BY <2>1 DEF BindInv, RowsOK, HistoriansOK
  <2>3. ASSUME NEW h \in Historians PROVE BinderOK(h)' /\ InformedOK(h)'
    <3>1. Informed(h)' => Informed(h)
      BY <2>1 DEF Informed
    <3> QED BY <2>1, <3>1, BinderFrame, InformedFrame DEF BindInv
  <2> QED BY <2>2, <2>3 DEF BindInv
<1> QED BY <1>1, <1>2, <1>3 DEF BindingNext, OwnStep

LEMMA BindAlwaysKept == BindingSpec => []BindInv
<1> QED BY BindInitOK, BindKept, PTL DEF BindingSpec

\* The LRU of every historian stays within its capacity whatever the churn of topics, one
\* bind of a topic runs at a time, and every row names an Asset that exists or none.
THEOREM LruStaysBounded == BindingSpec => []BindingTypeOK
<1>1. BindInv => BindingTypeOK
  BY DEF BindInv, RowsOK, BinderOK, BindingTypeOK
<1> QED BY <1>1, BindAlwaysKept, PTL

\* A row that is not the deepest Asset will be revisited, however many historians bind,
\* crash and miss notices while the Asset Model is edited: except for the two gaps that
\* StaleIsRevisited names, no historian rests on a stale row it wrote.
THEOREM StaleAlwaysRevisited == BindingSpec => []StaleIsRevisited
<1>1. ASSUME BindInv PROVE StaleIsRevisited
  <2>1. ASSUME NEW t \in DOMAIN topic_binding, topic_binding[t] # BestAsset(t), editor = "idle",
               t \in Remembered(boundBy[t]), ~notices[boundBy[t]], ~missed[boundBy[t]]
        PROVE  t \in overtaken[boundBy[t]]
    <3>1. boundBy[t] \in Historians /\ t \in DataTopics
      BY <1>1 DEF BindInv, RowsOK
    <3>2. InformedOK(boundBy[t]) /\ Informed(boundBy[t])
      BY <1>1, <2>1, <3>1 DEF BindInv, Informed
    <3> QED BY <2>1, <3>1, <3>2 DEF InformedOK, UpToDate
  <2> QED BY <2>1 DEF StaleIsRevisited
<1> QED BY <1>1, BindAlwaysKept, PTL

-----------------------------------------------------------------------------
(* CopilotChat: the conversation and the turns under way                    *)

Active == {"ask", "insertQuestion", "consult", "model", "answer", "insertAnswer"}
Asked == {"consult", "model", "answer", "insertAnswer"}
HasQuestion(t) == \E i \in DOMAIN messages : messages[i].role = "user" /\ messages[i].turn = t

\* A turn under way is its owner's, in the store of the conversation, and young. While the
\* conversation lasts it holds the question of the turn and is not older than the turn; the
\* title that the turn has read is still to be given or is one of the questions.
GoodTurn(t, s) ==
  /\ s.now <= time /\ (s.step = "model" => s.rounds < ModelRounds)
  /\ s.step \in Active => Asker[t] = "owner" /\ holder = home /\ time <= s.now + TurnTime
  /\ thread # Gone =>
       /\ s.step \in Asked => HasQuestion(t) /\ s.now <= thread.updated + TurnTime
       /\ s.step \in {"insertQuestion", "insertAnswer"} => s.title = "untitled" \/ HasQuestion(s.title)
       /\ s.step = "insertAnswer" => s.title # "untitled"
       /\ s.step \in {"model", "answer"} /\ Len(messages) <= Limit =>
            \E m \in s.history : m.role = "user" /\ m.turn = t

ChatInv ==
  /\ ChatTypeOK
  /\ DeletedIsGone /\ AnswersHaveQuestions
  /\ thread # Gone /\ messages = <<>> => thread.title = "untitled"
  /\ \A t \in Turns : GoodTurn(t, turn[t])

LEMMA ChatInvHolds == ChatInv => ChatTypeOK /\ ConversationHolds
BY DEF ChatInv, ConversationHolds, ShortHistoryHasQuestion, GoodTurn, Question

LEMMA ChatNats ==
  /\ Limit \in Nat /\ Retention \in Nat /\ TurnTime \in Nat /\ MaxTime \in Nat
  /\ ModelRounds \in Nat /\ ModelRounds > 0
BY ChatBounds

\* A turn that has not begun, or holds nothing any more.
LEMMA Resting ==
  ASSUME NEW step \in {"idle", "done", "failed"}, NEW s, time \in Nat,
         s = [step |-> step, now |-> 0, title |-> "none", rounds |-> 0, history |-> {}]
  PROVE  s \in TurnStates /\ s.now = 0 /\ \A t \in Turns : GoodTurn(t, s)
<1>1. /\ s.step = step /\ s.now = 0 /\ s.title = "none" /\ s.rounds = 0 /\ s.history = {}
  OBVIOUS
<1>2. step \in Steps /\ 0 \in 0..MaxTime /\ 0 \in 0..ModelRounds /\ {} \in SUBSET Said
  BY ChatNats DEF Steps
<1>3. s \in TurnStates
  BY <1>2 DEF TurnStates
<1>4. \A t \in Turns : GoodTurn(t, s)
  <2>1. /\ s.step \notin Active /\ s.step \notin Asked /\ s.step # "model" /\ s.step # "answer"
        /\ s.step # "insertQuestion" /\ s.step # "insertAnswer" /\ s.now <= time
    BY <1>1 DEF Active, Asked
  <2> QED BY <2>1 DEF GoodTurn
<1> QED BY <1>1, <1>3, <1>4

LEMMA ChatBegins == ChatInit => ChatInv
<1> SUFFICES ASSUME ChatInit PROVE ChatInv
  OBVIOUS
<1>1. PICK s : s = Idle /\ turn = [t \in Turns |-> s]
  BY DEF ChatInit
<1>2. /\ s \in TurnStates /\ s.now = 0 /\ \A t \in Turns : GoodTurn(t, s)
  BY <1>1, Resting DEF ChatInit, Idle
<1>3. messages = <<>> /\ messages \in Seq(Said) /\ DOMAIN messages = {}
  <2>1. messages = <<>>
    BY DEF ChatInit
  <2> QED BY <2>1
<1>4. thread = [title |-> "untitled", updated |-> 0]
  BY DEF ChatInit
<1>5. thread \in [title : {"untitled"} \union Turns, updated : 0..MaxTime] /\ thread.title = "untitled"
  BY <1>4, ChatNats
<1>6. ChatTypeOK
  <2>1. time = 0 /\ time \in 0..MaxTime /\ turn \in [Turns -> TurnStates] /\ \A t \in Turns : turn[t].now <= time
    BY <1>1, <1>2, ChatNats DEF ChatInit
  <2> QED BY <1>3, <1>5, <2>1 DEF ChatInit, ChatTypeOK
<1>7. DeletedIsGone /\ AnswersHaveQuestions
  BY <1>3 DEF ChatInit, DeletedIsGone, AnswersHaveQuestions
<1> QED BY <1>1, <1>2, <1>5, <1>6, <1>7 DEF ChatInv

\* A step of one turn that leaves the conversation alone.
LEMMA TurnStep ==
  ASSUME ChatInv, NEW t \in Turns, NEW s \in TurnStates, turn' = [turn EXCEPT ![t] = s],
         UNCHANGED <<home, holder, thread, messages, time>>, GoodTurn(t, s)
  PROVE  ChatInv'
<1>1. /\ turn' \in [Turns -> TurnStates] /\ turn'[t] = s
      /\ \A u \in Turns : u # t => turn'[u] = turn[u]
  BY DEF ChatInv, ChatTypeOK
<1>2. \A u \in Turns : GoodTurn(u, turn'[u])
  BY <1>1 DEF ChatInv
<1>3. \A u \in Turns : GoodTurn(u, turn[u])'
  <2>1. \A u : HasQuestion(u)' <=> HasQuestion(u)
    BY DEF HasQuestion
  <2> QED BY <1>2, <2>1 DEF GoodTurn
<1>4. ChatTypeOK'
  <2>1. \A u \in Turns : turn'[u].now <= time
    BY <1>2 DEF GoodTurn
  <2> QED BY <1>1, <2>1 DEF ChatInv, ChatTypeOK
<1>5. DeletedIsGone' /\ AnswersHaveQuestions'
  BY DEF ChatInv, DeletedIsGone, AnswersHaveQuestions
<1>6. (thread # Gone /\ messages = <<>> => thread.title = "untitled")'
  BY DEF ChatInv
<1> QED BY <1>3, <1>4, <1>5, <1>6 DEF ChatInv

LEMMA Ended ==
  ASSUME ChatInv, NEW step \in {"done", "failed"}
  PROVE  /\ [Idle EXCEPT !.step = step] \in TurnStates
         /\ \A t \in Turns : GoodTurn(t, [Idle EXCEPT !.step = step])
<1>1. PICK s : s = [Idle EXCEPT !.step = step]
  OBVIOUS
<1>2. s = [step |-> step, now |-> 0, title |-> "none", rounds |-> 0, history |-> {}]
  BY <1>1 DEF Idle
<1>3. time \in Nat
  BY ChatNats DEF ChatInv, ChatTypeOK
<1> QED BY <1>1, <1>2, <1>3, Resting

LEMMA FailKeeps == ASSUME ChatInv, NEW t \in Turns, Fail(t) PROVE ChatInv'
BY Ended, TurnStep DEF Fail, Step

LEMMA ChatKeeps == ASSUME ChatInv, NEW t \in Turns, Chat(t) PROVE ChatInv'
<1>1. PICK s : s = turn[t]
  OBVIOUS
<1>2. s \in TurnStates /\ time \in 0..MaxTime
  BY <1>1 DEF ChatInv, ChatTypeOK
<1>3. PICK n : /\ turn' = [turn EXCEPT ![t] = n]
               /\ n = IF Owned(Asker[t], time) THEN [s EXCEPT !.step = "ask", !.now = time]
                      ELSE [s EXCEPT !.step = "refused"]
  BY <1>1 DEF Chat
<1>4. n \in TurnStates
  BY <1>2, <1>3 DEF TurnStates, Steps
<1>5. GoodTurn(t, n)
  <2>1. CASE Owned(Asker[t], time)
    <3>1. n.step = "ask" /\ n.now = time
      BY <1>2, <1>3, <2>1 DEF TurnStates
    <3> QED BY <1>2, <2>1, <3>1, ChatNats DEF GoodTurn, Owned, Active, Asked
  <2>2. CASE ~Owned(Asker[t], time)
    <3>1. n.step = "refused" /\ n.now = s.now
      BY <1>2, <1>3, <2>2 DEF TurnStates
    <3> QED BY <1>1, <3>1 DEF GoodTurn, Active, Asked, ChatInv
  <2> QED BY <2>1, <2>2
<1> QED BY <1>3, <1>4, <1>5, TurnStep DEF Chat

LEMMA CompleteKeeps == ASSUME ChatInv, NEW t \in Turns, Complete(t) PROVE ChatInv'
<1>1. PICK s : s = turn[t]
  OBVIOUS
<1>2. s \in TurnStates /\ s.step = "model" /\ GoodTurn(t, s)
  BY <1>1 DEF ChatInv, ChatTypeOK, Complete
<1>3. PICK step, n :
        /\ step \in {"answer", "model"} /\ turn' = [turn EXCEPT ![t] = n] /\ n = [s EXCEPT !.rounds = s.rounds + 1, !.step = step]
        /\ step = "model" => s.rounds + 1 # ModelRounds
  BY <1>1, ChatNats DEF Complete
<1>4. /\ n \in TurnStates /\ n.step = step /\ n.rounds = s.rounds + 1 /\ n.now = s.now
      /\ n.title = s.title /\ n.history = s.history
  <2>1. s.rounds \in 0..ModelRounds /\ s.rounds < ModelRounds
    BY <1>2 DEF GoodTurn, TurnStates
  <2>2. PICK more : more = s.rounds + 1
    OBVIOUS
  <2>3. more \in 0..ModelRounds
    BY <2>1, <2>2, ChatNats
  <2>4. n = [s EXCEPT !.rounds = more, !.step = step]
    BY <1>3, <2>2
  <2>5. step \in Steps
    BY <1>3 DEF Steps
  <2> QED BY <1>2, <2>2, <2>3, <2>4, <2>5 DEF TurnStates
<1>5. GoodTurn(t, n)
  BY <1>2, <1>3, <1>4, ChatNats DEF GoodTurn, Active, Asked, TurnStates
<1> QED BY <1>3, <1>4, <1>5, TurnStep DEF Complete

\* append reads the conversation: what it reads is the title of a conversation that lasts.
LEMMA ThreadTitle ==
  ASSUME ChatInv, thread # Gone
  PROVE  /\ thread.title \in {"untitled"} \union Turns /\ thread.updated \in 0..MaxTime
         /\ IF messages = <<>> THEN thread.title = "untitled"
            ELSE HasQuestion(thread.title) /\ thread.title # "untitled"
<1>1. thread \in [title : {"untitled"} \union Turns, updated : 0..MaxTime]
  BY DEF ChatInv, ChatTypeOK
<1>2. messages # <<>> => HasQuestion(thread.title)
  BY DEF ChatInv, AnswersHaveQuestions, HasQuestion
<1>3. HasQuestion(thread.title) => thread.title # "untitled"
  <2>1. messages \in Seq(Said)
    BY DEF ChatInv, ChatTypeOK
  <2>2. \A i \in DOMAIN messages : messages[i] \in Said
    BY <2>1
  <2> QED BY <2>2, TitlesAssumption DEF HasQuestion, Said
<1>4. messages = <<>> => thread.title = "untitled"
  BY DEF ChatInv
<1> QED BY <1>1, <1>2, <1>3, <1>4

LEMMA AppendGetKeeps == ASSUME ChatInv, NEW t \in Turns, AppendGet(t) PROVE ChatInv'
<1>1. PICK s : s = turn[t]
  OBVIOUS
<1>2. s \in TurnStates /\ s.step \in {"ask", "answer"} /\ GoodTurn(t, s)
  BY <1>1 DEF ChatInv, ChatTypeOK, AppendGet
<1>3. CASE Owned(Asker[t], s.now)
  <2>1. PICK step, n :
          /\ step \in {"insertQuestion", "insertAnswer"} /\ turn' = [turn EXCEPT ![t] = n] /\ n = [s EXCEPT !.title = thread.title, !.step = step]
          /\ step = "insertQuestion" <=> s.step = "ask"
    <3>1. PICK step \in {"insertQuestion", "insertAnswer"} :
            step = IF Role(s.step) = "user" THEN "insertQuestion" ELSE "insertAnswer"
      OBVIOUS
    <3>2. turn' = [turn EXCEPT ![t] = [s EXCEPT !.title = thread.title, !.step = step]]
      BY <1>1, <1>3, <3>1 DEF AppendGet
    <3>3. step = "insertQuestion" <=> s.step = "ask"
      BY <1>2, <3>1 DEF Role
    <3> QED BY <3>1, <3>2, <3>3
  <2>2. thread # Gone
    BY <1>3 DEF Owned
  <2>3. /\ n \in TurnStates /\ n.step = step /\ n.title = thread.title /\ n.now = s.now
    BY <1>2, <2>1, <2>2, ThreadTitle DEF TurnStates, Steps
  <2>4. IF messages = <<>> THEN n.title = "untitled" ELSE HasQuestion(n.title) /\ n.title # "untitled"
    BY <2>2, <2>3, ThreadTitle
  <2>5. step = "insertAnswer" => messages # <<>>
    <3>1. messages = <<>> => ~HasQuestion(t)
      BY DEF HasQuestion
    <3>2. step = "insertAnswer" => HasQuestion(t)
      BY <1>2, <2>1, <2>2 DEF GoodTurn, Asked
    <3> QED BY <3>1, <3>2
  <2>7. GoodTurn(t, n)
    BY <1>2, <2>1, <2>2, <2>3, <2>4, <2>5 DEF GoodTurn, Active, Asked
  <2> QED BY <2>1, <2>3, <2>7, TurnStep DEF AppendGet
<1>4. CASE ~Owned(Asker[t], s.now)
  <2>1. turn' = [turn EXCEPT ![t] = [Idle EXCEPT !.step = "failed"]]
    BY <1>1, <1>4 DEF AppendGet
  <2> QED BY <2>1, Ended, TurnStep DEF AppendGet
<1> QED BY <1>3, <1>4
-----------------------------------------------------------------------------
(* Consult: what is loaded of a short conversation is all of it             *)

LEMMA AllPicked ==
  ASSUME NEW n \in Nat, NEW picked \in SUBSET (1..n), Cardinality(picked) = n
  PROVE  picked = 1..n
<1>1. IsFiniteSet(1..n) /\ Cardinality(1..n) = n
  BY FS_Interval
<1> QED BY <1>1, FS_Subset

LEMMA ConsultKeeps == ASSUME ChatInv, NEW t \in Turns, Consult(t) PROVE ChatInv'
<1>1. PICK s : s = turn[t]
  OBVIOUS
<1>2. s \in TurnStates /\ s.step = "consult" /\ GoodTurn(t, s)
  BY <1>1 DEF ChatInv, ChatTypeOK, Consult
<1>3. PICK loaded, n :
        loaded \in LastMessages(t) /\ turn' = [turn EXCEPT ![t] = n] /\ n = [s EXCEPT !.step = "model", !.history = loaded, !.rounds = 0]
  BY <1>1 DEF Consult
<1>4. /\ messages \in Seq(Said) /\ Len(messages) \in Nat /\ DOMAIN messages = 1..Len(messages)
      /\ \A i \in DOMAIN messages : messages[i] \in Said
  <2>1. messages \in Seq(Said)
    BY DEF ChatInv, ChatTypeOK
  <2> QED BY <2>1
<1>5. LastOfList \in Seq(Said) /\ (Len(messages) <= Limit => LastOfList = messages)
  <2>1. CASE Len(messages) <= Limit
    BY <1>4, <2>1 DEF LastOfList
  <2>2. CASE ~(Len(messages) <= Limit)
    <3>1. LastOfList = SubSeq(messages, Len(messages) - Limit + 1, Len(messages))
      BY <2>2 DEF LastOfList
    <3>2. Len(messages) - Limit + 1 \in 1..(Len(messages) + 1) /\ Len(messages) \in Nat
      BY <1>4, <2>2, ChatNats
    <3> QED BY <1>4, <2>2, <3>1, <3>2, SubSeqProperties
  <2> QED BY <2>1, <2>2
<1>6. loaded \subseteq Said
  <2>1. \/ loaded = {}
        \/ loaded = {LastOfList[i] : i \in DOMAIN LastOfList}
        \/ \E picked \in SUBSET DOMAIN messages : loaded = {messages[i] : i \in picked}
    BY <1>3 DEF LastMessages
  <2>2. \A i \in DOMAIN LastOfList : LastOfList[i] \in Said
    BY <1>5
  <2> QED BY <1>4, <2>1, <2>2
<1>7. ASSUME thread # Gone, Len(messages) <= Limit
      PROVE  \E m \in loaded : m.role = "user" /\ m.turn = t
  <2>1. PICK i \in DOMAIN messages : messages[i].role = "user" /\ messages[i].turn = t
    BY <1>2, <1>7 DEF GoodTurn, Asked, HasQuestion
  <2>2. holder = home /\ Asker[t] = "owner"
    BY <1>2 DEF GoodTurn, Active
  <2>3. CASE home = "memory"
    <3>1. loaded = {messages[j] : j \in DOMAIN messages}
      BY <1>3, <1>5, <1>7, <2>2, <2>3 DEF LastMessages
    <3> QED BY <2>1, <3>1
  <2>4. CASE home # "memory"
    <3>1. ~Expired(time)
      <4>1. time \in Nat /\ s.now \in Nat /\ thread.updated \in Nat
        BY <1>2, <1>7, ThreadTitle, ChatNats DEF ChatInv, ChatTypeOK, TurnStates
      <4>2. time <= s.now + TurnTime /\ s.now <= thread.updated + TurnTime
        BY <1>2, <1>7 DEF GoodTurn, Active, Asked
      <4> QED BY <4>1, <4>2, ChatNats, TurnsAreShort DEF Expired
    <3>2. PICK picked \in SUBSET DOMAIN messages : FirstOfTable(picked) /\ loaded = {messages[j] : j \in picked}
      BY <1>3, <1>7, <2>2, <2>4, <3>1 DEF LastMessages
    <3>3. Cardinality(picked) = Len(messages)
      BY <1>7, <3>2 DEF FirstOfTable
    <3>4. picked = DOMAIN messages
      BY <1>4, <3>2, <3>3, AllPicked
    <3> QED BY <2>1, <3>2, <3>4
  <2> QED BY <2>3, <2>4
<1>8. /\ n \in TurnStates /\ n.step = "model" /\ n.now = s.now /\ n.rounds = 0 /\ n.history = loaded
  <2>1. 0 \in 0..ModelRounds /\ "model" \in Steps /\ loaded \in SUBSET Said
    BY <1>6, ChatNats DEF Steps
  <2>2. /\ s.step \in Steps /\ s.now \in 0..MaxTime /\ s.title \in {"none", "untitled"} \union Turns
        /\ s = [step |-> s.step, now |-> s.now, title |-> s.title, rounds |-> s.rounds, history |-> s.history]
    BY <1>2 DEF TurnStates
  <2>3. n = [step |-> "model", now |-> s.now, title |-> s.title, rounds |-> 0, history |-> loaded]
    BY <1>3, <2>2
  <2> QED BY <2>1, <2>2, <2>3 DEF TurnStates
<1>9. GoodTurn(t, n)
  BY <1>2, <1>7, <1>8, ChatNats DEF GoodTurn, Active, Asked
<1> QED BY <1>3, <1>8, <1>9, TurnStep DEF Consult
-----------------------------------------------------------------------------
(* append: the conversation gets one message more                           *)

LEMMA AppendOne ==
  ASSUME ChatInv, NEW t \in Turns, NEW role \in {"user", "assistant"}, NEW s \in TurnStates, s = turn[t],
         s.step \in Active, thread # Gone, NEW title \in {"untitled"} \union Turns,
         title = "untitled" \/ HasQuestion(title),
         role = "assistant" => HasQuestion(t) /\ title # "untitled",
         messages' = Append(messages, [role |-> role, turn |-> t, at |-> s.now]),
         thread' = [title |-> Titled(title, role, t), updated |-> s.now],
         NEW n \in TurnStates, turn' = [turn EXCEPT ![t] = n],
         n.now <= s.now, role = "user" => n.step = "consult" /\ n.now = s.now, role # "user" => n.step = "done",
         UNCHANGED <<home, holder, time>>
  PROVE  ChatInv'
<1>1. PICK m : m = [role |-> role, turn |-> t, at |-> s.now]
  OBVIOUS
<1>2. m \in Said /\ m.role = role /\ m.turn = t /\ s.now \in 0..MaxTime /\ s.now <= time
  BY <1>1 DEF TurnStates, Said, ChatInv, ChatTypeOK
<1>3. PICK len : len = Len(messages)
  OBVIOUS
<1>4. /\ messages \in Seq(Said) /\ len \in Nat /\ DOMAIN messages = 1..len
      /\ messages' \in Seq(Said) /\ Len(messages') = len + 1 /\ DOMAIN messages' = 1..(len + 1)
      /\ messages'[len + 1] = m /\ \A i \in 1..len : messages'[i] = messages[i]
  <2>1. messages \in Seq(Said) /\ messages' = Append(messages, m)
    BY <1>1 DEF ChatInv, ChatTypeOK
  <2> QED BY <1>2, <1>3, <2>1, AppendProperties
<1>5. messages' # <<>>
  BY <1>4
<1>6. \A u : HasQuestion(u) => HasQuestion(u)'
  BY <1>4 DEF HasQuestion
<1>7. role = "user" => HasQuestion(t)'
  BY <1>2, <1>4 DEF HasQuestion
<1>8. PICK given : given = Titled(title, role, t)
  OBVIOUS
<1>9. given \in {"untitled"} \union Turns /\ HasQuestion(given)'
  BY <1>6, <1>7, <1>8 DEF Titled
<1>10. /\ thread' \in [title : {"untitled"} \union Turns, updated : 0..MaxTime]
       /\ thread'.title = given /\ thread'.updated = s.now /\ thread' # Gone
  BY <1>2, <1>8, <1>9, TitlesAssumption
<1>11. Asker[t] = "owner" /\ holder = home /\ time <= s.now + TurnTime
  BY DEF ChatInv, GoodTurn
<1>12. /\ turn' \in [Turns -> TurnStates] /\ turn'[t] = n
       /\ \A u \in Turns : u # t => turn'[u] = turn[u]
  BY DEF ChatInv, ChatTypeOK
<1>13. time \in Nat /\ s.now \in Nat /\ n.now \in Nat /\ \A u \in Turns : turn[u].now \in Nat
  BY ChatNats DEF ChatInv, ChatTypeOK, TurnStates
<1>14. ASSUME NEW u \in Turns PROVE GoodTurn(u, turn[u])'
  <2>1. CASE u = t
    <3>1. n.step \notin {"model", "answer", "insertQuestion", "insertAnswer"} /\ n.now <= time
      BY <1>2, <1>13
    <3>2. CASE role = "user"
      <4>1. n.step = "consult" /\ time <= n.now + TurnTime /\ n.now <= thread'.updated + TurnTime
        BY <1>10, <1>11, <1>13, <3>2, ChatNats
      <4>2. GoodTurn(t, n)'
        BY <1>7, <1>11, <3>1, <3>2, <4>1 DEF GoodTurn, Active, Asked
      <4> QED BY <1>12, <2>1, <4>2
    <3>3. CASE role # "user"
      <4>1. n.step = "done"
        BY <3>3
      <4> QED BY <1>12, <2>1, <3>1, <4>1 DEF GoodTurn, Active, Asked
    <3> QED BY <3>2, <3>3
  <2>2. CASE u # t
    <3>1. turn'[u] = turn[u] /\ GoodTurn(u, turn[u])
      BY <1>12, <2>2 DEF ChatInv
    <3>2. PICK r : r = turn[u]
      OBVIOUS
    <3>3. r.now \in Nat /\ r.now <= time /\ r.now <= s.now + TurnTime
      BY <1>11, <1>13, <3>1, <3>2, ChatNats DEF GoodTurn
    <3>4. Len(messages') <= Limit => Len(messages) <= Limit
      BY <1>3, <1>4, ChatNats
    <3>5. r.step \in Asked => HasQuestion(u)'
      BY <1>6, <3>1, <3>2 DEF GoodTurn
    <3>6. r.step \in {"insertQuestion", "insertAnswer"} => r.title = "untitled" \/ HasQuestion(r.title)'
      BY <1>6, <3>1, <3>2 DEF GoodTurn
    <3>7. GoodTurn(u, r)'
      BY <1>10, <3>1, <3>2, <3>3, <3>4, <3>5, <3>6 DEF GoodTurn
    <3> QED BY <3>1, <3>2, <3>7
  <2> QED BY <2>1, <2>2
<1>15. AnswersHaveQuestions'
  <2>1. ASSUME NEW i \in DOMAIN messages', messages'[i].role = "assistant"
        PROVE  \E j \in 1..(i - 1) : messages'[j].role = "user" /\ messages'[j].turn = messages'[i].turn
    <3>1. CASE i \in 1..len
      <4>1. PICK j \in 1..(i - 1) : messages[j].role = "user" /\ messages[j].turn = messages[i].turn
        BY <1>4, <2>1, <3>1 DEF ChatInv, AnswersHaveQuestions
      <4>2. j \in 1..len
        BY <1>4, <3>1, <4>1
      <4> QED BY <1>4, <3>1, <4>1, <4>2
    <3>2. CASE i = len + 1
      <4>1. PICK j \in 1..len : messages[j].role = "user" /\ messages[j].turn = t
        BY <1>2, <1>4, <2>1, <3>2 DEF HasQuestion
      <4>2. j \in 1..(i - 1) /\ messages'[j] = messages[j] /\ messages'[i].turn = t
        BY <1>2, <1>4, <3>2, <4>1
      <4> QED BY <4>1, <4>2
    <3> QED BY <1>4, <2>1, <3>1, <3>2
  <2>2. \A i \in DOMAIN messages' : Asker[messages'[i].turn] = "owner"
    <3>1. \A i \in 1..len : Asker[messages[i].turn] = "owner"
      BY <1>4 DEF ChatInv, AnswersHaveQuestions
    <3> QED BY <1>2, <1>4, <1>11, <3>1
  <2>3. \E i \in DOMAIN messages' : messages'[i].role = "user" /\ messages'[i].turn = thread'.title
    BY <1>9, <1>10 DEF HasQuestion
  <2> QED BY <2>1, <2>2, <2>3 DEF AnswersHaveQuestions
<1>16. ChatTypeOK'
  <2>1. \A u \in Turns : turn'[u].now <= time
    BY <1>14 DEF GoodTurn
  <2> QED BY <1>4, <1>10, <1>12, <2>1 DEF ChatInv, ChatTypeOK
<1>17. DeletedIsGone'
  BY <1>10 DEF DeletedIsGone
<1> QED BY <1>5, <1>14, <1>15, <1>16, <1>17 DEF ChatInv

\* The turn after its message: it consults the model, or it is done.
LEMMA Appending ==
  ASSUME ChatInv, NEW t \in Turns, NEW role \in {"user", "assistant"}, Step(t, After(role))
  PROVE  \E n \in TurnStates : /\ turn' = [turn EXCEPT ![t] = n]
                               /\ n.now <= turn[t].now
                               /\ role = "user" => n.step = "consult" /\ n.now = turn[t].now
                               /\ role # "user" => n.step = "done"
<1>1. PICK s : s = turn[t]
  OBVIOUS
<1>2. s \in TurnStates /\ s.now \in Nat
  BY <1>1, ChatNats DEF ChatInv, ChatTypeOK, TurnStates
<1>3. CASE role = "user"
  <2>1. PICK n : n = [s EXCEPT !.step = "consult"]
    OBVIOUS
  <2>2. n \in TurnStates /\ n.step = "consult" /\ n.now = s.now
    BY <1>2, <2>1 DEF TurnStates, Steps
  <2>3. turn' = [turn EXCEPT ![t] = n]
    BY <1>1, <1>3, <2>1 DEF Step, After
  <2>4. n.now <= turn[t].now
    BY <1>1, <1>2, <2>2
  <2> QED BY <1>1, <1>3, <2>2, <2>3, <2>4
<1>4. CASE role # "user"
  <2>1. PICK n : n = [Idle EXCEPT !.step = "done"]
    OBVIOUS
  <2>2. n \in TurnStates
    BY <2>1, Ended
  <2>3. n.step = "done" /\ n.now = 0
    BY <2>1 DEF Idle
  <2>4. turn' = [turn EXCEPT ![t] = n]
    BY <1>4, <2>1 DEF Step, After
  <2>5. n.now <= turn[t].now
    BY <1>1, <1>2, <2>3
  <2> QED BY <1>4, <2>2, <2>3, <2>4, <2>5
<1> QED BY <1>3, <1>4

LEMMA AppendWriteKeeps == ASSUME ChatInv, NEW t \in Turns, AppendWrite(t) PROVE ChatInv'
<1>1. PICK s : s = turn[t]
  OBVIOUS
<1>2. s \in TurnStates /\ s.step \in {"insertQuestion", "insertAnswer"} /\ GoodTurn(t, s)
  BY <1>1 DEF ChatInv, ChatTypeOK, AppendWrite
<1>3. PICK role \in {"user", "assistant"} : role = Role(s.step)
  BY DEF Role
<1>4. role = "assistant" <=> s.step = "insertAnswer"
  BY <1>2, <1>3 DEF Role
<1>5. CASE Inserted(t, role)
  <2>1. thread # Gone /\ messages' = Append(messages, [role |-> role, turn |-> t, at |-> s.now])
    BY <1>1, <1>3, <1>5 DEF AppendWrite, Inserted, Appended
  <2>2. thread' = [title |-> Titled(s.title, role, t), updated |-> s.now] /\ Step(t, After(role))
    BY <1>1, <1>3, <1>5, <2>1 DEF AppendWrite
  <2>3. PICK n \in TurnStates : /\ turn' = [turn EXCEPT ![t] = n] /\ n.now <= s.now
                                /\ role = "user" => n.step = "consult" /\ n.now = s.now
                                /\ role # "user" => n.step = "done"
    BY <1>1, <2>2, Appending
  <2>4. s.title = "untitled" \/ HasQuestion(s.title)
    BY <1>2, <2>1 DEF GoodTurn
  <2>5. s.title \in {"untitled"} \union Turns
    <3>1. CASE s.title = "untitled"
      BY <3>1
    <3>2. CASE HasQuestion(s.title)
      <4>1. messages \in Seq(Said)
        BY DEF ChatInv, ChatTypeOK
      <4>2. \A i \in DOMAIN messages : messages[i] \in Said
        BY <4>1
      <4> QED BY <3>2, <4>2 DEF HasQuestion, Said
    <3> QED BY <2>4, <3>1, <3>2
  <2>6. role = "assistant" => HasQuestion(t) /\ s.title # "untitled"
    BY <1>2, <1>4, <2>1 DEF GoodTurn, Asked
  <2>7. s.step \in Active /\ UNCHANGED <<home, holder, time>>
    BY <1>2 DEF Active, AppendWrite
  <2> QED BY <1>1, <1>2, <2>1, <2>2, <2>3, <2>4, <2>5, <2>6, <2>7, AppendOne
<1>6. CASE ~Inserted(t, role)
  <2>1. turn' = [turn EXCEPT ![t] = [Idle EXCEPT !.step = "failed"]] /\ UNCHANGED <<home, holder, thread, messages, time>>
    BY <1>1, <1>3, <1>6 DEF AppendWrite, Step
  <2> QED BY <2>1, Ended, TurnStep
<1> QED BY <1>5, <1>6

LEMMA AppendInMemoryKeeps == ASSUME ChatInv, NEW t \in Turns, AppendInMemory(t) PROVE ChatInv'
<1>1. PICK s : s = turn[t]
  OBVIOUS
<1>2. s \in TurnStates /\ s.step \in {"ask", "answer"} /\ GoodTurn(t, s)
  BY <1>1 DEF ChatInv, ChatTypeOK, AppendInMemory
<1>3. PICK role \in {"user", "assistant"} : role = Role(s.step)
  BY DEF Role
<1>4. role = "assistant" <=> s.step = "answer"
  BY <1>2, <1>3 DEF Role
<1>5. CASE Owned(Asker[t], s.now)
  <2>1. thread # Gone /\ messages' = Append(messages, [role |-> role, turn |-> t, at |-> s.now])
    BY <1>1, <1>3, <1>5 DEF AppendInMemory, Owned, Appended
  <2>2. PICK title : title = thread.title
    OBVIOUS
  <2>3. thread' = [title |-> Titled(title, role, t), updated |-> s.now] /\ Step(t, After(role))
    BY <1>1, <1>3, <1>5, <2>2 DEF AppendInMemory
  <2>4. PICK n \in TurnStates : /\ turn' = [turn EXCEPT ![t] = n] /\ n.now <= s.now
                                /\ role = "user" => n.step = "consult" /\ n.now = s.now
                                /\ role # "user" => n.step = "done"
    BY <1>1, <2>3, Appending
  <2>5. /\ title \in {"untitled"} \union Turns
        /\ IF messages = <<>> THEN title = "untitled" ELSE HasQuestion(title) /\ title # "untitled"
    BY <2>1, <2>2, ThreadTitle
  <2>6. role = "assistant" => HasQuestion(t) /\ messages # <<>>
    <3>1. role = "assistant" => HasQuestion(t)
      BY <1>2, <1>4, <2>1 DEF GoodTurn, Asked
    <3>2. messages = <<>> => ~HasQuestion(t)
      BY DEF HasQuestion
    <3> QED BY <3>1, <3>2
  <2>7. s.step \in Active /\ UNCHANGED <<home, holder, time>>
    BY <1>2 DEF Active, AppendInMemory
  <2> QED BY <1>1, <1>2, <2>1, <2>3, <2>4, <2>5, <2>6, <2>7, AppendOne
<1>6. CASE ~Owned(Asker[t], s.now)
  <2>1. turn' = [turn EXCEPT ![t] = [Idle EXCEPT !.step = "failed"]] /\ UNCHANGED <<home, holder, thread, messages, time>>
    BY <1>1, <1>6 DEF AppendInMemory, Step
  <2> QED BY <2>1, Ended, TurnStep
<1> QED BY <1>5, <1>6
-----------------------------------------------------------------------------
(* Deletion, time and restarts, and the theorem                             *)

LEMMA DeleteKeeps == ASSUME ChatInv, thread' = Gone, messages' = <<>>, UNCHANGED <<home, holder, turn, time>> PROVE ChatInv'
<1>1. messages' \in Seq(Said) /\ DOMAIN messages' = {}
  <2>1. <<>> \in Seq(Said) /\ DOMAIN <<>> = {}
    OBVIOUS
  <2> QED BY <2>1
<1>2. ChatTypeOK'
  BY <1>1 DEF ChatInv, ChatTypeOK
<1>3. \A t \in Turns : GoodTurn(t, turn[t])'
  BY DEF ChatInv, GoodTurn
<1> QED BY <1>1, <1>2, <1>3 DEF ChatInv, DeletedIsGone, AnswersHaveQuestions

LEMMA ElapseKeeps == ASSUME ChatInv, Elapse PROVE ChatInv'
<1>1. time \in Nat /\ \A t \in Turns : turn[t] \in TurnStates /\ turn[t].now \in Nat
  BY ChatNats DEF ChatInv, ChatTypeOK, TurnStates
<1>2. ChatTypeOK'
  BY <1>1, ChatNats DEF ChatInv, ChatTypeOK, Elapse
<1>3. ASSUME NEW t \in Turns PROVE GoodTurn(t, turn[t])'
  <2>1. PICK s : s = turn[t]
    OBVIOUS
  <2>2. GoodTurn(t, s) /\ s.now \in Nat /\ turn' = turn
    BY <1>1, <2>1 DEF ChatInv, Elapse
  <2>3. s.step \in Active => time + 1 <= s.now + TurnTime
    BY <1>1, <2>1, <2>2, ChatNats DEF Elapse, Active
  <2>4. \A u : HasQuestion(u)' <=> HasQuestion(u)
    BY DEF HasQuestion, Elapse
  <2>5. GoodTurn(t, s)'
    BY <1>1, <2>2, <2>3, <2>4 DEF GoodTurn, Elapse
  <2> QED BY <2>1, <2>2, <2>5
<1>4. DeletedIsGone' /\ AnswersHaveQuestions' /\ (thread # Gone /\ messages = <<>> => thread.title = "untitled")'
  BY DEF ChatInv, DeletedIsGone, AnswersHaveQuestions, Elapse
<1> QED BY <1>2, <1>3, <1>4 DEF ChatInv

LEMMA RestartKeeps == ASSUME ChatInv, Restart PROVE ChatInv'
<1>1. PICK ended : ended = [Idle EXCEPT !.step = "failed"]
  OBVIOUS
<1>2. ended \in TurnStates /\ ended.step = "failed" /\ ended.now = 0
  <2>1. ended.step = "failed" /\ ended.now = 0
    BY <1>1 DEF Idle
  <2> QED BY <1>1, <2>1, Ended
<1>3. \A t \in Turns : turn'[t] = IF turn[t].step \in {"idle", "done", "refused"} THEN turn[t] ELSE ended
  BY <1>1 DEF Restart
<1>4. turn' \in [Turns -> TurnStates]
  <2>1. turn' = [t \in Turns |-> IF turn[t].step \in {"idle", "done", "refused"} THEN turn[t] ELSE ended]
    BY <1>1 DEF Restart
  <2> QED BY <1>2, <2>1 DEF ChatInv, ChatTypeOK
<1>5. \A t \in Turns : GoodTurn(t, turn[t])'
  <2> SUFFICES ASSUME NEW t \in Turns PROVE GoodTurn(t, turn[t])'
    OBVIOUS
  <2>1. PICK s : s = turn'[t]
    OBVIOUS
  <2>2. s.step \in {"idle", "done", "refused", "failed"}
    BY <1>2, <1>3, <2>1
  <2>3. s.now <= time /\ time' = time
    <3>1. time \in Nat /\ turn[t].now <= time
      BY ChatNats DEF ChatInv, ChatTypeOK
    <3>2. s = turn[t] \/ s = ended
      BY <1>3, <2>1
    <3>3. s.now <= time
      BY <1>2, <3>1, <3>2
    <3> QED BY <3>3 DEF Restart
  <2>4. GoodTurn(t, s)'
    BY <2>2, <2>3 DEF GoodTurn, Active, Asked
  <2> QED BY <2>1, <2>4
<1>6. \/ thread' = thread /\ messages' = messages
      \/ thread' = Gone /\ messages' = <<>>
  BY DEF Restart
<1>7. ChatTypeOK'
  <2>1. <<>> \in Seq(Said)
    OBVIOUS
  <2>2. messages' \in Seq(Said) /\ thread' \in {Gone} \union [title : {"untitled"} \union Turns, updated : 0..MaxTime]
    BY <1>6, <2>1 DEF ChatInv, ChatTypeOK
  <2>3. \A t \in Turns : turn'[t].now <= time'
    BY <1>5 DEF GoodTurn
  <2> QED BY <1>4, <2>2, <2>3 DEF ChatInv, ChatTypeOK, Restart
<1>8. DeletedIsGone' /\ AnswersHaveQuestions' /\ (thread # Gone /\ messages = <<>> => thread.title = "untitled")'
  <2>1. CASE thread' = thread /\ messages' = messages
    BY <2>1 DEF ChatInv, DeletedIsGone, AnswersHaveQuestions
  <2>2. CASE thread' = Gone /\ messages' = <<>>
    <3>1. DOMAIN messages' = {}
      BY <2>2
    <3> QED BY <2>2, <3>1 DEF DeletedIsGone, AnswersHaveQuestions
  <2> QED BY <1>6, <2>1, <2>2
<1> QED BY <1>5, <1>7, <1>8 DEF ChatInv

LEMMA ChatStep == ChatInv /\ [ChatNext]_chatVars => ChatInv'
<1> SUFFICES ASSUME ChatInv, [ChatNext]_chatVars PROVE ChatInv'
  OBVIOUS
<1>1. ASSUME NEW t \in Turns, Chat(t) PROVE ChatInv'
  BY <1>1, ChatKeeps
<1>2. ASSUME NEW t \in Turns, AppendGet(t) PROVE ChatInv'
  BY <1>2, AppendGetKeeps
<1>3. ASSUME NEW t \in Turns, AppendWrite(t) PROVE ChatInv'
  BY <1>3, AppendWriteKeeps
<1>4. ASSUME NEW t \in Turns, AppendInMemory(t) PROVE ChatInv'
  BY <1>4, AppendInMemoryKeeps
<1>5. ASSUME NEW t \in Turns, Consult(t) PROVE ChatInv'
  BY <1>5, ConsultKeeps
<1>6. ASSUME NEW t \in Turns, Complete(t) PROVE ChatInv'
  BY <1>6, CompleteKeeps
<1>7. ASSUME NEW t \in Turns, Fail(t) PROVE ChatInv'
  BY <1>7, FailKeeps
<1>8. ASSUME NEW subject, Delete(subject) PROVE ChatInv'
  BY <1>8, DeleteKeeps DEF Delete
<1>9. CASE Elapse
  BY <1>9, ElapseKeeps
<1>10. CASE Restart
  BY <1>10, RestartKeeps
<1>11. CASE UNCHANGED chatVars
  <2>1. UNCHANGED <<home, holder, thread, messages, turn, time>>
    BY <1>11 DEF chatVars
  <2>2. ChatTypeOK' /\ DeletedIsGone' /\ AnswersHaveQuestions'
    BY <2>1 DEF ChatInv, ChatTypeOK, DeletedIsGone, AnswersHaveQuestions
  <2>3. \A t \in Turns : GoodTurn(t, turn[t])'
    BY <2>1 DEF ChatInv, GoodTurn, HasQuestion
  <2>4. (thread # Gone /\ messages = <<>> => thread.title = "untitled")'
    BY <2>1 DEF ChatInv
  <2> QED BY <2>2, <2>3, <2>4 DEF ChatInv
<1> QED BY <1>1, <1>2, <1>3, <1>4, <1>5, <1>6, <1>7, <1>8, <1>9, <1>10, <1>11 DEF ChatNext

\* Whatever the turns, deletions, expiry and restarts, a conversation is its owner's questions with
\* their answers, a deleted one is gone, and the model is shown the question of the turn as long as
\* the conversation is short (append, last_messages and run_turn of the copilot).
THEOREM ConversationsHold == ChatSpec => [](ChatTypeOK /\ ConversationHolds)
<1>1. ChatInit => ChatInv
  BY ChatBegins
<1>2. ChatInv /\ [ChatNext]_chatVars => ChatInv'
  BY ChatStep
<1>3. ChatInv => ChatTypeOK /\ ConversationHolds
  BY ChatInvHolds
<1> QED BY <1>1, <1>2, <1>3, PTL DEF ChatSpec
=============================================================================
