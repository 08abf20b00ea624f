----------------------------- MODULE EdgeProofs -----------------------------
(***************************************************************************)
(* What comes from the plant.  Store-and-forward, for any tags, sizes of    *)
(* the queue, the batches and the file, and any history of faults: the rows *)
(* that were published, or are about to be, are the oldest of the file and  *)
(* at most one batch (DueOK); whatever is older than a published row was    *)
(* published (Prefix), so an identifier that was acknowledged stands for    *)
(* all rows below it, whatever trims and writes happened in between.  The   *)
(* Sparkplug mapper, for any devices, lists of metrics and losses: whoever  *)
(* asks for an alias by name has been told before him on the same wire, or  *)
(* is in hand, or is known (Ahead); a reading then stands for one name.     *)
(***************************************************************************)
EXTENDS EdgeSpool, Sparkplug, OffsetLemmas

\* The rows of the file and of the batch, and the ones that were or may be published.
Known == spool \cup forwarder.batch
Due == {r \in Known : r[1] \in published \/ r \in forwarder.batch}

\* The rows of the file and of the batch of the forwarder.
RowsOK ==
  /\ IsFiniteSet(Known) /\ lastId \in Nat
  /\ \A r \in Known : r[1] \in 1 .. lastId
  /\ \A r, q \in Known : r[1] = q[1] => r = q
  /\ published \subseteq 1 .. lastId
  /\ DOMAIN forwarder = {"at", "batch", "acked", "failed"}
  /\ forwarder.acked = 0 \/ forwarder.acked \in published

Prefix == \A r \in Known, j \in published : r[1] <= j => r[1] \in published

\* A set of rows that leaves out no older row.
Lowest(D, S) == \A r \in D, q \in S : q[1] <= r[1] => q \in D
DueOK == Lowest(Due, Known) /\ Cardinality(Due) <= ForwardBatch

\* What is on its way to the file.
QueuesOK ==
  /\ plant = [t \in Tags |-> plant[t]] /\ \A t \in Tags : plant[t] \in 1 .. MaxChanges[t]
  /\ queue \in Seq(Changes)
  /\ DOMAIN writer = {"at", "rows", "trimmed"} /\ writer.rows \in Seq(Changes)
  /\ writer.at # "writing" => writer.rows = <<>>

Inv == RowsOK /\ Prefix /\ DueOK /\ QueuesOK

-----------------------------------------------------------------------------
(* The oldest rows of a file                                                *)

\* peek returns no more rows than its limit, and leaves out no older one.
LEMMA OldestBounded ==
  ASSUME NEW S, IsFiniteSet(S), NEW b \in Nat, \A r \in S : r[1] \in 1 .. b,
         NEW k \in Nat
  PROVE  /\ Oldest(S, k) \subseteq S /\ Lowest(Oldest(S, k), S)
         /\ Cardinality(Oldest(S, k)) <= k
<1> DEFINE O == Oldest(S, k)
           Upto(r) == {q \in S : q[1] <= r[1]}
<1>1. O \subseteq S /\ \A r \in S : r \in O <=> Cardinality(Upto(r)) <= k
  BY DEF Oldest
<1>2. \A r \in S : IsFiniteSet(Upto(r)) /\ Cardinality(Upto(r)) \in Nat
  <2> TAKE r \in S
  <2>1. Upto(r) \in SUBSET S
    OBVIOUS
  <2> HIDE DEF Upto
  <2> QED BY <2>1, FS_Subset, FS_CardinalityType
<1>3. Lowest(O, S)
  <2> SUFFICES ASSUME NEW r \in O, NEW q \in S, q[1] <= r[1] PROVE q \in O
    BY DEF Lowest
  <2>1. Upto(q) \subseteq Upto(r)
    <3> \A x \in S : x[1] \in Int
      OBVIOUS
    <3> QED BY <1>1
  <2>2. Cardinality(Upto(q)) <= Cardinality(Upto(r)) /\ Cardinality(Upto(r)) <= k
    <3> HIDE DEF Upto, O
    <3> QED BY <1>1, <1>2, <2>1, FS_Subset
  <2> HIDE DEF Upto, O
  <2> QED BY <1>1, <1>2, <2>2
<1>4. CASE O = {}
  BY <1>1, <1>3, <1>4, FS_EmptySet
<1>5. CASE O # {}
  <2> DEFINE Ids == {r[1] : r \in O}
  <2>1. Ids \in SUBSET Nat /\ Ids # {} /\ \A x \in Ids : x < b + 1
    BY <1>1, <1>5
  <2>2. Max(Ids) \in Ids /\ \A y \in Ids : y <= Max(Ids)
    <3> HIDE DEF Ids
    <3> QED BY <2>1, b + 1 \in Nat, MaxOfBounded
  <2>3. PICK m \in O : Max(Ids) = m[1]
    BY <2>2
  <2>4. O \subseteq Upto(m) /\ Cardinality(Upto(m)) <= k /\ m \in S
    BY <1>1, <2>2, <2>3
  <2>5. Cardinality(O) <= Cardinality(Upto(m)) /\ Cardinality(O) \in Nat
    <3> HIDE DEF Upto, O
    <3> QED BY <1>2, <2>4, FS_Subset, FS_CardinalityType
  <2>6. Cardinality(O) <= k
    <3> HIDE DEF Upto, O
    <3> QED BY <1>2, <2>4, <2>5
  <2> QED BY <1>1, <1>3, <2>6
<1> QED BY <1>4, <1>5

\* Rows that leave out no older one, and are no more than the limit, are among those
\* that peek returns.
LEMMA LowestAreOldest ==
  ASSUME NEW S, IsFiniteSet(S), NEW D \in SUBSET S, Lowest(D, S), NEW k \in Nat,
         Cardinality(D) <= k
  PROVE  D \subseteq Oldest(S, k)
<1> SUFFICES ASSUME NEW r \in D PROVE r \in Oldest(S, k)
  OBVIOUS
<1> DEFINE Upto == {q \in S : q[1] <= r[1]}
<1>1. Upto \in SUBSET D
  BY DEF Lowest
<1>2. Cardinality(Upto) <= Cardinality(D) /\ Cardinality(D) \in Nat /\ Cardinality(Upto) \in Nat
  <2> HIDE DEF Upto
  <2>1. IsFiniteSet(D) /\ Cardinality(D) \in Nat
    BY FS_Subset, FS_CardinalityType
  <2> QED BY <1>1, <2>1, FS_Subset, FS_CardinalityType
<1>3. Cardinality(Upto) <= k
  <2> HIDE DEF Upto
  <2> QED BY <1>2
<1> QED BY <1>3 DEF Oldest

-----------------------------------------------------------------------------
(* What the invariant says                                                  *)

LEMMA InvReplay ==
  ASSUME Inv
  PROVE  ReplayIsOneBatch
<1> DEFINE D == {r \in spool : r[1] \in published}
<1>1. IsFiniteSet(Known) /\ Due \in SUBSET Known /\ D \in SUBSET Due
  BY DEF Inv, RowsOK, Due, Known
<1>2. Lowest(D, spool)
  BY DEF Lowest, Inv, Prefix, Known
<1>3. /\ Cardinality(D) <= Cardinality(Due) /\ Cardinality(Due) \in Nat /\ Cardinality(D) \in Nat
      /\ IsFiniteSet(spool)
  <2> HIDE DEF D
  <2>1. IsFiniteSet(Due) /\ IsFiniteSet(D) /\ spool \in SUBSET Known
    BY <1>1, FS_Subset DEF Known
  <2> QED BY <1>1, <2>1, FS_Subset, FS_CardinalityType
<1>4. Cardinality(D) <= ForwardBatch /\ ForwardBatch \in Nat /\ D \in SUBSET spool
  BY <1>3, SizesAssumption DEF Inv, DueOK
<1>5. D \subseteq Oldest(spool, ForwardBatch)
  <2> HIDE DEF D
  <2> QED BY <1>2, <1>3, <1>4, LowestAreOldest
<1> QED BY <1>5 DEF ReplayIsOneBatch

\* The oldest row of a batch that is being published.
LEMMA NextRowOldest ==
  ASSUME Inv, forwarder.batch # {}
  PROVE  NextRow \in forwarder.batch /\ \A q \in forwarder.batch : NextRow[1] <= q[1]
<1> DEFINE Ids == {r[1] : r \in forwarder.batch}
<1>1. Ids \in SUBSET Nat /\ Ids # {}
  BY DEF Inv, RowsOK, Known
<1>2. PICK o \in Ids : \A n \in Ids : o <= n
  <2> HIDE DEF Ids
  <2> QED BY <1>1, SmallestOffset
<1>3. \E r \in forwarder.batch : \A q \in forwarder.batch : r[1] <= q[1]
  BY <1>2
<1> QED BY <1>3 DEF NextRow

-----------------------------------------------------------------------------
(* What the steps do to the file and to the batch                           *)

Lower == RowsOK /\ Prefix /\ DueOK
Fields == {"at", "batch", "acked", "failed"}

\* Rows leave the file or join it with new identifiers, and the forwarder keeps its
\* batch or drops it.
LEMMA FileChanges ==
  ASSUME Inv,
         IsFiniteSet(spool'), lastId' \in Nat, lastId <= lastId',
         \A r \in spool' \ spool : r[1] \in lastId + 1 .. lastId',
         \A r, q \in spool' \ spool : r[1] = q[1] => r = q,
         published' = published,
         DOMAIN forwarder' = Fields, forwarder'.batch \in {forwarder.batch, {}},
         forwarder'.acked \in {forwarder.acked, 0}
  PROVE  Lower'
<1>1. /\ lastId \in Nat /\ \A r \in Known : r[1] \in 1 .. lastId
      /\ \A r, q \in Known : r[1] = q[1] => r = q
      /\ published \subseteq 1 .. lastId
  BY DEF Inv, RowsOK
<1>2. /\ Known' \subseteq Known \cup (spool' \ spool)
      /\ \A r \in Known' : r \notin Known => r \in spool' \ spool
  BY DEF Known
<1>3. RowsOK'
  <2>0. IsFiniteSet(Known')
    <3>1. IsFiniteSet(forwarder'.batch)
      <4>1. forwarder.batch \in SUBSET Known /\ IsFiniteSet(Known)
        BY DEF Inv, RowsOK, Known
      <4> QED BY <4>1, FS_Subset, FS_EmptySet
    <3> QED BY <3>1, FS_Union DEF Known
  <2>1. \A r \in Known' : r[1] \in 1 .. lastId'
    BY <1>1, <1>2
  <2>2. \A r, q \in Known' : r[1] = q[1] => r = q
    BY <1>1, <1>2
  <2>3. published' \subseteq 1 .. lastId'
    BY <1>1
  <2>4. forwarder'.acked = 0 \/ forwarder'.acked \in published'
    BY DEF Inv, RowsOK
  <2> QED BY <2>0, <2>1, <2>2, <2>3, <2>4 DEF RowsOK, Fields
<1>4. Prefix'
  <2> SUFFICES ASSUME NEW r \in Known', NEW j \in published, r[1] <= j
               PROVE  r[1] \in published
    BY DEF Prefix
  <2>1. r \in Known
    BY <1>1, <1>2
  <2> QED BY <2>1 DEF Inv, Prefix
<1>5. DueOK'
  <2>1. Due' \subseteq Due
    BY <1>1, <1>2 DEF Due, Known
  <2>2. Lowest(Due', Known')
    <3> SUFFICES ASSUME NEW r \in Due', NEW q \in Known', q[1] <= r[1] PROVE q \in Due'
      BY DEF Lowest
    <3>1. r \in Due /\ r \in Known
      BY <2>1 DEF Due
    <3>2. q \in Known
      BY <1>1, <1>2, <3>1
    <3>3. q \in Due
      BY <3>1, <3>2 DEF Inv, DueOK, Lowest
    <3>4. CASE forwarder'.batch = forwarder.batch
      BY <3>3, <3>4 DEF Due
    <3>5. CASE forwarder'.batch = {}
      <4>1. r[1] \in published
        BY <3>5 DEF Due
      <4>2. q[1] \in published
        BY <3>2, <4>1, <3>1 DEF Inv, Prefix
      <4> QED BY <4>2 DEF Due
    <3> QED BY <3>4, <3>5
  <2>3. Cardinality(Due') <= ForwardBatch
    <3>1. IsFiniteSet(Due) /\ Due' \in SUBSET Due
      BY <2>1, FS_Subset DEF Inv, RowsOK, Due
    <3>2. Cardinality(Due') <= Cardinality(Due) /\ Cardinality(Due) \in Nat /\ Cardinality(Due') \in Nat
      BY <3>1, FS_Subset, FS_CardinalityType
    <3> QED BY <3>2, SizesAssumption DEF Inv, DueOK
  <2> QED BY <2>2, <2>3 DEF DueOK
<1> QED BY <1>3, <1>4, <1>5 DEF Lower

\* The broker receives the oldest row of the batch.
LEMMA RowReceived ==
  ASSUME Inv, forwarder.batch # {}, UNCHANGED <<spool, lastId>>,
         published' = published \union {NextRow[1]},
         DOMAIN forwarder' = Fields, forwarder'.batch \in {forwarder.batch \ {NextRow}, {}},
         forwarder'.acked = 0 \/ forwarder'.acked \in published'
  PROVE  Lower' /\ \A i \in published' \ published : \A j \in published : j < i
<1> DEFINE n == NextRow
<1>1. n \in forwarder.batch /\ n \in Known /\ \A q \in forwarder.batch : n[1] <= q[1]
  BY NextRowOldest DEF Known
<1>2. /\ lastId \in Nat /\ \A r \in Known : r[1] \in 1 .. lastId
      /\ \A r, q \in Known : r[1] = q[1] => r = q
      /\ published \subseteq 1 .. lastId
  BY DEF Inv, RowsOK
<1> HIDE DEF n
<1>3. Known' \subseteq Known /\ published' = published \union {n[1]}
  BY DEF Known, n
<1>4. RowsOK'
  <2>1. IsFiniteSet(Known')
    BY <1>3, FS_Subset DEF Inv, RowsOK
  <2> QED BY <1>1, <1>2, <1>3, <2>1 DEF Inv, RowsOK, Fields
<1>5. \A r \in Known : r[1] < n[1] => r[1] \in published
  <2> SUFFICES ASSUME NEW r \in Known, r[1] < n[1] PROVE r[1] \in published
    OBVIOUS
  <2>1. r \notin forwarder.batch
    BY <1>1, <1>2
  <2>2. n \in Due /\ r[1] <= n[1]
    BY <1>1, <1>2 DEF Due
  <2> QED BY <2>1, <2>2 DEF Inv, DueOK, Lowest, Due
<1>6. Prefix'
  <2> SUFFICES ASSUME NEW r \in Known, NEW j \in published', r[1] <= j PROVE r[1] \in published'
    BY <1>3 DEF Prefix
  <2>1. CASE j \in published
    BY <1>3, <2>1 DEF Inv, Prefix
  <2>2. CASE j = n[1]
    BY <1>1, <1>2, <1>3, <1>5, <2>2
  <2> QED BY <1>3, <2>1, <2>2
<1>7. DueOK'
  <2>1. Due' \subseteq Due
    BY <1>1, <1>2, <1>3 DEF Due, n, Known
  <2>2. Lowest(Due', Known')
    <3> SUFFICES ASSUME NEW r \in Due', NEW q \in Known', q[1] <= r[1] PROVE q \in Due'
      BY DEF Lowest
    <3>1. r \in Due /\ q \in Known /\ q \in Due
      BY <1>3, <2>1 DEF Inv, DueOK, Lowest, Due
    <3>2. CASE forwarder'.batch = forwarder.batch \ {n}
      BY <1>3, <3>1, <3>2 DEF Due
    <3>3. CASE forwarder'.batch = {}
      BY <1>3, <1>6, <3>3 DEF Prefix, Due
    <3> QED BY <3>2, <3>3 DEF n
  <2>3. Cardinality(Due') <= ForwardBatch
    <3>1. IsFiniteSet(Due) /\ Due' \in SUBSET Due
      BY <2>1, FS_Subset DEF Inv, RowsOK, Due
    <3>2. Cardinality(Due') <= Cardinality(Due) /\ Cardinality(Due) \in Nat /\ Cardinality(Due') \in Nat
      BY <3>1, FS_Subset, FS_CardinalityType
    <3> QED BY <3>2, SizesAssumption DEF Inv, DueOK
  <2> QED BY <2>2, <2>3 DEF DueOK
<1>8. \A i \in published' \ published : \A j \in published : j < i
  <2> SUFFICES ASSUME NEW i \in published' \ published, NEW j \in published PROVE j < i
    OBVIOUS
  <2>1. i = n[1] /\ ~(n[1] <= j)
    BY <1>1, <1>3 DEF Inv, Prefix
  <2> QED BY <1>1, <1>2, <2>1
<1> QED BY <1>4, <1>6, <1>7, <1>8 DEF Lower
-----------------------------------------------------------------------------
(* What the steps do to the queue and the batch of the writer               *)

LEMMA ChangesArePairs ==
  /\ \A t \in Tags : \A n \in 1 .. MaxChanges[t] : <<t, n>> \in Changes
  /\ \A c \in Changes : c = <<c[1], c[2]>>
  BY DEF Changes

\* The changes that enqueue_drop_oldest pushes out are counted as dropped.
LEMMA EnqueueKeeps ==
  ASSUME Inv, NEW new \in Seq(Changes), Enqueue(new)
  PROVE  /\ queue' \in Seq(Changes) /\ InQueue \subseteq InQueue' \cup dropped'
         /\ dropped \subseteq dropped'
<1> DEFINE all == queue \o new
           over == Over(all)
<1>1. queue \in Seq(Changes) /\ QueueSize \in Nat
  BY SizesAssumption DEF Inv, QueuesOK
<1>2. /\ all \in Seq(Changes) /\ Len(all) \in Nat /\ Len(queue) \in Nat
      /\ \A i \in 1 .. Len(queue) : i \in 1 .. Len(all) /\ all[i] = queue[i]
  BY <1>1
<1>3. /\ queue' = SubSeq(all, over + 1, Len(all))
      /\ dropped' = dropped \union {all[i] : i \in 1 .. over}
  BY DEF Enqueue, Pushed, PushedOut
<1> HIDE DEF all
<1>4. over \in 0 .. Len(all)
  BY <1>1, <1>2 DEF Over
<1> HIDE DEF over
<1>5. /\ queue' \in Seq(Changes) /\ Len(queue') = Len(all) - over
      /\ \A i \in over + 1 .. Len(all) : i - over \in 1 .. Len(queue') /\ queue'[i - over] = all[i]
  BY <1>2, <1>3, <1>4
<1>6. ASSUME NEW i \in 1 .. Len(queue) PROVE queue[i] \in InQueue' \cup dropped'
  <2>1. CASE i <= over
    BY <1>2, <1>3, <1>4, <2>1
  <2>2. CASE i > over
    <3>1. i \in over + 1 .. Len(all)
      BY <1>2, <1>4, <2>2
    <3> QED BY <1>2, <1>5, <3>1 DEF InQueue
  <2> QED BY <1>4, <2>1, <2>2
<1> QED BY <1>3, <1>5, <1>6 DEF InQueue

\* One transaction stores the whole batch under new identifiers.
LEMMA WrittenRows ==
  ASSUME Inv
  PROVE  /\ IsFiniteSet(Written) /\ InWriter \subseteq ChangesOf(Written)
         /\ NextId + Len(writer.rows) - 1 \in Nat /\ lastId <= NextId + Len(writer.rows) - 1
         /\ \A r \in Written : r[1] \in lastId + 1 .. NextId + Len(writer.rows) - 1
         /\ \A r, q \in Written : r[1] = q[1] => r = q
<1> DEFINE n == Len(writer.rows)
           Row(i) == <<NextId + i - 1, writer.rows[i][1], writer.rows[i][2]>>
<1>1. /\ writer.rows \in Seq(Changes) /\ n \in Nat /\ lastId \in Nat /\ NextId = lastId + 1
  BY DEF Inv, QueuesOK, RowsOK, NextId
<1>2. \A i \in 1 .. n : writer.rows[i] \in Changes /\ Row(i)[1] = lastId + i
  BY <1>1
<1>3. Written = {Row(i) : i \in 1 .. n}
  BY DEF Written
<1>4. IsFiniteSet(Written)
  <2> DEFINE f == [i \in 1 .. n |-> Row(i)]
  <2>1. f \in Surjection(1 .. n, Written)
    <3> HIDE DEF Row
    <3> QED BY <1>3 DEF Surjection
  <2>2. IsFiniteSet(1 .. n)
    BY <1>1, FS_Interval
  <2> HIDE DEF f
  <2> QED BY <2>1, <2>2, FS_Surjection
<1>5. InWriter \subseteq ChangesOf(Written)
  <2> SUFFICES ASSUME NEW i \in 1 .. n PROVE writer.rows[i] \in ChangesOf(Written)
    BY DEF InWriter
  <2>1. Row(i) \in Written /\ Change(Row(i)) = writer.rows[i]
    BY <1>2, <1>3, ChangesArePairs DEF Change
  <2> HIDE DEF Row
  <2> QED BY <2>1 DEF ChangesOf
<1>6. \A i \in 1 .. n : Row(i)[1] \in lastId + 1 .. NextId + n - 1
  <2> TAKE i \in 1 .. n
  <2>1. Row(i)[1] = lastId + i
    BY <1>2
  <2>2. lastId + i \in lastId + 1 .. NextId + n - 1
    <3> HIDE DEF n
    <3> QED BY <1>1
  <2> QED BY ONLY <2>1, <2>2
<1>7. \A i, j \in 1 .. n : Row(i)[1] = Row(j)[1] => i = j
  <2> TAKE i, j \in 1 .. n
  <2>1. Row(i)[1] = lastId + i /\ Row(j)[1] = lastId + j
    BY <1>2
  <2>2. lastId + i = lastId + j => i = j
    <3> HIDE DEF n
    <3> QED BY <1>1
  <2> QED BY ONLY <2>1, <2>2
<1>8. NextId + n - 1 \in Nat /\ lastId <= NextId + n - 1
  <2> HIDE DEF n
  <2> QED BY <1>1
<1> HIDE DEF Row
<1> QED BY <1>3, <1>4, <1>5, <1>6, <1>7, <1>8

\* A change leaves the queue and the writer for the file, or is counted as dropped.
QueueKept == (InQueue \union InWriter) \ (InQueue' \union InWriter') \subseteq ChangesOf(spool') \union dropped'

LEMMA QueueStays ==
  ASSUME Inv, UNCHANGED <<plant, queue, writer>>
  PROVE  QueuesOK' /\ QueueKept
  BY DEF Inv, QueuesOK, QueueKept, InQueue, InWriter

LEMMA QueuePushed ==
  ASSUME Inv, \E new \in Seq(Changes) : Enqueue(new), UNCHANGED writer,
         plant' = [t \in Tags |-> plant'[t]], \A t \in Tags : plant'[t] \in 1 .. MaxChanges[t]
  PROVE  QueuesOK' /\ QueueKept
<1> PICK new \in Seq(Changes) : Enqueue(new)
  OBVIOUS
<1>1. /\ queue' \in Seq(Changes) /\ InQueue \subseteq InQueue' \cup dropped'
  BY EnqueueKeeps
<1>2. InWriter' = InWriter
  BY DEF InWriter
<1> QED BY <1>1, <1>2 DEF Inv, QueuesOK, QueueKept

LEMMA DataChangeQueue ==
  ASSUME Inv, NEW t \in Tags, DataChange(t)
  PROVE  QueuesOK' /\ QueueKept
<1>1. /\ plant = [u \in Tags |-> plant[u]] /\ \A u \in Tags : plant[u] \in 1 .. MaxChanges[u]
      /\ MaxChanges \in [Tags -> Nat \ {0}]
  BY SizesAssumption DEF Inv, QueuesOK
<1>2. /\ plant[t] < MaxChanges[t] /\ plant' = [plant EXCEPT ![t] = @ + 1] /\ UNCHANGED writer
      /\ Enqueue(<<<<t, plant'[t]>>>>) \/ UNCHANGED queue
  BY DEF DataChange
<1>3. plant' = [u \in Tags |-> plant'[u]] /\ \A u \in Tags : plant'[u] \in 1 .. MaxChanges[u]
  <2>1. plant' = [u \in Tags |-> plant'[u]]
    BY <1>1, <1>2
  <2>2. ASSUME NEW u \in Tags PROVE plant'[u] \in 1 .. MaxChanges[u]
    <3>1. plant[u] \in 1 .. MaxChanges[u] /\ MaxChanges[u] \in Nat
      BY <1>1
    <3>2. plant'[u] = IF u = t THEN plant[u] + 1 ELSE plant[u]
      BY <1>1, <1>2
    <3> QED BY <1>2, <3>1, <3>2
  <2> QED BY <2>1, <2>2
<1>4. CASE UNCHANGED queue
  BY <1>2, <1>3, <1>4 DEF Inv, QueuesOK, QueueKept, InQueue, InWriter
<1>5. CASE Enqueue(<<<<t, plant'[t]>>>>)
  <2>1. <<t, plant'[t]>> \in Changes
    BY <1>3, ChangesArePairs
  <2>2. <<<<t, plant'[t]>>>> \in Seq(Changes)
    BY <2>1
  <2>3. \E new \in Seq(Changes) : Enqueue(new)
    BY <1>5, <2>2
  <2> QED BY <1>2, <1>3, <2>3, QueuePushed
<1> QED BY <1>2, <1>4, <1>5

LEMMA ConnectQueue ==
  ASSUME Inv, NEW s \in Servers, Connect(s)
  PROVE  QueuesOK' /\ QueueKept
<1> DEFINE n == Cardinality(Accepted(s))
           values == [i \in 1 .. n |-> Current(Items(s)[i])]
<1>1. Accepted(s) \in SUBSET Tags /\ IsFiniteSet(Tags)
  BY SizesAssumption DEF Accepted
<1>2. n \in Nat /\ ExistsBijection(1 .. n, Accepted(s))
  BY <1>1, FS_Subset, FS_CardinalityType
<1>3. \E f \in [1 .. n -> Accepted(s)] : \A i, j \in DOMAIN f : i # j => f[i] # f[j]
  <2>1. PICK f \in Bijection(1 .. n, Accepted(s)) : TRUE
    BY <1>2 DEF ExistsBijection
  <2>2. f \in [1 .. n -> Accepted(s)] /\ \A i, j \in 1 .. n : f[i] = f[j] => i = j
    BY <2>1 DEF Bijection, Injection, IsInjective
  <2> QED BY <2>2
<1>4. Items(s) \in [1 .. n -> Accepted(s)]
  BY <1>3 DEF Items
<1>5. \A i \in 1 .. n : values[i] \in Changes
  <2> TAKE i \in 1 .. n
  <2>1. Items(s)[i] \in Tags
    BY <1>1, <1>4
  <2>2. Current(Items(s)[i]) \in Changes
    BY <2>1, ChangesArePairs DEF Current, Inv, QueuesOK
  <2> QED BY <2>2
<1>6. values \in Seq(Changes)
  <2> HIDE DEF n
  <2> QED BY <1>2, <1>5
<1>7. Enqueue(values) /\ UNCHANGED <<plant, writer>>
  BY DEF Connect
<1>8. \E new \in Seq(Changes) : Enqueue(new)
  <2> HIDE DEF values
  <2> QED BY <1>6, <1>7
<1>9. plant' = [t \in Tags |-> plant'[t]] /\ \A t \in Tags : plant'[t] \in 1 .. MaxChanges[t]
  BY <1>7 DEF Inv, QueuesOK
<1> QED BY <1>7, <1>8, <1>9, QueuePushed

LEMMA TakeQueue ==
  ASSUME Inv, Take
  PROVE  QueuesOK' /\ QueueKept
<1>1. /\ queue \in Seq(Changes) /\ WriteBatch \in Nat /\ writer.rows = <<>>
      /\ DOMAIN writer = {"at", "rows", "trimmed"}
  BY SizesAssumption DEF Inv, QueuesOK, Take
<1> DEFINE k == IF Len(queue) < WriteBatch THEN Len(queue) ELSE WriteBatch
<1>2. /\ writer' = [writer EXCEPT !.at = "writing", !.rows = SubSeq(queue, 1, k)]
      /\ queue' = SubSeq(queue, k + 1, Len(queue)) /\ UNCHANGED plant
  BY DEF Take
<1>3. k \in 0 .. Len(queue) /\ Len(queue) \in Nat
  BY <1>1
<1> HIDE DEF k
<1>4. /\ DOMAIN writer' = {"at", "rows", "trimmed"} /\ writer'.at = "writing"
      /\ writer'.rows = SubSeq(queue, 1, k)
  BY <1>1, <1>2
<1>5. /\ writer'.rows \in Seq(Changes) /\ queue' \in Seq(Changes)
      /\ Len(writer'.rows) = k /\ \A i \in 1 .. k : writer'.rows[i] = queue[i]
      /\ Len(queue') = Len(queue) - k
      /\ \A i \in k + 1 .. Len(queue) : i - k \in 1 .. Len(queue') /\ queue'[i - k] = queue[i]
  <2>1. writer'.rows \in Seq(Changes) /\ Len(writer'.rows) = k /\ \A i \in 1 .. k : writer'.rows[i] = queue[i]
    <3> DEFINE q == SubSeq(queue, 1, k)
    <3>1. q \in Seq(Changes) /\ Len(q) = k /\ \A i \in 1 .. k : q[i] = queue[i]
      BY <1>1, <1>3
    <3> QED BY <1>4, <3>1
  <2>2. /\ queue' \in Seq(Changes) /\ Len(queue') = Len(queue) - k
        /\ \A i \in k + 1 .. Len(queue) : i - k \in 1 .. Len(queue') /\ queue'[i - k] = queue[i]
    <3>1. queue' = SubSeq(queue, k + 1, Len(queue))
      BY <1>2
    <3>2. queue' \in Seq(Changes) /\ Len(queue') = Len(queue) - k
      BY <1>1, <1>3, <3>1
    <3>3. \A i \in k + 1 .. Len(queue) : i - k \in 1 .. Len(queue') /\ queue'[i - k] = queue[i]
      BY <1>1, <1>3, <3>1
    <3> QED BY <3>2, <3>3
  <2> QED BY <2>1, <2>2
<1>6. InQueue \subseteq InQueue' \cup InWriter'
  <2> SUFFICES ASSUME NEW i \in 1 .. Len(queue) PROVE queue[i] \in InQueue' \cup InWriter'
    BY DEF InQueue
  <2>1. CASE i <= k
    <3>1. i \in 1 .. k
      BY <1>3, <2>1
    <3> QED BY <1>5, <3>1 DEF InWriter
  <2>2. CASE i > k
    <3>1. i \in k + 1 .. Len(queue)
      BY <1>3, <2>2
    <3> QED BY <1>5, <3>1 DEF InQueue
  <2> QED BY <1>3, <2>1, <2>2
<1>7. InWriter = {}
  BY <1>1 DEF InWriter
<1> QED BY <1>2, <1>4, <1>5, <1>6, <1>7 DEF Inv, QueuesOK, QueueKept

LEMMA WriterDone ==
  ASSUME Inv, UNCHANGED <<plant, queue>>,
         DOMAIN writer' = DOMAIN writer, writer'.rows = <<>>,
         InWriter \subseteq ChangesOf(spool') \union dropped'
  PROVE  QueuesOK' /\ QueueKept
  BY DEF Inv, QueuesOK, QueueKept, InQueue

LEMMA StoreQueue ==
  ASSUME Inv, Store
  PROVE  QueuesOK' /\ QueueKept
<1>1. /\ spool' = spool \union Written /\ UNCHANGED <<plant, queue>>
      /\ \E next \in {"idle", "trimming"} : writer' = [writer EXCEPT !.at = next, !.rows = <<>>]
      /\ DOMAIN writer = {"at", "rows", "trimmed"}
  BY DEF Store, Stored, Inv, QueuesOK
<1>2. DOMAIN writer' = DOMAIN writer /\ writer'.rows = <<>>
  BY <1>1
<1>3. InWriter \subseteq ChangesOf(spool')
  BY <1>1, WrittenRows DEF ChangesOf
<1> QED BY <1>1, <1>2, <1>3, WriterDone

LEMMA GivenUpQueue ==
  ASSUME Inv, StoreFails \/ Trim
  PROVE  QueuesOK' /\ QueueKept
<1>1. DOMAIN writer = {"at", "rows", "trimmed"} /\ (writer.at # "writing" => writer.rows = <<>>)
  BY DEF Inv, QueuesOK
<1>2. CASE StoreFails
  <2>1. /\ UNCHANGED <<plant, queue>> /\ InWriter \subseteq dropped'
        /\ writer' = [writer EXCEPT !.at = "idle", !.rows = <<>>]
    BY <1>2 DEF StoreFails
  <2>2. DOMAIN writer' = DOMAIN writer /\ writer'.rows = <<>>
    BY <1>1, <2>1
  <2> QED BY <2>1, <2>2, WriterDone
<1>3. CASE Trim
  <2>1. /\ UNCHANGED <<plant, queue>> /\ writer.rows = <<>>
        /\ writer' = [writer EXCEPT !.at = "idle", !.trimmed = TRUE]
    BY <1>1, <1>3 DEF Trim
  <2>2. DOMAIN writer' = DOMAIN writer /\ writer'.rows = <<>>
    BY <1>1, <2>1
  <2>3. InWriter = {}
    BY <2>1 DEF InWriter
  <2> QED BY <2>1, <2>2, <2>3, WriterDone
<1> QED BY <1>2, <1>3

LEMMA EndQueue ==
  ASSUME Inv, Reload \/ Crash
  PROVE  QueuesOK' /\ QueueKept
<1>1. queue' = <<>> /\ writer' = IdleWriter /\ UNCHANGED plant
  BY DEF Reload, Crash, Fresh
<1>2. /\ queue' \in Seq(Changes) /\ writer'.rows = <<>>
      /\ DOMAIN writer' = {"at", "rows", "trimmed"}
  BY <1>1 DEF IdleWriter
<1>3. InQueue \subseteq dropped'
  BY DEF Reload, Crash
<1>4. InWriter \subseteq dropped' \/ (spool' = (IF forwarder.acked = 0 THEN spool ELSE Kept(forwarder.acked)) \union Written)
  BY DEF Reload, Crash
<1>5. InWriter \subseteq ChangesOf(spool') \union dropped'
  BY <1>4, WrittenRows DEF ChangesOf
<1> QED BY <1>1, <1>2, <1>3, <1>5 DEF Inv, QueuesOK, QueueKept

LEMMA QueueStep ==
  ASSUME Inv, [Next]_vars
  PROVE  QueuesOK' /\ QueueKept
<1>1. ASSUME NEW t \in Tags, DataChange(t) PROVE QueuesOK' /\ QueueKept
  BY <1>1, DataChangeQueue
<1>2. ASSUME NEW s \in Servers, Connect(s) PROVE QueuesOK' /\ QueueKept
  BY <1>2, ConnectQueue
<1>3. ASSUME NEW s \in Servers, SessionLost(s) PROVE QueuesOK' /\ QueueKept
  BY <1>3, QueueStays DEF SessionLost
<1>4. CASE Take
  BY <1>4, TakeQueue
<1>5. CASE Store
  BY <1>5, StoreQueue
<1>6. CASE StoreFails \/ Trim
  BY <1>6, GivenUpQueue
<1>7. CASE BrokerUp \/ Peek \/ Publish \/ PublishFails \/ Delete \/ SpoolFails \/ UNCHANGED vars
  <2>1. UNCHANGED <<plant, queue, writer>>
    BY <1>7 DEF BrokerUp, Peek, Publish, PublishFails, Delete, SpoolFails, vars
  <2> QED BY <2>1, QueueStays
<1>8. CASE Reload \/ Crash
  BY <1>8, EndQueue
<1> QED BY <1>1, <1>2, <1>3, <1>4, <1>5, <1>6, <1>7, <1>8 DEF Next

-----------------------------------------------------------------------------
(* The steps, seen from the file                                            *)

\* A row leaves the file when it was published or is given up.
RowsLeave == \A r \in spool \ spool' : r[1] \in published \/ Change(r) \in dropped'
InOrder == \A i \in published' \ published : \A j \in published : j < i

LEMMA FileIsFinite ==
  ASSUME Inv
  PROVE  IsFiniteSet(spool) /\ lastId \in Nat
<1>1. spool \in SUBSET Known /\ IsFiniteSet(Known) /\ lastId \in Nat
  BY DEF Inv, RowsOK, Known
<1> QED BY <1>1, FS_Subset

\* The steps that leave the broker and the identifiers alone.
LEMMA RowsTaken ==
  ASSUME Inv, spool' \subseteq spool, UNCHANGED <<lastId, published>>,
         forwarder' = forwarder \/ (DOMAIN forwarder' = Fields /\ forwarder'.batch = {} /\ forwarder'.acked = 0)
  PROVE  Lower' /\ InOrder
<1>1. IsFiniteSet(spool') /\ lastId \in Nat /\ lastId <= lastId'
  BY FileIsFinite, FS_Subset
<1>2. /\ DOMAIN forwarder' = Fields /\ forwarder'.batch \in {forwarder.batch, {}}
      /\ forwarder'.acked \in {forwarder.acked, 0}
  BY DEF Inv, RowsOK, Fields
<1>3. Lower'
  BY <1>1, <1>2, FileChanges
<1> QED BY <1>3 DEF InOrder

LEMMA RowsAdded ==
  ASSUME Inv, \E rest \in SUBSET spool : spool' = rest \union Written,
         lastId' = NextId + Len(writer.rows) - 1, UNCHANGED published,
         forwarder' = forwarder \/ (DOMAIN forwarder' = Fields /\ forwarder'.batch = {} /\ forwarder'.acked = 0)
  PROVE  Lower' /\ InOrder
<1> PICK rest \in SUBSET spool : spool' = rest \union Written
  OBVIOUS
<1>1. IsFiniteSet(spool')
  <2>1. IsFiniteSet(rest) /\ IsFiniteSet(Written)
    BY FileIsFinite, FS_Subset, WrittenRows
  <2> QED BY <2>1, FS_Union
<1>2. /\ \A r \in spool' \ spool : r \in Written
      /\ lastId' \in Nat /\ lastId <= lastId'
  BY WrittenRows
<1>3. /\ \A r \in spool' \ spool : r[1] \in lastId + 1 .. lastId'
      /\ \A r, q \in spool' \ spool : r[1] = q[1] => r = q
  BY <1>2, WrittenRows
<1>4. /\ DOMAIN forwarder' = Fields /\ forwarder'.batch \in {forwarder.batch, {}}
      /\ forwarder'.acked \in {forwarder.acked, 0}
  BY DEF Inv, RowsOK, Fields
<1>5. Lower'
  BY <1>1, <1>2, <1>3, <1>4, FileChanges
<1> QED BY <1>5 DEF InOrder

\* What delete_through removes was published, whatever has happened to the file since
\* the rows were read.
LEMMA DeletedWasPublished ==
  ASSUME Inv, NEW r \in spool, forwarder.acked # 0, r \notin Kept(forwarder.acked)
  PROVE  r[1] \in published
<1>1. r \in Known /\ r[1] \in Nat /\ forwarder.acked \in published /\ forwarder.acked \in Nat
  <2>1. forwarder.acked \in published /\ published \subseteq 1 .. lastId /\ lastId \in Nat
    BY DEF Inv, RowsOK
  <2>2. r \in Known /\ r[1] \in 1 .. lastId
    BY DEF Inv, RowsOK, Known
  <2>3. forwarder.acked \in 1 .. lastId
    BY <2>1
  <2>4. forwarder.acked \in Nat /\ r[1] \in Nat
    BY <2>1, <2>2, <2>3
  <2> QED BY <2>1, <2>2, <2>4
<1>2. r[1] <= forwarder.acked
  BY <1>1 DEF Kept
<1> QED BY <1>1, <1>2 DEF Inv, Prefix

LEMMA PeekRows ==
  ASSUME Inv, Peek
  PROVE  Lower' /\ InOrder /\ RowsLeave
<1>1. /\ forwarder' = [at |-> "publishing", batch |-> Batch, acked |-> 0, failed |-> FALSE]
      /\ UNCHANGED <<spool, lastId, published>> /\ Batch = Oldest(spool, ForwardBatch)
  BY DEF Peek, Batch, diskVars, brokerVars
<1>2. /\ IsFiniteSet(spool) /\ lastId \in Nat /\ ForwardBatch \in Nat
      /\ \A r \in spool : r[1] \in 1 .. lastId
  BY FileIsFinite, SizesAssumption DEF Inv, RowsOK, Known
<1>3. /\ Batch \subseteq spool /\ Lowest(Batch, spool) /\ Cardinality(Batch) <= ForwardBatch
  BY <1>1, <1>2, OldestBounded
<1>4. forwarder'.batch = Batch /\ Known' = spool /\ spool \subseteq Known
  BY <1>1, <1>3 DEF Known
<1>5. RowsOK'
  BY <1>1, <1>2, <1>4 DEF Inv, RowsOK
<1>6. Prefix'
  BY <1>1, <1>4 DEF Inv, Prefix
<1>7. DueOK'
  <2>1. Due' = Batch
    BY <1>1, <1>3, <1>4, InvReplay DEF Due, ReplayIsOneBatch
  <2> QED BY <1>3, <1>4, <2>1 DEF DueOK
<1> QED BY <1>1, <1>5, <1>6, <1>7 DEF Lower, InOrder, RowsLeave

LEMMA PublishRows ==
  ASSUME Inv, Publish \/ PublishFails
  PROVE  Lower' /\ InOrder /\ RowsLeave
<1>1. /\ forwarder.batch # {} /\ UNCHANGED <<spool, lastId>>
      /\ DOMAIN forwarder = Fields /\ (forwarder.acked = 0 \/ forwarder.acked \in published)
  BY DEF Publish, PublishFails, diskVars, Inv, RowsOK, Fields
<1>2. RowsLeave
  BY <1>1 DEF RowsLeave
<1>3. CASE Publish
  <2>1. /\ published' = published \union {NextRow[1]}
        /\ forwarder' = [forwarder EXCEPT !.batch = @ \ {NextRow}, !.acked = NextRow[1]]
    BY <1>3 DEF Publish, Received
  <2>2. /\ DOMAIN forwarder' = Fields /\ forwarder'.batch = forwarder.batch \ {NextRow}
        /\ forwarder'.acked = NextRow[1]
    BY <1>1, <2>1 DEF Fields
  <2> QED BY <1>1, <1>2, <2>1, <2>2, RowReceived DEF InOrder
<1>4. CASE PublishFails
  <2> DEFINE at == IF forwarder.acked = 0 THEN "down" ELSE "deleting"
  <2>1. /\ published' = published \union {NextRow[1]} \/ UNCHANGED published
        /\ forwarder' = [forwarder EXCEPT !.at = at, !.batch = {}, !.failed = TRUE]
    BY <1>4 DEF PublishFails, Received, brokerVars
  <2> HIDE DEF at
  <2>2. /\ DOMAIN forwarder' = Fields /\ forwarder'.batch = {}
        /\ forwarder'.acked = forwarder.acked
    BY <1>1, <2>1 DEF Fields
  <2>3. CASE published' = published \union {NextRow[1]}
    BY <1>1, <1>2, <2>2, <2>3, RowReceived DEF InOrder
  <2>4. CASE UNCHANGED published
    <3>1. IsFiniteSet(spool') /\ lastId' \in Nat /\ lastId <= lastId'
      BY <1>1, FileIsFinite
    <3>2. Lower'
      BY <1>1, <2>2, <2>4, <3>1, FileChanges
    <3> QED BY <1>2, <2>4, <3>2 DEF InOrder
  <2> QED BY <2>1, <2>3, <2>4
<1> QED BY <1>3, <1>4

LEMMA TrimRows ==
  ASSUME Inv, Trim
  PROVE  Lower' /\ InOrder /\ RowsLeave
<1>1. /\ UNCHANGED <<lastId, published, forwarder>>
      /\ dropped' = dropped \union ChangesOf(spool \ spool')
  BY SMTT(30) DEF Trim, brokerVars
<1>2. spool' \subseteq spool
  BY DEF Trim, WithinPages, WithinRows, Young
<1>3. RowsLeave
  BY <1>1 DEF RowsLeave, ChangesOf
<1> QED BY <1>1, <1>2, <1>3, RowsTaken

\* The connection is opened, given up or closed; the finally clause deletes.
LEMMA ForwarderRows ==
  ASSUME Inv, BrokerUp \/ Delete \/ SpoolFails \/ Crash
  PROVE  Lower' /\ InOrder /\ RowsLeave
<1>1. \E at \in {"down", "idle"} : forwarder' = [DownForwarder EXCEPT !.at = at]
  <2>1. DownForwarder = [DownForwarder EXCEPT !.at = "down"]
    BY DEF DownForwarder
  <2>2. CASE BrokerUp \/ SpoolFails \/ Crash
    BY <2>1, <2>2 DEF BrokerUp, SpoolFails, Crash, Fresh
  <2>3. CASE Delete
    <3> DEFINE at == IF forwarder.failed THEN "down" ELSE "idle"
    <3>1. forwarder' = [DownForwarder EXCEPT !.at = at] /\ at \in {"down", "idle"}
      BY <2>3 DEF Delete
    <3> QED BY <3>1
  <2> QED BY <2>2, <2>3
<1>2. DOMAIN forwarder' = Fields /\ forwarder'.batch = {} /\ forwarder'.acked = 0
  BY <1>1 DEF DownForwarder, Fields
<1>3. /\ UNCHANGED <<lastId, published>>
      /\ spool' = spool \/ (forwarder.acked # 0 /\ spool' = Kept(forwarder.acked))
  BY DEF BrokerUp, Delete, SpoolFails, Crash, Deleted, diskVars, brokerVars
<1>4. spool' \subseteq spool
  BY <1>3 DEF Kept
<1>5. RowsLeave
  BY <1>3, DeletedWasPublished DEF RowsLeave
<1> QED BY <1>2, <1>3, <1>4, <1>5, RowsTaken

LEMMA ReloadRows ==
  ASSUME Inv, Reload
  PROVE  Lower' /\ InOrder /\ RowsLeave
<1> DEFINE rest == IF forwarder.acked = 0 THEN spool ELSE Kept(forwarder.acked)
<1>1. /\ forwarder' = DownForwarder /\ UNCHANGED published
      /\ \/ spool' = rest \union Written /\ lastId' = NextId + Len(writer.rows) - 1
         \/ spool' = rest /\ UNCHANGED lastId
  BY DEF Reload, Fresh, Deleted, brokerVars
<1>2. DOMAIN forwarder' = Fields /\ forwarder'.batch = {} /\ forwarder'.acked = 0
  BY <1>1 DEF DownForwarder, Fields
<1>3. rest \in SUBSET spool
  BY DEF Kept
<1>4. RowsLeave
  BY <1>1, DeletedWasPublished DEF RowsLeave
<1> HIDE DEF rest
<1>5. Lower' /\ InOrder
  BY <1>1, <1>2, <1>3, RowsTaken, RowsAdded
<1> QED BY <1>4, <1>5

LEMMA StoreRows ==
  ASSUME Inv, Store
  PROVE  Lower' /\ InOrder /\ RowsLeave
<1>1. /\ spool' = spool \union Written /\ lastId' = NextId + Len(writer.rows) - 1
      /\ UNCHANGED <<published, forwarder>>
  BY DEF Store, Stored, brokerVars
<1>2. RowsLeave
  BY <1>1 DEF RowsLeave
<1> QED BY <1>1, <1>2, RowsAdded

LEMMA RowStep ==
  ASSUME Inv, [Next]_vars
  PROVE  Lower' /\ InOrder /\ RowsLeave
<1>1. ASSUME UNCHANGED <<spool, lastId, published, forwarder>> PROVE Lower' /\ InOrder /\ RowsLeave
  BY <1>1, RowsTaken DEF RowsLeave
<1>2. ASSUME NEW t \in Tags, DataChange(t) PROVE UNCHANGED <<spool, lastId, published, forwarder>>
  BY <1>2 DEF DataChange, diskVars, brokerVars
<1>3. ASSUME NEW s \in Servers, Connect(s) \/ SessionLost(s)
      PROVE  UNCHANGED <<spool, lastId, published, forwarder>>
  BY <1>3 DEF Connect, SessionLost, diskVars, brokerVars
<1>4. CASE Take \/ StoreFails \/ UNCHANGED vars
  <2>1. UNCHANGED <<spool, lastId, published, forwarder>>
    BY <1>4 DEF Take, StoreFails, diskVars, brokerVars, vars
  <2> QED BY <1>1, <2>1
<1>5. CASE Store
  BY <1>5, StoreRows
<1>6. CASE Trim
  BY <1>6, TrimRows
<1>7. CASE Peek
  BY <1>7, PeekRows
<1>8. CASE Publish \/ PublishFails
  BY <1>8, PublishRows
<1>9. CASE BrokerUp \/ Delete \/ SpoolFails \/ Crash
  BY <1>9, ForwarderRows
<1>10. CASE Reload
  BY <1>10, ReloadRows
<1> QED BY <1>1, <1>2, <1>3, <1>4, <1>5, <1>6, <1>7, <1>8, <1>9, <1>10 DEF Next

-----------------------------------------------------------------------------
(* The theorems                                                             *)

LEMMA InitInv ==
  ASSUME Init
  PROVE  Inv
<1>1. RowsOK
  BY FS_EmptySet DEF Init, RowsOK, Known, DownForwarder
<1>2. Prefix
  BY DEF Init, Prefix
<1>3. DueOK
  <2>1. Due = {}
    BY DEF Init, Due, Known, DownForwarder
  <2> QED BY <2>1, FS_EmptySet, SizesAssumption DEF DueOK, Lowest
<1>4. QueuesOK
  <2>1. \A t \in Tags : 1 \in 1 .. MaxChanges[t]
    BY SizesAssumption
  <2> QED BY <2>1 DEF Init, QueuesOK, IdleWriter
<1> QED BY <1>1, <1>2, <1>3, <1>4 DEF Inv

LEMMA AlwaysInv ==
  Spec => []Inv
<1>1. Init => Inv
  BY InitInv
<1>2. Inv /\ [Next]_vars => Inv'
  BY QueueStep, RowStep DEF Inv, Lower
<1> QED BY <1>1, <1>2, PTL DEF Spec

\* Whatever a crash, a reload or a lost connection makes the forwarder publish again,
\* it is at most one batch, and the oldest rows of the file.
THEOREM ReplayBounded ==
  Spec => []ReplayIsOneBatch
<1>1. Inv => ReplayIsOneBatch
  BY InvReplay
<1> QED BY <1>1, AlwaysInv, PTL

\* No row is published for the first time after a newer one, in any interleaving of
\* writes, trims, deletions and failures.
THEOREM BacklogInOrder ==
  Spec => FirstPublicationInOrder
<1>1. Inv /\ [Next]_vars => [InOrder]_vars
  BY RowStep
<1>2. Spec => [][InOrder]_vars
  BY <1>1, AlwaysInv, PTL DEF Spec
<1> QED BY <1>2 DEF FirstPublicationInOrder, InOrder

\* delete_through removes nothing that was not published, and no change is lost between
\* queue, writer and file without being counted.
THEOREM NothingLostUnseen ==
  Spec => NothingVanishes
<1> DEFINE Counted ==
      /\ (InQueue \union InWriter) \ (InQueue' \union InWriter')
           \subseteq ChangesOf(spool') \union dropped'
      /\ \A r \in spool \ spool' : r[1] \in published \/ Change(r) \in dropped'
<1>1. Inv /\ [Next]_vars => [Counted]_vars
  BY QueueStep, RowStep DEF QueueKept, RowsLeave
<1>2. Spec => [][Counted]_vars
  BY <1>1, AlwaysInv, PTL DEF Spec
<1> QED BY <1>2 DEF NothingVanishes

-----------------------------------------------------------------------------
(* The Sparkplug mapper: what is meant, on the way and at hand              *)

\* What set_value_in_sparkplug puts in a field, get_value_from_sparkplug finds there.
ReadsBack == \A r \in Readings : GetValue(r.type, SetValue(r)) = r.value

\* The names the aliases of one life of a device stand for.
NamesIn(d, life) == IF life = Life(d) THEN alias_name_map[d] ELSE past[d][life]

\* A metric means its name, and what its alias stands for.
Bears(d, life, m) ==
  /\ m.aliased => m.alias \in DOMAIN NamesIn(d, life) /\ m.means = NamesIn(d, life)[m.alias]
  /\ IF m.name = NoName THEN m.aliased ELSE m.means = m.name

\* Metrics that name an alias, and metrics that need it.
Tells(metrics, from, to, a) == \E i \in from..to : metrics[i].aliased /\ Naming(metrics[i], a)
Asks(m) == m.name = NoName /\ m.told

\* The mapper has no name for the alias, or the right one.
Knows(d, life, a) == LET names == node_device_metric_alias_map[CacheKey(d)]
                     IN a \in DOMAIN names => names[a] = NamesIn(d, life)[a]

InHand(d, life, a) == parsing.device = d /\ parsing.life = life
                      /\ Tells(parsing.metrics, parsing.next, Len(parsing.metrics), a)
Ready(d, life, a) == d \in misled \/ (Knows(d, life, a) /\ (parsing.device = d => parsing.life = life))

\* By the time the mapper gets to the k-th message of the wire, it knows the alias.
Ahead(d, life, a, k) ==
  \/ \E j \in 1..(k - 1) : wire[d][j].life = life /\ Tells(wire[d][j].metrics, 1, Len(wire[d][j].metrics), a)
  \/ InHand(d, life, a)
  \/ (\A j \in 1..(k - 1) : wire[d][j].life = life) /\ Ready(d, life, a)

\* The k-th message on the wire of a device, and what its process has sent.
MeansOK(d, k) ==
  wire[d][k].life <= Life(d) /\ \A i \in 1..Len(wire[d][k].metrics) : Bears(d, wire[d][k].life, wire[d][k].metrics[i])
OrderOK(d, k) ==
  /\ \A j \in 1..(k - 1) : wire[d][j].life <= wire[d][k].life
  /\ parsing.device = d => parsing.life <= wire[d][k].life
ToldOK(d, k) == \A i \in 1..Len(wire[d][k].metrics) :
  LET metrics == wire[d][k].metrics IN
  Asks(metrics[i]) => Tells(metrics, 1, i - 1, metrics[i].alias) \/ Ahead(d, wire[d][k].life, metrics[i].alias, k)
SaidOK(d, a) == a \in DOMAIN alias_name_map[d] /\ Ahead(d, Life(d), a, Len(wire[d]) + 1)

MessageOK(d, k) == MeansOK(d, k) /\ OrderOK(d, k) /\ (Mapped(d) => ToldOK(d, k))
DeviceOK(d) ==
  /\ \A k \in 1..Len(wire[d]) : MessageOK(d, k)
  /\ Mapped(d) => \A a \in said[d] : SaidOK(d, a)

\* The metrics still to be handled.
TurnOK(i) == LET metrics == parsing.metrics IN
  /\ Bears(parsing.device, parsing.life, metrics[i])
  /\ Asks(metrics[i]) => \/ Tells(metrics, parsing.next, i - 1, metrics[i].alias)
                         \/ parsing.guess \/ Knows(parsing.device, parsing.life, metrics[i].alias)
ParsingOK == parsing # NoWork =>
  /\ Mapped(parsing.device) /\ parsing.life <= Life(parsing.device)
  /\ Misleads(parsing.metrics) => parsing.device \in misled /\ parsing.guess
  /\ \A i \in parsing.next..Len(parsing.metrics) : TurnOK(i)

\* A message is newest and meant, entry by entry.
Faithful(t, message) == message # NoMessage =>
  /\ \A tag \in DOMAIN message.tags : \A i \in DOMAIN message.tags[tag] :
       LET e == message.tags[tag][i] IN
       e # None => e.timestamp <= message.timestamp /\ (e.means = <<t, tag>> \/ e.guess)
  /\ \E tag \in DOMAIN message.tags : \E i \in DOMAIN message.tags[tag] :
       message.tags[tag][i] # None /\ message.tags[tag][i].timestamp = message.timestamp
OutOK == \A t \in Topics : Faithful(t, uns[t]) /\ Faithful(t, parsing.out[t])

SpbInv == SparkplugTypeOK /\ (\A d \in Devices : DeviceOK(d)) /\ ParsingOK /\ OutOK

-----------------------------------------------------------------------------
(* What a device composes                                                   *)

\* The metrics of a composed list.
Lists == Births \union Datas \union {<<>>}

LEMMA ListFacts ==
  ASSUME NEW list \in Lists
  PROVE  /\ list \in Seq(Composed) /\ Len(list) \in Nat /\ DOMAIN list = 1..Len(list)
         /\ \A i \in 1..Len(list) : list[i] \in Composed
<1>1. CASE list = <<>>
  BY <1>1
<1>2. CASE list \in Births \union Datas
  <2>1. list \in Seq(Composed)
    BY <1>2, ListsAssumption
  <2> QED BY <2>1
<1> QED BY <1>1, <1>2 DEF Lists

LEMMA ComposedFacts ==
  ASSUME NEW m \in Composed
  PROVE  /\ m.name \in Names \union {NoName} /\ m.timestamp \in Nat /\ m.timestamp \in Stamps
         /\ m.alias # NoAlias => m.alias \in Aliases /\ m.alias \in Nat
<1>1. PICK list \in Births \union Datas : m \in {list[i] : i \in DOMAIN list}
  BY DEF Composed, MetricsOf
<1>2. PICK i \in DOMAIN list : m = list[i]
  BY <1>1
<1>3. m.name \in Names \union {NoName} /\ m.timestamp \in Nat /\ m.alias \in Nat \union {NoAlias}
  BY <1>2, ListsAssumption
<1> QED BY <1>3 DEF Aliases, Stamps

LEMMA AliasesAreNat == Aliases \subseteq Nat /\ NoAlias \notin Aliases
BY ComposedFacts DEF Aliases

\* A map of aliases, by its domain and its names.
LEMMA MapFacts ==
  ASSUME NEW S
  PROVE  /\ \A f \in MapsOf(S) : f \in [DOMAIN f -> Names] /\ DOMAIN f \subseteq S
         /\ \A D \in SUBSET S : \A f \in [D -> Names] : f \in MapsOf(S)
         /\ Empty \in MapsOf(S) /\ DOMAIN Empty = {}
<1>1. \A f \in MapsOf(S) : f \in [DOMAIN f -> Names] /\ DOMAIN f \subseteq S
  BY DEF MapsOf
<1>2. \A D \in SUBSET S : \A f \in [D -> Names] : f \in MapsOf(S)
  BY DEF MapsOf
<1>3. {} \in SUBSET S /\ Empty \in [{} -> Names] /\ DOMAIN Empty = {}
  BY DEF Empty
<1> QED BY <1>1, <1>2, <1>3

LEMMA NotedSplit ==
  ASSUME NEW d, NEW list, NEW i, NEW a
  PROVE  \A x \in Noted(d, list, i, a) :
           \/ a \in DOMAIN alias_name_map[d] /\ x = alias_name_map[d][a]
           \/ \E j \in 1..(i - 1) : Naming(list[j], a) /\ a # NoAlias /\ x = list[j].name
BY DEF Noted

LEMMA NotedHas ==
  ASSUME NEW d, NEW list, NEW n, NEW a
  PROVE  /\ a \in DOMAIN alias_name_map[d] => alias_name_map[d][a] \in Noted(d, list, n, a)
         /\ \A j \in 1..(n - 1) : Naming(list[j], a) /\ a # NoAlias => list[j].name \in Noted(d, list, n, a)
BY DEF Noted

LEMMA NotedGrows ==
  ASSUME NEW d, NEW list, NEW i \in Nat, NEW n \in Nat, i <= n, NEW a
  PROVE  Noted(d, list, i, a) \subseteq Noted(d, list, n, a)
BY DEF Noted

\* An alias has one name at most.
LEMMA NotedOnce ==
  ASSUME NEW d, NEW list \in Lists, NEW n \in 0..Len(list), \A i \in 1..n : ~Raises(d, list, i),
         NEW a, NEW x \in Noted(d, list, n + 1, a), NEW y \in Noted(d, list, n + 1, a)
  PROVE  x = y
<1>1. Len(list) \in Nat /\ n \in Nat
  BY ListFacts
<1>2. ASSUME NEW j \in 1..n, Naming(list[j], a)
      PROVE  Noted(d, list, j, a) \subseteq {list[j].name}
  <2>1. ~Raises(d, list, j) /\ list[j].name # NoName /\ list[j].alias = a
    BY <1>2 DEF Naming
  <2> QED BY <2>1 DEF Raises
<1>3. ASSUME NEW j \in 1..n, NEW k \in 1..n, Naming(list[j], a), Naming(list[k], a), a # NoAlias, j < k
      PROVE  list[j].name = list[k].name
  <2>1. list[j].name \in Noted(d, list, k, a)
    BY <1>1, <1>3, NotedHas
  <2> QED BY <1>2, <1>3, <2>1
<1>4. ASSUME NEW j \in 1..n, Naming(list[j], a), a \in DOMAIN alias_name_map[d]
      PROVE  alias_name_map[d][a] = list[j].name
  <2>1. alias_name_map[d][a] \in Noted(d, list, j, a)
    BY <1>1, <1>4, NotedHas
  <2> QED BY <1>2, <1>4, <2>1
<1>5. \A z \in {x, y} : \/ a \in DOMAIN alias_name_map[d] /\ z = alias_name_map[d][a]
                        \/ \E j \in 1..n : Naming(list[j], a) /\ a # NoAlias /\ z = list[j].name
  <2>1. (n + 1) - 1 = n
    BY <1>1
  <2> QED BY <2>1, NotedSplit
<1>6. CASE a \in DOMAIN alias_name_map[d] /\ x = alias_name_map[d][a]
  BY <1>4, <1>5, <1>6
<1>7. CASE \E j \in 1..n : Naming(list[j], a) /\ a # NoAlias /\ x = list[j].name
  <2>1. PICK j \in 1..n : Naming(list[j], a) /\ a # NoAlias /\ x = list[j].name
    BY <1>7
  <2>2. CASE a \in DOMAIN alias_name_map[d] /\ y = alias_name_map[d][a]
    BY <1>4, <2>1, <2>2
  <2>3. CASE \E k \in 1..n : Naming(list[k], a) /\ y = list[k].name
    <3>1. PICK k \in 1..n : Naming(list[k], a) /\ y = list[k].name
      BY <2>3
    <3>2. j = k \/ j < k \/ k < j
      BY <1>1
    <3> QED BY <1>3, <2>1, <3>1, <3>2
  <2> QED BY <1>5, <2>2, <2>3
<1> QED BY <1>5, <1>6, <1>7

LEMMA NotedAreNames ==
  ASSUME SparkplugTypeOK, NEW d \in Devices, NEW list \in Lists, NEW i \in 1..(Len(list) + 1), NEW a
  PROVE  Noted(d, list, i, a) \subseteq Names
<1>1. alias_name_map[d] \in [DOMAIN alias_name_map[d] -> Names]
  BY MapFacts DEF SparkplugTypeOK
<1>2. \A j \in 1..(i - 1) : list[j] \in Composed
  BY ListFacts
<1> QED BY <1>1, <1>2, ComposedFacts, NotedSplit DEF Naming

\* What a list of metrics that did not raise leaves behind.
LEMMA NotedByFacts ==
  ASSUME SparkplugTypeOK, NEW d \in Devices, NEW list \in Lists, NEW n \in 0..Len(list),
         \A i \in 1..n : ~Raises(d, list, i), NEW after, after = NotedBy(d, list, n)
  PROVE  /\ after \in MapsOf(Aliases)
         /\ \A a \in DOMAIN alias_name_map[d] : a \in DOMAIN after /\ after[a] = alias_name_map[d][a]
         /\ \A i \in 1..n : \A a \in Aliases :
              Naming(list[i], a) => a \in DOMAIN after /\ after[a] = list[i].name
         /\ \A i \in 1..n : list[i].name = NoName =>
              /\ list[i].alias \in DOMAIN after /\ list[i].alias # NoAlias
              /\ The(Noted(d, list, i, list[i].alias)) = after[list[i].alias]
<1>1. Len(list) \in Nat /\ n \in Nat /\ n + 1 \in 1..(Len(list) + 1) /\ \A i \in 1..n : i <= n + 1 /\ i \in Nat
  BY ListFacts
<1>2. ASSUME NEW a, NEW x \in Noted(d, list, n + 1, a)
      PROVE  x \in Names /\ (a \in Aliases => a \in DOMAIN after /\ after[a] = x)
  <2>1. The(Noted(d, list, n + 1, a)) \in Noted(d, list, n + 1, a)
    BY DEF The
  <2>2. The(Noted(d, list, n + 1, a)) = x
    BY <2>1, NotedOnce
  <2>3. x \in Names
    BY <1>1, NotedAreNames
  <2> QED BY <1>2, <2>2, <2>3 DEF NotedBy
<1>3. after \in MapsOf(Aliases)
  <2>1. DOMAIN after \subseteq Aliases
    BY DEF NotedBy
  <2>2. ASSUME NEW a \in DOMAIN after PROVE after[a] \in Names
    <3>1. a \in Aliases /\ Noted(d, list, n + 1, a) # {}
      BY DEF NotedBy
    <3> QED BY <1>2, <3>1
  <2>3. after \in [DOMAIN after -> Names]
    BY <2>2 DEF NotedBy
  <2> QED BY <2>1, <2>3, MapFacts
<1>4. DOMAIN alias_name_map[d] \subseteq Aliases
  BY MapFacts DEF SparkplugTypeOK
<1>5. \A a \in DOMAIN alias_name_map[d] : a \in DOMAIN after /\ after[a] = alias_name_map[d][a]
  BY <1>2, <1>4, NotedHas
<1>6. ASSUME NEW i \in 1..n, NEW a \in Aliases, Naming(list[i], a)
      PROVE  a \in DOMAIN after /\ after[a] = list[i].name
  <2>1. (n + 1) - 1 = n /\ a # NoAlias
    BY <1>1, AliasesAreNat
  <2>2. list[i].name \in Noted(d, list, n + 1, a)
    BY <1>6, <2>1, NotedHas
  <2> QED BY <1>2, <2>2
<1>7. ASSUME NEW i \in 1..n, list[i].name = NoName
      PROVE  /\ list[i].alias \in DOMAIN after /\ list[i].alias # NoAlias
             /\ The(Noted(d, list, i, list[i].alias)) = after[list[i].alias]
  <2>1. PICK a : a = list[i].alias
    OBVIOUS
  <2>2. Noted(d, list, i, a) # {}
    BY <1>7, <2>1 DEF Raises
  <2>3. PICK x : x = The(Noted(d, list, i, a)) /\ x \in Noted(d, list, i, a)
    BY <2>2 DEF The
  <2>4. x \in Noted(d, list, n + 1, a)
    <3>1. Noted(d, list, i, a) \subseteq Noted(d, list, n + 1, a)
      BY <1>1, NotedGrows
    <3> QED BY <2>3, <3>1
  <2>5. a # NoAlias
    BY <1>4, <2>3, AliasesAreNat, NotedSplit
  <2>6. a \in Aliases
    <3>1. list[i] \in Composed
      BY <1>1, ListFacts
    <3> QED BY <2>1, <2>5, <3>1, ComposedFacts
  <2> QED BY <1>2, <2>1, <2>3, <2>4, <2>5, <2>6
<1> QED BY <1>3, <1>5, <1>6, <1>7
-----------------------------------------------------------------------------
(* The steps of the device side                                             *)

\* The names of the lives so far stay; a step may add to those of the present one.
Grows(d) ==
  /\ Life(d) \in Nat /\ Life(d)' \in Nat /\ Life(d) <= Life(d)'
  /\ \A life \in 1..Life(d) : \A a \in DOMAIN NamesIn(d, life) :
       a \in DOMAIN NamesIn(d, life)' /\ NamesIn(d, life)'[a] = NamesIn(d, life)[a]

LEMMA LifeFacts ==
  ASSUME SparkplugTypeOK, NEW d \in Devices
  PROVE  Life(d) \in Nat /\ Life(d) > 0 /\ Life(d) = Len(past[d]) + 1 /\ past[d] \in Seq(MapsOf(Aliases))
BY DEF SparkplugTypeOK, Life

LEMMA SendGrows ==
  ASSUME SparkplugTypeOK, past' = past,
         \A e \in Devices : \A a \in DOMAIN alias_name_map[e] :
           a \in DOMAIN alias_name_map'[e] /\ alias_name_map'[e][a] = alias_name_map[e][a]
  PROVE  \A e \in Devices : Grows(e)
<1> TAKE e \in Devices
<1>1. Life(e)' = Life(e) /\ Life(e) \in Nat
  BY LifeFacts DEF Life
<1>2. \A life : NamesIn(e, life) = (IF life = Life(e) THEN alias_name_map[e] ELSE past[e][life])
  BY DEF NamesIn
<1>3. \A life : NamesIn(e, life)' = (IF life = Life(e) THEN alias_name_map'[e] ELSE past[e][life])
  BY <1>1 DEF NamesIn
<1> QED BY <1>1, <1>2, <1>3 DEF Grows

LEMMA RestartGrows ==
  ASSUME SparkplugTypeOK, NEW d \in Devices, DeviceRestarts(d)
  PROVE  /\ \A e \in Devices : Grows(e)
         /\ alias_name_map'[d] = Empty /\ past'[d] = Append(past[d], alias_name_map[d])
         /\ \A e \in Devices : e # d => alias_name_map'[e] = alias_name_map[e] /\ past'[e] = past[e]
<1>1. /\ DOMAIN alias_name_map = Devices /\ DOMAIN past = Devices
      /\ alias_name_map' = [alias_name_map EXCEPT ![d] = Empty]
      /\ past' = [past EXCEPT ![d] = Append(past[d], alias_name_map[d])]
  BY DEF SparkplugTypeOK, DeviceRestarts
<1>2. /\ alias_name_map'[d] = Empty /\ past'[d] = Append(past[d], alias_name_map[d])
      /\ \A e \in Devices : e # d => alias_name_map'[e] = alias_name_map[e] /\ past'[e] = past[e]
  BY <1>1
<1>3. ASSUME NEW e \in Devices, e # d PROVE Grows(e)
  <2>1. Life(e)' = Life(e) /\ Life(e) \in Nat
    BY <1>2, <1>3, LifeFacts DEF Life
  <2>2. \A life : NamesIn(e, life)' = NamesIn(e, life)
    BY <1>2, <1>3, <2>1 DEF NamesIn
  <2> QED BY <2>1, <2>2 DEF Grows
<1>4. Grows(d)
  <2>1. PICK p : p = past[d]
    OBVIOUS
  <2>2. PICK f : f = alias_name_map[d]
    OBVIOUS
  <2>3. p \in Seq(MapsOf(Aliases)) /\ f \in MapsOf(Aliases) /\ Len(p) \in Nat
    BY <2>1, <2>2 DEF SparkplugTypeOK
  <2>4. PICK q : q = past'[d]
    OBVIOUS
  <2>5. q = Append(p, f)
    BY <1>2, <2>1, <2>2, <2>4
  <2>6. Len(q) = Len(p) + 1 /\ q[Len(p) + 1] = f /\ \A i \in 1..Len(p) : q[i] = p[i]
    BY <2>3, <2>5, AppendProperties
  <2>7. Life(d) = Len(p) + 1 /\ Life(d)' = Len(p) + 2
    BY <2>1, <2>3, <2>4, <2>6 DEF Life
  <2>8. \A life \in 1..(Len(p) + 1) : NamesIn(d, life) = q[life]
    BY <2>1, <2>2, <2>3, <2>6, <2>7 DEF NamesIn
  <2>9. \A life \in 1..(Len(p) + 1) : NamesIn(d, life)' = q[life]
    <3>1. \A life : NamesIn(d, life)' = (IF life = Life(d)' THEN alias_name_map'[d] ELSE past'[d][life])
      BY DEF NamesIn
    <3> QED BY <2>3, <2>4, <2>7, <3>1
  <2> QED BY <2>3, <2>7, <2>8, <2>9 DEF Grows
<1> QED BY <1>2, <1>3, <1>4

LEMMA StandsGrow ==
  ASSUME SparkplugTypeOK, UNCHANGED <<alias_name_map, past>>
  PROVE  \A e \in Devices : Grows(e)
BY LifeFacts DEF Grows, NamesIn, Life

LEMMA BearsStays ==
  ASSUME NEW d, Grows(d), NEW life \in 1..Life(d), NEW m, Bears(d, life, m)
  PROVE  Bears(d, life, m)'
BY DEF Grows, Bears

\* The steps of the device side do not take from what is on its way.
LEMMA AheadGrows ==
  ASSUME NEW d, Grows(d), UNCHANGED mapperVars, NEW k \in Nat, \A j \in 1..(k - 1) : wire'[d][j] = wire[d][j],
         NEW life \in 1..Life(d), NEW a \in DOMAIN NamesIn(d, life), Ahead(d, life, a, k)
  PROVE  Ahead(d, life, a, k)'
<1>1. parsing' = parsing /\ misled' = misled /\ node_device_metric_alias_map' = node_device_metric_alias_map
  BY DEF mapperVars
<1>2. NamesIn(d, life)'[a] = NamesIn(d, life)[a]
  BY DEF Grows
<1>3. Knows(d, life, a) => Knows(d, life, a)'
  BY <1>1, <1>2 DEF Knows
<1>4. Ready(d, life, a) => Ready(d, life, a)'
  BY <1>1, <1>3 DEF Ready
<1>5. InHand(d, life, a) => InHand(d, life, a)'
  BY <1>1 DEF InHand
<1> QED BY <1>4, <1>5 DEF Ahead

\* A step that leaves a device and its messages alone.
Apart(d) ==
  /\ alias_name_map'[d] = alias_name_map[d] /\ past'[d] = past[d] /\ wire'[d] = wire[d] /\ said'[d] = said[d]
  /\ node_device_metric_alias_map'[CacheKey(d)] = node_device_metric_alias_map[CacheKey(d)]
  /\ (d \in misled') = (d \in misled)
  /\ parsing' = parsing \/ (parsing.device # d /\ parsing'.device # d)

LEMMA ApartKeeps == ASSUME NEW d, DeviceOK(d), Apart(d) PROVE DeviceOK(d)'
<1>1. Life(d)' = Life(d)
  BY DEF Apart, Life
<1>2. \A life : NamesIn(d, life)' = NamesIn(d, life)
  BY <1>1 DEF Apart, NamesIn
<1>3. \A life, m : Bears(d, life, m)' = Bears(d, life, m)
  BY <1>2 DEF Bears
<1>4. \A life, a : Knows(d, life, a)' = Knows(d, life, a)
  BY <1>2 DEF Apart, Knows
<1>5. \A life, a : Ready(d, life, a)' = Ready(d, life, a) /\ InHand(d, life, a)' = InHand(d, life, a)
  <2>1. CASE parsing' = parsing
    BY <1>4, <2>1 DEF Apart, Ready, InHand
  <2>2. CASE parsing.device # d /\ parsing'.device # d
    BY <1>4, <2>2 DEF Apart, Ready, InHand
  <2> QED BY <2>1, <2>2 DEF Apart
<1>6. wire'[d] = wire[d] /\ said'[d] = said[d] /\ alias_name_map'[d] = alias_name_map[d]
  BY DEF Apart
<1>7. \A life, a, k : Ahead(d, life, a, k)' = Ahead(d, life, a, k)
  BY <1>5, <1>6 DEF Ahead
<1>8. ASSUME NEW k \in 1..Len(wire[d]) PROVE MessageOK(d, k)'
  <2>1. MessageOK(d, k)
    BY DEF DeviceOK
  <2>2. MeansOK(d, k)'
    BY <1>1, <1>3, <1>6, <2>1 DEF MessageOK, MeansOK
  <2>3. OrderOK(d, k)'
    <3>1. parsing'.device = d => parsing.device = d /\ parsing'.life = parsing.life
      BY DEF Apart
    <3> QED BY <1>6, <2>1, <3>1 DEF MessageOK, OrderOK
  <2>4. ToldOK(d, k) => ToldOK(d, k)'
    BY <1>6, <1>7 DEF ToldOK
  <2> QED BY <2>1, <2>2, <2>3, <2>4 DEF MessageOK
<1>9. \A a : SaidOK(d, a) => SaidOK(d, a)'
  BY <1>1, <1>6, <1>7 DEF SaidOK
<1> QED BY <1>6, <1>8, <1>9 DEF DeviceOK

LEMMA ParsingStands ==
  ASSUME SpbInv, \A e \in Devices : Grows(e), UNCHANGED mapperVars
  PROVE  ParsingOK' /\ OutOK'
<1>1. parsing' = parsing /\ misled' = misled /\ uns' = uns /\ node_device_metric_alias_map' = node_device_metric_alias_map
  BY DEF mapperVars
<1>2. OutOK'
  BY <1>1 DEF SpbInv, OutOK
<1>3. ASSUME parsing # NoWork PROVE ParsingOK'
  <2>1. PICK d \in Devices : d = parsing.device
    BY <1>3 DEF SpbInv, SparkplugTypeOK
  <2>2. PICK life : life = parsing.life
    OBVIOUS
  <2>3. life \in Nat \ {0} /\ life <= Life(d) /\ Life(d) \in Nat /\ Life(d)' \in Nat /\ Life(d) <= Life(d)' /\ Grows(d)
    BY <1>3, <2>1, <2>2, LifeFacts DEF SpbInv, ParsingOK, SparkplugTypeOK, Grows
  <2>4. life \in 1..Life(d)
    BY <2>3
  <2>5. ASSUME NEW i \in parsing.next..Len(parsing.metrics) PROVE TurnOK(i)'
    <3>1. PICK m : m = parsing.metrics[i]
      OBVIOUS
    <3>2. TurnOK(i)
      BY <1>3 DEF SpbInv, ParsingOK
    <3>3. Bears(d, life, m) /\ Bears(d, life, m)'
      BY <2>1, <2>2, <2>3, <2>4, <3>1, <3>2, BearsStays DEF TurnOK
    <3>4. ASSUME Asks(m), Knows(d, life, m.alias) PROVE Knows(d, life, m.alias)'
      <4>1. m.alias \in DOMAIN NamesIn(d, life)
        BY <3>3, <3>4 DEF Bears, Asks
      <4> QED BY <1>1, <2>3, <2>4, <3>4, <4>1 DEF Knows, Grows
    <3> QED BY <1>1, <2>1, <2>2, <3>1, <3>2, <3>3, <3>4 DEF TurnOK
  <2>6. Mapped(d) /\ (Misleads(parsing.metrics) => d \in misled /\ parsing.guess)
    BY <1>3, <2>1 DEF SpbInv, ParsingOK
  <2>7. life <= Life(d)'
    BY <2>3
  <2> QED BY <1>1, <2>1, <2>2, <2>5, <2>6, <2>7 DEF ParsingOK
<1> QED BY <1>1, <1>2, <1>3 DEF ParsingOK

\* The metrics of a message that was composed to its end.
LEMMA ComposedMessage ==
  ASSUME SparkplugTypeOK, NEW d \in Devices, NEW list \in Lists, \A i \in 1..Len(list) : ~Raises(d, list, i),
         alias_name_map'[d] = NotedBy(d, list, Len(list)), past' = past,
         NEW ms, ms = [i \in 1..Len(list) |-> Metric(d, list, i)], NEW life, life = Life(d)
  PROVE  /\ ms \in Seq(Metrics) /\ Len(ms) = Len(list)
         /\ \A i \in 1..Len(list) : ms[i] = Metric(d, list, i) /\ Bears(d, life, ms[i])'
<1> DEFINE n == Len(list)
<1>1. n \in Nat /\ n \in 0..Len(list) /\ \A i \in 1..n : list[i] \in Composed
  BY ListFacts
<1>2. PICK after : after = NotedBy(d, list, n)
  OBVIOUS
<1>3. /\ after \in MapsOf(Aliases)
      /\ \A i \in 1..n : \A a \in Aliases : Naming(list[i], a) => a \in DOMAIN after /\ after[a] = list[i].name
      /\ \A i \in 1..n : list[i].name = NoName =>
              /\ list[i].alias \in DOMAIN after /\ list[i].alias # NoAlias
              /\ The(Noted(d, list, i, list[i].alias)) = after[list[i].alias]
  BY <1>1, <1>2, NotedByFacts
<1>4. NamesIn(d, life)' = after
  BY <1>2 DEF NamesIn, Life
<1>5. after \in [DOMAIN after -> Names] /\ DOMAIN after \subseteq Aliases
  BY <1>3, MapFacts
<1>6. ASSUME NEW i \in 1..n, NEW r, r = Metric(d, list, i)
      PROVE  r \in Metrics /\ Bears(d, life, r)'
  <2>1. PICK m \in Composed : m = list[i]
    BY <1>1
  <2>3. PICK means : means = IF m.name = NoName THEN The(Noted(d, list, i, m.alias)) ELSE m.name
    OBVIOUS
  <2>4. PICK told \in BOOLEAN : r = [name |-> m.name, alias |-> IF m.alias = NoAlias THEN 0 ELSE m.alias,
            timestamp |-> m.timestamp, datatype |-> reading.type, field |-> SetValue(reading), means |-> means,
            aliased |-> m.alias # NoAlias, told |-> told]
    BY <1>6, <2>1, <2>3 DEF Metric
  <2>5. /\ m.name \in Names \union {NoName} /\ m.timestamp \in Stamps
        /\ m.alias # NoAlias => m.alias \in Aliases
    BY ComposedFacts
  <2>6. m.name = NoName => m.alias \in DOMAIN after /\ m.alias # NoAlias /\ means = after[m.alias]
    BY <1>3, <2>1, <2>3
  <2>7. m.name # NoName /\ m.alias # NoAlias => m.alias \in DOMAIN after /\ means = after[m.alias]
    BY <1>3, <2>1, <2>3, <2>5 DEF Naming
  <2>8. means \in Names
    BY <1>5, <2>3, <2>5, <2>6
  <2>9. r \in Metrics
    BY <2>4, <2>5, <2>8 DEF Metrics
  <2>10. /\ r.aliased = (m.alias # NoAlias) /\ r.name = m.name /\ r.means = means
         /\ r.aliased => r.alias = m.alias
    BY <2>4
  <2>11. r.aliased => r.alias \in DOMAIN after /\ r.means = after[r.alias]
    BY <2>6, <2>7, <2>10
  <2>12. IF r.name = NoName THEN r.aliased ELSE r.means = r.name
    BY <2>3, <2>6, <2>10
  <2>14. Bears(d, life, r)'
    BY <1>4, <2>11, <2>12 DEF Bears
  <2> QED BY <2>9, <2>14
<1>7. \A i \in 1..n : ms[i] = Metric(d, list, i)
  OBVIOUS
<1>8. \A i \in 1..n : ms[i] \in Metrics /\ Bears(d, life, ms[i])'
  BY <1>6, <1>7
<1>9. ms \in [1..n -> Metrics]
  BY <1>8
<1> QED BY <1>1, <1>7, <1>8, <1>9

LEMMA WireTypes ==
  ASSUME SparkplugTypeOK, NEW d \in Devices
  PROVE  /\ Len(wire[d]) \in Nat /\ DOMAIN wire[d] = 1..Len(wire[d]) /\ wire[d] \in Seq(Messages)
         /\ \A k \in 1..Len(wire[d]) : /\ wire[d][k].life \in Nat \ {0} /\ Len(wire[d][k].metrics) \in Nat
                                       /\ wire[d][k].metrics \in Seq(Metrics)
<1>1. PICK w : w = wire[d]
  OBVIOUS
<1>2. w \in Seq(Messages)
  BY <1>1 DEF SparkplugTypeOK
<1>3. Len(w) \in Nat /\ DOMAIN w = 1..Len(w) /\ \A k \in 1..Len(w) : w[k] \in Messages
  BY <1>2
<1>4. \A m \in Messages : m.life \in Nat \ {0} /\ m.metrics \in Seq(Metrics) /\ Len(m.metrics) \in Nat
  BY DEF Messages
<1> QED BY <1>1, <1>2, <1>3, <1>4

\* The messages under way when the device side takes a step.
LEMMA MessagesGrow ==
  ASSUME SpbInv, NEW d \in Devices, Grows(d), UNCHANGED mapperVars, NEW k \in 1..Len(wire[d]),
         \A j \in 1..Len(wire[d]) : wire'[d][j] = wire[d][j]
  PROVE  MessageOK(d, k)'
<1>1. SparkplugTypeOK /\ MessageOK(d, k)
  BY DEF SpbInv, DeviceOK
<1>2. PICK life, metrics : life = wire[d][k].life /\ metrics = wire[d][k].metrics
  OBVIOUS
<1>3. /\ Len(wire[d]) \in Nat /\ life \in Nat \ {0} /\ Len(metrics) \in Nat /\ k \in Nat
      /\ Life(d) \in Nat /\ Life(d)' \in Nat /\ Life(d) <= Life(d)'
  <2>1. Life(d) \in Nat /\ Life(d)' \in Nat /\ Life(d) <= Life(d)'
    BY DEF Grows
  <2>2. Len(wire[d]) \in Nat /\ life \in Nat \ {0} /\ Len(metrics) \in Nat
    BY <1>1, <1>2, WireTypes
  <2> QED BY <2>1, <2>2
<1>4. wire'[d][k].life = life /\ wire'[d][k].metrics = metrics /\ \A j \in 1..(k - 1) : wire'[d][j] = wire[d][j]
  BY <1>2, <1>3
<1>5. life <= Life(d) /\ life \in 1..Life(d)
  BY <1>1, <1>2, <1>3 DEF MessageOK, MeansOK
<1>6. \A i \in 1..Len(metrics) : Bears(d, life, metrics[i]) /\ Bears(d, life, metrics[i])'
  BY <1>1, <1>2, <1>5, BearsStays DEF MessageOK, MeansOK
<1>7. MeansOK(d, k)'
  BY <1>3, <1>4, <1>5, <1>6 DEF MeansOK
<1>8. OrderOK(d, k)'
  <2>1. parsing' = parsing
    BY DEF mapperVars
  <2> QED BY <1>1, <1>2, <1>4, <2>1 DEF MessageOK, OrderOK
<1>9. ASSUME ToldOK(d, k) PROVE ToldOK(d, k)'
  <2>1. ASSUME NEW i \in 1..Len(metrics), Asks(metrics[i])
        PROVE  Tells(metrics, 1, i - 1, metrics[i].alias) \/ Ahead(d, life, metrics[i].alias, k)'
    <3>1. PICK a : a = metrics[i].alias
      OBVIOUS
    <3>2. a \in DOMAIN NamesIn(d, life)
      BY <1>6, <2>1, <3>1 DEF Bears, Asks
    <3>3. Ahead(d, life, a, k) => Ahead(d, life, a, k)'
      BY <1>3, <1>4, <1>5, <3>2, AheadGrows
    <3> QED BY <1>2, <1>9, <2>1, <3>1, <3>3 DEF ToldOK
  <2> QED BY <1>4, <2>1 DEF ToldOK
<1> QED BY <1>1, <1>7, <1>8, <1>9 DEF MessageOK, Mapped

\* What a step of the device side leaves alone.
LEMMA DeviceTypes ==
  ASSUME SparkplugTypeOK, UNCHANGED mapperVars, reading' = reading, lost' = lost,
         alias_name_map' \in [Devices -> MapsOf(Aliases)], past' \in [Devices -> Seq(MapsOf(Aliases))],
         said' \in [Devices -> SUBSET Aliases], wire' \in [Devices -> Seq(Messages)],
         sent' \in 0..MaxSent, ends' \in 0..MaxEnds
  PROVE  SparkplugTypeOK'
<1>1. /\ parsing' = parsing /\ misled' = misled /\ uns' = uns
      /\ node_device_metric_alias_map' = node_device_metric_alias_map
  BY DEF mapperVars
<1>2. Metrics' = Metrics /\ EntriesOf' = EntriesOf
  BY DEF Metrics, EntriesOf
<1>3. Messages' = Messages
  BY <1>2 DEF Messages
<1>4. \A m : Retained(m)' = Retained(m)
  BY <1>2 DEF Retained
<1>5. RetainedOn(uns)' /\ RetainedOn(parsing.out)'
  BY <1>1, <1>4 DEF SparkplugTypeOK, RetainedOn
<1> QED BY <1>1, <1>2, <1>3, <1>5 DEF SparkplugTypeOK

LEMMA NamingMetric ==
  ASSUME NEW d, NEW list, NEW i, NEW a, Naming(list[i], a), a # NoAlias
  PROVE  Metric(d, list, i).aliased /\ Naming(Metric(d, list, i), a)
<1>1. PICK r, m : r = Metric(d, list, i) /\ m = list[i]
  OBVIOUS
<1>2. /\ r.name = m.name /\ r.alias = (IF m.alias = NoAlias THEN 0 ELSE m.alias)
      /\ r.aliased = (m.alias # NoAlias)
  BY <1>1 DEF Metric
<1> QED BY <1>1, <1>2 DEF Naming

LEMMA SendKeeps ==
  ASSUME SpbInv, NEW d \in Devices, NEW type \in {"DBIRTH", "DDATA", "DCMD", "DDEATH"}, NEW list \in Lists,
         Send(d, type, list)
  PROVE  SpbInv'
<1>1. /\ SparkplugTypeOK /\ DeviceOK(d) /\ ParsingOK
      /\ past' = past /\ UNCHANGED mapperVars /\ reading' = reading /\ ends' = ends /\ lost' = lost
      /\ sent < MaxSent /\ sent' = sent + 1
  BY DEF SpbInv, Send
<1>2. PICK n \in 0..Len(list) :
       /\ \A i \in 1..n : ~Raises(d, list, i)
       /\ alias_name_map' = [alias_name_map EXCEPT ![d] = NotedBy(d, list, n)]
       /\ IF n = Len(list)
          THEN /\ wire' = [wire EXCEPT ![d] = Append(wire[d], [type |-> type, life |-> Life(d),
                             metrics |-> [i \in 1..n |-> Metric(d, list, i)]])]
               /\ said' = [said EXCEPT ![d] = said[d] \union AliasesNamed(list, n)]
          ELSE UNCHANGED <<wire, said>>
  BY DEF Send
<1>3. PICK after : after = NotedBy(d, list, n)
  OBVIOUS
<1>4. /\ after \in MapsOf(Aliases)
      /\ \A a \in DOMAIN alias_name_map[d] : a \in DOMAIN after /\ after[a] = alias_name_map[d][a]
      /\ \A i \in 1..n : \A a \in Aliases : Naming(list[i], a) => a \in DOMAIN after /\ after[a] = list[i].name
  BY <1>1, <1>2, <1>3, NotedByFacts
<1>5. /\ DOMAIN alias_name_map = Devices /\ DOMAIN wire = Devices /\ DOMAIN said = Devices
      /\ alias_name_map'[d] = after
      /\ \A e \in Devices : e # d => alias_name_map'[e] = alias_name_map[e] /\ wire'[e] = wire[e] /\ said'[e] = said[e]
  BY <1>1, <1>2, <1>3 DEF SparkplugTypeOK
<1>6. \A e \in Devices : Grows(e)
  <2>1. \A e \in Devices : \A a \in DOMAIN alias_name_map[e] :
           a \in DOMAIN alias_name_map'[e] /\ alias_name_map'[e][a] = alias_name_map[e][a]
    BY <1>4, <1>5
  <2> QED BY <1>1, <2>1, SendGrows
<1>7. ParsingOK' /\ OutOK'
  BY <1>1, <1>6, ParsingStands
<1>8. PICK w, L, N : w = wire[d] /\ L = Life(d) /\ N = Len(w)
  OBVIOUS
<1>9. N \in Nat /\ w \in Seq(Messages) /\ L \in Nat \ {0} /\ Life(d)' = L /\ n \in Nat /\ Len(list) \in Nat
  BY <1>1, <1>8, WireTypes, LifeFacts, ListFacts DEF Life
<1>10. PICK new : new = [type |-> type, life |-> L, metrics |-> [i \in 1..n |-> Metric(d, list, i)]]
  OBVIOUS
<1>11. ASSUME n = Len(list)
       PROVE  /\ new.life = L /\ new.metrics \in Seq(Metrics) /\ Len(new.metrics) = n /\ new \in Messages
              /\ \A i \in 1..n : new.metrics[i] = Metric(d, list, i) /\ Bears(d, L, new.metrics[i])'
              /\ wire'[d] = Append(w, new) /\ wire'[d] \in Seq(Messages) /\ Len(wire'[d]) = N + 1
              /\ wire'[d][N + 1] = new /\ \A j \in 1..N : wire'[d][j] = w[j]
              /\ said'[d] = said[d] \union AliasesNamed(list, n)
  <2>1. PICK ms : ms = [i \in 1..n |-> Metric(d, list, i)]
    OBVIOUS
  <2>2. /\ ms \in Seq(Metrics) /\ Len(ms) = n
        /\ \A i \in 1..n : ms[i] = Metric(d, list, i) /\ Bears(d, L, ms[i])'
    <3>1. alias_name_map'[d] = NotedBy(d, list, Len(list)) /\ ms = [i \in 1..Len(list) |-> Metric(d, list, i)]
      BY <1>3, <1>5, <1>11, <2>1
    <3> QED BY <1>1, <1>2, <1>8, <1>11, <2>1, <3>1, ComposedMessage
  <2>3. new.metrics = ms /\ new.life = L
    BY <1>10, <2>1
  <2>4. new \in Messages
    BY <1>9, <1>10, <2>1, <2>2 DEF Messages
  <2>6. wire'[d] = Append(w, new) /\ said'[d] = said[d] \union AliasesNamed(list, n)
    BY <1>2, <1>5, <1>8, <1>10, <1>11
  <2>7. /\ Append(w, new) \in Seq(Messages) /\ Len(Append(w, new)) = N + 1
        /\ Append(w, new)[N + 1] = new /\ \A j \in 1..N : Append(w, new)[j] = w[j]
    BY <1>8, <1>9, <2>4, AppendProperties
  <2> QED BY <2>2, <2>3, <2>4, <2>6, <2>7
<1>12. wire'[d] \in Seq(Messages) /\ \A j \in 1..N : wire'[d][j] = w[j]
  <2>1. CASE n = Len(list)
    BY <1>11, <2>1
  <2>2. CASE n # Len(list)
    BY <1>2, <1>8, <1>9, <2>2
  <2> QED BY <2>1, <2>2
<1>13. \A k \in 1..N : MessageOK(d, k)'
  BY <1>1, <1>6, <1>8, <1>12, MessagesGrow
<1>14. ASSUME Mapped(d), NEW a \in said[d]
       PROVE  a \in DOMAIN after /\ Ahead(d, L, a, N + 1)'
  <2>1. a \in DOMAIN alias_name_map[d] /\ Ahead(d, L, a, N + 1)
    BY <1>1, <1>8, <1>14 DEF DeviceOK, SaidOK
  <2>2. a \in DOMAIN NamesIn(d, L) /\ L \in 1..Life(d)
    BY <1>8, <1>9, <2>1 DEF NamesIn
  <2>3. Grows(d) /\ UNCHANGED mapperVars /\ N + 1 \in Nat /\ (N + 1) - 1 = N
    BY <1>1, <1>6, <1>9
  <2>4. \A j \in 1..((N + 1) - 1) : wire'[d][j] = wire[d][j]
    BY <1>8, <1>12, <2>3
  <2> QED BY <1>4, <2>1, <2>2, <2>3, <2>4, AheadGrows
<1>15. DeviceOK(d)'
  <2>1. CASE n # Len(list)
    <3>1. wire'[d] = w /\ said'[d] = said[d]
      BY <1>2, <1>8, <2>1
    <3>2. \A a : Mapped(d) /\ a \in said[d] => SaidOK(d, a)'
      BY <1>5, <1>8, <1>9, <1>14, <3>1 DEF SaidOK
    <3> QED BY <1>8, <1>13, <3>1, <3>2 DEF DeviceOK, Mapped
  <2>2. CASE n = Len(list)
    <3>1. \A k \in 1..N : w[k].life <= L /\ w[k].life \in Nat
      BY <1>1, <1>8, WireTypes DEF DeviceOK, MessageOK, MeansOK
    <3>2. parsing' = parsing /\ (parsing.device = d => parsing.life <= L)
      BY <1>1, <1>8, NamesAssumption DEF ParsingOK, NoWork, mapperVars
    <3>3. MessageOK(d, N + 1)'
      <4>1. MeansOK(d, N + 1)'
        BY <1>9, <1>11, <2>2 DEF MeansOK
      <4>2. OrderOK(d, N + 1)'
        <5>1. (N + 1) - 1 = N /\ wire'[d][N + 1].life = L
          BY <1>9, <1>11, <2>2
        <5>2. \A j \in 1..N : wire'[d][j].life <= L
          BY <1>12, <3>1
        <5> QED BY <3>2, <5>1, <5>2 DEF OrderOK
      <4>3. ASSUME Mapped(d), NEW i \in 1..n, Asks(new.metrics[i])
            PROVE  Tells(new.metrics, 1, i - 1, new.metrics[i].alias) \/ Ahead(d, L, new.metrics[i].alias, N + 1)'
        <5>1. PICK r : r = new.metrics[i]
          OBVIOUS
        <5>2. r = Metric(d, list, i) /\ Bears(d, L, r)'
          BY <1>11, <2>2, <5>1
        <5>3. PICK m : m = list[i]
          OBVIOUS
        <5>4. /\ r.name = m.name /\ r.alias = (IF m.alias = NoAlias THEN 0 ELSE m.alias)
              /\ r.aliased = (m.alias # NoAlias)
              /\ r.told = (m.name # NoName \/ m.alias \in said[d] \/ \E j \in 1..(i - 1) : Naming(list[j], m.alias))
          BY <5>2, <5>3 DEF Metric
        <5>5. m.name = NoName /\ m.alias # NoAlias /\ r.alias = m.alias
          BY <4>3, <5>1, <5>2, <5>4 DEF Asks, Bears
        <5>6. CASE m.alias \in said[d]
          BY <1>14, <4>3, <5>1, <5>5, <5>6
        <5>7. CASE \E j \in 1..(i - 1) : Naming(list[j], m.alias)
          <6>1. PICK j \in 1..(i - 1) : Naming(list[j], m.alias)
            BY <5>7
          <6>2. j \in 1..n
            BY <1>9
          <6>3. new.metrics[j] = Metric(d, list, j)
            BY <1>11, <2>2, <6>2
          <6>4. new.metrics[j].aliased /\ Naming(new.metrics[j], r.alias)
            BY <5>5, <6>1, <6>3, NamingMetric
          <6> QED BY <5>1, <6>4 DEF Tells
        <5> QED BY <4>3, <5>1, <5>4, <5>5, <5>6, <5>7 DEF Asks
      <4>4. Mapped(d) => ToldOK(d, N + 1)'
        BY <1>11, <2>2, <4>3 DEF ToldOK
      <4> QED BY <4>1, <4>2, <4>4 DEF MessageOK, Mapped
    <3>4. ASSUME Mapped(d), NEW a \in said'[d] PROVE SaidOK(d, a)'
      <4>1. \A j \in 1..((N + 2) - 1) : j \in 1..N \/ j = N + 1
        BY <1>9
      <4>2. CASE a \in said[d]
        <5>1. Ahead(d, L, a, N + 1)' => Ahead(d, L, a, N + 2)'
          <6>1. (N + 1) - 1 = N /\ (N + 2) - 1 = N + 1 /\ \A j \in 1..N : j \in 1..(N + 1)
            BY <1>9
          <6>2. wire'[d][N + 1].life = L
            BY <1>11, <2>2
          <6> QED BY <4>1, <6>1, <6>2 DEF Ahead
        <5>2. a \in DOMAIN after /\ Ahead(d, L, a, N + 2)'
          BY <1>14, <3>4, <4>2, <5>1
        <5>3. Len(wire'[d]) + 1 = N + 2
          BY <1>9, <1>11, <2>2
        <5> QED BY <1>5, <1>9, <5>2, <5>3 DEF SaidOK
      <4>3. CASE a \in AliasesNamed(list, n)
        <5>1. PICK j \in 1..n : Naming(list[j], a) /\ a \in Aliases
          BY <4>3 DEF AliasesNamed
        <5>2. a \in DOMAIN after
          BY <1>4, <5>1
        <5>3. new.metrics[j].aliased /\ Naming(new.metrics[j], a)
          <6>1. new.metrics[j] = Metric(d, list, j)
            BY <1>11, <2>2
          <6> QED BY <5>1, <6>1, AliasesAreNat, NamingMetric
        <5>4. Tells(wire'[d][N + 1].metrics, 1, Len(wire'[d][N + 1].metrics), a) /\ wire'[d][N + 1].life = L
          BY <1>11, <2>2, <5>3 DEF Tells
        <5>5. Len(wire'[d]) + 1 = N + 2 /\ N + 1 \in 1..((N + 2) - 1)
          BY <1>9, <1>11, <2>2
        <5>6. Ahead(d, L, a, N + 2)'
          BY <5>4, <5>5 DEF Ahead
        <5> QED BY <1>5, <1>9, <5>2, <5>5, <5>6 DEF SaidOK
      <4> QED BY <1>11, <2>2, <3>4, <4>2, <4>3
    <3>5. \A k \in 1..Len(wire'[d]) : k \in 1..N \/ k = N + 1
      BY <1>9, <1>11, <2>2
    <3> QED BY <1>13, <3>3, <3>4, <3>5 DEF DeviceOK, Mapped
  <2> QED BY <2>1, <2>2
<1>16. ASSUME NEW e \in Devices, e # d PROVE DeviceOK(e)'
  <2>1. Apart(e)
    BY <1>1, <1>5, <1>16 DEF Apart, mapperVars
  <2> QED BY <2>1, ApartKeeps DEF SpbInv
<1>17. SparkplugTypeOK'
  <2>1. alias_name_map' \in [Devices -> MapsOf(Aliases)]
    BY <1>1, <1>2, <1>3, <1>4 DEF SparkplugTypeOK
  <2>2. wire' \in [Devices -> Seq(Messages)]
    BY <1>1, <1>2, <1>5, <1>12 DEF SparkplugTypeOK
  <2>3. said' \in [Devices -> SUBSET Aliases]
    <3>1. AliasesNamed(list, n) \subseteq Aliases /\ said \in [Devices -> SUBSET Aliases]
      BY <1>1 DEF SparkplugTypeOK, AliasesNamed
    <3>2. CASE n = Len(list)
      BY <1>2, <3>1, <3>2
    <3> QED BY <1>2, <3>1, <3>2
  <2>4. sent' \in 0..MaxSent /\ ends' \in 0..MaxEnds /\ past' \in [Devices -> Seq(MapsOf(Aliases))]
    BY <1>1, SpbBounds DEF SparkplugTypeOK
  <2> QED BY <1>1, <2>1, <2>2, <2>3, <2>4, DeviceTypes
<1> QED BY <1>7, <1>15, <1>16, <1>17 DEF SpbInv

LEMMA RestartKeeps == ASSUME SpbInv, NEW d \in Devices, DeviceRestarts(d) PROVE SpbInv'
<1>1. /\ SparkplugTypeOK /\ ends < MaxEnds /\ ends' = ends + 1
      /\ UNCHANGED mapperVars /\ wire' = wire /\ reading' = reading /\ sent' = sent /\ lost' = lost
      /\ said' = [said EXCEPT ![d] = {}]
      /\ alias_name_map' = [alias_name_map EXCEPT ![d] = Empty]
      /\ past' = [past EXCEPT ![d] = Append(past[d], alias_name_map[d])]
  BY DEF SpbInv, DeviceRestarts
<1>2. /\ \A e \in Devices : Grows(e)
      /\ \A e \in Devices : e # d => alias_name_map'[e] = alias_name_map[e] /\ past'[e] = past[e]
  BY <1>1, RestartGrows
<1>3. ParsingOK' /\ OutOK'
  BY <1>1, <1>2, ParsingStands
<1>4. DOMAIN said = Devices /\ said'[d] = {} /\ \A e \in Devices : e # d => said'[e] = said[e]
  BY <1>1 DEF SparkplugTypeOK
<1>5. \A k \in 1..Len(wire[d]) : MessageOK(d, k)'
  BY <1>1, <1>2, MessagesGrow
<1>6. DeviceOK(d)'
  BY <1>1, <1>4, <1>5 DEF DeviceOK
<1>7. ASSUME NEW e \in Devices, e # d PROVE DeviceOK(e)'
  <2>1. Apart(e)
    BY <1>1, <1>2, <1>4, <1>7 DEF Apart, mapperVars
  <2> QED BY <2>1, ApartKeeps DEF SpbInv
<1>8. SparkplugTypeOK'
  <2>1. alias_name_map' \in [Devices -> MapsOf(Aliases)]
    BY <1>1, MapFacts DEF SparkplugTypeOK
  <2>2. past' \in [Devices -> Seq(MapsOf(Aliases))]
    <3>1. alias_name_map[d] \in MapsOf(Aliases) /\ past[d] \in Seq(MapsOf(Aliases))
      BY <1>1 DEF SparkplugTypeOK
    <3>2. Append(past[d], alias_name_map[d]) \in Seq(MapsOf(Aliases))
      BY <3>1, AppendProperties
    <3> QED BY <1>1, <3>2 DEF SparkplugTypeOK
  <2>3. said' \in [Devices -> SUBSET Aliases] /\ wire' \in [Devices -> Seq(Messages)]
    BY <1>1 DEF SparkplugTypeOK
  <2>4. sent' \in 0..MaxSent /\ ends' \in 0..MaxEnds
    BY <1>1, SpbBounds DEF SparkplugTypeOK
  <2> QED BY <1>1, <2>1, <2>2, <2>3, <2>4, DeviceTypes
<1> QED BY <1>3, <1>6, <1>7, <1>8 DEF SpbInv

-----------------------------------------------------------------------------
(* The steps of the mapper                                                  *)

\* Whatever is ahead of a place on the wire stays ahead of it when the place moves up.
AheadStays(d, shift) ==
  \A life \in Nat : \A a \in DOMAIN NamesIn(d, life) : \A k \in (1 + shift)..(Len(wire[d]) + 1) :
    /\ life <= Life(d) /\ \A j \in 1..(k - 1) : wire[d][j].life <= life
    /\ parsing.device = d => parsing.life <= life
    /\ Ahead(d, life, a, k)
    => Ahead(d, life, a, k - shift)'

LEMMA MapperKeepsDevice ==
  ASSUME SpbInv, NEW d \in Devices, UNCHANGED deviceVars, NEW shift \in {0, 1},
         wire'[d] \in Seq(Messages), Len(wire'[d]) = Len(wire[d]) - shift,
         \A k \in 1..(Len(wire[d]) - shift) : wire'[d][k] = wire[d][k + shift],
         Mapped(d) => AheadStays(d, shift),
         parsing'.device = d => \/ parsing.device = d /\ parsing'.life = parsing.life
                                \/ shift = 1 /\ parsing'.life = wire[d][1].life
  PROVE  DeviceOK(d)'
<1>1. SparkplugTypeOK /\ DeviceOK(d) /\ ParsingOK
  BY DEF SpbInv
<1>2. PICK w, L, N : w = wire[d] /\ L = Life(d) /\ N = Len(w)
  OBVIOUS
<1>3. /\ N \in Nat /\ w \in Seq(Messages) /\ L \in Nat \ {0} /\ Life(d)' = L /\ shift \in Nat
      /\ \A k \in 1..N : w[k].life \in Nat
  BY <1>1, <1>2, WireTypes, LifeFacts DEF Life, deviceVars
<1>4. /\ alias_name_map' = alias_name_map /\ said' = said /\ \A life : NamesIn(d, life)' = NamesIn(d, life)
      /\ \A life, m : Bears(d, life, m)' = Bears(d, life, m)
  BY DEF deviceVars, NamesIn, Life, Bears
<1>5. ASSUME NEW k \in 1..(N - shift) PROVE MessageOK(d, k)'
  <2>1. PICK n : n = k + shift
    OBVIOUS
  <2>2. n \in 1..N /\ k \in Nat /\ n \in (1 + shift)..(N + 1) /\ n - shift = k
    BY <1>3, <2>1
  <2>3. PICK life, metrics : life = w[n].life /\ metrics = w[n].metrics
    OBVIOUS
  <2>4. wire'[d][k].life = life /\ wire'[d][k].metrics = metrics
    BY <1>2, <2>1, <2>3
  <2>5. MessageOK(d, n)
    BY <1>1, <1>2, <2>2 DEF DeviceOK
  <2>6. life <= L /\ \A i \in 1..Len(metrics) : Bears(d, life, metrics[i])
    BY <1>2, <2>3, <2>5 DEF MessageOK, MeansOK
  <2>7. (\A j \in 1..(n - 1) : w[j].life <= life) /\ (parsing.device = d => parsing.life <= life)
    BY <1>2, <2>3, <2>5 DEF MessageOK, OrderOK
  <2>8. MeansOK(d, k)'
    BY <1>3, <1>4, <2>4, <2>6 DEF MeansOK
  <2>9. OrderOK(d, k)'
    <3>1. ASSUME NEW j \in 1..(k - 1) PROVE wire'[d][j].life <= life
      <4>1. j \in 1..(N - shift) /\ j + shift \in 1..(n - 1)
        BY <1>3, <2>1, <2>2
      <4> QED BY <1>2, <2>7, <4>1
    <3>2. ASSUME shift = 1 PROVE w[1].life <= life
      <4>1. 1 \in 1..(n - 1)
        BY <2>1, <2>2, <3>2
      <4> QED BY <2>7, <4>1
    <3> QED BY <1>2, <2>4, <2>7, <3>1, <3>2 DEF OrderOK
  <2>10. ASSUME Mapped(d), NEW i \in 1..Len(metrics), Asks(metrics[i])
         PROVE  Tells(metrics, 1, i - 1, metrics[i].alias) \/ Ahead(d, life, metrics[i].alias, k)'
    <3>1. PICK a : a = metrics[i].alias
      OBVIOUS
    <3>2. a \in DOMAIN NamesIn(d, life) /\ life \in Nat
      BY <1>3, <2>2, <2>3, <2>6, <2>10, <3>1 DEF Bears, Asks
    <3>3. Tells(metrics, 1, i - 1, a) \/ Ahead(d, life, a, n)
      BY <1>2, <2>3, <2>5, <2>10, <3>1 DEF MessageOK, ToldOK
    <3>4. Ahead(d, life, a, n) => Ahead(d, life, a, n - shift)'
      BY <1>2, <2>2, <2>6, <2>7, <2>10, <3>2 DEF AheadStays
    <3> QED BY <2>2, <3>1, <3>3, <3>4
  <2>11. Mapped(d) => ToldOK(d, k)'
    BY <2>4, <2>10 DEF ToldOK
  <2> QED BY <2>8, <2>9, <2>11 DEF MessageOK, Mapped
<1>6. ASSUME Mapped(d), NEW a \in said[d] PROVE SaidOK(d, a)'
  <2>1. a \in DOMAIN alias_name_map[d] /\ Ahead(d, L, a, N + 1)
    BY <1>1, <1>2, <1>6 DEF DeviceOK, SaidOK
  <2>2. a \in DOMAIN NamesIn(d, L) /\ L <= Life(d) /\ L \in Nat
    BY <1>2, <1>3, <2>1 DEF NamesIn
  <2>3. \A j \in 1..((N + 1) - 1) : w[j].life <= L
    BY <1>1, <1>2, <1>3 DEF DeviceOK, MessageOK, MeansOK
  <2>4. parsing.device = d => parsing.life <= L
    BY <1>1, <1>2, NamesAssumption DEF ParsingOK, NoWork
  <2>5. N + 1 \in (1 + shift)..(N + 1) /\ (N + 1) - shift = Len(wire'[d]) + 1
    <3>1. Len(wire'[d]) \in Nat
      OBVIOUS
    <3> QED BY <1>2, <1>3, <3>1
  <2>6. Ahead(d, L, a, (N + 1) - shift)'
    BY <1>2, <1>6, <2>1, <2>2, <2>3, <2>4, <2>5 DEF AheadStays
  <2>7. Ahead(d, L, a, Len(wire[d]) + 1)'
    BY <1>3, <2>5, <2>6
  <2> QED BY <1>3, <1>4, <2>1, <2>7 DEF SaidOK
<1> QED BY <1>2, <1>4, <1>5, <1>6 DEF DeviceOK, Mapped

\* The same for a step that leaves the wire alone.
LEMMA StillKeepsDevice ==
  ASSUME SpbInv, NEW d \in Devices, UNCHANGED deviceVars, wire' = wire,
         \A l \in Nat : \A a : \A k \in 1..(Len(wire[d]) + 1) :
           (\A j \in 1..(k - 1) : wire[d][j].life <= l) /\ Ahead(d, l, a, k) => Ahead(d, l, a, k)',
         parsing'.device = d => parsing.device = d /\ parsing'.life = parsing.life
  PROVE  DeviceOK(d)'
<1>1. PICK shift : shift = 0
  OBVIOUS
<1>2. wire'[d] = wire[d] /\ wire[d] \in Seq(Messages) /\ Len(wire[d]) \in Nat
  BY WireTypes DEF SpbInv
<1>3. /\ shift \in {0, 1} /\ Len(wire'[d]) = Len(wire[d]) - shift
      /\ \A k \in 1..(Len(wire[d]) - shift) : wire'[d][k] = wire[d][k + shift]
  BY <1>1, <1>2
<1>4. AheadStays(d, shift)
  <2>1. \A k \in (1 + shift)..(Len(wire[d]) + 1) : k \in 1..(Len(wire[d]) + 1) /\ k - shift = k
    BY <1>1, <1>2
  <2> QED BY <2>1 DEF AheadStays
<1> QED BY <1>2, <1>3, <1>4, MapperKeepsDevice

TypeOfParsing(p) ==
  p = NoWork \/ p \in [device : Devices, life : Nat \ {0}, metrics : Seq(Metrics), next : Nat \ {0}, out : {p.out}, guess : BOOLEAN]

LEMMA MapperTypes ==
  ASSUME SparkplugTypeOK, UNCHANGED deviceVars, UNCHANGED <<reading, sent>>, wire' \in [Devices -> Seq(Messages)],
         node_device_metric_alias_map' \in [{CacheKey(d) : d \in Devices} -> MapsOf(Aliases \union {0})],
         NEW p, p = parsing', TypeOfParsing(p), NEW o, o = p.out, RetainedOn(o), NEW u, u = uns', RetainedOn(u),
         misled' \subseteq Devices, ends' \in 0..MaxEnds, lost' \in 0..MaxLost
  PROVE  SparkplugTypeOK'
<1>1. Metrics' = Metrics /\ EntriesOf' = EntriesOf
  BY DEF Metrics, EntriesOf
<1>2. Messages' = Messages
  BY <1>1 DEF Messages
<1>3. \A m : Retained(m)' = Retained(m)
  BY <1>1 DEF Retained
<1>4. RetainedOn(uns)' /\ RetainedOn(parsing.out)'
  BY <1>3 DEF RetainedOn
<1> QED BY <1>1, <1>2, <1>4 DEF SparkplugTypeOK, deviceVars, TypeOfParsing

LEMMA ParsingTypes ==
  ASSUME SparkplugTypeOK
  PROVE  TypeOfParsing(parsing) /\ RetainedOn(parsing.out) /\ RetainedOn(uns) /\ RetainedOn(NoMessages)
         /\ (parsing # NoWork => parsing.device \in Devices) /\ NoWork.device \notin Devices /\ NoWork.out = NoMessages
<1>1. RetainedOn(NoMessages)
  BY DEF RetainedOn, NoMessages, Retained
<1>2. NoWork.device \notin Devices /\ NoWork.out = NoMessages
  BY NamesAssumption DEF NoWork
<1> QED BY <1>1, <1>2 DEF SparkplugTypeOK, TypeOfParsing

LEMMA TailFacts ==
  ASSUME NEW S, NEW w \in Seq(S), w # <<>>
  PROVE  /\ Tail(w) \in Seq(S) /\ Len(Tail(w)) = Len(w) - 1 /\ Head(w) = w[1] /\ 1 \in 1..Len(w)
         /\ \A k \in 1..(Len(w) - 1) : Tail(w)[k] = w[k + 1]
BY HeadTailProperties

\* A step of the mapper that concerns another device.
LEMMA OthersApart ==
  ASSUME SpbInv, NEW d \in Devices, UNCHANGED deviceVars, wire'[d] = wire[d],
         node_device_metric_alias_map'[CacheKey(d)] = node_device_metric_alias_map[CacheKey(d)],
         (d \in misled') = (d \in misled), parsing' = parsing \/ (parsing.device # d /\ parsing'.device # d)
  PROVE  DeviceOK(d)'
<1>1. Apart(d)
  BY DEF Apart, deviceVars
<1> QED BY <1>1, ApartKeeps DEF SpbInv

LEMMA ReceiveUnmapped == ASSUME SpbInv, NEW d \in Devices, Receive(d), ~Mapped(d) PROVE SpbInv'
<1>1. /\ SparkplugTypeOK /\ wire[d] # <<>> /\ wire' = [wire EXCEPT ![d] = Tail(wire[d])]
      /\ UNCHANGED <<parsing, misled, node_device_metric_alias_map>>
      /\ UNCHANGED deviceVars /\ UNCHANGED <<uns, reading, sent, ends, lost>>
  BY DEF Receive, SpbInv
<1>2. DOMAIN wire = Devices /\ wire[d] \in Seq(Messages)
  BY <1>1, WireTypes DEF SparkplugTypeOK
<1>3. wire'[d] = Tail(wire[d]) /\ \A e \in Devices : e # d => wire'[e] = wire[e]
  BY <1>1, <1>2
<1>4. wire'[d] \in Seq(Messages) /\ Len(wire'[d]) = Len(wire[d]) - 1 /\ \A k \in 1..(Len(wire[d]) - 1) : wire'[d][k] = wire[d][k + 1]
  BY <1>1, <1>2, <1>3, TailFacts
<1>5. DeviceOK(d)'
  <2>1. PICK shift : shift = 1
    OBVIOUS
  <2>2. shift \in {0, 1} /\ Len(wire'[d]) = Len(wire[d]) - shift /\ \A k \in 1..(Len(wire[d]) - shift) : wire'[d][k] = wire[d][k + shift]
    BY <1>4, <2>1
  <2> QED BY <1>1, <1>4, <2>2, MapperKeepsDevice
<1>6. \A e \in Devices : e # d => DeviceOK(e)'
  BY <1>1, <1>3, OthersApart
<1>7. SparkplugTypeOK'
  <2>1. wire' \in [Devices -> Seq(Messages)]
    BY <1>1, <1>2, <1>3, <1>4 DEF SparkplugTypeOK
  <2> QED BY <1>1, <2>1, MapperTypes, ParsingTypes DEF SparkplugTypeOK
<1>8. ParsingOK' /\ OutOK'
  <2>1. \A i : TurnOK(i)' = TurnOK(i)
    BY <1>1 DEF TurnOK, Bears, Knows, NamesIn, Life, deviceVars
  <2>2. ParsingOK'
    BY <1>1, <2>1 DEF ParsingOK, SpbInv, Life, deviceVars
  <2> QED BY <1>1, <2>2 DEF OutOK, SpbInv
<1> QED BY <1>5, <1>6, <1>7, <1>8 DEF SpbInv

LEMMA ReceiveMapped == ASSUME SpbInv, NEW d \in Devices, Receive(d), Mapped(d) PROVE SpbInv'
<1>1. /\ SparkplugTypeOK /\ DeviceOK(d) /\ parsing = NoWork /\ wire[d] # <<>> /\ wire' = [wire EXCEPT ![d] = Tail(wire[d])]
      /\ UNCHANGED deviceVars /\ UNCHANGED <<uns, reading, sent, ends, lost>>
  BY DEF Receive, SpbInv
<1>2. PICK msg : msg = Head(wire[d])
  OBVIOUS
<1>3. PICK fresh \in BOOLEAN : fresh <=> msg.type \in {"DBIRTH", "DDEATH"}
  OBVIOUS
<1>4. PICK deceived : /\ parsing' = [NoWork EXCEPT !.device = d, !.life = msg.life, !.metrics = msg.metrics,
                                                 !.guess = d \in deceived]
                      /\ misled' = deceived
                      /\ node_device_metric_alias_map' =
                           IF fresh THEN [node_device_metric_alias_map EXCEPT ![CacheKey(d)] = Empty]
                           ELSE node_device_metric_alias_map
                      /\ deceived = (IF Misleads(msg.metrics) THEN (IF fresh THEN misled \ {d} ELSE misled) \union {d}
                                     ELSE IF fresh THEN misled \ {d} ELSE misled)
  BY <1>2, <1>3 DEF Receive
<1>5. /\ DOMAIN wire = Devices /\ wire[d] \in Seq(Messages) /\ Len(wire[d]) \in Nat
      /\ DOMAIN node_device_metric_alias_map = {CacheKey(e) : e \in Devices}
  BY <1>1, WireTypes DEF SparkplugTypeOK
<1>6. wire'[d] = Tail(wire[d]) /\ \A e \in Devices : e # d => wire'[e] = wire[e]
  BY <1>1, <1>5
<1>7. /\ wire'[d] \in Seq(Messages) /\ Len(wire'[d]) = Len(wire[d]) - 1 /\ 1 \in 1..Len(wire[d]) /\ msg = wire[d][1]
      /\ \A k \in 1..(Len(wire[d]) - 1) : wire'[d][k] = wire[d][k + 1]
  BY <1>1, <1>2, <1>5, <1>6, TailFacts
<1>8. /\ msg.life \in Nat \ {0} /\ msg.metrics \in Seq(Metrics) /\ Len(msg.metrics) \in Nat /\ MessageOK(d, 1)
  BY <1>1, <1>7, WireTypes DEF DeviceOK
<1>9. PICK life, metrics : life = msg.life /\ metrics = msg.metrics
  OBVIOUS
<1>10. /\ parsing'.device = d /\ parsing'.life = life /\ parsing'.metrics = metrics /\ parsing'.next = 1
       /\ parsing'.out = NoMessages /\ parsing'.guess = (d \in misled') /\ parsing.device \notin Devices
  BY <1>1, <1>4, <1>9, ParsingTypes DEF NoWork
<1>11. /\ Misleads(metrics) => d \in misled'
       /\ ~fresh /\ d \in misled => d \in misled'
       /\ misled' \subseteq Devices
       /\ \A e \in Devices : e # d => ((e \in misled') = (e \in misled))
  BY <1>1, <1>4, <1>9 DEF SparkplugTypeOK
<1>12. /\ fresh => node_device_metric_alias_map'[CacheKey(d)] = Empty
       /\ ~fresh => node_device_metric_alias_map'[CacheKey(d)] = node_device_metric_alias_map[CacheKey(d)]
       /\ \A e \in Devices : e # d => node_device_metric_alias_map'[CacheKey(e)] = node_device_metric_alias_map[CacheKey(e)]
  BY <1>4, <1>5 DEF CacheKey
<1>13. \A l : NamesIn(d, l)' = NamesIn(d, l)
  BY <1>1 DEF NamesIn, Life, deviceVars
<1>14. ASSUME NEW l, NEW a, d \in misled \/ Knows(d, l, a)
       PROVE  d \in misled' \/ Knows(d, l, a)'
  <2>1. CASE fresh
    BY <1>12, <2>1, MapFacts DEF Knows
  <2>2. CASE ~fresh
    BY <1>11, <1>12, <1>13, <1>14, <2>2 DEF Knows
  <2> QED BY <2>1, <2>2
<1>15. ASSUME NEW l \in Nat, NEW a, NEW k \in 2..(Len(wire[d]) + 1), Ahead(d, l, a, k)
       PROVE  Ahead(d, l, a, k - 1)'
  <2>1. k - 1 \in Nat /\ 1 \in 1..(k - 1) /\ \A j \in 1..((k - 1) - 1) : j + 1 \in 1..(k - 1) /\ j \in 1..(Len(wire[d]) - 1)
    BY <1>5
  <2>2. CASE \E j \in 1..(k - 1) : wire[d][j].life = l /\ Tells(wire[d][j].metrics, 1, Len(wire[d][j].metrics), a)
    <3>1. PICK j \in 1..(k - 1) : wire[d][j].life = l /\ Tells(wire[d][j].metrics, 1, Len(wire[d][j].metrics), a)
      BY <2>2
    <3>2. CASE j = 1
      <4>1. InHand(d, l, a)'
        BY <1>7, <1>9, <1>10, <3>1, <3>2 DEF InHand
      <4> QED BY <4>1 DEF Ahead
    <3>3. CASE j # 1
      <4>1. j - 1 \in 1..((k - 1) - 1) /\ j - 1 \in 1..(Len(wire[d]) - 1) /\ (j - 1) + 1 = j
        BY <1>5, <3>3
      <4>2. wire'[d][j - 1] = wire[d][j]
        BY <1>7, <4>1
      <4> QED BY <3>1, <4>1, <4>2 DEF Ahead
    <3> QED BY <3>2, <3>3
  <2>3. CASE InHand(d, l, a)
    BY <1>10, <2>3 DEF InHand
  <2>4. CASE (\A j \in 1..(k - 1) : wire[d][j].life = l) /\ Ready(d, l, a)
    <3>1. life = l
      BY <1>7, <1>9, <2>1, <2>4
    <3>2. Ready(d, l, a)'
      BY <1>10, <1>14, <2>4, <3>1 DEF Ready
    <3>3. \A j \in 1..((k - 1) - 1) : wire'[d][j].life = l
      BY <1>7, <2>1, <2>4
    <3> QED BY <3>2, <3>3 DEF Ahead
  <2> QED BY <1>15, <2>2, <2>3, <2>4 DEF Ahead
<1>16. DeviceOK(d)'
  <2>1. PICK shift : shift = 1
    OBVIOUS
  <2>2. shift \in {0, 1} /\ Len(wire'[d]) = Len(wire[d]) - shift /\ \A k \in 1..(Len(wire[d]) - shift) : wire'[d][k] = wire[d][k + shift]
    BY <1>7, <2>1
  <2>3. AheadStays(d, shift)
    BY <1>15, <2>1 DEF AheadStays
  <2>4. shift = 1 /\ parsing'.life = wire[d][1].life
    BY <1>7, <1>9, <1>10, <2>1
  <2> QED BY <1>1, <1>7, <2>2, <2>3, <2>4, MapperKeepsDevice
<1>17. ASSUME NEW e \in Devices, e # d PROVE DeviceOK(e)'
  BY <1>1, <1>6, <1>10, <1>11, <1>12, <1>17, OthersApart
<1>18. SparkplugTypeOK'
  <2>1. wire' \in [Devices -> Seq(Messages)]
    BY <1>1, <1>5, <1>6, <1>7 DEF SparkplugTypeOK
  <2>2. node_device_metric_alias_map' \in [{CacheKey(e) : e \in Devices} -> MapsOf(Aliases \union {0})]
    BY <1>1, <1>4, MapFacts DEF SparkplugTypeOK
  <2>3. PICK p, o : p = parsing' /\ o = p.out
    OBVIOUS
  <2>4. TypeOfParsing(p)
    <3>1. p \in [device : Devices, life : Nat \ {0}, metrics : Seq(Metrics), next : Nat \ {0}, out : {p.out}, guess : BOOLEAN]
      <4>1. PICK g \in BOOLEAN : g <=> d \in deceived
        OBVIOUS
      <4>2. p = [device |-> d, life |-> msg.life, metrics |-> msg.metrics, next |-> 1, out |-> NoMessages, guess |-> g]
        BY <1>4, <2>3, <4>1 DEF NoWork
      <4> QED BY <1>8, <4>2
    <3> QED BY <3>1 DEF TypeOfParsing
  <2>5. RetainedOn(o) /\ RetainedOn(uns) /\ uns' = uns
    BY <1>1, <1>10, <2>3, ParsingTypes, SMTT(30)
  <2>6. misled' \subseteq Devices /\ ends' \in 0..MaxEnds /\ lost' \in 0..MaxLost
    BY <1>1, <1>11 DEF SparkplugTypeOK
  <2> QED BY <1>1, <2>1, <2>2, <2>3, <2>4, <2>5, <2>6, MapperTypes
<1>19. OutOK'
  <2>1. uns' = uns /\ \A t \in Topics : parsing'.out[t] = NoMessage
    BY <1>1, <1>10 DEF NoMessages
  <2> QED BY <2>1 DEF SpbInv, OutOK, Faithful
<1>20. ParsingOK'
  <2>1. life <= Life(d) /\ \A i \in 1..Len(metrics) : Bears(d, life, metrics[i]) /\ Bears(d, life, metrics[i])'
    <3>1. life <= Life(d) /\ \A i \in 1..Len(metrics) : Bears(d, life, metrics[i])
      BY <1>7, <1>8, <1>9 DEF MessageOK, MeansOK
    <3> QED BY <1>13, <3>1 DEF Bears
  <2>2. ASSUME NEW i \in 1..Len(metrics), Asks(metrics[i])
        PROVE  Tells(metrics, 1, i - 1, metrics[i].alias) \/ d \in misled' \/ Knows(d, life, metrics[i].alias)'
    <3>1. PICK a : a = metrics[i].alias
      OBVIOUS
    <3>2. Tells(metrics, 1, i - 1, a) \/ Ahead(d, life, a, 1)
      BY <1>7, <1>8, <1>9, <2>2, <3>1 DEF MessageOK, ToldOK
    <3>3. Ahead(d, life, a, 1) => d \in misled \/ Knows(d, life, a)
      BY <1>10 DEF Ahead, InHand, Ready
    <3> QED BY <1>14, <3>1, <3>2, <3>3
  <2>3. \A i \in 1..Len(metrics) : TurnOK(i)'
    BY <1>10, <2>1, <2>2 DEF TurnOK
  <2>4. Life(d)' = Life(d)
    BY <1>1 DEF Life, deviceVars
  <2> QED BY <1>10, <1>11, <2>1, <2>3, <2>4 DEF ParsingOK
<1> QED BY <1>16, <1>17, <1>18, <1>19, <1>20 DEF SpbInv

-----------------------------------------------------------------------------
(* A turn of the loop of handle_spb_messages                                *)

LEMMA Joined ==
  ASSUME NEW S, NEW held \in Seq(S), NEW e \in S, NEW s, s = Append(held, e) \/ s = <<e>> \o held
  PROVE  /\ s \in Seq(S)
         /\ \A i \in DOMAIN s : s[i] = e \/ \E j \in DOMAIN held : s[i] = held[j]
         /\ \E i \in DOMAIN s : s[i] = e
         /\ \A j \in DOMAIN held : \E i \in DOMAIN s : s[i] = held[j]
<1>1. Len(held) \in Nat /\ DOMAIN held = 1..Len(held)
  OBVIOUS
<1>2. CASE s = Append(held, e)
  <2>1. /\ s \in Seq(S) /\ DOMAIN s = 1..(Len(held) + 1) /\ s[Len(held) + 1] = e
        /\ \A i \in 1..Len(held) : s[i] = held[i]
    BY <1>1, <1>2, AppendProperties
  <2>2. \A i \in 1..(Len(held) + 1) : i \in 1..Len(held) \/ i = Len(held) + 1
    BY <1>1
  <2>3. Len(held) + 1 \in 1..(Len(held) + 1) /\ \A i \in 1..Len(held) : i \in 1..(Len(held) + 1)
    BY <1>1
  <2> QED BY <1>1, <2>1, <2>2, <2>3
<1>3. CASE s = <<e>> \o held
  <2>1. <<e>> \in Seq(S) /\ Len(<<e>>) = 1 /\ <<e>>[1] = e
    OBVIOUS
  <2>2. /\ s \in Seq(S) /\ DOMAIN s = 1..(Len(held) + 1) /\ s[1] = e
        /\ \A i \in 2..(Len(held) + 1) : s[i] = held[i - 1]
    BY <1>1, <1>3, <2>1, ConcatProperties
  <2>3. ASSUME NEW i \in 1..(Len(held) + 1) PROVE s[i] = e \/ \E j \in 1..Len(held) : s[i] = held[j]
    <3>1. CASE i = 1
      BY <2>2, <3>1
    <3>2. CASE i # 1
      <4>1. i \in 2..(Len(held) + 1) /\ i - 1 \in 1..Len(held)
        BY <1>1, <3>2
      <4> QED BY <2>2, <4>1
    <3> QED BY <3>1, <3>2
  <2>4. ASSUME NEW j \in 1..Len(held) PROVE \E i \in 1..(Len(held) + 1) : s[i] = held[j]
    <3>1. j + 1 \in 2..(Len(held) + 1) /\ (j + 1) - 1 = j /\ j + 1 \in 1..(Len(held) + 1)
      BY <1>1
    <3> QED BY <2>2, <3>1
  <2>5. 1 \in 1..(Len(held) + 1)
    BY <1>1
  <2> QED BY <1>1, <2>2, <2>3, <2>4, <2>5
<1> QED BY <1>2, <1>3

LEMMA EntryFacts ==
  ASSUME SparkplugTypeOK, NEW e \in EntriesOf
  PROVE  e # None /\ e.timestamp \in Nat /\ e.timestamp \in Stamps /\ e.value = GetValue(reading.type, SetValue(reading))
<1>1. /\ e = [value |-> e.value, timestamp |-> e.timestamp, means |-> e.means, guess |-> e.guess]
      /\ e.value = GetValue(reading.type, SetValue(reading)) /\ e.timestamp \in Stamps /\ e.means \in Names /\ e.guess \in BOOLEAN
  BY DEF EntriesOf
<1>2. PICK m \in Composed : e.timestamp = m.timestamp
  BY <1>1 DEF Stamps
<1>3. reading \in Readings
  BY DEF SparkplugTypeOK
<1>4. e # None
  BY <1>1, <1>2, <1>3, NoneAssumption
<1> QED BY <1>1, <1>2, <1>4, ComposedFacts

\* A metric taken into the message of a topic.
LEMMA ExtractFacts ==
  ASSUME SparkplugTypeOK, NEW t, NEW source \in Devices, NEW tag \in TagNames, NEW e \in EntriesOf,
         e.means = <<t, tag>> \/ e.guess, NEW old, Retained(old), Faithful(t, old),
         NEW new, new = Extract(old, source, tag, e)
  PROVE  Retained(new) /\ Faithful(t, new)
<1>1. e # None /\ e.timestamp \in Nat /\ e.timestamp \in Stamps
  BY EntryFacts
<1>2. CASE old = NoMessage
  <2>1. PICK tags : tags = Put(Empty, tag, <<e>>)
    OBVIOUS
  <2>2. DOMAIN tags = {tag} /\ tags[tag] = <<e>> /\ <<e>> \in Seq(EntriesOf \union {None}) /\ tags \in [{tag} -> {<<e>>}]
    BY <2>1 DEF Put, Empty
  <2>3. new = [source |-> source, timestamp |-> e.timestamp, tags |-> tags]
    BY <1>2, <2>1 DEF Extract
  <2>4. Retained(new)
    <3>1. PICK S : S = Seq(EntriesOf \union {None})
      OBVIOUS
    <3>2. tags \in [DOMAIN tags -> S]
      BY <2>2, <3>1
    <3>3. new \in [source : Devices, timestamp : Stamps, tags : {new.tags}] /\ new.tags = tags
      BY <1>1, <2>3
    <3> QED BY <2>2, <3>1, <3>2, <3>3 DEF Retained
  <2>5. DOMAIN <<e>> = {1} /\ <<e>>[1] = e
    OBVIOUS
  <2>6. Faithful(t, new)
    BY <1>1, <2>2, <2>3, <2>5 DEF Faithful
  <2> QED BY <2>4, <2>6
<1>3. CASE old # NoMessage
  <2>1. PICK rows, time : rows = old.tags /\ time = old.timestamp
    OBVIOUS
  <2>2. /\ rows \in [DOMAIN rows -> Seq(EntriesOf \union {None})] /\ DOMAIN rows \subseteq TagNames
        /\ time \in Stamps /\ time \in Nat
    <3>1. rows \in [DOMAIN rows -> Seq(EntriesOf \union {None})] /\ DOMAIN rows \subseteq TagNames /\ time \in Stamps
      BY <1>3, <2>1 DEF Retained
    <3>2. \A x \in Stamps : x \in Nat
      BY ComposedFacts DEF Stamps
    <3> QED BY <3>1, <3>2
  <2>3. /\ \A g \in DOMAIN rows : \A i \in DOMAIN rows[g] :
             rows[g][i] # None => rows[g][i].timestamp <= time /\ (rows[g][i].means = <<t, g>> \/ rows[g][i].guess)
        /\ \E g \in DOMAIN rows : \E i \in DOMAIN rows[g] : rows[g][i] # None /\ rows[g][i].timestamp = time
    BY <1>3, <2>1 DEF Faithful
  <2>4. PICK held : held = IF tag \in DOMAIN rows THEN rows[tag] ELSE <<None>>
    OBVIOUS
  <2>5. held \in Seq(EntriesOf \union {None})
    <3>1. CASE tag \in DOMAIN rows
      BY <2>2, <2>4, <3>1
    <3>2. <<None>> \in Seq(EntriesOf \union {None})
      OBVIOUS
    <3> QED BY <2>4, <3>1, <3>2
  <2>6. \A i \in DOMAIN held : held[i] # None => held[i].timestamp <= time /\ (held[i].means = <<t, tag>> \/ held[i].guess)
    BY <2>3, <2>4
  <2>7. PICK s : s = IF time > e.timestamp THEN Append(held, e) ELSE <<e>> \o held
    OBVIOUS
  <2>8. PICK now : now = IF time > e.timestamp THEN time ELSE e.timestamp
    OBVIOUS
  <2>9. now \in Nat /\ now \in Stamps /\ time <= now /\ e.timestamp <= now /\ (now = e.timestamp \/ now = time)
    BY <1>1, <2>2, <2>8
  <2>10. PICK tags : tags = Put(rows, tag, s)
    OBVIOUS
  <2>11. new = [source |-> source, timestamp |-> now, tags |-> tags]
    BY <1>3, <2>1, <2>4, <2>7, <2>8, <2>10 DEF Extract
  <2>12. /\ s \in Seq(EntriesOf \union {None})
         /\ \A i \in DOMAIN s : s[i] = e \/ \E j \in DOMAIN held : s[i] = held[j]
         /\ \E i \in DOMAIN s : s[i] = e
         /\ \A j \in DOMAIN held : \E i \in DOMAIN s : s[i] = held[j]
    <3>1. s = Append(held, e) \/ s = <<e>> \o held
      BY <2>7
    <3>2. e \in EntriesOf \union {None}
      OBVIOUS
    <3> QED BY <2>5, <3>1, <3>2, Joined, SMTT(30)
  <2>13. /\ DOMAIN tags = DOMAIN rows \union {tag} /\ tags[tag] = s
         /\ \A g \in DOMAIN rows : g # tag => tags[g] = rows[g]
         /\ tags \in [DOMAIN tags -> Seq(EntriesOf \union {None})]
    BY <2>2, <2>10, <2>12 DEF Put
  <2>14. Retained(new)
    BY <2>2, <2>9, <2>11, <2>13 DEF Retained
  <2>15. ASSUME NEW g \in DOMAIN tags, NEW i \in DOMAIN tags[g], tags[g][i] # None
         PROVE  tags[g][i].timestamp <= now /\ (tags[g][i].means = <<t, g>> \/ tags[g][i].guess)
    <3>1. PICK x \in EntriesOf : x = tags[g][i]
      BY <2>13, <2>15
    <3>2. x.timestamp \in Nat
      BY EntryFacts
    <3>3. CASE g # tag
      <4>1. x.timestamp <= time /\ (x.means = <<t, g>> \/ x.guess)
        BY <2>3, <2>13, <2>15, <3>1, <3>3
      <4> QED BY <2>2, <2>9, <3>1, <3>2, <4>1
    <3>4. CASE g = tag
      <4>1. x = e \/ \E j \in DOMAIN held : x = held[j]
        BY <2>12, <2>13, <3>1, <3>4
      <4>2. CASE x = e
        BY <2>9, <3>1, <3>4, <4>2
      <4>3. CASE \E j \in DOMAIN held : x = held[j]
        <5>1. x.timestamp <= time /\ (x.means = <<t, tag>> \/ x.guess)
          BY <2>6, <2>15, <3>1, <4>3
        <5> QED BY <2>2, <2>9, <3>1, <3>2, <3>4, <5>1
      <4> QED BY <4>1, <4>2, <4>3
    <3> QED BY <3>3, <3>4
  <2>16. \E g \in DOMAIN tags : \E i \in DOMAIN tags[g] : tags[g][i] # None /\ tags[g][i].timestamp = now
    <3>1. CASE now = e.timestamp
      BY <1>1, <2>12, <2>13, <3>1
    <3>2. CASE now = time
      <4>1. PICK g \in DOMAIN rows : \E i \in DOMAIN rows[g] : rows[g][i] # None /\ rows[g][i].timestamp = time
        BY <2>3
      <4>2. PICK i \in DOMAIN rows[g] : rows[g][i] # None /\ rows[g][i].timestamp = time
        BY <4>1
      <4>3. CASE g # tag
        BY <2>13, <3>2, <4>2, <4>3
      <4>4. CASE g = tag
        <5>1. PICK j \in DOMAIN s : s[j] = rows[g][i]
          BY <2>4, <2>12, <4>2, <4>4
        <5> QED BY <2>13, <3>2, <4>2, <5>1
      <4> QED BY <4>3, <4>4
    <3> QED BY <2>9, <3>1, <3>2
  <2>17. Faithful(t, new)
    BY <2>11, <2>15, <2>16 DEF Faithful
  <2> QED BY <2>14, <2>17
<1> QED BY <1>2, <1>3

LEMMA NamedFacts ==
  ASSUME NEW name \in Named
  PROVE  name = <<name[1], name[2]>> /\ name[1] \in Topics /\ name[2] \in TagNames
<1>1. name \in Seq({name[i] : i \in DOMAIN name}) /\ Len(name) = 2
  BY NamesAssumption DEF Named
<1> QED BY <1>1 DEF Topics, TagNames

LEMMA HandleKeeps == ASSUME SpbInv, HandleMetric PROVE SpbInv'
<1>1. /\ SparkplugTypeOK /\ ParsingOK /\ OutOK /\ parsing.next \in DOMAIN parsing.metrics
      /\ UNCHANGED deviceVars /\ UNCHANGED <<wire, uns, reading, sent, ends, lost>>
  BY DEF HandleMetric, SpbInv
<1>2. parsing # NoWork
  BY <1>1 DEF NoWork
<1>3. PICK d \in Devices : d = parsing.device
  BY <1>1, <1>2, ParsingTypes
<1>4. PICK life, metrics, next, guess, out :
        life = parsing.life /\ metrics = parsing.metrics /\ next = parsing.next /\ guess = parsing.guess /\ out = parsing.out
  OBVIOUS
<1>5. /\ parsing = [device |-> d, life |-> life, metrics |-> metrics, next |-> next, out |-> out, guess |-> guess]
      /\ life \in Nat \ {0} /\ metrics \in Seq(Metrics) /\ next \in Nat \ {0} /\ guess \in BOOLEAN
      /\ Len(metrics) \in Nat /\ next \in 1..Len(metrics) /\ next + 1 \in Nat \ {0}
  <2>1. parsing \in [device : Devices, life : Nat \ {0}, metrics : Seq(Metrics), next : Nat \ {0}, out : {parsing.out}, guess : BOOLEAN]
    BY <1>1, <1>2 DEF SparkplugTypeOK
  <2>2. life \in Nat \ {0} /\ metrics \in Seq(Metrics) /\ next \in Nat \ {0} /\ guess \in BOOLEAN
    BY <1>4, <2>1
  <2>3. parsing = [device |-> d, life |-> life, metrics |-> metrics, next |-> next, out |-> out, guess |-> guess]
    BY <1>3, <1>4, <2>1
  <2> QED BY <1>1, <1>4, <2>2, <2>3
<1>6. PICK m \in Metrics : m = metrics[next]
  BY <1>5
<1>7. PICK names : names = node_device_metric_alias_map[CacheKey(d)]
  OBVIOUS
<1>8. PICK after, name : after = SaveAlias(names, m) /\ name = NameOf(names, m)
  OBVIOUS
<1>9. PICK e : e = Entry(m, guess \/ ~m.told)
  OBVIOUS
<1>10. /\ node_device_metric_alias_map' = [node_device_metric_alias_map EXCEPT ![CacheKey(d)] = after]
       /\ IF name \in Named
          THEN /\ parsing' = [parsing EXCEPT !.next = next + 1, !.out[name[1]] = Extract(out[name[1]], d, name[2], e)]
               /\ misled' = misled
          ELSE /\ parsing' = NoWork
               /\ misled' = IF NamesSome(metrics, next + 1) THEN misled \union {d} ELSE misled
  BY <1>3, <1>4, <1>6, <1>7, <1>8, <1>9 DEF HandleMetric
<1>11. /\ DOMAIN node_device_metric_alias_map = {CacheKey(c) : c \in Devices}
       /\ node_device_metric_alias_map'[CacheKey(d)] = after
       /\ \A c \in Devices : c # d => node_device_metric_alias_map'[CacheKey(c)] = node_device_metric_alias_map[CacheKey(c)]
  BY <1>1, <1>10 DEF SparkplugTypeOK, CacheKey
<1>12. \A l : NamesIn(d, l)' = NamesIn(d, l)
  BY <1>1 DEF NamesIn, Life, deviceVars
<1>13. /\ Mapped(d) /\ life <= Life(d)
       /\ Misleads(metrics) => d \in misled /\ guess
       /\ \A i \in next..Len(metrics) : TurnOK(i)
  BY <1>1, <1>2, <1>3, <1>4 DEF ParsingOK
<1>14. Bears(d, life, m) /\ (Asks(m) => guess \/ Knows(d, life, m.alias))
  <2>1. TurnOK(next) /\ \A a : ~Tells(metrics, next, next - 1, a)
    BY <1>5, <1>13 DEF Tells
  <2> QED BY <1>3, <1>4, <1>6, <2>1 DEF TurnOK
<1>15. ~m.aliased /\ m.name # NoName => d \in misled /\ guess
  <2>1. next \in DOMAIN metrics
    BY <1>5
  <2> QED BY <1>6, <1>13, <2>1 DEF Misleads
<1>16. ASSUME NEW a, Knows(d, life, a) PROVE Knows(d, life, a)' \/ (d \in misled /\ guess)
  <2>1. a \in DOMAIN names => names[a] = NamesIn(d, life)[a]
    BY <1>7, <1>16 DEF Knows
  <2>2. CASE m.name = NoName
    BY <1>8, <1>11, <1>12, <2>1, <2>2 DEF SaveAlias, Knows
  <2>3. CASE m.name # NoName /\ a # m.alias
    <3>1. a \in DOMAIN after => a \in DOMAIN names /\ after[a] = names[a]
      BY <1>8, <2>3 DEF SaveAlias, Put
    <3> QED BY <1>11, <1>12, <2>1, <3>1 DEF Knows
  <2>4. CASE m.name # NoName /\ a = m.alias /\ m.aliased
    <3>1. after[a] = m.name
      BY <1>8, <2>4 DEF SaveAlias, Put
    <3>2. m.name = NamesIn(d, life)[a]
      BY <1>14, <2>4 DEF Bears
    <3> QED BY <1>11, <1>12, <3>1, <3>2 DEF Knows
  <2> QED BY <1>15, <2>2, <2>3, <2>4
<1>17. ASSUME NEW a, m.aliased, Naming(m, a) PROVE Knows(d, life, a)'
  <2>1. after[a] = m.name
    BY <1>8, <1>17 DEF SaveAlias, Put, Naming
  <2>2. m.name = NamesIn(d, life)[a]
    BY <1>14, <1>17 DEF Bears, Naming
  <2> QED BY <1>11, <1>12, <2>1, <2>2 DEF Knows
<1>18. /\ misled \subseteq misled' /\ misled' \subseteq Devices /\ \A c : c # d => ((c \in misled') = (c \in misled))
       /\ parsing'.device = d => parsing'.life = life /\ parsing'.metrics = metrics /\ parsing'.next = next + 1 /\ name \in Named
       /\ parsing'.device # d => parsing' = NoWork /\ (NamesSome(metrics, next + 1) => d \in misled')
       /\ name \in Named => parsing'.device = d
       /\ \A c \in Devices : c # d => parsing'.device # c
  <2>1. CASE name \in Named
    <3>1. /\ parsing'.device = d /\ parsing'.life = life /\ parsing'.metrics = metrics /\ parsing'.next = next + 1
          /\ misled' = misled
      BY <1>5, <1>10, <2>1
    <3> QED BY <1>1, <2>1, <3>1 DEF SparkplugTypeOK
  <2>2. CASE name \notin Named
    <3>1. parsing' = NoWork /\ parsing'.device \notin Devices
      BY <1>1, <1>10, <2>2, ParsingTypes
    <3> QED BY <1>1, <1>10, <2>2, <3>1 DEF SparkplugTypeOK
  <2> QED BY <2>1, <2>2
<1>19. ASSUME NEW l \in Nat, NEW a, NEW k \in 1..(Len(wire[d]) + 1), \A j \in 1..(k - 1) : wire[d][j].life <= l,
              Ahead(d, l, a, k)
       PROVE  Ahead(d, l, a, k)'
  <2>1. Len(wire[d]) \in Nat /\ \A j \in 1..(k - 1) : j \in 1..Len(wire[d]) /\ wire[d][j].life \in Nat
    <3>1. Len(wire[d]) \in Nat /\ \A j \in 1..Len(wire[d]) : wire[d][j].life \in Nat
      BY <1>1, WireTypes
    <3> QED BY <3>1
  <2>2. wire'[d] = wire[d]
    BY <1>1
  <2>3. \A j \in 1..(k - 1) : life <= wire[d][j].life
    BY <1>3, <1>4, <2>1 DEF SpbInv, DeviceOK, MessageOK, OrderOK
  <2>4. Ready(d, l, a)' /\ (\A j \in 1..(k - 1) : wire[d][j].life = l) => Ahead(d, l, a, k)'
    BY <2>2 DEF Ahead
  <2>5. CASE \E j \in 1..(k - 1) : wire[d][j].life = l /\ Tells(wire[d][j].metrics, 1, Len(wire[d][j].metrics), a)
    BY <2>2, <2>5 DEF Ahead
  <2>6. CASE InHand(d, l, a)
    <3>1. life = l /\ Tells(metrics, next, Len(metrics), a)
      BY <1>3, <1>4, <2>6 DEF InHand
    <3>2. \A j \in 1..(k - 1) : wire[d][j].life = l
      BY <1>5, <1>19, <2>1, <2>3, <3>1
    <3>3. PICK i \in next..Len(metrics) : metrics[i].aliased /\ Naming(metrics[i], a)
      BY <3>1 DEF Tells
    <3>4. CASE i = next
      <4>1. Knows(d, l, a)'
        BY <1>6, <1>17, <3>1, <3>3, <3>4
      <4> QED BY <1>18, <2>4, <3>1, <3>2, <4>1 DEF Ready
    <3>5. CASE i # next
      <4>1. i \in (next + 1)..Len(metrics)
        BY <1>5, <3>5
      <4>2. CASE parsing'.device = d
        <5>1. InHand(d, l, a)'
          BY <1>18, <3>1, <3>3, <4>1, <4>2 DEF InHand, Tells
        <5> QED BY <5>1 DEF Ahead
      <4>3. CASE parsing'.device # d
        <5>1. NamesSome(metrics, next + 1)
          BY <3>3, <4>1 DEF NamesSome, Naming
        <5> QED BY <1>18, <2>4, <3>2, <4>3, <5>1 DEF Ready
      <4> QED BY <4>2, <4>3
    <3> QED BY <3>4, <3>5
  <2>7. CASE (\A j \in 1..(k - 1) : wire[d][j].life = l) /\ Ready(d, l, a)
    <3>1. d \in misled \/ (life = l /\ Knows(d, l, a))
      BY <1>3, <1>4, <2>7 DEF Ready
    <3>2. Ready(d, l, a)'
      BY <1>16, <1>18, <3>1 DEF Ready
    <3> QED BY <2>4, <2>7, <3>2
  <2> QED BY <1>19, <2>5, <2>6, <2>7 DEF Ahead
<1>20. DeviceOK(d)'
  <2>1. parsing'.device = d => parsing.device = d /\ parsing'.life = parsing.life
    BY <1>3, <1>4, <1>18
  <2> QED BY <1>1, <1>19, <2>1, StillKeepsDevice
<1>21. ASSUME NEW c \in Devices, c # d PROVE DeviceOK(c)'
  BY <1>1, <1>3, <1>11, <1>18, <1>21, OthersApart
<1>22. ParsingOK'
  <2>1. CASE name \notin Named
    BY <1>10, <2>1 DEF ParsingOK
  <2>2. CASE name \in Named
    <3>1. /\ parsing'.device = d /\ parsing'.life = life /\ parsing'.metrics = metrics /\ parsing'.next = next + 1
          /\ parsing'.guess = guess
      BY <1>5, <1>10, <2>2
    <3>2. ASSUME NEW i \in (next + 1)..Len(metrics) PROVE TurnOK(i)'
      <4>1. PICK r : r = metrics[i]
        OBVIOUS
      <4>2. i \in next..Len(metrics)
        BY <1>5
      <4>3. /\ Bears(d, life, r)
            /\ Asks(r) => Tells(metrics, next, i - 1, r.alias) \/ guess \/ Knows(d, life, r.alias)
        BY <1>3, <1>4, <1>13, <4>1, <4>2 DEF TurnOK
      <4>4. Bears(d, life, r)'
        BY <1>12, <4>3 DEF Bears
      <4>5. ASSUME Tells(metrics, next, i - 1, r.alias)
            PROVE  Tells(metrics, next + 1, i - 1, r.alias) \/ Knows(d, life, r.alias)'
        <5>1. PICK j \in next..(i - 1) : metrics[j].aliased /\ Naming(metrics[j], r.alias)
          BY <4>5 DEF Tells
        <5>2. CASE j = next
          BY <1>6, <1>17, <5>1, <5>2
        <5>3. CASE j # next
          <6>1. j \in (next + 1)..(i - 1)
            BY <1>5, <5>3
          <6> QED BY <5>1, <6>1 DEF Tells
        <5> QED BY <5>2, <5>3
      <4>6. Asks(r) => Tells(metrics, next + 1, i - 1, r.alias) \/ guess \/ Knows(d, life, r.alias)'
        BY <1>16, <4>3, <4>5
      <4> QED BY <3>1, <4>1, <4>4, <4>6 DEF TurnOK
    <3>3. Life(d)' = Life(d) /\ (Misleads(metrics) => d \in misled' /\ guess)
      BY <1>1, <1>13, <1>18 DEF Life, deviceVars
    <3> QED BY <1>13, <3>1, <3>2, <3>3 DEF ParsingOK
  <2> QED BY <2>1, <2>2
<1>23. e \in EntriesOf
  <2>1. /\ m.datatype = reading.type /\ m.field = SetValue(reading) /\ m.timestamp \in Stamps /\ m.means \in Names
        /\ m.told \in BOOLEAN
    BY DEF Metrics
  <2>2. PICK g \in BOOLEAN : g <=> guess \/ ~m.told
    OBVIOUS
  <2>3. e = [value |-> GetValue(reading.type, SetValue(reading)), timestamp |-> m.timestamp, means |-> m.means, guess |-> g]
    BY <1>9, <2>1, <2>2 DEF Entry
  <2> QED BY <2>1, <2>3 DEF EntriesOf
<1>24. ASSUME name \in Named PROVE e.means = name \/ e.guess
  <2>1. e.means = m.means /\ (e.guess <=> guess \/ ~m.told)
    BY <1>9 DEF Entry
  <2>2. CASE m.name # NoName
    BY <1>8, <1>14, <2>1, <2>2 DEF NameOf, Bears
  <2>3. CASE m.name = NoName /\ m.told
    <3>1. m.alias \in DOMAIN names /\ name = names[m.alias]
      <4>1. name # NoName
        BY <1>24, NamesAssumption DEF Named
      <4> QED BY <1>8, <2>3, <4>1 DEF NameOf
    <3>2. guess \/ name = NamesIn(d, life)[m.alias]
      BY <1>7, <1>14, <2>3, <3>1 DEF Asks, Knows
    <3>3. m.means = NamesIn(d, life)[m.alias]
      BY <1>14, <2>3 DEF Bears
    <3> QED BY <2>1, <3>2, <3>3
  <2> QED BY <2>1, <2>2, <2>3
<1>25. PICK o : o = parsing'.out
  OBVIOUS
<1>26. RetainedOn(o) /\ \A t \in Topics : Faithful(t, o[t])
  <2>1. CASE name \notin Named
    <3>1. o = NoMessages
      BY <1>1, <1>10, <1>25, <2>1, ParsingTypes
    <3> QED BY <1>1, <3>1, ParsingTypes DEF NoMessages, Faithful
  <2>2. CASE name \in Named
    <3>1. name = <<name[1], name[2]>> /\ name[1] \in Topics /\ name[2] \in TagNames
      BY <2>2, NamedFacts
    <3>2. RetainedOn(out) /\ \A t \in Topics : Faithful(t, out[t]) /\ Retained(out[t])
      BY <1>1, <1>4 DEF SparkplugTypeOK, RetainedOn, OutOK
    <3>3. PICK t, tag : t = name[1] /\ tag = name[2]
      OBVIOUS
    <3>4. PICK old, new : old = out[t] /\ new = Extract(old, d, tag, e)
      OBVIOUS
    <3>5. e.means = <<t, tag>> \/ e.guess
      BY <1>24, <2>2, <3>1, <3>3
    <3>6. Retained(new) /\ Faithful(t, new)
      BY <1>1, <1>23, <3>1, <3>2, <3>3, <3>4, <3>5, ExtractFacts
    <3>7. o = [out EXCEPT ![t] = new]
      BY <1>5, <1>10, <1>25, <2>2, <3>3, <3>4
    <3>8. out = [s \in Topics |-> out[s]]
      BY <3>2 DEF RetainedOn
    <3>9. o = [s \in Topics |-> o[s]] /\ o[t] = new /\ \A s \in Topics : s # t => o[s] = out[s]
      BY <3>1, <3>3, <3>7, <3>8
    <3> QED BY <3>2, <3>6, <3>9 DEF RetainedOn
  <2> QED BY <2>1, <2>2
<1>27. OutOK'
  BY <1>1, <1>25, <1>26 DEF OutOK
<1>28. SparkplugTypeOK'
  <2>1. after \in MapsOf(Aliases \union {0})
    <3>1. names \in MapsOf(Aliases \union {0})
      BY <1>1, <1>7 DEF SparkplugTypeOK
    <3>2. m.name \in Names \union {NoName} /\ m.alias \in Aliases \union {0}
      BY DEF Metrics
    <3>3. CASE m.name = NoName
      BY <1>8, <3>1, <3>3 DEF SaveAlias
    <3>4. CASE m.name # NoName
      <4>1. names \in [DOMAIN names -> Names] /\ DOMAIN names \subseteq Aliases \union {0}
        BY <3>1, MapFacts
      <4>2. after = [y \in DOMAIN names \union {m.alias} |-> IF y = m.alias THEN m.name ELSE names[y]]
        BY <1>8, <3>4 DEF SaveAlias, Put
      <4>3. after \in [DOMAIN names \union {m.alias} -> Names]
        BY <3>2, <3>4, <4>1, <4>2
      <4>4. DOMAIN names \union {m.alias} \in SUBSET (Aliases \union {0})
        BY <3>2, <4>1
      <4> QED BY <4>3, <4>4, MapFacts
    <3> QED BY <3>3, <3>4
  <2>2. node_device_metric_alias_map' \in [{CacheKey(c) : c \in Devices} -> MapsOf(Aliases \union {0})]
    BY <1>1, <1>10, <2>1 DEF SparkplugTypeOK
  <2>3. PICK p : p = parsing' /\ o = p.out
    BY <1>25
  <2>4. TypeOfParsing(p)
    <3>1. CASE name \notin Named
      BY <1>10, <2>3, <3>1 DEF TypeOfParsing
    <3>2. CASE name \in Named
      <4>1. p = [device |-> d, life |-> life, metrics |-> metrics, next |-> next + 1, out |-> p.out, guess |-> guess]
        BY <1>5, <1>10, <2>3, <3>2
      <4>2. p \in [device : Devices, life : Nat \ {0}, metrics : Seq(Metrics), next : Nat \ {0}, out : {p.out}, guess : BOOLEAN]
        BY <1>5, <4>1
      <4> QED BY <4>2 DEF TypeOfParsing
    <3> QED BY <3>1, <3>2
  <2>5. PICK u : u = uns' /\ u = uns
    BY <1>1
  <2>6. RetainedOn(u)
    BY <1>1, <2>5 DEF SparkplugTypeOK
  <2>7. wire' \in [Devices -> Seq(Messages)] /\ ends' \in 0..MaxEnds /\ lost' \in 0..MaxLost /\ misled' \subseteq Devices
    BY <1>1, <1>18 DEF SparkplugTypeOK
  <2> QED BY <1>1, <1>26, <2>2, <2>3, <2>4, <2>5, <2>6, <2>7, MapperTypes
<1> QED BY <1>3, <1>20, <1>21, <1>22, <1>27, <1>28 DEF SpbInv

-----------------------------------------------------------------------------
(* Publication, a restart of the mapper, a loss                             *)

LEMMA NoWorkFacts ==
  ASSUME SparkplugTypeOK
  PROVE  TypeOfParsing(NoWork) /\ RetainedOn(NoWork.out) /\ \A t \in Topics : Faithful(t, NoWork.out[t])
<1>1. NoWork.out = NoMessages /\ RetainedOn(NoMessages)
  BY ParsingTypes
<1> QED BY <1>1 DEF TypeOfParsing, NoMessages, Faithful

LEMMA PublishKeeps == ASSUME SpbInv, PublishToUns PROVE SpbInv'
<1>1. /\ SparkplugTypeOK /\ OutOK /\ parsing # NoWork /\ parsing.next > Len(parsing.metrics) /\ parsing' = NoWork
      /\ uns' = [t \in Topics |-> IF parsing.out[t] # NoMessage THEN parsing.out[t] ELSE uns[t]]
      /\ UNCHANGED deviceVars /\ UNCHANGED <<wire, node_device_metric_alias_map, misled, reading, sent, ends, lost>>
  BY DEF SpbInv, PublishToUns
<1>2. NoWork.device \notin Devices
  BY <1>1, ParsingTypes
<1>3. parsing.next \in Nat /\ Len(parsing.metrics) \in Nat
  <2>1. parsing \in [device : Devices, life : Nat \ {0}, metrics : Seq(Metrics), next : Nat \ {0}, out : {parsing.out}, guess : BOOLEAN]
    BY <1>1 DEF SparkplugTypeOK
  <2>2. parsing.next \in Nat /\ parsing.metrics \in Seq(Metrics)
    BY <2>1
  <2> QED BY <2>2
<1>4. ASSUME NEW d \in Devices PROVE DeviceOK(d)'
  <2>1. \A l, a : ~InHand(d, l, a)
    BY <1>1, <1>3 DEF InHand, Tells
  <2>2. \A l, a : Ready(d, l, a) => Ready(d, l, a)'
    BY <1>1, <1>2 DEF Ready, Knows, NamesIn, Life, deviceVars
  <2>3. \A l, a, k : Ahead(d, l, a, k) => Ahead(d, l, a, k)'
    BY <1>1, <2>1, <2>2 DEF Ahead
  <2> QED BY <1>1, <1>2, <2>3, StillKeepsDevice
<1>5. PICK u : u = uns'
  OBVIOUS
<1>6. u = [t \in Topics |-> u[t]] /\ \A t \in Topics : u[t] = parsing.out[t] \/ u[t] = uns[t]
  BY <1>1, <1>5
<1>7. OutOK'
  <2>1. \A t \in Topics : Faithful(t, u[t])
    BY <1>1, <1>6 DEF OutOK
  <2> QED BY <1>1, <1>5, <2>1, NoWorkFacts DEF OutOK
<1>8. SparkplugTypeOK'
  <2>1. RetainedOn(u)
    BY <1>1, <1>6 DEF SparkplugTypeOK, RetainedOn
  <2>2. PICK p, o : p = parsing' /\ o = p.out
    OBVIOUS
  <2>3. TypeOfParsing(p) /\ RetainedOn(o)
    BY <1>1, <2>2, NoWorkFacts
  <2> QED BY <1>1, <1>5, <2>1, <2>2, <2>3, MapperTypes DEF SparkplugTypeOK
<1>9. ParsingOK'
  BY <1>1 DEF ParsingOK
<1> QED BY <1>4, <1>7, <1>8, <1>9 DEF SpbInv

LEMMA MapperRestartsKeeps == ASSUME SpbInv, MapperRestarts PROVE SpbInv'
<1>1. /\ SparkplugTypeOK /\ OutOK /\ ends < MaxEnds /\ ends' = ends + 1 /\ parsing' = NoWork /\ misled' = {}
      /\ node_device_metric_alias_map' = [key \in DOMAIN node_device_metric_alias_map |-> Empty]
      /\ UNCHANGED deviceVars /\ UNCHANGED <<wire, uns, reading, sent, lost>>
  BY DEF SpbInv, MapperRestarts
<1>2. NoWork.device \notin Devices /\ DOMAIN node_device_metric_alias_map = {CacheKey(d) : d \in Devices}
  BY <1>1, ParsingTypes DEF SparkplugTypeOK
<1>3. ASSUME NEW d \in Devices PROVE DeviceOK(d)'
  <2>1. \A l, a : Ready(d, l, a)'
    <3>1. node_device_metric_alias_map'[CacheKey(d)] = Empty
      BY <1>1, <1>2
    <3> QED BY <1>1, <1>2, <3>1, MapFacts DEF Ready, Knows
  <2>2. ASSUME NEW l \in Nat, NEW a, NEW k \in 1..(Len(wire[d]) + 1), \A j \in 1..(k - 1) : wire[d][j].life <= l,
               Ahead(d, l, a, k)
        PROVE  Ahead(d, l, a, k)'
    <3>1. (\A j \in 1..(k - 1) : wire[d][j].life = l) => Ahead(d, l, a, k)'
      BY <1>1, <2>1 DEF Ahead
    <3>2. CASE InHand(d, l, a)
      <4>1. Len(wire[d]) \in Nat /\ \A j \in 1..Len(wire[d]) : wire[d][j].life \in Nat
        BY <1>1, WireTypes
      <4>2. \A j \in 1..(k - 1) : j \in 1..Len(wire[d])
        BY <4>1
      <4>3. \A j \in 1..(k - 1) : l <= wire[d][j].life
        BY <3>2, <4>2 DEF SpbInv, DeviceOK, MessageOK, OrderOK, InHand
      <4> QED BY <2>2, <3>1, <4>1, <4>2, <4>3
    <3> QED BY <1>1, <2>2, <3>1, <3>2 DEF Ahead
  <2> QED BY <1>1, <1>2, <2>2, StillKeepsDevice
<1>4. OutOK'
  BY <1>1, NoWorkFacts DEF OutOK
<1>5. SparkplugTypeOK'
  <2>1. PICK p, o, u : p = parsing' /\ o = p.out /\ u = uns'
    OBVIOUS
  <2>2. TypeOfParsing(p) /\ RetainedOn(o) /\ RetainedOn(u)
    BY <1>1, <2>1, NoWorkFacts DEF SparkplugTypeOK
  <2>3. node_device_metric_alias_map' \in [{CacheKey(d) : d \in Devices} -> MapsOf(Aliases \union {0})]
    BY <1>1, <1>2, MapFacts
  <2>4. ends' \in 0..MaxEnds
    BY <1>1, SpbBounds DEF SparkplugTypeOK
  <2> QED BY <1>1, <2>1, <2>2, <2>3, <2>4, MapperTypes DEF SparkplugTypeOK
<1>6. ParsingOK'
  BY <1>1 DEF ParsingOK
<1> QED BY <1>3, <1>4, <1>5, <1>6 DEF SpbInv

LEMMA LoseKeeps == ASSUME SpbInv, NEW d \in Devices, Lose(d) PROVE SpbInv'
<1>1. /\ SparkplugTypeOK /\ ParsingOK /\ OutOK /\ wire[d] # <<>> /\ wire' = [wire EXCEPT ![d] = Tail(wire[d])]
      /\ lost < MaxLost /\ lost' = lost + 1
      /\ misled' = IF NamesSome(Head(wire[d]).metrics, 1) THEN misled \union {d} ELSE misled
      /\ UNCHANGED deviceVars /\ UNCHANGED <<parsing, node_device_metric_alias_map, uns, reading, sent, ends>>
  BY DEF Lose, SpbInv
<1>2. DOMAIN wire = Devices /\ wire[d] \in Seq(Messages) /\ Len(wire[d]) \in Nat /\ \A j \in 1..Len(wire[d]) : wire[d][j].life \in Nat
  BY <1>1, WireTypes DEF SparkplugTypeOK
<1>3. wire'[d] = Tail(wire[d]) /\ \A e \in Devices : e # d => wire'[e] = wire[e]
  BY <1>1, <1>2
<1>4. /\ wire'[d] \in Seq(Messages) /\ Len(wire'[d]) = Len(wire[d]) - 1 /\ Head(wire[d]) = wire[d][1] /\ 1 \in 1..Len(wire[d])
      /\ \A k \in 1..(Len(wire[d]) - 1) : wire'[d][k] = wire[d][k + 1]
  BY <1>1, <1>2, <1>3, TailFacts
<1>5. misled \subseteq misled' /\ misled' \subseteq Devices /\ \A e \in Devices : e # d => ((e \in misled') = (e \in misled))
  BY <1>1 DEF SparkplugTypeOK
<1>6. \A l, a : Knows(d, l, a)' = Knows(d, l, a)
  BY <1>1 DEF Knows, NamesIn, Life, deviceVars
<1>7. \A l, a : Ready(d, l, a) => Ready(d, l, a)'
  BY <1>1, <1>5, <1>6 DEF Ready
<1>8. ASSUME NEW l \in Nat, NEW a, NEW k \in 2..(Len(wire[d]) + 1), \A j \in 1..(k - 1) : wire[d][j].life <= l,
             Ahead(d, l, a, k)
      PROVE  Ahead(d, l, a, k - 1)'
  <2>1. \A j \in 1..((k - 1) - 1) : j + 1 \in 1..(k - 1) /\ j + 1 \in 1..Len(wire[d]) /\ j \in 1..(Len(wire[d]) - 1)
    BY <1>2
  <2>2. (\A j \in 1..(k - 1) : wire[d][j].life = l) /\ Ready(d, l, a)' => Ahead(d, l, a, k - 1)'
    BY <1>4, <2>1 DEF Ahead
  <2>3. CASE \E j \in 1..(k - 1) : wire[d][j].life = l /\ Tells(wire[d][j].metrics, 1, Len(wire[d][j].metrics), a)
    <3>1. PICK j \in 1..(k - 1) : wire[d][j].life = l /\ Tells(wire[d][j].metrics, 1, Len(wire[d][j].metrics), a)
      BY <2>3
    <3>2. CASE j = 1
      <4>1. d \in misled'
        <5>1. NamesSome(Head(wire[d]).metrics, 1)
          BY <1>4, <3>1, <3>2 DEF Tells, NamesSome, Naming
        <5> QED BY <1>1, <5>1
      <4>2. ASSUME NEW i \in 1..(k - 1) PROVE wire[d][i].life = l
        <5>1. i \in 1..Len(wire[d]) /\ OrderOK(d, i)
          <6>1. i \in 1..Len(wire[d])
            BY <1>2
          <6> QED BY <6>1 DEF SpbInv, DeviceOK, MessageOK
        <5>2. CASE i = 1
          BY <3>1, <3>2, <5>2
        <5>3. CASE i # 1
          <6>1. 1 \in 1..(i - 1)
            BY <5>1, <5>3
          <6>2. l <= wire[d][i].life
            BY <3>1, <3>2, <5>1, <6>1 DEF OrderOK
          <6> QED BY <1>2, <1>8, <5>1, <6>2
        <5> QED BY <5>2, <5>3
      <4> QED BY <2>2, <4>1, <4>2 DEF Ready
    <3>3. CASE j # 1
      <4>1. j - 1 \in 1..((k - 1) - 1) /\ j - 1 \in 1..(Len(wire[d]) - 1) /\ (j - 1) + 1 = j
        BY <1>2, <3>3
      <4>2. wire'[d][j - 1] = wire[d][j]
        BY <1>4, <4>1
      <4> QED BY <3>1, <4>1, <4>2 DEF Ahead
    <3> QED BY <3>2, <3>3
  <2>4. CASE InHand(d, l, a)
    <3>1. InHand(d, l, a)'
      BY <1>1, <2>4 DEF InHand
    <3> QED BY <3>1 DEF Ahead
  <2>5. CASE (\A j \in 1..(k - 1) : wire[d][j].life = l) /\ Ready(d, l, a)
    BY <1>7, <2>2, <2>5
  <2> QED BY <1>8, <2>3, <2>4, <2>5 DEF Ahead
<1>9. DeviceOK(d)'
  <2>1. PICK shift : shift = 1
    OBVIOUS
  <2>2. shift \in {0, 1} /\ Len(wire'[d]) = Len(wire[d]) - shift /\ \A k \in 1..(Len(wire[d]) - shift) : wire'[d][k] = wire[d][k + shift]
    BY <1>4, <2>1
  <2>3. AheadStays(d, shift)
    BY <1>8, <2>1 DEF AheadStays
  <2> QED BY <1>1, <1>4, <2>2, <2>3, MapperKeepsDevice
<1>10. ASSUME NEW e \in Devices, e # d PROVE DeviceOK(e)'
  BY <1>1, <1>3, <1>5, <1>10, OthersApart
<1>11. OutOK'
  BY <1>1 DEF OutOK
<1>12. ParsingOK'
  <2>1. \A i : TurnOK(i)' = TurnOK(i)
    BY <1>1 DEF TurnOK, Bears, Knows, NamesIn, Life, deviceVars
  <2> QED BY <1>1, <1>5, <2>1 DEF ParsingOK, Life, deviceVars
<1>13. SparkplugTypeOK'
  <2>1. wire' \in [Devices -> Seq(Messages)]
    BY <1>1, <1>2, <1>3, <1>4 DEF SparkplugTypeOK
  <2>2. PICK p, o, u : p = parsing' /\ o = p.out /\ u = uns'
    OBVIOUS
  <2>3. TypeOfParsing(p) /\ RetainedOn(o) /\ RetainedOn(u)
    BY <1>1, <2>2, ParsingTypes DEF SparkplugTypeOK
  <2>4. lost' \in 0..MaxLost
    BY <1>1, SpbBounds DEF SparkplugTypeOK
  <2> QED BY <1>1, <1>5, <2>1, <2>2, <2>3, <2>4, MapperTypes DEF SparkplugTypeOK
<1> QED BY <1>9, <1>10, <1>11, <1>12, <1>13 DEF SpbInv

-----------------------------------------------------------------------------
(* The readings a device meant                                              *)

LEMMA SpbInitially == SparkplugInit => SpbInv
<1> SUFFICES ASSUME SparkplugInit PROVE SpbInv
  OBVIOUS
<1>1. SparkplugTypeOK
  <2>1. RetainedOn(NoMessages) /\ NoWork.out = NoMessages
    BY DEF RetainedOn, NoMessages, Retained, NoWork
  <2>2. alias_name_map \in [Devices -> MapsOf(Aliases)] /\ node_device_metric_alias_map \in [{CacheKey(d) : d \in Devices} -> MapsOf(Aliases \union {0})]
    BY MapFacts DEF SparkplugInit
  <2>3. past \in [Devices -> Seq(MapsOf(Aliases))] /\ said \in [Devices -> SUBSET Aliases] /\ wire \in [Devices -> Seq(Messages)]
    BY DEF SparkplugInit
  <2>4. sent \in 0..MaxSent /\ ends \in 0..MaxEnds /\ lost \in 0..MaxLost
    BY SpbBounds DEF SparkplugInit
  <2>5. reading \in Readings /\ parsing = NoWork /\ uns = NoMessages /\ misled \subseteq Devices
    BY DEF SparkplugInit
  <2>6. RetainedOn(uns) /\ RetainedOn(parsing.out)
    BY <2>1, <2>5
  <2> QED BY <2>2, <2>3, <2>4, <2>5, <2>6 DEF SparkplugTypeOK
<1>2. \A d \in Devices : DeviceOK(d)
  BY DEF SparkplugInit, DeviceOK
<1>3. ParsingOK
  BY DEF SparkplugInit, ParsingOK
<1>4. OutOK
  BY DEF SparkplugInit, OutOK, NoMessages, Faithful, NoWork
<1> QED BY <1>1, <1>2, <1>3, <1>4 DEF SpbInv

LEMMA SpbSteps == SpbInv /\ [SparkplugNext]_spbVars => SpbInv'
<1> SUFFICES ASSUME SpbInv, [SparkplugNext]_spbVars PROVE SpbInv'
  OBVIOUS
<1>1. ASSUME NEW d \in Devices, Birth(d) \/ Data(d) \/ Death(d) PROVE SpbInv'
  <2>1. PICK type \in {"DBIRTH", "DDATA", "DCMD", "DDEATH"} : \E list \in Lists : Send(d, type, list)
    BY <1>1 DEF Birth, Data, Death, Lists
  <2> QED BY <2>1, SendKeeps
<1>2. ASSUME NEW d \in Devices, Receive(d) PROVE SpbInv'
  BY <1>2, ReceiveMapped, ReceiveUnmapped
<1>3. CASE UNCHANGED spbVars
  <2>1. UNCHANGED deviceVars /\ UNCHANGED mapperVars /\ UNCHANGED <<wire, reading, sent, ends, lost>>
    BY <1>3 DEF spbVars
  <2>2. UNCHANGED <<alias_name_map, past, said, parsing, node_device_metric_alias_map, uns, misled>>
    BY <2>1 DEF deviceVars, mapperVars
  <2>3. \A d \in Devices : DeviceOK(d)'
    BY <2>1, <2>2, OthersApart
  <2>4. ParsingOK' /\ OutOK'
    BY <2>1, <2>2, StandsGrow, ParsingStands DEF SpbInv
  <2>5. SparkplugTypeOK'
    BY <2>1, <2>2, DeviceTypes DEF SpbInv, SparkplugTypeOK
  <2> QED BY <2>3, <2>4, <2>5 DEF SpbInv
<1> QED BY <1>1, <1>2, <1>3, RestartKeeps, LoseKeeps, HandleKeeps, PublishKeeps, MapperRestartsKeeps DEF SparkplugNext

LEMMA SpbIsMeant == ASSUME ReadsBack, SpbInv PROVE SparkplugIsMeant
<1>1. SparkplugTypeOK /\ OutOK
  BY DEF SpbInv
<1>2. GetValue(reading.type, SetValue(reading)) = reading.value
  BY <1>1 DEF SparkplugTypeOK, ReadsBack
<1>3. ASSUME NEW t \in Topics, uns[t] # NoMessage
      PROVE  /\ uns[t].tags \in [DOMAIN uns[t].tags -> Seq(EntriesOf \union {None})]
             /\ uns[t].timestamp \in Stamps /\ uns[t].timestamp \in Nat /\ Faithful(t, uns[t])
  <2>1. Retained(uns[t]) /\ Faithful(t, uns[t])
    BY <1>1 DEF SparkplugTypeOK, RetainedOn, OutOK
  <2>2. uns[t].tags \in [DOMAIN uns[t].tags -> Seq(EntriesOf \union {None})] /\ uns[t].timestamp \in Stamps
    BY <1>3, <2>1 DEF Retained
  <2>3. \A x \in Stamps : x \in Nat
    BY ComposedFacts DEF Stamps
  <2> QED BY <2>1, <2>2, <2>3
<1>4. ASSUME NEW t \in Topics, uns[t] # NoMessage, NEW tag \in DOMAIN uns[t].tags, NEW e \in Entries(uns[t], tag)
      PROVE  /\ e \in EntriesOf /\ e.timestamp \in Nat /\ e.timestamp <= uns[t].timestamp
             /\ e.value = reading.value /\ (e.means = <<t, tag>> \/ e.guess)
  <2>1. PICK i \in DOMAIN uns[t].tags[tag] : e = uns[t].tags[tag][i] /\ e # None
    BY DEF Entries
  <2>2. e \in EntriesOf
    <3>1. uns[t].tags[tag] \in Seq(EntriesOf \union {None})
      BY <1>3, <1>4
    <3> QED BY <2>1, <3>1
  <2>3. e.timestamp <= uns[t].timestamp /\ (e.means = <<t, tag>> \/ e.guess)
    BY <1>3, <1>4, <2>1 DEF Faithful
  <2> QED BY <1>1, <1>2, <2>2, <2>3, EntryFacts
<1>5. PublishedIsMeant
  <2>1. ASSUME NEW t \in Topics, uns[t] = NoMessage PROVE DOMAIN uns[t].tags = {}
    BY <2>1, MapFacts DEF NoMessage
  <2> QED BY <1>4, <2>1 DEF PublishedIsMeant
<1>6. ASSUME NEW t \in Topics, uns[t] # NoMessage, NEW all,
             all = UNION {{e.timestamp : e \in Entries(uns[t], tag)} : tag \in DOMAIN uns[t].tags}
      PROVE  uns[t].timestamp \in all /\ \A s \in all : s <= uns[t].timestamp
  <2>1. PICK tag \in DOMAIN uns[t].tags : \E i \in DOMAIN uns[t].tags[tag] :
          uns[t].tags[tag][i] # None /\ uns[t].tags[tag][i].timestamp = uns[t].timestamp
    BY <1>3, <1>6 DEF Faithful
  <2>2. PICK e \in Entries(uns[t], tag) : e.timestamp = uns[t].timestamp
    BY <2>1 DEF Entries
  <2>3. ASSUME NEW s \in all PROVE s <= uns[t].timestamp
    <3>1. PICK g \in DOMAIN uns[t].tags : s \in {x.timestamp : x \in Entries(uns[t], g)}
      BY <1>6
    <3>2. PICK x \in Entries(uns[t], g) : s = x.timestamp
      BY <3>1
    <3> QED BY <1>4, <1>6, <3>2
  <2> QED BY <1>6, <2>1, <2>2, <2>3
<1>7. TimestampIsNewest
  BY <1>6 DEF TimestampIsNewest
<1> QED BY <1>5, <1>7 DEF SparkplugIsMeant

LEMMA AlwaysSpbInv == SparkplugSpec => []SpbInv
BY SpbInitially, SpbSteps, PTL DEF SparkplugSpec

\* Aliases stand for names, devices and mapper exchange metrics they can read, and what is
\* retained holds entries and fillers only (SpBMessageGenerator, Spb2UNSPublisher).
THEOREM SparkplugTypes == SparkplugSpec => []SparkplugTypeOK
<1>1. SpbInv => SparkplugTypeOK
  BY DEF SpbInv
<1> QED BY <1>1, AlwaysSpbInv, PTL

\* A tag of the UNS holds what its device reported under that very name, with the timestamp
\* of its newest reading, whatever was lost or restarted, wherever the mapper could know the
\* alias (get_name_for_alias, extract_uns_message_for_topic).
THEOREM ReadingsAreMeant == ASSUME ReadsBack PROVE SparkplugSpec => []SparkplugIsMeant
<1>1. SpbInv => SparkplugIsMeant
  BY SpbIsMeant
<1> QED BY <1>1, AlwaysSpbInv, PTL
=============================================================================
