---------------------------- MODULE OffsetLemmas ----------------------------
(***************************************************************************)
(* Sets of offsets have the largest and smallest elements on which the     *)
(* checkpoints of the consumers are built; slices of queues and caches.    *)
(***************************************************************************)
EXTENDS Integers, FiniteSets, SequencesExt, FiniteSetTheorems, SequenceTheorems,
        WellFoundedInduction, TLAPS

\* A finite non-empty set of offsets has a largest element: no offset above a
\* minimal set of larger offsets is left.
LEMMA MaxOfFinite ==
  ASSUME NEW S \in SUBSET Nat, IsFiniteSet(S), S # {}
  PROVE  Max(S) \in S /\ \A y \in S : y <= Max(S)
<1> DEFINE Above(x) == {y \in S : y > x}
           Family == {Above(x) : x \in S}
<1>1. IsFiniteSet(S)
  OBVIOUS
<1>2. Family \subseteq FiniteSubsetsOf(S) /\ Family # {}
  <2>1. \A x \in S : Above(x) \in SUBSET S /\ IsFiniteSet(Above(x))
    BY <1>1, FS_Subset
  <2> QED BY <2>1 DEF FiniteSubsetsOf
<1>3. PICK U \in Family : \A V \in Family : <<V, U>> \notin StrictSubsetOrdering(S)
  <2> HIDE DEF Family
  <2> QED BY <1>2, FS_StrictSubsetOrderingWellFounded, WFMin
<1>4. PICK m \in S : U = Above(m)
  OBVIOUS
<1>5. ASSUME NEW y \in S, y > m PROVE FALSE
  <2>1. Above(y) \in Family /\ Above(y) \subseteq S /\ Above(m) \subseteq S
    OBVIOUS
  <2>2. \A z \in S : z > y => z > m
    BY <1>5
  <2>3. y \in Above(m) /\ y \notin Above(y)
    BY <1>5
  <2>4. Above(y) # Above(m)
    BY <2>3
  <2>6. Above(y) \subseteq Above(m)
    BY <2>2
  <2>5. <<Above(y), Above(m)>> \in StrictSubsetOrdering(S)
    BY <2>1, <2>2, <2>4, <2>6 DEF StrictSubsetOrdering
  <2> QED BY <1>3, <1>4, <2>1, <2>5
<1>6. m \in S /\ \A y \in S : m >= y
  BY <1>5
<1>7. Max(S) \in S /\ \A y \in S : Max(S) >= y
  BY <1>6 DEF Max
<1> QED BY <1>7

\* A bounded set of offsets is finite.
LEMMA MaxOfBounded ==
  ASSUME NEW S \in SUBSET Nat, NEW b \in Nat, S # {}, \A x \in S : x < b
  PROVE  Max(S) \in S /\ \A y \in S : y <= Max(S)
<1>1. IsFiniteSet(S)
  BY FS_BoundedSetOfNaturals
<1> QED BY <1>1, MaxOfFinite

\* A non-empty set of offsets has a smallest element: mirrored at one of its members,
\* it has a largest one.
LEMMA SmallestOffset ==
  ASSUME NEW S \in SUBSET Nat, S # {}
  PROVE  \E o \in S : \A n \in S : o <= n
<1>1. PICK b \in S : TRUE
  OBVIOUS
<1> DEFINE Mirror == {b - n : n \in {k \in S : k <= b}}
<1>2. Mirror \in SUBSET Nat /\ Mirror # {} /\ \A x \in Mirror : x < b + 1
  OBVIOUS
<1>3. Max(Mirror) \in Mirror /\ \A y \in Mirror : y <= Max(Mirror)
  <2> HIDE DEF Mirror
  <2>1. b + 1 \in Nat
    BY <1>1
  <2> QED BY <1>2, <2>1, MaxOfBounded
<1>4. PICK o \in S : o <= b /\ Max(Mirror) = b - o
  BY <1>3
<1>5. \A n \in S : n <= b => b - n \in Mirror
  OBVIOUS
<1> HIDE DEF Mirror
<1>6. \A n \in S : n <= b => b - n <= b - o
  BY <1>3, <1>4, <1>5
<1>7. S \subseteq Int
  OBVIOUS
<1>8. \A n \in S : n <= b => o <= n
  BY ONLY <1>6, <1>7, o \in S, b \in S
<1>9. \A n \in S : o <= n
  BY ONLY <1>8, <1>7, <1>4, o \in S, b \in S
<1> QED BY <1>9

\* Records have a first one in (partition, offset) order, the order in which
\* persist_batch sorts them.
LEMMA FirstInOrder ==
  ASSUME NEW S \in SUBSET (Nat \X Nat), S # {}
  PROVE  \E f \in S : \A q \in S : ~(q[1] < f[1] \/ (q[1] = f[1] /\ q[2] < f[2]))
<1> DEFINE Parts == {q[1] : q \in S}
<1>1. Parts \in SUBSET Nat /\ Parts # {}
  OBVIOUS
<1>2. PICK p \in Parts : \A n \in Parts : p <= n
  <2> HIDE DEF Parts
  <2> QED BY <1>1, SmallestOffset
<1> DEFINE Offs == {o \in Nat : <<p, o>> \in S}
<1>3. Offs \in SUBSET Nat /\ Offs # {}
  <2>1. PICK q \in S : q[1] = p
    BY <1>2
  <2>2. q = <<p, q[2]>> /\ q[2] \in Nat
    BY <2>1
  <2> QED BY <2>2
<1>4. PICK o \in Offs : \A n \in Offs : o <= n
  <2> HIDE DEF Offs
  <2> QED BY <1>3, SmallestOffset
<1>5. ASSUME NEW q \in S PROVE ~(q[1] < p \/ (q[1] = p /\ q[2] < o))
  <2>1. q[1] \in Parts /\ q[1] \in Nat /\ q[2] \in Nat /\ p \in Nat /\ q = <<q[1], q[2]>>
    BY <1>1, <1>2
  <2>2. p <= q[1]
    BY <2>1, <1>2
  <2>3. q[1] = p => q[2] \in Offs
    BY <2>1
  <2> QED BY <2>1, <2>2, <2>3, <1>4
<1>6. <<p, o>> \in S
  BY <1>4
<1> QED BY <1>5, <1>6

\* What a slice of a sequence holds.
LEMMA SliceFacts ==
  ASSUME NEW S, NEW s \in Seq(S), NEW m \in Nat \ {0}, NEW n \in Nat, m <= n + 1, n <= Len(s)
  PROVE  /\ SubSeq(s, m, n) \in Seq(S) /\ Len(SubSeq(s, m, n)) = n - m + 1
         /\ \A k \in 1 .. n - m + 1 : SubSeq(s, m, n)[k] = s[m + k - 1]
<1>1. \A k \in m .. n : s[k] \in S
  OBVIOUS
<1>2. ~(m <= n) => n - m + 1 = 0
  OBVIOUS
<1>3. m \in Int /\ n \in Int
  OBVIOUS
<1>4. /\ SubSeq(s, m, n) \in Seq(S)
      /\ Len(SubSeq(s, m, n)) = IF m <= n THEN n - m + 1 ELSE 0
      /\ \A k \in 1 .. n - m + 1 : SubSeq(s, m, n)[k] = s[m + k - 1]
  BY <1>1, <1>3, SubSeqProperties
<1> QED BY <1>2, <1>4

\* A sequence without one of its elements.
LEMMA WithoutOne ==
  ASSUME NEW S, NEW s \in Seq(S), NEW i \in DOMAIN s
  PROVE  /\ RemoveAt(s, i) \in Seq(S) /\ Len(RemoveAt(s, i)) = Len(s) - 1
         /\ \A k \in 1..(Len(s) - 1) : RemoveAt(s, i)[k] = IF k < i THEN s[k] ELSE s[k + 1]
<1>1. PICK n \in Nat : n = Len(s) /\ DOMAIN s = 1..n /\ i \in 1..n
  OBVIOUS
<1>2. PICK l : l = SubSeq(s, 1, i - 1)
  OBVIOUS
<1>3. PICK r : r = SubSeq(s, i + 1, n)
  OBVIOUS
<1>4. l \in Seq(S) /\ Len(l) = i - 1 /\ \A k \in 1..(i - 1) : l[k] = s[k]
  <2>1. i - 1 \in Nat /\ 1 <= (i - 1) + 1 /\ i - 1 <= Len(s) /\ (i - 1) - 1 + 1 = i - 1 /\ 1 \in Nat \ {0}
    BY <1>1
  <2>2. l \in Seq(S) /\ Len(l) = i - 1 /\ \A k \in 1..(i - 1) : l[k] = s[1 + k - 1]
    BY <1>2, <2>1, SliceFacts
  <2>3. \A k \in 1..(i - 1) : 1 + k - 1 = k
    BY <1>1
  <2> QED BY <2>2, <2>3
<1>5. r \in Seq(S) /\ Len(r) = n - i /\ \A k \in 1..(n - i) : r[k] = s[i + k]
  <2>1. i + 1 \in Nat \ {0} /\ i + 1 <= n + 1 /\ n <= Len(s) /\ n - (i + 1) + 1 = n - i
    BY <1>1
  <2>2. r \in Seq(S) /\ Len(r) = n - i /\ \A k \in 1..(n - i) : r[k] = s[(i + 1) + k - 1]
    BY <1>1, <1>3, <2>1, SliceFacts
  <2>3. \A k \in 1..(n - i) : (i + 1) + k - 1 = i + k
    BY <1>1
  <2> QED BY <2>2, <2>3
<1>6. PICK w : w = l \o r
  OBVIOUS
<1>7. /\ w \in Seq(S) /\ Len(w) = Len(l) + Len(r)
      /\ \A k \in 1..(Len(l) + Len(r)) : w[k] = IF k <= Len(l) THEN l[k] ELSE r[k - Len(l)]
  BY <1>4, <1>5, <1>6, ConcatProperties
<1>8. Len(l) + Len(r) = n - 1
  <2>1. i \in Int /\ n \in Int
    BY <1>1
  <2>2. Len(l) = i - 1 /\ Len(r) = n - i
    BY <1>4, <1>5
  <2> QED BY ONLY <2>1, <2>2
<1>9. ASSUME NEW k \in 1..(n - 1) PROVE w[k] = IF k < i THEN s[k] ELSE s[k + 1]
  <2>1. CASE k < i
    <3>1. k \in 1..(i - 1) /\ k <= Len(l)
      BY <1>1, <1>4, <2>1
    <3> QED BY <1>4, <1>7, <1>8, <2>1, <3>1
  <2>2. CASE ~(k < i)
    <3>1. k - (i - 1) \in 1..(n - i) /\ ~(k <= Len(l)) /\ i + (k - (i - 1)) = k + 1
      BY <1>1, <1>4, <2>2
    <3> QED BY SMTT(30), <1>4, <1>5, <1>7, <1>8, <2>2, <3>1
  <2> QED BY <2>1, <2>2
<1>10. RemoveAt(s, i) = w
  BY <1>1, <1>2, <1>3, <1>6 DEF RemoveAt
<1> QED BY <1>1, <1>7, <1>8, <1>9, <1>10
=============================================================================
