------------------------- MODULE RtkTimeQueueProofs -------------------------
(***************************************************************************)
(* What the queue operations of RtkTimeQueue return, for every queue,      *)
(* stamp and bound, the two searches included.                             *)
(***************************************************************************)
EXTENDS RtkTimeQueue, SequenceTheorems, FiniteSetTheorems, WellFoundedInduction, TLAPS

(* The elements of a queue are pairwise different.                         *)
Distinct(q) == \A i, j \in DOMAIN q : i # j => q[i] # q[j]

(* A set of naturals that is not empty has a least member.                 *)
LEMMA LeastMember ==
  ASSUME NEW T \in SUBSET Nat, T # {}
  PROVE  \E n \in T : \A m \in T : n <= m
<1> DEFINE Less == OpToRel(<, Nat)
<1>1. \E x \in T : \A y \in T : ~ (<<y, x>> \in Less)
  BY NatLessThanWellFounded, WFMin
<1>2. \A x, y \in T : y < x => <<y, x>> \in Less
  BY DEF OpToRel
<1> HIDE DEF Less
<1>3. PICK x \in T : \A y \in T : ~ (<<y, x>> \in Less)
  BY <1>1
<1>4. \A y \in T : ~ (y < x)
  BY <1>2, <1>3, Zenon
<1>5. \A y \in T : x <= y
  BY <1>4
<1> QED
  BY <1>5

(* Dropping up to all elements from the front leaves a suffix.             *)
LEMMA DropFrontProperties ==
  ASSUME NEW S, NEW q \in Seq(S), NEW k \in 0 .. Len(q)
  PROVE  /\ DropFront(q, k) \in Seq(S)
         /\ Len(DropFront(q, k)) = Len(q) - k
         /\ \A i \in 1 .. Len(q) - k : DropFront(q, k)[i] = q[k + i]
<1>1. \A i \in k + 1 .. Len(q) : q[i] \in S
  OBVIOUS
<1>2. k + 1 \in Int /\ Len(q) \in Int
  OBVIOUS
<1>3. /\ SubSeq(q, k + 1, Len(q)) \in Seq(S)
      /\ Len(SubSeq(q, k + 1, Len(q))) = IF k + 1 <= Len(q) THEN Len(q) - (k + 1) + 1 ELSE 0
      /\ \A i \in 1 .. Len(q) - (k + 1) + 1 : SubSeq(q, k + 1, Len(q))[i] = q[k + 1 + i - 1]
  BY <1>1, <1>2, SubSeqProperties
<1> QED
  BY <1>3, SMTT(30) DEF DropFront

LEMMA DropFrontTwice ==
  ASSUME NEW S, NEW q \in Seq(S), NEW k \in 0 .. Len(q), NEW l \in 0 .. Len(q) - k
  PROVE  DropFront(DropFront(q, k), l) = DropFront(q, k + l)
<1>1. /\ DropFront(q, k) \in Seq(S) /\ Len(DropFront(q, k)) = Len(q) - k
      /\ \A i \in 1 .. Len(q) - k : DropFront(q, k)[i] = q[k + i]
  BY DropFrontProperties
<1> DEFINE d == DropFront(q, k)
<1> HIDE DEF d
<1>2. l \in 0 .. Len(d)
  BY <1>1 DEF d
<1>3. /\ DropFront(d, l) \in Seq(S) /\ Len(DropFront(d, l)) = Len(d) - l
      /\ \A i \in 1 .. Len(d) - l : DropFront(d, l)[i] = d[l + i]
  BY <1>1, <1>2, DropFrontProperties DEF d
<1>4. k + l \in 0 .. Len(q)
  OBVIOUS
<1>5. /\ DropFront(q, k + l) \in Seq(S) /\ Len(DropFront(q, k + l)) = Len(q) - (k + l)
      /\ \A i \in 1 .. Len(q) - (k + l) : DropFront(q, k + l)[i] = q[k + l + i]
  BY <1>4, DropFrontProperties
<1>6. Len(DropFront(d, l)) = Len(DropFront(q, k + l))
  BY <1>1, <1>3, <1>5 DEF d
<1>7. \A i \in 1 .. Len(DropFront(d, l)) : DropFront(d, l)[i] = DropFront(q, k + l)[i]
  <2> TAKE i \in 1 .. Len(DropFront(d, l))
  <2>1. /\ i \in 1 .. Len(d) - l /\ l + i \in 1 .. Len(q) - k
        /\ i \in 1 .. Len(q) - (k + l) /\ k + (l + i) = k + l + i
    BY <1>1, <1>2, <1>3 DEF d
  <2>2. DropFront(d, l)[i] = d[l + i] /\ d[l + i] = q[k + (l + i)]
    BY <1>1, <1>3, <2>1 DEF d
  <2> QED
    BY <1>5, <2>1, <2>2
<1> QED
  BY <1>3, <1>5, <1>6, <1>7, SeqEqual DEF d

(* A suffix keeps what holds of the elements and of their order.           *)
LEMMA DropFrontKeeps ==
  ASSUME NEW q \in Seq(Nat), NEW k \in 0 .. Len(q)
  PROVE  /\ \A i \in DOMAIN DropFront(q, k) : \E j \in DOMAIN q : DropFront(q, k)[i] = q[j]
         /\ \A i \in DOMAIN DropFront(q, k), j \in 1 .. k :
              Distinct(q) => DropFront(q, k)[i] # q[j]
         /\ Distinct(q) => Distinct(DropFront(q, k))
         /\ Sorted(q) => Sorted(DropFront(q, k))
<1> DEFINE d == DropFront(q, k)
<1>1. /\ d \in Seq(Nat) /\ Len(d) = Len(q) - k
      /\ \A i \in 1 .. Len(q) - k : d[i] = q[k + i]
  BY DropFrontProperties
<1> HIDE DEF d
<1>2. \A i \in DOMAIN d : i \in Nat /\ k + i \in DOMAIN q /\ k + i > k /\ d[i] = q[k + i]
  BY <1>1
<1>3. \A i \in DOMAIN d : \E j \in DOMAIN q : d[i] = q[j]
  BY <1>2
<1>4. \A i \in DOMAIN d, j \in 1 .. k : Distinct(q) => d[i] # q[j]
  BY <1>2 DEF Distinct
<1>5. Distinct(q) => Distinct(d)
  BY <1>2 DEF Distinct
<1>6. Sorted(q) => Sorted(d)
  BY <1>2 DEF Sorted
<1> QED
  BY <1>3, <1>4, <1>5, <1>6 DEF d

(* The number of positions of a sequence.                                  *)
LEMMA IntervalCardinality ==
  ASSUME NEW S, NEW q \in Seq(S)
  PROVE  IsFiniteSet(1 .. Len(q)) /\ Cardinality(1 .. Len(q)) = Len(q)
<1>1. 1 \in Int /\ Len(q) \in Int
      /\ (IF 1 > Len(q) THEN 0 ELSE Len(q) - 1 + 1) = Len(q)
  OBVIOUS
<1> QED
  BY <1>1, FS_Interval

(* The upper bound is a position at which an element may be inserted.      *)
LEMMA UpperBoundRange ==
  ASSUME NEW S, NEW q \in Seq(S), NEW stamp
  PROVE  UpperBound(q, stamp) \in 1 .. Len(q) + 1
<1> DEFINE early == {i \in DOMAIN q : q[i] <= stamp}
<1>1. early \in SUBSET (1 .. Len(q)) /\ Len(q) \in Nat
  OBVIOUS
<1>2. IsFiniteSet(1 .. Len(q)) /\ Cardinality(1 .. Len(q)) = Len(q)
  BY IntervalCardinality
<1>3. IsFiniteSet(early) /\ Cardinality(early) <= Len(q)
  BY <1>1, <1>2, FS_Subset
<1>4. Cardinality(early) \in Nat
  BY <1>3, FS_CardinalityType
<1>5. UpperBound(q, stamp) = 1 + Cardinality(early)
  BY DEF UpperBound
<1> HIDE DEF early
<1> QED
  BY <1>1, <1>3, <1>4, <1>5

(* In a sorted queue it separates what is not later from what is later.    *)
LEMMA UpperBoundSplits ==
  ASSUME NEW q \in Seq(Nat), NEW stamp \in Nat, Sorted(q)
  PROVE  /\ \A i \in DOMAIN q : i < UpperBound(q, stamp) => q[i] <= stamp
         /\ \A i \in DOMAIN q : i >= UpperBound(q, stamp) => stamp < q[i]
<1> DEFINE early == {i \in DOMAIN q : q[i] <= stamp}
           late == {i \in DOMAIN q : stamp < q[i]}
<1>1. PICK n \in 1 .. Len(q) + 1 : early = 1 .. n - 1
  <2>1. CASE late = {}
    <3>1. early = 1 .. Len(q)
      BY <2>1
    <3>2. Len(q) + 1 \in 1 .. Len(q) + 1 /\ (Len(q) + 1) - 1 = Len(q)
      OBVIOUS
    <3> HIDE DEF early, late
    <3> QED
      BY <3>1, <3>2
  <2>2. CASE late # {}
    <3>1. late \in SUBSET Nat
      OBVIOUS
    <3>2. PICK n \in late : \A m \in late : n <= m
      BY <2>2, <3>1, LeastMember
    <3>3. \A i \in DOMAIN q : i < n => q[i] <= stamp
      BY <3>2
    <3>4. \A i \in DOMAIN q : i >= n => stamp < q[i]
      BY <3>2 DEF Sorted
    <3>5. n \in 1 .. Len(q) + 1 /\ early = 1 .. n - 1
      BY <3>2, <3>3, <3>4
    <3> QED
      BY <3>5
  <2> QED
    BY <2>1, <2>2
<1>2. Cardinality(1 .. n - 1) = n - 1
  <2>1. 1 \in Int /\ n - 1 \in Int /\ (IF 1 > n - 1 THEN 0 ELSE (n - 1) - 1 + 1) = n - 1
    OBVIOUS
  <2> QED
    BY <2>1, FS_Interval
<1>3. UpperBound(q, stamp) = n
  <2>1. UpperBound(q, stamp) = 1 + Cardinality(early)
    BY DEF UpperBound
  <2> HIDE DEF early
  <2> QED
    BY <1>1, <1>2, <2>1
<1>4. \A i \in DOMAIN q : i < n <=> q[i] <= stamp
  BY <1>1
<1> QED
  BY <1>3, <1>4

(* Insertion before a position adds one element and moves the later ones.  *)
LEMMA InsertBeforeProperties ==
  ASSUME NEW S, NEW q \in Seq(S), NEW stamp \in S, NEW pos \in 1 .. Len(q) + 1
  PROVE  /\ InsertBefore(q, pos, stamp) \in Seq(S)
         /\ Len(InsertBefore(q, pos, stamp)) = Len(q) + 1
         /\ \A i \in 1 .. Len(q) + 1 : InsertBefore(q, pos, stamp)[i] =
              IF i < pos THEN q[i] ELSE IF i = pos THEN stamp ELSE q[i - 1]
<1> DEFINE e(i) == IF i < pos THEN q[i] ELSE IF i = pos THEN stamp ELSE q[i - 1]
<1>1. \A i \in 1 .. Len(q) + 1 : e(i) \in S
  OBVIOUS
<1>2. Len(q) + 1 \in Nat
  OBVIOUS
<1>3. InsertBefore(q, pos, stamp) = [i \in 1 .. Len(q) + 1 |-> e(i)]
  BY DEF InsertBefore
<1> HIDE DEF e
<1>4. [i \in 1 .. Len(q) + 1 |-> e(i)] \in Seq(S)
  BY <1>1, <1>2
<1>5. Len([i \in 1 .. Len(q) + 1 |-> e(i)]) = Len(q) + 1
  BY <1>2
<1>6. \A i \in 1 .. Len(q) + 1 : InsertBefore(q, pos, stamp)[i] = e(i)
  BY <1>3
<1> QED
  BY <1>3, <1>4, <1>5, <1>6 DEF e

(* Insertion of a new observation: the queue stays within its bound, holds *)
(* nothing but what it held and the new one, and stays free of duplicates  *)
(* and in time order.                                                      *)
LEMMA PushRtkProperties ==
  ASSUME NEW S \in SUBSET Nat, NEW q \in Seq(S), NEW stamp \in S, NEW bound \in Nat,
         Len(q) <= bound
  PROVE  /\ PushRtk(q, stamp, bound) \in Seq(S)
         /\ Len(PushRtk(q, stamp, bound)) <= bound
         /\ \A i \in DOMAIN PushRtk(q, stamp, bound) :
              \/ PushRtk(q, stamp, bound)[i] = stamp
              \/ \E j \in DOMAIN q : PushRtk(q, stamp, bound)[i] = q[j]
         /\ Distinct(q) /\ (\A j \in DOMAIN q : q[j] # stamp)
              => Distinct(PushRtk(q, stamp, bound))
         /\ Sorted(q) => Sorted(PushRtk(q, stamp, bound))
<1> DEFINE pos == UpperBound(q, stamp)
           grown == InsertBefore(q, pos, stamp)
<1>1. pos \in 1 .. Len(q) + 1
  BY UpperBoundRange
<1>2. q \in Seq(Nat) /\ Len(q) \in Nat
  <2>1. S \subseteq Nat
    OBVIOUS
  <2>2. q \in Seq(Nat)
    BY <2>1, SeqMonotonic, Zenon
  <2> QED
    BY <2>2
<1>3. Sorted(q) => /\ \A i \in DOMAIN q : i < pos => q[i] <= stamp
                   /\ \A i \in DOMAIN q : i >= pos => stamp < q[i]
  BY <1>2, UpperBoundSplits
<1> HIDE DEF pos
<1>4. /\ grown \in Seq(S) /\ Len(grown) = Len(q) + 1
      /\ \A i \in 1 .. Len(q) + 1 : grown[i] =
           IF i < pos THEN q[i] ELSE IF i = pos THEN stamp ELSE q[i - 1]
  BY <1>1, InsertBeforeProperties
<1> HIDE DEF grown
<1>5. \A i \in DOMAIN grown : \/ grown[i] = stamp
                              \/ \E j \in DOMAIN q : grown[i] = q[j]
  <2> TAKE i \in DOMAIN grown
  <2>1. i \in 1 .. Len(q) + 1
    BY <1>4
  <2>2. CASE i < pos
    BY <2>1, <2>2, <1>1, <1>4
  <2>3. CASE i = pos
    BY <2>1, <2>3, <1>4
  <2>4. CASE i > pos
    <3>1. i - 1 \in DOMAIN q /\ grown[i] = q[i - 1]
      BY <2>1, <2>4, <1>1, <1>2, <1>4
    <3> QED
      BY <3>1
  <2> QED
    BY <2>1, <2>2, <2>3, <2>4, <1>1
<1>6. \A i \in DOMAIN grown :
        /\ i \in Nat /\ DOMAIN q \subseteq Nat /\ pos \in Nat
        /\ i < pos => i \in DOMAIN q /\ grown[i] = q[i]
        /\ i = pos => grown[i] = stamp
        /\ i > pos => i - 1 \in DOMAIN q /\ i - 1 >= pos /\ grown[i] = q[i - 1]
  BY <1>1, <1>2, <1>4
<1>7. Distinct(q) /\ (\A j \in DOMAIN q : q[j] # stamp) => Distinct(grown)
  BY <1>6 DEF Distinct
<1>8. Sorted(q) => Sorted(grown)
  <2> SUFFICES ASSUME Sorted(q), NEW i \in DOMAIN grown, NEW j \in DOMAIN grown, i < j
               PROVE  grown[i] <= grown[j]
    BY DEF Sorted
  <2>1. \A a, b \in DOMAIN q : q[a] \in Nat /\ (a < b => q[a] <= q[b])
    BY <1>2 DEF Sorted
  <2>2. stamp \in Nat
    OBVIOUS
  <2>3. CASE j < pos
    BY <1>6, <2>1, <2>3
  <2>4. CASE j = pos
    BY <1>3, <1>6, <2>1, <2>4
  <2>5. CASE i > pos
    BY <1>6, <2>1, <2>5
  <2>6. CASE i = pos
    BY <1>3, <1>6, <2>1, <2>2, <2>6
  <2>7. CASE i < pos /\ j > pos
    <3>1. i \in DOMAIN q /\ j - 1 \in DOMAIN q /\ i < j - 1
      BY <1>6, <2>7
    <3> QED
      BY <1>6, <2>1, <2>7, <3>1
  <2> QED
    BY <1>6, <2>3, <2>4, <2>5, <2>6, <2>7
<1>9. CASE Len(grown) <= bound
  BY <1>4, <1>5, <1>7, <1>8, <1>9 DEF PushRtk, grown, pos
<1>10. CASE Len(grown) > bound
  <2>1. Len(grown) = bound + 1 /\ Len(grown) - bound = 1 /\ 1 \in 0 .. Len(grown)
    BY <1>2, <1>4, <1>10
  <2>2. PushRtk(q, stamp, bound) = DropFront(grown, 1)
    BY <1>10, <2>1 DEF PushRtk, grown, pos
  <2>3. /\ DropFront(grown, 1) \in Seq(S)
        /\ Len(DropFront(grown, 1)) = Len(grown) - 1
    BY <1>4, <2>1, DropFrontProperties
  <2>4. grown \in Seq(Nat)
    BY <1>4, SeqMonotonic
  <2>5. /\ \A i \in DOMAIN DropFront(grown, 1) :
             \E j \in DOMAIN grown : DropFront(grown, 1)[i] = grown[j]
        /\ Distinct(grown) => Distinct(DropFront(grown, 1))
        /\ Sorted(grown) => Sorted(DropFront(grown, 1))
    BY <2>1, <2>4, DropFrontKeeps
  <2>6. \A i \in DOMAIN DropFront(grown, 1) :
          \/ DropFront(grown, 1)[i] = stamp
          \/ \E j \in DOMAIN q : DropFront(grown, 1)[i] = q[j]
    BY <1>5, <2>5
  <2>7. Len(DropFront(grown, 1)) <= bound
    BY <2>1, <2>3
  <2> QED
    BY <1>7, <1>8, <2>2, <2>3, <2>5, <2>6, <2>7
<1> QED
  BY <1>2, <1>4, <1>9, <1>10

(* Expiry drops a prefix.                                                  *)
LEMMA ExpireIsDropFront ==
  ASSUME NEW S, NEW q \in Seq(S), NEW limit
  PROVE  \E k \in 0 .. Len(q) : Expire(q, limit) = DropFront(q, k)
<1> DEFINE stale == {i \in DOMAIN q : \A j \in 1 .. i : q[j] < limit}
<1>1. stale \in SUBSET (1 .. Len(q)) /\ Len(q) \in Nat
  OBVIOUS
<1>2. IsFiniteSet(1 .. Len(q)) /\ Cardinality(1 .. Len(q)) = Len(q)
  BY IntervalCardinality
<1>3. IsFiniteSet(stale) /\ Cardinality(stale) <= Len(q)
  BY <1>1, <1>2, FS_Subset
<1>4. Cardinality(stale) \in Nat
  BY <1>3, FS_CardinalityType
<1>5. Expire(q, limit) = DropFront(q, Cardinality(stale))
  BY DEF Expire
<1> HIDE DEF stale
<1> QED
  BY <1>1, <1>3, <1>4, <1>5

(* What expiry drops is earlier than the limit.                            *)
LEMMA ExpireDropsOld ==
  ASSUME NEW q \in Seq(Nat), NEW limit \in Int
  PROVE  \E k \in 0 .. Len(q) :
           /\ Expire(q, limit) = DropFront(q, k)
           /\ \A i \in 1 .. k : q[i] < limit
<1> DEFINE stale == {i \in DOMAIN q : \A j \in 1 .. i : q[j] < limit}
           fresh == {i \in DOMAIN q : ~ (q[i] < limit)}
<1>1. PICK n \in 1 .. Len(q) + 1 :
        stale = 1 .. n - 1 /\ \A i \in 1 .. n - 1 : q[i] < limit
  <2>1. CASE fresh = {}
    <3>1. \A i \in 1 .. Len(q) : q[i] < limit
      BY <2>1
    <3>2. stale = 1 .. Len(q)
      BY <3>1
    <3>3. Len(q) + 1 \in 1 .. Len(q) + 1 /\ (Len(q) + 1) - 1 = Len(q)
      OBVIOUS
    <3> HIDE DEF stale, fresh
    <3> QED
      BY <3>1, <3>2, <3>3
  <2>2. CASE fresh # {}
    <3>1. fresh \in SUBSET Nat
      OBVIOUS
    <3>2. PICK n \in fresh : \A m \in fresh : n <= m
      BY <2>2, <3>1, LeastMember
    <3>3. \A i \in DOMAIN q : i < n => q[i] < limit
      BY <3>2
    <3>4. \A i \in DOMAIN q : i >= n => ~ (\A j \in 1 .. i : q[j] < limit)
      BY <3>2
    <3>5. \A i \in DOMAIN q : i < n => \A j \in 1 .. i : q[j] < limit
      BY <3>2, <3>3
    <3>6. n \in 1 .. Len(q) + 1 /\ stale = 1 .. n - 1
      BY <3>2, <3>4, <3>5
    <3>7. \A i \in 1 .. n - 1 : q[i] < limit
      BY <3>2, <3>3
    <3> QED
      BY <3>6, <3>7
  <2> QED
    BY <2>1, <2>2
<1>2. Cardinality(1 .. n - 1) = n - 1
  <2>1. 1 \in Int /\ n - 1 \in Int /\ (IF 1 > n - 1 THEN 0 ELSE (n - 1) - 1 + 1) = n - 1
    OBVIOUS
  <2> QED
    BY <2>1, FS_Interval
<1>3. Expire(q, limit) = DropFront(q, n - 1)
  <2>1. Expire(q, limit) = DropFront(q, Cardinality(stale))
    BY DEF Expire
  <2> HIDE DEF stale
  <2> QED
    BY <1>1, <1>2, <2>1
<1>4. n - 1 \in 0 .. Len(q)
  OBVIOUS
<1> QED
  BY <1>1, <1>3, <1>4

(***************************************************************************)
(* Recursion along an interval.  A loop is a function f of the number of   *)
(* rounds, f[i] = F[i, f[i - 1]]; that there is one is what gives the      *)
(* recursive definitions of the searches their meaning.                    *)
(***************************************************************************)
Rounds(N, D) == [1 .. N -> [D -> D]]
IsLoop(f, N, D, d, F) ==
  f \in [0 .. N -> D] /\ f[0] = d /\ \A i \in 1 .. N : f[i] = F[i][f[i - 1]]

LEMMA LoopExists ==
  ASSUME NEW N \in Nat, NEW D, NEW d \in D, NEW F \in Rounds(N, D)
  PROVE  \E f : IsLoop(f, N, D, d, F)
<1> USE DEF Rounds, IsLoop
<1> DEFINE Good(n) == \E f \in [0 .. n -> D] :
                        f[0] = d /\ \A i \in 1 .. n : f[i] = F[i][f[i - 1]]
           bad == {n \in 0 .. N : ~ Good(n)}
<1> SUFFICES ASSUME bad # {} PROVE FALSE
  <2>1. N \in 0 .. N
    OBVIOUS
  <2>2. Good(N) => \E f : IsLoop(f, N, D, d, F)
    OBVIOUS
  <2> HIDE DEF Good
  <2>3. bad = {} => Good(N)
    BY <2>1
  <2> HIDE DEF bad
  <2> QED
    BY <2>2, <2>3, Zenon
<1>1. bad \in SUBSET Nat
  OBVIOUS
<1>2. PICK n \in bad : \A m \in bad : n <= m
  BY <1>1, LeastMember
<1>3. n \in 0 .. N /\ ~ Good(n)
  BY <1>2
<1>4. CASE n = 0
  <2> DEFINE f == [i \in 0 .. 0 |-> d]
  <2>1. f \in [0 .. 0 -> D] /\ f[0] = d
    OBVIOUS
  <2>2. \A i \in 1 .. 0 : f[i] = F[i][f[i - 1]]
    OBVIOUS
  <2>3. Good(0)
    BY <2>1, <2>2
  <2> QED
    BY <1>3, <1>4, <2>3
<1>5. CASE n # 0
  <2>1. n - 1 \in 0 .. N /\ ~ (n <= n - 1) /\ n \in 1 .. N
    BY <1>3, <1>5
  <2>2. Good(n - 1)
    BY <1>2, <2>1
  <2>3. PICK f \in [0 .. n - 1 -> D] :
          f[0] = d /\ \A i \in 1 .. n - 1 : f[i] = F[i][f[i - 1]]
    BY <2>2
  <2> DEFINE e == F[n][f[n - 1]]
             g == [i \in 0 .. n |-> IF i = n THEN e ELSE f[i]]
  <2>4. f[n - 1] \in D
    BY <2>1, <2>3
  <2>5. e \in D
    BY <2>1, <2>4
  <2>6. \A i \in 0 .. n : i # n => i \in 0 .. n - 1
    BY <2>1
  <2> HIDE DEF e
  <2>7. g \in [0 .. n -> D]
    BY <2>3, <2>5, <2>6
  <2>8. g[0] = d /\ g[n] = e /\ \A i \in 0 .. n - 1 : g[i] = f[i]
    BY <2>1, <2>3
  <2> HIDE DEF g
  <2>9. \A i \in 1 .. n : g[i] = F[i][g[i - 1]]
    <3> TAKE i \in 1 .. n
    <3>1. CASE i = n
      <4>1. g[n - 1] = f[n - 1]
        BY <2>1, <2>8
      <4> QED
        BY <2>8, <3>1, <4>1 DEF e
    <3>2. CASE i # n
      <4>1. i \in 1 .. n - 1 /\ i \in 0 .. n - 1 /\ i - 1 \in 0 .. n - 1
        BY <2>1, <3>2
      <4> QED
        BY <2>3, <2>8, <4>1
    <3> QED
      BY <3>1, <3>2
  <2>10. Good(n)
    BY <2>7, <2>8, <2>9
  <2> QED
    BY <1>3, <2>10
<1> QED
  BY <1>4, <1>5

(* Differences of times.                                                   *)
LEMMA DistanceProperties ==
  ASSUME NEW a \in Int, NEW b \in Int
  PROVE  Distance(a, b) \in Nat /\ (a > b => Distance(a, b) = a - b)
BY DEF Distance

(* findNearestRtk's loop: in a sorted queue the observation it ends with   *)
(* is nearest to the keyframe, although it stops at the first later one    *)
(* that is no better.                                                      *)
LEMMA NearestIndexIsNearest ==
  ASSUME NEW q \in Seq(Nat), q # <<>>, Sorted(q), NEW stamp \in Nat
  PROVE  /\ NearestIndex(q, stamp) \in DOMAIN q
         /\ \A k \in DOMAIN q :
              Distance(q[NearestIndex(q, stamp)], stamp) <= Distance(q[k], stamp)
<1> DEFINE n == Len(q)
           D == [best : DOMAIN q, left : BOOLEAN]
           round(i, prev) ==
             IF prev.left \/ (/\ Distance(q[i], stamp) >= Distance(q[prev.best], stamp)
                              /\ q[i] > stamp)
               THEN [prev EXCEPT !.left = TRUE]
             ELSE IF Distance(q[i], stamp) < Distance(q[prev.best], stamp)
               THEN [best |-> i, left |-> FALSE]
             ELSE prev
           start == [best |-> 1, left |-> FALSE]
           body(scan) == [i \in DOMAIN q |-> IF i = 1 THEN start ELSE round(i, scan[i - 1])]
           scan == CHOOSE scan : scan = body(scan)
<1>1. NearestIndex(q, stamp) = scan[Len(q)].best
  BY DEF NearestIndex
<1>2. n \in Nat \ {0} /\ DOMAIN q = 1 .. n /\ 1 \in DOMAIN q /\ n \in DOMAIN q
  BY EmptySeq
<1>3. start \in D
  BY <1>2
<1>4. \A i \in DOMAIN q, prev \in D : round(i, prev) \in D
  OBVIOUS
<1> HIDE DEF D, start, round
<1>5. \E f : f = body(f)
  <2> DEFINE F == [i \in 1 .. n |-> [prev \in D |-> IF i = 1 THEN start ELSE round(i, prev)]]
  <2>1. F \in Rounds(n, D)
    BY <1>2, <1>3, <1>4 DEF Rounds
  <2>2. PICK f \in [0 .. n -> D] :
          f[0] = start /\ \A i \in 1 .. n : f[i] = F[i][f[i - 1]]
    <3>1. n \in Nat
      BY <1>2
    <3> HIDE DEF F, n
    <3>2. PICK f : IsLoop(f, n, D, start, F)
      BY <1>3, <2>1, <3>1, LoopExists, Zenon
    <3> QED
      BY <3>2 DEF IsLoop
  <2> DEFINE g == [i \in DOMAIN q |-> f[i]]
  <2>3. \A i \in DOMAIN q : f[i - 1] \in D /\ i \in 1 .. n
    BY <1>2, <2>2
  <2>4. \A i \in DOMAIN q : f[i] = IF i = 1 THEN start ELSE round(i, f[i - 1])
    BY <1>2, <2>2, <2>3
  <2>5. \A i \in DOMAIN q : i # 1 => f[i - 1] = g[i - 1]
    BY <1>2
  <2>6. \A i \in DOMAIN q : g[i] = IF i = 1 THEN start ELSE round(i, g[i - 1])
    BY <2>4, <2>5
  <2> HIDE DEF F
  <2>7. g = body(g)
    BY <2>4, <2>5
  <2> QED
    BY <2>7
<1>6. scan = body(scan)
  BY <1>5
<1> HIDE DEF scan
<1>7. \A i \in DOMAIN q : scan[i] = IF i = 1 THEN start ELSE round(i, scan[i - 1])
  BY <1>6
<1> DEFINE d(i) == Distance(q[i], stamp)
           Good(i) == /\ scan[i] \in D
                      /\ \A k \in 1 .. i : d(scan[i].best) <= d(k)
                      /\ scan[i].left => \A k \in DOMAIN q : d(scan[i].best) <= d(k)
           bad == {i \in DOMAIN q : ~ Good(i)}
<1>8. /\ \A i \in DOMAIN q : d(i) \in Nat /\ q[i] \in Nat
      /\ \A i, k \in DOMAIN q : i <= k /\ q[i] > stamp => d(i) <= d(k)
  <2>1. \A i \in DOMAIN q : q[i] \in Nat /\ d(i) \in Nat /\ (q[i] > stamp => d(i) = q[i] - stamp)
    <3> TAKE i \in DOMAIN q
    <3>1. q[i] \in Nat /\ q[i] \in Int /\ stamp \in Int
      OBVIOUS
    <3> QED
      BY <3>1, DistanceProperties
  <2>2. ASSUME NEW i \in DOMAIN q, NEW k \in DOMAIN q, i <= k, q[i] > stamp
        PROVE  d(i) <= d(k)
    <3>1. i \in Nat /\ k \in Nat
      BY <1>2
    <3>2. q[i] <= q[k]
      BY <2>1, <2>2, <3>1 DEF Sorted
    <3> HIDE DEF d
    <3>3. q[k] > stamp
      BY <2>1, <2>2, <3>2
    <3> QED
      BY <2>1, <2>2, <3>2, <3>3
  <2> QED
    BY <2>1, <2>2
<1> HIDE DEF d
<1>9. bad = {}
  <2> SUFFICES ASSUME bad # {} PROVE FALSE
    OBVIOUS
  <2>1. bad \in SUBSET Nat
    BY <1>2
  <2>2. PICK i \in bad : \A m \in bad : i <= m
    BY <2>1, LeastMember
  <2>3. i \in DOMAIN q /\ ~ Good(i)
    BY <2>2
  <2>4. CASE i = 1
    <3>1. scan[i] = start
      BY <1>7, <2>3, <2>4
    <3>2. scan[i] \in D /\ scan[i].best = 1 /\ ~ scan[i].left
      BY <1>3, <3>1 DEF start
    <3>3. \A k \in 1 .. 1 : k = 1
      OBVIOUS
    <3>4. d(1) \in Nat
      BY <1>2, <1>8, Zenon
    <3>5. d(1) <= d(1)
      BY <3>4
    <3> QED
      BY <2>3, <2>4, <3>2, <3>3, <3>5
  <2>5. CASE i # 1
    <3> DEFINE prev == scan[i - 1]
    <3>1. i - 1 \in DOMAIN q /\ ~ (i <= i - 1) /\ i \in Nat
      BY <1>2, <2>3, <2>5
    <3>2. Good(i - 1)
      BY <2>2, <3>1
    <3>3. scan[i] = round(i, prev)
      BY <1>7, <2>3, <2>5
    <3>4. /\ prev \in D /\ \A k \in 1 .. i - 1 : d(prev.best) <= d(k)
          /\ prev.left => \A k \in DOMAIN q : d(prev.best) <= d(k)
      BY <3>2
    <3> HIDE DEF prev
    <3>5. scan[i] \in D
      BY <1>4, <2>3, <3>3, <3>4
    <3>6. prev.best \in DOMAIN q
      BY <3>4 DEF D
    <3>7. \A k \in 1 .. i : k \in 1 .. i - 1 \/ k = i
      BY <3>1
    <3>8. 1 .. i \subseteq DOMAIN q /\ \A k \in DOMAIN q : k \in 1 .. i - 1 \/ i <= k
      BY <1>2, <2>3
    <3>9. CASE prev.left
      <4>1. scan[i].best = prev.best
        BY <3>3, <3>4, <3>9 DEF round, D
      <4> QED
        BY <2>3, <3>4, <3>5, <3>8, <3>9, <4>1
    <3>10. CASE ~ prev.left /\ d(i) >= d(prev.best) /\ q[i] > stamp
      <4>1. scan[i].best = prev.best
        BY <3>3, <3>4, <3>10 DEF round, D, d
      <4>2. \A k \in DOMAIN q : i <= k => d(prev.best) <= d(k)
        <5>1. \A k \in DOMAIN q : i <= k => d(i) <= d(k) /\ d(k) \in Nat
          BY <1>8, <2>3, <3>10
        <5>2. d(prev.best) \in Nat /\ d(i) \in Nat
          BY <1>8, <2>3, <3>6
        <5> QED
          BY <3>10, <5>1, <5>2
      <4>3. \A k \in DOMAIN q : d(prev.best) <= d(k)
        BY <3>4, <3>8, <4>2
      <4> QED
        BY <2>3, <3>5, <3>8, <4>1, <4>3
    <3>11. CASE ~ prev.left /\ d(i) < d(prev.best)
      <4>1. scan[i] = [best |-> i, left |-> FALSE]
        <5>1. d(i) \in Nat /\ d(prev.best) \in Nat
          BY <1>8, <2>3, <3>6
        <5>2. ~ (d(i) >= d(prev.best))
          BY <3>11, <5>1
        <5> QED
          BY <3>3, <3>11, <5>2 DEF round, d
      <4>2. \A k \in 1 .. i - 1 : d(i) <= d(k)
        <5>1. \A k \in 1 .. i - 1 : k \in DOMAIN q
          BY <3>8, <1>2, <2>3
        <5>2. d(i) \in Nat /\ d(prev.best) \in Nat
          BY <1>8, <2>3, <3>6
        <5> QED
          BY <1>8, <3>4, <3>11, <5>1, <5>2
      <4>3. d(i) <= d(i)
        BY <1>8, <2>3
      <4> QED
        BY <2>3, <3>5, <3>7, <4>1, <4>2, <4>3
    <3>12. CASE /\ ~ prev.left /\ ~ (d(i) < d(prev.best))
                /\ ~ (d(i) >= d(prev.best) /\ q[i] > stamp)
      <4>1. scan[i] = prev
        BY <3>3, <3>12 DEF round, d
      <4>2. d(prev.best) <= d(i)
        BY <1>8, <2>3, <3>6, <3>12
      <4> QED
        BY <2>3, <3>4, <3>5, <3>7, <3>12, <4>1, <4>2
    <3> QED
      BY <3>9, <3>10, <3>11, <3>12
  <2> QED
    BY <2>4, <2>5
<1>10. Good(n)
  BY <1>2, <1>9
<1> QED
  BY <1>1, <1>2, <1>10 DEF D, d

(* processLivo's loop: in a sorted queue it ends with no observation only  *)
(* if none lies within the tolerance, and otherwise with a nearest one,    *)
(* although it stops at the first one beyond the tolerance.                *)
LEMMA NearestWithinIsNearest ==
  ASSUME NEW q \in Seq(Nat), Sorted(q), NEW stamp \in Nat, NEW tol \in Nat
  PROVE  /\ NearestWithin(q, stamp, tol) \in 0 .. Len(q)
         /\ NearestWithin(q, stamp, tol) = 0 =>
              \A k \in DOMAIN q : Distance(q[k], stamp) > tol
         /\ NearestWithin(q, stamp, tol) # 0 =>
              /\ Distance(q[NearestWithin(q, stamp, tol)], stamp) <= tol
              /\ \A k \in DOMAIN q :
                   Distance(q[NearestWithin(q, stamp, tol)], stamp) <= Distance(q[k], stamp)
<1> DEFINE n == Len(q)
           D == [best : 0 .. n, least : Nat, left : BOOLEAN]
           nearer(i, prev) ==
             IF Distance(q[i], stamp) <= prev.least
               THEN [prev EXCEPT !.best = i, !.least = Distance(q[i], stamp)]
               ELSE prev
           round(i, prev) ==
             IF prev.left THEN prev
             ELSE [nearer(i, prev) EXCEPT !.left = q[i] > stamp + tol]
           start == [best |-> 0, least |-> tol, left |-> FALSE]
           body(scan) == [i \in 0 .. Len(q) |-> IF i = 0 THEN start ELSE round(i, scan[i - 1])]
           scan == CHOOSE scan : scan = body(scan)
<1>1. NearestWithin(q, stamp, tol) = scan[Len(q)].best
  BY DEF NearestWithin
<1>2. n \in Nat /\ DOMAIN q = 1 .. n
  OBVIOUS
<1>3. start \in D
  BY <1>2
<1>4. \A i \in 1 .. n, prev \in D :
        /\ nearer(i, prev) \in D /\ nearer(i, prev).left = prev.left
        /\ round(i, prev) \in D
  <2> TAKE i \in 1 .. n, prev \in D
  <2>1. q[i] \in Int /\ stamp \in Int /\ i \in 0 .. n
    BY <1>2
  <2> DEFINE diff == Distance(q[i], stamp)
             b == q[i] > stamp + tol
  <2>2. diff \in Nat
    BY <2>1, DistanceProperties
  <2>3. b \in BOOLEAN
    OBVIOUS
  <2>4. nearer(i, prev) =
          IF diff <= prev.least THEN [prev EXCEPT !.best = i, !.least = diff] ELSE prev
    OBVIOUS
  <2>5. round(i, prev) = IF prev.left THEN prev ELSE [nearer(i, prev) EXCEPT !.left = b]
    OBVIOUS
  <2> HIDE DEF nearer, round, diff, b
  <2>6. nearer(i, prev) \in D /\ nearer(i, prev).left = prev.left
    BY <2>1, <2>2, <2>4
  <2>7. round(i, prev) \in D
    BY <2>3, <2>5, <2>6
  <2> QED
    BY <2>6, <2>7
<1>5. \A i \in 1 .. n, prev \in D :
        ~ prev.left =>
          /\ round(i, prev).left = (q[i] > stamp + tol)
          /\ Distance(q[i], stamp) <= prev.least =>
               round(i, prev).best = i /\ round(i, prev).least = Distance(q[i], stamp)
          /\ ~ (Distance(q[i], stamp) <= prev.least) =>
               round(i, prev).best = prev.best /\ round(i, prev).least = prev.least
  OBVIOUS
<1>6. \A i \in 1 .. n, prev \in D : prev.left => round(i, prev) = prev
  OBVIOUS
<1>7. start.best = 0 /\ start.least = tol /\ ~ start.left
  OBVIOUS
<1> HIDE DEF D, start, round, nearer
<1>8. \E f : f = body(f)
  <2> DEFINE F == [i \in 1 .. n |-> [prev \in D |-> round(i, prev)]]
  <2>1. F \in Rounds(n, D)
    BY <1>2, <1>4 DEF Rounds
  <2>2. PICK f \in [0 .. n -> D] :
          f[0] = start /\ \A i \in 1 .. n : f[i] = F[i][f[i - 1]]
    <3> HIDE DEF F, n
    <3>1. PICK f : IsLoop(f, n, D, start, F)
      BY <1>2, <1>3, <2>1, LoopExists, Zenon
    <3> QED
      BY <3>1 DEF IsLoop
  <2>3. \A i \in 1 .. n : f[i - 1] \in D
    BY <1>2, <2>2
  <2>4. \A i \in 1 .. n : f[i] = round(i, f[i - 1])
    BY <2>2, <2>3
  <2>5. \A i \in 0 .. n : f[i] = IF i = 0 THEN start ELSE round(i, f[i - 1])
    BY <1>2, <2>2, <2>4
  <2> HIDE DEF F
  <2>6. f = body(f)
    BY <2>2, <2>5
  <2> QED
    BY <2>6
<1>9. scan = body(scan)
  BY <1>8
<1> HIDE DEF scan
<1>10. \A i \in 0 .. n : scan[i] = IF i = 0 THEN start ELSE round(i, scan[i - 1])
  BY <1>9
<1> DEFINE d(i) == Distance(q[i], stamp)
           Good(i) ==
             /\ scan[i] \in D
             /\ scan[i].least <= tol
             /\ scan[i].best # 0 => scan[i].least = d(scan[i].best)
             /\ \A k \in 1 .. i : IF scan[i].best = 0 THEN d(k) > tol ELSE scan[i].least <= d(k)
             /\ scan[i].best = 0 => scan[i].least = tol
             /\ scan[i].left => \A k \in 1 .. n : k > i => d(k) > tol
           bad == {i \in 0 .. n : ~ Good(i)}
<1>11. /\ \A i \in 1 .. n : d(i) \in Nat /\ q[i] \in Nat
       /\ \A i, k \in 1 .. n : i < k /\ q[i] > stamp + tol => d(k) > tol
  <2>1. \A i \in 1 .. n : q[i] \in Nat /\ d(i) \in Nat /\ (q[i] > stamp => d(i) = q[i] - stamp)
    <3> TAKE i \in 1 .. n
    <3>1. q[i] \in Nat /\ q[i] \in Int /\ stamp \in Int
      BY <1>2
    <3> QED
      BY <3>1, DistanceProperties
  <2>2. ASSUME NEW i \in 1 .. n, NEW k \in 1 .. n, i < k, q[i] > stamp + tol
        PROVE  d(k) > tol
    <3>1. q[i] <= q[k]
      BY <1>2, <2>2 DEF Sorted
    <3> HIDE DEF d
    <3>2. q[k] > stamp + tol /\ q[k] > stamp
      BY <2>1, <2>2, <3>1
    <3> QED
      BY <2>1, <2>2, <3>2
  <2> QED
    BY <2>1, <2>2
<1> HIDE DEF d
<1>12. bad = {}
  <2> SUFFICES ASSUME bad # {} PROVE FALSE
    OBVIOUS
  <2>1. bad \in SUBSET Nat
    BY <1>2
  <2>2. PICK i \in bad : \A m \in bad : i <= m
    BY <2>1, LeastMember
  <2>3. i \in 0 .. n /\ ~ Good(i)
    BY <2>2
  <2>4. CASE i = 0
    <3>1. scan[0] = start
      BY <1>10, <2>3, <2>4
    <3>2. 1 .. 0 = {}
      OBVIOUS
    <3> QED
      BY <1>3, <1>7, <2>3, <2>4, <3>1, <3>2
  <2>5. CASE i # 0
    <3> DEFINE prev == scan[i - 1]
               this == scan[i]
    <3>1. i - 1 \in 0 .. n /\ ~ (i <= i - 1) /\ i \in 1 .. n
      BY <1>2, <2>3, <2>5
    <3>2. Good(i - 1)
      BY <2>2, <3>1
    <3>3. this = round(i, prev)
      BY <1>10, <2>3, <2>5
    <3>4. /\ prev \in D /\ prev.least <= tol
          /\ prev.best # 0 => prev.least = d(prev.best)
          /\ \A k \in 1 .. i - 1 : IF prev.best = 0 THEN d(k) > tol ELSE prev.least <= d(k)
          /\ prev.best = 0 => prev.least = tol
          /\ prev.left => \A k \in 1 .. n : k > i - 1 => d(k) > tol
      BY <3>2
    <3> HIDE DEF prev
    <3>5. this \in D
      BY <1>4, <3>1, <3>3, <3>4
    <3> HIDE DEF this
    <3>6. \A k \in 1 .. i : k \in 1 .. i - 1 \/ k = i
      BY <3>1
    <3>7. prev.least \in Nat /\ d(i) \in Nat /\ 1 .. i \subseteq 1 .. n
      BY <1>2, <1>11, <3>1, <3>4 DEF D
    <3>8. CASE prev.left
      <4>1. this = prev
        BY <1>6, <3>1, <3>3, <3>4, <3>8
      <4>2. d(i) > tol /\ prev.least <= d(i)
        <5>1. i > i - 1
          BY <3>1
        <5>2. d(i) > tol
          BY <3>1, <3>4, <3>8, <5>1
        <5> QED
          BY <3>4, <3>7, <5>2
      <4>3. \A k \in 1 .. i : IF this.best = 0 THEN d(k) > tol ELSE this.least <= d(k)
        BY <3>4, <3>6, <4>1, <4>2
      <4>4. \A k \in 1 .. n : k > i => k > i - 1
        BY <3>1
      <4>5. \A k \in 1 .. n : k > i => d(k) > tol
        BY <3>4, <3>8, <4>4
      <4> QED
        BY <2>3, <3>4, <3>5, <4>1, <4>3, <4>5 DEF this
    <3>9. CASE ~ prev.left
      <4>1. this.left = (q[i] > stamp + tol)
        BY <1>5, <3>1, <3>3, <3>4, <3>9
      <4>2. this.left => \A k \in 1 .. n : k > i => d(k) > tol
        <5>1. \A k \in 1 .. n : k > i => i < k
          BY <3>1
        <5> QED
          BY <1>11, <3>1, <4>1, <5>1
      <4>3. CASE d(i) <= prev.least
        <5>1. this.best = i /\ this.least = d(i)
          BY <1>5, <3>1, <3>3, <3>4, <3>9, <4>3 DEF d
        <5>2. d(i) <= tol
          BY <3>4, <3>7, <4>3
        <5>3. \A k \in 1 .. i - 1 : d(i) <= d(k)
          <6> TAKE k \in 1 .. i - 1
          <6>1. d(k) \in Nat
            BY <1>11, <3>1, <1>2
          <6>2. CASE prev.best = 0
            BY <3>4, <3>7, <5>2, <6>1, <6>2
          <6>3. CASE prev.best # 0
            BY <3>4, <3>7, <4>3, <6>1, <6>3
          <6> QED
            BY <6>2, <6>3
        <5>4. d(i) <= d(i) /\ i # 0
          BY <3>1, <3>7
        <5>5. \A k \in 1 .. i : IF this.best = 0 THEN d(k) > tol ELSE this.least <= d(k)
          BY <3>6, <5>1, <5>3, <5>4
        <5> QED
          BY <2>3, <3>5, <4>2, <5>1, <5>2, <5>4, <5>5 DEF this
      <4>4. CASE ~ (d(i) <= prev.least)
        <5>1. this.best = prev.best /\ this.least = prev.least
          BY <1>5, <3>1, <3>3, <3>4, <3>9, <4>4 DEF d
        <5>2. prev.least <= d(i) /\ (prev.best = 0 => d(i) > tol)
          BY <3>4, <3>7, <4>4
        <5>3. \A k \in 1 .. i : IF this.best = 0 THEN d(k) > tol ELSE this.least <= d(k)
          BY <3>4, <3>6, <5>1, <5>2
        <5> QED
          BY <2>3, <3>4, <3>5, <4>2, <5>1, <5>3 DEF this
      <4> QED
        BY <4>3, <4>4
    <3> QED
      BY <3>8, <3>9
  <2> QED
    BY <2>4, <2>5
<1>13. Good(n)
  <2>1. n \in 0 .. n
    BY <1>2
  <2> QED
    BY <1>12, <2>1
<1>14. scan[n].best \in 0 .. n
  BY <1>13 DEF D
<1> QED
  BY <1>1, <1>2, <1>13, <1>14 DEF d

=============================================================================
