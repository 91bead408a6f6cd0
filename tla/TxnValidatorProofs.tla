------------------------- MODULE TxnValidatorProofs -------------------------
(***************************************************************************)
(* For every set of transactions, any batch and any interleaving of the    *)
(* validator threads: a transaction is validated after its parents in the  *)
(* batch, the scheduler loses count of no task, and no orphan is left      *)
(* behind when its inputs are there.  TxnConflictProofs builds on the      *)
(* invariants proved here.                                                 *)
(***************************************************************************)
EXTENDS TxnValidator, SequenceTheorems, FiniteSetTheorems, WellFoundedInduction, TLAPS

-----------------------------------------------------------------------------
(* Numbers, sets and sequences.                                            *)

(* A non-empty set of naturals has a least element.                        *)
LEMMA LeastNatural ==
  ASSUME NEW S, S \subseteq Nat, S # {}
  PROVE  \E m \in S : \A k \in S : m <= k
<1> DEFINE R == OpToRel(<, Nat)
<1>1. IsWellFoundedOn(R, Nat)
  BY NatLessThanWellFounded, Zenon
<1>2. PICK m \in S : \A k \in S : ~(<<k, m>> \in R)
  <2> HIDE DEF R
  <2> QED BY <1>1, WFMin, Zenon
<1>3. \A k \in S : ~(k < m)
  BY <1>2, Zenon DEF OpToRel
<1> QED BY <1>3

(* Appending keeps what a sequence holds.                                  *)
LEMMA AppendKeeps ==
  ASSUME NEW S, NEW q \in Seq(S), NEW e
  PROVE  Range(q) \subseteq Range(Append(q, e))
<1>1. DOMAIN q \subseteq DOMAIN Append(q, e) /\ \A i \in DOMAIN q : Append(q, e)[i] = q[i]
  OBVIOUS
<1> QED BY <1>1, Zenon DEF Range

(* SetToSeq lists every element of a finite set once.                      *)
LEMMA SetToSeqLists ==
  ASSUME NEW S, IsFiniteSet(S)
  PROVE  /\ SetToSeq(S) \in Seq(S)
         /\ Len(SetToSeq(S)) = Cardinality(S)
         /\ IsInjective(SetToSeq(S))
         /\ Range(SetToSeq(S)) = S
<1> DEFINE n == Cardinality(S)  f == SetToSeq(S)
<1>1. n \in Nat /\ \E g \in [1..n -> S] : IsInjective(g)
  BY FS_CardinalityType, Zenon DEF ExistsBijection, Bijection, Injection
<1>2. f \in [1..n -> S] /\ IsInjective(f)
  BY <1>1, Zenon DEF SetToSeq
<1>3. f \in Injection(1..n, S) /\ Cardinality(1..n) = n
  BY <1>1, <1>2, FS_Interval DEF Injection
<1>4. f \in Surjection(1..n, S)
  <2> HIDE DEF f
  <2> QED BY <1>3, FS_Injection
<1>5. Range(f) = S
  BY <1>2, <1>4, Zenon DEF Surjection, Range
<1> HIDE DEF f
<1>6. f \in Seq(S) /\ Len(f) = n
  BY <1>1, <1>2
<1> QED BY <1>2, <1>5, <1>6 DEF f

(* Positions of a sequence can be listed in their order.                   *)
LEMMA InOrder ==
  ASSUME NEW n \in Nat, NEW I \in SUBSET (1..n)
  PROVE  /\ Cardinality(I) \in Nat
         /\ \E f \in [1..Cardinality(I) -> I] :
              \A j, k \in 1..Cardinality(I) : j < k => f[j] < f[k]
<1> DEFINE Upto(m) == {i \in I : i <= m}
           Listed(m) == \E f \in [1..Cardinality(Upto(m)) -> Upto(m)] :
                          \A j, k \in 1..Cardinality(Upto(m)) : j < k => f[j] < f[k]
<1>1. \A m \in 0..n : IsFiniteSet(Upto(m)) /\ Cardinality(Upto(m)) \in Nat
  <2> TAKE m \in 0..n
  <2>1. \A x \in Upto(m) : x \in 1..n
    OBVIOUS
  <2> HIDE DEF Upto
  <2>2. IsFiniteSet(1..n)
    BY FS_Interval
  <2>3. Upto(m) \in SUBSET (1..n)
    BY <2>1, Zenon
  <2>4. IsFiniteSet(Upto(m))
    BY <2>2, <2>3, FS_Subset, Zenon
  <2> QED BY <2>4, FS_CardinalityType, Zenon
<1>2. Upto(0) = {} /\ Upto(n) = I
  <2>1. \A x \in Upto(0) : FALSE
    OBVIOUS
  <2>2. \A x \in I : x \in Upto(n)
    OBVIOUS
  <2>3. Upto(n) \subseteq I
    OBVIOUS
  <2> HIDE DEF Upto
  <2> QED BY <2>1, <2>2, <2>3, Zenon
<1>3. Listed(0)
  <2>1. Cardinality(Upto(0)) = 0 /\ 1..0 = {}
    BY <1>2, FS_EmptySet
  <2> DEFINE f == [k \in 1..0 |-> 0]
  <2>2. f \in [1..Cardinality(Upto(0)) -> Upto(0)]
    BY <2>1, Zenon
  <2> QED BY <2>1, <2>2, Zenon
<1>4. ASSUME NEW m \in 1..n, Listed(m - 1)
      PROVE  Listed(m)
  <2>0. m - 1 \in 0..n /\ m \in 0..n
    OBVIOUS
  <2>1. CASE m \notin I
    <3>1. \A x \in Upto(m) : x \in Upto(m - 1)
      BY <2>1
    <3>2. \A x \in Upto(m - 1) : x \in Upto(m)
      OBVIOUS
    <3> HIDE DEF Upto
    <3>3. Upto(m) = Upto(m - 1)
      BY <3>1, <3>2, Zenon
    <3> QED BY <3>3, <1>4, Zenon
  <2>2. CASE m \in I
    <3> DEFINE c == Cardinality(Upto(m - 1))
    <3>1. /\ \A x \in Upto(m) : x \in Upto(m - 1) \/ x = m
          /\ \A x \in Upto(m - 1) : x \in Upto(m) /\ x < m /\ x \in Int
          /\ m \in Upto(m) /\ m \notin Upto(m - 1)
      BY <2>2
    <3>2. IsFiniteSet(Upto(m - 1)) /\ c \in Nat
      BY <1>1, <2>0, Zenon
    <3> HIDE DEF Upto
    <3>3. Upto(m) = Upto(m - 1) \cup {m}
      BY <3>1, Zenon
    <3>4. Cardinality(Upto(m)) = c + 1
      BY <3>1, <3>2, <3>3, FS_AddElement, Zenon
    <3>5. PICK f \in [1..c -> Upto(m - 1)] : \A j, k \in 1..c : j < k => f[j] < f[k]
      BY <1>4, Zenon
    <3> DEFINE g == [k \in 1..c + 1 |-> IF k = c + 1 THEN m ELSE f[k]]
    <3> HIDE DEF c
    <3>6. \A k \in 1..c + 1 : k # c + 1 => k \in 1..c /\ f[k] \in Upto(m - 1)
      BY <3>2, <3>5
    <3>7. g \in [1..c + 1 -> Upto(m)]
      BY <3>1, <3>6
    <3>8. \A j, k \in 1..c + 1 : j < k => g[j] < g[k]
      <4> TAKE j, k \in 1..c + 1
      <4> HAVE j < k
      <4>1. j \in 1..c /\ g[j] = f[j] /\ f[j] < m
        BY <3>1, <3>2, <3>6
      <4>2. CASE k = c + 1
        BY <4>1, <4>2, Zenon
      <4>3. CASE k # c + 1
        BY <4>1, <4>3, <3>2, <3>5
      <4> QED BY <4>2, <4>3
    <3> HIDE DEF g
    <3> QED BY <3>4, <3>7, <3>8, Zenon DEF c
  <2> QED BY <2>1, <2>2, Zenon
<1>5. \A m \in 0..n : Listed(m)
  <2> DEFINE Bad == {m \in 0..n : ~Listed(m)}
  <2> HIDE DEF Listed
  <2>1. SUFFICES ASSUME Bad # {} PROVE FALSE
    OBVIOUS
  <2>2. Bad \subseteq Nat
    OBVIOUS
  <2>3. PICK m \in Bad : \A k \in Bad : m <= k
    BY <2>1, <2>2, LeastNatural, Zenon
  <2>4. m \in 1..n /\ m - 1 \in 0..n /\ ~(m <= m - 1)
    BY <2>3, <1>3
  <2>5. Listed(m - 1)
    BY <2>3, <2>4, Zenon
  <2> QED BY <2>3, <2>4, <2>5, <1>4, Zenon
<1>6. Listed(n) /\ Cardinality(I) \in Nat
  <2> HIDE DEF Upto, Listed
  <2> QED BY <1>1, <1>2, <1>5
<1> HIDE DEF Upto
<1> QED BY <1>2, <1>6, Zenon

(* At keeps the elements of a sequence, and that they are distinct.        *)
LEMMA AtKeeps ==
  ASSUME NEW S, NEW s \in Seq(S), NEW I \in SUBSET (DOMAIN s)
  PROVE  /\ At(s, I) \in Seq(S)
         /\ Range(At(s, I)) \subseteq {s[i] : i \in I}
         /\ IsInjective(s) => IsInjective(At(s, I))
<1> DEFINE c == Cardinality(I)
           order == CHOOSE f \in [1..c -> I] : \A j, k \in 1..c : j < k => f[j] < f[k]
<1>1. Len(s) \in Nat /\ DOMAIN s = 1..Len(s)
  OBVIOUS
<1>2. c \in Nat /\ \E f \in [1..c -> I] : \A j, k \in 1..c : j < k => f[j] < f[k]
  BY <1>1, InOrder, Zenon
<1>3. order \in [1..c -> I] /\ \A j, k \in 1..c : j < k => order[j] < order[k]
  BY <1>2, Zenon
<1>4. At(s, I) = [k \in 1..c |-> s[order[k]]]
  BY DEF At
<1> HIDE DEF order, c
<1>5. At(s, I) \in Seq(S) /\ DOMAIN At(s, I) = 1..c
  BY <1>1, <1>2, <1>3, <1>4
<1>6. Range(At(s, I)) \subseteq {s[i] : i \in I}
  BY <1>3, <1>4, <1>5 DEF Range
<1>7. ASSUME IsInjective(s) PROVE IsInjective(At(s, I))
  <2> SUFFICES ASSUME NEW j \in 1..c, NEW k \in 1..c, At(s, I)[j] = At(s, I)[k]
               PROVE  j = k
    BY <1>5, Zenon DEF IsInjective
  <2>1. order[j] = order[k]
    BY <1>1, <1>3, <1>4, <1>7 DEF IsInjective
  <2>2. order[j] \in Int /\ order[k] \in Int
    BY <1>1, <1>3
  <2> QED BY <1>2, <1>3, <2>1, <2>2
<1> QED BY <1>5, <1>6, <1>7, Zenon

(* At leaves out nothing at the positions it is asked for.                 *)
LEMMA AtHolds ==
  ASSUME NEW S, NEW s \in Seq(S), NEW I \in SUBSET (DOMAIN s), NEW i \in I
  PROVE  s[i] \in Range(At(s, I))
<1> DEFINE c == Cardinality(I)
           order == CHOOSE f \in [1..c -> I] : \A j, k \in 1..c : j < k => f[j] < f[k]
<1>1. Len(s) \in Nat /\ DOMAIN s = 1..Len(s)
  OBVIOUS
<1>2. c \in Nat /\ \E f \in [1..c -> I] : \A j, k \in 1..c : j < k => f[j] < f[k]
  BY <1>1, InOrder, Zenon
<1>3. order \in [1..c -> I] /\ \A j, k \in 1..c : j < k => order[j] < order[k]
  BY <1>2, Zenon
<1>4. At(s, I) = [k \in 1..c |-> s[order[k]]]
  BY DEF At
<1>5. IsFiniteSet(I) /\ Cardinality(1..c) = c
  <2>1. IsFiniteSet(1..Len(s))
    BY <1>1, FS_Interval
  <2>2. IsFiniteSet(I)
    BY <1>1, <2>1, FS_Subset, Zenon
  <2> HIDE DEF c
  <2>3. Cardinality(1..c) = c
    BY <1>2, FS_Interval
  <2> QED BY <2>2, <2>3
<1> HIDE DEF order
<1>6. order \in Injection(1..c, I)
  <2>1. \A j, k \in 1..c : order[j] \in Int /\ order[k] \in Int
    BY <1>1, <1>3
  <2>2. ASSUME NEW j \in 1..c, NEW k \in 1..c, order[j] = order[k] PROVE j = k
    BY <1>2, <1>3, <2>1, <2>2
  <2> QED BY <1>3, <2>2, Zenon DEF Injection, IsInjective
<1>7. order \in Surjection(1..c, I)
  BY <1>5, <1>6, FS_Injection
<1>8. PICK k \in 1..c : order[k] = i
  BY <1>7, Zenon DEF Surjection
<1> HIDE DEF c
<1> QED BY <1>4, <1>8, Zenon DEF Range

(* The elements of a concatenation, and when they are distinct.            *)
LEMMA ConcatRange ==
  ASSUME NEW S, NEW q \in Seq(S), NEW r \in Seq(S)
  PROVE  /\ Range(q \o r) = Range(q) \cup Range(r)
         /\ IsInjective(q) /\ IsInjective(r) /\ Range(q) \cap Range(r) = {}
              => IsInjective(q \o r)
<1> DEFINE c == q \o r
<1>1. /\ Len(q) \in Nat /\ Len(r) \in Nat /\ c \in Seq(S) /\ DOMAIN c = 1..Len(q) + Len(r)
      /\ DOMAIN q = 1..Len(q) /\ DOMAIN r = 1..Len(r)
  OBVIOUS
<1>2. \A k \in 1..Len(q) : c[k] = q[k] /\ k \in 1..Len(q) + Len(r)
  OBVIOUS
<1>3. \A k \in 1..Len(r) : c[Len(q) + k] = r[k] /\ Len(q) + k \in 1..Len(q) + Len(r)
  OBVIOUS
<1>4. \A k \in 1..Len(q) + Len(r) :
        k \in 1..Len(q) \/ (k - Len(q) \in 1..Len(r) /\ c[k] = r[k - Len(q)])
  OBVIOUS
<1> HIDE DEF c
<1>5. Range(c) \subseteq Range(q) \cup Range(r)
  <2> SUFFICES ASSUME NEW k \in 1..Len(q) + Len(r)
               PROVE  c[k] \in Range(q) \cup Range(r)
    BY <1>1, Zenon DEF Range
  <2>1. CASE k \in 1..Len(q)
    BY <1>1, <1>2, <2>1, Zenon DEF Range
  <2>2. CASE k - Len(q) \in 1..Len(r) /\ c[k] = r[k - Len(q)]
    BY <1>1, <2>2, Zenon DEF Range
  <2> QED BY <1>4, <2>1, <2>2, Zenon
<1>6. Range(q) \cup Range(r) \subseteq Range(c)
  <2>1. \A k \in 1..Len(q) : q[k] \in Range(c)
    BY <1>1, <1>2, Zenon DEF Range
  <2>2. \A k \in 1..Len(r) : r[k] \in Range(c)
    BY <1>1, <1>3, Zenon DEF Range
  <2> QED BY <1>1, <2>1, <2>2, Zenon DEF Range
<1>7. ASSUME IsInjective(q), IsInjective(r), Range(q) \cap Range(r) = {}
      PROVE  IsInjective(c)
  <2> SUFFICES ASSUME NEW j \in 1..Len(q) + Len(r), NEW k \in 1..Len(q) + Len(r), c[j] = c[k]
               PROVE  j = k
    BY <1>1, Zenon DEF IsInjective
  <2>1. \A i \in 1..Len(q), m \in 1..Len(r) : q[i] # r[m]
    BY <1>1, <1>7, Zenon DEF Range
  <2>2. CASE j \in 1..Len(q) /\ k \in 1..Len(q)
    BY <1>1, <1>2, <1>7, <2>2, Zenon DEF IsInjective
  <2>3. CASE j \notin 1..Len(q) /\ k \notin 1..Len(q)
    <3>1. j - Len(q) = k - Len(q)
      BY <1>1, <1>4, <1>7, <2>3, Zenon DEF IsInjective
    <3> QED BY <1>1, <3>1
  <2>4. CASE j \in 1..Len(q) /\ k \notin 1..Len(q)
    BY <1>2, <1>4, <2>1, <2>4
  <2>5. CASE j \notin 1..Len(q) /\ k \in 1..Len(q)
    BY <1>2, <1>4, <2>1, <2>5
  <2> QED BY <2>2, <2>3, <2>4, <2>5
<1> QED BY <1>5, <1>6, <1>7, Zenon DEF c

(* Part of a sequence of distinct elements.                                *)
LEMMA SubSeqKeeps ==
  ASSUME NEW S, NEW q \in Seq(S), NEW m \in Nat \ {0}, NEW n \in Int, n <= Len(q)
  PROVE  /\ SubSeq(q, m, n) \in Seq(S)
         /\ Range(SubSeq(q, m, n)) = {q[k] : k \in m..n}
         /\ IsInjective(q) => IsInjective(SubSeq(q, m, n))
<1> DEFINE r == SubSeq(q, m, n)
<1>1. /\ Len(q) \in Nat /\ DOMAIN q = 1..Len(q) /\ \A k \in m..n : k \in 1..Len(q) /\ q[k] \in S
  OBVIOUS
<1>2. /\ r \in Seq(S) /\ Len(r) = IF m <= n THEN n - m + 1 ELSE 0
      /\ \A k \in 1..n - m + 1 : r[k] = q[m + k - 1]
  BY <1>1, SubSeqProperties
<1> HIDE DEF r
<1>3. DOMAIN r = 1..n - m + 1
  <2>1. DOMAIN r = 1..Len(r)
    BY <1>2
  <2>2. CASE m <= n
    BY <1>2, <2>1, <2>2, Zenon
  <2>3. CASE ~(m <= n)
    <3>1. 1..Len(r) = {} /\ 1..n - m + 1 = {}
      BY <1>2, <2>3
    <3> QED BY <2>1, <3>1, Zenon
  <2> QED BY <2>2, <2>3, Zenon
<1>4. \A k \in 1..n - m + 1 : m + k - 1 \in m..n /\ m + k - 1 \in Int
  OBVIOUS
<1>5. \A k \in m..n : k - m + 1 \in 1..n - m + 1 /\ m + (k - m + 1) - 1 = k
  OBVIOUS
<1>6. Range(r) \subseteq {q[k] : k \in m..n}
  BY <1>2, <1>3, <1>4, Zenon DEF Range
<1>7. {q[k] : k \in m..n} \subseteq Range(r)
  <2>1. ASSUME NEW k \in m..n PROVE \E j \in DOMAIN r : r[j] = q[k]
    <3>1. k - m + 1 \in DOMAIN r
      BY <1>3, <1>5, Zenon
    <3>2. r[k - m + 1] = q[k]
      BY <1>2, <1>5
    <3> QED BY <3>1, <3>2, Zenon
  <2>2. \A x : (\E j \in DOMAIN r : r[j] = x) => x \in Range(r)
    BY Zenon DEF Range
  <2> QED BY <2>1, <2>2, Zenon
<1>8. ASSUME IsInjective(q) PROVE IsInjective(r)
  <2> SUFFICES ASSUME NEW j \in 1..n - m + 1, NEW k \in 1..n - m + 1, r[j] = r[k]
               PROVE  j = k
    BY <1>3, Zenon DEF IsInjective
  <2>1. m + j - 1 = m + k - 1
    BY <1>1, <1>2, <1>4, <1>8, Zenon DEF IsInjective
  <2> QED BY <2>1
<1> QED BY <1>2, <1>6, <1>7, <1>8, Zenon DEF r

-----------------------------------------------------------------------------
(* The orphans that a retry collects.                                      *)

(* One step of the search collects more orphans, none of them twice.       *)
LEMMA VisitKeeps ==
  ASSUME orphans \subseteq Txs, NEW q \in Seq(orphans), IsInjective(q), NEW k \in Nat \ {0}
  PROVE  /\ Visit(q, k) \in Seq(orphans) /\ IsInjective(Visit(q, k))
         /\ Range(q) \subseteq Range(Visit(q, k))
<1>1. CASE k > Len(q) \/ Len(q) >= MaxOrphansInBatch
  BY <1>1, Zenon DEF Visit
<1>2. CASE ~(k > Len(q) \/ Len(q) >= MaxOrphansInBatch)
  <2> DEFINE new == OnlySpenders(q[k]) \ Range(q)
  <2>1. Visit(q, k) = q \o SetToSeq(new)
    BY <1>2, Zenon DEF Visit
  <2>2. new \subseteq orphans /\ new \cap Range(q) = {}
    BY Zenon DEF OnlySpenders
  <2> HIDE DEF new
  <2>3. IsFiniteSet(new)
    BY <2>2, TransactionAssumption, FS_Subset, Zenon
  <2>4. /\ SetToSeq(new) \in Seq(new) /\ IsInjective(SetToSeq(new))
        /\ Range(SetToSeq(new)) = new
    BY <2>3, SetToSeqLists, Zenon
  <2>5. SetToSeq(new) \in Seq(orphans)
    BY <2>2, <2>4, SeqMonotonic, Zenon
  <2>6. q \o SetToSeq(new) \in Seq(orphans)
    BY <2>5
  <2>7. /\ IsInjective(q \o SetToSeq(new))
        /\ Range(q \o SetToSeq(new)) = Range(q) \cup new
    <3> DEFINE r == SetToSeq(new)
    <3>1. r \in Seq(orphans) /\ IsInjective(r) /\ Range(r) = new /\ Range(q) \cap Range(r) = {}
      BY <2>2, <2>4, <2>5, Zenon
    <3> HIDE DEF r
    <3>2. IsInjective(q \o r) /\ Range(q \o r) = Range(q) \cup Range(r)
      BY <3>1, ConcatRange
    <3> QED BY <3>1, <3>2, Zenon DEF r
  <2> QED BY <2>1, <2>6, <2>7, Zenon
<1> QED BY <1>1, <1>2

(* So does the whole search.                                               *)
LEMMA VisitedKeeps ==
  ASSUME orphans \subseteq Txs, NEW s \in Seq(orphans), IsInjective(s)
  PROVE  /\ Visited(s) \in Seq(orphans) /\ IsInjective(Visited(s))
         /\ Range(s) \subseteq Range(Visited(s))
<1> DEFINE N == Cardinality(Txs)
           Good(q) == q \in Seq(orphans) /\ IsInjective(q) /\ Range(s) \subseteq Range(q)
           Upto(g, m) == /\ DOMAIN g = 0..m /\ g[0] = s
                         /\ \A k \in 1..m : g[k] = Visit(g[k - 1], k)
           Found(m) == \E g : g = [k \in 0..m |-> g[k]] /\ Upto(g, m)
           u == CHOOSE g : g = [k \in 0..N |-> IF k = 0 THEN s ELSE Visit(g[k - 1], k)]
<1>1. N \in Nat
  BY TransactionAssumption, FS_CardinalityType, Zenon
<1>2. Found(0)
  <2> DEFINE g == [k \in 0..0 |-> s]
  <2>1. g = [k \in 0..0 |-> g[k]] /\ Upto(g, 0)
    OBVIOUS
  <2> QED BY <2>1, Zenon
<1>3. ASSUME NEW m \in Nat, Found(m)
      PROVE  Found(m + 1)
  <2>1. PICK g : g = [k \in 0..m |-> g[k]] /\ Upto(g, m)
    BY <1>3, Zenon
  <2> DEFINE h == [k \in 0..m + 1 |-> IF k = m + 1 THEN Visit(g[m], m + 1) ELSE g[k]]
  <2>2. h = [k \in 0..m + 1 |-> h[k]] /\ DOMAIN h = 0..m + 1 /\ h[0] = s
    BY <2>1
  <2>3. ASSUME NEW k \in 1..m + 1 PROVE h[k] = Visit(h[k - 1], k)
    <3>1. CASE k = m + 1
      BY <3>1
    <3>2. CASE k # m + 1
      <4>1. k \in 1..m /\ k \in 0..m + 1 /\ k - 1 \in 0..m + 1 /\ k - 1 # m + 1
        BY <3>2
      <4>2. h[k] = g[k] /\ h[k - 1] = g[k - 1]
        BY <3>2, <4>1, Zenon
      <4> QED BY <2>1, <4>1, <4>2, Zenon
    <3> QED BY <3>1, <3>2
  <2> HIDE DEF h
  <2> QED BY <2>2, <2>3, Zenon
<1>4. Found(N)
  <2> DEFINE Bad == {m \in Nat : ~Found(m)}
  <2> HIDE DEF Found
  <2>1. SUFFICES ASSUME Bad # {} PROVE FALSE
    BY <1>1, Zenon
  <2>2. PICK m \in Bad : \A k \in Bad : m <= k
    <3>1. Bad \subseteq Nat
      BY Zenon
    <3> QED BY <2>1, <3>1, LeastNatural, Zenon
  <2>3. m - 1 \in Nat /\ ~(m <= m - 1) /\ m = (m - 1) + 1
    BY <2>2, <1>2
  <2>4. Found(m - 1)
    BY <2>2, <2>3, Zenon
  <2>5. Found((m - 1) + 1)
    BY <2>3, <2>4, <1>3, Zenon
  <2> QED BY <2>2, <2>3, <2>5, Zenon
<1>5. \E g : g = [k \in 0..N |-> IF k = 0 THEN s ELSE Visit(g[k - 1], k)]
  <2>1. PICK g : g = [k \in 0..N |-> g[k]] /\ Upto(g, N)
    BY <1>4, Zenon
  <2>2. ASSUME NEW k \in 0..N PROVE g[k] = IF k = 0 THEN s ELSE Visit(g[k - 1], k)
    BY <1>1, <2>1
  <2> QED BY <2>1, <2>2, Zenon
<1>6. u = [k \in 0..N |-> IF k = 0 THEN s ELSE Visit(u[k - 1], k)]
  BY <1>5, Zenon
<1>7. Visited(s) = u[N]
  BY DEF Visited
<1> HIDE DEF u, N
<1>8. u[0] = s /\ \A k \in 1..N : u[k] = Visit(u[k - 1], k)
  BY <1>1, <1>6
<1>9. \A m \in 0..N : Good(u[m])
  <2> DEFINE Bad == {m \in 0..N : ~Good(u[m])}
  <2> HIDE DEF Good
  <2>1. SUFFICES ASSUME Bad # {} PROVE FALSE
    BY Zenon
  <2>2. PICK m \in Bad : \A k \in Bad : m <= k
    <3>1. Bad \subseteq Nat
      OBVIOUS
    <3> QED BY <2>1, <3>1, LeastNatural, Zenon
  <2>3. m # 0
    BY <2>2, <1>8, Zenon DEF Good
  <2>4. m \in 1..N /\ m - 1 \in 0..N /\ ~(m <= m - 1) /\ m \in Nat \ {0}
    BY <2>2, <2>3, <1>1
  <2>5. Good(u[m - 1])
    BY <2>2, <2>4, Zenon
  <2>6. Good(Visit(u[m - 1], m))
    BY <2>4, <2>5, VisitKeeps, Zenon DEF Good
  <2> QED BY <2>2, <2>4, <2>6, <1>8
<1> QED BY <1>1, <1>7, <1>9

(* An orphan is collected for a retry at most once, and every orphan that  *)
(* spends an output of a transaction in data is.                           *)
LEMMA RetryKeeps ==
  ASSUME orphans \subseteq Txs, NEW data, NEW q \in CollectDependentTxnsForRetry(data)
  PROVE  /\ q \in Seq(orphans) /\ IsInjective(q)
         /\ \A t \in data : \A o \in Outs(t) : OrphansByPrev(o) \subseteq Range(q)
<1> DEFINE first == UNION {OrphansByPrev(o) : o \in UNION {Outs(t) : t \in data}}
<1>1. first \subseteq orphans
  BY Zenon DEF OrphansByPrev
<1>2. PICK s \in SetToSeqs(first) : q = IF Len(s) > MaxOrphansInBatch THEN s ELSE Visited(s)
  BY Zenon DEF CollectDependentTxnsForRetry
<1>0. \A t \in data : \A o \in Outs(t) : OrphansByPrev(o) \subseteq first
  BY Zenon
<1> HIDE DEF first
<1>3. IsFiniteSet(first) /\ Cardinality(first) \in Nat
  BY <1>1, TransactionAssumption, FS_Subset, FS_CardinalityType
<1>4. s \in [1..Cardinality(first) -> first] /\ IsInjective(s)
  BY Zenon DEF SetToSeqs, IsInjective
<1>5. s \in Seq(orphans)
  BY <1>1, <1>3, <1>4
<1>6. first \subseteq Range(s)
  <2>1. s \in Injection(1..Cardinality(first), first)
    BY <1>4, Zenon DEF Injection
  <2>2. Cardinality(1..Cardinality(first)) = Cardinality(first)
    BY <1>3, FS_Interval
  <2>3. s \in Surjection(1..Cardinality(first), first)
    BY <1>3, <2>1, <2>2, FS_Injection
  <2> QED BY <1>4, <2>3, Zenon DEF Surjection, Range
<1>7. q \in Seq(orphans) /\ IsInjective(q) /\ Range(s) \subseteq Range(q)
  BY <1>2, <1>4, <1>5, VisitedKeeps
<1> QED BY <1>0, <1>6, <1>7, Zenon

-----------------------------------------------------------------------------
(* The scheduler and the threads.                                          *)

Stages == {"ready", "detect", "commit", "finish", "reject", "over"}
Statuses == {"NOT_STARTED", "IN_PROGRESS", "DONE"}

(* Only a batch has stages, and only a batch in validation has tasks.      *)
BatchInv ==
  /\ txs \in Seq(Txs)
  /\ running \in {"idle", "validate", "sort"}
  /\ running = "idle" => stage = <<>>
  /\ running # "idle" => stage \in [Positions -> Stages]
  /\ running # "validate" => scheduling = "off" /\ tasks = {}
  /\ scheduling = "off" => taskCompletionQueue = {}

(* A task is a sequence of positions each of whose parents is through or   *)
(* comes earlier in the same task; a reported task is through.             *)
TaskInv ==
  /\ IsFiniteSet(tasks) /\ IsFiniteSet(taskCompletionQueue)
  /\ tasks \cap taskCompletionQueue = {}
  /\ \A t \in tasks \cup taskCompletionQueue : t \in Seq(Positions) /\ t # <<>>
  /\ \A t \in tasks : \A k \in DOMAIN t : \A j \in ParentPositions(t[k]) :
       stage[j] = "over" \/ \E l \in 1..k - 1 : t[l] = j
  /\ \A t \in taskCompletionQueue : \A k \in DOMAIN t : stage[t[k]] = "over"

(* A position that was started is through or belongs to a task.            *)
StatusRight(status, queue) ==
  /\ status \in [Positions -> Statuses]
  /\ \A i \in Positions : status[i] = "DONE" => stage[i] = "over"
  /\ \A i \in Positions : status[i] # "NOT_STARTED" => stage[i] = "over" \/ i \in PositionsOf(tasks)
  /\ \A t \in tasks \cup queue : \A k \in DOMAIN t : status[t[k]] # "NOT_STARTED"

(* Schedule() misses no position and counts its tasks.                     *)
ScheduleInv ==
  /\ scheduling # "off" =>
       /\ StatusRight(txStatuses, taskCompletionQueue)
       /\ posUnhandled \in 1..Len(txs) + 1
       /\ \A i \in 1..posUnhandled - 1 : txStatuses[i] # "NOT_STARTED"
       /\ numTasksScheduled = Cardinality(tasks) + Cardinality(taskCompletionQueue)
  /\ running # "idle" /\ scheduling = "off" =>
       \A i \in Positions : stage[i] = "over" \/ i \in PositionsOf(tasks)

(* A thread has begun with a position only after its parents.              *)
OrderInv ==
  \A i \in DOMAIN stage : stage[i] # "ready" => \A j \in ParentPositions(i) : stage[j] = "over"

SchedInv == BatchInv /\ TaskInv /\ ScheduleInv /\ OrderInv

(* The positions of tasks.                                                 *)
LEMMA PositionsOfTasks ==
  \A ts, i : i \in PositionsOf(ts) <=> \E t \in ts : \E k \in DOMAIN t : t[k] = i
BY DEF PositionsOf

(* ScheduleChain finds a chain: there is a longest one.                    *)
LEMMA ChainFound ==
  ASSUME txs \in Seq(Txs), NEW status, NEW i \in Positions
  PROVE  Chain(status, i) \in ChainsFrom(status, i)
<1> DEFINE C == ChainsFrom(status, i)
           n == Len(txs)
           Gaps == {m \in Nat : \E s \in C : m = n - Len(s)}
<1>1. n \in Nat /\ Positions = 1..n /\ n >= 1
  BY DEF Positions
<1>2. \A s \in C : Len(s) \in Nat /\ Len(s) <= n
  <2> TAKE s \in C
  <2>1. PICK m \in 1..n : s \in [1..m -> Positions]
    BY Zenon DEF ChainsFrom
  <2> QED BY <1>1, <2>1
<1>3. \E s : s \in C
  <2> DEFINE s == [k \in 1..1 |-> i]
  <2>1. s \in [1..1 -> Positions] /\ s[1] = i /\ Len(s) = 1 /\ 1 \in 1..n
    BY <1>1
  <2>2. \A k \in 1..Len(s) - 1 : FALSE
    BY <2>1
  <2> HIDE DEF s
  <2>3. s \in UNION {[1..m -> Positions] : m \in 1..Len(txs)}
    BY <2>1, Zenon
  <2> QED BY <2>1, <2>2, <2>3, Zenon DEF ChainsFrom
<1> HIDE DEF C
<1>4. Gaps \subseteq Nat /\ Gaps # {}
  <2>1. PICK s \in C : TRUE
    BY <1>3
  <2>2. n - Len(s) \in Nat
    BY <1>1, <1>2
  <2>3. n - Len(s) \in Gaps
    BY <2>2
  <2> QED BY <2>3, Zenon
<1>5. PICK m \in Gaps : \A k \in Gaps : m <= k
  BY <1>4, LeastNatural, Zenon
<1>6. PICK s \in C : m = n - Len(s)
  BY <1>5, Zenon
<1>7. \A r \in C : Len(r) <= Len(s)
  <2> TAKE r \in C
  <2>1. n - Len(r) \in Gaps
    BY <1>1, <1>2
  <2>2. n - Len(s) <= n - Len(r)
    BY <1>5, <1>6, <2>1, Zenon
  <2> QED BY <1>1, <1>2, <2>2
<1> QED BY <1>6, <1>7, Zenon DEF Chain, C

(* A task in which each position can start once those before it are done.  *)
StartsWell(status, t) ==
  /\ t \in Seq(Positions) /\ t # <<>>
  /\ \A k \in DOMAIN t : status[t[k]] = "NOT_STARTED"
  /\ \A k \in DOMAIN t : \A j \in ParentPositions(t[k]) :
       status[j] = "DONE" \/ \E l \in 1..k - 1 : t[l] = j

(* So it is for a single transaction,                                      *)
LEMMA SingleStartsWell ==
  ASSUME NEW status, NEW i \in Positions, CanStartValidation(status, i, 0)
  PROVE  StartsWell(status, <<i>>)
<1>1. <<i>> \in Seq(Positions) /\ <<i>> # <<>> /\ DOMAIN <<i>> = {1} /\ <<i>>[1] = i
  OBVIOUS
<1> QED BY <1>1 DEF StartsWell, CanStartValidation

(* and for a chain: the previous position is the only parent not done.     *)
LEMMA ChainStartsWell ==
  ASSUME txs \in Seq(Txs), NEW status, NEW i \in Positions, CanStartValidation(status, i, 0)
  PROVE  StartsWell(status, Chain(status, i))
<1> DEFINE t == Chain(status, i)
<1>1. t \in ChainsFrom(status, i)
  BY ChainFound, Zenon
<1>2. PICK n \in 1..Len(txs) : t \in [1..n -> Positions]
  BY <1>1, Zenon DEF ChainsFrom
<1>3. /\ t[1] = i
      /\ \A k \in 1..Len(t) - 1 :
           Spenders(t[k]) = {t[k + 1]} /\ CanStartValidation(status, t[k + 1], t[k])
  BY <1>1, Zenon DEF ChainsFrom
<1> HIDE DEF t
<1>4. t \in Seq(Positions) /\ t # <<>> /\ DOMAIN t = 1..n /\ Len(t) = n /\ n \in Nat
  BY <1>2
<1>5. ASSUME NEW k \in 1..n, k # 1
      PROVE  /\ status[t[k]] = "NOT_STARTED"
             /\ \A j \in ParentPositions(t[k]) : status[j] = "DONE" \/ t[k - 1] = j
  <2>1. k - 1 \in 1..Len(t) - 1 /\ k = (k - 1) + 1 /\ t[k - 1] \in Positions /\ t[k] \in Positions
    BY <1>2, <1>4, <1>5
  <2>2. Spenders(t[k - 1]) = {t[k]} /\ CanStartValidation(status, t[k], t[k - 1])
    BY <1>3, <2>1, Zenon
  <2>3. t[k - 1] \in ParentPositions(t[k])
    BY <2>2 DEF Spenders
  <2>4. ASSUME NEW j \in ParentPositions(t[k]), txs[t[k - 1]] = txs[j]
        PROVE  t[k - 1] = j
    <3>1. PICK u : HoldsLast(t[k - 1], u)
      BY <2>3, Zenon DEF ParentPositions
    <3>2. PICK v : HoldsLast(j, v)
      BY Zenon DEF ParentPositions
    <3>3. j \in Positions /\ Positions \subseteq Int
      BY DEF ParentPositions, Positions
    <3>4. j <= t[k - 1] /\ t[k - 1] <= j
      BY <2>1, <2>4, <3>1, <3>2, <3>3, Zenon DEF HoldsLast
    <3>5. j \in Int /\ t[k - 1] \in Int
      BY <2>1, <3>3, Zenon
    <3> QED BY <3>4, <3>5
  <2> QED BY <2>2, <2>4 DEF CanStartValidation
<1>6. ASSUME NEW k \in 1..n
      PROVE  /\ status[t[k]] = "NOT_STARTED"
             /\ \A j \in ParentPositions(t[k]) :
                  status[j] = "DONE" \/ \E l \in 1..k - 1 : t[l] = j
  <2>1. CASE k = 1
    BY <1>3, <2>1, Zenon DEF CanStartValidation
  <2>2. CASE k # 1
    <3>1. k - 1 \in 1..k - 1
      BY <1>4, <2>2
    <3> QED BY <1>5, <2>2, <3>1, Zenon
  <2> QED BY <2>1, <2>2, Zenon
<1> QED BY <1>4, <1>6, Zenon DEF StartsWell, t

(* Parents are a matter of the batch alone.                                *)
LEMMA SameParents ==
  ASSUME txs' = txs
  PROVE  /\ Positions' = Positions
         /\ \A x : ParentPositions(x)' = ParentPositions(x)
BY Zenon DEF Positions, ParentPositions, HoldsLast

(* A thread that goes on with the position whose turn it is.               *)
LEMMA GoSched ==
  ASSUME SchedInv, NEW i, NEW from \in Stages \ {"over"}, NEW to \in Stages, Go(i, from, to),
         UNCHANGED schedulerVars, running' = running
  PROVE  SchedInv'
<1>1. /\ txs' = txs /\ txStatuses' = txStatuses /\ tasks' = tasks
      /\ taskCompletionQueue' = taskCompletionQueue /\ numTasksScheduled' = numTasksScheduled
      /\ posUnhandled' = posUnhandled /\ scheduling' = scheduling
  BY Zenon DEF schedulerVars
<1>2. i \in DOMAIN stage /\ stage[i] = from /\ Turn(i) /\ stage' = [stage EXCEPT ![i] = to]
  BY Zenon DEF Go
<1>3. PICK t \in tasks : \E k \in DOMAIN t : t[k] = i /\ \A j \in 1..k - 1 : stage[t[j]] = "over"
  BY <1>2, Zenon DEF Turn
<1>4. running = "validate" /\ stage \in [Positions -> Stages] /\ i \in Positions
  BY <1>2, <1>3, Zenon DEF SchedInv, BatchInv
<1>5. stage' \in [Positions -> Stages] /\ \A j \in Positions : stage[j] = "over" => stage'[j] = "over"
  BY <1>2, <1>4, Zenon
<1>6. Positions' = Positions /\ \A x : ParentPositions(x)' = ParentPositions(x)
  BY <1>1, SameParents, Zenon
<1>7. BatchInv'
  BY <1>1, <1>4, <1>5, <1>6, Zenon DEF SchedInv, BatchInv
<1>8. \A x : ParentPositions(x) \subseteq Positions
  BY Zenon DEF ParentPositions
<1>9. TaskInv'
  <2>1. ASSUME NEW u \in tasks, NEW k \in DOMAIN u, NEW j \in ParentPositions(u[k])
        PROVE  stage'[j] = "over" \/ \E l \in 1..k - 1 : u[l] = j
    BY <1>5, <1>8 DEF SchedInv, TaskInv
  <2>2. ASSUME NEW u \in taskCompletionQueue, NEW k \in DOMAIN u
        PROVE  stage'[u[k]] = "over"
    <3>1. u \in Seq(Positions) /\ stage[u[k]] = "over"
      BY Zenon DEF SchedInv, TaskInv
    <3> QED BY <1>5, <3>1
  <2> QED BY <1>1, <1>6, <2>1, <2>2 DEF SchedInv, TaskInv
<1>10. ScheduleInv'
  <2>1. ASSUME StatusRight(txStatuses, taskCompletionQueue)
        PROVE  StatusRight(txStatuses, taskCompletionQueue)'
    BY <1>1, <1>5, <1>6, <2>1, Zenon DEF StatusRight, PositionsOf
  <2>2. ASSUME NEW j \in Positions, stage[j] = "over" \/ j \in PositionsOf(tasks)
        PROVE  stage'[j] = "over" \/ j \in PositionsOf(tasks)'
    BY <1>1, <1>5, <2>2, Zenon DEF PositionsOf
  <2> QED BY <1>1, <1>6, <2>1, <2>2, Zenon DEF SchedInv, ScheduleInv
<1>11. OrderInv'
  <2> SUFFICES ASSUME NEW k \in Positions, stage'[k] # "ready", NEW j \in ParentPositions(k)
               PROVE  stage'[j] = "over"
    BY <1>5, <1>6, Zenon DEF OrderInv
  <2>1. stage[j] = "over"
    <3>1. CASE stage[k] # "ready"
      BY <1>4, <3>1, Zenon DEF SchedInv, OrderInv
    <3>2. CASE stage[k] = "ready"
      <4>1. k = i
        BY <1>2, <1>4, <3>2, Zenon
      <4>2. PICK m \in DOMAIN t : t[m] = i /\ \A l \in 1..m - 1 : stage[t[l]] = "over"
        BY <1>3, Zenon
      <4> QED BY <4>1, <4>2 DEF SchedInv, TaskInv
    <3> QED BY <3>1, <3>2, Zenon
  <2> QED BY <1>5, <1>8, <2>1, Zenon
<1> QED BY <1>7, <1>9, <1>10, <1>11, Zenon DEF SchedInv

(* Steps of others leave the batch alone.                                  *)
LEMMA OtherSched ==
  ASSUME SchedInv, UNCHANGED <<schedulerVars, running, stage>>
  PROVE  SchedInv'
BY DEF SchedInv, BatchInv, TaskInv, ScheduleInv, OrderInv, StatusRight, PositionsOf, Positions,
       ParentPositions, HoldsLast, schedulerVars

(* A thread reports a task, or ends it after the scheduler is gone.        *)
LEMMA EndTaskSched ==
  ASSUME SchedInv, NEW t \in tasks, EndTask(t)
  PROVE  SchedInv'
<1>1. /\ \A k \in DOMAIN t : stage[t[k]] = "over"
      /\ tasks' = tasks \ {t}
      /\ taskCompletionQueue' = IF scheduling = "off" THEN taskCompletionQueue
                                ELSE taskCompletionQueue \union {t}
      /\ UNCHANGED <<txs, txStatuses, numTasksScheduled, posUnhandled, scheduling, running, stage>>
  BY Zenon DEF EndTask, MarkResult, queueVars, threadVars
<1>2. Positions' = Positions /\ \A x : ParentPositions(x)' = ParentPositions(x)
  BY <1>1, SameParents, Zenon
<1>3. BatchInv'
  BY <1>1, <1>2, Zenon DEF SchedInv, BatchInv
<1>4. /\ IsFiniteSet(tasks) /\ IsFiniteSet(taskCompletionQueue) /\ t \notin taskCompletionQueue
      /\ Cardinality(tasks) \in Nat /\ Cardinality(taskCompletionQueue) \in Nat
  BY FS_CardinalityType, Zenon DEF SchedInv, TaskInv
<1>5. /\ IsFiniteSet(tasks \ {t}) /\ Cardinality(tasks \ {t}) = Cardinality(tasks) - 1
      /\ IsFiniteSet(taskCompletionQueue \cup {t})
      /\ Cardinality(taskCompletionQueue \cup {t}) = Cardinality(taskCompletionQueue) + 1
  BY <1>4, FS_RemoveElement, FS_AddElement, Zenon
<1>6. TaskInv'
  BY <1>1, <1>2, <1>4, <1>5 DEF SchedInv, TaskInv
<1>7. ASSUME NEW j, stage[j] = "over" \/ j \in PositionsOf(tasks)
      PROVE  stage'[j] = "over" \/ j \in PositionsOf(tasks)'
  <2>1. CASE stage[j] = "over"
    BY <1>1, <2>1, Zenon
  <2>2. CASE j \in PositionsOf(tasks)
    <3>1. PICK u \in tasks : \E k \in DOMAIN u : u[k] = j
      BY <2>2, Zenon DEF PositionsOf
    <3>2. CASE u = t
      BY <1>1, <3>1, <3>2, Zenon
    <3>3. CASE u # t
      BY <1>1, <3>1, <3>3 DEF PositionsOf
    <3> QED BY <3>2, <3>3, Zenon
  <2> QED BY <1>7, <2>1, <2>2, Zenon
<1>8. ScheduleInv'
  <2>1. ASSUME scheduling # "off"
        PROVE  StatusRight(txStatuses, taskCompletionQueue)'
    <3>1. StatusRight(txStatuses, taskCompletionQueue)
      BY <2>1, Zenon DEF SchedInv, ScheduleInv
    <3> HIDE DEF PositionsOf
    <3> QED BY <1>1, <1>2, <1>7, <2>1, <3>1, Zenon DEF StatusRight
  <2>2. ASSUME scheduling # "off"
        PROVE  numTasksScheduled' = Cardinality(tasks') + Cardinality(taskCompletionQueue')
    BY <1>1, <1>4, <1>5, <2>2 DEF SchedInv, ScheduleInv
  <2> QED BY <1>1, <1>2, <1>7, <2>1, <2>2, Zenon DEF SchedInv, ScheduleInv
<1>9. OrderInv'
  BY <1>1, <1>2, Zenon DEF SchedInv, OrderInv
<1> QED BY <1>3, <1>6, <1>8, <1>9, Zenon DEF SchedInv

(* A new cycle of the scan starts at a position before which all started.  *)
LEMMA FirstUnhandledRight ==
  ASSUME txs \in Seq(Txs), posUnhandled \in 1..Len(txs) + 1, NEW status,
         \A j \in 1..posUnhandled - 1 : status[j] # "NOT_STARTED"
  PROVE  /\ FirstUnhandled(status) \in 1..Len(txs) + 1
         /\ \A j \in 1..FirstUnhandled(status) - 1 : status[j] # "NOT_STARTED"
<1> DEFINE n == Len(txs)
           Free == {k \in Nat : /\ k >= posUnhandled /\ k <= n + 1
                                /\ k <= n => status[k] = "NOT_STARTED"}
           Ok(k) == /\ k >= posUnhandled
                    /\ k <= n => status[k] = "NOT_STARTED"
                    /\ \A j \in posUnhandled..k - 1 : status[j] # "NOT_STARTED"
           f == FirstUnhandled(status)
<1>1. n \in Nat /\ posUnhandled \in Nat /\ 1 <= posUnhandled /\ posUnhandled <= n + 1
  OBVIOUS
<1>2. n + 1 \in Free /\ Free \subseteq Nat
  BY <1>1
<1>3. PICK k \in Free : \A j \in Free : k <= j
  <2> HIDE DEF Free
  <2> QED BY <1>2, LeastNatural, Zenon
<1>4. k \in 1..n + 1 /\ Ok(k)
  <2>1. ASSUME NEW j \in posUnhandled..k - 1 PROVE status[j] # "NOT_STARTED"
    <3>1. j \in Nat /\ j >= posUnhandled /\ j <= n + 1 /\ ~(k <= j)
      BY <1>1, <1>3
    <3>2. j \notin Free
      BY <1>3, <3>1, Zenon
    <3> QED BY <3>1, <3>2, Zenon
  <2> QED BY <1>1, <1>3, <2>1
<1>5. f \in 1..n + 1 /\ Ok(f)
  <2>1. f = CHOOSE x \in 1..n + 1 : Ok(x)
    BY Zenon DEF FirstUnhandled
  <2> HIDE DEF f, Ok
  <2> QED BY <1>4, <2>1, Zenon
<1> HIDE DEF f
<1>6. ASSUME NEW j \in 1..f - 1 PROVE status[j] # "NOT_STARTED"
  <2>1. j \in 1..posUnhandled - 1 \/ j \in posUnhandled..f - 1
    BY <1>1, <1>5
  <2> QED BY <1>5, <2>1, Zenon
<1> QED BY <1>5, <1>6, Zenon DEF f

(* Submitting tasks that start well.                                       *)
LEMMA SubmitSched ==
  ASSUME SchedInv, scheduling # "off", scheduling' # "off", UNCHANGED <<txs, stage, running>>,
         NEW status, NEW queue, StatusRight(status, queue), queue \subseteq taskCompletionQueue,
         taskCompletionQueue' = queue,
         NEW ts, IsFiniteSet(ts), \A t \in ts : StartsWell(status, t),
         SubmitTasks(status, ts, Cardinality(tasks) + Cardinality(queue))
  PROVE  /\ BatchInv' /\ TaskInv' /\ OrderInv'
         /\ StatusRight(txStatuses, taskCompletionQueue)'
         /\ numTasksScheduled' = Cardinality(tasks') + Cardinality(taskCompletionQueue')
         /\ \A j \in Positions : status[j] # "NOT_STARTED" => txStatuses'[j] # "NOT_STARTED"
<1>1. /\ tasks' = tasks \cup ts
      /\ txStatuses' = Marked(status, PositionsOf(ts), "IN_PROGRESS")
      /\ numTasksScheduled' = Cardinality(tasks) + Cardinality(queue) + Cardinality(ts)
  BY Zenon DEF SubmitTasks
<1>2. Positions' = Positions /\ \A x : ParentPositions(x)' = ParentPositions(x)
  BY SameParents, Zenon
<1>3. running = "validate" /\ stage \in [Positions -> Stages] /\ txs \in Seq(Txs)
  BY Zenon DEF SchedInv, BatchInv
<1>4. BatchInv'
  BY <1>2, <1>3, Zenon DEF SchedInv, BatchInv
<1>5. /\ IsFiniteSet(tasks) /\ IsFiniteSet(queue) /\ tasks \cap queue = {}
      /\ Cardinality(tasks) \in Nat /\ Cardinality(queue) \in Nat /\ Cardinality(ts) \in Nat
  BY FS_Subset, FS_CardinalityType, Zenon DEF SchedInv, TaskInv
<1>6. ASSUME NEW t \in ts PROVE t \notin tasks \cup queue
  <2>1. t \in Seq(Positions) /\ t # <<>> /\ \A k \in DOMAIN t : status[t[k]] = "NOT_STARTED"
    BY Zenon DEF StartsWell
  <2>2. 1 \in DOMAIN t
    BY <2>1
  <2> QED BY <2>1, <2>2, Zenon DEF StatusRight
<1>7. /\ IsFiniteSet(tasks') /\ tasks' \cap queue = {}
      /\ Cardinality(tasks') = Cardinality(tasks) + Cardinality(ts)
  <2>1. tasks \cap ts = {} /\ (tasks \cup ts) \cap queue = {}
    BY <1>5, <1>6, Zenon
  <2>2. IsFiniteSet(tasks \cup ts)
        /\ Cardinality(tasks \cup ts) = Cardinality(tasks) + Cardinality(ts) - Cardinality(tasks \cap ts)
    BY <1>5, FS_Union, Zenon
  <2>3. Cardinality(tasks \cap ts) = 0
    BY <2>1, FS_EmptySet, Zenon
  <2> QED BY <1>1, <1>5, <2>1, <2>2, <2>3
<1>8. TaskInv'
  <2>1. ASSUME NEW t \in tasks' \cup queue PROVE t \in Seq(Positions) /\ t # <<>>
    BY <1>1, <2>1, Zenon DEF SchedInv, TaskInv, StartsWell
  <2>2. ASSUME NEW t \in tasks', NEW k \in DOMAIN t, NEW j \in ParentPositions(t[k])
        PROVE  stage[j] = "over" \/ \E l \in 1..k - 1 : t[l] = j
    <3>1. CASE t \in tasks
      BY <3>1 DEF SchedInv, TaskInv
    <3>2. CASE t \in ts
      <4>1. status[j] = "DONE" \/ \E l \in 1..k - 1 : t[l] = j
        BY <3>2, Zenon DEF StartsWell
      <4>2. j \in Positions
        BY Zenon DEF ParentPositions
      <4> QED BY <4>1, <4>2, Zenon DEF StatusRight
    <3> QED BY <1>1, <3>1, <3>2, Zenon
  <2>3. \A t \in queue : \A k \in DOMAIN t : stage[t[k]] = "over"
    BY Zenon DEF SchedInv, TaskInv
  <2> QED BY <1>2, <1>5, <1>7, <2>1, <2>2, <2>3 DEF TaskInv
<1>9. OrderInv'
  BY <1>2, Zenon DEF SchedInv, OrderInv
<1>10. \A j \in Positions : txStatuses'[j] = IF j \in PositionsOf(ts) THEN "IN_PROGRESS" ELSE status[j]
  BY <1>1, Zenon DEF Marked
<1>11. StatusRight(txStatuses, taskCompletionQueue)'
  <2>1. txStatuses' \in [Positions -> Statuses]
    BY <1>1, Zenon DEF StatusRight, Marked, Statuses
  <2>2. ASSUME NEW j \in Positions, txStatuses'[j] = "DONE" PROVE stage[j] = "over"
    BY <1>10, <2>2, Zenon DEF StatusRight
  <2>3. ASSUME NEW j \in Positions, txStatuses'[j] # "NOT_STARTED"
        PROVE  stage[j] = "over" \/ j \in PositionsOf(tasks)'
    <3>1. CASE j \in PositionsOf(ts)
      BY <1>1, <3>1 DEF PositionsOf
    <3>2. CASE j \notin PositionsOf(ts)
      <4>1. stage[j] = "over" \/ j \in PositionsOf(tasks)
        BY <1>10, <2>3, <3>2, Zenon DEF StatusRight
      <4> QED BY <1>1, <4>1 DEF PositionsOf
    <3> QED BY <3>1, <3>2, Zenon
  <2>4. ASSUME NEW t \in tasks' \cup queue, NEW k \in DOMAIN t
        PROVE  txStatuses'[t[k]] # "NOT_STARTED"
    <3>1. t[k] \in Positions
      BY <1>1, <2>4 DEF SchedInv, TaskInv, StartsWell
    <3>2. t[k] \in PositionsOf(ts) \/ status[t[k]] # "NOT_STARTED"
      BY <1>1, <2>4 DEF StatusRight, PositionsOf
    <3> QED BY <1>10, <3>1, <3>2, Zenon
  <2> QED BY <1>2, <2>1, <2>2, <2>3, <2>4, Zenon DEF StatusRight
<1>12. numTasksScheduled' = Cardinality(tasks') + Cardinality(taskCompletionQueue')
  BY <1>1, <1>5, <1>7
<1> QED BY <1>4, <1>8, <1>9, <1>10, <1>11, <1>12, Zenon

(* ScanTransactions submits a transaction or a chain.                      *)
LEMMA ScanSched ==
  ASSUME SchedInv, ScanTransactions, running' = running, stage' = stage
  PROVE  SchedInv'
<1>1. PICK i \in Candidates :
        SubmitTasks(txStatuses, {IF spendersReady THEN Chain(txStatuses, i) ELSE <<i>>},
                    numTasksScheduled)
  BY Zenon DEF ScanTransactions
<1> DEFINE t == IF spendersReady THEN Chain(txStatuses, i) ELSE <<i>>
<1>2. /\ scheduling = "scan" /\ scheduling' = scheduling
      /\ UNCHANGED <<txs, taskCompletionQueue, posUnhandled>>
  BY Zenon DEF ScanTransactions
<1>3. /\ StatusRight(txStatuses, taskCompletionQueue) /\ txs \in Seq(Txs)
      /\ numTasksScheduled = Cardinality(tasks) + Cardinality(taskCompletionQueue)
      /\ posUnhandled \in 1..Len(txs) + 1
      /\ \A j \in 1..posUnhandled - 1 : txStatuses[j] # "NOT_STARTED"
  BY <1>2, Zenon DEF SchedInv, ScheduleInv, BatchInv
<1>4. i \in Positions /\ CanStartValidation(txStatuses, i, 0)
  BY Zenon DEF Candidates
<1>5. StartsWell(txStatuses, t)
  BY <1>3, <1>4, SingleStartsWell, ChainStartsWell, Zenon
<1> HIDE DEF t
<1>6. IsFiniteSet({t}) /\ \A u \in {t} : StartsWell(txStatuses, u)
  BY <1>5, FS_Singleton, Zenon
<1>7. SubmitTasks(txStatuses, {t}, Cardinality(tasks) + Cardinality(taskCompletionQueue))
  BY <1>1, <1>3, Zenon DEF t
<1>8. /\ BatchInv' /\ TaskInv' /\ OrderInv'
      /\ StatusRight(txStatuses, taskCompletionQueue)'
      /\ numTasksScheduled' = Cardinality(tasks') + Cardinality(taskCompletionQueue')
      /\ \A j \in Positions : txStatuses[j] # "NOT_STARTED" => txStatuses'[j] # "NOT_STARTED"
  BY <1>2, <1>3, <1>6, <1>7, SubmitSched, Zenon
<1>9. ASSUME NEW j \in 1..posUnhandled - 1 PROVE txStatuses'[j] # "NOT_STARTED"
  <2>1. j \in Positions
    BY <1>3 DEF Positions
  <2> QED BY <1>3, <1>8, <2>1, Zenon
<1> QED BY <1>2, <1>3, <1>8, <1>9, Zenon DEF SchedInv, ScheduleInv

(* The tasks of a round of completions.                                    *)
LEMMA TakeSched ==
  ASSUME SchedInv, TakeCompletions, running' = running, stage' = stage
  PROVE  SchedInv'
<1> DEFINE done == Marked(txStatuses, PositionsOf(taskCompletionQueue), "DONE")
           ends == {t[Len(t)] : t \in taskCompletionQueue}
           roots == {i \in UNION {Spenders(j) : j \in ends} : CanStartValidation(done, i, 0)}
           started == IF spendersReady THEN {Chain(done, i) : i \in roots} ELSE {}
<1>1. /\ scheduling = "take" /\ scheduling' = "scan" /\ txs' = txs /\ taskCompletionQueue' = {}
      /\ SubmitTasks(done, started, numTasksScheduled - Cardinality(taskCompletionQueue))
      /\ IF scanPos > Len(txs) THEN posUnhandled' = FirstUnhandled(txStatuses')
         ELSE posUnhandled' = posUnhandled
  BY Zenon DEF TakeCompletions
<1>2. /\ StatusRight(txStatuses, taskCompletionQueue) /\ txs \in Seq(Txs)
      /\ numTasksScheduled = Cardinality(tasks) + Cardinality(taskCompletionQueue)
      /\ posUnhandled \in 1..Len(txs) + 1
      /\ \A j \in 1..posUnhandled - 1 : txStatuses[j] # "NOT_STARTED"
  BY <1>1, Zenon DEF SchedInv, ScheduleInv, BatchInv
<1>3. roots \subseteq Positions /\ \A i \in roots : CanStartValidation(done, i, 0)
  BY Zenon DEF Spenders
<1>4. \A j \in Positions : done[j] = IF j \in PositionsOf(taskCompletionQueue) THEN "DONE" ELSE txStatuses[j]
  BY Zenon DEF Marked
<1>5. done \in [Positions -> Statuses]
  BY <1>2, Zenon DEF StatusRight, Marked, Statuses
<1> HIDE DEF done, roots
<1>6. StatusRight(done, {})
  <2>1. ASSUME NEW j \in PositionsOf(taskCompletionQueue) PROVE stage[j] = "over"
    BY DEF PositionsOf, SchedInv, TaskInv
  <2>2. ASSUME NEW t \in tasks, NEW k \in DOMAIN t PROVE done[t[k]] # "NOT_STARTED"
    <3>1. t[k] \in Positions /\ txStatuses[t[k]] # "NOT_STARTED"
      BY <1>2 DEF StatusRight, SchedInv, TaskInv
    <3> QED BY <1>4, <3>1, Zenon
  <2> QED BY <1>2, <1>4, <1>5, <2>1, <2>2, Zenon DEF StatusRight
<1>7. IsFiniteSet(started)
  <2>1. CASE spendersReady
    <3>1. IsFiniteSet(Positions)
      BY <1>2, FS_Interval DEF Positions
    <3>2. IsFiniteSet(roots)
      BY <1>3, <3>1, FS_Subset, Zenon
    <3> DEFINE f == [i \in roots |-> Chain(done, i)]
    <3>3. f \in Surjection(roots, started)
      BY <2>1, Zenon DEF Surjection
    <3> HIDE DEF f, started
    <3> QED BY <3>2, <3>3, FS_Surjection, Zenon
  <2>2. CASE ~spendersReady
    BY <2>2, FS_EmptySet, Zenon
  <2> QED BY <2>1, <2>2, Zenon
<1>8. \A t \in started : StartsWell(done, t)
  BY <1>2, <1>3, ChainStartsWell, Zenon
<1> HIDE DEF started
<1>9. SubmitTasks(done, started, Cardinality(tasks) + Cardinality({}))
  <2>1. /\ Cardinality(tasks) \in Nat /\ Cardinality(taskCompletionQueue) \in Nat
        /\ Cardinality({}) = 0
    BY FS_CardinalityType, FS_EmptySet, Zenon DEF SchedInv, TaskInv
  <2>2. numTasksScheduled - Cardinality(taskCompletionQueue) = Cardinality(tasks) + Cardinality({})
    BY <1>2, <2>1
  <2> QED BY <1>1, <2>2, Zenon
<1>10. /\ BatchInv' /\ TaskInv' /\ OrderInv'
       /\ StatusRight(txStatuses, taskCompletionQueue)'
       /\ numTasksScheduled' = Cardinality(tasks') + Cardinality(taskCompletionQueue')
       /\ \A j \in Positions : done[j] # "NOT_STARTED" => txStatuses'[j] # "NOT_STARTED"
  <2>1. {} \subseteq taskCompletionQueue /\ scheduling # "off" /\ scheduling' # "off"
    BY <1>1, Zenon
  <2> QED BY <1>1, <1>6, <1>7, <1>8, <1>9, <2>1, SubmitSched, Zenon
<1>11. ASSUME NEW j \in 1..posUnhandled - 1 PROVE txStatuses'[j] # "NOT_STARTED"
  <2>1. j \in Positions
    BY <1>2 DEF Positions
  <2>2. done[j] # "NOT_STARTED"
    BY <1>2, <1>4, <2>1, Zenon
  <2> QED BY <1>10, <2>1, <2>2, Zenon
<1>12. /\ posUnhandled' \in 1..Len(txs) + 1
       /\ \A j \in 1..posUnhandled' - 1 : txStatuses'[j] # "NOT_STARTED"
  <2>1. CASE scanPos > Len(txs)
    <3>1. /\ FirstUnhandled(txStatuses') \in 1..Len(txs) + 1
          /\ \A j \in 1..FirstUnhandled(txStatuses') - 1 : txStatuses'[j] # "NOT_STARTED"
      BY <1>2, <1>11, FirstUnhandledRight, Zenon
    <3> QED BY <1>1, <2>1, <3>1, Zenon
  <2>2. CASE ~(scanPos > Len(txs))
    BY <1>1, <1>2, <1>11, <2>2, Zenon
  <2> QED BY <2>1, <2>2, Zenon
<1> QED BY <1>1, <1>10, <1>12, Zenon DEF SchedInv, ScheduleInv

(* The end of a scan changes nothing a thread sees.                        *)
LEMMA EndScanSched ==
  ASSUME SchedInv, EndScan \/ BuildSpendersMap, running' = running, stage' = stage
  PROVE  SchedInv'
<1>1. /\ UNCHANGED <<txs, txStatuses, tasks, taskCompletionQueue, numTasksScheduled, posUnhandled>>
      /\ scheduling # "off" /\ scheduling' # "off"
  BY Zenon DEF EndScan, BuildSpendersMap
<1>2. running = "validate" /\ txs \in Seq(Txs) /\ stage \in [Positions -> Stages]
  BY <1>1, Zenon DEF SchedInv, BatchInv
<1>3. BatchInv'
  BY <1>1, <1>2, Zenon DEF BatchInv, Positions
<1>4. TaskInv' /\ OrderInv'
  BY <1>1 DEF SchedInv, TaskInv, OrderInv, Positions, ParentPositions, HoldsLast
<1>5. ScheduleInv'
  BY <1>1, Zenon DEF SchedInv, ScheduleInv, StatusRight, PositionsOf, Positions
<1> QED BY <1>3, <1>4, <1>5, Zenon DEF SchedInv

(* When Schedule() returns every position is through or belongs to a task. *)
LEMMA EndScheduleSched ==
  ASSUME SchedInv, EndSchedule, running' = running, stage' = stage
  PROVE  SchedInv'
<1>1. /\ scheduling = "scan" /\ posUnhandled > Len(txs) /\ UNCHANGED <<txs, tasks>>
      /\ taskCompletionQueue' = {} /\ scheduling' = "off"
  BY Zenon DEF EndSchedule, NoScheduler
<1>2. running = "validate" /\ txs \in Seq(Txs) /\ stage \in [Positions -> Stages]
  BY <1>1, Zenon DEF SchedInv, BatchInv
<1>3. BatchInv'
  BY <1>1, <1>2, Zenon DEF BatchInv, Positions
<1>4. TaskInv' /\ OrderInv'
  BY <1>1, FS_EmptySet DEF SchedInv, TaskInv, OrderInv, Positions, ParentPositions, HoldsLast
<1>5. ASSUME NEW j \in Positions
      PROVE  stage[j] = "over" \/ j \in PositionsOf(tasks)
  <2>1. /\ StatusRight(txStatuses, taskCompletionQueue) /\ posUnhandled \in 1..Len(txs) + 1
        /\ \A k \in 1..posUnhandled - 1 : txStatuses[k] # "NOT_STARTED"
    BY <1>1, Zenon DEF SchedInv, ScheduleInv
  <2>2. j \in 1..posUnhandled - 1
    BY <1>1, <1>2, <2>1 DEF Positions
  <2> QED BY <2>1, <2>2, Zenon DEF StatusRight
<1>6. ScheduleInv'
  BY <1>1, <1>5, Zenon DEF ScheduleInv, PositionsOf, Positions
<1> QED BY <1>3, <1>4, <1>6, Zenon DEF SchedInv

(* Every step of the scheduler.                                            *)
LEMMA SchedulerStepSched ==
  ASSUME SchedInv, SchedulerStep
  PROVE  SchedInv'
<1>1. running' = running /\ stage' = stage
  BY Zenon DEF SchedulerStep, queueVars, threadVars
<1> QED BY <1>1, TakeSched, ScanSched, EndScanSched, EndScheduleSched, Zenon DEF SchedulerStep, Schedule

-----------------------------------------------------------------------------
(* Batches.                                                                *)

(* What the queues, the orphan pool and the mempool hold.                  *)
QueueInv ==
  /\ mStdTxns \in Seq(Txs) /\ mNonStdTxns \in Seq(Txs)
  /\ orphans \subseteq Txs /\ mempool \subseteq Txs

(* What a batch takes of a queue, and what it leaves.                      *)
LEMMA TakenKeeps ==
  ASSUME NEW q \in Seq(Txs), NEW max \in Nat, NEW b \in Seq(Txs)
  PROVE  /\ Taken(q, max, b) \in Seq(Txs)
         /\ Rest(q, Taken(q, max, b)) \in Seq(Txs)
<1>1. Taken(q, max, b) \in Seq(Txs)
  <2>1. CASE Len(b) < MaxStd + MaxNonStd
    <3> DEFINE n == IF max > Len(q) THEN Len(q) ELSE max
    <3>1. n \in Int /\ n <= Len(q) /\ 1 \in Nat \ {0}
      OBVIOUS
    <3> HIDE DEF n
    <3>2. SubSeq(q, 1, n) \in Seq(Txs)
      BY <3>1, SubSeqKeeps, Zenon
    <3> QED BY <2>1, <3>2, Zenon DEF Taken, n
  <2>2. CASE ~(Len(b) < MaxStd + MaxNonStd)
    BY <2>2 DEF Taken
  <2> QED BY <2>1, <2>2, Zenon
<1>2. \A r \in Seq(Txs) : Rest(q, r) \in Seq(Txs)
  <2> TAKE r \in Seq(Txs)
  <2>1. Len(r) + 1 \in Nat \ {0} /\ Len(q) \in Int /\ Len(q) <= Len(q)
    OBVIOUS
  <2> QED BY <2>1, SubSeqKeeps, Zenon DEF Rest
<1> QED BY <1>1, <1>2, Zenon

(* A new batch.                                                            *)
LEMMA StartBatchSched ==
  ASSUME SchedInv, QueueInv, StartBatch
  PROVE  SchedInv' /\ QueueInv'
<1> DEFINE std == Taken(mStdTxns, MaxStd, txs)
           nonStd == Taken(mNonStdTxns, MaxNonStd, txs \o std)
           batch == txs \o std \o nonStd
<1>1. /\ mStdTxns' = Rest(mStdTxns, std) /\ mNonStdTxns' = Rest(mNonStdTxns, nonStd)
      /\ running' = "validate" /\ NewScheduler(batch) /\ stage' = [i \in DOMAIN batch |-> "ready"]
      /\ UNCHANGED <<orphans, mempool>>
  BY Zenon DEF StartBatch, orphanVars, chainVars
<1>2. txs \in Seq(Txs)
  BY Zenon DEF SchedInv, BatchInv
<1>3. std \in Seq(Txs) /\ Rest(mStdTxns, std) \in Seq(Txs)
  BY <1>2, TakenKeeps, LimitAssumption, Zenon DEF QueueInv
<1> HIDE DEF std
<1>4. txs \o std \in Seq(Txs)
  BY <1>2, <1>3
<1>5. nonStd \in Seq(Txs) /\ Rest(mNonStdTxns, nonStd) \in Seq(Txs)
  BY <1>4, TakenKeeps, LimitAssumption, Zenon DEF QueueInv
<1> HIDE DEF nonStd
<1>6. batch \in Seq(Txs)
  BY <1>4, <1>5
<1> HIDE DEF batch
<1>7. QueueInv'
  BY <1>1, <1>3, <1>5 DEF QueueInv
<1>8. /\ txs' = batch /\ txStatuses' = [i \in DOMAIN batch |-> "NOT_STARTED"]
      /\ tasks' = {} /\ taskCompletionQueue' = {} /\ numTasksScheduled' = 0
      /\ posUnhandled' = 1 /\ scheduling' = "take"
  BY <1>1, Zenon DEF NewScheduler
<1>9. Positions' = DOMAIN batch
  BY <1>8, Zenon DEF Positions
<1>10. BatchInv'
  BY <1>1, <1>6, <1>8, <1>9, Zenon DEF BatchInv, Stages
<1>11. TaskInv'
  BY <1>8, FS_EmptySet, Zenon DEF TaskInv
<1>12. OrderInv'
  BY <1>1, Zenon DEF OrderInv
<1>13. StatusRight(txStatuses, taskCompletionQueue)'
  BY <1>1, <1>8, <1>9, Zenon DEF StatusRight, Statuses
<1>14. ScheduleInv'
  <2>1. Len(batch) \in Nat /\ 1..1 - 1 = {}
    BY <1>6
  <2> QED BY <1>8, <1>13, <2>1, FS_EmptySet DEF ScheduleInv
<1> QED BY <1>7, <1>10, <1>11, <1>12, <1>14, Zenon DEF SchedInv

(* The mempool is trimmed when every position is through.                  *)
LEMMA TrimSched ==
  ASSUME SchedInv, QueueInv, TrimMempool
  PROVE  SchedInv' /\ QueueInv'
<1>1. /\ scheduling = "off" /\ tasks = {} /\ running = "validate" /\ running' = "sort"
      /\ UNCHANGED <<txs, txStatuses, tasks, taskCompletionQueue, numTasksScheduled, posUnhandled,
                     scheduling, stage, mStdTxns, mNonStdTxns, orphans>>
      /\ mempool' \subseteq mempool
  BY Zenon DEF TrimMempool, schedulerVars, threadVars
<1>2. BatchInv' /\ TaskInv' /\ OrderInv'
  BY <1>1 DEF SchedInv, BatchInv, TaskInv, OrderInv, Positions, ParentPositions, HoldsLast
<1>3. ScheduleInv'
  BY <1>1, Zenon DEF SchedInv, ScheduleInv, PositionsOf, Positions
<1>4. QueueInv'
  BY <1>1, Zenon DEF QueueInv
<1> QED BY <1>2, <1>3, <1>4, Zenon DEF SchedInv

(* The processing queue after a batch.                                     *)
LEMMA EndBatchSched ==
  ASSUME SchedInv, QueueInv, EndBatch
  PROVE  SchedInv' /\ QueueInv'
<1> DEFINE canceled == At(txs, {i \in Positions : verdict[i] = "canceled"})
           timedOut == {i \in Positions : verdict[i] = "timeout" /\ txs[i] \notin low
                                          /\ \A j \in 1..i - 1 : txs[j] # txs[i]}
           detected == At(txs, timedOut)
           room == MaxQueue - Len(mNonStdTxns)
           n == IF room < Len(detected) THEN room ELSE Len(detected)
<1>1. /\ running = "sort" /\ running' = "idle" /\ stage' = <<>>
      /\ mNonStdTxns' = mNonStdTxns \o SubSeq(detected, 1, n)
      /\ UNCHANGED <<mStdTxns, orphans, tasks, taskCompletionQueue, scheduling, mempool>>
  BY Zenon DEF EndBatch, chainVars
<1>2. PICK retry \in CollectDependentTxnsForRetry(collected) :
        txs' = At(retry, {k \in DOMAIN retry : retry[k] \notin Range(canceled)}) \o canceled
  BY Zenon DEF EndBatch
<1>3. txs \in Seq(Txs) /\ scheduling = "off" /\ tasks = {} /\ taskCompletionQueue = {}
  BY <1>1 DEF SchedInv, BatchInv
<1>4. canceled \in Seq(Txs) /\ detected \in Seq(Txs)
  BY <1>3, AtKeeps DEF Positions
<1> HIDE DEF canceled, detected
<1>5. retry \in Seq(Txs)
  <2>1. retry \in Seq(orphans) /\ orphans \subseteq Txs
    BY RetryKeeps, Zenon DEF QueueInv
  <2> QED BY <2>1, SeqMonotonic, Zenon
<1>6. At(retry, {k \in DOMAIN retry : retry[k] \notin Range(canceled)}) \in Seq(Txs)
  BY <1>5, AtKeeps, Zenon
<1>7. txs' \in Seq(Txs)
  BY <1>2, <1>4, <1>6
<1>8. SubSeq(detected, 1, n) \in Seq(Txs)
  <2>1. n \in Int /\ n <= Len(detected) /\ 1 \in Nat \ {0}
    BY <1>4, LimitAssumption DEF QueueInv
  <2> HIDE DEF n
  <2> QED BY <1>4, <2>1, SubSeqKeeps, Zenon
<1>9. QueueInv'
  BY <1>1, <1>8 DEF QueueInv
<1>10. BatchInv' /\ OrderInv' /\ ScheduleInv'
  BY <1>1, <1>3, <1>7 DEF BatchInv, OrderInv, ScheduleInv
<1>11. TaskInv'
  BY <1>1, <1>3, FS_EmptySet, Zenon DEF TaskInv
<1> QED BY <1>9, <1>10, <1>11, Zenon DEF SchedInv

(* A step of a thread at position i moves it on, and adds to the mempool   *)
(* only a transaction of the batch.                                        *)
LEMMA ThreadMoves ==
  ASSUME SchedInv, QueueInv, NEW i \in DOMAIN stage,
         ThreadStep(i) \/ Cancel(i) \/ HandleTxnProcessingException(i)
  PROVE  SchedInv' /\ QueueInv'
<1>1. /\ UNCHANGED schedulerVars /\ UNCHANGED <<running, mStdTxns, mNonStdTxns>>
      /\ \E from \in Stages \ {"over"}, to \in Stages : Go(i, from, to)
      /\ orphans' \subseteq orphans \cup {txs[i]} /\ mempool' \subseteq mempool \cup {txs[i]}
  <2>1. CASE TxnValidation(i)
    BY <2>1, Zenon DEF TxnValidation, Stages, queueVars, orphanVars, chainVars
  <2>2. CASE insertTxnInputs(i)
    BY <2>2, Zenon DEF insertTxnInputs, Stages, queueVars, orphanVars, chainVars
  <2>3. CASE CommitTxToMempool(i)
    BY <2>3, Zenon DEF CommitTxToMempool, Stages, queueVars, orphanVars
  <2>4. CASE FinishAccepted(i)
    BY <2>4, Zenon DEF FinishAccepted, Stages, queueVars, chainVars
  <2>5. CASE HandleInvalidP2PTxn(i)
    <3>1. ASSUME NEW pool, NEW kept \in Limited(pool) PROVE kept \subseteq pool
      BY Zenon DEF Limited
    <3>2. /\ UNCHANGED schedulerVars /\ UNCHANGED <<queueVars, chainVars>>
          /\ Go(i, "reject", "over")
      BY <2>5, Zenon DEF HandleInvalidP2PTxn
    <3>3. \/ orphans' = orphans \/ orphans' \in Limited(orphans \cup {txs[i]})
          \/ orphans' = orphans \ FromPeer(Peer[txs[i]]) \/ orphans' = orphans \ {txs[i]}
      BY <2>5, Zenon DEF HandleInvalidP2PTxn
    <3>4. orphans' \subseteq orphans \cup {txs[i]}
      BY <3>1, <3>3, Zenon
    <3> QED BY <3>2, <3>4, Zenon DEF Stages, queueVars, chainVars
  <2>6. CASE Cancel(i)
    BY <2>6, Zenon DEF Cancel, Stages, queueVars, orphanVars, chainVars
  <2>7. CASE HandleTxnProcessingException(i)
    BY <2>7, Zenon DEF HandleTxnProcessingException, Stages, queueVars, orphanVars, chainVars
  <2> QED BY <2>1, <2>2, <2>3, <2>4, <2>5, <2>6, <2>7 DEF ThreadStep
<1>2. SchedInv'
  BY <1>1, GoSched, Zenon
<1>3. txs[i] \in Txs
  BY DEF SchedInv, BatchInv, Positions
<1> QED BY <1>1, <1>2, <1>3, Zenon DEF QueueInv

(* The batch, its tasks and the queues through every step.                 *)
LEMMA NextSched ==
  ASSUME SchedInv, QueueInv, [Next]_vars
  PROVE  SchedInv' /\ QueueInv'
<1>1. CASE UNCHANGED vars
  BY <1>1, OtherSched, Zenon DEF vars, QueueInv, queueVars, threadVars, orphanVars, chainVars
<1>2. ASSUME NEW t \in Txs, ProcessTxMessage(t) PROVE SchedInv' /\ QueueInv'
  <2>1. UNCHANGED <<schedulerVars, running, stage>> /\ UNCHANGED <<mNonStdTxns, mempool, orphans>>
    BY <1>2, Zenon DEF ProcessTxMessage, threadVars, chainVars, orphanVars
  <2>2. mStdTxns' = mStdTxns \/ mStdTxns' = Append(mStdTxns, t)
    BY <1>2, Zenon DEF ProcessTxMessage
  <2>3. mStdTxns' \in Seq(Txs)
    BY <2>2 DEF QueueInv
  <2> QED BY <2>1, <2>3, OtherSched, Zenon DEF QueueInv
<1>3. ASSUME NEW t \in Submitted, ProcessValidation(t) PROVE SchedInv' /\ QueueInv'
  <2>1. /\ UNCHANGED <<schedulerVars, running, stage>>
        /\ UNCHANGED <<mStdTxns, mNonStdTxns, orphans>> /\ mempool' \subseteq mempool \cup {t}
    BY <1>3, Zenon DEF ProcessValidation, queueVars, threadVars, orphanVars
  <2> QED BY <2>1, OtherSched, TransactionAssumption, Zenon DEF QueueInv
<1>4. ASSUME NEW t \in tasks, EndTask(t) PROVE SchedInv' /\ QueueInv'
  BY <1>4, EndTaskSched, Zenon DEF QueueInv, EndTask, queueVars, orphanVars, chainVars
<1>5. ASSUME NEW B \in BlockChoices, BlockConnected(B) PROVE SchedInv' /\ QueueInv'
  <2>1. /\ UNCHANGED <<schedulerVars, running, stage>> /\ UNCHANGED <<mStdTxns, mNonStdTxns>>
        /\ mempool' \subseteq mempool /\ orphans' \subseteq orphans
    BY <1>5, Zenon DEF BlockConnected, queueVars, threadVars
  <2> QED BY <2>1, OtherSched, Zenon DEF QueueInv
<1>6. ASSUME NEW p, FinalizeNode(p) PROVE SchedInv' /\ QueueInv'
  <2>1. /\ UNCHANGED <<schedulerVars, running, stage>> /\ UNCHANGED <<mStdTxns, mNonStdTxns, mempool>>
        /\ orphans' \subseteq orphans
    BY <1>6, Zenon DEF FinalizeNode, queueVars, threadVars, chainVars
  <2> QED BY <2>1, OtherSched, Zenon DEF QueueInv
<1>7. CASE SchedulerStep
  BY <1>7, SchedulerStepSched, Zenon DEF SchedulerStep, QueueInv, queueVars, orphanVars, chainVars
<1> QED BY <1>1, <1>2, <1>3, <1>4, <1>5, <1>6, <1>7, StartBatchSched, TrimSched, EndBatchSched,
           ThreadMoves DEF Next

(* Init: no batch.                                                         *)
LEMMA InitSched == Init => SchedInv /\ QueueInv
<1> SUFFICES ASSUME Init PROVE SchedInv /\ QueueInv
  BY Zenon
<1>1. BatchInv /\ ScheduleInv /\ OrderInv /\ QueueInv
  BY DEF Init, SchedulerInit, BatchInv, ScheduleInv, OrderInv, QueueInv
<1>2. TaskInv
  BY FS_EmptySet, Zenon DEF Init, SchedulerInit, TaskInv
<1> QED BY <1>1, <1>2, Zenon DEF SchedInv

LEMMA ValidatorSched == Spec => [](SchedInv /\ QueueInv)
<1>1. SchedInv /\ QueueInv /\ [Next]_vars => (SchedInv /\ QueueInv)'
  BY NextSched, Zenon
<1> QED BY <1>1, InitSched, PTL DEF Spec

(* Whatever the batch, the number of threads and their interleaving: no    *)
(* thread works on a transaction while a parent of it in the same batch is *)
(* still to be validated, and the scheduler's count of tasks is right.     *)
THEOREM ValidatorParentsFirst == Spec => []ParentsFirst
<1>1. SchedInv /\ QueueInv => ParentsFirst
  BY DEF SchedInv, OrderInv, ScheduleInv, ParentsFirst
<1> QED BY <1>1, ValidatorSched, PTL

-----------------------------------------------------------------------------
(* The mempool and the chain.                                              *)

(* The inputs of t are there.                                              *)
HasInputs(t) == \A o \in Inputs[t] : HaveCoin(o)

(* No transaction of the chain is in the mempool or on its way there.      *)
Mined(M) == M \in SUBSET Txs /\ LeavesUnspent(M, coins) /\ M \cap mempool = {}

MinedInv ==
  /\ \E M : Mined(M)
  /\ \A i \in DOMAIN stage : stage[i] \in {"detect", "commit"} => HasInputs(txs[i])

(* An unspent output of a transaction exists, and the transaction is not   *)
(* in the mempool.                                                         *)
LEMMA CoinMined ==
  ASSUME MinedInv, NEW o \in coins, o[1] \in Txs
  PROVE  o[1] \notin mempool /\ o \in Outs(o[1])
BY Zenon DEF MinedInv, Mined, LeavesUnspent

(* A transaction that has its inputs is not on the chain.                  *)
LEMMA InputsNotMined ==
  ASSUME mempool \subseteq Txs, NEW M, Mined(M), NEW t \in Txs, HasInputs(t)
  PROVE  t \notin M
<1> SUFFICES ASSUME t \in M PROVE FALSE
  OBVIOUS
<1>1. PICK o \in Inputs[t] : TRUE
  BY TransactionAssumption, Zenon
<1>2. o[1] \in Parents(t) /\ o \in Spent(M)
  BY Zenon DEF Parents, Spent
<1>3. o \notin coins /\ (o[1] \in Txs => o[1] \in M)
  BY <1>2, Zenon DEF Mined, LeavesUnspent
<1>4. o[1] \in mempool
  BY <1>3, Zenon DEF HasInputs, HaveCoin
<1> QED BY <1>3, <1>4, Zenon DEF Mined

(* A block holds no transaction a second time.                             *)
LEMMA BlockNew ==
  ASSUME NEW M, Mined(M), NEW B \in BlockChoices, BlockConnected(B)
  PROVE  B \subseteq Txs /\ B \cap M = {}
<1>1. B \subseteq Txs
  BY TransactionAssumption, Zenon
<1> SUFFICES ASSUME B \cap M # {} PROVE FALSE
  BY <1>1
<1>2. PICK t \in B \cap M : Parents(t) \cap (B \cap M) = {}
  <2>1. B \cap M \in SUBSET Txs
    BY <1>1
  <2> QED BY <2>1, MinedAssumption, Zenon
<1>3. PICK o \in Inputs[t] : TRUE
  BY <1>1, <1>2, TransactionAssumption, Zenon
<1>4. o[1] \in Parents(t) /\ o \in Spent(M) /\ o \in Spent(B)
  BY <1>2, Zenon DEF Parents, Spent
<1>5. o \notin coins /\ (o[1] \in Txs => o[1] \in M)
  BY <1>2, <1>4, Zenon DEF Mined, LeavesUnspent
<1>6. o \in UNION {Outs(u) : u \in B}
  BY <1>4, <1>5, Zenon DEF BlockConnected
<1>7. PICK u \in B : o \in Outs(u)
  BY <1>6, Zenon
<1>8. o[1] = u
  BY <1>7 DEF Outs
<1> QED BY <1>1, <1>2, <1>4, <1>5, <1>8, Zenon

(* A block adds its transactions to the chain.                             *)
LEMMA BlockMined ==
  ASSUME NEW M, Mined(M), NEW B \in BlockChoices, BlockConnected(B)
  PROVE  Mined(M \cup B)'
<1> DEFINE made == UNION {Outs(t) : t \in B}
<1>1. B \subseteq Txs /\ B \cap M = {}
  BY BlockNew, Zenon
<1>2. /\ Spent(B) \subseteq coins \cup made /\ coins' = (coins \cup made) \ Spent(B)
      /\ mempool' \subseteq mempool \ B
  BY Zenon DEF BlockConnected
<1>3. \A o \in made : o[1] \in B /\ o \in Outs(o[1])
  BY DEF Outs
<1> HIDE DEF made
<1>4. /\ M \in SUBSET Txs /\ coins \cap Spent(M) = {} /\ M \cap mempool = {}
      /\ \A o \in coins : o[1] \in Txs => o[1] \in M /\ o \in Outs(o[1])
      /\ \A t \in M : Parents(t) \cap Txs \subseteq M
  BY Zenon DEF Mined, LeavesUnspent
<1>5. Spent(M \cup B) = Spent(M) \cup Spent(B)
  BY Zenon DEF Spent
<1>6. made \cap Spent(M) = {}
  <2> SUFFICES ASSUME NEW o \in made, o \in Spent(M) PROVE FALSE
    BY Zenon
  <2>1. PICK t \in M : o \in Inputs[t]
    BY Zenon DEF Spent
  <2>2. o[1] \in Parents(t)
    BY <2>1, Zenon DEF Parents
  <2> QED BY <1>1, <1>3, <1>4, <2>1, <2>2, Zenon
<1>7. coins' \cap Spent(M \cup B) = {}
  BY <1>2, <1>4, <1>5, <1>6, Zenon
<1>8. \A o \in coins' : o[1] \in Txs => o[1] \in M \cup B /\ o \in Outs(o[1])
  BY <1>2, <1>3, <1>4, Zenon
<1>9. ASSUME NEW t \in M \cup B, NEW p \in Parents(t), p \in Txs PROVE p \in M \cup B
  <2>1. CASE t \in M
    BY <1>4, <1>9, <2>1, Zenon
  <2>2. CASE t \in B
    <3>1. PICK o \in Inputs[t] : o[1] = p
      BY Zenon DEF Parents
    <3>2. o \in Spent(B)
      BY <2>2, Zenon DEF Spent
    <3>3. o \in coins \/ o \in made
      BY <1>2, <3>2, Zenon
    <3> QED BY <1>3, <1>4, <1>9, <3>1, <3>3, Zenon
  <2> QED BY <2>1, <2>2, Zenon
<1>10. LeavesUnspent(M \cup B, coins')
  BY <1>7, <1>8, <1>9, Zenon DEF LeavesUnspent
<1>11. (M \cup B) \cap mempool' = {} /\ M \cup B \in SUBSET Txs
  BY <1>1, <1>2, <1>4, Zenon
<1> QED BY <1>10, <1>11, Zenon DEF Mined, LeavesUnspent, Spent, Outs, Parents

(* A transaction with its inputs may enter the mempool, others may leave.  *)
LEMMA EnterMined ==
  ASSUME QueueInv, NEW M, Mined(M), NEW t \in Txs, HasInputs(t),
         mempool' \subseteq mempool \cup {t}, coins' = coins
  PROVE  Mined(M)'
<1>1. t \notin M
  BY InputsNotMined, Zenon DEF QueueInv
<1>2. M \cap mempool' = {}
  BY <1>1, Zenon DEF Mined
<1> QED BY <1>2, Zenon DEF Mined, LeavesUnspent, Spent, Outs, Parents

(* A step of a thread.                                                     *)
LEMMA GoStage ==
  ASSUME SchedInv, NEW i, NEW from, NEW to, Go(i, from, to)
  PROVE  /\ DOMAIN stage = DOMAIN txs /\ DOMAIN stage' = DOMAIN stage
         /\ i \in DOMAIN stage /\ stage[i] = from /\ txs[i] \in Txs
         /\ \A j \in DOMAIN stage : stage'[j] = IF j = i THEN to ELSE stage[j]
<1>1. i \in DOMAIN stage /\ stage[i] = from /\ stage' = [stage EXCEPT ![i] = to]
  BY Zenon DEF Go
<1>2. stage \in [Positions -> Stages] /\ txs \in Seq(Txs)
  BY <1>1 DEF SchedInv, BatchInv
<1> QED BY <1>1, <1>2 DEF Positions

(* Every position is through unless a batch is validated.                  *)
LEMMA AllOver ==
  ASSUME SchedInv, running # "validate" \/ (scheduling = "off" /\ tasks = {})
  PROVE  \A i \in DOMAIN stage : stage[i] = "over"
<1>1. running = "idle" => DOMAIN stage = {}
  BY DEF SchedInv, BatchInv
<1>2. scheduling = "off" /\ tasks = {}
  BY Zenon DEF SchedInv, BatchInv
<1>3. PositionsOf(tasks) = {}
  BY <1>2, Zenon DEF PositionsOf
<1>4. running # "idle" => \A i \in DOMAIN stage : stage[i] = "over"
  BY <1>2, <1>3, Zenon DEF SchedInv, BatchInv, ScheduleInv
<1> QED BY <1>1, <1>4, Zenon

(* The same mempool and chain.                                             *)
LEMMA MinedSame ==
  ASSUME MinedInv, UNCHANGED <<mempool, coins>>,
         \A i \in DOMAIN stage' : stage'[i] \in {"detect", "commit"} =>
           \/ i \in DOMAIN stage /\ stage[i] \in {"detect", "commit"} /\ txs'[i] = txs[i]
           \/ HasInputs(txs'[i])
  PROVE  MinedInv'
<1>1. \A t : HasInputs(t) => HasInputs(t)'
  BY Zenon DEF HasInputs, HaveCoin, Outs
<1>2. \A M : Mined(M) => Mined(M)'
  BY Zenon DEF Mined, LeavesUnspent, Spent, Outs, Parents
<1>3. \A i \in DOMAIN stage' : stage'[i] \in {"detect", "commit"} => HasInputs(txs'[i])
  BY Zenon DEF MinedInv
<1>4. \A i \in DOMAIN stage' : stage'[i] \in {"detect", "commit"} =>
         \A o \in Inputs[txs'[i]] : HaveCoin(o)'
  BY <1>3, Zenon DEF HasInputs, HaveCoin, Outs
<1>5. (\A i \in DOMAIN stage : stage[i] \in {"detect", "commit"} => HasInputs(txs[i]))'
  BY <1>4, Zenon DEF HasInputs
<1> QED BY <1>2, <1>5, Zenon DEF MinedInv

(* No thread is between check and commit.                                  *)
LEMMA MinedRest ==
  ASSUME NEW M, Mined(M)', \A i \in DOMAIN stage' : stage'[i] \notin {"detect", "commit"}
  PROVE  MinedInv'
BY Zenon DEF MinedInv

(* CommitTxToMempool.                                                      *)
LEMMA MinedCommit ==
  ASSUME SchedInv, QueueInv, MinedInv, NEW i, CommitTxToMempool(i)
  PROVE  MinedInv'
<1>1. /\ Go(i, "commit", "finish") /\ mempool' = mempool \cup {txs[i]} /\ coins' = coins
      /\ txs' = txs
  BY Zenon DEF CommitTxToMempool, schedulerVars
<1>2. /\ DOMAIN stage' = DOMAIN stage /\ i \in DOMAIN stage /\ stage[i] = "commit" /\ txs[i] \in Txs
      /\ \A j \in DOMAIN stage : stage'[j] = IF j = i THEN "finish" ELSE stage[j]
  BY <1>1, GoStage, Zenon
<1>3. PICK M : Mined(M)
  BY Zenon DEF MinedInv
<1>4. Mined(M)'
  <2>1. HasInputs(txs[i])
    BY <1>2, Zenon DEF MinedInv
  <2> QED BY <1>1, <1>2, <1>3, <2>1, EnterMined
<1>5. ASSUME NEW o, HaveCoin(o) PROVE HaveCoin(o)'
  <2>1. CASE o[1] \in mempool
    BY <1>1, <1>5, <2>1, Zenon DEF HaveCoin, Outs
  <2>2. CASE o[1] \notin mempool /\ o[1] # txs[i]
    BY <1>1, <1>5, <2>2, Zenon DEF HaveCoin
  <2>3. CASE o[1] \notin mempool /\ o[1] = txs[i]
    <3>1. o \in coins /\ o[1] \in Txs
      BY <1>2, <1>5, <2>3, Zenon DEF HaveCoin
    <3>2. o \in Outs(o[1])
      BY <3>1, CoinMined, Zenon
    <3> QED BY <1>1, <2>3, <3>2, Zenon DEF HaveCoin, Outs
  <2> QED BY <2>1, <2>2, <2>3, Zenon
<1>6. \A j \in DOMAIN stage' : stage'[j] \in {"detect", "commit"} =>
        \A o \in Inputs[txs'[j]] : HaveCoin(o)'
  BY <1>1, <1>2, <1>5, Zenon DEF MinedInv, HasInputs
<1>7. (\A j \in DOMAIN stage : stage[j] \in {"detect", "commit"} => HasInputs(txs[j]))'
  BY <1>6, Zenon DEF HasInputs
<1> QED BY <1>4, <1>7, Zenon DEF MinedInv

LEMMA MinedThread ==
  ASSUME SchedInv, QueueInv, MinedInv, NEW i \in DOMAIN stage,
         ThreadStep(i) \/ Cancel(i) \/ HandleTxnProcessingException(i)
  PROVE  MinedInv'
<1>1. ASSUME NEW from, NEW to, Go(i, from, to), txs' = txs, UNCHANGED <<mempool, coins>>,
             to \in {"detect", "commit"} => from = "detect" \/ HasInputs(txs[i])
      PROVE  MinedInv'
  <2>1. /\ DOMAIN stage' = DOMAIN stage /\ stage[i] = from
        /\ \A j \in DOMAIN stage : stage'[j] = IF j = i THEN to ELSE stage[j]
    BY <1>1, GoStage, Zenon
  <2>2. \A j \in DOMAIN stage' : stage'[j] \in {"detect", "commit"} =>
          \/ j \in DOMAIN stage /\ stage[j] \in {"detect", "commit"} /\ txs'[j] = txs[j]
          \/ HasInputs(txs'[j])
    BY <1>1, <2>1, Zenon
  <2> QED BY <1>1, <2>2, MinedSame, Zenon
<1>2. CASE TxnValidation(i)
  <2>1. "valid" \in Findings(txs[i]) => HasInputs(txs[i])
    BY Zenon DEF Findings, HasInputs
  <2>2. /\ txs' = txs /\ UNCHANGED <<mempool, coins>>
        /\ Go(i, "ready", "reject") \/ ("valid" \in Findings(txs[i]) /\ Go(i, "ready", "detect"))
    BY <1>2, Zenon DEF TxnValidation, schedulerVars, chainVars
  <2> QED BY <1>1, <2>1, <2>2, Zenon
<1>3. CASE insertTxnInputs(i)
  <2>1. /\ txs' = txs /\ UNCHANGED <<mempool, coins>>
        /\ \E to : Go(i, "detect", to)
    BY <1>3, Zenon DEF insertTxnInputs, schedulerVars, chainVars
  <2> QED BY <1>1, <2>1, Zenon
<1>4. CASE CommitTxToMempool(i)
  BY <1>4, MinedCommit, Zenon
<1>5. CASE FinishAccepted(i)
  BY <1>1, <1>5, Zenon DEF FinishAccepted, schedulerVars, chainVars
<1>6. CASE HandleInvalidP2PTxn(i)
  BY <1>1, <1>6, Zenon DEF HandleInvalidP2PTxn, schedulerVars, chainVars
<1>7. CASE Cancel(i)
  BY <1>1, <1>7, Zenon DEF Cancel, schedulerVars, chainVars
<1>8. CASE HandleTxnProcessingException(i)
  BY <1>1, <1>8, Zenon DEF HandleTxnProcessingException, schedulerVars, chainVars
<1> QED BY <1>2, <1>3, <1>4, <1>5, <1>6, <1>7, <1>8, Zenon DEF ThreadStep

LEMMA NextMined ==
  ASSUME SchedInv, QueueInv, MinedInv, [Next]_vars
  PROVE  MinedInv'
<1>0. PICK M : Mined(M)
  BY Zenon DEF MinedInv
<1>1. ASSUME UNCHANGED <<txs, stage, mempool, coins>> PROVE MinedInv'
  BY <1>1, MinedSame, Zenon
<1>2. CASE UNCHANGED vars
  BY <1>1, <1>2, Zenon DEF vars, schedulerVars, threadVars, chainVars
<1>3. ASSUME NEW t \in Txs, ProcessTxMessage(t) PROVE MinedInv'
  BY <1>1, <1>3, Zenon DEF ProcessTxMessage, schedulerVars, threadVars, chainVars
<1>4. ASSUME NEW t \in Submitted, ProcessValidation(t) PROVE MinedInv'
  <2>1. /\ running = "idle" /\ "valid" \in Findings(t) /\ stage' = stage /\ coins' = coins
        /\ mempool' \subseteq mempool \cup {t}
    BY <1>4, Zenon DEF ProcessValidation, threadVars
  <2>2. t \in Txs /\ HasInputs(t)
    BY <2>1, TransactionAssumption, Zenon DEF Findings, HasInputs
  <2>3. Mined(M)'
    BY <1>0, <2>1, <2>2, EnterMined, Zenon
  <2> QED BY <2>1, <2>3, AllOver, MinedRest, Zenon
<1>5. ASSUME NEW t \in tasks, EndTask(t) PROVE MinedInv'
  BY <1>1, <1>5, Zenon DEF EndTask, MarkResult, threadVars, chainVars
<1>6. ASSUME NEW B \in BlockChoices, BlockConnected(B) PROVE MinedInv'
  <2>1. running # "validate" /\ stage' = stage
    BY <1>6, Zenon DEF BlockConnected, threadVars
  <2>2. Mined(M \cup B)'
    BY <1>0, <1>6, BlockMined, Zenon
  <2> QED BY <2>1, <2>2, AllOver, MinedRest, Zenon
<1>7. ASSUME NEW p, FinalizeNode(p) PROVE MinedInv'
  BY <1>1, <1>7, Zenon DEF FinalizeNode, schedulerVars, threadVars, chainVars
<1>8. CASE SchedulerStep
  <2>1. txs' = txs
    BY <1>8, Zenon DEF SchedulerStep, Schedule, TakeCompletions, ScanTransactions, EndScan, EndSchedule,
                BuildSpendersMap
  <2> QED BY <1>1, <1>8, <2>1, Zenon DEF SchedulerStep, threadVars, chainVars
<1>9. CASE StartBatch
  <2>1. UNCHANGED <<mempool, coins>> /\ \A i \in DOMAIN stage' : stage'[i] \notin {"detect", "commit"}
    BY <1>9, Zenon DEF StartBatch, chainVars
  <2> QED BY <2>1, MinedSame, Zenon
<1>10. CASE TrimMempool
  <2>1. /\ scheduling = "off" /\ tasks = {} /\ stage' = stage /\ coins' = coins
        /\ mempool' \subseteq mempool
    BY <1>10, Zenon DEF TrimMempool, threadVars
  <2>2. Mined(M)'
    BY <1>0, <2>1, Zenon DEF Mined, LeavesUnspent, Spent, Outs, Parents
  <2> QED BY <2>1, <2>2, AllOver, MinedRest, Zenon
<1>11. CASE EndBatch
  <2>1. UNCHANGED <<mempool, coins>> /\ stage' = <<>>
    BY <1>11, Zenon DEF EndBatch, chainVars
  <2>2. \A i \in DOMAIN stage' : stage'[i] \notin {"detect", "commit"}
    BY <2>1
  <2> QED BY <2>1, <2>2, MinedSame, Zenon
<1> QED BY <1>2, <1>3, <1>4, <1>5, <1>6, <1>7, <1>8, <1>9, <1>10, <1>11, MinedThread DEF Next

LEMMA InitMined == Init => MinedInv
<1> SUFFICES ASSUME Init PROVE MinedInv
  OBVIOUS
<1>1. mempool = {} /\ coins = Coins /\ stage = <<>>
  BY Zenon DEF Init
<1>2. \E M : Mined(M)
  BY <1>1, MinedAssumption, Zenon DEF Mined
<1>3. DOMAIN stage = {}
  BY <1>1
<1> QED BY <1>2, <1>3, Zenon DEF MinedInv

-----------------------------------------------------------------------------
(* Orphans.                                                                *)

(* The transactions accepted in this batch whose data is collected, or     *)
(* will be.                                                                *)
Accepted == collected \cup {txs[i] : i \in {j \in DOMAIN stage : stage[j] = "finish"}}

(* A parent of t came with this batch, in a block or over RPC.             *)
News(t) == Parents(t) \cap (outside \cup Accepted) # {}

(* The batch has yet to validate the transaction at i, to erase it from    *)
(* the orphans or to put it on a queue again.                              *)
Pending(i) ==
  \/ stage[i] \in {"ready", "detect", "commit", "finish"}
  \/ stage[i] = "reject" /\ verdict[i] # "missing"
  \/ stage[i] = "over" /\ verdict[i] = "canceled"
  \/ stage[i] = "over" /\ verdict[i] = "timeout" /\ txs[i] \notin low

Waits(t) ==
  \/ t \in Range(mStdTxns) \/ t \in Range(mNonStdTxns)
  \/ t \in Range(txs) /\ (running # "idle" => \A i \in DOMAIN txs : txs[i] = t => Pending(i))

(* An orphan that has its inputs was given news, was given up or waits.    *)
Covered(t) == HasInputs(t) => News(t) \/ t \in dropped \/ Waits(t)

(* A transaction found without an input has had news if it has it now.     *)
Missing(i) == stage[i] \in {"reject", "over"} /\ verdict[i] = "missing"

OwnerInv ==
  /\ orphans \subseteq orphanFlag /\ \A o \in orphans : Peer[o] \notin gone
  /\ collected \subseteq Txs /\ (running = "idle" => collected = {})
  /\ DOMAIN verdict = DOMAIN stage
  /\ \A i \in DOMAIN stage : stage[i] \in {"detect", "commit", "finish"} => verdict[i] # "missing"

OrphanInv ==
  /\ OwnerInv
  /\ \A o \in orphans : Covered(o)
  /\ \A i \in DOMAIN stage : \A t : txs[i] = t /\ Missing(i) /\ HasInputs(t) => News(t)

(* News stay news.                                                         *)
LEMMA NewsStays ==
  ASSUME outside \subseteq outside', Accepted \subseteq Accepted', NEW t, News(t)
  PROVE  News(t)'
BY Zenon DEF News, Parents

(* The mempool grows: an input that is there now and was not before is of  *)
(* a transaction that entered.                                             *)
LEMMA InputsCome ==
  ASSUME mempool \subseteq mempool', coins' = coins, NEW t, HasInputs(t)', ~HasInputs(t)
  PROVE  Parents(t) \cap (mempool' \ mempool) # {}
<1>1. PICK o \in Inputs[t] : ~HaveCoin(o) /\ HaveCoin(o)'
  BY Zenon DEF HasInputs
<1>2. o[1] \in mempool' /\ o[1] \notin mempool
  BY <1>1, Zenon DEF HaveCoin, Outs
<1> QED BY <1>2, Zenon DEF Parents

(* A step of a thread at position i.                                       *)
LEMMA OrphanGo ==
  ASSUME SchedInv, OrphanInv, OwnerInv', NEW i, NEW from, NEW to, Go(i, from, to),
         UNCHANGED <<txs, running, mStdTxns, mNonStdTxns, coins, low, outside>>,
         dropped \subseteq dropped', Accepted \subseteq Accepted',
         mempool \subseteq mempool', mempool' \ mempool \subseteq Accepted',
         verdict' = verdict \/ \E v : Find(i, v),
         NEW t, t = txs[i], orphans' \subseteq orphans \cup {t},
         Missing(i)' /\ HasInputs(t)' => News(t)',
         t \in orphans' /\ HasInputs(t)' => News(t)' \/ t \in dropped' \/ (t \in orphans /\ Pending(i)')
  PROVE  OrphanInv'
<1>1. /\ DOMAIN stage = DOMAIN txs /\ DOMAIN stage' = DOMAIN stage /\ i \in DOMAIN stage
      /\ \A j \in DOMAIN stage : j # i => stage'[j] = stage[j]
  BY GoStage, Zenon
<1>2. \A j \in DOMAIN stage : j # i => verdict'[j] = verdict[j]
  BY Zenon DEF OrphanInv, OwnerInv, Find
<1>3. \A u : News(u) => News(u)'
  BY NewsStays, Zenon
<1>4. \A u : HasInputs(u)' => HasInputs(u) \/ News(u)'
  <2> SUFFICES ASSUME NEW u, HasInputs(u)', ~HasInputs(u) PROVE News(u)'
    BY Zenon
  <2>1. Parents(u) \cap (mempool' \ mempool) # {}
    BY InputsCome, Zenon
  <2> QED BY <2>1, Zenon DEF News, Parents
<1>5. \A j \in DOMAIN stage : j # i => (Pending(j) => Pending(j)') /\ (Missing(j)' => Missing(j))
  BY <1>1, <1>2, Zenon DEF Pending, Missing
<1>6. ASSUME NEW u \in orphans, Waits(u), u = t => Pending(i)' PROVE Waits(u)'
  <2>1. CASE u \in Range(mStdTxns) \/ u \in Range(mNonStdTxns)
    BY <2>1, Zenon DEF Waits
  <2>2. CASE u \in Range(txs) /\ (running # "idle" => \A j \in DOMAIN txs : txs[j] = u => Pending(j))
    <3>1. running # "idle" => \A j \in DOMAIN txs : txs[j] = u => Pending(j)'
      BY <1>1, <1>5, <1>6, <2>2, Zenon
    <3> QED BY <2>2, <3>1, Zenon DEF Waits
  <2> QED BY <1>6, <2>1, <2>2, Zenon DEF Waits
<1>7. ASSUME NEW u \in orphans' PROVE Covered(u)'
  <2> SUFFICES ASSUME HasInputs(u)', ~News(u)', u \notin dropped' PROVE Waits(u)'
    BY Zenon DEF Covered
  <2>1. u \in orphans /\ (u = t => Pending(i)')
    BY Zenon
  <2>2. HasInputs(u) /\ ~News(u) /\ u \notin dropped
    BY <1>3, <1>4, Zenon
  <2>3. Waits(u)
    BY <2>1, <2>2, Zenon DEF OrphanInv, Covered
  <2> QED BY <1>6, <2>1, <2>3, Zenon
<1>8. ASSUME NEW j \in DOMAIN stage', NEW u, txs'[j] = u, Missing(j)', HasInputs(u)' PROVE News(u)'
  <2>1. CASE j = i
    BY <1>8, <2>1, Zenon
  <2>2. CASE j # i
    <3>1. txs[j] = u /\ Missing(j) /\ j \in DOMAIN stage
      BY <1>1, <1>5, <1>8, <2>2, Zenon
    <3>2. HasInputs(u) => News(u)
      BY <3>1, Zenon DEF OrphanInv
    <3> QED BY <1>3, <1>4, <1>8, <3>2, Zenon
  <2> QED BY <2>1, <2>2, Zenon
<1> QED BY <1>7, <1>8, Zenon DEF OrphanInv

(* What is on its way to the collected data stays so.                      *)
LEMMA AcceptedGo ==
  ASSUME SchedInv, NEW i, NEW from, NEW to, Go(i, from, to), txs' = txs,
         collected \subseteq collected', from = "finish" => txs[i] \in collected'
  PROVE  Accepted \subseteq Accepted'
<1>1. /\ DOMAIN stage' = DOMAIN stage /\ stage[i] = from
      /\ \A j \in DOMAIN stage : stage'[j] = IF j = i THEN to ELSE stage[j]
  BY GoStage, Zenon
<1> SUFFICES ASSUME NEW t \in Accepted PROVE t \in Accepted'
  OBVIOUS
<1>2. CASE t \in collected
  BY <1>2, Zenon DEF Accepted
<1>3. ASSUME NEW j \in DOMAIN stage, stage[j] = "finish", t = txs[j] PROVE t \in Accepted'
  <2>1. CASE j = i
    BY <1>1, <1>3, <2>1, Zenon DEF Accepted
  <2>2. CASE j # i
    BY <1>1, <1>3, <2>2, Zenon DEF Accepted
  <2> QED BY <2>1, <2>2, Zenon
<1> QED BY <1>2, <1>3, Zenon DEF Accepted

(* A check: TxnValidation, the detector, or a cancelled check.             *)
LEMMA OrphanCheck ==
  ASSUME SchedInv, OrphanInv, NEW i, NEW from, NEW to, Go(i, from, to), from # "finish", NEW v, Find(i, v),
         UNCHANGED <<txs, running, mStdTxns, mNonStdTxns, mempool, coins, low, outside, dropped,
                     orphans, orphanFlag, gone, collected>>,
         v = "missing" => ~HasInputs(txs[i]),
         \/ to \in {"detect", "commit"} /\ v = "valid"
         \/ to = "reject"
         \/ to = "over" /\ v = "canceled"
  PROVE  OrphanInv'
<1>1. PICK t : t = txs[i]
  OBVIOUS
<1>2. /\ DOMAIN stage' = DOMAIN stage /\ i \in DOMAIN stage /\ stage'[i] = to
      /\ \A j \in DOMAIN stage : j # i => stage'[j] = stage[j]
  BY GoStage, Zenon
<1>3. /\ verdict'[i] = v /\ DOMAIN verdict' = DOMAIN verdict
      /\ \A j \in DOMAIN stage : j # i => verdict'[j] = verdict[j]
  BY <1>2, Zenon DEF OrphanInv, OwnerInv, Find
<1>4. OwnerInv'
  BY <1>2, <1>3, Zenon DEF OrphanInv, OwnerInv
<1>5. Accepted \subseteq Accepted'
  BY AcceptedGo, Zenon
<1>6. HasInputs(t)' => HasInputs(t)
  BY Zenon DEF HasInputs, HaveCoin, Outs
<1>7. Missing(i)' => v = "missing"
  BY <1>3, Zenon DEF Missing
<1>8. v # "missing" => Pending(i)'
  BY <1>2, <1>3, Zenon DEF Pending
<1>9. /\ Missing(i)' /\ HasInputs(t)' => News(t)'
      /\ t \in orphans' /\ HasInputs(t)' => News(t)' \/ t \in dropped' \/ (t \in orphans /\ Pending(i)')
  BY <1>1, <1>6, <1>7, <1>8, Zenon
<1> QED BY <1>1, <1>4, <1>5, <1>9, OrphanGo, Zenon

(* An accepted transaction enters the mempool.                             *)
LEMMA OrphanCommit ==
  ASSUME SchedInv, OrphanInv, NEW i, CommitTxToMempool(i)
  PROVE  OrphanInv'
<1>1. PICK t : t = txs[i]
  OBVIOUS
<1>2. /\ Go(i, "commit", "finish") /\ mempool' = mempool \cup {txs[i]}
      /\ UNCHANGED <<txs, running, mStdTxns, mNonStdTxns, coins, low, outside, dropped,
                     orphans, orphanFlag, gone, collected, verdict>>
  BY Zenon DEF CommitTxToMempool, schedulerVars, queueVars, orphanVars, txVars, worldVars, historyVars
<1>3. /\ DOMAIN stage' = DOMAIN stage /\ i \in DOMAIN stage /\ stage[i] = "commit"
      /\ stage'[i] = "finish" /\ \A j \in DOMAIN stage : j # i => stage'[j] = stage[j]
  BY <1>2, GoStage, Zenon
<1>4. OwnerInv'
  BY <1>2, <1>3, Zenon DEF OrphanInv, OwnerInv
<1>5. Accepted \subseteq Accepted'
  BY <1>2, AcceptedGo, Zenon
<1>6. mempool \subseteq mempool' /\ mempool' \ mempool \subseteq Accepted'
  BY <1>2, <1>3, Zenon DEF Accepted
<1>7. Pending(i)' /\ ~Missing(i)'
  BY <1>3, Zenon DEF Pending, Missing
<1> QED BY <1>1, <1>2, <1>4, <1>5, <1>6, <1>7, OrphanGo, Zenon

(* The data of an accepted transaction is collected, and it is no orphan.  *)
LEMMA OrphanFinish ==
  ASSUME SchedInv, OrphanInv, NEW i, FinishAccepted(i)
  PROVE  OrphanInv'
<1>1. PICK t : t = txs[i]
  OBVIOUS
<1>2. /\ Go(i, "finish", "over") /\ collected' = collected \cup {txs[i]} /\ orphans' = orphans \ {txs[i]}
      /\ UNCHANGED <<txs, running, mStdTxns, mNonStdTxns, mempool, coins, low, outside, dropped,
                     orphanFlag, gone, verdict>>
  BY Zenon DEF FinishAccepted, schedulerVars, queueVars, chainVars, txVars, worldVars, historyVars
<1>3. /\ DOMAIN stage' = DOMAIN stage /\ i \in DOMAIN stage /\ stage[i] = "finish" /\ txs[i] \in Txs
      /\ stage'[i] = "over" /\ \A j \in DOMAIN stage : j # i => stage'[j] = stage[j]
  BY <1>2, GoStage, Zenon
<1>4. running # "idle"
  BY <1>3 DEF SchedInv, BatchInv
<1>5. OwnerInv'
  BY <1>2, <1>3, <1>4, Zenon DEF OrphanInv, OwnerInv
<1>6. Accepted \subseteq Accepted'
  BY <1>2, AcceptedGo, Zenon
<1>7. ~Missing(i)'
  BY <1>2, <1>3, Zenon DEF OrphanInv, OwnerInv, Missing
<1> QED BY <1>1, <1>2, <1>5, <1>6, <1>7, OrphanGo, Zenon

(* ProcessValidatedTxn for a transaction that is not valid: it becomes or  *)
(* stays an orphan if an input was missing or, with high priority, if it   *)
(* ran out of time.                                                        *)
LEMMA OrphanReject ==
  ASSUME SchedInv, OrphanInv, NEW i, HandleInvalidP2PTxn(i)
  PROVE  OrphanInv'
<1>1. PICK t : t = txs[i]
  OBVIOUS
<1>2. /\ Go(i, "reject", "over")
      /\ UNCHANGED <<txs, running, mStdTxns, mNonStdTxns, mempool, coins, low, outside, dropped,
                     gone, verdict, collected>>
  BY Zenon DEF HandleInvalidP2PTxn, schedulerVars, queueVars, chainVars, worldVars, historyVars
<1>3. /\ DOMAIN stage' = DOMAIN stage /\ i \in DOMAIN stage /\ stage[i] = "reject" /\ txs[i] \in Txs
      /\ stage'[i] = "over" /\ \A j \in DOMAIN stage : j # i => stage'[j] = stage[j]
  BY <1>2, GoStage, Zenon
<1>4. Accepted \subseteq Accepted'
  BY <1>2, AcceptedGo, Zenon
<1>5. \A u : (HasInputs(u)' <=> HasInputs(u)) /\ (News(u) => News(u)')
  <2>1. \A u : HasInputs(u)' <=> HasInputs(u)
    BY <1>2, Zenon DEF HasInputs, HaveCoin, Outs
  <2> QED BY <1>2, <1>4, <2>1, NewsStays, Zenon
<1>6. verdict[i] = "missing" /\ HasInputs(t) => News(t)
  BY <1>1, <1>3, Zenon DEF OrphanInv, Missing
<1>7. \/ verdict[i] = "missing" /\ orphans' \subseteq orphans \cup {t} /\ orphanFlag' = orphanFlag \cup {t}
         /\ Peer[t] \notin gone
      \/ orphans' \subseteq orphans /\ orphanFlag \subseteq orphanFlag'
  <2>1. ASSUME NEW pool, NEW kept \in Limited(pool) PROVE kept \subseteq pool
    BY Zenon DEF Limited
  <2> QED BY <1>1, <2>1, Zenon DEF HandleInvalidP2PTxn
<1>8. ASSUME t \in orphans, t \in orphans'
      PROVE  verdict[i] = "missing" \/ (verdict[i] = "timeout" /\ t \notin low)
  <2>1. t \in orphanFlag /\ Peer[t] \notin gone
    BY <1>8, Zenon DEF OrphanInv, OwnerInv
  <2>2. CASE verdict[i] # "missing"
    <3>1. orphans' = IF verdict[i] = "bad" THEN orphans \ FromPeer(Peer[t])
                     ELSE IF Completed(i) THEN orphans \ {t} ELSE orphans
      BY <1>1, <2>1, <2>2, Zenon DEF HandleInvalidP2PTxn
    <3>2. t \in FromPeer(Peer[t])
      BY <1>8, Zenon DEF FromPeer
    <3>3. ~Completed(i)
      BY <1>8, <3>1, <3>2, Zenon
    <3> QED BY <1>1, <3>3, Zenon DEF Completed
  <2> QED BY <2>2, Zenon
<1>9. OwnerInv'
  <2>1. orphans' \subseteq orphanFlag' /\ \A o \in orphans' : Peer[o] \notin gone'
    BY <1>2, <1>7, Zenon DEF OrphanInv, OwnerInv
  <2> QED BY <1>2, <1>3, <2>1, Zenon DEF OrphanInv, OwnerInv
<1>10. Missing(i)' /\ HasInputs(t)' => News(t)'
  BY <1>2, <1>5, <1>6, Zenon DEF Missing
<1>11. verdict[i] = "timeout" /\ t \notin low => Pending(i)'
  BY <1>1, <1>2, <1>3, Zenon DEF Pending
<1>12. t \in orphans' /\ HasInputs(t)' => News(t)' \/ (t \in orphans /\ Pending(i)')
  BY <1>5, <1>6, <1>7, <1>8, <1>11, Zenon
<1>13. orphans' \subseteq orphans \cup {t}
  BY <1>7, Zenon
<1> QED BY <1>1, <1>2, <1>4, <1>9, <1>10, <1>12, <1>13, OrphanGo, Zenon

(* An exception gives the transaction up.                                  *)
LEMMA OrphanException ==
  ASSUME SchedInv, OrphanInv, NEW i, HandleTxnProcessingException(i)
  PROVE  OrphanInv'
<1>1. PICK t : t = txs[i]
  OBVIOUS
<1>2. /\ Go(i, "ready", "over") \/ Go(i, "commit", "over")
      /\ Find(i, "faulted") /\ dropped' = dropped \cup {txs[i]}
      /\ UNCHANGED <<txs, running, mStdTxns, mNonStdTxns, mempool, coins, low, outside, orphans,
                     orphanFlag, gone, collected>>
  BY Zenon DEF HandleTxnProcessingException, schedulerVars, queueVars, chainVars, orphanVars, txVars,
         worldVars
<1>3. PICK from : from # "finish" /\ Go(i, from, "over")
  BY <1>2, Zenon
<1>4. /\ DOMAIN stage' = DOMAIN stage /\ i \in DOMAIN stage
      /\ stage'[i] = "over" /\ \A j \in DOMAIN stage : j # i => stage'[j] = stage[j]
  BY <1>3, GoStage, Zenon
<1>5. /\ verdict'[i] = "faulted" /\ DOMAIN verdict' = DOMAIN verdict
      /\ \A j \in DOMAIN stage : j # i => verdict'[j] = verdict[j]
  BY <1>2, <1>4, Zenon DEF OrphanInv, OwnerInv, Find
<1>6. OwnerInv'
  BY <1>2, <1>4, <1>5, Zenon DEF OrphanInv, OwnerInv
<1>7. Accepted \subseteq Accepted'
  BY <1>2, <1>3, AcceptedGo, Zenon
<1>8. ~Missing(i)' /\ t \in dropped'
  BY <1>1, <1>2, <1>5, Zenon DEF Missing
<1> QED BY <1>1, <1>2, <1>3, <1>6, <1>7, <1>8, OrphanGo, Zenon

LEMMA OrphanThread ==
  ASSUME SchedInv, OrphanInv, NEW i \in DOMAIN stage,
         ThreadStep(i) \/ Cancel(i) \/ HandleTxnProcessingException(i)
  PROVE  OrphanInv'
<1>1. CASE TxnValidation(i)
  <2>1. PICK v \in Findings(txs[i]) :
          Find(i, v) /\ Go(i, "ready", IF v = "valid" THEN "detect" ELSE "reject")
    BY <1>1, Zenon DEF TxnValidation
  <2>2. v = "missing" => ~HasInputs(txs[i])
    BY <2>1, Zenon DEF Findings, HasInputs
  <2>3. UNCHANGED <<txs, running, mStdTxns, mNonStdTxns, mempool, coins, low, outside, dropped,
                    orphans, orphanFlag, gone, collected>>
    BY <1>1, Zenon DEF TxnValidation, schedulerVars, queueVars, chainVars, orphanVars, txVars,
                       worldVars, historyVars
  <2> QED BY <2>1, <2>2, <2>3, OrphanCheck, Zenon
<1>2. CASE insertTxnInputs(i)
  <2> DEFINE found == IF CheckTxConflicts(txs[i]) THEN "conflict"
                      ELSE IF Inputs[txs[i]] \intersect Range(mKnownSpends) # {} THEN "doubleSpend"
                      ELSE "valid"
  <2>0. Find(i, found) /\ Go(i, "detect", IF found = "valid" THEN "commit" ELSE "reject")
    BY <1>2, Zenon DEF insertTxnInputs
  <2>1. PICK v : /\ v \in {"valid", "conflict", "doubleSpend"} /\ Find(i, v)
                 /\ Go(i, "detect", IF v = "valid" THEN "commit" ELSE "reject")
    <3>1. found \in {"valid", "conflict", "doubleSpend"}
      BY Zenon
    <3>2. PICK v : v = found
      OBVIOUS
    <3> HIDE DEF found
    <3> QED BY <2>0, <3>1, <3>2, Zenon
  <2> HIDE DEF found
  <2>2. UNCHANGED <<txs, running, mStdTxns, mNonStdTxns, mempool, coins, low, outside, dropped,
                    orphans, orphanFlag, gone, collected>>
    BY <1>2, Zenon DEF insertTxnInputs, schedulerVars, queueVars, chainVars, orphanVars, txVars,
                       worldVars, historyVars
  <2>3. v # "missing"
    BY <2>1, Zenon
  <2> QED BY <2>1, <2>2, <2>3, OrphanCheck, Zenon
<1>3. CASE Cancel(i)
  <2>1. Find(i, "canceled") /\ Go(i, "ready", "over")
    BY <1>3, Zenon DEF Cancel
  <2>2. UNCHANGED <<txs, running, mStdTxns, mNonStdTxns, mempool, coins, low, outside, dropped,
                    orphans, orphanFlag, gone, collected>>
    BY <1>3, Zenon DEF Cancel, schedulerVars, queueVars, chainVars, orphanVars, txVars,
                       worldVars, historyVars
  <2> QED BY <2>1, <2>2, OrphanCheck, Zenon
<1> QED BY <1>1, <1>2, <1>3, OrphanCommit, OrphanFinish, OrphanReject, OrphanException, Zenon DEF ThreadStep

(* Steps that change neither the batch, the mempool nor the chain.         *)
LEMMA OrphanOther ==
  ASSUME OrphanInv, OwnerInv',
         UNCHANGED <<txs, running, stage, verdict, mempool, coins, outside, dropped, collected>>,
         orphans' \subseteq orphans, low' \subseteq low,
         Range(mStdTxns) \subseteq Range(mStdTxns)', Range(mNonStdTxns) \subseteq Range(mNonStdTxns)'
  PROVE  OrphanInv'
<1>0. Accepted' = Accepted
  BY Zenon DEF Accepted
<1>1. \A t : (HasInputs(t)' <=> HasInputs(t)) /\ (News(t)' <=> News(t))
  <2>1. \A t : HasInputs(t)' <=> HasInputs(t)
    BY Zenon DEF HasInputs, HaveCoin, Outs
  <2>2. \A t : News(t)' <=> News(t)
    BY <1>0, Zenon DEF News, Parents
  <2> QED BY <2>1, <2>2, Zenon
<1>2. \A i : (Pending(i) => Pending(i)') /\ (Missing(i)' <=> Missing(i))
  BY Zenon DEF Pending, Missing
<1>3. \A t : Waits(t) => Waits(t)'
  BY <1>2, Zenon DEF Waits
<1>4. \A o \in orphans' : Covered(o)'
  BY <1>1, <1>3, Zenon DEF OrphanInv, Covered
<1>5. \A i \in DOMAIN stage' : \A t : txs'[i] = t /\ Missing(i)' /\ HasInputs(t)' => News(t)'
  BY <1>1, <1>2, Zenon DEF OrphanInv
<1> QED BY <1>4, <1>5, Zenon DEF OrphanInv

(* A step between batches or while one is sorted: the inputs of a          *)
(* transaction come only with news.                                        *)
LEMMA OrphanWorld ==
  ASSUME OrphanInv, OwnerInv',
         UNCHANGED <<txs, running, stage, verdict, mStdTxns, mNonStdTxns, low, dropped>>,
         orphans' \subseteq orphans, outside \subseteq outside',
         \A t : HasInputs(t)' => HasInputs(t) \/ News(t)',
         \A t : HasInputs(t)' /\ News(t) => News(t)'
  PROVE  OrphanInv'
<1>1. \A i : (Pending(i) => Pending(i)') /\ (Missing(i)' <=> Missing(i))
  BY Zenon DEF Pending, Missing
<1>2. \A t : Waits(t) => Waits(t)'
  BY <1>1, Zenon DEF Waits
<1>3. \A o \in orphans' : Covered(o)'
  BY <1>2, Zenon DEF OrphanInv, Covered
<1>4. \A i \in DOMAIN stage' : \A t : txs'[i] = t /\ Missing(i)' /\ HasInputs(t)' => News(t)'
  BY <1>1, Zenon DEF OrphanInv
<1> QED BY <1>3, <1>4, Zenon DEF OrphanInv

(* A transaction of the mempool takes its outputs along when it leaves.    *)
LEMMA InputsGo ==
  ASSUME QueueInv, MinedInv, mempool' \subseteq mempool, coins' = coins, NEW t, HasInputs(t)'
  PROVE  HasInputs(t) /\ Parents(t) \cap (mempool \ mempool') = {}
<1>1. ASSUME NEW o \in Inputs[t] PROVE HaveCoin(o) /\ ~(o[1] \in mempool \ mempool')
  <2>1. HaveCoin(o)'
    BY Zenon DEF HasInputs
  <2>2. CASE o[1] \in mempool \ mempool'
    <3>1. o \in coins /\ o[1] \in Txs /\ o[1] \in mempool
      BY <2>1, <2>2, Zenon DEF HaveCoin, QueueInv
    <3> QED BY <3>1, CoinMined, Zenon
  <2>3. CASE o[1] \notin mempool \ mempool'
    BY <2>1, <2>3, Zenon DEF HaveCoin, Outs
  <2> QED BY <2>2, <2>3, Zenon
<1> QED BY <1>1, Zenon DEF HasInputs, Parents

(* LimitMempoolSize.                                                       *)
LEMMA OrphanTrim ==
  ASSUME SchedInv, QueueInv, MinedInv, OrphanInv, TrimMempool
  PROVE  OrphanInv'
<1>1. PICK removed \in Trimmed(mempool) : mempool' = mempool \ removed /\ collected' = collected \ removed
  BY Zenon DEF TrimMempool
<1>2. /\ running = "validate" /\ running' = "sort" /\ scheduling = "off" /\ tasks = {}
      /\ UNCHANGED <<txs, stage, verdict, mStdTxns, mNonStdTxns, low, dropped, outside, coins,
                     orphans, orphanFlag, gone>>
  BY Zenon DEF TrimMempool, schedulerVars, threadVars, txVars, worldVars, historyVars
<1>3. OwnerInv'
  BY <1>1, <1>2, Zenon DEF OrphanInv, OwnerInv
<1>4. removed \subseteq mempool
  BY Zenon DEF Trimmed
<1>5. Accepted = collected /\ Accepted' = collected'
  <2>1. \A i \in DOMAIN stage : stage[i] # "finish"
    BY <1>2, AllOver, Zenon
  <2> QED BY <1>2, <2>1, Zenon DEF Accepted
<1>6. \A t : HasInputs(t)' => HasInputs(t) /\ Parents(t) \cap removed = {}
  BY <1>1, <1>2, <1>4, InputsGo, Zenon
<1>7. \A t : HasInputs(t)' /\ News(t) => News(t)'
  BY <1>1, <1>2, <1>5, <1>6, Zenon DEF News, Parents
<1>8. \A i : (Pending(i) => Pending(i)') /\ (Missing(i)' <=> Missing(i))
  BY <1>2, Zenon DEF Pending, Missing
<1>9. \A t : Waits(t) => Waits(t)'
  BY <1>2, <1>8, Zenon DEF Waits
<1>10. \A o \in orphans' : Covered(o)'
  BY <1>2, <1>6, <1>7, <1>9, Zenon DEF OrphanInv, Covered
<1>11. \A i \in DOMAIN stage' : \A t : txs'[i] = t /\ Missing(i)' /\ HasInputs(t)' => News(t)'
  BY <1>2, <1>6, <1>7, <1>8, Zenon DEF OrphanInv
<1> QED BY <1>3, <1>10, <1>11, Zenon DEF OrphanInv

(* A transaction submitted over RPC.                                       *)
LEMMA OrphanSubmitted ==
  ASSUME SchedInv, QueueInv, MinedInv, OrphanInv, NEW s \in Submitted, ProcessValidation(s)
  PROVE  OrphanInv'
<1>1. /\ mempool' \subseteq mempool \cup {s} /\ outside' = outside \cup {s}
      /\ UNCHANGED <<txs, running, stage, verdict, mStdTxns, mNonStdTxns, low, dropped, coins,
                     orphans, orphanFlag, gone, collected>>
  BY Zenon DEF ProcessValidation, schedulerVars, queueVars, threadVars, orphanVars, txVars, worldVars
<1>2. OwnerInv'
  BY <1>1, Zenon DEF OrphanInv, OwnerInv
<1>3. Accepted' = Accepted
  BY <1>1, Zenon DEF Accepted
<1>4. \A t : News(t) => News(t)'
  BY <1>1, <1>3, NewsStays, Zenon
<1>5. ASSUME NEW t, HasInputs(t)', ~News(t)' PROVE HasInputs(t)
  <2> SUFFICES ASSUME NEW o \in Inputs[t] PROVE HaveCoin(o)
    BY Zenon DEF HasInputs
  <2>1. o[1] # s
    BY <1>1, <1>5, Zenon DEF News, Parents
  <2>2. HaveCoin(o)'
    BY <1>5, Zenon DEF HasInputs
  <2>3. CASE o[1] \in mempool /\ o[1] \notin mempool'
    <3>1. o \in coins /\ o[1] \in Txs
      BY <1>1, <2>2, <2>3, Zenon DEF HaveCoin, QueueInv
    <3> QED BY <2>3, <3>1, CoinMined, Zenon
  <2>4. CASE ~(o[1] \in mempool /\ o[1] \notin mempool')
    BY <1>1, <2>1, <2>2, <2>4, Zenon DEF HaveCoin, Outs
  <2> QED BY <2>3, <2>4, Zenon
<1> QED BY <1>1, <1>2, <1>4, <1>5, OrphanWorld, Zenon

(* A block: an input that comes with it is of a transaction that was in    *)
(* the mempool, so was there before, or one from outside.                  *)
LEMMA OrphanBlock ==
  ASSUME SchedInv, QueueInv, MinedInv, OrphanInv, NEW B \in BlockChoices, BlockConnected(B)
  PROVE  OrphanInv'
<1> DEFINE made == UNION {Outs(t) : t \in B}
<1>1. /\ mempool' \subseteq mempool /\ outside' = outside \cup (B \ mempool)
      /\ coins' \subseteq coins \cup made /\ orphans' \subseteq orphans
      /\ UNCHANGED <<txs, running, stage, verdict, mStdTxns, mNonStdTxns, low, dropped,
                     orphanFlag, gone, collected>>
  BY Zenon DEF BlockConnected, schedulerVars, queueVars, threadVars, txVars, worldVars
<1>2. OwnerInv'
  BY <1>1, Zenon DEF OrphanInv, OwnerInv
<1>3. \A o \in made : o[1] \in B /\ o \in Outs(o[1])
  BY DEF Outs
<1> HIDE DEF made
<1>4. Accepted' = Accepted
  BY <1>1, Zenon DEF Accepted
<1>5. \A t : News(t) => News(t)'
  BY <1>1, <1>4, NewsStays, Zenon
<1>6. ASSUME NEW t, HasInputs(t)', ~News(t)' PROVE HasInputs(t)
  <2> SUFFICES ASSUME NEW o \in Inputs[t] PROVE HaveCoin(o)
    BY Zenon DEF HasInputs
  <2>1. o[1] \notin B \ mempool
    BY <1>1, <1>6, Zenon DEF News, Parents
  <2>2. HaveCoin(o)'
    BY <1>6, Zenon DEF HasInputs
  <2>3. CASE o[1] \in mempool'
    BY <1>1, <2>2, <2>3, Zenon DEF HaveCoin, Outs
  <2>4. CASE o[1] \notin mempool' /\ o \in made
    BY <1>3, <2>1, <2>4, Zenon DEF HaveCoin
  <2>5. CASE o[1] \notin mempool' /\ o \in coins
    <3>1. CASE o[1] \in mempool
      BY <2>5, <3>1, CoinMined, Zenon DEF QueueInv
    <3>2. CASE o[1] \notin mempool
      BY <2>5, <3>2, Zenon DEF HaveCoin
    <3> QED BY <3>1, <3>2, Zenon
  <2>6. o[1] \in mempool' \/ o \in coins'
    BY <2>2, Zenon DEF HaveCoin
  <2> QED BY <1>1, <2>3, <2>4, <2>5, <2>6, Zenon
<1> QED BY <1>1, <1>2, <1>5, <1>6, OrphanWorld, Zenon

(* What is taken from the front of a queue and what is left are all of it. *)
LEMMA PrefixRest ==
  ASSUME NEW S, NEW q \in Seq(S), NEW n \in Int, n <= Len(q)
  PROVE  Range(q) \subseteq Range(SubSeq(q, 1, n)) \cup Range(Rest(q, SubSeq(q, 1, n)))
<1> DEFINE r == SubSeq(q, 1, n)
<1>1. Len(q) \in Nat /\ DOMAIN q = 1..Len(q) /\ 1 \in Nat \ {0}
  OBVIOUS
<1>2. Len(r) = IF 1 <= n THEN n ELSE 0
  BY <1>1, SubSeqProperties
<1>3. Range(r) = {q[k] : k \in 1..n}
  BY <1>1, SubSeqKeeps
<1> HIDE DEF r
<1>4. Len(r) + 1 \in Nat \ {0} /\ Len(q) \in Int /\ Len(q) <= Len(q)
  BY <1>1, <1>2
<1>5. Range(Rest(q, r)) = {q[k] : k \in Len(r) + 1..Len(q)}
  BY <1>4, SubSeqKeeps DEF Rest
<1>6. \A k \in 1..Len(q) : k \in 1..n \/ k \in Len(r) + 1..Len(q)
  BY <1>1, <1>2
<1>7. Range(q) \subseteq Range(r) \cup Range(Rest(q, r))
  BY <1>1, <1>3, <1>5, <1>6, Zenon DEF Range
<1> QED BY <1>7 DEF r

LEMMA TakenRest ==
  ASSUME NEW q \in Seq(Txs), NEW max \in Nat, NEW b
  PROVE  Range(q) \subseteq Range(Taken(q, max, b)) \cup Range(Rest(q, Taken(q, max, b)))
<1> DEFINE n == IF max > Len(q) THEN Len(q) ELSE max
<1>1. n \in Int /\ n <= Len(q) /\ 0 \in Int /\ 0 <= Len(q)
  OBVIOUS
<1> HIDE DEF n
<1>2. CASE Len(b) < MaxStd + MaxNonStd
  <2>1. Taken(q, max, b) = SubSeq(q, 1, n)
    BY <1>2, Zenon DEF Taken, n
  <2> QED BY <1>1, <2>1, PrefixRest, Zenon
<1>3. CASE ~(Len(b) < MaxStd + MaxNonStd)
  <2>1. Taken(q, max, b) = SubSeq(q, 1, 0)
    BY <1>3 DEF Taken
  <2> QED BY <1>1, <2>1, PrefixRest, Zenon
<1> QED BY <1>2, <1>3, Zenon

(* A new batch: what leaves a queue is to be validated.                    *)
LEMMA OrphanStart ==
  ASSUME SchedInv, QueueInv, OrphanInv, StartBatch
  PROVE  OrphanInv'
<1> DEFINE std == Taken(mStdTxns, MaxStd, txs)
           nonStd == Taken(mNonStdTxns, MaxNonStd, txs \o std)
           batch == txs \o std \o nonStd
<1>1. /\ running = "idle" /\ running' = "validate"
      /\ mStdTxns' = Rest(mStdTxns, std) /\ mNonStdTxns' = Rest(mNonStdTxns, nonStd)
      /\ NewScheduler(batch) /\ stage' = [i \in DOMAIN batch |-> "ready"]
      /\ verdict' = [i \in DOMAIN batch |-> "none"]
      /\ UNCHANGED <<mempool, coins, orphans, collected, low, orphanFlag, gone, outside, dropped>>
  BY Zenon DEF StartBatch, orphanVars, chainVars, txVars, worldVars, historyVars
<1>2. txs \in Seq(Txs) /\ mStdTxns \in Seq(Txs) /\ mNonStdTxns \in Seq(Txs)
  BY Zenon DEF SchedInv, BatchInv, QueueInv
<1>3. std \in Seq(Txs) /\ Range(mStdTxns) \subseteq Range(std) \cup Range(mStdTxns')
  BY <1>1, <1>2, TakenKeeps, TakenRest, LimitAssumption, Zenon
<1> HIDE DEF std
<1>4. txs \o std \in Seq(Txs) /\ Range(txs \o std) = Range(txs) \cup Range(std)
  BY <1>2, <1>3, ConcatRange
<1>5. nonStd \in Seq(Txs) /\ Range(mNonStdTxns) \subseteq Range(nonStd) \cup Range(mNonStdTxns')
  BY <1>1, <1>2, <1>4, TakenKeeps, TakenRest, LimitAssumption, Zenon
<1> HIDE DEF nonStd
<1>6. Range(batch) = Range(txs) \cup Range(std) \cup Range(nonStd)
  <2> DEFINE a == txs \o std
  <2>1. a \in Seq(Txs)
    BY <1>4, Zenon
  <2> HIDE DEF a
  <2>2. Range(a \o nonStd) = Range(a) \cup Range(nonStd)
    BY <1>5, <2>1, ConcatRange
  <2> QED BY <1>4, <2>2, Zenon DEF a
<1>7. txs' = batch
  BY <1>1, Zenon DEF NewScheduler
<1> HIDE DEF batch
<1>8. \A i \in DOMAIN txs' : Pending(i)'
  BY <1>1, <1>7, Zenon DEF Pending
<1>9. \A t : Waits(t) => Waits(t)'
  BY <1>3, <1>5, <1>6, <1>7, <1>8, Zenon DEF Waits
<1>10. \A i \in DOMAIN stage' : ~Missing(i)'
  BY <1>1, Zenon DEF Missing
<1>11. OwnerInv'
  BY <1>1, Zenon DEF OrphanInv, OwnerInv
<1>12. Accepted \subseteq Accepted'
  <2>1. DOMAIN stage = {}
    BY <1>1 DEF SchedInv, BatchInv
  <2> QED BY <1>1, <2>1, Zenon DEF Accepted
<1>13. \A t : (HasInputs(t)' => HasInputs(t)) /\ (News(t) => News(t)')
  <2>1. \A t : HasInputs(t)' => HasInputs(t)
    BY <1>1, Zenon DEF HasInputs, HaveCoin, Outs
  <2> QED BY <1>1, <1>12, <2>1, NewsStays, Zenon
<1>14. \A o \in orphans' : Covered(o)'
  BY <1>1, <1>9, <1>13, Zenon DEF OrphanInv, Covered
<1> QED BY <1>10, <1>11, <1>14, Zenon DEF OrphanInv

(* The end of a batch: the orphans with a parent among the transactions    *)
(* collected are retried, what was cancelled too, and what ran out of time *)
(* goes to the non-standard queue or is given up.                          *)
LEMMA OrphanEnd ==
  ASSUME SchedInv, QueueInv, MinedInv, OrphanInv, EndBatch
  PROVE  OrphanInv'
<1> DEFINE C == {i \in Positions : verdict[i] = "canceled"}
           canceled == At(txs, C)
           timedOut == {i \in Positions : verdict[i] = "timeout" /\ txs[i] \notin low
                                          /\ \A j \in 1..i - 1 : txs[j] # txs[i]}
           detected == At(txs, timedOut)
           room == MaxQueue - Len(mNonStdTxns)
           n == IF room < Len(detected) THEN room ELSE Len(detected)
           stored == SubSeq(detected, 1, n)
<1>1. /\ running = "sort" /\ running' = "idle" /\ stage' = <<>> /\ verdict' = <<>> /\ collected' = {}
      /\ mNonStdTxns' = mNonStdTxns \o stored
      /\ dropped' = (dropped \cup Range(Rest(detected, stored))) \cap orphans
      /\ orphanFlag' = orphanFlag \cap Tracked'
      /\ UNCHANGED <<mStdTxns, orphans, mempool, coins, gone, outside>>
  BY Zenon DEF EndBatch, chainVars, worldVars
<1>2. PICK retry \in CollectDependentTxnsForRetry(collected) :
        txs' = At(retry, {k \in DOMAIN retry : retry[k] \notin Range(canceled)}) \o canceled
  BY Zenon DEF EndBatch
<1>3. /\ txs \in Seq(Txs) /\ C \in SUBSET (DOMAIN txs) /\ timedOut \in SUBSET (DOMAIN txs)
      /\ DOMAIN stage = DOMAIN txs
  BY <1>1, Zenon DEF SchedInv, BatchInv, Positions
<1>4. \A i \in DOMAIN txs : stage[i] = "over"
  BY <1>1, <1>3, AllOver, Zenon
<1>5. /\ canceled \in Seq(Txs) /\ detected \in Seq(Txs)
      /\ \A i \in C : txs[i] \in Range(canceled)
      /\ \A i \in timedOut : txs[i] \in Range(detected)
  <2> HIDE DEF C, timedOut
  <2> QED BY <1>3, AtKeeps, AtHolds, Zenon
<1> HIDE DEF canceled, detected
<1>6. /\ retry \in Seq(orphans) /\ orphans \subseteq Txs
      /\ \A t \in collected : \A o \in Outs(t) : OrphansByPrev(o) \subseteq Range(retry)
  BY RetryKeeps, Zenon DEF QueueInv
<1> DEFINE I == {k \in DOMAIN retry : retry[k] \notin Range(canceled)}
           again == At(retry, I)
<1>7. retry \in Seq(Txs)
  BY <1>6, SeqMonotonic, Zenon
<1>8. again \in Seq(Txs) /\ \A k \in I : retry[k] \in Range(again)
  <2>1. I \in SUBSET (DOMAIN retry)
    BY Zenon
  <2> HIDE DEF I
  <2> QED BY <1>7, <2>1, AtKeeps, AtHolds, Zenon
<1>9. txs' = again \o canceled
  BY <1>2, Zenon
<1> HIDE DEF again
<1>10. Range(txs') = Range(again) \cup Range(canceled)
  BY <1>5, <1>8, <1>9, ConcatRange
<1>11. Range(retry) \subseteq Range(txs')
  BY <1>8, <1>10, Zenon DEF Range
<1>12. n \in Int /\ n <= Len(detected) /\ 1 \in Nat \ {0}
  BY <1>5, LimitAssumption DEF QueueInv
<1> HIDE DEF n
<1>13. stored \in Seq(Txs) /\ Range(detected) \subseteq Range(stored) \cup Range(Rest(detected, stored))
  BY <1>5, <1>12, SubSeqKeeps, PrefixRest, Zenon
<1> HIDE DEF stored
<1>14. Range(mNonStdTxns') = Range(mNonStdTxns) \cup Range(stored)
  <2>1. mNonStdTxns \in Seq(Txs)
    BY Zenon DEF QueueInv
  <2> QED BY <1>1, <1>13, <2>1, ConcatRange
<1>15. DOMAIN stage' = {} /\ DOMAIN verdict' = {}
  BY <1>1
<1>16. OwnerInv'
  <2>1. orphans' \subseteq orphanFlag'
    BY <1>1, Zenon DEF OrphanInv, OwnerInv, Tracked
  <2> QED BY <1>1, <1>15, <2>1, Zenon DEF OrphanInv, OwnerInv
<1>17. ASSUME NEW o \in orphans, Parents(o) \cap collected # {}, HasInputs(o) PROVE o \in Range(txs')
  <2>1. PICK x \in Inputs[o] : x[1] \in collected
    BY <1>17, Zenon DEF Parents
  <2>2. x[1] \in Txs /\ HaveCoin(x)
    BY <1>17, <2>1, Zenon DEF OrphanInv, OwnerInv, HasInputs
  <2>3. x \in Outs(x[1])
    BY <2>2, CoinMined, Zenon DEF HaveCoin
  <2>4. o \in OrphansByPrev(x)
    BY Zenon DEF OrphansByPrev
  <2> QED BY <1>6, <1>11, <2>1, <2>3, <2>4, Zenon
<1>18. ASSUME NEW o \in orphans, o \in Range(txs), \A i \in DOMAIN txs : txs[i] = o => Pending(i)
       PROVE  o \in Range(txs') \/ o \in Range(mNonStdTxns') \/ o \in dropped'
  <2> DEFINE P == {i \in DOMAIN txs : txs[i] = o}
  <2>1. P \subseteq Nat /\ DOMAIN txs = 1..Len(txs) /\ Len(txs) \in Nat
    BY <1>3
  <2>2. P # {}
    BY <1>18, Zenon DEF Range
  <2>3. PICK i \in P : \A j \in P : i <= j
    <3> HIDE DEF P
    <3> QED BY <2>1, <2>2, LeastNatural, Zenon
  <2>4. \A j \in 1..i - 1 : txs[j] # txs[i]
    <3>1. \A j \in 1..i - 1 : j \in DOMAIN txs /\ ~(i <= j)
      BY <2>1, <2>3
    <3> QED BY <2>3, <3>1, Zenon
  <2>5. /\ i \in DOMAIN txs /\ txs[i] = o
        /\ verdict[i] = "canceled" \/ (verdict[i] = "timeout" /\ txs[i] \notin low)
    BY <1>4, <1>18, <2>3, Zenon DEF Pending
  <2>6. CASE verdict[i] = "canceled"
    <3>1. i \in C
      BY <2>5, <2>6, Zenon DEF Positions
    <3> QED BY <1>5, <1>10, <2>5, <3>1, Zenon
  <2>7. CASE verdict[i] = "timeout" /\ txs[i] \notin low
    <3>1. i \in timedOut
      BY <2>4, <2>5, <2>7, Zenon DEF Positions
    <3>2. o \in Range(detected)
      BY <1>5, <2>5, <3>1, Zenon
    <3> QED BY <1>1, <1>13, <1>14, <3>2, Zenon
  <2> QED BY <2>5, <2>6, <2>7, Zenon
<1>19. Accepted = collected
  BY <1>3, <1>4, Zenon DEF Accepted
<1>20. ASSUME NEW o \in orphans' PROVE Covered(o)'
  <2> SUFFICES ASSUME HasInputs(o)', ~News(o)', o \notin dropped' PROVE Waits(o)'
    BY Zenon DEF Covered
  <2>1. o \in orphans /\ HasInputs(o) /\ o \notin dropped
    BY <1>1, Zenon DEF HasInputs, HaveCoin, Outs
  <2>2. o \in Range(txs') \/ o \in Range(mStdTxns') \/ o \in Range(mNonStdTxns') => Waits(o)'
    BY <1>1, Zenon DEF Waits
  <2>3. CASE News(o)
    <3>1. Parents(o) \cap collected # {}
      BY <1>1, <1>19, <2>3, Zenon DEF News, Parents
    <3> QED BY <1>17, <2>1, <2>2, <3>1, Zenon
  <2>4. CASE Waits(o)
    <3>1. CASE o \in Range(mStdTxns) \/ o \in Range(mNonStdTxns)
      BY <1>1, <1>14, <2>2, <3>1, Zenon
    <3>2. CASE o \in Range(txs) /\ \A i \in DOMAIN txs : txs[i] = o => Pending(i)
      BY <1>18, <2>1, <2>2, <3>2, Zenon
    <3> QED BY <1>1, <2>4, <3>1, <3>2, Zenon DEF Waits
  <2> QED BY <2>1, <2>3, <2>4, Zenon DEF OrphanInv, Covered
<1> QED BY <1>15, <1>16, <1>20, Zenon DEF OrphanInv

LEMMA NextOrphan ==
  ASSUME SchedInv, QueueInv, MinedInv, OrphanInv, [Next]_vars
  PROVE  OrphanInv'
<1>1. ASSUME UNCHANGED <<txs, running, stage, verdict, mempool, coins, outside, dropped, collected,
                         mStdTxns, mNonStdTxns, low, orphans, orphanFlag, gone>>
      PROVE  OrphanInv'
  <2>1. OwnerInv'
    BY <1>1, Zenon DEF OrphanInv, OwnerInv
  <2>2. Range(mStdTxns)' = Range(mStdTxns) /\ Range(mNonStdTxns)' = Range(mNonStdTxns)
    BY <1>1, Zenon DEF Range
  <2> QED BY <1>1, <2>1, <2>2, OrphanOther, Zenon
<1>2. CASE UNCHANGED vars
  BY <1>1, <1>2, Zenon DEF vars, schedulerVars, queueVars, threadVars, chainVars, orphanVars, txVars,
                           worldVars, historyVars
<1>3. ASSUME NEW t \in Txs, ProcessTxMessage(t) PROVE OrphanInv'
  <2>1. /\ UNCHANGED <<txs, running, stage, verdict, mempool, coins, outside, dropped, collected,
                       mNonStdTxns, orphans, gone>>
        /\ low' \subseteq low
        /\ \/ mStdTxns' = mStdTxns /\ orphanFlag' = orphanFlag
           \/ /\ mStdTxns' = Append(mStdTxns, t) /\ orphanFlag' = orphanFlag \ {t}
              /\ t \notin orphans
    BY <1>3, Zenon DEF ProcessTxMessage, schedulerVars, threadVars, chainVars, orphanVars, txVars,
                       worldVars, historyVars, Tracked
  <2>2. OwnerInv'
    BY <2>1, Zenon DEF OrphanInv, OwnerInv
  <2>3. Range(mNonStdTxns)' = Range(mNonStdTxns)
    BY <2>1, Zenon DEF Range
  <2>4. Range(mStdTxns) \subseteq Range(mStdTxns)'
    <3>1. CASE mStdTxns' = mStdTxns
      BY <3>1, Zenon DEF Range
    <3>2. CASE mStdTxns' = Append(mStdTxns, t)
      <4>1. mStdTxns \in Seq(Txs)
        BY Zenon DEF QueueInv
      <4>2. Range(mStdTxns)' = Range(Append(mStdTxns, t))
        BY <3>2, Zenon DEF Range
      <4> QED BY <4>1, <4>2, AppendKeeps, Zenon
    <3> QED BY <2>1, <3>1, <3>2, Zenon
  <2> QED BY <2>1, <2>2, <2>3, <2>4, OrphanOther, Zenon
<1>4. ASSUME NEW t \in tasks, EndTask(t) PROVE OrphanInv'
  BY <1>1, <1>4, Zenon DEF EndTask, MarkResult, queueVars, threadVars, chainVars, orphanVars, txVars,
                           worldVars, historyVars
<1>5. ASSUME NEW p, FinalizeNode(p) PROVE OrphanInv'
  <2>1. /\ UNCHANGED <<txs, running, stage, verdict, mempool, coins, outside, dropped, collected,
                       mStdTxns, mNonStdTxns, low, orphanFlag>>
        /\ orphans' = orphans \ FromPeer(p) /\ gone' = gone \cup {p}
    BY <1>5, Zenon DEF FinalizeNode, schedulerVars, queueVars, threadVars, chainVars, txVars,
                       historyVars
  <2>2. OwnerInv'
    BY <2>1, Zenon DEF OrphanInv, OwnerInv, FromPeer
  <2>3. Range(mStdTxns)' = Range(mStdTxns) /\ Range(mNonStdTxns)' = Range(mNonStdTxns)
    BY <2>1, Zenon DEF Range
  <2>4. orphans' \subseteq orphans
    BY <2>1, Zenon
  <2> QED BY <2>1, <2>2, <2>3, <2>4, OrphanOther, Zenon
<1>6. CASE SchedulerStep
  <2>1. txs' = txs
    BY <1>6, Zenon DEF SchedulerStep, Schedule, TakeCompletions, ScanTransactions, EndScan, EndSchedule,
                BuildSpendersMap
  <2> QED BY <1>1, <1>6, <2>1, Zenon DEF SchedulerStep, queueVars, threadVars, chainVars, orphanVars,
                           txVars, worldVars, historyVars
<1> QED BY <1>2, <1>3, <1>4, <1>5, <1>6, OrphanSubmitted, OrphanBlock, OrphanStart, OrphanTrim,
           OrphanEnd, OrphanThread DEF Next

LEMMA InitOrphan == Init => OrphanInv
<1> SUFFICES ASSUME Init PROVE OrphanInv
  OBVIOUS
<1>1. orphans = {} /\ collected = {} /\ stage = <<>> /\ verdict = <<>>
  BY Zenon DEF Init
<1>2. DOMAIN stage = {} /\ DOMAIN verdict = {}
  BY <1>1
<1> QED BY <1>1, <1>2, Zenon DEF OrphanInv, OwnerInv

(* For every set of transactions, all queue and pool limits, any           *)
(* interleaving of the threads with messages, blocks, disconnections and   *)
(* RPC, and whatever times out, is cancelled or throws: between batches an *)
(* orphan that has its inputs waits in a queue, unless a parent came in a  *)
(* block or over RPC or the orphan was given up with a log message.        *)
THEOREM ValidatorOrphanRetried == Spec => []OrphanRetried
<1>1. SchedInv /\ QueueInv /\ MinedInv /\ [Next]_vars => MinedInv'
  BY NextMined, Zenon
<1>2. SchedInv /\ QueueInv /\ MinedInv /\ OrphanInv /\ [Next]_vars => OrphanInv'
  BY NextOrphan, Zenon
<1>3. SchedInv /\ OrphanInv => OrphanRetried
  <2> SUFFICES ASSUME SchedInv, OrphanInv, running = "idle", NEW o \in orphans,
                      \A x \in Inputs[o] : HaveCoin(x),
                      Parents(o) \cap outside = {}, o \notin dropped
               PROVE  o \in Queued
    BY Zenon DEF OrphanRetried
  <2>1. Accepted = {}
    <3>1. DOMAIN stage = {}
      BY DEF SchedInv, BatchInv
    <3> QED BY <3>1, Zenon DEF OrphanInv, OwnerInv, Accepted
  <2>2. ~News(o)
    BY <2>1, Zenon DEF News
  <2>3. Waits(o)
    BY <2>2, Zenon DEF OrphanInv, Covered, HasInputs
  <2> QED BY <2>3, Zenon DEF Waits, Queued
<1> QED BY <1>1, <1>2, <1>3, InitMined, InitOrphan, ValidatorSched, PTL DEF Spec

=============================================================================
