------------------------- MODULE TxnConflictProofs --------------------------
(***************************************************************************)
(* The double spend detector and the mempool of the transaction validator, *)
(* for every set of transactions, every order of arrival and every         *)
(* interleaving of the threads: as long as no batch holds a transaction    *)
(* twice, the detector holds the inputs of the transactions on their way   *)
(* into the mempool, and the mempool never holds a conflict.  Without time *)
(* limits no batch does.                                                   *)
(***************************************************************************)
EXTENDS TxnValidatorProofs

-----------------------------------------------------------------------------
(* The vector of the double spend detector.                                *)

(* From place f on, s holds the inputs of t in their order.                *)
HoldsVin(s, t, f) ==
  f + Len(Vin(t)) <= Len(s) /\ \A m \in 1..Len(Vin(t)) : s[f + m] = Vin(t)[m]

(* s holds the inputs of the transactions in T, each transaction's side by *)
(* side, and no outpoint twice.                                            *)
VectorRight(s, T) ==
  /\ T \subseteq Txs /\ s \in Seq(Spent(Txs)) /\ IsInjective(s)
  /\ Range(s) = Spent(T)
  /\ \A t, u \in T : t # u => Inputs[t] \cap Inputs[u] = {}
  /\ \A t \in T : \E f \in Nat : HoldsVin(s, t, f)

(* Appending what is not there keeps a sequence without repetitions.       *)
LEMMA AppendNew ==
  ASSUME NEW S, NEW q \in Seq(S), NEW t \in S, IsInjective(q), t \notin Range(q)
  PROVE  IsInjective(Append(q, t)) /\ Range(Append(q, t)) = Range(q) \cup {t}
<1> DEFINE one == <<t>>
<1>1. one \in Seq(S) /\ IsInjective(one) /\ Range(one) = {t}
  BY DEF IsInjective, Range
<1>2. Append(q, t) = q \o one
  OBVIOUS
<1> HIDE DEF one
<1>3. Range(q) \cap Range(one) = {}
  BY <1>1, Zenon
<1> QED BY <1>1, <1>2, <1>3, ConcatRange

(* The inputs of a transaction as a sequence.                              *)
LEMMA VinRight ==
  ASSUME NEW t \in Txs
  PROVE  /\ Vin(t) \in Seq(Inputs[t]) /\ Vin(t) \in Seq(Spent(Txs))
         /\ IsInjective(Vin(t)) /\ Range(Vin(t)) = Inputs[t]
         /\ Len(Vin(t)) \in Nat \ {0}
<1>1. IsFiniteSet(Inputs[t]) /\ Inputs[t] # {}
  BY TransactionAssumption, Zenon
<1> DEFINE v == Vin(t)
<1>2. v \in Seq(Inputs[t]) /\ IsInjective(v) /\ Range(v) = Inputs[t]
  BY <1>1, SetToSeqLists, Zenon DEF Vin
<1> HIDE DEF v
<1>3. Inputs[t] \subseteq Spent(Txs)
  BY Zenon DEF Spent
<1>4. v \in Seq(Spent(Txs))
  BY <1>2, <1>3, SeqMonotonic, Zenon
<1>5. Len(v) \in Nat \ {0}
  BY <1>1, <1>2 DEF Range
<1> QED BY <1>2, <1>4, <1>5, Zenon DEF v

(* insertTxnInputs appends the inputs of one more transaction.             *)
LEMMA InsertRight ==
  ASSUME NEW s, NEW T, VectorRight(s, T), NEW t \in Txs, Inputs[t] \cap Range(s) = {}
  PROVE  VectorRight(s \o Vin(t), T \cup {t})
<1> DEFINE v == Vin(t)
<1>1. /\ v \in Seq(Spent(Txs)) /\ IsInjective(v) /\ Range(v) = Inputs[t] /\ Len(v) \in Nat \ {0}
  BY VinRight, Zenon
<1>2. /\ T \subseteq Txs /\ s \in Seq(Spent(Txs)) /\ IsInjective(s) /\ Range(s) = Spent(T)
      /\ \A u, w \in T : u # w => Inputs[u] \cap Inputs[w] = {}
      /\ \A u \in T : \E f \in Nat : HoldsVin(s, u, f)
  BY Zenon DEF VectorRight
<1> DEFINE c == s \o v
<1> HIDE DEF v
<1>3. c \in Seq(Spent(Txs)) /\ IsInjective(c) /\ Range(c) = Range(s) \cup Inputs[t]
  BY <1>1, <1>2, ConcatRange
<1>4. Spent(T \cup {t}) = Spent(T) \cup Inputs[t]
  BY Zenon DEF Spent
<1>5. \A u \in T : Inputs[u] \subseteq Range(s)
  BY <1>2, Zenon DEF Spent
<1>6. /\ Len(s) \in Nat /\ Len(c) = Len(s) + Len(v)
      /\ \A k \in 1..Len(s) : c[k] = s[k]
      /\ \A k \in 1..Len(v) : c[Len(s) + k] = v[k]
  BY <1>1, <1>2
<1> HIDE DEF c
<1>7. ASSUME NEW u \in T \cup {t} PROVE \E f \in Nat : HoldsVin(c, u, f)
  <2>1. CASE u \in T
    <3>1. PICK f \in Nat : HoldsVin(s, u, f)
      BY <1>2, <2>1, Zenon
    <3>2. Len(Vin(u)) \in Nat
      BY <1>2, <2>1, VinRight, Zenon
    <3>3. ASSUME NEW m \in 1..Len(Vin(u)) PROVE c[f + m] = Vin(u)[m]
      <4>1. f + m \in 1..Len(s) /\ s[f + m] = Vin(u)[m]
        BY <1>6, <3>1, <3>2 DEF HoldsVin
      <4> QED BY <1>6, <4>1, Zenon
    <3>4. f + Len(Vin(u)) <= Len(c)
      BY <1>1, <1>6, <3>1, <3>2 DEF HoldsVin
    <3> QED BY <3>3, <3>4, Zenon DEF HoldsVin
  <2>2. CASE u = t
    <3>1. HoldsVin(c, t, Len(s))
      BY <1>1, <1>6 DEF HoldsVin, v
    <3> QED BY <1>6, <2>2, <3>1, Zenon
  <2> QED BY <2>1, <2>2, Zenon
<1>8. \A u, w \in T \cup {t} : u # w => Inputs[u] \cap Inputs[w] = {}
  BY <1>2, <1>5, Zenon
<1>9. Range(c) = Spent(T \cup {t}) /\ T \cup {t} \subseteq Txs
  BY <1>2, <1>3, <1>4, Zenon
<1>10. VectorRight(c, T \cup {t})
  BY <1>3, <1>7, <1>8, <1>9, Zenon DEF VectorRight
<1> QED BY <1>10, Zenon DEF c, v

(* The vector without n entries from the place after f.                    *)
Without(s, f, n) == SubSeq(s, 1, f) \o SubSeq(s, f + n + 1, Len(s))

LEMMA WithoutEntries ==
  ASSUME NEW S, NEW s \in Seq(S), NEW f \in Nat, NEW n \in Nat, f + n <= Len(s)
  PROVE  /\ Without(s, f, n) \in Seq(S) /\ Len(Without(s, f, n)) = Len(s) - n
         /\ \A k \in 1..f : Without(s, f, n)[k] = s[k]
         /\ \A k \in f + 1..Len(s) - n : Without(s, f, n)[k] = s[k + n]
<1> DEFINE a == SubSeq(s, 1, f)  b == SubSeq(s, f + n + 1, Len(s))
<1>1. Len(s) \in Nat
  OBVIOUS
<1>2. /\ a \in Seq(S) /\ b \in Seq(S)
  <2>1. f \in Int /\ f <= Len(s) /\ 1 \in Nat \ {0} /\ f + n + 1 \in Nat \ {0}
        /\ Len(s) \in Int /\ Len(s) <= Len(s)
    BY <1>1
  <2> HIDE DEF a, b
  <2>2. a \in Seq(S)
    BY <2>1, SubSeqKeeps, Zenon DEF a
  <2>3. b \in Seq(S)
    BY <2>1, SubSeqKeeps, Zenon DEF b
  <2> QED BY <2>2, <2>3
<1>3. Len(a) = f /\ \A k \in 1..f : a[k] = s[k]
  BY <1>1
<1>4. /\ Len(b) = Len(s) - (f + n)
      /\ \A k \in 1..Len(s) - (f + n) : b[k] = s[f + n + k]
  <2>1. f + n + 1 \in Int /\ Len(s) \in Int
    BY <1>1
  <2>2. Len(b) = IF f + n + 1 <= Len(s) THEN Len(s) - (f + n + 1) + 1 ELSE 0
    BY <2>1
  <2>3. \A k \in 1..Len(s) - (f + n) : b[k] = s[f + n + 1 + k - 1]
    BY <1>1
  <2> HIDE DEF b
  <2> QED BY <1>1, <2>2, <2>3
<1> DEFINE w == a \o b
<1> HIDE DEF a, b
<1>5. w \in Seq(S) /\ Len(w) = Len(s) - n
  <2>1. w \in Seq(S) /\ Len(w) = Len(a) + Len(b)
    BY <1>2
  <2> HIDE DEF w
  <2> QED BY <1>1, <1>3, <1>4, <2>1
<1>6. \A k \in 1..f : w[k] = s[k]
  BY <1>1, <1>2, <1>3, <1>4
<1>7. ASSUME NEW k \in f + 1..Len(s) - n PROVE w[k] = s[k + n]
  <2>1. k - f \in 1..Len(s) - (f + n) /\ k \in 1..Len(a) + Len(b) /\ ~(k <= Len(a))
    BY <1>1, <1>3, <1>4
  <2>2. w[k] = b[k - f]
    BY <1>2, <1>3, <2>1
  <2>3. b[k - f] = s[f + n + (k - f)] /\ f + n + (k - f) = k + n
    BY <1>1, <1>4, <2>1
  <2> QED BY <2>2, <2>3, Zenon
<1> QED BY <1>5, <1>6, <1>7, Zenon DEF Without, w, a, b

(* Without the inputs of t the vector is right for the others: the inputs  *)
(* of each lie before or behind those of t.                                *)
LEMMA RemoveRight ==
  ASSUME NEW s, NEW T, VectorRight(s, T), NEW t \in T, NEW f \in Nat, HoldsVin(s, t, f)
  PROVE  VectorRight(Without(s, f, Len(Vin(t))), T \ {t})
<1> DEFINE n == Len(Vin(t))  w == Without(s, f, n)
<1>1. /\ T \subseteq Txs /\ s \in Seq(Spent(Txs)) /\ IsInjective(s) /\ Range(s) = Spent(T)
      /\ \A u, v \in T : u # v => Inputs[u] \cap Inputs[v] = {}
      /\ \A u \in T : \E g \in Nat : HoldsVin(s, u, g)
  BY Zenon DEF VectorRight
<1>2. n \in Nat \ {0} /\ Range(Vin(t)) = Inputs[t] /\ Vin(t) \in Seq(Inputs[t])
  BY <1>1, VinRight, Zenon
<1>3. f + n <= Len(s) /\ \A m \in 1..n : s[f + m] = Vin(t)[m]
  BY Zenon DEF HoldsVin
<1>4. Len(s) \in Nat /\ DOMAIN s = 1..Len(s)
  BY <1>1
<1> HIDE DEF n
<1>5. /\ w \in Seq(Spent(Txs)) /\ Len(w) = Len(s) - n
      /\ \A k \in 1..f : w[k] = s[k]
      /\ \A k \in f + 1..Len(s) - n : w[k] = s[k + n]
  <2>1. s \in Seq(Spent(Txs)) /\ n \in Nat /\ f + n <= Len(s)
    BY <1>1, <1>2, <1>3, Zenon
  <2> QED BY <2>1, WithoutEntries, Zenon
<1> HIDE DEF w
<1>6. DOMAIN w = 1..Len(s) - n
  BY <1>5
<1>7. \A k \in 1..Len(s) : s[k] \in Inputs[t] <=> k \in f + 1..f + n
  <2> TAKE k \in 1..Len(s)
  <2>1. ASSUME k \in f + 1..f + n PROVE s[k] \in Inputs[t]
    <3>1. k - f \in 1..n /\ f + (k - f) = k
      BY <1>2, <1>4, <2>1
    <3>2. s[k] = Vin(t)[k - f]
      BY <1>3, <3>1, Zenon
    <3>3. Vin(t)[k - f] \in Inputs[t]
      BY <1>2, <3>1 DEF n
    <3> QED BY <3>2, <3>3, Zenon
  <2>2. ASSUME s[k] \in Inputs[t] PROVE k \in f + 1..f + n
    <3>1. PICK m \in DOMAIN Vin(t) : Vin(t)[m] = s[k]
      BY <1>2, <2>2, Zenon DEF Range
    <3>2. m \in 1..n
      BY <1>2, <3>1 DEF n
    <3>3. f + m \in DOMAIN s /\ s[f + m] = s[k]
      BY <1>2, <1>3, <1>4, <3>1, <3>2
    <3>4. f + m = k
      BY <1>1, <1>4, <3>3, Zenon DEF IsInjective
    <3> QED BY <1>2, <3>2, <3>4
  <2> QED BY <2>1, <2>2, Zenon
<1>8. IsInjective(w)
  <2> SUFFICES ASSUME NEW a \in 1..Len(s) - n, NEW b \in 1..Len(s) - n, w[a] = w[b]
               PROVE  a = b
    BY <1>6, Zenon DEF IsInjective
  <2> DEFINE At0(k) == IF k <= f THEN k ELSE k + n
  <2>1. ASSUME NEW k \in 1..Len(s) - n PROVE w[k] = s[At0(k)] /\ At0(k) \in DOMAIN s
    <3>1. CASE k <= f
      <4>1. k \in 1..f /\ k \in 1..Len(s)
        BY <1>2, <1>4, <3>1
      <4> QED BY <1>4, <1>5, <3>1, <4>1, Zenon
    <3>2. CASE ~(k <= f)
      <4>1. k \in f + 1..Len(s) - n /\ k + n \in 1..Len(s)
        BY <1>2, <1>4, <3>2
      <4> QED BY <1>4, <1>5, <3>2, <4>1
    <3> QED BY <3>1, <3>2, Zenon
  <2>2. s[At0(a)] = s[At0(b)] /\ At0(a) \in DOMAIN s /\ At0(b) \in DOMAIN s
    BY <2>1, Zenon
  <2>3. At0(a) = At0(b)
    <3> HIDE DEF At0
    <3> QED BY <1>1, <2>2, Zenon DEF IsInjective
  <2> QED BY <1>2, <1>4, <2>3
<1>9. Range(w) = Spent(T \ {t})
  <2>1. ASSUME NEW o \in Range(w) PROVE o \in Spent(T \ {t})
    <3>1. PICK k \in 1..Len(s) - n : o = w[k]
      BY <1>6, Zenon DEF Range
    <3>2. \E l \in 1..Len(s) : o = s[l] /\ l \notin f + 1..f + n
      <4>1. CASE k <= f
        BY <1>2, <1>3, <1>4, <1>5, <3>1, <4>1
      <4>2. CASE ~(k <= f)
        <5>1. k + n \in 1..Len(s) /\ k + n \notin f + 1..f + n /\ o = s[k + n]
          BY <1>2, <1>3, <1>4, <1>5, <3>1, <4>2
        <5> QED BY <5>1, Zenon
      <4> QED BY <4>1, <4>2, Zenon
    <3>3. o \in Range(s) /\ o \notin Inputs[t]
      BY <1>4, <1>7, <3>2, Zenon DEF Range
    <3> QED BY <1>1, <3>3, Zenon DEF Spent
  <2>2. ASSUME NEW o \in Spent(T \ {t}) PROVE o \in Range(w)
    <3>1. o \in Range(s) /\ o \notin Inputs[t]
      BY <1>1, Zenon DEF Spent
    <3>2. PICK l \in 1..Len(s) : s[l] = o
      BY <1>4, <3>1, Zenon DEF Range
    <3>3. l \notin f + 1..f + n
      BY <1>7, <3>1, <3>2, Zenon
    <3>4. \E k \in 1..Len(s) - n : w[k] = o
      <4>1. CASE l <= f
        BY <1>2, <1>3, <1>4, <1>5, <3>2, <4>1
      <4>2. CASE ~(l <= f)
        <5>1. l - n \in f + 1..Len(s) - n /\ l - n + n = l
          BY <1>2, <1>4, <3>3, <4>2
        <5>2. w[l - n] = o /\ l - n \in 1..Len(s) - n
          BY <1>2, <1>4, <1>5, <3>2, <5>1
        <5> QED BY <5>2, Zenon
      <4> QED BY <4>1, <4>2, Zenon
    <3> QED BY <1>6, <3>4, Zenon DEF Range
  <2> QED BY <2>1, <2>2, Zenon
<1>10. ASSUME NEW u \in T \ {t} PROVE \E g \in Nat : HoldsVin(w, u, g)
  <2> DEFINE r == Len(Vin(u))
  <2>1. PICK g \in Nat : HoldsVin(s, u, g)
    BY <1>1, Zenon
  <2>2. r \in Nat \ {0} /\ Range(Vin(u)) = Inputs[u] /\ Vin(u) \in Seq(Inputs[u])
    BY <1>1, VinRight, Zenon
  <2>3. g + r <= Len(s) /\ \A m \in 1..r : s[g + m] = Vin(u)[m]
    BY <2>1, Zenon DEF HoldsVin
  <2>4. \A m \in 1..r : Vin(u)[m] \in Inputs[u]
    BY <2>2
  <2> HIDE DEF r
  <2>5. \A m \in 1..r : g + m \in 1..Len(s) /\ g + m \notin f + 1..f + n
    <3> TAKE m \in 1..r
    <3>1. g + m \in 1..Len(s)
      BY <1>4, <2>2, <2>3
    <3>2. s[g + m] \in Inputs[u] /\ s[g + m] \notin Inputs[t]
      BY <1>1, <2>3, <2>4, Zenon
    <3> QED BY <1>7, <3>1, <3>2, Zenon
  <2>6. g + r <= f \/ g >= f + n
    <3> SUFFICES ASSUME g + r > f, g < f + n PROVE FALSE
      BY <1>2, <2>2
    <3>1. CASE g >= f
      <4>1. 1 \in 1..r /\ g + 1 \in f + 1..f + n
        BY <1>2, <2>2, <3>1
      <4> QED BY <2>5, <4>1, Zenon
    <3>2. CASE g < f
      <4>1. f + 1 - g \in 1..r /\ g + (f + 1 - g) = f + 1 /\ f + 1 \in f + 1..f + n
        BY <1>2, <2>2, <3>2
      <4> QED BY <2>5, <4>1, Zenon
    <3> QED BY <3>1, <3>2
  <2>7. CASE g + r <= f
    <3>1. ASSUME NEW m \in 1..r PROVE w[g + m] = Vin(u)[m]
      <4>1. g + m \in 1..f
        BY <2>2, <2>7
      <4> QED BY <1>5, <2>3, <4>1
    <3>2. g + r <= Len(w)
      BY <1>2, <1>3, <1>4, <1>5, <2>2, <2>7
    <3> QED BY <3>1, <3>2, Zenon DEF HoldsVin, r
  <2>8. CASE g >= f + n
    <3>1. ASSUME NEW m \in 1..r PROVE w[(g - n) + m] = Vin(u)[m]
      <4>1. (g - n) + m \in f + 1..Len(s) - n /\ (g - n) + m + n = g + m
        BY <1>2, <1>4, <2>2, <2>3, <2>8
      <4> QED BY <1>5, <2>3, <4>1, Zenon
    <3>2. (g - n) + r <= Len(w) /\ g - n \in Nat
      BY <1>2, <1>4, <1>5, <2>2, <2>3, <2>8
    <3> QED BY <3>1, <3>2, Zenon DEF HoldsVin, r
  <2> QED BY <2>6, <2>7, <2>8, Zenon
<1>11. VectorRight(w, T \ {t})
  BY <1>1, <1>5, <1>8, <1>9, <1>10, Zenon DEF VectorRight
<1> QED BY <1>11, Zenon DEF w, n

(* removeTxnInputs finds the inputs of a transaction where they are.       *)
LEMMA RemoveTxnInputs ==
  ASSUME VectorRight(mKnownSpends, mKnownSpendsTx), NEW t \in mKnownSpendsTx, removeTxnInputs(t)
  PROVE  /\ mKnownSpendsTx' = mKnownSpendsTx \ {t}
         /\ VectorRight(mKnownSpends', mKnownSpendsTx')
<1> DEFINE first == CHOOSE k \in DOMAIN mKnownSpends :
                      /\ mKnownSpends[k] = Vin(t)[1]
                      /\ \A j \in 1..k - 1 : mKnownSpends[j] # Vin(t)[1]
           n == Len(Vin(t))
<1>1. /\ mKnownSpends' = SubSeq(mKnownSpends, 1, first - 1)
                         \o SubSeq(mKnownSpends, first + n, Len(mKnownSpends))
      /\ mKnownSpendsTx' = mKnownSpendsTx \ {t}
  BY Zenon DEF removeTxnInputs
<1>2. /\ mKnownSpendsTx \subseteq Txs /\ mKnownSpends \in Seq(Spent(Txs))
      /\ \A a, b \in DOMAIN mKnownSpends : mKnownSpends[a] = mKnownSpends[b] => a = b
  BY DEF VectorRight, IsInjective
<1>3. PICK f \in Nat : HoldsVin(mKnownSpends, t, f)
  BY DEF VectorRight
<1>4. n \in Nat \ {0}
  BY <1>2, VinRight
<1>5. f + 1 \in DOMAIN mKnownSpends /\ mKnownSpends[f + 1] = Vin(t)[1]
  <2>1. f + n <= Len(mKnownSpends) /\ mKnownSpends[f + 1] = Vin(t)[1]
    BY <1>3, <1>4 DEF HoldsVin
  <2> HIDE DEF n
  <2> QED BY <1>2, <1>4, <2>1
<1>6. \A j \in 1..(f + 1) - 1 : mKnownSpends[j] # Vin(t)[1]
  <2> TAKE j \in 1..(f + 1) - 1
  <2>1. j \in DOMAIN mKnownSpends /\ j # f + 1
    BY <1>2, <1>5
  <2> QED BY <1>2, <1>5, <2>1, Zenon
<1>7. first \in DOMAIN mKnownSpends /\ mKnownSpends[first] = Vin(t)[1]
  BY <1>5, <1>6, Zenon
<1> HIDE DEF first, n
<1>8. first = f + 1
  BY <1>2, <1>5, <1>7, Zenon
<1>9. first - 1 = f /\ first + n = f + n + 1
  BY <1>4, <1>8
<1>10. mKnownSpends' = Without(mKnownSpends, f, n)
  BY <1>1, <1>9, Zenon DEF Without
<1>11. VectorRight(Without(mKnownSpends, f, n), mKnownSpendsTx \ {t})
  BY <1>3, RemoveRight DEF n
<1> QED BY <1>1, <1>10, <1>11, Zenon

-----------------------------------------------------------------------------
(* The detector through every step.                                        *)

(* A batch holds a transaction at one position only.                       *)
NoTwice == \A i, j \in DOMAIN txs : txs[i] = txs[j] => i = j

DetectorInv == VectorRight(mKnownSpends, mKnownSpendsTx) /\ DetectorExact

Past == {"commit", "finish"}

(* A thread that passes neither in nor out of what the detector watches.   *)
LEMMA DetectorGo ==
  ASSUME SchedInv, DetectorInv, NEW i, NEW from, NEW to, Go(i, from, to), txs' = txs,
         from \in Past <=> to \in Past, UNCHANGED detectorVars
  PROVE  DetectorInv'
<1>1. /\ DOMAIN stage' = DOMAIN stage /\ stage[i] = from
      /\ \A j \in DOMAIN stage : stage'[j] = IF j = i THEN to ELSE stage[j]
  BY GoStage, Zenon
<1>2. \A j \in DOMAIN stage : stage'[j] \in Past <=> stage[j] \in Past
  BY <1>1, Zenon
<1>3. mKnownSpends' = mKnownSpends /\ mKnownSpendsTx' = mKnownSpendsTx
  BY Zenon DEF detectorVars
<1>4. VectorRight(mKnownSpends, mKnownSpendsTx)'
  BY <1>3 DEF DetectorInv, VectorRight, HoldsVin, Vin, Spent
<1>5. DetectorExact'
  BY <1>1, <1>2, <1>3, Zenon DEF DetectorInv, DetectorExact, Spent, Past
<1> QED BY <1>4, <1>5, Zenon DEF DetectorInv

(* insertTxnInputs lets a transaction pass.                                *)
LEMMA DetectorInsert ==
  ASSUME SchedInv, DetectorInv, NEW i, Go(i, "detect", "commit"), txs' = txs,
         Inputs[txs[i]] \cap Range(mKnownSpends) = {},
         mKnownSpends' = mKnownSpends \o Vin(txs[i]),
         mKnownSpendsTx' = mKnownSpendsTx \cup {txs[i]}
  PROVE  DetectorInv'
<1>1. /\ DOMAIN stage' = DOMAIN stage /\ i \in DOMAIN stage /\ stage[i] = "detect" /\ txs[i] \in Txs
      /\ \A j \in DOMAIN stage : stage'[j] = IF j = i THEN "commit" ELSE stage[j]
  BY GoStage, Zenon
<1>2. VectorRight(mKnownSpends \o Vin(txs[i]), mKnownSpendsTx \cup {txs[i]})
  BY <1>1, InsertRight, Zenon DEF DetectorInv
<1>3. VectorRight(mKnownSpends, mKnownSpendsTx)'
  BY <1>2, Zenon DEF VectorRight, HoldsVin, Vin, Spent
<1>4. \A j \in DOMAIN stage' : stage'[j] \in Past => txs'[j] \in mKnownSpendsTx'
  BY <1>1, Zenon DEF DetectorInv, DetectorExact, Past
<1>5. ASSUME NEW t \in mKnownSpendsTx'
      PROVE  \E j \in DOMAIN stage' : txs'[j] = t /\ stage'[j] \in Past
  <2>1. CASE t = txs[i]
    BY <1>1, <2>1, Zenon DEF Past
  <2>2. CASE t \in mKnownSpendsTx
    <3>1. PICK j \in DOMAIN stage : txs[j] = t /\ stage[j] \in Past
      BY <2>2, Zenon DEF DetectorInv, DetectorExact, Past
    <3> QED BY <1>1, <3>1, Zenon DEF Past
  <2> QED BY <2>1, <2>2
<1>6. (Range(mKnownSpends) = Spent(mKnownSpendsTx))'
  BY <1>3, Zenon DEF VectorRight
<1> QED BY <1>3, <1>4, <1>5, <1>6 DEF DetectorInv, DetectorExact, Past

(* removeTxnInputs as a thread ends with a transaction.                    *)
LEMMA DetectorRemove ==
  ASSUME SchedInv, DetectorInv, NoTwice, NEW i, NEW from, Go(i, from, "over"), txs' = txs,
         removeTxnInputs(txs[i])
  PROVE  DetectorInv'
<1>1. /\ DOMAIN stage = DOMAIN txs /\ DOMAIN stage' = DOMAIN stage /\ i \in DOMAIN stage
      /\ stage[i] = from
      /\ \A j \in DOMAIN stage : stage'[j] = IF j = i THEN "over" ELSE stage[j]
  BY GoStage, Zenon
<1>2. txs[i] \in mKnownSpendsTx <=> from \in Past
  <2>1. ASSUME txs[i] \in mKnownSpendsTx PROVE from \in Past
    <3>1. PICK j \in DOMAIN stage : txs[j] = txs[i] /\ stage[j] \in Past
      BY <2>1, Zenon DEF DetectorInv, DetectorExact, Past
    <3>2. j = i
      BY <1>1, <3>1, Zenon DEF NoTwice
    <3> QED BY <1>1, <3>1, <3>2, Zenon
  <2> QED BY <1>1, <2>1, Zenon DEF DetectorInv, DetectorExact, Past
<1>3. CASE from \notin Past
  <2>1. UNCHANGED detectorVars
    BY <1>2, <1>3, Zenon DEF removeTxnInputs
  <2> QED BY <1>3, <2>1, DetectorGo, Zenon DEF Past
<1>4. CASE from \in Past
  <2>1. /\ mKnownSpendsTx' = mKnownSpendsTx \ {txs[i]}
        /\ VectorRight(mKnownSpends', mKnownSpendsTx')
    BY <1>2, <1>4, RemoveTxnInputs, Zenon DEF DetectorInv
  <2>2. VectorRight(mKnownSpends, mKnownSpendsTx)'
    BY <2>1, Zenon DEF VectorRight, HoldsVin, Vin, Spent
  <2>3. ASSUME NEW j \in DOMAIN stage', stage'[j] \in Past PROVE txs'[j] \in mKnownSpendsTx'
    <3>1. j # i /\ stage[j] \in Past
      BY <1>1, <2>3, Zenon DEF Past
    <3>2. txs[j] # txs[i] /\ txs[j] \in mKnownSpendsTx
      BY <1>1, <3>1, Zenon DEF NoTwice, DetectorInv, DetectorExact, Past
    <3> QED BY <2>1, <3>2, Zenon
  <2>4. ASSUME NEW t \in mKnownSpendsTx'
        PROVE  \E j \in DOMAIN stage' : txs'[j] = t /\ stage'[j] \in Past
    <3>1. PICK j \in DOMAIN stage : txs[j] = t /\ stage[j] \in Past
      BY <2>1, Zenon DEF DetectorInv, DetectorExact, Past
    <3>2. j # i
      BY <2>1, <3>1, Zenon
    <3> QED BY <1>1, <3>1, <3>2, Zenon
  <2>5. (Range(mKnownSpends) = Spent(mKnownSpendsTx))'
    BY <2>2, Zenon DEF VectorRight
  <2> QED BY <2>2, <2>3, <2>4, <2>5 DEF DetectorInv, DetectorExact, Past
<1> QED BY <1>3, <1>4, Zenon

(* Outside a batch, and in one whose threads are through, the detector     *)
(* holds nothing.                                                          *)
LEMMA DetectorEmpty ==
  ASSUME SchedInv, DetectorInv, running = "idle" \/ (scheduling = "off" /\ tasks = {})
  PROVE  /\ mKnownSpendsTx = {}
         /\ running # "idle" => \A i \in DOMAIN stage : stage[i] = "over"
<1>1. running # "idle" => \A i \in DOMAIN stage : stage[i] = "over"
  <2> SUFFICES ASSUME running # "idle", NEW i \in DOMAIN stage PROVE stage[i] = "over"
    BY Zenon
  <2>1. i \in Positions /\ PositionsOf(tasks) = {}
    BY Zenon DEF SchedInv, BatchInv, PositionsOf
  <2> QED BY <2>1, Zenon DEF SchedInv, ScheduleInv
<1>2. running = "idle" => DOMAIN stage = {}
  BY DEF SchedInv, BatchInv
<1> QED BY <1>1, <1>2, Zenon DEF DetectorInv, DetectorExact

(* Steps that leave the threads of a batch alone.                          *)
LEMMA DetectorOther ==
  ASSUME DetectorInv, UNCHANGED <<txs, stage, detectorVars>>
  PROVE  DetectorInv'
BY DEF DetectorInv, DetectorExact, VectorRight, HoldsVin, Vin, Spent, detectorVars

(* A batch starts or ends with the detector empty.                         *)
LEMMA DetectorBatch ==
  ASSUME SchedInv, DetectorInv, running = "idle" \/ (scheduling = "off" /\ tasks = {}),
         UNCHANGED detectorVars, \A i \in DOMAIN stage' : stage'[i] \notin Past
  PROVE  DetectorInv'
<1>1. mKnownSpendsTx = {} /\ UNCHANGED <<mKnownSpends, mKnownSpendsTx>>
  BY DetectorEmpty, Zenon DEF detectorVars
<1>2. VectorRight(mKnownSpends, mKnownSpendsTx)'
  BY <1>1, Zenon DEF DetectorInv, VectorRight, HoldsVin, Vin, Spent
<1>3. DetectorExact'
  <2>1. (Range(mKnownSpends) = Spent(mKnownSpendsTx))'
    BY <1>2, Zenon DEF VectorRight
  <2> QED BY <1>1, <2>1, Zenon DEF DetectorExact, Past
<1> QED BY <1>2, <1>3, Zenon DEF DetectorInv

LEMMA DetectorThread ==
  ASSUME SchedInv, DetectorInv, NoTwice, NEW i \in DOMAIN stage,
         ThreadStep(i) \/ Cancel(i) \/ HandleTxnProcessingException(i)
  PROVE  DetectorInv'
<1>0. txs' = txs
  BY Zenon DEF ThreadStep, Cancel, HandleTxnProcessingException, TxnValidation, insertTxnInputs,
         CommitTxToMempool, FinishAccepted, HandleInvalidP2PTxn, schedulerVars
<1>1. CASE TxnValidation(i)
  <2>1. UNCHANGED detectorVars /\ (Go(i, "ready", "detect") \/ Go(i, "ready", "reject"))
    BY <1>1, Zenon DEF TxnValidation
  <2> QED BY <1>0, <2>1, DetectorGo, Zenon DEF Past
<1>2. CASE insertTxnInputs(i)
  <2>1. CASE UNCHANGED detectorVars /\ Go(i, "detect", "reject")
    BY <1>0, <2>1, DetectorGo, Zenon DEF Past
  <2>2. CASE /\ Go(i, "detect", "commit") /\ Inputs[txs[i]] \cap Range(mKnownSpends) = {}
             /\ mKnownSpends' = mKnownSpends \o Vin(txs[i])
             /\ mKnownSpendsTx' = mKnownSpendsTx \cup {txs[i]}
    BY <1>0, <2>2, DetectorInsert, Zenon
  <2> QED BY <1>2, <2>1, <2>2, Zenon DEF insertTxnInputs
<1>3. CASE CommitTxToMempool(i)
  BY <1>0, <1>3, DetectorGo, Zenon DEF CommitTxToMempool, Past
<1>4. CASE FinishAccepted(i)
  BY <1>0, <1>4, DetectorRemove, Zenon DEF FinishAccepted
<1>5. CASE HandleInvalidP2PTxn(i)
  BY <1>0, <1>5, DetectorRemove, Zenon DEF HandleInvalidP2PTxn
<1>6. CASE Cancel(i)
  BY <1>0, <1>6, DetectorGo, Zenon DEF Cancel, Past
<1>7. CASE HandleTxnProcessingException(i)
  BY <1>0, <1>7, DetectorRemove, Zenon DEF HandleTxnProcessingException
<1> QED BY <1>1, <1>2, <1>3, <1>4, <1>5, <1>6, <1>7, Zenon DEF ThreadStep

LEMMA NextDetector ==
  ASSUME SchedInv, DetectorInv, NoTwice, [Next]_vars
  PROVE  DetectorInv'
<1>1. CASE UNCHANGED vars
  BY <1>1, DetectorOther, Zenon DEF vars, schedulerVars, threadVars
<1>2. ASSUME NEW t \in Txs, ProcessTxMessage(t) PROVE DetectorInv'
  BY <1>2, DetectorOther, Zenon DEF ProcessTxMessage, schedulerVars, threadVars
<1>3. ASSUME NEW t \in Submitted, ProcessValidation(t) PROVE DetectorInv'
  BY <1>3, DetectorOther, Zenon DEF ProcessValidation, schedulerVars, threadVars
<1>4. ASSUME NEW t \in tasks, EndTask(t) PROVE DetectorInv'
  BY <1>4, DetectorOther, Zenon DEF EndTask, MarkResult, threadVars
<1>5. ASSUME NEW B \in BlockChoices, BlockConnected(B) PROVE DetectorInv'
  BY <1>5, DetectorOther, Zenon DEF BlockConnected, schedulerVars, threadVars
<1>6. ASSUME NEW p, FinalizeNode(p) PROVE DetectorInv'
  BY <1>6, DetectorOther, Zenon DEF FinalizeNode, schedulerVars, threadVars
<1>7. CASE SchedulerStep
  <2>1. txs' = txs
    BY <1>7, Zenon DEF SchedulerStep, Schedule, TakeCompletions, ScanTransactions, EndScan, EndSchedule,
                BuildSpendersMap
  <2> QED BY <1>7, <2>1, DetectorOther, Zenon DEF SchedulerStep, threadVars
<1>8. CASE StartBatch
  <2>1. /\ running = "idle" /\ UNCHANGED detectorVars
        /\ \A i \in DOMAIN stage' : stage'[i] \notin Past
    BY <1>8, Zenon DEF StartBatch, Past
  <2> QED BY <2>1, DetectorBatch, Zenon
<1>9. CASE TrimMempool
  BY <1>9, DetectorOther, Zenon DEF TrimMempool, schedulerVars, threadVars
<1>10. CASE EndBatch
  <2>1. running = "sort" /\ UNCHANGED detectorVars /\ stage' = <<>>
    BY <1>10, Zenon DEF EndBatch
  <2>2. scheduling = "off" /\ tasks = {}
    BY <2>1, Zenon DEF SchedInv, BatchInv
  <2>3. \A i \in DOMAIN stage' : stage'[i] \notin Past
    BY <2>1
  <2> QED BY <2>1, <2>2, <2>3, DetectorBatch
<1> QED BY <1>1, <1>2, <1>3, <1>4, <1>5, <1>6, <1>7, <1>8, <1>9, <1>10, DetectorThread DEF Next

LEMMA InitDetector == Init => DetectorInv
<1> SUFFICES ASSUME Init PROVE DetectorInv
  BY Zenon
<1>1. mKnownSpends = <<>> /\ mKnownSpendsTx = {} /\ stage = <<>>
  BY Zenon DEF Init
<1>2. Range(<<>>) = {} /\ Spent({}) = {} /\ IsInjective(<<>>) /\ <<>> \in Seq(Spent(Txs))
  BY DEF Range, Spent, IsInjective
<1> QED BY <1>1, <1>2 DEF DetectorInv, DetectorExact, VectorRight

LEMMA ValidatorDetector == Spec /\ []NoTwice => [](SchedInv /\ QueueInv /\ DetectorInv)
<1>1. SchedInv /\ QueueInv /\ DetectorInv /\ NoTwice /\ [Next]_vars => DetectorInv'
  BY NextDetector, Zenon
<1> QED BY <1>1, InitDetector, ValidatorSched, PTL DEF Spec

(* As long as no batch holds a transaction twice, the detector holds the   *)
(* inputs of exactly the transactions between insertTxnInputs and          *)
(* removeTxnInputs, however the threads interleave: removal by the place   *)
(* of the first input takes nothing of another transaction.                *)
THEOREM ValidatorDetectorExact == Spec /\ []NoTwice => []DetectorExact
<1>1. DetectorInv => DetectorExact
  BY Zenon DEF DetectorInv
<1> QED BY <1>1, ValidatorDetector, PTL

-----------------------------------------------------------------------------
(* The mempool.                                                            *)

(* A pool and the coins of the chain that go together.                     *)
Have(pool, utxo, o) == IF o[1] \in pool THEN o \in Outs(o[1]) ELSE o \in utxo

Consistent(pool, utxo) ==
  /\ \A t, u \in pool : t # u => Inputs[t] \cap Inputs[u] = {}
  /\ \A t \in pool : \A o \in Inputs[t] : Have(pool, utxo, o)

(* What a thread relies on between its checks and its commit: the inputs   *)
(* are there, and nothing in the mempool spends them.                      *)
PoolInv ==
  /\ Consistent(mempool, coins)
  /\ \A o \in coins : o[1] \in Txs => o \in Outs(o[1])
  /\ \A i \in DOMAIN stage : stage[i] \in {"detect", "commit"} =>
       \A o \in Inputs[txs[i]] : Have(mempool, coins, o)
  /\ \A i \in DOMAIN stage : stage[i] = "commit" =>
       \A u \in mempool : u # txs[i] => Inputs[u] \cap Inputs[txs[i]] = {}

LEMMA HaveIsHaveCoin == \A o : Have(mempool, coins, o) <=> HaveCoin(o)
BY Zenon DEF Have, HaveCoin

(* A coin stays in view when a transaction enters the mempool.             *)
LEMMA HaveMore ==
  ASSUME NEW pool, NEW utxo, \A o \in utxo : o[1] \in Txs => o \in Outs(o[1]),
         NEW t \in Txs, NEW o, Have(pool, utxo, o)
  PROVE  Have(pool \cup {t}, utxo, o)
BY Zenon DEF Have

(* One more transaction that has its inputs and conflicts with nothing.    *)
LEMMA AddConsistent ==
  ASSUME NEW pool, NEW utxo, \A o \in utxo : o[1] \in Txs => o \in Outs(o[1]),
         Consistent(pool, utxo), NEW t \in Txs,
         \A o \in Inputs[t] : Have(pool, utxo, o),
         \A u \in pool : u # t => Inputs[u] \cap Inputs[t] = {}
  PROVE  Consistent(pool \cup {t}, utxo)
<1>1. \A v \in pool \cup {t} : \A o \in Inputs[v] : Have(pool \cup {t}, utxo, o)
  BY HaveMore DEF Consistent
<1>2. \A v, u \in pool \cup {t} : v # u => Inputs[v] \cap Inputs[u] = {}
  BY Zenon DEF Consistent
<1> QED BY <1>1, <1>2, Zenon DEF Consistent

(* Removing transactions with all their children.                          *)
LEMMA RemoveConsistent ==
  ASSUME NEW pool, NEW utxo, Consistent(pool, utxo), NEW G,
         \A u \in pool : Parents(u) \cap G # {} => u \in G
  PROVE  Consistent(pool \ G, utxo)
<1>1. ASSUME NEW t \in pool \ G, NEW o \in Inputs[t] PROVE Have(pool \ G, utxo, o)
  <2>1. Have(pool, utxo, o)
    BY Zenon DEF Consistent
  <2>2. o[1] \in Parents(t)
    BY Zenon DEF Parents
  <2> QED BY <2>1, <2>2, Zenon DEF Have
<1>2. \A t, u \in pool \ G : t # u => Inputs[t] \cap Inputs[u] = {}
  BY Zenon DEF Consistent
<1> QED BY <1>1, <1>2, Zenon DEF Consistent

(* LimitMempoolSize removes transactions with all their children.          *)
LEMMA TrimConsistent ==
  ASSUME NEW pool, NEW utxo, Consistent(pool, utxo), NEW G \in Trimmed(pool)
  PROVE  Consistent(pool \ G, utxo)
<1>1. \A u \in pool : Parents(u) \cap G # {} => u \in G
  BY Zenon DEF Trimmed
<1> QED BY <1>1, RemoveConsistent, Zenon

(* removeForBlock: what stays has its inputs on the new chain or in the    *)
(* mempool.                                                                *)
LEMMA BlockPool ==
  ASSUME PoolInv, NEW B, BlockConnected(B)
  PROVE  Consistent(mempool', coins') /\ \A o \in coins' : o[1] \in Txs => o \in Outs(o[1])
<1> DEFINE T == {u \in mempool \ B : Inputs[u] \intersect Spent(B) # {}}
           W == WithDescendants(T)
           made == UNION {Outs(t) : t \in B}
<1>1. coins' = (coins \cup made) \ Spent(B) /\ mempool' = mempool \ (B \cup W)
  BY Zenon DEF BlockConnected
<1>2. T \subseteq W
  BY Zenon DEF WithDescendants
<1>3. ASSUME NEW v \in mempool, Parents(v) \cap W # {} PROVE v \in W
  <2> HIDE DEF T
  <2> QED BY <1>3, Zenon DEF WithDescendants
<1> HIDE DEF W
<1>4. \A t \in B : \A o \in Outs(t) : o[1] = t /\ o \in Outs(o[1])
  BY DEF Outs
<1>5. \A o \in made : o \in Outs(o[1])
  BY <1>4
<1>6. \A o \in coins' : o[1] \in Txs => o \in Outs(o[1])
  <2> HIDE DEF made
  <2> QED BY <1>1, <1>5, Zenon DEF PoolInv
<1>7. ASSUME NEW t \in mempool', NEW o \in Inputs[t] PROVE Have(mempool', coins', o)
  <2>1. t \in mempool /\ t \notin B /\ t \notin W /\ o \notin Spent(B)
    BY <1>1, <1>2, Zenon
  <2>2. Have(mempool, coins, o)
    BY <2>1, Zenon DEF PoolInv, Consistent
  <2>3. o[1] \in Parents(t) /\ o[1] \notin W
    BY <1>3, <2>1, Zenon DEF Parents
  <2>4. CASE o[1] \in B /\ o[1] \in mempool
    <3>1. o \in made
      BY <2>2, <2>4, Zenon DEF Have
    <3> HIDE DEF made
    <3> QED BY <1>1, <2>1, <2>4, <3>1 DEF Have
  <2>5. CASE o[1] \notin B /\ o[1] \in mempool
    BY <1>1, <2>2, <2>3, <2>5 DEF Have
  <2>6. CASE o[1] \notin mempool
    <3> HIDE DEF made
    <3> QED BY <1>1, <2>1, <2>2, <2>6 DEF Have
  <2> QED BY <2>4, <2>5, <2>6
<1>8. \A t, u \in mempool' : t # u => Inputs[t] \cap Inputs[u] = {}
  BY <1>1, Zenon DEF PoolInv, Consistent
<1> QED BY <1>6, <1>7, <1>8, Zenon DEF Consistent

(* Steps that change neither the mempool nor the chain, and of the threads *)
(* at most one that has nothing to commit.                                 *)
LEMMA PoolGo ==
  ASSUME SchedInv, PoolInv, NEW i, NEW from, NEW to, Go(i, from, to), txs' = txs,
         to \notin {"detect", "commit"}, UNCHANGED <<mempool, coins>>
  PROVE  PoolInv'
<1>1. /\ DOMAIN stage' = DOMAIN stage
      /\ \A j \in DOMAIN stage : stage'[j] = IF j = i THEN to ELSE stage[j]
  BY GoStage, Zenon
<1> QED BY <1>1, Zenon DEF PoolInv, Consistent, Have, Outs

LEMMA PoolOther ==
  ASSUME PoolInv, UNCHANGED <<txs, stage, mempool, coins>>
  PROVE  PoolInv'
BY Zenon DEF PoolInv, Consistent, Have, Outs

(* A new mempool or chain while no thread is between check and commit.     *)
LEMMA PoolBetween ==
  ASSUME Consistent(mempool', coins'), \A o \in coins' : o[1] \in Txs => o \in Outs(o[1]),
         \A i \in DOMAIN stage' : stage'[i] \notin {"detect", "commit"}
  PROVE  PoolInv'
BY Zenon DEF PoolInv, Consistent, Have, Outs

(* CommitTxToMempool.                                                      *)
LEMMA PoolCommit ==
  ASSUME SchedInv, DetectorInv, PoolInv, NEW i, CommitTxToMempool(i)
  PROVE  PoolInv'
<1>1. /\ Go(i, "commit", "finish") /\ mempool' = mempool \cup {txs[i]} /\ coins' = coins
      /\ txs' = txs
  BY Zenon DEF CommitTxToMempool, schedulerVars
<1>2. /\ DOMAIN stage' = DOMAIN stage /\ DOMAIN stage = DOMAIN txs /\ i \in DOMAIN stage
      /\ stage[i] = "commit" /\ txs[i] \in Txs
      /\ \A j \in DOMAIN stage : stage'[j] = IF j = i THEN "finish" ELSE stage[j]
  BY <1>1, GoStage, Zenon
<1>3. Consistent(mempool \cup {txs[i]}, coins)
  BY <1>2, AddConsistent DEF PoolInv
<1>4. ASSUME NEW j \in DOMAIN stage', stage'[j] \in {"detect", "commit"},
             NEW o \in Inputs[txs[j]]
      PROVE  Have(mempool', coins', o)
  <2>1. stage[j] \in {"detect", "commit"}
    BY <1>2, <1>4, Zenon
  <2>2. Have(mempool, coins, o)
    BY <1>2, <2>1, Zenon DEF PoolInv
  <2>3. Have(mempool \cup {txs[i]}, coins, o)
    BY <1>2, <2>2, HaveMore, Zenon DEF PoolInv
  <2> QED BY <1>1, <2>3, Zenon
<1>5. ASSUME NEW j \in DOMAIN stage', stage'[j] = "commit", NEW u \in mempool', u # txs[j]
      PROVE  Inputs[u] \cap Inputs[txs[j]] = {}
  <2>1. stage[j] = "commit" /\ j # i
    BY <1>2, <1>5, Zenon
  <2>2. CASE u \in mempool
    BY <1>2, <1>5, <2>1, <2>2, Zenon DEF PoolInv
  <2>3. CASE u = txs[i]
    <3>1. txs[i] \in mKnownSpendsTx /\ txs[j] \in mKnownSpendsTx
      BY <1>2, <2>1, Zenon DEF DetectorInv, DetectorExact
    <3> QED BY <1>5, <2>3, <3>1 DEF DetectorInv, VectorRight
  <2> QED BY <1>1, <2>2, <2>3
<1>6. Consistent(mempool', coins') /\ \A o \in coins' : o[1] \in Txs => o \in Outs(o[1])
  BY <1>1, <1>3, Zenon DEF PoolInv
<1> QED BY <1>1, <1>4, <1>5, <1>6 DEF PoolInv, Consistent, Have, Outs

(* A transaction that validation finds valid has its inputs and conflicts  *)
(* with nothing in the mempool.                                            *)
LEMMA ValidFound ==
  ASSUME NEW t, "valid" \in Findings(t)
  PROVE  /\ \A o \in Inputs[t] : Have(mempool, coins, o)
         /\ \A u \in mempool : Inputs[u] \cap Inputs[t] = {}
<1>1. /\ t \notin mempool /\ ~CheckTxConflicts(t)
      /\ \A o \in Inputs[t] : HaveCoin(o)
  BY Zenon DEF Findings
<1> QED BY <1>1, HaveIsHaveCoin, Zenon DEF CheckTxConflicts

LEMMA PoolThread ==
  ASSUME SchedInv, DetectorInv, PoolInv, NEW i \in DOMAIN stage,
         ThreadStep(i) \/ Cancel(i) \/ HandleTxnProcessingException(i)
  PROVE  PoolInv'
<1>0. txs' = txs
  BY Zenon DEF ThreadStep, Cancel, HandleTxnProcessingException, TxnValidation, insertTxnInputs,
         CommitTxToMempool, FinishAccepted, HandleInvalidP2PTxn, schedulerVars
<1>1. CASE TxnValidation(i)
  <2>1. UNCHANGED <<mempool, coins>>
    BY <1>1, Zenon DEF TxnValidation, chainVars
  <2>2. CASE Go(i, "ready", "reject")
    BY <1>0, <2>1, <2>2, PoolGo
  <2>3. CASE "valid" \in Findings(txs[i]) /\ Go(i, "ready", "detect")
    <3>1. /\ DOMAIN stage' = DOMAIN stage
          /\ \A j \in DOMAIN stage : stage'[j] = IF j = i THEN "detect" ELSE stage[j]
      BY <2>3, GoStage, Zenon
    <3>2. \A o \in Inputs[txs[i]] : Have(mempool, coins, o)
      BY <2>3, ValidFound, Zenon
    <3>3. \A j \in DOMAIN stage' : stage'[j] \in {"detect", "commit"} =>
            \A o \in Inputs[txs[j]] : Have(mempool, coins, o)
      BY <3>1, <3>2, Zenon DEF PoolInv
    <3>4. \A j \in DOMAIN stage' : stage'[j] = "commit" =>
            \A u \in mempool : u # txs[j] => Inputs[u] \cap Inputs[txs[j]] = {}
      BY <3>1, Zenon DEF PoolInv
    <3> QED BY <1>0, <2>1, <3>3, <3>4 DEF PoolInv, Consistent, Have, Outs
  <2> QED BY <1>1, <2>2, <2>3, Zenon DEF TxnValidation
<1>2. CASE insertTxnInputs(i)
  <2>1. UNCHANGED <<mempool, coins>>
    BY <1>2, Zenon DEF insertTxnInputs, chainVars
  <2>2. CASE Go(i, "detect", "reject")
    BY <1>0, <2>1, <2>2, PoolGo
  <2>3. CASE ~CheckTxConflicts(txs[i]) /\ Go(i, "detect", "commit")
    <3>1. /\ DOMAIN stage' = DOMAIN stage /\ i \in DOMAIN stage /\ stage[i] = "detect"
          /\ \A j \in DOMAIN stage : stage'[j] = IF j = i THEN "commit" ELSE stage[j]
      BY <2>3, GoStage, Zenon
    <3>2. \A j \in DOMAIN stage' : stage'[j] \in {"detect", "commit"} =>
            \A o \in Inputs[txs[j]] : Have(mempool, coins, o)
      BY <3>1, Zenon DEF PoolInv
    <3>3. \A u \in mempool : Inputs[u] \cap Inputs[txs[i]] = {}
      BY <2>3, Zenon DEF CheckTxConflicts
    <3>4. \A j \in DOMAIN stage' : stage'[j] = "commit" =>
            \A u \in mempool : u # txs[j] => Inputs[u] \cap Inputs[txs[j]] = {}
      BY <3>1, <3>3, Zenon DEF PoolInv
    <3> QED BY <1>0, <2>1, <3>2, <3>4, Zenon DEF PoolInv, Consistent, Have, Outs
  <2> QED BY <1>2, <2>2, <2>3, Zenon DEF insertTxnInputs
<1>3. CASE CommitTxToMempool(i)
  BY <1>3, PoolCommit, Zenon
<1>4. CASE FinishAccepted(i)
  BY <1>0, <1>4, PoolGo, Zenon DEF FinishAccepted, chainVars
<1>5. CASE HandleInvalidP2PTxn(i)
  BY <1>0, <1>5, PoolGo, Zenon DEF HandleInvalidP2PTxn, chainVars
<1>6. CASE Cancel(i)
  BY <1>0, <1>6, PoolGo, Zenon DEF Cancel, chainVars
<1>7. CASE HandleTxnProcessingException(i)
  BY <1>0, <1>7, PoolGo DEF HandleTxnProcessingException, chainVars
<1> QED BY <1>1, <1>2, <1>3, <1>4, <1>5, <1>6, <1>7 DEF ThreadStep

(* No thread is at work outside the validation of a batch.                 *)
LEMMA ThreadsRest ==
  ASSUME SchedInv, DetectorInv, running # "validate" \/ (scheduling = "off" /\ tasks = {})
  PROVE  \A i \in DOMAIN stage : stage[i] \notin {"detect", "commit"}
<1>1. running = "idle" => DOMAIN stage = {}
  BY DEF SchedInv, BatchInv
<1>2. running # "idle" => \A i \in DOMAIN stage : stage[i] = "over"
  BY DetectorEmpty, Zenon DEF SchedInv, BatchInv
<1> QED BY <1>1, <1>2, Zenon

LEMMA NextPool ==
  ASSUME SchedInv, DetectorInv, PoolInv, [Next]_vars
  PROVE  PoolInv'
<1>0. Consistent(mempool, coins) /\ \A o \in coins : o[1] \in Txs => o \in Outs(o[1])
  BY Zenon DEF PoolInv
<1>1. CASE UNCHANGED vars
  BY <1>1, PoolOther, Zenon DEF vars, schedulerVars, threadVars, chainVars
<1>2. ASSUME NEW t \in Txs, ProcessTxMessage(t) PROVE PoolInv'
  BY <1>2, PoolOther, Zenon DEF ProcessTxMessage, schedulerVars, threadVars, chainVars
<1>3. ASSUME NEW t \in Submitted, ProcessValidation(t) PROVE PoolInv'
  <2>1. /\ running = "idle" /\ "valid" \in Findings(t) /\ stage' = stage /\ coins' = coins
        /\ \E removed \in Trimmed(mempool \cup {t}) : mempool' = (mempool \cup {t}) \ removed
    BY <1>3, Zenon DEF ProcessValidation, threadVars
  <2>2. t \in Txs
    BY TransactionAssumption, Zenon
  <2>3. Consistent(mempool \cup {t}, coins)
    BY <1>0, <2>1, <2>2, ValidFound, AddConsistent
  <2>4. Consistent(mempool', coins)
    BY <2>1, <2>3, TrimConsistent
  <2>5. \A i \in DOMAIN stage : stage[i] \notin {"detect", "commit"}
    BY <2>1, ThreadsRest, Zenon
  <2> QED BY <1>0, <2>1, <2>4, <2>5, PoolBetween, Zenon
<1>4. ASSUME NEW t \in tasks, EndTask(t) PROVE PoolInv'
  BY <1>4, PoolOther, Zenon DEF EndTask, MarkResult, threadVars, chainVars
<1>5. ASSUME NEW B \in BlockChoices, BlockConnected(B) PROVE PoolInv'
  <2>1. running # "validate" /\ stage' = stage
    BY <1>5, Zenon DEF BlockConnected, threadVars
  <2>2. \A i \in DOMAIN stage : stage[i] \notin {"detect", "commit"}
    BY <2>1, ThreadsRest, Zenon
  <2> QED BY <1>5, <2>1, <2>2, BlockPool, PoolBetween
<1>6. ASSUME NEW p, FinalizeNode(p) PROVE PoolInv'
  BY <1>6, PoolOther, Zenon DEF FinalizeNode, schedulerVars, threadVars, chainVars
<1>7. CASE SchedulerStep
  <2>1. txs' = txs
    BY <1>7, Zenon DEF SchedulerStep, Schedule, TakeCompletions, ScanTransactions, EndScan, EndSchedule,
                BuildSpendersMap
  <2> QED BY <1>7, <2>1, PoolOther, Zenon DEF SchedulerStep, threadVars, chainVars
<1>8. CASE StartBatch
  <2>1. UNCHANGED <<mempool, coins>> /\ \A i \in DOMAIN stage' : stage'[i] \notin {"detect", "commit"}
    BY <1>8, Zenon DEF StartBatch, chainVars
  <2> QED BY <1>0, <2>1, PoolBetween
<1>9. CASE TrimMempool
  <2>1. /\ scheduling = "off" /\ tasks = {} /\ stage' = stage /\ coins' = coins
        /\ \E removed \in Trimmed(mempool) : mempool' = mempool \ removed
    BY <1>9, Zenon DEF TrimMempool, threadVars
  <2>2. Consistent(mempool', coins)
    BY <1>0, <2>1, TrimConsistent
  <2>3. \A i \in DOMAIN stage : stage[i] \notin {"detect", "commit"}
    BY <2>1, ThreadsRest, Zenon
  <2> QED BY <1>0, <2>1, <2>2, <2>3, PoolBetween
<1>10. CASE EndBatch
  <2>1. UNCHANGED <<mempool, coins>> /\ stage' = <<>>
    BY <1>10, Zenon DEF EndBatch, chainVars
  <2>2. \A i \in DOMAIN stage' : stage'[i] \notin {"detect", "commit"}
    BY <2>1
  <2> QED BY <1>0, <2>1, <2>2, PoolBetween
<1> QED BY <1>1, <1>2, <1>3, <1>4, <1>5, <1>6, <1>7, <1>8, <1>9, <1>10, PoolThread DEF Next

LEMMA InitPool == Init => PoolInv
BY TransactionAssumption DEF Init, PoolInv, Consistent

(* As long as no batch holds a transaction twice, the mempool never holds  *)
(* two transactions that spend the same output, nor one without its        *)
(* inputs, for every set of transactions, every interleaving of the        *)
(* threads and whatever blocks and trimming take away: the detector makes  *)
(* up for the time between the check of the mempool and the commit.        *)
THEOREM ValidatorPoolConsistent == Spec /\ []NoTwice => []PoolConsistent
<1>1. SchedInv /\ DetectorInv /\ PoolInv /\ [Next]_vars => PoolInv'
  BY NextPool, Zenon
<1>2. PoolInv => PoolConsistent
  BY HaveIsHaveCoin, Zenon DEF PoolInv, Consistent, PoolConsistent
<1> QED BY <1>1, <1>2, InitPool, ValidatorDetector, PTL DEF Spec

-----------------------------------------------------------------------------
(* Batches without repetitions.                                            *)

(* Without time limits the non-standard queue stays empty, and a new       *)
(* transaction is in one place only.                                       *)
TwiceInv ==
  /\ IsInjective(txs) /\ IsInjective(mStdTxns)
  /\ Range(mStdTxns) \cap Range(txs) = {} /\ Range(mStdTxns) \cap orphans = {}
  /\ mNonStdTxns = <<>>
  /\ DOMAIN verdict = DOMAIN stage /\ \A i \in DOMAIN verdict : verdict[i] # "timeout"

(* Nothing stays of an empty queue.                                        *)
LEMMA TakenEmpty ==
  ASSUME NEW max \in Nat, NEW b
  PROVE  Taken(<<>>, max, b) = <<>> /\ Rest(<<>>, <<>>) = <<>>
<1>1. Len(<<>>) = 0 /\ SubSeq(<<>>, 1, 0) = <<>>
  OBVIOUS
<1>2. (IF max > 0 THEN 0 ELSE max) = 0
  OBVIOUS
<1> QED BY <1>1, <1>2 DEF Taken, Rest

(* What a batch takes of a queue without repetitions, and what it leaves.  *)
LEMMA TakenApart ==
  ASSUME NEW q \in Seq(Txs), IsInjective(q), NEW max \in Nat, NEW b
  PROVE  LET r == Taken(q, max, b) IN
         /\ IsInjective(r) /\ Range(r) \subseteq Range(q)
         /\ IsInjective(Rest(q, r)) /\ Range(Rest(q, r)) \subseteq Range(q)
         /\ Range(r) \cap Range(Rest(q, r)) = {}
<1> DEFINE r == Taken(q, max, b)
           n == IF max > Len(q) THEN Len(q) ELSE max
<1>1. Len(q) \in Nat /\ n \in Nat /\ n <= Len(q) /\ DOMAIN q = 1..Len(q)
  OBVIOUS
<1> HIDE DEF n
<1>2. PICK m \in Nat : r = SubSeq(q, 1, m) /\ m <= Len(q)
  <2>1. CASE Len(b) < MaxStd + MaxNonStd
    BY <1>1, <2>1, Zenon DEF Taken, n
  <2>2. CASE ~(Len(b) < MaxStd + MaxNonStd)
    <3>1. r = SubSeq(q, 1, 0)
      BY <2>2 DEF Taken
    <3> QED BY <1>1, <3>1
  <2> QED BY <2>1, <2>2, Zenon
<1>3. Len(r) = m
  BY <1>1, <1>2
<1> HIDE DEF r
<1>4. Range(r) = {q[k] : k \in 1..m} /\ IsInjective(r)
  BY <1>1, <1>2, SubSeqKeeps
<1>5. /\ Range(Rest(q, r)) = {q[k] : k \in m + 1..Len(q)} /\ IsInjective(Rest(q, r))
  <2>1. m + 1 \in Nat \ {0} /\ Len(q) \in Int /\ Len(q) <= Len(q)
    BY <1>1
  <2> QED BY <1>3, <2>1, SubSeqKeeps DEF Rest
<1>6. Range(r) \subseteq Range(q) /\ Range(Rest(q, r)) \subseteq Range(q)
  <2>1. \A k \in 1..m : k \in DOMAIN q
    BY <1>1, <1>2
  <2>2. \A k \in m + 1..Len(q) : k \in DOMAIN q
    BY <1>1, <1>2
  <2> QED BY <1>4, <1>5, <2>1, <2>2, Zenon DEF Range
<1>7. ASSUME NEW x \in Range(r), x \in Range(Rest(q, r)) PROVE FALSE
  <2>1. PICK k \in 1..m : x = q[k]
    BY <1>4, Zenon
  <2>2. PICK l \in m + 1..Len(q) : x = q[l]
    BY <1>5, <1>7, Zenon
  <2>3. k \in DOMAIN q /\ l \in DOMAIN q /\ k # l
    BY <1>1, <1>2
  <2> QED BY <2>1, <2>2, <2>3, Zenon DEF IsInjective
<1> QED BY <1>4, <1>5, <1>6, <1>7, Zenon DEF r

(* A step that leaves queues and batch alone and adds to the orphans only  *)
(* transactions of the batch.                                              *)
LEMMA TwiceOther ==
  ASSUME TwiceInv, UNCHANGED <<txs, mStdTxns, mNonStdTxns>>, orphans' \subseteq orphans \cup Range(txs),
         DOMAIN verdict' = DOMAIN stage', \A i \in DOMAIN verdict' : verdict'[i] # "timeout"
  PROVE  TwiceInv'
<1>1. Range(mStdTxns) \cap orphans' = {}
  BY Zenon DEF TwiceInv
<1> QED BY <1>1, Zenon DEF TwiceInv

(* A message adds to the queue only a transaction that nothing owns.       *)
LEMMA TwiceMessage ==
  ASSUME SchedInv, QueueInv, TwiceInv, NEW t \in Txs, ProcessTxMessage(t)
  PROVE  TwiceInv'
<1>1. UNCHANGED <<txs, mNonStdTxns, orphans, stage, verdict>>
  BY Zenon DEF ProcessTxMessage, schedulerVars, threadVars, orphanVars
<1>2. CASE mStdTxns' = mStdTxns
  BY <1>1, <1>2, Zenon DEF TwiceInv
<1>3. CASE mStdTxns' = Append(mStdTxns, t) /\ t \notin Tracked
  <2>1. mStdTxns \in Seq(Txs) /\ IsInjective(mStdTxns)
    BY Zenon DEF QueueInv, TwiceInv
  <2>2. t \notin Range(mStdTxns) /\ t \notin Range(txs) /\ t \notin orphans
    BY <1>3, Zenon DEF Tracked, Queued
  <2>3. IsInjective(mStdTxns') /\ Range(mStdTxns') = Range(mStdTxns) \cup {t}
    BY <1>3, <2>1, <2>2, AppendNew, Zenon
  <2> QED BY <1>1, <2>2, <2>3, Zenon DEF TwiceInv
<1>4. mStdTxns' = mStdTxns \/ (mStdTxns' = Append(mStdTxns, t) /\ t \notin Tracked)
  BY Zenon DEF ProcessTxMessage
<1> QED BY <1>2, <1>3, <1>4, Zenon

(* A new batch takes what is in no other place.                            *)
LEMMA TwiceStart ==
  ASSUME SchedInv, QueueInv, TwiceInv, StartBatch
  PROVE  TwiceInv'
<1> DEFINE std == Taken(mStdTxns, MaxStd, txs)
           nonStd == Taken(mNonStdTxns, MaxNonStd, txs \o std)
<1>1. /\ mStdTxns' = Rest(mStdTxns, std) /\ mNonStdTxns' = Rest(mNonStdTxns, nonStd)
      /\ NewScheduler(txs \o std \o nonStd) /\ orphans' = orphans
      /\ verdict' = [i \in DOMAIN (txs \o std \o nonStd) |-> "none"]
      /\ stage' = [i \in DOMAIN (txs \o std \o nonStd) |-> "ready"]
  BY Zenon DEF StartBatch, orphanVars
<1>2. txs \in Seq(Txs) /\ mStdTxns \in Seq(Txs) /\ IsInjective(mStdTxns) /\ IsInjective(txs)
  BY Zenon DEF SchedInv, BatchInv, QueueInv, TwiceInv
<1>3. nonStd = <<>> /\ Rest(mNonStdTxns, nonStd) = <<>>
  BY TakenEmpty, LimitAssumption, Zenon DEF TwiceInv
<1>4. std \in Seq(Txs)
  BY <1>2, TakenKeeps, LimitAssumption, Zenon
<1>5. /\ IsInjective(std) /\ Range(std) \subseteq Range(mStdTxns)
      /\ IsInjective(Rest(mStdTxns, std)) /\ Range(Rest(mStdTxns, std)) \subseteq Range(mStdTxns)
      /\ Range(std) \cap Range(Rest(mStdTxns, std)) = {}
  BY <1>2, TakenApart, LimitAssumption, Zenon
<1> HIDE DEF std, nonStd
<1>6. txs' = txs \o std
  BY <1>1, <1>2, <1>3, <1>4 DEF NewScheduler
<1>7. Range(txs) \cap Range(std) = {}
  BY <1>5, Zenon DEF TwiceInv
<1>8. IsInjective(txs') /\ Range(txs') = Range(txs) \cup Range(std)
  BY <1>2, <1>4, <1>5, <1>6, <1>7, ConcatRange
<1>9. Range(mStdTxns') \cap Range(txs') = {} /\ Range(mStdTxns') \cap orphans' = {}
  BY <1>1, <1>5, <1>8, Zenon DEF TwiceInv
<1> QED BY <1>1, <1>3, <1>5, <1>8, <1>9, Zenon DEF TwiceInv

(* The processing queue holds the cancelled transactions and, apart from   *)
(* them, the orphans to retry.                                             *)
LEMMA TwiceEnd ==
  ASSUME SchedInv, QueueInv, TwiceInv, EndBatch
  PROVE  TwiceInv'
<1> DEFINE C == {i \in Positions : verdict[i] = "canceled"}
           canceled == At(txs, C)
           timedOut == {i \in Positions : verdict[i] = "timeout" /\ txs[i] \notin low
                                          /\ \A j \in 1..i - 1 : txs[j] # txs[i]}
           detected == At(txs, timedOut)
           room == MaxQueue - Len(mNonStdTxns)
           n == IF room < Len(detected) THEN room ELSE Len(detected)
<1>1. /\ mNonStdTxns' = mNonStdTxns \o SubSeq(detected, 1, n)
      /\ UNCHANGED <<mStdTxns, orphans>> /\ verdict' = <<>> /\ stage' = <<>>
      /\ running = "sort"
  BY Zenon DEF EndBatch
<1>2. PICK retry \in CollectDependentTxnsForRetry(collected) :
        txs' = At(retry, {k \in DOMAIN retry : retry[k] \notin Range(canceled)}) \o canceled
  BY Zenon DEF EndBatch
<1>3. txs \in Seq(Txs) /\ IsInjective(txs) /\ C \in SUBSET (DOMAIN txs)
  BY Zenon DEF SchedInv, BatchInv, TwiceInv, Positions
<1>4. mNonStdTxns' = <<>>
  <2>1. timedOut = {}
    BY <1>1, Zenon DEF TwiceInv, SchedInv, BatchInv
  <2>2. detected \in Seq(Txs) /\ Range(detected) \subseteq {txs[i] : i \in timedOut}
    BY <1>3, <2>1, AtKeeps, Zenon
  <2> HIDE DEF detected
  <2>3. detected = <<>>
    BY <2>1, <2>2 DEF Range
  <2>4. Len(mNonStdTxns) = 0 /\ MaxQueue \in Nat /\ Len(detected) = 0
    BY <2>3, LimitAssumption, Zenon DEF TwiceInv
  <2>5. n = 0
    BY <2>4
  <2> HIDE DEF n
  <2>6. SubSeq(detected, 1, n) = <<>>
    BY <2>3, <2>5
  <2> QED BY <1>1, <2>6 DEF TwiceInv
<1> HIDE DEF C
<1>5. canceled \in Seq(Txs) /\ IsInjective(canceled) /\ Range(canceled) \subseteq {txs[i] : i \in C}
  BY <1>3, AtKeeps, Zenon
<1>6. Range(canceled) \subseteq Range(txs)
  BY <1>3, <1>5, Zenon DEF Range
<1> HIDE DEF canceled
<1>7. retry \in Seq(orphans) /\ orphans \subseteq Txs /\ IsInjective(retry)
  BY RetryKeeps, Zenon DEF QueueInv
<1> DEFINE I == {k \in DOMAIN retry : retry[k] \notin Range(canceled)}
           again == At(retry, I)
<1>8. /\ again \in Seq(orphans) /\ IsInjective(again)
      /\ Range(again) \subseteq {retry[k] : k \in I}
  BY <1>7, AtKeeps, Zenon
<1>9. Range(again) \subseteq orphans /\ Range(again) \cap Range(canceled) = {}
  <2>1. \A k \in I : retry[k] \in orphans /\ retry[k] \notin Range(canceled)
    BY <1>7
  <2> HIDE DEF I
  <2> QED BY <1>8, <2>1, Zenon
<1>10. again \in Seq(Txs)
  BY <1>7, <1>8, SeqMonotonic, Zenon
<1>11. txs' = again \o canceled
  BY <1>2, Zenon
<1> HIDE DEF again
<1>12. IsInjective(txs') /\ Range(txs') = Range(again) \cup Range(canceled)
  BY <1>5, <1>8, <1>9, <1>10, <1>11, ConcatRange
<1>13. Range(mStdTxns) \cap Range(txs') = {}
  BY <1>6, <1>9, <1>12, Zenon DEF TwiceInv
<1>14. DOMAIN verdict' = DOMAIN stage' /\ \A i \in DOMAIN verdict' : verdict'[i] # "timeout"
  BY <1>1
<1>15. /\ IsInjective(mStdTxns') /\ Range(mStdTxns') \cap Range(txs') = {}
       /\ Range(mStdTxns') \cap orphans' = {}
  BY <1>1, <1>13, Zenon DEF TwiceInv
<1> QED BY <1>4, <1>12, <1>14, <1>15, Zenon DEF TwiceInv

(* No check runs out of time.                                              *)
LEMMA TwiceThread ==
  ASSUME Slow = {}, SchedInv, TwiceInv, NEW i \in DOMAIN stage,
         ThreadStep(i) \/ Cancel(i) \/ HandleTxnProcessingException(i)
  PROVE  TwiceInv'
<1>0. running # "idle" /\ txs[i] \in Range(txs)
  BY DEF SchedInv, BatchInv, Positions, Range
<1>1. ASSUME NEW from, NEW to, Go(i, from, to), UNCHANGED <<txs, mStdTxns, mNonStdTxns>>,
             orphans' \subseteq orphans \cup {txs[i]},
             verdict' = verdict \/ \E v : v # "timeout" /\ Find(i, v)
      PROVE  TwiceInv'
  <2>1. DOMAIN stage' = DOMAIN stage
    BY <1>1, Zenon DEF Go
  <2>2. DOMAIN verdict' = DOMAIN verdict /\ \A j \in DOMAIN verdict' : verdict'[j] # "timeout"
    BY <1>1, Zenon DEF Find, TwiceInv
  <2>3. orphans' \subseteq orphans \cup Range(txs)
    BY <1>0, <1>1, Zenon
  <2>4. DOMAIN verdict = DOMAIN stage
    BY Zenon DEF TwiceInv
  <2> QED BY <1>1, <2>1, <2>2, <2>3, <2>4, TwiceOther
<1>2. CASE TxnValidation(i)
  <2>1. "timeout" \notin Findings(txs[i])
    BY Zenon DEF Findings
  <2>2. /\ \E to, v : v # "timeout" /\ Find(i, v) /\ Go(i, "ready", to)
        /\ UNCHANGED <<txs, mStdTxns, mNonStdTxns, orphans>>
    BY <1>2, <2>1, Zenon DEF TxnValidation, schedulerVars, queueVars, orphanVars
  <2> QED BY <1>1, <2>2, Zenon
<1>3. CASE insertTxnInputs(i)
  <2>1. /\ \E to, v : v # "timeout" /\ Find(i, v) /\ Go(i, "detect", to)
        /\ UNCHANGED <<txs, mStdTxns, mNonStdTxns, orphans>>
    BY <1>3, Zenon DEF insertTxnInputs, schedulerVars, queueVars, orphanVars
  <2> QED BY <1>1, <2>1, Zenon
<1>4. CASE CommitTxToMempool(i)
  BY <1>1, <1>4, Zenon DEF CommitTxToMempool, schedulerVars, queueVars, orphanVars
<1>5. CASE FinishAccepted(i)
  BY <1>1, <1>5, Zenon DEF FinishAccepted, schedulerVars, queueVars
<1>6. CASE HandleInvalidP2PTxn(i)
  <2>1. ASSUME NEW pool, NEW kept \in Limited(pool) PROVE kept \subseteq pool
    BY Zenon DEF Limited
  <2>2. /\ UNCHANGED schedulerVars /\ UNCHANGED <<queueVars, verdict>>
        /\ Go(i, "reject", "over")
    BY <1>6, Zenon DEF HandleInvalidP2PTxn
  <2>3. \/ orphans' = orphans \/ orphans' \in Limited(orphans \cup {txs[i]})
        \/ orphans' = orphans \ FromPeer(Peer[txs[i]]) \/ orphans' = orphans \ {txs[i]}
    BY <1>6, Zenon DEF HandleInvalidP2PTxn
  <2>4. orphans' \subseteq orphans \cup {txs[i]}
    BY <2>1, <2>3, Zenon
  <2> QED BY <1>1, <2>2, <2>4, Zenon DEF schedulerVars, queueVars
<1>7. CASE Cancel(i)
  BY <1>1, <1>7, Zenon DEF Cancel, schedulerVars, queueVars, orphanVars
<1>8. CASE HandleTxnProcessingException(i)
  BY <1>1, <1>8, Zenon DEF HandleTxnProcessingException, schedulerVars, queueVars, orphanVars
<1> QED BY <1>2, <1>3, <1>4, <1>5, <1>6, <1>7, <1>8 DEF ThreadStep

LEMMA NextTwice ==
  ASSUME Slow = {}, SchedInv, QueueInv, TwiceInv, [Next]_vars
  PROVE  TwiceInv'
<1>0. DOMAIN verdict = DOMAIN stage /\ \A i \in DOMAIN verdict : verdict[i] # "timeout"
  BY Zenon DEF TwiceInv
<1>1. ASSUME UNCHANGED <<txs, mStdTxns, mNonStdTxns, stage, verdict>>, orphans' \subseteq orphans
      PROVE  TwiceInv'
  BY <1>0, <1>1, TwiceOther, Zenon
<1>2. CASE UNCHANGED vars
  BY <1>1, <1>2, Zenon DEF vars, schedulerVars, queueVars, threadVars, orphanVars
<1>3. ASSUME NEW t \in Submitted, ProcessValidation(t) PROVE TwiceInv'
  BY <1>1, <1>3, Zenon DEF ProcessValidation, schedulerVars, queueVars, threadVars, orphanVars
<1>4. ASSUME NEW t \in tasks, EndTask(t) PROVE TwiceInv'
  BY <1>1, <1>4, Zenon DEF EndTask, MarkResult, queueVars, threadVars, orphanVars
<1>5. ASSUME NEW B \in BlockChoices, BlockConnected(B) PROVE TwiceInv'
  BY <1>1, <1>5, Zenon DEF BlockConnected, schedulerVars, queueVars, threadVars
<1>6. ASSUME NEW p, FinalizeNode(p) PROVE TwiceInv'
  BY <1>1, <1>6, Zenon DEF FinalizeNode, schedulerVars, queueVars, threadVars
<1>7. CASE SchedulerStep
  <2>1. txs' = txs
    BY <1>7, Zenon DEF SchedulerStep, Schedule, TakeCompletions, ScanTransactions, EndScan, EndSchedule,
                BuildSpendersMap
  <2> QED BY <1>1, <1>7, <2>1, Zenon DEF SchedulerStep, queueVars, threadVars, orphanVars
<1>8. CASE TrimMempool
  BY <1>1, <1>8, Zenon DEF TrimMempool, schedulerVars, threadVars
<1> QED BY <1>2, <1>3, <1>4, <1>5, <1>6, <1>7, <1>8, TwiceMessage, TwiceStart, TwiceEnd, TwiceThread
        DEF Next

LEMMA InitTwice == Init => TwiceInv
BY DEF Init, SchedulerInit, TwiceInv, IsInjective, Range

(* Without time limits no batch holds a transaction twice: a message adds  *)
(* none that a queue, the batch or the orphan pool owns, and a retry       *)
(* leaves out the orphans that were cancelled.                             *)
THEOREM ValidatorNoTwice ==
  ASSUME Slow = {}
  PROVE  Spec => []NoTwice
<1>1. SchedInv /\ QueueInv /\ TwiceInv /\ [Next]_vars => TwiceInv'
  BY NextTwice, Zenon
<1>2. TwiceInv => NoTwice
  BY Zenon DEF TwiceInv, NoTwice, IsInjective
<1> QED BY <1>1, <1>2, InitTwice, ValidatorSched, PTL DEF Spec

(* So without time limits the detector and the mempool are always right.   *)
THEOREM ValidatorUntimed ==
  ASSUME Slow = {}
  PROVE  Spec => [](DetectorExact /\ PoolConsistent)
BY ValidatorNoTwice, ValidatorDetectorExact, ValidatorPoolConsistent, PTL

=============================================================================
