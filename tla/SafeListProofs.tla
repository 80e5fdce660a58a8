--------------------------- MODULE SafeListProofs ---------------------------
(***************************************************************************)
(* Proofs about SafeList, for any lists, elements and iterators: what the  *)
(* checks let pass is an element that is there, and an iterator is refused *)
(* exactly when its element is gone.                                       *)
(***************************************************************************)
EXTENDS SafeList, TLAPS, FiniteSetTheorems

\* No element is twice in s.
Distinct(s) == \A j, k \in DOMAIN s : s[j] = s[k] => j = k

\* What a list can hold.
ListOf(s) == s \in Seq(Node) /\ Distinct(s)

\* t is s from a to b.
Part(t, s, a, b) ==
  /\ ListOf(t) /\ Len(t) = b - a + 1
  /\ \A i \in 1 .. b - a + 1 : t[i] = s[i + a - 1]
  /\ \A x : x \in Range(t) <=> \E k \in a .. b : x = s[k]

\* a and z are the two parts of s.
Halves(a, z, s) ==
  /\ ListOf(a) /\ ListOf(z)
  /\ Range(a) \cap Range(z) = {} /\ Range(a) \cup Range(z) = Range(s)

-----------------------------------------------------------------------------
(* Sequences of elements *)

\* The places of s that are kept are as many as their ranks.
LEMMA KeptRanks ==
  ASSUME NEW s \in Seq(Node), NEW N, NEW K, K = Kept(s, N),
         NEW C, C = Cardinality(K)
  PROVE  /\ K \subseteq DOMAIN s /\ C \in Nat
         /\ \A k \in K : Cardinality(UpTo(K, k)) \in 1 .. C
         /\ \A j, k \in K : Cardinality(UpTo(K, j)) = Cardinality(UpTo(K, k)) => j = k
         /\ \A j \in 1 .. C : \E k \in K : Cardinality(UpTo(K, k)) = j
  <1>1. K \subseteq 1 .. Len(s) /\ Len(s) \in Nat
    BY DEF Kept
  <1>2. IsFiniteSet(K)
    <2>1. IsFiniteSet(1 .. Len(s))
      BY <1>1, FS_Interval
    <2> QED BY <1>1, <2>1, FS_Subset
  <1>3. C \in Nat
    BY <1>2, FS_CardinalityType
  <1>4. ASSUME NEW k \in K
        PROVE  /\ IsFiniteSet(UpTo(K, k))
               /\ Cardinality(UpTo(K, k)) \in 1 .. C
    <2>1. UpTo(K, k) \subseteq K /\ k \in UpTo(K, k)
      BY <1>1 DEF UpTo
    <2>2. IsFiniteSet(UpTo(K, k)) /\ Cardinality(UpTo(K, k)) <= C
      BY <1>2, <2>1, FS_Subset
    <2>3. Cardinality(UpTo(K, k)) \in Nat
      BY <2>2, FS_CardinalityType
    <2>4. Cardinality(UpTo(K, k)) # 0
      BY <2>1, <2>2, FS_EmptySet
    <2> QED BY <1>3, <2>2, <2>3, <2>4
  <1>5. ASSUME NEW j \in K, NEW k \in K, j < k
        PROVE  Cardinality(UpTo(K, j)) # Cardinality(UpTo(K, k))
    <2>1. /\ UpTo(K, j) \subseteq UpTo(K, k)
          /\ k \in UpTo(K, k) /\ k \notin UpTo(K, j)
      BY <1>1, <1>5 DEF UpTo
    <2>2. UpTo(K, j) # UpTo(K, k)
      BY <2>1
    <2>3. IsFiniteSet(UpTo(K, k))
      BY <1>4
    <2> QED BY <2>1, <2>2, <2>3, FS_Subset
  <1>6. \A j, k \in K : Cardinality(UpTo(K, j)) = Cardinality(UpTo(K, k)) => j = k
    <2> TAKE j, k \in K
    <2>1. j \in Int /\ k \in Int
      BY <1>1
    <2>2. j < k \/ k < j \/ j = k
      BY <2>1
    <2> QED BY <1>5, <2>2
  <1>7. \A j \in 1 .. C : \E k \in K : Cardinality(UpTo(K, k)) = j
    <2> DEFINE f == [k \in K |-> Cardinality(UpTo(K, k))]
    <2>1. f \in Injection(K, 1 .. C)
      BY <1>4, <1>6 DEF Injection, IsInjective
    <2>2. IsFiniteSet(1 .. C) /\ Cardinality(1 .. C) = C
      <3>1. /\ IsFiniteSet(1 .. C)
            /\ Cardinality(1 .. C) = IF 1 > C THEN 0 ELSE C - 1 + 1
        <4>1. 1 \in Int /\ C \in Int
          BY <1>3
        <4> QED BY <4>1, FS_Interval
      <3> QED BY <1>3, <3>1
    <2> HIDE DEF f
    <2>3. f \in Surjection(K, 1 .. C)
      BY <2>1, <2>2, FS_Injection
    <2>4. \A j \in 1 .. C : \E k \in K : f[k] = j
      BY <2>3 DEF Surjection
    <2> QED BY <2>4 DEF f
  <1> QED BY <1>1, <1>3, <1>4, <1>6, <1>7

\* A list without some elements.
LEMMA WithoutList ==
  ASSUME NEW s, ListOf(s), NEW N
  PROVE  ListOf(Without(s, N)) /\ Range(Without(s, N)) = Range(s) \ N
  <1> PICK K : K = Kept(s, N)
    OBVIOUS
  <1> PICK C : C = Cardinality(K)
    OBVIOUS
  <1> PICK t : t = Without(s, N)
    OBVIOUS
  <1> DEFINE at(j) == CHOOSE k \in K : Cardinality(UpTo(K, k)) = j
  <1>1. s \in Seq(Node) /\ Distinct(s)
    BY DEF ListOf
  <1>2. /\ K \subseteq DOMAIN s /\ C \in Nat
        /\ \A k \in K : Cardinality(UpTo(K, k)) \in 1 .. C
        /\ \A j, k \in K : Cardinality(UpTo(K, j)) = Cardinality(UpTo(K, k)) => j = k
        /\ \A j \in 1 .. C : \E k \in K : Cardinality(UpTo(K, k)) = j
    BY <1>1, KeptRanks
  <1>3. \A j \in 1 .. C : at(j) \in K /\ Cardinality(UpTo(K, at(j))) = j
    BY <1>2
  <1>4. t = [j \in 1 .. C |-> s[at(j)]]
    BY DEF Without
  <1> HIDE DEF at
  <1>5. \A k \in DOMAIN s : s[k] \in Node
    BY <1>1
  <1>6. t \in Seq(Node) /\ DOMAIN t = 1 .. C
    BY <1>2, <1>3, <1>4, <1>5
  <1>7. Distinct(t)
    <2> SUFFICES ASSUME NEW j \in 1 .. C, NEW k \in 1 .. C, t[j] = t[k]
                 PROVE  j = k
      BY <1>6 DEF Distinct
    <2>1. s[at(j)] = s[at(k)] /\ at(j) \in DOMAIN s /\ at(k) \in DOMAIN s
      BY <1>2, <1>3, <1>4
    <2>2. at(j) = at(k)
      BY <1>1, <2>1 DEF Distinct
    <2> QED BY <1>3, <2>2
  <1>8. \A x \in Range(t) : x \in Range(s) \ N
    <2> TAKE x \in Range(t)
    <2>1. PICK j \in 1 .. C : x = t[j]
      BY <1>6 DEF Range
    <2>2. x = s[at(j)] /\ at(j) \in Kept(s, N)
      BY <1>3, <1>4, <2>1
    <2> QED BY <2>2 DEF Kept, Range
  <1>9. \A x \in Range(s) \ N : x \in Range(t)
    <2> TAKE x \in Range(s) \ N
    <2>1. PICK k \in DOMAIN s : x = s[k]
      BY DEF Range
    <2>2. k \in K
      BY <2>1 DEF Kept
    <2> PICK j : j = Cardinality(UpTo(K, k))
      OBVIOUS
    <2>3. j \in 1 .. C /\ at(j) = k
      BY <1>2, <1>3, <2>2
    <2> QED BY <1>4, <1>6, <2>1, <2>3 DEF Range
  <1>10. Range(t) = Range(s) \ N
    BY <1>8, <1>9
  <1> QED BY <1>6, <1>7, <1>10 DEF ListOf

\* One list behind another.
LEMMA JoinList ==
  ASSUME NEW s, ListOf(s), NEW t, ListOf(t), Range(s) \cap Range(t) = {}
  PROVE  ListOf(s \o t) /\ Range(s \o t) = Range(s) \cup Range(t)
  <1> PICK u : u = s \o t
    OBVIOUS
  <1>1. s \in Seq(Node) /\ t \in Seq(Node) /\ Distinct(s) /\ Distinct(t)
    BY DEF ListOf
  <1> PICK m \in Nat : m = Len(s)
    BY <1>1
  <1> PICK n \in Nat : n = Len(t)
    BY <1>1
  <1>2. DOMAIN s = 1 .. m /\ DOMAIN t = 1 .. n
    BY <1>1
  <1>3. u \in Seq(Node) /\ Len(u) = m + n
    BY <1>1
  <1>4. DOMAIN u = 1 .. m + n
    BY <1>3
  <1>5. \A i \in 1 .. m : u[i] = s[i]
    BY <1>1
  <1>6. \A i \in m + 1 .. m + n : u[i] = t[i - m]
    BY <1>1
  <1>7. \A i \in 1 .. m : u[i] \in Range(s)
    BY <1>2, <1>5 DEF Range
  <1>8. \A i \in m + 1 .. m + n : i - m \in 1 .. n /\ u[i] \in Range(t)
    <2> TAKE i \in m + 1 .. m + n
    <2>1. i - m \in 1 .. n
      OBVIOUS
    <2> QED BY <1>2, <1>6, <2>1 DEF Range
  <1>9. \A i \in 1 .. m + n : i \in 1 .. m \/ i \in m + 1 .. m + n
    OBVIOUS
  <1>10. Distinct(u)
    <2> SUFFICES ASSUME NEW j \in 1 .. m + n, NEW k \in 1 .. m + n, u[j] = u[k]
                 PROVE  j = k
      BY <1>4 DEF Distinct
    <2>1. CASE j \in 1 .. m /\ k \in 1 .. m
      <3>1. s[j] = s[k] /\ j \in DOMAIN s /\ k \in DOMAIN s
        BY <1>2, <1>5, <2>1
      <3> QED BY <1>1, <3>1 DEF Distinct
    <2>2. CASE j \in m + 1 .. m + n /\ k \in m + 1 .. m + n
      <3>1. t[j - m] = t[k - m] /\ j - m \in DOMAIN t /\ k - m \in DOMAIN t
        BY <1>2, <1>6, <1>8, <2>2
      <3>2. j - m = k - m
        BY <1>1, <3>1 DEF Distinct
      <3> QED BY <3>2
    <2>3. CASE j \in 1 .. m /\ k \in m + 1 .. m + n
      BY <1>7, <1>8, <2>3
    <2>4. CASE j \in m + 1 .. m + n /\ k \in 1 .. m
      BY <1>7, <1>8, <2>4
    <2> QED BY <1>9, <2>1, <2>2, <2>3, <2>4
  <1>11. \A x \in Range(u) : x \in Range(s) \cup Range(t)
    BY <1>4, <1>7, <1>8, <1>9 DEF Range
  <1>12. \A x \in Range(s) : x \in Range(u)
    <2> TAKE x \in Range(s)
    <2>1. PICK i \in 1 .. m : x = s[i]
      BY <1>2 DEF Range
    <2>2. i \in 1 .. m + n /\ x = u[i]
      BY <1>5, <2>1
    <2> QED BY <1>4, <2>2 DEF Range
  <1>13. \A x \in Range(t) : x \in Range(u)
    <2> TAKE x \in Range(t)
    <2>1. PICK i \in 1 .. n : x = t[i]
      BY <1>2 DEF Range
    <2>2. i + m \in m + 1 .. m + n /\ (i + m) - m = i /\ i + m \in 1 .. m + n
      OBVIOUS
    <2>3. x = u[i + m]
      BY <1>6, <2>1, <2>2
    <2> QED BY <1>4, <2>2, <2>3 DEF Range
  <1> QED BY <1>3, <1>10, <1>11, <1>12, <1>13 DEF ListOf

\* A part of a list, from a to b.
LEMMA PartList ==
  ASSUME NEW s, ListOf(s), NEW a \in Nat \ {0}, NEW b \in Nat,
         b <= Len(s), a <= b + 1
  PROVE  Part(SubSeq(s, a, b), s, a, b)
  <1> PICK t : t = SubSeq(s, a, b)
    OBVIOUS
  <1>1. s \in Seq(Node) /\ Distinct(s)
    BY DEF ListOf
  <1> PICK n \in Nat : n = Len(s)
    BY <1>1
  <1>2. /\ t \in Seq(Node) /\ Len(t) = b - a + 1
        /\ \A i \in 1 .. b - a + 1 : t[i] = s[i + a - 1]
    BY <1>1
  <1>3. DOMAIN t = 1 .. b - a + 1 /\ DOMAIN s = 1 .. n
    BY <1>1, <1>2
  <1>4. \A i \in 1 .. b - a + 1 : i + a - 1 \in 1 .. n /\ i + a - 1 \in a .. b
    OBVIOUS
  <1>5. Distinct(t)
    <2> SUFFICES ASSUME NEW j \in 1 .. b - a + 1, NEW k \in 1 .. b - a + 1,
                        t[j] = t[k]
                 PROVE  j = k
      BY <1>3 DEF Distinct
    <2>1. s[j + a - 1] = s[k + a - 1]
      BY <1>2
    <2>2. j + a - 1 = k + a - 1
      BY <1>1, <1>3, <1>4, <2>1 DEF Distinct
    <2> QED BY <2>2
  <1>6. ASSUME NEW x, x \in Range(t) PROVE \E k \in a .. b : x = s[k]
    <2>1. PICK i \in 1 .. b - a + 1 : x = t[i]
      BY <1>3, <1>6 DEF Range
    <2> QED BY <1>2, <1>4, <2>1
  <1>7. ASSUME NEW k \in a .. b PROVE s[k] \in Range(t)
    <2>1. k - a + 1 \in 1 .. b - a + 1 /\ (k - a + 1) + a - 1 = k
      OBVIOUS
    <2>2. s[k] = t[k - a + 1]
      BY <1>2, <2>1
    <2> QED BY <1>3, <2>1, <2>2 DEF Range
  <1> QED BY <1>2, <1>5, <1>6, <1>7 DEF ListOf, Part

\* Where p is.
LEMMA PlaceOf ==
  ASSUME NEW s, ListOf(s), NEW p
  PROVE  /\ Place(s, p) \in 1 .. Len(s) + 1
         /\ Place(s, p) = Len(s) + 1 <=> p \notin Range(s)
         /\ p \in Range(s) => s[Place(s, p)] = p
         /\ \A k \in 1 .. Len(s) : s[k] = p => Place(s, p) = k
  <1>1. s \in Seq(Node) /\ Distinct(s)
    BY DEF ListOf
  <1> PICK n \in Nat : n = Len(s)
    BY <1>1
  <1>2. DOMAIN s = 1 .. n
    BY <1>1
  <1>3. CASE p \in Range(s)
    <2>1. \E k \in DOMAIN s : s[k] = p
      BY <1>3 DEF Range
    <2>2. Place(s, p) \in DOMAIN s /\ s[Place(s, p)] = p
      BY <2>1 DEF Place
    <2>3. \A k \in 1 .. n : s[k] = p => Place(s, p) = k
      BY <1>1, <1>2, <2>2 DEF Distinct
    <2>4. Place(s, p) \in 1 .. n + 1 /\ Place(s, p) # n + 1
      BY <1>2, <2>2
    <2> QED BY <1>3, <2>2, <2>3, <2>4
  <1>4. CASE p \notin Range(s)
    <2>1. ~(\E k \in DOMAIN s : s[k] = p)
      BY <1>4 DEF Range
    <2>2. Place(s, p) = n + 1
      BY <2>1 DEF Place
    <2>3. \A k \in 1 .. n : s[k] # p
      BY <1>2, <2>1
    <2>4. n + 1 \in 1 .. n + 1
      OBVIOUS
    <2> QED BY <1>4, <2>2, <2>3, <2>4
  <1> QED BY <1>3, <1>4

\* The two parts of a list.
LEMMA SplitList ==
  ASSUME NEW s, ListOf(s), NEW k \in 1 .. Len(s) + 1
  PROVE  Halves(SubSeq(s, 1, k - 1), SubSeq(s, k, Len(s)), s)
  <1> PICK a : a = SubSeq(s, 1, k - 1)
    OBVIOUS
  <1> PICK z : z = SubSeq(s, k, Len(s))
    OBVIOUS
  <1>1. s \in Seq(Node) /\ Distinct(s)
    BY DEF ListOf
  <1> PICK n \in Nat : n = Len(s)
    BY <1>1
  <1>2. DOMAIN s = 1 .. n /\ k \in 1 .. n + 1
    BY <1>1
  <1>3. /\ 1 \in Nat \ {0} /\ k - 1 \in Nat /\ k - 1 <= Len(s) /\ 1 <= (k - 1) + 1
        /\ k \in Nat \ {0} /\ Len(s) \in Nat /\ Len(s) <= Len(s) /\ k <= Len(s) + 1
    BY <1>2
  <1>4. ListOf(a) /\ \A x : x \in Range(a) <=> \E i \in 1 .. k - 1 : x = s[i]
    <2>1. Part(SubSeq(s, 1, k - 1), s, 1, k - 1)
      BY <1>3, PartList
    <2> QED BY <2>1 DEF Part
  <1>5. ListOf(z) /\ \A x : x \in Range(z) <=> \E i \in k .. n : x = s[i]
    <2>1. Part(SubSeq(s, k, Len(s)), s, k, Len(s))
      BY <1>3, PartList
    <2> QED BY <2>1 DEF Part
  <1>6. Range(a) \cap Range(z) = {}
    <2> SUFFICES ASSUME NEW x, x \in Range(a), x \in Range(z) PROVE FALSE
      OBVIOUS
    <2>1. PICK i \in 1 .. k - 1 : x = s[i]
      BY <1>4
    <2>2. PICK j \in k .. n : x = s[j]
      BY <1>5
    <2>3. i \in 1 .. n /\ j \in 1 .. n /\ i # j
      BY <1>2
    <2> QED BY <1>1, <1>2, <2>1, <2>2, <2>3 DEF Distinct
  <1>7. \A x : x \in Range(s) <=> \E i \in 1 .. n : x = s[i]
    BY <1>2 DEF Range
  <1>8. \A i : i \in 1 .. n <=> i \in 1 .. k - 1 \/ i \in k .. n
    BY <1>2
  <1> QED BY <1>4, <1>5, <1>6, <1>7, <1>8 DEF Halves

\* A list with t in front of p.
LEMMA PlacedList ==
  ASSUME NEW s, ListOf(s), NEW p, NEW t, ListOf(t), Range(s) \cap Range(t) = {}
  PROVE  /\ ListOf(Placed(s, p, t))
         /\ Range(Placed(s, p, t)) = Range(s) \cup Range(t)
  <1> PICK k : k = Place(s, p)
    OBVIOUS
  <1> PICK a : a = SubSeq(s, 1, k - 1)
    OBVIOUS
  <1> PICK z : z = SubSeq(s, k, Len(s))
    OBVIOUS
  <1>1. k \in 1 .. Len(s) + 1
    BY PlaceOf
  <1>2. /\ ListOf(a) /\ ListOf(z)
        /\ Range(a) \cap Range(z) = {} /\ Range(a) \cup Range(z) = Range(s)
    <2>1. Halves(SubSeq(s, 1, k - 1), SubSeq(s, k, Len(s)), s)
      BY <1>1, SplitList
    <2> QED BY <2>1 DEF Halves
  <1>3. Range(a) \cap Range(t) = {}
    BY <1>2
  <1>4. ListOf(a \o t) /\ Range(a \o t) = Range(a) \cup Range(t)
    BY <1>2, <1>3, JoinList
  <1>5. Range(a \o t) \cap Range(z) = {}
    BY <1>2, <1>4
  <1>6. /\ ListOf((a \o t) \o z)
        /\ Range((a \o t) \o z) = Range(a \o t) \cup Range(z)
    BY <1>2, <1>4, <1>5, JoinList
  <1>7. Placed(s, p, t) = (a \o t) \o z
    BY DEF Placed
  <1> QED BY <1>2, <1>4, <1>6, <1>7

\* Another order of the same elements has none of them twice.
LEMMA OrderedList ==
  ASSUME NEW s, ListOf(s), NEW t \in Orders(s)
  PROVE  ListOf(t) /\ Range(t) = Range(s)
  <1> PICK R : R = Range(s)
    OBVIOUS
  <1>1. s \in Seq(Node) /\ Distinct(s)
    BY DEF ListOf
  <1> PICK n \in Nat : n = Len(s)
    BY <1>1
  <1>2. DOMAIN s = 1 .. n
    BY <1>1
  <1>3. t \in [1 .. n -> R] /\ \A x \in R : \E k \in DOMAIN t : t[k] = x
    BY <1>2 DEF Orders
  <1>4. DOMAIN t = 1 .. n
    BY <1>3
  <1>5. IsFiniteSet(1 .. n)
    BY FS_Interval
  <1>6. s \in [1 .. n -> R] /\ R \subseteq Node
    <2>1. \A k \in 1 .. n : s[k] \in Node
      BY <1>1, <1>2
    <2> QED BY <1>1, <1>2, <2>1 DEF Range
  <1>7. Cardinality(1 .. n) = Cardinality(R)
    <2>1. s \in Injection(1 .. n, R)
      BY <1>1, <1>2, <1>6 DEF Distinct, Injection, IsInjective
    <2>2. s \in Surjection(1 .. n, R)
      BY <1>2, <1>6 DEF Surjection, Range
    <2>3. ExistsBijection(1 .. n, R)
      BY <2>1, <2>2 DEF ExistsBijection, Bijection
    <2> QED BY <1>5, <2>3, FS_Bijection
  <1>8. t \in Surjection(1 .. n, R)
    BY <1>3, <1>4 DEF Surjection
  <1>9. t \in Injection(1 .. n, R)
    BY <1>5, <1>7, <1>8, FS_SurjSameCardinalityImpliesInj
  <1>10. t \in Seq(Node)
    BY <1>3, <1>6
  <1>11. ListOf(t)
    BY <1>4, <1>9, <1>10 DEF ListOf, Distinct, Injection, IsInjective
  <1>12. Range(t) = R
    <2>1. R \subseteq Range(t)
      BY <1>3 DEF Range
    <2>2. \A k \in 1 .. n : t[k] \in R
      BY <1>3
    <2>3. Range(t) \subseteq R
      BY <1>4, <2>2 DEF Range
    <2> QED BY <2>1, <2>3
  <1> QED BY <1>11, <1>12

\* A list of one element, and of none.
LEMMA ShortLists ==
  /\ ListOf(<< >>) /\ Range(<< >>) = {}
  /\ \A n \in Node : ListOf(<<n>>) /\ Range(<<n>>) = {n}
  <1>1. << >> \in Seq(Node) /\ DOMAIN << >> = {}
    OBVIOUS
  <1>2. ListOf(<< >>) /\ Range(<< >>) = {}
    BY <1>1 DEF ListOf, Distinct, Range
  <1>3. ASSUME NEW n \in Node PROVE ListOf(<<n>>) /\ Range(<<n>>) = {n}
    <2> PICK s : s = <<n>>
      OBVIOUS
    <2>1. s \in Seq(Node) /\ DOMAIN s = {1} /\ s[1] = n
      OBVIOUS
    <2>2. Distinct(s)
      BY <2>1 DEF Distinct
    <2>3. Range(s) = {n}
      BY <2>1 DEF Range
    <2> QED BY <2>1, <2>2, <2>3 DEF ListOf
  <1> QED BY <1>2, <1>3

-----------------------------------------------------------------------------
(* Lists e and iterators f *)

\* The elements that are on a list.
All(e) == UNION {Range(e[l]) : l \in List}

\* An element is in one place of one list.
Good(e) ==
  /\ e \in [List -> Seq(Node)]
  /\ \A l \in List : Distinct(e[l])
  /\ \A l, m \in List : l # m => Range(e[l]) \cap Range(e[m]) = {}

ItTypes(f) ==
  f \in [Iter -> [seq : List \cup {NoList}, ok : BOOLEAN,
                  base : Node \cup List \cup {NoList}]]

Usable(f, i) == f[i].seq # NoList /\ f[i].ok

Sits(e, f) ==
  \A i \in Iter : Usable(f, i) => f[i].base \in Range(e[f[i].seq]) \cup {f[i].seq}

State(e, f) == Good(e) /\ ItTypes(f) /\ Sits(e, f)

\* What the iterator i names.
Name(f, i) == IF Usable(f, i) THEN f[i].base ELSE NoList

\* The inductive invariant.
IInv == State(elems, it)

\* One list becomes s, which has what it had and what no list had.
OneChanged(e, l, s) ==
  /\ ListOf(s)
  /\ \A x \in Range(s) : x \in Range(e[l]) \/ x \notin All(e)

Became(d, e, l, s) ==
  /\ Good(d) /\ d[l] = s /\ \A m \in List : m # l => d[m] = e[m]
  /\ All(d) = (All(e) \ Range(e[l])) \cup Range(s)

LEMMA OneChangedGood ==
  ASSUME NEW e, Good(e), NEW l \in List, NEW s, OneChanged(e, l, s)
  PROVE  Became([e EXCEPT ![l] = s], e, l, s)
  <1> PICK d : d = [e EXCEPT ![l] = s]
    OBVIOUS
  <1>1. /\ e \in [List -> Seq(Node)] /\ s \in Seq(Node) /\ Distinct(s)
        /\ \A x \in Range(s) : x \in Range(e[l]) \/ x \notin All(e)
        /\ \A m \in List : Distinct(e[m])
        /\ \A m, n \in List : m # n => Range(e[m]) \cap Range(e[n]) = {}
    BY DEF Good, OneChanged, ListOf
  <1>2. /\ d \in [List -> Seq(Node)] /\ d[l] = s
        /\ \A m \in List : m # l => d[m] = e[m]
    BY <1>1
  <1>3. \A m \in List : Distinct(d[m])
    BY <1>1, <1>2
  <1>4. \A m \in List : m # l => Range(s) \cap Range(e[m]) = {}
    <2> SUFFICES ASSUME NEW m \in List, m # l, NEW x, x \in Range(s), x \in Range(e[m])
                 PROVE  FALSE
      OBVIOUS
    <2>1. x \in All(e)
      BY DEF All
    <2> QED BY <1>1, <2>1
  <1>5. \A m, n \in List : m # n => Range(d[m]) \cap Range(d[n]) = {}
    <2> SUFFICES ASSUME NEW m \in List, NEW n \in List, m # n
                 PROVE  Range(d[m]) \cap Range(d[n]) = {}
      OBVIOUS
    <2>1. CASE m = l
      BY <1>2, <1>4, <2>1
    <2>2. CASE n = l
      BY <1>2, <1>4, <2>2
    <2>3. CASE m # l /\ n # l
      BY <1>1, <1>2, <2>3
    <2> QED BY <2>1, <2>2, <2>3
  <1>6. ASSUME NEW x, x \in All(d)
        PROVE  x \in (All(e) \ Range(e[l])) \cup Range(s)
    <2>1. PICK m \in List : x \in Range(d[m])
      BY <1>6 DEF All
    <2>2. CASE m = l
      BY <1>2, <2>1, <2>2
    <2>3. CASE m # l
      <3>1. x \in Range(e[m])
        BY <1>2, <2>1, <2>3
      <3>2. x \notin Range(e[l])
        BY <1>1, <2>3, <3>1
      <3> QED BY <3>1, <3>2 DEF All
    <2> QED BY <2>2, <2>3
  <1>7. ASSUME NEW x, x \in (All(e) \ Range(e[l])) \cup Range(s)
        PROVE  x \in All(d)
    <2>1. CASE x \in Range(s)
      BY <1>2, <2>1 DEF All
    <2>2. CASE x \in All(e) \ Range(e[l])
      <3>1. PICK m \in List : x \in Range(e[m])
        BY <2>2 DEF All
      <3>2. x \in Range(d[m])
        BY <1>2, <2>2, <3>1
      <3> QED BY <3>2 DEF All
    <2> QED BY <1>7, <2>1, <2>2
  <1>8. All(d) = (All(e) \ Range(e[l])) \cup Range(s)
    BY <1>6, <1>7
  <1>9. Became(d, e, l, s)
    BY <1>2, <1>3, <1>5, <1>8 DEF Good, Became
  <1> QED BY <1>9

\* The elements on lists, and their list.
LEMMA Elements1 ==
  ASSUME NEW e, Good(e)
  PROVE  /\ All(e) \subseteq Node /\ NoList \notin All(e) /\ All(e) \cap List = {}
         /\ \A l \in List : ListOf(e[l]) /\ Range(e[l]) \subseteq All(e)
         /\ \A l, m \in List : \A x : x \in Range(e[l]) /\ x \in Range(e[m]) => l = m
  <1>1. /\ e \in [List -> Seq(Node)] /\ \A m \in List : Distinct(e[m])
        /\ \A m, n \in List : m # n => Range(e[m]) \cap Range(e[n]) = {}
    BY DEF Good
  <1>2. \A l \in List : e[l] \in Seq(Node)
    BY <1>1
  <1>3. \A s \in Seq(Node) : Range(s) \subseteq Node
    BY DEF Range
  <1>4. All(e) \subseteq Node
    BY <1>2, <1>3 DEF All
  <1>5. \A l \in List : Range(e[l]) \subseteq All(e)
    BY DEF All
  <1> QED BY <1>1, <1>2, <1>4, <1>5, SafeListAssumption DEF ListOf

\* What an iterator names says where it is.
LEMMA NameSits ==
  ASSUME NEW e, NEW f, State(e, f), NEW i \in Iter
  PROVE  /\ Name(f, i) \in All(e) \cup List \cup {NoList}
         /\ Usable(f, i) <=> Name(f, i) # NoList
         /\ Usable(f, i) => f[i].seq \in List /\ Name(f, i) = f[i].base
         /\ \A l \in List : Name(f, i) \in Range(e[l]) \cup {l} =>
              f[i].seq = l /\ Usable(f, i)
  <1>1. /\ Good(e) /\ f[i] \in [seq : List \cup {NoList}, ok : BOOLEAN,
                                base : Node \cup List \cup {NoList}]
        /\ Usable(f, i) => f[i].base \in Range(e[f[i].seq]) \cup {f[i].seq}
    BY DEF State, ItTypes, Sits
  <1>2. Usable(f, i) => f[i].seq \in List /\ Name(f, i) = f[i].base
    BY <1>1 DEF Usable, Name
  <1>3. /\ All(e) \subseteq Node /\ NoList \notin All(e) /\ All(e) \cap List = {}
        /\ \A l \in List : Range(e[l]) \subseteq All(e)
        /\ \A l, m \in List : \A x : x \in Range(e[l]) /\ x \in Range(e[m]) => l = m
    BY <1>1, Elements1
  <1>4. NoList \notin List
    BY SafeListAssumption
  <1>5. Usable(f, i) => Name(f, i) \in All(e) \cup List
    BY <1>1, <1>2, <1>3
  <1>6. Usable(f, i) <=> Name(f, i) # NoList
    BY <1>3, <1>4, <1>5 DEF Name
  <1>7. ASSUME NEW l \in List, Name(f, i) \in Range(e[l]) \cup {l}
        PROVE  f[i].seq = l /\ Usable(f, i)
    <2>1. Usable(f, i)
      BY <1>3, <1>4, <1>6, <1>7
    <2>2. f[i].seq \in List /\ Name(f, i) \in Range(e[f[i].seq]) \cup {f[i].seq}
      BY <1>1, <1>2, <2>1
    <2>3. Range(e[l]) \subseteq All(e) /\ Range(e[f[i].seq]) \subseteq All(e)
      BY <1>3, <2>2
    <2> QED BY <1>3, <1>7, <2>1, <2>2, <2>3
  <1> QED BY <1>2, <1>5, <1>6, <1>7 DEF Name

\* What the iterators name after a step, when the elements in N are gone, and
\* when iterator k is given p.
LeftNames(f, g, N) ==
  \A i \in Iter : Name(g, i) = IF Name(f, i) \in N THEN NoList ELSE Name(f, i)

GivenName(f, g, k, p) ==
  \A i \in Iter : Name(g, i) = IF i = k THEN p ELSE Name(f, i)

SameNames(f, g) == \A i \in Iter : Name(g, i) = Name(f, i)

\* The record of an iterator.
IteratorType == [seq : List \cup {NoList}, ok : BOOLEAN, base : Node \cup List \cup {NoList}]

\* l becomes s, and iterators to what it loses are invalidated.
LEMMA Erased ==
  ASSUME NEW e, NEW f, State(e, f), NEW l \in List, NEW M, NEW N, NEW s,
         N \subseteq Range(e[l]), \A x \in Range(e[l]) : x \in M <=> x \in N,
         l \notin M, OneChanged(e, l, s), Range(e[l]) \ N \subseteq Range(s),
         NEW d, d = [e EXCEPT ![l] = s], NEW g, g = Invalidate(f, l, M)
  PROVE  State(d, g) /\ LeftNames(f, g, N)
  <1>1. Good(e) /\ Sits(e, f)
    BY DEF State
  <1>2. Good(d) /\ d[l] = s /\ \A m \in List : m # l => d[m] = e[m]
    <2>1. Became([e EXCEPT ![l] = s], e, l, s)
      BY <1>1, OneChangedGood
    <2> QED BY <2>1 DEF Became
  <1>3. \A i \in Iter : f[i] \in IteratorType
    BY DEF State, ItTypes, IteratorType
  <1>4. ItTypes(g)
    BY <1>3 DEF Invalidate, ItTypes, IteratorType
  <1>5. ASSUME NEW i \in Iter
        PROVE  /\ Usable(g, i) => g[i].base \in Range(d[g[i].seq]) \cup {g[i].seq}
               /\ Name(g, i) = IF Name(f, i) \in N THEN NoList ELSE Name(f, i)
    <2> PICK r \in IteratorType : r = f[i]
      BY <1>3
    <2>1. /\ Usable(f, i) <=> r.seq # NoList /\ r.ok
          /\ Name(f, i) = IF r.seq # NoList /\ r.ok THEN r.base ELSE NoList
      BY DEF Usable, Name
    <2>2. /\ r.seq # NoList /\ r.ok => r.seq \in List /\ r.base \in Range(e[r.seq]) \cup {r.seq}
          /\ \A m \in List : Name(f, i) \in Range(e[m]) \cup {m} => r.seq = m
      BY <1>1, <2>1, NameSits DEF Sits
    <2>3. NoList \notin N /\ l \notin N
      BY <1>1, Elements1
    <2>4. CASE r.seq = l /\ r.base \in M
      <3>1. g[i] = [r EXCEPT !.ok = FALSE]
        BY <2>4 DEF Invalidate
      <3>2. ~Usable(g, i) /\ Name(g, i) = NoList
        BY <3>1 DEF Usable, Name, IteratorType
      <3>3. Name(f, i) = NoList \/ Name(f, i) \in N
        BY <2>1, <2>2, <2>4
      <3> QED BY <3>2, <3>3
    <2>5. CASE ~(r.seq = l /\ r.base \in M)
      <3>1. g[i] = r
        BY <2>5 DEF Invalidate
      <3>2. Name(g, i) = Name(f, i)
        BY <3>1 DEF Usable, Name
      <3>3. Name(f, i) \notin N
        BY <2>1, <2>2, <2>3, <2>5
      <3>4. ASSUME r.seq # NoList, r.ok
            PROVE  r.base \in Range(d[r.seq]) \cup {r.seq}
        <4>1. CASE r.seq = l
          <5>1. r.base \in Range(e[l]) \cup {l} /\ r.base \notin N
            BY <2>1, <2>2, <3>3, <3>4, <4>1
          <5> QED BY <1>2, <4>1, <5>1
        <4>2. CASE r.seq # l
          BY <1>2, <2>2, <3>4, <4>2
        <4> QED BY <4>1, <4>2
      <3> QED BY <3>1, <3>2, <3>3, <3>4 DEF Usable
    <2> QED BY <2>4, <2>5
  <1> QED BY <1>2, <1>4, <1>5 DEF State, Sits, LeftNames

\* Nothing is erased.
LEMMA Extended ==
  ASSUME NEW e, NEW f, State(e, f), NEW l \in List, NEW s,
         OneChanged(e, l, s), Range(e[l]) \subseteq Range(s),
         NEW d, d = [e EXCEPT ![l] = s]
  PROVE  State(d, f)
  <1>1. Good(e) /\ Sits(e, f) /\ ItTypes(f)
    BY DEF State
  <1>2. Good(d) /\ d[l] = s /\ \A m \in List : m # l => d[m] = e[m]
    <2>1. Became([e EXCEPT ![l] = s], e, l, s)
      BY <1>1, OneChangedGood
    <2> QED BY <2>1 DEF Became
  <1>3. \A i \in Iter : Usable(f, i) => f[i].seq \in List
    BY NameSits
  <1>4. Sits(d, f)
    BY <1>1, <1>2, <1>3 DEF Sits
  <1> QED BY <1>1, <1>2, <1>4 DEF State

\* An iterator is given a place.
LEMMA SetNames ==
  ASSUME NEW e, NEW f, State(e, f), NEW k \in Iter, NEW l \in List,
         NEW p \in Range(e[l]) \cup {l}, NEW g, g = Set(f, k, l, p)
  PROVE  State(e, g) /\ GivenName(f, g, k, p)
  <1>1. Good(e) /\ Sits(e, f)
    BY DEF State
  <1>2. f \in [Iter -> IteratorType]
    BY DEF State, ItTypes, IteratorType
  <1>3. p \in Node \cup List
    BY <1>1, Elements1
  <1> PICK r : r = [seq |-> l, ok |-> TRUE, base |-> p]
    OBVIOUS
  <1>4. r \in IteratorType
    BY <1>3 DEF IteratorType
  <1>5. g \in [Iter -> IteratorType] /\ g[k] = r /\ \A i \in Iter : i # k => g[i] = f[i]
    BY <1>2, <1>4 DEF Set
  <1>6. ItTypes(g)
    BY <1>5 DEF ItTypes, IteratorType
  <1>7. Sits(e, g)
    BY <1>1, <1>5 DEF Sits, Usable
  <1>8. l # NoList
    BY SafeListAssumption
  <1>9. GivenName(f, g, k, p)
    BY <1>5, <1>8 DEF GivenName, Name, Usable
  <1> QED BY <1>1, <1>6, <1>7, <1>9 DEF State

\* An iterator is made singular.
LEMMA ResetNames ==
  ASSUME NEW e, NEW f, State(e, f), NEW k \in Iter,
         NEW g, g = [f EXCEPT ![k] = [seq |-> NoList, ok |-> FALSE, base |-> NoList]]
  PROVE  State(e, g) /\ GivenName(f, g, k, NoList)
  <1>1. Good(e) /\ Sits(e, f)
    BY DEF State
  <1>2. f \in [Iter -> IteratorType]
    BY DEF State, ItTypes, IteratorType
  <1> PICK r : r = [seq |-> NoList, ok |-> FALSE, base |-> NoList]
    OBVIOUS
  <1>3. r \in IteratorType
    BY DEF IteratorType
  <1>4. g \in [Iter -> IteratorType] /\ g[k] = r /\ \A i \in Iter : i # k => g[i] = f[i]
    BY <1>2, <1>3
  <1>5. ItTypes(g)
    BY <1>4 DEF ItTypes, IteratorType
  <1>6. Sits(e, g)
    BY <1>1, <1>4 DEF Sits, Usable
  <1>7. GivenName(f, g, k, NoList)
    BY <1>4 DEF GivenName, Name, Usable
  <1> QED BY <1>1, <1>5, <1>6, <1>7 DEF State

\* Singular iterators are detached; and those that are left are revived, of which
\* none was singular.
LEMMA Detached ==
  ASSUME NEW e, NEW f, State(e, f), NEW l \in List,
         NEW g, g = DetachSingular(f, l) \/ g = RevalidateSingular(DetachSingular(f, l), l)
  PROVE  State(e, g) /\ SameNames(f, g)
  <1>1. Good(e) /\ Sits(e, f)
    BY DEF State
  <1>2. \A i \in Iter : f[i] \in IteratorType
    BY DEF State, ItTypes, IteratorType
  <1>3. NoList \notin List
    BY SafeListAssumption
  <1> PICK h : h = DetachSingular(f, l)
    OBVIOUS
  <1>4. ASSUME NEW i \in Iter
        PROVE  /\ h[i] = IF f[i].seq = l /\ ~f[i].ok THEN [f[i] EXCEPT !.seq = NoList]
                         ELSE f[i]
               /\ h[i] \in IteratorType
               /\ h[i].seq = l => h[i].ok
    <2> PICK r \in IteratorType : r = f[i]
      BY <1>2
    <2>1. h[i] = IF r.seq = l /\ ~r.ok THEN [r EXCEPT !.seq = NoList] ELSE r
      BY DEF DetachSingular
    <2> QED BY <1>3, <2>1 DEF IteratorType
  <1>5. \A i \in Iter : [h[i] EXCEPT !.ok = TRUE] = h[i] \/ h[i].seq # l
    <2> TAKE i \in Iter
    <2> PICK r \in IteratorType : r = h[i]
      BY <1>4
    <2>1. r.ok = TRUE => [r EXCEPT !.ok = TRUE] = r
      BY DEF IteratorType
    <2>2. r.seq = l => r.ok = TRUE
      BY <1>4 DEF IteratorType
    <2> QED BY <2>1, <2>2
  <1>6. \A i \in Iter : g[i] = h[i]
    <2>1. CASE g = DetachSingular(f, l)
      BY <2>1
    <2>2. CASE g = RevalidateSingular(h, l)
      BY <1>5, <2>2 DEF RevalidateSingular
    <2> QED BY <2>1, <2>2
  <1>7. g \in [Iter -> IteratorType]
    <2>1. g = [i \in Iter |-> g[i]]
      BY DEF DetachSingular, RevalidateSingular
    <2> QED BY <1>4, <1>6, <2>1
  <1>8. ASSUME NEW i \in Iter
        PROVE  /\ Usable(g, i) <=> Usable(f, i)
               /\ Usable(f, i) => g[i] = f[i]
    <2> PICK r \in IteratorType : r = f[i]
      BY <1>2
    <2>1. g[i] = IF r.seq = l /\ ~r.ok THEN [r EXCEPT !.seq = NoList] ELSE r
      BY <1>4, <1>6
    <2> QED BY <2>1 DEF Usable, IteratorType
  <1>9. Sits(e, g)
    BY <1>1, <1>8 DEF Sits
  <1>10. SameNames(f, g)
    BY <1>8 DEF SameNames, Name
  <1> QED BY <1>1, <1>7, <1>9, <1>10 DEF State, ItTypes, IteratorType

\* A list is destroyed.
LEMMA Destroyed ==
  ASSUME NEW e, NEW f, State(e, f), NEW l \in List,
         NEW d, d = [e EXCEPT ![l] = << >>], NEW g, g = DetachAll(f, l)
  PROVE  State(d, g) /\ LeftNames(f, g, Range(e[l]) \cup {l})
  <1>1. Good(e) /\ Sits(e, f)
    BY DEF State
  <1>2. OneChanged(e, l, << >>)
    BY ShortLists DEF OneChanged
  <1>3. Good(d) /\ \A m \in List : m # l => d[m] = e[m]
    <2>1. Became([e EXCEPT ![l] = << >>], e, l, << >>)
      BY <1>1, <1>2, OneChangedGood
    <2> QED BY <2>1 DEF Became
  <1>4. \A i \in Iter : f[i] \in IteratorType
    BY DEF State, ItTypes, IteratorType
  <1>5. ItTypes(g)
    BY <1>4 DEF DetachAll, ItTypes, IteratorType
  <1>6. ASSUME NEW i \in Iter
        PROVE  /\ Usable(g, i) => g[i].base \in Range(d[g[i].seq]) \cup {g[i].seq}
               /\ Name(g, i) = IF Name(f, i) \in Range(e[l]) \cup {l} THEN NoList
                               ELSE Name(f, i)
    <2> PICK r \in IteratorType : r = f[i]
      BY <1>4
    <2>1. /\ Usable(f, i) <=> r.seq # NoList /\ r.ok
          /\ Name(f, i) = IF r.seq # NoList /\ r.ok THEN r.base ELSE NoList
      BY DEF Usable, Name
    <2>2. /\ r.seq # NoList /\ r.ok => r.seq \in List /\ r.base \in Range(e[r.seq]) \cup {r.seq}
          /\ \A m \in List : Name(f, i) \in Range(e[m]) \cup {m} => r.seq = m
      BY <1>1, <2>1, NameSits DEF Sits
    <2>3. CASE r.seq = l
      <3>1. g[i] = [r EXCEPT !.seq = NoList, !.ok = FALSE]
        BY <2>3 DEF DetachAll
      <3>2. ~Usable(g, i) /\ Name(g, i) = NoList
        BY <3>1 DEF Usable, Name, IteratorType
      <3>3. Name(f, i) = NoList \/ Name(f, i) \in Range(e[l]) \cup {l}
        BY <2>1, <2>2, <2>3
      <3> QED BY <3>2, <3>3
    <2>4. CASE r.seq # l
      <3>1. g[i] = r
        BY <2>4 DEF DetachAll
      <3>2. Name(g, i) = Name(f, i) /\ Name(f, i) \notin Range(e[l]) \cup {l}
        BY <2>2, <2>4, <3>1 DEF Usable, Name
      <3>3. r.seq # NoList /\ r.ok => r.base \in Range(d[r.seq]) \cup {r.seq}
        BY <1>3, <2>2, <2>4
      <3> QED BY <3>1, <3>2, <3>3 DEF Usable
    <2> QED BY <2>3, <2>4
  <1> QED BY <1>3, <1>5, <1>6 DEF State, Sits, LeftNames

\* The elements in N go from m to l, and their iterators with them.
LEMMA Moved ==
  ASSUME NEW e, NEW f, State(e, f), NEW l \in List, NEW m \in List,
         NEW N, N \subseteq Range(e[m]),
         NEW d, Good(d), N \subseteq Range(d[l]),
         \A n \in List : Range(e[n]) \ N \subseteq Range(d[n]),
         NEW g, g = Transfer(f, m, l, N)
  PROVE  State(d, g) /\ SameNames(f, g)
  <1>1. Good(e) /\ Sits(e, f)
    BY DEF State
  <1>2. \A i \in Iter : f[i] \in IteratorType
    BY DEF State, ItTypes, IteratorType
  <1>3. ItTypes(g)
    BY <1>2 DEF Transfer, ItTypes, IteratorType
  <1>4. NoList \notin List
    BY SafeListAssumption
  <1>5. ASSUME NEW i \in Iter
        PROVE  /\ Usable(g, i) => g[i].base \in Range(d[g[i].seq]) \cup {g[i].seq}
               /\ Name(g, i) = Name(f, i)
    <2> PICK r \in IteratorType : r = f[i]
      BY <1>2
    <2>1. /\ Usable(f, i) <=> r.seq # NoList /\ r.ok
          /\ Name(f, i) = IF r.seq # NoList /\ r.ok THEN r.base ELSE NoList
      BY DEF Usable, Name
    <2>2. /\ r.seq # NoList /\ r.ok => r.seq \in List /\ r.base \in Range(e[r.seq]) \cup {r.seq}
          /\ \A n \in List : Name(f, i) \in Range(e[n]) \cup {n} => r.seq = n
      BY <1>1, <2>1, NameSits DEF Sits
    <2>3. CASE r.seq = m /\ r.ok /\ r.base \in N
      <3>1. g[i] = [r EXCEPT !.seq = l]
        BY <2>3 DEF Transfer
      <3>2. g[i].seq = l /\ g[i].base = r.base /\ g[i].ok = r.ok
        BY <3>1 DEF IteratorType
      <3>3. Name(g, i) = r.base /\ Name(f, i) = r.base
        BY <1>4, <2>1, <2>3, <3>2 DEF Usable, Name
      <3> QED BY <2>3, <3>2, <3>3
    <2>4. CASE ~(r.seq = m /\ r.ok /\ r.base \in N)
      <3>1. g[i] = r
        BY <2>4 DEF Transfer
      <3>2. Name(g, i) = Name(f, i)
        BY <3>1 DEF Usable, Name
      <3>3. ASSUME r.seq # NoList, r.ok
            PROVE  r.base \in Range(d[r.seq]) \cup {r.seq}
        <4>1. r.seq \in List /\ r.base \in Range(e[r.seq]) \cup {r.seq}
          BY <2>2, <3>3
        <4>2. CASE r.base \in N
          <5>1. r.seq = m
            BY <2>1, <2>2, <3>3, <4>2
          <5> QED BY <2>4, <3>3, <4>2, <5>1
        <4>3. CASE r.base \notin N
          BY <4>1, <4>3
        <4> QED BY <4>2, <4>3
      <3> QED BY <3>1, <3>2, <3>3 DEF Usable
    <2> QED BY <2>3, <2>4
  <1> QED BY <1>3, <1>5 DEF State, Sits, SameNames

-----------------------------------------------------------------------------
(* What the iterators promise *)

\* A step keeps the invariant and the promise.
Keeps == IInv' /\ Promise!Next

LEMMA Facts ==
  ASSUME IInv
  PROVE  /\ Good(elems) /\ ItTypes(it) /\ Sits(elems, it)
         /\ Used = All(elems) /\ Where = [i \in Iter |-> Name(it, i)]
         /\ All(elems) \subseteq Node /\ NoList \notin All(elems)
         /\ All(elems) \cap List = {}
         /\ \A l \in List : /\ ListOf(elems[l]) /\ Range(elems[l]) \subseteq All(elems)
                            /\ l \notin Node /\ l # NoList
  <1>1. Good(elems) /\ ItTypes(it) /\ Sits(elems, it)
    BY DEF IInv, State
  <1>2. Used = All(elems)
    BY DEF Used, Elements, All
  <1>3. Where = [i \in Iter |-> Name(it, i)]
    BY DEF Where, Singular, Name, Usable
  <1>4. /\ All(elems) \subseteq Node /\ NoList \notin All(elems)
        /\ All(elems) \cap List = {}
        /\ \A l \in List : ListOf(elems[l]) /\ Range(elems[l]) \subseteq All(elems)
    BY <1>1, Elements1
  <1> QED BY <1>1, <1>2, <1>3, <1>4, SafeListAssumption

LEMMA FactsNext ==
  ASSUME IInv'
  PROVE  /\ Used' = All(elems') /\ Where' = [i \in Iter |-> Name(it', i)]
         /\ All(elems') \subseteq Node
  <1>1. Good(elems')
    BY DEF IInv, State
  <1>2. Used' = All(elems')
    BY DEF Used, Elements, All
  <1>3. Where' = [i \in Iter |-> Name(it', i)]
    BY DEF Where, Singular, Name, Usable
  <1> QED BY <1>1, <1>2, <1>3, Elements1

\* Elements come and go.
LEMMA AlterStep ==
  ASSUME IInv, IInv', LeftNames(it, it', All(elems) \ All(elems'))
  PROVE  Promise!Next
  <1>1. Used = All(elems) /\ Where = [i \in Iter |-> Name(it, i)]
    BY Facts
  <1>2. /\ Used' = All(elems') /\ Where' = [i \in Iter |-> Name(it', i)]
        /\ All(elems') \subseteq Node
    BY FactsNext
  <1>3. Where' = [i \in Iter |-> IF Where[i] \in Used \ Used' THEN NoList ELSE Where[i]]
    BY <1>1, <1>2 DEF LeftNames
  <1>4. Promise!Alter
    BY <1>2, <1>3 DEF Promise!Alter, Promise!Left
  <1> QED BY <1>4 DEF Promise!Next

\* The same, with a result for k.
LEMMA GiveStep ==
  ASSUME IInv, IInv', NEW k \in Iter, NEW p, p \in All(elems') \cup List,
         NEW g, LeftNames(it, g, All(elems) \ All(elems')), GivenName(g, it', k, p)
  PROVE  Promise!Next
  <1>1. Used = All(elems) /\ Where = [i \in Iter |-> Name(it, i)]
    BY Facts
  <1>2. /\ Used' = All(elems') /\ Where' = [i \in Iter |-> Name(it', i)]
        /\ All(elems') \subseteq Node
    BY FactsNext
  <1>3. Where' = [i \in Iter |-> IF i = k THEN p
                                 ELSE IF Where[i] \in Used \ Used' THEN NoList
                                 ELSE Where[i]]
    BY <1>1, <1>2 DEF LeftNames, GivenName
  <1>4. Promise!AlterAndAssign(k)
    BY <1>2, <1>3 DEF Promise!AlterAndAssign, Promise!Left
  <1> QED BY <1>4 DEF Promise!Next

\* The program gives k a value.
LEMMA AssignStep ==
  ASSUME IInv, IInv', UNCHANGED elems, NEW k \in Iter,
         NEW p, p \in All(elems) \cup List \cup {NoList}, GivenName(it, it', k, p)
  PROVE  Promise!Next
  <1>1. Used = All(elems) /\ Where = [i \in Iter |-> Name(it, i)]
    BY Facts
  <1>2. Used' = All(elems') /\ Where' = [i \in Iter |-> Name(it', i)]
    BY FactsNext
  <1>3. Where' = [Where EXCEPT ![k] = p]
    BY <1>1, <1>2 DEF GivenName
  <1>4. Promise!Assign(k)
    BY <1>1, <1>2, <1>3 DEF Promise!Assign
  <1> QED BY <1>4 DEF Promise!Next

\* Nothing that the iterators name has changed.
LEMMA SameStep ==
  ASSUME IInv, IInv', All(elems') = All(elems), SameNames(it, it')
  PROVE  Promise!Next
  <1>1. LeftNames(it, it', All(elems) \ All(elems'))
    BY DEF LeftNames, SameNames
  <1> QED BY <1>1, AlterStep

\* An iterator that the checks accept, and where it is.
LEMMA Accepted ==
  ASSUME IInv, NEW i \in Iter, ~Singular(i)
  PROVE  /\ Usable(it, i) /\ it[i].seq \in List
         /\ it[i].base \in Range(elems[it[i].seq]) \cup {it[i].seq}
         /\ it[i].ok = TRUE /\ it[i] \in IteratorType
         /\ \A l \in List : it[i].base \in Range(elems[l]) \cup {l} => it[i].seq = l
  <1>1. Usable(it, i)
    BY DEF Singular, Usable
  <1>2. State(elems, it)
    BY DEF IInv
  <1>3. it[i].seq \in List /\ Name(it, i) = it[i].base
    BY <1>1, <1>2, NameSits
  <1>4. \A l \in List : it[i].base \in Range(elems[l]) \cup {l} => it[i].seq = l
    BY <1>2, <1>3, NameSits
  <1>5. it[i].base \in Range(elems[it[i].seq]) \cup {it[i].seq}
    BY <1>1, Facts DEF Sits
  <1>6. it[i] \in IteratorType
    BY Facts DEF ItTypes, IteratorType
  <1>7. it[i].ok = TRUE
    BY <1>1, <1>6 DEF Usable, IteratorType
  <1> QED BY <1>1, <1>3, <1>4, <1>5, <1>6, <1>7

-----------------------------------------------------------------------------
(* The program's use of iterators *)

\* Iterator i is set to a place on l.
LEMMA SetKeeps ==
  ASSUME IInv, NEW i \in Iter, NEW l \in List, NEW p \in Range(elems[l]) \cup {l},
         it' = Set(it, i, l, p), UNCHANGED elems
  PROVE  Keeps
  <1>1. State(elems, it)
    BY DEF IInv
  <1>2. State(elems, Set(it, i, l, p)) /\ GivenName(it, Set(it, i, l, p), i, p)
    BY <1>1, SetNames
  <1>3. State(elems', it') /\ GivenName(it, it', i, p)
    BY <1>2
  <1>4. IInv'
    BY <1>3 DEF IInv
  <1>5. p \in All(elems) \cup List \cup {NoList}
    BY Facts
  <1> QED BY <1>3, <1>4, <1>5, AssignStep DEF Keeps

LEMMA BeginKeeps ==
  ASSUME IInv, NEW i \in Iter, NEW l \in List, Begin(i, l) \/ End(i, l)
  PROVE  Keeps
  <1>1. elems[l] \in Seq(Node)
    BY Facts DEF ListOf
  <1>2. elems[l] # << >> => elems[l][1] \in Range(elems[l])
    BY <1>1 DEF Range
  <1>3. PICK p \in Range(elems[l]) \cup {l} : it' = Set(it, i, l, p)
    BY <1>2 DEF Begin, End
  <1>4. UNCHANGED elems
    BY DEF Begin, End
  <1> QED BY <1>3, <1>4, SetKeeps

LEMMA CopyKeeps ==
  ASSUME IInv, NEW i \in Iter, NEW j \in Iter, Copy(i, j)
  PROVE  Keeps
  <1>1. /\ ~Singular(j) /\ it' = Set(it, i, it[j].seq, it[j].base)
        /\ UNCHANGED elems
    BY DEF Copy
  <1>2. it[j].seq \in List /\ it[j].base \in Range(elems[it[j].seq]) \cup {it[j].seq}
    BY <1>1, Accepted
  <1> QED BY <1>1, <1>2, SetKeeps

LEMMA RenewKeeps ==
  ASSUME IInv, NEW i \in Iter, Renew(i)
  PROVE  Keeps
  <1>1. /\ it' = [it EXCEPT ![i] = [seq |-> NoList, ok |-> FALSE, base |-> NoList]]
        /\ UNCHANGED elems
    BY DEF Renew
  <1>2. State(elems, it)
    BY DEF IInv
  <1>3. State(elems, it') /\ GivenName(it, it', i, NoList)
    BY <1>1, <1>2, ResetNames
  <1>4. IInv'
    BY <1>1, <1>3 DEF IInv
  <1>5. NoList \in All(elems) \cup List \cup {NoList}
    OBVIOUS
  <1> QED BY <1>1, <1>3, <1>4, <1>5, AssignStep DEF Keeps

\* An iterator that is moved along the links stays on its list.
LEMMA StepKeeps ==
  ASSUME IInv, NEW i \in Iter, ~Singular(i), NEW l \in List,
         it[i].base \in Range(elems[l]) \cup {l},
         NEW p \in Range(elems[l]) \cup {l}, it' = [it EXCEPT ![i].base = p],
         UNCHANGED elems
  PROVE  Keeps
  <1>1. it[i].seq = l /\ it[i].ok = TRUE /\ it[i] \in IteratorType
    BY Accepted
  <1> PICK r \in IteratorType : r = it[i]
    BY <1>1
  <1>2. [it[i] EXCEPT !.base = p] = [seq |-> l, ok |-> TRUE, base |-> p]
    <2>1. r.seq = l /\ r.ok = TRUE
      BY <1>1
    <2> PICK q : q = [r EXCEPT !.base = p]
      OBVIOUS
    <2>2. p \in Node \cup List
      BY Facts
    <2>3. q \in IteratorType /\ q.seq = l /\ q.ok = TRUE /\ q.base = p
      BY <2>1, <2>2 DEF IteratorType
    <2>4. q = [seq |-> q.seq, ok |-> q.ok, base |-> q.base]
      BY <2>3 DEF IteratorType
    <2> QED BY <2>3, <2>4
  <1>3. it' = Set(it, i, l, p)
    BY <1>2 DEF Set
  <1> QED BY <1>3, SetKeeps

LEMMA IncrementKeeps ==
  ASSUME IInv, NEW i \in Iter, Increment(i) \/ Decrement(i)
  PROVE  Keeps
  <1>1. ~Singular(i) /\ UNCHANGED elems
    BY DEF Increment, Decrement, Dereferenceable
  <1>2. \A l \in List : /\ elems[l] \in Seq(Node)
                        /\ \A k \in 1 .. Len(elems[l]) : elems[l][k] \in Range(elems[l])
    BY Facts DEF ListOf, Range
  <1>3. CASE Increment(i)
    <2>1. PICK l \in List : \E k \in DOMAIN elems[l] :
            /\ it[i].base = elems[l][k]
            /\ it' = [it EXCEPT ![i].base = IF k = Len(elems[l]) THEN l
                                            ELSE elems[l][k + 1]]
      BY <1>3 DEF Increment
    <2>2. PICK k \in DOMAIN elems[l] :
            /\ it[i].base = elems[l][k]
            /\ it' = [it EXCEPT ![i].base = IF k = Len(elems[l]) THEN l
                                            ELSE elems[l][k + 1]]
      BY <2>1
    <2> PICK n \in Nat : n = Len(elems[l])
      BY <1>2
    <2>3. k \in 1 .. n
      BY <1>2
    <2>4. k # n => k + 1 \in 1 .. n
      BY <2>3
    <2> PICK p : p = IF k = n THEN l ELSE elems[l][k + 1]
      OBVIOUS
    <2>5. p \in Range(elems[l]) \cup {l}
      BY <1>2, <2>4
    <2>6. it[i].base \in Range(elems[l]) \cup {l}
      BY <1>2, <2>2, <2>3
    <2>7. it' = [it EXCEPT ![i].base = p]
      BY <2>2
    <2> QED BY <1>1, <2>5, <2>6, <2>7, StepKeeps
  <1>4. CASE Decrement(i)
    <2>1. PICK l \in List : \E k \in 2 .. Len(elems[l]) + 1 :
            /\ it[i].base = IF k > Len(elems[l]) THEN l ELSE elems[l][k]
            /\ it' = [it EXCEPT ![i].base = elems[l][k - 1]]
      BY <1>4 DEF Decrement
    <2>2. PICK k \in 2 .. Len(elems[l]) + 1 :
            /\ it[i].base = IF k > Len(elems[l]) THEN l ELSE elems[l][k]
            /\ it' = [it EXCEPT ![i].base = elems[l][k - 1]]
      BY <2>1
    <2> PICK n \in Nat : n = Len(elems[l])
      BY <1>2
    <2>3. k - 1 \in 1 .. n /\ (~(k > n) => k \in 1 .. n)
      BY <2>2
    <2>4. elems[l][k - 1] \in Range(elems[l]) \cup {l}
      BY <1>2, <2>3
    <2>5. it[i].base \in Range(elems[l]) \cup {l}
      BY <1>2, <2>2, <2>3
    <2> PICK p : p = elems[l][k - 1]
      OBVIOUS
    <2>6. it' = [it EXCEPT ![i].base = p]
      BY <2>2
    <2> QED BY <1>1, <2>4, <2>5, <2>6, StepKeeps
  <1> QED BY <1>3, <1>4

-----------------------------------------------------------------------------
(* The operations of a list *)

\* l grows to s, and the new elements are in New.
LEMMA GrowKeeps ==
  ASSUME IInv, NEW l \in List, NEW s, ListOf(s), NEW New, New \cap All(elems) = {},
         Range(s) = Range(elems[l]) \cup New
  PROVE  /\ State([elems EXCEPT ![l] = s], it)
         /\ All([elems EXCEPT ![l] = s]) = All(elems) \cup New
  <1> PICK e : e = elems
    OBVIOUS
  <1> PICK d : d = [e EXCEPT ![l] = s]
    OBVIOUS
  <1>1. State(e, it) /\ Good(e) /\ Range(e[l]) \subseteq All(e)
    BY Facts DEF IInv
  <1>2. OneChanged(e, l, s) /\ Range(e[l]) \subseteq Range(s)
    BY DEF OneChanged
  <1>3. State(d, it)
    BY <1>1, <1>2, Extended
  <1>4. Became([e EXCEPT ![l] = s], e, l, s)
    BY <1>1, <1>2, OneChangedGood
  <1>5. All(d) = All(e) \cup New
    BY <1>1, <1>4 DEF Became
  <1> QED BY <1>3, <1>5

LEMMA InsertKeeps ==
  ASSUME IInv, NEW l \in List, NEW i \in Iter, NEW n \in Node, NEW k \in Iter,
         insert(l, i, n, k)
  PROVE  Keeps
  <1> PICK s : s = Placed(elems[l], it[i].base, <<n>>)
    OBVIOUS
  <1>1. n \notin All(elems) /\ ListOf(elems[l]) /\ Range(elems[l]) \subseteq All(elems)
    BY Facts DEF insert
  <1>2. ListOf(<<n>>) /\ Range(<<n>>) = {n}
    BY ShortLists
  <1>3. Range(elems[l]) \cap Range(<<n>>) = {}
    BY <1>1, <1>2
  <1>4. ListOf(s) /\ Range(s) = Range(elems[l]) \cup {n}
    BY <1>1, <1>2, <1>3, PlacedList
  <1>5. {n} \cap All(elems) = {}
    BY <1>1
  <1>6. /\ State([elems EXCEPT ![l] = s], it)
        /\ All([elems EXCEPT ![l] = s]) = All(elems) \cup {n}
    BY <1>4, <1>5, GrowKeeps
  <1>7. elems' = [elems EXCEPT ![l] = s] /\ it' = Set(it, k, l, n)
    BY DEF insert
  <1>8. elems'[l] = s
    BY <1>7, Facts DEF Good
  <1>9. State(elems', it) /\ n \in Range(elems'[l]) \cup {l}
    BY <1>4, <1>6, <1>7, <1>8
  <1>10. State(elems', it') /\ GivenName(it, it', k, n)
    BY <1>7, <1>9, SetNames
  <1>11. IInv'
    BY <1>10 DEF IInv
  <1>12. LeftNames(it, it, All(elems) \ All(elems'))
    BY <1>6, <1>7 DEF LeftNames
  <1>13. n \in All(elems') \cup List
    BY <1>6, <1>7
  <1> QED BY <1>10, <1>11, <1>12, <1>13, GiveStep DEF Keeps

\* A list that grows, where the iterators name what they named.
LEMMA PushStep ==
  ASSUME IInv, NEW l \in List, NEW s, ListOf(s), NEW n \in Node, n \notin All(elems),
         Range(s) = Range(elems[l]) \cup {n}, elems' = [elems EXCEPT ![l] = s],
         it' = it \/ it' = DetachSingular(it, l)
  PROVE  Keeps
  <1>1. {n} \cap All(elems) = {}
    OBVIOUS
  <1>2. /\ State([elems EXCEPT ![l] = s], it)
        /\ All([elems EXCEPT ![l] = s]) = All(elems) \cup {n}
    BY <1>1, GrowKeeps
  <1>3. State(elems', it) /\ All(elems') = All(elems) \cup {n}
    BY <1>2
  <1>4. State(elems', it') /\ SameNames(it, it')
    <2>1. CASE it' = it
      BY <1>3, <2>1 DEF SameNames
    <2>2. CASE it' = DetachSingular(it, l)
      BY <1>3, <2>2, Detached
    <2> QED BY <2>1, <2>2
  <1>5. IInv'
    BY <1>4 DEF IInv
  <1>6. LeftNames(it, it', All(elems) \ All(elems'))
    BY <1>3, <1>4 DEF LeftNames, SameNames
  <1> QED BY <1>5, <1>6, AlterStep DEF Keeps

LEMMA PushKeeps ==
  ASSUME IInv, NEW l \in List, NEW n \in Node,
         push_front(l, n) \/ push_back(l, n) \/ resize_up(l, n)
  PROVE  Keeps
  <1> PICK s : s = elems[l]
    OBVIOUS
  <1>1. /\ ListOf(s) /\ n \notin All(elems) /\ n \notin Range(s)
        /\ ListOf(<<n>>) /\ Range(<<n>>) = {n}
    BY Facts, ShortLists DEF push_front, push_back, resize_up
  <1>2. ListOf(<<n>> \o s) /\ Range(<<n>> \o s) = Range(s) \cup {n}
    <2>1. Range(<<n>>) \cap Range(s) = {}
      BY <1>1
    <2> QED BY <1>1, <2>1, JoinList
  <1>3. ListOf(s \o <<n>>) /\ Range(s \o <<n>>) = Range(s) \cup {n}
    <2>1. Range(s) \cap Range(<<n>>) = {}
      BY <1>1
    <2> QED BY <1>1, <2>1, JoinList
  <1>4. Append(s, n) = s \o <<n>>
    BY <1>1 DEF ListOf
  <1>5. CASE push_front(l, n)
    <2>1. elems' = [elems EXCEPT ![l] = <<n>> \o s] /\ it' = it
      BY <1>5 DEF push_front
    <2> QED BY <1>1, <1>2, <2>1, PushStep
  <1>6. CASE push_back(l, n)
    <2>1. elems' = [elems EXCEPT ![l] = s \o <<n>>] /\ it' = it
      BY <1>4, <1>6 DEF push_back
    <2> QED BY <1>1, <1>3, <2>1, PushStep
  <1>7. CASE resize_up(l, n)
    <2>1. elems' = [elems EXCEPT ![l] = s \o <<n>>] /\ it' = DetachSingular(it, l)
      BY <1>4, <1>7 DEF resize_up
    <2> QED BY <1>1, <1>3, <2>1, PushStep
  <1> QED BY <1>5, <1>6, <1>7

\* l is left with s, and the elements in N are gone; f are the iterators before
\* they are invalidated.
LEMMA ShrinkFacts ==
  ASSUME IInv, NEW l \in List, NEW f, State(elems, f), SameNames(it, f),
         NEW N, N \subseteq Range(elems[l]),
         NEW s, ListOf(s), Range(s) = Range(elems[l]) \ N
  PROVE  /\ State([elems EXCEPT ![l] = s], Invalidate(f, l, N))
         /\ All([elems EXCEPT ![l] = s]) = All(elems) \ N
         /\ LeftNames(it, Invalidate(f, l, N), N)
  <1> PICK e : e = elems
    OBVIOUS
  <1> PICK d : d = [e EXCEPT ![l] = s]
    OBVIOUS
  <1> PICK g : g = Invalidate(f, l, N)
    OBVIOUS
  <1>1. /\ Good(e) /\ Range(e[l]) \subseteq All(e) /\ l \notin N
        /\ \A m \in List : m # l => Range(e[m]) \cap Range(e[l]) = {}
    BY Facts DEF Good
  <1>2. OneChanged(e, l, s) /\ Range(e[l]) \ N \subseteq Range(s)
    BY DEF OneChanged
  <1>3. \A x \in Range(e[l]) : x \in N <=> x \in N
    OBVIOUS
  <1>4. State(d, g) /\ LeftNames(f, g, N)
    BY <1>1, <1>2, <1>3, Erased
  <1>5. Became([e EXCEPT ![l] = s], e, l, s)
    BY <1>1, <1>2, OneChangedGood
  <1>6. All(d) = All(e) \ N
    BY <1>1, <1>5 DEF Became
  <1>7. LeftNames(it, g, N)
    BY <1>4 DEF LeftNames, SameNames
  <1> QED BY <1>4, <1>6, <1>7

LEMMA ShrinkKeeps ==
  ASSUME IInv, NEW l \in List, NEW f, State(elems, f), SameNames(it, f),
         NEW N, N \subseteq Range(elems[l]),
         NEW s, ListOf(s), Range(s) = Range(elems[l]) \ N,
         elems' = [elems EXCEPT ![l] = s], it' = Invalidate(f, l, N)
  PROVE  Keeps
  <1>1. State(elems', it') /\ All(elems') = All(elems) \ N /\ LeftNames(it, it', N)
    BY ShrinkFacts
  <1>2. IInv'
    BY <1>1 DEF IInv
  <1>3. N \subseteq All(elems)
    BY Facts
  <1>4. All(elems) \ All(elems') = N
    BY <1>1, <1>3
  <1>5. LeftNames(it, it', All(elems) \ All(elems'))
    BY <1>1, <1>4
  <1> QED BY <1>2, <1>5, AlterStep DEF Keeps

LEMMA EraseKeeps ==
  ASSUME IInv, NEW l \in List, NEW N, N \subseteq Range(elems[l]), Erase(l, N)
  PROVE  Keeps
  <1> PICK s : s = Without(elems[l], N)
    OBVIOUS
  <1>1. ListOf(elems[l]) /\ State(elems, it) /\ SameNames(it, it)
    BY Facts DEF IInv, SameNames
  <1>2. ListOf(s) /\ Range(s) = Range(elems[l]) \ N
    BY <1>1, WithoutList
  <1>3. elems' = [elems EXCEPT ![l] = s] /\ it' = Invalidate(it, l, N)
    BY DEF Erase
  <1> QED BY <1>1, <1>2, <1>3, ShrinkKeeps

LEMMA RemoveKeeps ==
  ASSUME IInv, NEW l \in List,
         pop_front(l) \/ pop_back(l) \/ \E N \in SUBSET Node : remove(l, N)
  PROVE  Keeps
  <1>1. elems[l] \in Seq(Node)
    BY Facts DEF ListOf
  <1>2. elems[l] # << >> => /\ elems[l][1] \in Range(elems[l])
                            /\ elems[l][Len(elems[l])] \in Range(elems[l])
    BY <1>1 DEF Range
  <1>3. CASE pop_front(l)
    <2>1. {elems[l][1]} \subseteq Range(elems[l]) /\ Erase(l, {elems[l][1]})
      BY <1>2, <1>3 DEF pop_front
    <2> QED BY <2>1, EraseKeeps
  <1>4. CASE pop_back(l)
    <2>1. /\ {elems[l][Len(elems[l])]} \subseteq Range(elems[l])
          /\ Erase(l, {elems[l][Len(elems[l])]})
      BY <1>2, <1>4 DEF pop_back
    <2> QED BY <2>1, EraseKeeps
  <1>5. ASSUME NEW N \in SUBSET Node, remove(l, N) PROVE Keeps
    <2>1. N \subseteq Range(elems[l]) /\ Erase(l, N)
      BY <1>5 DEF remove, Elements
    <2> QED BY <2>1, EraseKeeps
  <1> QED BY <1>3, <1>4, <1>5

\* The result of an erasure is on what is left of l.
LEMMA ShrinkGives ==
  ASSUME IInv, NEW l \in List, NEW N, N \subseteq Range(elems[l]),
         NEW s, ListOf(s), Range(s) = Range(elems[l]) \ N,
         elems' = [elems EXCEPT ![l] = s], NEW k \in Iter,
         NEW p \in Range(s) \cup {l}, it' = Set(Invalidate(it, l, N), k, l, p)
  PROVE  Keeps
  <1> PICK g : g = Invalidate(it, l, N)
    OBVIOUS
  <1>1. State(elems, it) /\ SameNames(it, it)
    BY DEF IInv, SameNames
  <1>2. State(elems', g) /\ All(elems') = All(elems) \ N /\ LeftNames(it, g, N)
    BY <1>1, ShrinkFacts
  <1>3. elems'[l] = s
    BY Facts DEF Good
  <1>4. p \in Range(elems'[l]) \cup {l}
    BY <1>3
  <1>5. State(elems', it') /\ GivenName(g, it', k, p)
    BY <1>2, <1>4, SetNames
  <1>6. IInv'
    BY <1>5 DEF IInv
  <1>7. N \subseteq All(elems)
    BY Facts
  <1>8. All(elems) \ All(elems') = N
    BY <1>2, <1>7
  <1>9. LeftNames(it, g, All(elems) \ All(elems'))
    BY <1>2, <1>8
  <1>10. p \in All(elems') \cup List
    BY <1>4 DEF All
  <1> QED BY <1>5, <1>6, <1>9, <1>10, GiveStep DEF Keeps

LEMMA EraseOneKeeps ==
  ASSUME IInv, NEW l \in List, NEW i \in Iter, NEW k \in Iter, erase(l, i, k)
  PROVE  Keeps
  <1> PICK s : s = elems[l]
    OBVIOUS
  <1> PICK b : b = it[i].base
    OBVIOUS
  <1>1. ListOf(s) /\ s \in Seq(Node)
    BY Facts DEF ListOf
  <1>2. ~Singular(i) /\ b # it[i].seq /\ it[i].seq = l
    BY DEF erase, CanErase, Dereferenceable
  <1>3. b \in Range(s)
    BY <1>2, Accepted
  <1> PICK n \in Nat : n = Len(s)
    BY <1>1
  <1> PICK a : a = Place(s, b)
    OBVIOUS
  <1>4. a \in 1 .. n /\ s[a] = b
    <2>1. a \in 1 .. Len(s) + 1
      BY <1>1, PlaceOf
    <2>2. a = Len(s) + 1 <=> b \notin Range(s)
      BY <1>1, PlaceOf
    <2>3. b \in Range(s) => s[a] = b
      BY <1>1, PlaceOf
    <2> QED BY <1>3, <2>1, <2>2, <2>3
  <1> PICK after : after = SubSeq(s, a + 1, n)
    OBVIOUS
  <1>5. /\ a + 1 \in Nat \ {0} /\ n \in Nat /\ n <= Len(s) /\ a + 1 <= n + 1
    BY <1>4
  <1>6. Part(SubSeq(s, a + 1, n), s, a + 1, n)
    BY <1>1, <1>5, PartList
  <1>7. /\ after \in Seq(Node)
        /\ \A x : x \in Range(after) <=> \E j \in a + 1 .. n : x = s[j]
    BY <1>6 DEF Part, ListOf
  <1>8. after # << >> => after[1] \in Range(after)
    <2>1. after \in Seq(Node)
      BY <1>7
    <2>2. after # << >> => 1 \in DOMAIN after
      BY ONLY <2>1
    <2> QED BY <2>2 DEF Range
  <1>9. \A j \in a + 1 .. n : s[j] \in Range(s) /\ s[j] # b
    <2> TAKE j \in a + 1 .. n
    <2>1. j \in 1 .. n /\ j # a
      BY <1>4
    <2>2. DOMAIN s = 1 .. n
      BY <1>1
    <2> QED BY <1>1, <1>4, <2>1, <2>2 DEF ListOf, Distinct, Range
  <1> PICK w : w = Without(s, {b})
    OBVIOUS
  <1>10. ListOf(w) /\ Range(w) = Range(elems[l]) \ {b}
    BY <1>1, WithoutList
  <1> PICK p : p = IF after = << >> THEN l ELSE after[1]
    OBVIOUS
  <1>11. p \in Range(w) \cup {l}
    <2>1. CASE after = << >>
      BY <2>1
    <2>2. CASE after # << >>
      <3>1. p \in Range(after)
        BY <1>8, <2>2
      <3>2. p \in Range(s) /\ p # b
        BY <1>7, <1>9, <3>1
      <3> QED BY <1>10, <3>2
    <2> QED BY <2>1, <2>2
  <1>12. /\ elems' = [elems EXCEPT ![l] = w]
         /\ it' = Set(Invalidate(it, l, {b}), k, l, p)
    BY DEF erase
  <1>13. {b} \subseteq Range(elems[l])
    BY <1>3
  <1> QED BY <1>10, <1>11, <1>12, <1>13, ShrinkGives

\* A range that the checks accept is a part of its list, up to its end.
LEMMA RangeFacts ==
  ASSUME IInv, NEW l \in List, NEW i \in Iter, NEW j \in Iter, IsRange(l, i, j)
  PROVE  /\ ListOf(Between(l, i, j)) /\ InRange(l, i, j) \subseteq Range(elems[l])
         /\ it[j].base \in (Range(elems[l]) \cup {l}) \ InRange(l, i, j)
  <1> PICK s : s = elems[l]
    OBVIOUS
  <1> PICK p : p = it[j].base
    OBVIOUS
  <1> PICK a : a = Place(s, it[i].base)
    OBVIOUS
  <1> PICK b : b = Place(s, p)
    OBVIOUS
  <1>1. ListOf(s) /\ s \in Seq(Node) /\ Range(s) \subseteq Node /\ l \notin Node
    BY Facts DEF ListOf
  <1>2. ~Singular(j) /\ it[j].seq = l /\ a <= b
    BY DEF IsRange, CanInsert
  <1>3. p \in Range(s) \cup {l}
    BY <1>2, Accepted
  <1> PICK n \in Nat : n = Len(s)
    BY <1>1
  <1>4. a \in 1 .. n + 1
    BY <1>1, PlaceOf
  <1>5. b \in 1 .. n + 1 /\ \A k \in 1 .. n : s[k] = p => b = k
    BY <1>1, PlaceOf
  <1>6. /\ a \in Nat \ {0} /\ b - 1 \in Nat /\ b - 1 <= Len(s) /\ a <= (b - 1) + 1
    BY <1>2, <1>4, <1>5
  <1>7. Part(SubSeq(s, a, b - 1), s, a, b - 1)
    BY <1>1, <1>6, PartList
  <1>8. Between(l, i, j) = SubSeq(s, a, b - 1)
    BY DEF Between
  <1>9. /\ ListOf(Between(l, i, j))
        /\ \A x : x \in InRange(l, i, j) <=> \E k \in a .. b - 1 : x = s[k]
    BY <1>7, <1>8 DEF Part, InRange
  <1>10. \A k \in a .. b - 1 : k \in 1 .. n /\ k # b
    BY <1>4, <1>5
  <1>11. \A k \in 1 .. n : s[k] \in Range(s)
    BY <1>1 DEF Range
  <1>12. InRange(l, i, j) \subseteq Range(s)
    BY <1>9, <1>10, <1>11
  <1>13. p \notin InRange(l, i, j)
    BY <1>5, <1>9, <1>10
  <1> QED BY <1>3, <1>9, <1>12, <1>13

LEMMA EraseRangeKeeps ==
  ASSUME IInv, NEW l \in List, NEW i \in Iter, NEW j \in Iter, NEW k \in Iter,
         erase_range(l, i, j, k)
  PROVE  Keeps
  <1> PICK N : N = InRange(l, i, j)
    OBVIOUS
  <1> PICK p : p = it[j].base
    OBVIOUS
  <1> PICK w : w = Without(elems[l], N)
    OBVIOUS
  <1>1. IsRange(l, i, j)
    BY DEF erase_range
  <1>2. N \subseteq Range(elems[l]) /\ p \in (Range(elems[l]) \cup {l}) \ N
    BY <1>1, RangeFacts
  <1>3. ListOf(w) /\ Range(w) = Range(elems[l]) \ N
    BY Facts, WithoutList
  <1>4. p \in Range(w) \cup {l}
    BY <1>2, <1>3
  <1>5. /\ elems' = [elems EXCEPT ![l] = w]
        /\ it' = Set(Invalidate(it, l, N), k, l, p)
    BY DEF erase_range
  <1> QED BY <1>2, <1>3, <1>4, <1>5, ShrinkGives

LEMMA ResizeKeeps ==
  ASSUME IInv, NEW l \in List, NEW size \in 0 .. Len(elems[l]), resize(l, size)
  PROVE  Keeps
  <1> PICK s : s = elems[l]
    OBVIOUS
  <1>1. ListOf(s) /\ s \in Seq(Node)
    BY Facts DEF ListOf
  <1> PICK n \in Nat : n = Len(s)
    BY <1>1
  <1> PICK N : N = {s[k] : k \in (size + 1) .. n}
    OBVIOUS
  <1> PICK w : w = SubSeq(s, 1, size)
    OBVIOUS
  <1>2. /\ elems' = [elems EXCEPT ![l] = w]
        /\ it' = Invalidate(DetachSingular(it, l), l, N)
    BY DEF resize
  <1>3. size + 1 \in 1 .. n + 1 /\ (size + 1) - 1 = size
    OBVIOUS
  <1>4. Halves(w, SubSeq(s, size + 1, n), s)
    <2>1. Halves(SubSeq(s, 1, (size + 1) - 1), SubSeq(s, size + 1, Len(s)), s)
      BY <1>1, <1>3, SplitList
    <2> QED BY <1>3, <2>1
  <1>5. Part(SubSeq(s, size + 1, n), s, size + 1, n)
    <2>1. /\ size + 1 \in Nat \ {0} /\ n \in Nat /\ n <= Len(s)
          /\ size + 1 <= n + 1
      BY <1>3
    <2> QED BY <1>1, <2>1, PartList
  <1>6. Range(SubSeq(s, size + 1, n)) = N
    BY <1>5 DEF Part
  <1>7. ListOf(w) /\ Range(w) = Range(elems[l]) \ N /\ N \subseteq Range(elems[l])
    BY <1>4, <1>6 DEF Halves
  <1> PICK f : f = DetachSingular(it, l)
    OBVIOUS
  <1>8. State(elems, it)
    BY DEF IInv
  <1>9. State(elems, f) /\ SameNames(it, f)
    BY <1>8, Detached
  <1>10. it' = Invalidate(f, l, N)
    BY <1>2
  <1> QED BY <1>2, <1>7, <1>9, <1>10, ShrinkKeeps

LEMMA ResizeThrowsKeeps ==
  ASSUME IInv, NEW l \in List, resize_throws(l)
  PROVE  Keeps
  <1>1. /\ it' = RevalidateSingular(DetachSingular(it, l), l)
        /\ elems' = elems
    BY DEF resize_throws
  <1>2. State(elems, it)
    BY DEF IInv
  <1>3. State(elems, it') /\ SameNames(it, it')
    BY <1>1, <1>2, Detached
  <1>4. IInv'
    BY <1>1, <1>3 DEF IInv
  <1> QED BY <1>1, <1>3, <1>4, SameStep DEF Keeps

\* The program gives a list other elements, or none.
LEMMA ReassignKeeps ==
  ASSUME IInv, NEW l \in List, NEW k \in Nat, NEW s \in [1 .. k -> Node],
         Reassign(l, s)
  PROVE  Keeps
  <1> PICK e : e = elems
    OBVIOUS
  <1> PICK N : N = Range(e[l])
    OBVIOUS
  <1>1. s \in Seq(Node) /\ Len(s) = k /\ DOMAIN s = 1 .. k
    OBVIOUS
  <1>2. /\ \A j \in 1 .. k : IF j <= Len(e[l]) THEN s[j] = e[l][j] ELSE s[j] \notin All(e)
        /\ \A j, m \in 1 .. k : s[j] = s[m] => j = m
        /\ elems' = [e EXCEPT ![l] = s] /\ it' = Invalidate(it, l, Node)
    BY <1>1, Facts DEF Reassign
  <1>3. ListOf(s)
    BY <1>1, <1>2 DEF ListOf, Distinct
  <1>4. /\ State(e, it) /\ Good(e) /\ ListOf(e[l]) /\ e[l] \in Seq(Node) /\ l \notin Node
        /\ N \subseteq All(e) /\ All(e) \subseteq Node
    BY Facts DEF IInv, ListOf
  <1>5. \A j \in 1 .. k : s[j] \in N \/ s[j] \notin All(e)
    <2> TAKE j \in 1 .. k
    <2>1. CASE j <= Len(e[l])
      <3>1. j \in DOMAIN e[l]
        BY <1>4, <2>1
      <3> QED BY <1>2, <2>1, <3>1 DEF Range
    <2>2. CASE ~(j <= Len(e[l]))
      BY <1>2, <2>2
    <2> QED BY <2>1, <2>2
  <1>6. OneChanged(e, l, s)
    BY <1>1, <1>3, <1>5 DEF OneChanged, Range
  <1>7. /\ \A x \in Range(e[l]) : x \in Node <=> x \in N
        /\ N \subseteq Range(e[l]) /\ Range(e[l]) \ N \subseteq Range(s)
    BY <1>4
  <1>8. State(elems', it') /\ LeftNames(it, it', N)
    BY <1>2, <1>4, <1>6, <1>7, Erased
  <1>9. IInv'
    BY <1>8 DEF IInv
  <1>10. Became([e EXCEPT ![l] = s], e, l, s)
    BY <1>4, <1>6, OneChangedGood
  <1>11. All(e) \ N \subseteq All(elems')
    BY <1>2, <1>10 DEF Became
  <1>12. Used = All(e) /\ Where = [i \in Iter |-> Name(it, i)]
    BY Facts
  <1>13. /\ Used' = All(elems') /\ Where' = [i \in Iter |-> Name(it', i)]
         /\ All(elems') \subseteq Node
    BY <1>9, FactsNext
  <1>14. Where' = [i \in Iter |-> IF Where[i] \in N THEN NoList ELSE Where[i]]
    BY <1>8, <1>12, <1>13 DEF LeftNames
  <1>15. Promise!Replace(N)
    BY <1>4, <1>11, <1>12, <1>13, <1>14 DEF Promise!Replace, Promise!Left
  <1>16. N \in SUBSET Used
    BY <1>4, <1>12
  <1> QED BY <1>9, <1>15, <1>16 DEF Keeps, Promise!Next

\* A list is destroyed.
LEMMA RecreateKeeps ==
  ASSUME IInv, NEW l \in List, Recreate(l)
  PROVE  Keeps
  <1> PICK e : e = elems
    OBVIOUS
  <1> PICK N : N = Range(e[l])
    OBVIOUS
  <1>1. elems' = [e EXCEPT ![l] = << >>] /\ it' = DetachAll(it, l)
    BY DEF Recreate
  <1>2. State(e, it) /\ Good(e) /\ N \subseteq All(e)
    BY Facts DEF IInv
  <1>3. State(elems', it') /\ LeftNames(it, it', N \cup {l})
    BY <1>1, <1>2, Destroyed
  <1>4. IInv'
    BY <1>3 DEF IInv
  <1>5. OneChanged(e, l, << >>) /\ Range(<< >>) = {}
    BY ShortLists DEF OneChanged
  <1>6. Became([e EXCEPT ![l] = << >>], e, l, << >>)
    BY <1>2, <1>5, OneChangedGood
  <1>7. All(elems') = All(e) \ N
    BY <1>1, <1>5, <1>6 DEF Became
  <1>8. Used = All(e) /\ Where = [i \in Iter |-> Name(it, i)]
    BY Facts
  <1>9. Used' = All(elems') /\ Where' = [i \in Iter |-> Name(it', i)]
    BY <1>4, FactsNext
  <1>10. Where' = [i \in Iter |-> IF Where[i] \in N \cup {l} THEN NoList ELSE Where[i]]
    BY <1>3, <1>8, <1>9 DEF LeftNames
  <1>11. Promise!Destroy(l, N)
    BY <1>2, <1>7, <1>8, <1>9, <1>10 DEF Promise!Destroy, Promise!Left
  <1>12. N \in SUBSET Used
    BY <1>2, <1>8
  <1> QED BY <1>4, <1>11, <1>12 DEF Keeps, Promise!Next

-----------------------------------------------------------------------------
(* Two lists *)

\* The elements of s go from m to l, where p is, and so do their iterators.
LEMMA SpliceKeeps ==
  ASSUME IInv, NEW l \in List, NEW m \in List, NEW p \in Range(elems[l]) \cup {l},
         NEW s, ListOf(s), Range(s) \subseteq Range(elems[m]), Splice(l, p, m, s)
  PROVE  Keeps
  <1> PICK e : e = elems
    OBVIOUS
  <1> PICK N : N = Range(s)
    OBVIOUS
  <1> PICK w : w = Without(e[m], N)
    OBVIOUS
  <1> PICK c : c = [e EXCEPT ![m] = w]
    OBVIOUS
  <1>1. /\ State(e, it) /\ Good(e) /\ N \subseteq Range(e[m])
        /\ \A n \in List : ListOf(e[n]) /\ Range(e[n]) \subseteq All(e) /\ n \notin Node
        /\ All(e) \subseteq Node
        /\ \A n \in List : n # m => Range(e[n]) \cap Range(e[m]) = {}
    BY Facts DEF IInv, Good
  <1>2. /\ it' = Transfer(it, m, l, N)
        /\ elems' = IF p \in N THEN e ELSE [c EXCEPT ![l] = Placed(c[l], p, s)]
    BY <1>1 DEF Splice, Good
  <1>3. ListOf(w) /\ Range(w) = Range(e[m]) \ N
    BY <1>1, WithoutList
  <1>4. /\ Good(elems') /\ N \subseteq Range(elems'[l]) /\ All(elems') = All(e)
        /\ \A n \in List : Range(e[n]) \ N \subseteq Range(elems'[n])
    <2>1. CASE p \in N
      <3>1. p \in Range(e[m]) /\ p # l
        BY <1>1, <2>1
      <3>2. p \in Range(e[l])
        BY <3>1
      <3>3. l = m
        BY <1>1, <3>1, <3>2
      <3>4. elems' = e
        BY <1>2, <2>1
      <3> QED BY <1>1, <3>3, <3>4
    <2>2. CASE p \notin N
      <3>1. OneChanged(e, m, w)
        BY <1>3 DEF OneChanged
      <3>2. Became([e EXCEPT ![m] = w], e, m, w)
        BY <1>1, <3>1, OneChangedGood
      <3>3. /\ Good(c) /\ c[m] = w /\ \A n \in List : n # m => c[n] = e[n]
            /\ All(c) = All(e) \ N
        BY <1>1, <1>3, <3>2 DEF Became
      <3> PICK v : v = Placed(c[l], p, s)
        OBVIOUS
      <3>4. ListOf(c[l]) /\ Range(c[l]) \subseteq All(c)
        BY <3>3, Elements1
      <3>5. Range(c[l]) \cap Range(s) = {}
        BY <3>3, <3>4
      <3>6. ListOf(v) /\ Range(v) = Range(c[l]) \cup N
        BY <3>4, <3>5, PlacedList
      <3>7. OneChanged(c, l, v)
        BY <3>3, <3>6 DEF OneChanged
      <3>a. Good(c)
        BY <3>3
      <3>8. Became([c EXCEPT ![l] = v], c, l, v)
        BY ONLY <3>a, <3>7, l \in List, OneChangedGood, ZenonT(30)
      <3>9. elems' = [c EXCEPT ![l] = v]
        BY <1>2, <2>2
      <3>10. /\ Good(elems') /\ elems'[l] = v
             /\ \A n \in List : n # l => elems'[n] = c[n]
             /\ All(elems') = (All(c) \ Range(c[l])) \cup Range(v)
        BY <3>8, <3>9 DEF Became
      <3>11. All(elems') = All(e)
        <4>1. Range(v) = Range(c[l]) \cup N /\ Range(c[l]) \subseteq All(c)
          BY <3>4, <3>6
        <4>2. All(c) = All(e) \ N /\ N \subseteq All(e)
          BY <1>1, <3>3
        <4>3. All(elems') = (All(c) \ Range(c[l])) \cup Range(v)
          BY <3>10
        <4> QED BY ONLY <4>1, <4>2, <4>3
      <3>12. \A n \in List : Range(e[n]) \ N \subseteq Range(c[n])
        BY <1>3, <3>3
      <3>13. \A n \in List : Range(c[n]) \subseteq Range(elems'[n])
        BY <3>6, <3>10
      <3> QED BY <3>6, <3>10, <3>11, <3>12, <3>13
    <2> QED BY <2>1, <2>2
  <1>5. State(elems', it') /\ SameNames(it, it')
    <2> PICK d : d = elems'
      OBVIOUS
    <2> PICK g : g = it'
      OBVIOUS
    <2> PICK f : f = it
      OBVIOUS
    <2>1. State(e, f) /\ g = Transfer(f, m, l, N)
      BY <1>1, <1>2
    <2>2. N \subseteq Range(e[m]) /\ Good(d) /\ N \subseteq Range(d[l])
      BY <1>1, <1>4
    <2>3. \A n \in List : Range(e[n]) \ N \subseteq Range(d[n])
      BY <1>4
    <2>4. State(d, g) /\ SameNames(f, g)
      BY ONLY <2>1, <2>2, <2>3, l \in List, m \in List, Moved, ZenonT(30)
    <2> QED BY <2>4
  <1>6. IInv'
    BY <1>5 DEF IInv
  <1> QED BY <1>4, <1>5, <1>6, SameStep DEF Keeps

LEMMA SplicesKeep ==
  ASSUME IInv, NEW l \in List, NEW m \in List, NEW i \in Iter,
         \/ splice(l, i, m)
         \/ \E j \in Iter : splice_one(l, i, m, j)
         \/ \E j, k \in Iter : splice_range(l, i, m, j, k)
  PROVE  Keeps
  <1>1. CanInsert(i, l)
    BY DEF splice, splice_one, splice_range
  <1> PICK p : p = it[i].base
    OBVIOUS
  <1>2. p \in Range(elems[l]) \cup {l}
    BY <1>1, Accepted DEF CanInsert
  <1>3. ListOf(elems[m]) /\ Range(elems[m]) \subseteq Node
    BY Facts
  <1>4. CASE splice(l, i, m)
    <2>1. Splice(l, p, m, elems[m])
      BY <1>4 DEF splice
    <2> QED BY <1>2, <1>3, <2>1, SpliceKeeps
  <1>5. ASSUME NEW j \in Iter, splice_one(l, i, m, j) PROVE Keeps
    <2> PICK b : b = it[j].base
      OBVIOUS
    <2>1. ~Singular(j) /\ b # m /\ it[j].seq = m /\ Splice(l, p, m, <<b>>)
      BY <1>5 DEF splice_one, CanErase, Dereferenceable
    <2>2. b \in Range(elems[m])
      BY <2>1, Accepted
    <2>3. ListOf(<<b>>) /\ Range(<<b>>) \subseteq Range(elems[m])
      BY <1>3, <2>2, ShortLists
    <2> QED BY <1>2, <2>1, <2>3, SpliceKeeps
  <1>6. ASSUME NEW j \in Iter, NEW k \in Iter, splice_range(l, i, m, j, k) PROVE Keeps
    <2> PICK s : s = Between(m, j, k)
      OBVIOUS
    <2>1. IsRange(m, j, k) /\ Splice(l, p, m, s)
      BY <1>6 DEF splice_range
    <2>2. ListOf(s) /\ Range(s) \subseteq Range(elems[m])
      BY <2>1, RangeFacts DEF InRange
    <2> QED BY <1>2, <2>1, <2>2, SpliceKeeps
  <1> QED BY <1>4, <1>5, <1>6

LEMMA SwapKeeps ==
  ASSUME ~SwapsEnds, IInv, NEW l \in List, NEW m \in List, swap(l, m)
  PROVE  Keeps
  <1> PICK e : e = elems
    OBVIOUS
  <1>1. /\ e \in [List -> Seq(Node)] /\ \A n \in List : Distinct(e[n])
        /\ \A n, o \in List : n # o => Range(e[n]) \cap Range(e[o]) = {}
    BY Facts DEF Good
  <1>2. /\ \A i \in Iter : ~Singular(i) => it[i].base \notin {l, m}
        /\ elems' = [e EXCEPT ![l] = e[m], ![m] = e[l]]
        /\ it' = [i \in Iter |->
                    IF it[i].seq \notin {l, m} THEN it[i]
                    ELSE [it[i] EXCEPT !.seq = IF @ = l THEN m ELSE l]]
    BY DEF swap
  <1>3. /\ elems' \in [List -> Seq(Node)] /\ elems'[l] = e[m] /\ elems'[m] = e[l]
        /\ \A n \in List : n \notin {l, m} => elems'[n] = e[n]
    BY <1>1, <1>2
  <1>4. Good(elems')
    <2>1. \A n \in List : Distinct(elems'[n])
      BY <1>1, <1>3
    <2>2. ASSUME NEW n \in List, NEW o \in List, n # o
          PROVE  Range(elems'[n]) \cap Range(elems'[o]) = {}
      <3>1. PICK x \in List : elems'[n] = e[x] /\ x = IF n = l THEN m ELSE IF n = m THEN l ELSE n
        BY <1>3
      <3>2. PICK y \in List : elems'[o] = e[y] /\ y = IF o = l THEN m ELSE IF o = m THEN l ELSE o
        BY <1>3
      <3>3. x # y
        BY <2>2, <3>1, <3>2
      <3> QED BY <1>1, <3>1, <3>2, <3>3
    <2> QED BY <1>3, <2>1, <2>2 DEF Good
  <1>5. All(elems') = All(e)
    <2>1. ASSUME NEW x PROVE x \in All(e) <=> x \in All(elems')
      BY <1>3 DEF All
    <2> QED BY <2>1
  <1>6. \A i \in Iter : it[i] \in IteratorType
    BY Facts DEF ItTypes, IteratorType
  <1>7. l # NoList /\ m # NoList
    BY Facts
  <1>8. ItTypes(it')
    BY <1>2, <1>6 DEF ItTypes, IteratorType
  <1>9. ASSUME NEW i \in Iter
        PROVE  /\ Usable(it', i) =>
                    it'[i].base \in Range(elems'[it'[i].seq]) \cup {it'[i].seq}
               /\ Name(it', i) = Name(it, i)
    <2> PICK r \in IteratorType : r = it[i]
      BY <1>6
    <2>1. r.seq # NoList /\ r.ok =>
            r.seq \in List /\ r.base \in Range(e[r.seq]) \cup {r.seq} /\ r.base \notin {l, m}
      BY <1>2, Accepted DEF Singular
    <2> PICK q : q = it'[i]
      OBVIOUS
    <2>2. CASE r.seq \in {l, m}
      <3>1. q = [r EXCEPT !.seq = IF @ = l THEN m ELSE l]
        BY <1>2, <2>2
      <3>2. q.seq = (IF r.seq = l THEN m ELSE l) /\ q.ok = r.ok /\ q.base = r.base
        BY <3>1 DEF IteratorType
      <3>3. Range(elems'[q.seq]) = Range(e[r.seq])
        BY <1>3, <2>2, <3>2
      <3>4. r.ok => r.base \in Range(elems'[q.seq])
        BY <1>7, <2>1, <2>2, <3>3
      <3>5. q.seq # NoList /\ r.seq # NoList
        BY <1>7, <2>2, <3>2
      <3> QED BY <3>2, <3>4, <3>5 DEF Usable, Name
    <2>3. CASE r.seq \notin {l, m}
      <3>1. q = r
        BY <1>2, <2>3
      <3>2. r.seq \in List => elems'[r.seq] = e[r.seq]
        BY <1>3, <2>3
      <3> QED BY <2>1, <3>1, <3>2 DEF Usable, Name
    <2> QED BY <2>2, <2>3
  <1>10. State(elems', it') /\ SameNames(it, it')
    BY <1>4, <1>8, <1>9 DEF State, Sits, SameNames
  <1>11. IInv'
    BY <1>10 DEF IInv
  <1> QED BY <1>5, <1>10, <1>11, SameStep DEF Keeps

LEMMA MergeKeeps ==
  ASSUME ~MergesHeld, IInv, NEW l \in List, NEW m \in List, merge(l, m)
  PROVE  Keeps
  <1> PICK e : e = elems
    OBVIOUS
  <1>1. PICK s \in Merged(e[l], e[m]) :
          elems' = [e EXCEPT ![l] = s, ![m] = << >>]
    BY DEF merge
  <1>2. l # m /\ it' = it
    BY DEF merge
  <1>3. /\ State(e, it) /\ Good(e) /\ ListOf(e[l]) /\ ListOf(e[m])
        /\ Range(e[l]) \cap Range(e[m]) = {} /\ Range(e[l]) \subseteq All(e)
        /\ Range(e[m]) \subseteq All(e)
    BY <1>2, Facts DEF IInv, Good
  <1>4. ListOf(s) /\ Range(s) = Range(e[l]) \cup Range(e[m])
    <2>1. ListOf(e[l] \o e[m]) /\ Range(e[l] \o e[m]) = Range(e[l]) \cup Range(e[m])
      BY <1>3, JoinList
    <2>2. s \in Orders(e[l] \o e[m])
      BY DEF Merged
    <2> QED BY <2>1, <2>2, OrderedList
  <1> PICK c : c = [e EXCEPT ![m] = << >>]
    OBVIOUS
  <1>5. OneChanged(e, m, << >>) /\ Range(<< >>) = {}
    BY ShortLists DEF OneChanged
  <1>6. Became([e EXCEPT ![m] = << >>], e, m, << >>)
    BY <1>3, <1>5, OneChangedGood
  <1>7. /\ Good(c) /\ \A n \in List : n # m => c[n] = e[n]
        /\ All(c) = All(e) \ Range(e[m])
    BY <1>5, <1>6 DEF Became
  <1>8. OneChanged(c, l, s)
    BY <1>2, <1>4, <1>7 DEF OneChanged
  <1>9. Became([c EXCEPT ![l] = s], c, l, s)
    BY <1>7, <1>8, OneChangedGood
  <1>10. elems' = [c EXCEPT ![l] = s]
    BY <1>1, <1>2, <1>3 DEF Good
  <1>11. /\ Good(elems') /\ elems'[l] = s
         /\ \A n \in List : n # l /\ n # m => elems'[n] = e[n]
         /\ All(elems') = (All(c) \ Range(c[l])) \cup Range(s)
    BY <1>7, <1>9, <1>10 DEF Became
  <1>12. All(elems') = All(e)
    BY <1>2, <1>3, <1>4, <1>7, <1>11
  <1>13. ASSUME NEW i \in Iter, Usable(it, i)
         PROVE  it[i].base \in Range(elems'[it[i].seq]) \cup {it[i].seq}
    <2>1. ~Singular(i)
      BY <1>13 DEF Usable, Singular
    <2>2. it[i].seq \in List /\ it[i].base \in Range(e[it[i].seq]) \cup {it[i].seq}
      BY <2>1, Accepted
    <2>3. CASE it[i].seq = m
      <3>1. it[i].base = m
        BY <2>1, <2>3 DEF merge
      <3> QED BY <2>3, <3>1
    <2>4. CASE it[i].seq = l
      BY <1>4, <1>11, <2>2, <2>4
    <2>5. CASE it[i].seq # l /\ it[i].seq # m
      BY <1>11, <2>2, <2>5
    <2> QED BY <2>3, <2>4, <2>5
  <1>14. State(elems', it') /\ SameNames(it, it')
    BY <1>2, <1>3, <1>11, <1>13 DEF State, Sits, SameNames
  <1>15. IInv'
    BY <1>14 DEF IInv
  <1> QED BY <1>12, <1>14, <1>15, SameStep DEF Keeps

\* The elements of a list are put in another order.
LEMMA ReorderKeeps ==
  ASSUME IInv, NEW l \in List, Reorder(l)
  PROVE  Keeps
  <1>1. PICK s \in Orders(elems[l]) : elems' = [elems EXCEPT ![l] = s]
    BY DEF Reorder
  <1>2. it' = it /\ ListOf(elems[l]) /\ State(elems, it)
    BY Facts DEF Reorder, IInv
  <1>3. ListOf(s) /\ Range(s) = Range(elems[l])
    BY <1>2, OrderedList
  <1>4. {} \cap All(elems) = {} /\ Range(s) = Range(elems[l]) \cup {}
    BY <1>3
  <1>5. /\ State([elems EXCEPT ![l] = s], it)
        /\ All([elems EXCEPT ![l] = s]) = All(elems) \cup {}
    BY <1>3, <1>4, GrowKeeps
  <1>6. State(elems', it') /\ All(elems') = All(elems) /\ SameNames(it, it')
    BY <1>1, <1>2, <1>5 DEF SameNames
  <1>7. IInv'
    BY <1>6 DEF IInv
  <1> QED BY <1>6, <1>7, SameStep DEF Keeps

-----------------------------------------------------------------------------
(* The theorems *)

LEMMA InitHolds == Init => IInv /\ Promise!Init
  <1> SUFFICES ASSUME Init PROVE IInv /\ Promise!Init
    OBVIOUS
  <1>1. /\ elems = [l \in List |-> << >>]
        /\ it = [i \in Iter |-> [seq |-> NoList, ok |-> FALSE, base |-> NoList]]
    BY DEF Init
  <1>2. << >> \in Seq(Node) /\ Distinct(<< >>) /\ Range(<< >>) = {}
    BY ShortLists DEF ListOf
  <1>3. Good(elems) /\ All(elems) = {}
    BY <1>1, <1>2 DEF Good, All
  <1>4. ItTypes(it) /\ Sits(elems, it)
    BY <1>1 DEF ItTypes, Sits, Usable
  <1>5. IInv
    BY <1>3, <1>4 DEF IInv, State
  <1>6. Used = {}
    BY <1>3, <1>5, Facts
  <1>7. Where = [i \in Iter |-> NoList]
    BY <1>1 DEF Where, Singular
  <1> QED BY <1>5, <1>6, <1>7 DEF Promise!Init

LEMMA NextKeeps ==
  ASSUME ~MergesHeld, ~SwapsEnds, IInv, Next
  PROVE  Keeps
  <1>1. CASE Move
    BY <1>1, BeginKeeps, CopyKeeps, RenewKeeps, IncrementKeeps DEF Move
  <1>2. ASSUME NEW l \in List, AtPlace(l) PROVE Keeps
    BY <1>2, InsertKeeps, EraseOneKeeps, EraseRangeKeeps DEF AtPlace
  <1>3. ASSUME NEW l \in List, Whole(l) PROVE Keeps
    <2>1. CASE \E n \in Node : push_front(l, n) \/ push_back(l, n) \/ resize_up(l, n)
      BY <2>1, PushKeeps
    <2>2. CASE pop_front(l) \/ pop_back(l) \/ \E N \in SUBSET Node : remove(l, N)
      BY <2>2, RemoveKeeps
    <2>3. CASE resize_throws(l) \/ Recreate(l) \/ Reorder(l)
      BY <2>3, ResizeThrowsKeeps, RecreateKeeps, ReorderKeeps
    <2>4. CASE \E k \in 0 .. Len(elems[l]) : resize(l, k)
      BY <2>4, ResizeKeeps
    <2>5. ASSUME NEW k \in 0 .. 2, NEW s \in [1 .. k -> Node], Reassign(l, s)
          PROVE  Keeps
      <3>1. k \in Nat
        OBVIOUS
      <3> QED BY <2>5, <3>1, ReassignKeeps
    <2> QED BY <1>3, <2>1, <2>2, <2>3, <2>4, <2>5 DEF Whole
  <1>4. ASSUME NEW l \in List, NEW m \in List, Both(l, m) PROVE Keeps
    <2>1. CASE swap(l, m) \/ merge(l, m)
      BY <2>1, SwapKeeps, MergeKeeps
    <2>2. CASE \E i \in Iter : \/ splice(l, i, m)
                               \/ \E j \in Iter : splice_one(l, i, m, j)
                               \/ \E j, k \in Iter : splice_range(l, i, m, j, k)
      BY <2>2, SplicesKeep
    <2> QED BY <1>4, <2>1, <2>2 DEF Both
  <1> QED BY <1>1, <1>2, <1>3, <1>4 DEF Next

LEMMA StutterKeeps == IInv /\ UNCHANGED vars => IInv' /\ UNCHANGED <<Used, Where>>
  <1> SUFFICES ASSUME IInv, UNCHANGED vars PROVE IInv' /\ UNCHANGED <<Used, Where>>
    OBVIOUS
  <1>1. elems' = elems /\ it' = it
    BY DEF vars
  <1>2. IInv'
    BY <1>1 DEF IInv
  <1>3. Used' = Used /\ Where' = Where
    BY <1>1, <1>2, Facts, FactsNext
  <1> QED BY <1>2, <1>3

LEMMA StepHolds ==
  ASSUME ~MergesHeld, ~SwapsEnds
  PROVE  IInv /\ [Next]_vars => IInv' /\ [Promise!Next]_<<Used, Where>>
  BY NextKeeps, StutterKeeps DEF Keeps

\* The inductive invariant: an element is in one place of one list, and a usable
\* iterator is at an element, or the end, of the list it is attached to.
THEOREM Invariant ==
  ASSUME ~MergesHeld, ~SwapsEnds
  PROVE  Spec => []IInv
  <1>1. IInv /\ [Next]_vars => IInv'
    BY StepHolds
  <1>2. Init => IInv
    BY InitHolds
  <1> QED BY <1>1, <1>2, PTL DEF Spec

\* Lists, iterators and elements keep their types, and no element is in two
\* places, whatever the operations move.
THEOREM TypeCorrect ==
  ASSUME ~MergesHeld, ~SwapsEnds
  PROVE  Spec => []TypeOK
  <1>1. IInv => TypeOK
    <2> SUFFICES ASSUME IInv PROVE TypeOK
      OBVIOUS
    <2>1. Good(elems) /\ ItTypes(it)
      BY Facts
    <2>2. elems \in [List -> Seq(Node)]
      BY <2>1 DEF Good
    <2>3. /\ \A l \in List : \A j, k \in DOMAIN elems[l] :
               elems[l][j] = elems[l][k] => j = k
          /\ \A l, m \in List : l # m => Elements(l) \cap Elements(m) = {}
      BY <2>1 DEF Good, Distinct, Elements
    <2> QED BY <2>1, <2>2, <2>3 DEF TypeOK, ItTypes
  <1> QED BY <1>1, Invariant, PTL

\* What the checks of the debug mode let pass is an element of the list that the
\* iterator is attached to, or that list's end.
THEOREM ChecksAreSound ==
  ASSUME ~MergesHeld, ~SwapsEnds
  PROVE  Spec => []ChecksSound
  <1>1. IInv => ChecksSound
    BY Accepted DEF ChecksSound, Elements
  <1> QED BY <1>1, Invariant, PTL

\* The lists keep the promise about iterators: one is singular if, and only if,
\* its element is gone.
THEOREM PromiseKept ==
  ASSUME ~MergesHeld, ~SwapsEnds
  PROVE  Spec => ImplementsIterators
  <1>1. Init => Promise!Init
    BY InitHolds
  <1>2. IInv /\ [Next]_vars => [Promise!Next]_<<Used, Where>>
    BY StepHolds
  <1> QED BY <1>1, <1>2, Invariant, PTL DEF Spec, ImplementsIterators, Promise!Spec
=============================================================================
