-------------------------- MODULE BitmapAllocProofs --------------------------
(***************************************************************************)
(* Proofs about BitmapAlloc, for any threads, value types, memory areas    *)
(* and bounds.                                                             *)
(***************************************************************************)
EXTENDS BitmapAlloc, TLAPS, FiniteSetTheorems, SequenceTheorems, WellFoundedInduction

\* Where a call of a type holds _S_mut.
Asking == {"get", "handler", "new", "clear", "restore", "handled"}

CallOf(t) ==
  /\ pc[t] = "idle" => call[t] = NoCall
  /\ pc[t] \in {"get", "handler", "new", "push", "insert", "erase"} =>
       call[t].type \in Type
  /\ pc[t] \in Asking => call[t].super = NoSuper
  /\ pc[t] \in {"push", "insert", "erase"} => call[t].super \in Super
  /\ pc[t] \in {"insert", "erase"} =>
       call[t].super \in Range(mem_blocks[call[t].type])
  /\ pc[t] = "insert" => use_count[call[t].super] = 0
  /\ call[t].type \in Type =>
       /\ mut[call[t].type] = Locker(t)
       /\ pc[t] \in Asking \cup {"push"} =>
            Len(mem_blocks[call[t].type]) < MaxBlocks

Calls == \A t \in Thread : CallOf(t)

\* A super block in nobody's list is blank, and the one that a call has
\* obtained is as large as the call asked for.
Blank(s) == count[s] = 0 /\ use_count[s] = 0 /\ free[s] = {}

OwnedBy(s) == {y \in Type : s \in Owned(y)}

Blanks ==
  /\ \A s \in Super : OwnedBy(s) = {} => Blank(s)
  /\ \A t \in Thread : pc[t] = "push" => size[call[t].super] >= Required(t)

\* A super block with nothing in use is on its way to the store.
Emptied ==
  \A y \in Type : \A s \in Owned(y) : use_count[s] = 0 =>
    \E t \in Thread : pc[t] = "insert" /\ call[t].type = y /\ call[t].super = s

\* _S_block_size has been doubled once for every super block that stays, and
\* the number of objects in a super block was one of its values.
Staying(y) == IF Leaving(y) = {} THEN Len(mem_blocks[y]) ELSE Len(mem_blocks[y]) - 1

Sizes ==
  \A y \in Type :
    /\ block_size[y] = Bits * 2 ^ Staying(y)
    /\ \A s \in Owned(y) : \E k \in 0 .. MaxBlocks : count[s] = Bits * 2 ^ k

\* The cursor and the index of the last deallocation, whatever is under way.
Caches ==
  \A y \in Type :
    LET c == last_request[y]
        n == Len(mem_blocks[y])
    IN /\ Finished(y) => c.index \in {0, n + 1}
       /\ ~Finished(y) => /\ c.index \in 1 .. n
                          /\ mem_blocks[y][c.index] = c.super
                          /\ c.super \in Owned(y) => c.bitmap \in BitMaps(c.super)
       /\ last_dealloc[y] \in 1 .. (IF n = 0 THEN 1 ELSE n)

IInv ==
  /\ TypeOK
  /\ Calls
  /\ SuperExclusive
  /\ UseCountExact
  /\ Blanks
  /\ Emptied
  /\ Sizes
  /\ Caches
  /\ StoreOrdered
  /\ LargeEnough

-----------------------------------------------------------------------------
\* Numbers.

\* A power of 2 counts subsets: 2 ^ (n + 1) counts those with n + 1 and those
\* without.
LEMMA Powers ==
  ASSUME NEW n \in Nat
  PROVE  2 ^ n \in Nat \ {0} /\ 2 ^ (n + 1) = 2 * 2 ^ n
  <1> DEFINE S == SUBSET (1 .. n)
             T == {A \cup {n + 1} : A \in S}
             f == [A \in S |-> A \cup {n + 1}]
  <1>1. \A m \in Nat : /\ IsFiniteSet(SUBSET (1 .. m))
                       /\ Cardinality(SUBSET (1 .. m)) \in Nat
                       /\ Cardinality(SUBSET (1 .. m)) = 2 ^ m
    <2> TAKE m \in Nat
    <2>1. IsFiniteSet(1 .. m) /\ Cardinality(1 .. m) = m
      BY FS_Interval
    <2> QED BY <2>1, FS_SUBSET, FS_CardinalityType
  <1>2. 2 ^ n \in Nat /\ 2 ^ n # 0
    <2>1. {} \in S
      OBVIOUS
    <2> QED BY <1>1, <2>1, FS_EmptySet
  <1>3. f \in Bijection(S, T)
    <2>1. \A A \in S : n + 1 \notin A
      OBVIOUS
    <2>2. ASSUME NEW A \in S, NEW B \in S, A \cup {n + 1} = B \cup {n + 1} PROVE A = B
      BY <2>1, <2>2
    <2>3. f \in [S -> T] /\ \A A \in S : f[A] = A \cup {n + 1}
      OBVIOUS
    <2>4. \A C \in T : \E A \in S : f[A] = C
      OBVIOUS
    <2> HIDE DEF S, T, f
    <2> QED BY <2>2, <2>3, <2>4 DEF Bijection, Injection, Surjection, IsInjective
  <1>4. IsFiniteSet(T) /\ Cardinality(T) = 2 ^ n
    <2>1. ExistsBijection(S, T)
      BY <1>3 DEF ExistsBijection
    <2> QED BY <1>1, <2>1, FS_Bijection
  <1>5. SUBSET (1 .. (n + 1)) = S \cup T
    <2>1. ASSUME NEW A \in SUBSET (1 .. (n + 1)) PROVE A \in S \cup T
      <3>1. CASE n + 1 \in A
        <4>1. A \ {n + 1} \in S /\ A = (A \ {n + 1}) \cup {n + 1}
          BY <3>1
        <4> QED BY <4>1
      <3>2. CASE n + 1 \notin A
        BY <3>2
      <3> QED BY <3>1, <3>2
    <2>2. 1 .. n \subseteq 1 .. (n + 1) /\ n + 1 \in 1 .. (n + 1)
      OBVIOUS
    <2>3. ASSUME NEW A \in S
          PROVE  A \subseteq 1 .. (n + 1) /\ A \cup {n + 1} \subseteq 1 .. (n + 1)
      BY <2>2
    <2>4. S \subseteq SUBSET (1 .. (n + 1))
      BY <2>3
    <2>5. T \subseteq SUBSET (1 .. (n + 1))
      BY <2>3
    <2> HIDE DEF S, T
    <2> QED BY <2>1, <2>4, <2>5
  <1>6. S \cap T = {}
    OBVIOUS
  <1>7. IsFiniteSet(S) /\ Cardinality(S) = 2 ^ n
    BY <1>1
  <1> HIDE DEF S, T, f
  <1>8. Cardinality(S \cup T) = Cardinality(S) + Cardinality(T) - Cardinality(S \cap T)
    BY <1>4, <1>7, FS_Union
  <1>9. Cardinality(S \cap T) = 0
    BY <1>6, FS_EmptySet
  <1>10. Cardinality(SUBSET (1 .. (n + 1))) = 2 ^ (n + 1)
    BY <1>1
  <1>11. 2 ^ (n + 1) = 2 ^ n + 2 ^ n - 0
    BY <1>4, <1>5, <1>7, <1>8, <1>9, <1>10
  <1> HIDE DEF S, T, f
  <1> QED BY SMTT(30), <1>2, <1>11

LEMMA PowersGrow ==
  ASSUME NEW m \in Nat, NEW n \in Nat, m <= n
  PROVE  2 ^ m <= 2 ^ n
  <1>1. \A k \in Nat : IsFiniteSet(1 .. k) /\ Cardinality(1 .. k) = k
    BY FS_Interval
  <1>2. /\ Cardinality(SUBSET (1 .. m)) = 2 ^ m /\ Cardinality(SUBSET (1 .. n)) = 2 ^ n
        /\ IsFiniteSet(SUBSET (1 .. n))
    BY <1>1, FS_SUBSET
  <1>3. SUBSET (1 .. m) \in SUBSET (SUBSET (1 .. n))
    OBVIOUS
  <1> QED BY <1>2, <1>3, FS_Subset

\* A set of naturals has a least member: of the intervals from 0 to one of
\* them, one contains no other.
LEMMA Least ==
  ASSUME NEW S \in SUBSET Nat, S # {}
  PROVE  Min(S) \in S /\ \A y \in S : Min(S) <= y
  <1> DEFINE F == {0 .. x : x \in S}
             R == StrictSubsetOrdering(Nat)
  <1>1. F # {} /\ F \subseteq FiniteSubsetsOf(Nat)
    <2>1. \A x \in S : IsFiniteSet(0 .. x) /\ 0 .. x \subseteq Nat
      BY FS_Interval
    <2> QED BY <2>1 DEF FiniteSubsetsOf
  <1>2. IsWellFoundedOn(R, FiniteSubsetsOf(Nat))
    BY FS_StrictSubsetOrderingWellFounded
  <1>3. PICK I \in F : \A J \in F : <<J, I>> \notin R
    <2> HIDE DEF F, R
    <2> QED BY <1>1, <1>2, WFMin
  <1>4. PICK x \in S : I = 0 .. x
    OBVIOUS
  <1>5. ASSUME NEW y \in S, y < x PROVE FALSE
    <2>1. 0 .. y \in F /\ 0 .. y \subseteq 0 .. x /\ x \in 0 .. x /\ x \notin 0 .. y
      BY <1>5
    <2>2. 0 .. y # 0 .. x
      BY <2>1
    <2>3. 0 .. x \subseteq Nat
      OBVIOUS
    <2> QED BY <1>3, <1>4, <2>1, <2>2, <2>3 DEF StrictSubsetOrdering
  <1>6. \E z \in S : \A y \in S : z <= y
    BY <1>5
  <1> QED BY <1>6 DEF Min

\* The first of a set of pairs.
LEMMA FirstIn ==
  ASSUME NEW S \in SUBSET (Nat \X Nat), S # {}
  PROVE  FirstOf(S) \in S
  <1> DEFINE A == {c[1] : c \in S}
  <1>1. Min(A) \in A /\ \A i \in A : Min(A) <= i
    <2>1. A \in SUBSET Nat /\ A # {}
      OBVIOUS
    <2> HIDE DEF A
    <2> QED BY <2>1, Least
  <1> PICK i \in Nat : i = Min(A)
    BY <1>1
  <1> DEFINE B == {c[2] : c \in {d \in S : d[1] = i}}
  <1>2. Min(B) \in B /\ \A j \in B : Min(B) <= j
    <2>1. B \in SUBSET Nat /\ B # {}
      BY <1>1
    <2> HIDE DEF B
    <2> QED BY <2>1, Least
  <1>3. PICK c \in S : c[1] = i /\ c[2] = Min(B)
    BY <1>2
  <1>4. ASSUME NEW d \in S PROVE c[1] < d[1] \/ (c[1] = d[1] /\ c[2] <= d[2])
    <2>1. d[1] \in Nat /\ d[1] \in A /\ i <= d[1]
      BY <1>1
    <2>2. d[1] = i => d[2] \in B
      OBVIOUS
    <2>3. c[1] < d[1] \/ c[1] = d[1]
      BY <1>3, <2>1
    <2>4. c[1] = d[1] => c[2] <= d[2]
      BY <1>2, <1>3, <2>2
    <2> QED BY <2>3, <2>4
  <1>5. \E e \in S : \A d \in S : e[1] < d[1] \/ (e[1] = d[1] /\ e[2] <= d[2])
    BY <1>4
  <1> QED BY <1>5 DEF FirstOf

-----------------------------------------------------------------------------
\* Lists.

LEMMA Appended ==
  ASSUME NEW S, NEW l \in Seq(S), NEW e \in S
  PROVE  /\ Append(l, e) \in Seq(S) /\ Len(Append(l, e)) = Len(l) + 1
         /\ \A i \in 1 .. Len(l) : Append(l, e)[i] = l[i]
         /\ Append(l, e)[Len(l) + 1] = e
         /\ Range(Append(l, e)) = Range(l) \cup {e}
         /\ NoDuplicates(l) /\ e \notin Range(l) => NoDuplicates(Append(l, e))
  <1> DEFINE a == Append(l, e)
             n == Len(l)
  <1>1. /\ a \in Seq(S) /\ Len(a) = n + 1 /\ \A i \in 1 .. n : a[i] = l[i]
        /\ a[n + 1] = e /\ n \in Nat /\ DOMAIN a = 1 .. n + 1 /\ DOMAIN l = 1 .. n
    OBVIOUS
  <1> HIDE DEF a, n
  <1>2. Range(a) = Range(l) \cup {e}
    BY <1>1 DEF Range
  <1>3. ASSUME NoDuplicates(l), e \notin Range(l) PROVE NoDuplicates(a)
    BY <1>1, <1>3 DEF NoDuplicates, Range
  <1> QED BY <1>1, <1>2, <1>3 DEF a, n

LEMMA Part ==
  ASSUME NEW S, NEW l \in Seq(S), NEW m \in 1 .. Len(l) + 1, NEW n \in 0 .. Len(l), m <= n + 1
  PROVE  /\ SubSeq(l, m, n) \in Seq(S) /\ Len(SubSeq(l, m, n)) = n - m + 1
         /\ \A i \in 1 .. n - m + 1 : SubSeq(l, m, n)[i] = l[m + i - 1]
  <1>1. m \in Int /\ n \in Int /\ \A i \in m .. n : l[i] \in S
    OBVIOUS
  <1>2. /\ SubSeq(l, m, n) \in Seq(S)
        /\ Len(SubSeq(l, m, n)) = IF m <= n THEN n - m + 1 ELSE 0
        /\ \A i \in 1 .. n - m + 1 : SubSeq(l, m, n)[i] = l[m + i - 1]
    BY <1>1, SubSeqProperties
  <1> QED BY <1>2

LEMMA Removed ==
  ASSUME NEW S, NEW l \in Seq(S), NEW k \in 1 .. Len(l)
  PROVE  /\ RemoveAt(l, k) \in Seq(S) /\ Len(RemoveAt(l, k)) = Len(l) - 1
         /\ \A i \in 1 .. Len(l) - 1 :
              RemoveAt(l, k)[i] = IF i < k THEN l[i] ELSE l[i + 1]
         /\ NoDuplicates(l) => /\ Range(RemoveAt(l, k)) = Range(l) \ {l[k]}
                               /\ NoDuplicates(RemoveAt(l, k))
  <1> DEFINE r == RemoveAt(l, k)
             n == Len(l)
  <1>1. /\ r \in Seq(S) /\ Len(r) = n - 1
        /\ \A i \in 1 .. n - 1 : r[i] = IF i < k THEN l[i] ELSE l[i + 1]
        /\ n \in Nat /\ DOMAIN l = 1 .. n
    <2> DEFINE a == SubSeq(l, 1, k - 1)
               b == SubSeq(l, k + 1, n)
    <2>1. n \in Nat /\ k \in 1 .. n /\ DOMAIN l = 1 .. n
      OBVIOUS
    <2>2. a \in Seq(S) /\ Len(a) = k - 1 /\ \A i \in 1 .. k - 1 : a[i] = l[i]
      <3>1. /\ a \in Seq(S) /\ Len(a) = k - 1 - 1 + 1
            /\ \A i \in 1 .. k - 1 - 1 + 1 : a[i] = l[1 + i - 1]
        BY <2>1, Part
      <3> QED BY <2>1, <3>1
    <2>3. b \in Seq(S) /\ Len(b) = n - k /\ \A i \in 1 .. n - k : b[i] = l[k + i]
      <3> PICK m \in 1 .. n + 1 : m = k + 1
        BY <2>1
      <3>1. n \in 0 .. n /\ m <= n + 1
        BY <2>1
      <3>2. /\ b \in Seq(S) /\ Len(b) = n - m + 1
            /\ \A i \in 1 .. n - m + 1 : b[i] = l[m + i - 1]
        BY <3>1, Part
      <3>3. n - m + 1 = n - k /\ \A i \in 1 .. n - k : m + i - 1 = k + i
        BY <2>1
      <3> QED BY <3>2, <3>3
    <2>4. r = a \o b
      BY DEF RemoveAt
    <2> HIDE DEF a, b, r, n
    <2>5. /\ r \in Seq(S) /\ Len(r) = (k - 1) + (n - k)
          /\ \A i \in 1 .. (k - 1) + (n - k) : r[i] = IF i <= k - 1 THEN a[i] ELSE b[i - (k - 1)]
      BY <2>2, <2>3, <2>4, ConcatProperties
    <2>6. ASSUME NEW i \in 1 .. n - 1 PROVE r[i] = IF i < k THEN l[i] ELSE l[i + 1]
      <3>1. CASE i < k
        BY <2>1, <2>2, <2>5, <3>1
      <3>2. CASE i >= k
        <4>1. i - (k - 1) \in 1 .. n - k /\ k + (i - (k - 1)) = i + 1
          BY <2>1, <3>2
        <4> QED BY <2>1, <2>3, <2>5, <3>2, <4>1
      <3> QED BY <2>1, <3>1, <3>2
    <2> QED BY <2>1, <2>5, <2>6
  <1>2. DOMAIN r = 1 .. n - 1
    BY <1>1
  <1> HIDE DEF r
  <1>3. ASSUME NoDuplicates(l) PROVE Range(r) = Range(l) \ {l[k]} /\ NoDuplicates(r)
    <2>1. ASSUME NEW i \in 1 .. n - 1, NEW j \in 1 .. n - 1, r[i] = r[j] PROVE i = j
      <3>1. \A p, q \in 1 .. n : l[p] = l[q] => p = q
        BY <1>1, <1>3 DEF NoDuplicates
      <3>2. PICK p \in 1 .. n : r[i] = l[p] /\ p = IF i < k THEN i ELSE i + 1
        BY <1>1
      <3>3. PICK q \in 1 .. n : r[j] = l[q] /\ q = IF j < k THEN j ELSE j + 1
        BY <1>1
      <3>4. p = q
        BY <2>1, <3>1, <3>2, <3>3
      <3>5. k \in Nat /\ i \in Nat /\ j \in Nat
        BY <1>1
      <3> QED BY <3>2, <3>3, <3>4, <3>5
    <2>2. ASSUME NEW i \in 1 .. n - 1 PROVE r[i] \in Range(l) \ {l[k]}
      BY SMTT(30), <1>1, <1>3, <2>2 DEF NoDuplicates, Range
    <2>3. ASSUME NEW j \in 1 .. n, j # k PROVE \E i \in 1 .. n - 1 : r[i] = l[j]
      <3>1. CASE j < k
        BY <1>1, <3>1
      <3>2. CASE j > k
        <4>1. j - 1 \in 1 .. n - 1 /\ r[j - 1] = l[j]
          BY <1>1, <3>2
        <4> QED BY <4>1
      <3> QED BY <2>3, <3>1, <3>2, <1>1
    <2>4. ASSUME NEW x \in Range(l) \ {l[k]} PROVE x \in Range(r)
      <3>1. PICK j \in 1 .. n : l[j] = x /\ j # k
        BY <1>1 DEF Range
      <3> QED BY <1>2, <2>3, <3>1 DEF Range
    <2>5. \A x \in Range(r) : x \in Range(l) \ {l[k]}
      BY <1>2, <2>2 DEF Range
    <2> QED BY <1>2, <2>1, <2>4, <2>5 DEF NoDuplicates
  <1> QED BY <1>1, <1>3 DEF r

LEMMA Inserted ==
  ASSUME NEW S, NEW l \in Seq(S), NEW e \in S, NEW k \in 1 .. Len(l) + 1
  PROVE  /\ InsertAt(l, k, e) \in Seq(S) /\ Len(InsertAt(l, k, e)) = Len(l) + 1
         /\ \A i \in 1 .. Len(l) + 1 :
              InsertAt(l, k, e)[i] = IF i < k THEN l[i] ELSE IF i = k THEN e ELSE l[i - 1]
         /\ Range(InsertAt(l, k, e)) = Range(l) \cup {e}
         /\ NoDuplicates(l) /\ e \notin Range(l) => NoDuplicates(InsertAt(l, k, e))
  <1> DEFINE r == InsertAt(l, k, e)
             n == Len(l)
  <1>1. /\ r \in Seq(S) /\ Len(r) = n + 1
        /\ \A i \in 1 .. n + 1 : r[i] = IF i < k THEN l[i] ELSE IF i = k THEN e ELSE l[i - 1]
        /\ n \in Nat /\ DOMAIN l = 1 .. n
    <2> DEFINE a == SubSeq(l, 1, k - 1)
               b == SubSeq(l, k, n)
               c == a \o <<e>>
    <2>1. n \in Nat /\ k \in 1 .. n + 1 /\ DOMAIN l = 1 .. n /\ <<e>> \in Seq(S)
      OBVIOUS
    <2>2. a \in Seq(S) /\ Len(a) = k - 1 /\ \A i \in 1 .. k - 1 : a[i] = l[i]
      <3>1. /\ a \in Seq(S) /\ Len(a) = k - 1 - 1 + 1
            /\ \A i \in 1 .. k - 1 - 1 + 1 : a[i] = l[1 + i - 1]
        BY <2>1, Part
      <3> QED BY <2>1, <3>1
    <2>3. b \in Seq(S) /\ Len(b) = n - k + 1 /\ \A i \in 1 .. n - k + 1 : b[i] = l[k + i - 1]
      BY <2>1, Part
    <2>4. /\ c \in Seq(S) /\ Len(c) = k /\ c[k] = e
          /\ \A i \in 1 .. k - 1 : c[i] = l[i]
      <3>1. /\ a \o <<e>> \in Seq(S) /\ Len(a \o <<e>>) = Len(a) + Len(<<e>>)
            /\ \A i \in 1 .. Len(a) + Len(<<e>>) :
                 (a \o <<e>>)[i] = IF i <= Len(a) THEN a[i] ELSE <<e>>[i - Len(a)]
        BY <2>1, <2>2, ConcatProperties
      <3> HIDE DEF a
      <3> QED BY SMTT(30), <2>1, <2>2, <3>1
    <2>5. r = c \o b
      BY DEF InsertAt
    <2> HIDE DEF a, b, c, r, n
    <2>6. /\ r \in Seq(S) /\ Len(r) = k + (n - k + 1)
          /\ \A i \in 1 .. k + (n - k + 1) : r[i] = IF i <= k THEN c[i] ELSE b[i - k]
      <3>1. /\ c \o b \in Seq(S) /\ Len(c \o b) = Len(c) + Len(b)
            /\ \A i \in 1 .. Len(c) + Len(b) :
                 (c \o b)[i] = IF i <= Len(c) THEN c[i] ELSE b[i - Len(c)]
        BY <2>3, <2>4, ConcatProperties
      <3> QED BY <2>3, <2>4, <2>5, <3>1
    <2>7. ASSUME NEW i \in 1 .. n + 1
          PROVE  r[i] = IF i < k THEN l[i] ELSE IF i = k THEN e ELSE l[i - 1]
      <3>1. CASE i <= k
        BY <2>1, <2>4, <2>6, <3>1
      <3>2. CASE i > k
        <4>1. i - k \in 1 .. n - k + 1 /\ k + (i - k) - 1 = i - 1
          BY <2>1, <3>2
        <4> QED BY SMTT(30), <2>1, <2>3, <2>6, <3>2, <4>1
      <3> QED BY <2>1, <3>1, <3>2
    <2> QED BY <2>1, <2>6, <2>7
  <1>2. DOMAIN r = 1 .. n + 1
    BY <1>1
  <1> HIDE DEF r
  <1>3. Range(r) = Range(l) \cup {e}
    <2>1. ASSUME NEW i \in 1 .. n + 1 PROVE r[i] \in Range(l) \cup {e}
      <3>1. CASE i < k
        BY <1>1, <3>1 DEF Range
      <3>2. CASE i > k
        <4>1. i - 1 \in 1 .. n /\ r[i] = l[i - 1]
          BY <1>1, <3>2
        <4> QED BY <1>1, <4>1 DEF Range
      <3>3. CASE i = k
        BY <1>1, <3>3
      <3> QED BY <1>1, <3>1, <3>2, <3>3
    <2>2. ASSUME NEW j \in 1 .. n PROVE \E i \in 1 .. n + 1 : r[i] = l[j]
      <3>1. CASE j < k
        BY <1>1, <3>1
      <3>2. CASE j >= k
        <4>1. j + 1 \in 1 .. n + 1 /\ r[j + 1] = l[j]
          BY <1>1, <3>2
        <4> QED BY <4>1
      <3> QED BY <1>1, <3>1, <3>2
    <2>3. r[k] = e /\ k \in 1 .. n + 1
      BY <1>1
    <2>4. ASSUME NEW x \in Range(l) \cup {e} PROVE x \in Range(r)
      <3>1. CASE x = e
        BY <1>2, <2>3, <3>1 DEF Range
      <3>2. CASE x \in Range(l)
        <4>1. PICK j \in 1 .. n : l[j] = x
          BY <1>1, <3>2 DEF Range
        <4> QED BY <1>2, <2>2, <4>1 DEF Range
      <3> QED BY <3>1, <3>2
    <2>5. \A x \in Range(r) : x \in Range(l) \cup {e}
      BY <1>2, <2>1 DEF Range
    <2> QED BY <2>4, <2>5
  <1>4. ASSUME NoDuplicates(l), e \notin Range(l) PROVE NoDuplicates(r)
    <2>1. \A i \in 1 .. n : l[i] # e
      BY <1>1, <1>4 DEF Range
    <2>2. \A i, j \in 1 .. n : l[i] = l[j] => i = j
      BY <1>1, <1>4 DEF NoDuplicates
    <2>3. SUFFICES ASSUME NEW i \in 1 .. n + 1, NEW j \in 1 .. n + 1, i < j, r[i] = r[j]
                   PROVE  FALSE
      <3>1. (\A i, j \in 1 .. n + 1 : ~(i < j /\ r[i] = r[j])) => NoDuplicates(r)
        BY <1>1, <1>2 DEF NoDuplicates
      <3> QED BY <3>1
    <2>4. \/ i < k /\ i \in 1 .. n /\ r[i] = l[i]
          \/ i = k /\ r[i] = e
          \/ i > k /\ i - 1 \in 1 .. n /\ r[i] = l[i - 1]
      BY <1>1
    <2>5. \/ j < k /\ j \in 1 .. n /\ r[j] = l[j]
          \/ j = k /\ r[j] = e
          \/ j > k /\ j - 1 \in 1 .. n /\ r[j] = l[j - 1]
      BY <1>1
    <2>6. n \in Nat /\ k \in Nat
      BY <1>1
    <2> HIDE DEF r, n
    <2>7. \A a, b \in 1 .. n : a < b => l[a] # l[b]
      <3> SUFFICES ASSUME NEW a \in 1 .. n, NEW b \in 1 .. n, a < b, l[a] = l[b] PROVE FALSE
        OBVIOUS
      <3>1. a = b
        BY ONLY <2>2, a \in 1 .. n, b \in 1 .. n, l[a] = l[b], Zenon
      <3> QED BY <2>6, <3>1
    <2>8. CASE i = k \/ j = k
      BY <2>1, <2>3, <2>4, <2>5, <2>6, <2>8
    <2>9. CASE i # k /\ j # k
      <3>1. \E a, b \in 1 .. n : a < b /\ r[i] = l[a] /\ r[j] = l[b]
        BY <2>3, <2>4, <2>5, <2>6, <2>9
      <3> QED BY <2>3, <2>7, <3>1
    <2> QED BY <2>8, <2>9
  <1> QED BY <1>1, <1>3, <1>4 DEF r

LEMMA Fronted ==
  ASSUME NEW S, NEW l \in Seq(S), Len(l) # 0
  PROVE  /\ Front(l) \in Seq(S) /\ Len(Front(l)) = Len(l) - 1
         /\ \A i \in 1 .. Len(l) - 1 : Front(l)[i] = l[i]
         /\ Last(l) \in Range(l) /\ Len(l) \in Nat /\ Last(l) = l[Len(l)]
         /\ NoDuplicates(l) => /\ Range(Front(l)) = Range(l) \ {Last(l)}
                               /\ NoDuplicates(Front(l))
  <1> DEFINE f == Front(l)
             n == Len(l)
  <1>1. /\ f \in Seq(S) /\ Len(f) = n - 1 /\ \A i \in 1 .. n - 1 : f[i] = l[i]
        /\ n \in Nat /\ n # 0 /\ DOMAIN l = 1 .. n /\ Last(l) = l[n]
    <2>1. n \in Nat /\ n # 0 /\ n - 1 \in 0 .. n /\ DOMAIN l = 1 .. n
      OBVIOUS
    <2>2. /\ f \in Seq(S) /\ Len(f) = n - 1 - 1 + 1
          /\ \A i \in 1 .. n - 1 - 1 + 1 : f[i] = l[1 + i - 1]
      BY <2>1, Part DEF Front
    <2> QED BY <2>1, <2>2 DEF Last
  <1>2. DOMAIN f = 1 .. n - 1 /\ n \in 1 .. n
    BY <1>1
  <1> HIDE DEF f
  <1>3. Last(l) \in Range(l)
    BY <1>1, <1>2 DEF Range
  <1>4. ASSUME NoDuplicates(l) PROVE Range(f) = Range(l) \ {Last(l)} /\ NoDuplicates(f)
    <2>1. NoDuplicates(f)
      BY <1>1, <1>2, <1>4 DEF NoDuplicates
    <2>2. \A x \in Range(f) : x \in Range(l) \ {Last(l)}
      BY <1>1, <1>2, <1>4 DEF NoDuplicates, Range
    <2>3. \A x \in Range(l) \ {Last(l)} : x \in Range(f)
      BY <1>1, <1>2 DEF Range
    <2> QED BY <2>1, <2>2, <2>3
  <1> QED BY <1>1, <1>3, <1>4 DEF f

LEMMA InRange ==
  ASSUME NEW S, NEW l \in Seq(S)
  PROVE  /\ Range(l) \subseteq S /\ DOMAIN l = 1 .. Len(l) /\ Len(l) \in Nat
         /\ \A x \in Range(l) : \E i \in 1 .. Len(l) : l[i] = x
         /\ \A i \in 1 .. Len(l) : l[i] \in Range(l) /\ l[i] \in S
  BY DEF Range

-----------------------------------------------------------------------------
\* Who has a super block, and who may change what a type has.

LEMMA InOwned ==
  ASSUME NEW y, NEW s
  PROVE  s \in Owned(y) <=>
           /\ s \in Range(mem_blocks[y])
           /\ \A t \in Thread : pc[t] = "erase" => call[t] # [type |-> y, super |-> s]
  BY DEF Owned

LEMMA InArriving ==
  ASSUME NEW s
  PROVE  s \in Arriving <=> \E t \in Thread : pc[t] = "push" /\ call[t].super = s
  BY DEF Arriving



\* One call at a time has to do with a type.
LEMMA OneCaller ==
  ASSUME IInv, NEW t \in Thread, NEW u \in Thread,
         call[t].type \in Type, call[t].type = call[u].type
  PROVE  t = u
  BY BitmapAssumption DEF IInv, Calls, CallOf, Locker

\* A thread that gets _S_mut finds no call of the type under way.
LEMMA NoCaller ==
  ASSUME IInv, NEW y \in Type, NEW t \in Thread, pc[t] = "idle", Unlocked(mut[y])
  PROVE  /\ \A u \in Thread : call[u].type # y
         /\ Leaving(y) = {} /\ Owned(y) = Range(mem_blocks[y])
         /\ \A u \in Thread : call[u].type \in Type => call[u].type # y
  <1>1. ASSUME NEW u \in Thread, call[u].type = y PROVE FALSE
    <2>1. mut[y] = Locker(u)
      BY <1>1 DEF IInv, Calls, CallOf
    <2>2. CASE Enabled
      BY <2>1, <2>2, BitmapAssumption DEF Locker, Unlocked
    <2>3. CASE ~Enabled
      <3>1. u = t /\ call[t] = NoCall
        BY <2>3, BitmapAssumption DEF IInv, Calls, CallOf
      <3> QED BY <1>1, <3>1, BitmapAssumption DEF NoCall
    <2> QED BY <2>2, <2>3
  <1>2. Leaving(y) = {}
    BY <1>1 DEF Leaving
  <1>3. Owned(y) = Range(mem_blocks[y])
    BY <1>1 DEF Owned
  <1> QED BY <1>1, <1>2, <1>3

\* The thread of a call under way, and its type.
LEMMA Caller ==
  ASSUME IInv, NEW t \in Thread, pc[t] \notin {"idle", "clear", "restore", "handled"}
  PROVE  /\ call[t].type \in Type
         /\ \A u \in Thread \ {t} : call[u].type # call[t].type
         /\ mut[call[t].type] = Locker(t)
  BY OneCaller DEF IInv, Calls, CallOf, TypeOK, Pc

\* What a step of t leaves to the other threads.
Moved(t) == \A u \in Thread \ {t} : pc'[u] = pc[u] /\ call'[u] = call[u]

LEMMA CallKept ==
  ASSUME IInv, NEW u \in Thread, pc'[u] = pc[u], call'[u] = call[u],
         call[u].type \in Type => /\ mut'[call[u].type] = mut[call[u].type]
                                  /\ mem_blocks'[call[u].type] = mem_blocks[call[u].type],
         pc[u] = "insert" => use_count'[call[u].super] = use_count[call[u].super]
  PROVE  CallOf(u)'
  <1>1. CallOf(u)
    BY DEF IInv, Calls
  <1> QED BY <1>1 DEF CallOf, Locker, Asking

\* The super block of a call is where the call says it is.
LEMMA CallSuper ==
  ASSUME IInv, NEW t \in Thread
  PROVE  /\ pc[t] = "insert" =>
              /\ call[t].super \in Owned(call[t].type)
              /\ call[t].type \in Type /\ call[t].super \in Super
              /\ use_count[call[t].super] = 0
         /\ pc[t] = "erase" =>
              /\ call[t].super \in Range(mem_blocks[call[t].type])
              /\ call[t].super \notin Owned(call[t].type)
              /\ call[t].type \in Type /\ call[t].super \in Super
         /\ pc[t] = "push" =>
              /\ call[t].super \in Super /\ call[t].type \in Type
              /\ \A y \in Type : call[t].super \notin Owned(y)
              /\ call[t].super \notin heap /\ call[t].super \notin Range(free_list)
              /\ Blank(call[t].super)
  <1>1. CallOf(t)
    BY DEF IInv, Calls
  <1>2. call[t] = [type |-> call[t].type, super |-> call[t].super]
    BY DEF IInv, TypeOK
  <1>3. CASE pc[t] = "insert"
    <2>1. call[t].type \in Type /\ \A u \in Thread \ {t} : call[u].type # call[t].type
      BY <1>3, Caller
    <2>2. call[t].super \in Owned(call[t].type)
      BY <1>1, <1>3, <2>1 DEF CallOf, Owned
    <2> QED BY <1>1, <1>3, <2>1, <2>2 DEF CallOf
  <1>4. CASE pc[t] = "erase"
    <2>1. call[t].super \notin Owned(call[t].type)
      BY <1>2, <1>4 DEF Owned
    <2> QED BY <1>1, <1>4, <2>1 DEF CallOf
  <1>5. CASE pc[t] = "push"
    <2>1. call[t].super \in Arriving
      BY <1>5, InArriving
    <2>2. /\ \A y \in Type : call[t].super \notin Owned(y)
          /\ call[t].super \notin heap /\ call[t].super \notin Range(free_list)
      BY <2>1 DEF IInv, SuperExclusive
    <2>3. call[t].super \in Super /\ call[t].type \in Type
      BY <1>1, <1>5 DEF CallOf
    <2>4. Blank(call[t].super)
      BY <2>2, <2>3 DEF IInv, Blanks, OwnedBy
    <2> QED BY <1>5, <2>2, <2>3, <2>4
  <1> QED BY <1>3, <1>4, <1>5

-----------------------------------------------------------------------------
\* Steps that ask for memory, or handle the lack of it: no super block moves.

Moving == {"push", "insert", "erase"}

Quiet(t) == Moved(t) /\ pc[t] \notin Moving /\ pc'[t] \notin Moving

LEMMA QuietOwners ==
  ASSUME NEW t \in Thread, Quiet(t), mem_blocks' = mem_blocks
  PROVE  /\ \A y : Owned(y)' = Owned(y) /\ Leaving(y)' = Leaving(y)
         /\ Arriving' = Arriving
         /\ \A u \in Thread : pc[u] \in Moving \/ pc'[u] \in Moving =>
              u # t /\ pc'[u] = pc[u] /\ call'[u] = call[u]
  <1>1. \A u \in Thread : pc[u] \in Moving \/ pc'[u] \in Moving =>
              u # t /\ pc'[u] = pc[u] /\ call'[u] = call[u]
    BY DEF Quiet, Moved
  <1>2. /\ \A u \in Thread : \A p \in Moving :
             /\ pc'[u] = p <=> pc[u] = p
             /\ pc[u] = p => call'[u] = call[u]
    BY <1>1
  <1>3. ASSUME NEW y PROVE Owned(y)' = Owned(y)
    BY <1>2 DEF Owned, Moving
  <1>4. ASSUME NEW y PROVE Leaving(y)' = Leaving(y)
    BY <1>2 DEF Leaving, Moving
  <1>5. Arriving' = Arriving
    <2>1. \A s : s \in Arriving' <=> s \in Arriving
      BY <1>2 DEF Arriving, Moving
    <2> QED BY <2>1
  <1> QED BY <1>1, <1>3, <1>4, <1>5

LEMMA QuietExclusive ==
  ASSUME IInv, NEW t \in Thread, Quiet(t), UNCHANGED <<mem_blocks, free_list, heap>>
  PROVE  SuperExclusive'
  BY QuietOwners DEF IInv, SuperExclusive, Moving

LEMMA QuietKeeps ==
  ASSUME IInv, NEW t \in Thread, Quiet(t), TypeOK', CallOf(t)',
         UNCHANGED <<mem_blocks, count, use_count, free, size, last_dealloc, block_size,
                     live, free_list, heap>>,
         \A y \in Type : \/ last_request'[y] = last_request[y]
                         \/ /\ last_request'[y].super = NoSuper
                            /\ last_request'[y].index = Len(mem_blocks[y]) + 1,
         \A u \in Thread \ {t} : call[u].type \in Type =>
           mut'[call[u].type] = mut[call[u].type]
  PROVE  IInv'
  <1>1. /\ \A y : Owned(y)' = Owned(y) /\ Leaving(y)' = Leaving(y)
        /\ \A u \in Thread : pc[u] \in Moving \/ pc'[u] \in Moving =>
             u # t /\ pc'[u] = pc[u] /\ call'[u] = call[u]
    BY QuietOwners
  <1>2. SuperExclusive'
    BY QuietExclusive
  <1>3. Calls'
    <2>1. ASSUME NEW u \in Thread \ {t} PROVE CallOf(u)'
      <3>1. pc'[u] = pc[u] /\ call'[u] = call[u]
        BY DEF Quiet, Moved
      <3> QED BY <3>1, CallKept
    <2> QED BY <2>1 DEF Calls
  <1>4. \A y, s : Held(y, s)' = Held(y, s)
    BY DEF Held
  <1>5. UseCountExact'
    BY <1>1, <1>4 DEF IInv, UseCountExact
  <1>6. Blanks'
    <2>1. ASSUME NEW s \in Super, OwnedBy(s)' = {} PROVE Blank(s)'
      <3>1. OwnedBy(s) = {}
        BY <1>1, <2>1 DEF OwnedBy
      <3> QED BY <3>1 DEF IInv, Blanks, Blank
    <2>2. ASSUME NEW u \in Thread, pc'[u] = "push"
          PROVE  size'[call'[u].super] >= Required(u)'
      <3>1. pc[u] = "push" /\ call'[u] = call[u]
        BY <1>1, <2>2 DEF Moving
      <3> QED BY <3>1 DEF IInv, Blanks, Required, Needed
    <2> QED BY <2>1, <2>2 DEF Blanks
  <1>7. Emptied'
    <2>1. ASSUME NEW y \in Type, NEW s \in Owned(y), use_count[s] = 0
          PROVE  \E u \in Thread : pc'[u] = "insert" /\ call'[u].type = y /\ call'[u].super = s
      BY <1>1, <2>1 DEF IInv, Emptied, Moving
    <2> QED BY <1>1, <2>1 DEF Emptied
  <1>8. Sizes'
    <2>1. \A y : Staying(y)' = Staying(y)
      BY <1>1 DEF Staying
    <2> QED BY <1>1, <2>1 DEF IInv, Sizes
  <1>9. Caches'
    <2> SUFFICES ASSUME NEW y \in Type
                 PROVE  LET c == last_request'[y]
                            n == Len(mem_blocks[y])
                        IN /\ c.super = NoSuper => c.index \in {0, n + 1}
                           /\ c.super # NoSuper =>
                                /\ c.index \in 1 .. n
                                /\ mem_blocks[y][c.index] = c.super
                                /\ c.super \in Owned(y) => c.bitmap \in BitMaps(c.super)
                           /\ last_dealloc[y] \in 1 .. (IF n = 0 THEN 1 ELSE n)
      BY <1>1 DEF Caches, Finished, BitMaps
    <2>1. CASE last_request'[y] = last_request[y]
      BY <2>1 DEF IInv, Caches, Finished
    <2>2. CASE /\ last_request'[y].super = NoSuper
               /\ last_request'[y].index = Len(mem_blocks[y]) + 1
      BY <2>2 DEF IInv, Caches
    <2> QED BY <2>1, <2>2
  <1>10. StoreOrdered' /\ LargeEnough'
    BY <1>1 DEF IInv, StoreOrdered, LargeEnough, Needed
  <1> QED BY <1>2, <1>3, <1>5, <1>6, <1>7, <1>8, <1>9, <1>10 DEF IInv

-----------------------------------------------------------------------------
\* What the invariant says of one type.

Sound(y) ==
  /\ NoDuplicates(mem_blocks[y])
  /\ \A s \in Owned(y) :
       /\ use_count[s] = Cardinality(Held(y, s))
       /\ free[s] = (0 .. (count[s] - 1)) \ Held(y, s)
       /\ use_count[s] = 0 =>
            \E t \in Thread : pc[t] = "insert" /\ call[t].type = y /\ call[t].super = s
       /\ \E k \in 0 .. MaxBlocks : count[s] = Bits * 2 ^ k
       /\ size[s] >= Needed(y, count[s])
  /\ block_size[y] = Bits * 2 ^ Staying(y)
  /\ Finished(y) => last_request[y].index \in {0, Len(mem_blocks[y]) + 1}
  /\ ~Finished(y) =>
       /\ last_request[y].index \in 1 .. Len(mem_blocks[y])
       /\ mem_blocks[y][last_request[y].index] = last_request[y].super
       /\ last_request[y].super \in Owned(y) =>
            last_request[y].bitmap \in BitMaps(last_request[y].super)
  /\ last_dealloc[y] \in
       1 .. (IF Len(mem_blocks[y]) = 0 THEN 1 ELSE Len(mem_blocks[y]))

\* What it says of all of them together.
Apart ==
  /\ \A y, z \in Type : y # z => Owned(y) \cap Owned(z) = {}
  /\ \A y \in Type : Owned(y) \cap (Range(free_list) \cup heap \cup Arriving) = {}
  /\ NoDuplicates(free_list)
  /\ Range(free_list) \cap (heap \cup Arriving) = {}
  /\ heap \cap Arriving = {}
  /\ \A t, u \in Thread :
       pc[t] = "push" /\ pc[u] = "push" /\ t # u => call[t].super # call[u].super

LiveOwned == \A o \in live : o[2] \in Owned(o[1]) /\ o[3] < count[o[2]]

LEMMA Parts ==
  IInv => /\ TypeOK /\ Calls /\ Apart /\ LiveOwned /\ Blanks /\ StoreOrdered
          /\ \A y \in Type : Sound(y)
  <1> SUFFICES ASSUME IInv
               PROVE  /\ TypeOK /\ Calls /\ Apart /\ LiveOwned /\ Blanks /\ StoreOrdered
                      /\ \A y \in Type : Sound(y)
    OBVIOUS
  <1>1. TypeOK /\ Calls /\ Apart /\ LiveOwned /\ Blanks /\ StoreOrdered
    BY DEF IInv, SuperExclusive, UseCountExact, Apart, LiveOwned
  <1>2. ASSUME NEW y \in Type PROVE Sound(y)
    BY DEF IInv, SuperExclusive, UseCountExact, Emptied, Sizes, Caches, LargeEnough, Sound
  <1> QED BY <1>1, <1>2

LEMMA Assembled ==
  ASSUME TypeOK', Calls', Apart', LiveOwned', Blanks', StoreOrdered',
         \A y \in Type : Sound(y)'
  PROVE  IInv'
  <1>1. SuperExclusive'
    BY DEF Apart, SuperExclusive, Sound
  <1>2. UseCountExact'
    <2>1. ASSUME NEW y \in Type, NEW s \in Owned(y)', use_count'[s] = 0
          PROVE  Leaving(y)' # {}
      <3>1. PICK t \in Thread : pc'[t] = "insert" /\ call'[t].type = y /\ call'[t].super = s
        BY <2>1 DEF Sound
      <3>2. call'[t].type = y
        BY <3>1
      <3> QED BY <3>1, <3>2 DEF Leaving
    <2> QED BY <2>1 DEF UseCountExact, LiveOwned, Sound
  <1>3. Emptied'
    <2>1. ASSUME NEW y \in Type, NEW s \in Owned(y)', use_count'[s] = 0
          PROVE  \E t \in Thread : pc'[t] = "insert" /\ call'[t].type = y /\ call'[t].super = s
      BY <2>1 DEF Sound
    <2>2. \A y \in Type : \A s \in Owned(y)' : use_count'[s] = 0 =>
            \E t \in Thread : pc'[t] = "insert" /\ call'[t].type = y /\ call'[t].super = s
      BY <2>1
    <2> QED BY <2>2 DEF Emptied
  <1>4. Sizes'
    BY DEF Sizes, Sound
  <1>5. Caches'
    BY DEF Caches, Sound
  <1>6. LargeEnough'
    BY DEF LargeEnough, Sound
  <1> QED BY <1>1, <1>2, <1>3, <1>4, <1>5, <1>6 DEF IInv

\* A step that has nothing to do with a type.
LEMMA SoundKept ==
  ASSUME IInv, NEW y \in Type,
         mem_blocks'[y] = mem_blocks[y], block_size'[y] = block_size[y],
         last_request'[y] = last_request[y], last_dealloc'[y] = last_dealloc[y],
         Owned(y)' = Owned(y), Leaving(y)' = Leaving(y),
         \A s \in Owned(y) : /\ count'[s] = count[s] /\ use_count'[s] = use_count[s]
                             /\ free'[s] = free[s] /\ size'[s] = size[s],
         \A s \in Super, p \in Nat : <<y, s, p>> \in live' <=> <<y, s, p>> \in live,
         \A t \in Thread : pc[t] = "insert" /\ call[t].type = y =>
           pc'[t] = "insert" /\ call'[t] = call[t]
  PROVE  Sound(y)'
  <1>1. Sound(y)
    BY Parts
  <1>2. ASSUME NEW s \in Owned(y)
        PROVE  /\ use_count'[s] = Cardinality(Held(y, s)')
               /\ free'[s] = (0 .. (count'[s] - 1)) \ Held(y, s)'
               /\ use_count'[s] = 0 =>
                    \E t \in Thread :
                      pc'[t] = "insert" /\ call'[t].type = y /\ call'[t].super = s
               /\ \E k \in 0 .. MaxBlocks : count'[s] = Bits * 2 ^ k
               /\ size'[s] >= Needed(y, count'[s])
    <2>1. s \in Super
      BY InRange DEF IInv, TypeOK, Owned
    <2>2. count'[s] = count[s] /\ use_count'[s] = use_count[s]
          /\ free'[s] = free[s] /\ size'[s] = size[s]
      OBVIOUS
    <2>3. Held(y, s)' = Held(y, s)
      <3>1. 0 .. (count[s] - 1) \subseteq Nat
        BY <2>1 DEF IInv, TypeOK
      <3> QED BY <2>1, <2>2, <3>1 DEF Held
    <2>4. use_count[s] = 0 =>
            \E t \in Thread : pc[t] = "insert" /\ call[t].type = y /\ call[t].super = s
      BY <1>1 DEF Sound
    <2>5. use_count[s] = 0 =>
            \E t \in Thread : pc'[t] = "insert" /\ call'[t].type = y /\ call'[t].super = s
      BY <2>4
    <2> QED BY <1>1, <2>2, <2>3, <2>5 DEF Sound
  <1>3. Staying(y)' = Staying(y) /\ Finished(y)' = Finished(y)
    BY DEF Staying, Finished
  <1>4. last_request[y].super \in Owned(y) =>
          BitMaps(last_request[y].super)' = BitMaps(last_request[y].super)
    BY DEF BitMaps
  <1>5. block_size'[y] = Bits * 2 ^ Staying(y)' /\ NoDuplicates(mem_blocks'[y])
    BY <1>1, <1>3 DEF Sound
  <1>6. /\ Finished(y)' => last_request'[y].index \in {0, Len(mem_blocks'[y]) + 1}
        /\ ~Finished(y)' =>
             /\ last_request'[y].index \in 1 .. Len(mem_blocks'[y])
             /\ mem_blocks'[y][last_request'[y].index] = last_request'[y].super
             /\ last_request'[y].super \in Owned(y)' =>
                  last_request'[y].bitmap \in BitMaps(last_request[y].super)'
        /\ last_dealloc'[y] \in
             1 .. (IF Len(mem_blocks'[y]) = 0 THEN 1 ELSE Len(mem_blocks'[y]))
    BY <1>1, <1>3, <1>4 DEF Sound
  <1> QED BY <1>2, <1>5, <1>6 DEF Sound, Needed, NoDuplicates, BitMaps

\* To show of a type after a step.
LEMMA SoundNext ==
  ASSUME NEW y \in Type, NoDuplicates(mem_blocks'[y]),
         \A s \in Owned(y)' :
           /\ use_count'[s] = Cardinality(Held(y, s)')
           /\ free'[s] = (0 .. (count'[s] - 1)) \ Held(y, s)'
           /\ use_count'[s] = 0 =>
                \E t \in Thread : pc'[t] = "insert" /\ call'[t].type = y /\ call'[t].super = s
           /\ \E k \in 0 .. MaxBlocks : count'[s] = Bits * 2 ^ k
           /\ size'[s] >= Needed(y, count'[s]),
         block_size'[y] = Bits * 2 ^ Staying(y)',
         \/ /\ last_request'[y].super = NoSuper
            /\ last_request'[y].index \in {0, Len(mem_blocks'[y]) + 1}
         \/ /\ last_request'[y].super # NoSuper
            /\ last_request'[y].index \in 1 .. Len(mem_blocks'[y])
            /\ mem_blocks'[y][last_request'[y].index] = last_request'[y].super
            /\ last_request'[y].super \in Owned(y)' =>
                 last_request'[y].bitmap \in
                   0 .. (count'[last_request'[y].super] \div Bits - 1),
         last_dealloc'[y] \in
           1 .. (IF Len(mem_blocks'[y]) = 0 THEN 1 ELSE Len(mem_blocks'[y]))
  PROVE  Sound(y)'
  BY DEF Sound, Finished, BitMaps, Needed, NoDuplicates

\* Numbers of bit maps.
LEMMA Division ==
  ASSUME NEW b \in Nat \ {0}, NEW m \in Nat, NEW n \in Nat, n = b * m
  PROVE  /\ n \div b = m
         /\ \A p \in 0 .. n - 1 : p \div b \in 0 .. m - 1
  <1>1. n \div b = m
    OBVIOUS
  <1>2. ASSUME NEW p \in 0 .. n - 1 PROVE p \div b \in 0 .. m - 1
    <2> DEFINE q == p \div b
               r == p % b
    <2>1. q \in Int /\ r \in 0 .. b - 1 /\ p = b * q + r
      OBVIOUS
    <2>2. q >= 0
      OBVIOUS
    <2>3. q < m
      <3> SUFFICES ASSUME q >= m PROVE FALSE
        BY <2>1
      <3> HIDE DEF q, r
      <3>1. b * q >= b * m
        BY <2>1, <2>2
      <3> QED BY <2>1, <3>1
    <2> QED BY <2>1, <2>2, <2>3
  <1> QED BY <1>1, <1>2

LEMMA InSound ==
  ASSUME IInv, NEW y \in Type, NEW s \in Owned(y)
  PROVE  /\ s \in Super /\ s \in Range(mem_blocks[y])
         /\ count[s] \in Nat \ {0} /\ size[s] \in Nat
         /\ IsFiniteSet(Held(y, s)) /\ Held(y, s) \subseteq 0 .. (count[s] - 1)
         /\ Cardinality(Held(y, s)) \in Nat /\ Cardinality(Held(y, s)) <= count[s]
         /\ use_count[s] = Cardinality(Held(y, s))
         /\ free[s] = (0 .. (count[s] - 1)) \ Held(y, s)
         /\ \A p \in free[s] : p \in Nat /\ p \div Bits \in BitMaps(s)
         /\ 0 \in BitMaps(s)
         /\ \A z \in Type : z # y => s \notin Owned(z)
  <1>1. Sound(y) /\ TypeOK /\ Apart
    BY Parts
  <1>2. s \in Super /\ s \in Range(mem_blocks[y])
    BY <1>1, InRange DEF TypeOK, Owned
  <1>3. PICK k \in 0 .. MaxBlocks : count[s] = Bits * 2 ^ k
    BY <1>1 DEF Sound
  <1>4. k \in Nat /\ 2 ^ k \in Nat \ {0} /\ Bits \in Nat \ {0}
    <2>1. k \in Nat /\ Bits \in Nat \ {0}
      BY BitmapAssumption
    <2> QED BY <2>1, Powers
  <1>5. count[s] \in Nat /\ size[s] \in Nat
    BY <1>1, <1>2 DEF TypeOK
  <1> PICK m \in Nat : m = 2 ^ k
    BY <1>4
  <1>6. count[s] # 0 /\ m # 0
    BY <1>3, <1>4
  <1>7. /\ count[s] \div Bits = m
        /\ \A p \in 0 .. count[s] - 1 : p \div Bits \in 0 .. m - 1
    BY <1>3, <1>4, <1>5, Division
  <1>8. IsFiniteSet(0 .. (count[s] - 1)) /\ Cardinality(0 .. (count[s] - 1)) = count[s]
    <2> PICK a, b \in Int : a = 0 /\ b = count[s] - 1
      BY <1>5
    <2>1. IsFiniteSet(a .. b) /\ Cardinality(a .. b) = IF a > b THEN 0 ELSE b - a + 1
      BY FS_Interval
    <2> QED BY <1>5, <1>6, <2>1
  <1>9. Held(y, s) \subseteq 0 .. (count[s] - 1)
    BY DEF Held
  <1>10. /\ IsFiniteSet(Held(y, s)) /\ Cardinality(Held(y, s)) <= count[s]
         /\ Cardinality(Held(y, s)) \in Nat
    BY <1>8, <1>9, FS_Subset, FS_CardinalityType
  <1>11. /\ use_count[s] = Cardinality(Held(y, s))
         /\ free[s] = (0 .. (count[s] - 1)) \ Held(y, s)
    BY <1>1 DEF Sound
  <1>12. \A p \in free[s] : p \in Nat /\ p \div Bits \in BitMaps(s)
    BY <1>5, <1>7, <1>11 DEF BitMaps
  <1>13. 0 \in BitMaps(s)
    BY <1>6, <1>7 DEF BitMaps
  <1>14. \A z \in Type : z # y => s \notin Owned(z)
    BY <1>1 DEF Apart
  <1> QED
    BY <1>2, <1>5, <1>6, <1>9, <1>10, <1>11, <1>12, <1>13, <1>14

-----------------------------------------------------------------------------
\* One lemma for every action.

LEMMA AllocateRefillKeeps ==
  ASSUME IInv, NEW t \in Thread, NEW y \in Type, AllocateRefill(t, y) PROVE IInv'
  <1> USE BitmapAssumption
  <1>1. /\ pc[t] = "idle" /\ Unlocked(mut[y]) /\ pc' = [pc EXCEPT ![t] = "get"]
        /\ mut' = [mut EXCEPT ![y] = Locker(t)]
        /\ call' = [call EXCEPT ![t] = [type |-> y, super |-> NoSuper]]
        /\ UNCHANGED <<mem_blocks, count, use_count, free, size, last_dealloc,
                       block_size, live, free_list, bfl_mutex, handlerVars, heap>>
        /\ Len(mem_blocks[y]) < MaxBlocks
    BY DEF AllocateRefill, Goto
  <1>2. TypeOK
    BY DEF IInv
  <1>3. Quiet(t)
    BY <1>1, <1>2 DEF TypeOK, Quiet, Moved, Moving
  <1>4. \A z \in Type : \/ last_request'[z] = last_request[z]
                        \/ /\ last_request'[z].super = NoSuper
                           /\ last_request'[z].index = Len(mem_blocks[z]) + 1
                           /\ last_request'[z].bitmap = 0
    BY <1>2 DEF AllocateRefill, TypeOK, ResetTo
  <1>5. last_request' \in [Type -> [index : 0 .. (MaxBlocks + 1),
                               super : Super \cup {NoSuper}, bitmap : Nat]]
    <2>1. Len(mem_blocks[y]) + 1 \in 0 .. (MaxBlocks + 1)
      BY <1>1, <1>2 DEF TypeOK
    <2>2. [[index |-> 0, super |-> NoSuper, bitmap |-> 0]
             EXCEPT !.index = Len(mem_blocks[y]) + 1] \in
            [index : 0 .. (MaxBlocks + 1), super : Super \cup {NoSuper}, bitmap : Nat]
      BY <2>1
    <2>3. \/ last_request' = last_request
          \/ last_request' = [last_request EXCEPT ![y] =
               [[index |-> 0, super |-> NoSuper, bitmap |-> 0]
                  EXCEPT !.index = Len(mem_blocks[y]) + 1]]
      BY DEF AllocateRefill, ResetTo
    <2> QED BY <1>2, <2>2, <2>3 DEF TypeOK
  <1>6. TypeOK'
    <2>1. /\ mut' \in [Type -> Thread \cup {NoThread}]
          /\ pc' \in [Thread -> Pc]
          /\ call' \in [Thread -> [type : Type \cup {NoType}, super : Super \cup {NoSuper}]]
      BY <1>1, <1>2 DEF TypeOK, Locker, Pc
    <2> QED BY <1>1, <1>2, <1>5, <2>1 DEF TypeOK, handlerVars
  <1>7. CallOf(t)'
    BY <1>1, <1>2 DEF TypeOK, CallOf, Asking, Locker
  <1>8. \A u \in Thread \ {t} : call[u].type \in Type =>
           mut'[call[u].type] = mut[call[u].type]
    BY <1>1, <1>2, NoCaller DEF TypeOK
  <1> QED BY <1>1, <1>3, <1>4, <1>6, <1>7, <1>8, QuietKeeps

\* The steps that touch neither what types have nor _S_mut.
LEMMA AsideKeeps ==
  ASSUME IInv, NEW t \in Thread, NEW p \in Asking \cup {"idle"},
         pc[t] \in Asking \cup {"idle"}, pc' = [pc EXCEPT ![t] = p],
         p = "idle" => call[t] = NoCall,
         p \in {"get", "handler", "new"} => call[t].type \in Type,
         call[t].super = NoSuper,
         pc[t] # "idle" \/ call[t].type \notin Type,
         UNCHANGED <<blockVars, size, free_list, heap, call>>,
         bfl_mutex' \in Thread \cup {NoThread},
         {new_handler', old_handler'} \subseteq {"program", "oom"},
         handled_oom' \in BOOLEAN
  PROVE  IInv'
  <1>1. TypeOK /\ CallOf(t)
    BY DEF IInv, Calls
  <1>2. TypeOK'
    BY <1>1 DEF TypeOK, blockVars, Asking, Pc
  <1>3. Quiet(t)
    BY <1>1 DEF TypeOK, Quiet, Moved, Moving, Asking
  <1>4. CallOf(t)'
    BY <1>1 DEF TypeOK, CallOf, Asking, blockVars, Locker
  <1> QED BY <1>2, <1>3, <1>4, QuietKeeps DEF blockVars

LEMMA GetNewKeeps ==
  ASSUME IInv, NEW t \in Thread, GetNew(t) PROVE IInv'
  <1>1. TypeOK /\ CallOf(t)
    BY DEF IInv, Calls
  <1>2. pc[t] = "get" /\ pc' = [pc EXCEPT ![t] = "handler"]
        /\ UNCHANGED <<blockVars, size, free_list, handled_oom, heap, call>>
        /\ bfl_mutex' = Locker(t) /\ old_handler' = new_handler /\ new_handler' = "oom"
    BY DEF GetNew, Goto
  <1>3. bfl_mutex' \in Thread \cup {NoThread}
    BY <1>2 DEF Locker
  <1> QED BY <1>1, <1>2, <1>3, AsideKeeps DEF TypeOK, CallOf, Asking

LEMMA HandlerResetKeeps ==
  ASSUME IInv, NEW t \in Thread, HandlerReset(t) PROVE IInv'
  <1>1. TypeOK /\ CallOf(t)
    BY DEF IInv, Calls
  <1>2. pc[t] = "handler" /\ pc' = [pc EXCEPT ![t] = "new"]
        /\ UNCHANGED <<blockVars, size, free_list, bfl_mutex, new_handler,
                       old_handler, heap, call>>
        /\ handled_oom' = FALSE
    BY DEF HandlerReset, Goto
  <1> QED BY <1>1, <1>2, AsideKeeps DEF TypeOK, CallOf, Asking

LEMMA ElsewhereFailsKeeps ==
  ASSUME IInv, NEW t \in Thread, ElsewhereFails(t) PROVE IInv'
  <1>1. TypeOK /\ CallOf(t)
    BY DEF IInv, Calls
  <1>2. pc[t] = "idle" /\ pc' = [pc EXCEPT ![t] = "clear"]
        /\ UNCHANGED <<blockVars, size, free_list, bfl_mutex, handlerVars, heap, call>>
    BY DEF ElsewhereFails, Goto
  <1>3. call[t].super = NoSuper /\ call[t].type \notin Type
    BY <1>1, <1>2, BitmapAssumption DEF CallOf, NoCall
  <1> QED BY <1>1, <1>2, <1>3, AsideKeeps DEF TypeOK, Asking, handlerVars

LEMMA RestoreKeeps ==
  ASSUME IInv, NEW t \in Thread, Restore(t) PROVE IInv'
  <1>1. TypeOK /\ CallOf(t)
    BY DEF IInv, Calls
  <1>2. pc[t] = "restore" /\ pc' = [pc EXCEPT ![t] = "handled"]
        /\ new_handler' = old_handler
        /\ UNCHANGED <<blockVars, size, free_list, bfl_mutex, old_handler,
                       handled_oom, heap, call>>
    BY DEF Restore, Goto
  <1> QED BY <1>1, <1>2, AsideKeeps DEF TypeOK, CallOf, Asking

LEMMA HandledKeeps ==
  ASSUME IInv, NEW t \in Thread, Handled(t) PROVE IInv'
  <1>1. TypeOK /\ CallOf(t)
    BY DEF IInv, Calls
  <1>2. pc[t] = "handled"
        /\ pc' = [pc EXCEPT ![t] = IF call[t] = NoCall THEN "idle" ELSE "new"]
        /\ handled_oom' = TRUE
        /\ UNCHANGED <<blockVars, size, free_list, bfl_mutex, new_handler,
                       old_handler, heap, call>>
    BY DEF Handled, Goto
  <1>3. call[t].super = NoSuper /\ (call[t] # NoCall => call[t].type \in Type)
    BY <1>1, <1>2 DEF TypeOK, CallOf, Asking, NoCall
  <1> PICK p \in {"idle", "new"} : p = IF call[t] = NoCall THEN "idle" ELSE "new"
    OBVIOUS
  <1> QED BY <1>1, <1>2, <1>3, AsideKeeps DEF TypeOK, Asking

LEMMA NewFailsKeeps ==
  ASSUME IInv, NEW t \in Thread, NewFails(t) PROVE IInv'
  <1>1. TypeOK /\ CallOf(t) /\ pc[t] = "new" /\ call[t].type \in Type
        /\ call[t].super = NoSuper
    BY DEF IInv, Calls, CallOf, NewFails, Goto, Asking
  <1>2. CASE new_handler = "oom"
    <2>1. pc' = [pc EXCEPT ![t] = "clear"]
          /\ UNCHANGED <<blockVars, size, free_list, bfl_mutex, handlerVars, heap, call>>
      BY <1>2 DEF NewFails, Goto, blockVars, handlerVars
    <2> QED BY <1>1, <2>1, AsideKeeps DEF TypeOK, Asking, handlerVars
  <1>3. CASE new_handler # "oom"
    <2>1. /\ pc' = [pc EXCEPT ![t] = "idle"]
          /\ mut' = [mut EXCEPT ![call[t].type] = NoThread]
          /\ call' = [call EXCEPT ![t] = NoCall]
          /\ new_handler' = IF handled_oom THEN new_handler ELSE old_handler
          /\ bfl_mutex' = NoThread
          /\ UNCHANGED <<mem_blocks, count, use_count, free, size, last_request,
                 last_dealloc, block_size, live, free_list, old_handler,
                 handled_oom, heap>>
      BY <1>3 DEF NewFails, Goto, HandlerDone
    <2>2. TypeOK'
      <3>1. /\ mut' \in [Type -> Thread \cup {NoThread}]
            /\ pc' \in [Thread -> Pc]
            /\ call' \in [Thread -> [type : Type \cup {NoType}, super : Super \cup {NoSuper}]]
            /\ {new_handler', old_handler'} \subseteq {"program", "oom"}
        BY <1>1, <2>1 DEF TypeOK, Pc, NoCall
      <3> QED BY <1>1, <2>1, <3>1 DEF TypeOK
    <2>3. Quiet(t)
      BY <1>1, <2>1 DEF TypeOK, Quiet, Moved, Moving
    <2>4. CallOf(t)'
      BY <1>1, <2>1, BitmapAssumption DEF TypeOK, CallOf, Asking, NoCall
    <2>5. \A u \in Thread \ {t} : call[u].type \in Type =>
             mut'[call[u].type] = mut[call[u].type]
      BY <1>1, <2>1, Caller DEF TypeOK
    <2> QED BY <2>1, <2>2, <2>3, <2>4, <2>5, QuietKeeps
  <1> QED BY <1>2, <1>3

-----------------------------------------------------------------------------
\* Objects are given and taken back: no super block moves.

LEMMA SameOwners ==
  ASSUME \A u \in Thread : pc'[u] = "erase" <=> pc[u] = "erase",
         \A u \in Thread : pc[u] = "erase" => call'[u] = call[u],
         mem_blocks' = mem_blocks
  PROVE  \A y : Owned(y)' = Owned(y)
  BY DEF Owned

LEMMA SameApart ==
  ASSUME Apart, \A y \in Type : Owned(y)' = Owned(y), UNCHANGED <<free_list, heap>>,
         \A u \in Thread : pc'[u] = "push" => pc[u] = "push" /\ call'[u] = call[u]
  PROVE  Apart'
  <1>1. Arriving' \subseteq Arriving
    BY DEF Arriving
  <1> QED BY <1>1 DEF Apart

LEMMA GiveKeeps ==
  ASSUME IInv, NEW t \in Thread, NEW y \in Type, pc[t] = "idle", Unlocked(mut[y]),
         NEW s \in Owned(y), NEW p \in free[s],
         NEW i \in 1 .. Len(mem_blocks[y]), mem_blocks[y][i] = s, NEW b \in BitMaps(s),
         free' = [free EXCEPT ![s] = free[s] \ {p}],
         use_count' = [use_count EXCEPT ![s] = use_count[s] + 1],
         live' = live \cup {<<y, s, p>>},
         last_request' = [last_request EXCEPT ![y] =
                            [index |-> i, super |-> s, bitmap |-> b]],
         UNCHANGED <<mem_blocks, count, size, last_dealloc, block_size, mut,
                     free_list, bfl_mutex, handlerVars, heap, pc, call>>
  PROVE  IInv'
  <1> USE BitmapAssumption
  <1>1. TypeOK /\ Calls /\ Apart /\ LiveOwned /\ Blanks /\ StoreOrdered
        /\ \A z \in Type : Sound(z)
    BY Parts
  <1>2. \A z : Owned(z)' = Owned(z) /\ Leaving(z)' = Leaving(z)
    <2>1. \A z : Leaving(z)' = Leaving(z)
      BY DEF Leaving
    <2> QED BY <2>1, SameOwners
  <1>3. /\ s \in Super /\ p \in Nat /\ p \in 0 .. (count[s] - 1) /\ p \notin Held(y, s)
        /\ count[s] \in Nat \ {0} /\ IsFiniteSet(Held(y, s))
        /\ Held(y, s) \subseteq 0 .. (count[s] - 1)
        /\ use_count[s] = Cardinality(Held(y, s)) /\ Cardinality(Held(y, s)) \in Nat
        /\ free[s] = (0 .. (count[s] - 1)) \ Held(y, s)
        /\ \A z \in Type : z # y => s \notin Owned(z)
    BY InSound
  <1>4. /\ \A r \in Super : r # s => free'[r] = free[r] /\ use_count'[r] = use_count[r]
        /\ free'[s] = free[s] \ {p} /\ use_count'[s] = use_count[s] + 1
        /\ \A z \in Type : z # y => last_request'[z] = last_request[z]
        /\ last_request'[y] = [index |-> i, super |-> s, bitmap |-> b]
    BY <1>1, <1>3 DEF TypeOK
  <1>5. Held(y, s)' = Held(y, s) \cup {p}
    BY <1>3 DEF Held
  <1>6. Cardinality(Held(y, s)') = Cardinality(Held(y, s)) + 1
    <2>1. Cardinality(Held(y, s) \cup {p}) = Cardinality(Held(y, s)) + 1
      BY <1>3, FS_AddElement
    <2> QED BY <1>5, <2>1
  <1>7. use_count'[s] \in Nat /\ use_count'[s] <= count[s]
    <2>1. Held(y, s)' \subseteq 0 .. (count[s] - 1)
      BY <1>3, <1>5
    <2>2. IsFiniteSet(0 .. (count[s] - 1)) /\ Cardinality(0 .. (count[s] - 1)) = count[s]
      <3> PICK m, n \in Int : m = 0 /\ n = count[s] - 1
        BY <1>3
      <3>1. IsFiniteSet(m .. n) /\ Cardinality(m .. n) = IF m > n THEN 0 ELSE n - m + 1
        BY FS_Interval
      <3> QED BY <1>3, <3>1
    <2>3. Cardinality(Held(y, s)') <= Cardinality(0 .. (count[s] - 1))
      BY <2>1, <2>2, FS_Subset
    <2> QED BY <1>3, <1>4, <1>6, <2>2, <2>3
  <1>8. TypeOK'
    <2>1. /\ free' \in [Super -> SUBSET Nat] /\ use_count' \in [Super -> Nat]
          /\ \A r \in Super : use_count'[r] <= count[r]
                              /\ free'[r] \subseteq 0 .. (count[r] - 1)
      <3>1. /\ free \in [Super -> SUBSET Nat] /\ use_count \in [Super -> Nat]
            /\ \A r \in Super : use_count[r] <= count[r]
                                /\ free[r] \subseteq 0 .. (count[r] - 1)
        BY <1>1 DEF TypeOK
      <3>2. free[s] \ {p} \in SUBSET Nat
        BY <1>3, <3>1
      <3>3. use_count[s] + 1 \in Nat
        BY <1>4, <1>7
      <3>4. free' \in [Super -> SUBSET Nat] /\ use_count' \in [Super -> Nat]
        BY <3>1, <3>2, <3>3
      <3>5. ASSUME NEW r \in Super
            PROVE  use_count'[r] <= count[r] /\ free'[r] \subseteq 0 .. (count[r] - 1)
        <4>1. CASE r = s
          BY <1>4, <1>7, <3>1, <4>1
        <4>2. CASE r # s
          BY <1>4, <3>1, <4>2
        <4> QED BY <4>1, <4>2
      <3> QED BY <3>4, <3>5
    <2>2. last_request' \in [Type -> [index : 0 .. (MaxBlocks + 1),
                               super : Super \cup {NoSuper}, bitmap : Nat]]
      <3>1. b \in Nat /\ i \in 0 .. (MaxBlocks + 1)
        <4>1. count[s] \div Bits \in Int
          BY <1>3
        <4>2. b \in Nat
          BY <4>1 DEF BitMaps
        <4>3. Len(mem_blocks[y]) \in Nat /\ Len(mem_blocks[y]) <= MaxBlocks
          BY <1>1 DEF TypeOK
        <4> QED BY <4>2, <4>3
      <3>2. [index |-> i, super |-> s, bitmap |-> b] \in
              [index : 0 .. (MaxBlocks + 1), super : Super \cup {NoSuper}, bitmap : Nat]
        BY <1>3, <3>1
      <3> QED BY <1>1, <3>2 DEF TypeOK
    <2>3. live' \subseteq Type \X Super \X Nat
      <3>1. <<y, s, p>> \in Type \X Super \X Nat
        BY <1>3
      <3> QED BY <1>1, <3>1 DEF TypeOK
    <2> QED BY <1>1, <2>1, <2>2, <2>3 DEF TypeOK, handlerVars
  <1>9. Calls'
    <2>1. ASSUME NEW u \in Thread PROVE CallOf(u)'
      <3>1. pc[u] = "insert" => use_count'[call[u].super] = use_count[call[u].super]
        <4> SUFFICES ASSUME pc[u] = "insert"
                     PROVE  use_count'[call[u].super] = use_count[call[u].super]
          OBVIOUS
        <4>1. /\ call[u].super \in Owned(call[u].type) /\ call[u].type \in Type
              /\ call[u].super \in Super
          BY CallSuper
        <4>2. call[u].type # y
          BY NoCaller
        <4> QED BY <1>3, <1>4, <4>1, <4>2
      <3> QED BY <3>1, CallKept
    <2> QED BY <2>1 DEF Calls
  <1>10. Apart'
    BY <1>1, <1>2, SameApart
  <1>11. LiveOwned'
    <2>1. ASSUME NEW o \in live' PROVE o[2] \in Owned(o[1]) /\ o[3] < count[o[2]]
      <3>1. CASE o \in live
        BY <1>1, <3>1 DEF LiveOwned
      <3>2. CASE o = <<y, s, p>>
        BY <1>3, <3>2
      <3> QED BY <3>1, <3>2
    <2> QED BY <1>2, <2>1 DEF LiveOwned
  <1>12. Blanks'
    <2>1. ASSUME NEW r \in Super, OwnedBy(r)' = {} PROVE Blank(r)'
      <3>1. OwnedBy(r) = {}
        BY <1>2, <2>1 DEF OwnedBy
      <3>2. r # s
        BY <3>1 DEF OwnedBy
      <3> QED BY <1>1, <1>4, <3>1, <3>2 DEF Blanks, Blank
    <2>2. \A u \in Thread : pc'[u] = "push" => size'[call'[u].super] >= Required(u)'
      BY <1>1 DEF Blanks, Required, Needed
    <2> QED BY <2>1, <2>2 DEF Blanks
  <1>13. StoreOrdered'
    BY <1>1 DEF StoreOrdered
  <1>14. ASSUME NEW z \in Type, z # y PROVE Sound(z)'
    <2>1. \A r \in Owned(z) : r # s /\ r \in Super
      BY <1>3, <1>14, InSound
    <2>2. \A r \in Owned(z) : /\ count'[r] = count[r] /\ use_count'[r] = use_count[r]
                              /\ free'[r] = free[r] /\ size'[r] = size[r]
      BY <1>4, <2>1
    <2>3. \A r \in Super, q \in Nat : <<z, r, q>> \in live' <=> <<z, r, q>> \in live
      BY <1>14
    <2> QED BY <1>2, <1>4, <1>14, <2>2, <2>3, SoundKept
  <1>15. Sound(y)'
    <2>1. Sound(y)
      BY <1>1
    <2>2. ASSUME NEW r \in Owned(y)
          PROVE  /\ use_count'[r] = Cardinality(Held(y, r)')
                 /\ free'[r] = (0 .. (count'[r] - 1)) \ Held(y, r)'
                 /\ use_count'[r] = 0 => use_count[r] = 0
      <3>1. CASE r = s
        <4>1. use_count'[s] = Cardinality(Held(y, s)') /\ use_count'[s] # 0
          BY <1>3, <1>4, <1>6
        <4>2. free'[s] = (0 .. (count'[s] - 1)) \ Held(y, s)'
          BY <1>3, <1>4, <1>5
        <4> QED BY <3>1, <4>1, <4>2
      <3>2. CASE r # s
        <4>1. r \in Super
          BY InSound
        <4>2. \A q : <<y, r, q>> \in live' <=> <<y, r, q>> \in live
          BY <3>2
        <4>3. Held(y, r)' = Held(y, r)
          BY <4>2 DEF Held
        <4>4. /\ use_count[r] = Cardinality(Held(y, r))
              /\ free[r] = (0 .. (count[r] - 1)) \ Held(y, r)
          BY <2>1 DEF Sound
        <4> QED BY <1>4, <3>2, <4>1, <4>3, <4>4
      <3> QED BY <3>1, <3>2
    <2>3. ~Finished(y)' /\ Staying(y)' = Staying(y) /\ BitMaps(s)' = BitMaps(s)
      BY <1>2, <1>3, <1>4 DEF Finished, Staying, BitMaps
    <2>4. ASSUME NEW r \in Owned(y)'
          PROVE  /\ use_count'[r] = Cardinality(Held(y, r)')
                 /\ free'[r] = (0 .. (count'[r] - 1)) \ Held(y, r)'
                 /\ use_count'[r] = 0 =>
                      \E u \in Thread :
                        pc'[u] = "insert" /\ call'[u].type = y /\ call'[u].super = r
                 /\ \E k \in 0 .. MaxBlocks : count'[r] = Bits * 2 ^ k
                 /\ size'[r] >= Needed(y, count'[r])
      BY <1>2, <2>1, <2>2 DEF Sound
    <2>5. /\ NoDuplicates(mem_blocks'[y]) /\ block_size'[y] = Bits * 2 ^ Staying(y)'
          /\ last_dealloc'[y] \in
               1 .. (IF Len(mem_blocks'[y]) = 0 THEN 1 ELSE Len(mem_blocks'[y]))
      BY <2>1, <2>3 DEF Sound
    <2>6. /\ last_request'[y].index \in 1 .. Len(mem_blocks'[y])
          /\ mem_blocks'[y][last_request'[y].index] = last_request'[y].super
          /\ last_request'[y].bitmap \in 0 .. (count'[last_request'[y].super] \div Bits - 1)
      BY <1>4, <2>3 DEF BitMaps
    <2>7. last_request'[y].super # NoSuper
      BY <1>3, <1>4
    <2>8. \/ /\ last_request'[y].super = NoSuper
             /\ last_request'[y].index \in {0, Len(mem_blocks'[y]) + 1}
          \/ /\ last_request'[y].super # NoSuper
             /\ last_request'[y].index \in 1 .. Len(mem_blocks'[y])
             /\ mem_blocks'[y][last_request'[y].index] = last_request'[y].super
             /\ last_request'[y].super \in Owned(y)' =>
                  last_request'[y].bitmap \in
                    0 .. (count'[last_request'[y].super] \div Bits - 1)
      BY <2>6, <2>7
    <2> QED BY <2>4, <2>5, <2>8, SoundNext
  <1> QED BY <1>8, <1>9, <1>10, <1>11, <1>12, <1>13, <1>14, <1>15, Assembled

\* Under _S_mut, what is in the list of a type belongs to it, and the cursor
\* stands at one of its super blocks or past the end.
LEMMA Inside ==
  ASSUME IInv, NEW y \in Type, NEW t \in Thread, pc[t] = "idle", Unlocked(mut[y])
  PROVE  /\ mem_blocks[y] \in Seq(Super) /\ Len(mem_blocks[y]) \in Nat
         /\ \A i \in 1 .. Len(mem_blocks[y]) : mem_blocks[y][i] \in Owned(y)
         /\ ~Finished(y) =>
              /\ last_request[y].index \in 1 .. Len(mem_blocks[y])
              /\ mem_blocks[y][last_request[y].index] = last_request[y].super
  <1>1. TypeOK /\ Sound(y)
    BY Parts
  <1>2. Owned(y) = Range(mem_blocks[y])
    BY NoCaller
  <1>3. mem_blocks[y] \in Seq(Super)
    BY <1>1 DEF TypeOK
  <1>4. \A i \in 1 .. Len(mem_blocks[y]) : mem_blocks[y][i] \in Range(mem_blocks[y])
    BY <1>3, InRange
  <1> QED BY <1>1, <1>2, <1>3, <1>4 DEF Sound

LEMMA AllocateAheadKeeps ==
  ASSUME IInv, NEW t \in Thread, NEW y \in Type, AllocateAhead(t, y) PROVE IInv'
  <1>1. pc[t] = "idle" /\ Unlocked(mut[y]) /\ Ahead(y) # {}
    BY DEF AllocateAhead
  <1>2. /\ \A i \in 1 .. Len(mem_blocks[y]) : mem_blocks[y][i] \in Owned(y)
        /\ Len(mem_blocks[y]) \in Nat
        /\ ~Finished(y) =>
              /\ last_request[y].index \in 1 .. Len(mem_blocks[y])
              /\ mem_blocks[y][last_request[y].index] = last_request[y].super
    BY <1>1, Inside
  <1>3. ~Finished(y)
    BY <1>1 DEF Ahead
  <1> PICK at \in 1 .. Len(mem_blocks[y]) : at = last_request[y].index
    BY <1>2, <1>3
  <1>4. ASSUME NEW c \in Ahead(y)
        PROVE  /\ c[1] \in 1 .. Len(mem_blocks[y]) /\ c = <<c[1], c[2]>>
               /\ c[2] \in BitMaps(mem_blocks[y][c[1]])
               /\ FreeIn(mem_blocks[y][c[1]], c[2]) # {}
    <2>1. CASE c \in {<<at, b>> : b \in {b \in BitMaps(last_request[y].super) :
                         b >= last_request[y].bitmap
                         /\ FreeIn(last_request[y].super, b) # {}}}
      <3>1. PICK b \in BitMaps(last_request[y].super) :
              c = <<at, b>> /\ FreeIn(last_request[y].super, b) # {}
        BY <2>1
      <3>2. mem_blocks[y][at] = last_request[y].super
        BY <1>2, <1>3
      <3> QED BY <3>1, <3>2
    <2>2. CASE c \in UNION {{<<i, b>> : b \in {b \in BitMaps(mem_blocks[y][i]) :
                                            FreeIn(mem_blocks[y][i], b) # {}}} :
                        i \in (at + 1) .. Len(mem_blocks[y])}
      <3>1. PICK i \in (at + 1) .. Len(mem_blocks[y]) :
              \E b \in BitMaps(mem_blocks[y][i]) :
                c = <<i, b>> /\ FreeIn(mem_blocks[y][i], b) # {}
        BY <2>2
      <3> QED BY <1>2, <3>1
    <2> QED BY <1>3, <2>1, <2>2 DEF Ahead
  <1>5. ASSUME NEW i \in 1 .. Len(mem_blocks[y]), NEW b \in BitMaps(mem_blocks[y][i])
        PROVE  i \in Nat /\ b \in Nat
    <2>1. count[mem_blocks[y][i]] \in Nat \ {0} /\ Bits \in Nat \ {0}
      BY <1>2, InSound, BitmapAssumption
    <2>2. count[mem_blocks[y][i]] \div Bits \in Int
      BY <2>1
    <2> QED BY <2>2 DEF BitMaps
  <1>6. Ahead(y) \in SUBSET (Nat \X Nat)
    BY <1>4, <1>5
  <1>7. FirstOf(Ahead(y)) \in Ahead(y)
    BY <1>1, <1>6, FirstIn
  <1> PICK c \in Ahead(y) : c = FirstOf(Ahead(y))
    BY <1>7
  <1> PICK i \in 1 .. Len(mem_blocks[y]) : i = c[1]
    BY <1>4
  <1> PICK s \in Owned(y) : s = mem_blocks[y][i]
    BY <1>2
  <1> PICK b \in BitMaps(s) : b = c[2]
    BY <1>4
  <1>8. s = IF c[1] = last_request[y].index THEN last_request[y].super
            ELSE mem_blocks[y][c[1]]
    BY <1>2, <1>3
  <1>9. FreeIn(s, b) \in SUBSET Nat /\ FreeIn(s, b) # {} /\ FreeIn(s, b) \subseteq free[s]
    BY <1>4, InSound DEF FreeIn
  <1> PICK p \in free[s] : p = Min(FreeIn(s, b))
    BY <1>9, Least
  <1>10. /\ free' = [free EXCEPT ![s] = free[s] \ {p}]
         /\ use_count' = [use_count EXCEPT ![s] = use_count[s] + 1]
         /\ live' = live \cup {<<y, s, p>>}
         /\ last_request' = [last_request EXCEPT ![y] =
                               [index |-> i, super |-> s, bitmap |-> b]]
         /\ UNCHANGED <<mem_blocks, count, size, last_dealloc, block_size, mut,
                        free_list, bfl_mutex, handlerVars, heap, pc, call>>
    BY <1>8 DEF AllocateAhead, Give
  <1> QED BY <1>1, <1>10, GiveKeeps

LEMMA AllocateFirstFitKeeps ==
  ASSUME IInv, NEW t \in Thread, NEW y \in Type, AllocateFirstFit(t, y) PROVE IInv'
  <1>1. pc[t] = "idle" /\ Unlocked(mut[y]) /\ Fitting(y) # {}
    BY DEF AllocateFirstFit
  <1>2. /\ \A i \in 1 .. Len(mem_blocks[y]) : mem_blocks[y][i] \in Owned(y)
        /\ Len(mem_blocks[y]) \in Nat
    BY <1>1, Inside
  <1>a. \A i \in Fitting(y) : i \in 1 .. Len(mem_blocks[y]) /\ free[mem_blocks[y][i]] # {}
    BY ZenonT(30) DEF Fitting
  <1>3. Min(Fitting(y)) \in Fitting(y)
    <2>1. Fitting(y) \in SUBSET Nat
      BY <1>2, <1>a
    <2> QED BY <1>1, <2>1, Least
  <1> PICK i \in 1 .. Len(mem_blocks[y]) : i = Min(Fitting(y))
    BY <1>3, <1>a
  <1> PICK s \in Owned(y) : s = mem_blocks[y][i]
    BY <1>2
  <1>4. free[s] # {}
    BY <1>3, <1>a
  <1>5. \A p \in free[s] : p \in Nat /\ p \div Bits \in BitMaps(s)
    BY InSound
  <1> DEFINE B == {b \in BitMaps(s) : FreeIn(s, b) # {}}
  <1>6. B # {}
    <2>1. PICK p \in free[s] : p \div Bits \in BitMaps(s)
      BY <1>4, <1>5
    <2>2. p \in FreeIn(s, p \div Bits)
      BY DEF FreeIn
    <2> QED BY <2>1, <2>2
  <1>7. B \in SUBSET Nat
    <2>1. count[s] \in Nat \ {0} /\ Bits \in Nat \ {0}
      BY InSound, BitmapAssumption
    <2>2. count[s] \div Bits \in Int
      BY <2>1
    <2> QED BY <2>2 DEF BitMaps
  <1>8. Min(B) \in B
    <2> HIDE DEF B
    <2> QED BY <1>6, <1>7, Least
  <1> PICK b \in BitMaps(s) : b = Min(B) /\ FreeIn(s, b) # {}
    BY <1>8
  <1>9. FreeIn(s, b) \in SUBSET Nat /\ FreeIn(s, b) \subseteq free[s]
    BY <1>5 DEF FreeIn
  <1> PICK p \in free[s] : p = Min(FreeIn(s, b))
    BY <1>9, Least
  <1>10. PICK z \in BitMaps(s) : z = 0
    BY InSound
  <1>11. /\ free' = [free EXCEPT ![s] = free[s] \ {p}]
         /\ use_count' = [use_count EXCEPT ![s] = use_count[s] + 1]
         /\ live' = live \cup {<<y, s, p>>}
         /\ UNCHANGED <<mem_blocks, count, size, last_dealloc, block_size, mut,
                        free_list, bfl_mutex, handlerVars, heap, pc, call>>
    BY DEF AllocateFirstFit, Give
  <1>12. last_request' = [last_request EXCEPT ![y] =
                            [index |-> i, super |-> s, bitmap |-> z]]
    <2>1. i # 0
      BY <1>2
    <2> QED BY <1>10, <2>1 DEF AllocateFirstFit, ResetTo
  <1> HIDE DEF B
  <1> QED BY <1>1, <1>11, <1>12, GiveKeeps

LEMMA Found ==
  ASSUME IInv, NEW y \in Type, NEW s \in Range(mem_blocks[y])
  PROVE  IndexOf(y, s) \in 1 .. Len(mem_blocks[y]) /\ mem_blocks[y][IndexOf(y, s)] = s
  <1>1. mem_blocks[y] \in Seq(Super)
    BY DEF IInv, TypeOK
  <1>2. /\ DOMAIN mem_blocks[y] = 1 .. Len(mem_blocks[y])
        /\ \E i \in 1 .. Len(mem_blocks[y]) : mem_blocks[y][i] = s
    BY <1>1, InRange
  <1> QED BY <1>2 DEF IndexOf

\* The list of a type that nobody is asking or leaving is as long as its size
\* of the next super block says.
LEMMA Halved ==
  ASSUME IInv, NEW y \in Type, Leaving(y) = {}, Len(mem_blocks[y]) # 0
  PROVE  /\ block_size[y] \div 2 \in Nat \ {0}
         /\ block_size[y] \div 2 = Bits * 2 ^ (Len(mem_blocks[y]) - 1)
  <1>1. Len(mem_blocks[y]) \in Nat
    BY DEF IInv, TypeOK
  <1> PICK l \in Nat \ {0} : l = Len(mem_blocks[y])
    BY <1>1
  <1> PICK n \in Nat : n = l - 1
    OBVIOUS
  <1>2. 2 ^ n \in Nat \ {0} /\ 2 ^ (n + 1) = 2 * 2 ^ n
    BY Powers
  <1>3. Len(mem_blocks[y]) = n + 1
    BY <1>1
  <1>4. block_size[y] = Bits * 2 ^ (n + 1)
    BY <1>3, Parts DEF Sound, Staying
  <1> PICK m \in Nat \ {0} : m = 2 ^ n
    BY <1>2
  <1> PICK b \in Nat \ {0} : b = Bits
    BY BitmapAssumption
  <1>5. block_size[y] = b * (2 * m)
    BY <1>2, <1>4
  <1> PICK k \in Nat \ {0} : k = b * m
    OBVIOUS
  <1>6. block_size[y] = 2 * k
    BY <1>5
  <1>7. (2 * k) \div 2 = k
    <2> PICK a \in Nat \ {0} : a = 2
      OBVIOUS
    <2> PICK j \in Nat : j = k
      OBVIOUS
    <2> PICK c \in Nat : c = a * j
      OBVIOUS
    <2>1. c \div a = j
      BY ONLY Division, a \in Nat \ {0}, j \in Nat, c \in Nat, c = a * j, Zenon
    <2> QED BY <2>1
  <1> QED BY <1>6, <1>7

LEMMA DeallocateKeeps ==
  ASSUME IInv, NEW t \in Thread, NEW y \in Type, NEW s \in Super, NEW p \in Nat,
         Deallocate(t, y, s, p)
  PROVE  IInv'
  <1> USE BitmapAssumption
  <1>1. TypeOK /\ Calls /\ Apart /\ LiveOwned /\ Blanks /\ StoreOrdered
        /\ \A z \in Type : Sound(z)
    BY Parts
  <1>2. /\ pc[t] = "idle" /\ Unlocked(mut[y]) /\ <<y, s, p>> \in live
        /\ live' = live \ {<<y, s, p>>}
        /\ free' = [free EXCEPT ![s] = free[s] \cup {p}]
        /\ use_count' = [use_count EXCEPT ![s] = use_count[s] - 1]
        /\ last_dealloc' = [last_dealloc EXCEPT ![y] = IndexOf(y, s)]
        /\ UNCHANGED <<mem_blocks, count, size, last_request, free_list, bfl_mutex,
                       handlerVars, heap>>
    BY DEF Deallocate
  <1>3. IF use_count[s] = 1
        THEN /\ block_size' = [block_size EXCEPT ![y] = block_size[y] \div 2]
             /\ mut' = [mut EXCEPT ![y] = Locker(t)]
             /\ pc' = [pc EXCEPT ![t] = "insert"]
             /\ call' = [call EXCEPT ![t] = [type |-> y, super |-> s]]
        ELSE UNCHANGED <<block_size, mut, pc, call>>
    BY DEF Deallocate
  <1>4. /\ \A u \in Thread : call[u].type # y
        /\ Leaving(y) = {} /\ Owned(y) = Range(mem_blocks[y])
    BY <1>2, NoCaller
  <1>5. s \in Owned(y) /\ p < count[s]
    BY <1>1, <1>2 DEF LiveOwned
  <1>6. /\ s \in Range(mem_blocks[y])
        /\ count[s] \in Nat \ {0} /\ IsFiniteSet(Held(y, s))
        /\ Held(y, s) \subseteq 0 .. (count[s] - 1)
        /\ use_count[s] = Cardinality(Held(y, s)) /\ Cardinality(Held(y, s)) \in Nat
        /\ Cardinality(Held(y, s)) <= count[s]
        /\ free[s] = (0 .. (count[s] - 1)) \ Held(y, s)
        /\ \A z \in Type : z # y => s \notin Owned(z)
    BY <1>5, InSound
  <1>7. p \in Held(y, s) /\ p \in 0 .. (count[s] - 1)
    BY <1>2, <1>5, <1>6 DEF Held
  <1>8. Held(y, s)' = Held(y, s) \ {p}
    BY <1>2, <1>6 DEF Held
  <1>9. Cardinality(Held(y, s)') = Cardinality(Held(y, s)) - 1
    <2>1. Cardinality(Held(y, s) \ {p}) = Cardinality(Held(y, s)) - 1
      BY <1>6, <1>7, FS_RemoveElement
    <2> QED BY <1>8, <2>1
  <1>10. use_count[s] \in Nat /\ use_count[s] # 0
    <2>1. Held(y, s) # {}
      BY <1>7
    <2> QED BY <1>6, <2>1, FS_EmptySet
  <1>11. /\ \A r \in Super : r # s => free'[r] = free[r] /\ use_count'[r] = use_count[r]
         /\ free'[s] = free[s] \cup {p} /\ use_count'[s] = use_count[s] - 1
         /\ use_count'[s] \in Nat /\ use_count'[s] <= count[s]
    <2>1. /\ \A r \in Super : r # s => free'[r] = free[r] /\ use_count'[r] = use_count[r]
          /\ free'[s] = free[s] \cup {p} /\ use_count'[s] = use_count[s] - 1
      BY <1>1, <1>2 DEF TypeOK
    <2> QED BY <1>6, <1>10, <2>1
  <1> PICK d \in 1 .. Len(mem_blocks[y]) : d = IndexOf(y, s) /\ mem_blocks[y][d] = s
    BY <1>6, Found
  <1>12. /\ Len(mem_blocks[y]) \in Nat /\ Len(mem_blocks[y]) <= MaxBlocks
         /\ Len(mem_blocks[y]) # 0
    BY <1>1 DEF TypeOK
  <1>13. /\ block_size[y] \div 2 \in Nat \ {0}
         /\ block_size[y] \div 2 = Bits * 2 ^ (Len(mem_blocks[y]) - 1)
    BY <1>4, <1>12, Halved
  <1>14. /\ \A u \in Thread : pc'[u] \in {"push", "erase"} <=> pc[u] \in {"push", "erase"}
         /\ \A u \in Thread : pc[u] # "idle" => pc'[u] = pc[u] /\ call'[u] = call[u]
         /\ \A u \in Thread : u # t => pc'[u] = pc[u] /\ call'[u] = call[u]
         /\ \A z \in Type : z # y => mut'[z] = mut[z] /\ block_size'[z] = block_size[z]
                                     /\ last_dealloc'[z] = last_dealloc[z]
         /\ last_dealloc'[y] = d
    BY <1>1, <1>2, <1>3 DEF TypeOK
  <1>15. use_count[s] = 1 =>
           /\ block_size'[y] = block_size[y] \div 2 /\ mut'[y] = Locker(t)
           /\ pc'[t] = "insert" /\ call'[t] = [type |-> y, super |-> s]
    BY <1>1, <1>3 DEF TypeOK
  <1>16. \A z : Owned(z)' = Owned(z)
    <2>1. /\ \A u \in Thread : pc'[u] = "erase" <=> pc[u] = "erase"
          /\ \A u \in Thread : pc[u] = "erase" => call'[u] = call[u]
          /\ mem_blocks' = mem_blocks
      BY <1>1, <1>2, <1>3 DEF TypeOK
    <2> QED BY <2>1, SameOwners
  <1>17. \A z \in Type : z # y => Leaving(z)' = Leaving(z)
    <2> SUFFICES ASSUME NEW z \in Type, z # y, NEW u \in Thread
                 PROVE  /\ pc'[u] \in {"insert", "erase"} /\ call'[u].type = z
                           <=> pc[u] \in {"insert", "erase"} /\ call[u].type = z
      BY DEF Leaving
    <2>1. CASE pc'[u] = pc[u] /\ call'[u] = call[u]
      BY <2>1
    <2>2. CASE u = t /\ use_count[s] = 1
      BY <1>2, <1>15, <2>2
    <2> QED BY <1>3, <1>14, <2>1, <2>2
  <1>18. Leaving(y)' = IF use_count[s] = 1 THEN {t} ELSE {}
    BY <1>1, <1>3, <1>4, <1>14, <1>15 DEF Leaving
  <1>19. TypeOK'
    <2>1. /\ free' \in [Super -> SUBSET Nat] /\ use_count' \in [Super -> Nat]
          /\ \A r \in Super : use_count'[r] <= count[r]
                              /\ free'[r] \subseteq 0 .. (count[r] - 1)
      <3>1. /\ free \in [Super -> SUBSET Nat] /\ use_count \in [Super -> Nat]
            /\ \A r \in Super : use_count[r] <= count[r]
                                /\ free[r] \subseteq 0 .. (count[r] - 1)
        BY <1>1 DEF TypeOK
      <3>2. free[s] \cup {p} \in SUBSET Nat /\ use_count[s] - 1 \in Nat
        BY <1>10, <3>1
      <3>3. free' \in [Super -> SUBSET Nat] /\ use_count' \in [Super -> Nat]
        BY <1>2, <3>1, <3>2
      <3>4. ASSUME NEW r \in Super
            PROVE  use_count'[r] <= count[r] /\ free'[r] \subseteq 0 .. (count[r] - 1)
        <4>1. CASE r = s
          BY <1>7, <1>11, <3>1, <4>1
        <4>2. CASE r # s
          BY <1>11, <3>1, <4>2
        <4> QED BY <4>1, <4>2
      <3> QED BY <3>3, <3>4
    <2>2. last_dealloc' \in [Type -> 1 .. (MaxBlocks + 1)]
      <3>1. d \in 1 .. (MaxBlocks + 1)
        BY <1>12
      <3> QED BY <1>1, <1>2, <3>1 DEF TypeOK
    <2>3. /\ block_size' \in [Type -> Nat \ {0}]
          /\ mut' \in [Type -> Thread \cup {NoThread}]
          /\ pc' \in [Thread -> Pc]
          /\ call' \in [Thread -> [type : Type \cup {NoType}, super : Super \cup {NoSuper}]]
      <3>1. /\ block_size \in [Type -> Nat \ {0}]
            /\ mut \in [Type -> Thread \cup {NoThread}]
            /\ pc \in [Thread -> Pc] /\ "insert" \in Pc
            /\ call \in [Thread -> [type : Type \cup {NoType}, super : Super \cup {NoSuper}]]
            /\ Locker(t) \in Thread \cup {NoThread}
            /\ [type |-> y, super |-> s] \in
                 [type : Type \cup {NoType}, super : Super \cup {NoSuper}]
        BY <1>1 DEF TypeOK, Pc, Locker
      <3>2. CASE use_count[s] = 1
        <4> PICK h \in Nat \ {0} : h = block_size[y] \div 2
          BY <1>13
        <4>1. block_size' \in [Type -> Nat \ {0}]
          BY <1>3, <3>1, <3>2
        <4>4. mut' \in [Type -> Thread \cup {NoThread}]
          BY <1>3, <3>1, <3>2
        <4>2. pc' \in [Thread -> Pc]
          BY <1>3, <3>1, <3>2
        <4>3. call' \in [Thread -> [type : Type \cup {NoType}, super : Super \cup {NoSuper}]]
          BY <1>3, <3>1, <3>2
        <4> QED BY <4>1, <4>2, <4>3, <4>4
      <3>3. CASE use_count[s] # 1
        BY <1>3, <3>1, <3>3
      <3> QED BY <3>2, <3>3
    <2> QED BY <1>1, <1>2, <2>1, <2>2, <2>3 DEF TypeOK, handlerVars
  <1>20. Calls'
    <2>1. ASSUME NEW u \in Thread, u # t PROVE CallOf(u)'
      <3>1. pc[u] = "insert" => use_count'[call[u].super] = use_count[call[u].super]
        <4> SUFFICES ASSUME pc[u] = "insert"
                     PROVE  use_count'[call[u].super] = use_count[call[u].super]
          OBVIOUS
        <4>1. /\ call[u].super \in Owned(call[u].type) /\ call[u].type \in Type
              /\ call[u].super \in Super
          BY CallSuper
        <4> QED BY <1>4, <1>6, <1>11, <4>1
      <3>2. call[u].type \in Type => /\ mut'[call[u].type] = mut[call[u].type]
                                     /\ mem_blocks'[call[u].type] = mem_blocks[call[u].type]
        BY <1>2, <1>4, <1>14
      <3> QED BY <1>14, <2>1, <3>1, <3>2, CallKept
    <2>2. CallOf(t)'
      <3>1. CASE use_count[s] = 1
        BY <1>2, <1>6, <1>11, <1>15, <3>1 DEF CallOf, Asking
      <3>2. CASE use_count[s] # 1
        <4>1. UNCHANGED <<mut, pc, call>>
          BY <1>3, <3>2
        <4> QED BY <1>2, <4>1, CallKept
      <3> QED BY <3>1, <3>2
    <2> QED BY <2>1, <2>2 DEF Calls
  <1>21. Apart'
    <2>1. \A u \in Thread : pc'[u] = "push" => pc[u] = "push" /\ call'[u] = call[u]
      BY <1>1, <1>2, <1>3 DEF TypeOK
    <2> QED BY <1>1, <1>2, <1>16, <2>1, SameApart
  <1>22. LiveOwned'
    BY <1>1, <1>2, <1>16 DEF LiveOwned
  <1>23. Blanks'
    <2>1. ASSUME NEW r \in Super, OwnedBy(r)' = {} PROVE Blank(r)'
      <3>1. OwnedBy(r) = {}
        BY <1>16, <2>1 DEF OwnedBy
      <3>2. r # s
        BY <1>5, <3>1 DEF OwnedBy
      <3> QED BY <1>1, <1>2, <1>11, <3>1, <3>2 DEF Blanks, Blank
    <2>2. ASSUME NEW u \in Thread, pc'[u] = "push"
          PROVE  size'[call'[u].super] >= Required(u)'
      <3>1. pc[u] = "push" /\ call'[u] = call[u] /\ call[u].type # y
        BY <1>1, <1>2, <1>3, <1>4, <2>2 DEF TypeOK
      <3>2. call[u].type \in Type
        BY <3>1, CallSuper
      <3>3. block_size'[call[u].type] = block_size[call[u].type]
        BY <1>14, <3>1, <3>2
      <3> QED BY <1>1, <1>2, <3>1, <3>3 DEF Blanks, Required, Needed
    <2> QED BY <2>1, <2>2 DEF Blanks
  <1>24. StoreOrdered'
    BY <1>1, <1>2 DEF StoreOrdered
  <1>25. ASSUME NEW z \in Type, z # y PROVE Sound(z)'
    <2>1. \A r \in Owned(z) : r # s /\ r \in Super
      BY <1>6, <1>25, InSound
    <2>2. \A r \in Owned(z) : /\ count'[r] = count[r] /\ use_count'[r] = use_count[r]
                              /\ free'[r] = free[r] /\ size'[r] = size[r]
      BY <1>2, <1>11, <2>1
    <2>3. \A r \in Super, q \in Nat : <<z, r, q>> \in live' <=> <<z, r, q>> \in live
      BY <1>2, <1>25
    <2>4. /\ mem_blocks'[z] = mem_blocks[z] /\ block_size'[z] = block_size[z]
          /\ last_request'[z] = last_request[z] /\ last_dealloc'[z] = last_dealloc[z]
          /\ Owned(z)' = Owned(z) /\ Leaving(z)' = Leaving(z)
      BY <1>2, <1>14, <1>16, <1>17, <1>25
    <2>5. \A u \in Thread : pc[u] = "insert" /\ call[u].type = z =>
            pc'[u] = "insert" /\ call'[u] = call[u]
      BY <1>14
    <2> QED BY <2>2, <2>3, <2>4, <2>5, SoundKept
  <1>26. Sound(y)'
    <2>1. Sound(y)
      BY <1>1
    <2>2. ASSUME NEW r \in Owned(y), r # s
          PROVE  /\ use_count'[r] = Cardinality(Held(y, r)')
                 /\ free'[r] = (0 .. (count'[r] - 1)) \ Held(y, r)'
                 /\ use_count'[r] = use_count[r]
      <3>1. r \in Super
        BY InSound
      <3>2. \A q : <<y, r, q>> \in live' <=> <<y, r, q>> \in live
        BY <1>2, <2>2
      <3>3. Held(y, r)' = Held(y, r)
        BY <1>2, <3>2 DEF Held
      <3>4. /\ use_count[r] = Cardinality(Held(y, r))
            /\ free[r] = (0 .. (count[r] - 1)) \ Held(y, r)
        BY <2>1 DEF Sound
      <3> QED BY <1>2, <1>11, <2>2, <3>1, <3>3, <3>4
    <2>3. /\ use_count'[s] = Cardinality(Held(y, s)')
          /\ free'[s] = (0 .. (count'[s] - 1)) \ Held(y, s)'
      <3>1. use_count'[s] = Cardinality(Held(y, s)')
        BY <1>6, <1>9, <1>11
      <3>2. free'[s] = (0 .. (count'[s] - 1)) \ Held(y, s)'
        BY <1>2, <1>6, <1>7, <1>8, <1>11
      <3> QED BY <3>1, <3>2
    <2>4. use_count'[s] = 0 => pc'[t] = "insert" /\ call'[t].type = y /\ call'[t].super = s
      BY <1>10, <1>11, <1>15
    <2>5. \A r \in Owned(y) : use_count[r] # 0
      BY <1>4, <2>1 DEF Sound
    <2>6. ASSUME NEW r \in Owned(y)'
          PROVE  /\ use_count'[r] = Cardinality(Held(y, r)')
                 /\ free'[r] = (0 .. (count'[r] - 1)) \ Held(y, r)'
                 /\ use_count'[r] = 0 =>
                      \E u \in Thread :
                        pc'[u] = "insert" /\ call'[u].type = y /\ call'[u].super = r
                 /\ \E k \in 0 .. MaxBlocks : count'[r] = Bits * 2 ^ k
                 /\ size'[r] >= Needed(y, count'[r])
      <3>1. r \in Owned(y)
        BY <1>16
      <3>2. /\ \E k \in 0 .. MaxBlocks : count'[r] = Bits * 2 ^ k
            /\ size'[r] >= Needed(y, count'[r])
        BY <1>2, <2>1, <3>1 DEF Sound
      <3>3. CASE r = s
        BY <2>3, <2>4, <3>2, <3>3
      <3>4. CASE r # s
        BY <2>2, <2>5, <3>1, <3>2, <3>4
      <3> QED BY <3>3, <3>4
    <2>7. block_size'[y] = Bits * 2 ^ Staying(y)'
      <3>1. Staying(y)' = IF use_count[s] = 1 THEN Len(mem_blocks[y]) - 1
                          ELSE Len(mem_blocks[y])
        BY <1>2, <1>18 DEF Staying
      <3>2. Staying(y) = Len(mem_blocks[y]) /\ block_size[y] = Bits * 2 ^ Staying(y)
        BY <1>4, <2>1 DEF Sound, Staying
      <3> QED BY <1>3, <1>13, <1>15, <3>1, <3>2
    <2>8. \/ /\ last_request'[y].super = NoSuper
             /\ last_request'[y].index \in {0, Len(mem_blocks'[y]) + 1}
          \/ /\ last_request'[y].super # NoSuper
             /\ last_request'[y].index \in 1 .. Len(mem_blocks'[y])
             /\ mem_blocks'[y][last_request'[y].index] = last_request'[y].super
             /\ last_request'[y].super \in Owned(y)' =>
                  last_request'[y].bitmap \in
                    0 .. (count'[last_request'[y].super] \div Bits - 1)
      BY <1>2, <1>16, <2>1 DEF Sound, Finished, BitMaps
    <2>9. /\ NoDuplicates(mem_blocks'[y])
          /\ last_dealloc'[y] \in
               1 .. (IF Len(mem_blocks'[y]) = 0 THEN 1 ELSE Len(mem_blocks'[y]))
      BY <1>2, <1>12, <1>14, <2>1 DEF Sound
    <2> QED BY <2>6, <2>7, <2>8, <2>9, SoundNext
  <1> QED
    BY <1>19, <1>20, <1>21, <1>22, <1>23, <1>24, <1>25, <1>26, Assembled

-----------------------------------------------------------------------------
\* Super blocks move between the heap, the store and the calls that ask.

LEMMA AskedKeeps ==
  ASSUME IInv, NEW t \in Thread, Moved(t),
         pc[t] \notin {"insert", "erase"}, pc'[t] \notin {"insert", "erase"},
         UNCHANGED <<mem_blocks, count, use_count, free, last_request, last_dealloc,
                     block_size, live>>,
         \A y \in Type : \A s \in Owned(y) : size'[s] = size[s],
         \A u \in Thread \ {t} : call[u].type \in Type =>
           mut'[call[u].type] = mut[call[u].type],
         \A u \in Thread : pc'[u] = "push" => size'[call'[u].super] >= Required(u)',
         TypeOK', CallOf(t)', Apart', StoreOrdered'
  PROVE  IInv'
  <1>1. TypeOK /\ Calls /\ LiveOwned /\ Blanks /\ \A y \in Type : Sound(y)
    BY Parts
  <1>2. /\ \A u \in Thread : pc'[u] \in {"insert", "erase"} <=> pc[u] \in {"insert", "erase"}
        /\ \A u \in Thread : pc'[u] = "erase" <=> pc[u] = "erase"
        /\ \A u \in Thread : pc[u] \in {"insert", "erase"} =>
             pc'[u] = pc[u] /\ call'[u] = call[u]
    BY DEF Moved
  <1>3. \A y : Owned(y)' = Owned(y)
    BY <1>2, SameOwners
  <1>4. \A y : Leaving(y)' = Leaving(y)
    BY <1>2 DEF Leaving
  <1>5. Calls'
    <2>1. ASSUME NEW u \in Thread \ {t} PROVE CallOf(u)'
      <3>1. pc'[u] = pc[u] /\ call'[u] = call[u]
        BY DEF Moved
      <3> QED BY <3>1, CallKept
    <2> QED BY <2>1 DEF Calls
  <1>6. LiveOwned'
    BY <1>1, <1>3 DEF LiveOwned
  <1>7. Blanks'
    <2>1. ASSUME NEW s \in Super, OwnedBy(s)' = {} PROVE Blank(s)'
      <3>1. OwnedBy(s) = {}
        BY <1>3, <2>1 DEF OwnedBy
      <3> QED BY <1>1, <3>1 DEF Blanks, Blank
    <2> QED BY <2>1 DEF Blanks
  <1>8. ASSUME NEW y \in Type PROVE Sound(y)'
    <2>1. \A u \in Thread : pc[u] = "insert" /\ call[u].type = y =>
            pc'[u] = "insert" /\ call'[u] = call[u]
      BY <1>2
    <2>2. \A s \in Owned(y) : /\ count'[s] = count[s] /\ use_count'[s] = use_count[s]
                              /\ free'[s] = free[s] /\ size'[s] = size[s]
      OBVIOUS
    <2> QED BY <1>3, <1>4, <2>1, <2>2, SoundKept
  <1> QED BY <1>5, <1>6, <1>7, <1>8, Assembled

\* The binary search finds the first super block that is large enough.
LEMMA Bounded ==
  ASSUME IInv, NEW n \in Nat
  PROVE  /\ LowerBound(n) \in 1 .. Len(free_list) + 1
         /\ LowerBound(n) <= Len(free_list) => size[free_list[LowerBound(n)]] >= n
         /\ \A i \in 1 .. Len(free_list) : i < LowerBound(n) => ~(size[free_list[i]] >= n)
  <1>1. Len(free_list) \in Nat
    BY DEF IInv, TypeOK
  <1> DEFINE S == {i \in 1 .. Len(free_list) : size[free_list[i]] >= n}
                    \cup {Len(free_list) + 1}
  <1>2. S \in SUBSET Nat /\ S # {}
    BY <1>1
  <1>3. Min(S) \in S /\ \A i \in S : Min(S) <= i
    <2> HIDE DEF S
    <2> QED BY <1>2, Least
  <1>4. LowerBound(n) = Min(S)
    BY DEF LowerBound
  <1> PICK m \in Nat : m = Min(S)
    BY <1>2, <1>3
  <1>5. m \in S /\ \A i \in S : m <= i
    BY <1>3
  <1>6. /\ m \in 1 .. Len(free_list) + 1
        /\ m <= Len(free_list) => size[free_list[m]] >= n
        /\ \A i \in 1 .. Len(free_list) : i < m => ~(size[free_list[i]] >= n)
    <2>1. m \in 1 .. Len(free_list) + 1
      BY <1>1, <1>5
    <2>2. m <= Len(free_list) => size[free_list[m]] >= n
      <3> SUFFICES ASSUME m <= Len(free_list) PROVE size[free_list[m]] >= n
        OBVIOUS
      <3>1. m # Len(free_list) + 1
        BY <1>1
      <3> QED BY <1>5, <3>1
    <2>3. ASSUME NEW i \in 1 .. Len(free_list), i < m, size[free_list[i]] >= n PROVE FALSE
      <3>1. i \in S
        BY <2>3
      <3>2. m <= i
        BY <1>5, <3>1
      <3> QED BY <1>1, <2>3, <3>2
    <2> QED BY <2>1, <2>2, <2>3
  <1> QED BY <1>4, <1>6

LEMMA RequiredType ==
  ASSUME IInv, NEW t \in Thread, call[t].type \in Type
  PROVE  Required(t) \in Nat /\ Required(t) # 0
  <1>1. /\ Words[call[t].type] \in Nat /\ block_size[call[t].type] \in Nat
        /\ Bits \in Nat \ {0}
    BY BitmapAssumption DEF IInv, TypeOK
  <1> PICK w, n \in Nat : w = Words[call[t].type] /\ n = block_size[call[t].type]
    BY <1>1
  <1>2. n * w \in Nat
    OBVIOUS
  <1>3. n \div Bits \in Nat
    BY <1>1
  <1>4. Required(t) = 1 + n * w + n \div Bits
    BY DEF Required, Needed
  <1> QED BY <1>2, <1>3, <1>4

LEMMA SuperSet ==
  ASSUME TypeOK, NEW t \in Thread, NEW s \in Super, call' = [call EXCEPT ![t].super = s]
  PROVE  call' \in [Thread -> [type : Type \cup {NoType}, super : Super \cup {NoSuper}]]
  <1> DEFINE v == [call[t] EXCEPT !.super = s]
  <1>1. call' = [call EXCEPT ![t] = v]
    OBVIOUS
  <1>2. v \in [type : Type \cup {NoType}, super : Super \cup {NoSuper}]
    BY DEF TypeOK
  <1> HIDE DEF v
  <1> QED BY <1>1, <1>2 DEF TypeOK

LEMMA GivenKeeps ==
  ASSUME IInv, NEW t \in Thread, GetStored(t) PROVE IInv'
  <1>0. Calls
    BY Parts
  <1>1. TypeOK /\ Apart /\ Blanks /\ StoreOrdered /\ CallOf(t)
    BY <1>0, Parts DEF Calls
  <1>2. pc[t] = "get" /\ call[t].type \in Type /\ call[t].super = NoSuper
    BY <1>1 DEF GetStored, Goto, CallOf, Asking
  <1>3. Required(t) \in Nat
    BY <1>2, RequiredType
  <1>4. /\ free_list \in Seq(Super) /\ Len(free_list) \in Nat
        /\ DOMAIN free_list = 1 .. Len(free_list)
        /\ \A j \in 1 .. Len(free_list) : free_list[j] \in Range(free_list)
    BY <1>1, InRange DEF TypeOK
  <1>5. LowerBound(Required(t)) <= Len(free_list)
    BY DEF GetStored, StoreGives
  <1> PICK i \in 1 .. Len(free_list) :
        i = LowerBound(Required(t)) /\ size[free_list[i]] >= Required(t)
    BY <1>3, <1>4, <1>5, Bounded
  <1> PICK s \in Super : s = free_list[i]
    BY <1>4
  <1> DEFINE l == RemoveAt(free_list, i)
  <1>6. /\ l \in Seq(Super) /\ Len(l) = Len(free_list) - 1
        /\ \A j \in 1 .. Len(free_list) - 1 :
             l[j] = IF j < i THEN free_list[j] ELSE free_list[j + 1]
        /\ Range(l) = Range(free_list) \ {s} /\ NoDuplicates(l)
    <2>1. NoDuplicates(free_list)
      BY <1>1 DEF Apart
    <2>2. /\ l \in Seq(Super) /\ Len(l) = Len(free_list) - 1
          /\ \A j \in 1 .. Len(free_list) - 1 :
               l[j] = IF j < i THEN free_list[j] ELSE free_list[j + 1]
          /\ NoDuplicates(free_list) => /\ Range(l) = Range(free_list) \ {free_list[i]}
                                        /\ NoDuplicates(l)
      <3>1. free_list \in Seq(Super)
        BY <1>4
      <3> QED BY ZenonT(30), <3>1, Removed
    <2> HIDE DEF l
    <2> QED BY <2>1, <2>2
  <1>7. DOMAIN l = 1 .. Len(free_list) - 1
    BY <1>6
  <1>8. s \in Range(free_list)
    BY <1>4
  <1> HIDE DEF l
  <1>9. /\ pc' = [pc EXCEPT ![t] = "push"] /\ call' = [call EXCEPT ![t].super = s]
        /\ free_list' = l
        /\ UNCHANGED <<blockVars, size, bfl_mutex, handlerVars, heap>>
    BY DEF GetStored, Goto, l
  <1>10. /\ pc'[t] = "push" /\ call'[t].super = s /\ call'[t].type = call[t].type
         /\ Moved(t)
    BY <1>1, <1>9 DEF TypeOK, Moved
  <1>11. TypeOK'
    <2>1. pc' \in [Thread -> Pc] /\ free_list' \in Seq(Super)
      BY <1>1, <1>6, <1>9 DEF TypeOK, Pc
    <2>2. call' \in [Thread -> [type : Type \cup {NoType}, super : Super \cup {NoSuper}]]
      BY <1>1, <1>9, SuperSet
    <2> QED BY <1>1, <1>9, <2>1, <2>2 DEF TypeOK, blockVars, handlerVars
  <1>12. CallOf(t)'
    BY <1>1, <1>2, <1>9, <1>10 DEF CallOf, Asking, Locker, blockVars
  <1>13. \A y : Owned(y)' = Owned(y)
    <2>1. \A u \in Thread : pc'[u] = "erase" <=> pc[u] = "erase"
      BY <1>2, <1>10 DEF Moved
    <2>2. \A u \in Thread : pc[u] = "erase" => call'[u] = call[u]
      BY <1>2, <1>10 DEF Moved
    <2> QED BY <1>9, <2>1, <2>2, SameOwners DEF blockVars
  <1>14. Arriving' = Arriving \cup {s}
    <2>1. \A r : r \in Arriving' <=> r \in Arriving \/ r = s
      BY <1>2, <1>10 DEF Arriving, Moved
    <2> QED BY <2>1
  <1>15. Apart'
    <2>1. \A y \in Type : s \notin Owned(y)
      BY <1>1, <1>8 DEF Apart
    <2>2. s \notin heap /\ s \notin Arriving
      BY <1>1, <1>8 DEF Apart
    <2>3. \A u, v \in Thread :
            pc'[u] = "push" /\ pc'[v] = "push" /\ u # v => call'[u].super # call'[v].super
      <3>1. \A u \in Thread : pc[u] = "push" => call[u].super # s
        BY <2>2 DEF Arriving
      <3> QED BY <1>1, <1>10, <3>1 DEF Apart, Moved
    <2> QED BY <1>1, <1>6, <1>9, <1>13, <1>14, <2>1, <2>2, <2>3 DEF Apart
  <1>16. StoreOrdered'
    <2>1. Len(free_list') <= MaxStore
      BY <1>1, <1>4, <1>6, <1>9, BitmapAssumption DEF StoreOrdered
    <2>2. ASSUME NEW j \in 1 .. Len(free_list) - 1, NEW k \in 1 .. Len(free_list) - 1, j < k
          PROVE  size[l[j]] <= size[l[k]]
      <3>1. PICK m \in 1 .. Len(free_list) :
              l[j] = free_list[m] /\ m = IF j < i THEN j ELSE j + 1
        BY <1>4, <1>6
      <3>2. PICK n \in 1 .. Len(free_list) :
              l[k] = free_list[n] /\ n = IF k < i THEN k ELSE k + 1
        BY <1>4, <1>6
      <3>3. m < n
        BY <1>4, <2>2, <3>1, <3>2
      <3> QED BY <1>1, <1>4, <3>1, <3>2, <3>3 DEF StoreOrdered
    <2> QED BY <1>7, <1>9, <2>1, <2>2 DEF StoreOrdered
  <1>17. ASSUME NEW u \in Thread, pc'[u] = "push"
         PROVE  size'[call'[u].super] >= Required(u)'
    <2>1. CASE u = t
      <3>1. Required(t)' = Required(t)
        BY <1>9, <1>10 DEF Required, Needed, blockVars
      <3> QED BY <1>9, <1>10, <2>1, <3>1
    <2>2. CASE u # t
      BY <1>1, <1>9, <1>10, <1>17, <2>2 DEF Blanks, Moved, Required, Needed, blockVars
    <2> QED BY <2>1, <2>2
  <1> QED
    <2>1. /\ UNCHANGED <<mem_blocks, count, use_count, free, last_request, last_dealloc,
                         block_size, live>>
          /\ mut' = mut /\ size' = size
      BY <1>9 DEF blockVars
    <2>2. pc[t] \notin {"insert", "erase"} /\ pc'[t] \notin {"insert", "erase"}
      BY <1>2, <1>10
    <2>3. /\ \A y \in Type : \A s0 \in Owned(y) : size'[s0] = size[s0]
          /\ \A u \in Thread \ {t} : call[u].type \in Type =>
               mut'[call[u].type] = mut[call[u].type]
          /\ \A u \in Thread : pc'[u] = "push" => size'[call'[u].super] >= Required(u)'
      BY <1>17, <2>1
    <2> QED BY <1>10, <1>11, <1>12, <1>15, <1>16, <2>1, <2>2, <2>3, AskedKeeps

LEMMA NewSucceedsKeeps ==
  ASSUME IInv, NEW t \in Thread, NewSucceeds(t) PROVE IInv'
  <1>0. Calls
    BY Parts
  <1>1. TypeOK /\ Apart /\ Blanks /\ StoreOrdered /\ CallOf(t)
    BY <1>0, Parts DEF Calls
  <1>2. pc[t] = "new" /\ call[t].type \in Type /\ call[t].super = NoSuper
    BY <1>1 DEF NewSucceeds, Goto, CallOf, Asking
  <1> PICK n \in Nat : n = Required(t)
    BY <1>2, RequiredType
  <1>3. PICK s \in heap : /\ heap' = heap \ {s}
                          /\ size' = [size EXCEPT ![s] = n]
                          /\ call' = [call EXCEPT ![t].super = s]
    BY DEF NewSucceeds
  <1>4. s \in Super
    BY <1>1 DEF TypeOK
  <1>5. /\ pc' = [pc EXCEPT ![t] = "push"]
        /\ new_handler' = IF handled_oom THEN new_handler ELSE old_handler
        /\ bfl_mutex' = NoThread
        /\ UNCHANGED <<blockVars, free_list, old_handler, handled_oom>>
    BY DEF NewSucceeds, Goto, HandlerDone
  <1>6. /\ pc'[t] = "push" /\ call'[t].super = s /\ call'[t].type = call[t].type
        /\ Moved(t)
    BY <1>1, <1>3, <1>4, <1>5 DEF TypeOK, Moved
  <1>7. size'[s] = n /\ \A r \in Super : r # s => size'[r] = size[r]
    BY <1>1, <1>3, <1>4 DEF TypeOK
  <1>8. TypeOK'
    <2>1. pc' \in [Thread -> Pc] /\ heap' \subseteq Super /\ size' \in [Super -> Nat]
      BY <1>1, <1>3, <1>4, <1>5 DEF TypeOK, Pc
    <2>2. call' \in [Thread -> [type : Type \cup {NoType}, super : Super \cup {NoSuper}]]
      BY <1>1, <1>3, <1>4, SuperSet
    <2>3. {new_handler', old_handler'} \subseteq {"program", "oom"}
          /\ bfl_mutex' \in Thread \cup {NoThread}
      BY <1>1, <1>5 DEF TypeOK
    <2> QED BY <1>1, <1>5, <2>1, <2>2, <2>3 DEF TypeOK, blockVars
  <1>9. CallOf(t)'
    BY <1>1, <1>2, <1>4, <1>5, <1>6 DEF CallOf, Asking, Locker, blockVars
  <1>10. \A y : Owned(y)' = Owned(y)
    <2>1. /\ \A u \in Thread : pc'[u] = "erase" <=> pc[u] = "erase"
          /\ \A u \in Thread : pc[u] = "erase" => call'[u] = call[u]
      BY <1>2, <1>6 DEF Moved
    <2> QED BY <1>5, <2>1, SameOwners DEF blockVars
  <1>11. Arriving' = Arriving \cup {s}
    <2>1. \A r : r \in Arriving' <=> r \in Arriving \/ r = s
      BY <1>2, <1>6 DEF Arriving, Moved
    <2> QED BY <2>1
  <1>12. /\ \A y \in Type : s \notin Owned(y)
         /\ s \notin Range(free_list) /\ s \notin Arriving
    BY <1>1 DEF Apart
  <1>13. Apart'
    <2>1. \A u, v \in Thread :
            pc'[u] = "push" /\ pc'[v] = "push" /\ u # v => call'[u].super # call'[v].super
      <3>1. \A u \in Thread : pc[u] = "push" => call[u].super # s
        BY <1>12 DEF Arriving
      <3> QED BY <1>1, <1>6, <3>1 DEF Apart, Moved
    <2> QED BY <1>1, <1>3, <1>5, <1>10, <1>11, <1>12, <2>1 DEF Apart
  <1>14. \A i \in DOMAIN free_list : size'[free_list[i]] = size[free_list[i]]
    <2>1. free_list \in Seq(Super)
      BY <1>1 DEF TypeOK
    <2>2. \A i \in DOMAIN free_list : free_list[i] \in Super /\ free_list[i] # s
      BY <1>12, <2>1, InRange
    <2> QED BY <1>7, <2>2
  <1>15. StoreOrdered'
    BY <1>1, <1>5, <1>14 DEF StoreOrdered
  <1>16. ASSUME NEW u \in Thread, pc'[u] = "push"
         PROVE  size'[call'[u].super] >= Required(u)'
    <2>1. CASE u = t
      <3>1. Required(t)' = Required(t)
        BY <1>5, <1>6 DEF Required, Needed, blockVars
      <3> QED BY <1>6, <1>7, <2>1, <3>1
    <2>2. CASE u # t
      <3>1. pc[u] = "push" /\ call'[u] = call[u]
        BY <1>6, <1>16, <2>2 DEF Moved
      <3>2. call[u].super # s /\ call[u].super \in Super
        BY <1>12, <3>1, CallSuper DEF Arriving
      <3>3. Required(u)' = Required(u)
        BY <1>5, <3>1 DEF Required, Needed, blockVars
      <3>4. size[call[u].super] >= Required(u)
        BY <1>1, <3>1 DEF Blanks
      <3> QED BY <1>7, <3>1, <3>2, <3>3, <3>4
    <2> QED BY <2>1, <2>2
  <1> QED
    <2>1. /\ UNCHANGED <<mem_blocks, count, use_count, free, last_request, last_dealloc,
                         block_size, live>>
          /\ mut' = mut
      BY <1>5 DEF blockVars
    <2>2. pc[t] \notin {"insert", "erase"} /\ pc'[t] \notin {"insert", "erase"}
      BY <1>2, <1>6
    <2>3. ASSUME NEW y \in Type, NEW r \in Owned(y) PROVE size'[r] = size[r]
      BY <1>7, <1>12, InSound
    <2>4. \A y \in Type : \A r \in Owned(y) : size'[r] = size[r]
      BY <2>3
    <2>5. /\ \A u \in Thread \ {t} : call[u].type \in Type =>
               mut'[call[u].type] = mut[call[u].type]
          /\ \A u \in Thread : pc'[u] = "push" => size'[call'[u].super] >= Required(u)'
      BY <1>16, <2>1
    <2> QED BY <1>6, <1>8, <1>9, <1>13, <1>15, <2>1, <2>2, <2>4, <2>5, AskedKeeps

LEMMA PushFailsKeeps ==
  ASSUME IInv, NEW t \in Thread, PushFails(t) PROVE IInv'
  <1>0. Calls
    BY Parts
  <1>1. TypeOK /\ Apart /\ Blanks /\ StoreOrdered
    BY Parts
  <1>2. pc[t] = "push"
    BY DEF PushFails, Goto
  <1> PICK s \in Super, y \in Type : s = call[t].super /\ y = call[t].type
    BY <1>2, CallSuper
  <1>3. /\ pc' = [pc EXCEPT ![t] = "idle"]
        /\ use_count' = [use_count EXCEPT ![s] = 0]
        /\ mut' = [mut EXCEPT ![y] = NoThread]
        /\ call' = [call EXCEPT ![t] = NoCall]
        /\ UNCHANGED <<mem_blocks, count, free, size, last_request, last_dealloc,
                       block_size, live, free_list, bfl_mutex, handlerVars, heap>>
    BY DEF PushFails, Goto
  <1>4. use_count' = use_count
    <2>1. use_count[s] = 0
      BY <1>2, CallSuper DEF Blank
    <2> QED BY <1>1, <1>3, <2>1 DEF TypeOK
  <1>5. pc'[t] = "idle" /\ call'[t] = NoCall /\ Moved(t)
    BY <1>1, <1>3 DEF TypeOK, Moved
  <1>6. TypeOK'
    <2>1. /\ pc' \in [Thread -> Pc] /\ mut' \in [Type -> Thread \cup {NoThread}]
          /\ call' \in [Thread -> [type : Type \cup {NoType}, super : Super \cup {NoSuper}]]
      BY <1>1, <1>3 DEF TypeOK, Pc, NoCall
    <2> QED BY <1>1, <1>3, <1>4, <2>1 DEF TypeOK, handlerVars
  <1>7. CallOf(t)'
    BY <1>5, BitmapAssumption DEF CallOf, Asking, NoCall
  <1>8. \A u \in Thread : pc'[u] = "push" => pc[u] = "push" /\ call'[u] = call[u]
    BY <1>5 DEF Moved
  <1>9. \A z : Owned(z)' = Owned(z)
    <2>1. /\ \A u \in Thread : pc'[u] = "erase" <=> pc[u] = "erase"
          /\ \A u \in Thread : pc[u] = "erase" => call'[u] = call[u]
      BY <1>2, <1>5 DEF Moved
    <2> QED BY <1>3, <2>1, SameOwners
  <1>10. Apart'
    BY <1>1, <1>3, <1>8, <1>9, SameApart
  <1>11. StoreOrdered'
    BY <1>1, <1>3 DEF StoreOrdered
  <1>12. ASSUME NEW u \in Thread, pc'[u] = "push"
         PROVE  size'[call'[u].super] >= Required(u)'
    <2>1. Required(u)' = Required(u)
      BY <1>3, <1>8, <1>12 DEF Required, Needed
    <2> QED BY <1>1, <1>3, <1>8, <1>12, <2>1 DEF Blanks
  <1> QED
    <2>1. UNCHANGED <<mem_blocks, count, use_count, free, last_request, last_dealloc,
                      block_size, live>>
      BY <1>3, <1>4
    <2>2. pc[t] \notin {"insert", "erase"} /\ pc'[t] \notin {"insert", "erase"}
      BY <1>2, <1>5
    <2>3. \A z \in Type : \A r \in Owned(z) : size'[r] = size[r]
      BY <1>3
    <2>4. \A u \in Thread \ {t} : call[u].type \in Type =>
               mut'[call[u].type] = mut[call[u].type]
      <3>1. \A u \in Thread \ {t} : call[u].type # y
        BY <1>2, Caller
      <3> QED BY <1>1, <1>3, <3>1 DEF TypeOK
    <2>5. \A u \in Thread : pc'[u] = "push" => size'[call'[u].super] >= Required(u)'
      BY <1>12
    <2> QED BY <1>5, <1>6, <1>7, <1>10, <1>11, <2>1, <2>2, <2>3, <2>4, <2>5, AskedKeeps

LEMMA ClearKeeps ==
  ASSUME IInv, NEW t \in Thread, Clear(t) PROVE IInv'
  <1>0. Calls
    BY Parts
  <1>1. TypeOK /\ Apart /\ Blanks /\ StoreOrdered /\ CallOf(t)
    BY <1>0, Parts DEF Calls
  <1>2. /\ pc[t] = "clear" /\ pc' = [pc EXCEPT ![t] = "restore"]
        /\ heap' = heap \cup Range(free_list) /\ free_list' = <<>>
        /\ size' = [s \in Super |-> IF s \in Range(free_list) THEN 0 ELSE size[s]]
        /\ UNCHANGED <<blockVars, bfl_mutex, handlerVars, call>>
    BY DEF Clear, Goto, Delete
  <1>3. Range(free_list) \subseteq Super
    BY <1>1, InRange DEF TypeOK
  <1>4. pc'[t] = "restore" /\ call' = call /\ Moved(t)
    BY <1>1, <1>2 DEF TypeOK, Moved
  <1>5. /\ free_list' \in Seq(Super) /\ Len(free_list') = 0
        /\ DOMAIN free_list' = {} /\ Range(free_list') = {}
    <2>1. free_list' \in Seq(Super) /\ Len(free_list') = 0 /\ DOMAIN free_list' = 1 .. 0
      BY <1>2
    <2> QED BY <2>1 DEF Range
  <1>6. TypeOK'
    <2>1. pc' \in [Thread -> Pc] /\ heap' \subseteq Super /\ size' \in [Super -> Nat]
      BY <1>1, <1>2, <1>3 DEF TypeOK, Pc
    <2> QED BY <1>1, <1>2, <1>5, <2>1 DEF TypeOK, blockVars, handlerVars
  <1>7. CallOf(t)'
    BY <1>1, <1>2, <1>4 DEF CallOf, Asking, Locker, blockVars
  <1>8. \A y : Owned(y)' = Owned(y)
    <2>1. \A u \in Thread : pc'[u] = "erase" <=> pc[u] = "erase"
      BY <1>2, <1>4 DEF Moved
    <2> QED BY <1>2, <2>1, SameOwners DEF blockVars
  <1>9. Arriving' = Arriving
    <2>1. \A u \in Thread : pc'[u] = "push" <=> pc[u] = "push"
      BY <1>2, <1>4 DEF Moved
    <2>2. \A r : r \in Arriving' <=> r \in Arriving
      BY <1>4, <2>1 DEF Arriving
    <2> QED BY <2>2
  <1>10. Apart'
    <2>1. NoDuplicates(free_list')
      BY <1>5 DEF NoDuplicates
    <2>2. \A u, v \in Thread :
            pc'[u] = "push" /\ pc'[v] = "push" /\ u # v => call'[u].super # call'[v].super
      BY <1>1, <1>2, <1>4 DEF Apart, Moved
    <2> QED BY <1>1, <1>2, <1>5, <1>8, <1>9, <2>1, <2>2 DEF Apart
  <1>11. StoreOrdered'
    BY <1>5, BitmapAssumption DEF StoreOrdered
  <1>12. ASSUME NEW u \in Thread, pc'[u] = "push"
         PROVE  size'[call'[u].super] >= Required(u)'
    <2>1. pc[u] = "push" /\ call'[u] = call[u]
      BY <1>2, <1>4, <1>12 DEF Moved
    <2>2. call[u].super \notin Range(free_list) /\ call[u].super \in Super
      BY <2>1, CallSuper
    <2>3. Required(u)' = Required(u)
      BY <1>2, <2>1 DEF Required, Needed, blockVars
    <2> QED BY <1>1, <1>2, <2>1, <2>2, <2>3 DEF Blanks
  <1> QED
    <2>1. /\ UNCHANGED <<mem_blocks, count, use_count, free, last_request, last_dealloc,
                         block_size, live>>
          /\ mut' = mut
      BY <1>2 DEF blockVars
    <2>2. pc[t] \notin {"insert", "erase"} /\ pc'[t] \notin {"insert", "erase"}
      BY <1>2, <1>4
    <2>3. ASSUME NEW y \in Type, NEW r \in Owned(y) PROVE size'[r] = size[r]
      <3>1. r \notin Range(free_list)
        BY <1>1 DEF Apart
      <3> QED BY <1>2, <3>1, InSound
    <2>4. \A y \in Type : \A r \in Owned(y) : size'[r] = size[r]
      BY <2>3
    <2>5. /\ \A u \in Thread \ {t} : call[u].type \in Type =>
               mut'[call[u].type] = mut[call[u].type]
          /\ \A u \in Thread : pc'[u] = "push" => size'[call'[u].super] >= Required(u)'
      BY <1>12, <2>1
    <2> QED BY <1>4, <1>6, <1>7, <1>10, <1>11, <2>1, <2>2, <2>4, <2>5, AskedKeeps

-----------------------------------------------------------------------------
\* Super blocks come to a type, and leave it.

LEMMA PushKeeps ==
  ASSUME IInv, NEW t \in Thread, Push(t) PROVE IInv'
  <1> USE BitmapAssumption
  <1>0. Calls
    BY Parts
  <1>1. TypeOK /\ Apart /\ LiveOwned /\ Blanks /\ StoreOrdered /\ CallOf(t)
    BY <1>0, Parts DEF Calls
  <1>2. pc[t] = "push"
    BY DEF Push, Divide, Goto
  <1> PICK s \in Super, y \in Type : s = call[t].super /\ y = call[t].type
    BY <1>2, CallSuper
  <1> PICK n \in Nat \ {0} : n = block_size[y]
    BY <1>1 DEF TypeOK
  <1> DEFINE blocks == Append(mem_blocks[y], s)
  <1>3. mem_blocks[y] \in Seq(Super) /\ Len(mem_blocks[y]) \in Nat
        /\ Len(mem_blocks[y]) < MaxBlocks
    BY <1>1, <1>2 DEF TypeOK, CallOf
  <1> PICK m \in Nat : m = Len(mem_blocks[y])
    BY <1>3
  <1>4. /\ blocks \in Seq(Super) /\ Len(blocks) = m + 1
        /\ \A i \in 1 .. m : blocks[i] = mem_blocks[y][i]
        /\ blocks[m + 1] = s /\ Range(blocks) = Range(mem_blocks[y]) \cup {s}
        /\ NoDuplicates(mem_blocks[y]) /\ s \notin Range(mem_blocks[y])
             => NoDuplicates(blocks)
    BY <1>3, Appended
  <1> HIDE DEF blocks
  <1>5. /\ pc' = [pc EXCEPT ![t] = "idle"]
        /\ mem_blocks' = [mem_blocks EXCEPT ![y] = blocks]
        /\ count' = [count EXCEPT ![s] = n]
        /\ free' = [free EXCEPT ![s] = 1 .. (n - 1)]
        /\ use_count' = [use_count EXCEPT ![s] = 1]
        /\ live' = live \cup {<<y, s, 0>>}
        /\ last_request' = [last_request EXCEPT ![y] = ResetTo(blocks, Len(blocks))]
        /\ block_size' = [block_size EXCEPT ![y] = 2 * n]
        /\ mut' = [mut EXCEPT ![y] = NoThread]
        /\ call' = [call EXCEPT ![t] = NoCall]
        /\ UNCHANGED <<size, last_dealloc, free_list, bfl_mutex, handlerVars, heap>>
    BY DEF Push, Divide, Goto, blocks
  <1>6. ResetTo(blocks, Len(blocks)) = [index |-> m + 1, super |-> s, bitmap |-> 0]
    BY <1>4 DEF ResetTo
  <1>7. /\ \A z \in Type : s \notin Owned(z)
        /\ s \notin heap /\ s \notin Range(free_list)
        /\ count[s] = 0 /\ use_count[s] = 0 /\ free[s] = {}
    BY <1>2, CallSuper DEF Blank
  <1>8. /\ \A u \in Thread \ {t} : call[u].type # y
        /\ pc'[t] = "idle" /\ call'[t] = NoCall /\ Moved(t)
    BY <1>1, <1>2, <1>5, Caller DEF TypeOK, Moved
  <1>9. /\ mem_blocks'[y] = blocks /\ block_size'[y] = 2 * n
        /\ last_request'[y] = [index |-> m + 1, super |-> s, bitmap |-> 0]
        /\ \A z \in Type : z # y =>
             /\ mem_blocks'[z] = mem_blocks[z] /\ block_size'[z] = block_size[z]
             /\ last_request'[z] = last_request[z] /\ mut'[z] = mut[z]
    BY <1>1, <1>5, <1>6 DEF TypeOK
  <1>10. /\ count'[s] = n /\ use_count'[s] = 1 /\ free'[s] = 1 .. (n - 1)
         /\ \A r \in Super : r # s => /\ count'[r] = count[r] /\ free'[r] = free[r]
                                      /\ use_count'[r] = use_count[r]
    BY <1>1, <1>5 DEF TypeOK
  <1>11. Owned(y) = Range(mem_blocks[y]) /\ Leaving(y) = {} /\ Leaving(y)' = {}
    <2>1. \A u \in Thread : pc[u] \in {"insert", "erase"} => call[u].type # y
      BY <1>2, <1>8
    <2>2. \A u \in Thread : pc'[u] \in {"insert", "erase"} => call'[u].type # y
      BY <1>2, <1>8 DEF Moved
    <2> QED BY <2>1, <2>2 DEF Owned, Leaving
  <1>12. Owned(y)' = Owned(y) \cup {s}
    <2>1. \A u \in Thread : \A r : pc'[u] = "erase" => call'[u] # [type |-> y, super |-> r]
      BY <1>8 DEF Moved
    <2>2. Owned(y)' = Range(blocks)
      BY <1>9, <2>1 DEF Owned
    <2> QED BY <1>4, <1>11, <2>2
  <1>13. \A z \in Type : z # y => Owned(z)' = Owned(z) /\ Leaving(z)' = Leaving(z)
    <2>1. /\ \A u \in Thread : pc'[u] = "erase" <=> pc[u] = "erase"
          /\ \A u \in Thread : pc'[u] \in {"insert", "erase"} <=> pc[u] \in {"insert", "erase"}
          /\ \A u \in Thread : pc[u] \in {"insert", "erase"} => call'[u] = call[u]
      BY <1>2, <1>8 DEF Moved
    <2> TAKE z \in Type
    <2> HAVE z # y
    <2>2. Owned(z)' = Owned(z)
      BY SMTT(30), <1>9, <2>1 DEF Owned
    <2>3. Leaving(z)' = Leaving(z)
      BY <2>1 DEF Leaving
    <2> QED BY <2>2, <2>3
  <1>14. Arriving' \subseteq Arriving /\ s \notin Arriving'
    <2>1. \A u \in Thread : pc'[u] = "push" =>
            u # t /\ pc[u] = "push" /\ call'[u] = call[u] /\ call'[u].super # s
      BY <1>1, <1>2, <1>8 DEF Moved, Apart
    <2> QED BY <2>1 DEF Arriving
  <1>15. /\ Held(y, s)' = {0}
         /\ \A r : r # s => \A q : <<y, r, q>> \in live' <=> <<y, r, q>> \in live
    <2>1. ASSUME NEW q, <<y, s, q>> \in live PROVE FALSE
      BY <1>1, <1>7, <2>1 DEF LiveOwned
    <2>2. Held(y, s)' = {q \in 0 .. (n - 1) : <<y, s, q>> \in live'}
      BY <1>10 DEF Held
    <2>3. \A q \in 0 .. (n - 1) : <<y, s, q>> \in live' <=> q = 0
      BY <1>5, <2>1
    <2>4. 0 \in 0 .. (n - 1)
      OBVIOUS
    <2>5. \A r : r # s => \A q : <<y, r, q>> \in live' <=> <<y, r, q>> \in live
      BY <1>5
    <2> QED BY <2>2, <2>3, <2>4, <2>5
  <1>16. TypeOK'
    <2>1. /\ mem_blocks' \in [Type -> Seq(Super)]
          /\ \A z \in Type : Len(mem_blocks'[z]) <= MaxBlocks
      <3>1. mem_blocks' \in [Type -> Seq(Super)]
        BY <1>1, <1>4, <1>5 DEF TypeOK
      <3>2. Len(blocks) <= MaxBlocks
        BY <1>3, <1>4
      <3> QED BY <1>1, <1>9, <3>1, <3>2 DEF TypeOK
    <2>2. last_request' \in [Type -> [index : 0 .. (MaxBlocks + 1),
                               super : Super \cup {NoSuper}, bitmap : Nat]]
      <3>1. [index |-> m + 1, super |-> s, bitmap |-> 0] \in
              [index : 0 .. (MaxBlocks + 1), super : Super \cup {NoSuper}, bitmap : Nat]
        BY <1>3
      <3> QED BY <1>1, <1>5, <1>6, <3>1 DEF TypeOK
    <2>3. /\ block_size' \in [Type -> Nat \ {0}] /\ count' \in [Super -> Nat]
          /\ use_count' \in [Super -> Nat] /\ free' \in [Super -> SUBSET Nat]
      <3>1. 2 * n \in Nat \ {0} /\ 1 .. (n - 1) \in SUBSET Nat
        OBVIOUS
      <3>2. block_size' \in [Type -> Nat \ {0}]
        BY <1>1, <1>5, <3>1 DEF TypeOK
      <3>3. count' \in [Super -> Nat] /\ use_count' \in [Super -> Nat]
        BY <1>1, <1>5 DEF TypeOK
      <3>4. free' \in [Super -> SUBSET Nat]
        BY <1>1, <1>5, <3>1 DEF TypeOK
      <3> QED BY <3>2, <3>3, <3>4
    <2>4. ASSUME NEW r \in Super
          PROVE  use_count'[r] <= count'[r] /\ free'[r] \subseteq 0 .. (count'[r] - 1)
      <3>1. CASE r = s
        BY <1>10, <3>1
      <3>2. CASE r # s
        BY <1>1, <1>10, <3>2 DEF TypeOK
      <3> QED BY <3>1, <3>2
    <2>5. /\ mut' \in [Type -> Thread \cup {NoThread}] /\ pc' \in [Thread -> Pc]
          /\ call' \in [Thread -> [type : Type \cup {NoType}, super : Super \cup {NoSuper}]]
      BY <1>1, <1>5 DEF TypeOK, Pc, NoCall
    <2>6. live' \subseteq Type \X Super \X Nat
      <3>1. <<y, s, 0>> \in Type \X Super \X Nat
        OBVIOUS
      <3> QED BY <1>1, <1>5, <3>1 DEF TypeOK
    <2> QED BY <1>1, <1>5, <2>1, <2>2, <2>3, <2>4, <2>5, <2>6 DEF TypeOK, handlerVars
  <1>17. Calls'
    <2>1. CallOf(t)'
      BY <1>8 DEF CallOf, Asking, NoCall
    <2>2. ASSUME NEW u \in Thread \ {t} PROVE CallOf(u)'
      <3>1. pc'[u] = pc[u] /\ call'[u] = call[u]
        BY <1>8 DEF Moved
      <3>2. call[u].type \in Type => /\ mut'[call[u].type] = mut[call[u].type]
                                     /\ mem_blocks'[call[u].type] = mem_blocks[call[u].type]
        BY <1>8, <1>9
      <3>3. pc[u] = "insert" => use_count'[call[u].super] = use_count[call[u].super]
        BY <1>7, <1>10, CallSuper
      <3> QED BY <3>1, <3>2, <3>3, CallKept
    <2> QED BY <2>1, <2>2 DEF Calls
  <1>18. Apart'
    <2>1. \A z, w \in Type : z # w => Owned(z)' \cap Owned(w)' = {}
      <3>1. \A z \in Type : z # y => s \notin Owned(z)'
        BY <1>7, <1>13
      <3> QED BY <1>1, <1>12, <1>13, <3>1 DEF Apart
    <2>2. ASSUME NEW z \in Type
          PROVE  Owned(z)' \cap (Range(free_list) \cup heap \cup Arriving') = {}
      <3>1. Owned(z) \cap (Range(free_list) \cup heap \cup Arriving') = {}
        BY <1>1, <1>14 DEF Apart
      <3>2. Owned(z)' \subseteq Owned(z) \cup {s}
        BY <1>12, <1>13
      <3> QED BY <1>7, <1>14, <3>1, <3>2
    <2>3. \A u, v \in Thread :
            pc'[u] = "push" /\ pc'[v] = "push" /\ u # v => call'[u].super # call'[v].super
      BY <1>1, <1>8 DEF Apart, Moved
    <2> QED BY <1>1, <1>5, <1>14, <2>1, <2>2, <2>3 DEF Apart
  <1>19. LiveOwned'
    <2>1. ASSUME NEW o \in live' PROVE o[2] \in Owned(o[1])' /\ o[3] < count'[o[2]]
      <3>1. CASE o = <<y, s, 0>>
        BY <1>10, <1>12, <3>1
      <3>2. CASE o \in live
        <4>1. o[2] \in Owned(o[1]) /\ o[3] < count[o[2]] /\ o[1] \in Type /\ o[2] \in Super
          BY <1>1, <3>2 DEF LiveOwned, TypeOK
        <4>2. o[2] # s
          BY <1>7, <4>1
        <4> QED BY <1>10, <1>12, <1>13, <4>1, <4>2
      <3> QED BY <1>5, <3>1, <3>2
    <2> QED BY <2>1 DEF LiveOwned
  <1>20. Blanks'
    <2>1. ASSUME NEW r \in Super, OwnedBy(r)' = {} PROVE Blank(r)'
      <3>1. \A z \in Type : r \notin Owned(z)'
        BY <2>1 DEF OwnedBy
      <3>2. OwnedBy(r) = {} /\ r # s
        BY <1>12, <1>13, <3>1 DEF OwnedBy
      <3> QED BY <1>1, <1>10, <3>2 DEF Blanks, Blank
    <2>2. ASSUME NEW u \in Thread, pc'[u] = "push"
          PROVE  size'[call'[u].super] >= Required(u)'
      <3>1. pc[u] = "push" /\ call'[u] = call[u] /\ call[u].type # y
        BY <1>8, <2>2 DEF Moved
      <3>2. block_size'[call[u].type] = block_size[call[u].type]
        BY <1>9, <3>1, CallSuper
      <3> QED BY <1>1, <1>5, <3>1, <3>2 DEF Blanks, Required, Needed
    <2> QED BY <2>1, <2>2 DEF Blanks
  <1>21. StoreOrdered'
    BY <1>1, <1>5 DEF StoreOrdered
  <1>22. ASSUME NEW z \in Type, z # y PROVE Sound(z)'
    <2>1. \A r \in Owned(z) : r # s /\ r \in Super
      BY <1>7, InSound
    <2>2. \A r \in Owned(z) : /\ count'[r] = count[r] /\ use_count'[r] = use_count[r]
                              /\ free'[r] = free[r] /\ size'[r] = size[r]
      BY <1>5, <1>10, <2>1
    <2>3. \A r \in Super, q \in Nat : <<z, r, q>> \in live' <=> <<z, r, q>> \in live
      BY <1>5, <1>22
    <2>4. /\ mem_blocks'[z] = mem_blocks[z] /\ block_size'[z] = block_size[z]
          /\ last_request'[z] = last_request[z] /\ last_dealloc'[z] = last_dealloc[z]
          /\ Owned(z)' = Owned(z) /\ Leaving(z)' = Leaving(z)
      BY <1>5, <1>9, <1>13, <1>22
    <2>5. \A u \in Thread : pc[u] = "insert" /\ call[u].type = z =>
            pc'[u] = "insert" /\ call'[u] = call[u]
      BY <1>2, <1>8 DEF Moved
    <2> QED BY <2>2, <2>3, <2>4, <2>5, SoundKept
  <1>23. Sound(y)'
    <2>1. Sound(y)
      BY Parts
    <2>2. Bits * 2 ^ m = n
      BY <1>11, <2>1 DEF Sound, Staying
    <2>3. 2 ^ m \in Nat \ {0} /\ 2 ^ (m + 1) = 2 * 2 ^ m
      BY Powers
    <2>4. ASSUME NEW r \in Owned(y), r # s
          PROVE  /\ use_count'[r] = Cardinality(Held(y, r)')
                 /\ free'[r] = (0 .. (count'[r] - 1)) \ Held(y, r)'
                 /\ use_count'[r] # 0
                 /\ \E k \in 0 .. MaxBlocks : count'[r] = Bits * 2 ^ k
                 /\ size'[r] >= Needed(y, count'[r])
      <3>1. r \in Super
        BY InSound
      <3>2. Held(y, r)' = Held(y, r)
        BY <1>10, <1>15, <2>4, <3>1 DEF Held
      <3>3. use_count[r] # 0
        BY <1>11, <2>1 DEF Sound, Leaving
      <3>4. /\ use_count[r] = Cardinality(Held(y, r))
            /\ free[r] = (0 .. (count[r] - 1)) \ Held(y, r)
            /\ \E k \in 0 .. MaxBlocks : count[r] = Bits * 2 ^ k
            /\ size[r] >= Needed(y, count[r])
        BY <2>1 DEF Sound
      <3>5. count'[r] = count[r] /\ use_count'[r] = use_count[r]
            /\ free'[r] = free[r] /\ size'[r] = size[r]
        BY <1>5, <1>10, <2>4, <3>1
      <3> QED BY <3>2, <3>3, <3>4, <3>5
    <2>5. /\ use_count'[s] = Cardinality(Held(y, s)')
          /\ free'[s] = (0 .. (count'[s] - 1)) \ Held(y, s)'
          /\ use_count'[s] # 0
          /\ \E k \in 0 .. MaxBlocks : count'[s] = Bits * 2 ^ k
          /\ size'[s] >= Needed(y, count'[s])
      <3>1. Cardinality({0}) = 1
        BY FS_Singleton
      <3>2. 1 .. (n - 1) = (0 .. (n - 1)) \ {0}
        OBVIOUS
      <3>3. m \in 0 .. MaxBlocks
        BY <1>3
      <3>4. size[s] >= Needed(y, n)
        BY <1>1, <1>2 DEF Blanks, Required
      <3> QED BY SMTT(30), <1>5, <1>10, <1>15, <2>2, <3>1, <3>2, <3>3, <3>4
    <2>6. ASSUME NEW r \in Owned(y)'
          PROVE  /\ use_count'[r] = Cardinality(Held(y, r)')
                 /\ free'[r] = (0 .. (count'[r] - 1)) \ Held(y, r)'
                 /\ use_count'[r] = 0 =>
                      \E u \in Thread :
                        pc'[u] = "insert" /\ call'[u].type = y /\ call'[u].super = r
                 /\ \E k \in 0 .. MaxBlocks : count'[r] = Bits * 2 ^ k
                 /\ size'[r] >= Needed(y, count'[r])
      <3>1. CASE r = s
        BY <2>5, <3>1
      <3>2. CASE r # s
        BY <1>12, <2>4, <3>2
      <3> QED BY <3>1, <3>2
    <2>7. block_size'[y] = Bits * 2 ^ Staying(y)'
      <3>1. Staying(y)' = m + 1
        BY <1>4, <1>9, <1>11 DEF Staying
      <3> PICK p \in Nat : p = 2 ^ m
        BY <2>3
      <3>2. 2 * n = Bits * (2 * p)
        BY <2>2
      <3> QED BY <1>9, <2>3, <3>1, <3>2
    <2>8. \/ /\ last_request'[y].super = NoSuper
             /\ last_request'[y].index \in {0, Len(mem_blocks'[y]) + 1}
          \/ /\ last_request'[y].super # NoSuper
             /\ last_request'[y].index \in 1 .. Len(mem_blocks'[y])
             /\ mem_blocks'[y][last_request'[y].index] = last_request'[y].super
             /\ last_request'[y].super \in Owned(y)' =>
                  last_request'[y].bitmap \in
                    0 .. (count'[last_request'[y].super] \div Bits - 1)
      <3> PICK p \in Nat \ {0} : p = 2 ^ m
        BY <2>3
      <3>1. n \div Bits = p
        BY <2>2, Division
      <3>2. 0 \in 0 .. (count'[s] \div Bits - 1)
        BY <1>10, <3>1
      <3> QED BY SMTT(40), <1>4, <1>9, <3>2
    <2>9. /\ NoDuplicates(mem_blocks'[y])
          /\ last_dealloc'[y] \in
               1 .. (IF Len(mem_blocks'[y]) = 0 THEN 1 ELSE Len(mem_blocks'[y]))
      <3>1. NoDuplicates(mem_blocks'[y])
        BY <1>4, <1>7, <1>9, <1>11, <2>1 DEF Sound
      <3>2. last_dealloc[y] \in 1 .. (IF m = 0 THEN 1 ELSE m)
        BY <2>1 DEF Sound
      <3>3. last_dealloc[y] \in 1 .. m + 1
        BY <3>2
      <3> QED BY <1>4, <1>5, <1>9, <3>1, <3>3
    <2> QED BY ZenonT(30), <2>6, <2>7, <2>8, <2>9, SoundNext
  <1> QED
    BY <1>16, <1>17, <1>18, <1>19, <1>20, <1>21, <1>22, <1>23, Assembled

\* A super block is put before the first that is not smaller.
Place(l, s) ==
  Min({j \in 1 .. Len(l) : size[l[j]] >= size[s]} \cup {Len(l) + 1})

Ordered(l) == \A i, j \in DOMAIN l : i < j => size[l[i]] <= size[l[j]]

LEMMA Placed ==
  ASSUME size \in [Super -> Nat], NEW l \in Seq(Super), NEW s \in Super, Ordered(l)
  PROVE  /\ Place(l, s) \in 1 .. Len(l) + 1
         /\ Ordered(InsertAt(l, Place(l, s), s))
  <1>1. Len(l) \in Nat /\ DOMAIN l = 1 .. Len(l) /\ \A j \in 1 .. Len(l) : l[j] \in Super
    BY InRange
  <1>a. \E m \in Nat : m = Len(l)
    <2>1. Len(l) \in Nat
      BY <1>1
    <2> QED BY ONLY <2>1, Zenon
  <1> PICK n \in Nat : n = Len(l)
    BY ONLY <1>a
  <1> DEFINE S == {j \in 1 .. n : size[l[j]] >= size[s]} \cup {n + 1}
  <1>2. S \in SUBSET Nat /\ S # {}
    OBVIOUS
  <1>3. Min(S) \in S /\ \A j \in S : Min(S) <= j
    <2> HIDE DEF S
    <2> QED BY <1>2, Least
  <1>b. S \subseteq 1 .. n + 1
    OBVIOUS
  <1> PICK k \in 1 .. n + 1 : k = Min(S)
    <2> HIDE DEF S
    <2> QED BY ONLY <1>3, <1>b
  <1>4. Place(l, s) = k
    BY DEF Place
  <1>5. \A j \in 1 .. n : j < k => size[l[j]] < size[s]
    <2> SUFFICES ASSUME NEW j \in 1 .. n, j < k PROVE size[l[j]] < size[s]
      OBVIOUS
    <2>1. j \notin S
      BY <1>3
    <2>2. ~(size[l[j]] >= size[s])
      BY <2>1
    <2> QED BY <1>1, <2>2
  <1>6. k \in 1 .. n => size[l[k]] >= size[s]
    BY <1>3
  <1> DEFINE r == InsertAt(l, k, s)
  <1>7. /\ r \in Seq(Super) /\ Len(r) = n + 1
        /\ \A j \in 1 .. n + 1 : r[j] = IF j < k THEN l[j] ELSE IF j = k THEN s ELSE l[j - 1]
    <2> PICK p \in 1 .. Len(l) + 1 : p = k
      OBVIOUS
    <2>1. /\ InsertAt(l, p, s) \in Seq(Super) /\ Len(InsertAt(l, p, s)) = Len(l) + 1
          /\ \A j \in 1 .. Len(l) + 1 :
               InsertAt(l, p, s)[j] = IF j < p THEN l[j] ELSE IF j = p THEN s ELSE l[j - 1]
      BY ONLY Inserted, l \in Seq(Super), s \in Super, p \in 1 .. Len(l) + 1
    <2> QED BY <2>1
  <1>8. DOMAIN r = 1 .. n + 1
    BY <1>7
  <1> HIDE DEF r, S
  <1>9. \A j \in 1 .. n : k <= j => size[l[j]] >= size[s]
    <2> SUFFICES ASSUME NEW j \in 1 .. n, k <= j PROVE size[l[j]] >= size[s]
      OBVIOUS
    <2>1. k \in 1 .. n /\ (k = j \/ k < j)
      OBVIOUS
    <2>2. size[l[k]] <= size[l[j]]
      <3>1. CASE k = j
        BY <1>1, <2>1, <3>1
      <3>2. CASE k < j
        BY <1>1, <2>1, <3>2 DEF Ordered
      <3> QED BY <2>1, <3>1, <3>2
    <2> QED BY <1>1, <1>6, <2>1, <2>2
  <1>10. ASSUME NEW i \in 1 .. n + 1, NEW j \in 1 .. n + 1, i < j
         PROVE  size[r[i]] <= size[r[j]]
    <2>1. CASE j < k
      <3>1. /\ i \in 1 .. n /\ j \in 1 .. n /\ i < j
            /\ r[i] = l[i] /\ r[j] = l[j]
        <4>1. i \in 1 .. n /\ j \in 1 .. n /\ i < k
          BY <1>10, <2>1
        <4> QED BY <1>7, <1>10, <2>1, <4>1
      <3> QED BY <1>1, <3>1 DEF Ordered
    <2>2. CASE j = k
      <3>1. i \in 1 .. n /\ i < k /\ r[i] = l[i] /\ r[j] = s
        BY <1>7, <1>10, <2>2
      <3> QED BY <1>1, <1>5, <3>1
    <2>3. CASE j > k
      <3>1. j - 1 \in 1 .. n /\ r[j] = l[j - 1]
        BY <1>7, <2>3
      <3>2. CASE i < k
        <4>1. i < j - 1 \/ i = j - 1
          BY <2>3, <3>2
        <4>2. i \in 1 .. n /\ r[i] = l[i]
          BY <1>7, <2>3, <3>2
        <4> PICK m \in 1 .. n : m = j - 1
          BY <3>1
        <4>3. size[l[i]] <= size[l[m]]
          <5>1. CASE i = m
            <6>1. size[l[i]] \in Nat
              BY <1>1, <4>2
            <6> QED BY <5>1, <6>1
          <5>2. CASE i < m
            BY <1>1, <4>2, <5>2 DEF Ordered
          <5> QED BY <4>1, <5>1, <5>2
        <4> QED BY <3>1, <4>2, <4>3
      <3>3. CASE i = k
        <4>1. r[i] = s
          BY <1>7, <3>3
        <4> PICK m \in 1 .. n : m = j - 1
          BY <3>1
        <4>2. k <= m
          BY <2>3
        <4>3. size[l[m]] >= size[s]
          BY <1>9, <4>2
        <4> QED BY <1>1, <3>1, <4>1, <4>3
      <3>4. CASE i > k
        <4>1. i - 1 \in 1 .. n /\ i - 1 < j - 1
          BY <1>10, <2>3, <3>4
        <4>2. r[i] = l[i - 1]
          <5>1. ~(i < k) /\ i # k
            BY <3>4
          <5> QED BY <1>7, <5>1
        <4> PICK m, q \in 1 .. n : m = i - 1 /\ q = j - 1
          BY <3>1, <4>1
        <4> QED BY <1>1, <3>1, <4>1, <4>2 DEF Ordered
      <3> QED BY <3>2, <3>3, <3>4
    <2> QED BY <2>1, <2>2, <2>3
  <1>11. Ordered(r)
    BY <1>8, <1>10 DEF Ordered
  <1> QED BY <1>4, <1>11 DEF r

\* What the store keeps, and what it gives back to operator delete.
LEMMA StoreTakes ==
  ASSUME IInv, NEW t \in Thread, Insert(t), NEW s \in Super, s = call[t].super,
         s \notin Range(free_list)
  PROVE  \E D \in SUBSET (Range(free_list) \cup {s}) :
           /\ heap' = heap \cup D
           /\ size' = [r \in Super |-> IF r \in D THEN 0 ELSE size[r]]
           /\ free_list' \in Seq(Super)
           /\ Range(free_list') = (Range(free_list) \cup {s}) \ D
           /\ NoDuplicates(free_list')
           /\ Ordered(free_list') /\ Len(free_list') <= MaxStore
  <1>1. TypeOK /\ Apart /\ StoreOrdered
    BY Parts
  <1>2. /\ free_list \in Seq(Super) /\ size \in [Super -> Nat] /\ Len(free_list) \in Nat
        /\ NoDuplicates(free_list) /\ Ordered(free_list) /\ Len(free_list) <= MaxStore
        /\ MaxStore \in Nat \ {0}
    BY <1>1, BitmapAssumption DEF TypeOK, Apart, StoreOrdered, Ordered
  <1> DEFINE full == Len(free_list) >= MaxStore
             kept == IF full THEN Front(free_list) ELSE free_list
             i == Place(kept, s)
  <1>3. IF full /\ size[s] >= size[Last(free_list)]
        THEN Delete({s}) /\ UNCHANGED free_list
        ELSE /\ Delete(IF full THEN {Last(free_list)} ELSE {})
             /\ free_list' = InsertAt(kept, i, s)
    BY DEF Insert, Place
  <1>4. CASE full /\ size[s] >= size[Last(free_list)]
    <2>1. /\ heap' = heap \cup {s}
          /\ size' = [r \in Super |-> IF r \in {s} THEN 0 ELSE size[r]]
          /\ free_list' = free_list
      BY <1>3, <1>4 DEF Delete
    <2>2. Range(free_list') = (Range(free_list) \cup {s}) \ {s}
      BY <2>1
    <2>3. {s} \in SUBSET (Range(free_list) \cup {s})
      OBVIOUS
    <2>4. Ordered(free_list') /\ NoDuplicates(free_list')
      BY <1>2, <2>1
    <2> QED BY <1>2, <2>1, <2>2, <2>3, <2>4
  <1>5. CASE ~(full /\ size[s] >= size[Last(free_list)])
    <2>1. \E D \in SUBSET Range(free_list) :
            /\ D = IF full THEN {Last(free_list)} ELSE {}
            /\ kept \in Seq(Super) /\ Ordered(kept) /\ NoDuplicates(kept)
            /\ Range(kept) = Range(free_list) \ D /\ Len(kept) + 1 <= MaxStore
      <3>1. CASE full
        <4>1. Len(free_list) # 0
          BY <1>2, <3>1
        <4>2. /\ kept \in Seq(Super) /\ Len(kept) = Len(free_list) - 1
              /\ \A j \in 1 .. Len(free_list) - 1 : kept[j] = free_list[j]
              /\ Last(free_list) \in Range(free_list)
              /\ Range(kept) = Range(free_list) \ {Last(free_list)}
              /\ NoDuplicates(kept)
          BY <1>2, <3>1, <4>1, Fronted
        <4>3. Len(kept) + 1 <= MaxStore
          BY <1>2, <4>2
        <4>4. Ordered(kept)
          <5>1. DOMAIN kept = 1 .. Len(free_list) - 1 /\ DOMAIN free_list = 1 .. Len(free_list)
            BY <1>2, <4>2
          <5>2. \A j \in 1 .. Len(free_list) - 1 : j \in 1 .. Len(free_list)
            BY <1>2
          <5> HIDE DEF kept
          <5>3. \A p, q \in 1 .. Len(free_list) :
                  p < q => size[free_list[p]] <= size[free_list[q]]
            BY <1>2, <5>1 DEF Ordered
          <5>4. \A p, q \in 1 .. Len(free_list) - 1 :
                  p < q => size[kept[p]] <= size[kept[q]]
            BY <4>2, <5>2, <5>3
          <5> QED BY <5>1, <5>4 DEF Ordered
        <4> HIDE DEF kept
        <4> QED BY <3>1, <4>2, <4>3, <4>4
      <3>2. CASE ~full
        <4>1. kept = free_list /\ Len(free_list) + 1 <= MaxStore
          BY <1>2, <3>2
        <4> HIDE DEF kept
        <4> QED BY <1>2, <3>2, <4>1
      <3> QED BY <3>1, <3>2
    <2> PICK D \in SUBSET Range(free_list) :
            /\ D = IF full THEN {Last(free_list)} ELSE {}
            /\ kept \in Seq(Super) /\ Ordered(kept) /\ NoDuplicates(kept)
            /\ Range(kept) = Range(free_list) \ D /\ Len(kept) + 1 <= MaxStore
      BY <2>1
    <2>2. Delete(D) /\ free_list' = InsertAt(kept, i, s)
      BY <1>3, <1>5
    <2> HIDE DEF kept
    <2>3. i \in 1 .. Len(kept) + 1 /\ Ordered(InsertAt(kept, i, s))
      BY <1>2, Placed
    <2> PICK k \in 1 .. Len(kept) + 1 : k = i
      BY <2>3
    <2> HIDE DEF i
    <2>4. /\ InsertAt(kept, k, s) \in Seq(Super)
          /\ Len(InsertAt(kept, k, s)) = Len(kept) + 1
          /\ Range(InsertAt(kept, k, s)) = Range(kept) \cup {s}
          /\ NoDuplicates(kept) /\ s \notin Range(kept) => NoDuplicates(InsertAt(kept, k, s))
      BY Inserted
    <2>5. /\ heap' = heap \cup D
          /\ size' = [r \in Super |-> IF r \in D THEN 0 ELSE size[r]]
      BY <2>2 DEF Delete
    <2>6. Range(free_list') = (Range(free_list) \cup {s}) \ D
      BY <2>2, <2>4
    <2>7. NoDuplicates(free_list') /\ Ordered(free_list')
      BY <2>2, <2>3, <2>4
    <2>8. free_list' \in Seq(Super) /\ Len(free_list') <= MaxStore
      BY <2>2, <2>4
    <2>9. D \in SUBSET (Range(free_list) \cup {s})
      OBVIOUS
    <2> QED BY <2>5, <2>6, <2>7, <2>8, <2>9
  <1> QED BY <1>4, <1>5

LEMMA InsertKeeps ==
  ASSUME IInv, NEW t \in Thread, Insert(t) PROVE IInv'
  <1> USE BitmapAssumption
  <1>0. Calls
    BY Parts
  <1>1. TypeOK /\ Apart /\ LiveOwned /\ Blanks /\ StoreOrdered /\ CallOf(t)
    BY <1>0, Parts DEF Calls
  <1>2. pc[t] = "insert"
    BY DEF Insert, Goto
  <1> PICK s \in Super, y \in Type : s = call[t].super /\ y = call[t].type
    BY <1>2, CallSuper
  <1>3. s \in Owned(y) /\ use_count[s] = 0
    BY <1>2, CallSuper
  <1>4. /\ pc' = [pc EXCEPT ![t] = "erase"]
        /\ count' = [count EXCEPT ![s] = 0] /\ free' = [free EXCEPT ![s] = {}]
        /\ UNCHANGED <<mem_blocks, use_count, last_request, last_dealloc, block_size,
                 mut, live, bfl_mutex, handlerVars, call>>
    BY DEF Insert, Goto
  <1>5. /\ s \notin Range(free_list) /\ s \notin heap /\ s \notin Arriving
        /\ \A z \in Type : z # y => s \notin Owned(z)
        /\ \A z \in Type : \A r \in Range(free_list) : r \notin Owned(z)
    BY <1>1, <1>3 DEF Apart
  <1>a. \E D \in SUBSET (Range(free_list) \cup {s}) :
           /\ heap' = heap \cup D
           /\ size' = [r \in Super |-> IF r \in D THEN 0 ELSE size[r]]
           /\ free_list' \in Seq(Super)
           /\ Range(free_list') = (Range(free_list) \cup {s}) \ D
           /\ NoDuplicates(free_list')
           /\ Ordered(free_list') /\ Len(free_list') <= MaxStore
    <2>1. s = call[t].super
      OBVIOUS
    <2>2. s \notin Range(free_list)
      BY <1>5
    <2> QED BY ONLY IInv, t \in Thread, Insert(t), s \in Super, <2>1, <2>2, StoreTakes, ZenonT(30)
  <1> PICK D \in SUBSET (Range(free_list) \cup {s}) :
           /\ heap' = heap \cup D
           /\ size' = [r \in Super |-> IF r \in D THEN 0 ELSE size[r]]
           /\ free_list' \in Seq(Super)
           /\ Range(free_list') = (Range(free_list) \cup {s}) \ D
           /\ NoDuplicates(free_list')
           /\ Ordered(free_list') /\ Len(free_list') <= MaxStore
    BY <1>a
  <1>6. D \subseteq Super
    BY <1>1, InRange DEF TypeOK
  <1>7. /\ count'[s] = 0 /\ free'[s] = {}
        /\ \A r \in Super : r # s => count'[r] = count[r] /\ free'[r] = free[r]
    BY <1>1, <1>4 DEF TypeOK
  <1>8. /\ \A u \in Thread \ {t} : call[u].type # y
        /\ pc'[t] = "erase" /\ \A u \in Thread \ {t} : pc'[u] = pc[u]
        /\ call[t] = [type |-> y, super |-> s]
    BY <1>1, <1>2, <1>4, Caller DEF TypeOK
  <1>9. Held(y, s) = {}
    <2>1. IsFiniteSet(Held(y, s)) /\ Cardinality(Held(y, s)) = 0
      BY <1>3, InSound
    <2> QED BY <2>1, FS_EmptySet
  <1>10. \A p : <<y, s, p>> \notin live
    <2> SUFFICES ASSUME NEW p, <<y, s, p>> \in live PROVE FALSE
      OBVIOUS
    <2>1. p \in Nat /\ p < count[s]
      BY <1>1 DEF LiveOwned, TypeOK
    <2>2. p \in 0 .. (count[s] - 1)
      BY <1>3, <2>1, InSound
    <2> QED BY <1>9, <2>2 DEF Held
  <1>11. Owned(y)' = Owned(y) \ {s}
    <2>1. \A r : r \in Owned(y)' <=> r \in Owned(y) /\ r # s
      <3> TAKE r
      <3>1. r \in Owned(y)' <=>
              /\ r \in Range(mem_blocks[y])
              /\ \A u \in Thread : pc'[u] = "erase" => call[u] # [type |-> y, super |-> r]
        BY <1>4 DEF Owned
      <3>2. \A u \in Thread : pc'[u] = "erase" <=> pc[u] = "erase" \/ u = t
        BY <1>2, <1>8
      <3>3. call[t] # [type |-> y, super |-> r] <=> r # s
        BY <1>8
      <3> QED BY <3>1, <3>2, <3>3 DEF Owned
    <2> QED BY <2>1
  <1>12. \A z \in Type : z # y => Owned(z)' = Owned(z)
    <2> TAKE z \in Type
    <2> HAVE z # y
    <2>1. \A r : r \in Owned(z)' <=> r \in Owned(z)
      <3> TAKE r
      <3>1. call[t] # [type |-> z, super |-> r]
        BY <1>8
      <3>2. \A u \in Thread : u # t => (pc'[u] = "erase" <=> pc[u] = "erase")
        BY <1>8
      <3> QED BY <1>4, <3>1, <3>2 DEF Owned
    <2> QED BY <2>1
  <1>13. \A z : Leaving(z)' = Leaving(z)
    <2>1. \A u \in Thread : pc'[u] \in {"insert", "erase"} <=> pc[u] \in {"insert", "erase"}
      BY <1>2, <1>8
    <2> QED BY <1>4, <2>1 DEF Leaving
  <1>14. Arriving' = Arriving
    <2>1. \A u \in Thread : pc'[u] = "push" <=> pc[u] = "push"
      BY <1>2, <1>8
    <2>2. \A r : r \in Arriving' <=> r \in Arriving
      BY <1>4, <2>1 DEF Arriving
    <2> QED BY <2>2
  <1>15. \A z \in Type : \A r \in Owned(z)' : /\ r # s /\ r \notin D /\ r \in Super
                                             /\ r \in Owned(z)
    <2> TAKE z \in Type
    <2> TAKE r \in Owned(z)'
    <2>1. r # s /\ r \in Owned(z)
      BY <1>5, <1>11, <1>12
    <2>2. r \notin D
      BY <1>5, <2>1
    <2> QED BY <2>1, <2>2, InSound
  <1>16. TypeOK'
    <2>1. /\ pc' \in [Thread -> Pc] /\ count' \in [Super -> Nat]
          /\ free' \in [Super -> SUBSET Nat]
          /\ heap' \subseteq Super /\ size' \in [Super -> Nat]
      BY <1>1, <1>4, <1>6 DEF TypeOK, Pc
    <2>2. ASSUME NEW r \in Super
          PROVE  use_count[r] <= count'[r] /\ free'[r] \subseteq 0 .. (count'[r] - 1)
      <3>1. CASE r = s
        BY <1>3, <1>7, <3>1
      <3>2. CASE r # s
        BY <1>1, <1>7, <3>2 DEF TypeOK
      <3> QED BY <3>1, <3>2
    <2> QED BY <1>1, <1>4, <2>1, <2>2 DEF TypeOK, handlerVars
  <1>17. Calls'
    <2>1. CallOf(t)'
      <3>1. s \in Range(mem_blocks[y])
        BY <1>3, InOwned
      <3> QED BY <1>1, <1>2, <1>4, <1>8, <3>1 DEF CallOf, Asking, Locker
    <2>2. ASSUME NEW u \in Thread \ {t} PROVE CallOf(u)'
      <3>1. pc'[u] = pc[u] /\ call'[u] = call[u] /\ use_count' = use_count
            /\ mut' = mut /\ mem_blocks' = mem_blocks
        BY <1>4, <1>8
      <3> QED BY <3>1, CallKept
    <2> QED BY <2>1, <2>2 DEF Calls
  <1>18. Apart'
    <2>1. \A z, w \in Type : z # w => Owned(z)' \cap Owned(w)' = {}
      BY <1>1, <1>15 DEF Apart
    <2>2. \A z \in Type : Owned(z)' \cap (Range(free_list') \cup heap' \cup Arriving') = {}
      BY <1>1, <1>5, <1>14, <1>15 DEF Apart
    <2>3. Range(free_list') \cap (heap' \cup Arriving') = {} /\ heap' \cap Arriving' = {}
      BY <1>1, <1>5, <1>14 DEF Apart
    <2>4. \A u, v \in Thread :
            pc'[u] = "push" /\ pc'[v] = "push" /\ u # v => call'[u].super # call'[v].super
      BY <1>1, <1>4, <1>8 DEF Apart
    <2> QED BY <2>1, <2>2, <2>3, <2>4 DEF Apart
  <1>19. LiveOwned'
    <2>1. ASSUME NEW o \in live PROVE o[2] \in Owned(o[1])' /\ o[3] < count'[o[2]]
      <3>1. o[2] \in Owned(o[1]) /\ o[3] < count[o[2]] /\ o[1] \in Type /\ o[2] \in Super
            /\ o = <<o[1], o[2], o[3]>>
        BY <1>1 DEF LiveOwned, TypeOK
      <3>2. o[2] # s
        BY <1>5, <1>10, <3>1
      <3> QED BY <1>7, <1>11, <1>12, <3>1, <3>2
    <2> QED BY <1>4, <2>1 DEF LiveOwned
  <1>20. Blanks'
    <2>1. ASSUME NEW r \in Super, OwnedBy(r)' = {} PROVE Blank(r)'
      <3>1. CASE r = s
        BY <1>3, <1>4, <1>7, <3>1 DEF Blank
      <3>2. CASE r # s
        <4>1. \A z \in Type : r \notin Owned(z)'
          BY <2>1 DEF OwnedBy
        <4>2. OwnedBy(r) = {}
          BY <1>11, <1>12, <3>2, <4>1 DEF OwnedBy
        <4> QED BY <1>1, <1>4, <1>7, <3>2, <4>2 DEF Blanks, Blank
      <3> QED BY <3>1, <3>2
    <2>2. ASSUME NEW u \in Thread, pc'[u] = "push"
          PROVE  size'[call'[u].super] >= Required(u)'
      <3>1. pc[u] = "push" /\ call'[u] = call[u]
        BY <1>4, <1>8, <2>2
      <3>2. /\ call[u].super \in Super /\ call[u].super \notin Range(free_list)
            /\ call[u].super \notin Owned(y)
        BY <3>1, CallSuper
      <3>3. call[u].super \notin D
        BY <1>3, <3>2
      <3>4. Required(u)' = Required(u)
        BY <1>4, <3>1 DEF Required, Needed
      <3> QED BY <1>1, <3>1, <3>2, <3>3, <3>4 DEF Blanks
    <2> QED BY <2>1, <2>2 DEF Blanks
  <1>21. StoreOrdered'
    <2>1. \A i \in DOMAIN free_list' : size'[free_list'[i]] = size[free_list'[i]]
      <3>1. \A i \in DOMAIN free_list' : free_list'[i] \in Super /\ free_list'[i] \notin D
        BY InRange
      <3> QED BY <3>1
    <2> QED BY <2>1 DEF StoreOrdered, Ordered
  <1>22. ASSUME NEW z \in Type, z # y PROVE Sound(z)'
    <2>1. \A r \in Owned(z) : /\ count'[r] = count[r] /\ use_count'[r] = use_count[r]
                              /\ free'[r] = free[r] /\ size'[r] = size[r]
      BY <1>4, <1>7, <1>12, <1>15, <1>22
    <2>2. /\ mem_blocks'[z] = mem_blocks[z] /\ block_size'[z] = block_size[z]
          /\ last_request'[z] = last_request[z] /\ last_dealloc'[z] = last_dealloc[z]
          /\ Owned(z)' = Owned(z) /\ Leaving(z)' = Leaving(z)
      BY <1>4, <1>12, <1>13, <1>22
    <2>3. \A r \in Super, q \in Nat : <<z, r, q>> \in live' <=> <<z, r, q>> \in live
      BY <1>4
    <2>4. \A u \in Thread : pc[u] = "insert" /\ call[u].type = z =>
            pc'[u] = "insert" /\ call'[u] = call[u]
      BY <1>4, <1>8, <1>22
    <2> QED BY <2>1, <2>2, <2>3, <2>4, SoundKept
  <1>23. Sound(y)'
    <2>1. Sound(y)
      BY Parts
    <2>2. ASSUME NEW r \in Owned(y)'
          PROVE  /\ use_count'[r] = Cardinality(Held(y, r)')
                 /\ free'[r] = (0 .. (count'[r] - 1)) \ Held(y, r)'
                 /\ use_count'[r] = 0 =>
                      \E u \in Thread :
                        pc'[u] = "insert" /\ call'[u].type = y /\ call'[u].super = r
                 /\ \E k \in 0 .. MaxBlocks : count'[r] = Bits * 2 ^ k
                 /\ size'[r] >= Needed(y, count'[r])
      <3>1. r \in Owned(y) /\ r # s /\ r \notin D /\ r \in Super
        BY <1>15
      <3>2. count'[r] = count[r] /\ free'[r] = free[r] /\ size'[r] = size[r]
            /\ use_count'[r] = use_count[r]
        BY <1>4, <1>7, <3>1
      <3>3. Held(y, r)' = Held(y, r)
        BY <1>4, <3>2 DEF Held
      <3>4. use_count[r] # 0
        <4> SUFFICES ASSUME use_count[r] = 0 PROVE FALSE
          OBVIOUS
        <4>1. PICK u \in Thread :
                pc[u] = "insert" /\ call[u].type = y /\ call[u].super = r
          BY <2>1, <3>1 DEF Sound
        <4> QED BY <1>8, <3>1, <4>1
      <3>5. /\ use_count[r] = Cardinality(Held(y, r))
            /\ free[r] = (0 .. (count[r] - 1)) \ Held(y, r)
            /\ \E k \in 0 .. MaxBlocks : count[r] = Bits * 2 ^ k
            /\ size[r] >= Needed(y, count[r])
        BY <2>1, <3>1 DEF Sound
      <3> QED BY <3>2, <3>3, <3>4, <3>5
    <2>3. block_size'[y] = Bits * 2 ^ Staying(y)'
      <3>1. Staying(y)' = Staying(y)
        BY <1>4, <1>13 DEF Staying
      <3> QED BY <1>4, <2>1, <3>1 DEF Sound
    <2>4. \/ /\ last_request'[y].super = NoSuper
             /\ last_request'[y].index \in {0, Len(mem_blocks'[y]) + 1}
          \/ /\ last_request'[y].super # NoSuper
             /\ last_request'[y].index \in 1 .. Len(mem_blocks'[y])
             /\ mem_blocks'[y][last_request'[y].index] = last_request'[y].super
             /\ last_request'[y].super \in Owned(y)' =>
                  last_request'[y].bitmap \in
                    0 .. (count'[last_request'[y].super] \div Bits - 1)
      <3> DEFINE r == last_request[y].super
      <3>1. r \in Owned(y)' => r \in Owned(y) /\ count'[r] = count[r]
        <4> HIDE DEF r
        <4> QED BY <1>7, <1>15
      <3>2. r \in Owned(y) => last_request[y].bitmap \in 0 .. (count[r] \div Bits - 1)
            \/ r = NoSuper
        BY <2>1 DEF Sound, BitMaps, Finished
      <3>3. \/ r = NoSuper /\ last_request[y].index \in {0, Len(mem_blocks[y]) + 1}
            \/ /\ r # NoSuper
               /\ last_request[y].index \in 1 .. Len(mem_blocks[y])
               /\ mem_blocks[y][last_request[y].index] = r
        BY <2>1 DEF Sound, Finished
      <3> QED BY <1>4, <3>1, <3>2, <3>3
    <2>5. /\ NoDuplicates(mem_blocks'[y])
          /\ last_dealloc'[y] \in
               1 .. (IF Len(mem_blocks'[y]) = 0 THEN 1 ELSE Len(mem_blocks'[y]))
      BY <1>4, <2>1 DEF Sound
    <2> QED BY ZenonT(30), <2>2, <2>3, <2>4, <2>5, SoundNext
  <1> QED
    BY <1>16, <1>17, <1>18, <1>19, <1>20, <1>21, <1>22, <1>23, Assembled

LEMMA EraseKeeps ==
  ASSUME IInv, NEW t \in Thread, Erase(t) PROVE IInv'
  <1> USE BitmapAssumption
  <1>0. Calls
    BY Parts
  <1>1. TypeOK /\ Apart /\ LiveOwned /\ Blanks /\ StoreOrdered /\ CallOf(t)
    BY <1>0, Parts DEF Calls
  <1>2. pc[t] = "erase"
    BY DEF Erase, Goto
  <1> PICK s \in Super, y \in Type : s = call[t].super /\ y = call[t].type
    BY <1>2, CallSuper
  <1>3. s \in Range(mem_blocks[y]) /\ s \notin Owned(y)
    BY <1>2, CallSuper
  <1>4. mem_blocks[y] \in Seq(Super) /\ Len(mem_blocks[y]) \in Nat
        /\ Len(mem_blocks[y]) <= MaxBlocks /\ NoDuplicates(mem_blocks[y])
    BY <1>1, Parts DEF TypeOK, Sound
  <1>5. IndexOf(y, s) \in 1 .. Len(mem_blocks[y]) /\ mem_blocks[y][IndexOf(y, s)] = s
    BY <1>3, Found
  <1> PICK n \in Nat : n = Len(mem_blocks[y])
    BY <1>4
  <1> PICK d \in 1 .. n : d = IndexOf(y, s)
    BY <1>5
  <1> DEFINE blocks == RemoveAt(mem_blocks[y], d)
  <1>6. /\ blocks \in Seq(Super) /\ Len(blocks) = n - 1
        /\ \A i \in 1 .. n - 1 :
             blocks[i] = IF i < d THEN mem_blocks[y][i] ELSE mem_blocks[y][i + 1]
        /\ Range(blocks) = Range(mem_blocks[y]) \ {s} /\ NoDuplicates(blocks)
    <2>1. d \in 1 .. Len(mem_blocks[y]) /\ mem_blocks[y][d] = s
      BY <1>5
    <2>2. /\ RemoveAt(mem_blocks[y], d) \in Seq(Super)
          /\ Len(RemoveAt(mem_blocks[y], d)) = Len(mem_blocks[y]) - 1
          /\ \A i \in 1 .. Len(mem_blocks[y]) - 1 :
               RemoveAt(mem_blocks[y], d)[i] =
                 IF i < d THEN mem_blocks[y][i] ELSE mem_blocks[y][i + 1]
          /\ NoDuplicates(mem_blocks[y]) =>
               /\ Range(RemoveAt(mem_blocks[y], d)) = Range(mem_blocks[y]) \ {mem_blocks[y][d]}
               /\ NoDuplicates(RemoveAt(mem_blocks[y], d))
      <3> PICK l \in Seq(Super) : l = mem_blocks[y]
        BY <1>4
      <3> PICK k \in 1 .. Len(l) : k = d
        BY <2>1
      <3>1. /\ RemoveAt(l, k) \in Seq(Super) /\ Len(RemoveAt(l, k)) = Len(l) - 1
            /\ \A i \in 1 .. Len(l) - 1 :
                 RemoveAt(l, k)[i] = IF i < k THEN l[i] ELSE l[i + 1]
            /\ NoDuplicates(l) => /\ Range(RemoveAt(l, k)) = Range(l) \ {l[k]}
                                  /\ NoDuplicates(RemoveAt(l, k))
        BY ONLY Removed, l \in Seq(Super), k \in 1 .. Len(l), ZenonT(30)
      <3> QED BY ONLY <3>1, l = mem_blocks[y], k = d, ZenonT(30)
    <2> QED BY <1>4, <2>1, <2>2
  <1> HIDE DEF blocks
  <1>7. /\ pc' = [pc EXCEPT ![t] = "idle"]
        /\ mem_blocks' = [mem_blocks EXCEPT ![y] = blocks]
        /\ mut' = [mut EXCEPT ![y] = NoThread]
        /\ call' = [call EXCEPT ![t] = NoCall]
        /\ UNCHANGED <<count, use_count, free, size, block_size, live, free_list,
                 bfl_mutex, handlerVars, heap>>
    BY DEF Erase, Goto, blocks
  <1>8. /\ last_request' =
             IF last_request[y].index >= d
             THEN [last_request EXCEPT ![y] = ResetTo(blocks, d - 1)]
             ELSE last_request
        /\ last_dealloc' =
             IF last_dealloc[y] > Len(blocks)
             THEN [last_dealloc EXCEPT ![y] = IF d = 1 THEN 1 ELSE d - 1]
             ELSE last_dealloc
    BY DEF Erase, blocks
  <1>9. /\ \A u \in Thread \ {t} : call[u].type # y
        /\ pc'[t] = "idle" /\ call'[t] = NoCall /\ Moved(t)
        /\ call[t] = [type |-> y, super |-> s]
    BY <1>1, <1>2, <1>7, Caller DEF TypeOK, Moved
  <1>10. /\ mem_blocks'[y] = blocks
         /\ \A z \in Type : z # y =>
              /\ mem_blocks'[z] = mem_blocks[z] /\ last_request'[z] = last_request[z]
              /\ last_dealloc'[z] = last_dealloc[z] /\ mut'[z] = mut[z]
    BY <1>1, <1>7, <1>8 DEF TypeOK
  <1>11. /\ Owned(y)' = Owned(y) /\ Leaving(y)' = {} /\ Leaving(y) # {}
    <2>1. \A r : r \in Owned(y)' <=> r \in Owned(y)
      <3> TAKE r
      <3>1. r \in Owned(y)' <=> r \in Range(blocks)
        <4>1. \A u \in Thread : pc'[u] = "erase" => call'[u] # [type |-> y, super |-> r]
          BY <1>9 DEF Moved
        <4> QED BY <1>10, <4>1 DEF Owned
      <3>2. r \in Owned(y) <=> r \in Range(mem_blocks[y]) /\ r # s
        <4>1. call[t] # [type |-> y, super |-> r] <=> r # s
          BY <1>9
        <4>2. \A u \in Thread : u # t => call[u] # [type |-> y, super |-> r]
          BY <1>9
        <4> QED BY <1>2, <4>1, <4>2 DEF Owned
      <3> QED BY <1>6, <3>1, <3>2
    <2>2. Leaving(y)' = {}
      BY <1>9 DEF Leaving, Moved
    <2>3. t \in Leaving(y)
      BY <1>2 DEF Leaving
    <2> QED BY <2>1, <2>2, <2>3
  <1>12. \A z \in Type : z # y => Owned(z)' = Owned(z) /\ Leaving(z)' = Leaving(z)
    <2> TAKE z \in Type
    <2> HAVE z # y
    <2>1. \A r : r \in Owned(z)' <=> r \in Owned(z)
      <3> TAKE r
      <3>1. /\ pc[t] = "erase" => call[t] # [type |-> z, super |-> r]
            /\ pc'[t] = "erase" => call'[t] # [type |-> z, super |-> r]
        BY <1>9
      <3>2. \A u \in Thread :
              (pc'[u] = "erase" => call'[u] # [type |-> z, super |-> r])
                <=> (pc[u] = "erase" => call[u] # [type |-> z, super |-> r])
        BY <1>9, <3>1 DEF Moved
      <3> QED BY <1>10, <3>2 DEF Owned
    <2>2. \A u : u \in Leaving(z)' <=> u \in Leaving(z)
      BY <1>9 DEF Leaving, Moved
    <2> QED BY <2>1, <2>2
  <1>13. \A z \in Type : Owned(z)' = Owned(z)
    BY <1>11, <1>12
  <1>14. Arriving' = Arriving
    <2>1. \A u \in Thread : pc'[u] = "push" => u # t /\ pc[u] = "push" /\ call'[u] = call[u]
      BY <1>9 DEF Moved
    <2>2. \A u \in Thread : pc[u] = "push" => u # t /\ pc'[u] = "push" /\ call'[u] = call[u]
      BY <1>2, <1>9 DEF Moved
    <2>3. \A r : r \in Arriving' <=> r \in Arriving
      BY <2>1, <2>2 DEF Arriving
    <2> QED BY <2>3
  <1>15. Sound(y)
    BY Parts
  <1> PICK j \in Nat, l \in Nat : j = last_request[y].index /\ l = last_dealloc[y]
    <2>1. last_request[y] \in [index : 0 .. (MaxBlocks + 1),
                               super : Super \cup {NoSuper}, bitmap : Nat]
          /\ last_dealloc[y] \in 1 .. (MaxBlocks + 1)
      BY <1>1 DEF TypeOK
    <2> QED BY <2>1
  <1>16. /\ last_request'[y] =
              IF j >= d
              THEN [index |-> d - 1, bitmap |-> 0,
                    super |-> IF d = 1 THEN NoSuper ELSE blocks[d - 1]]
              ELSE last_request[y]
         /\ last_dealloc'[y] =
              IF l > n - 1 THEN IF d = 1 THEN 1 ELSE d - 1 ELSE l
    <2>1. last_request \in [Type -> [index : 0 .. (MaxBlocks + 1),
                               super : Super \cup {NoSuper}, bitmap : Nat]]
          /\ last_dealloc \in [Type -> 1 .. (MaxBlocks + 1)]
      BY <1>1 DEF TypeOK
    <2>2. ResetTo(blocks, d - 1) =
            [index |-> d - 1, super |-> IF d = 1 THEN NoSuper ELSE blocks[d - 1],
             bitmap |-> 0]
      BY DEF ResetTo
    <2> QED BY <1>6, <1>8, <2>1, <2>2
  <1>17. d # 1 => /\ blocks[d - 1] = mem_blocks[y][d - 1] /\ blocks[d - 1] \in Super
                  /\ d - 1 \in 1 .. n - 1
    BY <1>6
  <1>18. /\ l \in 1 .. (IF n = 0 THEN 1 ELSE n)
         /\ last_request[y].super = NoSuper => j \in {0, n + 1}
         /\ last_request[y].super # NoSuper =>
              /\ j \in 1 .. n /\ mem_blocks[y][j] = last_request[y].super
              /\ last_request[y].super \in Owned(y) =>
                   last_request[y].bitmap \in
                     0 .. (count[last_request[y].super] \div Bits - 1)
    BY <1>15 DEF Sound, Finished, BitMaps
  <1>19. last_dealloc'[y] \in 1 .. (IF Len(blocks) = 0 THEN 1 ELSE Len(blocks))
    <2>1. last_dealloc'[y] = IF l > n - 1 THEN IF d = 1 THEN 1 ELSE d - 1 ELSE l
      BY <1>16
    <2>2. l \in 1 .. (IF n = 0 THEN 1 ELSE n)
      BY <1>18
    <2>3. Len(blocks) = n - 1
      BY <1>6
    <2>4. (IF l > n - 1 THEN IF d = 1 THEN 1 ELSE d - 1 ELSE l)
            \in 1 .. (IF n - 1 = 0 THEN 1 ELSE n - 1)
      <3>1. l \in 1 .. n /\ n # 0
        BY <2>2
      <3>0. n - 1 \in Nat /\ n = (n - 1) + 1
        BY <3>1
      <3> PICK m \in Nat : n = m + 1
        BY <3>0
      <3>2. CASE m = 0
        BY <3>1, <3>2
      <3>3. CASE m # 0 /\ l > m
        BY <3>1, <3>3
      <3>4. CASE m # 0 /\ l <= m
        BY <3>1, <3>4
      <3> QED BY <3>2, <3>3, <3>4
    <2> QED BY <2>1, <2>3, <2>4
  <1>20. \/ /\ last_request'[y].super = NoSuper
            /\ last_request'[y].index \in {0, Len(blocks) + 1}
         \/ /\ last_request'[y].super # NoSuper
            /\ last_request'[y].index \in 1 .. Len(blocks)
            /\ blocks[last_request'[y].index] = last_request'[y].super
            /\ last_request'[y].super \in Owned(y)' =>
                 last_request'[y].bitmap \in
                   0 .. (count'[last_request'[y].super] \div Bits - 1)
    <2>1. CASE j >= d /\ d = 1
      BY <1>16, <2>1
    <2>2. CASE j >= d /\ d # 1
      <3>1. blocks[d - 1] \in Owned(y) => 0 \in 0 .. (count[blocks[d - 1]] \div Bits - 1)
        BY InSound DEF BitMaps
      <3>2. last_request'[y].super = blocks[d - 1] /\ last_request'[y].index = d - 1
            /\ last_request'[y].bitmap = 0
        BY <1>16, <2>2
      <3>3. blocks[d - 1] # NoSuper /\ d - 1 \in 1 .. Len(blocks) /\ count' = count
        BY <1>6, <1>7, <1>17, <2>2
      <3> QED BY <1>11, <3>1, <3>2, <3>3
    <2>3. CASE j < d /\ last_request[y].super = NoSuper
      <3>1. last_request'[y] = last_request[y]
        BY <1>16, <2>3
      <3>2. j = 0
        BY <1>18, <2>3
      <3>3. last_request'[y].index = 0 /\ last_request'[y].super = NoSuper
        BY <2>3, <3>1, <3>2
      <3> QED BY <3>3
    <2>4. CASE j < d /\ last_request[y].super # NoSuper
      <3>1. last_request'[y] = last_request[y] /\ j \in 1 .. n /\ j < d /\ count' = count
        BY <1>7, <1>16, <1>18, <2>4
      <3>2. j \in 1 .. n - 1
        BY <3>1
      <3>3. blocks[j] = mem_blocks[y][j]
        BY <1>6, <3>1, <3>2
      <3>4. /\ last_request'[y].super # NoSuper
            /\ last_request'[y].index \in 1 .. Len(blocks)
            /\ blocks[last_request'[y].index] = last_request'[y].super
        BY <1>6, <1>18, <2>4, <3>1, <3>2, <3>3
      <3>5. last_request'[y].super \in Owned(y)' =>
              last_request'[y].bitmap \in 0 .. (count'[last_request'[y].super] \div Bits - 1)
        BY SMTT(30), <1>11, <1>18, <2>4, <3>1
      <3> QED BY <3>4, <3>5
    <2> QED BY SMTT(40), <2>1, <2>2, <2>3, <2>4
  <1>21. TypeOK'
    <2>1. pc' \in [Thread -> Pc] /\ mut' \in [Type -> Thread \cup {NoThread}]
          /\ call' \in [Thread -> [type : Type \cup {NoType}, super : Super \cup {NoSuper}]]
      BY <1>1, <1>7 DEF TypeOK, Pc, NoCall
    <2>2. mem_blocks' \in [Type -> Seq(Super)]
      BY <1>1, <1>6, <1>7 DEF TypeOK
    <2>3. \A z \in Type : Len(mem_blocks'[z]) <= MaxBlocks
      <3>1. Len(blocks) <= MaxBlocks
        BY <1>4, <1>6
      <3> QED BY <1>1, <1>10, <3>1 DEF TypeOK
    <2>4. last_request' \in [Type -> [index : 0 .. (MaxBlocks + 1),
                               super : Super \cup {NoSuper}, bitmap : Nat]]
      <3>1. ResetTo(blocks, d - 1) \in [index : 0 .. (MaxBlocks + 1),
                               super : Super \cup {NoSuper}, bitmap : Nat]
        BY <1>4, <1>17 DEF ResetTo
      <3> QED BY <1>1, <1>8, <3>1 DEF TypeOK
    <2>5. last_dealloc' \in [Type -> 1 .. (MaxBlocks + 1)]
      <3>1. (IF d = 1 THEN 1 ELSE d - 1) \in 1 .. (MaxBlocks + 1)
        BY <1>4
      <3> QED BY <1>1, <1>8, <3>1 DEF TypeOK
    <2> QED BY <1>1, <1>7, <2>1, <2>2, <2>3, <2>4, <2>5 DEF TypeOK, handlerVars
  <1>22. Calls'
    <2>1. CallOf(t)'
      BY <1>9 DEF CallOf, NoCall, Asking
    <2>2. ASSUME NEW u \in Thread \ {t} PROVE CallOf(u)'
      <3>1. /\ pc'[u] = pc[u] /\ call'[u] = call[u]
            /\ call[u].type \in Type =>
                 /\ mut'[call[u].type] = mut[call[u].type]
                 /\ mem_blocks'[call[u].type] = mem_blocks[call[u].type]
            /\ pc[u] = "insert" => use_count'[call[u].super] = use_count[call[u].super]
        BY <1>7, <1>9, <1>10 DEF Moved
      <3> QED BY <3>1, CallKept
    <2> QED BY <2>1, <2>2 DEF Calls
  <1>23. Apart'
    <2>1. \A u, v \in Thread :
            pc'[u] = "push" /\ pc'[v] = "push" /\ u # v => call'[u].super # call'[v].super
      <3>1. \A u \in Thread : pc'[u] = "push" => u # t /\ pc[u] = "push" /\ call'[u] = call[u]
        BY <1>9 DEF Moved
      <3> QED BY <1>1, <3>1 DEF Apart
    <2> QED BY <1>1, <1>7, <1>13, <1>14, <2>1 DEF Apart
  <1>24. LiveOwned'
    <2>1. \A o \in live : o[1] \in Type
      BY <1>1 DEF TypeOK
    <2> QED BY <1>1, <1>7, <1>13, <2>1 DEF LiveOwned
  <1>25. Blanks'
    <2>1. ASSUME NEW r \in Super, OwnedBy(r)' = {} PROVE Blank(r)'
      <3>1. OwnedBy(r)' = OwnedBy(r)
        BY <1>13 DEF OwnedBy
      <3> QED BY <1>1, <1>7, <2>1, <3>1 DEF Blanks, Blank
    <2>2. ASSUME NEW u \in Thread, pc'[u] = "push"
          PROVE  size'[call'[u].super] >= Required(u)'
      <3>1. pc[u] = "push" /\ call'[u] = call[u]
        BY <1>9, <2>2 DEF Moved
      <3>2. Required(u)' = Required(u)
        BY <1>7, <3>1 DEF Required, Needed
      <3> QED BY <1>1, <1>7, <3>1, <3>2 DEF Blanks
    <2> QED BY <2>1, <2>2 DEF Blanks
  <1>26. StoreOrdered'
    BY <1>1, <1>7 DEF StoreOrdered
  <1>27. ASSUME NEW z \in Type, z # y PROVE Sound(z)'
    <2>1. \A r \in Owned(z) : /\ count'[r] = count[r] /\ use_count'[r] = use_count[r]
                              /\ free'[r] = free[r] /\ size'[r] = size[r]
      BY <1>7
    <2>2. /\ mem_blocks'[z] = mem_blocks[z] /\ block_size'[z] = block_size[z]
          /\ last_request'[z] = last_request[z] /\ last_dealloc'[z] = last_dealloc[z]
          /\ Owned(z)' = Owned(z) /\ Leaving(z)' = Leaving(z)
      BY <1>7, <1>10, <1>12, <1>27
    <2>3. \A r \in Super, q \in Nat : <<z, r, q>> \in live' <=> <<z, r, q>> \in live
      BY <1>7
    <2>4. \A u \in Thread : pc[u] = "insert" /\ call[u].type = z =>
            pc'[u] = "insert" /\ call'[u] = call[u]
      BY <1>2, <1>9 DEF Moved
    <2> QED BY <2>1, <2>2, <2>3, <2>4, SoundKept
  <1>28. Sound(y)'
    <2>2. ASSUME NEW r \in Owned(y)'
          PROVE  /\ use_count'[r] = Cardinality(Held(y, r)')
                 /\ free'[r] = (0 .. (count'[r] - 1)) \ Held(y, r)'
                 /\ use_count'[r] = 0 =>
                      \E u \in Thread :
                        pc'[u] = "insert" /\ call'[u].type = y /\ call'[u].super = r
                 /\ \E k \in 0 .. MaxBlocks : count'[r] = Bits * 2 ^ k
                 /\ size'[r] >= Needed(y, count'[r])
      <3>1. r \in Owned(y)
        BY <1>11
      <3>2. count'[r] = count[r] /\ free'[r] = free[r] /\ size'[r] = size[r]
            /\ use_count'[r] = use_count[r]
        BY <1>7
      <3>3. Held(y, r)' = Held(y, r)
        BY <1>7 DEF Held
      <3>4. use_count[r] # 0
        <4> SUFFICES ASSUME use_count[r] = 0 PROVE FALSE
          OBVIOUS
        <4>1. PICK u \in Thread :
                pc[u] = "insert" /\ call[u].type = y /\ call[u].super = r
          BY <1>15, <3>1 DEF Sound
        <4> QED BY <1>2, <1>9, <4>1
      <3>5. /\ use_count[r] = Cardinality(Held(y, r))
            /\ free[r] = (0 .. (count[r] - 1)) \ Held(y, r)
            /\ \E k \in 0 .. MaxBlocks : count[r] = Bits * 2 ^ k
            /\ size[r] >= Needed(y, count[r])
        BY <1>15, <3>1 DEF Sound
      <3> QED BY <3>2, <3>3, <3>4, <3>5
    <2>3. block_size'[y] = Bits * 2 ^ Staying(y)'
      <3>1. Staying(y) = n - 1 /\ Staying(y)' = n - 1
        BY <1>6, <1>10, <1>11 DEF Staying
      <3> QED BY <1>7, <1>15, <3>1 DEF Sound
    <2>4. NoDuplicates(mem_blocks'[y])
      BY <1>6, <1>10
    <2>5. \/ /\ last_request'[y].super = NoSuper
             /\ last_request'[y].index \in {0, Len(mem_blocks'[y]) + 1}
          \/ /\ last_request'[y].super # NoSuper
             /\ last_request'[y].index \in 1 .. Len(mem_blocks'[y])
             /\ mem_blocks'[y][last_request'[y].index] = last_request'[y].super
             /\ last_request'[y].super \in Owned(y)' =>
                  last_request'[y].bitmap \in
                    0 .. (count'[last_request'[y].super] \div Bits - 1)
      BY <1>10, <1>20
    <2>6. last_dealloc'[y] \in
            1 .. (IF Len(mem_blocks'[y]) = 0 THEN 1 ELSE Len(mem_blocks'[y]))
      BY <1>10, <1>19
    <2> QED BY ZenonT(30), <2>2, <2>3, <2>4, <2>5, <2>6, SoundNext
  <1> QED
    BY <1>21, <1>22, <1>23, <1>24, <1>25, <1>26, <1>27, <1>28, Assembled

-----------------------------------------------------------------------------
\* All of it together.

LEMMA InitInv == Init => IInv
  <1> USE BitmapAssumption
  <1> SUFFICES ASSUME Init PROVE IInv
    OBVIOUS
  <1>1. /\ \A y \in Type : mem_blocks[y] = <<>> /\ block_size[y] = Bits
                           /\ last_request[y] = [index |-> 0, super |-> NoSuper, bitmap |-> 0]
                           /\ last_dealloc[y] = 1
        /\ \A s \in Super : count[s] = 0 /\ use_count[s] = 0 /\ free[s] = {}
        /\ \A t \in Thread : pc[t] = "idle" /\ call[t] = NoCall
        /\ live = {} /\ free_list = <<>>
    BY DEF Init, ResetTo
  <1>2. \A y \in Type : Owned(y) = {} /\ Leaving(y) = {}
    BY <1>1 DEF Owned, Leaving, Range
  <1>3. Arriving = {} /\ Range(free_list) = {}
    BY <1>1 DEF Arriving, Range
  <1>4. TypeOK
    <2>1. \A y \in Type : Len(mem_blocks[y]) <= MaxBlocks
      BY <1>1
    <2>2. \A s \in Super : use_count[s] <= count[s] /\ free[s] \subseteq 0 .. (count[s] - 1)
      BY <1>1
    <2>3. /\ mem_blocks \in [Type -> Seq(Super)]
          /\ last_dealloc \in [Type -> 1 .. (MaxBlocks + 1)]
          /\ block_size \in [Type -> Nat \ {0}]
          /\ mut \in [Type -> Thread \cup {NoThread}]
      BY DEF Init
    <2>4. last_request \in [Type -> [index : 0 .. (MaxBlocks + 1),
                               super : Super \cup {NoSuper}, bitmap : Nat]]
      BY DEF Init, ResetTo
    <2>5. /\ pc \in [Thread -> Pc]
          /\ call \in [Thread -> [type : Type \cup {NoType}, super : Super \cup {NoSuper}]]
      BY DEF Init, Pc, NoCall
    <2>6. /\ count \in [Super -> Nat] /\ use_count \in [Super -> Nat]
          /\ size \in [Super -> Nat] /\ free \in [Super -> SUBSET Nat]
          /\ free_list \in Seq(Super)
      BY DEF Init
    <2> QED BY <2>1, <2>2, <2>3, <2>4, <2>5, <2>6 DEF Init, TypeOK
  <1>5. Calls
    BY <1>1 DEF Calls, CallOf, NoCall, Asking
  <1>6. SuperExclusive
    BY <1>1, <1>2, <1>3 DEF SuperExclusive, NoDuplicates
  <1>7. UseCountExact
    BY <1>1, <1>2 DEF UseCountExact
  <1>8. Blanks /\ Emptied
    BY <1>1, <1>2 DEF Blanks, Emptied, Blank
  <1>9. Sizes
    <2>1. 2 ^ 0 = 1
      BY Powers
    <2>2. \A y \in Type : Staying(y) = 0
      BY <1>1, <1>2 DEF Staying
    <2>3. Bits * 1 = Bits
      OBVIOUS
    <2> QED BY <1>1, <1>2, <2>1, <2>2, <2>3 DEF Sizes
  <1>10. Caches
    BY <1>1 DEF Caches, Finished
  <1>11. StoreOrdered /\ LargeEnough
    BY <1>1, <1>2 DEF StoreOrdered, LargeEnough
  <1> QED
    BY <1>4, <1>5, <1>6, <1>7, <1>8, <1>9, <1>10, <1>11 DEF IInv

LEMMA Stutter == IInv /\ UNCHANGED vars => IInv'
  <1> SUFFICES ASSUME IInv, UNCHANGED vars PROVE IInv'
    OBVIOUS
  <1> USE DEF vars, blockVars, handlerVars
  <1>1. TypeOK'
    BY DEF IInv, TypeOK
  <1>2. Calls'
    BY DEF IInv, Calls, CallOf, Locker
  <1>3. /\ \A y : Owned(y)' = Owned(y) /\ Leaving(y)' = Leaving(y)
        /\ Arriving' = Arriving
    BY DEF Owned, Leaving, Arriving
  <1>4. SuperExclusive'
    BY <1>3 DEF IInv, SuperExclusive
  <1>5. UseCountExact'
    <2>1. \A y, s : Held(y, s)' = Held(y, s)
      BY DEF Held
    <2> QED BY <1>3, <2>1 DEF IInv, UseCountExact
  <1>6. Blanks'
    <2>1. \A s : OwnedBy(s)' = OwnedBy(s)
      BY <1>3 DEF OwnedBy
    <2>2. \A t : Required(t)' = Required(t)
      BY DEF Required, Needed
    <2> QED BY <2>1, <2>2 DEF IInv, Blanks, Blank
  <1>7. Emptied'
    BY <1>3 DEF IInv, Emptied
  <1>8. Sizes'
    BY <1>3 DEF IInv, Sizes, Staying
  <1>9. Caches'
    BY <1>3 DEF IInv, Caches, Finished, BitMaps
  <1>10. StoreOrdered' /\ LargeEnough'
    BY <1>3 DEF IInv, StoreOrdered, LargeEnough, Needed
  <1> QED
    BY <1>1, <1>2, <1>4, <1>5, <1>6, <1>7, <1>8, <1>9, <1>10 DEF IInv

LEMMA NextKeeps == IInv /\ [Next]_vars => IInv'
  <1> SUFFICES ASSUME IInv, [Next]_vars PROVE IInv'
    OBVIOUS
  <1>1. CASE UNCHANGED vars
    BY <1>1, Stutter
  <1>2. ASSUME NEW t \in Thread, Begin(t) PROVE IInv'
    <2>1. ASSUME NEW y \in Type, AllocateAhead(t, y) PROVE IInv'
      BY <2>1, AllocateAheadKeeps
    <2>2. ASSUME NEW y \in Type, AllocateFirstFit(t, y) PROVE IInv'
      BY <2>2, AllocateFirstFitKeeps
    <2>3. ASSUME NEW y \in Type, AllocateRefill(t, y) PROVE IInv'
      BY <2>3, AllocateRefillKeeps
    <2>4. ASSUME NEW o \in live, Deallocate(t, o[1], o[2], o[3]) PROVE IInv'
      <3>1. o[1] \in Type /\ o[2] \in Super /\ o[3] \in Nat
        BY DEF IInv, TypeOK
      <3> QED BY <2>4, <3>1, DeallocateKeeps
    <2>5. CASE ElsewhereFails(t)
      BY <2>5, ElsewhereFailsKeeps
    <2> QED BY <1>2, <2>1, <2>2, <2>3, <2>4, <2>5 DEF Begin
  <1>3. ASSUME NEW t \in Thread, Continue(t) PROVE IInv'
    BY <1>3, GivenKeeps, GetNewKeeps, HandlerResetKeeps, NewSucceedsKeeps,
       NewFailsKeeps, ClearKeeps, RestoreKeeps, HandledKeeps, PushKeeps,
       PushFailsKeeps, InsertKeeps, EraseKeeps DEF Continue
  <1> QED BY <1>1, <1>2, <1>3 DEF Next

\* IInv is an inductive invariant of the allocator.
THEOREM Invariant == Spec => []IInv
  BY InitInv, NextKeeps, PTL DEF Spec

-----------------------------------------------------------------------------
\* What it says to a user of the allocator.

\* The type invariant: no count, index or size leaves its range.
THEOREM TypeCorrect == Spec => []TypeOK
  <1>1. IInv => TypeOK
    BY DEF IInv
  <1> QED BY Invariant, <1>1, PTL

\* _S_refill_pool, _S_insert_free_list and _S_get_free_list never put a super
\* block in two places.
THEOREM OneOwner == Spec => []SuperExclusive
  <1>1. IInv => SuperExclusive
    BY DEF IInv
  <1> QED BY Invariant, <1>1, PTL

\* The bit maps and use counts of _S_allocate_single_object and
\* _S_deallocate_single_object say what the program holds.
THEOREM CountsExact == Spec => []UseCountExact
  <1>1. IInv => UseCountExact
    BY DEF IInv
  <1> QED BY Invariant, <1>1, PTL

\* _S_insert_free_list keeps the order that its lower_bound relies on.
THEOREM StoreSorted == Spec => []StoreOrdered
  <1>1. IInv => StoreOrdered
    BY DEF IInv
  <1> QED BY Invariant, <1>1, PTL

\* _S_get_free_list never supplies a super block that is too small.
THEOREM SizesSuffice == Spec => []LargeEnough
  <1>1. IInv => LargeEnough
    BY DEF IInv
  <1> QED BY Invariant, <1>1, PTL

\* _S_last_request and _S_last_dealloc_index survive the erasures of
\* _S_deallocate_single_object.
THEOREM CachesSurvive == Spec => []CachesSound
  <1>1. IInv => CachesSound
    <2> SUFFICES ASSUME IInv, NEW y \in Type, Leaving(y) = {}
                 PROVE  /\ Finished(y) \/
                             /\ last_request[y].index \in DOMAIN mem_blocks[y]
                             /\ mem_blocks[y][last_request[y].index] = last_request[y].super
                             /\ last_request[y].bitmap \in BitMaps(last_request[y].super)
                        /\ mem_blocks[y] # <<>> => last_dealloc[y] \in DOMAIN mem_blocks[y]
      BY DEF CachesSound
    <2>1. Sound(y) /\ TypeOK
      BY Parts
    <2>2. /\ DOMAIN mem_blocks[y] = 1 .. Len(mem_blocks[y])
          /\ mem_blocks[y] # <<>> => Len(mem_blocks[y]) # 0
          /\ \A i \in 1 .. Len(mem_blocks[y]) : mem_blocks[y][i] \in Range(mem_blocks[y])
      <3>1. mem_blocks[y] \in Seq(Super)
        BY <2>1 DEF TypeOK
      <3> QED BY <3>1, InRange
    <2>3. Owned(y) = Range(mem_blocks[y])
      BY DEF Owned, Leaving
    <2>4. mem_blocks[y] # <<>> => last_dealloc[y] \in DOMAIN mem_blocks[y]
      BY <2>1, <2>2 DEF Sound
    <2>5. ~Finished(y) =>
             /\ last_request[y].index \in DOMAIN mem_blocks[y]
             /\ mem_blocks[y][last_request[y].index] = last_request[y].super
             /\ last_request[y].bitmap \in BitMaps(last_request[y].super)
      BY <2>1, <2>2, <2>3 DEF Sound
    <2> QED BY <2>4, <2>5
  <1> QED BY Invariant, <1>1, PTL

\* _S_block_size is doubled and halved once for each super block, in whatever
\* order they come and go, so that it is never 0.
THEOREM NextSizeExact == Spec => []BlockSizeExact
  <1>1. IInv => BlockSizeExact
    <2> SUFFICES ASSUME IInv, NEW y \in Type
                 PROVE  block_size[y] =
                          Bits * 2 ^ (Len(mem_blocks[y]) - Cardinality(Leaving(y)))
      BY DEF BlockSizeExact
    <2>1. block_size[y] = Bits * 2 ^ Staying(y)
      BY Parts DEF Sound
    <2>2. Len(mem_blocks[y]) \in Nat
      BY DEF IInv, TypeOK
    <2>3. Len(mem_blocks[y]) - Cardinality(Leaving(y)) = Staying(y)
      <3>1. CASE Leaving(y) = {}
        <4>1. Cardinality(Leaving(y)) = 0
          BY <3>1, FS_EmptySet
        <4> QED BY <2>2, <3>1, <4>1 DEF Staying
      <3>2. CASE Leaving(y) # {}
        <4>1. PICK t : t \in Leaving(y)
          BY <3>2
        <4>2. \A u \in Leaving(y) : u = t
          BY <4>1, OneCaller DEF Leaving
        <4>3. Leaving(y) = {t}
          BY <4>1, <4>2
        <4>4. Cardinality(Leaving(y)) = 1
          BY <4>3, FS_Singleton
        <4> QED BY <3>2, <4>4 DEF Staying
      <3> QED BY <3>1, <3>2
    <2> QED BY <2>1, <2>3
  <1> QED BY Invariant, <1>1, PTL

-----------------------------------------------------------------------------
\* The allocator implements BlockPool.

LEMMA Available ==
  IInv => /\ live \subseteq Object
          /\ Object \ UNION {Taken(y) : y \in Type} = Object \ live
  <1> SUFFICES ASSUME IInv
               PROVE  /\ live \subseteq Object
                      /\ Object \ UNION {Taken(y) : y \in Type} = Object \ live
    OBVIOUS
  <1> USE BitmapAssumption
  <1>1. ASSUME NEW y \in Type, NEW s \in Owned(y)
        PROVE  count[s] \in Nat /\ count[s] <= Bits * 2 ^ MaxBlocks
    <2>1. PICK k \in 0 .. MaxBlocks : count[s] = Bits * 2 ^ k
      BY Parts DEF Sound
    <2>2. k \in Nat /\ MaxBlocks \in Nat /\ k <= MaxBlocks
      BY <2>1
    <2>3. 2 ^ k \in Nat /\ 2 ^ MaxBlocks \in Nat /\ 2 ^ k <= 2 ^ MaxBlocks
      BY <2>2, Powers, PowersGrow
    <2> PICK a \in Nat, b \in Nat : a = 2 ^ k /\ b = 2 ^ MaxBlocks
      BY <2>3
    <2>4. Bits * a <= Bits * b
      BY <2>3
    <2> QED BY <2>1, <2>4, InSound
  <1>2. ASSUME NEW o \in live
        PROVE  /\ o \in Object /\ o[1] \in Type /\ o[2] \in Owned(o[1])
               /\ o[3] < count[o[2]] /\ o[3] \notin free[o[2]]
    <2>0. o \in Type \X Super \X Nat
      BY DEF IInv, TypeOK
    <2>1. o[1] \in Type /\ o[2] \in Super /\ o[3] \in Nat /\ o = <<o[1], o[2], o[3]>>
      BY <2>0
    <2>2. o[2] \in Owned(o[1]) /\ o[3] < count[o[2]]
      BY Parts DEF LiveOwned
    <2> PICK y \in Type, s \in Super, p \in Nat : o = <<y, s, p>>
      BY <2>1
    <2>3. s \in Owned(y) /\ p < count[s]
      BY <2>2
    <2>4. count[s] \in Nat /\ count[s] <= Bits * 2 ^ MaxBlocks
      BY <1>1, <2>3
    <2>5. free[s] = (0 .. (count[s] - 1)) \ Held(y, s)
      BY <2>3, InSound
    <2>6. p \notin free[s]
      BY <2>3, <2>4, <2>5 DEF Held
    <2>7. 2 ^ MaxBlocks \in Nat
      BY Powers
    <2>8. p \in 0 .. (Bits * 2 ^ MaxBlocks)
      <3> PICK b \in Nat : b = 2 ^ MaxBlocks
        BY <2>7
      <3> QED BY <2>3, <2>4
    <2> QED BY <2>2, <2>3, <2>6, <2>8 DEF Object
  <1>3. ASSUME NEW y \in Type, NEW o \in Taken(y) PROVE o \in live
    <2>1. /\ o \in Object /\ o[1] = y /\ o[2] \in Owned(y)
          /\ o[3] < count[o[2]] /\ o[3] \notin free[o[2]]
      BY <1>3 DEF Taken
    <2>2. o = <<o[1], o[2], o[3]>> /\ o[3] \in 0 .. (Bits * 2 ^ MaxBlocks)
      BY <2>1 DEF Object
    <2> PICK s \in Owned(y) : s = o[2]
      BY <2>1
    <2> PICK p \in 0 .. (Bits * 2 ^ MaxBlocks) : p = o[3]
      BY <2>2
    <2>3. /\ count[s] \in Nat /\ p < count[s] /\ p \notin free[s] /\ o = <<y, s, p>>
          /\ p \in Nat
      BY <1>1, <2>1, <2>2
    <2>4. free[s] = (0 .. (count[s] - 1)) \ Held(y, s)
      BY InSound
    <2>5. p \in Held(y, s)
      BY <2>3, <2>4
    <2> QED BY <2>3, <2>5 DEF Held
  <1>4. ASSUME NEW o \in live PROVE o \in Taken(o[1])
    BY <1>2 DEF Taken
  <1>5. live \subseteq Object
    BY <1>2
  <1>6. UNION {Taken(y) : y \in Type} = live
    BY <1>2, <1>3, <1>4
  <1> QED BY <1>5, <1>6

LEMMA AvailableNext ==
  (IInv => /\ live \subseteq Object
           /\ Object \ UNION {Taken(y) : y \in Type} = Object \ live)'
  BY Available, PTL

\* To its users bitmap_allocator is an allocator like any other: an object it
\* gives is one it has, and one that is given back is one it has again.
THEOREM Implements == Spec => ImplementsPool
  <1> DEFINE avail == Object \ UNION {Taken(y) : y \in Type}
  <1>1. Init => Pool!Init
    <2> SUFFICES ASSUME Init PROVE live = {} /\ avail = Object
      BY DEF Pool!Init
    <2>1. IInv /\ live = {}
      BY InitInv DEF Init
    <2> QED BY <2>1, Available
  <1>2. IInv /\ IInv' /\ [Next]_vars => [Pool!Next]_<<live, avail>>
    <2> SUFFICES ASSUME IInv, IInv', [Next]_vars
                 PROVE  \/ \E b \in Object :
                             \/ /\ b \in avail
                                /\ live' = live \cup {b} /\ avail' = avail \ {b}
                             \/ /\ b \in live
                                /\ live' = live \ {b} /\ avail' = avail \cup {b}
                        \/ live' = live /\ avail' = avail
      BY DEF Pool!Next, Pool!allocate, Pool!deallocate
    <2>1. /\ avail = Object \ live /\ avail' = Object \ live'
          /\ live \subseteq Object /\ live' \subseteq Object
      BY Available, AvailableNext
    <2> HIDE DEF avail
    <2>2. \/ live' = live \/ (\E b : live' = live \cup {b})
          \/ (\E b \in live : live' = live \ {b})
      <3>1. CASE UNCHANGED vars
        BY <3>1 DEF vars, blockVars
      <3>2. ASSUME NEW t \in Thread, NEW y \in Type,
                   AllocateAhead(t, y) \/ AllocateFirstFit(t, y) \/ AllocateRefill(t, y)
            PROVE  live' = live \/ \E b : live' = live \cup {b}
        BY <3>2 DEF AllocateAhead, AllocateFirstFit, AllocateRefill, Give
      <3>3. ASSUME NEW t \in Thread, NEW o \in live, Deallocate(t, o[1], o[2], o[3])
            PROVE  \E b \in live : live' = live \ {b}
        BY <3>3 DEF Deallocate
      <3>4. ASSUME NEW t \in Thread, Continue(t) \/ ElsewhereFails(t)
            PROVE  live' = live \/ \E b : live' = live \cup {b}
        BY <3>4 DEF Continue, ElsewhereFails, GetStored, GetNew, HandlerReset,
          NewSucceeds, NewFails, Clear, Restore, Handled, Push, Divide, PushFails,
          Insert, Erase, blockVars
      <3> QED BY <3>1, <3>2, <3>3, <3>4 DEF Next, Begin
    <2>3. CASE live' = live
      BY <2>1, <2>3
    <2>4. CASE \E b : live' = live \cup {b}
      <3>1. PICK b : live' = live \cup {b}
        BY <2>4
      <3>2. CASE b \in live
        BY <2>1, <3>1, <3>2
      <3>3. CASE b \notin live
        BY <2>1, <3>1, <3>3
      <3> QED BY <3>2, <3>3
    <2>5. CASE \E b \in live : live' = live \ {b}
      <3>1. PICK b \in live : live' = live \ {b}
        BY <2>5
      <3> QED BY <2>1, <3>1
    <2> QED BY <2>2, <2>3, <2>4, <2>5
  <1> QED BY Invariant, <1>1, <1>2, PTL DEF Spec, ImplementsPool, Pool!Spec

-----------------------------------------------------------------------------
\* No super block is lost, as long as _S_mem_blocks can grow.

Somewhere(r) ==
  \/ r \in heap \/ r \in Range(free_list)
  \/ \E t \in Thread : pc[t] = "push" /\ call[t].super = r
  \/ \E y \in Type : r \in Owned(y)

Everywhere == \A r \in Super : Somewhere(r)



\* A step of t that moves no super block.
LEMMA NothingMoved ==
  ASSUME NEW t \in Thread, UNCHANGED <<mem_blocks, heap, free_list>>, Moved(t),
         pc[t] # "push", pc'[t] # "erase", Everywhere
  PROVE  Everywhere'
  <1>1. \A u \in Thread : /\ pc'[u] = "erase" => pc[u] = "erase" /\ call'[u] = call[u]
                          /\ pc[u] = "push" => pc'[u] = "push" /\ call'[u] = call[u]
    BY DEF Moved
  <1>2. \A y : \A r \in Owned(y) : r \in Owned(y)'
    BY <1>1 DEF Owned
  <1> QED BY <1>1, <1>2 DEF Everywhere, Somewhere

LEMMA EverywhereInit == Init => Everywhere
  BY DEF Init, Everywhere, Somewhere

LEMMA EverywhereKept ==
  ASSUME IInv, Everywhere, ~PushThrows, [Next]_vars
  PROVE  Everywhere'
  <1>1. TypeOK
    BY DEF IInv
  <1>2. CASE UNCHANGED vars
    <2>1. UNCHANGED <<mem_blocks, heap, free_list, pc, call>>
      BY <1>2 DEF vars, blockVars
    <2>2. \A y : Owned(y)' = Owned(y)
      BY <2>1 DEF Owned
    <2> QED BY <2>1, <2>2 DEF Everywhere, Somewhere
  <1>3. ASSUME NEW t \in Thread, Begin(t) PROVE Everywhere'
    <2>1. ASSUME NEW y \in Type,
                 AllocateAhead(t, y) \/ AllocateFirstFit(t, y) \/ AllocateRefill(t, y)
          PROVE  Everywhere'
      <3>1. UNCHANGED <<mem_blocks, heap, free_list>> /\ Moved(t)
            /\ pc[t] # "push" /\ pc'[t] # "erase"
        BY <1>1, <2>1 DEF TypeOK, AllocateAhead, AllocateFirstFit, AllocateRefill,
           Goto, Moved
      <3> QED BY <3>1, NothingMoved
    <2>2. ASSUME NEW o \in live, Deallocate(t, o[1], o[2], o[3]) PROVE Everywhere'
      <3>1. UNCHANGED <<mem_blocks, heap, free_list>> /\ Moved(t)
            /\ pc[t] # "push" /\ pc'[t] # "erase"
        <4>1. /\ pc[t] = "idle" /\ UNCHANGED <<mem_blocks, heap, free_list>>
              /\ \/ UNCHANGED <<pc, call>>
                 \/ /\ pc' = [pc EXCEPT ![t] = "insert"]
                    /\ call' = [call EXCEPT ![t] = [type |-> o[1], super |-> o[2]]]
          BY <2>2 DEF Deallocate
        <4> QED BY <1>1, <4>1 DEF TypeOK, Moved
      <3> QED BY <3>1, NothingMoved
    <2>3. CASE ElsewhereFails(t)
      <3>1. UNCHANGED <<mem_blocks, heap, free_list>> /\ Moved(t)
            /\ pc[t] # "push" /\ pc'[t] # "erase"
        BY <1>1, <2>3 DEF TypeOK, ElsewhereFails, Goto, Moved, blockVars
      <3> QED BY <3>1, NothingMoved
    <2> QED BY <1>3, <2>1, <2>2, <2>3 DEF Begin
  <1>4. ASSUME NEW t \in Thread, GetStored(t) PROVE Everywhere'
    <2> DEFINE i == LowerBound(Required(t))
    <2>1. /\ pc[t] = "get" /\ pc' = [pc EXCEPT ![t] = "push"]
          /\ call' = [call EXCEPT ![t].super = free_list[i]]
          /\ free_list' = RemoveAt(free_list, i)
          /\ mem_blocks' = mem_blocks /\ heap' = heap
          /\ StoreGives(Required(t))
      BY <1>4 DEF GetStored, Goto, blockVars
    <2>2. i \in 1 .. Len(free_list)
      <3>1. free_list \in Seq(Super) /\ size \in [Super -> Nat]
        BY <1>1 DEF TypeOK
      <3>2. Required(t) \in Nat
        <4>1. call[t].type \in Type
          BY <2>1, Caller
        <4> QED BY <4>1, RequiredType
      <3> QED BY <2>1, <3>1, <3>2, Bounded DEF StoreGives
    <2>3. Range(free_list') = Range(free_list) \ {free_list[i]}
      <3> PICK k \in 1 .. Len(free_list) : k = i
        BY <2>2
      <3> HIDE DEF i
      <3>1. free_list \in Seq(Super) /\ NoDuplicates(free_list)
        BY <1>1, Parts DEF TypeOK, Apart
      <3>2. Range(RemoveAt(free_list, k)) = Range(free_list) \ {free_list[k]}
        BY ONLY <3>1, Removed, k \in 1 .. Len(free_list), ZenonT(30)
      <3> QED BY <2>1, <3>2
    <2>4. /\ pc'[t] = "push" /\ call'[t].super = free_list[i] /\ Moved(t)
      BY <1>1, <2>1 DEF TypeOK, Moved
    <2> HIDE DEF i
    <2>5. \A y : \A r \in Owned(y) : r \in Owned(y)'
      BY <2>1, <2>4 DEF Owned, Moved
    <2>6. \A u \in Thread : pc[u] = "push" => pc'[u] = "push" /\ call'[u] = call[u]
      BY <2>1, <2>4 DEF Moved
    <2>7. \A r \in Range(free_list) : r \in Range(free_list') \/ r = free_list[i]
      BY <2>3
    <2> QED BY <2>1, <2>4, <2>5, <2>6, <2>7 DEF Everywhere, Somewhere
  <1>5. ASSUME NEW t \in Thread, NewSucceeds(t) PROVE Everywhere'
    <2>1. PICK s \in heap :
            /\ pc[t] = "new" /\ pc' = [pc EXCEPT ![t] = "push"]
            /\ heap' = heap \ {s} /\ call' = [call EXCEPT ![t].super = s]
            /\ mem_blocks' = mem_blocks /\ free_list' = free_list
      BY <1>5 DEF NewSucceeds, Goto, blockVars
    <2>2. pc'[t] = "push" /\ call'[t].super = s /\ Moved(t)
      BY <1>1, <2>1 DEF TypeOK, Moved
    <2>3. \A y : \A r \in Owned(y) : r \in Owned(y)'
      BY <2>1, <2>2 DEF Owned, Moved
    <2>4. \A u \in Thread : pc[u] = "push" => pc'[u] = "push" /\ call'[u] = call[u]
      BY <2>1, <2>2 DEF Moved
    <2>5. \A r \in heap : r \in heap' \/ r = s
      BY <2>1
    <2> QED BY <2>1, <2>2, <2>3, <2>4, <2>5 DEF Everywhere, Somewhere
  <1>6. ASSUME NEW t \in Thread,
               GetNew(t) \/ HandlerReset(t) \/ NewFails(t) \/ Restore(t) \/ Handled(t)
        PROVE  Everywhere'
    <2>1. UNCHANGED <<mem_blocks, heap, free_list>>
      BY <1>6 DEF GetNew, HandlerReset, NewFails, Restore, Handled, blockVars
    <2>2. Moved(t) /\ pc[t] # "push" /\ pc'[t] # "erase"
      BY <1>1, <1>6 DEF GetNew, HandlerReset, NewFails, Restore, Handled, Goto, Moved,
         TypeOK
    <2> QED BY <2>1, <2>2, NothingMoved
  <1>7. ASSUME NEW t \in Thread, Clear(t) PROVE Everywhere'
    <2>1. /\ pc[t] = "clear" /\ pc' = [pc EXCEPT ![t] = "restore"] /\ call' = call
          /\ heap' = heap \cup Range(free_list) /\ mem_blocks' = mem_blocks
      BY <1>7 DEF Clear, Delete, Goto, blockVars
    <2>2. \A u \in Thread : /\ pc'[u] = "erase" <=> pc[u] = "erase"
                            /\ pc'[u] = "push" <=> pc[u] = "push"
      BY <1>1, <2>1 DEF TypeOK
    <2>3. \A y : \A r \in Owned(y) : r \in Owned(y)'
      BY <2>1, <2>2 DEF Owned
    <2> QED BY <2>1, <2>2, <2>3 DEF Everywhere, Somewhere
  <1>8. ASSUME NEW t \in Thread, Push(t) PROVE Everywhere'
    <2>1. pc[t] = "push"
      BY <1>8 DEF Push, Divide, Goto
    <2> PICK y \in Type, s \in Super : y = call[t].type /\ s = call[t].super
      BY <2>1, CallSuper
    <2>2. /\ mem_blocks' = [mem_blocks EXCEPT ![y] = Append(mem_blocks[y], s)]
          /\ pc' = [pc EXCEPT ![t] = "idle"] /\ call' = [call EXCEPT ![t] = NoCall]
          /\ UNCHANGED <<heap, free_list>>
      BY <1>8 DEF Push, Divide, Goto
    <2>3. mem_blocks[y] \in Seq(Super)
      BY <1>1 DEF TypeOK
    <2>4. Range(Append(mem_blocks[y], s)) = Range(mem_blocks[y]) \cup {s}
      BY <2>3, Appended
    <2>5. Range(mem_blocks'[y]) = Range(mem_blocks[y]) \cup {s}
          /\ \A z \in Type : z # y => mem_blocks'[z] = mem_blocks[z]
      BY <1>1, <2>2, <2>4 DEF TypeOK
    <2>6. Moved(t) /\ pc'[t] = "idle" /\ \A u \in Thread \ {t} : call[u].type # y
      BY <1>1, <2>1, <2>2, Caller DEF TypeOK, Moved
    <2>7. \A z \in Type : \A r \in Owned(z) : r \in Owned(z)'
      <3>1. \A z \in Type : \A r \in Range(mem_blocks[z]) : r \in Range(mem_blocks'[z])
        BY <2>5
      <3> QED BY <2>6, <3>1 DEF Owned, Moved
    <2>8. s \in Owned(y)'
      BY <2>5, <2>6 DEF Owned, Moved
    <2>9. \A u \in Thread : pc[u] = "push" =>
            u = t \/ (pc'[u] = "push" /\ call'[u] = call[u])
      BY <2>6 DEF Moved
    <2> QED BY <2>2, <2>7, <2>8, <2>9 DEF Everywhere, Somewhere
  <1>9. ASSUME NEW t \in Thread, PushFails(t) PROVE Everywhere'
    BY <1>9 DEF PushFails
  <1>10. ASSUME NEW t \in Thread, Insert(t) PROVE Everywhere'
    <2>1. /\ pc[t] = "insert" /\ pc' = [pc EXCEPT ![t] = "erase"]
          /\ call' = call /\ mem_blocks' = mem_blocks
      BY <1>10 DEF Insert, Goto
    <2> PICK y \in Type, s \in Super : y = call[t].type /\ s = call[t].super
      BY <2>1, CallSuper
    <2>2. s \in Owned(y)
      BY <2>1, CallSuper
    <2>3. s = call[t].super /\ s \notin Range(free_list)
      BY <2>2, Parts DEF Apart
    <2>4. \E D \in SUBSET (Range(free_list) \cup {s}) :
            /\ heap' = heap \cup D
            /\ Range(free_list') = (Range(free_list) \cup {s}) \ D
      BY ONLY IInv, t \in Thread, Insert(t), s \in Super, <1>10, <2>3, StoreTakes, ZenonT(30)
    <2>5. /\ \A r : r \in heap \/ r \in Range(free_list) \/ r = s =>
                      r \in heap' \/ r \in Range(free_list')
      BY <2>4
    <2>6. /\ \A u \in Thread : pc'[u] = "erase" => pc[u] = "erase" \/ u = t
          /\ \A u \in Thread : pc[u] = "push" => pc'[u] = "push"
          /\ call[t] = [type |-> y, super |-> s]
      BY <1>1, <2>1 DEF TypeOK
    <2>7. \A z : \A r \in Owned(z) : r = s \/ r \in Owned(z)'
      <3> SUFFICES ASSUME NEW z, NEW r \in Owned(z), r # s PROVE r \in Owned(z)'
        OBVIOUS
      <3>1. call[t] # [type |-> z, super |-> r]
        BY <2>6
      <3> QED BY <2>1, <2>6, <3>1 DEF Owned
    <2> QED BY <2>1, <2>5, <2>6, <2>7 DEF Everywhere, Somewhere
  <1>11. ASSUME NEW t \in Thread, Erase(t) PROVE Everywhere'
    <2>1. pc[t] = "erase"
      BY <1>11 DEF Erase, Goto
    <2> PICK y \in Type, s \in Super : y = call[t].type /\ s = call[t].super
      BY <2>1, CallSuper
    <2>2. s \in Range(mem_blocks[y]) /\ s \notin Owned(y)
      BY <2>1, CallSuper
    <2>3. /\ mem_blocks' = [mem_blocks EXCEPT ![y] = RemoveAt(mem_blocks[y], IndexOf(y, s))]
          /\ pc' = [pc EXCEPT ![t] = "idle"] /\ call' = [call EXCEPT ![t] = NoCall]
          /\ UNCHANGED <<heap, free_list>>
      BY <1>11 DEF Erase, Goto
    <2>4. Range(RemoveAt(mem_blocks[y], IndexOf(y, s))) = Range(mem_blocks[y]) \ {s}
      <3> PICK l \in Seq(Super) : l = mem_blocks[y]
        BY <1>1 DEF TypeOK
      <3> PICK d \in 1 .. Len(l) : d = IndexOf(y, s)
        BY <2>2, Found
      <3>1. l[d] = s /\ NoDuplicates(l)
        BY <2>2, Found, Parts DEF Sound
      <3>2. Range(RemoveAt(l, d)) = Range(l) \ {l[d]}
        BY ONLY <3>1, Removed, l \in Seq(Super), d \in 1 .. Len(l), ZenonT(30)
      <3> QED BY <3>1, <3>2
    <2>5. Range(mem_blocks'[y]) = Range(mem_blocks[y]) \ {s}
          /\ \A z \in Type : z # y => mem_blocks'[z] = mem_blocks[z]
      BY <1>1, <2>3, <2>4 DEF TypeOK
    <2>6. Moved(t) /\ pc'[t] = "idle"
      BY <1>1, <2>3 DEF TypeOK, Moved
    <2>7. \A z \in Type : \A r \in Owned(z) : r \in Owned(z)'
      <3>1. \A z \in Type : \A r \in Owned(z) : r \in Range(mem_blocks'[z])
        BY <2>2, <2>5 DEF Owned
      <3> QED BY <2>6, <3>1 DEF Owned, Moved
    <2>8. \A u \in Thread : pc[u] = "push" => pc'[u] = "push" /\ call'[u] = call[u]
      BY <2>1, <2>6 DEF Moved
    <2> QED BY <2>3, <2>7, <2>8 DEF Everywhere, Somewhere
  <1> QED
    BY <1>2, <1>3, <1>4, <1>5, <1>6, <1>7, <1>8, <1>9, <1>10, <1>11 DEF Next, Continue

\* As long as _S_mem_blocks can grow, _S_insert_free_list, _S_get_free_list,
\* _S_clear and _S_refill_pool lose no super block.
THEOREM NothingLost ==
  ASSUME ~PushThrows PROVE Spec => []SuperKept
  <1>1. Init => Everywhere
    BY EverywhereInit
  <1>2. IInv /\ Everywhere /\ [Next]_vars => Everywhere'
    BY EverywhereKept
  <1>3. IInv /\ Everywhere => SuperKept
    <2> SUFFICES ASSUME IInv, Everywhere PROVE SuperKept
      OBVIOUS
    <2>1. heap \subseteq Super /\ Range(free_list) \subseteq Super
      BY InRange DEF IInv, TypeOK
    <2>2. \A t \in Thread : pc[t] = "push" => call[t].super \in Super
      BY CallSuper
    <2>3. \A y \in Type : Owned(y) \subseteq Super
      BY InSound
    <2> QED BY <2>1, <2>2, <2>3 DEF Everywhere, Somewhere, SuperKept, Arriving
  <1> QED BY Invariant, <1>1, <1>2, <1>3, PTL DEF Spec

-----------------------------------------------------------------------------
\* Without threads the new-handler is put back.

\* The handler that _OOM_handler saved is the program's; where another one is
\* set, some call is still to put it back.
Handlers ==
  /\ old_handler = "program" /\ new_handler \in {"program", "oom"}
  /\ new_handler = "oom" =>
       \E t \in Thread : \/ pc[t] \in {"handler", "clear", "restore"}
                         \/ pc[t] = "new" /\ ~handled_oom

LEMMA HandlersKept ==
  ASSUME ~Enabled, TypeOK, Handlers, [Next]_vars PROVE Handlers'
  <1>1. CASE UNCHANGED vars
    BY <1>1 DEF vars, handlerVars, Handlers
  <1>2. ASSUME NEW t \in Thread, Begin(t) \/ Continue(t) PROVE Handlers'
    <2>1. /\ \A u \in Thread : u = t
          /\ pc \in [Thread -> Pc] /\ handled_oom \in BOOLEAN
      BY BitmapAssumption DEF TypeOK
    <2>2. /\ old_handler = "program" /\ new_handler \in {"program", "oom"}
          /\ new_handler = "oom" => \/ pc[t] \in {"handler", "clear", "restore"}
                                    \/ pc[t] = "new" /\ ~handled_oom
      BY <2>1 DEF Handlers
    <2>3. SUFFICES /\ old_handler' = "program" /\ new_handler' \in {"program", "oom"}
                   /\ new_handler' = "oom" => \/ pc'[t] \in {"handler", "clear", "restore"}
                                              \/ pc'[t] = "new" /\ ~handled_oom'
      BY DEF Handlers
    <2>4. ASSUME NEW y \in Type,
                 AllocateAhead(t, y) \/ AllocateFirstFit(t, y) \/ AllocateRefill(t, y)
          PROVE  new_handler = "program" /\ UNCHANGED <<old_handler, new_handler>>
      BY <2>2, <2>4 DEF AllocateAhead, AllocateFirstFit, AllocateRefill, Goto, handlerVars
    <2>5. ASSUME NEW o \in live, Deallocate(t, o[1], o[2], o[3])
          PROVE  new_handler = "program" /\ UNCHANGED <<old_handler, new_handler>>
      BY <2>2, <2>5 DEF Deallocate, handlerVars
    <2>6. ~ElsewhereFails(t)
      BY <2>2 DEF ElsewhereFails, Goto
    <2>7. CASE GetStored(t) \/ Push(t) \/ PushFails(t) \/ Insert(t) \/ Erase(t)
      BY <2>2, <2>7 DEF GetStored, Push, Divide, PushFails, Insert, Erase, Goto,
         handlerVars
    <2>8. CASE GetNew(t)
      BY <2>1, <2>2, <2>8 DEF GetNew, Goto
    <2>9. CASE HandlerReset(t)
      BY <2>1, <2>2, <2>9 DEF HandlerReset, Goto
    <2>10. CASE NewSucceeds(t)
      BY <2>1, <2>2, <2>10 DEF NewSucceeds, HandlerDone, Goto
    <2>11. CASE NewFails(t)
      BY <2>1, <2>2, <2>11 DEF NewFails, HandlerDone, Goto
    <2>12. CASE Clear(t)
      BY <2>1, <2>2, <2>12 DEF Clear, Goto, handlerVars
    <2>13. CASE Restore(t)
      BY <2>1, <2>2, <2>13 DEF Restore, Goto
    <2>14. CASE Handled(t)
      BY <2>1, <2>2, <2>14 DEF Handled, Goto
    <2> QED BY <1>2, <2>2, <2>4, <2>5, <2>6, <2>7, <2>8, <2>9, <2>10, <2>11, <2>12,
               <2>13, <2>14 DEF Begin, Continue
  <1> QED BY <1>1, <1>2 DEF Next

\* Without threads, a new-handler that _OOM_handler installed is gone after
\* the call, whether operator new has called it or not.
THEOREM HandlerPutBack ==
  ASSUME ~Enabled PROVE Spec => []HandlerRestored
  <1>1. Init => Handlers
    BY DEF Init, Handlers
  <1>2. TypeOK /\ Handlers /\ [Next]_vars => Handlers'
    BY HandlersKept
  <1>3. Handlers => HandlerRestored
    BY DEF Handlers, HandlerRestored
  <1> QED BY TypeCorrect, <1>1, <1>2, <1>3, PTL DEF Spec
=============================================================================
