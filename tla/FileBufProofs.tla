--------------------------- MODULE FileBufProofs ---------------------------
(***************************************************************************)
(* For every set of characters, every choice of buffer sizes and files of  *)
(* every length: the buffer is the get area or the put area, the get area  *)
(* is a copy of the file, and the program sees the file itself.            *)
(***************************************************************************)
EXTENDS FileBuf, TLAPS, FiniteSetTheorems, WellFoundedInduction

-----------------------------------------------------------------------------
(* Natural numbers *)

\* A set of naturals that has 0, and n + 1 when it has n, is all of them: of the
\* intervals from 0 to a missing one, one contains no other.
LEMMA Climb ==
  ASSUME NEW S, 0 \in S, \A n \in Nat : n \in S => n + 1 \in S
  PROVE  Nat \subseteq S
  <1> SUFFICES ASSUME ~(Nat \subseteq S) PROVE FALSE
    OBVIOUS
  <1> DEFINE F == {0 .. x : x \in Nat \ S}
             R == StrictSubsetOrdering(Nat)
  <1>1. F # {} /\ F \subseteq FiniteSubsetsOf(Nat)
    <2>1. \A x \in Nat : IsFiniteSet(0 .. x) /\ 0 .. x \subseteq Nat
      BY FS_Interval
    <2> QED BY <2>1 DEF FiniteSubsetsOf
  <1>2. IsWellFoundedOn(R, FiniteSubsetsOf(Nat))
    BY FS_StrictSubsetOrderingWellFounded
  <1>3. PICK I \in F : \A J \in F : <<J, I>> \notin R
    <2> HIDE DEF F, R
    <2> QED BY <1>1, <1>2, WFMin
  <1>4. PICK x \in Nat \ S : I = 0 .. x
    OBVIOUS
  <1> PICK y : y = x - 1
    OBVIOUS
  <1>5. y \in Nat /\ x = y + 1
    BY <1>4
  <1>6. y \notin S
    BY <1>4, <1>5
  <1>7. 0 .. y \in F /\ 0 .. y \subseteq 0 .. x /\ x \in 0 .. x /\ x \notin 0 .. y
    BY <1>5, <1>6
  <1>8. 0 .. y # 0 .. x
    BY <1>7
  <1>9. 0 .. x \subseteq Nat
    OBVIOUS
  <1> QED BY <1>3, <1>4, <1>7, <1>8, <1>9 DEF StrictSubsetOrdering

-----------------------------------------------------------------------------
(* Sequences *)

\* t is the n characters of s behind p.
IsPart(t, s, p, n) ==
  t \in Seq(Char) /\ Len(t) = n /\ \A i \in 1 .. n : t[i] = s[p + i]

\* SubSeq takes the characters it names.
LEMMA PartOf ==
  ASSUME NEW s \in Seq(Char), NEW p \in Nat, NEW n \in Nat, p + n <= Len(s)
  PROVE  IsPart(SubSeq(s, p + 1, p + n), s, p, n)
  <1>1. SubSeq(s, p + 1, p + n) \in Seq(Char) /\ Len(SubSeq(s, p + 1, p + n)) = n
    OBVIOUS
  <1>2. ASSUME NEW i \in 1 .. n PROVE SubSeq(s, p + 1, p + n)[i] = s[p + i]
    OBVIOUS
  <1> QED BY <1>1, <1>2 DEF IsPart

\* u is s and then t.
IsJoin(u, s, t) ==
  /\ u \in Seq(Char) /\ Len(u) = Len(s) + Len(t)
  /\ \A i \in 1 .. Len(u) : u[i] = IF i <= Len(s) THEN s[i] ELSE t[i - Len(s)]

\* The characters of s \o t.
LEMMA Joined ==
  ASSUME NEW s \in Seq(Char), NEW t \in Seq(Char)
  PROVE  IsJoin(s \o t, s, t)
  <1>1. s \o t \in Seq(Char) /\ Len(s \o t) = Len(s) + Len(t)
    OBVIOUS
  <1>2. ASSUME NEW i \in 1 .. Len(s) + Len(t)
        PROVE  (s \o t)[i] = IF i <= Len(s) THEN s[i] ELSE t[i - Len(s)]
    OBVIOUS
  <1> QED BY <1>1, <1>2 DEF IsJoin

\* Two sequences with the same characters are one.
LEMMA SameSeq ==
  ASSUME NEW s \in Seq(Char), NEW t \in Seq(Char), Len(s) = Len(t),
         \A i \in 1 .. Len(s) : s[i] = t[i]
  PROVE  s = t
  OBVIOUS

\* w is s with t over what is behind p.
IsOverlay(w, s, p, t) ==
  /\ w \in Seq(Char)
  /\ Len(w) = IF p + Len(t) < Len(s) THEN Len(s) ELSE p + Len(t)
  /\ \A i \in 1 .. Len(w) : w[i] = IF p < i /\ i <= p + Len(t) THEN t[i - p] ELSE s[i]

\* FileWrite replaces the characters that it says.
LEMMA Overlaid ==
  ASSUME NEW s \in Seq(Char), NEW p \in Nat, p <= Len(s), NEW t \in Seq(Char)
  PROVE  IsOverlay(SubSeq(s, 1, p) \o t \o SubSeq(s, p + Len(t) + 1, Len(s)), s, p, t)
  <1> PICK n \in Nat : n = Len(t)
    OBVIOUS
  <1> PICK m \in Nat : m = Len(s)
    OBVIOUS
  <1> DEFINE a == SubSeq(s, 1, p)
             b == SubSeq(s, p + n + 1, m)
             c == a \o t
             w == c \o b
  <1>1. IsPart(a, s, 0, p)
    <2>1. IsPart(SubSeq(s, 0 + 1, 0 + p), s, 0, p)
      BY PartOf
    <2> QED BY <2>1
  <1>2. /\ b \in Seq(Char) /\ Len(b) = IF p + n < m THEN m - (p + n) ELSE 0
        /\ \A i \in 1 .. Len(b) : b[i] = s[p + n + i]
    <2>1. CASE p + n <= m
      <3>1. IsPart(SubSeq(s, (p + n) + 1, (p + n) + (m - (p + n))), s, p + n, m - (p + n))
        BY <2>1, PartOf
      <3>2. (p + n) + (m - (p + n)) = m
        OBVIOUS
      <3>3. IsPart(b, s, p + n, m - (p + n))
        BY <3>1, <3>2
      <3> HIDE DEF b
      <3> QED BY <2>1, <3>3 DEF IsPart
    <2>2. CASE p + n > m
      <3>1. b \in Seq(Char) /\ Len(b) = 0
        BY <2>2
      <3> HIDE DEF b
      <3> QED BY <2>2, <3>1
    <2> QED BY <2>1, <2>2
  <1>3. a \in Seq(Char) /\ b \in Seq(Char)
    BY <1>1, <1>2 DEF IsPart
  <1> HIDE DEF a, b
  <1>4. IsJoin(c, a, t) /\ c \in Seq(Char)
    BY <1>3, Joined DEF IsJoin
  <1> HIDE DEF c
  <1>5. IsJoin(w, c, b)
    BY <1>3, <1>4, Joined
  <1>6. w = SubSeq(s, 1, p) \o t \o SubSeq(s, p + Len(t) + 1, Len(s))
    BY DEF a, b, c
  <1> HIDE DEF w
  <1> PICK k \in Nat : k = Len(b)
    BY <1>3
  <1>7. /\ w \in Seq(Char) /\ Len(w) = p + n + k
        /\ \A i \in 1 .. Len(w) : i <= p => w[i] = s[i]
        /\ \A i \in 1 .. Len(w) : p < i /\ i <= p + n => w[i] = t[i - p]
        /\ \A i \in 1 .. Len(w) : p + n < i => w[i] = b[i - (p + n)]
    <2>1. /\ Len(a) = p /\ \A i \in 1 .. p : a[i] = s[i]
      BY <1>1 DEF IsPart
    <2>2. /\ Len(c) = p + n
          /\ \A i \in 1 .. p + n : c[i] = IF i <= p THEN s[i] ELSE t[i - p]
      BY <1>4, <2>1 DEF IsJoin
    <2>3. /\ w \in Seq(Char) /\ Len(w) = p + n + k
          /\ \A i \in 1 .. p + n + k : w[i] = IF i <= p + n THEN c[i] ELSE b[i - (p + n)]
      BY <1>5, <2>2 DEF IsJoin
    <2>4. \A i \in 1 .. p + n + k : i <= p => w[i] = s[i]
      BY <2>2, <2>3
    <2>5. \A i \in 1 .. p + n + k : p < i /\ i <= p + n => w[i] = t[i - p]
      BY <2>2, <2>3
    <2>6. \A i \in 1 .. p + n + k : p + n < i => w[i] = b[i - (p + n)]
      BY <2>3
    <2> QED BY ONLY <2>3, <2>4, <2>5, <2>6
  <1>8. \A i \in 1 .. Len(w) : p + n < i => w[i] = s[i]
    <2> SUFFICES ASSUME NEW i \in 1 .. Len(w), p + n < i PROVE w[i] = s[i]
      OBVIOUS
    <2>1. i \in 1 .. p + n + k
      BY <1>7
    <2>3. i - (p + n) \in 1 .. k /\ p + n + (i - (p + n)) = i
      BY ONLY <2>1, p + n < i, p \in Nat, n \in Nat, k \in Nat
    <2>4. w[i] = b[i - (p + n)]
      BY <1>7
    <2>5. b[i - (p + n)] = s[p + n + (i - (p + n))]
      BY <1>2, <2>3
    <2> QED BY <2>3, <2>4, <2>5
  <1>9. k = IF p + n < m THEN m - (p + n) ELSE 0
    BY <1>2
  <1>10. Len(w) = IF p + n < m THEN m ELSE p + n
    <2>1. Len(w) = p + n + k
      BY <1>7
    <2> QED BY ONLY <2>1, <1>9, p \in Nat, n \in Nat, m \in Nat
  <1>11. \A i \in 1 .. Len(w) : w[i] = IF p < i /\ i <= p + n THEN t[i - p] ELSE s[i]
    <2> SUFFICES ASSUME NEW i \in 1 .. Len(w)
                 PROVE  w[i] = IF p < i /\ i <= p + n THEN t[i - p] ELSE s[i]
      OBVIOUS
    <2>1. i \in Nat
      BY <1>7
    <2>2. CASE i <= p
      BY <1>7, <2>2
    <2>3. CASE p < i /\ i <= p + n
      BY <1>7, <2>3
    <2>4. CASE p + n < i
      BY <1>8, <2>4
    <2> QED BY <2>1, <2>2, <2>3, <2>4
  <1>12. IsOverlay(w, s, p, t)
    BY <1>7, <1>10, <1>11 DEF IsOverlay
  <1> QED BY <1>6, <1>12

\* An overlay is known by its characters.
LEMMA SameOverlay ==
  ASSUME NEW s, NEW p, NEW t, NEW w, NEW x, IsOverlay(w, s, p, t), IsOverlay(x, s, p, t)
  PROVE  w = x
  <1>1. w \in Seq(Char) /\ x \in Seq(Char) /\ Len(w) = Len(x)
    BY DEF IsOverlay
  <1>2. \A i \in 1 .. Len(w) : w[i] = x[i]
    BY <1>1 DEF IsOverlay
  <1> QED BY <1>1, <1>2, SameSeq

\* Nothing over s is s.
LEMMA OverlayNothing ==
  ASSUME NEW s \in Seq(Char), NEW p \in Nat, p <= Len(s)
  PROVE  SubSeq(s, 1, p) \o << >> \o SubSeq(s, p + Len(<< >>) + 1, Len(s)) = s
  <1>1. IsOverlay(SubSeq(s, 1, p) \o << >> \o SubSeq(s, p + Len(<< >>) + 1, Len(s)),
                  s, p, << >>)
    <2>1. << >> \in Seq(Char)
      OBVIOUS
    <2> QED BY <2>1, Overlaid
  <1>2. IsOverlay(s, s, p, << >>)
    BY DEF IsOverlay
  <1> QED BY <1>1, <1>2, SameOverlay

\* First t and then u behind it is both at once.
LEMMA OverlayTwice ==
  ASSUME NEW s \in Seq(Char), NEW p \in Nat, p <= Len(s),
         NEW t \in Seq(Char), NEW u \in Seq(Char), NEW w, NEW x,
         IsOverlay(w, s, p, t), IsOverlay(x, w, p + Len(t), u)
  PROVE  IsOverlay(x, s, p, t \o u)
  <1> PICK n \in Nat : n = Len(t)
    OBVIOUS
  <1> PICK k \in Nat : k = Len(u)
    OBVIOUS
  <1> PICK v : v = t \o u
    OBVIOUS
  <1>1. /\ v \in Seq(Char) /\ Len(v) = n + k
        /\ \A i \in 1 .. n : v[i] = t[i]
        /\ \A i \in 1 .. n + k : i > n => v[i] = u[i - n]
    OBVIOUS
  <1>2. /\ w \in Seq(Char) /\ Len(w) = IF p + n < Len(s) THEN Len(s) ELSE p + n
        /\ \A i \in 1 .. Len(w) : w[i] = IF p < i /\ i <= p + n THEN t[i - p] ELSE s[i]
    BY DEF IsOverlay
  <1>3. /\ x \in Seq(Char) /\ Len(x) = IF p + n + k < Len(w) THEN Len(w) ELSE p + n + k
        /\ \A i \in 1 .. Len(x) :
             x[i] = IF p + n < i /\ i <= p + n + k THEN u[i - (p + n)] ELSE w[i]
    BY DEF IsOverlay
  <1>4. Len(x) = IF p + Len(v) < Len(s) THEN Len(s) ELSE p + Len(v)
    BY <1>1, <1>2, <1>3
  <1>5. \A i \in 1 .. Len(x) : x[i] = IF p < i /\ i <= p + Len(v) THEN v[i - p] ELSE s[i]
    <2> SUFFICES ASSUME NEW i \in 1 .. Len(x)
                 PROVE  x[i] = IF p < i /\ i <= p + Len(v) THEN v[i - p] ELSE s[i]
      OBVIOUS
    <2>1. CASE i <= p + n
      <3>1. x[i] = w[i] /\ i \in 1 .. Len(w)
        BY <1>2, <1>3, <2>1
      <3>2. p < i => i - p \in 1 .. n /\ i <= p + Len(v)
        BY <1>1, <2>1
      <3> QED BY <1>1, <1>2, <2>1, <3>1, <3>2
    <2>2. CASE p + n < i /\ i <= p + n + k
      <3>1. x[i] = u[i - (p + n)]
        BY <1>3, <2>2
      <3>2. i - p \in 1 .. n + k /\ i - p > n /\ (i - p) - n = i - (p + n)
        BY <2>2
      <3> QED BY <1>1, <2>2, <3>1, <3>2
    <2>3. CASE p + n + k < i
      <3>1. x[i] = w[i] /\ i \in 1 .. Len(w)
        BY <1>2, <1>3, <2>3
      <3> QED BY <1>1, <1>2, <2>3, <3>1
    <2>4. i \in Int /\ p + n \in Int /\ p + n + k \in Int
      OBVIOUS
    <2>5. i <= p + n \/ (p + n < i /\ i <= p + n + k) \/ p + n + k < i
      BY <2>4
    <2> QED BY <2>1, <2>2, <2>3, <2>5
  <1> QED BY <1>3, <1>4, <1>5 DEF IsOverlay

-----------------------------------------------------------------------------
(* Calls of calls *)

\* d is what the loops of xsgetn and of xsputn do, call after call.
Gets(d, f, n) ==
  d = [i \in 0 .. n |-> IF i = 0 THEN <<f, << >>>> ELSE GetOne(d[i - 1])]

Puts(d, f, s, n) ==
  d = [i \in 0 .. n |-> IF i = 0 THEN f ELSE Sputc(d[i - 1], s[i])]

\* One more character can be got.
LEMMA GetsUp ==
  ASSUME NEW f, NEW n \in Nat, NEW d, Gets(d, f, n)
  PROVE  \E e : Gets(e, f, n + 1)
  <1> PICK e : e = [i \in 0 .. n + 1 |-> IF i = n + 1 THEN GetOne(d[n]) ELSE d[i]]
    OBVIOUS
  <1>1. \A i \in 0 .. n : e[i] = d[i]
    OBVIOUS
  <1>2. e[n + 1] = GetOne(d[n])
    OBVIOUS
  <1>3. \A i \in 0 .. n : d[i] = IF i = 0 THEN <<f, << >>>> ELSE GetOne(d[i - 1])
    BY DEF Gets
  <1>4. \A i \in 0 .. n + 1 :
          e[i] = IF i = 0 THEN <<f, << >>>> ELSE GetOne(e[i - 1])
    <2> SUFFICES ASSUME NEW i \in 0 .. n + 1
                 PROVE  e[i] = IF i = 0 THEN <<f, << >>>> ELSE GetOne(e[i - 1])
      OBVIOUS
    <2>1. CASE i = n + 1
      BY <1>1, <1>2, <2>1
    <2>2. CASE i # n + 1
      <3>1. i \in 0 .. n /\ (i = 0 \/ i - 1 \in 0 .. n)
        BY <2>2
      <3> QED BY <1>1, <1>3, <3>1
    <2> QED BY <2>1, <2>2
  <1>5. e = [i \in 0 .. n + 1 |-> e[i]]
    OBVIOUS
  <1>6. Gets(e, f, n + 1)
    BY <1>4, <1>5 DEF Gets
  <1> QED BY <1>6

\* The function that the loop of xsgetn defines exists, for every number of characters.
LEMMA GetEachIs ==
  ASSUME NEW f, NEW n \in Nat
  PROVE  \E d : Gets(d, f, n) /\ GetEach(f, n) = d[n]
  <1> DEFINE S == {k \in Nat : \E d : Gets(d, f, k)}
  <1>1. 0 \in S
    <2> PICK d : d = [i \in 0 .. 0 |-> <<f, << >>>>]
      OBVIOUS
    <2>1. d = [i \in 0 .. 0 |-> IF i = 0 THEN <<f, << >>>> ELSE GetOne(d[i - 1])]
      OBVIOUS
    <2> QED BY <2>1 DEF Gets
  <1>2. \A k \in Nat : k \in S => k + 1 \in S
    BY GetsUp
  <1>3. n \in S
    <2> HIDE DEF S
    <2> QED BY <1>1, <1>2, Climb
  <1>4. \E d : Gets(d, f, n)
    BY <1>3
  <1>5. GetEach(f, n) = (CHOOSE d : Gets(d, f, n))[n]
    BY DEF GetEach, Gets
  <1>6. Gets(CHOOSE d : Gets(d, f, n), f, n)
    BY <1>4
  <1> QED BY <1>5, <1>6

\* One more character can be put.
LEMMA PutsUp ==
  ASSUME NEW f, NEW s, NEW n \in Nat, NEW d, Puts(d, f, s, n)
  PROVE  \E e : Puts(e, f, s, n + 1)
  <1> PICK e : e = [i \in 0 .. n + 1 |-> IF i = n + 1 THEN Sputc(d[n], s[n + 1]) ELSE d[i]]
    OBVIOUS
  <1>1. \A i \in 0 .. n : e[i] = d[i]
    OBVIOUS
  <1>2. e[n + 1] = Sputc(d[n], s[n + 1])
    OBVIOUS
  <1>3. \A i \in 0 .. n : d[i] = IF i = 0 THEN f ELSE Sputc(d[i - 1], s[i])
    BY DEF Puts
  <1>4. \A i \in 0 .. n + 1 : e[i] = IF i = 0 THEN f ELSE Sputc(e[i - 1], s[i])
    <2> SUFFICES ASSUME NEW i \in 0 .. n + 1
                 PROVE  e[i] = IF i = 0 THEN f ELSE Sputc(e[i - 1], s[i])
      OBVIOUS
    <2>1. CASE i = n + 1
      BY <1>1, <1>2, <2>1
    <2>2. CASE i # n + 1
      <3>1. i \in 0 .. n /\ (i = 0 \/ i - 1 \in 0 .. n)
        BY <2>2
      <3> QED BY <1>1, <1>3, <3>1
    <2> QED BY <2>1, <2>2
  <1>5. e = [i \in 0 .. n + 1 |-> e[i]]
    OBVIOUS
  <1>6. Puts(e, f, s, n + 1)
    BY <1>4, <1>5 DEF Puts
  <1> QED BY <1>6

\* The same for the loop of xsputn.
LEMMA PutEachIs ==
  ASSUME NEW f, NEW s \in Seq(Char)
  PROVE  \E d : Puts(d, f, s, Len(s)) /\ PutEach(f, s) = d[Len(s)]
  <1> DEFINE S == {k \in Nat : \E d : Puts(d, f, s, k)}
  <1>1. 0 \in S
    <2> PICK d : d = [i \in 0 .. 0 |-> f]
      OBVIOUS
    <2>1. d = [i \in 0 .. 0 |-> IF i = 0 THEN f ELSE Sputc(d[i - 1], s[i])]
      OBVIOUS
    <2> QED BY <2>1 DEF Puts
  <1>2. \A k \in Nat : k \in S => k + 1 \in S
    BY PutsUp
  <1>3. Len(s) \in S
    <2> HIDE DEF S
    <2>1. Len(s) \in Nat
      OBVIOUS
    <2> QED BY <1>1, <1>2, <2>1, Climb
  <1>4. \E d : Puts(d, f, s, Len(s))
    BY <1>3
  <1>5. PutEach(f, s) = (CHOOSE d : Puts(d, f, s, Len(s)))[Len(s)]
    BY DEF PutEach, Puts
  <1>6. Puts(CHOOSE d : Puts(d, f, s, Len(s)), f, s, Len(s))
    BY <1>4
  <1> QED BY <1>5, <1>6

-----------------------------------------------------------------------------
(* The object *)

FileBuffer ==
  [file : Seq(Char), off : Nat, mode : SUBSET {"in", "out"}, buf_size : BufSizes,
   get : Seq(Char), next : Nat, put : Seq(Char), room : Nat,
   reading : BOOLEAN, writing : BOOLEAN, pback : Seq(Char), taken : Nat]

Fields == {"file", "off", "mode", "buf_size", "get", "next", "put", "room",
           "reading", "writing", "pback", "taken"}

\* g is f but for the fields in S.
Only(g, f, S) == g \in FileBuffer /\ \A x \in Fields \ S : g[x] = f[x]

\* Where the pointers may be.
Ranges(f) ==
  /\ f.off <= Len(f.file) /\ f.next <= Len(f.get)
  /\ f.room \in {0, f.buf_size - 1}
  /\ Len(f.pback) <= 1 /\ f.taken <= Len(f.pback)

\* While there is a get area the flag says so, and it is a copy of the file.  A
\* character put back stands for one of the get area.
GetArea(f) ==
  /\ f.get # << >> => f.reading /\ Len(f.get) <= BufLen(f)
  /\ f.reading => In(f) /\ f.put = << >> /\ ~f.writing
  /\ f.pback # << >> => f.next < Len(f.get)
  /\ Len(f.get) <= f.off
  /\ \A i \in 1 .. Len(f.get) : f.get[i] = f.file[f.off - Len(f.get) + i]

\* There is a put area in a buffer that is written to, or that a direct read has
\* left behind.
PutArea(f) ==
  /\ f.put # << >> => f.writing /\ Len(f.put) <= f.room
  /\ f.room > 0 => Out(f) /\ (f.reading \/ f.writing)

Good(f) == f \in FileBuffer /\ Ranges(f) /\ GetArea(f) /\ PutArea(f)

\* The object without a file.
Closed(f) ==
  /\ f.off = 0 /\ f.get = << >> /\ f.put = << >> /\ f.pback = << >>
  /\ ~f.reading /\ ~f.writing

\* The inductive invariant.
IInv == Good(fb) /\ (fb.mode = {} => Closed(fb)) /\ Synced

\* The empty sequence is the one without characters.
LEMMA Empty ==
  ASSUME NEW s \in Seq(Char)
  PROVE  s = << >> <=> Len(s) = 0
  <1>1. << >> \in Seq(Char) /\ Len(<< >>) = 0
    OBVIOUS
  <1>2. ASSUME Len(s) = 0 PROVE s = << >>
    BY <1>1, <1>2, SameSeq
  <1> QED BY <1>1, <1>2

\* The pointers of f and the lengths of its areas.
Pointers(f) ==
  /\ f \in FileBuffer
  /\ f.off \in Nat /\ f.next \in Nat /\ f.taken \in Nat /\ f.buf_size \in Nat \ {0}
  /\ f.file \in Seq(Char) /\ f.get \in Seq(Char) /\ f.put \in Seq(Char)
  /\ f.pback \in Seq(Char)
  /\ Len(f.file) \in Nat /\ Len(f.get) \in Nat /\ Len(f.put) \in Nat
  /\ f.off <= Len(f.file) /\ f.next <= Len(f.get) /\ Len(f.get) <= f.off
  /\ f.get = << >> <=> Len(f.get) = 0
  /\ f.put = << >> <=> Len(f.put) = 0
  /\ f.pback = << >> => f.taken = 0 /\ Len(f.pback) = 0
  /\ f.pback # << >> => f.taken \in {0, 1} /\ Len(f.pback) = 1 /\ f.next < Len(f.get)
  /\ f.get # << >> => f.reading
  /\ f.reading => In(f) /\ f.put = << >> /\ ~f.writing

\* What the invariant says of the pointers and lengths.
LEMMA Points ==
  ASSUME NEW f, Good(f)
  PROVE  Pointers(f)
  <1>1. /\ f \in FileBuffer
        /\ f.off \in Nat /\ f.next \in Nat /\ f.taken \in Nat /\ f.buf_size \in BufSizes
        /\ f.file \in Seq(Char) /\ f.get \in Seq(Char) /\ f.put \in Seq(Char)
        /\ f.pback \in Seq(Char)
    BY DEF Good, FileBuffer
  <1>2. /\ f.off <= Len(f.file) /\ f.next <= Len(f.get) /\ Len(f.get) <= f.off
        /\ Len(f.pback) <= 1 /\ f.taken <= Len(f.pback)
        /\ f.pback # << >> => f.next < Len(f.get)
        /\ f.get # << >> => f.reading
        /\ f.reading => In(f) /\ f.put = << >> /\ ~f.writing
    BY DEF Good, Ranges, GetArea
  <1>3. f.get = << >> <=> Len(f.get) = 0
    BY <1>1, Empty
  <1>4. f.put = << >> <=> Len(f.put) = 0
    BY <1>1, Empty
  <1>5. f.pback = << >> <=> Len(f.pback) = 0
    BY <1>1, Empty
  <1>6. /\ Len(f.file) \in Nat /\ Len(f.get) \in Nat /\ Len(f.put) \in Nat
        /\ Len(f.pback) \in Nat
    <2>1. \A s \in Seq(Char) : Len(s) \in Nat
      OBVIOUS
    <2> QED BY ONLY <1>1, <2>1
  <1>8. f.buf_size \in Nat \ {0}
    BY <1>1, FileBufAssumption
  <1>7. /\ f.pback = << >> => f.taken = 0 /\ Len(f.pback) = 0
        /\ f.pback # << >> => f.taken \in {0, 1} /\ Len(f.pback) = 1
    <2> PICK n \in Nat, t \in Nat : n = Len(f.pback) /\ t = f.taken
      BY <1>1, <1>6
    <2>1. n <= 1 /\ t <= n /\ (f.pback = << >> <=> n = 0)
      BY <1>2, <1>5
    <2>2. /\ f.pback = << >> => t = 0 /\ n = 0
          /\ f.pback # << >> => t \in {0, 1} /\ n = 1
      BY ONLY <2>1, n \in Nat, t \in Nat
    <2> QED BY <2>2
  <1> QED BY <1>1, <1>2, <1>3, <1>4, <1>6, <1>7, <1>8 DEF Pointers

\* The character that the program sees at p.
View(f, p) == IF Over(f) # << >> /\ Over(f)[1] = p THEN Over(f)[2] ELSE Content(f)[p + 1]

\* g is f with s written to its file.
WrittenTo(g, f, s) ==
  /\ Only(g, f, {"file", "off"})
  /\ IsOverlay(g.file, f.file, f.off, s)
  /\ g.off = f.off + Len(s)

\* A write changes the characters it covers and moves the position behind them.
LEMMA Written ==
  ASSUME NEW f \in FileBuffer, f.off <= Len(f.file), NEW s \in Seq(Char)
  PROVE  WrittenTo(FileWrite(f, s), f, s)
  <1> PICK w : w = SubSeq(f.file, 1, f.off) \o s
                     \o SubSeq(f.file, f.off + Len(s) + 1, Len(f.file))
    OBVIOUS
  <1> PICK n : n = f.off + Len(s)
    OBVIOUS
  <1> PICK g : g = FileWrite(f, s)
    OBVIOUS
  <1>1. f.file \in Seq(Char) /\ f.off \in Nat
    BY DEF FileBuffer
  <1>2. IsOverlay(w, f.file, f.off, s)
    BY <1>1, Overlaid
  <1>3. w \in Seq(Char) /\ n \in Nat
    <2>1. Len(s) \in Nat
      OBVIOUS
    <2>2. n \in Nat
      BY <1>1, <2>1
    <2> QED BY <1>2, <2>2 DEF IsOverlay
  <1>4. g = [f EXCEPT !.file = w, !.off = n]
    BY DEF FileWrite
  <1>5. Only(g, f, {"file", "off"}) /\ g.file = w /\ g.off = n
    BY ONLY f \in FileBuffer, <1>3, <1>4 DEF FileBuffer, Only, Fields
  <1>6. WrittenTo(g, f, s)
    BY <1>2, <1>5 DEF WrittenTo
  <1> QED BY <1>6

\* The pointers as numbers: o in the file, g, n in the get area, t characters
\* taken, p in the put area.
Numbers(f, o, g, n, t, p) ==
  /\ o = f.off /\ g = Len(f.get) /\ n = f.next /\ t = f.taken /\ p = Len(f.put)
  /\ Start(f) = o - (g - n) /\ Pos(f) = o - (g - n) + t + p
  /\ o <= Len(f.file) /\ n <= g /\ g <= o /\ t \in {0, 1} /\ n + t <= g
  /\ f.pback = << >> => t = 0

\* The pointers are such numbers.
LEMMA Count ==
  ASSUME NEW f, Good(f)
  PROVE  \E o, g, n, t, p \in Nat : Numbers(f, o, g, n, t, p)
  <1>1. Pointers(f)
    BY Points
  <1> PICK o \in Nat, g \in Nat, n \in Nat, t \in Nat, p \in Nat :
        o = f.off /\ g = Len(f.get) /\ n = f.next /\ t = f.taken /\ p = Len(f.put)
    BY <1>1 DEF Pointers
  <1>2. /\ o <= Len(f.file) /\ n <= g /\ g <= o
        /\ f.pback = << >> => t = 0
        /\ f.pback # << >> => t \in {0, 1} /\ n < g
    BY <1>1 DEF Pointers
  <1>3. Start(f) = o - (g - n) /\ Pos(f) = o - (g - n) + t + p
    BY DEF Start, Pos
  <1>4. t \in {0, 1} /\ n + t <= g
    BY ONLY <1>2, o \in Nat, g \in Nat, n \in Nat, t \in Nat
  <1>5. Numbers(f, o, g, n, t, p)
    BY <1>2, <1>3, <1>4 DEF Numbers
  <1> QED BY <1>5

\* What the program sees as the file, by its characters.
LEMMA Contents ==
  ASSUME NEW f, Good(f)
  PROVE  /\ IsOverlay(Content(f), f.file, f.off, f.put)
         /\ f.put = << >> => Content(f) = f.file
  <1>1. /\ f \in FileBuffer /\ f.off <= Len(f.file) /\ f.file \in Seq(Char)
        /\ f.put \in Seq(Char) /\ f.off \in Nat
    BY DEF Good, Ranges, FileBuffer
  <1>2. IsOverlay(Content(f), f.file, f.off, f.put)
    <2>1. WrittenTo(FileWrite(f, f.put), f, f.put)
      BY <1>1, Written
    <2> QED BY <2>1 DEF WrittenTo, Content
  <1>3. IsOverlay(f.file, f.file, f.off, << >>)
    BY <1>1 DEF IsOverlay
  <1> QED BY <1>2, <1>3, SameOverlay

-----------------------------------------------------------------------------
(* Reading *)

\* g is f with other pointers: the file, its modes and the direction are as before.
Stays(g, f) ==
  /\ Good(g)
  /\ g.file = f.file /\ g.mode = f.mode /\ g.buf_size = f.buf_size
  /\ g.writing = f.writing /\ g.put = f.put

\* What can be read or gone back to is in a get area, and nothing in a put area.
LEMMA Readable ==
  ASSUME NEW f, Good(f), HasNext(f) \/ HasLast(f)
  PROVE  f.reading /\ In(f) /\ ~f.writing /\ f.put = << >>
  <1>1. f.get # << >>
    BY DEF Good, Ranges, GetArea, FileBuffer, HasNext, HasLast
  <1> QED BY <1>1 DEF Good, GetArea

\* The next character is the one that the program sees at its position.
LEMMA ViewNext ==
  ASSUME NEW f, Good(f), HasNext(f)
  PROVE  /\ Pos(f) \in Nat /\ Pos(f) < Len(f.file)
         /\ NextChar(f) \in Char /\ NextChar(f) = View(f, Pos(f))
  <1>1. f.put = << >> /\ Content(f) = f.file
    BY Readable, Contents
  <1>2. Pointers(f)
    BY Points
  <1> PICK o \in Nat, g \in Nat, n \in Nat, t \in Nat, p \in Nat : Numbers(f, o, g, n, t, p)
    BY Count
  <1>3. /\ n <= g /\ g <= o /\ p = 0 /\ Start(f) = o - (g - n) /\ Pos(f) = o - (g - n) + t
        /\ o <= Len(f.file) /\ Len(f.file) \in Nat
    <2>1. p = 0
      BY <1>1, <1>2 DEF Numbers, Pointers
    <2>2. /\ n <= g /\ g <= o /\ Start(f) = o - (g - n) /\ Pos(f) = o - (g - n) + t + p
          /\ o <= Len(f.file)
      BY DEF Numbers
    <2>3. Len(f.file) \in Nat
      BY <1>2 DEF Pointers
    <2>4. Pos(f) = o - (g - n) + t
      BY ONLY <2>1, <2>2, o \in Nat, g \in Nat, n \in Nat, t \in Nat
    <2> QED BY <2>1, <2>2, <2>3, <2>4
  <1>4. CASE f.pback = << >>
    <2>1. t = 0 /\ n < g
      BY <1>4 DEF HasNext, Numbers
    <2>2. NextChar(f) = f.get[n + 1] /\ Over(f) = << >>
      BY <1>4 DEF NextChar, Over, Numbers
    <2>3. Pos(f) = o - g + n
      BY <1>3, <2>1
    <2>4. n + 1 \in 1 .. g /\ o - g + (n + 1) = Pos(f) + 1
      BY <2>1, <2>3
    <2>5. f.get[n + 1] = f.file[Pos(f) + 1]
      <3>1. \A i \in 1 .. g : f.get[i] = f.file[o - g + i]
        BY DEF Good, GetArea, Numbers
      <3> QED BY <2>4, <3>1
    <2>6. f.get[n + 1] \in Char
      BY <1>2, <2>4 DEF Pointers, Numbers
    <2>7. View(f, Pos(f)) = f.file[Pos(f) + 1]
      BY <1>1, <2>2 DEF View
    <2>8. Pos(f) \in Nat /\ Pos(f) < Len(f.file)
      BY <1>3, <2>1, <2>3
    <2> QED BY <2>2, <2>5, <2>6, <2>7, <2>8
  <1>5. CASE f.pback # << >>
    <2>1. t = 0 /\ n < g /\ Len(f.pback) = 1 /\ f.pback \in Seq(Char)
      BY <1>2, <1>5 DEF HasNext, Pointers, Numbers
    <2>2. Pos(f) = Start(f) /\ Start(f) \in Nat /\ Start(f) < Len(f.file)
      BY <1>3, <2>1
    <2>3. NextChar(f) = f.pback[1] /\ NextChar(f) \in Char
      BY <1>5, <2>1 DEF NextChar
    <2>4. Over(f) = <<Start(f), f.pback[1]>>
      BY <1>5 DEF Over
    <2>5. View(f, Pos(f)) = f.pback[1]
      BY <2>2, <2>4 DEF View
    <2> QED BY <2>2, <2>3, <2>5
  <1> QED BY <1>4, <1>5

\* One character forward, or one back.
LEMMA Bumped ==
  ASSUME NEW f, Good(f), NEW d,
         \/ d = 1 /\ HasNext(f)
         \/ d = -1 /\ HasLast(f)
  PROVE  /\ Stays(Bump(f, d), f) /\ Bump(f, d).reading = f.reading
         /\ Pos(Bump(f, d)) = Pos(f) + d /\ Over(Bump(f, d)) = Over(f)
         /\ d = -1 => HasNext(Bump(f, d))
  <1> PICK g : g = Bump(f, d)
    OBVIOUS
  <1>1. f \in FileBuffer
    BY DEF Good
  <1> PICK o \in Nat, gg \in Nat, n \in Nat, t \in Nat, p \in Nat : Numbers(f, o, gg, n, t, p)
    BY Count
  <1>a. d \in {1, -1} /\ (d = 1 => HasNext(f)) /\ (d = -1 => HasLast(f))
    OBVIOUS
  <1>b. n <= gg /\ Pos(f) = (o - (gg - n)) + t + p
    BY DEF Numbers
  <1>2. CASE f.pback = << >>
    <2> PICK x : x = n + d
      OBVIOUS
    <2>1. t = 0 /\ x \in 0 .. gg /\ (d = -1 => x < gg)
      <3>1. (HasNext(f) => n < gg) /\ (HasLast(f) => n > 0) /\ t = 0
        BY <1>2 DEF HasNext, HasLast, Numbers
      <3> QED BY ONLY <1>a, <1>b, <3>1, x = n + d, n \in Nat, gg \in Nat
    <2>2. x \in Nat /\ g = [f EXCEPT !.next = x]
      BY <1>2, <2>1 DEF Bump, Numbers
    <2>3. Only(g, f, {"next"}) /\ g.next = x
      BY ONLY <1>1, <2>2 DEF FileBuffer, Only, Fields
    <2>4. x <= Len(g.get)
      BY <2>1, <2>3 DEF Only, Fields, Numbers
    <2>5. Stays(g, f) /\ g.reading = f.reading
      <3>1. Ranges(g)
        BY <2>3, <2>4 DEF Good, Ranges, Only, Fields
      <3>2. GetArea(g)
        BY <1>2, <2>3 DEF Good, GetArea, Only, Fields, BufLen, In
      <3>3. PutArea(g)
        BY <2>3 DEF Good, PutArea, Only, Fields, Out
      <3> QED BY <2>3, <3>1, <3>2, <3>3 DEF Stays, Good, Only, Fields
    <2>6. Pos(g) = (o - (gg - x)) + t + p /\ Over(g) = Over(f)
      BY <1>2, <2>3 DEF Pos, Start, Over, Only, Fields, Numbers
    <2>7. Pos(g) = Pos(f) + d
      BY ONLY <1>a, <1>b, <2>6, x = n + d, o \in Nat, gg \in Nat, n \in Nat, t \in Nat, p \in Nat
    <2>8. d = -1 => HasNext(g)
      BY <1>2, <2>1, <2>3 DEF HasNext, Only, Fields, Numbers
    <2> QED BY <2>5, <2>6, <2>7, <2>8
  <1>3. CASE f.pback # << >>
    <2> PICK x : x = t + d
      OBVIOUS
    <2>0. Len(f.pback) = 1 /\ n < gg
      BY <1>3, Points DEF Pointers, Numbers
    <2>1. x \in 0 .. 1 /\ (d = -1 => x = 0)
      <3>1. (HasNext(f) => t = 0) /\ (HasLast(f) => t > 0) /\ t \in {0, 1}
        BY <1>3 DEF HasNext, HasLast, Numbers
      <3> QED BY ONLY <1>a, <3>1, x = t + d
    <2>2. x \in Nat /\ g = [f EXCEPT !.taken = x]
      <3>1. x = f.taken + d
        BY DEF Numbers
      <3>2. g = [f EXCEPT !.taken = f.taken + d]
        BY <1>3 DEF Bump
      <3>3. x \in Nat
        BY <2>1
      <3> QED BY ONLY <3>1, <3>2, <3>3
    <2>3. Only(g, f, {"taken"}) /\ g.taken = x
      BY ONLY <1>1, <2>2 DEF FileBuffer, Only, Fields
    <2>4. x <= Len(g.pback)
      <3>1. g.pback = f.pback
        BY <2>3 DEF Only, Fields
      <3>2. Len(g.pback) = 1
        BY ONLY <2>0, <3>1
      <3>3. x <= 1
        BY ONLY <2>1
      <3> QED BY ONLY <3>2, <3>3
    <2>5. Stays(g, f) /\ g.reading = f.reading
      <3>1. Ranges(g)
        BY <2>3, <2>4 DEF Good, Ranges, Only, Fields
      <3>2. GetArea(g)
        BY <1>3, <2>3 DEF Good, GetArea, Only, Fields, BufLen, In
      <3>3. PutArea(g)
        BY <2>3 DEF Good, PutArea, Only, Fields, Out
      <3> QED BY <2>3, <3>1, <3>2, <3>3 DEF Stays, Good, Only, Fields
    <2>6. Pos(g) = (o - (gg - n)) + x + p /\ Over(g) = Over(f)
      BY <1>3, <2>3 DEF Pos, Start, Over, Only, Fields, Numbers
    <2>7. Pos(g) = Pos(f) + d
      BY ONLY <1>a, <1>b, <2>6, x = t + d, o \in Nat, gg \in Nat, n \in Nat, t \in Nat, p \in Nat
    <2>8. d = -1 => HasNext(g)
      BY <1>3, <2>1, <2>3 DEF HasNext, Only, Fields
    <2> QED BY <2>5, <2>6, <2>7, <2>8
  <1> QED BY <1>2, <1>3

\* The get area is the real one again.
LEMMA Dropped ==
  ASSUME NEW f, Good(f)
  PROVE  /\ Stays(DestroyPback(f), f) /\ DestroyPback(f).reading = f.reading
         /\ DestroyPback(f).pback = << >> /\ DestroyPback(f).get = f.get
         /\ DestroyPback(f).next = f.next + f.taken
         /\ Pos(DestroyPback(f)) = Pos(f) /\ Over(DestroyPback(f)) = << >>
         /\ Only(DestroyPback(f), f, {"next", "pback", "taken"})
  <1> PICK g : g = DestroyPback(f)
    OBVIOUS
  <1>1. f \in FileBuffer
    BY DEF Good
  <1> PICK o \in Nat, gg \in Nat, n \in Nat, t \in Nat, p \in Nat : Numbers(f, o, gg, n, t, p)
    BY Count
  <1> PICK x \in Nat : x = n + t
    OBVIOUS
  <1>2. x <= gg /\ x = f.next + f.taken /\ gg = Len(f.get)
    BY DEF Numbers
  <1> PICK e : e = << >>
    OBVIOUS
  <1>3. e \in Seq(Char) /\ Len(e) = 0
    OBVIOUS
  <1>4. g = [f EXCEPT !.next = x, !.pback = e, !.taken = 0]
    BY <1>2 DEF DestroyPback
  <1>5. Only(g, f, {"next", "pback", "taken"}) /\ g.next = x /\ g.pback = e /\ g.taken = 0
    BY ONLY <1>1, <1>3, <1>4, x \in Nat DEF FileBuffer, Only, Fields
  <1>6. g.get = f.get /\ g.off = f.off /\ g.put = f.put /\ g.reading = f.reading
    BY <1>5 DEF Only, Fields
  <1>7. Ranges(g)
    <2>1. g.next <= Len(g.get)
      BY <1>2, <1>5, <1>6
    <2>2. Len(g.pback) <= 1 /\ g.taken <= Len(g.pback)
      BY <1>3, <1>5
    <2> QED BY <1>5, <2>1, <2>2 DEF Good, Ranges, Only, Fields
  <1>8. GetArea(g)
    BY <1>5 DEF Good, GetArea, Only, Fields, BufLen, In
  <1>9. PutArea(g)
    BY <1>5 DEF Good, PutArea, Only, Fields, Out
  <1>10. Stays(g, f)
    BY <1>5, <1>7, <1>8, <1>9 DEF Stays, Good, Only, Fields
  <1>11. Pos(g) = (o - (gg - x)) + 0 + p
    BY <1>5, <1>6 DEF Pos, Start, Numbers
  <1>12. Pos(f) = (o - (gg - n)) + t + p
    BY DEF Numbers
  <1>13. Pos(g) = Pos(f)
    BY ONLY <1>11, <1>12, x = n + t, o \in Nat, gg \in Nat, n \in Nat, t \in Nat, p \in Nat
  <1>14. Over(g) = << >>
    BY <1>5 DEF Over
  <1> QED BY <1>2, <1>5, <1>6, <1>10, <1>13, <1>14

\* _M_set_buffer changes the two areas alone.
LEMMA BufferSet ==
  ASSUME NEW f \in FileBuffer, NEW s \in Seq(Char), NEW b \in BOOLEAN
  PROVE  /\ Only(SetBuffer(f, s, b), f, {"get", "next", "put", "room"})
         /\ SetBuffer(f, s, b).get = s /\ SetBuffer(f, s, b).next = 0
         /\ SetBuffer(f, s, b).put = << >>
         /\ SetBuffer(f, s, b).room = IF b /\ Out(f) /\ f.buf_size > 1
                                      THEN f.buf_size - 1 ELSE 0
  <1> PICK g : g = SetBuffer(f, s, b)
    OBVIOUS
  <1> PICK r : r = IF b /\ Out(f) /\ f.buf_size > 1 THEN f.buf_size - 1 ELSE 0
    OBVIOUS
  <1> PICK e : e = << >>
    OBVIOUS
  <1>1. e \in Seq(Char)
    OBVIOUS
  <1>2. f.buf_size \in Nat
    BY FileBufAssumption DEF FileBuffer
  <1>3. r \in Nat
    BY <1>2
  <1>4. g = [f EXCEPT !.get = s, !.next = 0, !.put = e, !.room = r]
    BY DEF SetBuffer
  <1>5. /\ Only(g, f, {"get", "next", "put", "room"})
        /\ g.get = s /\ g.next = 0 /\ g.put = e /\ g.room = r
    BY ONLY f \in FileBuffer, s \in Seq(Char), <1>1, <1>3, <1>4 DEF FileBuffer, Only, Fields
  <1> QED BY <1>5

\* g is f with s in the get area and room for r characters in the put area.
Buffered(g, f, s, r) ==
  /\ Only(g, f, {"get", "next", "put", "room"})
  /\ g.get = s /\ g.next = 0 /\ g.put = << >> /\ g.room = r

\* _M_set_buffer(0): room for all of the buffer but one character.
LEMMA BufferOut ==
  ASSUME NEW f \in FileBuffer, NEW r,
         r = IF Out(f) /\ f.buf_size > 1 THEN f.buf_size - 1 ELSE 0
  PROVE  Buffered(SetBuffer(f, << >>, TRUE), f, << >>, r)
  <1> PICK e : e = << >>
    OBVIOUS
  <1>1. e \in Seq(Char)
    OBVIOUS
  <1> PICK b : b = TRUE
    OBVIOUS
  <1> PICK g : g = SetBuffer(f, e, b)
    OBVIOUS
  <1>2. /\ Only(g, f, {"get", "next", "put", "room"})
        /\ g.get = e /\ g.next = 0 /\ g.put = << >>
        /\ g.room = IF b /\ Out(f) /\ f.buf_size > 1 THEN f.buf_size - 1 ELSE 0
    BY <1>1, BufferSet
  <1>3. g.room = r
    BY <1>2
  <1> QED BY <1>2, <1>3 DEF Buffered

\* _M_set_buffer with a get area, or with neither.
LEMMA BufferOff ==
  ASSUME NEW f \in FileBuffer, NEW s \in Seq(Char)
  PROVE  Buffered(SetBuffer(f, s, FALSE), f, s, 0)
  <1> PICK b : b = FALSE
    OBVIOUS
  <1> PICK g : g = SetBuffer(f, s, b)
    OBVIOUS
  <1>2. /\ Only(g, f, {"get", "next", "put", "room"})
        /\ g.get = s /\ g.next = 0 /\ g.put = << >>
        /\ g.room = IF b /\ Out(f) /\ f.buf_size > 1 THEN f.buf_size - 1 ELSE 0
    BY BufferSet
  <1>3. g.room = 0
    BY <1>2
  <1> QED BY <1>2, <1>3 DEF Buffered

\* A read gives n characters, or those before the end of the file.
LEMMA ReadPart ==
  ASSUME NEW f \in FileBuffer, f.off <= Len(f.file), NEW n \in Nat
  PROVE  \E k \in Nat : /\ k = IF f.off + n < Len(f.file) THEN n ELSE Len(f.file) - f.off
                        /\ IsPart(FileRead(f, n), f.file, f.off, k)
  <1> PICK s : s = f.file
    OBVIOUS
  <1>1. s \in Seq(Char) /\ f.off \in Nat /\ Len(s) \in Nat
    BY DEF FileBuffer
  <1> PICK o \in Nat, m \in Nat : o = f.off /\ m = Len(s)
    BY <1>1
  <1> PICK k \in Nat : k = IF o + n < m THEN n ELSE m - o
    OBVIOUS
  <1>a. o <= m
    BY DEF Good
  <1>2. o + k <= m /\ o + k = Least(o + n, m)
    BY ONLY <1>a, k = IF o + n < m THEN n ELSE m - o, o \in Nat, m \in Nat, n \in Nat,
            k \in Nat DEF Least
  <1>3. IsPart(SubSeq(s, o + 1, o + k), s, o, k)
    BY <1>1, <1>2, PartOf
  <1>4. FileRead(f, n) = SubSeq(s, o + 1, o + k)
    BY <1>2 DEF FileRead
  <1> QED BY <1>3, <1>4

\* A read asks for at least one character.
LEMMA BufLens ==
  ASSUME NEW f \in FileBuffer
  PROVE  BufLen(f) \in Nat \ {0}
  <1>1. f.buf_size \in Nat \ {0}
    BY FileBufAssumption DEF FileBuffer
  <1> QED BY <1>1 DEF BufLen

\* What is known after underflow, and after sgetc: there is a next character if,
\* and only if, the file has one.
Reached(g, f) ==
  /\ Stays(g, f) /\ Pos(g) = Pos(f)
  /\ g.reading <=> HasNext(g)
  /\ HasNext(g) <=> Pos(f) < Len(f.file)

\* underflow reads if, and only if, the file has a character left.
LEMMA Underflows ==
  ASSUME NEW f, Good(f), In(f), ~f.writing, ~HasNext(f)
  PROVE  Reached(Underflow(f), f) /\ Underflow(f).pback = << >>
  <1> PICK g : g = Underflow(f)
    OBVIOUS
  <1> PICK d : d = DestroyPback(f)
    OBVIOUS
  <1> PICK s : s = FileRead(d, BufLen(d))
    OBVIOUS
  <1>1. Stays(d, f) /\ d.pback = << >> /\ Pos(d) = Pos(f) /\ Good(d) /\ d \in FileBuffer
    BY Dropped DEF Stays, Good
  <1>2. g = IF HasNext(d) THEN d
            ELSE [SetBuffer(d, s, FALSE) EXCEPT !.off = @ + Len(s), !.reading = s # << >>]
    BY DEF Underflow
  <1>3. CASE HasNext(d)
    <2>1. d.reading /\ Pos(d) < Len(d.file)
      BY <1>1, <1>3, Readable, ViewNext
    <2> QED BY <1>1, <1>2, <1>3, <2>1 DEF Reached, Stays
  <1>4. CASE ~HasNext(d)
    <2> PICK b : b = SetBuffer(d, s, FALSE)
      OBVIOUS
    <2> PICK l \in Nat \ {0} : l = BufLen(d)
      BY <1>1, BufLens
    <2> PICK o \in Nat, gg \in Nat, n \in Nat, t \in Nat, p \in Nat : Numbers(d, o, gg, n, t, p)
      BY <1>1, Count
    <2>1. d.file \in Seq(Char) /\ Len(d.file) \in Nat /\ o <= Len(d.file) /\ o = d.off
      BY <1>1 DEF FileBuffer, Good, Ranges, Numbers
    <2> PICK m \in Nat : m = Len(d.file)
      BY <2>1
    <2> PICK k \in Nat : /\ k = IF d.off + l < Len(d.file) THEN l ELSE Len(d.file) - d.off
                         /\ IsPart(FileRead(d, l), d.file, d.off, k)
      <3>1. d.off <= Len(d.file)
        BY <2>1
      <3> QED BY <1>1, <3>1, ReadPart
    <2>2. k = (IF o + l < m THEN l ELSE m - o) /\ IsPart(s, d.file, o, k) /\ o <= m
      BY <2>1
    <2>3. s \in Seq(Char) /\ Len(s) = k /\ (s = << >> <=> k = 0)
      BY <2>2, Empty DEF IsPart
    <2>4. /\ Only(b, d, {"get", "next", "put", "room"})
          /\ b.get = s /\ b.next = 0 /\ b.put = << >> /\ b.room = 0
      BY <1>1, <2>3, BufferSet
    <2>5. b \in FileBuffer /\ b.off = o
      BY <2>1, <2>4 DEF Only, Fields
    <2> PICK x \in Nat : x = o + k
      OBVIOUS
    <2> PICK y \in BOOLEAN : y = (s # << >>)
      OBVIOUS
    <2>6. g = [b EXCEPT !.off = x, !.reading = y]
      BY <1>2, <1>4, <2>3, <2>5
    <2>7. Only(g, b, {"off", "reading"}) /\ g.off = x /\ g.reading = y
      BY ONLY <2>5, <2>6, x \in Nat, y \in BOOLEAN DEF FileBuffer, Only, Fields
    <2>8. /\ Only(g, d, {"get", "next", "put", "room", "off", "reading"})
          /\ g.get = s /\ g.next = 0 /\ g.put = << >> /\ g.room = 0 /\ g.off = x
          /\ g.reading = y
      BY <2>4, <2>7 DEF Only, Fields
    <2>9. /\ g.file = d.file /\ g.mode = d.mode /\ g.buf_size = d.buf_size
          /\ g.writing = d.writing /\ g.pback = << >> /\ g.taken = d.taken
      BY <1>1, <2>8 DEF Only, Fields
    <2>10. In(g) /\ ~g.writing /\ d.put = << >>
      <3>1. In(d) /\ ~d.writing
        BY <1>1 DEF Stays, In
      <3> QED BY <1>1, <2>9, <3>1 DEF Good, PutArea, In
    <2>11. t = 0 /\ n = gg /\ p = 0 /\ Pos(d) = o
      <3>1. t = 0 /\ ~(n < gg) /\ n <= gg
        BY <1>1, <1>4 DEF HasNext, Numbers
      <3>2. p = 0
        BY <2>10 DEF Numbers
      <3>3. Pos(d) = o - (gg - n) + t + p
        BY DEF Numbers
      <3>4. n = gg
        BY <3>1
      <3> QED BY ONLY <3>1, <3>2, <3>3, <3>4, o \in Nat, gg \in Nat
    <2>a. k = (IF o + l < m THEN l ELSE m - o) /\ o <= m
      BY <2>2
    <2>12. x <= m /\ k <= l /\ k <= x /\ x - k = o
      BY ONLY <2>a, x = o + k, o \in Nat, m \in Nat, l \in Nat, k \in Nat
    <2>13. Ranges(g)
      BY <1>1, <2>3, <2>8, <2>9, <2>12 DEF Good, Ranges
    <2>14. BufLen(g) = l
      BY <2>9 DEF BufLen
    <2>15. GetArea(g)
      <3>1. \A i \in 1 .. k : s[i] = d.file[o + i]
        BY <2>2 DEF IsPart
      <3>2. \A i \in 1 .. k : g.get[i] = g.file[g.off - k + i]
        <4>1. g.get = s /\ g.file = d.file /\ g.off - k = o
          BY <2>8, <2>9, <2>12
        <4> QED BY ONLY <3>1, <4>1
      <3>3. Len(g.get) = k /\ k <= l /\ k <= g.off
        BY <2>3, <2>8, <2>12
      <3> QED BY <2>8, <2>9, <2>10, <2>14, <3>2, <3>3 DEF GetArea
    <2>16. PutArea(g)
      BY <2>8 DEF PutArea
    <2>17. Good(g)
      BY <2>8, <2>13, <2>15, <2>16 DEF Good, Only
    <2>18. Pos(g) = o
      <3>1. Pos(g) = x - (k - 0) + 0 + 0
        BY <2>3, <2>8, <2>9, <2>11 DEF Pos, Start, Numbers
      <3> QED BY ONLY <2>12, <3>1, x \in Nat, k \in Nat, o \in Nat
    <2>b. HasNext(g) <=> 0 < k
      BY <2>3, <2>8, <2>9 DEF HasNext
    <2>19. g.reading <=> HasNext(g)
      <3>1. g.reading <=> k # 0
        BY <2>3, <2>8
      <3> QED BY ONLY <2>b, <3>1, k \in Nat
    <2>20. HasNext(g) <=> o < m
      BY ONLY <2>a, <2>b, o \in Nat, m \in Nat, l \in Nat \ {0}, k \in Nat
    <2>21. Stays(g, f)
      BY <1>1, <2>8, <2>9, <2>10, <2>17 DEF Stays
    <2>22. f.file = d.file
      BY <1>1 DEF Stays
    <2> QED BY <1>1, <2>9, <2>11, <2>18, <2>19, <2>20, <2>21, <2>22 DEF Reached
  <1> QED BY <1>3, <1>4

\* A character put back may be forgotten, but not while it is the next one.
MayForget(g, f) ==
  /\ Over(g) \in {Over(f), << >>}
  /\ Over(f) # << >> /\ Over(f)[1] = Pos(g) => Over(g) = Over(f)

\* sgetc keeps the position, and what is next is what the program sees there.
LEMMA Peeked ==
  ASSUME NEW f, Good(f), In(f), ~f.writing
  PROVE  /\ Reached(Sgetc(f), f) /\ MayForget(Sgetc(f), f)
         /\ HasNext(Sgetc(f)) => NextChar(Sgetc(f)) = View(f, Pos(f))
         /\ f.pback = << >> => Sgetc(f).pback = << >>
  <1>1. CASE HasNext(f)
    <2>1. Sgetc(f) = f
      BY <1>1 DEF Sgetc
    <2>2. f.reading /\ Pos(f) < Len(f.file) /\ NextChar(f) = View(f, Pos(f))
      BY <1>1, Readable, ViewNext
    <2> QED BY <1>1, <2>1, <2>2 DEF Reached, Stays, MayForget
  <1>2. CASE ~HasNext(f)
    <2> PICK g : g = Underflow(f)
      OBVIOUS
    <2>1. Sgetc(f) = g
      BY <1>2 DEF Sgetc
    <2>2. Reached(g, f) /\ g.pback = << >>
      BY <1>2, Underflows
    <2>3. Over(g) = << >>
      BY <2>2 DEF Over
    <2>4. ~(Over(f) # << >> /\ Over(f)[1] = Pos(f))
      <3>1. SUFFICES ASSUME f.pback # << >> PROVE Start(f) # Pos(f)
        BY DEF Over
      <3> PICK o \in Nat, gg \in Nat, n \in Nat, t \in Nat, p \in Nat : Numbers(f, o, gg, n, t, p)
        BY Count
      <3>2. t # 0
        BY <1>2, <3>1 DEF HasNext, Numbers
      <3>3. Start(f) = o - (gg - n) /\ Pos(f) = o - (gg - n) + t + p
        BY DEF Numbers
      <3> QED BY ONLY <3>2, <3>3, o \in Nat, gg \in Nat, n \in Nat, t \in Nat, p \in Nat
    <2>5. Content(g) = Content(f)
      <3>1. Good(g) /\ g.file = f.file /\ g.put = f.put /\ f.put = << >>
        BY <2>2 DEF Reached, Stays, Good, PutArea
      <3> QED BY <3>1, Contents
    <2>6. HasNext(g) => NextChar(g) = View(f, Pos(f))
      <3>1. Good(g) /\ Pos(g) = Pos(f)
        BY <2>2 DEF Reached, Stays
      <3>2. HasNext(g) => NextChar(g) = View(g, Pos(f))
        BY <3>1, ViewNext
      <3>3. View(g, Pos(f)) = View(f, Pos(f))
        BY <2>3, <2>4, <2>5 DEF View
      <3> QED BY <3>2, <3>3
    <2>7. MayForget(g, f)
      BY <2>2, <2>3, <2>4 DEF MayForget, Reached
    <2> QED BY <2>1, <2>2, <2>6, <2>7
  <1> QED BY <1>1, <1>2

\* An object that is not open for reading, or is being written, gives nothing.
LEMMA NotRead ==
  ASSUME NEW f, Good(f), ~(In(f) /\ ~f.writing)
  PROVE  /\ Sgetc(f) = f /\ Underflow(f) = f /\ ~HasNext(f) /\ ~HasLast(f)
         /\ DestroyPback(f) = f /\ f.pback = << >>
  <1>1. ~HasNext(f) /\ ~HasLast(f)
    BY Readable
  <1>2. Underflow(f) = f /\ Sgetc(f) = f
    BY <1>1 DEF Underflow, Sgetc
  <1>3. Pointers(f)
    BY Points
  <1>4. f.pback = << >> /\ f.taken = 0
    <2>1. ~f.reading /\ f.get = << >> /\ Len(f.get) = 0 /\ f.next \in Nat
      BY <1>3 DEF Pointers
    <2>2. ~(f.next < Len(f.get))
      BY <2>1
    <2> QED BY <1>3, <2>2 DEF Pointers
  <1>5. DestroyPback(f) = f
    <2>1. f.next + 0 = f.next /\ f \in FileBuffer
      BY <1>3 DEF Pointers
    <2>2. DestroyPback(f) = [f EXCEPT !.next = f.next, !.pback = f.pback, !.taken = f.taken]
      BY <1>4, <2>1 DEF DestroyPback
    <2> QED BY <2>1, <2>2 DEF FileBuffer
  <1> QED BY <1>1, <1>2, <1>4, <1>5

\* A character is seen as put back while there is one.
LEMMA OverNone ==
  ASSUME NEW f
  PROVE  Over(f) = << >> <=> f.pback = << >>
  BY DEF Over

\* The position of an object that is read is in the file.
LEMMA PosIn ==
  ASSUME NEW f, Good(f), f.put = << >>
  PROVE  Pos(f) \in Nat /\ Pos(f) <= Len(f.file) /\ Len(f.file) \in Nat
  <1> PICK o \in Nat, g \in Nat, n \in Nat, t \in Nat, p \in Nat : Numbers(f, o, g, n, t, p)
    BY Count
  <1>1. Len(f.file) \in Nat
    BY Points DEF Pointers
  <1> PICK m \in Nat : m = Len(f.file)
    BY <1>1
  <1>2. /\ Pos(f) = o - (g - n) + t + p /\ o <= m /\ n + t <= g /\ g <= o
    BY DEF Numbers
  <1>3. p = 0
    BY DEF Numbers
  <1>4. Pos(f) \in Nat /\ Pos(f) <= m
    BY ONLY <1>2, <1>3, o \in Nat, g \in Nat, n \in Nat, t \in Nat, m \in Nat
  <1> QED BY <1>4

\* What n characters from the position on are, of those that the file has.
Left(f, n) == IF n < Len(f.file) - Pos(f) THEN n ELSE Len(f.file) - Pos(f)

\* After reading n characters without one that was put back, s in all.
Got(g, s, f, n) ==
  /\ Stays(g, f) /\ g.pback = << >>
  /\ IsPart(s, f.file, Pos(f), Left(f, n))
  /\ Pos(g) = Pos(f) + Left(f, n)
  /\ n = 0 => g.reading = f.reading
  /\ n > 0 => (g.reading <=> Left(f, n) = n)

\* An object that is read: nothing is in the put area, and nothing put back.
Plain(f) == Good(f) /\ In(f) /\ ~f.writing /\ f.put = << >> /\ f.pback = << >>

\* Nothing has been read at first.
LEMMA GotNone ==
  ASSUME NEW f, Plain(f)
  PROVE  Got(f, << >>, f, 0)
  <1>1. Good(f) /\ f.put = << >> /\ f.pback = << >>
    BY DEF Plain
  <1> PICK p \in Nat, m \in Nat : p = Pos(f) /\ m = Len(f.file) /\ p <= m
    BY <1>1, PosIn
  <1>2. Left(f, 0) = 0
    <2>1. Left(f, 0) = IF 0 < m - p THEN 0 ELSE m - p
      BY DEF Left
    <2> QED BY ONLY <2>1, p <= m, p \in Nat, m \in Nat
  <1>3. IsPart(<< >>, f.file, Pos(f), 0)
    BY DEF IsPart
  <1>4. Pos(f) = Pos(f) + 0
    OBVIOUS
  <1> QED BY <1>1, <1>2, <1>3, <1>4 DEF Got, Stays

\* One more call of sbumpc.
LEMMA GotOne ==
  ASSUME NEW f, Plain(f), NEW n \in Nat, NEW g, NEW s, Got(g, s, f, n)
  PROVE  \E h, u : GetOne(<<g, s>>) = <<h, u>> /\ Got(h, u, f, n + 1)
  <1>1. /\ Good(f) /\ f.put = << >> /\ f.pback = << >> /\ In(f) /\ ~f.writing
        /\ Stays(g, f) /\ g.pback = << >> /\ Good(g)
    BY DEF Plain, Got, Stays
  <1> PICK p \in Nat, m \in Nat : p = Pos(f) /\ m = Len(f.file) /\ p <= m
    BY <1>1, PosIn
  <1> PICK l \in Nat : l = IF n < m - p THEN n ELSE m - p
    OBVIOUS
  <1>2. Left(f, n) = l /\ IsPart(s, f.file, p, l) /\ Pos(g) = p + l
    BY DEF Left, Got
  <1> PICK k : k = Sgetc(g)
    OBVIOUS
  <1>3. In(g) /\ ~g.writing /\ g.file = f.file /\ g.put = << >>
    BY <1>1 DEF Stays, In
  <1>4. /\ Reached(k, g) /\ k.pback = << >>
        /\ HasNext(k) => NextChar(k) = View(g, Pos(g))
    BY <1>1, <1>3, Peeked
  <1>5. Stays(k, f) /\ Good(k)
    BY <1>1, <1>4 DEF Reached, Stays
  <1>6. View(g, Pos(g)) = f.file[p + l + 1]
    BY <1>1, <1>2, <1>3, Contents DEF View, Over
  <1>7. HasNext(k) <=> p + l < m
    BY <1>2, <1>3, <1>4 DEF Reached
  <1>8. Pos(k) = p + l /\ (k.reading <=> HasNext(k))
    BY <1>2, <1>4 DEF Reached
  <1>9. s \in Seq(Char) /\ Len(s) = l /\ \A i \in 1 .. l : s[i] = f.file[p + i]
    BY <1>2 DEF IsPart
  <1>10. CASE HasNext(k)
    <2> PICK h : h = Bump(k, 1)
      OBVIOUS
    <2> PICK c : c = NextChar(k)
      OBVIOUS
    <2> PICK u : u = Append(s, c)
      OBVIOUS
    <2>1. GetOne(<<g, s>>) = <<h, u>>
      BY <1>10 DEF GetOne
    <2>2. Stays(h, k) /\ h.reading = k.reading /\ Pos(h) = Pos(k) + 1 /\ Over(h) = Over(k)
      BY <1>5, <1>10, Bumped
    <2>3. Stays(h, f) /\ h.pback = << >>
      BY <1>4, <1>5, <2>2, OverNone DEF Stays
    <2>4. l = n /\ l + 1 = (IF n + 1 < m - p THEN n + 1 ELSE m - p) /\ l + 1 = n + 1
      <3>1. l = IF n < m - p THEN n ELSE m - p
        OBVIOUS
      <3>2. p + l < m
        BY <1>7, <1>10
      <3> QED BY ONLY <3>1, <3>2, l \in Nat, n \in Nat, m \in Nat, p \in Nat
    <2>5. Left(f, n + 1) = l + 1
      BY <2>4 DEF Left
    <2>6. c \in Char /\ c = f.file[p + (l + 1)]
      <3>1. c \in Char
        BY <1>5, <1>10, ViewNext
      <3>2. c = View(g, Pos(g))
        BY <1>4, <1>10
      <3>3. p + l + 1 = p + (l + 1)
        BY ONLY p \in Nat, l \in Nat
      <3>4. c = f.file[p + l + 1]
        BY ONLY <1>6, <3>2
      <3> QED BY ONLY <3>1, <3>3, <3>4
    <2>7. u \in Seq(Char) /\ Len(u) = l + 1
      BY <1>9, <2>6
    <2>8. \A i \in 1 .. l + 1 : u[i] = f.file[p + i]
      <3>1. \A i \in 1 .. l : u[i] = s[i]
        BY ONLY <1>9, u = Append(s, c)
      <3>2. u[l + 1] = c
        BY ONLY <1>9, u = Append(s, c)
      <3>3. \A i \in 1 .. l + 1 : i \in 1 .. l \/ i = l + 1
        BY ONLY l \in Nat
      <3> QED BY ONLY <1>9, <2>6, <3>1, <3>2, <3>3
    <2>9. IsPart(u, f.file, p, l + 1)
      BY <2>7, <2>8 DEF IsPart
    <2>10. Pos(h) = p + (l + 1)
      BY <1>8, <2>2
    <2>11. h.reading /\ n + 1 # 0 /\ l + 1 = n + 1
      BY <1>8, <1>10, <2>2, <2>4
    <2>12. Got(h, u, f, n + 1)
      BY <2>3, <2>5, <2>9, <2>10, <2>11 DEF Got
    <2> QED BY <2>1, <2>12
  <1>11. CASE ~HasNext(k)
    <2>1. GetOne(<<g, s>>) = <<k, s>>
      BY <1>11 DEF GetOne
    <2>2. /\ l = (IF n + 1 < m - p THEN n + 1 ELSE m - p) /\ l # n + 1
      <3>1. l = IF n < m - p THEN n ELSE m - p
        OBVIOUS
      <3>2. ~(p + l < m)
        BY <1>7, <1>11
      <3> QED BY ONLY <3>1, <3>2, p <= m, l \in Nat, n \in Nat, m \in Nat, p \in Nat
    <2>3. Left(f, n + 1) = l
      BY <2>2 DEF Left
    <2>4. ~k.reading /\ n + 1 # 0
      BY <1>8, <1>11
    <2>5. Got(k, s, f, n + 1)
      BY <1>2, <1>4, <1>5, <1>8, <2>2, <2>3, <2>4 DEF Got
    <2> QED BY <2>1, <2>5
  <1> QED BY <1>10, <1>11

\* n calls of sbumpc.
LEMMA GetEachGets ==
  ASSUME NEW f, Plain(f), NEW n \in Nat
  PROVE  \E g, s : GetEach(f, n) = <<g, s>> /\ Got(g, s, f, n)
  <1> PICK d : Gets(d, f, n) /\ GetEach(f, n) = d[n]
    BY GetEachIs
  <1> DEFINE S == {i \in Nat : i <= n => \E g, s : d[i] = <<g, s>> /\ Got(g, s, f, i)}
  <1>1. \A i \in 0 .. n : d[i] = IF i = 0 THEN <<f, << >>>> ELSE GetOne(d[i - 1])
    BY DEF Gets
  <1>2. 0 \in S
    <2>1. d[0] = <<f, << >>>>
      BY <1>1
    <2>2. Got(f, << >>, f, 0)
      BY GotNone
    <2> QED BY <2>1, <2>2
  <1>3. ASSUME NEW i \in Nat, i \in S PROVE i + 1 \in S
    <2> SUFFICES ASSUME i + 1 <= n
                 PROVE  \E g, s : d[i + 1] = <<g, s>> /\ Got(g, s, f, i + 1)
      OBVIOUS
    <2>1. PICK g, s : d[i] = <<g, s>> /\ Got(g, s, f, i)
      BY <1>3
    <2>2. i + 1 \in 0 .. n /\ i + 1 # 0 /\ (i + 1) - 1 = i
      OBVIOUS
    <2>3. d[i + 1] = GetOne(<<g, s>>)
      BY <1>1, <2>1, <2>2
    <2> QED BY <2>1, <2>3, GotOne
  <1>4. Nat \subseteq S
    <2> HIDE DEF S
    <2> QED BY <1>2, <1>3, Climb
  <1>5. n \in S
    BY <1>4
  <1> QED BY <1>5

\* An object that is not read gives nothing, however often.
LEMMA GetEachNone ==
  ASSUME NEW f, Good(f), ~(In(f) /\ ~f.writing), NEW n \in Nat
  PROVE  GetEach(f, n) = <<f, << >>>>
  <1> PICK d : Gets(d, f, n) /\ GetEach(f, n) = d[n]
    BY GetEachIs
  <1> DEFINE S == {i \in Nat : i <= n => d[i] = <<f, << >>>>}
  <1>1. \A i \in 0 .. n : d[i] = IF i = 0 THEN <<f, << >>>> ELSE GetOne(d[i - 1])
    BY DEF Gets
  <1>2. 0 \in S
    BY <1>1
  <1>3. ASSUME NEW i \in Nat, i \in S PROVE i + 1 \in S
    <2> SUFFICES ASSUME i + 1 <= n PROVE d[i + 1] = <<f, << >>>>
      OBVIOUS
    <2>1. i + 1 \in 0 .. n /\ i + 1 # 0 /\ (i + 1) - 1 = i
      OBVIOUS
    <2>2. d[i + 1] = GetOne(<<f, << >>>>)
      <3>1. d[i] = <<f, << >>>>
        BY <1>3
      <3>2. d[i + 1] = GetOne(d[(i + 1) - 1])
        BY <1>1, <2>1
      <3> QED BY <2>1, <3>1, <3>2
    <2>3. GetOne(<<f, << >>>>) = <<f, << >>>>
      BY NotRead DEF GetOne
    <2> QED BY <2>2, <2>3
  <1>4. Nat \subseteq S
    <2> HIDE DEF S
    <2> QED BY <1>2, <1>3, Climb
  <1>5. n \in S
    BY <1>4
  <1> QED BY <1>5

\* The get area of an object that is read, as numbers and characters.
InArea(f, o, g, n, t, p) ==
  /\ t = 0 /\ p = 0 /\ n <= g /\ g <= o /\ g <= BufLen(f)
  /\ Pos(f) = o - (g - n)
  /\ \A i \in 1 .. g : f.get[i] = f.file[o - g + i]

\* In an object that is read, what is unread in the get area is what is next in the file.
LEMMA PlainArea ==
  ASSUME NEW f, Plain(f), NEW o, NEW g, NEW n, NEW t, NEW p, Numbers(f, o, g, n, t, p),
         o \in Nat, g \in Nat, n \in Nat, t \in Nat, p \in Nat
  PROVE  InArea(f, o, g, n, t, p)
  <1>1. Good(f) /\ f.put = << >> /\ f.pback = << >>
    BY DEF Plain
  <1>2. t = 0 /\ p = 0
    BY <1>1 DEF Numbers
  <1>3. n <= g /\ g <= o /\ Pos(f) = o - (g - n) + t + p
    BY DEF Numbers
  <1>4. \A i \in 1 .. g : f.get[i] = f.file[o - g + i]
    BY <1>1 DEF Good, GetArea, Numbers
  <1>5. g <= BufLen(f)
    <2>1. g = Len(f.get) /\ f.get \in Seq(Char) /\ f \in FileBuffer
      BY <1>1 DEF Numbers, Good, FileBuffer
    <2>2. BufLen(f) \in Nat \ {0}
      BY <2>1, BufLens
    <2>3. CASE f.get = << >>
      <3>1. g = 0
        BY <2>1, <2>3
      <3> QED BY <2>2, <3>1
    <2>4. CASE f.get # << >>
      BY <1>1, <2>1, <2>4 DEF Good, GetArea
    <2> QED BY <2>3, <2>4
  <1>6. Pos(f) = o - (g - n)
    BY ONLY <1>2, <1>3, o \in Nat, g \in Nat, n \in Nat
  <1> QED BY <1>2, <1>3, <1>4, <1>5, <1>6 DEF InArea

\* There is no get area, and perhaps a put area, with the file at x.
At(g, f, x, b) == Stays(g, f) /\ g.pback = << >> /\ Pos(g) = x /\ g.reading = b

\* Where a direct read ends, the buffer is given up.
LEMMA Emptied ==
  ASSUME NEW f, Plain(f), NEW d, NEW x \in Nat, x <= Len(f.file), NEW b \in BOOLEAN,
         Only(d, f, {"next", "off"}), d.off = x,
         NEW g, g = [SetBuffer(d, << >>, b) EXCEPT !.reading = b]
  PROVE  At(g, f, x, b)
  <1> PICK e : e = << >>
    OBVIOUS
  <1> PICK c : c = SetBuffer(d, e, b)
    OBVIOUS
  <1>1. e \in Seq(Char) /\ Len(e) = 0
    OBVIOUS
  <1>2. d \in FileBuffer
    BY DEF Only
  <1>3. /\ Only(c, d, {"get", "next", "put", "room"})
        /\ c.get = e /\ c.next = 0 /\ c.put = e
        /\ c.room = IF b /\ Out(d) /\ d.buf_size > 1 THEN d.buf_size - 1 ELSE 0
    BY <1>1, <1>2, BufferSet
  <1>4. c \in FileBuffer /\ g = [c EXCEPT !.reading = b]
    BY <1>3 DEF Only
  <1>5. Only(g, c, {"reading"}) /\ g.reading = b
    BY ONLY <1>4, b \in BOOLEAN DEF FileBuffer, Only, Fields
  <1>6. /\ g.get = e /\ g.next = 0 /\ g.put = e /\ g.off = x /\ g.room = c.room
    BY <1>3, <1>5 DEF Only, Fields
  <1>7. /\ g \in FileBuffer /\ g.file = f.file /\ g.mode = f.mode /\ g.buf_size = f.buf_size
        /\ g.writing = f.writing /\ g.pback = f.pback /\ g.taken = f.taken
        /\ d.mode = f.mode /\ d.buf_size = f.buf_size
    BY <1>3, <1>5 DEF Only, Fields
  <1>8. /\ Good(f) /\ f.put = e /\ f.pback = e /\ In(f) /\ ~f.writing
    BY DEF Plain
  <1>9. f.taken = 0
    BY <1>8, Points DEF Pointers
  <1>10. g.room \in {0, g.buf_size - 1}
    BY <1>3, <1>6, <1>7
  <1>11. Ranges(g)
    BY ONLY <1>1, <1>6, <1>7, <1>8, <1>9, <1>10, x <= Len(f.file) DEF Ranges
  <1>12. GetArea(g)
    BY ONLY <1>1, <1>6, <1>7, <1>8, x \in Nat DEF GetArea, In
  <1>13. PutArea(g)
    <2>1. g.room > 0 => b /\ Out(d)
      BY <1>3, <1>6
    <2> QED BY <1>5, <1>6, <1>7, <2>1 DEF PutArea, Out
  <1>14. Stays(g, f)
    BY <1>6, <1>7, <1>8, <1>11, <1>12, <1>13 DEF Stays, Good
  <1>15. Pos(g) = x - (0 - 0) + 0 + 0
    BY ONLY <1>1, <1>6, <1>7, <1>9 DEF Pos, Start
  <1>16. Pos(g) = x
    BY ONLY <1>15, x \in Nat
  <1> QED BY <1>5, <1>7, <1>8, <1>14, <1>16 DEF At

\* What a direct read reads is all that was asked for, or nothing.
Whole(f, n) ==
  \/ f.off + (n - (Len(f.get) - f.next)) <= Len(f.file)
  \/ f.off = Len(f.file)

\* The rest of the buffer, and then straight from the file.
LEMMA GetDirectGets ==
  ASSUME NEW f, Plain(f), NEW n \in Nat, n > BufLen(f), Whole(f, n)
  PROVE  \E g, s : GetDirect(f, n) = <<g, s>> /\ Got(g, s, f, n)
  <1>1. /\ Good(f) /\ f.put = << >> /\ f.pback = << >> /\ f \in FileBuffer
        /\ f.get \in Seq(Char)
    BY DEF Plain, Good, FileBuffer
  <1> PICK o \in Nat, gg \in Nat, j \in Nat, t \in Nat, p \in Nat : Numbers(f, o, gg, j, t, p)
    BY <1>1, Count
  <1> PICK m \in Nat : m = Len(f.file)
    BY <1>1, PosIn
  <1>a. o = f.off /\ gg = Len(f.get) /\ j = f.next /\ o <= m
    BY DEF Numbers
  <1>2. /\ t = 0 /\ p = 0 /\ j <= gg /\ gg <= o /\ gg <= BufLen(f)
        /\ Pos(f) = o - (gg - j)
        /\ \A i \in 1 .. gg : f.get[i] = f.file[o - gg + i]
    <2>1. Numbers(f, o, gg, j, t, p)
      OBVIOUS
    <2>2. InArea(f, o, gg, j, t, p)
      BY ONLY <2>1, Plain(f), o \in Nat, gg \in Nat, j \in Nat, t \in Nat, p \in Nat, PlainArea
    <2> QED BY <2>2 DEF InArea
  <1>3. gg < n
    <2>1. BufLen(f) \in Nat
      BY <1>1, BufLens
    <2> QED BY <1>2, <2>1
  <1>4. \E h, w, q \in Nat : h = gg - j /\ w = n - h /\ q = o - h
    BY ONLY <1>2, <1>3, o \in Nat, gg \in Nat, j \in Nat, n \in Nat
  <1> PICK h \in Nat, w \in Nat, q \in Nat : h = gg - j /\ w = n - h /\ q = o - h
    BY <1>4
  <1>5. /\ j + h = gg /\ w # 0 /\ w + h = n /\ q + h = o /\ Pos(f) = q
    BY ONLY <1>2, <1>3, h = gg - j, w = n - h, q = o - h, o \in Nat, gg \in Nat, j \in Nat,
            n \in Nat, h \in Nat, w \in Nat, q \in Nat
  <1> PICK have : have = SubSeq(f.get, f.next + 1, Len(f.get))
    OBVIOUS
  <1> PICK s : s = FileRead(f, w)
    OBVIOUS
  <1>6. IsPart(have, f.get, j, h)
    <2>1. j + h <= Len(f.get)
      <3>1. j + h = Len(f.get) /\ j + h \in Nat
        BY <1>a, <1>5
      <3> QED BY ONLY <3>1
    <2>2. IsPart(SubSeq(f.get, j + 1, j + h), f.get, j, h)
      BY <1>1, <2>1, PartOf
    <2> QED BY <1>a, <1>5, <2>2
  <1>7. have \in Seq(Char) /\ Len(have) = h /\ \A i \in 1 .. h : have[i] = f.get[j + i]
    BY <1>6 DEF IsPart
  <1>8. \E k \in Nat : /\ k = IF f.off + w < Len(f.file) THEN w ELSE Len(f.file) - f.off
                       /\ IsPart(FileRead(f, w), f.file, f.off, k)
    <2>1. f.off <= Len(f.file)
      BY <1>a
    <2> QED BY <1>1, <2>1, ReadPart
  <1> PICK k \in Nat : /\ k = IF f.off + w < Len(f.file) THEN w ELSE Len(f.file) - f.off
                       /\ IsPart(FileRead(f, w), f.file, f.off, k)
    BY <1>8
  <1>9. IsPart(s, f.file, o, k)
    BY <1>a
  <1>10. (o + w < m /\ k = w) \/ (o + w >= m /\ k = m - o)
    <2>1. k = IF f.off + w < Len(f.file) THEN w ELSE Len(f.file) - f.off
      OBVIOUS
    <2>2. f.off = o /\ Len(f.file) = m
      BY <1>a
    <2>3. k = IF o + w < m THEN w ELSE m - o
      BY ONLY <2>1, <2>2
    <2> QED BY ONLY <2>3, o \in Nat, w \in Nat, m \in Nat
  <1>11. s \in Seq(Char) /\ Len(s) = k /\ \A i \in 1 .. k : s[i] = f.file[o + i]
    BY <1>9 DEF IsPart
  <1>12. k = w \/ (k = 0 /\ o = m)
    <2>1. o + (n - (gg - j)) <= m \/ o = m
      BY <1>a DEF Whole
    <2>2. o + w <= m \/ o = m
      BY <2>1
    <2> QED BY ONLY <2>2, <1>10, o \in Nat, w \in Nat, m \in Nat, k \in Nat
  <1> PICK u : u = have \o s
    OBVIOUS
  <1>13. IsPart(u, f.file, q, h + k)
    <2>1. IsJoin(u, have, s)
      BY <1>7, <1>11, Joined
    <2>2. /\ u \in Seq(Char) /\ Len(u) = h + k
          /\ \A i \in 1 .. h + k : u[i] = IF i <= h THEN have[i] ELSE s[i - h]
      BY <1>7, <1>11, <2>1 DEF IsJoin
    <2>3. \A i \in 1 .. h + k : u[i] = f.file[q + i]
      <3> SUFFICES ASSUME NEW i \in 1 .. h + k PROVE u[i] = f.file[q + i]
        OBVIOUS
      <3>1. CASE i <= h
        <4>1. i \in 1 .. h
          BY ONLY <3>1, i \in 1 .. h + k, h \in Nat, k \in Nat
        <4>2. j + i \in 1 .. gg /\ o - gg + (j + i) = q + i
          BY ONLY <1>5, <4>1, h \in Nat, gg \in Nat, j \in Nat, o \in Nat, q \in Nat
        <4>3. u[i] = f.get[j + i]
          BY <1>7, <2>2, <4>1, <3>1
        <4>4. f.get[j + i] = f.file[o - gg + (j + i)]
          BY <1>2, <4>2
        <4> QED BY ONLY <4>2, <4>3, <4>4
      <3>2. CASE i > h
        <4>1. i - h \in 1 .. k /\ o + (i - h) = q + i /\ ~(i <= h)
          BY ONLY <3>2, <1>5, i \in 1 .. h + k, h \in Nat, k \in Nat, o \in Nat, q \in Nat
        <4>2. u[i] = s[i - h]
          BY ONLY <2>2, <4>1, i \in 1 .. h + k
        <4>3. s[i - h] = f.file[o + (i - h)]
          BY ONLY <1>11, <4>1
        <4> QED BY ONLY <4>1, <4>2, <4>3
      <3>3. i <= h \/ i > h
        BY ONLY i \in 1 .. h + k, h \in Nat, k \in Nat
      <3> QED BY <3>1, <3>2, <3>3
    <2> QED BY <2>2, <2>3 DEF IsPart
  <1>14. o + k \in Nat /\ o + k <= m
    <2>1. o <= m
      BY <1>a
    <2> QED BY ONLY <2>1, <1>10, o \in Nat, k \in Nat, m \in Nat, w \in Nat
  <1> PICK x \in Nat : x = o + k /\ x <= m
    BY <1>14
  <1> PICK d : d = [f EXCEPT !.next = Len(f.get), !.off = f.off + Len(s)]
    OBVIOUS
  <1>15. d = [f EXCEPT !.next = gg, !.off = x]
    BY <1>a, <1>11
  <1>16. Only(d, f, {"next", "off"}) /\ d.next = gg /\ d.off = x
    BY ONLY <1>1, <1>15, gg \in Nat, x \in Nat DEF FileBuffer, Only, Fields
  <1> PICK b \in BOOLEAN : b = (k = w)
    OBVIOUS
  <1> PICK g : g = [SetBuffer(d, << >>, b) EXCEPT !.reading = b]
    OBVIOUS
  <1>17. GetDirect(f, n) = <<g, u>>
    <2>1. n - Len(have) = w
      BY <1>7
    <2>2. GetDirect(f, n) =
            << IF Len(s) = w THEN [SetBuffer(d, << >>, TRUE) EXCEPT !.reading = TRUE]
               ELSE IF s = << >> THEN [SetBuffer(d, << >>, FALSE) EXCEPT !.reading = FALSE]
               ELSE d, u >>
      BY <2>1 DEF GetDirect
    <2>3. CASE k = w
      BY <1>11, <2>2, <2>3
    <2>4. CASE k # w
      <3>1. Len(s) = 0 /\ s = << >>
        BY <1>11, <1>12, <2>4, Empty
      <3> QED BY <1>11, <2>2, <2>4, <3>1
    <2> QED BY <2>3, <2>4
  <1>18. Stays(g, f) /\ g.pback = << >> /\ Pos(g) = x /\ g.reading = b
    <2>1. x <= Len(f.file)
      OBVIOUS
    <2>2. g = [SetBuffer(d, << >>, b) EXCEPT !.reading = b]
      OBVIOUS
    <2>3. Only(d, f, {"next", "off"}) /\ d.off = x
      BY <1>16
    <2>4. At(g, f, x, b)
      BY ONLY <2>1, <2>2, <2>3, Plain(f), x \in Nat, b \in BOOLEAN, Emptied, ZenonT(30)
    <2> QED BY <2>4 DEF At
  <1>19. Left(f, n) = h + k
    <2>1. Left(f, n) = IF n < m - q THEN n ELSE m - q
      BY <1>5 DEF Left
    <2> QED BY ONLY <2>1, <1>12, <1>5, <1>10, x <= m, x = o + k,
               h \in Nat, k \in Nat, w \in Nat, n \in Nat, m \in Nat, o \in Nat, q \in Nat
  <1>20. Pos(g) = q + (h + k)
    BY ONLY <1>5, <1>18, x = o + k, h \in Nat, k \in Nat, o \in Nat, q \in Nat
  <1>21. b <=> h + k = n
    <2>1. k = w <=> h + k = n
      BY ONLY <1>5, h \in Nat, k \in Nat, w \in Nat, n \in Nat
    <2> QED BY <2>1
  <1>22. n # 0
    BY <1>3
  <1>23. Got(g, u, f, n)
    BY ONLY <1>5, <1>13, <1>18, <1>19, <1>20, <1>21, <1>22 DEF Got
  <1> QED BY <1>17, <1>23

\* What is not put back is read in one of the two ways.
LEMMA RestGets ==
  ASSUME NEW f, Plain(f), NEW n \in Nat, n > BufLen(f) => Whole(f, n)
  PROVE  \E g, s : /\ (IF Direct(f, n) THEN GetDirect(f, n) ELSE GetEach(f, n)) = <<g, s>>
                   /\ Got(g, s, f, n)
  <1>1. Direct(f, n) <=> n > BufLen(f)
    BY DEF Direct, Plain
  <1>2. CASE Direct(f, n)
    <2>1. \E g, s : GetDirect(f, n) = <<g, s>> /\ Got(g, s, f, n)
      BY <1>1, <1>2, GetDirectGets
    <2> QED BY <1>2, <2>1
  <1>3. CASE ~Direct(f, n)
    <2>1. \E g, s : GetEach(f, n) = <<g, s>> /\ Got(g, s, f, n)
      BY GetEachGets
    <2> QED BY <1>3, <2>1
  <1> QED BY <1>2, <1>3

\* After reading n characters, s in all.
ReadTo(g, s, f, n) ==
  /\ Stays(g, f) /\ MayForget(g, f)
  /\ s \in Seq(Char) /\ Len(s) = Left(f, n)
  /\ \A i \in 1 .. Left(f, n) : s[i] = View(f, Pos(f) + i - 1)
  /\ Pos(g) = Pos(f) + Left(f, n)
  /\ g.reading <=> Left(f, n) = n

\* u is t with c in front.
IsFront(u, c, t) ==
  /\ u \in Seq(Char) /\ Len(u) = 1 + Len(t) /\ u[1] = c
  /\ \A i \in 1 .. Len(t) : u[i + 1] = t[i]

\* One character and then the rest.
LEMMA InFront ==
  ASSUME NEW s \in Seq(Char), Len(s) = 1, NEW t \in Seq(Char)
  PROVE  IsFront(s \o t, s[1], t)
  <1> PICK u : u = s \o t
    OBVIOUS
  <1>1. IsJoin(u, s, t)
    BY Joined
  <1> PICK n \in Nat : n = Len(t)
    OBVIOUS
  <1>2. /\ u \in Seq(Char) /\ Len(u) = 1 + n
        /\ \A i \in 1 .. 1 + n : u[i] = IF i <= 1 THEN s[i] ELSE t[i - 1]
    BY <1>1 DEF IsJoin
  <1>3. 1 \in 1 .. 1 + n
    BY ONLY n \in Nat
  <1>4. u[1] = s[1]
    BY <1>2, <1>3
  <1>5. \A i \in 1 .. n : i + 1 \in 1 .. 1 + n /\ ~(i + 1 <= 1) /\ (i + 1) - 1 = i
    BY ONLY n \in Nat
  <1>6. \A i \in 1 .. n : u[i + 1] = t[i]
    BY ONLY <1>2, <1>5
  <1> QED BY <1>2, <1>4, <1>6 DEF IsFront

\* A direct read from where the object is, which is not cut short by the end.
LEMMA WholeRest ==
  ASSUME NEW d, Plain(d), NEW n \in Nat, NEW f, d.off = f.off, d.file = f.file,
         ~(f.off < Len(f.file) /\ Pos(d) + n > Len(f.file))
  PROVE  Whole(d, n)
  <1>1. Good(d) /\ d.put = << >> /\ d.pback = << >>
    BY DEF Plain
  <1> PICK o \in Nat, gg \in Nat, j \in Nat, t \in Nat, p \in Nat : Numbers(d, o, gg, j, t, p)
    BY <1>1, Count
  <1>2. Numbers(d, o, gg, j, t, p)
    OBVIOUS
  <1>3. InArea(d, o, gg, j, t, p)
    BY ONLY <1>2, Plain(d), o \in Nat, gg \in Nat, j \in Nat, t \in Nat, p \in Nat, PlainArea
  <1>4. Pos(d) = o - (gg - j)
    BY <1>3 DEF InArea
  <1>5. o = d.off /\ gg = Len(d.get) /\ j = d.next /\ o <= Len(d.file)
    BY <1>2 DEF Numbers
  <1> PICK m \in Nat : m = Len(d.file)
    BY <1>1, Points DEF Pointers
  <1>6. ~(o < m /\ o - (gg - j) + n > m) /\ o <= m
    BY <1>4, <1>5
  <1>7. o + (n - (gg - j)) <= m \/ o = m
    BY ONLY <1>6, n \in Nat, o \in Nat, gg \in Nat, j \in Nat, m \in Nat
  <1> QED BY <1>5, <1>7 DEF Whole

\* A character that was put back comes first.
LEMMA ReadPback ==
  ASSUME NEW f, Good(f), In(f), ~f.writing, HasNext(f), f.pback # << >>,
         NEW n \in Nat \ {0}, ~Partial(f, n)
  PROVE  \E g, s : Xsgetn(f, n) = <<g, s>> /\ ReadTo(g, s, f, n)
  <1> PICK b : b = Bump(f, 1)
    OBVIOUS
  <1> PICK d : d = DestroyPback(b)
    OBVIOUS
  <1> PICK k \in Nat : k = n - 1
    OBVIOUS
  <1>1. f.reading /\ f.put = << >>
    BY Readable
  <1>2. /\ Stays(b, f) /\ b.reading = f.reading /\ Pos(b) = Pos(f) + 1
    BY Bumped
  <1>3. Good(b)
    BY <1>2 DEF Stays
  <1>4. /\ Stays(d, b) /\ d.reading = b.reading /\ d.pback = << >> /\ Pos(d) = Pos(b)
        /\ Only(d, b, {"next", "pback", "taken"})
    BY <1>3, Dropped
  <1>5. Stays(d, f) /\ d.reading /\ Pos(d) = Pos(f) + 1 /\ d.file = f.file
    BY <1>1, <1>2, <1>4 DEF Stays
  <1>6. Plain(d)
    BY <1>1, <1>4, <1>5 DEF Plain, Stays, In
  <1>7. Pointers(f)
    BY Points
  <1>8. Len(f.pback) = 1 /\ f.pback \in Seq(Char) /\ f.taken = 0
    BY <1>7 DEF Pointers, HasNext
  <1>10. k > BufLen(d) => Whole(d, k)
    <2> SUFFICES ASSUME k > BufLen(d) PROVE Whole(d, k)
      OBVIOUS
    <2>1. First(f) = f.pback /\ n - Len(f.pback) = k
      BY <1>8 DEF First
    <2>2. b.off = f.off
      <3>1. b = [f EXCEPT !.taken = f.taken + 1] /\ f \in FileBuffer
        BY <1>7 DEF Bump, Pointers
      <3> QED BY <3>1 DEF FileBuffer
    <2>3. d.off = f.off /\ Direct(f, k)
      BY <1>4, <1>5, <2>2 DEF Direct, BufLen, Stays, Only, Fields
    <2>4. ~(f.off < Len(f.file) /\ Pos(f) + n > Len(f.file))
      BY <2>1, <2>3 DEF Partial
    <2>5. Pos(d) = Pos(f) + 1 /\ Plain(d) /\ d.file = f.file
      BY <1>5, <1>6
    <2>6. Pos(d) + k = Pos(f) + n
      <3>1. Pos(d) \in Nat /\ Pos(f) \in Nat
        BY <1>1, <1>6, PosIn DEF Plain
      <3> QED BY ONLY <2>5, <3>1, k = n - 1, n \in Nat, k \in Nat
    <2> QED BY ONLY <2>3, <2>4, <2>5, <2>6, k \in Nat, WholeRest
  <1>11. PICK g, r : /\ (IF Direct(d, k) THEN GetDirect(d, k) ELSE GetEach(d, k)) = <<g, r>>
                     /\ Got(g, r, d, k)
    BY <1>6, <1>10, RestGets
  <1> PICK s : s = f.pback \o r
    OBVIOUS
  <1>12. Xsgetn(f, n) = <<g, s>>
    <2>1. n - Len(f.pback) = k
      BY <1>8
    <2> PICK w : w = IF Direct(d, k) THEN GetDirect(d, k) ELSE GetEach(d, k)
      OBVIOUS
    <2>2. Xsgetn(f, n) = << w[1], f.pback \o w[2] >>
      BY <2>1 DEF Xsgetn, First
    <2>3. w = <<g, r>>
      BY <1>11
    <2>4. w[1] = g /\ w[2] = r
      BY ONLY <2>3
    <2> QED BY <2>2, <2>4
  <1>13. /\ Stays(g, d) /\ g.pback = << >> /\ IsPart(r, d.file, Pos(d), Left(d, k))
         /\ Pos(g) = Pos(d) + Left(d, k)
         /\ k = 0 => g.reading = d.reading
         /\ k > 0 => (g.reading <=> Left(d, k) = k)
    BY <1>11 DEF Got
  <1>14. Pos(f) \in Nat /\ Pos(f) < Len(f.file) /\ NextChar(f) = View(f, Pos(f))
    BY ViewNext
  <1>a. Len(f.file) \in Nat
    BY <1>7 DEF Pointers
  <1> PICK p \in Nat, m \in Nat : p = Pos(f) /\ m = Len(f.file)
    BY <1>14, <1>a
  <1>15. p < m /\ Pos(d) = p + 1 /\ Len(d.file) = m
    BY <1>5, <1>14
  <1> PICK l \in Nat : l = IF k < m - (p + 1) THEN k ELSE m - (p + 1)
    BY <1>15
  <1>16. Left(d, k) = l
    BY <1>15 DEF Left
  <1>17. Left(f, n) = l + 1 /\ (l + 1 = n <=> l = k) /\ l <= k
    <2>1. Left(f, n) = IF n < m - p THEN n ELSE m - p
      BY DEF Left
    <2> QED BY ONLY <1>15, <2>1, l = IF k < m - (p + 1) THEN k ELSE m - (p + 1), k = n - 1,
               k \in Nat, n \in Nat, l \in Nat, m \in Nat, p \in Nat
  <1>18. r \in Seq(Char) /\ Len(r) = l /\ \A i \in 1 .. l : r[i] = f.file[p + 1 + i]
    BY <1>5, <1>13, <1>15, <1>16 DEF IsPart
  <1>19. /\ s \in Seq(Char) /\ Len(s) = 1 + l /\ s[1] = f.pback[1]
         /\ \A i \in 1 .. l : s[i + 1] = r[i]
    <2>1. Len(f.pback) = 1 /\ f.pback \in Seq(Char) /\ r \in Seq(Char)
      BY <1>8, <1>18
    <2>2. IsFront(s, f.pback[1], r)
      BY <2>1, InFront
    <2> QED BY <1>18, <2>2 DEF IsFront
  <1>20. Over(f) # << >> /\ Over(f)[1] = p
    <2>1. Start(f) = p
      <3> PICK o \in Nat, gg \in Nat, j \in Nat, t \in Nat, q \in Nat : Numbers(f, o, gg, j, t, q)
        BY Count
      <3>1. Start(f) = o - (gg - j) /\ Pos(f) = o - (gg - j) + t + q /\ t = 0 /\ q = 0
        BY <1>1, <1>8 DEF Numbers
      <3> QED BY ONLY <3>1, p = Pos(f), o \in Nat, gg \in Nat, j \in Nat
    <2>2. Over(f) = <<Start(f), f.pback[1]>>
      BY DEF Over
    <2> QED BY <2>1, <2>2
  <1>21. \A i \in 1 .. l + 1 : s[i] = View(f, p + i - 1)
    <2> SUFFICES ASSUME NEW i \in 1 .. l + 1 PROVE s[i] = View(f, p + i - 1)
      OBVIOUS
    <2>1. CASE i = 1
      <3>1. p + i - 1 = p
        BY ONLY <2>1, p \in Nat
      <3>2. NextChar(f) = f.pback[1]
        BY <1>8 DEF NextChar
      <3> QED BY <1>14, <1>19, <2>1, <3>1, <3>2
    <2>2. CASE i # 1
      <3> PICK x \in 1 .. l : i = x + 1
        <4>1. i - 1 \in 1 .. l /\ i = (i - 1) + 1
          BY ONLY <2>2, i \in 1 .. l + 1, l \in Nat
        <4> QED BY <4>1
      <3>1. p + i - 1 # p /\ p + i - 1 + 1 = p + 1 + x
        BY ONLY i = x + 1, x \in 1 .. l, l \in Nat, p \in Nat
      <3>2. View(f, p + i - 1) = f.file[p + 1 + x]
        BY <1>1, <1>20, <3>1, Contents DEF View
      <3>3. s[i] = r[x]
        BY <1>19
      <3> QED BY <1>18, <3>2, <3>3
    <2> QED BY <2>1, <2>2
  <1>22. Pos(g) = p + (l + 1)
    <2>1. Pos(g) = (p + 1) + l
      BY <1>13, <1>15, <1>16
    <2> QED BY ONLY <2>1, p \in Nat, l \in Nat
  <1>23. g.reading <=> l + 1 = n
    <2>1. CASE k = 0
      <3>1. l = k
        BY ONLY <1>17, <2>1, l \in Nat
      <3> QED BY <1>5, <1>13, <1>17, <2>1, <3>1
    <2>2. CASE k # 0
      <3>1. g.reading <=> l = k
        BY <1>13, <1>16, <2>2
      <3> QED BY <1>17, <3>1
    <2> QED BY <2>1, <2>2
  <1>24. MayForget(g, f)
    <2>1. Over(g) = << >>
      BY <1>13, OverNone
    <2>2. Pos(g) # p
      BY ONLY <1>22, p \in Nat, l \in Nat
    <2> QED BY <1>20, <2>1, <2>2 DEF MayForget
  <1>25. Stays(g, f)
    BY <1>5, <1>13 DEF Stays
  <1>26. Len(s) = l + 1
    BY ONLY <1>19, l \in Nat
  <1>27. ReadTo(g, s, f, n)
    BY ONLY <1>17, <1>19, <1>21, <1>22, <1>23, <1>24, <1>25, <1>26, p = Pos(f) DEF ReadTo
  <1> QED BY <1>12, <1>27

\* Nothing in front of s is s.
LEMMA NothingFirst ==
  ASSUME NEW s \in Seq(Char)
  PROVE  << >> \o s = s
  <1>1. IsJoin(<< >> \o s, << >>, s)
    <2>1. << >> \in Seq(Char)
      OBVIOUS
    <2> QED BY <2>1, Joined
  <1> PICK u : u = << >> \o s
    OBVIOUS
  <1>2. Len(<< >>) = 0
    OBVIOUS
  <1> PICK l \in Nat : l = Len(s)
    OBVIOUS
  <1>3. /\ u \in Seq(Char) /\ Len(u) = l
        /\ \A i \in 1 .. l : u[i] = IF i <= 0 THEN << >>[i] ELSE s[i - 0]
    BY <1>1, <1>2 DEF IsJoin
  <1>4. \A i \in 1 .. l : ~(i <= 0) /\ i - 0 = i
    BY ONLY l \in Nat
  <1>5. \A i \in 1 .. l : u[i] = s[i]
    BY <1>3, <1>4
  <1> QED BY <1>3, <1>5, SameSeq

\* Nothing was put back, or what was has been read.
LEMMA ReadRest ==
  ASSUME NEW f, Good(f), In(f), ~f.writing, ~(HasNext(f) /\ f.pback # << >>),
         NEW n \in Nat \ {0}, ~Partial(f, n)
  PROVE  \E g, s : Xsgetn(f, n) = <<g, s>> /\ ReadTo(g, s, f, n)
  <1> PICK d : d = DestroyPback(f)
    OBVIOUS
  <1>1. Pointers(f)
    BY Points
  <1>2. f.put = << >>
    <2>1. f.reading => f.put = << >>
      BY <1>1 DEF Pointers
    <2>2. f.put # << >> => f.writing
      BY DEF Good, PutArea
    <2> QED BY <2>1, <2>2
  <1>3. /\ Stays(d, f) /\ d.pback = << >> /\ Pos(d) = Pos(f)
        /\ Only(d, f, {"next", "pback", "taken"})
    BY Dropped
  <1>4. Plain(d) /\ d.file = f.file /\ d.off = f.off
    BY <1>2, <1>3 DEF Plain, Stays, In, Only, Fields
  <1>5. n > BufLen(d) => Whole(d, n)
    <2> SUFFICES ASSUME n > BufLen(d) PROVE Whole(d, n)
      OBVIOUS
    <2>1. BufLen(d) = BufLen(f)
      BY <1>3 DEF BufLen, Stays
    <2>2. First(f) = << >> /\ n - Len(<< >>) = n /\ Direct(f, n)
      BY <2>1 DEF First, Direct
    <2>3. ~(f.off < Len(f.file) /\ Pos(f) + n > Len(f.file))
      BY <2>2 DEF Partial
    <2>4. d.off = f.off /\ d.file = f.file /\ Pos(d) = Pos(f)
      BY <1>3, <1>4
    <2> QED BY ONLY <1>4, <2>3, <2>4, n \in Nat, WholeRest
  <1>6. PICK g, s : /\ (IF Direct(d, n) THEN GetDirect(d, n) ELSE GetEach(d, n)) = <<g, s>>
                     /\ Got(g, s, d, n)
    BY <1>4, <1>5, RestGets
  <1>7. /\ Stays(g, d) /\ g.pback = << >> /\ IsPart(s, d.file, Pos(d), Left(d, n))
        /\ Pos(g) = Pos(d) + Left(d, n) /\ (g.reading <=> Left(d, n) = n)
    BY <1>6 DEF Got
  <1>8. Xsgetn(f, n) = <<g, s>>
    <2> PICK first : first = << >>
      OBVIOUS
    <2>1. (IF HasNext(f) THEN f.pback ELSE << >>) = first /\ n - Len(first) = n
      OBVIOUS
    <2> PICK w : w = IF Direct(d, n) THEN GetDirect(d, n) ELSE GetEach(d, n)
      OBVIOUS
    <2>2. Xsgetn(f, n) = << w[1], first \o w[2] >>
      BY <2>1 DEF Xsgetn, First
    <2>3. w = <<g, s>>
      BY <1>6
    <2>4. w[1] = g /\ w[2] = s
      BY ONLY <2>3
    <2>5. s \in Seq(Char)
      BY <1>7 DEF IsPart
    <2>6. << >> \o s = s
      BY <2>5, NothingFirst
    <2> QED BY <2>2, <2>4, <2>6
  <1>9. Pos(f) \in Nat /\ Pos(f) <= Len(f.file) /\ Len(f.file) \in Nat
    BY <1>2, PosIn
  <1> PICK p \in Nat, m \in Nat : p = Pos(f) /\ m = Len(f.file) /\ p <= m
    BY <1>9
  <1> PICK l \in Nat : l = IF n < m - p THEN n ELSE m - p
    OBVIOUS
  <1>10. Left(d, n) = l /\ Left(f, n) = l
    BY <1>3, <1>4 DEF Left
  <1>11. s \in Seq(Char) /\ Len(s) = l /\ \A i \in 1 .. l : s[i] = f.file[p + i]
    BY <1>3, <1>4, <1>7, <1>10 DEF IsPart
  <1>12. Pos(g) = p + l
    BY <1>3, <1>7, <1>10
  <1>13. Over(f) # << >> => Over(f)[1] < p
    <2> SUFFICES ASSUME f.pback # << >> PROVE Over(f)[1] < p
      BY DEF Over
    <2> PICK o \in Nat, gg \in Nat, j \in Nat, t \in Nat, q \in Nat : Numbers(f, o, gg, j, t, q)
      BY Count
    <2>1. ~HasNext(f)
      OBVIOUS
    <2>2. t # 0
      BY <2>1 DEF HasNext, Numbers
    <2>3. Start(f) = o - (gg - j) /\ p = o - (gg - j) + t + q
      BY DEF Numbers
    <2>4. Start(f) < p
      BY ONLY <2>2, <2>3, o \in Nat, gg \in Nat, j \in Nat, t \in Nat, q \in Nat
    <2>5. Over(f) = <<Start(f), f.pback[1]>>
      BY DEF Over
    <2> QED BY <2>4, <2>5
  <1>14. \A i \in 1 .. l : s[i] = View(f, p + i - 1)
    <2> SUFFICES ASSUME NEW i \in 1 .. l PROVE s[i] = View(f, p + i - 1)
      OBVIOUS
    <2>1. p + i - 1 >= p /\ p + i - 1 + 1 = p + i
      BY ONLY i \in 1 .. l, l \in Nat, p \in Nat
    <2>2. ~(Over(f) # << >> /\ Over(f)[1] = p + i - 1)
      <3> SUFFICES ASSUME Over(f) # << >>, Over(f)[1] = p + i - 1 PROVE FALSE
        OBVIOUS
      <3>1. p + i - 1 < p
        BY <1>13
      <3> QED BY ONLY <2>1, <3>1, i \in 1 .. l, l \in Nat, p \in Nat
    <2>3. View(f, p + i - 1) = f.file[p + i]
      BY <1>2, <2>1, <2>2, Contents DEF View
    <2> QED BY <1>11, <2>3
  <1>15. MayForget(g, f)
    <2>1. Over(g) = << >>
      BY <1>7, OverNone
    <2>2. ~(Over(f) # << >> /\ Over(f)[1] = Pos(g))
      <3> SUFFICES ASSUME Over(f) # << >>, Over(f)[1] = p + l PROVE FALSE
        BY <1>12
      <3>1. p + l < p
        BY <1>13
      <3> QED BY ONLY <3>1, l \in Nat, p \in Nat
    <2> QED BY <2>1, <2>2 DEF MayForget
  <1>16. Stays(g, f)
    BY <1>3, <1>7 DEF Stays
  <1>17. g.reading <=> l = n
    BY <1>7, <1>10
  <1>18. ReadTo(g, s, f, n)
    BY ONLY <1>10, <1>11, <1>12, <1>14, <1>15, <1>16, <1>17, p = Pos(f) DEF ReadTo
  <1> QED BY <1>8, <1>18

\* sgetn gives what is ahead, n characters or those before the end of the file.
LEMMA XsgetnReads ==
  ASSUME NEW f, Good(f), In(f), ~f.writing,
         NEW n \in Nat \ {0}, ~Partial(f, n)
  PROVE  \E g, s : Xsgetn(f, n) = <<g, s>> /\ ReadTo(g, s, f, n)
  BY ReadPback, ReadRest

\* sgetn of an object that is not read gives nothing.
LEMMA XsgetnNone ==
  ASSUME NEW f, Good(f), ~(In(f) /\ ~f.writing), NEW n \in Nat
  PROVE  Xsgetn(f, n) = <<f, << >>>>
  <1>1. ~HasNext(f) /\ DestroyPback(f) = f
    BY NotRead
  <1> PICK first : first = << >>
    OBVIOUS
  <1>2. n - Len(first) = n /\ first \o << >> = << >>
    OBVIOUS
  <1>3. ~Direct(f, n)
    BY DEF Direct
  <1> PICK w : w = GetEach(f, n)
    OBVIOUS
  <1>4. Xsgetn(f, n) = << w[1], first \o w[2] >>
    BY <1>1, <1>2, <1>3 DEF Xsgetn, First
  <1>5. w = <<f, << >>>>
    BY GetEachNone
  <1> QED BY <1>2, <1>4, <1>5

-----------------------------------------------------------------------------
(* Writing *)

Writes(f) == Good(f) /\ Out(f) /\ ~f.reading

\* After writing s.
Wrote(g, f, s) ==
  /\ Good(g) /\ g.mode = f.mode /\ g.buf_size = f.buf_size
  /\ ~g.reading /\ g.pback = << >>
  /\ IsOverlay(Content(g), Content(f), Pos(f), s)
  /\ Pos(g) = Pos(f) + Len(s)
  /\ g.writing \/ (s = << >> /\ g.writing = f.writing)

\* Without a get area the position is behind the put area.
LEMMA WriteFacts ==
  ASSUME NEW f, Good(f), ~f.reading
  PROVE  /\ f.get = << >> /\ f.next = 0 /\ f.pback = << >> /\ f.taken = 0
         /\ Pos(f) = f.off + Len(f.put) /\ f.off \in Nat /\ Len(f.put) \in Nat
         /\ f.put \in Seq(Char) /\ f.file \in Seq(Char) /\ f.off <= Len(f.file)
         /\ Content(f) \in Seq(Char) /\ Pos(f) \in Nat /\ Pos(f) <= Len(Content(f))
  <1>1. Pointers(f)
    BY Points
  <1> PICK o \in Nat, p \in Nat, m \in Nat : o = f.off /\ p = Len(f.put) /\ m = Len(f.file)
    BY <1>1 DEF Pointers
  <1>2. f.get = << >> /\ Len(f.get) = 0
    BY <1>1 DEF Pointers
  <1>3. f.next = 0
    BY <1>1, <1>2 DEF Pointers
  <1>4. f.pback = << >> /\ f.taken = 0
    BY <1>1, <1>2, <1>3 DEF Pointers
  <1>5. Pos(f) = o - (0 - 0) + 0 + p
    BY <1>2, <1>3, <1>4 DEF Pos, Start
  <1>6. Pos(f) = o + p
    BY ONLY <1>5, o \in Nat, p \in Nat
  <1>7. IsOverlay(Content(f), f.file, f.off, f.put)
    BY Contents
  <1>8. Content(f) \in Seq(Char) /\ Len(Content(f)) = IF o + p < m THEN m ELSE o + p
    BY <1>7 DEF IsOverlay
  <1>9. o + p <= Len(Content(f))
    BY ONLY <1>8, o \in Nat, p \in Nat, m \in Nat
  <1> QED BY <1>1, <1>2, <1>3, <1>4, <1>6, <1>8, <1>9 DEF Pointers

\* What is written behind the put area is written at the position.
LEMMA Behind ==
  ASSUME NEW f, Good(f), ~f.reading, NEW s \in Seq(Char), NEW y,
         IsOverlay(y, f.file, f.off, f.put \o s)
  PROVE  IsOverlay(y, Content(f), Pos(f), s)
  <1> PICK c : c = Content(f)
    OBVIOUS
  <1> PICK q : q = Pos(f)
    OBVIOUS
  <1> PICK x : x = SubSeq(c, 1, q) \o s \o SubSeq(c, q + Len(s) + 1, Len(c))
    OBVIOUS
  <1>1. c \in Seq(Char) /\ q \in Nat /\ q <= Len(c) /\ q = f.off + Len(f.put)
    BY WriteFacts
  <1>2. IsOverlay(x, c, q, s)
    BY <1>1, Overlaid
  <1>3. IsOverlay(c, f.file, f.off, f.put)
    BY Contents
  <1>4. f.file \in Seq(Char) /\ f.off \in Nat /\ f.off <= Len(f.file) /\ f.put \in Seq(Char)
    BY WriteFacts
  <1>5. IsOverlay(x, f.file, f.off, f.put \o s)
    <2>1. IsOverlay(x, c, f.off + Len(f.put), s)
      BY <1>1, <1>2
    <2> QED BY <1>3, <1>4, <2>1, OverlayTwice
  <1>6. x = y
    BY <1>5, SameOverlay
  <1> QED BY <1>2, <1>6

\* g is f with the put area and s written to the file.
LEMMA Flush ==
  ASSUME NEW f, Good(f), ~f.reading, NEW s \in Seq(Char), NEW w, NEW g,
         WrittenTo(w, f, f.put \o s), Only(g, w, {"get", "next", "put", "room", "writing"}),
         g.get = << >>, g.next = 0, g.put = << >>, g.writing,
         g.room \in {0, g.buf_size - 1}, g.room > 0 => Out(g)
  PROVE  Wrote(g, f, s)
  <1>1. /\ f.pback = << >> /\ f.taken = 0 /\ f.put \in Seq(Char) /\ f.off \in Nat
        /\ Pos(f) = f.off + Len(f.put) /\ Pos(f) \in Nat
    BY WriteFacts
  <1>2. /\ w.file = g.file /\ w.off = g.off /\ g \in FileBuffer
        /\ g.mode = f.mode /\ g.buf_size = f.buf_size /\ g.reading = f.reading
        /\ g.pback = f.pback /\ g.taken = f.taken
    BY DEF WrittenTo, Only, Fields
  <1> PICK u : u = f.put \o s
    OBVIOUS
  <1>3. u \in Seq(Char) /\ Len(u) = Len(f.put) + Len(s)
    BY <1>1, Joined DEF IsJoin
  <1>4. IsOverlay(g.file, f.file, f.off, u) /\ g.off = f.off + Len(u)
    BY <1>2 DEF WrittenTo
  <1>a. Len(s) \in Nat /\ Len(f.put) \in Nat
    BY WriteFacts
  <1> PICK o \in Nat, p \in Nat, l \in Nat : o = f.off /\ p = Len(f.put) /\ l = Len(s)
    BY <1>1, <1>a
  <1>5. g.off = o + (p + l)
    BY <1>3, <1>4
  <1>6. g.off <= Len(g.file)
    <2> PICK m \in Nat : m = Len(f.file)
      BY WriteFacts
    <2>1. Len(g.file) = IF o + (p + l) < m THEN m ELSE o + (p + l)
      BY <1>3, <1>4 DEF IsOverlay
    <2> QED BY ONLY <1>5, <2>1, o \in Nat, p \in Nat, l \in Nat, m \in Nat
  <1>7. Len(g.get) = 0 /\ Len(g.pback) = 0 /\ g.off \in Nat
    <2>1. Len(<< >>) = 0
      OBVIOUS
    <2>2. g.off \in Nat
      BY ONLY <1>5, o \in Nat, p \in Nat, l \in Nat
    <2> QED BY <1>1, <1>2, <2>1, <2>2
  <1>8. Ranges(g)
    BY <1>1, <1>2, <1>6, <1>7 DEF Ranges
  <1>9. GetArea(g)
    BY <1>1, <1>2, <1>7 DEF GetArea
  <1>10. PutArea(g)
    BY <1>2 DEF PutArea
  <1>11. Good(g)
    BY <1>2, <1>8, <1>9, <1>10 DEF Good
  <1>12. Content(g) = g.file
    BY <1>11, Contents
  <1>13. IsOverlay(Content(g), Content(f), Pos(f), s)
    BY <1>4, <1>12, Behind
  <1>14. Pos(g) = g.off + 0
    <2>1. Pos(g) = g.off + Len(g.put) /\ Len(g.put) = 0
      BY <1>2, <1>11, WriteFacts
    <2> QED BY <2>1
  <1>15. Pos(g) = Pos(f) + Len(s)
    <2>1. Pos(f) = o + p
      BY <1>1
    <2> QED BY ONLY <1>14, <1>5, <2>1, l = Len(s), o \in Nat, p \in Nat, l \in Nat
  <1> QED BY <1>1, <1>2, <1>11, <1>13, <1>15 DEF Wrote

\* The put area, and s behind it, are written and the put area is empty.
LEMMA Flushed ==
  ASSUME NEW f, Good(f), ~f.reading, NEW s \in Seq(Char), NEW b,
         b = SetBuffer(FileWrite(f, f.put \o s), << >>, TRUE), NEW g,
         Only(g, b, {"writing"}), g.writing
  PROVE  Wrote(g, f, s) /\ g.put = << >>
  <1> PICK w : w = FileWrite(f, f.put \o s)
    OBVIOUS
  <1>1. f \in FileBuffer /\ f.put \in Seq(Char) /\ f.off <= Len(f.file)
    BY WriteFacts DEF Good
  <1>2. f.put \o s \in Seq(Char)
    BY <1>1
  <1>3. WrittenTo(w, f, f.put \o s)
    BY <1>1, <1>2, Written
  <1>4. w \in FileBuffer /\ << >> \in Seq(Char)
    BY <1>3 DEF WrittenTo, Only
  <1>5. /\ Only(b, w, {"get", "next", "put", "room"})
        /\ b.get = << >> /\ b.next = 0 /\ b.put = << >>
        /\ b.room = IF Out(w) /\ w.buf_size > 1 THEN w.buf_size - 1 ELSE 0
    <2> PICK r : r = IF Out(w) /\ w.buf_size > 1 THEN w.buf_size - 1 ELSE 0
      OBVIOUS
    <2>1. Buffered(b, w, << >>, r)
      BY <1>4, BufferOut
    <2> QED BY <2>1 DEF Buffered
  <1>6. /\ Only(g, w, {"get", "next", "put", "room", "writing"})
        /\ g.get = << >> /\ g.next = 0 /\ g.put = << >>
        /\ g.room = IF Out(w) /\ w.buf_size > 1 THEN w.buf_size - 1 ELSE 0
        /\ g.buf_size = w.buf_size /\ g.mode = w.mode
    BY <1>5 DEF Only, Fields
  <1>7. g.room \in {0, g.buf_size - 1} /\ (g.room > 0 => Out(g))
    BY <1>6 DEF Out
  <1> QED BY <1>3, <1>6, <1>7, Flush

\* g is f with s behind its put area, which has room for it.
LEMMA PutBehind ==
  ASSUME NEW f, Writes(f), NEW s \in Seq(Char), NEW g,
         Only(g, f, {"get", "next", "put", "room", "writing"}),
         g.get = << >>, g.next = 0, g.put = f.put \o s, g.writing,
         Len(g.put) <= g.room, g.room \in {0, g.buf_size - 1}
  PROVE  Wrote(g, f, s)
  <1>1. /\ Good(f) /\ ~f.reading /\ Out(f) /\ f.pback = << >> /\ f.taken = 0
        /\ f.put \in Seq(Char) /\ f.off \in Nat
        /\ Pos(f) = f.off + Len(f.put) /\ Pos(f) \in Nat
    BY WriteFacts DEF Writes
  <1>2. /\ g \in FileBuffer /\ g.file = f.file /\ g.off = f.off
        /\ g.mode = f.mode /\ g.buf_size = f.buf_size /\ g.reading = f.reading
        /\ g.pback = f.pback /\ g.taken = f.taken
    BY DEF Only, Fields
  <1>3. Len(g.get) = 0 /\ Len(g.pback) = 0
    BY <1>1, <1>2
  <1>4. Ranges(g)
    <2>1. f.off <= Len(f.file)
      BY <1>1 DEF Good, Ranges
    <2> QED BY <1>1, <1>2, <1>3, <2>1 DEF Ranges
  <1>5. GetArea(g)
    BY <1>1, <1>2, <1>3 DEF GetArea
  <1>6. PutArea(g)
    BY <1>1, <1>2 DEF PutArea, Out
  <1>7. Good(g)
    BY <1>2, <1>4, <1>5, <1>6 DEF Good
  <1>8. IsOverlay(Content(g), f.file, f.off, f.put \o s)
    BY <1>2, <1>7, Contents
  <1>9. IsOverlay(Content(g), Content(f), Pos(f), s)
    BY <1>1, <1>8, Behind
  <1>10. Pos(g) = f.off + Len(f.put \o s)
    BY <1>1, <1>2, <1>7, WriteFacts
  <1>11. Len(f.put \o s) = Len(f.put) + Len(s)
    BY <1>1, Joined DEF IsJoin
  <1>12. Pos(g) = Pos(f) + Len(s)
    <2> PICK o \in Nat, p \in Nat, l \in Nat : o = f.off /\ p = Len(f.put) /\ l = Len(s)
      <3>1. Len(s) \in Nat /\ Len(f.put) \in Nat
        BY <1>1
      <3> QED BY <1>1, <3>1
    <2>1. Pos(g) = o + (p + l) /\ Pos(f) = o + p
      BY <1>1, <1>10, <1>11
    <2>2. Pos(g) = Pos(f) + l
      BY ONLY <2>1, o \in Nat, p \in Nat, l \in Nat
    <2> QED BY <2>2
  <1> QED BY <1>1, <1>2, <1>7, <1>9, <1>12 DEF Wrote

\* overflow, with a character or to write what is in the put area.
LEMMA Overflows ==
  ASSUME NEW f, Writes(f), NEW s \in Seq(Char), Len(s) <= 1
  PROVE  /\ Wrote(Overflow(f, s), f, s)
         /\ f.put # << >> => Overflow(f, s).put = << >>
  <1>1. /\ Good(f) /\ ~f.reading /\ Out(f) /\ f \in FileBuffer /\ f.off <= Len(f.file)
        /\ f.get = << >> /\ f.next = 0 /\ f.put \in Seq(Char)
    BY WriteFacts DEF Writes, Good
  <1> PICK g : g = Overflow(f, s)
    OBVIOUS
  <1>2. CASE f.put # << >>
    <2> PICK b : b = SetBuffer(FileWrite(f, f.put \o s), << >>, TRUE)
      OBVIOUS
    <2>1. g = b
      BY <1>1, <1>2 DEF Overflow
    <2>2. f.put \o s \in Seq(Char)
      BY <1>1
    <2> PICK w : w = FileWrite(f, f.put \o s)
      OBVIOUS
    <2>3. WrittenTo(w, f, f.put \o s)
      BY <1>1, <2>2, Written
    <2>4. w \in FileBuffer /\ w.writing = f.writing
      BY <2>3 DEF WrittenTo, Only, Fields
    <2>5. b \in FileBuffer /\ b.writing = w.writing
      <3> PICK r : r = IF Out(w) /\ w.buf_size > 1 THEN w.buf_size - 1 ELSE 0
        OBVIOUS
      <3>1. Buffered(b, w, << >>, r)
        BY <2>4, BufferOut
      <3> QED BY <3>1 DEF Buffered, Only, Fields
    <2>6. f.writing
      BY <1>1, <1>2 DEF Good, PutArea
    <2>7. Only(b, b, {"writing"}) /\ b.writing
      BY <2>4, <2>5, <2>6 DEF Only
    <2> QED BY <1>1, <2>1, <2>7, Flushed
  <1>3. CASE f.put = << >> /\ f.buf_size > 1
    <2> PICK b : b = SetBuffer(f, << >>, TRUE)
      OBVIOUS
    <2>1. g = [b EXCEPT !.put = s, !.writing = TRUE]
      BY <1>1, <1>3 DEF Overflow
    <2> PICK r : r = IF Out(f) /\ f.buf_size > 1 THEN f.buf_size - 1 ELSE 0
      OBVIOUS
    <2>2. Buffered(b, f, << >>, r)
      BY <1>1, BufferOut
    <2>3. b \in FileBuffer
      BY <2>2 DEF Buffered, Only
    <2>4. Only(g, b, {"put", "writing"}) /\ g.put = s /\ g.writing = TRUE
      BY ONLY <2>1, <2>3, s \in Seq(Char) DEF FileBuffer, Only, Fields
    <2>5. /\ Only(g, f, {"get", "next", "put", "room", "writing"})
          /\ g.get = << >> /\ g.next = 0 /\ g.put = s /\ g.writing /\ g.room = r
          /\ g.buf_size = f.buf_size
      BY <2>2, <2>4 DEF Buffered, Only, Fields
    <2>6. f.put \o s = s
      BY <1>3, NothingFirst
    <2>7. Len(g.put) <= g.room /\ g.room \in {0, g.buf_size - 1}
      <3>1. r = f.buf_size - 1
        BY <1>1, <1>3
      <3>2. f.buf_size \in Nat /\ Len(s) \in Nat
        BY <1>1, Points DEF Pointers
      <3>3. Len(s) <= r
        BY ONLY <1>3, <3>1, <3>2, Len(s) <= 1
      <3> QED BY <2>5, <3>1, <3>3
    <2> QED BY <1>3, <2>5, <2>6, <2>7, PutBehind
  <1>4. CASE f.put = << >> /\ ~(f.buf_size > 1)
    <2> PICK w : w = FileWrite(f, s)
      OBVIOUS
    <2>1. g = [w EXCEPT !.writing = TRUE]
      BY <1>1, <1>4 DEF Overflow
    <2>2. WrittenTo(w, f, s)
      BY <1>1, Written
    <2>3. w \in FileBuffer
      BY <2>2 DEF WrittenTo, Only
    <2>4. Only(g, w, {"writing"}) /\ g.writing
      BY ONLY <2>1, <2>3 DEF FileBuffer, Only, Fields
    <2>5. f.put \o s = s
      BY <1>4, NothingFirst
    <2>6. /\ Only(g, w, {"get", "next", "put", "room", "writing"})
          /\ g.get = f.get /\ g.next = f.next /\ g.put = f.put /\ g.room = f.room
          /\ g.buf_size = f.buf_size /\ g.mode = f.mode
      BY <2>2, <2>4 DEF WrittenTo, Only, Fields
    <2>7. g.room \in {0, g.buf_size - 1} /\ (g.room > 0 => Out(g))
      BY <1>1, <2>6 DEF Good, Ranges, PutArea, Out
    <2>8. Wrote(g, f, s)
      <3>1. WrittenTo(w, f, f.put \o s)
        BY <2>2, <2>5
      <3> QED BY <1>1, <1>4, <2>4, <2>6, <2>7, <3>1, Flush
    <2> QED BY <1>4, <2>8
  <1> QED BY <1>2, <1>3, <1>4

\* One character: sputc.
LEMMA Sputs ==
  ASSUME NEW f, Writes(f), NEW c \in Char
  PROVE  Wrote(Sputc(f, c), f, <<c>>)
  <1>1. <<c>> \in Seq(Char) /\ Len(<<c>>) = 1
    OBVIOUS
  <1>2. Good(f) /\ ~f.reading /\ f \in FileBuffer /\ f.put \in Seq(Char)
    BY WriteFacts DEF Writes, Good
  <1>3. CASE Len(f.put) < f.room
    <2> PICK t : t = Append(f.put, c)
      OBVIOUS
    <2>1. t \in Seq(Char) /\ t = f.put \o <<c>> /\ Len(t) = Len(f.put) + 1
      <3> PICK p \in Seq(Char) : p = f.put
        BY <1>2
      <3>1. Append(p, c) \in Seq(Char) /\ Len(Append(p, c)) = Len(p) + 1
        BY ONLY p \in Seq(Char), c \in Char
      <3>2. Append(p, c) = p \o <<c>>
        BY ONLY p \in Seq(Char), c \in Char
      <3> QED BY <3>1, <3>2
    <2> PICK g : g = Sputc(f, c)
      OBVIOUS
    <2>2. g = [f EXCEPT !.put = t]
      BY <1>3 DEF Sputc
    <2>3. Only(g, f, {"put"}) /\ g.put = t
      BY ONLY <1>2, <2>1, <2>2 DEF FileBuffer, Only, Fields
    <2>4. f.get = << >> /\ f.next = 0 /\ f.room \in {0, f.buf_size - 1}
      BY <1>2, WriteFacts DEF Good, Ranges
    <2> PICK r \in Nat, p \in Nat : r = f.room /\ p = Len(f.put)
      BY <1>2 DEF FileBuffer
    <2>5. r > 0 /\ p + 1 <= r
      BY <1>3
    <2>6. f.writing
      BY <1>2, <2>5 DEF Good, PutArea
    <2>7. Len(g.put) <= g.room
      BY <2>1, <2>3, <2>5 DEF Only, Fields
    <2>8. /\ Only(g, f, {"get", "next", "put", "room", "writing"})
          /\ g.get = << >> /\ g.next = 0 /\ g.writing /\ g.room \in {0, g.buf_size - 1}
      BY <2>3, <2>4, <2>6 DEF Only, Fields
    <2> QED BY <1>1, <2>1, <2>3, <2>7, <2>8, PutBehind
  <1>4. CASE ~(Len(f.put) < f.room)
    <2> PICK s : s = <<c>>
      OBVIOUS
    <2>0. s \in Seq(Char) /\ Len(s) <= 1
      BY <1>1
    <2>1. Wrote(Overflow(f, s), f, s)
      BY <2>0, Overflows
    <2>2. Sputc(f, c) = Overflow(f, s)
      BY <1>4 DEF Sputc
    <2> QED BY <2>1, <2>2
  <1> QED BY <1>3, <1>4

\* An object that is not open for writing takes nothing.
LEMMA PutsNothing ==
  ASSUME NEW f, Good(f), ~Out(f)
  PROVE  /\ \A c : Sputc(f, c) = f
         /\ \A s : Overflow(f, s) = f
         /\ TerminateOutput(f) = f
  <1>1. \A s : Overflow(f, s) = f
    BY DEF Overflow
  <1>2. f.room \in Nat /\ Len(f.put) \in Nat /\ ~(f.room > 0)
    BY DEF Good, FileBuffer, PutArea
  <1>3. ~(Len(f.put) < f.room)
    BY ONLY <1>2
  <1> QED BY <1>1, <1>3 DEF Sputc, TerminateOutput

\* After writing s and then t both have been written.
LEMMA WroteTwice ==
  ASSUME NEW f, Writes(f), NEW s \in Seq(Char), NEW g, Wrote(g, f, s),
         NEW t \in Seq(Char), NEW h, Wrote(h, g, t)
  PROVE  Wrote(h, f, s \o t)
  <1>1. /\ Content(f) \in Seq(Char) /\ Pos(f) \in Nat /\ Pos(f) <= Len(Content(f))
    BY WriteFacts DEF Writes
  <1>2. /\ IsOverlay(Content(g), Content(f), Pos(f), s) /\ Pos(g) = Pos(f) + Len(s)
        /\ IsOverlay(Content(h), Content(g), Pos(g), t) /\ Pos(h) = Pos(g) + Len(t)
    BY DEF Wrote
  <1>3. IsOverlay(Content(h), Content(f), Pos(f), s \o t)
    <2>1. IsOverlay(Content(h), Content(g), Pos(f) + Len(s), t)
      BY <1>2
    <2> QED BY <1>1, <1>2, <2>1, OverlayTwice
  <1>4. Len(s \o t) = Len(s) + Len(t) /\ Len(s) \in Nat /\ Len(t) \in Nat
    OBVIOUS
  <1>5. Pos(h) = Pos(f) + Len(s \o t)
    BY ONLY <1>1, <1>2, <1>4
  <1>6. h.writing \/ (s \o t = << >> /\ h.writing = f.writing)
    <2>1. s = << >> /\ t = << >> => s \o t = << >>
      OBVIOUS
    <2>2. h.writing \/ (t = << >> /\ h.writing = g.writing)
      BY DEF Wrote
    <2>3. g.writing \/ (s = << >> /\ g.writing = f.writing)
      BY DEF Wrote
    <2> QED BY <2>1, <2>2, <2>3
  <1>7. /\ Good(h) /\ h.mode = f.mode /\ h.buf_size = f.buf_size
        /\ ~h.reading /\ h.pback = << >>
    BY DEF Wrote
  <1> QED BY <1>3, <1>5, <1>6, <1>7 DEF Wrote

\* Nothing written changes nothing.
LEMMA WroteNone ==
  ASSUME NEW f, Writes(f)
  PROVE  Wrote(f, f, << >>)
  <1>1. /\ Content(f) \in Seq(Char) /\ Pos(f) \in Nat /\ Pos(f) <= Len(Content(f))
        /\ Good(f) /\ ~f.reading /\ f.pback = << >>
    BY WriteFacts DEF Writes
  <1> PICK e : e = << >>
    OBVIOUS
  <1>2. e \in Seq(Char) /\ Len(e) = 0
    OBVIOUS
  <1> PICK p \in Nat, n \in Nat : p = Pos(f) /\ n = Len(Content(f)) /\ p <= n
    <2>1. Len(Content(f)) \in Nat
      BY <1>1
    <2> QED BY <1>1, <2>1
  <1>3. IsOverlay(Content(f), Content(f), Pos(f), e)
    <2>1. n = IF p + 0 < n THEN n ELSE p + 0
      BY ONLY p \in Nat, n \in Nat, p <= n
    <2>2. \A i \in 1 .. n : ~(p < i /\ i <= p + 0)
      BY ONLY p \in Nat, n \in Nat
    <2> QED BY <1>1, <1>2, <2>1, <2>2 DEF IsOverlay
  <1>4. Pos(f) = Pos(f) + Len(e)
    BY ONLY <1>1, <1>2
  <1> QED BY <1>1, <1>3, <1>4 DEF Wrote

\* A write can follow a write.
LEMMA StillWrites ==
  ASSUME NEW f, Writes(f), NEW s, NEW g, Wrote(g, f, s)
  PROVE  Writes(g)
  BY DEF Writes, Wrote, Out

\* The loop of basic_streambuf::xsputn, character by character.
LEMMA PutEachWrites ==
  ASSUME NEW f, Writes(f), NEW s \in Seq(Char)
  PROVE  Wrote(PutEach(f, s), f, s)
  <1> PICK d : Puts(d, f, s, Len(s)) /\ PutEach(f, s) = d[Len(s)]
    BY PutEachIs
  <1> PICK l \in Nat : l = Len(s)
    OBVIOUS
  <1>1. \A i \in 0 .. l : d[i] = IF i = 0 THEN f ELSE Sputc(d[i - 1], s[i])
    BY DEF Puts
  <1> DEFINE S == {k \in Nat : k <= l => Wrote(d[k], f, SubSeq(s, 1, k))}
  <1>2. 0 \in S
    <2>1. SubSeq(s, 1, 0) = << >> /\ d[0] = f
      BY <1>1
    <2> QED BY <2>1, WroteNone
  <1>3. ASSUME NEW k \in Nat, k \in S PROVE k + 1 \in S
    <2> SUFFICES ASSUME k + 1 <= l PROVE Wrote(d[k + 1], f, SubSeq(s, 1, k + 1))
      OBVIOUS
    <2>1. Wrote(d[k], f, SubSeq(s, 1, k))
      BY <1>3
    <2>2. k + 1 \in 0 .. l /\ k + 1 # 0 /\ k + 1 - 1 = k /\ k + 1 \in 1 .. Len(s)
      BY ONLY k \in Nat, l \in Nat, k + 1 <= l, l = Len(s)
    <2>3. d[k + 1] = Sputc(d[k], s[k + 1])
      BY <1>1, <2>2
    <2>4. s[k + 1] \in Char
      BY <2>2
    <2> PICK c \in Char : c = s[k + 1]
      BY <2>4
    <2> PICK t : t = <<c>>
      OBVIOUS
    <2>5. t \in Seq(Char)
      OBVIOUS
    <2>6. Writes(d[k])
      BY <2>1, StillWrites
    <2>7. Wrote(d[k + 1], d[k], t)
      BY <2>3, <2>6, Sputs
    <2>8. SubSeq(s, 1, k) \in Seq(Char) /\ SubSeq(s, 1, k + 1) = SubSeq(s, 1, k) \o t
      <3> PICK a : a = SubSeq(s, 1, k)
        OBVIOUS
      <3> PICK b : b = SubSeq(s, 1, k + 1)
        OBVIOUS
      <3>1. a \in Seq(Char) /\ Len(a) = k /\ \A i \in 1 .. k : a[i] = s[i]
        BY <2>2
      <3>2. b \in Seq(Char) /\ Len(b) = k + 1 /\ \A i \in 1 .. k + 1 : b[i] = s[i]
        BY <2>2
      <3> PICK u : u = a \o t
        OBVIOUS
      <3>3. u \in Seq(Char) /\ Len(u) = k + 1
        BY <2>5, <3>1
      <3>4. \A i \in 1 .. k + 1 : u[i] = s[i]
        BY <3>1
      <3>5. u = b
        BY <3>2, <3>3, <3>4, SameSeq
      <3> QED BY <3>1, <3>5
    <2> QED BY <2>1, <2>5, <2>7, <2>8, WroteTwice
  <1>4. l \in S
    <2> HIDE DEF S
    <2> QED BY <1>2, <1>3, Climb
  <1>5. SubSeq(s, 1, l) = s
    OBVIOUS
  <1>6. Wrote(d[l], f, SubSeq(s, 1, l))
    BY <1>4
  <1>7. PutEach(f, s) = d[l]
    OBVIOUS
  <1> HIDE DEF S
  <1> QED BY <1>5, <1>6, <1>7

\* An object that is not open for writing takes nothing, however often.
LEMMA PutEachNothing ==
  ASSUME NEW f, Good(f), ~Out(f), NEW s \in Seq(Char)
  PROVE  PutEach(f, s) = f
  <1> PICK d : Puts(d, f, s, Len(s)) /\ PutEach(f, s) = d[Len(s)]
    BY PutEachIs
  <1> PICK l \in Nat : l = Len(s)
    OBVIOUS
  <1>1. \A i \in 0 .. l : d[i] = IF i = 0 THEN f ELSE Sputc(d[i - 1], s[i])
    BY DEF Puts
  <1> DEFINE S == {k \in Nat : k <= l => d[k] = f}
  <1>2. 0 \in S
    BY <1>1
  <1>3. ASSUME NEW k \in Nat, k \in S PROVE k + 1 \in S
    <2> SUFFICES ASSUME k + 1 <= l PROVE d[k + 1] = f
      OBVIOUS
    <2>1. k + 1 \in 0 .. l /\ k + 1 # 0 /\ k + 1 - 1 = k
      BY ONLY k \in Nat, l \in Nat, k + 1 <= l
    <2>2. d[k + 1] = Sputc(d[k], s[k + 1]) /\ d[k] = f
      BY <1>1, <1>3, <2>1
    <2> QED BY <2>2, PutsNothing
  <1>4. l \in S
    <2> HIDE DEF S
    <2> QED BY <1>2, <1>3, Climb
  <1> QED BY <1>4

\* sputn: past the buffer, or character by character.
LEMMA XsputnWrites ==
  ASSUME NEW f, Writes(f), NEW s \in Seq(Char)
  PROVE  Wrote(Xsputn(f, s), f, s)
  <1>1. Good(f) /\ ~f.reading /\ f \in FileBuffer /\ f.off <= Len(f.file) /\ f.put \in Seq(Char)
    BY WriteFacts DEF Writes, Good
  <1> PICK b : b = SetBuffer(FileWrite(f, f.put \o s), << >>, TRUE)
    OBVIOUS
  <1> PICK g : g = [b EXCEPT !.writing = TRUE]
    OBVIOUS
  <1>2. Xsputn(f, s) \in {g, PutEach(f, s)}
    BY DEF Xsputn
  <1>3. Wrote(g, f, s)
    <2> PICK w : w = FileWrite(f, f.put \o s)
      OBVIOUS
    <2>1. f.put \o s \in Seq(Char)
      BY <1>1
    <2>2. WrittenTo(w, f, f.put \o s)
      BY <1>1, <2>1, Written
    <2>3. w \in FileBuffer
      BY <2>2 DEF WrittenTo, Only
    <2>4. b \in FileBuffer
      <3> PICK r : r = IF Out(w) /\ w.buf_size > 1 THEN w.buf_size - 1 ELSE 0
        OBVIOUS
      <3>1. Buffered(b, w, << >>, r)
        BY <2>3, BufferOut
      <3> QED BY <3>1 DEF Buffered, Only
    <2>5. Only(g, b, {"writing"}) /\ g.writing
      BY ONLY <2>4, g = [b EXCEPT !.writing = TRUE] DEF FileBuffer, Only, Fields
    <2> QED BY <1>1, <2>5, Flushed
  <1> QED BY <1>2, <1>3, PutEachWrites

\* The same for sputn.
LEMMA XsputnNothing ==
  ASSUME NEW f, Good(f), ~Out(f), NEW s \in Seq(Char)
  PROVE  Xsputn(f, s) = f
  BY PutEachNothing DEF Xsputn

-----------------------------------------------------------------------------
(* Positioning *)

\* g is f with the put area written to the file.
Terminated(g, f) ==
  /\ Good(g) /\ g.put = << >>
  /\ g.mode = f.mode /\ g.buf_size = f.buf_size
  /\ g.reading = f.reading /\ g.writing = f.writing
  /\ g.get = f.get /\ g.next = f.next /\ g.pback = f.pback /\ g.taken = f.taken
  /\ Content(g) = Content(f) /\ g.file = Content(f)
  /\ Pos(g) = Pos(f) /\ Over(g) = Over(f)

\* _M_terminate_output writes what is in the put area, and the program sees no change.
LEMMA Terminates ==
  ASSUME NEW f, Good(f)
  PROVE  Terminated(TerminateOutput(f), f)
  <1> PICK g : g = TerminateOutput(f)
    OBVIOUS
  <1>1. CASE f.put = << >>
    <2>1. g = f
      BY <1>1 DEF TerminateOutput
    <2>2. Content(f) = f.file
      BY <1>1, Contents
    <2> QED BY <1>1, <2>1, <2>2 DEF Terminated
  <1>2. CASE f.put # << >>
    <2>1. f.writing /\ Len(f.put) <= f.room /\ ~f.reading
      BY <1>2 DEF Good, PutArea, GetArea
    <2>2. Writes(f)
      <3>1. f.room \in Nat /\ Len(f.put) \in Nat /\ Len(f.put) # 0
        BY <1>2, Points DEF Pointers, Good, FileBuffer
      <3>2. f.room > 0
        BY ONLY <2>1, <3>1
      <3> QED BY <2>1, <3>2 DEF Writes, Good, PutArea
    <2> PICK e : e = << >>
      OBVIOUS
    <2>3. e \in Seq(Char) /\ Len(e) = 0
      OBVIOUS
    <2>4. g = Overflow(f, e)
      BY <1>2 DEF TerminateOutput
    <2>5. Wrote(g, f, e) /\ g.put = << >>
      <3>1. Len(e) <= 1
        BY <2>3
      <3> QED BY <1>2, <2>2, <2>3, <2>4, <3>1, Overflows
    <2>6. Wrote(f, f, e)
      BY <2>2, WroteNone
    <2>7. Content(g) = Content(f)
      <3>1. IsOverlay(Content(g), Content(f), Pos(f), e)
        BY <2>5 DEF Wrote
      <3>2. IsOverlay(Content(f), Content(f), Pos(f), e)
        BY <2>6 DEF Wrote
      <3> QED BY <3>1, <3>2, SameOverlay
    <2>8. Pos(g) = Pos(f)
      <3>1. Pos(g) = Pos(f) + Len(e) /\ Pos(f) = Pos(f) + Len(e)
        BY <2>5, <2>6 DEF Wrote
      <3> QED BY <3>1
    <2>9. /\ Good(g) /\ ~g.reading /\ g.mode = f.mode /\ g.buf_size = f.buf_size
          /\ g.writing
      BY <2>1, <2>5 DEF Wrote
    <2>10. /\ g.get = << >> /\ g.next = 0 /\ g.pback = << >> /\ g.taken = 0
      BY <2>9, WriteFacts
    <2>11. /\ f.get = << >> /\ f.next = 0 /\ f.pback = << >> /\ f.taken = 0
      BY <2>1, WriteFacts
    <2>12. Content(g) = g.file
      BY <2>5, <2>9, Contents
    <2>13. g.reading = f.reading /\ g.writing = f.writing
      <3>1. f.reading \in BOOLEAN /\ f.writing \in BOOLEAN
            /\ g.reading \in BOOLEAN /\ g.writing \in BOOLEAN
        BY <2>9 DEF Good, FileBuffer
      <3> QED BY <2>1, <2>9, <3>1
    <2>14. Over(g) = Over(f)
      BY <2>10, <2>11 DEF Over
    <2> QED BY <2>5, <2>7, <2>8, <2>9, <2>10, <2>11, <2>12, <2>13, <2>14 DEF Terminated
  <1> QED BY <1>1, <1>2

\* h is f with all in the file, nothing in the buffer and the file at x.
Sought(h, f, x) ==
  /\ Good(h) /\ h.mode = f.mode /\ h.buf_size = f.buf_size
  /\ Content(h) = Content(f) /\ h.file = Content(f)
  /\ Pos(h) = x /\ h.off = x
  /\ h.get = << >> /\ h.put = << >> /\ h.pback = << >>
  /\ ~h.reading /\ ~h.writing

\* _M_set_buffer(-1) and a move of the file to x.
LEMMA Unbuffered ==
  ASSUME NEW f, Good(f), f.put = << >>, f.pback = << >>, NEW x \in Nat, NEW h,
         Only(h, SetBuffer(f, << >>, FALSE), {"off", "reading", "writing"}),
         h.off = x, ~h.reading, ~h.writing
  PROVE  /\ h.file = f.file
         /\ x <= Len(f.file) => Sought(h, f, x)
  <1> PICK e : e = << >>
    OBVIOUS
  <1>1. e \in Seq(Char) /\ Len(e) = 0 /\ f \in FileBuffer
    BY DEF Good
  <1> PICK b : b = SetBuffer(f, e, FALSE)
    OBVIOUS
  <1>2. Buffered(b, f, e, 0)
    BY <1>1, BufferOff
  <1>5. Only(h, b, {"off", "reading", "writing"})
    OBVIOUS
  <1>6. /\ h \in FileBuffer /\ h.file = f.file /\ h.mode = f.mode
        /\ h.buf_size = f.buf_size /\ h.pback = f.pback /\ h.taken = f.taken
        /\ h.get = e /\ h.next = 0 /\ h.put = << >> /\ h.room = 0
        /\ h.off = x /\ ~h.reading /\ ~h.writing
    BY <1>2, <1>5 DEF Buffered, Only, Fields
  <1>7. ASSUME x <= Len(f.file) PROVE Sought(h, f, x)
    <2>a. Len(h.get) = 0
      BY <1>1, <1>6
    <2>1. Ranges(h)
      <3>1. f.taken <= Len(f.pback) /\ Len(f.pback) <= 1
        BY DEF Good, Ranges
      <3> QED BY ONLY <1>1, <1>6, <1>7, <2>a, <3>1, x \in Nat DEF Ranges
    <2>2. GetArea(h)
      <3>1. h.get = << >> /\ h.put = << >> /\ h.pback = << >> /\ Len(h.get) <= h.off
        BY ONLY <1>1, <1>6, <2>a, f.pback = << >>, x \in Nat
      <3>2. \A i \in 1 .. Len(h.get) : FALSE
        BY ONLY <2>a
      <3> QED BY ONLY <1>6, <3>1, <3>2 DEF GetArea
    <2>3. PutArea(h)
      <3>1. ~(h.room > 0)
        BY ONLY <1>6
      <3> QED BY ONLY <1>6, <3>1 DEF PutArea
    <2>4. Good(h)
      BY <1>6, <2>1, <2>2, <2>3 DEF Good
    <2>5. Content(h) = h.file /\ Content(f) = f.file
      BY <1>6, <2>4, Contents
    <2>6. Pos(h) = h.off + 0
      <3>1. Pos(h) = h.off + Len(h.put)
        BY <1>6, <2>4, WriteFacts
      <3> QED BY <1>1, <1>6, <3>1
    <2>7. Pos(h) = x
      BY ONLY <1>6, <2>6, x \in Nat
    <2> QED BY <1>1, <1>6, <2>4, <2>5, <2>7 DEF Sought
  <1> QED BY <1>6, <1>7

\* Where a seek goes.
To(f, o, way) ==
  o + (IF way = "beg" THEN 0 ELSE IF way = "cur" THEN Pos(f) ELSE Len(Content(f)))

\* After a seek by o, which has given r.
SeekTo(h, r, f, o, way) ==
  /\ To(f, o, way) \in Int
  /\ r = IF To(f, o, way) >= 0 THEN To(f, o, way) ELSE -1
  /\ h.file = Content(f)
  /\ To(f, o, way) <= Len(Content(f)) =>
       \E x \in 0 .. Len(Content(f)) :
         Sought(h, f, x) /\ (To(f, o, way) >= 0 => x = To(f, o, way))

\* seekoff goes where the program asked from where the program is.
LEMMA Seeks ==
  ASSUME NEW f, Good(f), NEW o \in Int, NEW way \in {"beg", "cur", "end"}
  PROVE  \E h, r : Seekoff(f, o, way) = <<h, r>> /\ SeekTo(h, r, f, o, way)
  <1> PICK d : d = DestroyPback(f)
    OBVIOUS
  <1> PICK g : g = TerminateOutput(d)
    OBVIOUS
  <1>1. /\ Stays(d, f) /\ d.reading = f.reading /\ d.pback = << >> /\ Pos(d) = Pos(f)
        /\ Only(d, f, {"next", "pback", "taken"})
    BY Dropped
  <1>2. Good(d) /\ Content(d) = Content(f) /\ d.mode = f.mode /\ d.buf_size = f.buf_size
    <2>1. d.file = f.file /\ d.off = f.off /\ d.put = f.put /\ Good(d)
          /\ d.mode = f.mode /\ d.buf_size = f.buf_size
      BY <1>1 DEF Stays, Only, Fields
    <2>2. IsOverlay(Content(d), d.file, d.off, d.put)
      BY <2>1, Contents
    <2>3. IsOverlay(Content(f), f.file, f.off, f.put)
      BY Contents
    <2>4. IsOverlay(Content(d), f.file, f.off, f.put)
      BY <2>1, <2>2
    <2>5. Content(d) = Content(f)
      BY <2>3, <2>4, SameOverlay
    <2> QED BY <2>1, <2>5
  <1>3. Terminated(g, d)
    BY <1>2, Terminates
  <1>4. /\ Good(g) /\ g.put = << >> /\ g.pback = << >> /\ g.file = Content(f)
        /\ Content(g) = Content(f) /\ Pos(g) = Pos(f)
        /\ g.mode = f.mode /\ g.buf_size = f.buf_size
        /\ g.get = d.get /\ g.next = d.next /\ g.reading = d.reading
    BY <1>1, <1>2, <1>3 DEF Terminated
  <1> PICK og \in Nat, gg \in Nat, n \in Nat, t \in Nat, p \in Nat :
           Numbers(g, og, gg, n, t, p)
    BY <1>4, Count
  <1>5. /\ og = g.off /\ gg = Len(g.get) /\ n = g.next /\ n <= gg /\ gg <= og
        /\ og <= Len(g.file) /\ Pos(g) = og - (gg - n) + t + p
    BY DEF Numbers
  <1>6. t = 0 /\ p = 0
    <2>1. t = 0
      BY <1>4 DEF Numbers
    <2>2. p = Len(g.put)
      BY DEF Numbers
    <2>3. Len(<< >>) = 0
      OBVIOUS
    <2> QED BY <1>4, <2>1, <2>2, <2>3
  <1> PICK m \in Nat : m = Len(Content(f))
    BY <1>4, Points DEF Pointers
  <1>7. Pos(f) = og - (gg - n) /\ Pos(f) \in Nat
    <2>1. Pos(f) = og - (gg - n) + t + p
      BY <1>4, <1>5
    <2>2. n <= gg /\ gg <= og
      BY <1>5
    <2>3. Pos(f) = og - (gg - n)
      BY ONLY <1>6, <2>1, og \in Nat, gg \in Nat, n \in Nat
    <2> QED BY ONLY <2>2, <2>3, og \in Nat, gg \in Nat, n \in Nat
  <1> PICK u : u = IF d.reading /\ way = "cur" THEN Len(d.get) - d.next ELSE 0
    OBVIOUS
  <1>8. u = IF g.reading /\ way = "cur" THEN gg - n ELSE 0
    BY <1>4, <1>5
  <1>9. ~g.reading => gg = 0 /\ n = 0
    <2>1. ~g.reading => g.get = << >> /\ g.next = 0
      BY <1>4, WriteFacts
    <2>2. Len(<< >>) = 0
      OBVIOUS
    <2> QED BY <1>5, <2>1, <2>2
  <1> PICK q : q = To(f, o, way)
    OBVIOUS
  <1>10. q \in Int /\ q = (o - u) + (IF way = "beg" THEN 0
                                     ELSE IF way = "cur" THEN g.off ELSE Len(g.file))
    <2>1. CASE way = "beg"
      <3>1. u = 0
        BY <1>8, <2>1
      <3>2. q = o + 0
        BY <2>1 DEF To
      <3>3. q \in Int /\ q = (o - u) + 0
        BY ONLY <3>1, <3>2, o \in Int
      <3> QED BY <2>1, <3>3
    <2>2. CASE way = "cur"
      <3>1. u = gg - n
        <4>1. CASE g.reading
          BY <1>8, <2>2, <4>1
        <4>2. CASE ~g.reading
          <5>1. u = 0 /\ gg = 0 /\ n = 0
            BY <1>8, <1>9, <4>2
          <5> QED BY ONLY <5>1
        <4> QED BY <4>1, <4>2
      <3>2. q = o + (og - (gg - n))
        BY <1>7, <2>2 DEF To
      <3>3. q \in Int /\ q = (o - u) + og
        BY ONLY <3>1, <3>2, o \in Int, og \in Nat, gg \in Nat, n \in Nat
      <3> QED BY <1>5, <2>2, <3>3
    <2>3. CASE way = "end"
      <3>1. u = 0
        BY <1>8, <2>3
      <3>2. q = o + m
        BY <2>3 DEF To
      <3>3. q \in Int /\ q = (o - u) + m
        BY ONLY <3>1, <3>2, o \in Int, m \in Nat
      <3> QED BY <1>4, <2>3, <3>3
    <2> QED BY <2>1, <2>2, <2>3
  <1> PICK x : x = IF q >= 0 THEN q ELSE g.off
    OBVIOUS
  <1>11. x \in Nat /\ (q <= m => x <= m) /\ (q >= 0 => x = q)
    <2>1. og <= m
      BY <1>4, <1>5
    <2>2. x = IF q >= 0 THEN q ELSE og
      BY <1>5
    <2> QED BY ONLY <1>10, <2>1, <2>2, og \in Nat, m \in Nat
  <1> PICK h : h = [SetBuffer(g, << >>, FALSE) EXCEPT !.off = x, !.reading = FALSE,
                                                      !.writing = FALSE]
    OBVIOUS
  <1>12. h.file = g.file /\ (x <= Len(g.file) => Sought(h, g, x))
    <2> PICK e : e = << >>
      OBVIOUS
    <2> PICK b : b = SetBuffer(g, e, FALSE)
      OBVIOUS
    <2>1. e \in Seq(Char) /\ g \in FileBuffer
      BY <1>4 DEF Good
    <2>2. Buffered(b, g, e, 0)
      BY <2>1, BufferOff
    <2> PICK no \in BOOLEAN : no = FALSE
      OBVIOUS
    <2>3. b \in FileBuffer /\ x \in Nat
      BY <1>11, <2>2 DEF Buffered, Only
    <2>4. h = [b EXCEPT !.off = x, !.reading = no, !.writing = no]
      OBVIOUS
    <2>5. /\ Only(h, b, {"off", "reading", "writing"})
          /\ h.off = x /\ h.reading = no /\ h.writing = no
      BY ONLY <2>3, <2>4, no \in BOOLEAN DEF FileBuffer, Only, Fields
    <2>6. /\ Good(g) /\ g.put = << >> /\ g.pback = << >> /\ x \in Nat
          /\ Only(h, SetBuffer(g, << >>, FALSE), {"off", "reading", "writing"})
          /\ h.off = x /\ ~h.reading /\ ~h.writing
      BY <1>4, <1>11, <2>5
    <2> QED BY ONLY <2>6, Unbuffered
  <1> PICK r : r = IF q >= 0 THEN q ELSE -1
    OBVIOUS
  <1>13. Seekoff(f, o, way) = <<h, r>>
    <2>1. Seekoff(f, o, way) = Seek(d, o - u, way)
      BY DEF Seekoff
    <2> PICK v : v = o - u
      OBVIOUS
    <2>2. SetBuffer(g, << >>, FALSE).off = g.off
      <3> PICK e : e = << >>
        OBVIOUS
      <3>1. e \in Seq(Char) /\ g \in FileBuffer
        BY <1>4 DEF Good
      <3>2. Buffered(SetBuffer(g, e, FALSE), g, e, 0)
        BY <3>1, BufferOff
      <3> QED BY <3>2 DEF Buffered, Only, Fields
    <2>3. q = v + (IF way = "beg" THEN 0
                   ELSE IF way = "cur" THEN g.off ELSE Len(g.file))
      BY <1>10
    <2> PICK b : b = SetBuffer(g, << >>, FALSE)
      OBVIOUS
    <2>4. Seek(d, v, way) =
            << [b EXCEPT !.off = IF q >= 0 THEN q ELSE @, !.reading = FALSE,
                         !.writing = FALSE], r >>
      BY <2>3 DEF Seek
    <2>5. (IF q >= 0 THEN q ELSE b.off) = x
      BY <2>2
    <2>6. [b EXCEPT !.off = IF q >= 0 THEN q ELSE @, !.reading = FALSE, !.writing = FALSE] = h
      BY <2>5
    <2> QED BY <2>1, <2>4, <2>6
  <1>14. SeekTo(h, r, f, o, way)
    <2>1. q <= m => x \in 0 .. m /\ Sought(h, f, x)
      <3> SUFFICES ASSUME q <= m PROVE x \in 0 .. m /\ Sought(h, f, x)
        OBVIOUS
      <3>1. x <= m /\ x \in 0 .. m
        BY <1>11
      <3>2. Sought(h, g, x)
        BY <1>4, <1>12, <3>1
      <3> QED BY <1>4, <3>1, <3>2 DEF Sought
    <2> QED BY <1>4, <1>10, <1>11, <1>12, <2>1 DEF SeekTo
  <1> QED BY <1>13, <1>14

-----------------------------------------------------------------------------
(* Putting back *)

\* g is f one character before, with that character the next.
BackOne(g, f) ==
  /\ Good(g) /\ g.mode = f.mode /\ g.buf_size = f.buf_size
  /\ Content(g) = Content(f) /\ Pos(f) > 0 /\ Pos(g) = Pos(f) - 1
  /\ g.reading /\ ~g.writing /\ g.put = << >> /\ HasNext(g)
  /\ MayForget(g, f)
  /\ f.pback = << >> => g.pback = << >>

\* An object that is read has nothing in its put area.
LEMMA NoPut ==
  ASSUME NEW f, Good(f), In(f), ~f.writing
  PROVE  /\ f.put = << >> /\ Content(f) = f.file
         /\ Pos(f) \in Nat /\ Pos(f) <= Len(f.file) /\ Len(f.file) \in Nat
  <1>1. f.put = << >>
    BY DEF Good, PutArea
  <1> QED BY <1>1, Contents, PosIn

\* In the get area, or in the character put back.
LEMMA BackInArea ==
  ASSUME NEW f, Good(f), In(f), ~f.writing, HasLast(f)
  PROVE  BackOne(Bump(f, -1), f)
  <1> PICK g : g = Bump(f, -1)
    OBVIOUS
  <1> PICK d : d = -1
    OBVIOUS
  <1>1. /\ Stays(g, f) /\ g.reading = f.reading /\ Pos(g) = Pos(f) + d
        /\ Over(g) = Over(f) /\ HasNext(g)
    BY Bumped
  <1>2. /\ Good(g) /\ g.file = f.file /\ g.mode = f.mode /\ g.buf_size = f.buf_size
        /\ g.writing = f.writing /\ g.put = f.put
    BY <1>1 DEF Stays
  <1>3. f.put = << >> /\ Content(f) = f.file /\ Pos(f) \in Nat
    BY NoPut
  <1>4. Content(g) = g.file /\ Pos(g) \in Nat
    BY <1>2, NoPut DEF In
  <1>5. f.reading
    BY Readable
  <1>6. Pos(f) > 0 /\ Pos(g) = Pos(f) - 1
    BY ONLY <1>1, <1>3, <1>4, d = -1
  <1>7. MayForget(g, f)
    BY <1>1 DEF MayForget
  <1>8. f.pback = << >> => g.pback = << >>
    <2>1. Over(f) = << >> => f.pback = << >>
      BY OverNone
    <2>2. f.pback = << >> => Over(f) = << >>
      BY OverNone
    <2>3. Over(g) = << >> => g.pback = << >>
      BY OverNone
    <2> QED BY <1>1, <2>2, <2>3
  <1> QED BY <1>1, <1>2, <1>3, <1>4, <1>5, <1>6, <1>7, <1>8 DEF BackOne

\* By a seek and a read.
LEMMA BackInFile ==
  ASSUME NEW f, Good(f), In(f), ~f.writing, ~HasLast(f), NEW h, NEW r,
         Seekoff(f, -1, "cur") = <<h, r>>
  PROVE  /\ r = -1 => /\ Pos(f) = 0
                      /\ \E x \in 0 .. Len(Content(f)) : Sought(h, f, x)
         /\ r # -1 => BackOne(Underflow(h), f)
  <1> PICK way \in {"beg", "cur", "end"} : way = "cur"
    OBVIOUS
  <1> PICK d \in Int : d = -1
    OBVIOUS
  <1>1. SeekTo(h, r, f, d, way)
    <2>1. \E g, q : Seekoff(f, d, way) = <<g, q>> /\ SeekTo(g, q, f, d, way)
      BY Seeks
    <2> PICK g, q : Seekoff(f, d, way) = <<g, q>> /\ SeekTo(g, q, f, d, way)
      BY <2>1
    <2>2. <<g, q>> = <<h, r>>
      OBVIOUS
    <2>3. g = h /\ q = r
      BY ONLY <2>2
    <2> QED BY <2>3
  <1>2. /\ f.put = << >> /\ Content(f) = f.file
        /\ Pos(f) \in Nat /\ Pos(f) <= Len(f.file) /\ Len(f.file) \in Nat
    BY NoPut
  <1> PICK p \in Nat, m \in Nat : p = Pos(f) /\ m = Len(f.file) /\ p <= m
    BY <1>2
  <1>3. To(f, d, way) = p - 1
    <2>1. To(f, d, way) = d + p
      BY DEF To
    <2> QED BY ONLY <2>1, d = -1, p \in Nat
  <1> PICK q : q = p - 1
    OBVIOUS
  <1>4. /\ r = IF q >= 0 THEN q ELSE -1
        /\ q <= m => \E x \in 0 .. m : Sought(h, f, x) /\ (q >= 0 => x = q)
    BY <1>1, <1>2, <1>3 DEF SeekTo
  <1>5. q <= m
    BY ONLY p \in Nat, m \in Nat, p <= m, q = p - 1
  <1> PICK x \in 0 .. m : Sought(h, f, x) /\ (q >= 0 => x = q)
    BY <1>4, <1>5
  <1>6. (r = -1 => p = 0) /\ (r # -1 => p > 0 /\ q >= 0)
    BY ONLY <1>4, p \in Nat, q = p - 1
  <1>7. ASSUME r # -1 PROVE BackOne(Underflow(h), f)
    <2>1. x = p - 1 /\ p > 0
      BY <1>6, <1>7
    <2>2. /\ Good(h) /\ h.mode = f.mode /\ h.buf_size = f.buf_size
          /\ h.file = Content(f) /\ Pos(h) = x
          /\ h.get = << >> /\ h.put = << >> /\ h.pback = << >> /\ ~h.writing
      BY DEF Sought
    <2>3. ~HasNext(h) /\ In(h)
      <3>1. In(h)
        BY <2>2 DEF In
      <3>2. h.next = 0 /\ Len(h.get) = 0
        BY <2>2, Points DEF Pointers
      <3> QED BY <2>2, <3>1, <3>2 DEF HasNext
    <2> PICK g : g = Underflow(h)
      OBVIOUS
    <2>4. Reached(g, h) /\ g.pback = << >>
      BY <2>2, <2>3, Underflows
    <2>5. /\ Stays(g, h) /\ Pos(g) = x /\ (g.reading <=> HasNext(g))
          /\ (HasNext(g) <=> x < Len(h.file))
      BY <2>2, <2>4 DEF Reached
    <2>6. x < m
      BY ONLY <2>1, p \in Nat, m \in Nat, p <= m
    <2>7. HasNext(g) /\ g.reading
      BY <1>2, <2>2, <2>5, <2>6
    <2>8. /\ Good(g) /\ g.file = f.file /\ g.mode = f.mode /\ g.buf_size = f.buf_size
          /\ ~g.writing /\ g.put = << >>
      BY <1>2, <2>2, <2>5 DEF Stays
    <2>9. Content(g) = Content(f)
      BY <1>2, <2>8, Contents
    <2>10. MayForget(g, f)
      <3>1. Over(g) = << >>
        BY <2>4, OverNone
      <3>2. ~(Over(f) # << >> /\ Over(f)[1] = Pos(g))
        <4> SUFFICES ASSUME Over(f) # << >>, Over(f)[1] = x PROVE FALSE
          BY <2>5
        <4>1. f.pback # << >> /\ Over(f) = <<Start(f), f.pback[1]>>
          BY DEF Over
        <4>2. Start(f) = x
          BY <4>1
        <4> PICK o \in Nat, gg \in Nat, j \in Nat, t \in Nat, k \in Nat :
                 Numbers(f, o, gg, j, t, k)
          BY Count
        <4>3. Start(f) = o - (gg - j) /\ p = o - (gg - j) + t + k /\ t \in {0, 1}
          BY DEF Numbers
        <4>4. ~(t > 0)
          BY <4>1 DEF HasLast, Numbers
        <4>5. k = 0
          <5>1. k = Len(f.put)
            BY DEF Numbers
          <5>2. Len(<< >>) = 0
            OBVIOUS
          <5> QED BY <1>2, <5>1, <5>2
        <4> QED BY ONLY <2>1, <4>2, <4>3, <4>4, <4>5, o \in Nat, gg \in Nat, j \in Nat,
                   t \in Nat, p \in Nat
      <3> QED BY <3>1, <3>2 DEF MayForget
    <2>11. Pos(f) > 0 /\ Pos(g) = Pos(f) - 1
      BY <2>1, <2>5
    <2> QED BY <2>4, <2>7, <2>8, <2>9, <2>10, <2>11 DEF BackOne
  <1>8. r = -1 => /\ Pos(f) = 0
                  /\ \E y \in 0 .. Len(Content(f)) : Sought(h, f, y)
    BY <1>2, <1>6
  <1> QED BY <1>7, <1>8

\* What sungetc and sputbackc do to an object that is read.
Backed(h, ok, f) ==
  /\ Good(h) /\ h.mode = f.mode /\ h.buf_size = f.buf_size /\ Content(h) = Content(f)
  /\ h.put = << >> /\ ~h.writing
  /\ \/ /\ ok = TRUE /\ Pos(f) > 0 /\ Pos(h) = Pos(f) - 1 /\ h.reading
        /\ \/ MayForget(h, f)
           \/ Over(f) = << >> /\ \E c \in Char : Over(h) = <<Pos(h), c>>
     \/ /\ ok = FALSE /\ Pos(f) > 0 /\ Pos(h) = Pos(f) - 1 /\ h.reading
        /\ Over(f) # << >> /\ MayForget(h, f)
     \/ /\ ok = FALSE /\ Pos(f) = 0 /\ Pos(h) \in 0 .. Len(Content(f)) /\ ~h.reading
        /\ Over(h) = << >>

\* The character before is replaced by another.
LEMMA PutBack ==
  ASSUME NEW f, f.pback = << >>, NEW g, BackOne(g, f), NEW c \in Char, NEW h,
         h = [g EXCEPT !.pback = <<c>>, !.taken = 0, !.reading = TRUE]
  PROVE  Backed(h, TRUE, f)
  <1>1. /\ Good(g) /\ g.mode = f.mode /\ g.buf_size = f.buf_size
        /\ Content(g) = Content(f) /\ Pos(f) > 0 /\ Pos(g) = Pos(f) - 1
        /\ g.reading /\ ~g.writing /\ g.put = << >> /\ HasNext(g) /\ g.pback = << >>
    BY DEF BackOne
  <1> PICK s : s = <<c>>
    OBVIOUS
  <1>2. s \in Seq(Char) /\ Len(s) = 1 /\ s[1] = c /\ s # << >>
    OBVIOUS
  <1>3. g \in FileBuffer
    BY <1>1 DEF Good
  <1> PICK yes \in BOOLEAN : yes = TRUE
    OBVIOUS
  <1>4. h = [g EXCEPT !.pback = s, !.taken = 0, !.reading = yes]
    OBVIOUS
  <1>5. Only(h, g, {"pback", "taken", "reading"}) /\ h.pback = s /\ h.taken = 0 /\ h.reading = yes
    BY ONLY <1>2, <1>3, <1>4, yes \in BOOLEAN DEF FileBuffer, Only, Fields
  <1>6. /\ h \in FileBuffer /\ h.file = g.file /\ h.off = g.off /\ h.mode = g.mode
        /\ h.buf_size = g.buf_size /\ h.get = g.get /\ h.next = g.next /\ h.put = g.put
        /\ h.room = g.room /\ h.reading /\ h.writing = g.writing
        /\ h.pback = s /\ h.taken = 0
    BY <1>5 DEF Only, Fields
  <1>7. g.taken = 0 /\ g.next < Len(g.get) /\ g.next \in Nat /\ Len(g.get) \in Nat
    BY <1>1, Points DEF Pointers, HasNext
  <1>8. Good(h)
    <2>1. Ranges(h)
      <3>1. g.off <= Len(g.file) /\ g.next <= Len(g.get) /\ g.room \in {0, g.buf_size - 1}
        BY <1>1 DEF Good, Ranges
      <3>2. Len(h.pback) <= 1 /\ h.taken <= Len(h.pback)
        <4>1. Len(h.pback) = 1 /\ h.taken = 0
          BY <1>2, <1>6
        <4> PICK n \in Nat, t \in Nat : n = Len(h.pback) /\ t = h.taken
          BY <4>1
        <4>2. n <= 1 /\ t <= n
          BY <4>1
        <4> QED BY <4>2
      <3> QED BY ONLY <1>6, <3>1, <3>2 DEF Ranges
    <2>2. GetArea(h)
      <3>1. GetArea(g)
        BY <1>1 DEF Good
      <3> QED BY ONLY <1>1, <1>6, <1>7, <3>1 DEF GetArea, In, BufLen
    <2>3. PutArea(h)
      <3>1. PutArea(g)
        BY <1>1 DEF Good
      <3> QED BY ONLY <1>1, <1>6, <3>1 DEF PutArea, Out
    <2> QED BY <1>6, <2>1, <2>2, <2>3 DEF Good
  <1>9. Content(h) = Content(g)
    <2>1. Content(h) = h.file
      BY <1>1, <1>6, <1>8, Contents
    <2>2. Content(g) = g.file
      BY <1>1, Contents
    <2> QED BY <1>6, <2>1, <2>2
  <1>10. Start(h) = Start(g) /\ Pos(h) = Pos(g)
    BY <1>6, <1>7 DEF Start, Pos
  <1>11. Pos(h) = Start(h)
    <2> PICK o \in Nat, gg \in Nat, j \in Nat, t \in Nat, k \in Nat :
             Numbers(h, o, gg, j, t, k)
      BY <1>8, Count
    <2>1. Start(h) = o - (gg - j) /\ Pos(h) = o - (gg - j) + t + k /\ t = h.taken /\ k = Len(h.put)
      BY DEF Numbers
    <2>2. t = 0 /\ k = 0
      <3>1. Len(<< >>) = 0
        OBVIOUS
      <3> QED BY <1>1, <1>6, <2>1, <3>1
    <2> QED BY ONLY <2>1, <2>2, o \in Nat, gg \in Nat, j \in Nat
  <1>12. Over(h) = <<Pos(h), c>> /\ Over(f) = << >>
    BY <1>2, <1>6, <1>11 DEF Over
  <1> QED BY <1>1, <1>6, <1>8, <1>9, <1>10, <1>12 DEF Backed

\* After going back by one: the character there is kept, replaced, or is not
\* what was to be put back.
LEMMA BackOutcome ==
  ASSUME NEW f, NEW g, BackOne(g, f)
  PROVE  /\ Backed(g, TRUE, f)
         /\ f.pback # << >> => Backed(g, FALSE, f)
  <1>1. Over(f) = << >> => f.pback = << >>
    BY OverNone
  <1> QED BY <1>1 DEF BackOne, Backed

\* pbackfail keeps the character there, replaces it, or fails.
LEMMA Pbackfails ==
  ASSUME NEW f, Good(f), In(f), ~f.writing, NEW s,
         \/ s = << >>
         \/ \E c \in Char : s = <<c>>
  PROVE  \E h, ok : Pbackfail(f, s) = <<h, ok>> /\ Backed(h, ok, f)
  <1> PICK way \in {"beg", "cur", "end"} : way = "cur"
    OBVIOUS
  <1> PICK d \in Int : d = -1
    OBVIOUS
  <1> PICK k, r : Seekoff(f, d, way) = <<k, r>>
    <2>1. \E g, q : Seekoff(f, d, way) = <<g, q>> /\ SeekTo(g, q, f, d, way)
      BY Seeks
    <2> QED BY <2>1
  <1> PICK v : v = Seekoff(f, -1, "cur")
    OBVIOUS
  <1>1. v = <<k, r>> /\ v[1] = k /\ v[2] = r
    OBVIOUS
  <1> PICK g : g = IF HasLast(f) THEN Bump(f, -1) ELSE Underflow(k)
    OBVIOUS
  <1> PICK h : h = [g EXCEPT !.pback = s, !.taken = 0, !.reading = TRUE]
    OBVIOUS
  <1> PICK w : w = Pbackfail(f, s)
    OBVIOUS
  <1>2. w = IF ~HasLast(f) /\ r = -1 THEN <<k, FALSE>>
            ELSE IF ~HasNext(g) THEN <<g, FALSE>>
            ELSE IF s = << >> \/ s = <<NextChar(g)>> THEN <<g, TRUE>>
            ELSE IF f.pback = << >> THEN <<h, TRUE>>
            ELSE <<g, FALSE>>
    BY <1>1 DEF Pbackfail
  <1>3. CASE ~HasLast(f) /\ r = -1
    <2>1. w = <<k, FALSE>>
      BY <1>2, <1>3
    <2>2. Pos(f) = 0 /\ \E x \in 0 .. Len(Content(f)) : Sought(k, f, x)
      BY <1>1, <1>3, BackInFile
    <2> PICK x \in 0 .. Len(Content(f)) : Sought(k, f, x)
      BY <2>2
    <2>3. /\ Good(k) /\ k.mode = f.mode /\ k.buf_size = f.buf_size
          /\ Content(k) = Content(f) /\ Pos(k) = x /\ k.put = << >> /\ k.pback = << >>
          /\ ~k.reading /\ ~k.writing
      BY DEF Sought
    <2>4. Over(k) = << >>
      BY <2>3, OverNone
    <2>5. Backed(k, FALSE, f)
      BY <2>2, <2>3, <2>4 DEF Backed
    <2> QED BY <2>1, <2>5
  <1>4. CASE HasLast(f) \/ r # -1
    <2>1. BackOne(g, f)
      BY <1>1, <1>4, BackInArea, BackInFile
    <2>2. HasNext(g)
      BY <2>1 DEF BackOne
    <2>3. Backed(g, TRUE, f) /\ (f.pback # << >> => Backed(g, FALSE, f))
      BY <2>1, BackOutcome
    <2>4. s # << >> /\ f.pback = << >> => Backed(h, TRUE, f)
      BY <2>1, PutBack
    <2>5. CASE s = << >> \/ s = <<NextChar(g)>>
      <3>1. w = <<g, TRUE>>
        BY <1>2, <1>4, <2>2, <2>5
      <3> QED BY <2>3, <3>1
    <2>6. CASE ~(s = << >> \/ s = <<NextChar(g)>>) /\ f.pback = << >>
      <3>1. w = <<h, TRUE>>
        BY <1>2, <1>4, <2>2, <2>6
      <3> QED BY <2>4, <2>6, <3>1
    <2>7. CASE ~(s = << >> \/ s = <<NextChar(g)>>) /\ f.pback # << >>
      <3>1. w = <<g, FALSE>>
        BY <1>2, <1>4, <2>2, <2>7
      <3> QED BY <2>3, <2>7, <3>1
    <2> QED BY <2>5, <2>6, <2>7
  <1> QED BY <1>3, <1>4

-----------------------------------------------------------------------------
(* One character *)

\* A character put back is not ahead of the program.
LEMMA OverBehind ==
  ASSUME NEW f, Good(f)
  PROVE  Over(f) # << >> => Over(f)[1] <= Pos(f) /\ Over(f)[1] \in Nat
  <1> SUFFICES ASSUME Over(f) # << >> PROVE Over(f)[1] <= Pos(f) /\ Over(f)[1] \in Nat
    OBVIOUS
  <1>1. Over(f) = <<Start(f), f.pback[1]>>
    BY DEF Over
  <1>2. Over(f)[1] = Start(f)
    BY <1>1
  <1> PICK o \in Nat, g \in Nat, n \in Nat, t \in Nat, p \in Nat : Numbers(f, o, g, n, t, p)
    BY Count
  <1>3. Start(f) = o - (g - n) /\ Pos(f) = o - (g - n) + t + p /\ g <= o
    BY DEF Numbers
  <1>4. Start(f) <= Pos(f) /\ Start(f) \in Nat
    BY ONLY <1>3, o \in Nat, g \in Nat, n \in Nat, t \in Nat, p \in Nat
  <1> QED BY <1>2, <1>4

\* The next character, or nothing at the end of the file.
NextOf(f) == IF HasNext(Sgetc(f)) THEN <<NextChar(Sgetc(f))>> ELSE << >>

\* g is f at the same place, and the next character is s.
PeekTo(g, s, f) ==
  /\ Stays(g, f) /\ MayForget(g, f) /\ Pos(g) = Pos(f)
  /\ s \in Seq(Char) /\ Len(s) = Left(f, 1)
  /\ \A i \in 1 .. Left(f, 1) : s[i] = View(f, Pos(f) + i - 1)
  /\ g.reading <=> Left(f, 1) = 1

\* sgetc, by what the program sees.
LEMMA Sgets ==
  ASSUME NEW f, Good(f), In(f), ~f.writing
  PROVE  PeekTo(Sgetc(f), NextOf(f), f) /\ (HasNext(Sgetc(f)) <=> Left(f, 1) = 1)
  <1> PICK g : g = Sgetc(f)
    OBVIOUS
  <1>1. Reached(g, f) /\ MayForget(g, f) /\ (HasNext(g) => NextChar(g) = View(f, Pos(f)))
    BY Peeked
  <1>2. /\ Stays(g, f) /\ Pos(g) = Pos(f) /\ (g.reading <=> HasNext(g))
        /\ (HasNext(g) <=> Pos(f) < Len(f.file))
    BY <1>1 DEF Reached
  <1> PICK p \in Nat, m \in Nat : p = Pos(f) /\ m = Len(f.file) /\ p <= m
    BY NoPut
  <1>3. HasNext(g) <=> p < m
    BY <1>2
  <1> PICK l \in Nat : l = IF 1 < m - p THEN 1 ELSE m - p
    OBVIOUS
  <1>4. Left(f, 1) = l
    BY DEF Left
  <1>5. (p < m => l = 1) /\ (~(p < m) => l = 0)
    BY ONLY p \in Nat, m \in Nat, p <= m, l = IF 1 < m - p THEN 1 ELSE m - p
  <1> PICK s : s = NextOf(f)
    OBVIOUS
  <1>6. /\ s \in Seq(Char) /\ Len(s) = l
        /\ \A i \in 1 .. l : s[i] = View(f, Pos(f) + i - 1)
    <2>1. CASE HasNext(g)
      <3>1. NextChar(g) \in Char
        BY <1>2, <2>1, ViewNext DEF Stays
      <3> PICK c \in Char : c = NextChar(g)
        BY <3>1
      <3>2. s = <<c>>
        BY <2>1 DEF NextOf
      <3>3. s \in Seq(Char) /\ Len(s) = 1 /\ s[1] = c
        BY ONLY <3>2, c \in Char
      <3>4. \A i \in 1 .. 1 : i = 1 /\ p + i - 1 = p
        BY ONLY p \in Nat
      <3>5. c = View(f, Pos(f))
        BY <1>1, <2>1
      <3> QED BY <1>3, <1>5, <2>1, <3>3, <3>4, <3>5
    <2>2. CASE ~HasNext(g)
      <3>1. s = << >>
        BY <2>2 DEF NextOf
      <3>2. s \in Seq(Char) /\ Len(s) = 0 /\ l = 0
        BY <1>3, <1>5, <2>2, <3>1
      <3>3. \A i \in 1 .. l : FALSE
        BY <3>2
      <3> QED BY <3>2, <3>3
    <2> QED BY <2>1, <2>2
  <1>7. HasNext(g) <=> l = 1
    BY <1>3, <1>5
  <1> QED BY <1>1, <1>2, <1>4, <1>6, <1>7 DEF PeekTo

\* sbumpc, by what the program sees.
LEMMA Sbumps ==
  ASSUME NEW f, Good(f), In(f), ~f.writing
  PROVE  ReadTo(Sbumpc(f), NextOf(f), f, 1)
  <1> PICK g : g = Sgetc(f)
    OBVIOUS
  <1> PICK s : s = NextOf(f)
    OBVIOUS
  <1> PICK l : l = Left(f, 1)
    OBVIOUS
  <1>1. PeekTo(g, s, f) /\ (HasNext(g) <=> l = 1)
    BY Sgets
  <1>2. /\ Stays(g, f) /\ MayForget(g, f) /\ Pos(g) = Pos(f)
        /\ s \in Seq(Char) /\ Len(s) = l
        /\ \A i \in 1 .. l : s[i] = View(f, Pos(f) + i - 1)
        /\ (g.reading <=> l = 1)
    BY <1>1 DEF PeekTo
  <1>3. Pos(f) \in Nat
    BY NoPut
  <1>4. CASE HasNext(g)
    <2> PICK d : d = 1
      OBVIOUS
    <2> PICK h : h = Bump(g, d)
      OBVIOUS
    <2>1. Sbumpc(f) = h
      BY <1>4 DEF Sbumpc
    <2>2. Good(g)
      BY <1>2 DEF Stays
    <2>3. Stays(h, g) /\ h.reading = g.reading /\ Pos(h) = Pos(g) + d /\ Over(h) = Over(g)
      BY <1>4, <2>2, Bumped
    <2>4. Stays(h, f)
      BY <1>2, <2>3 DEF Stays
    <2>5. Pos(h) = Pos(f) + l
      BY <1>1, <1>2, <1>4, <2>3
    <2>6. MayForget(h, f)
      <3>1. Over(g) \in {Over(f), << >>}
        BY <1>2 DEF MayForget
      <3>2. ~(Over(f) # << >> /\ Over(f)[1] = Pos(h))
        <4> SUFFICES ASSUME Over(f) # << >>, Over(f)[1] = Pos(h) PROVE FALSE
          OBVIOUS
        <4>1. Pos(h) <= Pos(f)
          BY OverBehind
        <4>2. Pos(h) = Pos(f) + 1
          BY <1>2, <2>3
        <4> QED BY ONLY <1>3, <4>1, <4>2
      <3> QED BY <2>3, <3>1, <3>2 DEF MayForget
    <2>7. h.reading <=> l = 1
      BY <1>2, <2>3
    <2> QED BY <1>2, <2>1, <2>4, <2>5, <2>6, <2>7 DEF ReadTo
  <1>5. CASE ~HasNext(g)
    <2>1. Sbumpc(f) = g
      BY <1>5 DEF Sbumpc
    <2>2. l = 0
      <3> PICK p \in Nat, m \in Nat : p = Pos(f) /\ m = Len(f.file) /\ p <= m
        BY NoPut
      <3>1. l = IF 1 < m - p THEN 1 ELSE m - p
        BY DEF Left
      <3>2. l # 1
        BY <1>1, <1>5
      <3> QED BY ONLY <3>1, <3>2, p \in Nat, m \in Nat, p <= m
    <2>3. Pos(g) = Pos(f) + l
      BY ONLY <1>2, <1>3, <2>2
    <2> QED BY <1>2, <2>1, <2>3 DEF ReadTo
  <1> QED BY <1>4, <1>5

-----------------------------------------------------------------------------
(* The calls that read *)

\* What the program sees of fb has not changed.
LEMMA NothingSeen ==
  ASSUME fb' = fb
  PROVE  UNCHANGED <<Content(fb), Pos(fb), Over(fb), Dir(fb), fb.mode>>
  OBVIOUS

\* A call that the object does not allow.
LEMMA Refused ==
  ASSUME IInv, fb' = fb,
         \/ /\ ~(In(fb) /\ ~fb.writing)
            /\ ret' \in {<<"get", << >>>>, <<"peek", << >>>>, <<"back", FALSE>>}
         \/ ~Out(fb) /\ ret' = <<"put", 0>>
  PROVE  IInv' /\ Stream!Refuse
  <1>1. Good(fb) /\ (fb.mode = {} => Closed(fb))
    BY DEF IInv
  <1>2. ret'[1] \in {"get", "peek", "back", "put"}
    <2>1. CASE ret' = <<"get", << >>>>
      BY ONLY <2>1
    <2>2. CASE ret' = <<"peek", << >>>>
      BY ONLY <2>2
    <2>3. CASE ret' = <<"back", FALSE>>
      BY ONLY <2>3
    <2>4. CASE ret' = <<"put", 0>>
      BY ONLY <2>4
    <2> QED BY <2>1, <2>2, <2>3, <2>4
  <1>3. IInv'
    BY <1>1, <1>2 DEF IInv, Synced
  <1>4. ~(In(fb) /\ ~fb.writing) => ~Stream!Readable
    <2>1. fb.reading => In(fb) /\ ~fb.writing
      BY <1>1 DEF Good, GetArea
    <2>2. fb.writing /\ ~fb.reading => Dir(fb) = "put"
      BY DEF Dir
    <2> QED BY <2>1, <2>2 DEF Stream!Readable, In
  <1>5. Stream!Refuse
    BY <1>4, NothingSeen DEF Stream!Refuse, Out
  <1> QED BY <1>3, <1>5

\* What the object allows the stream allows.
LEMMA MayRead ==
  ASSUME Good(fb), In(fb), ~fb.writing
  PROVE  Stream!Readable /\ fb.mode # {}
  <1>1. Dir(fb) # "put"
    BY DEF Dir
  <1> QED BY <1>1 DEF Stream!Readable, In

\* What was read is what is ahead.
LEMMA AheadIs ==
  ASSUME Good(fb), In(fb), ~fb.writing, NEW n \in Nat, NEW s \in Seq(Char),
         Len(s) = Left(fb, n), \A i \in 1 .. Left(fb, n) : s[i] = View(fb, Pos(fb) + i - 1)
  PROVE  s = Stream!Ahead(n)
  <1>1. Content(fb) = fb.file
    BY NoPut
  <1> PICK l : l = Left(fb, n)
    OBVIOUS
  <1>2. Stream!Least(n, Len(Content(fb)) - Pos(fb)) = l
    BY <1>1 DEF Stream!Least, Left
  <1>3. \A p : Stream!View(p) = View(fb, p)
    BY DEF Stream!View, View
  <1>4. Stream!Ahead(n) = [i \in 1 .. l |-> View(fb, Pos(fb) + i - 1)]
    BY <1>2, <1>3 DEF Stream!Ahead
  <1>5. s = [i \in 1 .. l |-> s[i]]
    OBVIOUS
  <1>6. \A i \in 1 .. l : s[i] = View(fb, Pos(fb) + i - 1)
    OBVIOUS
  <1>7. [i \in 1 .. l |-> s[i]] = [i \in 1 .. l |-> View(fb, Pos(fb) + i - 1)]
    BY ONLY <1>6
  <1> QED BY <1>4, <1>5, <1>7

\* The file is as it was, and the character put back may be forgotten.
LEMMA SameFile ==
  ASSUME Good(fb), In(fb), ~fb.writing, Stays(fb', fb), MayForget(fb', fb)
  PROVE  /\ Content(fb)' = Content(fb) /\ fb'.mode = fb.mode /\ Good(fb')
         /\ ~fb'.writing /\ Stream!MayForget
  <1>1. /\ Good(fb') /\ fb'.file = fb.file /\ fb'.mode = fb.mode
        /\ fb'.writing = fb.writing
    BY DEF Stays
  <1>2. Content(fb) = fb.file
    BY NoPut
  <1>3. Content(fb') = fb'.file
    BY <1>1, NoPut DEF In
  <1>4. Stream!MayForget
    BY DEF MayForget, Stream!MayForget
  <1> QED BY <1>1, <1>2, <1>3, <1>4

\* A call that reads n characters is the read of the stream.
LEMMA ReadStep ==
  ASSUME IInv, In(fb), ~fb.writing, NEW n \in Nat \ {0}, NEW s,
         ReadTo(fb', s, fb, n), ret' = <<"get", s>>
  PROVE  IInv' /\ Stream!Get(n)
  <1>1. Good(fb)
    BY DEF IInv
  <1> PICK l : l = Left(fb, n)
    OBVIOUS
  <1>2. /\ Stays(fb', fb) /\ MayForget(fb', fb) /\ s \in Seq(Char) /\ Len(s) = l
        /\ \A i \in 1 .. l : s[i] = View(fb, Pos(fb) + i - 1)
        /\ Pos(fb') = Pos(fb) + l /\ (fb'.reading <=> l = n)
    BY DEF ReadTo
  <1>3. /\ Content(fb)' = Content(fb) /\ fb'.mode = fb.mode /\ Good(fb')
        /\ ~fb'.writing /\ Stream!MayForget
    BY <1>1, <1>2, SameFile
  <1>4. Stream!Readable /\ fb.mode # {}
    BY <1>1, MayRead
  <1>5. s = Stream!Ahead(n)
    BY <1>1, <1>2, AheadIs
  <1>6. l <= n /\ l \in Nat
    <2> PICK p \in Nat, m \in Nat : p = Pos(fb) /\ m = Len(fb.file) /\ p <= m
      BY <1>1, NoPut
    <2>1. l = IF n < m - p THEN n ELSE m - p
      BY DEF Left
    <2> QED BY ONLY <2>1, p \in Nat, m \in Nat, p <= m, n \in Nat
  <1>7. Dir(fb)' = IF Len(s) < n THEN "none" ELSE "get"
    <2>1. l < n <=> l # n
      BY ONLY <1>6, n \in Nat \ {0}
    <2>2. Dir(fb)' = IF fb'.reading THEN "get" ELSE "none"
      BY <1>3 DEF Dir
    <2> QED BY <1>2, <2>1, <2>2
  <1>8. Stream!Get(n)
    BY <1>2, <1>3, <1>4, <1>5, <1>7 DEF Stream!Get
  <1>9. IInv'
    <2>1. ret'[1] = "get"
      OBVIOUS
    <2> QED BY <1>3, <1>4, <2>1 DEF IInv, Synced
  <1> QED BY <1>8, <1>9

\* A call that looks at the next character is that of the stream.
LEMMA PeekStep ==
  ASSUME IInv, In(fb), ~fb.writing, NEW s, PeekTo(fb', s, fb), ret' = <<"peek", s>>
  PROVE  IInv' /\ Stream!Peek
  <1>1. Good(fb)
    BY DEF IInv
  <1> PICK n \in Nat : n = 1
    OBVIOUS
  <1> PICK l : l = Left(fb, n)
    OBVIOUS
  <1>2. /\ Stays(fb', fb) /\ MayForget(fb', fb) /\ s \in Seq(Char) /\ Len(s) = l
        /\ \A i \in 1 .. l : s[i] = View(fb, Pos(fb) + i - 1)
        /\ Pos(fb') = Pos(fb) /\ (fb'.reading <=> l = n)
    BY DEF PeekTo
  <1>3. /\ Content(fb)' = Content(fb) /\ fb'.mode = fb.mode /\ Good(fb')
        /\ ~fb'.writing /\ Stream!MayForget
    BY <1>1, <1>2, SameFile
  <1>4. Stream!Readable /\ fb.mode # {}
    BY <1>1, MayRead
  <1>5. s = Stream!Ahead(n)
    BY <1>1, <1>2, AheadIs
  <1>6. l = 0 \/ l = 1
    <2> PICK p \in Nat, m \in Nat : p = Pos(fb) /\ m = Len(fb.file) /\ p <= m
      BY <1>1, NoPut
    <2>1. l = IF n < m - p THEN n ELSE m - p
      BY DEF Left
    <2> QED BY ONLY <2>1, p \in Nat, m \in Nat, p <= m, n = 1
  <1>7. Dir(fb)' = IF s = << >> THEN "none" ELSE "get"
    <2>1. s = << >> <=> l = 0
      BY <1>2, Empty
    <2>2. Dir(fb)' = IF fb'.reading THEN "get" ELSE "none"
      BY <1>3 DEF Dir
    <2> QED BY <1>2, <1>6, <2>1, <2>2
  <1>8. Stream!Peek
    BY <1>2, <1>3, <1>4, <1>5, <1>7 DEF Stream!Peek
  <1>9. IInv'
    <2>1. ret'[1] = "peek"
      OBVIOUS
    <2> QED BY <1>3, <1>4, <2>1 DEF IInv, Synced
  <1> QED BY <1>8, <1>9

LEMMA sgetcStep ==
  ASSUME IInv, sgetc
  PROVE  IInv' /\ (Stream!Peek \/ Stream!Refuse)
  <1>1. fb' = Sgetc(fb) /\ ret' = <<"peek", NextOf(fb)>> /\ Good(fb)
    BY DEF sgetc, Does, NextOf, IInv
  <1>2. CASE In(fb) /\ ~fb.writing
    <2>1. PeekTo(fb', NextOf(fb), fb)
      BY <1>1, <1>2, Sgets
    <2> QED BY <1>1, <1>2, <2>1, PeekStep
  <1>3. CASE ~(In(fb) /\ ~fb.writing)
    <2>1. Sgetc(fb) = fb /\ ~HasNext(fb)
      BY <1>1, <1>3, NotRead
    <2>2. fb' = fb /\ ret' = <<"peek", << >>>>
      BY <1>1, <2>1 DEF NextOf
    <2> QED BY <1>3, <2>2, Refused
  <1> QED BY <1>2, <1>3

LEMMA sbumpcStep ==
  ASSUME IInv, sbumpc
  PROVE  IInv' /\ (Stream!Get(1) \/ Stream!Refuse)
  <1>1. fb' = Sbumpc(fb) /\ ret' = <<"get", NextOf(fb)>> /\ Good(fb)
    BY DEF sbumpc, Does, NextOf, IInv
  <1>2. CASE In(fb) /\ ~fb.writing
    <2>1. ReadTo(fb', NextOf(fb), fb, 1)
      BY <1>1, <1>2, Sbumps
    <2> QED BY <1>1, <1>2, <2>1, ReadStep
  <1>3. CASE ~(In(fb) /\ ~fb.writing)
    <2>1. Sgetc(fb) = fb /\ ~HasNext(fb)
      BY <1>1, <1>3, NotRead
    <2>2. fb' = fb /\ ret' = <<"get", << >>>>
      BY <1>1, <2>1 DEF NextOf, Sbumpc
    <2> QED BY <1>3, <2>2, Refused
  <1> QED BY <1>2, <1>3

LEMMA sgetnStep ==
  ASSUME ~PastEnd, IInv, NEW n \in Nat \ {0}, sgetn(n)
  PROVE  IInv' /\ (Stream!Get(n) \/ Stream!Refuse)
  <1> PICK r : r = Xsgetn(fb, n)
    OBVIOUS
  <1>1. fb' = r[1] /\ ret' = <<"get", r[2]>> /\ Good(fb)
    BY DEF sgetn, Does, IInv
  <1>2. CASE In(fb) /\ ~fb.writing
    <2>1. ~Partial(fb, n)
      BY DEF sgetn
    <2> PICK g, s : Xsgetn(fb, n) = <<g, s>> /\ ReadTo(g, s, fb, n)
      BY <1>1, <1>2, <2>1, XsgetnReads
    <2>2. r[1] = g /\ r[2] = s
      OBVIOUS
    <2>3. ReadTo(fb', s, fb, n) /\ ret' = <<"get", s>>
      BY <1>1, <2>2
    <2> QED BY <1>2, <2>3, ReadStep
  <1>3. CASE ~(In(fb) /\ ~fb.writing)
    <2>1. r = <<fb, << >>>>
      BY <1>1, <1>3, XsgetnNone
    <2>2. fb' = fb /\ ret' = <<"get", << >>>>
      BY <1>1, <2>1
    <2> QED BY <1>3, <2>2, Refused
  <1> QED BY <1>2, <1>3

-----------------------------------------------------------------------------
(* The calls that put back, write and seek *)

\* A call that puts back is that of the stream, or its failure.
LEMMA BackStep ==
  ASSUME IInv, In(fb), ~fb.writing, NEW ok, Backed(fb', ok, fb), ret' = <<"back", ok>>
  PROVE  IInv' /\ (Stream!Back \/ Stream!BackFails)
  <1>1. Good(fb)
    BY DEF IInv
  <1>2. Stream!Readable /\ fb.mode # {}
    BY <1>1, MayRead
  <1>3. /\ Good(fb') /\ fb'.mode = fb.mode /\ Content(fb)' = Content(fb) /\ ~fb'.writing
    BY DEF Backed
  <1>4. /\ fb'.reading => Dir(fb)' = "get"
        /\ ~fb'.reading => Dir(fb)' = "none"
    BY <1>3 DEF Dir
  <1>5. MayForget(fb', fb) => Stream!MayForget
    BY DEF MayForget, Stream!MayForget
  <1>6. IInv'
    <2>1. ret'[1] = "back"
      OBVIOUS
    <2> QED BY <1>2, <1>3, <2>1 DEF IInv, Synced
  <1>7. CASE /\ ok = TRUE /\ Pos(fb) > 0 /\ Pos(fb') = Pos(fb) - 1 /\ fb'.reading
             /\ \/ MayForget(fb', fb)
                \/ Over(fb) = << >> /\ \E c \in Char : Over(fb') = <<Pos(fb'), c>>
    <2>1. ret' = <<"back", TRUE>>
      BY ONLY <1>7, ret' = <<"back", ok>>, Zenon
    <2>2. /\ Pos(fb) > 0 /\ Pos(fb)' = Pos(fb) - 1 /\ Dir(fb)' = "get"
          /\ \/ Stream!MayForget
             \/ Over(fb) = << >> /\ \E c \in Char : Over(fb)' = <<Pos(fb)', c>>
      BY <1>4, <1>5, <1>7
    <2>3. UNCHANGED <<Content(fb), fb.mode>>
      BY <1>3
    <2> QED BY ONLY <1>2, <1>6, <2>1, <2>2, <2>3, Zenon DEF Stream!Back
  <1>8. CASE /\ ok = FALSE /\ Pos(fb) > 0 /\ Pos(fb') = Pos(fb) - 1 /\ fb'.reading
             /\ Over(fb) # << >> /\ MayForget(fb', fb)
    <2>1. ret' = <<"back", FALSE>>
      BY ONLY <1>8, ret' = <<"back", ok>>, Zenon
    <2>2. /\ Pos(fb) > 0 /\ Pos(fb)' = Pos(fb) - 1 /\ Dir(fb)' = "get"
          /\ Over(fb) # << >> /\ Stream!MayForget
      BY <1>4, <1>5, <1>8
    <2>3. UNCHANGED <<Content(fb), fb.mode>>
      BY <1>3
    <2> QED BY ONLY <1>2, <1>6, <2>1, <2>2, <2>3, Zenon DEF Stream!BackFails
  <1>9. CASE /\ ok = FALSE /\ Pos(fb) = 0 /\ Pos(fb') \in 0 .. Len(Content(fb))
             /\ ~fb'.reading /\ Over(fb') = << >>
    <2>1. ret' = <<"back", FALSE>>
      BY ONLY <1>9, ret' = <<"back", ok>>, Zenon
    <2>2. /\ Pos(fb) = 0 /\ Pos(fb)' \in 0 .. Len(Content(fb)) /\ Dir(fb)' = "none"
          /\ Over(fb)' = << >>
      BY <1>4, <1>9
    <2>3. UNCHANGED <<Content(fb), fb.mode>>
      BY <1>3
    <2> QED BY ONLY <1>2, <1>6, <2>1, <2>2, <2>3, Zenon DEF Stream!BackFails
  <1> QED BY <1>7, <1>8, <1>9 DEF Backed

\* An object that is not read takes nothing back.
LEMMA NoBack ==
  ASSUME NEW f, Good(f), ~(In(f) /\ ~f.writing)
  PROVE  ~HasLast(f) /\ \A s : Pbackfail(f, s) = <<f, FALSE>>
  <1>1. ~HasLast(f)
    BY NotRead
  <1>2. ~In(f) \/ f.writing
    OBVIOUS
  <1> QED BY <1>1, <1>2 DEF Pbackfail

\* In the buffer the character before is the next again.
LEMMA OneBack ==
  ASSUME NEW f, Good(f), In(f), ~f.writing, HasLast(f)
  PROVE  Backed(Bump(f, -1), TRUE, f)
  BY BackInArea, BackOutcome

LEMMA sungetcStep ==
  ASSUME IInv, sungetc
  PROVE  IInv' /\ (Stream!Back \/ Stream!BackFails \/ Stream!Refuse)
  <1> PICK e : e = << >>
    OBVIOUS
  <1> PICK g : g = Bump(fb, -1)
    OBVIOUS
  <1> PICK r : r = IF HasLast(fb) THEN <<g, TRUE>> ELSE Pbackfail(fb, e)
    OBVIOUS
  <1>1. fb' = r[1] /\ ret' = <<"back", r[2]>> /\ Good(fb)
    BY DEF sungetc, Does, IInv
  <1>2. CASE In(fb) /\ ~fb.writing
    <2>1. \E h, ok : r = <<h, ok>> /\ Backed(h, ok, fb)
      <3>1. CASE HasLast(fb)
        <4>1. r = <<g, TRUE>> /\ Backed(g, TRUE, fb)
          BY <1>1, <1>2, <3>1, OneBack
        <4> QED BY <4>1
      <3>2. CASE ~HasLast(fb)
        <4>1. \E h, ok : Pbackfail(fb, e) = <<h, ok>> /\ Backed(h, ok, fb)
          BY <1>1, <1>2, Pbackfails
        <4> QED BY <3>2, <4>1
      <3> QED BY <3>1, <3>2
    <2> PICK h, ok : r = <<h, ok>> /\ Backed(h, ok, fb)
      BY <2>1
    <2>2. fb' = h /\ ret' = <<"back", ok>>
      BY <1>1
    <2> QED BY <1>2, <2>2, BackStep
  <1>3. CASE ~(In(fb) /\ ~fb.writing)
    <2>1. r = <<fb, FALSE>>
      BY <1>1, <1>3, NoBack
    <2> PICK no : no = FALSE
      OBVIOUS
    <2>a. r[1] = fb /\ r[2] = no
      <3>1. r = <<fb, no>>
        BY <2>1
      <3> QED BY ONLY <3>1
    <2>2. fb' = fb /\ ret' = <<"back", FALSE>>
      BY <1>1, <2>a
    <2> QED BY <1>3, <2>2, Refused
  <1> QED BY <1>2, <1>3

LEMMA sputbackcStep ==
  ASSUME IInv, NEW c \in Char, sputbackc(c)
  PROVE  IInv' /\ (Stream!Back \/ Stream!BackFails \/ Stream!Refuse)
  <1> PICK e : e = <<c>>
    OBVIOUS
  <1> PICK g : g = Bump(fb, -1)
    OBVIOUS
  <1> PICK r : r = IF HasLast(fb) /\ LastChar(fb) = c THEN <<g, TRUE>> ELSE Pbackfail(fb, e)
    OBVIOUS
  <1>1. fb' = r[1] /\ ret' = <<"back", r[2]>> /\ Good(fb)
    BY DEF sputbackc, Does, IInv
  <1>2. CASE In(fb) /\ ~fb.writing
    <2>1. \E h, ok : r = <<h, ok>> /\ Backed(h, ok, fb)
      <3>1. CASE HasLast(fb) /\ LastChar(fb) = c
        <4>1. r = <<g, TRUE>> /\ Backed(g, TRUE, fb)
          BY <1>1, <1>2, <3>1, OneBack
        <4> QED BY <4>1
      <3>2. CASE ~(HasLast(fb) /\ LastChar(fb) = c)
        <4>1. \E h, ok : Pbackfail(fb, e) = <<h, ok>> /\ Backed(h, ok, fb)
          BY <1>1, <1>2, Pbackfails
        <4> QED BY <3>2, <4>1
      <3> QED BY <3>1, <3>2
    <2> PICK h, ok : r = <<h, ok>> /\ Backed(h, ok, fb)
      BY <2>1
    <2>2. fb' = h /\ ret' = <<"back", ok>>
      BY <1>1
    <2> QED BY <1>2, <2>2, BackStep
  <1>3. CASE ~(In(fb) /\ ~fb.writing)
    <2>1. r = <<fb, FALSE>>
      BY <1>1, <1>3, NoBack
    <2> PICK no : no = FALSE
      OBVIOUS
    <2>a. r[1] = fb /\ r[2] = no
      <3>1. r = <<fb, no>>
        BY <2>1
      <3> QED BY ONLY <3>1
    <2>2. fb' = fb /\ ret' = <<"back", FALSE>>
      BY <1>1, <2>a
    <2> QED BY <1>3, <2>2, Refused
  <1> QED BY <1>2, <1>3

\* A call that writes s is the write of the stream.
LEMMA WriteStep ==
  ASSUME IInv, Writes(fb), NEW s \in Seq(Char), Wrote(fb', fb, s),
         ret' = <<"put", Len(s)>>
  PROVE  IInv' /\ Stream!Put(s)
  <1>1. /\ Good(fb) /\ ~fb.reading /\ Out(fb) /\ fb.pback = << >>
        /\ Content(fb) \in Seq(Char) /\ Pos(fb) \in Nat /\ Pos(fb) <= Len(Content(fb))
    BY WriteFacts DEF Writes
  <1>2. /\ Good(fb') /\ fb'.mode = fb.mode /\ ~fb'.reading /\ fb'.pback = << >>
        /\ IsOverlay(Content(fb'), Content(fb), Pos(fb), s)
        /\ Pos(fb') = Pos(fb) + Len(s)
        /\ fb'.writing \/ (s = << >> /\ fb'.writing = fb.writing)
    BY DEF Wrote
  <1>3. Content(fb)' = Stream!Overlay(Content(fb), Pos(fb), s)
    <2>1. IsOverlay(Stream!Overlay(Content(fb), Pos(fb), s), Content(fb), Pos(fb), s)
      BY <1>1, Overlaid DEF Stream!Overlay
    <2> QED BY <1>2, <2>1, SameOverlay
  <1>4. Over(fb)' = Over(fb)
    BY <1>1, <1>2 DEF Over
  <1>5. Dir(fb)' \in (IF s = << >> THEN {Dir(fb), "put"} ELSE {"put"})
    BY <1>1, <1>2 DEF Dir
  <1>6. "out" \in fb.mode /\ Dir(fb) # "get"
    BY <1>1 DEF Dir, Out
  <1>7. Stream!Put(s)
    BY <1>2, <1>3, <1>4, <1>5, <1>6 DEF Stream!Put
  <1>8. IInv'
    <2>1. ret'[1] = "put"
      OBVIOUS
    <2> QED BY <1>2, <1>6, <2>1 DEF IInv, Synced
  <1> QED BY <1>7, <1>8

LEMMA sputcStep ==
  ASSUME IInv, NEW c \in Char, sputc(c)
  PROVE  IInv' /\ (Stream!Put(<<c>>) \/ Stream!Refuse)
  <1>1. /\ fb' = Sputc(fb, c) /\ ret' = <<"put", IF Out(fb) THEN 1 ELSE 0>>
        /\ Good(fb) /\ ~fb.reading
    BY DEF sputc, MayPut, Does, IInv
  <1>2. CASE Out(fb)
    <2> PICK s : s = <<c>>
      OBVIOUS
    <2>1. s \in Seq(Char) /\ Len(s) = 1
      OBVIOUS
    <2>2. Writes(fb)
      BY <1>1, <1>2 DEF Writes
    <2>3. Wrote(fb', fb, s)
      BY <1>1, <2>2, Sputs
    <2>4. ret' = <<"put", Len(s)>>
      BY <1>1, <1>2, <2>1
    <2> QED BY <2>1, <2>2, <2>3, <2>4, WriteStep
  <1>3. CASE ~Out(fb)
    <2>1. fb' = fb
      BY <1>1, <1>3, PutsNothing
    <2> QED BY <1>1, <1>3, <2>1, Refused
  <1> QED BY <1>2, <1>3

LEMMA sputnStep ==
  ASSUME IInv, NEW s \in Seq(Char), sputn(s)
  PROVE  IInv' /\ (Stream!Put(s) \/ Stream!Refuse)
  <1>1. /\ fb' = Xsputn(fb, s) /\ ret' = <<"put", IF Out(fb) THEN Len(s) ELSE 0>>
        /\ Good(fb) /\ ~fb.reading
    BY DEF sputn, MayPut, Does, IInv
  <1>2. CASE Out(fb)
    <2>1. Writes(fb)
      BY <1>1, <1>2 DEF Writes
    <2>2. Wrote(fb', fb, s)
      BY <1>1, <2>1, XsputnWrites
    <2>3. ret' = <<"put", Len(s)>>
      BY <1>1, <1>2
    <2> QED BY <2>1, <2>2, <2>3, WriteStep
  <1>3. CASE ~Out(fb)
    <2>1. fb' = fb
      BY <1>1, <1>3, XsputnNothing
    <2> QED BY <1>1, <1>3, <2>1, Refused
  <1> QED BY <1>2, <1>3

LEMMA seekoffStep ==
  ASSUME IInv, NEW o \in Int, NEW way \in {"beg", "cur", "end"}, seekoff(o, way)
  PROVE  IInv' /\ Stream!Seek(way, o)
  <1>1. Good(fb) /\ fb.mode # {}
    BY DEF IInv, seekoff
  <1> PICK h, r : Seekoff(fb, o, way) = <<h, r>> /\ SeekTo(h, r, fb, o, way)
    BY <1>1, Seeks
  <1>2. r <= Len(h.file) /\ fb' = h /\ ret' = <<"seek", r>>
    BY DEF seekoff, Does
  <1> PICK q : q = To(fb, o, way)
    OBVIOUS
  <1> PICK m \in Nat : m = Len(Content(fb))
    <2>1. IsOverlay(Content(fb), fb.file, fb.off, fb.put)
      BY <1>1, Contents
    <2>2. Content(fb) \in Seq(Char)
      BY <2>1 DEF IsOverlay
    <2> QED BY <2>2
  <1>3. /\ q \in Int /\ r = (IF q >= 0 THEN q ELSE -1) /\ Len(h.file) = m
        /\ q <= m => \E x \in 0 .. m : Sought(h, fb, x) /\ (q >= 0 => x = q)
    BY DEF SeekTo
  <1>4. q <= m
    BY ONLY <1>2, <1>3, m \in Nat
  <1> PICK x \in 0 .. m : Sought(h, fb, x) /\ (q >= 0 => x = q)
    BY <1>3, <1>4
  <1>5. /\ Good(fb') /\ fb'.mode = fb.mode /\ Content(fb') = Content(fb) /\ Pos(fb') = x
        /\ fb'.put = << >> /\ fb'.pback = << >> /\ ~fb'.reading /\ ~fb'.writing
    BY <1>2 DEF Sought
  <1>6. Over(fb)' = << >> /\ Dir(fb)' = "none"
    BY <1>5 DEF Over, Dir
  <1>7. Stream!Target(way, o) = q
    BY DEF Stream!Target, To
  <1>8. Stream!Seek(way, o)
    <2>1. CASE q >= 0
      BY <1>1, <1>2, <1>3, <1>5, <1>6, <1>7, <2>1 DEF Stream!Seek
    <2>2. CASE ~(q >= 0)
      BY <1>1, <1>2, <1>3, <1>5, <1>6, <1>7, <2>2 DEF Stream!Seek
    <2> QED BY <2>1, <2>2
  <1>9. IInv'
    BY <1>1, <1>5 DEF IInv, Synced
  <1> QED BY <1>8, <1>9

-----------------------------------------------------------------------------
(* The other calls *)

\* Without a file nothing is in the buffer.
LEMMA ClosedIs ==
  ASSUME NEW f, Good(f), f.mode = {}, Closed(f)
  PROVE  /\ f.off = 0 /\ f.get = << >> /\ f.next = 0 /\ f.put = << >> /\ f.room = 0
         /\ f.pback = << >> /\ f.taken = 0 /\ ~f.reading /\ ~f.writing
  <1>1. ~f.reading /\ ~f.writing /\ f.off = 0 /\ f.put = << >>
    BY DEF Closed
  <1>2. f.get = << >> /\ f.next = 0 /\ f.pback = << >> /\ f.taken = 0
    BY <1>1, WriteFacts
  <1>3. f.room \in Nat /\ ~(f.room > 0)
    BY DEF Good, FileBuffer, PutArea, Out
  <1>4. f.room = 0
    BY ONLY <1>3
  <1> QED BY <1>1, <1>2, <1>4

\* An object with nothing in the buffer and the file at o is good.
LEMMA NothingBuffered ==
  ASSUME NEW h \in FileBuffer, h.off <= Len(h.file), h.get = << >>, h.next = 0,
         h.put = << >>, h.room = 0, h.pback = << >>, h.taken = 0, ~h.reading
  PROVE  /\ Good(h) /\ Content(h) = h.file /\ Pos(h) = h.off
         /\ Over(h) = << >> /\ Dir(h) = IF h.writing THEN "put" ELSE "none"
  <1> PICK o \in Nat : o = h.off
    BY DEF FileBuffer
  <1>1. Len(h.get) = 0 /\ Len(h.put) = 0 /\ Len(h.pback) = 0
    OBVIOUS
  <1>2. Ranges(h)
    BY <1>1 DEF Ranges
  <1>3. GetArea(h)
    <2>1. \A i \in 1 .. Len(h.get) : FALSE
      BY ONLY <1>1
    <2>2. Len(h.get) <= h.off
      BY ONLY <1>1, o = h.off, o \in Nat
    <2> QED BY <2>1, <2>2 DEF GetArea
  <1>4. PutArea(h)
    <2>1. ~(h.room > 0)
      BY ONLY h.room = 0
    <2> QED BY <2>1 DEF PutArea
  <1>5. Good(h)
    BY <1>2, <1>3, <1>4 DEF Good
  <1>6. Content(h) = h.file
    BY <1>5, Contents
  <1>7. Pos(h) = h.off
    <2>1. Pos(h) = h.off + Len(h.put)
      BY <1>5, WriteFacts
    <2> QED BY ONLY <1>1, <2>1, o = h.off, o \in Nat
  <1> QED BY <1>5, <1>6, <1>7 DEF Over, Dir

LEMMA setbufStep ==
  ASSUME IInv, NEW n \in BufSizes, setbuf(n)
  PROVE  IInv' /\ Stream!Sync
  <1>1. /\ fb.mode = {} /\ Good(fb) /\ Closed(fb)
        /\ fb' = [fb EXCEPT !.buf_size = n] /\ ret' = <<"setbuf", TRUE>>
    BY DEF setbuf, Does, IInv
  <1>2. fb \in FileBuffer /\ fb.off <= Len(fb.file)
    BY <1>1 DEF Good, Ranges
  <1>3. /\ fb.off = 0 /\ fb.get = << >> /\ fb.next = 0 /\ fb.put = << >> /\ fb.room = 0
        /\ fb.pback = << >> /\ fb.taken = 0 /\ ~fb.reading /\ ~fb.writing
    BY <1>1, ClosedIs
  <1>4. Only(fb', fb, {"buf_size"})
    BY ONLY <1>1, <1>2, n \in BufSizes DEF FileBuffer, Only, Fields
  <1>5. /\ fb' \in FileBuffer /\ fb'.file = fb.file /\ fb'.off = fb.off
        /\ fb'.mode = fb.mode /\ fb'.get = fb.get /\ fb'.next = fb.next
        /\ fb'.put = fb.put /\ fb'.room = fb.room /\ fb'.pback = fb.pback
        /\ fb'.taken = fb.taken /\ fb'.reading = fb.reading /\ fb'.writing = fb.writing
    BY <1>4 DEF Only, Fields
  <1>6. /\ Good(fb') /\ Content(fb') = fb'.file /\ Pos(fb') = fb'.off
        /\ Over(fb') = << >> /\ Dir(fb') = IF fb'.writing THEN "put" ELSE "none"
    BY <1>2, <1>3, <1>5, NothingBuffered
  <1>7. /\ Content(fb) = fb.file /\ Pos(fb) = fb.off
        /\ Over(fb) = << >> /\ Dir(fb) = IF fb.writing THEN "put" ELSE "none"
    BY <1>2, <1>3, NothingBuffered
  <1>8. UNCHANGED <<Content(fb), Pos(fb), Over(fb), Dir(fb), fb.mode>>
    BY <1>5, <1>6, <1>7
  <1>9. Stream!Sync
    BY <1>1, <1>8 DEF Stream!Sync
  <1>10. IInv'
    <2>1. Closed(fb')
      BY <1>3, <1>5 DEF Closed
    <2> QED BY <1>3, <1>5, <1>6, <2>1 DEF IInv, Synced
  <1> QED BY <1>9, <1>10

LEMMA openStep ==
  ASSUME IInv, NEW m \in {{"in"}, {"out"}, {"in", "out"}}, NEW ate \in BOOLEAN,
         open(m, ate)
  PROVE  IInv' /\ Stream!Open(m)
  <1> PICK c : c = IF "in" \in m THEN fb.file ELSE << >>
    OBVIOUS
  <1> PICK f : f = [fb EXCEPT !.mode = m, !.file = c]
    OBVIOUS
  <1>1. /\ fb.mode = {} /\ Good(fb) /\ Closed(fb) /\ ret' = <<"open", TRUE>>
        /\ fb' = IF ate THEN Seekoff(f, 0, "end")[1] ELSE f
    BY DEF open, Does, IInv
  <1>2. fb \in FileBuffer /\ fb.off <= Len(fb.file)
    BY <1>1 DEF Good, Ranges
  <1>3. /\ fb.off = 0 /\ fb.get = << >> /\ fb.next = 0 /\ fb.put = << >> /\ fb.room = 0
        /\ fb.pback = << >> /\ fb.taken = 0 /\ ~fb.reading /\ ~fb.writing
    BY <1>1, ClosedIs
  <1>4. c \in Seq(Char) /\ m \in SUBSET {"in", "out"} /\ m # {}
    <2>1. fb.file \in Seq(Char)
      BY <1>2 DEF FileBuffer
    <2>2. << >> \in Seq(Char)
      OBVIOUS
    <2> QED BY <2>1, <2>2
  <1>5. Only(f, fb, {"mode", "file"}) /\ f.mode = m /\ f.file = c
    BY ONLY <1>2, <1>4, f = [fb EXCEPT !.mode = m, !.file = c] DEF FileBuffer, Only, Fields
  <1>6. /\ f \in FileBuffer /\ f.off = 0 /\ f.get = << >> /\ f.next = 0 /\ f.put = << >>
        /\ f.room = 0 /\ f.pback = << >> /\ f.taken = 0 /\ ~f.reading /\ ~f.writing
    BY <1>3, <1>5 DEF Only, Fields
  <1>7. /\ Good(f) /\ Content(f) = c /\ Pos(f) = 0 /\ Over(f) = << >> /\ Dir(f) = "none"
    <2>1. f.off <= Len(f.file)
      <3> PICK k \in Nat : k = Len(c)
        BY <1>4
      <3> QED BY <1>5, <1>6
    <2> QED BY <1>5, <1>6, <2>1, NothingBuffered
  <1>8. Content(fb) = fb.file /\ Over(fb) = << >> /\ Dir(fb) = "none"
    BY <1>2, <1>3, NothingBuffered
  <1>9. /\ Good(fb') /\ fb'.mode = m /\ Content(fb') = c /\ Pos(fb') \in {0, Len(c)}
        /\ Over(fb') = << >> /\ Dir(fb') = "none"
    <2>1. CASE ~ate
      BY <1>1, <1>5, <1>7, <2>1
    <2>2. CASE ate
      <3> PICK o \in Int : o = 0
        OBVIOUS
      <3> PICK way \in {"beg", "cur", "end"} : way = "end"
        OBVIOUS
      <3> PICK h, r : Seekoff(f, o, way) = <<h, r>> /\ SeekTo(h, r, f, o, way)
        BY <1>7, Seeks
      <3>1. fb' = h
        BY <1>1, <2>2
      <3> PICK k \in Nat : k = Len(c)
        BY <1>4
      <3>2. To(f, o, way) = k
        <4>1. To(f, o, way) = o + k
          BY <1>7 DEF To
        <4> QED BY ONLY <4>1, o = 0, k \in Nat
      <3> PICK x \in 0 .. k : Sought(h, f, x) /\ x = k
        BY <1>7, <3>2 DEF SeekTo
      <3>3. /\ Good(h) /\ h.mode = f.mode /\ Content(h) = Content(f) /\ Pos(h) = k
            /\ h.pback = << >> /\ ~h.reading /\ ~h.writing
        BY DEF Sought
      <3>4. Over(h) = << >> /\ Dir(h) = "none"
        BY <3>3 DEF Over, Dir
      <3> QED BY <1>5, <1>7, <3>1, <3>3, <3>4
    <2> QED BY <2>1, <2>2
  <1>10. Stream!Open(m)
    BY <1>1, <1>4, <1>8, <1>9 DEF Stream!Open
  <1>11. IInv'
    <2>1. ret'[1] = "open"
      BY <1>1
    <2> QED BY <1>4, <1>9, <2>1 DEF IInv, Synced
  <1> QED BY <1>10, <1>11

LEMMA closeStep ==
  ASSUME IInv, close
  PROVE  IInv' /\ Stream!Close
  <1>1. Good(fb) /\ fb.mode # {}
    BY DEF IInv, close
  <1> PICK e : e = << >>
    OBVIOUS
  <1> PICK t : t = TerminateOutput(fb)
    OBVIOUS
  <1> PICK b : b = SetBuffer(t, e, FALSE)
    OBVIOUS
  <1> PICK no \in BOOLEAN : no = FALSE
    OBVIOUS
  <1> PICK m \in SUBSET {"in", "out"} : m = {}
    OBVIOUS
  <1>2. /\ fb' = [b EXCEPT !.mode = m, !.off = 0, !.pback = e, !.taken = 0,
                           !.reading = no, !.writing = no]
        /\ ret' = <<"close", TRUE>>
    BY DEF close, Does
  <1>3. Terminated(t, fb)
    BY <1>1, Terminates
  <1>4. t \in FileBuffer /\ t.file = Content(fb) /\ e \in Seq(Char)
    BY <1>3 DEF Terminated, Good
  <1>5. Buffered(b, t, e, 0)
    BY <1>4, BufferOff
  <1>6. b \in FileBuffer /\ b.file = t.file /\ b.get = e /\ b.next = 0 /\ b.put = << >>
        /\ b.room = 0
    BY <1>5 DEF Buffered, Only, Fields
  <1>7. /\ Only(fb', b, {"mode", "off", "pback", "taken", "reading", "writing"})
        /\ fb'.mode = m /\ fb'.off = 0 /\ fb'.pback = e /\ fb'.taken = 0
        /\ fb'.reading = no /\ fb'.writing = no
    BY ONLY <1>2, <1>4, <1>6, no \in BOOLEAN, m \in SUBSET {"in", "out"}
       DEF FileBuffer, Only, Fields
  <1>8. /\ fb' \in FileBuffer /\ fb'.file = Content(fb) /\ fb'.mode = {} /\ fb'.off = 0
        /\ fb'.get = << >> /\ fb'.next = 0 /\ fb'.put = << >> /\ fb'.room = 0
        /\ fb'.pback = << >> /\ fb'.taken = 0 /\ ~fb'.reading /\ ~fb'.writing
    BY <1>4, <1>6, <1>7 DEF Only, Fields
  <1>9. fb'.off <= Len(fb'.file)
    <2> PICK k \in Nat : k = Len(fb'.file)
      BY <1>8 DEF FileBuffer
    <2> QED BY <1>8
  <1>10. /\ Good(fb') /\ Content(fb') = fb'.file /\ Pos(fb') = fb'.off
         /\ Over(fb') = << >> /\ Dir(fb') = IF fb'.writing THEN "put" ELSE "none"
    BY <1>8, <1>9, NothingBuffered
  <1>11. Stream!Close
    BY <1>1, <1>2, <1>8, <1>10 DEF Stream!Close
  <1>12. IInv'
    <2>1. Closed(fb')
      BY <1>8 DEF Closed
    <2> QED BY <1>8, <1>10, <2>1 DEF IInv, Synced
  <1> QED BY <1>11, <1>12

LEMMA syncStep ==
  ASSUME IInv, sync
  PROVE  IInv' /\ Stream!Sync
  <1>1. /\ Good(fb) /\ fb.mode # {} /\ fb' = TerminateOutput(fb)
        /\ ret' = <<"sync", TRUE>>
    BY DEF IInv, sync, Does
  <1>2. Terminated(fb', fb)
    BY <1>1, Terminates
  <1>3. /\ Good(fb') /\ fb'.put = << >> /\ fb'.mode = fb.mode
        /\ fb'.reading = fb.reading /\ fb'.writing = fb.writing
        /\ Content(fb') = Content(fb) /\ Pos(fb') = Pos(fb) /\ Over(fb') = Over(fb)
    BY <1>2 DEF Terminated
  <1>4. Dir(fb') = Dir(fb)
    BY <1>3 DEF Dir
  <1>5. Stream!Sync
    BY <1>1, <1>3, <1>4 DEF Stream!Sync
  <1>6. IInv'
    BY <1>1, <1>3 DEF IInv, Synced
  <1> QED BY <1>5, <1>6

LEMMA imbueStep ==
  ASSUME IInv, imbue
  PROVE  IInv' /\ Stream!Sync
  <1> PICK e : e = << >>
    OBVIOUS
  <1> PICK t : t = TerminateOutput(fb)
    OBVIOUS
  <1> PICK b : b = SetBuffer(t, e, FALSE)
    OBVIOUS
  <1>1. /\ Good(fb) /\ fb.mode # {} /\ ret' = <<"imbue", TRUE>>
        /\ fb' = IF fb.writing THEN b ELSE fb
    BY DEF IInv, imbue, Does
  <1>2. CASE ~fb.writing
    <2>1. fb' = fb
      BY <1>1, <1>2
    <2>2. fb.put = << >>
      BY <1>1, <1>2 DEF Good, PutArea
    <2>3. UNCHANGED <<Content(fb), Pos(fb), Over(fb), Dir(fb), fb.mode>>
      BY <2>1, NothingSeen
    <2>4. Stream!Sync
      BY <1>1, <2>3 DEF Stream!Sync
    <2>5. IInv'
      BY <1>1, <2>1, <2>2 DEF IInv, Synced
    <2> QED BY <2>4, <2>5
  <1>3. CASE fb.writing
    <2>1. fb' = b /\ ~fb.reading
      BY <1>1, <1>3 DEF Good, GetArea
    <2>2. Terminated(t, fb)
      BY <1>1, Terminates
    <2>3. /\ t \in FileBuffer /\ Good(t) /\ ~t.reading /\ t.writing /\ t.mode = fb.mode
          /\ t.file = Content(fb) /\ t.put = << >> /\ Pos(t) = Pos(fb)
          /\ t.off <= Len(t.file)
      BY <1>3, <2>1, <2>2 DEF Terminated, Good, Ranges
    <2>4. t.pback = << >> /\ t.taken = 0 /\ t.off \in Nat /\ Pos(t) = t.off + Len(t.put)
      BY <2>3, WriteFacts
    <2>5. Pos(fb) = t.off
      <3>1. Len(t.put) = 0
        BY <2>3
      <3> QED BY ONLY <2>3, <2>4, <3>1
    <2>6. e \in Seq(Char)
      OBVIOUS
    <2>7. Buffered(b, t, e, 0)
      BY <2>3, <2>6, BufferOff
    <2>8. /\ fb' \in FileBuffer /\ fb'.file = t.file /\ fb'.off = t.off /\ fb'.mode = t.mode
          /\ fb'.get = << >> /\ fb'.next = 0 /\ fb'.put = << >> /\ fb'.room = 0
          /\ fb'.pback = << >> /\ fb'.taken = 0 /\ ~fb'.reading /\ fb'.writing
      BY <2>1, <2>3, <2>4, <2>7 DEF Buffered, Only, Fields
    <2>9. fb'.off <= Len(fb'.file)
      BY <2>3, <2>8
    <2>10. /\ Good(fb') /\ Content(fb') = fb'.file /\ Pos(fb') = fb'.off
           /\ Over(fb') = << >> /\ Dir(fb') = IF fb'.writing THEN "put" ELSE "none"
      BY <2>8, <2>9, NothingBuffered
    <2>11. fb.pback = << >>
      BY <1>1, <2>1, WriteFacts
    <2>12. Over(fb) = << >> /\ Dir(fb) = "put"
      BY <1>3, <2>1, <2>11 DEF Over, Dir
    <2>13. UNCHANGED <<Content(fb), Pos(fb), Over(fb), Dir(fb), fb.mode>>
      BY <2>3, <2>5, <2>8, <2>10, <2>12
    <2>14. Stream!Sync
      BY <1>1, <2>13 DEF Stream!Sync
    <2>15. IInv'
      BY <1>1, <2>3, <2>8, <2>10 DEF IInv, Synced
    <2> QED BY <2>14, <2>15
  <1> QED BY <1>2, <1>3

-----------------------------------------------------------------------------
(* The theorems *)

\* An object without a file, and the file as it was found.
LEMMA InitGood ==
  ASSUME Init
  PROVE  IInv /\ Stream!Init
  <1>1. PICK file \in UNION {[1 .. n -> Char] : n \in 0 .. MaxLen}, size \in BufSizes :
          fb = [file |-> file, off |-> 0, mode |-> {}, buf_size |-> size,
                get |-> << >>, next |-> 0, put |-> << >>, room |-> 0,
                reading |-> FALSE, writing |-> FALSE, pback |-> << >>, taken |-> 0]
    BY DEF Init
  <1>2. ret = <<"close", TRUE>>
    BY DEF Init
  <1>3. file \in Seq(Char)
    <2> PICK n \in 0 .. MaxLen : file \in [1 .. n -> Char]
      OBVIOUS
    <2>1. n \in Nat
      BY FileBufAssumption
    <2> QED BY <2>1
  <1>4. << >> \in Seq(Char) /\ {} \in SUBSET {"in", "out"}
    OBVIOUS
  <1>5. /\ fb \in FileBuffer /\ fb.file = file /\ fb.off = 0 /\ fb.mode = {}
        /\ fb.get = << >> /\ fb.next = 0 /\ fb.put = << >> /\ fb.room = 0
        /\ fb.pback = << >> /\ fb.taken = 0 /\ ~fb.reading /\ ~fb.writing
    BY ONLY <1>1, <1>3, <1>4, size \in BufSizes DEF FileBuffer
  <1>6. fb.off <= Len(fb.file)
    <2> PICK k \in Nat : k = Len(file)
      BY <1>3
    <2> QED BY <1>5
  <1>7. /\ Good(fb) /\ Content(fb) = fb.file /\ Pos(fb) = fb.off
        /\ Over(fb) = << >> /\ Dir(fb) = IF fb.writing THEN "put" ELSE "none"
    BY <1>5, <1>6, NothingBuffered
  <1>8. IInv
    <2>1. Closed(fb)
      BY <1>5 DEF Closed
    <2> QED BY <1>5, <1>7, <2>1 DEF IInv, Synced
  <1>9. Stream!Init
    BY <1>2, <1>5, <1>7 DEF Stream!Init
  <1> QED BY <1>8, <1>9

\* Each call keeps the invariant and is one of the file's own.
LEMMA Steps ==
  ASSUME ~PastEnd, IInv, Next
  PROVE  IInv' /\ Stream!Next
  <1>1. CASE \E n \in BufSizes : setbuf(n)
    BY <1>1, setbufStep DEF Stream!Next
  <1>2. CASE \E m \in {{"in"}, {"out"}, {"in", "out"}}, ate \in BOOLEAN : open(m, ate)
    <2> PICK m \in {{"in"}, {"out"}, {"in", "out"}}, ate \in BOOLEAN : open(m, ate)
      BY <1>2
    <2>1. IInv' /\ Stream!Open(m)
      BY openStep
    <2>2. m \in SUBSET {"in", "out"}
      OBVIOUS
    <2> QED BY <2>1, <2>2 DEF Stream!Next
  <1>3. CASE close
    BY <1>3, closeStep DEF Stream!Next
  <1>4. CASE sgetc
    BY <1>4, sgetcStep DEF Stream!Next
  <1>5. CASE sbumpc
    <2>1. IInv' /\ (Stream!Get(1) \/ Stream!Refuse)
      BY <1>5, sbumpcStep
    <2>2. 1 \in 1 .. (MaxLen + 1)
      BY FileBufAssumption
    <2> QED BY <2>1, <2>2 DEF Stream!Next
  <1>6. CASE sungetc
    BY <1>6, sungetcStep DEF Stream!Next
  <1>7. CASE sync
    BY <1>7, syncStep DEF Stream!Next
  <1>8. CASE imbue
    BY <1>8, imbueStep DEF Stream!Next
  <1>9. CASE \E n \in 1 .. (MaxLen + 1) : sgetn(n)
    <2> PICK n \in 1 .. (MaxLen + 1) : sgetn(n)
      BY <1>9
    <2>1. n \in Nat \ {0}
      BY FileBufAssumption
    <2>2. IInv' /\ (Stream!Get(n) \/ Stream!Refuse)
      BY <2>1, sgetnStep
    <2> QED BY <2>2 DEF Stream!Next
  <1>10. CASE \E c \in Char : sputbackc(c) \/ sputc(c)
    <2> PICK c \in Char : sputbackc(c) \/ sputc(c)
      BY <1>10
    <2>1. CASE sputbackc(c)
      BY <2>1, sputbackcStep DEF Stream!Next
    <2>2. CASE sputc(c)
      <3>1. IInv' /\ (Stream!Put(<<c>>) \/ Stream!Refuse)
        BY <2>2, sputcStep
      <3> PICK n \in Nat : n = 1
        OBVIOUS
      <3>2. <<c>> \in [1 .. n -> Char]
        OBVIOUS
      <3>3. n \in 0 .. MaxLen
        <4> PICK o \in Nat, p \in Nat : o = fb.off /\ p = Len(fb.put)
          <5>1. Pointers(fb)
            BY Points DEF IInv
          <5> QED BY <5>1 DEF Pointers
        <4>1. o + p + n <= MaxLen
          BY <2>2 DEF sputc, MayPut
        <4> QED BY ONLY <4>1, o \in Nat, p \in Nat, n \in Nat, FileBufAssumption
      <3>4. Stream!Put(<<c>>) => \E k \in 0 .. MaxLen : \E s \in [1 .. k -> Char] : Stream!Put(s)
        BY <3>2, <3>3
      <3> QED BY <3>1, <3>4 DEF Stream!Next
    <2> QED BY <2>1, <2>2
  <1>11. CASE \E n \in 0 .. MaxPut : \E s \in [1 .. n -> Char] : sputn(s)
    <2> PICK n \in 0 .. MaxPut : \E s \in [1 .. n -> Char] : sputn(s)
      BY <1>11
    <2> PICK s \in [1 .. n -> Char] : sputn(s)
      OBVIOUS
    <2>1. n \in Nat
      BY FileBufAssumption
    <2>2. s \in Seq(Char) /\ Len(s) = n
      BY <2>1
    <2>3. IInv' /\ (Stream!Put(s) \/ Stream!Refuse)
      BY <2>2, sputnStep
    <2>4. n \in 0 .. MaxLen
      <3> PICK o \in Nat, p \in Nat : o = fb.off /\ p = Len(fb.put)
        <4>1. Pointers(fb)
          BY Points DEF IInv
        <4> QED BY <4>1 DEF Pointers
      <3>1. o + p + n <= MaxLen
        BY <2>2 DEF sputn, MayPut
      <3> QED BY ONLY <2>1, <3>1, o \in Nat, p \in Nat, FileBufAssumption
    <2>5. Stream!Put(s) => \E k \in 0 .. MaxLen : \E u \in [1 .. k -> Char] : Stream!Put(u)
      BY <2>4
    <2> QED BY <2>3, <2>5 DEF Stream!Next
  <1>12. CASE \E o \in -1 .. MaxLen, way \in {"beg", "cur", "end"} : seekoff(o, way)
    <2> PICK o \in -1 .. MaxLen, way \in {"beg", "cur", "end"} : seekoff(o, way)
      BY <1>12
    <2>1. o \in Int /\ o \in -(MaxLen + 1) .. MaxLen
      BY FileBufAssumption
    <2>2. IInv' /\ Stream!Seek(way, o)
      BY <2>1, seekoffStep
    <2> QED BY <2>1, <2>2 DEF Stream!Next
  <1> QED BY <1>1, <1>2, <1>3, <1>4, <1>5, <1>6, <1>7, <1>8, <1>9, <1>10, <1>11, <1>12 DEF Next

\* Nothing is called.
LEMMA Stuttering ==
  ASSUME IInv, UNCHANGED vars
  PROVE  IInv' /\ UNCHANGED Stream!vars
  <1>1. fb' = fb /\ ret' = ret
    BY DEF vars
  <1>2. IInv'
    BY <1>1 DEF IInv, Synced
  <1> QED BY <1>1, <1>2, NothingSeen DEF Stream!vars

\* The inductive invariant: the buffer is the get area or the put area, the get
\* area is a copy of the file, and without a file there is neither.
THEOREM Invariant ==
  ASSUME ~PastEnd PROVE Spec => []IInv
  <1>1. Init => IInv
    BY InitGood
  <1>2. IInv /\ [Next]_vars => IInv'
    BY Steps, Stuttering
  <1> QED BY <1>1, <1>2, PTL DEF Spec

\* _M_buf is never the get area and the put area at once, and the flags that
\* underflow and overflow go by say which.
THEOREM OneArea ==
  ASSUME ~PastEnd PROVE Spec => []OneBuffer
  <1>1. IInv => OneBuffer
    <2> SUFFICES ASSUME IInv PROVE OneBuffer
      OBVIOUS
    <2>1. Good(fb) /\ fb \in FileBuffer
      BY DEF IInv, Good
    <2>2. Pointers(fb)
      BY <2>1, Points
    <2>3. TypeOK
      <3>1. fb.off \in 0 .. Len(fb.file) /\ fb.next \in 0 .. Len(fb.get)
        BY <2>2 DEF Pointers
      <3>2. Len(fb.pback) <= 1 /\ fb.taken \in 0 .. Len(fb.pback)
        <4>1. fb.taken \in Nat /\ Len(fb.pback) \in Nat
          BY <2>1 DEF FileBuffer
        <4>2. Len(fb.pback) <= 1 /\ fb.taken <= Len(fb.pback)
          BY <2>1 DEF Good, Ranges
        <4> QED BY ONLY <4>1, <4>2
      <3>3. /\ fb.file \in Seq(Char) /\ fb.mode \in SUBSET {"in", "out"}
            /\ fb.buf_size \in BufSizes /\ fb.get \in Seq(Char) /\ fb.put \in Seq(Char)
            /\ fb.reading \in BOOLEAN /\ fb.writing \in BOOLEAN /\ fb.pback \in Seq(Char)
        BY <2>1 DEF FileBuffer
      <3>4. fb.room \in {0, fb.buf_size - 1}
        BY <2>1 DEF Good, Ranges
      <3> QED BY <3>1, <3>2, <3>3, <3>4 DEF TypeOK
    <2>4. /\ fb.get # << >> => fb.reading /\ fb.put = << >> /\ Len(fb.get) <= BufLen(fb)
          /\ fb.put # << >> => fb.writing /\ ~fb.reading /\ Len(fb.put) <= fb.room
          /\ ~(fb.reading /\ fb.writing)
      BY <2>1 DEF Good, GetArea, PutArea
    <2>5. fb.pback # << >> => fb.reading
      <3> SUFFICES ASSUME fb.pback # << >> PROVE fb.reading
        OBVIOUS
      <3>1. fb.next < Len(fb.get) /\ fb.next \in Nat
        BY <2>2 DEF Pointers
      <3>2. Len(fb.get) # 0
        BY ONLY <3>1
      <3> QED BY <2>2, <3>2 DEF Pointers
    <2> QED BY <2>3, <2>4, <2>5 DEF OneBuffer
  <1> QED BY <1>1, Invariant, PTL

\* What can be read or gone back to in the buffer is what the file has there.
THEOREM AreaFresh ==
  ASSUME ~PastEnd PROVE Spec => []GetAreaFresh
  <1>1. IInv => GetAreaFresh
    <2> SUFFICES ASSUME IInv PROVE GetAreaFresh
      OBVIOUS
    <2>1. Good(fb)
      BY DEF IInv
    <2>2. Pointers(fb)
      BY <2>1, Points
    <2> PICK o \in Nat, g \in Nat, m \in Nat : o = fb.off /\ g = Len(fb.get) /\ m = Len(fb.file)
      BY <2>2 DEF Pointers
    <2>3. g <= o /\ o <= m /\ fb.file \in Seq(Char) /\ fb.get \in Seq(Char)
      BY <2>2 DEF Pointers
    <2> PICK p \in Nat : p = o - g
      BY <2>3
    <2>4. p + g = o /\ p + 1 = o - g + 1 /\ p + g <= m
      BY ONLY <2>3, o \in Nat, g \in Nat, m \in Nat, p = o - g
    <2>5. IsPart(SubSeq(fb.file, p + 1, p + g), fb.file, p, g)
      BY <2>3, <2>4, PartOf
    <2> PICK t : t = SubSeq(fb.file, p + 1, p + g)
      OBVIOUS
    <2>6. t \in Seq(Char) /\ Len(t) = g /\ \A i \in 1 .. g : t[i] = fb.file[p + i]
      BY <2>5 DEF IsPart
    <2>7. \A i \in 1 .. g : fb.get[i] = fb.file[o - g + i]
      BY <2>1 DEF Good, GetArea
    <2>8. fb.get = t
      <3> PICK u : u = fb.get
        OBVIOUS
      <3>1. \A i \in 1 .. g : u[i] = t[i]
        BY <2>6, <2>7
      <3>2. u \in Seq(Char) /\ Len(u) = g /\ t \in Seq(Char) /\ Len(t) = g
        BY <2>3, <2>6
      <3>3. u = t
        BY ONLY <3>1, <3>2, SameSeq
      <3> QED BY <3>3
    <2>9. t = SubSeq(fb.file, o - g + 1, o)
      BY <2>4
    <2> QED BY <2>3, <2>8, <2>9 DEF GetAreaFresh
  <1> QED BY <1>1, Invariant, PTL

\* After sync, close, imbue or a seek nothing that was written is only in the
\* buffer.
THEOREM WrittenOut ==
  ASSUME ~PastEnd PROVE Spec => []Synced
  <1>1. IInv => Synced
    BY DEF IInv
  <1> QED BY <1>1, Invariant, PTL

\* The program sees the file itself: every call of the buffered object, with the
\* calls that it makes, is one call of the stream without a buffer.
THEOREM SeesTheFile ==
  ASSUME ~PastEnd PROVE Spec => ImplementsStream
  <1>1. Init => Stream!Init
    BY InitGood
  <1>2. IInv /\ [Next]_vars => [Stream!Next]_(Stream!vars)
    BY Steps, Stuttering
  <1> QED BY <1>1, <1>2, Invariant, PTL DEF Spec, Stream!Spec, ImplementsStream
=============================================================================
