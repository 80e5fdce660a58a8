-------------------------- MODULE StringEditProofs --------------------------
(***************************************************************************)
(* For every set of characters and every max_size(): an edit whose         *)
(* argument lies in the string itself gives what it would give with a copy *)
(* of the argument.  Every function of StringEdit is shown to splice:      *)
(* Spliced says, cell by cell, what it leaves in memory.                   *)
(***************************************************************************)
EXTENDS StringEdit, TLAPS

Cells == Letter \cup {Nul, Junk}

Memory == UNION {[0 .. k -> Cells] : k \in Nat}

Strings == [mem : Memory, len : Nat, cap : Nat, shared : BOOLEAN]

\* A string as the functions expect it: ended within its capacity.
Sound(b) ==
  /\ b \in Strings
  /\ b.len <= b.cap
  /\ b.mem \in [0 .. b.cap -> Cells]
  /\ b.mem[b.len] = Nul

\* Of the characters of b, n1 at p have become n2 that stand at q in from.
Spliced(c, b, p, n1, from, q, n2) ==
  /\ Sound(c)
  /\ c.len = b.len - n1 + n2
  /\ \A i \in 0 .. c.len - 1 :
       c.mem[i] = IF i < p THEN b.mem[i]
                  ELSE IF i < p + n2 THEN from[q + i - p]
                  ELSE b.mem[i - n2 + n1]

\* _M_mutate has made a gap of n2 cells at p in place of n1 characters of b.
Gapped(c, b, p, n1, n2) ==
  /\ Sound(c) /\ c.len = b.len + n2 - n1
  /\ \A i \in 0 .. p - 1 : c.mem[i] = b.mem[i]
  /\ \A i \in p + n2 .. c.len : c.mem[i] = b.mem[i - n2 + n1]

\* There are n characters from q on in from.
Readable(from, q, n) == \A j \in 0 .. n - 1 : from[q + j] \in Cells

\* The string c with n cells at p written, from q in from.
Fill(c, p, from, q, n) == [c EXCEPT !.mem = Written(c.mem, p, from, q, n)]

\* What that leaves in the string d.
Filled(d, c, p, from, q, n) ==
  /\ Sound(d) /\ d.len = c.len /\ d.cap = c.cap
  /\ \A i \in 0 .. c.len : d.mem[i] =
       IF p <= i /\ i < p + n THEN from[q + i - p] ELSE c.mem[i]

\* The same, with q and from as they were before the gap was made.
Pasted(d, c, p, n, from, q) ==
  /\ Sound(d) /\ d.len = c.len
  /\ \A i \in p .. p + n - 1 : d.mem[i] = from[q + i - p]
  /\ \A i \in 0 .. c.len : i \notin p .. p + n - 1 => d.mem[i] = c.mem[i]

\* The inductive invariant.
EInv ==
  /\ Sound(text)
  /\ value \in Seq(Cells)
  /\ EditsExact

\* _M_mutate keeps what lies before and behind the gap.
LEMMA MutatedKeeps ==
  ASSUME NEW b, Sound(b), NEW p \in Nat, NEW n1 \in Nat, NEW n2 \in Nat,
         p + n1 <= b.len, NEW k \in Nat, b.len + n2 - n1 <= k
  PROVE  Gapped(Mutated(b, p, n1, n2, k), b, p, n1, n2)
  <1> DEFINE size == b.len + n2 - n1
             rest == b.len - p - n1
             fresh == [i \in 0 .. k |-> Junk]
             head == Written(fresh, 0, b.mem, 0, p)
             new == Written(head, p + n2, b.mem, p + n1, rest)
             old == Written(b.mem, p + n2, b.mem, p + n1, rest)
             c == Mutated(b, p, n1, n2, k)
  <1>1. /\ b.len \in Nat /\ b.cap \in Nat /\ b.len <= b.cap
        /\ b.mem \in [0 .. b.cap -> Cells] /\ b.mem[b.len] = Nul
    BY DEF Sound, Strings
  <1>2. /\ size \in Nat /\ rest \in Nat /\ size <= k
        /\ size = p + n2 + rest /\ b.len = p + n1 + rest
    <2> PICK L \in Nat : L = b.len
      BY <1>1
    <2>1. /\ L - p - n1 \in Nat /\ L = p + n1 + (L - p - n1)
          /\ L + n2 - n1 = p + n2 + (L - p - n1)
      OBVIOUS
    <2> QED BY <2>1
  <1> HIDE DEF size, rest, fresh, head, new, old, c
  <1> SUFFICES Gapped(c, b, p, n1, n2)
    BY DEF c
  <1>3. \A i \in Nat : p + n2 <= i /\ i < p + n2 + rest =>
          b.mem[p + n1 + i - (p + n2)] \in Cells
    <2> SUFFICES ASSUME NEW i \in Nat, p + n2 <= i, i < p + n2 + rest
                 PROVE  b.mem[p + n1 + i - (p + n2)] \in Cells
      OBVIOUS
    <2>1. p + n1 + i - (p + n2) \in 0 .. b.cap
      BY <1>1, <1>2
    <2> QED BY <1>1, <2>1
  <1>4. \A i \in Int : i \in p + n2 .. p + n2 + rest - 1 <=>
                        p + n2 <= i /\ i < p + n2 + rest
    BY <1>2
  <1>5. size - n2 + n1 = b.len
    BY <1>1, <1>2
  <1>6. CASE size > b.cap \/ b.shared
    <2>1. /\ head \in [0 .. k -> Cells]
          /\ \A i \in 0 .. k : i < p => head[i] = b.mem[i]
      <3>1. head = [i \in 0 .. k |-> IF i \in 0 .. 0 + p - 1 THEN b.mem[0 + i - 0]
                                     ELSE Junk]
        BY DEF Written, head, fresh
      <3>2. \A i \in 0 .. k : i \in 0 .. 0 + p - 1 => b.mem[0 + i - 0] \in Cells
        <4> SUFFICES ASSUME NEW i \in 0 .. k, i \in 0 .. 0 + p - 1
                     PROVE  b.mem[0 + i - 0] \in Cells
          OBVIOUS
        <4>1. 0 + i - 0 \in 0 .. b.cap
          BY <1>1, <1>2
        <4> QED BY <1>1, <4>1
      <3>3. \A i \in 0 .. k : i < p => i \in 0 .. 0 + p - 1 /\ 0 + i - 0 = i
        OBVIOUS
      <3> QED BY <3>1, <3>2, <3>3 DEF Cells
    <2>2. /\ new \in [0 .. k -> Cells]
          /\ \A i \in 0 .. k : new[i] =
               IF p + n2 <= i /\ i < p + n2 + rest
               THEN b.mem[p + n1 + i - (p + n2)] ELSE head[i]
      <3>1. new = [i \in 0 .. k |-> IF i \in p + n2 .. p + n2 + rest - 1
                                    THEN b.mem[p + n1 + i - (p + n2)] ELSE head[i]]
        BY <2>1 DEF Written, new
      <3>2. \A i \in 0 .. k : new[i] =
              IF p + n2 <= i /\ i < p + n2 + rest
              THEN b.mem[p + n1 + i - (p + n2)] ELSE head[i]
        BY <1>4, <3>1
      <3>3. \A i \in 0 .. k : new[i] \in Cells
        <4> TAKE i \in 0 .. k
        <4>1. CASE p + n2 <= i /\ i < p + n2 + rest
          <5>1. i \in Nat
            OBVIOUS
          <5>2. b.mem[p + n1 + i - (p + n2)] \in Cells
            BY <1>3, <4>1, <5>1
          <5> QED BY <3>2, <4>1, <5>2
        <4>2. CASE ~(p + n2 <= i /\ i < p + n2 + rest)
          <5>1. head[i] \in Cells
            BY <2>1
          <5> QED BY <3>2, <4>2, <5>1
        <4> QED BY <4>1, <4>2
      <3> QED BY <3>1, <3>2, <3>3
    <2>3. c = [mem |-> [new EXCEPT ![size] = Nul], len |-> size, cap |-> k,
               shared |-> FALSE]
      BY <1>6 DEF Mutated, c, new, head, fresh, size, rest
    <2>4. [new EXCEPT ![size] = Nul] \in [0 .. k -> Cells]
      BY <1>2, <2>2 DEF Cells
    <2>5. [new EXCEPT ![size] = Nul] \in Memory
      BY <2>4 DEF Memory
    <2>6. Sound(c)
      BY <1>2, <2>2, <2>3, <2>4, <2>5 DEF Sound, Strings
    <2>7. \A i \in 0 .. p - 1 : c.mem[i] = b.mem[i]
      <3> SUFFICES ASSUME NEW i \in 0 .. p - 1 PROVE c.mem[i] = b.mem[i]
        OBVIOUS
      <3>1. i \in 0 .. k /\ i < p /\ i # size /\ ~(p + n2 <= i)
        BY <1>2
      <3>2. c.mem[i] = new[i]
        BY <2>2, <2>3, <3>1
      <3> QED BY <2>1, <2>2, <3>1, <3>2
    <2>8. \A i \in p + n2 .. size : c.mem[i] = b.mem[i - n2 + n1]
      <3> SUFFICES ASSUME NEW i \in p + n2 .. size
                   PROVE  c.mem[i] = b.mem[i - n2 + n1]
        OBVIOUS
      <3>1. CASE i = size
        BY SMTT(40), <1>1, <1>2, <1>5, <2>2, <2>3, <3>1
      <3>2. CASE i # size
        <4>1. /\ i \in 0 .. k /\ p + n2 <= i /\ i < p + n2 + rest
              /\ p + n1 + i - (p + n2) = i - n2 + n1
          BY <1>2, <3>2
        <4>2. c.mem[i] = new[i]
          BY <2>2, <2>3, <3>2, <4>1
        <4> QED BY <2>2, <4>1, <4>2
      <3> QED BY <3>1, <3>2
    <2>9. c.len = size
      BY <2>3
    <2> QED BY <2>6, <2>7, <2>8, <2>9 DEF Gapped, size
  <1>7. CASE ~(size > b.cap \/ b.shared)
    <2>1. /\ old \in [0 .. b.cap -> Cells]
          /\ \A i \in 0 .. b.cap : old[i] =
               IF p + n2 <= i /\ i < p + n2 + rest
               THEN b.mem[p + n1 + i - (p + n2)] ELSE b.mem[i]
      <3>1. old = [i \in 0 .. b.cap |-> IF i \in p + n2 .. p + n2 + rest - 1
                                        THEN b.mem[p + n1 + i - (p + n2)]
                                        ELSE b.mem[i]]
        BY <1>1 DEF Written, old
      <3>2. \A i \in 0 .. b.cap : old[i] =
              IF p + n2 <= i /\ i < p + n2 + rest
              THEN b.mem[p + n1 + i - (p + n2)] ELSE b.mem[i]
        BY <1>1, <1>4, <3>1
      <3>3. \A i \in 0 .. b.cap : old[i] \in Cells
        <4> TAKE i \in 0 .. b.cap
        <4>1. CASE p + n2 <= i /\ i < p + n2 + rest
          <5>1. i \in Nat
            BY <1>1
          <5>2. b.mem[p + n1 + i - (p + n2)] \in Cells
            BY <1>3, <4>1, <5>1
          <5> QED BY <3>2, <4>1, <5>2
        <4>2. CASE ~(p + n2 <= i /\ i < p + n2 + rest)
          <5>1. b.mem[i] \in Cells
            BY <1>1
          <5> QED BY <3>2, <4>2, <5>1
        <4> QED BY <4>1, <4>2
      <3> QED BY <3>1, <3>2, <3>3
    <2>2. c = [b EXCEPT !.mem = [old EXCEPT ![size] = Nul], !.len = size]
      BY <1>7 DEF Mutated, c, old, size, rest
    <2>3. [old EXCEPT ![size] = Nul] \in [0 .. b.cap -> Cells]
      BY <2>1 DEF Cells
    <2>4. [old EXCEPT ![size] = Nul] \in Memory
      BY <1>1, <2>3 DEF Memory
    <2>5. /\ c \in Strings /\ c.len = size /\ c.cap = b.cap
          /\ c.mem = [old EXCEPT ![size] = Nul]
      BY <1>2, <2>2, <2>4 DEF Sound, Strings
    <2>6. size \in 0 .. b.cap
      BY <1>1, <1>2, <1>7
    <2>7. Sound(c)
      BY <1>1, <2>1, <2>3, <2>5, <2>6 DEF Sound
    <2>8. \A i \in 0 .. p - 1 : c.mem[i] = b.mem[i]
      <3> SUFFICES ASSUME NEW i \in 0 .. p - 1 PROVE c.mem[i] = b.mem[i]
        OBVIOUS
      <3>1. i \in 0 .. b.cap /\ i # size /\ ~(p + n2 <= i)
        BY <1>1, <1>2
      <3> QED BY <2>1, <2>5, <3>1
    <2>9. \A i \in p + n2 .. size : c.mem[i] = b.mem[i - n2 + n1]
      <3> SUFFICES ASSUME NEW i \in p + n2 .. size
                   PROVE  c.mem[i] = b.mem[i - n2 + n1]
        OBVIOUS
      <3>1. CASE i = size
        BY <1>1, <1>5, <2>1, <2>5, <2>6, <3>1
      <3>2. CASE i # size
        <4>1. /\ i \in 0 .. b.cap /\ p + n2 <= i /\ i < p + n2 + rest
              /\ p + n1 + i - (p + n2) = i - n2 + n1
          BY SMTT(40), <1>1, <1>2, <2>6, <3>2
        <4> QED BY <2>1, <2>5, <3>2, <4>1
      <3> QED BY <3>1, <3>2
    <2> QED BY <2>5, <2>7, <2>8, <2>9 DEF Gapped, size
  <1> QED BY <1>6, <1>7

\* Writing to the gap of a string, from memory of its own or of another.
LEMMA WrittenSound ==
  ASSUME NEW c, Sound(c), NEW p \in Nat, NEW n \in Nat, p + n <= c.len,
         NEW from, NEW q \in Int, Readable(from, q, n)
  PROVE  Filled(Fill(c, p, from, q, n), c, p, from, q, n)
  <1> PICK d : d = Fill(c, p, from, q, n)
    OBVIOUS
  <1> DEFINE w == Written(c.mem, p, from, q, n)
  <1>1. /\ c.len \in Nat /\ c.cap \in Nat /\ c.len <= c.cap /\ c \in Strings
        /\ c.mem \in [0 .. c.cap -> Cells] /\ c.mem[c.len] = Nul
    BY DEF Sound, Strings
  <1>2. \A i \in 0 .. c.cap : i \in p .. p + n - 1 => from[q + i - p] \in Cells
    <2> TAKE i \in 0 .. c.cap
    <2> HAVE i \in p .. p + n - 1
    <2>1. i - p \in 0 .. n - 1 /\ q + (i - p) = q + i - p
      BY <1>1
    <2>2. from[q + (i - p)] \in Cells
      BY <2>1 DEF Readable
    <2> QED BY <2>1, <2>2
  <1>3. /\ w \in [0 .. c.cap -> Cells]
        /\ \A i \in 0 .. c.cap : w[i] =
             IF p <= i /\ i < p + n THEN from[q + i - p] ELSE c.mem[i]
    <2>1. c.cap \in Nat /\ c.mem \in [0 .. c.cap -> Cells]
      BY <1>1
    <2>2. \A i \in 0 .. c.cap : i \in p .. p + n - 1 => from[q + i - p] \in Cells
      BY <1>2
    <2>3. w = [i \in 0 .. c.cap |-> IF i \in p .. p + n - 1 THEN from[q + i - p]
                                    ELSE c.mem[i]]
      BY <2>1 DEF Written
    <2>4. \A i \in 0 .. c.cap : i \in p .. p + n - 1 <=> p <= i /\ i < p + n
      BY <2>1
    <2> HIDE DEF w
    <2>5. /\ w \in [0 .. c.cap -> Cells]
          /\ \A i \in 0 .. c.cap : w[i] =
               IF p <= i /\ i < p + n THEN from[q + i - p] ELSE c.mem[i]
      BY <2>1, <2>2, <2>3, <2>4
    <2> QED BY <2>5
  <1> HIDE DEF w
  <1>4. w \in Memory
    BY <1>1, <1>3 DEF Memory
  <1>5. d \in Strings /\ d.mem = w /\ d.len = c.len /\ d.cap = c.cap
    BY <1>1, <1>4 DEF Strings, w, Fill
  <1>6. c.len \in 0 .. c.cap /\ ~(p <= c.len /\ c.len < p + n)
    BY <1>1
  <1>7. w[c.len] = Nul
    BY <1>1, <1>3, <1>6
  <1>8. \A i \in 0 .. c.len : i \in 0 .. c.cap
    BY <1>1
  <1>9. Sound(d)
    BY <1>1, <1>3, <1>5, <1>7 DEF Sound
  <1> QED BY <1>3, <1>5, <1>8, <1>9 DEF Filled

\* _M_replace_safe splices.
LEMMA ReplacedSafeSplices ==
  ASSUME NEW b, Sound(b), NEW p \in Nat, NEW n1 \in Nat, NEW n2 \in Nat,
         p + n1 <= b.len, NEW k \in Nat, b.len + n2 - n1 <= k,
         NEW from, NEW q \in Int, Readable(from, q, n2)
  PROVE  Spliced(ReplacedSafe(b, p, n1, from, q, n2, k), b, p, n1, from, q, n2)
  <1> PICK c : c = Mutated(b, p, n1, n2, k)
    OBVIOUS
  <1> PICK d : d = Fill(c, p, from, q, n2)
    OBVIOUS
  <1>1. /\ Sound(c) /\ c.len = b.len + n2 - n1
        /\ \A i \in 0 .. p - 1 : c.mem[i] = b.mem[i]
        /\ \A i \in p + n2 .. c.len : c.mem[i] = b.mem[i - n2 + n1]
    <2>1. Gapped(Mutated(b, p, n1, n2, k), b, p, n1, n2)
      BY MutatedKeeps
    <2> QED BY <2>1 DEF Gapped
  <1>2. d = ReplacedSafe(b, p, n1, from, q, n2, k)
    BY DEF ReplacedSafe, Fill
  <1>3. b.len \in Nat /\ c.len \in Nat /\ p + n2 <= c.len
    BY <1>1 DEF Sound, Strings
  <1>4. /\ Sound(d) /\ d.len = c.len
        /\ \A i \in 0 .. c.len : d.mem[i] =
             IF p <= i /\ i < p + n2 THEN from[q + i - p] ELSE c.mem[i]
    <2>1. Filled(d, c, p, from, q, n2)
      BY <1>1, <1>3, WrittenSound
    <2> QED BY <2>1 DEF Filled
  <1>5. ASSUME NEW i \in 0 .. c.len - 1
        PROVE  d.mem[i] = IF i < p THEN b.mem[i]
                          ELSE IF i < p + n2 THEN from[q + i - p]
                          ELSE b.mem[i - n2 + n1]
    <2>1. i \in 0 .. c.len
      BY <1>3
    <2>2. CASE i < p
      BY <1>1, <1>3, <1>4, <2>1, <2>2
    <2>3. CASE p <= i /\ i < p + n2
      BY <1>4, <2>1, <2>3
    <2>4. CASE p + n2 <= i
      <3>1. d.mem[i] = c.mem[i]
        BY <1>4, <2>1, <2>4
      <3>2. i \in p + n2 .. c.len /\ ~(i < p) /\ ~(i < p + n2)
        BY <2>1, <2>4
      <3> QED BY <1>1, <3>1, <3>2
    <2> QED BY <2>2, <2>3, <2>4
  <1>6. d.len = b.len - n1 + n2
    BY <1>1, <1>3, <1>4
  <1> QED BY <1>2, <1>4, <1>5, <1>6 DEF Spliced

\* A copy within a string, of a range that may end with the terminator.
LEMMA CopyInSound ==
  ASSUME NEW c, Sound(c), NEW p \in Nat, NEW n \in Nat, p + n <= c.len,
         NEW q \in Nat, q + n <= c.len + 1, ~Overlap(p, q, n)
  PROVE  Filled(CopyIn(c, p, q, n), c, p, c.mem, q, n)
  <1> PICK from : from = c.mem
    OBVIOUS
  <1>1. /\ c.len \in Nat /\ c.cap \in Nat /\ c.len <= c.cap
        /\ from \in [0 .. c.cap -> Cells]
    BY DEF Sound, Strings
  <1>2. \A j \in 0 .. n - 1 : q + j \in 0 .. c.cap
    BY <1>1
  <1>3. Readable(from, q, n)
    BY <1>1, <1>2 DEF Readable
  <1>4. CopyIn(c, p, q, n) = Fill(c, p, from, q, n)
    BY DEF CopyIn, Fill
  <1> QED BY <1>3, <1>4, WrittenSound

\* What is copied within a string that has come through _M_mutate.
LEMMA CopySplices ==
  ASSUME NEW b, Sound(b), NEW p \in Nat, NEW n1 \in Nat, NEW n2 \in Nat,
         p + n1 <= b.len, NEW q \in Nat, q + n2 <= b.len + 1,
         NEW c, Gapped(c, b, p, n1, n2),
         NEW d, Pasted(d, c, p, n2, b.mem, q)
  PROVE  Spliced(d, b, p, n1, b.mem, q, n2)
  <1>0. /\ Sound(c) /\ c.len = b.len + n2 - n1 /\ Sound(d) /\ d.len = c.len
        /\ \A i \in 0 .. p - 1 : c.mem[i] = b.mem[i]
        /\ \A i \in p + n2 .. c.len : c.mem[i] = b.mem[i - n2 + n1]
        /\ \A i \in p .. p + n2 - 1 : d.mem[i] = b.mem[q + i - p]
        /\ \A i \in 0 .. c.len : i \notin p .. p + n2 - 1 => d.mem[i] = c.mem[i]
    BY DEF Gapped, Pasted
  <1>1. /\ b.len \in Nat /\ c.len \in Nat
        /\ c.len = b.len + n2 - n1 /\ d.len = c.len
    BY <1>0 DEF Sound, Strings
  <1>2. ASSUME NEW i \in 0 .. d.len - 1
        PROVE  d.mem[i] = IF i < p THEN b.mem[i]
                          ELSE IF i < p + n2 THEN b.mem[q + i - p]
                          ELSE b.mem[i - n2 + n1]
    <2>1. i \in 0 .. c.len
      BY <1>1
    <2>2. CASE i < p
      <3>1. i \in 0 .. p - 1 /\ i \notin p .. p + n2 - 1
        BY <2>1, <2>2
      <3> QED BY <1>0, <2>1, <2>2, <3>1
    <2>3. CASE p <= i /\ i < p + n2
      <3>1. i \in p .. p + n2 - 1 /\ ~(i < p)
        BY <2>1, <2>3
      <3> QED BY <1>0, <2>3, <3>1
    <2>4. CASE p + n2 <= i
      <3>1. i \in p + n2 .. c.len /\ ~(i < p) /\ ~(i < p + n2)
            /\ i \notin p .. p + n2 - 1
        BY <2>1, <2>4
      <3> QED BY <1>0, <2>1, <3>1
    <2> QED BY <2>2, <2>3, <2>4
  <1>3. d.len = b.len - n1 + n2
    BY <1>1
  <1> QED BY <1>0, <1>2, <1>3 DEF Spliced

\* A copy of characters that lie before the gap.
LEMMA CopyBefore ==
  ASSUME NEW b, Sound(b), NEW p \in Nat, NEW n1 \in Nat, NEW n2 \in Nat,
         p + n1 <= b.len, NEW q \in Nat, q + n2 <= p,
         NEW c, Gapped(c, b, p, n1, n2)
  PROVE  Spliced(CopyIn(c, p, q, n2), b, p, n1, b.mem, q, n2)
  <1> PICK d : d = CopyIn(c, p, q, n2)
    OBVIOUS
  <1>1. /\ b.len \in Nat /\ c.len \in Nat /\ c.len = b.len + n2 - n1 /\ Sound(c)
        /\ \A i \in 0 .. p - 1 : c.mem[i] = b.mem[i]
    BY DEF Gapped, Sound, Strings
  <1>2. p + n2 <= c.len /\ q + n2 <= c.len + 1 /\ ~Overlap(p, q, n2)
    BY <1>1 DEF Overlap
  <1>3. Filled(d, c, p, c.mem, q, n2)
    BY <1>1, <1>2, CopyInSound
  <1>4. \A i \in p .. p + n2 - 1 : d.mem[i] = b.mem[q + i - p]
    <2> TAKE i \in p .. p + n2 - 1
    <2>1. /\ i \in 0 .. c.len /\ p <= i /\ i < p + n2
          /\ q + i - p \in 0 .. p - 1
      BY <1>1, <1>2
    <2>2. d.mem[i] = c.mem[q + i - p]
      BY <1>3, <2>1 DEF Filled
    <2> QED BY <1>1, <2>1, <2>2
  <1>5. \A i \in 0 .. c.len : i \notin p .. p + n2 - 1 => d.mem[i] = c.mem[i]
    BY <1>1, <1>3 DEF Filled
  <1>6. Pasted(d, c, p, n2, b.mem, q)
    BY <1>3, <1>4, <1>5 DEF Filled, Pasted
  <1>7. q + n2 <= b.len + 1
    BY <1>1
  <1> QED BY <1>6, <1>7, CopySplices

\* A copy of characters that lay behind what made way for the gap.
LEMMA CopyBehind ==
  ASSUME NEW b, Sound(b), NEW p \in Nat, NEW n1 \in Nat, NEW n2 \in Nat,
         p + n1 <= b.len, NEW q \in Nat, p + n1 <= q, q + n2 <= b.len + 1,
         NEW c, Gapped(c, b, p, n1, n2)
  PROVE  Spliced(CopyIn(c, p, q + n2 - n1, n2), b, p, n1, b.mem, q, n2)
  <1> PICK r \in Nat : r = q + n2 - n1
    OBVIOUS
  <1> PICK d : d = CopyIn(c, p, r, n2)
    OBVIOUS
  <1>1. /\ b.len \in Nat /\ c.len \in Nat /\ c.len = b.len + n2 - n1 /\ Sound(c)
        /\ \A i \in p + n2 .. c.len : c.mem[i] = b.mem[i - n2 + n1]
    BY DEF Gapped, Sound, Strings
  <1>2. p + n2 <= c.len /\ r + n2 <= c.len + 1 /\ ~Overlap(p, r, n2)
    BY <1>1 DEF Overlap
  <1>3. Filled(d, c, p, c.mem, r, n2)
    BY <1>1, <1>2, CopyInSound
  <1>4. \A i \in p .. p + n2 - 1 : d.mem[i] = b.mem[q + i - p]
    <2> TAKE i \in p .. p + n2 - 1
    <2>1. /\ i \in 0 .. c.len /\ p <= i /\ i < p + n2
          /\ r + i - p \in p + n2 .. c.len
          /\ (r + i - p) - n2 + n1 = q + i - p
      BY <1>1, <1>2
    <2>2. d.mem[i] = c.mem[r + i - p]
      BY <1>3, <2>1 DEF Filled
    <2> QED BY <1>1, <2>1, <2>2
  <1>5. \A i \in 0 .. c.len : i \notin p .. p + n2 - 1 => d.mem[i] = c.mem[i]
    BY <1>1, <1>3 DEF Filled
  <1>6. Pasted(d, c, p, n2, b.mem, q)
    BY <1>3, <1>4, <1>5 DEF Filled, Pasted
  <1> QED BY <1>6, CopySplices

\* A copy from the string's own memory, shared with another, to a new _Rep; or
\* from a copy of the argument.
LEMMA CopyElsewhere ==
  ASSUME NEW b, Sound(b), NEW p \in Nat, NEW n1 \in Nat, NEW n2 \in Nat,
         p + n1 <= b.len, NEW q \in Nat, q + n2 <= b.len + 1,
         NEW k \in Nat, b.len + n2 - n1 <= k
  PROVE  Spliced(ReplacedSafe(b, p, n1, b.mem, q, n2, k), b, p, n1, b.mem, q, n2)
  <1> PICK from : from = b.mem
    OBVIOUS
  <1>1. /\ b.len \in Nat /\ b.cap \in Nat /\ b.len <= b.cap
        /\ from \in [0 .. b.cap -> Cells]
    BY DEF Sound, Strings
  <1>2. \A j \in 0 .. n2 - 1 : q + j \in 0 .. b.cap
    BY SMTT(40), <1>1
  <1>3. Readable(from, q, n2) /\ q \in Int
    BY SMTT(40), <1>1, <1>2 DEF Readable
  <1>4. Spliced(ReplacedSafe(b, p, n1, from, q, n2, k), b, p, n1, from, q, n2)
    BY <1>3, ReplacedSafeSplices
  <1> QED BY <1>4

\* insert splices, wherever in the string its argument lies.
LEMMA InsertedSplices ==
  ASSUME NEW b, Sound(b), NEW p \in Nat, p <= b.len,
         NEW q \in Nat, NEW n \in Nat, q + n <= b.len + 1,
         NEW k \in Nat, b.len + n <= k
  PROVE  Spliced(Inserted(b, p, q, n, k), b, p, 0, b.mem, q, n)
  <1> PICK from : from = b.mem
    OBVIOUS
  <1> PICK c : c = Mutated(b, p, 0, n, k)
    OBVIOUS
  <1> PICK d : d = Inserted(b, p, q, n, k)
    OBVIOUS
  <1>1. /\ b.len \in Nat /\ b.cap \in Nat /\ b.len <= b.cap
        /\ from \in [0 .. b.cap -> Cells] /\ b.mem[b.len] = Nul
    BY DEF Sound, Strings
  <1>2. p + 0 <= b.len /\ b.len + n - 0 <= k /\ 0 \in Nat
    BY <1>1
  <1>10. Gapped(c, b, p, 0, n)
    BY <1>2, MutatedKeeps
  <1>3. /\ Sound(c) /\ c.len = b.len + n - 0
        /\ \A i \in 0 .. p - 1 : c.mem[i] = from[i]
        /\ \A i \in p + n .. c.len : c.mem[i] = from[i - n + 0]
    BY <1>10 DEF Gapped
  <1> PICK size \in Nat : size = b.len
    BY <1>1
  <1>4. /\ c.len \in Nat /\ c.len = size + n
        /\ p <= size /\ q + n <= size + 1
    BY <1>1, <1>3
  <1>5. CASE b.shared
    <2>1. Inserted(b, p, q, n, k) = ReplacedSafe(b, p, 0, b.mem, q, n, k)
      BY <1>5 DEF Inserted
    <2> QED BY <1>2, <2>1, CopyElsewhere
  <1>6. ASSUME Pasted(d, c, p, n, b.mem, q)
        PROVE  Spliced(d, b, p, 0, b.mem, q, n)
    BY <1>2, <1>10, <1>6, CopySplices
  <1>7. CASE ~b.shared /\ q + n <= p
    <2>1. d = CopyIn(c, p, q, n)
      BY <1>7 DEF Inserted
    <2> QED BY <1>2, <1>10, <1>7, <2>1, CopyBefore
  <1>8. CASE ~b.shared /\ ~(q + n <= p) /\ q >= p
    <2>1. d = CopyIn(c, p, q + n - 0, n)
      BY <1>8 DEF Inserted
    <2>2. p + 0 <= q
      BY <1>8
    <2> QED BY <1>2, <1>10, <2>1, <2>2, CopyBehind
  <1>9. CASE ~b.shared /\ ~(q + n <= p) /\ ~(q >= p)
    <2> PICK left : left = p - q
      OBVIOUS
    <2> PICK e : e = CopyIn(c, p, q, left)
      OBVIOUS
    <2>1. d = CopyIn(e, p + left, p + n, n - left)
      BY <1>9 DEF Inserted
    <2>2. /\ left \in Nat /\ n - left \in Nat /\ q + left = p
          /\ p + left <= c.len /\ q + left <= c.len + 1
          /\ left < n /\ p + n \in Nat /\ p + left \in Nat
          /\ (p + left) + (n - left) <= c.len
          /\ (p + n) + (n - left) <= c.len + 1
          /\ (p + left) + (n - left) = p + n
      BY <1>4, <1>9
    <2>9. ~Overlap(p, q, left) /\ ~Overlap(p + left, p + n, n - left)
      BY <1>9, <2>2 DEF Overlap
    <2>3. Filled(e, c, p, c.mem, q, left)
      BY <1>3, <2>2, <2>9, CopyInSound
    <2>4. Sound(e) /\ e.len = c.len
      BY <2>3 DEF Filled
    <2>5. Filled(d, e, p + left, e.mem, p + n, n - left)
      <3>1. /\ (p + left) + (n - left) <= e.len
            /\ (p + n) + (n - left) <= e.len + 1
        BY <2>2, <2>4
      <3> PICK p2 \in Nat : p2 = p + left
        BY <2>2
      <3> PICK q2 \in Nat : q2 = p + n
        OBVIOUS
      <3> PICK n2 \in Nat : n2 = n - left
        BY <2>2
      <3>2. /\ p2 + n2 <= e.len /\ q2 + n2 <= e.len + 1 /\ ~Overlap(p2, q2, n2)
            /\ d = CopyIn(e, p2, q2, n2)
        BY <2>1, <2>9, <3>1
      <3>3. Filled(d, e, p2, e.mem, q2, n2)
        BY <2>4, <3>2, CopyInSound
      <3> QED BY <3>3
    <2>6. \A i \in p .. p + n - 1 : d.mem[i] = from[q + i - p]
      <3> TAKE i \in p .. p + n - 1
      <3>1. i \in Int /\ i \in 0 .. c.len /\ i \in 0 .. e.len /\ p <= i /\ i < p + n
        BY <1>4, <2>4
      <3>2. CASE i < p + left
        <4>1. q + i - p \in 0 .. p - 1 /\ ~(p + left <= i)
          BY <2>2, <3>1, <3>2
        <4>2. d.mem[i] = e.mem[i]
          BY <2>5, <3>1, <4>1 DEF Filled
        <4>3. e.mem[i] = c.mem[q + i - p]
          BY <2>3, <3>1, <3>2 DEF Filled
        <4> QED BY <1>3, <4>1, <4>2, <4>3
      <3>3. CASE p + left <= i
        <4> PICK j : j = p + n + i - (p + left)
          OBVIOUS
        <4>1. /\ i < (p + left) + (n - left)
              /\ j \in 0 .. c.len /\ j \in p + n .. c.len
              /\ ~(j < p + left) /\ j - n + 0 = q + i - p
          BY <1>4, <1>9, <2>2, <3>1, <3>3
        <4>2. d.mem[i] = e.mem[j]
          BY <2>5, <3>1, <3>3, <4>1 DEF Filled
        <4>3. e.mem[j] = c.mem[j]
          BY <2>3, <4>1 DEF Filled
        <4> QED BY <1>3, <4>1, <4>2, <4>3
      <3> QED BY <2>2, <3>1, <3>2, <3>3
    <2>7. \A i \in 0 .. c.len : i \notin p .. p + n - 1 => d.mem[i] = c.mem[i]
      <3> TAKE i \in 0 .. c.len
      <3> HAVE i \notin p .. p + n - 1
      <3>1. /\ ~(p <= i /\ i < p + left)
            /\ ~(p + left <= i /\ i < (p + left) + (n - left))
            /\ i \in 0 .. e.len
        BY <1>4, <2>2, <2>4
      <3>2. d.mem[i] = e.mem[i]
        BY <2>5, <3>1 DEF Filled
      <3>3. e.mem[i] = c.mem[i]
        BY <2>3, <3>1 DEF Filled
      <3> QED BY <3>2, <3>3
    <2>8. Sound(d) /\ d.len = c.len
      BY <2>4, <2>5 DEF Filled
    <2> QED BY <1>6, <2>6, <2>7, <2>8 DEF Pasted
  <1> QED BY <1>5, <1>7, <1>8, <1>9

\* replace splices, with an argument of its own that overlaps what it replaces,
\* or not.
LEMMA ReplacedSplices ==
  ASSUME NEW b, Sound(b), NEW p \in Nat, NEW n1 \in Nat, p + n1 <= b.len,
         NEW q \in Nat, NEW n2 \in Nat, q + n2 <= b.len + 1,
         NEW k \in Nat, b.len + n2 - n1 <= k
  PROVE  Spliced(Replaced(b, p, n1, q, n2, k), b, p, n1, b.mem, q, n2)
  <1> PICK c : c = Mutated(b, p, n1, n2, k)
    OBVIOUS
  <1>1. Gapped(c, b, p, n1, n2)
    BY MutatedKeeps
  <1>2. CASE b.shared \/ (~(q + n2 <= p) /\ ~(p + n1 <= q))
    <2>1. Replaced(b, p, n1, q, n2, k) = ReplacedSafe(b, p, n1, b.mem, q, n2, k)
      BY <1>2 DEF Replaced
    <2> QED BY <2>1, CopyElsewhere
  <1>3. CASE ~b.shared /\ q + n2 <= p
    <2>1. Replaced(b, p, n1, q, n2, k) = CopyIn(c, p, q, n2)
      BY <1>3 DEF Replaced
    <2> QED BY <1>1, <1>3, <2>1, CopyBefore
  <1>4. CASE ~b.shared /\ ~(q + n2 <= p) /\ p + n1 <= q
    <2>1. Replaced(b, p, n1, q, n2, k) = CopyIn(c, p, q + n2 - n1, n2)
      BY <1>4 DEF Replaced
    <2> QED BY <1>1, <1>4, <2>1, CopyBehind
  <1> QED BY <1>2, <1>3, <1>4

\* reserve keeps the characters and the terminator.
LEMMA ReservedKeeps ==
  ASSUME NEW b, Sound(b), NEW k \in Nat, b.len <= k
  PROVE  /\ Sound(Reserved(b, k))
         /\ Reserved(b, k).len = b.len /\ Reserved(b, k).cap = k
         /\ \A i \in 0 .. b.len : Reserved(b, k).mem[i] = b.mem[i]
  <1> PICK m : m = Written([i \in 0 .. k |-> Junk], 0, b.mem, 0, b.len + 1)
    OBVIOUS
  <1> PICK c : c = [mem |-> m, len |-> b.len, cap |-> k, shared |-> FALSE]
    OBVIOUS
  <1> PICK L \in Nat : L = b.len
    BY DEF Sound, Strings
  <1>1. /\ b.cap \in Nat /\ L <= b.cap /\ L <= k
        /\ b.mem \in [0 .. b.cap -> Cells] /\ b.mem[L] = Nul
    BY DEF Sound, Strings
  <1>2. m = [i \in 0 .. k |-> IF i \in 0 .. 0 + (L + 1) - 1 THEN b.mem[0 + i - 0]
                              ELSE Junk]
    BY DEF Written
  <1>3. \A i \in 0 .. L : /\ i \in 0 .. k /\ i \in 0 .. b.cap /\ 0 + i - 0 = i
                          /\ i \in 0 .. 0 + (L + 1) - 1
    BY <1>1
  <1>4. \A i \in 0 .. k : i \in 0 .. 0 + (L + 1) - 1 => i \in 0 .. L
    OBVIOUS
  <1>5. \A i \in 0 .. L : m[i] = b.mem[i]
    BY <1>2, <1>3
  <1>6. m \in [0 .. k -> Cells]
    BY <1>1, <1>2, <1>3, <1>4 DEF Cells
  <1>7. m \in Memory
    BY <1>6 DEF Memory
  <1>8. c \in Strings /\ c.mem = m /\ c.len = L /\ c.cap = k
    BY <1>7 DEF Strings
  <1>9. L \in 0 .. L
    OBVIOUS
  <1>10. Sound(c)
    BY <1>1, <1>5, <1>6, <1>8, <1>9 DEF Sound
  <1>11. c = Reserved(b, k)
    BY DEF Reserved
  <1> QED BY <1>5, <1>8, <1>10, <1>11

\* append splices at the end, when the argument is not freed on the way.
LEMMA AppendedSplices ==
  ASSUME NEW b, Sound(b), NEW q \in Nat, NEW n \in Nat, q + n <= b.len + 1,
         NEW k \in Nat, b.len + n <= k,
         b.shared \/ (q + n <= b.len /\ b.len + n <= b.cap)
  PROVE  Spliced(Appended(b, q, n, k), b, b.len, 0, b.mem, q, n)
  <1> PICK c : c = Mutated(b, b.len, 0, n, k)
    OBVIOUS
  <1> PICK p \in Nat : p = b.len
    BY DEF Sound, Strings
  <1>1. /\ p + 0 <= b.len /\ b.len + n - 0 <= k /\ 0 \in Nat /\ b.cap \in Nat
        /\ b.mem \in [0 .. b.cap -> Cells] /\ p <= b.cap
    BY DEF Sound, Strings
  <1>2. Gapped(c, b, p, 0, n)
    BY <1>1, MutatedKeeps
  <1>3. CASE b.shared /\ ~(b.len + n > b.cap)
    <2>1. Appended(b, q, n, k) = ReplacedSafe(b, p, 0, b.mem, q, n, k)
      BY <1>3 DEF Appended
    <2>2. Spliced(ReplacedSafe(b, p, 0, b.mem, q, n, k), b, p, 0, b.mem, q, n)
      BY <1>1, CopyElsewhere
    <2> QED BY <2>1, <2>2
  <1>4. CASE ~b.shared
    <2>1. Appended(b, q, n, k) = CopyIn(c, p, q, n)
      BY <1>1, <1>4 DEF Appended
    <2>2. Spliced(CopyIn(c, p, q, n), b, p, 0, b.mem, q, n)
      BY <1>1, <1>2, <1>4, CopyBefore
    <2> QED BY <2>1, <2>2
  <1>5. CASE b.shared /\ b.len + n > b.cap
    <2> PICK r : r = Reserved(b, k)
      OBVIOUS
    <2> PICK d : d = ReplacedSafe(r, p, 0, b.mem, q, n, k)
      OBVIOUS
    <2>1. d = Appended(b, q, n, k)
      BY <1>5 DEF Appended
    <2>2. Sound(r) /\ r.len = p /\ \A i \in 0 .. p : r.mem[i] = b.mem[i]
      <3>1. b.len <= k
        BY <1>1
      <3> QED BY <3>1, ReservedKeeps
    <2>3. Readable(b.mem, q, n)
      <3>1. \A j \in 0 .. n - 1 : q + j \in 0 .. b.cap
        BY <1>1
      <3> QED BY <1>1, <3>1 DEF Readable
    <2>4. Spliced(d, r, p, 0, b.mem, q, n)
      <3>1. p + 0 <= r.len /\ r.len + n - 0 <= k /\ q \in Int /\ 0 \in Nat
        BY <2>2
      <3> QED BY <2>2, <2>3, <3>1, ReplacedSafeSplices
    <2>5. /\ Sound(d) /\ d.len = p + n
          /\ \A i \in 0 .. d.len - 1 :
               d.mem[i] = IF i < p THEN r.mem[i]
                          ELSE IF i < p + n THEN b.mem[q + i - p]
                          ELSE r.mem[i - n + 0]
      BY <2>2, <2>4 DEF Spliced
    <2>6. \A i \in 0 .. d.len - 1 :
            d.mem[i] = IF i < p THEN b.mem[i]
                       ELSE IF i < p + n THEN b.mem[q + i - p]
                       ELSE b.mem[i - n + 0]
      <3> TAKE i \in 0 .. d.len - 1
      <3>1. i < p + n /\ (i < p => i \in 0 .. p)
        BY <2>5
      <3> QED BY <2>2, <2>5, <3>1
    <2>7. d.len = b.len - 0 + n
      BY <2>5
    <2> QED BY <2>1, <2>5, <2>6, <2>7 DEF Spliced
  <1> QED BY <1>1, <1>3, <1>4, <1>5

\* assign splices: what it is given takes the place of all there was.
LEMMA AssignedSplices ==
  ASSUME NEW b, Sound(b), NEW q \in Nat, NEW n \in Nat, q + n <= b.len + 1,
         b.shared \/ n <= b.cap, NEW k \in Nat, n <= k
  PROVE  Spliced(Assigned(b, q, n, k), b, 0, b.len, b.mem, q, n)
  <1> PICK from : from = b.mem
    OBVIOUS
  <1> PICK d : d = Assigned(b, q, n, k)
    OBVIOUS
  <1>1. /\ b.len \in Nat /\ b.cap \in Nat /\ b.len <= b.cap /\ b \in Strings
        /\ from \in [0 .. b.cap -> Cells]
    BY DEF Sound, Strings
  <1>2. CASE b.shared
    <2> PICK n1 \in Nat : n1 = b.len
      BY <1>1
    <2>1. 0 \in Nat /\ 0 + n1 <= b.len /\ b.len + n - n1 <= k
      OBVIOUS
    <2>2. d = ReplacedSafe(b, 0, n1, b.mem, q, n, k)
      BY <1>2 DEF Assigned
    <2>3. Spliced(ReplacedSafe(b, 0, n1, b.mem, q, n, k), b, 0, n1, b.mem, q, n)
      BY <2>1, CopyElsewhere
    <2> QED BY <2>2, <2>3
  <1>3. CASE ~b.shared
    <2> PICK w : w = Written(b.mem, 0, b.mem, q, n)
      OBVIOUS
    <2>1. q >= n => ~Overlap(0, q, n)
      BY DEF Overlap
    <2>2. q >= n => CopyIn(b, 0, q, n) = [b EXCEPT !.mem = w]
      BY <2>1 DEF CopyIn
    <2>3. d = [b EXCEPT !.mem = [w EXCEPT ![n] = Nul], !.len = n]
      BY <1>1, <1>3, <2>2 DEF Assigned, Strings
    <2>4. /\ w \in [0 .. b.cap -> Cells]
          /\ \A i \in 0 .. n - 1 : i \in 0 .. b.cap /\ w[i] = from[q + i - 0]
      <3>1. w = [i \in 0 .. b.cap |-> IF i \in 0 .. 0 + n - 1 THEN from[q + i - 0]
                                      ELSE from[i]]
        BY <1>1 DEF Written
      <3>2. \A i \in 0 .. n - 1 : q + i - 0 \in 0 .. b.cap /\ i \in 0 .. b.cap
        BY <1>1, <1>3
      <3>3. 0 .. 0 + n - 1 = 0 .. n - 1
        OBVIOUS
      <3> QED BY <1>1, <3>1, <3>2, <3>3
    <2> PICK m : m = [w EXCEPT ![n] = Nul]
      OBVIOUS
    <2>5. /\ m \in [0 .. b.cap -> Cells] /\ n \in 0 .. b.cap /\ m[n] = Nul
          /\ \A i \in 0 .. n - 1 : m[i] = from[q + i - 0]
      BY <1>1, <1>3, <2>4 DEF Cells
    <2>6. m \in Memory
      BY <1>1, <2>5 DEF Memory
    <2>7. d \in Strings /\ d.mem = m /\ d.len = n /\ d.cap = b.cap
      BY <1>1, <2>3, <2>6 DEF Strings
    <2>8. Sound(d)
      BY <2>5, <2>7 DEF Sound
    <2>9. d.len = b.len - b.len + n
      BY <1>1, <2>7
    <2>10. \A i \in 0 .. d.len - 1 : ~(i < 0) /\ i < 0 + n /\ m[i] = from[q + i - 0]
      BY <2>5, <2>7
    <2> QED BY <2>7, <2>8, <2>9, <2>10 DEF Spliced
  <1> QED BY <1>2, <1>3

-----------------------------------------------------------------------------
(* The calls. *)

\* What the string becomes, when the characters of b are those asked for.
LEMMA BecomesExact ==
  ASSUME NEW b, Sound(b), NEW v \in Seq(Cells), Len(v) = b.len,
         \A i \in 1 .. b.len : v[i] = b.mem[i - 1], Becomes(b, v)
  PROVE  EInv'
  <1> PICK m : m = [i \in 0 .. b.cap |-> IF i > b.len THEN Junk ELSE b.mem[i]]
    OBVIOUS
  <1>1. /\ b.len \in Nat /\ b.cap \in Nat /\ b.len <= b.cap /\ b \in Strings
        /\ b.mem \in [0 .. b.cap -> Cells] /\ b.mem[b.len] = Nul
    BY DEF Sound, Strings
  <1>2. text' = [b EXCEPT !.mem = m] /\ value' = v
    BY <1>1 DEF Becomes
  <1>3. /\ m \in [0 .. b.cap -> Cells]
        /\ \A i \in 0 .. b.len : i \in 0 .. b.cap /\ m[i] = b.mem[i]
    BY <1>1 DEF Cells
  <1>4. m \in Memory
    BY <1>1, <1>3 DEF Memory
  <1>5. /\ text' \in Strings /\ text'.mem = m /\ text'.len = b.len
        /\ text'.cap = b.cap
    BY <1>1, <1>2, <1>4 DEF Strings
  <1>6. m[b.len] = Nul
    BY <1>1, <1>3
  <1>7. \A i \in 1 .. b.len : v[i] = m[i - 1]
    <2> TAKE i \in 1 .. b.len
    <2>1. i - 1 \in 0 .. b.len
      BY <1>1
    <2> QED BY <1>3, <2>1
  <1>8. v = [i \in 1 .. b.len |-> m[i - 1]]
    BY <1>7
  <1>9. Sound(text)'
    BY <1>1, <1>3, <1>5, <1>6 DEF Sound
  <1>10. EditsExact'
    BY <1>1, <1>2, <1>5, <1>6, <1>8 DEF EditsExact
  <1> QED BY <1>2, <1>9, <1>10 DEF EInv

\* The characters of the string are those asked for.
LEMMA ValueCells ==
  ASSUME EInv
  PROVE  /\ text.len \in Nat /\ text.cap \in Nat /\ text.len <= text.cap
         /\ value \in Seq(Cells) /\ Len(value) = text.len
         /\ text.mem \in [0 .. text.cap -> Cells] /\ text.mem[text.len] = Nul
         /\ \A i \in 0 .. text.len - 1 : text.mem[i] = value[i + 1]
  <1>1. /\ text.len \in Nat /\ text.cap \in Nat /\ text.len <= text.cap
        /\ text.mem \in [0 .. text.cap -> Cells] /\ text.mem[text.len] = Nul
        /\ value \in Seq(Cells)
        /\ value = [i \in 1 .. text.len |-> text.mem[i - 1]]
    BY DEF EInv, Sound, Strings, EditsExact
  <1>2. Len(value) = text.len
    BY <1>1
  <1>3. \A i \in 0 .. text.len - 1 : text.mem[i] = value[i + 1]
    <2> TAKE i \in 0 .. text.len - 1
    <2>1. i + 1 \in 1 .. text.len /\ (i + 1) - 1 = i
      BY <1>1
    <2> QED BY <1>1, <2>1
  <1> QED BY <1>1, <1>2, <1>3

\* Two sequences of characters, one behind the other.
LEMMA JoinCells ==
  ASSUME NEW t \in Seq(Cells), NEW z \in Seq(Cells)
  PROVE  /\ t \o z \in Seq(Cells) /\ Len(t \o z) = Len(t) + Len(z)
         /\ \A i \in 1 .. Len(t) : (t \o z)[i] = t[i]
         /\ \A i \in Len(t) + 1 .. Len(t) + Len(z) : (t \o z)[i] = z[i - Len(t)]
  <1>1. t \o z \in Seq(Cells) /\ Len(t \o z) = Len(t) + Len(z)
    OBVIOUS
  <1>2. ASSUME NEW i \in 1 .. Len(t) PROVE (t \o z)[i] = t[i]
    OBVIOUS
  <1>3. ASSUME NEW i \in Len(t) + 1 .. Len(t) + Len(z)
        PROVE  (t \o z)[i] = z[i - Len(t)]
    OBVIOUS
  <1> QED BY <1>1, <1>2, <1>3

\* The characters of a value of which n1 at p are replaced by s.
LEMMA WithCells ==
  ASSUME value \in Seq(Cells), NEW p \in Nat, NEW n1 \in Nat,
         p + n1 <= Len(value), NEW s \in Seq(Cells)
  PROVE  /\ With(p, n1, s) \in Seq(Cells)
         /\ Len(With(p, n1, s)) = Len(value) - n1 + Len(s)
         /\ \A i \in 1 .. Len(value) - n1 + Len(s) :
              With(p, n1, s)[i] = IF i <= p THEN value[i]
                                  ELSE IF i <= p + Len(s) THEN s[i - p]
                                  ELSE value[i - Len(s) + n1]
  <1> PICK a : a = SubSeq(value, 1, p)
    OBVIOUS
  <1> PICK z : z = SubSeq(value, p + n1 + 1, Len(value))
    OBVIOUS
  <1>1. a \in Seq(Cells) /\ Len(a) = p /\ \A i \in 1 .. p : a[i] = value[i]
    OBVIOUS
  <1>2. /\ z \in Seq(Cells) /\ Len(z) = Len(value) - (p + n1)
        /\ \A i \in 1 .. Len(value) - (p + n1) : z[i] = value[i + (p + n1)]
    OBVIOUS
  <1>3. With(p, n1, s) = (a \o s) \o z
    BY DEF With
  <1> PICK t : t = a \o s
    OBVIOUS
  <1>4. /\ t \in Seq(Cells) /\ Len(t) = p + Len(s)
        /\ \A i \in 1 .. p : t[i] = a[i]
        /\ \A i \in p + 1 .. p + Len(s) : t[i] = s[i - p]
    BY <1>1
  <1> PICK v : v = t \o z
    OBVIOUS
  <1> PICK N \in Nat : N = Len(s)
    OBVIOUS
  <1>5. /\ v \in Seq(Cells) /\ Len(v) = p + N + (Len(value) - (p + n1))
        /\ \A i \in 1 .. p + N : v[i] = t[i]
        /\ \A i \in p + N + 1 .. p + N + (Len(value) - (p + n1)) :
             v[i] = z[i - (p + N)]
    <2>3. t \in Seq(Cells) /\ z \in Seq(Cells)
      BY <1>2, <1>4
    <2>1. /\ t \o z \in Seq(Cells) /\ Len(t \o z) = Len(t) + Len(z)
          /\ \A i \in 1 .. Len(t) : (t \o z)[i] = t[i]
          /\ \A i \in Len(t) + 1 .. Len(t) + Len(z) : (t \o z)[i] = z[i - Len(t)]
      BY ONLY <2>3, JoinCells, ZenonT(30)
    <2>2. Len(t) = p + N /\ Len(z) = Len(value) - (p + n1)
      BY <1>2, <1>4
    <2>4. /\ t \o z \in Seq(Cells)
          /\ Len(t \o z) = p + N + (Len(value) - (p + n1))
          /\ \A i \in 1 .. p + N : (t \o z)[i] = t[i]
          /\ \A i \in p + N + 1 .. p + N + (Len(value) - (p + n1)) :
               (t \o z)[i] = z[i - (p + N)]
      BY ONLY <2>1, <2>2, Zenon
    <2> QED BY <2>4, Zenon
  <1>6. ASSUME NEW i \in 1 .. Len(value) - n1 + N
        PROVE  v[i] = IF i <= p THEN value[i]
                      ELSE IF i <= p + N THEN s[i - p] ELSE value[i - N + n1]
    <2>1. CASE i <= p
      <3>1. i \in 1 .. p /\ i \in 1 .. p + N
        BY <2>1
      <3> QED BY <1>1, <1>4, <1>5, <2>1, <3>1
    <2>2. CASE ~(i <= p) /\ i <= p + N
      <3>1. i \in p + 1 .. p + N /\ i \in 1 .. p + N
        BY <2>2
      <3> QED BY <1>4, <1>5, <2>2, <3>1
    <2>3. CASE ~(i <= p + N)
      <3>1. /\ i \in p + N + 1 .. p + N + (Len(value) - (p + n1)) /\ ~(i <= p)
            /\ i - (p + N) \in 1 .. Len(value) - (p + n1)
            /\ (i - (p + N)) + (p + n1) = i - N + n1
        BY <2>3
      <3> QED BY <1>2, <1>5, <2>3, <3>1
    <2> QED BY <2>1, <2>2, <2>3
  <1>7. Len(v) = Len(value) - n1 + Len(s)
    BY <1>5
  <1> QED BY <1>3, <1>5, <1>6, <1>7

\* The characters at q, with the terminator behind the last.
LEMMA OwnCells ==
  ASSUME EInv, NEW q \in Nat, NEW n \in Nat, q + n <= text.len + 1
  PROVE  /\ Own(q, n) \in Seq(Cells) /\ Len(Own(q, n)) = n
         /\ \A i \in 1 .. n : Own(q, n)[i] = text.mem[q + i - 1]
  <1> PICK u : u = Append(value, Nul)
    OBVIOUS
  <1> PICK L \in Nat : L = text.len
    BY ValueCells
  <1>1. value \in Seq(Cells) /\ Len(value) = L /\ Nul \in Cells
    BY ValueCells DEF Cells
  <1>2. /\ u \in Seq(Cells) /\ Len(u) = L + 1 /\ u[L + 1] = Nul
        /\ \A i \in 1 .. L : u[i] = value[i]
    BY <1>1
  <1>3. \A i \in 0 .. L : u[i + 1] = text.mem[i]
    <2> TAKE i \in 0 .. L
    <2>1. CASE i = L
      BY <1>2, <2>1, ValueCells
    <2>2. CASE i # L
      <3>1. i + 1 \in 1 .. L /\ i \in 0 .. L - 1
        BY <2>2
      <3> QED BY <1>2, <3>1, ValueCells
    <2> QED BY <2>1, <2>2
  <1> PICK o : o = SubSeq(u, q + 1, q + n)
    OBVIOUS
  <1>4. /\ o \in Seq(Cells) /\ Len(o) = n
        /\ \A i \in 1 .. n : o[i] = u[q + i]
    BY <1>2
  <1>5. \A i \in 1 .. n : o[i] = text.mem[q + i - 1]
    <2> TAKE i \in 1 .. n
    <2>1. q + i - 1 \in 0 .. L /\ (q + i - 1) + 1 = q + i
      OBVIOUS
    <2> QED BY <1>3, <1>4, <2>1
  <1>6. o = Own(q, n)
    BY DEF Own
  <1> QED BY <1>4, <1>5, <1>6

\* A call that splices, where With says what was asked for.
LEMMA SplicedExact ==
  ASSUME EInv, NEW p \in Nat, NEW n1 \in Nat, p + n1 <= text.len,
         NEW s \in Seq(Cells), NEW n2 \in Nat, n2 = Len(s),
         NEW from, NEW q \in Int,
         \A i \in 1 .. n2 : s[i] = from[q + i - 1],
         NEW b, Spliced(b, text, p, n1, from, q, n2),
         NEW v, v = With(p, n1, s), Becomes(b, v)
  PROVE  EInv'
  <1> PICK L \in Nat : L = text.len
    BY ValueCells
  <1>1. /\ Sound(b) /\ b.len = L - n1 + n2 /\ b.len \in Nat
        /\ \A i \in 0 .. b.len - 1 :
             b.mem[i] = IF i < p THEN text.mem[i]
                        ELSE IF i < p + n2 THEN from[q + i - p]
                        ELSE text.mem[i - n2 + n1]
    BY DEF Spliced, Sound, Strings
  <1>2. /\ value \in Seq(Cells) /\ Len(value) = L
        /\ \A i \in 0 .. L - 1 : text.mem[i] = value[i + 1]
    BY ValueCells
  <1>3. /\ v \in Seq(Cells) /\ Len(v) = L - n1 + n2
        /\ \A i \in 1 .. L - n1 + n2 :
             v[i] = IF i <= p THEN value[i] ELSE IF i <= p + n2 THEN s[i - p]
                    ELSE value[i - n2 + n1]
    <2>1. /\ value \in Seq(Cells) /\ p + n1 <= Len(value) /\ p \in Nat /\ n1 \in Nat
          /\ s \in Seq(Cells)
      BY <1>2
    <2>2. /\ With(p, n1, s) \in Seq(Cells)
          /\ Len(With(p, n1, s)) = Len(value) - n1 + Len(s)
          /\ \A i \in 1 .. Len(value) - n1 + Len(s) :
               With(p, n1, s)[i] = IF i <= p THEN value[i]
                                   ELSE IF i <= p + Len(s) THEN s[i - p]
                                   ELSE value[i - Len(s) + n1]
      BY ONLY <2>1, WithCells, ZenonT(30)
    <2> QED BY <1>2, <2>2
  <1>4. ASSUME NEW i \in 1 .. b.len
        PROVE  v[i] = b.mem[i - 1]
    <2> PICK j \in Nat : j = i - 1
      OBVIOUS
    <2>1. j \in 0 .. b.len - 1 /\ i \in 1 .. L - n1 + n2 /\ j + 1 = i
      BY <1>1
    <2>2. CASE i <= p
      <3>1. j < p /\ j \in 0 .. L - 1
        BY <2>2
      <3> QED BY SMTT(40), <1>1, <1>2, <1>3, <2>1, <2>2, <3>1
    <2>3. CASE ~(i <= p) /\ i <= p + n2
      <3>1. /\ ~(j < p) /\ j < p + n2 /\ i - p \in 1 .. n2
            /\ q + (i - p) - 1 = q + j - p
        BY <2>3
      <3>2. v[i] = from[q + j - p]
        BY <1>3, <2>1, <2>3, <3>1
      <3> QED BY <1>1, <2>1, <3>1, <3>2
    <2>4. CASE ~(i <= p + n2)
      <3>1. /\ ~(i <= p) /\ ~(j < p) /\ ~(j < p + n2)
            /\ j - n2 + n1 \in 0 .. L - 1
            /\ (j - n2 + n1) + 1 = i - n2 + n1
        BY SMTT(40), <1>1, <2>1, <2>4
      <3>2. v[i] = value[i - n2 + n1]
        BY <1>3, <2>1, <2>4, <3>1
      <3>3. b.mem[j] = text.mem[j - n2 + n1]
        BY <1>1, <2>1, <3>1
      <3> QED BY <1>2, <3>1, <3>2, <3>3
    <2> QED BY <2>2, <2>3, <2>4
  <1>5. Len(v) = b.len
    BY <1>1, <1>3
  <1> QED BY <1>1, <1>3, <1>4, <1>5, BecomesExact

LEMMA EditExact ==
  ASSUME EInv, NEW p \in Nat, NEW n1 \in Nat, NEW n \in Nat,
         NEW s \in [1 .. n -> Letter], edit(p, n1, s)
  PROVE  EInv'
  <1>1. /\ text.len \in Nat /\ Sound(text) /\ p + n1 <= text.len
        /\ MaxEdit \in Nat
    BY ValueCells, EditAssumption DEF EInv, edit
  <1>2. s \in Seq(Cells) /\ Len(s) = n /\ \A i \in 1 .. n : s[i] \in Cells
    BY DEF Cells
  <1> PICK k : /\ k \in Rooms(text.len - n1 + Len(s))
               /\ Becomes(ReplacedSafe(text, p, n1, s, 1, Len(s), k), With(p, n1, s))
    BY DEF edit
  <1>3. k \in Nat /\ text.len + n - n1 <= k
    BY <1>1, <1>2 DEF Rooms
  <1>4. Readable(s, 1, n) /\ 1 \in Int
    BY <1>2 DEF Readable
  <1>5. Spliced(ReplacedSafe(text, p, n1, s, 1, n, k), text, p, n1, s, 1, n)
    BY <1>1, <1>3, <1>4, ReplacedSafeSplices
  <1>6. \A i \in 1 .. n : s[i] = s[1 + i - 1]
    OBVIOUS
  <1>7. Becomes(ReplacedSafe(text, p, n1, s, 1, n, k), With(p, n1, s))
    BY <1>2
  <1> QED BY <1>1, <1>2, <1>4, <1>5, <1>6, <1>7, SplicedExact

\* The same for a call whose argument is in the string.
LEMMA OwnExact ==
  ASSUME EInv, NEW p \in Nat, NEW n1 \in Nat, p + n1 <= text.len,
         NEW q \in Nat, NEW n2 \in Nat, q + n2 <= text.len + 1,
         NEW b, Spliced(b, text, p, n1, text.mem, q, n2),
         Becomes(b, With(p, n1, Own(q, n2)))
  PROVE  EInv'
  <1>1. /\ Own(q, n2) \in Seq(Cells) /\ n2 = Len(Own(q, n2))
        /\ \A i \in 1 .. n2 : Own(q, n2)[i] = text.mem[q + i - 1]
    BY OwnCells
  <1>2. q \in Int
    OBVIOUS
  <1> QED BY <1>1, <1>2, SplicedExact

LEMMA InsertExact ==
  ASSUME EInv, NEW p \in Nat, NEW q \in Nat, NEW n \in Nat, insert_own(p, q, n)
  PROVE  EInv'
  <1>1. /\ text.len \in Nat /\ Sound(text) /\ p <= text.len /\ MaxEdit \in Nat
        /\ q + n <= text.len + 1
    BY ValueCells, EditAssumption DEF EInv, insert_own, InOwn
  <1> PICK k : /\ k \in Rooms(text.len + n)
               /\ Becomes(Inserted(text, p, q, n, k), With(p, 0, Own(q, n)))
    BY DEF insert_own
  <1>2. k \in Nat /\ text.len + n <= k /\ p + 0 <= text.len /\ 0 \in Nat
    BY <1>1 DEF Rooms
  <1>3. Spliced(Inserted(text, p, q, n, k), text, p, 0, text.mem, q, n)
    BY <1>1, <1>2, InsertedSplices
  <1> QED BY <1>1, <1>2, <1>3, OwnExact

LEMMA ReplaceExact ==
  ASSUME EInv, NEW p \in Nat, NEW n1 \in Nat, NEW q \in Nat, NEW n2 \in Nat,
         replace_own(p, n1, q, n2)
  PROVE  EInv'
  <1>1. /\ text.len \in Nat /\ Sound(text) /\ p + n1 <= text.len
        /\ MaxEdit \in Nat /\ q + n2 <= text.len + 1
    BY ValueCells, EditAssumption DEF EInv, replace_own, InOwn
  <1> PICK k : /\ k \in Rooms(text.len + n2 - n1)
               /\ Becomes(Replaced(text, p, n1, q, n2, k), With(p, n1, Own(q, n2)))
    BY DEF replace_own
  <1>2. k \in Nat /\ text.len + n2 - n1 <= k
    BY <1>1 DEF Rooms
  <1>3. Spliced(Replaced(text, p, n1, q, n2, k), text, p, n1, text.mem, q, n2)
    BY <1>1, <1>2, ReplacedSplices
  <1> QED BY <1>1, <1>3, OwnExact

LEMMA AssignExact ==
  ASSUME ~AssignsPast, EInv, NEW q \in Nat, NEW n \in Nat, assign_own(q, n)
  PROVE  EInv'
  <1>1. /\ text.len \in Nat /\ Sound(text) /\ MaxEdit \in Nat
        /\ q + n <= text.len + 1 /\ (text.shared \/ n <= text.cap)
    BY ValueCells, EditAssumption DEF EInv, assign_own, InOwn
  <1> PICK k : k \in Rooms(n) /\ Becomes(Assigned(text, q, n, k), Own(q, n))
    BY DEF assign_own
  <1>2. k \in Nat /\ n <= k /\ 0 + text.len <= text.len /\ 0 \in Nat
    BY <1>1 DEF Rooms
  <1>3. Spliced(Assigned(text, q, n, k), text, 0, text.len, text.mem, q, n)
    BY <1>1, <1>2, AssignedSplices
  <1>4. With(0, text.len, Own(q, n)) = Own(q, n)
    <2> PICK s : s = Own(q, n)
      OBVIOUS
    <2>1. s \in Seq(Cells)
      BY <1>1, OwnCells
    <2>2. value \in Seq(Cells) /\ Len(value) = text.len
      BY ValueCells
    <2>3. SubSeq(value, 1, 0) = << >>
      BY <2>2
    <2>4. SubSeq(value, 0 + text.len + 1, Len(value)) = << >>
      BY <1>1, <2>2
    <2>5. << >> \o s = s /\ s \o << >> = s
      BY <2>1
    <2> QED BY <2>3, <2>4, <2>5 DEF With
  <1> QED BY <1>1, <1>2, <1>3, <1>4, OwnExact

LEMMA AppendExact ==
  ASSUME ~AppendsGrown, EInv, NEW q \in Nat, NEW n \in Nat, append_own(q, n)
  PROVE  EInv'
  <1>1. /\ text.len \in Nat /\ Sound(text) /\ MaxEdit \in Nat
        /\ q + n <= text.len + 1
        /\ text.shared \/ (q + n <= text.len /\ text.len + n <= text.cap)
    BY ValueCells, EditAssumption DEF EInv, append_own, InOwn
  <1> PICK k : /\ k \in Rooms(text.len + n)
               /\ Becomes(Appended(text, q, n, k), value \o Own(q, n))
    BY DEF append_own
  <1>2. /\ k \in Nat /\ text.len + n <= k /\ text.len + 0 <= text.len /\ 0 \in Nat
    BY <1>1 DEF Rooms
  <1>3. Spliced(Appended(text, q, n, k), text, text.len, 0, text.mem, q, n)
    BY <1>1, <1>2, AppendedSplices
  <1>4. With(text.len, 0, Own(q, n)) = value \o Own(q, n)
    <2> PICK s : s = Own(q, n)
      OBVIOUS
    <2> PICK v : v = value
      OBVIOUS
    <2>1. s \in Seq(Cells)
      BY <1>1, OwnCells
    <2>2. v \in Seq(Cells) /\ Len(v) = text.len
      BY ValueCells
    <2>3. SubSeq(v, 1, text.len) = v
      BY <1>1, <2>2
    <2>4. SubSeq(v, text.len + 0 + 1, Len(v)) = << >>
      BY <1>1, <2>2
    <2>5. (v \o s) \o << >> = v \o s
      BY <2>1, <2>2
    <2> QED BY <2>3, <2>4, <2>5 DEF With
  <1> QED BY <1>1, <1>2, <1>3, <1>4, OwnExact

LEMMA ReserveExact ==
  ASSUME EInv, NEW k \in Nat, reserve_room(k)
  PROVE  EInv'
  <1> PICK b : b = Reserved(text, k)
    OBVIOUS
  <1> PICK L \in Nat : L = text.len
    BY ValueCells
  <1>1. /\ L <= k /\ value \in Seq(Cells) /\ Len(value) = L /\ Sound(text)
        /\ \A i \in 0 .. L - 1 : text.mem[i] = value[i + 1]
    BY ValueCells DEF reserve_room, EInv
  <1>2. Sound(b) /\ b.len = L /\ \A i \in 0 .. L : b.mem[i] = text.mem[i]
    BY <1>1, ReservedKeeps
  <1>3. \A i \in 1 .. b.len : value[i] = b.mem[i - 1]
    <2> TAKE i \in 1 .. b.len
    <2>1. i - 1 \in 0 .. L /\ i - 1 \in 0 .. L - 1 /\ (i - 1) + 1 = i
      BY <1>2
    <2> QED BY <1>1, <1>2, <2>1
  <1>4. Becomes(b, value) /\ Len(value) = b.len
    BY <1>1, <1>2 DEF reserve_room
  <1> QED BY <1>1, <1>2, <1>3, <1>4, BecomesExact

LEMMA ShareExact ==
  ASSUME EInv, NEW b \in BOOLEAN, share(b)
  PROVE  EInv'
  <1>1. /\ text' = [text EXCEPT !.shared = b] /\ value' = value
        /\ text \in Strings
    BY DEF share, EInv, Sound
  <1>2. /\ text' \in Strings /\ text'.mem = text.mem /\ text'.len = text.len
        /\ text'.cap = text.cap
    BY <1>1 DEF Strings
  <1>3. Sound(text)' /\ EditsExact'
    BY <1>1, <1>2 DEF EInv, Sound, EditsExact
  <1> QED BY <1>1, <1>3 DEF EInv

LEMMA EditInitExact == EditInit => EInv
  <1> SUFFICES ASSUME NEW a \in Letter,
                      text = [mem |-> [i \in 0 .. 1 |-> IF i = 0 THEN a ELSE Nul],
                              len |-> 1, cap |-> 1, shared |-> FALSE],
                      value = <<a>>
               PROVE  EInv
    BY DEF EditInit
  <1> PICK m : m = [i \in 0 .. 1 |-> IF i = 0 THEN a ELSE Nul]
    OBVIOUS
  <1>1. m \in [0 .. 1 -> Cells] /\ m[0] = a /\ m[1] = Nul /\ a \in Cells
    BY DEF Cells
  <1>2. m \in Memory
    BY <1>1 DEF Memory
  <1>3. text = [mem |-> m, len |-> 1, cap |-> 1, shared |-> FALSE]
    OBVIOUS
  <1>4. Sound(text)
    BY <1>1, <1>2, <1>3 DEF Sound, Strings
  <1>5. value = [i \in 1 .. 1 |-> m[i - 1]]
    <2>1. \A i \in 1 .. 1 : m[i - 1] = a
      BY <1>1
    <2> QED BY <2>1
  <1>6. value \in Seq(Cells)
    BY <1>1
  <1> QED BY <1>1, <1>3, <1>4, <1>5, <1>6 DEF EInv, EditsExact

LEMMA EditNextExact ==
  ASSUME ~AssignsPast, ~AppendsGrown
  PROVE  EInv /\ [EditNext]_editVars => EInv'
  <1> SUFFICES ASSUME EInv, [EditNext]_editVars PROVE EInv'
    OBVIOUS
  <1>1. \A i \in 0 .. MaxEdit : i \in Nat
    OBVIOUS
  <1>2. ASSUME NEW p \in 0 .. MaxEdit, NEW n1 \in 0 .. MaxEdit, NEW n \in 0 .. 2,
               NEW s \in [1 .. n -> Letter], edit(p, n1, s)
        PROVE  EInv'
    BY <1>1, <1>2, EditExact
  <1>3. ASSUME NEW p \in 0 .. MaxEdit, NEW n1 \in 0 .. MaxEdit,
               NEW q \in 0 .. MaxEdit, NEW n2 \in 0 .. MaxEdit,
               replace_own(p, n1, q, n2)
        PROVE  EInv'
    BY <1>1, <1>3, ReplaceExact
  <1>4. ASSUME NEW q \in 0 .. MaxEdit, NEW n \in 0 .. MaxEdit,
               NEW p \in 0 .. MaxEdit, insert_own(p, q, n)
        PROVE  EInv'
    BY <1>1, <1>4, InsertExact
  <1>5. ASSUME NEW q \in 0 .. MaxEdit, NEW n \in 0 .. MaxEdit,
               assign_own(q, n) \/ append_own(q, n)
        PROVE  EInv'
    BY <1>1, <1>5, AssignExact, AppendExact
  <1>6. ASSUME NEW k \in 0 .. MaxEdit, reserve_room(k) PROVE EInv'
    BY <1>1, <1>6, ReserveExact
  <1>7. ASSUME NEW b \in BOOLEAN, share(b) PROVE EInv'
    BY <1>7, ShareExact
  <1>8. CASE UNCHANGED editVars
    BY <1>8 DEF editVars, EInv, Sound, EditsExact
  <1> QED BY <1>2, <1>3, <1>4, <1>5, <1>6, <1>7, <1>8 DEF EditNext

\* Every edit gives what it would give with a copy of its argument, and leaves
\* the string ended within its capacity: insert, replace, assign and append of
\* the string's own characters in basic_string.tcc, in a program that assigns no
\* full string its own terminator and appends own characters only where reserve
\* does not free them.
THEOREM EditsCorrect ==
  ASSUME ~AssignsPast, ~AppendsGrown
  PROVE  EditSpec => []EditsExact
  <1>1. EInv => EditsExact
    BY DEF EInv
  <1>2. EInv /\ [EditNext]_editVars => EInv'
    BY EditNextExact
  <1> QED BY <1>1, <1>2, EditInitExact, PTL DEF EditSpec
=============================================================================
