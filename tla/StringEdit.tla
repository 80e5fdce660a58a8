----------------------------- MODULE StringEdit -----------------------------
(***************************************************************************)
(* The editing functions of basic_string whose argument is a pointer into  *)
(* the string itself: insert, replace, assign and append of some of its    *)
(* own characters (bits/basic_string.tcc).  _M_mutate moves the characters *)
(* behind the gap, or all of them to a new _Rep; what the argument points  *)
(* to then has to be looked for elsewhere.                                 *)
(*                                                                         *)
(* Offsets count from _M_data().  A function of the class is an operator   *)
(* from the string to the string after it.  traits_type::copy is memcpy:   *)
(* when its two ranges overlap, what it writes is undefined.  A _Rep that  *)
(* is shared is shared with a string that outlives the call.               *)
(***************************************************************************)
EXTENDS Integers, Sequences

CONSTANTS
  Letter,    \* the characters that the program writes
  Nul,       \* the terminator
  Junk,      \* what memory holds before it is written
  MaxEdit,   \* max_size()
  AssignsPast,   \* the program assigns a full string its own characters with
                 \* their terminator
  AppendsGrown   \* it appends own characters of a string that has no room for
                 \* them and does not share, or their terminator

ASSUME EditAssumption ==
  /\ Nul # Junk /\ Nul \notin Letter /\ Junk \notin Letter
  /\ MaxEdit \in Nat
  /\ AssignsPast \in BOOLEAN /\ AppendsGrown \in BOOLEAN

VARIABLES
  text,    \* a string: its memory, length and capacity, and whether it shares them
  value    \* history: the characters that the calls so far have asked for

editVars == <<text, value>>

\* The n cells from q on of the memory from, at p in the memory m.
Written(m, p, from, q, n) ==
  [i \in DOMAIN m |-> IF i \in p .. p + n - 1 THEN from[q + i - p] ELSE m[i]]

Overlap(p, q, n) == p < q + n /\ q < p + n

\* traits_type::copy within one string; one character is assigned.
CopyIn(b, p, q, n) ==
  [b EXCEPT !.mem = IF Overlap(p, q, n) /\ n > 1
                    THEN Written(@, p, [i \in DOMAIN @ |-> Junk], q, n)
                    ELSE Written(@, p, @, q, n)]

\* The capacities that _S_create may choose for n characters.
Rooms(n) == n .. MaxEdit

-----------------------------------------------------------------------------

\* _M_mutate: n1 characters at p make way for n2 that are still to be written.
\* k is the capacity of a new _Rep, should there be one.
Mutated(b, p, n1, n2, k) ==
  LET size == b.len + n2 - n1
      rest == b.len - p - n1
      ended(m) == [m EXCEPT ![size] = Nul]
      fresh == [i \in 0 .. k |-> Junk]
  IN IF size > b.cap \/ b.shared
     THEN [mem |-> ended(Written(Written(fresh, 0, b.mem, 0, p),
                                 p + n2, b.mem, p + n1, rest)),
           len |-> size, cap |-> k, shared |-> FALSE]
     ELSE [b EXCEPT !.mem = ended(Written(@, p + n2, @, p + n1, rest)),
                    !.len = size]

\* _M_replace_safe: the n2 characters are at q in memory that is not ours.
ReplacedSafe(b, p, n1, from, q, n2, k) ==
  [Mutated(b, p, n1, n2, k) EXCEPT !.mem = Written(@, p, from, q, n2)]

\* Faulty variant: an argument that the gap splits is taken to lie before it.
InsertedSplit(b, p, q, n, k) ==
  LET c == Mutated(b, p, 0, n, k)
  IN IF b.shared THEN ReplacedSafe(b, p, 0, b.mem, q, n, k)
     ELSE IF q >= p THEN CopyIn(c, p, q + n, n)
     ELSE CopyIn(c, p, q, n)

\* insert(p, _M_data() + q, n): the argument lies before the gap, behind it, or
\* is split by it.
Inserted(b, p, q, n, k) ==
  LET c == Mutated(b, p, 0, n, k)
      left == p - q
  IN IF b.shared THEN ReplacedSafe(b, p, 0, b.mem, q, n, k)
     ELSE IF q + n <= p THEN CopyIn(c, p, q, n)
     ELSE IF q >= p THEN CopyIn(c, p, q + n, n)
     ELSE CopyIn(CopyIn(c, p, q, left), p + left, p + n, n - left)

\* replace(p, n1, _M_data() + q, n2); an argument that overlaps what is replaced
\* is first copied to a string of its own.
Replaced(b, p, n1, q, n2, k) ==
  LET c == Mutated(b, p, n1, n2, k)
  IN IF b.shared THEN ReplacedSafe(b, p, n1, b.mem, q, n2, k)
     ELSE IF q + n2 <= p THEN CopyIn(c, p, q, n2)
     ELSE IF p + n1 <= q THEN CopyIn(c, p, q + n2 - n1, n2)
     ELSE ReplacedSafe(b, p, n1, b.mem, q, n2, k)

\* assign(_M_data() + q, n): to the front, by copy or, if need be, by move.
Assigned(b, q, n, k) ==
  LET c == IF q >= n THEN CopyIn(b, 0, q, n)
           ELSE [b EXCEPT !.mem = Written(@, 0, @, q, n)]
  IN IF b.shared THEN ReplacedSafe(b, 0, b.len, b.mem, q, n, k)
     ELSE [c EXCEPT !.mem[n] = Nul, !.len = n]

\* reserve, for a capacity that is not the string's or a _Rep that is shared.
Reserved(b, k) ==
  [mem |-> Written([i \in 0 .. k |-> Junk], 0, b.mem, 0, b.len + 1),
   len |-> b.len, cap |-> k, shared |-> FALSE]

\* append(_M_data() + q, n): reserve, if there is no room, frees what the
\* argument points to unless it is shared.
Appended(b, q, n, k) ==
  LET grows == b.len + n > b.cap
      freed == [i \in DOMAIN b.mem |-> Junk]
  IN IF grows
     THEN ReplacedSafe(Reserved(b, k), b.len, 0,
                       IF b.shared THEN b.mem ELSE freed, q, n, k)
     ELSE IF b.shared THEN ReplacedSafe(b, b.len, 0, b.mem, q, n, k)
     ELSE CopyIn(Mutated(b, b.len, 0, n, k), b.len, q, n)

-----------------------------------------------------------------------------

\* A string of one character, as _S_construct makes it.
EditInit ==
  \E c \in Letter :
    /\ text = [mem |-> [i \in 0 .. 1 |-> IF i = 0 THEN c ELSE Nul],
               len |-> 1, cap |-> 1, shared |-> FALSE]
    /\ value = <<c>>

\* The string becomes b.  What lies behind its terminator is not kept.
Becomes(b, v) ==
  /\ text' = [b EXCEPT !.mem = [i \in DOMAIN @ |-> IF i > b.len THEN Junk ELSE @[i]]]
  /\ value' = v

\* What the standard makes of a value of which n1 characters at p are replaced.
With(p, n1, s) == SubSeq(value, 1, p) \o s \o SubSeq(value, p + n1 + 1, Len(value))

\* The n characters at q, the last of which may be the terminator.
Own(q, n) == SubSeq(Append(value, Nul), q + 1, q + n)

InOwn(q, n) == q + n <= text.len + 1

\* insert, replace, assign, append and erase with an argument elsewhere.
edit(p, n1, s) ==
  /\ p + n1 <= text.len
  /\ \E k \in Rooms(text.len - n1 + Len(s)) :
       Becomes(ReplacedSafe(text, p, n1, s, 1, Len(s), k), With(p, n1, s))

insert_own(p, q, n) ==
  /\ p <= text.len /\ InOwn(q, n)
  /\ \E k \in Rooms(text.len + n) :
       Becomes(Inserted(text, p, q, n, k), With(p, 0, Own(q, n)))

replace_own(p, n1, q, n2) ==
  /\ p + n1 <= text.len /\ InOwn(q, n2)
  /\ \E k \in Rooms(text.len + n2 - n1) :
       Becomes(Replaced(text, p, n1, q, n2, k), With(p, n1, Own(q, n2)))

assign_own(q, n) ==
  /\ InOwn(q, n)
  /\ AssignsPast \/ text.shared \/ n <= text.cap
  /\ \E k \in Rooms(n) : Becomes(Assigned(text, q, n, k), Own(q, n))

append_own(q, n) ==
  /\ InOwn(q, n)
  /\ AppendsGrown \/ text.shared \/ (q + n <= text.len /\ text.len + n <= text.cap)
  /\ \E k \in Rooms(text.len + n) :
       Becomes(Appended(text, q, n, k), value \o Own(q, n))

\* reserve
reserve_room(k) ==
  /\ k >= text.len /\ (k # text.cap \/ text.shared)
  /\ Becomes(Reserved(text, k), value)

\* Another string takes a reference to the _Rep, or gives up its own.
share(b) == text.shared # b /\ text' = [text EXCEPT !.shared = b] /\ UNCHANGED value

EditNext ==
  \/ \E p, n1 \in 0 .. MaxEdit :
       \/ \E n \in 0 .. 2 : \E s \in [1 .. n -> Letter] : edit(p, n1, s)
       \/ \E q, n2 \in 0 .. MaxEdit : replace_own(p, n1, q, n2)
  \/ \E q, n \in 0 .. MaxEdit :
       \/ \E p \in 0 .. MaxEdit : insert_own(p, q, n)
       \/ assign_own(q, n) \/ append_own(q, n)
  \/ \E k \in 0 .. MaxEdit : reserve_room(k)
  \/ \E b \in BOOLEAN : share(b)

EditSpec == EditInit /\ [][EditNext]_editVars

-----------------------------------------------------------------------------

\* However an edit's argument lies to what the edit moves, the string is then
\* what it would have been with a copy of the argument; it ends in a terminator,
\* within its capacity, and no two ranges of a memcpy overlapped.
EditsExact ==
  /\ text.len <= text.cap
  /\ value = [i \in 1 .. text.len |-> text.mem[i - 1]]
  /\ text.mem[text.len] = Nul
=============================================================================
