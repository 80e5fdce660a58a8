------------------------------ MODULE CowString ------------------------------
(***************************************************************************)
(* The reference-counted, copy-on-write std::basic_string                  *)
(* (bits/basic_string.h, bits/basic_string.tcc).                           *)
(*                                                                         *)
(* Strings share representations (_Rep).  The program keeps the rules for  *)
(* containers: while one thread changes a string no other uses it, and any *)
(* number may read it; two strings are never the program's business to     *)
(* keep apart, even when they share a _Rep.                                *)
(*                                                                         *)
(* A step of a call is atomic up to its one access to a _Rep that another  *)
(* thread may be using: a test of _M_refcount, an atomic update of it, a   *)
(* copy out of the characters.                                             *)
(***************************************************************************)
EXTENDS Integers, Sequences, FiniteSets

CONSTANTS
  Thread, Str, Char,
  Rep,        \* memory that _S_create can place a _Rep in
  EmptyRep,   \* _S_empty_rep(), the static representation of ""
  MaxLen,     \* max_size()
  Aliasing,   \* the program may append a string to itself
  NoRep, NoStr, None

ASSUME CowAssumption ==
  /\ EmptyRep \notin Rep /\ NoRep \notin Rep \cup {EmptyRep}
  /\ NoStr \notin Str \cup Thread /\ None \notin Seq(Char)
  /\ IsFiniteSet(Str) /\ IsFiniteSet(Thread) /\ Str \cap Thread = {}
  /\ MaxLen \in Nat
  /\ Aliasing \in BOOLEAN

VARIABLES
  str,      \* str[s]: the _Rep that _M_dataplus._M_p of s points into
  rep,      \* the representations: alive, _M_refcount, _M_capacity, characters
  ref,      \* strings into which the program holds a valid reference
  pc,       \* where each thread is
  call,     \* the thread's call: its name, this string and the argument
  tmp,      \* __tmp, __r: the _Rep that will become this string's
  ptr,      \* the _Rep into which the argument __s of a copy points
  before    \* value of a string when the call that changes it began (history)

vars == <<str, rep, ref, pc, call, tmp, ptr, before>>

AllRep == Rep \cup {EmptyRep}
Value == UNION {[1 .. n -> Char] : n \in 0 .. MaxLen}

Dead == [alive |-> FALSE, refcount |-> 0, capacity |-> 0, chars |-> <<>>]
Empty == [alive |-> TRUE, refcount |-> 0, capacity |-> 0, chars |-> <<>>]

NoCall == [op |-> "none", this |-> NoStr, arg |-> NoStr, char |-> None]

\* The claims of the calls under way.
Claimed(s) == \E t \in Thread : call[t].this = s
Read(s) == \E t \in Thread : call[t].arg = s

Mine(t) == rep[str[call[t].this]]
Source(t) == str[call[t].arg]

\* _S_create rounds the capacity up by an amount of its own.
Created(v, n) ==
  {[alive |-> TRUE, refcount |-> 0, capacity |-> k, chars |-> v] :
     k \in n .. MaxLen}

\* The characters of a _Rep; memory that was freed holds anything.
CharsOf(r) == IF rep[r].alive THEN {rep[r].chars} ELSE Value

Goto(t, from, to) == pc[t] = from /\ pc' = [pc EXCEPT ![t] = to]

\* The call of t is over.
Return(t) ==
  /\ pc' = [pc EXCEPT ![t] = "idle"]
  /\ call' = [call EXCEPT ![t] = NoCall]
  /\ before' = [before EXCEPT ![call[t].this] = None]

-----------------------------------------------------------------------------

Init ==
  /\ str = [s \in Str |-> NoRep]
  /\ rep = [r \in AllRep |-> IF r = EmptyRep THEN Empty ELSE Dead]
  /\ ref = {}
  /\ pc = [t \in Thread |-> "idle"]
  /\ call = [t \in Thread |-> NoCall]
  /\ tmp = [t \in Thread |-> NoRep]
  /\ ptr = [t \in Thread |-> NoRep]
  /\ before = [s \in Str |-> None]

\* A thread calls op for the string s, with the argument u or c.
Call(t, op, s, u, c, first) ==
  /\ Goto(t, "idle", first)
  /\ ~Claimed(s) /\ ~Read(s)
  /\ u # NoStr => ~Claimed(u) /\ str[u] # NoRep
  /\ call' = [call EXCEPT ![t] = [op |-> op, this |-> s, arg |-> u, char |-> c]]
  /\ before' =
       [before EXCEPT ![s] = IF str[s] = NoRep THEN None ELSE rep[str[s]].chars]
  /\ UNCHANGED <<str, rep, tmp>>

\* basic_string(): the shared empty _Rep, or a new one for given characters.
construct(t, s) ==
  /\ pc[t] = "idle"
  /\ ~Claimed(s) /\ str[s] = NoRep
  /\ \/ str' = [str EXCEPT ![s] = EmptyRep] /\ UNCHANGED rep
     \/ \E r \in Rep, c \in Char :
          /\ ~rep[r].alive
          /\ str' = [str EXCEPT ![s] = r]
          /\ \E new \in Created(<<c>>, 1) : rep' = [rep EXCEPT ![r] = new]
  /\ UNCHANGED <<ref, pc, call, tmp, ptr, before>>

copy(t, s, u) ==
  /\ str[s] = NoRep
  /\ Call(t, "copy", s, u, None, "grab")
  /\ UNCHANGED <<ref, ptr>>

destroy(t, s) ==
  /\ str[s] # NoRep
  /\ Call(t, "destroy", s, NoStr, None, "dispose")
  /\ ref' = ref \ {s}
  /\ UNCHANGED ptr

\* assign: strings with one _Rep are equal already.
assign(t, s, u) ==
  /\ str[s] # NoRep /\ str[s] # str[u]
  /\ Call(t, "assign", s, u, None, "grab")
  /\ ref' = ref \ {s}
  /\ UNCHANGED ptr

reserve(t, s) ==
  /\ str[s] # NoRep
  /\ Call(t, "reserve", s, NoStr, None, "reserve")
  /\ ref' = ref \ {s}
  /\ UNCHANGED ptr

\* Faulty variant: the argument's characters are located before reserve.
appendLocatesFirst(t, s, u) ==
  /\ str[s] # NoRep /\ str[u] # NoRep
  /\ s = u => Aliasing
  /\ LET len == Len(rep[str[s]].chars) + Len(rep[str[u]].chars) IN
       /\ len <= MaxLen
       /\ Call(t, "append", s, u, None,
               IF len > rep[str[s]].capacity THEN "clone" ELSE "mutate")
  /\ ptr' = [ptr EXCEPT ![t] = str[u]]
  /\ ref' = ref \ {s}

\* append: reserve first if the capacity is too small.
append(t, s, u) ==
  /\ str[s] # NoRep /\ str[u] # NoRep
  /\ s = u => Aliasing
  /\ LET len == Len(rep[str[s]].chars) + Len(rep[str[u]].chars) IN
       /\ len <= MaxLen
       /\ IF len > rep[str[s]].capacity
          THEN /\ Call(t, "append", s, u, None, "clone")
               /\ UNCHANGED ptr
          ELSE /\ Call(t, "append", s, u, None, "mutate")
               /\ ptr' = [ptr EXCEPT ![t] = str[u]]
  /\ ref' = ref \ {s}

push_back(t, s, c) ==
  /\ str[s] # NoRep
  /\ Len(rep[str[s]].chars) < MaxLen
  /\ Call(t, "push_back", s, NoStr, c, "mutate")
  /\ ref' = ref \ {s}
  /\ UNCHANGED ptr

clear(t, s) ==
  /\ str[s] # NoRep
  /\ Call(t, "clear", s, NoStr, None, "mutate")
  /\ ref' = ref \ {s}
  /\ UNCHANGED ptr

\* erase(begin(), end()), with iterators the program has just obtained.
erase(t, s) ==
  /\ s \in ref
  /\ Call(t, "erase", s, NoStr, None, "mutate")
  /\ UNCHANGED <<ref, ptr>>

\* begin() and operator[], not const: the program gets a reference.
leak(t, s) ==
  /\ str[s] # NoRep
  /\ Call(t, "leak", s, NoStr, None, "leak")
  /\ UNCHANGED <<ref, ptr>>

\* The program writes a character through its reference.
put(t, s, c) ==
  /\ pc[t] = "idle"
  /\ s \in ref /\ ~Claimed(s) /\ ~Read(s)
  /\ rep[str[s]].chars # <<>>
  /\ rep' = [rep EXCEPT ![str[s]].chars[1] = c]
  /\ UNCHANGED <<str, ref, pc, call, tmp, ptr, before>>

\* A _Rep that was leaked and may be shared again.
Sharable(r) == IF r.refcount < 0 THEN [r EXCEPT !.refcount = 0] ELSE r

swap(t, s, u) ==
  /\ pc[t] = "idle"
  /\ str[s] # NoRep /\ str[u] # NoRep /\ s # u
  /\ \A x \in {s, u} : ~Claimed(x) /\ ~Read(x)
  /\ rep' = [rep EXCEPT ![str[s]] = Sharable(@), ![str[u]] = Sharable(@)]
  /\ str' = [str EXCEPT ![s] = str[u], ![u] = str[s]]
  /\ ref' = ref \ {s, u}
  /\ UNCHANGED <<pc, call, tmp, ptr, before>>

-----------------------------------------------------------------------------

\* Faulty variant: a leaked _Rep is shared like any other.
GrabLeaked(t) ==
  /\ Goto(t, "grab", "refcopy")
  /\ UNCHANGED <<str, rep, ref, call, tmp, ptr, before>>

\* _M_grab: share the argument's _Rep unless it is leaked ...
Grab(t) ==
  /\ Goto(t, "grab", IF rep[Source(t)].refcount < 0 THEN "clone" ELSE "refcopy")
  /\ UNCHANGED <<str, rep, ref, call, tmp, ptr, before>>

\* A call that has its new _Rep r: a constructor is done, assign and the
\* others have to dispose of the old one.
Obtained(t, r) ==
  IF call[t].op = "copy"
  THEN /\ str' = [str EXCEPT ![call[t].this] = r]
       /\ Return(t)
       /\ UNCHANGED tmp
  ELSE /\ tmp' = [tmp EXCEPT ![t] = r]
       /\ pc' = [pc EXCEPT ![t] = "dispose"]
       /\ UNCHANGED <<str, call, before>>

\* Faulty variant: the new reference is not counted.
RefcopyUncounted(t) ==
  /\ pc[t] = "refcopy"
  /\ Obtained(t, Source(t))
  /\ UNCHANGED <<rep, ref, ptr>>

\* ... _M_refcopy: one more reference; the empty _Rep counts none.
Refcopy(t) ==
  /\ pc[t] = "refcopy"
  /\ rep' = IF Source(t) = EmptyRep THEN rep
            ELSE [rep EXCEPT ![Source(t)].refcount = @ + 1]
  /\ Obtained(t, Source(t))
  /\ UNCHANGED <<ref, ptr>>

\* reserve: anything but the present capacity, or a shared _Rep, clones.
Reserve(t) ==
  /\ pc[t] = "reserve"
  /\ \/ pc' = [pc EXCEPT ![t] = "clone"] /\ UNCHANGED <<call, before>>
     \/ Mine(t).refcount <= 0 /\ Return(t)
  /\ UNCHANGED <<str, rep, ref, tmp, ptr>>

\* The length that the call will give its string.
NewLen(t) ==
  IF call[t].op \in {"clear", "erase"} THEN 0
  ELSE Len(Mine(t).chars) + (IF call[t].op = "append" THEN Len(rep[Source(t)].chars)
                             ELSE IF call[t].op = "push_back" THEN 1 ELSE 0)

\* _M_clone, in _M_grab and in reserve.
Clone(t) ==
  /\ pc[t] = "clone"
  /\ LET old == IF call[t].op \in {"copy", "assign"} THEN Source(t)
                ELSE str[call[t].this]
         room == IF call[t].op = "append" THEN NewLen(t)
                 ELSE Len(rep[old].chars)
     IN \E r \in Rep, new \in Created(rep[old].chars, room) :
          /\ ~rep[r].alive
          /\ rep' = [rep EXCEPT ![r] = new]
          /\ Obtained(t, r)
  /\ UNCHANGED <<ref, ptr>>

\* The string gets its new _Rep, and the call goes on to its next part.
Attach(t) ==
  /\ str' = [str EXCEPT ![call[t].this] = tmp[t]]
  /\ tmp' = [tmp EXCEPT ![t] = NoRep]
  /\ IF call[t].op \in {"destroy", "assign", "reserve"}
     THEN Return(t) /\ UNCHANGED ptr
     ELSE IF call[t].op = "append" /\ ptr[t] = NoRep
     THEN /\ pc' = [pc EXCEPT ![t] = "mutate"]
          /\ ptr' = [ptr EXCEPT ![t] = str'[call[t].arg]]
          /\ UNCHANGED <<call, before>>
     ELSE /\ pc' = [pc EXCEPT ![t] = "fill"]
          /\ UNCHANGED <<call, ptr, before>>

\* Faulty variant: the value after the subtraction is taken for the one before.
DisposeEarly(t) ==
  /\ pc[t] = "dispose"
  /\ LET r == str[call[t].this] IN
       \/ r = EmptyRep /\ Attach(t) /\ UNCHANGED rep
       \/ /\ r # EmptyRep
          /\ rep' = [rep EXCEPT ![r].refcount = @ - 1]
          /\ IF rep[r].refcount - 1 <= 0
             THEN /\ pc' = [pc EXCEPT ![t] = "free"]
                  /\ UNCHANGED <<str, call, tmp, ptr, before>>
             ELSE Attach(t)
  /\ UNCHANGED ref

\* _M_dispose: one reference less; whoever drops the last one frees it.
Dispose(t) ==
  /\ pc[t] = "dispose"
  /\ LET r == str[call[t].this] IN
       \/ r = EmptyRep /\ Attach(t) /\ UNCHANGED rep
       \/ /\ r # EmptyRep
          /\ rep' = [rep EXCEPT ![r].refcount = @ - 1]
          /\ IF rep[r].refcount <= 0
             THEN /\ pc' = [pc EXCEPT ![t] = "free"]
                  /\ UNCHANGED <<str, call, tmp, ptr, before>>
             ELSE Attach(t)
  /\ UNCHANGED ref

\* _M_destroy.
Free(t) ==
  /\ pc[t] = "free"
  /\ rep' = [rep EXCEPT ![str[call[t].this]] = Dead]
  /\ Attach(t)
  /\ UNCHANGED ref

\* _M_mutate cannot work in place.
NeedsRep(t) == NewLen(t) > Mine(t).capacity \/ Mine(t).refcount > 0

\* _M_mutate: a new _Rep for what is kept of the characters, or in place.
Mutate(t) ==
  /\ pc[t] = "mutate"
  /\ IF NeedsRep(t)
     THEN LET kept == IF call[t].op \in {"clear", "erase"} THEN <<>>
                      ELSE Mine(t).chars
          IN \E r \in Rep, new \in Created(kept, NewLen(t)) :
               /\ ~rep[r].alive
               /\ rep' = [rep EXCEPT ![r] = new]
               /\ tmp' = [tmp EXCEPT ![t] = r]
               /\ pc' = [pc EXCEPT ![t] = "dispose"]
     ELSE pc' = [pc EXCEPT ![t] = "fill"] /\ UNCHANGED <<rep, tmp>>
  /\ UNCHANGED <<str, ref, call, ptr, before>>

\* operator new throws: the call ends with its string as it was.
BadAlloc(t) ==
  /\ pc[t] \in {"clone", "mutate"}
  /\ pc[t] = "mutate" => NeedsRep(t)
  /\ Return(t)
  /\ ptr' = [ptr EXCEPT ![t] = NoRep]
  /\ UNCHANGED <<str, rep, ref, tmp>>

\* The characters of the string once the call has written its own.
Filled(t) ==
  IF call[t].op = "append" THEN {Mine(t).chars \o v : v \in CharsOf(ptr[t])}
  ELSE IF call[t].op = "push_back" THEN {Append(Mine(t).chars, call[t].char)}
  ELSE IF call[t].op \in {"clear", "erase"} THEN {<<>>}
  ELSE {Mine(t).chars}

\* The end of _M_mutate, the copying into the gap, and _M_set_leaked where
\* the call returns an iterator.
Fill(t) ==
  /\ pc[t] = "fill"
  /\ LET keeps == call[t].op \in {"erase", "leak"} IN
       /\ \E v \in Filled(t) :
            rep' = [rep EXCEPT ![str[call[t].this]].chars = v,
                               ![str[call[t].this]].refcount =
                                  IF keeps THEN -1 ELSE 0]
       /\ ref' = IF keeps THEN ref \cup {call[t].this} ELSE ref
  /\ Return(t)
  /\ ptr' = [ptr EXCEPT ![t] = NoRep]
  /\ UNCHANGED <<str, tmp>>

\* _M_leak: unshare, and mark the _Rep as not to be shared.
Leak(t) ==
  /\ pc[t] = "leak"
  /\ \/ /\ Mine(t).refcount > 0
        /\ pc' = [pc EXCEPT ![t] = "mutate"]
        /\ UNCHANGED <<rep, ref, call, before>>
     \/ /\ Mine(t).refcount <= 0
        /\ rep' = IF str[call[t].this] = EmptyRep THEN rep
                  ELSE [rep EXCEPT ![str[call[t].this]].refcount = -1]
        /\ ref' = ref \cup {call[t].this}
        /\ Return(t)
  /\ UNCHANGED <<str, tmp, ptr>>

Begin(t) ==
  \E s \in Str :
    \/ construct(t, s) \/ destroy(t, s) \/ reserve(t, s) \/ clear(t, s)
    \/ erase(t, s) \/ leak(t, s)
    \/ \E c \in Char : push_back(t, s, c) \/ put(t, s, c)
    \/ \E u \in Str :
         copy(t, s, u) \/ assign(t, s, u) \/ append(t, s, u) \/ swap(t, s, u)

Continue(t) ==
  \/ Grab(t) \/ Refcopy(t) \/ Reserve(t) \/ Clone(t) \/ Dispose(t) \/ Free(t)
  \/ Mutate(t) \/ BadAlloc(t) \/ Fill(t) \/ Leak(t)

Next == \E t \in Thread : Begin(t) \/ Continue(t)

Spec == Init /\ [][Next]_vars

-----------------------------------------------------------------------------

\* The type invariant.  What _M_refcount can be is RefCountExact's to say.
TypeOK ==
  /\ str \in [Str -> AllRep \cup {NoRep}]
  /\ rep \in [AllRep -> [alive : BOOLEAN, refcount : Int, capacity : 0 .. MaxLen,
                         chars : Seq(Char)]]
  /\ \A r \in AllRep : Len(rep[r].chars) <= rep[r].capacity
  /\ ref \subseteq Str
  /\ pc \in [Thread -> {"idle", "grab", "refcopy", "reserve", "clone",
                        "dispose", "free", "mutate", "fill", "leak"}]
  /\ \A t \in Thread : pc[t] = "idle" <=> call[t] = NoCall
  /\ tmp \in [Thread -> AllRep \cup {NoRep}]
  /\ ptr \in [Thread -> AllRep \cup {NoRep}]
  /\ before \in [Str -> Seq(Char) \cup {None}]

\* The value of a string: while a call changes it, the one it had before.
strValue ==
  [s \in Str |-> IF Claimed(s) THEN before[s]
                ELSE IF str[s] = NoRep THEN None ELSE rep[str[s]].chars]

\* Every string is a value of its own: whatever the threads do, a string has
\* the value that its own calls gave it.
Strings == INSTANCE StringValues WITH value <- strValue

ValuesIsolated == Strings!Spec

\* Who counts as a reference: the strings that point to a _Rep and have not
\* yet given it up, and the calls that have taken one for their string.
Holders(r) ==
  {s \in Str : /\ str[s] = r
               /\ \A t \in Thread : call[t].this = s => pc[t] # "free"}
    \cup {t \in Thread : tmp[t] = r}

BeingFreed(r) ==
  \E t \in Thread : pc[t] = "free" /\ str[call[t].this] = r

\* "_M_refcount has three states: -1: leaked, one reference, no ref-copies
\* allowed; 0: one reference; n>0: n + 1 references", at every moment.
RefCountExact ==
  \A r \in Rep : rep[r].alive =>
    LET n == Cardinality(Holders(r)) IN
      \/ BeingFreed(r) /\ n = 0
      \/ /\ ~BeingFreed(r) /\ n > 0
         /\ \/ rep[r].refcount = n - 1
            \/ rep[r].refcount = -1 /\ n = 1

\* No string and no call uses a _Rep that has been freed.
NoUseAfterFree ==
  /\ \A s \in Str : str[s] # NoRep => rep[str[s]].alive
  /\ \A t \in Thread : /\ tmp[t] # NoRep => rep[tmp[t]].alive
                       /\ ptr[t] # NoRep => rep[ptr[t]].alive

\* A _Rep that the program may write through a reference has one string.
LeakedAlone ==
  \A s \in ref, u \in Str :
    ~Claimed(s) /\ u # s /\ str[u] = str[s] => str[s] = EmptyRep
=============================================================================
