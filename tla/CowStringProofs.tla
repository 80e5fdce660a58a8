--------------------------- MODULE CowStringProofs ---------------------------
(***************************************************************************)
(* Proofs about CowString, for any threads, strings and representations,   *)
(* when no string is appended to itself.                                   *)
(***************************************************************************)
EXTENDS CowString, TLAPS, FiniteSetTheorems

Pc == {"idle", "grab", "refcopy", "reserve", "clone", "dispose", "free",
       "mutate", "fill", "leak"}

WithArg == {"copy", "assign", "append"}
Refilled == {"append", "push_back", "clear", "erase", "leak"}
Replacing == Refilled \cup {"assign", "reserve"}
Op == Replacing \cup {"none", "copy", "destroy"}

Types ==
  /\ str \in [Str -> AllRep \cup {NoRep}]
  /\ rep \in [AllRep -> [alive : BOOLEAN, refcount : Int, capacity : Nat,
                         chars : Seq(Char)]]
  /\ ref \subseteq Str
  /\ pc \in [Thread -> Pc]
  /\ call \in [Thread -> [op : Op, this : Str \cup {NoStr},
                          arg : Str \cup {NoStr}, char : Char \cup {None}]]
  /\ tmp \in [Thread -> AllRep \cup {NoRep}]
  /\ ptr \in [Thread -> AllRep \cup {NoRep}]
  /\ before \in [Str -> Seq(Char) \cup {None}]

\* The operations that can be at a place of the code.
At(p, op) ==
  /\ p = "idle" <=> op = "none"
  /\ p \in {"grab", "refcopy"} => op \in {"copy", "assign"}
  /\ p = "reserve" => op = "reserve"
  /\ p = "clone" => op \in {"copy", "assign", "reserve", "append"}
  /\ p \in {"dispose", "free"} => op \in Replacing \cup {"destroy"}
  /\ p \in {"mutate", "fill"} => op \in Refilled
  /\ p = "leak" => op = "leak"

\* What a thread has in its hands.
CallOf(t) ==
  LET c == call[t]
      s == call[t].this
  IN /\ At(pc[t], c.op)
     /\ c.op = "none" => c = NoCall
     /\ c.op # "none" => s \in Str /\ (c.op = "copy" <=> str[s] = NoRep)
     /\ c.op \in WithArg => c.arg \in Str \ {s} /\ str[c.arg] # NoRep
     /\ c.op \notin WithArg => c.arg = NoStr
     /\ c.op = "push_back" => c.char \in Char
     /\ pc[t] = "free" => str[s] # EmptyRep
     /\ tmp[t] # NoRep <=> pc[t] \in {"dispose", "free"} /\ c.op # "destroy"
     /\ tmp[t] = EmptyRep => c.op = "assign"
     /\ ptr[t] # NoRep => /\ c.op = "append" /\ pc[t] # "clone"
                          /\ ptr[t] = str[c.arg]
     /\ pc[t] \in {"mutate", "fill"} /\ c.op = "append" => ptr[t] # NoRep

Calls == \A t \in Thread : CallOf(t)

\* No two calls change one string, and none changes one that another reads.
Exclusive ==
  \A t, u \in Thread : t # u /\ call[t].this # NoStr =>
    call[u].this # call[t].this /\ call[u].arg # call[t].this

\* The static _Rep is always the empty string.
EmptyKept ==
  /\ rep[EmptyRep].alive
  /\ rep[EmptyRep].chars = <<>> /\ rep[EmptyRep].capacity = 0
  /\ rep[EmptyRep].refcount \in {-1, 0}

FreedOnce ==
  \A t, u \in Thread :
    pc[t] = "free" /\ pc[u] = "free" /\ str[call[t].this] = str[call[u].this]
      => t = u

\* A _Rep that a call is about to write has no other string.
UnsharedOf(t) ==
  \A r \in Rep :
    /\ pc[t] = "fill" /\ str[call[t].this] = r => Holders(r) = {call[t].this}
    /\ /\ pc[t] \in {"dispose", "free"}
       /\ call[t].op \notin {"destroy", "assign"}
       /\ tmp[t] = r
       => Holders(r) = {t}

Unshared == \A t \in Thread : UnsharedOf(t)

\* What _M_grab has found out about the argument's _Rep stays true.
SharingOf(t) ==
  pc[t] = "refcopy" => Source(t) = EmptyRep \/ rep[Source(t)].refcount >= 0

Sharing == \A t \in Thread : SharingOf(t)

\* A string with references into it is leaked, and what may be called for it
\* without ending them.
LeakedOf(s) ==
  /\ str[s] # NoRep
  /\ str[s] = EmptyRep \/ rep[str[s]].refcount = -1
  /\ \A t \in Thread : call[t].this = s =>
       \/ call[t].op = "erase" /\ pc[t] \in {"mutate", "fill"}
       \/ call[t].op = "leak" /\ pc[t] = "leak"

Leaked == \A s \in ref : LeakedOf(s)

\* The room that a call needs for what it makes of its string.
Need(t) ==
  IF call[t].op \in {"clear", "erase"} THEN 0
  ELSE Len(before[call[t].this])
         + (IF call[t].op = "append" THEN Len(rep[Source(t)].chars)
            ELSE IF call[t].op = "push_back" THEN 1 ELSE 0)

\* How far a call has come with the value of its string.
ValueOf(t) ==
  LET c == call[t]
      s == call[t].this
  IN /\ c.op = "copy" => before[s] = None
     /\ c.op \notin {"none", "copy"} => before[s] \in Seq(Char)
     /\ /\ c.op \notin {"none", "copy"}
        /\ pc[t] = "fill" => c.op \notin {"clear", "erase"}
        => rep[str[s]].chars = before[s]
     /\ pc[t] \in {"dispose", "free"} =>
          /\ c.op = "assign" => rep[tmp[t]].chars = rep[Source(t)].chars
          /\ c.op \in {"reserve", "append", "push_back", "leak"} =>
               rep[tmp[t]].chars = before[s]
          /\ c.op \in {"clear", "erase"} => rep[tmp[t]].chars = <<>>
          /\ c.op \in Refilled /\ (c.op = "append" => ptr[t] # NoRep) =>
               Need(t) <= rep[tmp[t]].capacity
     /\ pc[t] = "fill" => Need(t) <= Mine(t).capacity

Values == \A t \in Thread : ValueOf(t)

Fits == \A r \in AllRep : /\ Len(rep[r].chars) <= rep[r].capacity
                          /\ rep[r].capacity <= MaxLen

IInv ==
  /\ Types
  /\ Calls
  /\ Exclusive
  /\ EmptyKept
  /\ NoUseAfterFree
  /\ RefCountExact
  /\ FreedOnce
  /\ Unshared
  /\ Sharing
  /\ Leaked
  /\ Values
  /\ Fits

-----------------------------------------------------------------------------
\* Counting.

LEMMA InHolders ==
  ASSUME NEW r
  PROVE  /\ \A s \in Str : s \in Holders(r) <=>
              /\ str[s] = r
              /\ \A t \in Thread : call[t].this = s => pc[t] # "free"
         /\ \A t \in Thread : t \in Holders(r) <=> tmp[t] = r
         /\ Holders(r) \subseteq Str \cup Thread
  BY CowAssumption DEF Holders

LEMMA HoldersFinite ==
  ASSUME NEW r
  PROVE  IsFiniteSet(Holders(r)) /\ Cardinality(Holders(r)) \in Nat
  <1>1. IsFiniteSet(Str \cup Thread)
    BY CowAssumption, FS_Union
  <1>2. Holders(r) \in SUBSET (Str \cup Thread)
    BY InHolders
  <1> QED BY <1>1, <1>2, FS_Subset, FS_CardinalityType

\* Whoever holds a _Rep keeps it, and _M_refcount says whether it does so alone.
LEMMA Held ==
  ASSUME IInv, NEW r \in Rep, NEW x \in Holders(r)
  PROVE  /\ rep[r].alive /\ ~BeingFreed(r)
         /\ Cardinality(Holders(r)) \in Nat \ {0}
         /\ \/ rep[r].refcount = Cardinality(Holders(r)) - 1
            \/ rep[r].refcount = -1 /\ Cardinality(Holders(r)) = 1
         /\ rep[r].refcount <= 0 => Holders(r) = {x}
  <1>1. rep[r].alive
    BY CowAssumption, InHolders DEF IInv, NoUseAfterFree
  <1>2. Cardinality(Holders(r)) \in Nat /\ IsFiniteSet(Holders(r))
    BY HoldersFinite
  <1>3. Cardinality(Holders(r)) # 0
    BY <1>2, FS_EmptySet
  <1>4. /\ ~BeingFreed(r)
        /\ \/ rep[r].refcount = Cardinality(Holders(r)) - 1
           \/ rep[r].refcount = -1 /\ Cardinality(Holders(r)) = 1
    BY <1>1, <1>3 DEF IInv, RefCountExact
  <1>5. ASSUME rep[r].refcount <= 0 PROVE Holders(r) = {x}
    <2>1. Cardinality(Holders(r)) = 1
      BY <1>2, <1>3, <1>4, <1>5
    <2>2. \E y : Holders(r) = {y}
      BY <1>2, <2>1, FS_Singleton
    <2> QED BY <2>2
  <1> QED BY <1>1, <1>2, <1>3, <1>4, <1>5

LEMMA Alone ==
  ASSUME NEW r, NEW x, Holders(r) = {x} PROVE Cardinality(Holders(r)) = 1
  BY FS_Singleton

\* A _Rep that is being freed has no holder, and free memory no user.
LEMMA NotHeld ==
  ASSUME IInv, NEW r \in Rep, BeingFreed(r)
  PROVE  rep[r].alive /\ Holders(r) = {} /\ Cardinality(Holders(r)) = 0
  <1>1. PICK t \in Thread : pc[t] = "free" /\ str[call[t].this] = r
    BY DEF BeingFreed
  <1>2. call[t].this \in Str /\ rep[r].alive
    BY <1>1, CowAssumption
    DEF IInv, Calls, CallOf, At, NoUseAfterFree, Replacing, Refilled
  <1>3. Cardinality(Holders(r)) = 0
    BY <1>2, HoldersFinite DEF IInv, RefCountExact
  <1> QED BY <1>2, <1>3, HoldersFinite, FS_EmptySet

LEMMA NotUsed ==
  ASSUME IInv, NEW r \in Rep, ~rep[r].alive
  PROVE  /\ Holders(r) = {} /\ ~BeingFreed(r)
         /\ \A s \in Str : str[s] # r
         /\ \A t \in Thread : tmp[t] # r /\ ptr[t] # r
  <1>1. /\ \A s \in Str : str[s] # r
        /\ \A t \in Thread : tmp[t] # r /\ ptr[t] # r
    BY CowAssumption DEF IInv, NoUseAfterFree
  <1>2. Holders(r) = {}
    BY <1>1, InHolders
  <1> QED BY <1>1, <1>2, NotHeld

\* The argument of a call is no other call's string: it holds its _Rep.
LEMMA ArgumentHeld ==
  ASSUME IInv, NEW t \in Thread, call[t].op \in WithArg
  PROVE  /\ call[t].arg \in Str /\ str[call[t].arg] \in AllRep
         /\ call[t].arg \in Holders(Source(t))
         /\ \A u \in Thread : call[u].this # call[t].arg
         /\ rep[Source(t)].alive
  <1>1. call[t].arg \in Str /\ str[call[t].arg] \in AllRep
    BY DEF IInv, Calls, CallOf, Types
  <1>2. call[t].this # call[t].arg
    BY DEF IInv, Calls, CallOf
  <1>3. \A u \in Thread : call[u].this # call[t].arg
    BY <1>1, <1>2, CowAssumption DEF IInv, Exclusive
  <1> QED
    BY <1>1, <1>3, InHolders, CowAssumption DEF Source, IInv, NoUseAfterFree, AllRep

\* The string of a call holds its _Rep until that is to be freed.
LEMMA ThisHeld ==
  ASSUME IInv, NEW t \in Thread, pc[t] \notin {"idle", "free"},
         call[t].op # "copy"
  PROVE  /\ call[t].this \in Str /\ str[call[t].this] \in AllRep
         /\ call[t].this \in Holders(str[call[t].this])
         /\ rep[str[call[t].this]].alive
  <1>1. call[t].this \in Str /\ str[call[t].this] \in AllRep
    BY DEF IInv, Calls, CallOf, Types, At, Pc, Replacing, Refilled
  <1>2. \A u \in Thread : call[u].this = call[t].this => pc[u] # "free"
    BY <1>1, CowAssumption DEF IInv, Exclusive
  <1> QED
    BY <1>1, <1>2, InHolders, CowAssumption DEF IInv, NoUseAfterFree, AllRep

-----------------------------------------------------------------------------
\* What a step of one thread leaves to another.

Stable(u) ==
  LET s == call[u].this
      a == call[u].arg
  IN /\ pc'[u] = pc[u] /\ call'[u] = call[u]
     /\ tmp'[u] = tmp[u] /\ ptr'[u] = ptr[u]
     /\ s # NoStr => str'[s] = str[s] /\ before'[s] = before[s]
     /\ a # NoStr => str'[a] = str[a]
     /\ \A r \in AllRep :
          \/ s # NoStr /\ str[s] = r
          \/ a # NoStr /\ str[a] = r
          \/ tmp[u] = r
          => /\ rep'[r].chars = rep[r].chars
             /\ rep'[r].capacity = rep[r].capacity

LEMMA StableKeeps ==
  ASSUME IInv, NEW u \in Thread, Stable(u)
  PROVE  CallOf(u)' /\ ValueOf(u)'
  <1> USE DEF IInv, Calls, Values
  <1> DEFINE s == call[u].this
             a == call[u].arg
  <1>1. CallOf(u) /\ ValueOf(u)
    OBVIOUS
  <1>2. CASE call[u].op = "none"
    BY <1>1, <1>2 DEF Stable, CallOf, ValueOf, NoCall, At, Pc, Types, WithArg,
                      Replacing, Refilled
  <1>3. CASE call[u].op # "none"
    <2>1. s \in Str /\ s # NoStr
      BY <1>1, <1>3, CowAssumption DEF CallOf
    <2>2. /\ str'[s] = str[s] /\ before'[s] = before[s]
          /\ a # NoStr => str'[a] = str[a]
      BY <2>1 DEF Stable
    <2>3. CallOf(u)'
      BY <1>1, <2>1, <2>2, CowAssumption DEF Stable, CallOf, WithArg
    <2>4. str[s] # NoRep => /\ rep'[str[s]].chars = rep[str[s]].chars
                            /\ rep'[str[s]].capacity = rep[str[s]].capacity
      BY <2>1 DEF Stable, Types
    <2>5. call[u].op \in WithArg =>
            /\ a \in Str /\ a # NoStr
            /\ rep'[str[a]].chars = rep[str[a]].chars
      BY <1>1, CowAssumption DEF Stable, Types, CallOf
    <2>6. tmp[u] # NoRep => /\ rep'[tmp[u]].chars = rep[tmp[u]].chars
                            /\ rep'[tmp[u]].capacity = rep[tmp[u]].capacity
      BY DEF Stable, Types
    <2>7. Need(u)' = Need(u)
      BY <2>2, <2>5 DEF Need, Source, Stable, WithArg
    <2>8. /\ pc'[u] = pc[u] /\ call'[u] = call[u]
          /\ tmp'[u] = tmp[u] /\ ptr'[u] = ptr[u]
      BY DEF Stable
    <2>9. ValueOf(u)'
      BY <1>1, <1>3, <2>1, <2>2, <2>4, <2>5, <2>6, <2>7, <2>8
      DEF CallOf, ValueOf, Mine, Source, At, WithArg, Refilled, Replacing
    <2> QED BY <2>3, <2>9
  <1> QED BY <1>2, <1>3

\* Calls that follow the code do not meet: t's string is no other call's, and
\* what it reads is nobody's to change.
LEMMA Apart ==
  ASSUME IInv, NEW t \in Thread, NEW u \in Thread \ {t}, call[t].this # NoStr
  PROVE  call[u].this # call[t].this /\ call[u].arg # call[t].this
  BY DEF IInv, Exclusive

-----------------------------------------------------------------------------
\* The steps of a call under way.

\* What a step of t leaves alone, whatever it does.
Step(t) ==
  /\ \A v \in Thread \ {t} : /\ pc'[v] = pc[v] /\ call'[v] = call[v]
                             /\ tmp'[v] = tmp[v] /\ ptr'[v] = ptr[v]
  /\ call'[t] = call[t] \/ (call'[t] = NoCall /\ pc'[t] = "idle")
  /\ \A y \in Str \ {call[t].this} : str'[y] = str[y] /\ before'[y] = before[y]

\* Nobody but t and its string has anything to do with r.
Private(t, r) ==
  /\ Holders(r) \subseteq {call[t].this, t}
  /\ \A v \in Thread \ {t} : ~(pc[v] = "free" /\ str[call[v].this] = r)

\* A step leaves r as its users found it.
Same(r) ==
  /\ rep'[r].alive = rep[r].alive
  /\ rep'[r].chars = rep[r].chars
  /\ rep'[r].capacity = rep[r].capacity
  /\ \/ r = EmptyRep
     \/ rep'[r].refcount = rep[r].refcount
     \/ rep'[r].refcount >= 0 /\ rep[r].refcount >= 0

\* Who can meet a representation: a holder, or the call that frees it.
LEMMA Users ==
  ASSUME IInv, NEW r \in Rep, NEW v \in Thread
  PROVE  /\ call[v].arg # NoStr /\ str[call[v].arg] = r => call[v].arg \in Holders(r)
         /\ ptr[v] = r => call[v].arg \in Holders(r)
         /\ tmp[v] = r => v \in Holders(r)
         /\ call[v].this # NoStr /\ str[call[v].this] = r =>
              pc[v] = "free" \/ call[v].this \in Holders(r)
         /\ \A s \in Str : str[s] = r =>
              \/ s \in Holders(r)
              \/ \E w \in Thread : pc[w] = "free" /\ call[w].this = s
  <1> USE CowAssumption
  <1>1. CallOf(v)
    BY DEF IInv, Calls
  <1>2. call[v].arg # NoStr /\ str[call[v].arg] = r => call[v].arg \in Holders(r)
    BY <1>1, ArgumentHeld DEF Source, CallOf
  <1>3. ptr[v] = r => call[v].arg # NoStr /\ str[call[v].arg] = r
    BY <1>1 DEF CallOf, WithArg
  <1>4. tmp[v] = r => v \in Holders(r)
    BY InHolders
  <1>5. call[v].this # NoStr /\ str[call[v].this] = r =>
          pc[v] = "free" \/ call[v].this \in Holders(r)
    BY <1>1, ThisHeld DEF CallOf, At, NoCall
  <1>6. \A s \in Str : str[s] = r =>
          \/ s \in Holders(r)
          \/ \E w \in Thread : pc[w] = "free" /\ call[w].this = s
    BY InHolders
  <1> QED BY <1>2, <1>3, <1>4, <1>5, <1>6

LEMMA Begun ==
  ASSUME IInv, NEW t \in Thread, pc[t] # "idle"
  PROVE  /\ call[t].this \in Str /\ call[t].this # NoStr /\ call[t].op # "none"
         /\ \A v \in Thread \ {t} : /\ call[v].this # call[t].this
                                   /\ call[v].arg # call[t].this
  BY CowAssumption, Apart DEF IInv, Calls, CallOf, At

LEMMA StepHolders ==
  ASSUME IInv, NEW t \in Thread, pc[t] # "idle", Step(t), NEW r \in Rep
  PROVE  LET x == call[t].this IN
         /\ \A y \in (Str \cup Thread) \ {x, t} : y \in Holders(r)' <=> y \in Holders(r)
         /\ x \in Holders(r)' <=>
              str'[x] = r /\ pc'[t] # "free"
         /\ t \in Holders(r)' <=> tmp'[t] = r
         /\ x \in Holders(r) <=> str[x] = r /\ pc[t] # "free"
         /\ t \in Holders(r) <=> tmp[t] = r
         /\ BeingFreed(r)' <=>
              \/ pc'[t] = "free" /\ str'[x] = r
              \/ \E v \in Thread \ {t} : pc[v] = "free" /\ str[call[v].this] = r
         /\ Holders(r)' \subseteq Str \cup Thread
         /\ Holders(r) \subseteq Str \cup Thread
  <1> USE CowAssumption
  <1> DEFINE x == call[t].this
  <1>1. /\ x \in Str /\ x # NoStr
        /\ \A v \in Thread \ {t} : call[v].this # x
    BY Begun
  <1>2. \A v \in Thread \ {t} : /\ pc'[v] = pc[v] /\ call'[v] = call[v]
                               /\ tmp'[v] = tmp[v]
    BY DEF Step
  <1>3. \/ call'[t] = call[t]
        \/ call'[t] = NoCall /\ NoCall.this \notin Str /\ pc'[t] = "idle"
    BY DEF Step, NoCall
  <1>4. \A y \in Str \ {x} : str'[y] = str[y]
    BY DEF Step
  <1>5. ASSUME NEW y \in Str \ {x} PROVE y \in Holders(r)' <=> y \in Holders(r)
    BY <1>1, <1>2, <1>3, <1>4, <1>5 DEF Holders
  <1>6. ASSUME NEW y \in Thread \ {t} PROVE y \in Holders(r)' <=> y \in Holders(r)
    BY <1>2, <1>6 DEF Holders
  <1>7. x \in Holders(r)' <=>
              str'[x] = r /\ pc'[t] # "free"
    BY <1>1, <1>2, <1>3 DEF Holders
  <1>8. t \in Holders(r)' <=> tmp'[t] = r
    BY DEF Holders
  <1>9. x \in Holders(r) <=> str[x] = r /\ pc[t] # "free"
    BY <1>1 DEF Holders
  <1>10. t \in Holders(r) <=> tmp[t] = r
    BY DEF Holders
  <1>11. \A v \in Thread : pc[v] = "free" => call[v].this \in Str
    BY Begun
  <1>12. BeingFreed(r)' <=>
              \/ pc'[t] = "free" /\ str'[x] = r
              \/ \E v \in Thread \ {t} : pc[v] = "free" /\ str[call[v].this] = r
    <2>1. BeingFreed(r)' <=>
            \/ pc'[t] = "free" /\ str'[call'[t].this] = r
            \/ \E v \in Thread \ {t} : pc[v] = "free" /\ str[call[v].this] = r
      BY <1>1, <1>2, <1>4, <1>11 DEF BeingFreed
    <2> QED BY <1>3, <2>1
  <1>13. Holders(r)' \subseteq Str \cup Thread /\ Holders(r) \subseteq Str \cup Thread
    BY DEF Holders
  <1> QED BY <1>5, <1>6, <1>7, <1>8, <1>9, <1>10, <1>12, <1>13

\* RefCountExact, for one representation.
Counted(r) ==
  rep[r].alive =>
    LET n == Cardinality(Holders(r)) IN
      \/ BeingFreed(r) /\ n = 0
      \/ /\ ~BeingFreed(r) /\ n > 0
         /\ \/ rep[r].refcount = n - 1
            \/ rep[r].refcount = -1 /\ n = 1

\* What is left to show of a step of t, once it is known which representations
\* it changes and which it takes for its string x.
LEMMA StepKeeps ==
  ASSUME IInv, NEW t \in Thread, pc[t] # "idle", Step(t),
         NEW x \in Str, x = call[t].this,
         \A r \in AllRep : Same(r) \/ (r \in Rep /\ Private(t, r)),
         \A r \in Rep : str'[x] = r \/ tmp'[t] = r =>
           Holders(r) = {} \/ \E y \in {x, t, call[t].arg} : y \in Holders(r),
         Types', EmptyKept', Fits',
         CallOf(t)', ValueOf(t)', UnsharedOf(t)', SharingOf(t)',
         pc'[t] = "free" => str'[x] \in Rep /\ ~BeingFreed(str'[x]),
         str'[x] # NoRep => rep'[str'[x]].alive,
         tmp'[t] # NoRep => rep'[tmp'[t]].alive,
         ptr'[t] # NoRep => rep'[ptr'[t]].alive,
         \A s \in ref' : s \in ref \/ s = x,
         x \in ref' => LeakedOf(x)',
         \A r \in Rep : Counted(r)'
  PROVE  IInv'
  <1> USE CowAssumption
  <1>1. \A v \in Thread \ {t} : call[v].this # x /\ call[v].arg # x
    BY Begun
  <1>2. \A v \in Thread \ {t} : /\ pc'[v] = pc[v] /\ call'[v] = call[v]
                               /\ tmp'[v] = tmp[v] /\ ptr'[v] = ptr[v]
    BY DEF Step
  <1>3. \A y \in Str \ {x} : str'[y] = str[y] /\ before'[y] = before[y]
    BY DEF Step
  <1>4. ASSUME NEW v \in Thread \ {t}, NEW r \in Rep, Private(t, r)
        PROVE  /\ call[v].arg # NoStr => str[call[v].arg] # r
               /\ call[v].this # NoStr => str[call[v].this] # r
               /\ tmp[v] # r /\ ptr[v] # r
    <2>1. /\ call[v].arg \notin Holders(r) /\ v \notin Holders(r)
          /\ call[v].this # NoStr => call[v].this \notin Holders(r)
      <3>1. CallOf(v) /\ v \notin Str
        BY DEF IInv, Calls
      <3>2. call[v].arg = NoStr \/ call[v].arg \in Str
        BY <3>1 DEF CallOf, WithArg
      <3>3. call[v].this = NoStr \/ call[v].this \in Str
        BY <3>1 DEF CallOf, NoCall
      <3>4. Holders(r) \subseteq {x, t} /\ NoStr \notin {x, t}
        BY <1>4 DEF Private
      <3> QED BY <1>1, <3>1, <3>2, <3>3, <3>4
    <2>2. ~(pc[v] = "free" /\ str[call[v].this] = r)
      BY <1>4 DEF Private
    <2> QED BY <2>1, <2>2, Users
  <1>5. ASSUME NEW v \in Thread \ {t} PROVE Stable(v)
    <2>1. ASSUME NEW r \in AllRep,
                 \/ call[v].this # NoStr /\ str[call[v].this] = r
                 \/ call[v].arg # NoStr /\ str[call[v].arg] = r
                 \/ tmp[v] = r
          PROVE  rep'[r].chars = rep[r].chars /\ rep'[r].capacity = rep[r].capacity
      BY <1>4, <2>1 DEF Same
    <2>2. call[v].this \in Str \cup {NoStr} /\ call[v].arg \in Str \cup {NoStr}
      BY DEF IInv, Types
    <2> QED BY <1>1, <1>2, <1>3, <2>1, <2>2 DEF Stable
  <1>6. Calls' /\ Values'
    BY <1>5, StableKeeps DEF Calls, Values
  <1>7. Exclusive'
    BY <1>2 DEF IInv, Exclusive, Step, NoCall
  <1>8. NoUseAfterFree'
    <2>1. ASSUME NEW v \in Thread \ {t}
          PROVE  /\ tmp'[v] # NoRep => rep'[tmp'[v]].alive
                 /\ ptr'[v] # NoRep => rep'[ptr'[v]].alive
      <3>1. tmp[v] \in AllRep \cup {NoRep} /\ ptr[v] \in AllRep \cup {NoRep}
        BY DEF IInv, Types
      <3> QED BY <1>2, <1>4, <3>1 DEF Same, IInv, NoUseAfterFree
    <2>2. ASSUME NEW s \in Str \ {x}, str[s] # NoRep PROVE rep'[str'[s]].alive
      <3>1. str[s] \in AllRep /\ rep[str[s]].alive /\ str'[s] = str[s]
        BY <1>3, <2>2 DEF IInv, Types, NoUseAfterFree
      <3>2. str[s] \in Rep => ~Private(t, str[s])
        <4>1. str[s] \in Rep =>
                \/ s \in Holders(str[s])
                \/ \E w \in Thread : pc[w] = "free" /\ call[w].this = s
          BY Users
        <4> QED BY <4>1 DEF Private
      <3> QED BY <3>1, <3>2 DEF Same
    <2> QED BY <1>3, <2>1, <2>2 DEF NoUseAfterFree
  <1>9. RefCountExact'
    BY DEF RefCountExact, Counted
  <1>10. FreedOnce'
    <2>1. ASSUME NEW v \in Thread \ {t}, pc'[v] = "free"
          PROVE  str'[call'[v].this] = str[call[v].this] /\ pc[v] = "free"
      BY <1>1, <1>2, <1>3, <2>1, Begun
    <2>2. ASSUME NEW v \in Thread \ {t}, pc'[v] = "free", pc'[t] = "free"
          PROVE  str'[call'[v].this] # str'[call'[t].this]
      BY <2>1, <2>2 DEF BeingFreed, Step
    <2>3. ASSUME NEW v \in Thread \ {t}, NEW w \in Thread \ {t},
                 pc'[v] = "free", pc'[w] = "free",
                 str'[call'[v].this] = str'[call'[w].this]
          PROVE  v = w
      BY <2>1, <2>3 DEF IInv, FreedOnce
    <2> QED BY <2>2, <2>3 DEF FreedOnce
  <1>11. ASSUME NEW v \in Thread \ {t} PROVE UnsharedOf(v)'
    <2>1. ASSUME NEW r \in Rep, NEW y,
                 \/ pc[v] = "fill" /\ str[call[v].this] = r /\ y = call[v].this
                 \/ /\ pc[v] \in {"dispose", "free"}
                    /\ call[v].op \notin {"destroy", "assign"}
                    /\ tmp[v] = r /\ y = v
          PROVE  Holders(r)' = {y}
      <3>1. Holders(r) = {y}
        BY <2>1 DEF IInv, Unshared, UnsharedOf
      <3>2. y \notin {x, t, call[t].arg}
        <4>1. call[t].arg \in Str \cup {NoStr} /\ call[t].arg \notin Thread
          BY DEF IInv, Types
        <4>2. call[t].arg # NoStr => call[v].this # call[t].arg
          BY ArgumentHeld DEF IInv, Calls, CallOf
        <4> QED BY <1>1, <2>1, <4>1, <4>2, Begun
      <3>3. str'[x] # r /\ tmp'[t] # r
        BY <3>1, <3>2
      <3> QED BY <3>1, <3>2, <3>3, StepHolders
    <2>2. pc[v] = "fill" => str'[call[v].this] = str[call[v].this]
      BY <1>1, <1>3, Begun
    <2>3. ASSUME NEW r \in Rep, pc[v] = "fill", str[call[v].this] = r
          PROVE  Holders(r)' = {call[v].this}
      BY <2>1, <2>3
    <2>4. ASSUME NEW r \in Rep, pc[v] \in {"dispose", "free"}, tmp[v] = r,
                 call[v].op \notin {"destroy", "assign"}
          PROVE  Holders(r)' = {v}
      BY <2>1, <2>4
    <2> QED BY <1>2, <2>2, <2>3, <2>4 DEF UnsharedOf
  <1>12. ASSUME NEW v \in Thread \ {t} PROVE SharingOf(v)'
    <2> SUFFICES ASSUME pc[v] = "refcopy"
                 PROVE  Source(v)' = EmptyRep \/ rep'[Source(v)'].refcount >= 0
      BY <1>2 DEF SharingOf
    <2>1. call[v].arg \in Str /\ Source(v) \in AllRep /\ Source(v)' = Source(v)
      BY <1>1, <1>2, <1>3, ArgumentHeld DEF IInv, Calls, CallOf, At, WithArg, Source
    <2>2. CASE Source(v) = EmptyRep
      BY <2>1, <2>2
    <2>3. CASE Source(v) # EmptyRep
      <3>1. Source(v) \in Rep /\ rep[Source(v)].refcount >= 0
        BY <2>1, <2>3 DEF AllRep, IInv, Sharing, SharingOf
      <3>2. ~Private(t, Source(v))
        BY <1>4, <2>1, <3>1 DEF Source
      <3> QED BY <2>1, <2>3, <3>1, <3>2 DEF Same
    <2> QED BY <2>2, <2>3
  <1>13. ASSUME NEW s \in ref' PROVE LeakedOf(s)'
    <2> SUFFICES ASSUME s # x PROVE LeakedOf(s)'
      OBVIOUS
    <2>1. s \in Str /\ s \in ref /\ LeakedOf(s) /\ str'[s] = str[s] /\ str[s] \in AllRep
      BY <1>3 DEF IInv, Types, Leaked, LeakedOf
    <2>2. str[s] # EmptyRep => rep'[str[s]].refcount = rep[str[s]].refcount
      <3> SUFFICES ASSUME str[s] \in Rep
                   PROVE  rep'[str[s]].refcount = rep[str[s]].refcount
        BY <2>1 DEF AllRep
      <3>1. s \in Holders(str[s])
        BY <2>1, InHolders DEF LeakedOf
      <3>2. ~Private(t, str[s])
        BY <3>1, <2>1 DEF Private
      <3> QED BY <2>1, <3>2 DEF Same, LeakedOf
    <2> QED BY <1>2, <2>1, <2>2 DEF LeakedOf, Step, NoCall
  <1> QED
    BY <1>6, <1>7, <1>8, <1>9, <1>10, <1>11, <1>12, <1>13
    DEF IInv, Unshared, Sharing, Leaked

-----------------------------------------------------------------------------
\* Steps that move no string to another _Rep.

LEMMA HoldersKept ==
  ASSUME str' = str, tmp' = tmp,
         \A v \in Thread : pc'[v] = "free" <=> pc[v] = "free",
         \A v \in Thread : pc[v] = "free" => call'[v] = call[v]
  PROVE  \A r : Holders(r)' = Holders(r) /\ BeingFreed(r)' = BeingFreed(r)
  <1> SUFFICES ASSUME NEW r
               PROVE  Holders(r)' = Holders(r) /\ BeingFreed(r)' = BeingFreed(r)
    OBVIOUS
  <1>1. BeingFreed(r)' = BeingFreed(r)
    BY DEF BeingFreed
  <1>2. \A s \in Str : (\A v \in Thread : call'[v].this = s => pc'[v] # "free")
                       <=> (\A v \in Thread : call[v].this = s => pc[v] # "free")
    OBVIOUS
  <1>3. Holders(r)' = Holders(r)
    BY <1>2 DEF Holders
  <1> QED BY <1>1, <1>3

LEMMA QuietKeeps ==
  ASSUME IInv, str' = str, tmp' = tmp, rep' = rep,
         \A v \in Thread : pc'[v] = "free" <=> pc[v] = "free",
         \A v \in Thread : pc[v] = "free" => call'[v] = call[v],
         \A v \in Thread : ptr'[v] \in {ptr[v], NoRep} \cup {str[s] : s \in Str}
  PROVE  EmptyKept' /\ NoUseAfterFree' /\ RefCountExact' /\ FreedOnce' /\ Fits'
  <1>1. \A r : Holders(r)' = Holders(r) /\ BeingFreed(r)' = BeingFreed(r)
    BY HoldersKept
  <1>2. EmptyKept' /\ Fits'
    BY DEF IInv, EmptyKept, Fits
  <1>3. NoUseAfterFree'
    BY DEF IInv, NoUseAfterFree
  <1>4. RefCountExact'
    BY <1>1 DEF IInv, RefCountExact
  <1>5. FreedOnce'
    BY DEF IInv, FreedOnce
  <1> QED BY <1>2, <1>3, <1>4, <1>5

\* The beginning of a call.
LEMMA CallKeeps ==
  ASSUME IInv,
         NEW t \in Thread, NEW s \in Str, NEW op \in Op \ {"none"},
         NEW u \in Str \cup {NoStr}, NEW c \in Char \cup {None},
         NEW first \in {"grab", "reserve", "clone", "dispose", "mutate", "leak"},
         Call(t, op, s, u, c, first),
         At(first, op), first = "dispose" => op = "destroy",
         op = "copy" <=> str[s] = NoRep,
         op \in WithArg => u \in Str \ {s},
         op \notin WithArg => u = NoStr,
         op = "push_back" => c \in Char,
         \/ ref' = ref \ {s}
         \/ ref' = ref /\ \/ s \notin ref
                          \/ op = "erase" /\ first = "mutate"
                          \/ op = "leak" /\ first = "leak",
         ptr' = IF op = "append" /\ first = "mutate"
                THEN [ptr EXCEPT ![t] = str[u]] ELSE ptr
  PROVE  IInv'
  <1> USE CowAssumption
  <1> DEFINE new == [op |-> op, this |-> s, arg |-> u, char |-> c]
  <1>1. /\ pc[t] = "idle" /\ CallOf(t) /\ call[t] = NoCall
        /\ tmp[t] = NoRep /\ ptr[t] = NoRep
    BY DEF IInv, Call, Goto, Calls, CallOf, At
  <1>2. /\ pc' = [pc EXCEPT ![t] = first]
        /\ call' = [call EXCEPT ![t] = new]
        /\ str' = str /\ rep' = rep /\ tmp' = tmp
        /\ \A v \in Thread : call[v].this # s /\ call[v].arg # s
        /\ u # NoStr => str[u] # NoRep /\ \A v \in Thread : call[v].this # u
        /\ before' = [before EXCEPT ![s] =
                        IF str[s] = NoRep THEN None ELSE rep[str[s]].chars]
    BY DEF Call, Goto, Claimed, Read
  <1>3. /\ call'[t] = new /\ pc'[t] = first
        /\ \A v \in Thread \ {t} : call'[v] = call[v] /\ pc'[v] = pc[v]
    BY <1>2 DEF IInv, Types
  <1>4. ptr'[t] \in {NoRep, str[u]} /\ \A v \in Thread \ {t} : ptr'[v] = ptr[v]
    BY <1>1 DEF IInv, Types
  <1>5. Types'
    <2>1. new \in [op : Op, this : Str \cup {NoStr}, arg : Str \cup {NoStr},
                   char : Char \cup {None}]
      OBVIOUS
    <2>2. (IF str[s] = NoRep THEN None ELSE rep[str[s]].chars)
            \in Seq(Char) \cup {None}
      BY DEF IInv, Types
    <2>3. op = "append" => str[u] \in AllRep \cup {NoRep}
      BY DEF IInv, Types, WithArg
    <2> HIDE DEF new
    <2> QED BY <1>2, <2>1, <2>2, <2>3 DEF IInv, Types, Pc
  <1>6. \A v \in Thread \ {t} : Stable(v)
    BY <1>2, <1>3, <1>4 DEF IInv, Stable, Types
  <1>7. Exclusive'
    BY <1>1, <1>2, <1>3 DEF IInv, Exclusive, NoCall
  <1>8. EmptyKept' /\ NoUseAfterFree' /\ RefCountExact' /\ FreedOnce' /\ Fits'
    <2>1. /\ \A v \in Thread : pc'[v] = "free" <=> pc[v] = "free"
          /\ \A v \in Thread : pc[v] = "free" => call'[v] = call[v]
      BY <1>1, <1>3
    <2>2. \A v \in Thread : ptr'[v] \in {ptr[v], NoRep} \cup {str[x] : x \in Str}
      BY <1>1, <1>4 DEF WithArg
    <2>3. str' = str /\ tmp' = tmp /\ rep' = rep
      BY <1>2
    <2> QED BY <2>1, <2>2, <2>3, QuietKeeps
  <1>9. CallOf(t)'
    BY <1>1, <1>2, <1>3, <1>4 DEF IInv, CallOf, Types, WithArg
  <1>10. ValueOf(t)'
    <2>1. before'[s] = IF str[s] = NoRep THEN None ELSE rep[str[s]].chars
      BY <1>2 DEF IInv, Types
    <2>2. str[s] # NoRep => rep[str[s]].chars \in Seq(Char)
      BY DEF IInv, Types
    <2>3. CASE str[s] = NoRep
      BY <1>2, <1>3, <2>1, <2>3 DEF ValueOf, At
    <2>4. CASE str[s] # NoRep
      <3>1. before'[s] = rep'[str'[s]].chars /\ before'[s] \in Seq(Char)
        BY <1>2, <2>1, <2>2, <2>4
      <3>2. pc'[t] # "fill" /\ pc'[t] # "free" /\ call'[t].this = s
            /\ call'[t].op = op /\ op # "copy"
            /\ (pc'[t] = "dispose" => op = "destroy")
        BY <1>3, <2>4
      <3> QED BY <3>1, <3>2 DEF ValueOf, Refilled
    <2> QED BY <2>3, <2>4
  <1>11. Calls' /\ Values'
    BY <1>6, <1>9, <1>10, StableKeeps DEF IInv, Calls, Values
  <1>12. Unshared'
    <2>1. /\ \A v \in Thread : pc'[v] = "free" <=> pc[v] = "free"
          /\ \A v \in Thread : pc[v] = "free" => call'[v] = call[v]
          /\ str' = str /\ tmp' = tmp
      BY <1>1, <1>2, <1>3
    <2>2. \A r : Holders(r)' = Holders(r)
      BY <2>1, HoldersKept
    <2> QED BY <1>2, <1>3, <2>2 DEF IInv, Unshared, UnsharedOf
  <1>13. Sharing'
    BY <1>2, <1>3 DEF IInv, Sharing, SharingOf, Source
  <1>14. Leaked'
    BY <1>2, <1>3 DEF IInv, Leaked, LeakedOf
  <1> QED BY <1>5, <1>7, <1>8, <1>11, <1>12, <1>13, <1>14 DEF IInv

-----------------------------------------------------------------------------
\* The calls under way, one lemma for each step of the code.

LEMMA CountKept ==
  ASSUME IInv, NEW r \in Rep,
         Holders(r)' = Holders(r), BeingFreed(r)' = BeingFreed(r),
         rep'[r].alive = rep[r].alive, rep'[r].refcount = rep[r].refcount
  PROVE  Counted(r)'
  BY DEF IInv, RefCountExact, Counted

LEMMA StepSame ==
  ASSUME IInv, NEW t \in Thread, pc[t] # "idle", Step(t), NEW r \in Rep,
         str'[call[t].this] = r <=> str[call[t].this] = r,
         tmp'[t] = r <=> tmp[t] = r,
         str[call[t].this] = r => (pc'[t] = "free" <=> pc[t] = "free")
  PROVE  Holders(r)' = Holders(r) /\ BeingFreed(r)' = BeingFreed(r)
  <1>1. Holders(r)' = Holders(r)
    <2>1. \A y \in Str \cup Thread : y \in Holders(r)' <=> y \in Holders(r)
      BY StepHolders
    <2>2. Holders(r)' \subseteq Str \cup Thread /\ Holders(r) \subseteq Str \cup Thread
      BY StepHolders
    <2> QED BY <2>1, <2>2
  <1>2. BeingFreed(r)' <=> BeingFreed(r)
    <2>1. BeingFreed(r) <=>
              \/ pc[t] = "free" /\ str[call[t].this] = r
              \/ \E v \in Thread \ {t} : pc[v] = "free" /\ str[call[v].this] = r
      BY DEF BeingFreed
    <2> QED BY <2>1, StepHolders
  <1>3. BeingFreed(r)' \in BOOLEAN /\ BeingFreed(r) \in BOOLEAN
    BY DEF BeingFreed
  <1> QED BY <1>1, <1>2, <1>3

LEMMA Returned ==
  ASSUME IInv, NEW t \in Thread,
         pc'[t] = "idle", call'[t] = NoCall, tmp'[t] = NoRep, ptr'[t] = NoRep
  PROVE  CallOf(t)' /\ ValueOf(t)' /\ UnsharedOf(t)' /\ SharingOf(t)'
  BY CowAssumption
  DEF NoCall, CallOf, ValueOf, UnsharedOf, SharingOf, At, WithArg, Refilled, Replacing,
      AllRep

LEMMA NotLeaked ==
  ASSUME IInv, NEW t \in Thread, pc[t] # "idle",
         call[t].op \notin {"erase", "leak"} \/ pc[t] \notin {"mutate", "fill", "leak"}
  PROVE  call[t].this \notin ref
  BY Begun DEF IInv, Leaked, LeakedOf

LEMMA QuietStep ==
  ASSUME IInv, NEW t \in Thread, pc[t] \notin {"idle", "free"}, Step(t),
         NEW x \in Str, x = call[t].this,
         str' = str, rep' = rep, tmp' = tmp, ref' = ref, pc'[t] # "free",
         ptr'[t] \in {ptr[t], NoRep},
         Types', CallOf(t)', ValueOf(t)', UnsharedOf(t)', SharingOf(t)',
         x \in ref => LeakedOf(x)'
  PROVE  IInv'
  <1>1. \A r \in AllRep : Same(r)
    BY DEF Same
  <1>2. EmptyKept' /\ Fits'
    BY DEF IInv, EmptyKept, Fits
  <1>3. /\ str'[x] # NoRep => rep'[str'[x]].alive
        /\ tmp'[t] # NoRep => rep'[tmp'[t]].alive
        /\ ptr'[t] # NoRep => rep'[ptr'[t]].alive
    BY DEF IInv, NoUseAfterFree
  <1>4. \A r \in Rep : Counted(r)'
    BY CountKept, StepSame
  <1>5. \A r \in Rep : str'[x] = r \/ tmp'[t] = r =>
          Holders(r) = {} \/ \E y \in {x, t, call[t].arg} : y \in Holders(r)
    BY StepHolders
  <1>6. (\A s \in ref' : s \in ref \/ s = x) /\ (x \in ref' => LeakedOf(x)')
    OBVIOUS
  <1> QED BY <1>1, <1>2, <1>3, <1>4, <1>5, <1>6, StepKeeps

\* A call is over that has nothing in its hands.
LEMMA ReturnKeeps ==
  ASSUME IInv, NEW t \in Thread, pc[t] \notin {"idle", "free", "dispose"},
         Return(t), str' = str, rep' = rep, tmp' = tmp, ref' = ref,
         ptr' = [ptr EXCEPT ![t] = NoRep] \/ (ptr' = ptr /\ ptr[t] = NoRep),
         call[t].this \in ref => LeakedOf(call[t].this)
  PROVE  IInv'
  <1> USE CowAssumption
  <1>1. PICK x \in Str : x = call[t].this
    BY Begun
  <1>2. /\ pc'[t] = "idle" /\ call'[t] = NoCall /\ ptr'[t] = NoRep
        /\ \A v \in Thread \ {t} : pc'[v] = pc[v] /\ call'[v] = call[v] /\ ptr'[v] = ptr[v]
        /\ \A y \in Str \ {x} : before'[y] = before[y]
    BY <1>1 DEF Return, IInv, Types
  <1>3. tmp[t] = NoRep
    BY DEF IInv, Calls, CallOf
  <1>4. Types'
    <2>1. NoCall \in [op : Op, this : Str \cup {NoStr}, arg : Str \cup {NoStr},
                      char : Char \cup {None}]
      BY DEF NoCall, Op
    <2> QED BY <2>1, <1>1 DEF IInv, Types, Return, Pc
  <1>5. Step(t)
    BY <1>1, <1>2 DEF Step
  <1>6. CallOf(t)' /\ ValueOf(t)' /\ UnsharedOf(t)' /\ SharingOf(t)'
    BY <1>2, <1>3, Returned
  <1>7. x \in ref => LeakedOf(x)'
    <2>1. \A v \in Thread : call'[v].this # x
      BY <1>1, <1>2, Begun DEF NoCall
    <2> QED BY <1>1, <2>1 DEF LeakedOf
  <1> QED BY <1>1, <1>2, <1>4, <1>5, <1>6, <1>7, QuietStep

LEMMA GrabKeeps ==
  ASSUME IInv, NEW t \in Thread, Grab(t) PROVE IInv'
  <1> USE CowAssumption
  <1>1. /\ pc[t] = "grab" /\ call[t].op \in {"copy", "assign"}
        /\ CallOf(t) /\ ValueOf(t)
    BY DEF Grab, Goto, IInv, Calls, CallOf, At, Values
  <1>2. PICK x \in Str : x = call[t].this
    BY <1>1, Begun
  <1>3. /\ str' = str /\ rep' = rep /\ ref' = ref /\ call' = call
        /\ tmp' = tmp /\ ptr' = ptr /\ before' = before
        /\ pc'[t] = IF rep[Source(t)].refcount < 0 THEN "clone" ELSE "refcopy"
        /\ \A v \in Thread \ {t} : pc'[v] = pc[v]
    BY DEF Grab, Goto, IInv, Types
  <1>4. Types'
    BY <1>3 DEF Grab, Goto, IInv, Types, Pc
  <1>5. Step(t)
    BY <1>3 DEF Step
  <1>6. CallOf(t)' /\ ValueOf(t)'
    BY <1>1, <1>3 DEF CallOf, ValueOf, Need, Source, At, WithArg, Refilled, Replacing
  <1>7. UnsharedOf(t)'
    BY <1>1, <1>3 DEF UnsharedOf
  <1>8. SharingOf(t)'
    <2>1. str[call[t].arg] \in AllRep
      BY <1>1, ArgumentHeld DEF WithArg
    <2>2. rep[Source(t)].refcount \in Int
      BY <2>1 DEF IInv, Types, Source
    <2> QED BY <1>3, <2>2 DEF SharingOf, Source
  <1>9. x \notin ref
    BY <1>1, <1>2, NotLeaked
  <1> QED
    BY <1>1, <1>2, <1>3, <1>4, <1>5, <1>6, <1>7, <1>8, <1>9, QuietStep

LEMMA ReserveKeeps ==
  ASSUME IInv, NEW t \in Thread, Reserve(t) PROVE IInv'
  <1> USE CowAssumption
  <1>1. /\ pc[t] = "reserve" /\ call[t].op = "reserve" /\ CallOf(t) /\ ValueOf(t)
    BY DEF Reserve, IInv, Calls, CallOf, At, Values
  <1>2. PICK x \in Str : x = call[t].this
    BY <1>1, Begun
  <1>3. x \notin ref
    BY <1>1, <1>2, NotLeaked
  <1>4. str' = str /\ rep' = rep /\ ref' = ref /\ tmp' = tmp /\ ptr' = ptr
    BY DEF Reserve
  <1>5. CASE Return(t)
    <2>1. ptr[t] = NoRep
      BY <1>1 DEF CallOf
    <2> QED BY <1>1, <1>2, <1>3, <1>4, <1>5, <2>1, ReturnKeeps
  <1>6. CASE pc' = [pc EXCEPT ![t] = "clone"] /\ UNCHANGED <<call, before>>
    <2>1. /\ pc'[t] = "clone" /\ call' = call /\ before' = before
          /\ \A v \in Thread \ {t} : pc'[v] = pc[v]
      BY <1>6 DEF IInv, Types
    <2>2. Types'
      BY <1>4, <1>6 DEF IInv, Types, Pc
    <2>3. Step(t)
      BY <1>4, <2>1 DEF Step
    <2>4. CallOf(t)' /\ ValueOf(t)'
      BY <1>1, <1>4, <2>1 DEF CallOf, ValueOf, At, WithArg, Refilled, Replacing
    <2>5. UnsharedOf(t)' /\ SharingOf(t)'
      BY <2>1 DEF UnsharedOf, SharingOf
    <2> QED BY <1>1, <1>2, <1>3, <1>4, <2>1, <2>2, <2>3, <2>4, <2>5, QuietStep
  <1> QED BY <1>5, <1>6 DEF Reserve

LEMMA BadAllocKeeps ==
  ASSUME IInv, NEW t \in Thread, BadAlloc(t) PROVE IInv'
  <1>1. /\ pc[t] \in {"clone", "mutate"} /\ Return(t)
        /\ str' = str /\ rep' = rep /\ tmp' = tmp /\ ref' = ref
        /\ ptr' = [ptr EXCEPT ![t] = NoRep]
    BY DEF BadAlloc
  <1>2. call[t].this \in ref => LeakedOf(call[t].this)
    BY DEF IInv, Leaked
  <1> QED BY <1>1, <1>2, ReturnKeeps

\* The end of a call that has written the _Rep of its string.
LEMMA WrittenKeeps ==
  ASSUME IInv, NEW t \in Thread, pc[t] \in {"fill", "leak"}, Return(t),
         NEW x \in Str, x = call[t].this, NEW r0 \in AllRep, r0 = str[x],
         str' = str, tmp' = tmp,
         ptr' = [ptr EXCEPT ![t] = NoRep] \/ (ptr' = ptr /\ ptr[t] = NoRep),
         r0 \in Rep => Holders(r0) = {x},
         rep' \in [AllRep -> [alive : BOOLEAN, refcount : Int, capacity : Nat,
                              chars : Seq(Char)]],
         \A r \in AllRep \ {r0} : rep'[r] = rep[r],
         rep'[r0].alive, rep'[r0].refcount \in {-1, 0},
         rep'[r0].capacity = rep[r0].capacity,
         Len(rep'[r0].chars) <= rep[r0].capacity,
         r0 = EmptyRep => rep'[r0].chars = <<>>,
         ref' = ref \/ ref' = ref \cup {x},
         x \in ref' => r0 = EmptyRep \/ rep'[r0].refcount = -1
  PROVE  IInv'
  <1> USE CowAssumption
  <1>2. /\ pc'[t] = "idle" /\ call'[t] = NoCall /\ ptr'[t] = NoRep
        /\ \A v \in Thread \ {t} : pc'[v] = pc[v] /\ call'[v] = call[v] /\ ptr'[v] = ptr[v]
        /\ \A y \in Str \ {x} : before'[y] = before[y]
    BY DEF Return, IInv, Types
  <1>3. tmp[t] = NoRep /\ x # NoStr
    BY SMTT(30) DEF IInv, Calls, CallOf
  <1>4. Types'
    <2>1. NoCall \in [op : Op, this : Str \cup {NoStr}, arg : Str \cup {NoStr},
                      char : Char \cup {None}]
      BY DEF NoCall, Op
    <2>2. /\ pc' \in [Thread -> Pc] /\ ptr' \in [Thread -> AllRep \cup {NoRep}]
          /\ before' \in [Str -> Seq(Char) \cup {None}]
      BY DEF IInv, Types, Return, Pc
    <2>3. call' \in [Thread -> [op : Op, this : Str \cup {NoStr},
                                arg : Str \cup {NoStr}, char : Char \cup {None}]]
      BY <2>1 DEF IInv, Types, Return
    <2>4. /\ str' \in [Str -> AllRep \cup {NoRep}] /\ ref' \subseteq Str
          /\ tmp' \in [Thread -> AllRep \cup {NoRep}]
      BY DEF IInv, Types
    <2> QED BY <2>2, <2>3, <2>4 DEF Types
  <1>5. Step(t)
    BY <1>2 DEF Step
  <1>6. CallOf(t)' /\ ValueOf(t)' /\ UnsharedOf(t)' /\ SharingOf(t)'
    BY <1>2, <1>3, Returned
  <1>7. \A v \in Thread : call'[v].this # x
    BY SMTT(30), <1>2, <1>3, Begun DEF NoCall
  <1>8. x \in ref' => LeakedOf(x)'
    BY <1>7 DEF LeakedOf, AllRep
  <1>9. r0 \in Rep => /\ Private(t, r0) /\ rep[r0].alive /\ ~BeingFreed(r0)
                      /\ Cardinality(Holders(r0)) = 1
    <2> SUFFICES ASSUME r0 \in Rep
                 PROVE  /\ Private(t, r0) /\ rep[r0].alive /\ ~BeingFreed(r0)
                        /\ Cardinality(Holders(r0)) = 1
      OBVIOUS
    <2>1. x \in Holders(r0)
      OBVIOUS
    <2>2. rep[r0].alive /\ ~BeingFreed(r0)
      BY <2>1, Held
    <2>3. Cardinality(Holders(r0)) = 1
      BY Alone
    <2> QED BY <2>2, <2>3 DEF Private, BeingFreed
  <1>10. \A r \in AllRep : Same(r) \/ (r \in Rep /\ Private(t, r))
    <2>1. r0 = EmptyRep => Same(r0)
      BY DEF Same, IInv, EmptyKept
    <2>2. \A r \in AllRep \ {r0} : Same(r)
      BY DEF Same
    <2> QED BY <1>9, <2>1, <2>2 DEF AllRep
  <1>11. EmptyKept' /\ Fits'
    BY DEF EmptyKept, Fits, IInv, AllRep
  <1>12. /\ str'[x] # NoRep => rep'[str'[x]].alive
         /\ tmp'[t] # NoRep => rep'[tmp'[t]].alive
         /\ ptr'[t] # NoRep => rep'[ptr'[t]].alive
    BY <1>2, <1>3
  <1>13. ASSUME NEW r \in Rep PROVE Counted(r)'
    <2>1. Holders(r)' = Holders(r) /\ BeingFreed(r)' = BeingFreed(r)
      BY SMTT(30), <1>2, <1>5, StepSame
    <2>2. CASE r = r0
      BY <1>9, <2>1, <2>2 DEF Counted
    <2>3. CASE r # r0
      <3>1. r \in AllRep
        BY DEF AllRep
      <3> QED BY <2>1, <2>3, <3>1, CountKept
    <2> QED BY <2>2, <2>3
  <1>14. \A r \in Rep : str'[x] = r \/ tmp'[t] = r =>
           Holders(r) = {} \/ \E y \in {x, t, call[t].arg} : y \in Holders(r)
    BY <1>5, StepHolders
  <1>15. (\A s \in ref' : s \in ref \/ s = x) /\ pc'[t] # "free"
    BY <1>2
  <1> QED
    BY <1>4, <1>5, <1>6, <1>8, <1>10, <1>11, <1>12, <1>13, <1>14, <1>15, StepKeeps

LEMMA LeakKeeps ==
  ASSUME IInv, NEW t \in Thread, Leak(t) PROVE IInv'
  <1> USE CowAssumption
  <1>1. /\ pc[t] = "leak" /\ call[t].op = "leak" /\ CallOf(t) /\ ValueOf(t)
        /\ str' = str /\ tmp' = tmp /\ ptr' = ptr /\ ptr[t] = NoRep
    BY DEF Leak, IInv, Calls, CallOf, At, Values
  <1>2. PICK x \in Str : x = call[t].this
    BY <1>1, Begun
  <1>3. PICK r0 \in AllRep : r0 = str[x]
    BY <1>1, <1>2, ThisHeld
  <1>4. /\ x \in Holders(r0) /\ rep[r0].alive
        /\ rep[r0] \in [alive : BOOLEAN, refcount : Int, capacity : Nat, chars : Seq(Char)]
    BY <1>1, <1>2, <1>3, ThisHeld DEF IInv, Types
  <1>5. CASE /\ Mine(t).refcount > 0
             /\ pc' = [pc EXCEPT ![t] = "mutate"]
             /\ UNCHANGED <<rep, ref, call, before>>
    <2>1. /\ pc'[t] = "mutate" /\ call' = call /\ before' = before /\ rep' = rep /\ ref' = ref
          /\ \A v \in Thread \ {t} : pc'[v] = pc[v]
      BY <1>5 DEF IInv, Types
    <2>2. Types'
      BY <1>1, <1>5 DEF IInv, Types, Pc
    <2>3. Step(t)
      BY <1>1, <2>1 DEF Step
    <2>4. CallOf(t)' /\ ValueOf(t)'
      BY <1>1, <2>1 DEF CallOf, ValueOf, At, WithArg, Refilled, Replacing
    <2>5. UnsharedOf(t)' /\ SharingOf(t)'
      BY <2>1 DEF UnsharedOf, SharingOf
    <2>6. x \notin ref
      BY <1>2, <1>3, <1>5 DEF IInv, Leaked, LeakedOf, EmptyKept, Mine
    <2> QED BY <1>1, <1>2, <2>1, <2>2, <2>3, <2>4, <2>5, <2>6, QuietStep
  <1>6. CASE /\ Mine(t).refcount <= 0
             /\ rep' = IF str[call[t].this] = EmptyRep THEN rep
                       ELSE [rep EXCEPT ![str[call[t].this]].refcount = -1]
             /\ ref' = ref \cup {call[t].this}
             /\ Return(t)
    <2>1. r0 \in Rep => Holders(r0) = {x}
      BY <1>2, <1>3, <1>4, <1>6, Held DEF Mine
    <2>2. rep' \in [AllRep -> [alive : BOOLEAN, refcount : Int, capacity : Nat,
                               chars : Seq(Char)]]
      <3>1. [rep[r0] EXCEPT !.refcount = -1] \in
              [alive : BOOLEAN, refcount : Int, capacity : Nat, chars : Seq(Char)]
        BY <1>4
      <3>2. rep' = rep \/ rep' = [rep EXCEPT ![r0] = [rep[r0] EXCEPT !.refcount = -1]]
        BY <1>2, <1>3, <1>6
      <3> QED BY <3>1, <3>2 DEF IInv, Types
    <2>3. /\ \A r \in AllRep \ {r0} : rep'[r] = rep[r]
          /\ rep'[r0].alive /\ rep'[r0].refcount \in {-1, 0}
          /\ rep'[r0].capacity = rep[r0].capacity
          /\ rep'[r0].chars = rep[r0].chars
          /\ r0 = EmptyRep \/ rep'[r0].refcount = -1
      BY <1>2, <1>3, <1>4, <1>6 DEF IInv, Types, EmptyKept
    <2>4. /\ Len(rep'[r0].chars) <= rep[r0].capacity
          /\ r0 = EmptyRep => rep'[r0].chars = <<>>
      BY <2>3 DEF IInv, Fits, EmptyKept
    <2>5. /\ pc[t] \in {"fill", "leak"} /\ Return(t)
          /\ ref' = ref \cup {x} /\ str' = str /\ tmp' = tmp
          /\ ptr' = ptr /\ ptr[t] = NoRep
      BY <1>1, <1>2, <1>6
    <2>6. x \in ref' => r0 = EmptyRep \/ rep'[r0].refcount = -1
      BY <2>3
    <2> QED
      BY <1>2, <1>3, <2>1, <2>2, <2>3, <2>4, <2>5, <2>6, WrittenKeeps
  <1> QED BY <1>5, <1>6 DEF Leak

\* What a call that has come to Fill makes of its string.
FilledWith(t) ==
  IF call[t].op = "append" THEN before[call[t].this] \o rep[Source(t)].chars
  ELSE IF call[t].op = "push_back"
  THEN Append(before[call[t].this], call[t].char)
  ELSE IF call[t].op \in {"clear", "erase"} THEN <<>>
  ELSE before[call[t].this]

LEMMA FilledValue ==
  ASSUME IInv, NEW t \in Thread, pc[t] = "fill"
  PROVE  /\ Filled(t) = {FilledWith(t)}
         /\ FilledWith(t) \in Seq(Char) /\ Len(FilledWith(t)) = Need(t)
         /\ Need(t) <= Mine(t).capacity
  <1> USE CowAssumption
  <1> DEFINE x == call[t].this
  <1>1. /\ CallOf(t) /\ ValueOf(t) /\ x \in Str /\ call[t].op \in Refilled
        /\ call[t].op # "copy"
    BY Begun DEF IInv, Calls, Values, CallOf, At, Refilled
  <1>2. Need(t) <= Mine(t).capacity
    BY <1>1 DEF ValueOf
  <1>3. before[x] \in Seq(Char)
    BY <1>1 DEF ValueOf, Refilled
  <1>4. call[t].op \notin {"clear", "erase"} => Mine(t).chars = before[x]
    BY <1>1 DEF ValueOf, Mine, Refilled
  <1>5. CASE call[t].op = "append"
    <2>1. ptr[t] = Source(t) /\ Source(t) \in AllRep /\ rep[Source(t)].alive
      BY <1>1, <1>5, ArgumentHeld DEF CallOf, Source, WithArg
    <2>2. rep[Source(t)].chars \in Seq(Char)
      BY <2>1 DEF IInv, Types
    <2>3. Filled(t) = {before[x] \o rep[Source(t)].chars}
      BY <1>4, <1>5, <2>1 DEF Filled, CharsOf
    <2>4. Need(t) = Len(before[x]) + Len(rep[Source(t)].chars)
      BY <1>5 DEF Need
    <2>5. FilledWith(t) = before[x] \o rep[Source(t)].chars
      BY <1>5 DEF FilledWith
    <2>6. /\ before[x] \o rep[Source(t)].chars \in Seq(Char)
          /\ Len(before[x] \o rep[Source(t)].chars)
               = Len(before[x]) + Len(rep[Source(t)].chars)
      BY <1>3, <2>2
    <2> HIDE DEF x
    <2> QED BY <1>2, <2>3, <2>4, <2>5, <2>6
  <1>6. CASE call[t].op = "push_back"
    <2>1. call[t].char \in Char
      BY <1>1, <1>6 DEF CallOf
    <2>2. /\ Filled(t) = {Append(before[x], call[t].char)}
          /\ FilledWith(t) = Append(before[x], call[t].char)
          /\ Need(t) = Len(before[x]) + 1
      BY <1>4, <1>6 DEF Filled, FilledWith, Need
    <2>3. /\ Append(before[x], call[t].char) \in Seq(Char)
          /\ Len(Append(before[x], call[t].char)) = Len(before[x]) + 1
      BY <1>3, <2>1
    <2> HIDE DEF x
    <2> QED BY <1>2, <2>2, <2>3
  <1>7. CASE call[t].op \in {"clear", "erase"}
    <2>1. Filled(t) = {<<>>} /\ FilledWith(t) = <<>> /\ Need(t) = 0
      BY <1>7 DEF Filled, FilledWith, Need
    <2> QED BY <1>2, <2>1
  <1>8. CASE call[t].op = "leak"
    <2>1. /\ Filled(t) = {before[x]} /\ FilledWith(t) = before[x]
          /\ Need(t) = Len(before[x]) + 0
      BY <1>4, <1>8 DEF Filled, FilledWith, Need
    <2> HIDE DEF x
    <2> QED BY <1>2, <1>3, <2>1
  <1> QED BY <1>1, <1>5, <1>6, <1>7, <1>8 DEF Refilled

LEMMA FillKeeps ==
  ASSUME IInv, NEW t \in Thread, Fill(t) PROVE IInv'
  <1> USE CowAssumption
  <1>1. /\ pc[t] = "fill" /\ call[t].op \in Refilled /\ CallOf(t) /\ ValueOf(t)
        /\ str' = str /\ tmp' = tmp /\ ptr' = [ptr EXCEPT ![t] = NoRep]
        /\ Return(t)
    BY DEF Fill, IInv, Calls, CallOf, At, Values
  <1>2. PICK x \in Str : x = call[t].this
    BY <1>1, Begun
  <1>3. PICK r0 \in AllRep : r0 = str[x]
    BY <1>1, <1>2, ThisHeld DEF Refilled
  <1>4. /\ x \in Holders(r0) /\ rep[r0].alive
        /\ rep[r0] \in [alive : BOOLEAN, refcount : Int, capacity : Nat, chars : Seq(Char)]
    BY <1>1, <1>2, <1>3, ThisHeld DEF IInv, Types, Refilled
  <1>5. /\ FilledWith(t) \in Seq(Char) /\ Len(FilledWith(t)) <= rep[r0].capacity
        /\ rep' = [rep EXCEPT ![r0].chars = FilledWith(t),
                              ![r0].refcount =
                                 IF call[t].op \in {"erase", "leak"} THEN -1 ELSE 0]
    <2>1. PICK v \in Filled(t) :
            rep' = [rep EXCEPT ![r0].chars = v,
                               ![r0].refcount =
                                  IF call[t].op \in {"erase", "leak"} THEN -1 ELSE 0]
      BY <1>2, <1>3 DEF Fill
    <2>2. Filled(t) = {FilledWith(t)} /\ FilledWith(t) \in Seq(Char)
      BY <1>1, FilledValue
    <2>3. Len(FilledWith(t)) <= rep[r0].capacity
      BY <1>1, <1>2, <1>3, FilledValue DEF Mine
    <2> QED BY <2>1, <2>2, <2>3
  <1>6. r0 \in Rep => Holders(r0) = {x}
    BY <1>1, <1>2, <1>3 DEF IInv, Unshared, UnsharedOf
  <1>7. rep' \in [AllRep -> [alive : BOOLEAN, refcount : Int, capacity : Nat,
                             chars : Seq(Char)]]
    <2> DEFINE n == IF call[t].op \in {"erase", "leak"} THEN -1 ELSE 0
               new == [rep[r0] EXCEPT !.chars = FilledWith(t), !.refcount = n]
    <2>1. n \in Int
      OBVIOUS
    <2>2. new \in [alive : BOOLEAN, refcount : Int, capacity : Nat, chars : Seq(Char)]
      <3> HIDE DEF n
      <3> QED BY <1>4, <1>5, <2>1
    <2>3. rep' = [rep EXCEPT ![r0] = new]
      <3> HIDE DEF n
      <3>1. rep' = [rep EXCEPT ![r0].chars = FilledWith(t), ![r0].refcount = n]
        BY <1>5 DEF n
      <3> QED BY <3>1 DEF IInv, Types
    <2> HIDE DEF new
    <2> QED BY <2>2, <2>3 DEF IInv, Types
  <1>8. /\ \A r \in AllRep \ {r0} : rep'[r] = rep[r]
        /\ rep'[r0].alive
        /\ rep'[r0].refcount = IF call[t].op \in {"erase", "leak"} THEN -1 ELSE 0
        /\ rep'[r0].capacity = rep[r0].capacity
        /\ rep'[r0].chars = FilledWith(t)
    BY <1>4, <1>5 DEF IInv, Types
  <1>9. r0 = EmptyRep => rep'[r0].chars = <<>>
    BY <1>5, <1>8 DEF IInv, EmptyKept
  <1>10. /\ ref' = ref \/ ref' = ref \cup {x}
         /\ x \in ref' => rep'[r0].refcount = -1
    <2>1. CASE call[t].op \in {"erase", "leak"}
      BY <1>2, <1>8, <2>1 DEF Fill
    <2>2. CASE call[t].op \notin {"erase", "leak"}
      BY <1>1, <1>2, <2>2, NotLeaked DEF Fill
    <2> QED BY <2>1, <2>2
  <1>11. rep'[r0].refcount \in {-1, 0} /\ Len(rep'[r0].chars) <= rep[r0].capacity
    BY <1>5, <1>8
  <1> QED
    BY ZenonT(30), <1>1, <1>2, <1>3, <1>6, <1>7, <1>8, <1>9, <1>10, <1>11, WrittenKeeps

\* One more string or call holds r.
LEMMA Joined ==
  ASSUME IInv, NEW t \in Thread, pc[t] \notin {"idle", "free"}, Step(t),
         NEW x \in Str, x = call[t].this, NEW r \in Rep, NEW y \in {x, t},
         pc'[t] # "free", ~BeingFreed(r), y \notin Holders(r),
         y = x => str'[x] = r /\ tmp'[t] = tmp[t],
         y = t => tmp'[t] = r /\ str'[x] = str[x]
  PROVE  /\ Holders(r)' = Holders(r) \cup {y}
         /\ ~BeingFreed(r)'
         /\ Cardinality(Holders(r)') = Cardinality(Holders(r)) + 1
  <1> USE CowAssumption
  <1>1. \A z \in Str \cup Thread : z \in Holders(r)' <=> z \in Holders(r) \/ z = y
    BY StepHolders
  <1>2. Holders(r)' \subseteq Str \cup Thread /\ Holders(r) \subseteq Str \cup Thread
    BY StepHolders
  <1>3. Holders(r)' = Holders(r) \cup {y}
    BY <1>1, <1>2
  <1>4. ~ \E v \in Thread \ {t} : pc[v] = "free" /\ str[call[v].this] = r
    BY DEF BeingFreed
  <1>5. ~BeingFreed(r)'
    BY <1>4, StepHolders
  <1>6. Cardinality(Holders(r) \cup {y}) = Cardinality(Holders(r)) + 1
    BY HoldersFinite, FS_AddElement
  <1> QED BY <1>3, <1>5, <1>6

\* A call has found the _Rep r1 that its string is to have.
LEMMA ObtainedKeeps ==
  ASSUME IInv, NEW t \in Thread, pc[t] \in {"refcopy", "clone", "mutate"},
         NEW x \in Str, x = call[t].this, x \notin ref,
         NEW r1 \in AllRep, Obtained(t, r1), ref' = ref, ptr' = ptr,
         rep' \in [AllRep -> [alive : BOOLEAN, refcount : Int, capacity : Nat,
                              chars : Seq(Char)]],
         \A r \in AllRep \ {r1} : rep'[r] = rep[r],
         EmptyKept', Fits',
         Same(r1) \/ (r1 \in Rep /\ Private(t, r1)),
         rep'[r1].alive,
         r1 \in Rep => /\ ~BeingFreed(r1)
                       /\ rep'[r1].refcount = Cardinality(Holders(r1))
                       /\ Holders(r1) = {} \/ call[t].arg \in Holders(r1),
         call[t].op \notin {"copy", "assign"} => r1 \in Rep /\ Holders(r1) = {},
         call[t].op \in WithArg => rep'[Source(t)].chars = rep[Source(t)].chars,
         call[t].op = "assign" => rep'[r1].chars = rep[Source(t)].chars,
         call[t].op \in {"reserve", "append", "push_back", "leak"} =>
           rep'[r1].chars = before[x],
         call[t].op \in {"clear", "erase"} => rep'[r1].chars = <<>>,
         call[t].op \in Refilled /\ (call[t].op = "append" => ptr[t] # NoRep) =>
           Need(t) <= rep'[r1].capacity
  PROVE  IInv'
  <1> USE CowAssumption
  <1>1. /\ CallOf(t) /\ ValueOf(t) /\ x # NoStr /\ tmp[t] = NoRep
        /\ call[t].op # "none" /\ call[t].op # "destroy"
        /\ call[t].op \in Replacing \cup {"copy"}
        /\ call[t].op = "copy" <=> str[x] = NoRep
    BY DEF IInv, Calls, Values, CallOf, At, Refilled, Replacing
  <1>2. r1 # NoRep
    BY DEF AllRep
  <1>3. CASE call[t].op = "copy"
    <2>1. /\ str' = [str EXCEPT ![x] = r1] /\ Return(t) /\ tmp' = tmp /\ ptr[t] = NoRep
      BY <1>1, <1>3 DEF Obtained, CallOf
    <2>2. /\ pc'[t] = "idle" /\ call'[t] = NoCall /\ ptr'[t] = NoRep /\ tmp'[t] = NoRep
          /\ str'[x] = r1
          /\ \A v \in Thread \ {t} : pc'[v] = pc[v] /\ call'[v] = call[v]
          /\ \A y \in Str \ {x} : before'[y] = before[y] /\ str'[y] = str[y]
      BY <1>1, <2>1 DEF Return, IInv, Types
    <2>3. Step(t)
      BY <2>1, <2>2 DEF Step
    <2>4. Types'
      <3>1. NoCall \in [op : Op, this : Str \cup {NoStr}, arg : Str \cup {NoStr},
                        char : Char \cup {None}]
        BY DEF NoCall, Op
      <3>2. /\ pc' \in [Thread -> Pc] /\ ptr' \in [Thread -> AllRep \cup {NoRep}]
            /\ before' \in [Str -> Seq(Char) \cup {None}]
            /\ str' \in [Str -> AllRep \cup {NoRep}] /\ ref' \subseteq Str
            /\ tmp' \in [Thread -> AllRep \cup {NoRep}]
        BY <2>1 DEF IInv, Types, Return, Pc
      <3>3. call' \in [Thread -> [op : Op, this : Str \cup {NoStr},
                                  arg : Str \cup {NoStr}, char : Char \cup {None}]]
        BY <2>1, <3>1 DEF IInv, Types, Return
      <3> QED BY <3>2, <3>3 DEF Types
    <2>5. CallOf(t)' /\ ValueOf(t)' /\ UnsharedOf(t)' /\ SharingOf(t)'
      BY <2>2, Returned
    <2>6. \A r \in AllRep : Same(r) \/ (r \in Rep /\ Private(t, r))
      BY DEF Same
    <2>7. \A r \in Rep : str'[x] = r \/ tmp'[t] = r =>
            Holders(r) = {} \/ \E y \in {x, t, call[t].arg} : y \in Holders(r)
      BY <2>2, CowAssumption DEF AllRep
    <2>8. ASSUME NEW r \in Rep PROVE Counted(r)'
      <3>1. CASE r # r1
        <4>1. Holders(r)' = Holders(r) /\ BeingFreed(r)' = BeingFreed(r)
          <5>1. str[x] # r /\ str'[x] # r /\ tmp'[t] = tmp[t]
            BY <1>1, <1>3, <2>1, <2>2, <3>1
          <5>2. pc[t] # "idle"
            OBVIOUS
          <5> QED BY SMTT(30), <2>3, <5>1, <5>2, StepSame
        <4>2. rep'[r] = rep[r]
          BY <3>1 DEF AllRep
        <4> QED BY <4>1, <4>2, CountKept
      <3>2. CASE r = r1
        <4>1. x \notin Holders(r)
          BY <1>1, <1>3, <3>2, InHolders
        <4>2. /\ str'[x] = r1 /\ tmp'[t] = tmp[t]
              /\ pc[t] \notin {"idle", "free"} /\ pc'[t] # "free"
          BY <2>1, <2>2
        <4>3. ~BeingFreed(r)
          BY <3>2
        <4>4. ~BeingFreed(r)' /\ Cardinality(Holders(r)') = Cardinality(Holders(r)) + 1
          BY <2>3, <3>2, <4>1, <4>2, <4>3, Joined
        <4>5. Cardinality(Holders(r)) \in Nat
          BY HoldersFinite
        <4>6. rep'[r].refcount = Cardinality(Holders(r)')  - 1
              /\ Cardinality(Holders(r)') > 0
          BY <3>2, <4>4, <4>5
        <4> QED BY <4>4, <4>6 DEF Counted
      <3> QED BY <3>1, <3>2
    <2>9. /\ str'[x] # NoRep => rep'[str'[x]].alive
          /\ tmp'[t] # NoRep => rep'[tmp'[t]].alive
          /\ ptr'[t] # NoRep => rep'[ptr'[t]].alive
          /\ pc'[t] # "free" /\ x \notin ref'
      BY <2>2
    <2>10. \A s \in ref' : s \in ref \/ s = x
      OBVIOUS
    <2> QED
      BY SMTT(30), <2>3, <2>4, <2>5, <2>6, <2>7, <2>8, <2>9, <2>10, StepKeeps
  <1>4. CASE call[t].op # "copy"
    <2>1. /\ tmp' = [tmp EXCEPT ![t] = r1] /\ pc' = [pc EXCEPT ![t] = "dispose"]
          /\ str' = str /\ call' = call /\ before' = before
      BY <1>4 DEF Obtained
    <2>2. /\ pc'[t] = "dispose" /\ tmp'[t] = r1
          /\ \A v \in Thread \ {t} : pc'[v] = pc[v] /\ tmp'[v] = tmp[v]
      BY <2>1 DEF IInv, Types
    <2>3. Step(t)
      BY <2>1, <2>2 DEF Step
    <2>4. Types'
      BY <2>1 DEF IInv, Types, Pc
    <2>5. CallOf(t)'
      BY <1>1, <1>2, <1>4, <2>1, <2>2
      DEF CallOf, At, Replacing, Refilled, AllRep
    <2>6. ValueOf(t)'
      <3>1. x \in Holders(str[x]) /\ str[x] \in AllRep
        BY <1>1, <1>4, ThisHeld
      <3>2. rep'[str[x]].chars = rep[str[x]].chars
        <4>1. CASE str[x] # r1
          BY <3>1, <4>1
        <4>2. CASE str[x] = r1
          <5>1. CASE Same(r1)
            BY <4>2, <5>1 DEF Same
          <5>2. CASE r1 \in Rep /\ Private(t, r1)
            <6>1. call[t].arg \in Holders(r1) /\ call[t].arg \in {x, t}
              BY <3>1, <4>2, <5>2 DEF Private
            <6>2. call[t].op \in WithArg => call[t].arg \in Str \ {x}
              BY <1>1 DEF CallOf
            <6>3. call[t].op = "assign"
              BY <1>4, <3>1, <4>2
            <6> QED BY <6>1, <6>2, <6>3 DEF WithArg
          <5> QED BY <5>1, <5>2
        <4> QED BY <4>1, <4>2
      <3>3. Need(t)' = Need(t)
        BY <2>1 DEF Need, Source, WithArg
      <3>4. call[t].op = "assign" => rep'[r1].chars = (rep[Source(t)].chars)'
        BY <2>1 DEF Source, WithArg
      <3> QED
        BY <1>1, <1>4, <2>1, <2>2, <3>2, <3>3, <3>4 DEF ValueOf, Refilled, Replacing
    <2>7. UnsharedOf(t)'
      <3> SUFFICES ASSUME NEW r \in Rep, r1 = r, call[t].op # "assign"
                   PROVE  Holders(r)' = {t}
        BY <2>1, <2>2 DEF UnsharedOf
      <3>1. Holders(r) = {} /\ ~BeingFreed(r)
        BY <1>4
      <3>2. /\ str'[x] = str[x] /\ tmp'[t] = r /\ t # x
            /\ pc[t] \notin {"idle", "free"} /\ pc'[t] # "free"
        BY <2>1, <2>2
      <3>3. Holders(r)' = Holders(r) \cup {t}
        BY <2>3, <3>1, <3>2, Joined
      <3> QED BY <3>1, <3>3
    <2>8. SharingOf(t)'
      BY <2>2 DEF SharingOf
    <2>9. \A r \in AllRep : Same(r) \/ (r \in Rep /\ Private(t, r))
      BY DEF Same
    <2>10. \A r \in Rep : str'[x] = r \/ tmp'[t] = r =>
            Holders(r) = {} \/ \E y \in {x, t, call[t].arg} : y \in Holders(r)
      <3> SUFFICES ASSUME NEW r \in Rep, str[x] = r \/ r1 = r
                   PROVE  Holders(r) = {} \/ \E y \in {x, t, call[t].arg} : y \in Holders(r)
        BY <2>1, <2>2
      <3>1. str[x] = r => x \in Holders(r)
        BY <1>1, <1>4, ThisHeld
      <3> QED BY <3>1
    <2>11. ASSUME NEW r \in Rep PROVE Counted(r)'
      <3>1. CASE r # r1
        <4>1. Holders(r)' = Holders(r) /\ BeingFreed(r)' = BeingFreed(r)
          <5>1. tmp'[t] = r <=> tmp[t] = r
            BY <1>1, <2>1, <2>2, <3>1
          <5>2. pc[t] # "idle"
            OBVIOUS
          <5>3. str'[call[t].this] = r <=> str[call[t].this] = r
            BY <2>1
          <5>4. str[call[t].this] = r => (pc'[t] = "free" <=> pc[t] = "free")
            BY <2>2
          <5> QED BY <2>3, <5>1, <5>2, <5>3, <5>4, StepSame
        <4>2. rep'[r] = rep[r]
          BY <3>1 DEF AllRep
        <4> QED BY <4>1, <4>2, CountKept
      <3>2. CASE r = r1
        <4>1. t \notin Holders(r)
          BY <1>1, <1>2, <3>2, InHolders
        <4>2. /\ str'[x] = str[x] /\ tmp'[t] = r1 /\ t # x
              /\ pc[t] \notin {"idle", "free"} /\ pc'[t] # "free"
          BY <2>1, <2>2
        <4>3. ~BeingFreed(r)
          BY <3>2
        <4>4. ~BeingFreed(r)' /\ Cardinality(Holders(r)') = Cardinality(Holders(r)) + 1
          BY <2>3, <3>2, <4>1, <4>2, <4>3, Joined
        <4>5. Cardinality(Holders(r)) \in Nat
          BY HoldersFinite
        <4>6. rep'[r].refcount = Cardinality(Holders(r)')  - 1
              /\ Cardinality(Holders(r)') > 0
          BY <3>2, <4>4, <4>5
        <4> QED BY <4>4, <4>6 DEF Counted
      <3> QED BY <3>1, <3>2
    <2>12. /\ str'[x] # NoRep => rep'[str'[x]].alive
           /\ tmp'[t] # NoRep => rep'[tmp'[t]].alive
           /\ ptr'[t] # NoRep => rep'[ptr'[t]].alive
      <3>1. \A r \in AllRep : rep[r].alive => rep'[r].alive
        OBVIOUS
      <3>2. /\ str[x] \in AllRep \cup {NoRep} /\ ptr[t] \in AllRep \cup {NoRep}
            /\ str[x] # NoRep => rep[str[x]].alive
            /\ ptr[t] # NoRep => rep[ptr[t]].alive
        BY DEF IInv, Types, NoUseAfterFree
      <3> QED BY <2>1, <2>2, <3>1, <3>2
    <2>13. (\A s \in ref' : s \in ref \/ s = x) /\ pc'[t] # "free" /\ x \notin ref'
      BY <2>2
    <2> QED
      BY SMTT(30), <2>3, <2>4, <2>5, <2>6, <2>7, <2>8, <2>9, <2>10, <2>11, <2>12, <2>13, StepKeeps
  <1> QED BY <1>3, <1>4

LEMMA RefcopyKeeps ==
  ASSUME IInv, NEW t \in Thread, Refcopy(t) PROVE IInv'
  <1> USE CowAssumption
  <1>1. /\ pc[t] = "refcopy" /\ call[t].op \in {"copy", "assign"}
        /\ CallOf(t) /\ ValueOf(t) /\ ref' = ref /\ ptr' = ptr
        /\ Obtained(t, Source(t))
    BY DEF Refcopy, IInv, Calls, CallOf, At, Values
  <1>2. PICK x \in Str : x = call[t].this
    BY <1>1, Begun
  <1>3. PICK r1 \in AllRep : r1 = Source(t)
    BY <1>1, ArgumentHeld DEF WithArg, Source
  <1>4. /\ call[t].arg \in Holders(r1) /\ rep[r1].alive
        /\ rep[r1] \in [alive : BOOLEAN, refcount : Int, capacity : Nat, chars : Seq(Char)]
    BY <1>1, <1>3, ArgumentHeld DEF WithArg, IInv, Types
  <1>5. x \notin ref
    BY <1>1, <1>2, NotLeaked
  <1>6. rep' = IF r1 = EmptyRep THEN rep
               ELSE [rep EXCEPT ![r1].refcount = rep[r1].refcount + 1]
    BY <1>3 DEF Refcopy
  <1>7. rep' \in [AllRep -> [alive : BOOLEAN, refcount : Int, capacity : Nat,
                             chars : Seq(Char)]]
    <2>1. [rep[r1] EXCEPT !.refcount = rep[r1].refcount + 1] \in
            [alive : BOOLEAN, refcount : Int, capacity : Nat, chars : Seq(Char)]
      BY <1>4
    <2>2. rep' = rep \/ rep' = [rep EXCEPT ![r1] =
                                  [rep[r1] EXCEPT !.refcount = rep[r1].refcount + 1]]
      BY <1>6
    <2>3. rep \in [AllRep -> [alive : BOOLEAN, refcount : Int, capacity : Nat,
                             chars : Seq(Char)]]
      BY DEF IInv, Types
    <2> DEFINE v == [rep[r1] EXCEPT !.refcount = rep[r1].refcount + 1]
    <2>4. [rep EXCEPT ![r1] = v] \in [AllRep -> [alive : BOOLEAN, refcount : Int,
                                               capacity : Nat, chars : Seq(Char)]]
      <3> HIDE DEF v
      <3> QED BY <2>1, <2>3 DEF v
    <2> HIDE DEF v
    <2> QED BY <2>2, <2>3, <2>4 DEF v
  <1>8. /\ \A r \in AllRep \ {r1} : rep'[r] = rep[r]
        /\ rep'[r1].alive /\ rep'[r1].chars = rep[r1].chars
        /\ rep'[r1].capacity = rep[r1].capacity
        /\ rep'[r1].refcount = IF r1 = EmptyRep THEN rep[r1].refcount
                               ELSE rep[r1].refcount + 1
    BY <1>4, <1>6 DEF IInv, Types
  <1>9. r1 \in Rep => /\ ~BeingFreed(r1) /\ rep[r1].refcount >= 0
                      /\ rep[r1].refcount = Cardinality(Holders(r1)) - 1
                      /\ Cardinality(Holders(r1)) \in Nat
    <2> SUFFICES ASSUME r1 \in Rep
                 PROVE  /\ ~BeingFreed(r1) /\ rep[r1].refcount >= 0
                        /\ rep[r1].refcount = Cardinality(Holders(r1)) - 1
                        /\ Cardinality(Holders(r1)) \in Nat
      OBVIOUS
    <2>1. rep[r1].refcount >= 0
      BY <1>1, <1>3 DEF IInv, Sharing, SharingOf
    <2> QED BY <1>4, <2>1, Held
  <1>10. Same(r1)
    BY <1>4, <1>8, <1>9 DEF Same, AllRep
  <1>11. EmptyKept' /\ Fits'
    <2>1. EmptyKept'
      BY <1>8 DEF EmptyKept, IInv, AllRep
    <2>2. Fits'
      BY <1>8 DEF Fits, IInv
    <2> QED BY <2>1, <2>2
  <1>12. r1 \in Rep => /\ ~BeingFreed(r1)
                       /\ rep'[r1].refcount = Cardinality(Holders(r1))
                       /\ Holders(r1) = {} \/ call[t].arg \in Holders(r1)
    BY <1>4, <1>8, <1>9
  <1>13. /\ call[t].op \notin Refilled
         /\ call[t].op \notin {"reserve", "append", "push_back", "leak", "clear", "erase"}
         /\ call[t].op \in {"copy", "assign"} /\ pc[t] \in {"refcopy", "clone", "mutate"}
         /\ Obtained(t, r1)
    BY <1>1, <1>3 DEF Refilled
  <1>14. rep'[Source(t)].chars = rep[Source(t)].chars /\ rep'[r1].chars = rep[Source(t)].chars
    BY <1>3, <1>8
  <1> QED
    BY <1>1, <1>2, <1>5, <1>7, <1>8, <1>10, <1>11, <1>12, <1>13, <1>14, ObtainedKeeps

\* Memory that nobody uses becomes a _Rep with the characters v.
LEMMA CreatedRep ==
  ASSUME IInv, NEW r1 \in Rep, ~rep[r1].alive,
         NEW v \in Seq(Char), NEW n \in Nat, Len(v) <= n,
         NEW new \in Created(v, n), rep' = [rep EXCEPT ![r1] = new]
  PROVE  /\ rep' \in [AllRep -> [alive : BOOLEAN, refcount : Int, capacity : Nat,
                                 chars : Seq(Char)]]
         /\ r1 \in AllRep /\ \A r \in AllRep \ {r1} : rep'[r] = rep[r]
         /\ rep'[r1].alive /\ rep'[r1].refcount = 0 /\ rep'[r1].chars = v
         /\ n <= rep'[r1].capacity
         /\ EmptyKept' /\ Fits'
         /\ \A t \in Thread : Private(t, r1)
         /\ ~BeingFreed(r1) /\ Holders(r1) = {} /\ Cardinality(Holders(r1)) = 0
         /\ \A s \in Str : str[s] # r1
  <1> USE CowAssumption
  <1>1. PICK k \in n .. MaxLen :
          new = [alive |-> TRUE, refcount |-> 0, capacity |-> k, chars |-> v]
    BY DEF Created
  <1>2. k \in Nat /\ n <= k /\ k <= MaxLen
    OBVIOUS
  <1>3. new \in [alive : BOOLEAN, refcount : Int, capacity : Nat, chars : Seq(Char)]
    BY <1>1, <1>2
  <1>4. r1 \in AllRep /\ r1 # EmptyRep
    BY DEF AllRep
  <1>5. rep' \in [AllRep -> [alive : BOOLEAN, refcount : Int, capacity : Nat,
                             chars : Seq(Char)]]
    BY <1>3 DEF IInv, Types
  <1>6. rep'[r1] = new /\ \A r \in AllRep \ {r1} : rep'[r] = rep[r]
    BY <1>4 DEF IInv, Types
  <1>7. EmptyKept'
    BY <1>4, <1>6 DEF EmptyKept, IInv, AllRep
  <1>8. Fits'
    BY <1>1, <1>2, <1>6 DEF Fits, IInv
  <1>9. /\ ~BeingFreed(r1) /\ Holders(r1) = {}
        /\ \A s \in Str : str[s] # r1
    BY NotUsed
  <1>10. Cardinality(Holders(r1)) = 0
    BY <1>9, FS_EmptySet
  <1>11. \A t \in Thread : Private(t, r1)
    BY <1>9 DEF Private, BeingFreed
  <1> QED
    BY <1>1, <1>2, <1>4, <1>5, <1>6, <1>7, <1>8, <1>9, <1>10, <1>11

LEMMA CloneKeeps ==
  ASSUME IInv, NEW t \in Thread, Clone(t) PROVE IInv'
  <1> USE CowAssumption
  <1> DEFINE op == call[t].op
             old == IF op \in {"copy", "assign"} THEN Source(t) ELSE str[call[t].this]
             room == IF op = "append" THEN NewLen(t) ELSE Len(rep[old].chars)
  <1>1. /\ pc[t] = "clone" /\ op \in {"copy", "assign", "reserve", "append"}
        /\ CallOf(t) /\ ValueOf(t) /\ ref' = ref /\ ptr' = ptr
        /\ op = "append" => ptr[t] = NoRep
    BY DEF Clone, IInv, Calls, CallOf, At, Values
  <1>2. PICK x \in Str : x = call[t].this
    BY <1>1, Begun
  <1>3. x \notin ref
    BY <1>1, <1>2, NotLeaked
  <1>4. PICK r1 \in Rep, new \in Created(rep[old].chars, room) :
          ~rep[r1].alive /\ rep' = [rep EXCEPT ![r1] = new] /\ Obtained(t, r1)
    BY DEF Clone
  <1>5. op \in WithArg => Source(t) \in AllRep /\ rep[Source(t)].chars \in Seq(Char)
    BY ArgumentHeld DEF Source, IInv, Types
  <1>6. op # "copy" => str[x] \in AllRep /\ rep[str[x]].chars \in Seq(Char)
                         /\ rep[str[x]].chars = before[x]
    <2>1. op # "copy" => str[x] \in AllRep
      BY <1>1, <1>2, ThisHeld
    <2>2. op # "copy" => rep[str[x]].chars = before[x]
      BY <1>1, <1>2 DEF ValueOf
    <2> QED BY <2>1, <2>2 DEF IInv, Types
  <1>7. rep[old].chars \in Seq(Char)
    BY <1>1, <1>2, <1>5, <1>6 DEF WithArg
  <1>8. room \in Nat /\ Len(rep[old].chars) <= room
    <2>1. CASE op = "append"
      <3>1. NewLen(t) = Len(rep[str[x]].chars) + Len(rep[Source(t)].chars)
        BY <1>2, <2>1 DEF NewLen, Mine
      <3>2. /\ Len(rep[str[x]].chars) \in Nat /\ Len(rep[Source(t)].chars) \in Nat
        BY <1>2, <1>5, <1>6, <2>1 DEF WithArg
      <3>3. old = str[x] /\ room = NewLen(t)
        BY <1>2, <2>1
      <3>4. NewLen(t) \in Nat /\ Len(rep[str[x]].chars) <= NewLen(t)
        <4>1. PICK a \in Nat, b \in Nat :
                a = Len(rep[str[x]].chars) /\ b = Len(rep[Source(t)].chars)
          BY <3>2
        <4>2. NewLen(t) = a + b
          BY <3>1, <4>1
        <4>3. a + b \in Nat /\ a <= a + b
          OBVIOUS
        <4> QED BY <4>1, <4>2, <4>3
      <3> HIDE DEF old, room
      <3> QED BY <3>3, <3>4
    <2>2. CASE op # "append"
      BY <1>7, <2>2
    <2> QED BY <2>1, <2>2
  <1> DEFINE v == rep[old].chars
  <1> HIDE DEF room
  <1>9. PICK w, n : w = v /\ n = room
    OBVIOUS
  <1>10. /\ w \in Seq(Char) /\ n \in Nat /\ Len(w) <= n /\ new \in Created(w, n)
    BY <1>4, <1>7, <1>8, <1>9
  <1>11. /\ rep' \in [AllRep -> [alive : BOOLEAN, refcount : Int, capacity : Nat,
                                 chars : Seq(Char)]]
         /\ r1 \in AllRep /\ \A r \in AllRep \ {r1} : rep'[r] = rep[r]
         /\ rep'[r1].alive /\ rep'[r1].refcount = 0 /\ rep'[r1].chars = w
         /\ EmptyKept' /\ Fits'
         /\ \A u \in Thread : Private(u, r1)
         /\ ~BeingFreed(r1) /\ Holders(r1) = {} /\ Cardinality(Holders(r1)) = 0
         /\ \A s \in Str : str[s] # r1
    BY <1>4, <1>10, CreatedRep
  <1>12. op \in WithArg => rep'[Source(t)].chars = rep[Source(t)].chars
    BY <1>5, <1>11, ArgumentHeld DEF Source
  <1>13. op = "assign" => rep'[r1].chars = rep[Source(t)].chars
    BY <1>9, <1>11
  <1>14. op \in {"reserve", "append", "push_back", "leak"} => rep'[r1].chars = before[x]
    BY <1>2, <1>6, <1>9, <1>11
  <1>15. /\ op \notin {"clear", "erase"} /\ pc[t] \in {"refcopy", "clone", "mutate"}
         /\ ~(op \in Refilled /\ (op = "append" => ptr[t] # NoRep))
    BY <1>1 DEF Refilled
  <1> HIDE DEF v, op
  <1>16. op = call[t].op
    BY DEF op
  <1> QED
    BY <1>1, <1>2, <1>3, <1>4, <1>11, <1>12, <1>13, <1>14, <1>15, <1>16, ObtainedKeeps

LEMMA MutateKeeps ==
  ASSUME IInv, NEW t \in Thread, Mutate(t) PROVE IInv'
  <1> USE CowAssumption
  <1> DEFINE op == call[t].op
  <1>1. /\ pc[t] = "mutate" /\ op \in Refilled /\ CallOf(t) /\ ValueOf(t)
        /\ str' = str /\ ref' = ref /\ call' = call /\ ptr' = ptr /\ before' = before
        /\ op = "append" => ptr[t] # NoRep
    BY DEF Mutate, IInv, Calls, CallOf, At, Values
  <1>2. PICK x \in Str : x = call[t].this
    BY <1>1, Begun
  <1>3. /\ x \in Holders(str[x]) /\ str[x] \in AllRep /\ rep[str[x]].alive
        /\ Mine(t) = rep[str[x]]
        /\ rep[str[x]] \in [alive : BOOLEAN, refcount : Int, capacity : Nat, chars : Seq(Char)]
    BY <1>1, <1>2, ThisHeld DEF Refilled, Mine, IInv, Types
  <1>4. rep[str[x]].chars = before[x] /\ before[x] \in Seq(Char)
    BY <1>1, <1>2 DEF ValueOf, Refilled
  <1>5. NewLen(t) = Need(t)
    BY <1>2, <1>3, <1>4 DEF NewLen, Need
  <1>6. /\ Need(t) \in Nat
        /\ op \notin {"clear", "erase"} => Len(before[x]) <= Need(t)
    <2>1. CASE op = "append"
      <3>1. rep[Source(t)].chars \in Seq(Char)
        BY <2>1, ArgumentHeld DEF Source, IInv, Types, WithArg
      <3>2. PICK a \in Nat, b \in Nat : a = Len(before[x]) /\ b = Len(rep[Source(t)].chars)
        BY <1>4, <3>1
      <3>3. Need(t) = a + b
        BY <1>2, <2>1, <3>2 DEF Need
      <3>4. a + b \in Nat /\ a <= a + b
        OBVIOUS
      <3> QED BY <3>2, <3>3, <3>4
    <2>2. CASE op = "push_back"
      <3>1. PICK a \in Nat : a = Len(before[x])
        BY <1>4
      <3>2. Need(t) = a + 1
        BY <1>2, <2>2, <3>1 DEF Need
      <3> QED BY <3>1, <3>2
    <2>3. CASE op \in {"clear", "erase"}
      BY <2>3 DEF Need
    <2>4. CASE op = "leak"
      <3>1. PICK a \in Nat : a = Len(before[x])
        BY <1>4
      <3>2. Need(t) = a + 0
        BY <1>2, <2>4, <3>1 DEF Need
      <3> QED BY <3>1, <3>2
    <2> QED BY <1>1, <2>1, <2>2, <2>3, <2>4 DEF Refilled
  <1>7. CASE NeedsRep(t)
    <2> DEFINE kept == IF op \in {"clear", "erase"} THEN <<>> ELSE Mine(t).chars
    <2>1. PICK r1 \in Rep, new \in Created(kept, NewLen(t)) :
            /\ ~rep[r1].alive /\ rep' = [rep EXCEPT ![r1] = new]
            /\ tmp' = [tmp EXCEPT ![t] = r1]
            /\ pc' = [pc EXCEPT ![t] = "dispose"]
      BY <1>7 DEF Mutate
    <2>2. Obtained(t, r1)
      BY <1>1, <2>1 DEF Obtained, Refilled
    <2>3. PICK w : w = kept
      OBVIOUS
    <2>4. /\ w = (IF op \in {"clear", "erase"} THEN <<>> ELSE before[x])
          /\ w \in Seq(Char) /\ Len(w) <= Need(t)
      <3>1. w = IF op \in {"clear", "erase"} THEN <<>> ELSE before[x]
        BY <1>3, <1>4, <2>3
      <3>2. CASE op \in {"clear", "erase"}
        BY <1>6, <3>1, <3>2
      <3>3. CASE op \notin {"clear", "erase"}
        BY <1>4, <1>6, <3>1, <3>3
      <3> QED BY <3>1, <3>2, <3>3
    <2>5. new \in Created(w, Need(t))
      BY <1>5, <2>1, <2>3
    <2>6. /\ rep' \in [AllRep -> [alive : BOOLEAN, refcount : Int, capacity : Nat,
                                   chars : Seq(Char)]]
          /\ r1 \in AllRep /\ \A r \in AllRep \ {r1} : rep'[r] = rep[r]
          /\ rep'[r1].alive /\ rep'[r1].refcount = 0 /\ rep'[r1].chars = w
          /\ Need(t) <= rep'[r1].capacity
          /\ EmptyKept' /\ Fits'
          /\ \A u \in Thread : Private(u, r1)
          /\ ~BeingFreed(r1) /\ Holders(r1) = {} /\ Cardinality(Holders(r1)) = 0
          /\ \A s \in Str : str[s] # r1
      BY <1>6, <2>1, <2>4, <2>5, CreatedRep
    <2>7. x \notin ref
      <3> SUFFICES ASSUME x \in ref PROVE FALSE
        OBVIOUS
      <3>1. op = "erase"
        BY <1>1, <1>2 DEF IInv, Leaked, LeakedOf
      <3>2. rep[str[x]].refcount <= 0
        BY DEF IInv, Leaked, LeakedOf, EmptyKept
      <3>3. NewLen(t) = 0 /\ rep[str[x]].capacity \in Nat
        BY <1>3, <3>1 DEF NewLen
      <3> QED BY <1>3, <1>7, <3>2, <3>3 DEF NeedsRep
    <2>8. op \in WithArg => rep'[Source(t)].chars = rep[Source(t)].chars
      BY <2>6, ArgumentHeld DEF Source
    <2>9. /\ op \in {"reserve", "append", "push_back", "leak"} => rep'[r1].chars = before[x]
          /\ op \in {"clear", "erase"} => rep'[r1].chars = <<>>
      BY <2>4, <2>6
    <2>10. op # "assign" /\ pc[t] \in {"refcopy", "clone", "mutate"}
      BY <1>1 DEF Refilled
    <2> HIDE DEF kept, op
    <2>11. op = call[t].op
      BY DEF op
    <2> QED
      BY <1>1, <1>2, <2>2, <2>6, <2>7, <2>8, <2>9, <2>10, <2>11, ObtainedKeeps
  <1>8. CASE ~NeedsRep(t)
    <2>1. pc' = [pc EXCEPT ![t] = "fill"] /\ rep' = rep /\ tmp' = tmp
      BY <1>8 DEF Mutate
    <2>2. pc'[t] = "fill" /\ \A v \in Thread \ {t} : pc'[v] = pc[v]
      BY <2>1 DEF IInv, Types
    <2>3. Need(t) <= rep[str[x]].capacity /\ rep[str[x]].refcount <= 0
      BY <1>3, <1>5, <1>6, <1>8 DEF NeedsRep
    <2>4. Types'
      BY <1>1, <2>1 DEF IInv, Types, Pc
    <2>5. Step(t)
      BY <1>1, <2>1, <2>2 DEF Step
    <2>6. CallOf(t)'
      BY <1>1, <2>1, <2>2 DEF CallOf, At, Refilled, Replacing, WithArg
    <2>7. ValueOf(t)'
      <3>1. Need(t)' = Need(t) /\ Mine(t)' = Mine(t)
        BY <1>1, <2>1 DEF Need, Source, Mine
      <3> QED BY <1>1, <1>2, <1>3, <2>1, <2>2, <2>3, <3>1 DEF ValueOf, Refilled
    <2>8. UnsharedOf(t)'
      <3> SUFFICES ASSUME NEW r \in Rep, str[x] = r PROVE Holders(r)' = {x}
        BY <1>1, <1>2, <2>2 DEF UnsharedOf
      <3>1. Holders(r) = {x}
        BY <1>3, <2>3, Held
      <3>2. Holders(r)' = Holders(r)
        <4>1. \A v \in Thread : /\ pc'[v] = "free" <=> pc[v] = "free"
                                /\ pc[v] = "free" => call'[v] = call[v]
          BY <1>1, <2>2
        <4> QED BY <1>1, <2>1, <4>1, HoldersKept
      <3> QED BY <3>1, <3>2
    <2>9. SharingOf(t)'
      BY <2>2 DEF SharingOf
    <2>10. x \in ref => LeakedOf(x)'
      <3> SUFFICES ASSUME x \in ref PROVE LeakedOf(x)'
        OBVIOUS
      <3>1. LeakedOf(x) /\ op = "erase"
        BY <1>1, <1>2 DEF IInv, Leaked, LeakedOf
      <3>2. \A v \in Thread : call[v].this = x => v = t
        BY <1>1, <1>2, Begun
      <3> QED BY <1>1, <2>1, <2>2, <3>1, <3>2 DEF LeakedOf
    <2> QED
      BY <1>1, <1>2, <2>1, <2>2, <2>4, <2>5, <2>6, <2>7, <2>8, <2>9, <2>10, QuietStep
  <1> QED BY <1>7, <1>8

\* What a call does to r0, the old _Rep of its string.
Disposes(t, r0) ==
  \/ pc[t] = "dispose" /\ r0 = EmptyRep /\ rep' = rep
  \/ /\ pc[t] = "dispose" /\ r0 # EmptyRep
     /\ rep' = [rep EXCEPT ![r0].refcount = rep[r0].refcount - 1]
  \/ pc[t] = "free" /\ rep' = [rep EXCEPT ![r0] = Dead]

LEMMA Disposed ==
  ASSUME IInv, NEW t \in Thread, NEW x \in Str, x = call[t].this,
         NEW r0 \in AllRep, r0 = str[x], Disposes(t, r0)
  PROVE  /\ rep' \in [AllRep -> [alive : BOOLEAN, refcount : Int, capacity : Nat,
                                 chars : Seq(Char)]]
         /\ EmptyKept' /\ Fits'
         /\ \A r \in AllRep \ {r0} : rep'[r] = rep[r]
         /\ pc[t] = "dispose" =>
              /\ \A r \in AllRep : /\ rep'[r].alive = rep[r].alive
                                   /\ rep'[r].chars = rep[r].chars
                                   /\ rep'[r].capacity = rep[r].capacity
              /\ x \in Holders(r0) /\ rep[r0].alive
              /\ r0 \in Rep => rep'[r0].refcount = rep[r0].refcount - 1
         /\ pc[t] = "free" => /\ r0 \in Rep /\ Holders(r0) = {} /\ Private(t, r0)
                              /\ ~rep'[r0].alive
  <1> USE CowAssumption
  <1>a. pc[t] \in {"dispose", "free"}
    BY DEF Disposes
  <1>1. CallOf(t) /\ call[t].op # "copy"
    BY <1>a DEF IInv, Calls, CallOf, At, Replacing, Refilled
  <1>2. rep[r0] \in [alive : BOOLEAN, refcount : Int, capacity : Nat, chars : Seq(Char)]
    BY DEF IInv, Types
  <1>3. Dead \in [alive : BOOLEAN, refcount : Int, capacity : Nat, chars : Seq(Char)]
    BY DEF Dead
  <1>4. CASE pc[t] = "free" /\ rep' = [rep EXCEPT ![r0] = Dead]
    <2>1. r0 \in Rep
      BY <1>1, <1>4 DEF CallOf, AllRep
    <2>2. BeingFreed(r0)
      BY <1>4 DEF BeingFreed
    <2>3. Holders(r0) = {}
      BY <2>1, <2>2, NotHeld
    <2>4. Private(t, r0)
      BY <1>4, <2>3 DEF Private, IInv, FreedOnce
    <2>5. rep' \in [AllRep -> [alive : BOOLEAN, refcount : Int, capacity : Nat,
                               chars : Seq(Char)]]
      BY <1>3, <1>4 DEF IInv, Types
    <2>6. rep'[r0] = Dead /\ \A r \in AllRep \ {r0} : rep'[r] = rep[r]
      BY <1>4 DEF IInv, Types
    <2>7. EmptyKept' /\ Fits'
      <3>1. EmptyKept'
        BY <2>1, <2>6 DEF EmptyKept, IInv, AllRep
      <3>2. Len(Dead.chars) <= Dead.capacity /\ Dead.capacity <= MaxLen
        BY DEF Dead
      <3>3. Fits'
        BY <2>6, <3>2 DEF Fits, IInv
      <3> QED BY <3>1, <3>3
    <2> QED BY <1>4, <2>1, <2>3, <2>4, <2>5, <2>6, <2>7 DEF Dead
  <1>5. CASE pc[t] = "dispose" /\ r0 = EmptyRep /\ rep' = rep
    <2>1. x \in Holders(r0) /\ rep[r0].alive
      BY <1>1, <1>5, ThisHeld
    <2> QED BY <1>5, <2>1 DEF IInv, Types, EmptyKept, Fits
  <1>6. CASE /\ pc[t] = "dispose" /\ r0 # EmptyRep
             /\ rep' = [rep EXCEPT ![r0].refcount = rep[r0].refcount - 1]
    <2>1. x \in Holders(r0) /\ rep[r0].alive
      BY <1>1, <1>6, ThisHeld
    <2> DEFINE new == [rep[r0] EXCEPT !.refcount = rep[r0].refcount - 1]
    <2>2. new \in [alive : BOOLEAN, refcount : Int, capacity : Nat, chars : Seq(Char)]
      BY <1>2
    <2>3. rep' = [rep EXCEPT ![r0] = new]
      BY <1>6
    <2>4. /\ new.alive = rep[r0].alive /\ new.chars = rep[r0].chars
          /\ new.capacity = rep[r0].capacity /\ new.refcount = rep[r0].refcount - 1
      BY <1>2
    <2> HIDE DEF new
    <2>5. rep' \in [AllRep -> [alive : BOOLEAN, refcount : Int, capacity : Nat,
                               chars : Seq(Char)]]
      BY <2>2, <2>3 DEF IInv, Types
    <2>6. rep'[r0] = new /\ \A r \in AllRep \ {r0} : rep'[r] = rep[r]
      BY <2>3 DEF IInv, Types
    <2>7. \A r \in AllRep : /\ rep'[r].alive = rep[r].alive
                            /\ rep'[r].chars = rep[r].chars
                            /\ rep'[r].capacity = rep[r].capacity
      BY <2>4, <2>6
    <2>8. EmptyKept'
      BY <1>6, <2>6 DEF EmptyKept, IInv, AllRep
    <2>9. Fits'
      BY <2>7 DEF Fits, IInv
    <2> QED BY <1>6, <2>1, <2>4, <2>5, <2>6, <2>7, <2>8, <2>9
  <1> QED BY <1>4, <1>5, <1>6 DEF Disposes

\* The string has its new _Rep.
LEMMA AttachKeeps ==
  ASSUME IInv, NEW t \in Thread, NEW x \in Str, x = call[t].this,
         NEW r0 \in AllRep, r0 = str[x], Attach(t), ref' = ref,
         Disposes(t, r0), pc[t] = "dispose" => r0 = EmptyRep \/ rep[r0].refcount > 0
  PROVE  IInv'
  <1> USE CowAssumption
  <1> DEFINE op == call[t].op
             r1 == tmp[t]
  <1>a. pc[t] \in {"dispose", "free"}
    BY DEF Disposes
  <1>1. /\ CallOf(t) /\ ValueOf(t) /\ x # NoStr /\ op # "copy" /\ op # "none"
        /\ op \in Replacing \cup {"destroy"}
        /\ r1 # NoRep <=> op # "destroy"
        /\ r1 \in AllRep \cup {NoRep} /\ pc[t] \in {"dispose", "free"}
        /\ op = "append" => call[t].arg \in Str \ {x}
    BY <1>a DEF IInv, Calls, Values, CallOf, At, Types, Replacing, Refilled, WithArg
  <1>2. /\ rep' \in [AllRep -> [alive : BOOLEAN, refcount : Int, capacity : Nat,
                                chars : Seq(Char)]]
        /\ EmptyKept' /\ Fits'
        /\ \A r \in AllRep \ {r0} : rep'[r] = rep[r]
        /\ pc[t] = "dispose" =>
             /\ \A r \in AllRep : /\ rep'[r].alive = rep[r].alive
                                  /\ rep'[r].chars = rep[r].chars
                                  /\ rep'[r].capacity = rep[r].capacity
             /\ x \in Holders(r0) /\ rep[r0].alive
             /\ r0 \in Rep => rep'[r0].refcount = rep[r0].refcount - 1
        /\ pc[t] = "free" => /\ r0 \in Rep /\ Holders(r0) = {} /\ Private(t, r0)
                             /\ ~rep'[r0].alive
    <2>1. rep' \in [AllRep -> [alive : BOOLEAN, refcount : Int, capacity : Nat,
                                chars : Seq(Char)]]
      BY Disposed
    <2>2. EmptyKept' /\ Fits' /\ \A r \in AllRep \ {r0} : rep'[r] = rep[r]
      BY Disposed
    <2>3. pc[t] = "free" => /\ r0 \in Rep /\ Holders(r0) = {} /\ Private(t, r0)
                             /\ ~rep'[r0].alive
      BY ZenonT(30), Disposed
    <2>4. pc[t] = "dispose" =>
             /\ x \in Holders(r0) /\ rep[r0].alive
             /\ r0 \in Rep => rep'[r0].refcount = rep[r0].refcount - 1
      BY Disposed
    <2>5. pc[t] = "dispose" =>
             /\ \A r \in AllRep : /\ rep'[r].alive = rep[r].alive
                                  /\ rep'[r].chars = rep[r].chars
                                  /\ rep'[r].capacity = rep[r].capacity
      BY Disposed
    <2> QED BY <2>1, <2>2, <2>3, <2>4, <2>5
  <1>3. \A r \in AllRep : Same(r) \/ (r \in Rep /\ Private(t, r))
    <2>1. CASE pc[t] = "free"
      BY <1>2, <2>1 DEF Same
    <2>2. CASE pc[t] = "dispose"
      <3>1. rep[r0].refcount \in Int
        BY DEF IInv, Types
      <3>2. \A r \in AllRep \ {r0} : Same(r)
        BY <1>2 DEF Same
      <3>3. Same(r0)
        BY SMTT(30), <1>2, <2>2, <3>1 DEF Same, AllRep
      <3> QED BY <3>2, <3>3
    <2> QED BY <1>1, <2>1, <2>2
  <1>4. x \notin ref
    BY <1>1, NotLeaked
  <1>5. \A r \in AllRep : (\E y : y \in Holders(r)) \/ r = EmptyRep =>
          /\ rep'[r].alive = rep[r].alive
          /\ rep'[r].chars = rep[r].chars
          /\ rep'[r].capacity = rep[r].capacity
    BY <1>1, <1>2
  <1>6. r1 # NoRep => /\ rep'[r1].alive = rep[r1].alive
                      /\ rep'[r1].chars = rep[r1].chars
                      /\ rep'[r1].capacity = rep[r1].capacity
                      /\ rep'[r1].alive
    <2>1. r1 # NoRep => r1 \in AllRep /\ t \in Holders(r1) /\ rep[r1].alive
      BY <1>1, InHolders DEF IInv, NoUseAfterFree
    <2> QED BY <1>5, <2>1
  <1>7. op \in WithArg => /\ Source(t) \in AllRep /\ rep'[Source(t)].alive
                          /\ rep'[Source(t)].chars = rep[Source(t)].chars
    <2>1. op \in WithArg => /\ Source(t) \in AllRep /\ rep[Source(t)].alive
                            /\ call[t].arg \in Holders(Source(t))
      BY ArgumentHeld DEF Source
    <2> QED BY <1>5, <2>1
  <1>8. /\ str' = [str EXCEPT ![x] = r1] /\ tmp' = [tmp EXCEPT ![t] = NoRep]
        /\ str'[x] = r1 /\ tmp'[t] = NoRep
        /\ \A y \in Str \ {x} : str'[y] = str[y]
        /\ \A v \in Thread \ {t} : tmp'[v] = tmp[v]
    BY DEF Attach, IInv, Types
  <1>9. \/ op \in {"destroy", "assign", "reserve"} /\ Return(t) /\ ptr' = ptr
        \/ /\ op = "append" /\ ptr[t] = NoRep
           /\ pc' = [pc EXCEPT ![t] = "mutate"]
           /\ ptr' = [ptr EXCEPT ![t] = Source(t)]
           /\ call' = call /\ before' = before
        \/ /\ op \in Refilled /\ (op = "append" => ptr[t] # NoRep)
           /\ pc' = [pc EXCEPT ![t] = "fill"]
           /\ call' = call /\ ptr' = ptr /\ before' = before
    <2>1. op = "append" => str'[call[t].arg] = Source(t)
      BY <1>1, <1>8 DEF Source
    <2> QED BY <1>1, <2>1 DEF Attach, Refilled, Replacing
  <1>10. /\ Types' /\ Step(t) /\ pc'[t] \in {"idle", "mutate", "fill"}
         /\ CallOf(t)' /\ ValueOf(t)' /\ SharingOf(t)'
         /\ pc'[t] = "fill" =>
              op \notin {"destroy", "assign"} /\ str'[call'[t].this] = r1 /\ call'[t] = call[t]
         /\ ptr'[t] # NoRep => rep'[ptr'[t]].alive
    <2>1. str' \in [Str -> AllRep \cup {NoRep}] /\ tmp' \in [Thread -> AllRep \cup {NoRep}]
      BY <1>1, <1>8 DEF IInv, Types
    <2>2. CASE op \in {"destroy", "assign", "reserve"} /\ Return(t) /\ ptr' = ptr
      <3>1. ptr[t] = NoRep
        BY <1>1, <2>2 DEF CallOf
      <3>2. /\ pc'[t] = "idle" /\ call'[t] = NoCall /\ ptr'[t] = NoRep
            /\ \A v \in Thread \ {t} : pc'[v] = pc[v] /\ call'[v] = call[v]
            /\ \A y \in Str \ {x} : before'[y] = before[y]
        BY <2>2, <3>1 DEF Return, IInv, Types
      <3>3. Types'
        <4>1. NoCall \in [op : Op, this : Str \cup {NoStr}, arg : Str \cup {NoStr},
                          char : Char \cup {None}]
          BY DEF NoCall, Op
        <4>2. /\ pc' \in [Thread -> Pc] /\ ptr' \in [Thread -> AllRep \cup {NoRep}]
              /\ before' \in [Str -> Seq(Char) \cup {None}] /\ ref' \subseteq Str
          BY <2>2 DEF IInv, Types, Return, Pc
        <4>3. call' \in [Thread -> [op : Op, this : Str \cup {NoStr},
                                    arg : Str \cup {NoStr}, char : Char \cup {None}]]
          BY <2>2, <4>1 DEF IInv, Types, Return
        <4> QED BY <1>2, <2>1, <4>2, <4>3 DEF Types
      <3>4. Step(t)
        BY <1>8, <2>2, <3>2 DEF Step
      <3>5. CallOf(t)' /\ ValueOf(t)' /\ SharingOf(t)'
        BY <1>8, <3>2, Returned
      <3> QED BY <3>2, <3>3, <3>4, <3>5
    <2>3. CASE /\ op = "append" /\ ptr[t] = NoRep
               /\ pc' = [pc EXCEPT ![t] = "mutate"]
               /\ ptr' = [ptr EXCEPT ![t] = Source(t)]
               /\ call' = call /\ before' = before
      <3>1. Source(t) \in AllRep /\ Source(t) # NoRep /\ rep'[Source(t)].alive
        BY <1>7, <2>3 DEF WithArg, AllRep
      <3>2. /\ pc'[t] = "mutate" /\ ptr'[t] = Source(t)
            /\ \A v \in Thread \ {t} : pc'[v] = pc[v] /\ ptr'[v] = ptr[v]
        BY <2>3, <3>1 DEF IInv, Types
      <3>3. Types'
        BY <1>2, <2>1, <2>3, <3>1 DEF IInv, Types, Pc
      <3>4. Step(t)
        BY <1>8, <2>3, <3>2 DEF Step
      <3>5. CallOf(t)'
        <4>1. str'[call[t].arg] = str[call[t].arg] /\ r1 # NoRep /\ tmp[t] # NoRep
          BY <1>1, <1>8, <2>3
        <4> QED
          BY <1>1, <1>8, <2>3, <3>1, <3>2, <4>1
          DEF CallOf, At, WithArg, Refilled, Replacing, Source
      <3>6. ValueOf(t)'
        <4>1. rep'[r1].chars = before[x] /\ before[x] \in Seq(Char)
          BY <1>1, <1>6, <2>3 DEF ValueOf
        <4> QED BY <1>8, <2>3, <3>2, <4>1 DEF ValueOf
      <3>7. SharingOf(t)'
        BY <3>2 DEF SharingOf
      <3> QED BY <3>1, <3>2, <3>3, <3>4, <3>5, <3>6, <3>7
    <2>4. CASE /\ op \in Refilled /\ (op = "append" => ptr[t] # NoRep)
               /\ pc' = [pc EXCEPT ![t] = "fill"]
               /\ call' = call /\ ptr' = ptr /\ before' = before
      <3>1. pc'[t] = "fill" /\ \A v \in Thread \ {t} : pc'[v] = pc[v]
        BY <2>4 DEF IInv, Types
      <3>2. Types'
        BY <1>2, <2>1, <2>4 DEF IInv, Types, Pc
      <3>3. Step(t)
        BY <1>8, <2>4, <3>1 DEF Step
      <3>4. CallOf(t)'
        <4>1. op = "append" => str'[call[t].arg] = str[call[t].arg]
          BY <1>1, <1>8
        <4>2. r1 # NoRep /\ op \notin {"destroy", "assign", "reserve", "copy"}
          BY <1>1, <2>4 DEF Refilled
        <4> QED
          BY <1>1, <1>8, <2>4, <3>1, <4>1, <4>2
          DEF CallOf, At, WithArg, Refilled, Replacing
      <3>5. ValueOf(t)'
        <4>1. /\ op \in {"append", "push_back", "leak"} => rep'[r1].chars = before[x]
              /\ before[x] \in Seq(Char)
              /\ Need(t) <= rep'[r1].capacity
          <5>1. r1 # NoRep
            BY <1>1, <2>4 DEF Refilled
          <5> QED BY <1>1, <1>6, <2>4, <5>1 DEF ValueOf, Refilled
        <4>2. Need(t)' = Need(t)
          <5>1. op = "append" => Source(t)' = Source(t)
            BY <1>1, <1>8, <2>4 DEF Source
          <5> QED BY <1>7, <2>4, <5>1 DEF Need, WithArg
        <4>3. Mine(t)' = rep'[r1]
          BY <1>8, <2>4 DEF Mine
        <4> QED BY <1>8, <2>4, <3>1, <4>1, <4>2, <4>3 DEF ValueOf, Refilled
      <3>6. SharingOf(t)'
        BY <3>1 DEF SharingOf
      <3>7. ptr'[t] # NoRep => rep'[ptr'[t]].alive
        BY <1>1, <1>7, <2>4 DEF CallOf, Source, WithArg
      <3> QED BY <1>8, <2>4, <3>1, <3>2, <3>3, <3>4, <3>5, <3>6, <3>7 DEF Refilled
    <2> QED BY <1>9, <2>2, <2>3, <2>4
  <1>11. pc[t] # "idle" /\ pc'[t] # "free" /\ x # t
    BY <1>1, <1>10
  <1>12. UnsharedOf(t)'
    <2> SUFFICES ASSUME NEW r \in Rep, pc'[t] = "fill", r1 = r
                 PROVE  Holders(r)' = {x}
      BY <1>10 DEF UnsharedOf
    <2>1. Holders(r) = {t}
      BY <1>1, <1>10 DEF IInv, Unshared, UnsharedOf
    <2>2. \A y \in Str \cup Thread : y \in Holders(r)' <=> y = x
      BY <1>8, <1>10, <1>11, <2>1, StepHolders
    <2>3. Holders(r)' \subseteq Str \cup Thread
      BY <1>10, <1>11, StepHolders
    <2> QED BY <2>2, <2>3
  <1>13. ASSUME NEW r \in Rep PROVE Counted(r)'
    <2>1. /\ \A y \in (Str \cup Thread) \ {x, t} : y \in Holders(r)' <=> y \in Holders(r)
          /\ x \in Holders(r)' <=> r1 = r
          /\ t \notin Holders(r)'
          /\ x \in Holders(r) <=> r0 = r /\ pc[t] # "free"
          /\ t \in Holders(r) <=> r1 = r
          /\ BeingFreed(r)' <=>
               \E v \in Thread \ {t} : pc[v] = "free" /\ str[call[v].this] = r
          /\ Holders(r)' \subseteq Str \cup Thread /\ Holders(r) \subseteq Str \cup Thread
      BY <1>8, <1>10, <1>11, StepHolders
    <2>2. /\ IsFiniteSet(Holders(r)) /\ Cardinality(Holders(r)) \in Nat
          /\ BeingFreed(r) <=> \/ pc[t] = "free" /\ r0 = r
                               \/ \E v \in Thread \ {t} :
                                     pc[v] = "free" /\ str[call[v].this] = r
      BY HoldersFinite DEF BeingFreed
    <2>3. CASE r # r0
      <3>1. rep'[r] = rep[r] /\ BeingFreed(r)' = BeingFreed(r)
        <4>1. BeingFreed(r)' <=> BeingFreed(r)
          BY <2>1, <2>2, <2>3
        <4>2. BeingFreed(r)' \in BOOLEAN /\ BeingFreed(r) \in BOOLEAN
          BY DEF BeingFreed
        <4>3. rep'[r] = rep[r]
          BY <1>2, <2>3 DEF AllRep
        <4> QED BY <4>1, <4>2, <4>3
      <3>2. CASE r1 # r
        <4>1. Holders(r)' = Holders(r)
          <5>1. \A y \in Str \cup Thread : y \in Holders(r)' <=> y \in Holders(r)
            BY <2>1, <2>3, <3>2
          <5> QED BY <2>1, <5>1
        <4> QED BY <3>1, <4>1, CountKept
      <3>3. CASE r1 = r
        <4>1. /\ Holders(r)' = (Holders(r) \ {t}) \cup {x}
              /\ t \in Holders(r) /\ x \notin Holders(r) \ {t}
          BY <1>11, <2>1, <2>3, <3>3
        <4>2. /\ IsFiniteSet(Holders(r) \ {t})
              /\ Cardinality(Holders(r) \ {t}) = Cardinality(Holders(r)) - 1
          BY <2>2, <4>1, FS_RemoveElement
        <4>3. Cardinality((Holders(r) \ {t}) \cup {x}) = Cardinality(Holders(r) \ {t}) + 1
          BY <4>1, <4>2, FS_AddElement
        <4>4. Cardinality(Holders(r)') = Cardinality(Holders(r))
          BY <2>2, <4>1, <4>2, <4>3
        <4> QED BY <3>1, <4>4 DEF Counted, IInv, RefCountExact
      <3> QED BY <3>2, <3>3
    <2>4. CASE r = r0
      <3>1. CASE pc[t] = "free"
        BY <1>2, <2>4, <3>1 DEF Counted
      <3>2. CASE pc[t] = "dispose"
        <4>1. /\ x \in Holders(r) /\ rep[r].refcount > 0 /\ rep[r].refcount \in Int
              /\ rep'[r].refcount = rep[r].refcount - 1
          BY <1>2, <2>4, <3>2 DEF IInv, Types
        <4>2. ~BeingFreed(r) /\ rep[r].refcount = Cardinality(Holders(r)) - 1
          BY <4>1, Held
        <4>3. PICK y \in Holders(r) : Holders(r)' = Holders(r) \ {y}
          <5>1. CASE r1 = r
            BY <1>11, <2>1, <4>1, <5>1
          <5>2. CASE r1 # r
            BY <1>11, <2>1, <4>1, <5>2
          <5> QED BY <5>1, <5>2
        <4>4. Cardinality(Holders(r)') = Cardinality(Holders(r)) - 1
          <5>1. Cardinality(Holders(r) \ {y}) = Cardinality(Holders(r)) - 1
            BY <2>2, FS_RemoveElement
          <5> QED BY <4>3, <5>1
        <4>5. ~BeingFreed(r)'
          BY <2>1, <2>2, <4>2
        <4>6. /\ Cardinality(Holders(r)') > 0
              /\ rep'[r].refcount = Cardinality(Holders(r)') - 1
          BY <2>2, <4>1, <4>2, <4>4
        <4> QED BY <4>5, <4>6 DEF Counted
      <3> QED BY <1>1, <3>1, <3>2
    <2> QED BY <2>3, <2>4
  <1>14. \A r \in Rep : str'[x] = r \/ tmp'[t] = r =>
           Holders(r) = {} \/ \E y \in {x, t, call[t].arg} : y \in Holders(r)
    BY <1>8, InHolders
  <1>15. /\ str'[x] # NoRep => rep'[str'[x]].alive
         /\ tmp'[t] # NoRep => rep'[tmp'[t]].alive
         /\ ptr'[t] # NoRep => rep'[ptr'[t]].alive
    BY <1>6, <1>8, <1>10
  <1>16. (\A s \in ref' : s \in ref \/ s = x) /\ x \notin ref'
    BY <1>4
  <1> QED
    BY <1>2, <1>3, <1>10, <1>11, <1>12, <1>13, <1>14, <1>15, <1>16, StepKeeps

LEMMA FreeKeeps ==
  ASSUME IInv, NEW t \in Thread, Free(t) PROVE IInv'
  <1> USE CowAssumption
  <1>1. pc[t] = "free" /\ CallOf(t) /\ call[t].op # "copy"
    BY DEF Free, IInv, Calls, CallOf, At, Replacing, Refilled
  <1>2. PICK x \in Str : x = call[t].this
    BY <1>1, Begun
  <1>3. PICK r0 \in AllRep : r0 = str[x]
    BY <1>1, <1>2 DEF CallOf, IInv, Types, At, Replacing, Refilled
  <1>4. Disposes(t, r0) /\ Attach(t) /\ ref' = ref
    BY <1>1, <1>2, <1>3 DEF Free, Disposes
  <1> QED BY <1>1, <1>2, <1>3, <1>4, AttachKeeps

LEMMA DisposeKeeps ==
  ASSUME IInv, NEW t \in Thread, Dispose(t) PROVE IInv'
  <1> USE CowAssumption
  <1>1. /\ pc[t] = "dispose" /\ CallOf(t) /\ ValueOf(t) /\ call[t].op # "copy"
        /\ ref' = ref
    BY DEF Dispose, IInv, Calls, Values, CallOf, At, Replacing, Refilled
  <1>2. PICK x \in Str : x = call[t].this
    BY <1>1, Begun
  <1>3. PICK r0 \in AllRep : r0 = str[x]
    BY <1>1, <1>2, ThisHeld
  <1>4. Disposes(t, r0)
    BY <1>1, <1>2, <1>3 DEF Dispose, Disposes
  <1>5. rep[r0].refcount \in Int
    BY DEF IInv, Types
  <1>6. CASE Attach(t) /\ (r0 = EmptyRep \/ rep[r0].refcount > 0)
    BY <1>1, <1>2, <1>3, <1>4, <1>6, AttachKeeps
  <1>7. CASE /\ r0 # EmptyRep /\ rep[r0].refcount <= 0
             /\ pc' = [pc EXCEPT ![t] = "free"]
             /\ UNCHANGED <<str, call, tmp, ptr, before>>
    <2>1. /\ rep' \in [AllRep -> [alive : BOOLEAN, refcount : Int, capacity : Nat,
                                  chars : Seq(Char)]]
          /\ EmptyKept' /\ Fits'
      BY <1>2, <1>3, <1>4, Disposed
    <2>2. \A r \in AllRep \ {r0} : rep'[r] = rep[r]
      BY <1>2, <1>3, <1>4, Disposed
    <2>3. \A r \in AllRep : /\ rep'[r].alive = rep[r].alive
                            /\ rep'[r].chars = rep[r].chars
                            /\ rep'[r].capacity = rep[r].capacity
      BY <1>1, <1>2, <1>3, <1>4, Disposed
    <2>4. x \in Holders(r0) /\ rep[r0].alive /\ r0 \in Rep
      BY <1>1, <1>2, <1>3, <1>4, <1>7, Disposed DEF AllRep
    <2>5. Holders(r0) = {x} /\ ~BeingFreed(r0)
      BY <1>7, <2>4, Held
    <2>6. Private(t, r0)
      BY <1>2, <2>5 DEF Private, BeingFreed
    <2>7. /\ pc'[t] = "free" /\ \A v \in Thread \ {t} : pc'[v] = pc[v]
          /\ str' = str /\ call' = call /\ tmp' = tmp /\ ptr' = ptr /\ before' = before
      BY <1>7 DEF IInv, Types
    <2>8. Types'
      BY <1>1, <1>7, <2>1 DEF IInv, Types, Pc
    <2>9. Step(t)
      BY <2>7 DEF Step
    <2>10. \A r \in AllRep : Same(r) \/ (r \in Rep /\ Private(t, r))
      BY <2>2, <2>4, <2>6 DEF Same
    <2>11. CallOf(t)'
      BY <1>1, <1>2, <1>3, <1>7, <2>7 DEF CallOf, At, WithArg, Refilled, Replacing
    <2>12. ValueOf(t)'
      <3>1. tmp[t] # NoRep => tmp[t] \in AllRep
        BY DEF IInv, Types
      <3>2. call[t].op \in WithArg => Source(t) \in AllRep
        BY ArgumentHeld DEF Source
      <3>3. Need(t)' = Need(t) /\ Source(t)' = Source(t)
        BY <2>3, <2>7, <3>2 DEF Need, Source, WithArg
      <3>4. tmp[t] # NoRep <=> call[t].op # "destroy"
        BY <1>1 DEF CallOf
      <3>5. /\ tmp[t] # NoRep => /\ rep'[tmp[t]].chars = rep[tmp[t]].chars
                                 /\ rep'[tmp[t]].capacity = rep[tmp[t]].capacity
            /\ rep'[str[x]].chars = rep[str[x]].chars
            /\ call[t].op \in WithArg => rep'[Source(t)].chars = rep[Source(t)].chars
        BY <1>3, <2>3, <3>1, <3>2
      <3> QED
        BY <1>1, <1>2, <2>7, <3>3, <3>4, <3>5 DEF ValueOf, WithArg, Refilled, Replacing
    <2>13. tmp[t] # r0
      BY <2>4, <2>5, InHolders
    <2>14. UnsharedOf(t)'
      <3> SUFFICES ASSUME NEW r \in Rep, tmp[t] = r,
                          call[t].op \notin {"destroy", "assign"}
                   PROVE  Holders(r)' = {t}
        BY <2>7 DEF UnsharedOf
      <3>1. Holders(r) = {t}
        BY <1>1 DEF IInv, Unshared, UnsharedOf
      <3>2. str[x] # r /\ pc[t] # "idle"
        BY <1>1, <1>3, <2>13
      <3>3. Holders(r)' = Holders(r)
        BY <1>2, <2>7, <2>9, <3>2, StepSame
      <3> QED BY <3>1, <3>3
    <2>15. SharingOf(t)'
      BY <2>7 DEF SharingOf
    <2>16. ASSUME NEW r \in Rep PROVE Counted(r)'
      <3>1. CASE r # r0
        <4>1. str[x] # r /\ pc[t] # "idle" /\ rep'[r] = rep[r]
          BY <1>1, <1>3, <2>2, <3>1 DEF AllRep
        <4>2. Holders(r)' = Holders(r) /\ BeingFreed(r)' = BeingFreed(r)
          BY <1>2, <2>7, <2>9, <4>1, StepSame
        <4> QED BY <4>1, <4>2, CountKept
      <3>2. CASE r = r0
        <4>1. BeingFreed(r)'
          BY <1>2, <1>3, <2>7, <3>2 DEF BeingFreed
        <4>2. Holders(r)' = {}
          <5>1. \A y \in Str \cup Thread : y \notin Holders(r)'
            BY <1>1, <1>2, <2>5, <2>7, <2>9, <2>13, <3>2, StepHolders
          <5>2. Holders(r)' \subseteq Str \cup Thread
            BY <1>1, <2>9, StepHolders
          <5> QED BY <5>1, <5>2
        <4> QED BY <4>1, <4>2, FS_EmptySet DEF Counted
      <3> QED BY <3>1, <3>2
    <2>17. \A r \in Rep : str'[x] = r \/ tmp'[t] = r =>
             Holders(r) = {} \/ \E y \in {x, t, call[t].arg} : y \in Holders(r)
      BY <1>3, <2>4, <2>7, InHolders
    <2>18. /\ str'[x] # NoRep => rep'[str'[x]].alive
           /\ tmp'[t] # NoRep => rep'[tmp'[t]].alive
           /\ ptr'[t] # NoRep => rep'[ptr'[t]].alive
      BY <2>3, <2>7 DEF IInv, Types, NoUseAfterFree
    <2>19. /\ pc'[t] = "free" => str'[x] \in Rep /\ ~BeingFreed(str'[x])
           /\ \A s \in ref' : s \in ref \/ s = x
           /\ x \notin ref' /\ pc[t] # "idle"
      BY <1>1, <1>2, <1>3, <2>4, <2>5, <2>7, NotLeaked
    <2> QED
      BY <1>2, <2>1, <2>8, <2>9, <2>10, <2>11, <2>12, <2>14, <2>15, <2>16, <2>17,
         <2>18, <2>19, StepKeeps
  <1> QED
    <2>1. \/ r0 = EmptyRep /\ Attach(t)
          \/ /\ r0 # EmptyRep
             /\ IF rep[r0].refcount <= 0
                THEN /\ pc' = [pc EXCEPT ![t] = "free"]
                     /\ UNCHANGED <<str, call, tmp, ptr, before>>
                ELSE Attach(t)
      BY <1>2, <1>3 DEF Dispose
    <2> QED BY <1>5, <1>6, <1>7, <2>1

-----------------------------------------------------------------------------
\* What the program does between its calls to strings that no call uses.

Between(W) ==
  /\ UNCHANGED <<pc, call, tmp, ptr, before>>
  /\ W \subseteq Str /\ \A s \in W : ~Claimed(s) /\ ~Read(s)
  /\ \A s \in Str \ W : str'[s] = str[s]

LEMMA BetweenHolders ==
  ASSUME IInv, NEW W, Between(W), NEW r \in Rep
  PROVE  /\ \A y \in (Str \cup Thread) \ W : y \in Holders(r)' <=> y \in Holders(r)
         /\ \A s \in W : /\ s \in Holders(r)' <=> str'[s] = r
                         /\ s \in Holders(r) <=> str[s] = r
         /\ BeingFreed(r)' = BeingFreed(r)
         /\ Holders(r)' \subseteq Str \cup Thread
         /\ Holders(r) \subseteq Str \cup Thread
  <1> USE CowAssumption
  <1>1. \A v \in Thread : call[v].this \notin W
    BY DEF Between, Claimed
  <1>2. pc' = pc /\ call' = call /\ tmp' = tmp /\ W \subseteq Str
    BY DEF Between
  <1>3. \A v \in Thread : pc[v] = "free" => call[v].this \in Str \ W
    BY <1>1, Begun
  <1>4. ASSUME NEW y \in Str \ W PROVE y \in Holders(r)' <=> y \in Holders(r)
    <2>1. str'[y] = str[y]
      BY DEF Between
    <2> QED BY <1>2, <2>1 DEF Holders
  <1>5. ASSUME NEW y \in Thread PROVE y \in Holders(r)' <=> y \in Holders(r)
    BY <1>2 DEF Holders
  <1>6. \A s \in W : /\ s \in Holders(r)' <=> str'[s] = r
                     /\ s \in Holders(r) <=> str[s] = r
    BY <1>1, <1>2 DEF Holders
  <1>7. BeingFreed(r)' = BeingFreed(r)
    <2>1. BeingFreed(r)' <=> BeingFreed(r)
      BY <1>2, <1>3 DEF BeingFreed, Between
    <2>2. BeingFreed(r)' \in BOOLEAN /\ BeingFreed(r) \in BOOLEAN
      BY DEF BeingFreed
    <2> QED BY <2>1, <2>2
  <1>8. Holders(r)' \subseteq Str \cup Thread /\ Holders(r) \subseteq Str \cup Thread
    BY DEF Holders
  <1> QED BY <1>4, <1>5, <1>6, <1>7, <1>8

LEMMA BetweenKeeps ==
  ASSUME IInv, NEW W, Between(W), Types', EmptyKept', Fits',
         \A r \in AllRep : Same(r) \/ (r \in Rep /\ Holders(r) \subseteq W /\ ~BeingFreed(r)),
         \A r \in Rep : (\E s \in W : str'[s] = r) =>
           Holders(r) = {} \/ \E s \in W : s \in Holders(r),
         \A s \in W : str'[s] # NoRep => rep'[str'[s]].alive,
         ref' \subseteq ref, \A s \in ref' : s \in W => LeakedOf(s)',
         \A r \in Rep : Counted(r)'
  PROVE  IInv'
  <1> USE CowAssumption
  <1>1. /\ pc' = pc /\ call' = call /\ tmp' = tmp /\ ptr' = ptr /\ before' = before
        /\ W \subseteq Str /\ \A v \in Thread : call[v].this \notin W /\ call[v].arg \notin W
        /\ \A s \in Str \ W : str'[s] = str[s]
    BY DEF Between, Claimed, Read
  <1>2. ASSUME NEW v \in Thread, NEW r \in Rep, Holders(r) \subseteq W, ~BeingFreed(r)
        PROVE  /\ call[v].arg # NoStr => str[call[v].arg] # r
               /\ call[v].this # NoStr => str[call[v].this] # r
               /\ tmp[v] # r /\ ptr[v] # r
    <2>1. /\ call[v].arg \notin Holders(r) /\ call[v].this \notin Holders(r)
          /\ v \notin Holders(r)
      BY <1>1, <1>2
    <2>2. ~(pc[v] = "free" /\ str[call[v].this] = r)
      BY <1>2 DEF BeingFreed
    <2> QED BY <2>1, <2>2, Users
  <1>3. ASSUME NEW v \in Thread PROVE Stable(v)
    <2>1. ASSUME NEW r \in AllRep,
                 \/ call[v].this # NoStr /\ str[call[v].this] = r
                 \/ call[v].arg # NoStr /\ str[call[v].arg] = r
                 \/ tmp[v] = r
          PROVE  rep'[r].chars = rep[r].chars /\ rep'[r].capacity = rep[r].capacity
      BY <1>2, <2>1 DEF Same
    <2>2. call[v].this \in Str \cup {NoStr} /\ call[v].arg \in Str \cup {NoStr}
      BY DEF IInv, Types
    <2> QED BY <1>1, <2>1, <2>2 DEF Stable
  <1>4. Calls' /\ Values'
    BY <1>3, StableKeeps DEF Calls, Values
  <1>5. Exclusive'
    BY <1>1 DEF IInv, Exclusive
  <1>6. NoUseAfterFree'
    <2>1. ASSUME NEW v \in Thread
          PROVE  /\ tmp'[v] # NoRep => rep'[tmp'[v]].alive
                 /\ ptr'[v] # NoRep => rep'[ptr'[v]].alive
      <3>1. tmp[v] \in AllRep \cup {NoRep} /\ ptr[v] \in AllRep \cup {NoRep}
        BY DEF IInv, Types
      <3> QED BY <1>1, <1>2, <3>1 DEF Same, IInv, NoUseAfterFree
    <2>2. ASSUME NEW s \in Str \ W, str[s] # NoRep PROVE rep'[str'[s]].alive
      <3>1. str[s] \in AllRep /\ rep[str[s]].alive /\ str'[s] = str[s]
        BY <1>1, <2>2 DEF IInv, Types, NoUseAfterFree
      <3>2. str[s] \in Rep => ~(Holders(str[s]) \subseteq W /\ ~BeingFreed(str[s]))
        BY InHolders DEF BeingFreed
      <3> QED BY <3>1, <3>2 DEF Same
    <2> QED BY <1>1, <2>1, <2>2 DEF NoUseAfterFree
  <1>7. RefCountExact'
    BY DEF RefCountExact, Counted
  <1>8. FreedOnce'
    <2>1. \A v \in Thread : pc[v] = "free" => str'[call[v].this] = str[call[v].this]
      BY <1>1, Begun
    <2> QED BY <1>1, <2>1 DEF IInv, FreedOnce
  <1>9. ASSUME NEW v \in Thread PROVE UnsharedOf(v)'
    <2>1. ASSUME NEW r \in Rep, NEW y \in (Str \cup Thread) \ W, Holders(r) = {y}
          PROVE  Holders(r)' = {y}
      <3>1. \A s \in W : str'[s] # r
        BY <2>1
      <3>2. \A z \in Str \cup Thread : z \in Holders(r)' <=> z = y
        BY <2>1, <3>1, BetweenHolders
      <3>3. Holders(r)' \subseteq Str \cup Thread
        BY BetweenHolders
      <3> QED BY <3>2, <3>3
    <2>2. pc[v] = "fill" => str'[call[v].this] = str[call[v].this] /\ call[v].this \in Str \ W
      BY <1>1, Begun
    <2>3. v \in (Str \cup Thread) \ W
      BY <1>1
    <2>4. UnsharedOf(v)
      BY DEF IInv, Unshared
    <2>5. ASSUME NEW r \in Rep, pc[v] = "fill", str[call[v].this] = r
          PROVE  Holders(r)' = {call[v].this}
      <3>1. Holders(r) = {call[v].this}
        BY <2>4, <2>5 DEF UnsharedOf
      <3> QED BY <2>1, <2>2, <2>5, <3>1
    <2>6. ASSUME NEW r \in Rep, pc[v] \in {"dispose", "free"}, tmp[v] = r,
                 call[v].op \notin {"destroy", "assign"}
          PROVE  Holders(r)' = {v}
      <3>1. Holders(r) = {v}
        BY <2>4, <2>6 DEF UnsharedOf
      <3> QED BY <2>1, <2>3, <3>1
    <2> QED BY <1>1, <2>2, <2>5, <2>6 DEF UnsharedOf
  <1>10. ASSUME NEW v \in Thread PROVE SharingOf(v)'
    <2> SUFFICES ASSUME pc[v] = "refcopy"
                 PROVE  Source(v)' = EmptyRep \/ rep'[Source(v)'].refcount >= 0
      BY <1>1 DEF SharingOf
    <2>1. /\ call[v].arg \in Str /\ call[v].arg # NoStr
          /\ Source(v) \in AllRep /\ Source(v)' = Source(v)
      BY <1>1, ArgumentHeld DEF IInv, Calls, CallOf, At, WithArg, Source
    <2>2. CASE Source(v) = EmptyRep
      BY <2>1, <2>2
    <2>3. CASE Source(v) # EmptyRep
      <3>1. Source(v) \in Rep /\ rep[Source(v)].refcount >= 0
        BY <2>1, <2>3 DEF AllRep, IInv, Sharing, SharingOf
      <3>2. ~(Holders(Source(v)) \subseteq W /\ ~BeingFreed(Source(v)))
        BY <1>2, <2>1, <3>1 DEF Source
      <3> QED BY <2>1, <2>3, <3>1, <3>2 DEF Same
    <2> QED BY <2>2, <2>3
  <1>11. ASSUME NEW s \in ref' PROVE LeakedOf(s)'
    <2> SUFFICES ASSUME s \notin W PROVE LeakedOf(s)'
      OBVIOUS
    <2>1. s \in Str /\ LeakedOf(s) /\ str'[s] = str[s] /\ str[s] \in AllRep
      BY <1>1 DEF IInv, Types, Leaked, LeakedOf
    <2>2. str[s] # EmptyRep => rep'[str[s]].refcount = rep[str[s]].refcount
      <3> SUFFICES ASSUME str[s] \in Rep
                   PROVE  rep'[str[s]].refcount = rep[str[s]].refcount
        BY <2>1 DEF AllRep
      <3>1. s \in Holders(str[s])
        BY <2>1, InHolders DEF LeakedOf
      <3> QED BY <2>1, <3>1 DEF Same, LeakedOf
    <2> QED BY <1>1, <2>1, <2>2 DEF LeakedOf
  <1> QED
    BY <1>4, <1>5, <1>6, <1>7, <1>8, <1>9, <1>10, <1>11
    DEF IInv, Unshared, Sharing, Leaked

LEMMA ConstructKeeps ==
  ASSUME IInv, NEW t \in Thread, NEW s \in Str, construct(t, s) PROVE IInv'
  <1> USE CowAssumption
  <1>1. /\ str[s] = NoRep /\ ~Claimed(s) /\ s \notin ref
        /\ ref' = ref /\ pc' = pc /\ call' = call /\ tmp' = tmp /\ ptr' = ptr
        /\ before' = before
    BY DEF construct, IInv, Leaked, LeakedOf
  <1>2. ~Read(s)
    BY <1>1 DEF Read, IInv, Calls, CallOf
  <1>3. PICK r1 \in AllRep :
          /\ str' = [str EXCEPT ![s] = r1]
          /\ \/ r1 = EmptyRep /\ rep' = rep
             \/ /\ r1 \in Rep /\ ~rep[r1].alive
                /\ \E c \in Char : \E new \in Created(<<c>>, 1) :
                     rep' = [rep EXCEPT ![r1] = new]
    BY DEF construct, AllRep
  <1>4. str'[s] = r1 /\ \A y \in Str \ {s} : str'[y] = str[y]
    BY <1>3 DEF IInv, Types
  <1>5. Between({s})
    BY <1>1, <1>2, <1>4 DEF Between
  <1>6. /\ rep' \in [AllRep -> [alive : BOOLEAN, refcount : Int, capacity : Nat,
                                chars : Seq(Char)]]
        /\ EmptyKept' /\ Fits' /\ rep'[r1].alive
        /\ \A r \in AllRep \ {r1} : rep'[r] = rep[r]
        /\ r1 # EmptyRep => /\ r1 \in Rep /\ Holders(r1) = {} /\ ~BeingFreed(r1)
                            /\ rep'[r1].refcount = 0
        /\ r1 = EmptyRep => rep' = rep
    <2>1. CASE r1 = EmptyRep /\ rep' = rep
      BY <2>1 DEF IInv, Types, EmptyKept, Fits
    <2>2. CASE /\ r1 \in Rep /\ ~rep[r1].alive
               /\ \E c \in Char : \E new \in Created(<<c>>, 1) :
                    rep' = [rep EXCEPT ![r1] = new]
      <3>a. PICK v \in Seq(Char), n \in Nat :
              /\ Len(v) <= n
              /\ \E new \in Created(v, n) : rep' = [rep EXCEPT ![r1] = new]
        <4>1. PICK c \in Char : \E new \in Created(<<c>>, 1) :
                                  rep' = [rep EXCEPT ![r1] = new]
          BY <2>2
        <4>2. <<c>> \in Seq(Char) /\ Len(<<c>>) <= 1 /\ 1 \in Nat
          OBVIOUS
        <4> QED BY <4>1, <4>2
      <3>1. PICK new \in Created(v, n) : rep' = [rep EXCEPT ![r1] = new]
        BY <3>a
      <3>2. rep' \in [AllRep -> [alive : BOOLEAN, refcount : Int, capacity : Nat,
                                 chars : Seq(Char)]]
        BY <2>2, <3>a, <3>1, CreatedRep
      <3>3. EmptyKept' /\ Fits' /\ \A r \in AllRep \ {r1} : rep'[r] = rep[r]
        BY <2>2, <3>a, <3>1, CreatedRep
      <3>4. /\ rep'[r1].alive /\ rep'[r1].refcount = 0
            /\ Holders(r1) = {} /\ ~BeingFreed(r1) /\ r1 # EmptyRep
        BY ZenonT(30), <2>2, <3>a, <3>1, CreatedRep
      <3> QED BY <2>2, <3>2, <3>3, <3>4
    <2> QED BY <1>3, <2>1, <2>2
  <1>7. Types'
    <2>1. str' \in [Str -> AllRep \cup {NoRep}]
      BY <1>3 DEF IInv, Types
    <2> QED BY <1>1, <1>6, <2>1 DEF IInv, Types
  <1>8. \A r \in AllRep : Same(r) \/ (r \in Rep /\ Holders(r) \subseteq {s} /\ ~BeingFreed(r))
    BY <1>6 DEF Same
  <1>9. ASSUME NEW r \in Rep PROVE Counted(r)'
    <2>1. /\ \A y \in (Str \cup Thread) \ {s} : y \in Holders(r)' <=> y \in Holders(r)
          /\ s \in Holders(r)' <=> r1 = r
          /\ s \notin Holders(r)
          /\ BeingFreed(r)' = BeingFreed(r)
          /\ Holders(r)' \subseteq Str \cup Thread
          /\ Holders(r) \subseteq Str \cup Thread
      BY <1>1, <1>4, <1>5, BetweenHolders
    <2>2. CASE r1 # r
      <3>1. \A y \in Str \cup Thread : y \in Holders(r)' <=> y \in Holders(r)
        BY <2>1, <2>2
      <3>2. Holders(r)' = Holders(r)
        BY <2>1, <3>1
      <3>3. rep'[r] = rep[r]
        BY <1>6, <2>2 DEF AllRep
      <3> QED BY <2>1, <3>2, <3>3, CountKept
    <2>3. CASE r1 = r
      <3>1. Holders(r) = {} /\ ~BeingFreed(r) /\ rep'[r].refcount = 0
        BY <1>6, <2>3
      <3>2. \A y \in Str \cup Thread : y \in Holders(r)' <=> y = s
        BY <2>1, <2>3, <3>1
      <3>3. Holders(r)' = {s}
        BY <2>1, <3>2
      <3>4. Cardinality(Holders(r)') = 1
        BY <3>3, FS_Singleton
      <3> QED BY <2>1, <3>1, <3>4 DEF Counted
    <2> QED BY <2>2, <2>3
  <1>10. \A r \in Rep : (\E y \in {s} : str'[y] = r) =>
           Holders(r) = {} \/ \E y \in {s} : y \in Holders(r)
    BY <1>4, <1>6
  <1>11. \A y \in {s} : str'[y] # NoRep => rep'[str'[y]].alive
    BY <1>4, <1>6
  <1>12. ref' \subseteq ref /\ \A y \in ref' : y \in {s} => LeakedOf(y)'
    BY <1>1
  <1> QED
    BY <1>5, <1>6, <1>7, <1>8, <1>9, <1>10, <1>11, <1>12, BetweenKeeps

\* A string with references into it, and no call for it, is alone.
LEMMA LeakedHeld ==
  ASSUME IInv, NEW s \in ref, ~Claimed(s)
  PROVE  /\ str[s] \in AllRep /\ s \in Holders(str[s])
         /\ str[s] # EmptyRep => /\ str[s] \in Rep /\ Holders(str[s]) = {s}
                                 /\ rep[str[s]].refcount = -1
                                 /\ rep[str[s]].alive /\ ~BeingFreed(str[s])
  <1> USE CowAssumption
  <1>1. s \in Str /\ str[s] \in AllRep /\ LeakedOf(s)
    BY DEF IInv, Types, Leaked, LeakedOf
  <1>2. s \in Holders(str[s])
    BY <1>1, InHolders DEF Claimed
  <1>3. ASSUME str[s] # EmptyRep
        PROVE  /\ str[s] \in Rep /\ Holders(str[s]) = {s} /\ rep[str[s]].refcount = -1
               /\ rep[str[s]].alive /\ ~BeingFreed(str[s])
    <2>1. str[s] \in Rep /\ rep[str[s]].refcount = -1
      BY <1>1, <1>3 DEF AllRep, LeakedOf
    <2>2. rep[str[s]].refcount <= 0
      BY <2>1
    <2> QED BY <1>2, <2>1, <2>2, Held
  <1> QED BY <1>1, <1>2, <1>3

LEMMA PutKeeps ==
  ASSUME IInv, NEW t \in Thread, NEW s \in Str, NEW c \in Char, put(t, s, c)
  PROVE  IInv'
  <1> USE CowAssumption
  <1>1. /\ s \in ref /\ ~Claimed(s) /\ ~Read(s) /\ rep[str[s]].chars # <<>>
        /\ str' = str /\ ref' = ref /\ pc' = pc /\ call' = call /\ tmp' = tmp
        /\ ptr' = ptr /\ before' = before
    BY DEF put
  <1>2. PICK r1 \in Rep : /\ r1 = str[s] /\ Holders(r1) = {s} /\ rep[r1].refcount = -1
                          /\ rep[r1].alive /\ ~BeingFreed(r1)
    BY <1>1, LeakedHeld DEF IInv, EmptyKept
  <1>3. Between({s})
    BY <1>1 DEF Between
  <1>4. /\ rep[r1] \in [alive : BOOLEAN, refcount : Int, capacity : Nat, chars : Seq(Char)]
        /\ rep[r1].chars # <<>> /\ r1 \in AllRep /\ r1 # EmptyRep
    BY <1>1, <1>2 DEF IInv, Types, AllRep
  <1> DEFINE v == [rep[r1].chars EXCEPT ![1] = c]
             new == [rep[r1] EXCEPT !.chars = v]
  <1>5. v \in Seq(Char) /\ Len(v) = Len(rep[r1].chars)
    BY <1>4
  <1>6. rep' = [rep EXCEPT ![r1] = new]
    <2>1. rep' = [rep EXCEPT ![r1].chars[1] = c]
      BY <1>2 DEF put
    <2> QED BY <2>1 DEF IInv, Types
  <1>7. /\ new \in [alive : BOOLEAN, refcount : Int, capacity : Nat, chars : Seq(Char)]
        /\ new.alive = rep[r1].alive /\ new.refcount = rep[r1].refcount
        /\ new.capacity = rep[r1].capacity /\ new.chars = v
    <2> HIDE DEF v
    <2> QED BY <1>4, <1>5
  <1> HIDE DEF v, new
  <1>8. rep'[r1] = new /\ \A r \in AllRep \ {r1} : rep'[r] = rep[r]
    BY <1>4, <1>6 DEF IInv, Types
  <1>9. Types'
    BY <1>1, <1>6, <1>7 DEF IInv, Types
  <1>10. EmptyKept'
    BY <1>4, <1>8 DEF EmptyKept, IInv, AllRep
  <1>11. Fits'
    BY <1>4, <1>5, <1>7, <1>8 DEF Fits, IInv
  <1>12. \A r \in AllRep : Same(r) \/ (r \in Rep /\ Holders(r) \subseteq {s} /\ ~BeingFreed(r))
    BY <1>2, <1>8 DEF Same
  <1>13. ASSUME NEW r \in Rep PROVE Counted(r)'
    <2>1. Holders(r)' = Holders(r) /\ BeingFreed(r)' = BeingFreed(r)
      BY <1>1, HoldersKept
    <2>2. rep'[r].alive = rep[r].alive /\ rep'[r].refcount = rep[r].refcount
      BY <1>7, <1>8 DEF AllRep
    <2> QED BY <2>1, <2>2, CountKept
  <1>14. \A r \in Rep : (\E y \in {s} : str'[y] = r) =>
           Holders(r) = {} \/ \E y \in {s} : y \in Holders(r)
    BY <1>1, <1>2
  <1>15. \A y \in {s} : str'[y] # NoRep => rep'[str'[y]].alive
    BY <1>1, <1>2, <1>7, <1>8
  <1>16. ref' \subseteq ref /\ \A y \in ref' : y \in {s} => LeakedOf(y)'
    <2>1. \A x \in Thread : call[x].this # s
      BY <1>1 DEF Claimed
    <2>2. LeakedOf(s)'
      BY <1>1, <1>2, <1>4, <1>7, <1>8, <2>1 DEF LeakedOf, AllRep
    <2> QED BY <1>1, <2>2
  <1> QED
    BY <1>3, <1>9, <1>10, <1>11, <1>12, <1>13, <1>14, <1>15, <1>16, BetweenKeeps

LEMMA SwapKeeps ==
  ASSUME IInv, NEW t \in Thread, NEW s \in Str, NEW u \in Str, swap(t, s, u)
  PROVE  IInv'
  <1> USE CowAssumption
  <1> DEFINE a == str[s]
             b == str[u]
  <1>1. /\ a \in AllRep /\ b \in AllRep /\ s # u
        /\ ~Claimed(s) /\ ~Claimed(u) /\ ~Read(s) /\ ~Read(u)
        /\ str' = [str EXCEPT ![s] = b, ![u] = a]
        /\ rep' = [rep EXCEPT ![a] = Sharable(@), ![b] = Sharable(@)]
        /\ ref' = ref \ {s, u} /\ pc' = pc /\ call' = call /\ tmp' = tmp
        /\ ptr' = ptr /\ before' = before
    BY DEF swap, IInv, Types
  <1>2. str'[s] = b /\ str'[u] = a /\ \A y \in Str \ {s, u} : str'[y] = str[y]
    BY <1>1 DEF IInv, Types
  <1>3. Between({s, u})
    BY <1>1, <1>2 DEF Between
  <1>4. ASSUME NEW r \in AllRep
        PROVE  /\ Sharable(rep[r]) \in [alive : BOOLEAN, refcount : Int, capacity : Nat,
                                        chars : Seq(Char)]
               /\ Sharable(rep[r]).alive = rep[r].alive
               /\ Sharable(rep[r]).chars = rep[r].chars
               /\ Sharable(rep[r]).capacity = rep[r].capacity
               /\ Sharable(rep[r]).refcount =
                    IF rep[r].refcount < 0 THEN 0 ELSE rep[r].refcount
               /\ Sharable(Sharable(rep[r])) = Sharable(rep[r])
               /\ rep[r].refcount \in Int
    <2>1. rep[r] \in [alive : BOOLEAN, refcount : Int, capacity : Nat, chars : Seq(Char)]
      BY DEF IInv, Types
    <2> QED BY <2>1 DEF Sharable
  <1>5. \A r \in AllRep : rep'[r] = IF r \in {a, b} THEN Sharable(rep[r]) ELSE rep[r]
    BY <1>1, <1>4 DEF IInv, Types
  <1>6. Types'
    <2>1. rep' \in [AllRep -> [alive : BOOLEAN, refcount : Int, capacity : Nat,
                               chars : Seq(Char)]]
      <3>1. rep \in [AllRep -> [alive : BOOLEAN, refcount : Int, capacity : Nat,
                                chars : Seq(Char)]]
        BY DEF IInv, Types
      <3>2. rep' = [r \in AllRep |-> rep'[r]]
        BY <1>1, <3>1
      <3>3. \A r \in AllRep : rep'[r] \in [alive : BOOLEAN, refcount : Int,
                                           capacity : Nat, chars : Seq(Char)]
        BY <1>4, <1>5, <3>1
      <3> QED BY <3>2, <3>3
    <2>2. str' \in [Str -> AllRep \cup {NoRep}]
      BY <1>1 DEF IInv, Types
    <2> QED BY <1>1, <2>1, <2>2 DEF IInv, Types
  <1>7. \A r \in AllRep : /\ rep'[r].alive = rep[r].alive
                          /\ rep'[r].chars = rep[r].chars
                          /\ rep'[r].capacity = rep[r].capacity
                          /\ rep'[r].refcount = IF r \in {a, b} /\ rep[r].refcount < 0
                                                THEN 0 ELSE rep[r].refcount
    BY <1>4, <1>5
  <1>8. EmptyKept' /\ Fits'
    <2>1. EmptyKept'
      BY <1>7 DEF EmptyKept, IInv, AllRep
    <2>2. Fits'
      BY <1>7 DEF Fits, IInv
    <2> QED BY <2>1, <2>2
  <1>9. s \in Holders(a) /\ u \in Holders(b) /\ rep[a].alive /\ rep[b].alive
    BY <1>1, InHolders DEF Claimed, IInv, NoUseAfterFree, AllRep
  <1> HIDE DEF a, b
  <1>10. ASSUME NEW r \in Rep, r \in {a, b}
         PROVE  /\ ~BeingFreed(r)
                /\ rep[r].refcount < 0 => Holders(r) \subseteq {s, u}
    <2>1. PICK y \in {s, u} : y \in Holders(r)
      BY <1>9, <1>10
    <2>2. ~BeingFreed(r) /\ (rep[r].refcount <= 0 => Holders(r) = {y})
      BY <2>1, Held
    <2>3. rep[r].refcount \in Int
      BY <1>4 DEF AllRep
    <2> QED BY <2>1, <2>2, <2>3
  <1>11. \A r \in AllRep :
           Same(r) \/ (r \in Rep /\ Holders(r) \subseteq {s, u} /\ ~BeingFreed(r))
    <2> SUFFICES ASSUME NEW r \in AllRep, r # EmptyRep,
                        ~(Holders(r) \subseteq {s, u} /\ ~BeingFreed(r))
                 PROVE  Same(r)
      BY <1>7 DEF AllRep, Same
    <2>1. ~(r \in {a, b} /\ rep[r].refcount < 0)
      BY <1>10 DEF AllRep
    <2> QED BY <1>7, <2>1 DEF Same
  <1>12. ASSUME NEW r \in Rep PROVE Counted(r)'
    <2>1. /\ \A y \in (Str \cup Thread) \ {s, u} : y \in Holders(r)' <=> y \in Holders(r)
          /\ s \in Holders(r)' <=> b = r
          /\ s \in Holders(r) <=> a = r
          /\ u \in Holders(r)' <=> a = r
          /\ u \in Holders(r) <=> b = r
          /\ BeingFreed(r)' = BeingFreed(r)
          /\ Holders(r)' \subseteq Str \cup Thread
          /\ Holders(r) \subseteq Str \cup Thread
      BY <1>2, <1>3, BetweenHolders DEF a, b
    <2>2. /\ IsFiniteSet(Holders(r)) /\ Cardinality(Holders(r)) \in Nat
      BY HoldersFinite
    <2>3. ASSUME NEW x \in {s, u}, NEW y \in {s, u}, x # y,
                 x \in Holders(r), y \notin Holders(r)
          PROVE  Cardinality(Holders(r)') = Cardinality(Holders(r))
      <3>1. x \notin Holders(r)' /\ y \in Holders(r)'
        BY <1>1, <2>1, <2>3
      <3>2. \A z \in Str \cup Thread :
              z \in Holders(r)' <=> z \in (Holders(r) \ {x}) \cup {y}
        BY <2>1, <2>3, <3>1
      <3>3. Holders(r)' = (Holders(r) \ {x}) \cup {y}
        BY <2>1, <2>3, <3>2
      <3>4. /\ IsFiniteSet(Holders(r) \ {x}) /\ y \notin Holders(r) \ {x}
            /\ Cardinality(Holders(r) \ {x}) = Cardinality(Holders(r)) - 1
        BY <2>2, <2>3, FS_RemoveElement
      <3>5. Cardinality((Holders(r) \ {x}) \cup {y}) = Cardinality(Holders(r) \ {x}) + 1
        BY <3>4, FS_AddElement
      <3> QED BY <2>2, <3>3, <3>4, <3>5
    <2>4. Cardinality(Holders(r)') = Cardinality(Holders(r))
      <3>1. CASE s \in Holders(r) <=> u \in Holders(r)
        <4>1. \A z \in Str \cup Thread : z \in Holders(r)' <=> z \in Holders(r)
          BY <2>1, <3>1
        <4>2. Holders(r)' = Holders(r)
          BY <2>1, <4>1
        <4> QED BY <4>2
      <3> QED BY <1>1, <2>3, <3>1
    <2>5. Counted(r)
      BY DEF IInv, RefCountExact, Counted
    <2>6. r \in AllRep /\ rep[r].refcount \in Int
      BY <1>4 DEF AllRep
    <2>7. rep'[r].refcount = rep[r].refcount \/ (rep[r].refcount < 0 /\ rep'[r].refcount = 0)
      BY <1>7, <2>6
    <2>8. rep'[r].alive = rep[r].alive
      BY <1>7, <2>6
    <2> QED BY <2>1, <2>2, <2>4, <2>5, <2>6, <2>7, <2>8 DEF Counted
  <1>13. \A r \in Rep : (\E y \in {s, u} : str'[y] = r) =>
           Holders(r) = {} \/ \E y \in {s, u} : y \in Holders(r)
    BY <1>2, <1>9
  <1>14. \A y \in {s, u} : str'[y] # NoRep => rep'[str'[y]].alive
    <2>1. a \in AllRep /\ b \in AllRep
      BY <1>1
    <2>2. rep'[a].alive /\ rep'[b].alive
      BY <1>7, <1>9, <2>1
    <2>3. str'[s] = b /\ str'[u] = a
      BY <1>2
    <2> QED BY <2>2, <2>3
  <1>15. ref' \subseteq ref /\ \A y \in ref' : y \in {s, u} => LeakedOf(y)'
    BY <1>1
  <1> QED
    BY <1>3, <1>6, <1>8, <1>11, <1>12, <1>13, <1>14, <1>15, BetweenKeeps

-----------------------------------------------------------------------------
\* The invariant.

LEMMA BeginKeeps ==
  ASSUME IInv, ~Aliasing, NEW t \in Thread, Begin(t) PROVE IInv'
  <1> USE CowAssumption
  <1> DEFINE Operations == {"copy", "destroy", "assign", "reserve", "append",
                            "push_back", "clear", "erase", "leak"}
  <1>1. Operations = Op \ {"none"}
    BY DEF Op, Replacing, Refilled
  <1>2. PICK s \in Str :
          \/ construct(t, s) \/ destroy(t, s) \/ reserve(t, s) \/ clear(t, s)
          \/ erase(t, s) \/ leak(t, s)
          \/ \E c \in Char : push_back(t, s, c) \/ put(t, s, c)
          \/ \E u \in Str :
               copy(t, s, u) \/ assign(t, s, u) \/ append(t, s, u) \/ swap(t, s, u)
    BY DEF Begin
  <1>3. NoStr \in Str \cup {NoStr} /\ None \in Char \cup {None}
    OBVIOUS
  <1>4. CASE construct(t, s)
    BY <1>4, ConstructKeeps
  <1>5. CASE destroy(t, s)
    <2>1. /\ Call(t, "destroy", s, NoStr, None, "dispose") /\ str[s] # NoRep
          /\ ref' = ref \ {s} /\ ptr' = ptr
      BY <1>5 DEF destroy
    <2>2. At("dispose", "destroy") /\ "destroy" \notin WithArg /\ "destroy" \in Op \ {"none"}
      BY <1>1 DEF At, WithArg, Replacing, Refilled
    <2> QED BY <1>3, <2>1, <2>2, CallKeeps
  <1>6. CASE reserve(t, s)
    <2>1. /\ Call(t, "reserve", s, NoStr, None, "reserve") /\ str[s] # NoRep
          /\ ref' = ref \ {s} /\ ptr' = ptr
      BY <1>6 DEF reserve
    <2>2. At("reserve", "reserve") /\ "reserve" \notin WithArg /\ "reserve" \in Op \ {"none"}
      BY <1>1 DEF At, WithArg, Replacing, Refilled
    <2> QED BY <1>3, <2>1, <2>2, CallKeeps
  <1>7. CASE clear(t, s)
    <2>1. /\ Call(t, "clear", s, NoStr, None, "mutate") /\ str[s] # NoRep
          /\ ref' = ref \ {s} /\ ptr' = ptr
      BY <1>7 DEF clear
    <2>2. At("mutate", "clear") /\ "clear" \notin WithArg /\ "clear" \in Op \ {"none"}
      BY <1>1 DEF At, WithArg, Replacing, Refilled
    <2> QED BY <1>3, <2>1, <2>2, CallKeeps
  <1>8. CASE erase(t, s)
    <2>1. /\ Call(t, "erase", s, NoStr, None, "mutate") /\ str[s] # NoRep
          /\ ref' = ref /\ ptr' = ptr
      BY <1>8 DEF erase, IInv, Leaked, LeakedOf
    <2>2. At("mutate", "erase") /\ "erase" \notin WithArg /\ "erase" \in Op \ {"none"}
      BY <1>1 DEF At, WithArg, Replacing, Refilled
    <2> QED BY <1>3, <2>1, <2>2, CallKeeps
  <1>9. CASE leak(t, s)
    <2>1. /\ Call(t, "leak", s, NoStr, None, "leak") /\ str[s] # NoRep
          /\ ref' = ref /\ ptr' = ptr
      BY <1>9 DEF leak
    <2>2. At("leak", "leak") /\ "leak" \notin WithArg /\ "leak" \in Op \ {"none"}
      BY <1>1 DEF At, WithArg, Replacing, Refilled
    <2> QED BY <1>3, <2>1, <2>2, CallKeeps
  <1>10. ASSUME NEW c \in Char, push_back(t, s, c) PROVE IInv'
    <2>1. /\ Call(t, "push_back", s, NoStr, c, "mutate") /\ str[s] # NoRep
          /\ ref' = ref \ {s} /\ ptr' = ptr
      BY <1>10 DEF push_back
    <2>2. /\ At("mutate", "push_back") /\ "push_back" \notin WithArg
          /\ "push_back" \in Op \ {"none"} /\ c \in Char \cup {None}
      BY <1>1 DEF At, WithArg, Replacing, Refilled
    <2> QED BY <1>3, <2>1, <2>2, CallKeeps
  <1>11. ASSUME NEW c \in Char, put(t, s, c) PROVE IInv'
    BY <1>11, PutKeeps
  <1>12. ASSUME NEW u \in Str, copy(t, s, u) PROVE IInv'
    <2>1. /\ Call(t, "copy", s, u, None, "grab") /\ str[s] = NoRep
          /\ ref' = ref /\ ptr' = ptr
      BY <1>12 DEF copy
    <2>2. u \in Str \ {s} /\ s \notin ref
      BY <2>1 DEF Call, IInv, Leaked, LeakedOf
    <2>3. /\ At("grab", "copy") /\ "copy" \in WithArg /\ "copy" \in Op \ {"none"}
          /\ u \in Str \cup {NoStr}
      BY <1>1 DEF At, WithArg, Replacing, Refilled
    <2> QED BY <1>3, <2>1, <2>2, <2>3, CallKeeps
  <1>13. ASSUME NEW u \in Str, assign(t, s, u) PROVE IInv'
    <2>1. /\ Call(t, "assign", s, u, None, "grab") /\ str[s] # NoRep /\ u \in Str \ {s}
          /\ ref' = ref \ {s} /\ ptr' = ptr
      BY <1>13 DEF assign
    <2>2. /\ At("grab", "assign") /\ "assign" \in WithArg /\ "assign" \in Op \ {"none"}
          /\ u \in Str \cup {NoStr}
      BY <1>1 DEF At, WithArg, Replacing, Refilled
    <2> QED BY <1>3, <2>1, <2>2, CallKeeps
  <1>14. ASSUME NEW u \in Str, append(t, s, u) PROVE IInv'
    <2>1. /\ str[s] # NoRep /\ u \in Str \ {s} /\ ref' = ref \ {s}
          /\ \/ Call(t, "append", s, u, None, "clone") /\ ptr' = ptr
             \/ /\ Call(t, "append", s, u, None, "mutate")
                /\ ptr' = [ptr EXCEPT ![t] = str[u]]
      BY <1>14 DEF append
    <2>2. /\ At("clone", "append") /\ At("mutate", "append")
          /\ "append" \in WithArg /\ "append" \in Op \ {"none"}
          /\ u \in Str \cup {NoStr}
      BY <1>1 DEF At, WithArg, Replacing, Refilled
    <2>3. CASE Call(t, "append", s, u, None, "clone") /\ ptr' = ptr
      BY <1>3, <2>1, <2>2, <2>3, CallKeeps
    <2>4. CASE /\ Call(t, "append", s, u, None, "mutate")
               /\ ptr' = [ptr EXCEPT ![t] = str[u]]
      BY <1>3, <2>1, <2>2, <2>4, CallKeeps
    <2> QED BY <2>1, <2>3, <2>4
  <1>15. ASSUME NEW u \in Str, swap(t, s, u) PROVE IInv'
    BY <1>15, SwapKeeps
  <1> QED
    BY <1>2, <1>4, <1>5, <1>6, <1>7, <1>8, <1>9, <1>10, <1>11, <1>12, <1>13, <1>14, <1>15

LEMMA ContinueKeeps ==
  ASSUME IInv, NEW t \in Thread, Continue(t) PROVE IInv'
  BY GrabKeeps, RefcopyKeeps, ReserveKeeps, CloneKeeps, DisposeKeeps, FreeKeeps,
     MutateKeeps, BadAllocKeeps, FillKeeps, LeakKeeps
  DEF Continue

LEMMA StutterKeeps ==
  ASSUME IInv, UNCHANGED vars PROVE IInv'
  <1> USE CowAssumption
  <1>1. /\ str' = str /\ rep' = rep /\ ref' = ref /\ pc' = pc /\ call' = call
        /\ tmp' = tmp /\ ptr' = ptr /\ before' = before
    BY DEF vars
  <1>2. Between({})
    BY <1>1 DEF Between
  <1>3. Types' /\ EmptyKept' /\ Fits'
    BY <1>1 DEF IInv, Types, EmptyKept, Fits
  <1>4. \A r \in AllRep : Same(r)
    BY <1>1 DEF Same
  <1>5. \A r \in Rep : Counted(r)'
    <2>1. \A r : Holders(r)' = Holders(r) /\ BeingFreed(r)' = BeingFreed(r)
      BY <1>1, HoldersKept
    <2> QED BY <1>1, <2>1, CountKept
  <1>6. ref' \subseteq ref
    BY <1>1
  <1> QED BY <1>2, <1>3, <1>4, <1>5, <1>6, BetweenKeeps

LEMMA InitIInv ==
  ASSUME Init PROVE IInv
  <1> USE CowAssumption DEF Init
  <1>1. Types
    <2>1. Dead \in [alive : BOOLEAN, refcount : Int, capacity : Nat, chars : Seq(Char)]
      BY DEF Dead
    <2>2. Empty \in [alive : BOOLEAN, refcount : Int, capacity : Nat, chars : Seq(Char)]
      BY DEF Empty
    <2>3. NoCall \in [op : Op, this : Str \cup {NoStr}, arg : Str \cup {NoStr},
                      char : Char \cup {None}]
      BY DEF NoCall, Op
    <2> QED BY <2>1, <2>2, <2>3 DEF Types, Pc
  <1>2. \A t \in Thread : CallOf(t) /\ ValueOf(t) /\ UnsharedOf(t) /\ SharingOf(t)
    BY DEF NoCall, CallOf, ValueOf, UnsharedOf, SharingOf, At, WithArg, Refilled,
           Replacing, AllRep
  <1>3. Exclusive /\ FreedOnce /\ NoUseAfterFree /\ Leaked
    BY DEF Exclusive, FreedOnce, NoUseAfterFree, Leaked, NoCall
  <1>4. EmptyKept /\ Fits
    BY DEF EmptyKept, Fits, AllRep, Empty, Dead
  <1>5. RefCountExact
    BY DEF RefCountExact, AllRep, Dead
  <1> QED
    BY <1>1, <1>2, <1>3, <1>4, <1>5 DEF IInv, Calls, Values, Unshared, Sharing

\* The invariant that the theorems rest on.
THEOREM Invariant ==
  ASSUME ~Aliasing PROVE Spec => []IInv
  <1>1. Init => IInv
    BY InitIInv
  <1>2. IInv /\ [Next]_vars => IInv'
    BY BeginKeeps, ContinueKeeps, StutterKeeps DEF Next
  <1> QED BY <1>1, <1>2, PTL DEF Spec

\* Every variable keeps its type.
THEOREM TypeCorrect ==
  ASSUME ~Aliasing PROVE Spec => []TypeOK
  <1>1. IInv => TypeOK
    <2> SUFFICES ASSUME IInv PROVE TypeOK
      OBVIOUS
    <2>1. \A r \in AllRep : rep[r] \in [alive : BOOLEAN, refcount : Int,
                                        capacity : 0 .. MaxLen, chars : Seq(Char)]
      BY CowAssumption DEF IInv, Types, Fits
    <2>2. rep = [r \in AllRep |-> rep[r]]
      BY DEF IInv, Types
    <2>3. rep \in [AllRep -> [alive : BOOLEAN, refcount : Int,
                              capacity : 0 .. MaxLen, chars : Seq(Char)]]
      BY <2>1, <2>2
    <2>4. \A t \in Thread : pc[t] = "idle" <=> call[t] = NoCall
      BY DEF IInv, Calls, CallOf, At, NoCall
    <2> QED BY <2>3, <2>4 DEF IInv, Types, Fits, TypeOK, Pc
  <1> QED BY <1>1, Invariant, PTL

\* _M_refcount counts the strings and the calls that have a representation,
\* exactly, between any two steps of any threads.
THEOREM CountsExact ==
  ASSUME ~Aliasing PROVE Spec => []RefCountExact
  <1>1. IInv => RefCountExact
    BY DEF IInv
  <1> QED BY <1>1, Invariant, PTL

\* No string, no call under way uses a representation that has been freed.
THEOREM FreedUnused ==
  ASSUME ~Aliasing PROVE Spec => []NoUseAfterFree
  <1>1. IInv => NoUseAfterFree
    BY DEF IInv
  <1> QED BY <1>1, Invariant, PTL

\* What the program can write through a reference is one string's.
THEOREM ReferencesAlone ==
  ASSUME ~Aliasing PROVE Spec => []LeakedAlone
  <1>1. IInv => LeakedAlone
    <2> SUFFICES ASSUME IInv, NEW s \in ref, NEW u \in Str, ~Claimed(s), u # s,
                        str[u] = str[s], str[s] # EmptyRep
                 PROVE  FALSE
      BY DEF LeakedAlone
    <2>1. str[s] \in Rep /\ Holders(str[s]) = {s} /\ ~BeingFreed(str[s])
      BY LeakedHeld
    <2>2. u \notin Holders(str[u])
      BY <2>1
    <2>3. PICK w \in Thread : call[w].this = u /\ pc[w] = "free"
      BY <2>2, InHolders
    <2> QED BY <2>1, <2>3 DEF BeingFreed
  <1> QED BY <1>1, Invariant, PTL

-----------------------------------------------------------------------------
\* The refinement: the strings are values of their own.

\* What a step of t may touch.
Frame(t) ==
  /\ Step(t)
  /\ call'[t] = call[t] => before'[call[t].this] = before[call[t].this]
  /\ \A r \in AllRep : rep'[r].chars = rep[r].chars \/ (r \in Rep /\ Private(t, r))

LEMMA ReturnFrame ==
  ASSUME IInv, NEW t \in Thread, pc[t] # "idle", Return(t),
         \A v \in Thread \ {t} : tmp'[v] = tmp[v] /\ ptr'[v] = ptr[v],
         \A y \in Str \ {call[t].this} : str'[y] = str[y]
  PROVE  Step(t) /\ call'[t] = NoCall /\ call'[t] # call[t]
  <1>1. /\ pc'[t] = "idle" /\ call'[t] = NoCall
        /\ \A v \in Thread \ {t} : pc'[v] = pc[v] /\ call'[v] = call[v]
        /\ \A y \in Str \ {call[t].this} : before'[y] = before[y]
    BY Begun DEF Return, IInv, Types
  <1>2. call'[t] # call[t]
    BY <1>1, Begun DEF NoCall
  <1> QED BY <1>1, <1>2 DEF Step

LEMMA GoneFrame ==
  ASSUME IInv, NEW t \in Thread, pc[t] # "idle", call' = call, before' = before,
         \A v \in Thread \ {t} : pc'[v] = pc[v] /\ tmp'[v] = tmp[v] /\ ptr'[v] = ptr[v],
         \A y \in Str \ {call[t].this} : str'[y] = str[y]
  PROVE  Step(t) /\ call'[t] = call[t] /\ before'[call[t].this] = before[call[t].this]
  BY DEF Step

LEMMA ObtainedFrame ==
  ASSUME IInv, NEW t \in Thread, pc[t] # "idle", NEW r, Obtained(t, r), ptr' = ptr
  PROVE  /\ Step(t) /\ (call'[t] = call[t] => before'[call[t].this] = before[call[t].this])
         /\ call[t].op = "copy" => Return(t) /\ call'[t] = NoCall /\ str'[call[t].this] = r
         /\ call[t].op # "copy" => call' = call /\ before' = before
  <1>1. call[t].this \in Str
    BY Begun
  <1>2. CASE call[t].op = "copy"
    <2>1. /\ str'[call[t].this] = r /\ tmp' = tmp /\ Return(t)
          /\ \A y \in Str \ {call[t].this} : str'[y] = str[y]
      BY <1>1, <1>2 DEF Obtained, IInv, Types
    <2> QED BY <1>2, <2>1, ReturnFrame
  <1>3. CASE call[t].op # "copy"
    <2>1. /\ \A v \in Thread \ {t} : pc'[v] = pc[v] /\ tmp'[v] = tmp[v]
          /\ str' = str /\ call' = call /\ before' = before
      BY <1>3 DEF Obtained, IInv, Types
    <2> QED BY <1>3, <2>1, GoneFrame
  <1> QED BY <1>2, <1>3

LEMMA AttachFrame ==
  ASSUME IInv, NEW t \in Thread, pc[t] # "idle", Attach(t)
  PROVE  /\ Step(t) /\ (call'[t] = call[t] => before'[call[t].this] = before[call[t].this])
         /\ str'[call[t].this] = tmp[t]
         /\ call[t].op \in {"destroy", "assign", "reserve"} => Return(t) /\ call'[t] = NoCall
         /\ call[t].op \notin {"destroy", "assign", "reserve"} =>
              call' = call /\ before' = before
  <1>1. call[t].this \in Str
    BY Begun
  <1>2. /\ str'[call[t].this] = tmp[t]
        /\ \A y \in Str \ {call[t].this} : str'[y] = str[y]
        /\ \A v \in Thread \ {t} : tmp'[v] = tmp[v]
    BY <1>1 DEF Attach, IInv, Types
  <1>3. CASE call[t].op \in {"destroy", "assign", "reserve"}
    <2>1. Return(t) /\ ptr' = ptr
      BY <1>3 DEF Attach
    <2> QED BY <1>2, <1>3, <2>1, ReturnFrame
  <1>4. CASE call[t].op \notin {"destroy", "assign", "reserve"}
    <2>1. /\ call' = call /\ before' = before
          /\ \A v \in Thread \ {t} : pc'[v] = pc[v] /\ ptr'[v] = ptr[v]
      BY <1>4 DEF Attach, IInv, Types
    <2> QED BY <1>2, <1>4, <2>1, GoneFrame
  <1> QED BY <1>3, <1>4

LEMMA CharsRefcount ==
  ASSUME IInv, NEW r0 \in AllRep, NEW n,
         rep' = rep \/ rep' = [rep EXCEPT ![r0].refcount = n]
  PROVE  \A r \in AllRep : rep'[r].chars = rep[r].chars
  <1>1. DOMAIN rep = AllRep /\ rep[r0] \in [alive : BOOLEAN, refcount : Int,
                                          capacity : Nat, chars : Seq(Char)]
    BY DEF IInv, Types
  <1>2. CASE rep' = rep
    BY <1>2
  <1>3. CASE rep' = [rep EXCEPT ![r0].refcount = n]
    <2>1. \A r \in AllRep \ {r0} : rep'[r] = rep[r]
      BY <1>1, <1>3
    <2>2. rep'[r0] = [rep[r0] EXCEPT !.refcount = n]
      BY <1>1, <1>3
    <2>3. rep'[r0].chars = rep[r0].chars
      BY <1>1, <2>2
    <2> QED BY <2>1, <2>3
  <1> QED BY <1>2, <1>3

LEMMA CharsCreated ==
  ASSUME IInv, NEW t \in Thread, NEW r0 \in Rep, ~rep[r0].alive, NEW new,
         rep' = [rep EXCEPT ![r0] = new]
  PROVE  \A r \in AllRep : rep'[r].chars = rep[r].chars \/ (r \in Rep /\ Private(t, r))
  <1>1. Private(t, r0)
    BY NotUsed DEF Private, BeingFreed
  <1>2. \A r \in AllRep \ {r0} : rep'[r] = rep[r]
    BY DEF IInv, Types
  <1> QED BY <1>1, <1>2

LEMMA ContinueFrame ==
  ASSUME IInv, IInv', NEW t \in Thread, Continue(t)
  PROVE  pc[t] # "idle" /\ Frame(t)
  <1> USE CowAssumption
  <1>1. pc[t] # "idle"
    BY DEF Continue, Grab, Goto, Refcopy, Reserve, Clone, Dispose, Free, Mutate, BadAlloc,
           Fill, Leak
  <1>2. PICK x \in Str : x = call[t].this
    BY <1>1, Begun
  <1>3. CASE Grab(t)
    <2>1. /\ \A v \in Thread \ {t} : pc'[v] = pc[v]
          /\ UNCHANGED <<str, rep, call, tmp, ptr, before>>
      BY <1>3 DEF Grab, Goto, IInv, Types
    <2> QED BY <1>1, <2>1, GoneFrame DEF Frame
  <1>4. CASE Refcopy(t)
    <2>1. Obtained(t, Source(t)) /\ ptr' = ptr
      BY <1>4 DEF Refcopy
    <2>2. Source(t) \in AllRep
      BY <1>4, ArgumentHeld DEF Refcopy, IInv, Calls, CallOf, At, WithArg, Source
    <2>3. \A r \in AllRep : rep'[r].chars = rep[r].chars
      <3>1. rep' = rep \/ rep' = [rep EXCEPT ![Source(t)].refcount =
                                    rep[Source(t)].refcount + 1]
        BY <1>4 DEF Refcopy
      <3> QED BY <2>2, <3>1, CharsRefcount
    <2> QED BY <1>1, <2>1, <2>3, ObtainedFrame DEF Frame
  <1>5. CASE Reserve(t)
    <2>1. UNCHANGED <<str, rep, tmp, ptr>>
      BY <1>5 DEF Reserve
    <2>2. CASE pc' = [pc EXCEPT ![t] = "clone"] /\ UNCHANGED <<call, before>>
      <3>1. \A v \in Thread \ {t} : pc'[v] = pc[v]
        BY <2>2 DEF IInv, Types
      <3> QED BY <1>1, <2>1, <2>2, <3>1, GoneFrame DEF Frame
    <2>3. CASE Return(t)
      BY <1>1, <2>1, <2>3, ReturnFrame DEF Frame
    <2> QED BY <1>5, <2>2, <2>3 DEF Reserve
  <1>6. CASE Clone(t)
    <2> PICK r1 \in Rep :
           \E new : /\ ~rep[r1].alive /\ rep' = [rep EXCEPT ![r1] = new]
                    /\ Obtained(t, r1) /\ ptr' = ptr
      BY <1>6 DEF Clone
    <2>1. PICK new : /\ ~rep[r1].alive /\ rep' = [rep EXCEPT ![r1] = new]
                     /\ Obtained(t, r1) /\ ptr' = ptr
      OBVIOUS
    <2> QED BY <1>1, <2>1, ObtainedFrame, CharsCreated DEF Frame
  <1>7. CASE Dispose(t)
    <2>1. str[x] \in AllRep
      BY <1>2, <1>7, ThisHeld DEF Dispose, IInv, Calls, CallOf, At, Replacing, Refilled
    <2>2. \A r \in AllRep : rep'[r].chars = rep[r].chars
      <3>1. rep' = rep \/ rep' = [rep EXCEPT ![str[x]].refcount = rep[str[x]].refcount - 1]
        BY <1>2, <1>7 DEF Dispose
      <3> QED BY <2>1, <3>1, CharsRefcount
    <2>3. CASE Attach(t)
      BY <1>1, <2>2, <2>3, AttachFrame DEF Frame
    <2>4. CASE pc' = [pc EXCEPT ![t] = "free"] /\ UNCHANGED <<str, call, tmp, ptr, before>>
      <3>1. \A v \in Thread \ {t} : pc'[v] = pc[v]
        BY <2>4 DEF IInv, Types
      <3> QED BY <1>1, <2>2, <2>4, <3>1, GoneFrame DEF Frame
    <2> QED BY <1>7, <2>3, <2>4 DEF Dispose
  <1>8. CASE Free(t)
    <2>1. str[x] \in AllRep
      BY <1>1, <1>2, <1>8, Begun
      DEF Free, IInv, Calls, CallOf, At, Types, Replacing, Refilled
    <2>2. Disposes(t, str[x]) /\ pc[t] = "free" /\ Attach(t)
      BY <1>2, <1>8 DEF Free, Disposes
    <2>3. str[x] \in Rep /\ Private(t, str[x])
      BY <1>2, <2>1, <2>2, Disposed
    <2>4. \A r \in AllRep \ {str[x]} : rep'[r] = rep[r]
      BY <1>2, <2>1, <2>2, Disposed
    <2>5. \A r \in AllRep : rep'[r].chars = rep[r].chars \/ (r \in Rep /\ Private(t, r))
      BY <2>3, <2>4
    <2> QED BY <1>1, <2>2, <2>5, AttachFrame DEF Frame
  <1>9. CASE Mutate(t)
    <2>1. str' = str /\ call' = call /\ ptr' = ptr /\ before' = before
      BY <1>9 DEF Mutate
    <2>2. \A v \in Thread \ {t} : pc'[v] = pc[v] /\ tmp'[v] = tmp[v]
      BY <1>9 DEF Mutate, IInv, Types
    <2>3. \A r \in AllRep : rep'[r].chars = rep[r].chars \/ (r \in Rep /\ Private(t, r))
      <3>1. CASE NeedsRep(t)
        <4> PICK r1 \in Rep : \E new : ~rep[r1].alive /\ rep' = [rep EXCEPT ![r1] = new]
          BY <1>9, <3>1 DEF Mutate
        <4>1. PICK new : ~rep[r1].alive /\ rep' = [rep EXCEPT ![r1] = new]
          OBVIOUS
        <4> QED BY <4>1, CharsCreated
      <3>2. CASE ~NeedsRep(t)
        BY <1>9, <3>2 DEF Mutate
      <3> QED BY <3>1, <3>2
    <2> QED BY <1>1, <2>1, <2>2, <2>3, GoneFrame DEF Frame
  <1>10. CASE BadAlloc(t)
    <2>1. /\ UNCHANGED <<str, rep, tmp>> /\ Return(t)
          /\ \A v \in Thread \ {t} : ptr'[v] = ptr[v]
      BY <1>10 DEF BadAlloc, IInv, Types
    <2> QED BY <1>1, <2>1, ReturnFrame DEF Frame
  <1>11. CASE Fill(t)
    <2>1. /\ UNCHANGED <<str, tmp>> /\ Return(t)
          /\ \A v \in Thread \ {t} : ptr'[v] = ptr[v]
          /\ pc[t] = "fill"
      BY <1>11 DEF Fill, IInv, Types
    <2>2. \A r \in AllRep \ {str[x]} : rep'[r] = rep[r]
      BY <1>2, <1>11 DEF Fill, IInv, Types
    <2>3. str[x] \in Rep => Private(t, str[x])
      <3> SUFFICES ASSUME str[x] \in Rep PROVE Private(t, str[x])
        OBVIOUS
      <3>1. Holders(str[x]) = {x}
        BY <1>2, <2>1 DEF IInv, Unshared, UnsharedOf
      <3>2. ~BeingFreed(str[x])
        BY <3>1, Held
      <3> QED BY <1>2, <3>1, <3>2 DEF Private, BeingFreed
    <2>4. \A r \in AllRep : rep'[r].chars = rep[r].chars \/ (r \in Rep /\ Private(t, r))
      BY <2>2, <2>3 DEF AllRep, IInv, EmptyKept
    <2> QED BY <1>1, <2>1, <2>4, ReturnFrame DEF Frame
  <1>12. CASE Leak(t)
    <2>1. str[x] \in AllRep
      BY <1>2, <1>12, ThisHeld DEF Leak, IInv, Calls, CallOf, At
    <2>2. \A r \in AllRep : rep'[r].chars = rep[r].chars
      <3>1. rep' = rep \/ rep' = [rep EXCEPT ![str[x]].refcount = -1]
        BY <1>2, <1>12 DEF Leak
      <3> QED BY <2>1, <3>1, CharsRefcount
    <2>3. str' = str /\ tmp' = tmp /\ ptr' = ptr
      BY <1>12 DEF Leak
    <2>4. CASE Return(t)
      BY <1>1, <2>2, <2>3, <2>4, ReturnFrame DEF Frame
    <2>5. CASE pc' = [pc EXCEPT ![t] = "mutate"] /\ call' = call /\ before' = before
      <3>1. \A v \in Thread \ {t} : pc'[v] = pc[v]
        BY <2>5 DEF IInv, Types
      <3> QED BY <1>1, <2>2, <2>3, <2>5, <3>1, GoneFrame DEF Frame
    <2> QED BY <1>12, <2>4, <2>5 DEF Leak
  <1> QED
    BY <1>1, <1>3, <1>4, <1>5, <1>6, <1>7, <1>8, <1>9, <1>10, <1>11, <1>12 DEF Continue
\* The values that the strings show, before and after a step of a call.
LEMMA ValuesKept ==
  ASSUME IInv, IInv', NEW t \in Thread, pc[t] # "idle", Frame(t),
         NEW x \in Str, x = call[t].this
  PROVE  /\ strValue[x] = before[x]
         /\ call'[t] = call[t] => strValue' = strValue
         /\ call'[t] = NoCall =>
              strValue' = [strValue EXCEPT ![x] =
                             IF str'[x] = NoRep THEN None ELSE rep'[str'[x]].chars]
  <1> USE CowAssumption
  <1>1. /\ \A v \in Thread \ {t} : call'[v] = call[v] /\ call[v].this # x
        /\ call'[t] = call[t] \/ (call'[t] = NoCall /\ NoCall.this \notin Str)
    BY Begun DEF Frame, Step, NoCall
  <1>2. ASSUME NEW y \in Str \ {x} PROVE strValue'[y] = strValue[y]
    <2>1. Claimed(y)' <=> Claimed(y)
      BY <1>1, <1>2 DEF Claimed
    <2>2. str'[y] = str[y] /\ before'[y] = before[y]
      BY DEF Frame, Step
    <2>3. ASSUME ~Claimed(y), str[y] # NoRep
          PROVE  rep'[str[y]].chars = rep[str[y]].chars
      <3>1. str[y] \in AllRep
        BY <2>3 DEF IInv, Types
      <3>2. y \in Holders(str[y])
        BY <2>3, InHolders DEF Claimed
      <3>3. ~Private(t, str[y])
        BY <3>2 DEF Private
      <3> QED BY <3>1, <3>3 DEF Frame
    <2> QED BY <2>1, <2>2, <2>3 DEF strValue
  <1>3. Claimed(x) /\ strValue[x] = before[x]
    BY DEF Claimed, strValue
  <1>4. strValue = [y \in Str |-> strValue[y]] /\ strValue' = [y \in Str |-> strValue'[y]]
    BY DEF strValue
  <1>5. ASSUME call'[t] = call[t] PROVE strValue' = strValue
    <2>1. Claimed(x)'
      BY <1>5 DEF Claimed
    <2>2. before'[x] = before[x]
      BY <1>5 DEF Frame
    <2>3. strValue'[x] = strValue[x]
      BY <1>3, <2>1, <2>2 DEF strValue
    <2> QED BY <1>2, <1>4, <2>3
  <1>6. ASSUME call'[t] = NoCall
        PROVE  strValue' = [strValue EXCEPT ![x] =
                              IF str'[x] = NoRep THEN None ELSE rep'[str'[x]].chars]
    <2>1. ~Claimed(x)'
      BY <1>1, <1>6 DEF Claimed, NoCall
    <2>2. strValue'[x] = IF str'[x] = NoRep THEN None ELSE rep'[str'[x]].chars
      BY <2>1 DEF strValue
    <2> QED BY <1>2, <1>4, <2>2
  <1> QED BY <1>3, <1>5, <1>6

\* What a call reads is a string's value.
LEMMA ArgumentValue ==
  ASSUME IInv, NEW t \in Thread, call[t].op \in WithArg
  PROVE  /\ call[t].arg \in Str
         /\ strValue[call[t].arg] = rep[Source(t)].chars
         /\ rep[Source(t)].chars \in Seq(Char)
  <1>1. /\ call[t].arg \in Str /\ str[call[t].arg] \in AllRep
        /\ \A u \in Thread : call[u].this # call[t].arg
    BY ArgumentHeld
  <1>2. ~Claimed(call[t].arg) /\ str[call[t].arg] # NoRep
    BY <1>1, CowAssumption DEF Claimed, AllRep
  <1> QED BY <1>1, <1>2 DEF strValue, Source, IInv, Types

\* A call that ends with its string as it was.
LEMMA SameValue ==
  ASSUME IInv, IInv', NEW t \in Thread, pc[t] # "idle", Frame(t), call'[t] = NoCall,
         NEW x \in Str, x = call[t].this,
         before[x] = IF str'[x] = NoRep THEN None ELSE rep'[str'[x]].chars
  PROVE  strValue' = strValue
  <1>1. /\ strValue[x] = before[x]
        /\ strValue' = [strValue EXCEPT ![x] =
                          IF str'[x] = NoRep THEN None ELSE rep'[str'[x]].chars]
    BY ValuesKept
  <1>2. strValue = [y \in Str |-> strValue[y]]
    BY DEF strValue
  <1> QED BY <1>1, <1>2
ValueStep == Strings!Next \/ strValue' = strValue

\* One string takes the value of another: it is made, or it had a value before.
LEMMA TakesValue ==
  ASSUME NEW x \in Str, NEW u \in Str, strValue[u] # None,
         strValue' = [strValue EXCEPT ![x] = strValue[u]]
  PROVE  ValueStep
  <1>1. Strings!copy(x, u) \/ Strings!assign(x, u)
    BY DEF Strings!copy, Strings!assign, Strings!Exists, Strings!Becomes
  <1> QED BY <1>1 DEF ValueStep, Strings!Next

\* The value that a call has not changed yet.
LEMMA OldValue ==
  ASSUME IInv, NEW t \in Thread, pc[t] # "idle", pc[t] # "fill" \/ call[t].op = "leak",
         NEW x \in Str, x = call[t].this
  PROVE  /\ call[t].op = "copy" => before[x] = None /\ str[x] = NoRep
         /\ call[t].op # "copy" => /\ str[x] \in AllRep /\ before[x] = rep[str[x]].chars
                                   /\ before[x] \in Seq(Char)
  <1>1. CallOf(t) /\ ValueOf(t) /\ call[t].op # "none"
    BY Begun DEF IInv, Calls, Values
  <1>2. str[x] \in AllRep \cup {NoRep}
    BY DEF IInv, Types
  <1> QED BY <1>1, <1>2 DEF CallOf, ValueOf

LEMMA GrabValue ==
  ASSUME IInv, IInv', NEW t \in Thread, Grab(t)
  PROVE  ValueStep
  <1>1. pc[t] # "idle" /\ Frame(t)
    BY ContinueFrame DEF Continue
  <1>2. PICK x \in Str : x = call[t].this
    BY <1>1, Begun
  <1>3. call'[t] = call[t]
    BY DEF Grab
  <1> QED BY <1>1, <1>2, <1>3, ValuesKept DEF ValueStep

LEMMA ObtainedValue ==
  ASSUME IInv, IInv', NEW t \in Thread, pc[t] # "idle", Frame(t), ptr' = ptr,
         NEW r \in AllRep, Obtained(t, r),
         call[t].op = "copy" => rep'[r].chars = rep[Source(t)].chars
  PROVE  ValueStep
  <1>1. PICK x \in Str : x = call[t].this
    BY Begun
  <1>2. CASE call[t].op = "copy"
    <2>1. call'[t] = NoCall /\ str'[x] = r
      BY <1>1, <1>2, ObtainedFrame
    <2>2. strValue' = [strValue EXCEPT ![x] = IF str'[x] = NoRep THEN None
                                              ELSE rep'[str'[x]].chars]
      BY <1>1, <2>1, ValuesKept
    <2>3. r # NoRep
      BY CowAssumption DEF AllRep
    <2>4. strValue' = [strValue EXCEPT ![x] = rep[Source(t)].chars]
      BY <1>2, <2>1, <2>2, <2>3
    <2>5. PICK u \in Str : u = call[t].arg
      BY <1>2, ArgumentValue DEF WithArg
    <2>6. strValue[u] = rep[Source(t)].chars /\ strValue[u] # None
      BY <1>2, <2>5, ArgumentValue, CowAssumption DEF WithArg
    <2> QED BY <2>4, <2>6, TakesValue
  <1>3. CASE call[t].op # "copy"
    <2>1. call'[t] = call[t]
      BY <1>3, ObtainedFrame
    <2> QED BY <1>1, <2>1, ValuesKept DEF ValueStep
  <1> QED BY <1>2, <1>3

LEMMA RefcopyValue ==
  ASSUME IInv, IInv', NEW t \in Thread, Refcopy(t)
  PROVE  ValueStep
  <1>1. pc[t] # "idle" /\ Frame(t)
    BY ContinueFrame DEF Continue
  <1>2. Obtained(t, Source(t)) /\ ptr' = ptr
    BY DEF Refcopy
  <1>3. Source(t) \in AllRep
    BY ArgumentHeld DEF Refcopy, IInv, Calls, CallOf, At, WithArg, Source
  <1>4. \A r \in AllRep : rep'[r].chars = rep[r].chars
    <2>1. rep' = rep \/ rep' = [rep EXCEPT ![Source(t)].refcount =
                                  rep[Source(t)].refcount + 1]
      BY DEF Refcopy
    <2> QED BY <1>3, <2>1, CharsRefcount
  <1>5. rep'[Source(t)].chars = rep[Source(t)].chars
    BY <1>3, <1>4
  <1> QED BY <1>1, <1>2, <1>3, <1>5, ObtainedValue

LEMMA CloneValue ==
  ASSUME IInv, IInv', NEW t \in Thread, Clone(t)
  PROVE  ValueStep
  <1>1. pc[t] # "idle" /\ Frame(t)
    BY ContinueFrame DEF Continue
  <1>a. \E r1 \in Rep : \E new :
          /\ rep' = [rep EXCEPT ![r1] = new] /\ Obtained(t, r1) /\ ptr' = ptr
          /\ call[t].op = "copy" => new.chars = rep[Source(t)].chars
    <2> DEFINE old == IF call[t].op \in {"copy", "assign"} THEN Source(t)
                      ELSE str[call[t].this]
    <2>1. \E room : \E r \in Rep, new \in Created(rep[old].chars, room) :
            /\ rep' = [rep EXCEPT ![r] = new] /\ Obtained(t, r) /\ ptr' = ptr
      BY DEF Clone
    <2>2. \A v, n : \A new \in Created(v, n) : new.chars = v
      BY DEF Created
    <2>3. call[t].op = "copy" => rep[old].chars = rep[Source(t)].chars
      OBVIOUS
    <2> HIDE DEF old
    <2> QED BY <2>1, <2>2, <2>3
  <1> PICK r1 \in Rep :
         \E new : /\ rep' = [rep EXCEPT ![r1] = new] /\ Obtained(t, r1) /\ ptr' = ptr
                  /\ call[t].op = "copy" => new.chars = rep[Source(t)].chars
    BY <1>a
  <1>2. PICK new : /\ rep' = [rep EXCEPT ![r1] = new] /\ Obtained(t, r1) /\ ptr' = ptr
                   /\ call[t].op = "copy" => new.chars = rep[Source(t)].chars
    OBVIOUS
  <1>3. r1 \in AllRep /\ rep'[r1] = new
    BY <1>2 DEF AllRep, IInv, Types
  <1> QED BY <1>1, <1>2, <1>3, ObtainedValue

LEMMA ReserveValue ==
  ASSUME IInv, IInv', NEW t \in Thread, Reserve(t)
  PROVE  ValueStep
  <1>1. pc[t] # "idle" /\ pc[t] # "fill" /\ Frame(t) /\ call[t].op # "copy"
    BY ContinueFrame DEF Continue, Reserve, IInv, Calls, CallOf, At
  <1>2. PICK x \in Str : x = call[t].this
    BY <1>1, Begun
  <1>3. str' = str /\ rep' = rep
    BY DEF Reserve
  <1>4. CASE call' = call
    BY <1>1, <1>2, <1>4, ValuesKept DEF ValueStep
  <1>5. CASE Return(t)
    <2>1. call'[t] = NoCall
      BY <1>5 DEF Return, IInv, Types
    <2>2. str[x] \in AllRep /\ before[x] = rep[str[x]].chars
      BY <1>1, <1>2, OldValue
    <2>3. before[x] = IF str'[x] = NoRep THEN None ELSE rep'[str'[x]].chars
      BY <1>3, <2>2, CowAssumption DEF AllRep
    <2> QED BY <1>1, <1>2, <2>1, <2>3, SameValue DEF ValueStep
  <1> QED BY <1>4, <1>5 DEF Reserve

LEMMA MutateValue ==
  ASSUME IInv, IInv', NEW t \in Thread, Mutate(t)
  PROVE  ValueStep
  <1>1. pc[t] # "idle" /\ Frame(t) /\ call'[t] = call[t]
    BY ContinueFrame DEF Continue, Mutate
  <1>2. PICK x \in Str : x = call[t].this
    BY <1>1, Begun
  <1> QED BY <1>1, <1>2, ValuesKept DEF ValueStep

LEMMA BadAllocValue ==
  ASSUME IInv, IInv', NEW t \in Thread, BadAlloc(t)
  PROVE  ValueStep
  <1>1. pc[t] # "idle" /\ pc[t] # "fill" /\ Frame(t)
    BY ContinueFrame DEF Continue, BadAlloc
  <1>2. PICK x \in Str : x = call[t].this
    BY <1>1, Begun
  <1>3. str' = str /\ rep' = rep /\ call'[t] = NoCall
    BY DEF BadAlloc, Return, IInv, Types
  <1>4. before[x] = IF str'[x] = NoRep THEN None ELSE rep'[str'[x]].chars
    BY <1>1, <1>2, <1>3, OldValue, CowAssumption DEF AllRep
  <1> QED BY <1>1, <1>2, <1>3, <1>4, SameValue DEF ValueStep

LEMMA LeakValue ==
  ASSUME IInv, IInv', NEW t \in Thread, Leak(t)
  PROVE  ValueStep
  <1>1. pc[t] # "idle" /\ pc[t] # "fill" /\ Frame(t) /\ call[t].op # "copy"
    BY ContinueFrame DEF Continue, Leak, IInv, Calls, CallOf, At
  <1>2. PICK x \in Str : x = call[t].this
    BY <1>1, Begun
  <1>3. str' = str
    BY DEF Leak
  <1>4. CASE call' = call
    BY <1>1, <1>2, <1>4, ValuesKept DEF ValueStep
  <1>5. CASE /\ Return(t)
             /\ rep' = IF str[call[t].this] = EmptyRep THEN rep
                       ELSE [rep EXCEPT ![str[call[t].this]].refcount = -1]
    <2>1. call'[t] = NoCall
      BY <1>5 DEF Return, IInv, Types
    <2>2. str[x] \in AllRep /\ before[x] = rep[str[x]].chars
      BY <1>1, <1>2, OldValue
    <2>3. rep' = rep \/ rep' = [rep EXCEPT ![str[x]].refcount = -1]
      BY <1>2, <1>5
    <2>4. rep'[str[x]].chars = rep[str[x]].chars
      BY <2>2, <2>3, CharsRefcount
    <2>5. before[x] = IF str'[x] = NoRep THEN None ELSE rep'[str'[x]].chars
      BY <1>3, <2>2, <2>4, CowAssumption DEF AllRep
    <2> QED BY <1>1, <1>2, <2>1, <2>5, SameValue DEF ValueStep
  <1> QED BY <1>4, <1>5 DEF Leak
\* A call attaches its new _Rep: it is over, or the value is still to come.
LEMMA AttachValue ==
  ASSUME IInv, IInv', NEW t \in Thread, pc[t] \in {"dispose", "free"}, Frame(t), Attach(t),
         tmp[t] # NoRep => rep'[tmp[t]].chars = rep[tmp[t]].chars
  PROVE  ValueStep
  <1> USE CowAssumption
  <1>1. PICK x \in Str : x = call[t].this
    BY Begun
  <1>2. CallOf(t) /\ ValueOf(t) /\ pc[t] # "idle" /\ pc[t] # "fill" /\ call[t].op # "copy"
    BY DEF IInv, Calls, Values, CallOf, At, Replacing, Refilled
  <1>3. before[x] \in Seq(Char) /\ strValue[x] = before[x] /\ before[x] # None
    BY <1>1, <1>2, OldValue, ValuesKept
  <1>4. str'[x] = tmp[t]
    BY <1>1, <1>2, AttachFrame
  <1>5. CASE call[t].op \notin {"destroy", "assign", "reserve"}
    <2>1. call'[t] = call[t]
      BY <1>2, <1>5, AttachFrame
    <2> QED BY <1>1, <1>2, <2>1, ValuesKept DEF ValueStep
  <1>6. CASE call[t].op \in {"destroy", "assign", "reserve"}
    <2>1. call'[t] = NoCall
      BY <1>2, <1>6, AttachFrame
    <2>2. strValue' = [strValue EXCEPT ![x] = IF str'[x] = NoRep THEN None
                                              ELSE rep'[str'[x]].chars]
      BY <1>1, <1>2, <2>1, ValuesKept
    <2>3. CASE call[t].op = "destroy"
      <3>1. tmp[t] = NoRep
        BY <1>2, <2>3 DEF CallOf
      <3>2. Strings!destroy(x)
        BY <1>3, <1>4, <2>2, <3>1 DEF Strings!destroy, Strings!Exists, Strings!Becomes
      <3> QED BY <3>2 DEF ValueStep, Strings!Next
    <2>4. CASE call[t].op = "assign"
      <3>1. tmp[t] # NoRep /\ rep[tmp[t]].chars = rep[Source(t)].chars
        BY <1>2, <2>4 DEF CallOf, ValueOf
      <3>2. strValue' = [strValue EXCEPT ![x] = rep[Source(t)].chars]
        BY <1>4, <2>2, <3>1
      <3>3. PICK u \in Str : u = call[t].arg
        BY <2>4, ArgumentValue DEF WithArg
      <3>4. strValue[u] = rep[Source(t)].chars /\ strValue[u] # None
        BY <2>4, <3>3, ArgumentValue DEF WithArg
      <3> QED BY <3>2, <3>4, TakesValue
    <2>5. CASE call[t].op = "reserve"
      <3>1. tmp[t] # NoRep /\ rep[tmp[t]].chars = before[x]
        BY <1>1, <1>2, <2>5 DEF CallOf, ValueOf
      <3>2. before[x] = IF str'[x] = NoRep THEN None ELSE rep'[str'[x]].chars
        BY <1>4, <3>1
      <3> QED BY <1>1, <1>2, <2>1, <3>2, SameValue DEF ValueStep
    <2> QED BY <1>6, <2>3, <2>4, <2>5
  <1> QED BY <1>5, <1>6

LEMMA DisposeValue ==
  ASSUME IInv, IInv', NEW t \in Thread, Dispose(t)
  PROVE  ValueStep
  <1>1. pc[t] \in {"dispose", "free"} /\ pc[t] # "idle" /\ Frame(t)
    BY ContinueFrame DEF Continue, Dispose
  <1>2. PICK x \in Str : x = call[t].this
    BY <1>1, Begun
  <1>3. CASE call' = call
    BY <1>1, <1>2, <1>3, ValuesKept DEF ValueStep
  <1>4. CASE Attach(t)
    <2>1. str[x] \in AllRep
      BY <1>2, ThisHeld DEF Dispose, IInv, Calls, CallOf, At, Replacing, Refilled
    <2>2. rep' = rep \/ rep' = [rep EXCEPT ![str[x]].refcount = rep[str[x]].refcount - 1]
      BY <1>2 DEF Dispose
    <2>3. \A r \in AllRep : rep'[r].chars = rep[r].chars
      BY <2>1, <2>2, CharsRefcount
    <2>4. tmp[t] # NoRep => rep'[tmp[t]].chars = rep[tmp[t]].chars
      BY <2>3 DEF IInv, Types
    <2> QED BY <1>1, <1>4, <2>4, AttachValue
  <1> QED BY <1>3, <1>4 DEF Dispose

LEMMA FreeValue ==
  ASSUME IInv, IInv', NEW t \in Thread, Free(t)
  PROVE  ValueStep
  <1>1. pc[t] \in {"dispose", "free"} /\ pc[t] # "idle" /\ Frame(t)
    BY ContinueFrame DEF Continue, Free
  <1>2. PICK x \in Str : x = call[t].this
    BY <1>1, Begun
  <1>3. /\ pc[t] = "free" /\ Attach(t) /\ rep' = [rep EXCEPT ![str[x]] = Dead]
        /\ str[x] # EmptyRep /\ str[x] \in AllRep
    BY <1>2 DEF Free, IInv, Calls, CallOf, At, Replacing, Refilled, Types
  <1>4. str[x] \in Rep /\ BeingFreed(str[x])
    BY <1>2, <1>3 DEF BeingFreed, AllRep
  <1>5. tmp[t] # str[x]
    BY <1>4, NotHeld, InHolders
  <1>6. tmp[t] # NoRep => rep'[tmp[t]].chars = rep[tmp[t]].chars
    BY <1>3, <1>5 DEF IInv, Types
  <1> QED BY <1>1, <1>3, <1>6, AttachValue

LEMMA FillValue ==
  ASSUME IInv, IInv', NEW t \in Thread, Fill(t)
  PROVE  ValueStep
  <1> USE CowAssumption
  <1>1. pc[t] = "fill" /\ pc[t] # "idle" /\ Frame(t)
    BY ContinueFrame DEF Continue, Fill
  <1>2. PICK x \in Str : x = call[t].this
    BY <1>1, Begun
  <1>3. /\ CallOf(t) /\ ValueOf(t) /\ call[t].op \in Refilled
        /\ before[x] \in Seq(Char) /\ str[x] \in AllRep
    <2>1. CallOf(t) /\ ValueOf(t)
      BY DEF IInv, Calls, Values
    <2>2. call[t].op \in Refilled
      BY <1>1, <2>1 DEF CallOf, At
    <2>3. before[x] \in Seq(Char) /\ str[x] # NoRep
      BY <1>2, <2>1, <2>2 DEF CallOf, ValueOf, Refilled
    <2> QED BY <2>1, <2>2, <2>3 DEF IInv, Types
  <1>4. PICK v \in Filled(t) :
          rep' = [rep EXCEPT ![str[x]].chars = v,
                             ![str[x]].refcount =
                                IF call[t].op \in {"erase", "leak"} THEN -1 ELSE 0]
    BY <1>2 DEF Fill
  <1>5. rep'[str[x]].chars = v
    <2>1. rep[str[x]] \in [alive : BOOLEAN, refcount : Int, capacity : Nat,
                           chars : Seq(Char)] /\ DOMAIN rep = AllRep
      BY <1>3 DEF IInv, Types
    <2>2. rep'[str[x]] = [rep[str[x]] EXCEPT !.chars = v, !.refcount =
                            IF call[t].op \in {"erase", "leak"} THEN -1 ELSE 0]
      BY <1>3, <1>4, <2>1
    <2> QED BY <2>1, <2>2
  <1>6. str' = str /\ call'[t] = NoCall
    BY DEF Fill, Return, IInv, Types
  <1>7. strValue' = [strValue EXCEPT ![x] = v] /\ strValue[x] = before[x]
    <2>1. /\ strValue[x] = before[x]
          /\ strValue' = [strValue EXCEPT ![x] =
                            IF str'[x] = NoRep THEN None ELSE rep'[str'[x]].chars]
      BY <1>1, <1>2, <1>6, ValuesKept
    <2> QED BY <1>3, <1>5, <1>6, <2>1 DEF AllRep
  <1>8. CASE call[t].op = "append"
    <2>1. ptr[t] = Source(t) /\ ptr[t] # NoRep
      BY <1>1, <1>3, <1>8 DEF CallOf, Source
    <2>2. rep[Source(t)].alive
      BY <1>8, ArgumentHeld DEF WithArg
    <2>3. Mine(t).chars = before[x]
      BY <1>1, <1>2, <1>3, <1>8 DEF ValueOf, Mine
    <2>4. PICK u \in Str : u = call[t].arg
      BY <1>8, ArgumentValue DEF WithArg
    <2>5. strValue[u] = rep[Source(t)].chars /\ strValue[u] # None
      BY <1>8, <2>4, ArgumentValue DEF WithArg
    <2>6. v = strValue[x] \o strValue[u]
      BY <1>7, <1>8, <2>1, <2>2, <2>3, <2>5 DEF Filled, CharsOf
    <2>7. Strings!append(x, u)
      BY <1>3, <1>7, <2>5, <2>6 DEF Strings!append, Strings!Exists, Strings!Becomes
    <2> QED BY <2>7 DEF ValueStep, Strings!Next
  <1>9. CASE call[t].op = "push_back"
    <2>1. Mine(t).chars = before[x]
      BY <1>1, <1>2, <1>3, <1>9 DEF ValueOf, Mine
    <2>2. PICK c \in Char : c = call[t].char
      BY <1>3, <1>9 DEF CallOf
    <2>3. v = Append(strValue[x], c)
      BY <1>7, <1>9, <2>1, <2>2 DEF Filled
    <2>4. Strings!push_back(x, c)
      BY <1>3, <1>7, <2>3 DEF Strings!push_back, Strings!Exists, Strings!Becomes
    <2> QED BY <2>4 DEF ValueStep, Strings!Next
  <1>10. CASE call[t].op \in {"clear", "erase"}
    <2>1. v = <<>>
      BY <1>10 DEF Filled
    <2>2. Strings!clear(x)
      BY <1>3, <1>7, <2>1 DEF Strings!clear, Strings!Exists, Strings!Becomes
    <2> QED BY <2>2 DEF ValueStep, Strings!Next
  <1>11. CASE call[t].op = "leak"
    <2>1. v = before[x]
      BY <1>1, <1>2, <1>3, <1>11 DEF Filled, ValueOf, Mine
    <2>2. strValue = [y \in Str |-> strValue[y]]
      BY DEF strValue
    <2>3. strValue' = strValue
      BY <1>7, <2>1, <2>2
    <2> QED BY <2>3 DEF ValueStep
  <1> QED BY <1>3, <1>8, <1>9, <1>10, <1>11 DEF Refilled

LEMMA ContinueValue ==
  ASSUME IInv, IInv', NEW t \in Thread, Continue(t)
  PROVE  ValueStep
  BY GrabValue, RefcopyValue, ReserveValue, CloneValue, DisposeValue, FreeValue,
     MutateValue, BadAllocValue, FillValue, LeakValue
  DEF Continue
LEMMA CallValue ==
  ASSUME IInv, NEW t \in Thread, NEW s \in Str, NEW op, NEW u, NEW c, NEW first,
         Call(t, op, s, u, c, first)
  PROVE  ValueStep
  <1> USE CowAssumption
  <1>1. /\ call[t].this \notin Str /\ call'[t].this = s
        /\ \A v \in Thread \ {t} : call'[v] = call[v]
    BY DEF Call, Goto, IInv, Calls, CallOf, At, NoCall, Types
  <1>2. \A y \in Str : Claimed(y)' <=> Claimed(y) \/ y = s
    BY <1>1 DEF Claimed
  <1>3. /\ ~Claimed(s) /\ str' = str /\ rep' = rep
        /\ \A y \in Str \ {s} : before'[y] = before[y]
        /\ before'[s] = IF str[s] = NoRep THEN None ELSE rep[str[s]].chars
    BY DEF Call, IInv, Types
  <1>4. \A y \in Str : strValue'[y] = strValue[y]
    BY <1>2, <1>3 DEF strValue
  <1>5. strValue = [y \in Str |-> strValue[y]] /\ strValue' = [y \in Str |-> strValue'[y]]
    BY DEF strValue
  <1> QED BY <1>4, <1>5 DEF ValueStep

LEMMA ConstructValue ==
  ASSUME IInv, NEW t \in Thread, NEW s \in Str, construct(t, s)
  PROVE  ValueStep
  <1> USE CowAssumption
  <1>1. ~Claimed(s) /\ str[s] = NoRep /\ call' = call /\ before' = before
    BY DEF construct
  <1>2. \A y \in Str : Claimed(y)' <=> Claimed(y)
    BY <1>1 DEF Claimed
  <1>3. strValue[s] = None
    BY <1>1 DEF strValue
  <1>4. strValue = [y \in Str |-> strValue[y]] /\ strValue' = [y \in Str |-> strValue'[y]]
    BY DEF strValue
  <1>5. CASE str' = [str EXCEPT ![s] = EmptyRep] /\ rep' = rep
    <2>1. str'[s] = EmptyRep /\ \A y \in Str \ {s} : str'[y] = str[y]
      BY <1>5 DEF IInv, Types
    <2>2. strValue'[s] = <<>>
      BY <1>1, <1>2, <1>5, <2>1 DEF strValue, IInv, EmptyKept
    <2>3. \A y \in Str \ {s} : strValue'[y] = strValue[y]
      BY <1>1, <1>2, <1>5, <2>1 DEF strValue
    <2>4. strValue' = [strValue EXCEPT ![s] = <<>>]
      BY <1>4, <2>2, <2>3
    <2>5. Strings!construct(s)
      BY <1>3, <2>4 DEF Strings!construct, Strings!Exists, Strings!Becomes
    <2> QED BY <2>5 DEF ValueStep, Strings!Next
  <1>6. ASSUME NEW r \in Rep, NEW c \in Char, NEW new \in Created(<<c>>, 1),
               ~rep[r].alive, str' = [str EXCEPT ![s] = r], rep' = [rep EXCEPT ![r] = new]
        PROVE  ValueStep
    <2>1. /\ str'[s] = r /\ r # NoRep /\ rep'[r].chars = <<c>>
          /\ \A y \in Str \ {s} : str'[y] = str[y] /\ str[y] # r
      BY <1>6, NotUsed DEF IInv, Types, Created, AllRep
    <2>2. strValue'[s] = <<c>>
      BY <1>1, <1>2, <2>1 DEF strValue
    <2>3. \A y \in Str \ {s} : str[y] # NoRep => rep'[str[y]] = rep[str[y]]
      BY <1>6, <2>1 DEF IInv, Types
    <2>4. \A y \in Str \ {s} : strValue'[y] = strValue[y]
      BY <1>1, <1>2, <2>1, <2>3 DEF strValue
    <2>5. strValue' = [strValue EXCEPT ![s] = <<c>>]
      BY <1>4, <2>2, <2>4
    <2>6. Strings!construct(s)
      BY <1>3, <2>5 DEF Strings!construct, Strings!Exists, Strings!Becomes
    <2> QED BY <2>6 DEF ValueStep, Strings!Next
  <1> QED BY <1>5, <1>6 DEF construct

LEMMA PutValue ==
  ASSUME IInv, NEW t \in Thread, NEW s \in Str, NEW c \in Char, put(t, s, c)
  PROVE  ValueStep
  <1> USE CowAssumption
  <1>1. /\ s \in ref /\ ~Claimed(s) /\ rep[str[s]].chars # <<>>
        /\ rep' = [rep EXCEPT ![str[s]].chars[1] = c]
        /\ str' = str /\ call' = call /\ before' = before
    BY DEF put
  <1>2. \A y \in Str : Claimed(y)' <=> Claimed(y)
    BY <1>1 DEF Claimed
  <1>3. str[s] \in AllRep /\ str[s] # EmptyRep /\ str[s] # NoRep
    BY <1>1 DEF IInv, EmptyKept, Leaked, LeakedOf, Types
  <1>4. Holders(str[s]) = {s}
    BY <1>1, <1>3, LeakedHeld
  <1>5. /\ rep'[str[s]].chars = [rep[str[s]].chars EXCEPT ![1] = c]
        /\ \A r \in AllRep \ {str[s]} : rep'[r] = rep[r]
    <2>1. DOMAIN rep = AllRep
          /\ rep[str[s]] \in [alive : BOOLEAN, refcount : Int, capacity : Nat,
                              chars : Seq(Char)]
      BY <1>3 DEF IInv, Types
    <2> QED BY <1>1, <1>3, <2>1
  <1>6. strValue[s] = rep[str[s]].chars /\ strValue[s] \in Seq(Char) /\ strValue[s] # None
    BY <1>1, <1>3 DEF strValue, IInv, Types
  <1>7. strValue'[s] = [strValue[s] EXCEPT ![1] = c]
    BY <1>1, <1>2, <1>3, <1>5, <1>6 DEF strValue
  <1>8. ASSUME NEW y \in Str \ {s} PROVE strValue'[y] = strValue[y]
    <2>1. ASSUME ~Claimed(y), str[y] # NoRep PROVE rep'[str[y]] = rep[str[y]]
      <3>1. y \in Holders(str[y])
        BY <2>1, InHolders DEF Claimed
      <3>2. str[y] # str[s]
        BY <1>4, <3>1
      <3>3. str[y] \in AllRep
        BY <2>1 DEF IInv, Types
      <3> QED BY <1>5, <3>2, <3>3
    <2>2. str' = str /\ before' = before /\ (Claimed(y)' <=> Claimed(y))
      BY <1>1, <1>2
    <2> QED BY <2>1, <2>2 DEF strValue
  <1>9. strValue = [y \in Str |-> strValue[y]] /\ strValue' = [y \in Str |-> strValue'[y]]
    BY DEF strValue
  <1>10. strValue' = [strValue EXCEPT ![s] = [strValue[s] EXCEPT ![1] = c]]
    BY <1>7, <1>8, <1>9
  <1>11. Strings!put(s, c)
    BY <1>1, <1>6, <1>10 DEF Strings!put, Strings!Exists, Strings!Becomes
  <1> QED BY <1>11 DEF ValueStep, Strings!Next

LEMMA SwapValue ==
  ASSUME IInv, NEW t \in Thread, NEW s \in Str, NEW u \in Str, swap(t, s, u)
  PROVE  ValueStep
  <1> USE CowAssumption
  <1>1. /\ s # u /\ ~Claimed(s) /\ ~Claimed(u) /\ str[s] # NoRep /\ str[u] # NoRep
        /\ str' = [str EXCEPT ![s] = str[u], ![u] = str[s]]
        /\ call' = call /\ before' = before
    BY DEF swap
  <1>2. \A y \in Str : Claimed(y)' <=> Claimed(y)
    BY <1>1 DEF Claimed
  <1>3. PICK r1 \in AllRep, r2 \in AllRep : r1 = str[s] /\ r2 = str[u]
    BY <1>1 DEF IInv, Types
  <1>4. \A r \in AllRep : rep'[r].chars = rep[r].chars
    <2>1. \A r \in AllRep : rep[r] \in [alive : BOOLEAN, refcount : Int, capacity : Nat,
                                        chars : Seq(Char)]
      BY DEF IInv, Types
    <2>2. ASSUME NEW e, e \in [alive : BOOLEAN, refcount : Int, capacity : Nat,
                               chars : Seq(Char)]
          PROVE  /\ Sharable(e).chars = e.chars
                 /\ Sharable(Sharable(e)).chars = e.chars
      BY <2>2 DEF Sharable
    <2>3. rep' = [rep EXCEPT ![r1] = Sharable(@), ![r2] = Sharable(@)]
      BY <1>3 DEF swap
    <2>4. ASSUME NEW r \in AllRep
          PROVE  rep'[r] \in {rep[r], Sharable(rep[r]), Sharable(Sharable(rep[r]))}
      BY <1>3, <2>3 DEF IInv, Types
    <2> QED BY <2>1, <2>2, <2>4
  <1>5. /\ str'[s] = str[u] /\ str'[u] = str[s]
        /\ \A y \in Str \ {s, u} : str'[y] = str[y]
    BY <1>1 DEF IInv, Types
  <1>6. \A y \in Str : str[y] # NoRep => rep'[str[y]].chars = rep[str[y]].chars
    BY <1>4 DEF IInv, Types
  <1>7. strValue[s] = rep[str[s]].chars /\ strValue[u] = rep[str[u]].chars
    BY <1>1 DEF strValue
  <1>8. strValue'[s] = strValue[u] /\ strValue'[u] = strValue[s]
    BY <1>1, <1>2, <1>5, <1>6, <1>7 DEF strValue
  <1>9. \A y \in Str \ {s, u} : strValue'[y] = strValue[y]
    BY <1>1, <1>2, <1>5, <1>6 DEF strValue
  <1>10. strValue = [y \in Str |-> strValue[y]] /\ strValue' = [y \in Str |-> strValue'[y]]
    BY DEF strValue
  <1>11. strValue' = [strValue EXCEPT ![s] = strValue[u], ![u] = strValue[s]]
    BY <1>1, <1>8, <1>9, <1>10
  <1>12. strValue[s] \in Seq(Char) /\ strValue[u] \in Seq(Char)
    BY <1>3, <1>7 DEF IInv, Types
  <1>13. Strings!swap(s, u)
    BY <1>11, <1>12 DEF Strings!swap, Strings!Exists
  <1> QED BY <1>13 DEF ValueStep, Strings!Next

LEMMA BeginValue ==
  ASSUME IInv, NEW t \in Thread, Begin(t)
  PROVE  ValueStep
  <1>1. PICK s \in Str :
          \/ construct(t, s) \/ destroy(t, s) \/ reserve(t, s) \/ clear(t, s)
          \/ erase(t, s) \/ leak(t, s)
          \/ \E c \in Char : push_back(t, s, c) \/ put(t, s, c)
          \/ \E u \in Str :
               copy(t, s, u) \/ assign(t, s, u) \/ append(t, s, u) \/ swap(t, s, u)
    BY DEF Begin
  <1>2. CASE \E u \in Str : \E c, op, first : Call(t, op, s, u, c, first)
    BY <1>2, CallValue
  <1>3. CASE \E c, op, first : Call(t, op, s, NoStr, c, first)
    BY <1>3, CallValue
  <1>4. CASE destroy(t, s) \/ reserve(t, s) \/ clear(t, s) \/ erase(t, s) \/ leak(t, s)
    BY <1>3, <1>4 DEF destroy, reserve, clear, erase, leak
  <1>5. ASSUME NEW c \in Char, push_back(t, s, c) PROVE ValueStep
    BY <1>3, <1>5 DEF push_back
  <1>6. ASSUME NEW u \in Str, copy(t, s, u) \/ assign(t, s, u) PROVE ValueStep
    BY <1>2, <1>6 DEF copy, assign
  <1>7. ASSUME NEW u \in Str, append(t, s, u) PROVE ValueStep
    <2>1. \E first : Call(t, "append", s, u, None, first)
      BY <1>7 DEF append
    <2> QED BY <1>2, <2>1
  <1>8. ASSUME NEW c \in Char, put(t, s, c) PROVE ValueStep
    BY <1>8, PutValue
  <1>9. ASSUME NEW u \in Str, swap(t, s, u) PROVE ValueStep
    BY <1>9, SwapValue
  <1> QED BY <1>1, <1>4, <1>5, <1>6, <1>7, <1>8, <1>9, ConstructValue

\* The strings of the code, which share what they can, are the strings of
\* StringValues: each step of a call leaves every value alone, or gives the
\* string it is called for the value that the operation promises.
THEOREM ValuesKeptApart ==
  ASSUME ~Aliasing PROVE Spec => ValuesIsolated
  <1>1. Init => Strings!Init
    <2> SUFFICES ASSUME Init PROVE strValue = [s \in Str |-> None]
      BY DEF Strings!Init
    <2>1. \A s \in Str : strValue[s] = None
      BY DEF Init, strValue
    <2>2. strValue = [s \in Str |-> strValue[s]]
      BY DEF strValue
    <2> QED BY <2>1, <2>2
  <1>2. IInv /\ IInv' /\ [Next]_vars => [Strings!Next]_strValue
    <2>1. ASSUME UNCHANGED vars PROVE strValue' = strValue
      <3>1. \A y \in Str : strValue'[y] = strValue[y]
        BY <2>1 DEF vars, strValue, Claimed
      <3> QED BY <3>1 DEF strValue
    <2> QED BY <2>1, BeginValue, ContinueValue DEF Next, ValueStep
  <1> QED BY <1>1, <1>2, Invariant, PTL DEF Spec, ValuesIsolated, Strings!Spec
=============================================================================
