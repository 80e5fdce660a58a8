----------------------------- MODULE StringValues -----------------------------
(***************************************************************************)
(* What std::string promises: every string object is a value of its own.   *)
(* A call changes the string it is called for, in one step, and no other.  *)
(***************************************************************************)
EXTENDS Sequences

CONSTANTS Str,    \* the string objects of the program
          Char,   \* characters
          None    \* the value of a string that does not exist

VARIABLE value    \* value[s]: the characters of s

Init == value = [s \in Str |-> None]

Exists(s) == value[s] # None

Becomes(s, v) == value' = [value EXCEPT ![s] = v]

construct(s) ==
  /\ ~Exists(s)
  /\ \/ Becomes(s, <<>>)
     \/ \E c \in Char : Becomes(s, <<c>>)

copy(s, u) == ~Exists(s) /\ Exists(u) /\ Becomes(s, value[u])

destroy(s) == Exists(s) /\ Becomes(s, None)

assign(s, u) == Exists(s) /\ Exists(u) /\ Becomes(s, value[u])

append(s, u) == Exists(s) /\ Exists(u) /\ Becomes(s, value[s] \o value[u])

push_back(s, c) == Exists(s) /\ Becomes(s, Append(value[s], c))

clear(s) == Exists(s) /\ Becomes(s, <<>>)

\* Writing a character through a reference into s.
put(s, c) ==
  /\ Exists(s) /\ value[s] # <<>>
  /\ Becomes(s, [value[s] EXCEPT ![1] = c])

swap(s, u) ==
  /\ Exists(s) /\ Exists(u)
  /\ value' = [value EXCEPT ![s] = value[u], ![u] = value[s]]

Next ==
  \E s \in Str :
    \/ construct(s) \/ destroy(s) \/ clear(s)
    \/ \E c \in Char : push_back(s, c) \/ put(s, c)
    \/ \E u \in Str : copy(s, u) \/ assign(s, u) \/ append(s, u) \/ swap(s, u)

Spec == Init /\ [][Next]_value
=============================================================================
