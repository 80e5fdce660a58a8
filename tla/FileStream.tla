----------------------------- MODULE FileStream -----------------------------
(***************************************************************************)
(* What a basic_filebuf promises: a file with one position and no buffer.  *)
(* What is written is in the file at once, what is read comes from it, and *)
(* one character may be put back that differs from the one in the file.    *)
(* The result of the last call is ret, <<kind of call, what it returned>>. *)
(***************************************************************************)
EXTENDS Integers, Sequences

CONSTANTS Char, MaxLen

VARIABLES
  content,  \* of the file
  pos,      \* where the next character is read or written
  over,     \* <<p, c>>: c was put back at p, or <<>>
  dir,      \* "get" or "put" after such a call, "none" after a seek or EOF
  mode,     \* open for "in", for "out" or both; {} when closed
  ret

vars == <<content, pos, over, dir, mode, ret>>

Least(a, b) == IF a < b THEN a ELSE b

\* The sequence s from offset p on replaced by t.
Overlay(s, p, t) ==
  SubSeq(s, 1, p) \o t \o SubSeq(s, p + Len(t) + 1, Len(s))

\* The character at p, which may have been put back.
View(p) == IF over # <<>> /\ over[1] = p THEN over[2] ELSE content[p + 1]

\* The next n characters, or those before the end of the file.
Ahead(n) ==
  [i \in 1..Least(n, Len(content) - pos) |-> View(pos + i - 1)]

\* A character put back may be forgotten, but not while it is the next one.
MayForget ==
  /\ over' \in {over, <<>>}
  /\ over # <<>> /\ over[1] = pos' => over' = over

Init ==
  /\ content \in UNION {[1..n -> Char] : n \in 0..MaxLen}
  /\ pos = 0 /\ over = <<>> /\ dir = "none" /\ mode = {}
  /\ ret = <<"close", TRUE>>

Open(m) ==
  /\ mode = {} /\ m # {}
  /\ mode' = m
  /\ content' = IF "in" \in m THEN content ELSE <<>>
  /\ pos' \in {0, Len(content')}
  /\ ret' = <<"open", TRUE>>
  /\ UNCHANGED <<over, dir>>

Close ==
  /\ mode # {}
  /\ mode' = {} /\ pos' = 0 /\ over' = <<>> /\ dir' = "none"
  /\ ret' = <<"close", TRUE>>
  /\ UNCHANGED content

Readable == "in" \in mode /\ dir # "put"

\* Between writing and reading the program has to seek.
Refuse ==
  /\ \/ ~Readable /\ ret' \in {<<"get", <<>>>>, <<"peek", <<>>>>, <<"back", FALSE>>}
     \/ "out" \notin mode /\ ret' = <<"put", 0>>
  /\ UNCHANGED <<content, pos, over, dir, mode>>

Get(n) ==
  /\ Readable
  /\ ret' = <<"get", Ahead(n)>>
  /\ pos' = pos + Len(Ahead(n))
  /\ dir' = IF Len(Ahead(n)) < n THEN "none" ELSE "get"
  /\ MayForget
  /\ UNCHANGED <<content, mode>>

Peek ==
  /\ Readable
  /\ ret' = <<"peek", Ahead(1)>>
  /\ dir' = IF Ahead(1) = <<>> THEN "none" ELSE "get"
  /\ UNCHANGED <<content, pos, mode>>
  /\ MayForget

\* Back to the character before, or to one that is put in its place.
Back ==
  /\ Readable
  /\ pos > 0
  /\ pos' = pos - 1
  /\ dir' = "get"
  /\ \/ MayForget
     \/ over = <<>> /\ \E c \in Char : over' = <<pos', c>>
  /\ ret' = <<"back", TRUE>>
  /\ UNCHANGED <<content, mode>>

\* At the start of the file there is nothing to go back to, and the position is
\* lost; with a character put back already, a second is not, and the position
\* moves all the same.
BackFails ==
  /\ Readable
  /\ \/ pos = 0 /\ pos' \in 0..Len(content) /\ dir' = "none" /\ over' = <<>>
     \/ pos > 0 /\ over # <<>> /\ pos' = pos - 1 /\ dir' = "get" /\ MayForget
  /\ ret' = <<"back", FALSE>>
  /\ UNCHANGED <<content, mode>>

Put(s) ==
  /\ "out" \in mode /\ dir # "get"
  /\ content' = Overlay(content, pos, s)
  /\ pos' = pos + Len(s)
  /\ dir' \in IF s = <<>> THEN {dir, "put"} ELSE {"put"}
  /\ ret' = <<"put", Len(s)>>
  /\ UNCHANGED <<over, mode>>

Target(way, o) ==
  o + (IF way = "beg" THEN 0 ELSE IF way = "cur" THEN pos ELSE Len(content))

\* A seek to before the start fails, and the position is lost.
Seek(way, o) ==
  /\ mode # {}
  /\ IF Target(way, o) >= 0
     THEN pos' = Target(way, o) /\ ret' = <<"seek", pos'>>
     ELSE pos' \in 0..Len(content) /\ ret' = <<"seek", -1>>
  /\ dir' = "none" /\ over' = <<>>
  /\ UNCHANGED <<content, mode>>

Sync ==
  /\ ret' \in {<<"sync", TRUE>>, <<"imbue", TRUE>>, <<"setbuf", TRUE>>}
  /\ UNCHANGED <<content, pos, over, dir, mode>>

Next ==
  \/ \E m \in SUBSET {"in", "out"} : Open(m)
  \/ Close \/ Refuse \/ Peek \/ Back \/ BackFails \/ Sync
  \/ \E n \in 1..(MaxLen + 1) : Get(n)
  \/ \E n \in 0..MaxLen : \E s \in [1..n -> Char] : Put(s)
  \/ \E way \in {"beg", "cur", "end"}, o \in -(MaxLen + 1)..MaxLen : Seek(way, o)

Spec == Init /\ [][Next]_vars
=============================================================================
