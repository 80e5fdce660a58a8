------------------------------ MODULE FileBuf ------------------------------
(***************************************************************************)
(* basic_filebuf<char>: one buffer that is the get area or the put area of *)
(* one file with one position, and one character that can be put back in   *)
(* front of it.  The facet does not convert (always_noconv), as in the "C" *)
(* locale, so the paths of the code for facets that do are not taken.      *)
(*                                                                         *)
(* A function of the class is an operator from the state of the object to  *)
(* the state after it, so that functions call each other as in the code;   *)
(* an action is a call by the program.                                     *)
(*                                                                         *)
(* The file is a regular one, no other program changes it, and reads and   *)
(* writes of it succeed.  The program seeks before it writes what it has   *)
(* been reading, unless it has come to the end of the file.                *)
(***************************************************************************)
EXTENDS Integers, Sequences

CONSTANTS
  Char,
  BufSizes,   \* what setbuf makes of _M_buf_size; 1 means unbuffered
  Chunk,      \* from this size on a write goes past the buffer, 1024 in the code
  MaxLen,     \* bound: length of the file
  MaxPut,     \* bound: characters in one sputn
  PastEnd     \* whether a direct read may meet the end of the file half way

ASSUME FileBufAssumption ==
  /\ BufSizes \subseteq Nat \ {0} /\ Chunk \in Nat \ {0}
  /\ MaxLen \in Nat /\ MaxPut \in Nat /\ PastEnd \in BOOLEAN

VARIABLES
  fb,     \* the object and its file
  ret     \* history: the last call and its result

vars == <<fb, ret>>

Least(a, b) == IF a < b THEN a ELSE b

In(f) == "in" \in f.mode
Out(f) == "out" \in f.mode
BufLen(f) == IF f.buf_size > 1 THEN f.buf_size - 1 ELSE 1

-----------------------------------------------------------------------------
\* The file

FileRead(f, n) == SubSeq(f.file, f.off + 1, Least(f.off + n, Len(f.file)))

FileWrite(f, s) ==
  [f EXCEPT !.file = SubSeq(@, 1, f.off) \o s
                       \o SubSeq(@, f.off + Len(s) + 1, Len(@)),
            !.off = @ + Len(s)]

-----------------------------------------------------------------------------
\* The areas.  get and next are eback..egptr and gptr - eback; put and room are
\* pbase..pptr and epptr - pbase.  While pback # <<>> the get area is _M_pback,
\* gptr is taken places into it, and get and next are what was saved.

\* _M_set_buffer: a get area of s, or a put area, or neither.
SetBuffer(f, s, putting) ==
  [f EXCEPT !.get = s, !.next = 0, !.put = <<>>,
            !.room = IF putting /\ Out(f) /\ f.buf_size > 1
                     THEN f.buf_size - 1 ELSE 0]

HasNext(f) == IF f.pback = <<>> THEN f.next < Len(f.get) ELSE f.taken = 0
NextChar(f) == IF f.pback = <<>> THEN f.get[f.next + 1] ELSE f.pback[1]
HasLast(f) == IF f.pback = <<>> THEN f.next > 0 ELSE f.taken > 0
Bump(f, n) == IF f.pback = <<>> THEN [f EXCEPT !.next = @ + n]
                                ELSE [f EXCEPT !.taken = @ + n]
LastChar(f) == NextChar(Bump(f, -1))

\* Where the get area is in the file, and where the program is.
Start(f) == f.off - (Len(f.get) - f.next)
Pos(f) == Start(f) + f.taken + Len(f.put)

\* Faulty variant: the character taken from _M_pback is not counted.
DestroyPbackUncounted(f) == [f EXCEPT !.pback = <<>>, !.taken = 0]

DestroyPback(f) ==
  [f EXCEPT !.next = @ + f.taken, !.pback = <<>>, !.taken = 0]

-----------------------------------------------------------------------------
\* Reading

\* Faulty variant: at the end of the file the get area stays as it is.
UnderflowStays(f) ==
  IF ~In(f) \/ f.writing THEN f
  ELSE LET g == DestroyPback(f)
           s == FileRead(g, BufLen(g))
       IN IF HasNext(g) THEN g
          ELSE IF s = <<>> THEN [g EXCEPT !.reading = FALSE]
          ELSE [SetBuffer(g, s, FALSE) EXCEPT !.off = @ + Len(s),
                                              !.reading = TRUE]

\* At the end of the file s is empty and the mode is "uncommitted" again.
Underflow(f) ==
  IF ~In(f) \/ f.writing THEN f
  ELSE LET g == DestroyPback(f)
           s == FileRead(g, BufLen(g))
       IN IF HasNext(g) THEN g
          ELSE [SetBuffer(g, s, FALSE) EXCEPT !.off = @ + Len(s),
                                              !.reading = s # <<>>]

Sgetc(f) == IF HasNext(f) THEN f ELSE Underflow(f)

Sbumpc(f) == LET g == Sgetc(f) IN IF HasNext(g) THEN Bump(g, 1) ELSE g

\* basic_streambuf::xsgetn: like n calls of sbumpc, the last of which may all
\* meet the end.  As <<f, s>>, with s the characters read.
GetOne(r) ==
  LET g == Sgetc(r[1])
  IN IF HasNext(g) THEN <<Bump(g, 1), Append(r[2], NextChar(g))>>
                   ELSE <<g, r[2]>>

GetEach(f, n) ==
  LET Do[i \in 0..n] == IF i = 0 THEN <<f, <<>>>> ELSE GetOne(Do[i - 1])
  IN Do[n]

\* Whether xsgetn reads past the buffer.
Direct(f, n) == n > BufLen(f) /\ In(f) /\ ~f.writing

\* Faulty variant: what is read directly does not end the get area.
GetDirectKeeps(f, n) ==
  LET have == SubSeq(f.get, f.next + 1, Len(f.get))
      s == FileRead(f, n - Len(have))
  IN << [f EXCEPT !.next = Len(f.get), !.off = @ + Len(s),
                  !.reading = s # <<>>], have \o s >>

\* What is in the buffer and then straight from the file.
GetDirect(f, n) ==
  LET have == SubSeq(f.get, f.next + 1, Len(f.get))
      s == FileRead(f, n - Len(have))
      g == [f EXCEPT !.next = Len(f.get), !.off = @ + Len(s)]
  IN << IF Len(s) = n - Len(have)
        THEN [SetBuffer(g, <<>>, TRUE) EXCEPT !.reading = TRUE]
        ELSE IF s = <<>>
        THEN [SetBuffer(g, <<>>, FALSE) EXCEPT !.reading = FALSE]
        ELSE g,
        have \o s >>

\* The character that was put back, while it is the next one.
First(f) == IF HasNext(f) THEN f.pback ELSE <<>>

\* A direct read that gets some of the characters asked for, and not all.
Partial(f, n) ==
  /\ Direct(f, n - Len(First(f)))
  /\ f.off < Len(f.file) /\ Pos(f) + n > Len(f.file)

Xsgetn(f, n) ==
  LET first == First(f)
      g == DestroyPback(IF first = <<>> THEN f ELSE Bump(f, 1))
      k == n - Len(first)
      r == IF Direct(g, k) THEN GetDirect(g, k) ELSE GetEach(g, k)
  IN <<r[1], first \o r[2]>>

-----------------------------------------------------------------------------
\* Writing

\* overflow(c) with s = <<c>>, or overflow() with s = <<>>.
Overflow(f, s) ==
  IF ~Out(f) \/ f.reading THEN f
  ELSE IF f.put # <<>>
       THEN SetBuffer(FileWrite(f, f.put \o s), <<>>, TRUE)
  ELSE IF f.buf_size > 1
       THEN [SetBuffer(f, <<>>, TRUE) EXCEPT !.put = s, !.writing = TRUE]
  ELSE [FileWrite(f, s) EXCEPT !.writing = TRUE]

Sputc(f, c) ==
  IF Len(f.put) < f.room THEN [f EXCEPT !.put = Append(@, c)]
                         ELSE Overflow(f, <<c>>)

\* basic_streambuf::xsputn: like as many calls of sputc.
PutEach(f, s) ==
  LET Do[i \in 0..Len(s)] == IF i = 0 THEN f ELSE Sputc(Do[i - 1], s[i])
  IN Do[Len(s)]

Xsputn(f, s) ==
  LET free == IF ~f.writing /\ f.buf_size > 1 THEN f.buf_size - 1
              ELSE f.room - Len(f.put)
  IN IF Out(f) /\ ~f.reading /\ Len(s) >= Least(Chunk, free)
     THEN [SetBuffer(FileWrite(f, f.put \o s), <<>>, TRUE)
             EXCEPT !.writing = TRUE]
     ELSE PutEach(f, s)

\* _M_terminate_output, and what sync does.
TerminateOutput(f) == IF f.put = <<>> THEN f ELSE Overflow(f, <<>>)

-----------------------------------------------------------------------------
\* Positioning

\* _M_seek, as <<f, p>> with p the position, or -1.
Seek(f, o, way) ==
  LET g == TerminateOutput(f)
      p == o + (IF way = "beg" THEN 0
                ELSE IF way = "cur" THEN g.off ELSE Len(g.file))
  IN << [SetBuffer(g, <<>>, FALSE) EXCEPT !.off = IF p >= 0 THEN p ELSE @,
                                          !.reading = FALSE,
                                          !.writing = FALSE],
        IF p >= 0 THEN p ELSE -1 >>

\* "cur" is where the program is in the get area.
Seekoff(f, o, way) ==
  LET g == DestroyPback(f)
      unread == IF g.reading /\ way = "cur" THEN Len(g.get) - g.next ELSE 0
  IN Seek(g, o - unread, way)

\* pbackfail(c) with s = <<c>>, or pbackfail() with s = <<>>; as <<f, ok>>.
Pbackfail(f, s) ==
  LET sought == Seekoff(f, -1, "cur")
      g == IF HasLast(f) THEN Bump(f, -1) ELSE Underflow(sought[1])
  IN IF ~In(f) \/ f.writing THEN <<f, FALSE>>
     ELSE IF ~HasLast(f) /\ sought[2] = -1 THEN <<sought[1], FALSE>>
     ELSE IF ~HasNext(g) THEN <<g, FALSE>>
     ELSE IF s = <<>> \/ s = <<NextChar(g)>> THEN <<g, TRUE>>
     ELSE IF f.pback = <<>>
          THEN <<[g EXCEPT !.pback = s, !.taken = 0, !.reading = TRUE], TRUE>>
     ELSE <<g, FALSE>>

-----------------------------------------------------------------------------
\* The calls of the program

Init ==
  /\ \E file \in UNION {[1..n -> Char] : n \in 0..MaxLen}, size \in BufSizes :
       fb = [file |-> file, off |-> 0, mode |-> {}, buf_size |-> size,
             get |-> <<>>, next |-> 0, put |-> <<>>, room |-> 0,
             reading |-> FALSE, writing |-> FALSE, pback |-> <<>>, taken |-> 0]
  /\ ret = <<"close", TRUE>>

Does(f, op, result) == fb' = f /\ ret' = <<op, result>>

setbuf(n) ==
  /\ fb.mode = {}
  /\ Does([fb EXCEPT !.buf_size = n], "setbuf", TRUE)

open(m, ate) ==
  /\ fb.mode = {}
  /\ LET f == [fb EXCEPT !.mode = m, !.file = IF "in" \in m THEN @ ELSE <<>>]
     IN Does(IF ate THEN Seekoff(f, 0, "end")[1] ELSE f, "open", TRUE)

close ==
  /\ fb.mode # {}
  /\ Does([SetBuffer(TerminateOutput(fb), <<>>, FALSE)
             EXCEPT !.mode = {}, !.off = 0, !.pback = <<>>, !.taken = 0,
                    !.reading = FALSE, !.writing = FALSE],
          "close", TRUE)

sgetc ==
  /\ fb.mode # {}
  /\ LET f == Sgetc(fb)
     IN Does(f, "peek", IF HasNext(f) THEN <<NextChar(f)>> ELSE <<>>)

sbumpc ==
  /\ fb.mode # {}
  /\ LET f == Sgetc(fb)
     IN Does(Sbumpc(fb), "get", IF HasNext(f) THEN <<NextChar(f)>> ELSE <<>>)

sgetn(n) ==
  /\ fb.mode # {}
  /\ PastEnd \/ ~Partial(fb, n)
  /\ LET r == Xsgetn(fb, n) IN Does(r[1], "get", r[2])

sungetc ==
  /\ fb.mode # {}
  /\ LET r == IF HasLast(fb) THEN <<Bump(fb, -1), TRUE>> ELSE Pbackfail(fb, <<>>)
     IN Does(r[1], "back", r[2])

sputbackc(c) ==
  /\ fb.mode # {}
  /\ LET r == IF HasLast(fb) /\ LastChar(fb) = c THEN <<Bump(fb, -1), TRUE>>
              ELSE Pbackfail(fb, <<c>>)
     IN Does(r[1], "back", r[2])

\* The file stays within its bound, and the program keeps the rule.
MayPut(n) ==
  /\ fb.mode # {} /\ ~fb.reading
  /\ fb.off + Len(fb.put) + n <= MaxLen

sputc(c) ==
  MayPut(1) /\ Does(Sputc(fb, c), "put", IF Out(fb) THEN 1 ELSE 0)

sputn(s) ==
  MayPut(Len(s)) /\ Does(Xsputn(fb, s), "put", IF Out(fb) THEN Len(s) ELSE 0)

\* Within the file, or to before its start.
seekoff(o, way) ==
  /\ fb.mode # {}
  /\ LET r == Seekoff(fb, o, way)
     IN r[2] <= Len(r[1].file) /\ Does(r[1], "seek", r[2])

\* Faulty variant: sync leaves the put area to overflow.
syncLater == fb.mode # {} /\ Does(fb, "sync", TRUE)

sync == fb.mode # {} /\ Does(TerminateOutput(fb), "sync", TRUE)

\* imbue with a facet that does not convert either.
imbue ==
  /\ fb.mode # {}
  /\ Does(IF fb.writing THEN SetBuffer(TerminateOutput(fb), <<>>, FALSE) ELSE fb,
          "imbue", TRUE)

Next ==
  \/ \E n \in BufSizes : setbuf(n)
  \/ \E m \in {{"in"}, {"out"}, {"in", "out"}}, ate \in BOOLEAN : open(m, ate)
  \/ close \/ sgetc \/ sbumpc \/ sungetc \/ sync \/ imbue
  \/ \E n \in 1..(MaxLen + 1) : sgetn(n)
  \/ \E c \in Char : sputbackc(c) \/ sputc(c)
  \/ \E n \in 0..MaxPut : \E s \in [1..n -> Char] : sputn(s)
  \/ \E o \in -1..MaxLen, way \in {"beg", "cur", "end"} : seekoff(o, way)

Spec == Init /\ [][Next]_vars

-----------------------------------------------------------------------------

\* The type invariant.
TypeOK ==
  /\ fb.file \in Seq(Char) /\ fb.off \in 0..Len(fb.file)
  /\ fb.mode \subseteq {"in", "out"} /\ fb.buf_size \in BufSizes
  /\ fb.get \in Seq(Char) /\ fb.next \in 0..Len(fb.get)
  /\ fb.put \in Seq(Char) /\ fb.room \in {0, fb.buf_size - 1}
  /\ fb.reading \in BOOLEAN /\ fb.writing \in BOOLEAN
  /\ fb.pback \in Seq(Char) /\ Len(fb.pback) <= 1 /\ fb.taken \in 0..Len(fb.pback)

\* The types hold, and _M_buf is the get area or the put area, never both, and
\* holds no more than it has room for; the flags that underflow and overflow go
\* by say which ("_M_reading == true && _M_writing == true is unused").
OneBuffer ==
  /\ TypeOK
  /\ fb.get # <<>> => fb.reading /\ fb.put = <<>> /\ Len(fb.get) <= BufLen(fb)
  /\ fb.put # <<>> => fb.writing /\ ~fb.reading /\ Len(fb.put) <= fb.room
  /\ ~(fb.reading /\ fb.writing)
  /\ fb.pback # <<>> => fb.reading

\* The get area is a copy of what the file has before its position: what can be
\* read or gone back to in the buffer is what is there.
GetAreaFresh ==
  /\ Len(fb.get) <= fb.off
  /\ fb.get = SubSeq(fb.file, fb.off - Len(fb.get) + 1, fb.off)

\* After sync, close, imbue or a seek nothing that was written is only in the
\* buffer.
Synced ==
  ret[1] \in {"sync", "close", "imbue", "seek"} => fb.put = <<>>

-----------------------------------------------------------------------------

\* What the program sees of f, which is at Pos(f): the character that was put back
\* and where, and the file with what is still in the put area.
Over(f) == IF f.pback = <<>> THEN <<>> ELSE <<Start(f), f.pback[1]>>
Content(f) == FileWrite(f, f.put).file
Dir(f) == IF f.reading THEN "get" ELSE IF f.writing THEN "put" ELSE "none"

Stream == INSTANCE FileStream WITH
  content <- Content(fb), pos <- Pos(fb), over <- Over(fb), dir <- Dir(fb),
  mode <- fb.mode

\* Reads, writes, put-backs, seeks, sync and close are what they would be on the
\* file itself, whatever the buffer's size and the order of the calls.
ImplementsStream == Stream!Spec
=============================================================================
