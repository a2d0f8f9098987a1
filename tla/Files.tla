-------------------------------- MODULE Files --------------------------------
(***************************************************************************)
(* The files of a run of the reference interpreter (src/eval/files.c, and  *)
(* the end of limba_eval, which closes those still open).                  *)
(*                                                                         *)
(* The system is any system: an open may be refused, a write or a close    *)
(* may fail after any number of bytes, a read may give fewer bytes than    *)
(* asked, fail, or find the end of a file that grows later. A call of the  *)
(* system that is interrupted is made again at once and does not show.     *)
(***************************************************************************)
EXTENDS Integers, Sequences, FiniteSets

CONSTANTS
  Byte,
  Mode,         \* how a program opens: 0 reads, another writes or appends
  Newline,      \* one of them
  FilesMax,     \* FILES_MAX
  FilesBuf,     \* FILES_BUF
  Content,      \* what a file opened to be read may hold
  Data,         \* what a call may write
  MaxOpens, MaxCalls, MaxLen, MaxSize    \* bounds: opens, calls, bytes a
                                         \* call reads, bytes a file grows to

ASSUME FilesAssumption ==
  /\ 0 \in Mode /\ Mode \subseteq 0..2
  /\ Newline \in Byte /\ Content \cup Data \subseteq Seq(Byte)
  /\ {FilesMax, FilesBuf} \subseteq Nat \ {0}
  /\ {MaxOpens, MaxCalls, MaxLen, MaxSize} \subseteq Nat

Handle == 1..MaxOpens
Place == 1..FilesMax
First(q, n) == SubSeq(q, 1, n)
Rest(q, n) == SubSeq(q, n + 1, Len(q))
Least(a, b) == IF a < b THEN a ELSE b

VARIABLES
  files,      \* efiles.f
  next,       \* efiles.next
  call,       \* the call running, or how the last one ended
  sys,        \* the other end of each handle, and what the program knows
  calls,      \* how many calls were made
  status      \* "run", or how the run ended

vars == <<files, next, call, sys, calls, status>>

\* A place of the table. A file read has buf[at + 1 ..] still to read.
Free == [handle |-> 0, mode |-> 0, end |-> FALSE, buf |-> <<>>, at |-> 0]

Unread(f) == Rest(f.buf, f.at)

\* For a file read: all, what the system has for it, src, what it has still
\* to give, got, what the program was given or an error it was told of
\* dropped, and ended, whether it was told of the end. For a file written:
\* acc, what the program gave but what an error it was told of dropped, out,
\* what the system got, and mark, how much of acc the last flush had to
\* write.
Opened(c) == [all |-> c, src |-> c, got |-> <<>>, ended |-> FALSE,
              acc |-> <<>>, out |-> <<>>, mark |-> 0]

NoCall == [op |-> "none", res |-> "ok"]

Init ==
  /\ files = [i \in Place |-> Free]
  /\ next = 1 /\ call = NoCall
  /\ sys = [h \in {} |-> Opened(<<>>)]
  /\ calls = 0 /\ status = "run"

-----------------------------------------------------------------------------

\* The program makes one more call.
Called ==
  /\ status = "run" /\ call.op = "none" /\ calls < MaxCalls
  /\ calls' = calls + 1 /\ UNCHANGED status

\* The call ends.
Ends(res) == call' = [op |-> "none", res |-> res]

\* find: the place of the handle h, if any
Find(h) == {i \in Place : h > 0 /\ files[i].handle = h}

\* Any call on a handle never given, or closed.
BadHandle(h) ==
  /\ Called /\ Find(h) = {} /\ Ends("handle")
  /\ UNCHANGED <<files, next, sys>>

\* Mutant: a handle closed is given again.
NextFree == CHOOSE h \in 1..(FilesMax + 1) : \A i \in Place : files[i].handle # h

\* The handle of the next file opened.
NextHandle == next

\* files_open: the system grants it or refuses (why)
Open(mode) ==
  LET free == {i \in Place : files[i].handle = 0} IN
  /\ Called /\ next <= MaxOpens
  /\ \/ free = {} /\ Ends("toomany") /\ UNCHANGED <<files, next, sys>>
     \/ /\ free # {}
        /\ \E res \in {"notfound", "denied", "cannot"} : Ends(res)
        /\ UNCHANGED <<files, next, sys>>
     \/ \E i \in free, c \in IF mode = 0 THEN Content ELSE {<<>>} :
          /\ \A j \in free : i <= j
          /\ files' = [files EXCEPT ![i] =
                         [Free EXCEPT !.handle = NextHandle, !.mode = mode]]
          /\ sys' = [h \in DOMAIN sys \cup {NextHandle} |->
                       IF h = NextHandle THEN Opened(c) ELSE sys[h]]
          /\ next' = next + 1 /\ Ends("ok")

-----------------------------------------------------------------------------
(* Writing.                                                                *)

\* put of q: all of it, or a part and then an error.
Put(q) == {[out |-> q, ok |-> TRUE]} \cup
          {[out |-> First(q, n), ok |-> FALSE] : n \in 0..(Len(q) - 1)}

\* drain: what may come of writing the buffer of f
Drain(f) ==
  IF f.mode = 0 THEN {[out |-> <<>>, ok |-> TRUE]} ELSE Put(f.buf)

\* Mutant: an error of the buffer is lost if the close goes well.
ShutQuiet(f) == {[out |-> d.out, ok |-> c] : d \in Drain(f), c \in BOOLEAN}

\* shut: the buffer written, then close, which may fail too
Shut(f) == {[out |-> d.out, ok |-> d.ok /\ c] : d \in Drain(f), c \in BOOLEAN}

\* What is known of a file once out went to the system: of an error, the
\* program is told.
Sent(x, out, ok) ==
  [x EXCEPT !.out = @ \o out, !.acc = IF ok THEN @ ELSE x.out \o out]

\* The same at a flush, which leaves nothing to write.
Flushed(x, out, ok) == LET y == Sent(x, out, ok)
                       IN [y EXCEPT !.mark = Len(y.acc)]

Result(ok) == IF ok THEN "ok" ELSE "io"

Flush(h) ==
  \E i \in Find(h) : \E d \in Drain(files[i]) :
    /\ Called /\ Ends(Result(d.ok))
    /\ sys' = [sys EXCEPT ![h] = Flushed(@, d.out, d.ok)]
    /\ files' = [files EXCEPT ![i].buf = IF files[i].mode = 0 THEN @ ELSE <<>>]
    /\ UNCHANGED next

Close(h) ==
  \E i \in Find(h) : \E d \in Shut(files[i]) :
    /\ Called /\ Ends(Result(d.ok))
    /\ sys' = [sys EXCEPT ![h] = Flushed(@, d.out, d.ok)]
    /\ files' = [files EXCEPT ![i] = Free]
    /\ UNCHANGED next

\* files_write begins.
Write(h, data) ==
  \E i \in Find(h) :
    /\ Called
    /\ IF files[i].mode = 0 THEN Ends("io")
       ELSE call' = [op |-> "write", at |-> i, data |-> data]
    /\ UNCHANGED <<files, next, sys>>

\* Mutant: a buffer is written when it is almost full.
FullSoon(buf) == Len(buf) >= FilesBuf - 1

\* Mutant: a buffer is never full.
FullNever(buf) == FALSE

\* The buffer has no room.
Full(buf) == Len(buf) = FilesBuf

\* One turn of its loop: what fits goes into the buffer, which is written
\* if it is full. At an error the buffer and the rest are dropped.
WriteOn ==
  LET i == call.at
      h == files[i].handle
      k == Least(FilesBuf - Len(files[i].buf), Len(call.data))
      buf == files[i].buf \o First(call.data, k)
      given == [sys[h] EXCEPT !.acc = @ \o First(call.data, k)]
      left == [call EXCEPT !.data = Rest(@, k)]
  IN /\ call.op = "write"
     /\ \/ /\ call.data = <<>> /\ Ends("ok") /\ UNCHANGED <<files, sys>>
        \/ /\ call.data # <<>> /\ ~Full(buf) /\ call' = left
           /\ files' = [files EXCEPT ![i].buf = buf]
           /\ sys' = [sys EXCEPT ![h] = given]
        \/ /\ call.data # <<>> /\ Full(buf)
           /\ \E d \in Put(buf) :
                /\ IF d.ok THEN call' = left ELSE Ends("io")
                /\ files' = [files EXCEPT ![i].buf = <<>>]
                /\ sys' = [sys EXCEPT ![h] =
                     IF d.ok THEN Sent(given, d.out, TRUE)
                     ELSE Flushed(given, d.out, FALSE)]
     /\ UNCHANGED <<next, calls, status>>

-----------------------------------------------------------------------------
(* Reading.                                                                *)

\* files_read of n bytes and files_read_line begin.
Read(h, n) ==
  \E i \in Find(h) :
    /\ Called
    /\ IF files[i].mode # 0 THEN Ends("io")
       ELSE call' = [op |-> "read", at |-> i, n |-> n, d |-> <<>>]
    /\ UNCHANGED <<files, next, sys>>

ReadLine(h) ==
  \E i \in Find(h) :
    /\ Called
    /\ IF files[i].mode # 0 THEN Ends("io")
       ELSE call' = [op |-> "line", at |-> i, d |-> <<>>]
    /\ UNCHANGED <<files, next, sys>>

Reading == call.op \in {"read", "line"}

\* The call has what it wants: its bytes, or the end of a line.
Sated == \/ call.op = "read" /\ Len(call.d) = call.n
         \/ call.op = "line" /\ call.d # <<>> /\ call.d[Len(call.d)] = Newline

\* Mutant: a file whose end was met is asked again.
AsksAgain(f) == f.at = Len(f.buf) /\ f.end /\ sys[f.handle].src = <<>>

\* The end was met, and all before it was read.
AtEnd(f) == f.at = Len(f.buf) /\ f.end

\* Mutant: the buffer all read is not emptied.
NotEmptied(f) == f

\* The buffer before a fill: emptied if it is all read.
Emptied(f) == IF f.at = Len(f.buf) THEN [f EXCEPT !.buf = <<>>, !.at = 0] ELSE f

\* The call ends, with what it has; the program is told of the end by a
\* count short of what it asked, or by no line at all.
ReadDone ==
  LET f == files[call.at] IN
  /\ Reading /\ (Sated \/ AtEnd(f)) /\ Ends("ok")
  /\ sys' = [sys EXCEPT ![f.handle].got = @ \o call.d,
               ![f.handle].ended = @ \/
                 (~Sated /\ (call.op = "read" \/ call.d = <<>>))]
  /\ UNCHANGED <<files, next, calls, status>>

\* fill: the system gives some bytes, no more than the buffer has room for,
\* none at the end of the file, or an error, which ends the call.
Fill ==
  LET i == call.at
      h == files[i].handle
      f == Emptied(files[i])
      room == Least(FilesBuf - Len(f.buf), Len(sys[h].src)) IN
  /\ Reading /\ ~Sated /\ ~AtEnd(files[i])
  /\ files[i].at = Len(files[i].buf)
  /\ \/ \E n \in (IF room = 0 THEN {0} ELSE 1..room) :
          /\ files' = [files EXCEPT ![i] =
               [f EXCEPT !.buf = @ \o First(sys[h].src, n),
                         !.end = @ \/ n = 0]]
          /\ sys' = [sys EXCEPT ![h].src = Rest(@, n)]
          /\ UNCHANGED call
     \/ /\ files' = [files EXCEPT ![i] = f] /\ Ends("io")
        /\ sys' = [sys EXCEPT ![h].got = @ \o call.d]
  /\ UNCHANGED <<next, calls, status>>

\* Mutant: what the call does not want is dropped.
PastAll(f, k) == [f EXCEPT !.at = Len(f.buf)]

\* The buffer with k bytes more read.
Past(f, k) == [f EXCEPT !.at = @ + k]

\* Bytes go from the buffer to the call: as many as it wants, one at a
\* time for a line.
Copy ==
  LET f == files[call.at]
      k == IF call.op = "line" THEN 1
           ELSE Least(Len(Unread(f)), call.n - Len(call.d)) IN
  /\ Reading /\ ~Sated /\ f.at < Len(f.buf)
  /\ call' = [call EXCEPT !.d = @ \o First(Unread(f), k)]
  /\ files' = [files EXCEPT ![call.at] = Past(f, k)]
  /\ UNCHANGED <<next, sys, calls, status>>

\* Someone else adds a byte to a file that is read.
Grow(h, b) ==
  /\ status = "run" /\ \E i \in Find(h) : files[i].mode = 0
  /\ Len(sys[h].all) < MaxSize
  /\ sys' = [sys EXCEPT ![h].src = Append(@, b), ![h].all = Append(@, b)]
  /\ UNCHANGED <<files, next, call, calls, status>>

-----------------------------------------------------------------------------

\* A run that ended so is told of an error of its files.
Tells(own) == own \in {"ok", "halt"}

\* The run ends, by itself or on an error: files_close_all, and the status
\* that limba_eval gives.
EndRun(own) ==
  LET open == {i \in Place : files[i].handle # 0} IN
  /\ status = "run" /\ call.op = "none"
  /\ \E d \in [open -> [out : UNION {{x.out : x \in Shut(files[i])} : i \in open},
                        ok : BOOLEAN]] :
       /\ \A i \in open : d[i] \in Shut(files[i])
       /\ status' = IF Tells(own) /\ \E i \in open : ~d[i].ok THEN "io" ELSE own
       /\ sys' = [h \in DOMAIN sys |->
            IF \E i \in open : files[i].handle = h
            THEN LET i == CHOOSE j \in open : files[j].handle = h
                 IN Flushed(sys[h], d[i].out, status' \notin {"io", "error"})
            ELSE sys[h]]
  /\ files' = [i \in Place |-> Free]
  /\ UNCHANGED <<next, call, calls>>

Step == WriteOn \/ ReadDone \/ Fill \/ Copy

Next ==
  \/ \E mode \in Mode : Open(mode)
  \/ \E h \in 0..(MaxOpens + 1) : BadHandle(h) \/ Flush(h) \/ Close(h)
  \/ \E h \in Handle, data \in Data : Write(h, data)
  \/ \E h \in Handle, n \in 0..MaxLen : Read(h, n)
  \/ \E h \in Handle : ReadLine(h)
  \/ \E h \in Handle, b \in Byte : Grow(h, b)
  \/ Step
  \/ \E own \in {"ok", "halt", "error"} : EndRun(own)

Spec == Init /\ [][Next]_vars

\* The interpreter goes on with a call it began.
FairSpec == Spec /\ WF_vars(Step)

-----------------------------------------------------------------------------

\* What the handle h still has to write.
Pending(h) ==
  LET open == {i \in Find(h) : files[i].mode # 0}
  IN IF open = {} THEN <<>> ELSE files[CHOOSE i \in open : TRUE].buf

\* The type invariant.
TypeOK ==
  /\ next \in 1..(MaxOpens + 1) /\ calls \in 0..MaxCalls
  /\ DOMAIN sys = 1..(next - 1)
  /\ \A i \in Place :
       LET f == files[i] IN
       /\ f.handle \in 0..(next - 1) /\ f.mode \in Mode /\ f.end \in BOOLEAN
       /\ f.at \in 0..Len(f.buf) /\ Len(f.buf) <= FilesBuf
       /\ f.mode # 0 => ~f.end /\ f.at = 0 /\ Len(f.buf) < FilesBuf
  /\ call.op = "none" =>
       call.res \in {"ok", "handle", "io", "notfound", "denied", "cannot",
                     "toomany"}
  /\ status \in {"run", "ok", "halt", "error", "io"}

\* Every byte written went to the system, in order, or is in the buffer of
\* its file, or was dropped by an error that the program, or the report of
\* the run, was told of; also once the file is closed and once the run has
\* ended (ir.md 15.11, the end of the run).
NothingLost == \A h \in DOMAIN sys : sys[h].out \o Pending(h) = sys[h].acc

\* The buffer is written when it is full, at a flush and at a close, and
\* never before (ir.md 15.11, buffers), however the writes cut their bytes.
WrittenWhenFull ==
  \A i \in Place : files[i].handle # 0 /\ files[i].mode # 0 =>
    LET x == sys[files[i].handle]
    IN Len(files[i].buf) = (Len(x.acc) - x.mark) % FilesBuf

\* What was read, what the call running has, what is in the buffer and what
\* the system still has are the file: nothing is skipped or given twice, by
\* calls for bytes and calls for lines in any order.
NothingSkipped ==
  \A i \in Place : files[i].handle # 0 /\ files[i].mode = 0 =>
    LET x == sys[files[i].handle]
        d == IF Reading /\ call.at = i THEN call.d ELSE <<>>
    IN x.got \o d \o Unread(files[i]) \o x.src = x.all

\* The end is met only where the system has no more to give.
EndMet ==
  [][\A i \in Place :
       files'[i].end /\ ~files[i].end => sys[files[i].handle].src = <<>>]_vars

\* The end of a file is final for its handle, also when the file grows
\* (ir.md 15.11, buffers).
EndFinal ==
  [][\A h \in DOMAIN sys : sys[h].ended => sys'[h].got = sys[h].got]_vars

\* A handle closed never names a file again (ir.md 15.11, handles).
HandleOnce ==
  [][\A h \in 1..(next - 1) : Find(h) = {} => Find(h)' = {}]_vars

\* A call on a file ends, however the system cuts its reads and the buffer
\* its writes.
CallEnds == call.op # "none" ~> call.op = "none"
=============================================================================
