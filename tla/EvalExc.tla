------------------------------- MODULE EvalExc -------------------------------
(***************************************************************************)
(* Calls, exceptions and par_for of the reference interpreter              *)
(* (src/eval/eval.c): call, caught, exc_message, par_for and the end of    *)
(* limba_eval.                                                             *)
(*                                                                         *)
(* An exception on its way is spread over fields of the run (status, code, *)
(* pos, pos_given, exc_msg) that every catcher must reset; its position    *)
(* and its message are made late, by whoever needs them first; and every   *)
(* par_for running keeps one more message at its place of a shared stack.  *)
(*                                                                         *)
(* The program is any program whose instructions carry the positions of    *)
(* InstPos and whose raise is given what Raises has: each instruction is a *)
(* free choice.                                                            *)
(***************************************************************************)
EXTENDS Integers, Sequences, FiniteSets

CONSTANTS
  Code,       \* the identities of exceptions
  Fatal,      \* those limba_exception_catchable refuses
  NOMEM, STACK, IO,
  Pos,        \* the positions of the module; 0 for none
  InstPos,    \* those that its instructions carry
  Msg,        \* the str that are not the word 0
  Empty,      \* the one of no bytes
  Text,       \* the text of each identity (limba_trap_message), or Empty
  Raises,     \* what raise is given: an identity and a message
  Nil,        \* the word 0
  MaxDepth,   \* lim.max_depth
  MaxSteps,   \* lim.max_steps
  MaxInt,     \* the greatest index of par_for (INT64_MAX)
  NoPar, None

ASSUME CodeAssumption ==
  /\ Fatal \subseteq Code /\ {NOMEM, STACK} \subseteq Fatal
  /\ IO \in Code \ Fatal
ASSUME PosAssumption == 0 \in Pos /\ InstPos \subseteq Pos
ASSUME MsgAssumption ==
  Text \in [Code -> Msg] /\ Empty \in Msg /\ Nil \notin Msg
ASSUME LimitAssumption ==
  MaxDepth \in Nat \ {0} /\ MaxSteps \in Nat /\ MaxInt \in Nat

Index == (-MaxInt - 1)..MaxInt
Str   == Msg \cup {Nil}

ASSUME RaisesAssumption == Raises \subseteq Code \X Str

\* A par_for at work, with the place of its message.
ParFrame == [lo : Index, i : Index, hi : Index, more : BOOLEAN,
             raised : BOOLEAN, code : Code \cup {0}, pos : Pos,
             slot : 1..MaxDepth]

ASSUME NoneAssumption ==
  /\ NoPar \notin ParFrame
  /\ None \notin [id : Code, pos : Pos, msg : Msg]

VARIABLES
  frames,     \* e->frames, innermost last
  par_msgs,   \* e->par_msgs
  exc,        \* e->status, code, pos, pos_given and exc_msg
  ok,         \* ok of the innermost call
  steps,      \* e->steps
  got,        \* the parameters of the handler entered last
  phase       \* of limba_eval: "start", "run", "end"

vars == <<frames, par_msgs, exc, ok, steps, got, phase>>

Catchable(c) == c \notin Fatal

Status == {"ok", "trap", "unreachable", "limit", "bad", "halt"}

NoExc == [status |-> "ok", code |-> 0, pos |-> 0, pos_given |-> FALSE,
          exc_msg |-> Nil]

\* trap(e, c): the other fields keep what they have.
Trapped(c) == [exc EXCEPT !.status = "trap", !.code = c]

\* Mutant: caught does not ask whether a handler may catch it.
HandledAll(x) == x.status = "trap"

\* What caught and par_for deal with.
Handled(x) == x.status = "trap" /\ Catchable(x.code)

\* Mutant: pos_given stays set.
DoneButGiven(x) == [NoExc EXCEPT !.pos_given = x.pos_given]

\* The fields once x is dealt with.
Done(x) == NoExc

\* exc_message: the message given, or else the text of the trap.
Message(x) == IF x.exc_msg = Nil THEN Text[x.code] ELSE x.exc_msg

\* Once an instruction at p fails: the position, if nothing gave one.
At(x, p) ==
  IF x.pos = 0 /\ ~x.pos_given THEN [x EXCEPT !.pos = p] ELSE x

-----------------------------------------------------------------------------
(* A frame: whether the block running has a handler, the position of the   *)
(* call it runs, and the par_for that this call runs.                      *)

Frame == [handler : BOOLEAN, inst : Pos, par : {NoPar} \cup ParFrame]

Entered == {[handler |-> h, inst |-> 0, par |-> NoPar] : h \in BOOLEAN}

Top == frames[Len(frames)]
Below == SubSeq(frames, 1, Len(frames) - 1)
SetTop(fs, f) == [fs EXCEPT ![Len(fs)] = f]

\* The run is at the next instruction of the innermost call.
Running == phase = "run" /\ frames # <<>> /\ ok /\ Top.par = NoPar

\* Mutant: one call too many.
RoomPast == Len(frames) <= MaxDepth

\* There is room for one more call.
Room == Len(frames) < MaxDepth

\* Mutant: the instructions are not counted.
StepFree(p) ==
  Running /\ steps < MaxSteps /\ steps' = steps /\ p \in InstPos

\* One more instruction, at position p.
Step(p) ==
  Running /\ steps < MaxSteps /\ steps' = steps + 1 /\ p \in InstPos

Init ==
  /\ frames = <<>> /\ par_msgs = <<>>
  /\ exc = NoExc /\ ok = TRUE
  /\ steps = 0 /\ got = None /\ phase = "start"

\* limba_eval: the globals and the slots of the entry fit, or NOMEM.
Start ==
  /\ phase = "start" /\ phase' = "run"
  /\ \/ \E f \in Entered : frames' = <<f>> /\ UNCHANGED <<exc, ok>>
     \/ exc' = Trapped(NOMEM) /\ ok' = FALSE /\ UNCHANGED frames
  /\ UNCHANGED <<par_msgs, steps, got>>

\* An instruction that fails: its position is p, the exception x.
Fails(x, p) ==
  /\ exc' = At(x, p) /\ ok' = FALSE
  /\ UNCHANGED <<frames, par_msgs, got, phase>>

\* check, trap, a run-time call that traps, with a text of its own or not.
Trap(c, p) ==
  /\ Step(p)
  /\ \E m \in Str : Fails([Trapped(c) EXCEPT !.exc_msg = m], p)

\* raise, at p, with the position q and the message m.
Raise(c, q, m, p) ==
  /\ Step(p) /\ <<c, m>> \in Raises
  /\ Fails([status |-> "trap", code |-> c, pos |-> q, pos_given |-> TRUE,
            exc_msg |-> m], p)

\* unreachable, halt, a wrong module.
Stop(p) ==
  /\ Step(p)
  /\ \E s \in {"unreachable", "halt", "bad"} :
       Fails([exc EXCEPT !.status = s], p)

\* br, cbr, switch: another block, with a handler or not.
Jump(p) ==
  /\ Step(p)
  /\ \E h \in BOOLEAN : frames' = SetTop(frames, [Top EXCEPT !.handler = h])
  /\ UNCHANGED <<par_msgs, exc, ok, got, phase>>

\* call at p.  Too deep is STACK; slots that do not fit are NOMEM: in both
\* no block of the callee runs, and the exception is that of the call.
Call(p) ==
  /\ Step(p)
  /\ \/ /\ Room
        /\ \E f \in Entered :
             frames' = Append(SetTop(frames, [Top EXCEPT !.inst = p]), f)
        /\ UNCHANGED <<par_msgs, exc, ok, got, phase>>
     \/ Room /\ Fails(Trapped(NOMEM), p)
     \/ ~Room /\ Fails(Trapped(STACK), p)

-----------------------------------------------------------------------------
(* par_for *)

\* After the body of index i: i == hi breaks before i++.
NextIndex(par) ==
  IF par.i = par.hi THEN [par EXCEPT !.more = FALSE]
  ELSE [par EXCEPT !.i = @ + 1]

ParFor(lo, hi, p) ==
  /\ Step(p)
  /\ par_msgs' = Append(par_msgs, Nil)
  /\ frames' = SetTop(frames,
       [Top EXCEPT !.inst = p,
          !.par = [lo |-> lo, i |-> lo, hi |-> hi, more |-> lo <= hi,
                   raised |-> FALSE, code |-> 0, pos |-> 0,
                   slot |-> Len(par_msgs) + 1]])
  /\ UNCHANGED <<exc, ok, got, phase>>

InPar == phase = "run" /\ frames # <<>> /\ ok /\ Top.par # NoPar

\* Mutant: the message of the last exception of the body.
MsgsLast(par, x) == [par_msgs EXCEPT ![par.slot] = Message(x)]

\* The messages, with that of the first exception of the body.
MsgsFirst(par, x) ==
  IF par.raised THEN par_msgs ELSE [par_msgs EXCEPT ![par.slot] = Message(x)]

\* Mutant: a par_for that ends leaves its message.
MsgsLeft(par) == par_msgs

\* The messages of the par_for around this one.
MsgsAround(par) == SubSeq(par_msgs, 1, par.slot - 1)

\* The body left with x; fs are the calls up to the one of par_for.
BodyLeft(fs, x) ==
  LET f == fs[Len(fs)]
      par == f.par
  IN  IF Handled(x)
      THEN /\ exc' = Done(x) /\ ok' = TRUE
           /\ par_msgs' = MsgsFirst(par, x)
           /\ frames' = SetTop(fs, [f EXCEPT !.par = NextIndex(
                IF par.raised THEN par
                ELSE [par EXCEPT !.raised = TRUE, !.code = x.code,
                                 !.pos = x.pos])])
      ELSE /\ par_msgs' = MsgsAround(par)
           /\ exc' = At(x, f.inst) /\ ok' = FALSE
           /\ frames' = SetTop(fs, [f EXCEPT !.par = NoPar])

\* One iteration: the body is entered, or cannot start.
ParIter ==
  /\ InPar /\ Top.par.more
  /\ \/ /\ Room
        /\ \E f \in Entered : frames' = Append(frames, f)
        /\ UNCHANGED <<par_msgs, exc, ok>>
     \/ Room /\ BodyLeft(frames, Trapped(NOMEM))
     \/ ~Room /\ BodyLeft(frames, Trapped(STACK))
  /\ UNCHANGED <<steps, got, phase>>

\* Every iteration ran: the exception kept, if any, leaves par_for.
ParEnd ==
  /\ InPar /\ ~Top.par.more
  /\ par_msgs' = MsgsAround(Top.par)
  /\ frames' = SetTop(frames, [Top EXCEPT !.par = NoPar])
  /\ IF Top.par.raised
     THEN /\ ok' = FALSE
          /\ exc' = [status |-> "trap", code |-> Top.par.code,
                     pos |-> Top.par.pos, pos_given |-> TRUE,
                     exc_msg |-> par_msgs[Top.par.slot]]
     ELSE UNCHANGED <<exc, ok>>
  /\ UNCHANGED <<steps, got, phase>>

-----------------------------------------------------------------------------
(* The end of a call *)

\* ret: back in the caller, or in the par_for of the caller.
Return(p) ==
  /\ Step(p)
  /\ frames' = IF Below # <<>> /\ Below[Len(Below)].par # NoPar
               THEN SetTop(Below, [Below[Len(Below)] EXCEPT
                                     !.par = NextIndex(@)])
               ELSE Below
  /\ UNCHANGED <<par_msgs, exc, ok, got, phase>>

\* The innermost call is left with x.
CallLeft(x) ==
  IF Below # <<>> /\ Below[Len(Below)].par # NoPar
  THEN BodyLeft(Below, x)
  ELSE /\ frames' = Below /\ ok' = FALSE
       /\ exc' = IF Below = <<>> THEN x ELSE At(x, Below[Len(Below)].inst)
       /\ UNCHANGED par_msgs

\* Too many steps: the call is left before its instruction.
Limit ==
  /\ Running /\ steps = MaxSteps
  /\ CallLeft([exc EXCEPT !.status = "limit"])
  /\ UNCHANGED <<steps, got, phase>>

Failing == phase = "run" /\ frames # <<>> /\ ~ok

\* caught: the handler of the block gets the occurrence.
Caught ==
  /\ Failing /\ Top.handler /\ Handled(exc)
  /\ got' = [id |-> exc.code, pos |-> exc.pos, msg |-> Message(exc)]
  /\ exc' = Done(exc) /\ ok' = TRUE
  /\ \E h \in BOOLEAN : frames' = SetTop(frames, [Top EXCEPT !.handler = h])
  /\ UNCHANGED <<par_msgs, steps, phase>>

Unwind ==
  /\ Failing /\ ~(Top.handler /\ Handled(exc))
  /\ CallLeft(exc)
  /\ UNCHANGED <<steps, got, phase>>

\* The end of limba_eval: the files still open are written and closed, and
\* an error there is the trap IO unless the run stopped on one of its own;
\* the message is for the report.
End ==
  /\ phase = "run" /\ frames = <<>>
  /\ \E failed \in BOOLEAN :
       LET x == IF failed /\ exc.status \in {"ok", "halt"}
                THEN [exc EXCEPT !.status = "trap", !.code = IO, !.pos = 0,
                                 !.exc_msg = Nil]
                ELSE exc
       IN  exc' = IF x.status = "trap" THEN [x EXCEPT !.exc_msg = Message(x)]
                  ELSE x
  /\ phase' = "end"
  /\ UNCHANGED <<frames, par_msgs, ok, steps, got>>

Terminated == phase = "end" /\ UNCHANGED vars

-----------------------------------------------------------------------------
Inst(p) ==
  \/ \E c \in Code : Trap(c, p)
  \/ \E c \in Code, q \in Pos, m \in Str : Raise(c, q, m, p)
  \/ \E lo \in Index, hi \in Index : ParFor(lo, hi, p)
  \/ Stop(p) \/ Jump(p) \/ Call(p) \/ Return(p)

Next ==
  \/ Start
  \/ \E p \in InstPos : Inst(p)
  \/ ParIter \/ ParEnd
  \/ Limit \/ Caught \/ Unwind
  \/ End
  \/ Terminated

Spec == Init /\ [][Next]_vars

\* One thread of control: while the run can go on, it does.
FairSpec == Spec /\ WF_vars(Next)

-----------------------------------------------------------------------------
(* The occurrences of the IR, in the fields of the run. *)

\* The str that the word w is.
Said(w) == IF w = Nil THEN Empty ELSE w

\* A raise said its message (13.2), a trap has its own words or the text of
\* its identity (13.6).
OccOf(x) ==
  [id |-> x.code, pos |-> x.pos,
   msg |-> IF x.pos_given THEN Said(x.exc_msg) ELSE Message(x)]

\* The par_for that keeps its message at the place k.
ParAt(k) ==
  LET d == CHOOSE d \in 1..Len(frames) :
             frames[d].par # NoPar /\ frames[d].par.slot = k
  IN  frames[d].par

Flight == IF phase = "run" /\ exc.status = "trap" THEN OccOf(exc) ELSE None

Pars == [k \in 1..Len(par_msgs) |->
  [todo  |-> IF ParAt(k).more THEN ParAt(k).i..ParAt(k).hi ELSE {},
   first |-> IF ParAt(k).raised
             THEN [id |-> ParAt(k).code, pos |-> ParAt(k).pos,
                   msg |-> par_msgs[k]]
             ELSE None]]

Report == IF phase = "end" /\ exc.status = "trap" THEN OccOf(exc) ELSE None

Occ == INSTANCE Occurrences WITH
  flight <- Flight, pars <- Pars, over <- (phase = "end"),
  report <- Report, NoPos <- 0

\* Every instruction has a position, and a raise whose message is the word 0
\* is of an identity without a text.
Regular ==
  /\ 0 \notin InstPos
  /\ \A r \in Raises : r[2] = Nil => Text[r[1]] = Empty

\* The run implements the exceptions of the IR: an occurrence reaches the
\* handler, the par_for or the report with the identity, the position and the
\* message it was raised with, whatever was caught, kept or dropped before.
\* It does so for the programs of Regular: exc_message (eval.c:2149) takes
\* the word 0 of a raise, an empty message, for none, and shows the text of
\* the identity if it has one; and the trap of an instruction without a
\* position gets that of a call it leaves (eval.c:2373).
Implements == Occ!Spec

TypeOK ==
  /\ frames \in Seq(Frame) /\ Len(frames) <= MaxDepth
  /\ par_msgs \in Seq(Str)
  /\ exc \in [status : Status, code : Code \cup {0}, pos : Pos,
             pos_given : BOOLEAN, exc_msg : Str]
  /\ ok \in BOOLEAN
  /\ steps \in 0..MaxSteps
  /\ got \in {None} \cup [id : Code, pos : Pos, msg : Str]
  /\ phase \in {"start", "run", "end"}

\* While the program runs, no field of an exception dealt with is left.
NothingLeft == ok /\ phase # "end" => exc = NoExc

\* The shared stack of messages is that of the par_for running, whatever way
\* each of them ended.
ParsRunning == {d \in 1..Len(frames) : frames[d].par # NoPar}

ParSlots ==
  /\ \A d \in ParsRunning :
       frames[d].par.slot = Cardinality({k \in ParsRunning : k <= d})
  /\ Len(par_msgs) = Cardinality(ParsRunning)

\* What no handler may catch stops the run: no instruction of the program
\* runs after it, in no handler, no par_for, no caller.
FatalStops ==
  [][~ok /\ (exc.status # "trap" \/ exc.code \in Fatal)
     => ~ok' /\ steps' = steps /\ got' = got]_vars

\* Every run ends: the steps are counted wherever the program runs.
RunEnds == <>(phase = "end")
=============================================================================
