------------------------------ MODULE EvalHeap ------------------------------
(***************************************************************************)
(* The memory of the reference interpreter (src/eval/eval.c): the budget   *)
(* of a run and the collection of strings and BigInts.                     *)
(*                                                                         *)
(* A value (an estr: a string or a BigInt) is an address.  The collection  *)
(* frees the values that no word of a call alive, of the memory alive or   *)
(* of an exception on its way holds.  Every allocation may collect, so     *)
(* what matters is the order of the code: what a call, an exception or a   *)
(* par_for holds at the moment an allocation runs.                         *)
(*                                                                         *)
(* Abstractions.  A frame has registers that hold words of type str and    *)
(* one slot of one word; a block of mem_alloc and the global have one word *)
(* each.  Whether a collection runs before a value is made                 *)
(* (collect_often, or since past gc_next) is a free choice.  A value of    *)
(* mrefs # 0 (check_mem) is the subject of EvalCounts.                     *)
(***************************************************************************)
EXTENDS Integers, FiniteSets

CONSTANTS
  Val,        \* the addresses a value may have
  Block,      \* the addresses mem_alloc gives, never reused (the arena)
  Const,      \* the sconst of the module: immortal strings made on first use
  Reg,        \* the registers of a function that hold words of type str
  MaxDepth,   \* lim.max_depth
  SizeOf,     \* the bytes each object takes
  MaxSize,    \* a bound of SizeOf
  Budget,     \* lim.max_memory
  Word64,     \* 2^w: the counters of bytes are unsigned words of w bits
  InitStr,    \* the global starts with an initial string (LIMBA_INIT_STR)
  Nil,        \* the word 0: the empty string, an unset message
  TrapMsg,    \* a message of e->trapmsgs: immortal, outside the values
  NoPar       \* no par_for runs in the frame

Glob  == 0                  \* the place of the global
Slot  == 1..MaxDepth        \* the slot of the call at each depth
Place == {Glob} \cup Slot \cup Block
Obj   == Val \cup Place
Word  == Val \cup {Nil, TrapMsg}

ASSUME DepthAssumption == MaxDepth \in Nat \ {0}
ASSUME ObjAssumption ==
  /\ IsFiniteSet(Val) /\ IsFiniteSet(Block)
  /\ Val \cap Place = {} /\ Block \cap (Slot \cup {Glob}) = {}
  /\ Nil \notin Val /\ TrapMsg \notin Val /\ Nil # TrapMsg
  /\ NoPar \notin Word
ASSUME SizeAssumption ==
  /\ MaxSize \in Nat /\ SizeOf \in [Obj -> 1..MaxSize]
  /\ Word64 \in Nat \ {0} /\ Budget \in 0..(Word64 - 1)
ASSUME InitAssumption == InitStr \in BOOLEAN

VARIABLES
  vals,       \* e->vals: the values made, not yet freed
  immortal,   \* those of sconst and of the initial values
  block,      \* e->heap and the arena: each block "unused", "live", "freed"
  depth,      \* e->depth: the calls alive
  v,          \* the registers of each call alive
  mem,        \* the words of memory
  par_msg,    \* e->par_msgs, at the depth of the call that runs the par_for
  sconst,     \* e->sconst
  exc_msg,    \* e->exc_msg
  status,     \* where the run is: see Status
  used,       \* e->used
  valbytes,   \* e->valbytes
  refused     \* no state of the code: the bytes that the budget refused, 0 if
              \* it refused none

vars == <<vals, immortal, block, depth, v, mem, par_msg, sconst, exc_msg,
          status, used, valbytes, refused>>

-----------------------------------------------------------------------------
(* Bytes.  The bytes of a set of objects, as the number of their bytes. *)

Bytes(S) ==
  Cardinality({c \in S \X (1..MaxSize) : c[2] <= SizeOf[c[1]]})

Live == {b \in Block : block[b] = "live"}

\* What an access may touch (objmap_holds): the global, the slots of the
\* calls running, the blocks not freed.
LivePlace ==
  (IF status \in {"start", "norun"} THEN {} ELSE {Glob})
    \cup (1..depth) \cup Live

\* The words that collect marks: the registers of the calls alive, the words
\* of memory alive, the exception on its way, what each par_for keeps.
HeldByCalls  == {v[d][r] : d \in 1..depth, r \in Reg}
HeldByMemory == {mem[p] : p \in LivePlace}
HeldByPars   == {par_msg[d] : d \in 1..depth}

\* Mutant: the message that a par_for keeps is no root.
MarkedNotPar == HeldByCalls \cup HeldByMemory \cup {exc_msg}

Marked == HeldByCalls \cup HeldByMemory \cup {exc_msg} \cup HeldByPars

\* Mutant: an immortal value that nothing holds is freed.
SurvivesHeld(x) == x \in Marked

Survives(x) == x \in immortal \/ x \in Marked

\* The values a collection leaves.
Kept == {x \in vals : Survives(x)}

-----------------------------------------------------------------------------
(* The budget: take and take_val, on unsigned words.  S is the set of the *)
(* values left so far: vals, or Kept once a collection ran.               *)

UsedAt(S)     == (used - Bytes(vals \ S)) % Word64
ValbytesAt(S) == (valbytes - Bytes(vals \ S)) % Word64

\* Mutant: one byte past the budget.
FitsPast(n, S) == n <= (Budget + 1 - UsedAt(S)) % Word64

\* n <= e->budget - e->used
Fits(n, S) == n <= (Budget - UsedAt(S)) % Word64

\* Mutant: take fails without a collection.
TakeNoCollect(n, S) == S

\* What take(n) leaves: it collects when n does not fit, and fails when n
\* does not fit in what it leaves.
Take(n, S) == IF Fits(n, S) THEN S ELSE Kept

\* take_val collects first, or not: collect_often, since and gc_next.
BeforeValue == {vals, Kept}

Sizes == {SizeOf[x] : x \in Val}

\* Only what the collections of an allocation did.
Collected(S) ==
  /\ vals' = S
  /\ used' = UsedAt(S)
  /\ valbytes' = ValbytesAt(S)

\* n bytes of memory taken, the values of S left.
Taken(n, S) ==
  /\ vals' = S
  /\ used' = (UsedAt(S) + n) % Word64
  /\ valbytes' = ValbytesAt(S)
  /\ UNCHANGED refused

\* The value x made, the values of S left.
Made(x, S) ==
  /\ vals' = S \cup {x}
  /\ used' = (UsedAt(S) + SizeOf[x]) % Word64
  /\ valbytes' = (ValbytesAt(S) + SizeOf[x]) % Word64
  /\ UNCHANGED refused

\* NOMEM for n bytes, the values of S left: the budget has no room, or it has
\* and the host has not, and the bytes taken are given back.
NoMemory(n, S) ==
  /\ Collected(S)
  /\ status' = "nomem"
  /\ refused' = IF Fits(n, S) THEN 0 ELSE n

Untouched == UNCHANGED <<vals, used, valbytes, refused>>

-----------------------------------------------------------------------------
\* "exc": an exception a handler may catch is on its way; "nomem", "stack"
\* and "fatal" (raised): one that no handler may; "bad": a wrong module;
\* "norun": the global does not fit.
Status == {"start", "norun", "entry", "ok", "exc", "nomem", "stack", "fatal",
           "bad"}

NoRegs == [r \in Reg |-> Nil]

\* The run is at an instruction of the innermost call.
Running == status = "ok" /\ depth > 0 /\ par_msg[depth] = NoPar

\* The innermost call runs a par_for, between two iterations.
InParFor == status = "ok" /\ depth > 0 /\ par_msg[depth] # NoPar

Init ==
  /\ vals = {} /\ immortal = {}
  /\ block = [b \in Block |-> "unused"]
  /\ depth = 0
  /\ v = [d \in Slot |-> NoRegs]
  /\ mem = [p \in Place |-> Nil]
  /\ par_msg = [d \in Slot |-> NoPar]
  /\ sconst = [c \in Const |-> Nil]
  /\ exc_msg = Nil
  /\ status = "start"
  /\ used = 0 /\ valbytes = 0 /\ refused = 0

\* limba_eval before the run: the global, if the budget and the host have
\* room, then its initial string, made whatever the budget.
Begin ==
  /\ status = "start"
  /\ \/ /\ status' = "norun"
        /\ UNCHANGED <<vals, immortal, mem, used, valbytes>>
     \/ /\ Fits(SizeOf[Glob], vals)
        /\ status' = "entry"
        /\ IF InitStr
           THEN \E x \in Val :
                  /\ vals' = {x} /\ immortal' = {x}
                  /\ mem' = [mem EXCEPT ![Glob] = x]
                  /\ used' = (SizeOf[Glob] + SizeOf[x]) % Word64
                  /\ valbytes' = SizeOf[x] % Word64
           ELSE /\ Taken(SizeOf[Glob], vals)
                /\ UNCHANGED <<immortal, mem>>
  /\ UNCHANGED <<block, depth, v, par_msg, sconst, exc_msg, refused>>

\* call, up to its first instruction: too deep is STACK; its slot, zeroed,
\* comes out of the budget, and without room for it the call ends with NOMEM.
Enter(regs, from) ==
  IF depth >= MaxDepth
  THEN /\ status' = "stack" /\ Untouched
       /\ par_msg' = from
       /\ UNCHANGED <<depth, v, mem>>
  ELSE LET n == SizeOf[depth + 1]
           S == Take(n, vals)
       IN  \/ /\ Fits(n, S)
              /\ Taken(n, S)
              /\ depth' = depth + 1
              /\ v' = [v EXCEPT ![depth + 1] = regs]
              /\ mem' = [mem EXCEPT ![depth + 1] = Nil]
              /\ status' = "ok"
              /\ UNCHANGED par_msg
           \/ /\ NoMemory(n, S)
              /\ par_msg' = from
              /\ UNCHANGED <<depth, v, mem>>

EnterRest == UNCHANGED <<immortal, block, sconst, exc_msg>>

\* The call of the entry, which has no parameters.
CallEntry ==
  /\ status = "entry"
  /\ Enter(NoRegs, par_msg) /\ EnterRest

\* A call from the innermost call: the register a is the argument for the
\* parameter r.
Call(r, a) ==
  /\ Running
  /\ Enter([NoRegs EXCEPT ![r] = v[depth][a]], par_msg) /\ EnterRest

\* Mutant: the slot of a call that returns stays in the budget.
PopKept ==
  /\ depth' = depth - 1
  /\ mem' = [mem EXCEPT ![depth] = Nil]
  /\ used' = used
  /\ UNCHANGED refused

\* The end of the innermost call: its registers and its slot are gone, the
\* bytes of the slot back in the budget.
Pop ==
  /\ depth' = depth - 1
  /\ mem' = [mem EXCEPT ![depth] = Nil]
  /\ used' = (used - SizeOf[depth]) % Word64
  /\ UNCHANGED refused

\* ret of the register a: into the register r of the caller, if it is a call
\* of an instruction and not of a par_for.
Return(r, a) ==
  /\ Running
  /\ Pop
  /\ v' = [d \in Slot |->
             IF d = depth THEN NoRegs
             ELSE IF d = depth - 1 /\ par_msg[d] = NoPar
             THEN [v[d] EXCEPT ![r] = v[depth][a]]
             ELSE v[d]]
  /\ UNCHANGED <<vals, immortal, block, par_msg, sconst, exc_msg, status,
                 valbytes>>

-----------------------------------------------------------------------------
(* Values: instructions and calls of the run time that make or move them. *)

ValueRest == UNCHANGED <<block, depth, mem, par_msg>>

\* A string or a BigInt made by the run time, into the register r: past the
\* budget NOMEM (str_alloc jumps back to the call, big_box traps).
RtMake(r) ==
  /\ Running
  /\ \E S0 \in BeforeValue, n \in Sizes :
       LET S == Take(n, S0) IN
       IF Fits(n, S)
       THEN \E x \in Val \ S :
              /\ SizeOf[x] = n
              /\ Made(x, S)
              /\ v' = [v EXCEPT ![depth][r] = x]
              /\ UNCHANGED status
       ELSE NoMemory(n, S) /\ UNCHANGED v
  /\ ValueRest /\ UNCHANGED <<immortal, sconst, exc_msg>>

\* A trap whose message the run time words (trap_said): a value too.
TrapSaid ==
  /\ Running
  /\ \E S0 \in BeforeValue, n \in Sizes :
       LET S == Take(n, S0) IN
       IF Fits(n, S)
       THEN \E x \in Val \ S :
              /\ SizeOf[x] = n
              /\ Made(x, S)
              /\ exc_msg' = x
              /\ status' = "exc"
       ELSE NoMemory(n, S) /\ UNCHANGED exc_msg
  /\ ValueRest /\ UNCHANGED <<immortal, sconst, v>>

\* sconst c: made the first time, whatever the budget, and immortal.
Sconst(c, r) ==
  /\ Running
  /\ IF sconst[c] # Nil
     THEN /\ v' = [v EXCEPT ![depth][r] = sconst[c]]
          /\ Untouched /\ UNCHANGED <<immortal, sconst>>
     ELSE \E S0 \in BeforeValue, n \in Sizes :
            LET S == Take(n, S0) IN
            \E x \in Val \ S :
              /\ SizeOf[x] = n
              /\ Made(x, S)
              /\ immortal' = immortal \cup {x}
              /\ sconst' = [sconst EXCEPT ![c] = x]
              /\ v' = [v EXCEPT ![depth][r] = x]
  /\ ValueRest /\ UNCHANGED <<exc_msg, status>>

\* A register copied (select, the arguments of a jump), or the empty string.
Move(r, a) ==
  /\ Running
  /\ \E w \in {v[depth][a], Nil} : v' = [v EXCEPT ![depth][r] = w]
  /\ Untouched /\ ValueRest
  /\ UNCHANGED <<immortal, sconst, exc_msg, status>>

-----------------------------------------------------------------------------
(* Memory.  A pointer may name any place: one that is not alive is wild,   *)
(* and the run stops ("bad").                                              *)

MemRest == Untouched /\ UNCHANGED <<immortal, block, depth, par_msg, sconst,
                                    exc_msg>>

Load(r, p) ==
  /\ Running
  /\ IF p \in LivePlace
     THEN v' = [v EXCEPT ![depth][r] = mem[p]] /\ UNCHANGED status
     ELSE status' = "bad" /\ UNCHANGED v
  /\ MemRest /\ UNCHANGED mem

\* store, memcpy and memset: the word w into the place p, if both places are
\* alive.
Write(p, w, readable) ==
  /\ Running
  /\ IF p \in LivePlace /\ readable
     THEN mem' = [mem EXCEPT ![p] = w] /\ UNCHANGED status
     ELSE status' = "bad" /\ UNCHANGED mem
  /\ MemRest /\ UNCHANGED v

Store(p, a) == Write(p, v[depth][a], TRUE)
Memcpy(p, q) == Write(p, mem[q], q \in LivePlace)
Memset(p) == Write(p, Nil, TRUE)

\* mem_alloc of the bytes of b, zeroed, or of a negative size, which is NOMEM
\* before anything is taken or collected.
MemAlloc(b) ==
  /\ Running /\ block[b] = "unused"
  /\ LET n == SizeOf[b]
         S == Take(n, vals)
     IN  \/ /\ Fits(n, S)
            /\ Taken(n, S)
            /\ block' = [block EXCEPT ![b] = "live"]
            /\ mem' = [mem EXCEPT ![b] = Nil]
            /\ UNCHANGED status
         \/ NoMemory(n, S) /\ UNCHANGED <<block, mem>>
         \/ /\ status' = "nomem" /\ refused' = 0
            /\ UNCHANGED <<vals, used, valbytes, block, mem>>
  /\ UNCHANGED <<immortal, depth, v, par_msg, sconst, exc_msg>>

\* mem_free: a block not alive is the trap INVALID_FREE.
MemFree(b) ==
  /\ Running
  /\ IF block[b] = "live"
     THEN /\ block' = [block EXCEPT ![b] = "freed"]
          /\ used' = (used - SizeOf[b]) % Word64
          /\ UNCHANGED status
     ELSE /\ status' = "exc"
          /\ UNCHANGED <<block, used>>
  /\ UNCHANGED <<vals, immortal, depth, v, mem, par_msg, sconst, exc_msg,
                 valbytes, refused>>

-----------------------------------------------------------------------------
(* Exceptions: what holds their message. *)

ExcRest == Untouched /\ UNCHANGED <<immortal, block, mem, sconst>>

\* check, trap and the traps of the run time without a text.
Trap ==
  /\ Running
  /\ status' = "exc"
  /\ ExcRest /\ UNCHANGED <<depth, v, par_msg, exc_msg>>

\* raise, with the message in the register a; an identity no handler may
\* catch stops the run.
Raise(a) ==
  /\ Running
  /\ exc_msg' = v[depth][a]
  /\ status' \in {"exc", "fatal"}
  /\ ExcRest /\ UNCHANGED <<depth, v, par_msg>>

\* exc_message: the message given, or the text of the trap.
Message == IF exc_msg # Nil THEN exc_msg ELSE TrapMsg

\* The block has a handler: the message is one of its parameters.
Caught(r) ==
  /\ status = "exc" /\ depth > 0
  /\ v' = [v EXCEPT ![depth][r] = Message]
  /\ exc_msg' = Nil
  /\ status' = "ok"
  /\ ExcRest /\ UNCHANGED <<depth, par_msg>>

\* The call is left.  A par_for keeps the first exception of its body and
\* goes on; what no handler may catch ends it too.
Leave ==
  /\ status \notin {"start", "entry", "ok"} /\ depth > 0
  /\ Pop
  /\ v' = [v EXCEPT ![depth] = NoRegs]
  /\ IF depth > 1 /\ par_msg[depth - 1] # NoPar
     THEN IF status = "exc"
          THEN /\ par_msg' = [par_msg EXCEPT ![depth - 1] =
                                IF @ = Nil THEN Message ELSE @]
               /\ status' = "ok"
               /\ exc_msg' = Nil
          ELSE /\ par_msg' = [par_msg EXCEPT ![depth - 1] = NoPar]
               /\ UNCHANGED <<status, exc_msg>>
     ELSE UNCHANGED <<par_msg, status, exc_msg>>
  /\ UNCHANGED <<vals, immortal, block, sconst, valbytes>>

ParFor ==
  /\ Running
  /\ par_msg' = [par_msg EXCEPT ![depth] = Nil]
  /\ ExcRest /\ UNCHANGED <<depth, v, exc_msg, status>>

\* One more iteration of par_for.  A body that cannot start ends it.
ParIter ==
  /\ InParFor
  /\ Enter(NoRegs, [par_msg EXCEPT ![depth] = NoPar]) /\ EnterRest

\* The end of par_for: the exception kept, if any, leaves it.
ParEnd ==
  /\ InParFor
  /\ par_msg' = [par_msg EXCEPT ![depth] = NoPar]
  /\ exc_msg' = par_msg[depth]
  /\ status' = IF par_msg[depth] = Nil THEN "ok" ELSE "exc"
  /\ ExcRest /\ UNCHANGED <<depth, v>>

\* The run is over.
Terminated ==
  /\ depth = 0 /\ status \notin {"start", "entry"}
  /\ UNCHANGED vars

-----------------------------------------------------------------------------
Next ==
  \/ Begin
  \/ CallEntry
  \/ \E r \in Reg, a \in Reg : Call(r, a) \/ Return(r, a) \/ Move(r, a)
  \/ \E r \in Reg : RtMake(r) \/ Raise(r) \/ Caught(r)
  \/ \E c \in Const, r \in Reg : Sconst(c, r)
  \/ \E p \in Place, r \in Reg : Load(r, p) \/ Store(p, r)
  \/ \E p \in Place, q \in Place : Memcpy(p, q)
  \/ \E p \in Place : Memset(p)
  \/ \E b \in Block : MemAlloc(b) \/ MemFree(b)
  \/ TrapSaid
  \/ Trap
  \/ Leave
  \/ ParFor
  \/ ParIter
  \/ ParEnd
  \/ Terminated

Spec == Init /\ [][Next]_vars

-----------------------------------------------------------------------------
TypeOK ==
  /\ vals \subseteq Val /\ immortal \subseteq vals
  /\ block \in [Block -> {"unused", "live", "freed"}]
  /\ depth \in 0..MaxDepth
  /\ v \in [Slot -> [Reg -> Word]]
  /\ mem \in [Place -> Word]
  /\ par_msg \in [Slot -> Word \cup {NoPar}]
  /\ sconst \in [Const -> Word]
  /\ exc_msg \in Word
  /\ status \in Status
  /\ used \in 0..(Word64 - 1) /\ valbytes \in 0..(Word64 - 1)
  /\ refused \in 0..MaxSize

\* No word that the program may still read is a freed value: those of the
\* calls alive, of the memory alive, of the exception on its way, of the
\* par_for running and of the constants of the module.  (eval.h:20-23:
\* "Strings and BigInts are freed by a collection when nothing holds them".)
HeldByConsts == {sconst[c] : c \in Const}

NoDangling == \A x \in Val : x \in Marked \cup HeldByConsts => x \in vals

\* e->used and e->valbytes are the bytes of what is alive, whatever the
\* order of calls, returns, traps and collections (doc/ir.md 5.4).
Accounted ==
  /\ used = Bytes(vals \cup LivePlace) % Word64
  /\ valbytes = Bytes(vals) % Word64

\* What is alive fits in the budget, as long as no constant of the module
\* was made: only those are made past it.
BudgetKept == immortal = {} => Bytes(vals \cup LivePlace) <= Budget

\* The budget refuses a request only when what is held leaves no room for it:
\* no value that nothing holds is left, and the bytes asked for with those
\* alive pass the budget.  NOMEM has two causes besides: a negative size given
\* to mem_alloc (doc/ir.md 15.4), and a host without memory.
NomemWhenFull ==
  [][status # "nomem" /\ status' = "nomem" /\ refused' # 0
     => vals' = Kept /\ Bytes(vals' \cup LivePlace) + refused' > Budget]_vars

\* The inductive invariant of NoDangling: besides it, a constant is immortal,
\* and before the run nothing is alive.
ConstsImmortal == \A c \in Const : sconst[c] \in immortal \cup {Nil}

NothingBeforeRun ==
  /\ status \in {"start", "norun", "entry"} => depth = 0
  /\ status \in {"start", "norun"} => vals = {} /\ Live = {} /\ mem[Glob] = Nil

\* A par_for runs in a call alive, and not while an exception leaves it.
ParsRun ==
  /\ \A d \in Slot : d > depth => par_msg[d] = NoPar
  /\ status # "ok" /\ depth > 0 => par_msg[depth] = NoPar

IInv ==
  TypeOK /\ NoDangling /\ ConstsImmortal /\ NothingBeforeRun /\ ParsRun

\* "past it is always the trap NOMEM" (doc/ir.md:324): a block that mem_alloc
\* gives leaves what is alive within the budget.
NomemPastBudget ==
  [][\A b \in Block : block[b] = "unused" /\ block'[b] = "live"
     => Bytes(vals' \cup LivePlace') <= Budget]_vars
=============================================================================
