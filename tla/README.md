# A verification of limba

limba is an intermediate language (`doc/ir.md`), its reader, verifier and
optimiser (`src/ir`, `src/opt`) and its reference interpreter
(`src/eval`), written in C. Everything runs in one thread: what is hard is
not the interleaving of threads but the order of steps within one run. An
allocation anywhere may collect; an exception on its way is held in a few
fields that several places fill and reset; a pass of the optimiser edits a
function that other passes have facts about; a table remembers an answer
that a later call makes old. Beside these are the functions that must be
exact: arithmetic, rounding, the binary form. This directory models those
parts in TLA+, checks the models with TLC and proves theorems about them
with TLAPS.

## Inventory

| Component | State | Operations | What is hard | Correct when |
|---|---|---|---|---|
| Interpreter: memory (`eval.c`) | `vals`, `heap`, frames, globals, `used`, `valbytes`, `par_msgs`, `exc_msg` | calls, `take`, `take_val`, `collect`, `mem_alloc`, `mem_free`, `sconst`, traps | what is held at the moment an allocation collects; unsigned counters; NOMEM jumps out of the run time | nothing readable is freed; counters are what is alive; the budget refuses only when full |
| Interpreter: exceptions (`eval.c`) | `status`, `code`, `pos`, `pos_given`, `exc_msg`, frames, `par_msgs` | trap, raise, `caught`, unwinding, `par_for`, end of the run | fields made late and reset in two places; nested `par_for` on one stack; what no handler may catch | an occurrence arrives whole; fatal ones stop the run; every run ends |
| Interpreter: counts (`check_mem`) | `words`, `counted`, `mrefs` | loads, stores, retain, release, memcpy, memset, `end_check` | counts against memory after copies, slots and unwinding | BADMEM at the end exactly when a reference was never made good |
| Interpreter: files (`files.c`) | handles, buffers, marks of errors | open, read, write, flush, close, close all | buffered errors met late; read and write share a buffer; limit of handles | what is written is what was given, an error is reported once |
| Interpreter: object map (`objmap.c`) | a treap of objects, the last answer | add, del, holds | rotations, neighbours, an answer remembered of a freed object | holds iff one object alive covers the bytes |
| SSA builder (`ssa.c`) | blocks, sealed marks, current definitions, incomplete parameters | write, read, seal, edges, finish | reads before the edges are known; cycles | each read is the reaching definition; a use without one is reported |
| Edits (`edit.c`) | replacements, removed instructions, insertions | begin, replace, insert, end, cancel | chains of replacements, edits that name edited values | after `end` no operand names a removed value |
| CFG, dominators (`cfg.c`) | rows, orders, immediate dominators | build | error edges, unreachable blocks | equal to their definitions by paths |
| Functions under a handler (`handled.c`) | summaries of freed bodies, the set, is it fresh | ask, and every call that makes it old | an answer kept while functions come, go and change | the least set that the calls allow, whenever asked |
| Module tables (`module.c`, `strtab.c`, `hash.c`) | interned strings, types, names | add, find, truncate | collisions, growth, a name freed and taken again | one id per content, every id found |
| Verifier (`verify.c`) | none kept | verify | many rules | accepts only what the IR allows |
| Binary form (`binary.c`, `leb128.c`) | bodies given early, reader position | write a function, write the module, read | functions given in any order, damaged files, limits of integers | reads back what was written; a damaged file gives an error or tables that hold |
| Text form (`lex.c`, `parse*.c`, `print.c`) | reader position | read, write | forward names | reads back what was printed |
| Optimiser: manager (`manager.c`) | which passes are awake, the graph kept or dropped, rounds | rounds over a function, callees first | passes that wake each other; a stale graph | ends; a pass never sees a stale graph |
| Optimiser: passes (`fold`, `gvn`, `dce`, `licm`, `bounds`, `simplify_cfg`, `inline`) | one function edited | run | traps and effects must stay in order | the function means the same |
| Numbers (`bigint.c`, `decimal.c`, `val.c`, `math.c`) | none kept | arithmetic, text | carries, guesses of digits, limits, rounding | exact; refused only past the limit; rounded once |
| Generator (`gen.c`), tools, `main.c`, musl | - | - | - | not modelled (below) |

The interpreter's parts call each other: an instruction calls the run
time, which allocates, which may collect, which reads every frame, the
memory and the exceptions on their way. The optimiser's manager calls the
passes in turn; each edits through `edit.c` and reads the graph of
`cfg.c`. The hazards that follow from this are listed, at their lines, in
`PROJECT.json`.

## Plan

In this order; each module with its MC module, configurations and, where
named, theorems.

1. `EvalHeap` (done): memory and collection. Theorems: types, no value
   dangling, counters right, the budget kept, refused only when full (proved
   in `EvalHeapProofs`).
2. `Occurrences`, `EvalExc` (done): exceptions; `EvalExc` refines
   `Occurrences` for the programs that the code treats so. Theorems: every
   property of safety and the refinement, for every depth and number of
   steps (proved in `EvalExcProofs`).
3. `Ssa` (done, TLC only): the on-the-fly construction over small graphs,
   every order of definitions, uses, edges and seals, against the program
   run along every path.
4. `Files` (done): files over a system that fails, cuts its calls short
   and lets files grow. Theorems: every property but `CallEnds`, for every size
   of the buffer and every number of files (proved in `FilesProofs`).
5. `Optimizer` over `Ir`, `IrEval`, `Edit` and the modules `Pass*` (done,
   TLC only): the whole of `-O1` on the functions of a module, against the
   evaluator run before and after.
6. `EvalCounts` over `Objmap` (done): the counts of `check_mem` with
   everything that moves, drops or frees a string in memory. Theorems: the
   functions of the map for every heap (`ObjmapProofs`, over `Recursion`)
   and `HoldsRight` for every run, `Tracked` and `CountsSay` for programs
   that keep no string where the code loses its word (`EvalCountsProofs`).
7. `Numbers` over `BigInt`, `Rational`, `Decimal` and `Leb128` (done, TLC
   only): each function against integers and fractions.
8. `Building` over `Hash`, `Module`, `Handled`, then `Forms` over `Building`
   and `Binary` (done): the calls that make a module, in any order, the set
   under a handler, and the binary form. Theorems: `OneThing` for every
   front end and every hash (`TablesProofs`), `HandledRight` for every front
   end (`HandledProofs`).
9. Left: the verifier's rules on a whole module; the
   graph and the dominators over every small graph, with an MC module of
   their own; the text form.

Theorems worth proving beyond these: the loop of the manager with passes
that are any function of their declared effects (runs bounded, the edit
applied at the end). A module that needs a recursive operator (`Ssa`,
`Ir` and all over it, whose recursion is that of the code, over a graph;
`Numbers` and `Binary`, over digits and bytes) stays with TLC; `Objmap`,
`EvalCounts`, `Occurrences`, `EvalExc`, `Files`, `EvalHeap` and `Building`
with all under it have none.

## Memory: `EvalHeap`

A value (`estr`: a string or a `BigInt`) is an address of `Val`. State and
code:

| Model | Code (`src/eval/eval.c`) |
|---|---|
| `vals`, `immortal` | `e->vals`, `estr.immortal` |
| `block` | `e->heap` and the arena: a freed block is never reused |
| `depth`, `v` | `e->frames`, `frame.v` |
| `mem` | the words of globals, slots and blocks |
| `par_msg` | `e->par_msgs`, at the depth of the call that runs the `par_for` |
| `sconst`, `exc_msg`, `used`, `valbytes` | the fields of the same names |
| `status` | `e->status`, what decides where the run is |
| `refused` | none: a history variable, the bytes that the budget refused |

Every handler is one action, with the allocations it makes: `Call` takes
the slot and may collect, `RtMake` is any function of the run time that
makes a value (NOMEM by `longjmp` or by `big_box`), `TrapSaid` a trap with
its own words, `Sconst` the constant made whatever the budget, `Leave` a
call left by an exception, with what a `par_for` does with it. Arithmetic
on the counters is that of unsigned words (`% Word64`).

Abstractions: a frame has registers that hold words of type str and one
slot of one word (a call with several slots takes them one by one; a
failure in the middle gives back those taken, which is the same state as
none taken); a block and the global have one word. Whether a collection
runs before a value is made is a free choice (`collect_often`, or `since`
against `gc_next`). NOMEM has the three causes of the code: the budget
(`take`, after its collection), a host without memory for a block, a slot or
a global (the bytes taken are given back), and a negative size given to
`mem_alloc`, which is refused before anything is taken or collected
(`doc/ir.md` 15.4). Left out: the host without memory for a value, where
`limba_xmalloc` ends the process; the `pinned` list,
which guards a case no function of the run time has. The counts of
`check_mem` and C strings, which are outside the budget, are in
`EvalCounts`.

Properties (run `heap`, `EvalHeap.cfg`):

- `NoDangling`: no word of a call alive, of memory alive, of the exception
  on its way, of a `par_for` or of a constant is a freed value.
- `Accounted`: `used` and `valbytes` are the bytes alive.
- `BudgetKept`: they fit in the budget while no constant was made.
- `NomemWhenFull`: the budget refuses a request only after a collection
  that left nothing but what is held, and when the bytes asked for with
  those alive pass it. Of the other two causes of NOMEM nothing is said:
  they may come with an empty memory.

Bounds: 3 values, two of one byte and one of two; one block, one constant,
one register, two calls deep, a budget of 5 bytes. A value can then be
held by a caller only, by memory only, by an exception or a `par_for`
only, while the callee fills the rest of the budget; 3.5 million states.
The addresses of the same size are symmetric.

Run `heap_wrap` (`EvalHeapWrap.cfg`): with an initial string, made past
the budget, `budget - used` wraps and a block past the budget is given:
`NomemPastBudget` is violated (finding 1).

### What is proved

`EvalHeapProofs`, for all constants that satisfy the assumptions (finite
sets of addresses that do not overlap, sizes at least one byte, a budget
that fits in a word):

- `TypeCorrect`: `Spec => []TypeOK`.
- `NoValueDangling`: `Spec => []NoDangling`. `NoDangling` alone is not
  inductive: a constant that no register holds is kept only because it is
  immortal (`ConstsImmortal`), the global becomes readable at the start
  with what it holds (`NothingBeforeRun`), and a call entered makes the
  place of its `par_for` readable (`ParsRun`). With these, `IInv` is
  inductive: a collection leaves every root (`RootsLeft`), and no step
  makes readable a word that was neither a root nor made by the step
  (`StepSafe`, then one lemma per kind of step).
- `CountersRight`: `Spec => []Accounted`, on words that wrap, with `IInv`.
  The bytes of a set of objects are a cardinality, so that adding and
  removing objects adds and subtracts (`CountMore`, `CountLess`).

- `BudgetIsKept`: `Spec => []BudgetKept`. The budget is an integer, `used`
  a word: while what is alive fits, the word is the number of its bytes
  (`CountersRight`), `budget - used` does not wrap and the test of `take`
  and `take_val` is that of integers. Constants and initial values are made
  past the test, but `immortal` only grows, so a state without any comes
  from states without any.
- `NomemOnlyWhenFull`: `Spec => NomemWhenFull`, an action property, from
  the same invariant: a step in which the budget refuses is one of three
  kinds (a slot, a value, a block), each collects before it gives up
  (`NoMemoryFull`), and the test on words that failed is the test of
  integers (`FitsSays`). The cases of each kind are told once, for this
  theorem and the two before it (`EnterCases`, `ValueCases`,
  `MemAllocCases`).

`IInv` itself was checked with TLC on the instance of the run `heap`.

## Exceptions: `Occurrences` and `EvalExc`

`Occurrences` states what the IR promises (`doc/ir.md` 5.3, 11, 13 and
15.10): an occurrence has its identity, position and message from the
moment it is raised, and travels unchanged; a `par_for` runs every index
and keeps the occurrence of the lowest; what no handler may catch ends it
at once; the report is the occurrence that left the entry, or an error of
writing found at the end, without a position, if none did.

`EvalExc` models `call`, `call_inst`, `caught`, `exc_message`, `par_for`
and the end of `limba_eval`. `exc` is the five fields of an exception on
its way; a frame is what `call` keeps of a call (does the block have a
handler, the position of the call it runs, the locals of its `par_for`).
The program is free: each instruction may be any of the actions, and each
block may have a handler or not. `InstPos` is the positions its
instructions carry, `Raises` what its `raise` is given. A position is filled in by `At`, in the
frame of the instruction and then in every caller, as at eval.c:2373.
`trap` sets only the status and the code, so a field that was not reset
would be seen.

Abstractions: registers other than the parameters of a handler are left
out; the cache of trap messages is the function `Text`; the bodies of
`par_for` are right functions (a wrong one is `Stop`). `STACK` by the C
stack is `STACK` by depth.

Properties (run `exc`): `NothingLeft` (no field of an exception dealt with
stays), `ParSlots` (the shared stack of messages is that of the `par_for`
running), `FatalStops` (after what no handler may catch, no instruction
runs), and `RunEnds`: every run ends, under weak fairness of the next step
(the program has one thread, nothing else can delay it).

`Implements` is the refinement, with the mapping at the end of `EvalExc`.
The run is of the programs of `Regular`: every instruction has a position,
and a `raise` whose message is the word 0 is of an identity without a text.

Run `exc_irregular` (finding 2): of the others `Implements` does not hold.
0 is a valid message and a valid position, and the code also takes it for
one not made yet: the word 0 given to a `raise` becomes the text of the
trap, and (with `Raises <- WordedRaise`) a trap without a position gets that
of a call it leaves. That the other properties hold of these programs too is
proved below, and TLC checked the invariant on them (1 011 073 states).

Bounds: three calls deep, 4 instructions, three identities that may be
caught, one of them without a text, and one that may not, positions none and
one, three messages, indices -1 and 0, 0 being the greatest integer, so that
`hi` reaches it. Four instructions are enough for a `par_for` in the body of
a `par_for` with an exception from it, and for an exception raised again by
a handler. 405 621 states.

### What is proved

`EvalExcProofs`, for every depth, number of steps, greatest integer and set
of identities, positions and messages, where NOMEM and STACK are fatal and
IO is not, 0 is a position (none), the texts of traps are messages, the
empty one is a message too, and the
markers `Nil`, `None` and `NoPar` are none of what they stand beside:

- `TypeCorrect`, `NothingIsLeft`, `SlotsRight`: `Spec => []TypeOK`,
  `Spec => []NothingLeft`, `Spec => []ParSlots`.
- `FatalStopsTheRun`: `Spec => FatalStops`.
- `RunImplements`: of the programs of `Regular`, `Spec => Implements`: the
  run implements `Occurrences`.

The inductive invariant `IInv` is `Shape(frames, par_msgs)` and what each
phase of the run has in the fields of `exc`. `ParSlots` counts places, and
a count is not kept by a step that pushes one and drops one; `Shape` says
where they are: the calls that run a `par_for` name the places of
`par_msgs` from the first to the last, in the order of the calls, without a
gap (`Slots`). What a `par_for` goes on with is one of its indices, and
what it keeps is a whole exception that may be caught (`Kept`): without it
the end of a `par_for` could raise an identity 0. `NothingLeft` needs what
holds on the way as well (`Settled`): no field is set while instructions
run, and an exception on its way is one, in a call that runs no `par_for`;
the message of one with a position of its own is the word 0 only if a
`raise` gave that, and one without a position comes of an instruction
without one (`Placed`). A trap leaves position and message as they are, so it shows another's
unless they were empty.

The refinement is proved step by step: the initial states map to the
initial one, and each action is a step of `Occurrences` or changes nothing
of it (`OccStep`, proved for each action beside the invariant, of the
programs of `Regular`; the invariant is of every program). The map shows of each call its
`par_for` with the occurrence it keeps; that a call pushed, left or changed
changes the image in one place is what most of the proof says.

TLC checked `IInv` on the 1 011 073 states of the run `exc`. `RunEnds` is
liveness and stays with TLC.

## SSA construction: `Ssa`

A front end walks its tree once and says what it does with variables,
block by block; `src/ir/ssa.c` makes values and block parameters of it.
`plan` is the graph the front end wants, chosen at the start; the calls
that make it come in every order that `ssa.h` allows: a block takes
definitions and uses until it is ended, and is sealed when every edge to it
is there, which may be long after it was read.

| Model | Code (`src/ir/ssa.c`) |
|---|---|
| `s.b`: `sealed`, `term`, `out`, `preds`, `inc` | `bstate` (`e0`, `e1` and the edges of the cases are `out`) |
| `s.e` | `edge`, with its arguments |
| `s.vals` | the values made: instructions of the front end, zeros of unassigned variables, `pinfo` |
| `s.def` | `defs`, `defidx` |
| `s.stuck` | `read_var` called itself for ever |
| `fin` | `rep`, `reach` and what `undefined` was called with |
| `body` | nothing: what the front end said, kept to be compared |

`DefNew`, `DefRead`, `Use`, `Seal`, `End` and `Finish` are the calls.
`ReadVar` and `AddArgs` are `read_var` and `add_args`, each giving the
builder as it becomes; `Reduce` is one turn of the loop that removes trivial
parameters, `MayUndef` is `may_undef` with its memory `state`. A value may
be an instruction of the front end or one that it read before (`DefRead`:
`b = a`), which is how two variables change places.

What is right is stated apart from the algorithm: after `Finish`, the
function built is run beside the program along every path of the graph. A
point of a run is the block entered, the definition each variable has
there and the value of each parameter; there are finitely many.

- `UseRight`: at every point, each use reads the definition that the
  program reads there.
- `NoFalseReport`: what is reported is reached by a path without a
  definition.
- `ArgsInPlace`: an edge to a sealed block has one argument for each
  parameter of it, and one to a block not sealed has none.
- `SwitchGivesNone`: no parameter is kept in the target of a switch.
- `ReadEnds`: reading a variable ends, whatever is sealed when, but in a loop
  that no path reaches and whose blocks have one predecessor each, where
  `read_var` calls itself for ever (see the remarks).

Run `ssa`: ten graphs of at most four blocks have each shape that
the algorithm treats apart: a loop, a loop in a loop, loops entered at two
places (irreducible), a join, a switch in a loop, a switch with two edges to
one block, a block no path reaches that goes to a join, a loop of one block
that no path reaches, and one that the entry does; one definition and two uses of one variable anywhere, and for the
loop of one block two variables, three definitions and two uses, enough for
two variables to change places and for a value to be lost. 817 000 states.

Run `ssa_report` (finding 3): of two uses on a cycle with two entries, both
reached without a definition, the second is not reported.

Abstractions: the blocks of a graph exist from the start, as blocks no
call was made on. Handlers (blocks reached by errors), the
types of variables and the final edit, which moves parameters first and
numbers the function again, are left out (what an edit does is `Edit`, below). The model is
checked with TLC only: its operators are recursive.

## Files: `Files`

The table of `src/eval/files.c`: a place holds a handle, the mode, the mark
of the end and one buffer, used to write or to read. `sys` is the other end
of each handle, and what the program knows: what the system has still to
give (`src`), what it was given (`out`), what the program gave (`acc`) or
got (`got`).

| Action | Code |
|---|---|
| `Open`, `Close`, `Flush`, `BadHandle` | one call each |
| `Write` then `WriteOn` | `files_write`, one turn of its loop at a time, with `drain` at a full buffer |
| `Read`, `ReadLine`, then `Fill`, `Copy`, `ReadDone` | `files_read`, `files_read_line` and `fill`, one turn at a time |
| `EndRun` | `files_close_all` and what `limba_eval` makes of its answer |
| `Grow` | another program adds to the file (external) |

The loops of a call are steps of their own because the file may grow
between two reads of the system, and because a call that fails half way
leaves the buffer as it is then. The system is as bad as it may be: an open
is refused, a write or a close fails after any number of bytes, a read
gives from one byte to all that fit, or fails.

Abstractions: an interrupted call, made again by the code, does not show;
the words of an error are its kind; `\r` before the end of a line is data;
`files_exists` and `files_delete` keep no state and are left out. What a
program learns of a line is the bytes taken from the buffer.

Properties (run `files`):

- `NothingLost`: what the program gave is what the system got followed by
  what the buffer holds, except what an error dropped that the program, or
  the report of the run, was told of; also after a close and after the end.
- `WrittenWhenFull`: a buffer is written exactly when it is full, at a
  flush or at a close, however the writes cut their bytes.
- `NothingSkipped`: calls for bytes and for lines in any order give the
  file, each byte once.
- `EndMet`, `EndFinal`: the end is met only where the system has no more
  to give, and stays the end though the file grows.
- `HandleOnce`: a closed handle never names a file again.
- `CallEnds`: every call ends, under weak fairness of the steps of the
  call running. The interpreter has one thread and does nothing else
  meanwhile; nothing is assumed of the program's next call or of growth.

Bounds: a buffer of 2 bytes, two places and three opens (so that a place is
used again and a third file finds the table full), four calls, writes of 0,
1 and 3 bytes (less than the buffer, more than it, and one that fills
it twice with what was there), files of 0 and 3 bytes that grow to 3,
reads of up to 2 bytes. 0.4 million states.

### What is proved

`FilesProofs`, for every size of the buffer and of the table, every set of
bytes with an end of line in it, every content and every bound (the one
assumption, `FilesAssumption`, says no more than that):

- `TypeCorrect`, `NothingIsLost`, `WrittenOnlyWhenFull`,
  `NothingIsSkipped`: the invariants of the run.
- `EndIsMet`, `EndIsFinal`, `HandleIsOnce`: its action properties.

The inductive invariant is `Table(files, next, call, sys)`: the handles of
the table are given and differ; a buffer read is never consumed past its
end and a buffer written is never left full (`PlaceOK`); the call running
names an open file of its kind and has read no more than asked (`CallOK`);
and each file agrees with the other end (`Agree`): what was written is what
the system has and what the buffer holds, less what was dropped and told
of, what was read is what the program got, what the call running has so
far and what the buffer still holds. That last part is why the properties
alone are not inductive: in the middle of a call neither the program nor
the buffer has all the bytes. Nearly every action changes one place and one
end, so its proof is about these alone (`OneChanges`). The action
properties follow from what a step may do to one file (`Steady`), proved
for each action beside the invariant.

TLC checked the invariant on the 375 165 states of the run `files`.
`CallEnds` is liveness and stays with TLC.

## The optimiser: `Optimizer`

`-O1` runs on one function after the other, each after those it calls. On
a function six passes share one edit (`edit.c`) and one graph (`cfg.c`):
a pass records what it replaces and drops, reads the function through that
record, and changes some instructions in place; the edit is applied once
at the end, or after each pass when each is verified.

| Module | Code |
|---|---|
| `Ir` | a function, `cfg.c` (rows, edges of errors, dominators), the verifier's rules on a function |
| `IrEval` | the evaluator on integers, memory, calls, traps and handlers |
| `Edit` | `edit.c`, the context of the passes (`pass.h`) |
| `PassInline`, `PassCfg`, `PassGvn`, `PassLicm`, `PassBounds`, `PassDce` | `inline.c`, `simplify_cfg.c`, `gvn.c` with `fold.c`, `licm.c`, `bounds.c`, `dce.c` |
| `Optimizer` | `manager.c`: `Begin`, one action for the run of each pass, `Finish` |
| `MCOptimizer` | the modules optimised |

State: `x` is `limba_pass_ctx` (`x.f` the function, `x.e` the edit, `x.cfg`
the graph when `x.have`); `need`, `p`, `runs` are those of
`limba_optimizer_func_edit`; `lib` is the library of inline; `verify` is
`verify_each`. A pass is one step because nothing else runs meanwhile; its
inner order is that of the code where it shows (blocks in order, one graph
for the pass, the dominator tree walked depth first) and a set where it
does not (the work list of dce).

Properties (run `opt`), after every pass:

- `WellFormed`: with what the edit holds applied, the verifier takes the
  function: uses dominated by definitions across handlers, arguments of
  the right number and types; and it takes the one left at the end, also
  where the passes stop with work left.
- `SameMeaning`: for every argument of `main`, the module prints, returns,
  raises and leaves in memory what it did when it came (`doc/ir.md` 17). It
  asks a little more than the document: a module that is wrong, because it
  reaches an access outside every object, may do anything after that, but
  one that is not wrong may not become so.
- `CfgKept`: a graph left for the next pass is that of the function, which
  the debug build asserts (`cfg_same`).
- `DominanceIsOfRuns`: the dominators computed over normal edges and edges
  of errors are those of the runs, in which a block may be left for its
  handler before its end.
- `NothingUnused`: when the passes have ended, with no work left, nothing
  unused is left.
- `SameEitherWay`: applied after each pass or once at the end, the edit
  gives the same function, instruction for instruction (the comment at
  manager.c:220). It is asked at the start of each function, of the whole
  pipeline.

The code stops the passes after `MAX_ROUNDS` (4) rounds, which none of these
modules comes to. So a module says how many rounds it may take, and those
of `Stopped` (chains of blocks that only jump, checks that facts prove) may
take two: they are stopped with work left, after cfg or after gvn, in the
middle of a round, or after dce. All of the above is asked of them but
`NothingUnused`: stopped between gvn and dce, the passes leave values that
nobody uses.

Run `opt_licm` (finding 4): `WellFormed` does not hold when the only way
into a loop is a switch or an error.

The pass `bounds` runs only in the modules that ask for it, as in the code
only when it is named. Its facts `v - u <= w` are those of a sum or a loop
that cannot wrap, which hold everywhere, and those of a branch taken or a
check passed, which hold below. The code keeps the second kind on a stack
along the dominator tree; the model gives each block the facts its
dominator ended with, which is what the stack holds there.

Bounds. Modules are families of functions with holes: every integer
operation, on every pair of constants of two bits, with known, unknown and
equal operands; diamonds with checks and divisions before, on each way and
after; loops with and without a way round them, with checks, loads, frees,
`ptr_live` and calls of the run time in the header and in the body; loops
in loops; handlers over any part of a loop, handlers under handlers; calls
in a row, in a loop, under a handler, of functions with slots, branches,
handlers, calls and recursion; edits left by the maker of a function;
and, for `bounds`, checks after a branch or a check that tells something of
them, of `and` and `or`, of sums that trap or wrap, of loops that step up,
down or both ways, and beside a handler, with `bounds` alone (and `dce`)
and within the whole pipeline.
Diamonds, loops in loops and calls are run with each pass skipped too. Two
bits are the least in which the smallest number, -1, 0 and 1 differ, which
is what folding tells apart; that folding is right in 64 bits is not shown.
A run of the evaluator enters at most 24 blocks (`Fuel`), more than any loop of
two bits needs; a run cut there is compared by what it printed. `InlineMax`
is 6 and `InlineGrow` 8 (30 and 60 in the code), so that a function is too
long and a caller too grown in some of the modules. A fact of `bounds`
has 3 bits (`FactBits`, 64 in the code), so that sums of facts overflow; a
proof is at most 3 facts long (`ProofDepth`, 6) and a search goes on from 8
values (`ProofNodes`, 256). 25 246 states.

Abstractions: an address is one cell (a slot or the block `main` is given), so
`load`, `store` and `memset` move one value and `addr` is left out; of the
run time, one function for each set of attributes the passes tell apart
(`print`, `mem_free`, `ptr_live`, `bits_pow`). Left out: floats and
strings, calls through pointers and to external functions (the passes take
them for calls that may free), positions, `unreachable`, the statistics. `STACK`, `NOMEM` and the limit of steps
do not happen in the evaluator; the document lets the optimiser move them.

`CHECK_DEADLOCK` is off: the optimiser ends.

## Counts of references: `EvalCounts` and `Objmap`

With `check_mem` the interpreter knows, by address, which words of memory
hold a string (`words`), counts the references that the program takes with
`store` and `retain` and gives back with `release` (`mrefs`), and compares
the two at the end. Everything else moves or drops strings without
counting: a copy onto itself, a slot that ends, an exception.

| Model | Code |
|---|---|
| `objs` | the tree of `objmap.c`, with `last`, the answer remembered |
| `mem` | the words of memory: a string, a part of none, or something else |
| `words`, `mrefs`, `listed` | `e->words`, `estr.mrefs`, `e->counted` |
| `vals`, `v` | `e->vals`; the register that holds a string |
| `block`, `cstrs`, `depth` | blocks of `mem_alloc`, C strings, the calls |
| `status` | the run, an exception on its way, and the four ends |

`Load`, `LoadOther` (`mem_count` too), `Store`, `StoreOther`
(`mem_translate` too), `Memset`, `Memcpy`, `Reverse`, `Rc` (retain and
release of typed memory), `MakeStr`, `Collect`, `Alloc`, `Free`, `CstrNew`,
`CstrFree`, `Call`, `Return`, `Throw`, `Unwind`, `Catch` and `Stop` are the
operations, with their checks in the order of the code; BADMEM and a wrong
module (`bad`) are states of their own. In `Objmap`, `Add` rotates as `objmap_add` does, `Del` joins
the subtrees, `Holds` asks the last answer first. The priorities of the
treap are a constant, one for each address, so that one instance has one
shape for each set of objects.

Properties (run `counts`):

- `Tracked`: the words known to hold a string are those that do.
- `CountsSay`: a run that comes to its end ends in BADMEM exactly when the
  program never made good a reference. What the program owes is counted
  apart from the code, in a ledger: a retain without its word, a word
  copied and never counted.
- `HoldsRight`: an access is let through, by the tree or by the answer
  remembered, exactly when its bytes lie in one object alive.

Bounds: words of two bytes, so that a piece may cut a word in the middle;
one counted string and one constant; a global of two words, a slot for
each of two calls (one of one byte, one of a word with a type that the end
of the call releases), a block of a word and a half, a C string of one
byte; pieces of 0, 2 and 4 bytes at five addresses, in an object, over two
neighbours and outside; at most one reference owed (`MaxOwed`; with two,
only the number in `mrefs` is new). 281 621 states: every one that these
operations reach. Once over, a run stays (`Done`), and deadlock is
checked.

Left out of the run, where the code loses words (see the remarks):
elements of `mem_reverse` smaller than a string, C strings with room for
one, and strings whose own bytes hold one. The memory of a foreign function
is not modelled.

### What is proved

`ObjmapProofs` is about the functions of `objmap.c`, for every set of
addresses in which objects do not overlap (what `malloc` promises,
`ObjmapAssumption`) and for any priorities:

- `AddRight`, `DelRight`: of the map of the objects of S, `objmap_add` makes
  the map of S and the new object, `objmap_del` that of S without the one
  freed.
- `HoldsExactly`: on the map of S, `objmap_holds` answers for the objects of
  S, whichever answered last.

`MapOf(m, S)` is what a map of S is: a search tree of S, kids of no other
address, and a remembered answer in S. A tree is stated without recursion:
some function says which objects lie under each node, those on each side
are on that side, and the kids agree with it. The priorities are not part
of it: that the treap is a heap makes it shallow, not right.

The functions of `objmap.c` go down one path of the tree, and their models
are recursive functions. What these compute is proved by induction on the
objects under a node. The provers know no such induction; `Recursion`
proves the two facts it needs, with sets and functions instead of
operators: what holds of a point whenever it holds below it holds of all
(`RankInduction`), and a function given at each point from its value at a
lower point exists (`Recursion`). They follow from the well-foundedness of
the natural numbers, which the library proves.

`EvalCountsProofs`, for all constants in which each object has a base of
its own (`BasesAssumption`), the pointers and lengths are integers and the
words of memory are finitely many (`AccessAssumption`):

- `AccessIsRight`: `Spec => []HoldsRight`. The inductive invariant is
  `ObjInv`: `objs` is the map of the objects that the rest of the state
  says are alive. A collection frees several strings at once, in an order
  that is not said (`FreedRight`); an access only changes the answer
  remembered.
- `WordsAreTracked` and `CountsAreRight`:
  `Spec /\ []KeptOut /\ [][ReversedWhole]_vars` implies `[]Tracked` and
  `[]CountsSay`.

The two hypotheses are what the code needs of a program and does not check
(see the remarks). `KeptOut`: no known word lies in the bytes of a C string
or of a string. `ReversedWhole`: the known words of a tract that
`mem_reverse` turns lie each in one element. They are of the program, not
of the counts, and every run of an instance that leaves those cases out
satisfies them. The memory of a string or of a C string is otherwise free:
its bytes are words that a program may read, fill and copy, and what they
hold when the object is made is any byte or none.

The inductive invariant is `CountInv`, six parts that need each other:

- `ObjInv`, since a word that an access was let through must lie whole in
  one object (`LetThrough`), and two objects share none (`Apart`);
- `Tracked`: from it, the words that `end_check` reads are all the words
  that hold a string;
- `Balanced`: count and ledger together are what memory holds, for every
  string;
- `Referred`: a string with a count is alive and in `e->counted`, which is
  why a collection leaves its count alone, why a string made at the place
  of another starts from none, and why `end_check` overlooks nobody;
- `TypesRight` and `EndsSay`, what the two ends say of the ledger.

There is one lemma for each operation (`StoreCounts`, `MemcpyCounts`,
`ReverseCounts`...). A copy needs that a word moved by a multiple of the
word stays aligned (`AlignedSum`), a turn that the place of a place is
where it was (`MirroredBack`); both come from division in one way
(`DivOnce` in `Recursion`). All that frees shares `GoneTracked`, all that
makes `MoreObjects`. The bound `MaxOwed` is not used.

## Numbers: `Numbers`

`BigInt`, `Rational`, `Decimal` and `Leb128` are the functions of
`bigint.c`, `decimal.c` and `leb128.c`, on sequences of words, the carry
and the guess of a digit included. `Numbers` calls one of them and keeps
its result; `wide` says whether the build has integers of 128 bits, since
the code has a way for each.

| Module | Code |
|---|---|
| `BigInt` | sums, products, long division, gcd, shifts, powers, roots, `powmod`, text, the limits |
| `Rational` | the four operations, comparison, powers, literals, rounding to a real |
| `Decimal` | the exact steps between reals and decimals: the cut of many digits, the quotient, the fixed and the shortest text |
| `Leb128` | `ULEB` and `SLEB`, the reader that goes bad, counts |

Properties (run `numbers`):

- `Exact`: the result is the integer or the fraction that the operation
  means, canonical (no zero word at the top, a zero without a sign, lowest
  terms), whatever way was taken.
- `Refused`: an operation of integers with a limit gives nothing exactly
  when the result passes it; one of rationals only when the result or a
  product on the way does, and leaves its result as it was.
- `Rounded`: a rational, a decimal or an integer with a power of ten gives the
  nearest real, ties to even, at the edge of the subnormals and past the
  largest too; a text printed reads back, and none shorter does.

Bounds: words of 7 bits, so that 64 bits are two words and a product of two
integers stays within the integers of TLC; each word one of 0, 1, 64, 127
or beside them, where carries, guesses one or two too high and the digit
added back happen (`OfWords(4, ..)` by `OfWords(3, ..)`). Two formats of
reals stand for `double` and `float`, with 4 and 3 bits of mantissa and
narrow exponents, every number of them tried. Limits of tables and of
digits shrink alike, and are named in `Numbers.cfg`. Some 45 000 calls.
`CHECK_DEADLOCK` is off: a call is one step.

Left out: the functions of `math.c`, which are those of the machine, and
the text of a value (`val.c`).

## The module and its forms: `Building` and `Forms`

`Building` makes a module call by call, in any order that `ir.h` allows;
`Forms` gives functions to the writer on the way, writes the file, damages
it perhaps and reads it.

| Module | Code |
|---|---|
| `Hash` | `hash.c`, `strtab.c`: open addressing, growth, strings |
| `Module` | `module.c`: types, symbols, globals, functions, blocks, instructions, positions, truncation |
| `Handled` | `handled.c`: the summary of a body, the set, when it is old |
| `Building` | one action for each call |
| `Binary` | `binary.c`: the writer and the reader with each refusal |
| `Forms` | the protocol of the writer, a file cut, longer or changed |

`m` is the module. `kept`, the functions as they were when a body was
freed, and `dropped`, whether something went without the set being told,
are not state of the code: the properties compare with them. Two calls
drop: `limba_global_set_data` a relocation, and `limba_block_add`
(`module.c:542`) the summary of a body that was freed, when it begins that
body again. Ids count from 1 in the model,
operands from 0 as in the code.

Properties (run `forms`):

- `HandledRight`: whenever the set under a handler is asked, it holds the
  least set that the calls of every body, freed or not, allow, and no more;
  only what was `dropped` may leave one in.
- `OneThing`: no string, type or name is there twice, each is found under
  its id after any growth, and a name given back is not found.
- `ReadsBack`: the file read is the module, its values numbered in the
  order of the file, though functions were given early and freed.
- `Damaged`: a file with a byte changed, added or cut off is refused, or
  gives tables whose every index names something. The operands of a body
  may name anything: the code leaves them to the verifier, which is not
  part of this.

Bounds: seven families, each a module to start from, a few calls and what
they take: names and truncation (5 calls, past the four places of the first
table), types (3), calls and handlers (4), addresses and relocations (4),
functions given one at a time (3), data (4), and one module with one of
everything, whose file of 121 bytes is cut at every length, has each byte
changed to every other value, and one byte added. A byte has three bits of
a number and one that says that more follow, a number 10 bits, so that the
longest number and the bits past it happen in few bytes. `MCHashOf` makes
keys of one kind collide. 75 547 states. `CHECK_DEADLOCK` is off: a file
is read once.

Abstractions: the magic, the version and the two fingerprints are one
byte; a string is a sequence of small numbers; ten operations stand for
all, one for each way the writer and `handled.c` tell apart; messages and
exceptions are in the module a family starts from. The questions that
change nothing (names of scalars, targets) are left out.

### What is proved

`TablesProofs` is about `hash.c` and the tables that `module.c` keeps with
it, for every hash that gives a number (`limba_fnv` does), every size of a
new table but 0 and every family:

- `TablesRight`: `BSpec => []OneThing`. `BSpec` is `Building` alone. A step
  of `Forms` is one of `Building` or leaves its variables, so the theorem
  says it of `Forms` too.

The families start from modules whose tables hold (`StartsAssumption`, which
TLC evaluates for those of `forms`); one just made is such a module
(`StartRight`).

The inductive invariant is `Indexed(m)`: the strings are distinct, no two
types are the same, no name is there twice, and each table is a
`TableOf` the entries that the rest of the module calls for. `OneThing`
alone is not inductive: a search that finds everything today may lose an
entry when the places double. `TableOf(h, E)` says what keeps it: the
entries are those of E; going from the place of its key to an entry, a
search meets no free place (`Reached`); and the table is at most half full,
so a search ends. From that,

- `FindExact`: `limba_hash_find` gives an entry of the key that the caller
  takes for what it looks for, and none only if there is none, however many
  keys collide;
- `InsertRight`, `DoubledRight`, `PutRight`: an entry put, in a place that
  was free, cuts nobody off, and the places doubled hold the entries there
  were;
- `PutNamesRight`: the table made again after `limba_module_truncate` holds
  the names that are left.

The doubling and the table made again are folds over a sequence. The
library's fold is a recursive function on sets of places; that it is
defined (`FoldExists`) comes from `Recursion`, and its value from an
induction over the places (`UpTo`). There is one lemma for each call of
`module.c`, eighteen in all; those that do not touch a table keep the names
of what they change (`Unchanged`).

`HandledProofs` is about `handled.c` and the calls of `module.c` that must
tell it of a change, for every family:

- `AnswersRight`: `BSpec => []HandledRight`.
- `ClosureIsLeast`: for any calls, the rounds of `compute()` end with the
  least set that holds the roots and the callees of its members. The set
  grows each round or is done (`Grown`), and as many rounds as functions are
  enough: a set of n members cannot grow n + 1 times.

`HandledRight` compares with a set made from the instructions of every
body, those freed included (`kept`); the code goes by the summary that
`limba_func_clear` left, and most of the time answers with the set of the
time before. The invariant `Right(m, kept, dropped)` has a part for each:

- `KeptRight`: a function whose body is gone has the summary of the body
  kept, and one with nothing kept has no summary;
- `CacheRight`: a set that is not old holds all that would be computed now
  (`Now`), and nothing else unless something was `dropped`;
- `Usable`: what the proof asks of the module itself, that the types of the
  functions are there, that blocks hold instructions of their function and
  that only data has relocations.

From `KeptRight` the set by summaries is the one by instructions
(`ComputeIsLeast`, `UnderIsBy`). For `CacheRight` a call either says that
the IR has changed (`fresh` goes) or shows no more than before: fewer
callees, types called, addresses taken, relocations (`Less`). The least set
grows with all of these (`UnderGrows`), so the set kept still holds it;
and when the call shows no less either, it is the same (`StillRight`,
`OneFuncRight`, `GlobalRight`). There is one lemma for each call. It is
here that `limba_block_add` came to light: it shows less without telling,
which is allowed but leaves the set larger than need be.

Assumed: the families start from modules that are `Usable`, with no body
freed and the set not asked yet (`StartsAssumption`); a `par_for` names the
function it runs by a number (`InstsAssumption`). TLC evaluates both for
the families of `forms`. A function is added with a type that exists,
which is a guard of `AddFunc`.

`ReadsBack` and `Damaged`, which are about recursive operators (`Leb128`,
over bytes), are checked by TLC only.

## Findings

1. `eval.c:382`: a constant made past the budget makes `budget - used`
   wrap (run `heap_wrap`).
2. `eval.c:2149` and `eval.c:2373`: 0 as a message or as a position is taken
   for one not made yet, so a `raise` of the empty message gets the text of
   the trap, and a trap without a position that of a call it leaves (run
   `exc_irregular`).
3. `ssa.c:402`: a use reached without a definition is not reported (run
   `ssa_report`).
4. `licm.c:165`: the block before a loop whose only way in is a switch or
   an error is split as if a `br` or a `cbr` made the edge (run `opt_licm`).

Each was met by a program on the built library too.

### Remarks

Met while modelling; no run checks them, and the models keep what the code
does.

- `read_var` (`ssa.c:255`) asks the only predecessor of a sealed block, and
  where that goes round a loop (a block whose only edge is from itself) it
  calls itself until the stack overflows (met on the built library).
  `ssa.c:257` says of several predecessors that "a loop through this block
  ends here", and `ssa.h:13` that the blocks no path reaches are dropped,
  which allows such blocks until the end. With `ReadEnds == ~s.stuck` the
  run `ssa` shows it.
- `mem_reverse` (`eval.c:949-970`) over elements smaller than a string
  moves each known word to the place of its element, where memory holds a
  piece of it: `words` then names a word that holds no string, and
  `end_check` reads through it (on the built library nine elements of one
  byte, the first eight a string, end in a fault). `eval.h:53` and
  `doc/ir.md:340` say that a string read or written in part is BADMEM. With
  `Elem = {1}` in `EvalCounts.cfg`, `Tracked` fails in four states.
  `ReversedWhole`, the other hypothesis, leaves this out.
- `cstr_free` (`eval.c:906-914`) and the collection of a string
  (`eval.c:327`) forget no word: a string stored in that memory is still
  known after it, and an object made at the address later meets a false
  BADMEM (on the built library: `cstr_new`, `store` of an `sconst` there,
  `cstr_free`, `cstr_new`, `load i8`). With a C string of two bytes in
  `MCSizeOf` and its place in `Word` and `Ptr`, `Tracked` fails in six
  states. `KeptOut`, the hypothesis of `WordsAreTracked`, is that no program
  does so.
- `edge_fact` (`bounds.c:406-423`) takes the branch at the end of the only
  block before as one that was taken to get here. A handler with one such
  block is entered by an error, not by that branch: the condition is taken
  as false, and a check of its opposite in the handler goes (on the built
  library, with `LIMBA_OPTON=bounds`, a module that ends in a trap returns),
  though `doc/ir.md:1304-1310` promises the output and the traps of the
  unoptimised module. In `MCOptimizer`, `Helds` with the handlers
  `<<None, 5, h, None, None>>` makes `SameMeaning` fail in four states; as
  it is, the handler has a second block before it.
- `memcpy`, `memset` and `mem_count` of no bytes, at an address inside a
  word that holds a string, are BADMEM, though nothing is touched; the
  other callers of `can_forget` leave before.
- `limba_rat_cmp` (`bigint.c:773`) multiplies with a limit and does not ask
  whether a product was refused: past the limit the answer may be wrong.
  `Exact` asks it within.
- `limba_big_str` writes `...` over a text that fits to the last byte.
- `limba_global_set_data` drops the relocations to functions without
  `limba_handled_touch`: the set kept may stay larger than it need be.
- The writer keeps the functions given to it (`done`) through
  `limba_module_truncate`; the run truncates no function given.
- `sym_same` would index the things of another kind if the keys of two
  kinds were equal, 64 bits each: it may read past the end. `MCHashOf` keeps
  the kinds apart; `TablesRight` does not ask it, since in the model an id
  past the end stands for nothing.

## Not modelled

- Text form (`lex.c`, `parse*.c`, `print.c`): data, character by
  character; a function of its input, with no order of steps to explore.
- The verifier's rules on types, globals and whole modules: as above. Its
  rules on a function are in `Ir`.
- Floats and strings in the optimiser.
- The report of an exception (`report.c`): the wording of one line.
- The generator of random programs, `main.c` and the tools: they feed the
  tests and keep no state between programs.
- The functions of `math.c` and musl: the machine's, and vendored.
- Failure of `malloc`: the library ends the process.
