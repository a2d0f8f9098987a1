----------------------------- MODULE Occurrences -----------------------------
(***************************************************************************)
(* What the IR promises of exceptions (doc/ir.md sections 5.3, 11, 13.2,   *)
(* 13.3, 13.7 and 15.10), whatever the engine: an occurrence has its       *)
(* identity, its position and its message from the moment it is raised     *)
(* ("The trap carries the position of the instruction", 11; "An exception  *)
(* on its way carries three values", 13.2), and travels unchanged to the   *)
(* handler that gets it, to the par_for that keeps it or to the report of  *)
(* the run.  EvalExc implements it, for the programs its property          *)
(* Implements names.                                                       *)
(***************************************************************************)
EXTENDS Integers, Sequences

CONSTANTS
  Code,       \* the identities
  Fatal,      \* those that no handler may catch
  IO,         \* the identity of an error of writing
  Pos,        \* the positions, NoPos among them
  NoPos,
  Msg,        \* the messages
  Index,      \* the indices of par_for
  None        \* no occurrence

Occ == [id : Code, pos : Pos, msg : Msg]

VARIABLES
  flight,     \* the occurrence on its way, or None
  pars,       \* the par_for running, outermost first
  got,        \* the last occurrence a handler received
  over,       \* the run is over
  report      \* what it ended with: an occurrence, or None

vars == <<flight, pars, got, over, report>>

Init ==
  /\ flight = None /\ pars = <<>> /\ got = None
  /\ report = None /\ over = FALSE

\* trap, raise, a call that cannot start.
Raise ==
  /\ flight = None /\ ~over
  /\ flight' \in Occ
  /\ UNCHANGED <<pars, got, over, report>>

\* A handler receives the occurrence.
Catch ==
  /\ flight # None /\ flight.id \notin Fatal /\ ~over
  /\ got' = flight
  /\ flight' = None
  /\ UNCHANGED <<pars, over, report>>

Front(s) == SubSeq(s, 1, Len(s) - 1)
Top == pars[Len(pars)]

\* par_for over some indices.
ParBegin ==
  /\ flight = None /\ ~over
  /\ \E lo \in Index, hi \in Index :
       pars' = Append(pars, [todo |-> lo..hi, first |-> None])
  /\ UNCHANGED <<flight, got, over, report>>

\* The lowest index still to do is done: its body returned, or left with an
\* occurrence, kept if it is the first.
ParDone ==
  /\ pars # <<>> /\ Top.todo # {} /\ ~over
  /\ flight # None => flight.id \notin Fatal
  /\ LET i == CHOOSE i \in Top.todo : \A j \in Top.todo : i <= j IN
       pars' = Append(Front(pars),
                 [todo |-> Top.todo \ {i},
                  first |-> IF Top.first = None /\ flight # None
                            THEN flight ELSE Top.first])
  /\ flight' = None
  /\ UNCHANGED <<got, over, report>>

\* Every iteration ran: the occurrence of the lowest index leaves par_for.
ParEnd ==
  /\ flight = None /\ pars # <<>> /\ Top.todo = {} /\ ~over
  /\ flight' = Top.first
  /\ pars' = Front(pars)
  /\ UNCHANGED <<got, over, report>>

\* What no handler may catch ends par_for at once: an end of the run that is
\* no exception, a body that cannot start, or a fatal occurrence of a body.
ParStop ==
  /\ pars # <<>> /\ ~over
  /\ \/ flight = None /\ flight' = None
     \/ flight = None /\ flight' \in {o \in Occ : o.id \in Fatal}
     \/ flight # None /\ flight.id \in Fatal /\ flight' = flight
  /\ pars' = Front(pars)
  /\ UNCHANGED <<got, over, report>>

\* An error of writing found at the end: IO without a position (5.3).
FoundAtEnd == [id : {IO}, pos : {NoPos}, msg : Msg]

\* The run ends, with the occurrence that left the entry, or with none, or
\* with what is found at the end.
End ==
  /\ ~over /\ pars = <<>>
  /\ report' \in IF flight = None THEN FoundAtEnd \cup {None} ELSE {flight}
  /\ flight' = None /\ over' = TRUE
  /\ UNCHANGED <<pars, got>>

Next ==
  \/ Raise \/ Catch
  \/ ParBegin \/ ParDone \/ ParEnd \/ ParStop
  \/ End

Spec == Init /\ [][Next]_vars
=============================================================================
