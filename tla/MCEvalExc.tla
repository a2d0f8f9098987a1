------------------------------ MODULE MCEvalExc ------------------------------
(* Small instances of EvalExc. *)
EXTENDS EvalExc

CONSTANTS div, io, own, fatal, t1, t2, empty

\* An identity of the program without a text, and two texts, so that the text
\* of another trap shows.
MCText == [c \in Code |-> IF c = own THEN empty ELSE IF c = div THEN t1 ELSE t2]

\* raise is given anything.
AnyRaise == Code \X Str

\* raise is given the word 0 only for an identity without a text.
WordedRaise == {r \in AnyRaise : r[2] = Nil => Text[r[1]] = Empty}
=============================================================================
