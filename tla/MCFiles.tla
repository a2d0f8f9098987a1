------------------------------- MODULE MCFiles -------------------------------
(* A small instance of Files. *)
EXTENDS Files

CONSTANTS a, nl

\* No byte, and a line that fills the buffer and half another.
MCContent == {<<>>, <<a, nl, a>>}

\* Writes of nothing, less than a buffer and more than one.
MCData == {<<>>, <<a>>, <<nl, a, nl>>}
=============================================================================
