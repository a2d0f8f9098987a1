----------------------------- MODULE MCEvalHeap -----------------------------
(* Small instances of EvalHeap. *)
EXTENDS EvalHeap, TLC

CONSTANTS s1, s2, s3, b1, b2, c1, r1

\* s3 and b2 take two bytes, every other object one.
MCSizeOf == [o \in Obj |-> IF o \in {s3, b2} THEN 2 ELSE 1]

\* Addresses of the same size are alike.
MCSymmetry == Permutations({s1, s2})
=============================================================================
