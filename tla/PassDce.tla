-------------------------------- MODULE PassDce -------------------------------
(***************************************************************************)
(* The pass "dce" (src/opt/dce.c): a value nobody uses, made by an         *)
(* instruction with no other effect, goes, then its operands in turn.      *)
(***************************************************************************)
EXTENDS Edit

\* removable: ptr_live only reads the heap, bits_pow its arguments
Removable(in) ==
  in.op # "param" /\ in.ty # Void /\ in.op \in Pure \cup {"ptr_live", "bits_pow"}

\* What the instructions still there use.
UsedNow(x, dead) ==
  UNION {Range(ResolveAll(x.e, Used(x.f.insts[i]))) :
           i \in DOMAIN x.f.insts \ dead}

Unused(x, dead) ==
  {i \in DOMAIN x.f.insts \ (dead \cup UsedNow(x, dead)) :
     Removable(x.f.insts[i])}

\* Mutant: the operands of what goes are not looked at again.
SweepOnce(x, dead) == dead \cup Unused(x, dead)

\* limba_pass_dce: the order of the work list changes nothing
RECURSIVE Sweep(_, _)
Sweep(x, dead) ==
  LET go == Unused(x, dead)
  IN IF go = {} THEN dead ELSE Sweep(x, dead \cup go)

Dce(x) ==
  LET dead == Sweep(x, x.e.dead)
  IN Result([x EXCEPT !.e.dead = dead], Cardinality(dead \ x.e.dead))
=============================================================================
