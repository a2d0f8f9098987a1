------------------------------- MODULE Leb128 -------------------------------
(***************************************************************************)
(* Variable-length integers: src/common/leb128.c and leb128.h.  A byte     *)
(* holds Payload bits of the number (7) and one that says more follow; a   *)
(* number has NumBits bits (64), NumBits not a multiple of Payload.  A     *)
(* reader is what is left of its input and whether it has met the end or a *)
(* malformed number.                                                       *)
(***************************************************************************)
EXTENDS Integers, Sequences

CONSTANTS Payload, NumBits
ASSUME Leb128Assumption == Payload \in Nat \ {0, 1} /\ NumBits \in Nat \ {0}

More == 2 ^ Payload                 \* the bit that says that a byte follows
Signed2(v) == IF v < 2 ^ (NumBits - 1) THEN v ELSE v - 2 ^ NumBits

RECURSIVE PutUleb(_)
PutUleb(v) == IF v >= More THEN <<(v % More) + More>> \o PutUleb(v \div More) ELSE <<v>>
RECURSIVE PutSleb(_)
PutSleb(v) ==
    LET x == v % More
        rest == v \div More
    IN  IF (rest = 0 /\ x < More \div 2) \/ (rest = -1 /\ x >= More \div 2) THEN <<x>>
        ELSE <<x + More>> \o PutSleb(rest)

Reader(bytes) == [left |-> bytes, bad |-> FALSE]
Bad(r) == [v |-> 0, r |-> [r EXCEPT !.bad = TRUE]]
RByte(r) == IF r.bad \/ r.left = <<>> THEN Bad(r)
            ELSE [v |-> Head(r.left), r |-> [r EXCEPT !.left = Tail(@)]]

RECURSIVE UlebLoop(_, _, _)
UlebLoop(r, v, shift) ==
    LET b == RByte(r)
        w == v + (b.v % More) * 2 ^ shift
    IN  IF shift >= NumBits THEN Bad(r)
        ELSE IF b.r.bad THEN Bad(b.r)
        ELSE IF shift + Payload > NumBits /\ b.v % More >= 2 ^ (NumBits - shift)
        THEN Bad(b.r)                                      \* more than NumBits
        ELSE IF b.v < More THEN [v |-> w, r |-> b.r]
        ELSE UlebLoop(b.r, w, shift + Payload)
RUleb(r) == UlebLoop(r, 0, 0)

RECURSIVE SlebLoop(_, _, _)
SlebLoop(r, v, shift) ==
    LET b == RByte(r)
        w == (v + (b.v % More) * 2 ^ shift) % 2 ^ NumBits
        s == shift + Payload
    IN  IF shift >= NumBits THEN Bad(r)
        ELSE IF b.r.bad THEN Bad(b.r)
        ELSE IF b.v >= More THEN SlebLoop(b.r, w, s)
        ELSE [v |-> Signed2(IF s < NumBits /\ b.v % More >= More \div 2
                            THEN w + 2 ^ NumBits - 2 ^ s ELSE w), r |-> b.r]
RSleb(r) == SlebLoop(r, 0, 0)

\* a count of things of minBytes bytes or more, that must still be there
RCount(r, minBytes) ==
    LET n == RUleb(r)
    IN  IF n.r.bad \/ n.v * minBytes > Len(n.r.left) THEN Bad(n.r) ELSE n
RBytes(r, n) ==
    IF r.bad \/ n > Len(r.left) THEN [v |-> <<>>, r |-> [r EXCEPT !.bad = TRUE]]
    ELSE [v |-> SubSeq(r.left, 1, n), r |-> [r EXCEPT !.left = SubSeq(@, n + 1, Len(@))]]

=============================================================================
