------------------------------- MODULE Objmap -------------------------------
(***************************************************************************)
(* The objects of a run by address (src/eval/objmap.c): a treap ordered by *)
(* the base of each object, its priority a hash of the base, and the       *)
(* object of the last answer.  objmap_holds says whether n bytes from p    *)
(* lie in one object, which every access of the interpreter asks.          *)
(*                                                                         *)
(* The map is a value: its operations are the functions of objmap.c.       *)
(***************************************************************************)
EXTENDS Integers

CONSTANTS
  Base,       \* the addresses where objects may start
  SizeOf,     \* the bytes of the object at each base
  Prio,       \* limba_mix of each base
  None        \* NULL

ASSUME ObjmapAssumption ==
  /\ Base \subseteq Nat /\ None \notin Base
  /\ SizeOf \in [Base -> Nat]
  /\ Prio \in [Base -> Nat]
  \* what malloc promises: the objects do not overlap
  /\ \A a, b \in Base : a < b => a + SizeOf[a] <= b

Node == Base \cup {None}
NoKids == [d \in 0..1 |-> None]

EmptyMap == [root |-> None, kid |-> [b \in Base |-> NoKids], last |-> None]

\* The side of t on which b is.
Side(b, t) == IF b > t THEN 1 ELSE 0

\* Mutant: the kid that goes up takes its own kids with it.
RotatedLost(kid, t, d) ==
  LET k == kid[t][d] IN [kid EXCEPT ![t][d] = kid[k][d], ![k][1 - d] = t]

\* kid with the kid d of t above t.
Rotated(kid, t, d) ==
  LET k == kid[t][d] IN [kid EXCEPT ![t][d] = kid[k][1 - d], ![k][1 - d] = t]

\* The root of the tree of each t, and the kids, with the object at n
\* (insert): to its leaf, then up while its priority is greater.
Inserted(kid0, n) ==
  LET Insert[t \in Node] ==
        IF t = None THEN <<n, kid0>>
        ELSE LET d   == Side(n, t)
                 r   == Insert[kid0[t][d]]
                 kid == [r[2] EXCEPT ![t][d] = r[1]]
             IN  IF Prio[r[1]] > Prio[t]
                 THEN <<r[1], Rotated(kid, t, d)>>
                 ELSE <<t, kid>>
  IN  Insert

\* The treap with the object at n (objmap_add).
Add(m, n) ==
  LET top == Inserted(m.kid, n)[m.root]
  IN  [m EXCEPT !.root = top[1], !.kid = top[2]]

\* Two trees, all of the first before all of the second, as one: what the
\* rotations of erase leave below the node that goes.
Joined(kid0) ==
  LET Join[lr \in Node \X Node] ==
        LET l == lr[1]
            r == lr[2]
        IN  IF l = None THEN <<r, kid0>>
            ELSE IF r = None THEN <<l, kid0>>
            ELSE IF Prio[r] > Prio[l]
            THEN LET x == Join[<<l, kid0[r][0]>>]
                 IN  <<r, [x[2] EXCEPT ![r][0] = x[1]]>>
            ELSE LET x == Join[<<kid0[l][1], r>>]
                 IN  <<l, [x[2] EXCEPT ![l][1] = x[1]]>>
  IN  Join

\* The tree of each t without the object at b (erase).
Erased(kid0, b) ==
  LET Erase[t \in Node] ==
        IF t = None THEN <<None, kid0>>
        ELSE IF t = b
        THEN LET x == Joined(kid0)[<<kid0[t][0], kid0[t][1]>>]
             IN  <<x[1], [x[2] EXCEPT ![t] = NoKids]>>
        ELSE LET d == Side(b, t)
                 r == Erase[kid0[t][d]]
             IN  <<t, [r[2] EXCEPT ![t][d] = r[1]]>>
  IN  Erase

\* Mutant: the object of the last answer is kept when it is freed.
DelKept(m, b) ==
  LET e == Erased(m.kid, b)[m.root] IN [m EXCEPT !.root = e[1], !.kid = e[2]]

\* objmap_del: the last answer is dropped with its object.
Del(m, b) ==
  LET e == Erased(m.kid, b)[m.root]
  IN  [root |-> e[1], kid |-> e[2],
       last |-> IF m.last = b THEN None ELSE m.last]

\* Bytes p to p + n in the object at o.
Within(o, p, n) ==
  /\ p >= o /\ p - o <= SizeOf[o]
  /\ n <= SizeOf[o] - (p - o)

\* Under each t, the object with the greatest base not above p.
BestUnder(kid, p) ==
  LET Best[t \in Node] ==
        IF t = None THEN None
        ELSE IF t > p THEN Best[kid[t][0]]
        ELSE LET b == Best[kid[t][1]] IN IF b = None THEN t ELSE b
  IN  Best

Below(m, p) == BestUnder(m.kid, p)[m.root]

LastHolds(m, p, n) == m.last # None /\ Within(m.last, p, n)

Found(m, p, n) ==
  LET b == Below(m, p) IN b # None /\ Within(b, p, n)

\* objmap_holds: its answer, and the map it leaves.
Holds(m, p, n) == LastHolds(m, p, n) \/ Found(m, p, n)

Asked(m, p, n) ==
  IF ~LastHolds(m, p, n) /\ Found(m, p, n)
  THEN [m EXCEPT !.last = Below(m, p)]
  ELSE m
=============================================================================
