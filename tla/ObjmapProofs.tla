---------------------------- MODULE ObjmapProofs ----------------------------
(***************************************************************************)
(* What the functions of objmap.c do, for every heap and every priority:   *)
(* objmap_add and objmap_del keep the search tree of the objects alive,    *)
(* and objmap_holds finds the one that covers an access.                   *)
(***************************************************************************)
EXTENDS Objmap, Recursion, FiniteSetTheorems

-----------------------------------------------------------------------------
(* Trees, without recursion.  keys says what lies under each node; a tree  *)
(* of the objects of S is a node under which lies S.                       *)

Kids == [Base -> [0..1 -> Node]]

\* The objects of A lie on the side d of t.
OnSide(A, d, t) == \A a \in A : a # t /\ Side(a, t) = d

Keyed(kid, keys, S) ==
  \A x \in S :
    /\ keys[x] \subseteq S /\ \A y \in keys[x] : keys[y] \subseteq keys[x]
    /\ kid[x][0] \in S \cup {None} /\ kid[x][1] \in S \cup {None}
    /\ keys[x] = keys[kid[x][0]] \cup {x} \cup keys[kid[x][1]]
    /\ OnSide(keys[kid[x][0]], 0, x) /\ OnSide(keys[kid[x][1]], 1, x)

Keys(kid, t, S, keys) ==
  /\ keys \in [Node -> SUBSET Base] /\ keys[None] = {} /\ keys[t] = S
  /\ Keyed(kid, keys, S)

\* t is the root of a search tree of the objects of S.
Tree(kid, t, S) ==
  /\ S \in SUBSET Base /\ IsFiniteSet(S)
  /\ t \in Node /\ (t # None => t \in S)
  /\ \E keys : Keys(kid, t, S, keys)

LEMMA NodeType ==
  /\ None \notin Base /\ Base \subseteq Nat /\ None \in Node
  /\ Base \subseteq Node
  /\ \A t \in Node : t # None => t \in Base
  BY ObjmapAssumption DEF Node

LEMMA SideType == \A a, b : Side(a, b) \in 0..1
<1>1. 0 \in 0..1 /\ 1 \in 0..1
  OBVIOUS
<1>2. \A a, b : Side(a, b) = 0 \/ Side(a, b) = 1
  BY Zenon DEF Side
<1>. QED  BY <1>1, <1>2

LEMMA Sides ==
  ASSUME NEW a \in Base, NEW b \in Base, NEW d \in 0..1, a # b
  PROVE  /\ Side(a, b) \in 0..1
         /\ Side(a, b) = d <=> Side(b, a) = 1 - d
  BY NodeType DEF Side

LEMMA SideTransitive ==
  ASSUME NEW a \in Base, NEW b \in Base, NEW c \in Base, NEW d \in 0..1,
         a # b, b # c, Side(a, b) = d, Side(b, c) = d
  PROVE  a # c /\ Side(a, c) = d
  BY NodeType DEF Side

LEMMA TreeNone ==
  ASSUME NEW kid
  PROVE  Tree(kid, None, {})
<1>. DEFINE keys == [x \in Node |-> {}]
<1>1. Keys(kid, None, {}, keys)
  BY NodeType DEF Keys, Keyed
<1>. QED  BY <1>1, NodeType, FS_EmptySet DEF Tree

LEMMA TreeOfNone ==
  ASSUME NEW kid, NEW S, Tree(kid, None, S)
  PROVE  S = {}
  BY DEF Tree, Keys

\* The tree of t is in the kids of its nodes only.
LEMMA TreeSame ==
  ASSUME NEW kid, NEW kid2, NEW t, NEW S, Tree(kid, t, S),
         \A x \in S : kid2[x] = kid[x]
  PROVE  Tree(kid2, t, S)
<1>1. PICK keys : Keys(kid, t, S, keys)
  BY DEF Tree
<1>2. Keys(kid2, t, S, keys)
  BY <1>1 DEF Keys, Keyed
<1>. QED  BY <1>2 DEF Tree

\* A node above two trees.
LEMMA TreeNode ==
  ASSUME NEW kid, NEW t \in Base, NEW A, NEW B,
         Tree(kid, kid[t][0], A), Tree(kid, kid[t][1], B),
         OnSide(A, 0, t), OnSide(B, 1, t)
  PROVE  Tree(kid, t, A \cup {t} \cup B)
<1>. DEFINE S == A \cup {t} \cup B
<1>1. PICK ka : Keys(kid, kid[t][0], A, ka)
  BY DEF Tree
<1>2. PICK kb : Keys(kid, kid[t][1], B, kb)
  BY DEF Tree
<1>3. /\ A \in SUBSET Base /\ B \in SUBSET Base
      /\ A \cap B = {} /\ t \notin A /\ t \notin B
  BY DEF Tree, OnSide
<1>4. S \in SUBSET Base /\ IsFiniteSet(S)
  <2>1. IsFiniteSet(A) /\ IsFiniteSet(B) /\ IsFiniteSet({t})
    BY FS_Singleton DEF Tree
  <2>. QED  BY <1>3, <2>1, FS_Union
<1>. DEFINE keys == [x \in Node |-> IF x = t THEN S
                                    ELSE IF x \in A THEN ka[x]
                                    ELSE IF x \in B THEN kb[x] ELSE {}]
<1>5. keys \in [Node -> SUBSET Base] /\ keys[None] = {} /\ keys[t] = S
  BY <1>1, <1>2, <1>3, <1>4, NodeType DEF Keys
<1>6. /\ \A x \in A \cup {None} : keys[x] = ka[x]
      /\ \A x \in B \cup {None} : keys[x] = kb[x]
  BY <1>1, <1>2, <1>3, NodeType DEF Keys
<1>. HIDE DEF keys
<1>7. kid[t][0] \in A \cup {None} /\ kid[t][1] \in B \cup {None}
  BY DEF Tree
<1>8. keys[kid[t][0]] = A /\ keys[kid[t][1]] = B
  BY <1>1, <1>2, <1>6, <1>7 DEF Keys
<1>9. ASSUME NEW x \in S
      PROVE  /\ keys[x] \subseteq S
             /\ \A y \in keys[x] : keys[y] \subseteq keys[x]
             /\ kid[x][0] \in S \cup {None} /\ kid[x][1] \in S \cup {None}
             /\ keys[x] = keys[kid[x][0]] \cup {x} \cup keys[kid[x][1]]
             /\ OnSide(keys[kid[x][0]], 0, x)
             /\ OnSide(keys[kid[x][1]], 1, x)
  <2>1. CASE x = t
    <3>1. \A y \in S : keys[y] \subseteq S
      BY <1>1, <1>2, <1>5, <1>6 DEF Keys, Keyed
    <3>. QED  BY <1>5, <1>7, <1>8, <2>1, <3>1
  <2>2. CASE x \in A
    <3>1. /\ ka[x] \subseteq A
          /\ \A y \in ka[x] : ka[y] \subseteq ka[x]
          /\ kid[x][0] \in A \cup {None} /\ kid[x][1] \in A \cup {None}
          /\ ka[x] = ka[kid[x][0]] \cup {x} \cup ka[kid[x][1]]
          /\ OnSide(ka[kid[x][0]], 0, x) /\ OnSide(ka[kid[x][1]], 1, x)
      BY <1>1, <2>2 DEF Keys, Keyed
    <3>. QED  BY <1>6, <2>2, <3>1
  <2>3. CASE x \in B
    <3>1. /\ kb[x] \subseteq B
          /\ \A y \in kb[x] : kb[y] \subseteq kb[x]
          /\ kid[x][0] \in B \cup {None} /\ kid[x][1] \in B \cup {None}
          /\ kb[x] = kb[kid[x][0]] \cup {x} \cup kb[kid[x][1]]
          /\ OnSide(kb[kid[x][0]], 0, x) /\ OnSide(kb[kid[x][1]], 1, x)
      BY <1>2, <2>3 DEF Keys, Keyed
    <3>. QED  BY <1>6, <2>3, <3>1
  <2>. QED  BY <2>1, <2>2, <2>3
<1>10. Keys(kid, t, S, keys)
  BY <1>5, <1>9 DEF Keys, Keyed
<1>. HIDE DEF S
<1>11. t \in Node /\ t \in S
  BY NodeType DEF S
<1>. QED  BY <1>4, <1>10, <1>11 DEF Tree, S

\* A node is above two trees.
LEMMA TreeSplit ==
  ASSUME NEW kid, NEW t, NEW S, Tree(kid, t, S), t # None
  PROVE  /\ t \in S /\ t \in Base
         /\ \E A, B : /\ S = A \cup {t} \cup B
                      /\ Tree(kid, kid[t][0], A) /\ Tree(kid, kid[t][1], B)
                      /\ OnSide(A, 0, t) /\ OnSide(B, 1, t)
<1>1. PICK keys : Keys(kid, t, S, keys)
  BY DEF Tree
<1>2. t \in S /\ t \in Base /\ S \in SUBSET Base /\ IsFiniteSet(S)
  BY DEF Tree
<1>3. ASSUME NEW x \in S \cup {None}
      PROVE  Tree(kid, x, keys[x])
  <2>1. CASE x = None
    BY <1>1, <2>1, TreeNone DEF Keys
  <2>2. CASE x # None
    <3>1. keys[x] \subseteq S /\ x \in keys[x]
      BY <1>1, <2>2 DEF Keys, Keyed
    <3>2. IsFiniteSet(keys[x]) /\ keys[x] \in SUBSET Base /\ x \in Node
      BY <1>2, <2>2, <3>1, FS_Subset, NodeType
    <3>3. Keyed(kid, keys, keys[x])
      <4>1. ASSUME NEW y \in S, y \in keys[x], NEW d \in 0..1
            PROVE  kid[y][d] \in keys[x] \cup {None}
        <5>1. kid[y][d] \in S \cup {None} /\ keys[kid[y][d]] \subseteq keys[y]
          BY <1>1, <4>1 DEF Keys, Keyed
        <5>2. kid[y][d] \in S => kid[y][d] \in keys[kid[y][d]]
          BY <1>1 DEF Keys, Keyed
        <5>3. keys[y] \subseteq keys[x]
          BY <1>1, <2>2, <4>1 DEF Keys, Keyed
        <5>. QED  BY <5>1, <5>2, <5>3
      <4>. QED  BY <1>1, <2>2, <3>1, <4>1 DEF Keys, Keyed
    <3>4. Keys(kid, x, keys[x], keys)
      BY <1>1, <3>3 DEF Keys
    <3>. QED  BY <3>1, <3>2, <3>4 DEF Tree
  <2>. QED  BY <2>1, <2>2
<1>4. /\ kid[t][0] \in S \cup {None} /\ kid[t][1] \in S \cup {None}
      /\ S = keys[kid[t][0]] \cup {t} \cup keys[kid[t][1]]
      /\ OnSide(keys[kid[t][0]], 0, t) /\ OnSide(keys[kid[t][1]], 1, t)
  BY <1>1, <1>2 DEF Keys, Keyed
<1>. QED  BY <1>2, <1>3, <1>4

\* The same with a side d, whichever it is.
LEMMA TreeNodeSide ==
  ASSUME NEW kid, NEW t \in Base, NEW d \in 0..1, NEW A, NEW B,
         Tree(kid, kid[t][d], A), Tree(kid, kid[t][1 - d], B),
         OnSide(A, d, t), OnSide(B, 1 - d, t)
  PROVE  Tree(kid, t, A \cup {t} \cup B)
<1>1. CASE d = 0
  BY <1>1, TreeNode
<1>2. CASE d = 1
  <2>1. Tree(kid, t, B \cup {t} \cup A)
    BY <1>2, TreeNode
  <2>2. B \cup {t} \cup A = A \cup {t} \cup B
    OBVIOUS
  <2>. QED  BY <2>1, <2>2
<1>. QED  BY <1>1, <1>2

\* What TreeSplit finds, on the side d.
Halves(kid, t, d, S, A, B) ==
  /\ S = A \cup {t} \cup B
  /\ Tree(kid, kid[t][d], A) /\ Tree(kid, kid[t][1 - d], B)
  /\ OnSide(A, d, t) /\ OnSide(B, 1 - d, t)
  /\ A \in SUBSET Base /\ B \in SUBSET Base /\ A \cap B = {}
  /\ t \notin A /\ t \notin B

LEMMA TreeSplitSide ==
  ASSUME NEW kid, NEW t, NEW S, Tree(kid, t, S), t # None, NEW d \in 0..1
  PROVE  \E A, B : Halves(kid, t, d, S, A, B)
<1>1. PICK A, B : /\ S = A \cup {t} \cup B
                  /\ Tree(kid, kid[t][0], A) /\ Tree(kid, kid[t][1], B)
                  /\ OnSide(A, 0, t) /\ OnSide(B, 1, t)
  BY TreeSplit
<1>2. /\ A \in SUBSET Base /\ B \in SUBSET Base /\ A \cap B = {}
      /\ t \notin A /\ t \notin B
  BY <1>1 DEF Tree, OnSide
<1>3. CASE d = 0
  BY <1>1, <1>3, <1>2 DEF Halves
<1>4. CASE d = 1
  <2>1. S = B \cup {t} \cup A /\ B \cap A = {}
    BY <1>1, <1>2
  <2>2. Halves(kid, t, d, S, B, A)
    BY <1>1, <1>4, <1>2, <2>1 DEF Halves
  <2>. QED  BY <2>2
<1>. QED  BY <1>3, <1>4

LEMMA HalvesApart ==
  ASSUME NEW kid, NEW t \in Base, NEW d \in 0..1, NEW S, NEW A, NEW B,
         Halves(kid, t, d, S, A, B)
  PROVE  /\ A \in SUBSET Base /\ B \in SUBSET Base
         /\ A \cap B = {} /\ t \notin A /\ t \notin B
         /\ kid[t][d] \in A \cup {None} /\ kid[t][1 - d] \in B \cup {None}
  BY DEF Halves, Tree

-----------------------------------------------------------------------------
(* Kids that change. *)

\* kid2 is kid with u as the kid d of t.
IsKidSet(kid2, kid, t, d, u) ==
  /\ kid2 \in Kids /\ kid2[t][d] = u /\ kid2[t][1 - d] = kid[t][1 - d]
  /\ \A x \in Base : x # t => kid2[x] = kid[x]

LEMMA KidSet ==
  ASSUME NEW kid \in Kids, NEW t \in Base, NEW d \in 0..1, NEW u \in Node
  PROVE  IsKidSet([kid EXCEPT ![t][d] = u], kid, t, d, u)
  BY DEF IsKidSet, Kids

LEMMA KidType ==
  ASSUME NEW kid \in Kids, NEW t \in Base, NEW d \in 0..1
  PROVE  kid[t][d] \in Node /\ 1 - d \in 0..1 /\ 1 - (1 - d) = d
         /\ kid[t][1 - d] \in Node
  BY DEF Kids

\* The tree of t with another tree on the side d.
LEMMA TreeReplace ==
  ASSUME NEW kid \in Kids, NEW kid2, NEW t \in Base, NEW d \in 0..1,
         NEW u \in Node, NEW A, NEW B, NEW S, NEW A2,
         Halves(kid, t, d, S, A, B), IsKidSet(kid2, kid, t, d, u),
         Tree(kid, u, A2), OnSide(A2, d, t)
  PROVE  Tree(kid2, t, A2 \cup {t} \cup B)
<1>1. t \notin A2 /\ t \notin B /\ A2 \subseteq Base /\ B \subseteq Base
  BY HalvesApart DEF OnSide, Tree
<1>2. Tree(kid2, u, A2) /\ Tree(kid2, kid[t][1 - d], B)
  <2>1. \A x \in A2 : kid2[x] = kid[x]
    BY <1>1 DEF IsKidSet
  <2>2. \A x \in B : kid2[x] = kid[x]
    BY <1>1 DEF IsKidSet
  <2>. QED  BY <2>1, <2>2, TreeSame DEF Halves
<1>3. kid2[t][d] = u /\ kid2[t][1 - d] = kid[t][1 - d]
  BY DEF IsKidSet
<1>4. OnSide(B, 1 - d, t)
  BY DEF Halves
<1>. QED  BY <1>2, <1>3, <1>4, TreeNodeSide

\* rotate: the kid d of t above t, with the same objects.
LEMMA RotatedTree ==
  ASSUME NEW kid \in Kids, NEW t \in Base, NEW d \in 0..1, NEW S,
         Tree(kid, t, S), kid[t][d] # None
  PROVE  /\ Rotated(kid, t, d) \in Kids
         /\ Tree(Rotated(kid, t, d), kid[t][d], S)
         /\ \A x \in Base \ S : Rotated(kid, t, d)[x] = kid[x]
<1>k. PICK k : k = kid[t][d]
  OBVIOUS
<1>. DEFINE e == 1 - d
            kid1 == [kid EXCEPT ![t][d] = kid[k][e]]
            kid2 == [kid1 EXCEPT ![k][e] = t]
<1>1. t # None
  BY NodeType
<1>2. PICK A, B : Halves(kid, t, d, S, A, B)
  BY <1>1, TreeSplitSide
<1>3. k \in Base /\ k \in A /\ Tree(kid, k, A) /\ k # None
  <2>1. A \in SUBSET Base /\ kid[t][d] \in A \cup {None}
    BY <1>2, HalvesApart
  <2>2. Tree(kid, kid[t][d], A)
    BY <1>2 DEF Halves
  <2>. QED  BY <1>k, <2>1, <2>2
<1>4. PICK C, D : Halves(kid, k, d, A, C, D)
  BY <1>3, TreeSplitSide
<1>5. /\ A \in SUBSET Base /\ B \in SUBSET Base
      /\ A \cap B = {} /\ t \notin A /\ t \notin B
      /\ S = A \cup {t} \cup B /\ A = C \cup {k} \cup D
      /\ C \in SUBSET Base /\ D \in SUBSET Base
      /\ C \cap D = {} /\ k \notin C /\ k \notin D
  <2>1. /\ A \in SUBSET Base /\ B \in SUBSET Base
        /\ A \cap B = {} /\ t \notin A /\ t \notin B
    BY <1>2, HalvesApart
  <2>2. /\ C \in SUBSET Base /\ D \in SUBSET Base
        /\ C \cap D = {} /\ k \notin C /\ k \notin D
    <3>1. k \in Base /\ Halves(kid, k, d, A, C, D)
      BY <1>3, <1>4
    <3>2. C \in SUBSET Base
      BY <3>1, HalvesApart
    <3>3. D \in SUBSET Base
      BY <3>1, HalvesApart
    <3>4. C \cap D = {} /\ k \notin C
      BY <3>1, HalvesApart
    <3>5. k \notin D
      BY <3>1, HalvesApart
    <3>. QED  BY <3>2, <3>3, <3>4, <3>5
  <2>3. S = A \cup {t} \cup B /\ A = C \cup {k} \cup D
    BY <1>2, <1>4 DEF Halves
  <2>. QED  BY <2>1, <2>2, <2>3
<1>6. /\ e \in 0..1 /\ 1 - e = d /\ kid[k][e] \in Node /\ t \in Node
      /\ kid[t][e] \in Node /\ kid[k][d] \in Node
  BY <1>3, <1>k, KidType, NodeType
<1>. HIDE DEF e
<1>7. IsKidSet(kid1, kid, t, d, kid[k][e])
  BY <1>6, KidSet
<1>8. IsKidSet(kid2, kid1, k, e, t)
  <2>1. kid1 \in Kids
    BY <1>7 DEF IsKidSet
  <2>. HIDE DEF kid1
  <2>. QED  BY <1>3, <1>6, <2>1, KidSet
<1>9. Rotated(kid, t, d) = kid2
  BY <1>k DEF Rotated, e
<1>. HIDE DEF kid1, kid2
<1>10. /\ kid2 \in Kids /\ kid2[k][e] = t /\ kid2[k][d] = kid[k][d]
      /\ kid2[t][d] = kid[k][e] /\ kid2[t][e] = kid[t][e]
      /\ \A x \in Base : x # t /\ x # k => kid2[x] = kid[x]
  BY <1>3, <1>5, <1>6, <1>7, <1>8 DEF IsKidSet, e
<1>11. /\ Tree(kid2, kid[k][d], C) /\ Tree(kid2, kid[k][e], D)
       /\ Tree(kid2, kid[t][e], B)
  <2>1. /\ Tree(kid, kid[k][d], C) /\ Tree(kid, kid[k][e], D)
        /\ Tree(kid, kid[t][e], B)
    BY <1>2, <1>4, <1>k DEF Halves, e
  <2>2. /\ \A x \in C : kid2[x] = kid[x]
        /\ \A x \in D : kid2[x] = kid[x]
        /\ \A x \in B : kid2[x] = kid[x]
    BY <1>3, <1>5, <1>10
  <2>. QED  BY <2>1, <2>2, TreeSame
<1>12. /\ OnSide(C, d, k) /\ OnSide(D, e, k) /\ OnSide(A, d, t)
       /\ OnSide(B, e, t)
  BY <1>2, <1>4, <1>k DEF Halves, e
<1>. DEFINE E == D \cup {t} \cup B
<1>13. Tree(kid2, t, E)
  <2>1. OnSide(D, d, t)
    BY <1>5, <1>12 DEF OnSide
  <2>. QED  BY <1>6, <1>10, <1>11, <1>12, <2>1, TreeNodeSide DEF e
<1>14. OnSide(E, e, k)
  <2>1. k # t /\ Side(k, t) = d
    BY <1>3, <1>12 DEF OnSide
  <2>2. Side(t, k) = e
    BY <1>3, <2>1, Sides DEF e
  <2>3. ASSUME NEW b \in B PROVE b # k /\ Side(b, k) = e
    <3>1. b \in Base /\ b # t /\ Side(b, t) = e
      BY <1>5, <1>12, <2>3 DEF OnSide
    <3>. QED  BY <1>3, <1>6, <2>1, <2>2, <3>1, SideTransitive
  <2>. QED  BY <1>12, <2>1, <2>2, <2>3 DEF OnSide
<1>15. Tree(kid2, k, C \cup {k} \cup E)
  BY <1>3, <1>6, <1>10, <1>11, <1>12, <1>13, <1>14, TreeNodeSide DEF e
<1>16. C \cup {k} \cup E = S
  BY <1>5
<1>17. \A x \in Base \ S : kid2[x] = kid[x]
  BY <1>5, <1>3, <1>10
<1>. QED  BY <1>9, <1>10, <1>15, <1>16, <1>17, <1>k

-----------------------------------------------------------------------------
(* insert, by induction on what lies under a node. *)

\* The tree of the whole gives each node a rank above that of its kids.
LEMMA Ranked ==
  ASSUME NEW kid \in Kids, NEW root, NEW S, Tree(kid, root, S),
         \A b \in Base \ S : kid[b] = NoKids
  PROVE  \E rank \in [Node -> Nat] :
           \A t \in Base, d \in 0..1 : rank[kid[t][d]] < rank[t]
<1>1. PICK keys : Keys(kid, root, S, keys)
  BY DEF Tree
<1>. DEFINE rank == [x \in Node |-> IF x = None THEN 0
                                    ELSE IF x \in S THEN Cardinality(keys[x])
                                    ELSE 1]
<1>2. ASSUME NEW x \in S
      PROVE  IsFiniteSet(keys[x]) /\ Cardinality(keys[x]) \in Nat
             /\ keys[x] # {}
  <2>1. IsFiniteSet(S) /\ keys[x] \subseteq S /\ x \in keys[x]
    BY <1>1 DEF Tree, Keys, Keyed
  <2>. QED  BY <2>1, FS_Subset, FS_CardinalityType
<1>3. rank \in [Node -> Nat]
  BY <1>2
<1>4. ASSUME NEW t \in Base, NEW d \in 0..1
      PROVE  rank[kid[t][d]] < rank[t]
  <2>1. CASE t \notin S
    <3>1. kid[t][d] = None
      BY <2>1 DEF NoKids
    <3>2. rank[None] = 0 /\ rank[t] = 1
      BY <2>1, NodeType
    <3>. QED  BY <3>1, <3>2
  <2>2. CASE t \in S
    <3>. DEFINE k == kid[t][d]
    <3>1. k \in S \cup {None} /\ keys[k] \subseteq keys[t] /\ t \notin keys[k]
          /\ t \in keys[t]
      BY <1>1, <2>2 DEF Keys, Keyed, OnSide
    <3>2. rank[t] = Cardinality(keys[t])
      BY <2>2, NodeType
    <3>3. Cardinality(keys[t]) > 0 /\ Cardinality(keys[t]) \in Nat
      BY <1>2, <2>2, FS_EmptySet
    <3>4. CASE k = None
      BY <3>2, <3>3, <3>4, NodeType
    <3>5. CASE k \in S
      <4>1. rank[k] = Cardinality(keys[k])
        BY <3>5, NodeType DEF Tree
      <4>2. Cardinality(keys[k]) < Cardinality(keys[t])
        <5>1. IsFiniteSet(keys[t]) /\ Cardinality(keys[t]) \in Nat
              /\ Cardinality(keys[k]) \in Nat
          BY <1>2, <2>2, <3>5
        <5>2. /\ Cardinality(keys[k]) <= Cardinality(keys[t])
              /\ Cardinality(keys[t]) = Cardinality(keys[k])
                   => keys[t] = keys[k]
          BY <3>1, <5>1, FS_Subset
        <5>. QED  BY <3>1, <5>1, <5>2
      <4>. QED  BY <3>2, <4>1, <4>2
    <3>. QED  BY <3>1, <3>4, <3>5
  <2>. QED  BY <2>1, <2>2
<1>. HIDE DEF rank
<1>. QED  BY <1>3, <1>4

\* insert at t, once r is the tree of the side d with the object.
Raised(t, d, r) ==
  LET kid == [r[2] EXCEPT ![t][d] = r[1]]
  IN  IF Prio[r[1]] > Prio[t] THEN <<r[1], Rotated(kid, t, d)>>
      ELSE <<t, kid>>

LEMMA RotatedType ==
  ASSUME NEW kid \in Kids, NEW t \in Base, NEW d \in 0..1, kid[t][d] \in Base
  PROVE  Rotated(kid, t, d) \in Kids
<1>. DEFINE kid1 == [kid EXCEPT ![t][d] = kid[kid[t][d]][1 - d]]
            kid2 == [kid1 EXCEPT ![kid[t][d]][1 - d] = t]
<1>1. kid[kid[t][d]][1 - d] \in Node /\ 1 - d \in 0..1 /\ t \in Node
  BY KidType, NodeType
<1>2. kid1 \in Kids
  <2>1. IsKidSet(kid1, kid, t, d, kid[kid[t][d]][1 - d])
    BY <1>1, KidSet
  <2>. QED  BY <2>1 DEF IsKidSet
<1>. HIDE DEF kid1
<1>3. IsKidSet(kid2, kid1, kid[t][d], 1 - d, t)
  BY <1>1, <1>2, KidSet
<1>4. Rotated(kid, t, d) = kid2
  BY DEF Rotated, kid1
<1>. QED  BY <1>3, <1>4 DEF IsKidSet

LEMMA RaisedType ==
  ASSUME NEW t \in Base, NEW d \in 0..1, NEW r \in Base \X Kids
  PROVE  Raised(t, d, r) \in Base \X Kids
<1>1. PICK k \in Base, kid0 \in Kids : r = <<k, kid0>>
  OBVIOUS
<1>. DEFINE kid == [kid0 EXCEPT ![t][d] = k]
<1>2. IsKidSet(kid, kid0, t, d, k)
  BY KidSet, NodeType
<1>3. Raised(t, d, r) = IF Prio[k] > Prio[t] THEN <<k, Rotated(kid, t, d)>>
                        ELSE <<t, kid>>
  BY <1>1 DEF Raised
<1>. HIDE DEF kid
<1>4. kid \in Kids /\ kid[t][d] \in Base
  BY <1>2 DEF IsKidSet
<1>5. Rotated(kid, t, d) \in Kids
  BY <1>4, RotatedType
<1>. QED  BY <1>3, <1>4, <1>5

LEMMA InsertedIs ==
  ASSUME NEW kid \in Kids, NEW n \in Base, NEW rank \in [Node -> Nat],
         \A t \in Base, d \in 0..1 : rank[kid[t][d]] < rank[t]
  PROVE  /\ Inserted(kid, n) \in [Node -> Base \X Kids]
         /\ Inserted(kid, n)[None] = <<n, kid>>
         /\ \A t \in Base : Inserted(kid, n)[t] =
              Raised(t, Side(n, t), Inserted(kid, n)[kid[t][Side(n, t)]])
<1>. DEFINE V == Base \X Kids
            b == [t \in Node |-> <<n, kid>>]
            nxt == [t \in Node |->
                      IF t = None THEN None ELSE kid[t][Side(n, t)]]
            h == [x \in Node \X V |->
                    IF x[1] = None THEN <<n, kid>>
                    ELSE Raised(x[1], Side(n, x[1]), x[2])]
            F[t \in Node] ==
              IF t = None THEN <<n, kid>>
              ELSE LET d   == Side(n, t)
                       r   == F[kid[t][d]]
                       kid1 == [r[2] EXCEPT ![t][d] = r[1]]
                   IN  IF Prio[r[1]] > Prio[t]
                       THEN <<r[1], Rotated(kid1, t, d)>>
                       ELSE <<t, kid1>>
            Fixed(f) == f = [t \in Node |->
                               IF t = None THEN <<n, kid>>
                               ELSE Raised(t, Side(n, t), f[kid[t][Side(n, t)]])]
<1>1. \A t \in Node : Side(n, t) \in 0..1
  BY SideType
<1>2. b \in [Node -> V]
  OBVIOUS
<1>3. nxt \in [Node -> Node]
  BY <1>1, KidType, NodeType
<1>4. h \in [Node \X V -> V]
  <2>1. ASSUME NEW t \in Node, NEW r \in V, t # None
        PROVE  Raised(t, Side(n, t), r) \in V
    BY <1>1, <2>1, RaisedType, NodeType
  <2>. QED  BY <2>1
<1>5. \A t \in Node \ {None} : rank[nxt[t]] < rank[t]
  BY <1>1, NodeType
<1>. HIDE DEF V
<1>6. PICK f \in [Node -> V] : Given(f, Node, {None}, b, h, nxt)
  <2>. HIDE DEF b, h, nxt
  <2>. QED  BY <1>2, <1>3, <1>4, <1>5, Recursion
<1>7. ASSUME NEW t \in Node
      PROVE  f[t] = IF t = None THEN <<n, kid>>
                    ELSE Raised(t, Side(n, t), f[kid[t][Side(n, t)]])
  <2>1. f[t] = IF t \in {None} THEN b[t] ELSE h[<<t, f[nxt[t]]>>]
    BY <1>6 DEF Given
  <2>2. nxt[t] \in Node /\ f[nxt[t]] \in V
    BY <1>3
  <2>. QED  BY <2>1, <2>2
<1>8. Fixed(f)
  BY <1>7
<1>9. F = CHOOSE g : Fixed(g)
  BY DEF Raised
<1>10. Inserted(kid, n) = F
  BY DEF Inserted
<1>. HIDE DEF F
<1>11. Fixed(F)
  BY <1>8, <1>9
<1>12. ASSUME NEW t \in Node
       PROVE  F[t] = IF t = None THEN <<n, kid>>
                     ELSE Raised(t, Side(n, t), F[kid[t][Side(n, t)]])
  BY <1>11
<1>. HIDE DEF Fixed
<1>. DEFINE P == {t \in Node : F[t] \in V}
<1>13. ASSUME NEW t \in Node, \A u \in Node : rank[u] < rank[t] => u \in P
       PROVE  t \in P
  <2>1. CASE t = None
    BY <1>12, <2>1 DEF V
  <2>2. CASE t # None
    <3>1. /\ t \in Base /\ kid[t][Side(n, t)] \in Node
          /\ rank[kid[t][Side(n, t)]] < rank[t] /\ Side(n, t) \in 0..1
      BY <1>1, <2>2, KidType, NodeType
    <3>2. F[kid[t][Side(n, t)]] \in V
      BY <1>13, <3>1
    <3>3. Raised(t, Side(n, t), F[kid[t][Side(n, t)]]) \in V
      BY <3>1, <3>2, RaisedType DEF V
    <3>. QED  BY <1>12, <2>2, <3>3
  <2>. QED  BY <2>1, <2>2
<1>. HIDE DEF P
<1>14. Node \subseteq P
  BY <1>13, RankInduction
<1>15. F \in [Node -> V]
  <2>1. \A t \in Node : F[t] \in V
    BY <1>14 DEF P
  <2>. QED  BY <1>11, <2>1 DEF Fixed
<1>. QED  BY <1>10, <1>12, <1>15, NodeType DEF V

\* r is a root and kids that make a tree of the objects of T, and only the
\* kids of the nodes of S are not those of kid.
Becomes(kid, r, S, T) ==
  /\ r[2] \in Kids /\ Tree(r[2], r[1], T)
  /\ \A x \in Base \ S : r[2][x] = kid[x]

LEMMA Stays ==
  ASSUME NEW kid \in Kids, NEW t, NEW S, NEW T, Tree(kid, t, T)
  PROVE  Becomes(kid, <<t, kid>>, S, T)
<1>. DEFINE r == <<t, kid>>
<1>1. r[1] = t /\ r[2] = kid
  OBVIOUS
<1>. HIDE DEF r
<1>2. Becomes(kid, r, S, T)
  BY <1>1 DEF Becomes
<1>. QED  BY <1>2 DEF r

LEMMA RaisedRight ==
  ASSUME NEW kid \in Kids, NEW t \in Base, NEW d \in 0..1, NEW n \in Base,
         NEW S, NEW A, NEW B, Halves(kid, t, d, S, A, B), n \notin S,
         Side(n, t) = d, NEW r \in Base \X Kids,
         Becomes(kid, r, A \cup {n}, A \cup {n})
  PROVE  Becomes(kid, Raised(t, d, r), S \cup {n}, S \cup {n})
<1>1. PICK k \in Base, kid0 \in Kids : r = <<k, kid0>>
  OBVIOUS
<1>. DEFINE kid1 == [kid0 EXCEPT ![t][d] = k]
<1>2. IsKidSet(kid1, kid0, t, d, k)
  BY KidSet, NodeType
<1>3. Raised(t, d, r) = IF Prio[k] > Prio[t] THEN <<k, Rotated(kid1, t, d)>>
                        ELSE <<t, kid1>>
  BY <1>1 DEF Raised
<1>. HIDE DEF kid1
<1>4. /\ Tree(kid0, k, A \cup {n}) /\ \A x \in Base \ (A \cup {n}) : kid0[x] = kid[x]
  BY <1>1 DEF Becomes
<1>5. /\ A \in SUBSET Base /\ B \in SUBSET Base /\ A \cap B = {}
      /\ t \notin A /\ t \notin B /\ S = A \cup {t} \cup B
      /\ OnSide(A, d, t) /\ OnSide(B, 1 - d, t) /\ n # t
      /\ Tree(kid, kid[t][1 - d], B)
  <2>1. n # t
    BY DEF Halves
  <2>. QED  BY <2>1 DEF Halves
<1>6. OnSide(A \cup {n}, d, t)
  BY <1>5 DEF OnSide
<1>7. /\ kid1 \in Kids /\ kid1[t][d] = k /\ kid1[t][1 - d] = kid[t][1 - d]
      /\ \A x \in Base : x # t => kid1[x] = kid0[x]
  BY <1>2, <1>4, <1>5 DEF IsKidSet
<1>8. Tree(kid1, k, A \cup {n}) /\ Tree(kid1, kid[t][1 - d], B)
  <2>1. \A x \in A \cup {n} : kid1[x] = kid0[x]
    BY <1>5, <1>7
  <2>2. \A x \in B : kid1[x] = kid[x]
    BY <1>4, <1>5, <1>7
  <2>. QED  BY <1>4, <1>5, <2>1, <2>2, TreeSame
<1>9. Tree(kid1, t, S \cup {n})
  <2>1. Tree(kid1, t, (A \cup {n}) \cup {t} \cup B)
    BY <1>5, <1>6, <1>7, <1>8, TreeNodeSide
  <2>2. (A \cup {n}) \cup {t} \cup B = S \cup {n}
    BY <1>5
  <2>. QED  BY <2>1, <2>2
<1>10. \A x \in Base \ (S \cup {n}) : kid1[x] = kid[x]
  BY <1>4, <1>5, <1>7
<1>11. CASE Prio[k] > Prio[t]
  <2>1. kid1[t][d] # None
    BY <1>7, NodeType
  <2>2. /\ Rotated(kid1, t, d) \in Kids
        /\ Tree(Rotated(kid1, t, d), k, S \cup {n})
        /\ \A x \in Base \ (S \cup {n}) : Rotated(kid1, t, d)[x] = kid1[x]
    BY <1>7, <1>9, <2>1, RotatedTree
  <2>. QED  BY <1>3, <1>10, <1>11, <2>2 DEF Becomes
<1>12. CASE ~(Prio[k] > Prio[t])
  BY <1>3, <1>7, <1>9, <1>10, <1>12 DEF Becomes
<1>. QED  BY <1>11, <1>12

\* insert: the tree of t has the object more, whatever the priorities.
LEMMA InsertedRight ==
  ASSUME NEW kid \in Kids, NEW n \in Base, NEW rank \in [Node -> Nat],
         \A t \in Base, d \in 0..1 : rank[kid[t][d]] < rank[t],
         kid[n] = NoKids, NEW t0, NEW S0, Tree(kid, t0, S0), n \notin S0
  PROVE  Becomes(kid, Inserted(kid, n)[t0], S0 \cup {n}, S0 \cup {n})
<1>. DEFINE F == Inserted(kid, n)
            P == {t \in Node : \A S : Tree(kid, t, S) /\ n \notin S
                    => Becomes(kid, F[t], S \cup {n}, S \cup {n})}
<1>1. /\ F \in [Node -> Base \X Kids] /\ F[None] = <<n, kid>>
      /\ \A t \in Base : F[t] = Raised(t, Side(n, t), F[kid[t][Side(n, t)]])
  BY InsertedIs
<1>. HIDE DEF F
<1>2. ASSUME NEW t \in Node, \A u \in Node : rank[u] < rank[t] => u \in P,
             NEW S, Tree(kid, t, S), n \notin S
      PROVE  Becomes(kid, F[t], S \cup {n}, S \cup {n})
  <2>1. CASE t = None
    <3>1. S = {}
      BY <1>2, <2>1, TreeOfNone
    <3>2. Tree(kid, n, {} \cup {n} \cup {})
      <4>1. kid[n][0] = None /\ kid[n][1] = None
        BY DEF NoKids
      <4>2. OnSide({}, 0, n) /\ OnSide({}, 1, n)
        BY DEF OnSide
      <4>. QED  BY <4>1, <4>2, TreeNone, TreeNode
    <3>3. {} \cup {n} \cup {} = S \cup {n}
      BY <3>1
    <3>4. F[t][1] = n /\ F[t][2] = kid
      BY <1>1, <2>1
    <3>5. Tree(kid, n, S \cup {n})
      BY <3>2, <3>3
    <3>. QED  BY <3>4, <3>5 DEF Becomes
  <2>2. CASE t # None
    <3>. DEFINE d == Side(n, t)
    <3>1. d \in 0..1 /\ t \in Base
      BY <2>2, SideType, NodeType
    <3>. HIDE DEF d
    <3>2. PICK A, B : Halves(kid, t, d, S, A, B)
      BY <1>2, <2>2, <3>1, TreeSplitSide
    <3>3. Tree(kid, kid[t][d], A) /\ n \notin A
      BY <1>2, <3>2 DEF Halves
    <3>4. kid[t][d] \in Node /\ rank[kid[t][d]] < rank[t]
      BY <3>1, KidType
    <3>5. Becomes(kid, F[kid[t][d]], A \cup {n}, A \cup {n})
      BY <1>2, <3>3, <3>4
    <3>6. F[kid[t][d]] \in Base \X Kids
      BY <1>1, <3>4
    <3>7. Becomes(kid, Raised(t, d, F[kid[t][d]]), S \cup {n}, S \cup {n})
      BY <1>2, <3>1, <3>2, <3>5, <3>6, RaisedRight DEF d
    <3>. QED  BY <1>1, <3>1, <3>7 DEF d
  <2>. QED  BY <2>1, <2>2
<1>3. \A t \in Node : (\A u \in Node : rank[u] < rank[t] => u \in P) => t \in P
  BY <1>2
<1>. HIDE DEF P
<1>4. Node \subseteq P
  BY <1>3, RankInduction
<1>5. t0 \in Node
  BY DEF Tree
<1>. QED  BY <1>4, <1>5 DEF P, F

-----------------------------------------------------------------------------
(* erase and its rotations. *)

\* The node t with the tree x on the side d.
Linked(t, d, x) == <<t, [x[2] EXCEPT ![t][d] = x[1]]>>

LEMMA LinkedType ==
  ASSUME NEW t \in Base, NEW d \in 0..1, NEW x \in Node \X Kids
  PROVE  Linked(t, d, x) \in Node \X Kids
<1>1. PICK u \in Node, kid \in Kids : x = <<u, kid>>
  OBVIOUS
<1>. DEFINE kid1 == [kid EXCEPT ![t][d] = u]
<1>2. IsKidSet(kid1, kid, t, d, u)
  BY KidSet
<1>3. Linked(t, d, x) = <<t, kid1>>
  BY <1>1 DEF Linked
<1>. HIDE DEF kid1
<1>4. kid1 \in Kids /\ t \in Node
  BY <1>2, NodeType DEF IsKidSet
<1>. QED  BY <1>3, <1>4

\* Another tree in the place of that of the side d.
LEMMA LinkedRight ==
  ASSUME NEW kid \in Kids, NEW t \in Base, NEW d \in 0..1,
         NEW S, NEW A, NEW B, Halves(kid, t, d, S, A, B),
         NEW x \in Node \X Kids, NEW A1, NEW A2, Becomes(kid, x, A1, A2),
         t \notin A1, A1 \cap B = {}, OnSide(A2, d, t)
  PROVE  Becomes(kid, Linked(t, d, x), A1 \cup {t} \cup B, A2 \cup {t} \cup B)
<1>1. PICK u \in Node, kid0 \in Kids : x = <<u, kid0>>
  OBVIOUS
<1>. DEFINE kid1 == [kid0 EXCEPT ![t][d] = u]
<1>2. IsKidSet(kid1, kid0, t, d, u)
  BY KidSet
<1>3. Linked(t, d, x) = <<t, kid1>>
  BY <1>1 DEF Linked
<1>. HIDE DEF kid1
<1>4. Tree(kid0, u, A2) /\ \A y \in Base \ A1 : kid0[y] = kid[y]
  BY <1>1 DEF Becomes
<1>5. /\ kid1 \in Kids /\ kid1[t][d] = u /\ kid1[t][1 - d] = kid0[t][1 - d]
      /\ \A y \in Base : y # t => kid1[y] = kid0[y]
  BY <1>2 DEF IsKidSet
<1>6. kid1[t][1 - d] = kid[t][1 - d]
  BY <1>4, <1>5
<1>7. B \in SUBSET Base /\ t \notin B /\ Tree(kid, kid[t][1 - d], B)
      /\ OnSide(B, 1 - d, t)
  BY DEF Halves
<1>8. A2 \in SUBSET Base /\ t \notin A2
  BY <1>4 DEF Tree, OnSide
<1>9. Tree(kid1, u, A2)
  BY <1>4, <1>5, <1>8, TreeSame
<1>10. Tree(kid1, kid[t][1 - d], B)
  <2>1. \A y \in B : kid1[y] = kid[y]
    BY <1>4, <1>5, <1>7
  <2>. QED  BY <1>7, <2>1, TreeSame
<1>11. Tree(kid1, t, A2 \cup {t} \cup B)
  BY <1>5, <1>6, <1>7, <1>9, <1>10, TreeNodeSide
<1>12. \A y \in Base \ (A1 \cup {t} \cup B) : kid1[y] = kid[y]
  BY <1>4, <1>5
<1>13. Linked(t, d, x)[1] = t /\ Linked(t, d, x)[2] = kid1
  BY <1>3
<1>. QED  BY <1>5, <1>11, <1>12, <1>13 DEF Becomes

\* Where the tree made of l and r goes on, and what is made of the rest.
JoinNext(kid, l, r) ==
  IF Prio[r] > Prio[l] THEN <<l, kid[r][0]>> ELSE <<kid[l][1], r>>

JoinLink(l, r, x) ==
  IF Prio[r] > Prio[l] THEN Linked(r, 0, x) ELSE Linked(l, 1, x)

JoinEnd(kid, l, r) == IF l = None THEN <<r, kid>> ELSE <<l, kid>>

LEMMA JoinedIs ==
  ASSUME NEW kid \in Kids, NEW rank \in [Node -> Nat],
         \A t \in Base, d \in 0..1 : rank[kid[t][d]] < rank[t]
  PROVE  /\ Joined(kid) \in [Node \X Node -> Node \X Kids]
         /\ \A l \in Node, r \in Node : l = None \/ r = None =>
              Joined(kid)[<<l, r>>] = JoinEnd(kid, l, r)
         /\ \A l \in Base, r \in Base :
              Joined(kid)[<<l, r>>] =
                JoinLink(l, r, Joined(kid)[JoinNext(kid, l, r)])
<1>. DEFINE Pair == Node \X Node
            V == Node \X Kids
            End == {p \in Pair : p[1] = None \/ p[2] = None}
            b == [p \in Pair |-> IF p[1] = None THEN <<p[2], kid>>
                                 ELSE <<p[1], kid>>]
            nxt == [p \in Pair |-> IF p \in End THEN p
                                   ELSE JoinNext(kid, p[1], p[2])]
            h == [y \in Pair \X V |->
                    IF y[1] \in End THEN <<None, kid>>
                    ELSE JoinLink(y[1][1], y[1][2], y[2])]
            sum == [p \in Pair |-> rank[p[1]] + rank[p[2]]]
            F[p \in Node \X Node] ==
              LET l == p[1]
                  r == p[2]
              IN  IF l = None THEN <<r, kid>>
                  ELSE IF r = None THEN <<l, kid>>
                  ELSE IF Prio[r] > Prio[l]
                  THEN LET x == F[<<l, kid[r][0]>>]
                       IN  <<r, [x[2] EXCEPT ![r][0] = x[1]]>>
                  ELSE LET x == F[<<kid[l][1], r>>]
                       IN  <<l, [x[2] EXCEPT ![l][1] = x[1]]>>
            Body(f, p) == IF p[1] = None THEN <<p[2], kid>>
                          ELSE IF p[2] = None THEN <<p[1], kid>>
                          ELSE IF Prio[p[2]] > Prio[p[1]]
                          THEN Linked(p[2], 0, f[<<p[1], kid[p[2]][0]>>])
                          ELSE Linked(p[1], 1, f[<<kid[p[1]][1], p[2]>>])
            Fixed(f) == f = [p \in Node \X Node |-> Body(f, p)]
<1>1. 0 \in 0..1 /\ 1 \in 0..1
  OBVIOUS
<1>2. ASSUME NEW l \in Base, NEW r \in Base
      PROVE  /\ JoinNext(kid, l, r) \in Pair
             /\ rank[JoinNext(kid, l, r)[1]] + rank[JoinNext(kid, l, r)[2]]
                  < rank[l] + rank[r]
  <2>1. /\ kid[r][0] \in Node /\ rank[kid[r][0]] < rank[r]
        /\ kid[l][1] \in Node /\ rank[kid[l][1]] < rank[l]
        /\ l \in Node /\ r \in Node
    BY <1>1, KidType, NodeType
  <2>2. /\ rank[kid[r][0]] \in Nat /\ rank[r] \in Nat
        /\ rank[kid[l][1]] \in Nat /\ rank[l] \in Nat
    BY <2>1
  <2>3. CASE Prio[r] > Prio[l]
    BY <2>1, <2>2, <2>3 DEF JoinNext
  <2>4. CASE ~(Prio[r] > Prio[l])
    BY <2>1, <2>2, <2>4 DEF JoinNext
  <2>. QED  BY <2>3, <2>4
<1>3. ASSUME NEW l \in Base, NEW r \in Base, NEW x \in V
      PROVE  JoinLink(l, r, x) \in V
  BY <1>1, LinkedType DEF JoinLink
<1>4. \A p \in Pair : p \in End \/ (p[1] \in Base /\ p[2] \in Base)
  BY NodeType
<1>5. b \in [Pair -> V]
  OBVIOUS
<1>6. nxt \in [Pair -> Pair]
  <2>1. ASSUME NEW p \in Pair, p \notin End
        PROVE  JoinNext(kid, p[1], p[2]) \in Pair
    BY <1>2, <1>4, <2>1
  <2>. QED  BY <2>1
<1>7. h \in [Pair \X V -> V]
  <2>1. ASSUME NEW p \in Pair, NEW x \in V, p \notin End
        PROVE  JoinLink(p[1], p[2], x) \in V
    BY <1>3, <1>4, <2>1
  <2>2. <<None, kid>> \in V
    BY NodeType
  <2>. HIDE DEF End, V, Pair
  <2>. QED  BY <2>1, <2>2
<1>8. sum \in [Pair -> Nat]
  OBVIOUS
<1>9. \A p \in Pair \ End : sum[nxt[p]] < sum[p]
  <2>1. ASSUME NEW p \in Pair, p \notin End
        PROVE  sum[nxt[p]] < sum[p]
    <3>1. p[1] \in Base /\ p[2] \in Base
      BY <1>4, <2>1
    <3>2. nxt[p] = JoinNext(kid, p[1], p[2])
      BY <2>1
    <3>. QED  BY <1>2, <3>1, <3>2
  <2>. QED  BY <2>1
<1>. HIDE DEF V, Pair, End, sum
<1>10. PICK f \in [Pair -> V] : Given(f, Pair, End, b, h, nxt)
  <2>. HIDE DEF b, h, nxt
  <2>. QED  BY <1>5, <1>6, <1>7, <1>8, <1>9, Recursion
<1>11. ASSUME NEW p \in Pair PROVE f[p] = Body(f, p)
  <2>1. f[p] = IF p \in End THEN b[p] ELSE h[<<p, f[nxt[p]]>>]
    BY <1>10 DEF Given
  <2>2. CASE p \in End
    <3>1. f[p] = IF p[1] = None THEN <<p[2], kid>> ELSE <<p[1], kid>>
      BY <2>1, <2>2
    <3>2. p[1] = None \/ p[2] = None
      BY <2>2 DEF End
    <3>. QED  BY <3>1, <3>2
  <2>3. CASE p \notin End
    <3>1. nxt[p] \in Pair /\ nxt[p] = JoinNext(kid, p[1], p[2])
      BY <1>6, <2>3
    <3>2. f[nxt[p]] \in V
      BY <3>1
    <3>3. f[p] = JoinLink(p[1], p[2], f[nxt[p]])
      BY <2>1, <2>3, <3>2
    <3>4. p[1] # None /\ p[2] # None
      BY <2>3 DEF End
    <3>. QED  BY <3>1, <3>3, <3>4 DEF JoinLink, JoinNext
  <2>. QED  BY <2>2, <2>3
<1>12. Fixed(f)
  BY <1>11 DEF Pair
<1>13. F = CHOOSE g : Fixed(g)
  BY DEF Linked
<1>14. Joined(kid) = F
  BY DEF Joined
<1>. HIDE DEF F
<1>15. Fixed(F)
  BY <1>12, <1>13
<1>16. \A p \in Pair : F[p] = Body(F, p)
  BY <1>15 DEF Pair
<1>17. ASSUME NEW l \in Base, NEW r \in Base
       PROVE  F[<<l, r>>] = JoinLink(l, r, F[JoinNext(kid, l, r)])
  <2>1. <<l, r>> \in Pair /\ l # None /\ r # None
    BY NodeType DEF Pair
  <2>. QED  BY <1>16, <2>1 DEF JoinLink, JoinNext
<1>18. ASSUME NEW l \in Node, NEW r \in Node, l = None \/ r = None
       PROVE  F[<<l, r>>] = JoinEnd(kid, l, r)
  <2>1. <<l, r>> \in Pair
    BY DEF Pair
  <2>. QED  BY <1>16, <1>18, <2>1 DEF JoinEnd
<1>. DEFINE P == {p \in Pair : F[p] \in V}
<1>19. ASSUME NEW p \in Pair, \A q \in Pair : sum[q] < sum[p] => q \in P
       PROVE  p \in P
  <2>1. CASE p \in End
    <3>1. p[1] \in Node /\ p[2] \in Node /\ p = <<p[1], p[2]>>
      BY DEF Pair
    <3>2. F[p] = JoinEnd(kid, p[1], p[2])
      BY <1>18, <2>1, <3>1 DEF End
    <3>. QED  BY <3>1, <3>2 DEF JoinEnd, V
  <2>2. CASE p \notin End
    <3>1. p[1] \in Base /\ p[2] \in Base /\ p = <<p[1], p[2]>>
      BY <1>4, <2>2 DEF Pair
    <3>2. JoinNext(kid, p[1], p[2]) \in Pair
      BY <1>2, <3>1
    <3>3. sum[JoinNext(kid, p[1], p[2])] < sum[p]
      BY <1>2, <3>1, <3>2 DEF sum
    <3>4. F[JoinNext(kid, p[1], p[2])] \in V
      BY <1>19, <3>2, <3>3
    <3>5. F[p] = JoinLink(p[1], p[2], F[JoinNext(kid, p[1], p[2])])
      BY <1>17, <3>1
    <3>. QED  BY <1>3, <3>1, <3>4, <3>5
  <2>. QED  BY <2>1, <2>2
<1>. HIDE DEF P
<1>20. Pair \subseteq P
  BY <1>8, <1>19, RankInduction
<1>21. F \in [Pair -> V]
  <2>1. \A p \in Pair : F[p] \in V
    BY <1>20 DEF P
  <2>2. F = [p \in Pair |-> F[p]]
    BY <1>15 DEF Fixed, Pair
  <2>. QED  BY <2>1, <2>2
<1>. QED  BY <1>14, <1>17, <1>18, <1>21 DEF V, Pair

\* All of A before all of B, as below the kids of one node.
Before(A, B) == \A a \in A, b \in B : a < b

LEMMA HalvesBefore ==
  ASSUME NEW kid, NEW t \in Base, NEW S, NEW A, NEW B,
         Halves(kid, t, 0, S, A, B)
  PROVE  Before(A, B)
<1>1. /\ A \in SUBSET Base /\ B \in SUBSET Base
      /\ \A a \in A : a # t /\ Side(a, t) = 0
      /\ \A b \in B : b # t /\ Side(b, t) = 1
  BY DEF Halves, OnSide
<1>2. ASSUME NEW a \in A, NEW b \in B PROVE a < b
  <2>1. a \in Nat /\ b \in Nat /\ t \in Nat
    BY <1>1, NodeType
  <2>2. a < t
    BY <1>1, <2>1 DEF Side
  <2>3. b > t
    BY <1>1, <2>1 DEF Side
  <2>. QED  BY <2>1, <2>2, <2>3
<1>. QED  BY <1>2 DEF Before

LEMMA SideOf ==
  ASSUME NEW A \in SUBSET Base, NEW t \in Base
  PROVE  /\ (\A a \in A : a < t) => OnSide(A, 0, t)
         /\ (\A a \in A : t < a) => OnSide(A, 1, t)
<1>1. ASSUME NEW a \in A
      PROVE  /\ a < t => a # t /\ Side(a, t) = 0
             /\ t < a => a # t /\ Side(a, t) = 1
  <2>1. a \in Nat /\ t \in Nat
    BY NodeType
  <2>. QED  BY <2>1 DEF Side
<1>. QED  BY <1>1 DEF OnSide

\* Two trees joined, whatever their priorities.
LEMMA JoinedRight ==
  ASSUME NEW kid \in Kids, NEW rank \in [Node -> Nat],
         \A t \in Base, d \in 0..1 : rank[kid[t][d]] < rank[t],
         NEW l0, NEW r0, NEW A0, NEW B0,
         Tree(kid, l0, A0), Tree(kid, r0, B0), Before(A0, B0)
  PROVE  Becomes(kid, Joined(kid)[<<l0, r0>>], A0 \cup B0, A0 \cup B0)
<1>. DEFINE F == Joined(kid)
            Pair == Node \X Node
            sum == [p \in Pair |-> rank[p[1]] + rank[p[2]]]
            P == {p \in Pair : \A A, B :
                    Tree(kid, p[1], A) /\ Tree(kid, p[2], B) /\ Before(A, B)
                    => Becomes(kid, F[p], A \cup B, A \cup B)}
<1>1. 0 \in 0..1 /\ 1 \in 0..1
  OBVIOUS
<1>2. /\ F \in [Pair -> Node \X Kids]
      /\ \A l \in Node, r \in Node : l = None \/ r = None =>
           F[<<l, r>>] = JoinEnd(kid, l, r)
      /\ \A l \in Base, r \in Base :
           F[<<l, r>>] = JoinLink(l, r, F[JoinNext(kid, l, r)])
  BY JoinedIs
<1>3. sum \in [Pair -> Nat]
  OBVIOUS
<1>4. ASSUME NEW l \in Node, NEW r \in Node,
             \A q \in Pair : sum[q] < sum[<<l, r>>] => q \in P,
             NEW A, NEW B, Tree(kid, l, A), Tree(kid, r, B), Before(A, B)
      PROVE  Becomes(kid, F[<<l, r>>], A \cup B, A \cup B)
  <2>1. CASE l = None
    <3>1. F[<<l, r>>] = <<r, kid>> /\ A \cup B = B
      BY <1>2, <1>4, <2>1, TreeOfNone DEF JoinEnd
    <3>2. Becomes(kid, <<r, kid>>, A \cup B, B)
      BY <1>4, Stays
    <3>. QED  BY <3>1, <3>2
  <2>2. CASE l # None /\ r = None
    <3>1. F[<<l, r>>] = <<l, kid>> /\ A \cup B = A
      BY <1>2, <1>4, <2>2, TreeOfNone DEF JoinEnd
    <3>2. Becomes(kid, <<l, kid>>, A \cup B, A)
      BY <1>4, Stays
    <3>. QED  BY <3>1, <3>2
  <2>3. CASE l # None /\ r # None /\ Prio[r] > Prio[l]
    <3>1. l \in Base /\ r \in Base /\ r \in B
      BY <1>4, <2>3, NodeType DEF Tree
    <3>2. PICK C, D : Halves(kid, r, 0, B, C, D)
      BY <1>1, <1>4, <2>3, TreeSplitSide
    <3>. DEFINE q == <<l, kid[r][0]>>
                x == F[q]
    <3>3. F[<<l, r>>] = Linked(r, 0, x)
      BY <1>2, <2>3, <3>1 DEF JoinLink, JoinNext
    <3>4. kid[r][0] \in Node /\ rank[kid[r][0]] < rank[r]
          /\ rank[kid[r][0]] \in Nat /\ rank[r] \in Nat /\ rank[l] \in Nat
      BY <1>1, <3>1, KidType
    <3>5. q \in Pair /\ sum[q] < sum[<<l, r>>]
      BY <3>4
    <3>6. /\ B = C \cup {r} \cup D /\ C \in SUBSET Base /\ D \in SUBSET Base
          /\ C \cap D = {} /\ r \notin C /\ r \notin D
          /\ Tree(kid, kid[r][0], C) /\ OnSide(C, 0, r)
      BY <3>2 DEF Halves
    <3>7. A \in SUBSET Base /\ B \in SUBSET Base
      BY <1>4 DEF Tree
    <3>8. A \cap B = {}
      <4>1. \A a \in A : a \in Nat /\ ~(a < a)
        BY <3>7, NodeType
      <4>. QED  BY <1>4, <4>1 DEF Before
    <3>9. Before(A, C)
      BY <1>4, <3>6 DEF Before
    <3>10. Becomes(kid, x, A \cup C, A \cup C)
      <4>1. q \in P
        BY <1>4, <3>5
      <4>2. q[1] = l /\ q[2] = kid[r][0]
        OBVIOUS
      <4>. HIDE DEF q, x
      <4>. QED  BY <1>4, <3>6, <3>9, <4>1, <4>2 DEF x
    <3>11. OnSide(A \cup C, 0, r)
      <4>1. OnSide(A, 0, r)
        BY <1>4, <3>1, <3>7, SideOf DEF Before
      <4>. QED  BY <3>6, <4>1 DEF OnSide
    <3>12. x \in Node \X Kids
      BY <1>2, <3>5
    <3>13. r \notin A \cup C /\ (A \cup C) \cap D = {}
      BY <3>1, <3>6, <3>8
    <3>. HIDE DEF x, q
    <3>14. Becomes(kid, Linked(r, 0, x), (A \cup C) \cup {r} \cup D,
                   (A \cup C) \cup {r} \cup D)
      BY <1>1, <3>1, <3>2, <3>10, <3>11, <3>12, <3>13, LinkedRight
    <3>15. (A \cup C) \cup {r} \cup D = A \cup B
      BY <3>6
    <3>. QED  BY <3>3, <3>14, <3>15
  <2>4. CASE l # None /\ r # None /\ ~(Prio[r] > Prio[l])
    <3>1. l \in Base /\ r \in Base /\ l \in A
      BY <1>4, <2>4, NodeType DEF Tree
    <3>2. PICK C, D : Halves(kid, l, 1, A, C, D)
      BY <1>1, <1>4, <2>4, TreeSplitSide
    <3>. DEFINE q == <<kid[l][1], r>>
                x == F[q]
    <3>3. F[<<l, r>>] = Linked(l, 1, x)
      BY <1>2, <2>4, <3>1 DEF JoinLink, JoinNext
    <3>4. kid[l][1] \in Node /\ rank[kid[l][1]] < rank[l]
          /\ rank[kid[l][1]] \in Nat /\ rank[r] \in Nat /\ rank[l] \in Nat
      BY <1>1, <3>1, KidType
    <3>5. q \in Pair /\ sum[q] < sum[<<l, r>>]
      BY <3>4
    <3>6. /\ A = C \cup {l} \cup D /\ C \in SUBSET Base /\ D \in SUBSET Base
          /\ C \cap D = {} /\ l \notin C /\ l \notin D
          /\ Tree(kid, kid[l][1], C) /\ OnSide(C, 1, l)
      BY <3>2 DEF Halves
    <3>7. A \in SUBSET Base /\ B \in SUBSET Base
      BY <1>4 DEF Tree
    <3>8. A \cap B = {}
      <4>1. \A a \in A : a \in Nat /\ ~(a < a)
        BY <3>7, NodeType
      <4>. QED  BY <1>4, <4>1 DEF Before
    <3>9. Before(C, B)
      BY <1>4, <3>6 DEF Before
    <3>10. Becomes(kid, x, C \cup B, C \cup B)
      <4>1. q \in P
        BY <1>4, <3>5
      <4>2. q[1] = kid[l][1] /\ q[2] = r
        OBVIOUS
      <4>. HIDE DEF q, x
      <4>. QED  BY <1>4, <3>6, <3>9, <4>1, <4>2 DEF x
    <3>11. OnSide(C \cup B, 1, l)
      <4>1. OnSide(B, 1, l)
        BY <1>4, <3>1, <3>7, SideOf DEF Before
      <4>. QED  BY <3>6, <4>1 DEF OnSide
    <3>12. x \in Node \X Kids
      BY <1>2, <3>5
    <3>13. l \notin C \cup B /\ (C \cup B) \cap D = {}
      BY <3>1, <3>6, <3>8
    <3>. HIDE DEF x, q
    <3>14. Becomes(kid, Linked(l, 1, x), (C \cup B) \cup {l} \cup D,
                   (C \cup B) \cup {l} \cup D)
      BY <1>1, <3>1, <3>2, <3>10, <3>11, <3>12, <3>13, LinkedRight
    <3>15. (C \cup B) \cup {l} \cup D = A \cup B
      BY <3>6
    <3>. QED  BY <3>3, <3>14, <3>15
  <2>. QED  BY <2>1, <2>2, <2>3, <2>4
<1>5. ASSUME NEW p \in Pair, \A q \in Pair : sum[q] < sum[p] => q \in P
      PROVE  p \in P
  <2>1. p[1] \in Node /\ p[2] \in Node /\ p = <<p[1], p[2]>>
    OBVIOUS
  <2>. HIDE DEF sum, Pair, F
  <2>2. ASSUME NEW A, NEW B, Tree(kid, p[1], A), Tree(kid, p[2], B),
               Before(A, B)
        PROVE  Becomes(kid, F[p], A \cup B, A \cup B)
    BY <1>4, <1>5, <2>1, <2>2
  <2>. QED  BY <2>2
<1>6. l0 \in Node /\ r0 \in Node /\ <<l0, r0>> \in Pair
  BY DEF Tree
<1>. HIDE DEF P, sum, Pair
<1>7. Pair \subseteq P
  BY <1>3, <1>5, RankInduction
<1>. QED  BY <1>6, <1>7 DEF P, F

\* erase where the object is: the trees under it as one.
Lifted(kid, b) ==
  LET x == Joined(kid)[<<kid[b][0], kid[b][1]>>]
  IN  <<x[1], [x[2] EXCEPT ![b] = NoKids]>>

LEMMA LiftedType ==
  ASSUME NEW kid \in Kids, NEW b \in Base, NEW rank \in [Node -> Nat],
         \A t \in Base, d \in 0..1 : rank[kid[t][d]] < rank[t]
  PROVE  Lifted(kid, b) \in Node \X Kids
<1>1. kid[b][0] \in Node /\ kid[b][1] \in Node
  <2>1. 0 \in 0..1 /\ 1 \in 0..1
    OBVIOUS
  <2>. QED  BY <2>1, KidType
<1>2. Joined(kid) \in [Node \X Node -> Node \X Kids]
  BY JoinedIs
<1>3. Joined(kid)[<<kid[b][0], kid[b][1]>>] \in Node \X Kids
  BY <1>1, <1>2
<1>4. PICK u \in Node, kid0 \in Kids :
        Joined(kid)[<<kid[b][0], kid[b][1]>>] = <<u, kid0>>
  BY <1>3
<1>. DEFINE kid1 == [kid0 EXCEPT ![b] = NoKids]
<1>5. Lifted(kid, b) = <<u, kid1>>
  BY <1>4 DEF Lifted
<1>6. NoKids \in [0..1 -> Node]
  BY NodeType DEF NoKids
<1>7. kid1 \in Kids
  BY <1>6 DEF Kids
<1>. HIDE DEF kid1
<1>. QED  BY <1>5, <1>7

LEMMA ErasedIs ==
  ASSUME NEW kid \in Kids, NEW b \in Base, NEW rank \in [Node -> Nat],
         \A t \in Base, d \in 0..1 : rank[kid[t][d]] < rank[t]
  PROVE  /\ Erased(kid, b) \in [Node -> Node \X Kids]
         /\ Erased(kid, b)[b] = Lifted(kid, b)
         /\ \A t \in Base : t # b => Erased(kid, b)[t] =
              Linked(t, Side(b, t), Erased(kid, b)[kid[t][Side(b, t)]])
<1>. DEFINE V == Node \X Kids
            end == [t \in Node |-> IF t = None THEN <<None, kid>>
                                   ELSE Lifted(kid, b)]
            nxt == [t \in Node |->
                      IF t = None THEN None ELSE kid[t][Side(b, t)]]
            h == [x \in Node \X V |->
                    IF x[1] = None THEN <<None, kid>>
                    ELSE Linked(x[1], Side(b, x[1]), x[2])]
            F[t \in Node] ==
              IF t = None THEN <<None, kid>>
              ELSE IF t = b
              THEN LET x == Joined(kid)[<<kid[t][0], kid[t][1]>>]
                   IN  <<x[1], [x[2] EXCEPT ![t] = NoKids]>>
              ELSE LET d == Side(b, t)
                       r == F[kid[t][d]]
                   IN  <<t, [r[2] EXCEPT ![t][d] = r[1]]>>
            Body(f, t) ==
              IF t = None THEN <<None, kid>>
              ELSE IF t = b
              THEN LET x == Joined(kid)[<<kid[t][0], kid[t][1]>>]
                   IN  <<x[1], [x[2] EXCEPT ![t] = NoKids]>>
              ELSE Linked(t, Side(b, t), f[kid[t][Side(b, t)]])
            Fixed(f) == f = [t \in Node |-> Body(f, t)]
<1>1. \A t \in Node : Side(b, t) \in 0..1
  BY SideType
<1>2. Lifted(kid, b) \in V /\ <<None, kid>> \in V
  BY LiftedType, NodeType
<1>3. end \in [Node -> V]
  BY <1>2
<1>4. nxt \in [Node -> Node]
  BY <1>1, KidType, NodeType
<1>5. ASSUME NEW t \in Base, NEW r \in V
      PROVE  Linked(t, Side(b, t), r) \in V
  BY <1>1, LinkedType, NodeType
<1>6. h \in [Node \X V -> V]
  <2>. HIDE DEF V
  <2>. QED  BY <1>2, <1>5, NodeType
<1>7. \A t \in Node \ {None, b} : rank[nxt[t]] < rank[t]
  BY <1>1, NodeType
<1>. HIDE DEF V
<1>8. PICK f \in [Node -> V] : Given(f, Node, {None, b}, end, h, nxt)
  <2>. HIDE DEF end, h, nxt
  <2>. QED  BY <1>3, <1>4, <1>6, <1>7, Recursion
<1>9. ASSUME NEW t \in Node PROVE f[t] = Body(f, t)
  <2>1. f[t] = IF t \in {None, b} THEN end[t] ELSE h[<<t, f[nxt[t]]>>]
    BY <1>8 DEF Given
  <2>2. nxt[t] \in Node /\ f[nxt[t]] \in V
    BY <1>4
  <2>3. CASE t = None
    BY <2>1, <2>3
  <2>4. CASE t = b
    BY <2>1, <2>4, NodeType DEF Lifted
  <2>5. CASE t # None /\ t # b
    BY <2>1, <2>2, <2>5
  <2>. QED  BY <2>3, <2>4, <2>5
<1>10. Fixed(f)
  BY <1>9
<1>11. F = CHOOSE g : Fixed(g)
  BY DEF Linked
<1>12. Erased(kid, b) = F
  BY DEF Erased
<1>. HIDE DEF F
<1>13. Fixed(F)
  BY <1>10, <1>11
<1>14. \A t \in Node : F[t] = Body(F, t)
  BY <1>13
<1>15. /\ F[None] = <<None, kid>> /\ F[b] = Lifted(kid, b)
       /\ \A t \in Base : t # b =>
            F[t] = Linked(t, Side(b, t), F[kid[t][Side(b, t)]])
  BY <1>14, NodeType DEF Lifted
<1>16. F = [t \in Node |-> F[t]]
  BY <1>13
<1>. HIDE DEF Fixed, Body
<1>. DEFINE P == {t \in Node : F[t] \in V}
<1>17. ASSUME NEW t \in Node, \A u \in Node : rank[u] < rank[t] => u \in P
       PROVE  t \in P
  <2>1. CASE t = None \/ t = b
    BY <1>2, <1>15, <2>1
  <2>2. CASE t # None /\ t # b
    <3>1. /\ t \in Base /\ kid[t][Side(b, t)] \in Node
          /\ rank[kid[t][Side(b, t)]] < rank[t]
      BY <1>1, <2>2, KidType, NodeType
    <3>2. F[kid[t][Side(b, t)]] \in V
      BY <1>17, <3>1
    <3>. QED  BY <1>5, <1>15, <2>2, <3>1, <3>2
  <2>. QED  BY <2>1, <2>2
<1>. HIDE DEF P
<1>18. Node \subseteq P
  BY <1>17, RankInduction
<1>19. \A t \in Node : F[t] \in V
  BY <1>18 DEF P
<1>20. F \in [Node -> V]
  BY <1>16, <1>19
<1>. QED  BY <1>12, <1>15, <1>20 DEF V

\* erase: the tree of t without the object, wherever it was.
LEMMA ErasedRight ==
  ASSUME NEW kid \in Kids, NEW b \in Base, NEW rank \in [Node -> Nat],
         \A t \in Base, d \in 0..1 : rank[kid[t][d]] < rank[t],
         NEW t0, NEW S0, Tree(kid, t0, S0), b \in S0
  PROVE  /\ Becomes(kid, Erased(kid, b)[t0], S0, S0 \ {b})
         /\ Erased(kid, b)[t0][2][b] = NoKids
<1>. DEFINE F == Erased(kid, b)
            P == {t \in Node : \A S : Tree(kid, t, S) /\ b \in S
                    => /\ Becomes(kid, F[t], S, S \ {b})
                       /\ F[t][2][b] = NoKids}
<1>1. 0 \in 0..1 /\ 1 \in 0..1
  OBVIOUS
<1>2. /\ F \in [Node -> Node \X Kids] /\ F[b] = Lifted(kid, b)
      /\ \A t \in Base : t # b =>
           F[t] = Linked(t, Side(b, t), F[kid[t][Side(b, t)]])
  BY ErasedIs
<1>. HIDE DEF F
<1>3. ASSUME NEW t \in Node, \A u \in Node : rank[u] < rank[t] => u \in P,
             NEW S, Tree(kid, t, S), b \in S
      PROVE  Becomes(kid, F[t], S, S \ {b}) /\ F[t][2][b] = NoKids
  <2>1. t # None
    BY <1>3, TreeOfNone
  <2>2. CASE t = b
    <3>1. PICK A, B : Halves(kid, b, 0, S, A, B)
      BY <1>1, <1>3, <2>1, <2>2, TreeSplitSide
    <3>2. /\ S = A \cup {b} \cup B /\ A \in SUBSET Base /\ B \in SUBSET Base
          /\ b \notin A /\ b \notin B
          /\ Tree(kid, kid[b][0], A) /\ Tree(kid, kid[b][1], B)
      BY <3>1 DEF Halves
    <3>3. Before(A, B)
      BY <3>1, HalvesBefore
    <3>. DEFINE x == Joined(kid)[<<kid[b][0], kid[b][1]>>]
                kid1 == [x[2] EXCEPT ![b] = NoKids]
    <3>4. Becomes(kid, x, A \cup B, A \cup B)
      BY <3>2, <3>3, JoinedRight
    <3>5. F[b] = <<x[1], kid1>>
      BY <1>2 DEF Lifted
    <3>. HIDE DEF x
    <3>6. /\ x[2] \in Kids /\ Tree(x[2], x[1], A \cup B)
          /\ \A y \in Base \ (A \cup B) : x[2][y] = kid[y]
      BY <3>4 DEF Becomes
    <3>7. NoKids \in [0..1 -> Node]
      BY NodeType DEF NoKids
    <3>8. kid1 \in Kids /\ kid1[b] = NoKids
          /\ \A y \in Base : y # b => kid1[y] = x[2][y]
      BY <3>6, <3>7 DEF Kids
    <3>. HIDE DEF kid1
    <3>9. Tree(kid1, x[1], A \cup B)
      <4>1. \A y \in A \cup B : kid1[y] = x[2][y]
        BY <3>2, <3>8
      <4>. QED  BY <3>6, <4>1, TreeSame
    <3>10. S \ {b} = A \cup B
      BY <3>2
    <3>11. \A y \in Base \ S : kid1[y] = kid[y]
      BY <3>2, <3>6, <3>8
    <3>12. F[b][1] = x[1] /\ F[b][2] = kid1
      BY <3>5
    <3>. QED  BY <2>2, <3>8, <3>9, <3>10, <3>11, <3>12 DEF Becomes
  <2>3. CASE t # b
    <3>d. PICK d : d = Side(b, t)
      OBVIOUS
    <3>1. t \in Base /\ d \in 0..1
      BY <2>1, <3>d, SideType, NodeType
    <3>2. PICK A, B : Halves(kid, t, d, S, A, B)
      BY <1>3, <2>1, <3>1, TreeSplitSide
    <3>3. /\ S = A \cup {t} \cup B /\ A \in SUBSET Base /\ B \in SUBSET Base
          /\ A \cap B = {} /\ t \notin A /\ t \notin B
          /\ Tree(kid, kid[t][d], A) /\ OnSide(A, d, t)
          /\ OnSide(B, 1 - d, t)
      BY <3>2 DEF Halves
    <3>4. b \in A
      <4>1. b \notin B
        <5>1. d # 1 - d
          BY <3>1
        <5>. QED  BY <3>3, <3>d, <5>1 DEF OnSide
      <4>. QED  BY <1>3, <2>3, <3>3, <4>1
    <3>. DEFINE x == F[kid[t][d]]
    <3>5. kid[t][d] \in Node /\ rank[kid[t][d]] < rank[t]
      BY <3>1, KidType
    <3>6. x \in Node \X Kids /\ F[t] = Linked(t, d, x)
      BY <1>2, <2>3, <3>1, <3>5, <3>d
    <3>7. Becomes(kid, x, A, A \ {b}) /\ x[2][b] = NoKids
      BY <1>3, <3>3, <3>4, <3>5
    <3>. HIDE DEF x
    <3>8. OnSide(A \ {b}, d, t)
      BY <3>3 DEF OnSide
    <3>9. Becomes(kid, Linked(t, d, x), A \cup {t} \cup B,
                  (A \ {b}) \cup {t} \cup B)
      BY <3>1, <3>2, <3>3, <3>6, <3>7, <3>8, LinkedRight
    <3>10. S \ {b} = (A \ {b}) \cup {t} \cup B
      BY <2>3, <3>3, <3>4
    <3>11. Linked(t, d, x)[2][b] = x[2][b]
      <4>1. x[2] \in Kids
        BY <3>7 DEF Becomes
      <4>2. Linked(t, d, x)[2] = [x[2] EXCEPT ![t][d] = x[1]]
        BY DEF Linked
      <4>. QED  BY <2>3, <4>1, <4>2 DEF Kids
    <3>. QED  BY <3>3, <3>6, <3>7, <3>9, <3>10, <3>11
  <2>. QED  BY <2>2, <2>3
<1>4. \A t \in Node : (\A u \in Node : rank[u] < rank[t] => u \in P) => t \in P
  BY <1>3
<1>. HIDE DEF P
<1>5. Node \subseteq P
  BY <1>4, RankInduction
<1>6. t0 \in Node
  BY DEF Tree
<1>. QED  BY <1>5, <1>6 DEF P, F

-----------------------------------------------------------------------------
(* below. *)

\* o is the object of S with the greatest base not above p.
IsBest(o, S, p) ==
  \/ o = None /\ \A a \in S : a > p
  \/ o \in S /\ o <= p /\ \A a \in S : a <= p => a <= o

LEMMA BestIs ==
  ASSUME NEW kid \in Kids, NEW p \in Int, NEW rank \in [Node -> Nat],
         \A t \in Base, d \in 0..1 : rank[kid[t][d]] < rank[t]
  PROVE  /\ BestUnder(kid, p)[None] = None
         /\ \A t \in Base : BestUnder(kid, p)[t] =
              IF t > p THEN BestUnder(kid, p)[kid[t][0]]
              ELSE IF BestUnder(kid, p)[kid[t][1]] = None THEN t
              ELSE BestUnder(kid, p)[kid[t][1]]
<1>. DEFINE end == [t \in Node |-> None]
            nxt == [t \in Node |-> IF t = None THEN None
                                   ELSE IF t > p THEN kid[t][0] ELSE kid[t][1]]
            h == [x \in Node \X Node |->
                    IF x[1] > p THEN x[2]
                    ELSE IF x[2] = None THEN x[1] ELSE x[2]]
            F[t \in Node] ==
              IF t = None THEN None
              ELSE IF t > p THEN F[kid[t][0]]
              ELSE LET b == F[kid[t][1]] IN IF b = None THEN t ELSE b
            Body(f, t) ==
              IF t = None THEN None
              ELSE IF t > p THEN f[kid[t][0]]
              ELSE IF f[kid[t][1]] = None THEN t ELSE f[kid[t][1]]
            Fixed(f) == f = [t \in Node |-> Body(f, t)]
<1>1. 0 \in 0..1 /\ 1 \in 0..1
  OBVIOUS
<1>2. end \in [Node -> Node]
  BY NodeType
<1>3. nxt \in [Node -> Node]
  BY <1>1, KidType, NodeType
<1>4. h \in [Node \X Node -> Node]
  OBVIOUS
<1>5. \A t \in Node \ {None} : rank[nxt[t]] < rank[t]
  BY <1>1, NodeType
<1>6. PICK f \in [Node -> Node] : Given(f, Node, {None}, end, h, nxt)
  <2>. HIDE DEF end, h, nxt
  <2>. QED  BY <1>2, <1>3, <1>4, <1>5, Recursion
<1>7. ASSUME NEW t \in Node PROVE f[t] = Body(f, t)
  <2>1. f[t] = IF t \in {None} THEN end[t] ELSE h[<<t, f[nxt[t]]>>]
    BY <1>6 DEF Given
  <2>2. nxt[t] \in Node /\ f[nxt[t]] \in Node
    BY <1>3
  <2>3. CASE t = None
    BY <2>1, <2>3
  <2>4. CASE t # None
    BY <2>1, <2>2, <2>4
  <2>. QED  BY <2>3, <2>4
<1>8. Fixed(f)
  BY <1>7
<1>9. F = CHOOSE g : Fixed(g)
  OBVIOUS
<1>10. BestUnder(kid, p) = F
  BY DEF BestUnder
<1>. HIDE DEF F
<1>11. Fixed(F)
  BY <1>8, <1>9
<1>12. \A t \in Node : F[t] = Body(F, t)
  BY <1>11
<1>. QED  BY <1>10, <1>12, NodeType

LEMMA BestRight ==
  ASSUME NEW kid \in Kids, NEW p \in Int, NEW rank \in [Node -> Nat],
         \A t \in Base, d \in 0..1 : rank[kid[t][d]] < rank[t],
         NEW t0, NEW S0, Tree(kid, t0, S0)
  PROVE  IsBest(BestUnder(kid, p)[t0], S0, p)
<1>. DEFINE F == BestUnder(kid, p)
            P == {t \in Node : \A S : Tree(kid, t, S) => IsBest(F[t], S, p)}
<1>1. 0 \in 0..1 /\ 1 \in 0..1
  OBVIOUS
<1>2. /\ F[None] = None
      /\ \A t \in Base : F[t] = IF t > p THEN F[kid[t][0]]
                                ELSE IF F[kid[t][1]] = None THEN t
                                ELSE F[kid[t][1]]
  BY BestIs
<1>. HIDE DEF F
<1>3. ASSUME NEW t \in Node, \A u \in Node : rank[u] < rank[t] => u \in P,
             NEW S, Tree(kid, t, S)
      PROVE  IsBest(F[t], S, p)
  <2>1. CASE t = None
    BY <1>2, <1>3, <2>1, TreeOfNone DEF IsBest
  <2>2. CASE t # None
    <3>1. t \in Base
      BY <2>2, NodeType
    <3>2. PICK A, B : Halves(kid, t, 0, S, A, B)
      BY <1>1, <1>3, <2>2, TreeSplitSide
    <3>3. /\ S = A \cup {t} \cup B /\ A \in SUBSET Base /\ B \in SUBSET Base
          /\ Tree(kid, kid[t][0], A) /\ Tree(kid, kid[t][1], B)
      BY <3>2 DEF Halves
    <3>4. /\ \A a \in A : a # t /\ Side(a, t) = 0
          /\ \A a \in B : a # t /\ Side(a, t) = 1
      BY <3>2 DEF Halves, OnSide
    <3>5. ASSUME NEW a \in A PROVE a < t
      <4>1. a \in Nat /\ t \in Nat /\ a # t /\ Side(a, t) = 0
        BY <3>1, <3>3, <3>4, NodeType
      <4>. QED  BY <4>1 DEF Side
    <3>6. ASSUME NEW a \in B PROVE t < a
      <4>1. a \in Nat /\ t \in Nat /\ a # t /\ Side(a, t) = 1
        BY <3>1, <3>3, <3>4, NodeType
      <4>. QED  BY <4>1 DEF Side
    <3>7. /\ kid[t][0] \in Node /\ rank[kid[t][0]] < rank[t]
          /\ kid[t][1] \in Node /\ rank[kid[t][1]] < rank[t]
      BY <1>1, <3>1, KidType
    <3>8. IsBest(F[kid[t][0]], A, p) /\ IsBest(F[kid[t][1]], B, p)
      BY <1>3, <3>3, <3>7
    <3>9. /\ t \in Nat /\ \A a \in A : a \in Nat
          /\ \A a \in B : a \in Nat /\ a # None
      BY <3>1, <3>3, NodeType
    <3>10. CASE t > p
      <4>1. \A a \in B : a > p
        BY <3>6, <3>9, <3>10
      <4>2. F[t] = F[kid[t][0]]
        BY <1>2, <3>1, <3>10
      <4>3. IsBest(F[kid[t][0]], S, p)
        BY <3>3, <3>8, <3>9, <3>10, <4>1 DEF IsBest
      <4>. QED  BY <4>2, <4>3
    <3>11. CASE ~(t > p) /\ F[kid[t][1]] = None
      <4>1. F[t] = t
        BY <1>2, <3>1, <3>11
      <4>2. \A a \in B : a > p
        BY <3>8, <3>9, <3>11 DEF IsBest
      <4>3. \A a \in A : a <= t
        BY <3>5, <3>9
      <4>4. IsBest(t, S, p)
        BY <3>3, <3>9, <3>11, <4>2, <4>3 DEF IsBest
      <4>. QED  BY <4>1, <4>4
    <3>12. CASE ~(t > p) /\ F[kid[t][1]] # None
      <4>b. PICK o : o = F[kid[t][1]]
        OBVIOUS
      <4>1. F[t] = o
        BY <1>2, <3>1, <3>12, <4>b
      <4>2. o \in B /\ o <= p /\ \A a \in B : a <= p => a <= o
        BY <3>8, <3>12, <4>b DEF IsBest
      <4>3. o \in Nat /\ t < o
        BY <3>6, <3>9, <4>2
      <4>4. \A a \in A : a <= o
        BY <3>5, <3>9, <4>3
      <4>5. IsBest(o, S, p)
        BY <3>3, <3>9, <4>2, <4>3, <4>4 DEF IsBest
      <4>. QED  BY <4>1, <4>5
    <3>. QED  BY <3>10, <3>11, <3>12
  <2>. QED  BY <2>1, <2>2
<1>4. \A t \in Node : (\A u \in Node : rank[u] < rank[t] => u \in P) => t \in P
  BY <1>3
<1>. HIDE DEF P
<1>5. Node \subseteq P
  BY <1>4, RankInduction
<1>6. t0 \in Node
  BY DEF Tree
<1>. QED  BY <1>5, <1>6 DEF P, F

-----------------------------------------------------------------------------
(* The map. *)

Map == [root : Node, kid : Kids, last : Node]

\* m is the map of the objects of S: a tree of them, the kids of the others
\* as objmap_add finds them, and a last answer that is alive.
MapOf(m, S) ==
  /\ m \in Map
  /\ Tree(m.kid, m.root, S)
  /\ \A b \in Base \ S : m.kid[b] = NoKids
  /\ m.last \in S \cup {None}

\* The same with the fields apart.
LEMMA MapMade ==
  ASSUME NEW root, NEW kid \in Kids, NEW last, NEW S, Tree(kid, root, S),
         \A b \in Base \ S : kid[b] = NoKids, last \in S \cup {None}
  PROVE  MapOf([root |-> root, kid |-> kid, last |-> last], S)
<1>. DEFINE m == [root |-> root, kid |-> kid, last |-> last]
<1>1. m.root = root /\ m.kid = kid /\ m.last = last
  OBVIOUS
<1>2. root \in Node /\ last \in Node
  BY NodeType DEF Tree
<1>3. m \in Map
  BY <1>2 DEF Map
<1>. HIDE DEF m
<1>4. MapOf(m, S)
  BY <1>1, <1>3 DEF MapOf
<1>. QED  BY <1>4 DEF m

LEMMA MapRank ==
  ASSUME NEW m, NEW S, MapOf(m, S)
  PROVE  /\ m.kid \in Kids /\ S \in SUBSET Base
         /\ \E rank \in [Node -> Nat] :
              \A t \in Base, d \in 0..1 : rank[m.kid[t][d]] < rank[t]
<1>1. m.kid \in Kids
  BY DEF MapOf, Map
<1>2. S \in SUBSET Base
  BY DEF MapOf, Tree
<1>. QED  BY <1>1, <1>2, Ranked DEF MapOf

\* The map of a run that has made no object.
LEMMA EmptyMapOf == MapOf(EmptyMap, {})
<1>. DEFINE kid == [b \in Base |-> NoKids]
<1>1. kid \in Kids
  BY NodeType DEF NoKids, Kids
<1>2. \A b \in Base \ {} : kid[b] = NoKids
  OBVIOUS
<1>. HIDE DEF kid
<1>3. Tree(kid, None, {})
  BY TreeNone
<1>4. MapOf([root |-> None, kid |-> kid, last |-> None], {})
  BY <1>1, <1>2, <1>3, MapMade
<1>. QED  BY <1>4 DEF EmptyMap, kid

\* objmap_add keeps a search tree, whatever its rotations: the map of the
\* objects alive, with the one that is made.
THEOREM AddRight ==
  ASSUME NEW m, NEW S, MapOf(m, S), NEW n \in Base, n \notin S
  PROVE  MapOf(Add(m, n), S \cup {n})
<1>1. PICK rank \in [Node -> Nat] :
        \A t \in Base, d \in 0..1 : rank[m.kid[t][d]] < rank[t]
  BY MapRank
<1>2. /\ m.kid \in Kids /\ Tree(m.kid, m.root, S) /\ m.kid[n] = NoKids
      /\ \A b \in Base \ S : m.kid[b] = NoKids
      /\ m.last \in S \cup {None} /\ m \in Map
  BY DEF MapOf, Map
<1>. DEFINE x == Inserted(m.kid, n)[m.root]
<1>3. Becomes(m.kid, x, S \cup {n}, S \cup {n})
  BY <1>1, <1>2, InsertedRight
<1>4. Add(m, n) = [m EXCEPT !.root = x[1], !.kid = x[2]]
  BY DEF Add
<1>. HIDE DEF x
<1>5. Add(m, n) = [root |-> x[1], kid |-> x[2], last |-> m.last]
  BY <1>2, <1>4 DEF Map
<1>6. /\ x[2] \in Kids /\ Tree(x[2], x[1], S \cup {n})
      /\ \A y \in Base \ (S \cup {n}) : x[2][y] = m.kid[y]
  BY <1>3 DEF Becomes
<1>7. \A y \in Base \ (S \cup {n}) : x[2][y] = NoKids
  BY <1>2, <1>6
<1>8. m.last \in (S \cup {n}) \cup {None}
  BY <1>2
<1>. QED  BY <1>5, <1>6, <1>7, <1>8, MapMade

\* objmap_del leaves the map of the other objects, and the answer remembered
\* is none that was freed.
THEOREM DelRight ==
  ASSUME NEW m, NEW S, MapOf(m, S), NEW b \in S
  PROVE  MapOf(Del(m, b), S \ {b})
<1>1. PICK rank \in [Node -> Nat] :
        \A t \in Base, d \in 0..1 : rank[m.kid[t][d]] < rank[t]
  BY MapRank
<1>2. /\ m.kid \in Kids /\ Tree(m.kid, m.root, S) /\ b \in Base
      /\ \A y \in Base \ S : m.kid[y] = NoKids
      /\ m.last \in S \cup {None}
  BY MapRank DEF MapOf
<1>. DEFINE x == Erased(m.kid, b)[m.root]
            last == IF m.last = b THEN None ELSE m.last
<1>3. Becomes(m.kid, x, S, S \ {b}) /\ x[2][b] = NoKids
  BY <1>1, <1>2, ErasedRight
<1>4. Del(m, b) = [root |-> x[1], kid |-> x[2], last |-> last]
  BY DEF Del
<1>. HIDE DEF x
<1>5. /\ x[2] \in Kids /\ Tree(x[2], x[1], S \ {b})
      /\ \A y \in Base \ S : x[2][y] = m.kid[y]
  BY <1>3 DEF Becomes
<1>6. \A y \in Base \ (S \ {b}) : x[2][y] = NoKids
  <2>1. ASSUME NEW y \in Base \ (S \ {b}) PROVE x[2][y] = NoKids
    <3>1. CASE y = b
      BY <1>3, <3>1
    <3>2. CASE y # b
      BY <1>2, <1>5, <3>2
    <3>. QED  BY <3>1, <3>2
  <2>. QED  BY <2>1
<1>7. last \in (S \ {b}) \cup {None}
  BY <1>2
<1>. HIDE DEF last
<1>. QED  BY <1>4, <1>5, <1>6, <1>7, MapMade

LEMMA BelowRight ==
  ASSUME NEW m, NEW S, MapOf(m, S), NEW p \in Int
  PROVE  IsBest(Below(m, p), S, p)
<1>1. PICK rank \in [Node -> Nat] :
        \A t \in Base, d \in 0..1 : rank[m.kid[t][d]] < rank[t]
  BY MapRank
<1>2. m.kid \in Kids /\ Tree(m.kid, m.root, S)
  BY MapRank DEF MapOf
<1>. QED  BY <1>1, <1>2, BestRight DEF Below

\* objmap_holds answers for the objects alive, whichever answered last: n
\* bytes from p are in one of them. It is enough to ask the object with the
\* greatest base not above p.
THEOREM HoldsExactly ==
  ASSUME NEW m, NEW S, MapOf(m, S), NEW p \in Int, NEW n \in Nat
  PROVE  Holds(m, p, n) <=> \E b \in S : Within(b, p, n)
<1>1. IsBest(Below(m, p), S, p)
  BY BelowRight
<1>2. S \in SUBSET Base /\ m.last \in S \cup {None}
  BY MapRank DEF MapOf
<1>3. \A b \in S : b \in Nat /\ SizeOf[b] \in Nat /\ b # None
  BY <1>2, ObjmapAssumption
<1>4. ASSUME Holds(m, p, n) PROVE \E b \in S : Within(b, p, n)
  <2>1. CASE LastHolds(m, p, n)
    BY <1>2, <2>1 DEF LastHolds
  <2>2. CASE Found(m, p, n)
    BY <1>1, <2>2 DEF Found, IsBest
  <2>. QED  BY <1>4, <2>1, <2>2 DEF Holds
<1>5. ASSUME NEW b \in S, Within(b, p, n) PROVE Holds(m, p, n)
  <2>. PICK o : o = Below(m, p)
    OBVIOUS
  <2>1. b <= p /\ p - b <= SizeOf[b] /\ n <= SizeOf[b] - (p - b)
    BY <1>5 DEF Within
  <2>2. o \in S /\ o <= p /\ b <= o
    BY <1>1, <1>3, <2>1 DEF IsBest
  <2>3. Within(o, p, n)
    <3>1. CASE o = b
      BY <1>5, <3>1
    <3>2. CASE o # b
      <4>1. b \in Nat /\ o \in Nat /\ SizeOf[b] \in Nat /\ SizeOf[o] \in Nat
        BY <1>3, <2>2
      <4>2. b < o
        BY <2>2, <3>2, <4>1
      <4>3. b + SizeOf[b] <= o
        BY <1>2, <2>2, <4>2, ObjmapAssumption
      <4>4. p = o /\ n = 0
        BY <2>1, <2>2, <4>1, <4>3
      <4>. QED  BY <4>1, <4>4 DEF Within
    <3>. QED  BY <3>1, <3>2
  <2>4. Found(m, p, n)
    BY <1>3, <2>2, <2>3 DEF Found
  <2>. QED  BY <2>4 DEF Holds
<1>. QED  BY <1>4, <1>5

\* What objmap_holds remembers is an object alive.
LEMMA AskedRight ==
  ASSUME NEW m, NEW S, MapOf(m, S), NEW p \in Int, NEW n
  PROVE  MapOf(Asked(m, p, n), S)
<1>1. CASE ~(~LastHolds(m, p, n) /\ Found(m, p, n))
  BY <1>1 DEF Asked
<1>2. CASE ~LastHolds(m, p, n) /\ Found(m, p, n)
  <2>b. PICK b : b = Below(m, p)
    OBVIOUS
  <2>1. b \in S
    <3>1. IsBest(b, S, p) /\ b # None
      BY <1>2, <2>b, BelowRight DEF Found
    <3>. QED  BY <3>1 DEF IsBest
  <2>2. /\ m \in Map /\ m.kid \in Kids /\ Tree(m.kid, m.root, S)
        /\ \A y \in Base \ S : m.kid[y] = NoKids
    BY MapRank DEF MapOf
  <2>3. Asked(m, p, n) = [m EXCEPT !.last = b]
    BY <1>2, <2>b DEF Asked
  <2>4. Asked(m, p, n) = [root |-> m.root, kid |-> m.kid, last |-> b]
    BY <2>2, <2>3 DEF Map
  <2>. QED  BY <2>1, <2>2, <2>4, MapMade
<1>. QED  BY <1>1, <1>2
=============================================================================
