-------------------------------- MODULE MCSsa --------------------------------
(* Small instances of Ssa. *)
EXTENDS Ssa

CONSTANTS x, y

T(term, to) == [term |-> term, to |-> to]
Graph(a, b, c, d) == [n \in 0..3 |-> <<a, b, c, d>>[n + 1]]
End0 == T("ret", <<>>)

Loop == Graph(T("br", <<1>>), T("cbr", <<2, 3>>), T("br", <<1>>), End0)
Nested == Graph(T("br", <<1>>), T("cbr", <<2, 3>>), T("cbr", <<2, 1>>), End0)
\* A loop entered at two places.
TwoEntries ==
  Graph(T("cbr", <<1, 2>>), T("cbr", <<2, 3>>), T("br", <<1>>), End0)
\* Such a loop, one of the ways in through a block of its own.
TwoWays ==
  Graph(T("cbr", <<1, 2>>), T("br", <<3>>), T("br", <<3>>), T("br", <<1>>))
Join == Graph(T("cbr", <<1, 2>>), T("br", <<3>>), T("br", <<3>>), End0)
SwitchInLoop ==
  Graph(T("br", <<1>>), T("switch", <<2, 3>>), T("br", <<1>>), End0)
\* The default goes where a case goes.
SwitchToOne ==
  Graph(T("br", <<1>>), T("switch", <<2, 2>>), T("cbr", <<1, 3>>), End0)
\* A block no path reaches goes to a join.
DeadWay ==
  Graph(T("br", <<2>>), T("br", <<2>>), T("cbr", <<2, 3>>), End0)
\* A loop no path reaches, of one block.
DeadLoop == Graph(T("br", <<3>>), T("cbr", <<1, 2>>), End0, End0)

\* A loop of one block, where two variables may change places.
SmallLoop == [n \in 0..1 |-> T("br", <<1>>)]

AllGraphs == {Loop, Nested, TwoEntries, TwoWays, Join, SwitchInLoop,
              SwitchToOne, DeadWay, DeadLoop, SmallLoop}
TwoWaysOnly == {TwoWays}

Bounds == [g \in Wanted |->
  IF g = SmallLoop THEN [var |-> Var, defs |-> 3, uses |-> 2]
  ELSE [var |-> {x}, defs |-> 1, uses |-> 2]]
=============================================================================
