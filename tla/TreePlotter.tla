----------------------------- MODULE TreePlotter -----------------------------
(***************************************************************************)
(* createPlot of examples/mlia/src/dt/treePlotter.py, called with the tree *)
(* that createTree returned, as test of trees.py does.                     *)
(*                                                                         *)
(* plotTree places nodes with two offsets that are attributes of the       *)
(* function, so that all calls of the recursion share them.  A distance    *)
(* across is counted in halves of 1/totalW, one down in 1/totalD.          *)
(***************************************************************************)
EXTENDS DecisionTree

VARIABLES
  plot,       \* "none", "drawing", "shown" or "raised"
  xOff, yOff, \* plotTree.xOff and plotTree.yOff
  calls,      \* the calls of plotTree, the innermost last
  drawn       \* path -> where its node is and where its arrow starts

plotVars == <<plot, xOff, yOff, calls, drawn>>

PlotInit ==
  /\ Init
  /\ plot = "none"
  /\ xOff = 0 /\ yOff = 0
  /\ calls = <<>>
  /\ drawn = [path \in {} |-> 0]

\* The paths of the values of a dict.
Children(path) == {next \in DOMAIN myTree : next # <<>> /\ Front(next) = path}

\* The leaves below each node, a leaf among them.
GetNumLeafs ==
  LET leafs[path \in DOMAIN myTree] ==
        IF myTree[path].kind = "leaf" THEN 1
        ELSE SumFunctionOnSet(leafs, Children(path))
  IN  leafs

\* The levels below each node.
GetTreeDepth ==
  LET depth[path \in DOMAIN myTree] ==
        IF myTree[path].kind = "leaf" THEN 0
        ELSE 1 + Max({depth[next] : next \in Children(path)})
  IN  depth

-----------------------------------------------------------------------------
\* A faulty variant: the picture begins at its left edge.
LeftOfFirst_Edge == 0

\* plotTree.xOff before the first leaf, half a leaf left of the picture.
LeftOfFirst == -1

\* Where the node of a dict goes: above the middle of the leaves still to come.
Centre(path, x, y) == <<x + 1 + GetNumLeafs[path], y>>

PlotNode(path, centerPt, parentPt) ==
  drawn' = Put(drawn, path, [at |-> centerPt, from |-> parentPt])

\* plotTree up to its loop; callers is the stack under it.
PlotTree(path, parentPt, callers, x, y) ==
  LET cntrPt == Centre(path, x, y)
  IN  /\ PlotNode(path, cntrPt, parentPt)
      /\ xOff' = x /\ yOff' = y - 1
      /\ calls' = Append(callers, [path |-> path, cntrPt |-> cntrPt, keys |-> Children(path)])

\* A class has no keys() to count leaves with.
CreatePlot ==
  /\ pc = "returned" /\ plot = "none"
  /\ \/ /\ myTree[<<>>].kind = "leaf"
        /\ plot' = "raised"
        /\ UNCHANGED <<xOff, yOff, calls, drawn>>
     \/ /\ myTree[<<>>].kind = "dict"
        /\ plot' = "drawing"
        /\ PlotTree(<<>>, <<GetNumLeafs[<<>>], GetTreeDepth[<<>>]>>, <<>>,
                    LeftOfFirst, GetTreeDepth[<<>>])
  /\ UNCHANGED vars

\* One key of the innermost call: a subtree is plotted by a call of its own, a
\* leaf at once.
PlotKey ==
  /\ plot = "drawing"
  /\ \E next \in Last(calls).keys :
       LET rest == [calls EXCEPT ![Len(calls)].keys = @ \ {next}]
       IN  \/ /\ myTree[next].kind = "dict"
              /\ PlotTree(next, Last(calls).cntrPt, rest, xOff, yOff)
           \/ /\ myTree[next].kind = "leaf"
              /\ xOff' = xOff + 2
              /\ PlotNode(next, <<xOff', yOff>>, Last(calls).cntrPt)
              /\ calls' = rest
              /\ UNCHANGED yOff
  /\ UNCHANGED <<vars, plot>>

\* A faulty variant: the level is not given back.
UpOneLevel_Stays(y) == y

UpOneLevel(y) == y + 1

\* The end of plotTree, and of createPlot after the outermost.
PlotReturn ==
  /\ plot = "drawing" /\ Last(calls).keys = {}
  /\ yOff' = UpOneLevel(yOff)
  /\ calls' = Front(calls)
  /\ plot' = IF calls' = <<>> THEN "shown" ELSE "drawing"
  /\ UNCHANGED <<vars, xOff, drawn>>

\* What is done with the tree is one of the two: classify a vector, or draw it.
PlotNext ==
  \/ plot = "none" /\ Next /\ UNCHANGED plotVars
  \/ CreatePlot \/ PlotKey \/ PlotReturn

\* A sequential program goes on running.
PlotSpec == PlotInit /\ [][PlotNext]_<<vars, plotVars>> /\ WF_<<vars, plotVars>>(PlotNext)

-----------------------------------------------------------------------------
LeafsUnder(path) == {p \in DOMAIN myTree : myTree[p].kind = "leaf" /\ IsPrefix(path, p)}

Width == Cardinality(LeafsUnder(<<>>))
Depth == Max({Len(p) : p \in DOMAIN myTree})

\* The leaves share the width of the picture evenly: each has a column of its
\* own, none is outside, and the lowest stand on its lower edge.
LeavesSpread ==
  plot = "shown" =>
    /\ DOMAIN drawn = DOMAIN myTree
    /\ {drawn[p].at[1] : p \in LeafsUnder(<<>>)} = {2 * i - 1 : i \in 1 .. Width}
    /\ Min({drawn[p].at[2] : p \in DOMAIN drawn}) = 0

\* In the finished picture a node stands on the level of its depth, in the
\* middle of the columns of the leaves below it, and its arrow starts at the
\* node above: no call has left the shared offsets where another needs them.
NodesAboveLeaves ==
  plot = "shown" =>
    \A path \in DOMAIN drawn :
      LET columns == {drawn[p].at[1] : p \in LeafsUnder(path)}
      IN  /\ 2 * drawn[path].at[1] = Min(columns) + Max(columns)
          /\ drawn[path].at[2] = Depth - Len(path)
          /\ drawn[path].from = IF path = <<>> THEN drawn[path].at ELSE drawn[Front(path)].at

\* createTree returns, and so does what is then called with its tree.
TestReturns == <>(pc = "classified" \/ plot \in {"shown", "raised"})
=============================================================================
