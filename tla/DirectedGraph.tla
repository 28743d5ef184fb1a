--------------------------- MODULE DirectedGraph ---------------------------
(***************************************************************************)
(* The graph of a workflow as partial executions use it: a JavaScript Map  *)
(* of nodes and a Map of connections, both iterated in insertion order, so *)
(* here two sequences without duplicates. The order matters: it decides in *)
(* which order depth first searches visit the children of a node.          *)
(***************************************************************************)
EXTENDS Naturals, Sequences, FiniteSets, SequencesExt, FiniteSetsExt, TLC

EmptyGraph == [nodes |-> <<>>, connections |-> <<>>]

NodesOf(g) == Range(g.nodes)

\* Map.set leaves an existing key where it is.
SetKey(seq, e) == IF Contains(seq, e) THEN seq ELSE Append(seq, e)

AddNodes(g, new) == [g EXCEPT !.nodes = FoldLeft(SetKey, @, new)]
AddConnection(g, c) ==
  [AddNodes(g, <<c.from, c.to>>) EXCEPT !.connections = SetKey(@, c)]
AddConnections(g, cs) == FoldLeft(AddConnection, g, cs)

GetDirectChildConnections(g, n) == SelectSeq(g.connections, LAMBDA c : c.from = n)
GetDirectParentConnections(g, n) == SelectSeq(g.connections, LAMBDA c : c.to = n)

IsMain(c) == c.type = "main"

-----------------------------------------------------------------------------
(* Reachability along the connections E, a set.                            *)

RECURSIVE Closure(_, _)
Closure(E, S) ==
  LET T == S \cup {c.to : c \in {d \in E : d.from \in S}}
  IN  IF T = S THEN S ELSE Closure(E, T)

Reversed(E) == {[c EXCEPT !.from = c.to, !.to = c.from] : c \in E}

\* The node itself is among its children only if it is on a cycle.
ChildrenAlong(E, n) == Closure(E, {c.to : c \in {d \in E : d.from = n}})
GetChildren(g, n) == ChildrenAlong(Range(g.connections), n)

\* The connections that lead to n, over any number of nodes.
GetParentConnections(g, n) ==
  LET E == Range(g.connections)
      parents == Closure(Reversed(E), {n})
  IN  {c \in E : c.to \in parents}

-----------------------------------------------------------------------------
(* removeNode with reconnectConnections, for main connections: every       *)
(* parent is connected to every child. The connections of n are deleted    *)
(* first and the new ones added afterwards.                                *)

\* Mutant: only the first child is connected to the parents.
BypassesOfFirstChild(g, n) ==
  LET into == SelectSeq(GetDirectParentConnections(g, n), IsMain)
      outOf == SelectSeq(GetDirectChildConnections(g, n), IsMain)
  IN  IF outOf = <<>> THEN <<>>
      ELSE [i \in DOMAIN into |->
              [into[i] EXCEPT !.to = outOf[1].to, !.input = outOf[1].input]]

Bypasses(g, n) ==
  LET into == SelectSeq(GetDirectParentConnections(g, n), IsMain)
      outOf == SelectSeq(GetDirectChildConnections(g, n), IsMain)
      Bypass(i) == [j \in DOMAIN outOf |->
        [i EXCEPT !.to = outOf[j].to, !.input = outOf[j].input]]
  IN  FoldLeft(LAMBDA acc, i : acc \o Bypass(i), <<>>, into)

RemoveNode(g, n) ==
  [nodes |-> SelectSeq(g.nodes, LAMBDA m : m # n),
   connections |->
     FoldLeft(SetKey,
              SelectSeq(g.connections, LAMBDA c : n \notin {c.from, c.to}),
              Bypasses(g, n))]

-----------------------------------------------------------------------------
(* Strongly connected components. s holds the ids given so far, the low    *)
(* link values, the stack and the components found.                        *)

\* Mutant: the low link values are not compared, the stack is emptied.
UntouchedNothing(stack, low, id) == 0

\* Up to where the stack is left alone.
Untouched(stack, low, id) ==
  Max({0} \cup {i \in DOMAIN stack : low[stack[i]] # id})

\* Pops the nodes at the top of the stack that have the low link value id.
PopComponent(s, n) ==
  LET id == s.ids[n]
      rest == Untouched(s.stack, s.low, id)
      component == {s.stack[i] : i \in (rest + 1)..Len(s.stack)}
  IN  IF s.low[n] # id \/ component = {}
      THEN s
      ELSE [s EXCEPT !.stack = SubSeq(@, 1, rest),
                     !.components = @ \cup {component}]

RECURSIVE FollowNode(_, _, _)
FollowNode(g, n, s) ==
  IF n \in DOMAIN s.ids THEN s
  ELSE LET id == Cardinality(DOMAIN s.ids)
           entered == [s EXCEPT !.ids = @ @@ (n :> id), !.low = @ @@ (n :> id),
                                !.stack = Append(@, n)]
           Visit(acc, c) ==
             LET r == FollowNode(g, c.to, acc)
             IN  IF Contains(r.stack, c.to)
                 THEN [r EXCEPT !.low[n] = Min({@, r.low[c.to]})]
                 ELSE r
       IN  PopComponent(FoldLeft(Visit, entered, GetDirectChildConnections(g, n)), n)

GetStronglyConnectedComponents(g) ==
  LET fresh == [ids |-> <<>>, low |-> <<>>, stack |-> <<>>, components |-> {}]
  IN  FoldLeft(LAMBDA s, n : FollowNode(g, n, s), fresh, g.nodes).components

\* What the comment of getStronglyConnectedComponents promises: the sets of nodes
\* in which every node is reachable from every node.
StronglyConnected(g) ==
  LET E == Range(g.connections)
      Both(n) == {m \in Closure(E, {n}) : n \in Closure(E, {m})}
  IN  {Both(n) : n \in NodesOf(g)}

-----------------------------------------------------------------------------
(* depthFirstSearch: the first node of goal; r is [seen, found], found is  *)
(* empty or the node.                                                      *)

RECURSIVE Search(_, _, _, _)
Search(g, n, goal, r) ==
  IF r.found # {} \/ n \in r.seen THEN r
  ELSE LET entered == [r EXCEPT !.seen = @ \cup {n}]
       IN  IF n \in goal THEN [entered EXCEPT !.found = {n}]
           ELSE FoldLeft(LAMBDA acc, c : Search(g, c.to, goal, acc), entered,
                         GetDirectChildConnections(g, n))

DepthFirstSearch(g, from, goal) ==
  Search(g, from, goal, [seen |-> {}, found |-> {}]).found
=============================================================================
