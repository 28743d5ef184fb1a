-------------------------- MODULE PartialExecution --------------------------
(***************************************************************************)
(* Partial execution of a workflow (WorkflowExecute.runPartialWorkflow2):  *)
(* from the workflow, the data of earlier runs and a destination node the  *)
(* server plans which nodes have to run again and what they start with.    *)
(* The workflow, its data and the user's changes are chosen freely; every  *)
(* step of the plan is an action.                                          *)
(***************************************************************************)
EXTENDS DirectedGraph

CONSTANTS
  Names,           \* the nodes in the order of the workflow, a sequence
  Trigger,         \* the trigger that was found for the destination
  Destination,     \* the node the user runs
  SubConnections,  \* connections of sub-nodes (language models, tools), a sequence
  LoopNodes,       \* nodes of type splitInBatches
  FailingNodes,    \* nodes of which a run may have ended with an error
  Plugs,           \* ends of connections at outputs, a sequence of [from, output, slot]
  Sockets,         \* inputs they can be connected to, a set of [to, input]
  Unplugged,       \* a slot without connection
  MaxConnections,  \* bound on the connections of a workflow
  MaxPlanned,      \* bound on those of a subgraph whose plan goes on, with data
  DisabledSets,    \* the sets of nodes the user may have disabled
  PinnedSets,      \* the sets of nodes with pinned data
  DirtySets        \* the sets of nodes the user may have edited

VARIABLES
  step,        \* how far the plan is
  graph,       \* the graph the next step works on
  disabled,    \* the disabled nodes of graph
  pinData,     \* the nodes with pinned data
  runData,     \* data of earlier runs by node
  startNodes,  \* where the execution starts
  stack,       \* nodeExecutionStack: [node, sources], a set
  waiting      \* waitingExecution: nodes with the data of some of their inputs

vars == <<step, graph, disabled, pinData, runData, startNodes, stack, waiting>>

-----------------------------------------------------------------------------
(* The workflow: the connections of an output are numbered by slots.       *)

Main(plug, socket) ==
  [from |-> plug.from, output |-> plug.output, to |-> socket.to,
   input |-> socket.input, type |-> "main"]

FromWorkflow(wiring) ==
  LET plugged == SelectSeq(Plugs, LAMBDA p : wiring[p] # Unplugged)
  IN  [nodes |-> Names,
       connections |-> [i \in DOMAIN plugged |-> Main(plugged[i], wiring[plugged[i]])]
                       \o SubConnections]

MainOf(g) == {c \in Range(g.connections) : IsMain(c)}

Wirings ==
  {w \in [Range(Plugs) -> Sockets \cup {Unplugged}] :
     /\ Cardinality({p \in Range(Plugs) : w[p] # Unplugged}) <= MaxConnections
     /\ \A p, q \in Range(Plugs) :
          p # q /\ w[p] # Unplugged /\ w[q] # Unplugged => Main(p, w[p]) # Main(q, w[q])
     /\ Destination \in Closure(MainOf(FromWorkflow(w)), {Trigger})}

\* What a node can have left behind: the outputs with items in some run and in the
\* last run, and whether a run ended with an error. A node that continues on error, or
\* fails in one of its runs, has both.
NodeData(g, n) ==
  LET outputs == {c.output : c \in {d \in MainOf(g) : d.from = n}}
  IN  {r \in [any : SUBSET outputs, last : SUBSET outputs, error : BOOLEAN] :
         /\ r.last \subseteq r.any
         /\ n \notin LoopNodes => r.last = r.any
         /\ r.error => n \in FailingNodes}

\* Every sub-node has been run by its root node, any other node has data or not. The
\* destination is a start node with or without data, so it is left without.
SubNodes == {c.from : c \in Range(SubConnections)}
RunDataOf(g) ==
  LET Extend(F, n) == {f @@ (n :> r) : f \in F, r \in NodeData(g, n)}
                      \cup {f \in F : n \notin SubNodes}
  IN  FoldLeft(Extend, {<<>>}, SelectSeq(g.nodes, LAMBDA n : n # Destination))

-----------------------------------------------------------------------------
(* filterDisabledNodes, findSubgraph                                       *)

FilterDisabledNodes(g, off) ==
  FoldLeft(RemoveNode, g, SelectSeq(g.nodes, LAMBDA n : n \in off))

\* Mutant: the wrong end of the connections is compared.
VisitedFrom(branch, n) == \E c \in Range(branch) : c.from = n

Visited(branch, n) == \E c \in Range(branch) : c.to = n

\* found is the subgraph so far; an unknown node fails the assertion of
\* getDirectParentConnections.
RECURSIVE FindSubgraphRecursive(_, _, _, _)
FindSubgraphRecursive(g, current, branch, found) ==
  LET parents == GetDirectParentConnections(g, current)
      again == Visited(branch, current)
  IN  CASE current = Trigger ->
             [found EXCEPT !.graph = AddConnections(AddNodes(@, <<Trigger>>), branch)]
        [] current # Trigger /\ current \notin NodesOf(g) ->
             [found EXCEPT !.failed = TRUE]
        [] OTHER ->
             IF parents = <<>> \/ (current = Destination /\ again) THEN found
             ELSE IF again
             THEN [found EXCEPT !.graph = AddConnections(@, branch)]
             ELSE FoldLeft(
                    LAMBDA acc, c :
                      FindSubgraphRecursive(g, c.from, Append(branch, c), acc),
                    found, SelectSeq(parents, IsMain))

\* Sub-nodes hang on the nodes of the subgraph and on everything before them.
AddSubNodes(g, sub) ==
  LET parents == UNION {GetParentConnections(g, n) : n \in NodesOf(sub)}
  IN  AddConnections(sub,
        SelectSeq(g.connections, LAMBDA c : ~IsMain(c) /\ c \in parents))

FindSubgraph(g) ==
  LET found == FindSubgraphRecursive(g, Destination, <<>>,
                                     [graph |-> EmptyGraph, failed |-> FALSE])
  IN  IF found.failed THEN found
      ELSE [found EXCEPT !.graph = AddSubNodes(g, @)]

-----------------------------------------------------------------------------
(* findStartNodes, handleCycles, cleanRunData                              *)

Has(data, n) == n \in DOMAIN data

IsDirty(n, data) ==
  \/ Has(data, n) /\ data[n].error
  \/ n \notin pinData /\ ~Has(data, n)

\* A loop whose done output got nothing in the last run has to start again.
UnfinishedLoop(g, n, data) ==
  /\ n \in LoopNodes
  /\ LET done == IF n \in GetChildren(g, n) THEN 0 ELSE 1
     IN  Has(data, n) => done \notin data[n].last

Delivers(c, data) ==
  \/ c.from \in pinData
  \/ Has(data, c.from) /\ IsMain(c) /\ c.output \in data[c.from].any

RECURSIVE FindStartNodesRecursive(_, _, _, _)
FindStartNodesRecursive(g, current, data, seen) ==
  IF \/ IsDirty(current, data)
     \/ current = Destination
     \/ UnfinishedLoop(g, current, data)
  THEN {current}
  ELSE IF current \in seen THEN {}
  ELSE UNION {FindStartNodesRecursive(g, c.to, data, seen \cup {current}) :
                c \in {d \in Range(GetDirectChildConnections(g, current)) :
                         Delivers(d, data)}}

\* Mutant: the start node is deleted after its replacement was added.
HandleCyclesDeletesLast(g, starts) ==
  LET cycles == GetStronglyConnectedComponents(g)
  IN  UNION {UNION {DepthFirstSearch(g, Trigger, k) \ {n} : k \in {l \in cycles : n \in l}} :
               n \in starts}

\* Mutant: loops are not handled.
HandleCyclesNever(g, starts) == starts

HandleCycles(g, starts) ==
  LET cycles == GetStronglyConnectedComponents(g)
      StartOf(n) == LET mine == {k \in cycles : n \in k}
                    IN  IF mine = {} THEN {n}
                        ELSE UNION {DepthFirstSearch(g, Trigger, k) : k \in mine}
  IN  UNION {StartOf(n) : n \in starts}

\* Mutant: the data of the nodes after the start nodes is left.
CleanRunDataOfNodes(data, g, nodesToClean) ==
  Restrict(data, (DOMAIN data \cap NodesOf(g)) \ nodesToClean)

\* The nodes, what comes after them, and the sub-nodes of everything before those.
CleanRunData(data, g, nodesToClean) ==
  LET after == nodesToClean \cup UNION {GetChildren(g, n) : n \in nodesToClean}
      sub == {c.from : c \in {d \in UNION {GetParentConnections(g, n) : n \in after} :
                                ~IsMain(d)}}
  IN  Restrict(data, (DOMAIN data \cap NodesOf(g)) \ (after \cup sub))

-----------------------------------------------------------------------------
(* getSourceDataGroups, recreateNodeExecutionStack                         *)

Rank(n) == CHOOSE i \in DOMAIN Names : Names[i] = n

\* sortByInputIndexThenByName is stable: ties keep the order of the connections.
SortKey(g, c) ==
  <<c.input, Rank(c.from), SelectInSeq(g.connections, LAMBDA d : d = c)>>
Before(g, c, d) ==
  LET k == SortKey(g, c) l == SortKey(g, d)
  IN  \E i \in 1..3 : k[i] < l[i] /\ \A j \in 1..(i - 1) : k[j] = l[j]
First(g, S) == CHOOSE c \in S : \A d \in S \ {c} : Before(g, c, d)

NewGroup == [complete |-> TRUE, connections |-> {}]

\* One connection per input, one with data if there is one; a gap ends the group.
RECURSIVE Groups(_, _, _, _, _)
Groups(g, with, without, index, group) ==
  LET At(S) == {c \in S : c.input = index}
      Add(S, complete) == [complete |-> complete,
                           connections |-> group.connections \cup {First(g, At(S))}]
  IN  CASE with \cup without = {} -> {group}
        [] At(with) # {} ->
             Groups(g, with \ {First(g, At(with))}, without, index + 1,
                    Add(with, group.complete))
        [] At(with) = {} /\ At(without) # {} ->
             Groups(g, with, without \ {First(g, At(without))}, index + 1,
                    Add(without, FALSE))
        [] OTHER ->
             {group} \cup Groups(g, with, without,
                                 Min({c.input : c \in with \cup without}), NewGroup)

GetSourceDataGroups(g, n, data) ==
  LET into == Range(GetDirectParentConnections(g, n))
      with == {c \in into : c.from \in DOMAIN data \cup pinData}
      without == {c \in into \ with : IsMain(c)}
  IN  IF with \cup without = {} THEN {}
      ELSE Groups(g, with, without, Min({c.input : c \in with \cup without}), NewGroup)

\* What a start node is run with, once per complete group.
StackOf(g, n, data) ==
  IF ~\E c \in MainOf(g) : c.to = n
  THEN {[node |-> n, sources |-> {}]}
  ELSE {[node |-> n, sources |-> p.connections] :
          p \in {q \in GetSourceDataGroups(g, n, data) : q.complete}}

\* Incomplete groups that got data on some input; pinned data is not looked at.
WaitingOf(g, n, data) ==
  IF /\ \E c \in MainOf(g) : c.to = n
     /\ \E p \in GetSourceDataGroups(g, n, data) :
          /\ ~p.complete
          /\ \E c \in p.connections :
               IsMain(c) /\ Has(data, c.from) /\ c.output \in data[c.from].any
  THEN {n} ELSE {}

-----------------------------------------------------------------------------
(* runPartialWorkflow2                                                     *)

Init ==
  /\ step = "workflow"
  /\ \E w \in Wirings : graph = FromWorkflow(w)
  /\ disabled \in DisabledSets
  /\ pinData = {}
  /\ runData = <<>>
  /\ startNodes = {}
  /\ stack = {}
  /\ waiting = {}

Filter ==
  /\ step = "workflow"
  /\ graph' = FilterDisabledNodes(graph, disabled)
  /\ disabled' = {}
  /\ step' = "filtered"
  /\ UNCHANGED <<pinData, runData, startNodes, stack, waiting>>

Reduce ==
  /\ step = "filtered"
  /\ LET found == FindSubgraph(graph)
     IN  \/ found.failed /\ step' = "failed" /\ UNCHANGED graph
         \/ ~found.failed /\ step' = "reduced" /\ graph' = found.graph
  /\ UNCHANGED <<disabled, pinData, runData, startNodes, stack, waiting>>

\* The data of nodes outside the subgraph is dropped at once, so it is not chosen.
CleanDirty ==
  /\ step = "reduced" /\ Cardinality(MainOf(graph)) <= MaxPlanned
  /\ \E data \in RunDataOf(graph), dirty \in DirtySets :
       runData' = CleanRunData(data, graph, dirty \cap NodesOf(graph))
  /\ pinData' \in {S \cap NodesOf(graph) : S \in PinnedSets}
  /\ step' = "cleaned"
  /\ UNCHANGED <<graph, disabled, startNodes, stack, waiting>>

FindStartNodes ==
  /\ step = "cleaned"
  /\ startNodes' = FindStartNodesRecursive(graph, Trigger, runData, {})
  /\ step' = "started"
  /\ UNCHANGED <<graph, disabled, pinData, runData, stack, waiting>>

MoveToCycleStart ==
  /\ step = "started"
  /\ startNodes' = HandleCycles(graph, startNodes)
  /\ step' = "moved"
  /\ UNCHANGED <<graph, disabled, pinData, runData, stack, waiting>>

Restart ==
  /\ step = "moved"
  /\ runData' = CleanRunData(runData, graph, startNodes)
  /\ stack' = UNION {StackOf(graph, n, runData') : n \in startNodes}
  /\ waiting' = UNION {WaitingOf(graph, n, runData') : n \in startNodes}
  /\ step' = "planned"
  /\ UNCHANGED <<graph, disabled, pinData, startNodes>>

Next == Filter \/ Reduce \/ CleanDirty \/ FindStartNodes \/ MoveToCycleStart \/ Restart

Spec == Init /\ [][Next]_vars

-----------------------------------------------------------------------------
(* Properties                                                              *)

HasLoop(E) == \E c \in E : c.from \in Closure(E, {c.to})

Within(E, S) == {c \in E : {c.from, c.to} \subseteq S}

\* removeNode "will rewire all connections making sure all parent nodes are connected
\* to all child nodes" (directed-graph.ts): unless the disabled nodes form a loop among
\* themselves, filtering them leaves exactly the paths between the other nodes.
DisabledNodesAreBridged ==
  [][step = "workflow" =>
       LET E == MainOf(graph)
           F == MainOf(graph')
           on == NodesOf(graph) \ disabled
       IN  HasLoop(Within(E, disabled)) \/
           /\ F = Within(F, on)
           /\ \A n \in on : ChildrenAlong(F, n) = ChildrenAlong(E, n) \cap on]_vars

\* findSubgraph keeps every connection on a way from the trigger to the first arrival
\* at the destination, through any number of loops, and no connection that does not
\* lead to the destination.
SubgraphKeepsEveryPath ==
  [][step' = "reduced" =>
       LET E == {c \in MainOf(graph) : c.from # Destination}
           F == MainOf(graph')
           after == Closure(E, {Trigger})
           before == Closure(Reversed(E), {Destination})
       IN  /\ \A c \in E : c.from \in after /\ c.to \in before => c \in F
           /\ \A c \in F : c \in E /\ Destination \in Closure(F, {c.to})]_vars

\* Strongly connected components are sets of nodes "where it's possible to reach every
\* node from every node" and "cannot overlap" (directed-graph.ts): the sets the search
\* returns are like that whatever the nesting of loops, so that a start node has at
\* most one loop and is moved within it, and one entered from the trigger, as
\* handleCycles asserts. They need not be maximal.
ComponentsAreLoops ==
  step = "reduced" =>
    LET E == Range(graph.connections)
        found == GetStronglyConnectedComponents(graph)
    IN  /\ \A k \in found : \A n, o \in k : o \in Closure(E, {n})
        /\ \A k, l \in found : k # l => k \cap l = {}

\* No component is missing. The code violates this for nested loops.
ComponentsAreComplete ==
  step = "reduced" =>
    StronglyConnected(graph) \subseteq GetStronglyConnectedComponents(graph)

\* The earliest dirty nodes on every branch are start nodes (find-start-nodes.ts): a
\* node without usable data, or the destination, that the data of earlier runs leads to
\* is a start node or comes after one, also when the start nodes have been moved to
\* the starts of their loops.
NoDirtyNodeIsSkipped ==
  step = "moved" =>
    LET E == Range(graph.connections)
        carrying == {c \in E : c.from # Destination /\ Delivers(c, runData)}
    IN  \A n \in Closure(carrying, {Trigger}) :
          IsDirty(n, runData) \/ n = Destination => n \in Closure(E, startNodes)

AllCyclesFound == GetStronglyConnectedComponents(graph) = StronglyConnected(graph)

\* handleCycles "prevents executing cycles partially": when all loops were found, a
\* start node inside a loop is a node through which the loop is entered.
LoopsStartAtTheirEntry ==
  step = "moved" /\ AllCyclesFound =>
    \A n \in startNodes \ {Trigger}, k \in StronglyConnected(graph) :
      n \in k => \E c \in MainOf(graph) : c.to = n /\ c.from \notin k

\* No node is started with data that this very execution is going to replace: what a
\* stack entry takes in comes from pinned data or from nodes that do not run again.
InputsAreFinal ==
  step = "planned" =>
    LET rerun == Closure(Range(graph.connections), startNodes)
    IN  \A e \in stack : \A c \in e.sources : c.from \notin rerun \ pinData

OneInput(n) == \A c, e \in MainOf(graph) : c.to = n /\ e.to = n => c.input = e.input

OneEntry(k) ==
  \A c, e \in MainOf(graph) :
    {c.to, e.to} \subseteq k /\ {c.from, e.from} \cap k = {} => c.to = e.to

\* A plan with start nodes puts one of them on the stack with data on all the
\* connections it is run with, so that the execution does something. Needed for it:
\* all loops were found, each is entered at one node, and no start node merges inputs.
SomethingRuns ==
  step = "planned" /\ startNodes # {} /\ AllCyclesFound
  /\ (\A n \in startNodes : OneInput(n))
  /\ (\A k \in StronglyConnected(graph) : OneEntry(k))
    => \E e \in stack : \A c \in e.sources : Delivers(c, runData)
=============================================================================
