SPECIFICATION Spec
CONSTANTS
  t = t
  h = h
  a = a
  b = b
  d = d
  m = m
  Names <- SixNames
  Trigger = t
  Destination = d
  SubConnections <- ModelOfA
  LoopNodes = {b}
  FailingNodes = {a}
  Plugs <- ManyPlugs
  Sockets <- ManySockets
  Unplugged = Unplugged
  MaxConnections = 6
  MaxPlanned = 5
  DisabledSets = {{}, {a}, {a, b}}
  PinnedSets = {{}, {a}}
  DirtySets = {{}, {b}}
CHECK_DEADLOCK FALSE
INVARIANTS ComponentsAreLoops NoDirtyNodeIsSkipped LoopsStartAtTheirEntry InputsAreFinal SomethingRuns
PROPERTIES DisabledNodesAreBridged SubgraphKeepsEveryPath
