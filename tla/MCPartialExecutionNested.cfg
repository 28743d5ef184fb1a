SPECIFICATION Spec
CONSTANTS
  t = t
  h = h
  a = a
  b = b
  d = d
  m = m
  Names <- LoopNames
  Trigger = t
  Destination = d
  SubConnections <- NoSubNodes
  LoopNodes = {}
  FailingNodes = {}
  Plugs <- LoopPlugs
  Sockets <- LoopSockets
  Unplugged = Unplugged
  MaxConnections = 6
  MaxPlanned = 0
  DisabledSets = {{}}
  PinnedSets = {{}}
  DirtySets = {{}}
CHECK_DEADLOCK FALSE
INVARIANT ComponentsAreComplete
