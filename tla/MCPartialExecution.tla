------------------------- MODULE MCPartialExecution -------------------------
(* Instances of PartialExecution for TLC. *)
EXTENDS PartialExecution

CONSTANTS t, h, a, b, d, m

SixNames == <<t, h, a, b, d, m>>
ModelOfA == <<[from |-> m, output |-> 0, to |-> a, input |-> 0, type |-> "ai"]>>
Plug(n, i, j) == [from |-> n, output |-> i, slot |-> j]
ManyPlugs ==
  <<Plug(t, 0, 0), Plug(h, 0, 0), Plug(a, 0, 0), Plug(a, 0, 1), Plug(b, 0, 0),
    Plug(b, 1, 0), Plug(d, 0, 0)>>
ManySockets ==
  {[to |-> n, input |-> 0] : n \in {h, a, b, d}} \cup {[to |-> d, input |-> 1]}

NoSubNodes == <<>>
LoopNames == <<t, h, a, b, d>>
LoopPlugs ==
  <<Plug(t, 0, 0), Plug(h, 0, 0), Plug(a, 0, 0), Plug(a, 1, 0), Plug(b, 0, 0),
    Plug(b, 1, 0)>>
LoopSockets == {[to |-> n, input |-> 0] : n \in {h, a, b, d}}
=============================================================================
