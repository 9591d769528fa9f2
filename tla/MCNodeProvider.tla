--------------------------- MODULE MCNodeProvider ---------------------------
(* The instance of NodeProvider that TLC explores: a head and two workers,   *)
(* and a second `ray up` whose head may get the ids of the first.            *)
EXTENDS NodeProvider
CONSTANTS h, w, h2
ThreeRequests == {h, w, h2}
TwoHeads      == {h, h2}
Counts        == [r \in ThreeRequests |-> IF r = w THEN 2 ELSE 1]
=============================================================================
