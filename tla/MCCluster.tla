----------------------------- MODULE MCCluster -----------------------------
(* The instances of Cluster that TLC explores: a head with a stack of its own *)
(* and two workers that share a priority and a main stack.                   *)
EXTENDS Cluster
CONSTANTS h, v, w, head, prio, main
AllRequests == {h, v, w}
Heads       == {h}
AllHashes   == {head, prio, main}
NodeWants   == [r \in AllRequests |-> IF r = h THEN <<head>> ELSE <<prio, main>>]
=============================================================================
