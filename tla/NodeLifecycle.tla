--------------------------- MODULE NodeLifecycle ---------------------------
(***************************************************************************)
(* What a cluster may rely on about one of its nodes                       *)
(* (ray_on_golem/server/cluster/nodes.py), whatever the node does inside:  *)
(* its NodeState and the number of times its on_stop callback was          *)
(* scheduled.  ClusterNode implements this specification.                  *)
(***************************************************************************)
EXTENDS Naturals

VARIABLES
    state,          \* NodeData.state
    events          \* on_stop callbacks scheduled so far

vars == <<state, events>>

NodeStates == {"pending", "running", "terminating", "terminated"}

Init == state = "pending" /\ events = 0

(* start() got an activity *)
Run == state = "pending" /\ state' = "running" /\ UNCHANGED events

(* start() hit an error it does not retry: no callback is scheduled *)
FailStart == state = "pending" /\ state' = "terminated" /\ UNCHANGED events

(* stop() passed its guard *)
BeginStop ==
    /\ state \in {"pending", "running"}
    /\ state' = "terminating"
    /\ UNCHANGED events

(* stop() finished; the callback is scheduled unless the cluster itself asked *)
EndStop ==
    /\ state = "terminating"
    /\ state' = "terminated"
    /\ events' \in {events, events + 1}

Next == Run \/ FailStart \/ BeginStop \/ EndStop

Spec == Init /\ [][Next]_vars /\ WF_vars(EndStop)
=============================================================================
