---------------------------- MODULE NodeProvider ----------------------------
(***************************************************************************)
(* GolemNodeProvider.create_node (ray_on_golem/provider/node_provider.py)  *)
(* against the web server it polls: request_nodes, then get_cluster_data   *)
(* through client/client.py until the states of the requested nodes call   *)
(* for a return.                                                           *)
(*                                                                         *)
(* The server side is what these two calls see of the one cluster they     *)
(* name: the nodes in its collection under their ids, which the cluster    *)
(* counts from zero again after each stop (server/cluster/cluster.py), and *)
(* whether the registry knows the cluster (server/services/ray.py).        *)
(***************************************************************************)
EXTENDS Naturals, FiniteSets

CONSTANTS
    Requests,       \* the create_node calls
    HeadRequests,   \* those for a head node
    Count,          \* the number of nodes each asks for
    MaxNodes,       \* the largest number of nodes in the cluster
    None

ASSUME ProviderAssumption ==
    /\ HeadRequests \subseteq Requests /\ None \notin Requests
    /\ MaxNodes \in Nat /\ Count \in [Requests -> 1 .. MaxNodes]

VARIABLES
    call,           \* where each create_node call is
    ids,            \* its requested_node_ids
    seen,           \* the keys of its nodes_last_log_size
    returned,       \* the nodes it has returned
    registered,     \* the registry knows the cluster
    stopping,       \* Cluster.stop is under way, or has failed and left it terminating
    awaited,        \* the nodes the gather() of that stop awaits
    counter,        \* Cluster._nodes_id_counter
    state,          \* the state of each node in Cluster._nodes
    owner,          \* the call that has created it
    raised,         \* history: the nodes whose stop() ended with an error
    stale           \* history: the calls whose cluster has been stopped since

callVars    == <<call, ids, seen, returned, stale>>
stopVars    == <<stopping, awaited, raised>>
clusterVars == <<registered, stopVars, counter, state, owner>>
vars == <<callVars, clusterVars>>

Ids    == 0 .. MaxNodes - 1
States == {"pending", "running", "terminating", "terminated"}

TypeOK ==
    /\ call \in [Requests -> {"idle", "polling", "ready", "partial", "aborted", "error"}]
    /\ ids \in [Requests -> SUBSET Ids]
    /\ seen \in [Requests -> SUBSET Ids]
    /\ returned \in [Requests -> SUBSET Ids]
    /\ registered \in BOOLEAN
    /\ stopping \in {"no", "yes", "failed"}
    /\ awaited \subseteq Ids /\ raised \subseteq Ids
    /\ counter \in 0 .. MaxNodes
    /\ state \in [Ids -> States \cup {"none"}]
    /\ owner \in [Ids -> Requests \cup {None}]
    /\ stale \subseteq Requests

Init ==
    /\ call = [r \in Requests |-> "idle"]
    /\ ids = [r \in Requests |-> {}]
    /\ seen = [r \in Requests |-> {}]
    /\ returned = [r \in Requests |-> {}]
    /\ registered = FALSE
    /\ stopping = "no" /\ awaited = {} /\ raised = {}
    /\ counter = 0
    /\ state = [i \in Ids |-> "none"]
    /\ owner = [i \in Ids |-> None]
    /\ stale = {}

-----------------------------------------------------------------------------
(* The server. *)

Nodes    == {i \in Ids : state[i] # "none"}
Alive(i) == state[i] \in {"pending", "running"}

(* Mutant: an id is counted when the call returns, not when it is taken. *)
CreateNodesUncounted(r) ==
    /\ call[r] = "idle" /\ stopping # "yes"
    /\ counter + Count[r] <= MaxNodes
    /\ LET new == counter .. counter + Count[r] - 1 IN
         /\ ids' = [ids EXCEPT ![r] = new]
         /\ seen' = [seen EXCEPT ![r] = new]
         /\ state' = [i \in Ids |-> IF i \in new THEN "pending" ELSE state[i]]
         /\ owner' = [i \in Ids |-> IF i \in new THEN r ELSE owner[i]]
    /\ counter' = counter + Count[r] - 1
    /\ registered' = TRUE
    /\ stopping' = "no"
    /\ call' = [call EXCEPT ![r] = "polling"]
    /\ UNCHANGED <<returned, awaited, raised, stale>>

(* request_nodes, which starts a cluster that a failed stop has left too; what *)
(* it meets while the cluster stops is in RayService                         *)
CreateNodes(r) ==
    /\ call[r] = "idle" /\ stopping # "yes"
    /\ counter + Count[r] <= MaxNodes
    /\ LET new == counter .. counter + Count[r] - 1 IN
         /\ ids' = [ids EXCEPT ![r] = new]
         /\ seen' = [seen EXCEPT ![r] = new]
         /\ state' = [i \in Ids |-> IF i \in new THEN "pending" ELSE state[i]]
         /\ owner' = [i \in Ids |-> IF i \in new THEN r ELSE owner[i]]
    /\ counter' = counter + Count[r]
    /\ registered' = TRUE
    /\ stopping' = "no"
    /\ call' = [call EXCEPT ![r] = "polling"]
    /\ UNCHANGED <<returned, awaited, raised, stale>>

SetState(i, from, to) ==
    /\ state[i] = from
    /\ state' = [state EXCEPT ![i] = to]
    /\ UNCHANGED <<callVars, registered, stopVars, counter, owner>>

NodeRuns(i)   == SetState(i, "pending", "running")
NodeFails(i)  == SetState(i, "pending", "terminated")

(* terminate_node, or a monitor *)
NodeEnds(i) == \E from \in {"pending", "running"} : SetState(i, from, "terminating")

(* The last node of a cluster, or its head, takes the others along *)
NodeStopped(i) ==
    LET rest == {j \in Ids \ {i} : Alive(j)}
        last == stopping = "no" /\ (rest = {} \/ owner[i] \in HeadRequests)
    IN
    /\ state[i] = "terminating" /\ i \notin raised
    /\ state' = [j \in Ids |-> IF j = i THEN "terminated"
                               ELSE IF last /\ j \in rest THEN "terminating" ELSE state[j]]
    /\ stopping' = IF last THEN "yes" ELSE stopping
    /\ awaited' = IF last THEN rest ELSE awaited
    /\ UNCHANGED <<callVars, registered, raised, counter, owner>>

(* An error of a head's tunnel leaves stop() with the node terminating *)
NodeStopFails(i) ==
    /\ owner[i] \in HeadRequests
    /\ state[i] = "terminating" /\ i \notin raised
    /\ raised' = raised \cup {i}
    /\ UNCHANGED <<callVars, registered, stopping, awaited, counter, state, owner>>

(* Cluster.stop empties its collection and counts from zero again; a node that *)
(* was stopping before is not waited for                                     *)
ClusterStopped ==
    /\ stopping = "yes"
    /\ \A i \in awaited : state[i] = "terminated"
    /\ stopping' = "no" /\ awaited' = {} /\ raised' = {}
    /\ counter' = 0
    /\ state' = [i \in Ids |-> "none"]
    /\ owner' = [i \in Ids |-> None]
    /\ stale' = stale \cup {r \in Requests : call[r] = "polling"}
    /\ UNCHANGED <<call, ids, seen, returned, registered>>

(* A node it awaits, a manager stack or the payment manager raised *)
ClusterStopFails ==
    /\ stopping = "yes"
    /\ awaited \cap raised # {} \/ \A i \in awaited : state[i] = "terminated"
    /\ stopping' = "failed"
    /\ UNCHANGED <<callVars, registered, awaited, raised, counter, state, owner>>

ClusterRemoved ==
    /\ registered /\ stopping = "no" /\ Nodes = {}
    /\ registered' = FALSE
    /\ UNCHANGED <<callVars, stopVars, counter, state, owner>>

-----------------------------------------------------------------------------
(* One turn of create_node's loop. *)

Monitored(r) == ids[r] \cap Nodes
AllAre(r, s) == \A i \in Monitored(r) : state[i] = s
SomeAre(r, s) == \E i \in Monitored(r) : state[i] = s

Return(r, how, nodes) ==
    /\ call[r] = "polling"
    /\ call' = [call EXCEPT ![r] = how]
    /\ returned' = [returned EXCEPT ![r] = nodes]
    /\ UNCHANGED <<ids, seen, stale, clusterVars>>

(* ClusterNotFound is answered 400, which the client raises *)
PollRefused(r) == ~registered /\ Return(r, "error", {})

(* The client could not get its answer *)
ConnectionFails(r) == Return(r, "error", {})

(* _print_node_state looks every node up in the log sizes of the last poll *)
Printed(r) == registered /\ Monitored(r) \subseteq seen[r]

(* An id that was gone from one poll, and is back in the next: a KeyError *)
PrintFails(r) ==
    /\ registered /\ ~(Monitored(r) \subseteq seen[r])
    /\ Return(r, "error", {})

(* Mutant: one running node is enough. *)
SomeReady(r) ==
    /\ Printed(r)
    /\ SomeAre(r, "running")
    /\ Return(r, "ready", Monitored(r))

(* all() also holds of no node at all *)
AllReady(r) ==
    /\ Printed(r)
    /\ AllAre(r, "running")
    /\ Return(r, "ready", Monitored(r))

AllFailed(r) ==
    /\ Printed(r)
    /\ ~AllAre(r, "running") /\ AllAre(r, "terminated")
    /\ Return(r, "aborted", {})

(* Mutant: failures are reported when nothing is pending any more. *)
SomeFailedLate(r) ==
    /\ Printed(r)
    /\ ~AllAre(r, "running") /\ ~AllAre(r, "terminated")
    /\ SomeAre(r, "terminated") /\ ~SomeAre(r, "running")
    /\ Return(r, "partial", Monitored(r))

SomeFailed(r) ==
    /\ Printed(r)
    /\ ~AllAre(r, "running") /\ ~AllAre(r, "terminated")
    /\ SomeAre(r, "terminated")
    /\ Return(r, "partial", Monitored(r))

(* Some are pending or terminating: the sizes are kept, the call sleeps *)
PollAgain(r) ==
    /\ call[r] = "polling"
    /\ Printed(r)
    /\ ~AllAre(r, "running") /\ ~SomeAre(r, "terminated")
    /\ seen' = [seen EXCEPT ![r] = Monitored(r)]
    /\ UNCHANGED <<call, ids, returned, stale, clusterVars>>

Poll(r) ==
    PollRefused(r) \/ PrintFails(r) \/ AllReady(r) \/ AllFailed(r) \/ SomeFailed(r)
    \/ PollAgain(r)
NodeStop(i) == NodeStopped(i) \/ NodeStopFails(i)
ClusterStop == ClusterStopped \/ ClusterStopFails

Next ==
    \/ \E r \in Requests : CreateNodes(r) \/ Poll(r) \/ ConnectionFails(r)
    \/ \E i \in Ids : NodeRuns(i) \/ NodeFails(i) \/ NodeEnds(i) \/ NodeStop(i)
    \/ ClusterStop \/ ClusterRemoved

(* create_node polls every five seconds, and a stop() ends or raises.         *)
Fairness ==
    /\ \A r \in Requests : WF_vars(Poll(r))
    /\ \A i \in Ids : WF_vars(NodeStop(i))
    /\ WF_vars(ClusterStop)

Spec == Init /\ [][Next]_vars /\ Fairness

-----------------------------------------------------------------------------
(* Properties. *)

(* Two calls never wait for the same node of one cluster: an id is given out  *)
(* once between two stops.                                                    *)
IdsAreDistinct ==
    \A r, s \in Requests :
        r # s /\ {r, s} \cap stale = {} /\ call[r] = "polling" /\ call[s] = "polling"
            => ids[r] \cap ids[s] = {}

(* "All requested nodes ready": they are, and they are this call's own,       *)
(* unless the cluster was stopped meanwhile.                                  *)
ReadyMeansAllRun ==
    [][\A r \in Requests :
         call[r] = "polling" /\ call'[r] = "ready" /\ r \notin stale
            => /\ returned'[r] = ids[r]
               /\ \A i \in ids[r] : state[i] = "running" /\ owner[i] = r]_vars

(* create_node returns if no node stays pending for ever: also when its nodes *)
(* vanish with their cluster, or their cluster with its name.  It does not if *)
(* the stop() of a node it polls has raised: that node is neither running nor *)
(* terminated for good.                                                       *)
CreateReturns ==
    (\A i \in Ids : []<>(state[i] # "pending"))
        => \A r \in Requests :
             call[r] = "polling" ~> call[r] # "polling" \/ ids[r] \cap raised # {}
=============================================================================
