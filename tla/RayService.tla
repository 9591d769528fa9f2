---------------------------- MODULE RayService -----------------------------
(***************************************************************************)
(* The registry of clusters, ray_on_golem/server/services/ray.py, with the *)
(* life of the clusters it keeps, ray_on_golem/server/cluster/cluster.py.  *)
(*                                                                         *)
(* Clusters of different names share nothing, so the module follows one    *)
(* name: _clusters[name], _clusters_locks[name] and                        *)
(* _clusters_remove_tasks[name].  Each request_nodes call asks for one     *)
(* node (a call with a count makes that many in one step, to the same      *)
(* effect), and everything that call may bring into being is named after   *)
(* it: the Cluster object it may create, its node, the task of that node's *)
(* on_stop callback, and the delayed removal that callback may lead to.    *)
(* A node here is what NodeLifecycle says of it; manager stacks are left   *)
(* to the awaits they cost.                                                *)
(***************************************************************************)
EXTENDS Naturals, Sequences, SequencesExt

CONSTANTS
    Requests,       \* the request_nodes calls
    HeadRequests,   \* those that ask for a head node
    Hasty,          \* those that may arrive, and whose node may end, at any time:
                    \* the others wait until nothing is under way
    None

ASSUME RequestsAssumption ==
    HeadRequests \subseteq Requests /\ Hasty \subseteq Requests /\ None \notin Requests

VARIABLES
    registry,       \* _clusters[name]
    removeTask,     \* _clusters_remove_tasks[name]
    lock,           \* _clusters_locks[name]: its holder, then who waits for it
    cluster,        \* Cluster._state of each Cluster object
    members,        \* Cluster._nodes of each Cluster object
    request,        \* where each request_nodes call is
    target,         \* the Cluster object it got
    terminate,      \* where the terminate_node call for each node is
    node,           \* ClusterNode.state
    notify,         \* a stop() in progress will call on_stop
    raised,         \* history: the nodes whose stop() ended with an error
    onStop,         \* the task of the node's on_stop and of the stop it makes
    awaited,        \* the nodes the gather() of that stop awaits
    removal,        \* the task of the cluster's on_stop, then the remove task
    overlapped      \* history: something arrived while something was under way

clusterVars == <<cluster, members>>
requestVars == <<request, target>>
nodeVars    == <<node, notify, raised>>
stopVars    == <<onStop, awaited>>
vars == <<registry, removeTask, lock, clusterVars, requestVars, terminate,
          nodeVars, stopVars, removal, overlapped>>

States == {"pending", "running", "terminating", "terminated"}
Tasks  == [kind : {"request", "terminate", "onStop", "remove"}, id : Requests]

TypeOK ==
    /\ registry \in Requests \cup {None}
    /\ removeTask \in Requests \cup {None}
    /\ lock \in Seq(Tasks)
    /\ cluster \in [Requests -> States]
    /\ members \in [Requests -> SUBSET Requests]
    /\ request \in [Requests -> {"idle", "queued", "start", "stacks", "done", "failed"}]
    /\ target \in [Requests -> Requests \cup {None}]
    /\ terminate \in [Requests -> {"idle", "queued", "stopping", "done"}]
    /\ node \in [Requests -> States \cup {"none"}]
    /\ notify \in [Requests -> BOOLEAN]
    /\ raised \subseteq Requests
    /\ onStop \in [Requests -> {"none", "ready", "nodes", "closing", "done", "failed"}]
    /\ awaited \in [Requests -> SUBSET Requests]
    /\ removal \in [Requests -> {"none", "ready", "event", "sleeping", "queued",
                                 "removed", "cancelled", "failed"}]
    /\ overlapped \in BOOLEAN

Init ==
    /\ registry = None
    /\ removeTask = None
    /\ lock = <<>>
    /\ cluster = [r \in Requests |-> "terminated"]
    /\ members = [r \in Requests |-> {}]
    /\ request = [r \in Requests |-> "idle"]
    /\ target = [r \in Requests |-> None]
    /\ terminate = [r \in Requests |-> "idle"]
    /\ node = [r \in Requests |-> "none"]
    /\ notify = [r \in Requests |-> FALSE]
    /\ raised = {}
    /\ onStop = [r \in Requests |-> "none"]
    /\ awaited = [r \in Requests |-> {}]
    /\ removal = [r \in Requests |-> "none"]
    /\ overlapped = FALSE

-----------------------------------------------------------------------------
(* The lock: an asyncio.Semaphore hands itself over in the order of arrival.  *)
(* A task that finds it free is put in the queue too, and goes on in a step of *)
(* its own: whatever another task does in between it could have done before.  *)

Task(kind, r) == [kind |-> kind, id |-> r]
Acquire(kind, r) == lock' = Append(lock, Task(kind, r))
Holds(kind, r)   == lock # <<>> /\ Head(lock) = Task(kind, r)
Release          == lock' = Tail(lock)

(* A task that is cancelled while it waits leaves the queue *)
Without(t) ==
    IF \E i \in 1 .. Len(lock) : lock[i] = t
      THEN RemoveAt(lock, CHOOSE i \in 1 .. Len(lock) : lock[i] = t)
      ELSE lock

Alive(r) == node[r] \in {"pending", "running"}

(* Its stop() is under way; one that raised leaves it terminating for good *)
BeingStopped(r) == node[r] = "terminating" /\ r \notin raised

(* Mutant: nodes that are still pending do not count. *)
RunningNodes(c) == {r \in members[c] : node[r] = "running"}

(* Cluster.get_non_terminated_nodes *)
NonTerminated(c) == {r \in members[c] : Alive(r)}

(* No call is being served, no stop() of a node is under way, and what the    *)
(* last stop has set in motion has failed, or got as far as the delayed      *)
(* removal.                                                                  *)
Quiet ==
    /\ lock = <<>>
    /\ \A r \in Requests :
         /\ request[r] # "stacks"
         /\ ~BeingStopped(r)
         /\ onStop[r] \in {"none", "done", "failed"}
         /\ removal[r] \notin {"ready", "event"}

Arrives(r) == (r \in Hasty \/ Quiet) /\ overlapped' = (overlapped \/ ~Quiet)

-----------------------------------------------------------------------------
(* RayService.request_nodes *)

RequestArrives(r) ==
    /\ Arrives(r)
    /\ request[r] = "idle"
    /\ request' = [request EXCEPT ![r] = "queued"]
    /\ Acquire("request", r)
    /\ UNCHANGED <<registry, removeTask, clusterVars, target, terminate, nodeVars,
                   stopVars, removal>>

(* Cluster.start up to its await: nothing to do for a pending or running      *)
(* cluster, and the lock is given back at once; a terminating one is started *)
StartCluster(r, c) ==
    /\ target' = [target EXCEPT ![r] = c]
    /\ IF cluster[c] \in {"pending", "running"}
         THEN /\ request' = [request EXCEPT ![r] = "stacks"]
              /\ UNCHANGED cluster
         ELSE /\ request' = [request EXCEPT ![r] = "start"]
              /\ cluster' = [cluster EXCEPT ![c] = "pending"]

(* The remove task is not done yet *)
Removing(t) == t # None /\ removal[t] \in {"sleeping", "queued"}

(* Mutant: the removal is left to run, the stopped cluster is used again. *)
GetClusterBeingRemoved(r) ==
    /\ Holds("request", r)
    /\ request[r] = "queued"
    /\ LET c == IF registry = None THEN r ELSE registry
       IN /\ registry' = c
          /\ StartCluster(r, c)
          /\ lock' = IF request'[r] = "stacks" THEN Tail(lock) ELSE lock
    /\ UNCHANGED <<overlapped, removeTask, members, terminate, nodeVars, stopVars, removal>>

(* _get_or_create_cluster: a removal that waits is cancelled, and then the     *)
(* cluster is replaced                                                       *)
GetOrCreateCluster(r) ==
    /\ Holds("request", r)
    /\ request[r] = "queued"
    /\ removeTask' = None
    /\ LET cancel == Removing(removeTask)
           c == IF cancel \/ registry = None THEN r ELSE registry
           waiting == IF cancel THEN Without(Task("remove", removeTask)) ELSE lock
       IN /\ removal' = IF cancel THEN [removal EXCEPT ![removeTask] = "cancelled"]
                                  ELSE removal
          /\ registry' = c
          /\ StartCluster(r, c)
          /\ lock' = IF request'[r] = "stacks" THEN Tail(waiting) ELSE waiting
    /\ UNCHANGED <<overlapped, members, terminate, nodeVars, stopVars>>

(* The payment manager has started, whatever became of the cluster meanwhile *)
ClusterStarted(r) ==
    /\ request[r] = "start"
    /\ cluster' = [cluster EXCEPT ![target[r]] = "running"]
    /\ request' = [request EXCEPT ![r] = "stacks"]
    /\ Release
    /\ UNCHANGED <<overlapped, registry, removeTask, members, target, terminate, nodeVars,
                   stopVars, removal>>

(* It could not: the error leaves start() with the state it has set *)
ClusterStartFails(r) ==
    /\ request[r] = "start"
    /\ request' = [request EXCEPT ![r] = "failed"]
    /\ Release
    /\ UNCHANGED <<overlapped, registry, removeTask, clusterVars, target, terminate, nodeVars,
                   stopVars, removal>>

(* Cluster.request_nodes after its manager stacks, without the lock *)
CreateNode(r) ==
    /\ request[r] = "stacks"
    /\ request' = [request EXCEPT ![r] = "done"]
    /\ node' = [node EXCEPT ![r] = "pending"]
    /\ members' = [members EXCEPT ![target[r]] = @ \cup {r}]
    /\ UNCHANGED <<overlapped, registry, removeTask, lock, cluster, target, terminate, notify,
                   raised, stopVars, removal>>

(* ManagerStack.create or start raised *)
StacksFail(r) ==
    /\ request[r] = "stacks"
    /\ request' = [request EXCEPT ![r] = "failed"]
    /\ UNCHANGED <<overlapped, registry, removeTask, lock, clusterVars, target, terminate,
                   nodeVars, stopVars, removal>>

-----------------------------------------------------------------------------
(* RayService.terminate_node holds the lock while the node stops. *)

TerminateArrives(r) ==
    /\ Arrives(r)
    /\ terminate[r] = "idle"
    /\ node[r] # "none"
    /\ terminate' = [terminate EXCEPT ![r] = "queued"]
    /\ Acquire("terminate", r)
    /\ UNCHANGED <<registry, removeTask, clusterVars, requestVars, nodeVars,
                   stopVars, removal>>

(* Mutant: a state that NodeState does not have. *)
StopNodeMisnamed(r, events) ==
    /\ node' = [node EXCEPT ![r] = "stopping"]
    /\ notify' = [notify EXCEPT ![r] = events]

StopNode(r, events) ==
    /\ node' = [node EXCEPT ![r] = "terminating"]
    /\ notify' = [notify EXCEPT ![r] = events]

(* The lookup by name and id succeeds, and stop() will pass its guard *)
CanStop(r) == registry # None /\ r \in members[registry] /\ Alive(r)

TerminateNode(r) ==
    /\ Holds("terminate", r)
    /\ terminate[r] = "queued"
    /\ CanStop(r)
    /\ StopNode(r, TRUE)
    /\ terminate' = [terminate EXCEPT ![r] = "stopping"]
    /\ UNCHANGED <<overlapped, registry, removeTask, lock, clusterVars, requestVars, raised,
                   stopVars, removal>>

(* Mutant: the lock is held until what on_stop started has finished too. *)
TerminateAwaitsCallback(r) ==
    /\ Holds("terminate", r)
    /\ \/ terminate[r] = "queued" /\ ~CanStop(r)
       \/ /\ terminate[r] = "stopping"
          /\ \/ r \in raised
             \/ /\ node[r] = "terminated" /\ onStop[r] \in {"done", "failed"}
                /\ removal[r] \notin {"ready", "event"}
    /\ terminate' = [terminate EXCEPT ![r] = "done"]
    /\ Release
    /\ UNCHANGED <<overlapped, registry, removeTask, clusterVars, requestVars, nodeVars,
                   stopVars, removal>>

(* ClusterNotFound, NodeNotFound, a stop() that had nothing to do, its end, or *)
(* its error                                                                 *)
TerminateReturns(r) ==
    /\ Holds("terminate", r)
    /\ \/ terminate[r] = "queued" /\ ~CanStop(r)
       \/ terminate[r] = "stopping" /\ (node[r] = "terminated" \/ r \in raised)
    /\ terminate' = [terminate EXCEPT ![r] = "done"]
    /\ Release
    /\ UNCHANGED <<overlapped, registry, removeTask, clusterVars, requestVars, nodeVars,
                   stopVars, removal>>

-----------------------------------------------------------------------------
(* The nodes, as NodeLifecycle has them. *)

NodeRuns(r) ==
    /\ node[r] = "pending"
    /\ node' = [node EXCEPT ![r] = "running"]
    /\ UNCHANGED <<overlapped, registry, removeTask, lock, clusterVars, requestVars, terminate,
                   notify, raised, stopVars, removal>>

NodeStartFails(r) ==
    /\ node[r] = "pending"
    /\ node' = [node EXCEPT ![r] = "terminated"]
    /\ UNCHANGED <<overlapped, registry, removeTask, lock, clusterVars, requestVars, terminate,
                   notify, raised, stopVars, removal>>

(* _on_monitor_check_failed *)
MonitorStopsNode(r) ==
    /\ Arrives(r)
    /\ node[r] = "running"
    /\ StopNode(r, TRUE)
    /\ UNCHANGED <<registry, removeTask, lock, clusterVars, requestVars, terminate,
                   raised, stopVars, removal>>

NodeStopped(r) ==
    /\ BeingStopped(r)
    /\ node' = [node EXCEPT ![r] = "terminated"]
    /\ onStop' = [onStop EXCEPT ![r] = IF notify[r] THEN "ready" ELSE @]
    /\ UNCHANGED <<overlapped, registry, removeTask, lock, clusterVars, requestVars, terminate,
                   notify, raised, awaited, removal>>

(* An error of a head's tunnel leaves stop() before the state is terminated   *)
(* and on_stop is called                                                     *)
NodeStopFails(r) ==
    /\ r \in HeadRequests
    /\ BeingStopped(r)
    /\ raised' = raised \cup {r}
    /\ UNCHANGED <<overlapped, registry, removeTask, lock, clusterVars, requestVars, terminate,
                   node, notify, stopVars, removal>>

-----------------------------------------------------------------------------
(* Cluster._on_node_stop and the Cluster.stop it may call. *)

(* Mutant: only a head takes its cluster along. *)
HeadGone(r) == r \in HeadRequests

(* The last node, or the head, is gone *)
ShouldStop(r) == NonTerminated(target[r]) = {} \/ r \in HeadRequests

Stopping(c) == cluster[c] \in {"terminating", "terminated"}

(* Other nodes remain (only manager stacks may stop), or stop() has no work *)
NothingToStop(r) ==
    /\ onStop[r] = "ready"
    /\ ~ShouldStop(r) \/ Stopping(target[r])
    /\ onStop' = [onStop EXCEPT ![r] = "done"]
    /\ UNCHANGED <<overlapped, registry, removeTask, lock, clusterVars, requestVars, terminate,
                   nodeVars, awaited, removal>>

(* stop() of every node now in the collection; those that are stopping or     *)
(* stopped already return at once                                            *)
StopCluster(r) ==
    LET c == target[r] IN
    /\ onStop[r] = "ready"
    /\ ShouldStop(r)
    /\ ~Stopping(c)
    /\ cluster' = [cluster EXCEPT ![c] = "terminating"]
    /\ awaited' = [awaited EXCEPT ![r] = NonTerminated(c)]
    /\ node' = [n \in Requests |->
                  IF n \in NonTerminated(c) THEN "terminating" ELSE node[n]]
    /\ notify' = [n \in Requests |-> notify[n] /\ n \notin NonTerminated(c)]
    /\ onStop' = [onStop EXCEPT ![r] = "nodes"]
    /\ UNCHANGED <<overlapped, registry, removeTask, lock, members, requestVars, terminate,
                   raised, removal>>

ClusterNodesStopped(r) ==
    /\ onStop[r] = "nodes"
    /\ \A n \in awaited[r] : node[n] = "terminated"
    /\ onStop' = [onStop EXCEPT ![r] = "closing"]
    /\ UNCHANGED <<overlapped, registry, removeTask, lock, clusterVars, requestVars, terminate,
                   nodeVars, awaited, removal>>

(* An error of the stop() of a node, of a manager stack or of the payment     *)
(* manager leaves the cluster terminating; the other nodes stop on their own *)
ClusterStopFails(r) ==
    /\ \/ onStop[r] = "nodes" /\ awaited[r] \cap raised # {}
       \/ onStop[r] = "closing"
    /\ onStop' = [onStop EXCEPT ![r] = "failed"]
    /\ UNCHANGED <<overlapped, registry, removeTask, lock, clusterVars, requestVars, terminate,
                   nodeVars, awaited, removal>>

(* The manager stacks and the payment manager have stopped: the collection is *)
(* emptied, whatever it holds by now                                         *)
ClusterStopped(r) ==
    /\ onStop[r] = "closing"
    /\ onStop' = [onStop EXCEPT ![r] = "done"]
    /\ cluster' = [cluster EXCEPT ![target[r]] = "terminated"]
    /\ members' = [members EXCEPT ![target[r]] = {}]
    /\ removal' = [removal EXCEPT ![r] = "ready"]
    /\ UNCHANGED <<overlapped, registry, removeTask, lock, requestVars, terminate, nodeVars, awaited>>

-----------------------------------------------------------------------------
(* RayService._on_cluster_stop and _remove_cluster. *)

OnClusterStop(r) ==
    /\ removal[r] = "ready"
    /\ removal' = [removal EXCEPT ![r] = "event"]
    /\ Acquire("onStop", r)
    /\ UNCHANGED <<overlapped, registry, removeTask, clusterVars, requestVars, terminate,
                   nodeVars, stopVars>>

(* Mutant: the remove task is not remembered. *)
ScheduleForgotten(r) ==
    /\ Holds("onStop", r)
    /\ removal' = [removal EXCEPT ![r] = "sleeping"]
    /\ Release
    /\ UNCHANGED <<overlapped, registry, removeTask, clusterVars, requestVars, terminate,
                   nodeVars, stopVars>>

ScheduleRemoval(r) ==
    /\ Holds("onStop", r)
    /\ removeTask' = r
    /\ removal' = [removal EXCEPT ![r] = "sleeping"]
    /\ Release
    /\ UNCHANGED <<overlapped, registry, clusterVars, requestVars, terminate, nodeVars, stopVars>>

RemovalWakes(r) ==
    /\ removal[r] = "sleeping"
    /\ removal' = [removal EXCEPT ![r] = "queued"]
    /\ Acquire("remove", r)
    /\ UNCHANGED <<overlapped, registry, removeTask, clusterVars, requestVars, terminate,
                   nodeVars, stopVars>>

(* The assertion and the `del` of a name that is gone both end the task *)
RemoveCluster(r) ==
    /\ Holds("remove", r)
    /\ IF cluster[target[r]] = "terminated" /\ registry # None
         THEN registry' = None /\ removal' = [removal EXCEPT ![r] = "removed"]
         ELSE UNCHANGED registry /\ removal' = [removal EXCEPT ![r] = "failed"]
    /\ Release
    /\ UNCHANGED <<overlapped, removeTask, clusterVars, requestVars, terminate, nodeVars, stopVars>>

-----------------------------------------------------------------------------
RequestStep(r) ==
    GetOrCreateCluster(r) \/ ClusterStarted(r) \/ ClusterStartFails(r)
    \/ CreateNode(r) \/ StacksFail(r)
TerminateStep(r) == TerminateNode(r) \/ TerminateReturns(r)
StopStep(r) ==
    NothingToStop(r) \/ StopCluster(r) \/ ClusterNodesStopped(r) \/ ClusterStopFails(r)
    \/ ClusterStopped(r)
NodeStep(r) == NodeStopped(r) \/ NodeStopFails(r)
RemovalStep(r) ==
    OnClusterStop(r) \/ ScheduleRemoval(r) \/ RemovalWakes(r) \/ RemoveCluster(r)

Next ==
    \E r \in Requests :
        \/ RequestArrives(r) \/ RequestStep(r)
        \/ TerminateArrives(r) \/ TerminateStep(r)
        \/ NodeRuns(r) \/ NodeStartFails(r) \/ MonitorStopsNode(r) \/ NodeStep(r)
        \/ StopStep(r) \/ RemovalStep(r)

(* The event loop runs every task that can go on, a timer runs out, and stop() *)
(* of a node ends, one way or the other.                                     *)
Fairness ==
    \A r \in Requests :
        /\ WF_vars(RequestStep(r)) /\ WF_vars(TerminateStep(r))
        /\ WF_vars(NodeStep(r)) /\ WF_vars(StopStep(r)) /\ WF_vars(RemovalStep(r))

Spec == Init /\ [][Next]_vars /\ Fairness

-----------------------------------------------------------------------------
(* Properties. *)

(* The assertion of _remove_cluster never fails, nor does its `del`.          *)
RemovalFindsItStopped == overlapped \/ \A r \in Requests : removal[r] # "failed"

(* Every node that has not terminated can be reached: it is in the collection *)
(* of the registered cluster.                                                 *)
NoOrphanNode ==
    \A r \in Requests :
        Alive(r) => registry = target[r] /\ r \in members[target[r]]

(* So it is as long as no call comes while a cluster is being stopped.        *)
NoOrphanInOrder == overlapped \/ NoOrphanNode

(* At most one removal is under way, it can still be cancelled by name, and   *)
(* it is a removal of the registered cluster.                                 *)
RemovalIsCancellable ==
    overlapped \/ \A r \in Requests :
        Removing(r) => removeTask = r /\ registry = target[r]

(* Whoever waits for the lock gets its turn: a stop under the lock never      *)
(* waits for a callback that itself needs the lock.  (A request, its          *)
(* terminate_node and its removal are under way once each: if one of them    *)
(* never ends, its request is never Served again.)                           *)
Served(r) ==
    /\ request[r] \in {"idle", "done", "failed"}
    /\ terminate[r] \in {"idle", "done"}
    /\ removal[r] \in {"none", "removed", "cancelled", "failed"}

CallsReturn == \A r \in Requests : ~Served(r) ~> Served(r)

(* A call or a stop raised, or a node never got as far as an on_stop callback. *)
SomethingFailed ==
    \E r \in Requests :
        \/ request[r] = "failed" \/ onStop[r] = "failed" \/ r \in raised
        \/ node[r] = "terminated" /\ ~notify[r] /\ \A s \in Requests : r \notin awaited[s]

(* A registered cluster whose nodes have all been stopped is removed after a  *)
(* while, unless a request brings it new nodes or something has failed.       *)
EmptyClusterRemoved ==
    (registry # None /\ \A r \in Requests : ~Alive(r))
        ~> \/ registry = None \/ \E r \in Requests : Alive(r)
           \/ SomethingFailed \/ overlapped
=============================================================================
