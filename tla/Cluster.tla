------------------------------ MODULE Cluster ------------------------------
(***************************************************************************)
(* The manager stacks of one cluster: ray_on_golem/server/cluster/cluster.py *)
(* with ray_on_golem/server/services/golem/manager_stack.py.                *)
(*                                                                         *)
(* A manager stack is a demand on the market and what negotiates from it.  *)
(* Nodes of the same configuration and subnet share one, found by its hash; *)
(* it is created under a lock of that hash and stopped when the last node  *)
(* that uses it is gone.  The module follows one life of the cluster, from *)
(* running to terminated.  A request is a request_nodes call for one node; *)
(* the node, and the task of its on_stop, bear its name.  The stack that   *)
(* request r creates for the hash h is <<r, h>>.                           *)
(***************************************************************************)
EXTENDS Naturals, Sequences

CONSTANTS
    Requests,       \* the request_nodes calls
    HeadRequests,   \* those that ask for a head node
    Hashes,         \* NodeConfigData.get_hash of configurations and subnets
    Wants,          \* the hashes a request needs: the priority one, if any,
                    \* then the main one
    NoStack

ASSUME ClusterAssumption ==
    /\ HeadRequests \subseteq Requests
    /\ Wants \in [Requests -> Seq(Hashes) \ {<<>>}]
    /\ NoStack \notin Requests \X Hashes

VARIABLES
    cluster,        \* Cluster._state
    stacks,         \* _manager_stacks
    running,        \* the stacks whose _is_running is set
    epoch,          \* how often _manager_stacks_locks was emptied
    lock,           \* the locks: the holder, then who waits, for each epoch and hash
    request,        \* where each request_nodes call is
    at,             \* the epoch and hash of the lock it is at
    got,            \* the stacks it has got so far
    node,           \* ClusterNode.state
    raised,         \* the nodes whose stop() raised: they stay terminating
    members,        \* _nodes
    notify,         \* the stop of the node will call on_stop
    onStop,         \* the task of the node's on_stop
    unused          \* the stacks it found unused and is about to stop

stackVars   == <<stacks, running, epoch, lock>>
requestVars == <<request, at, got>>
nodeVars    == <<node, raised, members, notify, onStop, unused>>
vars == <<cluster, stackVars, requestVars, nodeVars>>

Stacks == Requests \X Hashes
Locks  == {0, 1} \X Hashes

TypeOK ==
    /\ cluster \in {"running", "terminating", "terminated"}
    /\ stacks \in [Hashes -> Stacks \cup {NoStack}]
    /\ running \subseteq Stacks
    /\ epoch \in {0, 1}
    /\ lock \in [Locks -> Seq(Requests)]
    /\ request \in [Requests -> {"idle", "queued", "creating", "starting", "done", "failed"}]
    /\ at \in [Requests -> Locks]
    /\ got \in [Requests -> Seq(Stacks)]
    /\ node \in [Requests -> {"none", "alive", "terminating", "terminated"}]
    /\ raised \subseteq Requests
    /\ members \subseteq Requests
    /\ notify \in [Requests -> BOOLEAN]
    /\ onStop \in [Requests -> {"none", "ready", "gather", "nodes", "stacks", "done", "failed"}]
    /\ unused \in [Requests -> SUBSET Stacks]

Init ==
    /\ cluster = "running"
    /\ stacks = [h \in Hashes |-> NoStack]
    /\ running = {}
    /\ epoch = 0
    /\ lock = [l \in Locks |-> <<>>]
    /\ request = [r \in Requests |-> "idle"]
    /\ at = [r \in Requests |-> <<0, Head(Wants[r])>>]
    /\ got = [r \in Requests |-> <<>>]
    /\ node = [r \in Requests |-> "none"]
    /\ raised = {}
    /\ members = {}
    /\ notify = [r \in Requests |-> FALSE]
    /\ onStop = [r \in Requests |-> "none"]
    /\ unused = [r \in Requests |-> {}]

-----------------------------------------------------------------------------
(* request_nodes, with _prepare_manager_stacks and _get_or_create_manager_stack *)

Hash(r)  == at[r][2]
Leave(r) == [lock EXCEPT ![at[r]] = Tail(@)]

(* Mutant: nobody waits for the lock. *)
HoldsAnyway(r) == lock[at[r]] # <<>>

Holds(r) == lock[at[r]] # <<>> /\ Head(lock[at[r]]) = r

RequestArrives(r) ==
    /\ cluster = "running"
    /\ request[r] = "idle"
    /\ request' = [request EXCEPT ![r] = "queued"]
    /\ at' = [at EXCEPT ![r] = <<epoch, Head(Wants[r])>>]
    /\ lock' = [lock EXCEPT ![at'[r]] = Append(@, r)]
    /\ UNCHANGED <<cluster, stacks, running, epoch, got, nodeVars>>

(* The request leaves the lock with stack s: on to the next hash, or, with no  *)
(* await in between, to a new node that is scheduled to start                *)
GoOnWith(r, s) ==
    LET n == Len(got[r]) + 1 IN
    /\ got' = [got EXCEPT ![r] = Append(@, s)]
    /\ IF n < Len(Wants[r])
         THEN /\ at' = [at EXCEPT ![r] = <<epoch, Wants[r][n + 1]>>]
              /\ lock' = [Leave(r) EXCEPT ![at'[r]] = Append(@, r)]
              /\ request' = [request EXCEPT ![r] = "queued"]
              /\ UNCHANGED <<node, members>>
         ELSE /\ lock' = Leave(r)
              /\ request' = [request EXCEPT ![r] = "done"]
              /\ node' = [node EXCEPT ![r] = "alive"]
              /\ members' = members \cup {r}
              /\ UNCHANGED at

(* A stack of that hash is in the dictionary: it is returned as it is *)
FoundStack(r) ==
    /\ request[r] = "queued"
    /\ Holds(r)
    /\ stacks[Hash(r)] # NoStack
    /\ GoOnWith(r, stacks[Hash(r)])
    /\ UNCHANGED <<cluster, stacks, running, epoch, raised, notify, onStop, unused>>

CreateStack(r) ==
    /\ request[r] = "queued"
    /\ Holds(r)
    /\ stacks[Hash(r)] = NoStack
    /\ request' = [request EXCEPT ![r] = "creating"]
    /\ UNCHANGED <<cluster, stackVars, at, got, nodeVars>>

(* ManagerStack.create returned; start() sets _is_running before its awaits *)
StackCreated(r) ==
    /\ request[r] = "creating"
    /\ stacks' = [stacks EXCEPT ![Hash(r)] = <<r, Hash(r)>>]
    /\ running' = running \cup {<<r, Hash(r)>>}
    /\ request' = [request EXCEPT ![r] = "starting"]
    /\ UNCHANGED <<cluster, epoch, lock, at, got, nodeVars>>

StackStarted(r) ==
    /\ request[r] = "starting"
    /\ GoOnWith(r, <<r, Hash(r)>>)
    /\ UNCHANGED <<cluster, stacks, running, epoch, raised, notify, onStop, unused>>

(* Mutant: an error leaves the lock locked. *)
StackFailsLocked(r) ==
    /\ request[r] \in {"creating", "starting"}
    /\ request' = [request EXCEPT ![r] = "failed"]
    /\ UNCHANGED <<cluster, stackVars, at, got, nodeVars>>

(* create() or start() raised: the lock is released, and a stack that was      *)
(* stored stays in the dictionary                                            *)
StackFails(r) ==
    /\ request[r] \in {"creating", "starting"}
    /\ request' = [request EXCEPT ![r] = "failed"]
    /\ lock' = Leave(r)
    /\ UNCHANGED <<cluster, stacks, running, epoch, at, got, nodeVars>>

-----------------------------------------------------------------------------
(* The nodes, as NodeLifecycle has them; "alive" is pending or running. *)

NodeStartFails(r) ==
    /\ node[r] = "alive"
    /\ node' = [node EXCEPT ![r] = "terminated"]
    /\ UNCHANGED <<cluster, stackVars, requestVars, raised, members, notify, onStop, unused>>

(* terminate_node or a monitor *)
NodeStops(r) ==
    /\ node[r] = "alive"
    /\ node' = [node EXCEPT ![r] = "terminating"]
    /\ notify' = [notify EXCEPT ![r] = TRUE]
    /\ UNCHANGED <<cluster, stackVars, requestVars, raised, members, onStop, unused>>

(* The node's stop() is under way *)
BeingStopped(r) == node[r] = "terminating" /\ r \notin raised

NodeStopped(r) ==
    /\ BeingStopped(r)
    /\ node' = [node EXCEPT ![r] = "terminated"]
    /\ onStop' = [onStop EXCEPT ![r] = IF notify[r] THEN "ready" ELSE @]
    /\ UNCHANGED <<cluster, stackVars, requestVars, raised, members, notify, unused>>

(* stop() of a head raises when the process of its tunnel has exited: the     *)
(* node stays terminating and no callback is made                            *)
NodeStopFails(r) ==
    /\ r \in HeadRequests
    /\ BeingStopped(r)
    /\ raised' = raised \cup {r}
    /\ UNCHANGED <<cluster, stackVars, requestVars, node, members, notify, onStop, unused>>

-----------------------------------------------------------------------------
(* _on_node_stop and stop *)

(* Mutant: nodes that have ended count as users. *)
LiveOrNot == members

Live == {n \in members : node[n] = "alive"}

Uses(n, s) == s \in {got[n][i] : i \in DOMAIN got[n]}

LastOrHead(r) == Live = {} \/ r \in HeadRequests

(* The stacks of the node that no node alive uses.  Their stops run in tasks  *)
(* that gather() makes, in a later step of the event loop                    *)
FindUnusedStacks(r) ==
    /\ onStop[r] = "ready"
    /\ ~LastOrHead(r)
    /\ unused' = [unused EXCEPT ![r] =
                    {s \in Stacks : Uses(r, s) /\ \A n \in Live : ~Uses(n, s)}]
    /\ onStop' = [onStop EXCEPT ![r] = IF unused'[r] = {} THEN "done" ELSE "gather"]
    /\ UNCHANGED <<cluster, stackVars, requestVars, node, raised, members, notify>>

(* Each of them is marked as stopped before it awaits its managers, whose     *)
(* errors only end the task                                                  *)
StopUnusedStacks(r) ==
    /\ onStop[r] = "gather"
    /\ running' = running \ unused[r]
    /\ unused' = [unused EXCEPT ![r] = {}]
    /\ onStop' = [onStop EXCEPT ![r] = "done"]
    /\ UNCHANGED <<cluster, stacks, epoch, lock, requestVars, node, raised, members, notify>>

StopRefused(r) ==
    /\ onStop[r] = "ready"
    /\ LastOrHead(r)
    /\ cluster # "running"
    /\ onStop' = [onStop EXCEPT ![r] = "done"]
    /\ UNCHANGED <<cluster, stackVars, requestVars, node, raised, members, notify, unused>>

StopCluster(r) ==
    /\ onStop[r] = "ready"
    /\ LastOrHead(r)
    /\ cluster = "running"
    /\ cluster' = "terminating"
    /\ node' = [n \in Requests |-> IF n \in Live THEN "terminating" ELSE node[n]]
    /\ onStop' = [onStop EXCEPT ![r] = "nodes"]
    /\ UNCHANGED <<stackVars, requestVars, raised, members, notify, unused>>

(* Mutant: every node of the collection is awaited, the latest ones too. *)
StopAfterAllNodes(r) ==
    /\ onStop[r] = "nodes"
    /\ \A n \in members : node[n] = "terminated"
    /\ running' = running \ {stacks[h] : h \in Hashes}
    /\ onStop' = [onStop EXCEPT ![r] = "stacks"]
    /\ UNCHANGED <<cluster, stacks, epoch, lock, requestVars, node, raised, members, notify, unused>>

(* The nodes whose stop() the stop of the cluster has called and awaits: those *)
(* that somebody else is stopping return at once                             *)
Awaited == {n \in members : node[n] = "terminating" /\ ~notify[n]}

(* They have stopped: the stacks in the dictionary follow. *)
StopAllStacks(r) ==
    /\ onStop[r] = "nodes"
    /\ Awaited = {}
    /\ running' = running \ {stacks[h] : h \in Hashes}
    /\ onStop' = [onStop EXCEPT ![r] = "stacks"]
    /\ UNCHANGED <<cluster, stacks, epoch, lock, requestVars, node, raised, members, notify, unused>>

(* The stop of an awaited node raised, or later that of a stack or of the     *)
(* payment manager: the cluster stays terminating, and nothing is cleared    *)
ClusterStopFails(r) ==
    /\ \/ onStop[r] = "nodes" /\ Awaited \cap raised # {}
       \/ onStop[r] = "stacks"
    /\ onStop' = [onStop EXCEPT ![r] = "failed"]
    /\ UNCHANGED <<cluster, stackVars, requestVars, node, raised, members, notify, unused>>

(* The stacks and the payment manager have stopped *)
ClusterStopped(r) ==
    /\ onStop[r] = "stacks"
    /\ cluster' = "terminated"
    /\ members' = {}
    /\ stacks' = [h \in Hashes |-> NoStack]
    /\ epoch' = 1
    /\ onStop' = [onStop EXCEPT ![r] = "done"]
    /\ UNCHANGED <<running, lock, requestVars, node, raised, notify, unused>>

-----------------------------------------------------------------------------
RequestStep(r) ==
    FoundStack(r) \/ CreateStack(r) \/ StackCreated(r) \/ StackStarted(r) \/ StackFails(r)
NodeStep(r) ==
    NodeStartFails(r) \/ NodeStops(r) \/ NodeStopped(r) \/ NodeStopFails(r)
StopStep(r) ==
    \/ FindUnusedStacks(r) \/ StopUnusedStacks(r)
    \/ StopRefused(r) \/ StopCluster(r) \/ StopAllStacks(r)
    \/ ClusterStopFails(r) \/ ClusterStopped(r)

Next ==
    \E r \in Requests : RequestArrives(r) \/ RequestStep(r) \/ NodeStep(r) \/ StopStep(r)

(* Tasks that can go on do; the managers' starts and stops and the nodes' stops *)
(* end, well or with an error.                                               *)
Fairness ==
    \A r \in Requests :
        /\ WF_vars(RequestStep(r)) /\ WF_vars(StopStep(r))
        /\ WF_vars(NodeStopped(r) \/ NodeStopFails(r))

Spec == Init /\ [][Next]_vars /\ Fairness

-----------------------------------------------------------------------------
(* Properties. *)

(* While the cluster is up there is at most one demand per configuration and  *)
(* subnet: concurrent requests share the stack one of them creates.          *)
OneStackPerHash ==
    cluster # "terminated" =>
        \A s, t \in running : s[2] = t[2] => s = t

(* Every request for nodes is answered, also when another one that held the    *)
(* lock of its stack failed.                                                  *)
RequestsAnswered ==
    \A r \in Requests : request[r] = "queued" ~> request[r] \in {"done", "failed"}

(* The task of r stops the cluster, or has begun to and failed *)
Stopper(r) == onStop[r] \in {"nodes", "stacks", "failed"}

(* A cluster that began to stop stops, whatever nodes are added meanwhile and  *)
(* whoever else stops its nodes, unless what it calls raises.                 *)
StopEnds ==
    cluster = "terminating" ~>
        cluster = "terminated" \/ \E r \in Requests : onStop[r] = "failed"

(* Somebody will stop the stack s of a running cluster, or still needs it: the *)
(* request that makes it and is not through, a live node, a node whose stop    *)
(* will call back, or the task of that callback.                               *)
Minds(r, s) ==
    \/ s[1] = r /\ request[r] \in {"queued", "creating", "starting"}
    \/ Uses(r, s) /\ \/ node[r] = "alive"
                     \/ BeingStopped(r) /\ notify[r]
                     \/ onStop[r] = "ready"
    \/ onStop[r] = "gather" /\ s \in unused[r]

(* Nobody will: the request that made it failed, or a node that used it failed *)
(* to start or to stop, which calls nobody back.                               *)
LostTo(r, s) ==
    \/ s[1] = r /\ request[r] = "failed"
    \/ Uses(r, s) /\ (r \in raised \/ (node[r] = "terminated" /\ ~notify[r]))

(* No demand is left on the market by nodes that come and go: whatever order   *)
(* requests, ends of nodes and their callbacks take, only a failure leaves a   *)
(* running cluster a stack that nobody minds.                                  *)
StacksAreMinded ==
    cluster = "running" =>
        \A s \in running : \E r \in Requests : Minds(r, s) \/ LostTo(r, s)

(* A node of a running cluster that is scheduled to start has a main stack    *)
(* that runs.                                                                 *)
NodesCanStart ==
    cluster = "running" =>
        \A n \in Live : \E s \in running : s = got[n][Len(got[n])]
=============================================================================
