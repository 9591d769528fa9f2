------------------------------ MODULE Shutdown ------------------------------
(***************************************************************************)
(* What a web server does with its clusters while it shuts down: the       *)
(* handlers of server/views.py that race with the shutdown request, the    *)
(* clean-up contexts of server/main.py, and RayService.stop, which walks   *)
(* over a dictionary that delayed removals change under its feet.          *)
(*                                                                         *)
(* Each request_nodes call names a cluster of its own and asks it for one  *)
(* node; the cluster, its node and the removal are named after it.  What   *)
(* happens inside a cluster is the subject of module RayService.           *)
(***************************************************************************)
EXTENDS Naturals, Sequences, FiniteSets, SequencesExt

CONSTANTS
    Names,          \* the clusters
    Faulty,         \* those where a stop() may raise
    MaxShutdowns,   \* how many shutdown requests are sent
    None

ASSUME ShutdownAssumption ==
    None \notin Names /\ Faulty \subseteq Names /\ MaxShutdowns \in Nat

VARIABLES
    handler,        \* where the request_nodes handler for each cluster is
    registry,       \* RayService._clusters, in the order of insertion
    cluster,        \* Cluster._state
    node,           \* the state of the cluster's node
    awaited,        \* the clusters whose stop() awaits the stop of their node
    removal,        \* the clusters whose remove task sleeps
    raised,         \* history: the nodes whose stop() ended with an error,
    failed,         \*   and the clusters whose stop() did
    shutting,       \* app["shutting_down"]
    requests,       \* the shutdown requests sent so far
    timers,         \* raise_graceful_exit calls still to come
    phase,          \* how far the server is
    position,       \* in the walk of RayService.stop over its clusters,
    size,           \*   their number when it began,
    visiting,       \*   and the one whose stop() it awaits
    inFlight,       \* history: handlers under way at the answer WILL_SHUTDOWN
    skipped,        \* history: clusters found terminating, not waited for
    hurried,        \* history: nodes found stopping, not waited for
    broken          \* history: the walk ended in an error

failVars    == <<raised, failed>>
walkVars    == <<position, size, visiting>>
historyVars == <<inFlight, skipped, hurried, broken>>
clusterVars == <<registry, cluster, node, awaited, removal, failVars>>
requestVars == <<shutting, requests>>
vars == <<handler, clusterVars, requestVars, timers, phase, walkVars, historyVars>>

TypeOK ==
    /\ handler \in [Names -> {"idle", "passed", "stacks", "done", "rejected", "cancelled"}]
    /\ registry \in Seq(Names)
    /\ cluster \in [Names -> {"none", "running", "terminating", "terminated"}]
    /\ node \in [Names -> {"none", "up", "stopping", "gone"}]
    /\ awaited \subseteq Names /\ removal \subseteq Names
    /\ raised \subseteq Names /\ failed \subseteq Names
    /\ shutting \in BOOLEAN
    /\ requests \in 0 .. MaxShutdowns
    /\ timers \in 0 .. requests
    /\ phase \in {"serving", "draining", "ray", "golem", "yagna", "stopped", "aborted"}
    /\ position \in Nat \ {0} /\ size \in Nat
    /\ visiting \in Names \cup {None}
    /\ inFlight \subseteq Names /\ skipped \subseteq Names /\ hurried \subseteq Names
    /\ broken \in BOOLEAN

Init ==
    /\ handler = [n \in Names |-> "idle"]
    /\ registry = <<>>
    /\ cluster = [n \in Names |-> "none"]
    /\ node = [n \in Names |-> "none"]
    /\ awaited = {} /\ removal = {}
    /\ raised = {} /\ failed = {}
    /\ shutting = FALSE
    /\ requests = 0
    /\ timers = 0
    /\ phase = "serving"
    /\ position = 1 /\ size = 0 /\ visiting = None
    /\ inFlight = {} /\ skipped = {} /\ hurried = {} /\ broken = FALSE

-----------------------------------------------------------------------------
(* views.request_nodes; the guard is tested before the body is awaited. *)

UnderWay == {n \in Names : handler[n] \in {"passed", "stacks"}}

RequestArrives(n) ==
    /\ phase = "serving"
    /\ handler[n] = "idle"
    /\ handler' = [handler EXCEPT ![n] = IF shutting THEN "rejected" ELSE "passed"]
    /\ UNCHANGED <<clusterVars, requestVars, timers, phase, walkVars, historyVars>>

CreateCluster(n) ==
    /\ handler[n] = "passed"
    /\ handler' = [handler EXCEPT ![n] = "stacks"]
    /\ registry' = Append(registry, n)
    /\ cluster' = [cluster EXCEPT ![n] = "running"]
    /\ UNCHANGED <<node, awaited, removal, failVars, requestVars, timers, phase, walkVars,
                   historyVars>>

CreateNode(n) ==
    /\ handler[n] = "stacks"
    /\ handler' = [handler EXCEPT ![n] = "done"]
    /\ node' = [node EXCEPT ![n] = "up"]
    /\ UNCHANGED <<registry, cluster, awaited, removal, failVars, requestVars, timers, phase,
                   walkVars, historyVars>>

-----------------------------------------------------------------------------
(* views.shutdown, with ignore_self_shutdown as `stop` sends it *)

(* Mutant: nodes that are stopping count, those that start do not. *)
AnyNodeStopping == \E n \in Names : node[n] = "stopping"

(* RayService.is_any_node_running *)
AnyNodeRunning == \E n \in Names : node[n] = "up"

Will == ~AnyNodeRunning

ShutdownRequested ==
    /\ phase = "serving"
    /\ requests < MaxShutdowns
    /\ requests' = requests + 1
    /\ \E force \in BOOLEAN :
         IF Will \/ force
           THEN /\ shutting' = TRUE
                /\ timers' = timers + 1
                /\ inFlight' = IF Will THEN inFlight \cup UnderWay ELSE Names
           ELSE UNCHANGED <<shutting, timers, inFlight>>
    /\ UNCHANGED <<handler, clusterVars, phase, walkVars, skipped, hurried, broken>>

LoopRuns == phase \notin {"stopped", "aborted"}

(* raise_graceful_exit ends run_app; one that comes later ends its clean-up *)
GracefulExit ==
    /\ timers > 0
    /\ timers' = timers - 1
    /\ phase' = IF phase = "serving" THEN "draining"
                ELSE IF LoopRuns THEN "aborted" ELSE phase
    /\ UNCHANGED <<handler, clusterVars, requestVars, walkVars, historyVars>>

(* aiohttp gives the handlers five seconds, then cancels them *)
HandlerCancelled(n) ==
    /\ phase = "draining"
    /\ n \in UnderWay
    /\ handler' = [handler EXCEPT ![n] = "cancelled"]
    /\ UNCHANGED <<clusterVars, requestVars, timers, phase, walkVars, historyVars>>

ConnectionsClosed ==
    /\ phase = "draining"
    /\ UnderWay = {}
    /\ phase' = "ray"
    /\ position' = 1
    /\ size' = Len(registry)
    /\ UNCHANGED <<handler, clusterVars, requestVars, timers, visiting, historyVars>>

-----------------------------------------------------------------------------
(* The clusters, as long as the event loop runs. *)

(* terminate_node, or a monitor *)
NodeStops(n) ==
    /\ LoopRuns
    /\ node[n] = "up"
    /\ node' = [node EXCEPT ![n] = "stopping"]
    /\ UNCHANGED <<handler, registry, cluster, awaited, removal, failVars, requestVars, timers,
                   phase, walkVars, historyVars>>

GolemRuns == phase \in {"serving", "draining", "ray", "golem"}

(* The activity is destroyed; that takes a golem *)
NodeStopped(n) ==
    /\ GolemRuns
    /\ node[n] = "stopping" /\ n \notin raised
    /\ node' = [node EXCEPT ![n] = "gone"]
    /\ UNCHANGED <<handler, registry, cluster, awaited, removal, failVars, requestVars, timers,
                   phase, walkVars, historyVars>>

(* An error of a head's tunnel leaves stop() with the node terminating *)
NodeStopFails(n) ==
    /\ n \in Faulty
    /\ GolemRuns
    /\ node[n] = "stopping" /\ n \notin raised
    /\ raised' = raised \cup {n}
    /\ UNCHANGED <<handler, registry, cluster, node, awaited, removal, failed, requestVars,
                   timers, phase, walkVars, historyVars>>

(* _on_node_stop of the last node stops its cluster *)
OnNodeStop(n) ==
    /\ LoopRuns
    /\ node[n] = "gone"
    /\ cluster[n] = "running"
    /\ cluster' = [cluster EXCEPT ![n] = "terminating"]
    /\ UNCHANGED <<handler, registry, node, awaited, removal, failVars, requestVars, timers, phase,
                   walkVars, historyVars>>

(* Cluster.stop is under way; one that raised leaves it terminating for good *)
BeingStopped(n) == GolemRuns /\ cluster[n] = "terminating" /\ n \notin failed

(* Mutant: RayService.stop does not wait for the nodes. *)
ClusterStoppedEarly(n) ==
    /\ BeingStopped(n)
    /\ cluster' = [cluster EXCEPT ![n] = "terminated"]
    /\ awaited' = awaited \ {n}
    /\ removal' = removal \cup {n}
    /\ visiting' = IF visiting = n THEN None ELSE visiting
    /\ UNCHANGED <<handler, registry, node, failVars, requestVars, timers, phase, position,
                   size, historyVars>>

(* Mutant: the end of the stop does not reach the task that awaits it. *)
ClusterStoppedUnseen(n) ==
    /\ BeingStopped(n)
    /\ n \in awaited => node[n] = "gone"
    /\ cluster' = [cluster EXCEPT ![n] = "terminated"]
    /\ awaited' = awaited \ {n}
    /\ removal' = removal \cup {n}
    /\ UNCHANGED <<handler, registry, node, failVars, requestVars, timers, phase, walkVars,
                   historyVars>>

(* The manager stacks and the payment manager have stopped; _on_cluster_stop *)
ClusterStopped(n) ==
    /\ BeingStopped(n)
    /\ n \in awaited => node[n] = "gone"
    /\ cluster' = [cluster EXCEPT ![n] = "terminated"]
    /\ awaited' = awaited \ {n}
    /\ removal' = removal \cup {n}
    /\ visiting' = IF visiting = n THEN None ELSE visiting
    /\ UNCHANGED <<handler, registry, node, failVars, requestVars, timers, phase, position,
                   size, historyVars>>

(* The gather() re-raises the error of the node it awaits, or a manager stack  *)
(* or the payment manager does not stop: RayService.stop ends there with the *)
(* error if it is the one who called.  aiohttp goes on with the other        *)
(* contexts.                                                                 *)
ClusterStopFails(n) ==
    /\ n \in Faulty
    /\ BeingStopped(n)
    /\ n \in awaited => node[n] = "gone" \/ n \in raised
    /\ failed' = failed \cup {n}
    /\ awaited' = awaited \ {n}
    /\ IF visiting = n
         THEN phase' = "golem" /\ visiting' = None /\ broken' = TRUE
         ELSE UNCHANGED <<phase, visiting, broken>>
    /\ UNCHANGED <<handler, registry, cluster, node, removal, raised, requestVars, timers,
                   position, size, inFlight, skipped, hurried>>

(* _remove_cluster, after its sleep; a KeyError once stop() has cleared it    *)
ClusterRemoved(n) ==
    /\ LoopRuns
    /\ n \in removal
    /\ removal' = removal \ {n}
    /\ \/ \E i \in DOMAIN registry : registry[i] = n /\ registry' = RemoveAt(registry, i)
       \/ registry = <<>> /\ UNCHANGED registry
    /\ UNCHANGED <<handler, cluster, node, awaited, failVars, requestVars, timers, phase,
                   walkVars, historyVars>>

-----------------------------------------------------------------------------
(* ray_service_ctx: `for cluster in self._clusters.values()` *)

Walking == phase = "ray" /\ visiting = None

(* Cluster.stop has nothing to do, is under way in another task or has failed *)
PassStopped ==
    /\ Walking
    /\ Len(registry) = size
    /\ position <= size
    /\ cluster[registry[position]] \in {"terminating", "terminated"}
    /\ position' = position + 1
    /\ skipped' = skipped \cup {n \in {registry[position]} : cluster[n] = "terminating"}
    /\ UNCHANGED <<handler, clusterVars, requestVars, timers, phase, size, visiting, inFlight,
                   hurried, broken>>

(* Cluster.stop: a node that is stopping already is not waited for *)
StopCluster ==
    /\ Walking
    /\ Len(registry) = size
    /\ position <= size
    /\ LET n == registry[position] IN
         /\ cluster[n] = "running"
         /\ cluster' = [cluster EXCEPT ![n] = "terminating"]
         /\ node' = [node EXCEPT ![n] = IF @ = "up" THEN "stopping" ELSE @]
         /\ awaited' = awaited \cup {m \in {n} : node[m] = "up"}
         /\ hurried' = hurried \cup {m \in {n} : node[m] = "stopping"}
         /\ visiting' = n
    /\ position' = position + 1
    /\ UNCHANGED <<handler, registry, removal, failVars, requestVars, timers, phase, size,
                   inFlight, skipped, broken>>

WalkEnds ==
    /\ Walking
    /\ Len(registry) = size /\ position > size
    /\ phase' = "golem"
    /\ registry' = <<>>
    /\ UNCHANGED <<handler, cluster, node, awaited, removal, failVars, requestVars, timers,
                   walkVars, historyVars>>

(* RuntimeError: dictionary changed size during iteration *)
WalkBreaks ==
    /\ Walking
    /\ Len(registry) # size
    /\ phase' = "golem"
    /\ broken' = TRUE
    /\ UNCHANGED <<handler, clusterVars, requestVars, timers, walkVars, inFlight, skipped,
                   hurried>>

(* golem_service_ctx, yagna_service_ctx and reputation_service_ctx *)
GolemClosed ==
    /\ phase = "golem"
    /\ phase' = "yagna"
    /\ UNCHANGED <<handler, clusterVars, requestVars, timers, walkVars, historyVars>>

YagnaStopped ==
    /\ phase = "yagna"
    /\ phase' = "stopped"
    /\ UNCHANGED <<handler, clusterVars, requestVars, timers, walkVars, historyVars>>

-----------------------------------------------------------------------------
RequestStep(n) == CreateCluster(n) \/ CreateNode(n)
ClusterStep(n) ==
    NodeStopped(n) \/ NodeStopFails(n) \/ OnNodeStop(n)
    \/ ClusterStopped(n) \/ ClusterStopFails(n) \/ ClusterRemoved(n)
CleanupStep ==
    ConnectionsClosed \/ PassStopped \/ StopCluster \/ WalkEnds \/ WalkBreaks
    \/ GolemClosed \/ YagnaStopped

Next ==
    \/ \E n \in Names :
         \/ RequestArrives(n) \/ RequestStep(n) \/ HandlerCancelled(n)
         \/ NodeStops(n) \/ ClusterStep(n)
    \/ ShutdownRequested \/ GracefulExit \/ CleanupStep

(* The timers run out, handlers end or are cancelled, and a stop() ends or    *)
(* raises.                                                                   *)
Fairness ==
    /\ WF_vars(GracefulExit) /\ WF_vars(CleanupStep)
    /\ \A n \in Names :
         WF_vars(RequestStep(n) \/ HandlerCancelled(n)) /\ WF_vars(ClusterStep(n))

Spec == Init /\ [][Next]_vars /\ Fairness

-----------------------------------------------------------------------------
(* Properties. *)

(* After WILL_SHUTDOWN has been answered no node runs, but for one of a call  *)
(* that had passed the guard by then.                                         *)
NoNodeAfterAnswer == shutting => \A n \in Names : node[n] = "up" => n \in inFlight

(* Golem is closed when RayService has stopped every cluster, but for one     *)
(* that its own last node had begun to stop; a walk that an error ended, of   *)
(* the dictionary or of a cluster's stop(), guarantees nothing of the rest.   *)
ClustersStopFirst ==
    phase \in {"yagna", "stopped"} /\ ~broken
        => \A n \in Names : cluster[n] \in {"none", "terminated"} \/ n \in skipped

(* So every activity has been given back, but for a node that was stopping    *)
(* when its cluster was stopped, which stop() does not wait for.              *)
NodesStopFirst ==
    phase \in {"yagna", "stopped"} /\ ~broken
        => \A n \in Names : node[n] \in {"none", "gone"} \/ n \in skipped \cup hurried

(* A server that has agreed to shut down ends.                                *)
ShutdownEnds == shutting ~> phase \in {"stopped", "aborted"}
=============================================================================
