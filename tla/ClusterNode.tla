---------------------------- MODULE ClusterNode ----------------------------
(***************************************************************************)
(* One node of a cluster: ray_on_golem/server/cluster/nodes.py with the    *)
(* sidecars of ray_on_golem/server/cluster/sidecars.py.                    *)
(*                                                                         *)
(* The tasks that touch a node interleave at their awaits only:            *)
(*   - the start task (schedule_start/start/_create_activity): task;       *)
(*   - the callers of stop(): a terminate_node request, the stop of the    *)
(*     cluster, and the two monitors' failure callbacks: stops;            *)
(*   - the monitor tasks of the sidecars: monitor, fails;                  *)
(*   - the ssh tunnel process of a head node: tunnel.                      *)
(* Activities are numbered in the order the provider created them.         *)
(***************************************************************************)
EXTENDS Naturals

CONSTANTS
    MaxActivities,  \* bound on the activities one start() may create
    MaxFails,       \* CLUSTER_MONITOR_RETRY_COUNT
    HasPriority,    \* the node has a priority manager stack
    IsHead,         \* HeadClusterNode: a port tunnel beside the monitors
    SwallowCancel   \* asyncio.wait_for of the interpreter returns the result
                    \* of a future that is done instead of being cancelled
                    \* (CPython 3.9 to 3.11)

ASSUME BoundsAssumption ==
    MaxActivities \in Nat \ {0} /\ MaxFails \in Nat \ {0}
ASSUME FlagsAssumption ==
    HasPriority \in BOOLEAN /\ IsHead \in BOOLEAN /\ SwallowCancel \in BOOLEAN

VARIABLES
    state,          \* NodeData.state
    activity,       \* _activity, 0 for None
    events,         \* on_stop callbacks scheduled by stop()
    task,           \* the await the start task is at
    cancelling,     \* cancel() was called on the start task, not delivered yet
    held,           \* the local `activity` of _create_activity, 0 for none
    created,        \* activities created by this node so far
    owed,           \* activities created and never asked to be destroyed
    health,         \* what the provider side of _activity is like
    monitor,        \* the monitor tasks
    fails,          \* fails_count of the ssh monitor
    tunnel,         \* the ssh process of the tunnel and _tunnel_process
    stops           \* the await each caller of stop() is at

startVars   == <<task, cancelling, held, created>>
sidecarVars == <<monitor, fails, tunnel>>
vars == <<state, activity, events, startVars, owed, health, sidecarVars, stops>>

NodeStates == {"pending", "running", "terminating", "terminated"}
Monitors   == {"activity", "ssh"}
Callers    == Monitors \cup {"terminate", "cluster"}
Activities == 1..MaxActivities

(* "done" also stands for a _start_task that stop() has set to None *)
TaskStates == {"scheduled", "priority", "agreement", "create", "setup",
               "destroy", "sidecars", "tunnel", "done"}
MonitorStates == {"off", "running", "failed", "crashed"}
TunnelStates  == {"off", "spawning", "on", "exited", "terminated"}
HealthStates  == {"ok", "ssh_down", "dead"}
StopStates == {"idle", "report", "desc", "cancelling", "sidecars", "tunnel",
               "wait", "destroy", "done", "failed"}

TypeOK ==
    /\ state \in NodeStates
    /\ activity \in 0..MaxActivities
    /\ events \in Nat
    /\ task \in TaskStates
    /\ cancelling \in BOOLEAN
    /\ held \in 0..MaxActivities
    /\ created \in 0..MaxActivities
    /\ owed \subseteq Activities
    /\ health \in HealthStates
    /\ monitor \in [Monitors -> MonitorStates]
    /\ fails \in 0..MaxFails
    /\ tunnel \in TunnelStates
    /\ stops \in [Callers -> StopStates]

(* Cluster.request_nodes creates the node and schedules its start in one step. *)
Init ==
    /\ state = "pending"
    /\ activity = 0
    /\ events = 0
    /\ task = "scheduled"
    /\ cancelling = FALSE
    /\ held = 0
    /\ created = 0
    /\ owed = {}
    /\ health = "ok"
    /\ monitor = [m \in Monitors |-> "off"]
    /\ fails = 0
    /\ tunnel = "off"
    /\ stops = [c \in Callers |-> "idle"]

-----------------------------------------------------------------------------
(* The start task. *)

(* The task goes on from await `at`: no cancellation is to be delivered there. *)
StartAt(at) == task = at /\ ~cancelling

FirstAgreement == IF HasPriority THEN "priority" ELSE "agreement"

StartBegin ==
    /\ StartAt("scheduled")
    /\ state \notin {"running", "terminating"}
    /\ state' = "pending"
    /\ task' = FirstAgreement
    /\ UNCHANGED <<activity, events, cancelling, held, created, owed, health,
                   sidecarVars, stops>>

(* An agreement of the priority stack in time, or of the main stack *)
GotAgreement ==
    /\ StartAt("priority") \/ StartAt("agreement")
    /\ task' = "create"
    /\ UNCHANGED <<state, activity, events, cancelling, held, created, owed,
                   health, sidecarVars, stops>>

PriorityTimeout ==
    /\ StartAt("priority")
    /\ task' = "agreement"
    /\ UNCHANGED <<state, activity, events, cancelling, held, created, owed,
                   health, sidecarVars, stops>>

(* agreement.create_activity() returned *)
CreateActivity ==
    /\ StartAt("create")
    /\ created < MaxActivities
    /\ created' = created + 1
    /\ held' = created + 1
    /\ owed' = owed \cup {created + 1}
    /\ task' = "setup"
    /\ UNCHANGED <<state, activity, events, cancelling, health, sidecarVars, stops>>

(* Network, deploy, start, configuration, ssh service, ssh check, refresh: *)
(* each of them may fail, and the handler then destroys the activity.      *)
SetupFails ==
    /\ StartAt("setup")
    /\ task' = "destroy"
    /\ UNCHANGED <<state, activity, events, cancelling, held, created, owed,
                   health, sidecarVars, stops>>

(* Mutant: the handler forgets to destroy the activity. *)
ReleasedNothing == owed

(* The handler's _stop_activity returned (its errors are swallowed) *)
Released == IF task = "destroy" THEN owed \ {held} ELSE owed

(* Where an exception can end an attempt: the steps before the activity      *)
(* exists, and the end of the handler that destroyed it                      *)
AttemptFails == \E at \in {"priority", "agreement", "create", "destroy"} : StartAt(at)

(* A GolemException or RayOnGolemError that is not a ManagerException: again *)
Retry ==
    /\ AttemptFails
    /\ created < MaxActivities
    /\ owed' = Released
    /\ held' = 0
    /\ task' = FirstAgreement
    /\ UNCHANGED <<state, activity, events, cancelling, created, health,
                   sidecarVars, stops>>

(* A ManagerException, or any other Exception: start() gives the node up *)
StartFails ==
    /\ AttemptFails
    /\ owed' = Released
    /\ held' = 0
    /\ state' = "terminated"
    /\ task' = "done"
    /\ UNCHANGED <<activity, events, cancelling, created, health, sidecarVars,
                   stops>>

(* Mutant: the activity is returned but not kept. *)
SetupDoneUnkept ==
    /\ StartAt("setup")
    /\ state' = "running"
    /\ held' = 0
    /\ task' = "sidecars"
    /\ UNCHANGED <<activity, events, cancelling, created, owed, health,
                   sidecarVars, stops>>

SetupDone ==
    /\ StartAt("setup")
    /\ state' = "running"
    /\ activity' = held
    /\ held' = 0
    /\ task' = "sidecars"
    /\ UNCHANGED <<events, cancelling, created, owed, health, sidecarVars, stops>>

(* gather() of the start() of every sidecar: the monitors start at once, the *)
(* tunnel of a head node awaits its process                                  *)
StartSidecars ==
    /\ StartAt("sidecars")
    /\ monitor' = [m \in Monitors |-> "running"]
    /\ tunnel' = IF IsHead THEN "spawning" ELSE tunnel
    /\ task' = IF IsHead THEN "tunnel" ELSE "done"
    /\ UNCHANGED <<state, activity, events, cancelling, held, created, owed,
                   health, fails, stops>>

(* run_subprocess returned, or raised an OSError that ends the start task *)
TunnelSpawned ==
    /\ StartAt("tunnel")
    /\ tunnel' \in {"on", "off"}
    /\ task' = "done"
    /\ UNCHANGED <<state, activity, events, cancelling, held, created, owed,
                   health, monitor, fails, stops>>

(* CancelledError reaches the start task.  No handler of start() catches it:  *)
(* what it held is forgotten, a request in flight may or may not have been   *)
(* carried out, and asyncio kills a process that is being spawned.            *)
StartCancelled ==
    /\ cancelling
    /\ cancelling' = FALSE
    /\ task' = "done"
    /\ held' = 0
    /\ tunnel' = IF task = "tunnel" THEN "off" ELSE tunnel
    /\ \/ UNCHANGED <<owed, created>>
       \/ /\ task = "create"
          /\ created' = created + 1
          /\ owed' = owed \cup {created + 1}
       \/ /\ task = "destroy"
          /\ owed' = Released
          /\ UNCHANGED created
    /\ UNCHANGED <<state, activity, events, health, monitor, fails, stops>>

(* The cancellation finds wait_for with its future already done: it is lost *)
CancelSwallowed ==
    /\ SwallowCancel
    /\ cancelling
    /\ task = "priority"
    /\ cancelling' = FALSE
    /\ task' = "create"
    /\ UNCHANGED <<state, activity, events, held, created, owed, health,
                   sidecarVars, stops>>

-----------------------------------------------------------------------------
(* The provider side. *)

ActivityDies ==
    /\ activity # 0
    /\ health # "dead"
    /\ health' = "dead"
    /\ UNCHANGED <<state, activity, events, startVars, owed, sidecarVars, stops>>

SshBreaks ==
    /\ activity # 0
    /\ health = "ok"
    /\ health' = "ssh_down"
    /\ UNCHANGED <<state, activity, events, startVars, owed, sidecarVars, stops>>

TunnelExits ==
    /\ tunnel = "on"
    /\ tunnel' = "exited"
    /\ UNCHANGED <<state, activity, events, startVars, owed, health, monitor,
                   fails, stops>>

-----------------------------------------------------------------------------
(* The monitors.  A check that finds nothing wrong changes nothing. *)

(* Mutant: the monitor ends before it makes the task of the callback. *)
ReportUnsent(m) == monitor' = [monitor EXCEPT ![m] = "failed"] /\ UNCHANGED stops

(* _handle_monitor_check_failure: a task for the callback, and the monitor ends *)
Report(m) ==
    /\ monitor' = [monitor EXCEPT ![m] = "failed"]
    /\ stops' = [stops EXCEPT ![m] = "report"]

ActivityCheckFails ==
    /\ monitor["activity"] = "running"
    /\ health = "dead"
    /\ Report("activity")
    /\ UNCHANGED <<state, activity, events, startVars, owed, health, fails, tunnel>>

(* A check raises what its monitor does not catch and the task ends silently: *)
(* get_state(), or anything but a RayOnGolemError from the check by ssh       *)
(* (an OSError of the subprocess)                                             *)
MonitorCrashes(m) ==
    /\ monitor[m] = "running"
    /\ monitor' = [monitor EXCEPT ![m] = "crashed"]
    /\ UNCHANGED <<state, activity, events, startVars, owed, health, fails,
                   tunnel, stops>>

SshCheckFails ==
    /\ monitor["ssh"] = "running"
    /\ health # "ok"
    /\ fails' = fails + 1
    /\ IF fails' >= MaxFails
         THEN Report("ssh") /\ UNCHANGED health
         ELSE /\ \/ UNCHANGED health            \* restart_ssh_server did not help
                 \/ health = "ssh_down" /\ health' = "ok"
              /\ UNCHANGED <<monitor, stops>>
    /\ UNCHANGED <<state, activity, events, startVars, owed, tunnel>>

(* _on_monitor_check_failed starts: get_provider_desc(None) raises *)
HandleReport(m) ==
    /\ stops[m] = "report"
    /\ stops' = [stops EXCEPT ![m] = IF activity = 0 THEN "failed" ELSE "desc"]
    /\ UNCHANGED <<state, activity, events, startVars, owed, health, sidecarVars>>

-----------------------------------------------------------------------------
(* stop(). *)

Stopped == state \in {"terminating", "terminated"}

(* The caller is about to call stop() *)
ReadyToStop(c) == stops[c] = IF c \in Monitors THEN "desc" ELSE "idle"

StopRefused(c) ==
    /\ ReadyToStop(c)
    /\ Stopped
    /\ stops' = [stops EXCEPT ![c] = "done"]
    /\ UNCHANGED <<state, activity, events, startVars, owed, health, sidecarVars>>

(* Mutant: stop() without its guard. *)
StopBeginsAlways(c) ==
    /\ ReadyToStop(c)
    /\ state' = "terminating"
    /\ cancelling' = (task # "done")
    /\ stops' = [stops EXCEPT ![c] = "cancelling"]
    /\ UNCHANGED <<activity, events, task, held, created, owed, health, sidecarVars>>

(* ensure_cancelled cancels a task that is not done, once, and awaits its end *)
StopBegins(c) ==
    /\ ReadyToStop(c)
    /\ ~Stopped
    /\ state' = "terminating"
    /\ cancelling' = (task # "done")
    /\ stops' = [stops EXCEPT ![c] = "cancelling"]
    /\ UNCHANGED <<activity, events, task, held, created, owed, health, sidecarVars>>

(* Mutant: the start task is cancelled, its end is not awaited. *)
StartTaskIgnored(c) ==
    /\ stops[c] = "cancelling"
    /\ stops' = [stops EXCEPT ![c] = "sidecars"]
    /\ UNCHANGED <<state, activity, events, startVars, owed, health, sidecarVars>>

StartTaskGone(c) ==
    /\ stops[c] = "cancelling"
    /\ task = "done"
    /\ stops' = [stops EXCEPT ![c] = "sidecars"]
    /\ UNCHANGED <<state, activity, events, startVars, owed, health, sidecarVars>>

(* The last statements of stop(), from the test of _activity on: either it   *)
(* awaits _stop_activity, or it ends                                         *)
Finish(c) ==
    /\ state' = "terminated"
    /\ events' = IF c = "cluster" THEN events ELSE events + 1
    /\ stops' = [stops EXCEPT ![c] = "done"]

AfterSidecars(c) ==
    IF activity # 0
    THEN /\ stops' = [stops EXCEPT ![c] = "destroy"]
         /\ UNCHANGED <<state, events>>
    ELSE Finish(c)

(* Mutant: the monitors are left running. *)
StopNoSidecars(c) ==
    /\ stops[c] = "sidecars"
    /\ AfterSidecars(c)
    /\ UNCHANGED <<activity, startVars, owed, health, sidecarVars>>

(* _stop_sidecars: running monitors are cancelled, and so is the early exit  *)
(* task of a tunnel whose process has not exited                             *)
StopSidecars(c) ==
    /\ stops[c] = "sidecars"
    /\ monitor' = [m \in Monitors |->
                     IF monitor[m] = "running" THEN "off" ELSE monitor[m]]
    /\ CASE tunnel = "on" ->
              stops' = [stops EXCEPT ![c] = "tunnel"] /\ UNCHANGED <<state, events>>
         [] tunnel = "terminated" ->      \* _early_exit_task is None
              stops' = [stops EXCEPT ![c] = "failed"] /\ UNCHANGED <<state, events>>
         [] OTHER -> AfterSidecars(c)
    /\ UNCHANGED <<activity, startVars, owed, health, fails, tunnel>>

(* terminate() raises when the process exited while the early exit task was   *)
(* being cancelled; the exception leaves _stop_sidecars and stop()           *)
TerminateTunnel(c) ==
    /\ stops[c] = "tunnel"
    /\ IF tunnel \in {"on", "terminated"}
         THEN tunnel' = "terminated" /\ stops' = [stops EXCEPT ![c] = "wait"]
         ELSE UNCHANGED tunnel       /\ stops' = [stops EXCEPT ![c] = "failed"]
    /\ UNCHANGED <<state, activity, events, startVars, owed, health, monitor, fails>>

TunnelGone(c) ==
    /\ stops[c] = "wait"
    /\ tunnel' = "off"
    /\ AfterSidecars(c)
    /\ UNCHANGED <<activity, startVars, owed, health, monitor, fails>>

(* Mutant: _activity is forgotten without a call of destroy(). *)
ActivityForgotten(c) ==
    /\ stops[c] = "destroy"
    /\ activity' = 0
    /\ Finish(c)
    /\ UNCHANGED <<startVars, owed, health, sidecarVars>>

(* _stop_activity returned (destroy() was called, its errors are swallowed) *)
ActivityStopped(c) ==
    /\ stops[c] = "destroy"
    /\ owed' = owed \ {activity}
    /\ activity' = 0
    /\ Finish(c)
    /\ UNCHANGED <<startVars, health, sidecarVars>>

-----------------------------------------------------------------------------
StartStep ==
    \/ StartBegin \/ GotAgreement \/ PriorityTimeout \/ CreateActivity
    \/ SetupFails \/ Retry \/ StartFails \/ SetupDone
    \/ StartSidecars \/ TunnelSpawned \/ StartCancelled \/ CancelSwallowed

ProviderStep == ActivityDies \/ SshBreaks \/ TunnelExits

MonitorStep ==
    \/ ActivityCheckFails \/ SshCheckFails
    \/ \E m \in Monitors : MonitorCrashes(m) \/ HandleReport(m)

StopCall(c) == StopRefused(c) \/ StopBegins(c)

(* What stop() does once it is past its guard *)
StopStep(c) ==
    \/ StartTaskGone(c) \/ StopSidecars(c) \/ TerminateTunnel(c)
    \/ TunnelGone(c) \/ ActivityStopped(c)

Next ==
    \/ StartStep \/ ProviderStep \/ MonitorStep
    \/ \E c \in Callers : StopCall(c) \/ StopStep(c)

(* The event loop runs every task that can go on; deploying, the ssh checks    *)
(* and the http calls end.  Nothing makes a provider sign an agreement, an    *)
(* activity die or somebody ask for a stop.                                   *)
Fairness ==
    /\ WF_vars(StartBegin) /\ WF_vars(CreateActivity) /\ WF_vars(StartSidecars)
    /\ WF_vars(SetupDone \/ SetupFails)
    /\ WF_vars(task = "destroy" /\ (Retry \/ StartFails))
    /\ WF_vars(TunnelSpawned)
    /\ WF_vars(StartCancelled \/ CancelSwallowed)
    /\ WF_vars(ActivityCheckFails) /\ WF_vars(SshCheckFails)
    /\ \A m \in Monitors : WF_vars(HandleReport(m)) /\ WF_vars(StopCall(m))
    /\ \A c \in Callers : WF_vars(StopStep(c))

Spec == Init /\ [][Next]_vars /\ Fairness

-----------------------------------------------------------------------------
(* Properties. *)

(* However often start() retries, the node never has two activities on the    *)
(* market at once: the failed one is released before the next is asked for.  *)
AtMostOneActivity == \A a, b \in owed : a = b

(* A running node is backed by exactly the activity it will destroy later.    *)
RunningOwnsActivity == state = "running" => activity # 0 /\ owed = {activity}

(* The monitor tasks read node.activity after every await: stop() must not    *)
(* clear it under a monitor that still runs.                                  *)
MonitorsSeeActivity ==
    \A m \in Monitors : monitor[m] = "running" => activity # 0

(* Nothing the node started survives it: no start task that could bring it    *)
(* back, no monitor, no tunnel process.                                       *)
NothingOutlivesNode ==
    state = "terminated" =>
        /\ task = "done"
        /\ \A m \in Monitors : monitor[m] # "running"
        /\ tunnel \notin {"spawning", "on", "terminated"}

(* A node that has reached its activity gives it back when it terminates, and *)
(* so does one whose start failed by itself.                                  *)
GivesActivityBack ==
    [][state' = "terminated" /\ (activity # 0 \/ state = "pending") => owed' = {}]_vars

(* An activity that died is noticed and its node terminated as long as one of *)
(* the monitors is left: each notices alone, whichever of them has crashed.   *)
DeadActivityStopsNode ==
    (activity # 0 /\ health = "dead")
        ~> \/ state = "terminated"
           \/ \A m \in Monitors : monitor[m] = "crashed"

(* The node is what its cluster relies on.                                    *)
Lifecycle == INSTANCE NodeLifecycle WITH state <- state, events <- events
ImplementsLifecycle == Lifecycle!Spec
=============================================================================
