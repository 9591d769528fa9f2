-------------------------- MODULE ClusterNodeProofs --------------------------
(***************************************************************************)
(* Proofs about ClusterNode, for any number of activities and retries, for *)
(* worker and head nodes, with and without swallowed cancellations.        *)
(***************************************************************************)
EXTENDS ClusterNode, TLAPS

(* What the start task holds at each of its awaits: nothing before there is   *)
(* an activity, the activity it is setting up, then what the node keeps.     *)
Attempts == {"scheduled", "priority", "agreement", "create"}
Setups   == {"setup", "destroy"}

StartInv ==
    /\ task \in Attempts \cup Setups => activity = 0
    /\ task \in Attempts => owed = {}
    /\ task \in Setups => held # 0 /\ owed = {held}
    /\ task \in {"sidecars", "tunnel"} => activity # 0
    /\ task \in Attempts => created < MaxActivities
    /\ tunnel = "spawning" => task = "tunnel"
    /\ task \notin {"tunnel", "done"} => tunnel = "off"

(* The monitors start last, and once *)
MonitorInv ==
    /\ task \notin {"tunnel", "done"} =>
         fails = 0 /\ \A m \in Monitors : monitor[m] = "off"
    /\ monitor["ssh"] = "running" => fails < MaxFails

(* A caller of stop() that is past the wait for the start task *)
PastStart(c) == stops[c] \in {"sidecars", "tunnel", "wait", "destroy"}

StopInv ==
    \A c \in Callers :
        /\ PastStart(c) => task = "done"
        /\ stops[c] \in {"tunnel", "wait", "destroy"} =>
             \A m \in Monitors : monitor[m] # "running"
        /\ stops[c] = "destroy" => tunnel \in {"off", "exited"}

KeptInv == activity # 0 => owed = {activity}

(* An activity is kept while the node runs *)
RunningInv == state = "running" => activity # 0

(* The three properties are part of their own induction *)
ControlInv ==
    /\ StartInv /\ MonitorInv /\ StopInv /\ KeptInv /\ RunningInv
    /\ AtMostOneActivity /\ MonitorsSeeActivity /\ NothingOutlivesNode

IInv ==
    /\ TypeOK
    /\ ControlInv


-----------------------------------------------------------------------------
(* Type correctness: every variable keeps its type, and no start() creates    *)
(* more activities than the bound.                                           *)
LEMMA TypeStep ==
    ASSUME TypeOK, StartInv, MonitorInv, [Next]_vars
    PROVE  TypeOK'
<1> USE BoundsAssumption, FlagsAssumption
<1> USE DEF TypeOK, NodeStates, Monitors, Callers, Activities, TaskStates,
            MonitorStates, TunnelStates, HealthStates, StopStates,
            startVars, sidecarVars
<1>1. CASE StartBegin
  BY <1>1 DEF StartBegin, StartAt, FirstAgreement
<1>2. CASE GotAgreement
  BY <1>2 DEF GotAgreement, StartAt
<1>3. CASE PriorityTimeout
  BY <1>3 DEF PriorityTimeout, StartAt
<1>4. CASE CreateActivity
  BY <1>4 DEF CreateActivity, StartAt, StartInv, Attempts
<1>5. CASE SetupFails
  BY <1>5 DEF SetupFails, StartAt
<1>6. CASE Retry
  BY <1>6 DEF Retry, AttemptFails, StartAt, FirstAgreement, Released
<1>7. CASE StartFails
  BY <1>7 DEF StartFails, AttemptFails, StartAt, Released
<1>8. CASE SetupDone
  BY <1>8 DEF SetupDone, StartAt
<1>9. CASE StartSidecars
  BY <1>9 DEF StartSidecars, StartAt
<1>10. CASE TunnelSpawned
  BY <1>10 DEF TunnelSpawned, StartAt
<1>11. CASE StartCancelled
  <2>1. owed' \subseteq Activities /\ created' \in 0..MaxActivities
    <3>1. CASE UNCHANGED <<owed, created>>
      BY <3>1
    <3>2. CASE task = "create" /\ created' = created + 1
               /\ owed' = owed \cup {created + 1}
      BY <3>2 DEF StartInv, Attempts
    <3>3. CASE task = "destroy" /\ owed' = Released /\ UNCHANGED created
      BY <3>3 DEF Released
    <3> QED
      BY <1>11, <3>1, <3>2, <3>3 DEF StartCancelled
  <2>2. UNCHANGED <<state, activity, events, health, monitor, fails, stops>>
    BY <1>11 DEF StartCancelled
  <2>3. cancelling' \in BOOLEAN
    BY <1>11, Zenon DEF StartCancelled
  <2>4. task' \in TaskStates /\ held' \in 0..MaxActivities
    BY <1>11 DEF StartCancelled
  <2>5. tunnel' \in TunnelStates
    BY <1>11 DEF StartCancelled
  <2> QED
    BY <2>1, <2>2, <2>3, <2>4, <2>5
<1>12. CASE CancelSwallowed
  BY <1>12 DEF CancelSwallowed
<1>13. CASE ActivityDies
  BY <1>13 DEF ActivityDies
<1>14. CASE SshBreaks
  BY <1>14 DEF SshBreaks
<1>15. CASE TunnelExits
  BY <1>15 DEF TunnelExits
<1>16. CASE ActivityCheckFails
  BY <1>16 DEF ActivityCheckFails, Report
<1>17. ASSUME NEW m \in Monitors, MonitorCrashes(m) PROVE TypeOK'
  BY <1>17 DEF MonitorCrashes
<1>18. CASE SshCheckFails
  <2>1. fails' \in 0..MaxFails
    BY <1>18 DEF SshCheckFails, MonitorInv
  <2> QED
    BY <1>18, <2>1 DEF SshCheckFails, Report
<1>19. ASSUME NEW m \in Monitors, HandleReport(m) PROVE TypeOK'
  BY <1>19 DEF HandleReport
<1>20. ASSUME NEW c \in Callers, StopRefused(c) PROVE TypeOK'
  BY <1>20 DEF StopRefused, ReadyToStop, Stopped
<1>21. ASSUME NEW c \in Callers, StopBegins(c) PROVE TypeOK'
  BY <1>21 DEF StopBegins, ReadyToStop, Stopped
<1>22. ASSUME NEW c \in Callers, StartTaskGone(c) PROVE TypeOK'
  BY <1>22 DEF StartTaskGone
<1>23. ASSUME NEW c \in Callers, StopSidecars(c) PROVE TypeOK'
  BY <1>23 DEF StopSidecars, AfterSidecars, Finish
<1>24. ASSUME NEW c \in Callers, TerminateTunnel(c) PROVE TypeOK'
  BY <1>24 DEF TerminateTunnel
<1>25. ASSUME NEW c \in Callers, TunnelGone(c) PROVE TypeOK'
  BY <1>25 DEF TunnelGone, AfterSidecars, Finish
<1>26. ASSUME NEW c \in Callers, ActivityStopped(c) PROVE TypeOK'
  BY <1>26 DEF ActivityStopped, Finish
<1>27. CASE UNCHANGED vars
  BY <1>27 DEF vars
<1> QED
  BY <1>1, <1>2, <1>3, <1>4, <1>5, <1>6, <1>7, <1>8, <1>9, <1>10, <1>11, <1>12, <1>13, <1>14, <1>15, <1>16, <1>17, <1>18, <1>19, <1>20, <1>21, <1>22, <1>23, <1>24, <1>25, <1>26, <1>27
     DEF Next, StartStep, ProviderStep, MonitorStep, StopCall, StopStep

-----------------------------------------------------------------------------
(* Every action preserves what the tasks of the node rely on: the start task   *)
(* ends before stop() goes on, and the sidecars before the activity.         *)
LEMMA ControlStep ==
    ASSUME TypeOK, ControlInv, [Next]_vars
    PROVE  ControlInv'
<1> USE BoundsAssumption, FlagsAssumption
<1> USE DEF TypeOK, NodeStates, Monitors, Callers, Activities, TaskStates,
            MonitorStates, TunnelStates, HealthStates, StopStates,
            startVars, sidecarVars, ControlInv, StartInv, MonitorInv, StopInv, KeptInv,
            RunningInv, AtMostOneActivity, MonitorsSeeActivity, NothingOutlivesNode,
            Attempts, Setups, PastStart
<1>1. CASE StartBegin
  BY <1>1 DEF StartBegin, StartAt, FirstAgreement
<1>2. CASE GotAgreement
  BY <1>2 DEF GotAgreement, StartAt
<1>3. CASE PriorityTimeout
  BY <1>3 DEF PriorityTimeout, StartAt
<1>4. CASE CreateActivity
  <2>1. owed = {} /\ activity = 0 /\ task' = "setup"
    BY <1>4 DEF CreateActivity, StartAt
  <2>2. held' = created + 1 /\ owed' = owed \cup {held'} /\ held' # 0
    BY <1>4 DEF CreateActivity
  <2>3. owed' = {held'}
    BY <2>1, <2>2
  <2>4. activity' = 0 /\ tunnel' = "off"
    BY <1>4, <2>1 DEF CreateActivity, StartAt
  <2>5. StartInv'
    BY <2>1, <2>2, <2>3, <2>4
  <2>6. AtMostOneActivity'
    BY <2>3
  <2> QED
    BY <1>4, <2>1, <2>5, <2>6 DEF CreateActivity, StartAt
<1>5. CASE SetupFails
  BY <1>5 DEF SetupFails, StartAt
<1>6. CASE Retry
  BY <1>6 DEF Retry, AttemptFails, StartAt, FirstAgreement, Released
<1>7. CASE StartFails
  BY <1>7 DEF StartFails, AttemptFails, StartAt, Released
<1>8. CASE SetupDone
  BY <1>8 DEF SetupDone, StartAt
<1>9. CASE StartSidecars
  BY <1>9 DEF StartSidecars, StartAt
<1>10. CASE TunnelSpawned
  BY <1>10 DEF TunnelSpawned, StartAt
<1>11. CASE StartCancelled
  BY <1>11 DEF StartCancelled, Released
<1>12. CASE CancelSwallowed
  BY <1>12 DEF CancelSwallowed
<1>13. CASE ActivityDies
  BY <1>13 DEF ActivityDies
<1>14. CASE SshBreaks
  BY <1>14 DEF SshBreaks
<1>15. CASE TunnelExits
  BY <1>15 DEF TunnelExits
<1>16. CASE ActivityCheckFails
  BY <1>16 DEF ActivityCheckFails, Report
<1>17. ASSUME NEW m \in Monitors, MonitorCrashes(m) PROVE ControlInv'
  BY <1>17 DEF MonitorCrashes
<1>18. CASE SshCheckFails
  BY <1>18 DEF SshCheckFails, Report
<1>19. ASSUME NEW m \in Monitors, HandleReport(m) PROVE ControlInv'
  BY <1>19 DEF HandleReport
<1>20. ASSUME NEW c \in Callers, StopRefused(c) PROVE ControlInv'
  BY <1>20 DEF StopRefused, ReadyToStop, Stopped
<1>21. ASSUME NEW c \in Callers, StopBegins(c) PROVE ControlInv'
  BY <1>21 DEF StopBegins, ReadyToStop, Stopped
<1>22. ASSUME NEW c \in Callers, StartTaskGone(c) PROVE ControlInv'
  BY <1>22 DEF StartTaskGone
<1>23. ASSUME NEW c \in Callers, StopSidecars(c) PROVE ControlInv'
  BY <1>23 DEF StopSidecars, AfterSidecars, Finish
<1>24. ASSUME NEW c \in Callers, TerminateTunnel(c) PROVE ControlInv'
  BY <1>24 DEF TerminateTunnel
<1>25. ASSUME NEW c \in Callers, TunnelGone(c) PROVE ControlInv'
  BY <1>25 DEF TunnelGone, AfterSidecars, Finish
<1>26. ASSUME NEW c \in Callers, ActivityStopped(c) PROVE ControlInv'
  BY <1>26 DEF ActivityStopped, Finish
<1>27. CASE UNCHANGED vars
  BY <1>27 DEF vars
<1> QED
  BY <1>1, <1>2, <1>3, <1>4, <1>5, <1>6, <1>7, <1>8, <1>9, <1>10, <1>11, <1>12, <1>13, <1>14, <1>15, <1>16, <1>17, <1>18, <1>19, <1>20, <1>21, <1>22, <1>23, <1>24, <1>25, <1>26, <1>27
     DEF Next, StartStep, ProviderStep, MonitorStep, StopCall, StopStep

-----------------------------------------------------------------------------
LEMMA InvInit == Init => IInv
<1> SUFFICES ASSUME Init PROVE IInv
  OBVIOUS
<1> USE DEF Init, Monitors, Callers
<1>1. TypeOK
  <2>1. monitor \in [Monitors -> MonitorStates] /\ stops \in [Callers -> StopStates]
    BY DEF MonitorStates, StopStates
  <2>2. /\ activity \in 0..MaxActivities /\ held \in 0..MaxActivities
        /\ created \in 0..MaxActivities /\ fails \in 0..MaxFails
        /\ owed \subseteq Activities /\ events \in Nat
    BY BoundsAssumption
  <2>3. /\ state \in NodeStates /\ task \in TaskStates /\ cancelling \in BOOLEAN
        /\ tunnel \in TunnelStates /\ health \in HealthStates
    BY DEF NodeStates, TaskStates, TunnelStates, HealthStates
  <2> QED
    BY <2>1, <2>2, <2>3 DEF TypeOK
<1>2. StartInv /\ MonitorInv
  BY BoundsAssumption DEF StartInv, MonitorInv, Attempts, Setups
<1>3. StopInv
  BY DEF StopInv, PastStart
<1>4. /\ KeptInv /\ RunningInv
      /\ AtMostOneActivity /\ MonitorsSeeActivity /\ NothingOutlivesNode
  BY DEF KeptInv, RunningInv, AtMostOneActivity, MonitorsSeeActivity,
         NothingOutlivesNode
<1> QED
  BY <1>1, <1>2, <1>3, <1>4 DEF IInv, ControlInv

LEMMA InvStep == IInv /\ [Next]_vars => IInv'
  BY TypeStep, ControlStep DEF IInv, ControlInv

THEOREM Invariance == Spec => []IInv
  BY InvInit, InvStep, PTL DEF Spec

(* Every variable keeps its type; in particular fails_count stays within the  *)
(* retry count and start() within the activities it may create.              *)
THEOREM TypeCorrect == Spec => []TypeOK
<1>1. IInv => TypeOK
  BY DEF IInv
<1> QED
  BY Invariance, <1>1, PTL

(* A node never has two activities on the market, however its start is retried,*)
(* cancelled, or survives a cancellation.                                     *)
THEOREM OneActivity == Spec => []AtMostOneActivity
<1>1. IInv => AtMostOneActivity
  BY DEF IInv, ControlInv
<1> QED
  BY Invariance, <1>1, PTL

(* A running node is backed by exactly the activity it will destroy.          *)
THEOREM RunningOwns == Spec => []RunningOwnsActivity
<1>1. IInv => RunningOwnsActivity
  BY DEF IInv, ControlInv, RunningInv, KeptInv, RunningOwnsActivity
<1> QED
  BY Invariance, <1>1, PTL

(* No monitor task runs without the activity it reads.                        *)
THEOREM MonitorsSafe == Spec => []MonitorsSeeActivity
<1>1. IInv => MonitorsSeeActivity
  BY DEF IInv, ControlInv
<1> QED
  BY Invariance, <1>1, PTL

(* A terminated node has no start task, monitor or tunnel left running.       *)
THEOREM NothingOutlives == Spec => []NothingOutlivesNode
<1>1. IInv => NothingOutlivesNode
  BY DEF IInv, ControlInv
<1> QED
  BY Invariance, <1>1, PTL

-----------------------------------------------------------------------------
(* Where the state of the node and its tasks stand. *)
PendingInv ==
    /\ cancelling => state # "pending" /\ task # "done"
    /\ task \in {"sidecars", "tunnel", "done"} => state # "pending"
    /\ state = "terminated" => activity = 0

LEMMA PendingStep ==
    ASSUME IInv, PendingInv, [Next]_vars
    PROVE  PendingInv'
<1> USE DEF PendingInv, IInv, ControlInv, StartInv, StopInv, NothingOutlivesNode,
            PastStart, Attempts, Setups, startVars, sidecarVars
<1>1. CASE StartBegin
  BY <1>1 DEF StartBegin, StartAt, FirstAgreement
<1>2. CASE GotAgreement
  BY <1>2 DEF GotAgreement, StartAt
<1>3. CASE PriorityTimeout
  BY <1>3 DEF PriorityTimeout, StartAt
<1>4. CASE CreateActivity
  BY <1>4 DEF CreateActivity, StartAt
<1>5. CASE SetupFails
  BY <1>5 DEF SetupFails, StartAt
<1>6. CASE Retry
  BY <1>6 DEF Retry, AttemptFails, StartAt, FirstAgreement, Released
<1>7. CASE StartFails
  BY <1>7 DEF StartFails, AttemptFails, StartAt, Released
<1>8. CASE SetupDone
  BY <1>8 DEF SetupDone, StartAt
<1>9. CASE StartSidecars
  BY <1>9 DEF StartSidecars, StartAt
<1>10. CASE TunnelSpawned
  BY <1>10 DEF TunnelSpawned, StartAt
<1>11. CASE StartCancelled
  BY <1>11 DEF StartCancelled, Released
<1>12. CASE CancelSwallowed
  BY <1>12 DEF CancelSwallowed
<1>13. CASE ActivityDies
  BY <1>13 DEF ActivityDies
<1>14. CASE SshBreaks
  BY <1>14 DEF SshBreaks
<1>15. CASE TunnelExits
  BY <1>15 DEF TunnelExits
<1>16. CASE ActivityCheckFails
  BY <1>16 DEF ActivityCheckFails, Report
<1>17. ASSUME NEW m \in Monitors, MonitorCrashes(m) PROVE PendingInv'
  BY <1>17 DEF MonitorCrashes
<1>18. CASE SshCheckFails
  BY <1>18 DEF SshCheckFails, Report
<1>19. ASSUME NEW m \in Monitors, HandleReport(m) PROVE PendingInv'
  BY <1>19 DEF HandleReport
<1>20. ASSUME NEW c \in Callers, StopRefused(c) PROVE PendingInv'
  BY <1>20 DEF StopRefused, ReadyToStop, Stopped
<1>21. ASSUME NEW c \in Callers, StopBegins(c) PROVE PendingInv'
  BY <1>21 DEF StopBegins, ReadyToStop, Stopped
<1>22. ASSUME NEW c \in Callers, StartTaskGone(c) PROVE PendingInv'
  BY <1>22 DEF StartTaskGone
<1>23. ASSUME NEW c \in Callers, StopSidecars(c) PROVE PendingInv'
  BY <1>23 DEF StopSidecars, AfterSidecars, Finish
<1>24. ASSUME NEW c \in Callers, TerminateTunnel(c) PROVE PendingInv'
  BY <1>24 DEF TerminateTunnel
<1>25. ASSUME NEW c \in Callers, TunnelGone(c) PROVE PendingInv'
  BY <1>25 DEF TunnelGone, AfterSidecars, Finish
<1>26. ASSUME NEW c \in Callers, ActivityStopped(c) PROVE PendingInv'
  BY <1>26 DEF ActivityStopped, Finish
<1>27. CASE UNCHANGED vars
  BY <1>27 DEF vars
<1> QED
  BY <1>1, <1>2, <1>3, <1>4, <1>5, <1>6, <1>7, <1>8, <1>9, <1>10, <1>11, <1>12, <1>13, <1>14, <1>15, <1>16, <1>17, <1>18, <1>19, <1>20, <1>21, <1>22, <1>23, <1>24, <1>25, <1>26, <1>27
     DEF Next, StartStep, ProviderStep, MonitorStep, StopCall, StopStep

(* A step that terminates a node which has its activity, or which is still     *)
(* pending, leaves nothing owed.                                             *)
LEMMA GiveBackStep ==
    ASSUME IInv, PendingInv, [Next]_vars,
           state' = "terminated", activity # 0 \/ state = "pending"
    PROVE  owed' = {}
<1> USE DEF PendingInv, IInv, ControlInv, StartInv, StopInv, KeptInv,
            PastStart, Attempts, Setups, startVars, sidecarVars
<1>1. state # "terminated"
  OBVIOUS
<1>2. CASE StartFails
  <2>1. task = "destroy" => owed = {held}
    OBVIOUS
  <2>2. task # "destroy" => owed = {}
    BY <1>2 DEF StartFails, AttemptFails, StartAt
  <2> QED
    BY <1>2, <2>1, <2>2 DEF StartFails, Released
<1>3. ASSUME NEW c \in Callers, StopSidecars(c) \/ TunnelGone(c) PROVE FALSE
  BY <1>1, <1>3 DEF StopSidecars, TunnelGone, AfterSidecars
<1>4. ASSUME NEW c \in Callers, ActivityStopped(c) PROVE owed' = {}
  BY <1>4 DEF ActivityStopped
<1> QED
  BY <1>1, <1>2, <1>3, <1>4
     DEF Next, StartStep, ProviderStep, MonitorStep, StopCall, StopStep, vars,
         StartBegin, GotAgreement, PriorityTimeout, CreateActivity, SetupFails,
         Retry, SetupDone, StartSidecars, TunnelSpawned, StartCancelled,
         CancelSwallowed, ActivityDies, SshBreaks, TunnelExits,
         ActivityCheckFails, MonitorCrashes, SshCheckFails, HandleReport,
         StopRefused, StopBegins, StartTaskGone, TerminateTunnel

(* A node that reached its activity destroys it before it terminates, whoever  *)
(* stops it and however often, and a start that fails leaves nothing behind.  *)
THEOREM GivesBack == Spec => GivesActivityBack
<1>1. Init => PendingInv
  BY DEF Init, PendingInv
<1>2. IInv /\ PendingInv /\ [Next]_vars => PendingInv'
  BY PendingStep
<1>3. IInv /\ PendingInv /\ [Next]_vars =>
        [state' = "terminated" /\ (activity # 0 \/ state = "pending") => owed' = {}]_vars
  BY GiveBackStep
<1> QED
  BY Invariance, <1>1, <1>2, <1>3, PTL DEF Spec, GivesActivityBack

-----------------------------------------------------------------------------
(* Where cancellations cannot be swallowed, one caller at a time is past the   *)
(* guard of stop(), and the state of the node says so.                       *)
InStop(c) == PastStart(c) \/ stops[c] = "cancelling"

OneStopInv ==
    /\ task \in Attempts \cup Setups /\ ~cancelling => state = "pending"
    /\ cancelling => state = "terminating"
    /\ \A c \in Callers :
         InStop(c) => /\ state = "terminating"
                      /\ task = "done" \/ cancelling
                      /\ \A d \in Callers : InStop(d) => d = c

StepMaps == OneStopInv' /\ [Lifecycle!Next]_(Lifecycle!vars)

LEMMA LifecycleStep ==
    ASSUME ~SwallowCancel, IInv, PendingInv, OneStopInv, [Next]_vars
    PROVE  StepMaps
<1> USE DEF StepMaps, OneStopInv, InStop, PastStart, PendingInv, IInv, ControlInv,
            StopInv, TypeOK, NodeStates, Attempts, Setups, startVars, sidecarVars,
            TaskStates, StopStates, Callers,
            Lifecycle!Next, Lifecycle!vars, Lifecycle!Run, Lifecycle!FailStart,
            Lifecycle!BeginStop, Lifecycle!EndStop
<1>1. CASE StartBegin
  BY <1>1 DEF StartBegin, StartAt, FirstAgreement
<1>2. CASE GotAgreement
  BY <1>2 DEF GotAgreement, StartAt
<1>3. CASE PriorityTimeout
  BY <1>3 DEF PriorityTimeout, StartAt
<1>4. CASE CreateActivity
  BY <1>4 DEF CreateActivity, StartAt
<1>5. CASE SetupFails
  BY <1>5 DEF SetupFails, StartAt
<1>6. CASE Retry
  BY <1>6 DEF Retry, AttemptFails, StartAt, FirstAgreement, Released
<1>7. CASE StartFails
  BY <1>7 DEF StartFails, AttemptFails, StartAt, Released
<1>8. CASE SetupDone
  BY <1>8 DEF SetupDone, StartAt
<1>9. CASE StartSidecars
  BY <1>9 DEF StartSidecars, StartAt
<1>10. CASE TunnelSpawned
  BY <1>10 DEF TunnelSpawned, StartAt
<1>11. CASE StartCancelled
  BY <1>11 DEF StartCancelled, Released
<1>12. CASE CancelSwallowed
  BY <1>12 DEF CancelSwallowed
<1>13. CASE ActivityDies
  BY <1>13 DEF ActivityDies
<1>14. CASE SshBreaks
  BY <1>14 DEF SshBreaks
<1>15. CASE TunnelExits
  BY <1>15 DEF TunnelExits
<1>16. CASE ActivityCheckFails
  BY <1>16 DEF ActivityCheckFails, Report
<1>17. ASSUME NEW m \in Monitors, MonitorCrashes(m) PROVE StepMaps
  BY <1>17 DEF MonitorCrashes
<1>18. CASE SshCheckFails
  BY <1>18 DEF SshCheckFails, Report
<1>19. ASSUME NEW m \in Monitors, HandleReport(m) PROVE StepMaps
  BY <1>19 DEF HandleReport
<1>20. ASSUME NEW c \in Callers, StopRefused(c) PROVE StepMaps
  BY <1>20 DEF StopRefused, ReadyToStop, Stopped
<1>21. ASSUME NEW c \in Callers, StopBegins(c) PROVE StepMaps
  BY <1>21 DEF StopBegins, ReadyToStop, Stopped
<1>22. ASSUME NEW c \in Callers, StartTaskGone(c) PROVE StepMaps
  BY <1>22 DEF StartTaskGone
<1>23. ASSUME NEW c \in Callers, StopSidecars(c) PROVE StepMaps
  BY <1>23 DEF StopSidecars, AfterSidecars, Finish
<1>24. ASSUME NEW c \in Callers, TerminateTunnel(c) PROVE StepMaps
  BY <1>24 DEF TerminateTunnel
<1>25. ASSUME NEW c \in Callers, TunnelGone(c) PROVE StepMaps
  BY <1>25 DEF TunnelGone, AfterSidecars, Finish
<1>26. ASSUME NEW c \in Callers, ActivityStopped(c) PROVE StepMaps
  BY <1>26 DEF ActivityStopped, Finish
<1>27. CASE UNCHANGED vars
  BY <1>27 DEF vars
<1> QED
  BY <1>1, <1>2, <1>3, <1>4, <1>5, <1>6, <1>7, <1>8, <1>9, <1>10, <1>11, <1>12, <1>13, <1>14, <1>15, <1>16, <1>17, <1>18, <1>19, <1>20, <1>21, <1>22, <1>23, <1>24, <1>25, <1>26, <1>27
     DEF Next, StartStep, ProviderStep, MonitorStep, StopCall, StopStep

(* Where cancellations cannot be swallowed, every step of a node is a step of  *)
(* its abstract life cycle or changes nothing a cluster can see.              *)
THEOREM Refinement ==
    ASSUME ~SwallowCancel
    PROVE  Spec => Lifecycle!Init /\ [][Lifecycle!Next]_(Lifecycle!vars)
<1>1. Init => PendingInv /\ OneStopInv /\ Lifecycle!Init
  BY DEF Init, PendingInv, OneStopInv, InStop, PastStart, Callers, Monitors,
         Lifecycle!Init
<1>2. IInv /\ PendingInv /\ OneStopInv /\ [Next]_vars =>
        PendingInv' /\ OneStopInv' /\ [Lifecycle!Next]_(Lifecycle!vars)
  BY PendingStep, LifecycleStep DEF StepMaps
<1> QED
  BY Invariance, <1>1, <1>2, PTL DEF Spec
=============================================================================
