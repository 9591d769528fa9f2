----------------------------- MODULE Webserver -----------------------------
(***************************************************************************)
(* The web server as a process: the commands that start and stop it        *)
(* (ray_on_golem/ctl/ctl.py, server/main.py, and the provider's            *)
(* _ensure_webserver_and_get_client), the server they act on from its boot *)
(* to the end of its clean-up contexts, and the yagna daemon it may launch *)
(* (server/services/yagna.py).                                             *)
(*                                                                         *)
(* Commands and servers are separate processes.  They share the port, the  *)
(* pid file of one data directory and the API of yagna, and read each of   *)
(* them in one step and act on it in another.  A server process, and the   *)
(* yagna it launches, is named after the start command that spawned it;    *)
(* the yagna named None is one the user runs.  What a server does with its *)
(* clusters while it shuts down is the subject of module Shutdown.         *)
(***************************************************************************)
EXTENDS FiniteSets

CONSTANTS
    Starts,         \* the commands that start a server (`start`, `ray up`)
    Stops,          \* the `stop` commands
    Unstable,       \* the daemons that may exit once they serve
    None

ASSUME CommandsAssumption == Starts \cap Stops = {} /\ None \notin Starts \cup Stops

VARIABLES
    command,        \* where each command is
    seen,           \* the commands whose wait has seen the process: cnt > 0
    victim,         \* the process a stop command offers to kill
    pid,            \* the process named by the pid file
    port,           \* the server that listens
    server,         \* where each server process is
    shutting,       \* the servers with app["shutting_down"]
    busy,           \* the servers that run a node
    yagna,          \* the yagna processes
    disorder        \* history: commands overlapped, one gave up waiting,
                    \* or a server was terminated by a signal

commandVars == <<command, seen, victim>>
serverVars  == <<server, port, shutting, busy>>
vars == <<commandVars, pid, serverVars, yagna, disorder>>

Commands == Starts \cup Stops
Final    == {"done", "failed"}
Ended    == {"stopped", "died", "killed"}

TypeOK ==
    /\ command \in [Commands -> {"idle", "waitPort", "waitProc", "clear", "spawn", "poll",
                                 "post", "confirm", "force", "look", "kill"} \cup Final]
    /\ seen \subseteq Commands
    /\ victim \in [Stops -> Starts \cup {None}]
    /\ pid \in Starts \cup {None}
    /\ port \in Starts \cup {None}
    /\ server \in [Starts -> {"none", "boot", "launch", "golem", "serving", "closing",
                              "yagna"} \cup Ended]
    /\ shutting \subseteq Starts
    /\ busy \subseteq Starts
    /\ yagna \in [Starts \cup {None} -> {"none", "booting", "up", "gone"}]
    /\ disorder \in BOOLEAN

Init ==
    /\ command = [c \in Commands |-> "idle"]
    /\ seen = {}
    /\ victim = [k \in Stops |-> None]
    /\ pid = None
    /\ port = None
    /\ server = [s \in Starts |-> "none"]
    /\ shutting = {}
    /\ busy = {}
    /\ \E external \in {"none", "up"} :
         yagna = [y \in Starts \cup {None} |-> IF y = None THEN external ELSE "none"]
    /\ disorder = FALSE

-----------------------------------------------------------------------------
(* What a process sees of the others. *)

(* is_webserver_serviceable is True; it is None when nobody listens *)
Serviceable == port # None /\ port \notin shutting

Alive(s) == s \in Starts /\ server[s] \notin Ended \cup {"none"}

(* Mutant: a process counts while it listens only. *)
ProcessListening == IF pid # None /\ pid = port THEN pid ELSE None

(* get_process_info *)
ProcessInfo == IF pid # None /\ Alive(pid) THEN pid ELSE None

(* _check_if_yagna_is_running *)
ApiUp == \E y \in DOMAIN yagna : yagna[y] = "up"

Goto(c, label) == command' = [command EXCEPT ![c] = label]

Begin(c, label) ==
    /\ command[c] = "idle"
    /\ Goto(c, label)
    /\ disorder' = (disorder \/ \E d \in Commands : command[d] \notin Final \cup {"idle"})
    /\ UNCHANGED <<seen, victim, pid, serverVars, yagna>>

(* A command goes on without having changed anything else *)
Continue(c, from, to) ==
    /\ command[c] = from
    /\ Goto(c, to)
    /\ UNCHANGED <<seen, victim, pid, serverVars, yagna, disorder>>

(* It has waited long enough *)
GiveUp(c, from, to) ==
    /\ command[c] = from
    /\ Goto(c, to)
    /\ disorder' = TRUE
    /\ UNCHANGED <<seen, victim, pid, serverVars, yagna>>

-----------------------------------------------------------------------------
(* RayOnGolemCtl.wait_for_stop, for both kinds of command.  Its timeouts are *)
(* errors: fatal for a start command, caught by `stop`.                      *)

AfterWait(c)    == IF c \in Starts THEN "spawn" ELSE "look"
AfterTimeout(c) == IF c \in Starts THEN "failed" ELSE "look"

PortFreed(c) ==
    /\ command[c] = "waitPort"
    /\ port = None
    /\ Goto(c, "waitProc")
    /\ seen' = seen \ {c}
    /\ UNCHANGED <<victim, pid, serverVars, yagna, disorder>>

(* Mutant: the deadline is looked at only while the server is shutting down. *)
PortTimeoutShutting(c) == port \in shutting /\ GiveUp(c, "waitPort", AfterTimeout(c))

PortTimeout(c) == port # None /\ GiveUp(c, "waitPort", AfterTimeout(c))

ProcessSeen(c) ==
    /\ command[c] = "waitProc"
    /\ ProcessInfo # None
    /\ c \notin seen
    /\ seen' = seen \cup {c}
    /\ UNCHANGED <<command, victim, pid, serverVars, yagna, disorder>>

ProcessGone(c) ==
    /\ ProcessInfo = None
    /\ Continue(c, "waitProc", IF c \in seen THEN "clear" ELSE AfterWait(c))

ProcessTimeout(c) == c \in seen /\ ProcessInfo # None /\ GiveUp(c, "waitProc", AfterTimeout(c))

(* clear_pid: whatever the file names by now *)
ClearPid(c) ==
    /\ command[c] = "clear"
    /\ Goto(c, AfterWait(c))
    /\ pid' = None
    /\ UNCHANGED <<seen, victim, serverVars, yagna, disorder>>

-----------------------------------------------------------------------------
(* RayOnGolemCtl.start_webserver *)

StartBegins(s) ==
    Begin(s, IF port = None THEN "spawn"
             ELSE IF port \in shutting THEN "waitPort" ELSE "done")

(* Mutant: the pid is not saved. *)
SpawnUnrecorded(s) ==
    /\ command[s] = "spawn"
    /\ Goto(s, "poll")
    /\ server' = [server EXCEPT ![s] = "boot"]
    /\ UNCHANGED <<seen, victim, pid, port, shutting, busy, yagna, disorder>>

(* Popen and _save_pid *)
Spawn(s) ==
    /\ command[s] = "spawn"
    /\ Goto(s, "poll")
    /\ server' = [server EXCEPT ![s] = "boot"]
    /\ pid' = s
    /\ UNCHANGED <<seen, victim, port, shutting, busy, yagna, disorder>>

(* Any server on the port will do *)
ServerReady(s)  == Serviceable /\ Continue(s, "poll", "done")
ServerExited(s) == ~Alive(s) /\ Continue(s, "poll", "failed")
StartTimeout(s) == GiveUp(s, "poll", "failed")

-----------------------------------------------------------------------------
(* main.stop, with RayOnGolemCtl.stop_webserver *)

StopBegins(k) == Begin(k, IF Serviceable THEN "post" ELSE "waitPort")

(* The handler of the server that listens by now *)
RequestShutdown(k, next) ==
    /\ Goto(k, next)
    /\ shutting' = shutting \cup {port}
    /\ UNCHANGED <<seen, victim, pid, server, port, busy, yagna, disorder>>

Refused(k, label) == port = None /\ Continue(k, label, "failed")

PostShutdown(k) ==
    \/ Refused(k, "post")
    \/ port \in busy /\ Continue(k, "post", "confirm")
    \/ command[k] = "post" /\ port # None /\ port \notin busy /\ RequestShutdown(k, "waitPort")

UserCancels(k) == Continue(k, "confirm", "done")
UserForces(k)  == Continue(k, "confirm", IF Serviceable THEN "force" ELSE "waitPort")

PostForced(k) ==
    \/ Refused(k, "force")
    \/ command[k] = "force" /\ port # None /\ RequestShutdown(k, "waitPort")

ShutdownCompleted(k) == ProcessInfo = None /\ Continue(k, "look", "done")

StillRunning(k) ==
    /\ command[k] = "look"
    /\ ProcessInfo # None
    /\ victim' = [victim EXCEPT ![k] = ProcessInfo]
    /\ Goto(k, "kill")
    /\ UNCHANGED <<seen, pid, serverVars, yagna, disorder>>

UserDeclines(k) == Continue(k, "kill", "done")

(* The process found then, and the pid file as it is now *)
Kill(k) ==
    /\ command[k] = "kill"
    /\ Goto(k, "done")
    /\ LET v == victim[k] IN
         /\ server' = IF Alive(v) THEN [server EXCEPT ![v] = "killed"] ELSE server
         /\ port' = IF port = v THEN None ELSE port
         /\ busy' = busy \ {v}
    /\ pid' = None
    /\ UNCHANGED <<seen, victim, shutting, yagna, disorder>>

-----------------------------------------------------------------------------
(* The server: main.main and its clean-up contexts.  An error while they are *)
(* set up ends the process at once, and nothing that was set up is undone.   *)

Move(s, from, to) ==
    /\ server[s] = from
    /\ server' = [server EXCEPT ![s] = to]
    /\ UNCHANGED <<commandVars, pid, shutting, disorder>>

(* YagnaService.start, after reputation_service_ctx *)
CheckYagna(s) ==
    /\ Move(s, "boot", IF ApiUp THEN "golem" ELSE "launch")
    /\ yagna' = IF ApiUp THEN yagna ELSE [yagna EXCEPT ![s] = "booting"]
    /\ UNCHANGED <<port, busy>>

(* The API answers, whoever serves it *)
YagnaStarted(s) ==
    /\ ApiUp
    /\ yagna[s] # "gone"
    /\ Move(s, "launch", "golem")
    /\ UNCHANGED <<port, busy, yagna>>

(* Migrations, yagna's early exit or its start timeout, the app key, golem *)
SetupFails(s) ==
    /\ \E from \in {"boot", "launch", "golem"} : Move(s, from, "died")
    /\ UNCHANGED <<port, busy, yagna>>

(* GolemService.init is through.  A taken port is an error too, but the       *)
(* contexts are cleaned up after it.                                         *)
Bind(s) ==
    /\ ApiUp
    /\ Move(s, "golem", IF port = None THEN "serving" ELSE "closing")
    /\ port' = IF port = None THEN s ELSE port
    /\ UNCHANGED <<busy, yagna>>

NodesChange(s) ==
    /\ server[s] = "serving"
    /\ s \notin shutting \/ s \in busy
    /\ busy' = IF s \in busy THEN busy \ {s} ELSE busy \cup {s}
    /\ UNCHANGED <<commandVars, pid, server, port, shutting, yagna, disorder>>

(* GracefulExit: the port is closed first *)
Exit(s) ==
    /\ s \in shutting
    /\ Move(s, "serving", "closing")
    /\ port' = None
    /\ UNCHANGED <<busy, yagna>>

(* run_app takes a SIGTERM or SIGINT for a GracefulExit too: nobody has been   *)
(* told that the server shuts down                                           *)
Terminated(s) ==
    /\ server[s] = "serving"
    /\ server' = [server EXCEPT ![s] = "closing"]
    /\ port' = None
    /\ disorder' = TRUE
    /\ UNCHANGED <<commandVars, pid, shutting, busy, yagna>>

(* ray_service_ctx and golem_service_ctx *)
ServicesStopped(s) ==
    /\ Move(s, "closing", "yagna")
    /\ busy' = busy \ {s}
    /\ UNCHANGED <<port, yagna>>

(* Mutant: a daemon that does not serve yet is left. *)
ServingYagnaStopped(s) ==
    /\ Move(s, "yagna", "stopped")
    /\ yagna' = [yagna EXCEPT ![s] = IF @ = "up" THEN "gone" ELSE @]
    /\ UNCHANGED <<port, busy>>

(* Mutant: the daemon is waited for, but not told to terminate. *)
YagnaAwaited(s) ==
    /\ yagna[s] \in {"none", "gone"}
    /\ Move(s, "yagna", "stopped")
    /\ UNCHANGED <<port, busy, yagna>>

(* YagnaService.stop: only the yagna this server has launched *)
YagnaStopped(s) ==
    /\ Move(s, "yagna", "stopped")
    /\ yagna' = [yagna EXCEPT ![s] = IF @ = "none" THEN "none" ELSE "gone"]
    /\ UNCHANGED <<port, busy>>

(* The daemon: it serves its API unless another one does, and it may exit      *)
(* before that or, which is only logged, later.                              *)
YagnaServes(y) ==
    /\ yagna[y] = "booting"
    /\ ~ApiUp
    /\ yagna' = [yagna EXCEPT ![y] = "up"]
    /\ UNCHANGED <<commandVars, pid, serverVars, disorder>>

YagnaExits(y) ==
    /\ yagna[y] \in IF y \in Unstable THEN {"booting", "up"} ELSE {"booting"}
    /\ yagna' = [yagna EXCEPT ![y] = "gone"]
    /\ UNCHANGED <<commandVars, pid, serverVars, disorder>>

-----------------------------------------------------------------------------
WaitStep(c) ==
    PortFreed(c) \/ PortTimeout(c) \/ ProcessSeen(c) \/ ProcessGone(c)
    \/ ProcessTimeout(c) \/ ClearPid(c)
StartStep(s) == Spawn(s) \/ ServerReady(s) \/ ServerExited(s) \/ StartTimeout(s)
StopStep(k) ==
    PostShutdown(k) \/ UserCancels(k) \/ UserForces(k) \/ PostForced(k)
    \/ ShutdownCompleted(k) \/ StillRunning(k) \/ UserDeclines(k) \/ Kill(k)

BootStep(s) ==
    CheckYagna(s) \/ YagnaStarted(s) \/ SetupFails(s) \/ Bind(s)
ShutdownStep(s) == Exit(s) \/ ServicesStopped(s) \/ YagnaStopped(s)

Next ==
    \/ \E c \in Commands : WaitStep(c)
    \/ \E s \in Starts :
         \/ StartBegins(s) \/ StartStep(s) \/ BootStep(s)
         \/ NodesChange(s) \/ Terminated(s) \/ ShutdownStep(s)
    \/ \E k \in Stops : StopBegins(k) \/ StopStep(k)
    \/ \E y \in DOMAIN yagna : YagnaServes(y) \/ YagnaExits(y)

(* A command goes on, at the latest when its timeout is over or its user has *)
(* answered; a server boots, or fails to; a server that exits stops its      *)
(* services.                                                                 *)
Fairness ==
    /\ \A c \in Commands : WF_vars(WaitStep(c))
    /\ \A s \in Starts : WF_vars(StartStep(s)) /\ WF_vars(BootStep(s)) /\ WF_vars(ShutdownStep(s))
    /\ \A k \in Stops : WF_vars(StopStep(k))

Spec == Init /\ [][Next]_vars /\ Fairness

-----------------------------------------------------------------------------
(* Properties. *)

(* Once a server has gone through its clean-up, also one that lost the race   *)
(* for the port, the yagna it launched is gone, and it is not launched later. *)
NoYagnaLeft ==
    \A s \in Starts : server[s] \in {"none", "stopped"} => yagna[s] \in {"none", "gone"}

(* As long as commands come one after the other and do not give up, and no    *)
(* signal ends a server, the pid file names the server that listens, so that  *)
(* `stop` waits for that one.                                                 *)
PidNamesServer ==
    disorder \/ \A s \in Starts :
        port = s /\ command[s] \in {"poll", "done"} => pid = s

(* "Shutdown completed." is said when no server process is left.              *)
CompletedMeansGone ==
    [][\A k \in Stops :
         ShutdownCompleted(k) => disorder \/ \A s \in Starts : ~Alive(s)]_vars

(* A server does not stop its yagna under another server that relies on it.   *)
YagnaKept ==
    [][\A s \in Starts :
         YagnaStopped(s) /\ yagna[s] = "up"
            => disorder \/ \A t \in Starts \ {s} :
                             server[t] \notin {"golem", "serving", "closing"}]_vars

(* Every command comes back, whatever the servers and other commands do.      *)
CommandsEnd ==
    \A c \in Commands : command[c] # "idle" ~> command[c] \in Final

(* A server that has agreed to shut down ends.                                *)
ShutdownEnds == \A s \in Starts : s \in shutting ~> server[s] \in Ended
=============================================================================
