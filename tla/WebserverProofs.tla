-------------------------- MODULE WebserverProofs ---------------------------
(***************************************************************************)
(* Proofs about Webserver, for any number of commands: what holds however  *)
(* they overlap, and what holds as long as they come one after the other.  *)
(***************************************************************************)
EXTENDS Webserver, TLAPS

Waiting == {"waitPort", "waitProc"}
Setup   == {"boot", "launch", "golem"}

Active(c) == command[c] \notin Final \cup {"idle"}

(* A server is spawned once, serves while it has the port, and is asked to    *)
(* shut down after that only                                                 *)
ServerInv ==
    /\ \A s \in Starts :
         /\ command[s] \in Waiting \cup {"idle", "clear", "spawn"} => server[s] = "none"
         /\ server[s] = "serving" <=> port = s
         /\ s \in shutting => server[s] \notin Setup \cup {"none"}

(* In order there is one server at most, and the pid file names it            *)
Order ==
    /\ \A c, d \in Commands : Active(c) /\ Active(d) => c = d
    /\ \A s \in Starts :
         /\ Alive(s) => pid = s
         /\ server[s] \in Setup => command[s] = "poll"
         /\ server[s] \in {"closing", "yagna"} \/ (Alive(s) /\ s \in shutting)
              => \E c \in Commands : command[c] \in Waiting
    /\ \A c \in Commands :
         /\ command[c] = "waitProc" => port = None
         /\ command[c] \in {"clear", "spawn", "look", "kill"} => \A s \in Starts : ~Alive(s)

OrderInv == ~disorder => Order

ServersInv == TypeOK /\ ServerInv /\ NoYagnaLeft /\ OrderInv

-----------------------------------------------------------------------------
(* What the commands do, as far as servers are concerned. *)

(* Steps that change where a command is, and at most what it has seen. *)
CommandMoves(c) ==
    /\ \E to \in {"idle", "waitPort", "waitProc", "clear", "spawn", "poll", "post", "confirm",
                  "force", "look", "kill"} \cup Final : Goto(c, to)
    /\ UNCHANGED <<pid, server, port, busy, yagna>>

LEMMA ContinueMoves ==
    ASSUME NEW c \in Commands,
           \/ PortFreed(c) \/ PortTimeout(c) \/ ProcessGone(c) \/ ProcessTimeout(c)
           \/ c \in Starts /\ (StartBegins(c) \/ ServerReady(c) \/ ServerExited(c)
                                 \/ StartTimeout(c))
           \/ c \in Stops /\ (StopBegins(c) \/ PostShutdown(c) \/ UserCancels(c) \/ UserForces(c)
                                \/ PostForced(c) \/ ShutdownCompleted(c) \/ StillRunning(c)
                                \/ UserDeclines(c))
    PROVE  CommandMoves(c)
<1> USE DEF CommandMoves, serverVars, Final
<1>1. CASE PortFreed(c) \/ PortTimeout(c) \/ ProcessGone(c) \/ ProcessTimeout(c)
      BY <1>1 DEF PortFreed, PortTimeout, ProcessGone, ProcessTimeout, Continue, GiveUp,
                  AfterWait, AfterTimeout
<1>2. CASE c \in Starts /\ (StartBegins(c) \/ ServerReady(c) \/ ServerExited(c)
                              \/ StartTimeout(c))
      BY <1>2 DEF StartBegins, ServerReady, ServerExited, StartTimeout, Begin, Continue, GiveUp
<1>3. CASE c \in Stops /\ (StopBegins(c) \/ PostShutdown(c) \/ UserCancels(c) \/ UserForces(c)
                             \/ PostForced(c))
      BY <1>3 DEF StopBegins, PostShutdown, PostForced, Refused, RequestShutdown, UserCancels,
                  UserForces, Begin, Continue
<1>4. CASE c \in Stops /\ (ShutdownCompleted(c) \/ StillRunning(c) \/ UserDeclines(c))
      BY <1>4 DEF ShutdownCompleted, StillRunning, UserDeclines, Continue
<1> QED  BY <1>1, <1>2, <1>3, <1>4

-----------------------------------------------------------------------------
(* Types. *)

LEMMA TypeInit == Init => TypeOK
<1> SUFFICES ASSUME Init PROVE TypeOK
    OBVIOUS
<1>1. yagna \in [Starts \cup {None} -> {"none", "booting", "up", "gone"}]
  <2>1. PICK external \in {"none", "up"} :
          yagna = [y \in Starts \cup {None} |-> IF y = None THEN external ELSE "none"]
        BY DEF Init
  <2> QED  BY <2>1
<1>2. /\ command \in [Commands -> {"idle"}]
      /\ victim \in [Stops -> Starts \cup {None}]
      /\ server \in [Starts -> {"none"}]
      BY DEF Init
<1> QED  BY <1>1, <1>2 DEF Init, TypeOK

LEMMA CommandTypes ==
    ASSUME TypeOK, NEW c \in Commands, CommandMoves(c)
    PROVE  command' \in [Commands -> {"idle", "waitPort", "waitProc", "clear", "spawn", "poll",
                                      "post", "confirm", "force", "look", "kill"} \cup Final]
BY DEF TypeOK, CommandMoves, Goto

LEMMA WaitTypes ==
    ASSUME TypeOK, NEW c \in Commands, WaitStep(c)
    PROVE  TypeOK'
<1> USE DEF serverVars
<1>1. CASE PortFreed(c) \/ PortTimeout(c) \/ ProcessGone(c) \/ ProcessTimeout(c)
  <2>1. CommandMoves(c)
        BY <1>1, ContinueMoves
  <2>2. seen' \subseteq Commands /\ disorder' \in BOOLEAN /\ UNCHANGED <<victim, shutting>>
        BY <1>1 DEF PortFreed, PortTimeout, ProcessGone, ProcessTimeout, Continue, GiveUp, TypeOK
  <2> QED  BY <2>1, <2>2, CommandTypes DEF TypeOK, CommandMoves
<1>2. CASE ProcessSeen(c)
      BY <1>2 DEF ProcessSeen, TypeOK
<1>3. CASE ClearPid(c)
      BY <1>3 DEF ClearPid, Goto, AfterWait, TypeOK, Final
<1> QED  BY <1>1, <1>2, <1>3 DEF WaitStep

LEMMA StartTypes ==
    ASSUME TypeOK, NEW s \in Starts, StartBegins(s) \/ StartStep(s)
    PROVE  TypeOK'
<1> USE DEF serverVars
<1>1. s \in Commands
      BY DEF Commands
<1>2. CASE Spawn(s)
      BY <1>1, <1>2 DEF Spawn, Goto, TypeOK, Final, Ended
<1>3. CASE ~Spawn(s)
  <2>1. CommandMoves(s)
        BY <1>1, <1>3, ContinueMoves DEF StartStep
  <2>2. disorder' \in BOOLEAN /\ UNCHANGED <<seen, victim, shutting>>
        BY <1>3 DEF StartStep, StartBegins, ServerReady, ServerExited, StartTimeout, Begin,
                    Continue, GiveUp, TypeOK
  <2> QED  BY <1>1, <2>1, <2>2, CommandTypes DEF TypeOK, CommandMoves
<1> QED  BY <1>2, <1>3

LEMMA StopTypes ==
    ASSUME TypeOK, NEW k \in Stops, StopBegins(k) \/ StopStep(k)
    PROVE  TypeOK'
<1> USE DEF serverVars
<1>1. k \in Commands
      BY DEF Commands
<1>2. CASE Kill(k)
  <2>1. victim[k] \in Starts \cup {None}
        BY DEF TypeOK
  <2>2. server' \in [Starts -> {"none", "boot", "launch", "golem", "serving", "closing",
                                "yagna"} \cup Ended]
        BY <1>2, <2>1 DEF Kill, TypeOK, Alive, Ended
  <2>3. command' \in [Commands -> {"idle", "waitPort", "waitProc", "clear", "spawn", "poll",
                                   "post", "confirm", "force", "look", "kill"} \cup Final]
        BY <1>1, <1>2 DEF Kill, Goto, TypeOK, Final
  <2> QED  BY <1>2, <2>1, <2>2, <2>3 DEF Kill, TypeOK
<1>3. CASE ~Kill(k)
  <2>1. CommandMoves(k)
        BY <1>1, <1>3, ContinueMoves DEF StopStep
  <2>2. victim' \in [Stops -> Starts \cup {None}]
        BY <1>3 DEF StopStep, StopBegins, PostShutdown, PostForced, Refused, RequestShutdown,
                    UserCancels, UserForces, ShutdownCompleted, StillRunning, UserDeclines,
                    Begin, Continue, ProcessInfo, TypeOK
  <2>3. shutting' \subseteq Starts /\ disorder' \in BOOLEAN /\ seen' = seen
        BY <1>3 DEF StopStep, StopBegins, PostShutdown, PostForced, Refused, RequestShutdown,
                    UserCancels, UserForces, ShutdownCompleted, StillRunning, UserDeclines,
                    Begin, Continue, TypeOK
  <2> QED  BY <1>1, <2>1, <2>2, <2>3, CommandTypes DEF TypeOK, CommandMoves
<1> QED  BY <1>2, <1>3

LEMMA ProcessTypes ==
    ASSUME TypeOK, NEW s \in Starts,
           BootStep(s) \/ NodesChange(s) \/ Terminated(s) \/ ShutdownStep(s)
    PROVE  TypeOK'
<1> USE DEF serverVars, commandVars, Move, Ended
<1>1. CASE CheckYagna(s)
      BY <1>1 DEF CheckYagna, TypeOK
<1>2. CASE YagnaStarted(s) \/ SetupFails(s)
      BY <1>2 DEF YagnaStarted, SetupFails, TypeOK
<1>3. CASE Bind(s)
      BY <1>3 DEF Bind, TypeOK
<1>4. CASE NodesChange(s)
      BY <1>4 DEF NodesChange, TypeOK
<1>5. CASE Exit(s) \/ Terminated(s)
      BY <1>5 DEF Exit, Terminated, TypeOK
<1>6. CASE ServicesStopped(s)
      BY <1>6 DEF ServicesStopped, TypeOK
<1>7. CASE YagnaStopped(s)
      BY <1>7 DEF YagnaStopped, TypeOK
<1> QED  BY <1>1, <1>2, <1>3, <1>4, <1>5, <1>6, <1>7 DEF BootStep, ShutdownStep

LEMMA TypeStep == TypeOK /\ [Next]_vars => TypeOK'
<1> SUFFICES ASSUME TypeOK, [Next]_vars PROVE TypeOK'
    OBVIOUS
<1>1. CASE UNCHANGED vars
      BY <1>1 DEF vars, commandVars, serverVars, TypeOK
<1>2. ASSUME NEW y \in DOMAIN yagna, YagnaServes(y) \/ YagnaExits(y) PROVE TypeOK'
      BY <1>2 DEF YagnaServes, YagnaExits, commandVars, serverVars, TypeOK
<1> QED  BY <1>1, <1>2, WaitTypes, StartTypes, StopTypes, ProcessTypes DEF Next

-----------------------------------------------------------------------------
(* What holds however the commands overlap. *)

LEMMA ServerStep ==
    ASSUME TypeOK, ServerInv, NoYagnaLeft, [Next]_vars
    PROVE  ServerInv' /\ NoYagnaLeft'
<1> USE DEF serverVars, commandVars, ServerInv, NoYagnaLeft, Waiting, Setup
<1>1. CASE UNCHANGED vars
      BY <1>1 DEF vars
<1>2. ASSUME NEW c \in Commands, WaitStep(c) PROVE ServerInv' /\ NoYagnaLeft'
  <2>1. UNCHANGED <<server, port, shutting, yagna>>
        BY <1>2 DEF WaitStep, PortFreed, PortTimeout, ProcessSeen, ProcessGone, ProcessTimeout,
                    ClearPid, Continue, GiveUp
  <2>2. \A s \in Starts : command'[s] = command[s] \/ command[s] \in Waiting \cup {"clear"}
        BY <1>2 DEF WaitStep, PortFreed, PortTimeout, ProcessSeen, ProcessGone, ProcessTimeout,
                    ClearPid, Continue, GiveUp, Goto, TypeOK, Commands
  <2> QED  BY <2>1, <2>2
<1>3. ASSUME NEW s \in Starts, StartBegins(s) \/ StartStep(s) PROVE ServerInv' /\ NoYagnaLeft'
  <2>1. s \in Commands
        BY DEF Commands
  <2>2. CASE Spawn(s)
        BY <2>1, <2>2, CommandsAssumption DEF Spawn, Goto, TypeOK, Commands
  <2>3. CASE ~Spawn(s)
    <3>1. UNCHANGED <<server, port, shutting, yagna>>
          BY <1>3, <2>3 DEF StartStep, StartBegins, ServerReady, ServerExited, StartTimeout,
                      Begin, Continue, GiveUp
    <3>2. \A t \in Starts : \/ command'[t] = command[t]
                            \/ command[t] = "idle"
                            \/ command'[t] \in Final
          BY <1>3, <2>1, <2>3 DEF StartStep, StartBegins, ServerReady, ServerExited,
                      StartTimeout, Begin, Continue, GiveUp, Goto, TypeOK, Commands, Final
    <3> QED  BY <3>1, <3>2 DEF Final
  <2> QED  BY <2>2, <2>3
<1>4. ASSUME NEW k \in Stops, StopBegins(k) \/ StopStep(k) PROVE ServerInv' /\ NoYagnaLeft'
  <2>1. /\ UNCHANGED yagna
        /\ \A s \in Starts : command'[s] = command[s]
        BY <1>4, CommandsAssumption
           DEF StopStep, StopBegins, PostShutdown, PostForced, Refused, RequestShutdown,
               UserCancels, UserForces, ShutdownCompleted, StillRunning, UserDeclines, Kill,
               Begin, Continue, Goto, TypeOK, Commands
  <2>2. CASE Kill(k)
        BY <2>1, <2>2, CommandsAssumption DEF Kill, Alive, TypeOK, Ended
  <2>3. CASE ~Kill(k)
    <3>1. UNCHANGED <<server, port>>
          BY <1>4, <2>3
             DEF StopStep, StopBegins, PostShutdown, PostForced, Refused, RequestShutdown,
                 UserCancels, UserForces, ShutdownCompleted, StillRunning, UserDeclines,
                 Begin, Continue
    <3>2. shutting' = shutting \/ shutting' = shutting \cup {port}
          BY <1>4, <2>3
             DEF StopStep, StopBegins, PostShutdown, PostForced, Refused, RequestShutdown,
                 UserCancels, UserForces, ShutdownCompleted, StillRunning, UserDeclines,
                 Begin, Continue
    <3>3. \A s \in Starts : s \in shutting' => s \in shutting \/ port = s
          BY <3>2
    <3>4. ServerInv' /\ NoYagnaLeft'
          BY <2>1, <3>1, <3>3
    <3> QED  BY <3>4
  <2> QED  BY <2>2, <2>3
<1>5. ASSUME NEW s \in Starts,
             BootStep(s) \/ NodesChange(s) \/ Terminated(s) \/ ShutdownStep(s)
      PROVE  ServerInv' /\ NoYagnaLeft'
  <2> USE DEF Move
  <2>1. CASE CheckYagna(s)
        BY <2>1, CommandsAssumption DEF CheckYagna, TypeOK, Commands
  <2>2. CASE YagnaStarted(s) \/ SetupFails(s)
        BY <2>2 DEF YagnaStarted, SetupFails, TypeOK
  <2>3. CASE Bind(s)
        BY <2>3, CommandsAssumption DEF Bind, TypeOK, Commands
  <2>4. CASE NodesChange(s)
        BY <2>4 DEF NodesChange
  <2>5. CASE Exit(s) \/ Terminated(s)
        BY <2>5, CommandsAssumption DEF Exit, Terminated, TypeOK, Commands
  <2>6. CASE ServicesStopped(s)
        BY <2>6 DEF ServicesStopped, TypeOK
  <2>7. CASE YagnaStopped(s)
        BY <2>7 DEF YagnaStopped, TypeOK
  <2> QED  BY <1>5, <2>1, <2>2, <2>3, <2>4, <2>5, <2>6, <2>7 DEF BootStep, ShutdownStep
<1>6. ASSUME NEW y \in DOMAIN yagna, YagnaServes(y) \/ YagnaExits(y)
      PROVE  ServerInv' /\ NoYagnaLeft'
      BY <1>6 DEF YagnaServes, YagnaExits, TypeOK
<1> QED  BY <1>1, <1>2, <1>3, <1>4, <1>5, <1>6 DEF Next

-----------------------------------------------------------------------------
(* What holds as long as the commands come one after the other. *)

(* A command that is under way is alone. *)
LEMMA Alone ==
    ASSUME Order, NEW c \in Commands, Active(c), NEW d \in Commands, d # c
    PROVE  ~Active(d) /\ command[d] \notin Waiting
BY DEF Order, Active, Waiting, Final

(* Where no command is under way and nobody listens, no server is left. *)
LEMMA NobodyLeft ==
    ASSUME TypeOK, ServerInv, Order, port = None,
           \A c \in Commands : ~Active(c), NEW s \in Starts
    PROVE  ~Alive(s)
<1>1. s \in Commands /\ \A c \in Commands : command[c] \notin Waiting
      BY DEF Active, Waiting, Final, Commands
<1>2. server[s] \notin Setup
      BY <1>1 DEF Order, Active, Final
<1>3. server[s] # "serving"
      BY CommandsAssumption DEF ServerInv, Commands
<1>4. server[s] \notin {"closing", "yagna"}
      BY <1>1 DEF Order
<1> QED  BY <1>2, <1>3, <1>4 DEF Alive, TypeOK, Setup, Ended

LEMMA WaitOrder ==
    ASSUME TypeOK, ServerInv, Order, ~disorder', NEW c \in Commands, WaitStep(c)
    PROVE  Order'
<1> USE DEF serverVars, Waiting, Final
<1>1. Active(c) /\ UNCHANGED <<server, port, shutting>>
      BY DEF WaitStep, PortFreed, PortTimeout, ProcessSeen, ProcessGone, ProcessTimeout,
             ClearPid, Continue, GiveUp, Active
<1>2. \A d \in Commands \ {c} : ~Active(d) /\ command[d] \notin Waiting
      BY <1>1, Alone
<1>3. \A d \in Commands \ {c} : command'[d] = command[d]
      BY DEF WaitStep, PortFreed, PortTimeout, ProcessSeen, ProcessGone, ProcessTimeout,
             ClearPid, Continue, GiveUp, Goto, TypeOK
<1>4. \A s \in Starts : Alive(s)' <=> Alive(s)
      BY <1>1 DEF Alive
<1>5. \A s \in Starts : server[s] \notin Setup
  <2>1. command[c] \in Waiting \cup {"clear"}
        BY DEF WaitStep, PortFreed, PortTimeout, ProcessSeen, ProcessGone, ProcessTimeout,
               ClearPid, Continue, GiveUp
  <2> QED  BY <1>2, <2>1 DEF Order, Active, Commands
<1>6. CASE PortFreed(c)
  <2>1. port = None /\ command'[c] = "waitProc" /\ pid' = pid
        BY <1>6 DEF PortFreed, Goto, TypeOK
  <2> QED  BY <1>1, <1>2, <1>3, <1>4, <1>5, <2>1 DEF Order, Active
<1>7. CASE ProcessSeen(c)
      BY <1>1, <1>4, <1>7 DEF ProcessSeen, Order, Active
<1>8. CASE ProcessGone(c)
  <2>1. /\ command'[c] \in {"clear", "spawn", "look"} /\ pid' = pid
        BY <1>8 DEF ProcessGone, Continue, Goto, AfterWait, TypeOK
  <2>2. \A s \in Starts : ~Alive(s)
        BY <1>8, CommandsAssumption DEF ProcessGone, ProcessInfo, Order, Commands
  <2> QED  BY <1>1, <1>2, <1>3, <1>4, <1>5, <2>1, <2>2 DEF Order, Active, Alive, Ended
<1>9. CASE ClearPid(c)
  <2>1. command'[c] \in {"spawn", "look"} /\ pid' = None
        BY <1>9 DEF ClearPid, Goto, AfterWait, TypeOK
  <2>2. \A s \in Starts : ~Alive(s)
        BY <1>9 DEF ClearPid, Order
  <2> QED  BY <1>1, <1>2, <1>3, <1>4, <1>5, <2>1, <2>2 DEF Order, Active, Alive, Ended
<1>10. ~PortTimeout(c) /\ ~ProcessTimeout(c)
      BY DEF PortTimeout, ProcessTimeout, GiveUp
<1> QED  BY <1>6, <1>7, <1>8, <1>9, <1>10 DEF WaitStep

LEMMA StartOrder ==
    ASSUME TypeOK, ServerInv, Order, ~disorder', NEW s \in Starts, StartBegins(s) \/ StartStep(s)
    PROVE  Order'
<1> USE DEF serverVars, Waiting, Final
<1>1. s \in Commands
      BY DEF Commands
<1>2. \A d \in Commands \ {s} : command'[d] = command[d] /\ ~Active(d)
  <2>1. CASE StartBegins(s)
        BY <1>1, <2>1 DEF StartBegins, Begin, Goto, Active, TypeOK
  <2>2. CASE StartStep(s)
    <3>1. Active(s)
          BY <2>2 DEF StartStep, Spawn, ServerReady, ServerExited, StartTimeout, Continue,
                      GiveUp, Active
    <3>2. \A d \in Commands \ {s} : command'[d] = command[d]
          BY <1>1, <2>2 DEF StartStep, Spawn, ServerReady, ServerExited, StartTimeout, Continue,
                      GiveUp, Goto, TypeOK
    <3> QED  BY <1>1, <3>1, <3>2, Alone
  <2> QED  BY <2>1, <2>2
<1>3. CASE StartBegins(s)
  <2>1. /\ UNCHANGED <<server, port, shutting, pid>>
        /\ \A c \in Commands : ~Active(c)
        BY <1>2, <1>3 DEF StartBegins, Begin, Active
  <2>2. /\ command'[s] \in {"spawn", "waitPort", "done"}
        /\ command'[s] = "spawn" => port = None
        BY <1>1, <1>3, CommandsAssumption DEF StartBegins, Begin, Goto, TypeOK
  <2>3. command'[s] = "spawn" => \A t \in Starts : ~Alive(t)
        BY <2>1, <2>2, NobodyLeft
  <2>4. \A t \in Starts : server[t] \notin Setup /\ server[t] \notin {"closing", "yagna"}
                            /\ ~(Alive(t) /\ t \in shutting)
        BY <2>1 DEF Order, Active, Commands
  <2> QED  BY <1>1, <1>2, <2>1, <2>2, <2>3, <2>4 DEF Order, Active, Alive
<1>4. CASE Spawn(s)
  <2>1. /\ command[s] = "spawn" /\ command'[s] = "poll" /\ pid' = s
        /\ UNCHANGED <<port, shutting>>
        /\ server'[s] = "boot" /\ \A t \in Starts \ {s} : server'[t] = server[t]
        BY <1>1, <1>4 DEF Spawn, Goto, TypeOK
  <2>2. \A t \in Starts : ~Alive(t)
        BY <1>1, <2>1 DEF Order
  <2>3. s \notin shutting
        BY <2>1 DEF ServerInv
  <2>4. \A t \in Starts \ {s} : ~Alive(t)' /\ server'[t] \notin Setup \cup {"closing", "yagna"}
        BY <2>1, <2>2 DEF Alive, Setup, Ended
  <2> QED  BY <1>1, <1>2, <2>1, <2>3, <2>4 DEF Order, Active
<1>5. CASE ServerReady(s)
  <2>1. /\ command[s] = "poll" /\ command'[s] = "done" /\ port \in Starts
        /\ UNCHANGED <<server, port, shutting, pid>>
        BY <1>1, <1>5 DEF ServerReady, Serviceable, Continue, Goto, TypeOK
  <2>2. server[port] = "serving" /\ pid = port
        BY <2>1 DEF ServerInv, Order, Alive, Ended
  <2>3. \A t \in Starts : server[t] \notin Setup
        BY <2>1, <2>2 DEF Order, Alive, Ended, Setup
  <2> QED  BY <1>1, <1>2, <2>1, <2>3 DEF Order, Active, Alive
<1>6. CASE ServerExited(s)
  <2>1. /\ command[s] = "poll" /\ command'[s] = "failed" /\ ~Alive(s)
        /\ UNCHANGED <<server, port, shutting, pid>>
        BY <1>1, <1>6 DEF ServerExited, Continue, Goto, TypeOK
  <2>2. \A t \in Starts : server[t] \notin Setup
        BY <1>1, <1>2, <2>1 DEF Order, Active, Alive, Ended, Setup, Commands
  <2> QED  BY <1>1, <1>2, <2>1, <2>2 DEF Order, Active, Alive
<1>7. ~StartTimeout(s)
      BY DEF StartTimeout, GiveUp
<1> QED  BY <1>3, <1>4, <1>5, <1>6, <1>7 DEF StartStep

LEMMA StopOrder ==
    ASSUME TypeOK, ServerInv, Order, ~disorder', NEW k \in Stops, StopBegins(k) \/ StopStep(k)
    PROVE  Order'
<1> USE DEF serverVars, Waiting, Final
<1>1. k \in Commands /\ k \notin Starts
      BY CommandsAssumption DEF Commands
<1>2. \A d \in Commands \ {k} : command'[d] = command[d] /\ ~Active(d)
  <2>1. CASE StopBegins(k)
        BY <1>1, <2>1 DEF StopBegins, Begin, Goto, Active, TypeOK
  <2>2. CASE StopStep(k)
    <3>1. Active(k)
          BY <2>2 DEF StopStep, PostShutdown, PostForced, Refused, RequestShutdown,
                      UserCancels, UserForces, ShutdownCompleted, StillRunning, UserDeclines,
                      Kill, Continue, Active
    <3>2. \A d \in Commands \ {k} : command'[d] = command[d]
          BY <1>1, <2>2 DEF StopStep, PostShutdown, PostForced, Refused, RequestShutdown,
                      UserCancels, UserForces, ShutdownCompleted, StillRunning, UserDeclines,
                      Kill, Continue, Goto, TypeOK
    <3> QED  BY <1>1, <3>1, <3>2, Alone
  <2> QED  BY <2>1, <2>2
<1>3. \A s \in Starts : server[s] \notin Setup
      BY <1>1, <1>2 DEF Order, Active, Commands
<1>4. CASE StopBegins(k) \/ UserCancels(k) \/ UserForces(k) \/ Refused(k, "post")
           \/ Refused(k, "force") \/ (port \in busy /\ Continue(k, "post", "confirm"))
  <2>1. /\ command[k] \in {"idle", "post", "confirm", "force"}
        /\ command'[k] \in {"post", "waitPort", "confirm", "force", "done", "failed"}
        /\ UNCHANGED <<server, port, shutting, pid>>
        BY <1>1, <1>4 DEF StopBegins, UserCancels, UserForces, Refused, Begin, Continue, Goto,
                          TypeOK
  <2> QED  BY <1>1, <1>2, <1>3, <2>1 DEF Order, Active, Alive
<1>5. CASE \E label \in {"post", "force"} :
             command[k] = label /\ port # None /\ RequestShutdown(k, "waitPort")
  <2>1. /\ command'[k] = "waitPort" /\ UNCHANGED <<server, port, pid>>
        /\ command[k] \in {"post", "force"}
        BY <1>1, <1>5 DEF RequestShutdown, Goto, TypeOK
  <2> QED  BY <1>1, <1>2, <1>3, <2>1 DEF Order, Active, Alive
<1>6. CASE ShutdownCompleted(k) \/ UserDeclines(k) \/ StillRunning(k)
  <2>1. /\ command[k] \in {"look", "kill"} /\ command'[k] \in {"done", "kill"}
        /\ UNCHANGED <<server, port, shutting, pid>>
        BY <1>1, <1>6 DEF ShutdownCompleted, UserDeclines, StillRunning, Continue, Goto, TypeOK
  <2>2. \A s \in Starts : ~Alive(s)
        BY <1>1, <2>1 DEF Order
  <2> QED  BY <1>1, <1>2, <1>3, <2>1, <2>2 DEF Order, Active, Alive, Ended
<1>7. CASE Kill(k)
  <2>1. command[k] = "kill" /\ command'[k] = "done" /\ shutting' = shutting
        BY <1>1, <1>7 DEF Kill, Goto, TypeOK
  <2>2. \A s \in Starts : ~Alive(s)
        BY <1>1, <2>1 DEF Order
  <2>3. server' = server
        BY <1>7, <2>2 DEF Kill, TypeOK, Alive
  <2> QED  BY <1>1, <1>2, <1>3, <2>1, <2>2, <2>3 DEF Order, Active, Alive, Ended
<1> QED  BY <1>4, <1>5, <1>6, <1>7 DEF StopStep, PostShutdown, PostForced

LEMMA ProcessOrder ==
    ASSUME TypeOK, ServerInv, Order, ~disorder',
           NEW s \in Starts, BootStep(s) \/ NodesChange(s) \/ ShutdownStep(s)
    PROVE  Order'
<1> USE DEF serverVars, commandVars, Move, Ended
<1>1. /\ UNCHANGED <<command, pid, shutting>>
      /\ \A t \in Starts \ {s} : server'[t] = server[t]
      BY DEF BootStep, CheckYagna, YagnaStarted, SetupFails, Bind, NodesChange, ShutdownStep,
             Exit, ServicesStopped, YagnaStopped, TypeOK
<1>2. Alive(s)
      BY DEF BootStep, CheckYagna, YagnaStarted, SetupFails, Bind, NodesChange, ShutdownStep,
             Exit, ServicesStopped, YagnaStopped, Alive
<1>3. CASE CheckYagna(s) \/ YagnaStarted(s) \/ SetupFails(s)
  <2>1. /\ server[s] \in Setup /\ server'[s] \in {"launch", "golem", "died"} /\ port' = port
        BY <1>3 DEF CheckYagna, YagnaStarted, SetupFails, TypeOK, Setup
  <2> QED  BY <1>1, <1>2, <2>1 DEF Order, Active, Alive, Setup
<1>4. CASE Bind(s)
  <2>1. server[s] = "golem"
        BY <1>4 DEF Bind
  <2>2. port = None
    <3>1. CASE port \in Starts
          BY <1>2, <2>1, <3>1 DEF ServerInv, Order, Alive
    <3> QED  BY <3>1 DEF TypeOK
  <2>3. server'[s] = "serving" /\ port' = s
        BY <1>4, <2>2 DEF Bind, TypeOK
  <2>4. command[s] = "poll" /\ s \in Commands /\ s \notin shutting
        BY <2>1 DEF Order, ServerInv, Setup, Commands
  <2>5. \A c \in Commands \ {s} : ~Active(c)
        BY <2>4 DEF Order, Active, Final
  <2> QED  BY <1>1, <1>2, <2>3, <2>4, <2>5 DEF Order, Active, Alive, Setup, Final, Waiting
<1>5. CASE NodesChange(s)
      BY <1>1, <1>5 DEF NodesChange, Order, Active, Alive
<1>6. CASE Exit(s)
  <2>1. s \in shutting /\ server'[s] = "closing" /\ port' = None
        BY <1>6 DEF Exit, TypeOK
  <2> QED  BY <1>1, <1>2, <2>1 DEF Order, Active, Alive, Setup
<1>7. CASE ServicesStopped(s) \/ YagnaStopped(s)
  <2>1. /\ server[s] \in {"closing", "yagna"} /\ server'[s] \in {"yagna", "stopped"}
        /\ port' = port
        BY <1>7 DEF ServicesStopped, YagnaStopped, TypeOK
  <2> QED  BY <1>1, <1>2, <2>1 DEF Order, Active, Alive, Setup
<1> QED  BY <1>3, <1>4, <1>5, <1>6, <1>7 DEF BootStep, ShutdownStep

LEMMA OrderStep ==
    ASSUME TypeOK, ServerInv, OrderInv, [Next]_vars
    PROVE  OrderInv'
<1> SUFFICES ASSUME ~disorder' PROVE Order'
    BY DEF OrderInv
<1> USE DEF serverVars, commandVars
<1>1. Order
  <2>1. ~disorder
    <3>1. CASE \E c \in Commands : WaitStep(c)
          BY <3>1 DEF WaitStep, PortFreed, PortTimeout, ProcessSeen, ProcessGone,
                      ProcessTimeout, ClearPid, Continue, GiveUp
    <3>2. CASE \E s \in Starts : StartBegins(s) \/ StartStep(s)
          BY <3>2 DEF StartBegins, StartStep, Spawn, ServerReady, ServerExited, StartTimeout,
                      Begin, Continue, GiveUp
    <3>3. CASE \E k \in Stops : StopBegins(k) \/ StopStep(k)
          BY <3>3 DEF StopBegins, StopStep, PostShutdown, PostForced, Refused,
                      RequestShutdown, UserCancels, UserForces, ShutdownCompleted,
                      StillRunning, UserDeclines, Kill, Begin, Continue
    <3>4. CASE \E s \in Starts : BootStep(s) \/ NodesChange(s) \/ ShutdownStep(s)
          BY <3>4 DEF BootStep, CheckYagna, YagnaStarted, SetupFails, Bind, NodesChange,
                      ShutdownStep, Exit, ServicesStopped, YagnaStopped, Move
    <3>5. CASE UNCHANGED vars \/ \E y \in DOMAIN yagna : YagnaServes(y) \/ YagnaExits(y)
          BY <3>5 DEF vars, YagnaServes, YagnaExits
    <3> QED  BY <3>1, <3>2, <3>3, <3>4, <3>5 DEF Next, Terminated
  <2> QED  BY <2>1 DEF OrderInv
<1>2. CASE UNCHANGED vars \/ \E y \in DOMAIN yagna : YagnaServes(y) \/ YagnaExits(y)
  <2>1. UNCHANGED <<command, pid, server, port, shutting>>
        BY <1>2 DEF vars, YagnaServes, YagnaExits
  <2> QED  BY <1>1, <2>1 DEF Order, Active, Alive
<1> QED  BY <1>1, <1>2, WaitOrder, StartOrder, StopOrder, ProcessOrder DEF Next, Terminated

-----------------------------------------------------------------------------
(* Theorems. *)

LEMMA InvInit == Init => ServersInv
<1> SUFFICES ASSUME Init PROVE ServersInv
    OBVIOUS
<1>1. TypeOK
      BY TypeInit
<1>2. NoYagnaLeft
      BY CommandsAssumption DEF Init, NoYagnaLeft, Commands
<1>3. ServerInv /\ OrderInv
      BY CommandsAssumption DEF Init, ServerInv, OrderInv, Order, Active, Alive, Commands,
         Setup, Final, Waiting, Ended
<1> QED  BY <1>1, <1>2, <1>3 DEF ServersInv

LEMMA InvStep == ServersInv /\ [Next]_vars => ServersInv'
BY TypeStep, ServerStep, OrderStep DEF ServersInv

LEMMA Invariants == Spec => []ServersInv
<1> QED  BY InvInit, InvStep, PTL DEF Spec

(* Commands, servers and daemons keep their types, however many there are.    *)
THEOREM TypeCorrect == Spec => []TypeOK
<1>1. ServersInv => TypeOK
      BY DEF ServersInv
<1> QED  BY <1>1, Invariants, PTL

(* No server that stopped in order leaves the yagna it has launched.          *)
THEOREM YagnaGoes == Spec => []NoYagnaLeft
<1>1. ServersInv => NoYagnaLeft
      BY DEF ServersInv
<1> QED  BY <1>1, Invariants, PTL

(* Commands that neither overlap nor give up find the server that listens in   *)
(* the pid file, as long as no signal ends a server.                          *)
THEOREM PidNames == Spec => []PidNamesServer
<1>1. ServersInv => PidNamesServer
      BY DEF ServersInv, ServerInv, OrderInv, Order, PidNamesServer, Alive, Ended
<1> QED  BY <1>1, Invariants, PTL

(* And `stop` tells them that the shutdown is complete when it is.            *)
THEOREM CompletedIsGone == Spec => CompletedMeansGone
<1>1. ASSUME ServersInv, [Next]_vars
      PROVE  [\A k \in Stops : ShutdownCompleted(k) => disorder \/ \A s \in Starts : ~Alive(s)]_vars
  <2> SUFFICES ASSUME NEW k \in Stops, ShutdownCompleted(k), ~disorder
               PROVE  \A s \in Starts : ~Alive(s)
      OBVIOUS
  <2>1. command[k] = "look" /\ k \in Commands
        BY DEF ShutdownCompleted, Continue, Commands
  <2> QED  BY <1>1, <2>1 DEF ServersInv, OrderInv, Order
<1> QED  BY <1>1, Invariants, PTL DEF Spec, CompletedMeansGone

(* In order a yagna is not stopped under another server that relies on it.     *)
THEOREM YagnaStays == Spec => YagnaKept
<1>1. ASSUME ServersInv, [Next]_vars
      PROVE  [\A s \in Starts :
                YagnaStopped(s) /\ yagna[s] = "up"
                  => disorder \/ \A t \in Starts \ {s} :
                                   server[t] \notin {"golem", "serving", "closing"}]_vars
  <2> SUFFICES ASSUME NEW s \in Starts, YagnaStopped(s), ~disorder, NEW t \in Starts \ {s}
               PROVE  server[t] \notin {"golem", "serving", "closing"}
      OBVIOUS
  <2>1. Alive(s)
        BY DEF YagnaStopped, Move, Alive, Ended
  <2>2. ~Alive(t)
        BY <1>1, <2>1 DEF ServersInv, OrderInv, Order
  <2> QED  BY <2>2 DEF Alive, Ended
<1> QED  BY <1>1, Invariants, PTL DEF Spec, YagnaKept
=============================================================================
