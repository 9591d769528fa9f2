--------------------------- MODULE ShutdownProofs ---------------------------
(***************************************************************************)
(* Proofs about Shutdown, for any clusters and any number of requests to   *)
(* shut down: what the server promises with its answer, and what has been  *)
(* stopped by the time it closes golem.                                    *)
(***************************************************************************)
EXTENDS Shutdown, TLAPS

(* Who may still start a node was counted when the answer was given *)
AnswerInv ==
    shutting => \A n \in Names : node[n] = "up" \/ n \in UnderWay => n \in inFlight

(* No handler is left when the clean-up contexts run, and only the walk awaits *)
QuietInv ==
    /\ phase \in {"ray", "golem", "yagna", "stopped"} => UnderWay = {}
    /\ visiting # None => phase \in {"ray", "aborted"}

(* What a handler has not created yet is not there *)
HandlerInv ==
    \A n \in Names :
        /\ handler[n] \in {"idle", "passed"} => cluster[n] = "none"
        /\ handler[n] = "stacks" => cluster[n] = "running"
        /\ n \in UnderWay \/ handler[n] = "idle" => node[n] = "none"

(* A cluster that stops has seen its node stop, awaits it, came too late or failed *)
NodeInv ==
    \A n \in Names :
        /\ cluster[n] = "none" => node[n] = "none"
        /\ cluster[n] = "terminating" =>
             node[n] \in {"none", "gone"} \/ n \in hurried \/ n \in awaited \cup failed
        /\ cluster[n] = "terminated" => node[n] \in {"none", "gone"} \/ n \in hurried

(* Only stopped clusters are removed, so that the others are registered *)
RegistryInv ==
    /\ \A n \in removal : cluster[n] = "terminated"
    /\ phase \in {"serving", "draining", "ray"} =>
         \A n \in Names : cluster[n] \in {"running", "terminating"}
                             => \E i \in 1 .. Len(registry) : registry[i] = n

(* As long as its dictionary keeps its size the walk misses nobody *)
WalkInv ==
    phase = "ray" =>
        /\ Len(registry) <= size
        /\ Len(registry) = size => \A i \in 1 .. size : i < position =>
               \/ cluster[registry[i]] = "terminated"
               \/ cluster[registry[i]] = "terminating"
                    /\ registry[i] \in skipped \cup {visiting}

(* A walk that came to its end has left only what it skipped *)
EndInv ==
    phase \in {"golem", "yagna", "stopped"} /\ ~broken
        => \A n \in Names : cluster[n] \in {"none", "terminated"} \/ n \in skipped

StopInv == HandlerInv /\ NodeInv /\ RegistryInv /\ QuietInv /\ WalkInv /\ EndInv
-----------------------------------------------------------------------------
(* What removing an element does to a sequence. *)

(* It is one shorter, and every other element stays. *)
LEMMA RemovedAt ==
    ASSUME NEW s \in Seq(Names), NEW i \in 1 .. Len(s)
    PROVE  /\ RemoveAt(s, i) \in Seq(Names)
           /\ Len(RemoveAt(s, i)) = Len(s) - 1
           /\ \A n \in Names : n # s[i] /\ (\E j \in 1 .. Len(s) : s[j] = n)
                => \E j \in 1 .. Len(RemoveAt(s, i)) : RemoveAt(s, i)[j] = n
<1> DEFINE front == SubSeq(s, 1, i - 1)
           back  == SubSeq(s, i + 1, Len(s))
           rest  == front \o back
<1>1. front \in Seq(Names) /\ Len(front) = i - 1 /\ \A j \in 1 .. i - 1 : front[j] = s[j]
      OBVIOUS
<1>2. /\ back \in Seq(Names) /\ Len(back) = Len(s) - i
      /\ \A j \in 1 .. Len(s) - i : back[j] = s[j + i]
      OBVIOUS
<1> HIDE DEF front, back
<1>3. rest \in Seq(Names) /\ Len(rest) = Len(s) - 1
      BY <1>1, <1>2
<1>4. \A j \in 1 .. i - 1 : rest[j] = s[j]
      BY <1>1, <1>2
<1>5. \A j \in i + 1 .. Len(s) : rest[j - 1] = s[j]
  <2> TAKE j \in i + 1 .. Len(s)
  <2>1. rest[j - 1] = back[(j - 1) - (i - 1)]
        BY <1>1, <1>2
  <2>2. j - i \in 1 .. Len(s) - i /\ (j - 1) - (i - 1) = j - i /\ (j - i) + i = j
        OBVIOUS
  <2> QED  BY <1>2, <2>1, <2>2
<1>6. RemoveAt(s, i) = rest
      BY DEF RemoveAt, front, back
<1> HIDE DEF rest
<1>7. ASSUME NEW n \in Names, n # s[i], NEW j \in 1 .. Len(s), s[j] = n
      PROVE  \E k \in 1 .. Len(rest) : rest[k] = n
  <2>1. CASE j < i
        BY <1>3, <1>4, <1>7, <2>1
  <2>2. CASE j > i
    <3>1. j - 1 \in 1 .. Len(rest) /\ rest[j - 1] = n
          BY <1>3, <1>5, <1>7, <2>2
    <3> QED  BY <3>1
  <2> QED  BY <1>7, <2>1, <2>2
<1> QED  BY <1>3, <1>6, <1>7

-----------------------------------------------------------------------------
(* Types. *)

LEMMA TypeInit == Init => TypeOK
<1> SUFFICES ASSUME Init PROVE TypeOK
    OBVIOUS
<1>1. requests \in 0 .. MaxShutdowns /\ timers \in 0 .. requests
      BY ShutdownAssumption DEF Init
<1>2. registry \in Seq(Names) /\ position \in Nat \ {0} /\ size \in Nat
      BY DEF Init
<1>3. /\ handler \in [Names -> {"idle", "passed", "stacks", "done", "rejected", "cancelled"}]
      /\ cluster \in [Names -> {"none", "running", "terminating", "terminated"}]
      /\ node \in [Names -> {"none", "up", "stopping", "gone"}]
      BY DEF Init
<1> QED  BY <1>1, <1>2, <1>3 DEF Init, TypeOK

(* A removal leaves a sequence of clusters, not longer than before. *)
LEMMA RemovalTypes ==
    ASSUME TypeOK, NEW n \in Names, ClusterRemoved(n)
    PROVE  /\ registry' \in Seq(Names)
           /\ registry' = registry \/ Len(registry') = Len(registry) - 1
           /\ \A m \in Names : m # n /\ (\E i \in 1 .. Len(registry) : registry[i] = m)
                => \E i \in 1 .. Len(registry') : registry'[i] = m
<1>1. CASE registry = <<>> /\ UNCHANGED registry
      BY <1>1 DEF TypeOK
<1>2. CASE \E i \in DOMAIN registry : registry[i] = n /\ registry' = RemoveAt(registry, i)
  <2>1. PICK i \in 1 .. Len(registry) : registry[i] = n /\ registry' = RemoveAt(registry, i)
        BY <1>2 DEF TypeOK
  <2>2. registry \in Seq(Names)
        BY DEF TypeOK
  <2> QED  BY <2>1, <2>2, RemovedAt
<1> QED  BY <1>1, <1>2 DEF ClusterRemoved

LEMMA TypeStep == TypeOK /\ [Next]_vars => TypeOK'
<1> SUFFICES ASSUME TypeOK, [Next]_vars PROVE TypeOK'
    OBVIOUS
<1> USE DEF walkVars, historyVars, clusterVars, failVars, requestVars
<1>1. CASE UNCHANGED vars
      BY <1>1 DEF vars, TypeOK
<1>2. ASSUME NEW n \in Names, RequestArrives(n) \/ RequestStep(n) \/ HandlerCancelled(n)
      PROVE  TypeOK'
  <2>1. CASE RequestArrives(n)
        BY <2>1 DEF RequestArrives, TypeOK
  <2>2. CASE CreateCluster(n)
        BY <2>2 DEF CreateCluster, TypeOK
  <2>3. CASE CreateNode(n)
        BY <2>3 DEF CreateNode, TypeOK
  <2>4. CASE HandlerCancelled(n)
        BY <2>4 DEF HandlerCancelled, TypeOK
  <2> QED  BY <1>2, <2>1, <2>2, <2>3, <2>4 DEF RequestStep
<1>3. ASSUME NEW n \in Names, NodeStops(n) \/ ClusterStep(n) PROVE TypeOK'
  <2>1. CASE NodeStops(n)
        BY <2>1 DEF NodeStops, TypeOK
  <2>2. CASE NodeStopped(n)
        BY <2>2 DEF NodeStopped, TypeOK
  <2>3. CASE OnNodeStop(n)
        BY <2>3 DEF OnNodeStop, TypeOK
  <2>4. CASE ClusterStopped(n)
        BY <2>4 DEF ClusterStopped, TypeOK
  <2>5. CASE ClusterRemoved(n)
    <3>1. registry' \in Seq(Names)
          BY <2>5, RemovalTypes
    <3> QED  BY <2>5, <3>1 DEF ClusterRemoved, TypeOK
  <2>6. CASE NodeStopFails(n)
        BY <2>6 DEF NodeStopFails, TypeOK
  <2>7. CASE ClusterStopFails(n)
    <3>1. /\ phase' \in {"serving", "draining", "ray", "golem", "yagna", "stopped", "aborted"}
          /\ visiting' \in Names \cup {None} /\ broken' \in BOOLEAN
          BY <2>7 DEF ClusterStopFails, TypeOK
    <3> QED  BY <2>7, <3>1 DEF ClusterStopFails, TypeOK
  <2> QED  BY <1>3, <2>1, <2>2, <2>3, <2>4, <2>5, <2>6, <2>7 DEF ClusterStep
<1>4. CASE ShutdownRequested
  <2>1. requests' \in 0 .. MaxShutdowns
        BY <1>4, ShutdownAssumption DEF ShutdownRequested, TypeOK
  <2>2. UnderWay \subseteq Names
        BY DEF UnderWay
  <2>3. timers' \in 0 .. requests'
        BY <1>4, ShutdownAssumption DEF ShutdownRequested, TypeOK
  <2>4. shutting' \in BOOLEAN /\ inFlight' \subseteq Names
        BY <1>4, <2>2 DEF ShutdownRequested, TypeOK
  <2> QED  BY <1>4, <2>1, <2>3, <2>4 DEF ShutdownRequested, TypeOK
<1>5. CASE GracefulExit
  <2>1. requests' \in 0 .. MaxShutdowns /\ timers' \in 0 .. requests'
        BY <1>5, ShutdownAssumption DEF GracefulExit, TypeOK
  <2>2. phase' \in {"serving", "draining", "ray", "golem", "yagna", "stopped", "aborted"}
        BY <1>5 DEF GracefulExit, LoopRuns, TypeOK
  <2> QED  BY <1>5, <2>1, <2>2 DEF GracefulExit, TypeOK
<1>6. CASE CleanupStep
  <2>1. CASE ConnectionsClosed
        BY <2>1 DEF ConnectionsClosed, TypeOK
  <2>2. CASE PassStopped
        BY <2>2 DEF PassStopped, TypeOK
  <2>3. CASE StopCluster
    <3>1. registry[position] \in Names
          BY <2>3 DEF StopCluster, TypeOK
    <3> QED  BY <2>3, <3>1 DEF StopCluster, TypeOK
  <2>4. CASE WalkEnds
        BY <2>4 DEF WalkEnds, TypeOK
  <2>5. CASE WalkBreaks
        BY <2>5 DEF WalkBreaks, TypeOK
  <2>6. CASE GolemClosed
        BY <2>6 DEF GolemClosed, TypeOK
  <2>7. CASE YagnaStopped
        BY <2>7 DEF YagnaStopped, TypeOK
  <2> QED  BY <1>6, <2>1, <2>2, <2>3, <2>4, <2>5, <2>6, <2>7 DEF CleanupStep
<1> QED  BY <1>1, <1>2, <1>3, <1>4, <1>5, <1>6 DEF Next

-----------------------------------------------------------------------------
(* The promise of the answer. *)

LEMMA AnswerStep ==
    ASSUME TypeOK, HandlerInv, AnswerInv, [Next]_vars
    PROVE  AnswerInv'
<1> USE DEF walkVars, historyVars, clusterVars, failVars, requestVars, AnswerInv, UnderWay
<1>1. CASE UNCHANGED vars
      BY <1>1 DEF vars
<1>2. ASSUME NEW n \in Names, RequestArrives(n) \/ RequestStep(n) \/ HandlerCancelled(n)
      PROVE  AnswerInv'
  <2>1. CASE RequestArrives(n)
        BY <2>1 DEF RequestArrives, TypeOK
  <2>2. CASE CreateCluster(n)
        BY <2>2 DEF CreateCluster, TypeOK
  <2>3. CASE CreateNode(n)
        BY <2>3 DEF CreateNode, TypeOK
  <2>4. CASE HandlerCancelled(n)
        BY <2>4 DEF HandlerCancelled, TypeOK
  <2> QED  BY <1>2, <2>1, <2>2, <2>3, <2>4 DEF RequestStep
<1>3. ASSUME NEW n \in Names, NodeStops(n) \/ ClusterStep(n) PROVE AnswerInv'
  <2>1. /\ UNCHANGED <<handler, shutting, inFlight>>
        /\ \A m \in Names : node'[m] = "up" => node[m] = "up"
        BY <1>3 DEF NodeStops, ClusterStep, NodeStopped, NodeStopFails, OnNodeStop,
                    ClusterStopped, ClusterStopFails, ClusterRemoved, TypeOK
  <2> QED  BY <2>1
<1>4. CASE ShutdownRequested
  <2>1. UNCHANGED <<handler, node>>
        BY <1>4 DEF ShutdownRequested
  <2>2. CASE Will
        BY <1>4, <2>1, <2>2 DEF ShutdownRequested, Will, AnyNodeRunning, TypeOK
  <2>3. CASE ~Will /\ shutting' = TRUE /\ inFlight' = Names
        BY <2>1, <2>3
  <2>4. CASE ~Will /\ UNCHANGED <<shutting, inFlight>>
        BY <2>1, <2>4
  <2> QED  BY <1>4, <2>2, <2>3, <2>4 DEF ShutdownRequested
<1>5. CASE GracefulExit
      BY <1>5 DEF GracefulExit
<1>6. CASE CleanupStep
  <2>1. /\ UNCHANGED <<handler, shutting, inFlight>>
        /\ \A m \in Names : node'[m] = "up" => node[m] = "up"
        BY <1>6 DEF CleanupStep, ConnectionsClosed, PassStopped, StopCluster, WalkEnds,
                    WalkBreaks, GolemClosed, YagnaStopped, TypeOK
  <2> QED  BY <2>1
<1> QED  BY <1>1, <1>2, <1>3, <1>4, <1>5, <1>6 DEF Next

-----------------------------------------------------------------------------
(* Handlers, nodes and clusters. *)

LEMMA HandlerStep ==
    ASSUME TypeOK, HandlerInv, QuietInv, [Next]_vars
    PROVE  HandlerInv' /\ QuietInv'
<1> USE DEF walkVars, historyVars, clusterVars, failVars, requestVars, HandlerInv, QuietInv, UnderWay
<1>1. CASE UNCHANGED vars
      BY <1>1 DEF vars
<1>2. ASSUME NEW n \in Names, RequestArrives(n) \/ RequestStep(n) \/ HandlerCancelled(n)
      PROVE  HandlerInv' /\ QuietInv'
  <2>1. CASE RequestArrives(n)
        BY <2>1 DEF RequestArrives, TypeOK
  <2>2. CASE CreateCluster(n)
        BY <2>2 DEF CreateCluster, TypeOK
  <2>3. CASE CreateNode(n)
        BY <2>3 DEF CreateNode, TypeOK
  <2>4. CASE HandlerCancelled(n)
        BY <2>4 DEF HandlerCancelled, TypeOK
  <2> QED  BY <1>2, <2>1, <2>2, <2>3, <2>4 DEF RequestStep
<1>3. ASSUME NEW n \in Names, NodeStops(n) \/ ClusterStep(n)
      PROVE  HandlerInv' /\ QuietInv'
  <2>1. CASE NodeStops(n) \/ NodeStopped(n)
        BY <2>1 DEF NodeStops, NodeStopped, TypeOK
  <2>2. CASE OnNodeStop(n) \/ ClusterRemoved(n)
        BY <2>2 DEF OnNodeStop, ClusterRemoved, TypeOK
  <2>3. CASE ClusterStopped(n)
    <3>1. /\ UNCHANGED <<handler, node, phase>> /\ visiting' \in {visiting, None}
          /\ cluster[n] = "terminating" /\ cluster' = [cluster EXCEPT ![n] = "terminated"]
          BY <2>3 DEF ClusterStopped, BeingStopped
    <3> QED  BY <3>1 DEF TypeOK
  <2>4. CASE NodeStopFails(n)
        BY <2>4 DEF NodeStopFails
  <2>5. CASE ClusterStopFails(n)
        BY <2>5, ShutdownAssumption DEF ClusterStopFails, BeingStopped, GolemRuns
  <2> QED  BY <1>3, <2>1, <2>2, <2>3, <2>4, <2>5 DEF ClusterStep
<1>4. CASE ShutdownRequested
      BY <1>4 DEF ShutdownRequested
<1>5. CASE GracefulExit
      BY <1>5 DEF GracefulExit, LoopRuns
<1>6. CASE CleanupStep
  <2>1. CASE StopCluster
        BY <2>1 DEF StopCluster, Walking, TypeOK
  <2>2. CASE ~StopCluster
        BY <1>6, <2>2 DEF CleanupStep, ConnectionsClosed, PassStopped, WalkEnds, WalkBreaks,
                          Walking, GolemClosed, YagnaStopped
  <2> QED  BY <2>1, <2>2
<1> QED  BY <1>1, <1>2, <1>3, <1>4, <1>5, <1>6 DEF Next

LEMMA NodeStep ==
    ASSUME TypeOK, HandlerInv, NodeInv, [Next]_vars
    PROVE  NodeInv'
<1> USE DEF walkVars, historyVars, clusterVars, failVars, requestVars, NodeInv
<1>1. CASE UNCHANGED vars
      BY <1>1 DEF vars
<1>2. ASSUME NEW n \in Names, RequestArrives(n) \/ RequestStep(n) \/ HandlerCancelled(n)
      PROVE  NodeInv'
  <2>1. CASE RequestArrives(n) \/ HandlerCancelled(n)
        BY <2>1 DEF RequestArrives, HandlerCancelled
  <2>2. CASE CreateCluster(n)
        BY <2>2 DEF CreateCluster, TypeOK
  <2>3. CASE CreateNode(n)
        BY <2>3 DEF CreateNode, HandlerInv, TypeOK
  <2> QED  BY <1>2, <2>1, <2>2, <2>3 DEF RequestStep
<1>3. ASSUME NEW n \in Names, NodeStops(n) \/ ClusterStep(n) PROVE NodeInv'
  <2>1. CASE NodeStops(n)
        BY <2>1 DEF NodeStops, TypeOK
  <2>2. CASE NodeStopped(n)
        BY <2>2 DEF NodeStopped, TypeOK
  <2>3. CASE OnNodeStop(n)
        BY <2>3 DEF OnNodeStop, TypeOK
  <2>4. CASE ClusterStopped(n)
        BY <2>4 DEF ClusterStopped, BeingStopped, TypeOK
  <2>5. CASE ClusterRemoved(n)
        BY <2>5 DEF ClusterRemoved
  <2>6. CASE NodeStopFails(n)
        BY <2>6 DEF NodeStopFails
  <2>7. CASE ClusterStopFails(n)
        BY <2>7 DEF ClusterStopFails
  <2> QED  BY <1>3, <2>1, <2>2, <2>3, <2>4, <2>5, <2>6, <2>7 DEF ClusterStep
<1>4. CASE ShutdownRequested \/ GracefulExit
      BY <1>4 DEF ShutdownRequested, GracefulExit
<1>5. CASE CleanupStep
  <2>1. CASE StopCluster
    <3>1. registry[position] \in Names
          BY <2>1 DEF StopCluster, TypeOK
    <3> QED  BY <2>1, <3>1 DEF StopCluster, TypeOK
  <2>2. CASE ~StopCluster
        BY <1>5, <2>2 DEF CleanupStep, ConnectionsClosed, PassStopped, WalkEnds, WalkBreaks,
                          GolemClosed, YagnaStopped
  <2> QED  BY <2>1, <2>2
<1> QED  BY <1>1, <1>2, <1>3, <1>4, <1>5 DEF Next

-----------------------------------------------------------------------------
(* The registry and the walk over it. *)

LEMMA RegistryStep ==
    ASSUME TypeOK, HandlerInv, RegistryInv, QuietInv, [Next]_vars
    PROVE  RegistryInv'
<1> USE DEF walkVars, historyVars, clusterVars, failVars, requestVars, RegistryInv
<1> DEFINE Listed(n) == \E i \in 1 .. Len(registry) : registry[i] = n
<1>1. CASE UNCHANGED vars
      BY <1>1 DEF vars
<1>2. ASSUME NEW n \in Names, RequestArrives(n) \/ RequestStep(n) \/ HandlerCancelled(n)
      PROVE  RegistryInv'
  <2>1. CASE CreateCluster(n)
    <3>1. n \notin removal
          BY <2>1 DEF CreateCluster, HandlerInv
    <3>2. \A m \in Names : Listed(m) \/ m = n => Listed(m)'
          BY <2>1 DEF CreateCluster, TypeOK
    <3> QED  BY <2>1, <3>1, <3>2 DEF CreateCluster, TypeOK
  <2>2. CASE ~CreateCluster(n)
        BY <1>2, <2>2 DEF RequestArrives, RequestStep, CreateNode, HandlerCancelled
  <2> QED  BY <2>1, <2>2
<1>3. ASSUME NEW n \in Names, NodeStops(n) \/ ClusterStep(n) PROVE RegistryInv'
  <2>1. CASE NodeStops(n) \/ NodeStopped(n)
        BY <2>1 DEF NodeStops, NodeStopped
  <2>2. CASE OnNodeStop(n)
        BY <2>2 DEF OnNodeStop, TypeOK
  <2>3. CASE ClusterStopped(n)
        BY <2>3 DEF ClusterStopped, TypeOK
  <2>4. CASE ClusterRemoved(n)
    <3>1. \A m \in Names : m # n /\ Listed(m) => Listed(m)'
          BY <2>4, RemovalTypes
    <3>2. cluster[n] = "terminated" /\ UNCHANGED <<cluster, phase>> /\ removal' \subseteq removal
          BY <2>4 DEF ClusterRemoved
    <3> QED  BY <3>1, <3>2
  <2>5. CASE NodeStopFails(n)
        BY <2>5 DEF NodeStopFails
  <2>6. CASE ClusterStopFails(n)
    <3>1. /\ UNCHANGED <<registry, cluster, removal>>
          /\ phase' = phase \/ phase' = "golem"
          BY <2>6 DEF ClusterStopFails
    <3> QED  BY <3>1
  <2> QED  BY <1>3, <2>1, <2>2, <2>3, <2>4, <2>5, <2>6 DEF ClusterStep
<1>4. CASE ShutdownRequested \/ GracefulExit
      BY <1>4 DEF ShutdownRequested, GracefulExit, LoopRuns
<1>5. CASE CleanupStep
  <2>1. CASE StopCluster
    <3>1. registry[position] \in Names
          BY <2>1 DEF StopCluster, TypeOK
    <3> QED  BY <2>1, <3>1 DEF StopCluster, TypeOK
  <2>2. CASE WalkEnds
        BY <2>2 DEF WalkEnds
  <2>3. CASE ~StopCluster /\ ~WalkEnds
        BY <1>5, <2>3 DEF CleanupStep, ConnectionsClosed, PassStopped, WalkBreaks,
                          GolemClosed, YagnaStopped
  <2> QED  BY <2>1, <2>2, <2>3
<1> QED  BY <1>1, <1>2, <1>3, <1>4, <1>5 DEF Next

LEMMA WalkStep ==
    ASSUME TypeOK, QuietInv, WalkInv, [Next]_vars
    PROVE  WalkInv'
<1> USE DEF walkVars, historyVars, clusterVars, failVars, requestVars, WalkInv
<1>1. CASE UNCHANGED vars
      BY <1>1 DEF vars
<1>2. ASSUME NEW n \in Names, RequestArrives(n) \/ RequestStep(n) \/ HandlerCancelled(n)
      PROVE  WalkInv'
  <2>1. phase # "ray" /\ UNCHANGED phase
        BY <1>2 DEF RequestArrives, RequestStep, CreateCluster, CreateNode, HandlerCancelled,
                    QuietInv, UnderWay
  <2> QED  BY <2>1
<1>3. ASSUME NEW n \in Names, NodeStops(n) \/ ClusterStep(n) PROVE WalkInv'
  <2>1. CASE NodeStops(n) \/ NodeStopped(n)
        BY <2>1 DEF NodeStops, NodeStopped
  <2>2. CASE OnNodeStop(n)
        BY <2>2 DEF OnNodeStop, TypeOK
  <2>3. CASE ClusterStopped(n)
        BY <2>3 DEF ClusterStopped, TypeOK
  <2>4. CASE ClusterRemoved(n)
    <3>1. UNCHANGED <<phase, size, position, cluster, skipped, visiting>>
          BY <2>4 DEF ClusterRemoved
    <3>2. registry' = registry \/ Len(registry') = Len(registry) - 1
          BY <2>4, RemovalTypes
    <3>3. size \in Nat /\ Len(registry) \in Nat
          BY DEF TypeOK
    <3> QED  BY <3>1, <3>2, <3>3
  <2>5. CASE NodeStopFails(n)
        BY <2>5 DEF NodeStopFails
  <2>6. CASE ClusterStopFails(n)
    <3>1. UNCHANGED <<registry, cluster, position, size, skipped>>
          BY <2>6 DEF ClusterStopFails
    <3>2. phase' = "ray" => phase = "ray" /\ visiting' = visiting
          BY <2>6 DEF ClusterStopFails
    <3> QED  BY <3>1, <3>2
  <2> QED  BY <1>3, <2>1, <2>2, <2>3, <2>4, <2>5, <2>6 DEF ClusterStep
<1>4. CASE ShutdownRequested \/ GracefulExit
      BY <1>4 DEF ShutdownRequested, GracefulExit
<1>5. CASE CleanupStep
  <2>1. CASE ConnectionsClosed
        BY <2>1 DEF ConnectionsClosed, TypeOK
  <2>2. CASE PassStopped
        BY <2>2 DEF PassStopped, TypeOK
  <2>3. CASE StopCluster
    <3>1. registry[position] \in Names
          BY <2>3 DEF StopCluster, TypeOK
    <3>2. visiting = None /\ \A i \in 1 .. size : registry[i] \in Names \/ Len(registry) # size
          BY <2>3 DEF StopCluster, Walking, TypeOK
    <3> QED  BY <2>3, <3>1, <3>2, ShutdownAssumption DEF StopCluster, TypeOK
  <2>4. CASE WalkEnds \/ WalkBreaks \/ GolemClosed \/ YagnaStopped
        BY <2>4 DEF WalkEnds, WalkBreaks, GolemClosed, YagnaStopped
  <2> QED  BY <1>5, <2>1, <2>2, <2>3, <2>4 DEF CleanupStep
<1> QED  BY <1>1, <1>2, <1>3, <1>4, <1>5 DEF Next

(* Where the walk ends it has been at every cluster. *)
LEMMA EndStep ==
    ASSUME TypeOK, HandlerInv, RegistryInv, QuietInv, WalkInv, EndInv, [Next]_vars
    PROVE  EndInv'
<1> USE DEF walkVars, historyVars, clusterVars, failVars, requestVars, EndInv
<1>1. CASE UNCHANGED vars
      BY <1>1 DEF vars
<1>2. ASSUME NEW n \in Names, RequestArrives(n) \/ RequestStep(n) \/ HandlerCancelled(n)
      PROVE  EndInv'
  <2>1. phase \notin {"golem", "yagna", "stopped"} /\ UNCHANGED phase
        BY <1>2 DEF RequestArrives, RequestStep, CreateCluster, CreateNode, HandlerCancelled,
                    QuietInv, UnderWay
  <2> QED  BY <2>1
<1>3. ASSUME NEW n \in Names, NodeStops(n) \/ ClusterStep(n) PROVE EndInv'
  <2>1. CASE NodeStops(n) \/ NodeStopped(n) \/ ClusterRemoved(n)
        BY <2>1 DEF NodeStops, NodeStopped, ClusterRemoved
  <2>2. CASE OnNodeStop(n)
        BY <2>2 DEF OnNodeStop, TypeOK
  <2>3. CASE ClusterStopped(n)
        BY <2>3 DEF ClusterStopped, TypeOK
  <2>4. CASE NodeStopFails(n)
        BY <2>4 DEF NodeStopFails
  <2>5. CASE ClusterStopFails(n)
    <3>1. /\ UNCHANGED <<cluster, skipped>>
          /\ broken' \/ UNCHANGED <<phase, broken>>
          BY <2>5 DEF ClusterStopFails
    <3> QED  BY <3>1
  <2> QED  BY <1>3, <2>1, <2>2, <2>3, <2>4, <2>5 DEF ClusterStep
<1>4. CASE ShutdownRequested \/ GracefulExit
      BY <1>4 DEF ShutdownRequested, GracefulExit, LoopRuns
<1>5. CASE CleanupStep
  <2>1. CASE WalkEnds
    <3> SUFFICES ASSUME NEW n \in Names
                 PROVE  cluster[n] \in {"none", "terminated"} \/ n \in skipped
        BY <2>1 DEF WalkEnds
    <3>1. /\ phase = "ray" /\ visiting = None
          /\ Len(registry) = size /\ position > size
          BY <2>1 DEF WalkEnds, Walking
    <3>2. CASE cluster[n] \in {"running", "terminating"}
      <4>1. PICK i \in 1 .. size : registry[i] = n
            BY <3>1, <3>2 DEF RegistryInv
      <4>2. i < position
            BY <3>1, <4>1 DEF TypeOK
      <4>3. cluster[n] = "terminated" \/ n \in skipped \cup {visiting}
            BY <3>1, <4>1, <4>2 DEF WalkInv
      <4> QED  BY <3>1, <4>3, ShutdownAssumption
    <3> QED  BY <3>2 DEF TypeOK
  <2>2. CASE ConnectionsClosed \/ PassStopped \/ StopCluster \/ WalkBreaks
        BY <2>2 DEF ConnectionsClosed, PassStopped, StopCluster, WalkBreaks, Walking
  <2>3. CASE GolemClosed \/ YagnaStopped
        BY <2>3 DEF GolemClosed, YagnaStopped
  <2> QED  BY <1>5, <2>1, <2>2, <2>3 DEF CleanupStep
<1> QED  BY <1>1, <1>2, <1>3, <1>4, <1>5 DEF Next

-----------------------------------------------------------------------------
(* Theorems. *)

LEMMA InvInit == Init => TypeOK /\ AnswerInv /\ StopInv
<1> SUFFICES ASSUME Init PROVE AnswerInv /\ StopInv
    BY TypeInit
<1>1. AnswerInv /\ HandlerInv /\ NodeInv
      BY DEF Init, AnswerInv, HandlerInv, NodeInv, UnderWay
<1>2. RegistryInv /\ QuietInv /\ WalkInv /\ EndInv
      BY DEF Init, RegistryInv, QuietInv, WalkInv, EndInv
<1> QED  BY <1>1, <1>2 DEF StopInv

LEMMA InvStep == TypeOK /\ AnswerInv /\ StopInv /\ [Next]_vars => (TypeOK /\ AnswerInv /\ StopInv)'
<1> SUFFICES ASSUME TypeOK, AnswerInv, StopInv, [Next]_vars
             PROVE  (TypeOK /\ AnswerInv /\ StopInv)'
    OBVIOUS
<1> USE DEF StopInv
<1>1. TypeOK' /\ AnswerInv' /\ HandlerInv' /\ QuietInv' /\ NodeInv'
      BY TypeStep, AnswerStep, HandlerStep, NodeStep
<1>2. RegistryInv' /\ WalkInv' /\ EndInv'
      BY RegistryStep, WalkStep, EndStep
<1> QED  BY <1>1, <1>2

LEMMA Invariants == Spec => [](TypeOK /\ AnswerInv /\ StopInv)
<1> QED  BY InvInit, InvStep, PTL DEF Spec

(* The variables of a server that shuts down keep their types; it does not    *)
(* arm more timers than it got requests.                                      *)
THEOREM TypeCorrect == Spec => []TypeOK
<1> QED  BY Invariants, PTL

(* Once views.shutdown has answered WILL_SHUTDOWN the only nodes that run are  *)
(* those of handlers that were past the guard at that moment.                 *)
THEOREM AnswerKept == Spec => []NoNodeAfterAnswer
<1>1. AnswerInv => NoNodeAfterAnswer
      BY DEF AnswerInv, NoNodeAfterAnswer
<1> QED  BY <1>1, Invariants, PTL

(* RayService.stop, if its walk does not break off, has stopped every cluster *)
(* that was not stopping already when golem is closed.                        *)
THEOREM ClustersFirst == Spec => []ClustersStopFirst
<1>1. StopInv => ClustersStopFirst
      BY DEF StopInv, EndInv, ClustersStopFirst
<1> QED  BY <1>1, Invariants, PTL

(* The same of the nodes, whose activities golem destroys.                    *)
THEOREM NodesFirst == Spec => []NodesStopFirst
<1>1. TypeOK /\ StopInv => NodesStopFirst
      BY DEF StopInv, EndInv, NodeInv, NodesStopFirst, TypeOK
<1> QED  BY <1>1, Invariants, PTL
=============================================================================
