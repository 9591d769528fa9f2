------------------------- MODULE NodeProviderProofs -------------------------
(***************************************************************************)
(* Proofs about NodeProvider, for any create_node calls, numbers of nodes  *)
(* and sizes of a cluster: what a call reports ready is its own.           *)
(***************************************************************************)
EXTENDS NodeProvider, TLAPS

(* Ids from the counter on have not been given out since the last stop        *)
CounterInv == \A i \in Ids : state[i] # "none" => i < counter

(* A call whose cluster was not stopped since has its nodes in the collection *)
OwnerInv ==
    \A r \in Requests : call[r] = "polling" /\ r \notin stale =>
        \A i \in ids[r] : state[i] # "none" /\ owner[i] = r

CallInv == TypeOK /\ CounterInv /\ OwnerInv

-----------------------------------------------------------------------------
LEMMA CallInit == Init => CallInv
<1> SUFFICES ASSUME Init PROVE CallInv
    OBVIOUS
<1>1. TypeOK
  <2>1. counter \in 0 .. MaxNodes
        BY ProviderAssumption DEF Init
  <2>2. state \in [Ids -> States \cup {"none"}] /\ owner \in [Ids -> Requests \cup {None}]
        BY DEF Init
  <2> QED  BY <2>1, <2>2 DEF Init, TypeOK
<1>2. CounterInv /\ OwnerInv
      BY DEF Init, CounterInv, OwnerInv
<1> QED  BY <1>1, <1>2 DEF CallInv

(* The ids of a call are new ones. *)
LEMMA CreateStep ==
    ASSUME CallInv, NEW r \in Requests, CreateNodes(r)
    PROVE  CallInv'
<1> DEFINE new == counter .. counter + Count[r] - 1
<1> USE DEF CallInv
<1>1. /\ Count[r] \in Nat \ {0} /\ MaxNodes \in Nat
      /\ counter \in Nat /\ counter + Count[r] <= MaxNodes
  <2>1. MaxNodes \in Nat /\ Count[r] \in 1 .. MaxNodes
        BY ProviderAssumption
  <2>2. counter \in 0 .. MaxNodes
        BY DEF TypeOK
  <2>3. counter + Count[r] <= MaxNodes
        BY DEF CreateNodes
  <2> QED  BY <2>1, <2>2, <2>3
<1>2. new \subseteq Ids /\ counter' = counter + Count[r] /\ counter' \in 0 .. MaxNodes
      BY <1>1 DEF CreateNodes, Ids
<1>3. \A i \in new : ~(i < counter) /\ i < counter'
      BY <1>1, <1>2
<1>4. /\ ids' = [ids EXCEPT ![r] = new]
      /\ state' = [i \in Ids |-> IF i \in new THEN "pending" ELSE state[i]]
      /\ owner' = [i \in Ids |-> IF i \in new THEN r ELSE owner[i]]
      /\ call' = [call EXCEPT ![r] = "polling"]
      /\ seen' = [seen EXCEPT ![r] = new] /\ registered' = TRUE
      /\ stopping' = "no" /\ UNCHANGED <<returned, awaited, raised, stale>>
      BY DEF CreateNodes
<1>5. \A i \in Ids : i < counter => i < counter'
      BY <1>1, <1>2 DEF Ids
<1> HIDE DEF new
<1>6. TypeOK'
      BY <1>2, <1>4 DEF TypeOK, States
<1>7. CounterInv'
      BY <1>2, <1>3, <1>4, <1>5 DEF CounterInv
<1>8. OwnerInv'
  <2> SUFFICES ASSUME NEW s \in Requests, call'[s] = "polling", s \notin stale,
                      NEW i \in ids'[s]
               PROVE  state'[i] # "none" /\ owner'[i] = s
      BY <1>4 DEF OwnerInv
  <2>1. CASE s = r
        BY <1>2, <1>4, <2>1 DEF TypeOK
  <2>2. CASE s # r
    <3>1. call[s] = "polling" /\ i \in ids[s] /\ i \in Ids
          BY <1>4, <2>2 DEF TypeOK
    <3>2. state[i] # "none" /\ owner[i] = s
          BY <3>1 DEF OwnerInv
    <3>3. i \notin new
          BY <1>3, <3>1, <3>2 DEF CounterInv
    <3> QED  BY <1>4, <3>1, <3>2, <3>3
  <2> QED  BY <2>1, <2>2
<1> QED  BY <1>6, <1>7, <1>8

LEMMA PollStep ==
    ASSUME CallInv, NEW r \in Requests, Poll(r) \/ ConnectionFails(r)
    PROVE  CallInv'
<1> USE DEF CallInv, stopVars, clusterVars
<1>1. CASE PollAgain(r)
  <2>1. seen' \in [Requests -> SUBSET Ids]
        BY <1>1 DEF PollAgain, Monitored, Nodes, TypeOK
  <2>2. UNCHANGED <<call, ids, returned, stale, clusterVars>>
        BY <1>1 DEF PollAgain
  <2> QED  BY <2>1, <2>2 DEF TypeOK, CounterInv, OwnerInv
<1>2. CASE ~PollAgain(r)
  <2>1. PICK how \in {"error", "ready", "aborted", "partial"}, nodes \in SUBSET Ids :
            Return(r, how, nodes)
        BY <1>2 DEF Poll, PollRefused, ConnectionFails, PrintFails, AllReady, AllFailed,
                    SomeFailed, Monitored, Nodes
  <2>2. TypeOK'
        BY <2>1 DEF Return, TypeOK
  <2>3. CounterInv' /\ OwnerInv'
        BY <2>1 DEF Return, CounterInv, OwnerInv, TypeOK
  <2> QED  BY <2>2, <2>3
<1> QED  BY <1>1, <1>2

LEMMA NodeStep ==
    ASSUME CallInv, NEW i \in Ids, NodeRuns(i) \/ NodeFails(i) \/ NodeEnds(i) \/ NodeStop(i)
    PROVE  CallInv'
<1> USE DEF CallInv, callVars, stopVars
<1>1. /\ state' \in [Ids -> States \cup {"none"}]
      /\ \A j \in Ids : state'[j] = "none" <=> state[j] = "none"
  <2>1. CASE NodeRuns(i) \/ NodeFails(i) \/ NodeEnds(i)
        BY <2>1 DEF NodeRuns, NodeFails, NodeEnds, SetState, TypeOK, States
  <2>2. CASE NodeStopped(i)
        BY <2>2 DEF NodeStopped, Alive, TypeOK, States
  <2>3. CASE NodeStopFails(i)
        BY <2>3 DEF NodeStopFails, TypeOK
  <2> QED  BY <2>1, <2>2, <2>3 DEF NodeStop
<1>2. UNCHANGED <<call, ids, seen, returned, stale, registered, counter, owner>>
      BY DEF NodeRuns, NodeFails, NodeEnds, SetState, NodeStop, NodeStopped, NodeStopFails
<1>3. stopping' \in {"no", "yes", "failed"} /\ awaited' \subseteq Ids /\ raised' \subseteq Ids
  <2>1. CASE NodeStopped(i)
        BY <2>1 DEF NodeStopped, TypeOK
  <2>2. CASE NodeRuns(i) \/ NodeFails(i) \/ NodeEnds(i)
        BY <2>2 DEF NodeRuns, NodeFails, NodeEnds, SetState, TypeOK
  <2>3. CASE NodeStopFails(i)
        BY <2>3 DEF NodeStopFails, TypeOK
  <2> QED  BY <2>1, <2>2, <2>3 DEF NodeStop
<1>4. TypeOK'
      BY <1>1, <1>2, <1>3 DEF TypeOK
<1>5. CounterInv' /\ OwnerInv'
      BY <1>1, <1>2 DEF CounterInv, OwnerInv, TypeOK
<1> QED  BY <1>4, <1>5

LEMMA ClusterStep ==
    ASSUME CallInv, ClusterStop \/ ClusterRemoved
    PROVE  CallInv'
<1> USE DEF CallInv, callVars, stopVars
<1>1. CASE ClusterStopped
  <2>1. TypeOK'
    <3>1. counter' \in 0 .. MaxNodes
          BY <1>1, ProviderAssumption DEF ClusterStopped
    <3>2. /\ state' \in [Ids -> States \cup {"none"}]
          /\ owner' \in [Ids -> Requests \cup {None}]
          BY <1>1 DEF ClusterStopped
    <3> QED  BY <1>1, <3>1, <3>2 DEF ClusterStopped, TypeOK
  <2>2. CounterInv' /\ OwnerInv'
        BY <1>1 DEF ClusterStopped, CounterInv, OwnerInv
  <2> QED  BY <2>1, <2>2
<1>2. CASE ClusterRemoved
      BY <1>2 DEF ClusterRemoved, TypeOK, CounterInv, OwnerInv
<1>3. CASE ClusterStopFails
      BY <1>3 DEF ClusterStopFails, TypeOK, CounterInv, OwnerInv
<1> QED  BY <1>1, <1>2, <1>3 DEF ClusterStop

LEMMA CallStep == CallInv /\ [Next]_vars => CallInv'
<1> SUFFICES ASSUME CallInv, [Next]_vars PROVE CallInv'
    OBVIOUS
<1>1. CASE UNCHANGED vars
      BY <1>1 DEF vars, callVars, stopVars, clusterVars, CallInv, TypeOK, CounterInv, OwnerInv
<1> QED  BY <1>1, CreateStep, PollStep, NodeStep, ClusterStep DEF Next

LEMMA Invariants == Spec => []CallInv
<1> QED  BY CallInit, CallStep, PTL DEF Spec

-----------------------------------------------------------------------------
(* Theorems. *)

(* The calls and the cluster they poll keep their types; the counter stays     *)
(* within the nodes of a cluster.                                             *)
THEOREM TypeCorrect == Spec => []TypeOK
<1>1. CallInv => TypeOK
      BY DEF CallInv
<1> QED  BY <1>1, Invariants, PTL

(* Between two stops of a cluster no id is given out twice.                   *)
THEOREM DistinctIds == Spec => []IdsAreDistinct
<1>1. CallInv => IdsAreDistinct
      BY DEF CallInv, OwnerInv, IdsAreDistinct
<1> QED  BY <1>1, Invariants, PTL

(* "All requested nodes ready" is said of all the nodes the call asked for,    *)
(* and of none that another call created under their ids, unless the cluster  *)
(* was stopped meanwhile.                                                     *)
THEOREM ReadyIsTrue == Spec => ReadyMeansAllRun
<1>1. ASSUME CallInv, [Next]_vars
      PROVE  [\A r \in Requests :
                call[r] = "polling" /\ call'[r] = "ready" /\ r \notin stale
                  => /\ returned'[r] = ids[r]
                     /\ \A i \in ids[r] : state[i] = "running" /\ owner[i] = r]_vars
  <2> SUFFICES ASSUME NEW r \in Requests, call[r] = "polling", call'[r] = "ready",
                      r \notin stale, [Next]_vars
               PROVE  /\ returned'[r] = ids[r]
                      /\ \A i \in ids[r] : state[i] = "running" /\ owner[i] = r
      BY <1>1
  <2> USE DEF callVars, stopVars, clusterVars
  <2>1. AllReady(r)
    <3>1. \A s \in Requests : CreateNodes(s) => call'[r] # "ready"
          BY <1>1 DEF CreateNodes, CallInv, TypeOK
    <3>2. \A s \in Requests : Poll(s) \/ ConnectionFails(s) => s = r /\ AllReady(r)
          BY <1>1 DEF Poll, PollRefused, ConnectionFails, PrintFails, AllReady, AllFailed,
                      SomeFailed, PollAgain, Return, CallInv, TypeOK
    <3>3. ASSUME ~\E s \in Requests : CreateNodes(s) \/ Poll(s) \/ ConnectionFails(s)
          PROVE  UNCHANGED call
          BY <3>3 DEF Next, NodeRuns, NodeFails, NodeEnds, SetState, NodeStop, NodeStopped,
                      NodeStopFails, ClusterStop, ClusterStopped, ClusterStopFails,
                      ClusterRemoved, vars
    <3> QED  BY <3>1, <3>2, <3>3
  <2>2. \A i \in ids[r] : i \in Ids /\ state[i] # "none" /\ owner[i] = r
        BY <1>1 DEF CallInv, OwnerInv, TypeOK
  <2>3. Monitored(r) = ids[r]
        BY <2>2 DEF Monitored, Nodes
  <2> QED  BY <1>1, <2>1, <2>2, <2>3 DEF AllReady, AllAre, Return, CallInv, TypeOK
<1> QED  BY <1>1, Invariants, PTL DEF Spec, ReadyMeansAllRun
=============================================================================
