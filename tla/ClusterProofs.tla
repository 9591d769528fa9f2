---------------------------- MODULE ClusterProofs ----------------------------
(***************************************************************************)
(* Proofs about Cluster, for any requests, hashes and wants: the lock of a *)
(* hash keeps concurrent requests from creating two stacks for it, whoever *)
(* waits for it does so for one that can go on, one task stops the cluster *)
(* or has failed to, and no stack of a running cluster is left to nobody.  *)
(***************************************************************************)
EXTENDS Cluster, TLAPS

(* Between the look-up and the end of the start of a stack *)
Making(r) == request[r] \in {"creating", "starting"}

(* The lock is held all that time *)
HolderInv == \A r \in Requests : Making(r) => Holds(r)

(* Before the cluster has stopped no lock was replaced *)
EpochInv ==
    cluster # "terminated" => epoch = 0 /\ \A r \in Requests : at[r][1] = 0

(* Before that, a stack that runs is the one in the dictionary, and a stack is *)
(* created only where there is none                                          *)
DictInv ==
    cluster # "terminated" =>
        /\ \A s \in running : stacks[s[2]] = s
        /\ \A r \in Requests : request[r] = "creating" => stacks[Hash(r)] = NoStack

LockInv == TypeOK /\ HolderInv /\ EpochInv /\ DictInv

-----------------------------------------------------------------------------
(* What a request does at a lock. *)

(* Whoever waits behind does not change who holds a lock. *)
LEMMA AppendKeepsHead ==
    ASSUME NEW s \in Seq(Requests), NEW r \in Requests, s # <<>>
    PROVE  Append(s, r) # <<>> /\ Head(Append(s, r)) = Head(s)
OBVIOUS

(* Two requests that hold the same lock are one. *)
LEMMA OneHolder ==
    ASSUME NEW q \in Requests, NEW r \in Requests, Holds(q), Holds(r), at[q] = at[r]
    PROVE  q = r
BY DEF Holds

(* Hashes of one epoch name one lock. *)
LEMMA SameHash ==
    ASSUME TypeOK, EpochInv, cluster # "terminated",
           NEW q \in Requests, NEW r \in Requests, Hash(q) = Hash(r)
    PROVE  at[q] = at[r]
<1>1. /\ at[q] \in Locks /\ at[r] \in Locks
      /\ at[q][1] = at[r][1] /\ at[q][2] = at[r][2]
      BY DEF TypeOK, EpochInv, Hash
<1> QED  BY <1>1 DEF Locks

(* A stack a request creates is a stack, and never the absent one. *)
LEMMA NewStack ==
    ASSUME TypeOK, NEW r \in Requests
    PROVE  <<r, Hash(r)>> \in Stacks /\ <<r, Hash(r)>> # NoStack
BY ClusterAssumption DEF TypeOK, Hash, Locks, Stacks

-----------------------------------------------------------------------------
(* Types. *)

LEMMA TypeInit == Init => TypeOK
<1> SUFFICES ASSUME Init PROVE TypeOK
    OBVIOUS
<1>1. \A r \in Requests : <<0, Head(Wants[r])>> \in Locks
      BY ClusterAssumption DEF Locks
<1>2. at \in [Requests -> Locks]
      BY <1>1 DEF Init
<1> QED  BY <1>2 DEF Init, TypeOK, Locks

(* Leaving a lock, and going on to the next, keeps the types. *)
LEMMA GoOnTypes ==
    ASSUME TypeOK, NEW r \in Requests, Holds(r), NEW s \in Stacks, GoOnWith(r, s)
    PROVE  /\ lock' \in [Locks -> Seq(Requests)]
           /\ request' \in [Requests -> {"idle", "queued", "creating", "starting", "done", "failed"}]
           /\ at' \in [Requests -> Locks]
           /\ got' \in [Requests -> Seq(Stacks)]
           /\ node' \in [Requests -> {"none", "alive", "terminating", "terminated"}]
           /\ members' \subseteq Requests
<1> DEFINE n == Len(got[r]) + 1
<1>1. n \in Nat \ {0} /\ got' \in [Requests -> Seq(Stacks)]
      BY DEF TypeOK, GoOnWith
<1>2. Leave(r) \in [Locks -> Seq(Requests)]
      BY DEF TypeOK, Holds, Leave
<1>3. CASE n < Len(Wants[r])
  <2>1. Wants[r][n + 1] \in Hashes
        BY <1>1, <1>3, ClusterAssumption
  <2>2. <<epoch, Wants[r][n + 1]>> \in Locks
        BY <2>1 DEF TypeOK, Locks
  <2>3. at' \in [Requests -> Locks] /\ at'[r] \in Locks
        BY <1>3, <2>2 DEF TypeOK, GoOnWith
  <2>4. lock' = [Leave(r) EXCEPT ![at'[r]] = Append(Leave(r)[at'[r]], r)]
        BY <1>3 DEF GoOnWith
  <2>5. lock' \in [Locks -> Seq(Requests)]
        BY <1>2, <2>3, <2>4
  <2>6. /\ request' = [request EXCEPT ![r] = "queued"]
        /\ UNCHANGED <<node, members>>
        BY <1>3 DEF GoOnWith
  <2> QED  BY <1>1, <2>3, <2>5, <2>6 DEF TypeOK
<1>4. CASE ~(n < Len(Wants[r]))
  <2>1. /\ lock' = Leave(r) /\ request' = [request EXCEPT ![r] = "done"]
        /\ node' = [node EXCEPT ![r] = "alive"] /\ members' = members \cup {r}
        /\ at' = at
        BY <1>4 DEF GoOnWith
  <2> QED  BY <1>1, <1>2, <2>1 DEF TypeOK
<1> QED  BY <1>3, <1>4

LEMMA TypeStep == TypeOK /\ HolderInv /\ [Next]_vars => TypeOK'
<1> SUFFICES ASSUME TypeOK, HolderInv, [Next]_vars PROVE TypeOK'
    OBVIOUS
<1> USE DEF stackVars, requestVars, nodeVars
<1>1. CASE UNCHANGED vars
      BY <1>1 DEF vars, TypeOK
<1>2. ASSUME NEW r \in Requests, RequestArrives(r) PROVE TypeOK'
  <2>1. Head(Wants[r]) \in Hashes
        BY ClusterAssumption
  <2>2. at' \in [Requests -> Locks] /\ at'[r] \in Locks
        BY <1>2, <2>1 DEF RequestArrives, TypeOK, Locks
  <2> QED  BY <1>2, <2>2 DEF RequestArrives, TypeOK
<1>3. ASSUME NEW r \in Requests, FoundStack(r) PROVE TypeOK'
  <2>1. stacks[Hash(r)] \in Stacks
        BY <1>3 DEF FoundStack, TypeOK, Hash, Locks
  <2> QED  BY <1>3, <2>1, GoOnTypes DEF FoundStack, TypeOK
<1>4. ASSUME NEW r \in Requests, CreateStack(r) PROVE TypeOK'
      BY <1>4 DEF CreateStack, TypeOK
<1>5. ASSUME NEW r \in Requests, StackCreated(r) PROVE TypeOK'
      BY <1>5, NewStack DEF StackCreated, TypeOK
<1>6. ASSUME NEW r \in Requests, StackStarted(r) PROVE TypeOK'
  <2>1. Holds(r)
        BY <1>6 DEF StackStarted, HolderInv, Making
  <2> QED  BY <1>6, <2>1, NewStack, GoOnTypes DEF StackStarted, TypeOK
<1>7. ASSUME NEW r \in Requests, StackFails(r) PROVE TypeOK'
  <2>1. Holds(r)
        BY <1>7 DEF StackFails, HolderInv, Making
  <2> QED  BY <1>7, <2>1 DEF StackFails, Holds, Leave, TypeOK
<1>8. ASSUME NEW r \in Requests, NodeStartFails(r) PROVE TypeOK'
      BY <1>8 DEF NodeStartFails, TypeOK
<1>9. ASSUME NEW r \in Requests, NodeStops(r) PROVE TypeOK'
      BY <1>9 DEF NodeStops, TypeOK
<1>10. ASSUME NEW r \in Requests, NodeStopped(r) PROVE TypeOK'
      BY <1>10 DEF NodeStopped, BeingStopped, TypeOK
<1>11. ASSUME NEW r \in Requests, FindUnusedStacks(r) \/ StopUnusedStacks(r) PROVE TypeOK'
  <2>1. /\ unused' \in [Requests -> SUBSET Stacks] /\ running' \subseteq Stacks
    <3>1. CASE FindUnusedStacks(r)
      <4> DEFINE found == {s \in Stacks : Uses(r, s) /\ \A n \in Live : ~Uses(n, s)}
      <4>1. found \in SUBSET Stacks
            OBVIOUS
      <4>2. unused' = [unused EXCEPT ![r] = found] /\ running' = running
            BY <3>1 DEF FindUnusedStacks
      <4> HIDE DEF found
      <4> QED  BY <4>1, <4>2 DEF TypeOK
    <3>2. CASE StopUnusedStacks(r)
          BY <3>2 DEF StopUnusedStacks, TypeOK
    <3> QED  BY <1>11, <3>1, <3>2
  <2>2. \E x \in {"gather", "done"} : onStop' = [onStop EXCEPT ![r] = x]
        BY <1>11 DEF FindUnusedStacks, StopUnusedStacks
  <2>3. UNCHANGED <<cluster, stacks, epoch, lock, requestVars, node, raised, members, notify>>
        BY <1>11 DEF FindUnusedStacks, StopUnusedStacks
  <2> QED  BY <2>1, <2>2, <2>3 DEF TypeOK
<1>12. ASSUME NEW r \in Requests, StopRefused(r) PROVE TypeOK'
      BY <1>12 DEF StopRefused, TypeOK
<1>13. ASSUME NEW r \in Requests, StopCluster(r) PROVE TypeOK'
      BY <1>13 DEF StopCluster, TypeOK
<1>14. ASSUME NEW r \in Requests, StopAllStacks(r) PROVE TypeOK'
      BY <1>14 DEF StopAllStacks, TypeOK
<1>15. ASSUME NEW r \in Requests, ClusterStopFails(r) \/ ClusterStopped(r) PROVE TypeOK'
      BY <1>15 DEF ClusterStopFails, ClusterStopped, TypeOK
<1>16. ASSUME NEW r \in Requests, NodeStopFails(r) PROVE TypeOK'
      BY <1>16 DEF NodeStopFails, TypeOK
<1> QED
    BY <1>1, <1>2, <1>3, <1>4, <1>5, <1>6, <1>7, <1>8, <1>9, <1>10, <1>11, <1>12, <1>13,
       <1>14, <1>15, <1>16 DEF Next, RequestStep, NodeStep, StopStep

-----------------------------------------------------------------------------
(* A lock and those that hold it. *)

(* A request that leaves its lock leaves what others hold to them. *)
LEMMA LeaveKeepsHolders ==
    ASSUME TypeOK, NEW r \in Requests, Holds(r),
           NEW q \in Requests, q # r, Holds(q)
    PROVE  Leave(r)[at[q]] = lock[at[q]]
<1>1. at[q] # at[r]
      BY OneHolder
<1> QED  BY <1>1 DEF TypeOK, Leave

LEMMA GoOnKeepsHolders ==
    ASSUME TypeOK, NEW r \in Requests, Holds(r), NEW s \in Stacks, GoOnWith(r, s),
           NEW q \in Requests, q # r, Holds(q)
    PROVE  Holds(q)' /\ at'[q] = at[q]
<1> DEFINE n == Len(got[r]) + 1
<1>1. Leave(r) \in [Locks -> Seq(Requests)] /\ Leave(r)[at[q]] = lock[at[q]]
      BY LeaveKeepsHolders DEF TypeOK, Holds, Leave
<1>2. at[q] \in Locks /\ lock[at[q]] \in Seq(Requests) /\ lock[at[q]] # <<>>
      BY DEF TypeOK, Holds
<1>3. CASE n < Len(Wants[r])
  <2>1. at'[q] = at[q]
        BY <1>3 DEF GoOnWith, TypeOK
  <2>2. lock' = [Leave(r) EXCEPT ![at'[r]] = Append(Leave(r)[at'[r]], r)]
        BY <1>3 DEF GoOnWith
  <2>3. lock'[at[q]] \in {lock[at[q]], Append(lock[at[q]], r)}
        BY <1>1, <1>2, <2>2
  <2> QED  BY <1>2, <2>1, <2>3, AppendKeepsHead DEF Holds
<1>4. CASE ~(n < Len(Wants[r]))
      BY <1>1, <1>4 DEF GoOnWith, Holds
<1> QED  BY <1>3, <1>4

(* After it went on, a request makes no stack. *)
LEMMA GoOnRequest ==
    ASSUME TypeOK, NEW r \in Requests, NEW s \in Stacks, GoOnWith(r, s)
    PROVE  /\ ~Making(r)'
           /\ \A q \in Requests \ {r} : request'[q] = request[q] /\ at'[q] = at[q]
           /\ at'[r] \in {at[r], <<epoch, at'[r][2]>>}
BY DEF TypeOK, GoOnWith, Making

(* The lock is held while a stack is made, whatever step is taken. *)
LEMMA HolderStep == TypeOK /\ HolderInv /\ [Next]_vars => HolderInv'
<1> SUFFICES ASSUME TypeOK, HolderInv, [Next]_vars,
                    NEW q \in Requests, Making(q)'
             PROVE  Holds(q)'
    BY DEF HolderInv
<1> USE DEF stackVars, requestVars, nodeVars
<1>1. CASE UNCHANGED vars
      BY <1>1 DEF vars, HolderInv, Holds, Making
<1>2. ASSUME NEW r \in Requests, RequestArrives(r) PROVE Holds(q)'
  <2>1. q # r /\ Making(q) /\ at'[q] = at[q] /\ Holds(q)
        BY <1>2 DEF RequestArrives, TypeOK, Making, HolderInv
  <2>2. lock'[at[q]] \in {lock[at[q]], Append(lock[at[q]], r)}
        BY <1>2 DEF RequestArrives, TypeOK
  <2>3. lock[at[q]] \in Seq(Requests) /\ lock[at[q]] # <<>>
        BY <2>1 DEF TypeOK, Holds
  <2> QED  BY <2>1, <2>2, <2>3, AppendKeepsHead DEF Holds
<1>3. ASSUME NEW r \in Requests, NEW s \in Stacks, Holds(r), GoOnWith(r, s) PROVE Holds(q)'
  <2>1. q # r /\ Making(q)
        BY <1>3, GoOnRequest DEF Making
  <2> QED  BY <1>3, <2>1, GoOnKeepsHolders DEF HolderInv
<1>4. ASSUME NEW r \in Requests, FoundStack(r) PROVE Holds(q)'
  <2>1. stacks[Hash(r)] \in Stacks
        BY <1>4 DEF FoundStack, TypeOK, Hash, Locks
  <2> QED  BY <1>3, <1>4, <2>1 DEF FoundStack
<1>5. ASSUME NEW r \in Requests, StackStarted(r) PROVE Holds(q)'
      BY <1>3, <1>5, NewStack DEF StackStarted, HolderInv, Making
<1>6. ASSUME NEW r \in Requests, CreateStack(r) PROVE Holds(q)'
      BY <1>6 DEF CreateStack, TypeOK, Making, HolderInv, Holds
<1>7. ASSUME NEW r \in Requests, StackCreated(r) PROVE Holds(q)'
      BY <1>7 DEF StackCreated, TypeOK, Making, HolderInv, Holds
<1>8. ASSUME NEW r \in Requests, StackFails(r) PROVE Holds(q)'
  <2>1. q # r /\ Making(q) /\ Making(r) /\ at' = at /\ lock' = Leave(r)
        BY <1>8 DEF StackFails, TypeOK, Making
  <2> QED  BY <2>1, LeaveKeepsHolders DEF HolderInv, Holds
<1>9. ASSUME NEW r \in Requests,
             NodeStep(r) \/ StopStep(r)
      PROVE  Holds(q)'
  <2>1. UNCHANGED <<lock, request, at>>
        BY <1>9 DEF NodeStep, NodeStartFails, NodeStops, NodeStopped, NodeStopFails,
                    StopStep, FindUnusedStacks, StopUnusedStacks, StopRefused, StopCluster,
                    StopAllStacks, ClusterStopFails, ClusterStopped
  <2> QED  BY <2>1 DEF HolderInv, Holds, Making
<1> QED
    BY <1>1, <1>2, <1>4, <1>5, <1>6, <1>7, <1>8, <1>9 DEF Next, RequestStep

-----------------------------------------------------------------------------
(* The epoch of the locks, and the dictionary they protect. *)

LEMMA EpochStep == TypeOK /\ EpochInv /\ [Next]_vars => EpochInv'
<1> SUFFICES ASSUME TypeOK, EpochInv, [Next]_vars, cluster' # "terminated"
             PROVE  epoch' = 0 /\ \A r \in Requests : at'[r][1] = 0
    BY DEF EpochInv
<1> USE DEF stackVars, requestVars, nodeVars
<1>1. CASE UNCHANGED vars
      BY <1>1 DEF vars, EpochInv
<1>2. ASSUME NEW r \in Requests, RequestArrives(r)
      PROVE  epoch' = 0 /\ \A q \in Requests : at'[q][1] = 0
      BY <1>2 DEF RequestArrives, EpochInv, TypeOK
<1>3. ASSUME NEW r \in Requests, NEW s \in Stacks, GoOnWith(r, s),
             UNCHANGED <<cluster, epoch>>
      PROVE  epoch' = 0 /\ \A q \in Requests : at'[q][1] = 0
  <2>1. at'[r][1] = 0
        BY <1>3, GoOnRequest DEF EpochInv
  <2> QED  BY <1>3, <2>1, GoOnRequest DEF EpochInv
<1>4. ASSUME NEW r \in Requests, FoundStack(r)
      PROVE  epoch' = 0 /\ \A q \in Requests : at'[q][1] = 0
  <2>1. stacks[Hash(r)] \in Stacks
        BY <1>4 DEF FoundStack, TypeOK, Hash, Locks
  <2> QED  BY <1>3, <1>4, <2>1 DEF FoundStack
<1>5. ASSUME NEW r \in Requests, StackStarted(r)
      PROVE  epoch' = 0 /\ \A q \in Requests : at'[q][1] = 0
      BY <1>3, <1>5, NewStack DEF StackStarted
<1>6. ASSUME NEW r \in Requests,
             \/ CreateStack(r) \/ StackCreated(r) \/ StackFails(r)
             \/ NodeStep(r) \/ StopStep(r)
      PROVE  epoch' = 0 /\ \A q \in Requests : at'[q][1] = 0
  <2>1. cluster # "terminated" /\ UNCHANGED <<epoch, at>>
        BY <1>6 DEF CreateStack, StackCreated, StackFails, NodeStep, NodeStartFails,
                    NodeStops, NodeStopped, NodeStopFails, StopStep, FindUnusedStacks,
                    StopUnusedStacks, StopRefused, StopCluster, StopAllStacks,
                    ClusterStopFails, ClusterStopped
  <2> QED  BY <2>1 DEF EpochInv
<1> QED
    BY <1>1, <1>2, <1>4, <1>5, <1>6 DEF Next, RequestStep

(* A stack that runs is the one in the dictionary, whatever step is taken. *)
LEMMA DictStep ==
    TypeOK /\ HolderInv /\ EpochInv /\ DictInv /\ [Next]_vars => DictInv'
<1> SUFFICES ASSUME TypeOK, HolderInv, EpochInv, DictInv, [Next]_vars,
                    cluster' # "terminated"
             PROVE  /\ \A s \in running' : stacks'[s[2]] = s
                    /\ \A q \in Requests :
                          request'[q] = "creating" => stacks'[Hash(q)'] = NoStack
    BY DEF DictInv
<1> USE DEF stackVars, requestVars, nodeVars
<1> DEFINE Goal == /\ \A s \in running' : stacks'[s[2]] = s
                   /\ \A q \in Requests :
                         request'[q] = "creating" => stacks'[Hash(q)'] = NoStack
<1>1. CASE UNCHANGED vars
      BY <1>1 DEF vars, DictInv, Hash
<1>2. ASSUME NEW r \in Requests, RequestArrives(r) PROVE Goal
      BY <1>2 DEF RequestArrives, TypeOK, DictInv, Hash
<1>3. ASSUME NEW r \in Requests, NEW s \in Stacks, GoOnWith(r, s),
             UNCHANGED <<cluster, stacks, running>>
      PROVE  Goal
  <2>1. \A q \in Requests : request'[q] = "creating" =>
            request[q] = "creating" /\ Hash(q)' = Hash(q)
        BY <1>3, GoOnRequest DEF Making, Hash
  <2> QED  BY <1>3, <2>1 DEF DictInv
<1>4. ASSUME NEW r \in Requests, FoundStack(r) PROVE Goal
  <2>1. stacks[Hash(r)] \in Stacks
        BY <1>4 DEF FoundStack, TypeOK, Hash, Locks
  <2> QED  BY <1>3, <1>4, <2>1 DEF FoundStack
<1>5. ASSUME NEW r \in Requests, StackStarted(r) PROVE Goal
      BY <1>3, <1>5, NewStack DEF StackStarted
<1>6. ASSUME NEW r \in Requests, CreateStack(r) PROVE Goal
      BY <1>6 DEF CreateStack, TypeOK, DictInv, Hash
<1>7. ASSUME NEW r \in Requests, StackCreated(r) PROVE Goal
  <2> DEFINE new == <<r, Hash(r)>>
  <2>1. /\ cluster # "terminated" /\ request[r] = "creating" /\ at' = at
        /\ stacks' = [stacks EXCEPT ![Hash(r)] = new]
        /\ running' = running \cup {new}
        /\ request' = [request EXCEPT ![r] = "starting"]
        BY <1>7 DEF StackCreated
  <2>2. stacks[Hash(r)] = NoStack /\ Hash(r) \in Hashes
        BY <2>1 DEF DictInv, TypeOK, Hash, Locks
  <2>3. ASSUME NEW s \in running PROVE s[2] # Hash(r)
    <3>1. s \in Stacks /\ stacks[s[2]] = s
          BY <2>1 DEF TypeOK, DictInv
    <3> QED  BY <2>2, <3>1, ClusterAssumption DEF Stacks
  <2>4. \A s \in running' : stacks'[s[2]] = s
    <3>1. ASSUME NEW s \in running PROVE stacks'[s[2]] = s
      <4>1. s \in Stacks /\ stacks[s[2]] = s
            BY <2>1 DEF TypeOK, DictInv
      <4>2. s[2] \in Hashes
            BY <4>1 DEF Stacks
      <4> QED  BY <2>1, <2>3, <4>1, <4>2 DEF TypeOK
    <3>2. stacks'[new[2]] = new
          BY <2>1, <2>2 DEF TypeOK
    <3> QED  BY <2>1, <3>1, <3>2
  <2>5. ASSUME NEW q \in Requests, request'[q] = "creating"
        PROVE  stacks'[Hash(q)'] = NoStack
    <3>1. q # r /\ request[q] = "creating" /\ Hash(q)' = Hash(q)
          BY <2>1, <2>5 DEF TypeOK, Hash
    <3>2. Holds(q) /\ Holds(r)
          BY <2>1, <3>1 DEF HolderInv, Making
    <3>3. Hash(q) # Hash(r)
          BY <2>1, <3>1, <3>2, SameHash, OneHolder
    <3>4. Hash(q) \in Hashes /\ stacks[Hash(q)] = NoStack
          BY <2>1, <3>1 DEF DictInv, TypeOK, Hash, Locks
    <3> QED  BY <2>1, <3>1, <3>3, <3>4 DEF TypeOK
  <2> QED  BY <2>4, <2>5
<1>8. ASSUME NEW r \in Requests, StackFails(r) PROVE Goal
      BY <1>8 DEF StackFails, TypeOK, DictInv, Hash
<1>9. ASSUME NEW r \in Requests,
             NodeStep(r) \/ StopStep(r)
      PROVE  Goal
  <2>1. /\ cluster # "terminated" /\ running' \subseteq running
        /\ UNCHANGED <<stacks, request, at>>
        BY <1>9 DEF NodeStep, NodeStartFails, NodeStops, NodeStopped, NodeStopFails,
                    StopStep, FindUnusedStacks, StopUnusedStacks, StopRefused, StopCluster,
                    StopAllStacks, ClusterStopFails, ClusterStopped
  <2> QED  BY <2>1 DEF DictInv, Hash
<1> QED
    BY <1>1, <1>2, <1>4, <1>5, <1>6, <1>7, <1>8, <1>9 DEF Next, RequestStep

-----------------------------------------------------------------------------
LEMMA LockInvInit == Init => LockInv
<1> SUFFICES ASSUME Init PROVE HolderInv /\ EpochInv /\ DictInv
    BY TypeInit DEF LockInv
<1> QED  BY DEF Init, HolderInv, Making, EpochInv, DictInv

LEMMA LockInvariance == Spec => []LockInv
<1>1. LockInv /\ [Next]_vars => LockInv'
      BY TypeStep, HolderStep, EpochStep, DictStep DEF LockInv
<1> QED  BY <1>1, LockInvInit, PTL DEF Spec

(* The variables of a cluster and of its requests keep their types. *)
THEOREM ClusterTypes == Spec => []TypeOK
<1>1. LockInv => TypeOK
      BY DEF LockInv
<1> QED  BY <1>1, LockInvariance, PTL

(* However many requests of whatever configurations interleave, no two stacks  *)
(* of one hash run until the cluster has stopped: the lock of                 *)
(* _get_or_create_manager_stack is held from the look-up to the end of start(). *)
THEOREM OneStack == Spec => []OneStackPerHash
<1>1. LockInv => OneStackPerHash
      BY DEF LockInv, DictInv, OneStackPerHash
<1> QED  BY <1>1, LockInvariance, PTL

-----------------------------------------------------------------------------
(* The stop of the cluster. *)

(* One task stops the cluster, or has failed to, while it is terminating *)
StopInv ==
    \A r \in Requests : Stopper(r) =>
        /\ cluster = "terminating"
        /\ \A q \in Requests : Stopper(q) => q = r

LEMMA StopInvStep == TypeOK /\ StopInv /\ [Next]_vars => StopInv'
<1> SUFFICES ASSUME TypeOK, StopInv, [Next]_vars PROVE StopInv'
    OBVIOUS
<1> USE DEF stackVars, requestVars, nodeVars
<1>1. ASSUME cluster' = cluster, \A q \in Requests : Stopper(q)' => Stopper(q)
      PROVE  StopInv'
      BY <1>1 DEF StopInv
<1>2. CASE UNCHANGED vars
      BY <1>1, <1>2 DEF vars, Stopper
<1>3. ASSUME NEW r \in Requests,
             \/ RequestArrives(r) \/ RequestStep(r) \/ NodeStep(r)
             \/ FindUnusedStacks(r) \/ StopUnusedStacks(r) \/ StopRefused(r)
      PROVE  StopInv'
  <2>1. /\ cluster' = cluster
        /\ \/ onStop' = onStop
           \/ \E x \in {"ready", "gather", "done"} : onStop' = [onStop EXCEPT ![r] = x]
    <3>1. CASE RequestArrives(r) \/ RequestStep(r)
          BY <3>1 DEF RequestArrives, RequestStep, FoundStack, CreateStack, StackCreated,
                      StackStarted, StackFails
    <3>2. CASE NodeStartFails(r) \/ NodeStops(r) \/ NodeStopFails(r)
          BY <3>2 DEF NodeStartFails, NodeStops, NodeStopFails
    <3>3. CASE NodeStopped(r)
          BY <3>3 DEF NodeStopped, TypeOK
    <3>4. CASE FindUnusedStacks(r)
          BY <3>4 DEF FindUnusedStacks
    <3>5. CASE StopUnusedStacks(r) \/ StopRefused(r)
          BY <3>5 DEF StopUnusedStacks, StopRefused
    <3> QED  BY <1>3, <3>1, <3>2, <3>3, <3>4, <3>5 DEF NodeStep
  <2> QED  BY <1>1, <2>1 DEF TypeOK, Stopper
<1>4. ASSUME NEW r \in Requests, StopCluster(r) PROVE StopInv'
  <2>1. cluster = "running" /\ cluster' = "terminating" /\ onStop' = [onStop EXCEPT ![r] = "nodes"]
        BY <1>4 DEF StopCluster
  <2>2. \A q \in Requests : ~Stopper(q)
        BY <2>1 DEF StopInv
  <2>3. \A q \in Requests : Stopper(q)' => q = r
        BY <2>1, <2>2 DEF Stopper, TypeOK
  <2> QED  BY <2>1, <2>3 DEF StopInv
<1>5. ASSUME NEW r \in Requests, StopAllStacks(r) \/ ClusterStopFails(r) PROVE StopInv'
  <2>1. /\ onStop[r] \in {"nodes", "stacks"} /\ cluster' = cluster
        /\ \E x \in {"stacks", "failed"} : onStop' = [onStop EXCEPT ![r] = x]
        BY <1>5 DEF StopAllStacks, ClusterStopFails
  <2>2. \A q \in Requests : Stopper(q)' => Stopper(q)
        BY <2>1 DEF Stopper, TypeOK
  <2> QED  BY <1>1, <2>1, <2>2
<1>6. ASSUME NEW r \in Requests, ClusterStopped(r) PROVE StopInv'
  <2>1. onStop[r] = "stacks" /\ onStop' = [onStop EXCEPT ![r] = "done"]
        BY <1>6 DEF ClusterStopped
  <2>2. \A q \in Requests : Stopper(q) => q = r
        BY <2>1 DEF StopInv, Stopper
  <2>3. \A q \in Requests : ~Stopper(q)'
        BY <2>1, <2>2 DEF Stopper, TypeOK
  <2> QED  BY <2>3 DEF StopInv
<1> QED  BY <1>2, <1>3, <1>4, <1>5, <1>6 DEF Next, StopStep

LEMMA StopInvariance == Spec => []StopInv
<1>1. Init => StopInv
      BY DEF Init, StopInv, Stopper
<1> QED  BY <1>1, StopInvStep, ClusterTypes, PTL DEF Spec

(* A request, its node and the task of the node's on_stop come in turn, and a   *)
(* cluster that is terminating has a task that stops it, or has failed to     *)
StopperInv ==
    /\ \A r \in Requests : /\ node[r] # "none" => request[r] = "done"
                           /\ onStop[r] # "none" => node[r] = "terminated"
    /\ cluster = "terminating" => \E r \in Requests : Stopper(r)

LEMMA StopperStep == TypeOK /\ StopperInv /\ [Next]_vars => StopperInv'
<1> SUFFICES ASSUME TypeOK, StopperInv, [Next]_vars PROVE StopperInv'
    OBVIOUS
<1> USE DEF stackVars, requestVars, nodeVars
<1>1. CASE UNCHANGED vars
      BY <1>1 DEF vars, StopperInv, Stopper
<1>2. ASSUME NEW r \in Requests, request[r] # "done", UNCHANGED <<cluster, onStop>>,
             NEW x \in {"queued", "creating", "starting", "failed", "done"},
             request' = [request EXCEPT ![r] = x],
             node' = IF x = "done" THEN [node EXCEPT ![r] = "alive"] ELSE node
      PROVE  StopperInv'
  <2>1. node[r] = "none" /\ onStop[r] = "none"
        BY <1>2 DEF StopperInv
  <2>2. \A q \in Requests \ {r} : node'[q] = node[q] /\ request'[q] = request[q]
        BY <1>2 DEF TypeOK
  <2>3. node'[r] # "none" => request'[r] = "done"
        BY <1>2, <2>1 DEF TypeOK
  <2> QED  BY <1>2, <2>1, <2>2, <2>3 DEF StopperInv, Stopper
<1>3. ASSUME NEW r \in Requests, RequestArrives(r) PROVE StopperInv'
      BY <1>2, <1>3 DEF RequestArrives
<1>4. ASSUME NEW r \in Requests, NEW s, request[r] # "done", GoOnWith(r, s),
             UNCHANGED <<cluster, onStop>>
      PROVE  StopperInv'
      BY <1>2, <1>4 DEF GoOnWith
<1>5. ASSUME NEW r \in Requests, RequestStep(r) PROVE StopperInv'
  <2>1. CASE FoundStack(r)
        BY <1>4, <2>1 DEF FoundStack
  <2>2. CASE StackStarted(r)
        BY <1>4, <2>2 DEF StackStarted
  <2>3. CASE CreateStack(r) \/ StackCreated(r) \/ StackFails(r)
        BY <1>2, <2>3 DEF CreateStack, StackCreated, StackFails
  <2> QED  BY <1>5, <2>1, <2>2, <2>3 DEF RequestStep
<1>6. ASSUME NEW r \in Requests, NodeStartFails(r) \/ NodeStops(r) PROVE StopperInv'
  <2>1. /\ node[r] = "alive" /\ UNCHANGED <<cluster, request, onStop>>
        /\ \/ node' = [node EXCEPT ![r] = "terminated"]
           \/ node' = [node EXCEPT ![r] = "terminating"]
        BY <1>6 DEF NodeStartFails, NodeStops
  <2> QED  BY <2>1 DEF StopperInv, Stopper, TypeOK
<1>7. ASSUME NEW r \in Requests, NodeStopped(r) PROVE StopperInv'
  <2>1. /\ node[r] = "terminating" /\ UNCHANGED <<cluster, request>>
        /\ node' = [node EXCEPT ![r] = "terminated"]
        /\ onStop' = [onStop EXCEPT ![r] = IF notify[r] THEN "ready" ELSE @]
        BY <1>7 DEF NodeStopped, BeingStopped
  <2>2. onStop[r] = "none"
        BY <2>1 DEF StopperInv
  <2>3. \A q \in Requests : Stopper(q) => Stopper(q)'
        BY <2>1, <2>2 DEF Stopper, TypeOK
  <2> QED  BY <2>1, <2>3 DEF StopperInv, TypeOK
<1>8. ASSUME NEW r \in Requests,
             FindUnusedStacks(r) \/ StopUnusedStacks(r) \/ StopRefused(r)
      PROVE  StopperInv'
  <2>1. /\ onStop[r] \in {"ready", "gather"} /\ UNCHANGED <<cluster, request, node>>
        /\ \E x \in {"gather", "done"} : onStop' = [onStop EXCEPT ![r] = x]
        BY <1>8 DEF FindUnusedStacks, StopUnusedStacks, StopRefused
  <2> QED  BY <2>1 DEF StopperInv, Stopper, TypeOK
<1>9. ASSUME NEW r \in Requests, StopCluster(r) PROVE StopperInv'
  <2>1. /\ onStop[r] = "ready" /\ UNCHANGED request
        /\ onStop' = [onStop EXCEPT ![r] = "nodes"]
        /\ node' = [n \in Requests |-> IF n \in Live THEN "terminating" ELSE node[n]]
        BY <1>9 DEF StopCluster
  <2>2. \A n \in Live : node[n] = "alive"
        BY DEF Live
  <2>3. Stopper(r)'
        BY <2>1 DEF Stopper, TypeOK
  <2> QED  BY <2>1, <2>2, <2>3 DEF StopperInv, TypeOK
<1>10. ASSUME NEW r \in Requests, StopAllStacks(r) \/ ClusterStopFails(r) PROVE StopperInv'
  <2>1. /\ onStop[r] \in {"nodes", "stacks"} /\ UNCHANGED <<cluster, request, node>>
        /\ \E x \in {"stacks", "failed"} : onStop' = [onStop EXCEPT ![r] = x]
        BY <1>10 DEF StopAllStacks, ClusterStopFails
  <2> QED  BY <2>1 DEF StopperInv, Stopper, TypeOK
<1>11. ASSUME NEW r \in Requests, ClusterStopped(r) PROVE StopperInv'
  <2>1. /\ onStop[r] = "stacks" /\ cluster' = "terminated" /\ UNCHANGED <<request, node>>
        /\ onStop' = [onStop EXCEPT ![r] = "done"]
        BY <1>11 DEF ClusterStopped
  <2> QED  BY <2>1 DEF StopperInv, TypeOK
<1>12. ASSUME NEW r \in Requests, NodeStopFails(r) PROVE StopperInv'
      BY <1>12 DEF NodeStopFails, StopperInv, Stopper
<1> QED
    BY <1>1, <1>3, <1>5, <1>6, <1>7, <1>8, <1>9, <1>10, <1>11, <1>12
    DEF Next, NodeStep, StopStep

LEMMA StopperInvariance == Spec => []StopperInv
<1>1. Init => StopperInv
      BY DEF Init, StopperInv
<1> QED  BY <1>1, StopperStep, ClusterTypes, PTL DEF Spec

OneTaskStops ==
    /\ cluster = "terminating" <=> \E r \in Requests : Stopper(r)
    /\ \A q, r \in Requests : Stopper(q) /\ Stopper(r) => q = r

(* Cluster._on_node_stop, stop: however many nodes end at once, one task begins  *)
(* to stop the cluster; the cluster is terminating as long as that task goes on  *)
(* and for ever after it failed, and never for another reason (the safety part   *)
(* of StopEnds).                                                                 *)
THEOREM StopperIsOne == Spec => []OneTaskStops
<1>1. StopInv /\ StopperInv => OneTaskStops
      BY DEF StopInv, StopperInv, OneTaskStops
<1> QED  BY <1>1, StopInvariance, StopperInvariance, PTL

-----------------------------------------------------------------------------
(* Who minds a stack. *)

(* A stack that runs is in the hands of the request that made it *)
MakerInv ==
    \A s \in running : \/ Uses(s[1], s)
                       \/ request[s[1]] = "failed"
                       \/ request[s[1]] = "starting" /\ s = <<s[1], Hash(s[1])>>

(* Who calls back when a node ends *)
NotifyInv ==
    \A r \in Requests :
        /\ notify[r] => node[r] \in {"terminating", "terminated"}
        /\ r \in raised => node[r] = "terminating"
        /\ cluster = "running" /\ node[r] = "terminating" => notify[r]

MindInv == MakerInv /\ NotifyInv /\ StacksAreMinded

(* What a request gets is added to what it had. *)
LEMMA GoOnUses ==
    ASSUME TypeOK, NEW q \in Requests, NEW t \in Stacks, GoOnWith(q, t)
    PROVE  /\ Uses(q, t)'
           /\ \A r \in Requests : \A s \in Stacks : Uses(r, s) => Uses(r, s)'
<1>1. got' = [got EXCEPT ![q] = Append(@, t)] /\ got[q] \in Seq(Stacks)
      BY DEF TypeOK, GoOnWith
<1> DEFINE n == Len(got[q])
<1>2. /\ n \in Nat /\ DOMAIN got[q] = 1 .. n /\ DOMAIN got'[q] = 1 .. n + 1
      /\ got'[q][n + 1] = t /\ \A i \in 1 .. n : got'[q][i] = got[q][i]
      BY <1>1 DEF TypeOK
<1>3. n + 1 \in DOMAIN got'[q] /\ DOMAIN got[q] \subseteq DOMAIN got'[q]
      BY <1>2
<1> HIDE DEF n
<1>4. Uses(q, t)'
      BY <1>2, <1>3 DEF Uses
<1>5. ASSUME NEW s \in Stacks, Uses(q, s) PROVE Uses(q, s)'
  <2>1. PICK i \in DOMAIN got[q] : got[q][i] = s
        BY <1>5 DEF Uses
  <2> QED  BY <1>2, <1>3, <2>1 DEF Uses
<1>6. \A r \in Requests \ {q} : got'[r] = got[r]
      BY <1>1 DEF TypeOK
<1> QED  BY <1>4, <1>5, <1>6 DEF Uses

(* A stack that runs stays in the hands of its maker. *)
LEMMA MakerStep == TypeOK /\ MakerInv /\ [Next]_vars => MakerInv'
<1> SUFFICES ASSUME TypeOK, MakerInv, [Next]_vars PROVE MakerInv'
    OBVIOUS
<1> USE DEF stackVars, requestVars, nodeVars
<1>0. \A s \in running : s \in Stacks /\ s[1] \in Requests
      BY DEF TypeOK, Stacks
<1>1. CASE UNCHANGED vars
      BY <1>1 DEF vars, MakerInv, Uses, Hash
<1>2. ASSUME NEW r \in Requests, RequestArrives(r) PROVE MakerInv'
      BY <1>0, <1>2 DEF RequestArrives, MakerInv, Uses, Hash, TypeOK
<1>3. ASSUME NEW r \in Requests, NEW t \in Stacks, GoOnWith(r, t), UNCHANGED running,
             \/ request[r] = "queued"
             \/ request[r] = "starting" /\ t = <<r, Hash(r)>>
      PROVE  MakerInv'
  <2> SUFFICES ASSUME NEW s \in running
               PROVE  \/ Uses(s[1], s)'
                      \/ request'[s[1]] = "failed"
                      \/ request'[s[1]] = "starting" /\ s = <<s[1], Hash(s[1])'>>
      BY <1>3 DEF MakerInv
  <2>1. Uses(r, t)' /\ (Uses(s[1], s) => Uses(s[1], s)')
        BY <1>0, <1>3, GoOnUses
  <2>2. CASE s[1] = r
        BY <1>3, <2>1, <2>2 DEF MakerInv
  <2>3. CASE s[1] # r
    <3>1. request'[s[1]] = request[s[1]] /\ Hash(s[1])' = Hash(s[1])
          BY <1>0, <1>3, <2>3, GoOnRequest DEF Hash
    <3> QED  BY <2>1, <3>1 DEF MakerInv
  <2> QED  BY <2>2, <2>3
<1>4. ASSUME NEW r \in Requests, FoundStack(r) PROVE MakerInv'
  <2>1. stacks[Hash(r)] \in Stacks
        BY <1>4 DEF FoundStack, TypeOK, Hash, Locks
  <2> QED  BY <1>3, <1>4, <2>1 DEF FoundStack
<1>5. ASSUME NEW r \in Requests, StackStarted(r) PROVE MakerInv'
      BY <1>3, <1>5, NewStack DEF StackStarted
<1>6. ASSUME NEW r \in Requests, CreateStack(r) \/ StackFails(r) PROVE MakerInv'
  <2>1. /\ running' = running /\ UNCHANGED <<at, got>> /\ request[r] # "failed"
        /\ \/ CreateStack(r) /\ request[r] = "queued"
           \/ request'[r] = "failed"
        /\ \A q \in Requests \ {r} : request'[q] = request[q]
        BY <1>6 DEF CreateStack, StackFails, TypeOK
  <2> QED  BY <1>0, <2>1 DEF MakerInv, Uses, Hash
<1>7. ASSUME NEW r \in Requests, StackCreated(r) PROVE MakerInv'
  <2>1. /\ request[r] = "creating" /\ running' = running \cup {<<r, Hash(r)>>}
        /\ request' = [request EXCEPT ![r] = "starting"] /\ UNCHANGED <<at, got>>
        BY <1>7 DEF StackCreated
  <2>2. ASSUME NEW s \in running
        PROVE  \/ Uses(s[1], s)'
               \/ request'[s[1]] = "failed"
               \/ request'[s[1]] = "starting" /\ s = <<s[1], Hash(s[1])'>>
        BY <1>0, <2>1, <2>2 DEF MakerInv, Uses, Hash, TypeOK
  <2>3. request'[r] = "starting" /\ Hash(r)' = Hash(r) /\ <<r, Hash(r)>>[1] = r
        BY <2>1 DEF TypeOK, Hash
  <2> QED  BY <2>1, <2>2, <2>3 DEF MakerInv
<1>8. ASSUME NEW r \in Requests, NodeStep(r) \/ StopStep(r) PROVE MakerInv'
  <2>1. running' \subseteq running /\ UNCHANGED <<request, at, got>>
        BY <1>8 DEF NodeStep, NodeStartFails, NodeStops, NodeStopped, NodeStopFails,
                    StopStep, FindUnusedStacks, StopUnusedStacks, StopRefused, StopCluster,
                    StopAllStacks, ClusterStopFails, ClusterStopped
  <2> QED  BY <2>1 DEF MakerInv, Uses, Hash
<1> QED  BY <1>1, <1>2, <1>4, <1>5, <1>6, <1>7, <1>8 DEF Next, RequestStep

(* Of a running cluster, a node that is being stopped calls back. *)
LEMMA NotifyStep == TypeOK /\ StopInv /\ StopperInv /\ NotifyInv /\ [Next]_vars => NotifyInv'
<1> SUFFICES ASSUME TypeOK, StopInv, StopperInv, NotifyInv, [Next]_vars PROVE NotifyInv'
    OBVIOUS
<1> USE DEF stackVars, requestVars, nodeVars
<1>1. CASE UNCHANGED vars
      BY <1>1 DEF vars, NotifyInv
<1>2. ASSUME NEW r \in Requests, RequestArrives(r) \/ RequestStep(r) PROVE NotifyInv'
  <2>1. /\ UNCHANGED <<cluster, raised, notify>> /\ request[r] # "done"
        /\ node' = node \/ node' = [node EXCEPT ![r] = "alive"]
        BY <1>2 DEF RequestArrives, RequestStep, FoundStack, StackStarted, CreateStack,
                    StackCreated, StackFails, GoOnWith
  <2>2. node[r] = "none"
        BY <2>1 DEF StopperInv
  <2> QED  BY <2>1, <2>2 DEF NotifyInv, TypeOK
<1>3. ASSUME NEW r \in Requests, NodeStep(r) PROVE NotifyInv'
  <2>1. CASE NodeStartFails(r)
        BY <2>1 DEF NodeStartFails, NotifyInv, TypeOK
  <2>2. CASE NodeStops(r)
        BY <2>2 DEF NodeStops, NotifyInv, TypeOK
  <2>3. CASE NodeStopped(r)
        BY <2>3 DEF NodeStopped, BeingStopped, NotifyInv, TypeOK
  <2>4. CASE NodeStopFails(r)
        BY <2>4 DEF NodeStopFails, BeingStopped, NotifyInv, TypeOK
  <2> QED  BY <1>3, <2>1, <2>2, <2>3, <2>4 DEF NodeStep
<1>4. ASSUME NEW r \in Requests, StopCluster(r) PROVE NotifyInv'
  <2>1. /\ cluster' = "terminating" /\ UNCHANGED <<raised, notify>>
        /\ node' = [n \in Requests |-> IF n \in Live THEN "terminating" ELSE node[n]]
        BY <1>4 DEF StopCluster
  <2>2. \A n \in Live : node[n] = "alive"
        BY DEF Live
  <2> QED  BY <2>1, <2>2 DEF NotifyInv
<1>5. ASSUME NEW r \in Requests, StopStep(r), ~StopCluster(r) PROVE NotifyInv'
  <2>1. UNCHANGED <<node, raised, notify>> /\ (cluster' = cluster \/ cluster' = "terminated")
        BY <1>5 DEF StopStep, FindUnusedStacks, StopUnusedStacks, StopRefused,
                    StopAllStacks, ClusterStopFails, ClusterStopped
  <2> QED  BY <2>1 DEF NotifyInv
<1> QED  BY <1>1, <1>2, <1>3, <1>4, <1>5 DEF Next

Minded(r, s) == Minds(r, s) \/ LostTo(r, s)

(* Whoever minds a stack, or has lost it, does so until a step of its own. *)
LEMMA MindedStays ==
    ASSUME NEW r \in Requests, NEW s \in Stacks, Minded(r, s),
           Uses(r, s) => Uses(r, s)', request'[r] = request[r], node'[r] = node[r],
           raised' = raised, notify'[r] = notify[r], onStop'[r] = onStop[r],
           unused'[r] = unused[r]
    PROVE  Minded(r, s)'
BY DEF Minded, Minds, LostTo, BeingStopped

(* A stack of a running cluster never stops being minded but by a failure. *)
LEMMA MindStep ==
    /\ TypeOK /\ StopInv /\ StopperInv /\ MakerInv /\ NotifyInv /\ StacksAreMinded
    /\ [Next]_vars
    => StacksAreMinded'
<1> SUFFICES ASSUME TypeOK, StopInv, StopperInv, MakerInv, NotifyInv, StacksAreMinded,
                    [Next]_vars, cluster' = "running", NEW s \in running'
             PROVE  \E r \in Requests : Minded(r, s)'
    BY DEF StacksAreMinded, Minded
<1> USE DEF stackVars, requestVars, nodeVars
<1>1. ASSUME cluster = "running", s \in running
      PROVE  /\ s \in Stacks
             /\ \E r \in Requests : Minded(r, s)
      BY <1>1 DEF StacksAreMinded, Minded, TypeOK
<1>2. CASE UNCHANGED vars
  <2>1. PICK r \in Requests : Minded(r, s)
        BY <1>1, <1>2 DEF vars
  <2> QED  BY <1>1, <1>2, <2>1, MindedStays DEF vars, Uses
<1>3. ASSUME NEW q \in Requests, RequestArrives(q) PROVE \E r \in Requests : Minded(r, s)'
  <2>1. /\ cluster = "running" /\ s \in running /\ request[q] = "idle"
        /\ request' = [request EXCEPT ![q] = "queued"] /\ UNCHANGED <<got, nodeVars>>
        BY <1>3 DEF RequestArrives
  <2>2. PICK r \in Requests : Minded(r, s)
        BY <1>1, <2>1
  <2>3. CASE r = q
        BY <2>1, <2>2, <2>3 DEF Minded, Minds, LostTo, BeingStopped, Uses, TypeOK
  <2>4. CASE r # q
        BY <1>1, <2>1, <2>2, <2>4, MindedStays DEF Uses, TypeOK
  <2> QED  BY <2>3, <2>4
<1>4. ASSUME NEW q \in Requests, NEW t \in Stacks, GoOnWith(q, t),
             UNCHANGED <<cluster, running, raised, notify, onStop, unused>>,
             \/ request[q] = "queued"
             \/ request[q] = "starting" /\ t = <<q, Hash(q)>>
      PROVE  \E r \in Requests : Minded(r, s)'
  <2>1. s \in Stacks
        BY <1>1, <1>4
  <2>2. PICK r \in Requests : Minded(r, s)
        BY <1>1, <1>4
  <2>3. CASE r = q
    <3>1. node[q] = "none" /\ onStop[q] = "none" /\ q \notin raised
          BY <1>4 DEF StopperInv, NotifyInv
    <3>2. s[1] = q
          BY <1>4, <2>2, <2>3, <3>1 DEF Minded, Minds, LostTo, BeingStopped
    <3>3. Uses(q, s)'
          BY <1>4, <2>1, <3>2, GoOnUses DEF MakerInv
    <3>4. request'[q] = "queued" \/ node'[q] = "alive"
          BY <1>4 DEF GoOnWith, TypeOK
    <3> QED  BY <3>2, <3>3, <3>4 DEF Minded, Minds
  <2>4. CASE r # q
    <3>1. request'[r] = request[r] /\ node'[r] = node[r] /\ (Uses(r, s) => Uses(r, s)')
          BY <1>4, <2>1, <2>4, GoOnUses, GoOnRequest DEF GoOnWith, TypeOK
    <3> QED  BY <1>4, <2>1, <2>2, <3>1, MindedStays
  <2> QED  BY <2>3, <2>4
<1>5. ASSUME NEW q \in Requests, RequestStep(q) PROVE \E r \in Requests : Minded(r, s)'
  <2>1. CASE FoundStack(q)
    <3>1. stacks[Hash(q)] \in Stacks
          BY <2>1 DEF FoundStack, TypeOK, Hash, Locks
    <3> QED  BY <1>4, <2>1, <3>1 DEF FoundStack
  <2>2. CASE StackStarted(q)
        BY <1>4, <2>2, NewStack DEF StackStarted
  <2>3. ASSUME UNCHANGED <<cluster, got, nodeVars>>, s \in running,
               \/ /\ request[q] \in {"queued", "creating"}
                  /\ \E x \in {"creating", "starting"} : request' = [request EXCEPT ![q] = x]
               \/ /\ request[q] \in {"creating", "starting"}
                  /\ request' = [request EXCEPT ![q] = "failed"]
        PROVE  \E r \in Requests : Minded(r, s)'
    <3>1. PICK r \in Requests : Minded(r, s)
          BY <1>1, <2>3
    <3>2. CASE r = q
          BY <2>3, <3>1, <3>2 DEF Minded, Minds, LostTo, BeingStopped, Uses, TypeOK
    <3>3. CASE r # q
          BY <1>1, <2>3, <3>1, <3>3, MindedStays DEF Uses, TypeOK
    <3> QED  BY <3>2, <3>3
  <2>4. CASE CreateStack(q) \/ StackFails(q)
        BY <2>3, <2>4 DEF CreateStack, StackFails
  <2>5. CASE StackCreated(q) /\ s \in running
        BY <2>3, <2>5 DEF StackCreated
  <2>6. CASE StackCreated(q) /\ s \notin running
    <3>1. s = <<q, Hash(q)>> /\ request'[q] = "starting"
          BY <2>6 DEF StackCreated, TypeOK
    <3>2. s[1] = q
          BY <3>1
    <3> QED  BY <3>1, <3>2 DEF Minded, Minds
  <2> QED  BY <1>5, <2>1, <2>2, <2>4, <2>5, <2>6 DEF RequestStep
<1>6. ASSUME NEW q \in Requests, NodeStep(q) PROVE \E r \in Requests : Minded(r, s)'
  <2>1. /\ cluster = "running" /\ s \in running /\ UNCHANGED <<request, got, unused>>
        BY <1>6 DEF NodeStep, NodeStartFails, NodeStops, NodeStopped, NodeStopFails
  <2>2. PICK r \in Requests : Minded(r, s)
        BY <1>1, <2>1
  <2>3. CASE r # q
    <3>1. /\ node'[r] = node[r] /\ notify'[r] = notify[r] /\ onStop'[r] = onStop[r]
          /\ r \in raised' <=> r \in raised
          BY <1>6, <2>3 DEF NodeStep, NodeStartFails, NodeStops, NodeStopped, NodeStopFails,
                            TypeOK
    <3> QED  BY <2>1, <2>2, <3>1 DEF Minded, Minds, LostTo, BeingStopped, Uses
  <2>4. CASE r = q /\ NodeStartFails(q)
    <3>1. /\ node[q] = "alive" /\ node'[q] = "terminated" /\ ~notify[q]
          /\ UNCHANGED <<raised, notify, onStop>>
          BY <2>4 DEF NodeStartFails, NotifyInv, TypeOK
    <3> QED  BY <2>1, <2>2, <2>4, <3>1 DEF Minded, Minds, LostTo, BeingStopped, Uses
  <2>5. CASE r = q /\ NodeStops(q)
    <3>1. /\ node[q] = "alive" /\ node'[q] = "terminating" /\ notify'[q] /\ q \notin raised
          /\ UNCHANGED <<raised, onStop>>
          BY <2>5 DEF NodeStops, NotifyInv, TypeOK
    <3> QED  BY <2>1, <2>2, <2>5, <3>1 DEF Minded, Minds, LostTo, BeingStopped, Uses
  <2>6. CASE r = q /\ NodeStopped(q)
    <3>1. node[q] = "terminating" /\ q \notin raised /\ onStop[q] = "none" /\ notify[q]
          BY <2>1, <2>6 DEF NodeStopped, BeingStopped, StopperInv, NotifyInv
    <3>2. onStop'[q] = "ready" /\ UNCHANGED <<raised, notify>>
          BY <2>6, <3>1 DEF NodeStopped, TypeOK
    <3> QED  BY <2>1, <2>2, <2>6, <3>1, <3>2 DEF Minded, Minds, LostTo, BeingStopped, Uses
  <2>7. CASE r = q /\ NodeStopFails(q)
    <3>1. /\ node[q] = "terminating" /\ onStop[q] = "none" /\ q \in raised'
          /\ UNCHANGED <<node, onStop>>
          BY <2>7 DEF NodeStopFails, BeingStopped, StopperInv
    <3> QED  BY <2>1, <2>2, <2>7, <3>1 DEF Minded, Minds, LostTo, BeingStopped, Uses
  <2> QED  BY <1>6, <2>3, <2>4, <2>5, <2>6, <2>7 DEF NodeStep
<1>7. ASSUME NEW q \in Requests, FindUnusedStacks(q) PROVE \E r \in Requests : Minded(r, s)'
  <2>1. /\ cluster = "running" /\ s \in running /\ onStop[q] = "ready"
        /\ UNCHANGED <<requestVars, node, raised, notify>>
        /\ onStop' = [onStop EXCEPT ![q] = IF unused'[q] = {} THEN "done" ELSE "gather"]
        /\ unused'[q] = {x \in Stacks : Uses(q, x) /\ \A n \in Live : ~Uses(n, x)}
        /\ \A r \in Requests \ {q} : unused'[r] = unused[r]
        BY <1>7 DEF FindUnusedStacks, TypeOK
  <2>2. s \in Stacks
        BY <1>1, <2>1
  <2>3. PICK r \in Requests : Minded(r, s)
        BY <1>1, <2>1
  <2>4. CASE r # q
        BY <2>1, <2>2, <2>3, <2>4, MindedStays DEF Uses, TypeOK
  <2>5. CASE r = q /\ Uses(q, s)
    <3>1. CASE s \in unused'[q]
      <4>1. onStop'[q] = "gather"
            BY <2>1, <3>1 DEF TypeOK
      <4> QED  BY <3>1, <4>1 DEF Minded, Minds
    <3>2. CASE s \notin unused'[q]
      <4>1. PICK n \in Live : Uses(n, s)
            BY <2>1, <2>2, <2>5, <3>2
      <4>2. n \in Requests /\ node[n] = "alive"
            BY DEF Live, TypeOK
      <4>3. node'[n] = "alive" /\ Uses(n, s)'
            BY <2>1, <4>1, <4>2 DEF Uses
      <4> QED  BY <4>2, <4>3 DEF Minded, Minds
    <3> QED  BY <3>1, <3>2
  <2>6. CASE r = q /\ ~Uses(q, s)
        BY <2>1, <2>3, <2>6 DEF Minded, Minds, LostTo
  <2> QED  BY <2>4, <2>5, <2>6
<1>8. ASSUME NEW q \in Requests, StopUnusedStacks(q) PROVE \E r \in Requests : Minded(r, s)'
  <2>1. /\ cluster = "running" /\ s \in running /\ s \notin unused[q] /\ onStop[q] = "gather"
        /\ UNCHANGED <<requestVars, node, raised, notify>>
        /\ onStop' = [onStop EXCEPT ![q] = "done"]
        /\ \A r \in Requests \ {q} : unused'[r] = unused[r] /\ onStop'[r] = onStop[r]
        BY <1>8 DEF StopUnusedStacks, TypeOK
  <2>2. PICK r \in Requests : Minded(r, s)
        BY <1>1, <2>1
  <2>3. CASE r # q
        BY <1>1, <2>1, <2>2, <2>3, MindedStays DEF Uses
  <2>4. CASE r = q
        BY <2>1, <2>2, <2>4 DEF Minded, Minds, LostTo, BeingStopped, Uses
  <2> QED  BY <2>3, <2>4
<1>9. ASSUME NEW q \in Requests,
             \/ StopRefused(q) \/ StopCluster(q) \/ StopAllStacks(q)
             \/ ClusterStopFails(q) \/ ClusterStopped(q)
      PROVE  FALSE
  <2>1. CASE StopRefused(q)
        BY <2>1 DEF StopRefused
  <2>2. CASE StopCluster(q) \/ ClusterStopped(q)
        BY <2>2 DEF StopCluster, ClusterStopped
  <2>3. CASE StopAllStacks(q) \/ ClusterStopFails(q)
        BY <2>3 DEF StopAllStacks, ClusterStopFails, StopInv, Stopper
  <2> QED  BY <1>9, <2>1, <2>2, <2>3
<1> QED
    BY <1>2, <1>3, <1>5, <1>6, <1>7, <1>8, <1>9 DEF Next, StopStep

(* Cluster._on_node_stop with request_nodes: for any requests and hashes, in     *)
(* whatever order nodes come, end and call back, a stack of a running cluster    *)
(* has somebody that needs it or will stop it; only a request, a start or a stop *)
(* of a node that fails leaves one to nobody.                                    *)
THEOREM StacksMinded == Spec => []StacksAreMinded
<1>1. Init => MindInv
      BY DEF Init, MindInv, MakerInv, NotifyInv, StacksAreMinded
<1>2. TypeOK /\ StopInv /\ StopperInv /\ MindInv /\ [Next]_vars => MindInv'
      BY MakerStep, NotifyStep, MindStep DEF MindInv
<1>3. MindInv => StacksAreMinded
      BY DEF MindInv
<1> QED
    BY <1>1, <1>2, <1>3, ClusterTypes, StopInvariance, StopperInvariance, PTL DEF Spec

-----------------------------------------------------------------------------
(* Who waits for a lock. *)

In(s)       == {s[i] : i \in DOMAIN s}
Distinct(s) == \A i, j \in DOMAIN s : s[i] = s[j] => i = j

Waiting(r) == request[r] = "queued" \/ Making(r)

(* A lock's queue has the requests that are at it, once each *)
QueueInv ==
    \A l \in Locks : /\ Distinct(lock[l])
                     /\ In(lock[l]) = {r \in Requests : Waiting(r) /\ at[r] = l}

LEMMA QueueTail ==
    ASSUME NEW s \in Seq(Requests), s # <<>>, Distinct(s)
    PROVE  Distinct(Tail(s)) /\ In(Tail(s)) = In(s) \ {Head(s)}
<1>1. /\ Head(s) = s[1] /\ DOMAIN s = 1 .. Len(s) /\ Len(s) \in Nat \ {0}
      /\ DOMAIN Tail(s) = 1 .. Len(s) - 1
      /\ \A i \in DOMAIN Tail(s) : Tail(s)[i] = s[i + 1] /\ i + 1 \in DOMAIN s
      OBVIOUS
<1>2. Distinct(Tail(s))
      BY <1>1 DEF Distinct
<1>3. ASSUME NEW x \in In(Tail(s)) PROVE x \in In(s) \ {Head(s)}
      BY <1>1 DEF In, Distinct
<1>4. ASSUME NEW x \in In(s) \ {Head(s)} PROVE x \in In(Tail(s))
  <2>1. PICK i \in DOMAIN s : x = s[i]
        BY DEF In
  <2>2. i # 1 /\ i - 1 \in DOMAIN Tail(s) /\ i = (i - 1) + 1
        BY <1>1, <2>1
  <2>3. Tail(s)[i - 1] = s[(i - 1) + 1]
        BY <1>1, <2>2
  <2>4. Tail(s)[i - 1] = x
        BY <2>1, <2>2, <2>3
  <2> QED  BY <2>2, <2>4 DEF In
<1> QED  BY <1>2, <1>3, <1>4

LEMMA QueueAppend ==
    ASSUME NEW s \in Seq(Requests), Distinct(s), NEW r \in Requests, r \notin In(s)
    PROVE  Distinct(Append(s, r)) /\ In(Append(s, r)) = In(s) \cup {r}
<1> DEFINE a == Append(s, r)
<1>1. /\ DOMAIN s = 1 .. Len(s) /\ Len(s) \in Nat /\ DOMAIN a = 1 .. Len(s) + 1
      /\ \A i \in DOMAIN s : a[i] = s[i] /\ i \in DOMAIN a
      /\ a[Len(s) + 1] = r
      OBVIOUS
<1> HIDE DEF a
<1>2. \A i \in DOMAIN a : i \in DOMAIN s \/ i = Len(s) + 1
      BY <1>1
<1>3. \A i \in DOMAIN s : a[i] # r
      BY <1>1 DEF In
<1>4. Distinct(a)
      BY <1>1, <1>2, <1>3 DEF Distinct
<1>5. Len(s) + 1 \in DOMAIN a
      BY <1>1
<1>6. In(a) = In(s) \cup {r}
      BY <1>1, <1>2, <1>5 DEF In
<1> QED  BY <1>4, <1>6 DEF a

(* The others at a lock *)
Others(r, l) == {q \in Requests \ {r} : Waiting(q) /\ at[q] = l}

(* A request that leaves its lock is in no queue any more. *)
LEMMA QueueLeave ==
    ASSUME TypeOK, QueueInv, NEW r \in Requests, Waiting(r), Holds(r), NEW l \in Locks
    PROVE  /\ Leave(r)[l] \in Seq(Requests) /\ Distinct(Leave(r)[l])
           /\ In(Leave(r)[l]) = Others(r, l)
<1>1. /\ lock[l] \in Seq(Requests) /\ Distinct(lock[l])
      /\ In(lock[l]) = {q \in Requests : Waiting(q) /\ at[q] = l}
      BY DEF TypeOK, QueueInv
<1>2. CASE at[r] = l
  <2>1. Leave(r)[l] = Tail(lock[l]) /\ lock[l] # <<>> /\ Head(lock[l]) = r
        BY <1>2 DEF TypeOK, Leave, Holds
  <2>2. Tail(lock[l]) \in Seq(Requests)
        BY <1>1, <2>1
  <2> QED  BY <1>1, <2>1, <2>2, QueueTail DEF Others
<1>3. CASE at[r] # l
  <2>1. Leave(r)[l] = lock[l]
        BY <1>3 DEF TypeOK, Leave
  <2> QED  BY <1>1, <1>3, <2>1 DEF Others
<1> QED  BY <1>2, <1>3

(* A request enters the queue of one lock, in whose queues it was not. *)
LEMMA QueueEnter ==
    ASSUME TypeOK, NEW r \in Requests, NEW k \in Locks, NEW f, f \in [Locks -> Seq(Requests)],
           \A l \in Locks : /\ Distinct(f[l])
                            /\ In(f[l]) = Others(r, l),
           lock' = [f EXCEPT ![k] = Append(f[k], r)],
           at' = [at EXCEPT ![r] = k], request' = [request EXCEPT ![r] = "queued"]
    PROVE  QueueInv'
<1>1. /\ at'[r] = k /\ Waiting(r)'
      /\ \A q \in Requests \ {r} : at'[q] = at[q] /\ Waiting(q)' = Waiting(q)
      BY DEF TypeOK, Waiting, Making
<1> SUFFICES ASSUME NEW l \in Locks
             PROVE  /\ Distinct(lock'[l])
                    /\ In(lock'[l]) = {q \in Requests : Waiting(q)' /\ at'[q] = l}
    BY DEF QueueInv
<1>2. CASE l = k
  <2>1. lock'[l] = Append(f[l], r) /\ f[l] \in Seq(Requests) /\ r \notin In(f[l])
        BY <1>2 DEF Others
  <2>2. Distinct(lock'[l]) /\ In(lock'[l]) = In(f[l]) \cup {r}
        BY <2>1, QueueAppend
  <2> QED  BY <1>1, <1>2, <2>2 DEF Others
<1>3. CASE l # k
  <2>1. lock'[l] = f[l]
        BY <1>3
  <2> QED  BY <1>1, <1>3, <2>1 DEF Others
<1> QED  BY <1>2, <1>3

(* A request leaves its lock and waits for none. *)
LEMMA QueueLeft ==
    ASSUME TypeOK, QueueInv, NEW r \in Requests, Waiting(r), Holds(r),
           lock' = Leave(r), at' = at, NEW answer \in {"done", "failed"},
           request' = [request EXCEPT ![r] = answer]
    PROVE  QueueInv'
<1>1. /\ ~Waiting(r)'
      /\ \A q \in Requests \ {r} : at'[q] = at[q] /\ Waiting(q)' = Waiting(q)
      BY DEF TypeOK, Waiting, Making
<1> SUFFICES ASSUME NEW l \in Locks
             PROVE  /\ Distinct(lock'[l])
                    /\ In(lock'[l]) = {q \in Requests : Waiting(q)' /\ at'[q] = l}
    BY DEF QueueInv
<1>2. /\ Distinct(lock'[l])
      /\ In(lock'[l]) = Others(r, l)
      BY QueueLeave
<1> QED  BY <1>1, <1>2 DEF Others

(* A request that goes on with a stack leaves one queue and may enter another. *)
LEMMA QueueGoOn ==
    ASSUME TypeOK, QueueInv, NEW r \in Requests, Waiting(r), Holds(r), NEW s, GoOnWith(r, s)
    PROVE  QueueInv'
<1> DEFINE n == Len(got[r]) + 1
<1>1. CASE n < Len(Wants[r])
  <2> DEFINE k == <<epoch, Wants[r][n + 1]>>
  <2>1. n \in Nat \ {0}
        BY DEF TypeOK
  <2>2. Wants[r][n + 1] \in Hashes
        BY <1>1, <2>1, ClusterAssumption
  <2>3. k \in Locks
        BY <2>2 DEF TypeOK, Locks
  <2>4. /\ at' = [at EXCEPT ![r] = k] /\ request' = [request EXCEPT ![r] = "queued"]
        /\ lock' = [Leave(r) EXCEPT ![at'[r]] = Append(@, r)]
        BY <1>1 DEF GoOnWith
  <2>5. at'[r] = k /\ Leave(r) \in [Locks -> Seq(Requests)]
        BY <2>3, <2>4 DEF TypeOK, Holds, Leave
  <2>6. lock' = [Leave(r) EXCEPT ![k] = Append(Leave(r)[k], r)]
        BY <2>4, <2>5
  <2>7. \A l \in Locks :
            /\ Distinct(Leave(r)[l])
            /\ In(Leave(r)[l]) = Others(r, l)
        BY QueueLeave
  <2> HIDE DEF k
  <2> QED  BY <2>3, <2>4, <2>5, <2>6, <2>7, QueueEnter
<1>2. CASE ~(n < Len(Wants[r]))
  <2>1. lock' = Leave(r) /\ request' = [request EXCEPT ![r] = "done"] /\ at' = at
        BY <1>2 DEF GoOnWith
  <2> QED  BY <2>1, QueueLeft
<1> QED  BY <1>1, <1>2

LEMMA QueueStep == TypeOK /\ HolderInv /\ QueueInv /\ [Next]_vars => QueueInv'
<1> SUFFICES ASSUME TypeOK, HolderInv, QueueInv, [Next]_vars PROVE QueueInv'
    OBVIOUS
<1> USE DEF stackVars, requestVars, nodeVars
<1>1. ASSUME lock' = lock, at' = at, \A q \in Requests : Waiting(q)' = Waiting(q)
      PROVE  QueueInv'
      BY <1>1 DEF QueueInv
<1>2. CASE UNCHANGED vars
      BY <1>1, <1>2 DEF vars, Waiting, Making
<1>3. ASSUME NEW r \in Requests, RequestArrives(r) PROVE QueueInv'
  <2> DEFINE k == <<epoch, Head(Wants[r])>>
  <2>1. Head(Wants[r]) \in Hashes
        BY ClusterAssumption
  <2>2. k \in Locks
        BY <2>1 DEF TypeOK, Locks
  <2>3. /\ request[r] = "idle" /\ at' = [at EXCEPT ![r] = k]
        /\ request' = [request EXCEPT ![r] = "queued"]
        /\ lock' = [lock EXCEPT ![at'[r]] = Append(@, r)]
        BY <1>3 DEF RequestArrives
  <2>4. at'[r] = k /\ ~Waiting(r) /\ lock \in [Locks -> Seq(Requests)]
        BY <2>2, <2>3 DEF TypeOK, Waiting, Making
  <2>5. \A l \in Locks :
            /\ Distinct(lock[l])
            /\ In(lock[l]) = Others(r, l)
        BY <2>4 DEF QueueInv, Others
  <2>6. lock' = [lock EXCEPT ![k] = Append(lock[k], r)]
        BY <2>3, <2>4
  <2> HIDE DEF k
  <2> QED  BY <2>2, <2>3, <2>4, <2>5, <2>6, QueueEnter
<1>4. ASSUME NEW r \in Requests, FoundStack(r) PROVE QueueInv'
      BY <1>4, QueueGoOn DEF FoundStack, Waiting
<1>5. ASSUME NEW r \in Requests, StackStarted(r) PROVE QueueInv'
  <2>1. Making(r) /\ GoOnWith(r, <<r, Hash(r)>>)
        BY <1>5 DEF StackStarted, Making
  <2> QED  BY <2>1, QueueGoOn DEF HolderInv, Waiting
<1>6. ASSUME NEW r \in Requests, StackFails(r) PROVE QueueInv'
  <2>1. /\ Making(r) /\ lock' = Leave(r) /\ at' = at
        /\ request' = [request EXCEPT ![r] = "failed"]
        BY <1>6 DEF StackFails, Making
  <2> QED  BY <2>1, QueueLeft DEF HolderInv, Waiting
<1>7. ASSUME NEW r \in Requests, CreateStack(r) \/ StackCreated(r) PROVE QueueInv'
  <2>1. /\ lock' = lock /\ at' = at /\ Waiting(r)
        /\ \/ request' = [request EXCEPT ![r] = "creating"]
           \/ request' = [request EXCEPT ![r] = "starting"]
        BY <1>7 DEF CreateStack, StackCreated, Waiting, Making
  <2>2. \A q \in Requests : Waiting(q)' = Waiting(q)
        BY <2>1 DEF TypeOK, Waiting, Making
  <2> QED  BY <1>1, <2>1, <2>2
<1>8. ASSUME NEW r \in Requests,
             NodeStep(r) \/ StopStep(r)
      PROVE  QueueInv'
  <2>1. UNCHANGED <<lock, request, at>>
        BY <1>8 DEF NodeStep, NodeStartFails, NodeStops, NodeStopped, NodeStopFails,
                    StopStep, FindUnusedStacks, StopUnusedStacks, StopRefused, StopCluster,
                    StopAllStacks, ClusterStopFails, ClusterStopped
  <2> QED  BY <1>1, <2>1 DEF Waiting, Making
<1> QED
    BY <1>2, <1>3, <1>4, <1>5, <1>6, <1>7, <1>8 DEF Next, RequestStep

LEMMA QueueInvariance == Spec => []QueueInv
<1>1. Init => QueueInv
  <2> SUFFICES ASSUME Init, NEW l \in Locks
               PROVE  /\ Distinct(lock[l])
                      /\ In(lock[l]) = {r \in Requests : Waiting(r) /\ at[r] = l}
      BY DEF QueueInv
  <2>1. lock[l] = <<>> /\ \A r \in Requests : ~Waiting(r)
        BY DEF Init, Waiting, Making
  <2>2. DOMAIN lock[l] = {}
        BY <2>1
  <2> QED  BY <2>1, <2>2 DEF Distinct, In
<1>2. LockInv => TypeOK /\ HolderInv
      BY DEF LockInv
<1> QED  BY <1>1, <1>2, QueueStep, LockInvariance, PTL DEF Spec

(* A request that the code can take further: it makes a stack, or it has the   *)
(* lock                                                                       *)
CanGoOn(q) == Making(q) \/ (request[q] = "queued" /\ Holds(q))

NobodyWaitsInVain ==
    \A r \in Requests : request[r] = "queued" =>
        \E q \in Requests : at[q] = at[r] /\ CanGoOn(q)

(* async with of the lock of _get_or_create_manager_stack: whoever waits for a  *)
(* lock waits for a request that can go on, also after others failed while they *)
(* held it and after the locks were replaced (what makes RequestsAnswered hold  *)
(* under the fairness of the runs).                                             *)
THEOREM NobodyInVain == Spec => []NobodyWaitsInVain
<1>1. TypeOK /\ QueueInv => NobodyWaitsInVain
  <2> SUFFICES ASSUME TypeOK, QueueInv, NEW r \in Requests, request[r] = "queued"
               PROVE  \E q \in Requests : at[q] = at[r] /\ CanGoOn(q)
      BY DEF NobodyWaitsInVain
  <2> DEFINE l == at[r]
  <2>1. l \in Locks /\ lock[l] \in Seq(Requests)
        BY DEF TypeOK
  <2>2. In(lock[l]) = {q \in Requests : Waiting(q) /\ at[q] = l}
        BY <2>1 DEF QueueInv
  <2>3. r \in In(lock[l])
        BY <2>2 DEF Waiting
  <2>4. lock[l] # <<>>
        BY <2>3 DEF In
  <2>5. Head(lock[l]) = lock[l][1] /\ 1 \in DOMAIN lock[l]
        BY <2>1, <2>4
  <2>6. Head(lock[l]) \in In(lock[l])
        BY <2>5 DEF In
  <2>7. /\ Head(lock[l]) \in Requests /\ Waiting(Head(lock[l]))
        /\ at[Head(lock[l])] = l
        BY <2>2, <2>6
  <2>8. CanGoOn(Head(lock[l]))
        BY <2>4, <2>7 DEF CanGoOn, Waiting, Holds
  <2> QED  BY <2>7, <2>8
<1> QED  BY <1>1, QueueInvariance, ClusterTypes, PTL
=============================================================================
