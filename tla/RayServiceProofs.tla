-------------------------- MODULE RayServiceProofs --------------------------
(***************************************************************************)
(* Proofs about RayService: the lock, whatever overlaps, and what the      *)
(* registry guarantees as long as nothing arrives while something is under *)
(* way.                                                                    *)
(***************************************************************************)
EXTENDS RayService, TLAPS

-----------------------------------------------------------------------------
(* However calls and callbacks overlap. *)

Kinds == {"request", "terminate", "onStop", "remove"}

Queued(s, kind, r) == \E i \in 1 .. Len(s) : s[i] = Task(kind, r)
Distinct(s) == \A i, j \in 1 .. Len(s) : s[i] = s[j] => i = j

(* A task is in the queue once, exactly while it waits or holds *)
LockInv ==
    /\ Distinct(lock)
    /\ \A r \in Requests :
         /\ Queued(lock, "request", r) <=> request[r] \in {"queued", "start"}
         /\ Queued(lock, "terminate", r) <=> terminate[r] \in {"queued", "stopping"}
         /\ Queued(lock, "onStop", r) <=> removal[r] = "event"
         /\ Queued(lock, "remove", r) <=> removal[r] = "queued"
         /\ request[r] = "start" => Holds("request", r)

(* A call, its node, the callback of the node and the removal come in turn *)
TurnInv ==
    \A r \in Requests :
        /\ request[r] \in {"start", "stacks", "done"} => target[r] \in Requests
        /\ node[r] # "none" => request[r] = "done"
        /\ onStop[r] # "none" => node[r] = "terminated"
        /\ removal[r] # "none" => onStop[r] = "done"
        /\ \A c \in Requests : r \in members[c] => request[r] = "done" /\ target[r] = c

-----------------------------------------------------------------------------
(* As long as nothing has overlapped. *)

Called(r)      == request[r] \in {"queued", "start", "stacks"}
Terminating(r) == terminate[r] \in {"queued", "stopping"}

(* From the stop of a node to the delay before its cluster is removed *)
StopRuns(r) ==
    \/ BeingStopped(r) /\ notify[r]
    \/ onStop[r] \in {"ready", "nodes", "closing"}
    \/ removal[r] \in {"ready", "event"}

(* One thing is under way at a time *)
AloneInv ==
    \A r, s \in Requests :
        /\ Called(r) => (Called(s) => r = s) /\ ~Terminating(s) /\ ~StopRuns(s)
        /\ StopRuns(r) /\ StopRuns(s) => r = s
        /\ Terminating(r) /\ (Terminating(s) \/ StopRuns(s)) => r = s

(* What it is about is the registered cluster *)
RegisteredInv ==
    \A r \in Requests :
        /\ Alive(r) => /\ registry = target[r] /\ r \in members[target[r]]
                       /\ cluster[target[r]] \in {"pending", "running"}
        /\ request[r] \in {"start", "stacks"} =>
             registry = target[r] /\ cluster[target[r]] \in {"pending", "running"}
        /\ StopRuns(r) => registry = target[r]
        /\ onStop[r] \in {"nodes", "closing"} => cluster[target[r]] = "terminating"
        /\ removal[r] \in {"ready", "event"} => cluster[target[r]] = "terminated"

(* A removal that waits is the remembered one, of a cluster that has stopped *)
RemovalInv ==
    \A r \in Requests :
        /\ Removing(r) => /\ removeTask = r /\ registry = target[r]
                          /\ cluster[target[r]] = "terminated"
                          /\ \A s \in Requests : ~StopRuns(s)
        /\ removal[r] # "failed"

OrderInv == ~overlapped => AloneInv /\ RegisteredInv /\ RemovalInv

RegistryInv == LockInv /\ TurnInv /\ OrderInv
-----------------------------------------------------------------------------
(* What the operations on the lock do to the queue. *)

(* A task that acquires the lock goes to the end of the queue. *)
LEMMA Appended ==
    ASSUME NEW s \in Seq(Tasks), NEW k \in Kinds, NEW r \in Requests,
           Distinct(s), ~Queued(s, k, r)
    PROVE  /\ Append(s, Task(k, r)) \in Seq(Tasks)
           /\ Distinct(Append(s, Task(k, r)))
           /\ s # <<>> => /\ Append(s, Task(k, r)) # <<>>
                          /\ Head(Append(s, Task(k, r))) = Head(s)
           /\ \A l \in Kinds, q \in Requests :
                Queued(Append(s, Task(k, r)), l, q) <=>
                  Queued(s, l, q) \/ (l = k /\ q = r)
<1> DEFINE t == Task(k, r)
           a == Append(s, t)
<1>1. t \in Tasks
      BY DEF Task, Tasks, Kinds
<1>2. a \in Seq(Tasks) /\ Len(a) = Len(s) + 1
      BY <1>1
<1>3. \A i \in 1 .. Len(a) : a[i] = IF i = Len(a) THEN t ELSE s[i]
      BY <1>1
<1>4. s # <<>> => a # <<>> /\ Head(a) = Head(s)
      BY <1>1, <1>2, <1>3
<1>5. Distinct(a)
  <2> HIDE DEF t, a
  <2>1. \A i \in 1 .. Len(s) : s[i] # t
        BY DEF Queued, t
  <2> QED  BY <1>2, <1>3, <2>1 DEF Distinct
<1>6. \A l \in Kinds, q \in Requests : Queued(a, l, q) <=> Queued(s, l, q) \/ (l = k /\ q = r)
  <2> TAKE l \in Kinds, q \in Requests
  <2>1. Task(l, q) = t <=> l = k /\ q = r
        BY DEF Task
  <2> HIDE DEF t, a
  <2>2. Queued(a, l, q) => Queued(s, l, q) \/ Task(l, q) = t
        BY <1>2, <1>3 DEF Queued
  <2>3. Queued(s, l, q) => Queued(a, l, q)
        BY <1>2, <1>3 DEF Queued
  <2>4. Task(l, q) = t => Queued(a, l, q)
    <3>1. Len(a) \in 1 .. Len(a) /\ a[Len(a)] = t
          BY <1>2, <1>3
    <3> QED  BY <3>1 DEF Queued
  <2> QED  BY <2>1, <2>2, <2>3, <2>4
<1> QED  BY <1>2, <1>4, <1>5, <1>6

(* The holder that releases the lock leaves the queue, the others stay. *)
LEMMA Released ==
    ASSUME NEW s \in Seq(Tasks), NEW k \in Kinds, NEW r \in Requests,
           Distinct(s), s # <<>>, Head(s) = Task(k, r)
    PROVE  /\ Tail(s) \in Seq(Tasks)
           /\ Distinct(Tail(s))
           /\ \A l \in Kinds, q \in Requests :
                Queued(Tail(s), l, q) <=> Queued(s, l, q) /\ ~(l = k /\ q = r)
<1> DEFINE a == Tail(s)
<1>1. a \in Seq(Tasks) /\ Len(a) = Len(s) - 1 /\ Len(s) \in Nat \ {0}
      OBVIOUS
<1>2. \A i \in 1 .. Len(a) : i + 1 \in 1 .. Len(s) /\ a[i] = s[i + 1]
      OBVIOUS
<1>3. 1 \in 1 .. Len(s) /\ s[1] = Task(k, r)
      OBVIOUS
<1> HIDE DEF a
<1>4. Distinct(a)
      BY <1>1, <1>2 DEF Distinct
<1>5. ASSUME NEW l \in Kinds, NEW q \in Requests
      PROVE  Queued(a, l, q) <=> Queued(s, l, q) /\ ~(l = k /\ q = r)
  <2>1. Task(l, q) = Task(k, r) <=> l = k /\ q = r
        BY DEF Task
  <2>2. ASSUME Queued(a, l, q) PROVE Queued(s, l, q) /\ Task(l, q) # Task(k, r)
    <3>1. PICK i \in 1 .. Len(a) : a[i] = Task(l, q)
          BY <2>2 DEF Queued
    <3>2. i + 1 \in 1 .. Len(s) /\ s[i + 1] = Task(l, q) /\ i + 1 # 1
          BY <1>1, <1>2, <3>1
    <3> QED  BY <1>3, <3>2 DEF Queued, Distinct
  <2>3. ASSUME Queued(s, l, q), Task(l, q) # Task(k, r) PROVE Queued(a, l, q)
    <3>1. PICK i \in 1 .. Len(s) : s[i] = Task(l, q)
          BY <2>3 DEF Queued
    <3>2. i - 1 \in 1 .. Len(a) /\ (i - 1) + 1 = i
          BY <1>1, <1>3, <2>3, <3>1
    <3>3. a[i - 1] = Task(l, q)
          BY <1>2, <3>1, <3>2
    <3> QED  BY <3>2, <3>3 DEF Queued
  <2> QED  BY <2>1, <2>2, <2>3
<1> QED  BY <1>1, <1>4, <1>5 DEF a

(* Without(t) takes just that task out of the queue; the holder stays. *)
LEMMA Cancelled ==
    ASSUME NEW k \in Kinds, NEW r \in Requests, lock \in Seq(Tasks), Distinct(lock),
           lock # <<>>, Head(lock) # Task(k, r)
    PROVE  /\ Without(Task(k, r)) \in Seq(Tasks)
           /\ Distinct(Without(Task(k, r)))
           /\ Without(Task(k, r)) # <<>>
           /\ Head(Without(Task(k, r))) = Head(lock)
           /\ \A l \in Kinds, q \in Requests :
                Queued(Without(Task(k, r)), l, q) <=>
                  Queued(lock, l, q) /\ ~(l = k /\ q = r)
<1> DEFINE t == Task(k, r)
           a == Without(t)
<1>1. CASE ~\E i \in 1 .. Len(lock) : lock[i] = t
  <2>1. a = lock
        BY <1>1 DEF Without
  <2>2. ~Queued(lock, k, r)
        BY <1>1 DEF Queued
  <2> QED  BY <2>1, <2>2
<1>2. CASE \E i \in 1 .. Len(lock) : lock[i] = t
  <2> DEFINE i == CHOOSE j \in 1 .. Len(lock) : lock[j] = t
             front == SubSeq(lock, 1, i - 1)
             back  == SubSeq(lock, i + 1, Len(lock))
  <2>1. i \in 1 .. Len(lock) /\ lock[i] = t
        BY <1>2
  <2>2. a = front \o back
        BY <1>2 DEF Without, RemoveAt
  <2> HIDE DEF i, t, a
  <2>3. i # 1
        BY <2>1 DEF t
  <2>4. front \in Seq(Tasks) /\ Len(front) = i - 1 /\ \A j \in 1 .. i - 1 : front[j] = lock[j]
        BY <2>1
  <2>5. /\ back \in Seq(Tasks) /\ Len(back) = Len(lock) - i
        /\ \A j \in 1 .. Len(lock) - i : back[j] = lock[j + i]
        BY <2>1
  <2> HIDE DEF front, back
  <2>6. a \in Seq(Tasks) /\ Len(a) = Len(lock) - 1 /\ Len(lock) \in Nat
        BY <2>1, <2>2, <2>4, <2>5
  <2>7. \A j \in 1 .. Len(a) : a[j] = IF j < i THEN lock[j] ELSE lock[j + 1]
    <3> TAKE j \in 1 .. Len(a)
    <3>1. CASE j < i
          BY <2>1, <2>2, <2>4, <2>5, <2>6, <3>1
    <3>2. CASE ~(j < i)
      <4>1. a[j] = back[j - (i - 1)]
            BY <2>1, <2>2, <2>4, <2>5, <2>6, <3>2
      <4>2. j - (i - 1) \in 1 .. Len(lock) - i /\ (j - (i - 1)) + i = j + 1
            BY <2>1, <2>6, <3>2
      <4> QED  BY <2>5, <3>2, <4>1, <4>2
    <3> QED  BY <3>1, <3>2
  <2>8. a # <<>> /\ Head(a) = Head(lock)
    <3>1. 1 \in 1 .. Len(a) /\ 1 < i
          BY <2>1, <2>3, <2>6
    <3>2. a[1] = lock[1]
          BY <2>7, <3>1
    <3> QED  BY <2>6, <3>1, <3>2
  <2>9. Distinct(a)
    <3> SUFFICES ASSUME NEW j \in 1 .. Len(a), NEW m \in 1 .. Len(a), a[j] = a[m]
                 PROVE  j = m
        BY DEF Distinct
    <3>1. /\ j \in 1 .. Len(lock) /\ j + 1 \in 1 .. Len(lock)
          /\ m \in 1 .. Len(lock) /\ m + 1 \in 1 .. Len(lock)
          BY <2>6
    <3> QED  BY <2>1, <2>6, <2>7, <3>1 DEF Distinct
  <2>10. ASSUME NEW l \in Kinds, NEW q \in Requests
         PROVE  Queued(a, l, q) <=> Queued(lock, l, q) /\ ~(l = k /\ q = r)
    <3>1. Task(l, q) = t <=> l = k /\ q = r
          BY DEF Task, t
    <3>2. ASSUME Queued(a, l, q) PROVE Queued(lock, l, q) /\ Task(l, q) # t
      <4>1. PICK j \in 1 .. Len(a) : a[j] = Task(l, q)
            BY <3>2 DEF Queued
      <4>2. /\ j \in 1 .. Len(lock) /\ j + 1 \in 1 .. Len(lock)
            BY <2>6
      <4>3. \E m \in 1 .. Len(lock) : m # i /\ lock[m] = Task(l, q)
            BY <2>1, <2>7, <4>1, <4>2
      <4> QED  BY <2>1, <4>3 DEF Queued, Distinct
    <3>3. ASSUME Queued(lock, l, q), Task(l, q) # t PROVE Queued(a, l, q)
      <4>1. PICK m \in 1 .. Len(lock) : lock[m] = Task(l, q)
            BY <3>3 DEF Queued
      <4>2. CASE m < i
        <5>1. m \in 1 .. Len(a)
              BY <2>1, <2>6, <4>2
        <5> QED  BY <2>7, <4>1, <4>2, <5>1 DEF Queued
      <4>3. CASE m > i
        <5>1. m - 1 \in 1 .. Len(a) /\ ~(m - 1 < i) /\ (m - 1) + 1 = m
              BY <2>1, <2>6, <4>3
        <5>2. a[m - 1] = Task(l, q)
              BY <2>7, <4>1, <5>1
        <5> QED  BY <5>1, <5>2 DEF Queued
      <4> QED  BY <2>1, <3>3, <4>1, <4>2, <4>3
    <3> QED  BY <3>1, <3>2, <3>3
  <2> QED  BY <2>6, <2>8, <2>9, <2>10 DEF a, t
<1> QED  BY <1>1, <1>2

-----------------------------------------------------------------------------
(* The lock, as the actions use it. *)

(* Who acquires the lock is queued, and no holder changes. *)
LEMMA AcquireQueues ==
    ASSUME TypeOK, LockInv, NEW k \in Kinds, NEW r \in Requests,
           ~Queued(lock, k, r), Acquire(k, r)
    PROVE  /\ lock' \in Seq(Tasks)
           /\ Distinct(lock)'
           /\ \A l \in Kinds, q \in Requests :
                /\ Queued(lock, l, q)' <=> Queued(lock, l, q) \/ (l = k /\ q = r)
                /\ Holds(l, q) => Holds(l, q)'
<1>1. lock \in Seq(Tasks) /\ Distinct(lock) /\ lock' = Append(lock, Task(k, r))
      BY DEF TypeOK, LockInv, Acquire
<1>2. \A l \in Kinds, q \in Requests :
        Queued(lock, l, q)' <=> Queued(lock', l, q)
      BY DEF Queued
<1>3. Distinct(lock)' <=> Distinct(lock')
      BY DEF Distinct
<1> QED  BY <1>1, <1>2, <1>3, Appended DEF Holds

(* The holder is queued, and it alone leaves when it releases the lock. *)
LEMMA ReleaseLeaves ==
    ASSUME TypeOK, LockInv, NEW k \in Kinds, NEW r \in Requests, Holds(k, r), Release
    PROVE  /\ lock' \in Seq(Tasks)
           /\ Distinct(lock)'
           /\ \A l \in Kinds, q \in Requests :
                Queued(lock, l, q)' <=> Queued(lock, l, q) /\ ~(l = k /\ q = r)
<1>1. lock \in Seq(Tasks) /\ Distinct(lock) /\ lock' = Tail(lock)
      BY DEF TypeOK, LockInv, Release
<1>2. \A l \in Kinds, q \in Requests :
        Queued(lock, l, q)' <=> Queued(lock', l, q)
      BY DEF Queued
<1>3. Distinct(lock)' <=> Distinct(lock')
      BY DEF Distinct
<1> QED  BY <1>1, <1>2, <1>3, Released DEF Holds

(* There is one holder, and it is in the queue. *)
LEMMA OneHolder ==
    ASSUME TypeOK, NEW k \in Kinds, NEW r \in Requests, Holds(k, r)
    PROVE  /\ Queued(lock, k, r)
           /\ \A l \in Kinds, q \in Requests : Holds(l, q) => l = k /\ q = r
<1>1. lock \in Seq(Tasks) /\ lock # <<>> /\ Head(lock) = Task(k, r)
      BY DEF TypeOK, Holds
<1>2. 1 \in 1 .. Len(lock) /\ lock[1] = Task(k, r)
      BY <1>1
<1>3. Queued(lock, k, r)
      BY <1>2 DEF Queued
<1> QED  BY <1>3 DEF Holds, Task

(* A request that gets its cluster cancels the remembered removal, and gives  *)
(* the lock back if the cluster runs.                                        *)
LEMMA GetCreatesQueue ==
    ASSUME TypeOK, LockInv, NEW r \in Requests, GetOrCreateCluster(r)
    PROVE  /\ lock' \in Seq(Tasks)
           /\ Distinct(lock)'
           /\ request'[r] = "start" => Holds("request", r)'
           /\ \A l \in Kinds, q \in Requests :
                Queued(lock, l, q)' <=>
                  /\ Queued(lock, l, q)
                  /\ ~(Removing(removeTask) /\ l = "remove" /\ q = removeTask)
                  /\ ~(request'[r] = "stacks" /\ l = "request" /\ q = r)
<1> DEFINE cancel == Removing(removeTask)
           w == IF cancel THEN Without(Task("remove", removeTask)) ELSE lock
<1>1. /\ lock \in Seq(Tasks) /\ Distinct(lock)
      /\ lock # <<>> /\ Head(lock) = Task("request", r)
      BY DEF TypeOK, LockInv, GetOrCreateCluster, Holds
<1>2. cancel => removeTask \in Requests
      BY DEF Removing, TypeOK
<1>3. {"request", "remove"} \subseteq Kinds
      BY DEF Kinds
<1>4. /\ w \in Seq(Tasks) /\ Distinct(w) /\ w # <<>> /\ Head(w) = Task("request", r)
      /\ \A l \in Kinds, q \in Requests :
           Queued(w, l, q) <=>
             Queued(lock, l, q) /\ ~(cancel /\ l = "remove" /\ q = removeTask)
  <2>1. CASE cancel
    <3>1. Head(lock) # Task("remove", removeTask)
          BY <1>1 DEF Task
    <3> HIDE DEF cancel
    <3> QED  BY <1>1, <1>2, <1>3, <2>1, <3>1, Cancelled
  <2>2. CASE ~cancel
        BY <1>1, <2>2
  <2> QED  BY <2>1, <2>2
<1>5. /\ lock' = IF request'[r] = "stacks" THEN Tail(w) ELSE w
      /\ request'[r] \in {"start", "stacks"}
      BY DEF GetOrCreateCluster, StartCluster, TypeOK
<1>6. \A l \in Kinds, q \in Requests :
        Queued(lock, l, q)' <=> Queued(lock', l, q)
      BY DEF Queued
<1>7. Distinct(lock)' <=> Distinct(lock')
      BY DEF Distinct
<1> HIDE DEF w, cancel
<1>8. CASE request'[r] = "stacks"
  <2>1. lock' = Tail(w)
        BY <1>5, <1>8
  <2>2. /\ Tail(w) \in Seq(Tasks) /\ Distinct(Tail(w))
        /\ \A l \in Kinds, q \in Requests :
             Queued(Tail(w), l, q) <=> Queued(w, l, q) /\ ~(l = "request" /\ q = r)
        BY <1>3, <1>4, Released
  <2> QED  BY <1>4, <1>6, <1>7, <1>8, <2>1, <2>2 DEF cancel
<1>9. CASE request'[r] = "start"
  <2>1. lock' = w
        BY <1>5, <1>9
  <2> QED  BY <1>4, <1>6, <1>7, <1>9, <2>1 DEF cancel, Holds
<1> QED  BY <1>5, <1>8, <1>9

-----------------------------------------------------------------------------
(* Types and the lock. *)

LEMMA TypeInit == Init => TypeOK
<1> SUFFICES ASSUME Init PROVE TypeOK
    OBVIOUS
<1>1. lock \in Seq(Tasks) /\ cluster \in [Requests -> States]
      BY DEF Init, States
<1>2. members \in [Requests -> SUBSET Requests] /\ awaited \in [Requests -> SUBSET Requests]
      BY DEF Init
<1>3. removal \in [Requests -> {"none", "ready", "event", "sleeping", "queued",
                                "removed", "cancelled", "failed"}]
      BY DEF Init
<1>4. node \in [Requests -> States \cup {"none"}] /\ notify \in [Requests -> BOOLEAN]
      BY DEF Init
<1> QED  BY <1>1, <1>2, <1>3, <1>4 DEF Init, TypeOK

(* One action per line of Next keeps what the lock and the types say. *)
LEMMA LockStep == TypeOK /\ LockInv /\ TurnInv /\ [Next]_vars => (TypeOK /\ LockInv)'
<1> SUFFICES ASSUME TypeOK, LockInv, TurnInv, [Next]_vars PROVE TypeOK' /\ LockInv'
    OBVIOUS
<1> USE DEF clusterVars, requestVars, nodeVars, stopVars
<1>k. "request" \in Kinds /\ "terminate" \in Kinds /\ "onStop" \in Kinds /\ "remove" \in Kinds
      BY DEF Kinds
<1>1. CASE UNCHANGED vars
      BY <1>1 DEF vars, TypeOK, LockInv, Holds, Queued, Distinct
<1>2. ASSUME NEW r \in Requests, RequestArrives(r) PROVE TypeOK' /\ LockInv'
  <2>1. ~Queued(lock, "request", r) /\ Acquire("request", r)
        BY <1>2 DEF RequestArrives, LockInv
  <2>2. TypeOK'
        BY <1>2, <1>k, <2>1, AcquireQueues DEF RequestArrives, Arrives, TypeOK
  <2> QED  BY <1>2, <1>k, <2>1, <2>2, AcquireQueues DEF RequestArrives, LockInv, TypeOK
<1>3. ASSUME NEW r \in Requests, GetOrCreateCluster(r) PROVE TypeOK' /\ LockInv'
  <2>1. TypeOK'
    <3>1. lock' \in Seq(Tasks)
          BY <1>3, GetCreatesQueue
    <3>2. PICK c \in Requests : registry' = c /\ StartCluster(r, c)
          BY <1>3 DEF GetOrCreateCluster, TypeOK
    <3>3. /\ target' \in [Requests -> Requests \cup {None}]
          /\ request' \in [Requests -> {"idle", "queued", "start", "stacks", "done", "failed"}]
          /\ cluster' \in [Requests -> States]
          BY <3>2 DEF StartCluster, TypeOK, States
    <3>4. removeTask' = None /\ UNCHANGED <<overlapped, members, terminate, nodeVars, stopVars>>
          BY <1>3 DEF GetOrCreateCluster
    <3>5. removal' = removal \/ removal' = [removal EXCEPT ![removeTask] = "cancelled"]
          BY <1>3 DEF GetOrCreateCluster
    <3> QED  BY <3>1, <3>2, <3>3, <3>4, <3>5 DEF TypeOK
  <2>2. ASSUME NEW q \in Requests
        PROVE  /\ request'[q] = IF q = r THEN request'[r] ELSE request[q]
               /\ request'[r] \in {"start", "stacks"}
               /\ terminate'[q] = terminate[q]
               /\ removal'[q] = IF Removing(removeTask) /\ q = removeTask
                                  THEN "cancelled" ELSE removal[q]
        BY <1>3 DEF GetOrCreateCluster, StartCluster, TypeOK
  <2>3. \A q \in Requests : request[q] = "start" => q = r
        BY <1>3, <1>k, OneHolder DEF GetOrCreateCluster, LockInv
  <2>4. Removing(removeTask) => removal[removeTask] # "event"
        BY DEF Removing
  <2>5. request[r] = "queued"
        BY <1>3 DEF GetOrCreateCluster
  <2>6. Distinct(lock)' /\ (request'[r] = "start" => Holds("request", r)')
        BY <1>3, GetCreatesQueue
  <2>7. ASSUME NEW q \in Requests
        PROVE  /\ Queued(lock, "request", q)' <=>
                    Queued(lock, "request", q) /\ ~(request'[r] = "stacks" /\ q = r)
               /\ Queued(lock, "terminate", q)' <=> Queued(lock, "terminate", q)
               /\ Queued(lock, "onStop", q)' <=> Queued(lock, "onStop", q)
               /\ Queued(lock, "remove", q)' <=>
                    Queued(lock, "remove", q) /\ ~(Removing(removeTask) /\ q = removeTask)
        BY <1>3, <1>k, GetCreatesQueue
  <2> QED  BY <2>1, <2>2, <2>3, <2>4, <2>5, <2>6, <2>7 DEF LockInv
<1>4. ASSUME NEW r \in Requests, ClusterStarted(r) \/ ClusterStartFails(r)
      PROVE  TypeOK' /\ LockInv'
  <2>1. Holds("request", r) /\ Release /\ request[r] = "start" /\ target[r] \in Requests
        BY <1>4 DEF ClusterStarted, ClusterStartFails, LockInv, TurnInv
  <2>2. \A q \in Requests : request[q] = "start" => q = r
        BY <1>k, <2>1, OneHolder DEF LockInv
  <2>3. TypeOK'
    <3>1. lock' \in Seq(Tasks)
          BY <1>k, <2>1, ReleaseLeaves
    <3>2. CASE ClusterStarted(r)
          BY <2>1, <3>1, <3>2 DEF ClusterStarted, TypeOK, States
    <3>3. CASE ClusterStartFails(r)
          BY <3>1, <3>3 DEF ClusterStartFails, TypeOK
    <3> QED  BY <1>4, <3>2, <3>3
  <2>4. /\ UNCHANGED <<terminate, removal>>
        /\ \A q \in Requests : q # r => request'[q] = request[q]
        /\ request'[r] \in {"stacks", "failed"}
        BY <1>4 DEF ClusterStarted, ClusterStartFails, TypeOK
  <2> QED  BY <1>k, <2>1, <2>2, <2>3, <2>4, ReleaseLeaves DEF LockInv
<1>5. ASSUME NEW r \in Requests, CreateNode(r) \/ StacksFail(r) PROVE TypeOK' /\ LockInv'
  <2>1. target[r] \in Requests
        BY <1>5 DEF CreateNode, StacksFail, TurnInv
  <2>2. TypeOK'
    <3>1. CASE CreateNode(r)
          BY <2>1, <3>1 DEF CreateNode, TypeOK, States
    <3>2. CASE StacksFail(r)
          BY <3>2 DEF StacksFail, TypeOK
    <3> QED  BY <1>5, <3>1, <3>2
  <2>3. /\ UNCHANGED <<lock, terminate, removal>>
        /\ \A q \in Requests : q # r => request'[q] = request[q]
        /\ request[r] = "stacks" /\ request'[r] \in {"done", "failed"}
        BY <1>5 DEF CreateNode, StacksFail, TypeOK
  <2> QED  BY <2>2, <2>3 DEF LockInv, Queued, Distinct, Holds
<1>6. ASSUME NEW r \in Requests, TerminateArrives(r) PROVE TypeOK' /\ LockInv'
  <2>1. ~Queued(lock, "terminate", r) /\ Acquire("terminate", r)
        BY <1>6 DEF TerminateArrives, LockInv
  <2>2. TypeOK'
        BY <1>6, <1>k, <2>1, AcquireQueues DEF TerminateArrives, Arrives, TypeOK
  <2> QED  BY <1>6, <1>k, <2>1, <2>2, AcquireQueues DEF TerminateArrives, LockInv, TypeOK
<1>7. ASSUME NEW r \in Requests, TerminateNode(r) PROVE TypeOK' /\ LockInv'
  <2>1. TypeOK'
        BY <1>7 DEF TerminateNode, StopNode, TypeOK, States
  <2>2. /\ UNCHANGED <<lock, request, removal>>
        /\ \A q \in Requests : q # r => terminate'[q] = terminate[q]
        /\ terminate[r] = "queued" /\ terminate'[r] = "stopping"
        BY <1>7 DEF TerminateNode, StopNode, TypeOK
  <2> QED  BY <2>1, <2>2 DEF LockInv, Queued, Distinct, Holds
<1>8. ASSUME NEW r \in Requests, TerminateReturns(r) PROVE TypeOK' /\ LockInv'
  <2>1. Holds("terminate", r) /\ Release
        BY <1>8 DEF TerminateReturns
  <2>2. TypeOK'
        BY <1>8, <1>k, <2>1, ReleaseLeaves DEF TerminateReturns, TypeOK
  <2>3. /\ UNCHANGED <<request, removal>>
        /\ \A q \in Requests : q # r => terminate'[q] = terminate[q]
        /\ terminate'[r] = "done"
        BY <1>8 DEF TerminateReturns, TypeOK
  <2>4. \A q \in Requests : request[q] # "start"
        BY <1>k, <2>1, OneHolder DEF LockInv
  <2> QED  BY <1>k, <2>1, <2>2, <2>3, <2>4, ReleaseLeaves DEF LockInv
<1>9. ASSUME NEW r \in Requests,
             NodeRuns(r) \/ NodeStartFails(r) \/ MonitorStopsNode(r) \/ NodeStep(r)
      PROVE  TypeOK' /\ LockInv'
  <2>1. TypeOK'
    <3>1. CASE NodeRuns(r)
          BY <3>1 DEF NodeRuns, TypeOK, States
    <3>2. CASE NodeStartFails(r)
          BY <3>2 DEF NodeStartFails, TypeOK, States
    <3>3. CASE MonitorStopsNode(r)
          BY <3>3 DEF MonitorStopsNode, StopNode, Arrives, TypeOK, States
    <3>4. CASE NodeStopped(r)
          BY <3>4 DEF NodeStopped, TypeOK, States
    <3>5. CASE NodeStopFails(r)
          BY <3>5 DEF NodeStopFails, TypeOK
    <3> QED  BY <1>9, <3>1, <3>2, <3>3, <3>4, <3>5 DEF NodeStep
  <2>2. UNCHANGED <<lock, request, terminate, removal>>
        BY <1>9 DEF NodeRuns, NodeStartFails, MonitorStopsNode, NodeStep, NodeStopped,
                    NodeStopFails
  <2> QED  BY <2>1, <2>2 DEF LockInv, Queued, Distinct, Holds
<1>10. ASSUME NEW r \in Requests, StopStep(r) PROVE TypeOK' /\ LockInv'
  <2>1. onStop[r] # "none" /\ target[r] \in Requests
        BY <1>10 DEF StopStep, NothingToStop, StopCluster, ClusterNodesStopped,
                     ClusterStopFails, ClusterStopped, TurnInv
  <2>2. CASE NothingToStop(r) \/ ClusterNodesStopped(r) \/ ClusterStopFails(r)
    <3>1. TypeOK'
          BY <2>2 DEF NothingToStop, ClusterNodesStopped, ClusterStopFails, TypeOK
    <3>2. UNCHANGED <<lock, request, terminate, removal>>
          BY <2>2 DEF NothingToStop, ClusterNodesStopped, ClusterStopFails
    <3> QED  BY <3>1, <3>2 DEF LockInv, Queued, Distinct, Holds
  <2>3. CASE StopCluster(r)
    <3>1. NonTerminated(target[r]) \subseteq Requests
          BY <2>1 DEF NonTerminated, TypeOK
    <3>2. TypeOK'
          BY <2>1, <2>3, <3>1 DEF StopCluster, TypeOK, States
    <3> QED  BY <2>3, <3>2 DEF StopCluster, LockInv, Queued, Distinct, Holds
  <2>4. CASE ClusterStopped(r)
    <3>1. TypeOK'
          BY <2>1, <2>4 DEF ClusterStopped, TypeOK, States
    <3>2. UNCHANGED <<lock, request, terminate>>
          BY <2>4 DEF ClusterStopped
    <3>3. removal[r] = "none" /\ removal' = [removal EXCEPT ![r] = "ready"]
          BY <2>4 DEF ClusterStopped, TurnInv
    <3>4. \A q \in Requests : /\ removal'[q] = "event" <=> removal[q] = "event"
                              /\ removal'[q] = "queued" <=> removal[q] = "queued"
          BY <3>3 DEF TypeOK
    <3> QED  BY <3>1, <3>2, <3>4 DEF LockInv, Queued, Distinct, Holds
  <2> QED  BY <1>10, <2>2, <2>3, <2>4 DEF StopStep
<1>11. ASSUME NEW r \in Requests, OnClusterStop(r) PROVE TypeOK' /\ LockInv'
  <2>1. ~Queued(lock, "onStop", r) /\ Acquire("onStop", r)
        BY <1>11 DEF OnClusterStop, LockInv
  <2>2. TypeOK'
        BY <1>11, <1>k, <2>1, AcquireQueues DEF OnClusterStop, TypeOK
  <2> QED  BY <1>11, <1>k, <2>1, <2>2, AcquireQueues DEF OnClusterStop, LockInv, TypeOK
<1>12. ASSUME NEW r \in Requests, ScheduleRemoval(r) PROVE TypeOK' /\ LockInv'
  <2>1. Holds("onStop", r) /\ Release
        BY <1>12 DEF ScheduleRemoval
  <2>2. TypeOK'
        BY <1>12, <1>k, <2>1, ReleaseLeaves DEF ScheduleRemoval, TypeOK
  <2>3. removal[r] = "event" /\ \A q \in Requests : request[q] # "start"
        BY <1>k, <2>1, OneHolder DEF LockInv
  <2>4. /\ UNCHANGED <<request, terminate>>
        /\ \A q \in Requests : q # r => removal'[q] = removal[q]
        /\ removal'[r] = "sleeping"
        BY <1>12 DEF ScheduleRemoval, TypeOK
  <2> QED  BY <1>k, <2>1, <2>2, <2>3, <2>4, ReleaseLeaves DEF LockInv
<1>13. ASSUME NEW r \in Requests, RemovalWakes(r) PROVE TypeOK' /\ LockInv'
  <2>1. ~Queued(lock, "remove", r) /\ Acquire("remove", r)
        BY <1>13 DEF RemovalWakes, LockInv
  <2>2. TypeOK'
        BY <1>13, <1>k, <2>1, AcquireQueues DEF RemovalWakes, TypeOK
  <2> QED  BY <1>13, <1>k, <2>1, <2>2, AcquireQueues DEF RemovalWakes, LockInv, TypeOK
<1>14. ASSUME NEW r \in Requests, RemoveCluster(r) PROVE TypeOK' /\ LockInv'
  <2>1. Holds("remove", r) /\ Release
        BY <1>14 DEF RemoveCluster
  <2>2. TypeOK'
    <3>1. lock' \in Seq(Tasks)
          BY <1>k, <2>1, ReleaseLeaves
    <3> QED  BY <1>14, <3>1 DEF RemoveCluster, TypeOK
  <2>3. removal[r] = "queued" /\ \A q \in Requests : request[q] # "start"
        BY <1>k, <2>1, OneHolder DEF LockInv
  <2>4. /\ UNCHANGED <<request, terminate>>
        /\ \A q \in Requests : q # r => removal'[q] = removal[q]
        /\ removal'[r] \in {"removed", "failed"}
        BY <1>14 DEF RemoveCluster, TypeOK
  <2> QED  BY <1>k, <2>1, <2>2, <2>3, <2>4, ReleaseLeaves DEF LockInv
<1> QED  BY <1>1, <1>2, <1>3, <1>4, <1>5, <1>6, <1>7, <1>8, <1>9, <1>10, <1>11, <1>12,
            <1>13, <1>14
         DEF Next, RequestStep, TerminateStep, RemovalStep

(* What a task has done, the next in turn finds done. *)
LEMMA TurnStep == TypeOK /\ LockInv /\ TurnInv /\ [Next]_vars => TurnInv'
<1> SUFFICES ASSUME TypeOK, LockInv, TurnInv, [Next]_vars PROVE TurnInv'
    OBVIOUS
<1> USE DEF clusterVars, requestVars, nodeVars, stopVars
<1>1. CASE UNCHANGED vars
      BY <1>1 DEF vars, TurnInv
<1>2. ASSUME NEW r \in Requests, RequestArrives(r) \/ RequestStep(r) PROVE TurnInv'
  <2>1. CASE RequestArrives(r)
        BY <2>1 DEF RequestArrives, TypeOK, TurnInv
  <2>2. CASE GetOrCreateCluster(r)
    <3>1. request[r] = "queued" /\ UNCHANGED <<node, onStop, members>>
          BY <2>2 DEF GetOrCreateCluster
    <3>2. /\ \A q \in Requests : q # r => request'[q] = request[q] /\ target'[q] = target[q]
          /\ target'[r] \in Requests
          BY <2>2 DEF GetOrCreateCluster, StartCluster, TypeOK
    <3>3. \A q \in Requests : removal'[q] # "none" => removal[q] # "none"
          BY <2>2 DEF GetOrCreateCluster, Removing, TypeOK
    <3> QED  BY <3>1, <3>2, <3>3 DEF TurnInv
  <2>3. CASE ClusterStarted(r) \/ ClusterStartFails(r) \/ StacksFail(r)
        BY <2>3 DEF ClusterStarted, ClusterStartFails, StacksFail, TypeOK, TurnInv
  <2>4. CASE CreateNode(r)
    <3>1. /\ request[r] = "stacks" /\ target[r] \in Requests /\ UNCHANGED <<target, onStop, removal>>
          /\ onStop[r] = "none"
          BY <2>4 DEF CreateNode, TurnInv
    <3>2. /\ \A q \in Requests : q # r => request'[q] = request[q] /\ node'[q] = node[q]
          /\ request'[r] = "done"
          /\ \A c, q \in Requests : q \in members'[c] =>
               q \in members[c] \/ (q = r /\ c = target[r])
          BY <2>4, <3>1 DEF CreateNode, TypeOK
    <3> QED  BY <3>1, <3>2 DEF TurnInv
  <2> QED  BY <1>2, <2>1, <2>2, <2>3, <2>4 DEF RequestStep
<1>3. ASSUME NEW r \in Requests, TerminateArrives(r) \/ TerminateReturns(r) PROVE TurnInv'
      BY <1>3 DEF TerminateArrives, TerminateReturns, TurnInv
<1>4. ASSUME NEW r \in Requests,
             \/ TerminateNode(r) \/ NodeRuns(r) \/ NodeStartFails(r)
             \/ MonitorStopsNode(r) \/ NodeStep(r)
      PROVE  TurnInv'
  <2>1. /\ UNCHANGED <<request, target, members, removal>>
        /\ node[r] \notin {"none", "terminated"} /\ onStop[r] = "none"
        BY <1>4 DEF TerminateNode, CanStop, Alive, NodeRuns, NodeStartFails, MonitorStopsNode,
                    NodeStep, NodeStopped, NodeStopFails, BeingStopped, StopNode, TurnInv
  <2>2. /\ \A q \in Requests : q # r => node'[q] = node[q] /\ onStop'[q] = onStop[q]
        /\ onStop'[r] = onStop[r] \/ node'[r] = "terminated"
        BY <1>4 DEF TerminateNode, NodeRuns, NodeStartFails, MonitorStopsNode, NodeStep,
                    NodeStopped, NodeStopFails, StopNode, TypeOK
  <2> QED  BY <2>1, <2>2 DEF TurnInv
<1>5. ASSUME NEW r \in Requests, StopStep(r) PROVE TurnInv'
  <2>1. CASE NothingToStop(r) \/ ClusterNodesStopped(r) \/ ClusterStopFails(r)
        BY <2>1 DEF NothingToStop, ClusterNodesStopped, ClusterStopFails, TypeOK, TurnInv
  <2>2. CASE StopCluster(r)
    <3>1. \A q \in Requests : node'[q] # node[q] => Alive(q)
          BY <2>2 DEF StopCluster, NonTerminated
    <3>2. \A q \in Requests : (node[q] = "none" => node'[q] = "none")
                              /\ (node[q] = "terminated" => node'[q] = "terminated")
          BY <3>1 DEF Alive
    <3>3. UNCHANGED <<request, target, members, removal>>
          BY <2>2 DEF StopCluster
    <3>4. \A q \in Requests : /\ onStop'[q] # "none" => onStop[q] # "none"
                              /\ onStop[q] = "done" => onStop'[q] = "done"
          BY <2>2 DEF StopCluster, TypeOK
    <3> QED  BY <3>2, <3>3, <3>4 DEF TurnInv
  <2>3. CASE ClusterStopped(r)
        BY <2>3 DEF ClusterStopped, TypeOK, TurnInv
  <2> QED  BY <1>5, <2>1, <2>2, <2>3 DEF StopStep
<1>6. ASSUME NEW r \in Requests, RemovalStep(r) PROVE TurnInv'
  <2>1. /\ UNCHANGED <<request, target, node, onStop, members>>
        /\ \A q \in Requests : q # r => removal'[q] = removal[q]
        BY <1>6 DEF RemovalStep, OnClusterStop, ScheduleRemoval, RemovalWakes, RemoveCluster,
                    TypeOK
  <2>2. removal[r] # "none"
    <3>1. ("onStop" \in Kinds) /\ ("remove" \in Kinds)
          BY DEF Kinds
    <3> QED  BY <1>6, <3>1, OneHolder
             DEF RemovalStep, OnClusterStop, ScheduleRemoval, RemovalWakes, RemoveCluster, LockInv
  <2> QED  BY <2>1, <2>2 DEF TurnInv
<1> QED  BY <1>1, <1>2, <1>3, <1>4, <1>5, <1>6 DEF Next, TerminateStep

-----------------------------------------------------------------------------
(* What cannot be under way together. *)

(* When all is quiet nobody calls, terminates or stops. *)
LEMMA QuietIsIdle ==
    ASSUME TypeOK, LockInv, Quiet, NEW r \in Requests
    PROVE  ~Called(r) /\ ~Terminating(r) /\ ~StopRuns(r)
<1>1. \A k \in Kinds : ~Queued(lock, k, r)
      BY DEF Quiet, Queued
<1>2. ~Queued(lock, "request", r) /\ ~Queued(lock, "terminate", r)
      BY <1>1 DEF Kinds
<1> QED  BY <1>2 DEF Quiet, LockInv, Called, Terminating, BeingStopped, StopRuns

(* A cluster that is used, or that stops, is not one that waits to be removed. *)
LEMMA UsedNotRemoved ==
    ASSUME TypeOK, RegisteredInv, RemovalInv, NEW r \in Requests,
           \/ Alive(r) \/ StopRuns(r) \/ request[r] \in {"start", "stacks"}
    PROVE  \A t \in Requests : ~Removing(t)
BY DEF RegisteredInv, RemovalInv

-----------------------------------------------------------------------------
(* The order of things, as long as nothing has overlapped. *)

InOrder == AloneInv /\ RegisteredInv /\ RemovalInv

(* What a call does on its way to a node. *)
LEMMA RequestInOrder ==
    ASSUME TypeOK, LockInv, TurnInv, InOrder, NEW r \in Requests,
           (RequestArrives(r) /\ Quiet) \/ RequestStep(r)
    PROVE  InOrder'
<1> USE DEF clusterVars, requestVars, nodeVars, stopVars
<1>1. CASE RequestArrives(r) /\ Quiet
  <2>1. \A q \in Requests : ~Called(q) /\ ~Terminating(q) /\ ~StopRuns(q)
        BY <1>1, QuietIsIdle
  <2>2. /\ UNCHANGED <<registry, removeTask, cluster, members, target, terminate, node,
                       notify, raised, onStop, awaited, removal>>
        /\ request[r] = "idle" /\ request'[r] = "queued"
        /\ \A q \in Requests : q # r => request'[q] = request[q]
        BY <1>1 DEF RequestArrives, TypeOK
  <2>3. AloneInv'
        BY <2>1, <2>2 DEF InOrder, AloneInv, Called, Terminating, BeingStopped, StopRuns
  <2>4. RegisteredInv'
        BY <2>2 DEF InOrder, RegisteredInv, Alive, BeingStopped, StopRuns
  <2>5. RemovalInv'
        BY <2>2 DEF InOrder, RemovalInv, Removing, BeingStopped, StopRuns
  <2> QED  BY <2>3, <2>4, <2>5 DEF InOrder
<1>2. CASE GetOrCreateCluster(r)
  <2> DEFINE cancel == Removing(removeTask)
             c == IF cancel \/ registry = None THEN r ELSE registry
  <2>1. request[r] = "queued" /\ Called(r)
        BY <1>2 DEF GetOrCreateCluster, Called
  <2>2. /\ UNCHANGED <<members, terminate, node, notify, raised, onStop, awaited>>
        /\ request'[r] \in {"start", "stacks"}
        /\ \A q \in Requests : q # r => request'[q] = request[q] /\ target'[q] = target[q]
        BY <1>2 DEF GetOrCreateCluster, StartCluster, TypeOK
  <2>3. c \in Requests /\ target'[r] = c /\ registry' = c /\ removeTask' = None
        BY <1>2 DEF GetOrCreateCluster, StartCluster, TypeOK
  <2>4. /\ cluster'[c] \in {"pending", "running"}
        /\ \A d \in Requests :
             \/ cluster'[d] = cluster[d]
             \/ d = c /\ cluster[d] \notin {"pending", "running"}
        BY <1>2, <2>3 DEF GetOrCreateCluster, StartCluster, TypeOK
  <2>5. \A q \in Requests :
          removal'[q] = IF cancel /\ q = removeTask THEN "cancelled" ELSE removal[q]
        BY <1>2 DEF GetOrCreateCluster, TypeOK
  <2>6. \A q \in Requests : ~StopRuns(q) /\ ~Terminating(q) /\ (Called(q) => q = r)
        BY <2>1 DEF InOrder, AloneInv
  <2>7. cancel => removeTask \in Requests
        BY DEF Removing, TypeOK
  <2>8. \A q \in Requests : Removing(q) => cancel /\ q = removeTask
        BY DEF InOrder, RemovalInv
  <2> HIDE DEF cancel, c
  <2>9. \A q \in Requests : ~StopRuns(q)'
        BY <2>2, <2>5, <2>6 DEF BeingStopped, StopRuns
  <2>10. AloneInv'
        BY <2>2, <2>6, <2>9 DEF InOrder, AloneInv, Called, Terminating
  <2>11. ASSUME NEW q \in Requests, Alive(q)
         PROVE  /\ q # r /\ registry = target[q] /\ registry' = registry
                /\ cluster'[target[q]] = cluster[target[q]]
    <3>1. q # r
          BY <2>1, <2>11 DEF Alive, TurnInv
    <3>2. /\ registry = target[q] /\ target[q] \in Requests
          /\ cluster[target[q]] \in {"pending", "running"}
          BY <2>11 DEF InOrder, RegisteredInv, Alive, TurnInv
    <3>3. ~cancel
          BY <2>7, <2>11, UsedNotRemoved DEF cancel, InOrder
    <3>4. registry # None
          BY <3>2, RequestsAssumption
    <3> QED  BY <2>3, <2>4, <3>1, <3>2, <3>3, <3>4 DEF c
  <2>12. RegisteredInv'
    <3>1. \A q \in Requests : Alive(q)' <=> Alive(q)
          BY <2>2 DEF Alive
    <3>2. \A q \in Requests : request'[q] \in {"start", "stacks"} => q = r
          BY <2>2, <2>6 DEF Called
    <3>3. \A q \in Requests : /\ onStop'[q] \notin {"nodes", "closing"}
                              /\ removal'[q] \notin {"ready", "event"}
          BY <2>9 DEF BeingStopped, StopRuns
    <3>4. \A q \in Requests : Alive(q) =>
            /\ registry' = target'[q] /\ q \in members'[target'[q]]
            /\ cluster'[target'[q]] \in {"pending", "running"}
          BY <2>2, <2>11 DEF InOrder, RegisteredInv
    <3>5. /\ registry' = target'[r] /\ cluster'[target'[r]] \in {"pending", "running"}
          BY <2>3, <2>4
    <3> QED  BY <2>9, <3>1, <3>2, <3>3, <3>4, <3>5 DEF RegisteredInv
  <2>13. RemovalInv'
    <3>1. \A q \in Requests : ~Removing(q)' /\ removal'[q] # "failed"
          BY <2>5, <2>8 DEF InOrder, RemovalInv, Removing
    <3> QED  BY <3>1 DEF RemovalInv
  <2> QED  BY <2>10, <2>12, <2>13 DEF InOrder
<1>3. CASE ClusterStarted(r) \/ ClusterStartFails(r) \/ StacksFail(r)
  <2>1. request[r] \in {"start", "stacks"} /\ target[r] \in Requests
        BY <1>3 DEF ClusterStarted, ClusterStartFails, StacksFail, TurnInv
  <2>2. /\ UNCHANGED <<registry, removeTask, members, target, terminate, node, notify,
                       raised, onStop, awaited, removal>>
        /\ request'[r] \in {"stacks", "failed"}
        /\ \A q \in Requests : q # r => request'[q] = request[q]
        BY <1>3 DEF ClusterStarted, ClusterStartFails, StacksFail, TypeOK
  <2>3. \A d \in Requests : cluster'[d] # cluster[d] => d = target[r] /\ cluster'[d] = "running"
        BY <1>3, <2>1 DEF ClusterStarted, ClusterStartFails, StacksFail, TypeOK
  <2>4. Called(r) /\ \A q \in Requests : ~StopRuns(q) /\ ~Terminating(q) /\ (Called(q) => q = r)
        BY <2>1 DEF InOrder, AloneInv, Called
  <2>5. AloneInv'
        BY <2>2, <2>4 DEF InOrder, AloneInv, Called, Terminating, BeingStopped, StopRuns
  <2>6. RegisteredInv'
    <3>1. \A q \in Requests : ~StopRuns(q)' /\ (Alive(q)' <=> Alive(q))
          BY <2>2, <2>4 DEF BeingStopped, StopRuns, Alive
    <3>2. \A q \in Requests : /\ onStop'[q] \notin {"nodes", "closing"}
                              /\ removal'[q] \notin {"ready", "event"}
          BY <3>1 DEF BeingStopped, StopRuns
    <3>3. \A q \in Requests : Alive(q) => target[q] \in Requests
          BY DEF Alive, TurnInv
    <3>4. \A q \in Requests : request'[q] \in {"start", "stacks"} => q = r
          BY <2>2, <2>4 DEF Called
    <3> QED  BY <2>1, <2>2, <2>3, <3>1, <3>2, <3>3, <3>4 DEF InOrder, RegisteredInv
  <2>7. RemovalInv'
        BY <2>1, <2>2, UsedNotRemoved DEF InOrder, RemovalInv, Removing
  <2> QED  BY <2>5, <2>6, <2>7 DEF InOrder
<1>4. CASE CreateNode(r)
  <2>1. /\ request[r] = "stacks" /\ Called(r) /\ target[r] \in Requests
        /\ node[r] = "none" /\ onStop[r] = "none" /\ removal[r] = "none"
        BY <1>4 DEF CreateNode, Called, TurnInv
  <2>2. /\ UNCHANGED <<registry, removeTask, cluster, target, terminate, notify,
                       raised, onStop, awaited, removal>>
        /\ request'[r] = "done" /\ node'[r] = "pending" /\ r \in members'[target[r]]
        /\ \A q \in Requests : q # r => request'[q] = request[q] /\ node'[q] = node[q]
        /\ \A d \in Requests : members[d] \subseteq members'[d]
        BY <1>4, <2>1 DEF CreateNode, TypeOK
  <2>3. \A q \in Requests : ~StopRuns(q) /\ ~Terminating(q) /\ (Called(q) => q = r)
        BY <2>1 DEF InOrder, AloneInv
  <2>4. \A q \in Requests : StopRuns(q)' <=> StopRuns(q)
        BY <2>1, <2>2 DEF BeingStopped, StopRuns
  <2>5. AloneInv'
        BY <2>2, <2>3, <2>4 DEF InOrder, AloneInv, Called, Terminating
  <2>6. RegisteredInv'
    <3>1. \A q \in Requests : /\ q # r /\ Alive(q)' => Alive(q)
                              /\ Alive(q) => target[q] \in Requests
          BY <2>2 DEF Alive, TurnInv
    <3>2. registry = target[r] /\ cluster[target[r]] \in {"pending", "running"}
          BY <2>1 DEF InOrder, RegisteredInv
    <3> QED  BY <2>2, <2>3, <2>4, <3>1, <3>2 DEF InOrder, RegisteredInv
  <2>7. RemovalInv'
        BY <2>1, <2>2, UsedNotRemoved DEF InOrder, RemovalInv, Removing
  <2> QED  BY <2>5, <2>6, <2>7 DEF InOrder
<1> QED  BY <1>1, <1>2, <1>3, <1>4 DEF RequestStep

(* What terminate_node, the monitor and the node do. *)
LEMMA NodeInOrder ==
    ASSUME TypeOK, LockInv, TurnInv, InOrder, NEW r \in Requests,
           \/ (TerminateArrives(r) \/ MonitorStopsNode(r)) /\ Quiet
           \/ TerminateStep(r) \/ NodeRuns(r) \/ NodeStartFails(r) \/ NodeStep(r)
    PROVE  InOrder'
<1> USE DEF clusterVars, requestVars, nodeVars, stopVars
<1>1. CASE (TerminateArrives(r) /\ Quiet) \/ TerminateReturns(r)
  <2>1. /\ UNCHANGED <<registry, removeTask, cluster, members, request, target, node,
                       notify, raised, onStop, awaited, removal>>
        /\ \A q \in Requests : q # r => terminate'[q] = terminate[q]
        BY <1>1 DEF TerminateArrives, TerminateReturns, TypeOK
  <2>2. \/ \A q \in Requests : ~Called(q) /\ ~Terminating(q) /\ ~StopRuns(q)
        \/ terminate'[r] = "done"
        BY <1>1, QuietIsIdle DEF TerminateReturns, TypeOK
  <2>3. AloneInv'
        BY <2>1, <2>2 DEF InOrder, AloneInv, Called, Terminating, BeingStopped, StopRuns
  <2>4. RegisteredInv'
        BY <2>1 DEF InOrder, RegisteredInv, Alive, BeingStopped, StopRuns
  <2>5. RemovalInv'
        BY <2>1 DEF InOrder, RemovalInv, Removing, BeingStopped, StopRuns
  <2> QED  BY <2>3, <2>4, <2>5 DEF InOrder
<1>2. CASE TerminateNode(r) \/ (MonitorStopsNode(r) /\ Quiet)
  <2>1. Alive(r) /\ onStop[r] = "none" /\ removal[r] = "none"
        BY <1>2 DEF TerminateNode, CanStop, MonitorStopsNode, Alive, TurnInv
  <2>2. /\ UNCHANGED <<registry, removeTask, cluster, members, request, target, raised,
                       onStop, awaited, removal>>
        /\ node'[r] = "terminating" /\ notify'[r] = TRUE
        /\ \A q \in Requests : q # r => node'[q] = node[q] /\ notify'[q] = notify[q]
        BY <1>2 DEF TerminateNode, MonitorStopsNode, StopNode, TypeOK
  <2>3. \A q \in Requests : ~Called(q) /\ (StopRuns(q) => q = r) /\ (Terminating(q)' => q = r)
    <3>1. CASE TerminateNode(r)
      <4>1. Terminating(r)
            BY <3>1 DEF TerminateNode, Terminating
      <4>2. \A q \in Requests : q # r => terminate'[q] = terminate[q]
            BY <3>1 DEF TerminateNode, TypeOK
      <4> QED  BY <4>1, <4>2 DEF InOrder, AloneInv, Terminating
    <3>2. CASE MonitorStopsNode(r) /\ Quiet
      <4>1. UNCHANGED terminate
            BY <3>2 DEF MonitorStopsNode
      <4> QED  BY <3>2, <4>1, QuietIsIdle DEF Terminating
    <3> QED  BY <1>2, <3>1, <3>2
  <2>4. \A q \in Requests : (StopRuns(q)' => q = r) /\ ~Called(q)'
        BY <2>2, <2>3 DEF BeingStopped, StopRuns, Called
  <2>5. AloneInv'
        BY <2>3, <2>4 DEF AloneInv
  <2>6. \A q \in Requests : Alive(q)' => Alive(q)
        BY <2>1, <2>2 DEF Alive
  <2>7. registry = target[r]
        BY <2>1 DEF InOrder, RegisteredInv
  <2>8. RegisteredInv'
        BY <2>2, <2>4, <2>6, <2>7 DEF InOrder, RegisteredInv
  <2>9. RemovalInv'
        BY <2>1, <2>2, UsedNotRemoved DEF InOrder, RemovalInv, Removing
  <2> QED  BY <2>5, <2>8, <2>9 DEF InOrder
<1>3. CASE NodeRuns(r) \/ NodeStartFails(r) \/ NodeStep(r)
  <2>1. /\ UNCHANGED <<registry, removeTask, cluster, members, request, target, terminate,
                       notify, awaited, removal>>
        /\ ~BeingStopped(r)' /\ raised \subseteq raised'
        /\ \A q \in Requests : q # r => node'[q] = node[q] /\ onStop'[q] = onStop[q]
        /\ node[r] \in {"pending", "terminating"}
        BY <1>3 DEF NodeRuns, NodeStartFails, NodeStep, NodeStopped, NodeStopFails,
                    BeingStopped, TypeOK
  <2>2. \/ onStop'[r] = onStop[r]
        \/ onStop'[r] = "ready" /\ StopRuns(r)
        BY <1>3 DEF NodeRuns, NodeStartFails, NodeStep, NodeStopped, NodeStopFails,
                    BeingStopped, StopRuns, TypeOK
  <2>3. onStop[r] = "none" /\ removal[r] = "none"
        BY <2>1 DEF TurnInv
  <2>4. \A q \in Requests : (StopRuns(q)' => StopRuns(q)) /\ (Alive(q)' => Alive(q))
    <3>1. Alive(r)' => Alive(r)
          BY <1>3 DEF NodeRuns, NodeStartFails, NodeStep, NodeStopped, NodeStopFails,
                    BeingStopped, Alive, TypeOK
    <3>2. StopRuns(r)' => StopRuns(r)
          BY <2>1, <2>2, <2>3 DEF BeingStopped, StopRuns
    <3>3. \A q \in Requests : q # r => (StopRuns(q)' => StopRuns(q)) /\ (Alive(q)' => Alive(q))
          BY <2>1 DEF BeingStopped, StopRuns, Alive
    <3> QED  BY <3>1, <3>2, <3>3
  <2>5. AloneInv'
    <3>1. \A q \in Requests : (Called(q)' <=> Called(q)) /\ (Terminating(q)' <=> Terminating(q))
          BY <2>1 DEF Called, Terminating
    <3> QED  BY <2>4, <3>1 DEF InOrder, AloneInv
  <2>6. \A q \in Requests : onStop'[q] \in {"nodes", "closing"} => onStop[q] = onStop'[q]
        BY <2>1, <2>2
  <2>7. RegisteredInv'
        BY <2>1, <2>4, <2>6 DEF InOrder, RegisteredInv
  <2>8. RemovalInv'
        BY <2>1, <2>4 DEF InOrder, RemovalInv, Removing
  <2> QED  BY <2>5, <2>7, <2>8 DEF InOrder
<1> QED  BY <1>1, <1>2, <1>3 DEF TerminateStep

(* What the stop of a cluster does. *)
LEMMA StopInOrder ==
    ASSUME TypeOK, LockInv, TurnInv, InOrder, NEW r \in Requests, StopStep(r)
    PROVE  InOrder'
<1> USE DEF clusterVars, requestVars, nodeVars, stopVars
<1>1. /\ StopRuns(r) /\ onStop[r] \in {"ready", "nodes", "closing"}
      /\ node[r] = "terminated" /\ removal[r] = "none"
      /\ target[r] \in Requests /\ registry = target[r]
      /\ UNCHANGED <<registry, removeTask, request, target, terminate>>
      BY DEF StopStep, NothingToStop, StopCluster, ClusterNodesStopped, ClusterStopFails,
             ClusterStopped, BeingStopped, StopRuns, TurnInv, InOrder, RegisteredInv
<1>2. \A q \in Requests : /\ ~Called(q) /\ (StopRuns(q) => q = r) /\ ~Removing(q)
                          /\ Terminating(q) => q = r
      BY <1>1, UsedNotRemoved DEF InOrder, AloneInv
<1>3. \A q \in Requests : (Called(q)' <=> Called(q)) /\ (Terminating(q)' <=> Terminating(q))
      BY <1>1 DEF Called, Terminating
<1>4. CASE NothingToStop(r) \/ ClusterNodesStopped(r) \/ ClusterStopFails(r)
  <2>1. /\ UNCHANGED <<cluster, members, node, notify, raised, removal>>
        /\ \A q \in Requests : q # r => onStop'[q] = onStop[q]
        /\ onStop'[r] \in {"closing", "done", "failed"}
        /\ onStop'[r] = "closing" => onStop[r] = "nodes"
        BY <1>4 DEF NothingToStop, ClusterNodesStopped, ClusterStopFails, TypeOK
  <2>2. \A q \in Requests : (StopRuns(q)' => StopRuns(q)) /\ (Alive(q)' <=> Alive(q))
        BY <1>1, <2>1 DEF BeingStopped, StopRuns, Alive
  <2>3. AloneInv'
        BY <1>2, <1>3, <2>2 DEF AloneInv
  <2>4. RegisteredInv'
        BY <1>1, <2>1, <2>2 DEF InOrder, RegisteredInv
  <2>5. RemovalInv'
        BY <1>1, <1>2, <2>1 DEF InOrder, RemovalInv, Removing
  <2> QED  BY <2>3, <2>4, <2>5 DEF InOrder
<1>5. CASE StopCluster(r)
  <2> DEFINE c == target[r]
  <2>1. /\ UNCHANGED <<members, raised, removal>>
        /\ onStop[r] = "ready" /\ onStop'[r] = "nodes" /\ awaited'[r] = NonTerminated(c)
        /\ cluster'[c] = "terminating"
        /\ \A q \in Requests : q # r => onStop'[q] = onStop[q]
        BY <1>1, <1>5 DEF StopCluster, TypeOK
  <2>2. \A n \in Requests : node'[n] = IF n \in NonTerminated(c) THEN "terminating" ELSE node[n]
        BY <1>5 DEF StopCluster
  <2>3. \A n \in Requests : Alive(n) => n \in NonTerminated(c)
        BY <1>1 DEF InOrder, RegisteredInv, NonTerminated
  <2>5. \A n \in Requests : notify'[n] => notify[n] /\ n \notin NonTerminated(c)
        BY <1>5 DEF StopCluster
  <2> HIDE DEF c
  <2>6. \A q \in Requests : ~Alive(q)'
        BY <2>2, <2>3 DEF Alive
  <2>7. \A q \in Requests : StopRuns(q)' => q = r
        BY <1>2, <2>1, <2>2, <2>5 DEF BeingStopped, StopRuns
  <2>8. AloneInv'
        BY <1>2, <1>3, <2>7 DEF AloneInv
  <2>9. \A q \in Requests : onStop'[q] \in {"nodes", "closing"} => q = r
        BY <2>7 DEF BeingStopped, StopRuns
  <2>10. \A q \in Requests : /\ request'[q] \notin {"start", "stacks"}
                             /\ removal'[q] \notin {"ready", "event"}
        BY <1>1, <1>2, <1>3, <2>1, <2>7 DEF Called, BeingStopped, StopRuns
  <2>11. RegisteredInv'
    <3>1. registry' = target'[r] /\ cluster'[target'[r]] = "terminating"
          BY <1>1, <2>1 DEF c
    <3> QED  BY <2>6, <2>7, <2>9, <2>10, <3>1 DEF RegisteredInv
  <2>12. RemovalInv'
        BY <1>1, <1>2, <2>1 DEF InOrder, RemovalInv, Removing
  <2> QED  BY <2>8, <2>11, <2>12 DEF InOrder
<1>6. CASE ClusterStopped(r)
  <2>1. /\ UNCHANGED <<node, notify, raised>>
        /\ onStop[r] = "closing" /\ onStop'[r] = "done"
        /\ removal'[r] = "ready" /\ cluster'[target[r]] = "terminated"
        /\ \A q \in Requests : q # r => onStop'[q] = onStop[q] /\ removal'[q] = removal[q]
        BY <1>1, <1>6 DEF ClusterStopped, TypeOK
  <2>3. \A q \in Requests : StopRuns(q)' => q = r
        BY <1>2, <2>1 DEF BeingStopped, StopRuns
  <2>4. \A q \in Requests : ~Alive(q)'
    <3>1. cluster[target[r]] = "terminating"
          BY <2>1 DEF InOrder, RegisteredInv
    <3>2. \A q \in Requests : ~Alive(q)
          BY <1>1, <3>1 DEF InOrder, RegisteredInv
    <3> QED  BY <2>1, <3>2 DEF Alive
  <2>5. AloneInv'
        BY <1>2, <1>3, <2>3 DEF AloneInv
  <2>6. \A q \in Requests : /\ onStop'[q] \notin {"nodes", "closing"}
                            /\ request'[q] \notin {"start", "stacks"}
                            /\ removal'[q] \in {"ready", "event"} => q = r
        BY <1>2, <1>3, <2>1, <2>3 DEF Called, BeingStopped, StopRuns
  <2>7. RegisteredInv'
        BY <1>1, <2>1, <2>3, <2>4, <2>6 DEF RegisteredInv
  <2>8. RemovalInv'
        BY <1>1, <1>2, <2>1 DEF InOrder, RemovalInv, Removing
  <2> QED  BY <2>5, <2>7, <2>8 DEF InOrder
<1> QED  BY <1>4, <1>5, <1>6 DEF StopStep

(* What the delayed removal does. *)
LEMMA RemovalInOrder ==
    ASSUME TypeOK, LockInv, TurnInv, InOrder, NEW r \in Requests, RemovalStep(r)
    PROVE  InOrder'
<1> USE DEF clusterVars, requestVars, nodeVars, stopVars
<1>1. /\ UNCHANGED <<cluster, members, request, target, terminate, node, notify, raised,
                     onStop>>
      /\ \A q \in Requests : q # r => removal'[q] = removal[q]
      BY DEF RemovalStep, OnClusterStop, ScheduleRemoval, RemovalWakes, RemoveCluster, TypeOK
<1>2. removal[r] # "none" => node[r] = "terminated" /\ onStop[r] = "done" /\ target[r] \in Requests
      BY DEF TurnInv
<1>3. \A q \in Requests : /\ Called(q)' <=> Called(q)
                          /\ Terminating(q)' <=> Terminating(q)
                          /\ Alive(q)' <=> Alive(q)
      BY <1>1 DEF Called, Terminating, Alive
<1>4. CASE OnClusterStop(r)
  <2>1. removal[r] = "ready" /\ removal'[r] = "event" /\ UNCHANGED <<registry, removeTask>>
        BY <1>4 DEF OnClusterStop, TypeOK
  <2>2. \A q \in Requests : StopRuns(q)' <=> StopRuns(q)
        BY <1>1, <2>1 DEF BeingStopped, StopRuns
  <2>3. AloneInv'
        BY <1>1, <1>3, <2>2 DEF InOrder, AloneInv
  <2>4. RegisteredInv'
        BY <1>1, <1>3, <2>1, <2>2 DEF InOrder, RegisteredInv
  <2>5. RemovalInv'
        BY <1>1, <2>1, <2>2 DEF InOrder, RemovalInv, Removing
  <2> QED  BY <2>3, <2>4, <2>5 DEF InOrder
<1>5. CASE ScheduleRemoval(r)
  <2>1. removal[r] = "event"
        BY <1>5, OneHolder DEF ScheduleRemoval, LockInv, Kinds
  <2>2. removeTask' = r /\ UNCHANGED registry /\ removal'[r] = "sleeping"
        BY <1>5 DEF ScheduleRemoval, TypeOK
  <2>3. StopRuns(r)
        BY <2>1 DEF BeingStopped, StopRuns
  <2>4. \A q \in Requests : (StopRuns(q) => q = r) /\ ~Called(q) /\ ~Removing(q)
        BY <2>3, UsedNotRemoved DEF InOrder, AloneInv
  <2>6. \A q \in Requests : ~StopRuns(q)'
        BY <1>1, <1>2, <2>1, <2>2, <2>4 DEF BeingStopped, StopRuns
  <2>7. registry = target[r] /\ cluster[target[r]] = "terminated"
        BY <2>1, <2>3 DEF InOrder, RegisteredInv
  <2>8. AloneInv'
        BY <1>3, <2>6 DEF InOrder, AloneInv
  <2>9. \A q \in Requests : /\ onStop'[q] \notin {"nodes", "closing"}
                            /\ removal'[q] \notin {"ready", "event"}
        BY <2>6 DEF BeingStopped, StopRuns
  <2>10. RegisteredInv'
        BY <1>1, <1>3, <2>2, <2>6, <2>9 DEF InOrder, RegisteredInv
  <2>11. \A q \in Requests : (Removing(q)' => q = r) /\ removal'[q] # "failed"
        BY <1>1, <2>2, <2>4 DEF InOrder, RemovalInv, Removing
  <2>12. RemovalInv'
        BY <1>1, <2>2, <2>6, <2>7, <2>11 DEF RemovalInv
  <2> QED  BY <2>8, <2>10, <2>12 DEF InOrder
<1>6. CASE RemovalWakes(r)
  <2>1. removal[r] = "sleeping" /\ removal'[r] = "queued" /\ UNCHANGED <<registry, removeTask>>
        BY <1>6 DEF RemovalWakes, TypeOK
  <2>2. \A q \in Requests : (StopRuns(q)' <=> StopRuns(q)) /\ (Removing(q)' <=> Removing(q))
        BY <1>1, <2>1 DEF BeingStopped, StopRuns, Removing
  <2>3. AloneInv'
        BY <1>1, <1>3, <2>2 DEF InOrder, AloneInv
  <2>4. RegisteredInv'
        BY <1>1, <1>3, <2>1, <2>2 DEF InOrder, RegisteredInv
  <2>5. RemovalInv'
        BY <1>1, <2>1, <2>2 DEF InOrder, RemovalInv
  <2> QED  BY <2>3, <2>4, <2>5 DEF InOrder
<1>7. CASE RemoveCluster(r)
  <2>1. removal[r] = "queued"
        BY <1>7, OneHolder DEF RemoveCluster, LockInv, Kinds
  <2>2. Removing(r)
        BY <2>1, RequestsAssumption DEF Removing
  <2>3. /\ removeTask = r /\ registry = target[r] /\ cluster[target[r]] = "terminated"
        /\ \A q \in Requests : ~StopRuns(q)
        BY <2>2 DEF InOrder, RemovalInv
  <2>4. registry # None
        BY <1>2, <2>1, <2>3, RequestsAssumption
  <2>5. removal'[r] = "removed"
        BY <1>7, <2>3, <2>4 DEF RemoveCluster, TypeOK
  <2>6. \A q \in Requests : /\ ~Alive(q) /\ request[q] \notin {"start", "stacks"}
                            /\ ~StopRuns(q)'
        BY <1>1, <2>2, <2>3, <2>5, UsedNotRemoved DEF InOrder, BeingStopped, StopRuns
  <2>7. AloneInv'
        BY <1>1, <1>3, <2>6 DEF InOrder, AloneInv
  <2>8. \A q \in Requests : /\ onStop'[q] \notin {"nodes", "closing"}
                            /\ removal'[q] \notin {"ready", "event"}
        BY <2>6 DEF BeingStopped, StopRuns
  <2>9. RegisteredInv'
        BY <1>1, <1>3, <2>6, <2>8 DEF RegisteredInv
  <2>10. \A q \in Requests : ~Removing(q)' /\ removal'[q] # "failed"
        BY <1>1, <2>3, <2>5 DEF InOrder, RemovalInv, Removing
  <2>11. RemovalInv'
        BY <2>10 DEF RemovalInv
  <2> QED  BY <2>7, <2>9, <2>11 DEF InOrder
<1> QED  BY <1>4, <1>5, <1>6, <1>7 DEF RemovalStep

-----------------------------------------------------------------------------
(* The inductive invariant, and what follows from it. *)

LEMMA InvInit == Init => RegistryInv
<1> SUFFICES ASSUME Init PROVE RegistryInv
    OBVIOUS
<1>1. LockInv
      BY DEF Init, LockInv, Queued, Distinct
<1>2. TurnInv
      BY DEF Init, TurnInv
<1>3. AloneInv /\ RegisteredInv
      BY DEF Init, AloneInv, RegisteredInv, Called, Terminating, BeingStopped, StopRuns, Alive
<1>4. RemovalInv
      BY DEF Init, RemovalInv, Removing
<1> QED  BY <1>1, <1>2, <1>3, <1>4 DEF RegistryInv, OrderInv

LEMMA InvStep == TypeOK /\ RegistryInv /\ [Next]_vars => (TypeOK /\ RegistryInv)'
<1> SUFFICES ASSUME TypeOK, RegistryInv, [Next]_vars PROVE (TypeOK /\ RegistryInv)'
    OBVIOUS
<1>1. LockInv /\ TurnInv
      BY DEF RegistryInv
<1>2. TypeOK' /\ LockInv' /\ TurnInv'
      BY <1>1, LockStep, TurnStep
<1>3. ASSUME ~overlapped' PROVE InOrder'
  <2>1. CASE UNCHANGED vars
    <3>1. InOrder
          BY <1>3, <2>1 DEF vars, RegistryInv, OrderInv, InOrder
    <3>2. UNCHANGED <<registry, removeTask, cluster, members, request, target, terminate,
                      node, notify, raised, onStop, awaited, removal>>
          BY <2>1 DEF vars, clusterVars, requestVars, nodeVars, stopVars
    <3>3. AloneInv'
          BY <3>1, <3>2 DEF InOrder, AloneInv, Called, Terminating, BeingStopped, StopRuns
    <3>4. RegisteredInv'
          BY <3>1, <3>2 DEF InOrder, RegisteredInv, Alive, BeingStopped, StopRuns
    <3>5. RemovalInv'
          BY <3>1, <3>2 DEF InOrder, RemovalInv, Removing, BeingStopped, StopRuns
    <3> QED  BY <3>3, <3>4, <3>5 DEF InOrder
  <2>2. ASSUME NEW r \in Requests,
               RequestArrives(r) \/ TerminateArrives(r) \/ MonitorStopsNode(r)
        PROVE  InOrder'
    <3>1. overlapped' = (overlapped \/ ~Quiet)
          BY <2>2 DEF RequestArrives, TerminateArrives, MonitorStopsNode, Arrives
    <3>2. Quiet /\ InOrder
          BY <1>3, <3>1 DEF RegistryInv, OrderInv, InOrder
    <3> QED  BY <1>1, <2>2, <3>2, RequestInOrder, NodeInOrder
  <2>3. ASSUME NEW r \in Requests,
               \/ RequestStep(r) \/ TerminateStep(r) \/ NodeRuns(r) \/ NodeStartFails(r)
               \/ NodeStep(r) \/ StopStep(r) \/ RemovalStep(r)
        PROVE  InOrder'
    <3>1. UNCHANGED overlapped
          BY <2>3 DEF RequestStep, GetOrCreateCluster, ClusterStarted, ClusterStartFails,
               CreateNode, StacksFail, TerminateStep, TerminateNode, TerminateReturns, NodeRuns,
               NodeStartFails, NodeStep, NodeStopped, NodeStopFails, StopStep, NothingToStop,
               StopCluster, ClusterNodesStopped, ClusterStopFails, ClusterStopped, RemovalStep, OnClusterStop,
               ScheduleRemoval, RemovalWakes, RemoveCluster
    <3>2. InOrder
          BY <1>3, <3>1 DEF RegistryInv, OrderInv, InOrder
    <3> QED  BY <1>1, <2>3, <3>2, RequestInOrder, NodeInOrder, StopInOrder, RemovalInOrder
  <2> QED  BY <2>1, <2>2, <2>3 DEF Next
<1> QED  BY <1>2, <1>3 DEF RegistryInv, OrderInv, InOrder

LEMMA Invariants == Spec => []TypeOK /\ []RegistryInv
<1>1. Init => TypeOK /\ RegistryInv
      BY TypeInit, InvInit
<1>2. TypeOK /\ RegistryInv /\ [Next]_vars => (TypeOK /\ RegistryInv)'
      BY InvStep
<1> QED  BY <1>1, <1>2, PTL DEF Spec

(* For any number of calls the variables keep their types, overlapping or not: *)
(* no task of ray.py uses a cluster, a node or a task that is not there.       *)
THEOREM TypeCorrect == Spec => []TypeOK
BY Invariants, PTL

(* Who holds or awaits _clusters_locks[name] is in its queue once, and who     *)
(* starts a cluster holds it, however calls, callbacks and removals overlap.   *)
THEOREM LockIsExclusive == Spec => []LockInv
<1>1. RegistryInv => LockInv
      BY DEF RegistryInv
<1> QED  BY <1>1, Invariants, PTL

(* As long as nothing arrives while something is under way, _remove_cluster    *)
(* finds its cluster terminated and registered.                              *)
THEOREM RemovalSafe == Spec => []RemovalFindsItStopped
<1>1. RegistryInv => RemovalFindsItStopped
      BY DEF RegistryInv, OrderInv, RemovalInv, RemovalFindsItStopped
<1> QED  BY <1>1, Invariants, PTL

(* In the same order every node that has not terminated is in the collection   *)
(* of the registered cluster, where terminate_node and stop() find it.         *)
THEOREM NoOrphans == Spec => []NoOrphanInOrder
<1>1. RegistryInv => NoOrphanInOrder
      BY DEF RegistryInv, OrderInv, RegisteredInv, NoOrphanInOrder, NoOrphanNode
<1> QED  BY <1>1, Invariants, PTL

(* In the same order the one removal that waits is the one request_nodes       *)
(* cancels by name, and it is about the cluster it replaces.                  *)
THEOREM Cancellable == Spec => []RemovalIsCancellable
<1>1. RegistryInv => RemovalIsCancellable
      BY DEF RegistryInv, OrderInv, RemovalInv, RemovalIsCancellable
<1> QED  BY <1>1, Invariants, PTL

-----------------------------------------------------------------------------
(* Who holds the lock gives it back. *)

(* A call that stops a node under the lock waits for that node alone *)
StoppingInv ==
    \A r \in Requests : terminate[r] = "stopping" => node[r] \in {"terminating", "terminated"}

LEMMA StoppingStep == TypeOK /\ TurnInv /\ StoppingInv /\ [Next]_vars => StoppingInv'
<1> SUFFICES ASSUME TypeOK, TurnInv, StoppingInv, [Next]_vars,
                    NEW q \in Requests, terminate'[q] = "stopping"
             PROVE  node'[q] \in {"terminating", "terminated"}
    BY DEF StoppingInv
<1> USE DEF clusterVars, requestVars, nodeVars, stopVars
<1>1. ASSUME terminate'[q] = terminate[q], node'[q] = node[q]
      PROVE  node'[q] \in {"terminating", "terminated"}
      BY <1>1 DEF StoppingInv
<1>2. CASE UNCHANGED vars
      BY <1>1, <1>2 DEF vars
<1>3. ASSUME NEW r \in Requests,
             \/ RequestArrives(r) \/ GetOrCreateCluster(r) \/ ClusterStarted(r)
             \/ ClusterStartFails(r) \/ StacksFail(r) \/ NothingToStop(r)
             \/ ClusterNodesStopped(r) \/ ClusterStopFails(r) \/ ClusterStopped(r)
             \/ RemovalStep(r)
      PROVE  node'[q] \in {"terminating", "terminated"}
      BY <1>1, <1>3 DEF RequestArrives, GetOrCreateCluster, ClusterStarted, ClusterStartFails,
             StacksFail, NothingToStop, ClusterNodesStopped, ClusterStopFails, ClusterStopped,
             RemovalStep,
             OnClusterStop, ScheduleRemoval, RemovalWakes, RemoveCluster
<1>4. ASSUME NEW r \in Requests, CreateNode(r)
      PROVE  node'[q] \in {"terminating", "terminated"}
  <2>1. /\ request[r] = "stacks" /\ terminate' = terminate
        /\ node' = [node EXCEPT ![r] = "pending"]
        BY <1>4 DEF CreateNode
  <2>2. node[r] = "none" /\ node[q] \in {"terminating", "terminated"}
        BY <2>1 DEF TurnInv, StoppingInv
  <2> QED  BY <2>1, <2>2 DEF TypeOK
<1>5. ASSUME NEW r \in Requests, TerminateArrives(r) \/ TerminateReturns(r)
      PROVE  node'[q] \in {"terminating", "terminated"}
  <2>1. /\ node' = node
        /\ \/ terminate' = [terminate EXCEPT ![r] = "queued"]
           \/ terminate' = [terminate EXCEPT ![r] = "done"]
        BY <1>5 DEF TerminateArrives, TerminateReturns
  <2> QED  BY <1>1, <2>1 DEF TypeOK
<1>6. ASSUME NEW r \in Requests, TerminateNode(r)
      PROVE  node'[q] \in {"terminating", "terminated"}
      BY <1>6 DEF TerminateNode, StopNode, StoppingInv, TypeOK
<1>7. ASSUME NEW r \in Requests,
             NodeRuns(r) \/ NodeStartFails(r) \/ MonitorStopsNode(r) \/ NodeStep(r)
      PROVE  node'[q] \in {"terminating", "terminated"}
      BY <1>7 DEF NodeRuns, NodeStartFails, MonitorStopsNode, NodeStep, NodeStopped,
                  NodeStopFails, StopNode, StoppingInv, TypeOK
<1>8. ASSUME NEW r \in Requests, StopCluster(r)
      PROVE  node'[q] \in {"terminating", "terminated"}
  <2>1. /\ terminate' = terminate
        /\ node' = [n \in Requests |->
                      IF n \in NonTerminated(target[r]) THEN "terminating" ELSE node[n]]
        BY <1>8 DEF StopCluster
  <2> QED  BY <2>1 DEF StoppingInv
<1> QED  BY <1>2, <1>3, <1>4, <1>5, <1>6, <1>7, <1>8 DEF Next, RequestStep, TerminateStep, StopStep

(* A task that has the lock can be taken further by a step of its own, or by    *)
(* the end, or the error, of the stop of a node                                *)
CanGoOn(t) ==
    \/ t.kind = "request" /\ request[t.id] \in {"queued", "start"}
    \/ t.kind = "terminate" /\ terminate[t.id] = "queued"
    \/ /\ t.kind = "terminate" /\ terminate[t.id] = "stopping"
       /\ node[t.id] \in {"terminating", "terminated"}
    \/ t.kind = "onStop" /\ removal[t.id] = "event"
    \/ t.kind = "remove" /\ removal[t.id] = "queued"

HolderGoesOn == lock # <<>> => CanGoOn(Head(lock))

(* _clusters_locks[name]: its holder never waits for anything that needs the    *)
(* lock, neither for the on_stop callback of the node terminate_node stops nor *)
(* for a removal that was cancelled in the queue (what makes CallsReturn hold   *)
(* under the fairness of the runs).                                            *)
THEOREM HoldersGoOn == Spec => []HolderGoesOn
<1>1. TypeOK /\ RegistryInv /\ StoppingInv => HolderGoesOn
  <2> SUFFICES ASSUME TypeOK, RegistryInv, StoppingInv, lock # <<>>
               PROVE  CanGoOn(Head(lock))
      BY DEF HolderGoesOn
  <2>1. /\ lock \in Seq(Tasks) /\ 1 \in 1 .. Len(lock) /\ Head(lock) = lock[1]
        BY DEF TypeOK
  <2>2. Head(lock) \in Tasks
        BY <2>1
  <2>3. PICK k \in Kinds, r \in Requests : Head(lock) = Task(k, r)
        BY <2>2 DEF Tasks, Kinds, Task
  <2>4. Queued(lock, k, r)
        BY <2>1, <2>3 DEF Queued
  <2>5. Head(lock).kind = k /\ Head(lock).id = r
        BY <2>3 DEF Task
  <2> QED  BY <2>4, <2>5 DEF CanGoOn, RegistryInv, LockInv, StoppingInv, Kinds
<1>2. Init => StoppingInv
      BY DEF Init, StoppingInv
<1>3. RegistryInv => TurnInv
      BY DEF RegistryInv
<1> QED  BY <1>1, <1>2, <1>3, StoppingStep, Invariants, PTL DEF Spec

-----------------------------------------------------------------------------
(* The nodes. *)

(* The life of the node of request r; before it is created it is about to be    *)
(* pending                                                                     *)
Life(r) == INSTANCE NodeLifecycle
    WITH state  <- IF node[r] = "none" THEN "pending" ELSE node[r],
         events <- IF onStop[r] = "none" THEN 0 ELSE 1

(* Steps of the registry are steps of every node's life, or leave it alone. *)
LEMMA LifeStep ==
    ASSUME TypeOK, TurnInv, [Next]_vars, NEW n \in Requests
    PROVE  [Life(n)!Next]_(Life(n)!vars)
<1> USE DEF clusterVars, requestVars, nodeVars, stopVars
<1>1. ASSUME node'[n] = node[n], onStop'[n] = "none" <=> onStop[n] = "none"
      PROVE  UNCHANGED Life(n)!vars
      BY <1>1 DEF Life!vars
<1>2. CASE UNCHANGED vars
      BY <1>1, <1>2 DEF vars
<1>3. ASSUME NEW r \in Requests,
             \/ RequestArrives(r) \/ GetOrCreateCluster(r) \/ ClusterStarted(r)
             \/ ClusterStartFails(r) \/ StacksFail(r) \/ TerminateArrives(r)
             \/ TerminateReturns(r) \/ NodeStopFails(r) \/ RemovalStep(r)
      PROVE  UNCHANGED Life(n)!vars
      BY <1>1, <1>3 DEF RequestArrives, GetOrCreateCluster, ClusterStarted, ClusterStartFails,
             StacksFail, TerminateArrives, TerminateReturns, NodeStopFails, RemovalStep,
             OnClusterStop, ScheduleRemoval, RemovalWakes, RemoveCluster
<1>4. ASSUME NEW r \in Requests,
             \/ NothingToStop(r) \/ ClusterNodesStopped(r) \/ ClusterStopFails(r)
             \/ ClusterStopped(r)
      PROVE  UNCHANGED Life(n)!vars
  <2>1. /\ node' = node /\ onStop[r] # "none"
        /\ \/ onStop' = [onStop EXCEPT ![r] = "closing"]
           \/ onStop' = [onStop EXCEPT ![r] = "done"]
           \/ onStop' = [onStop EXCEPT ![r] = "failed"]
        BY <1>4 DEF NothingToStop, ClusterNodesStopped, ClusterStopFails, ClusterStopped
  <2> QED  BY <1>1, <2>1 DEF TypeOK
<1>5. ASSUME NEW r \in Requests, CreateNode(r) PROVE UNCHANGED Life(n)!vars
  <2>1. node[r] = "none" /\ node' = [node EXCEPT ![r] = "pending"] /\ onStop' = onStop
        BY <1>5 DEF CreateNode, TurnInv
  <2> QED  BY <2>1 DEF TypeOK, Life!vars
<1>6. ASSUME NEW r \in Requests, NodeRuns(r)
      PROVE  Life(n)!Run \/ UNCHANGED Life(n)!vars
      BY <1>6 DEF NodeRuns, TypeOK, Life!Run, Life!vars
<1>7. ASSUME NEW r \in Requests, NodeStartFails(r)
      PROVE  Life(n)!FailStart \/ UNCHANGED Life(n)!vars
      BY <1>7 DEF NodeStartFails, TypeOK, Life!FailStart, Life!vars
<1>8. ASSUME NEW r \in Requests, TerminateNode(r) \/ MonitorStopsNode(r)
      PROVE  Life(n)!BeginStop \/ UNCHANGED Life(n)!vars
  <2>1. /\ Alive(r) /\ node' = [node EXCEPT ![r] = "terminating"] /\ onStop' = onStop
        BY <1>8 DEF TerminateNode, CanStop, MonitorStopsNode, Alive, StopNode
  <2> QED  BY <2>1 DEF Alive, TypeOK, Life!BeginStop, Life!vars
<1>9. ASSUME NEW r \in Requests, NodeStopped(r)
      PROVE  Life(n)!EndStop \/ UNCHANGED Life(n)!vars
  <2>1. /\ node[r] = "terminating" /\ node' = [node EXCEPT ![r] = "terminated"]
        /\ onStop' = [onStop EXCEPT ![r] = IF notify[r] THEN "ready" ELSE @]
        BY <1>9 DEF NodeStopped, BeingStopped
  <2>2. onStop[r] = "none"
        BY <2>1 DEF TurnInv
  <2>3. CASE n = r
    <3>1. node'[n] = "terminated" /\ onStop'[n] \in {"none", "ready"}
          BY <2>1, <2>2, <2>3 DEF TypeOK
    <3> QED  BY <2>1, <2>2, <2>3, <3>1 DEF Life!EndStop
  <2>4. CASE n # r
        BY <1>1, <2>1, <2>4 DEF TypeOK
  <2> QED  BY <2>3, <2>4
<1>10. ASSUME NEW r \in Requests, StopCluster(r)
       PROVE  Life(n)!BeginStop \/ UNCHANGED Life(n)!vars
  <2>1. /\ onStop[r] = "ready" /\ onStop' = [onStop EXCEPT ![r] = "nodes"]
        /\ node' = [q \in Requests |->
                      IF q \in NonTerminated(target[r]) THEN "terminating" ELSE node[q]]
        BY <1>10 DEF StopCluster
  <2>2. onStop'[n] = "none" <=> onStop[n] = "none"
        BY <2>1 DEF TypeOK
  <2>3. CASE n \in NonTerminated(target[r])
    <3>1. Alive(n) /\ node'[n] = "terminating"
          BY <2>1, <2>3 DEF NonTerminated
    <3> QED  BY <2>2, <3>1 DEF Alive, Life!BeginStop
  <2>4. CASE n \notin NonTerminated(target[r])
        BY <1>1, <2>1, <2>2, <2>4
  <2> QED  BY <2>3, <2>4
<1> QED
    BY <1>2, <1>3, <1>4, <1>5, <1>6, <1>7, <1>8, <1>9, <1>10
    DEF Next, RequestStep, TerminateStep, NodeStep, StopStep, Life!Next

(* Whatever RayService does with it, every node lives the life that ClusterNode  *)
(* is shown to implement: the registry asks nothing of a node of nodes.py that   *)
(* the node does not do, and never takes it back from a stop.  (Without the      *)
(* fairness of EndStop, which is Spec's own.)                                    *)
THEOREM NodesLive ==
    ASSUME NEW n \in Requests
    PROVE  Spec => Life(n)!Init /\ [][Life(n)!Next]_(Life(n)!vars)
<1>1. Init => Life(n)!Init
      BY DEF Init, Life!Init
<1>2. TypeOK /\ TurnInv /\ [Next]_vars => [Life(n)!Next]_(Life(n)!vars)
      BY LifeStep
<1>3. RegistryInv => TurnInv
      BY DEF RegistryInv
<1> QED  BY <1>1, <1>2, <1>3, Invariants, PTL DEF Spec
=============================================================================
