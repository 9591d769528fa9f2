# Ray on Golem in TLA+

Specifications of `src/ray_on_golem`, checked with TLC and proved with TLAPS.
Ray on Golem lets Ray's autoscaler rent nodes on the Golem Network: Ray's node
provider talks over http to a local web server, which keeps clusters of nodes,
each backed by one *activity* at a provider that was found through a stack of
golem-core managers.

## The system

| Part | Source | State | Operations | What is hard | What makes it right | Module |
|---|---|---|---|---|---|---|
| Cluster node, sidecars | `server/cluster/nodes.py`, `sidecars.py` | `state`, `_activity`, `_start_task`, monitor tasks, ssh failure count, tunnel | `schedule_start`, `start`, `stop`, monitor loops | four callers of `stop`, a start that is cancelled at any await, unbounded retries, callbacks that outlive their monitor, monitors and processes that end by themselves | one activity at most, given back at the end; nothing survives the node; a dead activity is noticed; stop ends | `ClusterNode` |
| Cluster | `server/cluster/cluster.py` | `_state`, `_nodes`, manager stacks and their locks, the counter of node ids | `start`, `stop`, `request_nodes`, `_on_node_stop` | `start` while `stop` runs, nodes created while it stops, stacks stopped and found again, ids given out again | no live node is lost; stacks run while nodes need them | `RayService`, `Cluster`, `NodeProvider` |
| Registry | `server/services/ray.py` | clusters, locks, remove tasks, by name | `request_nodes`, `terminate_node`, `_remove_cluster`, `stop` | the delayed removal against new requests; a walk over a dictionary that changes | only a stopped cluster is removed; calls return; empty clusters go; nodes stop before golem does | `RayService`, `Shutdown` |
| Web server | `server/views.py`, `server/main.py` | `shutting_down`, services | handlers, `shutdown`, clean-up contexts | requests in flight at the shutdown, errors in the set-up, a second shutdown | no node is created after the answer; services stop in order | `Shutdown`, `Webserver` |
| Controller, client | `ctl/ctl.py`, `client/client.py` | pid file, port | `start`, `stop`, the waits | two commands at once, stale pid files, timeouts | a server is found again by its pid and is gone when `stop` says so | `Webserver` |
| Yagna service | `server/services/yagna.py` | the daemon | `start`, `stop` | timeouts and exits while it starts, two servers | only an own yagna is stopped, and it is stopped | `Webserver` |
| Node provider | `provider/node_provider.py` | node ids, caches | `create_node`, `bootstrap_config` | polling against terminations, merging of layers | success means that the nodes run; each node type has its own configuration | `NodeProvider`, `Configuration` |
| Demands | `server/services/golem/`, `server/models.py` | configuration, hash, payloads | `get_payloads_from_demand_config`, `get_hash`, `ManagerStack.create` | a configuration that changes while its hash names stacks | a node gets the demand of its type; one demand per configuration | `Configuration` |
| Reputation | `reputation/` | rows of a database, shared by processes | `update`, `block`, `unblock`, scorer and blacklist | whole rows written over each other | a blocked provider stays blocked; scores are what was reported | `Reputation` |
| Network stats | `network_stats/` | services, counters, drafts | the command | errors and CTRL-C at every await, a pipeline with several proposals in it | what was started is stopped; drafts are rejected; blocks hold | `NetworkStats` |

Everything in the web server runs in one asyncio loop: steps interleave only at
`await`s. Its parts interact through calls (`RayService` -> `Cluster` ->
`ClusterNode` -> sidecars and manager stacks) and through callbacks that run in
tasks of their own: a monitor's failure (`_on_monitor_check_failed` ->
`ClusterNode.stop`), the end of a node (`on_stop` -> `Cluster._on_node_stop` ->
`Cluster.stop`) and the end of a cluster (`on_stop` ->
`RayService._on_cluster_stop` -> delayed `_remove_cluster`). The commands, the
server, yagna and Ray's autoscaler are processes that share a port, a pid file,
a database and yagna's API. Those callbacks and those shared resources are the
source of almost every hazard; `PROJECT.json` lists the hazards at their lines.

## Modules

* `NodeLifecycle` - the abstract specification of a node, what a cluster may rely
  on: its `NodeState`, the `on_stop` callbacks it schedules, and that a stop ends.
* `ClusterNode` - one node in detail; it implements `NodeLifecycle`. `task` is the
  await at which the start task is (`scheduled`, `priority`/`agreement` in
  `_get_agreement`, `create`, `setup`, `destroy` in the handler of
  `_create_activity`, `sidecars`, `tunnel` in `_start_sidecars`), `stops[c]` the
  await at which each caller of `stop()` is (`cancelling` the start task,
  `sidecars`, `tunnel` and `wait` in `_stop_sidecars`, `destroy` in
  `_stop_activity`), `monitor` and `fails` the monitor loops, either of which may
  end silently (`MonitorCrashes`), `tunnel` the ssh process. `owed` is what the node cannot see by itself: the activities created
  and never asked to be destroyed. One action is what runs between two awaits.
* `RayService` - the registry for one cluster name together with the life of its
  `Cluster` objects, restarts included. A node is what `NodeLifecycle` says of it.
  The semaphore is a queue of tasks whose head holds it, which is how
  `asyncio.Semaphore` hands itself over since CPython 3.10.8; each request, the
  cluster and the node it may create and the callbacks that follow share one
  identity.
* `Cluster` - the manager stacks of one life of a cluster. `stacks` is the
  dictionary, `running` the stacks whose `_is_running` is set, `lock` the queue
  of each stack's lock (the head holds it). `request` is where a `request_nodes`
  call is: waiting for a lock (`queued`) or in `ManagerStack.create` or `start`
  under it (`creating`, `starting`). A call asks for one node, which bears the
  call's name. `stop()` empties the dictionary of locks, so a call that comes
  late gets a new lock: `epoch` tells the two generations apart. `_on_node_stop` asks
  which stacks are unused in one step (`FindUnusedStacks`) and stops them in a later
  one (`StopUnusedStacks`), since `gather` makes tasks of the coroutines it gets.
* `Shutdown` - one server that shuts down: `handler` is where each `request_nodes`
  is (`passed` the guard of `reject_if_shutting_down`, `stacks` in the cluster),
  `timers` the `raise_graceful_exit` calls that `views.shutdown` has scheduled,
  `phase` the clean-up context under way. `position`, `size` and `visiting` are
  Python's iteration over `_clusters.values()` in `RayService.stop`, which raises a
  `RuntimeError` (`WalkBreaks`) when a delayed removal has changed the dictionary, and
  ends early, too, when the `stop()` of the cluster it visits raises
  (`ClusterStopFails`).
* `Webserver` - the processes around the server: start commands (`start`, and
  `ray up` through the provider), stop commands, the servers they spawn and the
  yagna each may launch. `command` is where a command is in `RayOnGolemCtl`,
  `server` where a server is in its contexts (`boot`, `launch` and `golem` set
  up; `closing` and `yagna` clean up), `pid`, `port` and `yagna` are what they share.
  `victim` is the process a `stop` offers to kill.
  A signal ends a server like a shutdown that nobody announced (`Terminated`).
* `NodeProvider` - `create_node` calls that poll the states of the nodes they
  asked for, against a cluster that counts its ids from zero after each stop and is
  forgotten by the registry some time later. `owner` is what the ids do not say:
  which call has created the node that has an id now. `seen` are the keys of
  `nodes_last_log_size`, by which a poll may fail (`PrintFails`).
* `Reputation` - one network's rows. `held[w]` is the row that a writer (the
  updater or a command) has in memory between `get_or_create` and `save`, which
  writes every column. `report` is the download, `data` what is left of it.
* `NetworkStats` - extends `Reputation`: the `network-stats` command and its
  pipeline read the rows that the writers of `Reputation` change. `phase` is what
  the command awaits, `up` what it has started and not stopped, `where` the stage
  of each proposal. Its `Next` is a step of the command or of its pipeline, or one of
  the writers.
* `Configuration` - from the yaml file to the demands: the layers of a file are
  merged (`ApplyDefaults`), parsed, and looked up by hash for the priority and the
  main subnet (`Ask`, `UseStack`, `MakeStack`); `config[r]` changes when
  `get_payloads_from_demand_config` appends `manifest-support` to it.
* `MC...` - the instances that TLC explores, one per module whose constants
  need definitions.
* `...Proofs` - the theorems about the module of that name.

`RayService`, `Cluster`, `Shutdown` and `NodeProvider` look at the same
`cluster.py` from four sides: the first has restarts and the calls of the registry
but no stacks, the second the stacks and their locks but one life of the cluster,
the third several clusters with one node each, the fourth the ids of the nodes.
The four have the errors of a `stop()` in common: that of a head raises when its
tunnel has exited by itself (`NodeStopFails`, `raised`; `sidecars.py:266`), and
`Cluster.stop` passes on what a node, a stack or the payment manager raises
(`ClusterStopFails`; `cluster.py:130-134`). What raised stays `terminating`.
`Webserver` has of the shutdown only its beginning and its end, which are
those of `Shutdown`.

Variables marked `history` in their comment are not in the code. They record
what a property needs to know of the past: what was promised when a handler was
under way (`inFlight`), who was not waited for (`skipped`, `hurried`), that calls or
commands met in the middle (`overlapped`, `disorder`), what a user was told last
(`wanted`), which rows two writers raced for (`raced`, `overtaken`), which calls saw
their cluster stop (`stale`).

Operators marked `Mutant` in a comment are faulty variants of the definition
that follows them. They are not used by the specifications; substituted for that
definition they make the property named in `PROJECT.json` fail, which shows that
the property depends on the code.

## What the runs show

| Run | Configuration | Shows |
|---|---|---|
| `node_worker` | `ClusterNode_worker` | A worker, cancellations not swallowed: one activity at most however often `start` retries (`AtMostOneActivity`); an activity that dies leads to a terminated node unless both monitors have crashed (`DeadActivityStopsNode`); the node implements `NodeLifecycle` with its liveness (`ImplementsLifecycle`: once in `stop()` the node terminates, and tells its cluster once). |
| `node_head` | `ClusterNode_head` | A head with its tunnel and swallowed cancellations, where two `stop()`s can overlap: `RunningOwnsActivity`, `MonitorsSeeActivity`, `NothingOutlivesNode`, `GivesActivityBack`. |
| `registry` | `RayService_registry` | Two heads that come one after the other and a worker that comes at any time. Every call that waits for the lock returns (`CallsReturn`), always, also when stops raise. As long as no call has come while something was under way: `RemovalFindsItStopped` (the assertion of `_remove_cluster`), `NoOrphanInOrder`, `RemovalIsCancellable`, and an empty cluster is removed unless something raised (`EmptyClusterRemoved`). |
| `registry_orphan` | `RayService_orphan` | Finding: without that condition a live node is dropped from the collection (`NoOrphanNode`). |
| `stacks_share` | `Cluster_stacks` | A head and two workers that share stacks, with failures: one stack per hash (`OneStackPerHash`), and none that nobody will stop unless a request, a start or a stop failed (`StacksAreMinded`); every waiting request is answered, also after a failure under the lock (`RequestsAnswered`); a cluster that stops ends stopped unless what it calls raises (`StopEnds`). |
| `stacks_reuse` | `Cluster_reuse` | Finding: a stack that was stopped is handed to later nodes and never started again (`NodesCanStart`). A stack that is stopped under a live node, because a request took it after the look for unused ones, violates the same property by a longer trace. |
| `shutdown` | `Shutdown_walk` | A shutdown, twice if asked, among requests in flight, nodes that stop by themselves, delayed removals and a cluster whose stops may raise: after the answer only nodes of handlers in flight run (`NoNodeAfterAnswer`); golem is closed after the nodes have stopped, but for nodes and clusters that somebody else was stopping, and unless an error ended the walk (`NodesStopFirst`); it ends (`ShutdownEnds`). |
| `webserver` | `Webserver_commands` | Two commands that start a server, one that stops it and signals that end a server, at any time: commands and agreed shutdowns end (`CommandsEnd`, `ShutdownEnds`), no yagna survives a clean end (`NoYagnaLeft`). For commands that come one after the other the pid file names the server (`PidNamesServer`), `stop` says "completed" only when it is gone (`CompletedMeansGone`), and no yagna is stopped under a server that uses it (`YagnaKept`). |
| `provider` | `NodeProvider_create` | Three `create_node` calls: no id is waited for twice between two stops (`IdsAreDistinct`), "ready" means that all requested nodes run (`ReadyMeansAllRun`), every call returns unless its nodes stay pending or the stop of one raised (`CreateReturns`). |
| `reputation` | `NetworkStats_reputation` | The network-stats command, failing or interrupted anywhere, while the database is written to: rows nobody raced for keep what was written (`BlockSticksAlone`, `UpdateStoresScores`), nobody negotiates with a provider that was blocked before (`BlockedNotNegotiated`), drafts are rejected (`DraftsReleased`), what was started is stopped (`NothingLeftBehind`). |
| `reputation_block` | `Reputation_block` | Finding: an update that read the row before overwrites a `block` (`BlockSticks`). |
| `configuration` | `Configuration_demands` | No layer of a node type leaks into another (`TypesAreIndependent`), nodes get the demand of their type (`NodesGetTheirDemand`), nodes of one configuration share their stacks, up to an exception the property names (`OneStackPerConfig`), a contradictory image makes no demand (`BadImageMakesNoStack`). |

All runs switch the deadlock check off: nodes end terminated, servers stopped,
commands done, and requests run out, so the systems really stop. That nobody waits
for ever is what the liveness properties say.

### Bounds

* `MaxActivities = 3`: an attempt that fails, one that fails after it and one that
  succeeds; an error one can make between attempts shows with two. The guard
  of `Retry` applies the bound; the last attempt may only succeed or fail for good.
* `MaxFails = 3` is the code's own retry count.
* A caller calls `stop()` once per node. A second call of the same caller can
  only find the node stopping or stopped.
* `RayService`: two heads, for a `ray up` after a `ray down`, and a worker. The
  requests of `Hasty` come at any time, the others when nothing is under way, an
  assumption about the callers: with the worker alone in it, it races with every
  step of a stop and a removal, which is where every error was found.
* `Cluster`: three requests, a head with a stack of its own and two workers with
  a common priority and main stack: what one does to a stack meets the other
  at the same lock, and the head keeps the cluster up or takes it down.
  One life of the cluster is followed, so its locks are replaced once.
* `Shutdown`: three clusters, so that one can be removed while the second is being
  stopped and the third is still ahead; two shutdown requests, as a third finds the
  server in the same states as the second. In one cluster (`Faulty`) the stop of the
  node or of the cluster may raise, which ends the walk there or, when its own node
  began the stop, leaves a cluster terminating that the walk passes.
* `Webserver`: two starts and one stop. Two servers can race for the port, the pid
  file and yagna, and a stop can meet either, or be refused by one that a signal
  has ended. A user may run a yagna before.
  Any daemon may exit before it serves, that of the first server (`Unstable`) also later.
* `NodeProvider`: a head, a call for two workers and the head of a later `ray up`,
  which gets the ids of the first again; `MaxNodes = 4` holds all their nodes.
* `Reputation`: a block and an unblock of one provider, an update whose three
  entries name a known provider twice (once without scores) and the blocked one;
  scores 0 and 1 are the ends of the scale. `NetworkStats`: a proposal of each
  provider, so that two are in the pipeline at once.
* `Configuration`: three node types over files with tags, hashes, subnets and lists
  on either layer, a type that names `manifest-support` itself among them, and three requests: of two of them, one makes a stack the
  other finds, and the third has been parsed before or after it changed.

### Fairness

The event loop runs every task that can go on, timers run out, ssh checks, http
calls and subprocesses end: weak fairness of the steps of tasks in progress. Above
`ClusterNode` this says that the `stop()` of a node ends or raises: fair is the choice of
the two (`NodeStopped(r) \/ NodeStopFails(r)`), never the end alone. `ClusterNode` shows
that it ends on interpreters that do not swallow cancellations; the package allows
others, on which it may wait for the market (known deviations). `CallsReturn`,
`EmptyClusterRemoved`, `StopEnds`, `CreateReturns` and the `ShutdownEnds` of
`Shutdown` rest on that.
Nothing is assumed of the market (no agreement need ever come, so
`GotAgreement` and `PriorityTimeout` are not fair), of providers (activities
need not die), or of who calls `stop()`, `request_nodes` or `terminate_node`.
`Cluster` assumes further that the calls of golem-core that create, start and
stop managers end, with or without an error.
An error that ends `StartFails` at an await of the market is not fair either.
In `Shutdown` handlers end or are cancelled by aiohttp after its own timeout. In
`Webserver` commands go on, at the latest when their timeout is over (which is in
the code) or their user has answered, and a server that boots gets through or fails;
yagna need not become ready, nor nodes stop. In `NodeProvider` polls and stops
end, and nodes need not come to run. In `NetworkStats` what the command awaits
returns or raises; no property of a run depends on it, so none of the writers
is fair.

## What is proved

For all values of the constants, unless said otherwise, from the assumptions
that the modules name:

* `ClusterNodeProofs`: `TypeCorrect`, `OneActivity`, `RunningOwns`, `MonitorsSafe`,
  `NothingOutlives`, `GivesBack` for any bounds, with and without priority stack,
  worker or head, swallowed cancellations or not; and `Refinement`: if cancellations
  are not swallowed, the initial states and steps of a node are those of
  `NodeLifecycle`, or stutter.
* `ClusterProofs`: `ClusterTypes`, `OneStack`, `StacksMinded` (of a running cluster only a
  failure leaves a stack to nobody), `NobodyInVain` (whoever waits for the lock of a
  stack waits for a request that can go on) and `StopperIsOne` (a terminating cluster has
  exactly one task that stops it or has failed to, and no other cluster has one), for any requests, hashes and wants.
* `RayServiceProofs`: `TypeCorrect` and `LockIsExclusive`, however calls overlap;
  `RemovalSafe`, `NoOrphans` and `Cancellable` as long as none does, for any requests,
  heads or workers, and any number of clusters, restarts and removals they lead to.
  `HoldersGoOn`, however calls overlap: whoever holds the lock can be taken further
  without it. `NodesLive`: for each node the registry's steps are steps of
  `NodeLifecycle`, or stutter. With `Refinement` above this closes the gap between the
  two modules: what the registry takes a node for is what `ClusterNode` does.
* `ShutdownProofs`: `TypeCorrect`, `AnswerKept`, `ClustersFirst`, `NodesFirst`, for any
  number of clusters and shutdown requests.
* `WebserverProofs`: `TypeCorrect`, `YagnaGoes`, `PidNames`, `CompletedIsGone`,
  `YagnaStays`, for any number of commands.
* `NodeProviderProofs`: `TypeCorrect`, `DistinctIds`, `ReadyIsTrue`, for any calls and
  numbers of nodes.
* `NetworkStatsProofs`, first about `Reputation` alone: `RowsTyped`, `BlockStays`,
  `ScoresStored` and `BlockedLast`, for any commands, providers, scores and downloads.
  Then about the composition: `TypeCorrect`, `BlockHolds`, `DraftsGivenBack`,
  `NothingLeft`, `CountersAddUp`, for any finite set of proposals; and `ReadsOnly`: the
  composition is, for the database, a behaviour of `Reputation`, so that what is proved
  of it holds here too (`BlocksStick`).
* `ConfigurationProofs`: `TypeCorrect`, `TypesIndependent`, `DemandsRight`,
  `StacksShared`, `NoStackOfBadImage`, for any files (a layer may name any keys), node
  types and requests.

`ClustersStopFirst`, `BlockedRankLast` and `NegotiationsAccounted`, and the types of
some modules, are proved and not checked by a run of their own. `NobodyInVain`,
`StopperIsOne` and `HoldersGoOn` are what remains of a liveness property without its
fairness: they say that nobody waits for ever because everyone waits.

Hardly any of the properties is inductive. What makes them so:

* Node: `IInv` says which await of the start task holds which activity (`StartInv`:
  nothing is owed before an activity exists, exactly the held one during its
  setup), that monitors start last and once (`MonitorInv`), and that a `stop()` past
  its first await has seen the start task end, and past its sidecars no monitor runs
  (`StopInv`). That last part carries the weight: it is why `stop()` may clear
  `_activity`, and why two overlapping `stop()`s stay harmless. `PendingInv` relates
  the node's state to its tasks for `GivesBack`; `OneStopInv` says that only one
  caller is past the guard of `stop()`, which is true only without swallowed
  cancellations.
* Stacks: `OneStackPerHash` follows from `LockInv`: a request that is creating or
  starting a stack is at the head of its lock (`HolderInv`), before the cluster has
  stopped all locks are of the first generation, so that requests for one hash
  meet at one lock (`EpochInv`), and what runs is what the dictionary has, while a
  request that creates a stack found none and none came (`DictInv`). The middle part
  is the one that `stop()` breaks by emptying the locks, which is why the property
  ends with the cluster. `StacksAreMinded` needs that a running stack is in the hands of
  the request that made it or of one that got it (`MakerInv`) and that the ends of nodes
  are announced (`NotifyInv`); a callback drops a stack only to a live node that uses it.
  It needs `StopInv` as well: the stop of the cluster, which calls nobody back, has one
  task, and while it runs the cluster is not running. That a terminating cluster has such
  a task (`StopperInv`) holds because a node's `on_stop` comes once, after its end. For `NobodyInVain` the queue of a lock
  has exactly the requests that are at it, once each (`QueueInv`): the head of the queue
  is then one that waits there or makes a stack there. A request may want one hash
  twice, and then leaves the queue and enters it again in one step.
* Registry: `LockInv` ties the queue of the lock to where its tasks are, `TurnInv` orders
  a call, its node, the node's callback and the removal. As long as nothing has overlapped
  (`OrderInv`) one thing is under way at a time (`AloneInv`): a call, or a stop from its
  node to the delay before the removal. All of them are about the registered cluster
  (`RegisteredInv`), and a removal that waits is remembered and about a cluster that has
  stopped (`RemovalInv`), so that a request either cancels it or finds none. `AloneInv`
  is what the findings break: a request that comes during a stop works on a cluster that
  `ClusterStopped` is about to empty. For `HoldersGoOn` it takes besides that a call which
  stops a node under the lock has a node that is terminating or has terminated
  (`StoppingInv`), since its end is all the call awaits.
* Shutdown: `WalkInv` says that, as long as the dictionary keeps its size, everything
  before the position of the walk has stopped or was skipped. It needs that nothing
  is added during the walk (`QuietInv`: no handler is under way then), that whatever
  has not stopped is registered (`RegistryInv`), and that a cluster which stops has
  seen its node stop, awaits it, came too late or failed (`NodeInv`).
* Web server: `OrderInv` describes commands that come one after the other: there is one
  live server at most, the pid file names it, and a server that leaves has a command
  waiting for it; hence a new server looks for yagna only after the old one is gone.
  `ServerInv` orders the port, `shutting_down` and the states of one server.
* Node provider: ids from the counter on have not been given out since the last stop
  (`CounterInv`), and a call whose cluster was not stopped since has its own nodes in
  the collection (`OwnerInv`).
* Reputation: a writer that was not overtaken holds the row as it is (`HeldInv`), so its
  save changes only what it means to change. In the composition a proposal's
  provider, once blocked without a race, is still blocked when the blacklist is asked
  (`BlockedInv`), drafts are taken only while they are gathered (`DraftInv`), and each
  phase has its services up (`UpInv`); nobody but the pipeline changes its counters,
  which miss what is under way and what an error of `get_demand_data` has lost.
  `UpdateStoresScores` is about a whole download, so `ScoresInv` follows the update through
  it: what is left of the report is its end (`DataInv`), the counters add up to
  what has passed (`CountInv`), an updater that nobody raced with holds the scores
  that are in the row (`HeldScores`), and each entry that has passed, and that no later one
  replaced, is in the row (`Stored`). Counters have an upper bound because a proposal
  passes each of them once (`TallyInv`).
* Configuration: `ConfigInv` says of a node type that it is as in the file or merged
  already, whatever the order (`LayersInv`); of a stack that it is what was made of the
  configuration in its hash (`StackInv`); and of a request that its stacks are those
  of its type's configuration, where a main stack may be that of the configuration with
  `manifest-support` added (`RequestInv`). The last part is the one that
  `demand_config.py:56` breaks for `OneStackPerConfig`, and the proof shows that a demand
  is right nevertheless: a configuration and the one it was changed into ask for the
  same. The proof attempt also corrected the property. It compared demands, of which two
  that are alike may well stand side by side: a type that names `manifest-support` itself
  asks for what a type does that it is added to, under another hash. It is about the
  nodes of one configuration now.

Only model-checked is what needs fairness: `DeadActivityStopsNode`, `CallsReturn`,
`EmptyClusterRemoved`, `RequestsAnswered`, `StopEnds`, `CommandsEnd`, `ShutdownEnds`,
`CreateReturns` and the fairness part of `ImplementsLifecycle`. Liveness is out of the
prover's reach. Every invariant and action property of a passing run is proved.

Worth proving next: that requests and nodes of `Cluster` are those of `RayService`
seen without the registry, and of the liveness of `Shutdown` and `NodeProvider` the part
that needs no fairness, as above for `Cluster` and `RayService`.

## Known deviations

What the code does and its authors hardly mean, met while modelling. The models
do all of it where they have the part in question; the properties name it as their
exception. Three of these are shown by a run (see the findings in `PROJECT.json`).

* `nodes.py:256`: a start that is cancelled while its activity is being created or
  set up abandons that activity: `_activity` is not set yet.
* `nodes.py:270`, `nodes.py:194`: on CPython 3.9 to 3.11 `wait_for` can swallow a
  cancellation; `stop()` then waits until the market answers.
* `sidecars.py:266`: a tunnel that exits while it is being stopped makes `stop()`
  raise; the head stays `terminating` and its `on_stop` is not called. Its cluster stays
  up, or, when `Cluster.stop` called, `terminating` like after any error at
  `cluster.py:130-134`: it is never removed, and a `create_node` that waits for that
  head polls for ever.
* `sidecars.py:132`, `sidecars.py:173`: an error of `get_state()`, or of the ssh check
  when it is no `RayOnGolemError`, ends its monitor silently. When both have ended
  nobody notices a dead activity. `sidecars.py:169`: `fails_count` is never reset.
* `ray.py:240`: the assertion of `_remove_cluster` fails when the cluster was started
  again between its stop and the registration of its removal.
* `cluster.py:137` (finding): a node that is added while its cluster stops is dropped
  from the collection alive. `cluster.py:132`: so is a stack created meanwhile.
* `nodes.py:160`: an error of the start, of a stack or of the payment manager leaves
  an empty cluster that is never removed. A node whose start fails calls nobody back,
  so that its stacks, when it was the last to use them, stay on the market until the
  cluster stops; so does the stack of a request that failed.
* `cluster.py:318` (finding): stopped stacks are handed to later nodes. `cluster.py:310`:
  the look for unused stacks and their stop are two steps, between which a
  request may take such a stack, whose stop then strikes a live node.
* `cluster.py:138`: ids are given out again after a stop; a `create_node` that still
  polls sees other nodes under its ids, and none at all once the cluster is gone:
  `all()` over nothing reports success (`node_provider.py:228`). An id that vanished and
  came back is a `KeyError` (`node_provider.py:248`).
* `ray.py:58`: `RayService.stop` ends with a `RuntimeError` when a removal changes the
  dictionary under it, or with the error of a `cluster.stop()`: the clusters after it
  keep their nodes while golem is closed. It waits neither for clusters that stop already nor, with
  `cluster.py:130`, for nodes that do. `views.py:268`: a request past the guard creates
  its node after the answer. `views.py:267`: the timer of a second shutdown
  request ends the clean-up of the first.
* `ctl.py:84`, `ctl.py:198`, `main.py:270`: commands that overlap, or that gave up
  waiting, overwrite and clear each other's pid file and may kill the process it named
  before. A server that a signal ends frees its port unannounced, so that a start does
  not wait for it. `yagna.py:47`: a server that starts meanwhile takes another server's yagna for
  an external one, and loses it.
* `yagna.py:131`, `main.py`: an error during the set-up leaves the yagna that was launched.
* `updater.py:63` and `:78` (finding): saving whole rows loses updates, of the
  blacklist and of the scores alike.
* `network_stats/main.py:82`: errors, and CTRL-C outside of `run`, leave the services
  running; CTRL-C while drafts are rejected leaves the rest unrejected. An error of
  `get_demand_data` (`network_stats.py:64`) is in none of the counters that are printed.
* `plugins/blacklist.py:23`: a provider that is blocked after its proposal was looked at
  is negotiated with.
* `demand_config.py:56`: appending to the capabilities changes the hash: the main
  stack of a configuration with outbound urls is looked up under another hash than
  its priority stack was, and may exist twice. So may the demand of two types, one of
  which names `manifest-support` itself.
* `node_provider.py:302`: lists are added over the layers, so no type can take back what
  the provider's layer lists; an `image_tag` there cannot be replaced by an `image_hash`.
  The error for that raises a `TypeError` (`exceptions.py:9`): 500 instead of 400.
* `utils.py:60`: `are_dicts_equal` ignores keys that one of the dictionaries lacks.

## Not modelled

Formatting, logging, warnings and the http encoding are left out. A second CTRL-C, and one after an error, are not in `NetworkStats`. The contents
of commands sent to a provider are one step (`SetupFails`/`SetupDone`), as is
the exchange that leads to an agreement; the managers of a stack are golem-core's
and start and stop in one step. The two tunnels a head may have are one. Queries
of the registry change nothing and are not actions, and so are tags, which no guard
reads. Left out altogether: the ssh command runner and the queries the node provider
forwards, the creation of ssh keys, funding by yagna (a step that may fail), the
database's migrations and their administration (`reputation/admin.py`), settings and
log paths, and the example programs.
