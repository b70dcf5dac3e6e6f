# A TLA+ model of Jupyter Enterprise Gateway

Enterprise Gateway is a Jupyter server without a front end. It starts kernels on other
machines (by ssh, YARN, Kubernetes, Docker, Conductor), keeps track of them and gives
clients their REST and websocket API. This directory holds TLA+ modules that model its
stateful parts, TLC configurations that check them on small instances, and TLAPS proofs
about its core. Paths below are relative to `src/enterprise_gateway/` unless they begin
with `etc/`, `docs/`.

The gateway is one asyncio event loop in one process, plus a few threads: watchdog's
observer for the kernelspec cache, and the executor that runs a blocking `kill()` during a
launch timeout. Each kernel's host runs a launcher with two processes of its own, and the
image puller is a separate program with one main thread and several workers. Python code between two `await`s is atomic with respect to the other
coroutines. In every module one action is the code a coroutine or a thread handler runs
between two such points. Where two threads share data, an action is one method call on
that data.

## 1. Inventory

| Component | State | Operations | Hard behaviours | What makes it correct |
|---|---|---|---|---|
| Kernel manager, `services/kernels/remotemanager.py` | `_kernels`, the `restarting` flags, pending-request counters | start, restart, shutdown, automatic restart, revival from a session | the limit check comes before a long await; restarts and shutdowns of the same id overlap; a launch fails half-way; the gateway is killed | limits hold, counters are exact, every operation ends |
| Kernel sessions, `services/sessions/kernelsessionmanager.py` | `_sessions`, `_sessionsByUser`, files or a webhook database | create, refresh, delete, load and start at boot | a crash between any two steps, restarts that change the process | a session exists only with a kernel, and the stored one describes the current process |
| REST handlers, `services/kernels/handlers.py` | the `start_kernel` attribute of the kernel manager, patched during a POST | POST, GET, DELETE, websocket | overlapping POSTs patch and restore one attribute | an env reaches another request's kernel, or stays behind, only through an overlap |
| Response manager and remote launch, `services/processproxies/processproxy.py` | `_response_registry`, the response socket | register, process connections, wait, time out, kill | lost, late, undecodable responses; two launches with one id; a stuck peer | one response goes to one launch; every launch ends |
| Distributed proxy, `services/processproxies/distributed.py` | `_host_kernels`, `_kernel_host_mapping`, `host_index` | choose a host, launch, clean up | retries and failed launches under one id; a table shared by all kernelspecs | counts cover the mapped kernels; a kernel runs on a host of its kernelspec |
| Kernelspec cache, `services/kernelspecs/kernelspec_cache.py` | `cache_items`, `observed_dirs` | get, get all, put, remove, file events | a request's fill races the observer thread; events handled after the file has changed again | items follow the files |
| YARN proxy, `services/processproxies/yarn.py` | application id, last known state, submitter process | launch, discover, confirm, poll, kill, load | the id is not known yet when a timeout kills; the resource manager does not answer; an earlier application has the same name | no application is left behind unnoticed, none taken for another or for dead, none but one's own killed |
| Conductor proxy, `services/processproxies/conductor.py` | application id, driver id | as YARN, with the driver id printed by the submitter | what a query needs (driver id; with YARN the client) is not persisted | as YARN |
| Container, Kubernetes, CRD, Docker proxies | container name, assigned host, namespace and its ownership | launch, status, terminate, load | the name is learnt late; restart against shutdown; a pod that is gone already | containers and namespaces go with the kernel, the namespace stays for a restart |
| Notebook sessions, `services/sessions/sessionmanager.py` | `_sessions`, a list of rows | create, get, list, update, delete | rows are read before an await and changed after it; a kernel goes without its session | a session is listed while its kernel runs; one per path |
| Application, `enterprisegatewayapp.py` | the managers, the HTTP server | start, stop, signals | order of start-up and shutdown | all kernels shut down on exit |
| Mixins, base handlers | traits | per-request headers, CORS, auth | none | |
| Kernelspec and API handlers | none | filter by user, static files | none | |
| Launchers, `etc/kernel-launchers/` | listener socket, kernel process | report connection info, serve shutdown and signals | requests without acknowledgement, an empty or a stuck connection, one process outliving the other | no process left behind, no live kernel replaced, dead ones noticed |
| Image puller, `etc/docker/kernel-image-puller/` | queue, set of pulled images | fetch names, pull with retries | worker threads sharing a set, a fetcher that fails, null items, calls without a timeout, images evicted from the node | the queue's count is exact, names keep being fetched |
| Client library, deployment files | | | | test client and data |

How they interact. A POST passes the handler, `RemoteMappingKernelManager.start_kernel`
(limit check, pending counter), jupyter_client's `MultiKernelManager` (launch task,
`_kernels`), `RemoteKernelManager`, a process proxy (`launch_process`,
`confirm_remote_startup`) and the response manager, and returns through
`create_session`. The auto-restarter of jupyter_client polls the process proxy and calls
back into `RemoteKernelManager.restart_kernel`. A request for an id that is not in
`_kernels` reaches `check_kernel_id`, which in replication mode revives the stored session.
At start-up a standalone gateway revives all of them.

`PROJECT.json` lists the components with what is and is not modelled of each, and under
`hazards` the points of the code where these behaviours bite.

## 2. Modules

### RemoteMappingKernelManager (with MCKernelManager, KernelManagerProofs)

The kernel registry together with the sessions it drives, since each of its operations
ends in a session operation.

A start request `r` creates one `RemoteKernelManager`, so requests also name the manager
instances and the processes these own. `start[r].pc` is "launching" while
`super().start_kernel` awaits the process, "added" once jupyter_client has put the manager
in `_kernels` and until the coroutine of the request resumes. In that gap a shutdown can
take the kernel away, which `StartReturns` covers. `kernels`, `restarting`, `pendingAll`,
`pendingUser`, `sessions`, `sessionsByUser` carry the names of the attributes; `store` is
what is persisted (files or webhook); `alive` and `gen` describe the remote processes,
`gen` being incremented by each restart, so that a stored session of an older process can
be told apart; `watched` is the set of managers with an active auto-restarter; `op` holds
the restart and shutdown coroutines in progress.

| Action | Code |
|---|---|
| StartKernel, StartRejected | `start_kernel` to its await, `_enforce_kernel_limits` |
| Launched, LaunchFailed, StartReturns | the launch task and the rest of `start_kernel`, `create_session` |
| ShutdownKernel, ShutdownFinished | `shutdown_kernel`, `request_shutdown`, `cleanup`, `remove_kernel`, `delete_session` |
| RestartKernel, RestartStopped, Relaunched, RelaunchFailed, RestartReturns | `restart_kernel` of both managers, `refresh_session` |
| WaitEnds, WaitTimesOut | `wait_for_restart_finish` |
| AutoRestart, AutoShutdown, AutoDead | `RemoteKernelManager.restart_kernel(now=True)` and jupyter's callbacks |
| CheckKernelId | `check_kernel_id`, `_refresh_kernel`, `start_kernel_from_session` |
| Crash, Boot | the process is killed; `start_sessions` of the next one |

External behaviour (the duplicate-id check, the `_kernels` map, the restarter's polling)
is modelled from the calls made here. `Relaunched` is the end of a relaunch with its
`refresh_session`: no other coroutine looks at the process in between. `Crash(started)` is a kill of the
gateway at any time, also after the relaunches in `started` have made their new process and
before they refreshed the session, so that the store describes a process that has gone.
`FoundDead` uses one timing fact: the restarter's
first poll comes seconds after the launch, when the start coroutine has resumed.

### MainKernelHandler and SessionManager (with MCSessions, SessionProofs)

`post()` replaces `kernel_manager.start_kernel` by a partial with the request's env,
awaits the parent handler and restores what it found. The state is the attribute, what
each request saved, and whose env each kernel got. `functools.partial` of a partial keeps
the outer keyword, so the attribute is represented by the outermost env. A kernel is named
after the request that started it.

SessionManager EXTENDS it with notebook sessions, which start their kernels through the same
attribute. `rows` is `_sessions`. `CreateSession` and `SessionStarted` are `create_session` before and
after its await, `DeleteSession`, `DeleteReturns` and `DeleteRaises` those of `delete_session`; the end of
the shutdown in between is `KernelGone`, as is any other end of a kernel. `row_to_model` drops a
row whose kernel has gone, in every query (`ExistingSession`, `GetSession`, `ListSessions`). That
the handler asks `session_exists` before `create_session` is jupyter_server's doing.

### KernelLaunch, RemoteProcessProxy and DistributedProcessProxy (with MCDistributed, DistributedProofs)

RemoteProcessProxy has the response manager and the launch loop that all remote proxies
share; it is a collection of steps that proxy modules compose. DistributedProcessProxy
EXTENDS it and adds host selection and the host table. An attempt is one proxy object and
its launcher. Attempts under one kernel id occur in a restart, in a retry, and in two
overlapping requests that send the same `KERNEL_ID`; the model allows all three.
`registry[k]` is the attempt whose `Response` object is under the id, `waitOn[a]` the one
whose event `a` awaits: the code looks the registry up twice, before and after the await.
The backlog is the listen queue of the response socket; a message carries whether it can
be decoded. `Hang` is a peer that neither sends nor closes: `_process_connections` has no
timeout on its read.

Both load-balancing algorithms are initial states (`leastConnection`).

`KernelLaunch` is the abstract specification of `launch_process`, as the kernel manager
that awaits it sees it: a launch is idle, launching, ready, failed or stopped; it becomes
ready with the connection information of a launcher that was started under the same kernel
id and that no other launch was given. RemoteProcessProxy instantiates it with a mapping
(`Contract`: `status` from `pc`, `id` from `kid`, `conn` from `info`), and `LaunchContract`
states that the detailed launch implements it. It does not promise that the launcher is
the launch's own: after a failed launch, a late response under the same id is taken by the
next one. ClusterProcessProxy and ContainerProcessProxy use the steps of KernelLaunch for
the exchange that this refinement justifies, so the response socket is not modelled again.

### ClusterProcessProxy (with MCCluster, ClusterProofs)

YARN and Conductor (`kind`). The local submitter asks the resource manager for an
application; the proxy finds it, watches it and kills it. `app[a]` is the application the
submitter of attempt `a` makes, `order` the order of application ids, `since[a]` what was
submitted before `start_time`, which the YARN query filters on. `appId`, `last`, `located`,
`driver` and `submitter` are the attributes `application_id`, `last_known_state`,
`assigned_host`, `driver_id` and `local_proc`. Each call to the resource manager takes a
parameter `reach`: with FALSE it did not answer (at most `MaxFaults` times). A submitter that
is killed may have sent its request (`left = "posted"`), so that its application can appear
after the launch has failed. `blind` collects the attempts whose last kill did not reach
their own application. `Revive` is a change of gateway: a proxy that loads a session has no
`resource_mgr` (YARN, `yarn.py:120`, `:133`) or no driver id (Conductor), so its `poll()` is False, the
session is dropped (`remotemanager.py:399`) and the application stays without a manager; `dropped`
collects these.

| Action | Code |
|---|---|
| LaunchYarn, LaunchConductor, LaunchRefused | `launch_process`, `confirm_yarn_queue_availability` |
| RoundWaits, RoundIdle, RoundFails | one round of `confirm_remote_startup`: `handle_timeout`, `_get_application_id`, the state, `detect_launch_failure` |
| ReceiveInfo, ReceiveTimesOut, ReceiveFails | `receive_connection_info` |
| HandleTimeout, KillReturns | `handle_timeout`, `kill` in the executor |
| Poll, Revive, StopGracefully, StopByKill | `poll`, `load_process_info`, shutdown with `cleanup` |
| Submit, SubmitterFails, AppRuns, AppFails | the cluster |

### ContainerProcessProxy (with MCContainer, ContainerProofs)

Kubernetes pods, custom resources, Docker containers and Swarm services (`kind`), with the
part of the kernel manager that decides about the namespace: the `restarting` flag, restarts
of a client and of the restarter (`auto`), an overlapping shutdown, and a change of gateway.
One kernel id is followed. The container's name is made from the kernel id, so there is at
most one container, `pod`, made by the script of attempt `podBy`. `named` are the proxies that
have learnt `container_name`: nothing else can be terminated. `deletes` is
`delete_kernel_namespace`. The outcomes of a launch (`Outcomes`) follow the order of the code:
the namespace is made first, then prohibited ids are checked, then the script is started.
`podLeft` and `nsLeft` record the paths on which something is left behind. A loaded session of a
custom resource lacks `kernel_resource_name`, so that its `poll()` is False (`FoundAgain`) and the
session is dropped.

### ProcessControl (with ProcessControlProofs)

The control of a running remote kernel. The launcher of a process group `p` makes two
processes, `kernel[p]` and `listener[p]`; the gateway's requests are connections in
`queue[p]`, the backlog of the listener's socket. `send_signal` answers "alive" when the
request has got into the backlog, "dead" when the connection is refused, and goes on to ssh
(`RemoteSignal`) when the connection times out, which is what a full backlog and a slow network
both produce. Above it run the steps of jupyter_client's shutdown and restart with the hooks
of `remotemanager.py`: `TermListener` and `ShutListener` (`request_shutdown`), `WaitPolls`,
`WaitExpires` (`finish_shutdown`), `KillKernel`, `Reap` (`wait`, which never waits), `Cleanup`; and
the launch with the `kill()` of its timeout. `Crash` can fall between the connect and the send
of a request. `why[p]` records the first mishap after which processes may stay: the listener ended
by an empty connection, a failed ssh command, a blocked listener taken for slow, a crash before
the session was written, a launch that timed out, and a revival that dropped the session of a
dead kernel on the word of ssh while its listener still listens (`RevivalPolls`).

### ImagePuller (with MCImagePuller, ImagePullerProofs)

The program under `etc/docker/kernel-image-puller`: the main thread's loop, the queue with its
count of unfinished tasks, and workers whose steps are separated by their calls of the
container runtime. The configuration (fetcher, runtime, endpoint, policy) is chosen in the
initial state. A fetcher answers with a sequence of names, None, or an exception; the names of a
config map may contain nulls, and one of these ends the worker that gets it without
`task_done()` (`Get`, `Ended`). `FetchHangs` and `CallHangs` are calls that never return: the config map
is read and crictl is run without a timeout.

### KernelSpecCache (with MCKernelSpecCache, KernelSpecCacheProofs)

File contents are version numbers. A request reads a file in one step and puts it into the
cache in a later one, as the observer thread does with an event: watchdog's thread and the
event loop are not synchronised. `window` is a history variable: the names changed while
the cache could not follow (before `observer.start()`, during a fill of the same name, or a
rename that overtakes earlier events).

## 3. Runs

All runs use TLC in breadth-first mode and exhaust their state space. Deadlock is not
checked: requests, attempts and file changes are finite sets, and a gateway with nothing
to do stops.

| Run | What it asks | Bounds |
|---|---|---|
| limits | `PendingExact`, `MaxKernelsRespected`, `MaxKernelsPerUserRespected`, `TypeOK` without persistence | 3 requests, 3 ids, 3 users, limits 2 and 1: two requests fill the limit, the third overlaps; requests can share an id |
| standalone | `SessionsBacked`, `PersistedSessionCurrent`, `MaxKernelsRespected` with crashes and reboot | 3 requests, 2 ids, 2 coroutines, 1 restart per kernel |
| replication | the two session properties when a request revives a kernel, with crashes, and `OperationsReturn` under fairness | 2 requests, 2 ids, 2 coroutines: one restarts, the other waits or shuts down |
| post_env | `LeftoverIsOverlap`, `BorrowedEnvIsOverlap`, `SessionKernelListed`, `SamePathIsOverlap` | 3 POSTs of kernels, two with an env; 2 POSTs of sessions for one path, 2 DELETEs, 1 PATCH; also checked once with two paths and one DELETE |
| launch | `LaunchContract` (the refinement), `NoSharedKernel`, `CountsCover`, `LaunchEnds` | 2 attempts under one id, 2 rounds of waiting, 2 hosts |
| spec_cache | `StaleOnlyInWindow`, `CachedIsObserved`, `DeletedForgotten` | 3 names in 2 directories, 4 changes, 1 filling request |
| resource_manager | `OrphanExplained`, `OnlyNewApplications`, `LivePolledAlive`, `KillsOwnOrOverlapping` | 2 attempts under one id (a launch and its restart, retry or overlapping twin) or under two, 2 unanswered calls |
| container | `ContainerExplained`, `NamespaceExplained`, `NamespaceSurvives` | 2 launches of one kernel, 2 failing calls: a start and its relaunch, with an overlapping shutdown; also checked once with 3 launches and 1 failing call |
| process_control | `NothingLeft`, `NoLiveKernelReplaced`, `DeadKernelNoticed`, `TypeOK` | 2 process groups (a launch and its replacement), 1 crash or failed ssh command; also checked once with 2 |
| image_puller | `UnfinishedExact`, `OneWorkerPerImage`, `ForgetsWhatIsThere`, `PulledIsPresent`, `KeepsFetching`, `TypeOK` | 2 workers, 2 images, 2 attempts per image, 3 errors, hanging calls or evictions: a race needs two workers on one image, giving up needs two errors; one config map repeats an image, the other has null items for both workers |
| revived_user_limit, ns_leak | statements of the docs that the code does not keep (below) | smallest instance that shows it |

Symmetry (requests, ids, users, slots; attempts) is used in runs of invariants and of action
properties, never under fairness. `MaxGen` bounds restarts, `MaxTries` the
rounds of `confirm_remote_startup` before `kernel_launch_timeout`, `MaxChanges` the file
changes, `MaxFaults` and `MaxErrors` the calls that fail, `MaxPatches` the PATCHes. `Backlog` is no bound of the model:
`listen(1)` admits two connections. Two of each actor suffice for the races in question:
every property fails, in these same instances, when the code is altered in the way its
mutant does (`PROJECT.json`, `mutants`).

The properties named `...Explained`, and `NothingLeft`, have the form "left behind only if":
history variables mark the paths on which the code cannot or does not clean up, each at the
action where that happens, and the invariant says there is no other. They are how one reads
off what these proxies guarantee: an application, a container, a namespace or a process
stays only after an event listed in the property's comment. `NothingLeft` says of a group without
such a mark that its kernel has gone or is exiting and that its listener does not listen; behind a
kernel that has gone the listener may be blocked for good by a connection that a dead gateway
host left open. It makes no exception for crashes as such.

### Fairness

`replication`: every await of a restart or a shutdown is bounded in the code (a launch by
`kernel_launch_timeout`, the exit of a process by `kill()`, the `kernel_info` reply and the
polling loop by their own timeouts), hence weak fairness of each coroutine's next step.
Success of a launch is not assumed: the fair action is "relaunched or failed".
`launch`: timers expire and `kill()` returns; launchers, clients and the response socket are
free to do nothing, so a launch ends even when `_process_connections` is stuck.
`spec_cache`: the observer thread and a request that has read a file keep running.
`process_control`: the gateway carries on with what it has begun, the restarter polls every few
seconds, bounded waits expire, the listener serves its backlog unless it is blocked, and an
interpreter whose application has ended exits once its child has. Nothing is assumed of the
kernel or of ssh.
`image_puller`: the threads keep running. The steps in which a call hangs are not fair, and a worker
or main thread in one has no further step; `KeepsFetching` names these cases. The Docker client
has a timeout, crictl and the reading of the config map have none.

### Where code and statement differ

- `revived_user_limit`: sessions loaded after a reboot enter `_sessions` but not
  `_sessionsByUser`, so a revived kernel does not count against `max_kernels_per_user`.
- `ns_leak`: when the pod is gone before the kernel is shut down, its deletion raises 404, which
  `terminate_container_resources` takes for success without coming to the namespace. The same
  namespace stays when a new gateway finds the kernel dead and drops its session.
- The comment in `kernel_image_puller.py:91-92` says that after "issues fetching the image names" the
  main thread waits and tries again. That holds for a request that fails. A kernelspec of another
  shape, YAML that cannot be read, or None inside the combined fetcher raises out of `start()`,
  which ends the main thread; this is `main = "dead"`, one of the exceptions of `KeepsFetching`.

### Known limits, modelled as the code has them

- `handlers.py:129`: two overlapping POSTs can leave the partial of one of them installed;
  `LeftoverIsOverlap` says that nothing else can.
- `handlers.py:122`: a POST without env, or a session, that starts its kernel while another POST's
  partial is installed gets that POST's env; `BorrowedEnvIsOverlap` says that only a POST under way,
  or one whose partial an overlap put back, can lend its env.
- `sessionmanager.py:87`, `:267`: overlapping POSTs make two sessions for one path; a PATCH that gives
  a session another kernel during its DELETE leaves that kernel without a session. A stale row
  makes the whole list fail once (`KeyError`).
- `remotemanager.py:636-646`: a gateway killed between the start of a relaunched process and
  `refresh_session` leaves a session that describes the old process. The next gateway drops it; the
  new process has no manager.
- `remotemanager.py:633-648`: an automatic restart clears `restarting` only when nothing raised.
  A failed one leaves it set, and later restart requests are treated as duplicates after a
  wait; `OperationsReturn` says the wait ends.
- `distributed.py:61`: with least-connection the hosts of the first kernelspec are used for all.
- `kernelspec_cache.py:292`: renaming a kernelspec that is not cached raises in `on_moved` and
  ends the observer thread; `DeletedForgotten` is conditioned on it.
- `k8s.py:91`: the namespace exists before the launch can be refused, and stays if it is.
- `yarn.py:120`, `conductor.py:473`, `crd.py:31`: what a query needs is set by `launch_process` and not
  persisted. A new gateway takes the kernels of these proxies for dead and drops their sessions,
  while the application or the pod runs on.
- `distributed.py:103`: a start over ssh that raises after it has run leaves its count in the host
  table. `CountsCover` is a lower bound; the surplus only skews the choice of a host.
- `docker_swarm.py`: Docker lists running containers only, so one that is still being created
  is not found by a kill.
- `launch_ipykernel.py:358-364`: an empty connection ends the listener, an open one blocks it. A
  kernel whose IPython application has ended looks alive until its listener ends, which a
  poll of the gateway does not cause but the shutdown request does.
- `processproxy.py:618`: after a launch timeout the process group is not known, and the listener
  process survives the kill of its parent. A revival that asks over ssh and finds the kernel dead
  drops the session and with it the port of a listener that is still there.
- `kernel_image_puller.py:158`, `:273`: a null item of the config map ends a worker without `task_done()`,
  and a crictl command that hangs keeps one; in both cases `join()` does not return. YAML items that
  are neither strings nor null are not modelled: their pull raises and is given up.
- `kernel_image_puller.py`: with containerd a failed pull is not retried within its task, since
  crictl's errors are returned and not raised; the next round of the main thread pulls again.

## 4. Proofs

Every invariant and every action property that a passing run checks, and the refinement, is
also a theorem, for all values of the constants: any number of requests, attempts, process
groups, workers, names, crashes and failing calls. (The two limits are proved for the
persistence modes in which they hold, as stated below.) The assumptions are the `ASSUME`s of the
modules, which TLC evaluates in the runs: bounds are natural numbers, sets that are counted
are finite, a "none" value is not an element of the set it stands beside. Each theorem has the
same shape: an inductive invariant, one lemma per action or group of actions that shows it is
preserved, and the last step. Each invariant was checked by TLC on the instances of its
component's run before it was proved. Where an action ends in one of a few operations
(`send_signal`, `terminate_container_resources`, the pop of a response), a lemma says what that
operation does and the actions cite it.

**KernelManagerProofs.** `CountersExact`, with `TypeCorrect` and `PendingCorrect`: `TypeOK`, `Linked`
and `PendingExact` are together inductive. `Linked` says that an instance is mentioned (in
`_kernels`, a session, the store, a coroutine) only under the id of the accepted request that
created it. Without it a decrement could not be shown to meet the user whom the increment met.
`MaxKernelsSafe`, with `Mode # "replication"`: the invariant `KernelsBounded` adds the requests
that are launching to the kernels managed and, while the gateway is down, bounds the stored
sessions that a boot will revive; `_refresh_kernel` revives without a limit check, hence the
hypothesis. `MaxKernelsPerUserSafe`, with `Mode = "none"`: `UsersBounded` relates the per-user
lists, which requests with the same id edit for one another, to the kernels a user really has;
persistence is excluded because of `revived_user_limit`. `SessionsCorrect` and `PersistedCorrect`,
in all modes: `SessionInv` adds that a managed kernel has a session that describes its present
process, or its POST is about to write one (`Tracked`), and that a coroutine works on an instance
under that instance's id (`OwnIds`), without which a refresh could write another kernel's session. A crash in the middle of a relaunch
needs no case in the invariant: `_kernels` is empty then, and `poll()` of a session that describes an
older process is False.

**SessionProofs.** `LeftoverExplained` and the action property `EnvBorrowedInOverlap`: whatever is
installed, or was saved to be restored, is the partial of a request that has begun (`EnvInv`); one
that has ended is still there only because another request saved it while both ran. `SessionsListed` and `PathsApart`:
`ListInv` says that there is at most one row per session, that a DELETE under way names the
kernel its row had, and which POSTs await at the same time. The list operations are handled by
lemmas about the first match in a sequence; `Without` is `list.remove`, which leaves the list
alone when there is no match.

**DistributedProofs.** `KernelsApart` and `LaunchRefinement` from `LaunchInv`: the answer of a launcher
is in one place (`OnePlace`: still unsent, in the backlog, in one Response object, or handed over
from an object that is out of the registry), and what is registered or answered under an id
belongs to attempts with that id (`Links`). With it every step of the detailed launch is a step of
`KernelLaunch` or leaves its variables alone; fairness is no part of that specification, so this
is all of `LaunchContract`. `TableSafety`: the count of a host covers the kernels mapped to it; the
argument is by cardinality of the set that gains or loses one id.

**ImagePullerProofs.** `JoinExact`, `PullerTyped`, `WorkersApart`, `ForgottenOnce`, `PulledWasThere` from
one invariant. The number of unfinished tasks is the length of the queue plus the number of busy
workers and of those that a null item has ended; a round begins with nothing unfinished (`RoundsApart`) and, except with a config map, no
name is queued twice or while a worker has it (`QueuedOnce`), so two workers never meet and none
forgets an image under the hands of another.

**KernelSpecCacheProofs.** `CachedObserved`, and `StaleExplained`, whose invariant says what the
observer will find when it reaches an event: the last event of a written file finds the file
(`WrittenThere`), a rename finds its source cached with the content its target has on disk and
nothing before it in the queue will change that (`MoveKnown`), and what a request or the observer
has read and not yet put is current unless an event is on its way (`FillCurrent`, `HeldCurrent`).

**ClusterProofs.** `OrphansExplained`, `NewApplications`, `PolledAlive` and the action property
`OverlappingKilledOnly`. The applications
known to the resource manager are each once in `order` (`OrderExact`); what a proxy holds exists and
is no older than its launch (`Held`); its last known state was true and a final one stays so
(`LastTrue`); an attempt that ended knowing its application has ended it, and its submitter cannot
bring it later (`Down`). For the kills, what a proxy holds was submitted under its own kernel id
(`SameName`).

**ContainerProofs.** `ContainersExplained`, `NamespacesExplained` and the action property
`NamespaceKept`. The launches of a kernel id do not overlap, except with a shutdown that has
overtaken a restart (`OneLaunch`, `Overtaken`); a container runs for the launch that made it or for
the kernel in use (`ContainerOwned`), a namespace for a launch, a restart or that kernel
(`NamespaceOwned`); the flag is up through a restart (`Flagged`).

**ProcessControlProofs.** `ControlTyped`, `NothingLeftBehind` and the action property
`LiveKernelsKept`. No step of a shutdown waits for its request to be carried out; what makes it
work is that `listen(1)` admits two connections. After `request_shutdown` a signal that kills is in
the backlog or the kernel is finished; after `_kill_kernel` the backlog holds two of them and
nothing else; the third one, of `cleanup`, then finds the backlog full and goes over ssh, which
ends both processes. `InStep` states this step by step, `Hosted` that "shutdown" stands behind a
signal that kills, so that a listener never ends before a kernel that lives, and `WillEnd` that a
listener that still listens has something in its backlog that ends or blocks it. `Shifts` says what
any step preserves for one group (or it records a mishap); from it the steps of the host and of
the gateway follow in a few lines each.

Only model-checked: the liveness properties `OperationsReturn`, `LaunchEnds`, `DeletedForgotten`,
`DeadKernelNoticed` and `KeepsFetching` (fairness and ENABLED are outside the prover), and the
statements of the two violation runs, which do not hold.

## 5. Not modelled

Formatting, logging, environments, connection files, YAML templates, tunnels and port choice
are left out, or appear as an outcome (a launch that raises, a launcher that refuses). The
two persistence back ends are one store without I/O errors. Authorization
(`_enforce_authorization`, prohibited uids) is the outcome of a refused launch, as is the probe
of YARN's queue. Role bindings and service accounts are made or fail with their namespace.
The R and Scala launchers serve the listener's requests from a thread; only the Python
launcher, with its separate listener process, is modelled. The mixins and the kernelspec and
API handlers keep no state between requests; the application builds the managers from its
configuration, and what its start-up does to sessions is `Boot`. Within the modelled files,
the mapped lines leave out argument parsing, messages and environment handling.

## 6. Plan

Done, in this order: kernel manager with sessions, its proofs, POST handler, remote launch
and distributed proxy, kernelspec cache, KernelLaunch and the refinement, image puller,
YARN and Conductor, containers, process control, notebook sessions; then the proofs of the
invariants, action properties and the refinement of all modules. What remains:

1. The exchange of launch and connection information in ClusterProcessProxy and
   ContainerProcessProxy uses the steps of KernelLaunch; that each of them implements
   `Launch!Spec` is seen from their actions and could be stated as a theorem of its own.
2. A per-user limit for standalone mode, restricted to kernels started since the last boot, beside
   `MaxKernelsPerUserSafe`.
3. `MaxKernelsSafe` in replication mode for the kernels that were started, not revived.
