--------------------- MODULE RemoteMappingKernelManager ---------------------
(***************************************************************************)
(* The kernel registry of Enterprise Gateway: RemoteMappingKernelManager   *)
(* and its RemoteKernelManagers (services/kernels/remotemanager.py) with   *)
(* the KernelSessionManager they drive (services/sessions/                 *)
(* kernelsessionmanager.py).                                               *)
(*                                                                         *)
(* The gateway is one asyncio event loop.  A step of this module is what a *)
(* coroutine does between two suspension points; everything that needs an  *)
(* await (launching a process, waiting for it to exit, polling a flag)     *)
(* lies between two steps, and any other coroutine may run there.          *)
(*                                                                         *)
(* A start request r builds one RemoteKernelManager instance, so requests  *)
(* also name the instances ("km") and the remote process each one owns.    *)
(* What jupyter_client and jupyter_server do around these classes (the     *)
(* _kernels map, the auto-restarter) is modelled from the calls made here. *)
(***************************************************************************)
EXTENDS Integers, FiniteSets

CONSTANTS
    Requests,           \* POST requests that start a kernel
    Ids,                \* kernel ids (a client may supply KERNEL_ID)
    Users,              \* KERNEL_USERNAME values
    Ops,                \* slots for concurrent restart / shutdown coroutines
    MaxKernels,         \* max_kernels, or NoLimit for None
    MaxKernelsPerUser,  \* max_kernels_per_user, or NoLimit for a negative value
    Mode,               \* "none", "standalone" or "replication" (persistence is on iff not "none")
    CanCrash,           \* whether the gateway process may be killed and started again
    MaxGen,             \* bound on the restarts of one kernel
    NoLimit, NoKM, NoSession, NoUser, NoId

ASSUME ConstantsAssumption ==
    /\ IsFiniteSet(Requests) /\ IsFiniteSet(Ids) /\ IsFiniteSet(Users)
    /\ MaxKernels \in Nat \cup {NoLimit} /\ NoLimit \notin Nat
    /\ MaxKernelsPerUser \in Nat \cup {NoLimit}
    /\ Mode \in {"none", "standalone", "replication"}
    /\ CanCrash \in BOOLEAN /\ MaxGen \in Nat
    /\ NoKM \notin Requests /\ NoUser \notin Users /\ NoId \notin Ids
    /\ NoSession \notin [user : Users, km : Requests, gen : 0..MaxGen]

VARIABLES
    start,          \* start[r]: where POST r stands, its user and its kernel id
    kernels,        \* _kernels: kernel id -> instance serving it
    alive,          \* instances whose remote process runs
    gen,            \* which incarnation of its process an instance has (bumped by a restart)
    watched,        \* instances whose auto-restarter is active
    restarting,     \* instances whose `restarting` flag is set
    pendingAll,     \* TrackPendingRequests._pending_requests_all
    pendingUser,    \* TrackPendingRequests._pending_requests_user
    sessions,       \* KernelSessionManager._sessions
    sessionsByUser, \* KernelSessionManager._sessionsByUser
    store,          \* the persisted sessions (files, or the webhook's database)
    op,             \* restart and shutdown coroutines
    up              \* the gateway process runs

procVars == <<alive, gen, watched, restarting>>
pendVars == <<pendingAll, pendingUser>>
sessVars == <<sessions, sessionsByUser, store>>
vars == <<start, kernels, procVars, pendVars, sessVars, op, up>>

Session == [user : Users, km : Requests, gen : 0..MaxGen]
Persistent == Mode # "none"

\* "launching": super().start_kernel awaits the process; "added": the new manager
\* is in _kernels but the coroutine of the request has not resumed yet
StartPC == {"idle", "launching", "added", "done", "failed", "lost"}
InFlight(pc) == pc \in {"launching", "added"}
Idle == [kind |-> "none", pc |-> "idle", id |-> NoId, km |-> NoKM]
OpRecord == {Idle} \cup
    [kind : {"restart", "shutdown", "auto"},
     pc   : {"waiting", "stopping", "relaunching", "replying"},
     id   : Ids, km : Requests]

Active == {k \in Ids : kernels[k] # NoKM}

TypeOK ==
    /\ start \in [Requests -> [pc : StartPC, user : Users \cup {NoUser}, id : Ids \cup {NoId}]]
    /\ kernels \in [Ids -> Requests \cup {NoKM}]
    /\ alive \subseteq Requests /\ watched \subseteq Requests /\ restarting \subseteq Requests
    /\ gen \in [Requests -> 0..MaxGen]
    /\ pendingAll \in Nat /\ pendingUser \in [Users -> Nat]
    /\ sessions \in [Ids -> Session \cup {NoSession}]
    /\ sessionsByUser \in [Users -> SUBSET Ids]
    /\ store \in [Ids -> Session \cup {NoSession}]
    /\ op \in [Ops -> OpRecord]
    /\ up \in BOOLEAN

Init ==
    /\ start = [r \in Requests |-> [pc |-> "idle", user |-> NoUser, id |-> NoId]]
    /\ kernels = [k \in Ids |-> NoKM]
    /\ alive = {} /\ watched = {} /\ restarting = {}
    /\ gen = [r \in Requests |-> 0]
    /\ pendingAll = 0 /\ pendingUser = [u \in Users |-> 0]
    /\ sessions = [k \in Ids |-> NoSession]
    /\ sessionsByUser = [u \in Users |-> {}]
    /\ store = [k \in Ids |-> NoSession]
    /\ op = [o \in Ops |-> Idle]
    /\ up = TRUE

-----------------------------------------------------------------------------
(* KernelSessionManager *)

\* mutant: a session already persisted is not written again (no refresh)
SaveSessionOnce(k, s) ==
    /\ sessions' = [sessions EXCEPT ![k] = s]
    /\ sessionsByUser' = [sessionsByUser EXCEPT ![s.user] = @ \cup {k}]
    /\ store' = IF Persistent /\ store[k] = NoSession THEN [store EXCEPT ![k] = s] ELSE store

\* _save_session: the dictionary, the per-user list (append if absent), the store
SaveSession(k, s) ==
    /\ sessions' = [sessions EXCEPT ![k] = s]
    /\ sessionsByUser' = [sessionsByUser EXCEPT ![s.user] = @ \cup {k}]
    /\ store' = IF Persistent THEN [store EXCEPT ![k] = s] ELSE store

\* delete_session -> _delete_sessions([k])
DeleteSession(k) ==
    /\ sessions' = [sessions EXCEPT ![k] = NoSession]
    /\ sessionsByUser' =
         IF sessions[k] = NoSession THEN sessionsByUser
         ELSE [sessionsByUser EXCEPT ![sessions[k].user] = @ \ {k}]
    /\ store' = IF Persistent THEN [store EXCEPT ![k] = NoSession] ELSE store

ActiveSessions(u) == Cardinality(sessionsByUser[u])

-----------------------------------------------------------------------------
(* Starting a kernel *)

\* TrackPendingRequests.increment / decrement
Increment(u) ==
    /\ pendingAll' = pendingAll + 1
    /\ pendingUser' = [pendingUser EXCEPT ![u] = @ + 1]

\* mutant: decremented in the error path and again in the finally clause
DecrementTwice(u) ==
    /\ pendingAll' = pendingAll - 2
    /\ pendingUser' = [pendingUser EXCEPT ![u] = @ - 2]

Decrement(u) ==
    /\ pendingAll' = pendingAll - 1
    /\ pendingUser' = [pendingUser EXCEPT ![u] = @ - 1]

\* mutant: launches in progress are not counted against max_kernels
WithinLimitsNoPending(u) ==
    /\ MaxKernels # NoLimit => Cardinality(Active) < MaxKernels
    /\ MaxKernelsPerUser # NoLimit => ActiveSessions(u) + pendingUser[u] < MaxKernelsPerUser

\* mutant: launches in progress are not counted against the user's limit
WithinLimitsNoPendingUser(u) ==
    /\ MaxKernels # NoLimit => Cardinality(Active) + pendingAll < MaxKernels
    /\ MaxKernelsPerUser # NoLimit => ActiveSessions(u) < MaxKernelsPerUser

\* _enforce_kernel_limits does not raise
WithinLimits(u) ==
    /\ MaxKernels # NoLimit => Cardinality(Active) + pendingAll < MaxKernels
    /\ MaxKernelsPerUser # NoLimit => ActiveSessions(u) + pendingUser[u] < MaxKernelsPerUser

\* start_kernel up to its await: limits, increment, then jupyter_client's check
\* that the id is not in _kernels (ids of launches in progress are not looked at)
StartKernel(r, u, k) ==
    /\ up /\ start[r].pc = "idle"
    /\ WithinLimits(u)
    /\ kernels[k] = NoKM
    /\ start' = [start EXCEPT ![r] = [pc |-> "launching", user |-> u, id |-> k]]
    /\ Increment(u)
    /\ UNCHANGED <<kernels, procVars, sessVars, op, up>>

\* 403 from _enforce_kernel_limits, or the increment and decrement around the
\* duplicate-id error: nothing else changes
StartRejected(r, u, k) ==
    /\ up /\ start[r].pc = "idle"
    /\ ~WithinLimits(u) \/ kernels[k] # NoKM
    /\ start' = [start EXCEPT ![r] = [pc |-> "failed", user |-> u, id |-> k]]
    /\ UNCHANGED <<kernels, procVars, pendVars, sessVars, op, up>>

\* the launch task ends: the process runs, its restarter is started and the
\* manager enters _kernels (over an instance with the same id, if there is one)
Launched(r) ==
    /\ up /\ start[r].pc = "launching"
    /\ start' = [start EXCEPT ![r].pc = "added"]
    /\ kernels' = [kernels EXCEPT ![start[r].id] = r]
    /\ alive' = alive \cup {r}
    /\ watched' = watched \cup {r}
    /\ UNCHANGED <<gen, restarting, pendVars, sessVars, op, up>>

\* mutant: the decrement is not in a finally clause
LaunchFailedNoDecrement(r) ==
    /\ up /\ start[r].pc = "launching"
    /\ start' = [start EXCEPT ![r].pc = "failed"]
    /\ UNCHANGED <<kernels, procVars, pendVars, sessVars, op, up>>

\* the launch task raises (timeout, 403, 500): the finally clause decrements
LaunchFailed(r) ==
    /\ up /\ start[r].pc = "launching"
    /\ start' = [start EXCEPT ![r].pc = "failed"]
    /\ Decrement(start[r].user)
    /\ UNCHANGED <<kernels, procVars, sessVars, op, up>>

\* start_kernel resumes: decrement, then create_session with the manager now
\* found under the id; when a shutdown has removed it, get_kernel raises
StartReturns(r) ==
    LET k == start[r].id
        u == start[r].user
    IN  /\ up /\ start[r].pc = "added"
        /\ Decrement(u)
        /\ IF kernels[k] # NoKM
           THEN /\ start' = [start EXCEPT ![r].pc = "done"]
                /\ SaveSession(k, [user |-> u, km |-> kernels[k], gen |-> gen[kernels[k]]])
           ELSE /\ start' = [start EXCEPT ![r].pc = "failed"]
                /\ UNCHANGED sessVars
        /\ UNCHANGED <<kernels, procVars, op, up>>

-----------------------------------------------------------------------------
(* Shutting a kernel down *)

\* mutant: the session is left behind
RemoveKernelKeepSession(k) ==
    /\ kernels' = [kernels EXCEPT ![k] = NoKM]
    /\ UNCHANGED sessVars

\* RemoteMappingKernelManager.remove_kernel
RemoveKernel(k) ==
    /\ kernels' = [kernels EXCEPT ![k] = NoKM]
    /\ DeleteSession(k)

\* the manager behind the id stops its restarter and asks its process to exit
BeginStopping(o, k) ==
    /\ op' = [op EXCEPT ![o] = [kind |-> "shutdown", pc |-> "stopping",
                                 id |-> k, km |-> kernels[k]]]
    /\ watched' = watched \ {kernels[k]}

Wait(o, kind, k) ==
    /\ op' = [op EXCEPT ![o] = [kind |-> kind, pc |-> "waiting", id |-> k, km |-> kernels[k]]]
    /\ UNCHANGED watched

\* shutdown_kernel: a kernel that is restarting is waited for first
ShutdownKernel(o, k) ==
    /\ up /\ op[o] = Idle /\ kernels[k] # NoKM
    /\ IF kernels[k] \in restarting THEN Wait(o, "shutdown", k) ELSE BeginStopping(o, k)
    /\ UNCHANGED <<start, kernels, alive, gen, restarting, pendVars, sessVars, up>>

\* the process has exited; jupyter_client calls remove_kernel with the id
ShutdownFinished(o) ==
    /\ up /\ op[o].kind = "shutdown" /\ op[o].pc = "stopping"
    /\ alive' = alive \ {op[o].km}
    /\ RemoveKernel(op[o].id)
    /\ op' = [op EXCEPT ![o] = Idle]
    /\ UNCHANGED <<start, gen, watched, restarting, pendVars, up>>

-----------------------------------------------------------------------------
(* Restarting a kernel *)

\* restart_kernel: a duplicate request only waits; otherwise the flag is set and
\* the process is stopped
RestartKernel(o, k) ==
    /\ up /\ op[o] = Idle /\ kernels[k] # NoKM
    /\ gen[kernels[k]] < MaxGen
    /\ IF kernels[k] \in restarting
       THEN Wait(o, "restart", k) /\ UNCHANGED restarting
       ELSE /\ restarting' = restarting \cup {kernels[k]}
            /\ watched' = watched \ {kernels[k]}
            /\ op' = [op EXCEPT ![o] = [kind |-> "restart", pc |-> "stopping",
                                         id |-> k, km |-> kernels[k]]]
    /\ UNCHANGED <<start, kernels, alive, gen, pendVars, sessVars, up>>

\* wait_for_restart_finish returns: a restart request is dropped as a duplicate, a
\* shutdown goes on with whatever manager the id maps to now (404 when none)
WaitReturns(o) ==
    LET k == op[o].id
    IN  IF op[o].kind = "shutdown" /\ kernels[k] # NoKM
        THEN BeginStopping(o, k)
        ELSE op' = [op EXCEPT ![o] = Idle] /\ UNCHANGED watched

\* the polling loop of wait_for_restart_finish sees the flag cleared
WaitEnds(o) ==
    /\ up /\ op[o].pc = "waiting" /\ op[o].km \notin restarting
    /\ WaitReturns(o)
    /\ UNCHANGED <<start, kernels, alive, gen, restarting, pendVars, sessVars, up>>

\* mutant: the polling loop has no deadline
WaitTimesOutNever(o) == up /\ op[o].pc = "gone" /\ UNCHANGED vars

\* ... or kernel_launch_timeout passes first
WaitTimesOut(o) ==
    /\ up /\ op[o].pc = "waiting" /\ op[o].km \in restarting
    /\ WaitReturns(o)
    /\ UNCHANGED <<start, kernels, alive, gen, restarting, pendVars, sessVars, up>>

\* restart_kernel's shutdown of the old process is over, the new launch begins
RestartStopped(o) ==
    /\ up /\ op[o].kind \in {"restart", "auto"} /\ op[o].pc = "stopping"
    /\ alive' = alive \ {op[o].km}
    /\ op' = [op EXCEPT ![o].pc = "relaunching"]
    /\ UNCHANGED <<start, kernels, gen, watched, restarting, pendVars, sessVars, up>>

\* refresh_session raises when _kernels or _sessions has no entry for the id
Refreshable(k) == kernels[k] # NoKM /\ sessions[k] # NoSession

\* the new process is up: restarter on, session refreshed.  A client's restart then
\* waits for the kernel_info reply; an automatic one clears the flag, but only if
\* nothing has raised
Relaunched(o) ==
    LET r == op[o].km
        k == op[o].id
        newGen == [gen EXCEPT ![r] = @ + 1]
    IN  /\ up /\ op[o].pc = "relaunching" /\ gen[r] < MaxGen
        /\ alive' = alive \cup {r}
        /\ gen' = newGen
        /\ watched' = watched \cup {r}
        /\ IF Refreshable(k)
           THEN /\ SaveSession(k, [sessions[k] EXCEPT !.km = kernels[k],
                                                      !.gen = newGen[kernels[k]]])
                /\ IF op[o].kind = "auto"
                   THEN /\ restarting' = restarting \ {r}
                        /\ op' = [op EXCEPT ![o] = Idle]
                   ELSE /\ op' = [op EXCEPT ![o].pc = "replying"]
                        /\ UNCHANGED restarting
           ELSE /\ restarting' = IF op[o].kind = "auto" THEN restarting ELSE restarting \ {r}
                /\ op' = [op EXCEPT ![o] = Idle]
                /\ UNCHANGED sessVars
        /\ UNCHANGED <<start, kernels, pendVars, up>>

\* the relaunch raises: the client's restart clears the flag in its finally clause,
\* the automatic one leaves it set
RelaunchFailed(o) ==
    /\ up /\ op[o].pc = "relaunching"
    /\ restarting' = IF op[o].kind = "auto" THEN restarting ELSE restarting \ {op[o].km}
    /\ op' = [op EXCEPT ![o] = Idle]
    /\ UNCHANGED <<start, kernels, alive, gen, watched, pendVars, sessVars, up>>

\* the kernel_info reply or its timeout: restart_kernel's finally clause
RestartReturns(o) ==
    /\ up /\ op[o].pc = "replying"
    /\ restarting' = restarting \ {op[o].km}
    /\ op' = [op EXCEPT ![o] = Idle]
    /\ UNCHANGED <<start, kernels, alive, gen, watched, pendVars, sessVars, up>>

-----------------------------------------------------------------------------
(* The auto-restarter: jupyter_client polls the process of a watched manager *)

\* the poll finds the process dead.  The first poll comes seconds after the launch,
\* when the coroutine of the start request has long resumed
FoundDead(r) == up /\ r \in watched \ alive /\ start[r].pc # "added"

\* clients are connected: RemoteKernelManager.restart_kernel(now=True)
AutoRestart(o, r) ==
    /\ FoundDead(r) /\ op[o] = Idle
    /\ gen[r] < MaxGen
    /\ restarting' = restarting \cup {r}
    /\ watched' = watched \ {r}
    /\ op' = [op EXCEPT ![o] = [kind |-> "auto", pc |-> "stopping",
                                 id |-> start[r].id, km |-> r]]
    /\ UNCHANGED <<start, kernels, alive, gen, pendVars, sessVars, up>>

\* no client is connected: the mapping manager shuts the id down instead
AutoShutdown(o, r) ==
    /\ FoundDead(r)
    /\ ShutdownKernel(o, start[r].id)

\* restart_limit reached: the "dead" callback removes the id
AutoDead(r) ==
    /\ FoundDead(r)
    /\ watched' = watched \ {r}
    /\ RemoveKernel(start[r].id)
    /\ UNCHANGED <<start, alive, gen, restarting, pendVars, op, up>>

-----------------------------------------------------------------------------
(* Requests for an id, the environment, and gateway restarts *)

\* mutant: the process is taken for the one the session describes, whichever it is
PollAnyIncarnation(s) == s.km \in alive

\* process_proxy.poll() of a manager rebuilt from a persisted session: it looks for the
\* process that the session describes
Poll(s) == s.km \in alive /\ gen[s.km] = s.gen

\* start_kernel_from_session: the rebuilt manager enters _kernels unless poll() is False
Revivable(s) == s # NoSession /\ Poll(s)

\* check_kernel_id of a GET, DELETE or websocket request for an id not in _kernels:
\* replication mode loads the session and starts it; otherwise, or when the process
\* is gone, the session is deleted (404)
CheckKernelId(k) ==
    LET s == IF store[k] # NoSession THEN store[k] ELSE sessions[k]
    IN  /\ up /\ kernels[k] = NoKM
        /\ IF Mode = "replication" /\ Revivable(s)
           THEN /\ sessions' = [sessions EXCEPT ![k] = s]
                /\ kernels' = [kernels EXCEPT ![k] = s.km]
                /\ watched' = watched \cup {s.km}
                /\ restarting' = restarting \ {s.km}
                /\ UNCHANGED <<sessionsByUser, store>>
           ELSE /\ DeleteSession(k)
                /\ UNCHANGED <<kernels, watched, restarting>>
        /\ UNCHANGED <<start, alive, gen, pendVars, op, up>>

\* a remote process dies on its own
ProcessDies(r) ==
    /\ r \in alive
    /\ alive' = alive \ {r}
    /\ UNCHANGED <<start, kernels, gen, watched, restarting, pendVars, sessVars, op, up>>

\* instances whose restart has stopped the old process and awaits the new one
Relaunching == {op[o].km : o \in {o \in Ops : op[o].pc = "relaunching" /\ gen[op[o].km] < MaxGen}}

\* the gateway is killed: its memory goes, remote processes and the store stay.  A relaunch
\* under way may have started its process: the persisted session is not refreshed any more
\* and describes the one before
Crash(started) ==
    /\ CanCrash /\ up
    /\ alive' = alive \cup started
    /\ gen' = [r \in Requests |-> IF r \in started THEN gen[r] + 1 ELSE gen[r]]
    /\ up' = FALSE
    /\ start' = [r \in Requests |->
                   IF InFlight(start[r].pc) THEN [start[r] EXCEPT !.pc = "lost"] ELSE start[r]]
    /\ kernels' = [k \in Ids |-> NoKM]
    /\ watched' = {} /\ restarting' = {}
    /\ pendingAll' = 0 /\ pendingUser' = [u \in Users |-> 0]
    /\ sessions' = [k \in Ids |-> NoSession]
    /\ sessionsByUser' = [u \in Users |-> {}]
    /\ op' = [o \in Ops |-> Idle]
    /\ UNCHANGED store

\* init_configurables of a new gateway: start_sessions in standalone mode loads every
\* persisted session, starts those that poll and deletes the others
Boot ==
    LET revived == {k \in Ids : Mode = "standalone" /\ Revivable(store[k])}
        kept == [k \in Ids |-> IF k \in revived THEN store[k] ELSE NoSession]
    IN  /\ ~up /\ up' = TRUE
        /\ sessions' = kept
        /\ store' = IF Mode = "standalone" THEN kept ELSE store
        /\ kernels' = [k \in Ids |-> IF k \in revived THEN store[k].km ELSE NoKM]
        /\ watched' = {store[k].km : k \in revived}
        /\ UNCHANGED <<start, alive, gen, restarting, pendVars, sessionsByUser, op>>

-----------------------------------------------------------------------------
Next ==
    \/ \E r \in Requests, u \in Users, k \in Ids : StartKernel(r, u, k) \/ StartRejected(r, u, k)
    \/ \E r \in Requests : Launched(r) \/ LaunchFailed(r) \/ StartReturns(r) \/ AutoDead(r)
                           \/ ProcessDies(r)
    \/ \E o \in Ops, k \in Ids : ShutdownKernel(o, k) \/ RestartKernel(o, k)
    \/ \E o \in Ops : ShutdownFinished(o) \/ WaitEnds(o) \/ WaitTimesOut(o) \/ RestartStopped(o)
                      \/ Relaunched(o) \/ RelaunchFailed(o) \/ RestartReturns(o)
    \/ \E o \in Ops, r \in Requests : AutoRestart(o, r) \/ AutoShutdown(o, r)
    \/ \E k \in Ids : CheckKernelId(k)
    \/ \E started \in SUBSET Relaunching : Crash(started)
    \/ Boot

Spec == Init /\ [][Next]_vars

\* Every await of a restart or a shutdown is bounded: launch_process by
\* kernel_launch_timeout, the exit of a process by kill(), the kernel_info reply and
\* the polling loop by their timeouts.  Each coroutine therefore keeps moving.
Fairness ==
    \A o \in Ops :
        /\ WF_vars(ShutdownFinished(o))
        /\ WF_vars(RestartStopped(o))
        /\ WF_vars(Relaunched(o) \/ RelaunchFailed(o))
        /\ WF_vars(RestartReturns(o))
        /\ WF_vars(WaitEnds(o) \/ WaitTimesOut(o))

FairSpec == Spec /\ Fairness

-----------------------------------------------------------------------------
(* Properties *)

InFlightAll == {r \in Requests : InFlight(start[r].pc)}
InFlightOf(u) == {r \in InFlightAll : start[r].user = u}

\* The pending counters equal the start requests that have passed the limit check and
\* not yet returned, in total and per user, whatever mix of successes, launch failures
\* and shutdowns during a launch has happened (increment / decrement in start_kernel).
PendingExact ==
    /\ pendingAll = Cardinality(InFlightAll)
    /\ \A u \in Users : pendingUser[u] = Cardinality(InFlightOf(u))

\* _enforce_kernel_limits: however start requests overlap, and across a standalone
\* gateway restart, the gateway never manages more than max_kernels kernels.
MaxKernelsRespected == MaxKernels # NoLimit => Cardinality(Active) <= MaxKernels

KernelsOf(u) == {k \in Active : start[kernels[k]].user = u}

\* _enforce_kernel_limits: no user ever has more than max_kernels_per_user managed
\* kernels, even when requests reuse a kernel id that is being launched or shut down.
MaxKernelsPerUserRespected ==
    MaxKernelsPerUser # NoLimit => \A u \in Users : Cardinality(KernelsOf(u)) <= MaxKernelsPerUser

\* A session never outlives its kernel, and what is persisted is what is in memory:
\* create_session, refresh_session and delete_session keep the three in step.
SessionsBacked ==
    /\ \A k \in Ids : sessions[k] # NoSession => kernels[k] # NoKM
    /\ up /\ Persistent => \A k \in Ids : sessions[k] # NoSession => store[k] = sessions[k]

\* Once its POST has returned, a managed kernel's persisted session describes the
\* instance and the incarnation of the process that serve it now, also after restarts:
\* a gateway killed at this moment can find the process again.
PersistedSessionCurrent ==
    Persistent => \A k \in Active :
        \/ start[kernels[k]].pc = "added"
        \/ /\ store[k] # NoSession
           /\ store[k].km = kernels[k] /\ store[k].gen = gen[kernels[k]]

\* A restart or shutdown request always returns: the wait for another restart is cut
\* by kernel_launch_timeout even when the `restarting` flag is never cleared.
OperationsReturn == \A o \in Ops : (up /\ op[o] # Idle) ~> (op[o] = Idle)
=============================================================================
