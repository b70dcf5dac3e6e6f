------------------------- MODULE RemoteProcessProxy -------------------------
(***************************************************************************)
(* How a remote kernel is launched (services/processproxies/processproxy). *)
(*                                                                         *)
(* Every launch creates a RemoteProcessProxy, which registers its kernel   *)
(* id with the ResponseManager, starts a launcher somewhere and then polls *)
(* until the launcher has sent the connection information back over the    *)
(* one response socket all launches share, or until the launch times out.  *)
(*                                                                         *)
(* An attempt is one proxy object and the launcher it starts.  Attempts    *)
(* with the same kernel id occur: a restart, a retry after a failure, and  *)
(* two requests that name the same KERNEL_ID at the same time.             *)
(* The module has the state and the steps; the proxy classes compose them. *)
(***************************************************************************)
EXTENDS Naturals, Sequences, FiniteSets

CONSTANTS
    Attempts, Ids,
    MaxTries,      \* rounds of get_connection_info within kernel_launch_timeout
    None           \* no attempt, no id, no response yet

ASSUME LaunchAssumption ==
    /\ IsFiniteSet(Attempts) /\ IsFiniteSet(Ids)
    /\ MaxTries \in Nat \ {0}
    /\ None \notin Attempts \cup Ids

VARIABLES
    pc,        \* pc[a]: where the coroutine of a is
    kid,       \* kid[a]: its kernel_id
    tries,     \* tries[a]: rounds of confirm_remote_startup made
    registry,  \* _response_registry: the attempt whose Response object is under the id
    response,  \* response[a]: sender of the info set in the Response object of a
    waitOn,    \* waitOn[a]: the Response object whose event a awaits
    info,      \* info[a]: sender of the connection info a's kernel manager loaded
    proc,      \* proc[a]: the process that a started
    backlog,   \* connections made to the response socket, not processed yet
    hung       \* _process_connections is stuck in a connection that never closes

managerVars == <<registry, response, backlog, hung>>
launchVars == <<pc, kid, tries, registry, response, waitOn, info, proc, backlog, hung>>

\* "sleep": in handle_timeout; "wait": in get_connection_info; "killing":
\* handle_timeout runs kill() in a thread
PC == {"new", "sleep", "wait", "killing", "ready", "failed", "stopped"}
InProgress(a) == pc[a] \in {"sleep", "wait", "killing"}

LaunchTypeOK ==
    /\ pc \in [Attempts -> PC]
    /\ kid \in [Attempts -> Ids \cup {None}]
    /\ tries \in [Attempts -> 0..MaxTries]
    /\ registry \in [Ids -> Attempts \cup {None}]
    /\ response \in [Attempts -> Attempts \cup {None}]
    /\ waitOn \in [Attempts -> Attempts \cup {None}]
    /\ info \in [Attempts -> Attempts \cup {None}]
    /\ proc \in [Attempts -> {"none", "starting", "running", "dead"}]
    /\ backlog \in Seq([from : Attempts, ok : BOOLEAN])
    /\ hung \in BOOLEAN

LaunchInit ==
    /\ pc = [a \in Attempts |-> "new"]
    /\ kid = [a \in Attempts |-> None]
    /\ tries = [a \in Attempts |-> 0]
    /\ registry = [k \in Ids |-> None]
    /\ response = [a \in Attempts |-> None]
    /\ waitOn = [a \in Attempts |-> None]
    /\ info = [a \in Attempts |-> None]
    /\ proc = [a \in Attempts |-> "none"]
    /\ backlog = <<>>
    /\ hung = FALSE

-----------------------------------------------------------------------------
(* ResponseManager *)

\* register_event: a new Response object, over the one that is there
RegisterEvent(a, k) == registry' = [registry EXCEPT ![k] = a]

\* mutant: the entry is read and left there
TakeEntryLeft(k) == UNCHANGED registry

\* get_connection_info takes the entry out of the registry
TakeEntry(k) == registry' = [registry EXCEPT ![k] = None]

\* _process_connections: accept the next connection, read to its end, decode, post.
\* A payload that cannot be decoded or names no registered id is only logged.
ProcessConnection ==
    /\ backlog # <<>> /\ ~hung
    /\ LET m == Head(backlog)
           entry == registry[kid[m.from]]
       IN  response' = IF m.ok /\ entry # None
                       THEN [response EXCEPT ![entry] = m.from] ELSE response
    /\ backlog' = Tail(backlog)
    /\ UNCHANGED <<pc, kid, tries, registry, waitOn, info, proc, hung>>

\* the peer of the next connection is gone without closing it: sock_recv has no
\* timeout and the periodic callback does not overlap itself
Hang ==
    /\ backlog # <<>> /\ ~hung
    /\ hung' = TRUE
    /\ UNCHANGED <<pc, kid, tries, registry, response, waitOn, info, proc, backlog>>

-----------------------------------------------------------------------------
(* The launcher *)

\* it sends its connection information, once; the payload may be one that
\* _decode_payload or _post_connection refuses
Respond(a, ok) ==
    /\ proc[a] = "starting"
    /\ proc' = [proc EXCEPT ![a] = "running"]
    /\ backlog' = Append(backlog, [from |-> a, ok |-> ok])
    /\ UNCHANGED <<pc, kid, tries, registry, response, waitOn, info, hung>>

\* it dies, or the kernel does
ProcessExits(a) ==
    /\ proc[a] \in {"starting", "running"}
    /\ proc' = [proc EXCEPT ![a] = "dead"]
    /\ UNCHANGED <<pc, kid, tries, registry, response, waitOn, info, backlog, hung>>

-----------------------------------------------------------------------------
(* RemoteProcessProxy *)

\* jupyter_client refuses an id that is in _kernels; ids of launches in progress
\* are not looked at
Startable(a, k) == pc[a] = "new" /\ \A b \in Attempts : kid[b] = k => pc[b] # "ready"

\* __init__ and launch_process up to the await in confirm_remote_startup; a proxy may have
\* used up part of the time already
BeginLaunch(a, k, waited) ==
    /\ Startable(a, k)
    /\ RegisterEvent(a, k)
    /\ kid' = [kid EXCEPT ![a] = k]
    /\ pc' = [pc EXCEPT ![a] = "sleep"]
    /\ proc' = [proc EXCEPT ![a] = "starting"]
    /\ tries' = [tries EXCEPT ![a] = waited]
    /\ UNCHANGED <<response, waitOn, info, backlog, hung>>

\* launch_process raises: 403 from _enforce_authorization, or 500 from the start of
\* the process, which may be running all the same (rsh times out); nothing is killed
\* and the id stays registered
BeginFails(a, k, left) ==
    /\ Startable(a, k)
    /\ RegisterEvent(a, k)
    /\ kid' = [kid EXCEPT ![a] = k]
    /\ pc' = [pc EXCEPT ![a] = "failed"]
    /\ proc' = [proc EXCEPT ![a] = left]
    /\ UNCHANGED <<tries, response, waitOn, info, backlog, hung>>

\* the processes that end when the proxy's kill(), or a shutdown, reaches those in hit
EndProcesses(hit) == proc' = [b \in Attempts |-> IF b \in hit THEN "dead" ELSE proc[b]]

\* receive_connection_info's handler for any exception but a timeout: kill(), 500.  Which
\* processes kill() ends depends on the proxy class
Abort(a, hit) ==
    /\ pc' = [pc EXCEPT ![a] = "failed"]
    /\ EndProcesses(hit)
    /\ waitOn' = [waitOn EXCEPT ![a] = None]
    /\ UNCHANGED info

\* handle_timeout returns and get_connection_info looks its id up: KeyError when
\* another attempt with the id has popped the entry
StartWaiting(a, hit) ==
    /\ pc[a] = "sleep" /\ tries[a] < MaxTries
    /\ IF registry[kid[a]] = None
       THEN Abort(a, hit) /\ UNCHANGED tries
       ELSE /\ pc' = [pc EXCEPT ![a] = "wait"]
            /\ waitOn' = [waitOn EXCEPT ![a] = registry[kid[a]]]
            /\ tries' = [tries EXCEPT ![a] = @ + 1]
            /\ UNCHANGED <<info, proc>>
    /\ UNCHANGED <<kid, managerVars>>

\* the event is set: pop whatever is under the id now and load its info.  Another
\* attempt may have popped it (KeyError) or put a fresh object there (info is None);
\* opening the tunnels may fail (ok = FALSE)
WakeUp(a, ok, hit) ==
    LET entry == registry[kid[a]]
    IN  /\ pc[a] = "wait" /\ response[waitOn[a]] # None
        /\ TakeEntry(kid[a])
        /\ IF entry # None /\ response[entry] # None /\ ok
           THEN /\ pc' = [pc EXCEPT ![a] = "ready"]
                /\ info' = [info EXCEPT ![a] = response[entry]]
                /\ waitOn' = [waitOn EXCEPT ![a] = None]
                /\ UNCHANGED proc
           ELSE Abort(a, hit)
        /\ UNCHANGED <<kid, tries, response, backlog, hung>>

\* connection_interval passes, which may also happen in the same tick the event is
\* set; the next round is tried
WaitTimesOut(a) ==
    /\ pc[a] = "wait"
    /\ pc' = [pc EXCEPT ![a] = "sleep"]
    /\ waitOn' = [waitOn EXCEPT ![a] = None]
    /\ UNCHANGED <<kid, tries, info, proc, managerVars>>

\* mutant: the time already waited is never compared with kernel_launch_timeout
HandleTimeoutNever(a) == pc[a] = "unreachable" /\ UNCHANGED launchVars

\* handle_timeout finds kernel_launch_timeout exceeded and starts kill() in a thread
HandleTimeout(a) ==
    /\ pc[a] = "sleep"
    /\ pc' = [pc EXCEPT ![a] = "killing"]
    /\ UNCHANGED <<kid, tries, waitOn, info, proc, managerVars>>

\* kill() returns; handle_timeout raises 500
KillReturns(a, hit) ==
    /\ pc[a] = "killing"
    /\ pc' = [pc EXCEPT ![a] = "failed"]
    /\ EndProcesses(hit)
    /\ UNCHANGED <<kid, tries, waitOn, info, managerVars>>

\* the kernel is shut down or stopped for a restart, then cleanup().  The shutdown message
\* and the signals go to the process whose connection info and pid were received
StopKernel(a, hit) ==
    /\ pc[a] = "ready"
    /\ pc' = [pc EXCEPT ![a] = "stopped"]
    /\ EndProcesses(hit)
    /\ UNCHANGED <<kid, tries, waitOn, info, managerVars>>

\* steps that no proxy class adds anything to
CommonStep ==
    \/ ProcessConnection \/ Hang
    \/ \E a \in Attempts : WaitTimesOut(a)

-----------------------------------------------------------------------------
\* Two kernels never talk to one and the same process: a response is handed to one
\* launch only, also when several launches wait under one id
\* (get_connection_info's pop).
NoSharedKernel ==
    \A a, b \in Attempts : a # b /\ info[a] # None => info[a] # info[b]

\* what a launch promises the kernel manager (KernelLaunch)
Contract == INSTANCE KernelLaunch WITH
    status <- [a \in Attempts |-> CASE pc[a] = "new" -> "idle"
                                   [] InProgress(a) -> "launching"
                                   [] OTHER -> pc[a]],
    id <- kid,
    conn <- info

\* Every step of a launch is a step that KernelLaunch allows: connection info goes to one
\* launch, under the id it was registered for, and failed or stopped kernels stay so.
LaunchContract == Contract!Spec

\* A launch ends, one way or the other, whatever becomes of its launcher, of the
\* response socket and of other launches (handle_timeout in the polling loop).
LaunchEnds == \A a \in Attempts : InProgress(a) ~> ~InProgress(a)
=============================================================================
