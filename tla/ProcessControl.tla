---------------------------- MODULE ProcessControl ----------------------------
(* How the gateway controls a kernel process on another host.               *)
(*                                                                            *)
(* The launcher (launch_ipykernel.py) starts two processes in one process     *)
(* group: the kernel, and a listener that accepts one connection at a time    *)
(* on the communication port and carries out the request it reads: a signal   *)
(* for the kernel (0 is a poll) or "shutdown".  The kernel process cannot     *)
(* exit before its listener does (multiprocessing joins its children).        *)
(* DistributedProcessProxy sends the requests and does not wait for them to   *)
(* be carried out: a poll answers "alive" as soon as its request is in the    *)
(* backlog of the listening socket, "dead" when the connection is refused,    *)
(* and falls back to `kill` over ssh when the connection times out.           *)
(* Around it run the shutdown and restart sequences of the kernel manager     *)
(* (jupyter_client's, with the hooks of remotemanager.py), a crash of the     *)
(* gateway and the revival of the kernel from its persisted session.          *)
(* One kernel id is modelled; every (re)launch of it is a new process group.  *)
EXTENDS Naturals, Sequences, FiniteSets

CONSTANTS
    Procs,      \* the process groups that launches can start
    MaxFaults,  \* bound on gateway crashes and failing ssh commands
    None

\* listen(1) lets two connections wait to be accepted
Backlog == 2

ASSUME ControlAssumption == MaxFaults \in Nat /\ None \notin Procs

POLL == "poll"      \* signal 0
SIGINT == "int"
SIGKILL == "kill"
SIGTERM == "term"
Signals == {POLL, SIGINT, SIGKILL, SIGTERM}

(* What a connection delivers: a signal request, "shutdown", nothing at all   *)
(* ("empty"), or nothing while it stays open ("open").                        *)
Contents == Signals \cup {"shutdown", "empty", "open"}

VARIABLES
    kernel,     \* [Procs -> ...] the kernel process
    listener,   \* [Procs -> ...] the listener process
    queue,      \* [Procs -> Seq(Contents)] connections not yet accepted
    why,        \* [Procs -> ...] the first mishap that can leave processes behind
    pc,         \* what the gateway is doing about the kernel
    op,         \* the operation it does it for
    target,     \* the process group its process proxy refers to
    saved,      \* the process group its persisted session refers to
    faults

vars == <<kernel, listener, queue, why, pc, op, target, saved, faults>>
host == <<kernel, listener, queue, why>>

(* "term", "shut": request_shutdown; "wait": finish_shutdown; "kill",         *)
(* "killwait": _kill_kernel; "reap": wait(); "cterm", "cshut": cleanup;       *)
(* "launch", "confirm", "save": start_kernel and the session written after    *)
(* it; "lterm", "lpoll", "lkill": kill() after a launch timed out.            *)
Steps == {"idle", "down", "term", "shut", "wait", "kill", "killwait", "reap", "cterm", "cshut",
          "launch", "confirm", "save", "lterm", "lpoll", "lkill"}

TypeOK ==
    /\ kernel \in [Procs -> {"none", "starting", "running", "joining", "gone"}]
    /\ listener \in [Procs -> {"none", "listening", "blocked", "ended"}]
    /\ queue \in [Procs -> Seq(Contents)]
    /\ \A p \in Procs : Len(queue[p]) <= Backlog
    /\ why \in [Procs -> {"none", "deaf", "ssh", "slow", "crash", "launch", "revive"}]
    /\ pc \in Steps
    /\ op \in {"none", "start", "stop", "restart", "auto"}
    /\ target \in Procs \cup {None}
    /\ saved \in Procs \cup {None}
    /\ faults \in 0 .. MaxFaults
    /\ target = None => pc \in {"idle", "down", "launch"}

Init ==
    /\ kernel = [p \in Procs |-> "none"]
    /\ listener = [p \in Procs |-> "none"]
    /\ queue = [p \in Procs |-> <<>>]
    /\ why = [p \in Procs |-> "none"]
    /\ pc = "idle"
    /\ op = "none"
    /\ target = None
    /\ saved = None
    /\ faults = 0

Blame(p, reason) == [why EXCEPT ![p] = IF @ = "none" THEN reason ELSE @]

-----------------------------------------------------------------------------
(* The launcher's host.                                                      *)

\* the listening socket is open: a connection is not refused
Reachable(p) == listener[p] \in {"listening", "blocked"}

\* the launcher writes the connection file, returns the connection information, forks the
\* listener (which alone keeps the socket: start_ipython empties its namespace) and goes on
\* to start IPython
LauncherStarts(p) ==
    /\ kernel[p] = "starting"
    /\ kernel' = [kernel EXCEPT ![p] = "running"]
    /\ listener' = [listener EXCEPT ![p] = "listening"]
    /\ UNCHANGED <<queue, why, pc, op, target, saved, faults>>

\* a missing parameter, a bad port range, or no free port in it after the retries
LauncherRefuses(p) ==
    /\ kernel[p] = "starting"
    /\ kernel' = [kernel EXCEPT ![p] = "gone"]
    /\ UNCHANGED <<listener, queue, why, pc, op, target, saved, faults>>

\* the IPython application returns: told to on its control channel, or by its user
KernelAppEnds(p) ==
    /\ kernel[p] = "running"
    /\ kernel' = [kernel EXCEPT ![p] = "joining"]
    /\ UNCHANGED <<listener, queue, why, pc, op, target, saved, faults>>

\* the kernel process is killed on its host, outside the gateway's control
KernelDies(p) ==
    /\ kernel[p] \in {"running", "joining"}
    /\ kernel' = [kernel EXCEPT ![p] = "gone"]
    /\ UNCHANGED <<listener, queue, why, pc, op, target, saved, faults>>

\* the interpreter's exit handler has joined the listener
KernelExits(p) ==
    /\ kernel[p] = "joining"
    /\ listener[p] = "ended"
    /\ kernel' = [kernel EXCEPT ![p] = "gone"]
    /\ UNCHANGED <<listener, queue, why, pc, op, target, saved, faults>>

\* one turn of server_listener: os.kill raises when the kernel is gone, and so does
\* json.loads on an empty connection; both end the listener and drop its backlog
ListenerEnds(p) ==
    /\ listener' = [listener EXCEPT ![p] = "ended"]
    /\ queue' = [queue EXCEPT ![p] = <<>>]

\* as if the error of os.kill were ignored
ServeSignalTolerant(p, signum) ==
    /\ kernel' = [kernel EXCEPT ![p] = IF signum \in {SIGTERM, SIGKILL} THEN "gone" ELSE @]
    /\ queue' = [queue EXCEPT ![p] = Tail(@)]
    /\ UNCHANGED <<listener, why>>

ServeSignal(p, signum) ==
    IF kernel[p] = "gone"
    THEN /\ ListenerEnds(p)
         /\ UNCHANGED <<kernel, why>>
    ELSE /\ kernel' = [kernel EXCEPT ![p] = IF signum \in {SIGTERM, SIGKILL} THEN "gone" ELSE @]
         /\ queue' = [queue EXCEPT ![p] = Tail(@)]
         /\ UNCHANGED <<listener, why>>

ServeEmpty(p) ==
    /\ ListenerEnds(p)
    /\ why' = IF kernel[p] = "gone" THEN why ELSE Blame(p, "deaf")
    /\ UNCHANGED kernel

\* the accepted socket has no timeout: a peer that never closes it blocks the listener
ServeOpen(p) ==
    /\ listener' = [listener EXCEPT ![p] = "blocked"]
    /\ queue' = [queue EXCEPT ![p] = Tail(@)]
    /\ UNCHANGED <<kernel, why>>

ServeRequest(p) ==
    /\ listener[p] = "listening"
    /\ queue[p] # <<>>
    /\ LET request == Head(queue[p])
       IN \/ request \in Signals /\ ServeSignal(p, request)
          \/ request = "shutdown" /\ ListenerEnds(p) /\ UNCHANGED <<kernel, why>>
          \/ request = "empty" /\ ServeEmpty(p)
          \/ request = "open" /\ ServeOpen(p)
    /\ UNCHANGED <<pc, op, target, saved, faults>>

-----------------------------------------------------------------------------
(* The process proxy.  Each operation is given the answer it returns.        *)

Answers == {"alive", "dead"}

\* remote_signal: `kill -signum` on the host.  With a process group id the signal goes to
\* both processes; a poll, and any signal before the group id is known, goes to the kernel
SshKill(p, signum, grouped) ==
    /\ kernel' = [kernel EXCEPT ![p] = IF signum \in {SIGTERM, SIGKILL} THEN "gone" ELSE @]
    /\ IF grouped /\ signum \in {SIGTERM, SIGKILL} /\ Reachable(p)
       THEN ListenerEnds(p)
       ELSE UNCHANGED <<listener, queue>>

SshAnswer(p, signum, grouped) ==
    IF kernel[p] # "gone" \/ (grouped /\ signum # POLL /\ Reachable(p)) THEN "alive" ELSE "dead"

RemoteSignal(p, signum, grouped, answer) ==
    \/ /\ answer = SshAnswer(p, signum, grouped)
       /\ SshKill(p, signum, grouped)
       /\ UNCHANGED <<why, faults>>
    \/ /\ faults < MaxFaults
       /\ faults' = faults + 1
       /\ answer = "dead"
       /\ why' = Blame(p, "ssh")
       /\ UNCHANGED <<kernel, listener, queue>>

\* as if any number of connections could wait
DeliverUnbounded(p, request) ==
    /\ Reachable(p)
    /\ queue' = [queue EXCEPT ![p] = Append(@, request)]
    /\ UNCHANGED <<kernel, listener, why, faults>>

\* the request reaches the backlog of the listening socket
Deliver(p, request) ==
    /\ Reachable(p)
    /\ Len(queue[p]) < Backlog
    /\ queue' = [queue EXCEPT ![p] = Append(@, request)]
    /\ UNCHANGED <<kernel, listener, why, faults>>

\* the fallback is taken when the connection times out: always with a full backlog, and
\* whenever the network is slower than EG_SOCKET_TIMEOUT
SlowBlame(p) == listener[p] = "blocked" /\ Len(queue[p]) < Backlog

\* as if a connection that timed out meant that nothing listens
SendSignalNoFallback(p, signum, answer) ==
    \/ Deliver(p, signum) /\ answer = "alive"
    \/ /\ ~Reachable(p) \/ Len(queue[p]) = Backlog
       /\ answer = "dead"
       /\ UNCHANGED <<host, faults>>

SendSignal(p, signum, answer) ==
    \/ Deliver(p, signum) /\ answer = "alive"
    \/ /\ ~Reachable(p)
       /\ answer = "dead"
       /\ UNCHANGED <<host, faults>>
    \/ /\ ~SlowBlame(p)
       /\ RemoteSignal(p, signum, TRUE, answer)
    \/ /\ SlowBlame(p)
       /\ answer = SshAnswer(p, signum, TRUE)
       /\ SshKill(p, signum, TRUE)
       /\ why' = Blame(p, "slow")
       /\ UNCHANGED faults

\* the second half of shutdown_listener; errors are logged and ignored
SendShutdown(p) ==
    \/ Deliver(p, "shutdown")
    \/ UNCHANGED <<host, faults>>

-----------------------------------------------------------------------------
(* The kernel manager.                                                       *)

Goto(step) == pc' = step /\ UNCHANGED <<op, target, saved>>

\* POST /api/kernels
StartKernel ==
    /\ pc = "idle" /\ target = None /\ saved = None
    /\ op' = "start"
    /\ pc' = "launch"
    /\ UNCHANGED <<host, target, saved, faults>>

Launch(p) ==
    /\ pc = "launch"
    /\ kernel[p] = "none"
    /\ kernel' = [kernel EXCEPT ![p] = "starting"]
    /\ target' = p
    /\ pc' = "confirm"
    /\ UNCHANGED <<listener, queue, why, op, saved, faults>>

\* the launch fails before a process is started
LaunchRefused ==
    /\ pc = "launch"
    /\ pc' = "idle"
    /\ op' = "none"
    /\ UNCHANGED <<host, target, saved, faults>>

ReceiveConnectionInfo ==
    /\ pc = "confirm"
    /\ listener[target] # "none"
    /\ Goto("save")
    /\ UNCHANGED <<host, faults>>

\* create_session after a start, refresh_session after a restart
SaveSession ==
    /\ pc = "save"
    /\ saved' = target
    /\ pc' = "idle"
    /\ op' = "none"
    /\ UNCHANGED <<host, target, faults>>

\* handle_timeout calls kill(): SIGTERM, polls, SIGKILL if it still answers; the process group
\* and the communication port are not known yet, so ssh is used and a listener is spared
LaunchTimesOut ==
    /\ pc = "confirm"
    /\ why' = Blame(target, "launch")
    /\ Goto("lterm")
    /\ UNCHANGED <<kernel, listener, queue, faults>>

KillTerminates ==
    /\ pc = "lterm"
    /\ \E answer \in Answers : RemoteSignal(target, SIGTERM, FALSE, answer)
    /\ Goto("lpoll")

KillPolls(answer) ==
    /\ pc = "lpoll"
    /\ RemoteSignal(target, POLL, FALSE, answer)
    /\ IF answer = "dead"
       THEN pc' = "idle" /\ op' = "none" /\ target' = None /\ UNCHANGED saved
       ELSE Goto("lpoll")

\* max_poll_attempts polls have answered
KillGivesUp ==
    /\ pc = "lpoll"
    /\ Goto("lkill")
    /\ UNCHANGED <<host, faults>>

KillKills ==
    /\ pc = "lkill"
    /\ \E answer \in Answers : RemoteSignal(target, SIGKILL, FALSE, answer)
    /\ pc' = "idle" /\ op' = "none" /\ target' = None
    /\ UNCHANGED saved

\* DELETE, or a restart asked for by a client: request_shutdown first
RequestShutdown(o) ==
    /\ pc = "idle" /\ target # None
    /\ op' = o
    /\ pc' = "term"
    /\ UNCHANGED <<host, target, saved, faults>>

\* POST .../interrupt
Interrupt ==
    /\ pc = "idle" /\ target # None
    /\ \E answer \in Answers : SendSignal(target, SIGINT, answer)
    /\ UNCHANGED <<pc, op, target, saved>>

\* the restarter's poll; a dead kernel is restarted with now=True, or shut down with
\* now=True when no client is connected
RestarterPolls(answer) ==
    /\ pc = "idle" /\ target # None
    /\ SendSignal(target, POLL, answer)
    /\ IF answer = "alive"
       THEN UNCHANGED <<pc, op>>
       ELSE pc' = "kill" /\ op' \in {"auto", "stop"}
    /\ UNCHANGED <<target, saved>>

\* shutdown_listener as the base class has it, without the SIGTERM
TermListenerNot ==
    /\ pc \in {"term", "cterm"}
    /\ Goto(IF pc = "term" THEN "shut" ELSE "cshut")
    /\ UNCHANGED <<host, faults>>

\* shutdown_listener of DistributedProcessProxy, called by request_shutdown and by cleanup
TermListener ==
    /\ pc \in {"term", "cterm"}
    /\ \E answer \in Answers : SendSignal(target, SIGTERM, answer)
    /\ Goto(IF pc = "term" THEN "shut" ELSE "cshut")

ShutListener ==
    /\ pc = "shut"
    /\ SendShutdown(target)
    /\ Goto("wait")

\* finish_shutdown and _kill_kernel poll until the kernel is dead or the time is up
WaitPolls(answer) ==
    /\ pc \in {"wait", "killwait"}
    /\ SendSignal(target, POLL, answer)
    /\ Goto(IF answer = "dead" THEN "reap" ELSE pc)

\* the wait is long enough for the polls to have filled the backlog of a blocked listener
WaitExpires ==
    /\ pc \in {"wait", "killwait"}
    /\ ~SlowBlame(target) \/ why[target] # "none"
    /\ Goto(IF pc = "wait" THEN "kill" ELSE "cterm")
    /\ UNCHANGED <<host, faults>>

KillKernel ==
    /\ pc = "kill"
    /\ \E answer \in Answers : SendSignal(target, SIGKILL, answer)
    /\ Goto("killwait")

\* wait(): one poll; both of its answers end the loop
Reap ==
    /\ pc = "reap"
    /\ \E answer \in Answers : SendSignal(target, POLL, answer)
    /\ Goto("cterm")

\* the end of cleanup: the proxy is dropped; a shutdown also deletes the session
Cleanup ==
    /\ pc = "cshut"
    /\ SendShutdown(target)
    /\ target' = None
    /\ IF op = "stop"
       THEN pc' = "idle" /\ op' = "none" /\ saved' = None
       ELSE pc' = "launch" /\ UNCHANGED <<op, saved>>

-----------------------------------------------------------------------------
(* Crash of the gateway and revival of its kernel.                           *)

\* the gateway dies, possibly between the connect and the send of a request (its connection
\* is closed empty, or stays open if its host died); a process group no session knows is lost
Sending == pc \in {"idle", "term", "shut", "wait", "kill", "killwait", "reap", "cterm", "cshut"}

Crash(left) ==
    /\ pc # "down"
    /\ faults < MaxFaults
    /\ faults' = faults + 1
    /\ IF left = "nothing"
       THEN UNCHANGED queue
       ELSE /\ Sending /\ target # None /\ Reachable(target)
            /\ Len(queue[target]) < Backlog
            /\ queue' = [queue EXCEPT ![target] = Append(@, left)]
    /\ why' = IF target # None /\ target # saved THEN Blame(target, "crash") ELSE why
    /\ pc' = "down" /\ op' = "none" /\ target' = None
    /\ UNCHANGED <<kernel, listener, saved>>

\* the poll of a revival.  When ssh says that the kernel has gone, its listener is left
\* listening, and the session that names its port is about to be dropped
RevivalPolls(p, answer) ==
    IF answer = "dead" /\ kernel[p] = "gone" /\ listener[p] = "listening"
    THEN /\ why' = Blame(p, "revive")
         /\ UNCHANGED <<kernel, listener, queue, faults>>
    ELSE SendSignal(p, POLL, answer)

\* start_kernel_from_session: the session is deleted when the poll fails
Revive(answer) ==
    /\ pc = "down" /\ saved # None
    /\ RevivalPolls(saved, answer)
    /\ pc' = "idle"
    /\ IF answer = "alive"
       THEN target' = saved /\ UNCHANGED saved
       ELSE saved' = None /\ UNCHANGED target
    /\ UNCHANGED op

StartEmpty ==
    /\ pc = "down" /\ saved = None
    /\ pc' = "idle"
    /\ UNCHANGED <<host, op, target, saved, faults>>

-----------------------------------------------------------------------------
Stop == RequestShutdown("stop")
Restart == RequestShutdown("restart")

GatewayStep ==
    \/ LaunchRefused \/ ReceiveConnectionInfo \/ SaveSession \/ LaunchTimesOut
    \/ KillTerminates \/ KillGivesUp \/ KillKills \/ TermListener \/ ShutListener \/ WaitExpires \/ KillKernel
    \/ Reap \/ Cleanup \/ StartEmpty
    \/ \E p \in Procs : Launch(p)
    \/ \E answer \in Answers :
          KillPolls(answer) \/ RestarterPolls(answer) \/ WaitPolls(answer) \/ Revive(answer)

Next ==
    \/ GatewayStep
    \/ StartKernel \/ Stop \/ Restart \/ Interrupt
    \/ \E left \in {"nothing", "empty", "open"} : Crash(left)
    \/ \E p \in Procs :
          \/ LauncherStarts(p) \/ LauncherRefuses(p) \/ KernelAppEnds(p) \/ KernelDies(p) \/ KernelExits(p)
          \/ ServeRequest(p)

Spec == Init /\ [][Next]_vars

(* The gateway carries on with an operation it has begun, the restarter polls *)
(* every few seconds, waits end after their time, the listener serves its     *)
(* backlog and the interpreter exits.  Nothing is assumed of the kernel.      *)
FairSpec ==
    /\ Spec
    /\ WF_vars(GatewayStep)
    /\ WF_vars(WaitExpires)
    /\ WF_vars(KillGivesUp)
    /\ \A p \in Procs : WF_vars(ServeRequest(p)) /\ WF_vars(KernelExits(p))

-----------------------------------------------------------------------------
(* Properties.                                                               *)

Owned(p) == p = target \/ (pc = "down" /\ p = saved)

\* nothing sent to p is still going to take effect
Drained(p) == queue[p] = <<>> \/ listener[p] # "listening"

(* Once the gateway has let go of a process group and the listener has served *)
(* what was sent to it, the kernel has gone or is exiting, and its listener   *)
(* no longer listens, although no step of a shutdown waits for its request to *)
(* be carried out: the listener has ended, has never started, or, behind a    *)
(* kernel that has gone, is held by a connection that a dead gateway host     *)
(* left open; a kernel that is exiting never waits for such a listener.  The  *)
(* exceptions are six mishaps: an empty connection that ended the listener of *)
(* a live kernel, a failed ssh command, a blocked listener on a slow network, *)
(* a crash before the session was written, a launch that timed out, and a     *)
(* revival that dropped the session of a dead kernel on the word of ssh       *)
(* (shutdown_listener, cleanup, wait, _kill_kernel).                          *)
NothingLeft ==
    \A p \in Procs :
        kernel[p] # "none" /\ ~Owned(p) /\ Drained(p) /\ why[p] = "none" =>
            /\ kernel[p] \in {"joining", "gone"}
            /\ listener[p] # "listening"
            /\ kernel[p] = "joining" => listener[p] = "ended"

(* The restarter never replaces or shuts down a kernel that is running: a     *)
(* poll answers "dead" for a live kernel only after one of those mishaps      *)
(* (send_signal: a refused connection means no process, a timeout does not).  *)
NoLiveKernelReplaced ==
    [][pc = "idle" /\ pc' = "kill" =>
          kernel[target] # "running" \/ why'[target] # "none"]_vars

(* A kernel whose process has gone is let go of for good, by a restart or a   *)
(* shutdown: its orphaned listener makes it look alive for one more poll, a   *)
(* blocked listener until its backlog is full, a revived gateway likewise.    *)
DeadKernelNoticed ==
    \A p \in Procs : kernel[p] = "gone" ~> [](target # p)
=============================================================================
