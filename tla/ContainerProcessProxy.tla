------------------------ MODULE ContainerProcessProxy ------------------------
(***************************************************************************)
(* The container proxies (services/processproxies/container.py, k8s.py,    *)
(* crd.py, docker_swarm.py): a local launch script asks Kubernetes, an     *)
(* operator, Docker or Swarm for a container, which runs the launcher.     *)
(* The proxy finds the container by the kernel id in its labels, learns    *)
(* its name from that query, and can only terminate a container whose name *)
(* it knows.  On Kubernetes it also creates a namespace for the kernel and *)
(* has to delete it with the kernel, but not when the kernel is restarted. *)
(*                                                                         *)
(* One kernel id is followed through starts, restarts (of a client, and of *)
(* the restarter), shutdowns and a change of gateway.  Every launch makes  *)
(* a new proxy; the container's name is made from the kernel id, so there  *)
(* is at most one.  The exchange of connection info is KernelLaunch's.     *)
(***************************************************************************)
EXTENDS Naturals, FiniteSets

CONSTANTS
    Attempts, Ids, None,
    MaxFaults    \* bound on the calls to the container manager that fail

ASSUME ContainerAssumption ==
    IsFiniteSet(Attempts) /\ None \notin Attempts \cup Ids /\ MaxFaults \in Nat

VARIABLES
    status, id, conn,  \* of KernelLaunch
    phase,       \* phase[a]: "sleep" (handle_timeout), "wait" (receive_connection_info), "killing"
    kind,        \* "kubernetes", "crd", "docker" or "swarm"
    ownNs,       \* Kubernetes, and neither KERNEL_NAMESPACE nor EG_SHARED_NAMESPACE is set
    ns,          \* the kernel's own namespace: "absent", "active" or "terminating"
    pod,         \* the container: "none", "pending", "running", "failed" or "deleting"
    podBy,       \* the attempt whose launch script created it
    script,      \* script[a]: local_proc, "none", "running", "done" or "failed"
    named,       \* the attempts with a container_name
    located,     \* the attempts with an assigned_host
    deletes,     \* the attempts with delete_kernel_namespace
    current,     \* process_proxy of the kernel manager
    mapped,      \* the kernel manager is in _kernels
    restarting,  \* its flag
    rst,         \* restart_kernel: "none", "begun", "stopping", "killed" or "launching"
    auto,        \* the last restart is the restarter's
    shut,        \* shutdown_kernel: "none", "waiting" (for a restart), "stopping" or "killed"
    faults,      \* calls to the container manager that have failed
    podLeft,     \* history: the attempts whose container something has left behind
    nsLeft       \* history: something has left the namespace behind

launchVars == <<status, id, conn, phase>>
proxyVars == <<script, named, located, deletes>>
managerVars == <<current, mapped, restarting, rst, auto, shut>>
vars == <<launchVars, kind, ownNs, ns, pod, podBy, proxyVars, managerVars, faults, podLeft, nsLeft>>

Launch == INSTANCE KernelLaunch

TypeOK ==
    /\ status \in [Attempts -> {"idle", "launching", "ready", "failed", "stopped"}]
    /\ phase \in [Attempts -> {"sleep", "wait", "killing"}]
    /\ kind \in {"kubernetes", "crd", "docker", "swarm"}
    /\ ns \in {"absent", "active", "terminating"}
    /\ pod \in {"none", "pending", "running", "failed", "deleting"}
    /\ podBy \in Attempts \cup {None} /\ current \in Attempts \cup {None}
    /\ script \in [Attempts -> {"none", "running", "done", "failed"}]
    /\ named \cup located \cup deletes \cup podLeft \subseteq Attempts
    /\ {ownNs, mapped, restarting, auto, nsLeft} \subseteq BOOLEAN
    /\ rst \in {"none", "begun", "stopping", "killed", "launching"}
    /\ shut \in {"none", "waiting", "stopping", "killed"}
    /\ faults \in 0..MaxFaults

Init ==
    /\ Launch!Init /\ phase = [a \in Attempts |-> "sleep"]
    /\ kind \in {"kubernetes", "crd", "docker", "swarm"} /\ ownNs \in BOOLEAN
    /\ ownNs => kind \in {"kubernetes", "crd"}
    /\ ns = "absent" /\ pod = "none" /\ podBy = None
    /\ script = [a \in Attempts |-> "none"]
    /\ named = {} /\ located = {} /\ deletes = {}
    /\ current = None /\ mapped = FALSE /\ restarting = FALSE
    /\ rst = "none" /\ auto = FALSE /\ shut = "none"
    /\ faults = 0 /\ podLeft = {} /\ nsLeft = FALSE

OnKubernetes == kind \in {"kubernetes", "crd"}

Answers(reach) == faults' = IF reach THEN faults ELSE faults + 1
Possible(reach) == reach \/ faults < MaxFaults

-----------------------------------------------------------------------------
(* The container manager and the launch script *)

Barred == ownNs /\ ns # "active"

\* launch_kubernetes.py goes on with the pod that is there, and may still fail on another object
\* of its manifest; launch_custom_resource.py and launch_docker.py fail on a name in use
ScriptEnds(fresh) ==
    IF Barred \/ ~(fresh \/ kind = "kubernetes") THEN {"failed"}
    ELSE {"done"} \cup IF kind = "kubernetes" THEN {"failed"} ELSE {}

CreateContainer(a) ==
    LET fresh == ~Barred /\ pod = "none"
    IN  /\ script[a] = "running"
        /\ pod' = IF fresh THEN "pending" ELSE pod
        /\ podBy' = IF fresh THEN a ELSE podBy
        /\ \E end \in ScriptEnds(fresh) : script' = [script EXCEPT ![a] = end]
        /\ UNCHANGED <<launchVars, kind, ownNs, ns, named, located, deletes, managerVars,
                       faults, podLeft, nsLeft>>

\* refused by its arguments, or by the container manager
ScriptFails(a) ==
    /\ script[a] = "running"
    /\ script' = [script EXCEPT ![a] = "failed"]
    /\ UNCHANGED <<launchVars, kind, ownNs, ns, pod, podBy, named, located, deletes, managerVars,
                   faults, podLeft, nsLeft>>

\* it starts, it fails, or it goes: deleted, evicted, or removed by its manager
ContainerChanges ==
    /\ \/ pod = "pending" /\ pod' = "running"
       \/ pod \in {"pending", "running"} /\ pod' = "failed"
       \/ pod # "none" /\ pod' = "none"
    /\ UNCHANGED <<launchVars, kind, ownNs, ns, podBy, proxyVars, managerVars, faults, podLeft, nsLeft>>

\* a terminating namespace takes its pods with it
NamespaceGone ==
    /\ ns = "terminating"
    /\ ns' = "absent" /\ pod' = "none"
    /\ nsLeft' = FALSE
    /\ UNCHANGED <<launchVars, kind, ownNs, podBy, proxyVars, managerVars, faults, podLeft>>

-----------------------------------------------------------------------------
(* get_container_status *)

\* Docker lists running containers only
DockerStatus == IF pod = "running" THEN pod ELSE ""

\* Swarm lists the tasks that are meant to run
SwarmStatus == IF pod \in {"pending", "running"} THEN pod ELSE ""

\* the phase of a pod that is being deleted does not change
PodStatus == CASE pod = "none" -> "" [] pod = "deleting" -> "running" [] OTHER -> pod

Status == CASE kind = "docker" -> DockerStatus [] kind = "swarm" -> SwarmStatus [] OTHER -> PodStatus

\* the query brings the name; crd.py asks for the pod only when the resource has come to run
\* and no host is assigned yet
NamesIt(a) ==
    CASE kind = "docker" -> pod = "running"
      [] kind = "crd" -> Status = "running" /\ a \notin located
      [] OTHER -> pod # "none"

GetContainerStatus(a, reach) ==
    /\ named' = IF reach /\ NamesIt(a) THEN named \cup {a} ELSE named
    /\ located' = IF reach /\ Status = "running" THEN located \cup {a} ELSE located
    /\ Answers(reach)

\* poll() is None
Alive == Status \in {"pending", "running"}

-----------------------------------------------------------------------------
(* terminate_container_resources *)

\* what one call gets done: "none" (its first request fails), "pod" (its second does), "all"
Reaches == {"none", "pod", "all"}

\* mutant: the restart is not looked at
NamespaceGoesAlways(a) == a \in deletes

NamespaceGoes(a) == a \in deletes /\ ~restarting

\* Kubernetes: a pod that is not found ends the call before the namespace is looked at, and
\* counts as terminated.  kept: the name is kept because the pod is not reported as gone
TerminateKubernetes(a, how, kept) ==
    /\ pod' \in IF how = "none" \/ pod = "none" THEN {pod}
                ELSE IF kind = "crd" THEN {"none"} ELSE {"deleting", "none"}
    /\ ns' = IF how = "all" /\ pod # "none" /\ NamespaceGoes(a) /\ ns = "active"
             THEN "terminating" ELSE ns
    /\ named' = IF how = "none" \/ (kept /\ pod # "none") THEN named ELSE named \ {a}

\* no container is removed: no answer, or Docker does not list it (it is not running)
Misses(how) == how = "none" \/ (kind = "docker" /\ pod # "running")

\* Docker: what is not listed counts as terminated
TerminateDocker(a, how) ==
    /\ pod' = IF Misses(how) THEN pod ELSE "none"
    /\ named' = IF how = "none" THEN named ELSE named \ {a}
    /\ UNCHANGED ns

\* Swarm removes the service, and its tasks with it
TerminateSwarm(a, how) ==
    /\ pod' = IF how = "none" THEN pod ELSE "none"
    /\ named' = IF how = "none" THEN named ELSE named \ {a}
    /\ UNCHANGED ns

\* mutant: kill() forgets the container instead of terminating it
TerminateForgets(a, how, kept) ==
    /\ how = "all" /\ named' = named \ {a}
    /\ UNCHANGED <<pod, ns, faults>>

\* kill(), and shutdown_listener(): only if the container has a name
Terminate(a, how, kept) ==
    IF a \notin named THEN how = "all" /\ UNCHANGED <<pod, ns, named, faults>>
    ELSE /\ Answers(how = "all") /\ Possible(how = "all")
         /\ CASE OnKubernetes -> TerminateKubernetes(a, how, kept)
              [] kind = "docker" -> TerminateDocker(a, how)
              [] kind = "swarm" -> TerminateSwarm(a, how)

\* what may be left behind, and why
LeavesPod(a, why) == podLeft' = IF why THEN podLeft \cup ({a, podBy} \ {None}) ELSE podLeft
LeavesNamespace(why) == nsLeft' = (nsLeft \/ (ownNs /\ why))

-----------------------------------------------------------------------------
(* launch_process *)

\* mutant: a namespace that is used again is not marked
MarksNamespaceNewOnly == ns = "absent"

\* _create_kernel_namespace: one that exists is all right while restarting only, and is marked
MarksNamespace == ns = "absent" \/ restarting

Outcomes == {"go", "refused", "no_binding", "no_namespace"}

\* k8s.py has the namespace made first, whatever comes after it: no image, a prohibited or
\* malformed uid or gid, a user who is not authorized ("refused").  A namespace without its
\* role binding is deleted again.  base: the status with the kernel before it stopped
BeginLaunch(a, base, how) ==
    LET made == ownNs /\ ns = "absent" /\ how # "no_namespace"
        clash == ownNs /\ ~made /\ (ns = "absent" \/ ~restarting)
        fails == clash \/ how \in {"refused", "no_binding"}
    IN  /\ status[a] = "idle"
        /\ how = "no_binding" => made
        /\ how = "no_namespace" => clash /\ ns = "absent"
        /\ status' = [base EXCEPT ![a] = IF fails THEN "failed" ELSE "launching"]
        /\ \E k \in Ids : id' = [id EXCEPT ![a] = k]
        /\ ns' = IF how = "no_binding" THEN "terminating" ELSE IF made THEN "active" ELSE ns
        /\ deletes' = IF ownNs /\ ~clash /\ MarksNamespace THEN deletes \cup {a} ELSE deletes
        /\ script' = IF fails THEN script ELSE [script EXCEPT ![a] = "running"]
        /\ current' = a
        /\ rst' = IF fails \/ rst = "none" THEN "none" ELSE "launching"
        /\ restarting' = IF fails /\ rst # "none" THEN auto /\ mapped ELSE restarting
        /\ LeavesNamespace(fails)
        /\ UNCHANGED <<conn, phase, kind, ownNs, pod, podBy, named, located, mapped, auto, shut,
                       faults, podLeft>>

\* what the end of a launch is to the kernel manager: the flag of a restart is cleared, but
\* not when the restarter's relaunch fails
LaunchOver(ok) ==
    /\ mapped' = IF rst = "none" THEN ok ELSE mapped
    /\ restarting' = IF rst = "none" THEN restarting ELSE auto /\ ~ok /\ mapped
    /\ rst' = "none"
    /\ UNCHANGED <<current, auto, shut>>

InPhase(a, p) == status[a] = "launching" /\ phase[a] = p

\* a round of confirm_remote_startup, after handle_timeout; to crd.py no answer is ""
RoundGoesOn(a, reach) ==
    LET seen == IF reach THEN Status ELSE ""
        host == seen = "running" \/ (seen # "" /\ a \in located)
    IN  /\ InPhase(a, "sleep") /\ Possible(reach)
        /\ reach \/ kind = "crd"
        /\ IF seen = "" THEN script[a] # "failed" ELSE seen # "failed"
        /\ phase' = [phase EXCEPT ![a] = IF host THEN "wait" ELSE "sleep"]
        /\ GetContainerStatus(a, reach)
        /\ UNCHANGED <<status, id, conn, kind, ownNs, ns, pod, podBy, script, deletes, managerVars,
                       podLeft, nsLeft>>

\* ... raises: an error state, no container and a failed script (detect_launch_failure), no
\* answer.  Nothing is killed
RoundFails(a, reach) ==
    /\ InPhase(a, "sleep") /\ Possible(reach)
    /\ IF reach THEN Status = "failed" \/ (Status = "" /\ script[a] = "failed") ELSE kind # "crd"
    /\ Launch!Fail(a) /\ LaunchOver(FALSE)
    /\ GetContainerStatus(a, reach)
    /\ LeavesPod(a, TRUE) /\ LeavesNamespace(TRUE)
    /\ UNCHANGED <<phase, kind, ownNs, ns, pod, podBy, script, deletes>>

\* receive_connection_info; a shutdown that did not wait may have been there
ReceiveInfo(a, p) ==
    /\ InPhase(a, "wait") /\ pod = "running" /\ podBy = p
    /\ Launch!Succeed(a, p) /\ LaunchOver(TRUE)
    /\ LET stopped == ~mapped' \/ shut \in {"stopping", "killed"}
       IN  LeavesPod(a, stopped \/ script[a] = "running") /\ LeavesNamespace(stopped)
    /\ UNCHANGED <<phase, kind, ownNs, ns, pod, podBy, proxyVars, faults>>

ReceiveTimesOut(a) ==
    /\ InPhase(a, "wait")
    /\ phase' = [phase EXCEPT ![a] = "sleep"]
    /\ UNCHANGED <<status, id, conn, kind, ownNs, ns, pod, podBy, proxyVars, managerVars, faults,
                   podLeft, nsLeft>>

\* kernel_launch_timeout: kill() goes to a thread
HandleTimeout(a) ==
    /\ InPhase(a, "sleep")
    /\ phase' = [phase EXCEPT ![a] = "killing"]
    /\ UNCHANGED <<status, id, conn, kind, ownNs, ns, pod, podBy, proxyVars, managerVars, faults,
                   podLeft, nsLeft>>

\* kill() of a launch that has timed out, or whose connection info could not be used: with no
\* name yet, or without success, the container is left; the namespace goes only if the pod
\* does and this is not a relaunch
LaunchKilled(a, how, kept) ==
    /\ InPhase(a, "killing") \/ InPhase(a, "wait")
    /\ Launch!Fail(a) /\ LaunchOver(FALSE)
    /\ Terminate(a, how, kept)
    /\ LeavesPod(a, Misses(how) \/ a \notin named \/ script[a] = "running")
    /\ LeavesNamespace(how # "all" \/ a \notin named \/ pod = "none" \/ restarting)
    /\ UNCHANGED <<phase, kind, ownNs, podBy, script, located, deletes>>

-----------------------------------------------------------------------------
(* The kernel manager *)

Start(a, how) ==
    /\ ~mapped /\ rst = "none" /\ shut = "none"
    /\ \A b \in Attempts : status[b] # "launching"
    /\ BeginLaunch(a, status, how)

\* poll(), of the restarter or of a stop that waits for the kernel to end
Poll ==
    /\ current # None /\ status[current] = "ready"
    /\ GetContainerStatus(current, TRUE)
    /\ UNCHANGED <<launchVars, kind, ownNs, ns, pod, podBy, script, deletes, managerVars, podLeft, nsLeft>>

\* the proxy in use is told to end its container: request_shutdown, or kill()
StopProxy(how, kept) ==
    IF current = None THEN how = "all" /\ UNCHANGED <<pod, ns, named, faults>>
    ELSE Terminate(current, how, kept)

\* the manager has a kernel (is_alive) and its poll() is None
StillAlive == current # None /\ status[current] = "ready" /\ Alive

\* a stopped kernel, once cleanup_resources has let go of its proxy
Stopped == [a \in Attempts |-> IF a = current /\ status[a] = "ready" THEN "stopped" ELSE status[a]]

\* restart_kernel, called by a client, or by the restarter when poll() is not None
RestartBegins(automatic) ==
    /\ mapped /\ rst = "none" /\ shut \in {"none", "waiting"} /\ ~restarting
    /\ automatic => current # None /\ status[current] = "ready" /\ ~Alive
    /\ restarting' = TRUE /\ auto' = automatic /\ rst' = "begun"
    /\ UNCHANGED <<launchVars, kind, ownNs, ns, pod, podBy, proxyVars, current, mapped, shut,
                   faults, podLeft, nsLeft>>

\* the restarter kills, a client's restart asks first and kills if the kernel stays alive
RestartStops(how, kept) ==
    /\ rst = "begun" \/ (rst = "stopping" /\ StillAlive)
    /\ StopProxy(how, kept)
    /\ rst' = IF rst = "stopping" \/ auto THEN "killed" ELSE "stopping"
    /\ LeavesPod(current, current \in named /\ Misses(how))
    /\ UNCHANGED <<launchVars, kind, ownNs, podBy, script, located, deletes, current, mapped,
                   restarting, auto, shut, nsLeft>>

\* the container is gone, or the time to wait for that is over: a new proxy
Relaunch(a, how) ==
    /\ rst = "killed" \/ (rst = "stopping" /\ ~StillAlive)
    /\ BeginLaunch(a, Stopped, how)

ShutdownBegins ==
    /\ mapped /\ shut = "none"
    /\ shut' = "waiting"
    /\ UNCHANGED <<launchVars, kind, ownNs, ns, pod, podBy, proxyVars, current, mapped, restarting,
                   rst, auto, faults, podLeft, nsLeft>>

\* no restart is in progress, or kernel_launch_timeout has passed waiting for its end; then
\* kill() if the kernel stays alive
ShutdownStops(how, kept) ==
    /\ shut = "waiting" \/ (shut = "stopping" /\ StillAlive)
    /\ StopProxy(how, kept)
    /\ shut' = IF shut = "waiting" THEN "stopping" ELSE "killed"
    /\ LET knows == current \in named
       IN  /\ LeavesPod(current, restarting \/ (knows /\ Misses(how)))
           /\ LeavesNamespace(restarting \/ (knows /\ (how # "all" \/ pod = "none")))
    /\ UNCHANGED <<launchVars, kind, ownNs, podBy, script, located, deletes, current, mapped,
                   restarting, rst, auto>>

ShutdownEnds ==
    /\ shut = "killed" \/ (shut = "stopping" /\ ~StillAlive)
    /\ shut' = "none" /\ mapped' = FALSE /\ current' = None
    /\ status' = Stopped
    /\ restarting' = (restarting /\ rst # "none")
    /\ UNCHANGED <<id, conn, phase, kind, ownNs, ns, pod, podBy, proxyVars, rst, auto, faults,
                   podLeft, nsLeft>>

LoadedDeletes == deletes

\* poll() of the loaded proxy is not False; crd.py has no resource to ask for, because its
\* kernel_resource_name is set by launch_process and not persisted
FoundAgain == Alive /\ kind # "crd"

\* a new gateway loads the session: the host, the namespace and what to do with it, not the
\* container's name; a kernel whose poll() is False is given up
Revive ==
    /\ mapped /\ rst = "none" /\ shut = "none"
    /\ current # None /\ status[current] = "ready"
    /\ named' = IF kind # "crd" /\ NamesIt(current) THEN named \cup {current} ELSE named \ {current}
    /\ deletes' = LoadedDeletes
    /\ mapped' = FoundAgain
    /\ status' = IF FoundAgain THEN status ELSE Stopped
    /\ restarting' = FALSE
    /\ LeavesPod(current, current \notin named') /\ LeavesNamespace(~FoundAgain)
    /\ UNCHANGED <<id, conn, phase, kind, ownNs, ns, pod, podBy, script, located, current, rst,
                   auto, shut, faults>>

-----------------------------------------------------------------------------
Next ==
    \/ ContainerChanges \/ NamespaceGone \/ Poll \/ ShutdownBegins \/ ShutdownEnds \/ Revive
    \/ \E automatic \in BOOLEAN : RestartBegins(automatic)
    \/ \E how \in Reaches, kept \in BOOLEAN : RestartStops(how, kept) \/ ShutdownStops(how, kept)
    \/ \E a \in Attempts :
          \/ CreateContainer(a) \/ ScriptFails(a) \/ ReceiveTimesOut(a) \/ HandleTimeout(a)
          \/ \E how \in Outcomes : Start(a, how) \/ Relaunch(a, how)
          \/ \E reach \in BOOLEAN : RoundGoesOn(a, reach) \/ RoundFails(a, reach)
          \/ \E p \in Attempts : ReceiveInfo(a, p)
          \/ \E how \in Reaches, kept \in BOOLEAN : LaunchKilled(a, how, kept)

Spec == Init /\ [][Next]_vars

-----------------------------------------------------------------------------
\* no kernel, and nothing under way that would make or end one
Quiet ==
    /\ ~mapped /\ rst = "none" /\ shut = "none"
    /\ \A a \in Attempts : status[a] # "launching"

\* A container runs on without its kernel only if its launch failed without having learnt its
\* name, its manager did not answer, a shutdown overlapped a restart, or a gateway that
\* replaced another could not find it again (crd.py): on every other path it is terminated.
ContainerExplained == Quiet /\ pod \in {"pending", "running"} => podBy \in podLeft

\* The namespace made for a kernel goes with it, through any number of restarts and changes
\* of gateway, unless a launch failed, the pod was gone before (404), Kubernetes did not
\* answer, a shutdown overlapped a restart, or the next gateway did not find the kernel.
NamespaceExplained == Quiet /\ ns = "active" => nsLeft

\* A restart finds the namespace it left: nothing deletes it between the moment the flag is
\* set and the end of the relaunch (k8s.py reads the flag of the kernel manager).
NamespaceSurvives ==
    [][ns = "active" /\ ns' = "terminating" => rst = "none"]_vars

\* deploy-kubernetes.md: "Upon a kernel's termination, this namespace - provided it was
\* created by Enterprise Gateway - will be deleted."
NamespaceDeleted ==
    Quiet /\ (\A a \in Attempts : status[a] \in {"idle", "stopped"}) => ns # "active"
=============================================================================
