--------------------------- MODULE ContainerProofs ---------------------------
(***************************************************************************)
(* Proofs about ContainerProcessProxy, for any number of launches and      *)
(* unanswered requests.                                                    *)
(***************************************************************************)
EXTENDS ContainerProcessProxy, TLAPS

\* The namespace is a Kubernetes one, and a container was made by a launch.
Typed ==
    /\ TypeOK
    /\ ns # "absent" => ownNs
    /\ ownNs => OnKubernetes
    /\ pod # "none" => podBy # None

Launching(a) == status[a] = "launching"

\* A shutdown has not waited for the relaunch that is under way.
Overtaken == shut \in {"stopping", "killed"} \/ (rst = "launching" /\ ~mapped)

\* Launches of a kernel id do not overlap: the one under way is the manager's, or that of
\* a restart which a shutdown has overtaken; without a restart the kernel is not in use yet.
OneLaunch ==
    \A a \in Attempts : Launching(a) =>
        /\ \A b \in Attempts : Launching(b) => b = a
        /\ current = a \/ (current = None /\ ~mapped /\ rst = "launching")
        /\ rst \in {"none", "launching"}
        /\ rst = "none" => ~mapped /\ shut = "none"

\* The flag is up through a restart.
Flagged == rst # "none" => restarting

\* What one attempt has to show for itself: a launch that has seen its container run knows
\* the name of it, and one that used a namespace is to delete it.
OfAttempt(a) ==
    /\ status[a] = "idle" => script[a] = "none" /\ phase[a] = "sleep" /\ a \notin located
    /\ script[a] = "running" => Launching(a) \/ a \in podLeft
    /\ Launching(a) /\ (a \in located \/ phase[a] = "wait") => a \in named \/ Overtaken
    /\ ownNs /\ status[a] \in {"launching", "ready"} => a \in deletes

\* The manager's kernel is up, its proxy knows the container, and no shutdown is stopping it.
InUse ==
    /\ mapped /\ current # None /\ status[current] = "ready" /\ current \in named
    /\ shut \in {"none", "waiting"}

\* A container runs for the launch that made it or for the kernel in use.
ContainerOwned ==
    pod \in {"pending", "running"} /\ podBy \notin podLeft =>
        Launching(podBy) \/ (InUse /\ rst \in {"none", "begun"})

\* A namespace is there for a launch, a restart or the kernel in use.
NamespaceOwned ==
    ns = "active" /\ ~nsLeft =>
        \/ \E a \in Attempts : Launching(a)
        \/ rst \in {"begun", "stopping", "killed"}
        \/ InUse

ContainerInv ==
    /\ Typed /\ OneLaunch /\ Flagged /\ (\A a \in Attempts : OfAttempt(a))
    /\ ContainerOwned /\ NamespaceOwned

-----------------------------------------------------------------------------
(* terminate_container_resources *)

\* A container whose name is known goes unless the call misses it, and with it, unless the
\* kernel is restarted, the namespace; nothing else is touched.
LEMMA TerminateFacts ==
    ASSUME Typed, NEW a \in Attempts, NEW how \in Reaches, NEW kept \in BOOLEAN,
           Terminate(a, how, kept)
    PROVE  /\ faults' \in 0..MaxFaults
           /\ pod' \in {"none", "pending", "running", "failed", "deleting"}
           /\ ns' \in {"absent", "active", "terminating"}
           /\ named' \subseteq named /\ \A b \in Attempts : b # a => (b \in named' <=> b \in named)
           /\ pod' \in {"pending", "running"} => pod' = pod /\ (a \notin named \/ Misses(how))
           /\ pod = "none" => pod' = "none"
           /\ ns' = ns \/ (ns = "active" /\ ns' = "terminating" /\ ~restarting)
           /\ /\ ownNs /\ a \in named /\ how = "all" /\ pod # "none"
              /\ a \in deletes /\ ~restarting
              => ns' # "active"
<1> USE ContainerAssumption DEF TypeOK, Typed
<1>1. CASE a \notin named
  BY <1>1 DEF Terminate
<1>2. CASE a \in named
  <2>1. /\ faults' = IF how = "all" THEN faults ELSE faults + 1
        /\ how = "all" \/ faults < MaxFaults
    BY <1>2 DEF Terminate, Answers, Possible
  <2>2. faults' \in 0..MaxFaults
    BY <2>1
  <2>3. CASE OnKubernetes
    <3>1. TerminateKubernetes(a, how, kept)
      BY <1>2, <2>3 DEF Terminate, OnKubernetes
    <3> QED BY <1>2, <2>2, <2>3, <3>1 DEF TerminateKubernetes, NamespaceGoes, Misses, OnKubernetes
  <2>4. CASE kind = "docker"
    <3>1. TerminateDocker(a, how)
      BY <1>2, <2>4 DEF Terminate, OnKubernetes
    <3> QED BY <1>2, <2>2, <2>4, <3>1 DEF TerminateDocker, Misses, OnKubernetes
  <2>5. CASE kind = "swarm"
    <3>1. TerminateSwarm(a, how)
      BY <1>2, <2>5 DEF Terminate, OnKubernetes
    <3> QED BY <1>2, <2>2, <2>5, <3>1 DEF TerminateSwarm, Misses, OnKubernetes
  <2> QED BY <2>3, <2>4, <2>5 DEF OnKubernetes
<1> QED BY <1>1, <1>2

-----------------------------------------------------------------------------
(* The container manager and the launch script *)

\* A container is new only while its launch script runs.
LEMMA ManagerSteps ==
    ASSUME ContainerInv,
           \/ ContainerChanges \/ NamespaceGone
           \/ \E a \in Attempts : CreateContainer(a) \/ ScriptFails(a)
    PROVE  ContainerInv'
<1>1. Typed /\ OneLaunch /\ Flagged /\ ContainerOwned /\ NamespaceOwned
      /\ \A a \in Attempts : OfAttempt(a)
  BY DEF ContainerInv
<1>2. /\ status' = status /\ phase' = phase /\ kind' = kind /\ ownNs' = ownNs
      /\ named' = named /\ located' = located /\ deletes' = deletes /\ current' = current
      /\ mapped' = mapped /\ restarting' = restarting /\ rst' = rst /\ auto' = auto
      /\ shut' = shut /\ faults' = faults /\ podLeft' = podLeft
  BY DEF ContainerChanges, NamespaceGone, CreateContainer, ScriptFails, launchVars, proxyVars,
     managerVars
<1>3. /\ ns' \in {ns, "absent"} /\ (ns' = ns => nsLeft' = nsLeft)
      /\ nsLeft' \in {nsLeft, FALSE} /\ (ns' # ns => ns' = "absent")
  BY DEF ContainerChanges, NamespaceGone, CreateContainer, ScriptFails
<1> DEFINE Made ==
      /\ pod' \in {"none", "pending", "running", "failed", "deleting"}
      /\ podBy' \in Attempts \cup {None} /\ (pod' # "none" => podBy' # None)
      /\ script' \in [Attempts -> {"none", "running", "done", "failed"}]
      /\ \A a \in Attempts : script'[a] = script[a] \/ (script[a] = "running" /\ script'[a] # "running")
      /\ \/ pod' \in {"pending", "running"} => pod \in {"pending", "running"} /\ podBy' = podBy
         \/ podBy' \in Attempts /\ script[podBy'] = "running"
<1>4. Made
  <2> USE ContainerAssumption DEF TypeOK, Typed
  <2>1. CASE ContainerChanges
    BY <1>1, <2>1 DEF ContainerChanges, proxyVars
  <2>2. CASE NamespaceGone
    BY <1>1, <2>2 DEF NamespaceGone, proxyVars
  <2>3. ASSUME NEW a \in Attempts, ScriptFails(a) PROVE Made
    BY <1>1, <2>3 DEF ScriptFails
  <2>4. ASSUME NEW a \in Attempts, CreateContainer(a) PROVE Made
    <3>1. PICK end \in {"done", "failed"} : script' = [script EXCEPT ![a] = end]
      BY <2>4 DEF CreateContainer, ScriptEnds
    <3>2. /\ script[a] = "running"
          /\ \/ pod' = "pending" /\ podBy' = a
             \/ pod' = pod /\ podBy' = podBy
      BY <2>4 DEF CreateContainer
    <3> QED BY <1>1, <3>1, <3>2
  <2> QED BY <2>1, <2>2, <2>3, <2>4
<1>5. Typed'
  BY <1>1, <1>2, <1>3, <1>4, ZenonT(60) DEF Typed, TypeOK, OnKubernetes
<1>6. OneLaunch' /\ Flagged'
  BY <1>1, <1>2 DEF OneLaunch, Flagged, Launching
<1>7. (\A a \in Attempts : OfAttempt(a))'
  BY <1>1, <1>2, <1>4 DEF OfAttempt, Launching, Overtaken
<1>8. ContainerOwned'
  <2>1. InUse' = InUse
    BY <1>2 DEF InUse
  <2>2. \A a \in Attempts : script[a] = "running" => Launching(a) \/ a \in podLeft
    BY <1>1 DEF OfAttempt
  <2> QED BY <1>1, <1>2, <1>4, <2>1, <2>2 DEF ContainerOwned, Launching
<1>9. NamespaceOwned'
  BY <1>1, <1>2, <1>3 DEF NamespaceOwned, Launching, InUse
<1> QED BY <1>5, <1>6, <1>7, <1>8, <1>9 DEF ContainerInv

-----------------------------------------------------------------------------
(* get_container_status *)

\* The query forgets no name and no host, and a container that is seen to run for the first
\* time is seen with its name.
LEMMA QueryFacts ==
    ASSUME Typed, NEW a \in Attempts, NEW reach \in BOOLEAN, Possible(reach),
           GetContainerStatus(a, reach)
    PROVE  /\ faults' \in 0..MaxFaults
           /\ named \subseteq named' /\ named' \subseteq Attempts
           /\ located \subseteq located' /\ located' \subseteq Attempts
           /\ \A b \in Attempts : b # a => (b \in named' <=> b \in named)
                                           /\ (b \in located' <=> b \in located)
           /\ reach /\ Status = "running" => a \in located \/ a \in named'
           /\ a \in located' => a \in located \/ a \in named'
<1> USE ContainerAssumption DEF TypeOK, Typed
<1>1. faults' = IF reach THEN faults ELSE faults + 1
  BY DEF GetContainerStatus, Answers
<1>2. faults' \in 0..MaxFaults
  BY <1>1 DEF Possible
<1>3. Status = "running" => a \in located \/ NamesIt(a)
  BY DEF Status, DockerStatus, SwarmStatus, PodStatus, NamesIt
<1>4. /\ named' = IF reach /\ NamesIt(a) THEN named \cup {a} ELSE named
      /\ located' = IF reach /\ Status = "running" THEN located \cup {a} ELSE located
  BY DEF GetContainerStatus
<1> QED BY <1>2, <1>3, <1>4

\* The rounds of a launch that do not end it, and poll().
LEMMA RoundSteps ==
    ASSUME ContainerInv,
           \/ Poll
           \/ \E a \in Attempts :
                 \/ ReceiveTimesOut(a) \/ HandleTimeout(a)
                 \/ \E reach \in BOOLEAN : RoundGoesOn(a, reach)
    PROVE  ContainerInv'
<1>1. Typed /\ OneLaunch /\ Flagged /\ ContainerOwned /\ NamespaceOwned
      /\ \A a \in Attempts : OfAttempt(a)
  BY DEF ContainerInv
<1>2. /\ status' = status /\ kind' = kind /\ ownNs' = ownNs /\ ns' = ns /\ pod' = pod
      /\ podBy' = podBy /\ script' = script /\ deletes' = deletes /\ current' = current
      /\ mapped' = mapped /\ restarting' = restarting /\ rst' = rst /\ auto' = auto
      /\ shut' = shut /\ podLeft' = podLeft /\ nsLeft' = nsLeft
  BY DEF Poll, ReceiveTimesOut, HandleTimeout, RoundGoesOn, launchVars, proxyVars, managerVars
<1> DEFINE Seen ==
      /\ phase' \in [Attempts -> {"sleep", "wait", "killing"}]
      /\ faults' \in 0..MaxFaults
      /\ named \subseteq named' /\ named' \subseteq Attempts /\ located' \subseteq Attempts
      /\ \A b \in Attempts :
            \/ phase'[b] = phase[b] /\ (b \in located' <=> b \in located)
            \/ /\ status[b] # "idle"
               /\ b \in located' \/ phase'[b] = "wait" =>
                     b \in located \/ phase[b] = "wait" \/ b \in named' \/ status[b] # "launching"
<1>3. Seen
  <2> USE <1>1, ContainerAssumption DEF TypeOK, Typed
  <2>1. CASE Poll
    <3>1. /\ phase' = phase /\ current \in Attempts /\ status[current] = "ready"
          /\ GetContainerStatus(current, TRUE) /\ Possible(TRUE)
      BY <2>1 DEF Poll, launchVars, Possible
    <3>2. PICK c \in Attempts : c = current
      BY <3>1
    <3> QED BY <3>1, <3>2, QueryFacts
  <2>2. ASSUME NEW a \in Attempts, ReceiveTimesOut(a) \/ HandleTimeout(a) PROVE Seen
    BY <2>2 DEF ReceiveTimesOut, HandleTimeout, InPhase, proxyVars
  <2>3. ASSUME NEW a \in Attempts, NEW reach \in BOOLEAN, RoundGoesOn(a, reach) PROVE Seen
    <3>1. PICK p \in {"wait", "sleep"} :
             /\ phase' = [phase EXCEPT ![a] = p]
             /\ p = "wait" => (reach /\ Status = "running") \/ a \in located
      BY <2>3 DEF RoundGoesOn
    <3>2. GetContainerStatus(a, reach) /\ Possible(reach) /\ status[a] = "launching"
      BY <2>3 DEF RoundGoesOn, InPhase
    <3> QED BY <3>1, <3>2, QueryFacts
  <2> QED BY <2>1, <2>2, <2>3
<1>4. Typed'
  BY <1>1, <1>2, <1>3 DEF Typed, TypeOK, OnKubernetes
<1>5. OneLaunch' /\ Flagged'
  BY <1>1, <1>2 DEF OneLaunch, Flagged, Launching
<1>6. (\A a \in Attempts : OfAttempt(a))'
  BY <1>1, <1>2, <1>3 DEF OfAttempt, Launching, Overtaken
<1>7. InUse => InUse'
  BY <1>2, <1>3 DEF InUse
<1>8. ContainerOwned' /\ NamespaceOwned'
  BY <1>1, <1>2, <1>7 DEF ContainerOwned, NamespaceOwned, Launching
<1> QED BY <1>4, <1>5, <1>6, <1>8 DEF ContainerInv

-----------------------------------------------------------------------------
(* The end of a launch *)

\* Whichever way a launch ends, no other is under way, and what it may leave is recorded.
Ends(a, ok) ==
    /\ Launching(a) /\ LaunchOver(ok)
    /\ status' = [status EXCEPT ![a] = IF ok THEN "ready" ELSE "failed"]
    /\ phase' = phase /\ kind' = kind /\ ownNs' = ownNs /\ podBy' = podBy /\ script' = script
    /\ deletes' = deletes
    /\ faults' \in 0..MaxFaults /\ pod' \in {"none", "pending", "running", "failed", "deleting"}
    /\ ns' \in {"absent", "active", "terminating"} /\ named' \subseteq Attempts
    /\ located' \subseteq Attempts /\ \A b \in Attempts : b # a => (b \in located' <=> b \in located)
    /\ pod = "none" => pod' = "none"
    /\ ns' # ns => ownNs
    /\ podLeft \subseteq podLeft' /\ podLeft' \subseteq Attempts
    /\ script[a] = "running" => a \in podLeft'
    /\ nsLeft' \in BOOLEAN

\* Such an end keeps the part of the invariant that is not about what is left behind.
LEMMA EndKept ==
    ASSUME ContainerInv, NEW a \in Attempts, NEW ok \in BOOLEAN, Ends(a, ok)
    PROVE  /\ Typed' /\ OneLaunch' /\ Flagged' /\ (\A b \in Attempts : OfAttempt(b))'
           /\ \A b \in Attempts : ~Launching(b)'
<1>1. Typed /\ OneLaunch /\ Launching(a) /\ \A b \in Attempts : OfAttempt(b)
  BY DEF ContainerInv, Ends
<1>2. /\ status' \in [Attempts -> {"idle", "launching", "ready", "failed", "stopped"}]
      /\ status'[a] \in {"ready", "failed"} /\ \A b \in Attempts : b # a => status'[b] = status[b]
  BY <1>1 DEF Ends, Typed, TypeOK
<1>3. \A b \in Attempts : ~Launching(b)'
  BY <1>1, <1>2 DEF OneLaunch, Launching
<1>4. rst' = "none" /\ current' = current /\ auto' = auto /\ shut' = shut
  BY DEF Ends, LaunchOver
<1>5. mapped' \in BOOLEAN /\ restarting' \in BOOLEAN
  <2>1. mapped \in BOOLEAN /\ restarting \in BOOLEAN
    BY <1>1, Zenon DEF Typed, TypeOK
  <2>2. /\ mapped' = IF rst = "none" THEN ok ELSE mapped
        /\ restarting' = IF rst = "none" THEN restarting ELSE auto /\ ~ok /\ mapped
    BY Zenon DEF Ends, LaunchOver
  <2> QED BY <2>1, <2>2, Zenon
<1>6. Typed'
  <2>1. /\ kind' = kind /\ ownNs' = ownNs /\ podBy' = podBy /\ script' = script /\ phase' = phase
        /\ deletes' = deletes /\ nsLeft' \in BOOLEAN
        /\ faults' \in 0..MaxFaults /\ pod' \in {"none", "pending", "running", "failed", "deleting"}
        /\ ns' \in {"absent", "active", "terminating"}
        /\ named' \subseteq Attempts /\ located' \subseteq Attempts /\ podLeft' \subseteq Attempts
        /\ (pod = "none" => pod' = "none") /\ (ns' # ns => ownNs)
    BY DEF Ends
  <2> QED BY <1>1, <1>2, <1>4, <1>5, <2>1 DEF Typed, TypeOK, OnKubernetes
<1>7. OneLaunch' /\ Flagged'
  BY <1>3, <1>4 DEF OneLaunch, Flagged
<1>8. (\A b \in Attempts : OfAttempt(b))'
  <2> SUFFICES ASSUME NEW b \in Attempts PROVE OfAttempt(b)'
    OBVIOUS
  <2>1. /\ script' = script /\ phase' = phase /\ ownNs' = ownNs /\ deletes' = deletes
        /\ (b # a => (b \in located' <=> b \in located)) /\ podLeft \subseteq podLeft'
        /\ (script[a] = "running" => a \in podLeft')
    BY DEF Ends
  <2> QED BY <1>1, <1>2, <1>3, <2>1 DEF OfAttempt, Launching
<1> QED BY <1>3, <1>6, <1>7, <1>8

\* A launch that raises without having learnt anything leaves both behind.
LEMMA RoundFailsStep ==
    ASSUME ContainerInv, NEW a \in Attempts, NEW reach \in BOOLEAN, RoundFails(a, reach)
    PROVE  ContainerInv'
<1>1. Typed /\ podBy \in Attempts \cup {None} /\ podLeft \subseteq Attempts
      /\ nsLeft \in BOOLEAN /\ ownNs \in BOOLEAN
  BY Zenon DEF ContainerInv, Typed, TypeOK
<1>2. /\ kind' = kind /\ ownNs' = ownNs /\ ns' = ns /\ pod' = pod /\ podBy' = podBy
      /\ script' = script /\ deletes' = deletes /\ phase' = phase
      /\ status' = [status EXCEPT ![a] = "failed"] /\ Launching(a) /\ LaunchOver(FALSE)
      /\ podLeft' = podLeft \cup ({a, podBy} \ {None})
      /\ nsLeft' = (nsLeft \/ ownNs)
      /\ Possible(reach) /\ GetContainerStatus(a, reach)
  BY DEF RoundFails, InPhase, Launching, Launch!Fail, LeavesPod, LeavesNamespace
<1>3. nsLeft' \in BOOLEAN /\ (ownNs => nsLeft')
  BY <1>2, Zenon
<1>4. Ends(a, FALSE)
  BY <1>1, <1>2, <1>3, QueryFacts, ContainerAssumption, ZenonT(60) DEF Ends, Typed, TypeOK
<1>5. Typed' /\ OneLaunch' /\ Flagged' /\ (\A b \in Attempts : OfAttempt(b))'
  BY <1>4, EndKept
<1>6. ContainerOwned' /\ NamespaceOwned'
  BY <1>1, <1>2, <1>3 DEF ContainerOwned, NamespaceOwned, Typed
<1> QED BY <1>5, <1>6 DEF ContainerInv

\* The kernel whose connection info has come is in use, or recorded as overtaken.
LEMMA ReceiveInfoStep ==
    ASSUME ContainerInv, NEW a \in Attempts, NEW p \in Attempts, ReceiveInfo(a, p)
    PROVE  ContainerInv'
<1>1. Typed /\ OneLaunch /\ OfAttempt(a) /\ podBy \in Attempts \cup {None} /\ podLeft \subseteq Attempts
      /\ nsLeft \in BOOLEAN /\ ownNs \in BOOLEAN /\ mapped \in BOOLEAN
  BY Zenon DEF ContainerInv, Typed, TypeOK
<1> DEFINE stopped == ~mapped' \/ shut \in {"stopping", "killed"}
<1>2. /\ kind' = kind /\ ownNs' = ownNs /\ ns' = ns /\ pod' = pod /\ podBy' = podBy
      /\ script' = script /\ deletes' = deletes /\ phase' = phase /\ named' = named
      /\ located' = located /\ faults' = faults
      /\ status' = [status EXCEPT ![a] = "ready"] /\ Launching(a) /\ LaunchOver(TRUE)
      /\ phase[a] = "wait" /\ pod = "running" /\ podBy = p
      /\ podLeft' = IF stopped \/ script[a] = "running"
                    THEN podLeft \cup ({a, podBy} \ {None}) ELSE podLeft
      /\ nsLeft' = (nsLeft \/ (ownNs /\ stopped))
  BY DEF ReceiveInfo, InPhase, Launching, Launch!Succeed, LeavesPod, LeavesNamespace, proxyVars
<1>3. /\ rst' = "none" /\ shut' = shut /\ current' = current
      /\ mapped' = IF rst = "none" THEN TRUE ELSE mapped
  BY <1>2 DEF LaunchOver
<1>4. nsLeft' \in BOOLEAN /\ (ownNs /\ stopped => nsLeft')
  BY <1>2, Zenon
<1>5. Ends(a, TRUE)
  BY <1>1, <1>2, <1>4, ContainerAssumption DEF Ends, Typed, TypeOK
<1>6. Typed' /\ OneLaunch' /\ Flagged' /\ (\A b \in Attempts : OfAttempt(b))'
  BY <1>5, EndKept
<1>7. ASSUME ~stopped PROVE InUse'
  <2>1. current = a /\ ~(rst = "launching" /\ ~mapped)
    BY <1>1, <1>2, <1>3, <1>7 DEF OneLaunch
  <2>2. a \in named /\ shut \in {"none", "waiting"}
    BY <1>1, <1>2, <1>7, <2>1 DEF OfAttempt, Overtaken, Typed, TypeOK
  <2>3. status'[a] = "ready"
    BY <1>1, <1>2 DEF Typed, TypeOK
  <2> QED BY <1>2, <1>3, <1>7, <2>1, <2>2, <2>3, ContainerAssumption DEF InUse
<1>8. ContainerOwned'
  BY <1>1, <1>2, <1>3, <1>7, ContainerAssumption DEF ContainerOwned
<1>9. NamespaceOwned'
  BY <1>1, <1>2, <1>4, <1>7 DEF NamespaceOwned, Typed
<1> QED BY <1>6, <1>8, <1>9 DEF ContainerInv

\* The kill() of a launch takes the container and the namespace, or what it misses is recorded.
LEMMA LaunchKilledStep ==
    ASSUME ContainerInv, NEW a \in Attempts, NEW how \in Reaches, NEW kept \in BOOLEAN,
           LaunchKilled(a, how, kept)
    PROVE  ContainerInv'
<1>1. Typed /\ OneLaunch /\ OfAttempt(a) /\ podBy \in Attempts \cup {None} /\ podLeft \subseteq Attempts
      /\ nsLeft \in BOOLEAN /\ ownNs \in BOOLEAN /\ named \subseteq Attempts /\ restarting \in BOOLEAN
  BY Zenon DEF ContainerInv, Typed, TypeOK
<1> DEFINE missed == how # "all" \/ a \notin named \/ pod = "none" \/ restarting
<1>2. /\ kind' = kind /\ ownNs' = ownNs /\ podBy' = podBy
      /\ script' = script /\ deletes' = deletes /\ phase' = phase /\ located' = located
      /\ status' = [status EXCEPT ![a] = "failed"] /\ Launching(a) /\ LaunchOver(FALSE)
      /\ podLeft' = IF Misses(how) \/ a \notin named \/ script[a] = "running"
                    THEN podLeft \cup ({a, podBy} \ {None}) ELSE podLeft
      /\ nsLeft' = (nsLeft \/ (ownNs /\ missed))
      /\ Terminate(a, how, kept)
  BY DEF LaunchKilled, InPhase, Launching, Launch!Fail, LeavesPod, LeavesNamespace
<1>3. nsLeft' \in BOOLEAN /\ (ownNs /\ missed => nsLeft')
  BY <1>2, Zenon
<1>4. /\ faults' \in 0..MaxFaults
      /\ pod' \in {"none", "pending", "running", "failed", "deleting"}
      /\ ns' \in {"absent", "active", "terminating"}
      /\ named' \subseteq named
      /\ pod' \in {"pending", "running"} => pod' = pod /\ (a \notin named \/ Misses(how))
      /\ pod = "none" => pod' = "none"
      /\ ns' = ns \/ (ns = "active" /\ ns' = "terminating" /\ ~restarting)
      /\ ownNs /\ ~missed /\ a \in deletes => ns' # "active"
  BY <1>1, <1>2, TerminateFacts
<1>5. Ends(a, FALSE)
  BY <1>1, <1>2, <1>3, <1>4, ContainerAssumption DEF Ends, Typed, TypeOK
<1>6. Typed' /\ OneLaunch' /\ Flagged' /\ (\A b \in Attempts : OfAttempt(b))'
  BY <1>5, EndKept
<1>7. ContainerOwned'
  BY <1>1, <1>2, <1>4 DEF ContainerOwned, Typed
<1>8. NamespaceOwned'
  <2>1. ownNs => a \in deletes
    BY <1>1, <1>2 DEF OfAttempt, Launching
  <2> QED BY <1>1, <1>2, <1>3, <1>4, <2>1 DEF NamespaceOwned, Typed
<1> QED BY <1>6, <1>7, <1>8 DEF ContainerInv

-----------------------------------------------------------------------------
(* launch_process *)

\* A launch begins when none is under way and no kernel is in use; the namespace it makes or
\* uses again is marked, and recorded if the launch is refused.
LEMMA BeginStep ==
    ASSUME ContainerInv, NEW a \in Attempts, NEW how \in Outcomes, NEW base,
           base \in [Attempts -> {"idle", "launching", "ready", "failed", "stopped"}],
           \A b \in Attempts : base[b] = status[b] \/ (status[b] = "ready" /\ base[b] = "stopped"),
           \A b \in Attempts : ~Launching(b),
           ~InUse \/ rst \notin {"none", "begun"},
           rst = "none" => ~mapped /\ shut = "none",
           BeginLaunch(a, base, how)
    PROVE  ContainerInv'
<1> DEFINE made == ownNs /\ ns = "absent" /\ how # "no_namespace"
           clash == ownNs /\ ~made /\ (ns = "absent" \/ ~restarting)
           fails == clash \/ how \in {"refused", "no_binding"}
<1>1. Typed /\ Flagged /\ ContainerOwned /\ (\A b \in Attempts : OfAttempt(b)) /\ nsLeft \in BOOLEAN
      /\ ownNs \in BOOLEAN /\ mapped \in BOOLEAN /\ restarting \in BOOLEAN /\ auto \in BOOLEAN
  BY Zenon DEF ContainerInv, Typed, TypeOK
<1>2. /\ status[a] = "idle" /\ (how = "no_binding" => made)
      /\ status' = [base EXCEPT ![a] = IF fails THEN "failed" ELSE "launching"]
      /\ ns' = IF how = "no_binding" THEN "terminating" ELSE IF made THEN "active" ELSE ns
      /\ deletes' = IF ownNs /\ ~clash /\ (ns = "absent" \/ restarting)
                    THEN deletes \cup {a} ELSE deletes
      /\ script' = IF fails THEN script ELSE [script EXCEPT ![a] = "running"]
      /\ current' = a
      /\ rst' = IF fails \/ rst = "none" THEN "none" ELSE "launching"
      /\ phase' = phase /\ kind' = kind /\ ownNs' = ownNs /\ pod' = pod /\ podBy' = podBy
      /\ named' = named /\ located' = located /\ mapped' = mapped /\ auto' = auto
      /\ shut' = shut /\ faults' = faults /\ podLeft' = podLeft
  BY DEF BeginLaunch, MarksNamespace
<1>3. /\ restarting' = IF fails /\ rst # "none" THEN auto /\ mapped ELSE restarting
      /\ nsLeft' = (nsLeft \/ (ownNs /\ fails))
  BY Zenon DEF BeginLaunch, LeavesNamespace
<1>4. /\ restarting' \in BOOLEAN /\ nsLeft' \in BOOLEAN /\ (ownNs /\ fails => nsLeft')
      /\ (~fails => restarting' = restarting)
  <2>1. CASE fails /\ rst # "none"
    BY <1>1, <1>3, <2>1, Zenon
  <2>2. CASE ~(fails /\ rst # "none")
    BY <1>1, <1>3, <2>2, Zenon
  <2> QED BY <2>1, <2>2
<1>5. ~fails /\ ownNs => a \in deletes'
  BY <1>2
<1>6. /\ ns' \in {"absent", "active", "terminating"} /\ (ns' # "absent" => ownNs)
      /\ deletes' \subseteq Attempts /\ deletes \subseteq deletes'
  BY <1>1, <1>2 DEF Typed, TypeOK
<1>7. PICK f \in BOOLEAN : f = fails
  OBVIOUS
<1> HIDE DEF made, clash, fails
<1>8. /\ status' \in [Attempts -> {"idle", "launching", "ready", "failed", "stopped"}]
      /\ status'[a] = (IF f THEN "failed" ELSE "launching")
      /\ script' \in [Attempts -> {"none", "running", "done", "failed"}]
      /\ script'[a] = (IF f THEN script[a] ELSE "running")
      /\ \A b \in Attempts : b # a => script'[b] = script[b] /\ status'[b] = base[b]
  BY <1>1, <1>2, <1>7 DEF Typed, TypeOK
<1>9. Typed'
  BY <1>1, <1>2, <1>4, <1>6, <1>8 DEF Typed, TypeOK, OnKubernetes
<1>10. OneLaunch' /\ Flagged'
  BY <1>1, <1>2, <1>4, <1>7, <1>8 DEF OneLaunch, Flagged, Launching
<1>11. (\A b \in Attempts : OfAttempt(b))'
  <2> SUFFICES ASSUME NEW b \in Attempts PROVE OfAttempt(b)'
    OBVIOUS
  <2>1. CASE b = a
    BY <1>1, <1>2, <1>5, <1>7, <1>8, <2>1 DEF OfAttempt, Launching
  <2>2. CASE b # a
    BY <1>1, <1>2, <1>6, <1>8, <2>2 DEF OfAttempt, Launching
  <2> QED BY <2>1, <2>2
<1>12. ContainerOwned'
  BY <1>1, <1>2 DEF ContainerOwned, Typed, TypeOK
<1>13. NamespaceOwned'
  <2>1. CASE f
    BY <1>2, <1>4, <1>6, <1>7, <2>1 DEF NamespaceOwned
  <2>2. CASE ~f
    BY <1>8, <2>2 DEF NamespaceOwned, Launching
  <2> QED BY <2>1, <2>2
<1> QED BY <1>9, <1>10, <1>11, <1>12, <1>13 DEF ContainerInv

\* A stopped kernel is no longer ready, and nothing else changes.
LEMMA StoppedFacts ==
    ASSUME Typed
    PROVE  /\ Stopped \in [Attempts -> {"idle", "launching", "ready", "failed", "stopped"}]
           /\ \A b \in Attempts : \/ Stopped[b] = status[b]
                                  \/ status[b] = "ready" /\ Stopped[b] = "stopped"
           /\ \A b \in Attempts : Stopped[b] = "launching" <=> status[b] = "launching"
BY DEF Stopped, Typed, TypeOK

\* The launches of a start and of a restart.
LEMMA LaunchSteps ==
    ASSUME ContainerInv, NEW a \in Attempts, NEW how \in Outcomes,
           Start(a, how) \/ Relaunch(a, how)
    PROVE  ContainerInv'
<1>1. Typed /\ OneLaunch
  BY DEF ContainerInv
<1>2. CASE Start(a, how)
  <2>1. /\ ~mapped /\ rst = "none" /\ shut = "none" /\ \A b \in Attempts : ~Launching(b)
        /\ BeginLaunch(a, status, how)
    BY <1>2 DEF Start, Launching
  <2>2. status \in [Attempts -> {"idle", "launching", "ready", "failed", "stopped"}]
    BY <1>1 DEF Typed, TypeOK
  <2> QED BY <2>1, <2>2, BeginStep DEF InUse
<1>3. CASE Relaunch(a, how)
  <2>1. rst \in {"killed", "stopping"} /\ BeginLaunch(a, Stopped, how)
    BY <1>3 DEF Relaunch
  <2>2. \A b \in Attempts : ~Launching(b)
    BY <1>1, <2>1 DEF OneLaunch
  <2> QED BY <1>1, <2>1, <2>2, StoppedFacts, BeginStep
<1> QED BY <1>2, <1>3

-----------------------------------------------------------------------------
(* The kernel manager *)

\* A restart begins on a kernel that is mapped, and so while no launch is under way.
LEMMA RestartBeginsStep ==
    ASSUME ContainerInv, NEW automatic \in BOOLEAN, RestartBegins(automatic)
    PROVE  ContainerInv'
<1>1. Typed /\ OneLaunch /\ ContainerOwned /\ NamespaceOwned /\ \A b \in Attempts : OfAttempt(b)
  BY DEF ContainerInv
<1>2. /\ status' = status /\ phase' = phase /\ kind' = kind /\ ownNs' = ownNs /\ ns' = ns
      /\ pod' = pod /\ podBy' = podBy /\ script' = script /\ named' = named
      /\ located' = located /\ deletes' = deletes /\ current' = current /\ mapped' = mapped
      /\ shut' = shut /\ faults' = faults /\ podLeft' = podLeft /\ nsLeft' = nsLeft
      /\ restarting' = TRUE /\ auto' = automatic /\ rst' = "begun" /\ mapped /\ rst = "none"
  BY DEF RestartBegins, launchVars, proxyVars
<1>3. \A b \in Attempts : ~Launching(b)
  BY <1>1, <1>2 DEF OneLaunch
<1>4. Typed'
  BY <1>1, <1>2 DEF Typed, TypeOK, OnKubernetes
<1>5. OneLaunch' /\ Flagged'
  BY <1>2, <1>3 DEF OneLaunch, Flagged, Launching
<1>6. (\A b \in Attempts : OfAttempt(b))'
  BY <1>1, <1>2, <1>3 DEF OfAttempt, Launching
<1>7. ContainerOwned' /\ NamespaceOwned'
  BY <1>1, <1>2 DEF ContainerOwned, NamespaceOwned, InUse, Launching
<1> QED BY <1>4, <1>5, <1>6, <1>7 DEF ContainerInv

\* A shutdown may begin while a relaunch is under way, and lets go of the manager when it ends.
LEMMA ShutdownFrameSteps ==
    ASSUME ContainerInv, ShutdownBegins \/ ShutdownEnds
    PROVE  ContainerInv'
<1>1. /\ Typed /\ OneLaunch /\ Flagged /\ ContainerOwned /\ NamespaceOwned
      /\ \A b \in Attempts : OfAttempt(b)
  BY DEF ContainerInv
<1>2. /\ phase' = phase /\ kind' = kind /\ ownNs' = ownNs /\ ns' = ns /\ pod' = pod
      /\ podBy' = podBy /\ script' = script /\ named' = named /\ located' = located
      /\ deletes' = deletes /\ rst' = rst /\ auto' = auto /\ faults' = faults
      /\ podLeft' = podLeft /\ nsLeft' = nsLeft
  BY DEF ShutdownBegins, ShutdownEnds, launchVars, proxyVars
<1>3. CASE ShutdownBegins
  <2>1. /\ status' = status /\ current' = current /\ mapped' = mapped /\ restarting' = restarting
        /\ mapped /\ shut = "none" /\ shut' = "waiting"
    BY <1>3 DEF ShutdownBegins, launchVars
  <2>2. Typed'
    BY <1>1, <1>2, <2>1 DEF Typed, TypeOK, OnKubernetes
  <2>3. OneLaunch' /\ Flagged'
    BY <1>1, <1>2, <2>1 DEF OneLaunch, Flagged, Launching
  <2>4. (\A b \in Attempts : OfAttempt(b))'
    BY <1>1, <1>2, <2>1 DEF OfAttempt, Launching, Overtaken
  <2>5. ContainerOwned' /\ NamespaceOwned'
    BY <1>1, <1>2, <2>1 DEF ContainerOwned, NamespaceOwned, InUse, Launching
  <2> QED BY <2>2, <2>3, <2>4, <2>5 DEF ContainerInv
<1>4. CASE ShutdownEnds
  <2>1. /\ shut \in {"killed", "stopping"} /\ shut' = "none" /\ mapped' = FALSE /\ current' = None
        /\ status' = Stopped
    BY <1>4 DEF ShutdownEnds
  <2>2. /\ status' \in [Attempts -> {"idle", "launching", "ready", "failed", "stopped"}]
        /\ \A b \in Attempts : status'[b] = status[b] \/ (status[b] = "ready" /\ status'[b] = "stopped")
        /\ \A b \in Attempts : Launching(b)' <=> Launching(b)
    BY <1>1, <2>1, StoppedFacts DEF Launching
  <2>3. restarting' = (restarting /\ rst # "none")
    BY <1>4, Zenon DEF ShutdownEnds
  <2>4. restarting' \in BOOLEAN
    BY <2>3, Zenon
  <2>5. Typed'
    BY <1>1, <1>2, <2>1, <2>2, <2>4, ZenonT(60) DEF Typed, TypeOK, OnKubernetes
  <2>6. OneLaunch'
    BY <1>1, <1>2, <2>1, <2>2 DEF OneLaunch
  <2>7. Flagged'
    BY <1>1, <1>2, <2>3 DEF Flagged
  <2>8. (\A b \in Attempts : OfAttempt(b))'
    <3>1. \A b \in Attempts : Launching(b) => rst = "launching"
      BY <1>1, <2>1 DEF OneLaunch
    <3> QED BY <1>1, <1>2, <2>1, <2>2, <3>1 DEF OfAttempt, Overtaken
  <2>9. ContainerOwned'
    BY <1>1, <1>2, <2>1, <2>2 DEF ContainerOwned, InUse, Typed, TypeOK
  <2>10. NamespaceOwned'
    BY <1>1, <1>2, <2>1, <2>2 DEF NamespaceOwned, InUse
  <2> QED BY <2>5, <2>6, <2>7, <2>8, <2>9, <2>10 DEF ContainerInv
<1> QED BY <1>3, <1>4

\* What a stop of the proxy in use does, where there is one.
LEMMA StopFacts ==
    ASSUME Typed, NEW how \in Reaches, NEW kept \in BOOLEAN, StopProxy(how, kept)
    PROVE  /\ faults' \in 0..MaxFaults
           /\ pod' \in {"none", "pending", "running", "failed", "deleting"}
           /\ ns' \in {"absent", "active", "terminating"}
           /\ named' \subseteq named /\ \A b \in Attempts : b # current => (b \in named' <=> b \in named)
           /\ pod' \in {"pending", "running"} => pod' = pod /\ (current \notin named \/ Misses(how))
           /\ pod = "none" => pod' = "none"
           /\ ns' = ns \/ (ns = "active" /\ ns' = "terminating" /\ ~restarting)
           /\ /\ ownNs /\ current \in named /\ how = "all" /\ pod # "none"
              /\ current \in deletes /\ ~restarting
              => ns' # "active"
<1>1. CASE current = None
  <2>1. None \notin named
    BY ContainerAssumption DEF Typed, TypeOK
  <2> QED BY <1>1, <2>1, ContainerAssumption DEF StopProxy, Typed, TypeOK
<1>2. CASE current # None
  <2>1. current \in Attempts /\ Terminate(current, how, kept)
    BY <1>2 DEF StopProxy, Typed, TypeOK
  <2> QED BY <2>1, TerminateFacts
<1> QED BY <1>1, <1>2

\* A restart ends the container it knows, and never the namespace.
LEMMA RestartStopsStep ==
    ASSUME ContainerInv, NEW how \in Reaches, NEW kept \in BOOLEAN, RestartStops(how, kept)
    PROVE  ContainerInv'
<1>1. /\ Typed /\ OneLaunch /\ Flagged /\ ContainerOwned /\ NamespaceOwned
      /\ \A b \in Attempts : OfAttempt(b)
  BY DEF ContainerInv
<1>2. /\ status' = status /\ phase' = phase /\ kind' = kind /\ ownNs' = ownNs
      /\ podBy' = podBy /\ script' = script /\ located' = located /\ deletes' = deletes
      /\ current' = current /\ mapped' = mapped /\ restarting' = restarting /\ auto' = auto
      /\ shut' = shut /\ nsLeft' = nsLeft
      /\ rst \in {"begun", "stopping"} /\ rst' \in {"killed", "stopping"}
      /\ podLeft' = IF current \in named /\ Misses(how)
                    THEN podLeft \cup ({current, podBy} \ {None}) ELSE podLeft
      /\ StopProxy(how, kept)
  BY DEF RestartStops, LeavesPod, launchVars
<1>3. /\ faults' \in 0..MaxFaults
      /\ pod' \in {"none", "pending", "running", "failed", "deleting"}
      /\ ns' \in {"absent", "active", "terminating"}
      /\ named' \subseteq named
      /\ pod' \in {"pending", "running"} => pod' = pod /\ (current \notin named \/ Misses(how))
      /\ pod = "none" => pod' = "none"
      /\ ns' = ns \/ (ns = "active" /\ ns' = "terminating" /\ ~restarting)
  BY <1>1, <1>2, StopFacts
<1>4. \A b \in Attempts : ~Launching(b)
  BY <1>1, <1>2 DEF OneLaunch
<1>5. podLeft' \subseteq Attempts /\ podLeft \subseteq podLeft'
  BY <1>1, <1>2 DEF Typed, TypeOK
<1>6. Typed'
  BY <1>1, <1>2, <1>3, <1>5 DEF Typed, TypeOK, OnKubernetes
<1>7. OneLaunch' /\ Flagged'
  BY <1>1, <1>2, <1>4 DEF OneLaunch, Flagged, Launching
<1>8. (\A b \in Attempts : OfAttempt(b))'
  BY <1>1, <1>2, <1>4, <1>5 DEF OfAttempt, Launching
<1>9. ContainerOwned'
  <2>1. podBy \in Attempts \cup {None} /\ (pod # "none" => podBy # None)
    BY <1>1 DEF Typed, TypeOK
  <2> QED BY <1>1, <1>2, <1>3, <1>4, <1>5, <2>1 DEF ContainerOwned, InUse
<1>10. NamespaceOwned'
  BY <1>2 DEF NamespaceOwned
<1> QED BY <1>6, <1>7, <1>8, <1>9, <1>10 DEF ContainerInv

\* A shutdown ends the container it knows and its namespace, or what it misses is recorded.
LEMMA ShutdownStopsStep ==
    ASSUME ContainerInv, NEW how \in Reaches, NEW kept \in BOOLEAN, ShutdownStops(how, kept)
    PROVE  ContainerInv'
<1>1. /\ Typed /\ OneLaunch /\ Flagged /\ ContainerOwned /\ NamespaceOwned
      /\ \A b \in Attempts : OfAttempt(b)
      /\ ownNs \in BOOLEAN /\ nsLeft \in BOOLEAN /\ restarting \in BOOLEAN
  BY Zenon DEF ContainerInv, Typed, TypeOK
<1> DEFINE missed == restarting \/ (current \in named /\ (how # "all" \/ pod = "none"))
<1>2. /\ status' = status /\ phase' = phase /\ kind' = kind /\ ownNs' = ownNs
      /\ podBy' = podBy /\ script' = script /\ located' = located /\ deletes' = deletes
      /\ current' = current /\ mapped' = mapped /\ restarting' = restarting /\ auto' = auto
      /\ rst' = rst /\ shut \in {"waiting", "stopping"} /\ shut' \in {"killed", "stopping"}
      /\ podLeft' = IF restarting \/ (current \in named /\ Misses(how))
                    THEN podLeft \cup ({current, podBy} \ {None}) ELSE podLeft
      /\ StopProxy(how, kept)
  BY DEF ShutdownStops, LeavesPod, launchVars
<1>3. nsLeft' = (nsLeft \/ (ownNs /\ missed))
  BY Zenon DEF ShutdownStops, LeavesNamespace
<1>4. nsLeft' \in BOOLEAN /\ (ownNs /\ missed => nsLeft') /\ (nsLeft => nsLeft')
  BY <1>3, Zenon
<1>5. /\ faults' \in 0..MaxFaults
      /\ pod' \in {"none", "pending", "running", "failed", "deleting"}
      /\ ns' \in {"absent", "active", "terminating"}
      /\ named' \subseteq named
      /\ pod' \in {"pending", "running"} => pod' = pod /\ (current \notin named \/ Misses(how))
      /\ pod = "none" => pod' = "none"
      /\ ns' = ns \/ (ns = "active" /\ ns' = "terminating" /\ ~restarting)
      /\ ownNs /\ current \in named /\ ~missed /\ current \in deletes => ns' # "active"
  BY <1>1, <1>2, StopFacts
<1>6. podLeft' \subseteq Attempts /\ podLeft \subseteq podLeft'
  BY <1>1, <1>2 DEF Typed, TypeOK
<1>7. Typed'
  BY <1>1, <1>2, <1>4, <1>5, <1>6 DEF Typed, TypeOK, OnKubernetes
<1>8. OneLaunch' /\ Flagged'
  BY <1>1, <1>2 DEF OneLaunch, Flagged, Launching
<1>9. (\A b \in Attempts : OfAttempt(b))'
  BY <1>1, <1>2, <1>6 DEF OfAttempt, Launching, Overtaken
<1>10. ContainerOwned'
  <2>1. podBy \in Attempts \cup {None} /\ (pod # "none" => podBy # None)
    BY <1>1 DEF Typed, TypeOK
  <2> QED BY <1>1, <1>2, <1>5, <1>6, <2>1 DEF ContainerOwned, InUse, Launching
<1>11. NamespaceOwned'
  <2>1. InUse /\ ownNs => current \in named /\ current \in deletes
    BY <1>1 DEF InUse, OfAttempt, Typed, TypeOK
  <2>2. ns # "absent" => ownNs
    BY <1>1 DEF Typed
  <2> QED BY <1>1, <1>2, <1>4, <1>5, <2>1, <2>2 DEF NamespaceOwned, Launching
<1> QED BY <1>7, <1>8, <1>9, <1>10, <1>11 DEF ContainerInv

\* A new gateway keeps the kernel if it finds the container, by name; a container that
\* could still come to run is found, except one Docker does not list.
LEMMA ReviveStep ==
    ASSUME ContainerInv, Revive
    PROVE  ContainerInv'
<1>1. /\ Typed /\ OneLaunch /\ Flagged /\ ContainerOwned /\ NamespaceOwned
      /\ \A b \in Attempts : OfAttempt(b)
      /\ ownNs \in BOOLEAN /\ nsLeft \in BOOLEAN
  BY Zenon DEF ContainerInv, Typed, TypeOK
<1> DEFINE lost == ~FoundAgain
<1>2. /\ phase' = phase /\ kind' = kind /\ ownNs' = ownNs /\ ns' = ns /\ pod' = pod
      /\ podBy' = podBy /\ script' = script /\ located' = located /\ deletes' = deletes
      /\ current' = current /\ rst' = rst /\ auto' = auto /\ shut' = shut /\ faults' = faults
      /\ mapped /\ rst = "none" /\ shut = "none" /\ current \in Attempts
      /\ status[current] = "ready"
      /\ named' = (IF kind # "crd" /\ NamesIt(current) THEN named \cup {current} ELSE named \ {current})
      /\ restarting' = FALSE
      /\ podLeft' = IF current \notin named'
                    THEN podLeft \cup ({current, podBy} \ {None}) ELSE podLeft
  BY <1>1 DEF Revive, LoadedDeletes, LeavesPod, Typed, TypeOK
<1>3. /\ mapped' = FoundAgain /\ nsLeft' = (nsLeft \/ (ownNs /\ lost))
      /\ status' = IF FoundAgain THEN status ELSE Stopped
  BY Zenon DEF Revive, LeavesNamespace
<1>4. FoundAgain \in BOOLEAN
  BY DEF FoundAgain
<1>5. /\ nsLeft' \in BOOLEAN /\ mapped' \in BOOLEAN /\ (ownNs /\ lost => nsLeft')
      /\ (nsLeft => nsLeft') /\ (mapped' <=> FoundAgain)
  BY <1>3, <1>4, Zenon
<1>6. /\ status' \in [Attempts -> {"idle", "launching", "ready", "failed", "stopped"}]
      /\ \A b \in Attempts : status'[b] = status[b] \/ (status[b] = "ready" /\ status'[b] = "stopped")
      /\ FoundAgain => status' = status
      /\ \A b \in Attempts : Launching(b)' <=> Launching(b)
  BY <1>1, <1>3, <1>4, StoppedFacts DEF Launching, Typed, TypeOK
<1>7. \A b \in Attempts : ~Launching(b)
  BY <1>1, <1>2 DEF OneLaunch
<1>8. /\ podLeft' \subseteq Attempts /\ podLeft \subseteq podLeft' /\ named' \subseteq Attempts
      /\ podBy \in Attempts \cup {None} /\ (pod # "none" => podBy # None)
  BY <1>1, <1>2 DEF Typed, TypeOK
<1>9. Typed'
  BY <1>1, <1>2, <1>5, <1>6, <1>8, ZenonT(60) DEF Typed, TypeOK, OnKubernetes
<1>10. OneLaunch' /\ Flagged'
  BY <1>2, <1>6, <1>7 DEF OneLaunch, Flagged
<1>11. (\A b \in Attempts : OfAttempt(b))'
  BY <1>1, <1>2, <1>6, <1>7, <1>8 DEF OfAttempt, Launching
<1>12. FoundAgain /\ current \in named' => InUse'
  BY <1>2, <1>5, <1>6, ContainerAssumption DEF InUse
<1>13. ContainerOwned'
  <2>1. pod \in {"pending", "running"} /\ current \in named' => FoundAgain
    <3>1. kind \in {"kubernetes", "crd", "docker", "swarm"}
      BY <1>1 DEF Typed, TypeOK
    <3>2. current \in named' => kind # "crd" /\ NamesIt(current)
      BY <1>2
    <3> QED BY <3>1, <3>2 DEF NamesIt, FoundAgain, Alive, Status, DockerStatus, SwarmStatus, PodStatus
  <2> QED BY <1>2, <1>8, <1>12, <2>1 DEF ContainerOwned
<1>14. NamespaceOwned'
  <2>1. ns # "absent" => ownNs
    BY <1>1 DEF Typed
  <2>2. FoundAgain => current \in named'
    <3>1. kind \in {"kubernetes", "crd", "docker", "swarm"}
      BY <1>1 DEF Typed, TypeOK
    <3>2. FoundAgain => kind # "crd" /\ NamesIt(current)
      BY <3>1 DEF NamesIt, FoundAgain, Alive, Status, DockerStatus, SwarmStatus, PodStatus
    <3> QED BY <1>2, <3>2
  <2> QED BY <1>2, <1>5, <1>12, <2>1, <2>2 DEF NamespaceOwned
<1> QED BY <1>9, <1>10, <1>11, <1>13, <1>14 DEF ContainerInv

-----------------------------------------------------------------------------
\* At the start there is no kernel.
LEMMA ContainerInitInv == Init => ContainerInv
<1> SUFFICES ASSUME Init PROVE ContainerInv
  OBVIOUS
<1> USE ContainerAssumption
<1>1. status = [a \in Attempts |-> "idle"]
  BY DEF Init, Launch!Init
<1>2. Typed
  <2>1. {ownNs, mapped, restarting, auto, nsLeft} \subseteq BOOLEAN
    <3>1. ownNs \in BOOLEAN /\ mapped = FALSE /\ restarting = FALSE /\ auto = FALSE /\ nsLeft = FALSE
      BY Zenon DEF Init
    <3> QED BY <3>1, Zenon
  <2>2. /\ status \in [Attempts -> {"idle", "launching", "ready", "failed", "stopped"}]
        /\ phase \in [Attempts -> {"sleep", "wait", "killing"}]
        /\ script \in [Attempts -> {"none", "running", "done", "failed"}]
    BY <1>1 DEF Init
  <2>3. faults \in 0..MaxFaults
    BY DEF Init
  <2>4. ownNs => OnKubernetes
    BY DEF Init, OnKubernetes
  <2> QED BY <2>1, <2>2, <2>3, <2>4 DEF Init, Typed, TypeOK
<1>3. OneLaunch /\ Flagged
  BY <1>1 DEF Init, OneLaunch, Flagged, Launching
<1>4. \A a \in Attempts : OfAttempt(a)
  BY <1>1 DEF Init, OfAttempt, Launching
<1>5. ContainerOwned /\ NamespaceOwned
  BY DEF Init, ContainerOwned, NamespaceOwned
<1> QED BY <1>2, <1>3, <1>4, <1>5 DEF ContainerInv

\* Every step keeps the invariant.
LEMMA ContainerStepInv == ContainerInv /\ [Next]_vars => ContainerInv'
<1> SUFFICES ASSUME ContainerInv, [Next]_vars PROVE ContainerInv'
  OBVIOUS
<1>1. CASE UNCHANGED vars
  <2>1. /\ status' = status /\ phase' = phase /\ kind' = kind /\ ownNs' = ownNs /\ ns' = ns
        /\ pod' = pod /\ podBy' = podBy /\ script' = script /\ named' = named
        /\ located' = located /\ deletes' = deletes /\ current' = current /\ mapped' = mapped
        /\ restarting' = restarting /\ rst' = rst /\ auto' = auto /\ shut' = shut
        /\ faults' = faults /\ podLeft' = podLeft /\ nsLeft' = nsLeft
    BY <1>1 DEF vars, launchVars, proxyVars, managerVars
  <2>2. Typed' /\ OneLaunch' /\ Flagged'
    BY <2>1 DEF ContainerInv, Typed, TypeOK, OneLaunch, Flagged, Launching, OnKubernetes
  <2>3. (\A b \in Attempts : OfAttempt(b))'
    BY <2>1 DEF ContainerInv, OfAttempt, Launching, Overtaken
  <2>4. ContainerOwned' /\ NamespaceOwned'
    BY <2>1 DEF ContainerInv, ContainerOwned, NamespaceOwned, Launching, InUse
  <2> QED BY <2>2, <2>3, <2>4 DEF ContainerInv
<1>2. CASE \/ ContainerChanges \/ NamespaceGone
           \/ \E a \in Attempts : CreateContainer(a) \/ ScriptFails(a)
  BY <1>2, ManagerSteps
<1>3. CASE \/ Poll
           \/ \E a \in Attempts :
                 \/ ReceiveTimesOut(a) \/ HandleTimeout(a)
                 \/ \E reach \in BOOLEAN : RoundGoesOn(a, reach)
  BY <1>3, RoundSteps
<1>4. CASE ShutdownBegins \/ ShutdownEnds
  BY <1>4, ShutdownFrameSteps
<1>5. CASE Revive
  BY <1>5, ReviveStep
<1>6. CASE \E automatic \in BOOLEAN : RestartBegins(automatic)
  BY <1>6, RestartBeginsStep
<1>7. ASSUME NEW how \in Reaches, NEW kept \in BOOLEAN,
             RestartStops(how, kept) \/ ShutdownStops(how, kept)
      PROVE  ContainerInv'
  BY <1>7, RestartStopsStep, ShutdownStopsStep
<1>8. ASSUME NEW a \in Attempts, NEW how \in Outcomes, Start(a, how) \/ Relaunch(a, how)
      PROVE  ContainerInv'
  BY <1>8, LaunchSteps
<1>9. ASSUME NEW a \in Attempts, NEW reach \in BOOLEAN, RoundFails(a, reach)
      PROVE  ContainerInv'
  BY <1>9, RoundFailsStep
<1>10. ASSUME NEW a \in Attempts, NEW p \in Attempts, ReceiveInfo(a, p)
       PROVE  ContainerInv'
  BY <1>10, ReceiveInfoStep
<1>11. ASSUME NEW a \in Attempts, NEW how \in Reaches, NEW kept \in BOOLEAN,
              LaunchKilled(a, how, kept)
       PROVE  ContainerInv'
  BY <1>11, LaunchKilledStep
<1> QED
  BY <1>1, <1>2, <1>3, <1>4, <1>5, <1>6, <1>7, <1>8, <1>9, <1>10, <1>11 DEF Next

-----------------------------------------------------------------------------
\* A container runs on without its kernel only for one of the recorded reasons: on every
\* other path of launch, restart, shutdown and change of gateway it is terminated
\* (terminate_container_resources).
THEOREM ContainersExplained == Spec => []ContainerExplained
<1>1. ContainerInv => ContainerExplained
  BY DEF ContainerInv, ContainerOwned, ContainerExplained, Quiet, InUse, Launching, Typed, TypeOK
<1> QED BY <1>1, ContainerInitInv, ContainerStepInv, PTL DEF Spec

\* The namespace made for a kernel goes with it, through any number of restarts and changes
\* of gateway, except for one of the recorded reasons (delete_kernel_namespace in k8s.py).
THEOREM NamespacesExplained == Spec => []NamespaceExplained
<1>1. ContainerInv => NamespaceExplained
  BY DEF ContainerInv, NamespaceOwned, NamespaceExplained, Quiet, InUse, Launching
<1> QED BY <1>1, ContainerInitInv, ContainerStepInv, PTL DEF Spec

\* No step deletes the namespace between the moment a restart sets its flag and the end of
\* the relaunch (the restarting flag that k8s.py reads before it deletes).
THEOREM NamespaceKept == Spec => NamespaceSurvives
<1> DEFINE A == ns = "active" /\ ns' = "terminating" => rst = "none"
<1>1. ContainerInv /\ [Next]_vars => [A]_vars
  <2> SUFFICES ASSUME ContainerInv, Next, ns = "active", ns' = "terminating"
               PROVE  rst = "none"
    OBVIOUS
  <2>1. Typed /\ Flagged
    BY DEF ContainerInv
  <2>2. ASSUME NEW a \in Attempts, NEW how \in Reaches, NEW kept \in BOOLEAN,
               LaunchKilled(a, how, kept)
        PROVE  ~restarting
    <3>1. Terminate(a, how, kept)
      BY <2>2 DEF LaunchKilled
    <3> QED BY <2>1, <3>1, TerminateFacts
  <2>3. ASSUME NEW how \in Reaches, NEW kept \in BOOLEAN,
               RestartStops(how, kept) \/ ShutdownStops(how, kept)
        PROVE  ~restarting
    <3>1. StopProxy(how, kept)
      BY <2>3 DEF RestartStops, ShutdownStops
    <3> QED BY <2>1, <3>1, StopFacts
  <2>4. ASSUME NEW a \in Attempts, NEW how \in Outcomes, Start(a, how) \/ Relaunch(a, how)
        PROVE  FALSE
    <3>1. ns' = ns \/ ns = "absent"
      BY <2>4 DEF Start, Relaunch, BeginLaunch
    <3> QED BY <3>1
  <2>5. CASE \/ ContainerChanges \/ NamespaceGone \/ Poll \/ ShutdownBegins \/ ShutdownEnds \/ Revive
             \/ \E automatic \in BOOLEAN : RestartBegins(automatic)
    BY <2>5 DEF ContainerChanges, NamespaceGone, Poll, ShutdownBegins, ShutdownEnds, Revive,
       RestartBegins
  <2>6. ASSUME NEW a \in Attempts,
               \/ CreateContainer(a) \/ ScriptFails(a) \/ ReceiveTimesOut(a) \/ HandleTimeout(a)
               \/ \E reach \in BOOLEAN : RoundGoesOn(a, reach) \/ RoundFails(a, reach)
               \/ \E p \in Attempts : ReceiveInfo(a, p)
        PROVE  FALSE
    BY <2>6 DEF CreateContainer, ScriptFails, ReceiveTimesOut, HandleTimeout, RoundGoesOn,
       RoundFails, ReceiveInfo
  <2>7. ~restarting => rst = "none"
    BY <2>1 DEF Flagged
  <2> QED BY <2>2, <2>3, <2>4, <2>5, <2>6, <2>7 DEF Next
<1> QED BY <1>1, ContainerInitInv, ContainerStepInv, PTL DEF Spec, NamespaceSurvives
=============================================================================
