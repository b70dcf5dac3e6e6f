------------------------- MODULE ClusterProcessProxy -------------------------
(***************************************************************************)
(* YarnClusterProcessProxy and ConductorClusterProcessProxy                *)
(* (services/processproxies/yarn.py, conductor.py): a local submitter asks *)
(* a resource manager for an application, which runs the launcher.  The    *)
(* proxy finds the application (YARN: by its name, which is the kernel id; *)
(* Conductor: by the driver id the submitter prints), watches its state    *)
(* and kills it through the resource manager.                              *)
(*                                                                         *)
(* The exchange of the connection information is KernelLaunch's Succeed,   *)
(* which RemoteProcessProxy is shown to implement.  The application of     *)
(* attempt a is named a.  What the two classes share is one action; kind   *)
(* tells them apart where they differ.                                     *)
(***************************************************************************)
EXTENDS Naturals, Sequences, FiniteSets

CONSTANTS
    Attempts, Ids, None,
    MaxFaults     \* bound on the steps in which the resource manager does not answer

ASSUME ClusterAssumption ==
    IsFiniteSet(Attempts) /\ None \notin Attempts \cup Ids /\ MaxFaults \in Nat

VARIABLES
    status, id, conn,  \* of KernelLaunch
    phase,      \* phase[a]: "sleep" (handle_timeout), "wait" (receive_connection_info), "killing"
    kind,       \* "yarn" or "conductor"
    app,        \* app[a]: state of the application, "none" before it is submitted
    order,      \* the applications in the order of their ids
    since,      \* since[a]: applications submitted before start_time of a
    appId,      \* application_id
    last,       \* last_known_state (YARN)
    located,    \* the attempts with an assigned_host
    driver,     \* the attempts with a driver_id (Conductor)
    submitter,  \* local_proc: "none", "running", "posted" (killed, its request under way), "gone", "failed"
    faults,     \* steps so far without an answer of the resource manager
    blind,      \* history: attempts that ended without reaching their own application
    dropped,    \* history: attempts whose session a new gateway has dropped
    lost        \* history: attempts whose kernel poll() has reported as gone

launchVars == <<status, id, conn, phase>>
rmVars == <<app, order>>
proxyVars == <<since, appId, last, located, driver, submitter>>
history == <<blind, dropped, lost>>
clusterVars == <<kind, rmVars, proxyVars, faults, history>>
vars == <<launchVars, clusterVars>>

Launch == INSTANCE KernelLaunch

Live == {"ACCEPTED", "RUNNING"}
AppStates == Live \cup {"none", "FINISHED", "KILLED", "FAILED"}
Unknown == "unknown"

\* final_states: Conductor's list leaves FAILED out
Final == IF kind = "yarn" THEN {"FINISHED", "KILLED", "FAILED"} ELSE {"FINISHED", "KILLED"}

TypeOK ==
    /\ status \in [Attempts -> {"idle", "launching", "ready", "failed", "stopped"}]
    /\ phase \in [Attempts -> {"sleep", "wait", "killing"}] /\ kind \in {"yarn", "conductor"}
    /\ app \in [Attempts -> AppStates] /\ order \in Seq(Attempts)
    /\ since \in [Attempts -> Nat] /\ appId \in [Attempts -> Attempts \cup {None}]
    /\ last \in [Attempts -> AppStates \cup {Unknown}]
    /\ submitter \in [Attempts -> {"none", "running", "posted", "gone", "failed"}]
    /\ faults \in 0..MaxFaults
    /\ located \cup driver \cup blind \cup dropped \cup lost \subseteq Attempts

Init ==
    /\ Launch!Init /\ phase = [a \in Attempts |-> "sleep"]
    /\ kind \in {"yarn", "conductor"}
    /\ app = [a \in Attempts |-> "none"] /\ order = <<>>
    /\ since = [a \in Attempts |-> 0] /\ appId = [a \in Attempts |-> None]
    /\ last = [a \in Attempts |-> Unknown] /\ located = {} /\ driver = {}
    /\ submitter = [a \in Attempts |-> "none"]
    /\ faults = 0 /\ blind = {} /\ dropped = {} /\ lost = {}

-----------------------------------------------------------------------------
(* The resource manager *)

\* an application is created by the submitter's request, also after the submitter is gone
Submit(a) ==
    /\ submitter[a] \in {"running", "posted"} /\ app[a] = "none"
    /\ app' = [app EXCEPT ![a] = "ACCEPTED"]
    /\ order' = Append(order, a)
    /\ submitter' = [submitter EXCEPT ![a] = "gone"]
    /\ UNCHANGED <<launchVars, kind, since, appId, last, located, driver, faults, history>>

SubmitterFails(a) ==
    /\ submitter[a] = "running"
    /\ submitter' = [submitter EXCEPT ![a] = "failed"]
    /\ UNCHANGED <<launchVars, kind, rmVars, since, appId, last, located, driver, faults, history>>

AppRuns(a) ==
    /\ app[a] = "ACCEPTED"
    /\ app' = [app EXCEPT ![a] = "RUNNING"]
    /\ UNCHANGED <<launchVars, kind, order, proxyVars, faults, history>>

AppFails(a) ==
    /\ app[a] \in Live
    /\ app' = [app EXCEPT ![a] = "FAILED"]
    /\ UNCHANGED <<launchVars, kind, order, proxyVars, faults, history>>

\* applications that are told to end; one in a final state stays in it
EndApps(hit, state) ==
    app' = [b \in Attempts |-> IF b \in hit /\ app[b] \in Live THEN state ELSE app[b]]

\* a step makes its calls to the resource manager with or without success
Answers(reach) == faults' = IF reach THEN faults ELSE faults + 1
Possible(reach) == reach \/ faults < MaxFaults

-----------------------------------------------------------------------------
(* Finding the application *)

Position(b) == CHOOSE i \in 1..Len(order) : order[i] = b

\* Conductor's query is by driver id
VisibleConductor(a) == {b \in {a} : b \in driver /\ app[b] # "none"}

\* mutant: applications started before this launch are not filtered out
VisibleAlways(a) ==
    IF kind = "yarn" THEN {b \in Attempts : app[b] # "none" /\ id[b] = id[a]}
    ELSE VisibleConductor(a)

\* mutant: the application's name is not compared with the kernel id
VisibleAnyName(a) ==
    IF kind = "yarn" THEN {b \in Attempts : app[b] # "none" /\ Position(b) > since[a]}
    ELSE VisibleConductor(a)

\* what the queries return: YARN's by name, among the applications started since start_time
Visible(a) ==
    IF kind = "yarn"
    THEN {b \in Attempts : app[b] # "none" /\ id[b] = id[a] /\ Position(b) > since[a]}
    ELSE VisibleConductor(a)

\* _query_app_by_name: the top-most application id is taken
TopMost(S) == CHOOSE b \in S : \A c \in S : Position(c) <= Position(b)

\* the application the queries of this step are about: the one known, else the one found
Target(a, reach) ==
    IF appId[a] # None THEN appId[a]
    ELSE IF reach /\ Visible(a) # {} THEN TopMost(Visible(a)) ELSE None

\* _get_application_id
GetApplicationId(a, reach, ignoreFinal) ==
    LET t == Target(a, reach)
    IN  IF appId[a] = None /\ t # None /\ ignoreFinal /\ app[t] \in Final THEN None ELSE t

\* _query_app_state_by_driver_id needs the driver id and has no memory
ConductorState(a, reach) == IF reach /\ a \in driver THEN app[a] ELSE Unknown

\* mutant: a failed query has no state to offer
QueryStateNoMemory(a, b, reach) == IF reach THEN app[b] ELSE Unknown

\* _get_application_state, _query_app_state_by_id: YARN's fall back to the last known state
QueryState(a, b, reach) ==
    IF kind = "conductor" THEN ConductorState(a, reach)
    ELSE IF reach THEN app[b] ELSE last[a]

\* what the queries leave in the proxy
Remember(a, reach, ignoreFinal) ==
    LET t == Target(a, reach)
    IN  /\ appId' = [appId EXCEPT ![a] = GetApplicationId(a, reach, ignoreFinal)]
        /\ last' = IF kind = "yarn" /\ reach /\ t # None
                   THEN [last EXCEPT ![a] = app[t]] ELSE last
        /\ Answers(reach)

-----------------------------------------------------------------------------
(* kill() *)

\* mutant: only the local submitter is killed
KillLocalOnly(a, b, reach, left) ==
    /\ submitter' = IF submitter[a] = "running" THEN [submitter EXCEPT ![a] = left] ELSE submitter
    /\ UNCHANGED <<app, blind>>

\* kill() with application b known (or None): through the resource manager; YARN goes on to
\* the local submitter when that was not confirmed, Conductor always.  A submitter killed
\* too late has posted its request
Kill(a, b, reach, left) ==
    /\ EndApps(IF reach THEN {b} ELSE {}, "KILLED")
    /\ submitter' = IF submitter[a] = "running" /\ (kind = "conductor" \/ b = None \/ ~reach)
                    THEN [submitter EXCEPT ![a] = left] ELSE submitter
    /\ blind' = IF b = a /\ reach THEN blind ELSE blind \cup {a}

\* the application kill() finds: YARN asks by name once more, Conductor uses its driver id
KillTarget(a, reach) ==
    IF kind = "yarn" THEN GetApplicationId(a, reach, FALSE)
    ELSE IF a \in driver THEN a ELSE None

-----------------------------------------------------------------------------
(* launch_process *)

\* jupyter_client refuses an id that is in _kernels, not one that is being launched
Startable(k) == \A b \in Attempts : id[b] = k => status[b] # "ready"

\* YARN: once the queue has room the submitter is started and start_time is taken
LaunchYarn(a, k) ==
    /\ kind = "yarn" /\ Startable(k)
    /\ Launch!Begin(a, k, "launching")
    /\ submitter' = [submitter EXCEPT ![a] = "running"]
    /\ since' = [since EXCEPT ![a] = Len(order)]
    /\ UNCHANGED <<phase, kind, rmVars, appId, last, located, driver, faults, history>>

\* Conductor: the submitter's output is read to its end, which blocks until the application
\* is submitted; the driver id is in it, or is not
LaunchConductor(a, k, parsed) ==
    /\ kind = "conductor" /\ Startable(k)
    /\ Launch!Begin(a, k, "launching")
    /\ submitter' = [submitter EXCEPT ![a] = "gone"]
    /\ app' = [app EXCEPT ![a] = "ACCEPTED"]
    /\ order' = Append(order, a)
    /\ driver' = IF parsed THEN driver \cup {a} ELSE driver
    /\ UNCHANGED <<phase, kind, since, appId, last, located, faults, history>>

\* refused: authorization, too little memory, or no room in the queue within 20% of the
\* timeout (YARN); no credential, or "Application submission failed" (Conductor)
LaunchRefused(a, k) ==
    /\ Startable(k)
    /\ Launch!Begin(a, k, "failed")
    /\ UNCHANGED <<phase, clusterVars>>

\* the state a round of confirm_remote_startup sees, once there is an application
ConfirmState(a, reach) ==
    LET b == GetApplicationId(a, reach, TRUE)
    IN  IF b = None THEN Unknown ELSE QueryState(a, b, reach)

\* the host is known from an earlier round or comes with the running application
Located(a, reach) ==
    LET b == GetApplicationId(a, reach, TRUE)
    IN  b # None /\ (a \in located \/ (reach /\ app[b] = "RUNNING"))

InPhase(a, p) == status[a] = "launching" /\ phase[a] = p

\* a round of confirm_remote_startup, after handle_timeout, that goes on to
\* receive_connection_info ...
RoundWaits(a, reach) ==
    /\ InPhase(a, "sleep") /\ Possible(reach)
    /\ Located(a, reach) /\ ConfirmState(a, reach) \notin Final
    /\ phase' = [phase EXCEPT ![a] = "wait"]
    /\ located' = located \cup {a}
    /\ Remember(a, reach, TRUE)
    /\ UNCHANGED <<status, id, conn, kind, rmVars, since, driver, submitter, history>>

\* ... with no application, or none with a host: try again
RoundIdle(a, reach) ==
    /\ InPhase(a, "sleep") /\ Possible(reach)
    /\ ~Located(a, reach) /\ ConfirmState(a, reach) \notin Final
    /\ GetApplicationId(a, reach, TRUE) = None => submitter[a] # "failed"
    /\ Remember(a, reach, TRUE)
    /\ UNCHANGED <<launchVars, kind, rmVars, since, located, driver, submitter, history>>

\* ... with the application in a final state, or none and a submitter that failed
\* (detect_launch_failure): raise, without kill()
RoundFails(a, reach) ==
    LET b == GetApplicationId(a, reach, TRUE)
    IN  /\ InPhase(a, "sleep") /\ Possible(reach)
        /\ IF b = None THEN submitter[a] = "failed" ELSE ConfirmState(a, reach) \in Final
        /\ Launch!Fail(a)
        /\ Remember(a, reach, TRUE)
        /\ blind' = IF b = a THEN blind ELSE blind \cup {a}
        /\ UNCHANGED <<phase, kind, rmVars, since, located, driver, submitter, dropped, lost>>

\* receive_connection_info: the response of a launcher arrives under the id ...
ReceiveInfo(a, p) ==
    /\ InPhase(a, "wait") /\ app[p] = "RUNNING"
    /\ Launch!Succeed(a, p)
    /\ UNCHANGED <<phase, clusterVars>>

\* ... its connection_interval passes ...
ReceiveTimesOut(a) ==
    /\ InPhase(a, "wait")
    /\ phase' = [phase EXCEPT ![a] = "sleep"]
    /\ UNCHANGED <<status, id, conn, clusterVars>>

\* ... or anything else is raised: kill() and raise
ReceiveFails(a, reach, left) ==
    /\ InPhase(a, "wait") /\ Possible(reach)
    /\ Launch!Fail(a)
    /\ Kill(a, KillTarget(a, reach), reach, left)
    /\ Remember(a, reach, FALSE)
    /\ UNCHANGED <<phase, kind, order, since, located, driver, dropped, lost>>

\* kernel_launch_timeout: the id is asked for (for the message), kill() goes to a thread
HandleTimeout(a, reach) ==
    /\ InPhase(a, "sleep") /\ Possible(reach)
    /\ phase' = [phase EXCEPT ![a] = "killing"]
    /\ Remember(a, reach, TRUE)
    /\ UNCHANGED <<status, id, conn, kind, rmVars, since, located, driver, submitter, history>>

KillReturns(a, reach, left) ==
    /\ InPhase(a, "killing") /\ Possible(reach)
    /\ Launch!Fail(a)
    /\ Kill(a, KillTarget(a, reach), reach, left)
    /\ Remember(a, reach, FALSE)
    /\ UNCHANGED <<phase, kind, order, since, located, driver, dropped, lost>>

-----------------------------------------------------------------------------
(* A kernel that was launched *)

\* poll(), also as send_signal(0)
Poll(a, reach) ==
    LET b == GetApplicationId(a, reach, FALSE)
        alive == b # None /\ QueryState(a, b, reach) \in Live
    IN  /\ status[a] = "ready" /\ Possible(reach)
        /\ Remember(a, reach, FALSE)
        /\ lost' = IF alive THEN lost ELSE lost \cup {a}
        /\ UNCHANGED <<launchVars, kind, rmVars, since, located, driver, submitter, blind, dropped>>

\* a new gateway loads get_process_info, which has the application id.  A YARN proxy that did
\* not launch has no resource_mgr and no last known state, a Conductor proxy no driver id:
\* poll() is False, so the session is dropped and nobody manages the application any more
Revive(a) ==
    /\ Launch!Stop(a)
    /\ appId' = [appId EXCEPT ![a] = None]
    /\ dropped' = dropped \cup {a}
    /\ UNCHANGED <<phase, kind, rmVars, since, last, located, driver, submitter, faults, blind, lost>>

\* shutdown: the kernel obeys the message, or kill() is called; cleanup forgets the id
StopGracefully(a) ==
    /\ Launch!Stop(a)
    /\ EndApps({conn[a]}, "FINISHED")
    /\ blind' = IF conn[a] = a THEN blind ELSE blind \cup {a}
    /\ appId' = [appId EXCEPT ![a] = None]
    /\ UNCHANGED <<phase, kind, order, since, last, located, driver, submitter, faults, dropped, lost>>

StopByKill(a, reach, left) ==
    /\ Possible(reach)
    /\ Launch!Stop(a)
    /\ Kill(a, KillTarget(a, reach), reach, left)
    /\ Answers(reach)
    /\ appId' = [appId EXCEPT ![a] = None]
    /\ UNCHANGED <<phase, kind, order, since, last, located, driver, dropped, lost>>

Next ==
    \E a \in Attempts :
        \/ Submit(a) \/ SubmitterFails(a) \/ AppRuns(a) \/ AppFails(a)
        \/ ReceiveTimesOut(a) \/ Revive(a) \/ StopGracefully(a)
        \/ \E p \in Attempts : ReceiveInfo(a, p)
        \/ \E k \in Ids :
              \/ LaunchRefused(a, k) \/ LaunchYarn(a, k)
              \/ \E parsed \in BOOLEAN : LaunchConductor(a, k, parsed)
        \/ \E reach \in BOOLEAN :
              \/ RoundWaits(a, reach) \/ RoundIdle(a, reach) \/ RoundFails(a, reach)
              \/ HandleTimeout(a, reach) \/ Poll(a, reach)
              \/ \E left \in {"gone", "posted"} :
                    \/ ReceiveFails(a, reach, left) \/ KillReturns(a, reach, left)
                    \/ StopByKill(a, reach, left)

Spec == Init /\ [][Next]_vars

-----------------------------------------------------------------------------
Ended(a) == status[a] \in {"failed", "stopped"}

\* An application is still alive after its launch failed or its kernel was stopped only if
\* the proxy held no application id or another one's at that time, the resource manager did
\* not answer, or the gateway changed: on every other path (timeout, exception, final state,
\* shutdown) it is killed.
OrphanExplained ==
    \A a \in Attempts : Ended(a) /\ app[a] \in Live => a \in blind \cup dropped

\* A kernel relaunched under its id never takes up an application that was submitted
\* before, neither when it looks for one nor when it kills (started_time_begin).
OnlyNewApplications ==
    \A a, b \in Attempts : appId[a] = b /\ b # a /\ ~Ended(a) => Position(b) > since[a]

\* kill() ends an application through the resource manager only for the launch or kernel it
\* belongs to, or for one that began under the same id before it was submitted: two launches
\* that overlap may kill each other's application, a later one does not touch what it finds.
KillsOwnOrOverlapping ==
    [][\A b \in Attempts : app[b] \in Live /\ app'[b] = "KILLED" =>
          \E a \in Attempts : /\ status'[a] # status[a] /\ id[a] = id[b]
                              /\ a = b \/ Position(b) > since[a]]_vars

\* poll() of the gateway that launched the kernel never takes a running YARN application for
\* gone when the resource manager does not answer: the restarter would start the kernel a
\* second time.
LivePolledAlive ==
    \A a \in Attempts : kind = "yarn" /\ a \in lost /\ appId[a] = a => app[a] \notin Live
=============================================================================
