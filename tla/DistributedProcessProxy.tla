----------------------- MODULE DistributedProcessProxy -----------------------
(***************************************************************************)
(* DistributedProcessProxy and TrackKernelOnHost                           *)
(* (services/processproxies/distributed.py): a launch picks its host by    *)
(* round-robin over the hosts of its kernelspec, or takes the one with the *)
(* fewest kernels according to a table that all proxies share.             *)
(***************************************************************************)
EXTENDS RemoteProcessProxy, Integers

CONSTANTS
    Hosts,       \* every host name
    HostLists,   \* the remote_hosts of the kernelspecs (their override or the default)
    Absent       \* a host that is not a key of _host_kernels

ASSUME HostAssumption ==
    /\ IsFiniteSet(Hosts) /\ None \notin Hosts /\ Absent \notin Int
    /\ HostLists \subseteq Seq(Hosts) \ {<<>>}

VARIABLES
    leastConnection,  \* load_balancing_algorithm == "least-connection"
    hostIndex,        \* DistributedProcessProxy.host_index
    hostKernels,      \* _host_kernels
    kernelHost        \* _kernel_host_mapping

placeVars == <<hostIndex, hostKernels, kernelHost>>
vars == <<launchVars, leastConnection, placeVars>>

TypeOK ==
    /\ LaunchTypeOK
    /\ leastConnection \in BOOLEAN
    /\ hostIndex \in Nat
    /\ hostKernels \in [Hosts -> Int \cup {Absent}]
    /\ kernelHost \in [Ids -> Hosts \cup {None}]

Init ==
    /\ LaunchInit
    /\ leastConnection \in BOOLEAN
    /\ hostIndex = 0
    /\ hostKernels = [h \in Hosts |-> Absent]
    /\ kernelHost = [k \in Ids |-> None]

-----------------------------------------------------------------------------
(* TrackKernelOnHost *)

Keys(table) == {h \in Hosts : table[h] # Absent}
Elements(list) == {list[i] : i \in 1..Len(list)}

\* init_host_kernels: only the first proxy of the server process gets to set the keys
InitHostKernels(list) ==
    IF leastConnection /\ Keys(hostKernels) = {}
    THEN [h \in Hosts |-> IF h \in Elements(list) THEN 0 ELSE Absent]
    ELSE hostKernels

\* increment / decrement: an unknown host counts from 0
Add(table, h, d) == [table EXCEPT ![h] = (IF @ = Absent THEN 0 ELSE @) + d]

\* min_or_remote_host: the keys of the table that have the lowest count
LeastLoaded(table) ==
    {h \in Keys(table) : \A g \in Keys(table) : table[h] <= table[g]}

\* mutant: the mapping's entry is left after the decrement
DeleteKernelIdKeep(k) ==
    /\ hostKernels' = IF kernelHost[k] = None THEN hostKernels
                      ELSE Add(hostKernels, kernelHost[k], -1)
    /\ UNCHANGED kernelHost

\* delete_kernel_id
DeleteKernelId(k) ==
    /\ hostKernels' = IF kernelHost[k] = None THEN hostKernels
                      ELSE Add(hostKernels, kernelHost[k], -1)
    /\ kernelHost' = [kernelHost EXCEPT ![k] = None]

-----------------------------------------------------------------------------
(* DistributedProcessProxy *)

\* _determine_next_host returns h, with its effects: remote is KERNEL_REMOTE_HOST
DetermineNextHost(k, list, remote, h) ==
    LET table == InitHostKernels(list)
    IN  /\ h \in IF remote # None THEN {remote}
                 ELSE IF leastConnection THEN LeastLoaded(table)
                 ELSE {list[(hostIndex % Len(list)) + 1]}
        /\ IF leastConnection
           THEN /\ hostKernels' = Add(table, h, 1)
                /\ kernelHost' = [kernelHost EXCEPT ![k] = h]
                /\ UNCHANGED hostIndex
           ELSE /\ hostIndex' = hostIndex + 1
                /\ UNCHANGED <<hostKernels, kernelHost>>

\* launch_process, with the process started ...
LaunchProcess(a, k, list, remote, h) ==
    /\ BeginLaunch(a, k, 0)
    /\ DetermineNextHost(k, list, remote, h)
    /\ UNCHANGED leastConnection

\* ... with the start raising after the host was picked (the table keeps the kernel) ...
LaunchRaises(a, k, list, remote, h, left) ==
    /\ BeginFails(a, k, left)
    /\ DetermineNextHost(k, list, remote, h)
    /\ UNCHANGED leastConnection

\* ... or refused by _enforce_authorization, before that
LaunchRefused(a, k, list) ==
    /\ BeginFails(a, k, "none")
    /\ hostKernels' = InitHostKernels(list)
    /\ UNCHANGED <<leastConnection, hostIndex, kernelHost>>

\* cleanup of a kernel that has been stopped: _unregister_assigned_host
Cleanup(a) ==
    /\ StopKernel(a, {info[a]})
    /\ IF leastConnection THEN DeleteKernelId(kid[a]) ELSE UNCHANGED <<hostKernels, kernelHost>>
    /\ UNCHANGED <<leastConnection, hostIndex>>

\* the steps of a launch that the host table has no part in; kill() signals the pid that
\* the start over ssh returned
LaunchStep ==
    \/ CommonStep
    \/ \E a \in Attempts :
          \/ \E ok \in BOOLEAN : Respond(a, ok) \/ WakeUp(a, ok, {a})
          \/ ProcessExits(a) \/ StartWaiting(a, {a}) \/ HandleTimeout(a) \/ KillReturns(a, {a})

Next ==
    \/ LaunchStep /\ UNCHANGED <<leastConnection, placeVars>>
    \/ \E a \in Attempts, k \in Ids, list \in HostLists :
          \/ LaunchRefused(a, k, list)
          \/ \E remote \in Hosts \cup {None}, h \in Hosts :
                \/ LaunchProcess(a, k, list, remote, h)
                \/ \E left \in {"none", "starting"} : LaunchRaises(a, k, list, remote, h, left)
    \/ \E a \in Attempts : Cleanup(a)

Spec == Init /\ [][Next]_vars

\* The event loop runs every coroutine that is ready, its timers expire and the thread
\* that runs kill() ends (its polling is bounded); the socket, launchers and clients are
\* under no obligation.
Fairness ==
    \A a \in Attempts :
        /\ WF_vars((StartWaiting(a, {a}) \/ HandleTimeout(a)) /\ UNCHANGED <<leastConnection, placeVars>>)
        /\ WF_vars(WaitTimesOut(a) /\ UNCHANGED <<leastConnection, placeVars>>)
        /\ WF_vars(KillReturns(a, {a}) /\ UNCHANGED <<leastConnection, placeVars>>)

FairSpec == Spec /\ Fairness

-----------------------------------------------------------------------------
\* The table never counts fewer kernels on a host than it maps to the host, whatever
\* launches fail, are retried under the same id or are cleaned up twice: delete_kernel_id
\* never takes a count below what is still to be taken from it.
CountsCover ==
    \A h \in Keys(hostKernels) :
        hostKernels[h] >= Cardinality({k \in Ids : kernelHost[k] = h})
=============================================================================
