---------------------------- MODULE KernelLaunch ----------------------------
(***************************************************************************)
(* What launch_process of a process proxy promises the kernel manager that *)
(* awaits it, whatever the cluster, the response socket and other launches *)
(* do: a launch succeeds with the connection information of a launcher     *)
(* that was started under the same kernel id and that no other launch has  *)
(* been given, or it raises.  The proxy modules implement this.            *)
(***************************************************************************)
CONSTANTS Attempts, Ids, None

VARIABLES
    status,  \* status[a]: "idle", "launching", "ready", "failed" or "stopped"
    id,      \* id[a]: the kernel id a was launched under
    conn     \* conn[a]: the attempt whose launcher's connection info a was given

vars == <<status, id, conn>>

Init ==
    /\ status = [a \in Attempts |-> "idle"]
    /\ id = [a \in Attempts |-> None]
    /\ conn = [a \in Attempts |-> None]

\* launch_process is called for kernel k and awaits, or raises at once
Begin(a, k, s) ==
    /\ status[a] = "idle" /\ s \in {"launching", "failed"}
    /\ status' = [status EXCEPT ![a] = s]
    /\ id' = [id EXCEPT ![a] = k]
    /\ UNCHANGED conn

\* it returns with the connection info of p
Succeed(a, p) ==
    /\ status[a] = "launching"
    /\ status[p] # "idle" /\ id[p] = id[a]
    /\ \A b \in Attempts : conn[b] # p
    /\ status' = [status EXCEPT ![a] = "ready"]
    /\ conn' = [conn EXCEPT ![a] = p]
    /\ UNCHANGED id

Fail(a) ==
    /\ status[a] = "launching"
    /\ status' = [status EXCEPT ![a] = "failed"]
    /\ UNCHANGED <<id, conn>>

\* the kernel is shut down
Stop(a) ==
    /\ status[a] = "ready"
    /\ status' = [status EXCEPT ![a] = "stopped"]
    /\ UNCHANGED <<id, conn>>

Next ==
    \E a \in Attempts :
        \/ \E k \in Ids, s \in {"launching", "failed"} : Begin(a, k, s)
        \/ \E p \in Attempts : Succeed(a, p)
        \/ Fail(a) \/ Stop(a)

Spec == Init /\ [][Next]_vars
=============================================================================
