---------------------------- MODULE SessionManager ----------------------------
(***************************************************************************)
(* Notebook sessions (services/sessions/sessionmanager.py) beside the      *)
(* POSTs of MainKernelHandler.                                             *)
(*                                                                         *)
(* A session is a row in a list, with a kernel started for it through      *)
(* kernel_manager.start_kernel, the attribute that overlapping POSTs       *)
(* replace.  A row is made after the await of the launch and removed after *)
(* the await of the shutdown; kernels also go without their session, and   *)
(* then the row is dropped by the next query that meets it.                *)
(* The session of request r has r for its id.                              *)
(***************************************************************************)
EXTENDS MainKernelHandler, Sequences, SequencesExt

CONSTANTS
    Paths,         \* notebook paths
    Deletes,       \* slots for DELETE requests under way
    MaxPatches,    \* bound on PATCH requests, one per session
    NoSession

ASSUME SessionAssumption ==
    IsFiniteSet(Deletes) /\ MaxPatches \in Nat /\ NoSession \notin Requests

SessionPosts == Requests \ Posts

VARIABLES
    rows,          \* _sessions
    path,          \* path[r]: the path r asks a session for
    deleting,      \* deleting[d]: the session and the kernel delete_session awaits
    during,        \* history: during[r], the session POSTs under way when r began its own
    patched        \* history: the sessions update_session has changed

rowVars == <<rows, path, deleting, during, patched>>
sessionVars == <<vars, rowVars>>

Row == [id : SessionPosts, path : Paths, kernel : Requests]
NoDelete == [id |-> NoSession, kernel |-> NoSession]

SessionTypeOK ==
    /\ TypeOK
    /\ rows \in Seq(Row)
    /\ path \in [SessionPosts -> Paths]
    /\ deleting \in [Deletes -> [id : SessionPosts, kernel : Requests] \cup {NoDelete}]
    /\ during \in [SessionPosts -> SUBSET SessionPosts] /\ patched \subseteq SessionPosts

SessionInit ==
    /\ Init
    /\ rows = <<>> /\ path \in [SessionPosts -> Paths]
    /\ deleting = [d \in Deletes |-> NoDelete]
    /\ during = [r \in SessionPosts |-> {}] /\ patched = {}

-----------------------------------------------------------------------------
\* get_session_by_key finds the first match; 0 when there is none
RowOf(id) == SelectInSeq(rows, LAMBDA row : row.id = id)
RowAt(p) == SelectInSeq(rows, LAMBDA row : row.path = p)

\* _sessions.remove: the first match goes; a session that is not there leaves the list alone
Without(id) == IF RowOf(id) = 0 THEN rows ELSE RemoveAt(rows, RowOf(id))

Stale(i) == rows[i].kernel \notin managed

\* row_to_model of row i: a row whose kernel has gone is dropped, and the query raises
RowToModel(i) == rows' = IF Stale(i) THEN RemoveAt(rows, i) ELSE rows

\* mutant: only sessions with a kernel count
SessionExistsLive(p) == \E i \in 1..Len(rows) : rows[i].path = p /\ ~Stale(i)

\* a row whose kernel has gone counts too
SessionExists(p) == RowAt(p) # 0

\* POST /api/sessions for a path that has a session: the handler answers with get_session
ExistingSession(r) ==
    /\ pc[r] = "new" /\ SessionExists(path[r])
    /\ RowToModel(RowAt(path[r]))
    /\ pc' = [pc EXCEPT ![r] = "done"]
    /\ UNCHANGED <<startAttr, orig, envOf, managed, path, deleting, during, patched>>

\* ... and for one that has none, to the await of create_session
CreateSession(r) ==
    /\ pc[r] = "new" /\ ~SessionExists(path[r])
    /\ StartKernel(r)
    /\ during' = [during EXCEPT ![r] = {s \in SessionPosts : pc[s] = "awaiting"}]
    /\ UNCHANGED <<rows, path, deleting, patched>>

\* start_kernel returns and save_session appends the row, or it raises; a kernel that has
\* gone before the coroutine resumes leaves no row either (save_session ends in get_session)
SessionStarted(r, ok) ==
    /\ pc[r] = "awaiting"
    /\ pc' = [pc EXCEPT ![r] = "done"]
    /\ IF ok
       THEN /\ managed' = managed \cup {r}
            /\ rows' = Append(rows, [id |-> r, path |-> path[r], kernel |-> r])
       ELSE UNCHANGED <<managed, rows>>
    /\ UNCHANGED <<startAttr, orig, envOf, path, deleting, during, patched>>

\* GET of one session
GetSession(id) ==
    /\ RowOf(id) # 0
    /\ RowToModel(RowOf(id))
    /\ UNCHANGED <<vars, path, deleting, during, patched>>

\* GET of all: row_to_model of each in turn, up to the first that raises
ListSessions ==
    LET stale == {i \in 1..Len(rows) : Stale(i)}
    IN  /\ stale # {}
        /\ RowToModel(Min(stale))
        /\ UNCHANGED <<vars, path, deleting, during, patched>>

\* PATCH: the row goes to the end of the list, with another path or kernel
UpdateSession(id, p, k) ==
    /\ id \notin patched /\ Cardinality(patched) < MaxPatches
    /\ RowOf(id) # 0 /\ k \in managed \cup {rows[RowOf(id)].kernel}
    /\ rows' = Append(Without(id), [id |-> id, path |-> p, kernel |-> k])
    /\ patched' = patched \cup {id}
    /\ UNCHANGED <<vars, path, deleting, during>>

\* DELETE, to the await of shutdown_kernel, which refuses a kernel it does not manage
DeleteSession(d, id) ==
    /\ deleting[d] = NoDelete /\ RowOf(id) # 0 /\ ~Stale(RowOf(id))
    /\ deleting' = [deleting EXCEPT ![d] = [id |-> id, kernel |-> rows[RowOf(id)].kernel]]
    /\ UNCHANGED <<vars, rows, path, during, patched>>

\* the shutdown is over: the row is removed, unless a query or another DELETE has done so
\* (ValueError)
DeleteReturns(d) ==
    /\ deleting[d] # NoDelete /\ deleting[d].kernel \notin managed
    /\ rows' = Without(deleting[d].id)
    /\ deleting' = [deleting EXCEPT ![d] = NoDelete]
    /\ UNCHANGED <<vars, path, during, patched>>

\* mutant: the row is removed in a finally clause
DeleteRaisesDropping(d) ==
    /\ deleting[d] # NoDelete
    /\ rows' = Without(deleting[d].id)
    /\ deleting' = [deleting EXCEPT ![d] = NoDelete]
    /\ UNCHANGED <<vars, path, during, patched>>

\* the shutdown raises: the kernel is gone already, or is not to be stopped
DeleteRaises(d) ==
    /\ deleting[d] # NoDelete
    /\ deleting' = [deleting EXCEPT ![d] = NoDelete]
    /\ UNCHANGED <<vars, rows, path, during, patched>>

SessionNext ==
    \/ Next /\ UNCHANGED rowVars
    \/ ListSessions
    \/ \E r \in SessionPosts :
          \/ ExistingSession(r) \/ CreateSession(r) \/ GetSession(r)
          \/ \E ok \in BOOLEAN : SessionStarted(r, ok)
          \/ \E p \in Paths, k \in Requests : UpdateSession(r, p, k)
          \/ \E d \in Deletes : DeleteSession(d, r)
    \/ \E d \in Deletes : DeleteReturns(d) \/ DeleteRaises(d)

SessionSpec == SessionInit /\ [][SessionNext]_sessionVars

-----------------------------------------------------------------------------
\* A kernel started for a session that nobody has patched is reachable through it for as
\* long as the gateway has it: no query, no overlapping or failing DELETE takes the row away
\* before the kernel (row_to_model, delete_session).
SessionKernelListed ==
    \A r \in SessionPosts \ patched :
        pc[r] = "done" /\ r \in managed => \E i \in 1..Len(rows) : rows[i].id = r /\ rows[i].kernel = r

\* Two sessions have the same path only if one was being created when the other was asked
\* for, or after a PATCH (session_exists is asked before the await of the launch).
SamePathIsOverlap ==
    \A i, j \in 1..Len(rows) :
        i # j /\ rows[i].path = rows[j].path =>
            \/ rows[i].id \in during[rows[j].id] \/ rows[j].id \in during[rows[i].id]
            \/ {rows[i].id, rows[j].id} \cap patched # {}
=============================================================================
