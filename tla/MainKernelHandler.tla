-------------------------- MODULE MainKernelHandler --------------------------
(***************************************************************************)
(* POST /api/kernels (services/kernels/handlers.py, MainKernelHandler).    *)
(*                                                                         *)
(* jupyter_server's handler calls kernel_manager.start_kernel without the  *)
(* request's env, so post() replaces that attribute by a partial that adds *)
(* the env, awaits the parent handler, and puts back what it found.  The   *)
(* attribute is shared by all requests; the await lets them overlap.       *)
(*                                                                         *)
(* functools.partial flattens: a partial of a partial keeps the outer env. *)
(* The attribute is therefore its outermost env, or Bound for the method.  *)
(***************************************************************************)
EXTENDS Naturals, FiniteSets

CONSTANTS
    Requests,      \* requests that start a kernel, which is named after its request
    Posts,         \* POST /api/kernels; the others come from elsewhere (SessionManager)
    WithEnv,       \* those whose body has an "env", each its own
    Rejected,      \* those whose env _build_kernel_env refuses (400)
    MaxKernels,    \* eg_max_kernels
    Bound,         \* the attribute's original value, the bound method
    NoEnv          \* a kernel started without any request's env

ASSUME HandlerAssumption ==
    /\ IsFiniteSet(Requests) /\ Rejected \subseteq WithEnv
    /\ WithEnv \subseteq Posts /\ Posts \subseteq Requests
    /\ MaxKernels \in Nat /\ Bound \notin Requests /\ NoEnv \notin Requests

VARIABLES
    pc,         \* pc[r]: "new", "awaiting" (in the parent's post), "done"
    startAttr,  \* kernel_manager.start_kernel
    orig,       \* orig[r]: what post() of r saved in orig_start
    envOf,      \* envOf[r]: the request whose env r's kernel is started with
    managed     \* the kernels that list_kernels() returns

vars == <<pc, startAttr, orig, envOf, managed>>

Attr == Requests \cup {Bound}

TypeOK ==
    /\ pc \in [Requests -> {"new", "awaiting", "done"}]
    /\ startAttr \in Attr
    /\ orig \in [Requests -> Attr]
    /\ envOf \in [Requests -> Requests \cup {NoEnv}]
    /\ managed \subseteq Requests

Init ==
    /\ pc = [r \in Requests |-> "new"]
    /\ startAttr = Bound
    /\ orig = [r \in Requests |-> Bound]
    /\ envOf = [r \in Requests |-> NoEnv]
    /\ managed = {}

\* the first check of post(), then _build_kernel_env: 403 or 400
Refused(r) == Cardinality(managed) >= MaxKernels \/ r \in Rejected

PostRefused(r) ==
    /\ pc[r] = "new" /\ Refused(r)
    /\ pc' = [pc EXCEPT ![r] = "done"]
    /\ UNCHANGED <<startAttr, orig, envOf, managed>>

\* a body with an env: install the partial, over whatever is there; the parent's post()
\* calls it at once, before the first suspension
PostWithEnv(r) ==
    /\ pc[r] = "new" /\ ~Refused(r) /\ r \in WithEnv
    /\ orig' = [orig EXCEPT ![r] = startAttr]
    /\ startAttr' = r
    /\ envOf' = [envOf EXCEPT ![r] = r]
    /\ pc' = [pc EXCEPT ![r] = "awaiting"]
    /\ UNCHANGED managed

\* start_kernel is called without an env: through whatever the attribute holds
StartKernel(r) ==
    /\ envOf' = [envOf EXCEPT ![r] = IF startAttr = Bound THEN NoEnv ELSE startAttr]
    /\ pc' = [pc EXCEPT ![r] = "awaiting"]
    /\ UNCHANGED <<startAttr, orig, managed>>

\* a body without env
PostPlain(r) ==
    /\ pc[r] = "new" /\ ~Refused(r) /\ r \notin WithEnv
    /\ StartKernel(r)

\* mutant: the attribute is put back only when the kernel started
RestoreOnSuccess(r, ok) == IF r \in WithEnv /\ ok THEN orig[r] ELSE startAttr

\* the finally clause of post()
Restore(r, ok) == IF r \in WithEnv THEN orig[r] ELSE startAttr

\* the parent's post() returns or raises
PostEnds(r, ok) ==
    /\ pc[r] = "awaiting"
    /\ startAttr' = Restore(r, ok)
    /\ managed' = IF ok THEN managed \cup {r} ELSE managed
    /\ pc' = [pc EXCEPT ![r] = "done"]
    /\ UNCHANGED <<orig, envOf>>

\* a kernel is shut down
KernelGone(r) ==
    /\ r \in managed
    /\ managed' = managed \ {r}
    /\ UNCHANGED <<pc, startAttr, orig, envOf>>

Next ==
    \/ \E r \in Posts : PostRefused(r) \/ PostWithEnv(r) \/ PostPlain(r)
    \/ \E r \in Posts, ok \in BOOLEAN : PostEnds(r, ok)
    \/ \E r \in Requests : KernelGone(r)

Spec == Init /\ [][Next]_vars

-----------------------------------------------------------------------------
\* Another request saved the partial of r, to put it back when its own POST ends.
SavedByAnother(r) == \E s \in WithEnv \ {r} : pc[s] # "new" /\ orig[s] = r

\* The partial of a request that has ended is installed only if that request was still
\* running when another one saved the attribute: POSTs that do not overlap leave nothing
\* (the save and the restore of kernel_manager.start_kernel in post()).
LeftoverIsOverlap ==
    \A r \in Requests : startAttr = r /\ pc[r] = "done" => SavedByAnother(r)

\* A kernel is started with the env of a request that is not its own, by a POST without
\* env or by a session, only while the POST of that request is running or after an
\* overlap put its partial back: a POST that failed or ended alone lends its env to nobody
\* (the partial of post(), the call of start_kernel in create_session).
BorrowedEnvIsOverlap ==
    [][\A r \in Requests : envOf'[r] # envOf[r] /\ envOf'[r] \in Requests \ {r} =>
          pc[envOf'[r]] = "awaiting" \/ SavedByAnother(envOf'[r])]_vars
=============================================================================
