------------------------- MODULE KernelManagerProofs -------------------------
(***************************************************************************)
(* Proofs about RemoteMappingKernelManager, for any finite sets of         *)
(* requests, kernel ids and users, any number of concurrent operations and *)
(* any limits.                                                             *)
(***************************************************************************)
EXTENDS RemoteMappingKernelManager, FiniteSetTheorems, TLAPS

-----------------------------------------------------------------------------
(* Type correctness, together with the links between requests and the      *)
(* places that mention the instances they create.                          *)

Instance(r, k) == start[r].pc # "idle" /\ start[r].id = k

\* Accepted requests have a user and an id; every instance mentioned anywhere is
\* the instance of an accepted request, for the id under which it is mentioned.
Linked ==
    /\ \A r \in Requests :
          start[r].pc # "idle" => start[r].user \in Users /\ start[r].id \in Ids
    /\ \A r \in watched : start[r].pc # "idle"
    /\ \A k \in Ids : kernels[k] # NoKM => Instance(kernels[k], k)
    /\ \A k \in Ids : sessions[k] # NoSession => Instance(sessions[k].km, k)
    /\ \A k \in Ids : store[k] # NoSession => Instance(store[k].km, k)
    /\ \A o \in Ops : op[o] # Idle => start[op[o].km].pc # "idle"

\* What every step leaves of an accepted request: its user, its id, its acceptance.
Settled ==
    \A r \in Requests : start[r].pc # "idle" =>
        /\ start'[r].pc # "idle"
        /\ start'[r].user = start[r].user /\ start'[r].id = start[r].id

\* The initial state is well typed and mentions no instance.
LEMMA InitTyped == Init => TypeOK /\ Linked
  BY ConstantsAssumption DEF Init, TypeOK, Linked, StartPC, OpRecord, Idle

\* No step un-accepts a request or changes its user or kernel id.
LEMMA SettledStep == TypeOK /\ [Next]_vars => Settled
<1> SUFFICES ASSUME TypeOK, [Next]_vars PROVE Settled
  OBVIOUS
<1> USE DEF TypeOK, Settled, StartPC
<1>1. CASE start' = start
  BY <1>1
<1>2. ASSUME NEW r \in Requests, NEW u \in Users, NEW k \in Ids,
             StartKernel(r, u, k) \/ StartRejected(r, u, k)
      PROVE  Settled
  BY <1>2 DEF StartKernel, StartRejected
<1>3. ASSUME NEW r \in Requests, Launched(r) \/ LaunchFailed(r)
      PROVE  Settled
  BY <1>3 DEF Launched, LaunchFailed
<1>4. ASSUME NEW r \in Requests, StartReturns(r)
      PROVE  Settled
  <2>1. \/ start' = [start EXCEPT ![r].pc = "done"]
        \/ start' = [start EXCEPT ![r].pc = "failed"]
    BY <1>4 DEF StartReturns
  <2> QED BY <2>1
<1>5. ASSUME NEW started \in SUBSET Relaunching, Crash(started)
      PROVE  Settled
  BY <1>5 DEF Crash, InFlight
<1>6. ASSUME ~\E started \in SUBSET Relaunching : Crash(started),
             ~\E r \in Requests, u \in Users, k \in Ids :
                StartKernel(r, u, k) \/ StartRejected(r, u, k),
             ~\E r \in Requests : Launched(r) \/ LaunchFailed(r) \/ StartReturns(r)
      PROVE  start' = start
  <2>1. CASE UNCHANGED vars
    BY <2>1 DEF vars
  <2>2. CASE Next
    BY <1>6, <2>2 DEF Next, AutoDead, ProcessDies, ShutdownKernel, RestartKernel,
       ShutdownFinished, WaitEnds, WaitTimesOut, RestartStopped, Relaunched,
       RelaunchFailed, RestartReturns, AutoRestart, AutoShutdown, CheckKernelId, Boot
  <2> QED BY <2>1, <2>2
<1> QED BY <1>1, <1>2, <1>3, <1>4, <1>5, <1>6

\* Counting the launches in progress gives naturals.
LEMMA CountsAreNat ==
    ASSUME TypeOK
    PROVE  /\ IsFiniteSet(InFlightAll) /\ Cardinality(InFlightAll) \in Nat
           /\ \A u \in Users : /\ IsFiniteSet(InFlightOf(u))
                               /\ Cardinality(InFlightOf(u)) \in Nat
<1>1. IsFiniteSet(InFlightAll)
  BY FS_Subset, ConstantsAssumption DEF InFlightAll
<1>2. ASSUME NEW u \in Users
      PROVE  IsFiniteSet(InFlightOf(u))
  BY <1>1, FS_Subset DEF InFlightOf
<1> QED BY <1>1, <1>2, FS_CardinalityType

\* Each pending counter moves with the set of launches in progress: +1 when a request is
\* accepted, -1 in every way its start_kernel coroutine can end.
LEMMA PendingStep == TypeOK /\ Linked /\ PendingExact /\ [Next]_vars => PendingExact'
<1> SUFFICES ASSUME TypeOK, Linked, PendingExact, [Next]_vars PROVE PendingExact'
  OBVIOUS
<1> USE DEF InFlight
<1>0. /\ IsFiniteSet(InFlightAll) /\ Cardinality(InFlightAll) \in Nat
      /\ \A u \in Users : IsFiniteSet(InFlightOf(u)) /\ Cardinality(InFlightOf(u)) \in Nat
  BY CountsAreNat
<1>a. ASSUME InFlightAll' = InFlightAll, \A u \in Users : InFlightOf(u)' = InFlightOf(u),
             UNCHANGED pendVars
      PROVE  PendingExact'
  BY <1>a DEF PendingExact, pendVars
<1>b. ASSUME NEW r \in Requests, NEW v \in Users, start[r].user = v, r \in InFlightAll,
             start' = [start EXCEPT ![r].pc = start'[r].pc], ~InFlight(start'[r].pc),
             Decrement(v)
      PROVE  PendingExact'
  <2>1. InFlightAll' = InFlightAll \ {r}
    BY <1>b DEF InFlightAll, TypeOK
  <2>a. \A x \in Requests : start'[x].user = start[x].user
    BY <1>b DEF TypeOK
  <2>2. \A u \in Users : InFlightOf(u)' = IF u = v THEN InFlightOf(u) \ {r} ELSE InFlightOf(u)
    <3> TAKE u \in Users
    <3>1. InFlightOf(u)' = {x \in InFlightAll \ {r} : start[x].user = u}
      BY <2>1, <2>a DEF InFlightOf, InFlightAll
    <3> QED BY <3>1, <1>b DEF InFlightOf
  <2>3. r \in InFlightOf(v)
    BY <1>b DEF InFlightOf
  <2>4. Cardinality(InFlightAll') = Cardinality(InFlightAll) - 1
    BY <1>b, <1>0, <2>1, FS_RemoveElement
  <2>5. Cardinality(InFlightOf(v)') = Cardinality(InFlightOf(v)) - 1
    BY <1>b, <1>0, <2>2, <2>3, FS_RemoveElement
  <2> QED BY <1>b, <1>0, <2>2, <2>4, <2>5 DEF PendingExact, Decrement, TypeOK
<1>1. CASE start' = start /\ UNCHANGED pendVars
  BY <1>1, <1>a DEF InFlightAll, InFlightOf
<1>2. ASSUME NEW r \in Requests, NEW u \in Users, NEW k \in Ids, StartKernel(r, u, k)
      PROVE  PendingExact'
  <2>1. r \notin InFlightAll /\ InFlightAll' = InFlightAll \cup {r}
    BY <1>2 DEF StartKernel, InFlightAll, TypeOK
  <2>2. \A v \in Users : InFlightOf(v)' = IF v = u THEN InFlightOf(v) \cup {r} ELSE InFlightOf(v)
    BY <1>2, <2>1 DEF StartKernel, InFlightAll, InFlightOf, TypeOK
  <2>3. Cardinality(InFlightAll') = Cardinality(InFlightAll) + 1
    BY <1>0, <2>1, FS_AddElement
  <2>4. Cardinality(InFlightOf(u)') = Cardinality(InFlightOf(u)) + 1
    BY <1>0, <2>1, <2>2, FS_AddElement, ZenonT(60) DEF InFlightOf
  <2> QED BY <1>2, <1>0, <2>2, <2>3, <2>4 DEF PendingExact, StartKernel, Increment, TypeOK
<1>3. ASSUME NEW r \in Requests, NEW u \in Users, NEW k \in Ids, StartRejected(r, u, k)
      PROVE  PendingExact'
  BY <1>3, <1>a DEF StartRejected, InFlightAll, InFlightOf, TypeOK
<1>4. ASSUME NEW r \in Requests, Launched(r)
      PROVE  PendingExact'
  BY <1>4, <1>a DEF Launched, InFlightAll, InFlightOf, TypeOK
<1>5. ASSUME NEW r \in Requests, LaunchFailed(r)
      PROVE  PendingExact'
  <2>1. r \in InFlightAll /\ start[r].user \in Users
    BY <1>5 DEF LaunchFailed, InFlightAll, Linked
  <2>2. PICK v \in Users : start[r].user = v
    BY <2>1
  <2> QED BY <1>5, <1>b, <2>1, <2>2, ZenonT(60) DEF LaunchFailed, TypeOK
<1>6. ASSUME NEW r \in Requests, StartReturns(r)
      PROVE  PendingExact'
  <2>1. r \in InFlightAll /\ start[r].user \in Users
    BY <1>6 DEF StartReturns, InFlightAll, Linked
  <2>2. PICK v \in Users : start[r].user = v
    BY <2>1
  <2> QED BY <1>6, <1>b, <2>1, <2>2 DEF StartReturns, TypeOK
<1>7. ASSUME NEW started \in SUBSET Relaunching, Crash(started)
      PROVE  PendingExact'
  <2>1. InFlightAll' = {} /\ \A u \in Users : InFlightOf(u)' = {}
    BY <1>7 DEF Crash, InFlightAll, InFlightOf, TypeOK
  <2> QED BY <1>7, <2>1, FS_EmptySet DEF PendingExact, Crash
<1>8. ASSUME ~\E started \in SUBSET Relaunching : Crash(started),
             ~\E r \in Requests, u \in Users, k \in Ids :
                StartKernel(r, u, k) \/ StartRejected(r, u, k),
             ~\E r \in Requests : Launched(r) \/ LaunchFailed(r) \/ StartReturns(r)
      PROVE  start' = start /\ UNCHANGED pendVars
  <2>1. CASE UNCHANGED vars
    BY <2>1 DEF vars, pendVars
  <2>2. CASE Next
    BY <1>8, <2>2 DEF Next, AutoDead, ProcessDies, ShutdownKernel, RestartKernel,
       ShutdownFinished, WaitEnds, WaitTimesOut, RestartStopped, Relaunched,
       RelaunchFailed, RestartReturns, AutoRestart, AutoShutdown, CheckKernelId, Boot
  <2> QED BY <2>1, <2>2
<1> QED BY <1>1, <1>2, <1>3, <1>4, <1>5, <1>6, <1>7, <1>8

\* _save_session keeps the session dictionary, the per-user lists and the store typed.
LEMMA SaveTyped ==
    ASSUME TypeOK, NEW k \in Ids, NEW s \in Session, SaveSession(k, s)
    PROVE  /\ sessions' \in [Ids -> Session \cup {NoSession}]
           /\ sessionsByUser' \in [Users -> SUBSET Ids]
           /\ store' \in [Ids -> Session \cup {NoSession}]
  BY DEF SaveSession, TypeOK, Session

\* delete_session keeps them well typed too.
LEMMA DeleteTyped ==
    ASSUME TypeOK, NEW k \in Ids, DeleteSession(k)
    PROVE  /\ sessions' \in [Ids -> Session \cup {NoSession}]
           /\ sessionsByUser' \in [Users -> SUBSET Ids]
           /\ store' \in [Ids -> Session \cup {NoSession}]
  BY DEF DeleteSession, TypeOK

\* A coroutine that is running has a kernel id and an instance.
LEMMA OpTyped ==
    ASSUME TypeOK, NEW o \in Ops, op[o].pc # "idle"
    PROVE  op[o] # Idle /\ op[o].id \in Ids /\ op[o].km \in Requests
  BY DEF TypeOK, OpRecord, Idle

\* Every step keeps the state well typed.
LEMMA TypeStep ==
    TypeOK /\ Linked /\ [Next]_vars /\ PendingExact' => TypeOK'
<1> SUFFICES ASSUME TypeOK, Linked, [Next]_vars, PendingExact' PROVE TypeOK'
  OBVIOUS
<1> USE DEF procVars, pendVars, sessVars
<1>p. start' \in [Requests -> [pc : StartPC, user : Users \cup {NoUser}, id : Ids \cup {NoId}]]
      => (pendingAll' \in Nat /\ \A u \in Users : pendingUser'[u] \in Nat)
  <2> SUFFICES /\ IsFiniteSet(InFlightAll')
               /\ \A u \in Users : IsFiniteSet(InFlightOf(u)')
    BY FS_CardinalityType DEF PendingExact
  <2>1. IsFiniteSet(InFlightAll')
    BY FS_Subset, ConstantsAssumption DEF InFlightAll
  <2> QED BY <2>1, FS_Subset DEF InFlightOf
<1>1. CASE UNCHANGED vars
  BY <1>1 DEF TypeOK, vars
<1>2. ASSUME NEW r \in Requests, NEW u \in Users, NEW k \in Ids,
             StartKernel(r, u, k) \/ StartRejected(r, u, k)
      PROVE  TypeOK'
  <2>1. start' \in [Requests -> [pc : StartPC, user : Users \cup {NoUser}, id : Ids \cup {NoId}]]
    BY <1>2 DEF StartKernel, StartRejected, TypeOK, StartPC
  <2>2. pendingAll' \in Nat /\ pendingUser' \in [Users -> Nat]
    <3>1. CASE StartKernel(r, u, k)
      BY <3>1 DEF StartKernel, Increment, TypeOK
    <3>2. CASE StartRejected(r, u, k)
      BY <3>2 DEF StartRejected, TypeOK
    <3> QED BY <1>2, <3>1, <3>2
  <2> QED BY <1>2, <2>1, <2>2 DEF StartKernel, StartRejected, TypeOK
<1>3. ASSUME NEW r \in Requests, Launched(r)
      PROVE  TypeOK'
  BY <1>3, ZenonT(40) DEF Launched, TypeOK, StartPC
<1>4. ASSUME NEW r \in Requests, LaunchFailed(r)
      PROVE  TypeOK'
  <2>1. start' \in [Requests -> [pc : StartPC, user : Users \cup {NoUser}, id : Ids \cup {NoId}]]
    BY <1>4, ZenonT(40) DEF LaunchFailed, TypeOK, StartPC
  <2>2. pendingUser' = [u \in Users |-> pendingUser'[u]]
    BY <1>4 DEF LaunchFailed, Decrement, TypeOK
  <2> QED BY <1>4, <1>p, <2>1, <2>2 DEF LaunchFailed, TypeOK
<1>5. ASSUME NEW r \in Requests, StartReturns(r)
      PROVE  TypeOK'
  <2>0. start[r].id \in Ids /\ start[r].user \in Users
    BY <1>5 DEF StartReturns, Linked
  <2>1. start' \in [Requests -> [pc : StartPC, user : Users \cup {NoUser}, id : Ids \cup {NoId}]]
    <3>1. \/ start' = [start EXCEPT ![r].pc = "done"]
          \/ start' = [start EXCEPT ![r].pc = "failed"]
      BY <1>5 DEF StartReturns
    <3> QED BY <3>1 DEF TypeOK, StartPC
  <2>2. pendingUser' = [u \in Users |-> pendingUser'[u]]
    BY <1>5 DEF StartReturns, Decrement, TypeOK
  <2>3. /\ sessions' \in [Ids -> Session \cup {NoSession}]
        /\ sessionsByUser' \in [Users -> SUBSET Ids]
        /\ store' \in [Ids -> Session \cup {NoSession}]
    <3>1. CASE UNCHANGED sessVars
      BY <3>1 DEF TypeOK
    <3>2. CASE kernels[start[r].id] # NoKM
      <4> DEFINE k == start[r].id
                 x == [user |-> start[r].user, km |-> kernels[k], gen |-> gen[kernels[k]]]
      <4>1. x \in Session
        BY <2>0, <3>2 DEF TypeOK, Session
      <4>2. SaveSession(k, x)
        BY <1>5, <3>2 DEF StartReturns
      <4> HIDE DEF x, k
      <4>3. k \in Ids
        BY <2>0 DEF k
      <4> QED BY <4>1, <4>2, <4>3 DEF SaveSession, TypeOK, Session
    <3> QED BY <1>5, <3>1, <3>2 DEF StartReturns
  <2> QED BY <1>5, <1>p, <2>1, <2>2, <2>3 DEF StartReturns, TypeOK
<1>6. ASSUME NEW r \in Requests, AutoDead(r)
      PROVE  TypeOK'
  <2>1. start[r].id \in Ids
    BY <1>6 DEF AutoDead, FoundDead, Linked, TypeOK
  <2> QED BY <1>6, <2>1 DEF AutoDead, RemoveKernel, DeleteSession, TypeOK
<1>7. ASSUME NEW r \in Requests, ProcessDies(r)
      PROVE  TypeOK'
  BY <1>7 DEF ProcessDies, TypeOK
<1>8. ASSUME NEW o \in Ops, NEW k \in Ids, ShutdownKernel(o, k)
      PROVE  TypeOK'
  BY <1>8 DEF ShutdownKernel, Wait, BeginStopping, TypeOK, OpRecord
<1>9. ASSUME NEW o \in Ops, NEW k \in Ids, RestartKernel(o, k)
      PROVE  TypeOK'
  BY <1>9, SMTT(60) DEF RestartKernel, Wait, TypeOK, OpRecord
<1>10. ASSUME NEW o \in Ops, ShutdownFinished(o)
       PROVE  TypeOK'
  <2>1. op[o].id \in Ids
    BY <1>10, OpTyped DEF ShutdownFinished
  <2> QED BY <1>10, <2>1 DEF ShutdownFinished, RemoveKernel, DeleteSession, TypeOK, OpRecord
<1>11. ASSUME NEW o \in Ops, WaitEnds(o) \/ WaitTimesOut(o)
       PROVE  TypeOK'
  <2>1. op[o].id \in Ids
    BY <1>11, OpTyped DEF WaitEnds, WaitTimesOut
  <2> QED BY <1>11, <2>1 DEF WaitEnds, WaitTimesOut, WaitReturns, BeginStopping, TypeOK, OpRecord
<1>12. ASSUME NEW o \in Ops, RestartStopped(o)
       PROVE  TypeOK'
  <2>1. op[o] \in OpRecord /\ op[o] # Idle
    BY <1>12, OpTyped DEF RestartStopped, TypeOK
  <2>2. op'[o] \in OpRecord
    BY <1>12, <2>1 DEF RestartStopped, TypeOK, OpRecord
  <2> QED BY <1>12, <2>2 DEF RestartStopped, TypeOK
<1>13. ASSUME NEW o \in Ops, Relaunched(o)
       PROVE  TypeOK'
  <2> DEFINE r == op[o].km
             k == op[o].id
             newGen == [gen EXCEPT ![r] = @ + 1]
  <2>1. op[o] \in OpRecord /\ op[o] # Idle /\ k \in Ids /\ r \in Requests
    BY <1>13, OpTyped DEF Relaunched, TypeOK
  <2>2. newGen \in [Requests -> 0..MaxGen] /\ gen' = newGen
    BY <1>13, <2>1, ConstantsAssumption DEF Relaunched, TypeOK
  <2>3. /\ sessions' \in [Ids -> Session \cup {NoSession}]
        /\ sessionsByUser' \in [Users -> SUBSET Ids]
        /\ store' \in [Ids -> Session \cup {NoSession}]
    <3>1. CASE Refreshable(k)
      <4> DEFINE x == [sessions[k] EXCEPT !.km = kernels[k], !.gen = newGen[kernels[k]]]
      <4>0. sessions[k] \in Session /\ kernels[k] \in Requests
        BY <2>1, <3>1 DEF Refreshable, TypeOK
      <4>1. x \in Session
        BY <4>0, <2>2 DEF Session
      <4>2. SaveSession(k, x)
        BY <1>13, <3>1 DEF Relaunched
      <4> HIDE DEF x
      <4> QED BY <2>1, <4>1, <4>2 DEF SaveSession, TypeOK, Session
    <3>2. CASE ~Refreshable(k)
      BY <1>13, <3>2 DEF Relaunched, TypeOK
    <3> QED BY <3>1, <3>2
  <2>4. op' \in [Ops -> OpRecord]
    <3>1. op' = [op EXCEPT ![o] = Idle] \/ op' = [op EXCEPT ![o].pc = "replying"]
      BY <1>13 DEF Relaunched
    <3> QED BY <2>1, <3>1, SMTT(60) DEF TypeOK, OpRecord
  <2>5. restarting' \subseteq Requests
    BY <1>13 DEF Relaunched, TypeOK
  <2>6. alive' \subseteq Requests /\ watched' \subseteq Requests
    BY <1>13, <2>1 DEF Relaunched, TypeOK
  <2> QED BY <1>13, <2>2, <2>3, <2>4, <2>5, <2>6 DEF Relaunched, TypeOK
<1>14. ASSUME NEW o \in Ops, RelaunchFailed(o) \/ RestartReturns(o)
       PROVE  TypeOK'
  BY <1>14 DEF RelaunchFailed, RestartReturns, TypeOK, OpRecord
<1>15. ASSUME NEW o \in Ops, NEW r \in Requests, AutoRestart(o, r)
       PROVE  TypeOK'
  <2>1. start[r].id \in Ids
    BY <1>15 DEF AutoRestart, FoundDead, Linked
  <2> QED BY <1>15, <2>1 DEF AutoRestart, TypeOK, OpRecord
<1>16. ASSUME NEW o \in Ops, NEW r \in Requests, AutoShutdown(o, r)
       PROVE  TypeOK'
  <2>1. start[r].id \in Ids
    BY <1>16 DEF AutoShutdown, FoundDead, Linked
  <2> QED BY <1>8, <1>16, <2>1 DEF AutoShutdown
<1>17. ASSUME NEW k \in Ids, CheckKernelId(k)
       PROVE  TypeOK'
  <2> DEFINE s == IF store[k] # NoSession THEN store[k] ELSE sessions[k]
  <2>1. CASE Mode = "replication" /\ Revivable(s)
    <3>1. s \in Session
      BY <2>1 DEF Revivable, TypeOK
    <3>2. s.km \in Requests
      BY <3>1 DEF Session
    <3> QED BY <1>17, <2>1, <3>1, <3>2 DEF CheckKernelId, TypeOK
  <2>2. CASE ~(Mode = "replication" /\ Revivable(s))
    BY <1>17, <2>2, SMTT(40) DEF CheckKernelId, DeleteSession, TypeOK
  <2> QED BY <2>1, <2>2
<1>18. ASSUME NEW started \in SUBSET Relaunching, Crash(started)
       PROVE  TypeOK'
  <2>1. start' \in [Requests -> [pc : StartPC, user : Users \cup {NoUser}, id : Ids \cup {NoId}]]
    BY <1>18, SMTT(40) DEF Crash, TypeOK, StartPC, InFlight
  <2>2. \A r \in started : r \in Requests /\ gen[r] + 1 \in 0..MaxGen
    <3>1. \A r \in started : \E o \in Ops : r = op[o].km /\ op[o].pc = "relaunching" /\ gen[r] < MaxGen
      BY <1>18 DEF Relaunching
    <3>2. \A o \in Ops : op[o].pc = "relaunching" => op[o].km \in Requests
      BY DEF TypeOK, OpRecord, Idle
    <3> QED BY <3>1, <3>2, ConstantsAssumption DEF TypeOK
  <2>3. alive' \subseteq Requests /\ gen' \in [Requests -> 0..MaxGen]
    BY <1>18, <2>2 DEF Crash, TypeOK
  <2> QED BY <1>18, <2>1, <2>3 DEF Crash, TypeOK, OpRecord
<1>19. CASE Boot
  <2>1. \A k \in Ids : Revivable(store[k]) => store[k] \in Session /\ store[k].km \in Requests
    BY DEF Revivable, TypeOK, Session
  <2> QED BY <1>19, <2>1 DEF Boot, TypeOK
<1> QED
  BY <1>1, <1>2, <1>3, <1>4, <1>5, <1>6, <1>7, <1>8, <1>9, <1>10, <1>11, <1>12, <1>13,
     <1>14, <1>15, <1>16, <1>17, <1>18, <1>19 DEF Next

\* Instances are only ever mentioned under the id of the request that created them.
LEMMA LinkedStep == TypeOK /\ Linked /\ [Next]_vars => Linked'
<1> SUFFICES ASSUME TypeOK, Linked, [Next]_vars PROVE Linked'
  OBVIOUS
<1> USE DEF procVars, pendVars, sessVars
<1>s. Settled
  BY SettledStep
<1>a. ASSUME NEW k \in Ids, DeleteSession(k), UNCHANGED <<start, op>>, watched' \subseteq watched,
             kernels' = kernels \/ kernels' = [kernels EXCEPT ![k] = NoKM]
      PROVE  Linked'
  BY <1>a DEF DeleteSession, Linked, Instance, TypeOK
<1>1. CASE UNCHANGED vars
  BY <1>1 DEF Linked, Instance, vars
<1>2. ASSUME NEW r \in Requests, NEW u \in Users, NEW k \in Ids,
             StartKernel(r, u, k) \/ StartRejected(r, u, k)
      PROVE  Linked'
  <2>1. \A x \in Requests :
          start'[x].pc # "idle" => start'[x].user \in Users /\ start'[x].id \in Ids
    <3>1. PICK c \in {"launching", "failed"} :
            start' = [start EXCEPT ![r] = [pc |-> c, user |-> u, id |-> k]]
      BY <1>2 DEF StartKernel, StartRejected
    <3>2. \A x \in Requests : start'[x] = IF x = r THEN [pc |-> c, user |-> u, id |-> k] ELSE start[x]
      BY <3>1 DEF TypeOK
    <3> QED BY <3>2 DEF Linked
  <2>2. UNCHANGED <<kernels, watched, sessions, store, op>>
    BY <1>2 DEF StartKernel, StartRejected
  <2>3. \A k1 \in Ids : /\ kernels[k1] # NoKM => kernels[k1] \in Requests
                        /\ sessions[k1] # NoSession => sessions[k1].km \in Requests
                        /\ store[k1] # NoSession => store[k1].km \in Requests
    BY DEF TypeOK, Session
  <2>4. \A o \in Ops : op[o] # Idle => op[o].km \in Requests
    BY DEF TypeOK, OpRecord
  <2> QED BY <1>s, <2>1, <2>2, <2>3, <2>4 DEF Linked, Instance, Settled, TypeOK
<1>3. ASSUME NEW r \in Requests, Launched(r)
      PROVE  Linked'
  <2>0. start[r].id \in Ids /\ start[r].pc # "idle"
    BY <1>3 DEF Launched, Linked
  <2>1. \A x \in Requests : /\ start'[x].pc # "idle" <=> start[x].pc # "idle"
                            /\ start'[x].user = start[x].user /\ start'[x].id = start[x].id
    BY <1>3 DEF Launched, TypeOK
  <2>2. \A k1 \in Ids : /\ kernels[k1] # NoKM => kernels[k1] \in Requests
                        /\ sessions[k1] # NoSession => sessions[k1].km \in Requests
                        /\ store[k1] # NoSession => store[k1].km \in Requests
    BY DEF TypeOK, Session
  <2>3. \A o \in Ops : op[o] # Idle => op[o].km \in Requests
    BY DEF TypeOK, OpRecord
  <2>4. /\ kernels' = [kernels EXCEPT ![start[r].id] = r]
        /\ watched' = watched \cup {r}
        /\ UNCHANGED <<sessions, store, op>>
    BY <1>3 DEF Launched
  <2> QED BY <2>0, <2>1, <2>2, <2>3, <2>4 DEF Linked, Instance, TypeOK
<1>4. ASSUME NEW r \in Requests, LaunchFailed(r)
      PROVE  Linked'
  <2>1. \A x \in Requests : /\ start'[x].pc # "idle" <=> start[x].pc # "idle"
                            /\ start'[x].user = start[x].user /\ start'[x].id = start[x].id
    BY <1>4 DEF LaunchFailed, TypeOK
  <2>2. \A k1 \in Ids : /\ kernels[k1] # NoKM => kernels[k1] \in Requests
                        /\ sessions[k1] # NoSession => sessions[k1].km \in Requests
                        /\ store[k1] # NoSession => store[k1].km \in Requests
    BY DEF TypeOK, Session
  <2>3. \A o \in Ops : op[o] # Idle => op[o].km \in Requests
    BY DEF TypeOK, OpRecord
  <2>4. UNCHANGED <<kernels, watched, sessions, store, op>>
    BY <1>4 DEF LaunchFailed
  <2> QED BY <2>1, <2>2, <2>3, <2>4 DEF Linked, Instance, TypeOK
<1>5. ASSUME NEW r \in Requests, StartReturns(r)
      PROVE  Linked'
  <2> DEFINE k == start[r].id
  <2>0. k \in Ids /\ start[r].user \in Users
    BY <1>5 DEF StartReturns, Linked
  <2>1. \A x \in Requests : /\ start'[x].pc # "idle" <=> start[x].pc # "idle"
                            /\ start'[x].user = start[x].user /\ start'[x].id = start[x].id
    <3>1. \/ start' = [start EXCEPT ![r].pc = "done"]
          \/ start' = [start EXCEPT ![r].pc = "failed"]
      BY <1>5 DEF StartReturns
    <3> QED BY <3>1, <1>5 DEF TypeOK, StartReturns
  <2>2. \A k1 \in Ids : /\ kernels[k1] # NoKM => kernels[k1] \in Requests
                        /\ sessions[k1] # NoSession => sessions[k1].km \in Requests
                        /\ store[k1] # NoSession => store[k1].km \in Requests
    BY DEF TypeOK, Session
  <2>3. \A o \in Ops : op[o] # Idle => op[o].km \in Requests
    BY DEF TypeOK, OpRecord
  <2>4. UNCHANGED <<kernels, watched, op>>
    BY <1>5 DEF StartReturns
  <2>5. \A k1 \in Ids :
          /\ sessions'[k1] # NoSession =>
                \/ sessions'[k1] = sessions[k1]
                \/ k1 = k /\ kernels[k] # NoKM /\ sessions'[k1].km = kernels[k]
          /\ store'[k1] # NoSession =>
                \/ store'[k1] = store[k1]
                \/ k1 = k /\ kernels[k] # NoKM /\ store'[k1].km = kernels[k]
    BY <1>5, <2>0 DEF StartReturns, SaveSession, TypeOK
  <2> HIDE DEF k
  <2>6. \A x \in Requests :
          start'[x].pc # "idle" => start'[x].user \in Users /\ start'[x].id \in Ids
    BY <2>1 DEF Linked
  <2>7. \A x \in watched' : start'[x].pc # "idle"
    BY <2>1, <2>4 DEF Linked, TypeOK
  <2>8. (\A k1 \in Ids : kernels[k1] # NoKM => Instance(kernels[k1], k1))'
    BY <2>1, <2>2, <2>4 DEF Linked, Instance
  <2>9. (\A k1 \in Ids : sessions[k1] # NoSession => Instance(sessions[k1].km, k1))'
    BY <2>0, <2>1, <2>2, <2>5 DEF Linked, Instance
  <2>10. (\A k1 \in Ids : store[k1] # NoSession => Instance(store[k1].km, k1))'
    BY <2>0, <2>1, <2>2, <2>5 DEF Linked, Instance
  <2>11. \A o \in Ops : op'[o] # Idle => start'[op'[o].km].pc # "idle"
    BY <2>1, <2>3, <2>4 DEF Linked
  <2> QED BY <2>6, <2>7, <2>8, <2>9, <2>10, <2>11 DEF Linked
<1>6. ASSUME NEW r \in Requests, AutoDead(r)
      PROVE  Linked'
  <2>1. start[r].id \in Ids
    BY <1>6 DEF AutoDead, FoundDead, Linked
  <2> QED BY <1>6, <1>a, <2>1 DEF AutoDead, RemoveKernel
<1>7. ASSUME NEW r \in Requests, ProcessDies(r)
      PROVE  Linked'
  BY <1>7 DEF ProcessDies, Linked, Instance
<1>8. ASSUME NEW o \in Ops, NEW k \in Ids, ShutdownKernel(o, k) \/ RestartKernel(o, k)
      PROVE  Linked'
  <2>1. /\ UNCHANGED <<start, kernels, sessions, store>>
        /\ watched' \subseteq watched
        /\ kernels[k] # NoKM
        /\ \E x \in OpRecord : op' = [op EXCEPT ![o] = x] /\ x.km = kernels[k]
    BY <1>8 DEF ShutdownKernel, RestartKernel, Wait, BeginStopping, TypeOK, OpRecord
  <2> QED BY <2>1 DEF Linked, Instance, TypeOK
<1>9. ASSUME NEW o \in Ops, ShutdownFinished(o)
      PROVE  Linked'
  <2>1. op[o].id \in Ids
    BY <1>9, OpTyped DEF ShutdownFinished
  <2>2. Linked' \/ ~(UNCHANGED op)
    BY <1>9, <1>a, <2>1 DEF ShutdownFinished, RemoveKernel
  <2> QED BY <1>9, <2>1 DEF ShutdownFinished, RemoveKernel, DeleteSession, Linked, Instance, TypeOK
<1>10. ASSUME NEW o \in Ops, WaitEnds(o) \/ WaitTimesOut(o)
       PROVE  Linked'
  <2>0. op[o].id \in Ids
    BY <1>10, OpTyped DEF WaitEnds, WaitTimesOut
  <2>1. /\ UNCHANGED <<start, kernels, sessions, store>>
        /\ watched' \subseteq watched
        /\ \/ op' = [op EXCEPT ![o] = Idle]
           \/ \E x \in OpRecord : /\ op' = [op EXCEPT ![o] = x] /\ x.km = kernels[op[o].id]
                                  /\ kernels[op[o].id] # NoKM
    BY <1>10, <2>0 DEF WaitEnds, WaitTimesOut, WaitReturns, BeginStopping, TypeOK, OpRecord
  <2> QED BY <2>0, <2>1 DEF Linked, Instance, TypeOK
<1>11. ASSUME NEW o \in Ops, RestartStopped(o)
       PROVE  Linked'
  <2>1. op[o] # Idle /\ op'[o].km = op[o].km
    BY <1>11, OpTyped DEF RestartStopped, TypeOK, OpRecord
  <2> QED BY <1>11, <2>1 DEF RestartStopped, Linked, Instance, TypeOK
<1>12. ASSUME NEW o \in Ops, Relaunched(o)
       PROVE  Linked'
  <2> DEFINE r == op[o].km
             k == op[o].id
  <2>0. op[o] # Idle /\ k \in Ids /\ r \in Requests /\ start[r].pc # "idle"
    BY <1>12, OpTyped DEF Relaunched, Linked
  <2>1. /\ UNCHANGED <<start, kernels>>
        /\ watched' = watched \cup {r}
    BY <1>12 DEF Relaunched
  <2>2. \A o1 \in Ops : op'[o1] # Idle => op[o1] # Idle /\ op'[o1].km = op[o1].km
    <3>1. op' = [op EXCEPT ![o] = Idle] \/ op' = [op EXCEPT ![o].pc = "replying"]
      BY <1>12 DEF Relaunched
    <3>2. op[o] \in OpRecord /\ op \in [Ops -> OpRecord]
      BY DEF TypeOK
    <3> QED BY <2>0, <3>1, <3>2 DEF OpRecord
  <2>3. \A k1 \in Ids :
          /\ sessions'[k1] # NoSession =>
                \/ sessions'[k1] = sessions[k1]
                \/ k1 = k /\ kernels[k] # NoKM /\ sessions'[k1].km = kernels[k]
          /\ store'[k1] # NoSession =>
                \/ store'[k1] = store[k1]
                \/ k1 = k /\ kernels[k] # NoKM /\ store'[k1].km = kernels[k]
    <3>1. CASE Refreshable(k)
      <4> DEFINE x == [sessions[k] EXCEPT !.km = kernels[k],
                                          !.gen = [gen EXCEPT ![r] = @ + 1][kernels[k]]]
      <4>1. SaveSession(k, x)
        BY <1>12, <3>1 DEF Relaunched
      <4>2. sessions[k] \in Session /\ kernels[k] # NoKM
        BY <2>0, <3>1 DEF Refreshable, TypeOK
      <4>3. x.km = kernels[k]
        BY <4>2 DEF Session
      <4> HIDE DEF x, k
      <4>4. k \in Ids
        BY <2>0
      <4> QED BY <4>1, <4>2, <4>3, <4>4 DEF SaveSession, TypeOK
    <3>2. CASE ~Refreshable(k)
      BY <1>12, <3>2 DEF Relaunched
    <3> QED BY <3>1, <3>2
  <2> HIDE DEF k, r
  <2>4. \A r1 \in watched' : start[r1].pc # "idle"
    BY <2>0, <2>1 DEF Linked
  <2>5. \A o1 \in Ops : op'[o1] # Idle => start[op'[o1].km].pc # "idle"
    BY <2>2 DEF Linked
  <2>6. \A k1 \in Ids : /\ sessions'[k1] # NoSession => Instance(sessions'[k1].km, k1)
                        /\ store'[k1] # NoSession => Instance(store'[k1].km, k1)
    BY <2>0, <2>3 DEF Linked
  <2> QED BY <2>1, <2>4, <2>5, <2>6 DEF Linked, Instance
<1>13. ASSUME NEW o \in Ops, RelaunchFailed(o) \/ RestartReturns(o)
       PROVE  Linked'
  BY <1>13 DEF RelaunchFailed, RestartReturns, Linked, Instance, TypeOK
<1>14. ASSUME NEW o \in Ops, NEW r \in Requests, AutoRestart(o, r)
       PROVE  Linked'
  BY <1>14 DEF AutoRestart, FoundDead, Linked, Instance, TypeOK
<1>15. ASSUME NEW o \in Ops, NEW r \in Requests, AutoShutdown(o, r)
       PROVE  Linked'
  <2>1. start[r].id \in Ids
    BY <1>15 DEF AutoShutdown, FoundDead, Linked
  <2> QED BY <1>8, <1>15, <2>1 DEF AutoShutdown
<1>16. ASSUME NEW k \in Ids, CheckKernelId(k)
       PROVE  Linked'
  <2> DEFINE s == IF store[k] # NoSession THEN store[k] ELSE sessions[k]
  <2>1. CASE Mode = "replication" /\ Revivable(s)
    <3>1. Instance(s.km, k)
      BY <2>1 DEF Revivable, Linked
    <3>2. s.km \in Requests
      BY <2>1 DEF Revivable, TypeOK, Session
    <3> QED BY <1>16, <2>1, <3>1, <3>2, SMTT(60) DEF CheckKernelId, Linked, Instance, TypeOK
  <2>2. CASE ~(Mode = "replication" /\ Revivable(s))
    BY <1>16, <1>a, <2>2 DEF CheckKernelId
  <2> QED BY <2>1, <2>2
<1>17. ASSUME NEW started \in SUBSET Relaunching, Crash(started)
       PROVE  Linked'
  <2>1. \A x \in Requests : /\ start'[x].pc # "idle" <=> start[x].pc # "idle"
                            /\ start'[x].user = start[x].user /\ start'[x].id = start[x].id
    BY <1>17 DEF Crash, InFlight, TypeOK
  <2>2. \A k1 \in Ids : store[k1] # NoSession => store[k1].km \in Requests
    BY DEF TypeOK, Session
  <2>3. /\ kernels' = [k \in Ids |-> NoKM] /\ sessions' = [k \in Ids |-> NoSession]
        /\ watched' = {} /\ op' = [o \in Ops |-> Idle] /\ store' = store
    BY <1>17 DEF Crash
  <2> QED BY <2>1, <2>2, <2>3 DEF Linked, Instance, TypeOK
<1>18. CASE Boot
  BY <1>18 DEF Boot, Revivable, Linked, Instance, TypeOK
<1> QED
  BY <1>1, <1>2, <1>3, <1>4, <1>5, <1>6, <1>7, <1>8, <1>9, <1>10, <1>11, <1>12, <1>13,
     <1>14, <1>15, <1>16, <1>17, <1>18 DEF Next

\* TypeOK, the links and the exact counters form an inductive invariant.
THEOREM CountersExact == Spec => [](TypeOK /\ Linked /\ PendingExact)
<1>1. Init => TypeOK /\ Linked /\ PendingExact
  <2>1. Init => InFlightAll = {} /\ \A u \in Users : InFlightOf(u) = {}
    BY DEF Init, InFlightAll, InFlightOf, InFlight
  <2> QED BY <2>1, InitTyped, FS_EmptySet DEF Init, PendingExact
<1>2. TypeOK /\ Linked /\ PendingExact /\ [Next]_vars => (TypeOK /\ Linked /\ PendingExact)'
  BY PendingStep, LinkedStep, TypeStep
<1> QED BY <1>1, <1>2, PTL DEF Spec

\* Type correctness of the registry, its counters and its sessions: in particular the
\* pending counters never go below zero.
THEOREM TypeCorrect == Spec => []TypeOK
  BY CountersExact, PTL

\* TrackPendingRequests counts exactly the start requests between their limit check and
\* their return, in total and for every user.
THEOREM PendingCorrect == Spec => []PendingExact
  BY CountersExact, PTL

-----------------------------------------------------------------------------
(* max_kernels.  MaxKernelsRespected is not inductive: a launch in progress *)
(* will add a kernel, and a booting gateway will add what the store holds.  *)
(* The invariant therefore counts launches along with kernels, and says     *)
(* that the store never holds more than the kernels managed.                *)

Launching == {r \in Requests : start[r].pc = "launching"}
StoredIds == {k \in Ids : store[k] # NoSession}

\* The inductive form of MaxKernelsRespected, for gateways that do not replicate.
KernelsBounded ==
    /\ up => StoredIds \subseteq Active
    /\ ~up => Active = {} /\ Launching = {}
    /\ ~Persistent => StoredIds = {}
    /\ MaxKernels # NoLimit =>
         /\ Cardinality(Active) + Cardinality(Launching) <= MaxKernels
         /\ Cardinality(StoredIds) <= MaxKernels

\* All the sets that are counted are finite.
LEMMA FiniteCounts ==
    /\ IsFiniteSet(Active) /\ Cardinality(Active) \in Nat
    /\ IsFiniteSet(Launching) /\ Cardinality(Launching) \in Nat
    /\ IsFiniteSet(StoredIds) /\ Cardinality(StoredIds) \in Nat
<1>1. Active \in SUBSET Ids /\ Launching \in SUBSET Requests /\ StoredIds \in SUBSET Ids
  BY DEF Active, Launching, StoredIds
<1>2. IsFiniteSet(Active) /\ IsFiniteSet(Launching) /\ IsFiniteSet(StoredIds)
  BY <1>1, FS_Subset, ConstantsAssumption
<1> QED BY <1>2, FS_CardinalityType

\* A running gateway whose step adds neither a kernel nor a launch stays within bounds.
LEMMA BoundedShrinks ==
    ASSUME KernelsBounded, up, up', NEW A, NEW L, NEW S,
           A = Active', L = Launching', S = StoredIds',
           A \subseteq Active, L \subseteq Launching, S \subseteq A,
           ~Persistent => S = {}
    PROVE  KernelsBounded'
<1>1. /\ Cardinality(A) <= Cardinality(Active) /\ Cardinality(A) \in Nat
      /\ Cardinality(L) <= Cardinality(Launching) /\ Cardinality(L) \in Nat
      /\ Cardinality(S) <= Cardinality(Active) /\ Cardinality(S) \in Nat
  BY FiniteCounts, FS_Subset, FS_CardinalityType
<1> QED BY <1>1, FiniteCounts, ConstantsAssumption DEF KernelsBounded, Persistent

\* Every step of a gateway that does not replicate keeps the kernels bounded.
LEMMA BoundedStep ==
    ASSUME Mode # "replication", TypeOK, Linked, PendingExact, KernelsBounded, [Next]_vars
    PROVE  KernelsBounded'
<1> USE DEF procVars, pendVars, sessVars
<1>c. /\ IsFiniteSet(Active) /\ Cardinality(Active) \in Nat
      /\ IsFiniteSet(Launching) /\ Cardinality(Launching) \in Nat
      /\ IsFiniteSet(StoredIds) /\ Cardinality(StoredIds) \in Nat
  BY FiniteCounts
<1>a. ASSUME UNCHANGED <<start, kernels, store, up>>
      PROVE  KernelsBounded'
  BY <1>a DEF KernelsBounded, Active, Launching, StoredIds
<1>b. ASSUME NEW k \in Ids, up, up' = up, UNCHANGED start, DeleteSession(k),
             \/ kernels' = kernels /\ kernels[k] = NoKM
             \/ kernels' = [kernels EXCEPT ![k] = NoKM]
      PROVE  KernelsBounded'
  <2>1. Active' \subseteq Active /\ Launching' = Launching
    BY <1>b DEF Active, Launching, TypeOK
  <2>2. StoredIds' \subseteq Active'
    <3>1. CASE Persistent
      BY <1>b, <3>1 DEF DeleteSession, StoredIds, Active, KernelsBounded, TypeOK
    <3>2. CASE ~Persistent
      BY <1>b, <3>2 DEF DeleteSession, StoredIds, KernelsBounded
    <3> QED BY <3>1, <3>2
  <2>3. ~Persistent => StoredIds' = {}
    BY <1>b DEF DeleteSession, StoredIds, KernelsBounded
  <2> QED BY <1>b, <2>1, <2>2, <2>3, BoundedShrinks
<1>d. ASSUME NEW k \in Ids, NEW s, up, up' = up, kernels' = kernels, kernels[k] # NoKM,
             SaveSession(k, s), Launching' \subseteq Launching
      PROVE  KernelsBounded'
  <2>1. Active' = Active
    BY <1>d DEF Active
  <2>2. StoredIds' \subseteq StoredIds \cup {k} /\ (~Persistent => StoredIds' = StoredIds)
    BY <1>d DEF SaveSession, StoredIds, TypeOK
  <2>3. k \in Active
    BY <1>d DEF Active
  <2> QED BY <1>d, <2>1, <2>2, <2>3, BoundedShrinks DEF KernelsBounded
<1>1. CASE UNCHANGED vars
  BY <1>1, <1>a DEF vars
<1>2. ASSUME NEW r \in Requests, NEW u \in Users, NEW k \in Ids, StartKernel(r, u, k)
      PROVE  KernelsBounded'
  <2>1. UNCHANGED <<kernels, store, up>> /\ up
    BY <1>2 DEF StartKernel
  <2>2. Launching' = Launching \cup {r} /\ r \notin Launching
    BY <1>2 DEF StartKernel, Launching, TypeOK
  <2>3. Cardinality(Launching') = Cardinality(Launching) + 1
    BY <1>c, <2>2, FS_AddElement
  <2>4. Launching \in SUBSET InFlightAll
    BY DEF Launching, InFlightAll, InFlight
  <2>5. Cardinality(Launching) <= Cardinality(InFlightAll)
    BY <2>4, CountsAreNat, FS_Subset
  <2>6. MaxKernels # NoLimit => Cardinality(Active) + Cardinality(InFlightAll) < MaxKernels
    BY <1>2 DEF StartKernel, WithinLimits, PendingExact
  <2>7. Active' = Active /\ StoredIds' = StoredIds
    BY <2>1 DEF Active, StoredIds
  <2>8. Cardinality(InFlightAll) \in Nat
    BY CountsAreNat
  <2> QED BY <1>c, <2>1, <2>3, <2>5, <2>6, <2>7, <2>8, ConstantsAssumption DEF KernelsBounded, Persistent
<1>3. ASSUME NEW r \in Requests, NEW u \in Users, NEW k \in Ids, StartRejected(r, u, k)
      PROVE  KernelsBounded'
  <2>1. UNCHANGED <<kernels, store, up>> /\ up
    BY <1>3 DEF StartRejected
  <2>2. Launching' = Launching
    BY <1>3 DEF StartRejected, Launching, TypeOK
  <2>3. Active' = Active /\ StoredIds' = StoredIds
    BY <2>1 DEF Active, StoredIds
  <2> QED BY <2>1, <2>2, <2>3 DEF KernelsBounded, Persistent
<1>4. ASSUME NEW r \in Requests, Launched(r)
      PROVE  KernelsBounded'
  <2>0. start[r].id \in Ids
    BY <1>4 DEF Launched, Linked
  <2>1. UNCHANGED <<store, up>> /\ up
    BY <1>4 DEF Launched
  <2>2. Launching' = Launching \ {r} /\ r \in Launching
    BY <1>4 DEF Launched, Launching, TypeOK
  <2>3. PICK k \in Ids : start[r].id = k
    BY <2>0
  <2>4. Active' = Active \cup {k}
    BY <1>4, <2>3, ConstantsAssumption DEF Launched, Active, TypeOK
  <2>5. Cardinality(Launching') = Cardinality(Launching) - 1
    BY <1>c, <2>2, FS_RemoveElement
  <2>a. Cardinality(Active \cup {k}) =
          IF k \in Active THEN Cardinality(Active) ELSE Cardinality(Active) + 1
    BY <1>c, FS_AddElement
  <2>6. Cardinality(Active') <= Cardinality(Active) + 1
    BY <1>c, <2>4, <2>a
  <2>7. Cardinality(Active') \in Nat
    BY <1>c, <2>4, <2>a
  <2>8. StoredIds' = StoredIds
    BY <2>1 DEF StoredIds
  <2> QED BY <1>c, <2>1, <2>4, <2>5, <2>6, <2>7, <2>8, ConstantsAssumption DEF KernelsBounded, Persistent
<1>5. ASSUME NEW r \in Requests, LaunchFailed(r)
      PROVE  KernelsBounded'
  <2>1. UNCHANGED <<kernels, store, up>> /\ up
    BY <1>5 DEF LaunchFailed
  <2>2. Launching' \subseteq Launching
    BY <1>5 DEF LaunchFailed, Launching, TypeOK
  <2>3. Active' = Active /\ StoredIds' = StoredIds
    BY <2>1 DEF Active, StoredIds
  <2> QED BY <2>1, <2>2, <2>3, BoundedShrinks DEF KernelsBounded
<1>6. ASSUME NEW r \in Requests, StartReturns(r)
      PROVE  KernelsBounded'
  <2>0. start[r].id \in Ids
    BY <1>6 DEF StartReturns, Linked
  <2>1. Launching' = Launching
    <3>1. \/ start' = [start EXCEPT ![r].pc = "done"]
          \/ start' = [start EXCEPT ![r].pc = "failed"]
      BY <1>6 DEF StartReturns
    <3> QED BY <1>6, <3>1 DEF StartReturns, Launching, TypeOK
  <2>2. CASE kernels[start[r].id] # NoKM
    BY <1>6, <1>d, <2>0, <2>1, <2>2 DEF StartReturns
  <2>3. CASE kernels[start[r].id] = NoKM
    <3>1. UNCHANGED <<kernels, store, up>> /\ up
      BY <1>6, <2>3 DEF StartReturns
    <3> QED BY <2>1, <3>1 DEF KernelsBounded, Active, StoredIds, Persistent
  <2> QED BY <2>2, <2>3
<1>7. ASSUME NEW r \in Requests, AutoDead(r)
      PROVE  KernelsBounded'
  <2>1. start[r].id \in Ids
    BY <1>7 DEF AutoDead, FoundDead, Linked
  <2> QED BY <1>7, <1>b, <2>1 DEF AutoDead, FoundDead, RemoveKernel
<1>8. ASSUME NEW o \in Ops, ShutdownFinished(o)
      PROVE  KernelsBounded'
  <2>1. op[o].id \in Ids
    BY <1>8, OpTyped DEF ShutdownFinished
  <2> QED BY <1>8, <1>b, <2>1 DEF ShutdownFinished, RemoveKernel
<1>9. ASSUME NEW o \in Ops, Relaunched(o)
      PROVE  KernelsBounded'
  <2>1. op[o].id \in Ids
    BY <1>9, OpTyped DEF Relaunched
  <2>2. CASE Refreshable(op[o].id)
    <3>1. Launching' = Launching
      BY <1>9 DEF Relaunched, Launching
    <3> QED BY <1>9, <1>d, <2>1, <2>2, <3>1 DEF Relaunched, Refreshable
  <2>3. CASE ~Refreshable(op[o].id)
    BY <1>9, <1>a, <2>3 DEF Relaunched
  <2> QED BY <2>2, <2>3
<1>10. ASSUME NEW k \in Ids, CheckKernelId(k)
       PROVE  KernelsBounded'
  BY <1>10, <1>b DEF CheckKernelId
<1>11. ASSUME NEW started \in SUBSET Relaunching, Crash(started)
       PROVE  KernelsBounded'
  <2>1. Active' = {} /\ StoredIds' = StoredIds /\ ~up' /\ up
    BY <1>11 DEF Crash, Active, StoredIds
  <2>2. Launching' = {}
    BY <1>11 DEF Crash, Launching, InFlight, TypeOK
  <2>3. MaxKernels # NoLimit => 0 + 0 <= MaxKernels
    BY ConstantsAssumption
  <2> QED BY <2>1, <2>2, <2>3, FS_EmptySet DEF KernelsBounded, Persistent
<1>12. CASE Boot
  <2>1. up' /\ ~up /\ start' = start
    BY <1>12 DEF Boot
  <2>2. Active' \subseteq StoredIds
    BY <1>12 DEF Boot, Active, StoredIds, Revivable
  <2>3. Launching' = {}
    BY <2>1 DEF Launching, KernelsBounded
  <2>4. StoredIds' \subseteq StoredIds /\ StoredIds' \subseteq Active'
    <3>1. CASE Mode = "standalone"
      <4>1. \A k \in Ids : store'[k] # NoSession => Revivable(store[k]) /\ kernels'[k] = store[k].km
        BY <1>12, <3>1 DEF Boot
      <4>2. \A k \in Ids : Revivable(store[k]) => store[k] # NoSession /\ store[k].km # NoKM
        BY ConstantsAssumption DEF Revivable, TypeOK, Session
      <4> QED BY <4>1, <4>2 DEF StoredIds, Active
    <3>2. CASE Mode # "standalone"
      <4>1. ~Persistent
        BY <3>2, ConstantsAssumption DEF Persistent
      <4> QED BY <1>12, <3>2, <4>1 DEF Boot, KernelsBounded, StoredIds
    <3> QED BY <3>1, <3>2
  <2>5. /\ Cardinality(Active') <= Cardinality(StoredIds) /\ Cardinality(Active') \in Nat
        /\ Cardinality(StoredIds') <= Cardinality(StoredIds) /\ Cardinality(StoredIds') \in Nat
    BY <1>c, <2>2, <2>4, FS_Subset, FS_CardinalityType
  <2>6. Cardinality(Launching') = 0
    BY <2>3, FS_EmptySet
  <2> QED BY <1>c, <2>1, <2>4, <2>5, <2>6, ConstantsAssumption DEF KernelsBounded, Persistent
<1>13. ASSUME NEW o \in Ops, NEW k \in Ids, ShutdownKernel(o, k) \/ RestartKernel(o, k)
       PROVE  KernelsBounded'
  BY <1>13, <1>a DEF ShutdownKernel, RestartKernel
<1>14. ASSUME NEW o \in Ops, NEW r \in Requests, AutoRestart(o, r) \/ AutoShutdown(o, r)
       PROVE  KernelsBounded'
  BY <1>14, <1>a DEF AutoRestart, AutoShutdown, ShutdownKernel
<1>15. ASSUME NEW o \in Ops,
              \/ WaitEnds(o) \/ WaitTimesOut(o) \/ RestartStopped(o)
              \/ RelaunchFailed(o) \/ RestartReturns(o)
       PROVE  KernelsBounded'
  BY <1>15, <1>a DEF WaitEnds, WaitTimesOut, RestartStopped, RelaunchFailed, RestartReturns
<1>16. ASSUME NEW r \in Requests, ProcessDies(r)
       PROVE  KernelsBounded'
  BY <1>16, <1>a DEF ProcessDies
<1> QED
  BY <1>1, <1>2, <1>3, <1>4, <1>5, <1>6, <1>7, <1>8, <1>9, <1>10, <1>11, <1>12, <1>13,
     <1>14, <1>15, <1>16 DEF Next

\* However requests, restarts, shutdowns, deaths and crashes interleave, a gateway
\* that is not in replication mode never manages more than max_kernels kernels.
THEOREM MaxKernelsSafe ==
    ASSUME Mode # "replication"
    PROVE  Spec => []MaxKernelsRespected
<1>1. Init => KernelsBounded
  <2>1. Init => Active = {} /\ Launching = {} /\ StoredIds = {} /\ up
    BY DEF Init, Active, Launching, StoredIds
  <2>2. MaxKernels # NoLimit => 0 <= MaxKernels /\ 0 + 0 <= MaxKernels
    BY ConstantsAssumption
  <2> QED BY <2>1, <2>2, FS_EmptySet DEF KernelsBounded
<1>2. TypeOK /\ Linked /\ PendingExact /\ KernelsBounded /\ [Next]_vars => KernelsBounded'
  BY BoundedStep
<1>3. KernelsBounded => MaxKernelsRespected
  BY FiniteCounts, ConstantsAssumption DEF KernelsBounded, MaxKernelsRespected
<1> QED BY <1>1, <1>2, <1>3, CountersExact, PTL DEF Spec

-----------------------------------------------------------------------------
(* max_kernels_per_user.  The limit check reads sessionsByUser, not the     *)
(* kernels: the invariant relates the two.  A kernel whose start request    *)
(* has not resumed is covered by the pending counter, any other one by an   *)
(* entry of its owner's list, also when several requests used its id.       *)

\* The inductive form of MaxKernelsPerUserRespected, without persistence.
UsersBounded ==
    /\ \A k \in Ids : kernels[k] # NoKM =>
          \/ start[kernels[k]].pc = "added"
          \/ k \in sessionsByUser[start[kernels[k]].user]
    /\ \A k \in Ids : sessions[k] # NoSession => k \in sessionsByUser[sessions[k].user]
    /\ MaxKernelsPerUser # NoLimit =>
          \A u \in Users : Cardinality(sessionsByUser[u]) + pendingUser[u] <= MaxKernelsPerUser

\* A user's list is a finite set.
LEMMA ListsFinite ==
    ASSUME TypeOK, NEW u \in Users
    PROVE  IsFiniteSet(sessionsByUser[u]) /\ Cardinality(sessionsByUser[u]) \in Nat
<1>1. sessionsByUser[u] \in SUBSET Ids
  BY DEF TypeOK
<1>2. IsFiniteSet(sessionsByUser[u])
  BY <1>1, FS_Subset, ConstantsAssumption
<1> QED BY <1>2, FS_CardinalityType

\* delete_session takes an id out of lists only together with the kernel.
LEMMA DeleteKeepsUsers ==
    ASSUME TypeOK, Linked, UsersBounded, NEW k \in Ids, DeleteSession(k),
           UNCHANGED <<start, pendingUser>>,
           \/ kernels' = kernels /\ kernels[k] = NoKM
           \/ kernels' = [kernels EXCEPT ![k] = NoKM]
    PROVE  UsersBounded'
<1>1. \A u \in Users : sessionsByUser'[u] \subseteq sessionsByUser[u]
  BY DEF DeleteSession, TypeOK
<1>2. \A u \in Users, x \in Ids : x # k /\ x \in sessionsByUser[u] => x \in sessionsByUser'[u]
  BY DEF DeleteSession, TypeOK
<1>3. \A x \in Ids : kernels'[x] # NoKM => x # k /\ kernels'[x] = kernels[x]
  BY DEF TypeOK
<1>4. \A x \in Ids : sessions'[x] # NoSession => x # k /\ sessions'[x] = sessions[x]
  BY DEF DeleteSession, TypeOK
<1>5. \A x \in Ids : kernels[x] # NoKM => start[kernels[x]].user \in Users
  BY DEF Linked, Instance, TypeOK
<1>6. \A x \in Ids : sessions[x] # NoSession => sessions[x].user \in Users
  BY DEF TypeOK, Session
<1>7. ASSUME NEW u \in Users
      PROVE  /\ Cardinality(sessionsByUser'[u]) <= Cardinality(sessionsByUser[u])
             /\ Cardinality(sessionsByUser'[u]) \in Nat
  BY <1>1, ListsFinite, FS_Subset, FS_CardinalityType
<1>8. \A u \in Users : Cardinality(sessionsByUser[u]) \in Nat /\ pendingUser[u] \in Nat
  BY ListsFinite DEF TypeOK
<1>9. \A x \in Ids : kernels'[x] # NoKM =>
          \/ start'[kernels'[x]].pc = "added"
          \/ x \in sessionsByUser'[start'[kernels'[x]].user]
  BY <1>2, <1>3, <1>5 DEF UsersBounded
<1>10. \A x \in Ids : sessions'[x] # NoSession => x \in sessionsByUser'[sessions'[x].user]
  BY <1>2, <1>4, <1>6 DEF UsersBounded
<1>11. MaxKernelsPerUser # NoLimit =>
          \A u \in Users : Cardinality(sessionsByUser'[u]) + pendingUser'[u] <= MaxKernelsPerUser
  BY <1>7, <1>8, ConstantsAssumption DEF UsersBounded
<1> QED BY <1>9, <1>10, <1>11 DEF UsersBounded

\* Every step of a gateway without persistence keeps the users bounded.
LEMMA UsersStep ==
    ASSUME Mode = "none", TypeOK, Linked, UsersBounded, [Next]_vars
    PROVE  UsersBounded'
<1> USE DEF procVars, pendVars, sessVars
<1>t. /\ \A x \in Ids : kernels[x] # NoKM => /\ kernels[x] \in Requests
                                             /\ start[kernels[x]].user \in Users
                                             /\ start[kernels[x]].id = x
      /\ \A x \in Ids : sessions[x] # NoSession => sessions[x].user \in Users
      /\ \A u \in Users : Cardinality(sessionsByUser[u]) \in Nat /\ pendingUser[u] \in Nat
  BY ListsFinite DEF Linked, Instance, TypeOK, Session
<1>a. ASSUME UNCHANGED <<start, kernels, sessions, sessionsByUser, pendingUser>>
      PROVE  UsersBounded'
  BY <1>a DEF UsersBounded
<1>b. ASSUME NEW r \in Requests, NEW x, start' = [start EXCEPT ![r] = x], start[r].pc = "idle",
             UNCHANGED <<kernels, sessions, sessionsByUser>>
      PROVE  /\ \A k \in Ids : kernels'[k] # NoKM =>
                  \/ start'[kernels'[k]].pc = "added"
                  \/ k \in sessionsByUser'[start'[kernels'[k]].user]
             /\ \A k \in Ids : sessions'[k] # NoSession => k \in sessionsByUser'[sessions'[k].user]
  <2>1. \A k \in Ids : kernels[k] # NoKM => kernels[k] # r
    BY <1>b DEF Linked, Instance
  <2>2. \A k \in Ids : kernels[k] # NoKM => start'[kernels[k]] = start[kernels[k]]
    BY <1>b, <1>t, <2>1 DEF TypeOK
  <2> QED BY <1>b, <2>2 DEF UsersBounded
<1>1. CASE UNCHANGED vars
  BY <1>1, <1>a DEF vars
<1>2. ASSUME NEW r \in Requests, NEW u \in Users, NEW k \in Ids, StartKernel(r, u, k)
      PROVE  UsersBounded'
  <2>1. MaxKernelsPerUser # NoLimit =>
          \A v \in Users : Cardinality(sessionsByUser[v]) + pendingUser'[v] <= MaxKernelsPerUser
    BY <1>2, <1>t, ConstantsAssumption
       DEF StartKernel, WithinLimits, ActiveSessions, Increment, UsersBounded, TypeOK
  <2> QED BY <1>2, <1>b, <2>1 DEF StartKernel, UsersBounded
<1>3. ASSUME NEW r \in Requests, NEW u \in Users, NEW k \in Ids, StartRejected(r, u, k)
      PROVE  UsersBounded'
  BY <1>3, <1>b DEF StartRejected, UsersBounded
<1>4. ASSUME NEW r \in Requests, Launched(r)
      PROVE  UsersBounded'
  <2>1. \A x \in Requests : start'[x].user = start[x].user
    BY <1>4 DEF Launched, TypeOK
  <2>2. \A x \in Requests : start'[x].pc = IF x = r THEN "added" ELSE start[x].pc
    BY <1>4 DEF Launched, TypeOK
  <2>3. \A x \in Ids : kernels'[x] = kernels[x] \/ kernels'[x] = r
    BY <1>4 DEF Launched, TypeOK
  <2>4. UNCHANGED <<sessions, sessionsByUser, pendingUser>>
    BY <1>4 DEF Launched
  <2> QED BY <1>t, <2>1, <2>2, <2>3, <2>4 DEF UsersBounded
<1>5. ASSUME NEW r \in Requests, LaunchFailed(r)
      PROVE  UsersBounded'
  <2>1. \A x \in Requests : /\ start'[x].user = start[x].user
                            /\ start[x].pc = "added" => start'[x].pc = "added"
    BY <1>5 DEF LaunchFailed, TypeOK
  <2>2. \A v \in Users : pendingUser'[v] <= pendingUser[v] /\ pendingUser'[v] \in Int
    BY <1>5, <1>t DEF LaunchFailed, Decrement, TypeOK
  <2>3. UNCHANGED <<kernels, sessions, sessionsByUser>>
    BY <1>5 DEF LaunchFailed
  <2>4. MaxKernelsPerUser # NoLimit =>
          \A v \in Users : Cardinality(sessionsByUser[v]) + pendingUser'[v] <= MaxKernelsPerUser
    BY <1>t, <2>2, ConstantsAssumption DEF UsersBounded
  <2> QED BY <1>t, <2>1, <2>3, <2>4 DEF UsersBounded
<1>6. ASSUME NEW r \in Requests, StartReturns(r)
      PROVE  UsersBounded'
  <2>0. start[r].id \in Ids /\ start[r].user \in Users
    BY <1>6 DEF StartReturns, Linked
  <2>1. PICK k \in Ids, u \in Users : start[r].id = k /\ start[r].user = u
    BY <2>0
  <2>2. \A x \in Requests : /\ start'[x].user = start[x].user
                            /\ x # r => start'[x].pc = start[x].pc
    <3>1. \/ start' = [start EXCEPT ![r].pc = "done"]
          \/ start' = [start EXCEPT ![r].pc = "failed"]
      BY <1>6 DEF StartReturns
    <3> QED BY <3>1 DEF TypeOK
  <2>3. \A v \in Users : pendingUser'[v] = IF v = u THEN pendingUser[v] - 1 ELSE pendingUser[v]
    BY <1>6, <2>1 DEF StartReturns, Decrement, TypeOK
  <2>4. kernels' = kernels
    BY <1>6 DEF StartReturns
  <2>5. CASE kernels[k] # NoKM
    <3>1. /\ sessions'[k].user = u
          /\ \A x \in Ids : x # k => sessions'[x] = sessions[x]
          /\ \A v \in Users : sessionsByUser'[v] =
               IF v = u THEN sessionsByUser[v] \cup {k} ELSE sessionsByUser[v]
      BY <1>6, <2>1, <2>5 DEF StartReturns, SaveSession, TypeOK
    <3>2. Cardinality(sessionsByUser[u] \cup {k}) <= Cardinality(sessionsByUser[u]) + 1
      <4>1. Cardinality(sessionsByUser[u] \cup {k}) =
              IF k \in sessionsByUser[u] THEN Cardinality(sessionsByUser[u])
              ELSE Cardinality(sessionsByUser[u]) + 1
        BY ListsFinite, FS_AddElement
      <4> QED BY <1>t, <4>1
    <3>3. Cardinality(sessionsByUser[u] \cup {k}) \in Nat
      BY ListsFinite, FS_AddElement, FS_CardinalityType
    <3>4. MaxKernelsPerUser # NoLimit => \A v \in Users :
            Cardinality(sessionsByUser'[v]) + pendingUser'[v] <= MaxKernelsPerUser
      <4> SUFFICES ASSUME MaxKernelsPerUser # NoLimit, NEW v \in Users
                   PROVE  Cardinality(sessionsByUser'[v]) + pendingUser'[v] <= MaxKernelsPerUser
        OBVIOUS
      <4>1. /\ Cardinality(sessionsByUser[v]) + pendingUser[v] <= MaxKernelsPerUser
            /\ Cardinality(sessionsByUser[v]) \in Nat /\ pendingUser[v] \in Nat
            /\ MaxKernelsPerUser \in Nat
        BY <1>t, ConstantsAssumption DEF UsersBounded
      <4>2. CASE v = u
        <5>1. sessionsByUser'[v] = sessionsByUser[u] \cup {k} /\ pendingUser'[v] = pendingUser[v] - 1
          BY <2>3, <3>1, <4>2
        <5> QED BY <3>2, <3>3, <4>1, <4>2, <5>1
      <4>3. CASE v # u
        BY <2>3, <3>1, <4>1, <4>3
      <4> QED BY <4>2, <4>3
    <3>5. \A x \in Ids : sessions'[x] # NoSession => x \in sessionsByUser'[sessions'[x].user]
      BY <1>t, <3>1, ZenonT(40) DEF UsersBounded
    <3>6. \A x \in Ids : kernels[x] # NoKM =>
            \/ start'[kernels[x]].pc = "added"
            \/ x \in sessionsByUser'[start'[kernels[x]].user]
      <4> TAKE x \in Ids
      <4> HAVE kernels[x] # NoKM
      <4>1. CASE kernels[x] = r
        BY <1>t, <2>1, <2>2, <3>1, <4>1
      <4>2. CASE kernels[x] # r
        <5>1. /\ start'[kernels[x]].pc = start[kernels[x]].pc
              /\ start'[kernels[x]].user = start[kernels[x]].user
              /\ start[kernels[x]].user \in Users
          BY <1>t, <2>2, <4>2
        <5>2. \/ start[kernels[x]].pc = "added"
              \/ x \in sessionsByUser[start[kernels[x]].user]
          BY DEF UsersBounded
        <5>3. \A v \in Users : sessionsByUser[v] \subseteq sessionsByUser'[v]
          BY <3>1
        <5> QED BY <5>1, <5>2, <5>3
      <4> QED BY <4>1, <4>2
    <3> QED BY <2>4, <3>4, <3>5, <3>6 DEF UsersBounded
  <2>6. CASE kernels[k] = NoKM
    <3>1. UNCHANGED <<sessions, sessionsByUser>>
      BY <1>6, <2>1, <2>6 DEF StartReturns
    <3>2. \A x \in Ids : kernels[x] # NoKM => kernels[x] # r
      BY <1>t, <2>1, <2>6
    <3>3. MaxKernelsPerUser # NoLimit => \A v \in Users :
            Cardinality(sessionsByUser[v]) + pendingUser'[v] <= MaxKernelsPerUser
      BY <1>t, <2>3, ConstantsAssumption DEF UsersBounded
    <3> QED BY <1>t, <2>2, <2>4, <3>1, <3>2, <3>3 DEF UsersBounded
  <2> QED BY <2>5, <2>6
<1>7. ASSUME NEW r \in Requests, AutoDead(r)
      PROVE  UsersBounded'
  <2>1. start[r].id \in Ids
    BY <1>7 DEF AutoDead, FoundDead, Linked
  <2> QED BY <1>7, <2>1, DeleteKeepsUsers DEF AutoDead, RemoveKernel
<1>8. ASSUME NEW o \in Ops, ShutdownFinished(o)
      PROVE  UsersBounded'
  <2>1. op[o].id \in Ids
    BY <1>8, OpTyped DEF ShutdownFinished
  <2> QED BY <1>8, <2>1, DeleteKeepsUsers DEF ShutdownFinished, RemoveKernel
<1>9. ASSUME NEW o \in Ops, Relaunched(o)
      PROVE  UsersBounded'
  <2> DEFINE k == op[o].id
             x == [sessions[k] EXCEPT !.km = kernels[k],
                                      !.gen = [gen EXCEPT ![op[o].km] = @ + 1][kernels[k]]]
  <2>1. k \in Ids
    BY <1>9, OpTyped DEF Relaunched
  <2>2. CASE Refreshable(k)
    <3>1. sessions[k] \in Session /\ k \in sessionsByUser[sessions[k].user]
      BY <2>1, <2>2 DEF Refreshable, TypeOK, UsersBounded
    <3>2. x.user = sessions[k].user
      BY <3>1 DEF Session
    <3>3. SaveSession(k, x)
      BY <1>9, <2>2 DEF Relaunched
    <3> HIDE DEF x
    <3>4. sessionsByUser' = sessionsByUser
      BY <3>1, <3>2, <3>3 DEF SaveSession, TypeOK
    <3>5. \A y \in Ids : sessions'[y] # NoSession =>
            sessions[y] # NoSession /\ sessions'[y].user = sessions[y].user
      BY <2>1, <2>2, <3>2, <3>3 DEF SaveSession, TypeOK, Refreshable
    <3>6. UNCHANGED <<start, kernels, pendingUser>>
      BY <1>9 DEF Relaunched
    <3> QED BY <3>4, <3>5, <3>6 DEF UsersBounded
  <2>3. CASE ~Refreshable(k)
    BY <1>9, <1>a, <2>3 DEF Relaunched
  <2> QED BY <2>2, <2>3
<1>10. ASSUME NEW k \in Ids, CheckKernelId(k)
       PROVE  UsersBounded'
  BY <1>10, DeleteKeepsUsers DEF CheckKernelId
<1>11. ASSUME NEW started \in SUBSET Relaunching, Crash(started)
       PROVE  UsersBounded'
  <2>1. /\ kernels' = [k \in Ids |-> NoKM] /\ sessions' = [k \in Ids |-> NoSession]
        /\ sessionsByUser' = [u \in Users |-> {}] /\ pendingUser' = [u \in Users |-> 0]
    BY <1>11 DEF Crash
  <2>2. MaxKernelsPerUser # NoLimit => 0 + 0 <= MaxKernelsPerUser
    BY ConstantsAssumption
  <2> QED BY <2>1, <2>2, FS_EmptySet DEF UsersBounded
<1>12. CASE Boot
  <2>1. /\ kernels' = [k \in Ids |-> NoKM] /\ sessions' = [k \in Ids |-> NoSession]
        /\ UNCHANGED <<sessionsByUser, pendingUser>>
    BY <1>12 DEF Boot
  <2> QED BY <2>1 DEF UsersBounded
<1>13. ASSUME NEW o \in Ops, NEW k \in Ids, ShutdownKernel(o, k) \/ RestartKernel(o, k)
       PROVE  UsersBounded'
  BY <1>13, <1>a DEF ShutdownKernel, RestartKernel
<1>14. ASSUME NEW o \in Ops, NEW r \in Requests, AutoRestart(o, r) \/ AutoShutdown(o, r)
       PROVE  UsersBounded'
  BY <1>14, <1>a DEF AutoRestart, AutoShutdown, ShutdownKernel
<1>15. ASSUME NEW o \in Ops,
              \/ WaitEnds(o) \/ WaitTimesOut(o) \/ RestartStopped(o)
              \/ RelaunchFailed(o) \/ RestartReturns(o)
       PROVE  UsersBounded'
  BY <1>15, <1>a DEF WaitEnds, WaitTimesOut, RestartStopped, RelaunchFailed, RestartReturns
<1>16. ASSUME NEW r \in Requests, ProcessDies(r)
       PROVE  UsersBounded'
  BY <1>16, <1>a DEF ProcessDies
<1> QED
  BY <1>1, <1>2, <1>3, <1>4, <1>5, <1>6, <1>7, <1>8, <1>9, <1>10, <1>11, <1>12, <1>13,
     <1>14, <1>15, <1>16 DEF Next

\* The kernels of a user number at most her listed sessions plus her pending launches.
LEMMA UserKernelsCovered ==
    ASSUME TypeOK, Linked, PendingExact, UsersBounded
    PROVE  MaxKernelsPerUserRespected
<1> SUFFICES ASSUME MaxKernelsPerUser # NoLimit, NEW u \in Users
             PROVE  Cardinality(KernelsOf(u)) <= MaxKernelsPerUser
  BY DEF MaxKernelsPerUserRespected
<1> DEFINE S == InFlightOf(u)
           f == [r \in S |-> start[r].id]
           T == {f[r] : r \in S}
<1>1. IsFiniteSet(S) /\ Cardinality(S) \in Nat /\ Cardinality(S) = pendingUser[u]
  BY CountsAreNat DEF PendingExact
<1>2. f \in Surjection(S, T)
  BY DEF Surjection
<1> HIDE DEF f, S
<1>3. IsFiniteSet(T) /\ Cardinality(T) <= Cardinality(S) /\ Cardinality(T) \in Nat
  BY <1>1, <1>2, FS_Surjection, FS_CardinalityType
<1>4. KernelsOf(u) \subseteq sessionsByUser[u] \cup T
  <2> SUFFICES ASSUME NEW k \in KernelsOf(u), k \notin sessionsByUser[u]
               PROVE  k \in T
    OBVIOUS
  <2>1. /\ k \in Ids /\ kernels[k] # NoKM /\ kernels[k] \in Requests
        /\ start[kernels[k]].user = u /\ start[kernels[k]].id = k
    BY DEF KernelsOf, Active, Linked, Instance, TypeOK
  <2>2. start[kernels[k]].pc = "added"
    BY <2>1 DEF UsersBounded
  <2>3. kernels[k] \in S
    BY <2>1, <2>2 DEF S, InFlightOf, InFlightAll, InFlight
  <2>4. f[kernels[k]] = k
    BY <2>1, <2>3 DEF f
  <2> QED BY <2>3, <2>4
<1> HIDE DEF T
<1>5. /\ IsFiniteSet(sessionsByUser[u] \cup T)
      /\ Cardinality(sessionsByUser[u] \cup T) <= Cardinality(sessionsByUser[u]) + Cardinality(T)
      /\ Cardinality(sessionsByUser[u] \cup T) \in Nat
  <2>1. IsFiniteSet(sessionsByUser[u] \cap T)
    BY <1>3, FS_Subset
  <2>2. Cardinality(sessionsByUser[u] \cap T) \in Nat
    BY <2>1, FS_CardinalityType
  <2>3. /\ IsFiniteSet(sessionsByUser[u] \cup T)
        /\ Cardinality(sessionsByUser[u] \cup T) =
             Cardinality(sessionsByUser[u]) + Cardinality(T) - Cardinality(sessionsByUser[u] \cap T)
    BY <1>3, ListsFinite, FS_Union
  <2>4. Cardinality(sessionsByUser[u] \cup T) \in Nat
    BY <2>3, FS_CardinalityType
  <2> QED BY <1>3, <2>2, <2>3, <2>4, ListsFinite
<1>6. /\ Cardinality(KernelsOf(u)) <= Cardinality(sessionsByUser[u] \cup T)
      /\ Cardinality(KernelsOf(u)) \in Nat
  BY <1>4, <1>5, FS_Subset, FS_CardinalityType
<1>7. Cardinality(sessionsByUser[u]) + pendingUser[u] <= MaxKernelsPerUser
  BY DEF UsersBounded
<1> QED BY <1>1, <1>3, <1>5, <1>6, <1>7, ListsFinite, ConstantsAssumption

\* Without persistence no user ever has more than max_kernels_per_user managed kernels,
\* although the check looks at per-user lists that other requests for the same id edit.
THEOREM MaxKernelsPerUserSafe ==
    ASSUME Mode = "none"
    PROVE  Spec => []MaxKernelsPerUserRespected
<1>1. Init => UsersBounded
  <2>1. MaxKernelsPerUser # NoLimit => 0 + 0 <= MaxKernelsPerUser
    BY ConstantsAssumption
  <2> QED BY <2>1, FS_EmptySet DEF Init, UsersBounded
<1>2. TypeOK /\ Linked /\ PendingExact /\ UsersBounded /\ [Next]_vars => UsersBounded'
  BY UsersStep
<1>3. TypeOK /\ Linked /\ PendingExact /\ UsersBounded => MaxKernelsPerUserRespected
  BY UserKernelsCovered
<1> QED BY <1>1, <1>2, <1>3, CountersExact, PTL DEF Spec

-----------------------------------------------------------------------------
(* The sessions.  Neither property is inductive: a refresh must find a      *)
(* session to refresh (Tracked), under the id of the instance it relaunches *)
(* (OwnIds).                                                                *)

\* A session has its kernel, and the store of a running gateway agrees with it.
Backed(k) ==
    sessions[k] # NoSession => kernels[k] # NoKM /\ (up /\ Persistent => store[k] = sessions[k])

\* A managed kernel has a session that describes it, or its POST is about to write one.
Tracked(k) ==
    kernels[k] # NoKM =>
        \/ start[kernels[k]].pc = "added"
        \/ /\ sessions[k] # NoSession
           /\ sessions[k].km = kernels[k] /\ sessions[k].gen = gen[kernels[k]]

\* A coroutine works on an instance under the id of the request that created it.
OwnIds == \A o \in Ops : op[o] # Idle => start[op[o].km].id = op[o].id

SessionInv ==
    /\ OwnIds /\ (~up => \A k \in Ids : kernels[k] = NoKM)
    /\ \A k \in Ids : Backed(k) /\ Tracked(k)

\* A step that leaves an id alone: its kernel, its session, the POST and the process.
Untouched(k) ==
    /\ kernels'[k] = kernels[k] /\ sessions'[k] = sessions[k] /\ store'[k] = store[k]
    /\ kernels[k] # NoKM =>
          /\ gen'[kernels[k]] = gen[kernels[k]]
          /\ start[kernels[k]].pc = "added" => start'[kernels[k]].pc = "added"
    /\ up' => up

\* Such a step keeps what is known of the id.
LEMMA UntouchedKept ==
    ASSUME NEW k \in Ids, Backed(k), Tracked(k), Untouched(k)
    PROVE  Backed(k)' /\ Tracked(k)'
  BY DEF Backed, Tracked, Untouched, Persistent

\* Coroutines that go on, end, or begin on an instance under its own id.
LEMMA OwnIdsKept ==
    ASSUME TypeOK, Linked, Settled, OwnIds,
           \A o \in Ops : \/ op'[o] = Idle
                          \/ op[o] # Idle /\ op'[o].km = op[o].km /\ op'[o].id = op[o].id
                          \/ op'[o].km \in Requests /\ Instance(op'[o].km, op'[o].id)
    PROVE  OwnIds'
<1> SUFFICES ASSUME NEW o \in Ops, op'[o] # Idle PROVE start'[op'[o].km].id = op'[o].id
  BY DEF OwnIds
<1>1. CASE op[o] # Idle /\ op'[o].km = op[o].km /\ op'[o].id = op[o].id
  <2>1. op[o].km \in Requests /\ start[op[o].km].pc # "idle" /\ start[op[o].km].id = op[o].id
    BY <1>1 DEF TypeOK, OpRecord, Linked, OwnIds
  <2> QED BY <1>1, <2>1 DEF Settled
<1>2. CASE op'[o].km \in Requests /\ Instance(op'[o].km, op'[o].id)
  BY <1>2 DEF Settled, Instance
<1> QED BY <1>1, <1>2

\* The steps that are not of a session: the registry, the store and the processes' incarnations
\* stay as they are.
LEMMA SessionFrame ==
    ASSUME TypeOK, Linked, Settled, SessionInv,
           kernels' = kernels, sessions' = sessions, store' = store, gen' = gen, up' = up,
           \A r \in Requests : start[r].pc = "added" => start'[r].pc = "added",
           \A o \in Ops : \/ op'[o] = Idle
                          \/ op[o] # Idle /\ op'[o].km = op[o].km /\ op'[o].id = op[o].id
                          \/ op'[o].km \in Requests /\ Instance(op'[o].km, op'[o].id)
    PROVE  SessionInv'
<1>1. OwnIds'
  BY OwnIdsKept DEF SessionInv
<1>2. \A k \in Ids : Untouched(k)
  BY DEF Untouched, TypeOK
<1>3. \A k \in Ids : Backed(k)' /\ Tracked(k)'
  BY <1>2, UntouchedKept DEF SessionInv
<1> QED BY <1>1, <1>3 DEF SessionInv

\* _save_session for an id, with what serves it now; the other ids are left alone.
LEMMA SessionSaved ==
    ASSUME TypeOK, SessionInv, up, up', kernels' = kernels, NEW k \in Ids, kernels[k] # NoKM,
           NEW s \in Session, s.km = kernels[k], s.gen = gen'[kernels[k]], SaveSession(k, s),
           OwnIds',
           \A j \in Ids : j # k /\ kernels[j] # NoKM =>
              /\ gen'[kernels[j]] = gen[kernels[j]]
              /\ start[kernels[j]].pc = "added" => start'[kernels[j]].pc = "added"
    PROVE  SessionInv'
<1>1. /\ sessions'[k] = s /\ (Persistent => store'[k] = s) /\ s # NoSession
      /\ \A j \in Ids : j # k => sessions'[j] = sessions[j] /\ store'[j] = store[j]
  BY ConstantsAssumption DEF SaveSession, TypeOK, Session
<1>2. Backed(k)' /\ Tracked(k)'
  BY <1>1 DEF Backed, Tracked, Persistent
<1>3. \A j \in Ids : j # k => Untouched(j)
  BY <1>1 DEF Untouched
<1>4. \A j \in Ids : Backed(j)' /\ Tracked(j)'
  BY <1>2, <1>3, UntouchedKept DEF SessionInv
<1> QED BY <1>4 DEF SessionInv

\* delete_session for an id that is no longer managed; the other ids are left alone.
LEMMA SessionDeleted ==
    ASSUME TypeOK, SessionInv, up' = up, start' = start, gen' = gen, NEW k \in Ids,
           kernels'[k] = NoKM, \A j \in Ids : j # k => kernels'[j] = kernels[j],
           DeleteSession(k), OwnIds'
    PROVE  SessionInv'
<1>1. /\ sessions'[k] = NoSession
      /\ \A j \in Ids : j # k => sessions'[j] = sessions[j] /\ store'[j] = store[j]
  BY DEF DeleteSession, TypeOK
<1>2. Backed(k)' /\ Tracked(k)'
  BY <1>1 DEF Backed, Tracked
<1>3. \A j \in Ids : j # k => Untouched(j)
  BY <1>1 DEF Untouched
<1>4. \A j \in Ids : Backed(j)' /\ Tracked(j)'
  BY <1>2, <1>3, UntouchedKept DEF SessionInv
<1>5. ~up' => \A j \in Ids : kernels'[j] = NoKM
  BY DEF SessionInv
<1> QED BY <1>4, <1>5 DEF SessionInv

\* Every step keeps the sessions in step with the kernels and the store.
LEMMA SessionStep == TypeOK /\ Linked /\ SessionInv /\ [Next]_vars => SessionInv'
<1> SUFFICES ASSUME TypeOK, Linked, SessionInv, [Next]_vars PROVE SessionInv'
  OBVIOUS
<1> USE DEF procVars, pendVars, sessVars
<1>s. Settled
  BY SettledStep
<1>t. /\ \A o \in Ops : op[o] # Idle => op[o].km \in Requests /\ op[o].id \in Ids
      /\ \A o \in Ops : op[o] # Idle => start[op[o].km].id = op[o].id
      /\ \A k \in Ids : kernels[k] # NoKM =>
            kernels[k] \in Requests /\ Instance(kernels[k], k) /\ start[kernels[k]].id = k
  BY DEF TypeOK, OpRecord, SessionInv, OwnIds, Linked, Instance
<1>o. op' = op => OwnIds'
  <2> SUFFICES ASSUME op' = op PROVE OwnIds'
    OBVIOUS
  <2> QED BY <1>s, OwnIdsKept DEF SessionInv
<1>1. CASE UNCHANGED vars
  BY <1>1, <1>s, SessionFrame DEF vars
<1>2. ASSUME NEW r \in Requests, NEW u \in Users, NEW k \in Ids,
             StartKernel(r, u, k) \/ StartRejected(r, u, k)
      PROVE  SessionInv'
  <2>1. /\ kernels' = kernels /\ sessions' = sessions /\ store' = store /\ gen' = gen
        /\ up' = up /\ op' = op /\ start[r].pc = "idle"
    BY <1>2 DEF StartKernel, StartRejected
  <2>2. \A x \in Requests : x # r => start'[x] = start[x]
    BY <1>2 DEF StartKernel, StartRejected, TypeOK
  <2>3. \A x \in Requests : start[x].pc = "added" => start'[x].pc = "added"
    BY <2>1, <2>2
  <2> QED BY <1>s, <2>1, <2>3, SessionFrame
<1>3. ASSUME NEW r \in Requests, Launched(r)
      PROVE  SessionInv'
  <2>1. /\ start[r].id \in Ids /\ sessions' = sessions /\ store' = store /\ gen' = gen
        /\ up' = up /\ op' = op /\ up
        /\ start' = [start EXCEPT ![r].pc = "added"]
        /\ kernels' = [kernels EXCEPT ![start[r].id] = r]
    BY <1>3 DEF Launched, Linked
  <2>2. PICK k \in Ids : k = start[r].id
    BY <2>1
  <2>3. start'[r].pc = "added" /\ \A x \in Requests : start[x].pc = "added" => start'[x].pc = "added"
    BY <2>1 DEF TypeOK
  <2>4. kernels'[k] = r /\ r # NoKM /\ \A j \in Ids : j # k => kernels'[j] = kernels[j]
    BY <2>1, <2>2, ConstantsAssumption DEF TypeOK
  <2>5. Backed(k)' /\ Tracked(k)'
    BY <2>1, <2>3, <2>4 DEF SessionInv, Backed, Tracked, Persistent
  <2>6. \A j \in Ids : j # k => Untouched(j)
    BY <1>t, <2>1, <2>3, <2>4 DEF Untouched
  <2>7. \A j \in Ids : Backed(j)' /\ Tracked(j)'
    BY <2>5, <2>6, UntouchedKept DEF SessionInv
  <2> QED BY <1>o, <2>1, <2>7 DEF SessionInv
<1>4. ASSUME NEW r \in Requests, LaunchFailed(r)
      PROVE  SessionInv'
  <2>1. /\ kernels' = kernels /\ sessions' = sessions /\ store' = store /\ gen' = gen
        /\ up' = up /\ op' = op /\ start[r].pc = "launching"
        /\ start' = [start EXCEPT ![r].pc = "failed"]
    BY <1>4 DEF LaunchFailed
  <2>2. \A x \in Requests : start[x].pc = "added" => start'[x].pc = "added"
    BY <2>1 DEF TypeOK
  <2> QED BY <1>s, <2>1, <2>2, SessionFrame
<1>5. ASSUME NEW r \in Requests, StartReturns(r)
      PROVE  SessionInv'
  <2>1. /\ start[r].id \in Ids /\ start[r].user \in Users /\ kernels' = kernels /\ gen' = gen
        /\ up' = up /\ op' = op /\ up
    BY <1>5 DEF StartReturns, Linked
  <2>2. PICK k \in Ids : k = start[r].id
    BY <2>1
  <2>3. \A x \in Requests : x # r => start'[x] = start[x]
    <3>1. \/ start' = [start EXCEPT ![r].pc = "done"]
          \/ start' = [start EXCEPT ![r].pc = "failed"]
      BY <1>5 DEF StartReturns
    <3> QED BY <3>1 DEF TypeOK
  <2>4. \A j \in Ids : j # k /\ kernels[j] # NoKM => kernels[j] # r
    BY <1>t, <2>2
  <2>5. \A j \in Ids : j # k /\ kernels[j] # NoKM =>
           /\ gen'[kernels[j]] = gen[kernels[j]]
           /\ start[kernels[j]].pc = "added" => start'[kernels[j]].pc = "added"
    BY <1>t, <2>1, <2>3, <2>4
  <2>6. CASE kernels[k] # NoKM
    <3> DEFINE s == [user |-> start[r].user, km |-> kernels[k], gen |-> gen[kernels[k]]]
    <3>1. s \in Session /\ s.km = kernels[k] /\ s.gen = gen'[kernels[k]]
      BY <1>t, <2>1, <2>6 DEF Session, TypeOK
    <3>2. SaveSession(k, s)
      BY <1>5, <2>2, <2>6 DEF StartReturns
    <3> HIDE DEF s
    <3> QED BY <1>o, <2>1, <2>5, <2>6, <3>1, <3>2, SessionSaved
  <2>7. CASE kernels[k] = NoKM
    <3>1. sessions' = sessions /\ store' = store
      BY <1>5, <2>2, <2>7 DEF StartReturns
    <3>2. \A j \in Ids : Untouched(j)
      BY <2>1, <2>5, <2>7, <3>1 DEF Untouched
    <3>3. \A j \in Ids : Backed(j)' /\ Tracked(j)'
      BY <3>2, UntouchedKept DEF SessionInv
    <3> QED BY <1>o, <2>1, <3>3 DEF SessionInv
  <2> QED BY <2>6, <2>7
<1>6. ASSUME NEW r \in Requests, AutoDead(r)
      PROVE  SessionInv'
  <2>1. /\ start[r].id \in Ids /\ start' = start /\ gen' = gen /\ op' = op /\ up' = up
        /\ kernels' = [kernels EXCEPT ![start[r].id] = NoKM] /\ DeleteSession(start[r].id)
    BY <1>6 DEF AutoDead, FoundDead, Linked, RemoveKernel
  <2>2. PICK k \in Ids : k = start[r].id
    BY <2>1
  <2>3. kernels'[k] = NoKM /\ \A j \in Ids : j # k => kernels'[j] = kernels[j]
    BY <2>1, <2>2 DEF TypeOK
  <2> QED BY <1>o, <2>1, <2>2, <2>3, SessionDeleted
<1>7. ASSUME NEW r \in Requests, ProcessDies(r)
      PROVE  SessionInv'
  BY <1>7, <1>s, SessionFrame DEF ProcessDies
<1>8. ASSUME NEW o \in Ops, NEW k \in Ids, ShutdownKernel(o, k) \/ RestartKernel(o, k)
      PROVE  SessionInv'
  <2>1. /\ kernels' = kernels /\ sessions' = sessions /\ store' = store /\ gen' = gen
        /\ up' = up /\ start' = start /\ kernels[k] # NoKM
    BY <1>8 DEF ShutdownKernel, RestartKernel
  <2>2. PICK kd \in {"shutdown", "restart"}, p \in {"waiting", "stopping"} :
           op' = [op EXCEPT ![o] = [kind |-> kd, pc |-> p, id |-> k, km |-> kernels[k]]]
    BY <1>8 DEF ShutdownKernel, RestartKernel, Wait, BeginStopping
  <2>3. \A o1 \in Ops : o1 # o => op'[o1] = op[o1]
    BY <2>2 DEF TypeOK
  <2>4. op'[o].km = kernels[k] /\ op'[o].id = k
    BY <2>2 DEF TypeOK
  <2>5. op'[o].km \in Requests /\ Instance(op'[o].km, op'[o].id)
    BY <1>t, <2>1, <2>4
  <2> QED BY <1>s, <2>1, <2>3, <2>5, SessionFrame
<1>9. ASSUME NEW o \in Ops, ShutdownFinished(o)
      PROVE  SessionInv'
  <2>1. op[o].id \in Ids
    BY <1>9, OpTyped DEF ShutdownFinished
  <2>2. PICK k \in Ids : k = op[o].id
    BY <2>1
  <2>3. /\ start' = start /\ gen' = gen /\ up' = up /\ op' = [op EXCEPT ![o] = Idle]
        /\ kernels' = [kernels EXCEPT ![k] = NoKM] /\ DeleteSession(k)
    BY <1>9, <2>2 DEF ShutdownFinished, RemoveKernel
  <2>4. kernels'[k] = NoKM /\ \A j \in Ids : j # k => kernels'[j] = kernels[j]
    BY <2>3 DEF TypeOK
  <2>5. \A o1 \in Ops : op'[o1] = Idle \/ op'[o1] = op[o1]
    BY <2>3 DEF TypeOK
  <2>6. OwnIds'
    BY <1>s, <2>5, OwnIdsKept DEF SessionInv
  <2> QED BY <2>3, <2>4, <2>6, SessionDeleted
<1>10. ASSUME NEW o \in Ops, WaitEnds(o) \/ WaitTimesOut(o)
       PROVE  SessionInv'
  <2>1. op[o].id \in Ids
    BY <1>10, OpTyped DEF WaitEnds, WaitTimesOut
  <2>2. PICK k \in Ids : k = op[o].id
    BY <2>1
  <2>3. /\ kernels' = kernels /\ sessions' = sessions /\ store' = store /\ gen' = gen
        /\ up' = up /\ start' = start
    BY <1>10 DEF WaitEnds, WaitTimesOut
  <2>4. \/ op' = [op EXCEPT ![o] = Idle]
        \/ \E x \in OpRecord : /\ op' = [op EXCEPT ![o] = x] /\ x.km = kernels[k] /\ x.id = k
                               /\ kernels[k] # NoKM
    BY <1>10, <1>t, <2>2 DEF WaitEnds, WaitTimesOut, WaitReturns, BeginStopping, OpRecord
  <2>5. \A o1 \in Ops : o1 # o => op'[o1] = op[o1]
    BY <2>4 DEF TypeOK
  <2>6. \/ op'[o] = Idle
        \/ op'[o].km \in Requests /\ Instance(op'[o].km, op'[o].id)
    BY <1>t, <2>4 DEF TypeOK
  <2> QED BY <1>s, <2>3, <2>5, <2>6, SessionFrame
<1>11. ASSUME NEW o \in Ops, RestartStopped(o)
       PROVE  SessionInv'
  <2>1. /\ kernels' = kernels /\ sessions' = sessions /\ store' = store /\ gen' = gen
        /\ up' = up /\ start' = start /\ op' = [op EXCEPT ![o].pc = "relaunching"]
        /\ op[o].pc = "stopping"
    BY <1>11 DEF RestartStopped
  <2>2. op[o] # Idle /\ op[o] \in OpRecord
    BY <2>1 DEF TypeOK, Idle
  <2>3. op'[o].km = op[o].km /\ op'[o].id = op[o].id /\ \A o1 \in Ops : o1 # o => op'[o1] = op[o1]
    BY <2>1, <2>2 DEF TypeOK, OpRecord
  <2> QED BY <1>s, <2>1, <2>2, <2>3, SessionFrame
<1>12. ASSUME NEW o \in Ops, Relaunched(o)
       PROVE  SessionInv'
  <2>1. op[o] # Idle /\ op[o].id \in Ids /\ op[o].km \in Requests
    BY <1>12, OpTyped DEF Relaunched
  <2>2. PICK r \in Requests, k \in Ids : r = op[o].km /\ k = op[o].id
    BY <2>1
  <2>3. /\ start' = start /\ kernels' = kernels /\ up /\ up' = up /\ gen[r] < MaxGen
        /\ gen' = [gen EXCEPT ![r] = @ + 1] /\ start[r].id = k
    BY <1>12, <1>t, <2>1, <2>2 DEF Relaunched
  <2>4. OwnIds'
    <3>1. op' = [op EXCEPT ![o] = Idle] \/ op' = [op EXCEPT ![o].pc = "replying"]
      BY <1>12 DEF Relaunched
    <3>2. op[o] \in OpRecord /\ op \in [Ops -> OpRecord]
      BY DEF TypeOK
    <3>3. \A o1 \in Ops : \/ op'[o1] = Idle \/ op'[o1] = op[o1]
                          \/ op[o1] # Idle /\ op'[o1].km = op[o1].km /\ op'[o1].id = op[o1].id
      BY <2>1, <3>1, <3>2 DEF OpRecord
    <3> QED BY <1>s, <3>3, OwnIdsKept DEF SessionInv
  <2>5. \A j \in Ids : j # k /\ kernels[j] # NoKM => kernels[j] # r
    BY <1>t, <2>3
  <2>6. \A j \in Ids : j # k /\ kernels[j] # NoKM =>
           /\ gen'[kernels[j]] = gen[kernels[j]]
           /\ start[kernels[j]].pc = "added" => start'[kernels[j]].pc = "added"
    BY <1>t, <2>3, <2>5 DEF TypeOK
  <2>7. CASE Refreshable(k)
    <3> DEFINE s == [sessions[k] EXCEPT !.km = kernels[k], !.gen = gen'[kernels[k]]]
    <3>1. SaveSession(k, s)
      BY <1>12, <2>2, <2>3, <2>7 DEF Relaunched
    <3>2. sessions[k] \in Session /\ kernels[k] # NoKM /\ gen'[kernels[k]] \in 0..MaxGen
      <4>1. sessions[k] \in Session /\ kernels[k] # NoKM
        BY <2>7 DEF Refreshable, TypeOK
      <4>2. gen' \in [Requests -> 0..MaxGen]
        BY <2>3, ConstantsAssumption DEF TypeOK
      <4> QED BY <1>t, <4>1, <4>2
    <3>3. s \in Session /\ s.km = kernels[k] /\ s.gen = gen'[kernels[k]]
      BY <1>t, <3>2 DEF Session
    <3> HIDE DEF s
    <3> QED BY <2>3, <2>4, <2>6, <3>1, <3>2, <3>3, SessionSaved
  <2>8. CASE ~Refreshable(k)
    <3>1. sessions' = sessions /\ store' = store
      BY <1>12, <2>2, <2>8 DEF Relaunched
    <3>2. Backed(k) /\ Tracked(k)
      BY DEF SessionInv
    <3>3. Backed(k)' /\ Tracked(k)'
      BY <2>3, <2>8, <3>1, <3>2 DEF Backed, Tracked, Refreshable
    <3>4. \A j \in Ids : j # k => Untouched(j)
      BY <2>3, <2>6, <3>1 DEF Untouched
    <3>5. \A j \in Ids : Backed(j)' /\ Tracked(j)'
      BY <3>3, <3>4, UntouchedKept DEF SessionInv
    <3> QED BY <2>3, <2>4, <3>5 DEF SessionInv
  <2> QED BY <2>7, <2>8
<1>13. ASSUME NEW o \in Ops, RelaunchFailed(o) \/ RestartReturns(o)
       PROVE  SessionInv'
  <2>1. /\ kernels' = kernels /\ sessions' = sessions /\ store' = store /\ gen' = gen
        /\ up' = up /\ start' = start /\ op' = [op EXCEPT ![o] = Idle]
    BY <1>13 DEF RelaunchFailed, RestartReturns
  <2>2. \A o1 \in Ops : op'[o1] = Idle \/ op'[o1] = op[o1]
    BY <2>1 DEF TypeOK
  <2> QED BY <1>s, <2>1, <2>2, SessionFrame
<1>14. ASSUME NEW o \in Ops, NEW r \in Requests, AutoRestart(o, r)
       PROVE  SessionInv'
  <2>1. /\ kernels' = kernels /\ sessions' = sessions /\ store' = store /\ gen' = gen
        /\ up' = up /\ start' = start
        /\ op' = [op EXCEPT ![o] = [kind |-> "auto", pc |-> "stopping",
                                    id |-> start[r].id, km |-> r]]
    BY <1>14 DEF AutoRestart
  <2>2. op'[o].km = r /\ op'[o].id = start[r].id /\ \A o1 \in Ops : o1 # o => op'[o1] = op[o1]
    BY <2>1 DEF TypeOK
  <2>3. Instance(op'[o].km, op'[o].id)
    BY <1>14, <2>2 DEF AutoRestart, FoundDead, Linked, Instance
  <2> QED BY <1>s, <2>1, <2>2, <2>3, SessionFrame
<1>15. ASSUME NEW o \in Ops, NEW r \in Requests, AutoShutdown(o, r)
       PROVE  SessionInv'
  <2>1. start[r].id \in Ids
    BY <1>15 DEF AutoShutdown, FoundDead, Linked
  <2> QED BY <1>8, <1>15, <2>1 DEF AutoShutdown
<1>16. ASSUME NEW k \in Ids, CheckKernelId(k)
       PROVE  SessionInv'
  <2>1. up /\ kernels[k] = NoKM /\ start' = start /\ gen' = gen /\ op' = op /\ up' = up
    BY <1>16 DEF CheckKernelId
  <2>2. sessions[k] = NoSession
    BY <2>1 DEF SessionInv, Backed
  <2> DEFINE s == IF store[k] # NoSession THEN store[k] ELSE sessions[k]
  <2>3. CASE Mode = "replication" /\ Revivable(s)
    <3>1. s = store[k] /\ s \in Session /\ gen[s.km] = s.gen
      BY <2>2, <2>3 DEF Revivable, Poll, TypeOK
    <3>2. /\ sessions' = [sessions EXCEPT ![k] = s] /\ kernels' = [kernels EXCEPT ![k] = s.km]
          /\ store' = store
      BY <1>16, <2>3 DEF CheckKernelId
    <3> HIDE DEF s
    <3>3. s.km \in Requests /\ s.km # NoKM /\ s # NoSession
      BY <3>1, ConstantsAssumption DEF Session
    <3>4. /\ sessions'[k] = s /\ kernels'[k] = s.km
          /\ \A j \in Ids : j # k => sessions'[j] = sessions[j] /\ kernels'[j] = kernels[j]
      BY <3>2 DEF TypeOK
    <3>5. Backed(k)' /\ Tracked(k)'
      BY <2>1, <3>1, <3>2, <3>3, <3>4 DEF Backed, Tracked
    <3>6. \A j \in Ids : j # k => Untouched(j)
      BY <2>1, <3>2, <3>4 DEF Untouched
    <3>7. \A j \in Ids : Backed(j)' /\ Tracked(j)'
      BY <3>5, <3>6, UntouchedKept DEF SessionInv
    <3> QED BY <1>o, <2>1, <3>7 DEF SessionInv
  <2>4. CASE ~(Mode = "replication" /\ Revivable(s))
    <3>1. DeleteSession(k) /\ kernels' = kernels
      BY <1>16, <2>4 DEF CheckKernelId
    <3> QED BY <1>o, <2>1, <3>1, SessionDeleted
  <2> QED BY <2>3, <2>4
<1>17. ASSUME NEW started \in SUBSET Relaunching, Crash(started)
       PROVE  SessionInv'
  <2>1. \A k \in Ids : kernels'[k] = NoKM /\ sessions'[k] = NoSession
    BY <1>17 DEF Crash
  <2>2. OwnIds'
    BY <1>17 DEF Crash, OwnIds
  <2> QED BY <2>1, <2>2 DEF SessionInv, Backed, Tracked
<1>18. CASE Boot
  <2> DEFINE revived == {k \in Ids : Mode = "standalone" /\ Revivable(store[k])}
             kept == [k \in Ids |-> IF k \in revived THEN store[k] ELSE NoSession]
  <2>1. /\ sessions' = kept /\ store' = (IF Mode = "standalone" THEN kept ELSE store)
        /\ kernels' = [k \in Ids |-> IF k \in revived THEN store[k].km ELSE NoKM]
        /\ gen' = gen /\ op' = op /\ up' = TRUE /\ start' = start
    BY <1>18 DEF Boot
  <2>2. ASSUME NEW k \in Ids PROVE Backed(k)' /\ Tracked(k)'
    <3>1. CASE k \in revived
      <4>1. /\ sessions'[k] = store[k] /\ store'[k] = store[k] /\ kernels'[k] = store[k].km
            /\ store[k] \in Session /\ gen[store[k].km] = store[k].gen
        BY <2>1, <3>1 DEF Revivable, Poll, TypeOK
      <4>2. store[k].km # NoKM /\ store[k] # NoSession
        BY <4>1, ConstantsAssumption DEF Session
      <4> QED BY <2>1, <4>1, <4>2 DEF Backed, Tracked
    <3>2. CASE k \notin revived
      <4>1. sessions'[k] = NoSession /\ kernels'[k] = NoKM
        BY <2>1, <3>2
      <4> QED BY <4>1 DEF Backed, Tracked
    <3> QED BY <3>1, <3>2
  <2> QED BY <1>o, <2>1, <2>2 DEF SessionInv
<1> QED
  BY <1>1, <1>2, <1>3, <1>4, <1>5, <1>6, <1>7, <1>8, <1>9, <1>10, <1>11, <1>12, <1>13,
     <1>14, <1>15, <1>16, <1>17, <1>18 DEF Next

\* The inductive invariant of the sessions.
LEMMA SessionInvHolds == Spec => [](TypeOK /\ SessionInv)
<1>1. Init => SessionInv
  BY DEF Init, SessionInv, OwnIds, Backed, Tracked
<1> QED BY <1>1, CountersExact, SessionStep, PTL DEF Spec

\* A session never outlives its kernel and is what the store holds, through overlapping
\* starts, restarts, shutdowns, revivals and gateway restarts (create_session,
\* refresh_session, delete_session).
THEOREM SessionsCorrect == Spec => []SessionsBacked
<1>1. SessionInv => SessionsBacked
  BY DEF SessionInv, SessionsBacked, Backed
<1> QED BY <1>1, SessionInvHolds, PTL

\* Whenever the gateway is killed, the store describes every kernel whose POST has
\* returned: the instance and the incarnation of its process that serve it (refresh_session
\* after a restart).
THEOREM PersistedCorrect == Spec => []PersistedSessionCurrent
<1>1. SessionInv => PersistedSessionCurrent
  <2> SUFFICES ASSUME SessionInv, Persistent, NEW k \in Active, start[kernels[k]].pc # "added"
               PROVE  /\ store[k] # NoSession
                      /\ store[k].km = kernels[k] /\ store[k].gen = gen[kernels[k]]
    BY DEF PersistedSessionCurrent
  <2>1. up /\ Backed(k) /\ Tracked(k) /\ kernels[k] # NoKM
    BY DEF SessionInv, Active
  <2> QED BY <2>1 DEF Backed, Tracked
<1> QED BY <1>1, SessionInvHolds, PTL
=============================================================================
