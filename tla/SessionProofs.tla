---------------------------- MODULE SessionProofs ----------------------------
(***************************************************************************)
(* Proofs about MainKernelHandler and SessionManager, for any number of    *)
(* overlapping requests, sessions and DELETEs.                             *)
(***************************************************************************)
EXTENDS SessionManager, SequenceTheorems, WellFoundedInduction, TLAPS

-----------------------------------------------------------------------------
(* Operators on the list of sessions.                                      *)

\* A set of natural numbers that is not empty has a least member, so that the queries
\* that take the first match (Min) answer with a match.
LEMMA LeastNatural ==
    ASSUME NEW S \in SUBSET Nat, S # {}
    PROVE  Min(S) \in S /\ \A x \in S : Min(S) <= x
<1>1. PICK x \in S : \A y \in S : ~(<<y, x>> \in OpToRel(<, Nat))
  BY NatLessThanWellFounded, WFMin
<1>2. ASSUME NEW y \in S PROVE x <= y
  <2>1. <<y, x>> \in Nat \X Nat
    OBVIOUS
  <2>2. ~(y < x)
    BY <1>1, <2>1 DEF OpToRel
  <2> QED BY <2>2
<1> QED BY <1>2 DEF Min

\* What RemoveAt leaves of a sequence: one element fewer, the later ones moved down.
LEMMA RemoveAtProperties ==
    ASSUME NEW S, NEW s \in Seq(S), NEW i \in 1..Len(s)
    PROVE  /\ RemoveAt(s, i) \in Seq(S)
           /\ Len(RemoveAt(s, i)) = Len(s) - 1
           /\ \A j \in 1..(Len(s) - 1) : RemoveAt(s, i)[j] = IF j < i THEN s[j] ELSE s[j + 1]
<1> DEFINE a == SubSeq(s, 1, i - 1)
           b == SubSeq(s, i + 1, Len(s))
<1>1. /\ a \in Seq(S) /\ Len(a) = i - 1
      /\ \A j \in 1..(i - 1) : a[j] = s[j]
  BY SubSeqProperties
<1>2. /\ b \in Seq(S) /\ Len(b) = Len(s) - i
      /\ \A j \in 1..(Len(s) - i) : b[j] = s[i + j]
  BY SubSeqProperties
<1> HIDE DEF a, b
<1>3. RemoveAt(s, i) = a \o b
  BY DEF RemoveAt, a, b
<1>4. a \o b \in Seq(S) /\ Len(a \o b) = Len(s) - 1
  <2>1. a \o b \in Seq(S) /\ Len(a \o b) = Len(a) + Len(b)
    BY <1>1, <1>2, ConcatProperties, Zenon
  <2>2. Len(s) \in Nat
    BY LenProperties
  <2>3. Len(a) + Len(b) = Len(s) - 1
    BY <1>1, <1>2, <2>2
  <2> QED BY <2>1, <2>3, Zenon
<1>5. ASSUME NEW j \in 1..(Len(s) - 1)
      PROVE  (a \o b)[j] = IF j < i THEN s[j] ELSE s[j + 1]
  <2>1. (a \o b)[j] = IF j <= i - 1 THEN a[j] ELSE b[j - (i - 1)]
    BY <1>1, <1>2, ConcatProperties
  <2>2. CASE j < i
    BY <1>1, <2>1, <2>2
  <2>3. CASE j >= i
    <3>1. j - (i - 1) \in 1..(Len(s) - i) /\ i + (j - (i - 1)) = j + 1
      BY <2>3
    <3>2. b[j - (i - 1)] = s[j + 1]
      BY <1>2, <3>1
    <3>3. ~(j <= i - 1) /\ ~(j < i)
      BY <2>3
    <3> QED BY <2>1, <3>2, <3>3, Zenon
  <2>4. j < i \/ j >= i
    OBVIOUS
  <2> QED BY <2>2, <2>3, <2>4, Zenon
<1> QED BY <1>3, <1>4, <1>5

\* get_session_by_key on the list answers 0 or the position of a match, and finds every match.
LEMMA RowOfMatches ==
    ASSUME rows \in Seq(Row), NEW id
    PROVE  /\ RowOf(id) \in 0..Len(rows)
           /\ RowOf(id) # 0 => rows[RowOf(id)].id = id
           /\ RowOf(id) = 0 => \A i \in 1..Len(rows) : rows[i].id # id
<1> DEFINE I == {i \in 1..Len(rows) : rows[i].id = id}
<1>1. RowOf(id) = IF I # {} THEN Min(I) ELSE 0
  BY DEF RowOf, SelectInSeq
<1>2. I \in SUBSET Nat
  OBVIOUS
<1>3. I # {} => Min(I) \in I
  BY <1>2, LeastNatural
<1> QED BY <1>1, <1>3

\* The same for the search by path.
LEMMA RowAtMatches ==
    ASSUME rows \in Seq(Row), NEW p
    PROVE  /\ RowAt(p) \in 0..Len(rows)
           /\ RowAt(p) # 0 => rows[RowAt(p)].path = p
           /\ RowAt(p) = 0 => \A i \in 1..Len(rows) : rows[i].path # p
<1> DEFINE I == {i \in 1..Len(rows) : rows[i].path = p}
<1>1. RowAt(p) = IF I # {} THEN Min(I) ELSE 0
  BY DEF RowAt, SelectInSeq
<1>2. I \in SUBSET Nat
  OBVIOUS
<1>3. I # {} => Min(I) \in I
  BY <1>2, LeastNatural
<1> QED BY <1>1, <1>3

-----------------------------------------------------------------------------
(* Type correctness.                                                       *)

\* The three ways in which the list of sessions shrinks or stays.
LEMMA RowsTyped ==
    ASSUME SessionTypeOK
    PROVE  /\ \A i \in 1..Len(rows) : RowToModel(i) => rows' \in Seq(Row)
           /\ \A id : Without(id) \in Seq(Row)
<1>1. rows \in Seq(Row)
  BY DEF SessionTypeOK
<1>2. \A i \in 1..Len(rows) : RemoveAt(rows, i) \in Seq(Row)
  BY <1>1, RemoveAtProperties
<1>3. \A id : RowOf(id) # 0 => RowOf(id) \in 1..Len(rows)
  BY <1>1, RowOfMatches
<1> QED BY <1>1, <1>2, <1>3 DEF RowToModel, Without

\* A step of MainKernelHandler keeps its own variables well typed.
LEMMA HandlerTyped == TypeOK /\ Next => TypeOK'
<1> SUFFICES ASSUME TypeOK, Next PROVE TypeOK'
  OBVIOUS
<1> USE HandlerAssumption DEF TypeOK, Attr
<1>1. ASSUME NEW r \in Posts, PostRefused(r) \/ PostWithEnv(r) \/ PostPlain(r)
      PROVE  TypeOK'
  BY <1>1 DEF PostRefused, PostWithEnv, PostPlain, StartKernel
<1>2. ASSUME NEW r \in Posts, NEW ok \in BOOLEAN, PostEnds(r, ok)
      PROVE  TypeOK'
  BY <1>2 DEF PostEnds, Restore
<1>3. ASSUME NEW r \in Requests, KernelGone(r)
      PROVE  TypeOK'
  BY <1>3 DEF KernelGone
<1> QED BY <1>1, <1>2, <1>3 DEF Next

\* The step of SessionNext keeps the types.
LEMMA SessionTyped == SessionTypeOK /\ [SessionNext]_sessionVars => SessionTypeOK'
<1> SUFFICES ASSUME SessionTypeOK, [SessionNext]_sessionVars PROVE SessionTypeOK'
  OBVIOUS
<1> USE HandlerAssumption, SessionAssumption DEF SessionTypeOK, SessionPosts
<1>1. CASE UNCHANGED sessionVars
  BY <1>1 DEF sessionVars, vars, rowVars, TypeOK
<1>2. CASE Next /\ UNCHANGED rowVars
  BY <1>2, HandlerTyped DEF rowVars
<1>3. CASE ListSessions
  <2> DEFINE stale == {i \in 1..Len(rows) : Stale(i)}
  <2>1. Min(stale) \in 1..Len(rows)
    BY <1>3, LeastNatural DEF ListSessions
  <2> QED BY <1>3, <2>1, RowsTyped DEF ListSessions, vars, TypeOK
<1>4. ASSUME NEW r \in SessionPosts, ExistingSession(r)
      PROVE  SessionTypeOK'
  <2>1. RowAt(path[r]) \in 1..Len(rows)
    BY <1>4, RowAtMatches DEF ExistingSession, SessionExists
  <2> QED BY <1>4, <2>1, RowsTyped DEF ExistingSession, TypeOK
<1>5. ASSUME NEW r \in SessionPosts, CreateSession(r)
      PROVE  SessionTypeOK'
  BY <1>5 DEF CreateSession, StartKernel, TypeOK, Attr
<1>6. ASSUME NEW r \in SessionPosts, GetSession(r)
      PROVE  SessionTypeOK'
  <2>1. RowOf(r) \in 1..Len(rows)
    BY <1>6, RowOfMatches DEF GetSession
  <2> QED BY <1>6, <2>1, RowsTyped DEF GetSession, vars, TypeOK
<1>7. ASSUME NEW r \in SessionPosts, NEW ok \in BOOLEAN, SessionStarted(r, ok)
      PROVE  SessionTypeOK'
  <2>1. [id |-> r, path |-> path[r], kernel |-> r] \in Row
    BY DEF Row
  <2>2. Append(rows, [id |-> r, path |-> path[r], kernel |-> r]) \in Seq(Row)
    BY <2>1, AppendProperties
  <2> QED BY <1>7, <2>2 DEF SessionStarted, TypeOK
<1>8. ASSUME NEW r \in SessionPosts, NEW p \in Paths, NEW k \in Requests, UpdateSession(r, p, k)
      PROVE  SessionTypeOK'
  <2>1. [id |-> r, path |-> p, kernel |-> k] \in Row
    BY DEF Row
  <2>2. Append(Without(r), [id |-> r, path |-> p, kernel |-> k]) \in Seq(Row)
    BY <2>1, RowsTyped, AppendProperties
  <2> QED BY <1>8, <2>2 DEF UpdateSession, vars, TypeOK
<1>9. ASSUME NEW r \in SessionPosts, NEW d \in Deletes, DeleteSession(d, r)
      PROVE  SessionTypeOK'
  <2>1. RowOf(r) \in 1..Len(rows)
    BY <1>9, RowOfMatches DEF DeleteSession
  <2>2. rows[RowOf(r)].kernel \in Requests
    <3>1. rows[RowOf(r)] \in Row
      BY <2>1, ElementOfSeq
    <3> QED BY <3>1 DEF Row
  <2> QED BY <1>9, <2>2 DEF DeleteSession, vars, TypeOK
<1>10. ASSUME NEW d \in Deletes, DeleteReturns(d) \/ DeleteRaises(d)
       PROVE  SessionTypeOK'
  BY <1>10, RowsTyped DEF DeleteReturns, DeleteRaises, vars, TypeOK
<1> QED BY <1>1, <1>2, <1>3, <1>4, <1>5, <1>6, <1>7, <1>8, <1>9, <1>10 DEF SessionNext

-----------------------------------------------------------------------------
(* The env of a POST.                                                      *)

\* Strengthening for the two properties of the shared attribute: a request not yet handled
\* has left no trace in it, in what the others saved or in the env of a kernel, and no
\* request saved its own partial.
EnvInv ==
    /\ \A r \in Requests : pc[r] = "new" => envOf[r] = NoEnv
    /\ startAttr # Bound => startAttr \in WithEnv /\ pc[startAttr] # "new"
    /\ \A s \in Requests : orig[s] # Bound =>
          /\ s \in WithEnv /\ pc[s] # "new" /\ orig[s] # s
          /\ orig[s] \in WithEnv /\ pc[orig[s]] # "new"
    /\ LeftoverIsOverlap

\* A step of MainKernelHandler preserves it.
LEMMA HandlerEnv == TypeOK /\ EnvInv /\ Next => EnvInv'
<1> SUFFICES ASSUME TypeOK, EnvInv, Next PROVE EnvInv'
  OBVIOUS
<1> USE HandlerAssumption DEF TypeOK, Attr, EnvInv, LeftoverIsOverlap, SavedByAnother
<1>1. ASSUME NEW r \in Posts, PostRefused(r)
      PROVE  EnvInv'
  BY <1>1 DEF PostRefused
<1>2. ASSUME NEW r \in Posts, PostWithEnv(r)
      PROVE  EnvInv'
  BY <1>2 DEF PostWithEnv
<1>3. ASSUME NEW r \in Posts, PostPlain(r)
      PROVE  EnvInv'
  BY <1>3 DEF PostPlain, StartKernel
<1>4. ASSUME NEW r \in Posts, NEW ok \in BOOLEAN, PostEnds(r, ok)
      PROVE  EnvInv'
  BY <1>4 DEF PostEnds, Restore
<1>5. ASSUME NEW r \in Requests, KernelGone(r)
      PROVE  EnvInv'
  BY <1>5 DEF KernelGone
<1> QED BY <1>1, <1>2, <1>3, <1>4, <1>5 DEF Next

\* So does every step of the sessions, which only reads the attribute.
LEMMA EnvStep == SessionTypeOK /\ EnvInv /\ [SessionNext]_sessionVars => EnvInv'
<1> SUFFICES ASSUME SessionTypeOK, EnvInv, [SessionNext]_sessionVars PROVE EnvInv'
  OBVIOUS
<1>0. TypeOK
  BY DEF SessionTypeOK
<1>1. CASE Next
  BY <1>0, <1>1, HandlerEnv
<1>2. ASSUME UNCHANGED vars
      PROVE  EnvInv'
  BY <1>2 DEF vars, EnvInv, LeftoverIsOverlap, SavedByAnother
<1>3. ASSUME NEW r \in SessionPosts, NEW ok \in BOOLEAN,
             ExistingSession(r) \/ CreateSession(r) \/ SessionStarted(r, ok)
      PROVE  EnvInv'
  BY <1>0, <1>3, HandlerAssumption
     DEF ExistingSession, CreateSession, StartKernel, SessionStarted, SessionPosts,
         TypeOK, Attr, EnvInv, LeftoverIsOverlap, SavedByAnother
<1>4. ASSUME ~Next,
             ~\E r \in SessionPosts, ok \in BOOLEAN :
                ExistingSession(r) \/ CreateSession(r) \/ SessionStarted(r, ok)
      PROVE  UNCHANGED vars
  BY <1>4 DEF SessionNext, sessionVars, ListSessions, GetSession, UpdateSession,
     DeleteSession, DeleteReturns, DeleteRaises
<1> QED BY <1>1, <1>2, <1>3, <1>4

-----------------------------------------------------------------------------
(* The list of sessions.                                                   *)

Overlap(r, s) == r \in during[s] \/ s \in during[r]

\* Strengthening for the two properties of the list: a row is that of a POST that has
\* ended, there is one per session, and it is as that POST made it unless a PATCH changed
\* it; a DELETE remembers the kernel of such a row; a session's kernel is managed only after
\* its POST; and two session POSTs for one path overlap also while one, or both, are awaiting.
RowsTrue ==
    \A i \in 1..Len(rows) :
        /\ pc[rows[i].id] = "done"
        /\ rows[i].id \notin patched =>
              rows[i].path = path[rows[i].id] /\ rows[i].kernel = rows[i].id
OneRowEach == \A i, j \in 1..Len(rows) : rows[i].id = rows[j].id => i = j
DeletesTrue ==
    \A d \in Deletes : deleting[d] # NoDelete /\ deleting[d].id \notin patched =>
        deleting[d].kernel = deleting[d].id
ManagedAfter == \A r \in SessionPosts : r \in managed => pc[r] = "done"
BothAwaiting ==
    \A r, s \in SessionPosts : r # s /\ pc[r] = "awaiting" /\ pc[s] = "awaiting" => Overlap(r, s)
OneAwaiting ==
    \A r \in SessionPosts : \A i \in 1..Len(rows) :
        pc[r] = "awaiting" /\ rows[i].id \notin patched /\ rows[i].path = path[r] =>
            Overlap(r, rows[i].id)

ListInv ==
    /\ RowsTrue /\ OneRowEach /\ DeletesTrue /\ ManagedAfter /\ BothAwaiting /\ OneAwaiting
    /\ SessionKernelListed /\ SamePathIsOverlap

\* The fields of a row.
LEMMA RowFields ==
    ASSUME rows \in Seq(Row)
    PROVE  /\ SessionPosts \subseteq Requests
           /\ \A m \in 1..Len(rows) : /\ rows[m] \in Row
                                      /\ rows[m].id \in SessionPosts /\ rows[m].kernel \in Requests
<1>1. \A m \in 1..Len(rows) : rows[m] \in Row
  BY ElementOfSeq
<1> QED BY <1>1 DEF Row, SessionPosts

\* q holds the rows other than row i, each in a place of its own
RowsBut(i, q) ==
    /\ \A m \in 1..Len(rows) : m # i => \E j \in 1..Len(q) : q[j] = rows[m]
    /\ \A j \in 1..Len(q) : \E m \in 1..Len(rows) : m # i /\ q[j] = rows[m]
    /\ \A j, k \in 1..Len(q) : j # k =>
          \E m, n \in 1..Len(rows) : m # n /\ q[j] = rows[m] /\ q[k] = rows[n]

\* What is left when row i is removed.
LEMMA RowRemoved ==
    ASSUME rows \in Seq(Row), NEW i \in 1..Len(rows)
    PROVE  RowsBut(i, RemoveAt(rows, i))
<1> DEFINE q == RemoveAt(rows, i)
<1> DEFINE old(j) == IF j < i THEN j ELSE j + 1
<1>0. Len(rows) \in Nat /\ Len(q) = Len(rows) - 1
  BY RemoveAtProperties, LenProperties
<1>1. \A j \in 1..Len(q) : q[j] = IF j < i THEN rows[j] ELSE rows[j + 1]
  BY RemoveAtProperties, <1>0
<1>2. \A j \in 1..Len(q) : old(j) \in 1..Len(rows) /\ old(j) # i /\ q[j] = rows[old(j)]
  BY <1>0, <1>1
<1>3. \A j, k \in 1..Len(q) : j # k => old(j) # old(k)
  BY <1>0
<1>4. ASSUME NEW m \in 1..Len(rows), m # i
      PROVE  \E j \in 1..Len(q) : q[j] = rows[m]
  <2>1. CASE m < i
    BY <1>0, <1>1, <2>1
  <2>2. CASE m > i
    <3>1. m - 1 \in 1..Len(q) /\ ~(m - 1 < i) /\ (m - 1) + 1 = m
      BY <1>0, <2>2
    <3> QED BY <1>1, <3>1
  <2> QED BY <1>0, <1>4, <2>1, <2>2
<1> HIDE DEF old, q
<1>5. \A j \in 1..Len(q) : \E m \in 1..Len(rows) : m # i /\ q[j] = rows[m]
  BY <1>2, Zenon
<1>6. ASSUME NEW j \in 1..Len(q), NEW k \in 1..Len(q), j # k
      PROVE  \E m, n \in 1..Len(rows) : m # n /\ q[j] = rows[m] /\ q[k] = rows[n]
  BY <1>2, <1>3, <1>6, Zenon
<1>7. RowsBut(i, q)
  BY <1>4, <1>5, <1>6, Zenon DEF RowsBut
<1> QED BY <1>7 DEF q

\* What an appended row adds.
LEMMA RowAppended ==
    ASSUME NEW s \in Seq(Row), NEW e \in Row, NEW q, q = Append(s, e)
    PROVE  /\ Len(q) = Len(s) + 1 /\ q[Len(s) + 1] = e
           /\ \A j \in 1..Len(s) : q[j] = s[j]
           /\ \A j \in 1..Len(q) : j = Len(s) + 1 \/ j \in 1..Len(s)
           /\ Len(s) + 1 \notin 1..Len(s) /\ Len(s) \in Nat
  BY LenProperties, AppendProperties

\* Dropping a row keeps the invariant, when an unpatched session loses its row only after
\* its kernel; the POST of some r may end at the same time, without a kernel.
LEMMA DropStep ==
    ASSUME SessionTypeOK, ListInv, NEW i \in 1..Len(rows), rows' = RemoveAt(rows, i),
           rows[i].id \notin patched => rows[i].id \notin managed,
           managed' = managed, path' = path, during' = during, patched' = patched,
           \A r \in Requests : pc'[r] = pc[r] \/ (pc[r] = "new" /\ pc'[r] = "done"),
           \A d \in Deletes : deleting'[d] \in {deleting[d], NoDelete}
    PROVE  ListInv'
<1> USE DEF ListInv
<1>a. RowsBut(i, rows')
  BY RowRemoved DEF SessionTypeOK
<1>0. /\ \A m \in 1..Len(rows) : m # i => \E j \in 1..Len(rows') : rows'[j] = rows[m]
      /\ \A j \in 1..Len(rows') : \E m \in 1..Len(rows) : m # i /\ rows'[j] = rows[m]
      /\ \A j, k \in 1..Len(rows') : j # k =>
            \E m, n \in 1..Len(rows) : m # n /\ rows'[j] = rows[m] /\ rows'[k] = rows[n]
  BY <1>a, Zenon DEF RowsBut
<1>b. SessionPosts \subseteq Requests /\ \A m \in 1..Len(rows) : rows[m].id \in SessionPosts
  BY RowFields DEF SessionTypeOK
<1>1. RowsTrue'
  <2> SUFFICES ASSUME NEW j \in 1..Len(rows')
               PROVE  /\ pc'[rows'[j].id] = "done"
                      /\ rows'[j].id \notin patched =>
                            rows'[j].path = path[rows'[j].id] /\ rows'[j].kernel = rows'[j].id
    BY DEF RowsTrue
  <2>1. PICK m \in 1..Len(rows) : m # i /\ rows'[j] = rows[m]
    BY <1>0, Zenon
  <2> QED BY <1>b, <2>1 DEF RowsTrue
<1>2. OneRowEach'
  <2> SUFFICES ASSUME NEW j \in 1..Len(rows'), NEW k \in 1..Len(rows'), j # k
               PROVE  rows'[j].id # rows'[k].id
    BY Zenon DEF OneRowEach
  <2>1. PICK m \in 1..Len(rows), n \in 1..Len(rows) :
               m # n /\ rows'[j] = rows[m] /\ rows'[k] = rows[n]
    BY <1>0, Zenon
  <2>2. rows[m].id # rows[n].id
    BY <2>1, Zenon DEF OneRowEach
  <2> QED BY <2>1, <2>2
<1>3. DeletesTrue' /\ ManagedAfter' /\ BothAwaiting'
  BY <1>b DEF DeletesTrue, ManagedAfter, BothAwaiting, Overlap
<1>4. OneAwaiting'
  <2> SUFFICES ASSUME NEW r \in SessionPosts, NEW j \in 1..Len(rows'), pc'[r] = "awaiting",
                      rows'[j].id \notin patched, rows'[j].path = path[r]
               PROVE  Overlap(r, rows'[j].id)
    BY DEF OneAwaiting, Overlap
  <2>1. PICK m \in 1..Len(rows) : m # i /\ rows'[j] = rows[m]
    BY <1>0, Zenon
  <2>2. pc[r] = "awaiting"
    BY <1>b
  <2> QED BY <2>1, <2>2, Zenon DEF OneAwaiting
<1>5. SessionKernelListed'
  <2> SUFFICES ASSUME NEW r \in SessionPosts, r \notin patched, pc'[r] = "done", r \in managed
               PROVE  \E j \in 1..Len(rows') : rows'[j].id = r /\ rows'[j].kernel = r
    BY DEF SessionKernelListed
  <2>1. pc[r] = "done"
    BY DEF ManagedAfter
  <2>2. PICK m \in 1..Len(rows) : rows[m].id = r /\ rows[m].kernel = r
    BY <2>1 DEF SessionKernelListed
  <2>3. m # i
    BY <2>2
  <2>4. PICK j \in 1..Len(rows') : rows'[j] = rows[m]
    BY <1>0, <2>3, Zenon
  <2> QED BY <2>2, <2>4
<1>6. SamePathIsOverlap'
  <2> SUFFICES ASSUME NEW j \in 1..Len(rows'), NEW k \in 1..Len(rows'), j # k,
                      rows'[j].path = rows'[k].path
               PROVE  \/ rows'[j].id \in during[rows'[k].id]
                      \/ rows'[k].id \in during[rows'[j].id]
                      \/ {rows'[j].id, rows'[k].id} \cap patched # {}
    BY DEF SamePathIsOverlap
  <2>1. PICK m \in 1..Len(rows), n \in 1..Len(rows) :
               m # n /\ rows'[j] = rows[m] /\ rows'[k] = rows[n]
    BY <1>0, Zenon
  <2> QED BY <2>1, Zenon DEF SamePathIsOverlap
<1> QED BY <1>1, <1>2, <1>3, <1>4, <1>5, <1>6

\* row_to_model keeps it: a row is dropped only when its kernel is not managed.
LEMMA QueryStep ==
    ASSUME SessionTypeOK, ListInv, NEW i \in 1..Len(rows), RowToModel(i),
           managed' = managed, path' = path, during' = during, patched' = patched,
           deleting' = deleting,
           \A r \in Requests : pc'[r] = pc[r] \/ (pc[r] = "new" /\ pc'[r] = "done")
    PROVE  ListInv'
<1>1. CASE Stale(i)
  <2>1. rows' = RemoveAt(rows, i) /\ rows[i].kernel \notin managed
    BY <1>1 DEF RowToModel, Stale
  <2>2. rows[i].id \notin patched => rows[i].id \notin managed
    BY <2>1 DEF ListInv, RowsTrue
  <2> QED BY <2>1, <2>2, DropStep
<1>2. CASE ~Stale(i)
  <2>1. rows' = rows
    BY <1>2 DEF RowToModel
  <2>2. SessionPosts \subseteq Requests /\ \A m \in 1..Len(rows) : rows[m].id \in SessionPosts
    BY RowFields DEF SessionTypeOK
  <2>3. SessionKernelListed'
    BY <2>1, <2>2 DEF ListInv, SessionKernelListed, ManagedAfter
  <2>4. RowsTrue' /\ OneRowEach' /\ DeletesTrue' /\ ManagedAfter'
    BY <2>1, <2>2 DEF ListInv, RowsTrue, OneRowEach, DeletesTrue, ManagedAfter
  <2>5. BothAwaiting' /\ OneAwaiting' /\ SamePathIsOverlap'
    BY <2>1, <2>2 DEF ListInv, BothAwaiting, OneAwaiting, SamePathIsOverlap, Overlap
  <2> QED BY <2>3, <2>4, <2>5 DEF ListInv
<1> QED BY <1>1, <1>2

\* save_session after the await: the new row is alone in its place, and whoever else has
\* the same path overlapped.
LEMMA SavedStep ==
    ASSUME SessionTypeOK, ListInv, NEW r \in SessionPosts, SessionStarted(r, TRUE)
    PROVE  ListInv'
<1> DEFINE e == [id |-> r, path |-> path[r], kernel |-> r]
           n == Len(rows) + 1
<1>0. /\ pc[r] = "awaiting" /\ pc' = [pc EXCEPT ![r] = "done"] /\ managed' = managed \cup {r}
      /\ path' = path /\ during' = during /\ patched' = patched /\ deleting' = deleting
      /\ rows' = Append(rows, e)
  BY DEF SessionStarted
<1>1. /\ e \in Row /\ r \in Requests /\ SessionPosts \subseteq Requests
      /\ \A m \in 1..Len(rows) : rows[m].id \in SessionPosts
  <2>1. e \in Row /\ r \in Requests
    BY DEF SessionTypeOK, Row, SessionPosts
  <2> QED BY <2>1, RowFields DEF SessionTypeOK
<1>2. /\ Len(rows') = n /\ rows'[n] = e
      /\ \A j \in 1..Len(rows) : rows'[j] = rows[j] /\ j \in 1..Len(rows')
      /\ \A j \in 1..Len(rows') : j = n \/ j \in 1..Len(rows)
      /\ n \in 1..Len(rows')
  <2>1. rows \in Seq(Row)
    BY DEF SessionTypeOK
  <2> QED BY <1>0, <1>1, <2>1, RowAppended
<1>3. rows'[n].id = r /\ rows'[n].path = path[r] /\ rows'[n].kernel = r
  BY <1>2
<1>4. \A m \in 1..Len(rows) : rows[m].id # r
  BY <1>0 DEF ListInv, RowsTrue
<1> HIDE DEF n, e
<1>5. \A s \in SessionPosts : pc'[s] = IF s = r THEN "done" ELSE pc[s]
  BY <1>0, <1>1 DEF SessionTypeOK, TypeOK
<1>6. RowsTrue'
  BY <1>0, <1>1, <1>2, <1>3, <1>5 DEF ListInv, RowsTrue
<1>7. OneRowEach'
  <2> SUFFICES ASSUME NEW i \in 1..Len(rows'), NEW j \in 1..Len(rows'), rows'[i].id = rows'[j].id
               PROVE  i = j
    BY DEF OneRowEach
  <2>1. CASE i = n
    BY <1>2, <1>3, <1>4, <2>1
  <2>2. CASE j = n
    BY <1>2, <1>3, <1>4, <2>2
  <2>3. CASE i # n /\ j # n
    BY <1>2, <2>3 DEF ListInv, OneRowEach
  <2> QED BY <2>1, <2>2, <2>3
<1>8. DeletesTrue' /\ ManagedAfter' /\ BothAwaiting'
  BY <1>0, <1>5 DEF ListInv, DeletesTrue, ManagedAfter, BothAwaiting, Overlap
<1>9. OneAwaiting'
  <2> SUFFICES ASSUME NEW s \in SessionPosts, NEW i \in 1..Len(rows'), pc'[s] = "awaiting",
                      rows'[i].id \notin patched, rows'[i].path = path[s]
               PROVE  Overlap(s, rows'[i].id)
    BY <1>0 DEF OneAwaiting, Overlap
  <2>1. s # r /\ pc[s] = "awaiting"
    BY <1>5
  <2>2. CASE i = n
    BY <1>0, <1>3, <2>1, <2>2 DEF ListInv, BothAwaiting
  <2>3. CASE i # n
    BY <1>2, <2>1, <2>3 DEF ListInv, OneAwaiting
  <2> QED BY <2>2, <2>3
<1>10. SessionKernelListed'
  <2> SUFFICES ASSUME NEW s \in SessionPosts, s \notin patched, pc'[s] = "done", s \in managed'
               PROVE  \E i \in 1..Len(rows') : rows'[i].id = s /\ rows'[i].kernel = s
    BY <1>0 DEF SessionKernelListed
  <2>1. CASE s = r
    BY <1>2, <1>3, <2>1
  <2>2. CASE s # r
    <3>1. PICK i \in 1..Len(rows) : rows[i].id = s /\ rows[i].kernel = s
      BY <1>0, <1>5, <2>2 DEF ListInv, SessionKernelListed
    <3> QED BY <1>2, <3>1
  <2> QED BY <2>1, <2>2
<1>11. SamePathIsOverlap'
  <2> SUFFICES ASSUME NEW i \in 1..Len(rows'), NEW j \in 1..Len(rows'), i # j,
                      rows'[i].path = rows'[j].path,
                      rows'[i].id \notin patched, rows'[j].id \notin patched
               PROVE  Overlap(rows'[i].id, rows'[j].id)
    BY <1>0 DEF SamePathIsOverlap, Overlap
  <2>1. CASE i = n
    BY <1>0, <1>2, <1>3, <2>1 DEF ListInv, OneAwaiting
  <2>2. CASE j = n
    BY <1>0, <1>2, <1>3, <2>2 DEF ListInv, OneAwaiting, Overlap
  <2>3. CASE i # n /\ j # n
    BY <1>2, <2>3 DEF ListInv, SamePathIsOverlap, Overlap
  <2> QED BY <2>1, <2>2, <2>3
<1> QED BY <1>6, <1>7, <1>8, <1>9, <1>10, <1>11 DEF ListInv

\* update_session: the changed row is at the end, the others as they were; the session
\* counts as patched from now on.
LEMMA PatchedStep ==
    ASSUME SessionTypeOK, ListInv, NEW id \in SessionPosts, NEW p \in Paths, NEW k \in Requests,
           UpdateSession(id, p, k)
    PROVE  ListInv'
<1> DEFINE i == RowOf(id)
           e == [id |-> id, path |-> p, kernel |-> k]
           q == RemoveAt(rows, i)
           n == Len(q) + 1
<1>0. /\ i # 0 /\ Without(id) = q /\ rows' = Append(q, e) /\ patched' = patched \cup {id}
      /\ pc' = pc /\ managed' = managed /\ path' = path /\ during' = during
      /\ deleting' = deleting
  BY DEF UpdateSession, Without, vars
<1>1. rows \in Seq(Row) /\ e \in Row
  BY DEF SessionTypeOK, Row
<1>2. i \in 1..Len(rows) /\ rows[i].id = id
  BY <1>0, <1>1, RowOfMatches
<1>a. q \in Seq(Row)
  BY <1>1, <1>2, RemoveAtProperties
<1>3. RowsBut(i, q)
  BY <1>1, <1>2, RowRemoved
<1>4. /\ rows'[n] = e
      /\ \A j \in 1..Len(q) : rows'[j] = q[j] /\ j \in 1..Len(rows')
      /\ \A j \in 1..Len(rows') : j = n \/ j \in 1..Len(q)
  BY <1>0, <1>1, <1>a, RowAppended
<1>5. rows'[n].id = id /\ id \in patched'
  BY <1>0, <1>4
<1> HIDE DEF e, n, q, i
<1>6. SessionPosts \subseteq Requests /\ \A m \in 1..Len(rows) : rows[m].id \in SessionPosts
  BY RowFields, <1>1
<1>7. \A j \in 1..Len(rows') : j = n \/ \E m \in 1..Len(rows) :
          m # i /\ rows'[j] = rows[m] /\ rows[m].id # id
  <2> SUFFICES ASSUME NEW j \in 1..Len(rows'), j # n
               PROVE  \E m \in 1..Len(rows) : m # i /\ rows'[j] = rows[m] /\ rows[m].id # id
    OBVIOUS
  <2>1. PICK m \in 1..Len(rows) : m # i /\ rows'[j] = rows[m]
    <3>1. j \in 1..Len(q) /\ rows'[j] = q[j]
      BY <1>4
    <3>2. \E m \in 1..Len(rows) : m # i /\ q[j] = rows[m]
      BY <1>3, <3>1, Zenon DEF RowsBut
    <3> QED BY <3>1, <3>2
  <2>2. rows[m].id # id
    BY <1>2, <2>1 DEF ListInv, OneRowEach
  <2> QED BY <2>1, <2>2
<1>8. ASSUME NEW j \in 1..Len(rows'), NEW l \in 1..Len(rows'), j # l, j # n, l # n
      PROVE  \E m, o \in 1..Len(rows) : m # o /\ rows'[j] = rows[m] /\ rows'[l] = rows[o]
  <2>1. j \in 1..Len(q) /\ l \in 1..Len(q) /\ rows'[j] = q[j] /\ rows'[l] = q[l]
    BY <1>4, <1>8
  <2>2. \E m, o \in 1..Len(rows) : m # o /\ q[j] = rows[m] /\ q[l] = rows[o]
    BY <1>3, <1>8, <2>1, Zenon DEF RowsBut
  <2> QED BY <2>1, <2>2, Zenon
<1>9. RowsTrue'
  <2> SUFFICES ASSUME NEW j \in 1..Len(rows')
               PROVE  /\ pc[rows'[j].id] = "done"
                      /\ rows'[j].id \notin patched' =>
                            rows'[j].path = path[rows'[j].id] /\ rows'[j].kernel = rows'[j].id
    BY <1>0 DEF RowsTrue
  <2>1. CASE j = n
    BY <1>2, <1>5, <2>1 DEF ListInv, RowsTrue
  <2>2. CASE j # n
    <3>1. PICK m \in 1..Len(rows) : rows'[j] = rows[m]
      BY <1>7, <2>2, Zenon
    <3> QED BY <1>0, <3>1 DEF ListInv, RowsTrue
  <2> QED BY <2>1, <2>2
<1>10. OneRowEach'
  <2> SUFFICES ASSUME NEW j \in 1..Len(rows'), NEW l \in 1..Len(rows'), j # l
               PROVE  rows'[j].id # rows'[l].id
    BY Zenon DEF OneRowEach
  <2>1. CASE j = n
    BY <1>5, <1>7, <2>1
  <2>2. CASE l = n
    BY <1>5, <1>7, <2>2
  <2>3. CASE j # n /\ l # n
    <3>1. PICK m \in 1..Len(rows), o \in 1..Len(rows) :
                 m # o /\ rows'[j] = rows[m] /\ rows'[l] = rows[o]
      BY <1>8, <2>3, Zenon
    <3> QED BY <3>1 DEF ListInv, OneRowEach
  <2> QED BY <2>1, <2>2, <2>3
<1>11. DeletesTrue' /\ ManagedAfter' /\ BothAwaiting'
  BY <1>0 DEF ListInv, DeletesTrue, ManagedAfter, BothAwaiting, Overlap
<1>12. OneAwaiting'
  <2> SUFFICES ASSUME NEW s \in SessionPosts, NEW j \in 1..Len(rows'), pc[s] = "awaiting",
                      rows'[j].id \notin patched', rows'[j].path = path[s]
               PROVE  Overlap(s, rows'[j].id)
    BY <1>0 DEF OneAwaiting, Overlap
  <2>1. j # n
    BY <1>5
  <2>2. PICK m \in 1..Len(rows) : rows'[j] = rows[m]
    BY <1>7, <2>1, Zenon
  <2> QED BY <1>0, <2>2 DEF ListInv, OneAwaiting
<1>13. SessionKernelListed'
  <2> SUFFICES ASSUME NEW s \in SessionPosts, s \notin patched', pc[s] = "done", s \in managed
               PROVE  \E j \in 1..Len(rows') : rows'[j].id = s /\ rows'[j].kernel = s
    BY <1>0 DEF SessionKernelListed
  <2>1. PICK m \in 1..Len(rows) : rows[m].id = s /\ rows[m].kernel = s
    BY <1>0 DEF ListInv, SessionKernelListed
  <2>2. m # i
    BY <1>0, <1>2, <2>1
  <2>3. PICK j \in 1..Len(q) : q[j] = rows[m]
    BY <1>3, <2>2, Zenon DEF RowsBut
  <2> QED BY <1>4, <2>1, <2>3
<1>14. SamePathIsOverlap'
  <2>a. SUFFICES ASSUME NEW j \in 1..Len(rows'), NEW l \in 1..Len(rows'), j # l,
                        rows'[j].path = rows'[l].path,
                        {rows'[j].id, rows'[l].id} \cap patched' = {}
                 PROVE  rows'[j].id \in during[rows'[l].id] \/ rows'[l].id \in during[rows'[j].id]
    <3>1. during' = during
      BY <1>0
    <3> QED BY <3>1 DEF SamePathIsOverlap
  <2>b. rows'[j].id \notin patched' /\ rows'[l].id \notin patched'
    BY <2>a
  <2>1. j # n /\ l # n
    BY <1>5, <2>b
  <2>2. PICK m \in 1..Len(rows), o \in 1..Len(rows) :
               m # o /\ rows'[j] = rows[m] /\ rows'[l] = rows[o]
    BY <1>8, <2>a, <2>1, Zenon
  <2>3. rows[m].path = rows[o].path /\ {rows[m].id, rows[o].id} \cap patched = {}
    BY <1>0, <2>a, <2>2
  <2> QED BY <2>2, <2>3 DEF ListInv, SamePathIsOverlap
<1> QED BY <1>9, <1>10, <1>11, <1>12, <1>13, <1>14 DEF ListInv

\* Every step preserves the invariant of the list.
LEMMA ListStep == SessionTypeOK /\ ListInv /\ [SessionNext]_sessionVars => ListInv'
<1> SUFFICES ASSUME SessionTypeOK, ListInv, [SessionNext]_sessionVars PROVE ListInv'
  OBVIOUS
<1>0. /\ SessionPosts \subseteq Requests /\ \A m \in 1..Len(rows) : rows[m].id \in SessionPosts
      /\ \A m \in 1..Len(rows) : pc[rows[m].id] = "done"
      /\ TypeOK
  BY RowFields DEF SessionTypeOK, ListInv, RowsTrue
<1>a. ASSUME UNCHANGED rowVars,
             \A r \in SessionPosts : pc'[r] = pc[r],
             \A r \in SessionPosts : r \in managed' => r \in managed
      PROVE  ListInv'
  <2>1. RowsTrue' /\ OneRowEach' /\ DeletesTrue' /\ ManagedAfter'
    BY <1>0, <1>a DEF rowVars, ListInv, RowsTrue, OneRowEach, DeletesTrue, ManagedAfter
  <2>2. BothAwaiting' /\ OneAwaiting' /\ SamePathIsOverlap'
    BY <1>0, <1>a DEF rowVars, ListInv, BothAwaiting, OneAwaiting, SamePathIsOverlap, Overlap
  <2>3. SessionKernelListed'
    BY <1>a DEF rowVars, ListInv, SessionKernelListed
  <2> QED BY <2>1, <2>2, <2>3 DEF ListInv
<1>1. CASE UNCHANGED sessionVars
  BY <1>1, <1>a DEF sessionVars, vars
<1>2. CASE Next /\ UNCHANGED rowVars
  <2>1. UNCHANGED rowVars
    BY <1>2
  <2>2. ASSUME NEW r \in Posts, PostRefused(r) \/ PostWithEnv(r) \/ PostPlain(r)
        PROVE  ListInv'
    BY <1>0, <1>a, <2>1, <2>2, HandlerAssumption
       DEF PostRefused, PostWithEnv, PostPlain, StartKernel, SessionPosts, TypeOK
  <2>3. ASSUME NEW r \in Posts, NEW ok \in BOOLEAN, PostEnds(r, ok)
        PROVE  ListInv'
    BY <1>0, <1>a, <2>1, <2>3, HandlerAssumption DEF PostEnds, SessionPosts, TypeOK
  <2>4. ASSUME NEW r \in Requests, KernelGone(r)
        PROVE  ListInv'
    BY <1>0, <1>a, <2>1, <2>4 DEF KernelGone
  <2> QED BY <1>2, <2>2, <2>3, <2>4 DEF Next
<1>3. ASSUME NEW r \in SessionPosts, CreateSession(r)
      PROVE  ListInv'
  <2>1. /\ pc[r] = "new" /\ RowAt(path[r]) = 0 /\ managed' = managed /\ deleting' = deleting
        /\ pc' = [pc EXCEPT ![r] = "awaiting"]
        /\ rows' = rows /\ path' = path /\ patched' = patched
        /\ during' = [during EXCEPT ![r] = {s \in SessionPosts : pc[s] = "awaiting"}]
    BY <1>3 DEF CreateSession, SessionExists, StartKernel
  <2>2. \A i \in 1..Len(rows) : rows[i].path # path[r]
    BY <2>1, RowAtMatches DEF SessionTypeOK
  <2>3. /\ \A s \in SessionPosts : pc'[s] = IF s = r THEN "awaiting" ELSE pc[s]
        /\ \A s \in SessionPosts : s # r => during'[s] = during[s]
        /\ during'[r] = {s \in SessionPosts : pc[s] = "awaiting"}
    BY <1>0, <2>1 DEF SessionTypeOK, TypeOK
  <2>4. \A m \in 1..Len(rows) : rows[m].id # r
    BY <1>0, <2>1
  <2>5. RowsTrue' /\ OneRowEach' /\ DeletesTrue' /\ ManagedAfter'
    BY <1>0, <2>1, <2>3, <2>4 DEF ListInv, RowsTrue, OneRowEach, DeletesTrue, ManagedAfter
  <2>6. BothAwaiting'
    BY <2>1, <2>3 DEF ListInv, BothAwaiting, Overlap
  <2>7. OneAwaiting'
    BY <1>0, <2>1, <2>2, <2>3, <2>4 DEF ListInv, OneAwaiting, Overlap
  <2>8. SessionKernelListed'
    BY <2>1, <2>3 DEF ListInv, SessionKernelListed
  <2>9. SamePathIsOverlap'
    BY <1>0, <2>1, <2>3, <2>4 DEF ListInv, SamePathIsOverlap
  <2> QED BY <2>5, <2>6, <2>7, <2>8, <2>9 DEF ListInv
<1>4. ASSUME NEW r \in SessionPosts, NEW ok \in BOOLEAN, SessionStarted(r, ok)
      PROVE  ListInv'
  <2>1. CASE ok
    BY <1>4, <2>1, SavedStep
  <2>2. CASE ~ok
    <3>1. /\ managed' = managed /\ deleting' = deleting /\ during' = during
          /\ rows' = rows /\ path' = path /\ patched' = patched
          /\ pc[r] = "awaiting" /\ pc' = [pc EXCEPT ![r] = "done"] /\ r \notin managed
      BY <1>4, <2>2 DEF SessionStarted, ListInv, ManagedAfter
    <3>2. \A s \in SessionPosts : pc'[s] = IF s = r THEN "done" ELSE pc[s]
      BY <1>0, <3>1 DEF TypeOK
    <3>3. RowsTrue' /\ OneRowEach' /\ DeletesTrue' /\ ManagedAfter'
      BY <1>0, <3>1, <3>2 DEF ListInv, RowsTrue, OneRowEach, DeletesTrue, ManagedAfter
    <3>4. BothAwaiting' /\ OneAwaiting' /\ SamePathIsOverlap'
      BY <1>0, <3>1, <3>2 DEF ListInv, BothAwaiting, OneAwaiting, SamePathIsOverlap, Overlap
    <3>5. SessionKernelListed'
      BY <3>1, <3>2 DEF ListInv, SessionKernelListed
    <3> QED BY <3>3, <3>4, <3>5 DEF ListInv
  <2> QED BY <2>1, <2>2
<1>5. CASE ListSessions
  <2> DEFINE stale == {i \in 1..Len(rows) : Stale(i)}
  <2>1. Min(stale) \in 1..Len(rows)
    BY <1>5, LeastNatural DEF ListSessions
  <2> QED BY <1>5, <2>1, QueryStep DEF ListSessions, vars
<1>6. ASSUME NEW r \in SessionPosts, ExistingSession(r)
      PROVE  ListInv'
  <2>1. RowAt(path[r]) \in 1..Len(rows)
    BY <1>6, RowAtMatches DEF ExistingSession, SessionExists, SessionTypeOK
  <2>2. \A s \in Requests : pc'[s] = pc[s] \/ (pc[s] = "new" /\ pc'[s] = "done")
    BY <1>0, <1>6 DEF ExistingSession, TypeOK
  <2> QED BY <1>6, <2>1, <2>2, QueryStep DEF ExistingSession
<1>7. ASSUME NEW r \in SessionPosts, GetSession(r)
      PROVE  ListInv'
  <2>1. RowOf(r) \in 1..Len(rows)
    BY <1>7, RowOfMatches DEF GetSession, SessionTypeOK
  <2> QED BY <1>7, <2>1, QueryStep DEF GetSession, vars
<1>8. ASSUME NEW r \in SessionPosts, NEW p \in Paths, NEW k \in Requests, UpdateSession(r, p, k)
      PROVE  ListInv'
  BY <1>8, PatchedStep
<1>b. ASSUME UNCHANGED <<vars, rows, path, during, patched>>, DeletesTrue'
      PROVE  ListInv'
  <2>1. RowsTrue' /\ OneRowEach' /\ ManagedAfter'
    BY <1>b DEF vars, ListInv, RowsTrue, OneRowEach, ManagedAfter
  <2>2. BothAwaiting' /\ OneAwaiting' /\ SamePathIsOverlap'
    BY <1>b DEF vars, ListInv, BothAwaiting, OneAwaiting, SamePathIsOverlap, Overlap
  <2>3. SessionKernelListed'
    BY <1>b DEF vars, ListInv, SessionKernelListed
  <2> QED BY <1>b, <2>1, <2>2, <2>3 DEF ListInv
<1>9. ASSUME NEW r \in SessionPosts, NEW d \in Deletes, DeleteSession(d, r)
      PROVE  ListInv'
  <2>1. RowOf(r) \in 1..Len(rows) /\ rows[RowOf(r)].id = r
    BY <1>9, RowOfMatches DEF DeleteSession, SessionTypeOK
  <2>2. r \notin patched => rows[RowOf(r)].kernel = r
    BY <2>1 DEF ListInv, RowsTrue
  <2>3. DeletesTrue'
    BY <1>9, <2>2 DEF DeleteSession, ListInv, DeletesTrue, SessionTypeOK, NoDelete
  <2> QED BY <1>9, <1>b, <2>3 DEF DeleteSession
<1>10. ASSUME NEW d \in Deletes, DeleteRaises(d)
       PROVE  ListInv'
  <2>1. DeletesTrue'
    BY <1>10 DEF DeleteRaises, ListInv, DeletesTrue, SessionTypeOK
  <2> QED BY <1>10, <1>b, <2>1 DEF DeleteRaises
<1>11. ASSUME NEW d \in Deletes, DeleteReturns(d)
       PROVE  ListInv'
  <2> DEFINE id == deleting[d].id
  <2>0. \A c \in Deletes : deleting'[c] \in {deleting[c], NoDelete}
    BY <1>11 DEF DeleteReturns, SessionTypeOK
  <2>1. CASE RowOf(id) = 0
    <3>1. UNCHANGED <<vars, rows, path, during, patched>>
      BY <1>11, <2>1 DEF DeleteReturns, Without
    <3>2. DeletesTrue'
      BY <2>0, <3>1 DEF ListInv, DeletesTrue
    <3> QED BY <1>b, <3>1, <3>2
  <2>2. CASE RowOf(id) # 0
    <3>1. RowOf(id) \in 1..Len(rows) /\ rows[RowOf(id)].id = id
      BY <2>2, RowOfMatches DEF SessionTypeOK
    <3>2. id \notin patched => id \notin managed
      BY <1>11 DEF DeleteReturns, ListInv, DeletesTrue
    <3>3. rows' = RemoveAt(rows, RowOf(id))
      BY <1>11, <2>2 DEF DeleteReturns, Without
    <3>4. /\ pc' = pc /\ managed' = managed /\ path' = path /\ during' = during
          /\ patched' = patched
      BY <1>11 DEF DeleteReturns, vars
    <3> QED BY <2>0, <3>1, <3>2, <3>3, <3>4, DropStep
  <2> QED BY <2>1, <2>2
<1> QED BY <1>1, <1>2, <1>3, <1>4, <1>5, <1>6, <1>7, <1>8, <1>9, <1>10, <1>11 DEF SessionNext

-----------------------------------------------------------------------------
\* The initial state satisfies all of it.
LEMMA InitHolds == SessionInit => SessionTypeOK /\ EnvInv /\ ListInv
<1> SUFFICES ASSUME SessionInit PROVE SessionTypeOK /\ EnvInv /\ ListInv
  OBVIOUS
<1>1. SessionTypeOK
  BY HandlerAssumption DEF SessionInit, Init, SessionTypeOK, TypeOK, Attr
<1>2. EnvInv
  BY HandlerAssumption DEF SessionInit, Init, EnvInv, LeftoverIsOverlap, SavedByAnother
<1>3. SessionPosts \subseteq Requests
  BY DEF SessionPosts
<1>4. ListInv
  BY <1>3 DEF SessionInit, Init, ListInv, RowsTrue, OneRowEach, DeletesTrue, ManagedAfter,
     BothAwaiting, OneAwaiting, SessionKernelListed, SamePathIsOverlap
<1> QED BY <1>1, <1>2, <1>4

\* The partial of a request that has ended is left installed only by overlapping POSTs
\* (the save and the restore of kernel_manager.start_kernel in post()).
THEOREM LeftoverExplained == SessionSpec => []LeftoverIsOverlap
<1>1. SessionTypeOK /\ EnvInv /\ [SessionNext]_sessionVars => (SessionTypeOK /\ EnvInv)'
  BY SessionTyped, EnvStep
<1>2. EnvInv => LeftoverIsOverlap
  BY DEF EnvInv
<1> QED BY InitHolds, <1>1, <1>2, PTL DEF SessionSpec

\* A kernel is started with the env of another request only during its POST or after an
\* overlap of POSTs, by POSTs and by sessions alike (post(), create_session).
THEOREM EnvBorrowedInOverlap == SessionSpec => BorrowedEnvIsOverlap
<1>1. SessionTypeOK /\ EnvInv /\ [SessionNext]_sessionVars => (SessionTypeOK /\ EnvInv)'
  BY SessionTyped, EnvStep
<1>2. ASSUME SessionTypeOK, EnvInv, [SessionNext]_sessionVars
      PROVE  [\A r \in Requests : envOf'[r] # envOf[r] /\ envOf'[r] \in Requests \ {r} =>
                pc[envOf'[r]] = "awaiting" \/ SavedByAnother(envOf'[r])]_vars
  <2> SUFFICES ASSUME NEW r \in Requests, envOf'[r] # envOf[r], envOf'[r] \in Requests \ {r}
               PROVE  pc[envOf'[r]] = "awaiting" \/ SavedByAnother(envOf'[r])
    OBVIOUS
  <2>1. TypeOK /\ SessionPosts \subseteq Requests
    BY <1>2 DEF SessionTypeOK, SessionPosts
  <2>2. envOf'[r] = startAttr
    <3>1. ASSUME NEW q \in Posts, PostWithEnv(q) PROVE FALSE
      <4>1. q \in Requests /\ envOf' = [envOf EXCEPT ![q] = q]
        BY <3>1, HandlerAssumption DEF PostWithEnv
      <4> QED BY <2>1, <4>1 DEF TypeOK
    <3>2. ASSUME NEW q \in Requests, StartKernel(q) PROVE envOf'[r] = startAttr
      <4>1. envOf' = [envOf EXCEPT ![q] = IF startAttr = Bound THEN NoEnv ELSE startAttr]
        BY <3>2 DEF StartKernel
      <4> QED BY <2>1, <4>1, HandlerAssumption DEF TypeOK
    <3>3. ASSUME ~\E q \in Posts : PostWithEnv(q), ~\E q \in Requests : StartKernel(q)
          PROVE  envOf' = envOf
      <4>1. CASE Next
        BY <3>3, <4>1, HandlerAssumption DEF Next, PostRefused, PostPlain, PostEnds, KernelGone
      <4>2. CASE ~Next
        BY <1>2, <2>1, <3>3, <4>2
           DEF SessionNext, sessionVars, vars, ExistingSession, CreateSession, SessionStarted,
               ListSessions, GetSession, UpdateSession, DeleteSession, DeleteReturns, DeleteRaises
      <4> QED BY <4>1, <4>2
    <3> QED BY <3>1, <3>2, <3>3
  <2>3. startAttr \in Requests /\ pc[startAttr] # "new"
    BY <1>2, <2>2, HandlerAssumption DEF EnvInv
  <2>4. pc[startAttr] \in {"new", "awaiting", "done"} /\ LeftoverIsOverlap
    BY <1>2, <2>1, <2>3 DEF TypeOK, EnvInv
  <2> QED BY <2>2, <2>3, <2>4 DEF LeftoverIsOverlap
<1> QED BY InitHolds, <1>1, <1>2, PTL DEF SessionSpec, BorrowedEnvIsOverlap

\* A live kernel of an unpatched session is always found through its row, whatever
\* queries, DELETEs and failed shutdowns overlap (row_to_model, delete_session).
THEOREM SessionsListed == SessionSpec => []SessionKernelListed
<1>1. SessionTypeOK /\ ListInv /\ [SessionNext]_sessionVars => (SessionTypeOK /\ ListInv)'
  BY SessionTyped, ListStep
<1>2. ListInv => SessionKernelListed
  BY DEF ListInv
<1> QED BY InitHolds, <1>1, <1>2, PTL DEF SessionSpec

\* Two unpatched sessions share a path only when their POSTs overlapped (session_exists
\* before the await, save_session after it).
THEOREM PathsApart == SessionSpec => []SamePathIsOverlap
<1>1. SessionTypeOK /\ ListInv /\ [SessionNext]_sessionVars => (SessionTypeOK /\ ListInv)'
  BY SessionTyped, ListStep
<1>2. ListInv => SamePathIsOverlap
  BY DEF ListInv
<1> QED BY InitHolds, <1>1, <1>2, PTL DEF SessionSpec
=============================================================================
