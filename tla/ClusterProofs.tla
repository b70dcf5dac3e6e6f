---------------------------- MODULE ClusterProofs ----------------------------
(***************************************************************************)
(* Proofs about ClusterProcessProxy, for any number of launches, kernel    *)
(* ids and unanswered requests.                                            *)
(***************************************************************************)
EXTENDS ClusterProcessProxy, SequenceTheorems, WellFoundedInduction, TLAPS

Typed ==
    TypeOK /\ id \in [Attempts -> Ids \cup {None}] /\ conn \in [Attempts -> Attempts \cup {None}]

\* The applications known to the resource manager, each once.
OrderExact ==
    /\ \A i, j \in 1..Len(order) : order[i] = order[j] => i = j
    /\ \A b \in Attempts : app[b] # "none" <=> \E i \in 1..Len(order) : order[i] = b

\* An attempt that has not begun has left nothing anywhere.
Clean(a) ==
    /\ status[a] = "idle" => submitter[a] = "none" /\ appId[a] = None /\ phase[a] = "sleep"
    /\ submitter[a] = "none" => app[a] = "none"
    /\ since[a] <= Len(order)

\* What a proxy holds on to exists, and is not older than the launch.
Held(a) ==
    /\ appId[a] # None => app[appId[a]] # "none"
    /\ appId[a] # None /\ appId[a] # a => Position(appId[a]) > since[a]
    /\ a \in driver => app[a] # "none"
    /\ conn[a] # None => app[conn[a]] # "none"

\* A wait for connection info, and a kernel, have an application id.
Identified(a) == InPhase(a, "wait") \/ status[a] = "ready" => appId[a] # None

\* The last known state was true of the application, and one that is over stays over.
LastTrue(a) ==
    /\ kind = "conductor" => last[a] = Unknown
    /\ kind = "yarn" /\ appId[a] = a =>
          last[a] # Unknown /\ (last[a] \notin Live => app[a] \notin Live)

\* What poll() has reported as gone, while the proxy has its own application's id, is gone.
Polled(a) ==
    /\ a \in lost => status[a] \in {"ready", "stopped"}
    /\ status[a] = "stopped" => appId[a] = None
    /\ kind = "yarn" /\ a \in lost /\ appId[a] = a => app[a] \notin Live

\* An attempt that ended knowing its application has ended it; it will not come later.
Down(a) ==
    Ended(a) /\ a \notin blind \cup dropped => app[a] \notin Live /\ (app[a] # "none" \/ submitter[a] = "none")

OfAttempt(a) == Clean(a) /\ Held(a) /\ Identified(a) /\ LastTrue(a) /\ Polled(a) /\ Down(a)

ClusterInv == Typed /\ OrderExact /\ \A a \in Attempts : OfAttempt(a)

-----------------------------------------------------------------------------
(* Positions in the order of application ids *)

\* A non-empty set of numbers has a least one.
LEMMA LeastNumber ==
    ASSUME NEW T, T \subseteq Nat, T # {}
    PROVE  \E m \in T : \A n \in T : m <= n
<1>1. PICK m \in T : \A n \in T : ~(<<n, m>> \in OpToRel(<, Nat))
  BY NatLessThanWellFounded, WFMin
<1>2. ASSUME NEW n \in T PROVE m <= n
  <2>1. <<n, m>> \in Nat \X Nat
    OBVIOUS
  <2>2. ~(n < m)
    BY <1>1, <2>1 DEF OpToRel
  <2> QED BY <2>2
<1> QED BY <1>2

\* An application that exists has its place.
LEMMA PositionFacts ==
    ASSUME OrderExact, NEW b \in Attempts, app[b] # "none"
    PROVE  Position(b) \in 1..Len(order) /\ order[Position(b)] = b
<1>1. \E i \in 1..Len(order) : order[i] = b
  BY DEF OrderExact
<1> QED BY <1>1 DEF Position

\* Of applications that exist, one is the top-most.
LEMMA TopMostFacts ==
    ASSUME Typed, OrderExact, NEW S, S \subseteq Attempts, S # {}, \A b \in S : app[b] # "none"
    PROVE  TopMost(S) \in S
<1>1. Len(order) \in Nat
  BY LenProperties DEF Typed, TypeOK
<1>2. \A b \in S : Position(b) \in 1..Len(order)
  BY PositionFacts
<1> DEFINE T == {Len(order) - Position(b) : b \in S}
<1>3. T \subseteq Nat /\ T # {}
  BY <1>1, <1>2
<1>4. PICK m \in T : \A n \in T : m <= n
  BY <1>3, LeastNumber
<1>5. PICK b \in S : m = Len(order) - Position(b)
  OBVIOUS
<1>6. \A c \in S : Position(c) <= Position(b)
  <2> SUFFICES ASSUME NEW c \in S PROVE Position(c) <= Position(b)
    OBVIOUS
  <2>1. Len(order) - Position(c) \in T
    OBVIOUS
  <2>2. Len(order) - Position(b) <= Len(order) - Position(c)
    BY <2>1, <1>4, <1>5
  <2> HIDE DEF T
  <2> QED BY <2>2, <1>1, <1>2
<1> QED BY <1>6 DEF TopMost

-----------------------------------------------------------------------------
(* What the resource manager's side of a step may do *)

\* Applications appear at the end of the order, and those that are over stay as they are.
Grows ==
    /\ app' \in [Attempts -> AppStates] /\ order' \in Seq(Attempts) /\ OrderExact'
    /\ \A b \in Attempts :
          /\ app[b] # "none" => app'[b] # "none" /\ Position(b)' = Position(b)
          /\ app[b] # "none" /\ app[b] \notin Live => app'[b] = app[b]
    /\ Len(order) \in Nat /\ Len(order') \in Nat /\ Len(order) <= Len(order')

\* No new application.
LEMMA GrowsSame ==
    ASSUME ClusterInv, order' = order, app' \in [Attempts -> AppStates],
           \A b \in Attempts : /\ app[b] = "none" <=> app'[b] = "none"
                               /\ app[b] # "none" /\ app[b] \notin Live => app'[b] = app[b]
    PROVE  Grows
<1>1. \A b \in Attempts : Position(b)' = Position(b)
  BY DEF Position
<1>2. Len(order) \in Nat /\ order \in Seq(Attempts)
  BY LenProperties DEF ClusterInv, Typed, TypeOK
<1>3. OrderExact'
  BY DEF ClusterInv, OrderExact
<1> QED BY <1>1, <1>2, <1>3 DEF Grows

\* A new application.
LEMMA GrowsByOne ==
    ASSUME ClusterInv, NEW a \in Attempts, app[a] = "none",
           app' = [app EXCEPT ![a] = "ACCEPTED"], order' = Append(order, a)
    PROVE  Grows /\ app'[a] = "ACCEPTED" /\ \A b \in Attempts : b # a => app'[b] = app[b]
<1>1. order \in Seq(Attempts) /\ Len(order) \in Nat /\ app \in [Attempts -> AppStates]
  BY LenProperties DEF ClusterInv, Typed, TypeOK
<1>2. /\ order' \in Seq(Attempts) /\ Len(order') = Len(order) + 1
      /\ \A i \in 1..Len(order) : order'[i] = order[i]
      /\ order'[Len(order) + 1] = a
  BY <1>1, AppendProperties
<1>3. /\ app' \in [Attempts -> AppStates] /\ app'[a] = "ACCEPTED"
      /\ \A b \in Attempts : b # a => app'[b] = app[b]
  BY <1>1 DEF AppStates, Live
<1>4. /\ \A i, j \in 1..Len(order) : order[i] = order[j] => i = j
      /\ \A b \in Attempts : app[b] # "none" <=> \E i \in 1..Len(order) : order[i] = b
      /\ \A i \in 1..Len(order) : order[i] # a
  BY DEF ClusterInv, OrderExact
<1>5. \A i \in 1..Len(order') : i \in 1..Len(order) \/ i = Len(order) + 1
  BY <1>1, <1>2
<1>6. \A i, j \in 1..Len(order') : order'[i] = order'[j] => i = j
  <2> SUFFICES ASSUME NEW i \in 1..Len(order'), NEW j \in 1..Len(order'), order'[i] = order'[j]
               PROVE  i = j
    OBVIOUS
  <2>1. CASE i \in 1..Len(order) /\ j \in 1..Len(order)
    BY <2>1, <1>2, <1>4
  <2>2. CASE i = Len(order) + 1 \/ j = Len(order) + 1
    BY <2>2, <1>2, <1>4, <1>5
  <2> QED BY <2>1, <2>2, <1>5
<1>7. \A b \in Attempts : app'[b] # "none" <=> \E i \in 1..Len(order') : order'[i] = b
  <2> SUFFICES ASSUME NEW b \in Attempts
               PROVE  app'[b] # "none" <=> \E i \in 1..Len(order') : order'[i] = b
    OBVIOUS
  <2>1. Len(order) + 1 \in 1..Len(order') /\ \A i \in 1..Len(order) : i \in 1..Len(order')
    BY <1>1, <1>2
  <2>2. CASE b = a
    BY <2>1, <2>2, <1>2, <1>3
  <2>3. CASE b # a
    BY <2>1, <2>3, <1>2, <1>3, <1>4, <1>5
  <2> QED BY <2>2, <2>3
<1>8. OrderExact'
  BY <1>6, <1>7 DEF OrderExact
<1>9. ASSUME NEW b \in Attempts, app[b] # "none"
      PROVE  Position(b)' = Position(b)
  <2>1. Position(b) \in 1..Len(order) /\ order[Position(b)] = b
    BY <1>9, PositionFacts DEF ClusterInv
  <2>2. Position(b) \in 1..Len(order') /\ order'[Position(b)] = b
    BY <2>1, <1>1, <1>2
  <2>3. \A i \in 1..Len(order') : order'[i] = b => i = Position(b)
    BY <2>2, <1>6
  <2>4. Position(b)' = CHOOSE i \in 1..Len(order') : order'[i] = b
    BY DEF Position
  <2>5. Position(b)' \in 1..Len(order') /\ order'[Position(b)'] = b
    BY <2>2, <2>4
  <2> QED BY <2>3, <2>5
<1>10. \A b \in Attempts : /\ app[b] # "none" => app'[b] # "none"
                           /\ app[b] # "none" /\ app[b] \notin Live => app'[b] = app[b]
  BY <1>3
<1> QED BY <1>1, <1>2, <1>3, <1>8, <1>9, <1>10 DEF Grows
-----------------------------------------------------------------------------
(* What the steps of one attempt are to the others, and the queries *)

\* A step that is not of b: its application may change, not come into being.
Same(b) ==
    /\ status'[b] = status[b] /\ phase'[b] = phase[b] /\ conn'[b] = conn[b] /\ since'[b] = since[b]
    /\ appId'[b] = appId[b] /\ last'[b] = last[b] /\ submitter'[b] = submitter[b]
    /\ (b \in driver' <=> b \in driver) /\ (b \in blind' <=> b \in blind)
    /\ (b \in dropped' <=> b \in dropped) /\ (b \in lost' <=> b \in lost)
    /\ app[b] = "none" => app'[b] = "none"

\* Such a step keeps what the invariant says of b.
LEMMA SameKept ==
    ASSUME ClusterInv, Grows, kind' = kind, NEW b \in Attempts, Same(b)
    PROVE  OfAttempt(b)'
<1>1. /\ appId[b] \in Attempts \cup {None} /\ conn[b] \in Attempts \cup {None}
      /\ since[b] \in Nat /\ app[b] \in AppStates /\ app'[b] \in AppStates
  BY DEF ClusterInv, Typed, TypeOK, Grows
<1>2. OfAttempt(b)
  BY DEF ClusterInv
<1>3. app[b] \notin Live => app'[b] \notin Live
  BY <1>1 DEF Grows, Same, Live, AppStates
<1>4. Final' = Final /\ (\A p : InPhase(b, p)' = InPhase(b, p)) /\ Ended(b)' = Ended(b)
  BY DEF Final, InPhase, Ended, Same
<1>5. Clean(b)'
  BY <1>1, <1>2 DEF OfAttempt, Clean, Same, Grows
<1>6. Held(b)'
  <2>1. \A c \in Attempts : app[c] # "none" => app'[c] # "none" /\ Position(c)' = Position(c)
    BY DEF Grows
  <2>2. appId'[b] = appId[b] /\ conn'[b] = conn[b] /\ since'[b] = since[b]
        /\ (b \in driver' <=> b \in driver)
    BY DEF Same
  <2> QED BY <1>1, <1>2, <2>1, <2>2 DEF OfAttempt, Held
<1>7. Identified(b)'
  BY <1>2, <1>4 DEF OfAttempt, Identified, Same
<1>8. LastTrue(b)'
  BY <1>2, <1>3, <1>4 DEF OfAttempt, LastTrue, Same
<1>9. Polled(b)'
  BY <1>2, <1>3 DEF OfAttempt, Polled, Same
<1>10. Down(b)'
  BY <1>2, <1>3, <1>4 DEF OfAttempt, Down, Same, Grows
<1> QED BY <1>5, <1>6, <1>7, <1>8, <1>9, <1>10 DEF OfAttempt

\* What the queries of a step find.
LEMMA QueryFacts ==
    ASSUME ClusterInv, NEW a \in Attempts, NEW reach \in BOOLEAN
    PROVE  LET t == Target(a, reach) IN
           /\ t \in Attempts \cup {None}
           /\ appId[a] # None => t = appId[a]
           /\ appId[a] = None /\ ~reach => t = None
           /\ t # None => app[t] # "none"
           /\ t # None /\ t # a => Position(t) > since[a]
<1>1. appId[a] \in Attempts \cup {None} /\ OfAttempt(a)
  BY DEF ClusterInv, Typed, TypeOK
<1>2. CASE appId[a] # None
  BY <1>1, <1>2 DEF Target, OfAttempt, Held
<1>3. CASE appId[a] = None /\ ~(reach /\ Visible(a) # {})
  BY <1>3, ClusterAssumption DEF Target
<1>4. CASE appId[a] = None /\ reach /\ Visible(a) # {}
  <2>1. Visible(a) \subseteq Attempts /\ \A b \in Visible(a) : app[b] # "none"
    BY DEF Visible, VisibleConductor
  <2>2. TopMost(Visible(a)) \in Visible(a)
    BY <1>4, <2>1, TopMostFacts DEF ClusterInv
  <2>3. \A b \in Visible(a) : b # a => Position(b) > since[a]
    BY DEF Visible, VisibleConductor
  <2>4. Target(a, reach) = TopMost(Visible(a))
    BY <1>4 DEF Target
  <2>5. Target(a, reach) # None
    BY <2>1, <2>2, <2>4, ClusterAssumption
  <2> QED BY <1>4, <2>1, <2>2, <2>3, <2>4
<1> QED BY <1>2, <1>3, <1>4

\* What _get_application_id returns.
LEMMA IdFacts ==
    ASSUME ClusterInv, NEW a \in Attempts, NEW reach \in BOOLEAN, NEW ignore \in BOOLEAN
    PROVE  LET g == GetApplicationId(a, reach, ignore) IN
           /\ g \in Attempts \cup {None}
           /\ appId[a] # None => g = appId[a]
           /\ g # None => g = Target(a, reach) /\ app[g] # "none"
           /\ g # None /\ g # a => Position(g) > since[a]
           /\ ~reach => g = appId[a]
           /\ g # None /\ appId[a] = None => reach
<1> DEFINE t == Target(a, reach)
           g == GetApplicationId(a, reach, ignore)
<1>1. /\ t \in Attempts \cup {None}
      /\ appId[a] # None => t = appId[a]
      /\ appId[a] = None /\ ~reach => t = None
      /\ t # None => app[t] # "none"
      /\ t # None /\ t # a => Position(t) > since[a]
  BY QueryFacts
<1>2. g = IF appId[a] = None /\ t # None /\ ignore /\ app[t] \in Final THEN None ELSE t
  BY DEF GetApplicationId
<1> HIDE DEF t, g
<1>3. QED BY <1>1, <1>2 DEF t, g
\* What the queries leave in the proxy: an id that exists and is not older than the launch,
\* and with an own id a state that was true.
LEMMA Remembered ==
    ASSUME ClusterInv, NEW a \in Attempts, NEW reach \in BOOLEAN, NEW ignore \in BOOLEAN,
           Possible(reach), Remember(a, reach, ignore)
    PROVE  /\ appId' \in [Attempts -> Attempts \cup {None}]
           /\ last' \in [Attempts -> AppStates \cup {Unknown}]
           /\ faults' \in 0..MaxFaults
           /\ \A b \in Attempts : b # a => appId'[b] = appId[b] /\ last'[b] = last[b]
           /\ appId'[a] = GetApplicationId(a, reach, ignore)
           /\ appId'[a] # None => app[appId'[a]] # "none"
           /\ appId'[a] # None /\ appId'[a] # a => Position(appId'[a]) > since[a]
           /\ appId[a] # None => appId'[a] = appId[a]
           /\ kind = "conductor" => last'[a] = Unknown
           /\ kind = "yarn" /\ appId'[a] = a =>
                 last'[a] # Unknown /\ (last'[a] \notin Live => app[a] \notin Live)
           /\ kind = "yarn" /\ appId'[a] # None =>
                 last'[a] = IF reach THEN app[appId'[a]] ELSE last[a]
<1> USE ClusterAssumption
<1> DEFINE t == Target(a, reach)
           g == GetApplicationId(a, reach, ignore)
<1>1. /\ g \in Attempts \cup {None}
      /\ appId[a] # None => g = appId[a]
      /\ g # None => g = t /\ app[g] # "none"
      /\ g # None /\ g # a => Position(g) > since[a]
      /\ ~reach => g = appId[a]
      /\ g # None /\ appId[a] = None => reach
  BY IdFacts
<1>2. t \in Attempts \cup {None}
  BY QueryFacts
<1>3. /\ appId' = [appId EXCEPT ![a] = g]
      /\ last' = IF kind = "yarn" /\ reach /\ t # None THEN [last EXCEPT ![a] = app[t]] ELSE last
      /\ faults' = IF reach THEN faults ELSE faults + 1
  BY DEF Remember, Answers
<1> HIDE DEF t, g
<1>4. /\ appId \in [Attempts -> Attempts \cup {None}] /\ app \in [Attempts -> AppStates]
      /\ last \in [Attempts -> AppStates \cup {Unknown}] /\ faults \in 0..MaxFaults
      /\ kind \in {"yarn", "conductor"}
  BY DEF ClusterInv, Typed, TypeOK
<1>5. /\ appId' \in [Attempts -> Attempts \cup {None}] /\ appId'[a] = g
      /\ \A b \in Attempts : b # a => appId'[b] = appId[b]
  BY <1>1, <1>3, <1>4
<1>6. /\ last' \in [Attempts -> AppStates \cup {Unknown}]
      /\ \A b \in Attempts : b # a => last'[b] = last[b]
      /\ last'[a] = IF kind = "yarn" /\ reach /\ t # None THEN app[t] ELSE last[a]
  BY <1>2, <1>3, <1>4
<1>7. faults' \in 0..MaxFaults
  BY <1>3, <1>4 DEF Possible
<1>8. LastTrue(a)
  BY DEF ClusterInv, OfAttempt
<1>9. kind = "conductor" => last'[a] = Unknown
  BY <1>6, <1>8 DEF LastTrue
<1>10. ASSUME kind = "yarn", g = a
       PROVE  last'[a] # Unknown /\ (last'[a] \notin Live => app[a] \notin Live)
  <2>1. CASE reach
    <3>1. last'[a] = app[a]
      BY <1>1, <1>6, <1>10, <2>1
    <3> QED BY <3>1, <1>4 DEF AppStates, Live, Unknown
  <2>2. CASE ~reach
    BY <1>1, <1>6, <1>8, <1>10, <2>2 DEF LastTrue
  <2> QED BY <2>1, <2>2
<1>11. ASSUME kind = "yarn", g # None
       PROVE  last'[a] = IF reach THEN app[g] ELSE last[a]
  BY <1>1, <1>6, <1>11
<1>12. g = GetApplicationId(a, reach, ignore)
  BY DEF g
<1>13. /\ appId'[a] # None => app[appId'[a]] # "none"
       /\ appId'[a] # None /\ appId'[a] # a => Position(appId'[a]) > since[a]
       /\ appId[a] # None => appId'[a] = appId[a]
  BY <1>1, <1>5
<1> QED BY <1>5, <1>6, <1>7, <1>9, <1>10, <1>11, <1>12, <1>13

-----------------------------------------------------------------------------
(* The actions *)

\* It is enough to look at the types and at the attempt that moves.
LEMMA OneMoves ==
    ASSUME ClusterInv, Grows, Typed', kind' = kind, NEW a \in Attempts, OfAttempt(a)',
           \A b \in Attempts : b # a => Same(b)
    PROVE  ClusterInv'
<1>1. \A b \in Attempts : b # a => OfAttempt(b)'
  BY SameKept
<1>2. OrderExact'
  BY DEF Grows
<1> QED BY <1>1, <1>2 DEF ClusterInv

\* The steps of the resource manager and of the submitter.
LEMMA ManagerSteps ==
    ASSUME ClusterInv, NEW a \in Attempts,
           Submit(a) \/ SubmitterFails(a) \/ AppRuns(a) \/ AppFails(a)
    PROVE  ClusterInv'
<1>1. /\ UNCHANGED launchVars /\ kind' = kind /\ UNCHANGED history /\ faults' = faults
      /\ since' = since /\ appId' = appId /\ last' = last /\ located' = located /\ driver' = driver
  BY DEF Submit, SubmitterFails, AppRuns, AppFails, proxyVars
<1>2. status' = status /\ id' = id /\ conn' = conn /\ phase' = phase
      /\ blind' = blind /\ dropped' = dropped /\ lost' = lost
  BY <1>1 DEF launchVars, history
<1>3. /\ app \in [Attempts -> AppStates] /\ appId[a] \in Attempts \cup {None}
      /\ submitter \in [Attempts -> {"none", "running", "posted", "gone", "failed"}]
      /\ conn[a] \in Attempts \cup {None} /\ since[a] \in Nat
  BY DEF ClusterInv, Typed, TypeOK
<1>4. /\ Grows
      /\ \A b \in Attempts : b # a => app'[b] = app[b]
      /\ app'[a] \in Live => app[a] \in Live \/ submitter[a] \in {"running", "posted"}
      /\ app'[a] = "none" => app[a] = "none"
      /\ submitter[a] = "none" => app'[a] = app[a]
      /\ app[a] # "none" /\ app[a] \notin Live => app'[a] = app[a]
  <2>1. CASE Submit(a)
    <3>1. Grows /\ app'[a] = "ACCEPTED" /\ \A b \in Attempts : b # a => app'[b] = app[b]
      BY <2>1, GrowsByOne DEF Submit
    <3> QED BY <2>1, <3>1 DEF Submit, Live
  <2>2. CASE SubmitterFails(a)
    <3>1. app' = app /\ order' = order
      BY <2>2 DEF SubmitterFails, rmVars
    <3> QED BY <3>1, <1>3, GrowsSame
  <2>3. CASE AppRuns(a) \/ AppFails(a)
    <3>1. /\ order' = order /\ app[a] \in Live
          /\ app' = [app EXCEPT ![a] = "RUNNING"] \/ app' = [app EXCEPT ![a] = "FAILED"]
      BY <2>3 DEF AppRuns, AppFails, Live
    <3>2. /\ app' \in [Attempts -> AppStates] /\ app'[a] \in {"RUNNING", "FAILED"}
          /\ \A b \in Attempts : b # a => app'[b] = app[b]
      BY <3>1, <1>3 DEF AppStates, Live
    <3>3. app[a] # "none"
      BY <3>1 DEF Live
    <3>4. Grows
      BY <3>1, <3>2, <3>3, GrowsSame
    <3>5. submitter[a] # "none"
      BY <3>3 DEF ClusterInv, OfAttempt, Clean
    <3> QED BY <3>1, <3>2, <3>3, <3>4, <3>5
  <2> QED BY <2>1, <2>2, <2>3
<1>5. /\ submitter' \in [Attempts -> {"none", "running", "posted", "gone", "failed"}]
      /\ \A b \in Attempts : b # a => submitter'[b] = submitter[b]
      /\ submitter'[a] = "none" <=> submitter[a] = "none"
  BY <1>3 DEF Submit, SubmitterFails, AppRuns, AppFails, proxyVars
<1>6. Typed'
  BY <1>1, <1>2, <1>4, <1>5 DEF ClusterInv, Typed, TypeOK, Grows
<1>7. \A b \in Attempts : b # a => Same(b)
  BY <1>1, <1>2, <1>4, <1>5 DEF Same
<1>8. OfAttempt(a)'
  <2>1. OfAttempt(a)
    BY DEF ClusterInv
  <2>2. Final' = Final /\ (\A p : InPhase(a, p)' = InPhase(a, p)) /\ Ended(a)' = Ended(a)
    BY <1>1, <1>2 DEF Final, InPhase, Ended
  <2>3. app[a] # "none" /\ app[a] \notin Live => app'[a] \notin Live
    BY <1>4
  <2>4. Clean(a)'
    BY <1>1, <1>2, <1>3, <1>4, <1>5, <2>1 DEF OfAttempt, Clean, Grows
  <2>5. Held(a)'
    <3>1. \A c \in Attempts : app[c] # "none" => app'[c] # "none" /\ Position(c)' = Position(c)
      BY <1>4 DEF Grows
    <3> QED BY <1>1, <1>2, <1>3, <2>1, <3>1 DEF OfAttempt, Held
  <2>6. Identified(a)'
    BY <1>1, <1>2, <2>1, <2>2 DEF OfAttempt, Identified
  <2>7. appId[a] = a => app[a] # "none"
    BY <2>1, ClusterAssumption DEF OfAttempt, Held
  <2>8. LastTrue(a)' /\ Polled(a)'
    BY <1>1, <1>2, <2>1, <2>2, <2>3, <2>7 DEF OfAttempt, LastTrue, Polled
  <2>9. Down(a)'
    BY <1>2, <1>4, <1>5, <2>1, <2>2, <2>3 DEF OfAttempt, Down, Clean
  <2> QED BY <2>4, <2>5, <2>6, <2>8, <2>9 DEF OfAttempt
<1> QED BY <1>1, <1>4, <1>6, <1>7, <1>8, OneMoves
\* Launches that begin.
LEMMA LaunchSteps ==
    ASSUME ClusterInv, NEW a \in Attempts, NEW k \in Ids, NEW parsed \in BOOLEAN,
           LaunchYarn(a, k) \/ LaunchConductor(a, k, parsed) \/ LaunchRefused(a, k)
    PROVE  ClusterInv'
<1> USE ClusterAssumption
<1>1. /\ phase' = phase /\ kind' = kind /\ appId' = appId /\ last' = last /\ located' = located
      /\ faults' = faults /\ blind' = blind /\ dropped' = dropped /\ lost' = lost
  BY DEF LaunchYarn, LaunchConductor, LaunchRefused, clusterVars, rmVars, proxyVars, history
<1>2. PICK st \in {"launching", "failed"} :
         /\ Launch!Begin(a, k, st)
         /\ st = "failed" <=> LaunchRefused(a, k)
  <2>1. CASE LaunchRefused(a, k)
    BY <2>1 DEF LaunchRefused
  <2>2. CASE ~LaunchRefused(a, k)
    BY <2>2 DEF LaunchYarn, LaunchConductor
  <2> QED BY <2>1, <2>2
<1>3. /\ status[a] = "idle" /\ status' = [status EXCEPT ![a] = st]
      /\ id' = [id EXCEPT ![a] = k] /\ conn' = conn
  BY <1>2 DEF Launch!Begin
<1>4. OfAttempt(a) /\ Typed
  BY DEF ClusterInv
<1>5. /\ submitter[a] = "none" /\ appId[a] = None /\ app[a] = "none" /\ a \notin driver
      /\ a \notin lost
  BY <1>3, <1>4 DEF OfAttempt, Clean, Held, Polled
<1>6. /\ status' \in [Attempts -> {"idle", "launching", "ready", "failed", "stopped"}]
      /\ id' \in [Attempts -> Ids \cup {None}] /\ status'[a] = st
      /\ \A b \in Attempts : b # a => status'[b] = status[b]
  BY <1>3, <1>4 DEF Typed, TypeOK
<1>7. Len(order) \in Nat /\ order \in Seq(Attempts) /\ app \in [Attempts -> AppStates]
      /\ since \in [Attempts -> Nat]
      /\ submitter \in [Attempts -> {"none", "running", "posted", "gone", "failed"}]
  BY <1>4, LenProperties DEF Typed, TypeOK
<1>8. /\ Grows /\ since' \in [Attempts -> Nat] /\ since'[a] <= Len(order)
      /\ submitter' \in [Attempts -> {"none", "running", "posted", "gone", "failed"}]
      /\ driver' \subseteq Attempts
      /\ \A b \in Attempts : b # a => /\ app'[b] = app[b] /\ since'[b] = since[b]
                                      /\ submitter'[b] = submitter[b]
                                      /\ b \in driver' <=> b \in driver
      /\ submitter'[a] = "none" => app'[a] = "none"
      /\ st = "failed" => app'[a] = "none" /\ submitter'[a] = "none"
      /\ a \in driver' => app'[a] # "none"
  <2>1. CASE LaunchYarn(a, k)
    <3>1. /\ submitter' = [submitter EXCEPT ![a] = "running"] /\ since' = [since EXCEPT ![a] = Len(order)]
          /\ app' = app /\ order' = order /\ driver' = driver
      BY <2>1 DEF LaunchYarn, rmVars
    <3>2. Grows
      BY <3>1, <1>7, GrowsSame
    <3>3. st # "failed"
      BY <2>1, <1>3, <1>6 DEF LaunchYarn, Launch!Begin
    <3> QED BY <3>1, <3>2, <3>3, <1>4, <1>5, <1>7 DEF Typed, TypeOK
  <2>2. CASE LaunchConductor(a, k, parsed)
    <3>1. /\ submitter' = [submitter EXCEPT ![a] = "gone"] /\ since' = since
          /\ app' = [app EXCEPT ![a] = "ACCEPTED"] /\ order' = Append(order, a)
          /\ driver' = IF parsed THEN driver \cup {a} ELSE driver
      BY <2>2 DEF LaunchConductor
    <3>2. Grows /\ app'[a] = "ACCEPTED" /\ \A b \in Attempts : b # a => app'[b] = app[b]
      BY <3>1, <1>5, GrowsByOne
    <3>3. st # "failed"
      BY <2>2, <1>3, <1>6 DEF LaunchConductor, Launch!Begin
    <3>4. since'[a] <= Len(order)
      BY <3>1, <1>4 DEF OfAttempt, Clean
    <3> QED BY <3>1, <3>2, <3>3, <3>4, <1>4, <1>7 DEF Typed, TypeOK
  <2>3. CASE LaunchRefused(a, k)
    <3>1. /\ submitter' = submitter /\ since' = since /\ app' = app /\ order' = order
          /\ driver' = driver
      BY <2>3 DEF LaunchRefused, clusterVars, rmVars, proxyVars
    <3>2. Grows
      BY <3>1, <1>7, GrowsSame
    <3> QED BY <3>1, <3>2, <1>4, <1>5, <1>7 DEF Typed, TypeOK, OfAttempt, Clean
  <2> QED BY <2>1, <2>2, <2>3
<1>9. Typed'
  BY <1>1, <1>3, <1>4, <1>6, <1>8 DEF Typed, TypeOK, Grows
<1>10. \A b \in Attempts : b # a => Same(b)
  BY <1>1, <1>3, <1>6, <1>8 DEF Same
<1>11. OfAttempt(a)'
  <2>1. Clean(a)'
    BY <1>1, <1>4, <1>5, <1>6, <1>7, <1>8 DEF Clean, Grows, Typed, TypeOK
  <2>2. Held(a)'
    BY <1>1, <1>3, <1>4, <1>5, <1>8 DEF Held, OfAttempt, Grows, Typed
  <2>3. Identified(a)' /\ LastTrue(a)'
    <3>1. phase'[a] = "sleep"
      BY <1>1, <1>3, <1>4 DEF OfAttempt, Clean
    <3> QED BY <1>1, <1>4, <1>5, <1>6, <3>1 DEF Identified, LastTrue, OfAttempt, InPhase, Final
  <2>4. Polled(a)' /\ Down(a)'
    BY <1>1, <1>5, <1>6, <1>8 DEF Polled, Down, Ended, Live
  <2> QED BY <2>1, <2>2, <2>3, <2>4 DEF OfAttempt
<1> QED BY <1>1, <1>8, <1>9, <1>10, <1>11, OneMoves
\* Telling applications to end makes none appear and leaves what is over as it is.
LEMMA EndAppsFacts ==
    ASSUME ClusterInv, NEW hit, NEW state \in {"KILLED", "FINISHED"}, EndApps(hit, state),
           order' = order
    PROVE  /\ Grows
           /\ \A b \in Attempts : app[b] = "none" <=> app'[b] = "none"
           /\ \A b \in Attempts : b \in hit => app'[b] \notin Live
           /\ \A b \in Attempts : app'[b] \in Live => app[b] \in Live
<1>1. app \in [Attempts -> AppStates]
  BY DEF ClusterInv, Typed, TypeOK
<1>2. app' = [b \in Attempts |-> IF b \in hit /\ app[b] \in Live THEN state ELSE app[b]]
  BY DEF EndApps
<1>3. app' \in [Attempts -> AppStates]
  BY <1>1, <1>2 DEF AppStates
<1>4. \A b \in Attempts : /\ app[b] = "none" <=> app'[b] = "none"
                          /\ app[b] # "none" /\ app[b] \notin Live => app'[b] = app[b]
                          /\ b \in hit => app'[b] \notin Live
                          /\ app'[b] \in Live => app[b] \in Live
  BY <1>2 DEF Live
<1>5. Grows
  BY <1>3, <1>4, GrowsSame
<1> QED BY <1>4, <1>5

\* The wait for connection info, a new gateway, and a kernel that obeys.
LEMMA KernelSteps ==
    ASSUME ClusterInv, NEW a \in Attempts, NEW p \in Attempts,
           ReceiveTimesOut(a) \/ ReceiveInfo(a, p) \/ Revive(a) \/ StopGracefully(a)
    PROVE  ClusterInv'
<1> USE ClusterAssumption
<1>1. OfAttempt(a) /\ Typed
  BY DEF ClusterInv
<1>2. CASE ReceiveTimesOut(a)
  <2>1. /\ status' = status /\ id' = id /\ conn' = conn /\ kind' = kind /\ app' = app /\ order' = order
        /\ since' = since /\ appId' = appId /\ last' = last /\ located' = located /\ driver' = driver
        /\ submitter' = submitter /\ faults' = faults /\ blind' = blind /\ dropped' = dropped
        /\ lost' = lost /\ phase' = [phase EXCEPT ![a] = "sleep"] /\ status[a] = "launching"
    BY <1>2 DEF ReceiveTimesOut, InPhase, clusterVars, rmVars, proxyVars, history
  <2>2. /\ phase' \in [Attempts -> {"sleep", "wait", "killing"}] /\ phase'[a] = "sleep"
        /\ \A b \in Attempts : b # a => phase'[b] = phase[b]
    BY <1>1, <2>1 DEF Typed, TypeOK
  <2>3. Grows
    BY <1>1, <2>1, GrowsSame DEF Typed, TypeOK
  <2>4. Typed'
    BY <1>1, <2>1, <2>2 DEF Typed, TypeOK
  <2>5. \A b \in Attempts : b # a => Same(b)
    BY <2>1, <2>2 DEF Same
  <2>6. OfAttempt(a)'
    BY <1>1, <2>1, <2>2 DEF OfAttempt, Clean, Held, Identified, LastTrue, Polled, Down, InPhase,
       Ended, Final, Position
  <2> QED BY <2>1, <2>3, <2>4, <2>5, <2>6, OneMoves
<1>3. CASE ReceiveInfo(a, p)
  <2>1. /\ id' = id /\ kind' = kind /\ app' = app /\ order' = order /\ phase' = phase
        /\ since' = since /\ appId' = appId /\ last' = last /\ located' = located /\ driver' = driver
        /\ submitter' = submitter /\ faults' = faults /\ blind' = blind /\ dropped' = dropped
        /\ lost' = lost /\ status' = [status EXCEPT ![a] = "ready"]
        /\ conn' = [conn EXCEPT ![a] = p]
        /\ InPhase(a, "wait") /\ status[a] = "launching" /\ app[p] = "RUNNING"
    BY <1>3 DEF ReceiveInfo, InPhase, Launch!Succeed, clusterVars, rmVars, proxyVars, history
  <2>2. /\ status' \in [Attempts -> {"idle", "launching", "ready", "failed", "stopped"}]
        /\ conn' \in [Attempts -> Attempts \cup {None}] /\ status'[a] = "ready" /\ conn'[a] = p
        /\ \A b \in Attempts : b # a => status'[b] = status[b] /\ conn'[b] = conn[b]
    BY <1>1, <2>1 DEF Typed, TypeOK
  <2>3. Grows
    BY <1>1, <2>1, GrowsSame DEF Typed, TypeOK
  <2>4. Typed'
    BY <1>1, <2>1, <2>2 DEF Typed, TypeOK
  <2>5. \A b \in Attempts : b # a => Same(b)
    BY <2>1, <2>2 DEF Same
  <2>6. Clean(a)' /\ Held(a)' /\ Identified(a)'
    BY <1>1, <2>1, <2>2 DEF OfAttempt, Clean, Held, Identified, Position
  <2>7. LastTrue(a)' /\ Polled(a)' /\ Down(a)'
    BY <1>1, <2>1, <2>2 DEF OfAttempt, LastTrue, Polled, Down, InPhase, Ended, Final
  <2> QED BY <2>1, <2>3, <2>4, <2>5, <2>6, <2>7, OneMoves DEF OfAttempt
<1>4. CASE Revive(a)
  <2>1. /\ id' = id /\ conn' = conn /\ kind' = kind /\ app' = app /\ order' = order /\ last' = last
        /\ phase' = phase /\ since' = since /\ located' = located /\ driver' = driver
        /\ submitter' = submitter /\ faults' = faults /\ blind' = blind /\ lost' = lost
        /\ status[a] = "ready" /\ dropped' = dropped \cup {a}
        /\ appId' = [appId EXCEPT ![a] = None] /\ status' = [status EXCEPT ![a] = "stopped"]
    BY <1>4 DEF Revive, Launch!Stop, rmVars
  <2>2. /\ status' \in [Attempts -> {"idle", "launching", "ready", "failed", "stopped"}]
        /\ appId' \in [Attempts -> Attempts \cup {None}] /\ status'[a] = "stopped" /\ appId'[a] = None
        /\ \A b \in Attempts : b # a => status'[b] = status[b] /\ appId'[b] = appId[b]
    BY <1>1, <2>1 DEF Typed, TypeOK
  <2>3. Grows
    BY <1>1, <2>1, GrowsSame DEF Typed, TypeOK
  <2>4. Typed'
    BY <1>1, <2>1, <2>2 DEF Typed, TypeOK
  <2>5. \A b \in Attempts : b # a => Same(b)
    BY <2>1, <2>2 DEF Same
  <2>6. Clean(a)' /\ Held(a)' /\ Identified(a)'
    BY <1>1, <2>1, <2>2 DEF OfAttempt, Clean, Held, Identified, InPhase
  <2>7. LastTrue(a)' /\ Polled(a)' /\ Down(a)'
    BY <1>1, <2>1, <2>2 DEF OfAttempt, LastTrue, Polled, Down
  <2> QED BY <2>1, <2>3, <2>4, <2>5, <2>6, <2>7, OneMoves DEF OfAttempt
<1>5. CASE StopGracefully(a)
  <2>1. /\ id' = id /\ conn' = conn /\ kind' = kind /\ order' = order
        /\ phase' = phase /\ since' = since /\ last' = last /\ located' = located /\ driver' = driver
        /\ submitter' = submitter /\ faults' = faults /\ dropped' = dropped /\ lost' = lost
        /\ blind' = IF conn[a] = a THEN blind ELSE blind \cup {a}
        /\ appId' = [appId EXCEPT ![a] = None] /\ status' = [status EXCEPT ![a] = "stopped"]
        /\ EndApps({conn[a]}, "FINISHED") /\ status[a] = "ready"
    BY <1>5 DEF StopGracefully, Launch!Stop
  <2>2. /\ status' \in [Attempts -> {"idle", "launching", "ready", "failed", "stopped"}]
        /\ appId' \in [Attempts -> Attempts \cup {None}] /\ status'[a] = "stopped" /\ appId'[a] = None
        /\ \A b \in Attempts : b # a => status'[b] = status[b] /\ appId'[b] = appId[b]
    BY <1>1, <2>1 DEF Typed, TypeOK
  <2>3. /\ Grows
        /\ \A b \in Attempts : app[b] = "none" <=> app'[b] = "none"
        /\ \A b \in Attempts : b \in {conn[a]} => app'[b] \notin Live
        /\ \A b \in Attempts : app'[b] \in Live => app[b] \in Live
    BY <2>1, EndAppsFacts
  <2>4. Typed'
    BY <1>1, <2>1, <2>2, <2>3 DEF Typed, TypeOK, Grows
  <2>5. \A b \in Attempts : b # a => Same(b)
    BY <2>1, <2>2, <2>3 DEF Same
  <2>6. Clean(a)' /\ Identified(a)' /\ LastTrue(a)' /\ Polled(a)'
    BY <1>1, <2>1, <2>2, <2>3 DEF OfAttempt, Clean, Identified, LastTrue, Polled, InPhase
  <2>7. Held(a)'
    BY <1>1, <2>1, <2>2, <2>3 DEF OfAttempt, Held, Typed
  <2>8. Down(a)'
    BY <1>1, <2>1, <2>2, <2>3 DEF OfAttempt, Held, Down, Typed
  <2> QED BY <2>1, <2>3, <2>4, <2>5, <2>6, <2>7, <2>8, OneMoves DEF OfAttempt
<1> QED BY <1>2, <1>3, <1>4, <1>5
\* The rounds of confirm_remote_startup, its timeout, and poll().
LEMMA RoundSteps ==
    ASSUME ClusterInv, NEW a \in Attempts, NEW reach \in BOOLEAN,
           \/ RoundWaits(a, reach) \/ RoundIdle(a, reach) \/ RoundFails(a, reach)
           \/ HandleTimeout(a, reach) \/ Poll(a, reach)
    PROVE  ClusterInv'
<1> USE ClusterAssumption
<1>1. OfAttempt(a) /\ Typed
  BY DEF ClusterInv
<1>2. /\ id' = id /\ conn' = conn /\ kind' = kind /\ app' = app /\ order' = order /\ since' = since
      /\ driver' = driver /\ submitter' = submitter /\ dropped' = dropped /\ Possible(reach)
  BY DEF RoundWaits, RoundIdle, RoundFails, HandleTimeout, Poll, Launch!Fail, launchVars, rmVars, history
<1>3. PICK ignore \in BOOLEAN : /\ Remember(a, reach, ignore)
                                /\ ignore <=> ~Poll(a, reach)
  BY DEF RoundWaits, RoundIdle, RoundFails, HandleTimeout, Poll, InPhase
<1>4. /\ appId' \in [Attempts -> Attempts \cup {None}]
      /\ last' \in [Attempts -> AppStates \cup {Unknown}] /\ faults' \in 0..MaxFaults
      /\ \A b \in Attempts : b # a => appId'[b] = appId[b] /\ last'[b] = last[b]
      /\ appId'[a] = GetApplicationId(a, reach, ignore)
      /\ appId'[a] # None => app[appId'[a]] # "none"
      /\ appId'[a] # None /\ appId'[a] # a => Position(appId'[a]) > since[a]
      /\ appId[a] # None => appId'[a] = appId[a]
      /\ kind = "conductor" => last'[a] = Unknown
      /\ kind = "yarn" /\ appId'[a] = a =>
            last'[a] # Unknown /\ (last'[a] \notin Live => app[a] \notin Live)
      /\ kind = "yarn" /\ appId'[a] # None => last'[a] = IF reach THEN app[appId'[a]] ELSE last[a]
  <2>1. Possible(reach) /\ Remember(a, reach, ignore)
    BY <1>2, <1>3
  <2> QED BY <2>1, Remembered, ZenonT(60)
<1>5. Grows
  BY <1>1, <1>2, GrowsSame DEF Typed, TypeOK
<1>6. Held(a)'
  BY <1>1, <1>2, <1>4 DEF OfAttempt, Held, Position
<1>7. /\ kind' = "conductor" => last'[a] = Unknown
      /\ kind' = "yarn" /\ appId'[a] = a =>
            last'[a] # Unknown /\ (last'[a] \notin Live => app'[a] \notin Live)
  BY <1>2, <1>4
<1>8. CASE RoundWaits(a, reach)
  <2>1. /\ status' = status /\ phase' = [phase EXCEPT ![a] = "wait"] /\ located' = located \cup {a}
        /\ blind' = blind /\ lost' = lost /\ status[a] = "launching"
        /\ Located(a, reach) /\ ConfirmState(a, reach) \notin Final
    BY <1>8 DEF RoundWaits, InPhase, history
  <2>2. /\ phase' \in [Attempts -> {"sleep", "wait", "killing"}] /\ phase'[a] = "wait"
        /\ \A b \in Attempts : b # a => phase'[b] = phase[b]
    BY <1>1, <2>1 DEF Typed, TypeOK
  <2>3. ignore = TRUE
    <3>1. ~Poll(a, reach)
      BY <2>1 DEF Poll
    <3> QED BY <1>3, <3>1
  <2>4. appId'[a] # None /\ ConfirmState(a, reach) = QueryState(a, appId'[a], reach)
    BY <1>4, <2>1, <2>3 DEF Located, ConfirmState
  <2>6. Typed'
    BY <1>1, <1>2, <1>4, <2>1, <2>2 DEF Typed, TypeOK
  <2>7. \A b \in Attempts : b # a => Same(b)
    BY <1>2, <1>4, <2>1, <2>2 DEF Same
  <2>8. Clean(a)' /\ Identified(a)' /\ Polled(a)' /\ Down(a)'
    BY <1>1, <1>2, <2>1, <2>4 DEF OfAttempt, Clean, Identified, Polled, Down, Ended
  <2>9. LastTrue(a)'
    BY <1>7 DEF LastTrue
  <2> QED BY <1>2, <1>5, <1>6, <2>6, <2>7, <2>8, <2>9, OneMoves DEF OfAttempt
<1>9. CASE RoundIdle(a, reach) \/ HandleTimeout(a, reach)
  <2>1. /\ status' = status /\ located' = located
        /\ phase' = phase \/ phase' = [phase EXCEPT ![a] = "killing"]
        /\ blind' = blind /\ lost' = lost /\ status[a] = "launching" /\ phase[a] = "sleep"
    BY <1>9 DEF RoundIdle, HandleTimeout, InPhase, history, launchVars
  <2>2. /\ phase' \in [Attempts -> {"sleep", "wait", "killing"}] /\ phase'[a] # "wait"
        /\ \A b \in Attempts : b # a => phase'[b] = phase[b]
    BY <1>1, <2>1, ZenonT(60) DEF Typed, TypeOK
  <2>3. Typed'
    BY <1>1, <1>2, <1>4, <2>1, <2>2 DEF Typed, TypeOK
  <2>4. \A b \in Attempts : b # a => Same(b)
    BY <1>2, <1>4, <2>1, <2>2 DEF Same
  <2>5. Clean(a)' /\ Identified(a)' /\ Polled(a)' /\ Down(a)'
    BY <1>1, <1>2, <2>1, <2>2 DEF OfAttempt, Clean, Identified, Polled, Down, Ended, InPhase
  <2>6. LastTrue(a)'
    BY <1>7, <2>2 DEF LastTrue, InPhase
  <2> QED BY <1>2, <1>5, <1>6, <2>3, <2>4, <2>5, <2>6, OneMoves DEF OfAttempt
<1>10. CASE RoundFails(a, reach)
  <2>1. /\ status' = [status EXCEPT ![a] = "failed"] /\ located' = located /\ phase' = phase
        /\ lost' = lost /\ status[a] = "launching"
    BY <1>10 DEF RoundFails, InPhase, Launch!Fail
  <2>2. ignore = TRUE
    <3>1. ~Poll(a, reach)
      BY <2>1 DEF Poll
    <3> QED BY <1>3, <3>1
  <2>3. /\ blind' = IF appId'[a] = a THEN blind ELSE blind \cup {a}
        /\ appId'[a] # None => ConfirmState(a, reach) \in Final
    BY <1>4, <1>10, <2>2 DEF RoundFails
  <2>4. /\ status' \in [Attempts -> {"idle", "launching", "ready", "failed", "stopped"}]
        /\ status'[a] = "failed"
        /\ \A b \in Attempts : b # a => status'[b] = status[b]
    BY <1>1, <2>1 DEF Typed, TypeOK
  <2>5. Typed'
    BY <1>1, <1>2, <1>4, <2>1, <2>3, <2>4 DEF Typed, TypeOK
  <2>6. \A b \in Attempts : b # a => Same(b)
    BY <1>2, <1>4, <2>1, <2>3, <2>4 DEF Same
  <2>7. Clean(a)' /\ Identified(a)' /\ Polled(a)'
    BY <1>1, <1>2, <2>1, <2>4 DEF OfAttempt, Clean, Identified, Polled, InPhase
  <2>8. LastTrue(a)'
    BY <1>7, <2>4 DEF LastTrue, InPhase
  \* its own application in a final state is over
  <2>9. ASSUME appId'[a] = a
        PROVE  app[a] \notin Live /\ app[a] # "none"
    <3>1. QueryState(a, a, reach) \in Final
      BY <1>4, <2>2, <2>3, <2>9 DEF ConfirmState
    <3>3. CASE kind = "conductor"
      BY <1>4, <2>9, <3>1, <3>3 DEF QueryState, ConductorState, Final, Live, Unknown
    <3>4. CASE kind = "yarn"
      <4>1. CASE reach
        BY <1>4, <2>9, <3>1, <3>4, <4>1 DEF QueryState, Final, Live
      <4>2. CASE ~reach
        <5>1. last'[a] = last[a] /\ last[a] \in Final
          BY <1>4, <2>9, <3>1, <3>4, <4>2 DEF QueryState
        <5>2. last'[a] \notin Live
          BY <5>1 DEF Final, Live
        <5> QED BY <1>4, <2>9, <3>4, <5>2
      <4> QED BY <4>1, <4>2
    <3> QED BY <3>3, <3>4, <1>1 DEF Typed, TypeOK
  <2>10. Down(a)'
    BY <1>2, <2>3, <2>9 DEF Down
  <2> QED BY <1>2, <1>5, <1>6, <2>5, <2>6, <2>7, <2>8, <2>10, OneMoves DEF OfAttempt
<1>11. CASE Poll(a, reach)
  <2>1. /\ status' = status /\ phase' = phase /\ located' = located /\ blind' = blind
        /\ status[a] = "ready"
    BY <1>11 DEF Poll, launchVars
  <2>10. ignore = FALSE
    BY <1>3, <1>11, Zenon
  <2>2. lost' = IF appId'[a] # None /\ QueryState(a, appId'[a], reach) \in Live
                THEN lost ELSE lost \cup {a}
    BY <1>4, <1>11, <2>10 DEF Poll
  <2>3. appId[a] # None /\ appId'[a] = appId[a]
    BY <1>1, <1>4, <2>1 DEF OfAttempt, Identified
  <2>4. Typed'
    BY <1>1, <1>2, <1>4, <2>1, <2>2 DEF Typed, TypeOK
  <2>5. \A b \in Attempts : b # a => Same(b)
    BY <1>2, <1>4, <2>1, <2>2 DEF Same
  <2>6. Clean(a)' /\ Identified(a)' /\ Down(a)'
    BY <1>1, <1>2, <2>1, <2>3 DEF OfAttempt, Clean, Identified, Down, Ended
  <2>7. LastTrue(a)'
    BY <1>7, <2>1 DEF LastTrue, InPhase
  <2>8. ASSUME kind = "yarn", a \in lost', appId[a] = a
        PROVE  app[a] \notin Live
    <3>1. CASE a \in lost
      BY <1>1, <2>8, <3>1 DEF OfAttempt, Polled
    <3>2. CASE a \notin lost
      <4>1. QueryState(a, a, reach) \notin Live
        BY <2>2, <2>3, <2>8, <3>2
      <4>2. last'[a] \notin Live
        BY <1>4, <2>3, <2>8, <4>1 DEF QueryState
      <4> QED BY <1>4, <2>3, <2>8, <4>2
    <3> QED BY <3>1, <3>2
  <2>9. Polled(a)'
    BY <1>1, <1>2, <2>1, <2>3, <2>8 DEF OfAttempt, Polled
  <2> QED BY <1>2, <1>5, <1>6, <2>4, <2>5, <2>6, <2>7, <2>9, OneMoves DEF OfAttempt
<1> QED BY <1>8, <1>9, <1>10, <1>11
\* What kill() leaves: its own application, if that is what it found and reached, is over.
LEMMA KillFacts ==
    ASSUME ClusterInv, NEW a \in Attempts, NEW reach \in BOOLEAN, NEW left \in {"gone", "posted"},
           Kill(a, KillTarget(a, reach), reach, left), order' = order
    PROVE  /\ Grows
           /\ \A b \in Attempts : app[b] = "none" <=> app'[b] = "none"
           /\ submitter' \in [Attempts -> {"none", "running", "posted", "gone", "failed"}]
           /\ \A b \in Attempts : b # a => submitter'[b] = submitter[b]
           /\ submitter'[a] = "none" <=> submitter[a] = "none"
           /\ blind \subseteq blind' /\ blind' \subseteq blind \cup {a}
           /\ a \notin blind' => app'[a] \notin Live /\ app'[a] # "none"
<1> USE ClusterAssumption
<1> DEFINE b == KillTarget(a, reach)
<1>1. OfAttempt(a) /\ Typed
  BY DEF ClusterInv
<1>2. /\ EndApps(IF reach THEN {b} ELSE {}, "KILLED")
      /\ submitter' = IF submitter[a] = "running" /\ (kind = "conductor" \/ b = None \/ ~reach)
                      THEN [submitter EXCEPT ![a] = left] ELSE submitter
      /\ blind' = IF b = a /\ reach THEN blind ELSE blind \cup {a}
  BY DEF Kill
<1>3. b = a => app[a] # "none"
  <2>1. CASE kind = "yarn"
    <3>1. b = GetApplicationId(a, reach, FALSE)
      BY <2>1 DEF KillTarget
    <3>2. GetApplicationId(a, reach, FALSE) # None => app[GetApplicationId(a, reach, FALSE)] # "none"
      BY IdFacts
    <3> HIDE DEF b
    <3> QED BY <3>1, <3>2
  <2>2. CASE kind # "yarn"
    BY <1>1, <2>2 DEF KillTarget, OfAttempt, Held
  <2> QED BY <2>1, <2>2
<1> HIDE DEF b
<1>4. /\ Grows
      /\ \A c \in Attempts : app[c] = "none" <=> app'[c] = "none"
      /\ \A c \in Attempts : c \in (IF reach THEN {b} ELSE {}) => app'[c] \notin Live
  BY <1>2, EndAppsFacts
<1>5. /\ submitter' \in [Attempts -> {"none", "running", "posted", "gone", "failed"}]
      /\ \A c \in Attempts : c # a => submitter'[c] = submitter[c]
      /\ submitter'[a] = "none" <=> submitter[a] = "none"
  BY <1>1, <1>2 DEF Typed, TypeOK
<1>6. a \notin blind' => b = a /\ reach
  BY <1>2
<1> QED BY <1>2, <1>3, <1>4, <1>5, <1>6

\* A launch that is killed, a kernel that is killed.
LEMMA KillSteps ==
    ASSUME ClusterInv, NEW a \in Attempts, NEW reach \in BOOLEAN, NEW left \in {"gone", "posted"},
           \/ ReceiveFails(a, reach, left) \/ KillReturns(a, reach, left)
           \/ StopByKill(a, reach, left)
    PROVE  ClusterInv'
<1> USE ClusterAssumption
<1>1. OfAttempt(a) /\ Typed
  BY DEF ClusterInv
<1>2. /\ id' = id /\ conn' = conn /\ kind' = kind /\ order' = order /\ since' = since
      /\ driver' = driver /\ dropped' = dropped /\ lost' = lost /\ located' = located /\ phase' = phase
      /\ Possible(reach) /\ Kill(a, KillTarget(a, reach), reach, left)
  BY DEF ReceiveFails, KillReturns, StopByKill, Launch!Fail, Launch!Stop
<1>3. /\ Grows
      /\ \A b \in Attempts : app[b] = "none" <=> app'[b] = "none"
      /\ submitter' \in [Attempts -> {"none", "running", "posted", "gone", "failed"}]
      /\ \A b \in Attempts : b # a => submitter'[b] = submitter[b]
      /\ submitter'[a] = "none" <=> submitter[a] = "none"
      /\ blind \subseteq blind' /\ blind' \subseteq blind \cup {a}
      /\ a \notin blind' => app'[a] \notin Live /\ app'[a] # "none"
  BY <1>2, KillFacts
<1>4. /\ appId' \in [Attempts -> Attempts \cup {None}]
      /\ last' \in [Attempts -> AppStates \cup {Unknown}] /\ faults' \in 0..MaxFaults
      /\ \A b \in Attempts : b # a => appId'[b] = appId[b] /\ last'[b] = last[b]
      /\ appId'[a] # None => app[appId'[a]] # "none"
      /\ appId'[a] # None /\ appId'[a] # a => Position(appId'[a]) > since[a]
      /\ kind = "conductor" => last'[a] = Unknown
      /\ kind = "yarn" /\ appId'[a] = a =>
            last'[a] # Unknown /\ (last'[a] \notin Live => app[a] \notin Live)
      /\ StopByKill(a, reach, left) => appId'[a] = None
  <2>1. CASE ReceiveFails(a, reach, left) \/ KillReturns(a, reach, left)
    <3>1. Possible(reach) /\ Remember(a, reach, FALSE) /\ FALSE \in BOOLEAN
      BY <2>1 DEF ReceiveFails, KillReturns
    <3>2. ~StopByKill(a, reach, left)
      BY <2>1 DEF ReceiveFails, KillReturns, StopByKill, Launch!Fail, Launch!Stop
    <3> QED BY <3>1, <3>2, Remembered, ZenonT(60)
  <2>2. CASE StopByKill(a, reach, left)
    <3>1. /\ appId' = [appId EXCEPT ![a] = None] /\ last' = last
          /\ faults' = IF reach THEN faults ELSE faults + 1
      BY <2>2 DEF StopByKill, Answers
    <3>2. faults' \in 0..MaxFaults
      BY <1>1, <1>2, <3>1 DEF Possible, Typed, TypeOK
    <3> QED BY <1>1, <3>1, <3>2 DEF Typed, TypeOK, OfAttempt, LastTrue
  <2> QED BY <2>1, <2>2
<1>5. PICK st \in {"failed", "stopped"} :
         /\ status' = [status EXCEPT ![a] = st]
         /\ st = "stopped" => appId'[a] = None /\ status[a] = "ready"
         /\ st = "failed" => status[a] = "launching"
  BY <1>4 DEF ReceiveFails, KillReturns, StopByKill, Launch!Fail, Launch!Stop
<1>6. /\ status' \in [Attempts -> {"idle", "launching", "ready", "failed", "stopped"}]
      /\ status'[a] = st /\ \A b \in Attempts : b # a => status'[b] = status[b]
  BY <1>1, <1>5 DEF Typed, TypeOK
<1>7. Typed'
  BY <1>1, <1>2, <1>3, <1>4, <1>6 DEF Typed, TypeOK, Grows
<1>8. \A b \in Attempts : b # a => Same(b)
  BY <1>2, <1>3, <1>4, <1>6 DEF Same
<1>9. Clean(a)' /\ Identified(a)' /\ Down(a)'
  BY <1>1, <1>2, <1>3, <1>5, <1>6 DEF OfAttempt, Clean, Identified, Down, InPhase
<1>10. Held(a)'
  <2>1. \A c \in Attempts : app[c] # "none" => app'[c] # "none" /\ Position(c)' = Position(c)
    BY <1>3 DEF Grows
  <2>2. appId'[a] \in Attempts \cup {None} /\ conn[a] \in Attempts \cup {None}
    BY <1>1, <1>4 DEF Typed
  <2>3. PICK g \in Attempts \cup {None} : g = appId'[a]
    BY <2>2
  <2>4. /\ g # None => app'[g] # "none" /\ Position(g)' = Position(g)
        /\ g # None /\ g # a => Position(g) > since[a]
    BY <1>4, <2>1, <2>3
  <2>5. g # None /\ g # a => Position(g)' > since'[a]
    BY <2>4, <1>2
  <2>6. Position(g)' = CHOOSE i \in 1..Len(order') : order'[i] = appId'[a]
    BY <2>3 DEF Position
  <2>7. /\ a \in driver' => app'[a] # "none"
        /\ conn'[a] # None => app'[conn'[a]] # "none"
    BY <1>1, <1>2, <2>1, <2>2 DEF OfAttempt, Held
  <2> QED BY <2>3, <2>4, <2>5, <2>6, <2>7 DEF Held, Position
<1>11. app'[a] \in Live => app[a] \in Live
  BY <1>1, <1>3 DEF Grows, Live, Typed, TypeOK
<1>12. LastTrue(a)'
  BY <1>2, <1>4, <1>6, <1>11 DEF LastTrue, InPhase
<1>13. Polled(a)'
  BY <1>1, <1>2, <1>4, <1>5, <1>6, <1>11 DEF OfAttempt, Polled
<1> QED BY <1>2, <1>3, <1>7, <1>8, <1>9, <1>10, <1>12, <1>13, OneMoves DEF OfAttempt

-----------------------------------------------------------------------------
\* At the start nothing has been submitted.
LEMMA ClusterInitInv == Init => ClusterInv
<1> SUFFICES ASSUME Init PROVE ClusterInv
  OBVIOUS
<1> USE ClusterAssumption
<1>1. /\ status = [a \in Attempts |-> "idle"] /\ id = [a \in Attempts |-> None]
      /\ conn = [a \in Attempts |-> None] /\ order = <<>> /\ since = [a \in Attempts |-> 0]
  BY DEF Init, Launch!Init
<1>2. order \in Seq(Attempts) /\ Len(order) = 0
  BY <1>1, EmptySeq
<1>3. Typed
  BY <1>1, <1>2 DEF Init, Typed, TypeOK, AppStates, Unknown
<1>4. OrderExact
  BY <1>2 DEF Init, OrderExact
<1>5. ASSUME NEW a \in Attempts PROVE OfAttempt(a)
  BY <1>1, <1>2 DEF Init, OfAttempt, Clean, Held, Identified, LastTrue, Polled, Down, InPhase,
     Ended, Unknown, Final
<1> QED BY <1>3, <1>4, <1>5 DEF ClusterInv

\* Every step keeps the invariant.
LEMMA ClusterStepInv == ClusterInv /\ [Next]_vars => ClusterInv'
<1> SUFFICES ASSUME ClusterInv, [Next]_vars PROVE ClusterInv'
  OBVIOUS
<1>1. CASE UNCHANGED vars
  <2>1. /\ status' = status /\ id' = id /\ conn' = conn /\ phase' = phase /\ kind' = kind
        /\ app' = app /\ order' = order /\ since' = since /\ appId' = appId /\ last' = last
        /\ located' = located /\ driver' = driver /\ submitter' = submitter /\ faults' = faults
        /\ blind' = blind /\ dropped' = dropped /\ lost' = lost
    BY <1>1 DEF vars, launchVars, clusterVars, rmVars, proxyVars, history
  <2>2. Typed' /\ Grows
    BY <2>1, GrowsSame DEF ClusterInv, Typed, TypeOK
  <2>3. \A b \in Attempts : Same(b)
    BY <2>1 DEF Same
  <2>4. \A b \in Attempts : OfAttempt(b)'
    BY <2>1, <2>2, <2>3, SameKept
  <2> QED BY <2>2, <2>4 DEF ClusterInv, Grows
<1>2. ASSUME NEW a \in Attempts,
             Submit(a) \/ SubmitterFails(a) \/ AppRuns(a) \/ AppFails(a)
      PROVE  ClusterInv'
  BY <1>2, ManagerSteps
<1>3. ASSUME NEW a \in Attempts,
             ReceiveTimesOut(a) \/ Revive(a) \/ StopGracefully(a) \/ \E p \in Attempts : ReceiveInfo(a, p)
      PROVE  ClusterInv'
  BY <1>3, KernelSteps
<1>4. ASSUME NEW a \in Attempts, NEW k \in Ids,
             \/ LaunchRefused(a, k) \/ LaunchYarn(a, k)
             \/ \E parsed \in BOOLEAN : LaunchConductor(a, k, parsed)
      PROVE  ClusterInv'
  BY <1>4, LaunchSteps
<1>5. ASSUME NEW a \in Attempts, NEW reach \in BOOLEAN,
             \/ RoundWaits(a, reach) \/ RoundIdle(a, reach) \/ RoundFails(a, reach)
             \/ HandleTimeout(a, reach) \/ Poll(a, reach)
      PROVE  ClusterInv'
  BY <1>5, RoundSteps
<1>6. ASSUME NEW a \in Attempts, NEW reach \in BOOLEAN, NEW left \in {"gone", "posted"},
             \/ ReceiveFails(a, reach, left) \/ KillReturns(a, reach, left)
             \/ StopByKill(a, reach, left)
      PROVE  ClusterInv'
  BY <1>6, KillSteps
<1> QED BY <1>1, <1>2, <1>3, <1>4, <1>5, <1>6 DEF Next

-----------------------------------------------------------------------------
\* An application outlives its launch or its kernel only if the proxy did not know it, the
\* resource manager did not answer (kill, handle_timeout, detect_launch_failure), or a new
\* gateway dropped its session (start_kernel_from_session).
THEOREM OrphansExplained == Spec => []OrphanExplained
<1>1. ClusterInv => OrphanExplained
  BY DEF ClusterInv, OfAttempt, Down, OrphanExplained
<1> QED BY <1>1, ClusterInitInv, ClusterStepInv, PTL DEF Spec

\* A relaunched kernel never takes up an application that was submitted before
\* (_query_app_by_name and the start_time it filters on).
THEOREM NewApplications == Spec => []OnlyNewApplications
<1>1. ClusterInv => OnlyNewApplications
  BY ClusterAssumption DEF ClusterInv, OfAttempt, Held, OnlyNewApplications
<1> QED BY <1>1, ClusterInitInv, ClusterStepInv, PTL DEF Spec

\* poll() of the gateway that launched the kernel never takes a running YARN application for
\* gone: the restarter does not start it twice because of an unanswered request.
THEOREM PolledAlive == Spec => []LivePolledAlive
<1>1. ClusterInv => LivePolledAlive
  BY DEF ClusterInv, OfAttempt, Polled, LivePolledAlive
<1> QED BY <1>1, ClusterInitInv, ClusterStepInv, PTL DEF Spec

-----------------------------------------------------------------------------
(* Whose application kill() ends *)

\* A proxy holds the id of an application that bears its kernel's id.
SameName == \A a \in Attempts : appId[a] # None => id[appId[a]] = id[a]

\* What _get_application_id finds bears the kernel's id.
LEMMA FoundByName ==
    ASSUME ClusterInv, SameName, NEW a \in Attempts, NEW reach \in BOOLEAN, NEW ignore \in BOOLEAN,
           GetApplicationId(a, reach, ignore) # None
    PROVE  id[GetApplicationId(a, reach, ignore)] = id[a]
<1> DEFINE g == GetApplicationId(a, reach, ignore)
<1>1. g = Target(a, reach)
  BY IdFacts
<1>2. CASE appId[a] # None
  BY <1>1, <1>2 DEF Target, SameName
<1>3. CASE appId[a] = None
  <2>1. reach /\ Visible(a) # {} /\ g = TopMost(Visible(a))
    BY <1>1, <1>3 DEF Target
  <2>2. Visible(a) \subseteq Attempts /\ \A b \in Visible(a) : app[b] # "none" /\ id[b] = id[a]
    BY DEF Visible, VisibleConductor
  <2>3. TopMost(Visible(a)) \in Visible(a)
    BY <2>1, <2>2, TopMostFacts DEF ClusterInv
  <2> QED BY <2>1, <2>2, <2>3
<1> QED BY <1>2, <1>3

\* Queries keep that, if the ids stay.
LEMMA RememberName ==
    ASSUME ClusterInv, SameName, NEW a \in Attempts, NEW reach \in BOOLEAN, NEW ignore \in BOOLEAN,
           Remember(a, reach, ignore), id' = id
    PROVE  SameName'
<1>1. /\ appId \in [Attempts -> Attempts \cup {None}]
      /\ appId' = [appId EXCEPT ![a] = GetApplicationId(a, reach, ignore)]
  BY DEF ClusterInv, Typed, TypeOK, Remember
<1>2. GetApplicationId(a, reach, ignore) # None => id[GetApplicationId(a, reach, ignore)] = id[a]
  BY FoundByName
<1> QED BY <1>1, <1>2 DEF SameName

\* Every step keeps it: an id is set once, before anybody holds the application.
LEMMA NameStep == ClusterInv /\ SameName /\ [Next]_vars => SameName'
<1> SUFFICES ASSUME ClusterInv, SameName, [Next]_vars PROVE SameName'
  OBVIOUS
<1>0. appId \in [Attempts -> Attempts \cup {None}] /\ id \in [Attempts -> Ids \cup {None}]
  BY DEF ClusterInv, Typed, TypeOK
<1>1. CASE id' = id /\ appId' = appId
  BY <1>1 DEF SameName
<1>2. ASSUME NEW a \in Attempts, id' = id, appId' = [appId EXCEPT ![a] = None]
      PROVE  SameName'
  BY <1>0, <1>2 DEF SameName
<1>3. ASSUME NEW a \in Attempts, NEW k \in Ids, status[a] = "idle",
             id' = [id EXCEPT ![a] = k], appId' = appId
      PROVE  SameName'
  <2>1. app[a] = "none" /\ appId[a] = None
    BY <1>3 DEF ClusterInv, OfAttempt, Clean
  <2>2. \A c \in Attempts : appId[c] # None => appId[c] \in Attempts /\ appId[c] # a
    BY <1>0, <2>1 DEF ClusterInv, OfAttempt, Held
  <2> QED BY <1>0, <1>3, <2>1, <2>2 DEF SameName
<1>4. CASE UNCHANGED vars
  BY <1>1, <1>4 DEF vars, launchVars, clusterVars, proxyVars
<1>5. ASSUME NEW a \in Attempts,
             Submit(a) \/ SubmitterFails(a) \/ AppRuns(a) \/ AppFails(a) \/ ReceiveTimesOut(a)
      PROVE  SameName'
  BY <1>1, <1>5 DEF Submit, SubmitterFails, AppRuns, AppFails, ReceiveTimesOut, launchVars,
     clusterVars, proxyVars
<1>6. ASSUME NEW a \in Attempts, Revive(a) \/ StopGracefully(a)
      PROVE  SameName'
  BY <1>2, <1>6 DEF Revive, StopGracefully, Launch!Stop
<1>7. ASSUME NEW a \in Attempts, NEW p \in Attempts, ReceiveInfo(a, p)
      PROVE  SameName'
  BY <1>1, <1>7 DEF ReceiveInfo, Launch!Succeed, clusterVars, proxyVars
<1>8. ASSUME NEW a \in Attempts, NEW k \in Ids, NEW parsed \in BOOLEAN,
             LaunchRefused(a, k) \/ LaunchYarn(a, k) \/ LaunchConductor(a, k, parsed)
      PROVE  SameName'
  BY <1>3, <1>8 DEF LaunchRefused, LaunchYarn, LaunchConductor, Launch!Begin, clusterVars, proxyVars
<1>9. ASSUME NEW a \in Attempts, NEW reach \in BOOLEAN,
             \/ RoundWaits(a, reach) \/ RoundIdle(a, reach) \/ RoundFails(a, reach)
             \/ HandleTimeout(a, reach) \/ Poll(a, reach)
      PROVE  SameName'
  <2>1. id' = id /\ \E ignore \in BOOLEAN : Remember(a, reach, ignore)
    BY <1>9 DEF RoundWaits, RoundIdle, RoundFails, HandleTimeout, Poll, Launch!Fail, launchVars
  <2> QED BY <2>1, RememberName
<1>10. ASSUME NEW a \in Attempts, NEW reach \in BOOLEAN, NEW left \in {"gone", "posted"},
              ReceiveFails(a, reach, left) \/ KillReturns(a, reach, left)
       PROVE  SameName'
  <2>1. id' = id /\ Remember(a, reach, FALSE) /\ FALSE \in BOOLEAN
    BY <1>10 DEF ReceiveFails, KillReturns, Launch!Fail
  <2> QED BY <2>1, RememberName
<1>11. ASSUME NEW a \in Attempts, NEW reach \in BOOLEAN, NEW left \in {"gone", "posted"},
              StopByKill(a, reach, left)
       PROVE  SameName'
  BY <1>2, <1>11 DEF StopByKill, Launch!Stop
<1> QED BY <1>4, <1>5, <1>6, <1>7, <1>8, <1>9, <1>10, <1>11 DEF Next

\* What a step may kill.
Spares ==
    \A b \in Attempts : app[b] \in Live /\ app'[b] = "KILLED" =>
        \E a \in Attempts : /\ status'[a] # status[a] /\ id[a] = id[b]
                            /\ a = b \/ Position(b) > since[a]

\* kill() ends the application it has found, and that one only.
LEMMA KillSpares ==
    ASSUME ClusterInv, SameName, NEW a \in Attempts, NEW reach \in BOOLEAN,
           NEW left \in {"gone", "posted"}, Kill(a, KillTarget(a, reach), reach, left),
           status'[a] # status[a]
    PROVE  Spares
<1> SUFFICES ASSUME NEW b \in Attempts, app[b] \in Live, app'[b] = "KILLED"
             PROVE  id[a] = id[b] /\ (a = b \/ Position(b) > since[a])
  BY DEF Spares
<1>1. b = KillTarget(a, reach)
  <2>1. EndApps(IF reach THEN {KillTarget(a, reach)} ELSE {}, "KILLED")
    BY DEF Kill
  <2>2. b \in IF reach THEN {KillTarget(a, reach)} ELSE {}
    BY <2>1 DEF EndApps, Live
  <2> QED BY <2>2
<1>2. CASE kind = "yarn"
  <2>1. b = GetApplicationId(a, reach, FALSE) /\ FALSE \in BOOLEAN
    BY <1>1, <1>2 DEF KillTarget
  <2>2. b # None
    BY ClusterAssumption
  <2>3. id[b] = id[a]
    BY <2>1, <2>2, FoundByName
  <2>4. b # a => Position(b) > since[a]
    BY <2>1, <2>2, IdFacts
  <2> QED BY <2>3, <2>4
<1>3. CASE kind # "yarn"
  <2>1. b = a
    BY <1>1, <1>3, ClusterAssumption DEF KillTarget
  <2> QED BY <2>1
<1> QED BY <1>2, <1>3

\* No other step kills.
LEMMA StepSpares == ClusterInv /\ SameName /\ [Next]_vars => Spares
<1> SUFFICES ASSUME ClusterInv, SameName, [Next]_vars PROVE Spares
  OBVIOUS
<1>0. app \in [Attempts -> AppStates] /\ status \in [Attempts -> {"idle", "launching", "ready", "failed", "stopped"}]
  BY DEF ClusterInv, Typed, TypeOK
<1>1. CASE app' = app
  BY <1>1 DEF Spares, Live
<1>2. ASSUME NEW a \in Attempts, NEW state \in {"ACCEPTED", "RUNNING", "FAILED"},
             app' = [app EXCEPT ![a] = state]
      PROVE  Spares
  BY <1>0, <1>2 DEF Spares, Live
<1>3. CASE UNCHANGED vars
  BY <1>1, <1>3 DEF vars, clusterVars, rmVars
<1>4. ASSUME NEW a \in Attempts, Submit(a) \/ AppRuns(a) \/ AppFails(a)
      PROVE  Spares
  BY <1>2, <1>4 DEF Submit, AppRuns, AppFails
<1>5. ASSUME NEW a \in Attempts, SubmitterFails(a) \/ ReceiveTimesOut(a) \/ Revive(a)
      PROVE  Spares
  BY <1>1, <1>5 DEF SubmitterFails, ReceiveTimesOut, Revive, clusterVars, rmVars
<1>6. ASSUME NEW a \in Attempts, StopGracefully(a)
      PROVE  Spares
  BY <1>0, <1>6 DEF StopGracefully, EndApps, Spares, Live
<1>7. ASSUME NEW a \in Attempts, NEW p \in Attempts, ReceiveInfo(a, p)
      PROVE  Spares
  BY <1>1, <1>7 DEF ReceiveInfo, clusterVars, rmVars
<1>8. ASSUME NEW a \in Attempts, NEW k \in Ids, NEW parsed \in BOOLEAN,
             LaunchRefused(a, k) \/ LaunchYarn(a, k) \/ LaunchConductor(a, k, parsed)
      PROVE  Spares
  BY <1>1, <1>2, <1>8 DEF LaunchRefused, LaunchYarn, LaunchConductor, clusterVars, rmVars
<1>9. ASSUME NEW a \in Attempts, NEW reach \in BOOLEAN,
             \/ RoundWaits(a, reach) \/ RoundIdle(a, reach) \/ RoundFails(a, reach)
             \/ HandleTimeout(a, reach) \/ Poll(a, reach)
      PROVE  Spares
  BY <1>1, <1>9 DEF RoundWaits, RoundIdle, RoundFails, HandleTimeout, Poll, rmVars
<1>10. ASSUME NEW a \in Attempts, NEW reach \in BOOLEAN, NEW left \in {"gone", "posted"},
              \/ ReceiveFails(a, reach, left) \/ KillReturns(a, reach, left)
              \/ StopByKill(a, reach, left)
       PROVE  Spares
  <2>1. Kill(a, KillTarget(a, reach), reach, left)
    BY <1>10 DEF ReceiveFails, KillReturns, StopByKill
  <2>2. status'[a] # status[a]
    BY <1>0, <1>10 DEF ReceiveFails, KillReturns, StopByKill, Launch!Fail, Launch!Stop
  <2> QED BY <2>1, <2>2, KillSpares
<1> QED BY <1>3, <1>4, <1>5, <1>6, <1>7, <1>8, <1>9, <1>10 DEF Next

\* kill() through the resource manager ends only the application of its own launch or kernel,
\* or one that was submitted under the same id after it began (_query_app_by_name finds it
\* by name, among the applications started since start_time).
THEOREM OverlappingKilledOnly == Spec => KillsOwnOrOverlapping
<1>1. Init => ClusterInv /\ SameName
  <2>1. Init => SameName
    BY DEF Init, SameName
  <2> QED BY <2>1, ClusterInitInv
<1>2. ClusterInv /\ SameName /\ [Next]_vars => (ClusterInv /\ SameName)'
  BY ClusterStepInv, NameStep
<1>3. ClusterInv /\ SameName /\ [Next]_vars => [Spares]_vars
  BY StepSpares
<1>4. [][Spares]_vars => KillsOwnOrOverlapping
  <2>1. [Spares]_vars => [\A b \in Attempts : app[b] \in Live /\ app'[b] = "KILLED" =>
          \E a \in Attempts : /\ status'[a] # status[a] /\ id[a] = id[b]
                              /\ a = b \/ Position(b) > since[a]]_vars
    BY DEF Spares
  <2> QED BY <2>1, PTL DEF KillsOwnOrOverlapping
<1> QED BY <1>1, <1>2, <1>3, <1>4, PTL DEF Spec
=============================================================================
