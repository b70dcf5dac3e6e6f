-------------------------- MODULE DistributedProofs --------------------------
(***************************************************************************)
(* Proofs about DistributedProcessProxy, for any number of launches, ids,  *)
(* hosts and kernelspecs.  The first part is about the steps of a launch   *)
(* (RemoteProcessProxy) on their own, one lemma per step; the second       *)
(* composes them and adds the table of hosts.                              *)
(***************************************************************************)
EXTENDS DistributedProcessProxy, SequenceTheorems, FiniteSetTheorems, TLAPS

\* a's connection information is on its way to the response socket's handler
Sent(a) == \E i \in 1..Len(backlog) : backlog[i].from = a
\* it is in no place at all
Unheard(a) ==
    /\ ~Sent(a)
    /\ \A e \in Attempts : response[e] # a
    /\ \A b \in Attempts : info[b] # a

\* An attempt that has not begun has left no trace; one that has begun has its id; what is
\* registered, answered or handed over under an id belongs to attempts with that id.
Links ==
    /\ \A a \in Attempts : pc[a] = "new" =>
          /\ Unheard(a) /\ response[a] = None /\ info[a] = None
          /\ proc[a] # "starting" /\ \A k \in Ids : registry[k] # a
    /\ \A a \in Attempts : pc[a] # "new" => kid[a] \in Ids
    /\ \A k \in Ids : registry[k] # None => kid[registry[k]] = k
    /\ \A e \in Attempts : response[e] # None => kid[response[e]] = kid[e]
    /\ \A a \in Attempts : info[a] # None => kid[info[a]] = kid[a]

\* A launcher sends once, and its answer is in one place: in the backlog, in one Response
\* object, or, once it has been handed over, in an object that is out of the registry.
OnePlace ==
    /\ \A a \in Attempts : proc[a] = "starting" => Unheard(a)
    /\ \A i, j \in 1..Len(backlog) : backlog[i].from = backlog[j].from => i = j
    /\ \A i \in 1..Len(backlog) :
          /\ \A e \in Attempts : response[e] # backlog[i].from
          /\ \A b \in Attempts : info[b] # backlog[i].from
    /\ \A e, f \in Attempts : response[e] # None /\ response[e] = response[f] => e = f
    /\ \A b, e \in Attempts : info[b] # None /\ response[e] = info[b] =>
          \A k \in Ids : registry[k] # e

LaunchInv == LaunchTypeOK /\ Links /\ OnePlace /\ NoSharedKernel

Message == [from : Attempts, ok : BOOLEAN]

\* The initial state satisfies it.
LEMMA LaunchInitInv == LaunchInit => LaunchInv
<1> SUFFICES ASSUME LaunchInit PROVE LaunchInv
  OBVIOUS
<1> USE LaunchAssumption DEF LaunchInit
<1>1. LaunchTypeOK
  <2>1. 0 \in 0..MaxTries /\ <<>> \in Seq([from : Attempts, ok : BOOLEAN])
    BY EmptySeq
  <2> QED BY <2>1 DEF LaunchTypeOK, PC
<1>2. Links /\ OnePlace /\ NoSharedKernel
  BY DEF Links, OnePlace, NoSharedKernel, Unheard, Sent
<1> QED BY <1>1, <1>2 DEF LaunchInv

\* It depends on the variables of a launch only.
LEMMA LaunchUnchanged == LaunchInv /\ UNCHANGED launchVars => LaunchInv'
<1> SUFFICES ASSUME LaunchInv, UNCHANGED launchVars PROVE LaunchInv'
  OBVIOUS
<1> USE DEF launchVars
<1>1. LaunchTypeOK'
  BY DEF LaunchInv, LaunchTypeOK
<1>2. Links' /\ OnePlace' /\ NoSharedKernel'
  BY DEF LaunchInv, Links, OnePlace, NoSharedKernel, Unheard, Sent
<1> QED BY <1>1, <1>2 DEF LaunchInv

\* The senders in the backlog are attempts that have begun.
LEMMA BacklogFacts ==
    ASSUME LaunchInv
    PROVE  \A i \in 1..Len(backlog) : /\ backlog[i].from \in Attempts
                                      /\ pc[backlog[i].from] # "new"
<1>1. \A i \in 1..Len(backlog) : backlog[i] \in Message
  BY ElementOfSeq DEF LaunchInv, LaunchTypeOK, Message
<1>2. \A i \in 1..Len(backlog) : backlog[i].from \in Attempts
  BY <1>1 DEF Message
<1>3. ASSUME NEW i \in 1..Len(backlog) PROVE pc[backlog[i].from] # "new"
  <2>1. Sent(backlog[i].from)
    BY DEF Sent
  <2> QED BY <1>2, <2>1 DEF LaunchInv, Links, Unheard
<1> QED BY <1>2, <1>3

\* Steps that leave the registry, the answers and the backlog alone, begin nothing and
\* start no process.
LEMMA QuietStep ==
    ASSUME LaunchInv, LaunchTypeOK', kid' = kid, registry' = registry, response' = response,
           info' = info, backlog' = backlog,
           \A a \in Attempts : pc'[a] = "new" <=> pc[a] = "new",
           \A a \in Attempts : proc'[a] = "starting" => proc[a] = "starting"
    PROVE  LaunchInv'
<1>1. Links'
  BY DEF LaunchInv, Links, Unheard, Sent
<1>2. OnePlace'
  BY DEF LaunchInv, OnePlace, Unheard, Sent
<1>3. NoSharedKernel'
  BY DEF LaunchInv, NoSharedKernel
<1> QED BY <1>1, <1>2, <1>3 DEF LaunchInv

\* A launch that begins, or fails at once: its fresh Response object replaces the entry of
\* its id.
LEMMA BeginStep ==
    ASSUME LaunchInv, NEW a \in Attempts, NEW k \in Ids, pc[a] = "new", LaunchTypeOK',
           RegisterEvent(a, k), kid' = [kid EXCEPT ![a] = k],
           pc'[a] # "new", \A b \in Attempts : b # a => pc'[b] = pc[b] /\ proc'[b] = proc[b],
           response' = response, info' = info, backlog' = backlog
    PROVE  LaunchInv'
<1>0. /\ Unheard(a) /\ response[a] = None /\ info[a] = None /\ \A j \in Ids : registry[j] # a
      /\ kid \in [Attempts -> Ids \cup {None}] /\ registry \in [Ids -> Attempts \cup {None}]
      /\ response \in [Attempts -> Attempts \cup {None}]
      /\ info \in [Attempts -> Attempts \cup {None}]
  BY DEF LaunchInv, Links, LaunchTypeOK
<1>1. /\ kid'[a] = k /\ \A b \in Attempts : b # a => kid'[b] = kid[b]
      /\ registry'[k] = a /\ \A j \in Ids : j # k => registry'[j] = registry[j]
  BY <1>0 DEF RegisterEvent
<1>a. \A b \in Attempts : Unheard(b) => Unheard(b)'
  BY DEF Unheard, Sent
<1>b. a # None
  BY LaunchAssumption
<1>2. Links'
  <2>1. \A b \in Attempts : pc'[b] = "new" =>
          /\ Unheard(b)' /\ response'[b] = None /\ info'[b] = None
          /\ proc'[b] # "starting" /\ \A j \in Ids : registry'[j] # b
    BY <1>1, <1>a DEF LaunchInv, Links
  <2>2. \A b \in Attempts : pc'[b] # "new" => kid'[b] \in Ids
    BY <1>1 DEF LaunchInv, Links
  <2>3. \A j \in Ids : registry'[j] # None => kid'[registry'[j]] = j
    BY <1>0, <1>1 DEF LaunchInv, Links
  <2>4. \A e \in Attempts : response'[e] # None => kid'[response'[e]] = kid'[e]
    BY <1>0, <1>1 DEF LaunchInv, Links, Unheard
  <2>5. \A b \in Attempts : info'[b] # None => kid'[info'[b]] = kid'[b]
    BY <1>0, <1>1 DEF LaunchInv, Links, Unheard
  <2> QED BY <2>1, <2>2, <2>3, <2>4, <2>5 DEF Links
<1>3. OnePlace'
  <2>1. \A b \in Attempts : proc'[b] = "starting" => Unheard(b)'
    BY <1>0, <1>a DEF LaunchInv, OnePlace
  <2>2. \A b, e \in Attempts : info'[b] # None /\ response'[e] = info'[b] =>
          \A j \in Ids : registry'[j] # e
    BY <1>0, <1>1 DEF LaunchInv, OnePlace
  <2> QED BY <2>1, <2>2 DEF LaunchInv, OnePlace
<1>4. NoSharedKernel'
  BY DEF LaunchInv, NoSharedKernel
<1> QED BY <1>2, <1>3, <1>4 DEF LaunchInv

\* BeginLaunch and BeginFails, the start of launch_process.
LEMMA BeginLaunchInv ==
    ASSUME LaunchInv, NEW a \in Attempts, NEW k \in Ids,
           \/ \E waited \in 0..MaxTries : BeginLaunch(a, k, waited)
           \/ \E left \in {"none", "starting"} : BeginFails(a, k, left)
    PROVE  LaunchInv'
<1>1. pc[a] = "new"
  BY DEF BeginLaunch, BeginFails, Startable
<1>2. LaunchTypeOK'
  <2>1. ASSUME NEW waited \in 0..MaxTries, BeginLaunch(a, k, waited)
        PROVE  LaunchTypeOK'
    BY <2>1 DEF LaunchInv, LaunchTypeOK, PC, BeginLaunch, RegisterEvent
  <2>2. ASSUME NEW left \in {"none", "starting"}, BeginFails(a, k, left)
        PROVE  LaunchTypeOK'
    BY <2>2 DEF LaunchInv, LaunchTypeOK, PC, BeginFails, RegisterEvent
  <2> QED BY <2>1, <2>2
<1>3. /\ RegisterEvent(a, k) /\ kid' = [kid EXCEPT ![a] = k]
      /\ response' = response /\ info' = info /\ backlog' = backlog
  BY DEF BeginLaunch, BeginFails
<1>4. /\ pc'[a] # "new"
      /\ \A b \in Attempts : b # a => pc'[b] = pc[b] /\ proc'[b] = proc[b]
  BY DEF BeginLaunch, BeginFails, LaunchInv, LaunchTypeOK
<1> QED BY <1>1, <1>2, <1>3, <1>4, BeginStep

\* Respond: what a launcher sends was nowhere before.
LEMMA RespondInv ==
    ASSUME LaunchInv, NEW a \in Attempts, NEW ok \in BOOLEAN, Respond(a, ok)
    PROVE  LaunchInv'
<1> DEFINE m == [from |-> a, ok |-> ok]
           n == Len(backlog) + 1
<1>0. /\ proc[a] = "starting" /\ proc' = [proc EXCEPT ![a] = "running"]
      /\ backlog' = Append(backlog, m)
      /\ pc' = pc /\ kid' = kid /\ tries' = tries /\ registry' = registry
      /\ response' = response /\ waitOn' = waitOn /\ info' = info /\ hung' = hung
  BY DEF Respond
<1>1. m \in Message /\ backlog \in Seq(Message)
  BY DEF Message, LaunchInv, LaunchTypeOK
<1>2. backlog' \in Seq(Message) /\ Len(backlog') = n
  BY <1>0, <1>1, AppendProperties
<1>3. /\ \A i \in 1..Len(backlog) : backlog'[i] = backlog[i] /\ i \in 1..Len(backlog')
      /\ n \in 1..Len(backlog') /\ backlog'[n].from = a
      /\ \A i \in 1..Len(backlog') : i = n \/ i \in 1..Len(backlog)
  BY <1>0, <1>1, <1>2, AppendProperties, LenProperties
<1> HIDE DEF m, n
<1>4. Unheard(a) /\ pc[a] # "new"
  BY <1>0 DEF LaunchInv, OnePlace, Links
<1>5. \A b \in Attempts : b # a => (Unheard(b) => Unheard(b)')
  BY <1>0, <1>3 DEF Unheard, Sent
<1>6. /\ \A b \in Attempts : b # a => proc'[b] = proc[b]
      /\ proc'[a] = "running"
  BY <1>0 DEF LaunchInv, LaunchTypeOK
<1>7. LaunchTypeOK'
  BY <1>0, <1>2 DEF LaunchInv, LaunchTypeOK, Message
<1>8. Links'
  BY <1>0, <1>4, <1>5, <1>6 DEF LaunchInv, Links
<1>9. OnePlace'
  <2>1. \A b \in Attempts : proc'[b] = "starting" => Unheard(b)'
    BY <1>5, <1>6 DEF LaunchInv, OnePlace
  <2>2. \A i, j \in 1..Len(backlog') : backlog'[i].from = backlog'[j].from => i = j
    <3>1. \A i \in 1..Len(backlog) : backlog[i].from # a
      BY <1>4 DEF Unheard, Sent
    <3> QED BY <1>3, <3>1 DEF LaunchInv, OnePlace
  <2>3. \A i \in 1..Len(backlog') :
          /\ \A e \in Attempts : response'[e] # backlog'[i].from
          /\ \A b \in Attempts : info'[b] # backlog'[i].from
    BY <1>0, <1>3, <1>4 DEF LaunchInv, OnePlace, Unheard
  <2>4. (\A e, f \in Attempts : response[e] # None /\ response[e] = response[f] => e = f)'
    BY <1>0 DEF LaunchInv, OnePlace
  <2>5. (\A b, e \in Attempts : info[b] # None /\ response[e] = info[b] =>
            \A k \in Ids : registry[k] # e)'
    BY <1>0 DEF LaunchInv, OnePlace
  <2> QED BY <2>1, <2>2, <2>3, <2>4, <2>5 DEF OnePlace
<1>10. NoSharedKernel'
  BY <1>0 DEF LaunchInv, NoSharedKernel
<1> QED BY <1>7, <1>8, <1>9, <1>10 DEF LaunchInv

\* ProcessConnection: the answer moves from the backlog to the object registered for its
\* sender's id, or nowhere.
LEMMA ProcessConnectionInv ==
    ASSUME LaunchInv, ProcessConnection
    PROVE  LaunchInv'
<1> DEFINE m == Head(backlog)
           s == m.from
           entry == registry[kid[s]]
<1>0. /\ backlog # <<>> /\ backlog' = Tail(backlog)
      /\ response' = IF m.ok /\ entry # None THEN [response EXCEPT ![entry] = s] ELSE response
      /\ pc' = pc /\ kid' = kid /\ tries' = tries /\ registry' = registry
      /\ proc' = proc /\ waitOn' = waitOn /\ info' = info /\ hung' = hung
  BY DEF ProcessConnection
<1>1. backlog \in Seq(Message)
  BY DEF Message, LaunchInv, LaunchTypeOK
<1>2. /\ backlog' \in Seq(Message) /\ m = backlog[1] /\ 1 \in 1..Len(backlog)
      /\ \A i \in 1..Len(backlog') :
            i + 1 \in 1..Len(backlog) /\ i + 1 # 1 /\ backlog'[i] = backlog[i + 1]
  BY <1>0, <1>1, HeadTailProperties, LenProperties
<1>3. s \in Attempts /\ pc[s] # "new" /\ kid[s] \in Ids
  BY <1>2, BacklogFacts DEF LaunchInv, Links
<1>4. /\ \A e \in Attempts : response[e] # s
      /\ \A b \in Attempts : info[b] # s
      /\ \A i \in 1..Len(backlog') : backlog'[i].from # s
  <2>1. \A i \in 1..Len(backlog) : i # 1 => backlog[i].from # s
    BY <1>2 DEF LaunchInv, OnePlace
  <2>2. \A i \in 1..Len(backlog') : backlog'[i].from # s
    BY <1>2, <2>1
  <2> QED BY <1>2, <2>2 DEF LaunchInv, OnePlace
<1> HIDE DEF m, s, entry
<1>5. /\ registry \in [Ids -> Attempts \cup {None}] /\ kid \in [Attempts -> Ids \cup {None}]
      /\ response \in [Attempts -> Attempts \cup {None}]
      /\ None \notin Attempts
  BY LaunchAssumption DEF LaunchInv, LaunchTypeOK
<1>6. \/ response' = response
      \/ /\ entry \in Attempts /\ response' = [response EXCEPT ![entry] = s]
         /\ kid[entry] = kid[s] /\ registry[kid[s]] = entry /\ pc[entry] # "new"
  BY <1>0, <1>3, <1>5 DEF entry, LaunchInv, Links
<1>7. \A b \in Attempts : b # s => (Unheard(b) => Unheard(b)')
  <2> SUFFICES ASSUME NEW b \in Attempts, b # s, Unheard(b) PROVE Unheard(b)'
    OBVIOUS
  <2>1. ~Sent(b)'
    BY <1>2 DEF Unheard, Sent
  <2>2. \A e \in Attempts : response'[e] # b
    BY <1>5, <1>6 DEF Unheard
  <2> QED BY <1>0, <2>1, <2>2 DEF Unheard
<1>8. LaunchTypeOK'
  BY <1>0, <1>2, <1>3, <1>6 DEF LaunchInv, LaunchTypeOK, Message
<1>9. Links'
  <2>1. (\A a \in Attempts : pc[a] = "new" =>
          /\ Unheard(a) /\ response[a] = None /\ info[a] = None
          /\ proc[a] # "starting" /\ \A k \in Ids : registry[k] # a)'
    BY <1>0, <1>3, <1>5, <1>6, <1>7 DEF LaunchInv, Links
  <2>2. (\A e \in Attempts : response[e] # None => kid[response[e]] = kid[e])'
    BY <1>0, <1>3, <1>5, <1>6 DEF LaunchInv, Links
  <2> QED BY <1>0, <2>1, <2>2 DEF LaunchInv, Links
<1>10. OnePlace'
  <2>1. \A b \in Attempts : proc'[b] = "starting" => Unheard(b)'
    <3>1. ~Unheard(s)
      BY <1>2 DEF Unheard, Sent, s
    <3> QED BY <1>0, <1>7, <3>1 DEF LaunchInv, OnePlace
  <2>2. \A i, j \in 1..Len(backlog') : backlog'[i].from = backlog'[j].from => i = j
    <3> SUFFICES ASSUME NEW i \in 1..Len(backlog'), NEW j \in 1..Len(backlog'),
                        backlog'[i].from = backlog'[j].from
                 PROVE  i = j
      OBVIOUS
    <3>0. /\ i + 1 \in 1..Len(backlog) /\ j + 1 \in 1..Len(backlog)
          /\ backlog[i + 1].from = backlog[j + 1].from
      BY <1>2
    <3>1. i + 1 = j + 1
      BY <3>0, Zenon DEF LaunchInv, OnePlace
    <3>2. i \in Int /\ j \in Int
      OBVIOUS
    <3> QED BY <3>1, <3>2
  <2>3. \A i \in 1..Len(backlog') :
          /\ \A e \in Attempts : response'[e] # backlog'[i].from
          /\ \A b \in Attempts : info'[b] # backlog'[i].from
    <3> SUFFICES ASSUME NEW i \in 1..Len(backlog')
                 PROVE  /\ \A e \in Attempts : response'[e] # backlog'[i].from
                        /\ \A b \in Attempts : info'[b] # backlog'[i].from
      OBVIOUS
    <3>1. /\ backlog'[i].from # s
          /\ \A e \in Attempts : response[e] # backlog'[i].from
          /\ \A b \in Attempts : info[b] # backlog'[i].from
      BY <1>2, <1>4 DEF LaunchInv, OnePlace
    <3> QED BY <1>0, <1>5, <1>6, <3>1
  <2>4. (\A e, f \in Attempts : response[e] # None /\ response[e] = response[f] => e = f)'
    BY <1>4, <1>5, <1>6 DEF LaunchInv, OnePlace
  <2>5. (\A b, e \in Attempts : info[b] # None /\ response[e] = info[b] =>
            \A k \in Ids : registry[k] # e)'
    BY <1>0, <1>4, <1>5, <1>6 DEF LaunchInv, OnePlace
  <2> QED BY <2>1, <2>2, <2>3, <2>4, <2>5 DEF OnePlace
<1>11. NoSharedKernel'
  BY <1>0 DEF LaunchInv, NoSharedKernel
<1> QED BY <1>8, <1>9, <1>10, <1>11 DEF LaunchInv

\* WakeUp: the entry is popped, and its answer, if it has one, is handed over; no launch
\* has been given that answer, and the object is out of the registry for good.
LEMMA WakeUpInv ==
    ASSUME LaunchInv, NEW a \in Attempts, NEW ok \in BOOLEAN, NEW hit, WakeUp(a, ok, hit)
    PROVE  LaunchInv'
<1> DEFINE k == kid[a]
           entry == registry[k]
<1>0. /\ pc[a] = "wait" /\ registry' = [registry EXCEPT ![k] = None]
      /\ kid' = kid /\ tries' = tries /\ response' = response /\ backlog' = backlog
      /\ hung' = hung /\ waitOn' = [waitOn EXCEPT ![a] = None]
  BY DEF WakeUp, TakeEntry, Abort
<1>1. \/ /\ entry # None /\ response[entry] # None /\ pc' = [pc EXCEPT ![a] = "ready"]
         /\ info' = [info EXCEPT ![a] = response[entry]] /\ proc' = proc
      \/ /\ pc' = [pc EXCEPT ![a] = "failed"] /\ info' = info
         /\ proc' = [b \in Attempts |-> IF b \in hit THEN "dead" ELSE proc[b]]
  BY DEF WakeUp, Abort, EndProcesses
<1>2. /\ pc \in [Attempts -> PC] /\ registry \in [Ids -> Attempts \cup {None}]
      /\ response \in [Attempts -> Attempts \cup {None}]
      /\ info \in [Attempts -> Attempts \cup {None}]
      /\ proc \in [Attempts -> {"none", "starting", "running", "dead"}]
      /\ None \notin Attempts /\ k \in Ids
  BY <1>0, LaunchAssumption DEF LaunchInv, LaunchTypeOK, Links
<1> HIDE DEF k, entry
<1>3. entry \in Attempts \cup {None} /\ registry[k] = entry
  BY <1>2 DEF entry
<1>4. entry # None => kid[entry] = k
  BY <1>2 DEF LaunchInv, Links, entry
<1>5. /\ \A b \in Attempts : pc'[b] = "new" => pc[b] = "new"
      /\ \A b \in Attempts : pc'[b] = "new" <=> pc[b] = "new"
      /\ \A b \in Attempts : proc'[b] = "starting" => proc[b] = "starting"
  BY <1>0, <1>1, <1>2
<1>6. \/ info' = info
      \/ /\ entry # None /\ response[entry] # None /\ response[entry] \in Attempts
         /\ info' = [info EXCEPT ![a] = response[entry]]
  BY <1>1, <1>2, <1>3
<1>7. /\ registry'[k] = None /\ \A j \in Ids : j # k => registry'[j] = registry[j]
      /\ \A j \in Ids : registry'[j] # None => registry'[j] = registry[j] /\ j # k
  BY <1>0, <1>2
<1>8. \A b \in Attempts : (\A e \in Attempts : response[e] # b) => (Unheard(b) => Unheard(b)')
  BY <1>0, <1>2, <1>3, <1>6 DEF Unheard, Sent
<1>9. \A b \in Attempts : Unheard(b) => Unheard(b)'
  BY <1>8 DEF Unheard
<1>10. LaunchTypeOK'
  <2>1. pc' \in [Attempts -> PC] /\ info' \in [Attempts -> Attempts \cup {None}]
    BY <1>1, <1>2, <1>6 DEF PC
  <2>2. proc' \in [Attempts -> {"none", "starting", "running", "dead"}]
    BY <1>1, <1>2
  <2>3. registry' \in [Ids -> Attempts \cup {None}]
    BY <1>0, <1>2
  <2> QED BY <1>0, <2>1, <2>2, <2>3 DEF LaunchInv, LaunchTypeOK
<1>11. Links'
  <2>1. (\A b \in Attempts : pc[b] = "new" =>
          /\ Unheard(b) /\ response[b] = None /\ info[b] = None
          /\ proc[b] # "starting" /\ \A j \in Ids : registry[j] # b)'
    <3> SUFFICES ASSUME NEW b \in Attempts, pc'[b] = "new"
                 PROVE  /\ Unheard(b)' /\ response'[b] = None /\ info'[b] = None
                        /\ proc'[b] # "starting" /\ \A j \in Ids : registry'[j] # b
      OBVIOUS
    <3>1. pc[b] = "new" /\ b # a
      BY <1>0, <1>5
    <3>2. info'[b] = info[b]
      BY <1>2, <1>6, <3>1
    <3> QED BY <1>0, <1>2, <1>5, <1>7, <1>9, <3>1, <3>2 DEF LaunchInv, Links
  <2>2. (\A b \in Attempts : pc[b] # "new" => kid[b] \in Ids)'
    BY <1>0, <1>5 DEF LaunchInv, Links
  <2>3. (\A j \in Ids : registry[j] # None => kid[registry[j]] = j)'
    BY <1>0, <1>7 DEF LaunchInv, Links
  <2>4. (\A e \in Attempts : response[e] # None => kid[response[e]] = kid[e])'
    BY <1>0 DEF LaunchInv, Links
  <2>5. (\A b \in Attempts : info[b] # None => kid[info[b]] = kid[b])'
    BY <1>0, <1>2, <1>3, <1>4, <1>6 DEF LaunchInv, Links, k
  <2> QED BY <2>1, <2>2, <2>3, <2>4, <2>5 DEF Links
<1>12. OnePlace'
  <2>1. (\A b \in Attempts : proc[b] = "starting" => Unheard(b))'
    BY <1>5, <1>9 DEF LaunchInv, OnePlace
  <2>2. (\A i \in 1..Len(backlog) :
          /\ \A e \in Attempts : response[e] # backlog[i].from
          /\ \A b \in Attempts : info[b] # backlog[i].from)'
    BY <1>0, <1>2, <1>3, <1>6 DEF LaunchInv, OnePlace
  <2>3. (\A b, e \in Attempts : info[b] # None /\ response[e] = info[b] =>
            \A j \in Ids : registry[j] # e)'
    <3> SUFFICES ASSUME NEW b \in Attempts, NEW e \in Attempts, info'[b] # None,
                        response[e] = info'[b], NEW j \in Ids, registry'[j] = e
                 PROVE  FALSE
      BY <1>0
    <3>1. registry[j] = e /\ j # k
      BY <1>2, <1>7
    <3>2. CASE info'[b] = info[b]
      BY <3>1, <3>2 DEF LaunchInv, OnePlace
    <3>3. CASE info'[b] # info[b]
      <4>1. entry # None /\ response[entry] # None /\ info'[b] = response[entry]
        BY <1>2, <1>6, <3>3
      <4>2. e = entry
        BY <1>3, <4>1 DEF LaunchInv, OnePlace
      <4>3. kid[e] = j
        BY <1>2, <3>1 DEF LaunchInv, Links
      <4> QED BY <1>4, <3>1, <4>1, <4>2, <4>3
    <3> QED BY <3>2, <3>3
  <2> QED BY <1>0, <2>1, <2>2, <2>3 DEF LaunchInv, OnePlace
<1>13. NoSharedKernel'
  <2>1. entry # None /\ response[entry] # None => \A b \in Attempts : info[b] # response[entry]
    BY <1>2, <1>3 DEF LaunchInv, OnePlace
  <2> QED BY <1>2, <1>3, <1>6, <2>1 DEF LaunchInv, NoSharedKernel
<1> QED BY <1>10, <1>11, <1>12, <1>13 DEF LaunchInv

\* The steps that only move the coroutine on, or end processes.
LEMMA OtherStepsInv ==
    ASSUME LaunchInv, NEW a \in Attempts, NEW hit,
           \/ ProcessExits(a) \/ StartWaiting(a, hit) \/ WaitTimesOut(a)
           \/ HandleTimeout(a) \/ KillReturns(a, hit) \/ StopKernel(a, hit)
    PROVE  LaunchInv'
<1> USE DEF managerVars
<1>0. /\ pc \in [Attempts -> PC] /\ tries \in [Attempts -> 0..MaxTries] /\ MaxTries \in Nat
      /\ waitOn \in [Attempts -> Attempts \cup {None}]
      /\ proc \in [Attempts -> {"none", "starting", "running", "dead"}]
      /\ registry \in [Ids -> Attempts \cup {None}]
      /\ pc[a] # "new" => kid[a] \in Ids
  BY LaunchAssumption DEF LaunchInv, LaunchTypeOK, Links
<1>1. /\ kid' = kid /\ registry' = registry /\ response' = response /\ info' = info
      /\ backlog' = backlog
  BY DEF ProcessExits, StartWaiting, Abort, WaitTimesOut, HandleTimeout, KillReturns,
     StopKernel
<1>2. proc' \in [Attempts -> {"none", "starting", "running", "dead"}]
  BY <1>0 DEF ProcessExits, StartWaiting, Abort, EndProcesses, WaitTimesOut,
     HandleTimeout, KillReturns, StopKernel
<1>3. \A b \in Attempts : proc'[b] = "starting" => proc[b] = "starting"
  BY <1>0 DEF ProcessExits, StartWaiting, Abort, EndProcesses, WaitTimesOut,
     HandleTimeout, KillReturns, StopKernel
<1>4. /\ pc' \in [Attempts -> PC]
      /\ \A b \in Attempts : pc'[b] = "new" <=> pc[b] = "new"
  BY <1>0 DEF ProcessExits, StartWaiting, Abort, WaitTimesOut, HandleTimeout,
     KillReturns, StopKernel, PC
<1>5. tries' \in [Attempts -> 0..MaxTries] /\ hung' \in BOOLEAN
  <2>1. CASE StartWaiting(a, hit)
    <3>1. hung' = hung /\ (tries' = tries \/ tries' = [tries EXCEPT ![a] = tries[a] + 1])
      BY <2>1 DEF StartWaiting, Abort
    <3>2. tries[a] \in 0..MaxTries /\ tries[a] < MaxTries
      BY <1>0, <2>1 DEF StartWaiting
    <3>3. tries[a] + 1 \in 0..MaxTries
      BY <1>0, <3>2
    <3> QED BY <1>0, <3>1, <3>3 DEF LaunchInv, LaunchTypeOK
  <2>2. CASE ~StartWaiting(a, hit)
    <3>1. tries' = tries /\ hung' = hung
      BY <2>2 DEF ProcessExits, WaitTimesOut, HandleTimeout, KillReturns, StopKernel
    <3> QED BY <1>0, <3>1 DEF LaunchInv, LaunchTypeOK
  <2> QED BY <2>1, <2>2
<1>6. waitOn' \in [Attempts -> Attempts \cup {None}]
  BY <1>0 DEF ProcessExits, StartWaiting, Abort, WaitTimesOut, HandleTimeout,
     KillReturns, StopKernel
<1>7. LaunchTypeOK'
  BY <1>1, <1>2, <1>4, <1>5, <1>6 DEF LaunchInv, LaunchTypeOK
<1> QED BY <1>1, <1>3, <1>4, <1>7, QuietStep

-----------------------------------------------------------------------------
(* The contract of a launch (KernelLaunch), step by step.                  *)

Allowed == Contract!Next \/ UNCHANGED Contract!vars

\* the value of KernelLaunch's status under the refinement mapping
Status == [a \in Attempts |-> CASE pc[a] = "new" -> "idle"
                                [] InProgress(a) -> "launching"
                                [] OTHER -> pc[a]]

\* A launch that has not begun anything maps to the contract's initial state.
LEMMA ContractInit == LaunchInit => Contract!Init
  BY DEF LaunchInit, Contract!Init, InProgress

\* Steps that move the coroutine of a to another place with the same meaning, or none.
LEMMA SilentAllowed ==
    ASSUME kid' = kid, info' = info,
           \A a \in Attempts : pc'[a] = pc[a] \/ (InProgress(a) /\ InProgress(a)')
    PROVE  Allowed
<1>1. Status' = Status
  BY DEF Status, InProgress
<1> QED BY <1>1 DEF Allowed, Contract!vars, Status

\* Begin of the contract.
LEMMA BeginAllowed ==
    ASSUME LaunchInv, NEW a \in Attempts, NEW k \in Ids,
           \/ \E waited \in 0..MaxTries : BeginLaunch(a, k, waited)
           \/ \E left \in {"none", "starting"} : BeginFails(a, k, left)
    PROVE  Allowed
<1>1. /\ pc[a] = "new" /\ kid' = [kid EXCEPT ![a] = k] /\ info' = info
      /\ pc' = [pc EXCEPT ![a] = "sleep"] \/ pc' = [pc EXCEPT ![a] = "failed"]
  BY DEF BeginLaunch, BeginFails, Startable
<1>2. pc \in [Attempts -> PC]
  BY DEF LaunchInv, LaunchTypeOK
<1>3. PICK s \in {"launching", "failed"} : Status' = [Status EXCEPT ![a] = s]
  BY <1>1, <1>2 DEF Status, InProgress
<1>4. Status[a] = "idle"
  BY <1>1 DEF Status, InProgress
<1>5. Contract!Begin(a, k, s)
  BY <1>1, <1>3, <1>4 DEF Contract!Begin, Status
<1> QED BY <1>5 DEF Allowed, Contract!Next

\* Fail of the contract.
LEMMA FailAllowed ==
    ASSUME LaunchInv, NEW a \in Attempts, InProgress(a), pc' = [pc EXCEPT ![a] = "failed"],
           kid' = kid, info' = info
    PROVE  Allowed
<1>1. pc \in [Attempts -> PC]
  BY DEF LaunchInv, LaunchTypeOK
<1>2. Status' = [Status EXCEPT ![a] = "failed"] /\ Status[a] = "launching"
  BY <1>1 DEF Status, InProgress
<1>3. Contract!Fail(a)
  BY <1>2 DEF Contract!Fail, Status
<1> QED BY <1>3 DEF Allowed, Contract!Next

\* Stop of the contract.
LEMMA StopAllowed ==
    ASSUME LaunchInv, NEW a \in Attempts, NEW hit, StopKernel(a, hit)
    PROVE  Allowed
<1>1. /\ pc \in [Attempts -> PC] /\ pc[a] = "ready" /\ pc' = [pc EXCEPT ![a] = "stopped"]
      /\ kid' = kid /\ info' = info
  BY DEF LaunchInv, LaunchTypeOK, StopKernel
<1>2. Status' = [Status EXCEPT ![a] = "stopped"] /\ Status[a] = "ready"
  BY <1>1 DEF Status, InProgress
<1>3. Contract!Stop(a)
  BY <1>1, <1>2 DEF Contract!Stop, Status
<1> QED BY <1>3 DEF Allowed, Contract!Next

\* Succeed of the contract: the answer is that of a launcher begun under the same id, and
\* nobody has it yet.
LEMMA WakeUpAllowed ==
    ASSUME LaunchInv, NEW a \in Attempts, NEW ok \in BOOLEAN, NEW hit, WakeUp(a, ok, hit)
    PROVE  Allowed
<1> DEFINE entry == registry[kid[a]]
           p == response[entry]
<1>0. /\ pc \in [Attempts -> PC] /\ registry \in [Ids -> Attempts \cup {None}]
      /\ response \in [Attempts -> Attempts \cup {None}] /\ None \notin Attempts
      /\ pc[a] = "wait" /\ kid[a] \in Ids /\ kid' = kid
  BY LaunchAssumption DEF LaunchInv, LaunchTypeOK, Links, WakeUp
<1>1. CASE pc' = [pc EXCEPT ![a] = "failed"] /\ info' = info
  BY <1>0, <1>1, FailAllowed DEF InProgress
<1>2. CASE /\ entry # None /\ p # None /\ pc' = [pc EXCEPT ![a] = "ready"]
           /\ info' = [info EXCEPT ![a] = p]
  <2>1. entry \in Attempts /\ p \in Attempts
    BY <1>0, <1>2
  <2>2. kid[entry] = kid[a] /\ kid[p] = kid[a]
    BY <1>0, <1>2, <2>1 DEF LaunchInv, Links
  <2>3. \A b \in Attempts : info[b] # p
    BY <1>0, <1>2, <2>1 DEF LaunchInv, OnePlace
  <2>4. pc[p] # "new"
    BY <2>1 DEF LaunchInv, Links, Unheard
  <2> HIDE DEF p, entry
  <2>5. /\ Status' = [Status EXCEPT ![a] = "ready"] /\ Status[a] = "launching"
        /\ Status[p] # "idle"
    BY <1>0, <1>2, <2>1, <2>4 DEF Status, InProgress, PC
  <2>6. PICK q \in Attempts : q = p
    BY <2>1
  <2>7. Contract!Succeed(a, q)
    BY <1>0, <1>2, <2>2, <2>3, <2>5, <2>6 DEF Contract!Succeed, Status
  <2> QED BY <2>7 DEF Allowed, Contract!Next
<1> QED BY <1>1, <1>2 DEF WakeUp, Abort

\* The steps that only move the coroutine on, or end processes, fail or are silent.
LEMMA OtherStepsAllowed ==
    ASSUME LaunchInv, NEW a \in Attempts, NEW hit,
           \/ \E ok \in BOOLEAN : Respond(a, ok)
           \/ ProcessExits(a) \/ StartWaiting(a, hit) \/ WaitTimesOut(a)
           \/ HandleTimeout(a) \/ KillReturns(a, hit)
    PROVE  Allowed
<1>0. pc \in [Attempts -> PC] /\ kid' = kid /\ info' = info
  BY DEF LaunchInv, LaunchTypeOK, Respond, ProcessExits, StartWaiting,
     Abort, WaitTimesOut, HandleTimeout, KillReturns
<1>1. \/ pc' = pc
      \/ InProgress(a) /\ pc' = [pc EXCEPT ![a] = "failed"]
      \/ InProgress(a) /\ pc' = [pc EXCEPT ![a] = "wait"]
      \/ InProgress(a) /\ pc' = [pc EXCEPT ![a] = "sleep"]
      \/ InProgress(a) /\ pc' = [pc EXCEPT ![a] = "killing"]
  BY DEF InProgress, Respond, ProcessExits, StartWaiting,
     Abort, WaitTimesOut, HandleTimeout, KillReturns
<1>2. CASE InProgress(a) /\ pc' = [pc EXCEPT ![a] = "failed"]
  BY <1>0, <1>2, FailAllowed
<1>3. CASE ~(InProgress(a) /\ pc' = [pc EXCEPT ![a] = "failed"])
  BY <1>0, <1>1, <1>3, SilentAllowed DEF InProgress
<1> QED BY <1>2, <1>3

\* The steps of the response socket's handler.
LEMMA SocketSteps ==
    ASSUME LaunchInv, ProcessConnection \/ Hang
    PROVE  LaunchInv' /\ Allowed
<1>1. Allowed
  BY SilentAllowed DEF ProcessConnection, Hang
<1>2. CASE Hang
  <2>1. /\ LaunchTypeOK' /\ kid' = kid /\ registry' = registry /\ response' = response
        /\ info' = info /\ backlog' = backlog /\ pc' = pc /\ proc' = proc
    BY <1>2 DEF Hang, LaunchInv, LaunchTypeOK
  <2> QED BY <1>1, <2>1, QuietStep
<1> QED BY <1>1, <1>2, ProcessConnectionInv

-----------------------------------------------------------------------------
(* The steps of DistributedProcessProxy *)

\* Every step keeps the invariant of a launch and is one the contract allows.
LEMMA DistributedStep == LaunchInv /\ [Next]_vars => LaunchInv' /\ Allowed
<1> SUFFICES ASSUME LaunchInv, [Next]_vars PROVE LaunchInv' /\ Allowed
  OBVIOUS
<1>1. CASE UNCHANGED vars
  <2>1. UNCHANGED launchVars
    BY <1>1 DEF vars
  <2>2. Allowed
    BY <2>1, SilentAllowed DEF launchVars
  <2> QED BY <2>1, <2>2, LaunchUnchanged
<1>2. CASE LaunchStep
  <2>1. CASE ProcessConnection \/ Hang
    BY <2>1, SocketSteps
  <2>3. ASSUME NEW a \in Attempts, NEW ok \in BOOLEAN, Respond(a, ok)
        PROVE  LaunchInv' /\ Allowed
    BY <2>3, RespondInv, OtherStepsAllowed
  <2>4. ASSUME NEW a \in Attempts, NEW ok \in BOOLEAN, WakeUp(a, ok, {a})
        PROVE  LaunchInv' /\ Allowed
    BY <2>4, WakeUpInv, WakeUpAllowed
  <2>5. ASSUME NEW a \in Attempts,
               \/ ProcessExits(a) \/ StartWaiting(a, {a}) \/ WaitTimesOut(a)
               \/ HandleTimeout(a) \/ KillReturns(a, {a})
        PROVE  LaunchInv' /\ Allowed
    BY <2>5, OtherStepsInv, OtherStepsAllowed
  <2> QED BY <1>2, <2>1, <2>3, <2>4, <2>5 DEF LaunchStep, CommonStep
<1>3. ASSUME NEW a \in Attempts, NEW k \in Ids, NEW list \in HostLists, LaunchRefused(a, k, list)
      PROVE  LaunchInv' /\ Allowed
  BY <1>3, BeginLaunchInv, BeginAllowed DEF LaunchRefused
<1>4. ASSUME NEW a \in Attempts, NEW k \in Ids, NEW list \in HostLists,
             NEW remote \in Hosts \cup {None}, NEW h \in Hosts,
             \/ LaunchProcess(a, k, list, remote, h)
             \/ \E left \in {"none", "starting"} : LaunchRaises(a, k, list, remote, h, left)
      PROVE  LaunchInv' /\ Allowed
  <2>1. 0 \in 0..MaxTries
    BY LaunchAssumption
  <2>2. \/ \E waited \in 0..MaxTries : BeginLaunch(a, k, waited)
        \/ \E left \in {"none", "starting"} : BeginFails(a, k, left)
    BY <1>4, <2>1 DEF LaunchProcess, LaunchRaises
  <2> QED BY <2>2, BeginLaunchInv, BeginAllowed
<1>5. ASSUME NEW a \in Attempts, Cleanup(a)
      PROVE  LaunchInv' /\ Allowed
  BY <1>5, OtherStepsInv, StopAllowed DEF Cleanup
<1> QED BY <1>1, <1>2, <1>3, <1>4, <1>5 DEF Next

\* No two kernels are given the connection information of one launcher (the pop in
\* get_connection_info), for any number of launches that share kernel ids.
THEOREM KernelsApart == Spec => []NoSharedKernel
<1>1. Init => LaunchInv
  BY LaunchInitInv DEF Init
<1>2. LaunchInv /\ [Next]_vars => LaunchInv'
  BY DistributedStep
<1>3. LaunchInv => NoSharedKernel
  BY DEF LaunchInv
<1> QED BY <1>1, <1>2, <1>3, PTL DEF Spec

\* The launch of DistributedProcessProxy (launch_process, confirm_remote_startup,
\* receive_connection_info, handle_timeout) implements KernelLaunch.
THEOREM LaunchRefinement == Spec => LaunchContract
<1>1. Init => LaunchInv /\ Contract!Init
  BY LaunchInitInv, ContractInit DEF Init
<1>2. LaunchInv /\ [Next]_vars => LaunchInv' /\ [Contract!Next]_(Contract!vars)
  BY DistributedStep DEF Allowed
<1> QED BY <1>1, <1>2, PTL DEF Spec, LaunchContract, Contract!Spec

-----------------------------------------------------------------------------
(* The table of TrackKernelOnHost.                                         *)

Mapped(h) == {k \in Ids : kernelHost[k] = h}

\* A host that a kernel is mapped to is a key of the table; without it the counts of a
\* host that is not a key would start over from 0.
TableInv ==
    /\ leastConnection \in BOOLEAN /\ hostIndex \in Nat
    /\ hostKernels \in [Hosts -> Int \cup {Absent}]
    /\ kernelHost \in [Ids -> Hosts \cup {None}]
    /\ \A k \in Ids : kernelHost[k] # None => hostKernels[kernelHost[k]] # Absent
    /\ CountsCover

\* Sets of kernel ids are finite and have a size.
LEMMA IdSets ==
    ASSUME NEW S \in SUBSET Ids
    PROVE  IsFiniteSet(S) /\ Cardinality(S) \in Nat
  BY LaunchAssumption, FS_Subset, FS_CardinalityType

\* init_host_kernels keeps the invariant: it only acts on a table without keys, when no
\* kernel is mapped.
LEMMA InitTable ==
    ASSUME TableInv, NEW list \in HostLists
    PROVE  /\ InitHostKernels(list) \in [Hosts -> Int \cup {Absent}]
           /\ \A k \in Ids : kernelHost[k] # None => InitHostKernels(list)[kernelHost[k]] # Absent
           /\ \A h \in Hosts : InitHostKernels(list)[h] # Absent =>
                 InitHostKernels(list)[h] >= Cardinality(Mapped(h))
<1> DEFINE table == InitHostKernels(list)
<1>1. CASE table = hostKernels
  <2>1. \A h \in Hosts : hostKernels[h] # Absent => hostKernels[h] >= Cardinality(Mapped(h))
    BY DEF TableInv, CountsCover, Keys, Mapped
  <2> QED BY <1>1, <2>1 DEF TableInv
<1>2. CASE Keys(hostKernels) = {} /\ table = [h \in Hosts |-> IF h \in Elements(list) THEN 0 ELSE Absent]
  <2>1. \A k \in Ids : kernelHost[k] = None
    BY <1>2 DEF TableInv, Keys
  <2>2. \A h \in Hosts : Mapped(h) = {}
    BY <2>1, HostAssumption DEF Mapped
  <2>3. \A h \in Hosts : Cardinality(Mapped(h)) = 0
    BY <2>2, FS_EmptySet
  <2> QED BY <1>2, <2>1, <2>3, HostAssumption
<1> QED BY <1>1, <1>2 DEF InitHostKernels

\* add_kernel_id: the count of h grows by one, and no more than one kernel is mapped to it.
LEMMA AddKernel ==
    ASSUME NEW table \in [Hosts -> Int \cup {Absent}], NEW h \in Hosts, NEW k \in Ids, TableInv,
           \A j \in Ids : kernelHost[j] # None => table[kernelHost[j]] # Absent,
           \A g \in Hosts : table[g] # Absent => table[g] >= Cardinality(Mapped(g)),
           hostKernels' = Add(table, h, 1), kernelHost' = [kernelHost EXCEPT ![k] = h],
           leastConnection' = leastConnection, hostIndex' = hostIndex
    PROVE  TableInv'
<1>0. /\ kernelHost \in [Ids -> Hosts \cup {None}] /\ Absent \notin Int
      /\ \A g \in Hosts : /\ Mapped(g) \in SUBSET Ids /\ Cardinality(Mapped(g)) \in Nat
                          /\ IsFiniteSet(Mapped(g)) /\ IsFiniteSet(Mapped(g)')
                          /\ Cardinality(Mapped(g)') \in Nat
  BY HostAssumption, IdSets DEF TableInv, Mapped
<1>1. /\ hostKernels' \in [Hosts -> Int \cup {Absent}]
      /\ hostKernels'[h] \in Int
      /\ hostKernels'[h] = (IF table[h] = Absent THEN 0 ELSE table[h]) + 1
      /\ \A g \in Hosts : g # h => hostKernels'[g] = table[g]
  BY <1>0 DEF Add
<1>2. /\ kernelHost' \in [Ids -> Hosts \cup {None}] /\ kernelHost'[k] = h
      /\ \A j \in Ids : j # k => kernelHost'[j] = kernelHost[j]
  BY <1>0
<1>3. \A j \in Ids : kernelHost'[j] # None => hostKernels'[kernelHost'[j]] # Absent
  BY <1>0, <1>1, <1>2
<1>4. \A g \in Hosts : g # h => Mapped(g)' \subseteq Mapped(g)
  BY <1>2 DEF Mapped
<1>5. Mapped(h)' \subseteq Mapped(h) \cup {k}
  BY <1>2 DEF Mapped
<1>6. ASSUME NEW g \in Hosts, hostKernels'[g] # Absent
      PROVE  hostKernels'[g] >= Cardinality(Mapped(g)')
  <2>1. CASE g # h
    <3>1. Cardinality(Mapped(g)') <= Cardinality(Mapped(g))
      BY <1>0, <1>4, <2>1, FS_Subset
    <3>2. table[g] \in Int /\ hostKernels'[g] = table[g] /\ table[g] >= Cardinality(Mapped(g))
      BY <1>1, <1>6, <2>1
    <3> QED BY <1>0, <3>1, <3>2
  <2>2. CASE g = h
    <3>1. /\ IsFiniteSet(Mapped(h) \cup {k})
          /\ \/ Cardinality(Mapped(h) \cup {k}) = Cardinality(Mapped(h))
             \/ Cardinality(Mapped(h) \cup {k}) = Cardinality(Mapped(h)) + 1
      BY <1>0, FS_AddElement
    <3>2. Cardinality(Mapped(h)') <= Cardinality(Mapped(h) \cup {k})
      BY <1>0, <1>5, <3>1, FS_Subset
    <3>3. table[h] = Absent => Cardinality(Mapped(h)) = 0
      <4>1. table[h] = Absent => Mapped(h) = {}
        BY HostAssumption DEF Mapped
      <4> QED BY <4>1, FS_EmptySet
    <3>4. (IF table[h] = Absent THEN 0 ELSE table[h]) \in Int
      OBVIOUS
    <3>5. (IF table[h] = Absent THEN 0 ELSE table[h]) >= Cardinality(Mapped(h))
      BY <1>0, <3>3
    <3> QED BY <1>0, <1>1, <2>2, <3>1, <3>2, <3>4, <3>5
  <2> QED BY <2>1, <2>2
<1> QED BY <1>1, <1>2, <1>3, <1>6 DEF TableInv, CountsCover, Keys, Mapped

\* delete_kernel_id: the count and the mapping lose the kernel together.
LEMMA DeleteKernel ==
    ASSUME TableInv, NEW k \in Ids, DeleteKernelId(k),
           leastConnection' = leastConnection, hostIndex' = hostIndex
    PROVE  TableInv'
<1>0. /\ kernelHost \in [Ids -> Hosts \cup {None}] /\ Absent \notin Int /\ None \notin Hosts
      /\ hostKernels \in [Hosts -> Int \cup {Absent}]
      /\ \A g \in Hosts : Cardinality(Mapped(g)) \in Nat /\ IsFiniteSet(Mapped(g))
  BY HostAssumption, IdSets DEF TableInv, Mapped
<1>1. CASE kernelHost[k] = None
  <2>1. hostKernels' = hostKernels /\ kernelHost' = kernelHost
    BY <1>0, <1>1 DEF DeleteKernelId
  <2> QED BY <2>1 DEF TableInv, CountsCover, Keys
<1>2. CASE kernelHost[k] # None
  <2>1. PICK h \in Hosts : kernelHost[k] = h
    BY <1>0, <1>2
  <2>2. hostKernels[h] \in Int
    BY <1>0, <1>2, <2>1 DEF TableInv
  <2>3. /\ hostKernels' = [hostKernels EXCEPT ![h] = hostKernels[h] - 1]
        /\ kernelHost' = [kernelHost EXCEPT ![k] = None]
    BY <1>0, <1>2, <2>1, <2>2 DEF DeleteKernelId, Add
  <2>4. k \in Mapped(h) /\ Mapped(h)' = Mapped(h) \ {k}
    BY <1>0, <2>1, <2>3 DEF Mapped
  <2>5. \A g \in Hosts : g # h => Mapped(g)' = Mapped(g)
    BY <1>0, <2>1, <2>3 DEF Mapped
  <2>6. Cardinality(Mapped(h)') = Cardinality(Mapped(h)) - 1
    BY <1>0, <2>4, FS_RemoveElement, ZenonT(60)
  <2>7. \A g \in Hosts : hostKernels[g] # Absent => hostKernels[g] >= Cardinality(Mapped(g))
    BY DEF TableInv, CountsCover, Keys, Mapped
  <2>8. /\ hostKernels' \in [Hosts -> Int \cup {Absent}] /\ kernelHost' \in [Ids -> Hosts \cup {None}]
        /\ \A j \in Ids : kernelHost'[j] # None => hostKernels'[kernelHost'[j]] # Absent
    BY <1>0, <2>2, <2>3 DEF TableInv
  <2>9. ASSUME NEW g \in Hosts, hostKernels'[g] # Absent
        PROVE  hostKernels'[g] >= Cardinality(Mapped(g)')
    <3>1. CASE g = h
      <4>1. hostKernels'[h] = hostKernels[h] - 1 /\ hostKernels[h] >= Cardinality(Mapped(h))
        BY <1>0, <2>2, <2>3, <2>7
      <4> QED BY <1>0, <2>2, <2>6, <3>1, <4>1
    <3>2. CASE g # h
      BY <1>0, <2>3, <2>5, <2>7, <2>9, <3>2
    <3> QED BY <3>1, <3>2
  <2> QED BY <2>8, <2>9 DEF TableInv, CountsCover, Keys, Mapped
<1> QED BY <1>1, <1>2

\* _determine_next_host, for either algorithm.
LEMMA PlaceKernel ==
    ASSUME TableInv, NEW k \in Ids, NEW list \in HostLists, NEW remote, NEW h \in Hosts,
           DetermineNextHost(k, list, remote, h), leastConnection' = leastConnection
    PROVE  TableInv'
<1>1. CASE leastConnection
  <2>1. /\ hostKernels' = Add(InitHostKernels(list), h, 1)
        /\ kernelHost' = [kernelHost EXCEPT ![k] = h] /\ hostIndex' = hostIndex
    BY <1>1 DEF DetermineNextHost
  <2> QED BY <2>1, InitTable, AddKernel
<1>2. CASE ~leastConnection
  <2>1. hostIndex' = hostIndex + 1 /\ hostKernels' = hostKernels /\ kernelHost' = kernelHost
    BY <1>2 DEF DetermineNextHost
  <2> QED BY <2>1 DEF TableInv, CountsCover, Keys
<1> QED BY <1>1, <1>2

\* Every step keeps the table's invariant.
LEMMA TableStep == LaunchInv /\ TableInv /\ [Next]_vars => TableInv'
<1> SUFFICES ASSUME LaunchInv, TableInv, [Next]_vars PROVE TableInv'
  OBVIOUS
<1>1. ASSUME UNCHANGED <<leastConnection, placeVars>>
      PROVE  TableInv'
  BY <1>1 DEF placeVars, TableInv, CountsCover, Keys
<1>2. ASSUME NEW a \in Attempts, NEW k \in Ids, NEW list \in HostLists, LaunchRefused(a, k, list)
      PROVE  TableInv'
  <2>1. /\ hostKernels' = InitHostKernels(list) /\ kernelHost' = kernelHost
        /\ leastConnection' = leastConnection /\ hostIndex' = hostIndex
    BY <1>2 DEF LaunchRefused
  <2> QED BY <2>1, InitTable DEF TableInv, CountsCover, Keys, Mapped
<1>3. ASSUME NEW a \in Attempts, NEW k \in Ids, NEW list \in HostLists,
             NEW remote \in Hosts \cup {None}, NEW h \in Hosts,
             \/ LaunchProcess(a, k, list, remote, h)
             \/ \E left \in {"none", "starting"} : LaunchRaises(a, k, list, remote, h, left)
      PROVE  TableInv'
  BY <1>3, PlaceKernel DEF LaunchProcess, LaunchRaises
<1>4. ASSUME NEW a \in Attempts, Cleanup(a)
      PROVE  TableInv'
  <2>1. kid[a] \in Ids
    BY <1>4 DEF Cleanup, StopKernel, LaunchInv, Links
  <2>2. CASE leastConnection
    BY <1>4, <2>1, <2>2, DeleteKernel DEF Cleanup
  <2>3. CASE ~leastConnection
    BY <1>1, <1>4, <2>3 DEF Cleanup, placeVars
  <2> QED BY <2>2, <2>3
<1> QED BY <1>1, <1>2, <1>3, <1>4 DEF Next, vars

\* Type correctness, and the counts of the table: no host counts fewer kernels than are
\* mapped to it (add_kernel_id, delete_kernel_id), for any number of hosts and kernels.
THEOREM TableSafety == Spec => [](TypeOK /\ CountsCover)
<1>1. Init => LaunchInv /\ TableInv
  <2>1. Init => LaunchInv
    BY LaunchInitInv DEF Init
  <2>2. Init => TableInv
    BY HostAssumption DEF Init, TableInv, CountsCover, Keys
  <2> QED BY <2>1, <2>2
<1>2. LaunchInv /\ TableInv /\ [Next]_vars => (LaunchInv /\ TableInv)'
  BY DistributedStep, TableStep
<1>3. LaunchInv /\ TableInv => TypeOK /\ CountsCover
  BY DEF LaunchInv, TableInv, TypeOK
<1> QED BY <1>1, <1>2, <1>3, PTL DEF Spec
=============================================================================
