------------------------ MODULE ProcessControlProofs ------------------------
(***************************************************************************)
(* Proofs about ProcessControl, for any number of process groups, crashes  *)
(* and failing ssh commands.                                               *)
(***************************************************************************)
EXTENDS ProcessControl, SequenceTheorems, TLAPS

Kills == {SIGTERM, SIGKILL}
Over == {"joining", "gone"}

\* The kernel has gone, or nothing is left that could be told to end it.
Finished(p) == kernel[p] = "gone" \/ listener[p] = "ended"

\* A listener that still listens has been sent something that will end or block it.
WillEnd(p) == listener[p] = "listening" => queue[p] # <<>>

\* A request to end the kernel waits in the backlog; the backlog holds nothing else.
KillQueued(p) == \E i \in 1..Len(queue[p]) : queue[p][i] \in Kills
KillsOnly(p) == Len(queue[p]) = Backlog /\ \A i \in 1..Len(queue[p]) : queue[p][i] \in Kills

\* The launcher of the group has answered.
Known(p) == listener[p] # "none"

\* The listener starts with the kernel; without a mishap it ends after the kernel
\* application, because "shutdown" is sent after a signal that kills.
Hosted(p) ==
    /\ kernel[p] \in {"none", "starting"} => listener[p] = "none"
    /\ why[p] = "none" /\ listener[p] = "ended" => kernel[p] \in Over
    /\ why[p] = "none" => \A i \in 1..Len(queue[p]) : queue[p][i] = "shutdown" =>
          kernel[p] \in Over \/ \E j \in 1..(i - 1) : queue[p][j] \in Kills

\* How far the shutdown of the group the proxy refers to has come.
InStep(p) ==
    /\ kernel[p] # "none"
    /\ pc \notin {"launch", "confirm", "lterm", "lpoll", "lkill"} => Known(p)
    /\ pc \in {"lterm", "lpoll", "lkill"} => why[p] # "none"
    /\ why[p] = "none" =>
          /\ pc \in {"shut", "wait", "kill"} => Finished(p) \/ KillQueued(p)
          /\ pc \in {"killwait", "cterm"} => Finished(p) \/ KillsOnly(p)
          /\ pc = "reap" => Finished(p)
          /\ pc = "cshut" => Finished(p) /\ WillEnd(p)

\* What the gateway has let go of is over.
Released(p) == ~Owned(p) /\ kernel[p] # "none" /\ why[p] = "none" => Finished(p) /\ WillEnd(p)

ControlInv ==
    /\ TypeOK
    /\ pc \in {"launch", "down"} => target = None
    /\ \A p \in Procs :
          /\ Hosted(p) /\ Released(p)
          /\ p = saved => Known(p)
          /\ p = target => InStep(p)

-----------------------------------------------------------------------------
(* What a step does to the processes *)

HostTyped ==
    /\ kernel \in [Procs -> {"none", "starting", "running", "joining", "gone"}]
    /\ listener \in [Procs -> {"none", "listening", "blocked", "ended"}]
    /\ queue \in [Procs -> Seq(Contents)] /\ \A p \in Procs : Len(queue[p]) <= Backlog
    /\ why \in [Procs -> {"none", "deaf", "ssh", "slow", "crash", "launch", "revive"}]

\* What has been achieved for a group stays so, or a mishap is recorded.
Shifts(p) ==
    /\ Hosted(p)' /\ (Known(p) => Known(p)') /\ (why[p] # "none" => why'[p] # "none")
    /\ kernel[p] = "none" <=> kernel'[p] = "none"
    /\ why'[p] = "none" =>
          /\ Finished(p) => Finished(p)'
          /\ Finished(p) \/ KillQueued(p) => Finished(p)' \/ KillQueued(p)'
          /\ Finished(p) \/ KillsOnly(p) => Finished(p)' \/ KillsOnly(p)'
          /\ Finished(p) /\ WillEnd(p) => WillEnd(p)'

HostStep ==
    /\ HostTyped' /\ faults' \in 0..MaxFaults
    /\ \A p \in Procs : Shifts(p)

\* Nothing happens to a group.
Same(p) ==
    /\ kernel'[p] = kernel[p] /\ listener'[p] = listener[p]
    /\ queue'[p] = queue[p] /\ why'[p] = why[p]

\* What nothing happens to stays as it is.
LEMMA SameShifts ==
    ASSUME ControlInv, NEW p \in Procs, Same(p)
    PROVE  Shifts(p)
<1>1. Hosted(p)
  BY DEF ControlInv
<1>2. Hosted(p)'
  BY <1>1 DEF Hosted, Same
<1> QED BY <1>2 DEF Shifts, Same, Known, Finished, KillQueued, KillsOnly, WillEnd

\* A step of the processes alone.
LEMMA HostSteps ==
    ASSUME ControlInv, HostStep, pc' = pc, op' = op, target' = target, saved' = saved
    PROVE  ControlInv'
<1>1. TypeOK'
  BY DEF ControlInv, TypeOK, HostStep, HostTyped
<1>2. ASSUME NEW p \in Procs PROVE Hosted(p)' /\ Released(p)'
  <2>1. Shifts(p) /\ Released(p) /\ Owned(p)' = Owned(p)
    BY DEF ControlInv, HostStep, Owned
  <2> QED BY <2>1 DEF Released, Shifts
<1>3. ASSUME NEW p \in Procs PROVE p = saved' => Known(p)'
  BY DEF ControlInv, HostStep, Shifts
<1>4. ASSUME NEW p \in Procs, p = target' PROVE InStep(p)'
  <2>1. Shifts(p) /\ InStep(p)
    BY <1>4 DEF ControlInv, HostStep
  <2> QED BY <2>1 DEF InStep, Shifts
<1> QED BY <1>1, <1>2, <1>3, <1>4 DEF ControlInv, HostStep

\* A connection at the end of a backlog.
LEMMA AppendFacts ==
    ASSUME NEW s \in Seq(Contents), NEW x \in Contents
    PROVE  /\ Append(s, x) \in Seq(Contents) /\ Len(s) \in Nat /\ Len(Append(s, x)) = Len(s) + 1
           /\ \A i \in 1..Len(s) : Append(s, x)[i] = s[i]
           /\ Append(s, x)[Len(s) + 1] = x
  BY AppendProperties, LenProperties

\* The backlog after its first connection is accepted.
LEMMA TailFacts ==
    ASSUME NEW s \in Seq(Contents), s # <<>>
    PROVE  /\ Tail(s) \in Seq(Contents) /\ Len(s) \in Nat \ {0} /\ Len(Tail(s)) = Len(s) - 1
           /\ \A i \in 1..(Len(s) - 1) : Tail(s)[i] = s[i + 1]
           /\ Head(s) = s[1] /\ s[1] \in Contents
  BY HeadTailProperties, LenProperties, ElementOfSeq, EmptySeq

\* A connection joins the backlog of p: "shutdown" only after something that ends the kernel.
LEMMA QueueGrows ==
    ASSUME ControlInv, NEW p \in Procs, NEW request \in Contents,
           Reachable(p), Len(queue[p]) < Backlog,
           queue' = [queue EXCEPT ![p] = Append(@, request)],
           kernel' = kernel, listener' = listener,
           why' \in [Procs -> {"none", "deaf", "ssh", "slow", "crash", "launch", "revive"}],
           why[p] # "none" => why'[p] # "none", \A r \in Procs : r # p => why'[r] = why[r],
           faults' \in 0..MaxFaults,
           request = "shutdown" /\ why[p] = "none" => Finished(p) \/ KillQueued(p)
    PROVE  /\ HostStep
           /\ Len(queue'[p]) = Len(queue[p]) + 1 /\ queue'[p] # <<>>
           /\ \A i \in 1..Len(queue[p]) : queue'[p][i] = queue[p][i]
           /\ queue'[p][Len(queue[p]) + 1] = request
<1>1. TypeOK /\ Hosted(p)
  BY DEF ControlInv
<1>2. PICK s \in Seq(Contents) : s = queue[p]
  BY <1>1 DEF TypeOK
<1>3. PICK z \in Seq(Contents) : z = Append(s, request)
  BY AppendFacts
<1>4. /\ Len(s) \in Nat /\ Len(z) = Len(s) + 1 /\ z[Len(s) + 1] = request
      /\ \A i \in 1..Len(s) : z[i] = s[i]
  BY <1>3, AppendFacts
<1>5. queue'[p] = z /\ \A r \in Procs : r # p => queue'[r] = queue[r]
  BY <1>1, <1>2, <1>3 DEF TypeOK
<1>6. z # <<>>
  BY <1>4, EmptySeq
<1>7. HostTyped'
  <2>1. queue' \in [Procs -> Seq(Contents)]
    BY <1>1, <1>2, <1>3 DEF TypeOK
  <2>2. \A r \in Procs : Len(queue'[r]) <= Backlog
    BY <1>1, <1>2, <1>4, <1>5 DEF TypeOK, Backlog
  <2> QED BY <1>1, <2>1, <2>2 DEF TypeOK, HostTyped
<1>8. ASSUME NEW r \in Procs, r # p PROVE Shifts(r)
  BY <1>5, <1>8, SameShifts DEF Same
<1>9. listener[p] \in {"listening", "blocked"}
  BY DEF Reachable
<1>10. \A i \in 1..Len(z) : i \in 1..Len(s) \/ i = Len(s) + 1
  BY <1>4
<1>11. Hosted(p)'
  <2>1. why[p] = "none" => \A i \in 1..Len(z) : z[i] = "shutdown" =>
           kernel[p] \in Over \/ \E j \in 1..(i - 1) : z[j] \in Kills
    <3> SUFFICES ASSUME why[p] = "none", NEW i \in 1..Len(z), z[i] = "shutdown", kernel[p] \notin Over
                 PROVE  \E j \in 1..(i - 1) : z[j] \in Kills
      OBVIOUS
    <3>1. CASE i \in 1..Len(s)
      <4>1. PICK j \in 1..(i - 1) : s[j] \in Kills
        BY <1>1, <1>2, <1>4, <3>1 DEF Hosted
      <4>2. PICK n \in Nat : n = Len(s)
        BY <1>4
      <4>3. i \in 1..n
        BY <3>1, <4>2
      <4>4. j \in 1..n
        BY <4>3
      <4>5. z[j] = s[j]
        BY <1>4, <4>2, <4>4
      <4> QED BY <4>1, <4>5
    <3>2. CASE i = Len(s) + 1
      <4>1. Finished(p) \/ KillQueued(p)
        BY <1>4, <3>2
      <4>2. PICK j \in 1..Len(s) : s[j] \in Kills
        BY <1>2, <1>9, <4>1 DEF Finished, KillQueued, Over
      <4> QED BY <1>4, <3>2, <4>2
    <3> QED BY <1>10, <3>1, <3>2
  <2>2. /\ kernel'[p] \in {"none", "starting"} => listener'[p] = "none"
        /\ why'[p] = "none" /\ listener'[p] = "ended" => kernel'[p] \in Over
    BY <1>1 DEF Hosted
  <2> QED BY <1>5, <2>1, <2>2 DEF Hosted
<1>12. KillQueued(p) => KillQueued(p)'
  BY <1>2, <1>4, <1>5 DEF KillQueued
<1>13. ~KillsOnly(p)
  BY DEF KillsOnly
<1>14. WillEnd(p) => WillEnd(p)'
  BY <1>5, <1>6 DEF WillEnd
<1>15. Shifts(p)
  BY <1>11, <1>12, <1>13, <1>14 DEF Shifts, Known, Finished
<1> QED BY <1>2, <1>4, <1>5, <1>6, <1>7, <1>8, <1>15 DEF HostStep

\* A step that is about one group.
LEMMA OneShifts ==
    ASSUME ControlInv, HostTyped', faults' \in 0..MaxFaults,
           NEW p \in Procs, Shifts(p), \A r \in Procs : r # p => Same(r)
    PROVE  HostStep
  BY SameShifts DEF HostStep

\* A mishap is recorded once.
LEMMA BlameFacts ==
    ASSUME ControlInv, NEW p \in Procs,
           NEW reason \in {"deaf", "ssh", "slow", "crash", "launch", "revive"}, why' = Blame(p, reason)
    PROVE  /\ why' \in [Procs -> {"none", "deaf", "ssh", "slow", "crash", "launch", "revive"}]
           /\ why'[p] # "none" /\ \A r \in Procs : r # p => why'[r] = why[r]
  BY DEF ControlInv, TypeOK, Blame

\* A step that only records a mishap.
LEMMA BlameOnly ==
    ASSUME ControlInv, NEW p \in Procs,
           NEW reason \in {"deaf", "ssh", "slow", "crash", "launch", "revive"}, why' = Blame(p, reason),
           kernel' = kernel, listener' = listener, queue' = queue,
           faults' \in 0..MaxFaults
    PROVE  HostStep /\ why'[p] # "none"
<1>1. /\ why' \in [Procs -> {"none", "deaf", "ssh", "slow", "crash", "launch", "revive"}]
      /\ why'[p] # "none" /\ \A r \in Procs : r # p => why'[r] = why[r]
  BY BlameFacts
<1>2. HostTyped' /\ \A r \in Procs : r # p => Same(r)
  BY <1>1 DEF ControlInv, TypeOK, HostTyped, Same
<1>3. Hosted(p)
  BY DEF ControlInv
<1>4. Shifts(p)
  BY <1>1, <1>3 DEF Shifts, Hosted, Known
<1> QED BY <1>1, <1>2, <1>4, OneShifts

\* Nothing happens to any group.
LEMMA NothingHappens ==
    ASSUME ControlInv, kernel' = kernel, listener' = listener, queue' = queue, why' = why,
           faults' \in 0..MaxFaults
    PROVE  HostStep
<1>1. HostTyped' /\ \A r \in Procs : Same(r)
  BY DEF ControlInv, TypeOK, HostTyped, Same
<1> QED BY <1>1, SameShifts DEF HostStep

\* `kill` over ssh: the whole group, or only the kernel after a mishap was recorded.
LEMMA SshKilled ==
    ASSUME ControlInv, NEW p \in Procs, NEW signum \in Signals, NEW grouped \in BOOLEAN,
           SshKill(p, signum, grouped), kernel[p] # "none", faults' = faults,
           why' = why \/ why' = Blame(p, "slow"),
           grouped \/ why[p] # "none"
    PROVE  /\ HostStep
           /\ signum \in Kills => kernel'[p] = "gone"
           /\ signum \in Kills /\ grouped /\ Known(p) => listener'[p] = "ended"
           /\ signum \notin Kills => kernel'[p] = kernel[p]
<1>1. TypeOK /\ Hosted(p) /\ faults' \in 0..MaxFaults
  BY DEF ControlInv, TypeOK
<1>2. /\ why' \in [Procs -> {"none", "deaf", "ssh", "slow", "crash", "launch", "revive"}]
      /\ \A r \in Procs : r # p => why'[r] = why[r]
      /\ why[p] # "none" => why'[p] # "none"
  <2>1. CASE why' = why
    BY <1>1, <2>1 DEF TypeOK
  <2>2. CASE why' = Blame(p, "slow")
    BY <2>2, BlameFacts
  <2> QED BY <2>1, <2>2
<1>3. CASE signum \notin Kills
  <2>1. kernel' = kernel /\ listener' = listener /\ queue' = queue
    BY <1>1, <1>3 DEF SshKill, Kills, TypeOK
  <2>2. HostTyped' /\ \A r \in Procs : r # p => Same(r)
    BY <1>1, <1>2, <2>1 DEF HostTyped, TypeOK, Same
  <2>3. Shifts(p)
    BY <1>1, <1>2, <2>1 DEF Shifts, Hosted, Known, Finished, KillQueued, KillsOnly, WillEnd
  <2> QED BY <1>1, <1>3, <2>1, <2>2, <2>3, OneShifts
<1>4. CASE signum \in Kills
  <2>1. /\ kernel' = [kernel EXCEPT ![p] = "gone"]
        /\ grouped /\ Reachable(p) => ListenerEnds(p)
        /\ ~(grouped /\ Reachable(p)) => listener' = listener /\ queue' = queue
    BY <1>4 DEF SshKill, Kills
  <2>2. /\ kernel' \in [Procs -> {"none", "starting", "running", "joining", "gone"}]
        /\ kernel'[p] = "gone" /\ \A r \in Procs : r # p => kernel'[r] = kernel[r]
    BY <1>1, <2>1 DEF TypeOK
  <2>3. CASE grouped /\ Reachable(p)
    <3>1. /\ listener' = [listener EXCEPT ![p] = "ended"] /\ queue' = [queue EXCEPT ![p] = <<>>]
      BY <2>1, <2>3 DEF ListenerEnds
    <3>2. <<>> \in Seq(Contents) /\ Len(<<>>) = 0
      BY EmptySeq
    <3>3. /\ listener' \in [Procs -> {"none", "listening", "blocked", "ended"}]
          /\ queue' \in [Procs -> Seq(Contents)] /\ queue'[p] = <<>> /\ listener'[p] = "ended"
          /\ \A r \in Procs : r # p => listener'[r] = listener[r] /\ queue'[r] = queue[r]
      BY <1>1, <3>1, <3>2 DEF TypeOK
    <3>4. ASSUME NEW r \in Procs PROVE Len(queue'[r]) <= Backlog
      <4>1. CASE r = p
        BY <3>2, <3>3, <4>1 DEF Backlog
      <4>2. CASE r # p
        BY <1>1, <3>3, <4>2 DEF TypeOK
      <4> QED BY <4>1, <4>2
    <3>5. HostTyped' /\ \A r \in Procs : r # p => Same(r)
      BY <1>2, <2>2, <3>3, <3>4 DEF HostTyped, Same
    <3>6. Hosted(p)'
      BY <1>1, <2>2, <3>2, <3>3 DEF Hosted, Over
    <3>7. Shifts(p)
      BY <1>2, <2>2, <3>3, <3>6 DEF Shifts, Known, Finished, WillEnd
    <3> QED BY <1>1, <1>4, <2>2, <3>3, <3>5, <3>7, OneShifts
  <2>4. CASE ~(grouped /\ Reachable(p))
    <3>1. HostTyped' /\ \A r \in Procs : r # p => Same(r)
      BY <1>1, <1>2, <2>1, <2>2, <2>4 DEF HostTyped, TypeOK, Same
    <3>2. Hosted(p)'
      BY <1>1, <1>2, <2>1, <2>2, <2>4 DEF Hosted, Over
    <3>3. grouped /\ Known(p) => listener[p] = "ended"
      BY <1>1, <2>4 DEF Reachable, Known, TypeOK
    <3>4. Shifts(p)
      BY <1>2, <2>1, <2>2, <2>4, <3>2 DEF Shifts, Known, Finished, WillEnd
    <3> QED BY <1>1, <1>4, <2>1, <2>2, <2>4, <3>1, <3>3, <3>4, OneShifts
  <2> QED BY <2>3, <2>4
<1> QED BY <1>3, <1>4

\* remote_signal, which may fail.
LEMMA RemoteSignalFacts ==
    ASSUME ControlInv, NEW p \in Procs, NEW signum \in Signals, NEW grouped \in BOOLEAN,
           NEW answer \in Answers, RemoteSignal(p, signum, grouped, answer),
           kernel[p] # "none", grouped \/ why[p] # "none"
    PROVE  /\ HostStep
           /\ why'[p] = "none" =>
                 /\ signum \in Kills /\ Known(p) => kernel'[p] = "gone" /\ listener'[p] = "ended"
                 /\ signum = POLL /\ answer = "dead" => kernel'[p] = "gone"
           /\ signum = POLL => kernel'[p] = kernel[p]
<1>1. CASE answer = SshAnswer(p, signum, grouped) /\ SshKill(p, signum, grouped) /\ UNCHANGED <<why, faults>>
  <2>1. /\ HostStep
        /\ signum \in Kills => kernel'[p] = "gone"
        /\ signum \in Kills /\ grouped /\ Known(p) => listener'[p] = "ended"
        /\ signum \notin Kills => kernel'[p] = kernel[p]
    BY <1>1, SshKilled
  <2>2. signum = POLL => signum \notin Kills
    BY DEF POLL, Kills, SIGTERM, SIGKILL
  <2>3. signum = POLL /\ answer = "dead" => kernel[p] = "gone"
    BY <1>1 DEF SshAnswer
  <2>4. why[p] = why'[p]
    BY <1>1
  <2> QED BY <2>1, <2>2, <2>3, <2>4
<1>2. CASE /\ faults < MaxFaults /\ faults' = faults + 1 /\ answer = "dead"
           /\ why' = Blame(p, "ssh") /\ UNCHANGED <<kernel, listener, queue>>
  <2>1. faults' \in 0..MaxFaults
    BY <1>2, ControlAssumption DEF ControlInv, TypeOK
  <2> QED BY <1>2, <2>1, BlameOnly
<1> QED BY <1>1, <1>2 DEF RemoteSignal

\* send_signal: one signal that kills is in the backlog or carried out; after a second one
\* the backlog holds nothing else; a third one finds the backlog full and goes over ssh.
LEMMA SendSignalFacts ==
    ASSUME ControlInv, NEW p \in Procs, NEW signum \in Signals, NEW answer \in Answers,
           SendSignal(p, signum, answer), Known(p)
    PROVE  /\ HostStep
           /\ why'[p] = "none" =>
                 /\ signum \in Kills => Finished(p)' \/ KillQueued(p)'
                 /\ signum \in Kills /\ (Finished(p) \/ KillQueued(p)) => Finished(p)' \/ KillsOnly(p)'
                 /\ signum \in Kills /\ (Finished(p) \/ KillsOnly(p)) => Finished(p)' /\ WillEnd(p)'
                 /\ signum = POLL /\ answer = "dead" => Finished(p)'
           /\ signum = POLL => kernel'[p] = kernel[p]
<1>1. TypeOK /\ Hosted(p) /\ kernel[p] # "none" /\ faults \in 0..MaxFaults
  BY DEF ControlInv, TypeOK, Hosted, Known
<1>2. signum = POLL => signum \notin Kills
  BY DEF POLL, Kills, SIGTERM, SIGKILL
<1>3. CASE Deliver(p, signum) /\ answer = "alive"
  <2>1. /\ Reachable(p) /\ Len(queue[p]) < Backlog /\ kernel' = kernel /\ listener' = listener
        /\ why' = why /\ faults' = faults /\ queue' = [queue EXCEPT ![p] = Append(@, signum)]
    BY <1>3 DEF Deliver
  <2>2. signum \in Contents /\ signum # "shutdown"
    BY DEF Contents, Signals, POLL, SIGINT, SIGTERM, SIGKILL
  <2>3. /\ HostStep
        /\ Len(queue'[p]) = Len(queue[p]) + 1 /\ queue'[p] # <<>>
        /\ \A i \in 1..Len(queue[p]) : queue'[p][i] = queue[p][i]
        /\ queue'[p][Len(queue[p]) + 1] = signum
    <3>1. why' \in [Procs -> {"none", "deaf", "ssh", "slow", "crash", "launch", "revive"}]
      BY <1>1, <2>1 DEF TypeOK
    <3> QED BY <1>1, <2>1, <2>2, <3>1, QueueGrows
  <2>4. Len(queue[p]) \in Nat
    BY <1>1, LenProperties DEF TypeOK
  <2>5. signum \in Kills => KillQueued(p)'
    BY <2>3, <2>4 DEF KillQueued
  <2>6. signum \in Kills /\ KillQueued(p) => KillsOnly(p)'
    <3> SUFFICES ASSUME signum \in Kills, KillQueued(p) PROVE KillsOnly(p)'
      OBVIOUS
    <3>1. Len(queue[p]) = 1 /\ queue[p][1] \in Kills
      <4>1. PICK i \in 1..Len(queue[p]) : queue[p][i] \in Kills
        BY DEF KillQueued
      <4>2. PICK n \in Nat : n = Len(queue[p])
        BY <2>4
      <4>3. i \in 1..n
        BY <4>2
      <4>4. n < 2
        BY <2>1, <4>2 DEF Backlog
      <4>5. n = 1
        BY <4>3, <4>4
      <4>6. i = 1
        BY <4>3, <4>5
      <4> QED BY <4>1, <4>2, <4>5, <4>6
    <3>2. \A i \in 1..Len(queue'[p]) : i = 1 \/ i = 2
      BY <2>3, <3>1
    <3>3. queue'[p][1] \in Kills /\ queue'[p][2] \in Kills /\ Len(queue'[p]) = 2
      BY <2>3, <3>1
    <3> QED BY <3>2, <3>3 DEF KillsOnly, Backlog
  <2>7. ~KillsOnly(p)
    BY <2>1 DEF KillsOnly
  <2>8. Finished(p) => Finished(p)' /\ WillEnd(p)'
    BY <2>1, <2>3 DEF Finished, WillEnd
  <2> QED BY <1>3, <2>1, <2>3, <2>5, <2>6, <2>7, <2>8
<1>4. CASE ~Reachable(p) /\ answer = "dead" /\ UNCHANGED <<host, faults>>
  <2>1. kernel' = kernel /\ listener' = listener /\ queue' = queue /\ why' = why /\ faults' = faults
    BY <1>4 DEF host
  <2>2. listener'[p] = "ended"
    BY <1>1, <1>4, <2>1 DEF Reachable, Known, TypeOK
  <2>3. HostStep
    BY <1>1, <2>1, NothingHappens
  <2> QED BY <2>1, <2>2, <2>3 DEF Finished, WillEnd
<1>5. CASE RemoteSignal(p, signum, TRUE, answer)
  <2>1. /\ HostStep
        /\ why'[p] = "none" =>
              /\ signum \in Kills => kernel'[p] = "gone" /\ listener'[p] = "ended"
              /\ signum = POLL /\ answer = "dead" => kernel'[p] = "gone"
        /\ signum = POLL => kernel'[p] = kernel[p]
    BY <1>1, <1>5, RemoteSignalFacts
  <2> QED BY <2>1 DEF Finished, WillEnd
<1>6. CASE SshKill(p, signum, TRUE) /\ why' = Blame(p, "slow") /\ UNCHANGED faults
  <2>1. why'[p] # "none"
    BY <1>6, BlameFacts
  <2>2. HostStep /\ (signum \notin Kills => kernel'[p] = kernel[p])
    BY <1>1, <1>6, SshKilled
  <2> QED BY <1>2, <2>1, <2>2
<1> QED BY <1>3, <1>4, <1>5, <1>6 DEF SendSignal

\* The "shutdown" of shutdown_listener, which may get lost.
LEMMA SendShutdownFacts ==
    ASSUME ControlInv, NEW p \in Procs, SendShutdown(p),
           why[p] = "none" => Finished(p) \/ KillQueued(p)
    PROVE  HostStep
<1>1. faults \in 0..MaxFaults
  BY DEF ControlInv, TypeOK
<1>2. CASE Deliver(p, "shutdown")
  <2>1. /\ Reachable(p) /\ Len(queue[p]) < Backlog /\ kernel' = kernel /\ listener' = listener
        /\ why' = why /\ faults' = faults /\ queue' = [queue EXCEPT ![p] = Append(@, "shutdown")]
    BY <1>2 DEF Deliver
  <2>2. "shutdown" \in Contents
    BY DEF Contents
  <2>3. why' \in [Procs -> {"none", "deaf", "ssh", "slow", "crash", "launch", "revive"}]
    BY <2>1 DEF ControlInv, TypeOK
  <2> QED BY <1>1, <2>1, <2>2, <2>3, QueueGrows
<1>3. CASE UNCHANGED <<host, faults>>
  BY <1>1, <1>3, NothingHappens DEF host
<1> QED BY <1>2, <1>3 DEF SendShutdown

-----------------------------------------------------------------------------
(* The launcher's host *)

\* The kernel process moves on by itself: it starts, ends or dies.
LEMMA KernelMoves ==
    ASSUME ControlInv, NEW p \in Procs,
           \/ LauncherStarts(p) \/ LauncherRefuses(p) \/ KernelAppEnds(p) \/ KernelDies(p)
           \/ KernelExits(p)
    PROVE  HostStep
<1>1. TypeOK /\ Hosted(p)
  BY DEF ControlInv
<1>2. /\ queue' = queue /\ why' = why /\ faults' = faults
      /\ \E new \in {"running", "joining", "gone"} : kernel' = [kernel EXCEPT ![p] = new]
  BY DEF LauncherStarts, LauncherRefuses, KernelAppEnds, KernelDies, KernelExits
<1>3. \/ kernel[p] = "starting" /\ listener' = [listener EXCEPT ![p] = "listening"]
         /\ kernel' = [kernel EXCEPT ![p] = "running"]
      \/ kernel[p] = "starting" /\ listener' = listener /\ kernel' = [kernel EXCEPT ![p] = "gone"]
      \/ kernel[p] \in {"running", "joining"} /\ listener' = listener
         /\ (kernel' = [kernel EXCEPT ![p] = "joining"] \/ kernel' = [kernel EXCEPT ![p] = "gone"])
  BY DEF LauncherStarts, LauncherRefuses, KernelAppEnds, KernelDies, KernelExits
<1>4. HostTyped' /\ (\A r \in Procs : r # p => Same(r)) /\ faults' \in 0..MaxFaults
  BY <1>1, <1>2, <1>3 DEF HostTyped, TypeOK, Same
<1>5. /\ kernel'[p] \in {"running", "joining", "gone"} /\ kernel[p] \in {"starting", "running", "joining"}
      /\ kernel[p] = "starting" => listener[p] = "none"
      /\ kernel[p] = "starting" => \/ kernel'[p] = "running" /\ listener'[p] = "listening"
                                   \/ kernel'[p] = "gone" /\ listener'[p] = "none"
      /\ kernel[p] # "starting" => kernel'[p] \in Over /\ listener'[p] = listener[p]
  BY <1>1, <1>3 DEF TypeOK, Hosted, Over
<1>6. Hosted(p)'
  BY <1>1, <1>2, <1>5 DEF Hosted, Over
<1>7. Shifts(p)
  BY <1>1, <1>2, <1>5, <1>6 DEF Shifts, Known, Finished, KillQueued, KillsOnly, WillEnd
<1> QED BY <1>2, <1>4, <1>7, OneShifts

\* A turn of the listener that ends it, dropping its backlog.
LEMMA ListenerEnded ==
    ASSUME ControlInv, NEW p \in Procs, ListenerEnds(p), kernel' = kernel, faults' = faults,
           listener[p] = "listening",
           \/ why' = why /\ (why[p] = "none" => kernel[p] \in Over)
           \/ why' = Blame(p, "deaf")
    PROVE  HostStep
<1>1. TypeOK /\ Hosted(p) /\ faults' \in 0..MaxFaults
  BY DEF ControlInv, TypeOK
<1>2. /\ listener' = [listener EXCEPT ![p] = "ended"] /\ queue' = [queue EXCEPT ![p] = <<>>]
  BY DEF ListenerEnds
<1>3. <<>> \in Seq(Contents) /\ Len(<<>>) = 0
  BY EmptySeq
<1>4. /\ listener' \in [Procs -> {"none", "listening", "blocked", "ended"}]
      /\ queue' \in [Procs -> Seq(Contents)] /\ queue'[p] = <<>> /\ listener'[p] = "ended"
      /\ \A r \in Procs : r # p => listener'[r] = listener[r] /\ queue'[r] = queue[r]
  BY <1>1, <1>2, <1>3 DEF TypeOK
<1>5. ASSUME NEW r \in Procs PROVE Len(queue'[r]) <= Backlog
  <2>1. CASE r = p
    BY <1>3, <1>4, <2>1 DEF Backlog
  <2>2. CASE r # p
    BY <1>1, <1>4, <2>2 DEF TypeOK
  <2> QED BY <2>1, <2>2
<1>6. /\ why' \in [Procs -> {"none", "deaf", "ssh", "slow", "crash", "launch", "revive"}]
      /\ \A r \in Procs : r # p => why'[r] = why[r]
      /\ why[p] # "none" => why'[p] # "none"
      /\ why'[p] = "none" => kernel[p] \in Over
  <2>1. CASE why' = why /\ (why[p] = "none" => kernel[p] \in Over)
    BY <1>1, <2>1 DEF TypeOK
  <2>2. CASE why' = Blame(p, "deaf")
    BY <2>2, BlameFacts
  <2> QED BY <2>1, <2>2
<1>7. HostTyped' /\ \A r \in Procs : r # p => Same(r)
  BY <1>1, <1>4, <1>5, <1>6 DEF HostTyped, Same, TypeOK
<1>8. Hosted(p)'
  BY <1>1, <1>3, <1>4, <1>6 DEF Hosted
<1>9. Shifts(p)
  BY <1>4, <1>6, <1>8 DEF Shifts, Known, Finished, WillEnd
<1> QED BY <1>1, <1>7, <1>9, OneShifts

\* A turn of the listener that takes one connection off the backlog: a signal that kills
\* does so, and an open connection blocks it.
LEMMA QueueServed ==
    ASSUME ControlInv, NEW p \in Procs, listener[p] = "listening", queue[p] # <<>>,
           queue' = [queue EXCEPT ![p] = Tail(@)], why' = why, faults' = faults,
           NEW new \in {"none", "starting", "running", "joining", "gone"},
           kernel' = [kernel EXCEPT ![p] = new], new \in {kernel[p], "gone"},
           Head(queue[p]) \in Kills => new = "gone",
           kernel[p] = "gone" => Head(queue[p]) = "open",
           Head(queue[p]) # "shutdown",
           NEW ear \in {"listening", "blocked"}, listener' = [listener EXCEPT ![p] = ear],
           Head(queue[p]) = "open" => ear = "blocked"
    PROVE  HostStep
<1>1. TypeOK /\ Hosted(p) /\ faults' \in 0..MaxFaults
  BY DEF ControlInv, TypeOK
<1>2. PICK s \in Seq(Contents) : s = queue[p]
  BY <1>1 DEF TypeOK
<1>3. PICK z \in Seq(Contents) : z = Tail(s)
  BY <1>2, TailFacts
<1>4. /\ Len(s) \in Nat \ {0} /\ Len(z) = Len(s) - 1 /\ Head(s) = s[1]
      /\ \A i \in 1..(Len(s) - 1) : z[i] = s[i + 1]
  BY <1>2, <1>3, TailFacts
<1>5. /\ queue'[p] = z /\ kernel'[p] = new /\ listener'[p] = ear
      /\ \A r \in Procs : r # p => Same(r)
  BY <1>1, <1>2, <1>3 DEF TypeOK, Same
<1>6. HostTyped'
  <2>1. queue' \in [Procs -> Seq(Contents)]
    BY <1>1, <1>2, <1>3 DEF TypeOK
  <2>2. \A r \in Procs : Len(queue'[r]) <= Backlog
    BY <1>1, <1>2, <1>4, <1>5 DEF TypeOK, Backlog, Same
  <2>3. /\ kernel' \in [Procs -> {"none", "starting", "running", "joining", "gone"}]
        /\ listener' \in [Procs -> {"none", "listening", "blocked", "ended"}]
    BY <1>1 DEF TypeOK
  <2> QED BY <1>1, <2>1, <2>2, <2>3 DEF TypeOK, HostTyped
<1>7. kernel[p] \notin {"none", "starting"} /\ new \notin {"none", "starting"}
  BY <1>1 DEF Hosted
<1>8. s[1] = "open" => ear = "blocked"
  BY <1>2, <1>4
<1>9. Hosted(p)'
  <2>1. why[p] = "none" => \A i \in 1..Len(z) : z[i] = "shutdown" =>
           new \in Over \/ \E j \in 1..(i - 1) : z[j] \in Kills
    <3> SUFFICES ASSUME why[p] = "none", NEW i \in 1..Len(z), z[i] = "shutdown", new \notin Over
                 PROVE  \E j \in 1..(i - 1) : z[j] \in Kills
      OBVIOUS
    <3>1. i + 1 \in 1..Len(s) /\ s[i + 1] = "shutdown" /\ kernel[p] \notin Over
      BY <1>4 DEF Over
    <3>2. PICK j \in 1..((i + 1) - 1) : s[j] \in Kills
      BY <1>1, <1>2, <3>1 DEF Hosted
    <3>3. j # 1
      BY <1>2, <1>4, <3>2 DEF Over
    <3>4. j - 1 \in 1..(i - 1) /\ z[j - 1] = s[j]
      BY <1>4, <3>2, <3>3
    <3> QED BY <3>2, <3>4
  <2> QED BY <1>5, <1>7, <2>1 DEF Hosted
<1>10. ASSUME KillQueued(p) PROVE Finished(p)' \/ KillQueued(p)'
  <2>1. PICK i \in 1..Len(s) : s[i] \in Kills
    BY <1>2, <1>10 DEF KillQueued
  <2>2. CASE i = 1
    BY <1>2, <1>4, <1>5, <2>1, <2>2 DEF Finished
  <2>3. CASE i # 1
    <3>1. PICK n \in Nat : n = Len(s)
      BY <1>4
    <3>2. PICK j \in 1..(n - 1) : i = j + 1
      <4>1. i \in 1..n
        BY <2>1, <3>1
      <4>2. i - 1 \in 1..(n - 1) /\ i = (i - 1) + 1
        BY <2>3, <4>1
      <4> QED BY <4>2
    <3>3. j \in 1..Len(z) /\ z[j] = s[i]
      BY <1>4, <3>1, <3>2
    <3> QED BY <1>5, <2>1, <3>3 DEF KillQueued
  <2> QED BY <2>2, <2>3
<1>11. ASSUME KillsOnly(p) PROVE Finished(p)'
  <2>1. s[1] \in Kills
    BY <1>2, <1>4, <1>11 DEF KillsOnly
  <2> QED BY <1>2, <1>4, <1>5, <2>1 DEF Finished
<1>12. Finished(p) => kernel[p] = "gone" /\ new = "gone" /\ s[1] = "open"
  BY <1>2, <1>4 DEF Finished
<1>13. Finished(p) => Finished(p)' /\ WillEnd(p)'
  BY <1>5, <1>8, <1>12 DEF Finished, WillEnd
<1>14. Shifts(p)
  BY <1>5, <1>7, <1>9, <1>10, <1>11, <1>13 DEF Shifts, Known
<1> QED BY <1>1, <1>5, <1>6, <1>14, OneShifts

\* One turn of server_listener.
LEMMA ListenerTurn ==
    ASSUME ControlInv, NEW p \in Procs, ServeRequest(p)
    PROVE  HostStep
<1>1. TypeOK /\ Hosted(p)
  BY DEF ControlInv
<1>2. listener[p] = "listening" /\ queue[p] # <<>> /\ faults' = faults
  BY DEF ServeRequest
<1>3. PICK s \in Seq(Contents) : s = queue[p]
  BY <1>1 DEF TypeOK
<1>4. Head(queue[p]) = s[1] /\ 1 \in 1..Len(s)
  BY <1>2, <1>3, TailFacts
<1>5. PICK request \in Contents : request = Head(queue[p])
  BY <1>2, <1>3, TailFacts
<1>6. kernel[p] \in {"running", "joining", "gone"}
  BY <1>1, <1>2 DEF TypeOK, Hosted
<1>7. CASE request \in Signals /\ ServeSignal(p, request)
  <2>1. CASE kernel[p] = "gone"
    <3>1. ListenerEnds(p) /\ kernel' = kernel /\ why' = why
      BY <1>7, <2>1 DEF ServeSignal
    <3> QED BY <1>2, <2>1, <3>1, ListenerEnded DEF Over
  <2>2. CASE kernel[p] # "gone"
    <3>1. PICK new \in {"none", "starting", "running", "joining", "gone"} :
             new = IF request \in {SIGTERM, SIGKILL} THEN "gone" ELSE kernel[p]
      BY <1>6
    <3>2. /\ kernel' = [kernel EXCEPT ![p] = new] /\ queue' = [queue EXCEPT ![p] = Tail(@)]
          /\ listener' = listener /\ why' = why
      BY <1>7, <2>2, <3>1 DEF ServeSignal
    <3>3. listener' = [listener EXCEPT ![p] = "listening"]
      BY <1>1, <1>2, <3>2 DEF TypeOK
    <3>4. request # "shutdown" /\ request # "open" /\ (request \in Kills => new = "gone") /\ new \in {kernel[p], "gone"}
      BY <1>7, <3>1 DEF Signals, POLL, SIGINT, SIGTERM, SIGKILL, Kills
    <3> QED BY <1>2, <1>5, <2>2, <3>2, <3>3, <3>4, QueueServed
  <2> QED BY <2>1, <2>2
<1>8. CASE request = "shutdown" /\ ListenerEnds(p) /\ UNCHANGED <<kernel, why>>
  <2>1. why[p] = "none" => kernel[p] \in Over
    <3>1. why[p] = "none" => kernel[p] \in Over \/ \E j \in 1..(1 - 1) : s[j] \in Kills
      BY <1>1, <1>3, <1>4, <1>5, <1>8 DEF Hosted
    <3> QED BY <3>1
  <2> QED BY <1>2, <1>8, <2>1, ListenerEnded
<1>9. CASE request = "empty" /\ ServeEmpty(p)
  <2>1. /\ ListenerEnds(p) /\ kernel' = kernel
        /\ why' = IF kernel[p] = "gone" THEN why ELSE Blame(p, "deaf")
    BY <1>9 DEF ServeEmpty
  <2> QED BY <1>2, <2>1, ListenerEnded DEF Over
<1>10. CASE request = "open" /\ ServeOpen(p)
  <2>1. /\ listener' = [listener EXCEPT ![p] = "blocked"] /\ queue' = [queue EXCEPT ![p] = Tail(@)]
        /\ kernel' = kernel /\ why' = why
    BY <1>10 DEF ServeOpen
  <2>2. kernel' = [kernel EXCEPT ![p] = kernel[p]]
    BY <1>1, <2>1 DEF TypeOK
  <2>3. request \notin Kills
    BY <1>10 DEF Kills, SIGTERM, SIGKILL
  <2>4. PICK new \in {"none", "starting", "running", "joining", "gone"} : new = kernel[p]
    BY <1>6
  <2> QED BY <1>2, <1>5, <1>10, <2>1, <2>2, <2>3, <2>4, QueueServed
<1> QED BY <1>5, <1>7, <1>8, <1>9, <1>10 DEF ServeRequest

-----------------------------------------------------------------------------
(* The gateway *)

Operations == {"none", "start", "stop", "restart", "auto"}

\* A step of the gateway, from what it does to the processes and to its own state.
LEMMA ControlKept ==
    ASSUME ControlInv, HostStep, pc' \in Steps, op' \in Operations,
           target' \in Procs \cup {None}, saved' \in Procs \cup {None},
           target' = None => pc' \in {"idle", "down", "launch"},
           pc' \in {"launch", "down"} => target' = None,
           \A p \in Procs : p = saved' => Known(p)',
           \A p \in Procs : p = target' => InStep(p)',
           \A p \in Procs : Owned(p) /\ ~Owned(p)' => Released(p)'
    PROVE  ControlInv'
<1>1. TypeOK'
  BY DEF TypeOK, HostStep, HostTyped, Operations
<1>2. ASSUME NEW p \in Procs PROVE Hosted(p)' /\ Released(p)'
  <2>1. Shifts(p) /\ Released(p)
    BY DEF ControlInv, HostStep
  <2>2. CASE Owned(p)
    BY <2>1, <2>2 DEF Shifts, Released
  <2>3. CASE ~Owned(p)
    BY <2>1, <2>3 DEF Released, Shifts
  <2> QED BY <2>2, <2>3
<1> QED BY <1>1, <1>2 DEF ControlInv

\* While an operation is under way, and whenever there is a proxy, it refers to a group.
LEMMA HasTarget ==
    ASSUME ControlInv, target # None \/ pc \notin {"idle", "down", "launch"}
    PROVE  \E p \in Procs : p = target /\ InStep(p) /\ pc \notin {"launch", "down"}
<1>1. target \in Procs /\ target # None
  BY DEF ControlInv, TypeOK
<1> QED BY <1>1 DEF ControlInv

\* The gateway goes on with the group its proxy refers to.
LEMMA GoesOn ==
    ASSUME ControlInv, HostStep, NEW p \in Procs, p = target, target' = target,
           pc \notin {"launch", "down"},
           pc' \in Steps \ {"launch", "down"}, op' \in Operations,
           saved' = saved \/ (saved' = p /\ Known(p)),
           pc' \notin {"confirm", "lterm", "lpoll", "lkill"} => Known(p),
           pc' \in {"lterm", "lpoll", "lkill"} => why'[p] # "none",
           why'[p] = "none" =>
              /\ pc' \in {"shut", "wait", "kill"} => Finished(p)' \/ KillQueued(p)'
              /\ pc' \in {"killwait", "cterm"} => Finished(p)' \/ KillsOnly(p)'
              /\ pc' = "reap" => Finished(p)'
              /\ pc' = "cshut" => Finished(p)' /\ WillEnd(p)'
    PROVE  ControlInv'
<1>1. TypeOK /\ p # None /\ InStep(p) /\ Shifts(p)
  BY ControlAssumption DEF ControlInv, HostStep
<1>2. InStep(p)'
  BY <1>1 DEF InStep, Shifts
<1>3. ASSUME NEW r \in Procs, r = saved' PROVE Known(r)'
  <2>1. Known(r)
    BY <1>3 DEF ControlInv
  <2> QED BY <2>1 DEF HostStep, Shifts
<1>4. ASSUME NEW r \in Procs, Owned(r) PROVE Owned(r)'
  BY <1>4 DEF Owned
<1>5. saved' \in Procs \cup {None} /\ target' \in Procs \cup {None} /\ target' # None
  BY <1>1 DEF TypeOK
<1>6. \A r \in Procs : r = target' => InStep(r)'
  BY <1>2
<1> QED BY <1>3, <1>4, <1>5, <1>6, ControlKept

\* The gateway drops its proxy.
LEMMA LetsGo ==
    ASSUME ControlInv, HostStep, NEW p \in Procs, p = target, target' = None,
           pc \notin {"launch", "down"},
           pc' \in {"idle", "launch"}, op' \in Operations, saved' = saved \/ saved' = None,
           why'[p] = "none" => Finished(p)' /\ WillEnd(p)'
    PROVE  ControlInv'
<1>1. TypeOK /\ \A r \in Procs : r # None
  BY ControlAssumption DEF ControlInv
<1>2. ASSUME NEW r \in Procs, r = saved' PROVE Known(r)'
  <2>1. Known(r)
    BY <1>1, <1>2 DEF ControlInv
  <2> QED BY <2>1 DEF HostStep, Shifts
<1>3. ASSUME NEW r \in Procs, Owned(r) PROVE Released(r)'
  BY <1>3 DEF Owned, Released
<1>4. saved' \in Procs \cup {None} /\ pc' \in Steps
  BY <1>1 DEF TypeOK, Steps
<1> QED BY <1>1, <1>2, <1>3, <1>4, ControlKept

\* The gateway has no proxy and does not get one.
LEMMA StaysWithout ==
    ASSUME ControlInv, target = None, target' = None,
           kernel' = kernel, listener' = listener, queue' = queue, why' = why, faults' = faults,
           pc = "down" => saved = None, saved' = saved,
           pc' \in {"idle", "launch"}, op' \in Operations
    PROVE  ControlInv'
<1>1. TypeOK /\ \A r \in Procs : r # None
  BY ControlAssumption DEF ControlInv
<1>2. HostStep
  BY <1>1, NothingHappens DEF TypeOK
<1>3. ASSUME NEW r \in Procs, r = saved' PROVE Known(r)'
  <2>1. Known(r)
    BY <1>3 DEF ControlInv
  <2> QED BY <2>1, <1>2 DEF HostStep, Shifts
<1>4. ASSUME NEW r \in Procs PROVE ~Owned(r)
  BY <1>1 DEF Owned
<1>5. saved' \in Procs \cup {None} /\ pc' \in Steps
  BY <1>1 DEF TypeOK, Steps
<1> QED BY <1>1, <1>2, <1>3, <1>4, <1>5, ControlKept

\* A launch: nothing is known of the group but that it was started.
LEMMA LaunchKeeps ==
    ASSUME ControlInv, NEW p \in Procs, Launch(p)
    PROVE  ControlInv'
<1>1. TypeOK /\ p # None /\ Hosted(p) /\ target = None /\ op \in Operations
  BY ControlAssumption DEF ControlInv, Launch, TypeOK, Operations
<1>2. /\ pc = "launch" /\ kernel[p] = "none" /\ kernel' = [kernel EXCEPT ![p] = "starting"]
      /\ target' = p /\ pc' = "confirm" /\ listener' = listener /\ queue' = queue /\ why' = why
      /\ op' = op /\ saved' = saved /\ faults' = faults
  BY DEF Launch
<1>3. kernel'[p] = "starting" /\ \A r \in Procs : r # p => kernel'[r] = kernel[r]
  BY <1>1, <1>2 DEF TypeOK
<1>4. TypeOK'
  BY <1>1, <1>2 DEF TypeOK, Steps
<1>5. Hosted(p)' /\ Released(p)' /\ InStep(p)'
  <2>1. Hosted(p)'
    BY <1>1, <1>2, <1>3 DEF Hosted, Over
  <2>2. Released(p)' /\ InStep(p)'
    BY <1>2, <1>3 DEF Released, Owned, InStep
  <2> QED BY <2>1, <2>2
<1>6. ASSUME NEW r \in Procs, r # p PROVE Hosted(r)' /\ Released(r)'
  <2>1. Same(r)
    BY <1>2, <1>3, <1>6 DEF Same
  <2>2. Shifts(r) /\ Released(r)
    BY <1>2, <2>1, SameShifts DEF ControlInv
  <2>3. ~Owned(r) /\ ~Owned(r)'
    BY <1>1, <1>2, <1>6, ControlAssumption DEF Owned
  <2> QED BY <2>2, <2>3 DEF Released, Shifts
<1>7. ASSUME NEW r \in Procs, r = saved' PROVE Known(r)'
  BY <1>2, <1>7 DEF ControlInv, Known
<1> QED BY <1>2, <1>4, <1>5, <1>6, <1>7 DEF ControlInv

\* What start_kernel does after the launch.
LEMMA StartKeeps ==
    ASSUME ControlInv, ReceiveConnectionInfo \/ SaveSession \/ LaunchTimesOut
    PROVE  ControlInv'
<1>1. pc \in {"confirm", "save"} /\ op \in Operations /\ TypeOK /\ faults \in 0..MaxFaults
  BY DEF ReceiveConnectionInfo, SaveSession, LaunchTimesOut, ControlInv, TypeOK, Operations
<1>2. PICK p \in Procs : p = target /\ InStep(p) /\ pc \notin {"launch", "down"}
  BY <1>1, HasTarget
<1>3. CASE ReceiveConnectionInfo
  <2>1. /\ kernel' = kernel /\ listener' = listener /\ queue' = queue /\ why' = why /\ faults' = faults
        /\ pc' = "save" /\ op' = op /\ target' = target /\ saved' = saved /\ Known(p)
    BY <1>2, <1>3 DEF ReceiveConnectionInfo, Goto, host, Known
  <2>2. HostStep
    BY <1>1, <2>1, NothingHappens
  <2> QED BY <1>1, <1>2, <2>1, <2>2, GoesOn DEF Steps
<1>4. CASE SaveSession
  <2>1. /\ kernel' = kernel /\ listener' = listener /\ queue' = queue /\ why' = why /\ faults' = faults
        /\ pc = "save" /\ pc' = "idle" /\ op' = "none" /\ target' = target /\ saved' = target
    BY <1>4 DEF SaveSession, host
  <2>2. HostStep /\ Known(p)
    BY <1>1, <1>2, <2>1, NothingHappens DEF InStep
  <2> QED BY <1>1, <1>2, <2>1, <2>2, GoesOn DEF Steps, Operations
<1>5. CASE LaunchTimesOut
  <2>1. /\ kernel' = kernel /\ listener' = listener /\ queue' = queue /\ faults' = faults
        /\ why' = Blame(p, "launch")
        /\ pc' = "lterm" /\ op' = op /\ target' = target /\ saved' = saved
    BY <1>2, <1>5 DEF LaunchTimesOut, Goto
  <2>2. HostStep /\ why'[p] # "none"
    BY <1>1, <2>1, BlameOnly
  <2> QED BY <1>1, <1>2, <2>1, <2>2, GoesOn DEF Steps
<1> QED BY <1>3, <1>4, <1>5

\* kill() after a launch timed out: a mishap is on record.
LEMMA KillKeeps ==
    ASSUME ControlInv,
           KillTerminates \/ KillGivesUp \/ KillKills \/ \E answer \in Answers : KillPolls(answer)
    PROVE  ControlInv'
<1>1. pc \in {"lterm", "lpoll", "lkill"} /\ op \in Operations /\ TypeOK /\ faults \in 0..MaxFaults
  BY DEF KillTerminates, KillGivesUp, KillKills, KillPolls, ControlInv, TypeOK, Operations
<1>2. PICK p \in Procs : p = target /\ InStep(p) /\ pc \notin {"launch", "down"}
  BY <1>1, HasTarget
<1>3. why[p] # "none" /\ kernel[p] # "none"
  BY <1>1, <1>2 DEF InStep
<1>4. HostStep
  <2>1. CASE KillGivesUp
    <3>1. /\ kernel' = kernel /\ listener' = listener /\ queue' = queue /\ why' = why
          /\ faults' = faults
      BY <2>1 DEF KillGivesUp, host
    <3> QED BY <1>1, <3>1, NothingHappens
  <2>2. CASE \E signum \in Signals, answer \in Answers : RemoteSignal(p, signum, FALSE, answer)
    <3>1. PICK signum \in Signals, answer \in Answers : RemoteSignal(p, signum, FALSE, answer)
      BY <2>2
    <3> QED BY <1>3, <3>1, RemoteSignalFacts
  <2>3. POLL \in Signals /\ SIGTERM \in Signals /\ SIGKILL \in Signals
    BY DEF Signals
  <2> QED BY <1>2, <2>1, <2>2, <2>3 DEF KillTerminates, KillKills, KillPolls
<1>5. why'[p] # "none"
  BY <1>3, <1>4 DEF HostStep, Shifts
<1>6. \/ target' = target /\ pc' \in {"lpoll", "lkill"} /\ op' = op /\ saved' = saved
      \/ target' = None /\ pc' = "idle" /\ op' = "none" /\ saved' = saved
  BY DEF KillTerminates, KillGivesUp, KillKills, KillPolls, Goto
<1>7. CASE target' = target /\ pc' \in {"lpoll", "lkill"} /\ op' = op /\ saved' = saved
  BY <1>1, <1>2, <1>4, <1>5, <1>7, GoesOn DEF Steps
<1>8. CASE target' = None /\ pc' = "idle" /\ op' = "none" /\ saved' = saved
  BY <1>1, <1>2, <1>4, <1>5, <1>8, LetsGo DEF Operations
<1> QED BY <1>6, <1>7, <1>8

\* What happens between two operations: a request, an interrupt, a poll of the restarter.
LEMMA IdleKeeps ==
    ASSUME ControlInv,
           Stop \/ Restart \/ Interrupt \/ \E answer \in Answers : RestarterPolls(answer)
    PROVE  ControlInv'
<1>1. pc = "idle" /\ target # None /\ op \in Operations /\ TypeOK /\ faults \in 0..MaxFaults
  BY DEF Stop, Restart, RequestShutdown, Interrupt, RestarterPolls, ControlInv, TypeOK, Operations
<1>2. PICK p \in Procs : p = target /\ InStep(p) /\ pc \notin {"launch", "down"}
  BY <1>1, HasTarget
<1>3. Known(p)
  BY <1>1, <1>2 DEF InStep
<1>4. POLL \in Signals /\ SIGINT \in Signals
  BY DEF Signals
<1>5. CASE Stop \/ Restart
  <2>1. /\ kernel' = kernel /\ listener' = listener /\ queue' = queue /\ why' = why /\ faults' = faults
        /\ pc' = "term" /\ op' \in Operations /\ target' = target /\ saved' = saved
    BY <1>5 DEF Stop, Restart, RequestShutdown, host, Operations
  <2>2. HostStep
    BY <1>1, <2>1, NothingHappens
  <2> QED BY <1>1, <1>2, <1>3, <2>1, <2>2, GoesOn DEF Steps
<1>6. CASE Interrupt
  <2>1. PICK answer \in Answers : SendSignal(p, SIGINT, answer)
    BY <1>2, <1>6 DEF Interrupt
  <2>2. HostStep
    BY <1>3, <1>4, <2>1, SendSignalFacts
  <2>3. pc' = pc /\ op' = op /\ target' = target /\ saved' = saved
    BY <1>6 DEF Interrupt
  <2> QED BY <2>2, <2>3, HostSteps
<1>7. ASSUME NEW answer \in Answers, RestarterPolls(answer) PROVE ControlInv'
  <2>1. /\ SendSignal(p, POLL, answer) /\ target' = target /\ saved' = saved
        /\ answer = "alive" => pc' = pc /\ op' = op
        /\ answer # "alive" => pc' = "kill" /\ op' \in Operations
    BY <1>2, <1>7 DEF RestarterPolls, Operations
  <2>2. HostStep /\ (why'[p] = "none" /\ answer = "dead" => Finished(p)')
    BY <1>3, <1>4, <2>1, SendSignalFacts
  <2>3. answer \in {"alive", "dead"}
    BY DEF Answers
  <2>4. CASE answer = "alive"
    BY <2>1, <2>2, <2>4, HostSteps
  <2>5. CASE answer = "dead"
    BY <1>1, <1>2, <1>3, <2>1, <2>2, <2>5, GoesOn DEF Steps
  <2> QED BY <2>3, <2>4, <2>5
<1> QED BY <1>5, <1>6, <1>7

\* The shutdown sequence: a signal that kills is under way after request_shutdown, two are
\* after _kill_kernel, and the one of cleanup is carried out or finds the kernel over.
LEMMA ShutdownKeeps ==
    ASSUME ControlInv,
           \/ TermListener \/ ShutListener \/ WaitExpires \/ KillKernel \/ Reap \/ Cleanup
           \/ \E answer \in Answers : WaitPolls(answer)
    PROVE  ControlInv'
<1>1. /\ pc \in {"term", "shut", "wait", "kill", "killwait", "reap", "cterm", "cshut"}
      /\ op \in Operations /\ TypeOK /\ faults \in 0..MaxFaults
  BY DEF TermListener, ShutListener, WaitExpires, KillKernel, Reap, Cleanup, WaitPolls,
         ControlInv, TypeOK, Operations
<1>2. PICK p \in Procs : p = target /\ InStep(p) /\ pc \notin {"launch", "down"}
  BY <1>1, HasTarget
<1>3. Known(p)
  BY <1>1, <1>2 DEF InStep
<1>4. /\ POLL \in Signals /\ SIGTERM \in Signals /\ SIGKILL \in Signals
      /\ SIGTERM \in Kills /\ SIGKILL \in Kills
  BY DEF Signals, Kills
<1>5. why[p] = "none" =>
         /\ pc \in {"shut", "wait", "kill"} => Finished(p) \/ KillQueued(p)
         /\ pc \in {"killwait", "cterm"} => Finished(p) \/ KillsOnly(p)
         /\ pc = "reap" => Finished(p)
         /\ pc = "cshut" => Finished(p) /\ WillEnd(p)
  BY <1>2 DEF InStep
<1>6. HostStep /\ why'[p] = "none" => why[p] = "none"
  BY DEF HostStep, Shifts
<1>7. CASE TermListener
  <2>1. PICK answer \in Answers : SendSignal(p, SIGTERM, answer)
    BY <1>2, <1>7 DEF TermListener
  <2>2. /\ HostStep
        /\ why'[p] = "none" => /\ Finished(p)' \/ KillQueued(p)'
                               /\ Finished(p) \/ KillsOnly(p) => Finished(p)' /\ WillEnd(p)'
    BY <1>3, <1>4, <2>1, SendSignalFacts
  <2>3. /\ op' = op /\ target' = target /\ saved' = saved
        /\ (pc = "term" /\ pc' = "shut") \/ (pc = "cterm" /\ pc' = "cshut")
    BY <1>7 DEF TermListener, Goto
  <2> QED BY <1>1, <1>2, <1>3, <1>5, <1>6, <2>2, <2>3, GoesOn DEF Steps
<1>8. CASE ShutListener
  <2>1. /\ pc = "shut" /\ pc' = "wait" /\ op' = op /\ target' = target /\ saved' = saved
        /\ SendShutdown(p)
    BY <1>2, <1>8 DEF ShutListener, Goto
  <2>2. HostStep
    BY <1>5, <2>1, SendShutdownFacts
  <2>3. why'[p] = "none" => Finished(p)' \/ KillQueued(p)'
    BY <1>5, <1>6, <2>1, <2>2 DEF HostStep, Shifts
  <2> QED BY <1>1, <1>2, <1>3, <2>1, <2>2, <2>3, GoesOn DEF Steps
<1>9. CASE WaitExpires
  <2>1. /\ kernel' = kernel /\ listener' = listener /\ queue' = queue /\ why' = why /\ faults' = faults
        /\ op' = op /\ target' = target /\ saved' = saved
        /\ (pc = "wait" /\ pc' = "kill") \/ (pc = "killwait" /\ pc' = "cterm")
    BY <1>9 DEF WaitExpires, Goto, host
  <2>2. HostStep
    BY <1>1, <2>1, NothingHappens
  <2>3. why'[p] = "none" => /\ pc' = "kill" => Finished(p)' \/ KillQueued(p)'
                            /\ pc' = "cterm" => Finished(p)' \/ KillsOnly(p)'
    BY <1>5, <1>6, <2>1, <2>2 DEF HostStep, Shifts
  <2> QED BY <1>1, <1>2, <1>3, <2>1, <2>2, <2>3, GoesOn DEF Steps
<1>10. CASE KillKernel
  <2>1. PICK answer \in Answers : SendSignal(p, SIGKILL, answer)
    BY <1>2, <1>10 DEF KillKernel
  <2>2. /\ HostStep
        /\ why'[p] = "none" => (Finished(p) \/ KillQueued(p) => Finished(p)' \/ KillsOnly(p)')
    BY <1>3, <1>4, <2>1, SendSignalFacts
  <2>3. pc = "kill" /\ pc' = "killwait" /\ op' = op /\ target' = target /\ saved' = saved
    BY <1>10 DEF KillKernel, Goto
  <2> QED BY <1>1, <1>2, <1>3, <1>5, <1>6, <2>2, <2>3, GoesOn DEF Steps
<1>11. CASE Reap
  <2>1. PICK answer \in Answers : SendSignal(p, POLL, answer)
    BY <1>2, <1>11 DEF Reap
  <2>2. HostStep
    BY <1>3, <1>4, <2>1, SendSignalFacts
  <2>3. pc = "reap" /\ pc' = "cterm" /\ op' = op /\ target' = target /\ saved' = saved
    BY <1>11 DEF Reap, Goto
  <2>4. why'[p] = "none" => Finished(p)'
    BY <1>5, <1>6, <2>2, <2>3 DEF HostStep, Shifts
  <2> QED BY <1>1, <1>2, <1>3, <2>2, <2>3, <2>4, GoesOn DEF Steps
<1>12. CASE Cleanup
  <2>1. /\ pc = "cshut" /\ SendShutdown(p) /\ target' = None /\ pc' \in {"idle", "launch"}
        /\ op' \in Operations /\ (saved' = saved \/ saved' = None)
    BY <1>1, <1>2, <1>12 DEF Cleanup, Operations
  <2>2. HostStep
    BY <1>5, <2>1, SendShutdownFacts
  <2>3. why'[p] = "none" => Finished(p)' /\ WillEnd(p)'
    BY <1>5, <1>6, <2>1, <2>2 DEF HostStep, Shifts
  <2> QED BY <1>2, <2>1, <2>2, <2>3, LetsGo
<1>13. ASSUME NEW answer \in Answers, WaitPolls(answer) PROVE ControlInv'
  <2>1. /\ SendSignal(p, POLL, answer) /\ op' = op /\ target' = target /\ saved' = saved
        /\ answer = "dead" => pc' = "reap"
        /\ answer # "dead" => pc' = pc
    BY <1>2, <1>13 DEF WaitPolls, Goto
  <2>2. HostStep /\ (why'[p] = "none" /\ answer = "dead" => Finished(p)')
    BY <1>3, <1>4, <2>1, SendSignalFacts
  <2>3. CASE answer = "dead"
    BY <1>1, <1>2, <1>3, <2>1, <2>2, <2>3, GoesOn DEF Steps
  <2>4. CASE answer # "dead"
    BY <2>1, <2>2, <2>4, HostSteps
  <2> QED BY <2>3, <2>4
<1> QED BY <1>7, <1>8, <1>9, <1>10, <1>11, <1>12, <1>13

\* A crash: a group whose session was written is still referred to by it.
LEMMA CrashKeeps ==
    ASSUME ControlInv, NEW left \in {"nothing", "empty", "open"}, Crash(left)
    PROVE  ControlInv'
<1>1. /\ pc # "down" /\ faults' = faults + 1 /\ faults' \in 0..MaxFaults
      /\ kernel' = kernel /\ listener' = listener /\ saved' = saved
      /\ pc' = "down" /\ op' = "none" /\ target' = None
      /\ why' = IF target # None /\ target # saved THEN Blame(target, "crash") ELSE why
  BY ControlAssumption DEF Crash, ControlInv, TypeOK
<1>2. TypeOK /\ \A r \in Procs : r # None
  BY ControlAssumption DEF ControlInv
<1>3. /\ why' \in [Procs -> {"none", "deaf", "ssh", "slow", "crash", "launch", "revive"}]
      /\ \A r \in Procs : r # target => why'[r] = why[r]
      /\ \A r \in Procs : why[r] # "none" => why'[r] # "none"
      /\ target # None /\ target # saved => why'[target] # "none"
  <2>1. CASE target # None /\ target # saved
    <3>1. PICK p \in Procs : p = target
      BY <1>2, <2>1 DEF TypeOK
    <3>2. why' = Blame(p, "crash")
      BY <1>1, <2>1, <3>1
    <3>3. /\ why' \in [Procs -> {"none", "deaf", "ssh", "slow", "crash", "launch", "revive"}]
          /\ why'[p] # "none" /\ \A r \in Procs : r # p => why'[r] = why[r]
      BY <3>2, BlameFacts
    <3> QED BY <3>1, <3>3
  <2>2. CASE ~(target # None /\ target # saved)
    BY <1>1, <1>2, <2>2 DEF TypeOK
  <2> QED BY <2>1, <2>2
<1>4. HostStep
  <2>1. CASE left = "nothing"
    <3>1. queue' = queue
      BY <2>1 DEF Crash
    <3>2. CASE target # None /\ target # saved
      <4>1. PICK p \in Procs : p = target
        BY <1>2, <3>2 DEF TypeOK
      <4>2. why' = Blame(p, "crash")
        BY <1>1, <3>2, <4>1
      <4> QED BY <1>1, <3>1, <4>2, BlameOnly
    <3>3. CASE ~(target # None /\ target # saved)
      BY <1>1, <3>1, <3>3, NothingHappens
    <3> QED BY <3>2, <3>3
  <2>2. CASE left \in {"empty", "open"}
    <3>1. /\ target # None /\ Reachable(target) /\ Len(queue[target]) < Backlog
          /\ queue' = [queue EXCEPT ![target] = Append(@, left)]
      BY <2>2 DEF Crash
    <3>2. PICK p \in Procs : p = target
      BY <1>2, <3>1 DEF TypeOK
    <3>3. left \in Contents /\ left # "shutdown"
      BY <2>2 DEF Contents
    <3> QED BY <1>1, <1>3, <3>1, <3>2, <3>3, QueueGrows
  <2> QED BY <2>1, <2>2
<1>5. ASSUME NEW r \in Procs, r = saved' PROVE Known(r)'
  <2>1. Known(r)
    BY <1>1, <1>5 DEF ControlInv
  <2> QED BY <2>1, <1>4 DEF HostStep, Shifts
<1>6. ASSUME NEW r \in Procs, Owned(r), ~Owned(r)' PROVE Released(r)'
  <2>1. r = target /\ r # saved
    BY <1>1, <1>6 DEF Owned
  <2> QED BY <1>2, <1>3, <2>1 DEF Released
<1>7. saved' \in Procs \cup {None} /\ pc' \in Steps /\ op' \in Operations
  BY <1>1, <1>2 DEF TypeOK, Steps, Operations
<1> QED BY <1>1, <1>2, <1>4, <1>5, <1>6, <1>7, ControlKept

\* The poll of a revival: a group whose listener still listens is let go of on record.
LEMMA RevivalFacts ==
    ASSUME ControlInv, NEW p \in Procs, NEW answer \in Answers, RevivalPolls(p, answer), Known(p)
    PROVE  /\ HostStep
           /\ why'[p] = "none" /\ answer = "dead" => Finished(p)' /\ WillEnd(p)'
<1>1. TypeOK /\ Hosted(p) /\ faults \in 0..MaxFaults /\ POLL \in Signals
  BY DEF ControlInv, TypeOK, Signals
<1>2. CASE answer = "dead" /\ kernel[p] = "gone" /\ listener[p] = "listening"
  <2>1. /\ why' = Blame(p, "revive") /\ kernel' = kernel /\ listener' = listener
        /\ queue' = queue /\ faults' = faults
    BY <1>2 DEF RevivalPolls
  <2> QED BY <1>1, <2>1, BlameOnly
<1>3. CASE ~(answer = "dead" /\ kernel[p] = "gone" /\ listener[p] = "listening")
  <2>1. SendSignal(p, POLL, answer)
    BY <1>3 DEF RevivalPolls
  <2>2. /\ HostStep /\ kernel'[p] = kernel[p]
        /\ why'[p] = "none" /\ answer = "dead" => Finished(p)'
    BY <1>1, <2>1, SendSignalFacts
  <2>3. answer = "dead" => listener'[p] = listener[p]
    BY <2>1 DEF SendSignal, RemoteSignal, Deliver, SshKill, host, POLL, SIGTERM, SIGKILL
  <2> QED BY <1>3, <2>2, <2>3 DEF Finished, WillEnd
<1> QED BY <1>2, <1>3

\* The revival of a kernel: its session is dropped only when the kernel is over.
LEMMA ReviveKeeps ==
    ASSUME ControlInv, NEW answer \in Answers, Revive(answer)
    PROVE  ControlInv'
<1>1. /\ pc = "down" /\ saved # None /\ RevivalPolls(saved, answer) /\ pc' = "idle" /\ op' = op
      /\ answer = "alive" => target' = saved /\ saved' = saved
      /\ answer # "alive" => saved' = None /\ target' = target
  BY DEF Revive
<1>2. TypeOK /\ target = None /\ \A r \in Procs : r # None
  BY <1>1, ControlAssumption DEF ControlInv
<1>3. PICK p \in Procs : p = saved
  BY <1>1, <1>2 DEF TypeOK
<1>4. Known(p) /\ Hosted(p) /\ kernel[p] # "none"
  BY <1>3 DEF ControlInv, Hosted, Known
<1>5. answer \in {"alive", "dead"} /\ pc' \in Steps /\ op' \in Operations
  BY <1>1, <1>2 DEF Answers, Steps, TypeOK, Operations
<1>6. HostStep /\ (why'[p] = "none" /\ answer = "dead" => Finished(p)' /\ WillEnd(p)')
  BY <1>1, <1>3, <1>4, RevivalFacts
<1>7. Known(p)' /\ kernel'[p] # "none"
  BY <1>4, <1>6 DEF HostStep, Shifts
<1>8. InStep(p)'
  BY <1>1, <1>7 DEF InStep
<1>9. ASSUME NEW r \in Procs, Owned(r), ~Owned(r)' PROVE Released(r)'
  <2>1. r = p /\ answer = "dead"
    BY <1>1, <1>2, <1>3, <1>5, <1>9 DEF Owned
  <2> QED BY <1>6, <2>1 DEF Released
<1>10. CASE answer = "alive"
  BY <1>1, <1>2, <1>3, <1>5, <1>6, <1>7, <1>8, <1>9, <1>10, ControlKept
<1>11. CASE answer = "dead"
  BY <1>1, <1>2, <1>5, <1>6, <1>9, <1>11, ControlKept
<1> QED BY <1>5, <1>10, <1>11

-----------------------------------------------------------------------------
(* Theorems *)

\* Initially there is no process and no proxy.
LEMMA ControlInit ==
    ASSUME Init PROVE ControlInv
<1>1. \A p \in Procs : kernel[p] = "none" /\ listener[p] = "none" /\ queue[p] = <<>> /\ p # None
  BY ControlAssumption DEF Init
<1>2. <<>> \in Seq(Contents) /\ Len(<<>>) = 0
  BY EmptySeq
<1>3. TypeOK
  BY <1>1, <1>2, ControlAssumption DEF Init, TypeOK, Steps, Backlog
<1>4. ASSUME NEW p \in Procs PROVE Hosted(p) /\ Released(p) /\ p # saved /\ p # target
  BY <1>1, <1>2 DEF Init, Hosted, Released
<1> QED BY <1>3, <1>4 DEF ControlInv, Init

\* Every step keeps the invariant.
LEMMA ControlStep ==
    ASSUME ControlInv, [Next]_vars PROVE ControlInv'
<1>1. CASE UNCHANGED vars
  <2>1. /\ kernel' = kernel /\ listener' = listener /\ queue' = queue /\ why' = why
        /\ pc' = pc /\ op' = op /\ target' = target /\ saved' = saved /\ faults' = faults
        /\ faults \in 0..MaxFaults
    BY <1>1 DEF vars, ControlInv, TypeOK
  <2> QED BY <2>1, NothingHappens, HostSteps
<1>2. CASE StartKernel \/ LaunchRefused \/ StartEmpty
  <2>1. /\ kernel' = kernel /\ listener' = listener /\ queue' = queue /\ why' = why
        /\ target' = target /\ saved' = saved /\ faults' = faults /\ target = None
        /\ pc = "down" => saved = None
        /\ pc' \in {"idle", "launch"} /\ op' \in Operations
    BY <1>2 DEF StartKernel, LaunchRefused, StartEmpty, host, ControlInv, TypeOK, Operations
  <2> QED BY <2>1, StaysWithout
<1>3. CASE \E p \in Procs : Launch(p)
  BY <1>3, LaunchKeeps
<1>4. CASE ReceiveConnectionInfo \/ SaveSession \/ LaunchTimesOut
  BY <1>4, StartKeeps
<1>5. CASE KillTerminates \/ KillGivesUp \/ KillKills \/ \E answer \in Answers : KillPolls(answer)
  BY <1>5, KillKeeps
<1>6. CASE Stop \/ Restart \/ Interrupt \/ \E answer \in Answers : RestarterPolls(answer)
  BY <1>6, IdleKeeps
<1>7. CASE \/ TermListener \/ ShutListener \/ WaitExpires \/ KillKernel \/ Reap \/ Cleanup
           \/ \E answer \in Answers : WaitPolls(answer)
  BY <1>7, ShutdownKeeps
<1>8. CASE \E answer \in Answers : Revive(answer)
  BY <1>8, ReviveKeeps
<1>9. CASE \E left \in {"nothing", "empty", "open"} : Crash(left)
  BY <1>9, CrashKeeps
<1>10. ASSUME NEW p \in Procs,
              \/ LauncherStarts(p) \/ LauncherRefuses(p) \/ KernelAppEnds(p) \/ KernelDies(p)
              \/ KernelExits(p) \/ ServeRequest(p)
       PROVE  ControlInv'
  <2>1. pc' = pc /\ op' = op /\ target' = target /\ saved' = saved
    BY <1>10 DEF LauncherStarts, LauncherRefuses, KernelAppEnds, KernelDies, KernelExits, ServeRequest
  <2>2. HostStep
    BY <1>10, KernelMoves, ListenerTurn
  <2> QED BY <2>1, <2>2, HostSteps
<1> QED BY <1>1, <1>2, <1>3, <1>4, <1>5, <1>6, <1>7, <1>8, <1>9, <1>10 DEF Next, GatewayStep

\* The invariant holds in every reachable state.
LEMMA ControlInvariant == Spec => []ControlInv
  BY ControlInit, ControlStep, PTL DEF Spec

\* No more connections wait than the backlog of the listening socket holds, and an operation
\* that is under way always has a process group to act on (DistributedProcessProxy, the
\* kernel manager around it).
THEOREM ControlTyped == Spec => []TypeOK
<1>1. ControlInv => TypeOK
  BY DEF ControlInv
<1> QED BY <1>1, ControlInvariant, PTL

\* Whatever the order of requests, polls, deaths, crashes and revivals, what the gateway has
\* let go of ends, the kernel and the listener, unless one of six mishaps is on record; only
\* the listener of a kernel that has gone may stay, held by a connection that a dead gateway
\* host left open (shutdown_listener, cleanup, _kill_kernel, start_kernel_from_session).
THEOREM NothingLeftBehind == Spec => []NothingLeft
<1>1. ASSUME ControlInv PROVE NothingLeft
  <2> SUFFICES ASSUME NEW p \in Procs, kernel[p] # "none", ~Owned(p), Drained(p), why[p] = "none"
               PROVE  /\ kernel[p] \in Over
                      /\ listener[p] # "listening"
                      /\ kernel[p] = "joining" => listener[p] = "ended"
    BY DEF NothingLeft, Over
  <2>1. Finished(p) /\ WillEnd(p) /\ Hosted(p)
    BY <1>1 DEF ControlInv, Released
  <2>2. kernel[p] \in Over
    BY <2>1 DEF Finished, Hosted, Over
  <2>3. kernel[p] = "joining" => listener[p] = "ended"
    BY <2>1 DEF Finished
  <2>4. listener[p] # "listening"
    BY <2>1 DEF WillEnd, Drained
  <2> QED BY <2>2, <2>3, <2>4
<1> QED BY <1>1, ControlInvariant, PTL

\* Only a poll of the restarter begins to kill a kernel, and it answers "dead" for a running
\* kernel only when a mishap is on record (send_signal).
THEOREM LiveKernelsKept == Spec => NoLiveKernelReplaced
<1>1. ASSUME ControlInv, ControlInv', [Next]_vars
      PROVE  [pc = "idle" /\ pc' = "kill" => kernel[target] # "running" \/ why'[target] # "none"]_vars
  <2> SUFFICES ASSUME pc = "idle", pc' = "kill", Next, why'[target] = "none"
               PROVE  kernel[target] # "running"
    BY <1>1 DEF vars
  <2>1. PICK answer \in Answers : RestarterPolls(answer)
    BY DEF Next, GatewayStep, StartKernel, LaunchRefused, StartEmpty, Launch, ReceiveConnectionInfo,
           SaveSession, LaunchTimesOut, KillTerminates, KillGivesUp, KillKills, KillPolls, Stop,
           Restart, RequestShutdown, Interrupt, TermListener, ShutListener, WaitExpires, KillKernel,
           Reap, Cleanup, WaitPolls, Revive, Crash, LauncherStarts, LauncherRefuses, KernelAppEnds,
           KernelDies, KernelExits, ServeRequest, Goto
  <2>2. target # None /\ answer # "alive" /\ SendSignal(target, POLL, answer)
    BY <2>1 DEF RestarterPolls
  <2>3. PICK p \in Procs : p = target /\ InStep(p) /\ pc \notin {"launch", "down"}
    BY <1>1, <2>2, HasTarget
  <2>4. Known(p) /\ POLL \in Signals /\ answer = "dead"
    BY <2>2, <2>3 DEF InStep, Signals, Answers
  <2>5. Finished(p)' /\ kernel'[p] = kernel[p]
    BY <1>1, <2>2, <2>3, <2>4, SendSignalFacts
  <2>6. Hosted(p)'
    BY <1>1 DEF ControlInv
  <2> QED BY <2>3, <2>5, <2>6 DEF Finished, Hosted, Over
<1> QED BY <1>1, ControlInvariant, PTL DEF Spec, NoLiveKernelReplaced
=============================================================================
