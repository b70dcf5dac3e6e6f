-------------------------- MODULE ImagePullerProofs --------------------------
(***************************************************************************)
(* Proofs about ImagePuller, for any number of worker threads, images and  *)
(* retries, and any lists that a config map may hold.                      *)
(***************************************************************************)
EXTENDS ImagePuller, SequenceTheorems, FiniteSetTheorems, TLAPS

\* The environment is read once and never changes.
ConfigOK ==
    config \in [fetcher : {"kernelspecs", "static", "configmap", "combined"},
                runtime : {"docker", "containerd"}, recognized : BOOLEAN,
                policy : {"IfNotPresent", "Always"}]

\* Only join() leaves names unfinished: a round begins with an empty queue, and with all the
\* workers, since one that a null item has ended keeps join() waiting.
RoundsApart == main # "join" => unfinished = 0

\* A thread that neither waits for the queue nor has ended holds the name of an image.
BusyWithImage == \A w \in Busy : worker[w].image \in Images

Distinct(s) == \A i, j \in 1..Len(s) : s[i] = s[j] => i = j

\* Unless the names come from a config map alone, each is queued once, and not while a
\* worker pulls it.
QueuedOnce ==
    config.fetcher # "configmap" =>
        /\ Distinct(queue)
        /\ \A w \in Busy, i \in 1..Len(queue) : queue[i] # worker[w].image

PullerInv ==
    /\ TypeOK /\ ConfigOK /\ UnfinishedExact /\ RoundsApart /\ BusyWithImage
    /\ QueuedOnce /\ OneWorkerPerImage /\ ForgetsWhatIsThere /\ PulledIsPresent

-----------------------------------------------------------------------------
(* What the fetchers answer *)

\* A set iterated in any order yields each of its members once.
LEMMA OrdersDistinct ==
    ASSUME NEW S, IsFiniteSet(S), NEW answer \in Orders(S)
    PROVE  answer.kind = "names" /\ answer.names \in Seq(S) /\ Distinct(answer.names)
<1> DEFINE n == Cardinality(S)
<1>1. n \in Nat
  BY FS_CardinalityType
<1>2. PICK f \in [1..n -> S] : Elements(f) = S /\ answer = Names(f)
  BY DEF Orders
<1>3. Len(f) = n /\ f \in Seq(S)
  BY <1>1, <1>2, IsASeq, LenProperties
<1>4. f \in Surjection(1..n, S)
  BY <1>2, <1>3 DEF Elements, Surjection
<1>5. IsFiniteSet(1..n) /\ Cardinality(1..n) = n
  BY <1>1, FS_Interval
<1>6. f \in Injection(1..n, S)
  BY <1>4, <1>5, FS_SurjSameCardinalityImpliesInj
<1> QED BY <1>2, <1>3, <1>6 DEF Names, Distinct, Injection, IsInjective

\* Every fetcher answers with images and nulls; all but the config map's name each once.
LEMMA AnswersTyped ==
    ASSUME ConfigOK, NEW answer \in FetchAnswers
    PROVE  /\ answer.names \in Seq(Named)
           /\ config.fetcher # "configmap" => Distinct(answer.names)
<1> DEFINE Good(a) == a.names \in Seq(Named) /\ Distinct(a.names)
<1>1. Good(None) /\ Good(Raise)
  BY EmptySeq DEF None, Raise, Distinct
<1>2. ASSUME NEW S \in SUBSET Named, NEW a \in Orders(S)
      PROVE  Good(a)
  <2>1. IsFiniteSet(S)
    <3>1. IsFiniteSet(Named)
      BY FS_AddElement, PullerAssumption DEF Named
    <3> QED BY <3>1, FS_Subset
  <2>2. a.kind = "names" /\ a.names \in Seq(S) /\ Distinct(a.names)
    BY <2>1, OrdersDistinct
  <2> QED BY <2>2, SeqMonotonic
<1>3. ASSUME NEW a \in KernelSpecsFetch
      PROVE  Good(a)
  <2>1. CASE a \in {None, Raise}
    BY <2>1, <1>1
  <2>2. ASSUME NEW specs \in SUBSET Specs, a \in Orders(SpecImages(specs))
        PROVE  Good(a)
    <3>1. SpecImages(specs) \subseteq Named
      BY PullerAssumption DEF SpecImages, Named
    <3> QED BY <2>2, <3>1, <1>2
  <2> QED BY <2>1, <2>2 DEF KernelSpecsFetch
<1>4. ASSUME NEW a \in ConfigMapFetch
      PROVE  a.names \in Seq(Named)
  <2>1. CASE a \in {None, Raise, Names(<<>>)}
    <3>1. a.names = <<>>
      BY <2>1 DEF None, Raise, Names
    <3> QED BY <3>1, EmptySeq
  <2>2. CASE a \in {Names(s) : s \in ConfigLists}
    BY <2>2, PullerAssumption DEF Names, Named
  <2> QED BY <2>1, <2>2 DEF ConfigMapFetch
<1>5. ASSUME NEW a \in CombinedFetch
      PROVE  Good(a)
  <2>1. CASE a = Raise
    BY <2>1, <1>1
  <2>2. ASSUME NEW x \in KernelSpecsFetch, NEW y \in ConfigMapFetch,
               a \in Orders(Elements(x.names) \cup Elements(y.names))
        PROVE  Good(a)
    <3>1. x.names \in Seq(Named) /\ y.names \in Seq(Named)
      BY <1>3, <1>4
    <3>2. Elements(x.names) \subseteq Named /\ Elements(y.names) \subseteq Named
      BY <3>1, ElementOfSeq DEF Elements
    <3>3. Elements(x.names) \cup Elements(y.names) \in SUBSET Named
      BY <3>2
    <3> QED BY <2>2, <3>3, <1>2
  <2>3. ASSUME a # Raise
        PROVE  a \in UNION {Orders(Elements(x.names) \cup Elements(y.names)) :
                 x \in {z \in KernelSpecsFetch : z.kind = "names"},
                 y \in {z \in ConfigMapFetch : z.kind = "names"}}
    BY <2>3 DEF CombinedFetch
  <2>4. ASSUME a # Raise
        PROVE  \E x \in KernelSpecsFetch, y \in ConfigMapFetch :
                  a \in Orders(Elements(x.names) \cup Elements(y.names))
    BY <2>3, <2>4
  <2> QED BY <2>1, <2>2, <2>4
<1>6. ASSUME NEW a \in StaticFetch
      PROVE  Good(a)
  <2>1. Images \in SUBSET Named
    BY DEF Named
  <2> QED BY <1>6, <2>1, <1>2 DEF StaticFetch
<1> HIDE DEF Good
<1>7. CASE config.fetcher = "kernelspecs"
  BY <1>7, <1>3 DEF FetchAnswers, Good
<1>8. CASE config.fetcher = "static"
  BY <1>8, <1>6 DEF FetchAnswers, Good
<1>9. CASE config.fetcher = "configmap"
  BY <1>9, <1>4 DEF FetchAnswers
<1>10. CASE config.fetcher = "combined"
  BY <1>10, <1>5 DEF FetchAnswers, Good
<1> QED BY <1>7, <1>8, <1>9, <1>10 DEF ConfigOK

-----------------------------------------------------------------------------
(* What a step of a worker does to the pool *)

\* The task goes on: another step, the same image.
Carried(w) ==
    /\ \E step \in Tasks, n \in 0..NumRetries :
          worker' = [worker EXCEPT ![w] = [step |-> step, image |-> worker[w].image, i |-> n]]
    /\ unfinished' = unfinished

\* The threads that are busy, or have ended, are finitely many.
LEMMA BusyFinite ==
    /\ IsFiniteSet(Busy) /\ Cardinality(Busy) \in Nat
    /\ IsFiniteSet(Gone) /\ Cardinality(Gone) \in Nat
<1>1. Busy \subseteq Workers /\ Gone \subseteq Workers
  BY DEF Busy, Gone
<1> QED BY <1>1, PullerAssumption, FS_Subset, FS_CardinalityType

\* The part of the invariant that a worker's step could break by its task alone.
PoolInv ==
    /\ worker \in [Workers -> [step : Steps, image : Named, i : 0..NumRetries]]
    /\ unfinished \in Nat
    /\ UnfinishedExact /\ RoundsApart /\ BusyWithImage /\ QueuedOnce /\ OneWorkerPerImage

\* A task that goes on or ends keeps the pool's invariant.
LEMMA TaskStep ==
    ASSUME PullerInv, NEW w \in Busy, Carried(w) \/ TaskDone(w),
           config' = config, main' = main, queue' = queue
    PROVE  PoolInv'
<1> USE PullerAssumption
<1>1. w \in Workers /\ worker[w].step \in Tasks /\ w \notin Gone
  BY DEF Busy, Gone, Tasks, Calls
<1>2. CASE Carried(w)
  <2>1. PICK step \in Tasks, n \in 0..NumRetries :
           worker' = [worker EXCEPT ![w] = [step |-> step, image |-> worker[w].image, i |-> n]]
    BY <1>2 DEF Carried
  <2>2. Busy' = Busy /\ Gone' = Gone
    BY <1>1, <2>1 DEF Busy, Gone, PullerInv, TypeOK, Tasks, Calls
  <2>3. \A v \in Busy : worker'[v].image = worker[v].image
    BY <1>1, <2>1 DEF Busy, PullerInv, TypeOK
  <2>4. unfinished' = unfinished
    BY <1>2 DEF Carried
  <2>5. worker' \in [Workers -> [step : Steps, image : Named, i : 0..NumRetries]]
    BY <1>1, <2>1 DEF PullerInv, TypeOK, Steps
  <2> QED BY <2>2, <2>3, <2>4, <2>5, SMTT(60) DEF PoolInv, PullerInv, TypeOK, UnfinishedExact,
             RoundsApart, BusyWithImage, QueuedOnce, OneWorkerPerImage
<1>3. CASE TaskDone(w)
  <2>1. worker' = [worker EXCEPT ![w] = Idle] /\ unfinished' = unfinished - 1
    BY <1>3 DEF TaskDone
  <2>2. Busy' = Busy \ {w} /\ Gone' = Gone
    BY <1>1, <2>1 DEF Busy, Gone, PullerInv, TypeOK, Idle, Tasks, Calls
  <2>3. \A v \in Busy \ {w} : worker'[v].image = worker[v].image
    BY <1>1, <2>1 DEF Busy, PullerInv, TypeOK
  <2>4. Cardinality(Busy \ {w}) = Cardinality(Busy) - 1
    BY BusyFinite, FS_RemoveElement
  <2>5. Cardinality(Busy) > 0
    <3>1. Busy # {}
      OBVIOUS
    <3> QED BY <3>1, BusyFinite, FS_EmptySet
  <2>6. Len(queue) \in Nat
    BY LenProperties DEF PullerInv, TypeOK
  <2>7. unfinished' \in Nat /\ UnfinishedExact'
    BY <2>1, <2>2, <2>4, <2>5, <2>6, BusyFinite DEF PullerInv, TypeOK, UnfinishedExact
  <2>8. worker' \in [Workers -> [step : Steps, image : Named, i : 0..NumRetries]]
    BY <1>1, <2>1 DEF PullerInv, TypeOK, Idle, Steps, Named
  <2>9. RoundsApart'
    BY <2>1, <2>5, <2>6, BusyFinite DEF PullerInv, RoundsApart, UnfinishedExact
  <2> QED BY <2>2, <2>3, <2>7, <2>8, <2>9 DEF PoolInv, PullerInv, BusyWithImage, QueuedOnce,
             OneWorkerPerImage
<1> QED BY <1>2, <1>3

\* The calls of a step leave the task carried on or done.
LEMMA TaskEffects ==
    ASSUME PullerInv, NEW w \in Busy
    PROVE  /\ \A step \in Tasks : Goto(w, step) => Carried(w)
           /\ Failed(w) => Carried(w) \/ TaskDone(w)
<1> USE PullerAssumption
<1>1. w \in Workers
  BY DEF Busy
<1>2. worker[w] = [step |-> worker[w].step, image |-> worker[w].image, i |-> worker[w].i]
      /\ worker[w].i \in 0..NumRetries
  BY <1>1 DEF PullerInv, TypeOK
<1>3. ASSUME NEW step \in Tasks, Goto(w, step)
      PROVE  Carried(w)
  <2>1. [worker[w] EXCEPT !.step = step]
          = [step |-> step, image |-> worker[w].image, i |-> worker[w].i]
    BY <1>1 DEF PullerInv, TypeOK
  <2>2. worker' = [worker EXCEPT ![w] = [worker[w] EXCEPT !.step = step]]
    BY <1>3 DEF Goto
  <2>3. worker' = [worker EXCEPT ![w] = [step |-> step, image |-> worker[w].image, i |-> worker[w].i]]
    BY <2>1, <2>2, Zenon
  <2> QED BY <1>2, <1>3, <2>3 DEF Goto, Carried
<1>4. ASSUME Failed(w), worker[w].i + 1 < NumRetries
      PROVE  Carried(w)
  <2>1. worker' = [worker EXCEPT ![w] = [step |-> "begin", image |-> worker[w].image,
                                         i |-> worker[w].i + 1]]
    BY <1>4, Zenon DEF Failed
  <2>2. worker[w].i + 1 \in 0..NumRetries /\ "begin" \in Tasks
    BY <1>2, <1>4 DEF Tasks
  <2> QED BY <1>4, <2>1, <2>2 DEF Failed, Carried
<1> QED BY <1>3, <1>4 DEF Failed

\* Everything the invariant says beyond the pool.
RestInv ==
    /\ main \in {"fetch", "join", "sleep", "dead", "stuck"} /\ relaxed \in BOOLEAN
    /\ queue \in Seq(Named) /\ pulled \subseteq Images /\ present \subseteq Images
    /\ evicted \subseteq Images /\ errors \in 0..MaxErrors
    /\ ConfigOK /\ ForgetsWhatIsThere /\ PulledIsPresent

\* The invariant in two parts.
LEMMA Parts == PullerInv <=> PoolInv /\ RestInv
BY DEF PullerInv, PoolInv, RestInv, TypeOK

\* An answer that is not the truth is counted, and there is room to count it.
LEMMA TroubledTyped ==
    ASSUME PullerInv, NEW i, NEW answer, NEW truth, Troubled(answer, truth),
           \/ answer \in ImageExists(i) /\ truth = (IF i \in present THEN "yes" ELSE "no")
           \/ answer \in DownloadImage /\ truth = "yes"
    PROVE  errors' \in 0..MaxErrors
<1>1. errors \in 0..MaxErrors
  BY DEF PullerInv, TypeOK
<1>2. CASE errors = MaxErrors
  <2>1. answer = truth
    BY <1>2 DEF ImageExists, DownloadImage
  <2> QED BY <1>1, <2>1 DEF Troubled
<1>3. CASE errors # MaxErrors
  BY <1>1, <1>3, PullerAssumption DEF Troubled
<1> QED BY <1>2, <1>3

\* A worker's steps, once it holds a name, keep the invariant.
LEMMA WorkerStepInv ==
    ASSUME PullerInv, NEW w \in Workers, NEW answer \in {"yes", "no", "raise"},
           PullImage(w) \/ Recheck(w, answer) \/ Check(w, answer) \/ Download(w, answer)
    PROVE  PullerInv'
<1> DEFINE i == worker[w].image
<1>1. w \in Busy
  BY DEF Busy, PullImage, Recheck, Check, Download, Tasks, Calls
<1>2. i \in Images
  BY <1>1 DEF PullerInv, BusyWithImage
<1>3. "download" \in Tasks /\ "recheck" \in Tasks /\ "check" \in Tasks
  BY DEF Tasks, Calls
<1>4. config' = config /\ main' = main /\ relaxed' = relaxed /\ queue' = queue /\ evicted' = evicted
  BY DEF PullImage, Recheck, Check, Download
<1>5. Carried(w) \/ TaskDone(w)
  <2>1. \/ \E step \in Tasks : Goto(w, step)
        \/ Failed(w)
        \/ TaskDone(w)
    <3>1. CASE PullImage(w)
      BY <3>1, <1>3 DEF PullImage
    <3>2. CASE Recheck(w, answer)
      <4>1. TaskDone(w) \/ Failed(w) \/ Goto(w, "download")
        BY <3>2 DEF Recheck
      <4> QED BY <4>1, <1>3
    <3>3. CASE Check(w, answer)
      <4>1. TaskDone(w) \/ Failed(w) \/ Goto(w, "download")
        BY <3>3 DEF Check
      <4> QED BY <4>1, <1>3
    <3>4. CASE Download(w, answer)
      BY <3>4 DEF Download
    <3> QED BY <3>1, <3>2, <3>3, <3>4
  <2> QED BY <2>1, <1>1, TaskEffects
<1>6. PoolInv'
  BY <1>1, <1>4, <1>5, TaskStep
<1>7. errors' \in 0..MaxErrors
  <2>1. CASE PullImage(w)
    BY <2>1 DEF PullImage, PullerInv, TypeOK
  <2>2. CASE Recheck(w, answer) \/ Check(w, answer)
    BY <2>2, TroubledTyped DEF Recheck, Check
  <2>3. CASE Download(w, answer)
    BY <2>3, TroubledTyped DEF Download
  <2> QED BY <2>1, <2>2, <2>3
<1>8. pulled' \subseteq Images /\ present' \subseteq Images /\ PulledIsPresent'
  <2>1. CASE PullImage(w)
    BY <2>1 DEF PullImage, PullerInv, TypeOK, PulledIsPresent
  <2>2. CASE Recheck(w, answer)
    <3>1. present' = present /\ (pulled' = pulled \/ pulled' = pulled \ {i})
      BY <2>2 DEF Recheck
    <3> QED BY <3>1, <1>4 DEF PullerInv, TypeOK, PulledIsPresent
  <2>3. CASE Check(w, answer)
    <3>1. present' = present
      BY <2>3 DEF Check
    <3>2. CASE answer = "yes"
      \* image_exists says so only of an image that is there
      <4>1. i \in present
        BY <2>3, <3>2 DEF Check, ImageExists
      <4>2. pulled' = pulled \cup {i}
        BY <2>3, <3>2 DEF Check
      <4> QED BY <1>2, <1>4, <3>1, <4>1, <4>2 DEF PullerInv, TypeOK, PulledIsPresent
    <3>3. CASE answer # "yes"
      <4>1. pulled' = pulled
        BY <2>3, <3>3 DEF Check
      <4> QED BY <1>4, <3>1, <4>1 DEF PullerInv, TypeOK, PulledIsPresent
    <3> QED BY <3>2, <3>3
  <2>4. CASE Download(w, answer)
    <3>1. \/ pulled' = pulled \cup {i} /\ present' = present \cup {i}
          \/ pulled' = pulled /\ present' = present
      BY <2>4 DEF Download
    <3> QED BY <3>1, <1>2, <1>4 DEF PullerInv, TypeOK, PulledIsPresent
  <2> QED BY <2>1, <2>2, <2>3, <2>4
<1>9. ForgetsWhatIsThere'
  <2> SUFFICES ASSUME config.fetcher # "configmap", NEW v \in Workers, worker'[v].step = "recheck"
               PROVE  worker'[v].image \in pulled'
    BY <1>4 DEF ForgetsWhatIsThere
  <2>1. PICK x : worker' = [worker EXCEPT ![w] = x]
    BY <1>5 DEF Carried, TaskDone
  <2>2. CASE v = w
    \* only pull_image itself goes to the check of an image pulled before
    <3>1. worker'[w] = x
      BY <2>1 DEF PullerInv, TypeOK
    <3>2. ~TaskDone(w) /\ ~Failed(w) /\ ~Goto(w, "download")
      <4>1. ~TaskDone(w)
        BY <2>2, <3>1 DEF TaskDone, Idle, PullerInv, TypeOK
      <4>2. ~Failed(w)
        BY <2>2, <3>1, <4>1 DEF Failed, PullerInv, TypeOK
      <4>3. ~Goto(w, "download")
        BY <2>2, <3>1 DEF Goto, PullerInv, TypeOK
      <4> QED BY <4>1, <4>2, <4>3
    <3>3. PullImage(w)
      BY <3>2 DEF Recheck, Check, Download
    <3>4. i \in pulled /\ pulled' = pulled /\ worker'[w].image = i
      BY <2>2, <3>3 DEF PullImage, Goto, PullerInv, TypeOK
    <3> QED BY <2>2, <3>4
  <2>3. CASE v # w
    <3>1. worker'[v] = worker[v]
      BY <2>1, <2>3 DEF PullerInv, TypeOK
    <3>2. v \in Busy /\ worker[v].image \in pulled
      BY <3>1 DEF PullerInv, ForgetsWhatIsThere, Busy, Tasks, Calls
    <3>3. worker[v].image # i
      BY <1>1, <2>3, <3>2 DEF PullerInv, OneWorkerPerImage
    <3>4. pulled' \in {pulled, pulled \ {i}, pulled \cup {i}}
      BY DEF PullImage, Recheck, Check, Download
    <3> QED BY <3>1, <3>2, <3>3, <3>4
  <2> QED BY <2>2, <2>3
<1>10. RestInv'
  <2>1. ConfigOK' /\ ForgetsWhatIsThere' /\ (main \in {"fetch", "join", "sleep", "dead", "stuck"})'
        /\ relaxed' \in BOOLEAN /\ queue' \in Seq(Named) /\ evicted' \subseteq Images
    BY <1>4, <1>9 DEF PullerInv, TypeOK, ConfigOK
  <2> QED BY <2>1, <1>7, <1>8 DEF RestInv
<1>11. (PoolInv /\ RestInv)' => PullerInv'
  BY DEF PullerInv, PoolInv, RestInv, TypeOK
<1> QED BY <1>6, <1>10, <1>11

\* A call of crictl that hangs keeps its worker's name among the unfinished.
LEMMA CallHangsInv ==
    ASSUME PullerInv, NEW w \in Workers, CallHangs(w)
    PROVE  PullerInv'
<1>1. w \in Busy /\ Goto(w, "hung") /\ "hung" \in Tasks
  BY DEF CallHangs, Busy, Tasks
<1>2. /\ config' = config /\ main' = main /\ relaxed' = relaxed /\ queue' = queue
      /\ evicted' = evicted /\ pulled' = pulled /\ present' = present
      /\ errors < MaxErrors /\ errors' = errors + 1
  BY DEF CallHangs
<1>3. PoolInv'
  BY <1>1, <1>2, TaskEffects, TaskStep
<1>4. ForgetsWhatIsThere'
  BY <1>1, <1>2 DEF Goto, PullerInv, TypeOK, ForgetsWhatIsThere
<1>5. RestInv'
  BY <1>2, <1>4, PullerAssumption DEF RestInv, PullerInv, TypeOK, ConfigOK, PulledIsPresent
<1> QED BY <1>3, <1>5 DEF PullerInv, PoolInv, RestInv, TypeOK

\* Taking a name moves it from the queue to the worker, or with no retries drops it; a null
\* item is as good as moved to the worker that it ends.
LEMMA GetInv ==
    ASSUME PullerInv, NEW w \in Workers, Get(w)
    PROVE  PullerInv'
<1> USE PullerAssumption
<1>1. /\ config' = config /\ main' = main /\ relaxed' = relaxed /\ evicted' = evicted
      /\ pulled' = pulled /\ present' = present /\ errors' = errors /\ queue' = Tail(queue)
      /\ w \notin Busy /\ w \notin Gone /\ queue # <<>>
  BY DEF Get, Busy, Gone, Tasks, Calls
<1>2. /\ queue \in Seq(Named) /\ Len(queue) \in Nat /\ Len(queue) # 0
      /\ Head(queue) \in Named /\ Head(queue) = queue[1]
      /\ queue' \in Seq(Named) /\ Len(queue') = Len(queue) - 1
      /\ \A j \in 1..Len(queue') : queue'[j] = queue[j + 1] /\ j + 1 \in 1..Len(queue)
  <2>1. queue \in Seq(Named)
    BY DEF PullerInv, TypeOK
  <2>2. Len(queue) \in Nat /\ Len(queue) # 0
    BY <1>1, <2>1, LenProperties, EmptySeq
  <2> QED BY <1>1, <2>1, <2>2, HeadTailProperties
<1>3. RestInv'
  <2>1. PICK x : worker' = [worker EXCEPT ![w] = x] /\ x.step # "recheck"
    BY DEF Get, TaskDone, Idle, Ended
  <2>2. ForgetsWhatIsThere'
    BY <1>1, <2>1 DEF PullerInv, TypeOK, ForgetsWhatIsThere
  <2> QED BY <1>1, <1>2, <2>2 DEF RestInv, PullerInv, TypeOK, ConfigOK, PulledIsPresent
<1>4. main = "join"
  BY <1>2, BusyFinite DEF PullerInv, RoundsApart, UnfinishedExact
<1>5. config.fetcher # "configmap" =>
         /\ Distinct(queue')
         /\ \A j \in 1..Len(queue') : queue'[j] # Head(queue)
         /\ \A v \in Busy, j \in 1..Len(queue') : queue'[j] # worker[v].image
         /\ \A v \in Busy : worker[v].image # Head(queue)
  <2> SUFFICES ASSUME config.fetcher # "configmap"
               PROVE  /\ Distinct(queue')
                      /\ \A j \in 1..Len(queue') : queue'[j] # Head(queue)
                      /\ \A v \in Busy, j \in 1..Len(queue') : queue'[j] # worker[v].image
                      /\ \A v \in Busy : worker[v].image # Head(queue)
    OBVIOUS
  <2>1. /\ \A j, k \in 1..Len(queue) : queue[j] = queue[k] => j = k
        /\ \A v \in Busy, j \in 1..Len(queue) : queue[j] # worker[v].image
    BY DEF PullerInv, QueuedOnce, Distinct
  <2>2. Distinct(queue')
    <3>1. ASSUME NEW j \in 1..Len(queue'), NEW k \in 1..Len(queue'), queue'[j] = queue'[k]
          PROVE  j = k
      <4>1. j + 1 = k + 1
        BY <1>2, <2>1, <3>1
      <4> QED BY <4>1, <1>2
    <3> QED BY <3>1 DEF Distinct
  <2>3. 1 \in 1..Len(queue)
    BY <1>2
  <2>4. ASSUME NEW j \in 1..Len(queue')
        PROVE  queue'[j] # Head(queue)
    <3>1. j + 1 # 1
      BY <1>2
    <3> QED BY <1>2, <2>1, <2>3, <3>1
  <2>5. \A v \in Busy, j \in 1..Len(queue') : queue'[j] # worker[v].image
    BY <1>2, <2>1
  <2>6. \A v \in Busy : worker[v].image # Head(queue)
    BY <1>2, <2>1, <2>3
  <2> QED BY <2>2, <2>4, <2>5, <2>6
<1>6. PoolInv'
  <2>0. CASE Head(queue) = NoImage
    <3>1. worker' = [worker EXCEPT ![w] = Ended] /\ unfinished' = unfinished
      BY <2>0 DEF Get
    <3>2. Busy' = Busy /\ Gone' = Gone \cup {w}
      BY <1>1, <3>1 DEF Busy, Gone, Ended, Tasks, Calls, PullerInv, TypeOK
    <3>3. Cardinality(Gone') = Cardinality(Gone) + 1
      BY <1>1, <3>2, BusyFinite, FS_AddElement
    <3>4. unfinished' \in Nat /\ UnfinishedExact'
      BY <3>1, <3>2, <3>3, <1>2, BusyFinite DEF PullerInv, TypeOK, UnfinishedExact
    <3>5. \A v \in Busy : worker'[v].image = worker[v].image
      BY <1>1, <3>1 DEF Busy, PullerInv, TypeOK
    <3>6. RoundsApart' /\ BusyWithImage' /\ QueuedOnce' /\ OneWorkerPerImage'
      BY <1>1, <1>4, <1>5, <3>2, <3>5 DEF PullerInv, RoundsApart, BusyWithImage, QueuedOnce,
         OneWorkerPerImage
    <3>7. worker' \in [Workers -> [step : Steps, image : Named, i : 0..NumRetries]]
      <4>1. Ended \in [step : Steps, image : Named, i : 0..NumRetries]
        BY DEF Ended, Steps, Named
      <4> QED BY <3>1, <4>1 DEF PullerInv, TypeOK
    <3> QED BY <3>4, <3>6, <3>7 DEF PoolInv
  <2>1. CASE Head(queue) # NoImage /\ NumRetries = 0
    <3>0. worker' = [worker EXCEPT ![w] = Idle] /\ unfinished' = unfinished - 1
      BY <2>1 DEF Get, TaskDone
    <3>1. /\ worker' \in [Workers -> [step : Steps, image : Named, i : 0..NumRetries]]
          /\ \A v \in Busy : worker'[v].image = worker[v].image
      <4>1. Idle \in [step : Steps, image : Named, i : 0..NumRetries]
        BY DEF Idle, Steps, Named
      <4> QED BY <1>1, <3>0, <4>1 DEF PullerInv, TypeOK
    <3>2. Busy' = Busy /\ Gone' = Gone
      BY <1>1, <3>0 DEF Busy, Gone, Idle, Tasks, Calls, PullerInv, TypeOK
    <3>3. unfinished' \in Nat /\ UnfinishedExact'
      BY <3>0, <3>2, <1>2, BusyFinite, SMTT(60) DEF PullerInv, TypeOK, UnfinishedExact
    <3>4. RoundsApart' /\ BusyWithImage' /\ QueuedOnce' /\ OneWorkerPerImage'
      BY <1>1, <1>4, <1>5, <3>1, <3>2 DEF PullerInv, RoundsApart, BusyWithImage, QueuedOnce,
         OneWorkerPerImage
    <3> QED BY <3>1, <3>3, <3>4 DEF PoolInv, PullerInv, TypeOK
  <2>2. CASE Head(queue) # NoImage /\ NumRetries # 0
    <3>1. /\ worker' = [worker EXCEPT ![w] = [step |-> "begin", image |-> Head(queue), i |-> 0]]
          /\ unfinished' = unfinished
      BY <2>2 DEF Get
    <3>2. Busy' = Busy \cup {w} /\ Gone' = Gone /\ Head(queue) \in Images
      BY <1>1, <1>2, <2>2, <3>1 DEF Busy, Gone, Tasks, Calls, PullerInv, TypeOK, Named
    <3>3. /\ \A v \in Busy : worker'[v].image = worker[v].image
          /\ worker'[w].image = Head(queue)
      BY <1>1, <3>1 DEF Busy, PullerInv, TypeOK
    <3>4. Cardinality(Busy') = Cardinality(Busy) + 1
      BY <1>1, <3>2, BusyFinite, FS_AddElement
    <3>5. unfinished' \in Nat /\ UnfinishedExact'
      BY <3>1, <3>2, <3>4, <1>2, BusyFinite DEF PullerInv, TypeOK, UnfinishedExact
    <3>6. RoundsApart' /\ BusyWithImage'
      BY <1>1, <1>2, <1>4, <3>2, <3>3 DEF PullerInv, RoundsApart, BusyWithImage
    <3>7. QueuedOnce' /\ OneWorkerPerImage'
      BY <1>1, <1>5, <3>2, <3>3 DEF PullerInv, QueuedOnce, OneWorkerPerImage
    <3>8. worker' \in [Workers -> [step : Steps, image : Named, i : 0..NumRetries]]
      BY <1>2, <3>1 DEF PullerInv, TypeOK, Steps, Tasks
    <3> QED BY <3>5, <3>6, <3>7, <3>8 DEF PoolInv
  <2> QED BY <2>0, <2>1, <2>2
<1>7. (PoolInv /\ RestInv)' => PullerInv'
  BY DEF PullerInv, PoolInv, RestInv, TypeOK
<1> QED BY <1>3, <1>6, <1>7

\* The main thread's steps, and evictions, keep the invariant.
LEMMA MainStepInv ==
    ASSUME PullerInv, MainStep \/ FetchHangs \/ \E i \in Images : Evict(i)
    PROVE  PullerInv'
<1> USE PullerAssumption
<1>1. ASSUME NEW answer \in FetchAnswers, Fetch(answer)
      PROVE  PullerInv'
  <2>1. /\ config' = config /\ worker' = worker /\ pulled' = pulled /\ present' = present
        /\ evicted' = evicted /\ errors' = errors /\ main = "fetch"
    BY <1>1 DEF Fetch
  <2>2. Busy' = Busy /\ Gone' = Gone
    BY <2>1 DEF Busy, Gone
  <2>3. /\ answer.names \in Seq(Named)
        /\ config.fetcher # "configmap" => Distinct(answer.names)
    BY AnswersTyped DEF PullerInv
  \* the round before has been finished
  <2>4. unfinished = 0 /\ Len(queue) = 0 /\ Cardinality(Busy) = 0 /\ Cardinality(Gone) = 0
    BY <2>1, BusyFinite, LenProperties DEF PullerInv, TypeOK, RoundsApart, UnfinishedExact
  <2>5. queue = <<>> /\ Busy = {}
    BY <2>4, BusyFinite, FS_EmptySet, EmptySeq DEF PullerInv, TypeOK
  <2>6. CASE answer.names # <<>>
    <3>1. /\ queue' = queue \o answer.names /\ main' = "join" /\ relaxed' = TRUE
          /\ unfinished' = unfinished + Len(answer.names)
      BY <1>1, <2>6 DEF Fetch
    <3>2. queue' = answer.names /\ unfinished' = Len(answer.names)
      BY <2>3, <2>4, <2>5, <3>1, ConcatEmptySeq, LenProperties
    <3>3. PoolInv'
      BY <2>1, <2>2, <2>3, <2>4, <2>5, <3>1, <3>2, LenProperties DEF PoolInv, PullerInv, TypeOK,
         UnfinishedExact, RoundsApart, BusyWithImage, QueuedOnce, OneWorkerPerImage
    <3>4. RestInv'
      BY <2>1, <2>3, <3>1, <3>2 DEF RestInv, PullerInv, TypeOK, ConfigOK, ForgetsWhatIsThere,
         PulledIsPresent
    <3> QED BY <3>3, <3>4 DEF PullerInv, PoolInv, RestInv, TypeOK
  <2>7. CASE answer.names = <<>>
    <3>1. /\ queue' = queue /\ unfinished' = unfinished /\ relaxed' \in BOOLEAN
          /\ main' \in {"dead", "sleep"}
      BY <1>1, <2>7 DEF Fetch, PullerInv, TypeOK
    <3>2. PoolInv'
      BY <2>1, <2>2, <2>4, <3>1 DEF PoolInv, PullerInv, TypeOK,
         UnfinishedExact, RoundsApart, BusyWithImage, QueuedOnce, OneWorkerPerImage
    <3>3. RestInv'
      BY <2>1, <2>3, <3>1 DEF RestInv, PullerInv, TypeOK, ConfigOK, ForgetsWhatIsThere, PulledIsPresent
    <3> QED BY <3>2, <3>3 DEF PullerInv, PoolInv, RestInv, TypeOK
  <2> QED BY <2>6, <2>7
<1>2. CASE JoinReturns \/ WakeUp \/ FetchHangs
  <2>1. /\ UNCHANGED <<config, relaxed, queue, unfinished, worker, pulled, present, evicted, errors>>
        /\ main' \in {"sleep", "fetch", "stuck"} /\ (main = "join" => unfinished = 0)
    BY <1>2 DEF JoinReturns, WakeUp, FetchHangs
  <2>2. Busy' = Busy /\ Gone' = Gone
    BY <2>1 DEF Busy, Gone
  <2> QED BY <2>1, <2>2 DEF PullerInv, TypeOK, ConfigOK, UnfinishedExact, RoundsApart,
             BusyWithImage, QueuedOnce, OneWorkerPerImage, ForgetsWhatIsThere, PulledIsPresent
<1>3. ASSUME NEW i \in Images, Evict(i)
      PROVE  PullerInv'
  <2>1. /\ UNCHANGED <<config, main, relaxed, queue, unfinished, worker, pulled>>
        /\ present' = present \ {i} /\ evicted' = evicted \cup {i}
        /\ errors < MaxErrors /\ errors' = errors + 1
    BY <1>3 DEF Evict
  <2>2. Busy' = Busy /\ Gone' = Gone
    BY <2>1 DEF Busy, Gone
  <2>3. TypeOK' /\ PulledIsPresent'
    BY <2>1 DEF PullerInv, TypeOK, PulledIsPresent
  <2> QED BY <2>1, <2>2, <2>3 DEF PullerInv, ConfigOK, UnfinishedExact, RoundsApart,
             BusyWithImage, QueuedOnce, OneWorkerPerImage, ForgetsWhatIsThere
<1> QED BY <1>1, <1>2, <1>3 DEF MainStep

\* The invariant holds at the start.
LEMMA PullerInitInv == Init => PullerInv
<1> SUFFICES ASSUME Init PROVE PullerInv
  OBVIOUS
<1> USE PullerAssumption DEF Init
<1>1. Busy = {} /\ Cardinality(Busy) = 0 /\ Gone = {} /\ Cardinality(Gone) = 0
  BY FS_EmptySet DEF Busy, Gone, Idle, Tasks, Calls
<1>2. queue \in Seq(Named) /\ Len(queue) = 0
  BY EmptySeq
<1>3. TypeOK
  <2>1. Idle \in [step : Steps, image : Named, i : 0..NumRetries]
    BY DEF Idle, Steps, Named
  <2>2. worker \in [Workers -> [step : Steps, image : Named, i : 0..NumRetries]]
    BY <2>1
  <2>3. relaxed \in BOOLEAN
    BY Zenon
  <2>4. errors \in 0..MaxErrors /\ unfinished \in Nat
    OBVIOUS
  <2>5. main \in {"fetch", "join", "sleep", "dead", "stuck"}
        /\ pulled \subseteq Images /\ present \subseteq Images /\ evicted \subseteq Images
    OBVIOUS
  <2> QED BY <1>2, <2>2, <2>3, <2>4, <2>5, Zenon DEF TypeOK
<1> QED BY <1>1, <1>2, <1>3 DEF PullerInv, ConfigOK, UnfinishedExact, RoundsApart, Idle,
           BusyWithImage, QueuedOnce, Distinct, OneWorkerPerImage, ForgetsWhatIsThere,
           PulledIsPresent

\* Every step keeps it.
LEMMA PullerStepInv == PullerInv /\ [Next]_vars => PullerInv'
<1> SUFFICES ASSUME PullerInv, [Next]_vars PROVE PullerInv'
  OBVIOUS
<1>1. CASE MainStep \/ FetchHangs \/ \E i \in Images : Evict(i)
  BY <1>1, MainStepInv
<1>2. ASSUME NEW w \in Workers, WorkerStep(w)
      PROVE  PullerInv'
  <2>1. CASE Get(w)
    BY <2>1, GetInv
  <2>2. CASE PullImage(w)
    BY <2>2, WorkerStepInv
  <2>3. ASSUME NEW answer \in {"yes", "no", "raise"},
               Recheck(w, answer) \/ Check(w, answer) \/ Download(w, answer)
        PROVE  PullerInv'
    BY <2>3, WorkerStepInv
  <2> QED BY <1>2, <2>1, <2>2, <2>3 DEF WorkerStep
<1>4. ASSUME NEW w \in Workers, CallHangs(w)
      PROVE  PullerInv'
  BY <1>4, CallHangsInv
<1>3. CASE UNCHANGED vars
  <2>1. Busy' = Busy /\ Gone' = Gone
    BY <1>3 DEF vars, Busy, Gone
  <2> QED BY <1>3, <2>1 DEF vars, PullerInv, TypeOK, ConfigOK, UnfinishedExact, RoundsApart,
             BusyWithImage, QueuedOnce, OneWorkerPerImage, ForgetsWhatIsThere, PulledIsPresent
<1> QED BY <1>1, <1>2, <1>3, <1>4 DEF Next

-----------------------------------------------------------------------------
\* join() waits for exactly the names that are queued or being pulled (image_puller's
\* task_done on every path), and for those of the workers that a null item has ended, for
\* any number of workers and retries.
THEOREM JoinExact == Spec => []UnfinishedExact
<1>1. PullerInv => UnfinishedExact
  BY DEF PullerInv
<1> QED BY <1>1, PullerInitInv, PullerStepInv, PTL DEF Spec

\* The state of the queue, of the workers and of pulled_images is typed; in particular no
\* task_done() makes the count of unfinished tasks negative, which would raise.
THEOREM PullerTyped == Spec => []TypeOK
<1>1. PullerInv => TypeOK
  BY DEF PullerInv
<1> QED BY <1>1, PullerInitInv, PullerStepInv, PTL DEF Spec

\* Two workers never pull one image, unless a config map lists it twice: the rounds of
\* start() do not overlap and the other fetchers answer with sets.
THEOREM WorkersApart == Spec => []OneWorkerPerImage
<1>1. PullerInv => OneWorkerPerImage
  BY DEF PullerInv
<1> QED BY <1>1, PullerInitInv, PullerStepInv, PTL DEF Spec

\* pulled_images.remove never raises for an image that another worker has forgotten, unless
\* a config map lists it twice: nothing but join() keeps the workers apart.
THEOREM ForgottenOnce == Spec => []ForgetsWhatIsThere
<1>1. PullerInv => ForgetsWhatIsThere
  BY DEF PullerInv
<1> QED BY <1>1, PullerInitInv, PullerStepInv, PTL DEF Spec

\* pulled_images is never ahead of the node, whatever the workers do to the shared set.
THEOREM PulledWasThere == Spec => []PulledIsPresent
<1>1. PullerInv => PulledIsPresent
  BY DEF PullerInv
<1> QED BY <1>1, PullerInitInv, PullerStepInv, PTL DEF Spec
=============================================================================
