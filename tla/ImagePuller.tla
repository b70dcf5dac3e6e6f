----------------------------- MODULE ImagePuller -----------------------------
(***************************************************************************)
(* The kernel image puller (etc/docker/kernel-image-puller).               *)
(*                                                                         *)
(* The main thread asks a fetcher for image names, puts them on a queue,   *)
(* waits until the queue is drained, sleeps, and starts over.  Worker      *)
(* threads take names off the queue and pull the images, with retries.     *)
(* pulled_images is shared by the workers without a lock.                  *)
(***************************************************************************)
EXTENDS Naturals, Sequences, FiniteSets

CONSTANTS
    Workers,       \* the threads started by initialize_workers
    Images,        \* image names
    Specs,         \* kernelspecs the gateway may list: [image, executor], with NoImage
    ConfigLists,   \* what the YAML of the config map may hold: sequences of names and nulls
    NumRetries,    \* KIP_NUM_RETRIES
    NoImage,       \* None: a name that a kernelspec lacks, a null item of a YAML list
    MaxErrors      \* bound on failed or hanging calls of the container runtime and evictions

ASSUME PullerAssumption ==
    /\ IsFiniteSet(Workers) /\ IsFiniteSet(Images) /\ NoImage \notin Images
    /\ Specs \subseteq [image : Images \cup {NoImage}, executor : Images \cup {NoImage}]
    /\ ConfigLists \subseteq Seq(Images \cup {NoImage})
    /\ NumRetries \in Nat /\ MaxErrors \in Nat

VARIABLES
    config,     \* the environment: fetcher, runtime, recognized endpoint, policy
    main,       \* where start() is: "fetch", "join", "sleep", "dead" (it raised) or "stuck"
    relaxed,    \* wait_interval has been raised from 5 seconds to KIP_INTERVAL
    queue,      \* worker_queue
    unfinished, \* its count of unfinished tasks, which join() waits for
    worker,     \* worker[w]: the step it is in, its image and its failed attempts
    pulled,     \* pulled_images
    present,    \* the images the node really has
    evicted,    \* history: images the node has removed
    errors      \* failed and hanging calls and evictions so far

vars == <<config, main, relaxed, queue, unfinished, worker, pulled, present, evicted, errors>>

Named == Images \cup {NoImage}
Calls == {"recheck", "check", "download"}          \* calls of the container runtime
Tasks == {"begin", "hung"} \cup Calls              \* steps with an image in hand
Steps == {"idle", "ended"} \cup Tasks
Idle == [step |-> "idle", image |-> NoImage, i |-> 0]
Ended == [step |-> "ended", image |-> NoImage, i |-> 0]
Busy == {w \in Workers : worker[w].step \in Tasks}
Gone == {w \in Workers : worker[w].step = "ended"}
Hung == {w \in Workers : worker[w].step = "hung"}
Elements(s) == {s[i] : i \in 1..Len(s)}

TypeOK ==
    /\ main \in {"fetch", "join", "sleep", "dead", "stuck"} /\ relaxed \in BOOLEAN
    /\ queue \in Seq(Named) /\ unfinished \in Nat
    /\ worker \in [Workers -> [step : Steps, image : Named, i : 0..NumRetries]]
    /\ pulled \subseteq Images /\ present \subseteq Images
    /\ evicted \subseteq Images /\ errors \in 0..MaxErrors

\* load_static_env_values: a policy that is not known becomes IfNotPresent, an endpoint
\* that is not recognized is taken for containerd
Init ==
    /\ config \in [fetcher : {"kernelspecs", "static", "configmap", "combined"},
                   runtime : {"docker", "containerd"}, recognized : BOOLEAN,
                   policy : {"IfNotPresent", "Always"}]
    /\ config.runtime = "docker" => config.recognized
    /\ main = "sleep" /\ relaxed = FALSE
    /\ queue = <<>> /\ unfinished = 0
    /\ worker = [w \in Workers |-> Idle]
    /\ pulled = {} /\ present = {} /\ evicted = {} /\ errors = 0

-----------------------------------------------------------------------------
(* The fetchers.  Each answers with the sequences of names that an iteration *)
(* over its result may yield, None, or an exception.                         *)

None == [kind |-> "none", names |-> <<>>]
Raise == [kind |-> "raise", names |-> <<>>]
Names(s) == [kind |-> "names", names |-> s]

\* a Python set is iterated in some order, each member once
Orders(S) == {Names(s) : s \in {f \in [1..Cardinality(S) -> S] : Elements(f) = S}}

\* the images named in the process proxy (or provisioner) stanzas
SpecImages(specs) == ({s.image : s \in specs} \cup {s.executor : s \in specs}) \ {NoImage}

\* mutant: the names are collected in a list
KernelSpecsListed ==
    {None, Raise} \cup {Names(<<r.image, s.image>>) : r \in Specs, s \in Specs}

\* KernelSpecsFetcher: a request that fails is logged and answered with None; a kernelspec
\* that is not made as the loop expects it raises, outside the try
KernelSpecsFetch == {None, Raise} \cup UNION {Orders(SpecImages(specs)) : specs \in SUBSET Specs}

\* StaticListFetcher: the members of KIP_IMAGES (one empty name when it is not set)
StaticFetch == Orders(Images)

\* ConfigMapImagesFetcher: a list, with its duplicates and nulls; [] when the map or its key is
\* missing; None for empty YAML; it raises without cluster access, and on YAML errors,
\* where the logger itself is called
ConfigMapFetch == {None, Raise, Names(<<>>)} \cup {Names(s) : s \in ConfigLists}

\* CombinedImagesFetcher, here of the kernelspecs and the config map: set.update raises on None
CombinedFetch ==
    {Raise} \cup UNION {Orders(Elements(a.names) \cup Elements(b.names)) :
        a \in {x \in KernelSpecsFetch : x.kind = "names"},
        b \in {x \in ConfigMapFetch : x.kind = "names"}}

FetchAnswers ==
    CASE config.fetcher = "kernelspecs" -> KernelSpecsFetch
      [] config.fetcher = "static" -> StaticFetch
      [] config.fetcher = "configmap" -> ConfigMapFetch
      [] config.fetcher = "combined" -> CombinedFetch

-----------------------------------------------------------------------------
(* The main thread *)

\* fetch_image_names, and what start() makes of its result.  Nothing catches an exception
\* of the fetcher: start() ends, the worker threads stay
Fetch(answer) ==
    /\ main = "fetch" /\ answer \in FetchAnswers
    /\ IF answer.names # <<>>
       THEN /\ queue' = queue \o answer.names
            /\ unfinished' = unfinished + Len(answer.names)
            /\ main' = "join" /\ relaxed' = TRUE
       ELSE /\ main' = IF answer.kind = "raise" THEN "dead" ELSE "sleep"
            /\ relaxed' = (relaxed \/ (answer.kind # "raise" /\ ~config.recognized))
            /\ UNCHANGED <<queue, unfinished>>
    /\ UNCHANGED <<config, worker, pulled, present, evicted, errors>>

\* mutant: start() does not wait for the queue
JoinReturnsAtOnce ==
    /\ main = "join"
    /\ main' = "sleep"
    /\ UNCHANGED <<config, relaxed, queue, unfinished, worker, pulled, present, evicted, errors>>

\* worker_queue.join()
JoinReturns ==
    /\ main = "join" /\ unfinished = 0
    /\ main' = "sleep"
    /\ UNCHANGED <<config, relaxed, queue, unfinished, worker, pulled, present, evicted, errors>>

\* the config map is read without a timeout
FetchHangs ==
    /\ main = "fetch" /\ config.fetcher \in {"configmap", "combined"}
    /\ main' = "stuck"
    /\ UNCHANGED <<config, relaxed, queue, unfinished, worker, pulled, present, evicted, errors>>

WakeUp ==
    /\ main = "sleep"
    /\ main' = "fetch"
    /\ UNCHANGED <<config, relaxed, queue, unfinished, worker, pulled, present, evicted, errors>>

-----------------------------------------------------------------------------
(* The workers *)

\* as if task_done were called in the handler as well
TaskDoneTwice(w) ==
    /\ worker' = [worker EXCEPT ![w] = Idle]
    /\ unfinished' = unfinished - 2

\* a task ends, with the queue told so
TaskDone(w) ==
    /\ worker' = [worker EXCEPT ![w] = Idle]
    /\ unfinished' = unfinished - 1

Goto(w, step) == worker' = [worker EXCEPT ![w].step = step] /\ UNCHANGED unfinished

\* image_puller: take the next name.  None ends the thread, without task_done(); with no
\* retries configured nothing is pulled
Get(w) ==
    /\ worker[w].step = "idle" /\ queue # <<>>
    /\ CASE Head(queue) = NoImage -> worker' = [worker EXCEPT ![w] = Ended] /\ UNCHANGED unfinished
         [] Head(queue) # NoImage /\ NumRetries = 0 -> TaskDone(w)
         [] Head(queue) # NoImage /\ NumRetries # 0 ->
              /\ worker' = [worker EXCEPT ![w] = [step |-> "begin", image |-> Head(queue), i |-> 0]]
              /\ UNCHANGED unfinished
    /\ queue' = Tail(queue)
    /\ UNCHANGED <<config, main, relaxed, pulled, present, evicted, errors>>

\* mutant: the worker gives up without task_done()
FailedLost(w) ==
    IF worker[w].i + 1 < NumRetries
    THEN /\ worker' = [worker EXCEPT ![w] = [step |-> "begin", image |-> @.image, i |-> @.i + 1]]
         /\ UNCHANGED unfinished
    ELSE worker' = [worker EXCEPT ![w] = Idle] /\ UNCHANGED unfinished

\* pull_image raised: try again, or give up
Failed(w) ==
    IF worker[w].i + 1 < NumRetries
    THEN /\ worker' = [worker EXCEPT ![w] = [step |-> "begin", image |-> @.image, i |-> @.i + 1]]
         /\ UNCHANGED unfinished
    ELSE TaskDone(w)

\* pull_image, up to its first call of the container runtime
PullImage(w) ==
    /\ worker[w].step = "begin"
    /\ Goto(w, IF config.policy = "Always" THEN "download"
               ELSE IF worker[w].image \in pulled THEN "recheck" ELSE "check")
    /\ UNCHANGED <<config, main, relaxed, queue, pulled, present, evicted, errors>>

\* image_exists: what it may return.  crictl's errors are caught and mean "no"; those of
\* the docker client are raised
ImageExists(i) ==
    {IF i \in present THEN "yes" ELSE "no"} \cup
    (IF errors = MaxErrors THEN {} ELSE IF config.runtime = "docker" THEN {"raise"} ELSE {"no"})

\* download_image: "no" is NotFound for docker, and any failure for crictl
DownloadImage == {"yes"} \cup
    (IF errors = MaxErrors THEN {} ELSE IF config.runtime = "docker" THEN {"no", "raise"} ELSE {"no"})

Troubled(answer, truth) == errors' = IF answer = truth THEN errors ELSE errors + 1

\* an image pulled before: done if it is still there; else forget it and pull.  The set
\* raises when another worker has forgotten the image already
Recheck(w, answer) ==
    LET i == worker[w].image
    IN  /\ worker[w].step = "recheck" /\ answer \in ImageExists(i)
        /\ Troubled(answer, IF i \in present THEN "yes" ELSE "no")
        /\ CASE answer = "yes" -> TaskDone(w) /\ UNCHANGED pulled
             [] answer = "raise" -> Failed(w) /\ UNCHANGED pulled
             [] answer = "no" /\ i \in pulled -> pulled' = pulled \ {i} /\ Goto(w, "download")
             [] answer = "no" /\ i \notin pulled -> Failed(w) /\ UNCHANGED pulled
        /\ UNCHANGED <<config, main, relaxed, queue, present, evicted>>

\* an image not pulled yet counts as pulled if it exists
Check(w, answer) ==
    LET i == worker[w].image
    IN  /\ worker[w].step = "check" /\ answer \in ImageExists(i)
        /\ Troubled(answer, IF i \in present THEN "yes" ELSE "no")
        /\ CASE answer = "yes" -> TaskDone(w) /\ pulled' = pulled \cup {i}
             [] answer = "raise" -> Failed(w) /\ UNCHANGED pulled
             [] answer = "no" -> Goto(w, "download") /\ UNCHANGED pulled
        /\ UNCHANGED <<config, main, relaxed, queue, present, evicted>>

\* mutant: the result of download_image is not looked at
DownloadRecorded(w, answer) ==
    LET i == worker[w].image
    IN  /\ worker[w].step = "download" /\ answer \in DownloadImage
        /\ Troubled(answer, "yes")
        /\ IF answer = "raise" THEN UNCHANGED pulled ELSE pulled' = pulled \cup {i}
        /\ present' = IF answer = "yes" THEN present \cup {i} ELSE present
        /\ IF answer = "raise" THEN Failed(w) ELSE TaskDone(w)
        /\ UNCHANGED <<config, main, relaxed, queue, evicted>>

\* an image that was not downloaded is left to the next round
Download(w, answer) ==
    LET i == worker[w].image
    IN  /\ worker[w].step = "download" /\ answer \in DownloadImage
        /\ Troubled(answer, "yes")
        /\ IF answer = "yes"
           THEN pulled' = pulled \cup {i} /\ present' = present \cup {i}
           ELSE UNCHANGED <<pulled, present>>
        /\ IF answer = "raise" THEN Failed(w) ELSE TaskDone(w)
        /\ UNCHANGED <<config, main, relaxed, queue, evicted>>

\* a call of crictl never returns: execute_cmd gives it no timeout.  The docker client has one
CallHangs(w) ==
    /\ worker[w].step \in Calls /\ config.runtime = "containerd" /\ errors < MaxErrors
    /\ Goto(w, "hung") /\ errors' = errors + 1
    /\ UNCHANGED <<config, main, relaxed, queue, pulled, present, evicted>>

\* the node's garbage collection removes an image
Evict(i) ==
    /\ i \in present /\ errors < MaxErrors
    /\ present' = present \ {i} /\ evicted' = evicted \cup {i} /\ errors' = errors + 1
    /\ UNCHANGED <<config, main, relaxed, queue, unfinished, worker, pulled>>

WorkerStep(w) ==
    \/ Get(w) \/ PullImage(w)
    \/ \E answer \in {"yes", "no", "raise"} :
          Recheck(w, answer) \/ Check(w, answer) \/ Download(w, answer)

MainStep == (\E answer \in FetchAnswers : Fetch(answer)) \/ JoinReturns \/ WakeUp

Next ==
    \/ MainStep \/ FetchHangs
    \/ \E w \in Workers : WorkerStep(w) \/ CallHangs(w)
    \/ \E i \in Images : Evict(i)

Spec == Init /\ [][Next]_vars

\* all threads keep running; a call that has no timeout may hang, and the steps in which it
\* does are not part of what is fair
FairSpec == Spec /\ WF_vars(MainStep) /\ \A w \in Workers : WF_vars(WorkerStep(w))

-----------------------------------------------------------------------------
\* join() waits for exactly the names that are queued or being pulled, on every path through
\* image_puller (retries, exceptions, images that are not found), and for one more per
\* worker that a null item has ended: those it waits for in vain.
UnfinishedExact == unfinished = Len(queue) + Cardinality(Busy) + Cardinality(Gone)

\* Two workers pull the same image only when a config map lists it twice: the rounds of
\* start() do not overlap and the other fetchers return sets.
OneWorkerPerImage ==
    config.fetcher # "configmap" =>
        \A v, w \in Busy : v # w => worker[v].image # worker[w].image

\* pulled_images.remove finds the image it forgets: another worker, with no lock between
\* them, has not forgotten it during image_exists, unless a config map lists it twice.
ForgetsWhatIsThere ==
    config.fetcher # "configmap" =>
        \A w \in Workers : worker[w].step = "recheck" => worker[w].image \in pulled

\* pulled_images is never ahead of the node: an image in it is there, or was there and has
\* been evicted, whatever two workers do to the set and whichever calls fail.
PulledIsPresent == pulled \subseteq present \cup evicted

\* The main thread comes back to the fetcher again and again: no sequence of failed pulls
\* keeps join() waiting.  It stops only when the fetcher raises or hangs, when a null item
\* has ended a worker, or when a call of crictl hangs.
KeepsFetching ==
    TRUE ~> main \in {"fetch", "dead", "stuck"} \/ Gone # {} \/ Hung # {}
=============================================================================
