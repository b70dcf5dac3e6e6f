--------------------------- MODULE KernelSpecCache ---------------------------
(***************************************************************************)
(* KernelSpecCache and KernelSpecChangeHandler                             *)
(* (services/kernelspecs/kernelspec_cache.py), with the cache enabled.     *)
(*                                                                         *)
(* The cache is seeded at start-up, filled by requests that miss, and      *)
(* updated by the observer thread from file system events.  The server's   *)
(* thread and the observer each read the kernelspec first and put it into  *)
(* the cache later; the files change at any time.                          *)
(*                                                                         *)
(* Names are case-folded, as the keys are.  A version stands for the       *)
(* content of a kernel.json; 0 is no file, or no cache item.               *)
(***************************************************************************)
EXTENDS Naturals, Sequences, FiniteSets

CONSTANTS
    Names, Dirs,
    DirOf,        \* DirOf[n]: the kernels directory that n is in
    SeedDirs,     \* those that exist when the server starts
    Requests,     \* requests that may find the cache without the item they need
    MaxChanges,   \* bound on the changes to the files
    NoName

ASSUME CacheAssumption ==
    /\ IsFiniteSet(Names) /\ IsFiniteSet(Dirs) /\ DirOf \in [Names -> Dirs]
    /\ SeedDirs \subseteq Dirs /\ MaxChanges \in Nat /\ NoName \notin Names

VARIABLES
    disk,      \* disk[n]: version of the file
    changes,   \* changes made so far; the next content written is changes + 2
    cache,     \* cache_items
    observed,  \* observed_dirs
    started,   \* the observer has been started
    events,    \* the observer's queue
    observer,  \* what the observer thread holds between its read and its put
    fill,      \* fill[r][n]: what request r has read and not put yet
    window     \* history: names changed while the cache could not follow

vars == <<disk, changes, cache, observed, started, events, observer, fill, window>>

Version == 0..(MaxChanges + 1)
Nothing == [n \in Names |-> 0]
Idle == [pc |-> "idle", name |-> NoName, version |-> 0]
Event == [type : {"written", "deleted", "moved"}, src : Names, dest : Names]

TypeOK ==
    /\ disk \in [Names -> Version] /\ changes \in 0..MaxChanges
    /\ cache \in [Names -> Version]
    /\ observed \subseteq Dirs /\ started \in BOOLEAN
    /\ events \in Seq(Event)
    /\ observer \in [pc : {"idle", "fetched", "dead"}, name : Names \cup {NoName},
                     version : Version]
    /\ fill \in [Requests -> [Names -> Version]]
    /\ window \subseteq Names

\* _initialize up to observer.start(): the specs found are cached, their directories
\* and the manager's other kernel_dirs are scheduled
Init ==
    /\ disk \in [Names -> {0, 1}]
    /\ \A n \in Names : disk[n] = 1 => DirOf[n] \in SeedDirs
    /\ cache = disk /\ observed = SeedDirs
    /\ changes = 0 /\ started = FALSE /\ events = <<>> /\ observer = Idle
    /\ fill = [r \in Requests |-> Nothing]
    /\ window = {}

\* observer.start()
StartObserver ==
    /\ ~started
    /\ started' = TRUE
    /\ UNCHANGED <<disk, changes, cache, observed, events, observer, fill, window>>

-----------------------------------------------------------------------------
(* The file system; watchdog (external) queues an event for a change in an *)
(* observed directory.                                                     *)

Emitted(n, e) == IF started /\ DirOf[n] \in observed THEN Append(events, e) ELSE events

\* a request holds content of n that it has not put yet
BeingFilled(n) == \E r \in Requests : fill[r][n] # 0

\* changes of n that the cache gets no event for, or that a fill in progress will undo
Missed(n) == BeingFilled(n) \/ (~started /\ cache[n] # 0)

\* a kernel.json is created or modified; both events are handled alike
Write(n) ==
    /\ changes < MaxChanges
    /\ changes' = changes + 1
    /\ disk' = [disk EXCEPT ![n] = changes + 2]
    /\ events' = Emitted(n, [type |-> "written", src |-> n, dest |-> n])
    /\ window' = IF Missed(n) THEN window \cup {n} ELSE window
    /\ UNCHANGED <<cache, observed, started, observer, fill>>

Delete(n) ==
    /\ changes < MaxChanges /\ disk[n] # 0
    /\ changes' = changes + 1
    /\ disk' = [disk EXCEPT ![n] = 0]
    /\ events' = Emitted(n, [type |-> "deleted", src |-> n, dest |-> n])
    /\ window' = IF Missed(n) THEN window \cup {n} ELSE window
    /\ UNCHANGED <<cache, observed, started, observer, fill>>

\* the handler will not find what it moves up to date: an event of the source is still
\* queued or in the handler's hands, or the source is not cached as it is on disk
Unsettled(n) ==
    \/ \E i \in 1..Len(events) : n \in {events[i].src, events[i].dest}
    \/ observer.name = n
    \/ cache[n] # disk[n]

\* a kernelspec directory is renamed within its kernels directory
Move(n, d) ==
    /\ changes < MaxChanges /\ disk[n] # 0 /\ disk[d] = 0 /\ DirOf[n] = DirOf[d] /\ n # d
    /\ changes' = changes + 1
    /\ disk' = [disk EXCEPT ![d] = disk[n], ![n] = 0]
    /\ events' = Emitted(n, [type |-> "moved", src |-> n, dest |-> d])
    /\ window' = window \cup {m \in {n, d} : Missed(m)}
                        \cup (IF Unsettled(n) \/ BeingFilled(n) \/ n \in window THEN {d} ELSE {})
    /\ UNCHANGED <<cache, observed, started, observer, fill>>

-----------------------------------------------------------------------------
(* The cache *)

\* mutant: a directory that is not observed yet is not scheduled
PutItemUnobserved(n, v) ==
    /\ cache' = [cache EXCEPT ![n] = v]
    /\ UNCHANGED observed

\* put_item: also starts observing the directory
PutItem(n, v) ==
    /\ cache' = [cache EXCEPT ![n] = v]
    /\ observed' = observed \cup {DirOf[n]}

\* mutant: the item is looked up under another key and stays
RemoveItemMissed(n) == cache

\* remove_item
RemoveItem(n) == [cache EXCEPT ![n] = 0]

\* get_kernel_spec misses and reads the file; NoSuchKernel if there is none
GetKernelSpec(r, n) ==
    /\ fill[r] = Nothing /\ cache[n] = 0 /\ disk[n] # 0
    /\ fill' = [fill EXCEPT ![r][n] = disk[n]]
    /\ UNCHANGED <<disk, changes, cache, observed, started, events, observer, window>>

\* get_all_specs finds no item at all and reads every file
GetAllSpecs(r) ==
    /\ fill[r] = Nothing /\ cache = Nothing /\ disk # Nothing
    /\ fill' = [fill EXCEPT ![r] = disk]
    /\ UNCHANGED <<disk, changes, cache, observed, started, events, observer, window>>

\* the request puts (one of) what it has read; get_all_specs puts one after the other
PutFetched(r, n) ==
    /\ fill[r][n] # 0
    /\ PutItem(n, fill[r][n])
    /\ fill' = [fill EXCEPT ![r][n] = 0]
    /\ UNCHANGED <<disk, changes, started, events, observer, window>>

-----------------------------------------------------------------------------
(* KernelSpecChangeHandler, in the observer's thread *)

Handling(type) == observer = Idle /\ events # <<>> /\ Head(events).type = type

\* history: the item now follows the file; a fill in progress or a queued rename to n
\* can still put something older there
Caught(n, queue) ==
    IF BeingFilled(n) \/ \E i \in 1..Len(queue) : queue[i].type = "moved" /\ queue[i].dest = n
    THEN window ELSE window \ {n}

\* mutant: an item that is cached already is not read again
OnWrittenFetchNew ==
    LET n == Head(events).src
    IN  /\ Handling("written")
        /\ observer' = IF disk[n] = 0 \/ cache[n] # 0 THEN Idle
                       ELSE [pc |-> "fetched", name |-> n, version |-> disk[n]]
        /\ events' = Tail(events)
        /\ UNCHANGED <<disk, changes, cache, observed, started, fill, window>>

\* on_created, on_modified: get_kernel_spec; a NoSuchKernel is logged
OnWrittenFetch ==
    LET n == Head(events).src
    IN  /\ Handling("written")
        /\ observer' = IF disk[n] = 0 THEN Idle
                       ELSE [pc |-> "fetched", name |-> n, version |-> disk[n]]
        /\ events' = Tail(events)
        /\ UNCHANGED <<disk, changes, cache, observed, started, fill, window>>

OnWrittenPut ==
    LET n == observer.name
    IN  /\ observer.pc = "fetched"
        /\ PutItem(n, observer.version)
        /\ observer' = Idle
        /\ window' = Caught(n, events)
        /\ UNCHANGED <<disk, changes, started, events, fill>>

OnDeleted ==
    LET n == Head(events).src
    IN  /\ Handling("deleted")
        /\ cache' = RemoveItem(n)
        /\ events' = Tail(events)
        /\ window' = Caught(n, Tail(events))
        /\ UNCHANGED <<disk, changes, observed, started, observer, fill>>

\* on_moved subscripts what remove_item returned: a TypeError when the source is not
\* cached, which ends the observer's thread
OnMoved ==
    LET n == Head(events).src
        d == Head(events).dest
    IN  /\ Handling("moved")
        /\ IF cache[n] = 0
           THEN /\ observer' = [Idle EXCEPT !.pc = "dead"]
                /\ UNCHANGED cache
           ELSE /\ cache' = [RemoveItem(n) EXCEPT ![d] = cache[n]]
                /\ UNCHANGED observer
        /\ events' = Tail(events)
        /\ UNCHANGED <<disk, changes, observed, started, fill, window>>

Next ==
    \/ StartObserver
    \/ \E n \in Names : Write(n) \/ Delete(n) \/ \E d \in Names : Move(n, d)
    \/ \E r \in Requests :
          GetAllSpecs(r) \/ \E n \in Names : GetKernelSpec(r, n) \/ PutFetched(r, n)
    \/ OnWrittenFetch \/ OnWrittenPut \/ OnDeleted \/ OnMoved

Spec == Init /\ [][Next]_vars

\* both threads keep running; files and requests are free
Fairness ==
    /\ WF_vars(StartObserver)
    /\ WF_vars(OnWrittenFetch \/ OnWrittenPut \/ OnDeleted \/ OnMoved)
    /\ \A r \in Requests, n \in Names : WF_vars(PutFetched(r, n))

FairSpec == Spec /\ Fairness

-----------------------------------------------------------------------------
Quiet == events = <<>> /\ observer = Idle

\* A cached item is out of date only while events wait for the observer, or after a
\* change in one of three windows: before the observer was started, during a request's
\* fill of that name, or a rename with earlier events of the source still queued.
StaleOnlyInWindow ==
    Quiet => \A n \in Names \ window : cache[n] \in {0, disk[n]}

\* Every cached item is in a directory that is observed, so that put_item never caches
\* what no event can ever correct.
CachedIsObserved == \A n \in Names : cache[n] # 0 => DirOf[n] \in observed

\* A kernelspec that is deleted disappears from the cache, as test_kernelspec_cache's
\* tests_remove_spec waits for, unless it comes back, the deletion fell in a window, or
\* the observer thread has died.
DeletedForgotten ==
    \A n \in Names :
        disk[n] = 0 ~> (cache[n] = 0 \/ disk[n] # 0 \/ n \in window \/ observer.pc = "dead")
=============================================================================
