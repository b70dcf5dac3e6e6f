------------------------ MODULE KernelSpecCacheProofs ------------------------
(***************************************************************************)
(* Proofs about KernelSpecCache, for any names, directories and requests   *)
(* and any number of changes.                                              *)
(***************************************************************************)
EXTENDS KernelSpecCache, SequenceTheorems, TLAPS

Mentions(e, n) == n \in {e.src, e.dest}

\* An event of n waits for the observer.
Queued(n) == \E i \in 1..Len(events) : Mentions(events[i], n)

\* No event after the i-th is of n.
LastOf(i, n) == \A j \in 1..Len(events) : i < j => ~Mentions(events[j], n)

\* Events come from observed directories, and a rename stays within its directory.
EventsObserved ==
    \A i \in 1..Len(events) :
        /\ started /\ DirOf[events[i].src] \in observed
        /\ DirOf[events[i].dest] = DirOf[events[i].src]
        /\ events[i].type # "moved" => events[i].dest = events[i].src

\* The observer thread holds a name exactly between its read and its put.
HolderKnown ==
    /\ observer.pc = "fetched" =>
          started /\ observer.name \in Names /\ DirOf[observer.name] \in observed
    /\ observer.pc # "fetched" => observer.name = NoName
    /\ observer.pc = "dead" => started

\* What a request has read and not put yet is what the file holds.
FillCurrent == \A n \in Names \ window, r \in Requests : fill[r][n] \in {0, disk[n]}

\* The last event of a file that was written finds the file there.
WrittenThere ==
    \A i \in 1..Len(events) :
        events[i].type = "written" /\ LastOf(i, events[i].src) => disk[events[i].src] # 0

\* A rename that is still to be handled finds its source cached as the target now is on
\* disk, and nothing that happens before will change that.
MoveKnown ==
    \A i \in 1..Len(events) :
        LET s == events[i].src
            d == events[i].dest
        IN  events[i].type = "moved" /\ d \notin window /\ LastOf(i, d) =>
               /\ cache[s] # 0 /\ cache[s] = disk[d]
               /\ ~BeingFilled(s) /\ observer.name # s
               /\ \A j \in 1..Len(events) : j < i => ~Mentions(events[j], s)

\* The observer holds the current content, unless an event says otherwise.
HeldCurrent ==
    observer.pc = "fetched" /\ ~Queued(observer.name) => observer.version = disk[observer.name]

\* A cached item with no event on its way is current.
CacheCurrent ==
    \A n \in Names \ window :
        ~Queued(n) /\ observer.name # n => cache[n] \in {0, disk[n]}

CacheInv ==
    /\ TypeOK /\ CachedIsObserved /\ EventsObserved /\ HolderKnown /\ FillCurrent
    /\ observer.pc # "dead" => WrittenThere /\ MoveKnown /\ HeldCurrent /\ CacheCurrent

\* The last conjuncts, which say what the observer will find.
Promise == WrittenThere /\ MoveKnown /\ HeldCurrent /\ CacheCurrent

-----------------------------------------------------------------------------
(* The queue of events *)

\* What is queued are events.
LEMMA EventTyped ==
    ASSUME events \in Seq(Event)
    PROVE  \A i \in 1..Len(events) :
               events[i] \in Event /\ events[i].src \in Names /\ events[i].dest \in Names
<1>1. ASSUME NEW i \in 1..Len(events) PROVE events[i] \in Event
  BY ElementOfSeq
<1> QED BY <1>1 DEF Event

\* An event put at the end of the queue.
LEMMA AppendedEvent ==
    ASSUME events \in Seq(Event), NEW e \in Event, events' = Append(events, e)
    PROVE  /\ events' \in Seq(Event) /\ Len(events) \in Nat /\ Len(events') = Len(events) + 1
           /\ \A i \in 1..Len(events) : i \in 1..Len(events') /\ events'[i] = events[i]
           /\ events'[Len(events) + 1] = e /\ Len(events) + 1 \in 1..Len(events')
           /\ \A i \in 1..Len(events') : i \in 1..Len(events) \/ i = Len(events) + 1
<1>1. Len(events) \in Nat
  BY LenProperties
<1> QED BY <1>1, AppendProperties

\* The first event taken off the queue.
LEMMA TakenEvent ==
    ASSUME events \in Seq(Event), events # <<>>, events' = Tail(events)
    PROVE  /\ events' \in Seq(Event) /\ Len(events) \in Nat /\ Len(events') = Len(events) - 1
           /\ Head(events) = events[1] /\ 1 \in 1..Len(events) /\ Head(events) \in Event
           /\ \A i \in 1..Len(events') : i + 1 \in 1..Len(events) /\ events'[i] = events[i + 1]
           /\ \A i \in 1..Len(events) : i # 1 => i - 1 \in 1..Len(events') /\ events'[i - 1] = events[i]
<1>1. Len(events) \in Nat /\ Len(events) # 0
  BY LenProperties, EmptySeq
<1>2. /\ Tail(events) \in Seq(Event) /\ Len(Tail(events)) = Len(events) - 1
      /\ Head(events) \in Event /\ \A i \in 1..Len(Tail(events)) : Tail(events)[i] = events[i + 1]
  BY HeadTailProperties
<1>3. Head(events) = events[1]
  OBVIOUS
<1> QED BY <1>1, <1>2, <1>3

\* Taking the first event: what is queued, and what is last, of the others.
LEMMA TakenFacts ==
    ASSUME events \in Seq(Event), events # <<>>, events' = Tail(events)
    PROVE  /\ \A n : Queued(n) <=> Queued(n)' \/ Mentions(Head(events), n)
           /\ \A i \in 1..Len(events') : \A n : LastOf(i, n)' <=> LastOf(i + 1, n)
           /\ \A n : LastOf(1, n) <=> ~Queued(n)'
<1>1. /\ Len(events) \in Nat /\ Len(events') = Len(events) - 1
      /\ Head(events) = events[1] /\ 1 \in 1..Len(events)
      /\ \A i \in 1..Len(events') : i + 1 \in 1..Len(events) /\ events'[i] = events[i + 1]
      /\ \A i \in 1..Len(events) : i # 1 => i - 1 \in 1..Len(events') /\ events'[i - 1] = events[i]
  BY TakenEvent
<1> HIDE DEF Mentions
<1>2. ASSUME NEW n PROVE Queued(n) <=> Queued(n)' \/ Mentions(Head(events), n)
  BY <1>1 DEF Queued, Mentions
<1>3. ASSUME NEW i \in 1..Len(events'), NEW n PROVE LastOf(i, n)' <=> LastOf(i + 1, n)
  <2>1. ASSUME LastOf(i + 1, n), NEW j \in 1..Len(events'), i < j
        PROVE  ~Mentions(events'[j], n)
    BY <1>1, <2>1 DEF LastOf
  <2>2. ASSUME LastOf(i, n)', NEW j \in 1..Len(events), i + 1 < j
        PROVE  ~Mentions(events[j], n)
    <3>1. j # 1 /\ i < j - 1
      BY <2>2, <1>1
    <3> QED BY <1>1, <2>2, <3>1 DEF LastOf, Mentions
  <2> QED BY <2>1, <2>2 DEF LastOf, Mentions
<1>4. ASSUME NEW n PROVE LastOf(1, n) <=> ~Queued(n)'
  <2>1. ASSUME ~Queued(n)', NEW j \in 1..Len(events), 1 < j
        PROVE  ~Mentions(events[j], n)
    <3>1. j - 1 \in 1..Len(events') /\ events'[j - 1] = events[j]
      BY <1>1, <2>1
    <3>2. ~Mentions(events'[j - 1], n)
      BY <3>1, <2>1 DEF Queued, Mentions
    <3> QED BY <3>1, <3>2
  <2>2. ASSUME LastOf(1, n), NEW j \in 1..Len(events')
        PROVE  ~Mentions(events'[j], n)
    BY <1>1, <2>2 DEF LastOf
  <2> QED BY <2>1, <2>2 DEF LastOf, Queued, Mentions
<1> QED BY <1>2, <1>3, <1>4

\* Adding an event: the same.
LEMMA AppendedFacts ==
    ASSUME events \in Seq(Event), NEW e \in Event, events' = Append(events, e)
    PROVE  /\ \A n : Queued(n)' <=> Queued(n) \/ Mentions(e, n)
           /\ \A i \in 1..Len(events) : \A n : LastOf(i, n)' <=> LastOf(i, n) /\ ~Mentions(e, n)
<1>1. /\ Len(events) \in Nat
      /\ \A i \in 1..Len(events) : i \in 1..Len(events') /\ events'[i] = events[i]
      /\ events'[Len(events) + 1] = e /\ Len(events) + 1 \in 1..Len(events')
      /\ \A i \in 1..Len(events') : i \in 1..Len(events) \/ i = Len(events) + 1
  BY AppendedEvent
<1>2. ASSUME NEW n PROVE Queued(n)' <=> Queued(n) \/ Mentions(e, n)
  BY <1>1 DEF Queued, Mentions
<1>3. ASSUME NEW i \in 1..Len(events), NEW n
      PROVE  LastOf(i, n)' <=> LastOf(i, n) /\ ~Mentions(e, n)
  <2>1. ASSUME LastOf(i, n)' PROVE LastOf(i, n) /\ ~Mentions(e, n)
    BY <1>1, <2>1 DEF LastOf, Mentions
  <2>2. ASSUME LastOf(i, n), ~Mentions(e, n) PROVE LastOf(i, n)'
    BY <1>1, <2>2 DEF LastOf, Mentions
  <2> QED BY <2>1, <2>2
<1> QED BY <1>2, <1>3

-----------------------------------------------------------------------------
(* The file system *)

\* A change of the files outside the windows keeps the invariant: an event follows it, or
\* the item is not cached.
LEMMA FileStep ==
    ASSUME CacheInv, NEW e \in Event,
           e.type # "moved" => e.dest = e.src, DirOf[e.dest] = DirOf[e.src],
           cache' = cache, observed' = observed, started' = started, observer' = observer,
           fill' = fill, events' = Emitted(e.src, e),
           disk' \in [Names -> Version], changes' \in 0..MaxChanges,
           window' \subseteq Names, window \subseteq window',
           \A m \in Names : ~Mentions(e, m) => disk'[m] = disk[m],
           \A m \in Names \ window' : Mentions(e, m) => ~Missed(m),
           e.type = "written" => disk'[e.src] # 0,
           e.type = "moved" /\ e.dest \notin window' =>
               /\ ~Unsettled(e.src) /\ ~BeingFilled(e.src)
               /\ disk'[e.dest] = disk[e.src] /\ disk[e.src] # 0
    PROVE  CacheInv'
<1> USE CacheAssumption
<1>1. e.src \in Names /\ e.dest \in Names
  BY DEF Event
<1>2. events \in Seq(Event) /\ cache \in [Names -> Version]
  BY DEF CacheInv, TypeOK
<1>9. \A i \in 1..Len(events) : events[i].src \in Names /\ events[i].dest \in Names
  BY <1>2, EventTyped
<1>3. \A m : BeingFilled(m)' = BeingFilled(m)
  BY DEF BeingFilled
<1>4. FillCurrent'
  <2> SUFFICES ASSUME NEW n \in Names \ window', NEW r \in Requests
               PROVE  fill[r][n] \in {0, disk'[n]}
    BY DEF FillCurrent
  <2>1. fill[r][n] \in {0, disk[n]}
    BY DEF CacheInv, FillCurrent
  <2>2. CASE Mentions(e, n)
    BY <2>2 DEF Missed, BeingFilled
  <2>3. CASE ~Mentions(e, n)
    BY <2>1, <2>3
  <2> QED BY <2>2, <2>3
<1>5. CachedIsObserved'
  BY DEF CacheInv, CachedIsObserved
<1>6. HolderKnown'
  BY DEF CacheInv, HolderKnown
<1>7. CASE started /\ DirOf[e.src] \in observed
  <2>1. events' = Append(events, e)
    BY <1>7 DEF Emitted
  <2>2. /\ events' \in Seq(Event) /\ Len(events) \in Nat /\ Len(events') = Len(events) + 1
        /\ \A i \in 1..Len(events) : i \in 1..Len(events') /\ events'[i] = events[i]
        /\ events'[Len(events) + 1] = e /\ Len(events) + 1 \in 1..Len(events')
        /\ \A i \in 1..Len(events') : i \in 1..Len(events) \/ i = Len(events) + 1
    BY <1>2, <2>1, AppendedEvent
  <2>3. /\ \A n : Queued(n)' <=> Queued(n) \/ Mentions(e, n)
        /\ \A i \in 1..Len(events) : \A n : LastOf(i, n)' <=> LastOf(i, n) /\ ~Mentions(e, n)
    BY <1>2, <2>1, AppendedFacts
  <2>4. TypeOK'
    BY <2>2 DEF CacheInv, TypeOK
  <2>5. EventsObserved'
    <3> SUFFICES ASSUME NEW i \in 1..Len(events')
                 PROVE  /\ started /\ DirOf[events'[i].src] \in observed
                        /\ DirOf[events'[i].dest] = DirOf[events'[i].src]
                        /\ events'[i].type # "moved" => events'[i].dest = events'[i].src
      BY DEF EventsObserved
    <3>1. CASE i \in 1..Len(events)
      BY <3>1, <2>2 DEF CacheInv, EventsObserved
    <3>2. CASE i = Len(events) + 1
      BY <3>2, <2>2, <1>7
    <3> QED BY <3>1, <3>2, <2>2
  <2>6. ASSUME observer.pc # "dead"
        PROVE  Promise'
    <3>1. WrittenThere /\ MoveKnown /\ HeldCurrent /\ CacheCurrent
      BY <2>6 DEF CacheInv
    <3>2. WrittenThere'
      <4> SUFFICES ASSUME NEW i \in 1..Len(events'), NEW s, s = events'[i].src,
                          events'[i].type = "written", LastOf(i, s)'
                   PROVE  disk'[s] # 0
        BY DEF WrittenThere
      <4>1. CASE i \in 1..Len(events)
        <5>1. events'[i] = events[i] /\ s \in Names
          BY <4>1, <2>2, <1>9
        <5>2. LastOf(i, s) /\ ~Mentions(e, s)
          BY <4>1, <2>3
        <5> QED BY <3>1, <4>1, <5>1, <5>2 DEF WrittenThere
      <4>2. CASE i = Len(events) + 1
        BY <4>2, <2>2
      <4> QED BY <4>1, <4>2, <2>2
    <3>3. MoveKnown'
      <4> SUFFICES ASSUME NEW i \in 1..Len(events'), NEW s, NEW d,
                          s = events'[i].src, d = events'[i].dest,
                          events'[i].type = "moved", d \notin window', LastOf(i, d)'
                   PROVE  /\ cache[s] # 0 /\ cache[s] = disk'[d]
                          /\ ~BeingFilled(s) /\ observer.name # s
                          /\ \A j \in 1..Len(events') : j < i => ~Mentions(events'[j], s)
        BY <1>3 DEF MoveKnown
      <4>1. CASE i \in 1..Len(events)
        <5>1. events'[i] = events[i] /\ d \in Names
          BY <4>1, <2>2, <1>9
        <5>2. LastOf(i, d) /\ ~Mentions(e, d)
          BY <4>1, <2>3
        <5>3. /\ cache[s] # 0 /\ cache[s] = disk[d] /\ ~BeingFilled(s) /\ observer.name # s
              /\ \A j \in 1..Len(events) : j < i => ~Mentions(events[j], s)
          BY <3>1, <4>1, <5>1, <5>2 DEF MoveKnown
        <5>4. disk'[d] = disk[d]
          BY <5>1, <5>2
        <5>5. \A j \in 1..Len(events') : j < i => ~Mentions(events'[j], s)
          BY <4>1, <5>3, <2>2
        <5> QED BY <5>3, <5>4, <5>5
      <4>2. CASE i = Len(events) + 1
        <5>1. s = e.src /\ d = e.dest /\ e.type = "moved"
          BY <4>2, <2>2
        <5>2. ~Queued(s) /\ observer.name # s /\ cache[s] = disk[s]
          BY <5>1 DEF Unsettled, Queued, Mentions
        <5>3. \A j \in 1..Len(events') : j < i => ~Mentions(events'[j], s)
          BY <4>2, <5>2, <2>2 DEF Queued
        <5> QED BY <5>1, <5>2, <5>3
      <4> QED BY <4>1, <4>2, <2>2
    <3>4. HeldCurrent'
      <4>1. ASSUME observer.pc = "fetched", ~Queued(observer.name)'
            PROVE  observer.version = disk'[observer.name]
        <5>1. ~Queued(observer.name) /\ ~Mentions(e, observer.name)
          BY <4>1, <2>3
        <5> QED BY <3>1, <4>1, <5>1 DEF HeldCurrent, CacheInv, HolderKnown
      <4> QED BY <4>1, Zenon DEF HeldCurrent, Queued
    <3>5. CacheCurrent'
      <4>1. ASSUME NEW n \in Names \ window', ~Queued(n)', observer.name # n
            PROVE  cache[n] \in {0, disk'[n]}
        <5>1. ~Queued(n) /\ ~Mentions(e, n)
          BY <4>1, <2>3
        <5> QED BY <3>1, <4>1, <5>1 DEF CacheCurrent
      <4> QED BY <4>1 DEF CacheCurrent
    <3> QED BY <3>2, <3>3, <3>4, <3>5 DEF Promise
  <2> QED BY <1>4, <1>5, <1>6, <2>4, <2>5, <2>6 DEF CacheInv, Promise
<1>8. CASE ~(started /\ DirOf[e.src] \in observed)
  <2>1. events' = events
    BY <1>8 DEF Emitted
  \* no event of these names is queued, the observer does not hold them
  <2>2. ASSUME NEW m \in Names, Mentions(e, m)
        PROVE  ~Queued(m) /\ observer.name # m
    <3>1. DirOf[m] = DirOf[e.src]
      BY <2>2 DEF Mentions
    <3>2. ~Queued(m)
      <4>1. ASSUME NEW i \in 1..Len(events), Mentions(events[i], m) PROVE FALSE
        BY <1>8, <3>1, <4>1 DEF CacheInv, EventsObserved, Mentions
      <4> QED BY <4>1 DEF Queued
    <3>3. observer.name # m
      BY <1>8, <3>1 DEF CacheInv, HolderKnown
    <3> QED BY <3>2, <3>3
  <2>3. ASSUME NEW m \in Names \ window', Mentions(e, m)
        PROVE  cache[m] = 0
    <3>1. DirOf[m] = DirOf[e.src]
      BY <2>3 DEF Mentions
    <3> QED BY <1>8, <2>3, <3>1 DEF CacheInv, CachedIsObserved, Missed
  <2>4. TypeOK' /\ EventsObserved'
    BY <2>1 DEF CacheInv, TypeOK, EventsObserved
  <2>5. /\ \A n : Queued(n)' = Queued(n)
        /\ \A i, n : LastOf(i, n)' = LastOf(i, n)
    BY <2>1 DEF Queued, LastOf
  <2>6. \A i \in 1..Len(events) : /\ events[i].src \in Names /\ events[i].dest \in Names
                                  /\ Queued(events[i].src) /\ Queued(events[i].dest)
    BY <1>9 DEF Queued, Mentions
  <2>7. ASSUME observer.pc # "dead"
        PROVE  Promise'
    <3>1. WrittenThere /\ MoveKnown /\ HeldCurrent /\ CacheCurrent
      BY <2>7 DEF CacheInv
    <3>2. \A i \in 1..Len(events) : /\ disk'[events[i].src] = disk[events[i].src]
                                    /\ disk'[events[i].dest] = disk[events[i].dest]
      BY <2>2, <2>6
    <3>3. WrittenThere'
      BY <2>1, <2>5, <3>1, <3>2 DEF WrittenThere
    <3>4. MoveKnown'
      <4> SUFFICES ASSUME NEW i \in 1..Len(events), NEW s, NEW d,
                          s = events[i].src, d = events[i].dest,
                          events[i].type = "moved", d \notin window', LastOf(i, d)'
                   PROVE  /\ cache[s] # 0 /\ cache[s] = disk'[d]
                          /\ ~BeingFilled(s) /\ observer.name # s
                          /\ \A j \in 1..Len(events) : j < i => ~Mentions(events[j], s)
        BY <1>3, <2>1 DEF MoveKnown
      <4>1. LastOf(i, d) /\ d \notin window /\ disk'[d] = disk[d]
        BY <2>5, <3>2
      <4> QED BY <3>1, <4>1 DEF MoveKnown
    <3>5. HeldCurrent'
      <4>1. ASSUME observer.pc = "fetched", ~Queued(observer.name)
            PROVE  observer.version = disk'[observer.name]
        <5>1. observer.name \in Names
          BY <4>1 DEF CacheInv, HolderKnown
        <5>2. ~Mentions(e, observer.name)
          BY <5>1, <2>2
        <5> QED BY <3>1, <4>1, <5>1, <5>2 DEF HeldCurrent
      <4> QED BY <4>1, <2>5 DEF HeldCurrent
    <3>6. CacheCurrent'
      <4>1. ASSUME NEW n \in Names \ window', ~Queued(n), observer.name # n
            PROVE  cache[n] \in {0, disk'[n]}
        <5>1. CASE Mentions(e, n)
          BY <5>1, <2>3
        <5>2. CASE ~Mentions(e, n)
          BY <3>1, <4>1, <5>2 DEF CacheCurrent
        <5> QED BY <5>1, <5>2
      <4> QED BY <4>1, <2>5 DEF CacheCurrent
    <3> QED BY <3>3, <3>4, <3>5, <3>6 DEF Promise
  <2> QED BY <1>4, <1>5, <1>6, <2>4, <2>7 DEF CacheInv, Promise
<1> QED BY <1>7, <1>8

\* Creating, modifying, deleting and renaming are such changes.
LEMMA FilesInv ==
    ASSUME CacheInv, NEW n \in Names, NEW d \in Names, Write(n) \/ Delete(n) \/ Move(n, d)
    PROVE  CacheInv'
<1> USE CacheAssumption
<1>1. /\ disk \in [Names -> Version] /\ changes \in 0..MaxChanges /\ window \subseteq Names
  BY DEF CacheInv, TypeOK
<1>2. CASE Write(n)
  <2> DEFINE e == [type |-> "written", src |-> n, dest |-> n]
  <2>1. /\ cache' = cache /\ observed' = observed /\ started' = started /\ observer' = observer
        /\ fill' = fill /\ events' = Emitted(n, e) /\ changes < MaxChanges /\ changes' = changes + 1
        /\ disk' = [disk EXCEPT ![n] = changes + 2]
        /\ window' = IF Missed(n) THEN window \cup {n} ELSE window
    BY <1>2 DEF Write
  <2>2. e \in Event /\ e.type = "written" /\ e.src = n /\ e.dest = n
    BY DEF Event
  <2>3. changes + 2 \in Version /\ changes + 2 # 0 /\ changes' \in 0..MaxChanges
    BY <1>1, <2>1 DEF Version
  <2>4. disk' \in [Names -> Version] /\ disk'[n] # 0
    BY <1>1, <2>1, <2>3
  <2>5. window' \subseteq Names /\ window \subseteq window'
    BY <1>1, <2>1
  <2>6. \A m \in Names : ~Mentions(e, m) => disk'[m] = disk[m]
    BY <1>1, <2>1 DEF Mentions
  <2>7. \A m \in Names \ window' : Mentions(e, m) => ~Missed(m)
    BY <2>1 DEF Mentions
  <2> HIDE DEF e
  <2> QED BY <2>1, <2>2, <2>3, <2>4, <2>5, <2>6, <2>7, FileStep
<1>3. CASE Delete(n)
  <2> DEFINE e == [type |-> "deleted", src |-> n, dest |-> n]
  <2>1. /\ cache' = cache /\ observed' = observed /\ started' = started /\ observer' = observer
        /\ fill' = fill /\ events' = Emitted(n, e) /\ changes < MaxChanges /\ changes' = changes + 1
        /\ disk' = [disk EXCEPT ![n] = 0]
        /\ window' = IF Missed(n) THEN window \cup {n} ELSE window
    BY <1>3 DEF Delete
  <2>2. e \in Event /\ e.type = "deleted" /\ e.src = n /\ e.dest = n
    BY DEF Event
  <2>3. changes' \in 0..MaxChanges
    BY <1>1, <2>1
  <2>4. disk' \in [Names -> Version]
    BY <1>1, <2>1 DEF Version
  <2>5. window' \subseteq Names /\ window \subseteq window'
    BY <1>1, <2>1
  <2>6. \A m \in Names : ~Mentions(e, m) => disk'[m] = disk[m]
    BY <1>1, <2>1 DEF Mentions
  <2>7. \A m \in Names \ window' : Mentions(e, m) => ~Missed(m)
    BY <2>1 DEF Mentions
  <2> HIDE DEF e
  <2> QED BY <2>1, <2>2, <2>3, <2>4, <2>5, <2>6, <2>7, FileStep
<1>4. CASE Move(n, d)
  <2> DEFINE e == [type |-> "moved", src |-> n, dest |-> d]
  <2>1. /\ cache' = cache /\ observed' = observed /\ started' = started /\ observer' = observer
        /\ fill' = fill /\ events' = Emitted(n, e) /\ changes < MaxChanges /\ changes' = changes + 1
        /\ disk' = [disk EXCEPT ![d] = disk[n], ![n] = 0] /\ n # d /\ DirOf[n] = DirOf[d]
        /\ disk[n] # 0
    BY <1>4 DEF Move
  <2>2. window' = window \cup {m \in {n, d} : Missed(m)}
                         \cup (IF Unsettled(n) \/ BeingFilled(n) \/ n \in window THEN {d} ELSE {})
    BY <1>4 DEF Move
  <2>3. e \in Event /\ e.type = "moved" /\ e.src = n /\ e.dest = d
    BY DEF Event
  <2>4. changes' \in 0..MaxChanges
    BY <1>1, <2>1
  <2>5. disk' \in [Names -> Version] /\ disk'[d] = disk[n]
    BY <1>1, <2>1 DEF Version
  <2>6. window' \subseteq Names /\ window \subseteq window'
    BY <1>1, <2>2
  <2>7. \A m \in Names : ~Mentions(e, m) => disk'[m] = disk[m]
    BY <1>1, <2>1 DEF Mentions
  <2>8. \A m \in Names \ window' : Mentions(e, m) => ~Missed(m)
    BY <2>2 DEF Mentions
  <2>9. d \notin window' => ~Unsettled(n) /\ ~BeingFilled(n)
    BY <2>2
  <2> HIDE DEF e
  <2> QED BY <2>1, <2>3, <2>4, <2>5, <2>6, <2>7, <2>8, <2>9, FileStep
<1> QED BY <1>2, <1>3, <1>4

-----------------------------------------------------------------------------
(* Requests *)

\* A request reads what the file holds, and only what is not cached.
LEMMA ReadInv ==
    ASSUME CacheInv, NEW r \in Requests, NEW n \in Names, GetKernelSpec(r, n) \/ GetAllSpecs(r)
    PROVE  CacheInv'
<1> USE CacheAssumption
<1>1. /\ disk' = disk /\ changes' = changes /\ cache' = cache /\ observed' = observed
      /\ started' = started /\ events' = events /\ observer' = observer /\ window' = window
  BY DEF GetKernelSpec, GetAllSpecs
<1>2. /\ fill \in [Requests -> [Names -> Version]] /\ disk \in [Names -> Version]
      /\ cache \in [Names -> Version] /\ events \in Seq(Event)
  BY DEF CacheInv, TypeOK
<1>3. /\ fill' \in [Requests -> [Names -> Version]]
      /\ \A q \in Requests, m \in Names :
            \/ fill'[q][m] = fill[q][m]
            \/ fill'[q][m] = disk[m] /\ cache[m] = 0
  <2>1. CASE GetKernelSpec(r, n)
    BY <1>2, <2>1 DEF GetKernelSpec
  <2>2. CASE GetAllSpecs(r)
    BY <1>2, <2>2 DEF GetAllSpecs, Nothing
  <2> QED BY <2>1, <2>2
<1>4. \A m \in Names : cache[m] # 0 /\ ~BeingFilled(m) => ~BeingFilled(m)'
  BY <1>3 DEF BeingFilled
<1>5. FillCurrent'
  BY <1>1, <1>3 DEF FillCurrent, CacheInv
<1>6. /\ \A m : Queued(m)' = Queued(m)
      /\ \A i, m : LastOf(i, m)' = LastOf(i, m)
  BY <1>1 DEF Queued, LastOf
<1>7. MoveKnown => MoveKnown'
  <2> SUFFICES ASSUME MoveKnown, NEW i \in 1..Len(events), NEW s, NEW d,
                      s = events[i].src, d = events[i].dest,
                      events[i].type = "moved", d \notin window, LastOf(i, d)
               PROVE  /\ cache[s] # 0 /\ cache[s] = disk[d]
                      /\ ~BeingFilled(s)' /\ observer.name # s
                      /\ \A j \in 1..Len(events) : j < i => ~Mentions(events[j], s)
    BY <1>1, <1>6 DEF MoveKnown
  <2>1. s \in Names
    BY <1>2, EventTyped
  <2>2. /\ cache[s] # 0 /\ cache[s] = disk[d] /\ ~BeingFilled(s) /\ observer.name # s
        /\ \A j \in 1..Len(events) : j < i => ~Mentions(events[j], s)
    BY DEF MoveKnown
  <2> QED BY <2>1, <2>2, <1>4
<1>8. TypeOK' /\ CachedIsObserved' /\ EventsObserved' /\ HolderKnown'
  BY <1>1, <1>3 DEF CacheInv, TypeOK, CachedIsObserved, EventsObserved, HolderKnown
<1>9. (WrittenThere => WrittenThere') /\ (HeldCurrent => HeldCurrent') /\ (CacheCurrent => CacheCurrent')
  BY <1>1, <1>6 DEF WrittenThere, HeldCurrent, CacheCurrent
<1> QED BY <1>1, <1>5, <1>7, <1>8, <1>9 DEF CacheInv

\* Putting what was read leaves the item current, unless the name is in a window.
LEMMA PutFetchedInv ==
    ASSUME CacheInv, NEW r \in Requests, NEW n \in Names, PutFetched(r, n)
    PROVE  CacheInv'
<1> USE CacheAssumption
<1>1. /\ disk' = disk /\ changes' = changes /\ started' = started /\ events' = events
      /\ observer' = observer /\ window' = window /\ observed' = observed \cup {DirOf[n]}
      /\ cache' = [cache EXCEPT ![n] = fill[r][n]] /\ fill' = [fill EXCEPT ![r][n] = 0]
      /\ fill[r][n] # 0
  BY DEF PutFetched, PutItem
<1>2. /\ fill \in [Requests -> [Names -> Version]] /\ disk \in [Names -> Version]
      /\ cache \in [Names -> Version] /\ events \in Seq(Event) /\ observed \subseteq Dirs
  BY DEF CacheInv, TypeOK
<1>3. /\ fill' \in [Requests -> [Names -> Version]] /\ cache' \in [Names -> Version]
      /\ \A q \in Requests, m \in Names : fill'[q][m] \in {0, fill[q][m]}
  BY <1>1, <1>2 DEF Version
<1>4. \A m \in Names : ~BeingFilled(m) => ~BeingFilled(m)'
  BY <1>3 DEF BeingFilled
<1>5. BeingFilled(n)
  BY <1>1 DEF BeingFilled
<1>6. FillCurrent'
  BY <1>1, <1>3 DEF FillCurrent, CacheInv
<1>7. TypeOK'
  BY <1>1, <1>2, <1>3 DEF CacheInv, TypeOK
<1>8. CachedIsObserved' /\ EventsObserved' /\ HolderKnown'
  BY <1>1, <1>2 DEF CacheInv, CachedIsObserved, EventsObserved, HolderKnown
<1>9. /\ \A m : Queued(m)' = Queued(m)
      /\ \A i, m : LastOf(i, m)' = LastOf(i, m)
  BY <1>1 DEF Queued, LastOf
<1>10. MoveKnown => MoveKnown'
  <2> SUFFICES ASSUME MoveKnown, NEW i \in 1..Len(events), NEW s, NEW d,
                      s = events[i].src, d = events[i].dest,
                      events[i].type = "moved", d \notin window, LastOf(i, d)
               PROVE  /\ cache'[s] # 0 /\ cache'[s] = disk[d]
                      /\ ~BeingFilled(s)' /\ observer.name # s
                      /\ \A j \in 1..Len(events) : j < i => ~Mentions(events[j], s)
    BY <1>1, <1>9 DEF MoveKnown
  <2>1. s \in Names
    BY <1>2, EventTyped
  <2>2. /\ cache[s] # 0 /\ cache[s] = disk[d] /\ ~BeingFilled(s) /\ observer.name # s
        /\ \A j \in 1..Len(events) : j < i => ~Mentions(events[j], s)
    BY DEF MoveKnown
  <2>3. s # n
    BY <2>2, <1>5
  <2> QED BY <2>1, <2>2, <2>3, <1>1, <1>2, <1>4
<1>11. WrittenThere => WrittenThere'
  BY <1>1, <1>9 DEF WrittenThere
<1>12. HeldCurrent => HeldCurrent'
  BY <1>1, <1>9 DEF HeldCurrent
<1>13. CacheCurrent => CacheCurrent'
  <2> SUFFICES ASSUME CacheCurrent, NEW m \in Names \ window, ~Queued(m), observer.name # m
               PROVE  cache'[m] \in {0, disk[m]}
    BY <1>1, <1>9 DEF CacheCurrent
  <2>1. CASE m = n
    BY <2>1, <1>1, <1>2 DEF CacheInv, FillCurrent
  <2>2. CASE m # n
    BY <2>2, <1>1, <1>2 DEF CacheCurrent
  <2> QED BY <2>1, <2>2
<1> QED BY <1>1, <1>6, <1>7, <1>8, <1>10, <1>11, <1>12, <1>13 DEF CacheInv

-----------------------------------------------------------------------------
(* The observer thread *)

\* A name leaves the windows only when no request is about to put it and no rename to it
\* is queued.
LEMMA CaughtFacts ==
    ASSUME NEW n, NEW q, window' = Caught(n, q)
    PROVE  /\ window' \subseteq window /\ window \ window' \subseteq {n}
           /\ n \in window \ window' =>
                 /\ ~BeingFilled(n)
                 /\ \A i \in 1..Len(q) : q[i].type = "moved" => q[i].dest # n
BY DEF Caught

\* Reading the file for an event of type written.
LEMMA WrittenFetchInv ==
    ASSUME CacheInv, OnWrittenFetch
    PROVE  CacheInv'
<1> USE CacheAssumption
<1> DEFINE n == Head(events).src
<1>1. /\ disk' = disk /\ changes' = changes /\ cache' = cache /\ observed' = observed
      /\ started' = started /\ fill' = fill /\ window' = window /\ events' = Tail(events)
      /\ observer = Idle /\ events # <<>> /\ Head(events).type = "written"
      /\ observer' = IF disk[n] = 0 THEN Idle
                     ELSE [pc |-> "fetched", name |-> n, version |-> disk[n]]
  BY DEF OnWrittenFetch, Handling
<1>2. events \in Seq(Event) /\ disk \in [Names -> Version] /\ observer.pc = "idle"
      /\ observer.name = NoName
  BY <1>1 DEF CacheInv, TypeOK, Idle
<1>3. WrittenThere /\ MoveKnown /\ HeldCurrent /\ CacheCurrent
  BY <1>2 DEF CacheInv
<1>4. /\ events' \in Seq(Event) /\ Len(events) \in Nat /\ Len(events') = Len(events) - 1
      /\ Head(events) = events[1] /\ 1 \in 1..Len(events)
      /\ \A i \in 1..Len(events') : i + 1 \in 1..Len(events) /\ events'[i] = events[i + 1]
  BY <1>1, <1>2, TakenEvent
<1>5. /\ \A m : Queued(m) <=> Queued(m)' \/ Mentions(Head(events), m)
      /\ \A i \in 1..Len(events') : \A m : LastOf(i, m)' <=> LastOf(i + 1, m)
      /\ \A m : LastOf(1, m) <=> ~Queued(m)'
  BY <1>1, <1>2, TakenFacts
<1>6. /\ n \in Names /\ started /\ DirOf[n] \in observed
      /\ \A m : Mentions(Head(events), m) <=> m = n
  BY <1>1, <1>2, <1>4, EventTyped DEF CacheInv, EventsObserved, Mentions
<1>7. TypeOK' /\ HolderKnown' /\ observer'.pc # "dead"
  <2>1. CASE disk[n] = 0
    BY <1>1, <1>2, <1>4, <2>1 DEF CacheInv, TypeOK, HolderKnown, Idle
  <2>2. CASE disk[n] # 0
    BY <1>1, <1>2, <1>4, <1>6, <2>2 DEF CacheInv, TypeOK, HolderKnown
  <2> QED BY <2>1, <2>2
<1>8. CachedIsObserved' /\ FillCurrent'
  BY <1>1 DEF CacheInv, CachedIsObserved, FillCurrent
<1>9. EventsObserved'
  BY <1>1, <1>4 DEF CacheInv, EventsObserved
<1>10. WrittenThere'
  <2> SUFFICES ASSUME NEW i \in 1..Len(events'), NEW s, s = events'[i].src,
                      events'[i].type = "written", LastOf(i, s)'
               PROVE  disk[s] # 0
    BY <1>1 DEF WrittenThere
  <2>1. i + 1 \in 1..Len(events) /\ events[i + 1] = events'[i] /\ LastOf(i + 1, s)
    BY <1>4, <1>5
  <2> QED BY <2>1, <1>3 DEF WrittenThere
<1>11. MoveKnown'
  <2> SUFFICES ASSUME NEW i \in 1..Len(events'), NEW s, NEW d,
                      s = events'[i].src, d = events'[i].dest,
                      events'[i].type = "moved", d \notin window, LastOf(i, d)'
               PROVE  /\ cache[s] # 0 /\ cache[s] = disk[d]
                      /\ ~BeingFilled(s) /\ observer'.name # s
                      /\ \A j \in 1..Len(events') : j < i => ~Mentions(events'[j], s)
    BY <1>1 DEF MoveKnown, BeingFilled
  <2>1. i + 1 \in 1..Len(events) /\ events[i + 1] = events'[i] /\ LastOf(i + 1, d)
    BY <1>4, <1>5
  <2>2. /\ cache[s] # 0 /\ cache[s] = disk[d] /\ ~BeingFilled(s)
        /\ \A j \in 1..Len(events) : j < i + 1 => ~Mentions(events[j], s)
    BY <2>1, <1>3 DEF MoveKnown
  <2>3. s # n /\ s # NoName
    <3>1. s \in Names
      BY <2>1, <1>2, EventTyped
    <3>2. ~Mentions(Head(events), s)
      BY <2>1, <2>2, <1>4
    <3> QED BY <3>1, <3>2, <1>6
  <2>4. observer'.name # s
    BY <1>1, <2>3 DEF Idle
  <2>5. \A j \in 1..Len(events') : j < i => ~Mentions(events'[j], s)
    BY <2>2, <1>4, SMTT(60)
  <2> QED BY <2>2, <2>4, <2>5
<1>12. HeldCurrent'
  BY <1>1 DEF HeldCurrent, Idle
<1>13. CacheCurrent'
  <2> SUFFICES ASSUME NEW m \in Names \ window, ~Queued(m)', observer'.name # m
               PROVE  cache[m] \in {0, disk[m]}
    BY <1>1 DEF CacheCurrent
  <2>1. CASE m = n
    <3>1. disk[n] = 0
      BY <2>1, <1>1
    <3>2. LastOf(1, n)
      BY <2>1, <1>5
    <3> QED BY <3>1, <3>2, <1>1, <1>3, <1>4 DEF WrittenThere
  <2>2. CASE m # n
    <3>1. ~Queued(m) /\ observer.name # m
      BY <2>2, <1>2, <1>5, <1>6
    <3> QED BY <3>1, <1>3 DEF CacheCurrent
  <2> QED BY <2>1, <2>2
<1> QED BY <1>7, <1>8, <1>9, <1>10, <1>11, <1>12, <1>13 DEF CacheInv

\* Putting what the observer has read.
LEMMA WrittenPutInv ==
    ASSUME CacheInv, OnWrittenPut
    PROVE  CacheInv'
<1> USE CacheAssumption
<1> DEFINE n == observer.name
<1>1. /\ disk' = disk /\ changes' = changes /\ cache' = [cache EXCEPT ![n] = observer.version]
      /\ observed' = observed \cup {DirOf[n]} /\ started' = started /\ fill' = fill
      /\ window' = Caught(n, events) /\ events' = events /\ observer' = Idle
      /\ observer.pc = "fetched"
  BY DEF OnWrittenPut, PutItem
<1>2. /\ events \in Seq(Event) /\ disk \in [Names -> Version] /\ cache \in [Names -> Version]
      /\ observer.version \in Version /\ n \in Names
  BY <1>1 DEF CacheInv, TypeOK, HolderKnown
<1>3. WrittenThere /\ MoveKnown /\ HeldCurrent /\ CacheCurrent
  BY <1>1 DEF CacheInv
<1>4. /\ window' \subseteq window /\ window \ window' \subseteq {n}
      /\ n \in window \ window' =>
            /\ ~BeingFilled(n)
            /\ \A i \in 1..Len(events) : events[i].type = "moved" => events[i].dest # n
  BY <1>1, CaughtFacts
<1>5. cache' \in [Names -> Version] /\ cache'[n] = observer.version
      /\ \A m \in Names : m # n => cache'[m] = cache[m]
  BY <1>1, <1>2
<1>6. Idle \in [pc : {"idle", "fetched", "dead"}, name : Names \cup {NoName}, version : Version]
  BY DEF Idle, Version
<1>7. TypeOK'
  BY <1>1, <1>2, <1>4, <1>5, <1>6 DEF CacheInv, TypeOK
<1>8. CachedIsObserved' /\ EventsObserved'
  BY <1>1, <1>2, <1>5 DEF CacheInv, CachedIsObserved, EventsObserved
<1>9. HolderKnown' /\ observer'.pc # "dead"
  BY <1>1 DEF HolderKnown, Idle
<1>10. FillCurrent'
  <2> SUFFICES ASSUME NEW m \in Names \ window', NEW r \in Requests
               PROVE  fill[r][m] \in {0, disk[m]}
    BY <1>1 DEF FillCurrent
  <2>1. CASE m \in window
    BY <2>1, <1>4 DEF BeingFilled
  <2>2. CASE m \notin window
    BY <2>2 DEF CacheInv, FillCurrent
  <2> QED BY <2>1, <2>2
<1>11. WrittenThere' /\ HeldCurrent'
  BY <1>1, <1>3 DEF WrittenThere, HeldCurrent, Idle, LastOf
<1>12. MoveKnown'
  <2> SUFFICES ASSUME NEW i \in 1..Len(events), NEW s, NEW d,
                      s = events[i].src, d = events[i].dest,
                      events[i].type = "moved", d \notin window', LastOf(i, d)
               PROVE  /\ cache'[s] # 0 /\ cache'[s] = disk[d]
                      /\ ~BeingFilled(s) /\ NoName # s
                      /\ \A j \in 1..Len(events) : j < i => ~Mentions(events[j], s)
    BY <1>1 DEF MoveKnown, BeingFilled, LastOf, Idle
  <2>1. s \in Names /\ d \notin window
    BY <1>2, <1>4, EventTyped
  <2>2. /\ cache[s] # 0 /\ cache[s] = disk[d] /\ ~BeingFilled(s) /\ n # s
        /\ \A j \in 1..Len(events) : j < i => ~Mentions(events[j], s)
    BY <2>1, <1>3 DEF MoveKnown
  <2> QED BY <2>1, <2>2, <1>5
<1>13. CacheCurrent'
  <2> SUFFICES ASSUME NEW m \in Names \ window', ~Queued(m)
               PROVE  cache'[m] \in {0, disk[m]}
    BY <1>1 DEF CacheCurrent, Queued
  <2>1. CASE m = n
    BY <2>1, <1>1, <1>3, <1>5 DEF HeldCurrent
  <2>2. CASE m # n
    <3>1. m \notin window
      BY <2>2, <1>4
    <3> QED BY <2>2, <3>1, <1>3, <1>5 DEF CacheCurrent
  <2> QED BY <2>1, <2>2
<1> QED BY <1>7, <1>8, <1>9, <1>10, <1>11, <1>12, <1>13 DEF CacheInv

\* Handling a deletion.
LEMMA DeletedInv ==
    ASSUME CacheInv, OnDeleted
    PROVE  CacheInv'
<1> USE CacheAssumption
<1> DEFINE n == Head(events).src
<1>1. /\ disk' = disk /\ changes' = changes /\ cache' = [cache EXCEPT ![n] = 0]
      /\ observed' = observed /\ started' = started /\ fill' = fill /\ observer' = observer
      /\ window' = Caught(n, Tail(events)) /\ events' = Tail(events)
      /\ observer = Idle /\ events # <<>> /\ Head(events).type = "deleted"
  BY DEF OnDeleted, Handling, RemoveItem
<1>2. /\ events \in Seq(Event) /\ disk \in [Names -> Version] /\ cache \in [Names -> Version]
      /\ observer.pc = "idle" /\ observer.name = NoName
  BY <1>1 DEF CacheInv, TypeOK, Idle
<1>3. WrittenThere /\ MoveKnown /\ HeldCurrent /\ CacheCurrent
  BY <1>2 DEF CacheInv
<1>4. /\ events' \in Seq(Event) /\ Len(events) \in Nat /\ Len(events') = Len(events) - 1
      /\ Head(events) = events[1] /\ 1 \in 1..Len(events)
      /\ \A i \in 1..Len(events') : i + 1 \in 1..Len(events) /\ events'[i] = events[i + 1]
  BY <1>1, <1>2, TakenEvent
<1>5. /\ \A m : Queued(m) <=> Queued(m)' \/ Mentions(Head(events), m)
      /\ \A i \in 1..Len(events') : \A m : LastOf(i, m)' <=> LastOf(i + 1, m)
      /\ \A m : LastOf(1, m) <=> ~Queued(m)'
  BY <1>1, <1>2, TakenFacts
<1>6. n \in Names /\ \A m : Mentions(Head(events), m) <=> m = n
  BY <1>1, <1>2, <1>4, EventTyped DEF CacheInv, EventsObserved, Mentions
<1>7. /\ window' \subseteq window /\ window \ window' \subseteq {n}
      /\ n \in window \ window' =>
            /\ ~BeingFilled(n)
            /\ \A i \in 1..Len(events') : events'[i].type = "moved" => events'[i].dest # n
  BY <1>1, CaughtFacts, ZenonT(60)
<1>8. cache' \in [Names -> Version] /\ cache'[n] = 0
      /\ \A m \in Names : m # n => cache'[m] = cache[m]
  BY <1>1, <1>2, <1>6 DEF Version
<1>9. TypeOK' /\ HolderKnown' /\ observer'.pc # "dead"
  BY <1>1, <1>2, <1>4, <1>7, <1>8 DEF CacheInv, TypeOK, HolderKnown
<1>10. CachedIsObserved'
  BY <1>1, <1>8 DEF CacheInv, CachedIsObserved
<1>11. EventsObserved'
  BY <1>1, <1>4 DEF CacheInv, EventsObserved
<1>12. FillCurrent'
  <2> SUFFICES ASSUME NEW m \in Names \ window', NEW r \in Requests
               PROVE  fill[r][m] \in {0, disk[m]}
    BY <1>1 DEF FillCurrent
  <2>1. CASE m \in window
    BY <2>1, <1>7 DEF BeingFilled
  <2>2. CASE m \notin window
    BY <2>2 DEF CacheInv, FillCurrent
  <2> QED BY <2>1, <2>2
<1>13. WrittenThere'
  <2> SUFFICES ASSUME NEW i \in 1..Len(events'), NEW s, s = events'[i].src,
                      events'[i].type = "written", LastOf(i, s)'
               PROVE  disk[s] # 0
    BY <1>1 DEF WrittenThere
  <2>1. i + 1 \in 1..Len(events) /\ events[i + 1] = events'[i] /\ LastOf(i + 1, s)
    BY <1>4, <1>5
  <2> QED BY <2>1, <1>3 DEF WrittenThere
<1>14. MoveKnown'
  <2> SUFFICES ASSUME NEW i \in 1..Len(events'), NEW s, NEW d,
                      s = events'[i].src, d = events'[i].dest,
                      events'[i].type = "moved", d \notin window', LastOf(i, d)'
               PROVE  /\ cache'[s] # 0 /\ cache'[s] = disk[d]
                      /\ ~BeingFilled(s) /\ observer.name # s
                      /\ \A j \in 1..Len(events') : j < i => ~Mentions(events'[j], s)
    BY <1>1, SMTT(60) DEF MoveKnown, BeingFilled
  <2>1. i + 1 \in 1..Len(events) /\ events[i + 1] = events'[i] /\ LastOf(i + 1, d)
    BY <1>4, <1>5
  <2>2. d \notin window
    BY <1>7
  <2>3. /\ cache[s] # 0 /\ cache[s] = disk[d] /\ ~BeingFilled(s) /\ observer.name # s
        /\ \A j \in 1..Len(events) : j < i + 1 => ~Mentions(events[j], s)
    BY <2>1, <2>2, <1>3 DEF MoveKnown
  <2>4. s \in Names /\ s # n
    <3>1. s \in Names
      BY <2>1, <1>2, EventTyped
    <3>2. ~Mentions(Head(events), s)
      BY <2>1, <2>3, <1>4
    <3> QED BY <3>1, <3>2, <1>6
  <2>5. \A j \in 1..Len(events') : j < i => ~Mentions(events'[j], s)
    BY <2>3, <1>4
  <2> QED BY <2>3, <2>4, <2>5, <1>8
<1>15. HeldCurrent'
  BY <1>1, <1>2 DEF HeldCurrent
<1>16. CacheCurrent'
  <2> SUFFICES ASSUME NEW m \in Names \ window', ~Queued(m)', observer.name # m
               PROVE  cache'[m] \in {0, disk[m]}
    BY <1>1 DEF CacheCurrent
  <2>1. CASE m = n
    BY <2>1, <1>8
  <2>2. CASE m # n
    <3>1. ~Queued(m) /\ m \notin window
      BY <2>2, <1>5, <1>6, <1>7
    <3> QED BY <2>2, <3>1, <1>3, <1>8 DEF CacheCurrent
  <2> QED BY <2>1, <2>2
<1> QED BY <1>9, <1>10, <1>11, <1>12, <1>13, <1>14, <1>15, <1>16 DEF CacheInv

\* Handling a rename: the target gets what the source has, or the thread ends.
LEMMA MovedInv ==
    ASSUME CacheInv, OnMoved
    PROVE  CacheInv'
<1> USE CacheAssumption
<1> DEFINE n == Head(events).src
           d == Head(events).dest
<1>1. /\ disk' = disk /\ changes' = changes /\ window' = window
      /\ observed' = observed /\ started' = started /\ fill' = fill /\ events' = Tail(events)
      /\ observer = Idle /\ events # <<>> /\ Head(events).type = "moved"
  BY DEF OnMoved, Handling
<1>2. /\ events \in Seq(Event) /\ disk \in [Names -> Version] /\ cache \in [Names -> Version]
      /\ observer.pc = "idle" /\ observer.name = NoName
  BY <1>1 DEF CacheInv, TypeOK, Idle
<1>3. WrittenThere /\ MoveKnown /\ HeldCurrent /\ CacheCurrent
  BY <1>2 DEF CacheInv
<1>4. /\ events' \in Seq(Event) /\ Len(events) \in Nat /\ Len(events') = Len(events) - 1
      /\ Head(events) = events[1] /\ 1 \in 1..Len(events)
      /\ \A i \in 1..Len(events') : i + 1 \in 1..Len(events) /\ events'[i] = events[i + 1]
  BY <1>1, <1>2, TakenEvent
<1>5. /\ n \in Names /\ d \in Names /\ started /\ DirOf[n] \in observed /\ DirOf[d] = DirOf[n]
      /\ \A m : Mentions(Head(events), m) <=> m = n \/ m = d
  BY <1>2, <1>4, EventTyped DEF CacheInv, EventsObserved, Mentions
<1>6. FillCurrent'
  BY <1>1 DEF CacheInv, FillCurrent
<1>7. EventsObserved'
  BY <1>1, <1>4 DEF CacheInv, EventsObserved
<1>8. CASE cache[n] = 0
  <2>1. cache' = cache /\ observer' = [Idle EXCEPT !.pc = "dead"]
    BY <1>8 DEF OnMoved
  <2>2. observer'.pc = "dead" /\ observer'.name = NoName
        /\ observer' \in [pc : {"idle", "fetched", "dead"}, name : Names \cup {NoName}, version : Version]
    BY <2>1 DEF Idle, Version
  <2>3. TypeOK' /\ HolderKnown' /\ CachedIsObserved'
    BY <1>1, <1>4, <1>5, <2>1, <2>2 DEF CacheInv, TypeOK, HolderKnown, CachedIsObserved
  <2> QED BY <2>2, <2>3, <1>6, <1>7 DEF CacheInv
<1>9. CASE cache[n] # 0
  <2>1. observer' = observer
    BY <1>9 DEF OnMoved
  <2>10. cache' = [[cache EXCEPT ![n] = 0] EXCEPT ![d] = cache[n]]
    BY <1>9 DEF OnMoved, RemoveItem
  <2>2. /\ cache' \in [Names -> Version] /\ cache'[d] = cache[n] /\ (n # d => cache'[n] = 0)
        /\ \A m \in Names : m # n /\ m # d => cache'[m] = cache[m]
    <3> HIDE DEF n, d
    <3>1. PICK c : c = [cache EXCEPT ![n] = 0]
      OBVIOUS
    <3>2. /\ c \in [Names -> Version] /\ c[n] = 0
          /\ \A m \in Names : m # n => c[m] = cache[m]
      BY <3>1, <1>2, <1>5 DEF Version
    <3>3. cache' = [c EXCEPT ![d] = cache[n]] /\ cache[n] \in Version
      BY <3>1, <2>10, <1>2, <1>5
    <3> QED BY <3>2, <3>3, <1>5
  <2>3. TypeOK' /\ HolderKnown'
    BY <1>1, <1>4, <2>1, <2>2 DEF CacheInv, TypeOK, HolderKnown
  <2>4. CachedIsObserved'
    BY <1>1, <1>5, <2>2 DEF CacheInv, CachedIsObserved
  <2>5. /\ \A m : Queued(m) <=> Queued(m)' \/ Mentions(Head(events), m)
        /\ \A i \in 1..Len(events') : \A m : LastOf(i, m)' <=> LastOf(i + 1, m)
        /\ \A m : LastOf(1, m) <=> ~Queued(m)'
    BY <1>1, <1>2, TakenFacts
  <2>6. WrittenThere'
    <3> SUFFICES ASSUME NEW i \in 1..Len(events'), NEW s, s = events'[i].src,
                        events'[i].type = "written", LastOf(i, s)'
                 PROVE  disk[s] # 0
      BY <1>1 DEF WrittenThere
    <3>1. i + 1 \in 1..Len(events) /\ events[i + 1] = events'[i] /\ LastOf(i + 1, s)
      BY <1>4, <2>5
    <3> QED BY <3>1, <1>3 DEF WrittenThere
  <2>7. MoveKnown'
    <3> SUFFICES ASSUME NEW i \in 1..Len(events'), NEW s, NEW t,
                        s = events'[i].src, t = events'[i].dest,
                        events'[i].type = "moved", t \notin window, LastOf(i, t)'
                 PROVE  /\ cache'[s] # 0 /\ cache'[s] = disk[t]
                        /\ ~BeingFilled(s) /\ observer.name # s
                        /\ \A j \in 1..Len(events') : j < i => ~Mentions(events'[j], s)
      <4>1. \A m : BeingFilled(m)' = BeingFilled(m)
        BY <1>1 DEF BeingFilled
      <4>2. window' = window /\ disk' = disk
        BY <1>1
      <4> HIDE DEF n, d
      <4> QED BY <2>1, <4>1, <4>2 DEF MoveKnown
    <3>1. i + 1 \in 1..Len(events) /\ events[i + 1] = events'[i] /\ LastOf(i + 1, t)
      BY <1>4, <2>5
    <3>2. /\ cache[s] # 0 /\ cache[s] = disk[t] /\ ~BeingFilled(s) /\ observer.name # s
          /\ \A j \in 1..Len(events) : j < i + 1 => ~Mentions(events[j], s)
      BY <3>1, <1>3 DEF MoveKnown
    <3>3. s \in Names /\ s # n /\ s # d
      <4>1. s \in Names
        BY <3>1, <1>2, EventTyped
      <4>2. ~Mentions(Head(events), s)
        BY <3>1, <3>2, <1>4
      <4> QED BY <4>1, <4>2, <1>5
    <3>4. \A j \in 1..Len(events') : j < i => ~Mentions(events'[j], s)
      BY <3>2, <1>4
    <3> QED BY <3>2, <3>3, <3>4, <2>2
  <2>8. HeldCurrent'
    BY <1>1, <1>2, <2>1 DEF HeldCurrent
  <2>9. CacheCurrent'
    <3> SUFFICES ASSUME NEW m \in Names \ window, ~Queued(m)', observer.name # m
                 PROVE  cache'[m] \in {0, disk[m]}
      BY <1>1, <2>1 DEF CacheCurrent
    <3>1. CASE m = d
      <4>1. LastOf(1, d)
        BY <3>1, <2>5
      <4>2. cache[n] = disk[d]
        BY <3>1, <4>1, <1>1, <1>3, <1>4 DEF MoveKnown
      <4> QED BY <3>1, <4>2, <2>2
    <3>2. CASE m = n /\ n # d
      BY <3>2, <2>2
    <3>3. CASE m # n /\ m # d
      <4>1. ~Queued(m)
        BY <3>3, <2>5, <1>5
      <4> QED BY <3>3, <4>1, <1>3, <2>2 DEF CacheCurrent
    <3> QED BY <3>1, <3>2, <3>3
  <2> QED BY <2>3, <2>4, <2>6, <2>7, <2>8, <2>9, <1>6, <1>7 DEF CacheInv
<1> QED BY <1>8, <1>9

-----------------------------------------------------------------------------
\* What _initialize leaves behind satisfies the invariant.
LEMMA CacheInitInv == Init => CacheInv
<1> SUFFICES ASSUME Init PROVE CacheInv
  OBVIOUS
<1> USE CacheAssumption
<1>1. events = <<>> /\ events \in Seq(Event) /\ Len(events) = 0
  BY EmptySeq DEF Init
<1>2. observer.pc = "idle" /\ observer.name = NoName
      /\ observer \in [pc : {"idle", "fetched", "dead"}, name : Names \cup {NoName}, version : Version]
  BY DEF Init, Idle, Version
<1>3. disk \in [Names -> Version] /\ cache = disk /\ observed = SeedDirs /\ window = {}
      /\ \A n \in Names : disk[n] # 0 => DirOf[n] \in SeedDirs
  BY DEF Init, Version
<1>4. fill \in [Requests -> [Names -> Version]] /\ \A r \in Requests, n \in Names : fill[r][n] = 0
  BY DEF Init, Nothing, Version
<1>9. started \in BOOLEAN
  BY Zenon DEF Init
<1>5. started \in BOOLEAN /\ changes \in 0..MaxChanges
  BY <1>9 DEF Init
<1>6. TypeOK
  BY <1>1, <1>2, <1>3, <1>4, <1>5 DEF TypeOK
<1>7. CachedIsObserved /\ EventsObserved /\ HolderKnown /\ FillCurrent
  BY <1>1, <1>2, <1>3, <1>4 DEF CachedIsObserved, EventsObserved, HolderKnown, FillCurrent
<1>8. WrittenThere /\ MoveKnown /\ HeldCurrent /\ CacheCurrent
  BY <1>1, <1>2, <1>3 DEF WrittenThere, MoveKnown, HeldCurrent, CacheCurrent
<1> QED BY <1>6, <1>7, <1>8 DEF CacheInv

\* Starting the observer: nothing is queued before.
LEMMA StartInv ==
    ASSUME CacheInv, StartObserver \/ UNCHANGED vars
    PROVE  CacheInv'
<1>1. /\ disk' = disk /\ changes' = changes /\ cache' = cache /\ observed' = observed
      /\ events' = events /\ observer' = observer /\ fill' = fill /\ window' = window
      /\ started' \in BOOLEAN /\ (started => started')
  BY DEF StartObserver, vars, CacheInv, TypeOK
<1>2. TypeOK' /\ CachedIsObserved' /\ EventsObserved' /\ HolderKnown' /\ FillCurrent'
  BY <1>1 DEF CacheInv, TypeOK, CachedIsObserved, EventsObserved, HolderKnown, FillCurrent
<1>3. /\ WrittenThere => WrittenThere'
      /\ HeldCurrent => HeldCurrent'
      /\ CacheCurrent => CacheCurrent'
  BY <1>1 DEF WrittenThere, HeldCurrent, CacheCurrent, LastOf, Queued
<1>4. MoveKnown => MoveKnown'
  BY <1>1 DEF MoveKnown, LastOf, BeingFilled
<1> QED BY <1>1, <1>2, <1>3, <1>4 DEF CacheInv

\* Every step keeps the invariant.
LEMMA CacheStepInv == CacheInv /\ [Next]_vars => CacheInv'
<1> SUFFICES ASSUME CacheInv, [Next]_vars PROVE CacheInv'
  OBVIOUS
<1>1. CASE StartObserver \/ UNCHANGED vars
  BY <1>1, StartInv
<1>2. ASSUME NEW n \in Names, Write(n) \/ Delete(n) \/ \E d \in Names : Move(n, d)
      PROVE  CacheInv'
  BY <1>2, FilesInv
<1>3. ASSUME NEW r \in Requests, NEW n \in Names, GetKernelSpec(r, n) \/ PutFetched(r, n)
      PROVE  CacheInv'
  BY <1>3, ReadInv, PutFetchedInv
<1>4. ASSUME NEW r \in Requests, GetAllSpecs(r)
      PROVE  CacheInv'
  <2>1. PICK n \in Names : disk[n] # 0
    BY <1>4 DEF GetAllSpecs, Nothing, CacheInv, TypeOK
  <2> QED BY <1>4, ReadInv
<1>5. CASE OnWrittenFetch \/ OnWrittenPut \/ OnDeleted \/ OnMoved
  BY <1>5, WrittenFetchInv, WrittenPutInv, DeletedInv, MovedInv
<1> QED BY <1>1, <1>2, <1>3, <1>4, <1>5 DEF Next

-----------------------------------------------------------------------------
\* A cached item is out of date only while events wait for the observer or after a change
\* in one of the three windows, for any number of names, requests and changes.
THEOREM StaleExplained == Spec => []StaleOnlyInWindow
<1>1. CacheInv => StaleOnlyInWindow
  <2> SUFFICES ASSUME CacheInv, Quiet, NEW n \in Names \ window
               PROVE  cache[n] \in {0, disk[n]}
    BY DEF StaleOnlyInWindow
  <2>1. events = <<>> /\ Len(events) = 0 /\ observer.pc = "idle" /\ observer.name = NoName
    BY EmptySeq DEF Quiet, Idle
  <2>2. ~Queued(n) /\ observer.name # n
    BY <2>1, CacheAssumption DEF Queued
  <2> QED BY <2>1, <2>2 DEF CacheInv, CacheCurrent
<1> QED BY <1>1, CacheInitInv, CacheStepInv, PTL DEF Spec

\* Every cached item is in an observed directory (put_item), and the state is typed.
THEOREM CachedObserved == Spec => [](TypeOK /\ CachedIsObserved)
<1>1. CacheInv => TypeOK /\ CachedIsObserved
  BY DEF CacheInv
<1> QED BY <1>1, CacheInitInv, CacheStepInv, PTL DEF Spec
=============================================================================
