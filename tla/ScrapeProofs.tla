---------------------------- MODULE ScrapeProofs ----------------------------
(***************************************************************************)
(* Proofs about scrapes that overlap sweeps, for any devices, any number   *)
(* of map objects that leaves one to allocate, and any bounds.             *)
(***************************************************************************)
EXTENDS Scrape, TLAPS

-----------------------------------------------------------------------------
(* The inductive invariant.                                                *)

InSweep == pc \in {"collect", "publish", "announce"}

\* Nobody else refers to the map the sweep writes to; between sweeps there is
\* nothing to do.
Private ==
    /\ InSweep => working \notin {store, previous, set}
    /\ ~InSweep => previous = Nil
    /\ pc \in {"wait", "seed"} => todo = {}

\* No success is ahead of the clock, and none has no time.
Timed(s) == s # Absent => s.lastSuccess <= clock /\ (~s.failed => s.lastSuccess # Never)
Times == \A map \in Maps, d \in Devices : Timed(heap[map][d])

\* What is known of a device in b is no older than in a.
Behind(a, b) == a # Absent => b # Absent /\ b.lastSuccess >= a.lastSuccess

\* The store, the map the sweep started from and the one it writes to.
Sweep ==
    /\ \A d \in Devices : Held(store, d) # Absent => d \in targets \cup gone
    /\ InSweep =>
         /\ \A d \in Devices : Held(working, d) # Absent => d \in targets
         /\ \A d \in todo : Held(previous, d) = Held(store, d) /\ Held(working, d) = Held(store, d)
         /\ \A d \in Devices \ gone : Behind(Held(store, d), Held(working, d))
    /\ pc \in {"publish", "announce"} => Held(working, target) # Absent
    /\ pc = "announce" => \A d \in Devices : Held(store, d) = Held(working, d)

\* What a scrape makes of the device it saw.
Shown(d) == IF saw[d] = Absent THEN Absent ELSE Exported(saw[d], now)

\* The map a scrape goes through is as it was when it was loaded.
Reader ==
    /\ at \in {"idle", "load"} => saw = Empty /\ got = Empty
    /\ at \in {"clock", "range"} => saw = heap[set]
    /\ at = "clock" => got = Empty /\ left = {d \in Devices : saw[d] # Absent}
    /\ at = "range" => \A d \in Devices :
         IF d \in left THEN saw[d] # Absent /\ got[d] = Absent ELSE got[d] = Shown(d)
    /\ at = "done" => \A d \in Devices : got[d] = Shown(d)

\* The last scrape is not ahead of this one, nor this one of the store.
Forward ==
    \A d \in Devices \ gone :
        /\ Behind(last[d], Held(store, d))
        /\ at \in {"clock", "range", "done"} =>
             Behind(last[d], saw[d]) /\ Behind(saw[d], Held(store, d))

HasData(s) == s # Absent /\ s.lastSuccess # Never

\* While no device was removed, readiness has data to show for it.
Honest ==
    /\ probed => ready /\ at # "idle"
    /\ gone = {} =>
         /\ ready => \E d \in Devices : HasData(Held(store, d))
         /\ probed /\ at \in {"clock", "range", "done"} => \E d \in Devices : HasData(saw[d])

LEMMA Constants ==
  /\ Devices # {} /\ Nil \notin Maps
  /\ Absent \notin Snapshot /\ Absent \notin Metrics
  /\ StaleAfter \in Nat /\ MaxClock \in Nat /\ MaxClock > 0 /\ MaxSweeps \in Nat
<1>1. MaxClock \in Nat \ {0}
  BY ScrapeAssumption
<1> QED
  BY <1>1, ScrapeAssumption

-----------------------------------------------------------------------------
(* Maps.                                                                   *)

LEMMA FreshMap ==
  ASSUME References \subseteq Maps \cup {Nil}
  PROVE  Fresh \in Maps /\ Fresh \notin References /\ Fresh # Nil
<1>1. Maps \ {store, previous, working, set} # {}
  BY ScrapeAssumption DEF References
<1>2. \E map \in Maps : map \notin References
  BY <1>1 DEF References
<1>3. Fresh \in Maps /\ Fresh \notin References
  BY <1>2 DEF Fresh
<1> QED
  BY <1>3, ScrapeAssumption

\* What is still referred to is kept by a step that allocates or lets go.
LEMMA HeapKeeps ==
  ASSUME NEW contents, Heap(contents)
  PROVE  \A map \in Maps : map \in References' => heap'[map] = contents[map]
  BY DEF Heap

LEMMA HeapTyped ==
  ASSUME NEW contents \in [Maps -> Contents], Heap(contents)
  PROVE  heap' \in [Maps -> Contents]
<1>1. Empty \in Contents
  BY DEF Empty, Contents
<1> QED
  BY <1>1 DEF Heap

LEMMA SnapshotsTyped ==
  ASSUME TypeOK, NEW map \in Maps \cup {Nil}, NEW d \in Devices
  PROVE  Held(map, d) \in Snapshot \cup {Absent}
  BY Constants DEF TypeOK, Contents, Held

LEMMA BehindItself == 
  ASSUME NEW s \in Snapshot \cup {Absent}
  PROVE  Behind(s, s)
  BY DEF Behind, Snapshot

-----------------------------------------------------------------------------
(* Types.                                                                  *)

LEMMA InitTypes == Init => TypeOK
<1> SUFFICES ASSUME Init PROVE TypeOK
  OBVIOUS
<1>1. Empty \in Contents /\ Empty \in [Devices -> Metrics \cup {Absent}]
  BY DEF Empty, Contents
<1>2. clock \in 1..MaxClock /\ sweeps \in 0..MaxSweeps /\ now \in 0..MaxClock
  BY Constants DEF Init, Never
<1> QED
  BY <1>1, <1>2, Constants DEF Init, TypeOK, References

LEMMA ExportedTyped ==
  ASSUME NEW s \in Snapshot, NEW instant \in Nat
  PROVE  Exported(s, instant) \in Metrics
  BY Constants DEF Exported, Metrics, Snapshot, IsStale, Never

LEMMA TypesStep == TypeOK /\ Private /\ Reader /\ [Next]_vars => TypeOK'
<1> SUFFICES ASSUME TypeOK, Private, Reader, [Next]_vars PROVE TypeOK'
  OBVIOUS
<1>f. Fresh \in Maps /\ Fresh \notin References /\ Fresh # Nil
  BY FreshMap DEF TypeOK
<1>e. Empty \in Contents
  BY DEF Empty, Contents
<1>1. CASE DiscoverFails
  <2>1. sweeps' \in 0..MaxSweeps
    BY <1>1, Constants DEF DiscoverFails, TypeOK
  <2> QED
    BY <1>1, <2>1 DEF DiscoverFails, TypeOK, scrape, References
<1>2. CASE Discover
  <2>1. sweeps' \in 0..MaxSweeps
    BY <1>2, Constants DEF Discover, TypeOK
  <2>2. /\ targets' \subseteq Devices /\ todo' \subseteq targets' /\ gone' \subseteq Devices
    BY <1>2 DEF Discover, TypeOK, Private
  <2> QED
    BY <1>2, <2>1, <2>2 DEF Discover, TypeOK, scrape, References
<1>3. CASE SeedNone
  <2>1. [heap EXCEPT ![store'] = Empty] \in [Maps -> Contents]
    BY <1>3, <1>e DEF TypeOK, SeedNone
  <2>2. heap' \in [Maps -> Contents]
    BY <1>3, <2>1, HeapTyped DEF SeedNone
  <2> QED
    BY <1>3, <2>2, <1>f DEF SeedNone, TypeOK, scrape, References
<1>4. CASE Seed
  <2>1. [d \in Devices |-> Seeded(d)] \in Contents
    BY SnapshotsTyped DEF Seeded, Contents, TypeOK, References
  <2>2. [heap EXCEPT ![working'] = [d \in Devices |-> Seeded(d)]] \in [Maps -> Contents]
    BY <2>1 DEF TypeOK
  <2>3. heap' \in [Maps -> Contents]
    BY <1>4, <2>2, HeapTyped DEF Seed
  <2> QED
    BY <1>4, <2>3, <1>f DEF Seed, TypeOK, scrape, References
<1>5. CASE Collect
  <2>1. PICK d \in todo, failed \in BOOLEAN :
          /\ target' = d /\ todo' = todo \ {d}
          /\ heap' = [heap EXCEPT ![working] = [@ EXCEPT ![d] =
                [lastSuccess |-> IF failed THEN Known(d) ELSE clock, failed |-> failed]]]
    BY <1>5 DEF Collect
  <2>2. d \in Devices /\ working \in Maps
    BY <1>5 DEF Collect, TypeOK, References
  <2>3. Held(previous, d) \in Snapshot \cup {Absent}
    BY <2>2, SnapshotsTyped DEF TypeOK, References
  <2>4. Known(d) \in 0..MaxClock
    BY <2>3, Constants DEF Known, Snapshot, Never
  <2>5. [lastSuccess |-> IF failed THEN Known(d) ELSE clock, failed |-> failed] \in Snapshot
    BY <2>4, Constants DEF Snapshot, TypeOK
  <2>6. heap' \in [Maps -> Contents]
    BY <2>1, <2>2, <2>5 DEF TypeOK, Contents
  <2> QED
    BY <1>5, <2>1, <2>2, <2>6 DEF Collect, TypeOK, scrape, References
<1>6. CASE Cancelled
  <2>1. heap' \in [Maps -> Contents]
    BY <1>6, HeapTyped DEF Cancelled, TypeOK
  <2> QED
    BY <1>6, <2>1 DEF Cancelled, TypeOK, scrape, References
<1>7. CASE Publish
  <2>1. [heap EXCEPT ![store'] = heap[working]] \in [Maps -> Contents]
    BY <1>7 DEF TypeOK, Publish, References
  <2>2. heap' \in [Maps -> Contents]
    BY <1>7, <2>1, HeapTyped DEF Publish
  <2> QED
    BY <1>7, <2>2, <1>f DEF Publish, TypeOK, scrape, References
<1>8. CASE Announce
  <2>1. heap' \in [Maps -> Contents]
    BY <1>8, HeapTyped DEF Announce, TypeOK
  <2>2. ready' \in BOOLEAN
    BY <1>8 DEF Announce, TypeOK
  <2> QED
    BY <1>8, <2>1, <2>2 DEF Announce, TypeOK, scrape, References
<1>9. CASE Tick
  <2>1. clock' \in 1..MaxClock
    BY <1>9, Constants DEF Tick, TypeOK
  <2> QED
    BY <1>9, <2>1 DEF Tick, TypeOK, poller, scrape, References
<1>10. CASE Scrape
  BY <1>10 DEF Scrape, TypeOK, poller, References
<1>11. CASE Load
  <2>1. CASE store = Nil
    BY <1>11, <2>1 DEF Load, TypeOK, poller, References
  <2>2. CASE store # Nil
    <3>1. store \in Maps /\ heap[store] \in Contents
      BY <2>2 DEF TypeOK, References
    <3> QED
      BY <1>11, <2>2, <3>1, Constants DEF Load, TypeOK, poller, References
  <2> QED
    BY <2>1, <2>2
<1>12. CASE ReadClock
  <2>1. now' \in 0..MaxClock
    BY <1>12 DEF ReadClock, TypeOK
  <2> QED
    BY <1>12, <2>1 DEF ReadClock, TypeOK, poller, References
<1>13. CASE CollectDevice
  <2>1. PICK d \in left : got' = [got EXCEPT ![d] = Exported(heap[set][d], now)]
                         /\ left' = left \ {d}
    BY <1>13 DEF CollectDevice
  <2>2. d \in Devices /\ heap' = heap /\ now \in Nat
    BY <1>13 DEF CollectDevice, TypeOK
  <2>3. Exported(heap[set][d], now) \in Metrics
    BY <1>13, <2>2, ExportedTyped DEF CollectDevice, Reader, TypeOK, Contents, References
  <2> QED
    BY <1>13, <2>1, <2>2, <2>3 DEF CollectDevice, TypeOK, poller, References
<1>14. CASE CollectReturns
  <2>1. heap' \in [Maps -> Contents]
    BY <1>14, HeapTyped DEF CollectReturns, TypeOK
  <2> QED
    BY <1>14, <2>1, Constants DEF CollectReturns, TypeOK, poller, References
<1>15. CASE Answered
  <2>1. Empty \in [Devices -> Metrics \cup {Absent}] /\ now' \in 0..MaxClock
    BY <1>15, Constants DEF Answered, Empty, Never
  <2> QED
    BY <1>15, <1>e, <2>1 DEF Answered, TypeOK, poller, References
<1>16. CASE UNCHANGED vars
  BY <1>16 DEF vars, TypeOK, poller, scrape, References
<1> QED
  BY <1>1, <1>2, <1>3, <1>4, <1>5, <1>6, <1>7, <1>8, <1>9, <1>10, <1>11, <1>12,
     <1>13, <1>14, <1>15, <1>16 DEF Next, Sweeping, Scraping

-----------------------------------------------------------------------------
(* The sweep's map is its own, and what others refer to is not written.    *)

LEMMA PrivateStep == TypeOK /\ Private /\ [Next]_vars => Private'
<1> SUFFICES ASSUME TypeOK, Private, [Next]_vars PROVE Private'
  OBVIOUS
<1>f. Fresh \in Maps /\ Fresh \notin References /\ Fresh # Nil
  BY FreshMap DEF TypeOK
<1>w. InSweep <=> working # Nil
  BY DEF TypeOK, InSweep
<1>1. CASE DiscoverFails \/ Discover \/ SeedNone
  BY <1>1 DEF DiscoverFails, Discover, SeedNone, Private, InSweep, scrape
<1>2. CASE Seed
  BY <1>2, <1>f DEF Seed, Private, InSweep, scrape, References
<1>3. CASE Collect \/ Cancelled
  BY <1>3 DEF Collect, Cancelled, Private, InSweep, scrape
<1>4. CASE Publish
  BY <1>4, <1>f DEF Publish, Private, InSweep, scrape, References
<1>5. CASE Announce
  BY <1>5 DEF Announce, Private, InSweep, scrape
<1>6. CASE Tick \/ Scrape \/ ReadClock \/ CollectDevice \/ Answered
  BY <1>6 DEF Tick, Scrape, ReadClock, CollectDevice, Answered, Private, InSweep, poller, scrape
<1>7. CASE Load
  BY <1>7 DEF Load, Private, InSweep, poller
<1>8. CASE CollectReturns
  BY <1>8, <1>w DEF CollectReturns, Private, InSweep, poller
<1>9. CASE UNCHANGED vars
  BY <1>9 DEF vars, Private, InSweep, poller, scrape
<1> QED
  BY <1>1, <1>2, <1>3, <1>4, <1>5, <1>6, <1>7, <1>8, <1>9 DEF Next, Sweeping, Scraping

\* A map that is referred to before and after a step is the same map, unless the
\* sweep writes to it.
LEMMA MapsKept ==
  ASSUME TypeOK, Private, [Next]_vars,
         NEW map \in Maps, map \in References, map \in References', map # working
  PROVE  heap'[map] = heap[map]
<1>f. Fresh \notin References
  BY FreshMap DEF TypeOK
<1>1. CASE SeedNone
  <2>1. heap'[map] = [heap EXCEPT ![store'] = Empty][map]
    BY <1>1, HeapKeeps DEF SeedNone
  <2> QED
    BY <1>1, <2>1, <1>f DEF SeedNone, TypeOK
<1>2. CASE Seed
  <2>1. heap'[map] = [heap EXCEPT ![working'] = [d \in Devices |-> Seeded(d)]][map]
    BY <1>2, HeapKeeps DEF Seed
  <2> QED
    BY <1>2, <2>1, <1>f DEF Seed, TypeOK
<1>3. CASE Collect
  BY <1>3 DEF Collect, TypeOK
<1>4. CASE Publish
  <2>1. heap'[map] = [heap EXCEPT ![store'] = heap[working]][map]
    BY <1>4, HeapKeeps DEF Publish
  <2> QED
    BY <1>4, <2>1, <1>f DEF Publish, TypeOK
<1>5. CASE Cancelled \/ Announce \/ CollectReturns
  BY <1>5, HeapKeeps DEF Cancelled, Announce, CollectReturns
<1>6. CASE \/ DiscoverFails \/ Discover \/ Tick \/ Scrape \/ Load \/ ReadClock \/ CollectDevice
           \/ Answered \/ UNCHANGED vars
  BY <1>6 DEF DiscoverFails, Discover, Tick, Scrape, Load, ReadClock, CollectDevice, Answered, vars
<1> QED
  BY <1>1, <1>2, <1>3, <1>4, <1>5, <1>6 DEF Next, Sweeping, Scraping

\* What is known of the devices in the maps stays in step with the clock.
LEMMA TimesStep == TypeOK /\ Private /\ Times /\ [Next]_vars => Times'
<1> SUFFICES ASSUME TypeOK, Private, Times, [Next]_vars,
                    NEW map \in Maps, NEW d \in Devices
             PROVE  Timed(heap[map][d])'
  BY DEF Times
<1>e. Empty[d] = Absent
  BY DEF Empty
<1>c. clock \in Nat /\ clock' \in Nat /\ clock' >= clock /\ clock > 0
  BY DEF TypeOK, Next, Sweeping, Scraping, DiscoverFails, Discover, SeedNone, Seed, Collect,
     Cancelled, Publish, Announce, Tick, Scrape, Load, ReadClock, CollectDevice, CollectReturns,
     Answered, vars
<1>t. \A m \in Maps : heap[m][d] \in Snapshot \cup {Absent} /\ Timed(heap[m][d])
  BY DEF TypeOK, Contents, Times
<1>k. ASSUME heap'[map][d] = Absent \/ \E m \in Maps : heap'[map][d] = heap[m][d]
      PROVE  Timed(heap[map][d])'
  BY <1>k, <1>c, <1>t DEF Timed, Snapshot
<1>1. CASE SeedNone
  <2>1. heap'[map] = Empty \/ heap'[map] = heap[map]
    BY <1>1 DEF SeedNone, Heap, TypeOK
  <2> QED
    BY <2>1, <1>e, <1>k
<1>2. CASE Seed
  <2>1. \/ heap'[map] = Empty \/ heap'[map] = heap[map]
        \/ heap'[map] = [e \in Devices |-> Seeded(e)]
    BY <1>2 DEF Seed, Heap, TypeOK
  <2>2. Seeded(d) = Absent \/ \E m \in Maps : Seeded(d) = heap[m][d]
    BY DEF Seeded, Held, TypeOK, References
  <2> QED
    BY <2>1, <2>2, <1>e, <1>k
<1>3. CASE Collect
  <2>1. PICK e \in todo, failed \in BOOLEAN :
          heap' = [heap EXCEPT ![working] = [@ EXCEPT ![e] =
                [lastSuccess |-> IF failed THEN Known(e) ELSE clock, failed |-> failed]]]
    BY <1>3 DEF Collect
  <2>2. \/ heap'[map][d] = heap[map][d]
        \/ heap'[map][d] = [lastSuccess |-> IF failed THEN Known(d) ELSE clock, failed |-> failed]
    BY <2>1 DEF TypeOK, Contents
  <2>3. Known(d) \in Nat /\ Known(d) <= clock
    <3>1. CASE Held(previous, d) = Absent
      BY <3>1, <1>c DEF Known, Never
    <3>2. CASE Held(previous, d) # Absent
      <4>1. previous \in Maps /\ Held(previous, d) = heap[previous][d]
        BY <3>2 DEF Held, TypeOK, References
      <4> QED
        BY <3>2, <4>1, <1>t DEF Known, Timed, Snapshot
    <3> QED
      BY <3>1, <3>2
  <2>4. clock' = clock
    BY <1>3 DEF Collect
  <2>5. CASE heap'[map][d] = [lastSuccess |-> IF failed THEN Known(d) ELSE clock, failed |-> failed]
    BY <2>5, <2>3, <2>4, <1>c DEF Timed, Never
  <2> QED
    BY <2>2, <2>5, <1>k
<1>4. CASE Publish
  <2>1. working \in Maps
    BY <1>4 DEF Publish, TypeOK, References
  <2>2. heap'[map] = Empty \/ heap'[map] = heap[map] \/ heap'[map] = heap[working]
    BY <1>4 DEF Publish, Heap, TypeOK
  <2> QED
    BY <2>1, <2>2, <1>e, <1>k
<1>5. CASE Cancelled \/ Announce \/ CollectReturns
  <2>1. heap'[map] = Empty \/ heap'[map] = heap[map]
    BY <1>5 DEF Cancelled, Announce, CollectReturns, Heap
  <2> QED
    BY <2>1, <1>e, <1>k
<1>6. CASE \/ DiscoverFails \/ Discover \/ Tick \/ Scrape \/ Load \/ ReadClock \/ CollectDevice
           \/ Answered \/ UNCHANGED vars
  <2>1. heap' = heap
    BY <1>6 DEF DiscoverFails, Discover, Tick, Scrape, Load, ReadClock, CollectDevice, Answered, vars
  <2> QED
    BY <2>1, <1>k
<1> QED
  BY <1>1, <1>2, <1>3, <1>4, <1>5, <1>6 DEF Next, Sweeping, Scraping

-----------------------------------------------------------------------------
(* The store never falls behind.                                           *)

LEMMA StoreKept ==
  ASSUME TypeOK, Private, [Next]_vars, store' = store, NEW d \in Devices
  PROVE  Held(store, d)' = Held(store, d)
<1>1. CASE store = Nil
  BY <1>1 DEF Held
<1>2. CASE store # Nil
  <2>1. store \in Maps /\ store # working
    BY <1>2 DEF TypeOK, References, Private, InSweep
  <2>2. heap'[store] = heap[store]
    BY <2>1, MapsKept DEF References
  <2> QED
    BY <1>2, <2>2 DEF Held
<1> QED
  BY <1>1, <1>2

LEMMA PreviousKept ==
  ASSUME TypeOK, Private, [Next]_vars, previous' = previous, NEW d \in Devices
  PROVE  Held(previous, d)' = Held(previous, d)
<1>1. CASE previous = Nil
  BY <1>1 DEF Held
<1>2. CASE previous # Nil
  <2>1. previous \in Maps /\ previous # working
    BY <1>2 DEF TypeOK, References, Private, InSweep
  <2>2. heap'[previous] = heap[previous]
    BY <2>1, MapsKept DEF References
  <2> QED
    BY <1>2, <2>2 DEF Held
<1> QED
  BY <1>1, <1>2

LEMMA SetKept ==
  ASSUME TypeOK, Private, [Next]_vars, set' = set, set # Nil
  PROVE  heap'[set] = heap[set]
<1>1. set \in Maps /\ set # working
  BY DEF TypeOK, References, Private, InSweep
<1> QED
  BY <1>1, MapsKept DEF References

LEMMA WorkingKept ==
  ASSUME TypeOK, Private, [Next]_vars, ~Collect, working' = working, NEW d \in Devices
  PROVE  Held(working, d)' = Held(working, d)
<1>f. Fresh \notin References /\ Fresh # Nil
  BY FreshMap DEF TypeOK
<1>0. CASE working = Nil
  BY <1>0 DEF Held
<1>w. ASSUME working # Nil PROVE working \in Maps /\ working \in References'
  BY <1>w DEF TypeOK, References
<1>1. CASE working # Nil /\ SeedNone
  BY <1>1 DEF SeedNone, TypeOK
<1>2. CASE working # Nil /\ (Seed \/ Cancelled)
  BY <1>2, <1>f DEF Seed, Cancelled, References
<1>3. CASE working # Nil /\ Publish
  <2>1. heap'[working] = [heap EXCEPT ![store'] = heap[working]][working]
    BY <1>3, <1>w, HeapKeeps DEF Publish
  <2>2. store' # working
    BY <1>3, <1>f DEF Publish, References
  <2> QED
    BY <1>3, <1>w, <2>1, <2>2 DEF Held, TypeOK
<1>4. CASE working # Nil /\ (Announce \/ CollectReturns)
  <2>1. heap'[working] = heap[working]
    BY <1>4, <1>w, HeapKeeps DEF Announce, CollectReturns
  <2> QED
    BY <1>4, <2>1 DEF Held
<1>5. CASE \/ DiscoverFails \/ Discover \/ Tick \/ Scrape \/ Load \/ ReadClock \/ CollectDevice
           \/ Answered \/ UNCHANGED vars
  BY <1>5 DEF DiscoverFails, Discover, Tick, Scrape, Load, ReadClock, CollectDevice, Answered, vars,
     Held
<1> QED
  BY <1>0, <1>1, <1>2, <1>3, <1>4, <1>5 DEF Next, Sweeping, Scraping

\* What the store holds after a publication.
LEMMA Published ==
  ASSUME TypeOK, Private, Publish, NEW d \in Devices
  PROVE  Held(store, d)' = Held(working, d)
<1>f. Fresh \in Maps /\ Fresh # Nil
  BY FreshMap DEF TypeOK
<1>1. store' \in Maps /\ store' \in References' /\ store' # Nil /\ working # Nil
  BY <1>f DEF Publish, References, TypeOK
<1>2. heap'[store'] = [heap EXCEPT ![store'] = heap[working]][store']
  BY <1>1, HeapKeeps DEF Publish
<1> QED
  BY <1>1, <1>2 DEF Held, TypeOK

LEMMA Emptied ==
  ASSUME TypeOK, SeedNone, NEW d \in Devices
  PROVE  Held(store, d)' = Absent
<1>f. Fresh \in Maps /\ Fresh # Nil
  BY FreshMap DEF TypeOK
<1>1. store' \in Maps /\ store' \in References' /\ store' # Nil
  BY <1>f DEF SeedNone, References
<1>2. heap'[store'] = [heap EXCEPT ![store'] = Empty][store']
  BY <1>1, HeapKeeps DEF SeedNone
<1> QED
  BY <1>1, <1>2 DEF Held, TypeOK, Empty

LEMMA SeededWorking ==
  ASSUME TypeOK, Seed, NEW d \in Devices
  PROVE  Held(working, d)' = Seeded(d)
<1>f. Fresh \in Maps /\ Fresh # Nil
  BY FreshMap DEF TypeOK
<1>1. working' \in Maps /\ working' \in References' /\ working' # Nil
  BY <1>f DEF Seed, References
<1>2. heap'[working'] = [heap EXCEPT ![working'] = [e \in Devices |-> Seeded(e)]][working']
  BY <1>1, HeapKeeps DEF Seed
<1> QED
  BY <1>1, <1>2 DEF Held, TypeOK

\* A step that replaces the store loses nothing of a device that stays.
LEMMA StoreForward ==
  ASSUME TypeOK, Private, Sweep, [Next]_vars
  PROVE  /\ gone \subseteq gone'
         /\ \A d \in Devices \ gone' : Behind(Held(store, d), Held(store, d)')
<1>1. gone \subseteq gone'
  BY DEF Next, Sweeping, Scraping, DiscoverFails, Discover, SeedNone, Seed, Collect,
     Cancelled, Publish, Announce, Tick, Scrape, Load, ReadClock, CollectDevice, CollectReturns,
     Answered, poller, vars
<1>2. SUFFICES ASSUME NEW d \in Devices \ gone' PROVE Behind(Held(store, d), Held(store, d)')
  BY <1>1
<1>3. Held(store, d) \in Snapshot \cup {Absent}
  BY SnapshotsTyped DEF TypeOK, References
<1>4. CASE SeedNone
  BY <1>1, <1>4 DEF SeedNone, Sweep, Behind
<1>5. CASE Publish
  BY <1>1, <1>5, Published DEF Publish, Sweep, InSweep
<1>6. CASE store' = store
  BY <1>3, <1>6, StoreKept, BehindItself
<1> QED
  BY <1>4, <1>5, <1>6 DEF Next, Sweeping, Scraping, DiscoverFails, Discover, Seed, Collect,
     Cancelled, Announce, Tick, Scrape, Load, ReadClock, CollectDevice, CollectReturns,
     Answered, poller, vars

LEMMA SweepStep == TypeOK /\ Private /\ Times /\ Sweep /\ [Next]_vars => Sweep'
<1> SUFFICES ASSUME TypeOK, Private, Times, Sweep, [Next]_vars PROVE Sweep'
  OBVIOUS
<1> USE StoreKept, PreviousKept, WorkingKept
<1>1. CASE DiscoverFails
  BY <1>1 DEF DiscoverFails, Sweep, InSweep
<1>2. CASE Discover
  BY <1>2 DEF Discover, Sweep, InSweep
<1>3. CASE SeedNone
  BY <1>3, Emptied DEF SeedNone, Sweep, InSweep
<1>4. CASE Seed
  <2>1. \A d \in Devices : Held(store, d) \in Snapshot \cup {Absent}
    BY SnapshotsTyped DEF TypeOK, References
  <2>2. \A d \in Devices : Held(store, d)' = Held(store, d)
    BY <1>4 DEF Seed
  <2>3. \A d \in Devices : Held(working, d)' = IF d \in targets THEN Held(store, d) ELSE Absent
    BY <1>4, SeededWorking DEF Seeded
  <2>4. \A d \in Devices : Held(previous, d)' = Held(store, d)'
    BY <1>4 DEF Seed
  <2>5. pc' = "collect" /\ todo' = targets /\ targets' = targets /\ gone' = gone
        /\ targets \subseteq Devices
    BY <1>4 DEF Seed, TypeOK
  <2>6. \A d \in Devices \ gone : Behind(Held(store, d)', Held(working, d)')
    BY <2>1, <2>2, <2>3, BehindItself DEF Sweep, Behind
  <2> QED
    BY <2>2, <2>3, <2>4, <2>5, <2>6 DEF Sweep, InSweep
<1>5. CASE Collect
  <2>1. PICK e \in todo, failed \in BOOLEAN :
          /\ target' = e /\ todo' = todo \ {e}
          /\ heap' = [heap EXCEPT ![working] = [@ EXCEPT ![e] =
                [lastSuccess |-> IF failed THEN Known(e) ELSE clock, failed |-> failed]]]
    BY <1>5 DEF Collect
  <2> DEFINE s == [lastSuccess |-> IF failed THEN Known(e) ELSE clock, failed |-> failed]
  <2>2. working \in Maps /\ working # Nil /\ e \in Devices /\ e \in targets /\ working' = working
    BY <1>5 DEF Collect, TypeOK, References
  <2>3. \A d \in Devices : Held(working, d)' = IF d = e THEN s ELSE Held(working, d)
    BY <2>1, <2>2 DEF Held, TypeOK, Contents
  <2>4. \A d \in Devices : Held(store, d)' = Held(store, d) /\ Held(previous, d)' = Held(previous, d)
    BY <1>5 DEF Collect
  <2>5. s # Absent
    <3>1. Held(previous, e) \in Snapshot \cup {Absent}
      BY <2>2, SnapshotsTyped DEF TypeOK, References
    <3>2. s \in Snapshot
      BY <3>1, Constants DEF Known, Snapshot, Never, TypeOK
    <3> QED
      BY <3>2, Constants
  <2>6. Behind(Held(store, e), s)
    <3>1. SUFFICES ASSUME Held(store, e) # Absent PROVE s.lastSuccess >= Held(store, e).lastSuccess
      BY <2>5 DEF Behind
    <3>2. Held(store, e) \in Snapshot /\ Held(store, e).lastSuccess <= clock
      <4>1. store \in Maps /\ Held(store, e) = heap[store][e]
        BY <3>1 DEF Held, TypeOK, References
      <4> QED
        BY <3>1, <4>1, <2>2 DEF TypeOK, Contents, Times, Timed
    <3>3. Known(e) = Held(store, e).lastSuccess
      BY <1>5, <3>1 DEF Collect, Sweep, InSweep, Known
    <3> QED
      BY <3>2, <3>3 DEF Snapshot, TypeOK
  <2>7. InSweep /\ pc' = "publish" /\ targets' = targets /\ gone' = gone /\ target' = e
        /\ todo' = todo \ {e} /\ todo \subseteq Devices
    BY <1>5, <2>1 DEF Collect, InSweep, TypeOK
  <2>8. \A d \in Devices \ gone : Behind(Held(store, d)', Held(working, d)')
    BY <2>3, <2>4, <2>6, <2>7 DEF Sweep
  <2> HIDE DEF s
  <2> QED
    BY <2>2, <2>3, <2>4, <2>5, <2>7, <2>8 DEF Sweep, InSweep
<1>6. CASE Cancelled
  BY <1>6 DEF Cancelled, Sweep, InSweep
<1>7. CASE Publish
  <2>1. \A d \in Devices : Held(store, d)' = Held(working, d)
    BY <1>7, Published
  <2>2. \A d \in Devices : /\ Held(working, d)' = Held(working, d)
                           /\ Held(previous, d)' = Held(previous, d)
    BY <1>7 DEF Publish, Collect
  <2>3. \A d \in Devices : Held(working, d) \in Snapshot \cup {Absent}
    BY SnapshotsTyped DEF TypeOK, References
  <2>4. /\ pc = "publish" /\ pc' = "announce" /\ targets' = targets /\ gone' = gone
        /\ target' = target /\ target \in Devices /\ todo' = todo /\ todo \subseteq Devices
    BY <1>7 DEF Publish, TypeOK
  <2>5. \A d \in Devices \ gone : Behind(Held(store, d)', Held(working, d)')
    BY <2>1, <2>2, <2>3, BehindItself
  <2> QED
    BY <2>1, <2>2, <2>4, <2>5 DEF Sweep, InSweep
<1>8. CASE Announce
  <2>1. \A d \in Devices : Held(store, d)' = Held(store, d)
    BY <1>8 DEF Announce
  <2>2. CASE todo # {}
    <3>1. \A d \in Devices : /\ Held(working, d)' = Held(working, d)
                             /\ Held(previous, d)' = Held(previous, d)
      BY <1>8, <2>2 DEF Announce, Collect
    <3>2. /\ pc = "announce" /\ pc' = "collect" /\ targets' = targets /\ gone' = gone
          /\ todo' = todo /\ todo \subseteq Devices
      BY <1>8, <2>2 DEF Announce, TypeOK
    <3> QED
      BY <2>1, <3>1, <3>2 DEF Sweep, InSweep
  <2>3. CASE todo = {}
    BY <1>8, <2>1, <2>3 DEF Announce, Sweep, InSweep
  <2> QED
    BY <2>2, <2>3
<1>9. CASE Scraping \/ Tick \/ UNCHANGED vars
  <2>1. UNCHANGED poller /\ ~Collect
    BY <1>9 DEF Scraping, Tick, Scrape, Load, ReadClock, CollectDevice, CollectReturns, Answered,
       poller, vars, Collect
  <2>2. \A d \in Devices : /\ Held(store, d)' = Held(store, d)
                           /\ Held(working, d)' = Held(working, d)
                           /\ Held(previous, d)' = Held(previous, d)
    BY <2>1 DEF poller
  <2>3. todo \subseteq Devices /\ target \in Devices
    BY DEF TypeOK
  <2> QED
    BY <2>1, <2>2, <2>3 DEF Sweep, InSweep, poller
<1> QED
  BY <1>1, <1>2, <1>3, <1>4, <1>5, <1>6, <1>7, <1>8, <1>9 DEF Next, Sweeping

-----------------------------------------------------------------------------
(* The scrape.                                                             *)

LEMMA ReaderStep == TypeOK /\ Private /\ Reader /\ [Next]_vars => Reader'
<1> SUFFICES ASSUME TypeOK, Private, Reader, [Next]_vars PROVE Reader'
  OBVIOUS
<1>s. at \in {"clock", "range"} <=> set # Nil
  BY DEF TypeOK
<1>1. CASE Sweeping \/ Tick \/ UNCHANGED vars
  <2>1. UNCHANGED scrape
    BY <1>1 DEF Sweeping, DiscoverFails, Discover, SeedNone, Seed, Collect, Cancelled, Publish,
       Announce, Tick, vars
  <2>2. set # Nil => heap'[set] = heap[set]
    BY <2>1, SetKept DEF scrape
  <2> QED
    BY <1>s, <2>1, <2>2 DEF Reader, scrape, Shown, Exported, IsStale
<1>2. CASE Scrape
  BY <1>2 DEF Scrape, Reader
<1>3. CASE Load
  <2>1. CASE store = Nil
    BY <1>3, <2>1 DEF Load, Reader, Shown, Empty
  <2>2. CASE store # Nil
    <3>1. saw' = heap'[set'] /\ at' = "clock" /\ got' = Empty
      BY <1>3, <2>2 DEF Load, Reader
    <3>2. left' = {d \in Devices : saw'[d] # Absent}
      BY <1>3, <2>2 DEF Load
    <3> QED
      BY <3>1, <3>2 DEF Reader
  <2> QED
    BY <2>1, <2>2
<1>4. CASE ReadClock
  BY <1>4 DEF ReadClock, Reader, Shown, Empty
<1>5. CASE CollectDevice
  <2>1. PICK d \in left : got' = [got EXCEPT ![d] = Exported(heap[set][d], now)]
                         /\ left' = left \ {d}
    BY <1>5 DEF CollectDevice
  <2>2. /\ at = "range" /\ at' = "range" /\ d \in Devices /\ heap' = heap /\ set' = set
        /\ saw' = saw /\ now' = now /\ got \in [Devices -> Metrics \cup {Absent}]
    BY <1>5 DEF CollectDevice, TypeOK
  <2>3. \A e \in Devices : Shown(e)' = Shown(e)
    BY <2>2 DEF Shown, Exported, IsStale
  <2>4. got'[d] = Shown(d) /\ saw[d] # Absent
    BY <2>1, <2>2 DEF Reader, Shown
  <2>5. \A e \in Devices \ {d} : got'[e] = got[e]
    BY <2>1, <2>2
  <2> QED
    BY <2>1, <2>2, <2>3, <2>4, <2>5 DEF Reader
<1>6. CASE CollectReturns
  <2>1. \A e \in Devices : Shown(e)' = Shown(e)
    BY <1>6 DEF CollectReturns, Shown, Exported, IsStale
  <2> QED
    BY <1>6, <2>1 DEF CollectReturns, Reader
<1>7. CASE Answered
  BY <1>7 DEF Answered, Reader
<1> QED
  BY <1>1, <1>2, <1>3, <1>4, <1>5, <1>6, <1>7 DEF Next, Scraping

LEMMA SawTyped ==
  ASSUME TypeOK, NEW d \in Devices
  PROVE  saw[d] \in Snapshot \cup {Absent} /\ last[d] \in Metrics \cup {Absent}
  BY DEF TypeOK, Contents

LEMMA BehindTransitive ==
  ASSUME NEW a \in Snapshot \cup Metrics \cup {Absent}, NEW b \in Snapshot \cup {Absent},
         NEW c \in Snapshot \cup {Absent}, Behind(a, b), Behind(b, c)
  PROVE  Behind(a, c)
  BY DEF Behind, Snapshot, Metrics

LEMMA ForwardStep ==
  ASSUME TypeOK, TypeOK', Private, Sweep, Reader, Forward, [Next]_vars
  PROVE  Forward'
<1> SUFFICES ASSUME NEW d \in Devices \ gone'
             PROVE  /\ Behind(last[d], Held(store, d))'
                    /\ (at \in {"clock", "range", "done"})' =>
                         Behind(last[d], saw[d])' /\ Behind(saw[d], Held(store, d))'
  BY DEF Forward
<1>0. d \in Devices \ gone
  BY StoreForward
<1>1. Behind(Held(store, d), Held(store, d)')
  BY StoreForward
<1>2. Held(store, d) \in Snapshot \cup {Absent}
  BY SnapshotsTyped DEF TypeOK, References
<1>3. Held(store, d)' \in Snapshot \cup {Absent}
  <2>1. heap' \in [Maps -> Contents] /\ store' \in Maps \cup {Nil}
    BY DEF TypeOK, References
  <2> QED
    BY <2>1 DEF Held, Contents
<1>4. Behind(last[d], Held(store, d)')
  BY <1>0, <1>1, <1>2, <1>3, SawTyped, BehindTransitive DEF Forward
<1>5. at \in {"clock", "range", "done"} => Behind(saw[d], Held(store, d)')
  BY <1>0, <1>1, <1>2, <1>3, SawTyped, BehindTransitive DEF Forward
<1>6. CASE UNCHANGED <<last, saw>> /\ (at' \in {"clock", "range", "done"} => at \in {"clock", "range", "done"})
  BY <1>0, <1>4, <1>5, <1>6 DEF Forward, Behind
<1>7. CASE Load
  <2>1. Held(store, d)' = Held(store, d) /\ last' = last
    BY <1>7, StoreKept DEF Load, poller
  <2>2. saw'[d] = Held(store, d)
    BY <1>7 DEF Load, Held, Reader, Empty
  <2>3. Behind(saw'[d], Held(store, d)')
    BY <1>2, <2>1, <2>2, BehindItself
  <2> QED
    BY <1>4, <2>1, <2>2, <2>3 DEF Behind
<1>8. CASE Answered
  <2>1. last' = got /\ at = "done" /\ at' = "idle"
    BY <1>8 DEF Answered
  <2>2. got[d] = Shown(d)
    BY <2>1 DEF Reader
  <2>3. Behind(got[d], Held(store, d)')
    BY <1>5, <2>1, <2>2 DEF Shown, Exported, Behind
  <2> QED
    BY <2>1, <2>3 DEF Behind
<1> QED
  BY <1>6, <1>7, <1>8 DEF Next, Sweeping, Scraping, DiscoverFails, Discover, SeedNone, Seed, Collect,
     Cancelled, Publish, Announce, Tick, Scrape, ReadClock, CollectDevice, CollectReturns,
     scrape, vars

LEMMA HonestStep ==
  ASSUME TypeOK, TypeOK', Private, Times, Sweep, Honest, [Next]_vars
  PROVE  Honest'
<1>1. gone' = {} => gone = {}
  BY StoreForward
<1>2. \A d \in Devices : Held(store, d) \in Snapshot \cup {Absent}
                        /\ (Held(store, d)' \in Snapshot \cup {Absent})
  <2>1. heap' \in [Maps -> Contents] /\ store' \in Maps \cup {Nil}
    BY DEF TypeOK, References
  <2>2. \A d \in Devices : Held(store, d)' \in Snapshot \cup {Absent}
    BY <2>1 DEF Held, Contents
  <2> QED
    BY <2>2, SnapshotsTyped DEF TypeOK, References
<1>3. ASSUME gone' = {}, NEW d \in Devices, HasData(Held(store, d))
      PROVE  HasData(Held(store, d)')
  <2>1. Behind(Held(store, d), Held(store, d)')
    BY <1>3, StoreForward
  <2> QED
    BY <1>2, <1>3, <2>1 DEF HasData, Behind, Snapshot, Never
<1>4. gone' = {} /\ ready' => \E d \in Devices : HasData(Held(store, d)')
  <2>1. SUFFICES ASSUME gone' = {}, ready' PROVE \E d \in Devices : HasData(Held(store, d)')
    OBVIOUS
  <2>2. CASE ready
    BY <1>1, <1>3, <2>1, <2>2 DEF Honest
  <2>3. CASE ~ready
    <3>1. Announce /\ Collected
      BY <2>1, <2>3 DEF Next, Sweeping, Scraping, DiscoverFails, Discover, SeedNone, Seed, Collect,
         Cancelled, Publish, Announce, Tick, Scrape, Load, ReadClock, CollectDevice,
         CollectReturns, Answered, poller, vars
    <3>2. target \in Devices /\ working \in Maps /\ working # Nil
      BY <3>1, Constants DEF Announce, TypeOK, References
    <3>3. Held(working, target) # Absent /\ Held(store, target) = Held(working, target)
      BY <3>1, <3>2 DEF Announce, Sweep
    <3>4. Held(working, target) = heap[working][target]
      BY <3>2 DEF Held
    <3>5. HasData(Held(store, target))
      BY <3>1, <3>2, <3>3, <3>4 DEF Collected, Times, Timed, HasData
    <3> QED
      BY <1>3, <2>1, <3>2, <3>5
  <2> QED
    BY <2>2, <2>3
<1>5. ready => ready'
  BY DEF Next, Sweeping, Scraping, DiscoverFails, Discover, SeedNone, Seed, Collect,
     Cancelled, Publish, Announce, Tick, Scrape, Load, ReadClock, CollectDevice, CollectReturns,
     Answered, poller, vars
<1>6. CASE /\ UNCHANGED <<probed, saw>>
           /\ at' \in {"clock", "range", "done"} => at \in {"clock", "range", "done"}
           /\ at # "idle" => at' # "idle"
  <2>1. probed' => ready' /\ at' # "idle"
    BY <1>5, <1>6 DEF Honest
  <2>2. gone' = {} /\ probed' /\ at' \in {"clock", "range", "done"} =>
          \E d \in Devices : HasData(saw'[d])
    BY <1>1, <1>6 DEF Honest
  <2> QED
    BY <1>4, <2>1, <2>2 DEF Honest, HasData
<1>7. CASE Scrape
  BY <1>4, <1>7 DEF Honest, Scrape, poller, HasData
<1>8. CASE Load
  <2>1. probed' = probed /\ ready' = ready /\ gone' = gone /\ at' # "idle" /\ at = "load"
    BY <1>8 DEF Load, poller
  <2>2. probed /\ gone = {} => \E d \in Devices : HasData(Held(store, d))
    BY DEF Honest
  <2>3. probed /\ gone = {} => store # Nil
    BY <2>2 DEF HasData, Held
  <2>4. probed /\ gone = {} => \A d \in Devices : saw'[d] = Held(store, d)
    BY <1>8, <2>3 DEF Load, Held
  <2> QED
    BY <1>4, <2>1, <2>2, <2>4 DEF Honest, HasData
<1>9. CASE Answered
  BY <1>4, <1>9 DEF Honest, Answered, poller, HasData
<1> QED
  BY <1>6, <1>7, <1>8, <1>9 DEF Next, Sweeping, Scraping, DiscoverFails, Discover, SeedNone, Seed,
     Collect, Cancelled, Publish, Announce, Tick, ReadClock, CollectDevice, CollectReturns,
     scrape, vars

-----------------------------------------------------------------------------
(* The store is a cache.                                                   *)

KnownOf(s) == IF s = Absent THEN Never ELSE s.lastSuccess
Renews(old, new) ==
    IF new.failed THEN new.lastSuccess = KnownOf(old) ELSE KnownOf(old) <= new.lastSuccess

\* The map the sweep writes to is ahead of the store by one device at most, and
\* of the others it has lost some at most.
OneAhead ==
    /\ pc \in {"collect", "publish"} =>
         \A d \in Devices : \/ pc = "publish" /\ d = target
                            \/ Held(working, d) = Absent
                            \/ Held(working, d) = Held(store, d)
    /\ pc = "publish" => Renews(Held(store, target), Held(working, target))

LEMMA OneAheadStep ==
  ASSUME TypeOK, Private, Times, Sweep, OneAhead, [Next]_vars PROVE OneAhead'
<1>1. CASE Seed
  <2>1. \A d \in Devices : Held(working, d)' = Seeded(d) /\ Held(store, d)' = Held(store, d)
    BY <1>1, SeededWorking, StoreKept DEF Seed
  <2> QED
    BY <1>1, <2>1 DEF Seed, Seeded, OneAhead
<1>2. CASE Collect
  <2>1. PICK e \in todo, failed \in BOOLEAN :
          /\ target' = e /\ todo' = todo \ {e}
          /\ heap' = [heap EXCEPT ![working] = [@ EXCEPT ![e] =
                [lastSuccess |-> IF failed THEN Known(e) ELSE clock, failed |-> failed]]]
    BY <1>2 DEF Collect
  <2> DEFINE s == [lastSuccess |-> IF failed THEN Known(e) ELSE clock, failed |-> failed]
  <2>2. working \in Maps /\ working # Nil /\ e \in Devices /\ working' = working
    BY <1>2 DEF Collect, TypeOK, References
  <2>3. \A d \in Devices : Held(working, d)' = IF d = e THEN s ELSE Held(working, d)
    BY <2>1, <2>2 DEF Held, TypeOK, Contents
  <2>4. \A d \in Devices : Held(store, d)' = Held(store, d)
    BY <1>2, StoreKept DEF Collect
  <2>5. Known(e) = KnownOf(Held(store, e))
    BY <1>2 DEF Collect, Sweep, InSweep, Known, KnownOf
  <2>6. KnownOf(Held(store, e)) <= clock
    <3>1. CASE Held(store, e) = Absent
      BY <3>1 DEF KnownOf, Never, TypeOK
    <3>2. CASE Held(store, e) # Absent
      <4>1. store \in Maps /\ Held(store, e) = heap[store][e]
        BY <3>2 DEF Held, TypeOK, References
      <4> QED
        BY <2>2, <3>2, <4>1 DEF Times, Timed, KnownOf
    <3> QED
      BY <3>1, <3>2
  <2>7. Renews(Held(store, e), s)
    BY <2>5, <2>6 DEF Renews
  <2>8. pc = "collect" /\ pc' = "publish" /\ target' = e
    BY <1>2, <2>1 DEF Collect
  <2> HIDE DEF s
  <2>9. Renews(Held(store, target), Held(working, target))'
    BY <2>2, <2>3, <2>4, <2>7, <2>8 DEF Renews, KnownOf
  <2> QED
    BY <2>2, <2>3, <2>4, <2>8, <2>9 DEF OneAhead
<1>3. CASE Announce
  <2>1. CASE todo = {}
    BY <1>3, <2>1 DEF Announce, OneAhead
  <2>2. CASE todo # {}
    <3>1. \A d \in Devices : /\ Held(working, d)' = Held(working, d)
                             /\ Held(store, d)' = Held(store, d)
      BY <1>3, <2>2, WorkingKept, StoreKept DEF Announce, Collect
    <3> QED
      BY <1>3, <2>2, <3>1 DEF Announce, Sweep, OneAhead
  <2> QED
    BY <2>1, <2>2
<1>4. CASE DiscoverFails \/ Discover \/ SeedNone \/ Cancelled \/ Publish
  BY <1>4 DEF DiscoverFails, Discover, SeedNone, Cancelled, Publish, OneAhead
<1>5. CASE Scraping \/ Tick \/ UNCHANGED vars
  <2>1. UNCHANGED poller /\ ~Collect
    BY <1>5 DEF Scraping, Tick, Scrape, Load, ReadClock, CollectDevice, CollectReturns, Answered,
       poller, vars, Collect
  <2>2. \A d \in Devices : /\ Held(store, d)' = Held(store, d)
                           /\ Held(working, d)' = Held(working, d)
    BY <2>1, StoreKept, WorkingKept DEF poller
  <2>3. Renews(Held(store, target), Held(working, target))'
          <=> Renews(Held(store, target), Held(working, target))
    BY <2>1, <2>2 DEF TypeOK, Renews, KnownOf, poller
  <2> QED
    BY <2>1, <2>2, <2>3 DEF OneAhead, poller
<1> QED
  BY <1>1, <1>2, <1>3, <1>4, <1>5 DEF Next, Sweeping

Item(d, s) ==
    IF s = Absent THEN Absent
    ELSE [target |-> [device |-> d, labels |-> Nil],
          data |-> {},
          lastSuccess |-> s.lastSuccess,
          lastError |-> IF s.failed THEN "unknown" ELSE "",
          lastDuration |-> 0]

LEMMA CachedIs ==
  /\ Cached = [d \in Devices |-> Item(d, Held(store, d))]
  /\ Cached' = [d \in Devices |-> Item(d, Held(store, d)')]
<1> DEFINE held == IF store = Nil THEN Empty ELSE heap[store]
<1>1. \A d \in Devices : held[d] = Held(store, d) /\ held'[d] = Held(store, d)'
  BY DEF Held, Empty
<1>2. /\ Cached = [d \in Devices |-> Item(d, held[d])]
      /\ Cached' = [d \in Devices |-> Item(d, held'[d])]
  BY DEF Cached, Item
<1> HIDE DEF held
<1> QED
  BY <1>1, <1>2

\* What the cache holds of a snapshot is never what it holds of nothing.
Shows(item, d, s) ==
    /\ item \in Store!Snapshot /\ item # Absent
    /\ item.target.device = d /\ item.data = {}
    /\ item.lastSuccess = s.lastSuccess
    /\ item.lastError = IF s.failed THEN "unknown" ELSE ""

LEMMA ItemTyped ==
  ASSUME NEW d \in Devices, NEW s \in Snapshot
  PROVE  Shows(Item(d, s), d, s)
<1> DEFINE error == IF s.failed THEN "unknown" ELSE ""
<1>1. s # Absent /\ s.lastSuccess \in Nat
  BY Constants DEF Snapshot
<1>2. Item(d, s) = [target |-> [device |-> d, labels |-> Nil], data |-> {},
                    lastSuccess |-> s.lastSuccess, lastError |-> error, lastDuration |-> 0]
  BY <1>1 DEF Item
<1>3. [device |-> d, labels |-> Nil] \in Store!Target
  BY DEF Store!Target
<1>4. error \in Store!Reasons \cup {Store!NoError}
  BY DEF Store!Reasons, Store!NoError
<1> HIDE DEF error
<1>5. Item(d, s) \in Store!Snapshot
  BY <1>1, <1>2, <1>3, <1>4 DEF Store!Snapshot
<1>6. Item(d, s) # Absent
  BY <1>5, StoreAssumption
<1>7. Item(d, s).target.device = d /\ Item(d, s).data = {}
  BY <1>2
<1>8. Item(d, s).lastSuccess = s.lastSuccess /\ Item(d, s).lastError = error
  BY <1>2
<1> QED
  BY <1>5, <1>6, <1>7, <1>8 DEF error, Shows

\* A step that leaves alone what the store holds leaves the cache alone.
LEMMA CachedKept ==
  ASSUME \A d \in Devices : Held(store, d)' = Held(store, d) PROVE Cached' = Cached
  BY CachedIs

LEMMA PublishRenews ==
  ASSUME TypeOK, Private, Times, Sweep, OneAhead, Publish PROVE Store!Next
<1> DEFINE lost == {e \in Devices : Cached'[e] = Absent}
           old == Held(store, target)
           new == Held(working, target)
<1>1. target \in Devices /\ pc = "publish" /\ UNCHANGED <<ready, clock>>
  BY DEF Publish, TypeOK
<1>2. \A d \in Devices : Cached'[d] = Item(d, Held(working, d)) /\ Cached[d] = Item(d, Held(store, d))
  BY Published, CachedIs
<1>3. new \in Snapshot /\ Renews(old, new) /\ Timed(new) /\ old \in Snapshot \cup {Absent}
  <2>1. working \in Maps /\ new = heap[working][target] /\ new # Absent
    BY <1>1 DEF Held, TypeOK, References, Sweep
  <2>2. new \in Snapshot \cup {Absent} /\ old \in Snapshot \cup {Absent}
    BY <1>1, SnapshotsTyped DEF TypeOK, References
  <2> QED
    BY <1>1, <2>1, <2>2 DEF OneAhead, Times
<1> HIDE DEF new, old
<1>4. Cached'[target] = Item(target, new) /\ Cached[target] = Item(target, old)
  BY <1>1, <1>2 DEF new, old
<1>5. Store!Known(target).data = {} /\ Store!Known(target).lastSuccess = KnownOf(old)
  <2>1. CASE old = Absent
    <3>1. Cached[target] = Absent
      BY <1>4, <2>1 DEF Item
    <3> QED
      BY <2>1, <3>1 DEF Store!Known, Store!Never, KnownOf, Never
  <2>2. CASE old \in Snapshot
    <3>1. Cached[target] # Absent /\ Cached[target].data = {}
          /\ Cached[target].lastSuccess = old.lastSuccess /\ old # Absent
      <4>1. Shows(Item(target, old), target, old)
        BY <1>1, <2>2, ItemTyped
      <4> QED
        BY <1>4, <2>2, <4>1, Constants DEF Shows
    <3> QED
      BY <3>1 DEF Store!Known, KnownOf
  <2> QED
    BY <1>3, <2>1, <2>2
<1>6. Shows(Item(target, new), target, new)
  BY <1>1, <1>3, ItemTyped
<1>7. Store!Succeeds(target, Cached'[target]) \/ Store!Fails(target, Cached'[target])
  <2>1. /\ Cached'[target].data = {} /\ Cached'[target].lastSuccess = new.lastSuccess
        /\ Cached'[target].lastError = IF new.failed THEN "unknown" ELSE ""
    BY <1>4, <1>6 DEF Shows
  <2>2. CASE new.failed
    <3>1. new.lastSuccess = KnownOf(old)
      BY <1>3, <2>2 DEF Renews
    <3> QED
      BY <1>5, <2>1, <2>2, <3>1 DEF Store!Fails, Store!NoError
  <2>3. CASE ~new.failed
    <3>1. KnownOf(old) <= new.lastSuccess /\ new.lastSuccess # Never /\ new.lastSuccess <= clock
      BY <1>3, <2>3, Constants DEF Renews, Timed
    <3> QED
      BY <1>5, <2>1, <2>3, <3>1 DEF Store!Succeeds, Store!NoError, Store!Never, Never
  <2> QED
    BY <2>2, <2>3
<1>8. /\ target \notin lost /\ Cached'[target] \in Store!Snapshot
      /\ Cached'[target].target.device = target
  BY <1>1, <1>4, <1>6 DEF Shows
<1>9. Cached' = [e \in Devices |-> IF e = target THEN Cached'[target]
                                   ELSE IF e \in lost THEN Absent ELSE Cached[e]]
  <2>1. \A e \in Devices \ {target} : Cached'[e] = Absent \/ Cached'[e] = Cached[e]
    BY <1>1, <1>2 DEF OneAhead, Item
  <2>2. Cached' = [e \in Devices |-> Cached'[e]]
    BY CachedIs
  <2>3. \A e \in Devices : Cached'[e] = IF e = target THEN Cached'[target]
                                        ELSE IF e \in lost THEN Absent ELSE Cached[e]
    BY <2>1
  <2> HIDE DEF lost
  <2> QED
    BY <2>2, <2>3
<1>10. Store!Publish(target, lost)
  BY <1>1, <1>7, <1>8, <1>9 DEF Store!Publish
<1> QED
  BY <1>1, <1>10 DEF Store!Next

LEMMA StoreStep ==
  ASSUME TypeOK, Private, Times, Sweep, OneAhead, [Next]_vars
  PROVE  [Store!Next]_(Store!vars)
<1>1. CASE Publish
  BY <1>1, PublishRenews
<1>2. CASE SeedNone
  <2>1. Cached' = [d \in Devices |-> Absent]
    BY <1>2, Emptied, CachedIs DEF Item
  <2>2. Store!Retire
    BY <1>2, <2>1 DEF SeedNone, Store!Retire, Store!EmptySet
  <2> QED
    BY <2>2 DEF Store!Next
<1>3. CASE Announce
  <2>1. Cached' = Cached /\ clock' = clock
    BY <1>3, CachedKept, StoreKept DEF Announce
  <2>2. CASE Collected
    <3>1. /\ target \in Devices /\ Held(store, target) = Held(working, target)
          /\ Held(working, target) = heap[working][target] /\ working \in Maps
          /\ Held(store, target) # Absent
      BY <1>3 DEF Announce, Sweep, Held, TypeOK, References
    <3>5. Held(store, target) \in Snapshot
      BY <3>1, SnapshotsTyped DEF TypeOK, References
    <3>2. ~Held(store, target).failed /\ Held(store, target).lastSuccess # Never
      BY <2>2, <3>1 DEF Collected, Times, Timed
    <3>3. Cached[target] # Absent /\ Store!Up(Cached[target])
      BY <3>1, <3>5, <3>2, CachedIs, ItemTyped DEF Shows, Store!Up, Store!NoError, Store!Never, Never
    <3>4. Store!Announce
      BY <1>3, <2>1, <2>2, <3>1, <3>3 DEF Announce, Store!Announce
    <3> QED
      BY <3>4 DEF Store!Next
  <2>3. CASE ~Collected
    <3>1. ready' = ready
      BY <1>3, <2>3 DEF Announce, TypeOK
    <3> QED
      BY <2>1, <3>1 DEF Store!vars
  <2> QED
    BY <2>2, <2>3
<1>4. CASE Tick
  <2>1. Cached' = Cached /\ ready' = ready
    BY <1>4, CachedKept, StoreKept DEF Tick, poller
  <2>2. clock' \in Nat /\ clock < clock'
    BY <1>4 DEF Tick, TypeOK
  <2>3. Store!Elapse
    BY <2>1, <2>2 DEF Store!Elapse
  <2> QED
    BY <2>3 DEF Store!Next
<1>5. CASE \/ DiscoverFails \/ Discover \/ Seed \/ Collect \/ Cancelled
           \/ Scraping \/ UNCHANGED vars
  <2>1. UNCHANGED <<store, ready, clock>>
    BY <1>5 DEF DiscoverFails, Discover, Seed, Collect, Cancelled, Scraping, Scrape, Load,
       ReadClock, CollectDevice, CollectReturns, Answered, poller, vars
  <2>2. Cached' = Cached
    BY <2>1, CachedKept, StoreKept
  <2> QED
    BY <2>1, <2>2 DEF Store!vars
<1> QED
  BY <1>1, <1>2, <1>3, <1>4, <1>5 DEF Next, Sweeping

-----------------------------------------------------------------------------
(* The theorems.                                                           *)

Inv == TypeOK /\ Private /\ Times /\ Sweep /\ OneAhead /\ Reader /\ Forward /\ Honest

LEMMA InitInv == Init => Inv
<1> SUFFICES ASSUME Init PROVE Inv
  OBVIOUS
<1>1. TypeOK
  BY InitTypes
<1>2. \A d \in Devices : Held(store, d) = Absent /\ last[d] = Absent
  BY DEF Init, Held, Empty
<1>3. Private /\ Times
  BY DEF Init, Private, InSweep, Times, Timed, Empty
<1>4. Sweep /\ OneAhead /\ Reader
  BY <1>2 DEF Init, Sweep, OneAhead, Reader, InSweep
<1>5. Forward /\ Honest
  BY <1>2 DEF Init, Forward, Honest, Behind
<1> QED
  BY <1>1, <1>3, <1>4, <1>5 DEF Inv

\* The sweep and the scrape share maps but never one that is being written to,
\* and of every device that stays the store knows no less than before
\* (poller.go:268-315; collector.go:186-217).
THEOREM Invariant == Spec => []Inv
<1>1. Inv /\ [Next]_vars => Inv'
  <2> SUFFICES ASSUME Inv, [Next]_vars PROVE Inv'
    OBVIOUS
  <2>1. TypeOK'
    BY TypesStep DEF Inv
  <2>2. Private' /\ Times' /\ Sweep' /\ Reader'
    BY PrivateStep, TimesStep, SweepStep, ReaderStep DEF Inv
  <2>3. OneAhead' /\ Forward' /\ Honest'
    BY <2>1, OneAheadStep, ForwardStep, HonestStep DEF Inv
  <2> QED
    BY <2>1, <2>2, <2>3 DEF Inv
<1> QED
  BY InitInv, <1>1, PTL DEF Spec

\* Every variable keeps its type, and no sweep or scrape goes through a map that
\* is not there.
THEOREM TypeCorrect == Spec => []TypeOK
<1>1. Inv => TypeOK
  BY DEF Inv
<1> QED
  BY Invariant, <1>1, PTL

\* A scrape is one published set, judged at one instant.
THEOREM ScrapeIsOneSetHolds == Spec => []ScrapeIsOneSet
<1>1. Inv => ScrapeIsOneSet
  BY DEF Inv, Reader, ScrapeIsOneSet, Shown
<1> QED
  BY Invariant, <1>1, PTL

\* From scrape to scrape a device that stays is there and no older.
THEOREM ScrapesGoForwardHolds == Spec => []ScrapesGoForward
<1>1. Inv => ScrapesGoForward
  <2> SUFFICES ASSUME Inv, at = "done", NEW d \in Devices \ gone, last[d] # Absent
               PROVE  got[d] # Absent /\ got[d].lastSuccess >= last[d].lastSuccess
    BY DEF ScrapesGoForward
  <2>1. saw[d] # Absent /\ saw[d].lastSuccess >= last[d].lastSuccess
    BY DEF Inv, Forward, Behind
  <2>2. saw[d] \in Snapshot
    BY <2>1, SawTyped DEF Inv
  <2>3. got[d] = Exported(saw[d], now)
    BY <2>1 DEF Inv, Reader, Shown
  <2>4. Exported(saw[d], now) # Absent
    BY <2>2, ExportedTyped, Constants DEF Inv, TypeOK
  <2> QED
    BY <2>1, <2>3, <2>4 DEF Exported
<1> QED
  BY Invariant, <1>1, PTL

\* A client told that the exporter is ready finds a device that succeeded, unless
\* one was removed.
THEOREM ReadyThenDataHolds == Spec => []ReadyThenData
<1>1. Inv => ReadyThenData
  <2> SUFFICES ASSUME Inv, at = "done", probed, gone = {}
               PROVE  \E d \in Devices : got[d] # Absent /\ got[d].lastSuccess # Never
    BY DEF ReadyThenData
  <2>1. PICK d \in Devices : saw[d] # Absent /\ saw[d].lastSuccess # Never
    BY DEF Inv, Honest, HasData
  <2>2. got[d] = Exported(saw[d], now)
    BY <2>1 DEF Inv, Reader, Shown
  <2>3. Exported(saw[d], now) # Absent
    BY <2>1, SawTyped, ExportedTyped, Constants DEF Inv, TypeOK
  <2> QED
    BY <2>1, <2>2, <2>3 DEF Exported
<1> QED
  BY Invariant, <1>1, PTL

\* However the maps are shared, copied and allocated again, the store is the cache
\* the poller promises (poller.go:251-257, 268-315).
THEOREM StoreIsACacheHolds == Spec => StoreIsACache
<1>1. Init => Store!Init
  <2> SUFFICES ASSUME Init PROVE Store!Init
    OBVIOUS
  <2>1. Cached = [d \in Devices |-> Absent]
    BY CachedIs DEF Init, Held, Item
  <2> QED
    BY <2>1 DEF Init, Store!Init, Store!EmptySet, Store!Never
<1>2. Inv /\ [Next]_vars => [Store!Next]_(Store!vars)
  BY StoreStep DEF Inv
<1> QED
  BY <1>1, <1>2, Invariant, PTL DEF Spec, StoreIsACache, Store!Spec

\* What the pointer leads to never takes a device that stays back to an earlier
\* success, nor shows one the clock has not reached, whichever map it is and
\* however many have been reclaimed (poller.go:300-314, 448-453, 522-527).
THEOREM StoreGoesForward == Spec => Store!OnlyForward /\ []Store!Dated
<1>1. Store!AbsentAssumption
  BY StoreAssumption DEF Store!AbsentAssumption
<1>2. Store!Spec => Store!OnlyForward
  BY <1>1, Store!OnlyForwardHolds
<1>3. Store!Spec => []Store!Dated
  BY <1>1, Store!DatedHolds
<1> QED
  BY <1>2, <1>3, StoreIsACacheHolds, PTL DEF StoreIsACache
=============================================================================
