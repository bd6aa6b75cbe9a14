------------------------------- MODULE Scrape -------------------------------
(***************************************************************************)
(* Scrapes of the network store while the poller replaces what is in it.   *)
(*                                                                         *)
(* A published set is a Go map that a collector ranges over, one device    *)
(* after another, while the poller goes on writing to a map of its own.    *)
(* Nothing but the copy made at each publication keeps the two apart, so   *)
(* the maps are modelled as objects: the store, the sweep and the          *)
(* collector hold references to them. Poller models what an attempt        *)
(* collects; here it succeeds or fails. The PCIe Eye store is swept by the *)
(* same function and collected by the same loop.                           *)
(*                                                                         *)
(* Before it scrapes, the client asks whether the exporter is ready.       *)
(*                                                                         *)
(* A definition whose comment begins with "Faulty:" is a slip the code     *)
(* could have made in the definition below it; no action uses it.          *)
(***************************************************************************)
EXTENDS Naturals

CONSTANTS
    Devices,    \* device names
    Maps,       \* map objects
    Nil,        \* no map
    Absent,     \* the value of a map at a key it does not hold
    StaleAfter, \* Options.StaleAfter
    MaxClock,   \* bound: the last instant
    MaxSweeps   \* bound: sweeps

\* The zero time of a device that never succeeded; the clock starts after it.
Never == 0

\* Of a DeviceSnapshot, what a scrape tells its health and its age by.
Snapshot == [lastSuccess : 0..MaxClock, failed : BOOLEAN]
Contents == [Devices -> Snapshot \cup {Absent}]
Empty == [d \in Devices |-> Absent]

\* Of the metrics of a device: the time stamp, up, and whether its data is there.
Metrics == [lastSuccess : 0..MaxClock, up : BOOLEAN, shown : BOOLEAN]

ASSUME ScrapeAssumption ==
    /\ Devices # {} /\ Nil \notin Maps
    /\ Absent \notin Snapshot /\ Absent \notin Metrics
    /\ \A a, b, c, e \in Maps \cup {Nil} : Maps \ {a, b, c, e} # {}
    /\ StaleAfter \in Nat /\ MaxClock \in Nat \ {0} /\ MaxSweeps \in Nat

VARIABLES
    heap,       \* what each map holds
    clock,
    \* the poller
    store,      \* the map the store points to, Nil before the first
    ready,
    pc,         \* "wait", "seed", "collect", "publish", "announce" or "done"
    targets,    \* the devices discovered for this sweep
    todo,       \* those it has not reached
    target,     \* the one it is at
    previous,   \* the map it started from
    working,    \* the map it writes to
    sweeps,     \* sweeps begun
    \* the scrape
    probed,     \* the client was told that the exporter is ready
    at,         \* the collector: "idle", "load", "clock", "range" or "done"
    set,        \* the map it loaded
    left,       \* the devices it has not come to
    now,        \* the time it took
    got,        \* what it exported of each device
    \* history
    saw,        \* what the map held when it was loaded
    last,       \* what the scrape before exported
    gone        \* the devices that once were discovered and later were not

poller == <<store, ready, pc, targets, todo, target, previous, working, sweeps, gone>>
scrape == <<probed, at, set, left, now, got, saw, last>>
vars   == <<heap, clock, poller, scrape>>

-----------------------------------------------------------------------------
(* Maps. What nobody refers to is garbage: its contents go, and it may be  *)
(* allocated again.                                                        *)

References == {store, previous, working, set}
Fresh == CHOOSE map \in Maps : map \notin References
Heap(contents) ==
    heap' = [map \in Maps |-> IF map \in References' THEN contents[map] ELSE Empty]

Held(map, d) == IF map = Nil THEN Absent ELSE heap[map][d]

-----------------------------------------------------------------------------
(* The poller.                                                             *)

DiscoverFails ==
    /\ pc = "wait" /\ sweeps < MaxSweeps
    /\ sweeps' = sweeps + 1
    /\ UNCHANGED <<heap, clock, store, ready, pc, targets, todo, target, previous, working,
                   gone, scrape>>

Discover ==
    /\ pc = "wait" /\ sweeps < MaxSweeps
    /\ sweeps' = sweeps + 1
    /\ targets' \in SUBSET Devices
    /\ gone' = gone \cup (targets \ targets')
    /\ pc' = "seed"
    /\ UNCHANGED <<heap, clock, store, ready, todo, target, previous, working, scrape>>

SeedNone ==
    /\ pc = "seed" /\ targets = {}
    /\ store' = Fresh
    /\ pc' = "wait"
    /\ UNCHANGED <<clock, ready, targets, todo, target, previous, working, sweeps, gone, scrape>>
    /\ Heap([heap EXCEPT ![store'] = Empty])

\* Faulty: the working map starts empty (ScrapesGoForward).
SeededEmpty(d) == Absent

\* What the working map starts with for device d.
Seeded(d) == IF d \in targets THEN Held(store, d) ELSE Absent

Seed ==
    /\ pc = "seed" /\ targets # {}
    /\ previous' = store /\ working' = Fresh /\ todo' = targets
    /\ pc' = "collect"
    /\ UNCHANGED <<clock, store, ready, targets, target, sweeps, gone, scrape>>
    /\ Heap([heap EXCEPT ![working'] = [d \in Devices |-> Seeded(d)]])

\* Faulty: each attempt starts from nothing (StoreIsACache).
KnownForgotten(d) == Never

\* The success the device's next snapshot starts from.
Known(d) == IF Held(previous, d) = Absent THEN Never ELSE Held(previous, d).lastSuccess

\* An attempt, whose result joins the working map. Targets are visited in order;
\* here in any.
Collect ==
    /\ pc = "collect"
    /\ \E d \in todo, failed \in BOOLEAN :
         /\ target' = d /\ todo' = todo \ {d}
         /\ heap' = [heap EXCEPT ![working] = [@ EXCEPT ![d] =
                [lastSuccess |-> IF failed THEN Known(d) ELSE clock, failed |-> failed]]]
    /\ pc' = "publish"
    /\ UNCHANGED <<clock, store, ready, targets, previous, working, sweeps, gone, scrape>>

\* The context is done during an attempt: the store stays as it is.
Cancelled ==
    /\ pc = "collect"
    /\ pc' = "done" /\ previous' = Nil /\ working' = Nil
    /\ UNCHANGED <<clock, store, ready, targets, todo, target, sweeps, gone, scrape>>
    /\ Heap(heap)

\* Faulty: the working map itself is published (ScrapeIsOneSet).
PublishShared ==
    /\ pc = "publish"
    /\ store' = working
    /\ pc' = "announce"
    /\ UNCHANGED <<clock, ready, targets, todo, target, previous, working, sweeps, gone, scrape>>
    /\ Heap(heap)

Publish ==
    /\ pc = "publish"
    /\ store' = Fresh
    /\ pc' = "announce"
    /\ UNCHANGED <<clock, ready, targets, todo, target, previous, working, sweeps, gone, scrape>>
    /\ Heap([heap EXCEPT ![store'] = heap[working]])

\* Faulty: readiness is announced whatever the attempt gave (ReadyThenData).
Attempted == TRUE

\* What onPublish asks of the snapshot it is given.
Collected == ~heap[working][target].failed

\* onPublish, then the next target or the end of the sweep, whose maps are then
\* out of reach.
Announce ==
    /\ pc = "announce"
    /\ ready' = (ready \/ Collected)
    /\ IF todo # {} THEN pc' = "collect" /\ UNCHANGED <<previous, working>>
                    ELSE pc' = "wait" /\ previous' = Nil /\ working' = Nil
    /\ UNCHANGED <<clock, store, targets, todo, target, sweeps, gone, scrape>>
    /\ Heap(heap)

Tick ==
    /\ clock < MaxClock
    /\ clock' = clock + 1
    /\ UNCHANGED <<heap, poller, scrape>>

-----------------------------------------------------------------------------
(* The scrape.                                                             *)

\* The client is answered by /readyz, then asks for /metrics.
Scrape ==
    /\ at = "idle"
    /\ probed' = ready
    /\ at' = "load"
    /\ UNCHANGED <<heap, clock, poller, set, left, now, got, saw, last>>

\* Faulty: a store that holds nothing yet is gone through (TypeOK).
LoadUnguarded ==
    /\ at = "load"
    /\ set' = store
    /\ at' = "clock"
    /\ left' = {d \in Devices : Held(store, d) # Absent}
    /\ saw' = [d \in Devices |-> Held(store, d)]
    /\ UNCHANGED <<heap, clock, poller, probed, now, got, last>>

\* One atomic load. Before the first publication there is nothing to export.
Load ==
    /\ at = "load"
    /\ set' = store
    /\ IF store = Nil
       THEN at' = "done" /\ UNCHANGED <<left, saw>>
       ELSE /\ at' = "clock"
            /\ left' = {d \in Devices : heap[store][d] # Absent}
            /\ saw' = heap[store]
    /\ UNCHANGED <<heap, clock, poller, probed, now, got, last>>

ReadClock ==
    /\ at = "clock"
    /\ now' = clock
    /\ at' = "range"
    /\ UNCHANGED <<heap, clock, poller, probed, set, left, got, saw, last>>

IsStale(snapshot, instant) ==
    snapshot.lastSuccess = Never \/ instant - snapshot.lastSuccess > StaleAfter

\* collectDevice.
Exported(snapshot, instant) ==
    [lastSuccess |-> snapshot.lastSuccess,
     up |-> ~snapshot.failed /\ snapshot.lastSuccess # Never,
     shown |-> ~IsStale(snapshot, instant)]

\* The next device of the range statement, in any order.
CollectDevice ==
    /\ at = "range"
    /\ \E d \in left :
         /\ got' = [got EXCEPT ![d] = Exported(heap[set][d], now)]
         /\ left' = left \ {d}
    /\ UNCHANGED <<heap, clock, poller, probed, at, set, now, saw, last>>

CollectReturns ==
    /\ at = "range" /\ left = {}
    /\ at' = "done" /\ set' = Nil
    /\ UNCHANGED <<clock, poller, probed, left, now, got, saw, last>>
    /\ Heap(heap)

Answered ==
    /\ at = "done"
    /\ last' = got
    /\ at' = "idle" /\ probed' = FALSE /\ now' = Never
    /\ got' = Empty /\ saw' = Empty
    /\ UNCHANGED <<heap, clock, poller, set, left>>

-----------------------------------------------------------------------------

Init ==
    /\ heap = [map \in Maps |-> Empty] /\ clock = 1
    /\ store = Nil /\ ready = FALSE /\ pc = "wait"
    /\ targets = {} /\ todo = {} /\ target \in Devices
    /\ previous = Nil /\ working = Nil /\ sweeps = 0 /\ gone = {}
    /\ probed = FALSE /\ at = "idle" /\ set = Nil /\ left = {} /\ now = Never
    /\ got = Empty /\ saw = Empty /\ last = Empty

Sweeping == DiscoverFails \/ Discover \/ SeedNone \/ Seed \/ Collect \/ Cancelled \/ Publish \/ Announce
Scraping == Scrape \/ Load \/ ReadClock \/ CollectDevice \/ CollectReturns \/ Answered

Next == Sweeping \/ Tick \/ Scraping

Spec == Init /\ [][Next]_vars

-----------------------------------------------------------------------------
(* Properties.                                                             *)

\* Every variable has its type; the sweep and the collector that are under way
\* hold maps: before the first publication a collector leaves, and an empty list
\* of devices ends the sweep, before either would go through a map.
TypeOK ==
    /\ heap \in [Maps -> Contents] /\ clock \in 1..MaxClock
    /\ References \subseteq Maps \cup {Nil}
    /\ pc \in {"wait", "seed", "collect", "publish", "announce", "done"}
    /\ pc \in {"collect", "publish", "announce"} <=> working # Nil
    /\ targets \subseteq Devices /\ todo \subseteq targets /\ target \in Devices
    /\ sweeps \in 0..MaxSweeps /\ gone \subseteq Devices
    /\ ready \in BOOLEAN /\ probed \in BOOLEAN
    /\ at \in {"idle", "load", "clock", "range", "done"}
    /\ at \in {"clock", "range"} <=> set # Nil
    /\ left \subseteq Devices /\ now \in 0..MaxClock
    /\ got \in [Devices -> Metrics \cup {Absent}] /\ last \in [Devices -> Metrics \cup {Absent}]
    /\ saw \in Contents

\* A scrape exports one published set, whole and as it was when it was loaded,
\* however far the sweep gets while the devices are gone through, and judges all
\* of it at one instant: the collector takes no lock (collector.go:186), and only
\* the clone made at each publication keeps the map it ranges over from being
\* written to.
ScrapeIsOneSet ==
    at = "done" =>
        \A d \in Devices :
            got[d] = IF saw[d] = Absent THEN Absent ELSE Exported(saw[d], now)

\* From one scrape to the next, a device that stays is never missing and its last
\* success never goes back, through sweeps that are half done or cancelled,
\* failures and failed discoveries (poller.go:268-271 promises "never a gap").
ScrapesGoForward ==
    at = "done" =>
        \A d \in Devices \ gone :
            last[d] # Absent =>
                /\ got[d] # Absent
                /\ got[d].lastSuccess >= last[d].lastSuccess

\* A client told by /readyz that the exporter is ready finds a device that once
\* succeeded in the scrape it makes next, unless one was removed: readiness is
\* announced after the data behind it is published (poller.go:252-253).
ReadyThenData ==
    at = "done" /\ probed /\ gone = {} =>
        \E d \in Devices : got[d] # Absent /\ got[d].lastSuccess # Never

\* The store in the terms of SnapshotCache, which Poller implements attempt by
\* attempt: here what the map it points to holds, with no data but the time.
Cached ==
    LET held == IF store = Nil THEN Empty ELSE heap[store]
    IN [d \in Devices |->
        IF held[d] = Absent THEN Absent
        ELSE [target |-> [device |-> d, labels |-> Nil],
              data |-> {},
              lastSuccess |-> held[d].lastSuccess,
              lastError |-> IF held[d].failed THEN "unknown" ELSE "",
              lastDuration |-> 0]]

Store == INSTANCE SnapshotCache
    WITH Labels <- {Nil}, cache <- Cached, announced <- ready, now <- clock

ASSUME StoreAssumption == Absent \notin Store!Snapshot

\* Behind the maps that are copied, dropped and allocated again, the store is the
\* cache the poller promises: a publication renews one device, what it drops has
\* left the list, a failure keeps the time of the last success, and readiness
\* follows a device that is up (poller.go:251-257, 268-315, 448-453, 522-527).
StoreIsACache == Store!Spec
=============================================================================
