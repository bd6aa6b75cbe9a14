--------------------------- MODULE SnapshotCache ---------------------------
(***************************************************************************)
(* What a published snapshot set promises to the scrapes that read it,     *)
(* whatever the loop behind it does:                                       *)
(*   - one publication renews exactly one device, and every other device   *)
(*     keeps what it had or leaves the set;                                *)
(*   - a success replaces the data, a failure keeps the data and the time  *)
(*     of the success they came from;                                      *)
(*   - readiness is announced when a device collected without error is     *)
(*     there to be scraped, and never withdrawn.                           *)
(* The poller implements it twice, once for the network port snapshots and *)
(* once for the PCIe Eye snapshots.                                        *)
(***************************************************************************)
EXTENDS Snapshots, TLAPS

VARIABLES
    cache,      \* the set a scrape would read
    announced,  \* whether readiness has been announced
    now         \* the time a success is stamped with

vars == <<cache, announced, now>>

Init ==
    /\ cache = EmptySet
    /\ announced = FALSE
    /\ now \in Nat \ {Never}

\* The data and time a device's next snapshot starts from.
Known(d) == IF cache[d] = Absent
            THEN [data |-> {}, lastSuccess |-> Never]
            ELSE [data |-> cache[d].data, lastSuccess |-> cache[d].lastSuccess]

\* An attempt that succeeded no later than now and no earlier than the last.
Succeeds(d, new) ==
    /\ new.lastError = NoError
    /\ new.lastSuccess # Never
    /\ Known(d).lastSuccess <= new.lastSuccess
    /\ new.lastSuccess <= now

\* An attempt that failed: its error is shown beside what was known.
Fails(d, new) ==
    /\ new.lastError # NoError
    /\ new.data = Known(d).data
    /\ new.lastSuccess = Known(d).lastSuccess

\* Device d is renewed; the devices in gone leave the set.
Publish(d, gone) ==
    /\ d \notin gone
    /\ cache'[d] \in Snapshot
    /\ cache'[d].target.device = d
    /\ Succeeds(d, cache'[d]) \/ Fails(d, cache'[d])
    /\ cache' = [e \in Devices |-> IF e = d THEN cache'[d]
                                   ELSE IF e \in gone THEN Absent
                                   ELSE cache[e]]
    /\ UNCHANGED <<announced, now>>

\* No device is left.
Retire ==
    /\ cache' = EmptySet
    /\ UNCHANGED <<announced, now>>

Announce ==
    /\ \E d \in Devices : cache[d] # Absent /\ Up(cache[d])
    /\ announced' = TRUE
    /\ UNCHANGED <<cache, now>>

Elapse ==
    /\ now' \in Nat
    /\ now < now'
    /\ UNCHANGED <<cache, announced>>

Next ==
    \/ \E d \in Devices : Publish(d, {e \in Devices : cache'[e] = Absent})
    \/ Retire
    \/ Announce
    \/ Elapse

Spec == Init /\ [][Next]_vars

-----------------------------------------------------------------------------
(* What a reader can rely on, whoever implements this.                     *)

TypeOK == cache \in SnapshotSet /\ announced \in BOOLEAN /\ now \in Nat

\* Nothing is dated ahead of the clock, so that no age is negative, and a device
\* that never succeeded has no data to show (collector.go:231-238).
Dated ==
    \A d \in Devices : cache[d] # Absent =>
        /\ cache[d].lastSuccess <= now
        /\ cache[d].lastSuccess = Never => cache[d].data = {}

\* While a device stays its last success never goes back, and its data change
\* with a success only (poller.go:322-323, 357-359, 522-533).
OnlyForward ==
    [][\A d \in Devices : cache[d] # Absent /\ cache'[d] # Absent =>
        /\ cache'[d].lastSuccess >= cache[d].lastSuccess
        /\ cache'[d].data # cache[d].data => Up(cache'[d])]_vars

\* Readiness is announced while a device that is up can be scraped, and stays
\* (poller.go:251-257).
ReadyOnce ==
    [][announced' # announced =>
        announced' /\ \E d \in Devices : cache'[d] # Absent /\ Up(cache'[d])]_vars

\* What a publication leaves of device e.
LEMMA Published ==
  ASSUME NEW d \in Devices, NEW gone, Publish(d, gone), NEW e \in Devices
  PROVE  /\ e = d => /\ cache'[e] \in Snapshot
                     /\ Succeeds(e, cache'[e]) \/ Fails(e, cache'[e])
         /\ e # d => cache'[e] = Absent \/ cache'[e] = cache[e]
<1>1. cache'[e] = IF e = d THEN cache'[d] ELSE IF e \in gone THEN Absent ELSE cache[e]
  BY DEF Publish
<1> QED
  BY <1>1 DEF Publish

LEMMA TypeStep == TypeOK /\ [Next]_vars => TypeOK'
<1> SUFFICES ASSUME TypeOK, [Next]_vars PROVE TypeOK'
  OBVIOUS
<1>1. ASSUME NEW d \in Devices, NEW gone, Publish(d, gone) PROVE TypeOK'
  <2>1. \A e \in Devices : cache'[e] \in Snapshot \cup {Absent}
    BY <1>1, Published DEF TypeOK, SnapshotSet
  <2>2. cache' = [e \in Devices |-> cache'[e]]
    BY <1>1 DEF Publish
  <2> QED
    BY <1>1, <2>1, <2>2 DEF Publish, TypeOK, SnapshotSet
<1>2. CASE Retire
  BY <1>2 DEF Retire, TypeOK, SnapshotSet, EmptySet
<1>3. CASE Announce \/ Elapse \/ UNCHANGED vars
  BY <1>3 DEF Announce, Elapse, vars, TypeOK
<1> QED
  BY <1>1, <1>2, <1>3 DEF Next

\* One step renews a device by a success or a failure, keeps it or drops it, and
\* never turns time back.
Renewed(d) ==
    \/ cache'[d] = Absent \/ cache'[d] = cache[d]
    \/ cache'[d] \in Snapshot /\ (Succeeds(d, cache'[d]) \/ Fails(d, cache'[d]))

LEMMA StepRenews ==
  ASSUME TypeOK, [Next]_vars
  PROVE  now <= now' /\ \A d \in Devices : Renewed(d)
<1>1. CASE \E d \in Devices : Publish(d, {e \in Devices : cache'[e] = Absent})
  <2>1. \A e \in Devices : Renewed(e)
    BY <1>1, Published DEF Renewed
  <2>2. now' = now
    BY <1>1 DEF Publish
  <2> QED
    BY <2>1, <2>2 DEF TypeOK
<1>2. CASE Retire \/ Announce \/ Elapse \/ UNCHANGED vars
  BY <1>2 DEF Retire, Announce, Elapse, vars, EmptySet, Renewed, TypeOK
<1> QED
  BY <1>1, <1>2 DEF Next

\* What is known of a device, whether it is there or not.
LEMMA KnownOf ==
  ASSUME TypeOK, NEW d \in Devices
  PROVE  /\ cache[d] = Absent => Known(d).data = {} /\ Known(d).lastSuccess = Never
         /\ cache[d] # Absent => /\ cache[d] \in Snapshot
                                 /\ Known(d).data = cache[d].data
                                 /\ Known(d).lastSuccess = cache[d].lastSuccess
  BY DEF Known, TypeOK, SnapshotSet

LEMMA DatedStep == TypeOK /\ Dated /\ [Next]_vars => Dated'
<1> SUFFICES ASSUME TypeOK, Dated, [Next]_vars, NEW d \in Devices, cache'[d] # Absent
             PROVE  /\ cache'[d].lastSuccess <= now'
                    /\ cache'[d].lastSuccess = Never => cache'[d].data = {}
  BY DEF Dated
<1>1. now \in Nat /\ now' \in Nat /\ now <= now' /\ Renewed(d)
  BY TypeStep, StepRenews DEF TypeOK
<1>2. cache[d] # Absent => /\ cache[d].lastSuccess \in Nat /\ cache[d].lastSuccess <= now
                           /\ cache[d].lastSuccess = Never => cache[d].data = {}
  BY DEF Dated, TypeOK, SnapshotSet, Snapshot
<1>3. CASE cache'[d] = cache[d]
  BY <1>1, <1>2, <1>3
<1>4. CASE cache'[d] \in Snapshot /\ Succeeds(d, cache'[d])
  <2>1. cache'[d].lastSuccess \in Nat
    BY <1>4 DEF Snapshot
  <2> QED
    BY <1>1, <1>4, <2>1 DEF Succeeds
<1>5. CASE Fails(d, cache'[d])
  <2>1. CASE cache[d] = Absent
    BY <1>1, <1>5, <2>1, KnownOf DEF Fails, Never
  <2>2. CASE cache[d] # Absent
    BY <1>1, <1>2, <1>5, <2>2, KnownOf DEF Fails
  <2> QED
    BY <2>1, <2>2
<1> QED
  BY <1>1, <1>3, <1>4, <1>5 DEF Renewed

LEMMA InitInv == Init => TypeOK /\ Dated
  BY DEF Init, EmptySet, TypeOK, SnapshotSet, Dated

LEMMA Typed == Spec => []TypeOK
<1>1. Init => TypeOK
  BY InitInv
<1> QED
  BY <1>1, TypeStep, PTL DEF Spec

\* Every implementation keeps its dates behind the clock, and shows no data
\* without a success.
THEOREM DatedHolds == Spec => []Dated
<1>1. Init => Dated
  BY InitInv
<1> QED
  BY <1>1, Typed, DatedStep, PTL DEF Spec

\* In every implementation what is known of a device goes forward only.
THEOREM OnlyForwardHolds == Spec => OnlyForward
<1> DEFINE Forward(d) ==
             cache[d] # Absent /\ cache'[d] # Absent =>
               /\ cache'[d].lastSuccess >= cache[d].lastSuccess
               /\ cache'[d].data # cache[d].data => Up(cache'[d])
<1>1. TypeOK /\ [Next]_vars => [\A d \in Devices : Forward(d)]_vars
  <2> SUFFICES ASSUME TypeOK, [Next]_vars, NEW d \in Devices, cache[d] # Absent, cache'[d] # Absent
               PROVE  /\ cache'[d].lastSuccess >= cache[d].lastSuccess
                      /\ cache'[d].data # cache[d].data => Up(cache'[d])
    OBVIOUS
  <2>1. Renewed(d) /\ cache[d].lastSuccess \in Nat
    BY StepRenews DEF TypeOK, SnapshotSet, Snapshot
  <2>2. Known(d).data = cache[d].data /\ Known(d).lastSuccess = cache[d].lastSuccess
    BY KnownOf
  <2>3. CASE cache'[d] = cache[d]
    BY <2>1, <2>3
  <2>4. CASE cache'[d] \in Snapshot /\ Succeeds(d, cache'[d])
    <3>1. cache'[d].lastSuccess \in Nat
      BY <2>4 DEF Snapshot
    <3> QED
      BY <2>1, <2>2, <2>4, <3>1 DEF Succeeds, Up
  <2>5. CASE Fails(d, cache'[d])
    BY <2>1, <2>2, <2>5 DEF Fails
  <2> QED
    BY <2>1, <2>3, <2>4, <2>5 DEF Renewed
<1> QED
  BY <1>1, Typed, PTL DEF Spec, OnlyForward

\* Every implementation announces readiness with a device to show, and for good.
THEOREM ReadyOnceHolds == Spec => ReadyOnce
<1>1. [Next]_vars =>
        [announced' # announced =>
           announced' /\ \E d \in Devices : cache'[d] # Absent /\ Up(cache'[d])]_vars
  BY DEF Next, Publish, Retire, Announce, Elapse, vars
<1> QED
  BY <1>1, PTL DEF Spec, ReadyOnce
=============================================================================
