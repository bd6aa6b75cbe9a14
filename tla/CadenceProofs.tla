---------------------------- MODULE CadenceProofs ----------------------------
(***************************************************************************)
(* Proofs about the rhythm of the sweeps, for any interval and any length  *)
(* of a sweep.                                                             *)
(***************************************************************************)
EXTENDS Cadence, TLAPS

-----------------------------------------------------------------------------
(* The inductive invariant.                                                *)

\* The goroutine is between a tick it took and the drain after the sweep.
Busy == pc \in {"sweep", "drain"} /\ ticking

\* A sweep after the first starts at a tick, so one that fires before its drain
\* fires an interval later. Before the first is over no data are older than it.
Place ==
    /\ pc = "sweep" => spent <= longest
    /\ pc # "sweep" => ticking /\ published
    /\ ~ticking => /\ ~pending /\ ~counted /\ toTick = Interval
                   /\ known => published /\ failures = 0 /\ age <= spent
    /\ Busy => IF pending THEN spent >= Interval ELSE spent + toTick = Interval
    /\ Busy /\ longest + MaxLag < 3 * Interval =>
         spent + toTick \in {Interval, 2 * Interval, 3 * Interval}
    /\ pc = "wait" /\ pending => toTick = Interval
    /\ OverlapMeansLate

\* Of one device: its age by its place in the sweep, if no sweep failed since.
Healthy ==
    longest <= 2 * Interval /\ longest + MaxLag < 3 * Interval /\ known /\ failures = 0 =>
        /\ pc # "wait" /\ published => age <= spent
        /\ pc = "sweep" /\ ~published => age <= 3 * Interval + spent
        /\ pc = "wait" /\ pending => age <= 3 * Interval
        /\ pc = "wait" /\ ~pending => age + toTick <= 3 * Interval

\* The same after up to three failures, when sweeps are fast. The ticker is made
\* after the first sweep, which may therefore add its length once.
Failing ==
    2 * longest <= Interval /\ longest + MaxLag < Interval /\ known /\ failures <= 3 =>
        /\ pc # "wait" /\ published => age <= failures * Interval + longest + spent
        /\ pc = "sweep" /\ ~published => age <= failures * Interval + Interval + longest + spent
        /\ pc = "wait" /\ pending => age <= failures * Interval + Interval + longest
        /\ pc = "wait" /\ ~pending => age + toTick <= failures * Interval + Interval + longest

Saturated == age = MaxAge

\* The least age after so many failures: a sweep starts an interval after the one
\* before, but the success may have come at the end of its own.
Failed ==
    known =>
        /\ failures \in 1..6 /\ ~Saturated =>
             /\ pc # "wait" /\ published => age + Interval >= failures * Interval + spent
             /\ pc = "wait" /\ pending => age >= failures * Interval
             /\ pc = "wait" /\ ~pending => age + toTick >= failures * Interval
        /\ failures \in 0..6 /\ ~Saturated /\ pc = "sweep" /\ ~published =>
             age >= failures * Interval + spent
        /\ failures > 6 => age > 5 * Interval

Inv == TypeOK /\ Place /\ Healthy /\ Failing /\ Failed

LEMMA Constants ==
  /\ Interval \in Nat /\ Interval > 0 /\ MaxSweep \in Nat /\ MaxLag \in Nat
  /\ MaxAge \in Nat /\ MaxAge > 5 * Interval
  /\ MaxFailures \in Nat /\ MaxFailures > 6
<1>1. Interval \in Nat \ {0}
  BY CadenceAssumption
<1> QED
  BY <1>1, CadenceAssumption

LEMMA TypesStep == TypeOK /\ Place /\ [Next]_vars => TypeOK'
<1> SUFFICES ASSUME TypeOK, Place, [Next]_vars PROVE TypeOK'
  OBVIOUS
<1> USE Constants
<1>1. CASE Succeed
  BY <1>1 DEF Succeed, TypeOK, ticker
<1>2. CASE Fail
  BY <1>2 DEF Fail, TypeOK, ticker
<1>3. CASE FirstSweepEnds
  BY <1>3 DEF FirstSweepEnds, TypeOK, device
<1>4. CASE SweepReturns
  BY <1>4 DEF SweepReturns, TypeOK, ticker, device
<1>5. CASE Drain
  BY <1>5 DEF Drain, TypeOK, device
<1>6. CASE TakeTick
  <2>1. spent' \in 0..longest + MaxLag
    BY <1>6 DEF TakeTick, TypeOK
  <2> QED
    BY <1>6, <2>1 DEF TakeTick, TypeOK, device
<1>7. CASE Tick
  BY <1>7 DEF Tick, TypeOK, sweep, device
<1>8. CASE Elapse
  <2>1. toTick' \in 0..Interval /\ spent' \in 0..longest + MaxLag
    BY <1>8 DEF Elapse, TypeOK
  <2>2. age' \in 0..MaxAge
    BY <1>8 DEF Elapse, TypeOK
  <2> QED
    BY <1>8, <2>1, <2>2 DEF Elapse, TypeOK
<1>9. CASE UNCHANGED vars
  BY <1>9 DEF vars, sweep, ticker, device, TypeOK
<1> QED
  BY <1>1, <1>2, <1>3, <1>4, <1>5, <1>6, <1>7, <1>8, <1>9 DEF Next

LEMMA PlaceStep == TypeOK /\ Place /\ [Next]_vars => Place'
<1> SUFFICES ASSUME TypeOK, Place, [Next]_vars PROVE Place'
  OBVIOUS
<1> USE Constants DEF TypeOK, Place, Busy, OverlapMeansLate
<1>1. CASE Succeed
  BY <1>1 DEF Succeed, ticker
<1>2. CASE Fail
  BY <1>2 DEF Fail, ticker
<1>3. CASE FirstSweepEnds
  BY <1>3 DEF FirstSweepEnds, device
<1>4. CASE SweepReturns
  BY <1>4 DEF SweepReturns, ticker, device
<1>5. CASE Drain
  BY <1>5 DEF Drain, device
<1>6. CASE TakeTick
  BY <1>6 DEF TakeTick, device
<1>7. CASE Tick
  BY <1>7 DEF Tick, sweep, device
<1>8. CASE Elapse
  BY <1>8 DEF Elapse
<1>9. CASE UNCHANGED vars
  BY <1>9 DEF vars, sweep, ticker, device
<1> QED
  BY <1>1, <1>2, <1>3, <1>4, <1>5, <1>6, <1>7, <1>8, <1>9 DEF Next

LEMMA HealthyStep == TypeOK /\ Place /\ Healthy /\ [Next]_vars => Healthy'
<1> SUFFICES ASSUME TypeOK, Place, Healthy, [Next]_vars PROVE Healthy'
  OBVIOUS
<1> USE Constants DEF TypeOK, Healthy
<1>1. CASE Succeed
  BY <1>1 DEF Succeed, ticker
<1>2. CASE Fail
  BY <1>2 DEF Fail, ticker
<1>3. CASE FirstSweepEnds
  BY <1>3 DEF FirstSweepEnds, device, Place
<1>4. CASE SweepReturns
  BY <1>4 DEF SweepReturns, ticker, device
<1>5. CASE Drain
  BY <1>5 DEF Drain, device, Place, Busy
<1>6. CASE TakeTick
  BY <1>6 DEF TakeTick, device, Place
<1>7. CASE Tick
  BY <1>7 DEF Tick, sweep, device
<1>8. CASE Elapse
  BY <1>8 DEF Elapse, Place
<1>9. CASE UNCHANGED vars
  BY <1>9 DEF vars, sweep, ticker, device
<1> QED
  BY <1>1, <1>2, <1>3, <1>4, <1>5, <1>6, <1>7, <1>8, <1>9 DEF Next

LEMMA Multiples ==
  \A f \in Nat : /\ f * Interval \in Nat
                 /\ (f + 1) * Interval = f * Interval + Interval
                 /\ 0 * Interval = 0
  BY Constants

LEMMA FailingStep == TypeOK /\ Place /\ Failing /\ [Next]_vars => Failing'
<1> SUFFICES ASSUME TypeOK, Place, Failing, [Next]_vars PROVE Failing'
  OBVIOUS
<1> USE Constants, Multiples DEF TypeOK, Failing
<1>1. CASE Succeed
  BY <1>1 DEF Succeed, ticker
<1>2. CASE Fail
  BY <1>2 DEF Fail, ticker
<1>3. CASE FirstSweepEnds
  BY <1>3 DEF FirstSweepEnds, device, Place
<1>4. CASE SweepReturns
  BY <1>4 DEF SweepReturns, ticker, device
<1>5. CASE Drain
  BY <1>5 DEF Drain, device, Place, Busy
<1>6. CASE TakeTick
  BY <1>6 DEF TakeTick, device, Place
<1>7. CASE Tick
  BY <1>7 DEF Tick, sweep, device
<1>8. CASE Elapse
  BY <1>8 DEF Elapse, Place
<1>9. CASE UNCHANGED vars
  BY <1>9 DEF vars, sweep, ticker, device
<1> QED
  BY <1>1, <1>2, <1>3, <1>4, <1>5, <1>6, <1>7, <1>8, <1>9 DEF Next

LEMMA FailedStep == TypeOK /\ Place /\ Failed /\ [Next]_vars => Failed'
<1> SUFFICES ASSUME TypeOK, Place, Failed, [Next]_vars PROVE Failed'
  OBVIOUS
<1> USE Constants, Multiples DEF TypeOK, Failed, Saturated
<1>1. CASE Succeed
  BY <1>1 DEF Succeed, ticker
<1>2. CASE Fail
  BY <1>2 DEF Fail, ticker, Place
<1>3. CASE FirstSweepEnds
  BY <1>3 DEF FirstSweepEnds, device, Place
<1>4. CASE SweepReturns
  BY <1>4 DEF SweepReturns, ticker, device
<1>5. CASE Drain
  BY <1>5 DEF Drain, device, Place, Busy
<1>6. CASE TakeTick
  BY <1>6 DEF TakeTick, device, Place
<1>7. CASE Tick
  BY <1>7 DEF Tick, sweep, device
<1>8. CASE Elapse
  BY <1>8 DEF Elapse, Place
<1>9. CASE UNCHANGED vars
  BY <1>9 DEF vars, sweep, ticker, device
<1> QED
  BY <1>1, <1>2, <1>3, <1>4, <1>5, <1>6, <1>7, <1>8, <1>9 DEF Next

LEMMA InitInv == Init => Inv
<1> SUFFICES ASSUME Init PROVE Inv
  OBVIOUS
<1>1. TypeOK
  <2>1. /\ longest \in Nat /\ 0 \in 0..longest + MaxLag /\ 0 \in 0..MaxAge
        /\ 0 \in 0..MaxFailures /\ Interval \in 0..Interval
    BY Constants DEF Init
  <2> QED
    BY <2>1 DEF Init, TypeOK
<1>2. Place /\ Healthy /\ Failing /\ Failed
  BY <1>1 DEF Init, Place, Busy, OverlapMeansLate, Healthy, Failing, Failed, TypeOK
<1> QED
  BY <1>1, <1>2 DEF Inv

-----------------------------------------------------------------------------
(* The theorems.                                                           *)

\* A device's age is known, from both sides, by its place in the sweep and the
\* failures since its success (poller.go:182-235; config.go:27-30).
THEOREM Invariant == Spec => []Inv
<1>1. Inv /\ [Next]_vars => Inv'
  BY TypesStep, PlaceStep, HealthyStep, FailingStep, FailedStep DEF Inv
<1> QED
  BY InitInv, <1>1, PTL DEF Spec

\* Every variable of the rhythm keeps its type.
THEOREM TypeCorrect == Spec => []TypeOK
<1>1. Inv => TypeOK
  BY DEF Inv
<1> QED
  BY Invariant, <1>1, PTL

\* A device that never fails is exported all the time, as long as a sweep takes
\* no more than two intervals and is drained before the third is over.
THEOREM HealthyIsExportedHolds == Spec => []HealthyIsExported
<1>1. Inv => HealthyIsExported
  BY Constants DEF Inv, TypeOK, Place, Healthy, HealthyIsExported, Exported, StaleAfter,
     staleAfterFactor
<1> QED
  BY Invariant, <1>1, PTL

\* Three failures in a row are survived when sweeps take half an interval at most
\* and are drained before the interval is over.
THEOREM ThreeFailuresAreSurvivedHolds == Spec => []ThreeFailuresAreSurvived
<1>1. Inv => ThreeFailuresAreSurvived
  BY Constants DEF Inv, TypeOK, Place, Failing, ThreeFailuresAreSurvived, Exported, StaleAfter,
     staleAfterFactor
<1> QED
  BY Invariant, <1>1, PTL

\* By the seventh failure in a row a device is suppressed.
THEOREM FailuresAreCountedHolds == Spec => []FailuresAreCounted
<1>1. Inv => FailuresAreCounted
  BY Constants DEF Inv, TypeOK, Failed, FailuresAreCounted, Exported, StaleAfter, staleAfterFactor
<1> QED
  BY Invariant, <1>1, PTL

\* An overlap is counted only if an interval passed between the tick that began
\* the sweep and its drain, and always if more than that did.
THEOREM OverlapMeansLateHolds == Spec => []OverlapMeansLate
<1>1. Inv => OverlapMeansLate
  BY DEF Inv, Place
<1> QED
  BY Invariant, <1>1, PTL
=============================================================================
