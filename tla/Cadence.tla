------------------------------- MODULE Cadence -------------------------------
(***************************************************************************)
(* The rhythm of the sweeps, and what it does to one device's data: when   *)
(* the ticker fires, how long a sweep takes, when the device's turn comes  *)
(* in it, and whether a scrape still exports what was collected last.      *)
(*                                                                         *)
(* Ages and countdowns stand for instants, so time need not be bounded.    *)
(* A sweep and the drain after it are two steps: a tick may fire between   *)
(* them. The goroutine may be held up there; what holds it up elsewhere    *)
(* is part of a sweep's length.                                            *)
(*                                                                         *)
(* A definition whose comment begins with "Faulty:" is a slip the code     *)
(* could have made in the definition below it; no action uses it.          *)
(***************************************************************************)
EXTENDS Naturals

CONSTANTS
    Interval,       \* --poll-interval, in units of time
    MaxSweep,       \* bound: how long a sweep may take at all
    MaxLag,         \* bound: how much later the drain after it may come
    MaxAge,         \* bound: ages are not told apart from here on
    MaxFailures     \* bound: nor are consecutive failures

\* Faulty: a horizon one interval short (ThreeFailuresAreSurvived).
FactorShort == 4

staleAfterFactor == 5
StaleAfter == Interval * staleAfterFactor

ASSUME CadenceAssumption ==
    /\ Interval \in Nat \ {0} /\ MaxSweep \in Nat /\ MaxLag \in Nat
    /\ MaxAge \in Nat /\ MaxAge > Interval * 5
    /\ MaxFailures \in Nat /\ MaxFailures > 6

VARIABLES
    longest,    \* how long a sweep of this host may take: devices, fallbacks
    pc,         \* "sweep", "drain" or "wait"
    spent,      \* time from the sweep's beginning to the drain after it
    published,  \* the device has had its turn in it
    toTick,     \* time until the ticker fires
    ticking,    \* the ticker exists: it is made after the first sweep
    pending,    \* a tick is in its channel
    known,      \* the device has been collected
    age,        \* time since then
    failures,   \* sweeps that failed to, since then
    counted     \* whether the last drain counted an overlap

sweep  == <<pc, spent, published, longest>>
ticker == <<toTick, ticking, pending>>
device == <<known, age, failures>>
vars   == <<sweep, ticker, device, counted>>

Init ==
    /\ longest \in 0..MaxSweep
    /\ pc = "sweep" /\ spent = 0 /\ published = FALSE
    /\ toTick = Interval /\ ticking = FALSE /\ pending = FALSE
    /\ known = FALSE /\ age = 0 /\ failures = 0
    /\ counted = FALSE

Succeed ==
    /\ pc = "sweep" /\ ~published
    /\ published' = TRUE
    /\ known' = TRUE /\ age' = 0 /\ failures' = 0
    /\ UNCHANGED <<longest, pc, spent, ticker, counted>>

\* Faulty: a failure renews the time of the last success (FailuresAreCounted).
FailRenewed ==
    /\ pc = "sweep" /\ ~published
    /\ published' = TRUE
    /\ age' = 0
    /\ failures' = IF failures < MaxFailures THEN failures + 1 ELSE failures
    /\ UNCHANGED <<longest, pc, spent, ticker, known, counted>>

\* The data and their age are kept.
Fail ==
    /\ pc = "sweep" /\ ~published
    /\ published' = TRUE
    /\ failures' = IF failures < MaxFailures THEN failures + 1 ELSE failures
    /\ UNCHANGED <<longest, pc, spent, ticker, known, age, counted>>

\* The first sweep is over: only now is the ticker made.
FirstSweepEnds ==
    /\ pc = "sweep" /\ published /\ ~ticking
    /\ pc' = "wait" /\ ticking' = TRUE
    /\ spent' = 0 /\ toTick' = Interval
    /\ UNCHANGED <<longest, published, pending, device, counted>>

\* Any later sweep is over.
SweepReturns ==
    /\ pc = "sweep" /\ published /\ ticking
    /\ pc' = "drain"
    /\ UNCHANGED <<longest, spent, published, ticker, device, counted>>

\* Faulty: every sweep is counted as an overlap (OverlapMeansLate).
DrainCounts ==
    /\ pc = "drain"
    /\ pc' = "wait" /\ pending' = FALSE /\ counted' = TRUE
    /\ UNCHANGED <<longest, spent, published, toTick, ticking, device>>

\* The tick in the channel is dropped and counted, whether it fired in the
\* sweep or since.
Drain ==
    /\ pc = "drain"
    /\ pc' = "wait" /\ pending' = FALSE /\ counted' = pending
    /\ UNCHANGED <<longest, spent, published, toTick, ticking, device>>

TakeTick ==
    /\ pc = "wait" /\ pending
    /\ pc' = "sweep" /\ pending' = FALSE /\ published' = FALSE /\ spent' = 0
    /\ UNCHANGED <<longest, toTick, ticking, device, counted>>

Tick ==
    /\ ticking /\ toTick = 0
    /\ pending' = TRUE /\ toTick' = Interval
    /\ UNCHANGED <<sweep, ticking, device, counted>>

\* A due tick fires first, a pending one is taken, a sweep ends in time and the
\* drain follows.
Elapse ==
    /\ ticking => toTick > 0
    /\ pc = "sweep" => spent < longest
    /\ pc = "drain" => spent < longest + MaxLag
    /\ pc = "wait" => ~pending
    /\ toTick' = IF ticking THEN toTick - 1 ELSE toTick
    /\ spent' = IF pc = "wait" THEN spent ELSE spent + 1
    /\ age' = IF known /\ age < MaxAge THEN age + 1 ELSE age
    /\ UNCHANGED <<longest, pc, published, ticking, pending, known, failures, counted>>

Next ==
    \/ Succeed \/ Fail \/ FirstSweepEnds \/ SweepReturns \/ Drain
    \/ TakeTick \/ Tick \/ Elapse

Spec == Init /\ [][Next]_vars

-----------------------------------------------------------------------------
(* What a scrape exports.                                                  *)

\* Faulty: suppressed when the horizon is reached (HealthyIsExported).
ExportedBefore == known /\ age < StaleAfter

\* The negation of isStale: collectors export the measurements of a snapshot
\* that is known and no older than the horizon.
Exported == known /\ age <= StaleAfter

-----------------------------------------------------------------------------
(* Properties.                                                             *)

\* Type correctness of the rhythm (poller.go:184-205).
TypeOK ==
    /\ longest \in 0..MaxSweep
    /\ pc \in {"sweep", "drain", "wait"} /\ published \in BOOLEAN
    /\ spent \in 0..longest + MaxLag
    /\ toTick \in 0..Interval /\ ticking \in BOOLEAN /\ pending \in BOOLEAN
    /\ known \in BOOLEAN /\ age \in 0..MaxAge /\ failures \in 0..MaxFailures
    /\ counted \in BOOLEAN

\* The horizon leaves room for slow sweeps: as long as a sweep takes no more
\* than two intervals, and its drain comes within the third, a device that is
\* collected every time is exported all the time, ticks dropped and all,
\* wherever its turn comes in a sweep (config.go:27-30, collector.go:231-238,
\* poller.go:207-235).
HealthyIsExported ==
    longest <= 2 * Interval /\ longest + MaxLag < 3 * Interval =>
        (known /\ failures = 0 => Exported)

\* A sweep that takes half an interval at most, and is drained within the
\* interval, leaves room for three failures in a row (config.go:27-30).
ThreeFailuresAreSurvived ==
    2 * longest <= Interval /\ longest + MaxLag < Interval =>
        (known /\ failures <= 3 => Exported)

\* The other side of the horizon: a device is not exported for ever on what it
\* once had. By the seventh failure in a row it is suppressed, however fast the
\* sweeps are and whatever its turns in them (config.go:27-30, poller.go:522-525).
FailuresAreCounted == failures > staleAfterFactor + 1 => ~Exported

\* What the overlap counter says of a sweep is what the ticker did between the
\* tick that began it and its drain: one is counted only if an interval had
\* passed by then, and always if more had. That is not the length of the sweep:
\* one that fits is counted too when its drain comes late (poller.go:207-235).
OverlapMeansLate ==
    pc = "wait" => /\ counted => spent >= Interval
                   /\ spent > Interval => counted

\* The horizon as its constant is described: "a cached snapshot survives this
\* many consecutive failed sweeps before its device metrics stop being
\* exported." (config.go:27-29). Said here of fast sweeps only.
FailedSweepsAreSurvived ==
    2 * longest <= Interval /\ longest + MaxLag < Interval =>
        (known /\ failures <= staleAfterFactor => Exported)
=============================================================================
