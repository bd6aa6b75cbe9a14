------------------------------- MODULE Poller -------------------------------
(***************************************************************************)
(* The background poller: one goroutine that discovers the devices, runs   *)
(* mlxlink for each in turn, publishes a snapshot set after every device   *)
(* and then waits for the ticker. Its environment is the ticker, the clock *)
(* and the cancellation of the context it was started with.                *)
(*                                                                         *)
(* pc names the statement the goroutine is about to execute. The steps are *)
(* cut where another goroutine can tell the difference: a counter is       *)
(* incremented before a set is stored, a set is stored before readiness,   *)
(* and the context can be cancelled between any two of them.               *)
(*                                                                         *)
(* A definition whose comment begins with "Faulty:" is a slip the code     *)
(* could have made in the definition below it. No action uses it; put in   *)
(* that definition's place, it breaks the property it is named beside.     *)
(***************************************************************************)
EXTENDS Snapshots

CONSTANTS
    ShowEye,        \* WithShowEye: the first network query asks for Eye data
    ShowPCIeEye,    \* WithShowPCIeEye: a second pass asks for root PCIe Eye
    TargetLists,    \* what Discover may return
    Responses,      \* the sections a successful invocation may print
    RunReasons,     \* the reasons a failed invocation may be given
    MaxTicks,       \* bound: ticks that fire before the context is cancelled
    MaxClock        \* bound: the last instant of the clock

TargetList ==
    {list \in Seq(Target) : \A i, j \in DOMAIN list :
        list[i].device = list[j].device => i = j}

ASSUME PollerAssumption ==
    /\ ShowEye \in BOOLEAN /\ ShowPCIeEye \in BOOLEAN
    /\ TargetLists \subseteq TargetList
    /\ Responses \subseteq SUBSET Sections
    /\ RunReasons \subseteq Reasons \ {"invalid_json"}
    /\ MaxTicks \in Nat /\ MaxClock \in Nat

\* The two passes of a sweep, each with a store and a counter of its own.
Phases == {"net", "pcie"}
Queries == {"eye", "combined", "baseline", "pcie"}

\* The series of the two collection error counters.
ErrorKeys == Phases \X Target \X Reasons

VARIABLES
    \* shared with the scrapes and the readiness handler
    store,      \* store and pcieEyeStore
    ready,
    errors,     \* errors and pcieEyeErrors
    overlaps,
    \* the environment
    ctxDone,    \* whether the context has been cancelled
    clock,
    ticker,     \* "none" before NewTicker, then whether a tick is pending
    fired,      \* ticks fired so far
    \* the goroutine
    pc,
    phase,      \* the pass under way
    targets, idx, previous, working,        \* locals of sweepDevices
    query, snapshot, start, outcome,        \* locals of the collect functions
    \* history
    failed,     \* failed queries the goroutine saw while it was not stopping
    late        \* whether the pending tick fired while a sweep was running

shared  == <<store, ready, errors, overlaps>>
env     == <<ctxDone, clock, ticker, fired>>
sweep   == <<phase, targets, idx, previous, working>>
attempt == <<query, snapshot, start, outcome>>
vars    == <<shared, env, pc, sweep, attempt, failed, late>>

target == targets[idx]

NoOutcome == [error |-> NoError, data |-> {}, at |-> Never]
NoAttempt ==
    /\ query' = "pcie" /\ snapshot' = Absent /\ start' = Never
    /\ outcome' = NoOutcome
NoSweep ==
    /\ phase' = "net" /\ targets' = <<>> /\ idx' = 1
    /\ previous' = EmptySet /\ working' = EmptySet
    /\ NoAttempt

Init ==
    /\ store = [p \in Phases |-> EmptySet]
    /\ ready = FALSE
    /\ errors = [k \in ErrorKeys |-> 0]
    /\ overlaps = 0
    /\ ctxDone = FALSE /\ clock = 1 /\ ticker = "none" /\ fired = 0
    /\ pc = "start"
    /\ phase = "net" /\ targets = <<>> /\ idx = 1
    /\ previous = EmptySet /\ working = EmptySet
    /\ query = "pcie" /\ snapshot = Absent /\ start = Never
    /\ outcome = NoOutcome
    /\ failed = [k \in ErrorKeys |-> 0] /\ late = FALSE

-----------------------------------------------------------------------------
(* Run: the first sweep, then one per tick until the context is done.      *)

Begin ==
    /\ pc = "start"
    /\ pc' = IF ctxDone THEN "done" ELSE "discover"
    /\ UNCHANGED <<shared, env, sweep, attempt, failed, late>>

\* Faulty: goes back to the ticker without draining it (NoBackToBackSweeps).
EndSweepUndrained ==
    /\ pc' = IF ticker = "none" THEN "newTicker" ELSE "wait"
    /\ NoSweep

\* The sweep returns. Only sweeps started by a tick are followed by a drain.
EndSweep ==
    /\ pc' = IF ticker = "none" THEN "newTicker" ELSE "drain"
    /\ NoSweep

NewTicker ==
    /\ pc = "newTicker"
    /\ pc' = "wait" /\ ticker' = "idle"
    /\ UNCHANGED <<shared, ctxDone, clock, fired, sweep, attempt, failed, late>>

\* select takes either ready case, whatever the order they became ready in.
Stop ==
    /\ pc = "wait" /\ ctxDone
    /\ pc' = "done"
    /\ UNCHANGED <<shared, env, sweep, attempt, failed, late>>

TakeTick ==
    /\ pc = "wait" /\ ticker = "pending"
    /\ pc' = "discover" /\ ticker' = "idle"
    /\ UNCHANGED <<shared, ctxDone, clock, fired, sweep, attempt, failed, late>>

\* Faulty: drains without a default case (ShutdownStopsPoller).
DrainBlocking ==
    /\ pc = "drain" /\ ticker = "pending"
    /\ pc' = "wait" /\ late' = FALSE /\ ticker' = "idle"
    /\ UNCHANGED <<shared, ctxDone, clock, fired, sweep, attempt, failed>>

\* drainTicks: the tick that fired during the sweep is the sweep it cost.
Drain ==
    /\ pc = "drain"
    /\ pc' = "wait" /\ late' = FALSE
    /\ ticker' = "idle"
    /\ overlaps' = IF ticker = "pending" /\ ~ctxDone THEN overlaps + 1 ELSE overlaps
    /\ UNCHANGED <<store, ready, errors, ctxDone, clock, fired, sweep, attempt, failed>>

-----------------------------------------------------------------------------
(* sweep and sweepDevices                                                  *)

\* Discovery fails when the context is done, or when sysfs is unreadable: the
\* published sets stay as they are.
DiscoverFails ==
    /\ pc = "discover"
    /\ EndSweep
    /\ UNCHANGED <<shared, env, failed, late>>

Discover ==
    /\ pc = "discover" /\ ~ctxDone
    /\ \E list \in TargetLists : targets' = list
    /\ pc' = "seed" /\ phase' = "net"
    /\ UNCHANGED <<shared, env, idx, previous, working, attempt, failed, late>>

\* The pass over the targets is complete: the PCIe pass follows the network
\* pass when it is enabled.
EndPass ==
    IF phase = "net" /\ ShowPCIeEye
    THEN /\ pc' = "seed" /\ phase' = "pcie" /\ idx' = 1
         /\ previous' = EmptySet /\ working' = EmptySet
         /\ NoAttempt
         /\ UNCHANGED targets
    ELSE EndSweep

TargetDevices == {targets[i].device : i \in DOMAIN targets}

\* Faulty: the working map starts empty (MidSweepView).
RestrictedToNone(set) == EmptySet

\* The previous set restricted to the targets discovered now.
Restricted(set) == [d \in Devices |-> IF d \in TargetDevices THEN set[d] ELSE Absent]

\* Faulty: only the network store is emptied (PCIeFollowsNetwork).
SeedNoneKeepsPCIe ==
    /\ pc = "seed" /\ targets = <<>>
    /\ store' = IF phase = "net" THEN [store EXCEPT ![phase] = EmptySet] ELSE store
    /\ EndPass
    /\ UNCHANGED <<ready, errors, overlaps, env, failed, late>>

SeedNone ==
    /\ pc = "seed" /\ targets = <<>>
    /\ store' = [store EXCEPT ![phase] = EmptySet]
    /\ EndPass
    /\ UNCHANGED <<ready, errors, overlaps, env, failed, late>>

Seed ==
    /\ pc = "seed" /\ targets # <<>>
    /\ previous' = store[phase]
    /\ working' = Restricted(store[phase])
    /\ pc' = "collect" /\ idx' = 1
    /\ UNCHANGED <<shared, env, phase, targets, attempt, failed, late>>

\* The collected snapshot joins the working map, and a copy is published.
Publish ==
    /\ pc = "publish"
    /\ working' = [working EXCEPT ![target.device] = snapshot]
    /\ store' = [store EXCEPT ![phase] = working']
    /\ pc' = "announce"
    /\ UNCHANGED <<ready, errors, overlaps, env, phase, targets, idx, previous,
                   attempt, failed, late>>

AnnounceAndStep(more, next) ==
    /\ pc = "announce"
    /\ ready' = (ready \/ (phase = "net" /\ snapshot.lastError = NoError))
    /\ IF more
       THEN /\ idx' = next /\ pc' = "collect"
            /\ NoAttempt
            /\ UNCHANGED <<phase, targets, previous, working>>
       ELSE EndPass
    /\ UNCHANGED <<store, errors, overlaps, env, failed, late>>

\* Faulty: one target too many (TypeOK), a sweep that ends at the first device
\* in error (EveryTargetVisited), one that never leaves a target (SweepEnds).
AnnouncePastTheEnd == AnnounceAndStep(idx <= Len(targets), idx + 1)
AnnounceStopsAtError ==
    AnnounceAndStep(idx < Len(targets) /\ snapshot.lastError = NoError, idx + 1)
AnnounceStays == AnnounceAndStep(TRUE, idx)

\* onPublish, then the next target or the end of the pass.
Announce == AnnounceAndStep(idx < Len(targets), idx + 1)

-----------------------------------------------------------------------------
(* collect, collectWithEye, collectCombined, collectBaseline and           *)
(* collectPCIeEye: one attempt at one device, of up to three queries.      *)

FirstQuery == IF phase = "pcie" THEN "pcie" ELSE IF ShowEye THEN "eye" ELSE "combined"

\* Faulty: the combined query is retried with itself (SweepIsBounded).
FallbackAgain == [q \in {"eye", "combined"} |-> "combined"]

\* The query that retries one mlxlink rejected with a non-zero exit.
Fallback == [q \in {"eye", "combined"} |-> IF q = "eye" THEN "combined" ELSE "baseline"]

\* Faulty: a section mlxlink volunteers is kept (OnlyRequestedSections).
AcceptedUnsolicited == [q \in Queries |-> Sections]

\* What a query's answer is authoritative for; the rest of it is discarded.
Accepted == [eye      |-> {"base", "fec_histogram", "serdes_tx", "eye"},
             combined |-> {"base", "fec_histogram", "serdes_tx"},
             baseline |-> {"base"},
             pcie     |-> {"pcie_eye"}]

Collect ==
    /\ pc = "collect"
    /\ snapshot' = Lookup(previous, target)
    /\ start' = clock /\ query' = FirstQuery
    /\ pc' = "run"
    /\ UNCHANGED <<shared, env, sweep, outcome, failed, late>>

\* Faulty: the sweep goes on as if it had been complete (LoopIsPolling).
AbortUnnoticed ==
    /\ ctxDone
    /\ EndPass
    /\ UNCHANGED <<shared, env, failed, late>>

\* An attempt that ends with the context done leaves no trace.
Abort ==
    /\ ctxDone
    /\ EndSweep
    /\ UNCHANGED <<shared, env, failed, late>>

RunCancelled == pc = "run" /\ Abort

\* The invocation returns in time: with an error of the runner, with output
\* that does not decode, or with the sections it printed.
Failing(error) == [failed EXCEPT ![<<phase, target, error>>] = @ + 1]

QueryRejected ==
    /\ pc = "run" /\ ~ctxDone
    /\ query \in DOMAIN Fallback /\ "exit_error" \in RunReasons
    /\ query' = Fallback[query]
    /\ failed' = Failing("exit_error")
    /\ UNCHANGED <<shared, env, pc, sweep, snapshot, start, outcome, late>>

QueryFailed ==
    /\ pc = "run" /\ ~ctxDone
    /\ \E error \in RunReasons \cup {"invalid_json"} :
          /\ error = "exit_error" => query \notin DOMAIN Fallback
          /\ outcome' = [error |-> error, data |-> {}, at |-> clock]
          /\ failed' = Failing(error)
    /\ pc' = "record"
    /\ UNCHANGED <<shared, env, sweep, query, snapshot, start, late>>

QueryAnswered ==
    /\ pc = "run" /\ ~ctxDone
    /\ \E response \in Responses :
          outcome' = [error |-> NoError, data |-> response, at |-> clock]
    /\ pc' = "record"
    /\ UNCHANGED <<shared, env, sweep, query, snapshot, start, failed, late>>

\* The context is looked at again once the output has been decoded.
Decoded == outcome.error \in {NoError, "invalid_json"}
RecordCancelled == pc = "record" /\ Decoded /\ Abort

\* Faulty: the fallback's own failure is forgotten (PublishedErrorIsCounted).
CountedRejectionOnly(k) ==
    IF query = "baseline" THEN IF k = <<phase, target, "exit_error">> THEN 1 ELSE 0
    ELSE IF k = <<phase, snapshot.target, outcome.error>> THEN 1 ELSE 0

\* What one attempt adds to the counters: its own failure and, when it ended
\* with the baseline query, the rejection of the combined query before it.
Counted(k) ==
    (IF k = <<phase, snapshot.target, outcome.error>> THEN 1 ELSE 0)
    + (IF query = "baseline" /\ k = <<phase, target, "exit_error">> THEN 1 ELSE 0)

\* Faulty: a failure blanks the data (PCIeIsACache).
FoldedBlank ==
    [snapshot EXCEPT !.data = outcome.data \cap Accepted[query],
                     !.lastSuccess = IF outcome.error = NoError THEN outcome.at ELSE @,
                     !.lastError = outcome.error,
                     !.lastDuration = outcome.at - start]

\* recordSuccess or recordFailure, folded into what the device had before.
Folded ==
    IF outcome.error = NoError
    THEN [snapshot EXCEPT !.data = outcome.data \cap Accepted[query],
                          !.lastSuccess = outcome.at,
                          !.lastError = NoError,
                          !.lastDuration = outcome.at - start]
    ELSE [snapshot EXCEPT !.lastError = outcome.error,
                          !.lastDuration = outcome.at - start]

\* Faulty: the Eye query's rejection is lost behind a second one (ErrorLedger).
EyeWasRejectedAlone == ShowEye /\ query = "combined"

\* The combined query returned to collectWithEye, which still has to count the
\* rejected Eye query.
EyeWasRejected == ShowEye /\ query \in {"combined", "baseline"}

Record ==
    /\ pc = "record"
    /\ ctxDone => ~Decoded
    /\ errors' = [k \in ErrorKeys |-> errors[k] + Counted(k)]
    /\ snapshot' = Folded
    /\ outcome' = NoOutcome
    /\ pc' = IF EyeWasRejected THEN "account" ELSE "publish"
    /\ UNCHANGED <<store, ready, overlaps, env, sweep, query, start, failed, late>>

AccountCancelled == pc = "account" /\ Abort

Account ==
    /\ pc = "account" /\ ~ctxDone
    /\ errors' = [errors EXCEPT ![<<phase, target, "exit_error">>] = @ + 1]
    /\ pc' = "publish"
    /\ UNCHANGED <<store, ready, overlaps, env, sweep, attempt, failed, late>>

-----------------------------------------------------------------------------
(* The environment.                                                        *)

\* A tick is dropped while one is pending. After the context is cancelled the
\* ticks go on, unbounded, until Run stops the ticker.
Tick ==
    /\ ticker # "none" /\ pc # "done"
    /\ fired < MaxTicks \/ ctxDone
    /\ ticker' = "pending"
    /\ fired' = IF fired < MaxTicks THEN fired + 1 ELSE fired
    /\ late' = (late \/ (ticker = "idle" /\ pc # "wait"))
    /\ UNCHANGED <<shared, ctxDone, clock, pc, sweep, attempt, failed>>

Cancel ==
    /\ ~ctxDone
    /\ ctxDone' = TRUE
    /\ UNCHANGED <<shared, clock, ticker, fired, pc, sweep, attempt, failed, late>>

AdvanceClock ==
    /\ clock < MaxClock
    /\ clock' = clock + 1
    /\ UNCHANGED <<shared, ctxDone, ticker, fired, pc, sweep, attempt, failed, late>>

\* Run has returned: nothing is left to do.
Returned == pc = "done" /\ UNCHANGED vars

Attempt ==
    \/ Collect \/ RunCancelled \/ QueryRejected \/ QueryFailed \/ QueryAnswered
    \/ RecordCancelled \/ Record \/ AccountCancelled \/ Account

Goroutine ==
    \/ Begin \/ NewTicker \/ Stop \/ TakeTick \/ Drain
    \/ DiscoverFails \/ Discover \/ SeedNone \/ Seed \/ Publish \/ Announce
    \/ Attempt

Next == Goroutine \/ Tick \/ Cancel \/ AdvanceClock \/ Returned

Spec == Init /\ [][Next]_vars

\* The goroutine is scheduled, and every invocation returns (a command timeout
\* and WaitDelay bound it). select chooses at random between ready cases, so
\* a cancelled context is not passed over forever.
FairSpec == Spec /\ WF_vars(Goroutine) /\ SF_vars(Stop)

-----------------------------------------------------------------------------
(* Properties.                                                             *)

Programs == {"start", "discover", "seed", "collect", "run", "record", "account",
             "publish", "announce", "newTicker", "wait", "drain", "done"}

InAttempt == pc \in {"run", "record", "account", "publish", "announce"}
InPass == InAttempt \/ pc = "collect"
InSweep == InPass \/ pc = "seed"

\* Type correctness: what each variable of the poller may hold, and what its
\* locals hold while a pass and an attempt are under way (poller.go:76-109).
SharedType ==
    /\ store \in [Phases -> SnapshotSet] /\ ready \in BOOLEAN
    /\ errors \in [ErrorKeys -> Nat] /\ overlaps \in Nat
EnvType ==
    /\ ctxDone \in BOOLEAN /\ clock \in Nat \ {Never}
    /\ ticker \in {"none", "idle", "pending"} /\ fired \in Nat
SweepType ==
    /\ phase \in Phases /\ idx \in Nat \ {0} /\ targets \in TargetList
    /\ previous \in SnapshotSet /\ working \in SnapshotSet
Outcome == [error: Reasons \cup {NoError}, data: SUBSET Sections, at: Nat]
AttemptType ==
    /\ query \in Queries /\ snapshot \in Snapshot \cup {Absent}
    /\ start \in Nat /\ outcome \in Outcome
HistoryType ==
    /\ failed \in [ErrorKeys -> Nat] /\ late \in BOOLEAN
ControlType ==
    /\ pc \in Programs
    /\ InPass => idx \in DOMAIN targets
    /\ InAttempt => snapshot \in Snapshot

TypeOK ==
    /\ SharedType /\ EnvType /\ SweepType /\ AttemptType
    /\ HistoryType /\ ControlType

\* The poller's two stores are the cache the scrapes are promised: every
\* publication renews one device from what it had, a failure never blanks or
\* re-dates data, and readiness follows the data (poller.go:251-257, 300-313,
\* 448-459, 522-533).
Net == INSTANCE SnapshotCache
    WITH cache <- store["net"], announced <- ready, now <- clock
PCIe == INSTANCE SnapshotCache
    WITH cache <- store["pcie"], announced <- FALSE, now <- clock

NetIsACache == Net!Spec
PCIeIsACache == PCIe!Spec

Visited(i) == i < idx \/ (i = idx /\ pc = "announce")

\* A scrape landing mid-sweep sees this sweep's target for every device
\* already visited, exactly what the previous sweep left for every device
\* still pending, and a device that disappeared until the first publication
\* and never after it (poller.go:268-274).
MidSweepView ==
    InPass =>
        \A d \in Devices :
            \/ \E i \in DOMAIN targets :
                  /\ targets[i].device = d
                  /\ IF Visited(i)
                     THEN store[phase][d] # Absent /\ store[phase][d].target = targets[i]
                     ELSE store[phase][d] = previous[d]
            \/ /\ d \notin TargetDevices
               /\ store[phase][d] = IF \E i \in DOMAIN targets : Visited(i)
                                    THEN Absent ELSE previous[d]

\* Every failed query is counted exactly once: no counter runs ahead of the
\* failures that were seen, and between attempts none lags behind, unless the
\* context is done, when the failures of the attempt given up are dropped
\* (poller.go:353-355, 390, 483-492, 513-520, 527).
ErrorLedger ==
    /\ \A k \in ErrorKeys : errors[k] <= failed[k]
    /\ ~ctxDone /\ pc \notin {"run", "record", "account"} => errors = failed

\* A device shown with an error has that error in the counter of the same
\* device, labels and pass: counters move before the set is stored
\* (poller.go:525-527, 551-553).
PublishedErrorIsCounted ==
    \A p \in Phases : \A d \in Devices :
        LET s == store[p][d] IN
        s # Absent /\ s.lastError # NoError => errors[<<p, s.target, s.lastError>>] > 0

\* What mlxlink is asked for by each query's argument vector (runner.go:77-96).
Requested == [eye      |-> {"base", "fec_histogram", "serdes_tx", "eye"},
              combined |-> {"base", "fec_histogram", "serdes_tx"},
              baseline |-> {"base"},
              pcie     |-> {"pcie_eye"}]

\* A snapshot about to be shown as a success carries no section the query that
\* produced it did not ask for: neither one mlxlink volunteered nor one kept
\* from the previous success (poller.go:442-444, 498-503).
OnlyRequestedSections ==
    pc \in {"publish", "announce"} /\ snapshot.lastError = NoError
        => snapshot.data \subseteq Requested[query]

\* The PCIe pass runs over the devices the network pass has just published, and a
\* device that is gone leaves the PCIe store after it left the network store: in
\* between, its PCIe series have no network series beside them, but only until the
\* first PCIe publication of the sweep that dropped it, unless the context is done
\* by then and the stores stay as they are (poller.go:258-265, 285-290, 300-308).
PCIeFollowsNetwork ==
    /\ phase = "pcie" =>
         \A d \in Devices :
            IF \E i \in DOMAIN targets : targets[i].device = d
            THEN store["net"][d] # Absent
                 /\ \E i \in DOMAIN targets : targets[i] = store["net"][d].target
            ELSE store["net"][d] = Absent
    /\ \A d \in Devices :
         store["pcie"][d] # Absent /\ store["net"][d] = Absent =>
            \/ ctxDone
            \/ InSweep /\ ~(phase = "pcie" /\ \E i \in DOMAIN targets : Visited(i))

\* The goroutine is the loop main waits for: no sweep is opened once the context
\* is done, the invocation it then has under way or is about to begin is its last,
\* and no failure is seen of it (poller.go:196-200, 245-265, 329, 377, 420, 478;
\* main.go:136-142).
Loop == INSTANCE Polling
    WITH stage <- IF pc = "run" THEN "running"
                  ELSE IF pc = "done" THEN "done"
                  ELSE IF InSweep THEN "sweeping" ELSE "between",
         blamed <- failed

LoopIsPolling == Loop!Spec

\* The invocations a query and those it may fall back to take at most.
Chain == [eye |-> 3, combined |-> 2, baseline |-> 1, pcie |-> 1]

\* Those of a whole attempt in this pass, and the attempts it has yet to begin.
PerAttempt == Chain[FirstQuery]
AttemptsLeft == IF pc = "seed" THEN Len(targets)
                ELSE IF pc = "collect" THEN Len(targets) - idx + 1
                ELSE Len(targets) - idx

\* The targets of the PCIe pass that is to follow.
PassLeft == IF phase = "net" /\ ShowPCIeEye THEN Len(targets) ELSE 0

\* The most invocations the sweep may still take, the one under way included.
InvocationsLeft ==
    IF InSweep
    THEN PassLeft + PerAttempt * AttemptsLeft + (IF pc = "run" THEN Chain[query] ELSE 0)
    ELSE 0

\* The statements of the attempt under way still to come, and that of a pass.
StagesLeft ==
    CASE pc = "run" -> 4 + Chain[query]
      [] pc = "record" -> 4
      [] pc = "account" -> 3
      [] pc = "publish" -> 2
      [] pc \in {"announce", "seed"} -> 1
      [] OTHER -> 0

\* What is left of a sweep, in its own steps: an attempt has eight at most.
StepsLeft ==
    IF InSweep
    THEN StagesLeft + 8 * AttemptsLeft + 8 * PassLeft
         + (IF phase = "net" /\ ShowPCIeEye THEN 1 ELSE 0)
    ELSE 0

\* A sweep is finite, whatever its queries come to: every statement of it leaves
\* less to do. It takes at most four invocations for each device, three of the fallback
\* and one of the PCIe pass, and the end of each uses one of them up
\* (poller.go:300-314, 355-393; docs/design.md:120).
SweepIsBounded ==
    /\ [](StepsLeft \in Nat /\ InvocationsLeft \in 0..(4 * Len(targets)))
    /\ [][InSweep => StepsLeft' <= StepsLeft /\ InvocationsLeft' <= InvocationsLeft]_vars
    /\ [][Goroutine /\ InSweep => StepsLeft' < StepsLeft]_vars
    /\ [][Goroutine /\ pc = "run" => InvocationsLeft' < InvocationsLeft]_vars

\* A tick that fired while a sweep was running never starts the next one: a
\* slow sweep does not chain into back-to-back invocations
\* (poller.go:207-216).
NoBackToBackSweeps == pc = "wait" /\ ticker = "pending" => ~late

\* Readiness means a scrape would return device data, as the readiness handler
\* says of itself (server.go:82).
ReadyMeansScrapeReturnsData ==
    ready => \E d \in Devices :
        store["net"][d] # Absent /\ store["net"][d].lastSuccess # Never

\* A cancelled context stops the poller, whichever statement it was at and
\* however many ticks keep arriving (poller.go:196-200; main.go:141-142).
ShutdownStopsPoller == ctxDone ~> pc = "done"

\* A sweep under way ends, so the next tick is served (runner.go:116-119
\* bounds each invocation; poller.go:223-235 does not block).
SweepEnds == pc = "discover" ~> pc \in {"newTicker", "wait", "done"}

\* A sweep that discovers a device visits it, whatever the devices before it
\* did, unless the context is cancelled (poller.go:300-314).
EveryTargetVisited ==
    \A d \in Devices :
        pc = "seed" /\ phase = "net" /\ d \in TargetDevices
            ~> ctxDone \/ (pc = "announce" /\ phase = "net" /\ target.device = d)
=============================================================================
