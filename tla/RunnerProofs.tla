---------------------------- MODULE RunnerProofs ----------------------------
(***************************************************************************)
(* Proofs about one mlxlink invocation, for every timeout, output limit    *)
(* and pattern of writes.                                                  *)
(***************************************************************************)
EXTENDS Runner, TLAPS

\* What holds of the process while run is where it is.
Stage ==
    /\ child \in {"none", "running", "killed"} <=> status = "none"
    /\ pc = "start" <=> child = "none" /\ pc # "check" /\ pc # "done"
    /\ pc = "wait" => child # "reaped"
    /\ pc \in {"handover", "pipes"} => child = "reaped"
    /\ pc \in {"check", "done"} => child \in {"none", "reaped"}
    /\ pc \in {"handover", "pipes", "check", "done"} /\ err = "nil" => status = "success"
    /\ pc \in {"check", "done"} /\ err = "nil" => pipe = 0 /\ ~held
    /\ result # "none" <=> pc = "done"

\* Who killed the child, and on what grounds.
Kill ==
    /\ status = "killed" \/ child = "killed" => ctxErr # "nil"
    /\ ctxErr = "canceled" => cancelled
    /\ watchErr \in {"nil"} \cup ContextErrors
    /\ watch \in {"armed", "expired"} /\ pc = "wait" => watchErr # "nil"
    /\ watch = "expired" => watchErr # "nil"
    /\ err = "exit" => status \in {"nonzero", "signal", "killed"}

\* Nothing is lost between the pipe and the buffer but what overflowed.
Output == ~exceeded => written = buffer + pipe

\* Timers are not early.
Clock ==
    /\ ctxErr = "deadline" => now >= Timeout
    /\ pc \in {"wait", "handover"} => watch \in {"waiting", "armed", "expired"}
    /\ watch = "waiting" => pc \in {"wait", "handover"}
    /\ pc = "pipes" \/ watch \in {"armed", "expired"} => alarm >= Timeout
    /\ err = "wait_delay" => now >= Timeout

\* What run returned follows from what it saw.
Verdict ==
    /\ result = "ok" => err = "nil" /\ ~exceeded
    /\ result = "exit_error" => err = "exit" /\ status # "killed"
    /\ result = "timeout" => now >= Timeout

Inv == TypeOK /\ Stage /\ Kill /\ Output /\ Clock /\ Verdict

-----------------------------------------------------------------------------

LEMMA InitInv == Init => Inv
<1> SUFFICES ASSUME Init PROVE Inv
  OBVIOUS
<1>1. TypeOK
  <2>1. now \in Nat /\ alarm \in Nat /\ written \in Nat /\ pipe \in Nat
    BY DEF Init
  <2>2. buffer \in 0..Limit
    BY RunnerAssumption DEF Init
  <2>3. cancelled \in BOOLEAN /\ held \in BOOLEAN /\ exceeded \in BOOLEAN
    BY DEF Init
  <2> QED
    BY <2>1, <2>2, <2>3 DEF Init, TypeOK
<1>2. Stage /\ Kill
  BY DEF Init, Stage, Kill
<1>3. Output /\ Clock /\ Verdict
  BY DEF Init, Output, Clock, Verdict
<1> QED
  BY <1>1, <1>2, <1>3 DEF Inv

LEMMA StillInv == Inv /\ UNCHANGED vars => Inv'
BY DEF Inv, TypeOK, Stage, Kill, Output, Clock, Verdict, vars, goroutine, context, process,
       output, watcher

LEMMA TypeStep == TypeOK /\ [Next]_vars => TypeOK'
<1> SUFFICES ASSUME TypeOK, [Next]_vars PROVE TypeOK'
  OBVIOUS
<1> USE RunnerAssumption DEF TypeOK, goroutine, context, process, output, watcher
<1>1. CASE StartRefused \/ StartFails \/ Start
  BY <1>1 DEF StartRefused, StartFails, Start, Errors
<1>2. CASE Reap \/ OutputEnds \/ OutputAbandoned
  BY <1>2 DEF Reap, OutputEnds, OutputAbandoned, Errors
<1>3. CASE Handover
  BY <1>3 DEF Handover, WaitDelay
<1>4. CASE Check
  <2>1. Classify(err) \in Reasons
    BY DEF Classify, ReasonOf, Reasons
  <2> QED
    BY <1>4, <2>1 DEF Check, Reasons
<1>5. CASE WatchKills \/ WatchExpires
  BY <1>5 DEF WatchKills, WatchExpires, WaitDelay, Errors
<1>6. CASE Copy
  <2>1. PICK n \in 1..pipe : /\ buffer' = Kept(n) /\ pipe' = pipe - n
                             /\ exceeded' = (exceeded \/ Overflows(n))
    BY <1>6 DEF Copy
  <2>2. buffer' \in 0..Limit /\ pipe' \in Nat
    BY <2>1 DEF Kept
  <2>3. exceeded' \in BOOLEAN
    BY <2>1 DEF Overflows
  <2> QED
    BY <1>6, <2>2, <2>3 DEF Copy
<1>7. CASE Writes
  BY <1>7 DEF Writes
<1>8. CASE Forks \/ DescendantCloses \/ Exits \/ KilledDies
  <2>1. CASE Forks
    BY <2>1 DEF Forks
  <2>2. CASE DescendantCloses
    <3>1. held' \in BOOLEAN
      BY <2>2 DEF DescendantCloses
    <3>2. UNCHANGED <<now, goroutine, context, child, status, output, watcher>>
      BY <2>2, Zenon DEF DescendantCloses
    <3> QED
      BY <3>1, <3>2
  <2>3. CASE Exits
    BY <2>3 DEF Exits
  <2>4. CASE KilledDies
    BY <2>4 DEF KilledDies
  <2> QED
    BY <1>8, <2>1, <2>2, <2>3, <2>4
<1>9. CASE Cancel \/ DeadlinePasses \/ Elapse
  <2>1. CASE Cancel
    BY <2>1 DEF Cancel, ContextErrors
  <2>2. CASE DeadlinePasses
    BY <2>2 DEF DeadlinePasses, ContextErrors
  <2>3. CASE Elapse
    BY <2>3 DEF Elapse
  <2> QED
    BY <1>9, <2>1, <2>2, <2>3
<1>10. CASE UNCHANGED vars
  BY <1>10 DEF vars
<1> QED
  BY <1>1, <1>2, <1>3, <1>4, <1>5, <1>6, <1>7, <1>8, <1>9, <1>10
     DEF Next, Run, Exec, Child, Returned

LEMMA StageStep == Inv /\ [Next]_vars => Stage'
<1> SUFFICES ASSUME Inv, [Next]_vars PROVE Stage'
  OBVIOUS
<1> USE DEF Inv, TypeOK, Stage, Kill, goroutine, context, process, output, watcher
<1>1. CASE StartRefused \/ StartFails \/ Start
  BY <1>1 DEF StartRefused, StartFails, Start, ContextErrors, StartErrors
<1>2. CASE Reap \/ OutputEnds \/ OutputAbandoned
  BY <1>2 DEF Reap, OutputEnds, OutputAbandoned
<1>3. CASE Handover
  BY <1>3 DEF Handover
<1>4. CASE Check
  <2>1. Classify(err) # "none"
    BY DEF Classify, ReasonOf
  <2> QED
    BY <1>4, <2>1 DEF Check
<1>5. CASE WatchKills \/ WatchExpires
  BY <1>5 DEF WatchKills, WatchExpires
<1>6. CASE Copy
  BY <1>6 DEF Copy, PipeOpen
<1>7. CASE Writes
  BY <1>7 DEF Writes, Writing, PipeOpen
<1>8. CASE Forks \/ DescendantCloses \/ Exits \/ KilledDies
  BY <1>8 DEF Forks, DescendantCloses, Exits, KilledDies
<1>9. CASE Cancel \/ DeadlinePasses \/ Elapse
  BY <1>9 DEF Cancel, DeadlinePasses, Elapse
<1>10. CASE UNCHANGED vars
  BY <1>10 DEF vars
<1> QED
  BY <1>1, <1>2, <1>3, <1>4, <1>5, <1>6, <1>7, <1>8, <1>9, <1>10
     DEF Next, Run, Exec, Child, Returned

LEMMA KillStep == Inv /\ [Next]_vars => Kill'
<1> SUFFICES ASSUME Inv, [Next]_vars PROVE Kill'
  OBVIOUS
<1> USE DEF Inv, TypeOK, Stage, Kill, ContextErrors, goroutine, context, process, output,
            watcher
<1>1. CASE StartRefused \/ StartFails \/ Start
  BY <1>1 DEF StartRefused, StartFails, Start, StartErrors
<1>2. CASE Reap \/ OutputEnds \/ OutputAbandoned
  BY <1>2 DEF Reap, OutputEnds, OutputAbandoned
<1>3. CASE Handover
  BY <1>3 DEF Handover
<1>4. CASE Check
  BY <1>4 DEF Check
<1>5. CASE WatchKills \/ WatchExpires
  BY <1>5 DEF WatchKills, WatchExpires
<1>6. CASE Copy \/ Writes
  BY <1>6 DEF Copy, Writes
<1>7. CASE Forks \/ DescendantCloses \/ Exits \/ KilledDies
  BY <1>7 DEF Forks, DescendantCloses, Exits, KilledDies
<1>8. CASE Cancel \/ DeadlinePasses \/ Elapse
  BY <1>8 DEF Cancel, DeadlinePasses, Elapse
<1>9. CASE UNCHANGED vars
  BY <1>9 DEF vars
<1> QED
  BY <1>1, <1>2, <1>3, <1>4, <1>5, <1>6, <1>7, <1>8, <1>9
     DEF Next, Run, Exec, Child, Returned

LEMMA OutputStep == Inv /\ [Next]_vars => Output'
<1> SUFFICES ASSUME Inv, [Next]_vars, ~exceeded' PROVE written' = buffer' + pipe'
  BY DEF Output
<1> USE DEF Inv, TypeOK, Output, goroutine, context, process, output, watcher
<1>1. CASE Copy
  <2>1. PICK n \in 1..pipe : /\ buffer' = Kept(n) /\ pipe' = pipe - n
                             /\ exceeded' = (exceeded \/ Overflows(n))
    BY <1>1 DEF Copy
  <2>2. ~exceeded /\ ~Overflows(n)
    BY <2>1
  <2>3. buffer' = buffer + n
    BY <2>1, <2>2 DEF Kept, Overflows
  <2>4. written' = written
    BY <1>1 DEF Copy
  <2> QED
    BY <2>1, <2>2, <2>3, <2>4
<1>2. CASE Writes
  <2>1. PICK n \in Chunks : written' = written + n /\ pipe' = pipe + n
    BY <1>2 DEF Writes
  <2> QED
    BY <1>2, <2>1, RunnerAssumption DEF Writes
<1>3. CASE ~Copy /\ ~Writes
  <2>1. UNCHANGED output
    BY <1>3 DEF Next, Run, Exec, Child, Returned, StartRefused, StartFails, Start, Reap,
         Handover, OutputEnds, OutputAbandoned, Check, WatchKills, WatchExpires, Forks,
         DescendantCloses, Exits, KilledDies, Cancel, DeadlinePasses, Elapse, vars
  <2> QED
    BY <2>1
<1> QED
  BY <1>1, <1>2, <1>3

LEMMA ClockStep == Inv /\ [Next]_vars => Clock'
<1> SUFFICES ASSUME Inv, [Next]_vars PROVE Clock'
  OBVIOUS
<1> USE RunnerAssumption
    DEF Inv, TypeOK, Kill, Clock, ContextErrors, goroutine, context, process, output, watcher
<1>1. CASE StartRefused \/ StartFails \/ Start
  BY <1>1 DEF StartRefused, StartFails, Start, StartErrors
<1>2. CASE Reap \/ OutputEnds \/ OutputAbandoned
  BY <1>2 DEF Reap, OutputEnds, OutputAbandoned
<1>3. CASE Check \/ Copy \/ Writes \/ Forks \/ DescendantCloses \/ Exits \/ KilledDies
  BY <1>3 DEF Check, Copy, Writes, Forks, DescendantCloses, Exits, KilledDies
<1>4. CASE WatchKills \/ WatchExpires
  BY <1>4 DEF WatchKills, WatchExpires, WaitDelay
<1>5. CASE Cancel \/ DeadlinePasses \/ Elapse
  BY <1>5 DEF Cancel, DeadlinePasses, Elapse
<1>6. CASE UNCHANGED vars
  BY <1>6 DEF vars
<1>7. CASE Handover
  BY <1>7 DEF Handover, WaitDelay
<1> QED
  BY <1>1, <1>2, <1>3, <1>4, <1>5, <1>6, <1>7 DEF Next, Run, Exec, Child, Returned

LEMMA VerdictStep == Inv /\ [Next]_vars => Verdict'
<1> SUFFICES ASSUME Inv, [Next]_vars PROVE Verdict'
  OBVIOUS
<1> USE DEF Inv, Verdict, Stage
<1>1. CASE Check
  <2>1. /\ result' = IF cancelled THEN "cancelled"
                     ELSE IF exceeded THEN "output_too_large"
                     ELSE IF err = "nil" THEN "ok"
                     ELSE Classify(err)
        /\ UNCHANGED <<now, err, exceeded, status>>
    BY <1>1 DEF Check, process, output
  <2>2. Classify(err) # "ok"
    BY DEF Classify, ReasonOf
  <2>3. Classify(err) = "exit_error" => err = "exit" /\ ctxErr # "deadline"
    BY DEF Classify, ReasonOf
  <2>4. Classify(err) = "timeout" => ctxErr = "deadline" \/ err = "wait_delay"
    BY DEF Classify, ReasonOf
  <2>5. ~cancelled /\ ctxErr # "deadline" => status # "killed"
    BY DEF Kill, TypeOK, ContextErrors
  <2> QED
    BY <2>1, <2>2, <2>3, <2>4, <2>5 DEF Clock
<1>2. CASE ~Check /\ ~Elapse
  <2>1. result' = "none" \/ UNCHANGED <<now, err, exceeded, status, result>>
    <3>1. CASE pc = "done"
      BY <1>2, <3>1 DEF Next, Run, Exec, Child, Returned, StartRefused, StartFails, Start,
           Reap, Handover, OutputEnds, OutputAbandoned, WatchKills, WatchExpires, Copy,
           PipeOpen, Writes, Forks, DescendantCloses, Exits, KilledDies, Cancel,
           DeadlinePasses, vars, goroutine, context, process, output, watcher
    <3>2. CASE pc # "done"
      BY <1>2, <3>2 DEF Next, Run, Exec, Child, Returned, StartRefused, StartFails, Start,
           Reap, Handover, OutputEnds, OutputAbandoned, WatchKills, WatchExpires, Copy,
           Writes, Forks, DescendantCloses, Exits, KilledDies, Cancel,
           DeadlinePasses, vars, goroutine
    <3> QED
      BY <3>1, <3>2
  <2> QED
    BY <2>1
<1>3. CASE Elapse
  BY <1>3 DEF Elapse, Waiting, goroutine
<1> QED
  BY <1>1, <1>2, <1>3

\* The inductive invariant of an invocation: its type, and how the child, the
\* kill, the output, the timers and the verdict go together.
THEOREM Invariant == Spec => []Inv
<1>1. Inv /\ [Next]_vars => Inv'
  BY TypeStep, StageStep, KillStep, OutputStep, ClockStep, VerdictStep DEF Inv
<1> QED
  BY <1>1, InitInv, PTL DEF Spec

\* Every variable of an invocation keeps its type.
THEOREM TypeCorrect == Spec => []TypeOK
<1>1. Inv => TypeOK
  BY DEF Inv
<1> QED
  BY <1>1, Invariant, PTL

\* Truncated or abandoned output is never accepted.
THEOREM AcceptedOutputIsCompleteHolds == Spec => []AcceptedOutputIsComplete
<1>1. Inv => AcceptedOutputIsComplete
  <2> SUFFICES ASSUME Inv, result = "ok" PROVE AcceptedOutputIsComplete
    BY DEF AcceptedOutputIsComplete
  <2>1. err = "nil" /\ ~exceeded /\ pc = "done"
    BY DEF Inv, Verdict, Stage
  <2>2. status = "success" /\ pipe = 0 /\ ~held
    BY <2>1 DEF Inv, Stage
  <2>3. written = buffer + 0
    BY <2>1, <2>2 DEF Inv, Output
  <2> QED
    BY <2>1, <2>2, <2>3 DEF AcceptedOutputIsComplete, Inv, TypeOK
<1> QED
  BY <1>1, Invariant, PTL

\* The exporter's own kill never reads as a rejection, and no timeout is early.
THEOREM ReasonIsTrueHolds == Spec => []ReasonIsTrue
<1>1. Inv => ReasonIsTrue
  BY DEF Inv, Kill, Verdict, ReasonIsTrue
<1> QED
  BY <1>1, Invariant, PTL

-----------------------------------------------------------------------------
(* How long an invocation may take.                                        *)

Bounded ==
    /\ now <= 2 * Timeout
    /\ pc \in {"start", "wait", "handover"} => now <= Timeout
    /\ alarm <= 2 * Timeout

LEMMA BoundedStep ==
    ASSUME mortal, Inv, Bounded, [Next]_vars PROVE Bounded'
<1> USE RunnerAssumption DEF Inv, TypeOK, Bounded
<1>1. CASE Handover
  <2>1. now <= Timeout
    BY <1>1 DEF Handover
  <2> QED
    BY <1>1, <2>1 DEF Handover, WaitDelay
<1>2. CASE WatchKills
  <2>1. now <= Timeout
    BY <1>2 DEF WatchKills, Clock
  <2> QED
    BY <1>2, <2>1 DEF WatchKills, WaitDelay, goroutine
<1>3. CASE Elapse
  <2>1. now < Timeout \/ (pc = "pipes" /\ now < alarm)
    BY <1>3 DEF Elapse, Waiting
  <2> QED
    BY <1>3, <2>1 DEF Elapse, goroutine, watcher
<1>4. CASE StartRefused \/ StartFails \/ Start \/ Reap \/ OutputEnds \/ OutputAbandoned \/ Check
  BY <1>4 DEF StartRefused, StartFails, Start, Reap, OutputEnds, OutputAbandoned, Check, watcher
<1>5. CASE WatchExpires \/ Copy \/ Writes \/ Forks \/ DescendantCloses \/ Exits \/ KilledDies
  BY <1>5 DEF WatchExpires, Copy, Writes, Forks, DescendantCloses, Exits, KilledDies,
       goroutine, watcher
<1>6. CASE Cancel \/ DeadlinePasses \/ UNCHANGED vars
  BY <1>6 DEF Cancel, DeadlinePasses, vars, goroutine, watcher
<1> QED
  BY <1>1, <1>2, <1>3, <1>4, <1>5, <1>6 DEF Next, Run, Exec, Child, Returned

\* A child does not change its nature.
LEMMA MortalStays == [Next]_vars => mortal' = mortal
<1> SUFFICES ASSUME [Next]_vars PROVE mortal' = mortal
  OBVIOUS
<1>1. CASE StartRefused \/ StartFails \/ Start \/ Reap \/ Handover \/ OutputEnds
           \/ OutputAbandoned \/ Check
  BY <1>1 DEF StartRefused, StartFails, Start, Reap, Handover, OutputEnds,
       OutputAbandoned, Check, context
<1>2. CASE WatchKills \/ WatchExpires \/ Copy \/ Writes \/ Forks \/ DescendantCloses
           \/ Exits \/ KilledDies
  BY <1>2 DEF WatchKills, WatchExpires, Copy, Writes, Forks, DescendantCloses, Exits,
       KilledDies, context
<1>3. CASE Cancel \/ DeadlinePasses \/ Elapse \/ UNCHANGED vars
  BY <1>3 DEF Cancel, DeadlinePasses, Elapse, vars, context
<1> QED
  BY <1>1, <1>2, <1>3 DEF Next, Run, Exec, Child, Returned

\* When a killed child dies at once, an invocation takes at most the timeout and
\* one WaitDelay, whatever its descendants do (runner.go:116-119).
THEOREM ReturnsInTimeHolds == Spec => []ReturnsInTime
<1>1. Init => (mortal => Bounded)
  BY RunnerAssumption DEF Init, Bounded
<1>2. Inv /\ (mortal => Bounded) /\ [Next]_vars => (mortal => Bounded)'
  BY BoundedStep, MortalStays
<1>3. (mortal => Bounded) => ReturnsInTime
  BY DEF Bounded, ReturnsInTime
<1> QED
  BY <1>1, <1>2, <1>3, Invariant, PTL DEF Spec
=============================================================================
