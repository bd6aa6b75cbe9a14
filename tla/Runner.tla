------------------------------- MODULE Runner -------------------------------
(***************************************************************************)
(* One mlxlink invocation: ExecRunner.run, from the start of the child to  *)
(* the reason the caller is given.                                         *)
(*                                                                         *)
(* Four parties meet here. run waits for the child and then for its output *)
(* pipe; os/exec's watching goroutine kills the child when the context is  *)
(* done; the copying goroutine fills a limitedBuffer; and the child writes,*)
(* forks, exits or is signalled as it pleases. A descendant that inherited *)
(* the pipe outlives the child. pc names what run is blocked in.           *)
(*                                                                         *)
(* Time is counted in units, and passes only while run is waiting: the     *)
(* exporter's own steps take none.                                         *)
(*                                                                         *)
(* A definition whose comment begins with "Faulty:" is a slip the code     *)
(* could have made in the definition below it; no action uses it.          *)
(***************************************************************************)
EXTENDS Naturals

CONSTANTS
    Timeout,        \* --command-timeout, in units of the clock
    Limit,          \* maxOutputBytes
    Chunks,         \* how much the child may write at once
    MaxWritten,     \* bound: what the child and its descendants write in all
    MaxTime         \* bound: the last instant of the clock

ASSUME RunnerAssumption ==
    /\ Timeout \in Nat \ {0} /\ Limit \in Nat \ {0}
    /\ Chunks \subseteq Nat \ {0}
    /\ MaxWritten \in Nat /\ MaxTime \in Nat

\* The errors of Cmd.Run that classifyRunError tells apart, and a context's.
StartErrors == {"not_found", "permission", "other"}
ContextErrors == {"canceled", "deadline"}
Errors == StartErrors \cup ContextErrors \cup {"exit", "wait_delay"}
Reasons == {"timeout", "command_not_found", "permission_denied", "exit_error",
            "output_too_large", "unknown"}

VARIABLES
    now,        \* units since the invocation began
    cancelled,  \* the parent's error
    ctxErr,     \* the run context's error: the parent's or the deadline's
    mortal,     \* the child dies as soon as it is killed; FALSE: it may be stuck
                \* in an uninterruptible firmware access
    pc,
    err,        \* what Cmd.Run has to return so far
    result,     \* what run returned: "ok", "cancelled" or a reason
    child,      \* the direct child
    status,     \* how it ended: by itself, or by which signal
    held,       \* a descendant holds the output pipe
    written,    \* bytes written to the pipe so far
    pipe,       \* those not read yet
    buffer,     \* the length of the limitedBuffer
    exceeded,
    watch,      \* the watching goroutine
    watchErr,
    alarm       \* when WaitDelay ends, once it has begun

goroutine == <<pc, err, result>>
context   == <<cancelled, ctxErr, mortal>>
process   == <<child, status, held>>
output    == <<written, pipe, buffer, exceeded>>
watcher   == <<watch, watchErr, alarm>>
vars      == <<now, goroutine, context, process, output, watcher>>

Init ==
    /\ now = 0
    /\ cancelled = FALSE /\ ctxErr = "nil" /\ mortal \in BOOLEAN
    /\ pc = "start" /\ err = "nil" /\ result = "none"
    /\ child = "none" /\ status = "none" /\ held = FALSE
    /\ written = 0 /\ pipe = 0 /\ buffer = 0 /\ exceeded = FALSE
    /\ watch = "none" /\ watchErr = "nil" /\ alarm = 0

-----------------------------------------------------------------------------
(* run                                                                     *)

\* Cmd.Start looks at the context, then for the binary, then forks.
StartRefused ==
    /\ pc = "start" /\ ctxErr # "nil"
    /\ err' = ctxErr /\ pc' = "check"
    /\ UNCHANGED <<now, result, context, process, output, watcher>>

StartFails ==
    /\ pc = "start" /\ ctxErr = "nil"
    /\ err' \in StartErrors /\ pc' = "check"
    /\ UNCHANGED <<now, result, context, process, output, watcher>>

Start ==
    /\ pc = "start" /\ ctxErr = "nil"
    /\ child' = "running" /\ watch' = "waiting" /\ pc' = "wait"
    /\ UNCHANGED <<now, err, result, context, status, held, output, watchErr, alarm>>

\* Process.Wait: only a zero exit status is no error.
Reap ==
    /\ pc = "wait" /\ child = "exited"
    /\ child' = "reaped" /\ pc' = "handover"
    /\ err' = IF status = "success" THEN "nil" ELSE "exit"
    /\ UNCHANGED <<now, result, context, status, held, output, watcher>>

\* Faulty: no WaitDelay is set, so the pipe is waited for without bound
\* (ReturnsInTime, RunReturns).
WaitDelayUnset == MaxTime + 1

\* cmd.WaitDelay.
WaitDelay == Timeout

\* The watching goroutine hands over its error and its timer; run starts a
\* timer of its own when the watch never began.
Handover ==
    /\ pc = "handover"
    /\ watch' = "over"
    /\ err' = IF err = "nil" THEN watchErr ELSE err
    /\ alarm' = IF watch = "waiting" THEN now + WaitDelay ELSE alarm
    /\ pc' = IF watch = "expired" THEN "check" ELSE "pipes"
    /\ UNCHANGED <<now, result, context, process, output, watchErr>>

\* The copying goroutine read to the end of the pipe.
OutputEnds ==
    /\ pc = "pipes" /\ pipe = 0 /\ ~held
    /\ pc' = "check"
    /\ UNCHANGED <<now, err, result, context, process, output, watcher>>

\* WaitDelay is over: the pipe is closed under whoever still holds it.
OutputAbandoned ==
    /\ pc = "pipes" /\ now >= alarm
    /\ err' = IF err = "nil" THEN "wait_delay" ELSE err
    /\ pc' = "check"
    /\ UNCHANGED <<now, result, context, process, output, watcher>>

\* What the error says by itself.
ReasonOf(failure) ==
    CASE failure = "wait_delay" -> "timeout"
      [] failure = "not_found"  -> "command_not_found"
      [] failure = "permission" -> "permission_denied"
      [] failure = "exit"       -> "exit_error"
      [] OTHER                  -> "unknown"

\* Faulty: the deadline is not looked at (ReasonIsTrue).
ClassifyByErrorAlone(failure) == ReasonOf(failure)

\* classifyRunError: the run context first, however the process died.
Classify(failure) == IF ctxErr = "deadline" THEN "timeout" ELSE ReasonOf(failure)

\* The order of the checks: shutdown, then the buffer, then the exit.
Check ==
    /\ pc = "check"
    /\ result' = IF cancelled THEN "cancelled"
                 ELSE IF exceeded THEN "output_too_large"
                 ELSE IF err = "nil" THEN "ok"
                 ELSE Classify(err)
    /\ pc' = "done"
    /\ UNCHANGED <<now, err, context, process, output, watcher>>

-----------------------------------------------------------------------------
(* The watching goroutine and the copying goroutine of os/exec.            *)

\* The context is done: the child is killed, unless it was already reaped, and
\* WaitDelay begins.
WatchKills ==
    /\ watch = "waiting" /\ ctxErr # "nil"
    /\ watch' = "armed" /\ alarm' = now + WaitDelay
    /\ child' = IF child = "running" THEN "killed" ELSE child
    /\ watchErr' = IF child = "reaped" THEN "nil" ELSE ctxErr
    /\ UNCHANGED <<now, goroutine, context, status, held, output>>

\* The child is still not reaped when WaitDelay ends: its pipe is closed.
WatchExpires ==
    /\ watch = "armed" /\ pc = "wait" /\ now >= alarm
    /\ watch' = "expired"
    /\ watchErr' = IF watchErr = "nil" THEN "wait_delay" ELSE watchErr
    /\ UNCHANGED <<now, goroutine, context, process, output, alarm>>

PipeOpen == pc \in {"wait", "handover", "pipes"} /\ watch # "expired"

\* Faulty: what does not fit is dropped unnoticed (AcceptedOutputIsComplete), or
\* kept (TypeOK).
OverflowsUnnoticed(n) == FALSE
KeptWhole(n) == buffer + n

\* limitedBuffer.Write of a chunk of n bytes: whether some of it has to be
\* dropped, and how much is held then.
Overflows(n) == buffer + n > Limit
Kept(n) == IF buffer + n > Limit THEN Limit ELSE buffer + n

Copy ==
    /\ PipeOpen /\ pipe > 0
    /\ \E n \in 1..pipe :
          /\ exceeded' = (exceeded \/ Overflows(n))
          /\ buffer' = Kept(n)
          /\ pipe' = pipe - n
    /\ UNCHANGED <<now, goroutine, context, process, written, watcher>>

-----------------------------------------------------------------------------
(* The child, its descendants and the context.                             *)

Writing == child = "running" \/ held

Writes ==
    /\ Writing /\ PipeOpen
    /\ \E n \in Chunks :
          /\ written + n <= MaxWritten
          /\ written' = written + n /\ pipe' = pipe + n
    /\ UNCHANGED <<now, goroutine, context, process, buffer, exceeded, watcher>>

Forks ==
    /\ child = "running" /\ ~held
    /\ held' = TRUE
    /\ UNCHANGED <<now, goroutine, context, child, status, output, watcher>>

DescendantCloses ==
    /\ held
    /\ held' = FALSE
    /\ UNCHANGED <<now, goroutine, context, child, status, output, watcher>>

\* By itself with an exit status, or by a signal nobody here sent: a crash, the
\* out-of-memory killer, a service manager stopping the whole group.
Exits ==
    /\ child = "running"
    /\ child' = "exited" /\ status' \in {"success", "nonzero", "signal"}
    /\ UNCHANGED <<now, goroutine, context, held, output, watcher>>

KilledDies ==
    /\ child = "killed"
    /\ child' = "exited" /\ status' = "killed"
    /\ UNCHANGED <<now, goroutine, context, held, output, watcher>>

Cancel ==
    /\ ~cancelled /\ pc # "done"
    /\ cancelled' = TRUE
    /\ ctxErr' = IF ctxErr = "nil" THEN "canceled" ELSE ctxErr
    /\ UNCHANGED <<now, mortal, goroutine, process, output, watcher>>

DeadlinePasses ==
    /\ ctxErr = "nil" /\ now >= Timeout /\ pc # "done"
    /\ ctxErr' = "deadline"
    /\ UNCHANGED <<now, goroutine, cancelled, mortal, process, output, watcher>>

\* Time passes while run waits for the child or for the pipe, and no timer that
\* is due has yet to fire.
Waiting ==
    \/ /\ pc = "wait" /\ child = "running" /\ ctxErr = "nil" /\ now < Timeout
    \/ /\ pc = "wait" /\ child = "killed" /\ ~mortal
       /\ watch = "expired" \/ now < alarm
    \/ /\ pc = "pipes" /\ held /\ now < alarm
       /\ ctxErr # "nil" \/ now < Timeout

Elapse ==
    /\ Waiting /\ now < MaxTime
    /\ now' = now + 1
    /\ UNCHANGED <<goroutine, context, process, output, watcher>>

Returned == pc = "done" /\ UNCHANGED vars

Run ==
    \/ StartRefused \/ StartFails \/ Start \/ Reap \/ Handover
    \/ OutputEnds \/ OutputAbandoned \/ Check

Exec == WatchKills \/ WatchExpires \/ Copy

Child == Writes \/ Forks \/ DescendantCloses \/ Exits

Next ==
    \/ Run \/ Exec \/ Child
    \/ KilledDies \/ Cancel \/ DeadlinePasses \/ Elapse \/ Returned

Spec == Init /\ [][Next]_vars

\* The exporter's goroutines run, time passes, and a killed child dies sooner
\* or later. Nothing is assumed of a child, or of a descendant, left alone.
FairSpec ==
    /\ Spec
    /\ WF_vars(Run) /\ WF_vars(Exec) /\ WF_vars(KilledDies)
    /\ WF_vars(DeadlinePasses) /\ WF_vars(Elapse)

-----------------------------------------------------------------------------
(* Properties.                                                             *)

\* Type correctness of the invocation's state (runner.go:98-136, 170-196).
TypeOK ==
    /\ now \in Nat /\ alarm \in Nat
    /\ cancelled \in BOOLEAN /\ ctxErr \in {"nil"} \cup ContextErrors
    /\ mortal \in BOOLEAN
    /\ pc \in {"start", "wait", "handover", "pipes", "check", "done"}
    /\ err \in {"nil"} \cup Errors
    /\ result \in {"none", "ok", "cancelled"} \cup Reasons
    /\ child \in {"none", "running", "killed", "exited", "reaped"}
    /\ status \in {"none", "success", "nonzero", "signal", "killed"}
    /\ held \in BOOLEAN
    /\ written \in Nat /\ pipe \in Nat /\ buffer \in 0..Limit
    /\ exceeded \in BOOLEAN
    /\ watch \in {"none", "waiting", "armed", "expired", "over"}
    /\ watchErr \in {"nil"} \cup Errors

\* Output is accepted only when mlxlink exited with status zero, everybody who
\* held the pipe has closed it, and every byte of it is in the buffer: neither
\* a truncation, nor a kill, nor a pipe abandoned to a descendant passes for an
\* answer (runner.go:119-131, 173-190).
AcceptedOutputIsComplete ==
    result = "ok" =>
        /\ status = "success"
        /\ ~held
        /\ ~exceeded /\ buffer = written

\* A rejection, which makes the poller try a smaller query, is the child's own
\* doing: it is never the death the exporter's kill brought about, at the
\* deadline or at shutdown. What is called a timeout took at least the timeout,
\* also when it was the descendant's pipe and not the deadline that ended it
\* (runner.go:122-124, 148-156).
ReasonIsTrue ==
    /\ result = "exit_error" => status \in {"nonzero", "signal"}
    /\ result = "timeout" => now >= Timeout

\* A child that dies when killed bounds the invocation: the timeout and one
\* WaitDelay after it, whatever its descendants do (runner.go:116-119).
ReturnsInTime == mortal /\ pc = "done" => now <= 2 * Timeout

\* An invocation returns, whatever a child and its descendants do
\* (runner.go:99-119).
RunReturns == pc = "start" ~> pc = "done"
=============================================================================
