------------------------------ MODULE Exporter ------------------------------
(***************************************************************************)
(* The life of the process: main reads its configuration, starts the       *)
(* poller and the HTTP server, waits for a signal or for the server to     *)
(* fail, and then takes both down.                                         *)
(*                                                                         *)
(* Four goroutines meet here: main, the poller, the one that serves, and   *)
(* the one behind signal.NotifyContext that turns a signal into a          *)
(* cancelled context some time after it arrived. Outside are the signals,  *)
(* the clients and the mlxlink child of the invocation under way. The      *)
(* poller is reduced to what shutdown depends on: whether an invocation is *)
(* under way and what is made of its child's death. Poller models the rest.*)
(*                                                                         *)
(* A definition whose comment begins with "Faulty:" is a slip the code     *)
(* could have made in the definition below it; no action uses it.          *)
(***************************************************************************)
EXTENDS Configuration

CONSTANTS
    GroupSignals,   \* a stop signal also reaches the child: a terminal's
                    \* interrupt, or systemd's KillMode=control-group
    MaxSignals,     \* bound: signals that arrive
    MaxRequests     \* bound: requests in flight at once

ASSUME ExporterAssumption ==
    GroupSignals \in BOOLEAN /\ MaxSignals \in Nat /\ MaxRequests \in Nat

VARIABLES
    settings,   \* the environment and the command line
    process,    \* "up", "exited" through os.Exit, "killed" by a signal, "panicked"
    exitCode,
    main,       \* the statement main is blocked in
    ctxDone,
    notified,   \* a signal is in NotifyContext's channel
    registered, \* signals go to that channel rather than kill the process
    poller,     \* "none", "idle", "running" an invocation, or "done"
    ticking,    \* it has made its ticker, after the first sweep
    child,      \* mlxlink: "none", "alive", or dead: "ended", "killed" by the
                \* exporter or "signalled" with it
    serving,    \* ListenAndServe: "none", "starting", "listening" or "returned"
    errCh,      \* the server's error is in the channel
    closing,    \* Shutdown has been called
    requests,   \* requests in flight
    \* history
    arrived,    \* signals that arrived
    blamed      \* errors counted for a child a stop signal had ended

signals == <<ctxDone, notified, registered, arrived>>
polling == <<poller, ticking, child, blamed>>
server  == <<serving, errCh, closing, requests>>
vars    == <<settings, process, exitCode, main, signals, polling, server>>

Up == process = "up"

Init ==
    /\ settings \in Settings
    /\ process = "up" /\ exitCode = 0 /\ main = "startup"
    /\ ctxDone = FALSE /\ notified = FALSE /\ registered = FALSE /\ arrived = 0
    /\ poller = "none" /\ ticking = FALSE /\ child = "none" /\ blamed = 0
    /\ serving = "none" /\ errCh = FALSE /\ closing = FALSE /\ requests = 0

-----------------------------------------------------------------------------
(* main                                                                    *)

\* Help, the version, a bad flag or a missing binary: nothing has been started.
ExitEarly ==
    /\ Up /\ main = "startup"
    /\ \/ Parse(settings) = "help" /\ exitCode' = 0
       \/ Parse(settings) = "error" /\ exitCode' = 2
       \/ Parse(settings) = "config" /\ settings.version /\ exitCode' = 0
       \/ Parse(settings) = "config" /\ ~settings.version /\ ~settings.mlxlink /\ exitCode' = 1
    /\ process' = "exited"
    /\ UNCHANGED <<settings, main, signals, polling, server>>

StartPoller ==
    /\ Up /\ main = "startup"
    /\ Parse(settings) = "config" /\ ~settings.version /\ settings.mlxlink
    /\ main' = "server" /\ registered' = TRUE /\ poller' = "idle"
    /\ UNCHANGED <<settings, process, exitCode, ctxDone, notified, arrived, ticking, child, blamed,
                   server>>

\* The poller is running when net/http is given the paths.
StartServer ==
    /\ Up /\ main = "server"
    /\ IF PathsUsable(settings)
       THEN main' = "select" /\ serving' = "starting" /\ UNCHANGED <<process, exitCode>>
       ELSE process' = "panicked" /\ exitCode' = 2 /\ UNCHANGED <<main, serving>>
    /\ UNCHANGED <<settings, signals, polling, errCh, closing, requests>>

SignalSeen ==
    /\ Up /\ main = "select" /\ ctxDone
    /\ main' = "stop"
    /\ UNCHANGED <<settings, process, exitCode, signals, polling, server>>

\* Faulty: the server's error does not reach the exit code (CleanExit).
ServerFailureIgnored ==
    /\ Up /\ main = "select" /\ errCh
    /\ main' = "stop" /\ errCh' = FALSE
    /\ UNCHANGED <<settings, process, exitCode, signals, polling, serving, closing, requests>>

ServerFailureSeen ==
    /\ Up /\ main = "select" /\ errCh
    /\ main' = "stop" /\ errCh' = FALSE /\ exitCode' = 1
    /\ UNCHANGED <<settings, process, signals, polling, serving, closing, requests>>

\* Faulty: stop is left to the deferred call, which os.Exit skips
\* (ShutdownCompletes).
StopDeferred ==
    /\ Up /\ main = "stop"
    /\ main' = "wait"
    /\ UNCHANGED <<settings, process, exitCode, signals, polling, server>>

\* stop cancels the context and gives the signals back their default action.
Stop ==
    /\ Up /\ main = "stop"
    /\ main' = "wait" /\ ctxDone' = TRUE /\ registered' = FALSE
    /\ UNCHANGED <<settings, process, exitCode, notified, arrived, polling, server>>

\* Faulty: the server is shut down without waiting (ExitLeavesNoChild).
WaitNotAtAll ==
    /\ Up /\ main = "wait"
    /\ main' = "shutdown" /\ closing' = TRUE
    /\ UNCHANGED <<settings, process, exitCode, signals, polling, serving, errCh, requests>>

\* wg.Wait, and the call of Shutdown, which closes the listener.
WaitForPoller ==
    /\ Up /\ main = "wait" /\ poller = "done"
    /\ main' = "shutdown" /\ closing' = TRUE
    /\ UNCHANGED <<settings, process, exitCode, signals, polling, serving, errCh, requests>>

\* Shutdown gives up on the requests still in flight after ten seconds.
ShutdownTimesOut ==
    /\ Up /\ main = "shutdown" /\ requests > 0
    /\ process' = "exited" /\ exitCode' = 1
    /\ UNCHANGED <<settings, main, signals, polling, server>>

ShutdownCompleted ==
    /\ Up /\ main = "shutdown" /\ requests = 0
    /\ process' = "exited"
    /\ UNCHANGED <<settings, exitCode, main, signals, polling, server>>

-----------------------------------------------------------------------------
(* Signals. Between NotifyContext and stop, one fills the channel whose    *)
(* goroutine cancels the context later; otherwise it kills the process.    *)

SignalArrives ==
    /\ Up /\ arrived < MaxSignals
    /\ arrived' = arrived + 1
    /\ IF registered THEN notified' = TRUE /\ UNCHANGED process
                     ELSE process' = "killed" /\ UNCHANGED notified
    /\ child' = IF GroupSignals /\ child = "alive" THEN "signalled" ELSE child
    /\ UNCHANGED <<settings, exitCode, main, ctxDone, registered, poller, ticking, blamed, server>>

ContextCancelled ==
    /\ Up /\ notified /\ ~ctxDone
    /\ ctxDone' = TRUE
    /\ UNCHANGED <<settings, process, exitCode, main, notified, registered, arrived, polling, server>>

-----------------------------------------------------------------------------
(* The poller, and the child of its current invocation.                    *)

\* Run makes its ticker after the first sweep, whole or cut short; a ticker
\* panics over an interval that is not positive.
NewTicker ==
    /\ Up /\ poller = "idle" /\ ~ticking
    /\ IF Given(settings, "poll-interval") <= 0
       THEN process' = "panicked" /\ exitCode' = 2 /\ UNCHANGED ticking
       ELSE ticking' = TRUE /\ UNCHANGED <<process, exitCode>>
    /\ UNCHANGED <<settings, main, signals, poller, child, blamed, server>>

PollerReturns ==
    /\ Up /\ poller = "idle" /\ ticking /\ ctxDone
    /\ poller' = "done"
    /\ UNCHANGED <<settings, process, exitCode, main, signals, ticking, child, blamed, server>>

\* Faulty: the ticker's branch is taken with the context done (PollerIsPolling).
StartsAfterStop ==
    /\ Up /\ poller = "idle"
    /\ poller' = "running" /\ child' = "alive"
    /\ UNCHANGED <<settings, process, exitCode, main, signals, ticking, blamed, server>>

\* Neither a sweep nor a child is started once the context is done.
InvocationStarts ==
    /\ Up /\ poller = "idle" /\ ~ctxDone
    /\ poller' = "running" /\ child' = "alive"
    /\ UNCHANGED <<settings, process, exitCode, main, signals, ticking, blamed, server>>

ChildKilled ==
    /\ Up /\ child = "alive" /\ ctxDone
    /\ child' = "killed"
    /\ UNCHANGED <<settings, process, exitCode, main, signals, poller, ticking, blamed, server>>

ChildEnds ==
    /\ child = "alive"
    /\ child' = "ended"
    /\ UNCHANGED <<settings, process, exitCode, main, signals, poller, ticking, blamed, server>>

\* Faulty: an error is counted before the context is looked at
\* (StoppingCountsNoError).
BlamedFirst == IF child \in {"signalled", "killed"} THEN blamed + 1 ELSE blamed

\* A child that died of a signal has failed, unless the context is done. In the
\* code this is at once on a baseline or PCIe query; a larger one is counted after
\* its fallback has returned with the context still open.
Blamed == IF child \in {"signalled", "killed"} /\ ~ctxDone THEN blamed + 1 ELSE blamed

InvocationReturns ==
    /\ Up /\ poller = "running" /\ child \in {"ended", "killed", "signalled"}
    /\ poller' = "idle" /\ child' = "none" /\ blamed' = Blamed
    /\ UNCHANGED <<settings, process, exitCode, main, signals, ticking, server>>

-----------------------------------------------------------------------------
(* The server and its clients.                                             *)

\* Binding fails, or accepting does: the error is sent to main.
ServerFails ==
    /\ Up /\ serving \in {"starting", "listening"} /\ ~closing
    /\ serving' = "returned" /\ errCh' = TRUE
    /\ UNCHANGED <<settings, process, exitCode, main, signals, polling, closing, requests>>

Listens ==
    /\ Up /\ serving = "starting" /\ ~closing
    /\ serving' = "listening"
    /\ UNCHANGED <<settings, process, exitCode, main, signals, polling, errCh, closing, requests>>

\* ErrServerClosed is no error, also when Shutdown was called first.
ServerClosed ==
    /\ Up /\ serving \in {"starting", "listening"} /\ closing
    /\ serving' = "returned"
    /\ UNCHANGED <<settings, process, exitCode, main, signals, polling, errCh, closing, requests>>

RequestArrives ==
    /\ Up /\ serving = "listening" /\ ~closing /\ requests < MaxRequests
    /\ requests' = requests + 1
    /\ UNCHANGED <<settings, process, exitCode, main, signals, polling, serving, errCh, closing>>

RequestAnswered ==
    /\ Up /\ requests > 0
    /\ requests' = requests - 1
    /\ UNCHANGED <<settings, process, exitCode, main, signals, polling, serving, errCh, closing>>

\* The process is gone, and so is its child, which nobody waits for.
Gone == ~Up /\ child # "alive" /\ UNCHANGED vars

Main ==
    \/ StartPoller \/ StartServer \/ SignalSeen \/ ServerFailureSeen \/ Stop \/ WaitForPoller
    \/ ShutdownTimesOut \/ ShutdownCompleted

Polls == NewTicker \/ PollerReturns \/ ChildKilled \/ InvocationReturns

Next ==
    \/ Main \/ ExitEarly \/ SignalArrives \/ ContextCancelled
    \/ Polls \/ InvocationStarts \/ ChildEnds
    \/ ServerFails \/ Listens \/ ServerClosed \/ RequestArrives \/ RequestAnswered
    \/ Gone

Spec == Init /\ [][Next]_vars

\* The goroutines are scheduled and a killed child is reaped. A child left
\* alone may run on, a client may never finish, and no signal need come. The
\* poller, back at its ticker, does not start invocations for ever while the
\* context is done; nor does main pass over a channel that stays ready.
FairSpec ==
    /\ Spec
    /\ WF_vars(Main) /\ WF_vars(Polls) /\ WF_vars(ContextCancelled)

-----------------------------------------------------------------------------
(* Properties.                                                             *)

\* Type correctness of the process's state (main.go:79-153).
TypeOK ==
    /\ settings \in Settings
    /\ process \in {"up", "exited", "killed", "panicked"} /\ exitCode \in {0, 1, 2}
    /\ main \in {"startup", "server", "select", "stop", "wait", "shutdown"}
    /\ ctxDone \in BOOLEAN /\ notified \in BOOLEAN /\ registered \in BOOLEAN
    /\ arrived \in 0..MaxSignals
    /\ poller \in {"none", "idle", "running", "done"} /\ ticking \in BOOLEAN
    /\ child \in {"none", "alive", "ended", "killed", "signalled"}
    /\ blamed \in Nat
    /\ serving \in {"none", "starting", "listening", "returned"}
    /\ errCh \in BOOLEAN /\ closing \in BOOLEAN
    /\ requests \in 0..MaxRequests

\* Whichever way main leaves, the poller has returned and its child has been
\* waited for: a failed server orphans no mlxlink (main.go:136-142). Nothing Parse
\* accepts makes the process panic instead but a path it did not look at: the
\* ticker's interval is positive (config.go:123; poller.go:193). A signal kills it
\* with a child alive only while main, told to stop by another signal or by the
\* server, waits for the poller (main.go:79, 141-142).
ExitLeavesNoChild ==
    /\ process = "exited" => poller \in {"none", "done"} /\ child = "none"
    /\ process = "panicked" => ~PathsUsable(settings)
    /\ process = "killed" /\ child = "alive" =>
          main = "wait" /\ (exitCode = 0 => arrived > 1)

\* The exit status is zero only when that much was asked for: help or the version
\* before anything is started, or a stop that cut no request off. In every other
\* case a unit that restarts on failure restarts the exporter (main.go:31-48,
\* 127-153; deploy/systemd: Restart=on-failure). A server that fails as a stop is
\* asked for may go unnoticed: the stop is what the status then reports.
CleanExit ==
    process = "exited" /\ exitCode = 0 =>
        IF main = "startup" THEN settings.args = "help" \/ settings.version
        ELSE arrived > 0 /\ requests = 0

\* Stopping the exporter counts no collection error (design.md:98; runner.go:
\* 122-124; poller.go:329, 377, 420, 478).
StoppingCountsNoError == blamed = 0

\* The poller as main knows it, which Poller implements in detail.
PollerSide == INSTANCE Polling
    WITH stage <- IF poller \in {"none", "idle"} THEN "between" ELSE poller

\* Cancelling the poller before waiting for it keeps the wait short: it begins no
\* invocation after that, gives up the one under way, sees no failure of it, and
\* ends for good (main.go:136-142; poller.go:196-200, 329, 377).
PollerIsPolling == PollerSide!Spec

\* A signal or a failed server brings the process down, with an invocation
\* under way or not and however slow the clients (main.go:127-153).
ShutdownCompletes == notified \/ errCh ~> ~Up
=============================================================================
