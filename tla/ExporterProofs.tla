--------------------------- MODULE ExporterProofs ---------------------------
(***************************************************************************)
(* Proofs about the life of the process, for any number of signals and     *)
(* requests.                                                               *)
(***************************************************************************)
EXTENDS Exporter, TLAPS

\* Nothing has been started before main has started it.
Order ==
    /\ main = "startup" => poller = "none" /\ ~notified /\ ~registered
    /\ main \in {"startup", "server"} => requests = 0 /\ ~errCh /\ serving = "none"
    /\ poller = "running" <=> child # "none"
    /\ main = "shutdown" => poller = "done"
    /\ process = "exited" => main \in {"startup", "shutdown"}

\* Without the server's error it was a signal that brought main here.
Cause ==
    /\ notified => arrived > 0
    /\ main \in {"startup", "server", "select"} /\ ctxDone => notified
    /\ main \in {"stop", "wait", "shutdown"} /\ exitCode = 0 => arrived > 0

\* What is started has a configuration, and panics over nothing but its paths.
Configured ==
    /\ main # "startup" => Parse(settings) = "config"
    /\ process = "panicked" => ~PathsUsable(settings)

\* A status of zero was asked for and cuts no request off.
Served ==
    process = "exited" /\ exitCode = 0 =>
        /\ requests = 0
        /\ main = "startup" => settings.args = "help" \/ settings.version

\* Between StartPoller and Stop no signal kills; after that it is not the first
\* reason to stop.
Killing ==
    /\ registered <=> main \in {"server", "select", "stop"}
    /\ process = "killed" =>
          /\ ~registered
          /\ main # "startup" /\ exitCode = 0 => arrived > 1

Inv == TypeOK /\ Order /\ Cause /\ Configured /\ Served /\ Killing

LEMMA InitInv == Init => Inv
<1> SUFFICES ASSUME Init PROVE Inv
  OBVIOUS
<1>1. ctxDone \in BOOLEAN /\ notified \in BOOLEAN /\ registered \in BOOLEAN
  BY DEF Init
<1>2. errCh \in BOOLEAN /\ closing \in BOOLEAN
  BY DEF Init
<1>3. arrived \in 0..MaxSignals /\ requests \in 0..MaxRequests /\ blamed \in Nat
  BY ExporterAssumption DEF Init
<1>4. TypeOK
  BY <1>1, <1>2, <1>3 DEF Init, TypeOK
<1>5. Order /\ Cause /\ Configured /\ Served /\ Killing
  BY DEF Init, Order, Cause, Configured, Served, Killing
<1> QED
  BY <1>4, <1>5 DEF Inv

\* TypeOK, one variable group at a time.
MainType ==
    /\ settings \in Settings
    /\ process \in {"up", "exited", "killed", "panicked"} /\ exitCode \in {0, 1, 2}
    /\ main \in {"startup", "server", "select", "stop", "wait", "shutdown"}
SignalsType ==
    /\ ctxDone \in BOOLEAN /\ notified \in BOOLEAN /\ registered \in BOOLEAN
    /\ arrived \in 0..MaxSignals
PollingType ==
    /\ poller \in {"none", "idle", "running", "done"} /\ ticking \in BOOLEAN
    /\ child \in {"none", "alive", "ended", "killed", "signalled"}
    /\ blamed \in Nat
ServerType ==
    /\ serving \in {"none", "starting", "listening", "returned"}
    /\ errCh \in BOOLEAN /\ closing \in BOOLEAN
    /\ requests \in 0..MaxRequests

LEMMA TypeSplit == TypeOK <=> MainType /\ SignalsType /\ PollingType /\ ServerType
  BY DEF TypeOK, MainType, SignalsType, PollingType, ServerType

LEMMA MainTypeStep == MainType /\ [Next]_vars => MainType'
<1> SUFFICES ASSUME MainType, [Next]_vars PROVE MainType'
  OBVIOUS
<1> USE DEF MainType
<1>1. CASE UNCHANGED <<settings, process, exitCode, main>>
  BY <1>1
<1>2. CASE ExitEarly
  BY <1>2 DEF ExitEarly
<1>3. CASE SignalArrives
  BY <1>3 DEF SignalArrives
<1>4. CASE StartPoller \/ StartServer
  BY <1>4 DEF StartPoller, StartServer
<1>5. CASE SignalSeen \/ ServerFailureSeen \/ Stop \/ WaitForPoller
  BY <1>5 DEF SignalSeen, ServerFailureSeen, Stop, WaitForPoller
<1>6. CASE ShutdownTimesOut \/ ShutdownCompleted
  BY <1>6 DEF ShutdownTimesOut, ShutdownCompleted
<1>7. CASE ContextCancelled \/ Polls \/ InvocationStarts \/ ChildEnds
  <2>1. CASE NewTicker
    BY <2>1 DEF NewTicker
  <2>2. CASE ~NewTicker
    <3> UNCHANGED <<settings, process, exitCode, main>>
      BY <1>7, <2>2 DEF ContextCancelled, Polls, PollerReturns, ChildKilled, InvocationReturns,
           InvocationStarts, ChildEnds
    <3> QED
      BY <1>1
  <2> QED
    BY <2>1, <2>2
<1>8. CASE ServerFails \/ Listens \/ ServerClosed \/ RequestArrives \/ RequestAnswered
  <2> UNCHANGED <<settings, process, exitCode, main>>
    BY <1>8 DEF ServerFails, Listens, ServerClosed, RequestArrives, RequestAnswered
  <2> QED
    BY <1>1
<1>9. CASE UNCHANGED vars
  BY <1>9, <1>1 DEF vars
<1> QED
  BY <1>2, <1>3, <1>4, <1>5, <1>6, <1>7, <1>8, <1>9 DEF Next, Main, Gone

LEMMA SignalsTypeStep == SignalsType /\ [Next]_vars => SignalsType'
<1> SUFFICES ASSUME SignalsType, [Next]_vars PROVE SignalsType'
  OBVIOUS
<1>1. CASE UNCHANGED signals
  BY <1>1 DEF signals, SignalsType
<1>2. CASE StartPoller
  BY <1>2 DEF StartPoller, SignalsType
<1>3. CASE Stop
  BY <1>3 DEF Stop, SignalsType
<1>4. CASE ContextCancelled
  BY <1>4 DEF ContextCancelled, SignalsType
<1>5. CASE SignalArrives
  <2>1. UNCHANGED <<ctxDone, registered>> /\ notified' \in {TRUE, notified}
    BY <1>5 DEF SignalArrives
  <2>2. arrived' \in 0..MaxSignals
    BY <1>5, ExporterAssumption DEF SignalArrives, SignalsType
  <2> QED
    BY <2>1, <2>2 DEF SignalsType
<1>6. CASE ExitEarly \/ StartServer \/ SignalSeen \/ ServerFailureSeen \/ WaitForPoller
            \/ ShutdownTimesOut \/ ShutdownCompleted
  BY <1>1, <1>6 DEF ExitEarly, StartServer, SignalSeen, ServerFailureSeen, WaitForPoller,
       ShutdownTimesOut, ShutdownCompleted
<1>7. CASE Polls \/ InvocationStarts \/ ChildEnds
  BY <1>1, <1>7 DEF Polls, NewTicker, PollerReturns, ChildKilled, InvocationReturns,
       InvocationStarts, ChildEnds
<1>8. CASE ServerFails \/ Listens \/ ServerClosed \/ RequestArrives \/ RequestAnswered
  BY <1>1, <1>8 DEF ServerFails, Listens, ServerClosed, RequestArrives, RequestAnswered
<1>9. CASE UNCHANGED vars
  BY <1>9, <1>1 DEF vars
<1> QED
  BY <1>2, <1>3, <1>4, <1>5, <1>6, <1>7, <1>8, <1>9 DEF Next, Main, Gone

LEMMA PollingTypeStep == PollingType /\ [Next]_vars => PollingType'
<1> SUFFICES ASSUME PollingType, [Next]_vars PROVE PollingType'
  OBVIOUS
<1>1. CASE UNCHANGED polling
  BY <1>1 DEF polling, PollingType
<1>2. CASE StartPoller
  BY <1>2 DEF StartPoller, PollingType
<1>3. CASE SignalArrives
  BY <1>3 DEF SignalArrives, PollingType
<1>4. CASE Polls
  <2>1. CASE NewTicker
    <3>1. ticking' \in {TRUE, ticking}
      BY <2>1 DEF NewTicker
    <3> QED
      BY <2>1, <3>1 DEF NewTicker, PollingType
  <2>2. CASE PollerReturns \/ ChildKilled
    BY <2>2 DEF PollerReturns, ChildKilled, PollingType
  <2>3. CASE InvocationReturns
    BY <2>3 DEF InvocationReturns, Blamed, PollingType
  <2> QED
    BY <1>4, <2>1, <2>2, <2>3 DEF Polls
<1>5. CASE InvocationStarts \/ ChildEnds
  BY <1>5 DEF InvocationStarts, ChildEnds, PollingType
<1>6. CASE ExitEarly \/ StartServer \/ SignalSeen \/ ServerFailureSeen \/ Stop \/ WaitForPoller
            \/ ShutdownTimesOut \/ ShutdownCompleted
  BY <1>1, <1>6 DEF ExitEarly, StartServer, SignalSeen, ServerFailureSeen, Stop, WaitForPoller,
       ShutdownTimesOut, ShutdownCompleted
<1>7. CASE ContextCancelled
  BY <1>1, <1>7 DEF ContextCancelled
<1>8. CASE ServerFails \/ Listens \/ ServerClosed \/ RequestArrives \/ RequestAnswered
  BY <1>1, <1>8 DEF ServerFails, Listens, ServerClosed, RequestArrives, RequestAnswered
<1>9. CASE UNCHANGED vars
  BY <1>9, <1>1 DEF vars
<1> QED
  BY <1>2, <1>3, <1>4, <1>5, <1>6, <1>7, <1>8, <1>9 DEF Next, Main, Gone

LEMMA ServerTypeStep == ServerType /\ [Next]_vars => ServerType'
<1> SUFFICES ASSUME ServerType, [Next]_vars PROVE ServerType'
  OBVIOUS
<1>1. CASE UNCHANGED server
  BY <1>1 DEF server, ServerType
<1>2. CASE StartServer \/ ServerFailureSeen \/ WaitForPoller
  BY <1>2 DEF StartServer, ServerFailureSeen, WaitForPoller, ServerType
<1>3. CASE ServerFails \/ Listens \/ ServerClosed
  BY <1>3 DEF ServerFails, Listens, ServerClosed, ServerType
<1>4. CASE RequestArrives
  BY <1>4, ExporterAssumption DEF RequestArrives, ServerType
<1>5. CASE RequestAnswered
  BY <1>5, ExporterAssumption DEF RequestAnswered, ServerType
<1>6. CASE ExitEarly \/ StartPoller \/ SignalSeen \/ Stop \/ ShutdownTimesOut
            \/ ShutdownCompleted
  BY <1>1, <1>6 DEF ExitEarly, StartPoller, SignalSeen, Stop, ShutdownTimesOut, ShutdownCompleted
<1>7. CASE SignalArrives \/ ContextCancelled
  BY <1>1, <1>7 DEF SignalArrives, ContextCancelled
<1>8. CASE Polls \/ InvocationStarts \/ ChildEnds
  BY <1>1, <1>8 DEF Polls, NewTicker, PollerReturns, ChildKilled, InvocationReturns,
       InvocationStarts, ChildEnds
<1>9. CASE UNCHANGED vars
  BY <1>9, <1>1 DEF vars
<1> QED
  BY <1>2, <1>3, <1>4, <1>5, <1>6, <1>7, <1>8, <1>9 DEF Next, Main, Gone

LEMMA TypeStep == TypeOK /\ [Next]_vars => TypeOK'
<1> SUFFICES ASSUME TypeOK, [Next]_vars PROVE TypeOK'
  OBVIOUS
<1>1. MainType /\ SignalsType /\ PollingType /\ ServerType
  BY TypeSplit
<1>2. MainType' /\ SignalsType' /\ PollingType' /\ ServerType'
  BY <1>1, MainTypeStep, SignalsTypeStep, PollingTypeStep, ServerTypeStep
<1> QED
  BY <1>2 DEF TypeOK, MainType, SignalsType, PollingType, ServerType

LEMMA OrderStep == Inv /\ [Next]_vars => Order'
<1> SUFFICES ASSUME Inv, [Next]_vars PROVE Order'
  OBVIOUS
<1> USE DEF Inv, TypeOK, Order, Up, signals, polling, server
<1>1. CASE Main
  <2>1. CASE StartPoller \/ StartServer
    BY <2>1 DEF StartPoller, StartServer
  <2>2. CASE SignalSeen \/ ServerFailureSeen \/ Stop \/ WaitForPoller
    BY <2>2 DEF SignalSeen, ServerFailureSeen, Stop, WaitForPoller
  <2>3. CASE ShutdownTimesOut \/ ShutdownCompleted
    BY <2>3 DEF ShutdownTimesOut, ShutdownCompleted
  <2> QED
    BY <1>1, <2>1, <2>2, <2>3 DEF Main
<1>2. CASE ExitEarly \/ ContextCancelled
  BY <1>2 DEF ExitEarly, ContextCancelled
<1>3. CASE SignalArrives
  <2>1. UNCHANGED <<main, poller, serving, requests, errCh, registered>>
    BY <1>3 DEF SignalArrives
  <2>2. child' = child \/ (child = "alive" /\ child' = "signalled")
    BY <1>3 DEF SignalArrives
  <2>3. process' # "exited"
    BY <1>3 DEF SignalArrives
  <2>4. registered \/ notified' = notified
    BY <1>3 DEF SignalArrives
  <2> QED
    BY <2>1, <2>2, <2>3, <2>4
<1>4. CASE Polls \/ InvocationStarts \/ ChildEnds
  BY <1>4 DEF Polls, NewTicker, PollerReturns, ChildKilled, InvocationReturns, InvocationStarts, ChildEnds
<1>5. CASE ServerFails \/ Listens \/ ServerClosed
  BY <1>5 DEF ServerFails, Listens, ServerClosed
<1>6. CASE RequestArrives \/ RequestAnswered
  BY <1>6 DEF RequestArrives, RequestAnswered
<1>7. CASE UNCHANGED vars
  BY <1>7 DEF vars
<1> QED
  BY <1>1, <1>2, <1>3, <1>4, <1>5, <1>6, <1>7 DEF Next, Gone

LEMMA CauseStep == Inv /\ [Next]_vars => Cause'
<1> SUFFICES ASSUME Inv, [Next]_vars PROVE Cause'
  OBVIOUS
<1> USE DEF Inv, TypeOK, Order, Cause, Up, signals, polling, server
<1>1. CASE Main
  <2>1. CASE StartPoller \/ StartServer
    BY <2>1 DEF StartPoller, StartServer
  <2>2. CASE SignalSeen \/ ServerFailureSeen \/ Stop \/ WaitForPoller
    BY <2>2 DEF SignalSeen, ServerFailureSeen, Stop, WaitForPoller
  <2>3. CASE ShutdownTimesOut \/ ShutdownCompleted
    BY <2>3 DEF ShutdownTimesOut, ShutdownCompleted
  <2> QED
    BY <1>1, <2>1, <2>2, <2>3 DEF Main
<1>2. CASE ExitEarly \/ ContextCancelled
  BY <1>2 DEF ExitEarly, ContextCancelled
<1>3. CASE SignalArrives
  BY <1>3, ExporterAssumption DEF SignalArrives
<1>4. CASE Polls \/ InvocationStarts \/ ChildEnds
  BY <1>4 DEF Polls, NewTicker, PollerReturns, ChildKilled, InvocationReturns, InvocationStarts, ChildEnds
<1>5. CASE ServerFails \/ Listens \/ ServerClosed \/ RequestArrives \/ RequestAnswered
  BY <1>5 DEF ServerFails, Listens, ServerClosed, RequestArrives, RequestAnswered
<1>6. CASE UNCHANGED vars
  BY <1>6 DEF vars
<1> QED
  BY <1>1, <1>2, <1>3, <1>4, <1>5, <1>6 DEF Next, Gone

\* The paths were looked at by net/http, and the interval by Parse.
LEMMA ConfiguredStep == Inv /\ [Next]_vars => Configured'
<1> SUFFICES ASSUME Inv, [Next]_vars PROVE Configured'
  OBVIOUS
<1>1. settings' = settings
  BY DEF Next, Main, StartPoller, StartServer, SignalSeen, ServerFailureSeen, Stop, WaitForPoller,
       ShutdownTimesOut, ShutdownCompleted, ExitEarly, SignalArrives, ContextCancelled, Polls,
       NewTicker, PollerReturns, ChildKilled, InvocationReturns, InvocationStarts, ChildEnds,
       ServerFails, Listens, ServerClosed, RequestArrives, RequestAnswered, Gone, vars
<1>2. Parse(settings)' = Parse(settings) /\ PathsUsable(settings)' = PathsUsable(settings)
  BY <1>1
<1>3. main' # "startup" => Parse(settings) = "config"
  BY DEF Inv, Configured, Next, Main, StartPoller, StartServer, SignalSeen, ServerFailureSeen, Stop,
       WaitForPoller, ShutdownTimesOut, ShutdownCompleted, ExitEarly, SignalArrives,
       ContextCancelled, Polls, NewTicker, PollerReturns, ChildKilled, InvocationReturns,
       InvocationStarts, ChildEnds, ServerFails, Listens, ServerClosed, RequestArrives,
       RequestAnswered, Gone, vars
<1>4. process' = "panicked" => ~PathsUsable(settings)
  <2>1. CASE StartServer
    BY <2>1 DEF StartServer, Up
  <2>2. CASE NewTicker
    <3>1. Parse(settings) = "config"
      BY <2>2 DEF Inv, Order, Configured, NewTicker
    <3>2. ~(Given(settings, "poll-interval") <= 0)
      BY <3>1 DEF Parse, Invalid, Durations
    <3> QED
      BY <2>2, <3>2 DEF NewTicker, Up
  <2>3. CASE ~StartServer /\ ~NewTicker
    <3>1. process' \in {process, "exited", "killed"}
      BY <2>3 DEF Next, Main, StartPoller, SignalSeen, ServerFailureSeen, Stop, WaitForPoller,
           ShutdownTimesOut, ShutdownCompleted, ExitEarly, SignalArrives, ContextCancelled, Polls,
           PollerReturns, ChildKilled, InvocationReturns, InvocationStarts, ChildEnds,
           ServerFails, Listens, ServerClosed, RequestArrives, RequestAnswered, Gone, vars
    <3> QED
      BY <3>1 DEF Inv, Configured
  <2> QED
    BY <2>1, <2>2, <2>3
<1> QED
  BY <1>2, <1>3, <1>4 DEF Configured

LEMMA ServedStep == Inv /\ [Next]_vars => Served'
<1> SUFFICES ASSUME Inv, [Next]_vars, process' = "exited", exitCode' = 0
             PROVE  /\ requests' = 0
                    /\ main' = "startup" => settings'.args = "help" \/ settings'.version
  BY DEF Served
<1>1. CASE ExitEarly
  <2>1. Parse(settings) = "help" => settings.args = "help"
    BY DEF Parse
  <2> QED
    BY <1>1, <2>1 DEF ExitEarly, Inv, Order, server
<1>2. CASE ShutdownTimesOut \/ ShutdownCompleted
  BY <1>2 DEF ShutdownTimesOut, ShutdownCompleted, server
<1>3. CASE ~ExitEarly /\ ~ShutdownTimesOut /\ ~ShutdownCompleted
  <2>1. process = "exited"
    BY <1>3 DEF Next, Main, StartPoller, StartServer, SignalSeen, ServerFailureSeen, Stop,
         WaitForPoller, SignalArrives, ContextCancelled, Polls, NewTicker, PollerReturns,
         ChildKilled, InvocationReturns, InvocationStarts, ChildEnds, ServerFails, Listens,
         ServerClosed, RequestArrives, RequestAnswered, Gone, Up, vars
  <2>2. UNCHANGED <<settings, exitCode, main, requests>>
    BY <2>1, <1>3 DEF Next, Main, StartPoller, StartServer, SignalSeen, ServerFailureSeen, Stop,
         WaitForPoller, SignalArrives, ContextCancelled, Polls, NewTicker, PollerReturns,
         ChildKilled, InvocationReturns, InvocationStarts, ChildEnds, ServerFails, Listens,
         ServerClosed, RequestArrives, RequestAnswered, Gone, Up, vars, server
  <2> QED
    BY <2>1, <2>2 DEF Inv, Served
<1> QED
  BY <1>1, <1>2, <1>3

LEMMA KillingStep == Inv /\ [Next]_vars => Killing'
<1> SUFFICES ASSUME Inv, [Next]_vars PROVE Killing'
  OBVIOUS
<1> USE DEF Inv, TypeOK, Order, Cause, Killing, Up, signals, polling, server
<1>1. CASE Main
  <2>1. CASE StartPoller \/ StartServer
    BY <2>1 DEF StartPoller, StartServer
  <2>2. CASE SignalSeen \/ ServerFailureSeen \/ Stop \/ WaitForPoller
    BY <2>2 DEF SignalSeen, ServerFailureSeen, Stop, WaitForPoller
  <2>3. CASE ShutdownTimesOut \/ ShutdownCompleted
    BY <2>3 DEF ShutdownTimesOut, ShutdownCompleted
  <2> QED
    BY <1>1, <2>1, <2>2, <2>3 DEF Main
<1>2. CASE ExitEarly \/ ContextCancelled
  BY <1>2 DEF ExitEarly, ContextCancelled
<1>3. CASE SignalArrives
  BY <1>3, ExporterAssumption DEF SignalArrives
<1>4. CASE Polls \/ InvocationStarts \/ ChildEnds
  BY <1>4 DEF Polls, NewTicker, PollerReturns, ChildKilled, InvocationReturns, InvocationStarts, ChildEnds
<1>5. CASE ServerFails \/ Listens \/ ServerClosed \/ RequestArrives \/ RequestAnswered
  BY <1>5 DEF ServerFails, Listens, ServerClosed, RequestArrives, RequestAnswered
<1>6. CASE UNCHANGED vars
  BY <1>6 DEF vars
<1> QED
  BY <1>1, <1>2, <1>3, <1>4, <1>5, <1>6 DEF Next, Gone

\* The inductive invariant of the process: its type, what has been started when
\* main is where it is, and what brought main there.
THEOREM Invariant == Spec => []Inv
<1>1. Inv /\ [Next]_vars => Inv'
  BY TypeStep, OrderStep, CauseStep, ConfiguredStep, ServedStep, KillingStep DEF Inv
<1> QED
  BY <1>1, InitInv, PTL DEF Spec

\* Every variable of the process keeps its type.
THEOREM TypeCorrect == Spec => []TypeOK
<1>1. Inv => TypeOK
  BY DEF Inv
<1> QED
  BY <1>1, Invariant, PTL

\* os.Exit is reached with the poller returned and no child left behind, the process
\* panics over nothing but its paths, and a signal orphans a child only after another
\* reason to stop.
THEOREM ExitLeavesNoChildHolds == Spec => []ExitLeavesNoChild
<1>1. Inv => ExitLeavesNoChild
  <2> SUFFICES ASSUME Inv PROVE ExitLeavesNoChild
    OBVIOUS
  <2> USE DEF Inv, TypeOK, Order
  <2>1. process = "exited" => poller \in {"none", "done"} /\ child = "none"
    OBVIOUS
  <2>2. process = "panicked" => ~PathsUsable(settings)
    BY DEF Configured
  <2>3. process = "killed" /\ child = "alive" => main = "wait" /\ (exitCode = 0 => arrived > 1)
    BY DEF Killing
  <2> QED
    BY <2>1, <2>2, <2>3 DEF ExitLeavesNoChild
<1> QED
  BY <1>1, Invariant, PTL

\* The exit status is zero after help, the version or a stop that cut no request
\* off, and never otherwise.
THEOREM CleanExitHolds == Spec => []CleanExit
<1>1. Inv => CleanExit
  BY DEF Inv, Order, Cause, Served, CleanExit
<1> QED
  BY <1>1, Invariant, PTL

-----------------------------------------------------------------------------
(* Shutdown is no error, when it reaches the exporter alone.               *)

Blameless ==
    /\ child # "signalled"
    /\ child = "killed" => ctxDone
    /\ blamed = 0

LEMMA BlamelessStep ==
    ASSUME ~GroupSignals, Blameless, [Next]_vars PROVE Blameless'
<1> USE DEF Blameless, signals, polling
<1>1. CASE Polls
  BY <1>1 DEF Polls, NewTicker, PollerReturns, ChildKilled, InvocationReturns, Blamed
<1>2. CASE Main
  BY <1>2 DEF Main, StartPoller, StartServer, SignalSeen, ServerFailureSeen, Stop, WaitForPoller,
       ShutdownTimesOut, ShutdownCompleted
<1>3. CASE ExitEarly \/ SignalArrives \/ ContextCancelled \/ InvocationStarts \/ ChildEnds
  BY <1>3 DEF ExitEarly, SignalArrives, ContextCancelled, InvocationStarts, ChildEnds
<1>4. CASE ServerFails \/ Listens \/ ServerClosed \/ RequestArrives \/ RequestAnswered
  BY <1>4 DEF ServerFails, Listens, ServerClosed, RequestArrives, RequestAnswered
<1>5. CASE UNCHANGED vars
  BY <1>5 DEF vars
<1> QED
  BY <1>1, <1>2, <1>3, <1>4, <1>5 DEF Next, Gone

\* When a stop signal reaches the exporter alone, stopping counts no error.
THEOREM StoppingCountsNoErrorHolds ==
    ASSUME ~GroupSignals PROVE Spec => []StoppingCountsNoError
<1>1. Init => Blameless
  BY DEF Init, Blameless
<1>2. Blameless /\ [Next]_vars => Blameless'
  BY BlamelessStep
<1>3. Blameless => StoppingCountsNoError
  BY DEF Blameless, StoppingCountsNoError
<1> QED
  BY <1>1, <1>2, <1>3, PTL DEF Spec

\* The errors counted and the one about to be are each owed to a signal of their own.
Owed == IF child = "signalled" THEN 1 ELSE 0
Accountable ==
    /\ blamed + Owed <= arrived
    /\ child = "killed" => ctxDone

LEMMA AccountableStep ==
    ASSUME TypeOK, Accountable, [Next]_vars PROVE Accountable'
<1> USE DEF Accountable, Owed, signals, polling
<1>1. blamed \in Nat /\ arrived \in Nat
  BY ExporterAssumption DEF TypeOK
<1>2. CASE Polls
  BY <1>1, <1>2 DEF Polls, NewTicker, PollerReturns, ChildKilled, InvocationReturns, Blamed
<1>3. CASE SignalArrives
  BY <1>1, <1>3 DEF SignalArrives
<1>4. CASE ExitEarly \/ ContextCancelled \/ InvocationStarts \/ ChildEnds
  BY <1>1, <1>4 DEF ExitEarly, ContextCancelled, InvocationStarts, ChildEnds
<1>5. CASE Main
  BY <1>1, <1>5 DEF Main, StartPoller, StartServer, SignalSeen, ServerFailureSeen, Stop,
       WaitForPoller, ShutdownTimesOut, ShutdownCompleted
<1>6. CASE ServerFails \/ Listens \/ ServerClosed \/ RequestArrives \/ RequestAnswered
  BY <1>1, <1>6 DEF ServerFails, Listens, ServerClosed, RequestArrives, RequestAnswered
<1>7. CASE UNCHANGED vars
  BY <1>1, <1>7 DEF vars
<1> QED
  BY <1>2, <1>3, <1>4, <1>5, <1>6, <1>7 DEF Next, Gone

\* Whoever a stop signal reaches, it costs one collection error at most: the child
\* it ended with the exporter can be counted before the context is seen done, and
\* that of a later invocation only if another signal ended it (runner.go:121-125;
\* poller.go:329, 377).
OneErrorPerSignal == blamed <= arrived

THEOREM OneErrorPerSignalHolds == Spec => []OneErrorPerSignal
<1>1. Init => Accountable
  BY DEF Init, Accountable, Owed
<1>2. TypeOK /\ Accountable /\ [Next]_vars => Accountable'
  BY AccountableStep
<1>3. TypeOK /\ Accountable => OneErrorPerSignal
  BY ExporterAssumption DEF Accountable, Owed, OneErrorPerSignal, TypeOK
<1> QED
  BY <1>1, <1>2, <1>3, TypeCorrect, PTL DEF Spec

-----------------------------------------------------------------------------
(* The poller main starts, stops and waits for is one that polls.          *)

\* What stop and a cancelled context do to it.
LEMMA CancelPolls ==
    ASSUME SignalsType, Stop \/ ContextCancelled PROVE [PollerSide!Next]_(PollerSide!vars)
<1>1. UNCHANGED <<poller, blamed>> /\ ctxDone' = TRUE
  BY DEF Stop, ContextCancelled, polling
<1>2. ctxDone \in BOOLEAN
  BY DEF SignalsType
<1>3. CASE ctxDone
  <2>1. UNCHANGED PollerSide!vars
    BY <1>1, <1>3 DEF PollerSide!vars
  <2> QED
    BY <2>1
<1>4. CASE ~ctxDone
  <2>1. PollerSide!Cancel
    BY <1>1, <1>4 DEF PollerSide!Cancel
  <2> QED
    BY <2>1 DEF PollerSide!Next
<1> QED
  BY <1>2, <1>3, <1>4

\* What it does of its own.
LEMMA PollsPoll ==
    ASSUME PollingType, Polls \/ InvocationStarts PROVE [PollerSide!Next]_(PollerSide!vars)
<1>1. CASE NewTicker \/ ChildKilled
  <2>1. UNCHANGED <<poller, blamed, ctxDone>>
    BY <1>1 DEF NewTicker, ChildKilled, signals
  <2> QED
    BY <2>1 DEF PollerSide!vars
<1>2. CASE PollerReturns
  <2>1. PollerSide!Finish
    BY <1>2 DEF PollerReturns, signals, PollerSide!Finish
  <2> QED
    BY <2>1 DEF PollerSide!Next
<1>3. CASE InvocationStarts
  <2>1. PollerSide!Begin
    BY <1>3 DEF InvocationStarts, signals, PollerSide!Begin
  <2> QED
    BY <2>1 DEF PollerSide!Next
<1>4. CASE InvocationReturns
  <2>1. poller = "running" /\ poller' = "idle" /\ ctxDone' = ctxDone
    BY <1>4 DEF InvocationReturns, signals
  <2>2. CASE ctxDone
    <3>1. blamed' = blamed
      BY <1>4, <2>2 DEF InvocationReturns, Blamed
    <3>2. PollerSide!GiveUp
      BY <2>1, <2>2, <3>1 DEF PollerSide!GiveUp
    <3> QED
      BY <3>2 DEF PollerSide!Next
  <2>3. CASE ~ctxDone /\ blamed' = blamed
    <3>1. PollerSide!Answer
      BY <2>1, <2>3 DEF PollerSide!Answer
    <3> QED
      BY <3>1 DEF PollerSide!Next
  <2>4. CASE ~ctxDone /\ blamed' # blamed
    <3>1. PollerSide!Fail
      BY <2>1, <2>4 DEF PollerSide!Fail
    <3> QED
      BY <3>1 DEF PollerSide!Next
  <2> QED
    BY <2>2, <2>3, <2>4
<1> QED
  BY <1>1, <1>2, <1>3, <1>4 DEF Polls

LEMMA PollerSideStep == Inv /\ [Next]_vars => [PollerSide!Next]_(PollerSide!vars)
<1> SUFFICES ASSUME Inv, [Next]_vars PROVE [PollerSide!Next]_(PollerSide!vars)
  OBVIOUS
<1>1. SignalsType /\ PollingType
  BY TypeSplit DEF Inv
<1>2. CASE Stop \/ ContextCancelled
  BY <1>1, <1>2, CancelPolls
<1>3. CASE Polls \/ InvocationStarts
  BY <1>1, <1>3, PollsPoll
<1>4. CASE StartPoller
  <2>1. poller = "none"
    BY <1>4 DEF Inv, Order, StartPoller
  <2> QED
    BY <1>4, <2>1 DEF StartPoller, PollerSide!vars
<1>5. CASE UNCHANGED <<ctxDone, poller, blamed>>
  BY <1>5 DEF PollerSide!vars
<1>6. CASE ~Stop /\ ~ContextCancelled /\ ~Polls /\ ~InvocationStarts /\ ~StartPoller
  <2> UNCHANGED <<ctxDone, poller, blamed>>
    BY <1>6 DEF Next, Main, StartServer, SignalSeen, ServerFailureSeen, WaitForPoller,
         ShutdownTimesOut, ShutdownCompleted, ExitEarly, SignalArrives, ChildEnds, ServerFails,
         Listens, ServerClosed, RequestArrives, RequestAnswered, Gone, vars, signals, polling
  <2> QED
    BY <1>5
<1> QED
  BY <1>2, <1>3, <1>4, <1>6

\* The poller of the process implements Polling, whoever its child's death is
\* owed to and however many signals arrive (main.go:136-142).
THEOREM PollerIsPollingHolds == Spec => PollerIsPolling
<1>1. Init => PollerSide!Init
  BY DEF Init, PollerSide!Init
<1>2. Inv /\ [Next]_vars => [PollerSide!Next]_(PollerSide!vars)
  BY PollerSideStep
<1> QED
  BY <1>1, <1>2, Invariant, PTL DEF Spec, PollerIsPolling, PollerSide!Spec

\* What main waits for is near: once the context is done the poller begins one
\* invocation at most, and each change of its stage brings its return nearer.
THEOREM WindsDownHolds == Spec => PollerSide!WindsDown
<1>1. TypeOK /\ [PollerSide!Next]_(PollerSide!vars) => [PollerSide!Nearer]_(PollerSide!vars)
  BY DEF PollerSide!Next, PollerSide!Cancel, PollerSide!OpenSweep, PollerSide!CloseSweep,
         PollerSide!Begin, PollerSide!Answer, PollerSide!Fail, PollerSide!GiveUp,
         PollerSide!Finish, PollerSide!vars, PollerSide!Nearer, PollerSide!ToGo, TypeOK
<1> QED
  BY <1>1, PollerIsPollingHolds, TypeCorrect, PTL
     DEF PollerIsPolling, PollerSide!Spec, PollerSide!WindsDown
=============================================================================
