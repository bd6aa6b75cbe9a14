------------------------------ MODULE Polling ------------------------------
(***************************************************************************)
(* What main may rely on when it cancels the poller and waits for it: a    *)
(* loop that sweeps, invokes mlxlink within a sweep, one call at a time,   *)
(* and ends when its context is done.                                      *)
(*   - No sweep is opened once the context is done, so that at most one    *)
(*     invocation is begun after it.                                       *)
(*   - An invocation that outlives the context is given up with its sweep, *)
(*     and no failure is seen of it. One seen earlier may be counted yet.  *)
(*   - The loop ends between two sweeps, and for good.                     *)
(* Poller implements it in detail; Exporter puts its own poller, reduced   *)
(* to what shutdown depends on, in its place.                              *)
(***************************************************************************)
EXTENDS Naturals

VARIABLES
    ctxDone,    \* the context has been cancelled
    stage,      \* "between" sweeps, "sweeping", "running" an invocation, "done"
    blamed      \* the failures seen, in whatever form they are counted

vars == <<ctxDone, stage, blamed>>

Init == ctxDone = FALSE /\ stage = "between"

Cancel == ~ctxDone /\ ctxDone' = TRUE /\ UNCHANGED <<stage, blamed>>

OpenSweep ==
    /\ stage = "between" /\ ~ctxDone
    /\ stage' = "sweeping"
    /\ UNCHANGED <<ctxDone, blamed>>

CloseSweep ==
    /\ stage = "sweeping"
    /\ stage' = "between"
    /\ UNCHANGED <<ctxDone, blamed>>

\* An invocation is begun within a sweep, or as a sweep is opened.
Begin ==
    /\ stage = "sweeping" \/ (stage = "between" /\ ~ctxDone)
    /\ stage' = "running"
    /\ UNCHANGED <<ctxDone, blamed>>

Answer ==
    /\ stage = "running" /\ ~ctxDone
    /\ stage' \in {"sweeping", "between"}
    /\ UNCHANGED <<ctxDone, blamed>>

\* A failure is seen, and a smaller query may follow at once.
Fail ==
    /\ stage = "running" /\ ~ctxDone
    /\ stage' \in {"running", "sweeping", "between"} /\ blamed' # blamed
    /\ UNCHANGED ctxDone

GiveUp ==
    /\ stage = "running" /\ ctxDone
    /\ stage' = "between"
    /\ UNCHANGED <<ctxDone, blamed>>

Finish ==
    /\ stage = "between" /\ ctxDone
    /\ stage' = "done"
    /\ UNCHANGED <<ctxDone, blamed>>

Next ==
    \/ Cancel \/ OpenSweep \/ CloseSweep
    \/ Begin \/ Answer \/ Fail \/ GiveUp
    \/ Finish

Spec == Init /\ [][Next]_vars

\* Once its context is done the loop sees no failure any more, and every step that
\* shows brings it nearer its end: it finishes the sweep's own steps, begins one
\* invocation at most, gives it up, and is between sweeps only to end
\* (poller.go:196-200, 377-379; main.go:136-142).
ToGo == [sweeping |-> 3, running |-> 2, between |-> 1, done |-> 0]
Nearer ==
    ctxDone => /\ ctxDone' /\ blamed' = blamed
               /\ stage' # stage => ToGo[stage'] < ToGo[stage]
WindsDown == [][Nearer]_vars
=============================================================================
