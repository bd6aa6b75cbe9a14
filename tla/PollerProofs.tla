---------------------------- MODULE PollerProofs ----------------------------
(***************************************************************************)
(* Theorems about the poller, for every set of devices, labels, discovery  *)
(* results and responses, every setting of the two Eye options and every   *)
(* bound. The argument has three layers, each inductive relative to the    *)
(* one below it: types and times, the shape of a sweep, and the accounting *)
(* of errors; the refinement of SnapshotCache rests on the first two.      *)
(***************************************************************************)
EXTENDS Poller, TLAPS

-----------------------------------------------------------------------------
(* Types and times.                                                        *)

\* An attempt's start, its answer and the clock are in that order.
Times ==
    /\ pc \in {"run", "record"} => start <= clock
    /\ pc = "record" => start <= outcome.at /\ outcome.at <= clock /\ outcome.at # Never

TypeInv == TypeOK /\ Times

USE DEF Never, NoError

LEMMA IncrementType ==
    ASSUME NEW S, NEW f \in [S -> Nat], NEW k
    PROVE  [f EXCEPT ![k] = @ + 1] \in [S -> Nat]
<1>1. \A x \in S : (IF x = k THEN f[k] + 1 ELSE f[x]) \in Nat
  OBVIOUS
<1>2. [f EXCEPT ![k] = @ + 1] = [x \in S |-> IF x = k THEN f[k] + 1 ELSE f[x]]
  OBVIOUS
<1> QED
  BY <1>1, <1>2

\* A failed lookup and a successful one both yield a snapshot.
LEMMA LookupType ==
    ASSUME NEW set \in SnapshotSet, NEW t \in Target
    PROVE  Lookup(set, t) \in Snapshot
<1>1. t.device \in Devices /\ set[t.device] \in Snapshot \cup {Absent}
  BY DEF SnapshotSet, Target
<1>2. CASE set[t.device] = Absent
  BY <1>2 DEF Lookup, ZeroSnapshot, Snapshot
<1>3. CASE set[t.device] # Absent
  <2>1. set[t.device] \in Snapshot
    BY <1>1, <1>3
  <2> QED
    BY <2>1, <1>3 DEF Lookup, Snapshot
<1> QED
  BY <1>2, <1>3

LEMMA EmptySetType == EmptySet \in SnapshotSet
BY DEF EmptySet, SnapshotSet

\* Every target of a sweep is one, and no device has two.
LEMMA TargetsType ==
    ASSUME TypeOK
    PROVE  /\ \A i \in DOMAIN targets : targets[i].device \in Devices
           /\ \A i, j \in DOMAIN targets : targets[i].device = targets[j].device => i = j
<1>1. targets \in TargetList
  BY DEF TypeOK, SweepType
<1>2. targets \in Seq(Target)
  BY <1>1 DEF TargetList
<1>3. \A i \in DOMAIN targets : targets[i] \in Target
  BY <1>2
<1> QED
  BY <1>1, <1>3 DEF TargetList, Target

\* The current target of a pass is a target.
LEMMA TargetType ==
    ASSUME TypeOK, InPass
    PROVE  target \in Target /\ target.device \in Devices /\ targets # <<>>
<1>1. targets \in Seq(Target) /\ idx \in DOMAIN targets
  BY DEF TypeOK, SweepType, ControlType, TargetList
<1>2. target \in Target
  BY <1>1 DEF target
<1> QED
  BY <1>1, <1>2 DEF Target

LEMMA NoOutcomeType == NoOutcome \in Outcome
BY DEF NoOutcome, Outcome

LEMMA FoldedType ==
    ASSUME TypeInv, pc = "record"
    PROVE  Folded \in Snapshot
<1>1. snapshot \in Snapshot /\ outcome \in Outcome /\ start \in Nat
  BY DEF TypeInv, TypeOK, AttemptType, ControlType, InAttempt
<1>2. start <= outcome.at
  BY DEF TypeInv, Times
<1>3. outcome.at \in Nat
  BY <1>1 DEF Outcome
<1>4. outcome.at - start \in Nat
  BY <1>1, <1>2, <1>3
<1>5. outcome.data \cap Accepted[query] \in SUBSET Sections
  BY <1>1 DEF Outcome
<1>6. outcome.error \in Reasons \cup {NoError}
  BY <1>1 DEF Outcome
<1> QED
  BY <1>1, <1>3, <1>4, <1>5, <1>6 DEF Folded, Snapshot

LEMMA TypeInit == Init => TypeInv
<1> SUFFICES ASSUME Init PROVE TypeInv
  OBVIOUS
<1>1. EmptySet \in SnapshotSet
  BY EmptySetType
<1>2. SharedType
  <2>1. store \in [Phases -> SnapshotSet]
    BY <1>1 DEF Init
  <2>2. errors \in [ErrorKeys -> Nat]
    BY DEF Init
  <2> QED
    BY <2>1, <2>2 DEF Init, SharedType
<1>3. EnvType
  <2>1. clock \in Nat \ {Never} /\ fired \in Nat
    BY DEF Init
  <2> QED
    BY <2>1 DEF Init, EnvType
<1>4. SweepType
  BY <1>1 DEF Init, SweepType, TargetList, Phases
<1>5. AttemptType
  BY NoOutcomeType DEF Init, AttemptType, Queries
<1>6. HistoryType
  BY DEF Init, HistoryType
<1>7. ControlType
  BY DEF Init, ControlType, Programs, InPass, InAttempt
<1>8. Times
  BY DEF Init, Times
<1> QED
  BY <1>2, <1>3, <1>4, <1>5, <1>6, <1>7, <1>8 DEF TypeInv, TypeOK

\* Leaving a sweep, or a pass of it, puts the locals back.
LEMMA NoAttemptType == NoAttempt => AttemptType'
BY NoOutcomeType DEF NoAttempt, AttemptType, Queries

LEMMA EndSweepType ==
    ASSUME EndSweep PROVE SweepType' /\ AttemptType' /\ ControlType' /\ Times'
<1>1. NoSweep /\ pc' \in {"newTicker", "drain"}
  BY DEF EndSweep
<1>2. SweepType'
  BY <1>1, EmptySetType DEF NoSweep, SweepType, TargetList, Phases
<1>3. AttemptType'
  BY <1>1, NoAttemptType DEF NoSweep
<1>4. ControlType' /\ Times'
  BY <1>1 DEF ControlType, Times, Programs, InPass, InAttempt
<1> QED
  BY <1>2, <1>3, <1>4

LEMMA EndPassType ==
    ASSUME SweepType, EndPass PROVE SweepType' /\ AttemptType' /\ ControlType' /\ Times'
<1>1. CASE EndSweep
  BY <1>1, EndSweepType
<1>2. CASE /\ pc' = "seed" /\ phase' = "pcie" /\ idx' = 1
           /\ previous' = EmptySet /\ working' = EmptySet
           /\ NoAttempt
           /\ UNCHANGED targets
  <2>1. SweepType'
    BY <1>2, EmptySetType DEF SweepType, Phases
  <2>2. AttemptType'
    BY <1>2, NoAttemptType
  <2>3. ControlType' /\ Times'
    BY <1>2 DEF ControlType, Times, Programs, InPass, InAttempt
  <2> QED
    BY <2>1, <2>2, <2>3
<1> QED
  BY <1>1, <1>2 DEF EndPass

\* Every step keeps types and times.
LEMMA TypeStep == TypeInv /\ [Next]_vars => TypeInv'
<1> SUFFICES ASSUME TypeInv, [Next]_vars PROVE TypeInv'
  OBVIOUS
<1> USE DEF TypeInv, TypeOK
<1>1. CASE Begin
  <2>1. SharedType' /\ EnvType' /\ SweepType' /\ AttemptType' /\ HistoryType'
    BY <1>1 DEF Begin, shared, env, sweep, attempt, SharedType, EnvType, SweepType, AttemptType, HistoryType
  <2>2. ControlType' /\ Times'
    BY <1>1 DEF Begin, ControlType, Times, Programs, InPass, InAttempt
  <2> QED
    BY <2>1, <2>2
<1>2. CASE NewTicker
  <2>1. SharedType' /\ EnvType' /\ SweepType' /\ AttemptType' /\ HistoryType'
    BY <1>2 DEF NewTicker, shared, sweep, attempt, SharedType, EnvType, SweepType, AttemptType, HistoryType
  <2>2. ControlType' /\ Times'
    BY <1>2 DEF NewTicker, ControlType, Times, Programs, InPass, InAttempt
  <2> QED
    BY <2>1, <2>2
<1>3. CASE Stop
  <2>1. SharedType' /\ EnvType' /\ SweepType' /\ AttemptType' /\ HistoryType'
    BY <1>3 DEF Stop, shared, env, sweep, attempt, SharedType, EnvType, SweepType, AttemptType, HistoryType
  <2>2. ControlType' /\ Times'
    BY <1>3 DEF Stop, ControlType, Times, Programs, InPass, InAttempt
  <2> QED
    BY <2>1, <2>2
<1>4. CASE TakeTick
  <2>1. SharedType' /\ EnvType' /\ SweepType' /\ AttemptType' /\ HistoryType'
    BY <1>4 DEF TakeTick, shared, sweep, attempt, SharedType, EnvType, SweepType, AttemptType, HistoryType
  <2>2. ControlType' /\ Times'
    BY <1>4 DEF TakeTick, ControlType, Times, Programs, InPass, InAttempt
  <2> QED
    BY <2>1, <2>2
<1>5. CASE Drain
  <2>1. EnvType' /\ SweepType' /\ AttemptType' /\ HistoryType'
    BY <1>5 DEF Drain, sweep, attempt, EnvType, SweepType, AttemptType, HistoryType
  <2>2. SharedType'
    BY <1>5 DEF Drain, SharedType
  <2>3. ControlType' /\ Times'
    BY <1>5 DEF Drain, ControlType, Times, Programs, InPass, InAttempt
  <2> QED
    BY <2>1, <2>2, <2>3
<1>6. CASE DiscoverFails
  <2>1. SharedType' /\ EnvType' /\ HistoryType'
    BY <1>6 DEF DiscoverFails, shared, env, SharedType, EnvType, HistoryType
  <2> QED
    BY <1>6, <2>1, EndSweepType DEF DiscoverFails
<1>7. CASE Discover
  <2>1. SharedType' /\ EnvType' /\ AttemptType' /\ HistoryType'
    BY <1>7 DEF Discover, shared, env, attempt, SharedType, EnvType, AttemptType, HistoryType
  <2>2. SweepType'
    BY <1>7, PollerAssumption DEF Discover, SweepType, Phases
  <2>3. ControlType' /\ Times'
    BY <1>7 DEF Discover, ControlType, Times, Programs, InPass, InAttempt
  <2> QED
    BY <2>1, <2>2, <2>3
<1>8. CASE SeedNone
  <2>1. SharedType'
    BY <1>8, EmptySetType DEF SeedNone, SharedType, SweepType
  <2>2. EnvType' /\ HistoryType'
    BY <1>8 DEF SeedNone, env, EnvType, HistoryType
  <2> QED
    BY <1>8, <2>1, <2>2, EndPassType DEF SeedNone
<1>9. CASE Seed
  <2>1. SharedType' /\ EnvType' /\ AttemptType' /\ HistoryType'
    BY <1>9 DEF Seed, shared, env, attempt, SharedType, EnvType, AttemptType, HistoryType
  <2>2. store[phase] \in SnapshotSet
    BY DEF SharedType, SweepType
  <2>3. Restricted(store[phase]) \in SnapshotSet
    BY <2>2 DEF Restricted, SnapshotSet
  <2>4. SweepType'
    BY <1>9, <2>2, <2>3 DEF Seed, SweepType
  <2>5. 1 \in DOMAIN targets
    BY <1>9 DEF Seed, SweepType, TargetList
  <2>6. ControlType' /\ Times'
    BY <1>9, <2>5 DEF Seed, ControlType, Times, Programs, InPass, InAttempt
  <2> QED
    BY <2>1, <2>4, <2>6
<1>10. CASE Publish
  <2>1. target.device \in Devices /\ snapshot \in Snapshot
    BY <1>10, TargetType DEF Publish, InPass, InAttempt, ControlType
  <2>2. working' \in SnapshotSet
    BY <1>10, <2>1 DEF Publish, SweepType, SnapshotSet
  <2>3. SharedType'
    BY <1>10, <2>2 DEF Publish, SharedType, SweepType
  <2>4. EnvType' /\ AttemptType' /\ HistoryType'
    BY <1>10 DEF Publish, env, attempt, EnvType, AttemptType, HistoryType
  <2>5. SweepType'
    BY <1>10, <2>2 DEF Publish, SweepType
  <2>6. ControlType' /\ Times'
    BY <1>10, <2>1 DEF Publish, attempt, ControlType, Times, Programs, InPass, InAttempt
  <2> QED
    BY <2>3, <2>4, <2>5, <2>6
<1>11. CASE Announce
  <2>1. SharedType'
    BY <1>11 DEF Announce, AnnounceAndStep, SharedType
  <2>2. EnvType' /\ HistoryType'
    BY <1>11 DEF Announce, AnnounceAndStep, env, EnvType, HistoryType
  <2>3. CASE EndPass
    BY <2>1, <2>2, <2>3, EndPassType
  <2>4. CASE /\ idx < Len(targets) /\ idx' = idx + 1 /\ pc' = "collect"
             /\ NoAttempt
             /\ UNCHANGED <<phase, targets, previous, working>>
    <3>1. SweepType'
      BY <2>4 DEF SweepType
    <3>2. AttemptType'
      BY <2>4, NoAttemptType
    <3>3. idx' \in DOMAIN targets'
      BY <2>4 DEF SweepType, TargetList
    <3>4. ControlType' /\ Times'
      BY <2>4, <3>3 DEF ControlType, Times, Programs, InPass, InAttempt
    <3> QED
      BY <2>1, <2>2, <3>1, <3>2, <3>4
  <2> QED
    BY <1>11, <2>3, <2>4 DEF Announce, AnnounceAndStep
<1>12. CASE Collect
  <2>1. SharedType' /\ EnvType' /\ SweepType' /\ HistoryType'
    BY <1>12 DEF Collect, shared, env, sweep, SharedType, EnvType, SweepType, HistoryType
  <2>2. snapshot' \in Snapshot
    BY <1>12, TargetType, LookupType DEF Collect, InPass, SweepType
  <2>3. AttemptType'
    BY <1>12, <2>2 DEF Collect, AttemptType, EnvType, FirstQuery, Queries
  <2>4. ControlType' /\ Times'
    BY <1>12, <2>2 DEF Collect, sweep, env, ControlType, EnvType, Times, Programs, InPass, InAttempt
  <2> QED
    BY <2>1, <2>3, <2>4
<1>13. CASE RunCancelled \/ RecordCancelled \/ AccountCancelled
  <2>1. Abort
    BY <1>13 DEF RunCancelled, RecordCancelled, AccountCancelled
  <2>2. SharedType' /\ EnvType' /\ HistoryType'
    BY <2>1 DEF Abort, shared, env, SharedType, EnvType, HistoryType
  <2> QED
    BY <2>1, <2>2, EndSweepType DEF Abort
<1>14. CASE QueryRejected
  <2>1. SharedType' /\ EnvType' /\ SweepType'
    BY <1>14 DEF QueryRejected, shared, env, sweep, SharedType, EnvType, SweepType
  <2>2. AttemptType'
    BY <1>14 DEF QueryRejected, AttemptType, Fallback, Queries
  <2>3. HistoryType'
    BY <1>14, IncrementType DEF QueryRejected, Failing, HistoryType
  <2>4. ControlType' /\ Times'
    BY <1>14 DEF QueryRejected, sweep, env, ControlType, Times, Programs, InPass, InAttempt
  <2> QED
    BY <2>1, <2>2, <2>3, <2>4
<1>15. CASE QueryFailed
  <2>1. SharedType' /\ EnvType' /\ SweepType'
    BY <1>15 DEF QueryFailed, shared, env, sweep, SharedType, EnvType, SweepType
  <2>2. PICK error \in RunReasons \cup {"invalid_json"} :
          /\ outcome' = [error |-> error, data |-> {}, at |-> clock]
          /\ failed' = Failing(error)
    BY <1>15 DEF QueryFailed
  <2>3. error \in Reasons
    BY PollerAssumption DEF Reasons
  <2>4. outcome' \in Outcome /\ outcome'.at = clock
    BY <2>2, <2>3 DEF Outcome, EnvType
  <2>5. AttemptType'
    BY <1>15, <2>4 DEF QueryFailed, AttemptType
  <2>6. HistoryType'
    BY <1>15, <2>2, IncrementType DEF QueryFailed, Failing, HistoryType
  <2>7. ControlType'
    BY <1>15 DEF QueryFailed, sweep, ControlType, Programs, InPass, InAttempt
  <2>8. Times'
    BY <1>15, <2>4 DEF QueryFailed, env, EnvType, Times
  <2> QED
    BY <2>1, <2>5, <2>6, <2>7, <2>8
<1>16. CASE QueryAnswered
  <2>1. SharedType' /\ EnvType' /\ SweepType' /\ HistoryType'
    BY <1>16 DEF QueryAnswered, shared, env, sweep, SharedType, EnvType, SweepType, HistoryType
  <2>2. PICK response \in Responses :
          outcome' = [error |-> NoError, data |-> response, at |-> clock]
    BY <1>16 DEF QueryAnswered
  <2>3. outcome' \in Outcome /\ outcome'.at = clock
    BY <2>2, PollerAssumption DEF Outcome, EnvType
  <2>4. AttemptType'
    BY <1>16, <2>3 DEF QueryAnswered, AttemptType
  <2>5. ControlType'
    BY <1>16 DEF QueryAnswered, sweep, ControlType, Programs, InPass, InAttempt
  <2>6. Times'
    <3>1. pc' = "record" /\ start <= clock /\ start' = start /\ clock' = clock
      BY <1>16 DEF QueryAnswered, env, Times
    <3> QED
      BY <2>3, <3>1 DEF EnvType, Times
  <2> QED
    BY <2>1, <2>4, <2>5, <2>6
<1>17. CASE Record
  <2>1. pc = "record" /\ snapshot' \in Snapshot
    BY <1>17, FoldedType DEF Record
  <2>2. SharedType'
    <3>1. \A k \in ErrorKeys : Counted(k) \in Nat
      BY DEF Counted
    <3>2. errors' \in [ErrorKeys -> Nat]
      BY <1>17, <3>1 DEF Record, SharedType
    <3> QED
      BY <1>17, <3>2 DEF Record, SharedType
  <2>3. EnvType' /\ SweepType' /\ HistoryType'
    BY <1>17 DEF Record, env, sweep, EnvType, SweepType, HistoryType
  <2>4. AttemptType'
    BY <1>17, <2>1, NoOutcomeType DEF Record, AttemptType
  <2>5. ControlType' /\ Times'
    BY <1>17, <2>1 DEF Record, sweep, ControlType, Times, Programs, InPass, InAttempt
  <2> QED
    BY <2>2, <2>3, <2>4, <2>5
<1>18. CASE Account
  <2>1. SharedType'
    BY <1>18, IncrementType DEF Account, SharedType
  <2>2. EnvType' /\ SweepType' /\ AttemptType' /\ HistoryType'
    BY <1>18 DEF Account, env, sweep, attempt, EnvType, SweepType, AttemptType, HistoryType
  <2>3. ControlType' /\ Times'
    BY <1>18 DEF Account, sweep, attempt, ControlType, Times, Programs, InPass, InAttempt
  <2> QED
    BY <2>1, <2>2, <2>3
<1>19. CASE Tick
  <2>1. SharedType' /\ SweepType' /\ AttemptType'
    BY <1>19 DEF Tick, shared, sweep, attempt, SharedType, SweepType, AttemptType
  <2>2. EnvType' /\ HistoryType'
    BY <1>19 DEF Tick, EnvType, HistoryType
  <2>3. ControlType' /\ Times'
    BY <1>19 DEF Tick, sweep, attempt, ControlType, Times, InPass, InAttempt
  <2> QED
    BY <2>1, <2>2, <2>3
<1>20. CASE Cancel
  <2>1. SharedType' /\ SweepType' /\ AttemptType'
    BY <1>20 DEF Cancel, shared, sweep, attempt, SharedType, SweepType, AttemptType
  <2>2. EnvType' /\ HistoryType'
    BY <1>20 DEF Cancel, EnvType, HistoryType
  <2>3. ControlType' /\ Times'
    BY <1>20 DEF Cancel, sweep, attempt, ControlType, Times, InPass, InAttempt
  <2> QED
    BY <2>1, <2>2, <2>3
<1>21. CASE AdvanceClock
  <2>1. SharedType' /\ SweepType' /\ AttemptType' /\ HistoryType'
    BY <1>21 DEF AdvanceClock, shared, sweep, attempt, SharedType, SweepType, AttemptType, HistoryType
  <2>2. EnvType'
    BY <1>21 DEF AdvanceClock, EnvType
  <2>3. ControlType'
    BY <1>21 DEF AdvanceClock, sweep, attempt, ControlType, InPass, InAttempt
  <2>4. Times'
    <3>1. clock \in Nat /\ start \in Nat /\ outcome.at \in Nat
      BY DEF EnvType, AttemptType, Outcome
    <3>2. /\ pc' = pc /\ start' = start /\ outcome' = outcome
          /\ clock' = clock + 1
      BY <1>21 DEF AdvanceClock, attempt
    <3> QED
      BY <3>1, <3>2 DEF Times
  <2> QED
    BY <2>1, <2>2, <2>3, <2>4
<1>22. CASE UNCHANGED vars
  <2>1. SharedType' /\ EnvType' /\ SweepType' /\ AttemptType' /\ HistoryType'
    BY <1>22 DEF vars, shared, env, sweep, attempt, SharedType, EnvType, SweepType, AttemptType, HistoryType
  <2>2. ControlType' /\ Times'
    BY <1>22 DEF vars, env, sweep, attempt, ControlType, Times, InPass, InAttempt
  <2> QED
    BY <2>1, <2>2
<1> QED
  BY <1>1, <1>2, <1>3, <1>4, <1>5, <1>6, <1>7, <1>8, <1>9, <1>10, <1>11, <1>12,
     <1>13, <1>14, <1>15, <1>16, <1>17, <1>18, <1>19, <1>20, <1>21, <1>22
     DEF Next, Goroutine, Attempt, Returned

\* The pass and the attempt have what they need of each other's variables.
THEOREM TypeInvariant == Spec => []TypeInv
BY TypeInit, TypeStep, PTL DEF Spec

\* The poller's variables always hold what their types say.
THEOREM TypeCorrect == Spec => []TypeOK
<1>1. TypeInv => TypeOK
  BY DEF TypeInv
<1> QED
  BY <1>1, TypeInvariant, PTL

-----------------------------------------------------------------------------
(* The shape of a sweep: what is published is the previous set until the   *)
(* first publication and the working map from then on, and the working map *)
(* holds the previous snapshot of every target still pending.              *)

AnyVisited == 1 < idx \/ pc = "announce"

Published == store[phase] = IF AnyVisited THEN working ELSE previous

OnlyTargets == \A d \in Devices : d \notin TargetDevices => working[d] = Absent

Pending(i) == working[targets[i].device] = previous[targets[i].device]
Renewed(i) == /\ working[targets[i].device] # Absent
              /\ working[targets[i].device].target = targets[i]

Progress ==
    \A i \in DOMAIN targets : (Visited(i) => Renewed(i)) /\ (~Visited(i) => Pending(i))

Shape ==
    /\ InPass => Published /\ OnlyTargets /\ Progress
    /\ InAttempt => snapshot.target = target
    /\ pc = "announce" => working[target.device] = snapshot

\* Outside a pass there is nothing to show.
LEMMA ShapeIdle == ASSUME ~InPass' PROVE Shape'
BY DEF Shape, InPass, InAttempt

\* A step within an attempt that leaves the maps alone.
LEMMA ShapeWithin ==
    ASSUME Shape, InPass, pc # "announce",
           UNCHANGED <<store, sweep>>,
           pc' \in {"run", "record", "account", "publish"},
           snapshot'.target = target
    PROVE  Shape'
<1>1. UNCHANGED <<store, phase, targets, idx, previous, working, target>>
  BY DEF sweep, target
<1>2. pc' # "announce" /\ pc # "announce"
  OBVIOUS
<1>3. Published'
  BY <1>1, <1>2 DEF Shape, Published, AnyVisited
<1>4. OnlyTargets'
  BY <1>1 DEF Shape, OnlyTargets, TargetDevices
<1>5. Progress'
  BY <1>1, <1>2 DEF Shape, Progress, Visited, Renewed, Pending
<1> QED
  BY <1>1, <1>2, <1>3, <1>4, <1>5 DEF Shape

\* A step of the environment.
LEMMA ShapeStill ==
    ASSUME Shape, UNCHANGED <<store, sweep, snapshot, pc>>
    PROVE  Shape'
<1>1. UNCHANGED <<store, phase, targets, idx, previous, working, target, snapshot, pc>>
  BY DEF sweep, target
<1> QED
  BY <1>1 DEF Shape, Published, AnyVisited, OnlyTargets, TargetDevices, Progress,
              Visited, Renewed, Pending, InPass, InAttempt

LEMMA ShapeSeed == ASSUME TypeInv, Seed PROVE Shape'
<1>1. /\ pc' = "collect" /\ idx' = 1
      /\ UNCHANGED <<store, phase, targets>>
      /\ previous' = store[phase] /\ working' = Restricted(store[phase])
  BY DEF Seed, shared
<1>2. Published'
  BY <1>1 DEF Published, AnyVisited
<1>3. OnlyTargets'
  BY <1>1 DEF OnlyTargets, TargetDevices, Restricted
<1>4. targets \in Seq(Target) /\ (\A i \in DOMAIN targets : i \in Nat /\ ~(i < 1))
  BY DEF TypeInv, TypeOK, SweepType, TargetList
<1>5. \A i \in DOMAIN targets : targets[i].device \in Devices
  BY TargetsType DEF TypeInv
<1>6. Progress'
  <2>1. SUFFICES ASSUME NEW i \in DOMAIN targets
                 PROVE  ~Visited(i)' /\ Pending(i)'
    BY <1>1 DEF Progress
  <2>2. ~Visited(i)'
    BY <1>1, <1>4 DEF Visited
  <2>3. Pending(i)'
    BY <1>1, <1>5 DEF Pending, Restricted, TargetDevices
  <2> QED
    BY <2>2, <2>3
<1> QED
  BY <1>1, <1>2, <1>3, <1>6 DEF Shape, InAttempt

LEMMA ShapePublish == ASSUME TypeInv, Shape, Publish PROVE Shape'
<1>1. /\ pc = "publish" /\ pc' = "announce" /\ InPass /\ InAttempt
      /\ UNCHANGED <<phase, targets, idx, previous, snapshot, target>>
      /\ working' = [working EXCEPT ![target.device] = snapshot]
      /\ store' = [store EXCEPT ![phase] = working']
  BY DEF Publish, InPass, InAttempt, attempt, target
<1>2. /\ targets \in TargetList /\ idx \in DOMAIN targets /\ target.device \in Devices
      /\ working \in SnapshotSet /\ store \in [Phases -> SnapshotSet] /\ phase \in Phases
      /\ snapshot \in Snapshot
  BY <1>1, TargetType DEF TypeInv, TypeOK, SweepType, SharedType, ControlType
<1>3. snapshot # Absent /\ snapshot.target = target
  BY <1>1, <1>2, AbsentAssumption DEF Shape
<1>4. working'[target.device] = snapshot
  BY <1>1, <1>2 DEF SnapshotSet
<1>5. Published'
  BY <1>1, <1>2 DEF Published, AnyVisited
<1>6. OnlyTargets'
  <2>1. target.device \in TargetDevices
    BY <1>2 DEF TargetDevices, target
  <2>2. OnlyTargets
    BY <1>1 DEF Shape
  <2>3. \A d \in Devices : d # target.device => working'[d] = working[d]
    BY <1>1, <1>2 DEF SnapshotSet
  <2>4. TargetDevices' = TargetDevices
    BY <1>1 DEF TargetDevices
  <2> QED
    BY <2>1, <2>2, <2>3, <2>4 DEF OnlyTargets
<1>7. Progress'
  <2>1. SUFFICES ASSUME NEW i \in DOMAIN targets
                 PROVE  (Visited(i)' => Renewed(i)') /\ (~Visited(i)' => Pending(i)')
    BY <1>1 DEF Progress
  <2>2. CASE i = idx
    <3>1. targets[i] = target
      BY <2>2 DEF target
    <3>2. Visited(i)' /\ Renewed(i)'
      BY <1>1, <1>3, <1>4, <2>2, <3>1 DEF Visited, Renewed
    <3> QED
      BY <3>2
  <2>3. CASE i # idx
    <3>1. targets[i].device # target.device /\ targets[i].device \in Devices
      BY <1>2, <2>3, TargetsType DEF TypeInv, target
    <3>2. working'[targets[i].device] = working[targets[i].device]
      BY <1>1, <1>2, <3>1 DEF SnapshotSet
    <3>3. Visited(i)' = Visited(i)
      BY <1>1, <2>3 DEF Visited
    <3>4. (Visited(i) => Renewed(i)) /\ (~Visited(i) => Pending(i))
      BY <1>1 DEF Shape, Progress
    <3>5. Renewed(i)' = Renewed(i) /\ Pending(i)' = Pending(i)
      BY <1>1, <3>2 DEF Renewed, Pending
    <3> QED
      BY <3>3, <3>4, <3>5
  <2> QED
    BY <2>2, <2>3
<1> QED
  BY <1>1, <1>3, <1>4, <1>5, <1>6, <1>7 DEF Shape

LEMMA ShapeAnnounce == ASSUME TypeInv, Shape, Announce PROVE Shape'
<1>1. CASE EndPass
  <2>1. pc' \in {"seed", "newTicker", "drain"}
    BY <1>1 DEF EndPass, EndSweep
  <2> QED
    BY <2>1, ShapeIdle DEF InPass, InAttempt
<1>2. CASE /\ idx < Len(targets) /\ idx' = idx + 1 /\ pc' = "collect"
           /\ NoAttempt
           /\ UNCHANGED <<phase, targets, previous, working>>
  <2>1. /\ pc = "announce" /\ InPass /\ store' = store
        /\ pc' = "collect" /\ idx' = idx + 1
        /\ UNCHANGED <<phase, targets, previous, working>>
    BY <1>2 DEF Announce, AnnounceAndStep, InPass, InAttempt
  <2>2. idx \in Nat /\ 0 < idx /\ \A i \in DOMAIN targets : i \in Nat
    BY DEF TypeInv, TypeOK, SweepType, TargetList
  <2>3. Published'
    BY <2>1, <2>2 DEF Shape, Published, AnyVisited
  <2>4. OnlyTargets'
    BY <2>1 DEF Shape, OnlyTargets, TargetDevices
  <2>5. Progress'
    <3>1. SUFFICES ASSUME NEW i \in DOMAIN targets
                   PROVE  (Visited(i)' => Renewed(i)') /\ (~Visited(i)' => Pending(i)')
      BY <2>1 DEF Progress
    <3>2. i < idx + 1 <=> i < idx \/ i = idx
      BY <2>2
    <3>3. Visited(i)' = Visited(i)
      BY <2>1, <3>2 DEF Visited
    <3> QED
      BY <2>1, <3>3 DEF Shape, Progress, Renewed, Pending
  <2> QED
    BY <2>1, <2>3, <2>4, <2>5 DEF Shape, InAttempt
<1> QED
  BY <1>1, <1>2 DEF Announce, AnnounceAndStep

LEMMA ShapeStep == TypeInv /\ Shape /\ [Next]_vars => Shape'
<1> SUFFICES ASSUME TypeInv, Shape, [Next]_vars PROVE Shape'
  OBVIOUS
<1>1. CASE Begin \/ NewTicker \/ Stop \/ TakeTick \/ Drain \/ DiscoverFails \/ Discover
  <2>1. pc' \in {"done", "discover", "newTicker", "wait", "drain", "seed"}
    BY <1>1 DEF Begin, NewTicker, Stop, TakeTick, Drain, DiscoverFails, Discover, EndSweep
  <2> QED
    BY <2>1, ShapeIdle DEF InPass, InAttempt
<1>2. CASE SeedNone
  <2>1. pc' \in {"seed", "newTicker", "drain"}
    BY <1>2 DEF SeedNone, EndPass, EndSweep
  <2> QED
    BY <2>1, ShapeIdle DEF InPass, InAttempt
<1>3. CASE Seed
  BY <1>3, ShapeSeed
<1>4. CASE Publish
  BY <1>4, ShapePublish
<1>5. CASE Announce
  BY <1>5, ShapeAnnounce
<1>6. CASE Collect
  <2>1. /\ pc = "collect" /\ pc' = "run"
        /\ UNCHANGED <<store, sweep>>
        /\ snapshot' = Lookup(previous, target)
    BY <1>6 DEF Collect, shared
  <2>2. snapshot'.target = target
    <3>1. previous \in SnapshotSet /\ target.device \in Devices
      BY <2>1, TargetType DEF TypeInv, TypeOK, SweepType, InPass
    <3>2. previous[target.device] # Absent => previous[target.device] \in Snapshot
      BY <3>1 DEF SnapshotSet
    <3> QED
      BY <2>1, <3>2 DEF Lookup, ZeroSnapshot, Snapshot
  <2> QED
    BY <2>1, <2>2, ShapeWithin DEF InPass
<1>7. CASE RunCancelled \/ RecordCancelled \/ AccountCancelled
  <2>1. pc' \in {"newTicker", "drain"}
    BY <1>7 DEF RunCancelled, RecordCancelled, AccountCancelled, Abort, EndSweep
  <2> QED
    BY <2>1, ShapeIdle DEF InPass, InAttempt
<1>8. CASE QueryRejected \/ QueryFailed \/ QueryAnswered
  <2>1. /\ pc = "run" /\ pc' \in {"run", "record"}
        /\ UNCHANGED <<store, sweep, snapshot>>
    BY <1>8 DEF QueryRejected, QueryFailed, QueryAnswered, shared
  <2>2. snapshot'.target = target
    BY <2>1 DEF Shape, InAttempt
  <2> QED
    BY <2>1, <2>2, ShapeWithin DEF InPass, InAttempt
<1>9. CASE Record
  <2>1. /\ pc = "record" /\ pc' \in {"account", "publish"}
        /\ UNCHANGED <<store, sweep>> /\ snapshot' = Folded
    BY <1>9 DEF Record
  <2>2. snapshot \in Snapshot /\ snapshot.target = target
    BY <2>1 DEF Shape, InAttempt, TypeInv, TypeOK, ControlType
  <2>3. snapshot'.target = target
    BY <2>1, <2>2 DEF Folded, Snapshot
  <2> QED
    BY <2>1, <2>3, ShapeWithin DEF InPass, InAttempt
<1>10. CASE Account
  <2>1. /\ pc = "account" /\ pc' = "publish"
        /\ UNCHANGED <<store, sweep, snapshot>>
    BY <1>10 DEF Account, attempt
  <2>2. snapshot'.target = target
    BY <2>1 DEF Shape, InAttempt
  <2> QED
    BY <2>1, <2>2, ShapeWithin DEF InPass, InAttempt
<1>11. CASE Tick \/ Cancel \/ AdvanceClock \/ UNCHANGED vars
  <2>1. UNCHANGED <<store, sweep, snapshot, pc>>
    BY <1>11 DEF Tick, Cancel, AdvanceClock, vars, shared, attempt
  <2> QED
    BY <2>1, ShapeStill
<1> QED
  BY <1>1, <1>2, <1>3, <1>4, <1>5, <1>6, <1>7, <1>8, <1>9, <1>10, <1>11
     DEF Next, Goroutine, Attempt, Returned

\* The store is the previous set, then the working map, at every step of a pass
\* (poller.go:268-315).
THEOREM ShapeInvariant == Spec => []Shape
<1>1. Init => Shape
  BY DEF Init, Shape, InPass, InAttempt
<1> QED
  BY <1>1, ShapeStep, TypeInvariant, PTL DEF Spec

\* The shape of a sweep is what a scrape sees of it.
LEMMA ShapeView == TypeOK /\ Shape => MidSweepView
<1> SUFFICES ASSUME TypeOK, Shape, InPass, NEW d \in Devices
             PROVE  \/ \E i \in DOMAIN targets :
                          /\ targets[i].device = d
                          /\ IF Visited(i)
                             THEN /\ store[phase][d] # Absent
                                  /\ store[phase][d].target = targets[i]
                             ELSE store[phase][d] = previous[d]
                    \/ /\ d \notin TargetDevices
                       /\ store[phase][d] = IF \E i \in DOMAIN targets : Visited(i)
                                            THEN Absent ELSE previous[d]
  BY DEF MidSweepView
<1>1. /\ Published /\ OnlyTargets /\ Progress
  BY DEF Shape
<1>2. /\ idx \in DOMAIN targets /\ idx \in Nat /\ 0 < idx
      /\ \A i \in DOMAIN targets : i \in Nat /\ 0 < i
      /\ 1 \in DOMAIN targets
  BY DEF TypeOK, SweepType, ControlType, TargetList
<1>3. (\E i \in DOMAIN targets : Visited(i)) <=> AnyVisited
  BY <1>2 DEF Visited, AnyVisited
<1>4. CASE d \in TargetDevices
  <2>1. PICK i \in DOMAIN targets : targets[i].device = d
    BY <1>4 DEF TargetDevices
  <2>2. CASE Visited(i)
    BY <1>1, <1>3, <2>1, <2>2 DEF Published, Progress, Renewed
  <2>3. CASE ~Visited(i)
    BY <1>1, <2>1, <2>3 DEF Published, Progress, Pending
  <2> QED
    BY <2>2, <2>3, <2>1
<1>5. CASE d \notin TargetDevices
  BY <1>1, <1>3, <1>5 DEF Published, OnlyTargets
<1> QED
  BY <1>4, <1>5

\* A scrape in the middle of a sweep never meets a gap.
THEOREM MidSweepViewHolds == Spec => []MidSweepView
BY ShapeView, ShapeInvariant, TypeCorrect, PTL

-----------------------------------------------------------------------------
(* The accounting of failed queries. What an attempt has been refused and  *)
(* not yet counted is owed; counted and owed together are the failures     *)
(* seen, until the context is done and what is owed may be given up.       *)

Rejection == <<phase, target, "exit_error">>

OwedEye(k) ==
    IF k = Rejection /\ (pc = "account" \/ (pc \in {"run", "record"} /\ EyeWasRejected))
    THEN 1 ELSE 0
OwedCombined(k) ==
    IF k = Rejection /\ pc \in {"run", "record"} /\ query = "baseline" THEN 1 ELSE 0
OwedOwn(k) ==
    IF k = <<phase, target, outcome.error>> /\ pc = "record" THEN 1 ELSE 0
Owed(k) == OwedEye(k) + OwedCombined(k) + OwedOwn(k)

Balanced(k) ==
    /\ errors[k] + Owed(k) <= failed[k]
    /\ ~ctxDone => errors[k] + Owed(k) = failed[k]
Ledger == \A k \in ErrorKeys : Balanced(k)

\* The Eye query runs only when it is enabled.
EyeAsked == pc = "run" /\ query = "eye" => ShowEye

LEMMA OwedNat ==
    ASSUME NEW k
    PROVE  /\ OwedEye(k) \in {0, 1} /\ OwedCombined(k) \in {0, 1} /\ OwedOwn(k) \in {0, 1}
           /\ Owed(k) \in Nat
<1>1. OwedEye(k) \in {0, 1} /\ OwedCombined(k) \in {0, 1} /\ OwedOwn(k) \in {0, 1}
  BY DEF OwedEye, OwedCombined, OwedOwn
<1> QED
  BY <1>1 DEF Owed

\* Between attempts nothing is owed.
LEMMA OwedNone ==
    ASSUME pc \notin {"run", "record", "account"}, NEW k
    PROVE  Owed(k) = 0
BY DEF Owed, OwedEye, OwedCombined, OwedOwn

LEMMA CounterType ==
    ASSUME TypeInv, NEW k \in ErrorKeys
    PROVE  errors[k] \in Nat /\ failed[k] \in Nat
BY DEF TypeInv, TypeOK, SharedType, HistoryType

LEMMA RejectionType ==
    ASSUME TypeInv, InPass, NEW r \in Reasons
    PROVE  <<phase, target, r>> \in ErrorKeys
<1>1. target \in Target
  BY TargetType DEF TypeInv
<1>2. phase \in Phases
  BY DEF TypeInv, TypeOK, SweepType
<1> QED
  BY <1>1, <1>2 DEF ErrorKeys

\* A step outside the attempts.
LEMMA LedgerIdle ==
    ASSUME Ledger, UNCHANGED <<errors, failed, ctxDone>>,
           pc \notin {"run", "record", "account"},
           pc' \notin {"run", "record", "account"}
    PROVE  Ledger'
<1> SUFFICES ASSUME NEW k \in ErrorKeys PROVE Balanced(k)'
  BY DEF Ledger
<1>1. Owed(k) = 0
  BY OwedNone
<1>2. Owed(k)' = 0
  BY DEF Owed, OwedEye, OwedCombined, OwedOwn
<1> QED
  BY <1>1, <1>2 DEF Ledger, Balanced

LEMMA LedgerStill ==
    ASSUME Ledger, UNCHANGED <<errors, failed, phase, targets, idx, pc, query, outcome>>,
           ctxDone => ctxDone'
    PROVE  Ledger'
<1> SUFFICES ASSUME NEW k \in ErrorKeys PROVE Balanced(k)'
  BY DEF Ledger
<1>1. Owed(k)' = Owed(k)
  BY DEF Owed, OwedEye, OwedCombined, OwedOwn, Rejection, target, EyeWasRejected
<1> QED
  BY <1>1 DEF Ledger, Balanced

LEMMA LedgerAbort == ASSUME TypeInv, Ledger, Abort PROVE Ledger'
<1>1. /\ ctxDone /\ UNCHANGED <<errors, failed, ctxDone>>
      /\ pc' \in {"newTicker", "drain"}
  BY DEF Abort, EndSweep, shared, env
<1> SUFFICES ASSUME NEW k \in ErrorKeys PROVE Balanced(k)'
  BY DEF Ledger
<1>2. Owed(k)' = 0
  BY <1>1 DEF Owed, OwedEye, OwedCombined, OwedOwn
<1>3. errors[k] + Owed(k) <= failed[k] /\ Owed(k) \in Nat
  BY OwedNat DEF Ledger, Balanced
<1>4. errors[k] <= failed[k] /\ errors[k] \in Nat
  BY <1>3, CounterType
<1> QED
  BY <1>1, <1>2, <1>4 DEF Balanced

LEMMA LedgerCollect == ASSUME TypeInv, Ledger, Collect PROVE Ledger'
<1>1. /\ pc = "collect" /\ pc' = "run" /\ query' = FirstQuery
      /\ UNCHANGED <<errors, failed, ctxDone>>
  BY DEF Collect, shared, env
<1>2. query' # "baseline" /\ ~EyeWasRejected'
  BY <1>1 DEF FirstQuery, EyeWasRejected
<1> SUFFICES ASSUME NEW k \in ErrorKeys PROVE Balanced(k)'
  BY DEF Ledger
<1>3. Owed(k) = 0
  BY <1>1, OwedNone
<1>4. Owed(k)' = 0
  BY <1>1, <1>2 DEF Owed, OwedEye, OwedCombined, OwedOwn
<1> QED
  BY <1>1, <1>3, <1>4 DEF Ledger, Balanced

\* A rejected query moves the attempt one fallback down: one more is owed.
LEMMA LedgerRejected == ASSUME TypeInv, EyeAsked, Ledger, QueryRejected PROVE Ledger'
<1>1. /\ pc = "run" /\ pc' = "run" /\ query' = Fallback[query] /\ query \in {"eye", "combined"}
      /\ failed' = [failed EXCEPT ![Rejection] = @ + 1]
      /\ UNCHANGED <<errors, ctxDone, phase, targets, idx, target, outcome>>
  BY DEF QueryRejected, Failing, Rejection, shared, env, sweep, Fallback, target
<1>2. Rejection \in ErrorKeys
  BY <1>1, RejectionType DEF Rejection, InPass, InAttempt, Reasons
<1> SUFFICES ASSUME NEW k \in ErrorKeys PROVE Balanced(k)'
  BY DEF Ledger
<1>3. Balanced(k) /\ errors[k] \in Nat /\ failed[k] \in Nat /\ Owed(k) \in Nat
  BY CounterType, OwedNat DEF Ledger
<1>4. Rejection' = Rejection
  BY <1>1 DEF Rejection
<1>5. CASE k # Rejection
  <2>1. failed'[k] = failed[k]
    BY <1>1, <1>5 DEF TypeInv, TypeOK, HistoryType
  <2>2. Owed(k)' = Owed(k)
    BY <1>1, <1>4, <1>5 DEF Owed, OwedEye, OwedCombined, OwedOwn
  <2> QED
    BY <1>1, <1>3, <2>1, <2>2 DEF Balanced
<1>6. CASE k = Rejection
  <2>1. failed'[k] = failed[k] + 1
    BY <1>1, <1>2, <1>6 DEF TypeInv, TypeOK, HistoryType
  <2>2. OwedOwn(k) = 0 /\ OwedOwn(k)' = 0
    BY <1>1 DEF OwedOwn
  <2>3. OwedEye(k)' + OwedCombined(k)' = OwedEye(k) + OwedCombined(k) + 1
    <3>1. CASE query = "eye"
      <4>1. query' = "combined"
        BY <1>1, <3>1 DEF Fallback
      <4>2. ShowEye
        BY <1>1, <3>1 DEF EyeAsked
      <4> QED
        BY <1>1, <1>4, <1>6, <3>1, <4>1, <4>2 DEF OwedEye, OwedCombined, EyeWasRejected
    <3>2. CASE query = "combined"
      <4>1. query' = "baseline"
        BY <1>1, <3>2 DEF Fallback
      <4> QED
        BY <1>1, <1>4, <1>6, <3>2, <4>1 DEF OwedEye, OwedCombined, EyeWasRejected
    <3> QED
      BY <1>1, <3>1, <3>2
  <2>4. Owed(k)' = Owed(k) + 1
    BY <2>2, <2>3, OwedNat DEF Owed
  <2> QED
    BY <1>1, <1>3, <2>1, <2>4 DEF Balanced
<1> QED
  BY <1>5, <1>6

\* An error that ends the attempt is owed until it is recorded.
LEMMA LedgerAnswered ==
    ASSUME TypeInv, Ledger, QueryFailed \/ QueryAnswered PROVE Ledger'
<1>1. /\ pc = "run" /\ pc' = "record"
      /\ UNCHANGED <<errors, ctxDone, phase, targets, idx, target, query>>
  BY DEF QueryFailed, QueryAnswered, shared, env, sweep, target
<1> SUFFICES ASSUME NEW k \in ErrorKeys PROVE Balanced(k)'
  BY DEF Ledger
<1>2. Balanced(k) /\ errors[k] \in Nat /\ failed[k] \in Nat /\ Owed(k) \in Nat
  BY CounterType, OwedNat DEF Ledger
<1>3. OwedEye(k)' = OwedEye(k) /\ OwedCombined(k)' = OwedCombined(k) /\ OwedOwn(k) = 0
  BY <1>1 DEF OwedEye, OwedCombined, OwedOwn, Rejection, EyeWasRejected
<1>4. CASE QueryFailed
  <2>1. PICK error \in RunReasons \cup {"invalid_json"} :
          /\ outcome' = [error |-> error, data |-> {}, at |-> clock]
          /\ failed' = [failed EXCEPT ![<<phase, target, error>>] = @ + 1]
    BY <1>4 DEF QueryFailed, Failing
  <2>2. <<phase, target, error>> \in ErrorKeys
    <3>1. error \in Reasons
      BY PollerAssumption DEF Reasons
    <3> QED
      BY <1>1, <3>1, RejectionType DEF InPass, InAttempt
  <2>3. outcome'.error = error
    BY <2>1
  <2>4. CASE k = <<phase, target, error>>
    <3>1. failed'[k] = failed[k] + 1 /\ OwedOwn(k)' = 1
      BY <1>1, <2>1, <2>2, <2>3, <2>4 DEF TypeInv, TypeOK, HistoryType, OwedOwn
    <3>2. Owed(k)' = Owed(k) + 1
      BY <1>3, <3>1, OwedNat DEF Owed
    <3> QED
      BY <1>1, <1>2, <3>1, <3>2 DEF Balanced
  <2>5. CASE k # <<phase, target, error>>
    <3>1. failed'[k] = failed[k] /\ OwedOwn(k)' = 0
      BY <1>1, <2>1, <2>3, <2>5 DEF TypeInv, TypeOK, HistoryType, OwedOwn
    <3>2. Owed(k)' = Owed(k)
      BY <1>3, <3>1, OwedNat DEF Owed
    <3> QED
      BY <1>1, <1>2, <3>1, <3>2 DEF Balanced
  <2> QED
    BY <2>4, <2>5
<1>5. CASE QueryAnswered
  <2>1. outcome'.error = NoError /\ failed' = failed
    <3>1. PICK response \in Responses :
            outcome' = [error |-> NoError, data |-> response, at |-> clock]
      BY <1>5 DEF QueryAnswered
    <3>2. failed' = failed
      BY <1>5 DEF QueryAnswered
    <3> QED
      BY <3>1, <3>2
  <2>2. OwedOwn(k)' = 0
    <3>1. PICK p \in Phases, t \in Target, r \in Reasons : k = <<p, t, r>>
      BY DEF ErrorKeys
    <3>2. r # NoError
      BY DEF Reasons
    <3> QED
      BY <1>1, <2>1, <3>1, <3>2 DEF OwedOwn
  <2>3. Owed(k)' = Owed(k)
    BY <1>3, <2>2, OwedNat DEF Owed
  <2> QED
    BY <1>1, <1>2, <2>1, <2>3 DEF Balanced
<1> QED
  BY <1>4, <1>5

\* What is recorded is no longer owed.
LEMMA LedgerRecord == ASSUME TypeInv, Shape, Ledger, Record PROVE Ledger'
<1>1. /\ pc = "record" /\ pc' = (IF EyeWasRejected THEN "account" ELSE "publish")
      /\ errors' = [k \in ErrorKeys |-> errors[k] + Counted(k)]
      /\ UNCHANGED <<failed, ctxDone, phase, targets, idx, target, query>>
  BY DEF Record, env, sweep, target
<1>2. snapshot.target = target
  BY <1>1 DEF Shape, InAttempt
<1> SUFFICES ASSUME NEW k \in ErrorKeys PROVE Balanced(k)'
  BY DEF Ledger
<1>3. Balanced(k) /\ errors[k] \in Nat /\ failed[k] \in Nat /\ Owed(k) \in Nat
  BY CounterType, OwedNat DEF Ledger
<1>4. Counted(k) = OwedOwn(k) + OwedCombined(k)
  BY <1>1, <1>2 DEF Counted, OwedOwn, OwedCombined, Rejection
<1>5. OwedEye(k)' = OwedEye(k) /\ OwedCombined(k)' = 0 /\ OwedOwn(k)' = 0
  BY <1>1 DEF OwedEye, OwedCombined, OwedOwn, Rejection, EyeWasRejected
<1>6. errors'[k] + Owed(k)' = errors[k] + Owed(k)
  BY <1>1, <1>3, <1>4, <1>5, OwedNat DEF Owed
<1> QED
  BY <1>1, <1>3, <1>6 DEF Balanced

LEMMA LedgerAccount == ASSUME TypeInv, Ledger, Account PROVE Ledger'
<1>1. /\ pc = "account" /\ pc' = "publish"
      /\ errors' = [errors EXCEPT ![Rejection] = @ + 1]
      /\ UNCHANGED <<failed, ctxDone, phase, targets, idx, target, query, outcome>>
  BY DEF Account, env, sweep, attempt, target, Rejection
<1>2. Rejection \in ErrorKeys
  BY <1>1, RejectionType DEF Rejection, InPass, InAttempt, Reasons
<1> SUFFICES ASSUME NEW k \in ErrorKeys PROVE Balanced(k)'
  BY DEF Ledger
<1>3. Balanced(k) /\ errors[k] \in Nat /\ failed[k] \in Nat
  BY CounterType DEF Ledger
<1>4. Owed(k)' = 0 /\ OwedCombined(k) = 0 /\ OwedOwn(k) = 0
  BY <1>1 DEF Owed, OwedEye, OwedCombined, OwedOwn
<1>5. errors'[k] = errors[k] + OwedEye(k)
  <2>1. CASE k = Rejection
    BY <1>1, <1>2, <2>1 DEF OwedEye, TypeInv, TypeOK, SharedType
  <2>2. CASE k # Rejection
    <3>1. errors'[k] = errors[k]
      BY <1>1, <2>2 DEF TypeInv, TypeOK, SharedType
    <3>2. OwedEye(k) = 0
      BY <2>2 DEF OwedEye
    <3> QED
      BY <1>3, <3>1, <3>2
  <2> QED
    BY <2>1, <2>2
<1>6. errors'[k] + Owed(k)' = errors[k] + Owed(k)
  BY <1>3, <1>4, <1>5, OwedNat DEF Owed
<1> QED
  BY <1>1, <1>3, <1>6 DEF Balanced

LEMMA EyeAskedStep == EyeAsked /\ [Next]_vars => EyeAsked'
<1> SUFFICES ASSUME EyeAsked, [Next]_vars, pc' = "run", query' = "eye" PROVE ShowEye
  BY DEF EyeAsked
<1>1. CASE Collect
  BY <1>1 DEF Collect, FirstQuery
<1>2. CASE QueryRejected
  BY <1>2 DEF QueryRejected, Fallback
<1>3. CASE UNCHANGED <<pc, query>>
  BY <1>3 DEF EyeAsked
<1>4. Collect \/ QueryRejected \/ UNCHANGED <<pc, query>>
  BY DEF Next, Goroutine, Attempt, Begin, NewTicker, Stop, TakeTick, Drain, DiscoverFails,
         Discover, SeedNone, Seed, Publish, Announce, AnnounceAndStep, EndPass, EndSweep,
         RunCancelled, RecordCancelled, AccountCancelled, Abort, QueryFailed,
         QueryAnswered, Record, Account, Tick, Cancel, AdvanceClock, Returned, vars, attempt
<1> QED
  BY <1>1, <1>2, <1>3, <1>4

LEMMA LedgerStep == TypeInv /\ Shape /\ EyeAsked /\ Ledger /\ [Next]_vars => Ledger'
<1> SUFFICES ASSUME TypeInv, Shape, EyeAsked, Ledger, [Next]_vars PROVE Ledger'
  OBVIOUS
<1>1. CASE Begin \/ NewTicker \/ Stop \/ TakeTick \/ Drain
  BY <1>1, LedgerIdle DEF Begin, NewTicker, Stop, TakeTick, Drain, shared, env
<1>2. CASE DiscoverFails \/ Discover \/ SeedNone \/ Seed
  BY <1>2, LedgerIdle
     DEF DiscoverFails, Discover, SeedNone, Seed, EndSweep, EndPass, shared, env
<1>3. CASE Publish \/ Announce
  BY <1>3, LedgerIdle DEF Publish, Announce, AnnounceAndStep, EndSweep, EndPass, shared, env
<1>4. CASE Collect
  BY <1>4, LedgerCollect
<1>5. CASE RunCancelled \/ RecordCancelled \/ AccountCancelled
  BY <1>5, LedgerAbort DEF RunCancelled, RecordCancelled, AccountCancelled
<1>6. CASE QueryRejected
  BY <1>6, LedgerRejected
<1>7. CASE QueryFailed \/ QueryAnswered
  BY <1>7, LedgerAnswered
<1>8. CASE Record
  BY <1>8, LedgerRecord
<1>9. CASE Account
  BY <1>9, LedgerAccount
<1>10. CASE Tick \/ Cancel \/ AdvanceClock \/ UNCHANGED vars
  BY <1>10, LedgerStill DEF Tick, Cancel, AdvanceClock, vars, shared, env, sweep, attempt
<1> QED
  BY <1>1, <1>2, <1>3, <1>4, <1>5, <1>6, <1>7, <1>8, <1>9, <1>10
     DEF Next, Goroutine, Attempt, Returned

\* No failed query is lost or counted twice.
THEOREM ErrorLedgerHolds == Spec => []ErrorLedger
<1>1. Init => EyeAsked /\ Ledger
  <2> SUFFICES ASSUME Init PROVE EyeAsked /\ Ledger
    OBVIOUS
  <2>1. pc = "start" /\ \A k \in ErrorKeys : errors[k] = 0 /\ failed[k] = 0
    BY DEF Init
  <2>2. \A k \in ErrorKeys : Owed(k) = 0
    BY <2>1, OwedNone
  <2> QED
    BY <2>1, <2>2 DEF EyeAsked, Ledger, Balanced
<1>2. TypeInv /\ Ledger => ErrorLedger
  <2> SUFFICES ASSUME TypeInv, Ledger PROVE ErrorLedger
    OBVIOUS
  <2>1. \A k \in ErrorKeys : errors[k] <= failed[k]
    <3> TAKE k \in ErrorKeys
    <3>1. errors[k] + Owed(k) <= failed[k] /\ Owed(k) \in Nat
      BY OwedNat DEF Ledger, Balanced
    <3> QED
      BY <3>1, CounterType
  <2>2. ASSUME ~ctxDone, pc \notin {"run", "record", "account"}
        PROVE  errors = failed
    <3>1. \A k \in ErrorKeys : errors[k] + Owed(k) = failed[k] /\ Owed(k) = 0
      BY <2>2, OwedNone DEF Ledger, Balanced
    <3>2. \A k \in ErrorKeys : errors[k] = failed[k]
      BY <3>1, CounterType
    <3> QED
      BY <3>2 DEF TypeInv, TypeOK, SharedType, HistoryType
  <2> QED
    BY <2>1, <2>2 DEF ErrorLedger
<1> QED
  BY <1>1, <1>2, EyeAskedStep, LedgerStep, TypeInvariant, ShapeInvariant, PTL DEF Spec

-----------------------------------------------------------------------------
(* The refinement. The snapshot of an attempt descends from what the       *)
(* previous set knew of the device, and no time is ahead of the clock.     *)

NotAhead(set) == \A d \in Devices : set[d] # Absent => set[d].lastSuccess <= clock

KnownData == IF previous[target.device] = Absent THEN {} ELSE previous[target.device].data
KnownSuccess ==
    IF previous[target.device] = Absent THEN Never ELSE previous[target.device].lastSuccess

Renewal ==
    \/ /\ snapshot.lastError = NoError /\ snapshot.lastSuccess # Never
       /\ KnownSuccess <= snapshot.lastSuccess /\ snapshot.lastSuccess <= clock
    \/ /\ snapshot.lastError # NoError
       /\ snapshot.data = KnownData /\ snapshot.lastSuccess = KnownSuccess

StoresFresh == \A p \in Phases : NotAhead(store[p])
MapsFresh == InPass => NotAhead(previous) /\ NotAhead(working)
AttemptFresh ==
    /\ pc \in {"run", "record"} =>
          /\ snapshot.data = KnownData /\ snapshot.lastSuccess = KnownSuccess
          /\ KnownSuccess <= start
    /\ pc \in {"account", "publish", "announce"} => Renewal
Fresh == StoresFresh /\ MapsFresh /\ AttemptFresh

LEMMA KnownType ==
    ASSUME TypeInv, InPass, NotAhead(previous)
    PROVE  KnownSuccess \in Nat /\ KnownSuccess <= clock
<1>1. previous \in SnapshotSet /\ target.device \in Devices /\ clock \in Nat
  BY TargetType DEF TypeInv, TypeOK, SweepType, EnvType
<1>2. CASE previous[target.device] = Absent
  BY <1>1, <1>2 DEF KnownSuccess
<1>3. CASE previous[target.device] # Absent
  <2>1. previous[target.device] \in Snapshot
    BY <1>1, <1>3 DEF SnapshotSet
  <2>2. KnownSuccess = previous[target.device].lastSuccess
    BY <1>3 DEF KnownSuccess
  <2> QED
    BY <1>1, <1>3, <2>1, <2>2 DEF NotAhead, Snapshot
<1> QED
  BY <1>2, <1>3

\* A step of the environment, which never turns the clock back.
LEMMA FreshStill ==
    ASSUME TypeInv, TypeInv', Fresh, UNCHANGED <<store, sweep, attempt, pc>>,
           clock <= clock'
    PROVE  Fresh'
<1>1. clock \in Nat /\ clock' \in Nat
  BY DEF TypeInv, TypeOK, EnvType
<1>2. /\ UNCHANGED <<phase, targets, idx, previous, working, target, snapshot, start>>
      /\ KnownData' = KnownData /\ KnownSuccess' = KnownSuccess
  BY DEF sweep, attempt, target, KnownData, KnownSuccess
<1>3. ASSUME NEW set \in SnapshotSet, NotAhead(set)
      PROVE  \A d \in Devices : set[d] # Absent => set[d].lastSuccess <= clock'
  <2> SUFFICES ASSUME NEW d \in Devices, set[d] # Absent PROVE set[d].lastSuccess <= clock'
    OBVIOUS
  <2>1. set[d].lastSuccess \in Nat /\ set[d].lastSuccess <= clock
    BY <1>3 DEF NotAhead, SnapshotSet, Snapshot
  <2> QED
    BY <1>1, <2>1
<1>4. StoresFresh'
  <2> SUFFICES ASSUME NEW p \in Phases PROVE NotAhead(store[p])'
    BY DEF StoresFresh
  <2>1. store[p] \in SnapshotSet /\ store'[p] = store[p] /\ NotAhead(store[p])
    BY DEF Fresh, StoresFresh, TypeInv, TypeOK, SharedType
  <2> QED
    BY <1>3, <2>1 DEF NotAhead
<1>5. MapsFresh'
  <2>1. previous \in SnapshotSet /\ working \in SnapshotSet
    BY DEF TypeInv, TypeOK, SweepType
  <2> QED
    BY <1>2, <1>3, <2>1 DEF Fresh, MapsFresh, NotAhead, InPass, InAttempt
<1>6. AttemptFresh'
  <2>1. CASE pc \in {"account", "publish", "announce"}
    <3>1. Renewal /\ snapshot.lastSuccess \in Nat
      BY <2>1 DEF Fresh, AttemptFresh, TypeInv, TypeOK, ControlType, InAttempt, Snapshot
    <3>2. snapshot.lastSuccess <= clock => snapshot.lastSuccess <= clock'
      BY <1>1, <3>1
    <3>3. Renewal'
      BY <1>2, <3>1, <3>2 DEF Renewal
    <3> QED
      BY <2>1, <3>3 DEF AttemptFresh
  <2>2. CASE pc \notin {"account", "publish", "announce"}
    BY <1>2, <2>2 DEF Fresh, AttemptFresh
  <2> QED
    BY <2>1, <2>2
<1> QED
  BY <1>4, <1>5, <1>6 DEF Fresh

\* Outside a pass only the stores matter, and an emptied one is harmless.
LEMMA FreshIdle ==
    ASSUME TypeInv, Fresh, ~InPass', clock' = clock,
           store' = store \/ store' = [store EXCEPT ![phase] = EmptySet]
    PROVE  Fresh'
<1>1. StoresFresh'
  <2> SUFFICES ASSUME NEW p \in Phases, NEW d \in Devices, store'[p][d] # Absent
               PROVE  store'[p][d].lastSuccess <= clock
    BY DEF StoresFresh, NotAhead
  <2>1. store'[p] = store[p] \/ store'[p] = EmptySet
    BY DEF TypeInv, TypeOK, SharedType
  <2>2. store'[p] = store[p]
    BY <2>1 DEF EmptySet
  <2> QED
    BY <2>2 DEF Fresh, StoresFresh, NotAhead
<1>2. MapsFresh' /\ AttemptFresh'
  BY DEF MapsFresh, AttemptFresh, InPass, InAttempt
<1> QED
  BY <1>1, <1>2 DEF Fresh

LEMMA FreshSeed == ASSUME TypeInv, Fresh, Seed PROVE Fresh'
<1>1. /\ pc' = "collect" /\ UNCHANGED <<store, clock>>
      /\ previous' = store[phase] /\ working' = Restricted(store[phase])
  BY DEF Seed, shared, env
<1>2. NotAhead(store[phase])
  BY DEF Fresh, StoresFresh, TypeInv, TypeOK, SweepType
<1>3. NotAhead(previous)'
  BY <1>1, <1>2 DEF NotAhead
<1>4. NotAhead(working)'
  BY <1>1, <1>2 DEF NotAhead, Restricted
<1> QED
  BY <1>1, <1>3, <1>4 DEF Fresh, StoresFresh, NotAhead, MapsFresh, AttemptFresh

LEMMA FreshCollect == ASSUME TypeInv, Fresh, Collect PROVE Fresh'
<1>1. /\ pc = "collect" /\ pc' = "run" /\ InPass
      /\ snapshot' = Lookup(previous, target) /\ start' = clock
      /\ UNCHANGED <<store, clock, previous, working, target>>
  BY DEF Collect, shared, env, sweep, target, InPass
<1>2. KnownSuccess <= clock
  BY <1>1, KnownType DEF Fresh, MapsFresh
<1>3. previous \in SnapshotSet /\ target.device \in Devices
  BY <1>1, TargetType DEF TypeInv, TypeOK, SweepType
<1>4. snapshot'.data = KnownData /\ snapshot'.lastSuccess = KnownSuccess
  <2>1. CASE previous[target.device] = Absent
    BY <1>1, <2>1 DEF Lookup, ZeroSnapshot, KnownData, KnownSuccess
  <2>2. CASE previous[target.device] # Absent
    <3>1. previous[target.device] \in Snapshot
      BY <1>3, <2>2 DEF SnapshotSet
    <3> QED
      BY <1>1, <2>2, <3>1 DEF Lookup, Snapshot, KnownData, KnownSuccess
  <2> QED
    BY <2>1, <2>2
<1>5. KnownData' = KnownData /\ KnownSuccess' = KnownSuccess
  BY <1>1 DEF KnownData, KnownSuccess
<1>6. AttemptFresh'
  BY <1>1, <1>2, <1>4, <1>5 DEF AttemptFresh
<1>7. MapsFresh' /\ StoresFresh'
  BY <1>1 DEF Fresh, MapsFresh, StoresFresh, NotAhead
<1> QED
  BY <1>6, <1>7 DEF Fresh

LEMMA FreshRecord == ASSUME TypeInv, Fresh, Record PROVE Fresh'
<1>1. /\ pc = "record" /\ pc' \in {"account", "publish"} /\ InPass
      /\ snapshot' = Folded
      /\ UNCHANGED <<store, clock, previous, working, target>>
  BY DEF Record, env, sweep, target, InPass, InAttempt
<1>2. /\ snapshot.data = KnownData /\ snapshot.lastSuccess = KnownSuccess
      /\ KnownSuccess <= start /\ KnownSuccess \in Nat
  BY <1>1, KnownType DEF Fresh, AttemptFresh, MapsFresh
<1>3. /\ start <= outcome.at /\ outcome.at <= clock /\ outcome.at # Never
      /\ start \in Nat /\ outcome.at \in Nat /\ snapshot \in Snapshot
  BY <1>1 DEF TypeInv, TypeOK, Times, AttemptType, Outcome, ControlType, InAttempt
<1>4. KnownSuccess <= outcome.at
  BY <1>2, <1>3
<1>5. KnownData' = KnownData /\ KnownSuccess' = KnownSuccess
  BY <1>1 DEF KnownData, KnownSuccess
<1>6. Renewal'
  <2>1. CASE outcome.error = NoError
    <3>1. snapshot'.lastError = NoError /\ snapshot'.lastSuccess = outcome.at
      BY <1>1, <1>3, <2>1 DEF Folded, Snapshot
    <3> QED
      BY <1>1, <1>3, <1>4, <1>5, <3>1 DEF Renewal
  <2>2. CASE outcome.error # NoError
    <3>1. /\ snapshot'.lastError = outcome.error
          /\ snapshot'.data = snapshot.data /\ snapshot'.lastSuccess = snapshot.lastSuccess
      BY <1>1, <1>3, <2>2 DEF Folded, Snapshot
    <3> QED
      BY <1>2, <1>5, <2>2, <3>1 DEF Renewal
  <2> QED
    BY <2>1, <2>2
<1>7. MapsFresh' /\ StoresFresh'
  BY <1>1 DEF Fresh, MapsFresh, StoresFresh, NotAhead
<1> QED
  BY <1>1, <1>6, <1>7 DEF Fresh, AttemptFresh

\* What a publication does: one device renewed, the others kept or dropped.
LEMMA PublishRenews ==
    ASSUME TypeInv, Shape, Fresh, Publish
    PROVE  LET old == store[phase]
               new == store'[phase]
               d   == target.device
           IN  /\ d \in Devices /\ new \in SnapshotSet
               /\ new[d] = snapshot /\ snapshot \in Snapshot /\ snapshot.target.device = d
               /\ old[d] = previous[d]
               /\ \A e \in Devices : e # d => new[e] = Absent \/ new[e] = old[e]
               /\ \A p \in Phases : p # phase => store'[p] = store[p]
               /\ Renewal
<1>1. /\ pc = "publish" /\ InPass /\ InAttempt
      /\ working' = [working EXCEPT ![target.device] = snapshot]
      /\ store' = [store EXCEPT ![phase] = working']
  BY DEF Publish, InPass, InAttempt
<1>2. /\ target.device \in Devices /\ phase \in Phases /\ idx \in DOMAIN targets
      /\ working \in SnapshotSet /\ store \in [Phases -> SnapshotSet]
      /\ snapshot \in Snapshot
  BY <1>1, TargetType DEF TypeInv, TypeOK, SweepType, SharedType, ControlType
<1>3. Published /\ OnlyTargets /\ Progress /\ snapshot.target = target /\ Renewal
  BY <1>1 DEF Shape, Fresh, AttemptFresh
<1>4. store'[phase] = working' /\ \A p \in Phases : p # phase => store'[p] = store[p]
  BY <1>1, <1>2
<1>5. working' \in SnapshotSet /\ working'[target.device] = snapshot
  BY <1>1, <1>2 DEF SnapshotSet
<1>6. ~Visited(idx)
  <2>1. idx \in Nat
    BY DEF TypeInv, TypeOK, SweepType
  <2> QED
    BY <1>1, <2>1 DEF Visited
<1>7. working[target.device] = previous[target.device]
  BY <1>2, <1>3, <1>6 DEF Progress, Pending, target
<1>8. store[phase][target.device] = previous[target.device]
  BY <1>3, <1>7 DEF Published
<1>9. \A e \in Devices : e # target.device =>
        working'[e] = Absent \/ working'[e] = store[phase][e]
  <2> SUFFICES ASSUME NEW e \in Devices, e # target.device
               PROVE  working[e] = Absent \/ working[e] = store[phase][e]
    BY <1>1, <1>2 DEF SnapshotSet
  <2>1. CASE AnyVisited
    BY <1>3, <2>1 DEF Published
  <2>2. CASE ~AnyVisited
    <3>1. store[phase] = previous
      BY <1>3, <2>2 DEF Published
    <3>2. CASE e \in TargetDevices
      <4>1. PICK i \in DOMAIN targets : targets[i].device = e
        BY <3>2 DEF TargetDevices
      <4>2. ~Visited(i)
        <5>1. idx \in Nat /\ 0 < idx /\ i \in Nat /\ 0 < i
          BY DEF TypeInv, TypeOK, SweepType, TargetList
        <5> QED
          BY <1>1, <2>2, <5>1 DEF AnyVisited, Visited
      <4> QED
        BY <1>3, <3>1, <4>1, <4>2 DEF Progress, Pending
    <3>3. CASE e \notin TargetDevices
      BY <1>3, <3>3 DEF OnlyTargets
    <3> QED
      BY <3>2, <3>3
  <2> QED
    BY <2>1, <2>2
<1> QED
  BY <1>2, <1>3, <1>4, <1>5, <1>8, <1>9

LEMMA FreshPublish == ASSUME TypeInv, Shape, Fresh, Publish PROVE Fresh'
<1>1. /\ pc = "publish" /\ pc' = "announce" /\ InPass /\ InAttempt
      /\ working' = [working EXCEPT ![target.device] = snapshot]
      /\ store' = [store EXCEPT ![phase] = working']
      /\ UNCHANGED <<clock, previous, snapshot, target>>
  BY DEF Publish, InPass, InAttempt, env, attempt, target
<1>2. Renewal /\ NotAhead(working) /\ NotAhead(previous)
  BY <1>1 DEF Fresh, MapsFresh, AttemptFresh
<1>3. snapshot.lastSuccess <= clock
  BY <1>1, <1>2, KnownType DEF Renewal
<1>4. NotAhead(working')
  BY <1>1, <1>2, <1>3 DEF NotAhead, TypeInv, TypeOK, SweepType, SnapshotSet
<1>5. StoresFresh'
  <2> SUFFICES ASSUME NEW p \in Phases PROVE NotAhead(store[p])'
    BY DEF StoresFresh
  <2>1. store'[p] = store[p] \/ store'[p] = working'
    BY <1>1 DEF TypeInv, TypeOK, SharedType
  <2> QED
    BY <1>1, <1>4, <2>1 DEF Fresh, StoresFresh, NotAhead
<1>6. MapsFresh'
  BY <1>1, <1>2, <1>4 DEF MapsFresh, NotAhead
<1>7. AttemptFresh'
  BY <1>1, <1>2 DEF AttemptFresh, Renewal, KnownData, KnownSuccess
<1> QED
  BY <1>5, <1>6, <1>7 DEF Fresh

LEMMA FreshAnnounce == ASSUME TypeInv, Fresh, Announce PROVE Fresh'
<1>1. pc = "announce" /\ InPass /\ UNCHANGED <<store, clock>>
  BY DEF Announce, AnnounceAndStep, InPass, InAttempt, env
<1>2. CASE EndPass
  <2>1. pc' \in {"seed", "newTicker", "drain"}
    BY <1>2 DEF EndPass, EndSweep
  <2> QED
    BY <1>1, <2>1, FreshIdle DEF InPass, InAttempt
<1>3. CASE pc' = "collect" /\ UNCHANGED <<previous, working>>
  BY <1>1, <1>3 DEF Fresh, StoresFresh, MapsFresh, AttemptFresh, NotAhead
<1> QED
  BY <1>2, <1>3 DEF Announce, AnnounceAndStep

LEMMA FreshStep == TypeInv /\ TypeInv' /\ Shape /\ Fresh /\ [Next]_vars => Fresh'
<1> SUFFICES ASSUME TypeInv, TypeInv', Shape, Fresh, [Next]_vars PROVE Fresh'
  OBVIOUS
<1>1. CASE Begin \/ NewTicker \/ Stop \/ TakeTick \/ Drain \/ DiscoverFails \/ Discover
  <2>1. /\ pc' \in {"done", "discover", "newTicker", "wait", "drain", "seed"}
        /\ UNCHANGED <<store, clock>>
    BY <1>1 DEF Begin, NewTicker, Stop, TakeTick, Drain, DiscoverFails, Discover, EndSweep,
                shared, env
  <2> QED
    BY <2>1, FreshIdle DEF InPass, InAttempt
<1>2. CASE SeedNone
  <2>1. /\ pc' \in {"seed", "newTicker", "drain"} /\ clock' = clock
        /\ store' = [store EXCEPT ![phase] = EmptySet]
    BY <1>2 DEF SeedNone, EndPass, EndSweep, env
  <2> QED
    BY <2>1, FreshIdle DEF InPass, InAttempt
<1>3. CASE Seed
  BY <1>3, FreshSeed
<1>4. CASE Publish
  BY <1>4, FreshPublish
<1>5. CASE Announce
  BY <1>5, FreshAnnounce
<1>6. CASE Collect
  BY <1>6, FreshCollect
<1>7. CASE RunCancelled \/ RecordCancelled \/ AccountCancelled
  <2>1. pc' \in {"newTicker", "drain"} /\ UNCHANGED <<store, clock>>
    BY <1>7 DEF RunCancelled, RecordCancelled, AccountCancelled, Abort, EndSweep, shared, env
  <2> QED
    BY <2>1, FreshIdle DEF InPass, InAttempt
<1>8. CASE QueryRejected \/ QueryFailed \/ QueryAnswered
  <2>1. /\ pc = "run" /\ pc' \in {"run", "record"}
        /\ UNCHANGED <<store, clock, previous, working, target, snapshot, start>>
    BY <1>8 DEF QueryRejected, QueryFailed, QueryAnswered, shared, env, sweep, target
  <2>2. KnownData' = KnownData /\ KnownSuccess' = KnownSuccess
    BY <2>1 DEF KnownData, KnownSuccess
  <2> QED
    BY <2>1, <2>2
       DEF Fresh, StoresFresh, MapsFresh, AttemptFresh, NotAhead, InPass, InAttempt
<1>9. CASE Record
  BY <1>9, FreshRecord
<1>10. CASE Account
  <2>1. /\ pc = "account" /\ pc' = "publish"
        /\ UNCHANGED <<store, clock, previous, working, target, snapshot>>
    BY <1>10 DEF Account, env, sweep, attempt, target
  <2>2. KnownData' = KnownData /\ KnownSuccess' = KnownSuccess
    BY <2>1 DEF KnownData, KnownSuccess
  <2>3. AttemptFresh'
    BY <2>1, <2>2 DEF Fresh, AttemptFresh, Renewal
  <2>4. StoresFresh' /\ MapsFresh'
    BY <2>1 DEF Fresh, StoresFresh, MapsFresh, NotAhead, InPass, InAttempt
  <2> QED
    BY <2>3, <2>4 DEF Fresh
<1>11. CASE Tick \/ Cancel \/ AdvanceClock \/ UNCHANGED vars
  <2>1. /\ UNCHANGED <<store, sweep, attempt, pc>>
        /\ clock' = clock \/ clock' = clock + 1
    BY <1>11 DEF Tick, Cancel, AdvanceClock, vars, shared, env
  <2>2. clock \in Nat
    BY DEF TypeInv, TypeOK, EnvType
  <2> QED
    BY <2>1, <2>2, FreshStill
<1> QED
  BY <1>1, <1>2, <1>3, <1>4, <1>5, <1>6, <1>7, <1>8, <1>9, <1>10, <1>11
     DEF Next, Goroutine, Attempt, Returned

\* A snapshot descends from the previous one of its device, and no time is ahead
\* of the clock (poller.go:481-535).
THEOREM FreshInvariant == Spec => []Fresh
<1>1. Init => Fresh
  BY DEF Init, Fresh, StoresFresh, MapsFresh, AttemptFresh, NotAhead, EmptySet,
         InPass, InAttempt
<1> QED
  BY <1>1, FreshStep, TypeInvariant, ShapeInvariant, PTL DEF Spec

\* In either store a step is a publication of one device, an emptying, or
\* nothing at all.
StoreStep(p) ==
    \/ phase = p /\ Publish
    \/ store'[p] = EmptySet /\ UNCHANGED <<ready, clock>>
    \/ UNCHANGED <<store, clock>>
    \/ store'[p] = store[p] /\ UNCHANGED <<ready, clock>>
    \/ AdvanceClock

LEMMA StepsOfAStore ==
    ASSUME TypeInv, [Next]_vars, NEW p \in Phases
    PROVE  StoreStep(p)
<1>1. store \in [Phases -> SnapshotSet]
  BY DEF TypeInv, TypeOK, SharedType
<1>2. CASE SeedNone
  BY <1>1, <1>2 DEF SeedNone, StoreStep, env
<1>3. CASE Publish
  BY <1>1, <1>3 DEF Publish, StoreStep, env
<1>4. CASE AdvanceClock
  BY <1>4 DEF StoreStep
<1>5. CASE ~SeedNone /\ ~Publish /\ ~AdvanceClock
  <2>1. UNCHANGED <<store, clock>>
    BY <1>5 DEF Next, Goroutine, Attempt, Begin, NewTicker, Stop, TakeTick, Drain,
         DiscoverFails, Discover, Seed, Announce, AnnounceAndStep, Collect, RunCancelled,
         RecordCancelled, AccountCancelled, Abort, QueryRejected, QueryFailed,
         QueryAnswered, Record, Account, Tick, Cancel, Returned, vars, shared, env
  <2> QED
    BY <2>1 DEF StoreStep
<1> QED
  BY <1>2, <1>3, <1>4, <1>5

\* Readiness changes only when a success is there to be scraped.
LEMMA ReadyStep ==
    ASSUME TypeInv, Shape, Fresh, [Next]_vars, ready' # ready
    PROVE  /\ ready' = TRUE /\ UNCHANGED <<store, clock>>
           /\ \E d \in Devices : store["net"][d] # Absent /\ Up(store["net"][d])
<1>1. CASE Announce
  <2>1. /\ pc = "announce" /\ phase = "net" /\ snapshot.lastError = NoError /\ ready' = TRUE
        /\ InPass /\ InAttempt /\ UNCHANGED <<store, clock>>
    BY <1>1 DEF Announce, AnnounceAndStep, InPass, InAttempt, env, TypeInv, TypeOK, SharedType
  <2>2. store["net"] = working /\ working[target.device] = snapshot
    BY <2>1 DEF Shape, Published, AnyVisited
  <2>3. snapshot \in Snapshot /\ target.device \in Devices
    BY <2>1, TargetType DEF TypeInv, TypeOK, ControlType
  <2>4. Up(snapshot) /\ snapshot # Absent
    BY <2>1, <2>3, AbsentAssumption DEF Fresh, AttemptFresh, Renewal, Up
  <2> QED
    BY <2>1, <2>2, <2>3, <2>4
<1>2. CASE ~Announce
  <2>1. ready' = ready
    BY <1>2 DEF Next, Goroutine, Attempt, Begin, NewTicker, Stop, TakeTick, Drain,
         DiscoverFails, Discover, SeedNone, Seed, Publish, Collect, RunCancelled,
         RecordCancelled, AccountCancelled, Abort, QueryRejected, QueryFailed,
         QueryAnswered, Record, Account, Tick, Cancel, AdvanceClock, Returned, vars, shared
  <2> QED
    BY <2>1
<1> QED
  BY <1>1, <1>2

\* A publication in the terms of SnapshotCache, shared by its two instances.
Gone(new) == {e \in Devices : new[e] = Absent}
OneRenewed(old, new, d) ==
    LET data == IF old[d] = Absent THEN {} ELSE old[d].data
        success == IF old[d] = Absent THEN Never ELSE old[d].lastSuccess
    IN  /\ d \in Devices /\ d \notin Gone(new)
        /\ new[d] \in Snapshot /\ new[d].target.device = d
        /\ new = [e \in Devices |-> IF e = d THEN new[d]
                                    ELSE IF e \in Gone(new) THEN Absent ELSE old[e]]
        /\ \/ /\ new[d].lastError = NoError /\ new[d].lastSuccess # Never
              /\ success <= new[d].lastSuccess /\ new[d].lastSuccess <= clock
           \/ /\ new[d].lastError # NoError
              /\ new[d].data = data /\ new[d].lastSuccess = success

LEMMA PublishIsOne ==
    ASSUME TypeInv, Shape, Fresh, Publish
    PROVE  OneRenewed(store[phase], store'[phase], target.device)
<1> DEFINE old == store[phase]
           new == store'[phase]
           d == target.device
<1>1. /\ d \in Devices /\ new \in SnapshotSet
      /\ new[d] = snapshot /\ snapshot \in Snapshot /\ snapshot.target.device = d
      /\ old[d] = previous[d]
      /\ \A e \in Devices : e # d => new[e] = Absent \/ new[e] = old[e]
      /\ Renewal
  BY PublishRenews
<1> HIDE DEF old, new, d
<1>2. d \notin Gone(new)
  BY <1>1, AbsentAssumption DEF Gone
<1>3. \A e \in Devices :
        new[e] = IF e = d THEN new[d] ELSE IF e \in Gone(new) THEN Absent ELSE old[e]
  BY <1>1 DEF Gone
<1>4. new = [e \in Devices |-> IF e = d THEN new[d]
                              ELSE IF e \in Gone(new) THEN Absent ELSE old[e]]
  BY <1>1, <1>3 DEF SnapshotSet
<1>5. /\ KnownData = IF old[d] = Absent THEN {} ELSE old[d].data
      /\ KnownSuccess = IF old[d] = Absent THEN Never ELSE old[d].lastSuccess
  BY <1>1 DEF KnownData, KnownSuccess, d
<1>6. OneRenewed(old, new, d)
  BY <1>1, <1>2, <1>4, <1>5 DEF Renewal, OneRenewed
<1> QED
  BY <1>6 DEF old, new, d

LEMMA NetStep == TypeInv /\ Shape /\ Fresh /\ [Next]_vars => [Net!Next]_(Net!vars)
<1> SUFFICES ASSUME TypeInv, Shape, Fresh, [Next]_vars PROVE [Net!Next]_(Net!vars)
  OBVIOUS
<1>1. CASE ready' # ready
  <2>1. Net!Announce
    BY <1>1, ReadyStep DEF Net!Announce, Net!Up, Up, Net!Never, Net!NoError
  <2> QED
    BY <2>1 DEF Net!Next
<1>2. CASE ready' = ready
  <2>1. StoreStep("net")
    BY StepsOfAStore DEF Phases
  <2>2. CASE phase = "net" /\ Publish
    <3>1. clock' = clock
      BY <2>2 DEF Publish, env
    <3> DEFINE new == store'["net"]
               d == target.device
    <3>2. OneRenewed(store["net"], new, d)
      BY <2>2, PublishIsOne
    <3>3. Net!Succeeds(d, new[d]) \/ Net!Fails(d, new[d])
      BY <3>2 DEF OneRenewed, Net!Succeeds, Net!Fails, Net!Known, Net!Never, Net!NoError
    <3>4. new[d] \in Net!Snapshot
      BY <3>2 DEF OneRenewed, Net!Snapshot, Net!Target, Net!Sections, Net!Reasons, Net!NoError,
                  Snapshot, Target, Sections, Reasons
    <3>5. Net!Publish(d, Gone(new))
      BY <1>2, <3>1, <3>2, <3>3, <3>4 DEF OneRenewed, Net!Publish
    <3> QED
      BY <3>2, <3>5 DEF OneRenewed, Gone, Net!Next
  <2>3. CASE store'["net"] = EmptySet /\ UNCHANGED <<ready, clock>>
    BY <2>3 DEF Net!Next, Net!Retire, Net!EmptySet, EmptySet
  <2>4. CASE store'["net"] = store["net"] /\ UNCHANGED <<ready, clock>>
    BY <2>4 DEF Net!vars
  <2>5. CASE UNCHANGED <<store, clock>>
    BY <1>2, <2>5 DEF Net!vars
  <2>6. CASE AdvanceClock
    <3>1. clock' = clock + 1 /\ clock \in Nat /\ UNCHANGED <<store, ready>>
      BY <2>6 DEF AdvanceClock, shared, TypeInv, TypeOK, EnvType
    <3> QED
      BY <3>1 DEF Net!Next, Net!Elapse
  <2> QED
    BY <2>1, <2>2, <2>3, <2>4, <2>5, <2>6 DEF StoreStep
<1> QED
  BY <1>1, <1>2

\* The network store, with readiness, implements the cache scrapes rely on.
THEOREM NetImplementsCache == Spec => NetIsACache
<1>1. Init => Net!Init
  <2> SUFFICES ASSUME Init PROVE Net!Init
    OBVIOUS
  <2>1. store["net"] = EmptySet /\ ready = FALSE /\ clock = 1
    BY DEF Init, Phases
  <2> QED
    BY <2>1 DEF Net!Init, Net!EmptySet, EmptySet, Net!Never
<1> QED
  BY <1>1, NetStep, TypeInvariant, ShapeInvariant, FreshInvariant, PTL
     DEF Spec, NetIsACache, Net!Spec

\* The PCIe store never announces anything, so a step that only announces is
\* no step of it.
LEMMA PCIeStep == TypeInv /\ Shape /\ Fresh /\ [Next]_vars => [PCIe!Next]_(PCIe!vars)
<1> SUFFICES ASSUME TypeInv, Shape, Fresh, [Next]_vars PROVE [PCIe!Next]_(PCIe!vars)
  OBVIOUS
<1>1. StoreStep("pcie")
  BY StepsOfAStore DEF Phases
<1>2. CASE phase = "pcie" /\ Publish
  <2>1. clock' = clock
    BY <1>2 DEF Publish, env
  <2> DEFINE new == store'["pcie"]
             d == target.device
  <2>2. OneRenewed(store["pcie"], new, d)
    BY <1>2, PublishIsOne
  <2>3. PCIe!Succeeds(d, new[d]) \/ PCIe!Fails(d, new[d])
    BY <2>2 DEF OneRenewed, PCIe!Succeeds, PCIe!Fails, PCIe!Known, PCIe!Never, PCIe!NoError
  <2>4. new[d] \in PCIe!Snapshot
    BY <2>2 DEF OneRenewed, PCIe!Snapshot, PCIe!Target, PCIe!Sections, PCIe!Reasons,
                PCIe!NoError, Snapshot, Target, Sections, Reasons
  <2>5. PCIe!Publish(d, Gone(new))
    BY <2>1, <2>2, <2>3, <2>4 DEF OneRenewed, PCIe!Publish
  <2> QED
    BY <2>2, <2>5 DEF OneRenewed, Gone, PCIe!Next
<1>3. CASE store'["pcie"] = EmptySet /\ UNCHANGED <<ready, clock>>
  BY <1>3 DEF PCIe!Next, PCIe!Retire, PCIe!EmptySet, EmptySet
<1>4. CASE store'["pcie"] = store["pcie"] /\ UNCHANGED <<ready, clock>>
  BY <1>4 DEF PCIe!vars
<1>5. CASE UNCHANGED <<store, clock>>
  BY <1>5 DEF PCIe!vars
<1>6. CASE AdvanceClock
  <2>1. clock' = clock + 1 /\ clock \in Nat /\ UNCHANGED <<store, ready>>
    BY <1>6 DEF AdvanceClock, shared, TypeInv, TypeOK, EnvType
  <2> QED
    BY <2>1 DEF PCIe!Next, PCIe!Elapse
<1> QED
  BY <1>1, <1>2, <1>3, <1>4, <1>5, <1>6 DEF StoreStep

\* The PCIe Eye store implements the same cache.
THEOREM PCIeImplementsCache == Spec => PCIeIsACache
<1>1. Init => PCIe!Init
  <2> SUFFICES ASSUME Init PROVE PCIe!Init
    OBVIOUS
  <2>1. store["pcie"] = EmptySet /\ clock = 1
    BY DEF Init, Phases
  <2> QED
    BY <2>1 DEF PCIe!Init, PCIe!EmptySet, EmptySet, PCIe!Never
<1> QED
  BY <1>1, PCIeStep, TypeInvariant, ShapeInvariant, FreshInvariant, PTL
     DEF Spec, PCIeIsACache, PCIe!Spec

-----------------------------------------------------------------------------
(* The two passes of a sweep.                                              *)

\* The network pass left exactly the targets in its store.
Covered ==
    /\ \A i \in DOMAIN targets : /\ store["net"][targets[i].device] # Absent
                                 /\ store["net"][targets[i].device].target = targets[i]
    /\ \A d \in Devices : d \notin TargetDevices => store["net"][d] = Absent
InOrder == phase = "pcie" => Covered

LEMMA CoveredStill ==
    ASSUME Covered, targets' = targets, store'["net"] = store["net"] PROVE Covered'
BY DEF Covered, TargetDevices

LEMMA InOrderEndPass ==
    ASSUME InOrder, EndPass, phase = "net" => Covered', store'["net"] = store["net"] \/ phase = "net"
    PROVE  InOrder'
<1>1. CASE EndSweep
  BY <1>1 DEF EndSweep, NoSweep, InOrder
<1>2. CASE phase = "net" /\ phase' = "pcie" /\ UNCHANGED targets
  BY <1>2 DEF InOrder
<1> QED
  BY <1>1, <1>2 DEF EndPass

LEMMA InOrderStep == TypeInv /\ Shape /\ InOrder /\ [Next]_vars => InOrder'
<1> SUFFICES ASSUME TypeInv, Shape, InOrder, [Next]_vars PROVE InOrder'
  OBVIOUS
<1> store \in [Phases -> SnapshotSet] /\ phase \in Phases
  BY DEF TypeInv, TypeOK, SharedType, SweepType
<1>1. CASE DiscoverFails \/ RunCancelled \/ RecordCancelled \/ AccountCancelled \/ Discover
  <2>1. phase' = "net"
    BY <1>1 DEF DiscoverFails, RunCancelled, RecordCancelled, AccountCancelled, Abort,
                EndSweep, NoSweep, Discover
  <2> QED
    BY <2>1 DEF InOrder
<1>2. CASE SeedNone
  <2>1. /\ targets = <<>> /\ EndPass /\ store' = [store EXCEPT ![phase] = EmptySet]
    BY <1>2 DEF SeedNone
  <2>2. ASSUME phase = "net" PROVE Covered'
    <3>1. store'["net"] = EmptySet
      BY <2>1, <2>2
    <3>2. CASE EndSweep
      BY <3>1, <3>2 DEF EndSweep, NoSweep, Covered, EmptySet
    <3>3. CASE UNCHANGED targets
      BY <2>1, <3>1, <3>3 DEF Covered, EmptySet
    <3> QED
      BY <2>1, <3>2, <3>3 DEF EndPass
  <2>3. store'["net"] = store["net"] \/ phase = "net"
    BY <2>1 DEF Phases
  <2> QED
    BY <2>1, <2>2, <2>3, InOrderEndPass
<1>3. CASE Publish
  <2>1. /\ UNCHANGED <<phase, targets>> /\ store' = [store EXCEPT ![phase] = working']
    BY <1>3 DEF Publish
  <2> QED
    BY <2>1, CoveredStill DEF InOrder, Phases
<1>4. CASE Announce
  <2>1. pc = "announce" /\ store' = store /\ InPass /\ InAttempt
    BY <1>4 DEF Announce, AnnounceAndStep, InPass, InAttempt
  <2>2. CASE UNCHANGED <<phase, targets>>
    BY <2>1, <2>2, CoveredStill DEF InOrder
  <2>3. CASE EndPass /\ ~(idx < Len(targets))
    <3>1. CASE EndSweep
      BY <3>1 DEF EndSweep, NoSweep, InOrder
    <3>2. CASE phase = "net" /\ phase' = "pcie" /\ UNCHANGED targets
      <4>1. \A i \in DOMAIN targets : Visited(i)
        <5>1. /\ idx \in Nat /\ Len(targets) \in Nat
              /\ \A i \in DOMAIN targets : i \in Nat /\ i <= Len(targets)
          BY DEF TypeInv, TypeOK, SweepType, TargetList
        <5> QED
          BY <2>1, <2>3, <5>1 DEF Visited
      <4>2. store["net"] = working /\ OnlyTargets /\ Progress
        BY <2>1, <3>2 DEF Shape, Published, AnyVisited
      <4>3. Covered
        BY <4>1, <4>2 DEF Covered, OnlyTargets, Progress, Renewed
      <4> QED
        BY <2>1, <3>2, <4>3, CoveredStill DEF InOrder
    <3> QED
      BY <2>3, <3>1, <3>2 DEF EndPass
  <2> QED
    BY <1>4, <2>2, <2>3 DEF Announce, AnnounceAndStep
<1>5. CASE UNCHANGED <<store, phase, targets>>
  BY <1>5, CoveredStill DEF InOrder
<1> QED
  <2>1. CASE Begin \/ NewTicker \/ Stop \/ TakeTick \/ Drain \/ Seed \/ Account
    BY <1>5, <2>1 DEF Begin, NewTicker, Stop, TakeTick, Drain, Seed, Account, shared, sweep
  <2>2. CASE Collect \/ QueryRejected \/ QueryFailed \/ QueryAnswered \/ Record
    BY <1>5, <2>2 DEF Collect, QueryRejected, QueryFailed, QueryAnswered, Record, shared, sweep
  <2>3. CASE Tick \/ Cancel \/ AdvanceClock \/ UNCHANGED vars
    BY <1>5, <2>3 DEF Tick, Cancel, AdvanceClock, vars, shared, sweep
  <2> QED
    BY <1>1, <1>2, <1>3, <1>4, <2>1, <2>2, <2>3 DEF Next, Goroutine, Attempt, Returned

\* Every PCIe snapshot has a network snapshot beside it.
Paired == \A d \in Devices : store["pcie"][d] # Absent => store["net"][d] # Absent

\* Without the second pass there is nothing in its store.
PCIeOff == ~ShowPCIeEye => phase = "net" /\ store["pcie"] = EmptySet

\* A sweep that was not cut short leaves its stores paired.
Accompanied ==
    /\ ~InPass => idx = 1
    /\ PCIeOff
    /\ ~InSweep /\ ~ctxDone => Paired

\* From the first PCIe publication on, the second pass shows no more than the first.
LEMMA PairedOnceVisited ==
    ASSUME Shape, InOrder, InPass, phase = "pcie", AnyVisited PROVE Paired
<1>1. store["pcie"] = working /\ OnlyTargets /\ Covered
  BY DEF Shape, Published, InOrder
<1> QED
  BY <1>1 DEF Paired, OnlyTargets, Covered, TargetDevices

LEMMA AccompaniedStill ==
    ASSUME Accompanied, UNCHANGED <<store, phase>>, ~InPass' => idx' = 1,
           ~InSweep' /\ ~ctxDone' => (~InSweep /\ ~ctxDone) \/ Paired
    PROVE  Accompanied'
BY DEF Accompanied, PCIeOff, Paired

\* The end of a pass ends the sweep, unless another pass is to follow.
LEMMA EndPassLast ==
    ASSUME EndPass, PCIeOff, phase \in Phases
    PROVE  /\ idx' = 1
           /\ ~InSweep' => phase = "pcie" \/ ~ShowPCIeEye
           /\ ~ShowPCIeEye => phase' = "net"
<1>1. CASE EndSweep
  <2>1. idx' = 1 /\ phase' = "net"
    BY <1>1 DEF EndSweep, NoSweep
  <2>2. CASE phase = "net" /\ ShowPCIeEye
    <3>1. pc' = "seed"
      BY <2>2 DEF EndPass
    <3> QED
      BY <2>1, <3>1 DEF InSweep
  <2> QED
    BY <2>1, <2>2 DEF Phases
<1>2. CASE pc' = "seed" /\ phase = "net" /\ ShowPCIeEye /\ idx' = 1
  BY <1>2 DEF InSweep
<1> QED
  BY <1>1, <1>2 DEF EndPass

LEMMA AccompaniedStep ==
    TypeInv /\ Shape /\ InOrder /\ Accompanied /\ [Next]_vars => Accompanied'
<1> SUFFICES ASSUME TypeInv, Shape, InOrder, Accompanied, [Next]_vars PROVE Accompanied'
  OBVIOUS
<1> USE DEF InSweep, InPass, InAttempt
<1>0. store \in [Phases -> SnapshotSet] /\ phase \in Phases
  BY DEF TypeInv, TypeOK, SharedType, SweepType
<1>1. CASE DiscoverFails
  <2>1. pc = "discover" /\ idx' = 1 /\ phase' = "net" /\ UNCHANGED <<store, ctxDone>>
    BY <1>1 DEF DiscoverFails, EndSweep, NoSweep, shared, env
  <2> QED
    BY <2>1 DEF Accompanied, PCIeOff, Paired
<1>2. CASE RunCancelled \/ RecordCancelled \/ AccountCancelled
  <2>1. ctxDone' /\ idx' = 1 /\ phase' = "net" /\ store' = store
    BY <1>2 DEF RunCancelled, RecordCancelled, AccountCancelled, Abort, EndSweep, NoSweep,
                shared, env
  <2> QED
    BY <2>1 DEF Accompanied, PCIeOff
<1>3. CASE Discover
  <2>1. pc = "discover" /\ pc' = "seed" /\ phase' = "net" /\ UNCHANGED <<store, idx>>
    BY <1>3 DEF Discover, shared
  <2> QED
    BY <2>1 DEF Accompanied, PCIeOff
<1>4. CASE SeedNone
  <2>1. EndPass /\ store' = [store EXCEPT ![phase] = EmptySet]
    BY <1>4 DEF SeedNone
  <2>2. /\ idx' = 1
        /\ ~InSweep' => phase = "pcie" \/ ~ShowPCIeEye
        /\ ~ShowPCIeEye => phase' = "net"
    BY <1>0, <2>1, EndPassLast DEF Accompanied
  <2>3. phase = "pcie" \/ ~ShowPCIeEye => store'["pcie"] = EmptySet
    BY <1>0, <2>1 DEF Accompanied, PCIeOff, Phases
  <2>4. PCIeOff'
    BY <2>2, <2>3 DEF PCIeOff
  <2>5. ~InSweep' => Paired'
    BY <2>2, <2>3 DEF Paired, EmptySet
  <2> QED
    BY <2>2, <2>4, <2>5 DEF Accompanied
<1>5. CASE Publish
  <2>1. /\ pc' = "announce" /\ phase' = phase
        /\ store' = [store EXCEPT ![phase] = working']
    BY <1>5 DEF Publish
  <2>2. ~ShowPCIeEye => phase = "net"
    BY DEF Accompanied, PCIeOff
  <2>3. phase = "net" => store'["pcie"] = store["pcie"]
    BY <1>0, <2>1 DEF Phases
  <2> QED
    BY <2>1, <2>2, <2>3 DEF Accompanied, PCIeOff
<1>6. CASE Announce
  <2>1. pc = "announce" /\ UNCHANGED <<store, ctxDone>>
    BY <1>6 DEF Announce, AnnounceAndStep, env
  <2>2. CASE pc' = "collect" /\ phase' = phase
    BY <2>1, <2>2, AccompaniedStill
  <2>3. CASE EndPass
    <3>1. /\ idx' = 1
          /\ ~InSweep' => phase = "pcie" \/ ~ShowPCIeEye
          /\ ~ShowPCIeEye => phase' = "net"
      BY <1>0, <2>3, EndPassLast DEF Accompanied
    <3>2. phase = "pcie" => Paired
      BY <2>1, PairedOnceVisited DEF AnyVisited
    <3>3. ~ShowPCIeEye => Paired
      BY DEF Accompanied, PCIeOff, Paired, EmptySet
    <3> QED
      BY <2>1, <3>1, <3>2, <3>3 DEF Accompanied, PCIeOff, Paired
  <2> QED
    BY <1>6, <2>2, <2>3 DEF Announce, AnnounceAndStep
<1>7. CASE UNCHANGED <<store, phase, idx>> /\ InPass' = InPass
             /\ (~InSweep' /\ ~ctxDone' => ~InSweep /\ ~ctxDone)
  BY <1>7, AccompaniedStill DEF Accompanied
<1> QED
  <2>1. CASE Begin \/ NewTicker \/ Stop \/ TakeTick \/ Drain
    BY <1>7, <2>1 DEF Begin, NewTicker, Stop, TakeTick, Drain, shared, env, sweep
  <2>2. CASE Seed
    <3>1. UNCHANGED <<store, phase>> /\ pc' = "collect"
      BY <2>2 DEF Seed, shared
    <3> QED
      BY <3>1, AccompaniedStill
  <2>3. CASE Collect \/ QueryRejected \/ QueryFailed \/ QueryAnswered \/ Record \/ Account
    BY <1>7, <2>3 DEF Collect, QueryRejected, QueryFailed, QueryAnswered, Record, Account,
                      shared, env, sweep
  <2>4. CASE Tick \/ Cancel \/ AdvanceClock \/ UNCHANGED vars
    BY <1>7, <2>4 DEF Tick, Cancel, AdvanceClock, vars, shared, env, sweep
  <2> QED
    BY <1>1, <1>2, <1>3, <1>4, <1>5, <1>6, <2>1, <2>2, <2>3, <2>4
       DEF Next, Goroutine, Attempt, Returned

\* The PCIe pass runs over the devices the network pass has just published, and a
\* PCIe series without a network series beside it is left by no sweep that was not
\* cut short, nor seen once the second pass has published.
THEOREM PCIeFollowsNetworkHolds == Spec => []PCIeFollowsNetwork
<1>1. Init => InOrder /\ Accompanied
  BY DEF Init, InOrder, Accompanied, PCIeOff, Paired, EmptySet, Phases
<1>2. TypeInv /\ Shape /\ InOrder /\ Accompanied => PCIeFollowsNetwork
  <2> SUFFICES ASSUME TypeInv, Shape, InOrder, Accompanied PROVE PCIeFollowsNetwork
    OBVIOUS
  <2>1. ASSUME phase = "pcie", NEW d \in Devices
        PROVE  IF \E i \in DOMAIN targets : targets[i].device = d
               THEN /\ store["net"][d] # Absent
                    /\ \E i \in DOMAIN targets : targets[i] = store["net"][d].target
               ELSE store["net"][d] = Absent
    <3>1. ASSUME NEW i \in DOMAIN targets, targets[i].device = d
          PROVE  store["net"][d] # Absent /\ targets[i] = store["net"][d].target
      BY <2>1, <3>1 DEF InOrder, Covered
    <3>2. d \notin TargetDevices => store["net"][d] = Absent
      BY <2>1 DEF InOrder, Covered
    <3> QED
      BY <3>1, <3>2 DEF TargetDevices
  <2>2. ASSUME NEW d \in Devices, store["pcie"][d] # Absent, store["net"][d] = Absent, ~ctxDone
        PROVE  InSweep /\ ~(phase = "pcie" /\ \E i \in DOMAIN targets : Visited(i))
    <3>1. ~Paired
      BY <2>2 DEF Paired
    <3>2. InSweep
      BY <2>2, <3>1 DEF Accompanied
    <3>3. ASSUME phase = "pcie", NEW i \in DOMAIN targets, Visited(i) PROVE FALSE
      <4>1. i \in Nat /\ i > 0 /\ idx \in Nat
        BY DEF TypeInv, TypeOK, SweepType, TargetList
      <4>2. AnyVisited
        BY <3>3, <4>1 DEF Visited, AnyVisited
      <4>3. InPass
        BY <3>2, <4>2 DEF AnyVisited, Accompanied, InPass, InAttempt
      <4> QED
        BY <3>1, <3>3, <4>2, <4>3, PairedOnceVisited
    <3> QED
      BY <3>2, <3>3
  <2> QED
    BY <2>1, <2>2 DEF PCIeFollowsNetwork
<1> QED
  BY <1>1, <1>2, InOrderStep, AccompaniedStep, TypeInvariant, ShapeInvariant, PTL DEF Spec

-----------------------------------------------------------------------------
(* Errors are counted before they are shown.                               *)

CountedIn(counters, p, s) ==
    s.lastError # NoError => counters[<<p, s.target, s.lastError>>] > 0
AllCounted(counters, p, set) ==
    \A d \in Devices : set[d] # Absent => CountedIn(counters, p, set[d])

ShownCounted ==
    /\ \A p \in Phases : AllCounted(errors, p, store[p])
    /\ InPass => AllCounted(errors, phase, working)
    /\ pc \in {"account", "publish", "announce"} => CountedIn(errors, phase, snapshot)

\* No counter goes down.
LEMMA ErrorsGrow ==
    ASSUME TypeInv, [Next]_vars, NEW k \in ErrorKeys
    PROVE  errors[k] \in Nat /\ errors'[k] \in Nat /\ errors[k] <= errors'[k]
<1>1. errors[k] \in Nat /\ errors \in [ErrorKeys -> Nat]
  BY DEF TypeInv, TypeOK, SharedType
<1>2. CASE Record
  <2>1. errors'[k] = errors[k] + Counted(k)
    BY <1>2 DEF Record
  <2>2. Counted(k) \in Nat
    BY DEF Counted
  <2> QED
    BY <1>1, <2>1, <2>2
<1>3. CASE Account
  <2>1. errors'[k] = errors[k] \/ errors'[k] = errors[k] + 1
    BY <1>1, <1>3 DEF Account
  <2> QED
    BY <1>1, <2>1
<1>4. CASE ~Record /\ ~Account
  <2>1. errors' = errors
    BY <1>4 DEF Next, Goroutine, Attempt, Begin, NewTicker, Stop, TakeTick, Drain,
         DiscoverFails, Discover, SeedNone, Seed, Publish, Announce, AnnounceAndStep,
         Collect, RunCancelled, RecordCancelled, AccountCancelled, Abort, QueryRejected,
         QueryFailed, QueryAnswered, Tick, Cancel, AdvanceClock, Returned, vars, shared
  <2> QED
    BY <1>1, <2>1
<1> QED
  BY <1>2, <1>3, <1>4

LEMMA Above == \A a, b \in Nat : a > 0 /\ a <= b => b > 0
OBVIOUS

LEMMA SumAbove == \A a, b \in Nat : b > 0 => a + b > 0
OBVIOUS

LEMMA OneMore == \A owed \in {0, 1} : 1 + owed = 1 \/ 1 + owed = 2
OBVIOUS

LEMMA OneOrTwo == \A a : a = 1 \/ a = 2 => a \in Nat /\ a > 0
OBVIOUS

LEMMA CountedStays ==
    ASSUME TypeInv, [Next]_vars, NEW p \in Phases, NEW s \in Snapshot, CountedIn(errors, p, s)
    PROVE  CountedIn(errors', p, s)
<1> SUFFICES ASSUME s.lastError # NoError
             PROVE  errors'[<<p, s.target, s.lastError>>] > 0
  BY DEF CountedIn
<1>1. PICK k \in ErrorKeys : k = <<p, s.target, s.lastError>>
  BY DEF ErrorKeys, Snapshot
<1>2. errors[k] > 0
  BY <1>1 DEF CountedIn
<1>3. errors[k] \in Nat /\ errors'[k] \in Nat /\ errors[k] <= errors'[k]
  BY <1>1, ErrorsGrow
<1>4. errors'[k] > 0
  BY <1>2, <1>3, Above
<1> QED
  BY <1>1, <1>4

LEMMA SetStays ==
    ASSUME TypeInv, [Next]_vars, NEW p \in Phases, NEW set \in SnapshotSet,
           AllCounted(errors, p, set)
    PROVE  AllCounted(errors', p, set)
<1> SUFFICES ASSUME NEW d \in Devices, set[d] # Absent PROVE CountedIn(errors', p, set[d])
  BY DEF AllCounted
<1>1. set[d] \in Snapshot /\ CountedIn(errors, p, set[d])
  BY DEF AllCounted, SnapshotSet
<1> QED
  BY <1>1, CountedStays

\* What an attempt records is in the counter when the snapshot shows it.
LEMMA RecordCounts == ASSUME TypeInv, Shape, Record PROVE CountedIn(errors', phase, snapshot')
<1>1. /\ pc = "record" /\ snapshot' = Folded
      /\ errors' = [k \in ErrorKeys |-> errors[k] + Counted(k)]
  BY DEF Record
<1>2. snapshot \in Snapshot /\ snapshot.target = target /\ InPass
  BY <1>1 DEF TypeInv, TypeOK, ControlType, Shape, InAttempt, InPass
<1> SUFFICES ASSUME snapshot'.lastError # NoError
             PROVE  errors'[<<phase, snapshot'.target, snapshot'.lastError>>] > 0
  BY DEF CountedIn
<1>3. /\ outcome.error # NoError /\ snapshot'.lastError = outcome.error
      /\ snapshot'.target = target
  BY <1>1, <1>2 DEF Folded, Snapshot
<1>4. outcome.error \in Reasons
  BY <1>3 DEF TypeInv, TypeOK, AttemptType, Outcome
<1>5. PICK k \in ErrorKeys : k = <<phase, target, outcome.error>>
  BY <1>2, <1>4, RejectionType
<1>6. errors[k] \in Nat /\ Counted(k) \in Nat /\ Counted(k) > 0
  <2>1. errors[k] \in Nat
    BY <1>5, CounterType
  <2>2. k = <<phase, snapshot.target, outcome.error>>
    BY <1>2, <1>5
  <2>3. Counted(k) = 1 \/ Counted(k) = 2
    <3>1. PICK owed \in {0, 1} :
              owed = IF query = "baseline" /\ k = <<phase, target, "exit_error">>
                     THEN 1 ELSE 0
      OBVIOUS
    <3>2. Counted(k) = 1 + owed
      BY <2>2, <3>1, Zenon DEF Counted
    <3>3. 1 + owed = 1 \/ 1 + owed = 2
      BY OneMore, Zenon
    <3> QED
      BY <3>2, <3>3, Zenon
  <2> QED
    BY <2>1, <2>3, OneOrTwo
<1>7. errors'[k] = errors[k] + Counted(k)
  BY <1>1, <1>5
<1>8. errors'[k] > 0
  BY <1>6, <1>7, SumAbove
<1> QED
  BY <1>3, <1>5, <1>8

\* Where a store's set comes from.
LEMMA StoreSource ==
    ASSUME TypeInv, [Next]_vars, NEW p \in Phases
    PROVE  \/ store'[p] = store[p] \/ store'[p] = EmptySet
           \/ p = phase /\ Publish /\ store'[p] = working'
<1>1. store \in [Phases -> SnapshotSet]
  BY DEF TypeInv, TypeOK, SharedType
<1>2. CASE SeedNone
  BY <1>1, <1>2 DEF SeedNone
<1>3. CASE Publish
  BY <1>1, <1>3 DEF Publish
<1>4. CASE ~SeedNone /\ ~Publish
  BY <1>4 DEF Next, Goroutine, Attempt, Begin, NewTicker, Stop, TakeTick, Drain,
       DiscoverFails, Discover, Seed, Announce, AnnounceAndStep, Collect, RunCancelled,
       RecordCancelled, AccountCancelled, Abort, QueryRejected, QueryFailed,
       QueryAnswered, Record, Account, Tick, Cancel, AdvanceClock, Returned, vars, shared
<1> QED
  BY <1>2, <1>3, <1>4

LEMMA PublishCounted ==
    ASSUME TypeInv, ShownCounted, Publish
    PROVE  AllCounted(errors, phase, working')
<1>1. pc = "publish" /\ working' = [working EXCEPT ![target.device] = snapshot]
  BY DEF Publish
<1>2. CountedIn(errors, phase, snapshot) /\ AllCounted(errors, phase, working)
  BY <1>1 DEF ShownCounted, InPass, InAttempt
<1> QED
  BY <1>1, <1>2 DEF AllCounted, TypeInv, TypeOK, SweepType, SnapshotSet

LEMMA StoresCounted ==
    ASSUME TypeInv, ShownCounted, [Next]_vars
    PROVE  \A p \in Phases : AllCounted(errors', p, store'[p])
<1> TAKE p \in Phases
<1>1. CASE store'[p] = store[p]
  BY <1>1, SetStays DEF ShownCounted, TypeInv, TypeOK, SharedType
<1>2. CASE store'[p] = EmptySet
  BY <1>2 DEF AllCounted, EmptySet
<1>3. CASE p = phase /\ Publish /\ store'[p] = working'
  <2>1. errors' = errors
    BY <1>3 DEF Publish
  <2> QED
    BY <1>3, <2>1, PublishCounted
<1> QED
  BY <1>1, <1>2, <1>3, StoreSource

LEMMA WorkingCounted ==
    ASSUME TypeInv, ShownCounted, [Next]_vars, InPass'
    PROVE  AllCounted(errors', phase', working')
<1>1. CASE InPass /\ UNCHANGED <<phase, working>>
  BY <1>1, SetStays DEF ShownCounted, TypeInv, TypeOK, SweepType
<1>2. CASE Seed
  <2>1. working' = Restricted(store[phase]) /\ UNCHANGED <<phase, errors>>
    BY <1>2 DEF Seed, shared
  <2>2. AllCounted(errors, phase, store[phase])
    BY DEF ShownCounted, TypeInv, TypeOK, SweepType
  <2> QED
    BY <2>1, <2>2 DEF AllCounted, Restricted
<1>3. CASE Publish
  BY <1>3, PublishCounted DEF Publish
<1>4. CASE ~Seed /\ ~Publish
  <2>1. CASE Attempt
    BY <1>1, <2>1 DEF Attempt, Collect, RunCancelled, RecordCancelled, AccountCancelled,
         Abort, EndSweep, QueryRejected, QueryFailed, QueryAnswered, Record, Account,
         InPass, InAttempt, sweep
  <2>2. CASE Tick \/ Cancel \/ AdvanceClock \/ UNCHANGED vars
    BY <1>1, <2>2 DEF Tick, Cancel, AdvanceClock, vars, sweep, InPass, InAttempt
  <2>3. CASE Begin \/ NewTicker \/ Stop \/ TakeTick \/ Drain \/ DiscoverFails \/ Discover
    BY <2>3 DEF Begin, NewTicker, Stop, TakeTick, Drain, DiscoverFails, Discover, EndSweep,
         InPass, InAttempt
  <2>4. CASE SeedNone \/ Announce
    BY <1>1, <2>4 DEF SeedNone, Announce, AnnounceAndStep, EndPass, EndSweep, InPass, InAttempt
  <2> QED
    BY <1>4, <2>1, <2>2, <2>3, <2>4 DEF Next, Goroutine, Returned
<1> QED
  BY <1>2, <1>3, <1>4

LEMMA SnapshotCounted ==
    ASSUME TypeInv, Shape, ShownCounted, [Next]_vars,
           pc' \in {"account", "publish", "announce"}
    PROVE  CountedIn(errors', phase', snapshot')
<1>1. CASE Record
  BY <1>1, RecordCounts DEF Record, sweep
<1>2. CASE pc \in {"account", "publish", "announce"} /\ UNCHANGED <<phase, snapshot>>
  <2>1. snapshot \in Snapshot /\ phase \in Phases /\ CountedIn(errors, phase, snapshot)
    BY <1>2 DEF ShownCounted, TypeInv, TypeOK, ControlType, SweepType, InAttempt
  <2> QED
    BY <1>2, <2>1, CountedStays
<1>3. CASE ~Record
  <2>1. CASE Attempt
    BY <1>2, <1>3, <2>1 DEF Attempt, Collect, RunCancelled, RecordCancelled,
         AccountCancelled, Abort, EndSweep, QueryRejected, QueryFailed, QueryAnswered,
         Account, sweep, attempt
  <2>2. CASE Tick \/ Cancel \/ AdvanceClock \/ UNCHANGED vars
    BY <1>2, <2>2 DEF Tick, Cancel, AdvanceClock, vars, sweep, attempt
  <2>3. CASE Begin \/ NewTicker \/ Stop \/ TakeTick \/ Drain \/ DiscoverFails \/ Discover
    BY <2>3 DEF Begin, NewTicker, Stop, TakeTick, Drain, DiscoverFails, Discover, EndSweep
  <2>4. CASE SeedNone \/ Seed \/ Announce
    BY <2>4 DEF SeedNone, Seed, Announce, AnnounceAndStep, EndPass, EndSweep
  <2>5. CASE Publish
    BY <1>2, <2>5 DEF Publish, attempt
  <2> QED
    BY <1>3, <2>1, <2>2, <2>3, <2>4, <2>5 DEF Next, Goroutine, Returned
<1> QED
  BY <1>1, <1>3

\* An error a scrape can see is already in the counters.
THEOREM PublishedErrorIsCountedHolds == Spec => []PublishedErrorIsCounted
<1>1. Init => ShownCounted
  BY DEF Init, ShownCounted, AllCounted, EmptySet, InPass, InAttempt
<1>2. TypeInv /\ Shape /\ ShownCounted /\ [Next]_vars => ShownCounted'
  BY StoresCounted, WorkingCounted, SnapshotCounted DEF ShownCounted
<1>3. ShownCounted => PublishedErrorIsCounted
  BY DEF ShownCounted, AllCounted, CountedIn, PublishedErrorIsCounted
<1> QED
  BY <1>1, <1>2, <1>3, TypeInvariant, ShapeInvariant, PTL DEF Spec

-----------------------------------------------------------------------------
(* No sweep is started by a tick that fired during the one before it.      *)

Drained ==
    /\ pc = "wait" => ~late
    /\ ticker = "none" => ~late
    /\ pc = "newTicker" => ticker = "none"

LEMMA DrainedEndSweep ==
    ASSUME Drained, EndSweep, UNCHANGED <<ticker, late>>
    PROVE  Drained'
BY DEF Drained, EndSweep

LEMMA DrainedStep == Drained /\ [Next]_vars => Drained'
<1> SUFFICES ASSUME Drained, [Next]_vars PROVE Drained'
  OBVIOUS
<1>1. CASE Begin \/ Discover \/ Seed \/ Publish
  BY <1>1 DEF Drained, Begin, Discover, Seed, Publish, env
<1>2. CASE NewTicker \/ Stop \/ TakeTick \/ Drain
  BY <1>2 DEF Drained, NewTicker, Stop, TakeTick, Drain, env
<1>3. CASE DiscoverFails
  BY <1>3, DrainedEndSweep DEF DiscoverFails, env
<1>4. CASE SeedNone \/ Announce
  <2>1. EndPass \/ pc' = "collect"
    BY <1>4 DEF SeedNone, Announce, AnnounceAndStep
  <2>2. UNCHANGED <<ticker, late>>
    BY <1>4 DEF SeedNone, Announce, AnnounceAndStep, env
  <2>3. CASE EndSweep
    BY <2>2, <2>3, DrainedEndSweep
  <2>4. CASE pc' \in {"seed", "collect"}
    BY <2>2, <2>4 DEF Drained
  <2> QED
    BY <2>1, <2>3, <2>4 DEF EndPass
<1>5. CASE RunCancelled \/ RecordCancelled \/ AccountCancelled
  BY <1>5, DrainedEndSweep DEF RunCancelled, RecordCancelled, AccountCancelled, Abort, env
<1>6. CASE Collect \/ QueryRejected \/ QueryFailed \/ QueryAnswered \/ Record \/ Account
  <2>1. UNCHANGED <<ticker, late>>
    BY <1>6 DEF Collect, QueryRejected, QueryFailed, QueryAnswered, Record, Account, env
  <2>2. pc' \in {"run", "record", "account", "publish"}
    BY <1>6 DEF Collect, QueryRejected, QueryFailed, QueryAnswered, Record, Account
  <2> QED
    BY <2>1, <2>2 DEF Drained
<1>7. CASE Tick
  BY <1>7 DEF Drained, Tick
<1>8. CASE Cancel \/ AdvanceClock \/ UNCHANGED vars
  BY <1>8 DEF Drained, Cancel, AdvanceClock, vars, env
<1> QED
  BY <1>1, <1>2, <1>3, <1>4, <1>5, <1>6, <1>7, <1>8
     DEF Next, Goroutine, Attempt, Returned

\* A slow sweep never chains into the next: when the goroutine is back at the
\* ticker, a pending tick is one that fired there.
THEOREM NoBackToBackSweepsHolds == Spec => []NoBackToBackSweeps
<1>1. Init => Drained
  BY DEF Init, Drained
<1>2. Drained => NoBackToBackSweeps
  BY DEF Drained, NoBackToBackSweeps
<1> QED
  BY <1>1, <1>2, DrainedStep, PTL DEF Spec

-----------------------------------------------------------------------------
(* A success carries what its query asked for.                             *)

\* The property, kept from the moment an attempt is folded into the snapshot.
Answered ==
    pc \in {"account", "publish", "announce"} /\ snapshot.lastError = NoError
        => snapshot.data \subseteq Requested[query]

LEMMA AnsweredRecord == ASSUME TypeInv, Record PROVE Answered'
<1>1. pc = "record" /\ query' = query /\ snapshot' = Folded
  BY DEF Record
<1>2. snapshot \in Snapshot /\ outcome \in Outcome /\ query \in Queries
  BY <1>1 DEF TypeInv, TypeOK, AttemptType, ControlType, InAttempt
<1>3. Accepted[query] = Requested[query]
  BY <1>2 DEF Queries, Accepted, Requested
<1>4. CASE outcome.error = NoError
  <2>1. snapshot'.data = outcome.data \cap Accepted[query]
    BY <1>1, <1>2, <1>4 DEF Folded, Snapshot
  <2> QED
    BY <1>1, <1>3, <2>1 DEF Answered
<1>5. CASE outcome.error # NoError
  <2>1. snapshot'.lastError # NoError
    BY <1>1, <1>2, <1>5 DEF Folded, Snapshot
  <2> QED
    BY <2>1 DEF Answered
<1> QED
  BY <1>4, <1>5

LEMMA AnsweredStep == TypeInv /\ Answered /\ [Next]_vars => Answered'
<1> SUFFICES ASSUME TypeInv, Answered, [Next]_vars PROVE Answered'
  OBVIOUS
<1>1. CASE \/ Begin \/ NewTicker \/ Stop \/ TakeTick \/ Drain \/ Discover \/ Seed
           \/ Collect \/ QueryRejected \/ QueryFailed \/ QueryAnswered
  <2>1. pc' \notin {"account", "publish", "announce"}
    BY <1>1 DEF Begin, NewTicker, Stop, TakeTick, Drain, Discover, Seed, Collect,
                QueryRejected, QueryFailed, QueryAnswered
  <2> QED
    BY <2>1 DEF Answered
<1>2. CASE DiscoverFails \/ RunCancelled \/ RecordCancelled \/ AccountCancelled
  BY <1>2 DEF DiscoverFails, RunCancelled, RecordCancelled, AccountCancelled, Abort,
              EndSweep, Answered
<1>3. CASE SeedNone \/ Announce
  <2>1. pc' \notin {"account", "publish", "announce"}
    BY <1>3 DEF SeedNone, Announce, AnnounceAndStep, EndPass, EndSweep
  <2> QED
    BY <2>1 DEF Answered
<1>4. CASE Record
  BY <1>4, AnsweredRecord
<1>5. CASE Account \/ Publish
  BY <1>5 DEF Account, Publish, attempt, Answered
<1>6. CASE Tick \/ Cancel \/ AdvanceClock \/ UNCHANGED vars
  BY <1>6 DEF Tick, Cancel, AdvanceClock, vars, attempt, Answered
<1> QED
  BY <1>1, <1>2, <1>3, <1>4, <1>5, <1>6 DEF Next, Goroutine, Attempt, Returned

\* A published success shows nothing its query did not ask for, whatever the
\* answers contain and however many stages the fallback went through.
THEOREM OnlyRequestedSectionsHolds == Spec => []OnlyRequestedSections
<1>1. Init => Answered
  BY DEF Init, Answered
<1>2. Answered => OnlyRequestedSections
  BY DEF Answered, OnlyRequestedSections
<1> QED
  BY <1>1, <1>2, AnsweredStep, TypeInvariant, PTL DEF Spec

-----------------------------------------------------------------------------
(* What the caches inherit from what they implement.                       *)

LEMMA CacheConstants == Net!AbsentAssumption /\ PCIe!AbsentAssumption
BY AbsentAssumption DEF Net!AbsentAssumption, PCIe!AbsentAssumption, Net!Snapshot, PCIe!Snapshot,
   Snapshot, Net!Target, PCIe!Target, Target, Net!Sections, PCIe!Sections, Sections,
   Net!Reasons, PCIe!Reasons, Reasons, Net!NoError, PCIe!NoError

\* No device is shown data it never gave, nor a last success the clock has not
\* reached, by either store (collector.go:231-238).
THEOREM StoresAreDated == Spec => [](Net!Dated /\ PCIe!Dated)
<1>1. Net!Spec => []Net!Dated
  BY CacheConstants, Net!DatedHolds
<1>2. PCIe!Spec => []PCIe!Dated
  BY CacheConstants, PCIe!DatedHolds
<1> QED
  BY <1>1, <1>2, NetImplementsCache, PCIeImplementsCache, PTL DEF NetIsACache, PCIeIsACache

\* Of a device that stays in a store, the last success never goes back, and the data
\* change with a success only (poller.go:322-323, 357-359, 522-533).
THEOREM StoresGoForward == Spec => Net!OnlyForward /\ PCIe!OnlyForward
<1>1. Net!Spec => Net!OnlyForward
  BY CacheConstants, Net!OnlyForwardHolds
<1>2. PCIe!Spec => PCIe!OnlyForward
  BY CacheConstants, PCIe!OnlyForwardHolds
<1> QED
  BY <1>1, <1>2, NetImplementsCache, PCIeImplementsCache, PTL DEF NetIsACache, PCIeIsACache

\* Readiness is announced once, with a network port that is up to be scraped
\* (poller.go:251-257).
THEOREM ReadyWithAnUpDevice == Spec => Net!ReadyOnce
<1>1. Net!Spec => Net!ReadyOnce
  BY CacheConstants, Net!ReadyOnceHolds
<1> QED
  BY <1>1, NetImplementsCache, PTL DEF NetIsACache

-----------------------------------------------------------------------------
(* The loop main waits for.                                                *)

LEMMA LoopStep == TypeInv /\ [Next]_vars => [Loop!Next]_(Loop!vars)
<1> SUFFICES ASSUME TypeInv, [Next]_vars PROVE [Loop!Next]_(Loop!vars)
  OBVIOUS
<1> USE DEF InSweep, InPass, InAttempt
<1>1. CASE Begin \/ NewTicker \/ TakeTick \/ Drain \/ DiscoverFails
  BY <1>1 DEF Begin, NewTicker, TakeTick, Drain, DiscoverFails, EndSweep, env,
              Loop!vars, Loop!Next, Loop!Finish
<1>2. CASE Stop
  BY <1>2 DEF Stop, env, Loop!Next, Loop!Finish
<1>3. CASE Discover
  BY <1>3 DEF Discover, env, Loop!Next, Loop!OpenSweep
<1>4. CASE SeedNone \/ Announce
  <2>1. pc \in {"seed", "announce"} /\ UNCHANGED <<ctxDone, failed>>
    BY <1>4 DEF SeedNone, Announce, AnnounceAndStep, env
  <2>2. pc' \in {"seed", "collect", "newTicker", "drain"}
    BY <1>4 DEF SeedNone, Announce, AnnounceAndStep, EndPass, EndSweep
  <2> QED
    BY <2>1, <2>2 DEF Loop!vars, Loop!Next, Loop!CloseSweep
<1>5. CASE Seed \/ Publish \/ Record \/ Account
  BY <1>5 DEF Seed, Publish, Record, Account, env, Loop!vars
<1>6. CASE Collect
  BY <1>6 DEF Collect, env, Loop!Next, Loop!Begin
<1>7. CASE RunCancelled
  BY <1>7 DEF RunCancelled, Abort, EndSweep, env, Loop!Next, Loop!GiveUp
<1>8. CASE RecordCancelled \/ AccountCancelled
  BY <1>8 DEF RecordCancelled, AccountCancelled, Abort, EndSweep, env,
              Loop!Next, Loop!CloseSweep
<1>9. CASE QueryRejected \/ QueryFailed
  <2>1. PICK error \in Reasons : failed' = Failing(error)
    BY <1>9, PollerAssumption DEF QueryRejected, QueryFailed, Reasons
  <2>2. failed \in [ErrorKeys -> Nat] /\ <<phase, target, error>> \in ErrorKeys
    <3>1. pc = "run"
      BY <1>9 DEF QueryRejected, QueryFailed
    <3>2. target \in Target /\ phase \in Phases
      BY <3>1, TargetType DEF TypeInv, TypeOK, SweepType
    <3> QED
      BY <3>2 DEF TypeInv, TypeOK, HistoryType, ErrorKeys
  <2>3. failed'[<<phase, target, error>>] # failed[<<phase, target, error>>]
    BY <2>1, <2>2 DEF Failing
  <2>4. pc = "run" /\ ~ctxDone /\ ctxDone' = ctxDone /\ pc' \in {"run", "record"}
    BY <1>9 DEF QueryRejected, QueryFailed, env
  <2> QED
    BY <2>3, <2>4 DEF Loop!Next, Loop!Fail
<1>10. CASE QueryAnswered
  BY <1>10 DEF QueryAnswered, env, Loop!Next, Loop!Answer
<1>11. CASE Cancel
  BY <1>11 DEF Cancel, Loop!Next, Loop!Cancel
<1>12. CASE Tick \/ AdvanceClock \/ UNCHANGED vars
  BY <1>12 DEF Tick, AdvanceClock, vars, env, Loop!vars
<1> QED
  BY <1>1, <1>2, <1>3, <1>4, <1>5, <1>6, <1>7, <1>8, <1>9, <1>10, <1>11, <1>12
     DEF Next, Goroutine, Attempt, Returned

\* Once the context is done, at most one invocation is begun, no failure is seen
\* of the one under way, and the loop ends for good: what wg.Wait waits for.
THEOREM LoopIsPollingHolds == Spec => LoopIsPolling
<1>1. Init => Loop!Init
  BY DEF Init, Loop!Init, InSweep, InPass, InAttempt
<1> QED
  BY <1>1, LoopStep, TypeInvariant, PTL DEF Spec, LoopIsPolling, Loop!Spec

\* Cancelled, the goroutine goes towards its return only: it has at most the query of
\* one more attempt to begin and gives it up. No failure is seen any more; one seen
\* before the context was done may still be counted after it, and nothing else is
\* (poller.go:196-200, 329, 377-379, 420-428, 478-483).
THEOREM WindsDownHolds ==
    Spec => /\ Loop!WindsDown
            /\ [][ctxDone => \A k \in ErrorKeys : errors'[k] <= failed[k]]_vars
<1>1. TypeInv /\ [Loop!Next]_(Loop!vars) => [Loop!Nearer]_(Loop!vars)
  BY DEF Loop!Next, Loop!Cancel, Loop!OpenSweep, Loop!CloseSweep, Loop!Begin, Loop!Answer,
         Loop!Fail, Loop!GiveUp, Loop!Finish, Loop!vars, Loop!Nearer, Loop!ToGo
<1>2. ErrorLedger' /\ [Loop!Nearer]_(Loop!vars)
        => [ctxDone => \A k \in ErrorKeys : errors'[k] <= failed[k]]_vars
  BY DEF ErrorLedger, Loop!vars, Loop!Nearer
<1> QED
  BY <1>1, <1>2, LoopIsPollingHolds, TypeInvariant, ErrorLedgerHolds, PTL
     DEF LoopIsPolling, Loop!Spec, Loop!WindsDown

-----------------------------------------------------------------------------
(* A sweep is finite. What is left of it is a number, which every step of  *)
(* the goroutine makes smaller.                                            *)

\* A query is of its attempt: it can be followed by no more than the first one.
Asked == pc = "run" => Chain[query] <= PerAttempt

LEMMA ChainValues ==
    /\ Chain["eye"] = 3 /\ Chain["combined"] = 2 /\ Chain["baseline"] = 1 /\ Chain["pcie"] = 1
    /\ \A q \in Queries : Chain[q] \in 1..3
    /\ \A q \in DOMAIN Fallback : Fallback[q] \in Queries /\ Chain[Fallback[q]] < Chain[q]
<1>1. Chain["eye"] = 3 /\ Chain["combined"] = 2 /\ Chain["baseline"] = 1 /\ Chain["pcie"] = 1
  BY DEF Chain
<1>2. DOMAIN Fallback = {"eye", "combined"}
      /\ Fallback["eye"] = "combined" /\ Fallback["combined"] = "baseline"
  BY DEF Fallback
<1> QED
  BY <1>1, <1>2 DEF Queries

LEMMA PerAttemptType == PerAttempt \in 1..3 /\ (phase = "pcie" => PerAttempt = 1)
BY ChainValues DEF PerAttempt, FirstQuery, Queries

LEMMA SweepNumbers ==
    ASSUME TypeInv, InSweep
    PROVE  /\ Len(targets) \in Nat
           /\ InPass => idx \in 1..Len(targets)
           /\ AttemptsLeft \in 0..Len(targets) /\ PassLeft \in {0, Len(targets)}
           /\ StagesLeft \in 0..7 /\ StagesLeft + AttemptsLeft > 0
           /\ pc = "run" => Chain[query] \in 1..3
<1>1. targets \in Seq(Target) /\ query \in Queries
  BY DEF TypeInv, TypeOK, SweepType, AttemptType, TargetList
<1>2. Len(targets) \in Nat /\ DOMAIN targets = 1..Len(targets)
  BY <1>1
<1>3. InPass => idx \in 1..Len(targets)
  BY <1>2 DEF TypeInv, TypeOK, ControlType
<1>4. Chain[query] \in 1..3
  BY <1>1, ChainValues
<1>5. AttemptsLeft \in 0..Len(targets) /\ PassLeft \in {0, Len(targets)}
  BY <1>2, <1>3 DEF AttemptsLeft, PassLeft, InSweep
<1>6. StagesLeft \in 0..7
  BY <1>4 DEF StagesLeft
<1>7. StagesLeft + AttemptsLeft > 0
  <2>1. CASE pc = "collect"
    BY <1>2, <1>3, <1>6, <2>1 DEF InPass, AttemptsLeft
  <2>2. CASE pc # "collect"
    <3>1. StagesLeft > 0
      BY <1>4, <2>2 DEF InSweep, InPass, InAttempt, StagesLeft
    <3>2. AttemptsLeft \in Nat
      <4>1. Len(targets) \in Nat /\ AttemptsLeft \in 0..Len(targets)
        BY <1>2, <1>5
      <4> QED
        BY <4>1
    <3> QED
      BY <1>6, <3>1, <3>2
  <2> QED
    BY <2>1, <2>2
<1> QED
  BY <1>2, <1>3, <1>4, <1>5, <1>6, <1>7

\* The bounds in any state.
LEMMA SweepBounds ==
    ASSUME TypeInv, Asked
    PROVE  StepsLeft \in Nat /\ InvocationsLeft \in 0..(4 * Len(targets))
<1>1. CASE ~InSweep
  <2>1. targets \in Seq(Target)
    BY DEF TypeInv, TypeOK, SweepType, TargetList
  <2>2. Len(targets) \in Nat
    BY <2>1
  <2> QED
    BY <1>1, <2>2 DEF StepsLeft, InvocationsLeft
<1>2. CASE InSweep
  <2> DEFINE n == Len(targets)
             running == IF pc = "run" THEN Chain[query] ELSE 0
  <2>1. /\ n \in Nat /\ AttemptsLeft \in 0..n /\ PassLeft \in {0, n} /\ StagesLeft \in 0..7
        /\ PerAttempt \in 1..3 /\ (phase = "pcie" => PerAttempt = 1) /\ running \in 0..3
    BY <1>2, SweepNumbers, PerAttemptType
  <2>2. StepsLeft \in Nat
    BY <1>2, <2>1 DEF StepsLeft
  <2>3. InvocationsLeft = PassLeft + PerAttempt * AttemptsLeft + running
    BY <1>2 DEF InvocationsLeft
  <2>4. pc = "run" => AttemptsLeft <= n - 1
    BY <1>2, <2>1, SweepNumbers DEF InPass, InAttempt, AttemptsLeft
  <2>5. pc = "run" => running <= PerAttempt
    BY DEF Asked
  <2>6. PerAttempt * AttemptsLeft + running \in 0..(3 * n)
    <3> HIDE DEF running, n
    <3>1. PerAttempt = 1 \/ PerAttempt = 2 \/ PerAttempt = 3
      BY <2>1
    <3>2. CASE pc = "run"
      BY <2>1, <2>4, <2>5, <3>1, <3>2
    <3>3. CASE pc # "run"
      <4>1. running = 0
        BY <3>3 DEF running
      <4> QED
        BY <2>1, <3>1, <4>1
    <3> QED
      BY <3>2, <3>3
  <2>7. InvocationsLeft \in 0..(4 * n)
    <3> HIDE DEF running, n
    <3> DEFINE part == PerAttempt * AttemptsLeft
    <3>1. part \in Nat
      <4>1. PerAttempt \in Nat /\ AttemptsLeft \in Nat
        BY <2>1
      <4> QED
        BY <4>1
    <3> HIDE DEF part
    <3>2. part + running \in 0..(3 * n) /\ InvocationsLeft = PassLeft + part + running
      BY <2>3, <2>6 DEF part
    <3> QED
      BY <2>1, <3>1, <3>2
  <2> QED
    BY <2>2, <2>7
<1> QED
  BY <1>1, <1>2

\* A sweep that ends has nothing left, and had something.
LEMMA SweepEnded ==
    ASSUME TypeInv, Asked, InSweep, ~InSweep'
    PROVE  /\ StepsLeft' \in Nat /\ StepsLeft' < StepsLeft
           /\ InvocationsLeft' <= InvocationsLeft
           /\ pc = "run" => InvocationsLeft' < InvocationsLeft
<1> DEFINE product == PerAttempt * AttemptsLeft
<1>1. StepsLeft' = 0 /\ InvocationsLeft' = 0
  BY DEF StepsLeft, InvocationsLeft
<1>2. StepsLeft > 0
  <2>1. /\ StagesLeft \in Nat /\ AttemptsLeft \in Nat /\ PassLeft \in Nat
        /\ StagesLeft + AttemptsLeft > 0
    BY SweepNumbers
  <2> QED
    BY <2>1 DEF StepsLeft
<1>3. /\ InvocationsLeft >= 0
      /\ pc = "run" => InvocationsLeft > 0
  <2>1. /\ PassLeft \in Nat /\ PerAttempt \in Nat /\ AttemptsLeft \in Nat
        /\ pc = "run" => Chain[query] \in 1..3
    BY SweepNumbers, PerAttemptType
  <2>2. product \in Nat
    BY <2>1
  <2>3. InvocationsLeft = PassLeft + product + (IF pc = "run" THEN Chain[query] ELSE 0)
    BY DEF InvocationsLeft
  <2> HIDE DEF product
  <2> QED
    BY <2>1, <2>2, <2>3
<1> QED
  BY <1>1, <1>2, <1>3

\* The second pass has no more to do than was set aside for it.
LEMMA PassEnded ==
    ASSUME TypeInv, Asked, InSweep, pc # "run", EndPass,
           AttemptsLeft = 0
    PROVE  /\ StepsLeft' \in Nat /\ StepsLeft' < StepsLeft
           /\ InvocationsLeft' <= InvocationsLeft
<1>1. CASE EndSweep
  <2>1. ~InSweep'
    BY <1>1 DEF EndSweep, InSweep, InPass, InAttempt
  <2> QED
    BY <2>1, SweepEnded
<1>2. CASE phase = "net" /\ ShowPCIeEye /\ ~EndSweep
  <2>1. pc' = "seed" /\ phase' = "pcie" /\ targets' = targets
    BY <1>2 DEF EndPass
  <2> DEFINE n == Len(targets)
  <2>2. /\ n \in Nat /\ PassLeft = n /\ StagesLeft \in Nat /\ StagesLeft > 0
        /\ PerAttempt \in Nat
    <3>1. StagesLeft + AttemptsLeft > 0 /\ StagesLeft \in Nat /\ n \in Nat
      BY SweepNumbers
    <3> QED
      BY <1>2, <3>1, PerAttemptType DEF PassLeft
  <2>3. AttemptsLeft' = n /\ PassLeft' = 0 /\ PerAttempt' = 1 /\ StagesLeft' = 1 /\ InSweep'
    BY <2>1, ChainValues
       DEF AttemptsLeft, PassLeft, PerAttempt, FirstQuery, StagesLeft, InSweep
  <2>4. StepsLeft = StagesLeft + 8 * n + 1
    BY <1>2, <2>2 DEF StepsLeft
  <2>5. StepsLeft' = 1 + 8 * n
    BY <2>1, <2>2, <2>3 DEF StepsLeft
  <2>6. InvocationsLeft = n
    BY <2>2 DEF InvocationsLeft
  <2>7. InvocationsLeft' = n
    BY <2>1, <2>2, <2>3 DEF InvocationsLeft
  <2> QED
    BY <2>2, <2>4, <2>5, <2>6, <2>7
<1> QED
  BY <1>1, <1>2 DEF EndPass

LEMMA Arithmetic == \A a, b \in Nat : a * b \in Nat /\ a * (b + 1) = a * b + a
OBVIOUS

\* Within a pass, what is left of it is all that can change.
LEMMA WithinPass ==
    ASSUME TypeInv, InSweep, InSweep', UNCHANGED <<phase, targets>>,
           AttemptsLeft' \in Nat, StagesLeft' \in Nat,
           NEW before \in Nat, before = (IF pc = "run" THEN Chain[query] ELSE 0),
           NEW after \in Nat, after = (IF pc' = "run" THEN Chain[query'] ELSE 0)
    PROVE  /\ StagesLeft' + 8 * AttemptsLeft' < StagesLeft + 8 * AttemptsLeft
                => StepsLeft' \in Nat /\ StepsLeft' < StepsLeft
           /\ AttemptsLeft' = AttemptsLeft =>
                /\ after <= before => InvocationsLeft' <= InvocationsLeft
                /\ after < before => InvocationsLeft' < InvocationsLeft
           /\ AttemptsLeft' + 1 = AttemptsLeft /\ after <= before + PerAttempt =>
                InvocationsLeft' <= InvocationsLeft
<1> DEFINE attempts == AttemptsLeft'
           stages == StagesLeft'
           more == IF phase = "net" /\ ShowPCIeEye THEN 1 ELSE 0
<1>1. /\ AttemptsLeft \in Nat /\ PassLeft \in Nat /\ StagesLeft \in Nat
      /\ PerAttempt \in Nat /\ more \in Nat
  BY SweepNumbers, PerAttemptType
<1>2. PassLeft' = PassLeft /\ PerAttempt' = PerAttempt
  BY DEF PassLeft, PerAttempt, FirstQuery
<1>3. attempts \in Nat /\ stages \in Nat
  OBVIOUS
<1>4. /\ StepsLeft = StagesLeft + 8 * AttemptsLeft + 8 * PassLeft + more
      /\ StepsLeft' = stages + 8 * attempts + 8 * PassLeft + more
  BY <1>2 DEF StepsLeft
<1>5. /\ InvocationsLeft = PassLeft + PerAttempt * AttemptsLeft + before
      /\ InvocationsLeft' = PassLeft + PerAttempt * attempts + after
  BY <1>2 DEF InvocationsLeft
<1> HIDE DEF more, attempts, stages
<1>6. stages + 8 * attempts < StagesLeft + 8 * AttemptsLeft
        => StepsLeft' \in Nat /\ StepsLeft' < StepsLeft
  BY <1>1, <1>3, <1>4
<1>7. ASSUME attempts = AttemptsLeft
      PROVE  /\ after <= before => InvocationsLeft' <= InvocationsLeft
             /\ after < before => InvocationsLeft' < InvocationsLeft
  <2> DEFINE product == PerAttempt * AttemptsLeft
  <2>1. product \in Nat
    BY <1>1
  <2>2. /\ InvocationsLeft = PassLeft + product + before
        /\ InvocationsLeft' = PassLeft + product + after
    BY <1>5, <1>7
  <2> HIDE DEF product
  <2> QED
    BY <1>1, <2>1, <2>2
<1>8. ASSUME attempts + 1 = AttemptsLeft, after <= before + PerAttempt
      PROVE  InvocationsLeft' <= InvocationsLeft
  <2> DEFINE product == PerAttempt * attempts
  <2>1. product \in Nat
    BY <1>1, <1>3
  <2>2. PerAttempt * AttemptsLeft = product + PerAttempt
    BY <1>1, <1>3, <1>8, Arithmetic
  <2>3. /\ InvocationsLeft = PassLeft + (product + PerAttempt) + before
        /\ InvocationsLeft' = PassLeft + product + after
    BY <1>5, <2>2
  <2> HIDE DEF product
  <2> QED
    BY <1>1, <1>8, <2>1, <2>3
<1> QED
  BY <1>6, <1>7, <1>8 DEF attempts, stages

Lessens ==
    /\ StepsLeft' \in Nat /\ StepsLeft' < StepsLeft
    /\ InvocationsLeft' <= InvocationsLeft
    /\ pc = "run" => InvocationsLeft' < InvocationsLeft

LEMMA SeedLessens == ASSUME TypeInv, TypeInv', Asked, Seed PROVE Lessens
<1>1. /\ pc = "seed" /\ pc' = "collect" /\ idx' = 1 /\ UNCHANGED <<phase, targets>>
      /\ InSweep /\ InSweep'
  BY DEF Seed, InSweep, InPass
<1>2. Len(targets) \in Nat
  BY <1>1, SweepNumbers
<1>3. /\ StagesLeft = 1 /\ StagesLeft' = 0
      /\ AttemptsLeft = Len(targets) /\ AttemptsLeft' = Len(targets)
  BY <1>1, <1>2 DEF StagesLeft, AttemptsLeft
<1> QED
  BY <1>1, <1>2, <1>3, WithinPass DEF Lessens

LEMMA CollectLessens == ASSUME TypeInv, Asked, Collect PROVE Lessens
<1>1. /\ pc = "collect" /\ pc' = "run" /\ query' = FirstQuery
      /\ UNCHANGED <<phase, targets, idx>> /\ InSweep /\ InSweep'
  BY DEF Collect, sweep, InSweep, InPass, InAttempt
<1>2. Len(targets) \in Nat /\ idx \in 1..Len(targets) /\ PerAttempt \in 1..3
  BY <1>1, SweepNumbers, PerAttemptType DEF InPass
<1>3. Chain[query'] = PerAttempt
  BY <1>1 DEF PerAttempt
<1>4. /\ StagesLeft = 0 /\ StagesLeft' = 4 + PerAttempt
      /\ AttemptsLeft = Len(targets) - idx + 1 /\ AttemptsLeft' = Len(targets) - idx
  BY <1>1, <1>3 DEF StagesLeft, AttemptsLeft
<1>5. /\ AttemptsLeft' \in Nat /\ StagesLeft' \in Nat /\ AttemptsLeft' + 1 = AttemptsLeft
      /\ StagesLeft' + 8 * AttemptsLeft' < StagesLeft + 8 * AttemptsLeft
  BY <1>2, <1>4
<1>6. PerAttempt \in Nat /\ PerAttempt = (IF pc' = "run" THEN Chain[query'] ELSE 0)
  BY <1>1, <1>2, <1>3
<1>7. 0 = (IF pc = "run" THEN Chain[query] ELSE 0)
  BY <1>1
<1>8. StepsLeft' \in Nat /\ StepsLeft' < StepsLeft /\ InvocationsLeft' <= InvocationsLeft
  BY <1>1, <1>2, <1>5, <1>6, <1>7, WithinPass
<1> QED
  BY <1>1, <1>8 DEF Lessens

\* An attempt goes on: from one query to the next, or past the last of them.
LEMMA AttemptLessens ==
    ASSUME TypeInv, Asked, QueryRejected \/ QueryFailed \/ QueryAnswered \/ Record
                            \/ Account \/ Publish
    PROVE  Lessens
<1>1. UNCHANGED <<phase, targets, idx>> /\ InAttempt /\ InAttempt'
  BY DEF QueryRejected, QueryFailed, QueryAnswered, Record, Account, Publish, sweep, InAttempt
<1>2. InSweep /\ InSweep'
  BY <1>1 DEF InSweep, InPass
<1> DEFINE before == IF pc = "run" THEN Chain[query] ELSE 0
           after == IF pc' = "run" THEN Chain[query'] ELSE 0
<1>3. AttemptsLeft = Len(targets) - idx /\ AttemptsLeft' = AttemptsLeft /\ AttemptsLeft \in Nat
  <2>1. AttemptsLeft \in Nat
    BY <1>2, SweepNumbers
  <2>2. pc \notin {"seed", "collect"} /\ pc' \notin {"seed", "collect"}
    BY <1>1 DEF InAttempt
  <2> QED
    BY <1>1, <2>1, <2>2 DEF AttemptsLeft
<1>4. /\ before \in Nat /\ after \in Nat /\ after <= before /\ (pc = "run" => after < before)
      /\ StagesLeft \in Nat /\ StagesLeft' \in Nat /\ StagesLeft' < StagesLeft
  <2>1. pc = "run" => Chain[query] \in 1..3
    BY <1>2, SweepNumbers
  <2>2. CASE QueryRejected
    <3>1. /\ pc = "run" /\ pc' = "run"
          /\ Chain[query'] < Chain[query] /\ Chain[query'] \in 1..3
      BY <2>2, ChainValues DEF QueryRejected
    <3>2. StagesLeft = 4 + Chain[query] /\ StagesLeft' = 4 + Chain[query']
      BY <3>1 DEF StagesLeft
    <3> QED
      BY <2>1, <3>1, <3>2
  <2>3. CASE QueryFailed \/ QueryAnswered
    <3>1. pc = "run" /\ pc' = "record"
      BY <2>3 DEF QueryFailed, QueryAnswered
    <3>2. StagesLeft = 4 + Chain[query] /\ StagesLeft' = 4
      BY <3>1 DEF StagesLeft
    <3> QED
      BY <2>1, <3>1, <3>2
  <2>4. CASE Record \/ Account \/ Publish
    <3>1. \/ pc = "record" /\ pc' \in {"account", "publish"}
          \/ pc = "account" /\ pc' = "publish"
          \/ pc = "publish" /\ pc' = "announce"
      BY <2>4 DEF Record, Account, Publish
    <3> QED
      BY <3>1 DEF StagesLeft
  <2> QED
    BY <2>2, <2>3, <2>4
<1>5. StagesLeft' + 8 * AttemptsLeft' < StagesLeft + 8 * AttemptsLeft /\ AttemptsLeft' \in Nat
  <2>1. \A a, b, c \in Nat : a < b => a + 8 * c < b + 8 * c
    OBVIOUS
  <2> QED
    BY <1>3, <1>4, <2>1
<1> HIDE DEF before, after
<1>6. /\ StepsLeft' \in Nat /\ StepsLeft' < StepsLeft
      /\ after <= before => InvocationsLeft' <= InvocationsLeft
      /\ after < before => InvocationsLeft' < InvocationsLeft
  BY <1>1, <1>2, <1>3, <1>4, <1>5, WithinPass DEF before, after
<1> QED
  BY <1>4, <1>6 DEF Lessens

LEMMA AnnounceLessens == ASSUME TypeInv, Asked, Announce PROVE Lessens
<1>1. pc = "announce" /\ InPass /\ InSweep
  BY DEF Announce, AnnounceAndStep, InSweep, InPass, InAttempt
<1>2. Len(targets) \in Nat /\ idx \in 1..Len(targets)
  BY <1>1, SweepNumbers
<1>3. StagesLeft = 1 /\ AttemptsLeft = Len(targets) - idx
  BY <1>1 DEF StagesLeft, AttemptsLeft
<1>4. CASE idx < Len(targets)
  <2>1. pc' = "collect" /\ idx' = idx + 1 /\ UNCHANGED <<phase, targets>> /\ InSweep'
    BY <1>4 DEF Announce, AnnounceAndStep, InSweep, InPass
  <2>2. /\ StagesLeft' = 0 /\ AttemptsLeft' = AttemptsLeft
        /\ StagesLeft' \in Nat /\ AttemptsLeft' \in Nat
    BY <1>2, <1>3, <1>4, <2>1 DEF StagesLeft, AttemptsLeft
  <2>3. StagesLeft' + 8 * AttemptsLeft' < StagesLeft + 8 * AttemptsLeft
    BY <1>3, <2>2
  <2> QED
    BY <1>1, <2>1, <2>2, <2>3, WithinPass DEF Lessens
<1>5. CASE ~(idx < Len(targets))
  <2>1. EndPass
    BY <1>5 DEF Announce, AnnounceAndStep
  <2>2. AttemptsLeft = 0
    BY <1>2, <1>3, <1>5
  <2> QED
    BY <1>1, <2>1, <2>2, PassEnded DEF Lessens
<1> QED
  BY <1>4, <1>5

\* Each statement of a sweep leaves less of it to do.
LEMMA GoroutineLessens ==
    ASSUME TypeInv, TypeInv', Asked, Goroutine, InSweep PROVE Lessens
<1>1. CASE Begin \/ NewTicker \/ Stop \/ TakeTick \/ Drain \/ DiscoverFails \/ Discover
  <2>1. pc \in {"start", "newTicker", "wait", "drain", "discover"}
    BY <1>1 DEF Begin, NewTicker, Stop, TakeTick, Drain, DiscoverFails, Discover
  <2> QED
    BY <2>1 DEF InSweep, InPass, InAttempt
<1>2. CASE SeedNone
  <2>1. pc = "seed" /\ EndPass /\ targets = <<>>
    BY <1>2 DEF SeedNone
  <2>2. AttemptsLeft = 0
    BY <2>1 DEF AttemptsLeft
  <2> QED
    BY <2>1, <2>2, PassEnded DEF Lessens
<1>3. CASE RunCancelled \/ RecordCancelled \/ AccountCancelled
  <2>1. ~InSweep'
    BY <1>3 DEF RunCancelled, RecordCancelled, AccountCancelled, Abort, EndSweep,
                InSweep, InPass, InAttempt
  <2> QED
    BY <2>1, SweepEnded DEF Lessens
<1> QED
  BY <1>1, <1>2, <1>3, SeedLessens, CollectLessens, AttemptLessens, AnnounceLessens
     DEF Goroutine, Attempt

\* Nobody else can lengthen it.
LEMMA OthersLeaveIt ==
    ASSUME [Next]_vars, ~Goroutine
    PROVE  StepsLeft' = StepsLeft /\ InvocationsLeft' = InvocationsLeft
<1>1. UNCHANGED <<pc, query, phase, targets, idx>>
  BY DEF Next, Tick, Cancel, AdvanceClock, Returned, vars, sweep, attempt
<1>2. InSweep' = InSweep /\ AttemptsLeft' = AttemptsLeft /\ PassLeft' = PassLeft
  BY <1>1 DEF InSweep, InPass, InAttempt, AttemptsLeft, PassLeft
<1>3. PerAttempt' = PerAttempt /\ StagesLeft' = StagesLeft
  BY <1>1 DEF PerAttempt, FirstQuery, StagesLeft
<1> QED
  BY <1>1, <1>2, <1>3 DEF StepsLeft, InvocationsLeft

LEMMA AskedStep == TypeInv /\ Asked /\ [Next]_vars => Asked'
<1> SUFFICES ASSUME TypeInv, Asked, [Next]_vars, pc' = "run" PROVE Chain[query'] <= PerAttempt'
  BY DEF Asked
<1>1. CASE Collect
  <2>1. query' = FirstQuery /\ phase' = phase
    BY <1>1 DEF Collect, sweep
  <2>2. Chain[query'] = PerAttempt' /\ PerAttempt' = PerAttempt
    BY <2>1 DEF PerAttempt, FirstQuery
  <2> QED
    BY <2>2, PerAttemptType
<1>2. CASE QueryRejected
  <2>1. pc = "run" /\ query \in DOMAIN Fallback /\ query' = Fallback[query] /\ phase' = phase
    BY <1>2 DEF QueryRejected, sweep
  <2>2. Chain[query'] < Chain[query] /\ Chain[query'] \in 1..3 /\ Chain[query] \in 1..3
    <3>1. query \in Queries
      BY DEF TypeInv, TypeOK, AttemptType
    <3> QED
      BY <2>1, <3>1, ChainValues
  <2>3. PerAttempt' = PerAttempt /\ PerAttempt \in 1..3 /\ Chain[query] <= PerAttempt
    BY <2>1, PerAttemptType DEF PerAttempt, FirstQuery, Asked
  <2> QED
    BY <2>2, <2>3
<1>3. CASE ~Collect /\ ~QueryRejected
  <2>1. pc = "run" /\ UNCHANGED <<query, phase>>
    BY <1>3 DEF Next, Goroutine, Attempt, Begin, NewTicker, Stop, TakeTick, Drain,
         DiscoverFails, Discover, SeedNone, Seed, Publish, Announce, AnnounceAndStep,
         RunCancelled, RecordCancelled, AccountCancelled, Abort, EndPass, EndSweep,
         QueryFailed, QueryAnswered, Record, Account, Tick, Cancel, AdvanceClock,
         Returned, vars, sweep, attempt
  <2> QED
    BY <2>1 DEF Asked, PerAttempt, FirstQuery
<1> QED
  BY <1>1, <1>2, <1>3

\* A sweep of any number of devices ends, and takes four invocations for each at
\* most, whatever they come to (poller.go:300-314, 355-393).
THEOREM SweepIsBoundedHolds == Spec => SweepIsBounded
<1>1. Init => Asked
  BY DEF Init, Asked
<1>2. TypeInv /\ Asked => StepsLeft \in Nat /\ InvocationsLeft \in 0..(4 * Len(targets))
  BY SweepBounds
<1>3. TypeInv /\ TypeInv' /\ Asked /\ [Next]_vars
        => [InSweep => StepsLeft' <= StepsLeft /\ InvocationsLeft' <= InvocationsLeft]_vars
  <2> SUFFICES ASSUME TypeInv, TypeInv', Asked, [Next]_vars, InSweep
               PROVE  StepsLeft' <= StepsLeft /\ InvocationsLeft' <= InvocationsLeft
    OBVIOUS
  <2>1. StepsLeft \in Nat /\ InvocationsLeft \in Nat
    <3>1. targets \in Seq(Target)
      BY DEF TypeInv, TypeOK, SweepType, TargetList
    <3>2. Len(targets) \in Nat
      BY <3>1
    <3>3. StepsLeft \in Nat /\ InvocationsLeft \in 0..(4 * Len(targets))
      BY SweepBounds
    <3> QED
      BY <3>2, <3>3
  <2>2. CASE ~Goroutine
    BY <2>1, <2>2, OthersLeaveIt
  <2>3. CASE Goroutine
    <3>1. StepsLeft' \in Nat /\ StepsLeft' < StepsLeft /\ InvocationsLeft' <= InvocationsLeft
      BY <2>3, GoroutineLessens DEF Lessens
    <3> QED
      BY <2>1, <3>1
  <2> QED
    BY <2>2, <2>3
<1>4. TypeInv /\ TypeInv' /\ Asked /\ [Next]_vars
        => [Goroutine /\ InSweep => StepsLeft' < StepsLeft]_vars
  BY GoroutineLessens DEF Lessens
<1>5. TypeInv /\ TypeInv' /\ Asked /\ [Next]_vars
        => [Goroutine /\ pc = "run" => InvocationsLeft' < InvocationsLeft]_vars
  BY GoroutineLessens DEF Lessens, InSweep, InPass, InAttempt
<1> QED
  BY <1>1, <1>2, <1>3, <1>4, <1>5, AskedStep, TypeInvariant, PTL DEF Spec, SweepIsBounded
=============================================================================
