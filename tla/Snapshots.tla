----------------------------- MODULE Snapshots -----------------------------
(***************************************************************************)
(* The data the poller publishes and the readers export: targets,          *)
(* snapshots and the immutable snapshot sets that replace one another.     *)
(*                                                                         *)
(* A payload is the set of telemetry sections it carries. The numbers in   *)
(* a section are left out; which sections a reader may be shown, and since *)
(* when, is what the poller decides.                                       *)
(***************************************************************************)
EXTENDS Naturals, Sequences

CONSTANTS
    Devices,    \* RDMA device names under /sys/class/infiniband
    Labels,     \* what else labels a device's series: port and PCI address
    Absent      \* the value of a map at a key it does not hold

\* The error reasons of the metric's label; NoError is the empty string that
\* marks a successful attempt.
Reasons == {"timeout", "command_not_found", "permission_denied", "exit_error",
            "invalid_json", "output_too_large", "unknown"}
NoError == ""

\* The sections of a decoded payload. "base" is link, counters and module.
Sections == {"base", "fec_histogram", "serdes_tx", "eye", "pcie_eye"}

\* The zero time. The clock starts after it, so no attempt can end at Never.
Never == 0

Target == [device: Devices, labels: Labels]

Snapshot == [target: Target,
             data: SUBSET Sections,
             lastSuccess: Nat,
             lastError: Reasons \cup {NoError},
             lastDuration: Nat]

ASSUME AbsentAssumption == Absent \notin Snapshot

\* A snapshot set is a map from device names; a nil set holds no device.
SnapshotSet == [Devices -> Snapshot \cup {Absent}]
EmptySet == [d \in Devices |-> Absent]

\* The zero value a failed lookup yields, with the target the caller puts in.
ZeroSnapshot(t) == [target |-> t, data |-> {}, lastSuccess |-> Never,
                    lastError |-> NoError, lastDuration |-> 0]

\* Faulty: every attempt starts from nothing (SnapshotCache's Fails).
LookupForgotten(set, t) == ZeroSnapshot(t)

\* lookup, then the assignment of the target discovery has just returned.
Lookup(set, t) ==
    IF set[t.device] = Absent THEN ZeroSnapshot(t)
                              ELSE [set[t.device] EXCEPT !.target = t]

\* What makes a collector report a device up.
Up(s) == s.lastError = NoError /\ s.lastSuccess # Never
=============================================================================
