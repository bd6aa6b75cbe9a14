------------------------------ MODULE Discovery ------------------------------
(***************************************************************************)
(* Discover: one walk over /sys/class/infiniband, file by file, while the  *)
(* kernel adds, removes and reconfigures devices under it. There is no     *)
(* lock to take and no way to see the tree at one instant: a walk puts a   *)
(* target together from what it read at several.                           *)
(*                                                                         *)
(* Devices are numbered in the order of their names, which is the order    *)
(* os.ReadDir lists them in. The netdev of a target is left out: nothing   *)
(* reads it. So are the warnings.                                          *)
(*                                                                         *)
(* A definition whose comment begins with "Faulty:" is a slip the code     *)
(* could have made in the definition below it; no action uses it.          *)
(***************************************************************************)
EXTENDS Integers, Sequences, FiniteSets

CONSTANTS
    Devices,        \* the names a class entry may have
    Excluded,       \* those --exclude-devices lists, or that are no valid UTF-8
    PortNumbers,    \* the ports a device may have
    Addresses,      \* the PCI addresses its device link may lead to
    MaxChanges      \* bound: changes of the tree during one walk

ASSUME DiscoveryAssumption ==
    /\ Devices \subseteq Nat /\ Excluded \subseteq Devices
    /\ PortNumbers \subseteq Nat
    /\ Addresses \subseteq STRING /\ "" \notin Addresses
    /\ MaxChanges \in Nat

\* What a class entry leads to: nothing (any more), something that is no
\* directory, a virtual function (it has a physfn link) or a physical one.
Entry ==
    [kind : {"none", "other"}, ports : {{}}, addr : {""}] \cup
    [kind : {"vf", "pf"}, ports : SUBSET PortNumbers, addr : Addresses \cup {""}]

TargetOf == [device : Devices, port : PortNumbers, addr : Addresses \cup {""}]

VARIABLES
    sysfs,      \* the tree: what every name leads to now
    ctxDone,
    pc,         \* what is read next: "class", "link", "physfn" or "ports"
                \* of an entry, "next" between two, "start", "returned"
    left,       \* entries listed and not yet passed
    addr,       \* local of targetFor
    targets,
    failed,     \* whether the walk returned an error
    touched,    \* history: devices that changed since the walk began
    changes     \* history: changes since then

tree  == <<sysfs, ctxDone, touched, changes>>
walk  == <<pc, left, addr, targets, failed>>
vars  == <<tree, walk>>

Init ==
    /\ sysfs \in [Devices -> Entry]
    /\ ctxDone = FALSE
    /\ pc = "start" /\ left = {} /\ addr = "" /\ targets = <<>> /\ failed = FALSE
    /\ touched = {} /\ changes = 0

-----------------------------------------------------------------------------
(* The tree.                                                               *)

\* A device is plugged in, removed, bound, reset, or replaced by another.
Change(d) ==
    /\ changes < MaxChanges
    /\ \E e \in Entry : sysfs' = [sysfs EXCEPT ![d] = e]
    /\ touched' = touched \cup {d} /\ changes' = changes + 1
    /\ UNCHANGED <<ctxDone, walk>>

Cancel ==
    /\ ~ctxDone /\ ctxDone' = TRUE
    /\ UNCHANGED <<sysfs, touched, changes, walk>>

-----------------------------------------------------------------------------
(* One walk.                                                               *)

Return(error) ==
    /\ pc' = "returned" /\ left' = {} /\ addr' = "" /\ failed' = error
    /\ targets' = IF error THEN <<>> ELSE targets

\* The class directory is listed once. Any trouble with it but its absence,
\* which is a host without devices, is an error, as is a cancelled context.
Begin ==
    /\ pc \in {"start", "returned"}
    /\ touched' = {} /\ changes' = 0 /\ UNCHANGED <<sysfs, ctxDone>>
    /\ \/ /\ ~ctxDone
          /\ pc' = "next" /\ left' = {d \in Devices : sysfs[d].kind # "none"}
          /\ addr' = "" /\ targets' = <<>> /\ failed' = FALSE
       \/ Return(TRUE)

\* The entry under way: the first in name order of those left.
entry == CHOOSE d \in left : \A e \in left : d <= e

Pass ==
    /\ pc' = "next" /\ left' = left \ {entry} /\ addr' = ""
    /\ UNCHANGED <<targets, failed>>

\* Faulty: what a cancelled walk has so far is its result (StableIsFound).
NextEntryPartial ==
    /\ pc = "next"
    /\ IF ctxDone \/ left = {} THEN Return(FALSE)
       ELSE IF entry \in Excluded THEN Pass
       ELSE pc' = "class" /\ UNCHANGED <<left, addr, targets, failed>>
    /\ UNCHANGED tree

\* The context is looked at between two entries, not after the last.
NextEntry ==
    /\ pc = "next"
    /\ IF left = {} THEN Return(FALSE)
       ELSE IF ctxDone THEN Return(TRUE)
       ELSE IF entry \in Excluded THEN Pass
       ELSE pc' = "class" /\ UNCHANGED <<left, addr, targets, failed>>
    /\ UNCHANGED tree

IsDeviceDir ==
    /\ pc = "class"
    /\ IF sysfs[entry].kind \in {"vf", "pf"}
       THEN pc' = "link" /\ UNCHANGED <<left, addr, targets, failed>>
       ELSE Pass
    /\ UNCHANGED tree

\* A link that cannot be read, or used as a label, leaves the address empty.
ReadLink ==
    /\ pc = "link"
    /\ pc' = "physfn" /\ addr' = sysfs[entry].addr
    /\ UNCHANGED <<tree, left, targets, failed>>

\* No physfn link is what tells a physical function; a device that is gone has
\* none either.
Physfn ==
    /\ pc = "physfn"
    /\ IF sysfs[entry].kind = "vf" THEN Pass
       ELSE pc' = "ports" /\ UNCHANGED <<left, addr, targets, failed>>
    /\ UNCHANGED tree

LowestPort(ports) == CHOOSE p \in ports : \A q \in ports : p <= q

\* Faulty: the entry is looked at again after it became a target (InOrder).
AddAgain(port) ==
    /\ targets' = Append(targets, [device |-> entry, port |-> port, addr |-> addr])
    /\ pc' = "next" /\ addr' = "" /\ UNCHANGED <<left, failed>>

Add(port) ==
    /\ targets' = Append(targets, [device |-> entry, port |-> port, addr |-> addr])
    /\ pc' = "next" /\ left' = left \ {entry} /\ addr' = "" /\ UNCHANGED failed

\* A device without ports, or whose ports cannot be listed, is passed over.
Ports ==
    /\ pc = "ports"
    /\ LET ports == sysfs[entry].ports
       IN  IF ports = {} THEN Pass ELSE Add(LowestPort(ports))
    /\ UNCHANGED tree

Next ==
    \/ \E d \in Devices : Change(d)
    \/ Cancel
    \/ Begin \/ NextEntry \/ IsDeviceDir \/ ReadLink \/ Physfn \/ Ports

Spec == Init /\ [][Next]_vars

-----------------------------------------------------------------------------
(* Properties.                                                             *)

\* Type correctness, and the bound on the walk's own bookkeeping
\* (discovery.go:64-132).
TypeOK ==
    /\ sysfs \in [Devices -> Entry] /\ ctxDone \in BOOLEAN
    /\ pc \in {"start", "next", "class", "link", "physfn", "ports", "returned"}
    /\ left \subseteq Devices /\ addr \in Addresses \cup {""}
    /\ targets \in Seq(TargetOf) /\ failed \in BOOLEAN
    /\ touched \subseteq Devices /\ changes \in 0..MaxChanges
    /\ pc \in {"class", "link", "physfn", "ports"} => left # {}

\* The list names a device once, in name order, whatever happens to the tree:
\* what the poller's sweep and the labels of its series rely on
\* (discovery.go:79-91, poller.go:286-297).
InOrder ==
    \A i, j \in DOMAIN targets :
        i < j => targets[i].device < targets[j].device

\* The targets a device has in the list.
Found(d) == {targets[i] : i \in {j \in DOMAIN targets : targets[j].device = d}}

\* What a device that stands still should have.
Due(d) ==
    IF d \notin Excluded /\ sysfs[d].kind = "pf" /\ sysfs[d].ports # {}
    THEN {[device |-> d, port |-> LowestPort(sysfs[d].ports), addr |-> sysfs[d].addr]}
    ELSE {}

\* A walk that returns a list is right about every device that did not change
\* under it, however much the others did: a physical function is there, at its
\* address and its lowest port, and a virtual one, an excluded one or one
\* without ports is not. A walk cut short returns no list at all
\* (discovery.go:64-132, 163-199).
StableIsFound ==
    pc = "returned" /\ ~failed =>
        \A d \in Devices \ touched : Found(d) = Due(d)
=============================================================================
