--------------------------- MODULE DiscoveryProofs ---------------------------
(***************************************************************************)
(* Proofs about the walk over sysfs, for any devices, ports and addresses, *)
(* and any number of changes under it.                                     *)
(***************************************************************************)
EXTENDS Discovery, WellFoundedInduction, TLAPS

-----------------------------------------------------------------------------
(* The inductive invariant.                                                *)

AtEntry == pc \in {"class", "link", "physfn", "ports"}
Walking == pc = "next" \/ AtEntry

\* The entries left are behind the targets found.
Order ==
    /\ InOrder
    /\ \A i \in DOMAIN targets, d \in left : targets[i].device < d
    /\ ~Walking => left = {}

\* What has been read of the entry under way is still so, unless it changed.
Current ==
    AtEntry =>
        /\ entry \notin Excluded
        /\ entry \notin touched =>
             /\ pc # "class" => sysfs[entry].kind \in {"vf", "pf"}
             /\ pc \in {"physfn", "ports"} => addr = sysfs[entry].addr
             /\ pc = "ports" => sysfs[entry].kind = "pf"

\* The walk is right about the entries it has passed.
Passed == Walking => \A d \in Devices \ touched : d \notin left => Found(d) = Due(d)

Inv == TypeOK /\ Order /\ Current /\ Passed /\ StableIsFound

-----------------------------------------------------------------------------
(* Least elements, entries and lists.                                      *)

LEMMA NoChanges == 0 \in 0..MaxChanges
<1>1. MaxChanges \in Nat
  BY DiscoveryAssumption
<1> QED
  BY <1>1

LEMMA Least ==
  ASSUME NEW S \in SUBSET Nat, S # {}
  PROVE  \E m \in S : \A n \in S : m <= n
<1> DEFINE R == {pair \in Nat \X Nat : pair[1] < pair[2]}
<1>1. IsWellFoundedOn(R, Nat)
  BY NatLessThanWellFounded DEF OpToRel
<1>2. \A m, n \in S : <<n, m>> \in R <=> n < m
  OBVIOUS
<1> HIDE DEF R
<1>3. PICK m \in S : \A n \in S : ~ (<<n, m>> \in R)
  BY <1>1, WFMin
<1>4. \A n \in S : ~ (n < m) /\ n \in Nat /\ m \in Nat
  BY <1>2, <1>3
<1> QED
  BY <1>4

\* The entry under way is the first of those left.
LEMMA EntryIsFirst ==
  ASSUME left \subseteq Devices, left # {}
  PROVE  entry \in left /\ \A e \in left : entry <= e
<1>1. left \in SUBSET Nat
  BY DiscoveryAssumption
<1>2. \E d \in left : \A e \in left : d <= e
  BY <1>1, Least
<1> QED
  BY <1>2 DEF entry

LEMMA LowestPortIsPort ==
  ASSUME NEW ports \in SUBSET PortNumbers, ports # {}
  PROVE  LowestPort(ports) \in ports
<1>1. ports \in SUBSET Nat
  BY DiscoveryAssumption
<1>2. \E p \in ports : \A q \in ports : p <= q
  BY <1>1, Least
<1> QED
  BY <1>2 DEF LowestPort

LEMMA EntryTyped ==
  ASSUME NEW e \in Entry
  PROVE  /\ e.kind \in {"none", "other", "vf", "pf"}
         /\ e.ports \in SUBSET PortNumbers
         /\ e.addr \in Addresses \cup {""}
         /\ e.kind = "none" => e.ports = {}
  BY DEF Entry

LEMMA FoundNothing ==
  ASSUME TypeOK, Order, NEW d \in left
  PROVE  Found(d) = {}
<1>1. \A i \in DOMAIN targets : targets[i].device # d
  <2> SUFFICES ASSUME NEW i \in DOMAIN targets PROVE targets[i].device # d
    OBVIOUS
  <2>1. targets \in Seq(TargetOf)
    BY DEF TypeOK
  <2>2. targets[i] \in TargetOf
    BY <2>1
  <2>3. targets[i].device \in Nat /\ d \in Nat
    BY <2>2, DiscoveryAssumption DEF TargetOf, TypeOK
  <2>4. targets[i].device < d
    BY DEF Order
  <2> QED
    BY <2>3, <2>4
<1> QED
  BY <1>1 DEF Found

LEMMA FoundAppend ==
  ASSUME targets \in Seq(TargetOf), NEW t \in TargetOf, targets' = Append(targets, t), NEW d
  PROVE  Found(d)' = IF t.device = d THEN Found(d) \cup {t} ELSE Found(d)
<1>1. /\ DOMAIN targets' = DOMAIN targets \cup {Len(targets) + 1}
      /\ \A i \in DOMAIN targets : targets'[i] = targets[i]
      /\ targets'[Len(targets) + 1] = t
  OBVIOUS
<1>2. \A x : x \in Found(d)' <=> \E i \in DOMAIN targets' : targets'[i].device = d /\ x = targets'[i]
  BY DEF Found
<1>3. \A x : x \in Found(d) <=> \E i \in DOMAIN targets : targets[i].device = d /\ x = targets[i]
  BY DEF Found
<1>4. \A x : x \in Found(d)' <=> (x \in Found(d) \/ (t.device = d /\ x = t))
  BY <1>1, <1>2, <1>3
<1>5. CASE t.device = d
  BY <1>4, <1>5
<1>6. CASE t.device # d
  BY <1>4, <1>6
<1> QED
  BY <1>5, <1>6

LEMMA WalkStays ==
  ASSUME UNCHANGED targets
  PROVE  /\ \A d : Found(d)' = Found(d)
         /\ InOrder' <=> InOrder
  BY DEF Found, InOrder

LEMMA DueStays ==
  ASSUME NEW d, sysfs'[d] = sysfs[d]
  PROVE  Due(d)' = Due(d)
  BY DEF Due

\* What Ports appends.
LEMMA NewTarget ==
  ASSUME TypeOK, pc = "ports", sysfs[entry].ports # {}
  PROVE  [device |-> entry, port |-> LowestPort(sysfs[entry].ports), addr |-> addr] \in TargetOf
<1>1. entry \in Devices
  BY EntryIsFirst DEF TypeOK
<1>2. sysfs[entry].ports \in SUBSET PortNumbers
  BY <1>1, EntryTyped DEF TypeOK
<1>3. LowestPort(sysfs[entry].ports) \in PortNumbers
  BY <1>2, LowestPortIsPort
<1> QED
  BY <1>1, <1>3 DEF TargetOf, TypeOK

-----------------------------------------------------------------------------
(* Types.                                                                  *)

LEMMA TypesStep == TypeOK /\ [Next]_vars => TypeOK'
<1> SUFFICES ASSUME TypeOK, [Next]_vars PROVE TypeOK'
  OBVIOUS
<1>e. left # {} => entry \in left
  BY EntryIsFirst DEF TypeOK
<1>n. <<>> \in Seq(TargetOf)
  OBVIOUS
<1>1. ASSUME NEW d \in Devices, Change(d) PROVE TypeOK'
  <2>1. changes \in 0..MaxChanges /\ MaxChanges \in Nat
    BY DiscoveryAssumption DEF TypeOK
  <2>2. changes' \in 0..MaxChanges
    BY <1>1, <2>1 DEF Change
  <2> QED
    BY <1>1, <2>2 DEF Change, TypeOK, walk
<1>2. CASE Cancel
  BY <1>2 DEF Cancel, TypeOK, walk
<1>3. CASE Begin
  <2>1. /\ changes' = 0 /\ touched' = {} /\ UNCHANGED <<sysfs, ctxDone>>
        /\ sysfs \in [Devices -> Entry] /\ ctxDone \in BOOLEAN
    BY <1>3 DEF Begin, TypeOK
  <2>2. /\ pc' \in {"next", "returned"} /\ left' \subseteq Devices /\ addr' = ""
        /\ targets' = <<>> /\ failed' \in BOOLEAN
    BY <1>3 DEF Begin, Return
  <2> QED
    BY <2>1, <2>2, <1>n, NoChanges DEF TypeOK
<1>4. CASE NextEntry
  <2>1. CASE left = {} \/ ctxDone
    BY <1>4, <2>1, <1>n DEF NextEntry, Return, TypeOK, tree
  <2>2. CASE left # {} /\ ~ctxDone
    BY <1>4, <2>2 DEF NextEntry, Pass, TypeOK, tree
  <2> QED
    BY <2>1, <2>2
<1>5. CASE IsDeviceDir
  BY <1>5 DEF IsDeviceDir, Pass, TypeOK, tree
<1>6. CASE ReadLink
  <2>1. sysfs[entry].addr \in Addresses \cup {""}
    BY <1>6, <1>e, EntryTyped DEF ReadLink, TypeOK
  <2> QED
    BY <1>6, <2>1 DEF ReadLink, TypeOK, tree
<1>7. CASE Physfn
  BY <1>7 DEF Physfn, Pass, TypeOK, tree
<1>8. CASE Ports
  <2>1. CASE sysfs[entry].ports = {}
    BY <1>8, <2>1 DEF Ports, Pass, TypeOK, tree
  <2>2. CASE sysfs[entry].ports # {}
    <3> DEFINE t == [device |-> entry, port |-> LowestPort(sysfs[entry].ports), addr |-> addr]
    <3>0. targets \in Seq(TargetOf) /\ t \in TargetOf /\ targets' = Append(targets, t)
      BY <1>8, <2>2, NewTarget DEF Ports, Add, TypeOK
    <3>1. targets' \in Seq(TargetOf)
      <4> HIDE DEF t
      <4> QED BY <3>0
    <3> QED
      BY <1>8, <2>2, <3>1 DEF Ports, Add, TypeOK, tree
  <2> QED
    BY <2>1, <2>2
<1>9. CASE UNCHANGED vars
  BY <1>9 DEF vars, tree, walk, TypeOK
<1> QED
  BY <1>1, <1>2, <1>3, <1>4, <1>5, <1>6, <1>7, <1>8, <1>9 DEF Next

-----------------------------------------------------------------------------
(* The list is in order.                                                   *)

LEMMA OrderStep == TypeOK /\ Order /\ [Next]_vars => Order'
<1> SUFFICES ASSUME TypeOK, Order, [Next]_vars PROVE Order'
  OBVIOUS
<1>1. CASE UNCHANGED targets /\ left' \subseteq left /\ (Walking' \/ left' = {})
  BY <1>1, WalkStays DEF Order
<1>2. CASE targets' = <<>> /\ (Walking' \/ left' = {})
  BY <1>2 DEF Order, InOrder
<1>3. CASE Ports /\ sysfs[entry].ports # {}
  <2> DEFINE t == [device |-> entry, port |-> LowestPort(sysfs[entry].ports), addr |-> addr]
  <2>1. /\ targets' = Append(targets, t) /\ left' = left \ {entry} /\ pc' = "next"
        /\ t \in TargetOf /\ targets \in Seq(TargetOf) /\ t.device = entry
    BY <1>3, NewTarget DEF Ports, Add, TypeOK
  <2>2. entry \in left /\ \A e \in left : entry <= e
    BY <1>3, EntryIsFirst DEF Ports, TypeOK
  <2>3. \A e \in left : e \in Nat
    BY DiscoveryAssumption DEF TypeOK
  <2>4. \A e \in left' : entry < e
    BY <2>1, <2>2, <2>3
  <2> HIDE DEF t
  <2>5. /\ DOMAIN targets' = DOMAIN targets \cup {Len(targets) + 1}
        /\ DOMAIN targets = 1..Len(targets) /\ Len(targets) \in Nat
        /\ \A i \in DOMAIN targets : targets'[i] = targets[i]
        /\ targets'[Len(targets) + 1] = t
    BY <2>1
  <2>6. \A i \in DOMAIN targets : targets[i].device < entry
    BY <2>2 DEF Order
  <2>7. InOrder'
    <3> SUFFICES ASSUME NEW i \in DOMAIN targets', NEW j \in DOMAIN targets', i < j
                 PROVE  targets'[i].device < targets'[j].device
      BY DEF InOrder
    <3>1. i \in DOMAIN targets
      BY <2>5
    <3> QED
      BY <2>1, <2>5, <2>6, <3>1 DEF Order, InOrder
  <2>8. \A i \in DOMAIN targets', d \in left' : targets'[i].device < d
    BY <2>1, <2>4, <2>5 DEF Order
  <2>9. Walking'
    BY <2>1 DEF Walking
  <2> QED
    BY <2>7, <2>8, <2>9 DEF Order
<1>4. CASE \E d \in Devices : Change(d)
  BY <1>1, <1>4 DEF Change, walk, Walking, AtEntry, Order
<1>5. CASE Cancel \/ UNCHANGED vars
  BY <1>1, <1>5 DEF Cancel, vars, walk, Walking, AtEntry, Order
<1>6. CASE Begin
  BY <1>1, <1>2, <1>6 DEF Begin, Return, Walking
<1>7. CASE NextEntry
  BY <1>1, <1>2, <1>7 DEF NextEntry, Return, Pass, Walking, AtEntry
<1>8. CASE IsDeviceDir \/ ReadLink \/ Physfn
  BY <1>1, <1>8 DEF IsDeviceDir, ReadLink, Physfn, Pass, Walking, AtEntry
<1>9. CASE Ports /\ sysfs[entry].ports = {}
  BY <1>1, <1>9 DEF Ports, Pass, Walking
<1> QED
  BY <1>3, <1>4, <1>5, <1>6, <1>7, <1>8, <1>9 DEF Next

-----------------------------------------------------------------------------
(* What was read of the entry under way.                                   *)

LEMMA CurrentStep == TypeOK /\ Current /\ [Next]_vars => Current'
<1> SUFFICES ASSUME TypeOK, Current, [Next]_vars PROVE Current'
  OBVIOUS
<1>1. CASE ~AtEntry'
  BY <1>1 DEF Current
<1>2. CASE UNCHANGED walk /\ AtEntry /\ \E d \in Devices : Change(d)
  <2>1. PICK d \in Devices : Change(d)
    BY <1>2
  <2>2. entry \in left /\ entry \in Devices /\ entry' = entry
    BY <1>2, EntryIsFirst DEF walk, AtEntry, TypeOK, entry
  <2>3. entry \notin touched' => entry \notin touched /\ sysfs'[entry] = sysfs[entry]
    BY <2>1, <2>2 DEF Change, TypeOK
  <2> QED
    BY <1>2, <2>2, <2>3 DEF Current, AtEntry, walk
<1>3. CASE AtEntry /\ (Cancel \/ UNCHANGED vars)
  <2>1. UNCHANGED <<sysfs, touched, walk>> /\ entry' = entry
    BY <1>3 DEF Cancel, vars, tree, walk, entry
  <2> QED
    BY <1>3, <2>1 DEF Current, AtEntry, walk
<1>4. CASE NextEntry /\ AtEntry'
  BY <1>4 DEF NextEntry, Return, Pass, AtEntry, Current, entry
<1>5. CASE IsDeviceDir /\ AtEntry'
  BY <1>5 DEF IsDeviceDir, Pass, AtEntry, Current, entry, tree
<1>6. CASE ReadLink
  BY <1>6 DEF ReadLink, AtEntry, Current, entry, tree
<1>7. CASE Physfn /\ AtEntry'
  <2>1. /\ pc = "physfn" /\ pc' = "ports" /\ sysfs[entry].kind # "vf"
        /\ UNCHANGED <<left, addr, sysfs, touched>>
    BY <1>7 DEF Physfn, Pass, AtEntry, tree
  <2>2. entry' = entry
    BY <2>1 DEF entry
  <2> QED
    BY <2>1, <2>2 DEF Current, AtEntry
<1>8. CASE Begin \/ Ports
  BY <1>1, <1>8 DEF Begin, Return, Ports, Pass, Add, AtEntry
<1>9. (Cancel \/ (\E d \in Devices : Change(d)) \/ UNCHANGED vars) => UNCHANGED walk
  BY DEF Cancel, Change, vars
<1>10. UNCHANGED walk /\ AtEntry' => AtEntry
  BY DEF walk, AtEntry
<1> QED
  BY <1>1, <1>2, <1>3, <1>4, <1>5, <1>6, <1>7, <1>8, <1>9, <1>10 DEF Next

-----------------------------------------------------------------------------
(* The walk is right about what it passed.                                 *)

\* Passing over an entry that is not due, or making a target of one that is.
LEMMA PassStep ==
  ASSUME TypeOK, TypeOK', Order, Passed, Walking, left # {}, UNCHANGED <<sysfs, touched>>,
         left' = left \ {entry},
         \/ targets' = targets /\ \A e : e = entry => Due(e) = {}
         \/ \E t \in TargetOf : /\ targets' = Append(targets, t) /\ t.device = entry
                             /\ \A e : e = entry /\ e \notin touched => Due(e) = {t}
  PROVE  Passed'
<1> SUFFICES ASSUME NEW d \in Devices \ touched, d \notin left' PROVE Found(d)' = Due(d)'
  BY DEF Passed
<1>1. entry \in left /\ entry \in Devices
  BY EntryIsFirst DEF TypeOK
<1>2. d = entry => Found(d) = {}
  BY <1>1, FoundNothing
<1>3. Due(d)' = Due(d)
  BY DueStays
<1>4. d = entry \/ (d # entry /\ Found(d) = Due(d))
  BY <1>1 DEF Passed
<1>5. CASE targets' = targets /\ \A e : e = entry => Due(e) = {}
  BY <1>2, <1>3, <1>4, <1>5, WalkStays
<1>6. CASE \E t \in TargetOf : /\ targets' = Append(targets, t) /\ t.device = entry
                              /\ \A e : e = entry /\ e \notin touched => Due(e) = {t}
  <2>1. PICK t \in TargetOf : /\ targets' = Append(targets, t) /\ t.device = entry
                             /\ \A e : e = entry /\ e \notin touched => Due(e) = {t}
    BY <1>6
  <2>2. Found(d)' = IF entry = d THEN Found(d) \cup {t} ELSE Found(d)
    <3>1. targets \in Seq(TargetOf)
      BY DEF TypeOK
    <3> QED
      BY <2>1, <3>1, FoundAppend
  <2>3. CASE d = entry
    BY <1>2, <1>3, <2>1, <2>2, <2>3
  <2>4. CASE d # entry
    BY <1>3, <1>4, <2>2, <2>4
  <2> QED
    BY <2>3, <2>4
<1> QED
  BY <1>5, <1>6

LEMMA PassedStep ==
  ASSUME TypeOK, TypeOK', Order, Current, Passed, [Next]_vars
  PROVE  Passed'
<1>e. left # {} => entry \in left /\ entry \in Devices
  BY EntryIsFirst DEF TypeOK
<1>1. CASE ~Walking'
  BY <1>1 DEF Passed
<1>2. CASE Walking /\ UNCHANGED <<sysfs, touched, left, targets>>
  BY <1>2, WalkStays, DueStays DEF Passed
<1>3. ASSUME NEW d \in Devices, Change(d) PROVE Passed'
  <2>1. UNCHANGED <<pc, left, targets>>
    BY <1>3 DEF Change, walk
  <2>2. ASSUME NEW e \in Devices \ touched' PROVE e \in Devices \ touched /\ Due(e)' = Due(e)
    BY <1>3, <2>2, DueStays DEF Change, TypeOK
  <2> QED
    BY <2>1, <2>2, WalkStays DEF Passed, Walking, AtEntry
<1>4. CASE Begin
  <2>1. CASE pc' = "next"
    <3>1. /\ targets' = <<>> /\ sysfs' = sysfs
          /\ left' = {d \in Devices : sysfs[d].kind # "none"}
      BY <1>4, <2>1 DEF Begin, Return
    <3>2. ASSUME NEW d \in Devices, d \notin left' PROVE Found(d)' = Due(d)'
      <4>1. sysfs'[d].kind = "none"
        BY <3>1, <3>2
      <4> QED
        BY <3>1, <4>1 DEF Found, Due
    <3> QED
      BY <3>2 DEF Passed
  <2>2. CASE pc' = "returned"
    BY <1>1, <2>2 DEF Walking, AtEntry
  <2> QED
    BY <1>4, <2>1, <2>2 DEF Begin, Return
<1>5. CASE NextEntry /\ Walking'
  <2>1. CASE entry \in Excluded /\ left # {} /\ ~ctxDone
    <3>1. \A e : e = entry => Due(e) = {}
      BY <2>1 DEF Due
    <3> QED
      BY <1>5, <2>1, <3>1, PassStep DEF NextEntry, Pass, Walking, tree
  <2>2. CASE entry \notin Excluded /\ left # {} /\ ~ctxDone
    BY <1>2, <1>5, <2>2 DEF NextEntry, Walking, tree
  <2>3. CASE left = {} \/ ctxDone
    BY <1>5, <2>3 DEF NextEntry, Return, Walking, AtEntry
  <2> QED
    BY <2>1, <2>2, <2>3
<1>6. CASE IsDeviceDir
  <2>1. CASE sysfs[entry].kind \in {"vf", "pf"}
    BY <1>2, <1>6, <2>1 DEF IsDeviceDir, Walking, AtEntry, tree
  <2>2. CASE sysfs[entry].kind \notin {"vf", "pf"}
    <3>1. \A e : e = entry => Due(e) = {}
      BY <2>2 DEF Due
    <3> QED
      BY <1>6, <2>2, <3>1, PassStep DEF IsDeviceDir, Pass, Walking, AtEntry, tree, TypeOK
  <2> QED
    BY <2>1, <2>2
<1>7. CASE ReadLink
  BY <1>2, <1>7 DEF ReadLink, Walking, AtEntry, tree
<1>8. CASE Physfn
  <2>1. CASE sysfs[entry].kind = "vf"
    <3>1. \A e : e = entry => Due(e) = {}
      BY <2>1 DEF Due
    <3> QED
      BY <1>8, <2>1, <3>1, PassStep DEF Physfn, Pass, Walking, AtEntry, tree, TypeOK
  <2>2. CASE sysfs[entry].kind # "vf"
    BY <1>2, <1>8, <2>2 DEF Physfn, Walking, AtEntry, tree
  <2> QED
    BY <2>1, <2>2
<1>9. CASE Ports
  <2>1. CASE sysfs[entry].ports = {}
    <3>1. \A e : e = entry => Due(e) = {}
      BY <2>1 DEF Due
    <3> QED
      BY <1>9, <2>1, <3>1, PassStep DEF Ports, Pass, Walking, AtEntry, tree, TypeOK
  <2>2. CASE sysfs[entry].ports # {}
    <3> DEFINE t == [device |-> entry, port |-> LowestPort(sysfs[entry].ports), addr |-> addr]
    <3>1. t \in TargetOf /\ t.device = entry
      BY <1>9, <2>2, NewTarget DEF Ports
    <3>2. \A e : e = entry /\ e \notin touched => Due(e) = {t}
      BY <1>9, <2>2 DEF Ports, Current, AtEntry, Due
    <3>3. /\ Walking /\ left # {} /\ UNCHANGED <<sysfs, touched>> /\ left' = left \ {entry}
          /\ targets' = Append(targets, t)
      BY <1>9, <2>2 DEF Ports, Add, Walking, AtEntry, tree, TypeOK
    <3> HIDE DEF t
    <3> QED
      BY <3>1, <3>2, <3>3, PassStep
  <2> QED
    BY <2>1, <2>2
<1>10. CASE Cancel \/ UNCHANGED vars
  BY <1>1, <1>2, <1>10 DEF Cancel, vars, tree, walk, Walking, AtEntry
<1> QED
  BY <1>1, <1>3, <1>4, <1>5, <1>6, <1>7, <1>8, <1>9, <1>10 DEF Next

LEMMA ResultStep ==
  ASSUME TypeOK, Order, Passed, StableIsFound, [Next]_vars
  PROVE  StableIsFound'
<1>1. CASE pc' # "returned"
  BY <1>1 DEF StableIsFound
<1>2. ASSUME NEW d \in Devices, Change(d), pc' = "returned" PROVE StableIsFound'
  <2>1. UNCHANGED <<pc, failed, targets>>
    BY <1>2 DEF Change, walk
  <2>2. ASSUME NEW e \in Devices \ touched' PROVE e \in Devices \ touched /\ Due(e)' = Due(e)
    BY <1>2, <2>2, DueStays DEF Change, TypeOK
  <2> QED
    BY <2>1, <2>2, WalkStays DEF StableIsFound
<1>3. CASE Cancel \/ UNCHANGED vars
  <2>1. UNCHANGED <<pc, failed, targets, sysfs, touched>>
    BY <1>3 DEF Cancel, vars, tree, walk
  <2> QED
    BY <2>1, WalkStays, DueStays DEF StableIsFound
<1>4. CASE Begin /\ pc' = "returned"
  BY <1>4 DEF Begin, Return, StableIsFound
<1>5. CASE NextEntry /\ pc' = "returned"
  <2>1. CASE left = {}
    <3>1. /\ Walking /\ UNCHANGED <<targets, sysfs, touched>>
      BY <1>5, <2>1 DEF NextEntry, Return, tree, Walking
    <3> QED
      BY <2>1, <3>1, WalkStays, DueStays DEF StableIsFound, Passed
  <2>2. CASE left # {}
    BY <1>5, <2>2 DEF NextEntry, Return, Pass, StableIsFound
  <2> QED
    BY <2>1, <2>2
<1>6. CASE IsDeviceDir \/ ReadLink \/ Physfn \/ Ports
  BY <1>1, <1>6 DEF IsDeviceDir, ReadLink, Physfn, Ports, Pass, Add
<1> QED
  BY <1>1, <1>2, <1>3, <1>4, <1>5, <1>6 DEF Next

-----------------------------------------------------------------------------
(* The theorems.                                                           *)

LEMMA InitInv == Init => Inv
<1> SUFFICES ASSUME Init PROVE Inv
  OBVIOUS
<1>1. targets \in Seq(TargetOf)
  <2>1. <<>> \in Seq(TargetOf)
    OBVIOUS
  <2>2. targets = <<>>
    BY DEF Init
  <2> QED
    BY <2>1, <2>2
<1>2. TypeOK
  BY <1>1, NoChanges DEF Init, TypeOK
<1>3. pc = "start" /\ left = {} /\ targets = <<>>
  BY DEF Init
<1>4. Order /\ Current /\ Passed /\ StableIsFound
  BY <1>3 DEF Order, InOrder, Current, Passed, StableIsFound, Walking, AtEntry
<1> QED
  BY <1>2, <1>4 DEF Inv

\* The walk is right about every entry it has passed, and what it has read of
\* the one under way is still so, unless they changed (discovery.go:64-132).
THEOREM Invariant == Spec => []Inv
<1>1. Inv /\ [Next]_vars => Inv'
  <2> SUFFICES ASSUME Inv, [Next]_vars PROVE Inv'
    OBVIOUS
  <2>1. TypeOK'
    BY TypesStep DEF Inv
  <2>2. Order' /\ Current'
    BY OrderStep, CurrentStep DEF Inv
  <2>3. Passed' /\ StableIsFound'
    BY <2>1, PassedStep, ResultStep DEF Inv
  <2> QED
    BY <2>1, <2>2, <2>3 DEF Inv
<1> QED
  BY InitInv, <1>1, PTL DEF Spec

\* Every variable of the walk keeps its type.
THEOREM TypeCorrect == Spec => []TypeOK
<1>1. Inv => TypeOK
  BY DEF Inv
<1> QED
  BY Invariant, <1>1, PTL

\* The list names a device once and in order, whatever happens to the tree.
THEOREM InOrderHolds == Spec => []InOrder
<1>1. Inv => InOrder
  BY DEF Inv, Order
<1> QED
  BY Invariant, <1>1, PTL

\* A walk that returns a list is right about every device that stood still.
THEOREM StableIsFoundHolds == Spec => []StableIsFound
<1>1. Inv => StableIsFound
  BY DEF Inv
<1> QED
  BY Invariant, <1>1, PTL
=============================================================================
