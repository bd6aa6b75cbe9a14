------------------------------ MODULE MCPoller ------------------------------
(* Instances of the poller for TLC. *)
EXTENDS Poller, SequencesExt

CONSTANTS d1, d2

\* Discovery walks the class directory in name order: every subset of the two
\* devices, in that order, and d1 under a second set of labels when it has been
\* moved to another slot.
At(d, l) == [device |-> d, labels |-> l]
HotplugLists == {<<>>, <<At(d1, "here")>>, <<At(d2, "here")>>,
                 <<At(d1, "here"), At(d2, "here")>>,
                 <<At(d1, "moved"), At(d2, "here")>>}
PairLists == {<<>>, <<At(d1, "here"), At(d2, "here")>>}
SoloLists == {<<>>, <<At(d1, "here")>>, <<At(d1, "moved")>>}

BothLabels == {"here", "moved"}
OneLabel == {"here"}

\* mlxlink prints the base sections only, or every section it knows.
AnyResponse == {{"base"}, Sections}
FullResponse == {Sections}
=============================================================================
