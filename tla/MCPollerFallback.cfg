CONSTANTS
    d1 = d1
    d2 = d2
    Absent = Absent
    Devices = {d1}
    Labels <- BothLabels
    TargetLists <- SoloLists
    Responses <- AnyResponse
    RunReasons = {"exit_error", "timeout"}
    ShowEye = TRUE
    ShowPCIeEye = TRUE
    MaxTicks = 1
    MaxClock = 2
SPECIFICATION Spec
INVARIANTS ErrorLedger PublishedErrorIsCounted OnlyRequestedSections PCIeFollowsNetwork
PROPERTIES PCIeIsACache LoopIsPolling SweepIsBounded
