CONSTANTS
    d1 = d1
    d2 = d2
    Absent = Absent
    Devices = {d1, d2}
    Labels <- BothLabels
    TargetLists <- HotplugLists
    Responses <- FullResponse
    RunReasons = {"timeout"}
    ShowEye = FALSE
    ShowPCIeEye = FALSE
    MaxTicks = 2
    MaxClock = 2
SPECIFICATION Spec
INVARIANTS TypeOK MidSweepView NoBackToBackSweeps
PROPERTY NetIsACache
