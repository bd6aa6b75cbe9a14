CONSTANTS
    d1 = d1
    d2 = d2
    Absent = Absent
    Devices = {d1}
    Labels <- BothLabels
    TargetLists <- SoloLists
    Responses <- FullResponse
    RunReasons = {"timeout"}
    ShowEye = FALSE
    ShowPCIeEye = FALSE
    MaxTicks = 1
    MaxClock = 1
SPECIFICATION Spec
INVARIANT ReadyMeansScrapeReturnsData
