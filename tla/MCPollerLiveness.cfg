CONSTANTS
    d1 = d1
    d2 = d2
    Absent = Absent
    Devices = {d1, d2}
    Labels <- OneLabel
    TargetLists <- PairLists
    Responses <- FullResponse
    RunReasons = {"exit_error"}
    ShowEye = TRUE
    ShowPCIeEye = FALSE
    MaxTicks = 1
    MaxClock = 1
SPECIFICATION FairSpec
PROPERTIES ShutdownStopsPoller SweepEnds EveryTargetVisited
