CONSTANTS
    Unset = Unset
    Blank = Blank
    Bad = Bad
    Settings <- MCSettings
    GroupSignals = FALSE
    MaxSignals = 2
    MaxRequests = 2
SPECIFICATION FairSpec
INVARIANTS ExitLeavesNoChild CleanExit StoppingCountsNoError
PROPERTIES ShutdownCompletes PollerIsPolling
