CONSTANTS
    Unset = Unset
    Blank = Blank
    Bad = Bad
    Settings <- MCSettings
    GroupSignals = TRUE
    MaxSignals = 1
    MaxRequests = 1
SPECIFICATION Spec
INVARIANT StoppingCountsNoError
