CONSTANTS
    Timeout = 2
    Limit = 2
    Chunks = {1, 2}
    MaxWritten = 3
    MaxTime = 5
SPECIFICATION FairSpec
INVARIANTS TypeOK AcceptedOutputIsComplete ReasonIsTrue ReturnsInTime
PROPERTY RunReturns
