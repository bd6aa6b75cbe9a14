CONSTANTS
    Interval = 4
    MaxSweep = 8
    MaxLag = 0
    MaxAge = 40
    MaxFailures = 7
SPECIFICATION Spec
INVARIANT FailedSweepsAreSurvived
