CONSTANTS
    Interval = 4
    MaxSweep = 8
    MaxLag = 1
    MaxAge = 40
    MaxFailures = 7
SPECIFICATION Spec
INVARIANTS HealthyIsExported ThreeFailuresAreSurvived FailuresAreCounted OverlapMeansLate
