SPECIFICATION Spec
CONSTANTS
    Devices = {d1, d2}
    Maps = {m1, m2, m3, m4, m5}
    Nil = Nil
    Absent = Absent
    StaleAfter = 1
    MaxClock = 4
    MaxSweeps = 2
INVARIANTS
    TypeOK
    ScrapeIsOneSet
    ScrapesGoForward
    ReadyThenData
PROPERTY StoreIsACache
