SPECIFICATION Spec
CONSTANTS
    Tasks = {t1}
    Calls = {c1, c2}
    Webhooked = {t1}
    Cancellable = {t1}
    Faults = {"db", "redis", "crash"}
    MaxStalled = 0
    Attempts = 2
    MaxCrashes = 0
    Sweepers = {s1, s2}
    BatchSize = 1
SYMMETRY Symmetry
INVARIANTS TypeOK ValidStateData OneTerminalEvent LogAgreesWithRow AckedCancelIsComplete NoDoubleSweep
PROPERTIES Lifecycle EveryTaskIsAFeed
