SPECIFICATION FairSpec
CONSTANTS
    Tasks = {t1, t2}
    Calls = {}
    Webhooked = {}
    Cancellable = {}
    Faults = {"crash"}
    MaxStalled = 0
    Attempts = 1
    MaxCrashes = 0
    Sweepers = {s1}
    BatchSize = 2
PROPERTY StuckIsFailed
