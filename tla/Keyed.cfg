SPECIFICATION IdempotencySpec
CONSTANTS
    Tasks = {t1, t2, t3}
    Calls = {}
    Webhooked = {}
    Cancellable = {}
    Faults = {"db", "redis", "crash"}
    MaxStalled = 1
    Attempts = 1
    MaxCrashes = 0
INVARIANTS
    IdempotencyType
    OneTaskPerKey
    AnsweredTaskRuns
CHECK_DEADLOCK FALSE
