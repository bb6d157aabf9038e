SPECIFICATION FairPollingSpec
CONSTANTS
    Tasks = {t1}
    Calls = {c1}
    Webhooked = {t1}
    Cancellable = {t1}
    Faults = {"crash"}
    MaxStalled = 0
    Attempts = 1
    MaxCrashes = 1
    Sweepers = {s1}
    BatchSize = 1
    Retainers = {r1, r2}
    RETENTION_DELETE_BATCH_SIZE = 1
INVARIANTS
    PollFollowsNews
    PollMatchesWebhook
    NoneInFlightPruned
    LogKeptWithRow
PROPERTIES
    Lifecycle
    OldDataGoes
