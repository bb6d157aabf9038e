SPECIFICATION FairSpec
CONSTANTS
    Tasks = {t1}
    Calls = {c1, c2}
    Webhooked = {t1}
    Cancellable = {t1}
    Faults = {}
    MaxStalled = 1
    Attempts = 1
    MaxCrashes = 1
    Sweepers = {s1}
    BatchSize = 1
PROPERTIES EveryTaskSettles EveryEventPublished WebhookRuns
