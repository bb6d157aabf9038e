SPECIFICATION Spec
CONSTANTS
    Tasks = {t1}
    Calls = {c1, c2}
    Webhooked = {t1}
    Cancellable = {t1}
    Faults = {"stall"}
    MaxStalled = 1
    Attempts = 1
    MaxCrashes = 1
    Sweepers = {s1}
    BatchSize = 1
SYMMETRY Symmetry
INVARIANTS AtMostOneDispatch NoLostDispatch WebhookTellsOutcome OneNotifier CancelNoticeIsTrue
