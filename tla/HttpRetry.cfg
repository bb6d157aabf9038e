SPECIFICATION RetrySpec
CONSTANTS
    AttemptOptions = {2, 3, 5}
    baseDelayMs = 4
    maxDelayMs = 6
    Jitters = {0, 1}
    OtherStatuses = {"400", "501"}
    NetworkCodes = {"ECONNRESET", "ETIMEDOUT"}
INVARIANTS
    RetriesAsSpecified
CHECK_DEADLOCK FALSE
