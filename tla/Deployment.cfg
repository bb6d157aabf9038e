SPECIFICATION FairDeploymentSpec
CONSTANTS
    Apis = {a1}
    Workers = {w1}
    Requests = {r1}
    MaxStalled = 1
    MaxRestarts = 2
    Mishaps = {"boot", "kill", "error"}
INVARIANTS
    DeploymentType
    WorkerDrains
    NoOrphanRow
    AnswerIsTrue
    LoggedAsItEnded
PROPERTIES
    SigtermExits
    AcceptedIsDispatched
CHECK_DEADLOCK FALSE
