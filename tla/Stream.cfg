SPECIFICATION FairSseSpec
CONSTANTS
    EventTypes = {"progress", "completed"}
    TerminalTypes = {"completed"}
    MAX_LIVE_BUFFER_SIZE = 1
    Glitches = {"subscribe", "overtake", "duplicate"}
    MaxEvents = 3
    MaxWire = 2
    MaxDrops = 1
    MaxBeats = 1
INVARIANTS
    SseType
    InOrder
    EndsWithTheEnd
    GapsExplained
PROPERTIES
    HistoryArrives
    PublishedArrives
CHECK_DEADLOCK FALSE
