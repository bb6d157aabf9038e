SPECIFICATION FairSseSpec
CONSTANTS
    EventTypes = {"progress", "completed"}
    TerminalTypes = {"completed"}
    MAX_LIVE_BUFFER_SIZE = 1
    Glitches = {}
    MaxEvents = 2
    MaxWire = 2
    MaxDrops = 1
    MaxBeats = 1
PROPERTY
    EveryEventArrives
CHECK_DEADLOCK FALSE
