SPECIFICATION FairSseSpec
CONSTANTS
    EventTypes = {"progress", "completed"}
    TerminalTypes = {"completed"}
    MAX_LIVE_BUFFER_SIZE = 1
    Glitches = {}
    MaxEvents = 2
    MaxWire = 3
    MaxDrops = 0
    MaxBeats = 0
PROPERTY
    StreamCloses
CHECK_DEADLOCK FALSE
