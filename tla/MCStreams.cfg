SPECIFICATION Spec
CONSTANTS
    Clients = {c1, c2}
    Stalled = {c2}
    edge = edge
    core = core
    About <- MCAbout
    subscriberBuffer = 1
    recentLimit = 2
    Readers = {c1, c2}
    Stuck = {c2}
    maxLogStreams = 1
    logBuffer = 1
    Tails = {0, 2}
    MaxLines = 3
INVARIANTS
    EventsKept
PROPERTIES
    LinesKept
    StreamsMove
CHECK_DEADLOCK FALSE
