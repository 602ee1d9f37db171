\* main() and the heartbeat; two tasks on one I2C controller: what survives the
\* races.
CONSTANTS
    Clients = {zx, rgb}
    Bytes = {0, 1}
    Contents <- MCContents
    MaxCalls = 1
    MaxEdges = 2
    MaxBeats = 4
SPECIFICATION MCSpec
INVARIANTS
    SoloCallRight
    HaltsOnlyInWindow
    BeatsAccounted
PROPERTIES
    CallsReturn
    EdgeIsNotified
CHECK_DEADLOCK FALSE
