\* Two tasks and no lock: a call does something else than it was asked to do.
CONSTANTS
    Clients = {zx, rgb}
    Bytes = {0, 1}
    Contents <- MCContents
    MaxCalls = 1
SPECIFICATION Spec
INVARIANT CallsRight
CHECK_DEADLOCK FALSE
