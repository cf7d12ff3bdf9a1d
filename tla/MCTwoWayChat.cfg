\* Two clients of which one may leave, messages of one or three units, reads of three, of which the second may survive; a fork that fails; the chat rests when all is said.
CONSTANTS
    Clients = {c1, c2}
    Empty = empty
    Stdin = stdin
    MaxClients = 4
    PipeCap = 4
    ReadCap = 3
    Prefix = 1
    Lost = lost
    SockCap = 1
    Sizes = {1, 3}
    MaxMsgs = 2
    MaxLeaves = 1
    MaxForkFailures = 1
SPECIFICATION FairSpec
CHECK_DEADLOCK FALSE
INVARIANTS TypeOK StreamInPlace
PROPERTY NoHandlerStuck
