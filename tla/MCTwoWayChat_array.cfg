\* Two clients and an array with room for three; the chat rests when all is said.
CONSTANTS
    Clients = {c1, c2}
    Empty = empty
    Stdin = stdin
    MaxClients = 3
    PipeCap = 3
    ReadCap = 2
    Prefix = 1
    Lost = lost
    SockCap = 1
    Sizes = {1}
    MaxMsgs = 1
    MaxLeaves = 0
    MaxForkFailures = 0
SPECIFICATION Spec
CHECK_DEADLOCK FALSE
INVARIANT AddedToArray
