\* Three clients, two slots, one client that leaves, a fork that fails; the chat rests when all is said.
CONSTANTS
    Clients = {c1, c2, c3}
    Free = free
    MaxClients = 2
    MaxMsgs = 2
    MaxLeaves = 1
    MaxForkFailures = 1
SPECIFICATION FairSpec
CHECK_DEADLOCK FALSE
INVARIANTS TypeOK InOrderWithoutGaps EchoIsReceipt
PROPERTY EldersHear
