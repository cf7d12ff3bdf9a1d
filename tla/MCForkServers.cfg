\* All twelve servers, two clients with two lines each, one fork() that fails; the system rests when all is said.
CONSTANTS
    Clients = {c1, c2}
    Server = server
    Backlog = 2
    MaxForkFailures = 1
    Programs = {"modular", "tcpstate", "capper", "multi", "talk", "username", "dice", "time", "serial", "E1", "clock", "test01"}
    Limit = 1
    MaxLines = 2
SPECIFICATION FairSpec
CHECK_DEADLOCK FALSE
INVARIANTS TypeOK CountsWhoCame NoStrangers OnlyServerAccepts
PROPERTIES ServesInTurn AcceptedInTurn NobodyWaitsInVain PortFreed
