\* Two users, sockets that fill, a kill and a log that once cannot be opened; the chat rests when all has been said.
CONSTANTS
    Users = {u1, u2}
    MaxClients = 2
    InboxCap = 6
    MailCap = 3
    MaxMsgs = 3
    MaxRequests = 1
    MaxCrashes = 1
    MaxLogFailures = 1
SPECIFICATION FairSpec
CHECK_DEADLOCK FALSE
INVARIANTS TypeOK ToldIsLogged ReplayIsTheLog
PROPERTY ServerReturns
