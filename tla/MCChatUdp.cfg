\* Three users, a table for two of them and sockets that fill up; the chat rests when all has been said.
CONSTANTS
    Users = {u1, u2, u3}
    MaxClients = 2
    InboxCap = 2
    MailCap = 2
    MaxMsgs = 2
SPECIFICATION FairSpec
CHECK_DEADLOCK FALSE
INVARIANTS TypeOK NothingMissing
PROPERTIES OneOrder EverybodySees
