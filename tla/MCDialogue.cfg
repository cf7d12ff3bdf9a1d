\* All four servers, three users with two lines each, a socket that fills up; the system rests when all is said.
CONSTANTS
    Programs = {"time", "square", "sum", "guess"}
    Users = {u1, u2, u3}
    Nobody = nobody
    InboxCap = 2
    MaxLines = 2
SPECIFICATION FairSpec
CHECK_DEADLOCK FALSE
INVARIANTS TypeOK OneAnswerEach CountsEveryT
PROPERTY EverybodyAnswered
