\* The server of sums, two users with two lines each; the system rests when all is said.
CONSTANTS
    Programs = {"sum"}
    Users = {u1, u2}
    Nobody = nobody
    InboxCap = 2
    MaxLines = 2
SPECIFICATION Spec
CHECK_DEADLOCK FALSE
PROPERTY SecondIsOfTheAsked
