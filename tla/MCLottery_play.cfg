\* Three clients on two addresses, a table with room for both, a server queue that two datagrams fill, a server that restarts; the system stops when they are done.
CONSTANTS
    Addrs = {a1, a2}
    Guesses = {0, 1}
    Secrets = {1}
    MaxClients = 2
    MaxAttempts = 3
    Tries = 3
    QueueCap = 2
    Reused = {a1}
    MaxRuns <- Runs
    MaxRestarts = 1
SPECIFICATION FairLotterySpec
CHECK_DEADLOCK FALSE
INVARIANTS TypeOK OneEntryEach AttemptsInRange OneOutstanding TableAgrees ThreeTries NobodyLeftPlaying
PROPERTIES PlaysByTheRules EveryGuessAnswered
