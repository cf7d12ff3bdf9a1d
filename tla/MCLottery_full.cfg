\* A table with one entry and two clients.
CONSTANTS
    Addrs = {a1, a2}
    Guesses = {0, 1}
    Secrets = {1}
    MaxClients = 1
    MaxAttempts = 3
    Tries = 3
    QueueCap = 2
    Reused = {}
    MaxRuns <- Runs
    MaxRestarts = 0
SPECIFICATION LotterySpec
CHECK_DEADLOCK FALSE
INVARIANT ThreeTries
