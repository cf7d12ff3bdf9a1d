\* Two texts, three lines an end, the processes may be stopped; the pair rests when it is done.
CONSTANTS
    Stop = stop
    Texts = {hello, bye}
    MaxTyped = 3
    MaxKills = 2
SPECIFICATION FairSpec
CHECK_DEADLOCK FALSE
INVARIANTS TypeOK ShownWasSaid
PROPERTIES Alternates StopEndsBoth
