\* Integers of three bits, requests of up to three.
CONSTANTS
    Width = 3
    MaxCount = 3
SPECIFICATION Spec
INVARIANT SortedReply
