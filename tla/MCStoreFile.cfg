\* Blocks of two bytes, values of up to three, five calls or crashes.
SPECIFICATION Spec
CONSTANTS
    B = 2
    MaxLen = 3
    MaxOps = 5
INVARIANTS
    ChainEnds
    Walkable
    ContentKept
CHECK_DEADLOCK FALSE
