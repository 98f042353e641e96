\* Two threads call through one peer and one through the other, each peer twice, and the
\* first may be closed; a socket holds one frame.
SPECIFICATION FairSpec
CONSTANTS
    Callers1 = 2
    Callers2 = 1
    Cap = 1
    Closers = {1}
    MaxCalls = 2
INVARIANTS
    OwnAnswer
    ClosedTold
PROPERTIES
    CallsReturn
CHECK_DEADLOCK FALSE
