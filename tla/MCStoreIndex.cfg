\* Banks of two keys, three banks, a map of two copies, five calls.
SPECIFICATION Spec
CONSTANTS
    BankSize = 2
    Keys = {0, 2, 3, 4}
    Redundancy = 1
    MaxOps = 5
INVARIANTS
    IndexSound
    KeysKept
CHECK_DEADLOCK FALSE
