\* The file of MCStoreFile, whatever its calls began with.
SPECIFICATION Spec
CONSTANTS
    B = 2
    MaxLen = 3
    MaxOps = 4
INVARIANTS
    ReadBack
CHECK_DEADLOCK FALSE
