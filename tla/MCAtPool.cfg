\* Two batches and a ring for one, so that a batch that is put back may find no room.
CONSTANTS
    Tids = {t1, t2}
    Batches = {b1, b2}
    NoBatch = NoBatch
    NBlocks = 2
    RingCap = 1
    Copies = 2
    MayFault = TRUE
    MayFailVm = {t2}
SPECIFICATION FairSpec
INVARIANTS OneOwner CompleteAccepted NothingDropped IInv
PROPERTIES ImplementsBatchTasks FinishReported ShutdownJoins
CHECK_DEADLOCK FALSE
