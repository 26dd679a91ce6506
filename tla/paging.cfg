CONSTANTS
    Procs = {1, 2, 3}
    None = None
    Policy = "rr"
    Quantum = 2
    Burst <- MCBurst
    Arrival <- MCArrival
    Weights = {0}
    PageFaults = TRUE
    TotalMemory = 4
    PageSize = 2
    FaultTicks = 2
    Amounts <- MCAmounts
    Killable = {3}
    Meddled = {3}
SPECIFICATION PagingSpec
INVARIANTS PagingTypeOK FrameBookkeeping FaultJobsSound
PROPERTIES OldestFirst ProgressUnlessThrashing ImplementsDemandPaging
