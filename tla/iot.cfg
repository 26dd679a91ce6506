CONSTANTS
    Procs = {1, 2, 3}
    None = None
    Policy = "rr"
    Quantum = 2
    Burst <- MCBurst
    Arrival <- MCArrival
    Weights = {0}
    PageFaults = TRUE
    TotalMemory = 3
    PageSize = 2
    FaultTicks = 2
    Amounts <- MCAmounts
    Killable = {2}
    Meddled = {}
    Locks = {l}
    Files = {f}
    Latencies = {2}
    MaxPermits = 1
    MaxQueue = 3
SPECIFICATION IotSpec
INVARIANTS OneReason WaitersSound
