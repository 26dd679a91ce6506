CONSTANTS
    Procs = {1, 2, 3}
    None = None
    Policy = "rr"
    Quantum = 2
    Burst <- MCBurst
    Arrival <- MCArrival
    Weights = {0}
    PageFaults = TRUE
SPECIFICATION KernelSpec
INVARIANTS TypeOK ReadyNeverLost QueuedOnce CpuIsExclusive
PROPERTIES BlockedNeverRuns NoOvertaking ReadyIsServed
