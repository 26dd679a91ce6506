CONSTANTS
    Procs = {1, 2, 3}
    None = None
    Policy = "rr"
    Quantum = 2
    Burst <- MCBurst
    Arrival <- MCArrival
    Weights = {0}
    PageFaults = FALSE
    Files = {f, g}
    Latencies = {1, 2}
    MaxOpen = 1
    Openers = {1}
    Killable = {2}
SPECIFICATION FileIoSpec
INVARIANTS FileTypeOK DeviceUnderLocks BlockedHasReason InUseExists OpenCountMatchesFds
PROPERTIES IoCompletes
