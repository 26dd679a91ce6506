CONSTANTS
    Procs = {1, 2, 3}
    None = None
    Policy = "priority"
    Quantum = 2
    Burst <- MCBurst
    Arrival <- MCArrival
    Weights = {0}
    PageFaults = FALSE
    Base <- MCSignedBase
    AgingInterval = 2
SPECIFICATION SchedSpec
INVARIANTS SchedTypeOK ClockIsCpuTime MetricsConsistent AgedOncePerInterval
PROPERTIES PicksHighest
