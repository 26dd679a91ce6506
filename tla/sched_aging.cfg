CONSTANTS
    Procs = {1, 2}
    None = None
    Policy = "priority"
    Quantum = 2
    Burst <- MCLongBurst
    Arrival <- MCNoArrival
    Weights = {0}
    PageFaults = FALSE
    Base <- MCBase
    AgingInterval = 2
SPECIFICATION SchedSpec
INVARIANT AgingPreventsStarvation
