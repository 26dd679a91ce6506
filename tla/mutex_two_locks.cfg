CONSTANTS
    Procs = {1, 2, 3}
    None = None
    Policy = "priority"
    Quantum = 1
    Burst <- MCBurst
    Arrival <- MCArrival
    Weights = {0}
    PageFaults = FALSE
    Locks = {m1, m2}
    Base <- MCBase
    MaxBonus = 1
    Inheritance = TRUE
    Killable = {}
    Latecomers = {}
SPECIFICATION MutexSpec
PROPERTY NoInversion
