CONSTANTS
    Procs = {1, 2, 3}
    None = None
    Policy = "priority"
    Quantum = 1
    Burst <- MCBurst
    Arrival <- MCArrival
    Weights = {0}
    PageFaults = FALSE
    Locks = {m}
    Base <- MCBase
    MaxBonus = 1
    Inheritance = TRUE
    Killable = {2}
    Latecomers = {2}
SPECIFICATION MutexSpec
INVARIANTS MutexTypeOK WaitersOffCpu BlockedMeansWaiting FloorCoversWaiters NoLeftoverBoost
PROPERTIES NoInversion WaiterIsServed
