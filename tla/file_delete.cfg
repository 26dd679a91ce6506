CONSTANTS
    Procs = {1, 2}
    None = None
    Policy = "rr"
    Quantum = 2
    Burst <- MCBurst
    Arrival <- MCArrival
    Weights = {0}
    PageFaults = FALSE
    Files = {f}
    Latencies = {1, 2}
    MaxOpen = 1
    Openers = {1}
    Killable = {}
SPECIFICATION FileIoSpec
PROPERTY DeleteTakesEffect
