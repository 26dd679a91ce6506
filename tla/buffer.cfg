CONSTANTS
    Producers = {p1, p2, p3}
    Consumers = {c1, c2}
    Capacity = 2
    None = None
SPECIFICATION Spec
INVARIANTS TypeOK NeverRejected PermitsConserved NoBarging BlockedExactlyQueued
PROPERTIES ImplementsChannel
