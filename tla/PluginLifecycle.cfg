CONSTANTS
    Replicas = {r1, r2}
    Requests = {q1, q2}
    Binaries = {b1, b2}
    Configs = {c1, c2}
    None = None
    MaxOps = 3
    MaxFaults = 1
    MaxClock = 2
SPECIFICATION Spec
INVARIANTS ReplicasFollowRecord 
SYMMETRY Symmetry
CHECK_DEADLOCK FALSE
