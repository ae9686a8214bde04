SPECIFICATION Spec
CONSTANTS
    Teachers = {}  Students = {s1}  Groups = {g1, g2}  Depts = {}  Nodes = {n1}  Parents = {p1, p2}
    Workers = {w1, w2}
    BatchSize = 2
    MaxAttempts = 2
    MaxRows = 3
    MaxFaults = 2
    NoGroup = NoGroup
SYMMETRY Symmetry
INVARIANTS StoredConverge
CHECK_DEADLOCK FALSE
