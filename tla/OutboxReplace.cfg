SPECIFICATION Spec
CONSTANTS
    Teachers = {}  Students = {}  Groups = {g1}  Depts = {}  Nodes = {n1}  Parents = {p1, p2}
    Workers = {w1}
    BatchSize = 2
    MaxAttempts = 2
    MaxRows = 4
    MaxFaults = 2
    NoGroup = NoGroup
INVARIANT ReplaceIsAtomic
CHECK_DEADLOCK FALSE
