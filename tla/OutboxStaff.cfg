SPECIFICATION FairSpec
CONSTANTS
    Teachers = {t1}  Students = {}  Groups = {}  Depts = {d1, d2}  Nodes = {}  Parents = {p1}
    Workers = {w1, w2}
    BatchSize = 2
    MaxAttempts = 2
    MaxRows = 4
    MaxFaults = 1
    NoGroup = NoGroup
INVARIANT StaffConverges
PROPERTY EventuallySettled
CHECK_DEADLOCK FALSE
