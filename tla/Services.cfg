CONSTANTS
    w1 = w1
    w2 = w2
    Workers = {w1, w2}
    Browsers = {b1}
    Accounts = {a1}
    Tsu = {t1}
    ApiKey = FALSE
    MaxUsers = 3
    MaxStates = 2
    MaxRequests = 5
    r1 = r1
    r2 = r2
    Replicas = {r1}
    Consoles = {r1, r2}
    Triggers = {t1}
    Users = {u1}
    Policies = {"", "member"}
    Secrets = {s1}
    Jobs = {j1}
    MaxSaves = 2
    MaxChecks = 2
INIT MCInit
NEXT MCNext
INVARIANTS
    OneTsuOwner StateUsedOnce AdminSessionsEarned
     RequestsFollowSettings
SYMMETRY Symmetry
CHECK_DEADLOCK FALSE
