SPECIFICATION FairSpec
CONSTANTS
    Messages = {m1}
    Workers = {w1, w2}
    HoursPerDay = 3
    Prefs <- MCPrefs
    ClaimLimit = 2
    MaxFaults = 1
    MaxChanges = 1
    NoMessage = NoMessage
INVARIANTS NotificationNotLost DuplicateOnlyAfterOverrun DueAtOpening NextWorkTimeIsFirstOpening 
PROPERTY EventuallyDelivered
