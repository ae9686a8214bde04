\* One event, two instances, two plugins of which one may be unloaded.
SPECIFICATION FairSpec
CONSTANTS
    Events = {e1}
    Consumers = {c1, c2}
    Subscribers = {p1, p2}
    Pinned = {p1}
    MaxRetries = 2
    BatchSize = 1
    MaxFaults = 2
    NoEvent = NoEvent
INVARIANTS DeadOnlyAfterRetries ExclusiveUnlessLapsed NoEventLost
PROPERTY EventuallySettled
