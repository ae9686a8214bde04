CONSTANTS
    Handlers = {g1, g2}
    MaxFaults = 1
    Traffics <- MCTraffics
    MaxDeliveries = 2
    MaxRestarts = 1
    Groups = {"g"}
    Channels = {"c", "e"}
    MaxEvents = 3
    MaxStops = 1
    Messengers = {"none", "telegram", "discord", "vk", "mattermost"}
    Prompters = {g1, g2}
    Senders = {s1}
    Prompts <- MCPrompts
    Replies <- MCReplies
    MaxPrompts = 3
    MaxTroubles = 2
    CronReplicas = {g1, g2}
    MaxTicks = 2
    MaxMinutes = 2
    MaxReloads = 2
    MaxOutages = 1
    Students = {p1}
    Codes = {"a", "b"}
    Kinds = {"dean"}
    MaxWrites = 3
INIT MCInit
NEXT MCNext
INVARIANTS
    UpdatesReachManager KnownChatsRegistered ChatsFollowPlatform
    OneLiveMenu RepeatsAreRetries
    RunsApart
    GraphFollowsTables
SYMMETRY Symmetry
CHECK_DEADLOCK FALSE
