---------------------------- MODULE CronTriggers ----------------------------
(***************************************************************************)
(* Scheduled triggers of a plugin on several replicas                      *)
(* (internal/trigger/cron.go), with the registration of the triggers when  *)
(* the plugin is loaded and unloaded (registry.go) and the router.         *)
(*                                                                         *)
(* Every replica runs the same schedule; each tick starts a goroutine.     *)
(* Within a replica a flag skips a tick while the last run goes on; among  *)
(* replicas a Redis key for the minute lets one of them run.  A schedule   *)
(* may tick more often than once a minute ("@every 10s").  One trigger of  *)
(* one plugin.                                                             *)
(***************************************************************************)
EXTENDS Naturals, FiniteSets

CONSTANTS
    CronReplicas,   \* processes that run the plugin
    MaxTicks,       \* ticks of the schedule
    MaxMinutes,     \* minutes that pass
    MaxReloads,     \* unloads of the plugin
    MaxOutages      \* requests Redis fails

ASSUME CronAssumption == {MaxTicks, MaxMinutes, MaxReloads, MaxOutages} \subseteq Nat

VARIABLES
    minute,         \* the current minute, the same on every replica
    tick,           \* ticks so far
    routes,         \* triggers registered on each replica: http, cron, event
    loaded,         \* whether the plugin manager has the plugin
    flag,           \* running: the run flag of the trigger
    fires,          \* fires[r][t]: the goroutine of tick t on replica r
    cronLocks,      \* minutes whose Redis key is set
    reloaded,       \* replicas that dropped the flag of a run that goes on
    openMinutes,    \* minutes for which Redis failed a request
    reloads,
    outages

cronVars == <<minute, tick, routes, loaded, flag, fires, cronLocks, reloaded, openMinutes, reloads, outages>>

Ticks == 1..MaxTicks

NoFire == [pc |-> "none", at |-> 0, ran |-> FALSE]

CronInit ==
    /\ minute = 1
    /\ tick = 0
    /\ routes = [r \in CronReplicas |-> {"http", "cron", "event"}]
    /\ loaded = [r \in CronReplicas |-> TRUE]
    /\ flag = [r \in CronReplicas |-> FALSE]
    /\ fires = [r \in CronReplicas |-> [t \in Ticks |-> NoFire]]
    /\ cronLocks = {}
    /\ reloaded = {}
    /\ openMinutes = {}
    /\ reloads = 0
    /\ outages = 0

Rest == <<minute, tick, routes, loaded, reloads>>

\* The time of the clock, which every replica shares (external).
MinutePasses ==
    /\ minute < MaxMinutes
    /\ minute' = minute + 1
    /\ UNCHANGED <<tick, routes, loaded, flag, fires, cronLocks, reloaded, openMinutes, reloads, outages>>

\* The cron library starts a goroutine on each replica with the schedule.
ScheduleTicks ==
    /\ tick < MaxTicks
    /\ tick' = tick + 1
    /\ fires' = [r \in CronReplicas |->
          IF "cron" \in routes[r] THEN [fires[r] EXCEPT ![tick'].pc = "due"] ELSE fires[r]]
    /\ UNCHANGED <<minute, routes, loaded, flag, cronLocks, reloaded, openMinutes, reloads, outages>>

\* LoadOrStore of the flag: a tick that finds it is skipped.
FireTrigger(r, t) ==
    /\ fires[r][t].pc = "due"
    /\ \/ /\ flag[r]
          /\ fires' = [fires EXCEPT ![r][t].pc = "skipped"]
          /\ UNCHANGED flag
       \/ /\ ~flag[r]
          /\ flag' = [flag EXCEPT ![r] = TRUE]
          /\ fires' = [fires EXCEPT ![r][t] = [pc |-> "lock", at |-> minute, ran |-> FALSE]]
    /\ UNCHANGED <<cronLocks, reloaded, openMinutes, outages, Rest>>

\* Variant for the mutants: one key for each tick instead of each minute.
LockKeyOfTick(r, t) == 100 * t

\* The key: the minute in which the goroutine read the clock.
LockKey(r, t) == fires[r][t].at

\* The goroutine ends: its deferred Delete drops the flag, whoever set it.
Ends(r, t, pc) ==
    /\ fires' = [fires EXCEPT ![r][t].pc = pc]
    /\ flag' = [flag EXCEPT ![r] = FALSE]
    /\ reloaded' = IF \E u \in Ticks \ {t} : fires[r][u].pc \in {"lock", "run"} THEN reloaded \cup {r} ELSE reloaded

\* SetNX: one replica gets the minute; a failing Redis lets everyone run.
TryLock(r, t) ==
    /\ fires[r][t].pc = "lock"
    /\ \/ /\ LockKey(r, t) \notin cronLocks
          /\ cronLocks' = cronLocks \cup {LockKey(r, t)}
          /\ fires' = [fires EXCEPT ![r][t].pc = "run", ![r][t].ran = TRUE]
          /\ UNCHANGED <<flag, reloaded, openMinutes, outages>>
       \/ /\ LockKey(r, t) \in cronLocks
          /\ Ends(r, t, "skipped")
          /\ UNCHANGED <<cronLocks, openMinutes, outages>>
       \/ /\ outages < MaxOutages
          /\ outages' = outages + 1
          /\ openMinutes' = openMinutes \cup {fires[r][t].at}
          /\ fires' = [fires EXCEPT ![r][t].pc = "run", ![r][t].ran = TRUE]
          /\ UNCHANGED <<flag, cronLocks, reloaded>>
    /\ UNCHANGED Rest

\* RouteEvent: an unloaded plugin is not found, else the plugin runs to its
\* end or to the timeout; either way the goroutine ends.
RouteCronEvent(r, t) ==
    /\ fires[r][t].pc = "run"
    /\ Ends(r, t, "done")
    /\ UNCHANGED <<cronLocks, openMinutes, outages, Rest>>

\* RemoveAll: the entry leaves the schedule, and the flag of a run that goes
\* on is dropped.
RemoveAll(r) ==
    /\ flag' = [flag EXCEPT ![r] = FALSE]
    /\ reloaded' = IF flag[r] THEN reloaded \cup {r} ELSE reloaded

\* The plugin is unloaded or about to be reloaded on one replica.
UnregisterTriggers(r) ==
    /\ loaded[r]
    /\ reloads < MaxReloads
    /\ reloads' = reloads + 1
    /\ loaded' = [loaded EXCEPT ![r] = FALSE]
    /\ routes' = [routes EXCEPT ![r] = {}]
    /\ RemoveAll(r)
    /\ UNCHANGED <<minute, tick, fires, cronLocks, openMinutes, outages>>

\* AddSchedule with every other trigger of the plugin.
RegisterTriggers(r) ==
    /\ ~loaded[r]
    /\ loaded' = [loaded EXCEPT ![r] = TRUE]
    /\ routes' = [routes EXCEPT ![r] = {"http", "cron", "event"}]
    /\ UNCHANGED <<minute, tick, flag, fires, cronLocks, reloaded, openMinutes, reloads, outages>>

CronNext ==
    \/ MinutePasses
    \/ ScheduleTicks
    \/ \E r \in CronReplicas :
          \/ UnregisterTriggers(r)
          \/ RegisterTriggers(r)
          \/ \E t \in Ticks : FireTrigger(r, t) \/ TryLock(r, t) \/ RouteCronEvent(r, t)

CronSpec == CronInit /\ [][CronNext]_cronVars

-----------------------------------------------------------------------------

\* Over all replicas and ticks at most one goroutine runs the trigger for a
\* minute, unless Redis failed in it, and a replica never runs the trigger
\* twice at once unless it dropped the flag of a run by a reload.
RunsApart ==
    /\ \A n \in (1..MaxMinutes) \ openMinutes :
          Cardinality({x \in CronReplicas \X Ticks : fires[x[1]][x[2]].ran /\ fires[x[1]][x[2]].at = n}) <= 1
    /\ \A r \in CronReplicas \ reloaded :
          Cardinality({t \in Ticks : fires[r][t].pc \in {"lock", "run"}}) <= 1

=============================================================================
