# A TLA+ model of SuperBotCore

SuperBotGo is a bot platform: messenger channels, WebAssembly plugins, delayed
notifications, authorization through SpiceDB, and an admin API. This directory
models the parts of it that keep state across failures and concurrent actors,
checks them with TLC on small instances, and proves nearly all of their safety
properties, and that the dialogs implement a simple conversation, with TLAPS for
all instances.

Contents: [inventory](#1-inventory), [modules](#2-modules-and-the-code),
[runs](#3-runs), [fairness](#4-fairness), [proofs](#5-proofs),
[findings](#6-where-code-and-text-disagree),
[limits](#7-what-is-not-modelled), [plan](#8-plan).
`PROJECT.json` has the same information in machine-readable form: the lines
each definition stands for, the runs, the mutated definitions that show each
property can fail, and the hazards the properties are aimed at.

## 1. Inventory

Paths are under `internal/`.

| Part | State | Operations | Interacts with | What is hard |
|---|---|---|---|---|
| Postgres event bus (`wasm/eventbus/postgres.go`) | `wasm_event_queue` rows: status, retry count, lease, due time | publish; claim a batch; delete, requeue or dead-letter by ID | event subscriber, other replicas | handlers run outside any transaction, verdicts are written by ID whoever holds the row |
| Event subscriber, trigger registry and router (`trigger/`) | subscriptions per topic | deliver an event to each subscription | event bus, plugin runtime, plugin lifecycle | one plugin fails and another does not; plugins are reloaded meanwhile |
| Delayed notifications (`notification/`) | `scheduled_notifications` rows, the user's work hours | schedule, claim with a lease, decide again, send, delete, reschedule | channel adapters, `core.settings` | lease shorter than a batch; crash between send and delete; work hours over midnight and time zones |
| Dialog state manager, DSL, back navigation (`state/`) | one Redis entry per user: command, answers, pages, history, navigation token | start, answer, page, back, cancel, move to another chat | channel manager, plugin lifecycle (commands come and go) | no lock: updates of one user interleave at every Redis call; TTL; failed calls |
| Channel manager (`channel/manager.go`) | last prompt per chat | handle an update, dispatch a completed command, return to the plugin menu, replace the last prompt | state manager, plugins, user service, adapters | goes on with the dialog after a plugin's handler returned; the last prompt is read and stored around network calls |
| Authorization outbox (`authz/outbox`, `authz/tuples`) | `authz_outbox` rows, SpiceDB relationships | enqueue with the data, apply a batch, retry | university sync, admin API, Postgres triggers, SpiceDB | two stores without a common transaction; replicas; retries out of order; advisory-lock deadlocks |
| University sync, positions, deans (`university`, `admin/api/position_*`, `admin/api/dean_*`) | hierarchy, persons, positions, appointments | upserts, imports, edits that enqueue outbox rows; resolving an audience | outbox, notifications | many writers of one relationship, each writing a part of it |
| WASM loader and pool (`wasm/adapter`, `wasm/runtime`) | loaded versions, draining flags, in-flight counts, slots | load, reload, unload, reconfigure, execute | lifecycle service, registries, every trigger | calls in flight during a reload, failed activations, closing a busy pool |
| Host API (`wasm/hostapi`) | SQL handles and connections, KV entries and quotas, permissions | host calls of a plugin's executions; cleanup of an execution | loader, databases, files, event buses | the cleanup runs beside the call it cleans up after; databases are unregistered under calls |
| Files (`filestore`, `filehttp`) | an object with data and one with metadata | direct upload, store, complete, read, delete, clean up | S3, bots, plugins | two objects without a transaction; an upload URL that outlives the file |
| In-memory event bus (`wasm/eventbus/eventbus.go`) | subscribers, dead letters | publish, retry, replay, purge | plugin host API | replay against new dead letters, the limit of the list |
| Plugin lifecycle service, pubsub (`admin/api/lifecycle_*`, `pubsub`) | plugin records, metadata, versions, binaries; what each replica has loaded | install, enable, disable, update, roll back, configure, delete | loader, registry, database, blob store, other replicas | no lock; lost `pg_notify`; steps after a database write fail |
| Users, TSU login, administrators (`user`, `auth/tsu`, `admin/api/auth.go`) | users, accounts, persons, credentials, OAuth states, cookies | find or create, link, merge, log in, delete | channel manager, admin API | look-ups and writes are separate statements; one token in two browsers |
| Access (`authz`, `admin/api/cmd_perm_*`, `trigger/http.go`, `auth/userhttp`) | settings, policies, keys, tokens, two caches per replica | save, invalidate, check a command, authorize an HTTP request | SpiceDB, loader, plugins | stale decisions: a check that read before a save re-caches what it read |
| Chats (`chat`, bots under `channel/`) | `chat_references`, caches of known chats, channel tracker | take messages, buttons, albums and membership events | messengers, channel manager | no unique key; redelivery; events out of order; restarts |
| Deduplication (`channel/dedup`) | Redis keys | mark as seen, process | bots | marked before it is processed |
| Sending (`channel/send.go`, `channel/*/adapter.go`) | messages in the chat | send in parts, retry, edit, delete | channel manager, notifications | a failed request may have had its effect |
| Cron triggers (`trigger/cron.go`) | entries, running flags, Redis lock per minute | schedule, remove, fire | loader, other replicas | reload while a job runs; Redis fails |
| Codec, previews, bundles, blacklist, rest of the admin API, configuration, UI | tables, files | translation and CRUD | | little protocol of their own |

What makes the modelled parts correct:

- *event bus*: an event leaves the queue only when every plugin that was
  subscribed throughout has processed it; dead letters really used up their
  retries; a lease keeps other instances away; every event is settled for good;
- *notifications*: none is lost, none is duplicated without a lease overrun or a
  missing delete, none is sent in quiet hours known to the worker, the computed
  opening is the first one, and every one is delivered;
- *dialogs*: whatever the interleaving, a Back button acts on its own step only,
  the history is the path of the answers, and a dispatched command is complete;
  one update at a time, the whole implements a simple conversation;
- *outbox*: when the rows of an object are processed, SpiceDB agrees with
  Postgres, and every row is settled;
- *university*: of every key whose last writer wrote all of it, the graph says
  what the tables say, and an audience resolves to the members;
- *loader*: slots are neither lost nor made, so a closed module runs no call; a
  drained version has no counted call left; between operations, map, manager,
  triggers and permissions agree on one version;
- *host API, files, in-memory bus*: every connection taken is in a call, in a
  table or given back; quotas are exact; a ready file has the data its metadata
  describe; an event that was refused is a dead letter;
- *lifecycle*: replicas run what the record says, and the binaries that records
  and versions name are kept;
- *identity and access*: one user per TSU account, one flow per state token, no
  console session without credentials; verdicts follow the settings within a TTL;
- *chats and sending*: an update reaches the manager once, registered chats
  follow the platform, one menu of a chat is live, repeated parts are retries;
- *cron*: one run per minute over all replicas, and one at a time in each.

## 2. Modules and the code

| Module | Models | Used by |
|---|---|---|
| `EventQueue` | Postgres event bus and event subscriber | `MCEventQueue`, `EventQueueProofs` |
| `Delivery` | abstract: what that bus promises a publisher | instantiated by `EventQueueProofs` |
| `ScheduledNotify` | delayed notifications of one user | `MCScheduledNotify`, `ScheduledNotifyProofs` |
| `CommandSteps` | current step and completeness of a command | `Conversation`, `Dialog`, `DialogProofs` |
| `CommandDSL` | step, branch and conditional nodes, `flattenNodes` (recursive) | `MCDialog` |
| `Conversation` | abstract: what a user may expect of a dialog | instantiated by `Dialog`; `DialogProofs` |
| `Dialog` | channel manager, state manager, DSL handler, Redis entry | `MCDialog`, `DialogProofs` |
| `AuthzOutbox` | producers, workers, SpiceDB | `MCAuthzOutbox`, `OutboxProofs` |
| `PluginLoader` | loader, pool, plugin manager, registries of one plugin | `MCPluginRuntime`, `PluginLoaderProofs` |
| `HostCalls` | SQL handles and connections, key-value store | `MCPluginRuntime`, `HostProofs` |
| `FileStore` | one file in S3, with the requests around it | `MCPluginRuntime`, `HostProofs` |
| `MemoryBus` | in-memory event bus | `MCPluginRuntime`, `HostProofs` |
| `PluginLifecycle` | lifecycle service and notifications over replicas | `MCPluginLifecycle`, `HostProofs` |
| `Identity` | users, accounts, TSU login, administrators | `MCServices`, `ServicesProofs` |
| `Access` | settings, authorizer, HTTP triggers, keys | `MCServices`, `ServicesProofs` |
| `ChatRegistry` | `chat_references` and the join handler | `ChatInbox`, `ChatMembers`, `EdgesProofs` |
| `ChatInbox` | incoming messages of four messengers, deduplication | `MCEdges`, `EdgesProofs` |
| `ChatMembers` | membership events of Telegram and Discord | `MCEdges`, `EdgesProofs` |
| `ChannelSend` | outgoing messages and the menus of a chat | `MCEdges`, `EdgesProofs` |
| `CronTriggers` | one scheduled trigger over replicas | `MCEdges`, `EdgesProofs` |
| `University` | university tables, their writers, the graph they imply | `MCEdges`, `EdgesProofs` |

The `MC` modules give TLC its constants and symmetries. `MCPluginRuntime`,
`MCServices` and `MCEdges` each hold several components that share no state: a
variable `part`, chosen in the initial state, says which of them moves, and the
others rest. A run then has the sum of their states and not the product, and shows
of each what a run of its own would show. Model values that play similar roles in two parts
are the same, which lets one symmetry set serve them; it is a symmetry of each.

**EventQueue.** `row` is the table, `held[c]` what a consumer got from
`claimBatch` (with the retry count it read), `cur`, `todo` and `failed` the
handler in progress. `ClaimBatch` is the claiming UPDATE, `BeginHandle` the lookup
of subscriptions, `DeliverOK`/`DeliverError` one `RouteEvent` each,
`MarkSuccess`/`MarkFailure` the statement that follows, `MarkError` its failure.
Time is reduced to the comparisons of the SQL: `due` and `leased`, which end by
`BecomeDue` and `LeaseExpires` at any moment. `Crash` forgets a consumer's batch.

**ScheduledNotify.** The clock is the hour of a day of `HoursPerDay`; `row[m].wait`
is the hours until `send_at`. `NotifyUser` and `Schedule` are two steps because the
code reads the clock twice; so are `Decide` (which reads user and settings) and
`Defer`. `plan[m]` keeps the settings a row was last scheduled under. `SendOK`,
`SendError`, `Complete` and `RescheduleAfterFailure` are the rest of
`processScheduled`; `StoreError` is a failed statement in it, `ClaimDueError` a claim
that leased rows and then failed.

**Dialog.** One user. A worker is one update in progress; `task[w].pc` names its
next Redis call, and each action is one call with what the code does up to the
next one. `NavigateBack`, `TurnPage`, `Record` and `ProcessInput` are functions of
a dialog, as in `DslStateHandler`. Tokens are numbers in the order they are made:
128 random bits do not repeat. `RedisError` makes any call fail, with or
without effect. `shown` collects the prompts with a Back button ever sent, all of
which can be pressed at any time. `OnCommand` takes the commands that resolve and
are authorized; the others change nothing.

**AuthzOutbox.** `staff`, `member` and `parent` are the data in Postgres, `rows` the
outbox in the order of ids, `spice` the relationships. A producer writes its data
and its rows in one step, as it commits them together. A worker's transaction
`tx[w]` has its batch (row ids, of which it takes the least next), outcomes that become visible at `Commit`, and advisory locks;
each SpiceDB call is a step. `ChangeStaff` is the trigger of migration 30,
`SyncStudentMemberTuple` the admin API, `SyncStudentPosition`, `SyncStudentSubgroup`
and `SyncHierarchyNode` the university sync. Advisory locks and Postgres' deadlock
detector are external.

**PluginLoader.** `inst` are the prepared instances: pool, slots, drain state and
count of calls. An administrator's operation `op[a]` is the sequence of locked
sections and calls of `LoadPluginFromBytes`, `ReloadPluginFromBytes`, `UnloadPlugin` or
`ReconfigurePlugin`, one action each: a preparation may fail at each stage, an
insertion may find another instance there. Calls take a slot (`TakeSlot`), run, time
out and give it back (`Return`); `TakeSlots` is `Close`, which waits for busy ones. RPC calls
are counted for draining, events and commands are not, as in the code. `panicked`
is the second close of `drained`.

**HostCalls.** A generation is one `pluginSQLState`. `tables` are its handles per
trace, `lent` the connections out of its pool. A host call takes its connection in one
step and records the handle in another; `ContextEnds` and the cleanup run between
them. The key-value store is one step per call, as it holds its mutex.

**FileStore.** Every S3 request is a step and may fail, with the code's order of data
and metadata. `PutBegins` uses an upload URL as long as it is valid, also after the
file was completed or removed.

**MemoryBus.** A publisher calls handler after handler with retries; `ReplayDLQ` copies
the letters, publishes them and overwrites the list. Handlers stay subscribed.

**PluginLifecycle.** `rec`, `metadata`, `vers` and `blobs` are the stores, `run[r]` what a
replica runs. A request is the sequence of its store calls; a fault may end it after
any of them, in which case the compensations of the code run (`rollbackRuntimeIfNeeded`,
removal of the new blob). Notifications are queues that a disconnected replica
loses; `Restart` kills a process and loads what the record says.

**Identity.** A request of a worker is its SQL statements; foreign keys and unique
constraints are those of `migrations/`. `flows` is the in-memory state store, `cookie` what
each browser carries.

**Access.** A check is its reads of caches and tables; a save and the invalidation that
follows are two steps, and `pending` holds what is between them. Policy expressions are
none, a role, a membership or an invalid one. `CacheTick` passes time for entries.

**ChatRegistry, ChatInbox, ChatMembers.** A handler is a goroutine; registry calls are
statements. A message carries what the bots look at. `albums` is the Telegram buffer
with its timer, `marks` the Redis keys. In `ChatMembers` platform events queue up in
order and are handled in any.

**ChannelSend.** Prompters show dialog messages (edit the last one, or send a new
one and clear the old one's buttons), senders send with retries and parts. Each request may fail
for good, transiently, or after it took effect.

**CronTriggers.** A tick starts a goroutine on each replica with the schedule; flag,
Redis lock and dispatch are its steps.

**University.** `uni` holds the tables and the graph as rows and tuples. A writer is a
transaction and so one action; what it enqueues is applied at once, and the order in
which the worker really applies rows is `AuthzOutbox`'s subject. `drift` collects the keys
that a writer changed in part only.

Variables listed under "history", and those that collect excuses, are read by
properties only.

## 3. Runs

States are distinct states. All passing runs check the whole state space of their
instance.

| Run | Instance | Shows | States |
|---|---|---|---|
| `eventqueue` | 1 event, 2 instances, 2 plugins of which one comes and goes, 2 retries, 2 faults | `DeadOnlyAfterRetries`, `ExclusiveUnlessLapsed`, `NoEventLost`, `EventuallySettled` | 114 000 |
| `notify_live` | 1 message, 2 workers, 3 settings, 1 fault, 1 change of settings | work-hours arithmetic, loss, duplicates, quiet hours, `EventuallyDelivered` | 33 000 |
| `dialog_race` | 2 updates at once, 5 commands, 4 tokens, expiry at any moment | `TokenIdentifiesStep`, `BackRetracesAnswers`, `DispatchedIsComplete` | 1.7 million |
| `dialog_serial` | 1 update at a time, 2 chats, 2 failed calls, a plugin that is reloaded | `BackNeverDispatches`, `DispatchAtMostOnce`, `ImplementsConversation` | 317 000 |
| `dialog_back_race` | as `dialog_race` | `BackNeverDispatches` is violated | |
| `outbox_staff` | 2 departments, 2 replicas, 4 rows, 1 fault | `StaffConverges`, `EventuallySettled` | 115 000 |
| `outbox_stored` | 1 student, 2 groups, 1 node with 2 parents, 2 replicas, 3 rows, 2 faults | `StoredConverge` | 715 000 |
| `outbox_replace` | 1 node, 1 worker | `ReplaceIsAtomic` is violated | |
| `plugin_runtime` | loader: 2 administrators with 2 operations, 1 call, a pool of 2, 2 instances; host calls: 2 executions, 2 handles, 2 connections, 2 registrations, 3 keys with sizes 0 to 2 and limits 2 and 3; files: sizes 1 to 3, limit 2, 2 uploads, 1 failure; bus: 3 events, 2 handlers, 1 retry, 2 letters, 2 replays | `SlotsAccounted`, `GracefulDrain`, `SettledOnOneVersion`, `ConnectionsGivenBack`, `KvQuotaExact`, `FilesWhole`, `DeadLettersKept` | 2.6 million |
| `plugin_lifecycle` | 2 replicas, 2 requests at once, 3 in all, 2 binaries, 2 configurations, 1 fault, 2 seconds | `ReplicasFollowRecord`, `BinariesKept` | 2.1 million |
| `services` | identity: 2 workers, 1 browser, 1 account, 1 TSU account, 3 users, 2 state tokens, 5 requests; access: 1 replica, 2 consoles, 1 trigger, 1 user, 1 secret, 2 saves, 2 checks | `OneTsuOwner`, `StateUsedOnce`, `AdminSessionsEarned`, `VerdictsFollowSettings`, `RequestsFollowSettings` | 1.6 million |
| `edges` | inbox: 2 handlers, 4 mixes of messages, 2 deliveries, 1 fault, 1 restart; members: 1 group, 2 channels, 3 events, 1 stop; sending: each messenger and none, 2 prompters with 3 prompts, 1 sender, 2 failures; cron: 2 replicas, 2 ticks, 2 minutes, 2 reloads, 1 outage; university: 1 student, 2 codes, 3 writes | `UpdatesReachManager`, `KnownChatsRegistered`, `ChatsFollowPlatform`, `OneLiveMenu`, `RepeatsAreRetries`, `RunsApart`, `GraphFollowsTables` | 1.2 million |

Why these bounds are enough to be interesting:

- Two consumers, workers, replicas or administrators are what it takes for one to
  overrun a lease, to overtake the other, or to wait for it. One fault is enough
  for each kind of failure in each place; two in `outbox_stored` let a row use up
  its attempts. Two retries have a requeue, a second one and a dead letter.
- Days of three hours have an hour before, in and after each range of work hours,
  ranges over midnight, and a time zone that moves the date. The theorems on
  notifications are proved for any length of day.
- The commands of `MCDialog` have a branch, a conditional branch, a conditional
  step, a paginated step, a step that accepts any text, no steps at all, and
  `core.plugins`. Four tokens let a dialog be opened, answered, gone back in and
  replaced. `dialog_serial` keeps the TTL from ending in the middle of an update,
  as the abstract conversation has no such step; `dialog_race` does not.
- Three rows in `outbox_stored` are a rewrite (two rows) and another change, and
  one more than a batch.
- In `plugin_runtime`, two operations are a load with a reload, an unload or another
  load beside or after it, and a pool of two has a slot that `Close` waits for
  while it holds the other. The limits of handles, keys, sizes and letters are all reached, and
  exceeded by the next request.
- In `plugin_lifecycle`, two seconds let updates share a time stamp or not; three requests are
  an install, an update and what undoes it. The module was also checked with two
  requests and up to four faults, and with three replicas, two requests and three faults.
- In `services`, three users are the seeded administrator, a messenger user and the
  web user a merge absorbs. Each sort of save, credential and origin occurs.
- In `edges`, the mixes have an album with a button, messages of two messengers at
  once, and the two messengers that register a chat on its first message. Two ticks in
  two minutes are in the same one or not.

Bounds on tokens, rows, faults and requests stop the system where the program
would go on, so deadlock is checked only where nothing is used up: in
`eventqueue`, `notify_live` and `dialog_serial`.

Some properties say what holds *unless* something happened, because the code
does not promise more. What is excused:

| Property | Excuse |
|---|---|
| `ExclusiveUnlessLapsed`, `DuplicateOnlyAfterOverrun` | a lease ran out under its holder, or a delete is missing |
| `StoredConverge` | a row overtook an older one of its key; a position was synchronized without the student's others |
| `GracefulDrain` | the drain time-out; a failed reload gave the instance back to calls |
| `SettledOnOneVersion` | operations overlapped |
| `ConnectionsGivenBack` | `strays`: the leaks of section 6 |
| `FilesWhole` | a failed or late request separated the two objects |
| `DeadLettersKept` | the limit, a purge, and letters a replay overwrote |
| `ReplicasFollowRecord`, `BinariesKept` | requests overlapped (for the latter, only with a deletion), were left half done, or fell in one second; a replica missed a change, because its notification was lost or because nobody is told of an undone install |
| `OneTsuOwner` | two requests for one account overlapped between look-up and write |
| `VerdictsFollowSettings`, `RequestsFollowSettings` | a TTL is not over since the save; the check overlapped a save |
| `UpdatesReachManager` | a mark expired or could not be written; an album was regrouped on redelivery; the process stopped |
| `ChatsFollowPlatform` | events of the chat failed, overlapped or were missed |
| `OneLiveMenu` | a failed request, or two prompts at once, left a menu behind |
| `RunsApart` | Redis failed in that minute; a reload dropped the flag of a run |
| `GraphFollowsTables` | the last writer of the key wrote a part of it (`drift`) |

Each excuse is set by the step that causes it. Where a component has several rows, keys,
chats or replicas it covers the one concerned; overlapping or half-done requests of the
loader and the lifecycle service excuse the rest of the behaviour, as nothing repairs
what they leave. Every other path to a violation is still searched.

Every property of a passing run has a mutant, defined next to the definition it
replaces and marked "Mutant", with which TLC finds the property violated.

## 4. Fairness

- `EventQueue`: weak fairness of each consumer's next step, as `RunConsumer` polls
  until the process ends and handlers have a time-out; of delays and leases, as
  time passes. Nothing is assumed of outcomes: an event that always fails ends as
  a dead letter.
- `ScheduledNotify`: weak fairness of each worker, of delays, leases and the clock;
  strong fairness of claiming and deciding within the work hours, since the worker
  polls every minute and work hours last for at least one hour; strong fairness of
  `SendOK`, since the code retries without end, so that only a channel that refuses
  every time prevents delivery.
- `AuthzOutbox`: weak fairness of each worker's next step (it polls every five
  seconds), of back-offs, and of the deadlock detector.

All other modules have safety properties only. In `Dialog` a user may always stop
answering. Requests, platform events and administrators' operations of the others
come or do not come; what could be asked to happen in the end (a drained pool is
closed, a notification reaches a replica) the code bounds by time-outs, after which
it goes on without it.

## 5. Proofs

Each theorem says that a specification implies always the property, for every value of
the constants that satisfies the named assumption of its module.

| Theorem | Property |
|---|---|
| `EventQueueProofs!TypeCorrect` | `TypeOK` |
| `EventQueueProofs!EventsAreNotLost` | `NoEventLost` |
| `EventQueueProofs!DeadLettersAreExhausted` | `DeadOnlyAfterRetries` |
| `EventQueueProofs!ClaimsAreExclusive` | `ExclusiveUnlessLapsed` |
| `EventQueueProofs!QueueKeepsPromise` | `Spec` of `Delivery` |
| `ScheduledNotifyProofs!TypeCorrect` | `TypeOK` |
| `ScheduledNotifyProofs!NotificationsAreNotLost` | `NotificationNotLost` |
| `ScheduledNotifyProofs!DuplicatesNeedOverrun` | `DuplicateOnlyAfterOverrun` |
| `ScheduledNotifyProofs!QuietHoursAreKept` | `QuietHoursKept` |
| `ScheduledNotifyProofs!OpeningsAreNotSkipped` | `NextWorkTimeIsFirstOpening` |
| `ScheduledNotifyProofs!RowsComeDueAtOpening` | `DueAtOpening` |
| `DialogProofs!BackButtonsAreCurrent` | `TokenIdentifiesStep` |
| `DialogProofs!HistoriesArePaths` | `BackRetracesAnswers` |
| `DialogProofs!PluginsGetAllAnswers` | `DispatchedIsComplete` |
| `DialogProofs!DialogsRunOnce` | `DispatchAtMostOnce`, if `Serial` |
| `DialogProofs!BackRunsNothing` | `BackNeverDispatches`, if `Serial` |
| `DialogProofs!DialogImplementsConversation` | `ImplementsConversation`, if `Serial` |
| `OutboxProofs!StaffFollowsPostgres` | `StaffConverges` |
| `OutboxProofs!StoredRowsConverge` | `StoredConverge` |
| `PluginLoaderProofs!SlotsAreAccounted` | `SlotsAccounted` |
| `PluginLoaderProofs!DrainsAreGraceful` | `GracefulDrain` |
| `PluginLoaderProofs!OneVersionSettles` | `SettledOnOneVersion` |
| `HostProofs!NoEventDisappears` | `DeadLettersKept` |
| `HostProofs!FilesAreWhole` | `FilesWhole` |
| `HostProofs!ConnectionsComeBack` | `ConnectionsGivenBack` |
| `HostProofs!QuotaIsExact` | `KvQuotaExact` |
| `HostProofs!BinariesStay` | `BinariesKept` |
| `HostProofs!ReplicasFollow` | `ReplicasFollowRecord` |
| `ServicesProofs!TokensStartOneFlow` | `StateUsedOnce` |
| `ServicesProofs!ConsoleIsEarned` | `AdminSessionsEarned` |
| `ServicesProofs!AccountsHaveOneUser` | `OneTsuOwner` |
| `ServicesProofs!VerdictsAreRight` | `VerdictsFollowSettings` |
| `ServicesProofs!RequestsAreRight` | `RequestsFollowSettings` |
| `EdgesProofs!TriggersRunApart` | `RunsApart` |
| `EdgesProofs!RepeatsNeedTransientErrors` | `RepeatsAreRetries` |
| `EdgesProofs!MenusAreRetired` | `OneLiveMenu` |
| `EdgesProofs!KnownChatsHaveRows` | `KnownChatsRegistered` |
| `EdgesProofs!UpdatesArrive` | `UpdatesReachManager` |
| `EdgesProofs!RowsFollowPlatforms` | `ChatsFollowPlatform` |
| `EdgesProofs!GraphIsTables` | `GraphFollowsTables` |

### What is assumed

All bounds are natural numbers, and values that stand for "nothing" are not among the
values they stand beside (`NoEvent`, `NoMessage`, `NoGroup`, `NoTsu`, `NoDialog`, `None`, the empty
code, a `Missing` size). Beyond that:

- batch sizes, the length of a day, attempts, the pool, the chunk, and retries and letters of the
  in-memory bus are positive; work hours have different ends, as `validateHoursRange`
  requires; departments, calls and keys are finite in number (`AuthzOutboxAssumption`,
  `PluginLoaderAssumption`, `KvAssumption`), as their cardinalities are counted;
- `CommandAssumption`, `DialogAssumption`, `MenuAssumption`: commands are functions from answers to
  steps; only plugins' commands have Back; `core.plugins` asks for a plugin and for a
  command, in this order;
- `BusAssumption`: handlers are numbered from 1 without gaps, as they are called in order;
- `InboxAssumption`: every message and every file of a behaviour has an id of its own;
- `MembersAssumption`: a group of Telegram is no channel of Discord; `ChannelSendAssumption`: the
  messengers are those with an adapter; `AccessAssumption`: names of triggers and
  users, and secrets and other origins of a request, are apart;
- `PluginLifecycleAssumption`: the keys of installed binaries are not time stamps;
- `UniversityAssumption`: there is a student, and the code `"a"` of the nodes that the initial tables have; `""` is no code,
  as it stands for none, and the kinds of appointment are among those that have a relation.

`Serial` is: one worker, and no expiry in the middle of an update. It is the instance that
`dialog_serial` checks. The three properties do not hold without it, as `dialog_back_race` and
section 6 show.

### The inductive invariants

No property but `QuietHoursKept` and `SlotsAccounted` is inductive with types alone. In
each module one lemma per action shows that the action keeps the invariant.

*EventQueue.* `IInv` adds: `HandlesClaimed` (a handler runs an event its consumer claimed),
`UnknownBeforePublish`, `ServedSoFar` (a handler that has not failed has either
served a pinned plugin or still has it to call, which makes `MarkSuccess` safe),
`RetriesAreFailures` (the stored retry count, and every count a consumer still
carries from its claim, is at most the number of failed runs, so a stale verdict
cannot dead-letter too early), and `HeldIsLeased` (an event whose lease never ran
out under a holder is leased while it is held, so no second claim is possible).
The refinement of `Delivery` maps the row of an event to its `Fate`: a row that is gone
though the event was published means it is done. A publication, the handling by one plugin, a verdict and
a deletion are steps of the promise; claims, leases that lapse, crashes and lost marks are stutters.
`ServedSoFar` allows the deletion, `RetriesAreFailures` the dead letter, and
`UnknownBeforePublish` keeps a late verdict from touching what was never published; one on a deleted event is only one
more failed run.

*ScheduledNotify.* `IInv` adds `JobsHaveMessages`, `OnlyStored` (rows and batches
exist only for messages that were scheduled), `CompletedWasSent` (a job about to
delete its row has sent), `HeldIsLeased`, `HolderIsUnique` and `SentIsCompleted`
(outside the suspect messages, one worker at most has a message, its row is
leased, and once sent it is only deleted). The work-hours arithmetic is a chain of
lemmas on division with remainder (`Division`, `Remainder`, `LocalHourLater`, `NextWorkTimeOpens`),
for any length of day and any zone. `WaitsForOpening` says of each row that was deferred
that what is left of its wait ends at an opening of the settings it was planned under.

*Dialog.* `DialogInv` has the types, `Agreed` (the prompts ever sent under one token are one
prompt, and so is the one of a dialog that is stored or that an update still carries in its
hands), and that the history of each is the path of its answers. A Redis call of one update
thus may write what it read long before, as every dialog it can have is one of those. Under
`Serial`, `SerialInv` says for each place in the code what the stored dialog is (`Fits`),
and that performed dialogs are no longer stored. The refinement maps the stored dialog
to the dialog the user sees and a completed one in a worker's hands to `Owed`; one lemma per action
shows which step of `Conversation` it takes, or that it takes none.

*AuthzOutbox.* `OutboxInv`: rows and transactions own each other exclusively (`Owned`, from
`FOR UPDATE SKIP LOCKED` and the advisory locks); what a call is about to write is what its row says (`Applies`);
without overtaking, rows of one key are applied in order (`Ordered`). `StaffInv`: a department on which
the stores differ has a row to come, and so has one whose staff changed since it was read.
`StoredInv`: of each key there is a last row that erases; what comes after it brings what
Postgres has, and SpiceDB agrees once it is applied.

*PluginLoader.* `LoaderInv` has the shapes of operations and instances and that a prepared instance is
known to its operation only (`Prepared`). For `GracefulDrain`, `DrainInv`: `active` counts the calls
inside (`Counted`, a cardinality), `drained` is signalled when there are none and takes no
more (`DrainedEmpty`), and a pool is closed after that, or by force, or before it was put in
place (`ClosedAfterDrain`). For `SettledOnOneVersion`, `SettlingInv`: while no two operations
overlapped, one at most is in progress (`Alone`); at each of its program counters, `Stage` says which of map, pool,
manager, triggers and permissions it has already moved and which still belong to the instance
before it; and when none is in progress, all agree.

*MemoryBus, FileStore, HostCalls.* `BusInv`: an event that a handler missed is marked as failed in its call, or is
among the letters or in the hands of a replay. `FileInv`: while the objects are not torn apart,
each request is at a known distance from agreement (`Together`); while a file is being stored nobody knows of it
(`StoringAlone`); `ReaderInv` follows a reader through the chunks. `SqlInv`: a connection is in a
call, in a table that somebody will clean, or among the `strays`; and so with pools. `KvInv` states the total as the cardinality of a set with one element per unit of
size, which needs no recursive sum.

*PluginLifecycle.* `BinariesInv`: what is on record, and what a request is about to record, is in the store;
an update that may fail has its key for itself; a deletion is alone. `ReplicasInv`: without
overlap a request runs by itself, its program counter tells what the stores hold
(`StoresAt`), what its own replica runs (`Served`) and what another may run, which may restart at any
moment (`Trails`); when there is no request, each replica is up to date or has the
notification that will bring it up to date (`Caught`).

*Identity, Access.* `TokenInv`: a token with a flow was never used. `OwnerInv`: what a request
has read of the owners of an account is still so, or the account is `raced`. `AdminInv`: sessions come from credentials
that existed. `AccessInv`: a cached value is the stored one or became `stale` at most a TTL ago
(`Fresh`), and a check under way knows what the settings said or is known to overlap a save (`Knows`).

*Edges.* `CronInv`: a run comes after the lock, holds its minute's key, and holds the flag. `SendInv`
counts how often each part was shown against the transient errors (`JobCounts`). `MenuInv`: each live menu is the last one,
or about to be retired or stored by a prompter. `InboxInv`: a known chat has a row or a handler that is
inserting it. `UpdatesInv` says where a message is: in a handler's hands, in an album's buffer, past the
middleware, handed over or lost. A message that came once is in one place only and is marked last (`CameOnce`);
one of no album is handed over by the one handler that marked it, however often it came (`MarkedOnce`); and
none is dropped as a duplicate before it arrived (`Arrives`), which for an album needs that its photos came once.
`MembersInv`: for each chat that is not excused, one handler at most is at work
(`Worked`), the events in the queue lead from what is registered to what is present (`Leads`), and the tracker
has the channels or will get them (`Tracks`). `UniversityInv`: the tables are sound (`DbTyped`: a node is found by its id and by
its code, rows refer to nodes of the right level, and the next id is later than all), and under each key that
is not in `drift` the graph has the tuples of the tables (`Follows`). Lemmas say which keys a change of some persons or of
the staff of some departments can touch (`OnlyPersons`, `OnlyStaff`), so that each writer is compared with the keys it rewrites.

### What the proofs changed

Attempts to prove a property and counterexamples of TLC to a candidate invariant corrected the models. `Conversation` lacked
a step: a command without steps runs even if the call that removes the stored dialog failed
(`AskBesides`), which one fault per behaviour had hidden. In `Access` and
`PluginLifecycle` some `CASE` guards overlapped, which leaves the choice open, while the code tests them in
order. `ReplicasFollowRecord` failed with two faults: an install that is undone tells no
one (section 6).

### What is only model-checked

`EventuallySettled` (of `EventQueue` and of `AuthzOutbox`) and `EventuallyDelivered`, as
liveness under fairness is beyond the prover, and `FlattenNodes` of `CommandDSL`, which is
recursive. Every invariant of a passing run has a theorem, and so has the refinement of
`Conversation`. That of `Delivery` is proved and has no run; TLC found no counterexample to it on an
instance of 29 000 states.

## 6. Where code and text disagree

- `dialog_back_race`: `BACK_NAVIGATION.md` says that Back at the first step
  "cancels without dispatching the plugin handler". `Manager.ProcessInput` cancels,
  stores `core.plugins` and calls itself with the plugin ID; if another update
  stored a dialog in between, the plugin ID answers that one, and may complete it.
- `outbox_replace`: the comment of `ReplaceForObject` says "atomically", and so
  does that of `EnqueueReplace`. Two calls are made, and if the second fails the object
  has no relationships until the row is retried.

Behaviour the models show that no text of the repository contradicts:

- *Event bus, dialogs, outbox.* A stale verdict can requeue a dead-lettered event.
  Two concurrent answers to the last step run the command twice
  (`DispatchAtMostOnce` holds one update at a time). A row retried after a younger
  one restores old relationships.
- *Loader.* A reload that fails while activating strips the version that goes on
  running of its permissions and databases. Two overlapping operations can close
  `drained` twice, which panics. Events and commands do not count in a drain.
- *Host API.* A call that races the cleanup of its execution puts its handle into a
  table made anew, and the connection is never released. Ending a transaction or
  rows with a connection's handle drops the connection without a release. A pool made on a
  state fetched before `UnregisterPlugin` is closed by nobody. Executions nested in one
  caller share its trace, so a late cleanup takes the next one's handles.
- *Files.* A direct upload is ready before its size is checked. `Delete` ignores both errors.
  The upload URL works after completion and deletion. A crash between the two
  objects leaves data nobody lists.
- *In-memory bus.* `ReplayDLQ` overwrites letters added meanwhile and undoes a purge;
  neither operation has a caller outside tests.
- *Lifecycle.* When the metadata cannot be saved after the record, the record points to
  a deleted binary (update), is enabled and not loaded (enable), or differs from what
  runs (rollback). Updates within a second share a key. `Delete` removes binaries before rows.
  A notification sent while a replica reconnects is lost. An install whose metadata cannot
  be saved takes its record away again and tells no one, so a replica that restarted
  meanwhile goes on running the plugin.
- *Identity.* `tsu_accounts_id` is not unique, so two overlapping logins make two
  owners. A late save of a user name undoes a merge. Two first messages leave
  an orphan user. Deleting the last administrator's credentials reopens setup mode.
- *Access.* Edits of users and person links do not invalidate the subject cache, and deleting
  settings invalidates nothing; other replicas follow after a TTL. A check that
  read before an invalidation re-caches the old value. Failed loads of a subject are cached.
  `GetPluginPolicy` turns database errors into "no policy". Service keys are not subject
  to the policy expression.
- *Channels.* Two handlers can register a chat twice. An update is marked as seen before it
  is processed. A redelivered album is regrouped. A late `GuildCreate` handler
  replaces the tracked channels; an uncached `GuildDelete` with an empty tracker
  leaves the chats. A failing later part leaves a live menu nobody tracks, and a transient
  failure of it repeats the earlier parts. Mattermost edits without options keep the old
  buttons.
- *Cron.* A schedule faster than a minute runs once a minute. A reload drops the flag of
  a run that goes on. When Redis fails, every replica runs.
- *University.* `SyncHierarchyNode` inserts programs and subgroups without columns
  that are `NOT NULL` and have no default, so it always fails for them.
  `SyncStudentPosition` and imports take away the memberships of a student's other
  positions. `UpdateStudentPosition` of the deans, and changes of reference data, enqueue
  nothing. The resolver's scopes use a position's own stream, which may be stale.
  Appointments are duplicated at each pull.

## 7. What is not modelled

- *Within modelled parts*: critical and group notifications, the in-memory notification
  store, alias disambiguation, the blacklist, locales; commits in another order than row
  ids; daylight saving time (all days have the same length); signatures of links, cookies
  and tokens, which are taken to be sound; frontends, bundles and the registry of
  published plugins in the lifecycle service; a binary that declares another plugin's
  id; the local file store; rate limits.
- *One call each, without state that lasts*: the HTTP, notification, user and plugin-call
  host functions; listing and searching in the admin API; previews of updates.
- *Pure conversions*: codecs, spreadsheets, message layout and splitting, path matching,
  dependency order, cron expressions.
- *External*: wazero, S3, SpiceDB, Redis, Postgres' locks and the messengers appear as
  far as the code uses them.
- *Not at all*: configuration, translations, metrics, program start, the test runner
  for plugins, the administrators' web front end and the example plugins.

## 8. Plan

Written: `EventQueue` and `ScheduledNotify`; `Dialog` with its abstract
`Conversation`; `AuthzOutbox`; the plugin runtime; the lifecycle service; identity
and access; the edges; and the proofs of section 5.

No invariant of a run is left to prove. Next come abstract specifications: `Delivery` for
`ScheduledNotify`, which sets nothing aside; a store that follows its source,
which `AuthzOutbox` implements for staff; one running version, which `PluginLoader`
implements for what `PluginLifecycle` calls `run`. After these, the parts of section 7 that
keep state.
