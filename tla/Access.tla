------------------------------ MODULE Access ------------------------------
(***************************************************************************)
(* Who may run a command and who may call an HTTP trigger of a plugin:     *)
(* the settings an administrator saves (internal/admin/api/cmd_perm*.go),  *)
(* the Authorizer with its two caches (internal/authz), the keys and       *)
(* tokens (http_service_key_store.go, auth/userhttp) and the HTTP trigger  *)
(* handler (internal/trigger/http.go).  A handler saves and then deletes   *)
(* the entry of its own replica's cache; every other replica keeps what it *)
(* cached until the entry expires.  A check is a sequence of reads, and    *)
(* saves interleave between any two of them.                               *)
(***************************************************************************)
EXTENDS Naturals, FiniteSets

CONSTANTS
  Replicas,   \* processes that check, each with an Authorizer
  Consoles,   \* processes that serve the administrators, the Replicas or others
  Triggers,   \* commands and HTTP triggers of one plugin, by name
  Users,
  Policies,   \* "" none, "role" has_role, "member" is_member, "bad" does not evaluate
  Secrets,    \* ids of service keys and of user tokens
  Jobs,       \* checks and requests in progress
  MaxSaves,   \* bound: saves of an administrator
  MaxChecks   \* bound: checks and requests begun

\* The two caches share no key, and what a caller shows is a secret or one of these.
ASSUME AccessAssumption ==
  /\ Triggers \cap Users = {} /\ "plugin" \notin Triggers \cup Users
  /\ Secrets \cap {"none", "session", "preflight"} = {}

Plugin   == "plugin"
Keys     == Triggers \cup {Plugin} \cup Users
TTL(k)   == IF k \in Users THEN 1 ELSE 2   \* 30 s and 60 s, in ticks of 30 s

VARIABLES
  setting,   \* plugin_command_settings by name
  plugPol,   \* plugin_settings.policy_expression
  plugOrig,  \* plugin_frontend_origins: whether the foreign origin is listed
  roleOf,    \* users with the role: a row of user_roles, or the column of global_users
  linked,    \* users with a person, hence an external id
  graph,     \* SpiceDB: <<user, object>> memberships
  secrets,   \* service keys and user tokens by id
  cache,     \* per replica: subject and policy caches; left = ticks until expiry
  pending,   \* <<replica, key>> saved and not yet invalidated
  jobs, saves, checks,
  stale      \* history: ticks for which a replica may still hold an older value

storeVars  == <<setting, plugPol, plugOrig, roleOf, linked, graph, secrets>>
accessVars == <<storeVars, cache, pending, jobs, saves, checks, stale>>

\* The defaults of migrations 14, 22 and 25, which every reader also uses when there is no row.
Default  == [enabled |-> TRUE, userKeys |-> TRUE, serviceKeys |-> FALSE,
             policy |-> "", origins |-> FALSE]
NoSecret == [kind |-> "none", user |-> {}, scope |-> {}, live |-> FALSE]
NoEntry  == [val |-> {}, left |-> 0]
NoJob    == [pc |-> "free", r |-> {}, user |-> {}, t |-> {}, need |-> "none", cred |-> "none",
             foreign |-> FALSE, row |-> Default, pol |-> "", sc |-> [role |-> FALSE, ext |-> FALSE],
             read |-> {}, next |-> "none", clean |-> TRUE, right |-> TRUE]

\* Nothing in the program adds a row to user_roles.
AccessInit ==
  /\ setting = [t \in Triggers |-> Default] /\ plugPol = "" /\ plugOrig = FALSE
  /\ roleOf = [u \in Users |-> {"row"}] /\ linked = Users /\ graph = {}
  /\ secrets = [s \in Secrets |-> NoSecret]
  /\ cache = [r \in Replicas |-> [k \in Keys |-> NoEntry]]
  /\ stale = [r \in Replicas |-> [k \in Keys |-> 0]]
  /\ pending = {} /\ jobs = [j \in Jobs |-> NoJob] /\ saves = 0 /\ checks = 0

------------------------------------------------------------------------------
(* What the tables say *)

GetCommandPolicy(t) == [enabled |-> setting[t].enabled, policy |-> setting[t].policy]
GetPluginPolicy     == plugPol
GetAllRoleNames(u)  == roleOf[u] # {}
GetExternalID(u)    == u \in linked
Loaded(u)           == [role |-> GetAllRoleNames(u), ext |-> GetExternalID(u)]

Stored(k) == CASE k \in Triggers -> GetCommandPolicy(k)
               [] k = Plugin     -> GetPluginPolicy
               [] OTHER          -> Loaded(k)

\* buildExprEnv: university objects are checked for the external id, never for the bot id.
GraphCheck(u, sc) == sc.ext /\ <<u, "group">> \in graph

EvalPolicy(p, u, sc) == CASE p = "role"   -> sc.role
                          [] p = "member" -> GraphCheck(u, sc)
                          [] p = "bad"    -> FALSE
                          [] OTHER        -> TRUE

\* The conjunction of both expressions; an error in either refuses.
CombinePolicies(p, q, u, sc) == EvalPolicy(p, u, sc) /\ EvalPolicy(q, u, sc)

CheckPermission(u, need) == need = "none" \/ <<u, need>> \in graph

------------------------------------------------------------------------------
(* The caches *)

\* A bug for comparison: an entry is served after its expiry.
GetExpired(r, k) == cache[r][k] # NoEntry

Get(r, k) == cache[r][k].left > 0

Set(r, k, v) ==
  /\ cache' = [cache EXCEPT ![r][k] = [val |-> {v}, left |-> TTL(k)]]
  /\ stale' = IF v = Stored(k) THEN stale ELSE [stale EXCEPT ![r][k] = TTL(k)]

DeleteEntry(r, k) == cache' = [cache EXCEPT ![r][k] = NoEntry]

CacheTick ==
  /\ cache' = [r \in Replicas |-> [k \in Keys |->
                 [cache[r][k] EXCEPT !.left = IF @ = 0 THEN 0 ELSE @ - 1]]]
  /\ stale' = [r \in Replicas |-> [k \in Keys |->
                 IF stale[r][k] = 0 THEN 0 ELSE stale[r][k] - 1]]
  /\ cache' # cache \/ stale' # stale
  /\ UNCHANGED <<storeVars, pending, jobs, saves, checks>>

------------------------------------------------------------------------------
(* Saves.  A save makes every check in progress one that overlapped a change; a save *)
(* that changes nothing is left out.                                                 *)

Saved == /\ saves < MaxSaves /\ saves' = saves + 1
         /\ jobs' = [j \in Jobs |-> [jobs[j] EXCEPT !.clean = jobs[j].pc = "done" /\ @]]

\* Every replica may hold the value this save replaced.
Touches(k) ==
  /\ stale' = [r \in Replicas |-> [stale[r] EXCEPT ![k] = TTL(k)]]
  /\ UNCHANGED <<cache, checks>>

\* A handler of process r will invalidate the entry of r and of no other replica.
ToInvalidate(r, k) == pending' = pending \cup ({<<r, k>>} \cap (Replicas \X Keys))

Row(t, field, v) == setting' = [setting EXCEPT ![t][field] = v]

SetCommandEnabled(t, v)        == Row(t, "enabled", v)
SetPolicyExpression(t, p)      == Row(t, "policy", p)
SetAllowedOrigins(t, v)        == Row(t, "origins", v)
SetTriggerAccess(t, uk, sk) ==
  setting' = [setting EXCEPT ![t].userKeys = uk, ![t].serviceKeys = sk]
SetPluginPolicyExpression(p)   == plugPol' = p
SetPluginFrontendOrigins(v)    == plugOrig' = v
DeleteCommandSettings(t)       == setting' = [setting EXCEPT ![t] = Default]
DeleteAllPluginCommandSettings == setting' = [t \in Triggers |-> Default] /\ plugOrig' = FALSE

\* The save of a handler of replica r, which will then invalidate its own entry.
SettingSave(r, t) ==
  /\ setting' # setting /\ Saved /\ Touches(t) /\ ToInvalidate(r, t)
  /\ UNCHANGED <<plugPol, plugOrig, roleOf, linked, graph, secrets>>

HandleSetEnabled(r, t, v)        == SetCommandEnabled(t, v) /\ SettingSave(r, t)
HandleSetAccess(r, t, uk, sk)    == SetTriggerAccess(t, uk, sk) /\ SettingSave(r, t)
HandleSetPolicy(r, t, p)         == SetPolicyExpression(t, p) /\ SettingSave(r, t)
HandleSetAllowedOrigins(r, t, v) == SetAllowedOrigins(t, v) /\ SettingSave(r, t)

HandleSetPluginPolicy(r, p) ==
  /\ SetPluginPolicyExpression(p) /\ p # plugPol /\ Saved /\ Touches(Plugin)
  /\ ToInvalidate(r, Plugin)
  /\ UNCHANGED <<setting, plugOrig, roleOf, linked, graph, secrets>>

HandleSetPluginFrontendOrigins(v) ==
  /\ SetPluginFrontendOrigins(v) /\ v # plugOrig /\ Saved
  /\ UNCHANGED <<setting, plugPol, roleOf, linked, graph, secrets, cache, checks, pending, stale>>

\* InvalidateCommandPolicy, InvalidatePluginPolicy and InvalidateUser
Invalidate(r, k) ==
  /\ <<r, k>> \in pending /\ pending' = pending \ {<<r, k>>}
  /\ DeleteEntry(r, k) /\ stale' = [stale EXCEPT ![r][k] = 0]
  /\ UNCHANGED <<storeVars, jobs, saves, checks>>

\* An update or a deletion of the plugin drops settings and tells no cache.
DropSettings(t) ==
  /\ setting[t] # Default /\ DeleteCommandSettings(t) /\ Saved /\ Touches(t)
  /\ UNCHANGED <<plugPol, plugOrig, roleOf, linked, graph, secrets, pending>>

DropAllSettings ==
  /\ DeleteAllPluginCommandSettings /\ <<setting, plugOrig>>' # <<setting, plugOrig>> /\ Saved
  /\ stale' = [r \in Replicas |-> [k \in Keys |->
                 IF k \in Triggers THEN TTL(k) ELSE stale[r][k]]]
  /\ UNCHANGED <<plugPol, roleOf, linked, graph, secrets, cache, checks, pending>>

RemoveRole(u) == roleOf' = [roleOf EXCEPT ![u] = @ \ {"row"}]
UpdateUser(u) == roleOf' = [roleOf EXCEPT ![u] = @ \cup {"column"}]

\* Only the removal of a role invalidates the subject.
HandleRemoveUserRole(r, u) ==
  /\ RemoveRole(u) /\ roleOf' # roleOf /\ Saved /\ Touches(u) /\ ToInvalidate(r, u)
  /\ UNCHANGED <<setting, plugPol, plugOrig, linked, graph, secrets>>

HandleUpdateUser(u) ==
  /\ UpdateUser(u) /\ roleOf' # roleOf /\ Saved /\ Touches(u)
  /\ UNCHANGED <<setting, plugPol, plugOrig, linked, graph, secrets, pending>>

\* POST and DELETE /persons of a user: see Identity
PersonLink(u) ==
  /\ linked' = IF u \in linked THEN linked \ {u} ELSE linked \cup {u}
  /\ Saved /\ Touches(u)
  /\ UNCHANGED <<setting, plugPol, plugOrig, roleOf, graph, secrets, pending>>

Relationship(g) == graph' = g /\ g # graph /\ Saved
                   /\ UNCHANGED <<setting, plugPol, plugOrig, roleOf, linked, secrets,
                                  cache, checks, pending, stale>>
HandleCreateRelationship(u, o) == Relationship(graph \cup {<<u, o>>})
HandleDeleteRelationship(u, o) == <<u, o>> \in graph /\ Relationship(graph \ {<<u, o>>})

NewSecret(s, rec) == /\ secrets[s].kind = "none" /\ Saved
                     /\ secrets' = [secrets EXCEPT ![s] = rec]
                     /\ UNCHANGED <<setting, plugPol, plugOrig, roleOf, linked, graph,
                                    cache, checks, pending, stale>>
LoseSecret(s, rec) == /\ secrets[s].live /\ Saved
                      /\ secrets' = [secrets EXCEPT ![s] = rec]
                      /\ UNCHANGED <<setting, plugPol, plugOrig, roleOf, linked, graph,
                                     cache, checks, pending, stale>>

CreateServiceKey(scope) == [kind |-> "service", user |-> {}, scope |-> scope, live |-> TRUE]
CreateUserToken(u)      == [kind |-> "user", user |-> {u}, scope |-> {}, live |-> TRUE]
DeleteServiceKey(s)     == [secrets[s] EXCEPT !.live = FALSE, !.scope = {}]
DeleteUserToken(s)      == [secrets[s] EXCEPT !.live = FALSE]

HandleCreateKey(s, scope) == scope # {} /\ NewSecret(s, CreateServiceKey(scope))
HandleCreateToken(s, u)   == NewSecret(s, CreateUserToken(u))
HandleDeleteKey(s)   == secrets[s].kind = "service" /\ LoseSecret(s, DeleteServiceKey(s))
\* A user deletes only tokens of their own.
HandleDeleteToken(s, u) == secrets[s].user = {u} /\ LoseSecret(s, DeleteUserToken(s))
ExpireSecret(s)      == LoseSecret(s, [secrets[s] EXCEPT !.live = FALSE])

------------------------------------------------------------------------------
(* Steps of a check *)

JobAt(j, pc)  == jobs[j].pc = pc
JobTo(j, rec) == jobs' = [jobs EXCEPT ![j] = rec]

\* The reference: what the tables say of this check now, from the tables alone.
MayRun(job) ==
  LET u == CHOOSE x \in job.user : TRUE
      t == CHOOSE x \in job.t : TRUE
  IN /\ CheckPermission(u, job.need) /\ setting[t].enabled
     /\ CombinePolicies(plugPol, setting[t].policy, u, Loaded(u))

MayCall(job) ==
  LET t == CHOOSE x \in job.t : TRUE
      s == setting[t]
      origins == s.origins \/ plugOrig
      user(u) == s.userKeys /\ EvalPolicy(s.policy, u, Loaded(u))
      open == ~s.userKeys /\ ~s.serviceKeys /\ s.policy = ""
      known == IF job.cred \in Secrets
               THEN \/ secrets[job.cred].kind = "service" /\ t \in secrets[job.cred].scope
                    \/ secrets[job.cred].kind = "user"
               ELSE TRUE
  IN /\ s.enabled /\ (job.foreign => origins)
     /\ \/ open /\ (job.cred \in Secrets => secrets[job.cred].live /\ known)
        \/ /\ job.cred \in Secrets /\ secrets[job.cred].live /\ known
           /\ IF secrets[job.cred].kind = "service" THEN s.serviceKeys
              ELSE \A u \in secrets[job.cred].user : user(u)
        \/ job.cred = "session" /\ \A u \in job.user : user(u)

\* The answer, compared with the tables in the same step; only the comparison is kept.
Finish(j, rec, out) ==
  /\ JobTo(j, [NoJob EXCEPT !.pc = "done", !.need = rec.need, !.clean = rec.clean,
                 !.right = rec.clean => (out = "allow") = IF rec.need = "http" THEN MayCall(rec) ELSE MayRun(rec)])
  /\ UNCHANGED <<storeVars, cache, pending, saves, checks, stale>>

Go(j, rec, pc) == JobTo(j, [rec EXCEPT !.pc = pc])
                  /\ UNCHANGED <<storeVars, cache, pending, saves, checks, stale>>

Took(job, k, v) == CASE k \in Triggers -> [job EXCEPT !.row = [job.row EXCEPT !.enabled = v.enabled,
                                                                              !.policy = v.policy]]
                     [] k = Plugin     -> [job EXCEPT !.pol = v]
                     [] OTHER          -> [job EXCEPT !.sc = v]

\* getCommandPolicy, getPluginPolicy, buildSubjectContext: a hit, or a read of the store
\* whose Set is another step: an invalidation in between is undone by it.  Queries of
\* a subject that fail leave the field empty, and the context is cached all the same.
Fetch(j, k, next) ==
  LET job == jobs[j]
      r == CHOOSE x \in job.r : TRUE
      hit == Get(r, k)
  IN \/ /\ hit
        /\ \E v \in cache[r][k].val :
             Go(j, Took([job EXCEPT !.clean = @ /\ stale[r][k] = 0], k, v), next)
     \/ ~hit /\ Go(j, [job EXCEPT !.read = {Stored(k)}, !.next = next], "put")
     \/ ~hit /\ k \in Users
        /\ Go(j, [job EXCEPT !.read = {[role |-> FALSE, ext |-> FALSE]}, !.clean = FALSE,
                               !.next = next], "put")
     \/ ~hit /\ k \in Triggers /\ Finish(j, [job EXCEPT !.clean = FALSE], "error")

PutBack(j, k, next) ==
  LET r == CHOOSE x \in jobs[j].r : TRUE
  IN /\ JobAt(j, "put") /\ jobs[j].next = next
     /\ \E v \in jobs[j].read : Set(r, k, v) /\ JobTo(j, [Took(jobs[j], k, v) EXCEPT !.pc = next, !.next = "none", !.read = {}])
     /\ UNCHANGED <<storeVars, pending, saves, checks>>

Start(j, rec) ==
  /\ jobs[j].pc \in {"free", "done"} /\ checks < MaxChecks /\ checks' = checks + 1 /\ JobTo(j, rec)
  /\ UNCHANGED <<storeVars, cache, pending, saves, stale>>

CheckCommand(j, r, u, t, need) ==
  Start(j, [NoJob EXCEPT !.pc = "roles", !.r = {r}, !.user = {u}, !.t = {t}, !.need = need])

\* A SpiceDB error is an error, except for the role of a plugin, where it refuses.
CheckRolesSpice(j) ==
  /\ JobAt(j, "roles")
  /\ \/ /\ CheckPermission(CHOOSE x \in jobs[j].user : TRUE, jobs[j].need)
        /\ Go(j, jobs[j], "policy?")
     \/ /\ ~CheckPermission(CHOOSE x \in jobs[j].user : TRUE, jobs[j].need)
        /\ Finish(j, jobs[j], "deny")
     \/ /\ jobs[j].need # "none"
        /\ \E o \in {"error", "deny"} : Finish(j, [jobs[j] EXCEPT !.clean = FALSE], o)

GetPolicyStep(j) ==
  LET k == CHOOSE x \in jobs[j].t : TRUE
  IN \/ JobAt(j, "policy?") /\ Fetch(j, k, "enabled?")
     \/ PutBack(j, k, "enabled?")

CheckEnabled(j) ==
  /\ JobAt(j, "enabled?")
  /\ IF jobs[j].row.enabled THEN Go(j, jobs[j], "plugin?") ELSE Finish(j, jobs[j], "deny")

GetPluginStep(j) ==
  \/ JobAt(j, "plugin?") /\ Fetch(j, Plugin, "combine")
  \/ PutBack(j, Plugin, "combine")

Combine(j) ==
  /\ JobAt(j, "combine")
  /\ IF jobs[j].pol = "" /\ jobs[j].row.policy = ""
     THEN Finish(j, jobs[j], "allow") ELSE Go(j, jobs[j], "subject?")

BuildSubjectContext(j) ==
  LET k == CHOOSE x \in jobs[j].user : TRUE
  IN \/ JobAt(j, "subject?") /\ Fetch(j, k, "eval")
     \/ PutBack(j, k, "eval")

Evaluate(j) ==
  /\ JobAt(j, "eval")
  /\ LET job == jobs[j]
         u == CHOOSE x \in job.user : TRUE
         ok == CombinePolicies(job.pol, job.row.policy, u, job.sc)
     IN \/ Finish(j, job, IF ok THEN "allow" ELSE "deny")
        \/ Finish(j, [job EXCEPT !.clean = FALSE], "deny")   \* SpiceDB does not answer

------------------------------------------------------------------------------
(* HTTP triggers *)

\* The row is read here, and used until the plugin answers.
ServeHTTP(j, r, t, cred, u, foreign) ==
  Start(j, [NoJob EXCEPT !.pc = "origins", !.r = {r}, !.t = {t}, !.need = "http", !.cred = cred,
                         !.user = IF cred = "session" THEN {u} ELSE {}, !.foreign = foreign,
                         !.row = setting[t]])

\* The loader of bootstrap.go: a plugin's origins stand in for a missing list.
ResolveSetting(j) ==
  /\ JobAt(j, "origins")
  /\ LET job == [jobs[j] EXCEPT !.row.origins = @ \/ plugOrig]
     IN IF job.row.enabled THEN Go(j, job, "cors") ELSE Finish(j, job, "deny")

ApplyCORS(j) ==
  /\ JobAt(j, "cors")
  /\ CASE jobs[j].foreign /\ ~jobs[j].row.origins -> Finish(j, jobs[j], "deny")
       [] jobs[j].cred = "preflight" /\ (jobs[j].foreign => jobs[j].row.origins) ->
            Finish(j, [jobs[j] EXCEPT !.clean = FALSE], "preflight")
       [] OTHER -> Go(j, jobs[j], "principal")

AllowsAnonymous(row) == ~row.userKeys /\ ~row.serviceKeys /\ row.policy = ""

AuthenticateUserToken(s) == secrets[s].kind = "user" /\ secrets[s].live

\* A bug for comparison: the scope of a key is not looked up.
AuthenticateAnyScope(s, t) == secrets[s].kind = "service" /\ secrets[s].live

AuthenticateServiceKey(s, t) ==
  secrets[s].kind = "service" /\ secrets[s].live /\ t \in secrets[s].scope

\* A forbidden credential falls back to nobody where nobody is needed.
Forbidden(j, job) == IF AllowsAnonymous(job.row) THEN Go(j, job, "dispatch") ELSE Finish(j, job, "deny")

AuthorizeUserPrincipal(j, job) ==
  CASE ~job.row.userKeys    -> Forbidden(j, job)
    [] job.row.userKeys /\ job.row.policy # "" -> Go(j, job, "httpSubject?")
    [] OTHER                -> Go(j, job, "dispatch")

ResolveBearerPrincipal(j, job) ==
  LET t == CHOOSE x \in job.t : TRUE
  IN CASE AuthenticateUserToken(job.cred) ->
            AuthorizeUserPrincipal(j, [job EXCEPT !.user = secrets[job.cred].user])
       [] AuthenticateServiceKey(job.cred, t) ->
            IF job.row.serviceKeys THEN Go(j, job, "dispatch") ELSE Forbidden(j, job)
       [] OTHER -> Finish(j, job, "unauthorized")

LoginRedirect(job) == IF job.row.userKeys THEN {"unauthorized", "login"} ELSE {"unauthorized"}

ResolvePrincipal(j) ==
  /\ JobAt(j, "principal")
  /\ LET job == jobs[j]
     IN CASE job.cred \in Secrets      -> ResolveBearerPrincipal(j, job)
          [] job.cred = "session"      -> AuthorizeUserPrincipal(j, job)
          [] job.cred \notin Secrets \cup {"session"} /\ AllowsAnonymous(job.row) -> Go(j, job, "dispatch")
          [] OTHER                     -> \E o \in LoginRedirect(job) : Finish(j, job, o)

HttpSubject(j) ==
  LET k == CHOOSE x \in jobs[j].user : TRUE
  IN \/ JobAt(j, "httpSubject?") /\ Fetch(j, k, "httpEval")
     \/ PutBack(j, k, "httpEval")

HttpEval(j) ==
  /\ JobAt(j, "httpEval")
  /\ LET job == jobs[j]
         u == CHOOSE x \in job.user : TRUE
     IN IF EvalPolicy(job.row.policy, u, job.sc) THEN Go(j, job, "dispatch") ELSE Finish(j, job, "deny")

\* The body is read before the event goes to the router.
BuildHTTPEvent(j) ==
  /\ JobAt(j, "dispatch")
  /\ \/ Go(j, jobs[j], "route")
     \/ Finish(j, [jobs[j] EXCEPT !.clean = FALSE], "error")

DispatchHTTPEvent(j) == JobAt(j, "route") /\ Finish(j, jobs[j], "allow")

AccessStep(j) ==
  \/ CheckRolesSpice(j) \/ GetPolicyStep(j) \/ CheckEnabled(j) \/ GetPluginStep(j) \/ Combine(j)
  \/ BuildSubjectContext(j) \/ Evaluate(j)
  \/ ResolveSetting(j) \/ ApplyCORS(j) \/ ResolvePrincipal(j) \/ HttpSubject(j) \/ HttpEval(j)
  \/ BuildHTTPEvent(j) \/ DispatchHTTPEvent(j)

AccessNext ==
  \/ \E j \in Jobs : AccessStep(j)
  \/ \E j \in Jobs, r \in Replicas, t \in Triggers, u \in Users :
       \/ \E need \in {"none", "role"} : CheckCommand(j, r, u, t, need)
       \/ \E cred \in Secrets \cup {"none", "session", "preflight"}, f \in BOOLEAN : ServeHTTP(j, r, t, cred, u, f)
  \/ \E r \in Consoles, t \in Triggers, v \in BOOLEAN :
       \/ HandleSetEnabled(r, t, v) \/ HandleSetAllowedOrigins(r, t, v)
       \/ \E sk \in BOOLEAN : HandleSetAccess(r, t, v, sk)
  \/ \E r \in Consoles, p \in Policies :
       HandleSetPluginPolicy(r, p) \/ \E t \in Triggers : HandleSetPolicy(r, t, p)
  \/ \E v \in BOOLEAN : HandleSetPluginFrontendOrigins(v)
  \/ \E r \in Replicas, k \in Keys : Invalidate(r, k)
  \/ \E t \in Triggers : DropSettings(t)
  \/ DropAllSettings \/ CacheTick
  \/ \E u \in Users : PersonLink(u) \/ HandleUpdateUser(u)
                      \/ \E r \in Consoles : HandleRemoveUserRole(r, u)
  \/ \E u \in Users, o \in {"group", "role"} :
       HandleCreateRelationship(u, o) \/ HandleDeleteRelationship(u, o)
  \/ \E s \in Secrets :
       \/ \E scope \in SUBSET (Triggers \cup {"other"}) : HandleCreateKey(s, scope)
       \/ \E u \in Users : HandleCreateToken(s, u) \/ HandleDeleteToken(s, u)
       \/ HandleDeleteKey(s) \/ ExpireSecret(s)

AccessSpec == AccessInit /\ [][AccessNext]_accessVars

------------------------------------------------------------------------------
(* Properties *)

(* Bounded staleness of the authorizer: once every save has reached the replica (its own   *)
(* handler has invalidated, or a TTL has passed since the save and since the last Set of   *)
(* an old value by a check that had read before it), a check that overlaps no save answers *)
(* what the tables say, through hits, misses, expiries and invalidations in any order.     *)
VerdictsFollowSettings ==
  \A j \in Jobs : jobs[j].pc = "done" /\ jobs[j].need # "http" /\ jobs[j].clean => jobs[j].right

(* The same of an HTTP request: whatever its credential, origin and the order in which     *)
(* settings, keys and tokens came and went before it, it reaches the plugin exactly when   *)
(* the settings and keys in force let it.                                                  *)
RequestsFollowSettings ==
  \A j \in Jobs : jobs[j].pc = "done" /\ jobs[j].need = "http" /\ jobs[j].clean => jobs[j].right
=============================================================================
