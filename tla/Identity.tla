------------------------------ MODULE Identity ------------------------------
(***************************************************************************)
(* Users, their messenger accounts, the person records of the university   *)
(* and the two ways into the web: the TSU login (internal/auth/tsu) and    *)
(* the administrators' password (internal/admin/api/auth.go).  A request   *)
(* of a Worker is a sequence of SQL statements; requests interleave        *)
(* between any two of them.  Foreign keys and unique constraints are those *)
(* of migrations/: an account row keeps its user alive, a person, the      *)
(* credentials and the user row go together with DELETE.                   *)
(***************************************************************************)
EXTENDS Naturals, FiniteSets

CONSTANTS
  Workers,    \* concurrent requests
  Browsers,   \* holders of cookies
  Accounts,   \* (channel, platform id) pairs
  ApiKey,     \* whether an API key is configured
  Tsu,        \* TSU account ids, also the external ids of persons
  MaxUsers,   \* bound: ids the sequence of global_users hands out
  MaxStates,  \* bound: state tokens generated
  MaxRequests \* bound: requests of all kinds

UserIds  == 1..MaxUsers
StateIds == 1..MaxStates
NoTsu    == "none"

ASSUME IdentityAssumption == /\ MaxUsers \in Nat \ {0} /\ MaxStates \in Nat
                             /\ MaxRequests \in Nat /\ ApiKey \in BOOLEAN
                             /\ NoTsu \notin Tsu

VARIABLES
  users,     \* ids of the rows of global_users
  nextUser,  \* BIGSERIAL of global_users
  tsuOf,     \* tsu_accounts_id; the schema does not make it unique
  rows,      \* channel_accounts: row id and owner, owner 0 when there is no row
  person,    \* persons.global_user_id by external id, 0 for NULL
  creds,     \* users with a row of admin_credentials
  flows,     \* StateStore: token |-> flow, for the live tokens
  nextState,
  cookie,    \* per browser: the state cookie and the two session cookies
  work,      \* what each request is about to do
  requests,  \* requests begun
  used,      \* history: how often a state token started a flow
  everAdmin, \* history: users that have had credentials
  raced      \* history: TSU accounts written while another request was between
             \* its lookup and its own write

dbVars       == <<users, nextUser, tsuOf, rows, person, creds>>
webVars      == <<flows, nextState, cookie, used>>
identityVars == <<dbVars, webVars, work, requests, everAdmin, raced>>

Idle == [pc |-> "idle", op |-> "none", acct |-> {}, row |-> 0, user |-> 0,
         tsu |-> NoTsu, to |-> 0, left |-> {}, b |-> {}, admin |-> FALSE]

\* Migration 19 seeds one administrator; everybody else comes by a message or a login.
IdentityInit ==
  /\ users = {1} /\ nextUser = 2 /\ creds = {1} /\ everAdmin = {1}
  /\ tsuOf = [u \in UserIds |-> NoTsu]
  /\ rows = [a \in Accounts |-> [id |-> 0, user |-> 0]]
  /\ person = [t \in Tsu |-> 0]
  /\ flows = [s \in {} |-> 0] /\ nextState = 1
  /\ cookie = [b \in Browsers |-> [state |-> 0, user |-> 0, admin |-> 0]]
  /\ used = [s \in StateIds |-> 0]
  /\ work = [w \in Workers |-> Idle] /\ requests = 0 /\ raced = {}

------------------------------------------------------------------------------
(* Statements *)

To(w, rec)     == work' = [work EXCEPT ![w] = rec]
At(w, pc)      == work[w].pc = pc
Goto(w, pc)    == To(w, [work[w] EXCEPT !.pc = pc])
Answer(w)      == To(w, Idle)
Counted        == requests < MaxRequests /\ requests' = requests + 1
Begin(w)       == At(w, "idle") /\ Counted

\* DELETE FROM global_users: refused while an account row refers to the user, otherwise
\* credentials cascade and persons are set to NULL.
DeleteRow(u) ==
  /\ users' = users \ {u}
  /\ tsuOf' = [tsuOf EXCEPT ![u] = NoTsu]
  /\ person' = [t \in Tsu |-> IF person[t] = u THEN 0 ELSE person[t]]
  /\ creds' = creds \ {u}

\* Save of a new GlobalUser: an INSERT without a TSU account.
InsertUser(w, pc) ==
  /\ nextUser \in UserIds
  /\ users' = users \cup {nextUser} /\ nextUser' = nextUser + 1
  /\ To(w, [work[w] EXCEPT !.pc = pc, !.user = nextUser])
  /\ UNCHANGED <<tsuOf, rows, person, creds, webVars, requests, everAdmin, raced>>

\* UPDATE persons ... WHERE external_id = t AND global_user_id IS NULL
LinkedPerson(u, t) ==
  IF person[t] = 0 /\ u \in users THEN [person EXCEPT ![t] = u] ELSE person

------------------------------------------------------------------------------
(* A message arrives: Service.FindOrCreateUser *)

\* FindByChannelAndPlatformID; the user is read, and the username saved, from this copy.
FindAccount(w, a, renamed) ==
  /\ Begin(w)
  /\ To(w, [Idle EXCEPT !.op = "message", !.acct = {a}, !.row = rows[a].id,
                        !.user = rows[a].user,
                        !.pc = IF rows[a].user = 0 THEN "newUser"
                               ELSE IF renamed THEN "rename" ELSE "readUser"])
  /\ UNCHANGED <<dbVars, webVars, everAdmin, raced>>

\* The account is saved with the owner read before: a merge in between is undone, unless
\* the former owner is gone (a foreign key error that is only logged).
SaveUsername(w) ==
  /\ At(w, "rename") /\ Goto(w, "readUser")
  /\ LET a == CHOOSE x \in work[w].acct : TRUE
         hit == rows[a].user # 0 /\ rows[a].id = work[w].row /\ work[w].user \in users
     IN rows' = IF hit THEN [rows EXCEPT ![a].user = work[w].user] ELSE rows
  /\ UNCHANGED <<users, nextUser, tsuOf, person, creds, webVars, requests, everAdmin, raced>>

ReadUser(w) ==
  /\ At(w, "readUser")
  /\ IF work[w].user \in users THEN Answer(w) ELSE Goto(w, "newUser")
  /\ UNCHANGED <<dbVars, webVars, requests, everAdmin, raced>>

CreateUser(w) == At(w, "newUser") /\ InsertUser(w, "newAccount")

\* The unique (channel, platform id) refuses the second of two first messages: its user
\* row stays behind without an account.
InsertAccount(w) ==
  /\ At(w, "newAccount") /\ Answer(w)
  /\ LET a == CHOOSE x \in work[w].acct : TRUE
     IN rows' = IF rows[a].user = 0 /\ work[w].user \in users
                THEN [rows EXCEPT ![a] = [id |-> @.id + 1, user |-> work[w].user]]
                ELSE rows
  /\ UNCHANGED <<users, nextUser, tsuOf, person, creds, webVars, requests, everAdmin, raced>>

------------------------------------------------------------------------------
(* The TSU flow: StateStore, handleLogin, handleCallback *)

GenerateURL(flow) ==
  /\ nextState \in StateIds
  /\ flows' = [s \in DOMAIN flows \cup {nextState} |->
                 IF s = nextState THEN flow ELSE flows[s]]
  /\ nextState' = nextState + 1
  /\ UNCHANGED <<dbVars, cookie, used, work, requests, everAdmin, raced>>

\* /link of a messenger user
GenerateAuthURL(a) ==
  rows[a].user # 0 /\ GenerateURL([kind |-> "link", user |-> rows[a].user, admin |-> FALSE])

\* GET /api/auth/tsu/start; the return_to either leads into /admin or not.
GenerateLoginURL(toAdmin) ==
  GenerateURL([kind |-> "login", user |-> 0, admin |-> toAdmin])

\* An expired token is refused by Verify and by Consume, deleted by cleanupLoop or not.
ExpireState(s) ==
  /\ s \in DOMAIN flows
  /\ flows' = [x \in DOMAIN flows \ {s} |-> flows[x]]
  /\ UNCHANGED <<dbVars, nextState, cookie, used, work, requests, everAdmin, raced>>

\* GET /oauth/authorize: Verify, then the state goes into the browser's cookie.
HandleLogin(b, s) ==
  /\ s \in DOMAIN flows /\ cookie[b].state # s
  /\ cookie' = [cookie EXCEPT ![b].state = s]
  /\ UNCHANGED <<dbVars, flows, nextState, used, work, requests, everAdmin, raced>>

\* Variant: the token is verified and left in the store.
ConsumeKeeps(s) == UNCHANGED flows

\* Consume: the token is taken out under the mutex, so one callback gets the flow.
Consume(s) == flows' = [x \in DOMAIN flows \ {s} |-> flows[x]]

\* GET /oauth/login: the cookie is cleared by the answer; a second callback of the same
\* browser may be under way with it.
HandleCallback(w, b) ==
  /\ Begin(w) /\ cookie[b].state # 0
  /\ LET s == cookie[b].state IN
     IF s \in DOMAIN flows
     THEN /\ Consume(s)
          /\ used' = [used EXCEPT ![s] = @ + 1]
          /\ To(w, [Idle EXCEPT !.pc = "exchange", !.op = flows[s].kind, !.b = {b},
                                !.user = flows[s].user, !.admin = flows[s].admin])
          /\ UNCHANGED cookie
     ELSE /\ cookie' = [cookie EXCEPT ![b].state = 0]
          /\ UNCHANGED <<work, flows, used>>
  /\ UNCHANGED <<dbVars, nextState, everAdmin, raced>>

Cleared(w) == [b \in Browsers |-> IF b \in work[w].b
                                  THEN [cookie[b] EXCEPT !.state = 0] ELSE cookie[b]]
AnswerCallback(w) == Answer(w) /\ cookie' = Cleared(w)

\* TSU names the account that logged in, or the exchange fails.
ExchangeToken(w) ==
  /\ At(w, "exchange")
  /\ \/ AnswerCallback(w)
     \/ \E t \in Tsu : To(w, [work[w] EXCEPT !.pc = "lookup", !.tsu = t]) /\ UNCHANGED cookie
  /\ UNCHANGED <<dbVars, flows, nextState, used, requests, everAdmin, raced>>

Owners(t) == {u \in users : tsuOf[u] = t}

\* Variant: the request writes without looking for the owner.
LookupSkipped(w) ==
  /\ At(w, "lookup") /\ To(w, [work[w] EXCEPT !.pc = "load", !.to = 0])
  /\ UNCHANGED <<dbVars, webVars, requests, everAdmin, raced>>

\* FindByTsuAccountsID: the id of one owner, then that user is loaded by id.
Lookup(w) ==
  /\ At(w, "lookup")
  /\ \E u \in IF Owners(work[w].tsu) = {} THEN {0} ELSE Owners(work[w].tsu) :
       To(w, [work[w] EXCEPT !.pc = "load", !.to = u])
  /\ UNCHANGED <<dbVars, webVars, requests, everAdmin, raced>>

\* Link and ensureWebUser branch on the owner that was found.
Branch(w) ==
  /\ At(w, "load")
  /\ LET found == IF work[w].to \in users THEN work[w].to ELSE 0
         rec(pc, u) == [work[w] EXCEPT !.pc = pc, !.user = u, !.to = found]
         me == work[w].user
     IN To(w, CASE work[w].op = "login" /\ found # 0 -> rec("autoLink", found)
                [] work[w].op = "login" /\ found = 0 -> rec("newWebUser", 0)
                [] work[w].op = "link" /\ found = me -> rec("linkSame", me)
                [] work[w].op = "link" /\ found \notin {0, me} -> rec("accounts", me)
                [] OTHER -> rec("setTsu", me))
  /\ UNCHANGED <<dbVars, webVars, requests, everAdmin, raced>>

CreateWebUser(w) == At(w, "newWebUser") /\ InsertUser(w, "setTsu")

\* Another request that looked the same TSU account up and has not written yet.
InFlight(w, t) ==
  \E v \in Workers \ {w} : work[v].tsu = t /\ work[v].pc \in {"load", "newWebUser", "linkSame", "setTsu"}

\* linkSameUser links the person before this statement, the others after it.
LinkSame(w) ==
  /\ At(w, "linkSame") /\ Goto(w, "setTsu")
  /\ person' = LinkedPerson(work[w].user, work[w].tsu)
  /\ UNCHANGED <<users, nextUser, tsuOf, rows, creds, webVars, requests, everAdmin, raced>>

SetTsuAccountsID(w) ==
  /\ At(w, "setTsu")
  /\ LET u == work[w].user  t == work[w].tsu IN
     IF u \in users
     THEN /\ tsuOf' = [tsuOf EXCEPT ![u] = t]
          /\ raced' = IF InFlight(w, t) THEN raced \cup {t} ELSE raced
          /\ Goto(w, "autoLink") /\ UNCHANGED cookie
     ELSE AnswerCallback(w) /\ UNCHANGED <<tsuOf, raced>>
  /\ UNCHANGED <<users, nextUser, rows, person, creds, flows, nextState, used, requests, everAdmin>>

\* autoLinkPerson; its error is only logged.
AutoLinkPerson(w) ==
  /\ At(w, "autoLink")
  /\ person' \in {person, LinkedPerson(IF work[w].to = 0 THEN work[w].user ELSE work[w].to, work[w].tsu)}
  /\ IF work[w].op = "login" THEN Goto(w, "session") /\ UNCHANGED cookie ELSE AnswerCallback(w)
  /\ UNCHANGED <<users, nextUser, tsuOf, rows, creds, flows, nextState, used, requests, everAdmin, raced>>

\* mergeInto: the accounts are read, then saved one by one with the new owner.
ReadAccounts(w) ==
  /\ At(w, "accounts")
  /\ To(w, [work[w] EXCEPT !.pc = "move",
              !.left = {<<a, rows[a].id>> : a \in {x \in Accounts : rows[x].user = work[w].user}}])
  /\ UNCHANGED <<dbVars, webVars, requests, everAdmin, raced>>

MoveAccount(w) ==
  /\ At(w, "move")
  /\ \E p \in work[w].left :
       LET a == p[1]  hit == rows[a].user # 0 /\ rows[a].id = p[2] IN
       IF hit /\ work[w].to \notin users
       THEN AnswerCallback(w) /\ UNCHANGED rows
       ELSE /\ rows' = IF hit THEN [rows EXCEPT ![a].user = work[w].to] ELSE rows
            /\ To(w, [work[w] EXCEPT !.left = @ \ {p}]) /\ UNCHANGED cookie
  /\ UNCHANGED <<users, nextUser, tsuOf, person, creds, flows, nextState, used, requests, everAdmin, raced>>

\* The emptied user is deleted; a refusal is only logged.
DeleteOrphan(w) ==
  /\ At(w, "move") /\ work[w].left = {}
  /\ Goto(w, "autoLink")
  /\ IF \E a \in Accounts : rows[a].user = work[w].user
     THEN UNCHANGED <<users, tsuOf, person, creds>>
     ELSE DeleteRow(work[w].user)
  /\ UNCHANGED <<nextUser, rows, webVars, requests, everAdmin, raced>>

HasUser(u) == u \in creds

\* Variant: the console cookie is set without asking for the credentials.
LoginCookiesUnchecked(c, u, toAdmin) ==
  [c EXCEPT !.state = 0, !.user = u, !.admin = IF toAdmin THEN u ELSE @]

\* The session cookies a web login answers with.
LoginCookies(c, u, toAdmin) ==
  [c EXCEPT !.state = 0, !.user = u,
            !.admin = IF ~toAdmin THEN @ ELSE IF HasUser(u) THEN u ELSE 0]

SetSession(w) ==
  /\ At(w, "session") /\ Answer(w)
  /\ cookie' = [b \in Browsers |-> IF b \in work[w].b
                  THEN LoginCookies(cookie[b], work[w].user, work[w].admin) ELSE cookie[b]]
  /\ UNCHANGED <<dbVars, flows, nextState, used, requests, everAdmin, raced>>

------------------------------------------------------------------------------
(* Administrators *)

\* AdminAuthMiddleware.Wrap: without any credentials the API is open (initial setup),
\* otherwise it takes a console cookie or the API key.
Wrap == creds = {} \/ ApiKey \/ \E b \in Browsers : cookie[b].admin # 0

Authenticate(u) == u \in creds

\* POST /api/admin/auth/login with an email and password of u.
AdminLogin(b, u) ==
  /\ Counted /\ Authenticate(u) /\ cookie[b].admin # u
  /\ cookie' = [cookie EXCEPT ![b].admin = u, ![b].user = u]
  /\ UNCHANGED <<dbVars, flows, nextState, used, work, everAdmin, raced>>

\* POST /api/auth/logout clears one cookie, the console's logout both; expiry likewise.
UserLogout(b)  == [cookie EXCEPT ![b].user = 0]
AdminLogout(b) == [cookie EXCEPT ![b].user = 0, ![b].admin = 0]

Logout(b) ==
  /\ Counted /\ cookie' \in {UserLogout(b), AdminLogout(b)} /\ cookie' # cookie
  /\ UNCHANGED <<dbVars, flows, nextState, used, work, everAdmin, raced>>

\* INSERT INTO admin_credentials: one row per user.
Create(u) ==
  /\ u \in users \ creds
  /\ creds' = creds \cup {u} /\ everAdmin' = everAdmin \cup {u}

\* POST /api/admin/admins: the row first, then the mail with a generated password.
HandleCreate(w, u, generated) ==
  /\ Begin(w) /\ Wrap /\ Create(u)
  /\ IF generated THEN To(w, [Idle EXCEPT !.pc = "mail", !.user = u]) ELSE UNCHANGED work
  /\ UNCHANGED <<users, nextUser, tsuOf, rows, person, webVars, raced>>

\* A mail that cannot be sent takes the credentials back.
SendAdminCredentials(w) ==
  /\ At(w, "mail") /\ Answer(w)
  /\ creds' \in {creds, creds \ {work[w].user}}
  /\ UNCHANGED <<users, nextUser, tsuOf, rows, person, webVars, requests, everAdmin, raced>>

RequireSameAdminUser(b, u) == cookie[b].admin = u

\* DELETE /api/admin/admins/{userId}: only one's own.  The session cookie stays valid.
HandleDelete(b, u) ==
  /\ Counted /\ RequireSameAdminUser(b, u) /\ u \in creds
  /\ creds' = creds \ {u}
  /\ UNCHANGED <<users, nextUser, tsuOf, rows, person, webVars, work, everAdmin, raced>>

\* Accounts and user go in one transaction.
DeleteUser(u) ==
  /\ u \in users /\ DeleteRow(u)
  /\ rows' = [a \in Accounts |-> IF rows[a].user = u THEN [rows[a] EXCEPT !.user = 0] ELSE rows[a]]

HandleDeleteUser(u) ==
  /\ Counted /\ Wrap /\ DeleteUser(u)
  /\ UNCHANGED <<nextUser, webVars, work, everAdmin, raced>>

UnlinkAccount(a) == rows[a].user # 0 /\ rows' = [rows EXCEPT ![a].user = 0]

HandleUnlinkAccount(a) ==
  /\ Counted /\ Wrap /\ UnlinkAccount(a)
  /\ UNCHANGED <<users, nextUser, tsuOf, person, creds, webVars, work, everAdmin, raced>>

LinkPerson(u, t) == u \in users /\ person[t] = 0 /\ person' = [person EXCEPT ![t] = u]

HandleLinkPerson(u, t) ==
  /\ Counted /\ Wrap /\ LinkPerson(u, t)
  /\ UNCHANGED <<users, nextUser, tsuOf, rows, creds, webVars, work, everAdmin, raced>>

UnlinkPerson(u) == person' = [t \in Tsu |-> IF person[t] = u THEN 0 ELSE person[t]]

HandleUnlinkPerson(u) ==
  /\ Counted /\ Wrap /\ UnlinkPerson(u) /\ person' # person
  /\ UNCHANGED <<users, nextUser, tsuOf, rows, creds, webVars, work, everAdmin, raced>>

RequestStep(w) ==
  \/ SaveUsername(w) \/ ReadUser(w) \/ CreateUser(w) \/ InsertAccount(w)
  \/ ExchangeToken(w) \/ Lookup(w) \/ Branch(w) \/ CreateWebUser(w) \/ LinkSame(w)
  \/ SetTsuAccountsID(w) \/ AutoLinkPerson(w) \/ ReadAccounts(w) \/ MoveAccount(w)
  \/ DeleteOrphan(w) \/ SetSession(w) \/ SendAdminCredentials(w)

IdentityNext ==
  \/ \E w \in Workers :
       \/ RequestStep(w)
       \/ \E a \in Accounts, r \in BOOLEAN : FindAccount(w, a, r)
       \/ \E b \in Browsers : HandleCallback(w, b)
       \/ \E u \in users, g \in BOOLEAN : HandleCreate(w, u, g)
  \/ \E a \in Accounts : GenerateAuthURL(a) \/ HandleUnlinkAccount(a)
  \/ \E f \in BOOLEAN : GenerateLoginURL(f)
  \/ \E s \in StateIds : ExpireState(s) \/ \E b \in Browsers : HandleLogin(b, s)
  \/ \E b \in Browsers : Logout(b) \/ \E u \in users : AdminLogin(b, u) \/ HandleDelete(b, u)
  \/ \E u \in users : HandleDeleteUser(u) \/ HandleUnlinkPerson(u)
  \/ \E u \in users, t \in Tsu : HandleLinkPerson(u, t)

IdentitySpec == IdentityInit /\ [][IdentityNext]_identityVars

------------------------------------------------------------------------------
(* Properties *)

(* Link and ensureWebUser look a TSU account up before they write it, and the schema has *)
(* no unique constraint: as long as no two requests for one account overlap between the  *)
(* lookup and the write, an account of TSU has one user, through merges, relinks,        *)
(* deletions and logins in any order.                                                    *)
OneTsuOwner == \A t \in Tsu \ raced : Cardinality(Owners(t)) <= 1

(* A state token starts one flow, however many browsers and callbacks carry it: a second *)
(* callback must not link, or log in, with the flow of the first.                        *)
StateUsedOnce == \A s \in StateIds : used[s] <= 1

(* The console cookie is only ever given to a user that had credentials: a TSU login     *)
(* that returns to /admin must not grant it, whatever happened to the user meanwhile.    *)
AdminSessionsEarned == \A b \in Browsers : cookie[b].admin \in everAdmin \cup {0}

=============================================================================
