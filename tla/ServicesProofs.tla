---------------------------- MODULE ServicesProofs ----------------------------
(***************************************************************************)
(* Proofs about logins and administrators, for any number of requests,     *)
(* browsers, accounts and users: a state token starts one flow, the cookie *)
(* of the console is earned, and an account of TSU has one owner unless    *)
(* two requests raced for it; and about the checks of commands and HTTP    *)
(* requests, for any number of replicas, settings, saves and expiries.     *)
(***************************************************************************)
EXTENDS Identity, Access, Integers, FiniteSetTheorems, TLAPS

(* Which fields a request and a cookie have; what is in them matters only  *)
(* where an invariant says so.                                             *)
WorkShape(r) ==
    r \in [pc : {r.pc}, op : {r.op}, acct : {r.acct}, row : {r.row}, user : {r.user}, tsu : {r.tsu},
           to : {r.to}, left : {r.left}, b : {r.b}, admin : {r.admin}]

CookieShape(c) == c \in [state : {c.state}, user : {c.user}, admin : {c.admin}]

(* A callback of the TSU flow serves a login or a link. *)
Kinds == {"login", "link"}
Kinded(r) == r.pc \in {"exchange", "lookup", "load"} => r.op \in Kinds

Shapes ==
    /\ work = [w \in Workers |-> work[w]] /\ \A w \in Workers : WorkShape(work[w]) /\ Kinded(work[w])
    /\ cookie = [b \in Browsers |-> cookie[b]] /\ \A b \in Browsers : CookieShape(cookie[b])
    /\ tsuOf = [u \in UserIds |-> tsuOf[u]] /\ users \subseteq UserIds

LEMMA WorkGoto ==
  ASSUME NEW r, WorkShape(r), NEW pc, NEW n,
         n = [r EXCEPT !.pc = pc]
  PROVE  WorkShape(n) /\ n.pc = pc /\ n.user = r.user /\ n.tsu = r.tsu /\ n.to = r.to
  BY DEF WorkShape

LEMMA IdleShape == WorkShape(Idle) /\ Idle.pc = "idle" /\ Idle.tsu = NoTsu
  BY DEF WorkShape, Idle

-----------------------------------------------------------------------------
(* State tokens. *)

TokenInv ==
    /\ nextState \in Nat /\ used \in [StateIds -> Nat] /\ DOMAIN flows \subseteq StateIds
    /\ \A s \in DOMAIN flows : used[s] = 0 /\ s < nextState /\ flows[s].kind \in Kinds
    /\ \A s \in StateIds : used[s] <= 1 /\ (s >= nextState => used[s] = 0)

LEMMA TokensLeave ==
  ASSUME TokenInv, UNCHANGED <<nextState, used>>,
         flows' = flows \/ \E s : flows' = [x \in DOMAIN flows \ {s} |-> flows[x]]
  PROVE  TokenInv'
  BY DEF TokenInv

LEMMA TokenIssued ==
  ASSUME TokenInv, NEW f, GenerateURL(f), f.kind \in Kinds
  PROVE  TokenInv'
  <1>1. /\ DOMAIN flows' = DOMAIN flows \cup {nextState} /\ nextState' = nextState + 1
        /\ \A s \in DOMAIN flows' : flows'[s] = IF s = nextState THEN f ELSE flows[s]
        /\ nextState \in StateIds /\ used' = used
    BY DEF GenerateURL
  <1> QED
    BY <1>1 DEF TokenInv, StateIds

(* Consume takes the token out in the step that uses it. *)
LEMMA TokenConsumed ==
  ASSUME TokenInv, NEW w, NEW b, HandleCallback(w, b)
  PROVE  TokenInv'
  <1>1. nextState' = nextState
    BY DEF HandleCallback
  <1>2. CASE cookie[b].state \in DOMAIN flows
    <2>1. PICK s : s = cookie[b].state /\ s \in DOMAIN flows
      BY <1>2
    <2>2. /\ DOMAIN flows' = DOMAIN flows \ {s} /\ used' = [used EXCEPT ![s] = @ + 1]
          /\ \A x \in DOMAIN flows' : flows'[x] = flows[x]
      BY <1>2, <2>1 DEF HandleCallback, Consume
    <2>3. s \in StateIds /\ used[s] = 0 /\ s < nextState
      BY <2>1 DEF TokenInv
    <2>4. used' \in [StateIds -> Nat] /\ used'[s] = 1 /\ \A x \in StateIds : x # s => used'[x] = used[x]
      BY <2>2, <2>3 DEF TokenInv
    <2> QED
      BY <1>1, <2>2, <2>3, <2>4 DEF TokenInv, StateIds
  <1>3. CASE cookie[b].state \notin DOMAIN flows
    BY <1>1, <1>3, TokensLeave DEF HandleCallback
  <1> QED
    BY <1>2, <1>3

-----------------------------------------------------------------------------
(* Cookies of the console. *)

AdminInv == creds \subseteq everAdmin /\ AdminSessionsEarned

LEMMA AdminsKept ==
  ASSUME AdminInv, creds' \subseteq creds, everAdmin' = everAdmin,
         \A b \in Browsers : cookie'[b].admin \in {cookie[b].admin, 0} \cup creds
  PROVE  AdminInv'
  BY DEF AdminInv, AdminSessionsEarned

LEMMA CookieFields ==
  ASSUME NEW c, CookieShape(c), NEW u, NEW s
  PROVE  /\ LET n == [c EXCEPT !.state = s] IN CookieShape(n) /\ n.admin = c.admin
         /\ LET n == [c EXCEPT !.user = u] IN CookieShape(n) /\ n.admin = c.admin
         /\ LET n == [c EXCEPT !.admin = u, !.user = u] IN CookieShape(n) /\ n.admin = u
         /\ LET n == [c EXCEPT !.user = 0, !.admin = 0] IN CookieShape(n) /\ n.admin = 0
         /\ \A f : LET n == LoginCookies(c, u, f)
                   IN  CookieShape(n) /\ (n.admin \in {c.admin, 0} \/ (n.admin = u /\ HasUser(u)))
  <1>1. /\ LET n == [c EXCEPT !.state = s] IN CookieShape(n) /\ n.admin = c.admin
        /\ LET n == [c EXCEPT !.user = u] IN CookieShape(n) /\ n.admin = c.admin
        /\ LET n == [c EXCEPT !.admin = u, !.user = u] IN CookieShape(n) /\ n.admin = u
        /\ LET n == [c EXCEPT !.user = 0, !.admin = 0] IN CookieShape(n) /\ n.admin = 0
    BY DEF CookieShape
  <1>2. ASSUME NEW f
        PROVE  LET n == LoginCookies(c, u, f)
               IN  CookieShape(n) /\ (n.admin \in {c.admin, 0} \/ (n.admin = u /\ HasUser(u)))
    <2> DEFINE adm == IF ~f THEN c.admin ELSE IF HasUser(u) THEN u ELSE 0
    <2>1. LoginCookies(c, u, f) = [c EXCEPT !.state = 0, !.user = u, !.admin = adm]
      BY DEF LoginCookies
    <2>2. adm \in {c.admin, 0} \/ (adm = u /\ HasUser(u))
      OBVIOUS
    <2> HIDE DEF adm
    <2>3. LET n == [c EXCEPT !.state = 0, !.user = u, !.admin = adm] IN CookieShape(n) /\ n.admin = adm
      BY DEF CookieShape
    <2> QED
      BY <2>1, <2>2, <2>3
  <1> QED
    BY <1>1, <1>2

(* What a step may do to the cookies: all of them keep their shape, and    *)
(* one that has the console gets it from the credentials.                  *)
CookiesMove ==
    /\ cookie' = [b \in Browsers |-> cookie'[b]] /\ \A b \in Browsers : CookieShape(cookie'[b])
    /\ \A b \in Browsers : cookie'[b].admin \in {cookie[b].admin, 0} \cup creds

LEMMA CookiesStay ==
  ASSUME Shapes, cookie' = cookie
  PROVE  CookiesMove
  BY DEF Shapes, CookiesMove

LEMMA OneCookieMoves ==
  ASSUME Shapes, NEW b \in Browsers, NEW n, cookie' = [cookie EXCEPT ![b] = n], CookieShape(n),
         n.admin \in {cookie[b].admin, 0} \cup creds
  PROVE  CookiesMove
  <1>1. cookie'[b] = n /\ \A d \in Browsers : d # b => cookie'[d] = cookie[d]
    BY DEF Shapes
  <1>2. cookie' = [d \in Browsers |-> cookie'[d]]
    BY DEF Shapes
  <1> QED
    BY <1>1, <1>2 DEF Shapes, CookiesMove

LEMMA ClearedMoves ==
  ASSUME Shapes, NEW w, cookie' = Cleared(w)
  PROVE  CookiesMove
  <1>1. \A b \in Browsers : cookie'[b] = IF b \in work[w].b THEN [cookie[b] EXCEPT !.state = 0] ELSE cookie[b]
    BY DEF Cleared
  <1>2. ASSUME NEW b \in Browsers
        PROVE  CookieShape(cookie'[b]) /\ cookie'[b].admin = cookie[b].admin
    <2>1. CookieShape(cookie[b])
      BY DEF Shapes
    <2>2. LET n == [cookie[b] EXCEPT !.state = 0] IN CookieShape(n) /\ n.admin = cookie[b].admin
      BY <2>1, CookieFields
    <2> QED
      BY <1>1, <2>1, <2>2
  <1>3. cookie' = [b \in Browsers |-> cookie'[b]]
    BY DEF Cleared
  <1> QED
    BY <1>2, <1>3 DEF CookiesMove

LEMMA SessionMoves ==
  ASSUME Shapes, NEW w, SetSession(w)
  PROVE  CookiesMove
  <1>1. \A b \in Browsers : cookie'[b] = IF b \in work[w].b THEN LoginCookies(cookie[b], work[w].user, work[w].admin)
                                         ELSE cookie[b]
    BY DEF SetSession
  <1>2. ASSUME NEW b \in Browsers
        PROVE  CookieShape(cookie'[b]) /\ cookie'[b].admin \in {cookie[b].admin, 0} \cup creds
    <2>1. CookieShape(cookie[b])
      BY SMTT(30) DEF Shapes
    <2>2. LET n == LoginCookies(cookie[b], work[w].user, work[w].admin)
          IN  CookieShape(n) /\ (n.admin \in {cookie[b].admin, 0} \/ (n.admin = work[w].user /\ HasUser(work[w].user)))
      BY <2>1, CookieFields
    <2> QED
      BY <1>1, <2>1, <2>2 DEF HasUser
  <1>3. cookie' = [b \in Browsers |-> cookie'[b]]
    BY DEF SetSession
  <1> QED
    BY <1>2, <1>3 DEF CookiesMove

-----------------------------------------------------------------------------
(* Owners of TSU accounts.  What a request saw when it looked its account  *)
(* up is still the case until it writes, or the account has been raced     *)
(* for.                                                                    *)

Informed(r) == r.tsu \in Tsu \ raced =>
    /\ r.pc = "load" => Owners(r.tsu) \subseteq {r.to}
    /\ r.pc = "newWebUser" => Owners(r.tsu) = {}
    /\ r.pc \in {"linkSame", "setTsu"} => Owners(r.tsu) \subseteq {r.user}

OwnerInv ==
    /\ \A u \in UserIds \ users : tsuOf[u] = NoTsu
    /\ \A t \in Tsu \ raced : \A u, v \in Owners(t) : u = v
    /\ \A w \in Workers : Informed(work[w])

Untracked(pc) == pc \notin {"load", "newWebUser", "linkSame", "setTsu"}

LEMMA UntrackedInformed ==
  ASSUME NEW r, Untracked(r.pc)
  PROVE  Informed(r)
  BY DEF Untracked, Informed

(* Users appear without an account of TSU and disappear with it. *)
UsersMove ==
    \/ UNCHANGED <<users, tsuOf>>
    \/ nextUser \in UserIds /\ users' = users \cup {nextUser} /\ tsuOf' = tsuOf
    \/ \E u : users' = users \ {u} /\ tsuOf' = [tsuOf EXCEPT ![u] = NoTsu]

LEMMA UsersMoved ==
  ASSUME Shapes, OwnerInv, UsersMove, raced' = raced
  PROVE  /\ \A u \in UserIds \ users' : tsuOf'[u] = NoTsu
         /\ \A t \in Tsu : Owners(t)' \subseteq Owners(t)
         /\ users' \subseteq UserIds /\ tsuOf' = [u \in UserIds |-> tsuOf'[u]]
         /\ \A r : Informed(r) => Informed(r)'
  <1>1. /\ \A u \in UserIds \ users' : tsuOf'[u] = NoTsu
        /\ \A t \in Tsu : Owners(t)' \subseteq Owners(t)
        /\ users' \subseteq UserIds /\ tsuOf' = [u \in UserIds |-> tsuOf'[u]]
    <2>1. CASE UNCHANGED <<users, tsuOf>>
      BY <2>1 DEF Shapes, OwnerInv, Owners
    <2>2. CASE nextUser \in UserIds /\ users' = users \cup {nextUser} /\ tsuOf' = tsuOf
      <3>1. \A t \in Tsu : Owners(t)' \subseteq Owners(t)
        BY <2>2, IdentityAssumption DEF Shapes, OwnerInv, Owners
      <3> QED
        BY <2>2, <3>1 DEF Shapes, OwnerInv
    <2>3. ASSUME NEW u, users' = users \ {u}, tsuOf' = [tsuOf EXCEPT ![u] = NoTsu]
          PROVE  /\ \A x \in UserIds \ users' : tsuOf'[x] = NoTsu
                 /\ \A t \in Tsu : Owners(t)' \subseteq Owners(t)
                 /\ users' \subseteq UserIds /\ tsuOf' = [x \in UserIds |-> tsuOf'[x]]
      <3>1. \A x \in UserIds : tsuOf'[x] = IF x = u THEN NoTsu ELSE tsuOf[x]
        BY <2>3 DEF Shapes
      <3>2. tsuOf' = [x \in UserIds |-> tsuOf'[x]]
        BY <2>3 DEF Shapes
      <3> QED
        BY <2>3, <3>1, <3>2 DEF Shapes, OwnerInv, Owners
    <2> QED
      BY <2>1, <2>2, <2>3 DEF UsersMove
  <1>2. ASSUME NEW r, Informed(r)
        PROVE  Informed(r)'
    <2>1. r.tsu \in Tsu => Owners(r.tsu)' \subseteq Owners(r.tsu)
      BY <1>1
    <2> QED
      BY <1>2, <2>1 DEF Informed
  <1> QED
    BY <1>1, <1>2

LEMMA RequestOwners ==
  ASSUME Shapes, OwnerInv, UsersMove, raced' = raced, NEW w \in Workers, NEW r,
         work' = [work EXCEPT ![w] = r], WorkShape(r), Kinded(r), Informed(r)
  PROVE  OwnerInv' /\ (CookiesMove => Shapes')
  <1>1. work'[w] = r /\ (\A v \in Workers : v # w => work'[v] = work[v]) /\ work' = [v \in Workers |-> work'[v]]
    BY DEF Shapes
  <1>2. /\ \A u \in UserIds \ users' : tsuOf'[u] = NoTsu
        /\ \A t \in Tsu : Owners(t)' \subseteq Owners(t)
        /\ users' \subseteq UserIds /\ tsuOf' = [u \in UserIds |-> tsuOf'[u]]
        /\ \A n : Informed(n) => Informed(n)'
    BY UsersMoved
  <1>3. Informed(r)' /\ \A v \in Workers : Informed(work[v]) => v = w \/ Informed(work[v])'
    <2>1. ASSUME NEW v \in Workers, v # w, Informed(work[v])
          PROVE  Informed(work[v])'
      <3>1. PICK n : n = work[v]
        OBVIOUS
      <3>2. Informed(n)' /\ work'[v] = n
        BY <1>1, <1>2, <2>1, <3>1
      <3> QED
        BY <3>2 DEF Informed
    <2> QED
      BY <1>2, <2>1
  <1>4. \A v \in Workers : Informed(work[v])'
    <2>1. Informed(work[w])'
      BY <1>1, <1>3 DEF Informed
    <2> QED
      BY <1>3, <2>1 DEF OwnerInv
  <1>5. OwnerInv'
    BY <1>2, <1>4 DEF OwnerInv
  <1> QED
    BY <1>1, <1>2, <1>5 DEF Shapes, CookiesMove

LEMMA OtherOwners ==
  ASSUME Shapes, OwnerInv, UsersMove, raced' = raced, work' = work
  PROVE  OwnerInv' /\ (CookiesMove => Shapes')
  <1>1. /\ \A u \in UserIds \ users' : tsuOf'[u] = NoTsu
        /\ \A t \in Tsu : Owners(t)' \subseteq Owners(t)
        /\ users' \subseteq UserIds /\ tsuOf' = [u \in UserIds |-> tsuOf'[u]]
        /\ \A n : Informed(n) => Informed(n)'
    BY UsersMoved
  <1>2. ASSUME NEW v \in Workers
        PROVE  Informed(work[v])'
    <2>1. PICK n : n = work[v]
      OBVIOUS
    <2>2. Informed(n)' /\ work'[v] = n
      BY <1>1, <2>1 DEF OwnerInv
    <2> QED
      BY <2>2 DEF Informed
  <1>3. OwnerInv'
    BY <1>1, <1>2 DEF OwnerInv
  <1> QED
    BY <1>1, <1>3 DEF Shapes, CookiesMove

(* SetTsuAccountsID: the other requests that had looked the account up     *)
(* make it raced.                                                          *)
LEMMA WriteOwner ==
  ASSUME Shapes, OwnerInv, NEW w \in Workers, SetTsuAccountsID(w), work[w].user \in users
  PROVE  OwnerInv' /\ Shapes'
  <1>1. PICK u, t : u = work[w].user /\ t = work[w].tsu
    OBVIOUS
  <1>2. PICK r : r = [work[w] EXCEPT !.pc = "autoLink"]
    OBVIOUS
  <1>3. /\ work[w].pc = "setTsu" /\ u \in users /\ users' = users /\ tsuOf' = [tsuOf EXCEPT ![u] = t]
        /\ raced' = (IF InFlight(w, t) THEN raced \cup {t} ELSE raced)
        /\ work' = [work EXCEPT ![w] = r] /\ cookie' = cookie
    BY <1>1, <1>2 DEF SetTsuAccountsID, At, Goto, To
  <1>4. WorkShape(r) /\ r.pc = "autoLink" /\ Kinded(r)
    <2>1. WorkShape(work[w])
      BY DEF Shapes
    <2> QED
      BY <1>2, <2>1, WorkGoto DEF Kinded
  <1>5. work'[w] = r /\ (\A v \in Workers : v # w => work'[v] = work[v]) /\ work' = [v \in Workers |-> work'[v]]
    BY <1>3 DEF Shapes
  <1>6. /\ \A x \in UserIds : tsuOf'[x] = IF x = u THEN t ELSE tsuOf[x]
        /\ tsuOf' = [x \in UserIds |-> tsuOf'[x]]
    BY <1>3 DEF Shapes
  <1>7. Shapes'
    BY <1>3, <1>4, <1>5, <1>6 DEF Shapes
  <1>8. \A x \in Tsu : x # t => Owners(x)' \subseteq Owners(x)
    BY <1>3, <1>6 DEF Owners, Shapes
  <1>9. t \in Tsu \ raced => Owners(t)' \subseteq {u}
    <2>1. Informed(work[w])
      BY DEF OwnerInv
    <2>2. t \in Tsu \ raced => Owners(t) \subseteq {u}
      BY <1>1, <1>3, <2>1 DEF Informed
    <2> QED
      BY <1>3, <1>6, <2>2 DEF Owners, Shapes
  <1>10. raced \subseteq raced'
    BY <1>3
  <1>11. ASSUME NEW v \in Workers
         PROVE  Informed(work[v])'
    <2>1. CASE v = w
      BY <1>4, <1>5, <2>1 DEF Informed
    <2>2. CASE v # w /\ work[v].tsu = t
      <3>1. CASE Untracked(work[v].pc)
        BY <1>5, <2>2, <3>1 DEF Informed, Untracked
      <3>2. CASE ~Untracked(work[v].pc)
        <4>1. InFlight(w, t)
          BY <2>2, <3>2 DEF InFlight, Untracked
        <4> QED
          BY <1>3, <1>5, <2>2, <4>1 DEF Informed
      <3> QED
        BY <3>1, <3>2
    <2>3. CASE v # w /\ work[v].tsu # t
      <3>1. Informed(work[v]) /\ work'[v] = work[v]
        BY <1>5, <2>3 DEF OwnerInv
      <3>2. work[v].tsu \in Tsu => Owners(work[v].tsu)' \subseteq Owners(work[v].tsu)
        <4>1. PICK x : x = work[v].tsu
          OBVIOUS
        <4>2. x \in Tsu => Owners(x)' \subseteq Owners(x)
          BY <1>8, <2>3, <4>1
        <4> QED
          BY <3>1, <4>1, <4>2 DEF Owners
      <3> QED
        BY <1>10, <3>1, <3>2 DEF Informed
    <2> QED
      BY <2>1, <2>2, <2>3
  <1>12. ASSUME NEW x \in Tsu \ raced', NEW a \in Owners(x)', NEW b \in Owners(x)'
         PROVE  a = b
    <2>1. CASE x = t
      BY <1>9, <1>10, <1>12, <2>1
    <2>2. CASE x # t
      BY <1>8, <1>10, <1>12, <2>2 DEF OwnerInv
    <2> QED
      BY <2>1, <2>2
  <1>13. \A x \in UserIds \ users' : tsuOf'[x] = NoTsu
    BY <1>3, <1>6 DEF OwnerInv
  <1> QED
    BY <1>7, <1>11, <1>12, <1>13 DEF OwnerInv

-----------------------------------------------------------------------------
(* The steps of a request. *)

RequestMove(w) ==
    /\ UsersMove /\ raced' = raced /\ CookiesMove
    /\ \E r : work' = [work EXCEPT ![w] = r] /\ WorkShape(r) /\ Kinded(r) /\ Informed(r)

Apart(pc) == Untracked(pc) /\ pc \notin {"exchange", "lookup"}

LEMMA ApartInformed ==
  ASSUME NEW r, Apart(r.pc)
  PROVE  Informed(r) /\ Kinded(r)
  BY UntrackedInformed DEF Apart, Untracked, Kinded

LEMMA GotoMove ==
  ASSUME Shapes, NEW w \in Workers, NEW pc, Goto(w, pc), Apart(pc), UsersMove, raced' = raced, CookiesMove
  PROVE  RequestMove(w)
  <1>1. PICK r : r = [work[w] EXCEPT !.pc = pc]
    OBVIOUS
  <1>2. WorkShape(r) /\ r.pc = pc
    BY <1>1, WorkGoto DEF Shapes
  <1>3. work' = [work EXCEPT ![w] = r]
    BY <1>1 DEF Goto, To
  <1> QED
    BY <1>2, <1>3, ApartInformed DEF RequestMove

LEMMA AnswerMove ==
  ASSUME NEW w \in Workers, Answer(w), UsersMove, raced' = raced, CookiesMove
  PROVE  RequestMove(w)
  <1>1. WorkShape(Idle) /\ Kinded(Idle) /\ Informed(Idle)
    BY IdleShape, ApartInformed DEF Untracked, Apart
  <1> HIDE DEF Idle
  <1> QED
    BY <1>1 DEF RequestMove, Answer, To

LEMMA SameUsers ==
  ASSUME UNCHANGED <<users, tsuOf>>
  PROVE  UsersMove
  BY DEF UsersMove

LEMMA MessageMove ==
  ASSUME Shapes, NEW w \in Workers, SaveUsername(w) \/ ReadUser(w) \/ CreateUser(w) \/ InsertAccount(w)
  PROVE  RequestMove(w)
  <1>1. cookie' = cookie /\ raced' = raced
    BY DEF SaveUsername, ReadUser, CreateUser, InsertAccount, InsertUser, webVars
  <1>2. CookiesMove
    BY <1>1, CookiesStay
  <1>3. Apart("readUser") /\ Apart("newUser") /\ Apart("newAccount")
    BY DEF Untracked, Apart
  <1>4. CASE SaveUsername(w)
    BY <1>1, <1>2, <1>3, <1>4, GotoMove, SameUsers DEF SaveUsername
  <1>5. CASE ReadUser(w)
    <2>1. Answer(w) \/ Goto(w, "newUser")
      BY <1>5 DEF ReadUser
    <2>2. UsersMove
      BY <1>5, SameUsers DEF ReadUser, dbVars
    <2> QED
      BY <1>1, <1>2, <1>3, <2>1, <2>2, GotoMove, AnswerMove
  <1>6. CASE InsertAccount(w)
    BY <1>1, <1>2, <1>6, AnswerMove, SameUsers DEF InsertAccount
  <1>7. CASE CreateUser(w)
    <2>1. PICK r : r = [work[w] EXCEPT !.pc = "newAccount", !.user = nextUser]
      OBVIOUS
    <2>0. WorkShape(work[w])
      BY DEF Shapes
    <2>2. WorkShape(r) /\ r.pc = "newAccount"
      BY <2>0, <2>1 DEF WorkShape
    <2>3. work' = [work EXCEPT ![w] = r] /\ UsersMove
      BY <1>7, <2>1 DEF CreateUser, InsertUser, To, UsersMove
    <2> QED
      BY <1>1, <1>2, <1>3, <2>2, <2>3, ApartInformed DEF RequestMove
  <1> QED
    BY <1>4, <1>5, <1>6, <1>7

(* What a request looks up is what it then knows. *)
LEMMA LookupMove ==
  ASSUME Shapes, OwnerInv, NEW w \in Workers, Lookup(w)
  PROVE  RequestMove(w)
  <1>1. cookie' = cookie /\ raced' = raced /\ UNCHANGED <<users, tsuOf>>
    BY DEF Lookup, dbVars, webVars
  <1>2. PICK o : /\ o \in (IF Owners(work[w].tsu) = {} THEN {0} ELSE Owners(work[w].tsu))
                 /\ To(w, [work[w] EXCEPT !.pc = "load", !.to = o])
    BY DEF Lookup
  <1>3. PICK r : r = [work[w] EXCEPT !.pc = "load", !.to = o]
    OBVIOUS
  <1>0. WorkShape(work[w])
    BY DEF Shapes
  <1>4. WorkShape(r) /\ r.pc = "load" /\ r.op = work[w].op /\ r.to = o /\ r.tsu = work[w].tsu
    BY <1>0, <1>3 DEF WorkShape
  <1>5. work' = [work EXCEPT ![w] = r]
    BY <1>2, <1>3 DEF To
  <1>6. r.tsu \in Tsu \ raced => Owners(r.tsu) \subseteq {r.to}
    BY <1>2, <1>4 DEF OwnerInv
  <1>7. Informed(r) /\ Kinded(r)
    <2>1. Kinded(work[w]) /\ work[w].pc = "lookup"
      BY DEF Shapes, Lookup, At
    <2> QED
      BY <1>4, <1>6, <2>1 DEF Informed, Kinded
  <1> QED
    BY <1>1, <1>4, <1>5, <1>7, CookiesStay, SameUsers DEF RequestMove

(* Link and ensureWebUser go on from the owner they found, if it is still  *)
(* there.                                                                  *)
LEMMA BranchMove ==
  ASSUME Shapes, OwnerInv, NEW w \in Workers, Branch(w)
  PROVE  RequestMove(w)
  <1> DEFINE found == IF work[w].to \in users THEN work[w].to ELSE 0
             me == work[w].user
  <1>1. cookie' = cookie /\ raced' = raced /\ UNCHANGED <<users, tsuOf>> /\ work[w].pc = "load"
    BY DEF Branch, dbVars, webVars, At
  <1>2. WorkShape(work[w]) /\ Informed(work[w]) /\ work[w].op \in {"login", "link"}
    BY <1>1 DEF Shapes, OwnerInv, Kinded, Kinds
  <1>3. work[w].tsu \in Tsu \ raced => Owners(work[w].tsu) \subseteq {found} /\ (found = 0 => Owners(work[w].tsu) = {})
    <2>1. work[w].tsu \in Tsu \ raced => Owners(work[w].tsu) \subseteq {work[w].to}
      BY <1>1, <1>2 DEF Informed
    <2>2. \A o \in Owners(work[w].tsu) : o \in users /\ o # 0
      BY IdentityAssumption DEF Owners, Shapes, UserIds
    <2> QED
      BY <2>1, <2>2
  <1>4. PICK r, pc, user :
           /\ work' = [work EXCEPT ![w] = r] /\ r = [work[w] EXCEPT !.pc = pc, !.user = user, !.to = found]
           /\ pc = "newWebUser" => found = 0
           /\ pc = "linkSame" => user = found
           /\ pc = "setTsu" => found = 0
           /\ pc \in {"autoLink", "newWebUser", "linkSame", "accounts", "setTsu"}
    <2> DEFINE rec(pc, u) == [work[w] EXCEPT !.pc = pc, !.user = u, !.to = found]
    <2>1. To(w, CASE work[w].op = "login" /\ found # 0 -> rec("autoLink", found)
                  [] work[w].op = "login" /\ found = 0 -> rec("newWebUser", 0)
                  [] work[w].op = "link" /\ found = me -> rec("linkSame", me)
                  [] work[w].op = "link" /\ found \notin {0, me} -> rec("accounts", me)
                  [] OTHER -> rec("setTsu", me))
      BY DEF Branch
    <2> HIDE DEF found, rec
    <2>2. \E pc, user :
             /\ To(w, rec(pc, user))
             /\ pc = "newWebUser" => found = 0
             /\ pc = "linkSame" => user = found
             /\ pc = "setTsu" => (found = 0 \/ work[w].op \notin {"login", "link"})
             /\ pc \in {"autoLink", "newWebUser", "linkSame", "accounts", "setTsu"}
      <3>1. CASE work[w].op = "login" /\ found # 0
        BY <2>1, <3>1
      <3>2. CASE work[w].op = "login" /\ found = 0
        BY <2>1, <3>2
      <3>3. CASE work[w].op = "link" /\ found = me
        BY <2>1, <3>3
      <3>4. CASE work[w].op = "link" /\ found \notin {0, me}
        BY <2>1, <3>4
      <3>5. CASE work[w].op = "link" /\ found = 0 /\ found # me
        BY <2>1, <3>5
      <3>6. CASE work[w].op \notin {"login", "link"}
        BY <2>1, <3>6
      <3> QED
        BY <3>1, <3>2, <3>3, <3>4, <3>5, <3>6
    <2> QED
      BY <1>2, <2>2 DEF rec, To
  <1> HIDE DEF found
  <1>5. WorkShape(r) /\ r.pc = pc /\ r.user = user /\ r.tsu = work[w].tsu
    BY <1>2, <1>4 DEF WorkShape
  <1>6. Informed(r) /\ Kinded(r)
    BY <1>3, <1>4, <1>5 DEF Informed, Kinded
  <1> QED
    BY <1>1, <1>4, <1>5, <1>6, CookiesStay, SameUsers DEF RequestMove

LEMMA CallbackAnswered ==
  ASSUME Shapes, NEW w \in Workers, AnswerCallback(w), UsersMove, raced' = raced
  PROVE  RequestMove(w)
  BY ClearedMoves, AnswerMove DEF AnswerCallback

LEMMA ExchangeMove ==
  ASSUME Shapes, OwnerInv, NEW w \in Workers, ExchangeToken(w)
  PROVE  RequestMove(w)
  <1>1. raced' = raced /\ UsersMove
    BY SameUsers DEF ExchangeToken, dbVars
  <1>2. WorkShape(work[w]) /\ work[w].op \in Kinds
    BY DEF Shapes, ExchangeToken, At, Kinded
  <1>3. CASE AnswerCallback(w)
    BY <1>1, <1>3, CallbackAnswered
  <1>4. ASSUME NEW t \in Tsu, To(w, [work[w] EXCEPT !.pc = "lookup", !.tsu = t]), cookie' = cookie
        PROVE  RequestMove(w)
    <2>1. PICK r : r = [work[w] EXCEPT !.pc = "lookup", !.tsu = t]
      OBVIOUS
    <2>2. WorkShape(r) /\ r.pc = "lookup" /\ r.op = work[w].op
      BY <1>2, <2>1 DEF WorkShape
    <2>3. work' = [work EXCEPT ![w] = r]
      BY <1>4, <2>1 DEF To
    <2>4. Informed(r) /\ Kinded(r)
      BY <1>2, <2>2 DEF Informed, Kinded
    <2> QED
      BY <1>1, <1>4, <2>2, <2>3, <2>4, CookiesStay DEF RequestMove
  <1> QED
    BY <1>3, <1>4 DEF ExchangeToken

(* ensureWebUser inserts a user while nobody owns the account. *)
LEMMA WebUserMove ==
  ASSUME Shapes, OwnerInv, NEW w \in Workers, CreateWebUser(w)
  PROVE  RequestMove(w)
  <1>1. raced' = raced /\ cookie' = cookie /\ UsersMove /\ work[w].pc = "newWebUser"
    BY DEF CreateWebUser, InsertUser, webVars, UsersMove, At
  <1>2. WorkShape(work[w]) /\ Informed(work[w])
    BY DEF Shapes, OwnerInv
  <1>3. PICK r : r = [work[w] EXCEPT !.pc = "setTsu", !.user = nextUser]
    OBVIOUS
  <1>4. WorkShape(r) /\ r.pc = "setTsu" /\ r.tsu = work[w].tsu
    BY <1>2, <1>3 DEF WorkShape
  <1>5. work' = [work EXCEPT ![w] = r]
    BY <1>3 DEF CreateWebUser, InsertUser, To
  <1>6. Informed(r) /\ Kinded(r)
    BY <1>1, <1>2, <1>4 DEF Informed, Kinded
  <1> QED
    BY <1>1, <1>4, <1>5, <1>6, CookiesStay DEF RequestMove

LEMMA LinkSameMove ==
  ASSUME Shapes, OwnerInv, NEW w \in Workers, LinkSame(w)
  PROVE  RequestMove(w)
  <1>1. raced' = raced /\ cookie' = cookie /\ UsersMove /\ work[w].pc = "linkSame"
    BY SameUsers DEF LinkSame, webVars, At
  <1>2. WorkShape(work[w]) /\ Informed(work[w])
    BY DEF Shapes, OwnerInv
  <1>3. PICK r : r = [work[w] EXCEPT !.pc = "setTsu"]
    OBVIOUS
  <1>4. WorkShape(r) /\ r.pc = "setTsu" /\ r.tsu = work[w].tsu /\ r.user = work[w].user
    BY <1>2, <1>3 DEF WorkShape
  <1>5. work' = [work EXCEPT ![w] = r]
    BY <1>3 DEF LinkSame, Goto, To
  <1>6. Informed(r) /\ Kinded(r)
    BY <1>1, <1>2, <1>4 DEF Informed, Kinded
  <1> QED
    BY <1>1, <1>4, <1>5, <1>6, CookiesStay DEF RequestMove

LEMMA WriteRefused ==
  ASSUME Shapes, NEW w \in Workers, SetTsuAccountsID(w), work[w].user \notin users
  PROVE  RequestMove(w)
  <1>1. AnswerCallback(w) /\ raced' = raced /\ UNCHANGED <<users, tsuOf>>
    BY DEF SetTsuAccountsID
  <1> QED
    BY <1>1, CallbackAnswered, SameUsers

LEMMA AutoLinkMove ==
  ASSUME Shapes, NEW w \in Workers, AutoLinkPerson(w)
  PROVE  RequestMove(w)
  <1>1. raced' = raced /\ UsersMove /\ Apart("session")
    BY SameUsers DEF AutoLinkPerson, Apart, Untracked
  <1>2. (Goto(w, "session") /\ cookie' = cookie) \/ AnswerCallback(w)
    BY DEF AutoLinkPerson
  <1> QED
    BY <1>1, <1>2, CallbackAnswered, GotoMove, CookiesStay

LEMMA ReadAccountsMove ==
  ASSUME Shapes, NEW w \in Workers, ReadAccounts(w)
  PROVE  RequestMove(w)
  <1>1. raced' = raced /\ UsersMove /\ cookie' = cookie
    BY SameUsers DEF ReadAccounts, dbVars, webVars
  <1>2. PICK l : To(w, [work[w] EXCEPT !.pc = "move", !.left = l])
    BY DEF ReadAccounts
  <1>3. PICK r : r = [work[w] EXCEPT !.pc = "move", !.left = l]
    OBVIOUS
  <1>4. WorkShape(work[w])
    BY DEF Shapes
  <1>5. WorkShape(r) /\ r.pc = "move"
    BY <1>3, <1>4 DEF WorkShape
  <1>6. work' = [work EXCEPT ![w] = r]
    BY <1>2, <1>3 DEF To
  <1>7. Informed(r) /\ Kinded(r)
    BY <1>5, ApartInformed DEF Apart, Untracked
  <1> QED
    BY <1>1, <1>5, <1>6, <1>7, CookiesStay DEF RequestMove

LEMMA MoveAccountMove ==
  ASSUME Shapes, NEW w \in Workers, MoveAccount(w)
  PROVE  RequestMove(w)
  <1>1. raced' = raced /\ UsersMove /\ work[w].pc = "move" /\ WorkShape(work[w])
    BY SameUsers DEF MoveAccount, At, Shapes
  <1>2. AnswerCallback(w) \/ \E l : To(w, [work[w] EXCEPT !.left = l]) /\ cookie' = cookie
    BY DEF MoveAccount
  <1>3. CASE AnswerCallback(w)
    BY <1>1, <1>3, CallbackAnswered
  <1>4. ASSUME NEW l, To(w, [work[w] EXCEPT !.left = l]), cookie' = cookie
        PROVE  RequestMove(w)
    <2>1. PICK r : r = [work[w] EXCEPT !.left = l]
      OBVIOUS
    <2>2. WorkShape(r) /\ r.pc = "move"
      BY <1>1, <2>1 DEF WorkShape
    <2>3. work' = [work EXCEPT ![w] = r]
      BY <1>4, <2>1 DEF To
    <2>4. Informed(r) /\ Kinded(r)
      BY <2>2, ApartInformed DEF Apart, Untracked
    <2> QED
      BY <1>1, <1>4, <2>2, <2>3, <2>4, CookiesStay DEF RequestMove
  <1> QED
    BY <1>2, <1>3, <1>4

LEMMA DeleteOrphanMove ==
  ASSUME Shapes, NEW w \in Workers, DeleteOrphan(w)
  PROVE  RequestMove(w)
  <1>1. raced' = raced /\ cookie' = cookie /\ Apart("autoLink") /\ Goto(w, "autoLink")
    BY DEF DeleteOrphan, webVars, Apart, Untracked
  <1>2. UsersMove
    BY DEF DeleteOrphan, DeleteRow, UsersMove
  <1> QED
    BY <1>1, <1>2, GotoMove, CookiesStay

LEMMA SessionMove ==
  ASSUME Shapes, NEW w \in Workers, SetSession(w)
  PROVE  RequestMove(w)
  <1>1. raced' = raced /\ UsersMove /\ Answer(w)
    BY SameUsers DEF SetSession, dbVars
  <1> QED
    BY <1>1, SessionMoves, AnswerMove

LEMMA MailMove ==
  ASSUME Shapes, NEW w \in Workers, SendAdminCredentials(w)
  PROVE  RequestMove(w)
  <1>1. raced' = raced /\ UsersMove /\ Answer(w) /\ cookie' = cookie
    BY SameUsers DEF SendAdminCredentials, webVars
  <1> QED
    BY <1>1, CookiesStay, AnswerMove

(* A request begins. *)
LEMMA FindAccountMove ==
  ASSUME Shapes, NEW w \in Workers, NEW a, NEW x, FindAccount(w, a, x)
  PROVE  RequestMove(w)
  <1>1. raced' = raced /\ UsersMove /\ cookie' = cookie
    BY SameUsers DEF FindAccount, dbVars, webVars
  <1>2. PICK pc : /\ pc \in {"newUser", "rename", "readUser"}
                  /\ To(w, [Idle EXCEPT !.op = "message", !.acct = {a}, !.row = rows[a].id,
                                        !.user = rows[a].user, !.pc = pc])
    BY DEF FindAccount
  <1>3. PICK r : r = [Idle EXCEPT !.op = "message", !.acct = {a}, !.row = rows[a].id,
                                  !.user = rows[a].user, !.pc = pc]
    OBVIOUS
  <1>4. WorkShape(Idle)
    BY IdleShape
  <1> HIDE DEF Idle
  <1>5. WorkShape(r) /\ r.pc = pc
    BY <1>3, <1>4 DEF WorkShape
  <1>6. work' = [work EXCEPT ![w] = r]
    BY <1>2, <1>3 DEF To
  <1>7. Informed(r) /\ Kinded(r)
    BY <1>2, <1>5, ApartInformed DEF Apart, Untracked
  <1> QED
    BY <1>1, <1>5, <1>6, <1>7, CookiesStay DEF RequestMove

OtherMove == UsersMove /\ raced' = raced /\ CookiesMove /\ work' = work

LEMMA CallbackMove ==
  ASSUME Shapes, TokenInv, NEW w \in Workers, NEW b \in Browsers, HandleCallback(w, b)
  PROVE  RequestMove(w) \/ OtherMove
  <1>1. raced' = raced /\ UsersMove
    BY SameUsers DEF HandleCallback, dbVars
  <1>2. CASE cookie[b].state \in DOMAIN flows
    <2>1. PICK s, f : s = cookie[b].state /\ f = flows[s] /\ f.kind \in Kinds
      BY <1>2 DEF TokenInv
    <2>2. PICK r : r = [Idle EXCEPT !.pc = "exchange", !.op = f.kind, !.b = {b},
                                    !.user = f.user, !.admin = f.admin]
      OBVIOUS
    <2>3. work' = [work EXCEPT ![w] = r] /\ cookie' = cookie
      BY <1>2, <2>1, <2>2 DEF HandleCallback, To
    <2>4. WorkShape(Idle)
      BY IdleShape
    <2> HIDE DEF Idle
    <2>5. WorkShape(r) /\ r.pc = "exchange" /\ r.op = f.kind
      BY <2>2, <2>4 DEF WorkShape
    <2>6. Informed(r) /\ Kinded(r)
      BY <2>1, <2>5 DEF Informed, Kinded
    <2> QED
      BY <1>1, <2>3, <2>5, <2>6, CookiesStay DEF RequestMove
  <1>3. CASE cookie[b].state \notin DOMAIN flows
    <2>1. PICK n : n = [cookie[b] EXCEPT !.state = 0]
      OBVIOUS
    <2>2. cookie' = [cookie EXCEPT ![b] = n] /\ work' = work
      BY <1>3, <2>1 DEF HandleCallback
    <2>3. CookieShape(n) /\ n.admin = cookie[b].admin
      BY <2>1 DEF Shapes, CookieShape
    <2>4. CookiesMove
      BY <2>2, <2>3, OneCookieMoves
    <2> QED
      BY <1>1, <2>2, <2>4 DEF OtherMove
  <1> QED
    BY <1>2, <1>3

LEMMA HandleCreateMove ==
  ASSUME Shapes, NEW w \in Workers, NEW u, NEW g, HandleCreate(w, u, g)
  PROVE  RequestMove(w) \/ OtherMove
  <1>1. raced' = raced /\ UsersMove /\ cookie' = cookie
    BY SameUsers DEF HandleCreate, webVars
  <1>2. CASE g
    <2>1. PICK r : r = [Idle EXCEPT !.pc = "mail", !.user = u]
      OBVIOUS
    <2>2. work' = [work EXCEPT ![w] = r]
      BY <1>2, <2>1 DEF HandleCreate, To
    <2>3. WorkShape(Idle)
      BY IdleShape
    <2> HIDE DEF Idle
    <2>4. WorkShape(r) /\ r.pc = "mail"
      BY <2>1, <2>3 DEF WorkShape
    <2>5. Informed(r) /\ Kinded(r)
      BY <2>4, ApartInformed DEF Apart, Untracked
    <2> QED
      BY <1>1, <2>2, <2>4, <2>5, CookiesStay DEF RequestMove
  <1>3. CASE ~g
    BY <1>1, <1>3, CookiesStay DEF HandleCreate, OtherMove
  <1> QED
    BY <1>2, <1>3

(* What happens outside a request. *)
LEMMA TokenMove ==
  ASSUME Shapes,
         \/ \E a \in Accounts : GenerateAuthURL(a)
         \/ \E f \in BOOLEAN : GenerateLoginURL(f)
         \/ \E s \in StateIds : ExpireState(s)
  PROVE  OtherMove
  <1>1. raced' = raced /\ work' = work /\ cookie' = cookie /\ UNCHANGED <<users, tsuOf>>
    BY DEF GenerateAuthURL, GenerateLoginURL, GenerateURL, ExpireState, dbVars
  <1> QED
    BY <1>1, SameUsers, CookiesStay DEF OtherMove

LEMMA CookieMove ==
  ASSUME Shapes, NEW b \in Browsers,
         \/ \E s \in StateIds : HandleLogin(b, s)
         \/ Logout(b)
         \/ \E u \in users : AdminLogin(b, u)
  PROVE  OtherMove
  <1>1. raced' = raced /\ work' = work /\ UNCHANGED <<users, tsuOf>>
    BY DEF HandleLogin, Logout, AdminLogin, dbVars
  <1>2. CookieShape(cookie[b]) /\ cookie = [d \in Browsers |-> cookie[d]]
    BY DEF Shapes
  <1>3. ASSUME NEW s, cookie' = [cookie EXCEPT ![b].state = s]
        PROVE  CookiesMove
    <2>1. PICK n : n = [cookie[b] EXCEPT !.state = s]
      OBVIOUS
    <2>2. CookieShape(n) /\ n.admin = cookie[b].admin
      BY <1>2, <2>1 DEF CookieShape
    <2> QED
      BY <1>3, <2>1, <2>2, OneCookieMoves
  <1>4. ASSUME NEW u \in creds, cookie' = [cookie EXCEPT ![b].admin = u, ![b].user = u]
        PROVE  CookiesMove
    <2>1. PICK n : n = [cookie[b] EXCEPT !.admin = u, !.user = u]
      OBVIOUS
    <2>2. CookieShape(n) /\ n.admin = u
      BY <1>2, <2>1 DEF CookieShape
    <2>3. cookie' = [cookie EXCEPT ![b] = n]
      BY <1>2, <1>4, <2>1
    <2> QED
      BY <2>2, <2>3, OneCookieMoves
  <1>5. ASSUME cookie' = UserLogout(b)
        PROVE  CookiesMove
    <2>1. PICK n : n = [cookie[b] EXCEPT !.user = 0]
      OBVIOUS
    <2>2. CookieShape(n) /\ n.admin = cookie[b].admin
      BY <1>2, <2>1 DEF CookieShape
    <2>3. cookie' = [cookie EXCEPT ![b] = n] /\ n.admin \in {cookie[b].admin, 0} \cup creds
      BY <1>5, <2>1, <2>2 DEF UserLogout
    <2> QED
      BY <2>2, <2>3, OneCookieMoves, Zenon
  <1>6. ASSUME cookie' = AdminLogout(b)
        PROVE  CookiesMove
    <2>1. PICK n : n = [cookie[b] EXCEPT !.user = 0, !.admin = 0]
      OBVIOUS
    <2>2. CookieShape(n) /\ n.admin = 0
      BY <1>2, <2>1 DEF CookieShape
    <2>3. cookie' = [cookie EXCEPT ![b] = n] /\ n.admin \in {cookie[b].admin, 0} \cup creds
      BY <1>2, <1>6, <2>1, <2>2 DEF AdminLogout
    <2> QED
      BY <2>2, <2>3, OneCookieMoves, Zenon
  <1>7. CookiesMove
    <2>1. CASE \E s \in StateIds : HandleLogin(b, s)
      BY <1>3, <2>1 DEF HandleLogin
    <2>2. CASE Logout(b)
      BY <1>5, <1>6, <2>2 DEF Logout
    <2>3. CASE \E u \in users : AdminLogin(b, u)
      <3>1. PICK u \in creds : cookie' = [cookie EXCEPT ![b].admin = u, ![b].user = u]
        BY <2>3 DEF AdminLogin, Authenticate
      <3> QED
        BY <1>4, <3>1, Zenon
    <2> QED
      BY <2>1, <2>2, <2>3
  <1> QED
    BY <1>1, <1>7, SameUsers DEF OtherMove

LEMMA AdministratorMove ==
  ASSUME Shapes,
         \/ \E a \in Accounts : HandleUnlinkAccount(a)
         \/ \E b \in Browsers, u \in users : HandleDelete(b, u)
         \/ \E u \in users : HandleDeleteUser(u) \/ HandleUnlinkPerson(u)
         \/ \E u \in users, t \in Tsu : HandleLinkPerson(u, t)
  PROVE  OtherMove
  <1>1. raced' = raced /\ work' = work /\ cookie' = cookie
    BY DEF HandleUnlinkAccount, HandleDelete, HandleDeleteUser, HandleUnlinkPerson, HandleLinkPerson, webVars
  <1>2. UsersMove
    BY DEF HandleUnlinkAccount, HandleDelete, HandleDeleteUser, HandleUnlinkPerson, HandleLinkPerson,
           DeleteUser, DeleteRow, UsersMove
  <1> QED
    BY <1>1, <1>2, CookiesStay DEF OtherMove

-----------------------------------------------------------------------------
(* Every step. *)

LEMMA RequestSteps ==
  ASSUME Shapes, OwnerInv, NEW w \in Workers, RequestStep(w)
  PROVE  RequestMove(w) \/ (SetTsuAccountsID(w) /\ work[w].user \in users)
  BY MessageMove, ExchangeMove, LookupMove, BranchMove, WebUserMove, LinkSameMove, WriteRefused, AutoLinkMove,
     ReadAccountsMove, MoveAccountMove, DeleteOrphanMove, SessionMove, MailMove
  DEF RequestStep

LEMMA EveryMove ==
  ASSUME Shapes, TokenInv, OwnerInv, IdentityNext
  PROVE  \/ OtherMove
         \/ \E w \in Workers : RequestMove(w) \/ (SetTsuAccountsID(w) /\ work[w].user \in users)
  <1>1. ASSUME NEW w \in Workers,
               \/ RequestStep(w)
               \/ \E a \in Accounts, r \in BOOLEAN : FindAccount(w, a, r)
               \/ \E b \in Browsers : HandleCallback(w, b)
               \/ \E u \in users, g \in BOOLEAN : HandleCreate(w, u, g)
        PROVE  RequestMove(w) \/ OtherMove \/ (SetTsuAccountsID(w) /\ work[w].user \in users)
    BY <1>1, RequestSteps, FindAccountMove, CallbackMove, HandleCreateMove
  <1> QED
    BY <1>1, TokenMove, CookieMove, AdministratorMove DEF IdentityNext

(* One owner and the shapes go together. *)
LEMMA OwnersNext ==
  ASSUME Shapes, TokenInv, OwnerInv, IdentityNext
  PROVE  Shapes' /\ OwnerInv'
  <1>1. CASE OtherMove
    BY <1>1, OtherOwners DEF OtherMove
  <1>2. ASSUME NEW w \in Workers, RequestMove(w)
        PROVE  Shapes' /\ OwnerInv'
    BY <1>2, RequestOwners DEF RequestMove
  <1> QED
    BY <1>1, <1>2, EveryMove, WriteOwner

LEMMA TokensNext ==
  ASSUME TokenInv, IdentityNext
  PROVE  TokenInv'
  <1>1. ASSUME NEW w \in Workers, RequestStep(w)
        PROVE  UNCHANGED <<flows, nextState, used>>
    BY <1>1 DEF RequestStep, SaveUsername, ReadUser, CreateUser, InsertAccount, ExchangeToken, Lookup, Branch,
                CreateWebUser, LinkSame, SetTsuAccountsID, AutoLinkPerson, ReadAccounts, MoveAccount,
                DeleteOrphan, SetSession, SendAdminCredentials, InsertUser, webVars
  <1>2. ASSUME NEW w \in Workers,
               \/ \E a \in Accounts, r \in BOOLEAN : FindAccount(w, a, r)
               \/ \E u \in users, g \in BOOLEAN : HandleCreate(w, u, g)
        PROVE  UNCHANGED <<flows, nextState, used>>
    BY <1>2 DEF FindAccount, HandleCreate, webVars
  <1>3. ASSUME \/ \E a \in Accounts : HandleUnlinkAccount(a)
               \/ \E b \in Browsers, s \in StateIds : HandleLogin(b, s)
               \/ \E b \in Browsers : Logout(b) \/ \E u \in users : AdminLogin(b, u) \/ HandleDelete(b, u)
               \/ \E u \in users : HandleDeleteUser(u) \/ HandleUnlinkPerson(u)
               \/ \E u \in users, t \in Tsu : HandleLinkPerson(u, t)
        PROVE  UNCHANGED <<flows, nextState, used>>
    BY <1>3 DEF HandleUnlinkAccount, HandleLogin, Logout, AdminLogin, HandleDelete, HandleDeleteUser,
                HandleUnlinkPerson, HandleLinkPerson, webVars
  <1>4. ASSUME NEW s \in StateIds, ExpireState(s)
        PROVE  TokenInv'
    BY <1>4, TokensLeave DEF ExpireState
  <1>5. ASSUME NEW a \in Accounts, GenerateAuthURL(a)
        PROVE  TokenInv'
    BY <1>5, TokenIssued DEF GenerateAuthURL, Kinds
  <1>6. ASSUME NEW f \in BOOLEAN, GenerateLoginURL(f)
        PROVE  TokenInv'
    BY <1>6, TokenIssued DEF GenerateLoginURL, Kinds
  <1> QED
    BY <1>1, <1>2, <1>3, <1>4, <1>5, <1>6, TokensLeave, TokenConsumed DEF IdentityNext

(* Credentials are created with their history, and only taken away after.  *)
LEMMA AdminsNext ==
  ASSUME Shapes, TokenInv, OwnerInv, AdminInv, IdentityNext
  PROVE  AdminInv'
  <1>1. ASSUME NEW w \in Workers, NEW u \in users, NEW g \in BOOLEAN, HandleCreate(w, u, g)
        PROVE  AdminInv'
    <2>1. creds' = creds \cup {u} /\ everAdmin' = everAdmin \cup {u} /\ cookie' = cookie
      BY <1>1 DEF HandleCreate, Create, webVars
    <2> QED
      BY <2>1 DEF AdminInv, AdminSessionsEarned
  <1>2. ASSUME creds' \subseteq creds, everAdmin' = everAdmin
        PROVE  AdminInv'
    <2>1. CookiesMove
      <3>1. CASE OtherMove
        BY <3>1 DEF OtherMove
      <3>2. ASSUME NEW w \in Workers, RequestMove(w)
            PROVE  CookiesMove
        BY <3>2 DEF RequestMove
      <3>3. ASSUME NEW w \in Workers, SetTsuAccountsID(w), work[w].user \in users
            PROVE  CookiesMove
        BY <3>3, CookiesStay, SMTT(30) DEF SetTsuAccountsID
      <3> QED
        BY <3>1, <3>2, <3>3, EveryMove
    <2> QED
      BY <1>2, <2>1, AdminsKept DEF CookiesMove
  <1>3. ASSUME NEW w \in Workers,
               \/ RequestStep(w)
               \/ \E a \in Accounts, r \in BOOLEAN : FindAccount(w, a, r)
               \/ \E b \in Browsers : HandleCallback(w, b)
        PROVE  creds' \subseteq creds /\ everAdmin' = everAdmin
    BY <1>3 DEF RequestStep, SaveUsername, ReadUser, CreateUser, InsertAccount, ExchangeToken, Lookup, Branch,
                CreateWebUser, LinkSame, SetTsuAccountsID, AutoLinkPerson, ReadAccounts, MoveAccount,
                DeleteOrphan, SetSession, SendAdminCredentials, InsertUser, DeleteRow, FindAccount,
                HandleCallback, dbVars
  <1>4. ASSUME \/ \E a \in Accounts : GenerateAuthURL(a) \/ HandleUnlinkAccount(a)
               \/ \E f \in BOOLEAN : GenerateLoginURL(f)
               \/ \E s \in StateIds : ExpireState(s) \/ \E b \in Browsers : HandleLogin(b, s)
               \/ \E b \in Browsers : Logout(b) \/ \E u \in users : AdminLogin(b, u) \/ HandleDelete(b, u)
               \/ \E u \in users : HandleDeleteUser(u) \/ HandleUnlinkPerson(u)
               \/ \E u \in users, t \in Tsu : HandleLinkPerson(u, t)
        PROVE  creds' \subseteq creds /\ everAdmin' = everAdmin
    BY <1>4 DEF GenerateAuthURL, HandleUnlinkAccount, GenerateLoginURL, GenerateURL, ExpireState, HandleLogin,
                Logout, AdminLogin, HandleDelete, HandleDeleteUser, HandleUnlinkPerson, HandleLinkPerson,
                DeleteUser, DeleteRow, dbVars
  <1> QED
    BY <1>1, <1>2, <1>3, <1>4 DEF IdentityNext

IdentityInv == Shapes /\ TokenInv /\ OwnerInv /\ AdminInv

LEMMA IdentityStart == IdentityInit => IdentityInv
  <1> SUFFICES ASSUME IdentityInit PROVE IdentityInv
    OBVIOUS
  <1>1. Shapes
    <2>1. WorkShape(Idle) /\ Kinded(Idle)
      BY IdleShape DEF Kinded
    <2>2. \A w \in Workers : work[w] = Idle
      BY DEF IdentityInit
    <2>3. \A b \in Browsers : CookieShape(cookie[b])
      BY DEF IdentityInit, CookieShape
    <2>4. /\ work = [w \in Workers |-> work[w]] /\ cookie = [b \in Browsers |-> cookie[b]]
          /\ tsuOf = [u \in UserIds |-> tsuOf[u]] /\ users \subseteq UserIds
      BY IdentityAssumption DEF IdentityInit, UserIds
    <2> QED
      BY <2>1, <2>2, <2>3, <2>4 DEF Shapes
  <1>2. TokenInv
    BY DEF IdentityInit, TokenInv
  <1>3. OwnerInv
    <2>1. \A t \in Tsu : Owners(t) = {}
      BY IdentityAssumption DEF IdentityInit, Owners, UserIds
    <2>2. \A w \in Workers : Informed(work[w])
      <3>1. Informed(Idle)
        BY IdleShape, UntrackedInformed DEF Untracked
      <3> QED
        BY <3>1 DEF IdentityInit
    <2>3. \A u \in UserIds : tsuOf[u] = NoTsu
      BY DEF IdentityInit
    <2> QED
      BY <2>1, <2>2, <2>3 DEF OwnerInv
  <1>4. AdminInv
    BY DEF IdentityInit, AdminInv, AdminSessionsEarned
  <1> QED
    BY <1>1, <1>2, <1>3, <1>4 DEF IdentityInv

LEMMA IdentityStep == IdentityInv /\ [IdentityNext]_identityVars => IdentityInv'
  <1>1. CASE IdentityInv /\ IdentityNext
    BY <1>1, OwnersNext, TokensNext, AdminsNext DEF IdentityInv
  <1>2. CASE IdentityInv /\ UNCHANGED identityVars
    <2>1. /\ UNCHANGED <<users, tsuOf, creds, flows, nextState, cookie, used, work, everAdmin, raced>>
      BY <1>2 DEF identityVars, dbVars, webVars
    <2>2. Shapes' /\ OwnerInv'
      BY <1>2, <2>1, OtherOwners, SameUsers, CookiesStay DEF IdentityInv
    <2>3. TokenInv' /\ AdminInv'
      BY <1>2, <2>1 DEF IdentityInv, TokenInv, AdminInv, AdminSessionsEarned
    <2> QED
      BY <2>2, <2>3 DEF IdentityInv
  <1> QED
    BY <1>1, <1>2

LEMMA IdentityInvariant == IdentitySpec => []IdentityInv
  BY IdentityStart, IdentityStep, PTL DEF IdentitySpec

(* A state token starts at most one flow: Consume takes it out of the      *)
(* store in the step that starts the flow, and no token is issued twice,   *)
(* whatever the number of browsers, callbacks and expiries.                *)
THEOREM TokensStartOneFlow == IdentitySpec => []StateUsedOnce
  <1>1. IdentityInv => StateUsedOnce
    BY DEF IdentityInv, TokenInv, StateUsedOnce
  <1> QED
    BY <1>1, IdentityInvariant, PTL

(* The cookie of the console names a user that has had credentials: the    *)
(* login by password and the TSU login into /admin both ask the table, and *)
(* every row that was ever there is in the history.                        *)
THEOREM ConsoleIsEarned == IdentitySpec => []AdminSessionsEarned
  <1>1. IdentityInv => AdminSessionsEarned
    BY DEF IdentityInv, AdminInv
  <1> QED
    BY <1>1, IdentityInvariant, PTL

(* An account of TSU has at most one user unless two requests for it were  *)
(* between their lookup and their write at once: what Link and             *)
(* ensureWebUser found stays true until they write, since users come       *)
(* without an account and lose it with their row.                          *)
THEOREM AccountsHaveOneUser == IdentitySpec => []OneTsuOwner
  <1>1. ASSUME IdentityInv
        PROVE  OneTsuOwner
    <2>1. ASSUME NEW t \in Tsu \ raced
          PROVE  Cardinality(Owners(t)) <= 1
      <3>1. CASE Owners(t) = {}
        BY <3>1, FS_EmptySet
      <3>2. CASE Owners(t) # {}
        <4>1. PICK u : u \in Owners(t)
          BY <3>2
        <4>2. Owners(t) = {u}
          BY <1>1, <4>1 DEF IdentityInv, OwnerInv
        <4>3. Cardinality({u}) = 1
          BY FS_Singleton
        <4> QED
          BY <4>2, <4>3
      <3> QED
        BY <3>1, <3>2
    <2> QED
      BY <2>1 DEF OneTsuOwner
  <1> QED
    BY <1>1, IdentityInvariant, PTL

-----------------------------------------------------------------------------
(* Access settings.                                                        *)

(* What a check reads next, also while it puts what it read in the cache.  *)
Spot(b) == IF b.pc # "put" THEN b.pc
           ELSE IF b.next = "enabled?" THEN "policy?"
           ELSE IF b.next = "combine" THEN "plugin?"
           ELSE IF b.next = "eval" THEN "subject?" ELSE "httpSubject?"

Checking == {"roles", "policy?", "enabled?", "plugin?", "combine", "subject?", "eval"}
Serving == {"origins", "cors", "principal", "httpSubject?", "httpEval", "dispatch", "route"}

RowShape(s) == s = [enabled |-> s.enabled, userKeys |-> s.userKeys, serviceKeys |-> s.serviceKeys,
                    policy |-> s.policy, origins |-> s.origins]

JobShape(b) ==
    /\ b = [pc |-> b.pc, r |-> b.r, user |-> b.user, t |-> b.t, need |-> b.need, cred |-> b.cred,
            foreign |-> b.foreign, row |-> b.row, pol |-> b.pol, sc |-> b.sc, read |-> b.read,
            next |-> b.next, clean |-> b.clean, right |-> b.right]
    /\ RowShape(b.row)

One(S, T) == \E x \in T : S = {x}

Placed(b) ==
    /\ b.pc \in {"free", "done", "put"} \cup Checking \cup Serving
    /\ b.pc = "put" => b.next \in {"enabled?", "combine", "eval", "httpEval"}
    /\ Spot(b) \in Checking => One(b.r, Replicas) /\ One(b.t, Triggers) /\ One(b.user, Users) /\ b.need # "http"
    /\ Spot(b) \in Serving => One(b.r, Replicas) /\ One(b.t, Triggers) /\ b.need = "http"
    /\ Spot(b) \in Serving /\ b.cred = "session" => One(b.user, Users)
    /\ Spot(b) \in {"httpSubject?", "httpEval"} => One(b.user, Users)

(* The row of a request, once the origins of the plugin stand in.          *)
Resolved(row, s) ==
    /\ row.enabled = s.enabled /\ row.userKeys = s.userKeys /\ row.serviceKeys = s.serviceKeys
    /\ row.policy = s.policy /\ (row.origins <=> s.origins \/ plugOrig)

(* The caller of a request is a user, by session or by token.              *)
Known(b) ==
    \/ b.cred = "session"
    \/ /\ b.cred \in Secrets /\ secrets[b.cred].live
       /\ secrets[b.cred].kind = "user" /\ secrets[b.cred].user = b.user

KnowsOfCheck(b, u, t) ==
    /\ Spot(b) # "roles" => CheckPermission(u, b.need)
    /\ Spot(b) \in {"enabled?", "plugin?", "combine", "subject?", "eval"} =>
           b.row.enabled = setting[t].enabled /\ b.row.policy = setting[t].policy
    /\ Spot(b) \in {"plugin?", "combine", "subject?", "eval"} => b.row.enabled
    /\ Spot(b) \in {"combine", "subject?", "eval"} => b.pol = plugPol
    /\ Spot(b) = "eval" => b.sc = Loaded(u)

KnowsOfRequest(b, t) ==
    /\ Spot(b) = "origins" => b.row = setting[t]
    /\ Spot(b) \in {"cors", "principal", "httpSubject?", "httpEval"} => b.row.enabled /\ Resolved(b.row, setting[t])
    /\ Spot(b) \in {"principal", "httpSubject?", "httpEval"} => (b.foreign => b.row.origins)
    /\ Spot(b) \in {"httpSubject?", "httpEval"} => b.row.userKeys /\ Known(b)
    /\ Spot(b) = "httpEval" => \A u \in b.user : b.sc = Loaded(u)
    /\ Spot(b) \in {"dispatch", "route"} => MayCall(b)

ReadsOf(b) == IF b.next = "enabled?" THEN b.t ELSE IF b.next = "combine" THEN {Plugin} ELSE b.user

(* What a check that overlapped no save has read is still in the tables.   *)
Knows(b) ==
    /\ b.pc = "done" => b.right
    /\ b.pc = "put" => \A k \in ReadsOf(b) : b.read = {Stored(k)}
    /\ Spot(b) \in Checking => \A u \in b.user, t \in b.t : KnowsOfCheck(b, u, t)
    /\ Spot(b) \in Serving => \A t \in b.t : KnowsOfRequest(b, t)

JobOK(b) == JobShape(b) /\ Placed(b) /\ (b.clean => Knows(b))

(* An entry that differs from the table is gone before the time by which   *)
(* every replica has heard of the change.                                  *)
Fresh(c, s, k, v) ==
    /\ c = [val |-> c.val, left |-> c.left] /\ c.left \in Nat /\ s \in Nat /\ c.left <= TTL(k)
    /\ c.left > 0 => \E x \in c.val : c.val = {x} /\ (x # v => s >= c.left)

StoreOK ==
    /\ setting = [t \in Triggers |-> setting[t]] /\ \A t \in Triggers : RowShape(setting[t])
    /\ roleOf = [u \in Users |-> roleOf[u]]
    /\ secrets = [s \in Secrets |-> secrets[s]]
    /\ \A s \in Secrets : /\ secrets[s] = [kind |-> secrets[s].kind, user |-> secrets[s].user,
                                           scope |-> secrets[s].scope, live |-> secrets[s].live]
                          /\ secrets[s].kind = "user" => One(secrets[s].user, Users)

CacheOK ==
    /\ cache = [r \in Replicas |-> [k \in Keys |-> cache[r][k]]]
    /\ stale = [r \in Replicas |-> [k \in Keys |-> stale[r][k]]]
    /\ \A r \in Replicas, k \in Keys : Fresh(cache[r][k], stale[r][k], k, Stored(k))

JobsOK ==
    /\ jobs = [j \in Jobs |-> jobs[j]]
    /\ \A j \in Jobs : \A b \in {jobs[j]} : JobOK(b)

AccessInv == StoreOK /\ CacheOK /\ JobsOK

(* What became of a check: its next state, and the caches.                 *)
Advanced(j) ==
    /\ \E b : JobTo(j, b) /\ JobOK(b)
    /\ UNCHANGED storeVars
    /\ CacheOK'

LEMMA TheOne ==
  ASSUME NEW S, NEW x, S = {x}
  PROVE  (CHOOSE y \in S : TRUE) = x
  OBVIOUS

LEMMA StoredKept ==
  ASSUME UNCHANGED storeVars, NEW k
  PROVE  Stored(k)' = Stored(k)
  BY DEF storeVars, Stored, GetCommandPolicy, GetPluginPolicy, Loaded, GetAllRoleNames, GetExternalID

LEMMA JobOKKept ==
  ASSUME UNCHANGED storeVars, NEW b, JobOK(b)
  PROVE  JobOK(b)'
  <1>1. \A k : Stored(k)' = Stored(k)
    BY StoredKept
  <1>2. \A u, t : KnowsOfCheck(b, u, t)' <=> KnowsOfCheck(b, u, t)
    BY DEF storeVars, KnowsOfCheck, CheckPermission, Loaded, GetAllRoleNames, GetExternalID
  <1>3. MayCall(b)' <=> MayCall(b)
    BY DEF storeVars, MayCall, EvalPolicy, GraphCheck, Loaded, GetAllRoleNames, GetExternalID
  <1>4. \A t : KnowsOfRequest(b, t)' <=> KnowsOfRequest(b, t)
    BY <1>3 DEF storeVars, KnowsOfRequest, Resolved, Known, Loaded, GetAllRoleNames, GetExternalID
  <1> QED
    BY <1>1, <1>2, <1>4 DEF JobOK, Knows

LEMMA AdvancedOK ==
  ASSUME AccessInv, NEW j \in Jobs, Advanced(j)
  PROVE  AccessInv'
  <1>1. PICK b : JobTo(j, b) /\ JobOK(b)
    BY DEF Advanced
  <1>2. StoreOK' /\ CacheOK'
    BY DEF Advanced, AccessInv, StoreOK, storeVars
  <1>3. jobs = [i \in Jobs |-> jobs[i]] /\ jobs' = [jobs EXCEPT ![j] = b]
    BY <1>1 DEF AccessInv, JobsOK, JobTo
  <1>4. jobs' = [i \in Jobs |-> jobs'[i]] /\ jobs'[j] = b /\ \A i \in Jobs : i # j => jobs'[i] = jobs[i]
    BY <1>3
  <1>5. \A x : JobOK(x) => JobOK(x)'
    BY JobOKKept DEF Advanced
  <1>6. ASSUME NEW i \in Jobs, NEW x \in {jobs'[i]}
        PROVE  JobOK(x)'
    BY <1>1, <1>4, <1>5, <1>6 DEF AccessInv, JobsOK
  <1> QED
    BY <1>2, <1>4, <1>6 DEF AccessInv, JobsOK

(* The answer is the one the tables give, or is not compared.              *)
LEMMA FinishOK ==
  ASSUME CacheOK, NEW j \in Jobs, NEW rec, NEW out, Finish(j, rec, out),
         rec.clean => (out = "allow" <=> IF rec.need = "http" THEN MayCall(rec) ELSE MayRun(rec))
  PROVE  Advanced(j)
  <1>1. PICK w : w = (rec.clean => (out = "allow") = IF rec.need = "http" THEN MayCall(rec) ELSE MayRun(rec))
    OBVIOUS
  <1>2. PICK b : b = [NoJob EXCEPT !.pc = "done", !.need = rec.need, !.clean = rec.clean, !.right = w]
    OBVIOUS
  <1>3. JobTo(j, b) /\ UNCHANGED <<storeVars, cache, stale>>
    BY <1>1, <1>2 DEF Finish
  <1>4. JobShape(b) /\ b.pc = "done" /\ b.clean = rec.clean /\ b.right = w
    BY <1>2, ZenonT(30) DEF NoJob, JobShape, RowShape, Default
  <1>5. b.clean => b.right
    <2>1. rec.clean => w
      BY <1>1 DEF MayCall, MayRun
    <2> QED
      BY <1>4, <2>1
  <1>6. JobOK(b)
    BY <1>4, <1>5 DEF JobOK, Placed, Knows, Spot, Checking, Serving
  <1>7. CacheOK'
    BY <1>3, StoredKept DEF CacheOK
  <1> QED
    BY <1>3, <1>6, <1>7 DEF Advanced

LEMMA GoOK ==
  ASSUME CacheOK, NEW j \in Jobs, NEW rec, NEW pc, Go(j, rec, pc), NEW b, b = [rec EXCEPT !.pc = pc], JobOK(b)
  PROVE  Advanced(j)
  <1>1. JobTo(j, b) /\ UNCHANGED <<storeVars, cache, stale>>
    BY DEF Go
  <1>2. CacheOK'
    BY <1>1, StoredKept DEF CacheOK
  <1> QED
    BY <1>1, <1>2 DEF Advanced

(* The same check, further on.                                             *)
Same(b, job) ==
    /\ JobShape(b) /\ b.r = job.r /\ b.user = job.user /\ b.t = job.t /\ b.need = job.need
    /\ b.cred = job.cred /\ b.foreign = job.foreign
    /\ b.row.userKeys = job.row.userKeys /\ b.row.serviceKeys = job.row.serviceKeys
    /\ b.row.origins = job.row.origins

Reading(b, job, k, next) ==
    /\ Same(b, job) /\ b.pc = "put" /\ b.next = next
    /\ b.row = job.row /\ b.pol = job.pol /\ b.sc = job.sc
    /\ b.clean => job.clean /\ b.read = {Stored(k)}

TookIn(b, job, k, next) ==
    /\ Same(b, job) /\ b.pc = next
    /\ b.clean => /\ job.clean
                  /\ IF k \in Triggers
                     THEN b.row.enabled = Stored(k).enabled /\ b.row.policy = Stored(k).policy
                     ELSE b.row = job.row
                  /\ b.pol = IF k = Plugin THEN Stored(k) ELSE job.pol
                  /\ b.sc = IF k \in Users THEN Stored(k) ELSE job.sc

LEMMA TookOK ==
  ASSUME NEW k \in Keys, NEW x, JobShape(x), NEW v, NEW b, b = Took(x, k, v)
  PROVE  /\ Same(b, x) /\ b.pc = x.pc /\ b.clean = x.clean /\ b.read = x.read /\ b.next = x.next
         /\ IF k \in Triggers THEN b.row.enabled = v.enabled /\ b.row.policy = v.policy ELSE b.row = x.row
         /\ b.pol = IF k = Plugin THEN v ELSE x.pol
         /\ b.sc = IF k \in Users THEN v ELSE x.sc
  <1>1. Triggers \cap Users = {} /\ Plugin \notin Triggers \cup Users
    BY AccessAssumption DEF Plugin
  <1>2. CASE k \in Triggers
    <2>1. PICK row : row = [x.row EXCEPT !.enabled = v.enabled, !.policy = v.policy]
      OBVIOUS
    <2>2. RowShape(row) /\ row.enabled = v.enabled /\ row.policy = v.policy /\ row.userKeys = x.row.userKeys
          /\ row.serviceKeys = x.row.serviceKeys /\ row.origins = x.row.origins
      BY <2>1 DEF JobShape, RowShape
    <2>3. b = [x EXCEPT !.row = row]
      BY <1>1, <1>2, <2>1 DEF Took
    <2>4. JobShape(b) /\ b.row = row
      BY <2>2, <2>3 DEF JobShape
    <2> QED
      BY <1>1, <1>2, <2>2, <2>3, <2>4 DEF JobShape, Same
  <1>3. CASE k = Plugin
    BY <1>1, <1>3 DEF Took, JobShape, Same
  <1>4. CASE k \in Users
    BY <1>1, <1>4 DEF Took, JobShape, Same
  <1> QED
    BY <1>2, <1>3, <1>4 DEF Keys

(* getCommandPolicy, getPluginPolicy and buildSubjectContext.              *)
LEMMA FetchOK ==
  ASSUME AccessInv, NEW j \in Jobs, NEW k \in Keys, NEW next, Fetch(j, k, next),
         NEW job, job = jobs[j], NEW r \in Replicas, job.r = {r}
  PROVE  \/ Advanced(j)
         \/ /\ \E b : JobTo(j, b) /\ (Reading(b, job, k, next) \/ TookIn(b, job, k, next))
            /\ UNCHANGED storeVars /\ CacheOK'
  <1>1. (CHOOSE x \in jobs[j].r : TRUE) = r
    BY TheOne
  <1>2. JobShape(job) /\ CacheOK
    BY DEF AccessInv, JobsOK, JobOK
  <1>3. Fresh(cache[r][k], stale[r][k], k, Stored(k))
    BY <1>2 DEF CacheOK
  <1>4. ASSUME NEW rec, NEW pc, Go(j, rec, pc)
        PROVE  JobTo(j, [rec EXCEPT !.pc = pc]) /\ UNCHANGED storeVars /\ CacheOK'
    BY <1>2, <1>4, StoredKept DEF Go, CacheOK
  <1>5. CASE Get(r, k) /\ \E v \in cache[r][k].val :
                Go(j, Took([jobs[j] EXCEPT !.clean = @ /\ stale[r][k] = 0], k, v), next)
    <2>1. PICK v \in cache[r][k].val : \E x : /\ x = [job EXCEPT !.clean = job.clean /\ stale[r][k] = 0]
                                            /\ Go(j, Took(x, k, v), next)
      BY <1>5
    <2>2. PICK x : x = [job EXCEPT !.clean = job.clean /\ stale[r][k] = 0] /\ Go(j, Took(x, k, v), next)
      BY <2>1
    <2>3. JobShape(x) /\ x.row = job.row /\ x.pol = job.pol /\ x.sc = job.sc /\ Same(x, job)
          /\ (x.clean => job.clean /\ stale[r][k] = 0)
      BY <1>2, <2>2 DEF JobShape, Same
    <2>4. PICK y : y = Took(x, k, v)
      OBVIOUS
    <2>5. PICK b : b = [y EXCEPT !.pc = next]
      OBVIOUS
    <2>6. JobTo(j, b) /\ UNCHANGED storeVars /\ CacheOK'
      BY <1>4, <2>2, <2>4, <2>5
    <2>7. stale[r][k] = 0 => v = Stored(k)
      BY <1>3, <1>5 DEF Get, Fresh
    <2>8. b.pc = next /\ Same(b, y) /\ b.row = y.row /\ b.pol = y.pol /\ b.sc = y.sc /\ b.clean = y.clean
      BY <2>3, <2>4, <2>5, TookOK DEF JobShape, Same
    <2>9. TookIn(b, job, k, next)
      BY <2>3, <2>4, <2>7, <2>8, TookOK DEF TookIn, Same
    <2> QED
      BY <2>6, <2>9
  <1>6. CASE Go(j, [jobs[j] EXCEPT !.read = {Stored(k)}, !.next = next], "put")
    <2>1. PICK x : x = [job EXCEPT !.read = {Stored(k)}, !.next = next]
      OBVIOUS
    <2>2. PICK b : b = [x EXCEPT !.pc = "put"]
      OBVIOUS
    <2>3. Reading(b, job, k, next)
      BY <1>2, <2>1, <2>2 DEF Reading, Same, JobShape
    <2> QED
      BY <1>4, <1>6, <2>1, <2>2, <2>3
  <1>7. CASE Go(j, [jobs[j] EXCEPT !.read = {[role |-> FALSE, ext |-> FALSE]}, !.clean = FALSE, !.next = next], "put")
    <2>1. PICK x : x = [job EXCEPT !.read = {[role |-> FALSE, ext |-> FALSE]}, !.clean = FALSE, !.next = next]
      OBVIOUS
    <2>2. PICK b : b = [x EXCEPT !.pc = "put"]
      OBVIOUS
    <2>3. Reading(b, job, k, next)
      BY <1>2, <2>1, <2>2 DEF Reading, Same, JobShape
    <2> QED
      BY <1>4, <1>7, <2>1, <2>2, <2>3
  <1>8. CASE Finish(j, [jobs[j] EXCEPT !.clean = FALSE], "error")
    <2>1. PICK x : x = [job EXCEPT !.clean = FALSE]
      OBVIOUS
    <2>2. ~x.clean
      BY <1>2, <2>1 DEF JobShape
    <2> QED
      BY <1>2, <1>8, <2>1, <2>2, FinishOK
  <1> QED
    BY <1>1, <1>5, <1>6, <1>7, <1>8 DEF Fetch

(* What was read goes into the cache, where it may be older than the table. *)
LEMMA PutBackOK ==
  ASSUME AccessInv, NEW j \in Jobs, NEW k \in Keys, NEW next, PutBack(j, k, next),
         NEW job, job = jobs[j], NEW r \in Replicas, job.r = {r},
         job.clean => job.read = {Stored(k)}
  PROVE  /\ \E b : JobTo(j, b) /\ TookIn(b, job, k, next)
         /\ UNCHANGED storeVars /\ CacheOK'
  <1>1. (CHOOSE x \in jobs[j].r : TRUE) = r
    BY TheOne
  <1>2. JobShape(job) /\ CacheOK
    BY DEF AccessInv, JobsOK, JobOK
  <1>3. PICK v \in job.read : /\ Set(r, k, v)
                              /\ JobTo(j, [Took(job, k, v) EXCEPT !.pc = next, !.next = "none", !.read = {}])
    BY <1>1 DEF PutBack
  <1>4. UNCHANGED storeVars
    BY DEF PutBack
  <1>5. PICK y : y = Took(job, k, v)
    OBVIOUS
  <1>6. PICK b : b = [y EXCEPT !.pc = next, !.next = "none", !.read = {}]
    OBVIOUS
  <1>7. b.pc = next /\ Same(b, y) /\ b.row = y.row /\ b.pol = y.pol /\ b.sc = y.sc /\ b.clean = y.clean
    <2>1. JobShape(y)
      BY <1>2, <1>5, TookOK DEF Same
    <2> QED
      BY <1>6, <2>1 DEF JobShape, Same
  <1>8. TookIn(b, job, k, next)
    BY <1>2, <1>3, <1>5, <1>7, TookOK DEF TookIn, Same
  <1>9. PICK c : c = [val |-> {v}, left |-> TTL(k)]
    OBVIOUS
  <1>10. PICK w : w = Stored(k)
    OBVIOUS
  <1>11. /\ cache' = [cache EXCEPT ![r][k] = c]
         /\ stale' = IF v = w THEN stale ELSE [stale EXCEPT ![r][k] = TTL(k)]
    BY <1>3, <1>9, <1>10 DEF Set
  <1>12. TTL(k) \in Nat
    BY DEF TTL
  <1>13. /\ cache' = [q \in Replicas |-> [i \in Keys |-> cache'[q][i]]]
         /\ stale' = [q \in Replicas |-> [i \in Keys |-> stale'[q][i]]]
         /\ cache'[r][k] = c /\ stale'[r][k] = IF v = w THEN stale[r][k] ELSE TTL(k)
         /\ \A q \in Replicas, i \in Keys :
               q # r \/ i # k => cache'[q][i] = cache[q][i] /\ stale'[q][i] = stale[q][i]
    BY <1>2, <1>11, ZenonT(30) DEF CacheOK
  <1>14. ASSUME NEW q \in Replicas, NEW i \in Keys
         PROVE  Fresh(cache'[q][i], stale'[q][i], i, Stored(i)')
    <2>1. Stored(i)' = Stored(i)
      BY <1>4, StoredKept
    <2>2. Fresh(cache[q][i], stale[q][i], i, Stored(i))
      BY <1>2 DEF CacheOK
    <2>3. CASE q = r /\ i = k
      <3>1. cache'[q][i] = c /\ c.val = {v} /\ c.left = TTL(k) /\ c = [val |-> c.val, left |-> c.left]
        BY <1>9, <1>13, <2>3
      <3>2. stale'[q][i] \in Nat /\ (v # w => stale'[q][i] = TTL(k))
        BY <1>12, <1>13, <2>2, <2>3 DEF Fresh
      <3>3. Stored(i)' = w
        BY <1>10, <2>1, <2>3
      <3> QED
        BY <1>12, <2>3, <3>1, <3>2, <3>3 DEF Fresh
    <2>4. CASE q # r \/ i # k
      BY <1>13, <2>1, <2>2, <2>4
    <2> QED
      BY <2>3, <2>4
  <1>15. CacheOK'
    BY <1>13, <1>14 DEF CacheOK
  <1> QED
    BY <1>3, <1>4, <1>5, <1>6, <1>8, <1>15

LEMMA StartOK ==
  ASSUME CacheOK, NEW j \in Jobs, NEW rec, Start(j, rec), JobOK(rec)
  PROVE  Advanced(j)
  <1>1. JobTo(j, rec) /\ UNCHANGED <<storeVars, cache, stale>>
    BY DEF Start
  <1>2. CacheOK'
    BY <1>1, StoredKept DEF CacheOK
  <1> QED
    BY <1>1, <1>2 DEF Advanced

(* Checks of a command.                                                    *)
LEMMA MayRunIs ==
  ASSUME NEW job, NEW u, NEW t, job.user = {u}, job.t = {t}
  PROVE  MayRun(job) <=> /\ CheckPermission(u, job.need) /\ setting[t].enabled
                         /\ CombinePolicies(plugPol, setting[t].policy, u, Loaded(u))
  <1>1. (CHOOSE x \in job.user : TRUE) = u /\ (CHOOSE x \in job.t : TRUE) = t
    BY TheOne
  <1> QED
    BY <1>1 DEF MayRun

LEMMA CheckOf ==
  ASSUME AccessInv, NEW j \in Jobs, NEW job, job = jobs[j], Spot(job) \in Checking
  PROVE  /\ JobOK(job) /\ CacheOK /\ job.need # "http"
         /\ \E r \in Replicas, u \in Users, t \in Triggers :
               /\ job.r = {r} /\ job.user = {u} /\ job.t = {t}
               /\ (CHOOSE x \in jobs[j].user : TRUE) = u /\ (CHOOSE x \in jobs[j].t : TRUE) = t
               /\ job.clean => KnowsOfCheck(job, u, t) /\ (job.pc = "put" => \A k \in ReadsOf(job) : job.read = {Stored(k)})
               /\ MayRun(job) <=> /\ CheckPermission(u, job.need) /\ setting[t].enabled
                                  /\ CombinePolicies(plugPol, setting[t].policy, u, Loaded(u))
  <1>1. JobOK(job) /\ CacheOK
    BY DEF AccessInv, JobsOK
  <1>2. PICK r \in Replicas, u \in Users, t \in Triggers : job.r = {r} /\ job.user = {u} /\ job.t = {t}
    BY <1>1 DEF JobOK, Placed, One
  <1>3. (CHOOSE x \in jobs[j].user : TRUE) = u /\ (CHOOSE x \in jobs[j].t : TRUE) = t
    BY <1>2, TheOne
  <1>4. job.need # "http"
    BY <1>1 DEF JobOK, Placed
  <1>5. job.clean => KnowsOfCheck(job, u, t) /\ (job.pc = "put" => \A k \in ReadsOf(job) : job.read = {Stored(k)})
    BY <1>1, <1>2 DEF JobOK, Knows
  <1> QED
    BY <1>1, <1>2, <1>3, <1>4, <1>5, MayRunIs

(* A check goes on with what it knows.                                     *)
LEMMA CheckGoes ==
  ASSUME NEW b, JobShape(b), NEW r \in Replicas, NEW u \in Users, NEW t \in Triggers,
         b.r = {r}, b.user = {u}, b.t = {t}, b.need # "http", b.pc \in Checking,
         b.clean => KnowsOfCheck(b, u, t)
  PROVE  JobOK(b)
  <1>1. Spot(b) = b.pc /\ b.pc # "put" /\ b.pc # "done" /\ b.pc \notin Serving
    BY DEF Spot, Checking, Serving
  <1>2. Placed(b)
    BY <1>1 DEF Placed, One, Serving
  <1> QED
    BY <1>1, <1>2 DEF JobOK, Knows

LEMMA CheckCommandOK ==
  ASSUME AccessInv, NEW j \in Jobs, NEW r \in Replicas, NEW u \in Users, NEW t \in Triggers,
         NEW need \in {"none", "role"}, CheckCommand(j, r, u, t, need)
  PROVE  Advanced(j)
  <1>1. PICK b : b = [NoJob EXCEPT !.pc = "roles", !.r = {r}, !.user = {u}, !.t = {t}, !.need = need]
    OBVIOUS
  <1>2. JobShape(b) /\ b.pc = "roles" /\ b.r = {r} /\ b.user = {u} /\ b.t = {t} /\ b.need = need
    BY <1>1 DEF NoJob, JobShape, RowShape, Default
  <1>3. KnowsOfCheck(b, u, t)
    BY <1>2 DEF KnowsOfCheck, Spot
  <1>4. JobOK(b)
    BY <1>2, <1>3, CheckGoes DEF Checking
  <1> QED
    BY <1>1, <1>4, StartOK DEF CheckCommand, AccessInv

LEMMA CheckRolesSpiceOK ==
  ASSUME AccessInv, NEW j \in Jobs, CheckRolesSpice(j)
  PROVE  Advanced(j)
  <1>1. PICK job : job = jobs[j]
    OBVIOUS
  <1>2. job.pc = "roles" /\ Spot(job) = "roles"
    BY <1>1 DEF CheckRolesSpice, JobAt, Spot
  <1>3. JobOK(job) /\ CacheOK /\ job.need # "http"
    BY <1>1, <1>2, CheckOf DEF Checking
  <1>4. PICK r \in Replicas, u \in Users, t \in Triggers :
               /\ job.r = {r} /\ job.user = {u} /\ job.t = {t}
               /\ (CHOOSE x \in jobs[j].user : TRUE) = u
               /\ MayRun(job) <=> /\ CheckPermission(u, job.need) /\ setting[t].enabled
                                  /\ CombinePolicies(plugPol, setting[t].policy, u, Loaded(u))
    BY <1>1, <1>2, CheckOf DEF Checking
  <1>5. CASE CheckPermission(u, job.need) /\ Go(j, job, "policy?")
    <2>1. PICK b : b = [job EXCEPT !.pc = "policy?"]
      OBVIOUS
    <2>2. JobShape(b) /\ b.pc = "policy?" /\ b.r = {r} /\ b.user = {u} /\ b.t = {t} /\ b.need = job.need
      BY <1>3, <1>4, <2>1 DEF JobOK, JobShape
    <2>3. KnowsOfCheck(b, u, t)
      BY <1>5, <2>2 DEF KnowsOfCheck, Spot
    <2>4. JobOK(b)
      BY <1>3, <2>2, <2>3, CheckGoes DEF Checking
    <2> QED
      BY <1>3, <1>5, <2>1, <2>4, GoOK
  <1>6. CASE ~CheckPermission(u, job.need) /\ Finish(j, job, "deny")
    BY <1>3, <1>4, <1>6, FinishOK
  <1>7. CASE \E o \in {"error", "deny"} : Finish(j, [job EXCEPT !.clean = FALSE], o)
    <2>1. PICK o : Finish(j, [job EXCEPT !.clean = FALSE], o)
      BY <1>7
    <2>2. PICK x : x = [job EXCEPT !.clean = FALSE]
      OBVIOUS
    <2>3. ~x.clean
      BY <1>3, <2>2 DEF JobOK, JobShape
    <2> QED
      BY <1>3, <2>1, <2>2, <2>3, FinishOK
  <1> QED
    BY <1>1, <1>4, <1>5, <1>6, <1>7 DEF CheckRolesSpice

LEMMA GetPolicyStepOK ==
  ASSUME AccessInv, NEW j \in Jobs, GetPolicyStep(j)
  PROVE  Advanced(j)
  <1>1. PICK job : job = jobs[j]
    OBVIOUS
  <1>2. Spot(job) = "policy?" /\ (job.pc = "put" => job.next = "enabled?")
    BY <1>1 DEF GetPolicyStep, PutBack, JobAt, Spot
  <1>3. JobOK(job) /\ job.need # "http"
    BY <1>1, <1>2, CheckOf DEF Checking
  <1>4. PICK r \in Replicas, u \in Users, t \in Triggers :
               /\ job.r = {r} /\ job.user = {u} /\ job.t = {t}
               /\ (CHOOSE x \in jobs[j].t : TRUE) = t
               /\ job.clean => KnowsOfCheck(job, u, t) /\ (job.pc = "put" => \A k \in ReadsOf(job) : job.read = {Stored(k)})
    BY <1>1, <1>2, CheckOf DEF Checking
  <1>5. t \in Keys /\ t # Plugin /\ t \notin Users
    BY AccessAssumption DEF Keys, Plugin
  <1>6. ASSUME NEW b, Reading(b, job, t, "enabled?")
        PROVE  JobOK(b)
    <2>1. Spot(b) = "policy?" /\ b.pc = "put" /\ b.next = "enabled?" /\ JobShape(b)
      BY <1>6 DEF Spot, Reading, Same
    <2>2. Placed(b)
      BY <1>3, <1>4, <1>6, <2>1 DEF Placed, Reading, Same, One, Serving
    <2>3. b.clean => KnowsOfCheck(b, u, t) /\ b.read = {Stored(t)}
      BY <1>2, <1>4, <1>6, <2>1 DEF KnowsOfCheck, Reading, Same
    <2> QED
      BY <1>4, <1>6, <2>1, <2>2, <2>3 DEF JobOK, Knows, ReadsOf, Reading, Same, Serving
  <1>7. ASSUME NEW b, TookIn(b, job, t, "enabled?")
        PROVE  JobOK(b)
    <2>1. Spot(b) = "enabled?" /\ b.pc = "enabled?" /\ JobShape(b)
      BY <1>7 DEF Spot, TookIn, Same
    <2>2. Stored(t).enabled = setting[t].enabled /\ Stored(t).policy = setting[t].policy
      BY <1>5 DEF Stored, GetCommandPolicy
    <2>3. b.clean => KnowsOfCheck(b, u, t)
      BY <1>2, <1>4, <1>7, <2>1, <2>2 DEF KnowsOfCheck, TookIn, Same
    <2> QED
      BY <1>3, <1>4, <1>7, <2>1, <2>3, CheckGoes DEF TookIn, Same, Checking
  <1>8. CASE job.pc # "put"
    <2>1. Fetch(j, t, "enabled?")
      BY <1>1, <1>4, <1>8 DEF GetPolicyStep, PutBack, JobAt
    <2> QED
      BY <1>1, <1>4, <1>5, <1>6, <1>7, <2>1, FetchOK DEF Advanced
  <1>9. CASE job.pc = "put"
    <2>1. PutBack(j, t, "enabled?")
      BY <1>1, <1>4, <1>9 DEF GetPolicyStep, JobAt
    <2>2. job.clean => job.read = {Stored(t)}
      BY <1>2, <1>4, <1>9 DEF ReadsOf
    <2> QED
      BY <1>1, <1>4, <1>5, <1>7, <2>1, <2>2, PutBackOK DEF Advanced
  <1> QED
    BY <1>8, <1>9

LEMMA CheckEnabledOK ==
  ASSUME AccessInv, NEW j \in Jobs, CheckEnabled(j)
  PROVE  Advanced(j)
  <1>1. PICK job : job = jobs[j]
    OBVIOUS
  <1>2. job.pc = "enabled?" /\ Spot(job) = "enabled?"
    BY <1>1 DEF CheckEnabled, JobAt, Spot
  <1>3. JobOK(job) /\ CacheOK /\ job.need # "http"
    BY <1>1, <1>2, CheckOf DEF Checking
  <1>4. PICK r \in Replicas, u \in Users, t \in Triggers :
               /\ job.r = {r} /\ job.user = {u} /\ job.t = {t}
               /\ job.clean => KnowsOfCheck(job, u, t)
               /\ MayRun(job) <=> /\ CheckPermission(u, job.need) /\ setting[t].enabled
                                  /\ CombinePolicies(plugPol, setting[t].policy, u, Loaded(u))
    BY <1>1, <1>2, CheckOf DEF Checking
  <1>5. CASE job.row.enabled /\ Go(j, job, "plugin?")
    <2>1. PICK b : b = [job EXCEPT !.pc = "plugin?"]
      OBVIOUS
    <2>2. /\ JobShape(b) /\ b.pc = "plugin?" /\ b.r = {r} /\ b.user = {u} /\ b.t = {t} /\ b.need = job.need
          /\ b.row = job.row /\ b.clean = job.clean
      BY <1>3, <1>4, <2>1 DEF JobOK, JobShape
    <2>3. b.clean => KnowsOfCheck(b, u, t)
      BY <1>2, <1>4, <1>5, <2>2 DEF KnowsOfCheck, Spot
    <2>4. JobOK(b)
      BY <1>3, <2>2, <2>3, CheckGoes DEF Checking
    <2> QED
      BY <1>3, <1>5, <2>1, <2>4, GoOK
  <1>6. CASE ~job.row.enabled /\ Finish(j, job, "deny")
    <2>1. job.clean => ~MayRun(job)
      BY <1>2, <1>4, <1>6 DEF KnowsOfCheck
    <2> QED
      BY <1>3, <1>6, <2>1, FinishOK
  <1> QED
    BY <1>1, <1>5, <1>6 DEF CheckEnabled

LEMMA GetPluginStepOK ==
  ASSUME AccessInv, NEW j \in Jobs, GetPluginStep(j)
  PROVE  Advanced(j)
  <1>1. PICK job : job = jobs[j]
    OBVIOUS
  <1>2. Spot(job) = "plugin?" /\ (job.pc = "put" => job.next = "combine")
    BY <1>1 DEF GetPluginStep, PutBack, JobAt, Spot
  <1>3. JobOK(job) /\ job.need # "http"
    BY <1>1, <1>2, CheckOf DEF Checking
  <1>4. PICK r \in Replicas, u \in Users, t \in Triggers :
               /\ job.r = {r} /\ job.user = {u} /\ job.t = {t}
               /\ job.clean => KnowsOfCheck(job, u, t) /\ (job.pc = "put" => \A k \in ReadsOf(job) : job.read = {Stored(k)})
    BY <1>1, <1>2, CheckOf DEF Checking
  <1>5. PICK k \in Keys : k = Plugin /\ k \notin Triggers /\ k \notin Users
    BY AccessAssumption DEF Keys, Plugin
  <1>6. ASSUME NEW b, Reading(b, job, k, "combine")
        PROVE  JobOK(b)
    <2>1. Spot(b) = "plugin?" /\ b.pc = "put" /\ b.next = "combine" /\ JobShape(b)
      BY <1>6 DEF Spot, Reading, Same
    <2>2. Placed(b)
      BY <1>3, <1>4, <1>6, <2>1 DEF Placed, Reading, Same, One, Serving
    <2>3. b.clean => KnowsOfCheck(b, u, t) /\ b.read = {Stored(k)}
      BY <1>2, <1>4, <1>6, <2>1 DEF KnowsOfCheck, Reading, Same
    <2> QED
      BY <1>4, <1>5, <1>6, <2>1, <2>2, <2>3 DEF JobOK, Knows, ReadsOf, Reading, Same, Serving
  <1>7. ASSUME NEW b, TookIn(b, job, k, "combine")
        PROVE  JobOK(b)
    <2>1. Spot(b) = "combine" /\ b.pc = "combine" /\ JobShape(b)
      BY <1>7 DEF Spot, TookIn, Same
    <2>2. Stored(k) = plugPol
      BY <1>5 DEF Stored, GetPluginPolicy
    <2>3. b.clean => KnowsOfCheck(b, u, t)
      BY <1>2, <1>4, <1>5, <1>7, <2>1, <2>2 DEF KnowsOfCheck, TookIn, Same
    <2> QED
      BY <1>3, <1>4, <1>7, <2>1, <2>3, CheckGoes DEF TookIn, Same, Checking
  <1>8. CASE job.pc # "put"
    <2>1. Fetch(j, k, "combine")
      BY <1>1, <1>5, <1>8 DEF GetPluginStep, PutBack, JobAt
    <2> QED
      BY <1>1, <1>4, <1>6, <1>7, <2>1, FetchOK DEF Advanced
  <1>9. CASE job.pc = "put"
    <2>1. PutBack(j, k, "combine")
      BY <1>1, <1>5, <1>9 DEF GetPluginStep, JobAt
    <2>2. job.clean => job.read = {Stored(k)}
      BY <1>2, <1>4, <1>5, <1>9 DEF ReadsOf
    <2> QED
      BY <1>1, <1>4, <1>7, <2>1, <2>2, PutBackOK DEF Advanced
  <1> QED
    BY <1>8, <1>9

LEMMA CombineOK ==
  ASSUME AccessInv, NEW j \in Jobs, Combine(j)
  PROVE  Advanced(j)
  <1>1. PICK job : job = jobs[j]
    OBVIOUS
  <1>2. job.pc = "combine" /\ Spot(job) = "combine"
    BY <1>1 DEF Combine, JobAt, Spot
  <1>3. JobOK(job) /\ CacheOK /\ job.need # "http"
    BY <1>1, <1>2, CheckOf DEF Checking
  <1>4. PICK r \in Replicas, u \in Users, t \in Triggers :
               /\ job.r = {r} /\ job.user = {u} /\ job.t = {t}
               /\ job.clean => KnowsOfCheck(job, u, t)
               /\ MayRun(job) <=> /\ CheckPermission(u, job.need) /\ setting[t].enabled
                                  /\ CombinePolicies(plugPol, setting[t].policy, u, Loaded(u))
    BY <1>1, <1>2, CheckOf DEF Checking
  <1>5. CASE job.pol = "" /\ job.row.policy = "" /\ Finish(j, job, "allow")
    <2>1. CombinePolicies("", "", u, Loaded(u))
      BY DEF CombinePolicies, EvalPolicy
    <2>2. job.clean => MayRun(job)
      BY <1>2, <1>4, <1>5, <2>1 DEF KnowsOfCheck
    <2> QED
      BY <1>3, <1>5, <2>2, FinishOK
  <1>6. CASE Go(j, job, "subject?")
    <2>1. PICK b : b = [job EXCEPT !.pc = "subject?"]
      OBVIOUS
    <2>2. /\ JobShape(b) /\ b.pc = "subject?" /\ b.r = {r} /\ b.user = {u} /\ b.t = {t} /\ b.need = job.need
          /\ b.row = job.row /\ b.clean = job.clean /\ b.pol = job.pol
      BY <1>3, <1>4, <2>1 DEF JobOK, JobShape
    <2>3. b.clean => KnowsOfCheck(b, u, t)
      BY <1>2, <1>4, <2>2 DEF KnowsOfCheck, Spot
    <2>4. JobOK(b)
      BY <1>3, <2>2, <2>3, CheckGoes DEF Checking
    <2> QED
      BY <1>3, <1>6, <2>1, <2>4, GoOK
  <1> QED
    BY <1>1, <1>5, <1>6 DEF Combine

LEMMA BuildSubjectContextOK ==
  ASSUME AccessInv, NEW j \in Jobs, BuildSubjectContext(j)
  PROVE  Advanced(j)
  <1>1. PICK job : job = jobs[j]
    OBVIOUS
  <1>2. Spot(job) = "subject?" /\ (job.pc = "put" => job.next = "eval")
    BY <1>1 DEF BuildSubjectContext, PutBack, JobAt, Spot
  <1>3. JobOK(job) /\ job.need # "http"
    BY <1>1, <1>2, CheckOf DEF Checking
  <1>4. PICK r \in Replicas, u \in Users, t \in Triggers :
               /\ job.r = {r} /\ job.user = {u} /\ job.t = {t}
               /\ (CHOOSE x \in jobs[j].user : TRUE) = u
               /\ job.clean => KnowsOfCheck(job, u, t) /\ (job.pc = "put" => \A k \in ReadsOf(job) : job.read = {Stored(k)})
    BY <1>1, <1>2, CheckOf DEF Checking
  <1>5. u \in Keys /\ u # Plugin /\ u \notin Triggers
    BY AccessAssumption DEF Keys, Plugin
  <1>6. ASSUME NEW b, Reading(b, job, u, "eval")
        PROVE  JobOK(b)
    <2>1. Spot(b) = "subject?" /\ b.pc = "put" /\ b.next = "eval" /\ JobShape(b)
      BY <1>6 DEF Spot, Reading, Same
    <2>2. Placed(b)
      BY <1>3, <1>4, <1>6, <2>1 DEF Placed, Reading, Same, One, Serving
    <2>3. b.clean => KnowsOfCheck(b, u, t) /\ b.read = {Stored(u)}
      BY <1>2, <1>4, <1>6, <2>1 DEF KnowsOfCheck, Reading, Same
    <2> QED
      BY <1>4, <1>6, <2>1, <2>2, <2>3 DEF JobOK, Knows, ReadsOf, Reading, Same, Serving
  <1>7. ASSUME NEW b, TookIn(b, job, u, "eval")
        PROVE  JobOK(b)
    <2>1. Spot(b) = "eval" /\ b.pc = "eval" /\ JobShape(b)
      BY <1>7 DEF Spot, TookIn, Same
    <2>2. Stored(u) = Loaded(u)
      BY <1>5 DEF Stored
    <2>3. b.clean => KnowsOfCheck(b, u, t)
      BY <1>2, <1>4, <1>5, <1>7, <2>1, <2>2 DEF KnowsOfCheck, TookIn, Same
    <2> QED
      BY <1>3, <1>4, <1>7, <2>1, <2>3, CheckGoes DEF TookIn, Same, Checking
  <1>8. CASE job.pc # "put"
    <2>1. Fetch(j, u, "eval")
      BY <1>1, <1>4, <1>8 DEF BuildSubjectContext, PutBack, JobAt
    <2> QED
      BY <1>1, <1>4, <1>5, <1>6, <1>7, <2>1, FetchOK DEF Advanced
  <1>9. CASE job.pc = "put"
    <2>1. PutBack(j, u, "eval")
      BY <1>1, <1>4, <1>9 DEF BuildSubjectContext, JobAt
    <2>2. job.clean => job.read = {Stored(u)}
      BY <1>2, <1>4, <1>9 DEF ReadsOf
    <2> QED
      BY <1>1, <1>4, <1>5, <1>7, <2>1, <2>2, PutBackOK DEF Advanced
  <1> QED
    BY <1>8, <1>9

LEMMA EvaluateOK ==
  ASSUME AccessInv, NEW j \in Jobs, Evaluate(j)
  PROVE  Advanced(j)
  <1>1. PICK job : job = jobs[j]
    OBVIOUS
  <1>2. job.pc = "eval" /\ Spot(job) = "eval"
    BY <1>1 DEF Evaluate, JobAt, Spot
  <1>3. JobOK(job) /\ CacheOK /\ job.need # "http"
    BY <1>1, <1>2, CheckOf DEF Checking
  <1>4. PICK r \in Replicas, u \in Users, t \in Triggers :
               /\ job.r = {r} /\ job.user = {u} /\ job.t = {t}
               /\ (CHOOSE x \in jobs[j].user : TRUE) = u
               /\ job.clean => KnowsOfCheck(job, u, t)
               /\ MayRun(job) <=> /\ CheckPermission(u, job.need) /\ setting[t].enabled
                                  /\ CombinePolicies(plugPol, setting[t].policy, u, Loaded(u))
    BY <1>1, <1>2, CheckOf DEF Checking
  <1>5. PICK out : out = IF CombinePolicies(job.pol, job.row.policy, u, job.sc) THEN "allow" ELSE "deny"
    OBVIOUS
  <1>6. job.clean => (out = "allow" <=> MayRun(job))
    <2>1. job.clean => /\ job.pol = plugPol /\ job.row.policy = setting[t].policy /\ job.sc = Loaded(u)
                       /\ CheckPermission(u, job.need) /\ setting[t].enabled
      BY <1>2, <1>4 DEF KnowsOfCheck
    <2> QED
      BY <1>4, <1>5, <2>1
  <1>7. CASE Finish(j, job, out)
    BY <1>3, <1>6, <1>7, FinishOK
  <1>8. CASE Finish(j, [job EXCEPT !.clean = FALSE], "deny")
    <2>1. PICK x : x = [job EXCEPT !.clean = FALSE]
      OBVIOUS
    <2>2. ~x.clean
      BY <1>3, <2>1 DEF JobOK, JobShape
    <2> QED
      BY <1>3, <1>8, <2>1, <2>2, FinishOK
  <1> QED
    BY <1>1, <1>4, <1>5, <1>7, <1>8 DEF Evaluate

(* Requests.                                                               *)
Accepted(b, t) ==
    /\ secrets[b.cred].live
    /\ \/ secrets[b.cred].kind = "service" /\ t \in secrets[b.cred].scope
       \/ secrets[b.cred].kind = "user"

UserMay(s, u) == s.userKeys /\ EvalPolicy(s.policy, u, Loaded(u))

(* The callers that the row s of a trigger lets in.                        *)
Admits(s, b, t) ==
    \/ AllowsAnonymous(s) /\ (b.cred \in Secrets => Accepted(b, t))
    \/ /\ b.cred \in Secrets /\ Accepted(b, t)
       /\ IF secrets[b.cred].kind = "service" THEN s.serviceKeys
          ELSE \A u \in secrets[b.cred].user : UserMay(s, u)
    \/ b.cred = "session" /\ \A u \in b.user : UserMay(s, u)

LEMMA MayCallIs ==
  ASSUME NEW b, NEW t, b.t = {t}
  PROVE  MayCall(b) <=> /\ setting[t].enabled /\ (b.foreign => setting[t].origins \/ plugOrig)
                        /\ Admits(setting[t], b, t)
  <1>1. (CHOOSE x \in b.t : TRUE) = t
    BY TheOne
  <1> QED
    BY <1>1 DEF MayCall, Admits, Accepted, UserMay, AllowsAnonymous

LEMMA AdmitsByRow ==
  ASSUME NEW row, NEW s, Resolved(row, s), NEW b, NEW t
  PROVE  Admits(row, b, t) <=> Admits(s, b, t)
  BY DEF Resolved, Admits, UserMay, AllowsAnonymous

LEMMA RequestOf ==
  ASSUME AccessInv, NEW j \in Jobs, NEW job, job = jobs[j], Spot(job) \in Serving
  PROVE  /\ JobOK(job) /\ CacheOK /\ job.need = "http"
         /\ \E r \in Replicas, t \in Triggers :
               /\ job.r = {r} /\ job.t = {t} /\ (CHOOSE x \in jobs[j].t : TRUE) = t
               /\ job.clean => KnowsOfRequest(job, t) /\ (job.pc = "put" => \A k \in ReadsOf(job) : job.read = {Stored(k)})
               /\ MayCall(job) <=> /\ setting[t].enabled /\ (job.foreign => setting[t].origins \/ plugOrig)
                                   /\ Admits(setting[t], job, t)
  <1>1. JobOK(job) /\ CacheOK
    BY DEF AccessInv, JobsOK
  <1>2. PICK r \in Replicas, t \in Triggers : job.r = {r} /\ job.t = {t}
    BY <1>1 DEF JobOK, Placed, One
  <1>3. (CHOOSE x \in jobs[j].t : TRUE) = t
    BY <1>2, TheOne
  <1>4. job.need = "http"
    BY <1>1 DEF JobOK, Placed
  <1>5. job.clean => KnowsOfRequest(job, t) /\ (job.pc = "put" => \A k \in ReadsOf(job) : job.read = {Stored(k)})
    BY <1>1, <1>2 DEF JobOK, Knows
  <1> QED
    BY <1>1, <1>2, <1>3, <1>4, <1>5, MayCallIs

(* A request goes on with what it knows.                                   *)
LEMMA RequestGoes ==
  ASSUME NEW b, JobShape(b), NEW r \in Replicas, NEW t \in Triggers, b.r = {r}, b.t = {t},
         b.need = "http", b.pc \in Serving,
         b.cred = "session" \/ b.pc \in {"httpSubject?", "httpEval"} => One(b.user, Users),
         b.clean => KnowsOfRequest(b, t)
  PROVE  JobOK(b)
  <1>1. Spot(b) = b.pc /\ b.pc # "put" /\ b.pc # "done" /\ b.pc \notin Checking
    BY DEF Spot, Checking, Serving
  <1>2. Placed(b)
    BY <1>1 DEF Placed, One
  <1> QED
    BY <1>1, <1>2 DEF JobOK, Knows

LEMMA ServeHTTPOK ==
  ASSUME AccessInv, NEW j \in Jobs, NEW r \in Replicas, NEW t \in Triggers,
         NEW cred \in Secrets \cup {"none", "session", "preflight"}, NEW u \in Users, NEW foreign \in BOOLEAN,
         ServeHTTP(j, r, t, cred, u, foreign)
  PROVE  Advanced(j)
  <1>1. PICK b : b = [NoJob EXCEPT !.pc = "origins", !.r = {r}, !.t = {t}, !.need = "http", !.cred = cred,
                         !.user = IF cred = "session" THEN {u} ELSE {}, !.foreign = foreign,
                         !.row = setting[t]]
    OBVIOUS
  <1>2. RowShape(setting[t])
    BY DEF AccessInv, StoreOK
  <1>3. /\ JobShape(b) /\ b.pc = "origins" /\ b.r = {r} /\ b.t = {t} /\ b.need = "http" /\ b.row = setting[t]
        /\ b.cred = "session" => b.user = {u}
    BY <1>1, <1>2 DEF NoJob, JobShape
  <1>4. KnowsOfRequest(b, t)
    BY <1>3 DEF KnowsOfRequest, Spot
  <1>5. JobOK(b)
    BY <1>3, <1>4, RequestGoes DEF Serving, One
  <1> QED
    BY <1>1, <1>5, StartOK DEF ServeHTTP, AccessInv

LEMMA ResolveSettingOK ==
  ASSUME AccessInv, NEW j \in Jobs, ResolveSetting(j)
  PROVE  Advanced(j)
  <1>1. PICK job : job = jobs[j]
    OBVIOUS
  <1>2. job.pc = "origins" /\ Spot(job) = "origins"
    BY <1>1 DEF ResolveSetting, JobAt, Spot
  <1>3. JobOK(job) /\ CacheOK /\ job.need = "http"
    BY <1>1, <1>2, RequestOf DEF Serving
  <1>4. PICK r \in Replicas, t \in Triggers : job.r = {r} /\ job.t = {t} /\ (job.clean => KnowsOfRequest(job, t))
    BY <1>1, <1>2, RequestOf DEF Serving
  <1>5. PICK row : row = [job.row EXCEPT !.origins = @ \/ plugOrig]
    OBVIOUS
  <1>6. PICK x : x = [job EXCEPT !.row.origins = @ \/ plugOrig]
    OBVIOUS
  <1>7. RowShape(row) /\ row.enabled = job.row.enabled /\ (job.row = setting[t] => Resolved(row, setting[t]))
    BY <1>3, <1>5 DEF JobOK, JobShape, RowShape, Resolved
  <1>8. /\ JobShape(x) /\ x.row = row /\ x.r = job.r /\ x.t = job.t /\ x.user = job.user /\ x.need = job.need
        /\ x.cred = job.cred /\ x.foreign = job.foreign /\ x.clean = job.clean
    <2>1. x = [job EXCEPT !.row = row]
      BY <1>5, <1>6
    <2> QED
      BY <1>3, <1>7, <2>1 DEF JobOK, JobShape
  <1>9. job.clean => Resolved(x.row, setting[t])
    BY <1>2, <1>4, <1>7, <1>8 DEF KnowsOfRequest
  <1>10. CASE x.row.enabled /\ Go(j, x, "cors")
    <2>1. PICK b : b = [x EXCEPT !.pc = "cors"]
      OBVIOUS
    <2>2. /\ JobShape(b) /\ b.pc = "cors" /\ b.r = {r} /\ b.t = {t} /\ b.need = "http" /\ b.row = x.row
          /\ b.user = job.user /\ b.cred = job.cred /\ b.clean = job.clean
      BY <1>3, <1>4, <1>8, <2>1 DEF JobShape
    <2>3. b.clean => KnowsOfRequest(b, t)
      BY <1>9, <1>10, <2>2 DEF KnowsOfRequest, Spot
    <2>4. job.cred = "session" => One(job.user, Users)
      BY <1>2, <1>3 DEF JobOK, Placed, Serving
    <2>5. JobOK(b)
      BY <2>2, <2>3, <2>4, RequestGoes DEF Serving
    <2> QED
      BY <1>3, <1>10, <2>1, <2>5, GoOK
  <1>11. CASE ~x.row.enabled /\ Finish(j, x, "deny")
    <2>1. x.clean => ~MayCall(x)
      BY <1>4, <1>8, <1>9, <1>11, MayCallIs DEF Resolved
    <2> QED
      BY <1>3, <1>8, <1>11, <2>1, FinishOK
  <1> QED
    BY <1>1, <1>6, <1>10, <1>11 DEF ResolveSetting

LEMMA ApplyCORSOK ==
  ASSUME AccessInv, NEW j \in Jobs, ApplyCORS(j)
  PROVE  Advanced(j)
  <1>1. PICK job : job = jobs[j]
    OBVIOUS
  <1>2. job.pc = "cors" /\ Spot(job) = "cors"
    BY <1>1 DEF ApplyCORS, JobAt, Spot
  <1>3. JobOK(job) /\ CacheOK /\ job.need = "http"
    BY <1>1, <1>2, RequestOf DEF Serving
  <1>4. PICK r \in Replicas, t \in Triggers :
               /\ job.r = {r} /\ job.t = {t} /\ (job.clean => KnowsOfRequest(job, t))
               /\ MayCall(job) <=> /\ setting[t].enabled /\ (job.foreign => setting[t].origins \/ plugOrig)
                                   /\ Admits(setting[t], job, t)
    BY <1>1, <1>2, RequestOf DEF Serving
  <1>5. job.clean => job.row.enabled /\ Resolved(job.row, setting[t])
    BY <1>2, <1>4 DEF KnowsOfRequest
  <1>6. CASE job.foreign /\ ~job.row.origins /\ Finish(j, job, "deny")
    <2>1. job.clean => ~MayCall(job)
      BY <1>4, <1>5, <1>6 DEF Resolved
    <2> QED
      BY <1>3, <1>6, <2>1, FinishOK
  <1>7. CASE Finish(j, [job EXCEPT !.clean = FALSE], "preflight")
    <2>1. PICK x : x = [job EXCEPT !.clean = FALSE]
      OBVIOUS
    <2>2. ~x.clean
      BY <1>3, <2>1 DEF JobOK, JobShape
    <2> QED
      BY <1>3, <1>7, <2>1, <2>2, FinishOK
  <1>8. CASE ~(job.foreign /\ ~job.row.origins) /\ Go(j, job, "principal")
    <2>1. PICK b : b = [job EXCEPT !.pc = "principal"]
      OBVIOUS
    <2>2. /\ JobShape(b) /\ b.pc = "principal" /\ b.r = {r} /\ b.t = {t} /\ b.need = "http" /\ b.row = job.row
          /\ b.user = job.user /\ b.cred = job.cred /\ b.clean = job.clean /\ b.foreign = job.foreign
      BY <1>3, <1>4, <2>1 DEF JobOK, JobShape
    <2>3. b.clean => KnowsOfRequest(b, t)
      BY <1>5, <1>8, <2>2 DEF KnowsOfRequest, Spot
    <2>4. job.cred = "session" => One(job.user, Users)
      BY <1>2, <1>3 DEF JobOK, Placed, Serving
    <2>5. JobOK(b)
      BY <2>2, <2>3, <2>4, RequestGoes DEF Serving
    <2> QED
      BY <1>3, <1>8, <2>1, <2>5, GoOK
  <1> QED
    BY <1>1, <1>6, <1>7, <1>8 DEF ApplyCORS

(* A request whose row is known, before and after its caller is.           *)
Called(x, r, t) ==
    /\ JobShape(x) /\ x.r = {r} /\ x.t = {t} /\ x.need = "http"
    /\ x.cred = "session" => One(x.user, Users)
    /\ x.clean => x.row.enabled /\ Resolved(x.row, setting[t]) /\ (x.foreign => x.row.origins)

LEMMA CalledMay ==
  ASSUME NEW x, NEW r, NEW t, Called(x, r, t), x.clean
  PROVE  MayCall(x) <=> Admits(x.row, x, t)
  <1>1. Admits(x.row, x, t) <=> Admits(setting[t], x, t)
    BY AdmitsByRow DEF Called
  <1>2. setting[t].enabled /\ (x.foreign => setting[t].origins \/ plugOrig)
    BY DEF Called, Resolved
  <1> QED
    BY <1>1, <1>2, MayCallIs DEF Called

LEMMA CalledEnds ==
  ASSUME CacheOK, NEW j \in Jobs, NEW x, NEW r, NEW t, Called(x, r, t), NEW out, Finish(j, x, out),
         x.clean => (out = "allow" <=> Admits(x.row, x, t))
  PROVE  Advanced(j)
  <1>1. x.clean => (out = "allow" <=> MayCall(x))
    BY CalledMay
  <1> QED
    BY <1>1, FinishOK DEF Called

LEMMA CalledGoes ==
  ASSUME CacheOK, NEW j \in Jobs, NEW x, NEW r \in Replicas, NEW t \in Triggers, Called(x, r, t),
         NEW pc, Go(j, x, pc),
         \/ pc \in {"dispatch", "route"} /\ (x.clean => Admits(x.row, x, t))
         \/ pc = "httpSubject?" /\ One(x.user, Users) /\ (x.clean => x.row.userKeys /\ Known(x))
  PROVE  Advanced(j)
  <1>1. PICK b : b = [x EXCEPT !.pc = pc]
    OBVIOUS
  <1>2. /\ JobShape(b) /\ b.pc = pc /\ b.r = {r} /\ b.t = {t} /\ b.need = "http" /\ b.row = x.row
        /\ b.user = x.user /\ b.cred = x.cred /\ b.clean = x.clean /\ b.foreign = x.foreign
    BY <1>1 DEF Called, JobShape
  <1>3. Called(b, r, t)
    BY <1>2 DEF Called
  <1>4. ASSUME b.clean
        PROVE  KnowsOfRequest(b, t)
    <2>1. CASE pc \in {"dispatch", "route"}
      <3>1. Admits(b.row, b, t)
        BY <1>2, <1>4, <2>1 DEF Admits, Accepted
      <3>2. MayCall(b)
        BY <1>3, <1>4, <3>1, CalledMay
      <3> QED
        BY <1>2, <2>1, <3>2 DEF KnowsOfRequest, Spot
    <2>2. CASE pc = "httpSubject?"
      BY <1>2, <1>4, <2>2 DEF KnowsOfRequest, Spot, Called, Known
    <2> QED
      BY <2>1, <2>2
  <1>5. JobOK(b)
    BY <1>2, <1>4, RequestGoes DEF Called, Serving
  <1> QED
    BY <1>1, <1>5, GoOK

LEMMA ForbiddenOK ==
  ASSUME CacheOK, NEW j \in Jobs, NEW x, NEW r \in Replicas, NEW t \in Triggers, Called(x, r, t),
         Forbidden(j, x), x.clean => (Admits(x.row, x, t) <=> AllowsAnonymous(x.row))
  PROVE  Advanced(j)
  <1>1. CASE AllowsAnonymous(x.row) /\ Go(j, x, "dispatch")
    BY <1>1, CalledGoes
  <1>2. CASE ~AllowsAnonymous(x.row) /\ Finish(j, x, "deny")
    BY <1>2, CalledEnds
  <1> QED
    BY <1>1, <1>2 DEF Forbidden

(* A user is let in by the policy, if there is one.                        *)
LEMMA UsersAdmitted ==
  ASSUME NEW x, NEW t, Known(x), NEW u, x.user = {u}
  PROVE  Admits(x.row, x, t) <=> AllowsAnonymous(x.row) \/ UserMay(x.row, u)
  <1>1. "session" \notin Secrets
    BY AccessAssumption
  <1>2. CASE x.cred = "session"
    BY <1>1, <1>2 DEF Admits
  <1>3. CASE x.cred # "session"
    <2>1. x.cred \in Secrets /\ Accepted(x, t) /\ secrets[x.cred].kind # "service" /\ secrets[x.cred].user = {u}
      BY <1>3 DEF Known, Accepted
    <2> QED
      BY <1>3, <2>1 DEF Admits
  <1> QED
    BY <1>2, <1>3

LEMMA AuthorizeUserPrincipalOK ==
  ASSUME CacheOK, NEW j \in Jobs, NEW x, NEW r \in Replicas, NEW t \in Triggers, Called(x, r, t),
         AuthorizeUserPrincipal(j, x), One(x.user, Users), x.clean => Known(x)
  PROVE  Advanced(j)
  <1>1. PICK u \in Users : x.user = {u}
    BY DEF One
  <1>2. x.clean => (Admits(x.row, x, t) <=> AllowsAnonymous(x.row) \/ UserMay(x.row, u))
    BY <1>1, UsersAdmitted
  <1>3. CASE ~x.row.userKeys /\ Forbidden(j, x)
    <2>1. ~UserMay(x.row, u)
      BY <1>3 DEF UserMay
    <2> QED
      BY <1>2, <1>3, <2>1, ForbiddenOK
  <1>4. CASE x.row.userKeys /\ Go(j, x, "httpSubject?")
    BY <1>4, CalledGoes
  <1>5. CASE x.row.userKeys /\ x.row.policy = "" /\ Go(j, x, "dispatch")
    <2>1. EvalPolicy("", u, Loaded(u))
      BY DEF EvalPolicy
    <2>2. UserMay(x.row, u)
      BY <1>5, <2>1 DEF UserMay
    <2> QED
      BY <1>2, <1>5, <2>2, CalledGoes
  <1> QED
    BY <1>3, <1>4, <1>5 DEF AuthorizeUserPrincipal

LEMMA ResolvePrincipalOK ==
  ASSUME AccessInv, NEW j \in Jobs, ResolvePrincipal(j)
  PROVE  Advanced(j)
  <1>1. PICK job : job = jobs[j]
    OBVIOUS
  <1>2. job.pc = "principal" /\ Spot(job) = "principal"
    BY <1>1 DEF ResolvePrincipal, JobAt, Spot
  <1>3. JobOK(job) /\ CacheOK /\ job.need = "http"
    BY <1>1, <1>2, RequestOf DEF Serving
  <1>4. PICK r \in Replicas, t \in Triggers :
            job.r = {r} /\ job.t = {t} /\ (CHOOSE y \in jobs[j].t : TRUE) = t /\ (job.clean => KnowsOfRequest(job, t))
    BY <1>1, <1>2, RequestOf DEF Serving
  <1>5. Called(job, r, t)
    BY <1>2, <1>3, <1>4 DEF Called, KnowsOfRequest, JobOK, Placed, Serving
  <1>6. "session" \notin Secrets
    BY AccessAssumption
  <1>7. CASE job.cred \in Secrets
    <2>1. PICK s \in Secrets : s = job.cred
      BY <1>7
    <2>2. secrets[s].kind = "user" => One(secrets[s].user, Users)
      BY DEF AccessInv, StoreOK
    <2>3. ResolveBearerPrincipal(j, job) /\ (CHOOSE y \in job.t : TRUE) = t
      BY <1>1, <1>4, <1>6, <1>7 DEF ResolvePrincipal
    <2>4. CASE AuthenticateUserToken(s) /\ AuthorizeUserPrincipal(j, [job EXCEPT !.user = secrets[s].user])
      <3>1. PICK x : x = [job EXCEPT !.user = secrets[s].user]
        OBVIOUS
      <3>2. /\ JobShape(x) /\ x.user = secrets[s].user /\ x.r = job.r /\ x.t = job.t /\ x.need = job.need
            /\ x.cred = job.cred /\ x.clean = job.clean /\ x.foreign = job.foreign /\ x.row = job.row
        BY <1>3, <3>1 DEF JobOK, JobShape
      <3>3. Called(x, r, t)
        BY <1>5, <1>6, <2>1, <3>2 DEF Called
      <3>4. One(x.user, Users) /\ Known(x)
        BY <2>1, <2>2, <2>4, <3>2 DEF Known, AuthenticateUserToken
      <3> QED
        BY <1>3, <2>4, <3>1, <3>3, <3>4, AuthorizeUserPrincipalOK
    <2>5. CASE AuthenticateServiceKey(s, t)
      <3>1. Accepted(job, t) /\ secrets[job.cred].kind = "service"
        BY <2>1, <2>5 DEF Accepted, AuthenticateServiceKey
      <3>2. Admits(job.row, job, t) <=> AllowsAnonymous(job.row) \/ job.row.serviceKeys
        BY <1>6, <1>7, <3>1 DEF Admits
      <3>3. CASE job.row.serviceKeys /\ Go(j, job, "dispatch")
        BY <1>3, <1>5, <3>2, <3>3, CalledGoes
      <3>4. CASE ~job.row.serviceKeys /\ Forbidden(j, job)
        BY <1>3, <1>5, <3>2, <3>4, ForbiddenOK
      <3>5. ~AuthenticateUserToken(s)
        BY <2>5 DEF AuthenticateUserToken, AuthenticateServiceKey
      <3> QED
        BY <2>1, <2>3, <2>5, <3>3, <3>4, <3>5 DEF ResolveBearerPrincipal
    <2>6. CASE ~AuthenticateUserToken(s) /\ ~AuthenticateServiceKey(s, t) /\ Finish(j, job, "unauthorized")
      <3>1. ~Accepted(job, t)
        BY <2>1, <2>6 DEF Accepted, AuthenticateUserToken, AuthenticateServiceKey
      <3>2. ~Admits(job.row, job, t)
        BY <1>6, <1>7, <3>1 DEF Admits
      <3> QED
        BY <1>3, <1>5, <2>6, <3>2, CalledEnds
    <2> QED
      BY <2>1, <2>3, <2>4, <2>5, <2>6 DEF ResolveBearerPrincipal
  <1>8. CASE job.cred = "session"
    <2>1. AuthorizeUserPrincipal(j, job)
      BY <1>1, <1>6, <1>8 DEF ResolvePrincipal
    <2> QED
      BY <1>3, <1>5, <1>8, <2>1, AuthorizeUserPrincipalOK DEF Called, Known
  <1>9. CASE job.cred \notin Secrets /\ job.cred # "session"
    <2>1. Admits(job.row, job, t) <=> AllowsAnonymous(job.row)
      BY <1>9 DEF Admits
    <2>2. CASE AllowsAnonymous(job.row)
      <3>1. Go(j, job, "dispatch")
        BY <1>1, <1>9, <2>2 DEF ResolvePrincipal
      <3> QED
        BY <1>3, <1>5, <2>1, <2>2, <3>1, CalledGoes
    <2>3. CASE ~AllowsAnonymous(job.row)
      <3>1. PICK o \in LoginRedirect(job) : Finish(j, job, o)
        BY <1>1, <1>9, <2>3 DEF ResolvePrincipal
      <3>2. o # "allow"
        BY DEF LoginRedirect
      <3> QED
        BY <1>3, <1>5, <2>1, <2>3, <3>1, <3>2, CalledEnds
    <2> QED
      BY <2>2, <2>3
  <1> QED
    BY <1>7, <1>8, <1>9

LEMMA HttpSubjectOK ==
  ASSUME AccessInv, NEW j \in Jobs, HttpSubject(j)
  PROVE  Advanced(j)
  <1>1. PICK job : job = jobs[j]
    OBVIOUS
  <1>2. Spot(job) = "httpSubject?" /\ (job.pc = "put" => job.next = "httpEval")
    BY <1>1 DEF HttpSubject, PutBack, JobAt, Spot
  <1>3. JobOK(job) /\ job.need = "http"
    BY <1>1, <1>2, RequestOf DEF Serving
  <1>4. PICK r \in Replicas, t \in Triggers :
               /\ job.r = {r} /\ job.t = {t}
               /\ job.clean => KnowsOfRequest(job, t) /\ (job.pc = "put" => \A k \in ReadsOf(job) : job.read = {Stored(k)})
    BY <1>1, <1>2, RequestOf DEF Serving
  <1>5. PICK u \in Users : job.user = {u}
    BY <1>2, <1>3 DEF JobOK, Placed, One
  <1>6. (CHOOSE x \in jobs[j].user : TRUE) = u
    BY <1>1, <1>5, TheOne
  <1>7. u \in Keys /\ u # Plugin /\ u \notin Triggers
    BY AccessAssumption DEF Keys, Plugin
  <1>8. ASSUME NEW b, Reading(b, job, u, "httpEval")
        PROVE  JobOK(b)
    <2>1. Spot(b) = "httpSubject?" /\ b.pc = "put" /\ b.next = "httpEval" /\ JobShape(b)
      BY <1>8 DEF Spot, Reading, Same
    <2>2. Placed(b)
      BY <1>3, <1>4, <1>5, <1>8, <2>1 DEF Placed, Reading, Same, One, Checking
    <2>3. b.clean => KnowsOfRequest(b, t) /\ b.read = {Stored(u)}
      BY <1>2, <1>4, <1>8, <2>1 DEF KnowsOfRequest, Known, Reading, Same
    <2> QED
      BY <1>4, <1>5, <1>8, <2>1, <2>2, <2>3 DEF JobOK, Knows, ReadsOf, Reading, Same, Checking
  <1>9. ASSUME NEW b, TookIn(b, job, u, "httpEval")
        PROVE  JobOK(b)
    <2>1. Spot(b) = "httpEval" /\ b.pc = "httpEval" /\ JobShape(b)
      BY <1>9 DEF Spot, TookIn, Same
    <2>2. Stored(u) = Loaded(u)
      BY <1>7 DEF Stored
    <2>3. b.clean => b.row = job.row /\ b.sc = Loaded(u) /\ job.clean
      BY <1>7, <1>9, <2>2 DEF TookIn
    <2>4. b.clean => KnowsOfRequest(b, t)
      BY <1>2, <1>4, <1>5, <1>9, <2>1, <2>3 DEF KnowsOfRequest, Known, TookIn, Same
    <2> QED
      BY <1>3, <1>4, <1>5, <1>9, <2>1, <2>4, RequestGoes DEF TookIn, Same, Serving, One
  <1>10. CASE job.pc # "put"
    <2>1. Fetch(j, u, "httpEval")
      BY <1>1, <1>6, <1>10 DEF HttpSubject, PutBack, JobAt
    <2> QED
      BY <1>1, <1>4, <1>7, <1>8, <1>9, <2>1, FetchOK DEF Advanced
  <1>11. CASE job.pc = "put"
    <2>1. PutBack(j, u, "httpEval")
      BY <1>1, <1>6, <1>11 DEF HttpSubject, JobAt
    <2>2. job.clean => job.read = {Stored(u)}
      BY <1>2, <1>4, <1>5, <1>11 DEF ReadsOf
    <2> QED
      BY <1>1, <1>4, <1>7, <1>9, <2>1, <2>2, PutBackOK DEF Advanced
  <1> QED
    BY <1>10, <1>11

LEMMA HttpEvalOK ==
  ASSUME AccessInv, NEW j \in Jobs, HttpEval(j)
  PROVE  Advanced(j)
  <1>1. PICK job : job = jobs[j]
    OBVIOUS
  <1>2. job.pc = "httpEval" /\ Spot(job) = "httpEval"
    BY <1>1 DEF HttpEval, JobAt, Spot
  <1>3. JobOK(job) /\ CacheOK /\ job.need = "http"
    BY <1>1, <1>2, RequestOf DEF Serving
  <1>4. PICK r \in Replicas, t \in Triggers :
            job.r = {r} /\ job.t = {t} /\ (job.clean => KnowsOfRequest(job, t))
    BY <1>1, <1>2, RequestOf DEF Serving
  <1>5. PICK u \in Users : job.user = {u}
    BY <1>2, <1>3 DEF JobOK, Placed, One
  <1>6. (CHOOSE x \in jobs[j].user : TRUE) = u
    BY <1>1, <1>5, TheOne
  <1>7. Called(job, r, t)
    BY <1>2, <1>3, <1>4, <1>5 DEF Called, KnowsOfRequest, JobOK, One
  <1>8. job.clean => job.row.userKeys /\ Known(job) /\ job.sc = Loaded(u)
    BY <1>2, <1>4, <1>5 DEF KnowsOfRequest
  <1>9. job.clean => (Admits(job.row, job, t) <=> EvalPolicy(job.row.policy, u, job.sc))
    <2>1. job.clean => (Admits(job.row, job, t) <=> AllowsAnonymous(job.row) \/ UserMay(job.row, u))
      BY <1>5, <1>8, UsersAdmitted
    <2> QED
      BY <1>8, <2>1 DEF AllowsAnonymous, UserMay
  <1>10. CASE EvalPolicy(job.row.policy, u, job.sc) /\ Go(j, job, "dispatch")
    BY <1>3, <1>7, <1>9, <1>10, CalledGoes
  <1>11. CASE ~EvalPolicy(job.row.policy, u, job.sc) /\ Finish(j, job, "deny")
    BY <1>3, <1>7, <1>9, <1>11, CalledEnds
  <1> QED
    BY <1>1, <1>6, <1>10, <1>11 DEF HttpEval

LEMMA DispatchOK ==
  ASSUME AccessInv, NEW j \in Jobs, BuildHTTPEvent(j) \/ DispatchHTTPEvent(j)
  PROVE  Advanced(j)
  <1>1. PICK job : job = jobs[j]
    OBVIOUS
  <1>2. job.pc \in {"dispatch", "route"} /\ Spot(job) = job.pc
    BY <1>1 DEF BuildHTTPEvent, DispatchHTTPEvent, JobAt, Spot
  <1>3. JobOK(job) /\ CacheOK /\ job.need = "http"
    BY <1>1, <1>2, RequestOf DEF Serving
  <1>4. PICK r \in Replicas, t \in Triggers :
               /\ job.r = {r} /\ job.t = {t} /\ (job.clean => KnowsOfRequest(job, t))
               /\ MayCall(job) <=> /\ setting[t].enabled /\ (job.foreign => setting[t].origins \/ plugOrig)
                                   /\ Admits(setting[t], job, t)
    BY <1>1, <1>2, RequestOf DEF Serving
  <1>5. job.clean => MayCall(job)
    BY <1>2, <1>4 DEF KnowsOfRequest
  <1>6. CASE Go(j, job, "route")
    <2>1. PICK b : b = [job EXCEPT !.pc = "route"]
      OBVIOUS
    <2>2. /\ JobShape(b) /\ b.pc = "route" /\ b.r = {r} /\ b.t = {t} /\ b.need = "http" /\ b.row = job.row
          /\ b.user = job.user /\ b.cred = job.cred /\ b.clean = job.clean /\ b.foreign = job.foreign
      BY <1>3, <1>4, <2>1 DEF JobOK, JobShape
    <2>3. Admits(setting[t], b, t) <=> Admits(setting[t], job, t)
      BY <2>2 DEF Admits, Accepted
    <2>4. b.clean => MayCall(b)
      BY <1>4, <1>5, <2>2, <2>3, MayCallIs
    <2>5. b.clean => KnowsOfRequest(b, t)
      BY <2>2, <2>4 DEF KnowsOfRequest, Spot
    <2>6. job.cred = "session" => One(job.user, Users)
      BY <1>2, <1>3 DEF JobOK, Placed, Serving
    <2>7. JobOK(b)
      BY <2>2, <2>5, <2>6, RequestGoes DEF Serving
    <2> QED
      BY <1>3, <1>6, <2>1, <2>7, GoOK
  <1>7. CASE Finish(j, [job EXCEPT !.clean = FALSE], "error")
    <2>1. PICK x : x = [job EXCEPT !.clean = FALSE]
      OBVIOUS
    <2>2. ~x.clean
      BY <1>3, <2>1 DEF JobOK, JobShape
    <2> QED
      BY <1>3, <1>7, <2>1, <2>2, FinishOK
  <1>8. CASE Finish(j, job, "allow")
    BY <1>3, <1>5, <1>8, FinishOK
  <1> QED
    BY <1>1, <1>6, <1>7, <1>8 DEF BuildHTTPEvent, DispatchHTTPEvent

(* Saves: every check under way is one that overlapped a change.           *)
LEMMA SavedJobs ==
  ASSUME JobsOK, Saved
  PROVE  JobsOK'
  <1>1. jobs' = [j \in Jobs |-> [jobs[j] EXCEPT !.clean = jobs[j].pc = "done" /\ jobs[j].clean]]
    BY DEF Saved
  <1>2. ASSUME NEW j \in Jobs, NEW b \in {jobs'[j]}
        PROVE  JobOK(b)'
    <2>1. PICK job : job = jobs[j] /\ JobOK(job)
      BY DEF JobsOK
    <2>2. b = [job EXCEPT !.clean = job.pc = "done" /\ job.clean]
      BY <1>1, <1>2, <2>1
    <2>3. /\ JobShape(b) /\ (b.clean => job.pc = "done" /\ job.clean) /\ b.right = job.right
          /\ b.pc = job.pc /\ b.next = job.next /\ b.r = job.r /\ b.t = job.t /\ b.user = job.user
          /\ b.need = job.need /\ b.cred = job.cred
      BY <2>1, <2>2 DEF JobOK, JobShape
    <2>4. Placed(b)
      BY <2>1, <2>3 DEF JobOK, Placed, Spot
    <2>5. b.clean => b.pc = "done" /\ b.right
      BY <2>1, <2>3 DEF JobOK, Knows
    <2> QED
      BY <2>3, <2>4, <2>5 DEF JobOK, Knows, Spot, Checking, Serving
  <1>3. jobs' = [j \in Jobs |-> jobs'[j]]
    BY <1>1
  <1> QED
    BY <1>2, <1>3 DEF JobsOK

LEMMA TTLNat ==
  ASSUME NEW k
  PROVE  TTL(k) \in Nat
  BY DEF TTL

(* The replicas may hold older values of K for as long as entries last.    *)
LEMMA TouchedCaches ==
  ASSUME CacheOK, NEW K, UNCHANGED cache,
         stale' = [r \in Replicas |-> [k \in Keys |-> IF k \in K THEN TTL(k) ELSE stale[r][k]]],
         \A k \in Keys \ K : Stored(k)' = Stored(k)
  PROVE  CacheOK'
  <1>1. ASSUME NEW r \in Replicas, NEW k \in Keys
        PROVE  Fresh(cache'[r][k], stale'[r][k], k, Stored(k)')
    <2>1. Fresh(cache[r][k], stale[r][k], k, Stored(k))
      BY DEF CacheOK
    <2>2. stale'[r][k] = IF k \in K THEN TTL(k) ELSE stale[r][k]
      OBVIOUS
    <2>3. CASE k \in K
      BY <2>1, <2>2, <2>3, TTLNat DEF Fresh
    <2>4. CASE k \notin K
      BY <2>1, <2>2, <2>4
    <2> QED
      BY <2>3, <2>4
  <1>2. stale' = [r \in Replicas |-> [k \in Keys |-> stale'[r][k]]]
    OBVIOUS
  <1>3. cache' = [r \in Replicas |-> [k \in Keys |-> cache'[r][k]]]
    BY DEF CacheOK
  <1> QED
    BY <1>1, <1>2, <1>3 DEF CacheOK

LEMMA TouchesOK ==
  ASSUME CacheOK, NEW q \in Keys, Touches(q), \A k \in Keys \ {q} : Stored(k)' = Stored(k)
  PROVE  CacheOK'
  <1>1. stale' = [r \in Replicas |-> [k \in Keys |-> IF k \in {q} THEN TTL(k) ELSE stale[r][k]]]
    <2>1. stale = [r \in Replicas |-> [k \in Keys |-> stale[r][k]]]
      BY DEF CacheOK
    <2>2. stale' = [r \in Replicas |-> [stale[r] EXCEPT ![q] = TTL(q)]]
      BY DEF Touches
    <2>3. ASSUME NEW r \in Replicas
          PROVE  [stale[r] EXCEPT ![q] = TTL(q)] = [k \in Keys |-> IF k \in {q} THEN TTL(k) ELSE stale[r][k]]
      <3>1. stale[r] = [k \in Keys |-> stale[r][k]]
        BY <2>1
      <3> QED
        BY <3>1
    <2> QED
      BY <2>2, <2>3
  <1>2. UNCHANGED cache
    BY DEF Touches
  <1> QED
    BY <1>1, <1>2, TouchedCaches

(* A save of anything the caches do not hold.                              *)
LEMMA UncachedOK ==
  ASSUME CacheOK, UNCHANGED <<cache, stale, setting, plugPol, roleOf, linked>>
  PROVE  CacheOK'
  <1>1. \A k \in Keys : Stored(k)' = Stored(k)
    BY DEF Stored, GetCommandPolicy, GetPluginPolicy, Loaded, GetAllRoleNames, GetExternalID
  <1> QED
    BY <1>1 DEF CacheOK

LEMMA SettingSaveOK ==
  ASSUME AccessInv, NEW r, NEW t \in Triggers, NEW s, RowShape(s), setting' = [setting EXCEPT ![t] = s],
         \/ SettingSave(r, t)
         \/ /\ Saved /\ Touches(t)
            /\ UNCHANGED <<plugPol, plugOrig, roleOf, linked, graph, secrets>>
  PROVE  AccessInv'
  <1>1. /\ StoreOK /\ CacheOK /\ JobsOK /\ Saved /\ Touches(t)
        /\ UNCHANGED <<plugPol, plugOrig, roleOf, linked, graph, secrets>>
    BY DEF AccessInv, SettingSave
  <1>2. StoreOK'
    BY <1>1 DEF StoreOK, One
  <1>3. \A k \in Keys \ {t} : Stored(k)' = Stored(k)
    BY <1>1 DEF StoreOK, Stored, GetCommandPolicy, GetPluginPolicy, Loaded, GetAllRoleNames, GetExternalID
  <1>4. CacheOK'
    BY <1>1, <1>3, TouchesOK DEF Keys
  <1> QED
    BY <1>1, <1>2, <1>4, SavedJobs DEF AccessInv

LEMMA ConsoleSettingOK ==
  ASSUME AccessInv, NEW r, NEW t \in Triggers, NEW v, NEW w,
         \/ HandleSetEnabled(r, t, v) \/ HandleSetAccess(r, t, v, w)
         \/ HandleSetPolicy(r, t, v) \/ HandleSetAllowedOrigins(r, t, v)
  PROVE  AccessInv'
  <1>1. RowShape(setting[t])
    BY DEF AccessInv, StoreOK
  <1>2. CASE HandleSetEnabled(r, t, v)
    <2>1. PICK s : s = [setting[t] EXCEPT !.enabled = v]
      OBVIOUS
    <2>2. RowShape(s) /\ setting' = [setting EXCEPT ![t] = s] /\ SettingSave(r, t)
      BY <1>1, <1>2, <2>1 DEF RowShape, HandleSetEnabled, SetCommandEnabled, Row
    <2> QED
      BY <2>2, SettingSaveOK
  <1>3. CASE HandleSetAccess(r, t, v, w)
    <2>1. PICK s : s = [setting[t] EXCEPT !.userKeys = v, !.serviceKeys = w]
      OBVIOUS
    <2>2. RowShape(s) /\ setting' = [setting EXCEPT ![t] = s] /\ SettingSave(r, t)
      BY <1>1, <1>3, <2>1 DEF RowShape, HandleSetAccess, SetTriggerAccess
    <2> QED
      BY <2>2, SettingSaveOK
  <1>4. CASE HandleSetPolicy(r, t, v)
    <2>1. PICK s : s = [setting[t] EXCEPT !.policy = v]
      OBVIOUS
    <2>2. RowShape(s) /\ setting' = [setting EXCEPT ![t] = s] /\ SettingSave(r, t)
      BY <1>1, <1>4, <2>1 DEF RowShape, HandleSetPolicy, SetPolicyExpression, Row
    <2> QED
      BY <2>2, SettingSaveOK
  <1>5. CASE HandleSetAllowedOrigins(r, t, v)
    <2>1. PICK s : s = [setting[t] EXCEPT !.origins = v]
      OBVIOUS
    <2>2. RowShape(s) /\ setting' = [setting EXCEPT ![t] = s] /\ SettingSave(r, t)
      BY <1>1, <1>5, <2>1 DEF RowShape, HandleSetAllowedOrigins, SetAllowedOrigins, Row
    <2> QED
      BY <2>2, SettingSaveOK
  <1> QED
    BY <1>2, <1>3, <1>4, <1>5

(* The other saves.                                                        *)
LEMMA OtherSaveOK ==
  ASSUME AccessInv,
         \/ \E r \in Consoles, p \in Policies : HandleSetPluginPolicy(r, p)
         \/ \E v \in BOOLEAN : HandleSetPluginFrontendOrigins(v)
         \/ \E t \in Triggers : DropSettings(t)
         \/ DropAllSettings
         \/ \E u \in Users : PersonLink(u) \/ HandleUpdateUser(u) \/ \E r \in Consoles : HandleRemoveUserRole(r, u)
  PROVE  AccessInv'
  <1>1. StoreOK /\ CacheOK /\ JobsOK
    BY DEF AccessInv
  <1>2. ASSUME StoreOK', CacheOK', Saved
        PROVE  AccessInv'
    BY <1>1, <1>2, SavedJobs DEF AccessInv
  <1>3. CASE \E r \in Consoles, p \in Policies : HandleSetPluginPolicy(r, p)
    <2>1. PICK r \in Consoles, p \in Policies : HandleSetPluginPolicy(r, p)
      BY <1>3
    <2>2. /\ Saved /\ Touches(Plugin) /\ UNCHANGED <<setting, plugOrig, roleOf, linked, graph, secrets>>
      BY <2>1 DEF HandleSetPluginPolicy
    <2>3. \A k \in Keys \ {Plugin} : Stored(k)' = Stored(k)
      BY <2>2 DEF Keys, Stored, GetCommandPolicy, Loaded, GetAllRoleNames, GetExternalID
    <2>4. StoreOK' /\ CacheOK'
      BY <1>1, <2>2, <2>3, TouchesOK DEF StoreOK, One, RowShape, Keys
    <2> QED
      BY <1>2, <2>2, <2>4
  <1>4. CASE \E v \in BOOLEAN : HandleSetPluginFrontendOrigins(v)
    <2>1. Saved /\ UNCHANGED <<setting, plugPol, roleOf, linked, secrets, cache, stale>>
      BY <1>4 DEF HandleSetPluginFrontendOrigins
    <2>2. StoreOK' /\ CacheOK'
      BY <1>1, <2>1, UncachedOK DEF StoreOK, One, RowShape
    <2> QED
      BY <1>2, <2>1, <2>2
  <1>5. CASE \E t \in Triggers : DropSettings(t)
    <2>1. PICK t \in Triggers : DropSettings(t)
      BY <1>5
    <2>2. RowShape(Default)
      BY DEF RowShape, Default
    <2>3. /\ setting' = [setting EXCEPT ![t] = Default] /\ Saved /\ Touches(t)
          /\ UNCHANGED <<plugPol, plugOrig, roleOf, linked, graph, secrets>>
      BY <2>1 DEF DropSettings, DeleteCommandSettings
    <2> QED
      BY <2>2, <2>3, SettingSaveOK
  <1>6. CASE DropAllSettings
    <2>1. /\ setting' = [t \in Triggers |-> Default] /\ Saved
          /\ UNCHANGED <<plugPol, roleOf, linked, graph, secrets, cache>>
          /\ stale' = [r \in Replicas |-> [k \in Keys |-> IF k \in Triggers THEN TTL(k) ELSE stale[r][k]]]
      BY <1>6 DEF DropAllSettings, DeleteAllPluginCommandSettings
    <2>2. StoreOK'
      <3>1. RowShape(Default)
        BY DEF RowShape, Default
      <3> QED
        BY <1>1, <2>1, <3>1 DEF StoreOK, One
    <2>3. \A k \in Keys \ Triggers : Stored(k)' = Stored(k)
      BY <2>1 DEF Stored, GetPluginPolicy, Loaded, GetAllRoleNames, GetExternalID
    <2>4. CacheOK'
      BY <1>1, <2>1, <2>3, TouchedCaches
    <2> QED
      BY <1>2, <2>1, <2>2, <2>4
  <1>7. CASE \E u \in Users : PersonLink(u) \/ HandleUpdateUser(u) \/ \E r \in Consoles : HandleRemoveUserRole(r, u)
    <2>1. PICK u \in Users : PersonLink(u) \/ HandleUpdateUser(u) \/ \E r \in Consoles : HandleRemoveUserRole(r, u)
      BY <1>7
    <2>2. /\ Saved /\ Touches(u) /\ UNCHANGED <<setting, plugPol, plugOrig, graph, secrets>>
          /\ \/ UNCHANGED roleOf /\ linked' = IF u \in linked THEN linked \ {u} ELSE linked \cup {u}
             \/ UNCHANGED linked /\ \E x : roleOf' = [roleOf EXCEPT ![u] = x]
      BY <2>1 DEF PersonLink, HandleUpdateUser, HandleRemoveUserRole, UpdateUser, RemoveRole
    <2>3. roleOf' = [v \in Users |-> roleOf'[v]] /\ \A v \in Users \ {u} : roleOf'[v] = roleOf[v] /\ (v \in linked' <=> v \in linked)
      BY <1>1, <2>2 DEF StoreOK
    <2>4. u \notin Triggers /\ u # Plugin
      BY AccessAssumption DEF Plugin
    <2>5. \A k \in Keys \ {u} : Stored(k)' = Stored(k)
      BY <2>2, <2>3 DEF Keys, Stored, GetCommandPolicy, GetPluginPolicy, Loaded, GetAllRoleNames, GetExternalID
    <2>6. StoreOK'
      BY <1>1, <2>2, <2>3 DEF StoreOK, One, RowShape
    <2>7. CacheOK'
      BY <1>1, <2>2, <2>5, TouchesOK DEF Keys
    <2> QED
      BY <1>2, <2>2, <2>6, <2>7
  <1> QED
    BY <1>3, <1>4, <1>5, <1>6, <1>7

(* Relationships, keys and tokens, which no cache holds.                   *)
LEMMA SecretSaveOK ==
  ASSUME AccessInv,
         \/ \E u \in Users, o \in {"group", "role"} : HandleCreateRelationship(u, o) \/ HandleDeleteRelationship(u, o)
         \/ \E s \in Secrets :
               \/ \E scope \in SUBSET (Triggers \cup {"other"}) : HandleCreateKey(s, scope)
               \/ \E u \in Users : HandleCreateToken(s, u) \/ HandleDeleteToken(s, u)
               \/ HandleDeleteKey(s) \/ ExpireSecret(s)
  PROVE  AccessInv'
  <1>1. StoreOK /\ CacheOK /\ JobsOK
    BY DEF AccessInv
  <1>2. ASSUME NEW s \in Secrets, NEW rec, Saved, secrets' = [secrets EXCEPT ![s] = rec],
               rec = [kind |-> rec.kind, user |-> rec.user, scope |-> rec.scope, live |-> rec.live],
               rec.kind = "user" => One(rec.user, Users),
               UNCHANGED <<setting, plugPol, plugOrig, roleOf, linked, cache, stale>>
        PROVE  AccessInv'
    <2>1. StoreOK'
      BY <1>1, <1>2 DEF StoreOK, RowShape, One
    <2>2. CacheOK'
      BY <1>1, <1>2, UncachedOK
    <2> QED
      BY <1>1, <1>2, <2>1, <2>2, SavedJobs DEF AccessInv
  <1>3. ASSUME NEW s \in Secrets, NEW rec, NewSecret(s, rec) \/ LoseSecret(s, rec),
               rec = [kind |-> rec.kind, user |-> rec.user, scope |-> rec.scope, live |-> rec.live],
               rec.kind = "user" => One(rec.user, Users)
        PROVE  AccessInv'
    BY <1>2, <1>3 DEF NewSecret, LoseSecret
  <1>4. CASE \E u \in Users, o \in {"group", "role"} : HandleCreateRelationship(u, o) \/ HandleDeleteRelationship(u, o)
    <2>1. Saved /\ UNCHANGED <<setting, plugPol, plugOrig, roleOf, linked, secrets, cache, stale>>
      BY <1>4 DEF HandleCreateRelationship, HandleDeleteRelationship, Relationship
    <2>2. StoreOK' /\ CacheOK'
      BY <1>1, <2>1, UncachedOK DEF StoreOK, RowShape, One
    <2> QED
      BY <1>1, <2>1, <2>2, SavedJobs DEF AccessInv
  <1>5. ASSUME NEW s \in Secrets, NEW scope, HandleCreateKey(s, scope)
        PROVE  AccessInv'
    <2>1. PICK rec : rec = [kind |-> "service", user |-> {}, scope |-> scope, live |-> TRUE]
      OBVIOUS
    <2>2. /\ rec = [kind |-> rec.kind, user |-> rec.user, scope |-> rec.scope, live |-> rec.live]
          /\ rec.kind # "user"
      BY <2>1
    <2> QED
      BY <1>3, <1>5, <2>1, <2>2 DEF HandleCreateKey, CreateServiceKey
  <1>6. ASSUME NEW s \in Secrets, NEW u \in Users, HandleCreateToken(s, u)
        PROVE  AccessInv'
    <2>1. PICK rec : rec = [kind |-> "user", user |-> {u}, scope |-> {}, live |-> TRUE]
      OBVIOUS
    <2>2. /\ rec = [kind |-> rec.kind, user |-> rec.user, scope |-> rec.scope, live |-> rec.live]
          /\ One(rec.user, Users)
      BY <2>1 DEF One
    <2> QED
      BY <1>3, <1>6, <2>1, <2>2 DEF HandleCreateToken, CreateUserToken
  <1>7. ASSUME NEW s \in Secrets,
               (\E u \in Users : HandleDeleteToken(s, u)) \/ HandleDeleteKey(s) \/ ExpireSecret(s)
        PROVE  AccessInv'
    <2>1. PICK rec : /\ LoseSecret(s, rec)
                     /\ \/ rec = [secrets[s] EXCEPT !.live = FALSE]
                        \/ rec = [secrets[s] EXCEPT !.live = FALSE, !.scope = {}]
      BY <1>7 DEF HandleDeleteToken, HandleDeleteKey, ExpireSecret, DeleteUserToken, DeleteServiceKey
    <2>2. /\ rec = [kind |-> rec.kind, user |-> rec.user, scope |-> rec.scope, live |-> rec.live]
          /\ rec.kind = secrets[s].kind /\ rec.user = secrets[s].user
      BY <1>1, <2>1 DEF StoreOK
    <2>3. rec.kind = "user" => One(rec.user, Users)
      BY <1>1, <2>2 DEF StoreOK
    <2> QED
      BY <1>3, <2>1, <2>2, <2>3
  <1> QED
    BY <1>4, <1>5, <1>6, <1>7

LEMMA InvalidateOK ==
  ASSUME AccessInv, NEW r \in Replicas, NEW k \in Keys, Invalidate(r, k)
  PROVE  AccessInv'
  <1>1. /\ cache' = [cache EXCEPT ![r][k] = NoEntry] /\ stale' = [stale EXCEPT ![r][k] = 0]
        /\ UNCHANGED storeVars /\ UNCHANGED jobs
    BY DEF Invalidate, DeleteEntry
  <1>2. /\ cache' = [q \in Replicas |-> [i \in Keys |-> cache'[q][i]]]
        /\ stale' = [q \in Replicas |-> [i \in Keys |-> stale'[q][i]]]
        /\ cache'[r][k] = NoEntry /\ stale'[r][k] = 0
        /\ \A q \in Replicas, i \in Keys :
              q # r \/ i # k => cache'[q][i] = cache[q][i] /\ stale'[q][i] = stale[q][i]
    BY <1>1, ZenonT(30) DEF AccessInv, CacheOK
  <1>3. ASSUME NEW q \in Replicas, NEW i \in Keys
        PROVE  Fresh(cache'[q][i], stale'[q][i], i, Stored(i)')
    <2>1. Stored(i)' = Stored(i) /\ Fresh(cache[q][i], stale[q][i], i, Stored(i))
      BY <1>1, StoredKept DEF AccessInv, CacheOK
    <2>2. Fresh(NoEntry, 0, i, Stored(i))
      BY TTLNat DEF Fresh, NoEntry
    <2> QED
      BY <1>2, <2>1, <2>2
  <1>4. StoreOK' /\ CacheOK'
    BY <1>1, <1>2, <1>3 DEF AccessInv, StoreOK, CacheOK, storeVars, RowShape, One
  <1>5. JobsOK'
    BY <1>1, JobOKKept DEF AccessInv, JobsOK
  <1> QED
    BY <1>4, <1>5 DEF AccessInv

LEMMA CacheTickOK ==
  ASSUME AccessInv, CacheTick
  PROVE  AccessInv'
  <1>1. /\ cache' = [r \in Replicas |-> [k \in Keys |->
                        [cache[r][k] EXCEPT !.left = IF cache[r][k].left = 0 THEN 0 ELSE cache[r][k].left - 1]]]
        /\ stale' = [r \in Replicas |-> [k \in Keys |-> IF stale[r][k] = 0 THEN 0 ELSE stale[r][k] - 1]]
        /\ UNCHANGED storeVars /\ UNCHANGED jobs
    BY DEF CacheTick
  <1>2. ASSUME NEW q \in Replicas, NEW i \in Keys
        PROVE  Fresh(cache'[q][i], stale'[q][i], i, Stored(i)')
    <2>1. Stored(i)' = Stored(i) /\ Fresh(cache[q][i], stale[q][i], i, Stored(i))
      BY <1>1, StoredKept DEF AccessInv, CacheOK
    <2>2. PICK c, n : c = cache'[q][i] /\ n = stale'[q][i]
      OBVIOUS
    <2>3. PICK d, m : d = cache[q][i] /\ m = stale[q][i]
      OBVIOUS
    <2>4. c = [d EXCEPT !.left = IF d.left = 0 THEN 0 ELSE d.left - 1] /\ n = IF m = 0 THEN 0 ELSE m - 1
      BY <1>1, <2>2, <2>3
    <2>5. d = [val |-> d.val, left |-> d.left] /\ d.left \in Nat /\ m \in Nat /\ d.left <= TTL(i) /\ TTL(i) \in Nat
      BY <2>1, <2>3, TTLNat DEF Fresh
    <2>6. c = [val |-> c.val, left |-> c.left] /\ c.val = d.val /\ c.left = IF d.left = 0 THEN 0 ELSE d.left - 1
      BY <2>4, <2>5
    <2>7. c.left \in Nat /\ n \in Nat /\ c.left <= TTL(i)
      BY <2>4, <2>5, <2>6
    <2>8. ASSUME c.left > 0
          PROVE  \E x \in c.val : c.val = {x} /\ (x # Stored(i) => n >= c.left)
      <3>1. d.left > 0 /\ c.left = d.left - 1
        BY <2>5, <2>6, <2>8
      <3>2. PICK x \in d.val : d.val = {x} /\ (x # Stored(i) => m >= d.left)
        BY <2>1, <2>3, <3>1 DEF Fresh
      <3>3. x # Stored(i) => n >= c.left
        BY <2>4, <2>5, <3>1, <3>2
      <3> QED
        BY <2>6, <3>2, <3>3
    <2>9. Fresh(c, n, i, Stored(i))
      BY <2>6, <2>7, <2>8 DEF Fresh
    <2> QED
      BY <2>1, <2>2, <2>9
  <1>3. StoreOK' /\ CacheOK'
    BY <1>1, <1>2 DEF AccessInv, StoreOK, CacheOK, storeVars, RowShape, One
  <1>4. JobsOK'
    BY <1>1, JobOKKept DEF AccessInv, JobsOK
  <1> QED
    BY <1>3, <1>4 DEF AccessInv

LEMMA AccessStart ==
  AccessInit => AccessInv
  <1> SUFFICES ASSUME AccessInit PROVE AccessInv
    OBVIOUS
  <1>1. StoreOK
    BY DEF AccessInit, StoreOK, RowShape, Default, NoSecret
  <1>2. CacheOK
    <2>1. ASSUME NEW k
          PROVE  Fresh(NoEntry, 0, k, Stored(k))
      BY TTLNat DEF Fresh, NoEntry
    <2> QED
      BY <2>1 DEF AccessInit, CacheOK
  <1>3. JobsOK
    <2>1. JobOK(NoJob)
      BY DEF JobOK, JobShape, RowShape, Placed, Knows, Spot, Checking, Serving, NoJob, Default
    <2> QED
      BY <2>1 DEF AccessInit, JobsOK
  <1> QED
    BY <1>1, <1>2, <1>3 DEF AccessInv

LEMMA AccessStepOK ==
  AccessInv /\ [AccessNext]_accessVars => AccessInv'
  <1> SUFFICES ASSUME AccessInv, [AccessNext]_accessVars PROVE AccessInv'
    OBVIOUS
  <1>1. CASE UNCHANGED accessVars
    <2>1. UNCHANGED storeVars /\ UNCHANGED <<cache, stale, jobs>>
      BY <1>1 DEF accessVars
    <2>2. StoreOK' /\ CacheOK'
      BY <2>1, StoredKept DEF AccessInv, StoreOK, CacheOK, storeVars, RowShape, One
    <2>3. JobsOK'
      BY <2>1, JobOKKept DEF AccessInv, JobsOK
    <2> QED
      BY <2>2, <2>3 DEF AccessInv
  <1>2. CASE \E j \in Jobs : AccessStep(j)
    <2>1. PICK j \in Jobs : AccessStep(j)
      BY <1>2
    <2>2. Advanced(j)
      BY <2>1, CheckRolesSpiceOK, GetPolicyStepOK, CheckEnabledOK, GetPluginStepOK, CombineOK, BuildSubjectContextOK,
         EvaluateOK, ResolveSettingOK, ApplyCORSOK, ResolvePrincipalOK, HttpSubjectOK, HttpEvalOK, DispatchOK
         DEF AccessStep
    <2> QED
      BY <2>2, AdvancedOK
  <1>3. CASE \E j \in Jobs, r \in Replicas, t \in Triggers, u \in Users :
                \/ \E need \in {"none", "role"} : CheckCommand(j, r, u, t, need)
                \/ \E cred \in Secrets \cup {"none", "session", "preflight"}, f \in BOOLEAN :
                      ServeHTTP(j, r, t, cred, u, f)
    <2>1. PICK j \in Jobs, r \in Replicas, t \in Triggers, u \in Users :
                \/ \E need \in {"none", "role"} : CheckCommand(j, r, u, t, need)
                \/ \E cred \in Secrets \cup {"none", "session", "preflight"}, f \in BOOLEAN :
                      ServeHTTP(j, r, t, cred, u, f)
      BY <1>3
    <2>2. Advanced(j)
      BY <2>1, CheckCommandOK, ServeHTTPOK
    <2> QED
      BY <2>2, AdvancedOK
  <1> QED
    BY <1>1, <1>2, <1>3, ConsoleSettingOK, OtherSaveOK, SecretSaveOK, InvalidateOK, CacheTickOK DEF AccessNext

LEMMA AccessInvariant == AccessSpec => []AccessInv
  BY AccessStart, AccessStepOK, PTL DEF AccessSpec

(* A check of a command that overlapped no save, on a replica that every    *)
(* earlier save has reached, answers what the tables say: for any number    *)
(* of replicas, checks, saves, expiries and invalidations, whichever of     *)
(* the two caches answered.  (authz.Authorizer.CheckCommand.)               *)
THEOREM VerdictsAreRight == AccessSpec => []VerdictsFollowSettings
  <1>1. AccessInv => VerdictsFollowSettings
    BY DEF AccessInv, JobsOK, JobOK, Knows, VerdictsFollowSettings
  <1> QED
    BY <1>1, AccessInvariant, PTL

(* The same of a request to an HTTP trigger, whatever its credential and    *)
(* origin.  (trigger.HTTPHandler.ServeHTTP.)                                *)
THEOREM RequestsAreRight == AccessSpec => []RequestsFollowSettings
  <1>1. AccessInv => RequestsFollowSettings
    BY DEF AccessInv, JobsOK, JobOK, Knows, RequestsFollowSettings
  <1> QED
    BY <1>1, AccessInvariant, PTL
===============================================================================
