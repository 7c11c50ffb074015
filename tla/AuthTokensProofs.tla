--------------------------- MODULE AuthTokensProofs --------------------------
(***************************************************************************)
(* Proofs about AuthTokens, for any sets of signups, threads, emails and   *)
(* roles, any lifetimes of the tokens and any delay of the requests.       *)
(*                                                                         *)
(* OneAccountPerEmail needs AccountInv: an email does not change once its  *)
(* signup may own a row.  StaleRoleIsBounded needs HeldIsFresh (a role     *)
(* that a user has was lost 0 ticks ago) and RequestInv: what a request    *)
(* has read has aged by no more than the request has waited since.         *)
(***************************************************************************)
EXTENDS AuthTokens, TLAPS

\* A row belongs to a signup that has ended; one that is about to commit has
\* read its request.
AccountInv ==
    \A c \in Signups :
        /\ Exists(c) => pc[c] = "done"
        /\ pc[c] = "commit" => email[c] \in Emails /\ asked[c] \in Roles

\* The role a user has was not lost.
HeldIsFresh == \A u \in Signups : Exists(u) => lostFor[u][role[u]] = 0

\* The role that a request has read, or that was claimed by the token it was
\* checked with, was lost no longer ago than this.
Fresh(r) ==
    IF r.op = "issue"
      THEN lostFor[r.user][r.role] <= r.waited
      ELSE lostFor[r.user][Admin] <= AccessTTL - 1 + MaxDelay + r.waited
RequestInv == \A q \in Threads : request[q] # None => Fresh(request[q])

RoleInv == HeldIsFresh /\ RequestInv /\ StaleRoleIsBounded

IInv ==
    /\ TypeOK
    /\ AccountInv /\ OneAccountPerEmail
    /\ RoleInv /\ TenantsComeFromAdmins

-----------------------------------------------------------------------------
(* What the operators of the model do *)

\* Writing a role keeps both columns well typed and makes that role fresh; the
\* other roles keep their ages.
LEMMA SetRoleEffect ==
    ASSUME TypeOK, NEW u \in Signups, NEW r \in Roles, SetRole(u, r)
    PROVE  /\ role' \in [Signups -> Roles \cup {None}]
           /\ lostFor' \in [Signups -> [Roles -> 0..Long]]
           /\ role'[u] = r /\ \A v \in Signups \ {u} : role'[v] = role[v]
           /\ lostFor'[u][r] = 0
           /\ \A v \in Signups, q \in Roles :
                 lostFor'[v][q] = IF v = u /\ q = r THEN 0 ELSE lostFor[v][q]
<1>1. 0 \in 0..Long
  BY AuthAssumption DEF Long
<1> QED
  BY <1>1 DEF SetRole, TypeOK

\* create_access_token and create_refresh_token make tokens, of the claimed form.
LEMMA IssuedTokens ==
    ASSUME NEW u \in Signups, NEW r \in Roles
    PROVE  AccessToken(u, r) \in Token /\ RefreshToken(u) \in Token
<1>1. AccessTTL \in 1..AccessTTL /\ RefreshTTL \in 1..RefreshTTL
  BY AuthAssumption
<1> QED
  BY <1>1 DEF AccessToken, RefreshToken, Token

\* A request that waits for its next step, by what it does.
LEMMA RequestTypes ==
    ASSUME TypeOK, NEW q \in Threads
    PROVE  /\ Waits(q, "issue") =>
                 /\ request[q] \in Request /\ request[q].op = "issue"
                 /\ request[q].user \in Signups /\ request[q].role \in Roles
                 /\ request[q].waited \in 0..MaxDelay
           /\ Waits(q, "insert") =>
                 /\ request[q] \in Request /\ request[q].op = "insert"
                 /\ request[q].user \in Signups /\ request[q].waited \in 0..MaxDelay
           /\ request[q] # None => Waits(q, "issue") \/ Waits(q, "insert")
<1>1. request[q] \in Request \cup {None}
  BY DEF TypeOK
<1> QED
  BY <1>1 DEF Request, Waits

\* The first half of a request leaves everything but its thread alone.
LEMMA ServesEffect ==
    ASSUME TypeOK, NEW q \in Threads, NEW r \in Request, Serves(q, r)
    PROVE  /\ TypeOK'
           /\ UNCHANGED <<pc, email, asked, role, tokens, tenants, lostFor>>
           /\ \A p \in Threads : request'[p] = IF p = q THEN r ELSE request[p]
<1>1. request \in [Threads -> Request \cup {None}]
  BY DEF TypeOK
<1>2. /\ request' = [request EXCEPT ![q] = r]
      /\ UNCHANGED <<pc, email, asked, role, tokens, tenants, lostFor>>
  BY DEF Serves
<1>3. request' \in [Threads -> Request \cup {None}]
  BY <1>1, <1>2
<1> QED
  BY <1>1, <1>2, <1>3 DEF TypeOK

\* The row that is read makes a request.
LEMMA ReadRowType ==
    ASSUME TypeOK, NEW u \in Signups, Exists(u)
    PROVE  /\ ReadRow(u) \in Request /\ ReadRow(u).op = "issue" /\ ReadRow(u).user = u
           /\ ReadRow(u).role = role[u] /\ ReadRow(u).waited = 0
<1>1. role[u] \in Roles /\ 0 \in 0..MaxDelay
  BY AuthAssumption DEF TypeOK, Exists
<1> QED
  BY <1>1 DEF ReadRow, Request

\* So does a token that passes the check.
LEMMA InsertType ==
    ASSUME TypeOK, NEW t \in tokens
    PROVE  /\ t.user \in Signups
           /\ [op |-> "insert", user |-> t.user, waited |-> 0] \in Request
<1>1. t.user \in Signups /\ 0 \in 0..MaxDelay
  BY AuthAssumption DEF TypeOK, Token
<1> QED
  BY <1>1 DEF Request

\* A token that a tick leaves behind is a valid one a tick before.
LEMMA TickedToken ==
    ASSUME TypeOK, Tick, NEW t \in tokens'
    PROVE  /\ t \in Token
           /\ \E old \in tokens : /\ t.kind = old.kind /\ t.user = old.user
                                  /\ t.kind = "access" => t.role = old.role
                                  /\ t.left = old.left - 1
<1>1. PICK old \in tokens : old.left > 1 /\ t = [old EXCEPT !.left = old.left - 1]
  BY DEF Tick
<1>2. old \in Token
  BY DEF TypeOK
<1>3. CASE old \in [kind : {"access"}, user : Signups, role : Roles, left : 1..AccessTTL]
  <2>1. old.left - 1 \in 1..AccessTTL
    BY <1>1, <1>3, AuthAssumption
  <2> QED
    BY <1>1, <1>3, <2>1 DEF Token
<1>4. CASE old \in [kind : {"refresh"}, user : Signups, left : 1..RefreshTTL]
  <2>1. old.left - 1 \in 1..RefreshTTL
    BY <1>1, <1>4, AuthAssumption
  <2> QED
    BY <1>1, <1>4, <2>1 DEF Token
<1> QED
  BY <1>2, <1>3, <1>4 DEF Token

\* A request that waits through a tick.
LEMMA TickedRequest ==
    ASSUME TypeOK, Tick, NEW q \in Threads
    PROVE  /\ request[q] = None => request'[q] = None
           /\ request[q] # None =>
                 /\ request'[q] \in Request /\ request'[q].op = request[q].op
                 /\ request'[q].user = request[q].user
                 /\ request[q].op = "issue" => request'[q].role = request[q].role
                 /\ request'[q].waited = request[q].waited + 1
<1>1. request'[q] = IF request[q] = None THEN None
                    ELSE [request[q] EXCEPT !.waited = request[q].waited + 1]
  BY DEF Tick
<1>2. ASSUME request[q] # None
      PROVE  /\ request'[q] \in Request /\ request'[q].op = request[q].op
             /\ request'[q].user = request[q].user
             /\ request[q].op = "issue" => request'[q].role = request[q].role
             /\ request'[q].waited = request[q].waited + 1
  <2>1. request[q].waited < MaxDelay /\ request[q] \in Request
    BY <1>2 DEF Tick, TypeOK
  <2>2. CASE request[q] \in [op : {"issue"}, user : Signups, role : Roles, waited : 0..MaxDelay]
    <3>1. request[q].waited + 1 \in 0..MaxDelay
      BY <2>1, <2>2, AuthAssumption
    <3> QED
      BY <1>1, <1>2, <2>2, <3>1 DEF Request
  <2>3. CASE request[q] \in [op : {"insert"}, user : Signups, waited : 0..MaxDelay]
    <3>1. request[q].waited + 1 \in 0..MaxDelay
      BY <2>1, <2>3, AuthAssumption
    <3> QED
      BY <1>1, <1>2, <2>3, <3>1 DEF Request
  <2> QED
    BY <2>1, <2>2, <2>3 DEF Request
<1> QED
  BY <1>1, <1>2

-----------------------------------------------------------------------------
(* Type correctness *)

\* The initial state is well typed.
LEMMA InitType == Init => TypeOK
<1> SUFFICES ASSUME Init PROVE TypeOK
  OBVIOUS
<1>1. Long \in 0..Long
  BY AuthAssumption DEF Long
<1> QED
  BY <1>1 DEF Init, TypeOK

\* Every step keeps the variables well typed.
LEMMA NextType ==
    ASSUME TypeOK, AccountInv, [Next]_vars
    PROVE  TypeOK'
<1>1. ASSUME NEW c \in Signups, NEW m \in Emails, NEW r \in Roles, CheckEmail(c, m, r)
      PROVE TypeOK'
  BY <1>1 DEF CheckEmail, Goto, TypeOK
<1>2. ASSUME NEW c \in Signups, CommitUser(c) PROVE TypeOK'
  <2>1. asked[c] \in Roles
    BY <1>2 DEF CommitUser, AccountInv
  <2>2. /\ role' \in [Signups -> Roles \cup {None}]
        /\ lostFor' \in [Signups -> [Roles -> 0..Long]]
    BY <1>2, <2>1, SetRoleEffect DEF CommitUser, TypeOK
  <2> QED
    BY <1>2, <2>2 DEF CommitUser, Goto, TypeOK
<1>3. ASSUME NEW q \in Threads, NEW u \in Signups, Login(q, u) PROVE TypeOK'
  BY <1>3, ReadRowType, ServesEffect DEF Login
<1>4. ASSUME NEW c \in Signups, RemoveUser(c) PROVE TypeOK'
  BY <1>4 DEF RemoveUser, TypeOK
<1>5. ASSUME NEW c \in Signups, NEW r \in Roles, ChangeRole(c, r) PROVE TypeOK'
  <2>1. /\ role' \in [Signups -> Roles \cup {None}]
        /\ lostFor' \in [Signups -> [Roles -> 0..Long]]
    BY <1>5, SetRoleEffect DEF ChangeRole
  <2> QED
    BY <1>5, <2>1 DEF ChangeRole, TypeOK
<1>6. ASSUME NEW q \in Threads, NEW t \in tokens, Refresh(q, t) PROVE TypeOK'
  <2>1. t.user \in Signups
    BY DEF TypeOK, Token
  <2> QED
    BY <1>6, <2>1, ReadRowType, ServesEffect DEF Refresh
<1>7. ASSUME NEW q \in Threads, NEW t \in tokens, CheckAdmin(q, t) PROVE TypeOK'
  BY <1>7, InsertType, ServesEffect DEF CheckAdmin
<1>8. ASSUME NEW q \in Threads, IssueTokens(q) PROVE TypeOK'
  <2>1. request[q].user \in Signups /\ request[q].role \in Roles
    BY <1>8, RequestTypes DEF IssueTokens
  <2>2. tokens' \subseteq Token
    BY <1>8, <2>1, IssuedTokens DEF IssueTokens, TypeOK
  <2>3. request' \in [Threads -> Request \cup {None}]
    BY <1>8 DEF IssueTokens, Served, TypeOK
  <2> QED
    BY <1>8, <2>2, <2>3 DEF IssueTokens, TypeOK
<1>9. ASSUME NEW q \in Threads, CreateTenant(q) PROVE TypeOK'
  <2>1. request[q].user \in Signups
    BY <1>9, RequestTypes DEF CreateTenant
  <2>2. lostFor[request[q].user][Admin] \in 0..Long
    BY <2>1, AuthAssumption DEF TypeOK
  <2>3. request' \in [Threads -> Request \cup {None}]
    BY <1>9 DEF CreateTenant, Served, TypeOK
  <2>4. tenants' \subseteq [by : Signups, lostFor : 0..Long]
    BY <1>9, <2>1, <2>2 DEF CreateTenant, TypeOK
  <2> QED
    BY <1>9, <2>3, <2>4 DEF CreateTenant, TypeOK
<1>10. ASSUME Tick PROVE TypeOK'
  <2>1. tokens' \subseteq Token
    BY <1>10, TickedToken
  <2>2. lostFor' \in [Signups -> [Roles -> 0..Long]]
    <3>1. Long \in Nat
      BY AuthAssumption DEF Long
    <3> QED
      BY <1>10, <3>1 DEF Tick, TypeOK
  <2>3. request' \in [Threads -> Request \cup {None}]
    <3>1. \A q \in Threads : request'[q] \in Request \cup {None}
      BY <1>10, TickedRequest
    <3>2. request' = [q \in Threads |-> request'[q]]
      BY <1>10 DEF Tick
    <3> QED
      BY <3>1, <3>2
  <2> QED
    BY <1>10, <2>1, <2>2, <2>3 DEF Tick, TypeOK
<1>11. CASE UNCHANGED vars
  BY <1>11 DEF vars, TypeOK
<1> QED
  BY <1>1, <1>2, <1>3, <1>4, <1>5, <1>6, <1>7, <1>8, <1>9, <1>10, <1>11 DEF Next

-----------------------------------------------------------------------------
(* Accounts *)

\* signup keeps one account to an email: the index decides at the commit, and
\* nothing else makes a row appear or an email change under one.
LEMMA NextAccounts ==
    ASSUME TypeOK, AccountInv, OneAccountPerEmail, [Next]_vars
    PROVE  AccountInv' /\ OneAccountPerEmail'
<1> USE DEF AccountInv, OneAccountPerEmail, Exists
<1>1. ASSUME NEW c \in Signups, NEW m \in Emails, NEW r \in Roles, CheckEmail(c, m, r)
      PROVE AccountInv' /\ OneAccountPerEmail'
  <2>1. ~Exists(c)
    BY <1>1 DEF CheckEmail
  <2> QED
    BY <1>1, <2>1 DEF CheckEmail, Goto, TypeOK
<1>2. ASSUME NEW c \in Signups, CommitUser(c) PROVE AccountInv' /\ OneAccountPerEmail'
  <2>1. CASE EmailIsFree(email[c])
    <3>1. SetRole(c, asked[c]) /\ asked[c] \in Roles
      BY <1>2, <2>1 DEF CommitUser
    <3>2. role'[c] = asked[c] /\ \A v \in Signups \ {c} : role'[v] = role[v]
      BY <3>1, SetRoleEffect
    <3>3. \A v \in Signups : Exists(v) => email[v] # email[c]
      BY <2>1 DEF EmailIsFree, Registered
    <3>4. email' = email
      BY <1>2 DEF CommitUser
    <3>5. OneAccountPerEmail'
      BY <3>2, <3>3, <3>4
    <3>6. \A v \in Signups : pc'[v] = IF v = c THEN "done" ELSE pc[v]
      BY <1>2 DEF CommitUser, Goto, TypeOK
    <3>7. AccountInv'
      BY <1>2, <3>2, <3>6 DEF CommitUser
    <3> QED
      BY <3>5, <3>7
  <2>2. CASE ~EmailIsFree(email[c])
    BY <1>2, <2>2 DEF CommitUser, Goto, TypeOK
  <2> QED
    BY <2>1, <2>2
<1>3. ASSUME NEW q \in Threads,
             \/ IssueTokens(q) \/ CreateTenant(q) \/ \E u \in Signups : Login(q, u)
             \/ \E t \in tokens : Refresh(q, t) \/ CheckAdmin(q, t)
      PROVE AccountInv' /\ OneAccountPerEmail'
  BY <1>3 DEF IssueTokens, CreateTenant, Login, Refresh, CheckAdmin, Serves
<1>4. ASSUME NEW c \in Signups, RemoveUser(c) PROVE AccountInv' /\ OneAccountPerEmail'
  BY <1>4 DEF RemoveUser, TypeOK
<1>5. ASSUME NEW c \in Signups, NEW r \in Roles, ChangeRole(c, r)
      PROVE AccountInv' /\ OneAccountPerEmail'
  <2>1. Exists(c) /\ \A v \in Signups \ {c} : role'[v] = role[v]
    BY <1>5, SetRoleEffect DEF ChangeRole
  <2> QED
    BY <1>5, <2>1 DEF ChangeRole
<1>6. ASSUME Tick PROVE AccountInv' /\ OneAccountPerEmail'
  BY <1>6 DEF Tick
<1>7. CASE UNCHANGED vars
  BY <1>7 DEF vars
<1> QED
  BY <1>1, <1>2, <1>3, <1>4, <1>5, <1>6, <1>7 DEF Next

-----------------------------------------------------------------------------
(* Roles and tokens *)

\* While no role gets older, what was read and what is claimed stays fresh.
LEMMA ClaimsKept ==
    ASSUME TypeOK, TypeOK', RoleInv, HeldIsFresh', tokens' = tokens, request' = request,
           \A u \in Signups, r \in Roles : lostFor'[u][r] <= lostFor[u][r]
    PROVE  RoleInv'
<1>1. \A u \in Signups, r \in Roles : lostFor[u][r] \in Int /\ lostFor'[u][r] \in Int
  BY DEF TypeOK
<1>2. ASSUME NEW q \in Threads, request[q] # None PROVE Fresh(request[q])'
  <2>1. Fresh(request[q])
    BY <1>2 DEF RoleInv, RequestInv
  <2>2. CASE Waits(q, "issue")
    <3>1. /\ request[q].user \in Signups /\ request[q].role \in Roles
          /\ request[q].op = "issue" /\ request[q].waited \in Int
      BY <2>2, RequestTypes
    <3>2. lostFor[request[q].user][request[q].role] <= request[q].waited
      BY <2>1, <3>1 DEF Fresh
    <3>3. lostFor'[request[q].user][request[q].role] <= request[q].waited
      BY <1>1, <3>1, <3>2
    <3> QED
      BY <3>1, <3>3 DEF Fresh
  <2>3. CASE Waits(q, "insert")
    <3>1. /\ request[q].user \in Signups /\ Admin \in Roles
          /\ request[q].op # "issue" /\ request[q].waited \in Int
      BY <2>3, RequestTypes, AuthAssumption
    <3>2. lostFor[request[q].user][Admin] <= AccessTTL - 1 + MaxDelay + request[q].waited
      BY <2>1, <3>1 DEF Fresh
    <3>3. lostFor'[request[q].user][Admin] <= AccessTTL - 1 + MaxDelay + request[q].waited
      BY <1>1, <3>1, <3>2, AuthAssumption
    <3> QED
      BY <3>1, <3>3 DEF Fresh
  <2> QED
    BY <1>2, <2>2, <2>3, RequestTypes
<1>3. RequestInv'
  BY <1>2 DEF RequestInv
<1>4. ASSUME NEW t \in tokens, t.kind = "access"
      PROVE  lostFor'[t.user][t.role] <= AccessTTL - t.left + MaxDelay
  <2>1. t \in [kind : {"access"}, user : Signups, role : Roles, left : 1..AccessTTL]
    BY <1>4 DEF TypeOK, Token
  <2>2. lostFor[t.user][t.role] <= AccessTTL - t.left + MaxDelay
    BY <1>4 DEF RoleInv, StaleRoleIsBounded
  <2> QED
    BY <1>1, <2>1, <2>2, AuthAssumption
<1>5. StaleRoleIsBounded'
  BY <1>4 DEF StaleRoleIsBounded
<1> QED
  BY <1>3, <1>5 DEF RoleInv

\* A row that gets a role: the role is fresh, and no claim of a token gets older.
LEMMA SetRoleKeepsClaims ==
    ASSUME TypeOK, TypeOK', RoleInv, NEW u \in Signups, NEW r \in Roles, SetRole(u, r),
           tokens' = tokens, request' = request
    PROVE  RoleInv'
<1>1. HeldIsFresh'
  BY SetRoleEffect DEF RoleInv, HeldIsFresh, Exists, TypeOK
<1>2. ASSUME NEW v \in Signups, NEW q \in Roles PROVE lostFor'[v][q] <= lostFor[v][q]
  <2>1. lostFor[v][q] \in 0..Long
    BY DEF TypeOK
  <2>2. lostFor'[v][q] = IF v = u /\ q = r THEN 0 ELSE lostFor[v][q]
    BY SetRoleEffect
  <2> QED
    BY <2>1, <2>2
<1> QED
  BY <1>1, <1>2, ClaimsKept

\* A step that leaves roles, tokens and requests as they are.
LEMMA QuietKeepsClaims ==
    ASSUME TypeOK, TypeOK', RoleInv, UNCHANGED <<lostFor, tokens, request>>,
           \A u \in Signups : role'[u] \in {role[u], None}
    PROVE  RoleInv'
<1>1. HeldIsFresh'
  BY DEF RoleInv, HeldIsFresh, Exists
<1>2. \A u \in Signups, r \in Roles : lostFor'[u][r] <= lostFor[u][r]
  BY DEF TypeOK
<1> QED
  BY <1>1, <1>2, ClaimsKept

\* A request that is fresh when it has read joins the others.
LEMMA ServesKeepsClaims ==
    ASSUME TypeOK, RoleInv, NEW q \in Threads, NEW r \in Request, Serves(q, r), Fresh(r)
    PROVE  RoleInv'
<1>1. /\ UNCHANGED <<role, tokens, lostFor>>
      /\ \A p \in Threads : request'[p] = IF p = q THEN r ELSE request[p]
  BY ServesEffect
<1>2. HeldIsFresh' /\ StaleRoleIsBounded'
  BY <1>1 DEF RoleInv, HeldIsFresh, StaleRoleIsBounded, Exists
<1>3. ASSUME NEW p \in Threads, request'[p] # None PROVE Fresh(request[p])'
  <2>1. CASE p = q
    <3>1. Fresh(r)'
      BY <1>1 DEF Fresh
    <3> QED
      BY <1>1, <2>1, <3>1 DEF Fresh
  <2>2. CASE p # q
    <3>1. request'[p] = request[p] /\ Fresh(request[p])
      BY <1>1, <1>3, <2>2 DEF RoleInv, RequestInv
    <3> QED
      BY <1>1, <3>1 DEF Fresh
  <2> QED
    BY <2>1, <2>2
<1> QED
  BY <1>2, <1>3 DEF RoleInv, RequestInv

\* The role of the row that is read is fresh.
LEMMA ReadRowIsFresh ==
    ASSUME TypeOK, RoleInv, NEW u \in Signups, Exists(u)
    PROVE  ReadRow(u) \in Request /\ Fresh(ReadRow(u))
<1>1. lostFor[u][role[u]] = 0
  BY DEF RoleInv, HeldIsFresh
<1> QED
  BY <1>1, ReadRowType DEF Fresh

\* A thread that ends its request leaves the others waiting.
LEMMA ServedKeepsRequests ==
    ASSUME TypeOK, RequestInv, NEW q \in Threads, Served(q), lostFor' = lostFor
    PROVE  RequestInv'
<1>1. request \in [Threads -> Request \cup {None}] /\ request' = [request EXCEPT ![q] = None]
  BY DEF TypeOK, Served
<1>2. ASSUME NEW p \in Threads, request'[p] # None PROVE Fresh(request[p])'
  <2>1. request'[p] = request[p]
    BY <1>1, <1>2
  <2>2. Fresh(request[p])
    BY <1>2, <2>1 DEF RequestInv
  <2> QED
    BY <2>1, <2>2 DEF Fresh
<1> QED
  BY <1>2 DEF RequestInv

\* Tokens are made for a role that was the user's when the request read it.
LEMMA IssueKeepsClaims ==
    ASSUME TypeOK, RoleInv, NEW q \in Threads, IssueTokens(q)
    PROVE  RoleInv'
<1> DEFINE u == request[q].user
           r == request[q].role
<1>1. /\ u \in Signups /\ r \in Roles /\ request[q].waited \in 0..MaxDelay
      /\ request[q].op = "issue" /\ request[q] # None
  BY RequestTypes DEF IssueTokens, Waits
<1>2. /\ tokens' = tokens \cup {AccessToken(u, r), RefreshToken(u)}
      /\ Served(q) /\ role' = role /\ lostFor' = lostFor
  BY DEF IssueTokens
<1>3. lostFor[u][r] <= MaxDelay
  <2>1. lostFor[u][r] <= request[q].waited /\ lostFor[u][r] \in 0..Long
    BY <1>1 DEF RoleInv, RequestInv, Fresh, TypeOK
  <2> QED
    BY <1>1, <2>1, AuthAssumption
<1> HIDE DEF u, r
<1>4. ASSUME NEW t \in tokens', t.kind = "access"
      PROVE  lostFor[t.user][t.role] <= AccessTTL - t.left + MaxDelay
  <2>1. CASE t \in tokens
    BY <1>4, <2>1 DEF RoleInv, StaleRoleIsBounded
  <2>2. CASE t = AccessToken(u, r)
    <3>1. t.user = u /\ t.role = r /\ t.left = AccessTTL
      BY <2>2 DEF AccessToken
    <3> QED
      BY <1>3, <3>1, AuthAssumption
  <2>3. CASE t = RefreshToken(u)
    BY <1>4, <2>3 DEF RefreshToken
  <2> QED
    BY <1>2, <1>4, <2>1, <2>2, <2>3
<1>5. HeldIsFresh' /\ StaleRoleIsBounded'
  BY <1>2, <1>4 DEF RoleInv, HeldIsFresh, StaleRoleIsBounded, Exists
<1>6. RequestInv'
  BY <1>2, ServedKeepsRequests DEF RoleInv
<1> QED
  BY <1>5, <1>6 DEF RoleInv

\* A tick takes one from a token's lifetime, adds one to the time a request has
\* waited, and adds at most one to the age of what they claim.
LEMMA TickKeepsClaims ==
    ASSUME TypeOK, RoleInv, Tick
    PROVE  RoleInv'
<1>1. HeldIsFresh'
  BY DEF RoleInv, HeldIsFresh, Exists, Tick, TypeOK
<1>2. ASSUME NEW u \in Signups, NEW r \in Roles
      PROVE  /\ lostFor[u][r] \in Int /\ lostFor'[u][r] \in Int
             /\ lostFor'[u][r] <= lostFor[u][r] + 1
  <2>1. lostFor[u][r] \in 0..Long /\ Long \in Nat
    BY AuthAssumption DEF TypeOK, Long
  <2>2. lostFor'[u][r] = IF role[u] = r THEN 0
                         ELSE IF lostFor[u][r] < Long THEN lostFor[u][r] + 1 ELSE Long
    BY DEF Tick
  <2> QED
    BY <2>1, <2>2
<1>3. ASSUME NEW t \in tokens', t.kind = "access"
      PROVE  lostFor'[t.user][t.role] <= AccessTTL - t.left + MaxDelay
  <2>1. PICK old \in tokens : /\ old.kind = "access" /\ t.user = old.user
                              /\ t.role = old.role /\ t.left = old.left - 1
    BY <1>3, TickedToken
  <2>2. old \in [kind : {"access"}, user : Signups, role : Roles, left : 1..AccessTTL]
    BY <2>1 DEF TypeOK, Token
  <2>3. lostFor[old.user][old.role] <= AccessTTL - old.left + MaxDelay
    BY <2>1 DEF RoleInv, StaleRoleIsBounded
  <2> QED
    BY <1>2, <2>1, <2>2, <2>3, AuthAssumption
<1>4. ASSUME NEW q \in Threads, request'[q] # None PROVE Fresh(request[q])'
  <2>1. /\ request[q] # None /\ request'[q].op = request[q].op
        /\ request'[q].user = request[q].user
        /\ request[q].op = "issue" => request'[q].role = request[q].role
        /\ request'[q].waited = request[q].waited + 1 /\ Fresh(request[q])
    BY <1>4, TickedRequest DEF RoleInv, RequestInv
  <2>2. CASE Waits(q, "issue")
    <3>1. /\ request[q].user \in Signups /\ request[q].role \in Roles
          /\ request[q].op = "issue" /\ request[q].waited \in Int
      BY <2>2, RequestTypes
    <3>2. lostFor[request[q].user][request[q].role] <= request[q].waited
      BY <2>1, <3>1 DEF Fresh
    <3>3. lostFor'[request[q].user][request[q].role] <= request[q].waited + 1
      BY <1>2, <3>1, <3>2
    <3> QED
      BY <2>1, <3>1, <3>3 DEF Fresh
  <2>3. CASE Waits(q, "insert")
    <3>1. /\ request[q].user \in Signups /\ Admin \in Roles
          /\ request[q].op # "issue" /\ request[q].waited \in Int
      BY <2>3, RequestTypes, AuthAssumption
    <3>2. lostFor[request[q].user][Admin] <= AccessTTL - 1 + MaxDelay + request[q].waited
      BY <2>1, <3>1 DEF Fresh
    <3>3. lostFor'[request[q].user][Admin] <= AccessTTL - 1 + MaxDelay + (request[q].waited + 1)
      BY <1>2, <3>1, <3>2, AuthAssumption
    <3> QED
      BY <2>1, <3>1, <3>3 DEF Fresh
  <2> QED
    BY <2>1, <2>2, <2>3, RequestTypes
<1> QED
  BY <1>1, <1>3, <1>4 DEF RoleInv, StaleRoleIsBounded, RequestInv

\* No step lets a token claim, or a request hold, a role that was lost longer ago
\* than the token is old and its request ran.
LEMMA NextRoles ==
    ASSUME TypeOK, TypeOK', AccountInv, RoleInv, [Next]_vars
    PROVE  RoleInv'
<1>1. ASSUME NEW c \in Signups, NEW m \in Emails, NEW r \in Roles, CheckEmail(c, m, r)
      PROVE RoleInv'
  BY <1>1, QuietKeepsClaims DEF CheckEmail
<1>2. ASSUME NEW c \in Signups, CommitUser(c) PROVE RoleInv'
  <2>1. CASE EmailIsFree(email[c])
    BY <1>2, <2>1, SetRoleKeepsClaims DEF CommitUser, AccountInv
  <2>2. CASE ~EmailIsFree(email[c])
    BY <1>2, <2>2, QuietKeepsClaims DEF CommitUser
  <2> QED
    BY <2>1, <2>2
<1>3. ASSUME NEW q \in Threads, NEW u \in Signups, Login(q, u) PROVE RoleInv'
  BY <1>3, ReadRowIsFresh, ServesKeepsClaims DEF Login
<1>4. ASSUME NEW c \in Signups, RemoveUser(c) PROVE RoleInv'
  BY <1>4, QuietKeepsClaims DEF RemoveUser, TypeOK
<1>5. ASSUME NEW c \in Signups, NEW r \in Roles, ChangeRole(c, r) PROVE RoleInv'
  BY <1>5, SetRoleKeepsClaims DEF ChangeRole
<1>6. ASSUME NEW q \in Threads, NEW t \in tokens, Refresh(q, t) PROVE RoleInv'
  <2>1. t.user \in Signups
    BY DEF TypeOK, Token
  <2> QED
    BY <1>6, <2>1, ReadRowIsFresh, ServesKeepsClaims DEF Refresh
<1>7. ASSUME NEW q \in Threads, NEW t \in tokens, CheckAdmin(q, t) PROVE RoleInv'
  <2>1. PICK r \in Request : r = [op |-> "insert", user |-> t.user, waited |-> 0]
    BY InsertType
  <2>2. /\ t.kind = "access" /\ t.role = Admin /\ Serves(q, r)
    BY <1>7, <2>1 DEF CheckAdmin, Authorized
  <2>3. t \in [kind : {"access"}, user : Signups, role : Roles, left : 1..AccessTTL]
    BY <2>2 DEF TypeOK, Token
  <2>4. lostFor[t.user][Admin] <= AccessTTL - t.left + MaxDelay
    BY <2>2 DEF RoleInv, StaleRoleIsBounded
  <2>5. lostFor[t.user][Admin] \in 0..Long
    BY <2>3, AuthAssumption DEF TypeOK
  <2>6. lostFor[t.user][Admin] <= AccessTTL - 1 + MaxDelay + 0
    BY <2>3, <2>4, <2>5, AuthAssumption
  <2>7. Fresh(r)
    BY <2>1, <2>6 DEF Fresh
  <2> QED
    BY <2>2, <2>7, ServesKeepsClaims
<1>8. ASSUME NEW q \in Threads, CreateTenant(q) PROVE RoleInv'
  <2>1. HeldIsFresh' /\ StaleRoleIsBounded'
    BY <1>8 DEF CreateTenant, RoleInv, HeldIsFresh, StaleRoleIsBounded, Exists
  <2>2. RequestInv'
    BY <1>8, ServedKeepsRequests DEF CreateTenant, RoleInv
  <2> QED
    BY <2>1, <2>2 DEF RoleInv
<1>9. CASE UNCHANGED vars
  BY <1>9, QuietKeepsClaims DEF vars
<1> QED
  BY <1>1, <1>2, <1>3, <1>4, <1>5, <1>6, <1>7, <1>8, <1>9, IssueKeepsClaims,
     TickKeepsClaims DEF Next

\* create_tenant believes the claim of a token that was valid when it was checked.
LEMMA NextTenants ==
    ASSUME TypeOK, RoleInv, TenantsComeFromAdmins, [Next]_vars
    PROVE  TenantsComeFromAdmins'
<1>1. ASSUME NEW q \in Threads, CreateTenant(q) PROVE TenantsComeFromAdmins'
  <2>1. /\ request[q].user \in Signups /\ request[q].op = "insert"
        /\ request[q].waited \in 0..MaxDelay /\ request[q] # None
    BY <1>1, RequestTypes DEF CreateTenant, Waits
  <2>2. lostFor[request[q].user][Admin] <= AccessTTL - 1 + MaxDelay + request[q].waited
    BY <2>1 DEF RoleInv, RequestInv, Fresh
  <2>3. lostFor[request[q].user][Admin] \in 0..Long
    BY <2>1, AuthAssumption DEF TypeOK
  <2>4. lostFor[request[q].user][Admin] < AccessTTL + 2 * MaxDelay
    BY <2>1, <2>2, <2>3, AuthAssumption
  <2> QED
    BY <1>1, <2>4 DEF CreateTenant, TenantsComeFromAdmins
<1>2. CASE UNCHANGED tenants
  BY <1>2 DEF TenantsComeFromAdmins
<1> QED
  BY <1>1, <1>2 DEF Next, vars, CheckEmail, CommitUser, Login, RemoveUser, ChangeRole,
     Refresh, CheckAdmin, Serves, IssueTokens, Tick

-----------------------------------------------------------------------------
(* The theorems *)

\* IInv holds initially and is preserved by every step.
THEOREM Invariance == Spec => []IInv
<1>1. Init => IInv
  <2> SUFFICES ASSUME Init PROVE IInv
    OBVIOUS
  <2>1. AccountInv /\ OneAccountPerEmail /\ RoleInv /\ TenantsComeFromAdmins
    BY DEF Init, AccountInv, OneAccountPerEmail, RoleInv, HeldIsFresh, RequestInv,
       StaleRoleIsBounded, TenantsComeFromAdmins, Exists
  <2> QED
    BY <2>1, InitType DEF IInv
<1>2. IInv /\ [Next]_vars => IInv'
  BY NextType, NextAccounts, NextRoles, NextTenants DEF IInv
<1> QED
  BY <1>1, <1>2, PTL DEF Spec

\* The accounts, the token table and the tenants are always well typed.
THEOREM TypeCorrect == Spec => []TypeOK
  BY Invariance, PTL DEF IInv

\* Signups that race for one email never both get an account.
THEOREM AccountsAreUnique == Spec => []OneAccountPerEmail
  BY Invariance, PTL DEF IInv

\* A role that was taken away is usable for less than an access token's lifetime
\* and the delay of one request, through any chain of logins, refreshes and role
\* changes, and however the reads and the tokens of several requests interleave.
THEOREM StaleRolesExpire == Spec => []StaleRoleIsBounded
  BY Invariance, PTL DEF IInv, RoleInv

\* Only those create tenants who were admins less than one access token's
\* lifetime and the delays of two requests ago.
THEOREM TenantsAreAdmins == Spec => []TenantsComeFromAdmins
  BY Invariance, PTL DEF IInv

-----------------------------------------------------------------------------
(* The safety half of RemovedIsLockedOut *)

\* A user whose row was removed has no row again, whatever signups, logins and
\* refreshes follow: no step brings the account back.
StaysRemoved == \A u \in Signups : pc[u] = "done" /\ ~Exists(u) => ~Exists(u)'

\* Once every role of a user has been lost for an access token's lifetime and the
\* delay of a request, no access token of that user is valid.
LostIsLockedOut ==
    \A u \in Signups :
        (\A r \in Roles : lostFor[u][r] >= AccessTTL + MaxDelay)
            => ~\E t \in tokens : t.kind = "access" /\ t.user = u

\* RemoveUser is final: the signup that made the row has ended, and only the
\* commit of a signup that has not ended inserts a row.
THEOREM RemovalIsFinal == Spec => [][StaysRemoved]_vars
<1>1. TypeOK /\ [Next]_vars => [StaysRemoved]_vars
  <2> SUFFICES ASSUME TypeOK, Next, NEW u \in Signups, pc[u] = "done", role[u] = None
               PROVE  role'[u] = None
    BY DEF StaysRemoved, Exists
  <2>1. ASSUME NEW c \in Signups, CommitUser(c) PROVE role'[u] = None
    <3>1. c # u
      BY <2>1 DEF CommitUser
    <3> QED
      BY <2>1, <3>1 DEF CommitUser, SetRole, TypeOK
  <2>2. ASSUME NEW c \in Signups, RemoveUser(c) PROVE role'[u] = None
    BY <2>2 DEF RemoveUser, TypeOK
  <2>3. ASSUME NEW c \in Signups, NEW r \in Roles, ChangeRole(c, r) PROVE role'[u] = None
    <3>1. c # u
      BY <2>3 DEF ChangeRole, Exists
    <3> QED
      BY <2>3, <3>1 DEF ChangeRole, SetRole, TypeOK
  <2> QED
    BY <2>1, <2>2, <2>3 DEF Next, CheckEmail, Login, Refresh, CheckAdmin, Serves,
       IssueTokens, CreateTenant, Tick
<1> QED
  BY <1>1, TypeCorrect, PTL DEF Spec

\* The tokens that a removed user still holds run out: one that is valid claims
\* a role that was the user's when its request read the row.
THEOREM LockedOutInTime == Spec => []LostIsLockedOut
<1>1. IInv => LostIsLockedOut
  <2> SUFFICES ASSUME IInv, NEW u \in Signups, NEW t \in tokens,
                      t.kind = "access", t.user = u
               PROVE  \E r \in Roles : ~(lostFor[u][r] >= AccessTTL + MaxDelay)
    BY DEF LostIsLockedOut
  <2>1. t.role \in Roles /\ t.left \in 1..AccessTTL
    BY DEF IInv, TypeOK, Token
  <2>2. lostFor[u][t.role] <= AccessTTL - t.left + MaxDelay
    BY DEF IInv, RoleInv, StaleRoleIsBounded
  <2>3. lostFor[u][t.role] \in Int
    BY <2>1 DEF IInv, TypeOK
  <2> QED
    BY <2>1, <2>2, <2>3, AuthAssumption
<1> QED
  BY <1>1, Invariance, PTL
=============================================================================
