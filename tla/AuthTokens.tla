----------------------------- MODULE AuthTokens -----------------------------
(***************************************************************************)
(* services/auth with core/security.py and core/auth_middleware.py:        *)
(* accounts, JWT access and refresh tokens, and the admin-only tenants.    *)
(*                                                                         *)
(* A token is valid by its signature and expiry alone; nothing on the      *)
(* server records or revokes it.  It is represented by what it claims and  *)
(* by the ticks it has left, and is dropped when it has none.  A request   *)
(* runs in a thread and is interleaved between what it reads (the row of   *)
(* the user, the claims of its token) and what it then writes (tokens that *)
(* expire counted from that moment, a tenant).  No code bounds the time in *)
(* between; MaxDelay names it.  User ids are minted by the signup that     *)
(* creates the account and are written as that signup.  Roles are changed  *)
(* and users removed by an administrator in the database.                  *)
(***************************************************************************)
EXTENDS Integers, FiniteSets

CONSTANTS
    Signups,     \* POST /auth/signup requests, and the user ids they mint
    Threads,     \* threads that serve the other requests
    Emails,
    Roles,       \* UserRole
    Admin,       \* UserRole.ADMIN
    None,
    AccessTTL,   \* ACCESS_TOKEN_EXPIRE_MINUTES in ticks
    RefreshTTL,  \* REFRESH_TOKEN_EXPIRE_DAYS in ticks
    MaxDelay,    \* bound on the ticks between what a request reads and writes
    MaxTenants   \* bound on the tenants created

ASSUME AuthAssumption ==
    /\ Admin \in Roles /\ None \notin Roles \cup Emails
    /\ AccessTTL \in Nat \ {0} /\ RefreshTTL \in Nat \ {0}
    /\ MaxDelay \in Nat /\ MaxTenants \in Nat

VARIABLES
    pc,       \* where the signup's thread stands
    email,    \* the email of the request, and of the account it created
    asked,    \* the role of the request, until it ends
    role,     \* users.role, None for a user without a row
    request,  \* what the thread has read, None when it serves no request
    tokens,   \* tokens that have not expired
    tenants,  \* tenants, by the user who created them and lostFor at that moment
    lostFor   \* history: ticks since user u last had role r

vars == <<pc, email, asked, role, request, tokens, tenants, lostFor>>

\* A login or refresh with the row it read, and an admin's request for a tenant.
Request == [op : {"issue"}, user : Signups, role : Roles, waited : 0..MaxDelay]
           \cup [op : {"insert"}, user : Signups, waited : 0..MaxDelay]
Token == [kind : {"access"}, user : Signups, role : Roles, left : 1..AccessTTL]
         \cup [kind : {"refresh"}, user : Signups, left : 1..RefreshTTL]
\* Long enough ago for no token and no request to tell.
Long == AccessTTL + 2 * MaxDelay

TypeOK ==
    /\ pc \in [Signups -> {"idle", "commit", "done"}]
    /\ email \in [Signups -> Emails \cup {None}]
    /\ asked \in [Signups -> Roles \cup {None}]
    /\ role \in [Signups -> Roles \cup {None}]
    /\ request \in [Threads -> Request \cup {None}]
    /\ tokens \subseteq Token
    /\ tenants \subseteq [by : Signups, lostFor : 0..Long]
    /\ lostFor \in [Signups -> [Roles -> 0..Long]]

Init ==
    /\ pc = [c \in Signups |-> "idle"]
    /\ email = [c \in Signups |-> None]
    /\ asked = [c \in Signups |-> None]
    /\ role = [c \in Signups |-> None]
    /\ request = [q \in Threads |-> None]
    /\ tokens = {}
    /\ tenants = {}
    /\ lostFor = [c \in Signups |-> [r \in Roles |-> Long]]

Goto(c, point) == pc' = [pc EXCEPT ![c] = point]
Exists(u) == role[u] # None
Registered(m) == \E u \in Signups : Exists(u) /\ email[u] = m

\* The row of u gets role r, and lostFor keeps up.
SetRole(u, r) ==
    /\ role' = [role EXCEPT ![u] = r]
    /\ lostFor' = [lostFor EXCEPT ![u] = [q \in Roles |-> IF q = r THEN 0 ELSE @[q]]]

-----------------------------------------------------------------------------
(* signup *)

\* The query for the email: 409 if it is taken.
CheckEmail(c, m, r) ==
    /\ pc[c] = "idle"
    /\ email' = [email EXCEPT ![c] = m]
    /\ IF Registered(m)
         THEN Goto(c, "done") /\ UNCHANGED asked
         ELSE Goto(c, "commit") /\ asked' = [asked EXCEPT ![c] = r]
    /\ UNCHANGED <<role, request, tokens, tenants, lostFor>>

\* Mutant: users.email is not unique.
EmailIsFreeAlways(m) == TRUE
\* The unique index on users.email, at the flush.
EmailIsFree(m) == ~Registered(m)

\* The row is committed, or the index raises (500) and nothing is.
CommitUser(c) ==
    /\ pc[c] = "commit"
    /\ IF EmailIsFree(email[c]) THEN SetRole(c, asked[c]) ELSE UNCHANGED <<role, lostFor>>
    /\ asked' = [asked EXCEPT ![c] = None]
    /\ Goto(c, "done")
    /\ UNCHANGED <<email, request, tokens, tenants>>

-----------------------------------------------------------------------------
(* Tokens *)

\* Mutant: an access token lives as long as a refresh token.
AccessTokenLong(u, r) == [kind |-> "access", user |-> u, role |-> r, left |-> RefreshTTL]
\* create_access_token: the role is fixed in the token.
AccessToken(u, r) == [kind |-> "access", user |-> u, role |-> r, left |-> AccessTTL]
\* create_refresh_token: no role.
RefreshToken(u) == [kind |-> "refresh", user |-> u, left |-> RefreshTTL]

Serves(q, r) ==
    /\ request[q] = None
    /\ request' = [request EXCEPT ![q] = r]
    /\ UNCHANGED <<pc, email, asked, role, tokens, tenants, lostFor>>
Waits(q, op) == request[q] # None /\ request[q].op = op
Served(q) == request' = [request EXCEPT ![q] = None]

\* The row that a login or refresh has read.
ReadRow(u) == [op |-> "issue", user |-> u, role |-> role[u], waited |-> 0]

\* The email names the account, and the password will match; otherwise 401.
Login(q, u) ==
    /\ Exists(u)
    /\ Serves(q, ReadRow(u))

\* verify_refresh_token
IsRefreshToken(t) == t.kind = "refresh"

\* Mutant: the account need not exist any more.
RefreshOfAnyone(q, t) ==
    /\ t \in tokens /\ IsRefreshToken(t)
    /\ Serves(q, ReadRow(t.user))
\* refresh: the role is read again; the token that was used stays valid.
Refresh(q, t) ==
    /\ t \in tokens /\ IsRefreshToken(t)
    /\ Exists(t.user)
    /\ Serves(q, ReadRow(t.user))

\* Both tokens are made from the row as it was read, with their full lifetimes.
IssueTokens(q) ==
    /\ Waits(q, "issue")
    /\ tokens' = tokens \cup {AccessToken(request[q].user, request[q].role),
                              RefreshToken(request[q].user)}
    /\ Served(q)
    /\ UNCHANGED <<pc, email, asked, role, tenants, lostFor>>

-----------------------------------------------------------------------------
(* Tenants *)

\* Mutant: the token is checked and its role is not.
AuthorizedByAnyRole(t) == t.kind = "access"
\* get_current_user and require_role(ADMIN): no look-up in the database.
Authorized(t) == t.kind = "access" /\ t.role = Admin

\* The dependency of create_tenant, before its body.
CheckAdmin(q, t) ==
    /\ t \in tokens /\ Authorized(t)
    /\ Cardinality(tenants) + Cardinality({p \in Threads : Waits(p, "insert")}) < MaxTenants
    /\ Serves(q, [op |-> "insert", user |-> t.user, waited |-> 0])

CreateTenant(q) ==
    /\ Waits(q, "insert")
    /\ tenants' = tenants \cup {[by |-> request[q].user,
                                 lostFor |-> lostFor[request[q].user][Admin]]}
    /\ Served(q)
    /\ UNCHANGED <<pc, email, asked, role, tokens, lostFor>>

-----------------------------------------------------------------------------
(* The administrator and time *)

ChangeRole(u, r) ==
    /\ Exists(u) /\ r # role[u]
    /\ SetRole(u, r)
    /\ UNCHANGED <<pc, email, asked, request, tokens, tenants>>

RemoveUser(u) ==
    /\ Exists(u)
    /\ role' = [role EXCEPT ![u] = None]
    /\ UNCHANGED <<pc, email, asked, request, tokens, tenants, lostFor>>

\* Tokens come closer to their exp and are refused once it is reached.
Tick ==
    /\ \A q \in Threads : request[q] # None => request[q].waited < MaxDelay
    /\ request' = [q \in Threads |-> IF request[q] = None THEN None
                                     ELSE [request[q] EXCEPT !.waited = @ + 1]]
    /\ tokens' = {[t EXCEPT !.left = @ - 1] : t \in {t \in tokens : t.left > 1}}
    /\ lostFor' = [u \in Signups |-> [r \in Roles |->
                     IF role[u] = r THEN 0
                     ELSE IF lostFor[u][r] < Long THEN lostFor[u][r] + 1 ELSE Long]]
    /\ UNCHANGED <<pc, email, asked, role, tenants>>

-----------------------------------------------------------------------------
Next ==
    \/ \E c \in Signups :
          \/ \E m \in Emails, r \in Roles : CheckEmail(c, m, r)
          \/ CommitUser(c)
          \/ RemoveUser(c)
          \/ \E r \in Roles : ChangeRole(c, r)
    \/ \E q \in Threads :
          \/ \E u \in Signups : Login(q, u)
          \/ \E t \in tokens : Refresh(q, t) \/ CheckAdmin(q, t)
          \/ IssueTokens(q) \/ CreateTenant(q)
    \/ Tick

Spec == Init /\ [][Next]_vars

\* Time passes, and a thread that serves a request goes on; nobody has to send one.
FairSpec ==
    /\ Spec /\ WF_vars(Tick)
    /\ \A q \in Threads : WF_vars(IssueTokens(q)) /\ WF_vars(CreateTenant(q))

-----------------------------------------------------------------------------
\* Two signups that both find the email free do not both get the account.
OneAccountPerEmail ==
    \A u, v \in Signups : Exists(u) /\ Exists(v) /\ email[u] = email[v] => u = v

\* "role changes take effect without re-login": a role that a valid access token
\* claims was the user's when the row was read for it, through any chain of
\* refreshes.  The token's lifetime starts later than that, so a role that was
\* taken away is usable for less than the lifetime and the delay of one request.
StaleRoleIsBounded ==
    \A t \in tokens : t.kind = "access" =>
        lostFor[t.user][t.role] <= AccessTTL - t.left + MaxDelay

\* Tenants are created by users who are admins or ceased to be so less than one
\* access token's lifetime and the delays of two requests before: the one that
\* read the role and the one that inserts the tenant after its check.
TenantsComeFromAdmins == \A n \in tenants : n.lostFor < AccessTTL + 2 * MaxDelay

\* A user who is gone for good is locked out in the end: the requests that read
\* the row before it was removed end, and the refresh tokens that are left give
\* no new access token.
RemovedIsLockedOut ==
    \A u \in Signups :
        pc[u] = "done" /\ ~Exists(u)
            ~> ~\E t \in tokens : t.kind = "access" /\ t.user = u
=============================================================================
