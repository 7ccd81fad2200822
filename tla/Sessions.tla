------------------------------ MODULE Sessions ------------------------------
(***************************************************************************)
(* Logins, session tokens and roles (internal/auth, api/auth_routes.go),   *)
(* over the teams store that administrators change and logins read.        *)
(*                                                                         *)
(* A login reads the user's groups from the directory, then checks the     *)
(* password, then fixes role, department and expiry in a signed token. The *)
(* server keeps no session: it decides by the token alone, and the audit   *)
(* stream decides once, when it is opened. The directory may change at any *)
(* time, and the server restart with the same signing key or another.      *)
(*                                                                         *)
(* Time is in seconds and parts of a second, since a token's expiry is cut *)
(* down to seconds. A name is the sequence of its parts between bars, the  *)
(* character that separates the fields of a token.                         *)
(***************************************************************************)
EXTENDS TeamsStore

CONSTANTS
    Browsers,        \* each with a token, a login and an audit stream
    Users, Groups,
    RoleGroups,      \* role -> groups listed for it in the environment
    TeamName,        \* map of the store -> group -> name, NoName if absent
    Org,             \* user -> attribute "o"
    NoName,
    Parts, TTL,      \* parts of a second; seconds a session lasts
    MaxTime, MaxKeys

Roles == {"adm", "dev", "view"}

ASSUME SessionsAssumption ==
    /\ None \notin Roles
    /\ RoleGroups \in [Roles -> SUBSET Groups]
    /\ TeamName \in [Maps \cup {NoMap} -> [Groups -> Seq(STRING)]]
    /\ Org \in [Users -> Seq(STRING)]
    /\ Parts \in Nat \ {0} /\ TTL \in Nat
    /\ MaxTime \in Nat /\ MaxKeys \in Nat

VARIABLES
    now, part,   \* the clock: time.Now().Unix() and the rest
    secret,      \* signing key of this start, 0 for the configured one
    login,       \* browser -> login between its lookup and its end, or None
    token,       \* browser -> token it holds, or None
    stream,      \* browser -> token it opened the audit stream with, or None
    keys         \* number of keys generated so far

session == <<now, part, secret, login, token, stream, keys>>
svars == <<vars, session>>

-----------------------------------------------------------------------------
(* Roles *)

\* addGroupRoles, called for adm, dev and view in this order.
GroupRoleMap ==
    [g \in UNION {RoleGroups[r] : r \in Roles} |->
        IF g \in RoleGroups["view"] THEN "view"
        ELSE IF g \in RoleGroups["dev"] THEN "dev" ELSE "adm"]

Granted(groups) == {GroupRoleMap[g] : g \in groups \cap DOMAIN GroupRoleMap}

\* Variant: a user without a mapped group is let in to read.
ResolveRoleOrView(groups) ==
    IF "adm" \in Granted(groups) THEN "adm"
    ELSE IF "dev" \in Granted(groups) THEN "dev" ELSE "view"

\* The most privileged role, or None.
ResolveRole(groups) ==
    IF "adm" \in Granted(groups) THEN "adm"
    ELSE IF "dev" \in Granted(groups) THEN "dev"
    ELSE IF "view" \in Granted(groups) THEN "view" ELSE None

\* CanWrite, CanDelete, IsAdmin: the roles that a check lets pass.
Allowed == [auth   |-> Roles,   write |-> {"adm", "dev"},
            delete |-> {"adm"}, admin |-> {"adm"}]

\* The check each route is registered with.
Check == [tree |-> "auth", file |-> "auth", search |-> "auth", graph |-> "auth",
          history |-> "auth", me |-> "auth", config |-> "auth", cards |-> "auth",
          save |-> "write", rename |-> "write", namespace |-> "write",
          delete |-> "delete",
          audit |-> "admin", drift |-> "admin", teams |-> "admin"]

-----------------------------------------------------------------------------
(* Tokens *)

\* username|role|department|expires|teams|identity, split at bars into at most
\* six fields: a seventh stays in the sixth, which is then no JSON any more.
FieldsOf(t) == 5 + Len(t.department)

\* Variant: a token is refused from its last second on.
VerifyBefore(t) ==
    /\ t # None /\ t.secret = secret
    /\ FieldsOf(t) = 6
    /\ now < t.expires

Verify(t) ==
    /\ t # None /\ t.secret = secret
    /\ FieldsOf(t) = 6
    /\ now <= t.expires

\* A request on the route with this token gets past the middleware.
Admits(t, route) == Verify(t) /\ t.role \in Allowed[Check[route]]

Up == data # None

-----------------------------------------------------------------------------
(* Login *)

SInit ==
    /\ Init
    /\ now = 0 /\ part = 0
    /\ secret = 0
    /\ login = [b \in Browsers |-> None]
    /\ token = [b \in Browsers |-> None]
    /\ stream = [b \in Browsers |-> None]
    /\ keys = 0

\* Authenticate up to lookupGroups: the groups are what the directory says now.
LookUp(b) ==
    /\ Up /\ login[b] = None
    /\ \E u \in Users, groups \in SUBSET Groups :
          login' = [login EXCEPT ![b] = [user |-> u, groups |-> groups]]
    /\ UNCHANGED <<vars, now, part, secret, token, stream, keys>>

\* resolveDepartment: the name of the first group that has one, in the order
\* the directory listed them.
Departments(u, groups) ==
    LET named == {g \in groups : TeamName[data][g] # NoName}
    IN IF named = {} THEN {Org[u]} ELSE {TeamName[data][g] : g \in named}

\* Issue.
NewToken(l, department) ==
    [user |-> l.user, role |-> ResolveRole(l.groups), department |-> department,
     expires |-> now + TTL, secret |-> secret,
     groups |-> l.groups, sec |-> now, part |-> part]   \* history

\* The bind as the user succeeds, a role is found: the browser gets a token.
EndLogin(b) ==
    /\ Up /\ login[b] # None /\ ResolveRole(login[b].groups) # None
    /\ \E d \in Departments(login[b].user, login[b].groups) :
          token' = [token EXCEPT ![b] = NewToken(login[b], d)]
    /\ login' = [login EXCEPT ![b] = None]
    /\ UNCHANGED <<vars, now, part, secret, stream, keys>>

\* Wrong password, no role, or an error of the directory.
FailLogin(b) ==
    /\ login[b] # None
    /\ login' = [login EXCEPT ![b] = None]
    /\ UNCHANGED <<vars, now, part, secret, token, stream, keys>>

-----------------------------------------------------------------------------
(* Requests *)

\* PUT /api/group-teams: the handler calls Set, in the goroutine of its request.
Put(b, a) ==
    /\ Admits(token[b], "teams") /\ Begin(a)
    /\ UNCHANGED session

\* GET /ws/audit.
OpenStream(b) ==
    /\ Up /\ stream[b] = None /\ Admits(token[b], "audit")
    /\ stream' = [stream EXCEPT ![b] = token[b]]
    /\ UNCHANGED <<vars, now, part, secret, login, token, keys>>

\* The page is left, or a deadline of the connection passes.
CloseStream(b) ==
    /\ stream[b] # None
    /\ stream' = [stream EXCEPT ![b] = None]
    /\ UNCHANGED <<vars, now, part, secret, login, token, keys>>

\* Set goes on.
SetStep(a) ==
    /\ Open(a) \/ Write(a) \/ Rename(a) \/ Publish(a) \/ Fail(a)
    /\ UNCHANGED session

-----------------------------------------------------------------------------
(* The world *)

Tick ==
    /\ now < MaxTime
    /\ IF part + 1 < Parts THEN part' = part + 1 /\ UNCHANGED now
                           ELSE part' = 0 /\ now' = now + 1
    /\ UNCHANGED <<vars, secret, login, token, stream, keys>>

Stop ==
    /\ Up /\ Crash
    /\ login' = [b \in Browsers |-> None]
    /\ stream' = [b \in Browsers |-> None]
    /\ UNCHANGED <<now, part, secret, token, keys>>

\* sessionSecret: the configured key, or one made for this start.
Start ==
    /\ Load
    /\ \/ secret' = 0 /\ UNCHANGED keys
       \/ keys < MaxKeys /\ keys' = keys + 1 /\ secret' = keys'
    /\ UNCHANGED <<now, part, login, token, stream>>

SNext ==
    \/ Start \/ Stop \/ Tick
    \/ \E a \in Admins : SetStep(a) \/ \E b \in Browsers : Put(b, a)
    \/ \E b \in Browsers : \/ LookUp(b) \/ EndLogin(b) \/ FailLogin(b)
                           \/ OpenStream(b) \/ CloseStream(b)

SSpec == SInit /\ [][SNext]_svars

-----------------------------------------------------------------------------
(* Properties *)

Name == Seq(STRING)
Login == [user : Users, groups : SUBSET Groups]
Token == [user : Users, role : Roles, department : Name, expires : Nat,
          secret : 0 .. MaxKeys,
          groups : SUBSET Groups, sec : Nat, part : 0 .. Parts - 1]

SessionsTypeOK ==
    /\ TypeOK
    /\ now \in 0 .. MaxTime /\ part \in 0 .. Parts - 1
    /\ keys \in 0 .. MaxKeys /\ secret \in 0 .. keys
    /\ login \in [Browsers -> {None} \cup Login]
    /\ token \in [Browsers -> {None} \cup Token]
    /\ stream \in [Browsers -> {None} \cup Token]

\* More than s seconds have passed since the token was issued.
Older(t, s) == now > t.sec + s \/ (now = t.sec + s /\ part > t.part)

\* A session lasts as long as configured, to the second: a token whose fields
\* can be told apart is good until its time is over as long as the signing key
\* is the same, and no token is good a second later or under another key
\* (session.go:43, 90; main.go:294-297).
SessionIsHonoured ==
    \A b \in Browsers : token[b] # None =>
        /\ /\ token[b].secret = secret /\ Len(token[b].department) = 1
           /\ ~Older(token[b], TTL)
           => Verify(token[b])
        /\ Verify(token[b]) => token[b].secret = secret /\ ~Older(token[b], TTL + 1)

\* Roles are neither made up nor lost: exactly those requests get past a route's
\* check for which the directory granted a sufficient role when the login asked,
\* and they come while the session lasts, to the second; who reads the audit
\* stream was an administrator then, and the server has not been restarted with
\* another key since. A stream may outlive its session, a request may not
\* (role.go:40-56, middleware.go:27-29, audit_routes.go:45-53).
ActsWithinAGrant ==
    \A b \in Browsers :
        /\ \A route \in DOMAIN Check :
              /\ Admits(token[b], route) => ~Older(token[b], TTL + 1)
              /\ Verify(token[b]) =>
                    (Admits(token[b], route)
                     <=> Allowed[Check[route]] \cap Granted(token[b].groups) # {})
        /\ stream[b] # None => /\ Up /\ stream[b].secret = secret
                               /\ "adm" \in Granted(stream[b].groups)
=============================================================================
