------------------------------ MODULE UserAccess ------------------------------
(***************************************************************************)
(* Who may use the gateway: the sessions of users (user_auth.py) and of    *)
(* the administrator (admin_auth.py), the users' API keys and their being  *)
(* enabled (user_repository.py), behind the limiter of the administrator's *)
(* login (main.py).                                                        *)
(*                                                                         *)
(* The handlers run on the event loop, one at a time, but what they depend *)
(* on, current_user and current_admin, runs in a thread of the pool before *)
(* them (user_api.py, admin_api.py).  So a request is first let in, and    *)
(* its handler meets whatever has become of its session and its user in    *)
(* the meantime.  An API key, in contrast, is looked up by the handler     *)
(* itself (public_api.py).                                                 *)
(***************************************************************************)
EXTENDS RateLimiter

CONSTANTS
    Users, Administrator,
    Requests,       \* requests that have been let in at the same time
    Ttl,            \* ttl_seconds of a session
    MaxTokens,      \* bound: sessions of users
    MaxAdminTokens, \* bound: sessions of the administrator
    MaxSecrets,     \* bound: API keys, and secrets handed out for them
    MaxPasswords,   \* bound: changes of a user's password
    NoRow, NoRequest

User == [active : BOOLEAN, password : Nat]
Session == [user : Users, password : Nat, expires : Nat, revoked : BOOLEAN]
AdminSession == [expires : Nat]
(* A key that is not revoked is enabled: nothing else disables one.        *)
Key == [user : Users, secret : Nat, revoked : BOOLEAN]
(* Let in by a session of a user or of the administrator or, at the        *)
(* administrator's login, by the limiter.                                  *)
Request == [by : {"user", "admin", "limiter"}, who : Users \union {Administrator}, token : Nat]

ASSUME AccessAssumption ==
    /\ Administrator \notin Users
    /\ {"unissued", "ended"} \intersect (Users \union {Administrator}) = {}
    /\ NoRow \notin Session \union AdminSession
    /\ Ttl \in Nat \ {0}
    /\ {MaxTokens, MaxAdminTokens, MaxSecrets, MaxPasswords} \subseteq Nat

VARIABLES
    users,          \* the rows of users, as far as access depends on them
    sessions,       \* user_sessions, by number of their token
    adminSessions,  \* admin_sessions, likewise
    keys,           \* user_api_keys, by id
    secrets,        \* how many secrets of API keys were handed out
    request

accessVars == <<clock, limiterVars, users, sessions, adminSessions, keys, secrets, request>>

AccessTypeOK ==
    /\ LimiterTypeOK
    /\ users \in [Users -> User]
    /\ sessions \in Seq(Session \union {NoRow})
    /\ adminSessions \in Seq(AdminSession \union {NoRow})
    /\ keys \in Seq(Key)
    /\ secrets \in Nat
    /\ request \in [Requests -> Request \union {NoRequest}]
    /\ \A r \in Requests : request[r] # NoRequest /\ request[r].by = "user" =>
          request[r].who \in Users

AccessInit ==
    /\ LimiterInit
    /\ users = [u \in Users |-> [active |-> TRUE, password |-> 0]]
    /\ sessions = <<>>
    /\ adminSessions = <<>>
    /\ keys = <<>>
    /\ secrets = 0
    /\ request = [r \in Requests |-> NoRequest]

-----------------------------------------------------------------------------
(* A session that authenticate accepts, its user permitting.               *)
Open(n) ==
    /\ sessions[n] # NoRow
    /\ ~sessions[n].revoked /\ clock < sessions[n].expires

AdminOpen(n) == adminSessions[n] # NoRow /\ clock < adminSessions[n].expires

(* The secret of the key row is one that authenticate_api_key accepts, its *)
(* user permitting.                                                        *)
Working(k) == ~keys[k].revoked

LetIn(r, how) ==
    /\ request[r] = NoRequest
    /\ request' = [request EXCEPT ![r] = how]

(* A right name and password.  Sessions that are over, whoever has them,   *)
(* are deleted along the way.                                              *)
Login(u) ==
    /\ Len(sessions) < MaxTokens
    /\ users[u].active
    /\ sessions' = Append([n \in DOMAIN sessions |-> IF Open(n) THEN sessions[n] ELSE NoRow],
                          [user |-> u, password |-> users[u].password,
                           expires |-> clock + Ttl, revoked |-> FALSE])
    /\ UNCHANGED <<clock, limiterVars, users, adminSessions, keys, secrets, request>>

(* current_user, in its thread.                                            *)
Authenticate(r, n) ==
    /\ Open(n) /\ users[sessions[n].user].active
    /\ LetIn(r, [by |-> "user", who |-> sessions[n].user, token |-> n])
    /\ UNCHANGED <<clock, limiterVars, users, sessions, adminSessions, keys, secrets>>

(* The sessions without the rows of user u.                                *)
Without(u) ==
    [n \in DOMAIN sessions |->
        IF sessions[n] # NoRow /\ sessions[n].user = u THEN NoRow ELSE sessions[n]]

(* UPDATE ... SET revoked_at of the rows in S.                             *)
Revoked(S) ==
    [n \in DOMAIN sessions |->
        IF n \in S /\ sessions[n] # NoRow THEN [sessions[n] EXCEPT !.revoked = TRUE]
        ELSE sessions[n]]

(* The handler of a request that was let in for user u; its session may be *)
(* gone by now, or the user disabled.                                      *)
Handles(r, u) ==
    /\ request[r] # NoRequest
    /\ request[r].by = "user" /\ request[r].who = u
    /\ request' = [request EXCEPT ![r] = NoRequest]

Logout(r, u) ==
    /\ Handles(r, u)
    /\ sessions' = Revoked({request[r].token} \intersect DOMAIN sessions)
    /\ UNCHANGED <<clock, limiterVars, users, adminSessions, keys, secrets>>

RevokeAll(r, u) ==
    /\ Handles(r, u)
    /\ sessions' = Revoked({n \in DOMAIN sessions : sessions[n] # NoRow /\ sessions[n].user = u})
    /\ UNCHANGED <<clock, limiterVars, users, adminSessions, keys, secrets>>

(* Mutant: the sessions stay.                                              *)
ChangePasswordOnly(r, u) ==
    /\ Handles(r, u)
    /\ users[u].password < MaxPasswords
    /\ users' = [users EXCEPT ![u].password = @ + 1]
    /\ UNCHANGED <<clock, limiterVars, sessions, adminSessions, keys, secrets>>

(* The current password is given with the request, and right.              *)
ChangePassword(r, u) ==
    /\ Handles(r, u)
    /\ users[u].password < MaxPasswords
    /\ users' = [users EXCEPT ![u].password = @ + 1]
    /\ sessions' = Without(u)
    /\ UNCHANGED <<clock, limiterVars, adminSessions, keys, secrets>>

(* The handler refuses (no such key, wrong password) or only reads.        *)
NothingDone(r) ==
    /\ request[r] # NoRequest
    /\ request' = [request EXCEPT ![r] = NoRequest]
    /\ UNCHANGED <<clock, limiterVars, users, sessions, adminSessions, keys, secrets>>

-----------------------------------------------------------------------------
CreateApiKey(r, u) ==
    /\ Handles(r, u)
    /\ secrets < MaxSecrets
    /\ users[u].active
    /\ secrets' = secrets + 1
    /\ keys' = Append(keys, [user |-> u, secret |-> secrets + 1, revoked |-> FALSE])
    /\ UNCHANGED <<clock, limiterVars, users, sessions, adminSessions>>

(* Mutant: whether the key has been revoked meanwhile is not looked at.    *)
RegenerateRevoked(r, u, k) ==
    /\ Handles(r, u)
    /\ secrets < MaxSecrets
    /\ keys[k].user = u
    /\ secrets' = secrets + 1
    /\ keys' = [keys EXCEPT ![k] = [user |-> u, secret |-> secrets + 1, revoked |-> FALSE]]
    /\ UNCHANGED <<clock, limiterVars, users, sessions, adminSessions>>

(* A new secret for a key; the user is not looked at again.                *)
RegenerateApiKey(r, u, k) ==
    /\ Handles(r, u)
    /\ secrets < MaxSecrets
    /\ keys[k].user = u /\ ~keys[k].revoked
    /\ secrets' = secrets + 1
    /\ keys' = [keys EXCEPT ![k].secret = secrets + 1]
    /\ UNCHANGED <<clock, limiterVars, users, sessions, adminSessions>>

RevokeApiKey(r, u, k) ==
    /\ Handles(r, u)
    /\ keys[k].user = u /\ ~keys[k].revoked
    /\ keys' = [keys EXCEPT ![k].revoked = TRUE]
    /\ UNCHANGED <<clock, limiterVars, users, sessions, adminSessions, secrets>>

-----------------------------------------------------------------------------
(* The administrator's login, past the limiter and up to its handler.      *)
AdminLoginPasses(r, k) ==
    /\ Len(adminSessions) < MaxAdminTokens
    /\ request[r] = NoRequest
    /\ Passes(k)
    /\ request' = [request EXCEPT ![r] =
                     [by |-> "limiter", who |-> Administrator, token |-> 0]]
    /\ UNCHANGED <<users, sessions, adminSessions, keys, secrets>>

AdminLoginRefused(k) ==
    /\ Refused(k)
    /\ UNCHANGED <<users, sessions, adminSessions, keys, secrets, request>>

AdminPurged ==
    [n \in DOMAIN adminSessions |-> IF AdminOpen(n) THEN adminSessions[n] ELSE NoRow]

(* A right password; with a wrong one NothingDone.                         *)
AdminLogin(r) ==
    /\ request[r] # NoRequest /\ request[r].by = "limiter"
    /\ Len(adminSessions) < MaxAdminTokens
    /\ request' = [request EXCEPT ![r] = NoRequest]
    /\ adminSessions' = Append(AdminPurged, [expires |-> clock + Ttl])
    /\ UNCHANGED <<clock, limiterVars, users, sessions, keys, secrets>>

(* current_admin, in its thread.                                           *)
AdminAuthenticate(r, n) ==
    /\ AdminOpen(n)
    /\ LetIn(r, [by |-> "admin", who |-> Administrator, token |-> n])
    /\ UNCHANGED <<clock, limiterVars, users, sessions, adminSessions, keys, secrets>>

HandlesAdmin(r) ==
    /\ request[r] # NoRequest /\ request[r].by = "admin"
    /\ request' = [request EXCEPT ![r] = NoRequest]

AdminLogout(r) ==
    /\ HandlesAdmin(r)
    /\ adminSessions' = [adminSessions EXCEPT ![request[r].token] = NoRow]
    /\ UNCHANGED <<clock, limiterVars, users, sessions, keys, secrets>>

SetUserEnabled(r, u, enabled) ==
    /\ HandlesAdmin(r)
    /\ users' = [users EXCEPT ![u].active = enabled]
    /\ sessions' = IF enabled THEN sessions ELSE Without(u)
    /\ UNCHANGED <<clock, limiterVars, adminSessions, keys, secrets>>

(* The retention script, another process.                                  *)
Cleanup ==
    /\ adminSessions' = AdminPurged
    /\ UNCHANGED <<clock, limiterVars, users, sessions, keys, secrets, request>>

TimePasses ==
    /\ Tick
    /\ UNCHANGED <<users, sessions, adminSessions, keys, secrets, request>>

-----------------------------------------------------------------------------
UserNext(u) ==
    \/ Login(u)
    \/ \E r \in Requests :
          \/ Logout(r, u) \/ RevokeAll(r, u) \/ ChangePassword(r, u) \/ CreateApiKey(r, u)
          \/ \E k \in DOMAIN keys : RegenerateApiKey(r, u, k) \/ RevokeApiKey(r, u, k)

AdminNext ==
    \/ \E k \in Names : AdminLoginRefused(k) \/ \E r \in Requests : AdminLoginPasses(r, k)
    \/ \E r \in Requests :
          \/ AdminLogin(r) \/ AdminLogout(r)
          \/ \E n \in DOMAIN adminSessions : AdminAuthenticate(r, n)
          \/ \E u \in Users, enabled \in BOOLEAN : SetUserEnabled(r, u, enabled)

AccessNext ==
    \/ \E u \in Users : UserNext(u)
    \/ \E r \in Requests :
          NothingDone(r) \/ \E n \in DOMAIN sessions : Authenticate(r, n)
    \/ AdminNext \/ Cleanup \/ TimePasses

AccessSpec == AccessInit /\ [][AccessNext]_accessVars

-----------------------------------------------------------------------------
(* Whoever knows only an old password has no session: a session that is    *)
(* not over was opened with the present password of a user who is enabled, *)
(* whatever requests were on their way when either changed                 *)
(* (change_password, set_user_enabled).                                    *)
SessionsCurrent ==
    \A n \in DOMAIN sessions : Open(n) =>
        /\ users[sessions[n].user].active
        /\ sessions[n].password = users[sessions[n].user].password

(* The credentials, numbered as they are issued.                           *)
SessionCredentials ==
    ({"session"} \X (1 .. MaxTokens)) \union ({"admin"} \X (1 .. MaxAdminTokens))
KeyCredentials == {"key"} \X (1 .. MaxSecrets)
Credential ==
    SessionCredentials \union KeyCredentials \union ({"secret"} \X (1 .. MaxSecrets))

Life(c) ==
    CASE c[1] = "session" ->
           IF c[2] > Len(sessions) THEN "unissued"
           ELSE IF Open(c[2]) THEN sessions[c[2]].user ELSE "ended"
      [] c[1] = "admin" ->
           IF c[2] > Len(adminSessions) THEN "unissued"
           ELSE IF AdminOpen(c[2]) THEN Administrator ELSE "ended"
      [] c[1] = "key" ->
           IF c[2] > Len(keys) THEN "unissued"
           ELSE IF Working(c[2]) THEN keys[c[2]].user ELSE "ended"
      [] c[1] = "secret" ->
           IF c[2] > secrets THEN "unissued"
           ELSE IF \E k \in DOMAIN keys : keys[k].secret = c[2] /\ Working(k)
                THEN keys[CHOOSE k \in DOMAIN keys : keys[k].secret = c[2]].user
                ELSE "ended"

Promise == INSTANCE CredentialLife WITH
    Credentials <- Credential,
    Sessions <- SessionCredentials,
    Keys <- KeyCredentials,
    Holders <- Users \union {Administrator},
    Unissued <- "unissued",
    Ended <- "ended",
    life <- [c \in Credential |-> Life(c)],
    admitted <- {Administrator} \union {u \in Users : users[u].active}

(* What ends, ends for good: a session that was logged out, revoked, lost  *)
(* with its password or its user's being disabled, or ran out, a secret    *)
(* that was replaced, and a key that was revoked, whoever its user, is     *)
(* never accepted again, not even through requests that were let in before *)
(* and handled after.  Nobody who is disabled is given a session or a key; *)
(* for a key he has, a request that was let in before may still give him a *)
(* new secret (regenerate_api_key), in exchange for the one it ends.       *)
ImplementsCredentials == Promise!LifeSpec

==============================================================================
