-------------------------- MODULE UserAccess_proof --------------------------
(***************************************************************************)
(* Proofs about access to the gateway: the limiter's window, the sessions  *)
(* and the secrets of API keys, for any number of users, requests and      *)
(* names and any limits.                                                   *)
(***************************************************************************)
EXTENDS UserAccess, SequenceTheorems, TLAPS

(* The times of a name never decrease and lie in the past, and those that  *)
(* have left the deque were stale then and stay so.                        *)
TimesOK(k) ==
    /\ popped[k] <= Len(accepted[k])
    /\ \A i \in DOMAIN accepted[k] : accepted[k][i] <= clock
    /\ \A i, j \in DOMAIN accepted[k] : i <= j => accepted[k][i] <= accepted[k][j]
    /\ \A i \in DOMAIN accepted[k] : i <= popped[k] => Stale(accepted[k][i])

LimiterInv == LimiterTypeOK /\ (\A k \in Names : TimesOK(k)) /\ WindowKept /\ RefusedRightly

-----------------------------------------------------------------------------
(* With fewer than limit events in the deque, the event limit places       *)
(* before a new one has left it.                                           *)
LEMMA NewestMeetsPopped ==
    \A i, n, length, limit \in Nat :
        limit > 0 /\ length - n < limit /\ i + limit = length + 1 =>
            i <= length /\ i <= n
  OBVIOUS

(* check, when it lets a request through or refuses it.                    *)
LEMMA PassesKeeps ==
    ASSUME LimiterInv, NEW k \in Names, Passes(k)
    PROVE  LimiterInv'
  <1> USE DEF LimiterInv, LimiterTypeOK
  <1>1. PICK n \in Trimmed(k) :
            /\ ~Full(k, n)
            /\ popped' = [popped EXCEPT ![k] = n]
            /\ accepted' = [accepted EXCEPT ![k] = Append(@, clock)]
            /\ UNCHANGED <<clock, refusedAt>>
    BY DEF Passes
  <1> DEFINE a == accepted[k]
             b == Append(a, clock)
  <1>2. /\ a \in Seq(Nat) /\ Len(a) \in Nat /\ DOMAIN a = 1 .. Len(a)
        /\ \A i \in DOMAIN a : a[i] \in Nat
    OBVIOUS
  <1>3. /\ b \in Seq(Nat) /\ Len(b) = Len(a) + 1 /\ DOMAIN b = 1 .. Len(a) + 1
        /\ \A i \in DOMAIN a : b[i] = a[i]
        /\ b[Len(a) + 1] = clock
    BY <1>2
  <1>4. n \in Nat /\ popped[k] <= n /\ n <= Len(a)
    BY <1>2 DEF Trimmed
  <1>5. \A i \in DOMAIN a : i <= n => a[i] + Window <= clock
    <2>1. \A i \in popped[k] + 1 .. n : Stale(a[i]) BY DEF Trimmed
    <2>2. \A i \in DOMAIN a : i <= popped[k] => Stale(a[i]) BY DEF TimesOK
    <2>3. \A i \in DOMAIN a : i <= n => i <= popped[k] \/ i \in popped[k] + 1 .. n
      BY <1>2, <1>4
    <2> QED BY <2>1, <2>2, <2>3 DEF Stale
  <1>6. Window \in Nat /\ Limit \in Nat /\ Limit > 0 BY LimiterAssumption
  <1>7. /\ accepted'[k] = b /\ popped'[k] = n
        /\ \A q \in Names : q # k => accepted'[q] = accepted[q] /\ popped'[q] = popped[q]
    BY <1>1
  <1>8. /\ \A i \in DOMAIN a : a[i] <= clock
        /\ \A i, j \in DOMAIN a : i <= j => a[i] <= a[j]
        /\ \A i \in DOMAIN a : i + Limit \in DOMAIN a => a[i] + Window <= a[i + Limit]
    BY DEF TimesOK, WindowKept
  <1>9. Len(a) - n < Limit BY <1>1, <1>2, <1>4, <1>6 DEF Full
  <1>10. LimiterTypeOK'
    BY <1>1, <1>3, <1>4
  <1> HIDE DEF b
  <1>11. TimesOK(k)'
    BY <1>1, <1>2, <1>3, <1>4, <1>5, <1>7, <1>8, SMTT(30) DEF TimesOK, Stale
  <1>12. \A q \in Names : q # k => TimesOK(q)'
    BY <1>1, <1>7 DEF TimesOK, Stale
  <1>13. \A i \in DOMAIN b : i + Limit \in DOMAIN b => b[i] + Window <= b[i + Limit]
    <2> SUFFICES ASSUME NEW i \in DOMAIN b, i + Limit \in DOMAIN b
                 PROVE  b[i] + Window <= b[i + Limit]
      OBVIOUS
    <2>1. CASE i + Limit \in DOMAIN a
      <3>1. i \in DOMAIN a BY <1>2, <1>3, <1>6, <2>1
      <3> QED BY <1>3, <1>8, <2>1, <3>1
    <2>2. CASE i + Limit = Len(a) + 1
      <3>1. i \in Nat /\ 1 <= i BY <1>2, <1>3
      <3>2. i <= Len(a) /\ i <= n
        BY <1>2, <1>4, <1>6, <1>9, <2>2, <3>1, NewestMeetsPopped
      <3>3. i \in DOMAIN a BY <1>2, <3>1, <3>2
      <3> QED BY <1>3, <1>5, <2>2, <3>2, <3>3
    <2> QED BY <1>2, <1>3, <1>6, <2>1, <2>2
  <1>14. WindowKept' BY <1>7, <1>13 DEF WindowKept
  <1>15. RefusedRightly'
    <2> SUFFICES ASSUME NEW q \in Names, refusedAt[q] # Never
                 PROVE  \E m \in 0 .. Len(accepted'[q]) - Limit :
                          \A i \in m + 1 .. m + Limit :
                             /\ accepted'[q][i] <= refusedAt[q]
                             /\ refusedAt[q] < accepted'[q][i] + Window
      BY <1>1 DEF RefusedRightly
    <2>1. PICK m \in 0 .. Len(accepted[q]) - Limit :
             \A i \in m + 1 .. m + Limit :
                /\ accepted[q][i] <= refusedAt[q]
                /\ refusedAt[q] < accepted[q][i] + Window
      BY DEF RefusedRightly
    <2>2. Len(accepted[q]) \in Nat BY DEF LimiterTypeOK
    <2>3. CASE q # k BY <1>7, <2>1, <2>3
    <2>4. CASE q = k
      <3>1. m \in 0 .. Len(b) - Limit BY <1>2, <1>3, <1>6, <2>1, <2>4
      <3>2. \A i \in m + 1 .. m + Limit : i \in DOMAIN a
        BY <1>2, <1>6, <2>1, <2>4
      <3> QED BY <1>3, <1>7, <2>1, <2>4, <3>1, <3>2
    <2> QED BY <2>3, <2>4
  <1> QED BY <1>10, <1>11, <1>12, <1>14, <1>15

LEMMA RefusedKeeps ==
    ASSUME LimiterInv, NEW k \in Names, Refused(k)
    PROVE  LimiterInv'
  <1> USE DEF LimiterInv, LimiterTypeOK
  <1>1. PICK n \in Trimmed(k) :
            /\ Full(k, n)
            /\ popped' = [popped EXCEPT ![k] = n]
            /\ refusedAt' = [refusedAt EXCEPT ![k] = clock]
            /\ UNCHANGED <<clock, accepted>>
    BY DEF Refused
  <1> DEFINE a == accepted[k]
  <1>2. /\ a \in Seq(Nat) /\ Len(a) \in Nat /\ DOMAIN a = 1 .. Len(a)
        /\ \A i \in DOMAIN a : a[i] \in Nat
    OBVIOUS
  <1>3. n \in Nat /\ popped[k] <= n /\ n <= Len(a) BY <1>2 DEF Trimmed
  <1>4. Window \in Nat /\ Limit \in Nat /\ Limit > 0 /\ Never \notin Nat BY LimiterAssumption
  <1>5. /\ n < Len(a) => ~Stale(a[n + 1])
        /\ \A i \in DOMAIN a : i <= n => Stale(a[i])
    BY <1>2, <1>3 DEF Trimmed, TimesOK
  <1>6. \A q \in Names : TimesOK(q)' BY <1>1, <1>3, <1>5 DEF TimesOK, Stale
  <1>7. WindowKept' BY <1>1 DEF WindowKept
  <1>8. LimiterTypeOK' BY <1>1, <1>3
  <1>9. RefusedRightly'
    <2>1. n \in 0 .. Len(a) - Limit BY <1>1, <1>2, <1>3, <1>4 DEF Full
    <2>2. \A i \in n + 1 .. n + Limit : i \in DOMAIN a BY <1>2, <1>3, <1>4, <2>1
    <2>3. \A i \in n + 1 .. n + Limit : a[i] <= clock /\ clock < a[i] + Window
      <3> TAKE i \in n + 1 .. n + Limit
      <3>1. i \in DOMAIN a /\ n + 1 \in DOMAIN a /\ n + 1 <= i
        BY <1>2, <1>3, <1>4, <2>1
      <3>2. a[n + 1] <= a[i] /\ a[i] <= clock BY <3>1 DEF TimesOK
      <3>3. a[n + 1] \in Nat /\ a[i] \in Nat /\ clock \in Nat BY <1>2, <3>1
      <3>4. ~(a[n + 1] + Window <= clock)
        BY <1>2, <1>3, <1>5, <3>1 DEF Stale
      <3> HIDE DEF a
      <3> QED BY <1>4, <3>2, <3>3, <3>4
    <2> QED BY <1>1, <2>1, <2>3 DEF RefusedRightly
  <1> QED BY <1>6, <1>7, <1>8, <1>9

LEMMA TickKeeps ==
    ASSUME LimiterInv, UNCHANGED limiterVars, clock' \in {clock, clock + 1}
    PROVE  LimiterInv'
  <1> USE DEF LimiterInv, LimiterTypeOK, limiterVars
  <1>1. LimiterTypeOK' OBVIOUS
  <1>2. WindowKept' /\ RefusedRightly' BY DEF WindowKept, RefusedRightly
  <1>3. ASSUME NEW k \in Names PROVE TimesOK(k)'
    <2>1. \A i \in DOMAIN accepted[k] : accepted[k][i] \in Nat OBVIOUS
    <2> QED BY <2>1, LimiterAssumption DEF TimesOK, Stale
  <1> QED BY <1>1, <1>2, <1>3

(* The limiter is only moved by its own steps.                             *)
LEMMA AccessLimits ==
    ASSUME [AccessNext]_accessVars
    PROVE  \/ \E k \in Names : Passes(k) \/ Refused(k)
           \/ UNCHANGED limiterVars /\ clock' \in {clock, clock + 1}
  <1>1. ASSUME NEW u \in Users, UserNext(u) PROVE UNCHANGED <<clock, limiterVars>>
    BY <1>1 DEF UserNext, Login, Logout, RevokeAll, ChangePassword, CreateApiKey,
       RegenerateApiKey, RevokeApiKey
  <1>2. ASSUME NEW r \in Requests, NothingDone(r) \/ \E n \in DOMAIN sessions : Authenticate(r, n)
        PROVE  UNCHANGED <<clock, limiterVars>>
    BY <1>2 DEF NothingDone, Authenticate
  <1>3. ASSUME AdminNext, ~\E k \in Names : Passes(k) \/ Refused(k)
        PROVE  UNCHANGED <<clock, limiterVars>>
    BY <1>3 DEF AdminNext, AdminLoginRefused, AdminLoginPasses, AdminLogin, AdminLogout,
       AdminAuthenticate, SetUserEnabled
  <1>4. CASE Cleanup BY <1>4 DEF Cleanup
  <1>5. CASE TimePasses BY <1>5 DEF TimePasses, Tick
  <1>6. CASE UNCHANGED accessVars BY <1>6 DEF accessVars
  <1> QED BY <1>1, <1>2, <1>3, <1>4, <1>5, <1>6 DEF AccessNext

THEOREM LimiterInvariant == AccessSpec => []LimiterInv
  <1>1. AccessInit => LimiterInv
    BY LimiterAssumption DEF AccessInit, LimiterInit, LimiterInv, LimiterTypeOK, TimesOK,
       WindowKept, RefusedRightly
  <1>2. LimiterInv /\ [AccessNext]_accessVars => LimiterInv'
    BY AccessLimits, PassesKeeps, RefusedKeeps, TickKeeps
  <1> QED BY <1>1, <1>2, PTL DEF AccessSpec

(* No window of time has more accepted requests than the limit.            *)
THEOREM AccessWindow == AccessSpec => []WindowKept
  <1>1. LimiterInv => WindowKept BY DEF LimiterInv
  <1> QED BY <1>1, LimiterInvariant, PTL

(* Nobody is refused before the window is full.                            *)
THEOREM AccessRefused == AccessSpec => []RefusedRightly
  <1>1. LimiterInv => RefusedRightly BY DEF LimiterInv
  <1> QED BY <1>1, LimiterInvariant, PTL

-----------------------------------------------------------------------------
(* A sequence whose elements are replaced one by one.                      *)
LEMMA Replaced ==
    ASSUME NEW S, NEW s \in Seq(S), NEW e, NEW N,
           e = [n \in DOMAIN s |-> e[n]], \A n \in DOMAIN s : e[n] \in S,
           N = Len(s)
    PROVE  e \in Seq(S) /\ Len(e) = N /\ DOMAIN e = 1 .. N
  OBVIOUS

(* Rows of sessions: deleted, or at most marked as revoked.                *)
KeptOrOver(f) ==
    /\ f \in Seq(Session \union {NoRow}) /\ Len(f) = Len(sessions)
    /\ \A n \in DOMAIN sessions :
          \/ f[n] = sessions[n]
          \/ f[n] = NoRow
          \/ sessions[n] # NoRow /\ f[n] = [sessions[n] EXCEPT !.revoked = TRUE]

LEMMA WithoutRows ==
    ASSUME AccessTypeOK, NEW u \in Users
    PROVE  /\ KeptOrOver(Without(u))
           /\ \A n \in DOMAIN sessions : Without(u)[n] # NoRow =>
                  Without(u)[n] = sessions[n] /\ sessions[n].user # u
  <1>1. \A n \in DOMAIN sessions : Without(u)[n] \in {sessions[n], NoRow}
    BY DEF Without
  <1>2. \A n \in DOMAIN sessions : sessions[n] \in Session \union {NoRow}
    BY DEF AccessTypeOK
  <1>3. Without(u) \in Seq(Session \union {NoRow}) /\ Len(Without(u)) = Len(sessions)
    BY <1>1, <1>2, Replaced DEF AccessTypeOK, Without
  <1> QED BY <1>1, <1>3 DEF KeptOrOver, Without

LEMMA RevokedRows ==
    ASSUME AccessTypeOK, NEW S
    PROVE  KeptOrOver(Revoked(S))
  <1>1. ASSUME NEW n \in DOMAIN sessions
        PROVE  \/ Revoked(S)[n] = sessions[n]
               \/ sessions[n] # NoRow /\ Revoked(S)[n] = [sessions[n] EXCEPT !.revoked = TRUE]
    BY DEF Revoked
  <1>2. \A n \in DOMAIN sessions : Revoked(S)[n] \in Session \union {NoRow}
    <2> TAKE n \in DOMAIN sessions
    <2>1. sessions[n] \in Session \union {NoRow} BY DEF AccessTypeOK
    <2> QED BY <1>1, <2>1 DEF Session
  <1>3. Revoked(S) = [n \in DOMAIN sessions |-> Revoked(S)[n]] BY DEF Revoked
  <1>4. sessions \in Seq(Session \union {NoRow}) BY DEF AccessTypeOK
  <1>5. Revoked(S) \in Seq(Session \union {NoRow}) /\ Len(Revoked(S)) = Len(sessions)
    BY <1>2, <1>3, <1>4, Replaced
  <1> QED BY <1>1, <1>5 DEF KeptOrOver

(* The rows a login leaves, before it adds its own.                        *)
Cleared == [n \in DOMAIN sessions |-> IF Open(n) THEN sessions[n] ELSE NoRow]

LEMMA ClearedRows ==
    ASSUME AccessTypeOK
    PROVE  /\ KeptOrOver(Cleared)
           /\ \A n \in DOMAIN sessions : Open(n) => Cleared[n] = sessions[n]
  <1>1. \A n \in DOMAIN sessions : Cleared[n] \in {sessions[n], NoRow}
    BY DEF Cleared
  <1>2. \A n \in DOMAIN sessions : sessions[n] \in Session \union {NoRow}
    BY DEF AccessTypeOK
  <1>3. Cleared \in Seq(Session \union {NoRow}) /\ Len(Cleared) = Len(sessions)
    BY <1>1, <1>2, Replaced DEF AccessTypeOK, Cleared
  <1> QED BY <1>1, <1>3 DEF KeptOrOver, Cleared

LEMMA PurgedRows ==
    ASSUME AccessTypeOK
    PROVE  /\ AdminPurged \in Seq(AdminSession \union {NoRow})
           /\ Len(AdminPurged) = Len(adminSessions)
           /\ \A n \in DOMAIN adminSessions :
                 AdminPurged[n] = IF AdminOpen(n) THEN adminSessions[n] ELSE NoRow
  <1>1. \A n \in DOMAIN adminSessions : AdminPurged[n] \in {adminSessions[n], NoRow}
    BY DEF AdminPurged
  <1>2. \A n \in DOMAIN adminSessions : adminSessions[n] \in AdminSession \union {NoRow}
    BY DEF AccessTypeOK
  <1> QED BY <1>1, <1>2, Replaced DEF AccessTypeOK, AdminPurged

-----------------------------------------------------------------------------
(* The rows a step changes.                                                *)
NewSession(u) ==
    [user |-> u, password |-> users[u].password, expires |-> clock + Ttl, revoked |-> FALSE]

NewKey(u, n) == [user |-> u, secret |-> n, revoked |-> FALSE]

LEMMA NewRows ==
    ASSUME AccessTypeOK, NEW u \in Users
    PROVE  /\ NewSession(u) \in Session /\ NewSession(u) # NoRow
           /\ NewKey(u, secrets + 1) \in Key
           /\ [expires |-> clock + Ttl] \in AdminSession
           /\ [expires |-> clock + Ttl] # NoRow
  <1>1. users[u].password \in Nat /\ clock + Ttl \in Nat /\ secrets + 1 \in Nat
    BY AccessAssumption DEF AccessTypeOK, LimiterTypeOK, User
  <1>2. NewSession(u) \in Session BY <1>1 DEF NewSession, Session
  <1>3. [expires |-> clock + Ttl] \in AdminSession BY <1>1 DEF AdminSession
  <1> QED BY <1>1, <1>2, <1>3, AccessAssumption DEF NewKey, Key

(* Secrets are numbered as they are handed out, and belong to one key;     *)
(* there is one for every key at least.                                    *)
SecretsOK ==
    /\ Len(keys) <= secrets
    /\ \A k \in DOMAIN keys : keys[k].secret > 0 /\ keys[k].secret <= secrets
    /\ \A j, k \in DOMAIN keys : keys[j].secret = keys[k].secret => j = k

AccessInv == AccessTypeOK /\ SecretsOK /\ SessionsCurrent

-----------------------------------------------------------------------------
(* What a step does to the sessions and users, the administrator's         *)
(* sessions, the keys, and the requests.                                   *)
Opens(u) == users[u].active /\ sessions' = Append(Cleared, NewSession(u)) /\ UNCHANGED users

Closes == KeptOrOver(sessions') /\ UNCHANGED users

ChangesUser(u, v) ==
    /\ v \in User
    /\ users' = [users EXCEPT ![u] = v]
    /\ \/ v.password = users[u].password /\ v.active /\ UNCHANGED sessions
       \/ sessions' = Without(u)

SessionPart ==
    \/ UNCHANGED <<users, sessions>>
    \/ Closes
    \/ \E u \in Users : Opens(u)
    \/ \E u \in Users, v \in User : ChangesUser(u, v)

AdminPart ==
    \/ UNCHANGED adminSessions
    \/ adminSessions' = AdminPurged
    \/ adminSessions' = Append(AdminPurged, [expires |-> clock + Ttl])
    \/ \E n : adminSessions' = [adminSessions EXCEPT ![n] = NoRow]

KeyPart ==
    \/ UNCHANGED <<keys, secrets>>
    \/ \E u \in Users : keys' = Append(keys, NewKey(u, secrets + 1)) /\ secrets' = secrets + 1
    \/ \E k \in DOMAIN keys :
          keys' = [keys EXCEPT ![k].secret = secrets + 1] /\ secrets' = secrets + 1
    \/ \E k \in DOMAIN keys :
          keys' = [keys EXCEPT ![k].revoked = TRUE] /\ UNCHANGED secrets

RequestsTyped ==
    /\ request \in [Requests -> Request \union {NoRequest}]
    /\ \A r \in Requests : request[r] # NoRequest /\ request[r].by = "user" =>
          request[r].who \in Users

LEMMA RequestLet ==
    ASSUME RequestsTyped, NEW r \in Requests, NEW q \in Request \union {NoRequest},
           q # NoRequest /\ q.by = "user" => q.who \in Users,
           request' = [request EXCEPT ![r] = q]
    PROVE  RequestsTyped'
  BY DEF RequestsTyped

LEMMA DoParts ==
    ASSUME AccessTypeOK, AccessNext
    PROVE  SessionPart /\ AdminPart /\ KeyPart /\ RequestsTyped'
  <1>0. RequestsTyped BY DEF AccessTypeOK, RequestsTyped
  <1>1. UNCHANGED request => RequestsTyped' BY <1>0 DEF RequestsTyped
  <1>2. ASSUME NEW r \in Requests, request' = [request EXCEPT ![r] = NoRequest]
        PROVE  RequestsTyped'
    BY <1>0, <1>2, RequestLet
  <1>3. ASSUME NEW u \in Users, Login(u)
        PROVE  SessionPart /\ AdminPart /\ KeyPart /\ RequestsTyped'
    BY <1>1, <1>3 DEF Login, SessionPart, AdminPart, KeyPart, Opens, Cleared, NewSession
  <1>4. ASSUME NEW u \in Users, NEW r \in Requests, Logout(r, u) \/ RevokeAll(r, u)
        PROVE  SessionPart /\ AdminPart /\ KeyPart /\ RequestsTyped'
    BY <1>2, <1>4, RevokedRows DEF Logout, RevokeAll, Handles, SessionPart, AdminPart, KeyPart, Closes
  <1>5. ASSUME NEW u \in Users, NEW r \in Requests, ChangePassword(r, u)
        PROVE  SessionPart /\ AdminPart /\ KeyPart /\ RequestsTyped'
    <2> DEFINE v == [users[u] EXCEPT !.password = @ + 1]
    <2>1. v \in User BY DEF AccessTypeOK, User
    <2>2. users' = [users EXCEPT ![u] = v] /\ sessions' = Without(u)
      BY <1>5 DEF ChangePassword
    <2> HIDE DEF v
    <2>3. SessionPart BY <2>1, <2>2 DEF SessionPart, ChangesUser
    <2> QED BY <1>2, <1>5, <2>3 DEF ChangePassword, Handles, AdminPart, KeyPart
  <1>6. ASSUME NEW u \in Users, NEW r \in Requests, CreateApiKey(r, u)
        PROVE  SessionPart /\ AdminPart /\ KeyPart /\ RequestsTyped'
    BY <1>2, <1>6 DEF CreateApiKey, Handles, SessionPart, AdminPart, KeyPart, NewKey
  <1>7. ASSUME NEW u \in Users, NEW r \in Requests, NEW k \in DOMAIN keys,
               RegenerateApiKey(r, u, k) \/ RevokeApiKey(r, u, k)
        PROVE  SessionPart /\ AdminPart /\ KeyPart /\ RequestsTyped'
    BY <1>2, <1>7 DEF RegenerateApiKey, RevokeApiKey, Handles, SessionPart, AdminPart, KeyPart
  <1>8. ASSUME NEW r \in Requests, NothingDone(r)
        PROVE  SessionPart /\ AdminPart /\ KeyPart /\ RequestsTyped'
    BY <1>2, <1>8 DEF NothingDone, SessionPart, AdminPart, KeyPart
  <1>9. ASSUME NEW r \in Requests, NEW n \in DOMAIN sessions, Authenticate(r, n)
        PROVE  SessionPart /\ AdminPart /\ KeyPart /\ RequestsTyped'
    <2> DEFINE q == [by |-> "user", who |-> sessions[n].user, token |-> n]
    <2>1. sessions[n] \in Session BY <1>9 DEF Authenticate, Open, AccessTypeOK
    <2>2. sessions[n].user \in Users /\ n \in Nat BY <2>1 DEF Session, AccessTypeOK
    <2>3. q \in Request /\ q.who \in Users BY <2>2 DEF Request
    <2>4. request' = [request EXCEPT ![r] = q] BY <1>9 DEF Authenticate, LetIn
    <2> HIDE DEF q
    <2>5. RequestsTyped' BY <1>0, <2>3, <2>4, RequestLet
    <2> QED BY <1>9, <2>5 DEF Authenticate, SessionPart, AdminPart, KeyPart
  <1>10. ASSUME NEW k \in Names, AdminLoginRefused(k)
         PROVE  SessionPart /\ AdminPart /\ KeyPart /\ RequestsTyped'
    BY <1>1, <1>10 DEF AdminLoginRefused, SessionPart, AdminPart, KeyPart
  <1>11. ASSUME NEW r \in Requests, NEW k \in Names, AdminLoginPasses(r, k)
         PROVE  SessionPart /\ AdminPart /\ KeyPart /\ RequestsTyped'
    <2> DEFINE q == [by |-> "limiter", who |-> Administrator, token |-> 0]
    <2>1. q \in Request /\ q.by # "user" BY DEF Request
    <2>2. request' = [request EXCEPT ![r] = q] BY <1>11 DEF AdminLoginPasses
    <2> HIDE DEF q
    <2>3. RequestsTyped' BY <1>0, <2>1, <2>2, RequestLet
    <2> QED BY <1>11, <2>3 DEF AdminLoginPasses, SessionPart, AdminPart, KeyPart
  <1>12. ASSUME NEW r \in Requests, AdminLogin(r) \/ AdminLogout(r)
         PROVE  SessionPart /\ AdminPart /\ KeyPart /\ RequestsTyped'
    BY <1>2, <1>12 DEF AdminLogin, AdminLogout, HandlesAdmin, SessionPart, AdminPart, KeyPart
  <1>13. ASSUME NEW r \in Requests, NEW n \in DOMAIN adminSessions, AdminAuthenticate(r, n)
         PROVE  SessionPart /\ AdminPart /\ KeyPart /\ RequestsTyped'
    <2> DEFINE q == [by |-> "admin", who |-> Administrator, token |-> n]
    <2>1. n \in Nat BY DEF AccessTypeOK
    <2>2. q \in Request /\ q.by # "user" BY <2>1 DEF Request
    <2>3. request' = [request EXCEPT ![r] = q] BY <1>13 DEF AdminAuthenticate, LetIn
    <2> HIDE DEF q
    <2>4. RequestsTyped' BY <1>0, <2>2, <2>3, RequestLet
    <2> QED BY <1>13, <2>4 DEF AdminAuthenticate, SessionPart, AdminPart, KeyPart
  <1>14. ASSUME NEW r \in Requests, NEW u \in Users, NEW enabled \in BOOLEAN,
                SetUserEnabled(r, u, enabled)
         PROVE  SessionPart /\ AdminPart /\ KeyPart /\ RequestsTyped'
    <2> DEFINE v == [users[u] EXCEPT !.active = enabled]
    <2>1. v \in User /\ v.password = users[u].password /\ v.active = enabled
      BY DEF AccessTypeOK, User
    <2>2. users' = [users EXCEPT ![u] = v]
          /\ sessions' = IF enabled THEN sessions ELSE Without(u)
      BY <1>14 DEF SetUserEnabled
    <2> HIDE DEF v
    <2>3. ChangesUser(u, v) BY <2>1, <2>2 DEF ChangesUser
    <2>4. SessionPart BY <2>1, <2>3 DEF SessionPart
    <2> QED BY <1>2, <1>14, <2>4 DEF SetUserEnabled, HandlesAdmin, AdminPart, KeyPart
  <1>15. CASE Cleanup BY <1>1, <1>15 DEF Cleanup, SessionPart, AdminPart, KeyPart
  <1>16. CASE TimePasses BY <1>1, <1>16 DEF TimePasses, SessionPart, AdminPart, KeyPart
  <1>17. ASSUME NEW u \in Users, UserNext(u)
         PROVE  SessionPart /\ AdminPart /\ KeyPart /\ RequestsTyped'
    BY <1>3, <1>4, <1>5, <1>6, <1>7, <1>17 DEF UserNext
  <1>18. CASE AdminNext BY <1>10, <1>11, <1>12, <1>13, <1>14, <1>18 DEF AdminNext
  <1> QED BY <1>8, <1>9, <1>15, <1>16, <1>17, <1>18 DEF AccessNext

-----------------------------------------------------------------------------
LEMMA SessionsKept ==
    ASSUME AccessTypeOK, SessionsCurrent, SessionPart, clock' \in {clock, clock + 1}
    PROVE  /\ users' \in [Users -> User]
           /\ sessions' \in Seq(Session \union {NoRow})
           /\ SessionsCurrent'
  <1>1. clock \in Nat /\ clock' \in Nat /\ clock' >= clock /\ Ttl \in Nat
    BY AccessAssumption DEF AccessTypeOK, LimiterTypeOK
  <1>2. /\ sessions \in Seq(Session \union {NoRow}) /\ users \in [Users -> User]
        /\ DOMAIN sessions = 1 .. Len(sessions) /\ Len(sessions) \in Nat
        /\ \A n \in DOMAIN sessions : sessions[n] \in Session \union {NoRow}
    BY DEF AccessTypeOK
  <1>3. ASSUME NEW f, KeptOrOver(f)
        PROVE  /\ DOMAIN f = DOMAIN sessions /\ Len(f) = Len(sessions)
               /\ \A n \in DOMAIN sessions : f[n] # NoRow =>
                     /\ sessions[n] # NoRow
                     /\ f[n].user = sessions[n].user /\ f[n].password = sessions[n].password
                     /\ f[n].expires = sessions[n].expires
                     /\ sessions[n].revoked => f[n].revoked
    <2>1. DOMAIN f = DOMAIN sessions /\ Len(f) = Len(sessions) BY <1>2, <1>3 DEF KeptOrOver
    <2>2. ASSUME NEW n \in DOMAIN sessions, f[n] # NoRow
          PROVE  /\ sessions[n] # NoRow
                 /\ f[n].user = sessions[n].user /\ f[n].password = sessions[n].password
                 /\ f[n].expires = sessions[n].expires
                 /\ sessions[n].revoked => f[n].revoked
      BY <1>2, <1>3, <2>2 DEF KeptOrOver, Session
    <2> QED BY <2>1, <2>2
  <1>4. CASE UNCHANGED <<users, sessions>>
    <2>1. \A n \in DOMAIN sessions : sessions[n] # NoRow => sessions[n].expires \in Nat
      BY <1>2 DEF Session
    <2> QED BY <1>1, <1>2, <1>4, <2>1 DEF SessionsCurrent, Open
  <1>5. CASE Closes
    <2>1. /\ DOMAIN sessions' = DOMAIN sessions /\ sessions' \in Seq(Session \union {NoRow})
          /\ \A n \in DOMAIN sessions : sessions'[n] # NoRow =>
                     /\ sessions[n] # NoRow
                     /\ sessions'[n].user = sessions[n].user
                     /\ sessions'[n].password = sessions[n].password
                     /\ sessions'[n].expires = sessions[n].expires
                     /\ sessions[n].revoked => sessions'[n].revoked
      BY <1>3, <1>5, SMTT(30) DEF Closes, KeptOrOver
    <2>2. \A n \in DOMAIN sessions : sessions[n] # NoRow => sessions[n].expires \in Nat
      BY <1>2 DEF Session
    <2>3. \A n \in DOMAIN sessions : Open(n)' => Open(n) BY <1>1, <2>1, <2>2 DEF Open
    <2> QED BY <1>2, <1>5, <2>1, <2>3 DEF SessionsCurrent, Closes, Open
  <1>6. ASSUME NEW u \in Users, Opens(u)
        PROVE  /\ users' \in [Users -> User]
               /\ sessions' \in Seq(Session \union {NoRow})
               /\ SessionsCurrent'
    <2> DEFINE c == Cleared
               s == NewSession(u)
    <2>1. c \in Seq(Session \union {NoRow}) /\ Len(c) = Len(sessions)
      BY ClearedRows DEF KeptOrOver
    <2>2. s \in Session BY NewRows
    <2>3. s.user = u /\ s.password = users[u].password BY DEF NewSession
    <2> HIDE DEF c, s
    <2>4. sessions' = Append(c, s) BY <1>6 DEF Opens, c, s
    <2>5. /\ sessions' \in Seq(Session \union {NoRow})
          /\ DOMAIN sessions' = 1 .. Len(sessions) + 1
          /\ \A n \in DOMAIN sessions : sessions'[n] = c[n]
          /\ sessions'[Len(sessions) + 1] = s
      BY <1>2, <2>1, <2>2, <2>4
    <2>6. ASSUME NEW n \in DOMAIN sessions, Open(n)'
          PROVE  Open(n) /\ sessions'[n] = sessions[n]
      BY <2>5, <2>6 DEF c, Cleared, Open
    <2>7. \A n \in DOMAIN sessions' : n \in DOMAIN sessions \/ n = Len(sessions) + 1
      BY <1>2, <2>5
    <2>8. UNCHANGED users /\ users[u].active BY <1>6 DEF Opens
    <2> QED BY <1>2, <2>3, <2>5, <2>6, <2>7, <2>8 DEF SessionsCurrent
  <1>7. ASSUME NEW u \in Users, NEW v \in User, ChangesUser(u, v)
        PROVE  /\ users' \in [Users -> User]
               /\ sessions' \in Seq(Session \union {NoRow})
               /\ SessionsCurrent'
    <2>1. users' = [users EXCEPT ![u] = v] BY <1>7 DEF ChangesUser
    <2>2. \A n \in DOMAIN sessions : sessions[n] # NoRow =>
             sessions[n].expires \in Nat /\ sessions[n].user \in Users
      BY <1>2 DEF Session
    <2>3. CASE v.password = users[u].password /\ v.active /\ UNCHANGED sessions
      BY <1>1, <1>2, <2>1, <2>2, <2>3 DEF SessionsCurrent, Open
    <2>4. CASE sessions' = Without(u)
      <3>1. /\ DOMAIN sessions' = DOMAIN sessions /\ sessions' \in Seq(Session \union {NoRow})
            /\ \A n \in DOMAIN sessions : sessions'[n] # NoRow =>
                   sessions'[n] = sessions[n] /\ sessions[n].user # u
        BY <1>3, <2>4, WithoutRows DEF KeptOrOver
      <3>2. \A n \in DOMAIN sessions : Open(n)' => Open(n) /\ sessions[n].user # u
        BY <1>1, <2>2, <3>1 DEF Open
      <3> QED BY <1>2, <2>1, <2>2, <3>1, <3>2 DEF SessionsCurrent, Open
    <2> QED BY <1>2, <1>7, <2>1, <2>3, <2>4 DEF ChangesUser
  <1> QED BY <1>4, <1>5, <1>6, <1>7 DEF SessionPart

LEMMA AdminSessionsKept ==
    ASSUME AccessTypeOK, AdminPart
    PROVE  adminSessions' \in Seq(AdminSession \union {NoRow})
  <1>1. adminSessions \in Seq(AdminSession \union {NoRow}) BY DEF AccessTypeOK
  <1>2. clock + Ttl \in Nat BY AccessAssumption DEF AccessTypeOK, LimiterTypeOK
  <1>3. [expires |-> clock + Ttl] \in AdminSession BY <1>2 DEF AdminSession
  <1>4. AdminPurged \in Seq(AdminSession \union {NoRow}) BY PurgedRows
  <1>5. Append(AdminPurged, [expires |-> clock + Ttl]) \in Seq(AdminSession \union {NoRow})
    BY <1>3, <1>4
  <1>6. ASSUME NEW n, adminSessions' = [adminSessions EXCEPT ![n] = NoRow]
        PROVE  adminSessions' \in Seq(AdminSession \union {NoRow})
    <2>1. \A i \in DOMAIN adminSessions : adminSessions'[i] \in AdminSession \union {NoRow}
      BY <1>1, <1>6
    <2>2. adminSessions' = [i \in DOMAIN adminSessions |-> adminSessions'[i]] BY <1>6
    <2> QED BY <1>1, <2>1, <2>2, Replaced
  <1> QED BY <1>1, <1>4, <1>5, <1>6 DEF AdminPart

LEMMA KeysKept ==
    ASSUME AccessTypeOK, SecretsOK, KeyPart
    PROVE  keys' \in Seq(Key) /\ secrets' \in Nat /\ SecretsOK'
  <1>0. /\ keys \in Seq(Key) /\ secrets \in Nat /\ Len(keys) \in Nat
        /\ DOMAIN keys = 1 .. Len(keys)
        /\ \A k \in DOMAIN keys : keys[k] \in Key
    BY DEF AccessTypeOK
  <1>1. /\ keys \in Seq(Key) /\ secrets \in Nat /\ Len(keys) \in Nat
        /\ DOMAIN keys = 1 .. Len(keys)
        /\ \A k \in DOMAIN keys : keys[k] \in Key /\ keys[k].secret \in Nat
    BY <1>0 DEF Key
  <1>2. CASE UNCHANGED <<keys, secrets>> BY <1>1, <1>2 DEF SecretsOK
  <1>3. ASSUME NEW u \in Users, keys' = Append(keys, NewKey(u, secrets + 1)), secrets' = secrets + 1
        PROVE  keys' \in Seq(Key) /\ secrets' \in Nat /\ SecretsOK'
    <2> DEFINE n == NewKey(u, secrets + 1)
    <2>1. n \in Key /\ n.secret = secrets + 1 BY NewRows DEF NewKey
    <2> HIDE DEF n
    <2>2. keys' = Append(keys, n) BY <1>3 DEF n
    <2>3. /\ keys' \in Seq(Key) /\ DOMAIN keys' = 1 .. Len(keys) + 1
          /\ keys'[Len(keys) + 1] = n /\ \A k \in DOMAIN keys : keys'[k] = keys[k]
      BY <1>1, <2>1, <2>2
    <2>4. \A k \in DOMAIN keys' : k \in DOMAIN keys \/ k = Len(keys) + 1
      BY <1>1, <2>3
    <2>5. Len(keys') = Len(keys) + 1 BY <1>1, <2>1, <2>2
    <2> QED BY <1>1, <1>3, <2>1, <2>3, <2>4, <2>5 DEF SecretsOK
  <1>4. ASSUME NEW k \in DOMAIN keys,
               keys' = [keys EXCEPT ![k].secret = secrets + 1], secrets' = secrets + 1
        PROVE  keys' \in Seq(Key) /\ secrets' \in Nat /\ SecretsOK'
    <2> DEFINE n == [keys[k] EXCEPT !.secret = secrets + 1]
    <2>1. n \in Key /\ n.secret = secrets + 1 BY <1>1 DEF Key
    <2> HIDE DEF n
    <2>2. keys' = [keys EXCEPT ![k] = n] BY <1>4 DEF n
    <2>3. /\ keys' = [j \in DOMAIN keys |-> keys'[j]]
          /\ \A j \in DOMAIN keys : keys'[j] = IF j = k THEN n ELSE keys[j]
      BY <2>2
    <2>4. keys' \in Seq(Key) /\ DOMAIN keys' = DOMAIN keys /\ Len(keys') = Len(keys)
      BY <1>1, <2>1, <2>3, Replaced
    <2> QED BY <1>1, <1>4, <2>1, <2>3, <2>4 DEF SecretsOK
  <1>5. ASSUME NEW k \in DOMAIN keys,
               keys' = [keys EXCEPT ![k].revoked = TRUE], UNCHANGED secrets
        PROVE  keys' \in Seq(Key) /\ secrets' \in Nat /\ SecretsOK'
    <2> DEFINE n == [keys[k] EXCEPT !.revoked = TRUE]
    <2>1. n \in Key /\ n.secret = keys[k].secret BY <1>1 DEF Key
    <2> HIDE DEF n
    <2>2. keys' = [keys EXCEPT ![k] = n] BY <1>5 DEF n
    <2>3. /\ keys' = [j \in DOMAIN keys |-> keys'[j]]
          /\ \A j \in DOMAIN keys : keys'[j] = IF j = k THEN n ELSE keys[j]
      BY <2>2
    <2>4. keys' \in Seq(Key) /\ DOMAIN keys' = DOMAIN keys /\ Len(keys') = Len(keys)
      BY <1>1, <2>1, <2>3, Replaced
    <2> QED BY <1>1, <1>5, <2>1, <2>3, <2>4 DEF SecretsOK
  <1> QED BY <1>2, <1>3, <1>4, <1>5 DEF KeyPart

THEOREM AccessInvariant == AccessSpec => []AccessInv
  <1>1. AccessInit => AccessInv
    BY DEF AccessInit, LimiterInit, LimiterTypeOK, AccessInv, AccessTypeOK, SecretsOK,
       SessionsCurrent, User
  <1>2. AccessInv /\ LimiterInv' /\ [AccessNext]_accessVars => AccessInv'
    <2> SUFFICES ASSUME AccessInv, LimiterInv', [AccessNext]_accessVars PROVE AccessInv'
      OBVIOUS
    <2> USE DEF AccessInv
    <2>1. LimiterTypeOK' BY DEF LimiterInv
    <2>2. CASE AccessNext
      <3>1. SessionPart /\ AdminPart /\ KeyPart /\ RequestsTyped' BY <2>2, DoParts
      <3>2. clock' \in {clock, clock + 1}
        BY <2>2, AccessLimits DEF Passes, Refused
      <3>3. /\ users' \in [Users -> User] /\ sessions' \in Seq(Session \union {NoRow})
            /\ SessionsCurrent'
        BY <3>1, <3>2, SessionsKept
      <3>4. adminSessions' \in Seq(AdminSession \union {NoRow}) BY <3>1, AdminSessionsKept
      <3>5. keys' \in Seq(Key) /\ secrets' \in Nat /\ SecretsOK' BY <3>1, KeysKept
      <3> QED BY <2>1, <3>1, <3>3, <3>4, <3>5 DEF AccessTypeOK, RequestsTyped
    <2>3. CASE UNCHANGED accessVars
      BY <2>3 DEF accessVars, limiterVars, AccessTypeOK, LimiterTypeOK, SecretsOK, SessionsCurrent, Open
    <2> QED BY <2>2, <2>3
  <1> QED BY <1>1, <1>2, LimiterInvariant, PTL DEF AccessSpec

(* The values the variables of access take.                                *)
THEOREM AccessTyped == AccessSpec => []AccessTypeOK
  <1>1. AccessInv => AccessTypeOK BY DEF AccessInv
  <1> QED BY <1>1, AccessInvariant, PTL

(* A session that is not over is one of an enabled user's present password.*)
THEOREM AccessCurrent == AccessSpec => []SessionsCurrent
  <1>1. AccessInv => SessionsCurrent BY DEF AccessInv
  <1> QED BY <1>1, AccessInvariant, PTL

-----------------------------------------------------------------------------
(* The lives of the credentials of each kind.                              *)
SessionLife(n) ==
    IF n > Len(sessions) THEN "unissued" ELSE IF Open(n) THEN sessions[n].user ELSE "ended"

AdminLife(n) ==
    IF n > Len(adminSessions) THEN "unissued"
    ELSE IF AdminOpen(n) THEN Administrator ELSE "ended"

KeyLife(n) ==
    IF n > Len(keys) THEN "unissued" ELSE IF Working(n) THEN keys[n].user ELSE "ended"

SecretLife(n) ==
    IF n > secrets THEN "unissued"
    ELSE IF \E k \in DOMAIN keys : keys[k].secret = n /\ Working(k)
         THEN keys[CHOOSE k \in DOMAIN keys : keys[k].secret = n].user
         ELSE "ended"

Holder == Users \union {Administrator}
Admitted == {Administrator} \union {u \in Users : users[u].active}
LifeMap == [c \in Credential |-> Life(c)]

LEMMA Kinds ==
    /\ \A c \in Credential :
          \/ \E n \in 1 .. MaxTokens : c = <<"session", n>>
          \/ \E n \in 1 .. MaxAdminTokens : c = <<"admin", n>>
          \/ \E n \in 1 .. MaxSecrets : c = <<"key", n>>
          \/ \E n \in 1 .. MaxSecrets : c = <<"secret", n>>
    /\ \A n \in 1 .. MaxTokens : <<"session", n>> \in Credential /\ <<"session", n>> \in SessionCredentials
    /\ \A n \in 1 .. MaxAdminTokens : <<"admin", n>> \in Credential /\ <<"admin", n>> \in SessionCredentials
    /\ \A n \in 1 .. MaxSecrets : /\ <<"key", n>> \in KeyCredentials
                                  /\ <<"key", n>> \in Credential
                                  /\ <<"key", n>> \notin SessionCredentials
    /\ \A n \in 1 .. MaxSecrets : /\ <<"secret", n>> \in Promise!Secrets
                                  /\ <<"secret", n>> \in Credential
                                  /\ <<"secret", n>> \notin SessionCredentials
  BY DEF Credential, SessionCredentials, KeyCredentials, Promise!Secrets

LEMMA Lives ==
    ASSUME NEW n
    PROVE  /\ Life(<<"session", n>>) = SessionLife(n)
           /\ Life(<<"admin", n>>) = AdminLife(n)
           /\ Life(<<"key", n>>) = KeyLife(n)
           /\ Life(<<"secret", n>>) = SecretLife(n)
  BY DEF Life, SessionLife, AdminLife, KeyLife, SecretLife

LEMMA LivesNext ==
    ASSUME NEW n
    PROVE  /\ Life(<<"session", n>>)' = SessionLife(n)'
           /\ Life(<<"admin", n>>)' = AdminLife(n)'
           /\ Life(<<"key", n>>)' = KeyLife(n)'
           /\ Life(<<"secret", n>>)' = SecretLife(n)'
  BY DEF Life, SessionLife, AdminLife, KeyLife, SecretLife

(* The kinds of credentials stay as they are.                              *)
SessionsSame == \A n \in 1 .. MaxTokens : SessionLife(n)' = SessionLife(n)
AdminsSame == \A n \in 1 .. MaxAdminTokens : AdminLife(n)' = AdminLife(n)
KeysSame == \A n \in 1 .. MaxSecrets : KeyLife(n)' = KeyLife(n)
SecretsSame == \A n \in 1 .. MaxSecrets : SecretLife(n)' = SecretLife(n)

(* Or some of them end.                                                    *)
SessionsEnd == \A n \in 1 .. MaxTokens : SessionLife(n)' = SessionLife(n) \/ (SessionLife(n) \in Holder /\ SessionLife(n)' = "ended")
AdminsEnd == \A n \in 1 .. MaxAdminTokens : AdminLife(n)' = AdminLife(n) \/ (AdminLife(n) \in Holder /\ AdminLife(n)' = "ended")
KeysEnd == \A n \in 1 .. MaxSecrets : KeyLife(n)' = KeyLife(n) \/ (KeyLife(n) \in Holder /\ KeyLife(n)' = "ended")
SecretsEnd == \A n \in 1 .. MaxSecrets : SecretLife(n)' = SecretLife(n) \/ (SecretLife(n) \in Holder /\ SecretLife(n)' = "ended")

LEMMA SamesEnd ==
    /\ SessionsSame => SessionsEnd
    /\ AdminsSame => AdminsEnd
    /\ KeysSame => KeysEnd
    /\ SecretsSame => SecretsEnd
  BY DEF SessionsSame, AdminsSame, KeysSame, SecretsSame, SessionsEnd, AdminsEnd, KeysEnd, SecretsEnd

LEMMA SomeEnd ==
    ASSUME SessionsEnd, AdminsEnd, KeysEnd, SecretsEnd, Admitted' = Admitted
    PROVE  Promise!EndSome
  <1>1. ASSUME NEW c \in Credential PROVE Life(c)' = Life(c) \/ (Life(c) \in Holder /\ Life(c)' = "ended")
    <2>1. CASE \E n \in 1 .. MaxTokens : c = <<"session", n>>
      <3>1. PICK n \in 1 .. MaxTokens : c = <<"session", n>> BY <2>1
      <3>2. Life(c) = SessionLife(n) /\ Life(c)' = SessionLife(n)' BY <3>1, Lives, LivesNext
      <3> QED BY <3>2 DEF SessionsEnd
    <2>2. CASE \E n \in 1 .. MaxAdminTokens : c = <<"admin", n>>
      <3>1. PICK n \in 1 .. MaxAdminTokens : c = <<"admin", n>> BY <2>2
      <3>2. Life(c) = AdminLife(n) /\ Life(c)' = AdminLife(n)' BY <3>1, Lives, LivesNext
      <3> QED BY <3>2 DEF AdminsEnd
    <2>3. CASE \E n \in 1 .. MaxSecrets : c = <<"secret", n>>
      <3>1. PICK n \in 1 .. MaxSecrets : c = <<"secret", n>> BY <2>3
      <3>2. Life(c) = SecretLife(n) /\ Life(c)' = SecretLife(n)' BY <3>1, Lives, LivesNext
      <3> QED BY <3>2 DEF SecretsEnd
    <2>4. CASE \E n \in 1 .. MaxSecrets : c = <<"key", n>>
      <3>1. PICK n \in 1 .. MaxSecrets : c = <<"key", n>> BY <2>4
      <3>2. Life(c) = KeyLife(n) /\ Life(c)' = KeyLife(n)' BY <3>1, Lives, LivesNext
      <3> QED BY <3>2 DEF KeysEnd
    <2> QED BY <2>1, <2>2, <2>3, <2>4, Kinds
  <1> QED BY <1>1 DEF Promise!EndSome, LifeMap, Holder, Admitted

LEMMA OneGranted ==
    ASSUME NEW c \in SessionCredentials, Life(c) = "unissued", Life(c)' \in Admitted,
           \A d \in Credential : d # c => Life(d)' = Life(d), Admitted' = Admitted
    PROVE  Promise!Grant(c)
  <1>1. c \in Credential BY DEF Credential
  <1>2. LifeMap' = [LifeMap EXCEPT ![c] = LifeMap'[c]] BY <1>1 DEF LifeMap
  <1> QED BY <1>1, <1>2 DEF Promise!Grant, LifeMap, Admitted

-----------------------------------------------------------------------------
LEMMA SessionsUntouched ==
    ASSUME UNCHANGED <<sessions, clock>> PROVE SessionsSame
  BY DEF SessionsSame, SessionLife, Open

LEMMA AdminsUntouched ==
    ASSUME UNCHANGED <<adminSessions, clock>> PROVE AdminsSame
  BY DEF AdminsSame, AdminLife, AdminOpen

LEMMA SecretsUntouched ==
    ASSUME UNCHANGED <<keys, secrets>> PROVE KeysSame /\ SecretsSame
  BY DEF KeysSame, KeyLife, SecretsSame, SecretLife, Working

LEMMA SessionsDone ==
    ASSUME AccessTypeOK, \/ KeptOrOver(sessions') /\ UNCHANGED clock
                         \/ UNCHANGED sessions /\ clock' \in Nat /\ clock' >= clock
    PROVE  SessionsEnd
  <1>1. /\ sessions \in Seq(Session \union {NoRow}) /\ Len(sessions) \in Nat
        /\ DOMAIN sessions = 1 .. Len(sessions) /\ clock \in Nat
        /\ \A n \in DOMAIN sessions : sessions[n] \in Session \union {NoRow}
    BY DEF AccessTypeOK, LimiterTypeOK
  <1>2. \A n \in DOMAIN sessions : sessions[n] # NoRow =>
           sessions[n].user \in Users /\ sessions[n].expires \in Nat
    BY <1>1 DEF Session
  <1>3. Len(sessions') = Len(sessions) BY DEF KeptOrOver
  <1>4. ASSUME NEW n \in DOMAIN sessions
        PROVE  Open(n)' => Open(n) /\ sessions'[n].user = sessions[n].user
    <2>1. CASE UNCHANGED sessions /\ clock' \in Nat /\ clock' >= clock
      BY <1>1, <1>2, <2>1 DEF Open
    <2>2. CASE KeptOrOver(sessions') /\ UNCHANGED clock
      <3>1. CASE sessions'[n] \in {sessions[n], NoRow} BY <2>2, <3>1 DEF Open
      <3>2. CASE sessions[n] # NoRow /\ sessions'[n] = [sessions[n] EXCEPT !.revoked = TRUE]
        <4>1. sessions'[n].revoked BY <1>1, <3>2 DEF Session
        <4> QED BY <4>1 DEF Open
      <3> QED BY <2>2, <3>1, <3>2 DEF KeptOrOver
    <2> QED BY <2>1, <2>2
  <1>5. ASSUME NEW n \in 1 .. MaxTokens PROVE SessionLife(n)' = SessionLife(n) \/ (SessionLife(n) \in Holder /\ SessionLife(n)' = "ended")
    <2>1. CASE n > Len(sessions) BY <1>3, <2>1 DEF SessionLife
    <2>2. CASE ~(n > Len(sessions))
      <3>1. n \in DOMAIN sessions BY <1>1, <2>2
      <3>2. Open(n) => sessions[n].user \in Users BY <1>2, <3>1 DEF Open
      <3> QED BY <1>3, <1>4, <2>2, <3>1, <3>2 DEF SessionLife, Holder
    <2> QED BY <2>1, <2>2
  <1> QED BY <1>5 DEF SessionsEnd

LEMMA AdminsDone ==
    ASSUME AccessTypeOK,
           \/ adminSessions' = AdminPurged /\ UNCHANGED clock
           \/ UNCHANGED adminSessions /\ clock' \in Nat /\ clock' >= clock
           \/ (\E m : adminSessions' = [adminSessions EXCEPT ![m] = NoRow]) /\ UNCHANGED clock
    PROVE  AdminsEnd
  <1>1. /\ adminSessions \in Seq(AdminSession \union {NoRow}) /\ Len(adminSessions) \in Nat
        /\ DOMAIN adminSessions = 1 .. Len(adminSessions) /\ clock \in Nat
        /\ \A n \in DOMAIN adminSessions : adminSessions[n] \in AdminSession \union {NoRow}
    BY DEF AccessTypeOK, LimiterTypeOK
  <1>2. \A n \in DOMAIN adminSessions : adminSessions[n] # NoRow => adminSessions[n].expires \in Nat
    BY <1>1 DEF AdminSession
  <1>3. Len(adminSessions') = Len(adminSessions)
        /\ \A n \in DOMAIN adminSessions : AdminOpen(n)' => AdminOpen(n)
    <2>1. CASE adminSessions' = AdminPurged /\ UNCHANGED clock
      BY <1>1, <2>1, PurgedRows DEF AdminOpen
    <2>2. CASE UNCHANGED adminSessions /\ clock' \in Nat /\ clock' >= clock
      BY <1>1, <1>2, <2>2 DEF AdminOpen
    <2>3. ASSUME NEW m, adminSessions' = [adminSessions EXCEPT ![m] = NoRow], UNCHANGED clock
          PROVE  Len(adminSessions') = Len(adminSessions)
                 /\ \A n \in DOMAIN adminSessions : AdminOpen(n)' => AdminOpen(n)
      <3>1. DOMAIN adminSessions' = 1 .. Len(adminSessions) BY <1>1, <2>3
      <3>2. adminSessions' = [n \in DOMAIN adminSessions |-> adminSessions'[n]]
            /\ \A n \in DOMAIN adminSessions : adminSessions'[n] \in {adminSessions[n], NoRow}
        BY <2>3
      <3>3. Len(adminSessions') = Len(adminSessions) BY <1>1, <3>2, Replaced
      <3> QED BY <2>3, <3>2, <3>3 DEF AdminOpen
    <2> QED BY <2>1, <2>2, <2>3
  <1>4. ASSUME NEW n \in 1 .. MaxAdminTokens PROVE AdminLife(n)' = AdminLife(n) \/ (AdminLife(n) \in Holder /\ AdminLife(n)' = "ended")
    <2>1. n > Len(adminSessions) \/ n \in DOMAIN adminSessions BY <1>1
    <2> QED BY <1>3, <2>1 DEF AdminLife, Holder
  <1> QED BY <1>4 DEF AdminsEnd

-----------------------------------------------------------------------------
(* The life of a secret that a key holds.                                  *)
LEMMA SecretOf ==
    ASSUME AccessTypeOK, SecretsOK, NEW k \in DOMAIN keys
    PROVE  SecretLife(keys[k].secret) = IF Working(k) THEN keys[k].user ELSE "ended"
  <1>1. (CHOOSE j \in DOMAIN keys : keys[j].secret = keys[k].secret) = k
    BY DEF SecretsOK
  <1>2. \A j \in DOMAIN keys : keys[j].secret = keys[k].secret <=> j = k BY DEF SecretsOK
  <1>3. ~(keys[k].secret > secrets)
    <2>1. keys[k] \in Key BY DEF AccessTypeOK
    <2>2. keys[k].secret \in Nat /\ secrets \in Nat BY <2>1 DEF Key, AccessTypeOK
    <2> QED BY <2>2 DEF SecretsOK
  <1> QED BY <1>1, <1>2, <1>3 DEF SecretLife

LEMMA SecretOfNone ==
    ASSUME NEW n, ~\E k \in DOMAIN keys : keys[k].secret = n
    PROVE  SecretLife(n) = IF n > secrets THEN "unissued" ELSE "ended"
  BY DEF SecretLife

LEMMA SecretOfNext ==
    ASSUME AccessTypeOK', SecretsOK', NEW k \in DOMAIN keys', NEW n, n = keys'[k].secret
    PROVE  SecretLife(n)' = IF ~keys'[k].revoked THEN keys'[k].user ELSE "ended"
  <1>1. (CHOOSE j \in DOMAIN keys' : keys'[j].secret = n) = k
    BY DEF SecretsOK
  <1>2. \A j \in DOMAIN keys' : keys'[j].secret = n <=> j = k BY DEF SecretsOK
  <1>3. ~(n > secrets')
    <2>1. keys'[k] \in Key BY DEF AccessTypeOK
    <2>2. keys'[k].secret \in Nat /\ secrets' \in Nat BY <2>1 DEF Key, AccessTypeOK
    <2> QED BY <2>2 DEF SecretsOK
  <1> QED BY <1>1, <1>2, <1>3 DEF SecretLife, Working

LEMMA SecretOfNoneNext ==
    ASSUME NEW n, ~\E k \in DOMAIN keys' : keys'[k].secret = n
    PROVE  SecretLife(n)' = IF n > secrets' THEN "unissued" ELSE "ended"
  BY DEF SecretLife

LEMMA CreatedSecret ==
    ASSUME AccessInv, AccessInv', NEW r \in Requests, NEW u \in Users, CreateApiKey(r, u),
           NEW s, s = secrets + 1, NEW l, l = Len(keys) + 1
    PROVE  /\ l \in 1 .. MaxSecrets /\ s \in 1 .. MaxSecrets
           /\ Promise!GrantKey(<<"key", l>>, <<"secret", s>>)
  <1>1. /\ keys \in Seq(Key) /\ secrets \in Nat /\ Len(keys) \in Nat
        /\ DOMAIN keys = 1 .. Len(keys) /\ MaxSecrets \in Nat
    BY AccessAssumption DEF AccessInv, AccessTypeOK
  <1>2. /\ keys' = Append(keys, NewKey(u, s)) /\ secrets' = s /\ secrets < MaxSecrets
        /\ users[u].active /\ UNCHANGED <<clock, users, sessions, adminSessions>>
    BY DEF CreateApiKey, NewKey
  <1>3. NewKey(u, s) \in Key BY NewRows DEF AccessInv
  <1>4. /\ DOMAIN keys' = 1 .. Len(keys) + 1 /\ keys'[Len(keys) + 1] = NewKey(u, s)
        /\ \A k \in DOMAIN keys : k \in DOMAIN keys' /\ keys'[k] = keys[k]
    BY <1>1, <1>2, <1>3
  <1>5. s \in 1 .. MaxSecrets BY <1>1, <1>2
  <1>6. SecretLife(s) = "unissued"
    <2>1. ~\E k \in DOMAIN keys : keys[k].secret = s
      <3>1. \A k \in DOMAIN keys : keys[k] \in Key BY <1>1
      <3>2. \A k \in DOMAIN keys : keys[k].secret \in Nat BY <3>1 DEF Key
      <3> QED BY <1>1, <3>2 DEF AccessInv, SecretsOK
    <2> QED BY <1>1, <2>1, SecretOfNone
  <1>7. SecretLife(s)' = u
    <2>1. Len(keys) + 1 \in DOMAIN keys' BY <1>1, <1>4
    <2>2. keys'[Len(keys) + 1].secret = s /\ ~keys'[Len(keys) + 1].revoked
          /\ keys'[Len(keys) + 1].user = u
      BY <1>4 DEF NewKey
    <2> QED BY <2>1, <2>2, SecretOfNext DEF AccessInv
  <1>8. ASSUME NEW n \in 1 .. MaxSecrets, n # s PROVE SecretLife(n)' = SecretLife(n)
    <2>1. CASE \E k \in DOMAIN keys : keys[k].secret = n
      <3>1. PICK k \in DOMAIN keys : keys[k].secret = n BY <2>1
      <3>2. SecretLife(n) = IF ~keys[k].revoked THEN keys[k].user ELSE "ended"
        BY <3>1, SecretOf DEF AccessInv, Working
      <3>3. SecretLife(n)' = IF ~keys'[k].revoked THEN keys'[k].user ELSE "ended"
        BY <1>4, <3>1, SecretOfNext DEF AccessInv
      <3> QED BY <1>4, <3>2, <3>3
    <2>2. CASE ~\E k \in DOMAIN keys : keys[k].secret = n
      <3>1. \A k \in DOMAIN keys' : k \in DOMAIN keys \/ k = Len(keys) + 1 BY <1>1, <1>4
      <3>2. ~\E k \in DOMAIN keys' : keys'[k].secret = n
        BY <1>4, <1>8, <2>2, <3>1 DEF NewKey
      <3>3. n > secrets' <=> n > secrets BY <1>1, <1>2, <1>8
      <3> QED BY <2>2, <3>2, <3>3, SecretOfNone, SecretOfNoneNext
    <2> QED BY <2>1, <2>2
  <1>9. SessionsSame /\ AdminsSame BY <1>2, SessionsUntouched, AdminsUntouched
  <1>10. l \in 1 .. MaxSecrets /\ Len(keys') = l
    <2>1. Len(keys) <= secrets BY DEF AccessInv, SecretsOK
    <2> QED BY <1>1, <1>2, <1>3, <2>1
  <1>11. KeyLife(l) = "unissued" /\ KeyLife(l)' = u
    BY <1>1, <1>4, <1>10 DEF KeyLife, Working, NewKey
  <1>12. ASSUME NEW n \in 1 .. MaxSecrets, n # l PROVE KeyLife(n)' = KeyLife(n)
    <2>1. CASE n > Len(keys) BY <1>1, <1>10, <1>12, <2>1 DEF KeyLife
    <2>2. CASE ~(n > Len(keys))
      <3>1. n \in DOMAIN keys /\ ~(n > Len(keys')) BY <1>1, <1>10, <2>2
      <3> QED BY <1>4, <2>2, <3>1 DEF KeyLife, Working
    <2> QED BY <2>1, <2>2
  <1>13. ASSUME NEW d \in Credential, d # <<"secret", s>>, d # <<"key", l>>
         PROVE  Life(d)' = Life(d)
    <2>1. CASE \E n \in 1 .. MaxTokens : d = <<"session", n>>
      BY <1>9, <2>1, Lives, LivesNext DEF SessionsSame
    <2>2. CASE \E n \in 1 .. MaxAdminTokens : d = <<"admin", n>>
      BY <1>9, <2>2, Lives, LivesNext DEF AdminsSame
    <2>3. CASE \E n \in 1 .. MaxSecrets : d = <<"secret", n>>
      <3>1. PICK n \in 1 .. MaxSecrets : d = <<"secret", n>> BY <2>3
      <3> QED BY <1>8, <1>13, <3>1, Lives, LivesNext
    <2>4. CASE \E n \in 1 .. MaxSecrets : d = <<"key", n>>
      <3>1. PICK n \in 1 .. MaxSecrets : d = <<"key", n>> BY <2>4
      <3> QED BY <1>13, <1>12, <3>1, Lives, LivesNext
    <2> QED BY <2>1, <2>2, <2>3, <2>4, Kinds
  <1> DEFINE c == <<"key", l>>
             e == <<"secret", s>>
  <1>14. c \in Credential /\ e \in Credential /\ c # e BY <1>5, <1>10, Kinds
  <1>15. /\ Life(c) = "unissued" /\ Life(c)' = u
         /\ Life(e) = "unissued" /\ Life(e)' = u
    BY <1>6, <1>7, <1>11, Lives, LivesNext
  <1>16. u \in Admitted /\ Admitted' = Admitted BY <1>2 DEF Admitted
  <1> HIDE DEF c, e
  <1>17. \A d \in Credential : d # e /\ d # c => Life(d)' = Life(d) BY <1>13 DEF c, e
  <1>18. LifeMap' = [LifeMap EXCEPT ![c] = LifeMap'[c], ![e] = LifeMap'[c]]
    BY <1>14, <1>15, <1>17 DEF LifeMap
  <1>19. Promise!GrantKey(c, e)
    BY <1>14, <1>15, <1>16, <1>18 DEF Promise!GrantKey, LifeMap, Admitted
  <1> QED BY <1>5, <1>10, <1>19 DEF c, e

(* What a step does to the secrets when keys stay where they are.          *)
LEMMA SecretFollows ==
    ASSUME AccessInv, AccessInv', DOMAIN keys' = DOMAIN keys, secrets' \in Nat, NEW n \in Nat,
           n > secrets' <=> n > secrets,
           NEW j \in DOMAIN keys, keys[j].secret # n, keys'[j].secret # n,
           \A k \in DOMAIN keys : k # j => keys'[k] = keys[k]
    PROVE  SecretLife(n)' = SecretLife(n)
  <1>1. CASE \E k \in DOMAIN keys : keys[k].secret = n
    <2>1. PICK k \in DOMAIN keys : keys[k].secret = n BY <1>1
    <2>2. SecretLife(n) = IF ~keys[k].revoked THEN keys[k].user ELSE "ended"
      BY <2>1, SecretOf DEF AccessInv, Working
    <2>3. SecretLife(n)' = IF ~keys'[k].revoked THEN keys'[k].user ELSE "ended"
      BY <2>1, SecretOfNext DEF AccessInv
    <2> QED BY <2>1, <2>2, <2>3
  <1>2. CASE ~\E k \in DOMAIN keys : keys[k].secret = n
    <2>1. ~\E k \in DOMAIN keys' : keys'[k].secret = n BY <1>2
    <2> QED BY <1>2, <2>1, SecretOfNone, SecretOfNoneNext
  <1> QED BY <1>1, <1>2

LEMMA KeysTyped ==
    ASSUME AccessInv
    PROVE  /\ keys \in Seq(Key) /\ secrets \in Nat /\ MaxSecrets \in Nat
           /\ \A k \in DOMAIN keys :
                 /\ keys[k] \in Key /\ keys[k].secret \in Nat /\ keys[k].user \in Users
                 /\ keys[k].secret > 0 /\ keys[k].secret <= secrets
  <1>1. \A k \in DOMAIN keys : keys[k] \in Key BY DEF AccessInv, AccessTypeOK
  <1> QED BY <1>1, AccessAssumption DEF AccessInv, AccessTypeOK, SecretsOK, Key

LEMMA RevokedSecret ==
    ASSUME AccessInv, AccessInv', NEW r \in Requests, NEW u \in Users, NEW j \in DOMAIN keys,
           RevokeApiKey(r, u, j)
    PROVE  KeysEnd /\ SecretsEnd
  <1>1. keys' = [keys EXCEPT ![j].revoked = TRUE] /\ UNCHANGED secrets BY DEF RevokeApiKey
  <1> DEFINE q == [keys[j] EXCEPT !.revoked = TRUE]
  <1>2. q.secret = keys[j].secret /\ q.revoked BY KeysTyped DEF Key
  <1> HIDE DEF q
  <1>3. keys' = [keys EXCEPT ![j] = q] BY <1>1 DEF q
  <1>4. /\ DOMAIN keys' = DOMAIN keys /\ keys'[j] = q
        /\ \A k \in DOMAIN keys : k # j => keys'[k] = keys[k]
    BY <1>3
  <1>5. ASSUME NEW n \in 1 .. MaxSecrets
        PROVE  SecretLife(n)' = SecretLife(n) \/ (SecretLife(n) \in Holder /\ SecretLife(n)' = "ended")
    <2>1. CASE n = keys[j].secret
      <3>1. SecretLife(n) = IF ~keys[j].revoked THEN keys[j].user ELSE "ended"
        BY <2>1, SecretOf DEF AccessInv, Working
      <3>2. j \in DOMAIN keys' /\ n = keys'[j].secret /\ keys'[j].revoked BY <1>2, <1>4, <2>1
      <3>3. SecretLife(n)' = "ended" BY <3>2, SecretOfNext DEF AccessInv
      <3> QED BY <3>1, <3>3, KeysTyped DEF Holder
    <2>2. CASE n # keys[j].secret
      <3>1. secrets' \in Nat /\ n \in Nat BY <1>1, KeysTyped
      <3>2. SecretLife(n)' = SecretLife(n) BY <1>1, <1>2, <1>4, <2>2, <3>1, SecretFollows
      <3> QED BY <3>2
    <2> QED BY <2>1, <2>2
  <1>6. ASSUME NEW n \in 1 .. MaxSecrets
        PROVE  KeyLife(n)' = KeyLife(n) \/ (KeyLife(n) \in Holder /\ KeyLife(n)' = "ended")
    <2>1. /\ Len(keys) \in Nat /\ DOMAIN keys = 1 .. Len(keys)
          /\ keys' \in Seq(Key) /\ Len(keys') = Len(keys)
      BY <1>4, KeysTyped DEF AccessInv, AccessTypeOK
    <2>2. CASE n > Len(keys) BY <2>1, <2>2 DEF KeyLife
    <2>3. CASE ~(n > Len(keys))
      <3>1. n \in DOMAIN keys BY <2>1, <2>3
      <3>2. CASE n = j
        BY <1>2, <1>4, <2>1, <2>3, <3>1, <3>2, KeysTyped DEF KeyLife, Working, Holder
      <3>3. CASE n # j BY <1>4, <2>1, <2>3, <3>1, <3>3 DEF KeyLife, Working
      <3> QED BY <3>2, <3>3
    <2> QED BY <2>2, <2>3
  <1> QED BY <1>5, <1>6 DEF KeysEnd, SecretsEnd

LEMMA RegeneratedSecret ==
    ASSUME AccessInv, AccessInv', NEW r \in Requests, NEW u \in Users, NEW j \in DOMAIN keys,
           RegenerateApiKey(r, u, j), NEW s, s = secrets + 1, NEW o, o = keys[j].secret
    PROVE  Promise!Exchange(<<"secret", o>>)
  <1>1. /\ keys' = [keys EXCEPT ![j].secret = s] /\ secrets' = s /\ secrets < MaxSecrets
        /\ ~keys[j].revoked /\ UNCHANGED <<clock, users, sessions, adminSessions>>
    BY DEF RegenerateApiKey
  <1> DEFINE q == [keys[j] EXCEPT !.secret = s]
  <1>2. q.secret = s /\ q.revoked = keys[j].revoked /\ q.user = keys[j].user
    BY KeysTyped DEF Key
  <1> HIDE DEF q
  <1>3. keys' = [keys EXCEPT ![j] = q] BY <1>1 DEF q
  <1>4. /\ DOMAIN keys' = DOMAIN keys /\ keys'[j] = q
        /\ \A k \in DOMAIN keys : k # j => keys'[k] = keys[k]
    BY <1>3
  <1>5. s \in 1 .. MaxSecrets /\ o \in 1 .. MaxSecrets /\ o # s /\ secrets' \in Nat
    BY <1>1, KeysTyped
  <1>6. SecretLife(s) = "unissued"
    <2>1. ~\E k \in DOMAIN keys : keys[k].secret = s BY KeysTyped
    <2> QED BY <2>1, KeysTyped, SecretOfNone
  <1>7. SecretLife(o) = keys[j].user BY <1>1, SecretOf DEF AccessInv, Working
  <1>8. SecretLife(s)' = keys[j].user
    <2>1. j \in DOMAIN keys' /\ s = keys'[j].secret /\ ~keys'[j].revoked
          /\ keys'[j].user = keys[j].user
      BY <1>1, <1>2, <1>4
    <2> QED BY <2>1, SecretOfNext DEF AccessInv
  <1>9. SecretLife(o)' = "ended"
    <2>1. ~\E k \in DOMAIN keys' : keys'[k].secret = o
      BY <1>2, <1>4, <1>5 DEF AccessInv, SecretsOK
    <2>2. ~(o > secrets') BY <1>1, KeysTyped
    <2> QED BY <2>1, <2>2, SecretOfNoneNext
  <1>10. ASSUME NEW n \in 1 .. MaxSecrets, n # s, n # o PROVE SecretLife(n)' = SecretLife(n)
    <2>1. n > secrets' <=> n > secrets BY <1>1, <1>10, KeysTyped
    <2> QED BY <1>2, <1>4, <1>5, <1>10, <2>1, SecretFollows
  <1>11. SessionsSame /\ AdminsSame BY <1>1, SessionsUntouched, AdminsUntouched
  <1>12. KeysSame
    <2>1. /\ Len(keys) \in Nat /\ DOMAIN keys = 1 .. Len(keys)
          /\ keys' \in Seq(Key) /\ Len(keys') = Len(keys)
      BY <1>4, KeysTyped DEF AccessInv, AccessTypeOK
    <2>2. \A k \in DOMAIN keys : keys'[k].user = keys[k].user /\ keys'[k].revoked = keys[k].revoked
      BY <1>2, <1>4
    <2>3. \A n \in 1 .. MaxSecrets : n > Len(keys) \/ n \in DOMAIN keys BY <2>1
    <2> QED BY <2>1, <2>2, <2>3 DEF KeysSame, KeyLife, Working
  <1>13. ASSUME NEW d \in Credential, d # <<"secret", s>>, d # <<"secret", o>>
         PROVE  Life(d)' = Life(d)
    <2>1. CASE \E n \in 1 .. MaxTokens : d = <<"session", n>>
      BY <1>11, <2>1, Lives, LivesNext DEF SessionsSame
    <2>2. CASE \E n \in 1 .. MaxAdminTokens : d = <<"admin", n>>
      BY <1>11, <2>2, Lives, LivesNext DEF AdminsSame
    <2>3. CASE \E n \in 1 .. MaxSecrets : d = <<"secret", n>>
      <3>1. PICK n \in 1 .. MaxSecrets : d = <<"secret", n>> BY <2>3
      <3> QED BY <1>10, <1>13, <3>1, Lives, LivesNext
    <2>4. CASE \E n \in 1 .. MaxSecrets : d = <<"key", n>>
      BY <1>12, <2>4, Lives, LivesNext DEF KeysSame
    <2> QED BY <2>1, <2>2, <2>3, <2>4, Kinds
  <1> DEFINE c == <<"secret", o>>
             e == <<"secret", s>>
  <1>14. c \in Credential /\ e \in Credential /\ e \in Promise!Secrets /\ c # e BY <1>5, Kinds
  <1>15. /\ Life(c) = keys[j].user /\ Life(c)' = "ended"
         /\ Life(e) = "unissued" /\ Life(e)' = keys[j].user
    BY <1>6, <1>7, <1>8, <1>9, Lives, LivesNext
  <1>16. keys[j].user \in Holder BY KeysTyped DEF Holder
  <1>17. Admitted' = Admitted BY <1>1 DEF Admitted
  <1> HIDE DEF c, e
  <1>18. \A d \in Credential : d # e /\ d # c => Life(d)' = Life(d) BY <1>13 DEF c, e
  <1>19. LifeMap' = [LifeMap EXCEPT ![e] = LifeMap[c], ![c] = "ended"]
    BY <1>14, <1>15, <1>18 DEF LifeMap
  <1>20. Promise!Exchange(c)
    BY <1>14, <1>15, <1>16, <1>17, <1>19 DEF Promise!Exchange, LifeMap, Admitted, Holder
  <1> QED BY <1>20 DEF c

-----------------------------------------------------------------------------
LEMMA LoginGrants ==
    ASSUME AccessInv, NEW u \in Users, Login(u), NEW s, s = Len(sessions) + 1
    PROVE  Promise!Grant(<<"session", s>>)
  <1>1. AccessTypeOK BY DEF AccessInv
  <1>2. /\ sessions' = Append(Cleared, NewSession(u)) /\ Len(sessions) < MaxTokens
        /\ users[u].active /\ UNCHANGED <<clock, users, adminSessions, keys, secrets>>
    BY DEF Login, Cleared, NewSession
  <1>3. /\ Cleared \in Seq(Session \union {NoRow}) /\ Len(Cleared) = Len(sessions)
        /\ \A n \in DOMAIN sessions : Cleared[n] = IF Open(n) THEN sessions[n] ELSE NoRow
    BY <1>1, ClearedRows DEF KeptOrOver, Cleared
  <1> DEFINE q == NewSession(u)
  <1>4. q \in Session /\ q # NoRow BY <1>1, NewRows
  <1>5. q.user = u /\ ~q.revoked /\ q.expires = clock + Ttl BY DEF NewSession
  <1>6. clock \in Nat /\ Ttl \in Nat /\ Ttl > 0 /\ MaxTokens \in Nat
    BY <1>1, AccessAssumption DEF AccessTypeOK, LimiterTypeOK
  <1>7. sessions \in Seq(Session \union {NoRow}) /\ Len(sessions) \in Nat
        /\ DOMAIN sessions = 1 .. Len(sessions)
    BY <1>1 DEF AccessTypeOK
  <1> HIDE DEF q
  <1>8. /\ Len(sessions') = s /\ sessions'[s] = q /\ s \in 1 .. MaxTokens
        /\ \A n \in DOMAIN sessions : sessions'[n] = Cleared[n]
    <2>1. sessions' = Append(Cleared, q) BY <1>2 DEF q
    <2> QED BY <1>2, <1>3, <1>4, <1>6, <1>7, <2>1
  <1>9. SessionLife(s) = "unissued" BY <1>6, <1>7 DEF SessionLife
  <1>10. SessionLife(s)' = u
    <2>1. Open(s)' BY <1>2, <1>4, <1>5, <1>6, <1>8 DEF Open
    <2> QED BY <1>5, <1>6, <1>8, <2>1 DEF SessionLife
  <1>11. ASSUME NEW n \in 1 .. MaxTokens, n # s PROVE SessionLife(n)' = SessionLife(n)
    <2>1. CASE n > Len(sessions) BY <1>7, <1>8, <1>11, <2>1 DEF SessionLife
    <2>2. CASE ~(n > Len(sessions))
      <3>1. n \in DOMAIN sessions /\ ~(n > Len(sessions')) BY <1>6, <1>7, <1>8, <2>2
      <3>2. Open(n)' = Open(n) BY <1>2, <1>3, <1>8, <3>1 DEF Open
      <3>3. Open(n) => sessions'[n].user = sessions[n].user BY <1>3, <1>8, <3>1
      <3> QED BY <2>2, <3>1, <3>2, <3>3 DEF SessionLife
    <2> QED BY <2>1, <2>2
  <1>12. AdminsSame /\ KeysSame /\ SecretsSame BY <1>2, AdminsUntouched, SecretsUntouched
  <1>13. ASSUME NEW d \in Credential, d # <<"session", s>> PROVE Life(d)' = Life(d)
    <2>1. CASE \E n \in 1 .. MaxTokens : d = <<"session", n>>
      <3>1. PICK n \in 1 .. MaxTokens : d = <<"session", n>> BY <2>1
      <3> QED BY <1>11, <1>13, <3>1, Lives, LivesNext
    <2>2. CASE \E n \in 1 .. MaxAdminTokens : d = <<"admin", n>>
      BY <1>12, <2>2, Lives, LivesNext DEF AdminsSame
    <2>3. CASE \E n \in 1 .. MaxSecrets : d = <<"secret", n>>
      BY <1>12, <2>3, Lives, LivesNext DEF SecretsSame
    <2>4. CASE \E n \in 1 .. MaxSecrets : d = <<"key", n>>
      BY <1>12, <2>4, Lives, LivesNext DEF KeysSame
    <2> QED BY <2>1, <2>2, <2>3, <2>4, Kinds
  <1>14. <<"session", s>> \in SessionCredentials BY <1>8, Kinds
  <1>15. Life(<<"session", s>>) = "unissued" /\ Life(<<"session", s>>)' = u
    BY <1>9, <1>10, Lives, LivesNext
  <1>16. u \in Admitted /\ Admitted' = Admitted BY <1>2 DEF Admitted
  <1> QED BY <1>13, <1>14, <1>15, <1>16, OneGranted

LEMMA AdminLoginGrants ==
    ASSUME AccessInv, NEW r \in Requests, AdminLogin(r), NEW s, s = Len(adminSessions) + 1
    PROVE  Promise!Grant(<<"admin", s>>)
  <1>1. AccessTypeOK BY DEF AccessInv
  <1> DEFINE q == [expires |-> clock + Ttl]
  <1>2. /\ adminSessions' = Append(AdminPurged, q) /\ Len(adminSessions) < MaxAdminTokens
        /\ UNCHANGED <<clock, users, sessions, keys, secrets>>
    BY DEF AdminLogin
  <1>3. /\ AdminPurged \in Seq(AdminSession \union {NoRow}) /\ Len(AdminPurged) = Len(adminSessions)
        /\ \A n \in DOMAIN adminSessions :
              AdminPurged[n] = IF AdminOpen(n) THEN adminSessions[n] ELSE NoRow
    BY <1>1, PurgedRows
  <1>4. clock \in Nat /\ Ttl \in Nat /\ Ttl > 0 /\ MaxAdminTokens \in Nat
    BY <1>1, AccessAssumption DEF AccessTypeOK, LimiterTypeOK
  <1>5. q \in AdminSession /\ q # NoRow /\ q.expires = clock + Ttl
    BY <1>4, AccessAssumption DEF AdminSession
  <1>6. adminSessions \in Seq(AdminSession \union {NoRow}) /\ Len(adminSessions) \in Nat
        /\ DOMAIN adminSessions = 1 .. Len(adminSessions)
    BY <1>1 DEF AccessTypeOK
  <1> HIDE DEF q
  <1>7. /\ Len(adminSessions') = s /\ adminSessions'[s] = q /\ s \in 1 .. MaxAdminTokens
        /\ \A n \in DOMAIN adminSessions : adminSessions'[n] = AdminPurged[n]
    BY <1>2, <1>3, <1>4, <1>5, <1>6
  <1>8. AdminLife(s) = "unissued" BY <1>6 DEF AdminLife
  <1>9. AdminLife(s)' = Administrator
    <2>1. AdminOpen(s)' BY <1>2, <1>4, <1>5, <1>7 DEF AdminOpen
    <2> QED BY <1>7, <2>1 DEF AdminLife
  <1>10. ASSUME NEW n \in 1 .. MaxAdminTokens, n # s PROVE AdminLife(n)' = AdminLife(n)
    <2>1. CASE n > Len(adminSessions) BY <1>6, <1>7, <1>10, <2>1 DEF AdminLife
    <2>2. CASE ~(n > Len(adminSessions))
      <3>1. n \in DOMAIN adminSessions /\ ~(n > Len(adminSessions')) BY <1>4, <1>6, <1>7, <2>2
      <3>2. AdminOpen(n)' = AdminOpen(n) BY <1>2, <1>3, <1>7, <3>1 DEF AdminOpen
      <3> QED BY <2>2, <3>1, <3>2 DEF AdminLife
    <2> QED BY <2>1, <2>2
  <1>11. SessionsSame /\ KeysSame /\ SecretsSame BY <1>2, SessionsUntouched, SecretsUntouched
  <1>12. ASSUME NEW d \in Credential, d # <<"admin", s>> PROVE Life(d)' = Life(d)
    <2>1. CASE \E n \in 1 .. MaxTokens : d = <<"session", n>>
      BY <1>11, <2>1, Lives, LivesNext DEF SessionsSame
    <2>2. CASE \E n \in 1 .. MaxAdminTokens : d = <<"admin", n>>
      <3>1. PICK n \in 1 .. MaxAdminTokens : d = <<"admin", n>> BY <2>2
      <3> QED BY <1>10, <1>12, <3>1, Lives, LivesNext
    <2>3. CASE \E n \in 1 .. MaxSecrets : d = <<"secret", n>>
      BY <1>11, <2>3, Lives, LivesNext DEF SecretsSame
    <2>4. CASE \E n \in 1 .. MaxSecrets : d = <<"key", n>>
      BY <1>11, <2>4, Lives, LivesNext DEF KeysSame
    <2> QED BY <2>1, <2>2, <2>3, <2>4, Kinds
  <1>13. <<"admin", s>> \in SessionCredentials BY <1>7, Kinds
  <1>14. Life(<<"admin", s>>) = "unissued" /\ Life(<<"admin", s>>)' = Administrator
    BY <1>8, <1>9, Lives, LivesNext
  <1>15. Administrator \in Admitted /\ Admitted' = Admitted BY <1>2 DEF Admitted
  <1> QED BY <1>12, <1>13, <1>14, <1>15, OneGranted

LEMMA EnabledAdmits ==
    ASSUME AccessInv, NEW r \in Requests, NEW u \in Users, NEW enabled \in BOOLEAN,
           SetUserEnabled(r, u, enabled)
    PROVE  Promise!Admit(u) \/ Promise!Expel(u)
  <1>1. AccessTypeOK BY DEF AccessInv
  <1>2. /\ users' = [users EXCEPT ![u].active = enabled]
        /\ sessions' = IF enabled THEN sessions ELSE Without(u)
        /\ UNCHANGED <<clock, adminSessions, keys, secrets>>
    BY DEF SetUserEnabled
  <1>3. \A v \in Users : users'[v].active = IF v = u THEN enabled ELSE users[v].active
    BY <1>1, <1>2 DEF AccessTypeOK, User
  <1>4. AdminsSame /\ KeysSame /\ SecretsSame BY <1>2, AdminsUntouched, SecretsUntouched
  <1>5. CASE enabled
    <2>1. SessionsSame BY <1>2, <1>5, SessionsUntouched
    <2>2. ASSUME NEW d \in Credential PROVE Life(d)' = Life(d)
      <3>1. CASE \E n \in 1 .. MaxTokens : d = <<"session", n>>
        BY <2>1, <3>1, Lives, LivesNext DEF SessionsSame
      <3>2. CASE \E n \in 1 .. MaxAdminTokens : d = <<"admin", n>>
        BY <1>4, <3>2, Lives, LivesNext DEF AdminsSame
      <3>3. CASE \E n \in 1 .. MaxSecrets : d = <<"secret", n>>
        BY <1>4, <3>3, Lives, LivesNext DEF SecretsSame
      <3>4. CASE \E n \in 1 .. MaxSecrets : d = <<"key", n>>
        BY <1>4, <3>4, Lives, LivesNext DEF KeysSame
      <3> QED BY <3>1, <3>2, <3>3, <3>4, Kinds
    <2>3. Admitted' = Admitted \union {u} BY <1>3, <1>5 DEF Admitted
    <2> QED BY <2>2, <2>3 DEF Promise!Admit, Admitted
  <1>6. CASE ~enabled
    <2>1. sessions' = Without(u) BY <1>2, <1>6
    <2>2. sessions \in Seq(Session \union {NoRow}) /\ Len(sessions) \in Nat
          /\ DOMAIN sessions = 1 .. Len(sessions)
      BY <1>1 DEF AccessTypeOK
    <2>3. /\ Len(sessions') = Len(sessions)
          /\ \A n \in DOMAIN sessions : sessions'[n] =
                IF sessions[n] # NoRow /\ sessions[n].user = u THEN NoRow ELSE sessions[n]
      BY <1>1, <2>1, WithoutRows DEF KeptOrOver, Without
    <2>4. ASSUME NEW n \in 1 .. MaxTokens
          PROVE  SessionLife(n)' = IF SessionLife(n) = u THEN "ended" ELSE SessionLife(n)
      <3>1. u # "unissued" /\ u # "ended" BY AccessAssumption
      <3>2. CASE n > Len(sessions) BY <2>3, <3>1, <3>2 DEF SessionLife
      <3>3. CASE ~(n > Len(sessions))
        <4>1. n \in DOMAIN sessions BY <2>2, <3>3
        <4>2. Open(n)' <=> Open(n) /\ sessions[n].user # u BY <1>2, <2>3, <4>1 DEF Open
        <4>3. Open(n)' => sessions'[n].user = sessions[n].user BY <2>3, <4>1, <4>2 DEF Open
        <4> QED BY <2>3, <3>1, <3>3, <4>2, <4>3 DEF SessionLife
      <3> QED BY <3>2, <3>3
    <2>5. ASSUME NEW d \in Credential
          PROVE  Life(d)' = IF d \in SessionCredentials /\ Life(d) = u THEN "ended" ELSE Life(d)
      <3>1. CASE \E n \in 1 .. MaxTokens : d = <<"session", n>>
        <4>1. PICK n \in 1 .. MaxTokens : d = <<"session", n>> BY <3>1
        <4>2. Life(d) = SessionLife(n) /\ Life(d)' = SessionLife(n)' BY <4>1, Lives, LivesNext
        <4>3. d \in SessionCredentials BY <4>1, Kinds
        <4> QED BY <2>4, <4>2, <4>3
      <3>2. CASE \E n \in 1 .. MaxAdminTokens : d = <<"admin", n>>
        <4>1. PICK n \in 1 .. MaxAdminTokens : d = <<"admin", n>> BY <3>2
        <4>2. Life(d) = AdminLife(n) /\ Life(d)' = AdminLife(n)' BY <4>1, Lives, LivesNext
        <4>3. AdminLife(n) # u BY AccessAssumption DEF AdminLife
        <4> QED BY <1>4, <4>2, <4>3 DEF AdminsSame
      <3>3. CASE \E n \in 1 .. MaxSecrets : d = <<"secret", n>>
        <4>1. PICK n \in 1 .. MaxSecrets : d = <<"secret", n>> BY <3>3
        <4>2. Life(d) = SecretLife(n) /\ Life(d)' = SecretLife(n)' BY <4>1, Lives, LivesNext
        <4>3. d \notin SessionCredentials BY <4>1, Kinds
        <4> QED BY <1>4, <4>2, <4>3 DEF SecretsSame
      <3>4. CASE \E n \in 1 .. MaxSecrets : d = <<"key", n>>
        <4>1. PICK n \in 1 .. MaxSecrets : d = <<"key", n>> BY <3>4
        <4>2. Life(d) = KeyLife(n) /\ Life(d)' = KeyLife(n)' BY <4>1, Lives, LivesNext
        <4>3. d \notin SessionCredentials BY <4>1, Kinds
        <4> QED BY <1>4, <4>2, <4>3 DEF KeysSame
      <3> QED BY <3>1, <3>2, <3>3, <3>4, Kinds
    <2>6. LifeMap' = [c \in Credential |->
                        IF c \in SessionCredentials /\ LifeMap[c] = u THEN "ended" ELSE LifeMap[c]]
      BY <2>5 DEF LifeMap
    <2>7. Admitted' = Admitted \ {u} BY <1>3, <1>6, AccessAssumption DEF Admitted
    <2> QED BY <2>6, <2>7 DEF Promise!Expel, Admitted, LifeMap
  <1> QED BY <1>5, <1>6

LEMMA UserSteps ==
    ASSUME AccessInv, AccessInv', NEW u \in Users, UserNext(u)
    PROVE  Promise!LifeNext
  <1>1. AccessTypeOK BY DEF AccessInv
  <1>2. CASE Login(u)
    <2>1. PICK s : s = Len(sessions) + 1 OBVIOUS
    <2>2. <<"session", s>> \in Credential
      <3>1. s \in 1 .. MaxTokens
        BY <1>1, <1>2, <2>1, AccessAssumption DEF Login, AccessTypeOK
      <3> QED BY <3>1, Kinds
    <2>3. Promise!Grant(<<"session", s>>) BY <1>2, <2>1, LoginGrants
    <2> QED BY <2>2, <2>3 DEF Promise!LifeNext
  <1>3. ASSUME NEW r \in Requests, Logout(r, u) \/ RevokeAll(r, u)
        PROVE  Promise!LifeNext
    <2>1. KeptOrOver(sessions') /\ UNCHANGED <<clock, users, adminSessions, keys, secrets>>
      BY <1>1, <1>3, RevokedRows DEF Logout, RevokeAll
    <2>2. Admitted' = Admitted BY <2>1 DEF Admitted
    <2>3. SessionsEnd BY <1>1, <2>1, SessionsDone
    <2>4. Promise!EndSome
      BY <2>1, <2>2, <2>3, SomeEnd, SamesEnd, AdminsUntouched, SecretsUntouched
    <2> QED BY <2>4 DEF Promise!LifeNext
  <1>4. ASSUME NEW r \in Requests, ChangePassword(r, u) PROVE Promise!LifeNext
    <2>1. KeptOrOver(sessions') /\ UNCHANGED <<clock, adminSessions, keys, secrets>>
      BY <1>1, <1>4, WithoutRows DEF ChangePassword
    <2>2. users' = [users EXCEPT ![u].password = users[u].password + 1] BY <1>4 DEF ChangePassword
    <2>3. \A v \in Users : users'[v].active = users[v].active
      BY <1>1, <2>2 DEF AccessTypeOK, User
    <2>4. Admitted' = Admitted BY <2>3 DEF Admitted
    <2>5. SessionsEnd BY <1>1, <2>1, SessionsDone
    <2>6. Promise!EndSome
      BY <2>1, <2>4, <2>5, SomeEnd, SamesEnd, AdminsUntouched, SecretsUntouched
    <2> QED BY <2>6 DEF Promise!LifeNext
  <1>5. ASSUME NEW r \in Requests, CreateApiKey(r, u) PROVE Promise!LifeNext
    <2>1. PICK s : s = secrets + 1 OBVIOUS
    <2>2. PICK l : l = Len(keys) + 1 OBVIOUS
    <2>3. /\ l \in 1 .. MaxSecrets /\ s \in 1 .. MaxSecrets
          /\ Promise!GrantKey(<<"key", l>>, <<"secret", s>>)
      BY <1>5, <2>1, <2>2, CreatedSecret
    <2> QED BY <2>3, Kinds DEF Promise!LifeNext
  <1>6. ASSUME NEW r \in Requests, NEW k \in DOMAIN keys, RegenerateApiKey(r, u, k)
        PROVE  Promise!LifeNext
    <2>1. PICK s : s = secrets + 1 OBVIOUS
    <2>2. PICK o : o = keys[k].secret OBVIOUS
    <2>3. o \in 1 .. MaxSecrets BY <1>6, <2>2, KeysTyped DEF RegenerateApiKey
    <2>4. Promise!Exchange(<<"secret", o>>) BY <1>6, <2>1, <2>2, RegeneratedSecret
    <2> QED BY <2>3, <2>4, Kinds DEF Promise!LifeNext
  <1>7. ASSUME NEW r \in Requests, NEW k \in DOMAIN keys, RevokeApiKey(r, u, k)
        PROVE  Promise!LifeNext
    <2>1. UNCHANGED <<clock, users, sessions, adminSessions>> BY <1>7 DEF RevokeApiKey
    <2>2. Admitted' = Admitted BY <2>1 DEF Admitted
    <2>3. KeysEnd /\ SecretsEnd BY <1>7, RevokedSecret
    <2>4. Promise!EndSome
      BY <2>1, <2>2, <2>3, SomeEnd, SamesEnd, AdminsUntouched, SessionsUntouched
    <2> QED BY <2>4 DEF Promise!LifeNext
  <1> QED BY <1>2, <1>3, <1>4, <1>5, <1>6, <1>7 DEF UserNext

(* A step that only moves the limiter, requests or the administrator's     *)
(* sessions that are over.                                                 *)
LEMMA QuietSteps ==
    ASSUME AccessInv, UNCHANGED <<clock, users, sessions, keys, secrets>>,
           \/ UNCHANGED adminSessions
           \/ adminSessions' = AdminPurged
           \/ \E m : adminSessions' = [adminSessions EXCEPT ![m] = NoRow]
    PROVE  Promise!LifeNext
  <1>1. AccessTypeOK BY DEF AccessInv
  <1>2. AdminsEnd BY <1>1, AdminsDone, AdminsUntouched, SamesEnd
  <1>3. Admitted' = Admitted BY DEF Admitted
  <1>4. Promise!EndSome
    BY <1>2, <1>3, SomeEnd, SamesEnd, SessionsUntouched, SecretsUntouched
  <1> QED BY <1>4 DEF Promise!LifeNext

LEMMA AdminSteps ==
    ASSUME AccessInv, AccessInv', AdminNext
    PROVE  Promise!LifeNext
  <1>1. AccessTypeOK BY DEF AccessInv
  <1>2. ASSUME NEW k \in Names, AdminLoginRefused(k) \/ \E r \in Requests : AdminLoginPasses(r, k)
        PROVE  Promise!LifeNext
    BY <1>2, QuietSteps DEF AdminLoginRefused, AdminLoginPasses, Passes, Refused
  <1>3. ASSUME NEW r \in Requests, AdminLogin(r) PROVE Promise!LifeNext
    <2>1. PICK s : s = Len(adminSessions) + 1 OBVIOUS
    <2>2. s \in 1 .. MaxAdminTokens
      BY <1>1, <1>3, <2>1, AccessAssumption DEF AdminLogin, AccessTypeOK
    <2>3. Promise!Grant(<<"admin", s>>) BY <1>3, <2>1, AdminLoginGrants
    <2> QED BY <2>2, <2>3, Kinds DEF Promise!LifeNext
  <1>4. ASSUME NEW r \in Requests, AdminLogout(r) PROVE Promise!LifeNext
    BY <1>4, QuietSteps DEF AdminLogout
  <1>5. ASSUME NEW r \in Requests, NEW n \in DOMAIN adminSessions, AdminAuthenticate(r, n)
        PROVE  Promise!LifeNext
    BY <1>5, QuietSteps DEF AdminAuthenticate
  <1>6. ASSUME NEW r \in Requests, NEW u \in Users, NEW enabled \in BOOLEAN,
               SetUserEnabled(r, u, enabled)
        PROVE  Promise!LifeNext
    BY <1>6, EnabledAdmits DEF Promise!LifeNext
  <1> QED BY <1>2, <1>3, <1>4, <1>5, <1>6 DEF AdminNext

(* Credentials end for good, sessions and keys are only given to who is    *)
(* admitted, and a further secret only in exchange for a valid one.        *)
THEOREM AccessImplementsCredentials == AccessSpec => ImplementsCredentials
  <1>1. AccessInit => Promise!LifeInit
    <2> SUFFICES ASSUME AccessInit PROVE Promise!LifeInit OBVIOUS
    <2>1. \A c \in Credential : Life(c) = "unissued"
      <3>1. /\ \A n \in 1 .. MaxTokens : SessionLife(n) = "unissued"
            /\ \A n \in 1 .. MaxAdminTokens : AdminLife(n) = "unissued"
            /\ \A n \in 1 .. MaxSecrets : KeyLife(n) = "unissued"
            /\ \A n \in 1 .. MaxSecrets : SecretLife(n) = "unissued"
        BY AccessAssumption DEF AccessInit, SessionLife, AdminLife, KeyLife, SecretLife
      <3> QED BY <3>1, Kinds, Lives
    <2> QED BY <2>1 DEF Promise!LifeInit
  <1>2. AccessInv /\ AccessInv' /\ [AccessNext]_accessVars => [Promise!LifeNext]_(Promise!lifeVars)
    <2> SUFFICES ASSUME AccessInv, AccessInv', [AccessNext]_accessVars
                 PROVE  Promise!LifeNext
      OBVIOUS
    <2>1. ASSUME NEW r \in Requests, NothingDone(r) \/ \E n \in DOMAIN sessions : Authenticate(r, n)
          PROVE  Promise!LifeNext
      BY <2>1, QuietSteps DEF NothingDone, Authenticate
    <2>2. CASE Cleanup BY <2>2, QuietSteps DEF Cleanup
    <2>3. CASE TimePasses
      <3>1. AccessTypeOK /\ clock \in Nat BY DEF AccessInv, AccessTypeOK, LimiterTypeOK
      <3>2. clock' \in Nat /\ clock' >= clock
            /\ UNCHANGED <<users, sessions, adminSessions, keys, secrets>>
        BY <2>3, <3>1 DEF TimePasses, Tick
      <3>3. Admitted' = Admitted BY <3>2 DEF Admitted
      <3>4. Promise!EndSome
        BY <3>1, <3>2, <3>3, SomeEnd, SamesEnd, SessionsDone, AdminsDone, SecretsUntouched
      <3> QED BY <3>4 DEF Promise!LifeNext
    <2>4. CASE UNCHANGED accessVars BY <2>4, QuietSteps DEF accessVars
    <2> QED BY <2>1, <2>2, <2>3, <2>4, UserSteps, AdminSteps DEF AccessNext
  <1> QED BY <1>1, <1>2, AccessInvariant, PTL
          DEF AccessSpec, ImplementsCredentials, Promise!LifeSpec

(* A session that was logged out, replaced or expired, a secret that was   *)
(* replaced and a key that was revoked is never valid again, and none of   *)
(* them passes to another user, whatever requests, cleanups and changes of *)
(* the user's status come in between (login, change_password,              *)
(* regenerate_api_key, revoke_api_key, set_user_enabled).                  *)
CredentialsEndForGood ==
    [][\A c \in Credential : Life(c) # "unissued" => Life(c)' \in {Life(c), "ended"}]_accessVars

THEOREM AccessEndsForGood == AccessSpec => CredentialsEndForGood
  <1> DEFINE life == [c \in Credential |-> Life(c)]
  <1>1. ASSUME [Promise!LifeNext]_(Promise!lifeVars), NEW c \in Credential, Life(c) # "unissued"
        PROVE  Life(c)' \in {Life(c), "ended"}
    <2>1. life[c] = Life(c) /\ life'[c] = Life(c)' OBVIOUS
    <2>2. CASE UNCHANGED life BY <2>1, <2>2
    <2>3. ASSUME NEW d \in Credential, Promise!Grant(d) PROVE life'[c] = life[c]
      BY <1>1, <2>1, <2>3 DEF Promise!Grant
    <2>4. ASSUME NEW k \in KeyCredentials, NEW d \in Promise!Secrets, Promise!GrantKey(k, d)
          PROVE  life'[c] = life[c]
      BY <1>1, <2>1, <2>4 DEF Promise!GrantKey
    <2>5. ASSUME NEW d \in Promise!Secrets, Promise!Exchange(d) PROVE life'[c] \in {life[c], "ended"}
      BY <1>1, <2>1, <2>5 DEF Promise!Exchange
    <2>6. CASE Promise!EndSome BY <2>1, <2>6 DEF Promise!EndSome
    <2>7. ASSUME NEW h \in Users \union {Administrator}, Promise!Expel(h)
          PROVE  life'[c] \in {life[c], "ended"}
      BY <2>7 DEF Promise!Expel
    <2>8. ASSUME NEW h \in Users \union {Administrator}, Promise!Admit(h) PROVE UNCHANGED life
      BY <2>8 DEF Promise!Admit
    <2> QED BY <1>1, <2>1, <2>2, <2>3, <2>4, <2>5, <2>6, <2>7, <2>8
            DEF Promise!LifeNext, Promise!lifeVars
  <1>2. [Promise!LifeNext]_(Promise!lifeVars)
           => [\A c \in Credential : Life(c) # "unissued" => Life(c)' \in {Life(c), "ended"}]_accessVars
    BY <1>1
  <1> QED BY <1>2, AccessImplementsCredentials, PTL
          DEF ImplementsCredentials, Promise!LifeSpec, CredentialsEndForGood

==============================================================================
