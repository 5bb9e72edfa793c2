------------------------------ MODULE Pop3Access ------------------------------
(***************************************************************************)
(* Reading mail over POP3: the connections and sessions of pop3_server.py, *)
(* the authentication of pop3_provider.py and the lockout of               *)
(* user_repository.py, over the mailboxes of MailboxLifecycle, which are   *)
(* released, expire and are cleaned up while sessions go on.               *)
(*                                                                         *)
(* A session reads one line at a time.  PASS runs without an await up to   *)
(* the request to CloudMail ("loading"); everything after the login reads  *)
(* the snapshot taken then and changes nothing, so those commands are not  *)
(* actions.  No code writes pop_enabled, so it is always true.             *)
(***************************************************************************)
EXTENDS MailboxLifecycle, FiniteSetsExt

CONSTANTS
    Users, Conns,
    Owner,              \* owner_user_id of each mailbox
    MaxConnections, MaxAuthFailures,
    LockThreshold,      \* failed logins that lock a user out: 5
    MaxLocks            \* bound of checking: lockouts that run out

ASSUME Pop3Assumption ==
    /\ Owner \in [Mailboxes -> Users]
    /\ MaxConnections \in Nat \ {0}
    /\ MaxAuthFailures \in Nat \ {0}
    /\ LockThreshold \in Nat \ {0}
    /\ MaxLocks \in Nat

VARIABLES
    active,     \* _active_connections
    session,    \* one _Pop3Session per connection
    user        \* the columns of users that concern POP3

pop3Vars == <<active, session, user>>

accessVars == <<now, row, record, inbox, reader, active, session, user>>

Session == [stage : {"out", "auth", "loading", "open"},
            name : Mailboxes \union {NoMailbox}, admin : BOOLEAN,
            failures : 0..(MaxAuthFailures - 1)]

(* guesses counts the wrong codes compared since attempts was last set to  *)
(* 0, ends the lockouts that ran out since: both only for GuessesBounded.  *)
User == [enabled : BOOLEAN, code : BOOLEAN, attempts : Nat, locked : BOOLEAN,
         guesses : Nat, ends : Nat]

Pop3TypeOK ==
    /\ active \in Nat
    /\ session \in [Conns -> Session]
    /\ user \in [Users -> User]

NoSession == [stage |-> "out", name |-> NoMailbox, admin |-> FALSE, failures |-> 0]

Pop3Init ==
    /\ LifecycleInit
    /\ active = 0
    /\ session = [c \in Conns |-> NoSession]
    /\ user = [u \in Users |-> [enabled |-> TRUE, code |-> FALSE, attempts |-> 0,
                                locked |-> FALSE, guesses |-> 0, ends |-> 0]]

-----------------------------------------------------------------------------
(* Mutant: the reservation is inside the try, so a refused connection is   *)
(* given back as well.                                                     *)
ConnectInsideTry(c) ==
    /\ session[c].stage = "out"
    /\ IF active < MaxConnections
       THEN /\ active' = active + 1
            /\ session' = [session EXCEPT ![c] = [NoSession EXCEPT !.stage = "auth"]]
       ELSE /\ active' = Max({0, active - 1})
            /\ UNCHANGED session
    /\ UNCHANGED <<lifecycleVars, user>>

(* _handle_client.  A connection beyond the limit is closed and leaves no  *)
(* trace.                                                                  *)
Connect(c) ==
    /\ session[c].stage = "out"
    /\ active < MaxConnections
    /\ active' = active + 1
    /\ session' = [session EXCEPT ![c] = [NoSession EXCEPT !.stage = "auth"]]
    /\ UNCHANGED <<lifecycleVars, user>>

Closed(c) ==
    /\ active' = Max({0, active - 1})
    /\ session' = [session EXCEPT ![c] = NoSession]

(* QUIT, a lost connection, a line that is too long, or a cancelled task.  *)
Disconnect(c) ==
    /\ session[c].stage # "out"
    /\ Closed(c)
    /\ UNCHANGED <<lifecycleVars, user>>

ServerRestarts ==
    /\ active' = 0
    /\ session' = [c \in Conns |-> NoSession]
    /\ UNCHANGED <<lifecycleVars, user>>

UserCommand(c, m) ==
    /\ session[c].stage = "auth"
    /\ session' = [session EXCEPT ![c].name = m]
    /\ UNCHANGED <<lifecycleVars, active, user>>

-----------------------------------------------------------------------------
AuthenticationFailed(c) ==
    IF session[c].failures + 1 >= MaxAuthFailures
    THEN Closed(c)
    ELSE /\ session' = [session EXCEPT ![c].name = NoMailbox, ![c].failures = @ + 1]
         /\ UNCHANGED active

BeginLoading(c, admin) ==
    /\ session' = [session EXCEPT ![c].stage = "loading", ![c].admin = admin]
    /\ UNCHANGED active

(* _is_allowed, for a principal that is the owner.                         *)
Readable(m) == row[m].status \in {"active", "expired"}

Awaiting(c) == session[c].stage = "auth" /\ session[c].name # NoMailbox

(* PASS with the administrator's code: any mailbox there is.               *)
PassAdmin(c) ==
    /\ Awaiting(c)
    /\ IF Exists(session[c].name) THEN BeginLoading(c, TRUE) ELSE AuthenticationFailed(c)
    /\ UNCHANGED <<lifecycleVars, user>>

(* Mutant: the end of the lockout is not looked at.                        *)
MayVerifyLocked(m) == Exists(m) /\ user[Owner[m]].enabled

(* verify_user_pop_auth_code compares only for a mailbox with an owner who *)
(* is enabled and not locked out.                                          *)
MayVerify(m) == Exists(m) /\ user[Owner[m]].enabled /\ ~user[Owner[m]].locked

(* PASS that cannot succeed: no argument, or nothing to compare with.      *)
PassRefused(c) ==
    /\ Awaiting(c)
    /\ AuthenticationFailed(c)
    /\ UNCHANGED <<lifecycleVars, user>>

Cleared(u) == [user EXCEPT ![u].attempts = 0, ![u].locked = FALSE,
                           ![u].guesses = 0, ![u].ends = 0]

(* PASS with the owner's code, which counts as a login whatever follows.   *)
PassRight(c) ==
    LET m == session[c].name IN
    /\ Awaiting(c)
    /\ MayVerify(m)
    /\ user[Owner[m]].code
    /\ user' = Cleared(Owner[m])
    /\ IF Readable(m) THEN BeginLoading(c, FALSE) ELSE AuthenticationFailed(c)
    /\ UNCHANGED lifecycleVars

(* PASS with a wrong code.  The count is not reset when a lockout ends, so *)
(* that the next failure locks again.                                      *)
PassWrong(c) ==
    LET u == Owner[session[c].name]
        attempts == user[u].attempts + 1 IN
    /\ Awaiting(c)
    /\ MayVerify(session[c].name)
    /\ user' = [user EXCEPT ![u].attempts = attempts, ![u].guesses = @ + 1,
                            ![u].locked = attempts >= LockThreshold]
    /\ AuthenticationFailed(c)
    /\ UNCHANGED lifecycleVars

(* The messages are there, or they are not and the client may try again.   *)
Loaded(c) ==
    /\ session[c].stage = "loading"
    /\ session' = [session EXCEPT ![c].stage = "open", ![c].failures = 0]
    /\ UNCHANGED <<lifecycleVars, active, user>>

LoadFails(c) ==
    /\ session[c].stage = "loading"
    /\ session' = [session EXCEPT ![c].stage = "auth", ![c].admin = FALSE]
    /\ UNCHANGED <<lifecycleVars, active, user>>

-----------------------------------------------------------------------------
(* set_user_auth_code and clear_user_auth_code; set_user_enabled.          *)
SetAuthCode(u, given) ==
    /\ user' = [Cleared(u) EXCEPT ![u].code = given]
    /\ UNCHANGED <<lifecycleVars, active, session>>

SetUserEnabled(u, enabled) ==
    /\ user' = [user EXCEPT ![u].enabled = enabled]
    /\ UNCHANGED <<lifecycleVars, active, session>>

(* pop_locked_until passes.                                                *)
LockRunsOut(u) ==
    /\ user[u].locked
    /\ user[u].ends < MaxLocks
    /\ user' = [user EXCEPT ![u].locked = FALSE, ![u].ends = @ + 1]
    /\ UNCHANGED <<lifecycleVars, active, session>>

Pop3Next ==
    \/ \E c \in Conns :
          \/ Connect(c) \/ Disconnect(c) \/ \E m \in Mailboxes : UserCommand(c, m)
          \/ PassAdmin(c) \/ PassRefused(c) \/ PassRight(c) \/ PassWrong(c)
          \/ Loaded(c) \/ LoadFails(c)
    \/ \E u \in Users : \/ \E b \in BOOLEAN : SetAuthCode(u, b) \/ SetUserEnabled(u, b)
                        \/ LockRunsOut(u)
    \/ ServerRestarts

AccessNext ==
    \/ Pop3Next
    \/ LifecycleNext /\ UNCHANGED pop3Vars

AccessSpec == Pop3Init /\ [][AccessNext]_accessVars

-----------------------------------------------------------------------------
(* The count of connections is exact, through refusals, failed logins,     *)
(* cancellations and restarts, and within the limit: no slot is lost and   *)
(* none is given twice.                                                    *)
ConnectionsExact ==
    /\ active = Cardinality({c \in Conns : session[c].stage # "out"})
    /\ active <= MaxConnections

(* However many connections are used, a code is compared with at most      *)
(* LockThreshold wrong guesses, and one more for each lockout that ran     *)
(* out, before its owner logs in or changes it.                            *)
GuessesBounded ==
    \A u \in Users : user[u].guesses <= LockThreshold + user[u].ends

(* A mailbox that was released, or removed by the script, and that no user *)
(* is reading, is never read by a user again: no later query, cleanup or   *)
(* expiry makes a released mailbox readable.                               *)
OutOfReach(m) ==
    /\ row[m].status \in {"released", "removed"}
    /\ \A c \in Conns : session[c].name = m /\ ~session[c].admin
                        => session[c].stage \notin {"loading", "open"}

ReleasedForGood == [][\A m \in Mailboxes : OutOfReach(m) => OutOfReach(m)']_accessVars
===============================================================================
