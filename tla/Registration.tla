----------------------------- MODULE Registration -----------------------------
(***************************************************************************)
(* Self-registration: the e-mail codes of registration.py and the account  *)
(* that user_repository.py creates with one.  Both requests run in threads,*)
(* so they interleave at the statements of their transactions, which run   *)
(* at READ COMMITTED: what a SELECT returned may be out of date when the   *)
(* UPDATE that follows from it is committed.                               *)
(*                                                                         *)
(* Everything is keyed by the address, so there is one address here.  A    *)
(* code is numbered by its created_at, which is taken before its           *)
(* transaction starts.  A row's age is "recent" while the cooldown lasts   *)
(* and "valid", "over" or, a day later, "old".  An UPDATE that waits for a *)
(* row lock is one that is committed later.                                *)
(***************************************************************************)
EXTENDS Integers, FiniteSets, FiniteSetsExt

CONSTANTS
    Threads,
    MaxAttempts,    \* max_attempts: 5
    MaxCodes        \* bound of checking: codes ever sent

ASSUME RegistrationAssumption ==
    /\ MaxAttempts \in Nat \ {0}
    /\ MaxCodes \in Nat

Codes == 1..MaxCodes

VARIABLES
    rows,       \* table user_registration_codes
    lastCode,   \* the newest created_at handed out
    account,    \* the code that opened the account of the address, or 0
    thread,     \* the requests under way
    guesses,    \* history: guesses answered as wrong, per code
    crossed     \* history: codes whose transactions overlapped another one

registrationVars == <<rows, lastCode, account, thread, guesses, crossed>>

Row == [there : BOOLEAN, consumed : BOOLEAN, attempts : 0..MaxAttempts,
        recent : BOOLEAN, life : {"valid", "over", "old"}]

Thread == [stage : {"idle", "checked", "selected", "superseding", "mailing",
                    "burn", "wrong", "right"},
           code : 0..MaxCodes, attempts : 0..MaxAttempts, superseded : SUBSET Codes]

RegistrationTypeOK ==
    /\ rows \in [Codes -> Row]
    /\ lastCode \in 0..MaxCodes
    /\ account \in 0..MaxCodes
    /\ thread \in [Threads -> Thread]
    /\ guesses \in [Codes -> Nat]
    /\ crossed \subseteq Codes

NoCode == [there |-> FALSE, consumed |-> FALSE, attempts |-> 0,
           recent |-> FALSE, life |-> "valid"]

Free == [stage |-> "idle", code |-> 0, attempts |-> 0, superseded |-> {}]

RegistrationInit ==
    /\ rows = [c \in Codes |-> NoCode]
    /\ lastCode = 0
    /\ account = 0
    /\ thread = [t \in Threads |-> Free]
    /\ guesses = [c \in Codes |-> 0]
    /\ crossed = {}

Sent == {c \in Codes : rows[c].there}

Live == {c \in Sent : ~rows[c].consumed}

(* The threads that have read a code's row and not yet written it, and     *)
(* those that have marked older codes and not yet committed.               *)
Judging(c) == {t \in Threads : /\ thread[t].stage \in {"burn", "wrong", "right"}
                               /\ thread[t].code = c}

Sending == {t \in Threads : thread[t].stage = "superseding"}

-----------------------------------------------------------------------------
(* send_code: the address is not registered, and the time is taken.        *)
SendCheck(t) ==
    /\ thread[t].stage = "idle"
    /\ account = 0
    /\ lastCode < MaxCodes
    /\ lastCode' = lastCode + 1
    /\ thread' = [thread EXCEPT ![t] = [Free EXCEPT !.stage = "checked", !.code = lastCode + 1]]
    /\ UNCHANGED <<rows, account, guesses, crossed>>

(* The newest row is still cooling down, or newer than this request: 429.  *)
TooFrequent(c) == Sent # {} /\ (Max(Sent) > c \/ rows[Max(Sent)].recent)

SendSelect(t) ==
    /\ thread[t].stage = "checked"
    /\ thread' = [thread EXCEPT ![t] = IF TooFrequent(thread[t].code)
                                       THEN Free ELSE [@ EXCEPT !.stage = "selected"]]
    /\ UNCHANGED <<rows, lastCode, account, guesses, crossed>>

(* Mutant: the older codes are left as they are.                           *)
SupersededNone == {}

Superseded == Live

(* UPDATE ... SET consumed=1: the rows it finds.                           *)
SendSupersede(t) ==
    /\ thread[t].stage = "selected"
    /\ thread' = [thread EXCEPT ![t].stage = "superseding", ![t].superseded = Superseded]
    /\ crossed' = crossed
                  \union {c \in Codes : Judging(c) # {}}
                  \union (IF Sending = {} THEN {}
                          ELSE {thread[s].code : s \in Sending \union {t}})
    /\ UNCHANGED <<rows, lastCode, account, guesses>>

(* The commit: old rows are gone, the older codes consumed, the code there.*)
SendCommit(t) ==
    /\ thread[t].stage = "superseding"
    /\ rows' = [c \in Codes |->
                  IF c = thread[t].code
                  THEN [NoCode EXCEPT !.there = TRUE, !.recent = TRUE]
                  ELSE IF rows[c].life = "old" THEN NoCode
                  ELSE IF rows[c].there /\ c \in thread[t].superseded
                       THEN [rows[c] EXCEPT !.consumed = TRUE] ELSE rows[c]]
    /\ thread' = [thread EXCEPT ![t] = [Free EXCEPT !.stage = "mailing", !.code = thread[t].code]]
    /\ UNCHANGED <<lastCode, account, guesses, crossed>>

MailSent(t) ==
    /\ thread[t].stage = "mailing"
    /\ thread' = [thread EXCEPT ![t] = Free]
    /\ UNCHANGED <<rows, lastCode, account, guesses, crossed>>

(* The SMTP server fails: the row is deleted again.                        *)
MailFails(t) ==
    /\ thread[t].stage = "mailing"
    /\ rows' = [rows EXCEPT ![thread[t].code] = NoCode]
    /\ thread' = [thread EXCEPT ![t] = Free]
    /\ UNCHANGED <<lastCode, account, guesses, crossed>>

-----------------------------------------------------------------------------
(* create_user_from_registration, the SELECT and what it decides.  A guess *)
(* is a code that was sent, or 0 for any other.                            *)
Register(t, guess) ==
    LET c == Max(Live)
        spent == rows[c].life # "valid" \/ rows[c].attempts >= MaxAttempts
        stage == IF spent THEN "burn" ELSE IF guess = c THEN "right" ELSE "wrong" IN
    /\ thread[t].stage = "idle"
    /\ Live # {}
    /\ thread' = [thread EXCEPT ![t] = [Free EXCEPT !.stage = stage, !.code = c,
                                                    !.attempts = rows[c].attempts]]
    /\ crossed' = IF Judging(c) \union Sending = {} THEN crossed ELSE crossed \union {c}
    /\ UNCHANGED <<rows, lastCode, account, guesses>>

Written(c, row) == IF rows[c].there THEN [rows EXCEPT ![c] = row] ELSE rows

(* The code is over or used up.                                            *)
Burn(t) ==
    LET c == thread[t].code IN
    /\ thread[t].stage = "burn"
    /\ rows' = Written(c, [rows[c] EXCEPT !.consumed = TRUE])
    /\ thread' = [thread EXCEPT ![t] = Free]
    /\ UNCHANGED <<lastCode, account, guesses, crossed>>

(* Mutant: the last attempt does not use the code up.                      *)
CountWrongOpen(t) ==
    LET c == thread[t].code IN
    /\ thread[t].stage = "wrong"
    /\ rows' = Written(c, [rows[c] EXCEPT !.attempts = thread[t].attempts + 1, !.consumed = FALSE])
    /\ thread' = [thread EXCEPT ![t] = Free]
    /\ guesses' = [guesses EXCEPT ![c] = @ + 1]
    /\ UNCHANGED <<lastCode, account, crossed>>

(* A wrong code: attempts and consumed are written from what was read.     *)
CountWrong(t) ==
    LET c == thread[t].code
        attempts == thread[t].attempts + 1 IN
    /\ thread[t].stage = "wrong"
    /\ rows' = Written(c, [rows[c] EXCEPT !.attempts = attempts,
                                          !.consumed = attempts >= MaxAttempts])
    /\ thread' = [thread EXCEPT ![t] = Free]
    /\ guesses' = [guesses EXCEPT ![c] = @ + 1]
    /\ UNCHANGED <<lastCode, account, crossed>>

(* The right code: the account, unless the address has one by now.         *)
Accept(t) ==
    LET c == thread[t].code IN
    /\ thread[t].stage = "right"
    /\ account = 0
    /\ account' = c
    /\ rows' = Written(c, [rows[c] EXCEPT !.consumed = TRUE])
    /\ thread' = [thread EXCEPT ![t] = Free]
    /\ UNCHANGED <<lastCode, guesses, crossed>>

(* The transaction is rolled back: the address or the name is taken        *)
(* (users.email and users.username are unique), the database fails, or the *)
(* server restarts.  A code whose mail is then lost stays in the table.    *)
RollBack(t) ==
    /\ thread[t].stage # "idle"
    /\ thread' = [thread EXCEPT ![t] = Free]
    /\ UNCHANGED <<rows, lastCode, account, guesses, crossed>>

-----------------------------------------------------------------------------
(* Time passes.                                                            *)
CooldownEnds(c) ==
    /\ rows[c].there
    /\ rows[c].recent
    /\ rows' = [rows EXCEPT ![c].recent = FALSE]
    /\ UNCHANGED <<lastCode, account, thread, guesses, crossed>>

GetsOlder(c) ==
    /\ rows[c].there
    /\ \/ /\ rows[c].life = "valid"
          /\ rows' = [rows EXCEPT ![c].life = "over"]
       \/ /\ rows[c].life = "over"
          /\ rows' = [rows EXCEPT ![c].life = "old", ![c].recent = FALSE]
    /\ UNCHANGED <<lastCode, account, thread, guesses, crossed>>

(* Nothing is under way; no more codes will be sent, and none is live.     *)
Quiet ==
    /\ \A t \in Threads : thread[t].stage = "idle"
    /\ UNCHANGED registrationVars

RegistrationNext ==
    \/ \E t \in Threads :
          \/ SendCheck(t) \/ SendSelect(t) \/ SendSupersede(t) \/ SendCommit(t)
          \/ MailSent(t) \/ MailFails(t)
          \/ \E guess \in 0..lastCode : Register(t, guess)
          \/ Burn(t) \/ CountWrong(t) \/ Accept(t) \/ RollBack(t)
    \/ \E c \in Codes : CooldownEnds(c) \/ GetsOlder(c)
    \/ Quiet

RegistrationSpec == RegistrationInit /\ [][RegistrationNext]_registrationVars

-----------------------------------------------------------------------------
(* A code whose transactions did not overlap others has counted every      *)
(* guess that was answered as wrong, and the last one MaxAttempts allows   *)
(* has used it up: failed mails, rollbacks, expiry and newer codes in      *)
(* between do not give it more.                                            *)
LimitKeptAlone ==
    \A c \in Sent \ crossed :
        /\ guesses[c] = rows[c].attempts
        /\ rows[c].attempts = MaxAttempts => rows[c].consumed

(* Only the newest code counts: two codes are live together only if the    *)
(* transactions of one of them overlapped another.                         *)
OneLiveCode ==
    \A c, d \in Live : c # d => c \in crossed \/ d \in crossed

(* docs/api.md:120: after five wrong guesses in a row a code is invalid.   *)
LimitKept == \A c \in Codes : guesses[c] <= MaxAttempts
===============================================================================
