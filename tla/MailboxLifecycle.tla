--------------------------- MODULE MailboxLifecycle ---------------------------
(***************************************************************************)
(* A mailbox after its creation: the status query, verification codes and  *)
(* release of mailbox_service.py, with the idempotency record that still   *)
(* answers retries, and scripts/gateway_retention_cleanup.py, a process of *)
(* its own that marks and deletes rows.                                    *)
(*                                                                         *)
(* Lifetimes are compared with retention periods here, so time is a number.*)
(* The unit is such that a day is Day units and a lifetime Ttl.  A token   *)
(* ends with its mailbox's lifetime; as it is verified before the clock is *)
(* read again, a request can still pass at the very instant of expiry.     *)
(*                                                                         *)
(* Messages are counted: message n carries code n, and 0 is "no code".     *)
(***************************************************************************)
EXTENDS Integers, FiniteSets

CONSTANTS
    Mailboxes, Keys, Readers,
    NoMailbox,
    Ttl,            \* mailbox_session_ttl_seconds
    Day,            \* a day, in the same unit
    RetentionDays,  \* values given to --mailbox-retention-days
    MaxNow,         \* bound of checking: the clock
    MaxMessages     \* bound of checking: messages with a code per mailbox

ASSUME LifecycleAssumption ==
    /\ Ttl \in Nat \ {0}
    /\ Day \in Nat
    /\ Ttl <= Day       \* config.py caps the lifetime at 86400 seconds
    /\ RetentionDays \subseteq Nat
    /\ NoMailbox \notin Mailboxes
    /\ MaxNow \in Nat
    /\ MaxMessages \in Nat

VARIABLES
    now,        \* the clock
    row,        \* table mailboxes
    record,     \* table idempotency_records: the mailbox that answers a key
    inbox,      \* messages in the CloudMail account of a mailbox
    reader      \* the calls of get_verification_code

lifecycleVars == <<now, row, record, inbox, reader>>

Row == [status : {"none", "active", "expired", "released", "removed"},
        key : Keys \union {NoMailbox}, created : Nat,
        verification : {"pending", "received", "timeout"}, code : Nat]

Reader == [stage : {"idle", "asked", "answered"}, mailbox : Mailboxes \union {NoMailbox},
           wait : BOOLEAN, same : BOOLEAN, seen : Nat, overtaken : BOOLEAN]

LifecycleTypeOK ==
    /\ now \in Nat
    /\ row \in [Mailboxes -> Row]
    /\ record \in [Keys -> Mailboxes \union {NoMailbox}]
    /\ inbox \in [Mailboxes -> Nat]
    /\ reader \in [Readers -> Reader]

NoRow == [status |-> "none", key |-> NoMailbox, created |-> 0,
          verification |-> "pending", code |-> 0]

Idle == [stage |-> "idle", mailbox |-> NoMailbox, wait |-> FALSE, same |-> TRUE,
         seen |-> 0, overtaken |-> FALSE]

LifecycleInit ==
    /\ now = 0
    /\ row = [m \in Mailboxes |-> NoRow]
    /\ record = [k \in Keys |-> NoMailbox]
    /\ inbox = [m \in Mailboxes |-> 0]
    /\ reader = [r \in Readers |-> Idle]

-----------------------------------------------------------------------------
Exists(m) == row[m].status \in {"active", "expired", "released"}

ExpiresAt(m) == row[m].created + Ttl

Over(m) == ExpiresAt(m) <= now

(* The idempotency records whose mailbox's lifetime is over are deleted by *)
(* get_idempotency, before it looks up a key, and by the script.           *)
Unexpired == [k \in Keys |-> IF record[k] # NoMailbox /\ ~Over(record[k])
                             THEN record[k] ELSE NoMailbox]

GetIdempotency ==
    /\ record' = Unexpired
    /\ UNCHANGED <<now, row, inbox, reader>>

(* A creation whose key answers with no mailbox, at its commit.  What      *)
(* comes before it is the subject of MailboxCreation.                      *)
SaveMailbox(m, k) ==
    /\ row[m].status = "none"
    /\ Unexpired[k] = NoMailbox
    /\ row' = [row EXCEPT ![m] = [NoRow EXCEPT !.status = "active", !.key = k, !.created = now]]
    /\ record' = [Unexpired EXCEPT ![k] = m]
    /\ UNCHANGED <<now, inbox, reader>>

(* get_mailbox_status.  It writes "expired" only if the lifetime ended     *)
(* after the token was verified; later on the token is refused.            *)
MarkExpired(m) ==
    /\ row[m].status = "active"
    /\ ExpiresAt(m) = now
    /\ row' = [row EXCEPT ![m].status = "expired"]
    /\ UNCHANGED <<now, record, inbox, reader>>

ReleaseMailbox(m) ==
    /\ Exists(m)
    /\ now <= ExpiresAt(m)
    /\ row' = [row EXCEPT ![m].status = "released"]
    /\ UNCHANGED <<now, record, inbox, reader>>

-----------------------------------------------------------------------------
(* get_verification_code, from its checks to the answer of CloudMail.  A   *)
(* call may name another purpose than its mailbox's ("same" is FALSE), and *)
(* then recognises none of the codes.                                      *)
GetVerificationCode(r, m, wait, same) ==
    /\ reader[r].stage = "idle"
    /\ row[m].status = "active"
    /\ ~Over(m)
    /\ reader' = [reader EXCEPT ![r] = [Idle EXCEPT !.stage = "asked", !.mailbox = m,
                                                    !.wait = wait, !.same = same]]
    /\ UNCHANGED <<now, row, record, inbox>>

(* CloudMail looks into the account; its answer is on the way.             *)
EmailList(r) ==
    /\ reader[r].stage = "asked"
    /\ reader' = [reader EXCEPT ![r].stage = "answered", ![r].overtaken = FALSE,
                                ![r].seen = inbox[reader[r].mailbox]]
    /\ UNCHANGED <<now, row, record, inbox>>

Recognised(r) == reader[r].same /\ reader[r].seen > 0

SetVerification(m, status, code) ==
    row' = IF Exists(m) THEN [row EXCEPT ![m].verification = status, ![m].code = code]
                        ELSE row

(* The answer has a code: the newest message comes first.  "overtaken"     *)
(* records, for the property only, that other answers now on the way are   *)
(* older than what the row holds.                                          *)
Receive(r) ==
    LET m == reader[r].mailbox IN
    /\ reader[r].stage = "answered"
    /\ Recognised(r)
    /\ SetVerification(m, "received", reader[r].seen)
    /\ reader' = [q \in Readers |->
                    IF q = r THEN Idle
                    ELSE IF reader[q].stage = "answered" /\ reader[q].mailbox = m
                         THEN [reader[q] EXCEPT !.overtaken = TRUE]
                         ELSE reader[q]]
    /\ UNCHANGED <<now, record, inbox>>

(* Mutant: the deadline is tested before the code.                         *)
GiveUpFirst(r) ==
    /\ reader[r].stage = "answered"
    /\ IF reader[r].wait THEN SetVerification(reader[r].mailbox, "timeout", 0)
                         ELSE UNCHANGED row
    /\ reader' = [reader EXCEPT ![r] = Idle]
    /\ UNCHANGED <<now, record, inbox>>

(* No code, and the deadline has passed; it has for a call without a wait. *)
GiveUp(r) ==
    /\ reader[r].stage = "answered"
    /\ ~Recognised(r)
    /\ IF reader[r].wait THEN SetVerification(reader[r].mailbox, "timeout", 0)
                         ELSE UNCHANGED row
    /\ reader' = [reader EXCEPT ![r] = Idle]
    /\ UNCHANGED <<now, record, inbox>>

(* No code yet: sleep, and ask again.                                      *)
PollAgain(r) ==
    /\ reader[r].stage = "answered"
    /\ ~Recognised(r)
    /\ reader[r].wait
    /\ reader' = [reader EXCEPT ![r] = [@ EXCEPT !.stage = "asked", !.seen = 0,
                                                 !.overtaken = FALSE]]
    /\ UNCHANGED <<now, row, record, inbox>>

(* The query fails, or the server restarts: the call ends with an error.   *)
QueryFails(r) ==
    /\ reader[r].stage # "idle"
    /\ reader' = [reader EXCEPT ![r] = Idle]
    /\ UNCHANGED <<now, row, record, inbox>>

-----------------------------------------------------------------------------
(* Mutant: the script takes the days it is given, also if they are none.   *)
CutoffAsGiven(days) == now - days * Day

(* The retention script with --apply: one transaction.  A row that is      *)
(* deleted takes its idempotency record with it (ON DELETE CASCADE).       *)
Cutoff(days) == now - (IF days < 1 THEN 1 ELSE days) * Day

(* Mutant: the script marks every row whose lifetime is over.              *)
MarkedWhateverStatus ==
    [m \in Mailboxes |-> IF Exists(m) /\ Over(m)
                         THEN [row[m] EXCEPT !.status = "expired"] ELSE row[m]]

Marked == [m \in Mailboxes |->
             IF row[m].status = "active" /\ Over(m)
             THEN [row[m] EXCEPT !.status = "expired"] ELSE row[m]]

Cleanup(days) ==
    LET Deleted == {m \in Mailboxes : /\ Marked[m].status \in {"released", "expired"}
                                      /\ row[m].created < Cutoff(days)} IN
    /\ row' = [m \in Mailboxes |-> IF m \in Deleted
                                   THEN [NoRow EXCEPT !.status = "removed", !.key = row[m].key,
                                                      !.created = row[m].created]
                                   ELSE Marked[m]]
    /\ record' = [k \in Keys |-> IF Unexpired[k] \in Deleted THEN NoMailbox ELSE Unexpired[k]]
    /\ UNCHANGED <<now, inbox, reader>>

-----------------------------------------------------------------------------
(* Time passes and mail arrives, in any account that was ever created.     *)
Tick ==
    /\ now < MaxNow
    /\ now' = now + 1
    /\ UNCHANGED <<row, record, inbox, reader>>

Deliver(m) ==
    /\ row[m].status # "none"
    /\ inbox[m] < MaxMessages
    /\ inbox' = [inbox EXCEPT ![m] = @ + 1]
    /\ UNCHANGED <<now, row, record, reader>>

RowsNext ==
    \/ GetIdempotency
    \/ \E m \in Mailboxes, k \in Keys : SaveMailbox(m, k)
    \/ \E m \in Mailboxes : MarkExpired(m) \/ ReleaseMailbox(m) \/ Deliver(m)
    \/ \E days \in RetentionDays : Cleanup(days)
    \/ Tick

ReadersNext ==
    \E r \in Readers :
        \/ \E m \in Mailboxes, wait, same \in BOOLEAN : GetVerificationCode(r, m, wait, same)
        \/ EmailList(r) \/ Receive(r) \/ GiveUp(r) \/ PollAgain(r) \/ QueryFails(r)

LifecycleNext == RowsNext \/ ReadersNext

LifecycleSpec == LifecycleInit /\ [][LifecycleNext]_lifecycleVars

-----------------------------------------------------------------------------
(* A key is answered by one mailbox for its whole lifetime, so that a      *)
(* retry never pays for a second one: neither release nor the script, with *)
(* whatever retention, frees the key earlier.  (A removed row keeps its    *)
(* key and time here, for this comparison.)                                *)
KeyKeepsMailbox ==
    \A m, n \in Mailboxes :
        /\ m # n
        /\ row[m].status # "none"
        /\ row[n].status # "none"
        /\ row[m].key = row[n].key
        => (row[m].created + Ttl <= row[n].created) \/ (row[n].created + Ttl <= row[m].created)

(* A code that was received and shown to the user is replaced by an older  *)
(* one, or erased by a timeout, only by a call that looks for another      *)
(* purpose or whose answer was on the way when the code was stored.  Calls *)
(* that follow each other never lose a code.                               *)
ReceivedStays ==
    [][\A m \in Mailboxes :
          Exists(m) /\ Exists(m)' /\ row[m].code > row'[m].code
          => \E r \in Readers : /\ reader[r].mailbox = m
                                /\ reader'[r] = Idle
                                /\ reader[r].overtaken \/ ~reader[r].same]_lifecycleVars

===============================================================================
