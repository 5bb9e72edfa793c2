-------------------------- MODULE Pop3Access_proof --------------------------
(***************************************************************************)
(* Proofs about the life of a mailbox and about POP3 access to it.  A key  *)
(* is answered by one mailbox for the whole of its lifetime, for any       *)
(* lifetime of at most a day and any retention the script is given; and    *)
(* the count of connections, the number of guesses and the end of access   *)
(* to a mailbox hold for any number of clients, users and mailboxes.       *)
(***************************************************************************)
EXTENDS Pop3Access, FiniteSetTheorems, TLAPS

-----------------------------------------------------------------------------
(* The life of a mailbox (MailboxLifecycle), with or without POP3 access.  *)

(* The record of a key names the mailbox of the key that is not over: it   *)
(* is what a retry finds, and neither a purge nor the cascade of a deleted *)
(* row removes it too early.                                               *)
RecordKept ==
    \A m \in Mailboxes :
        row[m].status # "none"
        => /\ row[m].key \in Keys
           /\ row[m].created <= now
           /\ ~Over(m) => record[row[m].key] = m

(* A call under way asks about a mailbox.                                  *)
ReadersAsk == \A r \in Readers : reader[r].stage # "idle" => reader[r].mailbox \in Mailboxes

LifecycleInv == LifecycleTypeOK /\ ReadersAsk /\ RecordKept /\ KeyKeepsMailbox

-----------------------------------------------------------------------------
LEMMA UnexpiredType ==
    ASSUME LifecycleTypeOK
    PROVE  /\ Unexpired \in [Keys -> Mailboxes \union {NoMailbox}]
           /\ \A k \in Keys : Unexpired[k] \in {record[k], NoMailbox}
           /\ \A k \in Keys, m \in Mailboxes :
                 record[k] = m /\ ~Over(m) => Unexpired[k] = m
  BY LifecycleAssumption DEF Unexpired, LifecycleTypeOK

(* What a step does to the identity of the rows: nothing, unless it        *)
(* creates one or the script runs.                                         *)
SameRows ==
    \A m \in Mailboxes : /\ row'[m].status = "none" <=> row[m].status = "none"
                         /\ row'[m].key = row[m].key
                         /\ row'[m].created = row[m].created

LEMMA SetVerificationSame ==
    ASSUME LifecycleTypeOK, NEW m \in Mailboxes, NEW s \in {"pending", "received", "timeout"},
           NEW code \in Nat, SetVerification(m, s, code)
    PROVE  row' \in [Mailboxes -> Row] /\ SameRows
  <1> DEFINE r == [row[m] EXCEPT !.verification = s, !.code = code]
  <1>1. row \in [Mailboxes -> Row] BY DEF LifecycleTypeOK
  <1>2. /\ r \in Row /\ r.status = row[m].status
        /\ r.key = row[m].key /\ r.created = row[m].created
    BY <1>1 DEF Row
  <1>3. row' = row \/ row' = [row EXCEPT ![m] = r] BY <1>1 DEF SetVerification
  <1> HIDE DEF r
  <1> QED BY <1>1, <1>2, <1>3 DEF SameRows

LEMMA StatusSame ==
    ASSUME LifecycleTypeOK, NEW m \in Mailboxes, NEW s \in {"active", "expired", "released"},
           row[m].status # "none", row' = [row EXCEPT ![m].status = s]
    PROVE  row' \in [Mailboxes -> Row] /\ SameRows
  BY DEF LifecycleTypeOK, Row, SameRows

(* The script deletes no row younger than a day, so none that is not over. *)
LEMMA CutoffIsLate ==
    ASSUME now \in Nat, NEW days \in RetentionDays
    PROVE  Cutoff(days) \in Int /\ Cutoff(days) <= now - Ttl
  <1> DEFINE d == IF days < 1 THEN 1 ELSE days
  <1>1. d \in Nat /\ d >= 1 BY LifecycleAssumption
  <1>2. d * Day \in Nat /\ d * Day >= Day
    <2> HIDE DEF d
    <2> QED BY <1>1, LifecycleAssumption
  <1>3. Cutoff(days) = now - d * Day BY DEF Cutoff
  <1> HIDE DEF d
  <1> QED BY <1>2, <1>3, LifecycleAssumption

LEMMA MarkedSame ==
    ASSUME LifecycleTypeOK
    PROVE  /\ Marked \in [Mailboxes -> Row]
           /\ \A m \in Mailboxes : /\ Marked[m].status = "none" <=> row[m].status = "none"
                                   /\ Marked[m].key = row[m].key
                                   /\ Marked[m].created = row[m].created
  BY DEF Marked, LifecycleTypeOK, Row

LEMMA CleanupSame ==
    ASSUME LifecycleInv, NEW days \in RetentionDays, Cleanup(days)
    PROVE  /\ row' \in [Mailboxes -> Row]
           /\ SameRows
           /\ record' \in [Keys -> Mailboxes \union {NoMailbox}]
           /\ \A m \in Mailboxes, k \in Keys : record[k] = m /\ ~Over(m) => record'[k] = m
  <1> DEFINE Deleted == {m \in Mailboxes : /\ Marked[m].status \in {"released", "expired"}
                                           /\ row[m].created < Cutoff(days)}
  <1> DEFINE Gone(m) == [NoRow EXCEPT !.status = "removed", !.key = row[m].key,
                                      !.created = row[m].created]
  <1>1. row' = [m \in Mailboxes |-> IF m \in Deleted THEN Gone(m) ELSE Marked[m]]
    BY DEF Cleanup
  <1>2. record' = [k \in Keys |-> IF Unexpired[k] \in Deleted THEN NoMailbox ELSE Unexpired[k]]
    BY DEF Cleanup
  <1>3. \A m \in Mailboxes : m \in Deleted => row[m].status # "none" /\ Over(m)
    <2> SUFFICES ASSUME NEW m \in Deleted PROVE row[m].status # "none" /\ Over(m) OBVIOUS
    <2>1. row[m].status # "none" BY MarkedSame DEF LifecycleInv
    <2>2. row[m].created \in Nat BY DEF LifecycleInv, LifecycleTypeOK, Row
    <2>3. row[m].created < Cutoff(days) /\ Cutoff(days) \in Int /\ Cutoff(days) <= now - Ttl
      BY CutoffIsLate DEF LifecycleInv, LifecycleTypeOK
    <2>4. now \in Nat /\ Ttl \in Nat BY LifecycleAssumption DEF LifecycleInv, LifecycleTypeOK
    <2> QED BY <2>1, <2>2, <2>3, <2>4 DEF Over, ExpiresAt
  <1>4. \A m \in Mailboxes : Gone(m) \in Row /\ Gone(m).status = "removed"
                             /\ Gone(m).key = row[m].key /\ Gone(m).created = row[m].created
    BY DEF NoRow, Row, LifecycleInv, LifecycleTypeOK
  <1> HIDE DEF Gone, Deleted
  <1>5. row' \in [Mailboxes -> Row] BY <1>1, <1>4, MarkedSame DEF LifecycleInv
  <1>6. SameRows BY <1>1, <1>3, <1>4, MarkedSame DEF SameRows, LifecycleInv
  <1>7. record' \in [Keys -> Mailboxes \union {NoMailbox}]
    BY <1>2, UnexpiredType DEF LifecycleInv
  <1>8. \A m \in Mailboxes, k \in Keys : record[k] = m /\ ~Over(m) => record'[k] = m
    BY <1>2, <1>3, UnexpiredType DEF LifecycleInv
  <1> QED BY <1>5, <1>6, <1>7, <1>8

-----------------------------------------------------------------------------
LEMMA LifecycleInitHolds == LifecycleInit => LifecycleInv
  BY LifecycleAssumption
  DEF LifecycleInit, LifecycleInv, LifecycleTypeOK, ReadersAsk, RecordKept, KeyKeepsMailbox, NoRow, Row,
      Idle, Reader

(* Steps that create no row keep what the records say, as long as they     *)
(* keep the records of mailboxes that are not over.                        *)
LEMMA SameRowsHold ==
    ASSUME LifecycleInv, SameRows, row' \in [Mailboxes -> Row], now' \in Nat, now <= now',
           \A m \in Mailboxes, k \in Keys : record[k] = m /\ ~Over(m) => record'[k] = m
    PROVE  RecordKept' /\ KeyKeepsMailbox'
  <1>1. RecordKept'
    <2> SUFFICES ASSUME NEW m \in Mailboxes, row'[m].status # "none"
                 PROVE  /\ row'[m].key \in Keys
                        /\ row'[m].created <= now'
                        /\ ~Over(m)' => record'[row'[m].key] = m
      BY DEF RecordKept
    <2>1. /\ row[m].status # "none" /\ row'[m].key = row[m].key
          /\ row'[m].created = row[m].created
      BY DEF SameRows
    <2>2. row[m].created \in Nat /\ now \in Nat /\ Ttl \in Nat
      BY LifecycleAssumption DEF LifecycleInv, LifecycleTypeOK, Row
    <2>3. row[m].key \in Keys /\ row[m].created <= now /\ (~Over(m) => record[row[m].key] = m)
      BY <2>1 DEF LifecycleInv, RecordKept
    <2>4. ~Over(m)' => ~Over(m) BY <2>1, <2>2 DEF Over, ExpiresAt
    <2> QED BY <2>1, <2>2, <2>3, <2>4
  <1>2. KeyKeepsMailbox' BY DEF KeyKeepsMailbox, LifecycleInv, SameRows
  <1> QED BY <1>1, <1>2

LEMMA SaveMailboxHolds ==
    ASSUME LifecycleInv, NEW m \in Mailboxes, NEW k \in Keys, SaveMailbox(m, k)
    PROVE  LifecycleInv'
  <1> DEFINE new == [NoRow EXCEPT !.status = "active", !.key = k, !.created = now]
  <1>1. /\ row[m].status = "none" /\ Unexpired[k] = NoMailbox
        /\ row' = [row EXCEPT ![m] = new] /\ record' = [Unexpired EXCEPT ![k] = m]
        /\ now' = now /\ inbox' = inbox /\ reader' = reader
    BY DEF SaveMailbox
  <1>2. new \in Row /\ new.status = "active" /\ new.key = k /\ new.created = now
    BY DEF LifecycleInv, LifecycleTypeOK, NoRow, Row
  <1> HIDE DEF new
  <1>3. LifecycleTypeOK' /\ ReadersAsk'
    BY <1>1, <1>2, UnexpiredType DEF LifecycleInv, LifecycleTypeOK, ReadersAsk
  <1>4. row'[m] = new /\ \A n \in Mailboxes : n # m => row'[n] = row[n]
    BY <1>1 DEF LifecycleInv, LifecycleTypeOK
  <1>5. record'[k] = m /\ \A j \in Keys : j # k => record'[j] = Unexpired[j]
    BY <1>1, UnexpiredType DEF LifecycleInv
  <1>6. \A n \in Mailboxes : row[n].status # "none" /\ row[n].key = k => Over(n)
    BY <1>1, UnexpiredType, LifecycleAssumption DEF LifecycleInv, RecordKept
  <1>7. \A n \in Mailboxes : n # m => (Over(n)' <=> Over(n))
    BY <1>1, <1>4 DEF Over, ExpiresAt
  <1>8. RecordKept'
    <2> SUFFICES ASSUME NEW n \in Mailboxes, row'[n].status # "none"
                 PROVE  /\ row'[n].key \in Keys
                        /\ row'[n].created <= now'
                        /\ ~Over(n)' => record'[row'[n].key] = n
      BY DEF RecordKept
    <2>1. CASE n = m BY <2>1, <1>1, <1>2, <1>4, <1>5 DEF LifecycleInv, LifecycleTypeOK
    <2>2. CASE n # m
      <3>1. /\ row[n].status # "none" /\ row[n].key \in Keys /\ row[n].created <= now
            /\ ~Over(n) => record[row[n].key] = n
        BY <2>2, <1>4 DEF LifecycleInv, RecordKept
      <3>2. ~Over(n) => row[n].key # k /\ Unexpired[row[n].key] = n
        BY <3>1, <1>6, UnexpiredType DEF LifecycleInv
      <3> QED BY <2>2, <3>1, <3>2, <1>1, <1>4, <1>5, <1>7
    <2> QED BY <2>1, <2>2
  <1>9. KeyKeepsMailbox'
    <2>1. \A n \in Mailboxes : n # m /\ row[n].status # "none" /\ row[n].key = k
                               => row[n].created + Ttl <= new.created
      BY <1>2, <1>6 DEF Over, ExpiresAt
    <2> QED BY <2>1, <1>2, <1>4 DEF KeyKeepsMailbox, LifecycleInv
  <1> QED BY <1>3, <1>8, <1>9 DEF LifecycleInv

LEMMA RowsStepHolds ==
    ASSUME LifecycleInv, RowsNext
    PROVE  LifecycleInv'
  <1> USE DEF LifecycleInv
  <1>1. CASE GetIdempotency
    <2>1. LifecycleTypeOK' /\ ReadersAsk'
      BY <1>1, UnexpiredType DEF GetIdempotency, LifecycleTypeOK, ReadersAsk
    <2>2. SameRows /\ now' = now /\ record' = Unexpired BY <1>1 DEF GetIdempotency, SameRows
    <2> QED BY <2>1, <2>2, UnexpiredType, SameRowsHold DEF LifecycleTypeOK
  <1>2. ASSUME NEW m \in Mailboxes, NEW k \in Keys, SaveMailbox(m, k) PROVE LifecycleInv'
    BY <1>2, SaveMailboxHolds
  <1>3. ASSUME NEW m \in Mailboxes, MarkExpired(m) \/ ReleaseMailbox(m) PROVE LifecycleInv'
    <2>1. row' \in [Mailboxes -> Row] /\ SameRows
      BY <1>3, StatusSame DEF MarkExpired, ReleaseMailbox, Exists
    <2>2. UNCHANGED <<now, record, inbox, reader>> BY <1>3 DEF MarkExpired, ReleaseMailbox
    <2>3. LifecycleTypeOK' /\ ReadersAsk'
      BY <2>1, <2>2 DEF LifecycleTypeOK, ReadersAsk
    <2> QED BY <2>1, <2>2, <2>3, SameRowsHold DEF LifecycleTypeOK
  <1>4. ASSUME NEW m \in Mailboxes, Deliver(m) PROVE LifecycleInv'
    <2>1. LifecycleTypeOK' /\ ReadersAsk'
      BY <1>4 DEF Deliver, LifecycleTypeOK, ReadersAsk
    <2>2. SameRows /\ now' = now /\ record' = record BY <1>4 DEF Deliver, SameRows
    <2> QED BY <2>1, <2>2, SameRowsHold DEF LifecycleTypeOK
  <1>5. ASSUME NEW days \in RetentionDays, Cleanup(days) PROVE LifecycleInv'
    <2>1. UNCHANGED <<now, inbox, reader>> BY <1>5 DEF Cleanup
    <2>2. LifecycleTypeOK' /\ ReadersAsk'
      BY <1>5, <2>1, CleanupSame DEF LifecycleTypeOK, ReadersAsk
    <2> QED BY <1>5, <2>1, <2>2, CleanupSame, SameRowsHold DEF LifecycleTypeOK
  <1>6. CASE Tick
    <2>1. LifecycleTypeOK' /\ ReadersAsk'
      BY <1>6 DEF Tick, LifecycleTypeOK, ReadersAsk
    <2>2. SameRows /\ now <= now' /\ record' = record
      BY <1>6 DEF Tick, SameRows, LifecycleTypeOK
    <2> QED BY <2>1, <2>2, SameRowsHold DEF LifecycleTypeOK
  <1> QED BY <1>1, <1>2, <1>3, <1>4, <1>5, <1>6 DEF RowsNext

(* A call reads what it waits for, stores what it finds, and goes on or ends. *)
ReaderStep ==
    /\ UNCHANGED <<now, record, inbox>>
    /\ row' \in [Mailboxes -> Row]
    /\ SameRows
    /\ reader' \in [Readers -> Reader]
    /\ ReadersAsk'

LEMMA ReaderReplaced ==
    ASSUME LifecycleTypeOK, ReadersAsk, NEW r \in Readers, NEW x \in Reader,
           x.stage # "idle" => x.mailbox \in Mailboxes, reader' = [reader EXCEPT ![r] = x]
    PROVE  reader' \in [Readers -> Reader] /\ ReadersAsk'
  BY DEF LifecycleTypeOK, ReadersAsk

LEMMA IdleReader == Idle \in Reader /\ Idle.stage = "idle"
  BY DEF Idle, Reader

LEMMA ReadersStepShape ==
    ASSUME LifecycleTypeOK, ReadersAsk, ReadersNext
    PROVE  ReaderStep
  <1> PICK r \in Readers :
        \/ \E m \in Mailboxes, wait, same \in BOOLEAN : GetVerificationCode(r, m, wait, same)
        \/ EmailList(r) \/ Receive(r) \/ GiveUp(r) \/ PollAgain(r) \/ QueryFails(r)
    BY DEF ReadersNext
  <1> DEFINE m == reader[r].mailbox
  <1>1. reader[r] \in Reader /\ row \in [Mailboxes -> Row] /\ inbox \in [Mailboxes -> Nat]
    BY DEF LifecycleTypeOK
  <1>2. reader[r].seen \in Nat /\ (reader[r].stage # "idle" => m \in Mailboxes)
    BY <1>1 DEF Reader, ReadersAsk
  <1>3. ASSUME NEW b \in Mailboxes, NEW wait \in BOOLEAN, NEW same \in BOOLEAN,
               GetVerificationCode(r, b, wait, same)
        PROVE  ReaderStep
    <2> DEFINE x == [Idle EXCEPT !.stage = "asked", !.mailbox = b, !.wait = wait, !.same = same]
    <2>1. x \in Reader /\ x.mailbox \in Mailboxes BY DEF Idle, Reader
    <2>2. reader' = [reader EXCEPT ![r] = x] /\ UNCHANGED <<now, row, record, inbox>>
      BY <1>3 DEF GetVerificationCode
    <2> HIDE DEF x
    <2> QED BY <1>1, <2>1, <2>2, ReaderReplaced DEF ReaderStep, SameRows
  <1>4. CASE EmailList(r)
    <2> DEFINE x == [reader[r] EXCEPT !.stage = "answered", !.overtaken = FALSE, !.seen = inbox[m]]
    <2>1. x \in Reader /\ x.mailbox = m BY <1>1, <1>2, <1>4 DEF Reader, EmailList
    <2>2. reader' = [reader EXCEPT ![r] = x] /\ UNCHANGED <<now, row, record, inbox>>
      BY <1>1, <1>4 DEF EmailList, Reader, LifecycleTypeOK
    <2>3. m \in Mailboxes BY <1>2, <1>4 DEF EmailList
    <2> HIDE DEF x
    <2> QED BY <1>1, <2>1, <2>2, <2>3, ReaderReplaced DEF ReaderStep, SameRows
  <1>5. CASE Receive(r)
    <2>1. m \in Mailboxes /\ SetVerification(m, "received", reader[r].seen)
      BY <1>2, <1>5 DEF Receive
    <2>2. row' \in [Mailboxes -> Row] /\ SameRows BY <1>2, <2>1, SetVerificationSame
    <2>3. \A q \in Readers : [reader[q] EXCEPT !.overtaken = TRUE] \in Reader
                             /\ [reader[q] EXCEPT !.overtaken = TRUE].mailbox = reader[q].mailbox
                             /\ [reader[q] EXCEPT !.overtaken = TRUE].stage = reader[q].stage
      BY DEF LifecycleTypeOK, Reader
    <2>4. reader' \in [Readers -> Reader] /\ ReadersAsk'
      BY <1>5, <2>3, IdleReader DEF Receive, LifecycleTypeOK, ReadersAsk
    <2> QED BY <1>5, <2>2, <2>4 DEF ReaderStep, Receive
  <1>6. CASE GiveUp(r)
    <2>1. m \in Mailboxes BY <1>2, <1>6 DEF GiveUp
    <2>2. row' \in [Mailboxes -> Row] /\ SameRows
      <3>1. CASE reader[r].wait BY <1>6, <2>1, <3>1, SetVerificationSame DEF GiveUp
      <3>2. CASE ~reader[r].wait BY <1>1, <1>6, <3>2 DEF GiveUp, SameRows
      <3> QED BY <3>1, <3>2
    <2> QED BY <1>6, <2>2, IdleReader, ReaderReplaced DEF ReaderStep, GiveUp
  <1>7. CASE PollAgain(r)
    <2> DEFINE x == [reader[r] EXCEPT !.stage = "asked", !.seen = 0, !.overtaken = FALSE]
    <2>1. x \in Reader /\ x.mailbox = m BY <1>1 DEF Reader
    <2>2. reader' = [reader EXCEPT ![r] = x] /\ UNCHANGED <<now, row, record, inbox>>
      BY <1>7 DEF PollAgain
    <2>3. m \in Mailboxes BY <1>2, <1>7 DEF PollAgain
    <2> HIDE DEF x
    <2> QED BY <1>1, <2>1, <2>2, <2>3, ReaderReplaced DEF ReaderStep, SameRows
  <1>8. CASE QueryFails(r)
    BY <1>1, <1>8, IdleReader, ReaderReplaced DEF QueryFails, ReaderStep, SameRows
  <1> QED BY <1>3, <1>4, <1>5, <1>6, <1>7, <1>8

LEMMA ReadersStepHolds ==
    ASSUME LifecycleInv, ReadersNext
    PROVE  LifecycleInv'
  <1>1. ReaderStep BY ReadersStepShape DEF LifecycleInv
  <1>2. LifecycleTypeOK' BY <1>1 DEF ReaderStep, LifecycleInv, LifecycleTypeOK
  <1>3. RecordKept' /\ KeyKeepsMailbox'
    BY <1>1, SameRowsHold DEF ReaderStep, LifecycleInv, LifecycleTypeOK
  <1> QED BY <1>1, <1>2, <1>3 DEF ReaderStep, LifecycleInv

LEMMA LifecycleStepHolds ==
    ASSUME LifecycleInv, [LifecycleNext]_lifecycleVars
    PROVE  LifecycleInv'
  <1>1. CASE UNCHANGED lifecycleVars
    BY <1>1 DEF lifecycleVars, LifecycleInv, LifecycleTypeOK, ReadersAsk, RecordKept,
                KeyKeepsMailbox, Over, ExpiresAt
  <1> QED BY <1>1, RowsStepHolds, ReadersStepHolds DEF LifecycleNext

-----------------------------------------------------------------------------
(* The inductive invariant of the life of mailboxes.                       *)
THEOREM LifecycleInvariant == LifecycleSpec => []LifecycleInv
  <1>1. LifecycleInit => LifecycleInv BY LifecycleInitHolds
  <1>2. LifecycleInv /\ [LifecycleNext]_lifecycleVars => LifecycleInv' BY LifecycleStepHolds
  <1> QED BY <1>1, <1>2, PTL DEF LifecycleSpec

(* The rows, records and calls are well formed: a verification status is   *)
(* one of the three the code writes, whatever the order of the writers.    *)
THEOREM LifecycleType == LifecycleSpec => []LifecycleTypeOK
  <1>1. LifecycleInv => LifecycleTypeOK BY DEF LifecycleInv
  <1> QED BY <1>1, LifecycleInvariant, PTL

(* While a mailbox's lifetime lasts its key has no other mailbox, for any  *)
(* retention and any lifetime of at most a day: what a retry with the key  *)
(* is answered with never changes under it.                                *)
THEOREM LifecycleKeyKept == LifecycleSpec => []KeyKeepsMailbox
  <1>1. LifecycleInv => KeyKeepsMailbox BY DEF LifecycleInv
  <1> QED BY <1>1, LifecycleInvariant, PTL

-----------------------------------------------------------------------------
(* An answer shows what was in the account when CloudMail looked, and, as  *)
(* long as no other answer was stored since, nothing newer is in the row.  *)
Current(r) ==
    reader[r].stage = "answered"
    => /\ reader[r].seen <= inbox[reader[r].mailbox]
       /\ ~reader[r].overtaken => row[reader[r].mailbox].code <= reader[r].seen

CodesKept ==
    /\ \A m \in Mailboxes : row[m].code <= inbox[m]
    /\ \A r \in Readers : Current(r)

CodesInv == LifecycleTypeOK /\ ReadersAsk /\ CodesKept

(* Only queries store codes: other steps keep them, or clear a new or a    *)
(* deleted row, and no step takes a message away.                          *)
LEMMA RowsKeepCodes ==
    ASSUME LifecycleTypeOK, RowsNext
    PROVE  /\ UNCHANGED reader
           /\ \A m \in Mailboxes : /\ row'[m].code = row[m].code \/ row'[m].code = 0
                                   /\ Exists(m) /\ Exists(m)' => row'[m].code = row[m].code
                                   /\ inbox'[m] \in Nat /\ inbox[m] <= inbox'[m]
  <1> USE DEF LifecycleTypeOK
  <1>1. CASE GetIdempotency BY <1>1 DEF GetIdempotency
  <1>2. ASSUME NEW m \in Mailboxes, NEW k \in Keys, SaveMailbox(m, k)
        PROVE  /\ UNCHANGED <<reader, inbox>>
               /\ \A n \in Mailboxes : row'[n].code = row[n].code \/ row'[n].code = 0
               /\ \A n \in Mailboxes : Exists(n) => row'[n].code = row[n].code
    BY <1>2 DEF SaveMailbox, NoRow, Exists
  <1>3. ASSUME NEW m \in Mailboxes, MarkExpired(m) \/ ReleaseMailbox(m) \/ Deliver(m)
        PROVE  /\ UNCHANGED reader
               /\ \A n \in Mailboxes : /\ row'[n].code = row[n].code
                                       /\ inbox'[n] \in Nat /\ inbox[n] <= inbox'[n]
    BY <1>3 DEF MarkExpired, ReleaseMailbox, Deliver, Row
  <1>4. ASSUME NEW days \in RetentionDays, Cleanup(days)
        PROVE  /\ UNCHANGED <<reader, inbox>>
               /\ \A n \in Mailboxes : /\ row'[n].code = row[n].code \/ row'[n].code = 0
                                       /\ Exists(n)' => row'[n].code = row[n].code
    <2> DEFINE Deleted == {m \in Mailboxes : /\ Marked[m].status \in {"released", "expired"}
                                             /\ row[m].created < Cutoff(days)}
    <2> DEFINE Gone(m) == [NoRow EXCEPT !.status = "removed", !.key = row[m].key,
                                        !.created = row[m].created]
    <2>1. /\ row' = [m \in Mailboxes |-> IF m \in Deleted THEN Gone(m) ELSE Marked[m]]
          /\ UNCHANGED <<reader, inbox>>
      BY <1>4 DEF Cleanup
    <2>2. \A n \in Mailboxes : Marked[n].code = row[n].code BY DEF Marked, Row
    <2>3. \A n \in Mailboxes : Gone(n).code = 0 /\ Gone(n).status = "removed" BY DEF NoRow
    <2> HIDE DEF Deleted, Gone
    <2> QED BY <2>1, <2>2, <2>3 DEF Exists
  <1>5. CASE Tick BY <1>5 DEF Tick
  <1> QED BY <1>1, <1>2, <1>3, <1>4, <1>5 DEF RowsNext

LEMMA RowsHoldCodes ==
    ASSUME CodesInv, RowsNext
    PROVE  CodesKept'
  <1> USE DEF CodesInv, LifecycleTypeOK
  <1>1. \A m \in Mailboxes : row[m].code \in Nat /\ inbox[m] \in Nat BY DEF Row
  <1>2. \A r \in Readers : reader[r].seen \in Nat BY DEF Reader
  <1>3. \A m \in Mailboxes : row'[m].code <= inbox'[m]
    BY <1>1, RowsKeepCodes DEF CodesKept
  <1>4. \A r \in Readers : Current(r)'
    <2> SUFFICES ASSUME NEW r \in Readers, reader[r].stage = "answered" PROVE Current(r)'
      BY RowsKeepCodes DEF Current
    <2>1. reader[r].mailbox \in Mailboxes BY DEF ReadersAsk
    <2>2. Current(r) BY DEF CodesKept
    <2> QED BY <1>1, <1>2, <2>1, <2>2, RowsKeepCodes DEF Current
  <1> QED BY <1>3, <1>4 DEF CodesKept

(* What ReceivedStays says of one step.                                    *)
StaysOnce ==
    \A m \in Mailboxes :
        Exists(m) /\ Exists(m)' /\ row[m].code > row'[m].code
        => \E r \in Readers : /\ reader[r].mailbox = m
                              /\ reader'[r] = Idle
                              /\ reader[r].overtaken \/ ~reader[r].same

(* A step that changes one call and no row keeps the codes if the call's   *)
(* new state does.                                                         *)
LEMMA OneReaderHolds ==
    ASSUME CodesInv, NEW r \in Readers, UNCHANGED <<row, inbox>>, Current(r)',
           \A q \in Readers : q # r => reader'[q] = reader[q]
    PROVE  CodesKept' /\ StaysOnce
  <1>1. \A m \in Mailboxes : row[m].code \in Nat BY DEF CodesInv, LifecycleTypeOK, Row
  <1>2. \A q \in Readers : q # r => Current(q)' BY DEF CodesInv, CodesKept, Current
  <1> QED BY <1>1, <1>2 DEF CodesInv, CodesKept, StaysOnce

LEMMA ReceiveHolds ==
    ASSUME CodesInv, NEW r \in Readers, Receive(r)
    PROVE  CodesKept' /\ StaysOnce
  <1> USE DEF CodesInv, LifecycleTypeOK
  <1> DEFINE m == reader[r].mailbox
  <1>1. /\ m \in Mailboxes /\ reader[r].seen \in Nat
        /\ \A n \in Mailboxes : row[n].code \in Nat /\ inbox[n] \in Nat
    BY DEF Receive, ReadersAsk, Reader, Row
  <1>2. Current(r) /\ reader[r].stage = "answered" BY DEF CodesKept, Receive
  <1>3. inbox' = inbox /\ reader'[r] = Idle BY DEF Receive
  <1>4. /\ \A n \in Mailboxes : n # m => row'[n] = row[n]
        /\ row'[m].code \in {row[m].code, reader[r].seen}
    BY <1>1 DEF Receive, SetVerification, Row
  <1>5. \A n \in Mailboxes : row'[n].code <= inbox'[n]
    BY <1>1, <1>2, <1>3, <1>4 DEF Current, CodesKept
  <1>6. ASSUME NEW q \in Readers PROVE Current(q)'
    <2>1. CASE q = r BY <2>1, <1>3, IdleReader DEF Current
    <2>2. CASE q # r /\ reader[q].stage = "answered" /\ reader[q].mailbox = m
      <3>1. reader'[q] = [reader[q] EXCEPT !.overtaken = TRUE] BY <2>2 DEF Receive
      <3>2. /\ reader'[q].seen = reader[q].seen /\ reader'[q].mailbox = reader[q].mailbox
            /\ reader'[q].overtaken
        BY <3>1 DEF Reader
      <3> QED BY <2>2, <3>2, <1>3 DEF Current, CodesKept
    <2>3. CASE q # r /\ ~(reader[q].stage = "answered" /\ reader[q].mailbox = m)
      <3>1. reader'[q] = reader[q] BY <2>3 DEF Receive
      <3>2. reader[q].stage = "answered" => reader[q].mailbox \in Mailboxes \ {m}
        BY <2>3 DEF ReadersAsk
      <3> QED BY <3>1, <3>2, <1>3, <1>4 DEF Current, CodesKept
    <2> QED BY <2>1, <2>2, <2>3
  <1>7. StaysOnce
    <2> SUFFICES ASSUME NEW n \in Mailboxes, row[n].code > row'[n].code
                 PROVE  n = m /\ reader[r].overtaken
      BY <1>3 DEF StaysOnce
    <2>1. n = m BY <1>1, <1>4
    <2> QED BY <2>1, <1>1, <1>2, <1>4 DEF Current
  <1> QED BY <1>5, <1>6, <1>7 DEF CodesKept

LEMMA GiveUpHolds ==
    ASSUME CodesInv, NEW r \in Readers, GiveUp(r)
    PROVE  CodesKept' /\ StaysOnce
  <1> USE DEF CodesInv, LifecycleTypeOK
  <1> DEFINE m == reader[r].mailbox
  <1>1. /\ m \in Mailboxes /\ reader[r] \in Reader /\ reader[r].seen \in Nat
        /\ \A n \in Mailboxes : row[n].code \in Nat /\ inbox[n] \in Nat
    BY DEF GiveUp, ReadersAsk, Reader, Row
  <1>2. Current(r) /\ reader[r].stage = "answered" /\ ~Recognised(r) BY DEF CodesKept, GiveUp
  <1>3. /\ inbox' = inbox /\ reader'[r] = Idle
        /\ \A q \in Readers : q # r => reader'[q] = reader[q]
    BY DEF GiveUp
  <1>4. /\ \A n \in Mailboxes : n # m => row'[n] = row[n]
        /\ row'[m].code \in {row[m].code, 0}
    BY <1>1 DEF GiveUp, SetVerification, Row
  <1>5. \A n \in Mailboxes : row'[n].code <= inbox'[n]
    BY <1>1, <1>3, <1>4 DEF CodesKept
  <1>6. ASSUME NEW q \in Readers PROVE Current(q)'
    <2>1. CASE q = r BY <2>1, <1>3, IdleReader DEF Current
    <2>2. CASE q # r /\ reader[q].stage = "answered"
      <3>1. reader[q].mailbox \in Mailboxes /\ reader[q].seen \in Nat BY <2>2 DEF ReadersAsk, Reader
      <3>2. row'[reader[q].mailbox].code <= row[reader[q].mailbox].code
        BY <3>1, <1>1, <1>4
      <3>3. row'[reader[q].mailbox].code \in Nat BY <3>1, <1>1, <1>4
      <3> QED BY <2>2, <3>1, <3>2, <3>3, <1>1, <1>3 DEF Current, CodesKept
    <2>3. CASE q # r /\ reader[q].stage # "answered" BY <2>3, <1>3 DEF Current
    <2> QED BY <2>1, <2>2, <2>3
  <1>7. StaysOnce
    <2> SUFFICES ASSUME NEW n \in Mailboxes, row[n].code > row'[n].code
                 PROVE  n = m /\ (reader[r].overtaken \/ ~reader[r].same)
      BY <1>3 DEF StaysOnce
    <2>1. n = m /\ row[n].code > 0 BY <1>1, <1>4
    <2>2. reader[r].same => reader[r].seen = 0 BY <1>1, <1>2 DEF Recognised
    <2> QED BY <2>1, <2>2, <1>1, <1>2 DEF Current
  <1> QED BY <1>5, <1>6, <1>7 DEF CodesKept

LEMMA ReadersHoldCodes ==
    ASSUME CodesInv, ReadersNext
    PROVE  CodesKept' /\ StaysOnce
  <1> USE DEF CodesInv, LifecycleTypeOK
  <1> PICK r \in Readers :
        \/ \E m \in Mailboxes, wait, same \in BOOLEAN : GetVerificationCode(r, m, wait, same)
        \/ EmailList(r) \/ Receive(r) \/ GiveUp(r) \/ PollAgain(r) \/ QueryFails(r)
    BY DEF ReadersNext
  <1>1. reader[r] \in Reader OBVIOUS
  <1>2. CASE \E m \in Mailboxes, wait, same \in BOOLEAN : GetVerificationCode(r, m, wait, same)
    <2>1. Current(r)' BY <1>2, <1>1 DEF GetVerificationCode, Current, Idle
    <2> QED BY <1>2, <2>1, OneReaderHolds DEF GetVerificationCode
  <1>3. CASE EmailList(r)
    <2>1. /\ reader'[r].seen = inbox[reader[r].mailbox]
          /\ reader'[r].mailbox = reader[r].mailbox
          /\ reader[r].mailbox \in Mailboxes
      BY <1>3, <1>1 DEF EmailList, Reader, ReadersAsk
    <2>2. inbox[reader[r].mailbox] \in Nat /\ row[reader[r].mailbox].code <= inbox[reader[r].mailbox]
      BY <2>1 DEF CodesKept
    <2>3. UNCHANGED <<row, inbox>> BY <1>3 DEF EmailList
    <2>4. Current(r)' BY <2>1, <2>2, <2>3 DEF Current
    <2> QED BY <1>3, <2>3, <2>4, OneReaderHolds DEF EmailList
  <1>4. CASE Receive(r) BY <1>4, ReceiveHolds
  <1>5. CASE GiveUp(r) BY <1>5, GiveUpHolds
  <1>6. CASE PollAgain(r)
    <2>1. reader'[r].stage = "asked" BY <1>6, <1>1 DEF PollAgain, Reader
    <2>2. Current(r)' BY <2>1 DEF Current
    <2> QED BY <1>6, <2>2, OneReaderHolds DEF PollAgain
  <1>7. CASE QueryFails(r)
    <2>1. Current(r)' BY <1>7, IdleReader DEF QueryFails, Current
    <2> QED BY <1>7, <2>1, OneReaderHolds DEF QueryFails
  <1> QED BY <1>2, <1>3, <1>4, <1>5, <1>6, <1>7

LEMMA CodesStepHolds ==
    ASSUME LifecycleInv, CodesKept, [LifecycleNext]_lifecycleVars
    PROVE  CodesKept' /\ StaysOnce
  <1>1. CodesInv BY DEF CodesInv, LifecycleInv
  <1>2. \A m \in Mailboxes : row[m].code \in Nat BY <1>1 DEF CodesInv, LifecycleTypeOK, Row
  <1>3. CASE RowsNext
    <2>1. StaysOnce BY <1>1, <1>2, <1>3, RowsKeepCodes DEF StaysOnce, CodesInv
    <2> QED BY <1>1, <1>3, <2>1, RowsHoldCodes
  <1>4. CASE ReadersNext BY <1>1, <1>4, ReadersHoldCodes
  <1>5. CASE UNCHANGED lifecycleVars
    BY <1>1, <1>2, <1>5 DEF lifecycleVars, CodesInv, CodesKept, Current, StaysOnce
  <1> QED BY <1>3, <1>4, <1>5 DEF LifecycleNext

(* A code that was received is replaced by an older one, or erased, only   *)
(* by a query for another purpose or by one whose answer was on the way    *)
(* when the code was stored, for any number of queries and messages.       *)
THEOREM LifecycleReceivedStays == LifecycleSpec => ReceivedStays
  <1>1. LifecycleInit => CodesKept
    BY DEF LifecycleInit, CodesKept, Current, NoRow, Idle
  <1>2. LifecycleInv /\ CodesKept /\ [LifecycleNext]_lifecycleVars
        => CodesKept' /\ [StaysOnce]_lifecycleVars
    BY CodesStepHolds
  <1>3. [StaysOnce]_lifecycleVars
        => [\A m \in Mailboxes :
              Exists(m) /\ Exists(m)' /\ row[m].code > row'[m].code
              => \E r \in Readers : /\ reader[r].mailbox = m
                                    /\ reader'[r] = Idle
                                    /\ reader[r].overtaken \/ ~reader[r].same]_lifecycleVars
    BY DEF StaysOnce
  <1> QED BY <1>1, <1>2, <1>3, LifecycleInvariant, PTL DEF LifecycleSpec, ReceivedStays

-----------------------------------------------------------------------------
(* POP3 access.                                                            *)

Connected == {c \in Conns : session[c].stage # "out"}

(* The slots are counted; that finitely many are taken follows from the    *)
(* limit, so that nothing is assumed of how many clients there are.        *)
SlotsCounted ==
    /\ IsFiniteSet(Connected)
    /\ active = Cardinality(Connected)
    /\ active <= MaxConnections

(* attempts counts the guesses, and a user who is not locked out has one   *)
(* left before the next lockout.                                           *)
Guessing(v) ==
    /\ v.guesses = v.attempts
    /\ v.attempts <= LockThreshold + v.ends
    /\ ~v.locked => v.attempts < LockThreshold + v.ends

GuessesCounted == \A u \in Users : Guessing(user[u])

-----------------------------------------------------------------------------
LEMMA MaxWithZero == ASSUME NEW n \in Nat PROVE Max({0, n}) = n
  <1>1. n \in {0, n} /\ \A y \in {0, n} : n >= y OBVIOUS
  <1>2. \A x \in {0, n} : (\A y \in {0, n} : x >= y) => x = n OBVIOUS
  <1> QED BY <1>1, <1>2 DEF Max

LEMMA NoSessionType == NoSession \in Session /\ NoSession.stage = "out"
  BY Pop3Assumption DEF NoSession, Session

(* A step that keeps every connection keeps the slots.                     *)
LEMMA SameSlots ==
    ASSUME Pop3TypeOK, SlotsCounted, active' = active,
           \A c \in Conns : session'[c].stage = "out" <=> session[c].stage = "out"
    PROVE  SlotsCounted'
  <1>1. Connected' = Connected BY DEF Connected
  <1> QED BY <1>1 DEF SlotsCounted

LEMMA ConnectSlots ==
    ASSUME Pop3TypeOK, SlotsCounted, NEW c \in Conns, Connect(c)
    PROVE  SlotsCounted' /\ Pop3TypeOK'
  <1> DEFINE x == [NoSession EXCEPT !.stage = "auth"]
  <1>1. x \in Session /\ x.stage = "auth" BY NoSessionType DEF NoSession, Session
  <1>2. session' = [session EXCEPT ![c] = x] /\ active' = active + 1 /\ user' = user
        /\ active < MaxConnections /\ session[c].stage = "out"
    BY DEF Connect
  <1> HIDE DEF x
  <1>3. Pop3TypeOK' BY <1>1, <1>2 DEF Pop3TypeOK
  <1>4. Connected' = Connected \union {c} /\ c \notin Connected
    BY <1>1, <1>2 DEF Connected, Pop3TypeOK
  <1>5. IsFiniteSet(Connected') /\ Cardinality(Connected') = Cardinality(Connected) + 1
    BY <1>4, FS_AddElement DEF SlotsCounted
  <1>6. active' <= MaxConnections BY <1>2, Pop3Assumption DEF Pop3TypeOK
  <1> QED BY <1>2, <1>3, <1>5, <1>6 DEF SlotsCounted

LEMMA ClosedSlots ==
    ASSUME Pop3TypeOK, SlotsCounted, NEW c \in Conns, session[c].stage # "out", Closed(c)
    PROVE  SlotsCounted' /\ active' \in Nat /\ session' \in [Conns -> Session]
  <1>1. c \in Connected BY DEF Connected
  <1>2. /\ IsFiniteSet(Connected \ {c})
        /\ Cardinality(Connected \ {c}) = Cardinality(Connected) - 1
        /\ Cardinality(Connected) \in Nat /\ Cardinality(Connected \ {c}) \in Nat
    BY <1>1, FS_RemoveElement, FS_CardinalityType DEF SlotsCounted
  <1>3. active' = active - 1 /\ active' \in Nat
    <2>1. active - 1 \in Nat BY <1>2 DEF SlotsCounted
    <2> QED BY <2>1, MaxWithZero DEF Closed
  <1>4. session' = [session EXCEPT ![c] = NoSession] BY DEF Closed
  <1>5. Connected' = Connected \ {c} BY <1>4, NoSessionType DEF Connected, Pop3TypeOK
  <1>6. session' \in [Conns -> Session] BY <1>4, NoSessionType DEF Pop3TypeOK
  <1>7. active' <= MaxConnections
    BY <1>2, <1>3, Pop3Assumption DEF SlotsCounted, Pop3TypeOK
  <1> QED BY <1>2, <1>3, <1>5, <1>6, <1>7 DEF SlotsCounted

LEMMA FailedSlots ==
    ASSUME Pop3TypeOK, SlotsCounted, NEW c \in Conns, session[c].stage = "auth",
           AuthenticationFailed(c)
    PROVE  SlotsCounted' /\ active' \in Nat /\ session' \in [Conns -> Session]
  <1>1. CASE session[c].failures + 1 >= MaxAuthFailures
    BY <1>1, ClosedSlots DEF AuthenticationFailed
  <1>2. CASE ~(session[c].failures + 1 >= MaxAuthFailures)
    <2> DEFINE x == [session[c] EXCEPT !.name = NoMailbox, !.failures = @ + 1]
    <2>1. session[c] \in Session BY DEF Pop3TypeOK
    <2>2. session[c].failures + 1 \in 0..(MaxAuthFailures - 1)
      BY <1>2, <2>1, Pop3Assumption DEF Session
    <2>3. x \in Session /\ x.stage = "auth" BY <2>1, <2>2 DEF Session
    <2>4. session' = [session EXCEPT ![c] = x] /\ active' = active
      BY <1>2, <2>1 DEF AuthenticationFailed, Pop3TypeOK, Session
    <2> HIDE DEF x
    <2>5. session' \in [Conns -> Session]
          /\ \A d \in Conns : session'[d].stage = "out" <=> session[d].stage = "out"
      BY <2>3, <2>4 DEF Pop3TypeOK
    <2> QED BY <2>4, <2>5, SameSlots DEF Pop3TypeOK
  <1> QED BY <1>1, <1>2

LEMMA LoadingSlots ==
    ASSUME Pop3TypeOK, SlotsCounted, NEW c \in Conns, session[c].stage = "auth",
           NEW admin \in BOOLEAN, BeginLoading(c, admin)
    PROVE  SlotsCounted' /\ active' \in Nat /\ session' \in [Conns -> Session]
  <1> DEFINE x == [session[c] EXCEPT !.stage = "loading", !.admin = admin]
  <1>1. x \in Session /\ x.stage = "loading" BY DEF Pop3TypeOK, Session
  <1>2. session' = [session EXCEPT ![c] = x] /\ active' = active
    BY DEF BeginLoading, Pop3TypeOK, Session
  <1> HIDE DEF x
  <1>3. session' \in [Conns -> Session]
        /\ \A d \in Conns : session'[d].stage = "out" <=> session[d].stage = "out"
    BY <1>1, <1>2 DEF Pop3TypeOK
  <1> QED BY <1>2, <1>3, SameSlots DEF Pop3TypeOK

-----------------------------------------------------------------------------
(* What a step does to the users: one of them changes, to a state that     *)
(* still counts its guesses.                                               *)
LEMMA UserReplaced ==
    ASSUME Pop3TypeOK, GuessesCounted, NEW u \in Users, NEW v \in User, Guessing(v),
           user' = [user EXCEPT ![u] = v]
    PROVE  user' \in [Users -> User] /\ GuessesCounted'
  BY DEF Pop3TypeOK, GuessesCounted

(* A login, and a new code, start the counts again.                        *)
Restarted(v) == [v EXCEPT !.attempts = 0, !.locked = FALSE, !.guesses = 0, !.ends = 0]

LEMMA RestartedUser ==
    ASSUME NEW v \in User, NEW code \in BOOLEAN
    PROVE  /\ Restarted(v) \in User /\ Guessing(Restarted(v))
           /\ [Restarted(v) EXCEPT !.code = code] \in User
           /\ Guessing([Restarted(v) EXCEPT !.code = code])
  <1>1. /\ Restarted(v) \in User
        /\ Restarted(v).attempts = 0 /\ Restarted(v).guesses = 0 /\ Restarted(v).ends = 0
    BY DEF Restarted, User
  <1> DEFINE w == [Restarted(v) EXCEPT !.code = code]
  <1>2. w \in User /\ w.attempts = 0 /\ w.guesses = 0 /\ w.ends = 0
    BY <1>1 DEF User
  <1> HIDE DEF w
  <1>3. Guessing(w) /\ Guessing(Restarted(v)) BY <1>1, <1>2, Pop3Assumption DEF Guessing
  <1> QED BY <1>1, <1>2, <1>3 DEF w

LEMMA ClearedIs ==
    ASSUME Pop3TypeOK, NEW u \in Users, NEW code \in BOOLEAN
    PROVE  /\ Cleared(u) = [user EXCEPT ![u] = Restarted(user[u])]
           /\ [Cleared(u) EXCEPT ![u].code = code]
              = [user EXCEPT ![u] = [Restarted(user[u]) EXCEPT !.code = code]]
  <1>1. user[u] \in User BY DEF Pop3TypeOK
  <1>2. Cleared(u) = [user EXCEPT ![u] = Restarted(user[u])]
    BY <1>1 DEF Cleared, Restarted, Pop3TypeOK, User
  <1>3. Cleared(u)[u] = Restarted(user[u]) BY <1>2 DEF Pop3TypeOK
  <1>4. [Cleared(u) EXCEPT ![u].code = code]
        = [Cleared(u) EXCEPT ![u] = [Cleared(u)[u] EXCEPT !.code = code]]
    OBVIOUS
  <1> HIDE DEF Cleared
  <1>5. \A v : [[user EXCEPT ![u] = Restarted(user[u])] EXCEPT ![u] = v] = [user EXCEPT ![u] = v]
    BY DEF Pop3TypeOK
  <1> QED BY <1>2, <1>3, <1>4, <1>5

-----------------------------------------------------------------------------
Pop3Inv == Pop3TypeOK /\ SlotsCounted /\ GuessesCounted

(* One session changes, without opening or closing its connection.         *)
LEMMA SessionReplaced ==
    ASSUME Pop3Inv, NEW c \in Conns, session[c].stage # "out", NEW x \in Session,
           x.stage # "out", session' = [session EXCEPT ![c] = x], UNCHANGED <<active, user>>
    PROVE  Pop3Inv'
  <1>1. session' \in [Conns -> Session]
        /\ \A d \in Conns : session'[d].stage = "out" <=> session[d].stage = "out"
    BY DEF Pop3Inv, Pop3TypeOK
  <1>2. Pop3TypeOK' BY <1>1 DEF Pop3Inv, Pop3TypeOK
  <1>3. SlotsCounted' BY <1>1, SameSlots DEF Pop3Inv
  <1>4. GuessesCounted' BY DEF Pop3Inv, GuessesCounted
  <1> QED BY <1>2, <1>3, <1>4 DEF Pop3Inv

(* Only users change.                                                      *)
LEMMA OnlyUsers ==
    ASSUME Pop3Inv, NEW u \in Users, NEW v \in User, Guessing(v),
           user' = [user EXCEPT ![u] = v], UNCHANGED <<active, session>>
    PROVE  Pop3Inv'
  <1>1. user' \in [Users -> User] /\ GuessesCounted' BY UserReplaced DEF Pop3Inv
  <1>2. SlotsCounted' BY SameSlots DEF Pop3Inv
  <1> QED BY <1>1, <1>2 DEF Pop3Inv, Pop3TypeOK

LEMMA SameUsers == ASSUME Pop3Inv, UNCHANGED user PROVE GuessesCounted'
  BY DEF Pop3Inv, GuessesCounted

LEMMA DisconnectHolds == ASSUME Pop3Inv, NEW c \in Conns, Disconnect(c) PROVE Pop3Inv'
  <1>1. session[c].stage # "out" /\ Closed(c) /\ user' = user BY DEF Disconnect
  <1> QED BY <1>1, ClosedSlots, SameUsers DEF Pop3Inv, Pop3TypeOK

LEMMA ServerRestartsHolds == ASSUME Pop3Inv, ServerRestarts PROVE Pop3Inv'
  <1>1. active' = 0 /\ session' = [c \in Conns |-> NoSession] /\ user' = user
    BY DEF ServerRestarts
  <1>2. Connected' = {} BY <1>1, NoSessionType DEF Connected
  <1>3. SlotsCounted'
    BY <1>1, <1>2, FS_EmptySet, Pop3Assumption DEF SlotsCounted
  <1> QED BY <1>1, <1>3, NoSessionType, SameUsers DEF Pop3Inv, Pop3TypeOK

LEMMA UserCommandHolds ==
    ASSUME Pop3Inv, NEW c \in Conns, NEW m \in Mailboxes, UserCommand(c, m)
    PROVE  Pop3Inv'
  <1> DEFINE x == [session[c] EXCEPT !.name = m]
  <1>1. x \in Session /\ x.stage = "auth"
    BY DEF UserCommand, Pop3Inv, Pop3TypeOK, Session
  <1>2. session' = [session EXCEPT ![c] = x] /\ session[c].stage = "auth"
        /\ UNCHANGED <<active, user>>
    BY DEF UserCommand
  <1> HIDE DEF x
  <1> QED BY <1>1, <1>2, SessionReplaced

LEMMA LoadedHolds ==
    ASSUME Pop3Inv, NEW c \in Conns, Loaded(c) \/ LoadFails(c)
    PROVE  Pop3Inv'
  <1> DEFINE x == [session[c] EXCEPT !.stage = "open", !.failures = 0]
             y == [session[c] EXCEPT !.stage = "auth", !.admin = FALSE]
  <1>1. session[c] \in Session /\ session[c].stage = "loading"
    BY DEF Loaded, LoadFails, Pop3Inv, Pop3TypeOK
  <1>2. x \in Session /\ x.stage = "open" /\ y \in Session /\ y.stage = "auth"
    <2>1. 0 \in 0..(MaxAuthFailures - 1) BY Pop3Assumption
    <2> QED BY <1>1, <2>1 DEF Session
  <1>3. /\ session' = [session EXCEPT ![c] = x] \/ session' = [session EXCEPT ![c] = y]
        /\ UNCHANGED <<active, user>>
    BY <1>1 DEF Loaded, LoadFails, Pop3Inv, Pop3TypeOK, Session
  <1> HIDE DEF x, y
  <1> QED BY <1>1, <1>2, <1>3, SessionReplaced

LEMMA PassHolds ==
    ASSUME Pop3Inv, NEW c \in Conns,
           PassAdmin(c) \/ PassRefused(c) \/ PassRight(c) \/ PassWrong(c)
    PROVE  Pop3Inv'
  <1>1. session[c].stage = "auth"
    BY DEF PassAdmin, PassRefused, PassRight, PassWrong, Awaiting
  <1>2. \/ AuthenticationFailed(c)
        \/ \E admin \in BOOLEAN : BeginLoading(c, admin)
    BY DEF PassAdmin, PassRefused, PassRight, PassWrong
  <1>3. SlotsCounted' /\ active' \in Nat /\ session' \in [Conns -> Session]
    BY <1>1, <1>2, FailedSlots, LoadingSlots DEF Pop3Inv
  <1>4. user' \in [Users -> User] /\ GuessesCounted'
    <2>1. CASE PassAdmin(c) \/ PassRefused(c)
      BY <2>1, SameUsers DEF PassAdmin, PassRefused, Pop3Inv, Pop3TypeOK
    <2>2. CASE PassRight(c)
      <3> DEFINE u == Owner[session[c].name]
      <3>1. u \in Users
        BY <2>2, Pop3Assumption DEF PassRight, Awaiting, Pop3Inv, Pop3TypeOK, Session
      <3>2. user' = [user EXCEPT ![u] = Restarted(user[u])]
        BY <2>2, <3>1, ClearedIs DEF PassRight, Pop3Inv
      <3>3. user[u] \in User BY <3>1 DEF Pop3Inv, Pop3TypeOK
      <3> HIDE DEF u
      <3> QED BY <3>1, <3>2, <3>3, RestartedUser, UserReplaced DEF Pop3Inv
    <2>3. CASE PassWrong(c)
      <3> DEFINE u == Owner[session[c].name]
                 n == user[u].attempts + 1
                 v == [user[u] EXCEPT !.attempts = n, !.guesses = user[u].guesses + 1,
                                      !.locked = n >= LockThreshold]
      <3>1. u \in Users
        BY <2>3, Pop3Assumption DEF PassWrong, Awaiting, Pop3Inv, Pop3TypeOK, Session
      <3>2. user[u] \in User /\ Guessing(user[u]) /\ ~user[u].locked
        BY <2>3, <3>1 DEF Pop3Inv, Pop3TypeOK, GuessesCounted, PassWrong, MayVerify
      <3>3. v \in User
        <4>1. n \in Nat /\ user[u].guesses + 1 \in Nat /\ (n >= LockThreshold) \in BOOLEAN
          BY <3>2 DEF User
        <4> HIDE DEF n
        <4> QED BY <3>2, <4>1 DEF User
      <3>4. /\ v.attempts = n /\ v.guesses = user[u].guesses + 1 /\ v.ends = user[u].ends
            /\ v.locked <=> n >= LockThreshold
        BY <3>2 DEF User
      <3>5. user' = [user EXCEPT ![u] = v]
        BY <2>3, <3>1 DEF PassWrong, Pop3Inv, Pop3TypeOK, User
      <3> HIDE DEF v
      <3>6. Guessing(v) BY <3>2, <3>4, Pop3Assumption DEF Guessing, User
      <3> HIDE DEF u
      <3> QED BY <3>1, <3>3, <3>5, <3>6, UserReplaced DEF Pop3Inv
    <2> QED BY <2>1, <2>2, <2>3
  <1> QED BY <1>3, <1>4 DEF Pop3Inv, Pop3TypeOK

LEMMA UserStepHolds ==
    ASSUME Pop3Inv, NEW u \in Users,
           \/ \E b \in BOOLEAN : SetAuthCode(u, b) \/ SetUserEnabled(u, b)
           \/ LockRunsOut(u)
    PROVE  Pop3Inv'
  <1>1. user[u] \in User /\ Guessing(user[u]) BY DEF Pop3Inv, Pop3TypeOK, GuessesCounted
  <1>2. ASSUME NEW b \in BOOLEAN, SetAuthCode(u, b) PROVE Pop3Inv'
    <2>1. user' = [user EXCEPT ![u] = [Restarted(user[u]) EXCEPT !.code = b]]
          /\ UNCHANGED <<active, session>>
      BY <1>2, ClearedIs DEF SetAuthCode, Pop3Inv
    <2> QED BY <1>1, <2>1, RestartedUser, OnlyUsers
  <1>3. ASSUME NEW b \in BOOLEAN, SetUserEnabled(u, b) PROVE Pop3Inv'
    <2> DEFINE v == [user[u] EXCEPT !.enabled = b]
    <2>1. v \in User /\ Guessing(v) BY <1>1 DEF User, Guessing
    <2>2. user' = [user EXCEPT ![u] = v] /\ UNCHANGED <<active, session>>
      BY <1>3 DEF SetUserEnabled
    <2> HIDE DEF v
    <2> QED BY <2>1, <2>2, OnlyUsers
  <1>4. ASSUME LockRunsOut(u) PROVE Pop3Inv'
    <2> DEFINE v == [user[u] EXCEPT !.locked = FALSE, !.ends = user[u].ends + 1]
    <2>1. v \in User /\ v.attempts = user[u].attempts /\ v.guesses = user[u].guesses
          /\ v.ends = user[u].ends + 1
      <3>1. user[u].ends + 1 \in Nat BY <1>1 DEF User
      <3> QED BY <1>1, <3>1 DEF User
    <2>2. user' = [user EXCEPT ![u] = v] /\ UNCHANGED <<active, session>>
      BY <1>1, <1>4 DEF LockRunsOut, User, Pop3Inv, Pop3TypeOK
    <2> HIDE DEF v
    <2>3. Guessing(v) BY <1>1, <2>1, Pop3Assumption DEF Guessing, User
    <2> QED BY <2>1, <2>2, <2>3, OnlyUsers
  <1> QED BY <1>2, <1>3, <1>4

LEMMA Pop3StepHolds == ASSUME Pop3Inv, Pop3Next PROVE Pop3Inv'
  <1>1. ASSUME NEW c \in Conns, Connect(c) PROVE Pop3Inv'
    BY <1>1, ConnectSlots, SameUsers DEF Pop3Inv, Connect
  <1> QED
    BY <1>1, DisconnectHolds, ServerRestartsHolds, UserCommandHolds, LoadedHolds, PassHolds,
       UserStepHolds DEF Pop3Next

LEMMA Pop3StepKeepsLifecycle == Pop3Next => UNCHANGED lifecycleVars
  BY DEF Pop3Next, Connect, Disconnect, UserCommand, PassAdmin, PassRefused, PassRight, PassWrong,
         Loaded, LoadFails, SetAuthCode, SetUserEnabled, LockRunsOut, ServerRestarts

LEMMA AccessStepShape ==
    [AccessNext]_accessVars => /\ [LifecycleNext]_lifecycleVars
                               /\ Pop3Next \/ UNCHANGED pop3Vars
  BY Pop3StepKeepsLifecycle DEF AccessNext, accessVars, lifecycleVars, pop3Vars

LEMMA Pop3Stutters == ASSUME Pop3Inv, UNCHANGED pop3Vars PROVE Pop3Inv'
  <1>1. SlotsCounted' BY SameSlots DEF Pop3Inv, pop3Vars
  <1> QED BY <1>1 DEF Pop3Inv, Pop3TypeOK, GuessesCounted, pop3Vars

LEMMA Pop3InitHolds == Pop3Init => Pop3Inv
  <1> SUFFICES ASSUME Pop3Init PROVE Pop3Inv OBVIOUS
  <1>1. Connected = {} BY NoSessionType DEF Connected, Pop3Init
  <1>2. SlotsCounted BY <1>1, FS_EmptySet, Pop3Assumption DEF SlotsCounted, Pop3Init
  <1>3. Pop3TypeOK BY NoSessionType DEF Pop3Init, Pop3TypeOK, User
  <1>4. GuessesCounted BY Pop3Assumption DEF Pop3Init, GuessesCounted, Guessing
  <1> QED BY <1>2, <1>3, <1>4 DEF Pop3Inv

-----------------------------------------------------------------------------
Closing(m) == row[m].status \in {"released", "removed"}

(* A mailbox that was released, or removed, stays so.                      *)
LEMMA ClosedForGood ==
    ASSUME LifecycleTypeOK, ReadersAsk, [LifecycleNext]_lifecycleVars,
           NEW m \in Mailboxes, Closing(m)
    PROVE  Closing(m)'
  <1> USE DEF LifecycleTypeOK, Closing
  <1>1. CASE ReadersNext
    <2> PICK r \in Readers :
          \/ \E b \in Mailboxes, wait, same \in BOOLEAN : GetVerificationCode(r, b, wait, same)
          \/ EmailList(r) \/ Receive(r) \/ GiveUp(r) \/ PollAgain(r) \/ QueryFails(r)
      BY <1>1 DEF ReadersNext
    <2>1. \/ UNCHANGED row
          \/ /\ reader[r].stage = "answered"
             /\ \E s, code : SetVerification(reader[r].mailbox, s, code)
      BY DEF GetVerificationCode, EmailList, Receive, GiveUp, PollAgain, QueryFails
    <2>2. ASSUME NEW b \in Mailboxes, NEW s, NEW code, SetVerification(b, s, code)
          PROVE  row'[m].status = row[m].status
      BY <2>2 DEF SetVerification, Row
    <2> QED BY <2>1, <2>2 DEF ReadersAsk
  <1>2. ASSUME NEW n \in Mailboxes, NEW k \in Keys, SaveMailbox(n, k) PROVE Closing(m)'
    BY <1>2 DEF SaveMailbox
  <1>3. ASSUME NEW n \in Mailboxes, MarkExpired(n) \/ ReleaseMailbox(n) \/ Deliver(n)
        PROVE  Closing(m)'
    BY <1>3 DEF MarkExpired, ReleaseMailbox, Deliver, Row
  <1>4. ASSUME NEW days \in RetentionDays, Cleanup(days) PROVE Closing(m)'
    <2> DEFINE Deleted == {n \in Mailboxes : /\ Marked[n].status \in {"released", "expired"}
                                             /\ row[n].created < Cutoff(days)}
    <2> DEFINE Gone(n) == [NoRow EXCEPT !.status = "removed", !.key = row[n].key,
                                        !.created = row[n].created]
    <2>1. row' = [n \in Mailboxes |-> IF n \in Deleted THEN Gone(n) ELSE Marked[n]]
      BY <1>4 DEF Cleanup
    <2>2. Gone(m).status = "removed" BY DEF NoRow
    <2>3. Marked[m].status = row[m].status BY DEF Marked
    <2> HIDE DEF Deleted, Gone
    <2> QED BY <2>1, <2>2, <2>3
  <1>5. CASE GetIdempotency \/ Tick \/ UNCHANGED lifecycleVars
    BY <1>5 DEF GetIdempotency, Tick, lifecycleVars
  <1> QED BY <1>1, <1>2, <1>3, <1>4, <1>5 DEF LifecycleNext, RowsNext

(* No client that is not the administrator is reading m.                   *)
Reading(c, m) ==
    session[c].name = m /\ ~session[c].admin /\ session[c].stage \in {"loading", "open"}

LEMMA NobodyStartsReading ==
    ASSUME Pop3Inv, Pop3Next, NEW m \in Mailboxes, Closing(m),
           NEW c \in Conns, ~Reading(c, m)
    PROVE  ~Reading(c, m)'
  <1> USE DEF Pop3Inv, Pop3TypeOK
  <1>1. session[c] \in Session OBVIOUS
  <1>2. ASSUME NEW d \in Conns, Closed(d) PROVE ~Reading(c, m)'
    BY <1>2, NoSessionType DEF Closed, Reading
  <1>3. ASSUME NEW d \in Conns, session[d].stage = "auth", AuthenticationFailed(d)
        PROVE  ~Reading(c, m)'
    BY <1>1, <1>2, <1>3 DEF AuthenticationFailed, Reading, Session
  <1>4. ASSUME NEW d \in Conns, BeginLoading(d, TRUE) PROVE ~Reading(c, m)'
    BY <1>1, <1>4 DEF BeginLoading, Reading, Session
  <1>5. ASSUME NEW d \in Conns, Readable(session[d].name), BeginLoading(d, FALSE)
        PROVE  ~Reading(c, m)'
    BY <1>1, <1>5 DEF BeginLoading, Reading, Session, Readable, Closing
  <1>6. ASSUME NEW d \in Conns, PassAdmin(d) \/ PassRefused(d) \/ PassRight(d) \/ PassWrong(d)
        PROVE  ~Reading(c, m)'
    BY <1>3, <1>4, <1>5, <1>6 DEF PassAdmin, PassRefused, PassRight, PassWrong, Awaiting
  <1>7. ASSUME NEW d \in Conns, Connect(d) PROVE ~Reading(c, m)'
    BY <1>7, <1>1 DEF Connect, Reading, NoSession, Session
  <1>8. ASSUME NEW d \in Conns, NEW n \in Mailboxes, UserCommand(d, n) PROVE ~Reading(c, m)'
    BY <1>8, <1>1 DEF UserCommand, Reading, Session
  <1>9. ASSUME NEW d \in Conns, Loaded(d) \/ LoadFails(d) PROVE ~Reading(c, m)'
    BY <1>9, <1>1 DEF Loaded, LoadFails, Reading, Session
  <1>10. CASE ServerRestarts BY <1>10, NoSessionType DEF ServerRestarts, Reading
  <1>11. CASE UNCHANGED session BY <1>11 DEF Reading
  <1> QED
    BY <1>2, <1>6, <1>7, <1>8, <1>9, <1>10, <1>11
    DEF Pop3Next, Disconnect, SetAuthCode, SetUserEnabled, LockRunsOut

LEMMA OutOfReachStays ==
    ASSUME Pop3Inv, LifecycleTypeOK, ReadersAsk, [AccessNext]_accessVars,
           NEW m \in Mailboxes, OutOfReach(m)
    PROVE  OutOfReach(m)'
  <1>1. Closing(m) /\ \A c \in Conns : ~Reading(c, m) BY DEF OutOfReach, Closing, Reading
  <1>2. Closing(m)' BY <1>1, AccessStepShape, ClosedForGood
  <1>3. ASSUME NEW c \in Conns PROVE ~Reading(c, m)'
    <2>1. CASE Pop3Next BY <1>1, <2>1, NobodyStartsReading
    <2>2. CASE UNCHANGED pop3Vars BY <1>1, <2>2 DEF pop3Vars, Reading
    <2> QED BY <2>1, <2>2, AccessStepShape
  <1> QED BY <1>2, <1>3 DEF OutOfReach, Closing, Reading

-----------------------------------------------------------------------------
(* With POP3 beside it, the life of mailboxes is as before.                *)
THEOREM AccessKeepsLifecycle == AccessSpec => LifecycleSpec
  <1>1. Pop3Init => LifecycleInit BY DEF Pop3Init
  <1>2. [AccessNext]_accessVars => [LifecycleNext]_lifecycleVars BY AccessStepShape
  <1> QED BY <1>1, <1>2, PTL DEF AccessSpec, LifecycleSpec

(* The inductive invariant of POP3 access.                                 *)
THEOREM AccessInvariant == AccessSpec => []Pop3Inv
  <1>1. Pop3Init => Pop3Inv BY Pop3InitHolds
  <1>2. Pop3Inv /\ [AccessNext]_accessVars => Pop3Inv'
    BY AccessStepShape, Pop3StepHolds, Pop3Stutters
  <1> QED BY <1>1, <1>2, PTL DEF AccessSpec

(* Sessions and users are well formed: no session survives the last failed *)
(* login it is allowed.                                                    *)
THEOREM AccessType == AccessSpec => []Pop3TypeOK
  <1>1. Pop3Inv => Pop3TypeOK BY DEF Pop3Inv
  <1> QED BY <1>1, AccessInvariant, PTL

(* The number of connections is counted exactly and kept within the limit, *)
(* through refusals, failed logins, lost clients and restarts.             *)
THEOREM AccessCounted == AccessSpec => []ConnectionsExact
  <1>1. Pop3Inv => ConnectionsExact BY DEF Pop3Inv, SlotsCounted, Connected, ConnectionsExact
  <1> QED BY <1>1, AccessInvariant, PTL

(* A user's code is compared with at most LockThreshold wrong guesses, and *)
(* one more for each lockout that ran out, however many clients guess.     *)
THEOREM AccessGuessesBounded == AccessSpec => []GuessesBounded
  <1>1. Pop3Inv => GuessesBounded
    <2> SUFFICES ASSUME Pop3Inv, NEW u \in Users
                 PROVE  user[u].guesses <= LockThreshold + user[u].ends
      BY DEF GuessesBounded
    <2> QED BY DEF Pop3Inv, GuessesCounted, Guessing
  <1> QED BY <1>1, AccessInvariant, PTL

(* A mailbox that was released or removed, and that no user is reading, is *)
(* never read by a user again.                                             *)
THEOREM AccessReleasedForGood == AccessSpec => ReleasedForGood
  <1>1. Pop3Inv /\ LifecycleInv /\ [AccessNext]_accessVars
        => [\A m \in Mailboxes : OutOfReach(m) => OutOfReach(m)']_accessVars
    BY OutOfReachStays DEF LifecycleInv
  <1> QED BY <1>1, AccessInvariant, AccessKeepsLifecycle, LifecycleInvariant, PTL
          DEF AccessSpec, ReleasedForGood
===============================================================================
