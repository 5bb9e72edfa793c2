--------------------------- MODULE MailboxCreation ---------------------------
(***************************************************************************)
(* MailboxGatewayService.create_mailbox and _create_mailbox                *)
(* (mailbox_service.py) over the credit ledger, the domain pool, the       *)
(* idempotency records and the CloudMail servers.                          *)
(*                                                                         *)
(* A task is one call of create_mailbox.  Tasks interleave only where the  *)
(* code awaits: before it asks for the client of the next candidate ("next")*)
(* and while addUser is unanswered ("call").  Between two awaits a task    *)
(* runs alone, but each of its database transactions commits by itself:    *)
(* those stages ("failed", "save", "confirm", "mark", "refund") are steps  *)
(* of their own so that a crash of the process, or an exception of the     *)
(* database, can fall between them; cpu names the task that is running.    *)
(*                                                                         *)
(* A call that waits for the lock of its key has done nothing yet, so it   *)
(* appears here when it enters the section; the lock itself is module      *)
(* IdempotencyLocks, used through what it implements, KeyedMutex.  A key   *)
(* is the internal one, <<user, key>> (create_mailbox, "user:{id}:{key}"). *)
(***************************************************************************)
EXTENDS CreditLedger, DomainHealth

CONSTANTS
    Tasks,          \* calls of create_mailbox that run at a time
    Keys,           \* values of the Idempotency-Key header
    Requests,       \* requests: [strict, wanted], see Request
    Earlier,        \* failures in a row that earlier calls left on the domains
    MaxIds,         \* bound: attempts that get as far as a mailbox id
    MaxCrashes,     \* bound: restarts of the process and cancelled calls
    MaxDbFaults,    \* bound: failing transactions
    MaxFaults,      \* bound: both together
    MaxAdmin,       \* bound: the administrator's changes of domains and instances
    NoTask, NoKey, NoJob, NoRecord, NoMailbox

Ids == 1..MaxIds
SectionKeys == Users \X Keys
IdRef(n) == <<"mbx", n>>

(* strict: the request names one domain; wanted: the domains it may get.   *)
(* The other fields matter only through the request hash: requests that    *)
(* differ are different elements of Requests.                              *)
Request == [strict : BOOLEAN, wanted : SUBSET Domains]

ASSUME CreationAssumption ==
    /\ {MaxIds, MaxCrashes, MaxDbFaults, MaxFaults, MaxAdmin} \subseteq Nat
    /\ Requests \subseteq Request
    /\ Earlier \subseteq [Domains -> 0 .. Threshold - 1]
    /\ Refs = SectionKeys \union {IdRef(n) : n \in Ids}
    /\ \A n \in Ids : IdRef(n) \notin SectionKeys    \* uuid4, not a user's key
    /\ NoKey \notin SectionKeys
    /\ NoTask \notin Tasks
    /\ IsFiniteSet(Tasks)               \* the requests a process is working on

VARIABLES
    holder,         \* the key sections, see KeyedMutex
    pc, job,        \* stage and local variables of a task
    cpu,            \* the task that runs between two awaits, or NoTask
    idem,           \* idempotency_records
    mailboxes,      \* mailboxes
    lastId,         \* mailbox ids drawn so far (uuid4)
    calls,          \* addUser calls CloudMail has not answered
    upstream,       \* accounts that exist on CloudMail
    faults          \* what went wrong so far: bounds and premises of properties

Mutex == INSTANCE KeyedMutex WITH Keys <- SectionKeys

storeVars == <<idem, mailboxes>>
taskVars == <<holder, pc, job, cpu>>
cloudVars == <<calls, upstream>>
creationVars == <<ledgerVars, domainVars, taskVars, storeVars, cloudVars, lastId, faults>>

Stages == {"idle", "next", "call", "failed", "save", "confirm", "mark", "refund"}

Job == [user : Users, key : SectionKeys \union {NoKey}, request : Requests,
        id : Ids, cands : Seq(Domains \X Instances), retryable : BOOLEAN, charged : BOOLEAN]

(* An upstream account is named by the attempt and the candidate it is of: *)
(* an attempt visits a domain once, and an address CloudMail refused as    *)
(* taken is never created.                                                 *)
Addresses == Ids \X Domains \X Instances

Mailbox == [owner : Users, ref : Refs, domain : Domains,
            instance : Instances, live : BOOLEAN]
Record == [request : Requests, id : Ids]

ASSUME RowAssumption == NoRecord \notin Record /\ NoMailbox \notin Mailbox

CreationTypeOK ==
    /\ LedgerTypeOK /\ DomainTypeOK
    /\ holder \in [SectionKeys -> Tasks \union {NoTask}]
    /\ pc \in [Tasks -> Stages]
    /\ job \in [Tasks -> Job \union {NoJob}]
    /\ cpu \in Tasks \union {NoTask}
    /\ idem \in [SectionKeys -> Record \union {NoRecord}]
    /\ mailboxes \in [Ids -> Mailbox \union {NoMailbox}]
    /\ lastId \in 0..MaxIds
    /\ calls \subseteq Addresses /\ upstream \subseteq Addresses
    /\ faults \in [crashes : 0..MaxCrashes, db : 0..MaxDbFaults,
                   admin : 0..MaxAdmin, expiry : BOOLEAN]

(* A configured pool of domains, each on one of the instances there are,   *)
(* which may have failed before, though not so often as to cool down;      *)
(* users and their points come from the ledger's own actions.              *)
CreationInit ==
    /\ LedgerInit
    /\ instances \in [Instances -> {NewInstance, NoInstance}]
    /\ domains \in {[d \in Domains |-> [NewDomain(f[d]) EXCEPT !.failures = n[d]]] :
                       f \in [Domains -> {i \in Instances : instances[i] # NoInstance}],
                       n \in Earlier}
    /\ Mutex!MutexInit
    /\ pc = [t \in Tasks |-> "idle"]
    /\ job = [t \in Tasks |-> NoJob]
    /\ cpu = NoTask
    /\ idem = [k \in SectionKeys |-> NoRecord]
    /\ mailboxes = [n \in Ids |-> NoMailbox]
    /\ lastId = 0
    /\ calls = {} /\ upstream = {}
    /\ faults = [crashes |-> 0, db |-> 0, admin |-> 0, expiry |-> FALSE]

-----------------------------------------------------------------------------
(* credit_reference: the idempotency key or, without one, the mailbox id.  *)
RefOf(key, id) == IF key = NoKey THEN IdRef(id) ELSE key
JobRef(t) == RefOf(job[t].key, job[t].id)

(* The record of a key and the mailbox it names expire at the same time.   *)
Expired(k) == idem[k] # NoRecord /\ ~mailboxes[idem[k].id].live

(* Mutant: the DELETE forgets the condition on expires_at.                 *)
PurgedWhole == [k \in SectionKeys |-> NoRecord]

(* get_idempotency first deletes every expired record, of whatever key.    *)
Purged == [k \in SectionKeys |-> IF Expired(k) THEN NoRecord ELSE idem[k]]

Idle(t) == pc[t] = "idle" /\ cpu = NoTask

(* Mutant: the record of the key is not looked up.                         *)
KnownNever(key) == FALSE

(* The key is answered by an earlier mailbox: the request is replayed, or  *)
(* refused with IDEMPOTENCY_CONFLICT if it differs from the first one.     *)
Known(key) == key # NoKey /\ Purged[key] # NoRecord

SectionFree(key) == key # NoKey => holder[key] = NoTask

(* A call that ends before anything is charged: replay, conflict, no       *)
(* available domain, or a refused reservation.  Only the purge of the      *)
(* records remains of it.                                                  *)
AnswerAtOnce(t, u, key, req) ==
    /\ Idle(t) /\ SectionFree(key)
    /\ \/ Known(key)
       \/ Candidates(req.wanted) = {<<>>}
       \/ lastId < MaxIds /\ ReserveRefused(u, RefOf(key, lastId + 1))
    /\ idem' = IF key = NoKey THEN idem ELSE Purged
    /\ UNCHANGED <<ledgerVars, domainVars, taskVars, mailboxes, cloudVars, lastId, faults>>

(* A call that has to create: it enters its section, picks candidates and  *)
(* reserves the price, and awaits the client of the first candidate.       *)
Begin(t, u, key, req) ==
    /\ Idle(t) /\ SectionFree(key)
    /\ lastId < MaxIds
    /\ ~Known(key)
    /\ \E cands \in Candidates(req.wanted) :
          /\ cands # <<>>
          /\ job' = [job EXCEPT ![t] =
                       [user |-> u, key |-> key, request |-> req, id |-> lastId + 1,
                        cands |-> cands, retryable |-> FALSE, charged |-> TRUE]]
    /\ Reserve(u, RefOf(key, lastId + 1))
    /\ lastId' = lastId + 1
    /\ idem' = IF key = NoKey THEN idem ELSE Purged
    /\ IF key = NoKey THEN UNCHANGED holder ELSE Mutex!EnterSection(t, key)
    /\ pc' = [pc EXCEPT ![t] = "next"]
    /\ UNCHANGED <<domainVars, cpu, mailboxes, cloudVars, faults>>

-----------------------------------------------------------------------------
(* The candidate of task t: a domain and the instance it was on when the   *)
(* candidates were picked.                                                 *)
CandDomain(t) == Head(job[t].cands)[1]
CandInstance(t) == Head(job[t].cands)[2]

Address(t) == <<job[t].id, CandDomain(t), CandInstance(t)>>

(* Task t is scheduled at an await of stage s, or goes on running there.   *)
Awaits(t, s) == pc[t] = s /\ cpu = NoTask
Runs(t, s) == pc[t] = s /\ cpu = t

(* The task stops running at the await of stage s / runs on to stage s.    *)
Await(t, s) == pc' = [pc EXCEPT ![t] = s] /\ cpu' = NoTask
RunTo(t, s) == pc' = [pc EXCEPT ![t] = s] /\ cpu' = t

(* Mutant: a domain that fails is tried again without end.                 *)
NextForever(t, retryable) ==
    IF job[t].request.strict \/ ~retryable
    THEN RunTo(t, "refund") /\ UNCHANGED job
    ELSE Await(t, "next") /\ UNCHANGED job

(* The candidate failed: take the next one, unless the request is for one  *)
(* domain only, the error forbids a retry, or there is none left.          *)
NextOrGiveUp(t, retryable) ==
    LET rest == Tail(job[t].cands) IN
    IF job[t].request.strict \/ ~retryable \/ rest = <<>>
    THEN RunTo(t, "refund") /\ UNCHANGED job
    ELSE Await(t, "next") /\ job' = [job EXCEPT ![t].cands = rest]

(* addUser is sent to the candidate's instance.                            *)
Send(t) ==
    /\ Awaits(t, "next")
    /\ Await(t, "call")
    /\ calls' = calls \union {Address(t)}
    /\ UNCHANGED <<ledgerVars, domainVars, holder, job, storeVars, upstream, lastId, faults>>

(* There is no usable client: it was closed by a change of the instance's  *)
(* configuration before addUser, or before its repetition with a new token.*)
(* That is not a ProviderRequestError, so the call gives up.               *)
ClientFails(t) ==
    /\ Awaits(t, "next") \/ (Awaits(t, "call") /\ Address(t) \in calls)
    /\ calls' = calls \ {Address(t)}
    /\ RunTo(t, "refund")
    /\ UNCHANGED <<ledgerVars, domainVars, holder, job, storeVars, upstream, lastId, faults>>

(* CloudMail creates the account of a call, at once or when nobody waits   *)
(* for it any more.                                                        *)
UpstreamCreates(a) ==
    /\ a \in calls /\ cpu = NoTask
    /\ calls' = calls \ {a}
    /\ upstream' = upstream \union {a}
    /\ UNCHANGED <<ledgerVars, domainVars, taskVars, storeVars, lastId, faults>>

(* The answer of a created account arrives.                                *)
Created(t) ==
    /\ Awaits(t, "call")
    /\ Address(t) \in upstream
    /\ RunTo(t, "save")
    /\ UNCHANGED <<ledgerVars, domainVars, holder, job, storeVars, cloudVars, lastId, faults>>

(* All addresses tried under the candidate are taken (max_address_attempts *)
(* answers "already exists"): the domain is not to blame.                  *)
Collides(t) ==
    /\ Awaits(t, "call")
    /\ Address(t) \in calls
    /\ calls' = calls \ {Address(t)}
    /\ NextOrGiveUp(t, TRUE)
    /\ UNCHANGED <<ledgerVars, domainVars, holder, storeVars, upstream, lastId, faults>>

(* CloudMail, or the way to its token, refuses the call.                   *)
Refused(t, retryable) ==
    /\ Awaits(t, "call")
    /\ Address(t) \in calls
    /\ calls' = calls \ {Address(t)}
    /\ RunTo(t, "failed")
    /\ job' = [job EXCEPT ![t].retryable = retryable]
    /\ UNCHANGED <<ledgerVars, domainVars, holder, storeVars, upstream, lastId, faults>>

(* No answer in time (retryable), or one that is not JSON (not retryable): *)
(* the account may exist, or still be created.                             *)
NoAnswer(t, retryable) ==
    /\ Awaits(t, "call")
    /\ RunTo(t, "failed")
    /\ job' = [job EXCEPT ![t].retryable = retryable]
    /\ UNCHANGED <<ledgerVars, domainVars, holder, storeVars, cloudVars, lastId, faults>>

(* except ProviderRequestError: the domain is marked and the next candidate*)
(* tried, whether CloudMail refused or did not answer.                     *)
Fail(t) ==
    /\ Runs(t, "failed")
    /\ MarkFailure(CandDomain(t))
    /\ NextOrGiveUp(t, job[t].retryable)
    /\ UNCHANGED <<ledgerVars, holder, storeVars, cloudVars, lastId, faults>>

(* Mutant: the mailbox is recorded under the instance its domain is on now.*)
SavedAtPresent(t) == domains[CandDomain(t)].instance

(* The candidate's instance, as the router read it before the call.        *)
SavedInstance(t) == CandInstance(t)

(* save_mailbox: the mailbox and the record of its key, in one transaction;*)
(* the foreign keys of the mailbox and the primary key of the record hold. *)
CanSave(t) ==
    /\ domains[CandDomain(t)] # NoDomain /\ instances[CandInstance(t)] # NoInstance
    /\ job[t].key # NoKey => idem[job[t].key] = NoRecord

Save(t) ==
    /\ Runs(t, "save")
    /\ CanSave(t)
    /\ mailboxes' = [mailboxes EXCEPT ![job[t].id] =
                       [owner |-> job[t].user, ref |-> JobRef(t),
                        domain |-> CandDomain(t), instance |-> SavedInstance(t),
                        live |-> TRUE]]
    /\ idem' = IF job[t].key = NoKey THEN idem
               ELSE [idem EXCEPT ![job[t].key] = [request |-> job[t].request, id |-> job[t].id]]
    /\ RunTo(t, "confirm")
    /\ UNCHANGED <<ledgerVars, domainVars, holder, job, cloudVars, lastId, faults>>

(* Mutant: the refused row goes unnoticed.                                 *)
SaveRefusedIgnored(t) ==
    /\ Runs(t, "save")
    /\ ~CanSave(t)
    /\ RunTo(t, "confirm")
    /\ UNCHANGED <<ledgerVars, domainVars, holder, job, storeVars, cloudVars, lastId, faults>>

(* A constraint of the database refuses the row.                           *)
SaveRefused(t) ==
    /\ Runs(t, "save")
    /\ ~CanSave(t)
    /\ RunTo(t, "refund")
    /\ UNCHANGED <<ledgerVars, domainVars, holder, job, storeVars, cloudVars, lastId, faults>>

(* confirm_mailbox_credit; from here on nothing is refunded.               *)
ConfirmCredit(t) ==
    /\ Runs(t, "confirm")
    /\ Confirm(job[t].user, JobRef(t))
    /\ job' = [job EXCEPT ![t].charged = FALSE]
    /\ RunTo(t, "mark")
    /\ UNCHANGED <<domainVars, holder, storeVars, cloudVars, lastId, faults>>

(* The call ends, with a result or an error, and leaves its section.       *)
End(t) ==
    /\ Await(t, "idle")
    /\ job' = [job EXCEPT ![t] = NoJob]
    /\ IF job[t].key = NoKey THEN UNCHANGED holder
       ELSE Mutex!LeaveSection(t, job[t].key)

(* mark_domain_success and the answer to the caller.                       *)
Finish(t) ==
    /\ Runs(t, "mark")
    /\ MarkSuccess(CandDomain(t))
    /\ End(t)
    /\ UNCHANGED <<ledgerVars, storeVars, cloudVars, lastId, faults>>

(* Mutant: an except clause that only raises.                              *)
GiveBackNothing(t) ==
    /\ Runs(t, "refund")
    /\ End(t)
    /\ UNCHANGED <<ledgerVars, domainVars, storeVars, cloudVars, lastId, faults>>

(* The except clauses: refund if the charge is still pending, and raise.   *)
GiveBack(t) ==
    /\ Runs(t, "refund")
    /\ IF job[t].charged THEN Refund(job[t].user, JobRef(t)) ELSE UNCHANGED ledgerVars
    /\ End(t)
    /\ UNCHANGED <<domainVars, storeVars, cloudVars, lastId, faults>>

-----------------------------------------------------------------------------
MayFail == faults.crashes + faults.db < MaxFaults

(* A transaction of the running task fails and is rolled back.  Up to the  *)
(* confirmation this ends in the refund; a failing refund, and a failing   *)
(* mark_domain_success after the confirmation, just raise.                 *)
DbFault(t) ==
    /\ cpu = t
    /\ faults.db < MaxDbFaults /\ MayFail
    /\ faults' = [faults EXCEPT !.db = @ + 1]
    /\ IF pc[t] = "refund" THEN End(t)
       ELSE RunTo(t, "refund") /\ UNCHANGED <<job, holder>>
    /\ UNCHANGED <<ledgerVars, domainVars, storeVars, cloudVars, lastId>>

(* The process dies and starts again: tasks and locks are gone, committed  *)
(* transactions and what CloudMail was asked are not.                      *)
Crash ==
    /\ faults.crashes < MaxCrashes /\ MayFail
    /\ faults' = [faults EXCEPT !.crashes = @ + 1]
    /\ pc' = [t \in Tasks |-> "idle"]
    /\ job' = [t \in Tasks |-> NoJob]
    /\ cpu' = NoTask
    /\ Mutex!ResetSections
    /\ UNCHANGED <<ledgerVars, domainVars, storeVars, cloudVars, lastId>>

(* The call of task t is cancelled at an await: no except clause catches   *)
(* CancelledError, so the section is left and nothing else is done.        *)
Cancelled(t) ==
    /\ cpu = NoTask /\ pc[t] # "idle"
    /\ faults.crashes < MaxCrashes /\ MayFail
    /\ faults' = [faults EXCEPT !.crashes = @ + 1]
    /\ End(t)
    /\ UNCHANGED <<ledgerVars, domainVars, storeVars, cloudVars, lastId>>

(* mailbox_ttl_seconds pass for mailbox n and the record of its key.       *)
Expire(n) ==
    /\ cpu = NoTask
    /\ mailboxes[n] # NoMailbox /\ mailboxes[n].live
    /\ mailboxes' = [mailboxes EXCEPT ![n].live = FALSE]
    /\ faults' = [faults EXCEPT !.expiry = TRUE]
    /\ UNCHANGED <<ledgerVars, domainVars, taskVars, idem, cloudVars, lastId>>

(* The domains and instances some mailbox refers to.                       *)
Recorded == {n \in Ids : mailboxes[n] # NoMailbox}
DomainsInUse == {mailboxes[n].domain : n \in Recorded}
InstancesInUse == {mailboxes[n].instance : n \in Recorded}

(* The candidates that are known to a call in progress or to CloudMail.    *)
KnownCandidates ==
    UNION {{job[t].cands[n] : n \in DOMAIN job[t].cands} :
              t \in {s \in Tasks : pc[s] # "idle"}}
        \union {<<a[2], a[3]>> : a \in calls \union upstream}

(* The administrator manages the pool (admin_api.py).                      *)
ManagePool ==
    /\ cpu = NoTask
    /\ faults.admin < MaxAdmin
    /\ faults' = [faults EXCEPT !.admin = @ + 1]
    /\ \/ \E d \in Domains, i \in Instances, enabled \in BOOLEAN :
             \/ CreateDomain(d, i, enabled, {c[1] : c \in KnownCandidates})
             \/ UpdateDomain(d, i, enabled)
       \/ \E d \in Domains : ClearCooldown(d)
       \/ \E i \in Instances :
             \/ \E enabled \in BOOLEAN :
                   \/ CreateInstance(i, enabled, {c[2] : c \in KnownCandidates})
                   \/ UpdateInstance(i, enabled)
             \/ \E health \in {"healthy", "unhealthy"} : SetInstanceHealth(i, health)
             \/ DeleteInstance(i, DomainsInUse, InstancesInUse)
    /\ UNCHANGED <<ledgerVars, taskVars, storeVars, cloudVars, lastId>>

(* What goes on around the calls: each is one transaction, or time.  The   *)
(* administrator's transactions on users and prices only change what the   *)
(* next call starts from and are steps of CreditLedger.                    *)
Surroundings ==
    \/ /\ cpu = NoTask
       /\ \E u \in Users, p \in Grants, r \in OtherRefs : CreateUser(u, p, r)
       /\ UNCHANGED <<domainVars, taskVars, storeVars, cloudVars, lastId, faults>>
    \/ /\ cpu = NoTask
       /\ \E d \in Domains : CooldownOver(d) \/ DeleteDomain(d, DomainsInUse)
       /\ UNCHANGED <<ledgerVars, taskVars, storeVars, cloudVars, lastId, faults>>
    \/ \E a \in Addresses : UpstreamCreates(a)
    \/ \E n \in Ids : Expire(n)
    \/ ManagePool
    \/ Crash

Arrive(t) ==
    \E u \in Users, k \in Keys \union {NoKey}, req \in Requests :
        LET key == IF k = NoKey THEN NoKey ELSE <<u, k>>
        IN AnswerAtOnce(t, u, key, req) \/ Begin(t, u, key, req)

(* Nobody calls: the server waits for requests.                            *)
Quiet ==
    /\ cpu = NoTask /\ \A t \in Tasks : pc[t] = "idle"
    /\ UNCHANGED creationVars

(* The steps of a call after its beginning.                                *)
Proceed(t) ==
    \/ Send(t) \/ ClientFails(t)
    \/ Created(t) \/ Collides(t)
    \/ \E retryable \in BOOLEAN : Refused(t, retryable) \/ NoAnswer(t, retryable)
    \/ Fail(t) \/ Save(t) \/ SaveRefused(t) \/ ConfirmCredit(t) \/ Finish(t) \/ GiveBack(t)

CreationNext ==
    \/ \E t \in Tasks : Arrive(t) \/ Proceed(t) \/ DbFault(t) \/ Cancelled(t)
    \/ Surroundings
    \/ Quiet

CreationSpec == CreationInit /\ [][CreationNext]_creationVars

(* The loop's ready queue is first in first out, so a task that is ready   *)
(* again and again gets to run, and an HTTP call ends at the latest when   *)
(* its timeout fires.                                                      *)
FairCreationSpec == CreationSpec /\ \A t \in Tasks : SF_creationVars(Proceed(t))

-----------------------------------------------------------------------------
(* The charges of user u under reference r in a status, and its mailboxes. *)
Charges(u, r, status) ==
    Cardinality({i \in DOMAIN rows : /\ rows[i].user = u /\ rows[i].ref = r
                                     /\ rows[i].type = "consume"
                                     /\ rows[i].status = status})

MailboxesOf(u, r) ==
    Cardinality({n \in Ids : /\ mailboxes[n] # NoMailbox
                             /\ mailboxes[n].owner = u /\ mailboxes[n].ref = r})

(* Nobody finally pays without getting: a reference has at most as many    *)
(* completed charges as mailboxes, through lost answers, failing           *)
(* transactions, restarts and expiry (ordering of save and confirm).       *)
ChargedForMailbox ==
    \A u \in Users, r \in Refs : Charges(u, r, "completed") <= MailboxesOf(u, r)

(* Nobody gets without paying: each mailbox has a charge of its own that   *)
(* was not given back.  The code keeps this as long as no transaction      *)
(* fails, and no restart between save and confirm is followed by the       *)
(* expiry of the key.                                                      *)
MailboxCharged ==
    faults.db = 0 /\ (faults.crashes = 0 \/ ~faults.expiry) =>
        \A u \in Users, r \in Refs :
            MailboxesOf(u, r) <= Charges(u, r, "completed") + Charges(u, r, "pending")

(* Points are only ever set aside for a call that is running; what is left *)
(* behind was left by a restart or a cancellation (at most one charge for  *)
(* each task) or by a failing transaction.                                 *)
Stranded ==
    {i \in DOMAIN rows :
        /\ rows[i].type = "consume" /\ rows[i].status = "pending"
        /\ ~\E t \in Tasks : /\ pc[t] # "idle" /\ job[t].charged
                             /\ job[t].user = rows[i].user /\ JobRef(t) = rows[i].ref}

PendingAccountedFor ==
    Cardinality(Stranded) <= faults.crashes * Cardinality(Tasks) + faults.db

(* A key has at most one mailbox that is not expired: neither concurrent   *)
(* calls nor retries after a lost answer or a restart create a second one. *)
OneLiveMailboxPerKey ==
    \A m, n \in Ids :
        /\ mailboxes[m] # NoMailbox /\ mailboxes[m].live
        /\ mailboxes[n] # NoMailbox /\ mailboxes[n].live
        /\ mailboxes[m].ref = mailboxes[n].ref
        => m = n

(* A domain is moved to another instance, deleted or created anew while    *)
(* addUser is on its way: a mailbox is recorded under the instance that    *)
(* has its account, which exists as long as the mailbox is recorded        *)
(* (get_verification_code reads its mail there).                           *)
MailboxAtItsServer ==
    \A n \in Recorded :
        /\ <<n, mailboxes[n].domain, mailboxes[n].instance>> \in upstream
        /\ instances[mailboxes[n].instance] # NoInstance

(* An instance takes its domains along when it is deleted, and a domain is *)
(* only created on, or moved to, one that exists.                          *)
DomainsHaveInstance ==
    \A d \in Domains : domains[d] # NoDomain => instances[domains[d].instance] # NoInstance

(* What a key is answered with: its mailbox that lives.                    *)
Answers(k) == {n \in Recorded : mailboxes[n].live /\ mailboxes[n].ref = k}

Keyed == INSTANCE KeyedCreation WITH
    Keys <- SectionKeys, Mailboxes <- Ids, boxes <- [k \in SectionKeys |-> Answers(k)]

(* Concurrent calls, retries after a lost answer, restarts and expiry keep *)
(* the promise that calls of a batch rely on.                              *)
ImplementsCreation == Keyed!KeyedSpec

(* When a call comes to save, the key has no record, not even an expired   *)
(* one: the lock and the purge of get_idempotency keep the primary key of  *)
(* idempotency_records from refusing a mailbox CloudMail has created.      *)
NoConflictAtSave ==
    \A t \in Tasks : pc[t] = "save" /\ job[t].key # NoKey => idem[job[t].key] = NoRecord

(* Every call ends: an unanswered CloudMail, a used up list of candidates  *)
(* and a failing transaction all lead to an answer for the caller.         *)
CallsEnd == \A t \in Tasks : pc[t] # "idle" ~> pc[t] = "idle"

-----------------------------------------------------------------------------
(* What the documentation promises and the code does not keep; each is     *)
(* checked by a run that expects the violation.                            *)

(* Some addUser of task t is unanswered or has created an account, so that *)
(* the outcome of the call is not known to be a failure.                   *)
Unsure(t) == \E d \in Domains, i \in Instances : <<job[t].id, d, i>> \in calls \union upstream

(* api.md: on a network timeout the charge stays pending and is not        *)
(* refunded.                                                               *)
TimeoutKeepsPending ==
    \A t \in Tasks : pc[t] = "refund" /\ job[t].charged /\ job[t].retryable => ~Unsure(t)

(* development plan 6.8: the charge of a mailbox that CloudMail created is *)
(* completed, never returned.                                              *)
NoMailboxForFree ==
    \A u \in Users, r \in Refs :
        MailboxesOf(u, r) <= Charges(u, r, "completed") + Charges(u, r, "pending")
==============================================================================
