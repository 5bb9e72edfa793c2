------------------------ MODULE MailboxCreation_proof ------------------------
(***************************************************************************)
(* Proofs about the creation of mailboxes, for any number of calls, users, *)
(* keys, domains, crashes and failing transactions.                        *)
(*                                                                         *)
(* A step of MailboxCreation touches few of the variables, so a step is    *)
(* described one group of variables at a time: what it does to the tasks   *)
(* (TaskPart), to mailboxes and records (StorePart), to the ledger         *)
(* (LedgerPart) and to the pool of domains (DomainPart).  One lemma per    *)
(* group goes through the actions; the parts of the inductive invariant    *)
(* CreationInv are then proved from the descriptions alone.                *)
(***************************************************************************)
EXTENDS MailboxCreation, CreditLedger_proof, FiniteSetTheorems

(* A task at work has its local variables, a candidate left and, with a    *)
(* key, the section of its key; the task that has the processor is at work.*)
TasksOK ==
    /\ holder \in [SectionKeys -> Tasks \union {NoTask}]
    /\ pc \in [Tasks -> Stages]
    /\ job \in [Tasks -> Job \union {NoJob}]
    /\ cpu \in Tasks \union {NoTask}
    /\ cpu # NoTask => pc[cpu] # "idle"
    /\ \A t \in Tasks : pc[t] # "idle" =>
          /\ job[t] \in Job /\ job[t].cands # <<>>
          /\ job[t].key # NoKey => holder[job[t].key] = t

(* Before a task has saved its mailbox, its key has no record.             *)
Unsaved == {"next", "call", "failed", "save"}

NoConflict ==
    \A t \in Tasks : pc[t] \in Unsaved /\ job[t].key # NoKey => idem[job[t].key] = NoRecord

(* The reference of a mailbox is its key or its own id; while it is live,  *)
(* the record of its key names it.                                         *)
LiveRecorded ==
    \A n \in Ids : mailboxes[n] # NoMailbox =>
        /\ mailboxes[n].ref \in SectionKeys \union {IdRef(n)}
        /\ mailboxes[n].live /\ mailboxes[n].ref \in SectionKeys =>
              /\ idem[mailboxes[n].ref] # NoRecord
              /\ idem[mailboxes[n].ref].id = n

(* Every call has an id of its own, drawn before, and no mailbox has it    *)
(* until the call saves one.                                               *)
IdsOK ==
    /\ \A t \in Tasks : pc[t] # "idle" => job[t].id <= lastId
    /\ \A s, t \in Tasks :
          pc[s] # "idle" /\ pc[t] # "idle" /\ job[s].id = job[t].id => s = t
    /\ \A n \in Ids : mailboxes[n] # NoMailbox => n <= lastId
    /\ \A t \in Tasks : pc[t] \in Unsaved => mailboxes[job[t].id] = NoMailbox

(* Behind every completed charge of a reference there is a mailbox of its  *)
(* own, and one more while a call has saved and not yet confirmed.         *)
Completed(u, r) ==
    {i \in DOMAIN rows : /\ rows[i].user = u /\ rows[i].ref = r
                         /\ rows[i].type = "consume"
                         /\ rows[i].status = "completed"}

Owned(u, r) ==
    {n \in Ids : /\ mailboxes[n] # NoMailbox
                 /\ mailboxes[n].owner = u /\ mailboxes[n].ref = r}

Confirming(u, r) ==
    {t \in Tasks : pc[t] = "confirm" /\ job[t].user = u /\ JobRef(t) = r}

Paid ==
    \A u \in Users, r \in Refs :
        Cardinality(Completed(u, r)) + (IF Confirming(u, r) = {} THEN 0 ELSE 1)
            <= Cardinality(Owned(u, r))

StoreTypeOK ==
    /\ idem \in [SectionKeys -> Record \union {NoRecord}]
    /\ mailboxes \in [Ids -> Mailbox \union {NoMailbox}]

OthersTypeOK ==
    /\ lastId \in 0..MaxIds
    /\ calls \subseteq Addresses /\ upstream \subseteq Addresses
    /\ faults \in [crashes : 0..MaxCrashes, db : 0..MaxDbFaults,
                   admin : 0..MaxAdmin, expiry : BOOLEAN]

(* An account is there when its mailbox is saved, and stays.               *)
ServerOK ==
    /\ \A t \in Tasks : pc[t] = "save" => Address(t) \in upstream
    /\ MailboxAtItsServer

CreationInv ==
    /\ IInv
    /\ DomainTypeOK /\ HealthConsistent /\ DomainsHaveInstance /\ ServerOK
    /\ TasksOK
    /\ StoreTypeOK /\ NoConflict /\ LiveRecorded
    /\ OthersTypeOK
    /\ IdsOK /\ Paid

-----------------------------------------------------------------------------
(* The candidates of a request are domains with their instances.           *)
LEMMA CandidatesType ==
    ASSUME DomainTypeOK, NEW wanted \in SUBSET Domains, NEW c \in Candidates(wanted)
    PROVE  c \in Seq(Domains \X Instances)
  <1> DEFINE D == {e \in wanted : Available(e)}
             S == {<<d, domains[d].instance>> : d \in D}
  <1>1. PICK s \in SetToSeqs(S) :
            c = SubSeq(s, 1, IF Len(s) < MaxAttempts THEN Len(s) ELSE MaxAttempts)
    BY DEF Candidates
  <1>2. IsFiniteSet(S)
    <2>1. IsFiniteSet(D) BY FS_Subset, DomainAssumption DEF DomainAssumption
    <2> DEFINE f == [d \in D |-> <<d, domains[d].instance>>]
    <2>2. f \in Surjection(D, S) BY DEF Surjection
    <2> HIDE DEF D, S, f
    <2> QED BY <2>1, <2>2, FS_Surjection
  <1>3. Cardinality(S) \in Nat BY <1>2, FS_CardinalityType
  <1>4. s \in [1..Cardinality(S) -> S] BY <1>1 DEF SetToSeqs
  <1>5. s \in Seq(Domains \X Instances)
    <2>1. ASSUME NEW d \in D PROVE <<d, domains[d].instance>> \in Domains \X Instances
      <3>1. d \in Domains /\ domains[d] # NoDomain BY DEF Available
      <3>2. domains[d] \in Domain BY <3>1 DEF DomainTypeOK
      <3> QED BY <3>1, <3>2 DEF Domain
    <2>2. S \subseteq Domains \X Instances BY <2>1
    <2> HIDE DEF S
    <2> QED BY <1>3, <1>4, <2>2
  <1>6. MaxAttempts \in Nat \ {0} BY DomainAssumption DEF DomainAssumption
  <1> DEFINE n == IF Len(s) < MaxAttempts THEN Len(s) ELSE MaxAttempts
  <1>7. n \in Nat /\ n <= Len(s) BY <1>5, <1>6
  <1>8. SubSeq(s, 1, n) \in Seq(Domains \X Instances) BY <1>5, <1>7
  <1> QED BY <1>1, <1>8

(* The candidate of a call at work is a domain with an instance.           *)
LEMMA CandidateType ==
    ASSUME TasksOK, NEW t \in Tasks, pc[t] # "idle"
    PROVE  CandDomain(t) \in Domains /\ CandInstance(t) \in Instances
  <1>1. job[t] \in Job /\ job[t].cands # <<>> BY DEF TasksOK
  <1>2. job[t].cands \in Seq(Domains \X Instances) BY <1>1 DEF Job
  <1>3. Head(job[t].cands) \in Domains \X Instances BY <1>1, <1>2
  <1> QED BY <1>3 DEF CandDomain, CandInstance

-----------------------------------------------------------------------------
(* A task saves its mailbox and the record of its key.                     *)
Saves(t) ==
    /\ pc[t] = "save" /\ pc'[t] = "confirm"
    /\ UNCHANGED <<job, instances>>
    /\ CanSave(t)
    /\ mailboxes' = [mailboxes EXCEPT ![job[t].id] =
                       [owner |-> job[t].user, ref |-> JobRef(t),
                        domain |-> CandDomain(t), instance |-> CandInstance(t),
                        live |-> TRUE]]
    /\ idem' = IF job[t].key = NoKey THEN idem
               ELSE [idem EXCEPT ![job[t].key] = [request |-> job[t].request, id |-> job[t].id]]

(* The steps of a call after its beginning, as kinds of steps of a task:   *)
(* it moves to another stage, keeping what the call is about, or ends.     *)
Moves(t, s) ==
    /\ pc[t] # "idle" /\ cpu \in {NoTask, t}
    /\ s # "idle" /\ pc' = [pc EXCEPT ![t] = s]
    /\ s \in Unsaved => pc[t] \in Unsaved
    /\ s = "confirm" => Saves(t)
    /\ s = "save" => UNCHANGED job /\ Address(t) \in upstream
    /\ cpu' \in {NoTask, t}
    /\ \E j \in Job :
          /\ job' = [job EXCEPT ![t] = j]
          /\ j.user = job[t].user /\ j.key = job[t].key /\ j.id = job[t].id
          /\ j.cands # <<>>
          /\ j.charged = (s # "mark" /\ job[t].charged)
    /\ s = "mark" => pc[t] = "confirm"
    /\ UNCHANGED holder

Ends(t) == pc[t] # "idle" /\ cpu \in {NoTask, t} /\ End(t)

Begins(t) ==
    /\ cpu = NoTask /\ UNCHANGED cpu
    /\ pc[t] = "idle" /\ pc' = [pc EXCEPT ![t] = "next"]
    /\ \E j \in Job :
          /\ job' = [job EXCEPT ![t] = j]
          /\ j.cands # <<>> /\ j.charged
          /\ j.id = lastId + 1 /\ lastId' = lastId + 1
          /\ IF j.key = NoKey THEN UNCHANGED holder
             ELSE Mutex!EnterSection(t, j.key) /\ idem'[j.key] = NoRecord

Restarts ==
    /\ pc' = [t \in Tasks |-> "idle"]
    /\ job' = [t \in Tasks |-> NoJob]
    /\ cpu' = NoTask
    /\ Mutex!ResetSections

TaskPart ==
    \/ UNCHANGED taskVars
    \/ \E t \in Tasks : Ends(t) \/ Begins(t) \/ \E s \in Stages : Moves(t, s)
    \/ Restarts

(* A task at work goes on to stage s without a change of its variables.    *)
LEMMA MovesOn ==
    ASSUME TasksOK, NEW t \in Tasks, pc[t] # "idle", cpu \in {NoTask, t},
           NEW s \in Stages, s \notin {"idle", "mark"}, s \in Unsaved => pc[t] \in Unsaved,
           s = "confirm" => Saves(t), s = "save" => Address(t) \in upstream,
           Await(t, s) \/ RunTo(t, s), UNCHANGED <<job, holder>>
    PROVE  Moves(t, s)
  <1>1. job[t] \in Job /\ job[t].cands # <<>> BY DEF TasksOK
  <1>2. job' = [job EXCEPT ![t] = job[t]] BY DEF TasksOK
  <1>3. job[t].charged = (s # "mark" /\ job[t].charged) BY <1>1 DEF Job
  <1> QED BY <1>1, <1>2, <1>3 DEF Moves, Await, RunTo

(* The next candidate is taken, or the call gives up.                      *)
LEMMA MovesNext ==
    ASSUME TasksOK, NEW t \in Tasks, pc[t] \in {"call", "failed"}, cpu \in {NoTask, t},
           NEW retryable \in BOOLEAN, NextOrGiveUp(t, retryable), UNCHANGED holder
    PROVE  \E s \in Stages : Moves(t, s)
  <1> DEFINE rest == Tail(job[t].cands)
             j == [job[t] EXCEPT !.cands = rest]
  <1>1. job[t] \in Job /\ job[t].cands \in Seq(Domains \X Instances) /\ job[t].cands # <<>>
    BY DEF TasksOK, Job
  <1>2. rest \in Seq(Domains \X Instances) BY <1>1
  <1>3. j \in Job /\ j.user = job[t].user /\ j.key = job[t].key /\ j.id = job[t].id
        /\ j.cands = rest /\ j.charged = job[t].charged /\ j.charged \in BOOLEAN
    <2> HIDE DEF rest
    <2> QED BY <1>1, <1>2 DEF Job
  <1>4. CASE Await(t, "next") /\ rest # <<>> /\ job' = [job EXCEPT ![t].cands = rest]
    <2>1. job' = [job EXCEPT ![t] = j] BY <1>4 DEF TasksOK
    <2> HIDE DEF j
    <2>2. j.charged = ("next" # "mark" /\ job[t].charged) BY <1>3
    <2>3. Moves(t, "next") BY <1>3, <1>4, <2>1, <2>2 DEF Moves, Await, Unsaved
    <2> QED BY <2>3 DEF Stages
  <1>5. CASE RunTo(t, "refund") /\ UNCHANGED job
    <2>1. Moves(t, "refund") BY <1>5, MovesOn DEF Stages, Unsaved
    <2> QED BY <2>1 DEF Stages
  <1> QED BY <1>4, <1>5 DEF NextOrGiveUp

(* The answer of CloudMail is noted.                                       *)
LEMMA MovesFailed ==
    ASSUME TasksOK, NEW t \in Tasks, pc[t] = "call", cpu = NoTask, NEW retryable \in BOOLEAN,
           RunTo(t, "failed"), job' = [job EXCEPT ![t].retryable = retryable],
           UNCHANGED holder
    PROVE  Moves(t, "failed")
  <1> DEFINE j == [job[t] EXCEPT !.retryable = retryable]
  <1>1. job[t] \in Job /\ job[t].cands # <<>> BY DEF TasksOK
  <1>2. j \in Job /\ j.user = job[t].user /\ j.key = job[t].key /\ j.id = job[t].id
        /\ j.cands = job[t].cands
        /\ j.charged = ("failed" # "mark" /\ job[t].charged)
    BY <1>1 DEF Job
  <1>3. job' = [job EXCEPT ![t] = j] BY DEF TasksOK
  <1> HIDE DEF j
  <1> QED BY <1>1, <1>2, <1>3 DEF Moves, RunTo, Unsaved

(* The charge is settled.                                                  *)
LEMMA MovesConfirmed ==
    ASSUME TasksOK, NEW t \in Tasks, pc[t] = "confirm", cpu = t,
           RunTo(t, "mark"), job' = [job EXCEPT ![t].charged = FALSE],
           UNCHANGED holder
    PROVE  Moves(t, "mark")
  <1> DEFINE j == [job[t] EXCEPT !.charged = FALSE]
  <1>1. job[t] \in Job /\ job[t].cands # <<>> BY DEF TasksOK
  <1>2. j \in Job /\ j.user = job[t].user /\ j.key = job[t].key /\ j.id = job[t].id
        /\ j.cands = job[t].cands
        /\ j.charged = ("mark" # "mark" /\ job[t].charged)
    BY <1>1 DEF Job
  <1>3. job' = [job EXCEPT ![t] = j] BY DEF TasksOK
  <1> HIDE DEF j
  <1> QED BY <1>1, <1>2, <1>3 DEF Moves, RunTo, Unsaved

(* A call begins.                                                          *)
LEMMA BeginsCall ==
    ASSUME CreationInv, NEW t \in Tasks, NEW u \in Users,
           NEW key \in SectionKeys \union {NoKey}, NEW req \in Requests,
           Begin(t, u, key, req)
    PROVE  Begins(t)
  <1>1. PICK cands \in Candidates(req.wanted) :
            /\ cands # <<>>
            /\ job' = [job EXCEPT ![t] =
                         [user |-> u, key |-> key, request |-> req, id |-> lastId + 1,
                          cands |-> cands, retryable |-> FALSE, charged |-> TRUE]]
    BY DEF Begin
  <1> DEFINE j == [user |-> u, key |-> key, request |-> req, id |-> lastId + 1,
                   cands |-> cands, retryable |-> FALSE, charged |-> TRUE]
  <1>2. req.wanted \in SUBSET Domains BY CreationAssumption DEF CreationAssumption, Request
  <1>3. cands \in Seq(Domains \X Instances) BY <1>1, <1>2, CandidatesType DEF CreationInv
  <1>4. lastId + 1 \in Ids
    BY CreationAssumption DEF CreationAssumption, CreationInv, OthersTypeOK, Begin, Ids
  <1>5. j \in Job /\ j.cands = cands /\ j.charged /\ j.key = key /\ j.id = lastId + 1
    BY <1>3, <1>4 DEF Job
  <1>6. job' = [job EXCEPT ![t] = j] BY <1>1
  <1>7. key # NoKey => idem'[key] = NoRecord
    BY DEF Begin, Known, Purged, CreationInv, StoreTypeOK
  <1>8. /\ cpu = NoTask /\ UNCHANGED cpu
        /\ pc[t] = "idle" /\ pc' = [pc EXCEPT ![t] = "next"]
        /\ lastId' = lastId + 1
        /\ IF key = NoKey THEN UNCHANGED holder ELSE Mutex!EnterSection(t, key)
    BY DEF Begin, Idle
  <1> HIDE DEF j
  <1> QED BY <1>1, <1>5, <1>6, <1>7, <1>8 DEF Begins

(* Every step of a call after its beginning moves it or ends it.           *)
LEMMA ProceedTask ==
    ASSUME TasksOK, NoTask \notin Tasks, NEW t \in Tasks, Proceed(t)
    PROVE  Ends(t) \/ \E s \in Stages : Moves(t, s)
  <1>1. ASSUME Send(t) PROVE Moves(t, "call")
    BY <1>1, MovesOn DEF Send, Awaits, Unsaved, Stages
  <1>2. ASSUME ClientFails(t) PROVE Moves(t, "refund")
    BY <1>2, MovesOn DEF ClientFails, Awaits, Unsaved, Stages
  <1>3. ASSUME Created(t) PROVE Moves(t, "save")
    BY <1>3, MovesOn DEF Created, Awaits, Unsaved, Stages
  <1>4. ASSUME Collides(t) PROVE \E s \in Stages : Moves(t, s)
    BY <1>4, MovesNext DEF Collides, Awaits
  <1>5. ASSUME NEW retryable \in BOOLEAN, Refused(t, retryable) \/ NoAnswer(t, retryable)
        PROVE  Moves(t, "failed")
    BY <1>5, MovesFailed DEF Refused, NoAnswer, Awaits
  <1>6. ASSUME Fail(t) PROVE \E s \in Stages : Moves(t, s)
    <2>1. job[t].retryable \in BOOLEAN /\ pc[t] = "failed" /\ cpu = t
      BY <1>6 DEF TasksOK, Fail, Runs, Job
    <2> QED BY <1>6, <2>1, MovesNext DEF Fail
  <1>7. ASSUME Save(t) PROVE Moves(t, "confirm")
    <2>1. Saves(t) BY <1>7 DEF Save, Runs, RunTo, Saves, SavedInstance, domainVars, TasksOK
    <2> QED BY <1>7, <2>1, MovesOn DEF Save, Runs, Unsaved, Stages
  <1>8. ASSUME SaveRefused(t) PROVE Moves(t, "refund")
    BY <1>8, MovesOn DEF SaveRefused, Runs, Unsaved, Stages
  <1>9. ASSUME ConfirmCredit(t) PROVE Moves(t, "mark")
    BY <1>9, MovesConfirmed DEF ConfirmCredit, Runs
  <1>10. ASSUME Finish(t) \/ GiveBack(t) PROVE Ends(t)
    BY <1>10 DEF Finish, GiveBack, Runs, Ends
  <1> QED BY <1>1, <1>2, <1>3, <1>4, <1>5, <1>6, <1>7, <1>8, <1>9, <1>10
          DEF Proceed, Stages

LEMMA DoTaskPart ==
    ASSUME CreationInv, CreationNext
    PROVE  TaskPart
  <1>1. TasksOK /\ NoTask \notin Tasks
    BY CreationAssumption DEF CreationInv, CreationAssumption
  <1>2. ASSUME NEW t \in Tasks, Arrive(t) PROVE TaskPart
    <2>1. PICK u \in Users, k \in Keys \union {NoKey}, req \in Requests :
              LET key == IF k = NoKey THEN NoKey ELSE <<u, k>>
              IN AnswerAtOnce(t, u, key, req) \/ Begin(t, u, key, req)
      BY <1>2 DEF Arrive
    <2> DEFINE key == IF k = NoKey THEN NoKey ELSE <<u, k>>
    <2>2. key \in SectionKeys \union {NoKey} BY DEF SectionKeys
    <2>3. CASE AnswerAtOnce(t, u, key, req) BY <2>3 DEF AnswerAtOnce, TaskPart
    <2>4. CASE Begin(t, u, key, req)
      <3> HIDE DEF key
      <3> QED BY <2>2, <2>4, BeginsCall DEF TaskPart
    <2> QED BY <2>1, <2>3, <2>4
  <1>3. ASSUME NEW t \in Tasks, Proceed(t) PROVE TaskPart
    BY <1>1, <1>3, ProceedTask DEF TaskPart
  <1>4. ASSUME NEW t \in Tasks, DbFault(t) PROVE TaskPart
    <2>1. pc[t] # "idle" /\ cpu = t BY <1>1, <1>4 DEF TasksOK, DbFault
    <2>2. CASE pc[t] = "refund" BY <1>4, <2>1, <2>2 DEF DbFault, Ends, TaskPart
    <2>3. CASE pc[t] # "refund"
      <3>1. Moves(t, "refund") BY <1>1, <1>4, <2>1, <2>3, MovesOn DEF DbFault, Unsaved, Stages
      <3> QED BY <3>1 DEF TaskPart, Stages
    <2> QED BY <2>2, <2>3
  <1>5. ASSUME NEW t \in Tasks, Cancelled(t) PROVE TaskPart
    BY <1>5 DEF Cancelled, Ends, TaskPart
  <1>6. ASSUME Surroundings PROVE TaskPart
    <2>1. CASE Crash BY <2>1 DEF Crash, Restarts, TaskPart
    <2>2. CASE ~Crash
      <3>1. UNCHANGED taskVars
        BY <1>6, <2>2 DEF Surroundings, UpstreamCreates, Expire, ManagePool
      <3> QED BY <3>1 DEF TaskPart
    <2> QED BY <2>1, <2>2
  <1>7. ASSUME Quiet PROVE TaskPart
    BY <1>7 DEF Quiet, creationVars, TaskPart
  <1> QED BY <1>2, <1>3, <1>4, <1>5, <1>6, <1>7 DEF CreationNext

(* The tasks stay in order.                                                *)
LEMMA TasksKept ==
    ASSUME CreationInv, TaskPart
    PROVE  TasksOK'
  <1> USE DEF CreationInv
  <1>1. NoTask \notin Tasks /\ NoKey \notin SectionKeys
    BY CreationAssumption DEF CreationAssumption
  <1>2. CASE UNCHANGED taskVars BY <1>2 DEF taskVars, TasksOK
  <1>3. ASSUME NEW t \in Tasks, NEW s \in Stages, Moves(t, s) PROVE TasksOK'
    <2>1. PICK j \in Job :
              /\ job' = [job EXCEPT ![t] = j]
              /\ j.user = job[t].user /\ j.key = job[t].key /\ j.id = job[t].id
              /\ j.cands # <<>>
      BY <1>3 DEF Moves
    <2>2. /\ pc' = [pc EXCEPT ![t] = s] /\ s # "idle" /\ pc[t] # "idle"
          /\ cpu \in {NoTask, t} /\ cpu' \in {NoTask, t} /\ holder' = holder
      BY <1>3 DEF Moves
    <2> QED BY <2>1, <2>2 DEF TasksOK
  <1>4. ASSUME NEW t \in Tasks, Ends(t) PROVE TasksOK'
    <2>1. /\ pc' = [pc EXCEPT ![t] = "idle"] /\ cpu' = NoTask /\ pc[t] # "idle"
          /\ job' = [job EXCEPT ![t] = NoJob]
      BY <1>4 DEF Ends, End, Await
    <2>2. \/ job[t].key = NoKey /\ holder' = holder
          \/ holder' = [holder EXCEPT ![job[t].key] = NoTask] /\ job[t].key # NoKey
      BY <1>4 DEF Ends, End, Mutex!LeaveSection
    <2>3. job[t] \in Job /\ (job[t].key # NoKey => holder[job[t].key] = t)
      BY <2>1 DEF TasksOK
    <2>4. job[t].key \in SectionKeys \union {NoKey} BY <2>3 DEF Job
    <2>5. holder' \in [SectionKeys -> Tasks \union {NoTask}]
      BY <2>2, <2>4 DEF TasksOK
    <2>6. ASSUME NEW x \in Tasks, pc'[x] # "idle"
          PROVE  /\ job'[x] \in Job /\ job'[x].cands # <<>>
                 /\ job'[x].key # NoKey => holder'[job'[x].key] = x
      <3>1. x # t /\ pc[x] # "idle" /\ job'[x] = job[x] BY <2>1, <2>6 DEF TasksOK
      <3>2. job[x] \in Job /\ job[x].cands # <<>>
            /\ (job[x].key # NoKey => holder[job[x].key] = x)
        BY <3>1 DEF TasksOK
      <3>3. job[x].key \in SectionKeys \union {NoKey} BY <3>2 DEF Job
      <3>4. ASSUME job[x].key # NoKey PROVE holder'[job[x].key] = x
        <4>1. job[x].key # job[t].key BY <2>3, <3>1, <3>2, <3>4
        <4> QED BY <2>2, <3>2, <3>3, <3>4, <4>1 DEF TasksOK
      <3> QED BY <3>1, <3>2, <3>4
    <2>7. /\ pc' \in [Tasks -> Stages] /\ job' \in [Tasks -> Job \union {NoJob}]
          /\ cpu' \in Tasks \union {NoTask} /\ cpu' = NoTask
      BY <2>1 DEF TasksOK, Stages
    <2> QED BY <2>5, <2>6, <2>7 DEF TasksOK
  <1>5. ASSUME NEW t \in Tasks, Begins(t) PROVE TasksOK'
    <2>1. PICK j \in Job :
              /\ job' = [job EXCEPT ![t] = j]
              /\ j.cands # <<>>
              /\ IF j.key = NoKey THEN UNCHANGED holder
                 ELSE Mutex!EnterSection(t, j.key) /\ idem'[j.key] = NoRecord
      BY <1>5 DEF Begins
    <2>2. /\ pc' = [pc EXCEPT ![t] = "next"] /\ cpu' = NoTask
      BY <1>5 DEF Begins
    <2>3. j.key \in SectionKeys \union {NoKey} BY DEF Job
    <2>4. \/ j.key = NoKey /\ holder' = holder
          \/ /\ j.key \in SectionKeys /\ holder[j.key] = NoTask
             /\ holder' = [holder EXCEPT ![j.key] = t]
      BY <2>1, <2>3 DEF Mutex!EnterSection
    <2>5. holder' \in [SectionKeys -> Tasks \union {NoTask}]
      BY <2>4 DEF TasksOK
    <2>6. ASSUME NEW x \in Tasks, pc'[x] # "idle"
          PROVE  /\ job'[x] \in Job /\ job'[x].cands # <<>>
                 /\ job'[x].key # NoKey => holder'[job'[x].key] = x
      <3>1. CASE x = t BY <2>1, <2>4, <3>1 DEF TasksOK
      <3>2. CASE x # t
        <4>1. pc[x] # "idle" /\ job'[x] = job[x] BY <2>1, <2>2, <2>6, <3>2 DEF TasksOK
        <4>2. job[x] \in Job /\ job[x].cands # <<>>
              /\ (job[x].key # NoKey => holder[job[x].key] = x)
          BY <4>1 DEF TasksOK
        <4>3. job[x].key \in SectionKeys \union {NoKey} BY <4>2 DEF Job
        <4>4. ASSUME job[x].key # NoKey PROVE holder'[job[x].key] = x
          BY <1>1, <2>4, <4>2, <4>3, <4>4 DEF TasksOK
        <4> QED BY <4>1, <4>2, <4>4
      <3> QED BY <3>1, <3>2
    <2>7. /\ pc' \in [Tasks -> Stages] /\ job' \in [Tasks -> Job \union {NoJob}]
          /\ cpu' \in Tasks \union {NoTask} /\ cpu' = NoTask
      BY <2>1, <2>2 DEF TasksOK, Stages
    <2> QED BY <2>5, <2>6, <2>7 DEF TasksOK
  <1>6. CASE Restarts
    BY <1>6 DEF Restarts, Mutex!ResetSections, TasksOK, Stages
  <1> QED BY <1>2, <1>3, <1>4, <1>5, <1>6 DEF TaskPart

-----------------------------------------------------------------------------
(* Mailboxes and records: expired records are deleted, a mailbox is saved  *)
(* with its record, or a mailbox expires.                                  *)
Purges == idem' = Purged /\ UNCHANGED mailboxes

Expires(n) ==
    /\ mailboxes[n] # NoMailbox
    /\ mailboxes' = [mailboxes EXCEPT ![n].live = FALSE]
    /\ faults' = [faults EXCEPT !.expiry = TRUE]
    /\ UNCHANGED idem

StorePart ==
    \/ UNCHANGED storeVars
    \/ Purges
    \/ \E t \in Tasks : Saves(t)
    \/ \E n \in Ids : Expires(n)

LEMMA DoStorePart ==
    ASSUME CreationInv, CreationNext
    PROVE  StorePart
  <1>1. ASSUME NEW t \in Tasks, Arrive(t) PROVE StorePart
    BY <1>1 DEF Arrive, AnswerAtOnce, Begin, StorePart, Purges, storeVars
  <1>2. ASSUME NEW t \in Tasks, Save(t) PROVE Saves(t)
    BY <1>2 DEF Save, Runs, RunTo, Saves, SavedInstance, domainVars, CreationInv, TasksOK
  <1>3. ASSUME NEW t \in Tasks, Proceed(t), ~Save(t) PROVE UNCHANGED storeVars
    BY <1>3 DEF Proceed, Send, ClientFails, Created, Collides, Refused, NoAnswer, Fail,
                SaveRefused, ConfirmCredit, Finish, GiveBack
  <1>4. ASSUME NEW t \in Tasks, DbFault(t) \/ Cancelled(t) PROVE UNCHANGED storeVars
    BY <1>4 DEF DbFault, Cancelled
  <1>5. ASSUME Surroundings PROVE StorePart
    BY <1>5 DEF Surroundings, UpstreamCreates, Expire, Expires, ManagePool, Crash,
                StorePart, storeVars
  <1>6. ASSUME Quiet PROVE UNCHANGED storeVars
    BY <1>6 DEF Quiet, creationVars
  <1> QED BY <1>1, <1>2, <1>3, <1>4, <1>5, <1>6 DEF CreationNext, StorePart

(* The reference of a task.                                                *)
LEMMA JobRefs ==
    ASSUME TasksOK, NEW t \in Tasks, pc[t] # "idle"
    PROVE  /\ JobRef(t) \in Refs
           /\ JobRef(t) \in SectionKeys \union {IdRef(job[t].id)}
           /\ JobRef(t) \in SectionKeys => job[t].key # NoKey /\ JobRef(t) = job[t].key
  <1>1. job[t] \in Job BY DEF TasksOK
  <1>2. job[t].key \in SectionKeys \union {NoKey} /\ job[t].id \in Ids BY <1>1 DEF Job
  <1>3. /\ Refs = SectionKeys \union {IdRef(n) : n \in Ids}
        /\ \A n \in Ids : IdRef(n) \notin SectionKeys
    BY CreationAssumption DEF CreationAssumption
  <1> QED BY <1>2, <1>3 DEF JobRef, RefOf

LEMMA StoreTypeKept ==
    ASSUME CreationInv, StorePart
    PROVE  StoreTypeOK'
  <1> USE DEF CreationInv
  <1>1. CASE UNCHANGED storeVars BY <1>1 DEF storeVars, StoreTypeOK
  <1>2. CASE Purges BY <1>2 DEF Purges, Purged, StoreTypeOK
  <1>3. ASSUME NEW t \in Tasks, Saves(t) PROVE StoreTypeOK'
    <2>1. pc[t] # "idle" BY <1>3 DEF Saves
    <2>2. job[t] \in Job /\ job[t].cands # <<>> BY <2>1 DEF TasksOK
    <2>3. CandDomain(t) \in Domains /\ CandInstance(t) \in Instances
      BY <2>1, CandidateType
    <2>4. /\ job[t].user \in Users /\ job[t].id \in Ids /\ job[t].request \in Requests
          /\ job[t].key \in SectionKeys \union {NoKey}
      BY <2>2 DEF Job
    <2>5. JobRef(t) \in Refs BY <2>1, JobRefs
    <2> DEFINE m == [owner |-> job[t].user, ref |-> JobRef(t),
                     domain |-> CandDomain(t), instance |-> CandInstance(t), live |-> TRUE]
               r == [request |-> job[t].request, id |-> job[t].id]
    <2>6. m \in Mailbox BY <2>3, <2>4, <2>5 DEF Mailbox
    <2>7. r \in Record BY <2>4 DEF Record
    <2>8. /\ mailboxes' = [mailboxes EXCEPT ![job[t].id] = m]
          /\ idem' = IF job[t].key = NoKey THEN idem ELSE [idem EXCEPT ![job[t].key] = r]
      BY <1>3 DEF Saves
    <2> HIDE DEF m, r
    <2> QED BY <2>4, <2>6, <2>7, <2>8 DEF StoreTypeOK
  <1>4. ASSUME NEW n \in Ids, Expires(n) PROVE StoreTypeOK'
    <2> DEFINE m == [mailboxes[n] EXCEPT !.live = FALSE]
    <2>1. mailboxes[n] \in Mailbox BY <1>4 DEF Expires, StoreTypeOK
    <2>2. m \in Mailbox BY <2>1 DEF Mailbox
    <2>3. mailboxes' = [mailboxes EXCEPT ![n] = m] /\ idem' = idem
      BY <1>4 DEF Expires, StoreTypeOK
    <2> HIDE DEF m
    <2> QED BY <2>2, <2>3 DEF StoreTypeOK
  <1> QED BY <1>1, <1>2, <1>3, <1>4 DEF StorePart

(* A task that has not saved yet has not saved before, or just began.      *)
LEMMA UnsavedBefore ==
    ASSUME CreationInv, TaskPart, NEW x \in Tasks,
           pc'[x] \in Unsaved, job'[x].key # NoKey
    PROVE  \/ pc[x] \in Unsaved /\ job'[x].key = job[x].key
           \/ idem'[job'[x].key] = NoRecord
  <1>1. pc \in [Tasks -> Stages] /\ job \in [Tasks -> Job \union {NoJob}]
    BY DEF CreationInv, TasksOK
  <1>2. CASE UNCHANGED taskVars BY <1>2 DEF taskVars
  <1>3. ASSUME NEW t \in Tasks, NEW s \in Stages, Moves(t, s)
        PROVE  pc[x] \in Unsaved /\ job'[x].key = job[x].key
    BY <1>1, <1>3 DEF Moves
  <1>4. ASSUME NEW t \in Tasks, Ends(t)
        PROVE  pc[x] \in Unsaved /\ job'[x].key = job[x].key
    BY <1>1, <1>4 DEF Ends, End, Await, Unsaved
  <1>5. ASSUME NEW t \in Tasks, Begins(t)
        PROVE  \/ pc[x] \in Unsaved /\ job'[x].key = job[x].key
               \/ idem'[job'[x].key] = NoRecord
    BY <1>1, <1>5 DEF Begins
  <1>6. CASE Restarts BY <1>6 DEF Restarts, Unsaved
  <1> QED BY <1>2, <1>3, <1>4, <1>5, <1>6 DEF TaskPart

(* The lock of a key and the purge keep the primary key free.              *)
LEMMA NoConflictKept ==
    ASSUME CreationInv, TaskPart, StorePart, TasksOK'
    PROVE  NoConflict'
  <1> USE DEF CreationInv
  <1> SUFFICES ASSUME NEW x \in Tasks, pc'[x] \in Unsaved, job'[x].key # NoKey
               PROVE  idem'[job'[x].key] = NoRecord
    BY DEF NoConflict
  <1> DEFINE k == job[x].key
  <1>1. CASE idem'[job'[x].key] = NoRecord BY <1>1
  <1>2. CASE pc[x] \in Unsaved /\ job'[x].key = k
    <2>1. k # NoKey /\ pc[x] # "idle" /\ idem[k] = NoRecord
      BY <1>2 DEF NoConflict, Unsaved
    <2>2. job[x] \in Job /\ holder[k] = x BY <2>1 DEF TasksOK
    <2>3. k \in SectionKeys BY <2>1, <2>2 DEF Job
    <2>4. CASE UNCHANGED storeVars BY <1>2, <2>1, <2>4 DEF storeVars
    <2>5. CASE Purges BY <1>2, <2>1, <2>3, <2>5 DEF Purges, Purged
    <2>6. ASSUME NEW t \in Tasks, Saves(t) PROVE idem'[k] = NoRecord
      <3>1. t # x /\ pc[t] # "idle" BY <2>6 DEF Saves, Unsaved
      <3>2. job[t] \in Job /\ (job[t].key # NoKey => holder[job[t].key] = t)
        BY <3>1 DEF TasksOK
      <3>3. job[t].key # k BY <2>1, <2>2, <3>1, <3>2
      <3> QED BY <2>1, <2>3, <2>6, <3>3 DEF Saves, StoreTypeOK
    <2>7. ASSUME NEW n \in Ids, Expires(n) PROVE idem'[k] = NoRecord
      BY <2>1, <2>7 DEF Expires
    <2> QED BY <1>2, <2>4, <2>5, <2>6, <2>7 DEF StorePart
  <1> QED BY <1>1, <1>2, UnsavedBefore

(* The record of a key stays as long as its mailbox is live.               *)
LEMMA LiveKept ==
    ASSUME CreationInv, StorePart
    PROVE  LiveRecorded'
  <1> USE DEF CreationInv
  <1>1. CASE UNCHANGED storeVars BY <1>1 DEF storeVars, LiveRecorded
  <1>2. CASE Purges
    <2> SUFFICES ASSUME NEW n \in Ids, mailboxes[n] # NoMailbox
                 PROVE  /\ mailboxes[n].ref \in SectionKeys \union {IdRef(n)}
                        /\ mailboxes[n].live /\ mailboxes[n].ref \in SectionKeys =>
                              /\ idem'[mailboxes[n].ref] # NoRecord
                              /\ idem'[mailboxes[n].ref].id = n
      BY <1>2 DEF Purges, LiveRecorded
    <2> QED BY <1>2 DEF Purges, Purged, Expired, LiveRecorded
  <1>3. ASSUME NEW t \in Tasks, Saves(t) PROVE LiveRecorded'
    <2>1. pc[t] # "idle" BY <1>3 DEF Saves
    <2>2. job[t] \in Job BY <2>1 DEF TasksOK
    <2>3. job[t].key \in SectionKeys \union {NoKey} /\ job[t].id \in Ids
          /\ job[t].request \in Requests
      BY <2>2 DEF Job
    <2> DEFINE m == [owner |-> job[t].user, ref |-> JobRef(t),
                     domain |-> CandDomain(t), instance |-> CandInstance(t), live |-> TRUE]
               r == [request |-> job[t].request, id |-> job[t].id]
    <2>4. m.ref = JobRef(t) /\ r.id = job[t].id /\ r \in Record BY <2>3 DEF Record
    <2>5. /\ mailboxes' = [mailboxes EXCEPT ![job[t].id] = m]
          /\ idem' = IF job[t].key = NoKey THEN idem ELSE [idem EXCEPT ![job[t].key] = r]
          /\ job[t].key # NoKey => idem[job[t].key] = NoRecord
      BY <1>3 DEF Saves, CanSave
    <2> HIDE DEF m, r
    <2>6. r # NoRecord BY <2>4, RowAssumption
    <2> SUFFICES ASSUME NEW n \in Ids, mailboxes'[n] # NoMailbox
                 PROVE  /\ mailboxes'[n].ref \in SectionKeys \union {IdRef(n)}
                        /\ mailboxes'[n].live /\ mailboxes'[n].ref \in SectionKeys =>
                              /\ idem'[mailboxes'[n].ref] # NoRecord
                              /\ idem'[mailboxes'[n].ref].id = n
      BY DEF LiveRecorded
    <2>7. CASE n = job[t].id
      <3>1. mailboxes'[n] = m BY <2>5, <2>7 DEF StoreTypeOK
      <3>2. /\ m.ref \in SectionKeys \union {IdRef(n)}
            /\ m.ref \in SectionKeys => job[t].key # NoKey /\ m.ref = job[t].key
        BY <2>1, <2>4, <2>7, JobRefs
      <3>3. m.ref \in SectionKeys => idem'[m.ref] = r BY <2>5, <3>2 DEF StoreTypeOK
      <3> QED BY <2>4, <2>6, <2>7, <3>1, <3>2, <3>3
    <2>8. CASE n # job[t].id
      <3>1. mailboxes'[n] = mailboxes[n] BY <2>5, <2>8 DEF StoreTypeOK
      <3>2. /\ mailboxes[n].ref \in SectionKeys \union {IdRef(n)}
            /\ mailboxes[n].live /\ mailboxes[n].ref \in SectionKeys =>
                  /\ idem[mailboxes[n].ref] # NoRecord
                  /\ idem[mailboxes[n].ref].id = n
        BY <3>1 DEF LiveRecorded
      <3>3. mailboxes[n].live /\ mailboxes[n].ref \in SectionKeys =>
                idem'[mailboxes[n].ref] = idem[mailboxes[n].ref]
        BY <2>5, <3>2 DEF StoreTypeOK
      <3> QED BY <3>1, <3>2, <3>3
    <2> QED BY <2>7, <2>8
  <1>4. ASSUME NEW n \in Ids, Expires(n) PROVE LiveRecorded'
    <2>1. mailboxes[n] \in Mailbox BY <1>4 DEF Expires, StoreTypeOK
    <2> DEFINE m == [mailboxes[n] EXCEPT !.live = FALSE]
    <2>2. m.ref = mailboxes[n].ref /\ m.live = FALSE BY <2>1 DEF Mailbox
    <2>3. mailboxes' = [mailboxes EXCEPT ![n] = m] /\ idem' = idem
          /\ mailboxes[n] # NoMailbox
      BY <1>4 DEF Expires, StoreTypeOK
    <2> HIDE DEF m
    <2> QED BY <2>2, <2>3 DEF LiveRecorded, StoreTypeOK
  <1> QED BY <1>1, <1>2, <1>3, <1>4 DEF StorePart

-----------------------------------------------------------------------------
(* The ledger: every step is one of its own transactions or leaves it, and *)
(* charges are only completed by a call that confirms.                     *)
LedgerPart ==
    \/ UNCHANGED ledgerVars
    \/ Administer
    \/ \E u \in Users, r \in Refs : Reserve(u, r) \/ Refund(u, r)
    \/ \E t \in Tasks : ConfirmCredit(t)

LEMMA DoLedgerPart ==
    ASSUME CreationInv, CreationNext
    PROVE  LedgerPart
  <1> USE DEF CreationInv
  <1>1. /\ Refs = SectionKeys \union {IdRef(n) : n \in Ids}
        /\ MaxIds \in Nat
    BY CreationAssumption DEF CreationAssumption
  <1>2. ASSUME NEW t \in Tasks, Arrive(t) PROVE LedgerPart
    <2>1. PICK u \in Users, k \in Keys \union {NoKey}, req \in Requests :
              LET key == IF k = NoKey THEN NoKey ELSE <<u, k>>
              IN AnswerAtOnce(t, u, key, req) \/ Begin(t, u, key, req)
      BY <1>2 DEF Arrive
    <2> DEFINE key == IF k = NoKey THEN NoKey ELSE <<u, k>>
    <2>2. key \in SectionKeys \union {NoKey} BY DEF SectionKeys
    <2>3. CASE AnswerAtOnce(t, u, key, req) BY <2>3 DEF AnswerAtOnce, LedgerPart
    <2>4. CASE Begin(t, u, key, req)
      <3> HIDE DEF key
      <3>1. lastId + 1 \in Ids BY <1>1, <2>4 DEF Begin, OthersTypeOK, Ids
      <3>2. RefOf(key, lastId + 1) \in Refs BY <1>1, <2>2, <3>1 DEF RefOf
      <3>3. Reserve(u, RefOf(key, lastId + 1)) BY <2>4 DEF Begin
      <3> QED BY <3>2, <3>3 DEF LedgerPart
    <2> QED BY <2>1, <2>3, <2>4
  <1>3. ASSUME NEW t \in Tasks, GiveBack(t)
        PROVE  LedgerPart
    <2>1. pc[t] # "idle" BY <1>3 DEF GiveBack, Runs
    <2>2. job[t].user \in Users BY <2>1 DEF TasksOK, Job
    <2>3. JobRef(t) \in Refs BY <2>1, JobRefs
    <2> QED BY <1>3, <2>2, <2>3 DEF GiveBack, LedgerPart
  <1>4. ASSUME NEW t \in Tasks, Proceed(t), ~ConfirmCredit(t), ~GiveBack(t)
        PROVE  UNCHANGED ledgerVars
    BY <1>4 DEF Proceed, Send, ClientFails, Created, Collides, Refused, NoAnswer, Fail,
                Save, SaveRefused, Finish
  <1>5. ASSUME NEW t \in Tasks, DbFault(t) \/ Cancelled(t) PROVE UNCHANGED ledgerVars
    BY <1>5 DEF DbFault, Cancelled
  <1>6. ASSUME Surroundings PROVE LedgerPart
    <2>1. CASE \E u \in Users, p \in Grants, r \in OtherRefs : CreateUser(u, p, r)
      BY <2>1 DEF LedgerPart, Administer
    <2>2. CASE ~\E u \in Users, p \in Grants, r \in OtherRefs : CreateUser(u, p, r)
      BY <1>6, <2>2 DEF Surroundings, UpstreamCreates, Expire, ManagePool, Crash, LedgerPart
    <2> QED BY <2>1, <2>2
  <1>7. ASSUME Quiet PROVE UNCHANGED ledgerVars
    BY <1>7 DEF Quiet, creationVars
  <1> QED BY <1>2, <1>3, <1>4, <1>5, <1>6, <1>7 DEF CreationNext, LedgerPart

LEMMA LedgerPartIsLedger ==
    ASSUME CreationInv, LedgerPart
    PROVE  [LedgerNext]_ledgerVars
  <1>1. ASSUME NEW t \in Tasks, ConfirmCredit(t) PROVE LedgerNext
    <2>1. pc[t] # "idle" BY <1>1 DEF ConfirmCredit, Runs
    <2>2. job[t].user \in Users /\ JobRef(t) \in Refs
      BY <2>1, JobRefs DEF CreationInv, TasksOK, Job
    <2> QED BY <1>1, <2>2 DEF ConfirmCredit, LedgerNext, Charge
  <1> QED BY <1>1 DEF LedgerPart, LedgerNext, Charge

-----------------------------------------------------------------------------
(* The pool: a success or a failure is noted, a cooldown passes, or the    *)
(* administrator changes domains or instances.                             *)
DomainChange(d) ==
    \/ MarkSuccess(d) \/ MarkFailure(d) \/ CooldownOver(d) \/ ClearCooldown(d)
    \/ DeleteDomain(d, DomainsInUse)
    \/ \E i \in Instances, enabled \in BOOLEAN :
          (\E known : CreateDomain(d, i, enabled, known)) \/ UpdateDomain(d, i, enabled)

InstanceChange(i) ==
    \/ \E enabled \in BOOLEAN :
          (\E known : CreateInstance(i, enabled, known)) \/ UpdateInstance(i, enabled)
    \/ \E health \in {"healthy", "unhealthy"} : SetInstanceHealth(i, health)
    \/ DeleteInstance(i, DomainsInUse, InstancesInUse)

DomainPart ==
    \/ UNCHANGED domainVars
    \/ \E d \in Domains : DomainChange(d)
    \/ \E i \in Instances : InstanceChange(i)

LEMMA DoDomainPart ==
    ASSUME CreationInv, CreationNext
    PROVE  DomainPart
  <1> USE DEF CreationInv
  <1>1. ASSUME NEW t \in Tasks, Arrive(t) PROVE UNCHANGED domainVars
    BY <1>1 DEF Arrive, AnswerAtOnce, Begin
  <1>2. ASSUME NEW t \in Tasks, Fail(t) \/ Finish(t) PROVE DomainPart
    <2>1. pc[t] # "idle" BY <1>2 DEF Fail, Finish, Runs
    <2>2. CandDomain(t) \in Domains BY <2>1, CandidateType
    <2> QED BY <1>2, <2>2 DEF Fail, Finish, DomainPart, DomainChange
  <1>3. ASSUME NEW t \in Tasks, Proceed(t), ~Fail(t), ~Finish(t) PROVE UNCHANGED domainVars
    BY <1>3 DEF Proceed, Send, ClientFails, Created, Collides, Refused, NoAnswer,
                Save, SaveRefused, ConfirmCredit, GiveBack
  <1>4. ASSUME NEW t \in Tasks, DbFault(t) \/ Cancelled(t) PROVE UNCHANGED domainVars
    BY <1>4 DEF DbFault, Cancelled
  <1>5. ASSUME Surroundings PROVE DomainPart
    <2>1. CASE ManagePool
      BY <2>1 DEF ManagePool, DomainPart, DomainChange, InstanceChange
    <2>2. CASE ~ManagePool
      BY <1>5, <2>2 DEF Surroundings, UpstreamCreates, Expire, Crash, DomainPart, DomainChange
    <2> QED BY <2>1, <2>2
  <1>6. ASSUME Quiet PROVE UNCHANGED domainVars
    BY <1>6 DEF Quiet, creationVars
  <1> QED BY <1>1, <1>2, <1>3, <1>4, <1>5, <1>6 DEF CreationNext, DomainPart

(* One domain gets new columns that are of the type and agree.             *)
PoolOK == DomainTypeOK /\ HealthConsistent /\ DomainsHaveInstance

LEMMA DomainChanged ==
    ASSUME PoolOK, NEW d \in Domains, NEW x \in Domain,
           domains' = [domains EXCEPT ![d] = x], UNCHANGED instances,
           x.cooldown # "none" <=> x.failures >= Threshold,
           x.status = "cooldown" <=> x.failures >= Threshold,
           x.status = "healthy" => x.failures = 0,
           instances[x.instance] # NoInstance
    PROVE  PoolOK'
  BY DEF PoolOK, DomainTypeOK, HealthConsistent, DomainsHaveInstance

(* A domain that has not failed is consistent.                             *)
LEMMA DomainReset ==
    ASSUME PoolOK, NEW d \in Domains, NEW x \in Domain,
           domains' = [domains EXCEPT ![d] = x], UNCHANGED instances,
           x.failures = 0, x.status # "cooldown", x.cooldown = "none",
           instances[x.instance] # NoInstance
    PROVE  PoolOK'
  <1>1. ~(x.failures >= Threshold) BY DomainAssumption DEF DomainAssumption
  <1> QED BY <1>1, DomainChanged

LEMMA DomainKept ==
    ASSUME PoolOK, NEW d \in Domains, DomainChange(d)
    PROVE  PoolOK'
  <1> USE DEF PoolOK
  <1>1. Threshold \in Nat \ {0} BY DomainAssumption DEF DomainAssumption
  <1>2. CASE UNCHANGED domains /\ UNCHANGED instances
    BY <1>2 DEF DomainTypeOK, HealthConsistent, DomainsHaveInstance
  <1>3. domains[d] # NoDomain =>
            domains[d] \in Domain /\ instances[domains[d].instance] # NoInstance
    BY DEF DomainTypeOK, DomainsHaveInstance
  <1>4. CASE domains[d] # NoDomain /\ MarkSuccess(d)
    <2> DEFINE x == [domains[d] EXCEPT !.status = "healthy", !.failures = 0,
                                       !.cooldown = "none"]
    <2>1. /\ x \in Domain /\ x.status = "healthy" /\ x.failures = 0
          /\ x.cooldown = "none" /\ x.instance = domains[d].instance
      BY <1>3, <1>4 DEF Domain, Status
    <2>2. domains' = [domains EXCEPT ![d] = x] /\ UNCHANGED instances
      BY <1>3, <1>4 DEF MarkSuccess, DomainTypeOK, Domain
    <2> HIDE DEF x
    <2> QED BY <1>3, <1>4, <2>1, <2>2, DomainReset
  <1>5. CASE domains[d] # NoDomain /\ MarkFailure(d)
    <2> DEFINE n == domains[d].failures + 1
               status == IF n >= Threshold THEN "cooldown" ELSE "unknown"
               cooldown == IF n >= Threshold THEN "running" ELSE "none"
               x == [domains[d] EXCEPT !.status = status, !.failures = n,
                                       !.cooldown = cooldown]
    <2>1. n \in Nat BY <1>3, <1>5 DEF Domain
    <2>2. status \in Status /\ cooldown \in {"none", "running", "over"} BY DEF Status
    <2>3. domains' = [domains EXCEPT ![d] = x] /\ UNCHANGED instances
      BY <1>3, <1>5 DEF MarkFailure, DomainTypeOK, Domain
    <2>4. /\ cooldown # "none" <=> n >= Threshold
          /\ status = "cooldown" <=> n >= Threshold
          /\ status # "healthy"
      OBVIOUS
    <2> HIDE DEF n, status, cooldown
    <2>5. /\ x \in Domain /\ x.status = status /\ x.failures = n
          /\ x.cooldown = cooldown /\ x.instance = domains[d].instance
      BY <1>3, <1>5, <2>1, <2>2 DEF Domain
    <2> HIDE DEF x
    <2> QED BY <1>3, <1>5, <2>3, <2>4, <2>5, DomainChanged
  <1>6. CASE CooldownOver(d)
    <2> DEFINE x == [domains[d] EXCEPT !.cooldown = "over"]
    <2>1. domains[d] # NoDomain /\ domains[d].cooldown = "running" BY <1>6 DEF CooldownOver
    <2>2. /\ x \in Domain /\ x.status = domains[d].status /\ x.cooldown = "over"
          /\ x.failures = domains[d].failures /\ x.instance = domains[d].instance
      BY <1>3, <2>1 DEF Domain
    <2>3. domains' = [domains EXCEPT ![d] = x] /\ UNCHANGED instances
      BY <1>6 DEF CooldownOver, DomainTypeOK
    <2>4. /\ domains[d].failures >= Threshold
          /\ domains[d].status = "cooldown" <=> domains[d].failures >= Threshold
          /\ domains[d].status = "healthy" => domains[d].failures = 0
      BY <2>1 DEF HealthConsistent
    <2> HIDE DEF x
    <2> QED BY <1>3, <2>1, <2>2, <2>3, <2>4, DomainChanged
  <1>7. CASE ClearCooldown(d)
    <2> DEFINE x == [domains[d] EXCEPT !.status = "unknown", !.failures = 0,
                                       !.cooldown = "none"]
    <2>1. domains[d] # NoDomain BY <1>7 DEF ClearCooldown
    <2>2. /\ x \in Domain /\ x.status = "unknown" /\ x.failures = 0
          /\ x.cooldown = "none" /\ x.instance = domains[d].instance
      BY <1>3, <2>1 DEF Domain, Status
    <2>3. domains' = [domains EXCEPT ![d] = x] /\ UNCHANGED instances
      BY <1>3, <1>7, <2>1 DEF ClearCooldown, DomainTypeOK, Domain
    <2> HIDE DEF x
    <2> QED BY <1>3, <2>1, <2>2, <2>3, DomainReset
  <1>8. CASE DeleteDomain(d, DomainsInUse)
    BY <1>8 DEF DeleteDomain, DomainTypeOK, HealthConsistent, DomainsHaveInstance
  <1>9. ASSUME NEW i \in Instances, NEW enabled \in BOOLEAN, NEW known,
               CreateDomain(d, i, enabled, known)
        PROVE  PoolOK'
    <2> DEFINE x == [NewDomain(i) EXCEPT !.enabled = enabled]
    <2>1. /\ x \in Domain /\ x.status = "unknown" /\ x.failures = 0
          /\ x.cooldown = "none" /\ x.instance = i
      BY DEF NewDomain, Domain, Status
    <2>2. /\ domains' = [domains EXCEPT ![d] = x] /\ UNCHANGED instances
          /\ instances[i] # NoInstance
      BY <1>9 DEF CreateDomain
    <2> HIDE DEF x
    <2> QED BY <2>1, <2>2, DomainReset
  <1>10. ASSUME NEW i \in Instances, NEW enabled \in BOOLEAN, UpdateDomain(d, i, enabled)
         PROVE  PoolOK'
    <2> DEFINE x == [domains[d] EXCEPT !.instance = i, !.enabled = enabled]
    <2>1. domains[d] # NoDomain /\ instances[i] # NoInstance /\ UNCHANGED instances
      BY <1>10 DEF UpdateDomain
    <2>2. /\ x \in Domain /\ x.status = domains[d].status
          /\ x.failures = domains[d].failures /\ x.cooldown = domains[d].cooldown
          /\ x.instance = i
      BY <1>3, <2>1 DEF Domain
    <2>3. domains' = [domains EXCEPT ![d] = x]
      BY <1>3, <1>10, <2>1 DEF UpdateDomain, DomainTypeOK, Domain
    <2> HIDE DEF x
    <2>4. /\ domains[d].cooldown # "none" <=> domains[d].failures >= Threshold
          /\ domains[d].status = "cooldown" <=> domains[d].failures >= Threshold
          /\ domains[d].status = "healthy" => domains[d].failures = 0
      BY <2>1 DEF HealthConsistent
    <2> QED BY <2>1, <2>2, <2>3, <2>4, DomainChanged
  <1> QED BY <1>2, <1>4, <1>5, <1>6, <1>7, <1>8, <1>9, <1>10
          DEF DomainChange, MarkSuccess, MarkFailure

LEMMA InstanceKept ==
    ASSUME PoolOK, NEW i \in Instances, InstanceChange(i)
    PROVE  PoolOK'
  <1> USE DEF PoolOK
  <1>1. ASSUME NEW x \in Instance, instances' = [instances EXCEPT ![i] = x], UNCHANGED domains
        PROVE  PoolOK'
    <2>1. x # NoInstance BY PoolAssumption
    <2> QED BY <1>1, <2>1 DEF DomainTypeOK, HealthConsistent, DomainsHaveInstance
  <1>2. instances[i] # NoInstance => instances[i] \in Instance BY DEF DomainTypeOK
  <1>3. ASSUME NEW enabled \in BOOLEAN, NEW known, CreateInstance(i, enabled, known)
        PROVE  PoolOK'
    <2> DEFINE x == [NewInstance EXCEPT !.enabled = enabled]
    <2>1. x \in Instance BY DEF NewInstance, Instance
    <2>2. instances' = [instances EXCEPT ![i] = x] /\ UNCHANGED domains
      BY <1>3 DEF CreateInstance
    <2> HIDE DEF x
    <2> QED BY <1>1, <2>1, <2>2
  <1>4. ASSUME NEW enabled \in BOOLEAN, UpdateInstance(i, enabled) PROVE PoolOK'
    <2> DEFINE x == [instances[i] EXCEPT !.enabled = enabled]
    <2>1. x \in Instance BY <1>2, <1>4 DEF UpdateInstance, Instance
    <2>2. instances' = [instances EXCEPT ![i] = x] /\ UNCHANGED domains
      BY <1>4 DEF UpdateInstance, DomainTypeOK
    <2> HIDE DEF x
    <2> QED BY <1>1, <2>1, <2>2
  <1>5. ASSUME NEW health \in {"healthy", "unhealthy"}, SetInstanceHealth(i, health)
        PROVE  PoolOK'
    <2> DEFINE x == [instances[i] EXCEPT !.health = health]
    <2>1. x \in Instance BY <1>2, <1>5 DEF SetInstanceHealth, Instance
    <2>2. instances' = [instances EXCEPT ![i] = x] /\ UNCHANGED domains
      BY <1>5 DEF SetInstanceHealth, DomainTypeOK
    <2> HIDE DEF x
    <2> QED BY <1>1, <2>1, <2>2
  <1>6. CASE DeleteInstance(i, DomainsInUse, InstancesInUse)
    <2>1. /\ instances' = [instances EXCEPT ![i] = NoInstance]
          /\ domains' = [d \in Domains |-> IF d \in DomainsOf(i) THEN NoDomain ELSE domains[d]]
      BY <1>6 DEF DeleteInstance
    <2>2. \A d \in Domains : domains'[d] # NoDomain =>
              domains'[d] = domains[d] /\ domains[d].instance # i
      BY <2>1 DEF DomainsOf
    <2>3. \A d \in Domains : domains'[d] \in Domain \union {NoDomain}
      BY <2>1 DEF DomainTypeOK
    <2>4. DomainTypeOK' BY <2>1, <2>3 DEF DomainTypeOK
    <2>5. HealthConsistent' BY <2>2 DEF HealthConsistent
    <2>6. DomainsHaveInstance'
      <3> SUFFICES ASSUME NEW d \in Domains, domains'[d] # NoDomain
                   PROVE  instances'[domains'[d].instance] # NoInstance
        BY DEF DomainsHaveInstance
      <3>1. domains'[d] = domains[d] /\ domains[d].instance # i BY <2>2
      <3>2. instances[domains[d].instance] # NoInstance BY <3>1 DEF DomainsHaveInstance
      <3>3. domains[d].instance \in Instances BY <3>1 DEF DomainTypeOK, Domain
      <3> QED BY <2>1, <3>1, <3>2, <3>3 DEF DomainTypeOK
    <2> QED BY <2>4, <2>5, <2>6
  <1> QED BY <1>3, <1>4, <1>5, <1>6 DEF InstanceChange

(* An instance that mailboxes refer to is not deleted.                     *)
LEMMA InstancesStay ==
    ASSUME DomainTypeOK, DomainPart, NEW i \in InstancesInUse, i \in Instances,
           instances[i] # NoInstance
    PROVE  instances'[i] # NoInstance
  <1>1. CASE UNCHANGED instances BY <1>1
  <1>2. ASSUME NEW d \in Domains, DomainChange(d) PROVE UNCHANGED instances
    BY <1>2 DEF DomainChange, MarkSuccess, MarkFailure, CooldownOver, ClearCooldown,
                DeleteDomain, CreateDomain, UpdateDomain
  <1>3. ASSUME NEW j \in Instances, InstanceChange(j) PROVE instances'[i] # NoInstance
    <2>1. CASE j # i
      BY <1>3, <2>1 DEF InstanceChange, CreateInstance, UpdateInstance, SetInstanceHealth,
                        DeleteInstance, DomainTypeOK
    <2>2. CASE j = i
      <3>1. instances[i] \in Instance BY DEF DomainTypeOK
      <3>2. ASSUME NEW enabled \in BOOLEAN, UpdateInstance(i, enabled)
            PROVE  instances'[i] # NoInstance
        <4> DEFINE x == [instances[i] EXCEPT !.enabled = enabled]
        <4>1. x \in Instance BY <3>1 DEF Instance
        <4>2. instances'[i] = x BY <3>2 DEF UpdateInstance, DomainTypeOK
        <4> HIDE DEF x
        <4> QED BY <4>1, <4>2, PoolAssumption
      <3>3. ASSUME NEW health \in {"healthy", "unhealthy"}, SetInstanceHealth(i, health)
            PROVE  instances'[i] # NoInstance
        <4> DEFINE x == [instances[i] EXCEPT !.health = health]
        <4>1. x \in Instance BY <3>1 DEF Instance
        <4>2. instances'[i] = x BY <3>3 DEF SetInstanceHealth, DomainTypeOK
        <4> HIDE DEF x
        <4> QED BY <4>1, <4>2, PoolAssumption
      <3> QED BY <1>3, <2>2, <3>2, <3>3 DEF InstanceChange, CreateInstance, DeleteInstance
    <2> QED BY <2>1, <2>2
  <1> QED BY <1>1, <1>2, <1>3 DEF DomainPart, domainVars

LEMMA DomainsKept ==
    ASSUME CreationInv, DomainPart
    PROVE  PoolOK'
  <1>1. PoolOK BY DEF CreationInv, PoolOK
  <1>2. CASE UNCHANGED domainVars
    BY <1>1, <1>2 DEF domainVars, PoolOK, DomainTypeOK, HealthConsistent, DomainsHaveInstance
  <1> QED BY <1>1, <1>2, DomainKept, InstanceKept DEF DomainPart

-----------------------------------------------------------------------------
(* Ids, CloudMail and the counts of faults.                                *)
LEMMA OthersKept ==
    ASSUME CreationInv, CreationNext
    PROVE  OthersTypeOK'
  <1> USE DEF CreationInv
  <1>1. {MaxIds, MaxCrashes, MaxDbFaults, MaxAdmin} \subseteq Nat
    BY CreationAssumption DEF CreationAssumption
  <1>2. ASSUME NEW t \in Tasks, pc[t] # "idle" PROVE Address(t) \in Addresses
    <2>1. job[t].id \in Ids BY <1>2 DEF TasksOK, Job
    <2>2. CandDomain(t) \in Domains /\ CandInstance(t) \in Instances BY <1>2, CandidateType
    <2> QED BY <2>1, <2>2 DEF Address, Addresses
  <1>3. ASSUME NEW t \in Tasks, Arrive(t) PROVE OthersTypeOK'
    BY <1>1, <1>3 DEF Arrive, AnswerAtOnce, Begin, cloudVars, OthersTypeOK
  <1>4. ASSUME NEW t \in Tasks, Proceed(t) PROVE OthersTypeOK'
    <2>1. lastId' = lastId /\ faults' = faults
      BY <1>4 DEF Proceed, Send, ClientFails, Created, Collides, Refused, NoAnswer, Fail,
                  Save, SaveRefused, ConfirmCredit, Finish, GiveBack
    <2>2. CASE Send(t)
      <3>1. calls' = calls \union {Address(t)} /\ upstream' = upstream /\ pc[t] # "idle"
        BY <2>2 DEF Send, Awaits
      <3> QED BY <1>2, <2>1, <3>1 DEF OthersTypeOK
    <2>3. CASE ~Send(t)
      <3>1. calls' \subseteq calls /\ upstream' = upstream
        BY <1>4, <2>3 DEF Proceed, ClientFails, Created, Collides, Refused, NoAnswer, Fail,
                    Save, SaveRefused, ConfirmCredit, Finish, GiveBack, cloudVars
      <3> QED BY <2>1, <3>1 DEF OthersTypeOK
    <2> QED BY <2>2, <2>3
  <1>5. ASSUME NEW t \in Tasks, DbFault(t) PROVE OthersTypeOK'
    BY <1>1, <1>5 DEF DbFault, cloudVars, OthersTypeOK
  <1>6. ASSUME NEW t \in Tasks, Cancelled(t) PROVE OthersTypeOK'
    BY <1>1, <1>6 DEF Cancelled, cloudVars, OthersTypeOK
  <1>7. ASSUME Surroundings PROVE OthersTypeOK'
    <2>1. CASE Crash BY <1>1, <2>1 DEF Crash, cloudVars, OthersTypeOK
    <2>2. CASE \E n \in Ids : Expire(n) BY <2>2 DEF Expire, cloudVars, OthersTypeOK
    <2>3. CASE \E a \in Addresses : UpstreamCreates(a)
      BY <2>3 DEF UpstreamCreates, OthersTypeOK
    <2>4. CASE UNCHANGED <<cloudVars, lastId, faults>>
      BY <2>4 DEF cloudVars, OthersTypeOK
    <2>5. CASE ManagePool BY <1>1, <2>5 DEF ManagePool, cloudVars, OthersTypeOK
    <2> QED BY <1>7, <2>1, <2>2, <2>3, <2>4, <2>5 DEF Surroundings
  <1>8. ASSUME Quiet PROVE OthersTypeOK'
    BY <1>8 DEF Quiet, creationVars, cloudVars, OthersTypeOK
  <1> QED BY <1>3, <1>4, <1>5, <1>6, <1>7, <1>8 DEF CreationNext

-----------------------------------------------------------------------------
(* A mailbox that was not there has been saved by a task under its id.     *)
LEMMA NewMailbox ==
    ASSUME StoreTypeOK, StorePart, NEW n \in Ids, mailboxes'[n] # NoMailbox
    PROVE  \/ /\ mailboxes[n] # NoMailbox
              /\ mailboxes'[n].owner = mailboxes[n].owner
              /\ mailboxes'[n].ref = mailboxes[n].ref
           \/ \E t \in Tasks : Saves(t) /\ n = job[t].id
  <1>1. CASE UNCHANGED storeVars BY <1>1 DEF storeVars
  <1>2. CASE Purges BY <1>2 DEF Purges
  <1>3. ASSUME NEW t \in Tasks, Saves(t), n # job[t].id PROVE mailboxes'[n] = mailboxes[n]
    BY <1>3 DEF Saves, StoreTypeOK
  <1>4. ASSUME NEW m \in Ids, Expires(m), n # m PROVE mailboxes'[n] = mailboxes[n]
    BY <1>4 DEF Expires, StoreTypeOK
  <1>5. ASSUME Expires(n)
        PROVE  /\ mailboxes[n] # NoMailbox
               /\ mailboxes'[n].owner = mailboxes[n].owner
               /\ mailboxes'[n].ref = mailboxes[n].ref
    BY <1>5 DEF Expires, StoreTypeOK, Mailbox
  <1> QED BY <1>1, <1>2, <1>3, <1>4, <1>5 DEF StorePart

(* A task at work was at work before with the same id, or it just began    *)
(* and drew the next id.                                                   *)
LEMMA IdBefore ==
    ASSUME TasksOK, lastId \in Nat, lastId' \in Nat, lastId' >= lastId, TaskPart,
           NEW x \in Tasks, pc'[x] # "idle"
    PROVE  \/ /\ pc[x] # "idle" /\ job'[x].id = job[x].id
              /\ pc'[x] \in Unsaved => pc[x] \in Unsaved
           \/ Begins(x) /\ job'[x].id = lastId + 1 /\ lastId' = lastId + 1
  <1>1. CASE UNCHANGED taskVars BY <1>1 DEF taskVars
  <1>2. ASSUME NEW t \in Tasks, NEW s \in Stages, Moves(t, s)
        PROVE  pc[x] # "idle" /\ job'[x].id = job[x].id
               /\ (pc'[x] \in Unsaved => pc[x] \in Unsaved)
    BY <1>2 DEF Moves, TasksOK
  <1>3. ASSUME NEW t \in Tasks, Ends(t)
        PROVE  pc[x] # "idle" /\ job'[x].id = job[x].id /\ pc'[x] = pc[x]
    BY <1>3 DEF Ends, End, Await, TasksOK
  <1>4. ASSUME NEW t \in Tasks, Begins(t), x # t
        PROVE  pc[x] # "idle" /\ job'[x].id = job[x].id /\ pc'[x] = pc[x]
    BY <1>4 DEF Begins, TasksOK
  <1>5. ASSUME Begins(x) PROVE job'[x].id = lastId + 1 /\ lastId' = lastId + 1
    BY <1>5 DEF Begins, TasksOK
  <1>6. CASE Restarts BY <1>6 DEF Restarts
  <1> QED BY <1>1, <1>2, <1>3, <1>4, <1>5, <1>6 DEF TaskPart

(* Only one task begins at a time.                                         *)
LEMMA OneBegins ==
    ASSUME TasksOK, NEW s \in Tasks, NEW t \in Tasks, Begins(s), Begins(t)
    PROVE  s = t
  BY DEF Begins, TasksOK

LEMMA IdsKept ==
    ASSUME CreationInv, TaskPart, StorePart, lastId' \in Nat, lastId' >= lastId
    PROVE  IdsOK'
  <1> USE DEF CreationInv
  <1>1. lastId \in Nat BY CreationAssumption DEF CreationAssumption, OthersTypeOK
  <1>2. \A t \in Tasks : pc[t] # "idle" => job[t].id \in Ids /\ job[t].id \in Nat
    BY DEF TasksOK, Job, Ids
  <1>3. ASSUME NEW t \in Tasks, pc'[t] # "idle" PROVE job'[t].id <= lastId'
    BY <1>1, <1>2, <1>3, IdBefore DEF IdsOK
  <1>4. ASSUME NEW s \in Tasks, NEW t \in Tasks, pc'[s] # "idle", pc'[t] # "idle",
               job'[s].id = job'[t].id
        PROVE  s = t
    <2>1. /\ pc[s] # "idle" => job[s].id <= lastId
          /\ pc[t] # "idle" => job[t].id <= lastId
      BY DEF IdsOK
    <2> QED BY <1>1, <1>2, <1>4, <2>1, IdBefore, OneBegins DEF IdsOK
  <1>5. ASSUME NEW n \in Ids, mailboxes'[n] # NoMailbox PROVE n <= lastId
    <2>1. CASE mailboxes[n] # NoMailbox BY <2>1 DEF IdsOK
    <2>2. ASSUME NEW t \in Tasks, Saves(t), n = job[t].id PROVE n <= lastId
      BY <2>2 DEF Saves, IdsOK
    <2> QED BY <1>5, <2>1, <2>2, NewMailbox
  <1>6. ASSUME NEW x \in Tasks, pc'[x] \in Unsaved PROVE mailboxes'[job'[x].id] = NoMailbox
    <2>1. pc'[x] # "idle" BY <1>6 DEF Unsaved
    <2>2. CASE pc[x] # "idle" /\ job'[x].id = job[x].id /\ pc[x] \in Unsaved
      <3>1. mailboxes[job[x].id] = NoMailbox /\ job[x].id \in Ids
        BY <1>2, <2>2 DEF IdsOK
      <3>2. ASSUME NEW t \in Tasks, Saves(t), job[x].id = job[t].id PROVE FALSE
        BY <1>6, <2>2, <3>2 DEF Saves, IdsOK, Unsaved
      <3> QED BY <2>2, <3>1, <3>2, NewMailbox
    <2>3. CASE job'[x].id = lastId + 1 /\ lastId' = lastId + 1 /\ Begins(x)
      <3>1. job'[x].id \in Ids BY <2>3 DEF Begins, TasksOK, Job
      <3>2. ~(lastId + 1 <= lastId) BY <1>1
      <3> QED BY <1>5, <2>3, <3>1, <3>2
    <2> QED BY <1>1, <1>6, <2>1, <2>2, <2>3, IdBefore
  <1>7. \A n \in Ids : mailboxes'[n] # NoMailbox => n <= lastId'
    BY <1>1, <1>5 DEF Ids
  <1> QED BY <1>3, <1>4, <1>6, <1>7 DEF IdsOK

-----------------------------------------------------------------------------
(* A row posted after settling no charge as completed completes none.      *)
LEMMA CompletedPost ==
    ASSUME LedgerTypeOK, NEW u \in Users, NEW n \in Int, NEW table \in Seq(Row), Kept(table),
           NEW type \in {"consume", "refund", "admin_adjust"},
           NEW status \in {"pending", "completed"}, NEW r \in Refs \union OtherRefs,
           Post(u, n, table, type, status, r),
           type = "consume" => status = "pending",
           \A i \in 1..Len(rows) : table[i].status = "completed" => rows[i].status = "completed",
           NEW v, NEW q
    PROVE  Completed(v, q)' \subseteq Completed(v, q)
  <1>1. /\ rows \in Seq(Row) /\ DOMAIN rows = 1..Len(rows) /\ Len(rows) \in Nat
        /\ Len(table) = Len(rows)
    BY DEF LedgerTypeOK, Kept
  <1>2. /\ rows' \in Seq(Row) /\ Len(rows') = Len(rows) + 1
        /\ \A i \in 1..Len(rows) : rows'[i] = table[i]
        /\ rows'[Len(rows) + 1].type = type /\ rows'[Len(rows) + 1].status = status
    <2>1. /\ rows' \in Seq(Row) /\ Len(rows') = Len(table) + 1
          /\ \A i \in 1..Len(table) : rows'[i] = table[i]
          /\ rows'[Len(table) + 1] = [user |-> u, type |-> type, status |-> status,
                                      amount |-> n, after |-> balance[u] + n, ref |-> r]
      BY PostEffect
    <2> QED BY <1>1, <2>1
  <1> SUFFICES ASSUME NEW i \in Completed(v, q)' PROVE i \in Completed(v, q)
    OBVIOUS
  <1>3. i \in 1..(Len(rows) + 1) /\ rows'[i].type = "consume" /\ rows'[i].status = "completed"
        /\ rows'[i].user = v /\ rows'[i].ref = q
    BY <1>1, <1>2 DEF Completed
  <1>4. i \in 1..Len(rows) BY <1>1, <1>2, <1>3
  <1>5. table[i].user = rows[i].user /\ table[i].ref = rows[i].ref
        /\ table[i].type = rows[i].type
    BY <1>4, KeptPending
  <1> QED BY <1>1, <1>2, <1>3, <1>4, <1>5 DEF Completed

(* Only a confirmation completes charges.                                  *)
LEMMA CompletedKept ==
    ASSUME CreationInv, LedgerPart, ~\E t \in Tasks : ConfirmCredit(t), NEW v, NEW q
    PROVE  Completed(v, q)' \subseteq Completed(v, q)
  <1>1. LedgerTypeOK /\ IInv /\ rows \in Seq(Row) BY DEF CreationInv, IInv, LedgerTypeOK
  <1>2. Kept(rows) BY <1>1, KeptRows
  <1>3. ASSUME UNCHANGED rows PROVE Completed(v, q)' = Completed(v, q)
    BY <1>3 DEF Completed
  <1>4. ASSUME Administer PROVE Completed(v, q)' \subseteq Completed(v, q)
    <2>1. ASSUME NEW u \in Users, NEW n \in Int, NEW r \in OtherRefs,
                 Post(u, n, rows, "admin_adjust", "completed", r)
          PROVE  Completed(v, q)' \subseteq Completed(v, q)
      BY <1>1, <1>2, <2>1, CompletedPost
    <2>2. ASSUME NEW u \in Users, NEW r \in OtherRefs,
                 NEW p \in Grants \union {rule.initial}, CreateUser(u, p, r)
          PROVE  Completed(v, q)' \subseteq Completed(v, q)
      <3>1. p \in Int BY <1>1, LedgerAssumption DEF LedgerAssumption, LedgerTypeOK
      <3>2. UNCHANGED rows \/ Post(u, p, rows, "admin_adjust", "completed", r)
        BY <2>2 DEF CreateUser
      <3> QED BY <1>3, <2>1, <3>1, <3>2
    <2>3. ASSUME NEW u \in Users, NEW r \in OtherRefs, NEW n \in Adjustments, Adjust(u, n, r)
          PROVE  Completed(v, q)' \subseteq Completed(v, q)
      <3>1. n \in Int BY LedgerAssumption DEF LedgerAssumption
      <3> QED BY <2>1, <2>3, <3>1 DEF Adjust
    <2> QED BY <1>3, <1>4, <2>2, <2>3 DEF Administer, UpdateCreditRule, SetUserEnabled
  <1>5. ASSUME NEW u \in Users, NEW r \in Refs, Reserve(u, r)
        PROVE  Completed(v, q)' \subseteq Completed(v, q)
    <2>1. CASE ReserveAgain(u, r) BY <1>3, <2>1 DEF ReserveAgain, ledgerVars
    <2>2. CASE ReserveNew(u, r)
      <3>1. -rule.cost \in Int BY <1>1 DEF LedgerTypeOK
      <3>2. Post(u, -rule.cost, rows, "consume", "pending", r) BY <2>2 DEF ReserveNew
      <3> QED BY <1>1, <1>2, <3>1, <3>2, CompletedPost
    <2> QED BY <1>5, <2>1, <2>2 DEF Reserve
  <1>6. ASSUME NEW u \in Users, NEW r \in Refs, Refund(u, r)
        PROVE  Completed(v, q)' \subseteq Completed(v, q)
    <2>1. CASE RefundNothing(u, r) BY <1>3, <2>1 DEF RefundNothing, ledgerVars
    <2>2. CASE RefundPending(u, r)
      <3> DEFINE i == Newest(Pending(u, r))
                 table == [rows EXCEPT ![i].status = "reversed"]
      <3>1. Pending(u, r) # {} BY <2>2 DEF RefundPending
      <3>2. i \in Pending(u, r) /\ Kept(table) BY <1>1, <3>1, NewestPending, RefundTable
      <3>3. i \in 1..Len(rows) /\ rows[i] \in Row BY <1>1, <3>2 DEF Pending
      <3>4. -rows[i].amount \in Int BY <3>3 DEF Row
      <3>5. Post(u, -rows[i].amount, table, "refund", "completed", r)
        BY <2>2 DEF RefundPending
      <3> HIDE DEF i
      <3>6. \A j \in 1..Len(rows) : table[j].status = "completed" => rows[j].status = "completed"
        BY <1>1, <3>3 DEF Row
      <3>7. table \in Seq(Row) BY <3>2 DEF Kept
      <3> HIDE DEF table
      <3> QED BY <1>1, <3>2, <3>4, <3>5, <3>6, <3>7, CompletedPost
    <2> QED BY <1>6, <2>1, <2>2 DEF Refund
  <1>7. ASSUME UNCHANGED ledgerVars PROVE Completed(v, q)' \subseteq Completed(v, q)
    BY <1>3, <1>7 DEF ledgerVars
  <1> QED BY <1>4, <1>5, <1>6, <1>7 DEF LedgerPart

(* A confirmation completes at most one charge, and of its reference only. *)
LEMMA CompletedConfirm ==
    ASSUME IInv, NEW u \in Users, NEW r \in Refs, Confirm(u, r), NEW v, NEW q
    PROVE  /\ v # u \/ q # r => Completed(v, q)' \subseteq Completed(v, q)
           /\ \E i : Completed(u, r)' \subseteq Completed(u, r) \union {i}
  <1>1. rows \in Seq(Row) /\ DOMAIN rows = 1..Len(rows) BY DEF IInv, LedgerTypeOK
  <1>2. /\ DOMAIN rows' = DOMAIN rows
        /\ \A i \in DOMAIN rows :
              rows'[i] = IF i \in Pending(u, r) THEN [rows[i] EXCEPT !.status = "completed"]
                         ELSE rows[i]
    BY DEF Confirm
  <1>3. \A i \in DOMAIN rows : /\ rows'[i].user = rows[i].user /\ rows'[i].ref = rows[i].ref
                               /\ rows'[i].type = rows[i].type
                               /\ i \notin Pending(u, r) => rows'[i] = rows[i]
    <2>1. \A i \in DOMAIN rows : rows[i] \in Row BY <1>1
    <2> QED BY <1>2, <2>1 DEF Row
  <1>4. v # u \/ q # r => Completed(v, q)' \subseteq Completed(v, q)
    BY <1>2, <1>3 DEF Completed, Pending
  <1>5. Completed(u, r)' \subseteq Completed(u, r) \union Pending(u, r)
    BY <1>2, <1>3 DEF Completed
  <1>6. \E i : Pending(u, r) \subseteq {i}
    <2>1. CASE Pending(u, r) = {} BY <2>1
    <2>2. CASE Pending(u, r) # {}
      <3>1. PICK i \in Pending(u, r) : TRUE BY <2>2
      <3>2. \A j \in Pending(u, r) : j = i BY <3>1 DEF IInv, OnePendingCharge, Pending
      <3> QED BY <3>2
    <2> QED BY <2>1, <2>2
  <1> QED BY <1>4, <1>5, <1>6

-----------------------------------------------------------------------------
LEMMA FinitePaid ==
    ASSUME LedgerTypeOK, NEW u, NEW r
    PROVE  /\ IsFiniteSet(Completed(u, r)) /\ Cardinality(Completed(u, r)) \in Nat
           /\ IsFiniteSet(Owned(u, r)) /\ Cardinality(Owned(u, r)) \in Nat
  <1>1. rows \in Seq(Row) /\ DOMAIN rows = 1..Len(rows) /\ Len(rows) \in Nat
    BY DEF LedgerTypeOK
  <1>2. MaxIds \in Nat BY CreationAssumption DEF CreationAssumption
  <1>3. IsFiniteSet(1..Len(rows)) /\ IsFiniteSet(1..MaxIds) BY <1>1, <1>2, FS_Interval
  <1>4. Completed(u, r) \in SUBSET (1..Len(rows)) BY <1>1 DEF Completed
  <1>5. Owned(u, r) \in SUBSET (1..MaxIds) BY DEF Owned, Ids
  <1>6. IsFiniteSet(Completed(u, r)) /\ IsFiniteSet(Owned(u, r))
    BY <1>3, <1>4, <1>5, FS_Subset
  <1> QED BY <1>6, FS_CardinalityType

(* Two calls at work never have the same reference: the lock of the key, or*)
(* the id of the call, keeps them apart.                                   *)
LEMMA RefUnique ==
    ASSUME CreationInv, NEW s \in Tasks, NEW t \in Tasks, pc[s] # "idle", pc[t] # "idle",
           JobRef(s) = JobRef(t)
    PROVE  s = t
  <1> USE DEF CreationInv
  <1>1. /\ JobRef(s) \in SectionKeys \union {IdRef(job[s].id)}
        /\ JobRef(s) \in SectionKeys => job[s].key # NoKey /\ JobRef(s) = job[s].key
        /\ JobRef(t) \in SectionKeys \union {IdRef(job[t].id)}
        /\ JobRef(t) \in SectionKeys => job[t].key # NoKey /\ JobRef(t) = job[t].key
    BY JobRefs
  <1>2. CASE JobRef(s) \in SectionKeys
    <2>1. job[s].key = job[t].key /\ job[s].key # NoKey BY <1>1, <1>2
    <2> QED BY <2>1 DEF TasksOK
  <1>3. CASE JobRef(s) \notin SectionKeys
    <2>1. IdRef(job[s].id) = IdRef(job[t].id) BY <1>1, <1>3
    <2>2. IdRef(job[s].id)[2] = job[s].id /\ IdRef(job[t].id)[2] = job[t].id BY DEF IdRef
    <2>3. job[s].id = job[t].id BY <2>1, <2>2
    <2> QED BY <2>3 DEF IdsOK
  <1> QED BY <1>2, <1>3

(* Only a call that saves comes to confirm.                                *)
LEMMA ConfirmingBefore ==
    ASSUME TasksOK, TaskPart, NEW x \in Tasks, pc'[x] = "confirm"
    PROVE  /\ job'[x] = job[x]
           /\ pc[x] = "confirm" \/ Saves(x)
  <1>1. CASE UNCHANGED taskVars BY <1>1 DEF taskVars
  <1>2. ASSUME NEW t \in Tasks, NEW s \in Stages, Moves(t, s)
        PROVE  job'[x] = job[x] /\ (pc[x] = "confirm" \/ Saves(x))
    <2>1. CASE x = t
      <3>1. s = "confirm" BY <1>2, <2>1 DEF Moves, TasksOK
      <3>2. Saves(t) BY <1>2, <3>1 DEF Moves
      <3> QED BY <2>1, <3>2 DEF Saves
    <2>2. CASE x # t BY <1>2, <2>2 DEF Moves, TasksOK
    <2> QED BY <2>1, <2>2
  <1>3. ASSUME NEW t \in Tasks, Ends(t) PROVE job'[x] = job[x] /\ pc[x] = "confirm"
    BY <1>3 DEF Ends, End, Await, TasksOK
  <1>4. ASSUME NEW t \in Tasks, Begins(t) PROVE job'[x] = job[x] /\ pc[x] = "confirm"
    BY <1>4 DEF Begins, TasksOK
  <1>5. CASE Restarts BY <1>5 DEF Restarts
  <1> QED BY <1>1, <1>2, <1>3, <1>4, <1>5 DEF TaskPart

(* A reference keeps its mailboxes.                                        *)
LEMMA OwnedGrows ==
    ASSUME CreationInv, StorePart, NEW u, NEW r
    PROVE  Owned(u, r) \subseteq Owned(u, r)'
  <1> USE DEF CreationInv
  <1> SUFFICES ASSUME NEW n \in Owned(u, r) PROVE n \in Owned(u, r)' OBVIOUS
  <1>1. /\ n \in Ids /\ mailboxes[n] # NoMailbox /\ mailboxes[n] \in Mailbox
        /\ mailboxes[n].owner = u /\ mailboxes[n].ref = r
    BY DEF Owned, StoreTypeOK
  <1>2. ASSUME mailboxes'[n] = mailboxes[n] PROVE n \in Owned(u, r)'
    BY <1>1, <1>2 DEF Owned
  <1>3. CASE UNCHANGED storeVars \/ Purges BY <1>2, <1>3 DEF storeVars, Purges
  <1>4. ASSUME NEW t \in Tasks, Saves(t) PROVE mailboxes'[n] = mailboxes[n]
    <2>1. mailboxes[job[t].id] = NoMailbox BY <1>4 DEF Saves, IdsOK, Unsaved
    <2> QED BY <1>1, <1>4, <2>1 DEF Saves, StoreTypeOK
  <1>5. ASSUME NEW m \in Ids, Expires(m) PROVE n \in Owned(u, r)'
    <2>1. CASE m # n BY <1>1, <1>2, <1>5, <2>1 DEF Expires, StoreTypeOK
    <2>2. CASE m = n
      <3> DEFINE x == [mailboxes[n] EXCEPT !.live = FALSE]
      <3>1. x \in Mailbox /\ x.owner = u /\ x.ref = r BY <1>1 DEF Mailbox
      <3>2. mailboxes'[n] = x BY <1>1, <1>5, <2>2 DEF Expires, StoreTypeOK
      <3> HIDE DEF x
      <3> QED BY <1>1, <3>1, <3>2, RowAssumption DEF Owned
    <2> QED BY <2>1, <2>2
  <1> QED BY <1>2, <1>3, <1>4, <1>5 DEF StorePart

(* A call that saves adds a mailbox to its reference.                      *)
LEMMA OwnedSaves ==
    ASSUME CreationInv, NEW t \in Tasks, Saves(t)
    PROVE  /\ job[t].id \notin Owned(job[t].user, JobRef(t))
           /\ job[t].id \in Owned(job[t].user, JobRef(t))'
  <1> USE DEF CreationInv
  <1>1. pc[t] # "idle" /\ job'[t] = job[t] /\ mailboxes[job[t].id] = NoMailbox
    BY DEF Saves, IdsOK, Unsaved
  <1>2. job[t] \in Job /\ job[t].cands # <<>> BY <1>1 DEF TasksOK
  <1>3. CandDomain(t) \in Domains /\ CandInstance(t) \in Instances
    BY <1>1, CandidateType
  <1>4. job[t].user \in Users /\ job[t].id \in Ids BY <1>2 DEF Job
  <1>5. JobRef(t) \in Refs BY <1>1, JobRefs
  <1> DEFINE m == [owner |-> job[t].user, ref |-> JobRef(t),
                   domain |-> CandDomain(t), instance |-> CandInstance(t), live |-> TRUE]
  <1>6. m \in Mailbox /\ m.owner = job[t].user /\ m.ref = JobRef(t)
    BY <1>3, <1>4, <1>5 DEF Mailbox
  <1>7. mailboxes' = [mailboxes EXCEPT ![job[t].id] = m] BY DEF Saves
  <1> HIDE DEF m
  <1>8. mailboxes'[job[t].id] = m /\ m # NoMailbox
    BY <1>4, <1>6, <1>7, RowAssumption DEF StoreTypeOK
  <1>9. JobRef(t)' = JobRef(t) BY <1>1 DEF JobRef
  <1>10. job[t].id \notin Owned(job[t].user, JobRef(t)) BY <1>1 DEF Owned
  <1>11. job[t].id \in Owned(job[t].user, JobRef(t))'
    BY <1>1, <1>4, <1>6, <1>8, <1>9 DEF Owned
  <1> QED BY <1>10, <1>11

(* One more element makes a finite set larger by one at most.              *)
LEMMA OneMore ==
    ASSUME NEW S, IsFiniteSet(S), NEW x
    PROVE  IsFiniteSet(S \union {x}) /\ Cardinality(S \union {x}) <= Cardinality(S) + 1
  <1>1. IsFiniteSet(S \union {x})
        /\ Cardinality(S \union {x}) = IF x \in S THEN Cardinality(S) ELSE Cardinality(S) + 1
    BY FS_AddElement
  <1>2. Cardinality(S) \in Nat BY FS_CardinalityType
  <1> QED BY <1>1, <1>2

(* Nobody finally pays without getting.                                    *)
LEMMA PaidKept ==
    ASSUME CreationInv, TaskPart, StorePart, LedgerPart
    PROVE  Paid'
  <1> USE DEF CreationInv
  <1> SUFFICES ASSUME NEW u \in Users, NEW r \in Refs
               PROVE  Cardinality(Completed(u, r)') + (IF Confirming(u, r)' = {} THEN 0 ELSE 1)
                          <= Cardinality(Owned(u, r)')
    BY DEF Paid
  <1> DEFINE C == Completed(u, r)  CC == Completed(u, r)'
             O == Owned(u, r)      OO == Owned(u, r)'
             W == Confirming(u, r) WW == Confirming(u, r)'
  <1>1. IInv /\ LedgerTypeOK BY DEF IInv
  <1>2. /\ IsFiniteSet(C) /\ Cardinality(C) \in Nat
        /\ IsFiniteSet(O) /\ Cardinality(O) \in Nat
    BY <1>1, FinitePaid
  <1>3. IsFiniteSet(OO) /\ Cardinality(OO) \in Nat
    <2>1. OO \in SUBSET (1..MaxIds) BY DEF Owned, Ids
    <2>2. MaxIds \in Int BY CreationAssumption DEF CreationAssumption
    <2>3. IsFiniteSet(1..MaxIds) BY <2>2, FS_Interval
    <2> QED BY <2>1, <2>3, FS_Subset, FS_CardinalityType
  <1>4. O \subseteq OO /\ Cardinality(O) <= Cardinality(OO)
    BY <1>3, OwnedGrows, FS_Subset
  <1>5. Cardinality(C) + (IF W = {} THEN 0 ELSE 1) <= Cardinality(O) BY DEF Paid
  <1>6. ASSUME NEW x \in WW
        PROVE  /\ x \in Tasks /\ pc'[x] = "confirm" /\ pc[x] # "idle"
               /\ job[x].user = u /\ JobRef(x) = r
               /\ x \in W \/ Saves(x)
    <2>1. x \in Tasks /\ pc'[x] = "confirm" /\ job'[x].user = u /\ JobRef(x)' = r
      BY DEF Confirming
    <2>2. job'[x] = job[x] /\ (pc[x] = "confirm" \/ Saves(x)) BY <2>1, ConfirmingBefore
    <2>3. JobRef(x) = r BY <2>1, <2>2 DEF JobRef
    <2> QED BY <2>1, <2>2, <2>3 DEF Confirming, Saves
  <1> DEFINE Mine(t) == ConfirmCredit(t) /\ job[t].user = u /\ JobRef(t) = r
  <1>7. CASE \E t \in Tasks : Mine(t)
    <2>1. PICK t \in Tasks : Mine(t) BY <1>7
    <2>2. pc[t] = "confirm" /\ pc'[t] = "mark" /\ Confirm(u, r)
      BY <2>1 DEF ConfirmCredit, Runs, RunTo, TasksOK
    <2>3. PICK i : CC \subseteq C \union {i} BY <1>1, <2>2, CompletedConfirm
    <2>4. /\ IsFiniteSet(C \union {i})
          /\ Cardinality(C \union {i}) <= Cardinality(C) + 1
      BY <1>2, OneMore
    <2>5. IsFiniteSet(CC) /\ Cardinality(CC) <= Cardinality(C \union {i})
      BY <2>3, <2>4, FS_Subset
    <2>6. Cardinality(CC) \in Nat /\ Cardinality(C \union {i}) \in Nat
      BY <2>4, <2>5, FS_CardinalityType
    <2>7. t \in W BY <2>1, <2>2 DEF Confirming
    <2>8. WW = {}
      <3> SUFFICES ASSUME NEW x \in WW PROVE FALSE OBVIOUS
      <3>1. x = t BY <1>6, <2>1, <2>2, RefUnique
      <3> QED BY <1>6, <2>2, <3>1
    <2> HIDE DEF C, CC, O, OO, W, WW
    <2>9. Cardinality(CC) <= Cardinality(C) + 1 BY <1>2, <2>4, <2>5, <2>6
    <2>10. Cardinality(C) + 1 <= Cardinality(O) BY <1>5, <2>7
    <2>11. Cardinality(CC) + 0 <= Cardinality(OO) BY <1>2, <1>3, <1>4, <2>6, <2>9, <2>10
    <2>12. Cardinality(CC) + (IF WW = {} THEN 0 ELSE 1) <= Cardinality(OO) BY <2>8, <2>11
    <2> QED BY <2>12 DEF CC, OO, WW
  <1>8. CASE ~\E t \in Tasks : Mine(t)
    <2>1. CC \subseteq C
      <3>1. CASE \E t \in Tasks : ConfirmCredit(t)
        <4>1. PICK t \in Tasks : ConfirmCredit(t) BY <3>1
        <4>2. pc[t] # "idle" /\ Confirm(job[t].user, JobRef(t))
          BY <4>1 DEF ConfirmCredit, Runs
        <4>3. job[t].user \in Users /\ JobRef(t) \in Refs
          BY <4>2, JobRefs DEF TasksOK, Job
        <4>4. u # job[t].user \/ r # JobRef(t) BY <1>8, <4>1
        <4> QED BY <1>1, <4>2, <4>3, <4>4, CompletedConfirm
      <3>2. CASE ~\E t \in Tasks : ConfirmCredit(t) BY <3>2, CompletedKept
      <3> QED BY <3>1, <3>2
    <2>2. IsFiniteSet(CC) /\ Cardinality(CC) <= Cardinality(C) BY <1>2, <2>1, FS_Subset
    <2>3. Cardinality(CC) \in Nat BY <2>2, FS_CardinalityType
    <2>4. CASE \E x \in WW : Saves(x)
      <3>1. PICK x \in WW : Saves(x) BY <2>4
      <3>2. job[x].id \notin O /\ job[x].id \in OO
        <4>1. x \in Tasks /\ job[x].user = u /\ JobRef(x) = r BY <1>6
        <4>2. job'[x] = job[x] BY <3>1 DEF Saves
        <4>3. JobRef(x)' = r /\ job'[x].user = u BY <4>1, <4>2 DEF JobRef
        <4>4. /\ job[x].id \notin Owned(job[x].user, JobRef(x))
              /\ job[x].id \in Owned(job[x].user, JobRef(x))'
          BY <3>1, <4>1, OwnedSaves
        <4>5. job[x].id \notin O BY <4>1, <4>4
        <4>6. job[x].id \in OO BY <4>3, <4>4 DEF Owned
        <4> QED BY <4>5, <4>6
      <3>3. /\ IsFiniteSet(O \union {job[x].id})
            /\ Cardinality(O \union {job[x].id}) = Cardinality(O) + 1
        BY <1>2, <3>2, FS_AddElement
      <3>4. O \union {job[x].id} \in SUBSET OO BY <1>4, <3>2
      <3>5. Cardinality(O) + 1 <= Cardinality(OO) BY <1>3, <3>3, <3>4, FS_Subset
      <3> HIDE DEF C, CC, O, OO, W, WW
      <3>6. Cardinality(C) <= Cardinality(O) BY <1>2, <1>5
      <3>7. Cardinality(CC) + (IF WW = {} THEN 0 ELSE 1) <= Cardinality(OO)
        BY <1>2, <1>3, <2>2, <2>3, <3>5, <3>6
      <3> QED BY <3>7 DEF CC, OO, WW
    <2>5. CASE ~\E x \in WW : Saves(x)
      <3>1. WW \subseteq W BY <1>6, <2>5
      <3> HIDE DEF C, CC, O, OO, W, WW
      <3>2. W = {} => WW = {} BY <3>1
      <3>3. Cardinality(CC) + (IF WW = {} THEN 0 ELSE 1) <= Cardinality(OO)
        BY <1>2, <1>3, <1>4, <1>5, <2>2, <2>3, <3>2
      <3> QED BY <3>3 DEF CC, OO, WW
    <2> QED BY <2>4, <2>5
  <1> QED BY <1>7, <1>8

(* Ids are only drawn.                                                     *)
LEMMA IdsGrow ==
    ASSUME CreationInv, CreationNext
    PROVE  lastId' \in Nat /\ lastId' >= lastId
  <1>1. lastId \in Nat
    BY CreationAssumption DEF CreationAssumption, CreationInv, OthersTypeOK
  <1>2. ASSUME NEW t \in Tasks, Arrive(t) PROVE lastId' = lastId \/ lastId' = lastId + 1
    BY <1>2 DEF Arrive, AnswerAtOnce, Begin
  <1>3. ASSUME NEW t \in Tasks, Proceed(t) PROVE lastId' = lastId
    BY <1>3 DEF Proceed, Send, ClientFails, Created, Collides, Refused, NoAnswer, Fail,
                Save, SaveRefused, ConfirmCredit, Finish, GiveBack
  <1>4. ASSUME NEW t \in Tasks, DbFault(t) \/ Cancelled(t) PROVE lastId' = lastId
    BY <1>4 DEF DbFault, Cancelled
  <1>5. ASSUME Surroundings PROVE lastId' = lastId
    BY <1>5 DEF Surroundings, UpstreamCreates, Expire, ManagePool, Crash
  <1>6. ASSUME Quiet PROVE lastId' = lastId BY <1>6 DEF Quiet, creationVars
  <1> QED BY <1>1, <1>2, <1>3, <1>4, <1>5, <1>6 DEF CreationNext

-----------------------------------------------------------------------------
(* An account that exists on CloudMail stays.                              *)
LEMMA UpstreamGrows ==
    ASSUME CreationNext
    PROVE  upstream \subseteq upstream'
  <1>1. ASSUME NEW t \in Tasks, Arrive(t) PROVE upstream' = upstream
    BY <1>1 DEF Arrive, AnswerAtOnce, Begin, cloudVars
  <1>2. ASSUME NEW t \in Tasks, Proceed(t) PROVE upstream' = upstream
    BY <1>2 DEF Proceed, Send, ClientFails, Created, Collides, Refused, NoAnswer, Fail,
                Save, SaveRefused, ConfirmCredit, Finish, GiveBack, cloudVars
  <1>3. ASSUME NEW t \in Tasks, DbFault(t) \/ Cancelled(t) PROVE upstream' = upstream
    BY <1>3 DEF DbFault, Cancelled, cloudVars
  <1>4. ASSUME Surroundings PROVE upstream \subseteq upstream'
    BY <1>4 DEF Surroundings, UpstreamCreates, Expire, ManagePool, Crash, cloudVars
  <1>5. ASSUME Quiet PROVE upstream' = upstream BY <1>5 DEF Quiet, creationVars, cloudVars
  <1> QED BY <1>1, <1>2, <1>3, <1>4, <1>5 DEF CreationNext

(* Only a call whose account exists comes to save, with the candidate the  *)
(* account is of.                                                          *)
LEMMA SavingBefore ==
    ASSUME TasksOK, TaskPart, \A t \in Tasks : pc[t] = "save" => Address(t) \in upstream,
           NEW x \in Tasks, pc'[x] = "save"
    PROVE  job'[x] = job[x] /\ Address(x) \in upstream
  <1>1. CASE UNCHANGED taskVars BY <1>1 DEF taskVars
  <1>2. ASSUME NEW t \in Tasks, NEW s \in Stages, Moves(t, s)
        PROVE  job'[x] = job[x] /\ Address(x) \in upstream
    <2>1. CASE x = t
      <3>1. s = "save" BY <1>2, <2>1 DEF Moves, TasksOK
      <3> QED BY <1>2, <2>1, <3>1 DEF Moves
    <2>2. CASE x # t BY <1>2, <2>2 DEF Moves, TasksOK
    <2> QED BY <2>1, <2>2
  <1>3. ASSUME NEW t \in Tasks, Ends(t) PROVE job'[x] = job[x] /\ pc[x] = "save"
    BY <1>3 DEF Ends, End, Await, TasksOK
  <1>4. ASSUME NEW t \in Tasks, Begins(t) PROVE job'[x] = job[x] /\ pc[x] = "save"
    BY <1>4 DEF Begins, TasksOK
  <1>5. CASE Restarts BY <1>5 DEF Restarts
  <1> QED BY <1>1, <1>2, <1>3, <1>4, <1>5 DEF TaskPart

(* A mailbox that has just been saved is of an account that exists.        *)
LEMMA SavedAtServer ==
    ASSUME CreationInv, NEW t \in Tasks, Saves(t)
    PROVE  /\ job[t].id \in Ids
           /\ <<job[t].id, mailboxes'[job[t].id].domain, mailboxes'[job[t].id].instance>>
                  \in upstream
           /\ mailboxes'[job[t].id].instance \in Instances
           /\ instances[mailboxes'[job[t].id].instance] # NoInstance
  <1> USE DEF CreationInv
  <1>1. pc[t] = "save" /\ Address(t) \in upstream /\ instances[CandInstance(t)] # NoInstance
    BY DEF Saves, ServerOK, CanSave
  <1>2. job[t].id \in Ids /\ CandInstance(t) \in Instances
    BY <1>1, CandidateType DEF TasksOK, Job
  <1> DEFINE m == [owner |-> job[t].user, ref |-> JobRef(t),
                   domain |-> CandDomain(t), instance |-> CandInstance(t), live |-> TRUE]
  <1>3. mailboxes'[job[t].id] = m BY <1>2 DEF Saves, StoreTypeOK
  <1>4. m.domain = CandDomain(t) /\ m.instance = CandInstance(t) OBVIOUS
  <1> QED BY <1>1, <1>2, <1>3, <1>4 DEF Address

LEMMA ServerKept ==
    ASSUME CreationInv, TaskPart, StorePart, DomainPart, upstream \subseteq upstream'
    PROVE  ServerOK'
  <1> USE DEF CreationInv
  <1>1. ASSUME NEW x \in Tasks, pc'[x] = "save" PROVE Address(x)' \in upstream'
    <2>1. job'[x] = job[x] /\ Address(x) \in upstream
      BY <1>1, SavingBefore DEF ServerOK
    <2> QED BY <2>1 DEF Address, CandDomain, CandInstance
  <1>2. ASSUME NEW n \in Ids, mailboxes[n] # NoMailbox
        PROVE  /\ mailboxes[n] \in Mailbox
               /\ mailboxes[n].instance \in Instances
               /\ <<n, mailboxes[n].domain, mailboxes[n].instance>> \in upstream'
               /\ instances'[mailboxes[n].instance] # NoInstance
    <2>1. mailboxes[n] \in Mailbox /\ mailboxes[n].instance \in Instances
      BY <1>2 DEF StoreTypeOK, Mailbox
    <2>2. n \in Recorded /\ mailboxes[n].instance \in InstancesInUse
      BY <1>2 DEF Recorded, InstancesInUse
    <2> QED BY <2>1, <2>2, InstancesStay DEF ServerOK, MailboxAtItsServer
  <1> SUFFICES ASSUME NEW n \in Ids, mailboxes'[n] # NoMailbox
               PROVE  /\ <<n, mailboxes'[n].domain, mailboxes'[n].instance>> \in upstream'
                      /\ instances'[mailboxes'[n].instance] # NoInstance
    BY <1>1 DEF ServerOK, MailboxAtItsServer, Recorded
  <1>3. CASE mailboxes'[n] = mailboxes[n] BY <1>2, <1>3
  <1>4. ASSUME Expires(n)
        PROVE  /\ mailboxes[n] # NoMailbox
               /\ mailboxes'[n].domain = mailboxes[n].domain
               /\ mailboxes'[n].instance = mailboxes[n].instance
    BY <1>4 DEF Expires, StoreTypeOK, Mailbox
  <1>5. ASSUME NEW m \in Ids, Expires(m), m # n PROVE mailboxes'[n] = mailboxes[n]
    BY <1>5 DEF Expires, StoreTypeOK
  <1>6. ASSUME NEW t \in Tasks, Saves(t), job[t].id # n PROVE mailboxes'[n] = mailboxes[n]
    BY <1>6 DEF Saves, StoreTypeOK
  <1>7. ASSUME NEW t \in Tasks, Saves(t), job[t].id = n
        PROVE  /\ <<n, mailboxes'[n].domain, mailboxes'[n].instance>> \in upstream'
               /\ instances'[mailboxes'[n].instance] # NoInstance
    <2>1. UNCHANGED instances BY <1>7 DEF Saves
    <2> QED BY <1>7, <2>1, SavedAtServer
  <1> QED BY <1>2, <1>3, <1>4, <1>5, <1>6, <1>7 DEF StorePart, storeVars, Purges

-----------------------------------------------------------------------------
LEMMA CreationBegins == CreationInit => CreationInv
  <1> SUFFICES ASSUME CreationInit PROVE CreationInv OBVIOUS
  <1>1. IInv BY InitHolds DEF CreationInit
  <1>2. PICK f \in [Domains -> {i \in Instances : instances[i] # NoInstance}],
             n \in [Domains -> 0 .. Threshold - 1] :
            domains = [d \in Domains |-> [NewDomain(f[d]) EXCEPT !.failures = n[d]]]
    BY CreationAssumption DEF CreationAssumption, CreationInit
  <1>3. /\ Threshold \in Nat \ {0}
        /\ {MaxIds, MaxCrashes, MaxDbFaults, MaxAdmin} \subseteq Nat /\ NoTask \notin Tasks
    BY DomainAssumption, CreationAssumption DEF DomainAssumption, CreationAssumption
  <1>4. \A d \in Domains : domains[d] \in Domain
    <2> SUFFICES ASSUME NEW d \in Domains PROVE domains[d] \in Domain OBVIOUS
    <2>1. n[d] \in Nat /\ f[d] \in Instances BY <1>3
    <2> QED BY <1>2, <2>1 DEF NewDomain, Domain, Status
  <1>5. DomainTypeOK
    <2>1. NewInstance \in Instance BY DEF NewInstance, Instance
    <2>2. instances \in [Instances -> {NewInstance, NoInstance}] BY DEF CreationInit
    <2>3. instances \in [Instances -> Instance \union {NoInstance}] BY <2>1, <2>2
    <2>4. domains \in [Domains -> Domain \union {NoDomain}] BY <1>2, <1>4
    <2> QED BY <2>3, <2>4 DEF DomainTypeOK
  <1>6. HealthConsistent /\ DomainsHaveInstance
    BY <1>2, <1>3 DEF HealthConsistent, DomainsHaveInstance, NewDomain
  <1>7. TasksOK BY <1>3 DEF CreationInit, TasksOK, Stages, Mutex!MutexInit
  <1>8. StoreTypeOK /\ NoConflict /\ LiveRecorded
    BY DEF CreationInit, StoreTypeOK, NoConflict, LiveRecorded, Unsaved
  <1>9. OthersTypeOK BY <1>3 DEF CreationInit, OthersTypeOK
  <1>10. IdsOK BY DEF CreationInit, IdsOK, Unsaved
  <1>11. Paid
    <2> SUFFICES ASSUME NEW u \in Users, NEW r \in Refs
                 PROVE  Cardinality(Completed(u, r)) + (IF Confirming(u, r) = {} THEN 0 ELSE 1)
                            <= Cardinality(Owned(u, r))
      BY DEF Paid
    <2>1. Completed(u, r) = {} BY DEF CreationInit, LedgerInit, Completed
    <2>2. Owned(u, r) = {} /\ Confirming(u, r) = {} BY DEF CreationInit, Owned, Confirming
    <2>3. Cardinality({}) = 0 BY FS_EmptySet
    <2> QED BY <2>1, <2>2, <2>3
  <1>12. ServerOK
    <2>1. Recorded = {} /\ \A t \in Tasks : pc[t] = "idle" BY DEF CreationInit, Recorded
    <2> QED BY <2>1 DEF ServerOK, MailboxAtItsServer
  <1> QED BY <1>1, <1>5, <1>6, <1>7, <1>8, <1>9, <1>10, <1>11, <1>12 DEF CreationInv

LEMMA CreationKeeps == CreationInv /\ [CreationNext]_creationVars => CreationInv'
  <1> SUFFICES ASSUME CreationInv, [CreationNext]_creationVars PROVE CreationInv' OBVIOUS
  <1>1. CASE CreationNext
    <2>1. TaskPart /\ StorePart /\ DomainPart /\ LedgerPart
      BY <1>1, DoTaskPart, DoStorePart, DoDomainPart, DoLedgerPart
    <2>2. IInv' BY <2>1, LedgerPartIsLedger, StepHolds DEF CreationInv
    <2>3. TasksOK' BY <2>1, TasksKept
    <2>4. StoreTypeOK' /\ LiveRecorded' BY <2>1, StoreTypeKept, LiveKept
    <2>5. NoConflict' BY <2>1, <2>3, NoConflictKept
    <2>6. DomainTypeOK' /\ HealthConsistent' /\ DomainsHaveInstance'
      BY <2>1, DomainsKept DEF PoolOK
    <2>7. OthersTypeOK' BY <1>1, OthersKept
    <2>8. IdsOK' BY <1>1, <2>1, IdsGrow, IdsKept
    <2>9. Paid' BY <2>1, PaidKept
    <2>10. ServerOK' BY <1>1, <2>1, UpstreamGrows, ServerKept
    <2> QED BY <2>2, <2>3, <2>4, <2>5, <2>6, <2>7, <2>8, <2>9, <2>10 DEF CreationInv
  <1>2. CASE UNCHANGED creationVars
    <2>1. IInv' BY <1>2, StepHolds DEF CreationInv, creationVars
    <2>2. TaskPart /\ StorePart /\ DomainPart /\ LedgerPart
      BY <1>2 DEF creationVars, TaskPart, StorePart, DomainPart, LedgerPart
    <2>3. TasksOK' BY <2>2, TasksKept
    <2>4. OthersTypeOK' BY <1>2 DEF creationVars, cloudVars, CreationInv, OthersTypeOK
    <2>5. lastId' \in Nat /\ lastId' >= lastId
      BY <1>2, CreationAssumption
         DEF creationVars, CreationAssumption, CreationInv, OthersTypeOK
    <2>6. /\ StoreTypeOK' /\ LiveRecorded' /\ NoConflict'
          /\ DomainTypeOK' /\ HealthConsistent' /\ DomainsHaveInstance'
      BY <2>2, <2>3, StoreTypeKept, LiveKept, NoConflictKept, DomainsKept DEF PoolOK
    <2>8. ServerOK' BY <1>2, <2>2, ServerKept DEF creationVars, cloudVars
    <2>7. IdsOK' /\ Paid' BY <2>2, <2>5, IdsKept, PaidKept
    <2> QED BY <2>1, <2>3, <2>4, <2>6, <2>7, <2>8 DEF CreationInv
  <1> QED BY <1>1, <1>2

(* The inductive invariant of the creation.                                *)
THEOREM CreationInvariant == CreationSpec => []CreationInv
  BY CreationBegins, CreationKeeps, PTL DEF CreationSpec

(* Every variable has its type: in particular no balance becomes negative  *)
(* and every reported domain is one of the pool, whatever fails when.      *)
THEOREM CreationType == CreationSpec => []CreationTypeOK
  <1>1. CreationInv => CreationTypeOK
    BY DEF CreationInv, IInv, TasksOK, StoreTypeOK, OthersTypeOK, CreationTypeOK
  <1> QED BY <1>1, CreationInvariant, PTL

(* The creation uses the ledger only through its transactions, so all that *)
(* is proved of the ledger holds while mailboxes are created.              *)
THEOREM CreationUsesLedger == CreationSpec => LedgerSpec
  <1>1. CreationInit => LedgerInit BY DEF CreationInit
  <1>2. CreationInv /\ [CreationNext]_creationVars => [LedgerNext]_ledgerVars
    BY DoLedgerPart, LedgerPartIsLedger DEF creationVars
  <1> QED BY <1>1, <1>2, CreationInvariant, PTL DEF CreationSpec, LedgerSpec

(* The statement of every user stays an account statement during creation, *)
(* over concurrent calls, crashes and failing transactions.                *)
THEOREM CreationStatement == CreationSpec => []LedgerChained
  BY CreationUsesLedger, LedgerStatement, PTL

(* The charges of the creation are holds on the wallet, captured or        *)
(* released once.                                                          *)
THEOREM CreationImplementsWallet == CreationSpec => ImplementsWallet
  BY CreationUsesLedger, LedgerImplementsWallet, PTL

(* The columns of a domain's health agree, though several calls report     *)
(* about it in any order (mark_domain_failure, mark_domain_success).       *)
THEOREM CreationHealth == CreationSpec => []HealthConsistent
  <1>1. CreationInv => HealthConsistent BY DEF CreationInv
  <1> QED BY <1>1, CreationInvariant, PTL

(* save_mailbox never meets a record of its key.                           *)
THEOREM CreationNoConflict == CreationSpec => []NoConflictAtSave
  <1>1. CreationInv => NoConflictAtSave
    BY DEF CreationInv, NoConflict, NoConflictAtSave, Unsaved
  <1> QED BY <1>1, CreationInvariant, PTL

(* A mailbox is recorded under the instance that has its account, which is *)
(* kept, though domains move and instances are deleted while calls wait.   *)
THEOREM CreationAtServer == CreationSpec => []MailboxAtItsServer
  <1>1. CreationInv => MailboxAtItsServer BY DEF CreationInv, ServerOK
  <1> QED BY <1>1, CreationInvariant, PTL

(* Every domain is on an instance that exists.                             *)
THEOREM CreationDomainsHaveInstance == CreationSpec => []DomainsHaveInstance
  <1>1. CreationInv => DomainsHaveInstance BY DEF CreationInv
  <1> QED BY <1>1, CreationInvariant, PTL

-----------------------------------------------------------------------------
(* The mailboxes of a key, before and after a step.                        *)
LEMMA KeyedSaves ==
    ASSUME CreationInv, NEW t \in Tasks, Saves(t)
    PROVE  [Keyed!KeyedNext]_([k \in SectionKeys |-> Answers(k)])
  <1> USE DEF CreationInv
  <1>1. pc[t] = "save" /\ job[t] \in Job /\ mailboxes[job[t].id] = NoMailbox
    BY DEF Saves, TasksOK, IdsOK, Unsaved
  <1> DEFINE n == job[t].id
             m == [owner |-> job[t].user, ref |-> JobRef(t), domain |-> CandDomain(t),
                   instance |-> CandInstance(t), live |-> TRUE]
  <1>2. n \in Ids /\ m.live /\ m.ref = JobRef(t) BY <1>1 DEF Job
  <1>3. m \in Mailbox
    <2>1. CandDomain(t) \in Domains /\ CandInstance(t) \in Instances BY <1>1, CandidateType
    <2>2. job[t].user \in Users /\ JobRef(t) \in Refs BY <1>1, JobRefs DEF Job
    <2> QED BY <2>1, <2>2 DEF Mailbox
  <1>4. mailboxes' = [mailboxes EXCEPT ![n] = m] BY DEF Saves
  <1> HIDE DEF m
  <1>5. m # NoMailbox BY <1>3, RowAssumption
  <1>6. ASSUME NEW k
        PROVE  Answers(k)' = IF k = JobRef(t) THEN Answers(k) \union {n} ELSE Answers(k)
    BY <1>1, <1>2, <1>4, <1>5 DEF Answers, Recorded, StoreTypeOK
  <1>7. CASE JobRef(t) \in SectionKeys
    <2> DEFINE q == JobRef(t)
    <2>1. q = job[t].key /\ job[t].key # NoKey BY <1>1, <1>7, JobRefs
    <2>2. idem[q] = NoRecord BY <2>1 DEF Saves, CanSave
    <2>3. Answers(q) = {} BY <1>7, <2>2 DEF Answers, Recorded, LiveRecorded
    <2>4. \A k \in SectionKeys : n \notin Answers(k) BY <1>1 DEF Answers, Recorded
    <2>5. [k \in SectionKeys |-> Answers(k)]' =
              [[k \in SectionKeys |-> Answers(k)] EXCEPT ![q] = {n}]
      BY <1>6, <1>7, <2>3
    <2>6. Keyed!CreateFor(q, n) BY <1>2, <1>7, <2>3, <2>4, <2>5 DEF Keyed!CreateFor
    <2> QED BY <1>2, <1>7, <2>6 DEF Keyed!KeyedNext
  <1>8. CASE JobRef(t) \notin SectionKeys
    <2>1. UNCHANGED [k \in SectionKeys |-> Answers(k)] BY <1>6, <1>8
    <2> QED BY <2>1
  <1> QED BY <1>7, <1>8

LEMMA KeyedExpires ==
    ASSUME CreationInv, NEW n \in Ids, Expires(n)
    PROVE  [Keyed!KeyedNext]_([k \in SectionKeys |-> Answers(k)])
  <1> USE DEF CreationInv
  <1>1. mailboxes[n] # NoMailbox /\ mailboxes[n] \in Mailbox BY DEF Expires, StoreTypeOK
  <1> DEFINE m == [mailboxes[n] EXCEPT !.live = FALSE]
             q == mailboxes[n].ref
  <1>2. m \in Mailbox /\ m.live = FALSE BY <1>1 DEF Mailbox
  <1>3. mailboxes' = [mailboxes EXCEPT ![n] = m] BY DEF Expires, StoreTypeOK
  <1> HIDE DEF m
  <1>4. ASSUME NEW k PROVE Answers(k)' = Answers(k) \ {n}
    BY <1>1, <1>2, <1>3, RowAssumption DEF Answers, Recorded, StoreTypeOK
  <1>5. ASSUME NEW k, n \in Answers(k) PROVE k = q BY <1>5 DEF Answers
  <1>6. CASE q \in SectionKeys /\ mailboxes[n].live
    <2>1. Answers(q) = {n}
      BY <1>1, <1>6 DEF Answers, Recorded, LiveRecorded
    <2>2. [k \in SectionKeys |-> Answers(k)]' =
              [[k \in SectionKeys |-> Answers(k)] EXCEPT ![q] = {}]
      BY <1>4, <1>5, <1>6, <2>1
    <2>3. Keyed!Lapse(q) BY <2>2 DEF Keyed!Lapse
    <2> QED BY <1>6, <2>3 DEF Keyed!KeyedNext
  <1>7. CASE ~(q \in SectionKeys /\ mailboxes[n].live)
    <2>1. ASSUME NEW k \in SectionKeys PROVE n \notin Answers(k) BY <1>7 DEF Answers
    <2>2. UNCHANGED [k \in SectionKeys |-> Answers(k)] BY <1>4, <2>1
    <2> QED BY <2>2
  <1> QED BY <1>6, <1>7

(* A key is answered with one mailbox for as long as that lives, through   *)
(* concurrent calls, lost answers, crashes and expiry (create_mailbox).    *)
THEOREM CreationImplementsKeyed == CreationSpec => ImplementsCreation
  <1> DEFINE answers == [k \in SectionKeys |-> Answers(k)]
  <1>1. CreationInit => Keyed!KeyedInit
    BY DEF CreationInit, Keyed!KeyedInit, Answers, Recorded
  <1>2. ASSUME CreationInv, [CreationNext]_creationVars
        PROVE  [Keyed!KeyedNext]_answers
    <2>1. CASE UNCHANGED mailboxes
      <3>1. UNCHANGED answers BY <2>1 DEF Answers, Recorded
      <3> QED BY <3>1
    <2>2. CASE ~UNCHANGED mailboxes
      <3>1. CreationNext BY <1>2, <2>2 DEF creationVars, storeVars
      <3>2. StorePart BY <1>2, <3>1, DoStorePart
      <3> QED BY <1>2, <2>2, <3>2, KeyedSaves, KeyedExpires DEF StorePart, storeVars, Purges
    <2> QED BY <2>1, <2>2
  <1> QED BY <1>1, <1>2, CreationInvariant, PTL
          DEF CreationSpec, ImplementsCreation, Keyed!KeyedSpec

(* Two mailboxes of a reference are never live at the same time.           *)
THEOREM CreationOneLive == CreationSpec => []OneLiveMailboxPerKey
  <1>1. ASSUME CreationInv PROVE OneLiveMailboxPerKey
    <2> SUFFICES ASSUME NEW m \in Ids, NEW n \in Ids,
                        mailboxes[m] # NoMailbox, mailboxes[m].live,
                        mailboxes[n] # NoMailbox, mailboxes[n].live,
                        mailboxes[m].ref = mailboxes[n].ref
                 PROVE  m = n
      BY DEF OneLiveMailboxPerKey
    <2>1. CASE mailboxes[m].ref \in SectionKeys
      BY <1>1, <2>1 DEF CreationInv, LiveRecorded
    <2>2. CASE mailboxes[m].ref \notin SectionKeys
      <3>1. mailboxes[m].ref = IdRef(m) /\ mailboxes[n].ref = IdRef(n)
        BY <1>1, <2>2 DEF CreationInv, LiveRecorded
      <3>2. IdRef(m)[2] = m /\ IdRef(n)[2] = n BY DEF IdRef
      <3> QED BY <3>1, <3>2
    <2> QED BY <2>1, <2>2
  <1> QED BY <1>1, CreationInvariant, PTL

(* Nobody finally pays without getting: save_mailbox comes before          *)
(* confirm_mailbox_credit, and neither a crash, a failing transaction, a   *)
(* lost answer nor an expiry between them completes a charge too many.     *)
THEOREM CreationChargedForMailbox == CreationSpec => []ChargedForMailbox
  <1>1. ASSUME CreationInv PROVE ChargedForMailbox
    <2> SUFFICES ASSUME NEW u \in Users, NEW r \in Refs
                 PROVE  Charges(u, r, "completed") <= MailboxesOf(u, r)
      BY DEF ChargedForMailbox
    <2>1. /\ Cardinality(Completed(u, r)) \in Nat /\ Cardinality(Owned(u, r)) \in Nat
      BY <1>1, FinitePaid DEF CreationInv, IInv
    <2>2. Cardinality(Completed(u, r)) + (IF Confirming(u, r) = {} THEN 0 ELSE 1)
              <= Cardinality(Owned(u, r))
      BY <1>1 DEF CreationInv, Paid
    <2>3. Charges(u, r, "completed") = Cardinality(Completed(u, r))
      BY DEF Charges, Completed
    <2>4. MailboxesOf(u, r) = Cardinality(Owned(u, r)) BY DEF MailboxesOf, Owned
    <2> QED BY <2>1, <2>2, <2>3, <2>4
  <1> QED BY <1>1, CreationInvariant, PTL

-----------------------------------------------------------------------------
(* The ledger as the creation uses it.                                     *)

(* Every reversed charge is paid back once, what it took, before its       *)
(* reference is charged again: concurrent calls, crashes and failing       *)
(* refunds included (refund_mailbox_credit).                               *)
THEOREM CreationRefunds == CreationSpec => []RefundsMatchReversals
  BY CreationUsesLedger, LedgerRefunds, PTL

(* The statement of a user is append-only while mailboxes are created.     *)
THEOREM CreationFrozen == CreationSpec => HistoryFrozen
  BY CreationUsesLedger, LedgerFrozen, PTL

-----------------------------------------------------------------------------
(* A step as a whole, as far as charges are concerned: no call takes one,  *)
(* a call goes on before its confirmation, or one of the steps in which a  *)
(* call is charged, settles, ends or is lost.                              *)
Resting ==
    /\ UNCHANGED taskVars
    /\ \/ UNCHANGED ledgerVars
       \/ \E u \in Users, p \in Grants, r \in OtherRefs : CreateUser(u, p, r)
    /\ faults'.crashes = faults.crashes /\ faults'.db = faults.db

GoesOn(t) ==
    /\ pc[t] \in Unsaved
    /\ \E s \in Unsaved \union {"confirm", "refund"} : Moves(t, s)
    /\ UNCHANGED <<ledgerVars, faults>>

TakesCharge(t) ==
    \E u \in Users, key \in SectionKeys \union {NoKey}, req \in Requests :
        Begin(t, u, key, req)

LEMMA StepKinds ==
    ASSUME CreationInv, CreationNext
    PROVE  \/ Resting \/ Crash
           \/ \E t \in Tasks : \/ GoesOn(t) \/ TakesCharge(t)
                               \/ ConfirmCredit(t) \/ GiveBack(t) \/ Finish(t)
                               \/ Cancelled(t) \/ DbFault(t)
  <1>1. TasksOK /\ NoTask \notin Tasks
    BY CreationAssumption DEF CreationInv, CreationAssumption
  <1>2. ASSUME NEW t \in Tasks, Arrive(t) PROVE Resting \/ TakesCharge(t)
    <2>1. PICK u \in Users, k \in Keys \union {NoKey}, req \in Requests :
              LET key == IF k = NoKey THEN NoKey ELSE <<u, k>>
              IN AnswerAtOnce(t, u, key, req) \/ Begin(t, u, key, req)
      BY <1>2 DEF Arrive
    <2> DEFINE key == IF k = NoKey THEN NoKey ELSE <<u, k>>
    <2>2. key \in SectionKeys \union {NoKey} BY DEF SectionKeys
    <2>3. CASE AnswerAtOnce(t, u, key, req) BY <2>3 DEF AnswerAtOnce, Resting
    <2>4. CASE Begin(t, u, key, req)
      <3> HIDE DEF key
      <3> QED BY <2>2, <2>4 DEF TakesCharge
    <2> QED BY <2>1, <2>3, <2>4
  <1>3. ASSUME NEW t \in Tasks, Proceed(t),
               ~ConfirmCredit(t), ~GiveBack(t), ~Finish(t)
        PROVE  GoesOn(t)
    <2>1. UNCHANGED <<ledgerVars, faults>> /\ pc[t] \in Unsaved
      BY <1>3 DEF Proceed, Send, ClientFails, Created, Collides, Refused, NoAnswer, Fail,
                  Save, SaveRefused, Awaits, Runs, Unsaved
    <2>2. Ends(t) \/ \E s \in Stages : Moves(t, s) BY <1>1, <1>3, ProceedTask
    <2>3. pc'[t] # "idle"
      BY <1>1, <1>3 DEF Proceed, Send, ClientFails, Created, Collides, Refused, NoAnswer, Fail,
                  Save, SaveRefused, NextOrGiveUp, Await, RunTo, TasksOK
    <2>4. ~Ends(t) BY <1>1, <2>3 DEF Ends, End, Await, TasksOK
    <2>5. PICK s \in Stages : Moves(t, s) BY <2>2, <2>4
    <2>6. s \in Unsaved \union {"confirm", "refund"}
      BY <2>1, <2>5 DEF Moves, Stages, Unsaved
    <2> QED BY <2>1, <2>5, <2>6 DEF GoesOn
  <1>4. ASSUME Surroundings, ~Crash PROVE Resting
    <2>1. faults'.crashes = faults.crashes /\ faults'.db = faults.db
      BY <1>4 DEF Surroundings, UpstreamCreates, Expire, ManagePool, CreationInv, OthersTypeOK
    <2>2. /\ UNCHANGED taskVars
          /\ \/ UNCHANGED ledgerVars
             \/ \E u \in Users, p \in Grants, r \in OtherRefs : CreateUser(u, p, r)
      BY <1>4 DEF Surroundings, UpstreamCreates, Expire, ManagePool
    <2> QED BY <2>1, <2>2 DEF Resting
  <1>5. ASSUME Quiet PROVE Resting
    BY <1>5 DEF Quiet, creationVars, Resting
  <1> QED BY <1>2, <1>3, <1>4, <1>5 DEF CreationNext

(* Faults are only counted up.                                             *)
LEMMA FaultsGrow ==
    ASSUME CreationInv, CreationNext
    PROVE  /\ faults.crashes \in Nat /\ faults.db \in Nat
           /\ faults'.crashes \in Nat /\ faults'.db \in Nat
           /\ faults'.crashes >= faults.crashes /\ faults'.db >= faults.db
           /\ faults.expiry => faults'.expiry
  <1>1. OthersTypeOK BY DEF CreationInv
  <1>2. faults \in [crashes : Nat, db : Nat, admin : Nat, expiry : BOOLEAN]
    BY <1>1, CreationAssumption DEF OthersTypeOK, CreationAssumption
  <1>3. \/ UNCHANGED faults
        \/ faults' = [faults EXCEPT !.crashes = @ + 1]
        \/ faults' = [faults EXCEPT !.db = @ + 1]
        \/ faults' = [faults EXCEPT !.admin = @ + 1]
        \/ faults' = [faults EXCEPT !.expiry = TRUE]
    <2>1. ASSUME NEW t \in Tasks, Arrive(t) PROVE UNCHANGED faults
      BY <2>1 DEF Arrive, AnswerAtOnce, Begin
    <2>2. ASSUME NEW t \in Tasks, Proceed(t) PROVE UNCHANGED faults
      BY <2>2 DEF Proceed, Send, ClientFails, Created, Collides, Refused, NoAnswer, Fail,
                  Save, SaveRefused, ConfirmCredit, Finish, GiveBack
    <2>3. ASSUME Surroundings
          PROVE  \/ UNCHANGED faults
                 \/ faults' = [faults EXCEPT !.crashes = @ + 1]
                 \/ faults' = [faults EXCEPT !.admin = @ + 1]
                 \/ faults' = [faults EXCEPT !.expiry = TRUE]
      BY <2>3 DEF Surroundings, UpstreamCreates, Expire, ManagePool, Crash
    <2>4. ASSUME Quiet PROVE UNCHANGED faults BY <2>4 DEF Quiet, creationVars
    <2> QED BY <2>1, <2>2, <2>3, <2>4 DEF CreationNext, DbFault, Cancelled
  <1> QED BY <1>2, <1>3

(* A call is charged until its mailbox is confirmed.                       *)
ChargedOK ==
    \A t \in Tasks : /\ pc[t] \in Unsaved \union {"confirm"} => job[t].charged
                     /\ pc[t] = "mark" => ~job[t].charged

LEMMA ChargedKept ==
    ASSUME TasksOK, ChargedOK, TaskPart
    PROVE  ChargedOK'
  <1> SUFFICES ASSUME NEW x \in Tasks
               PROVE  /\ pc'[x] \in Unsaved \union {"confirm"} => job'[x].charged
                      /\ pc'[x] = "mark" => ~job'[x].charged
    BY DEF ChargedOK
  <1>1. pc \in [Tasks -> Stages] /\ job \in [Tasks -> Job \union {NoJob}]
    BY DEF TasksOK
  <1> DEFINE Same == pc'[x] = pc[x] /\ job'[x] = job[x]
  <1>2. CASE Same BY <1>2 DEF ChargedOK
  <1>3. CASE pc'[x] = "idle" BY <1>3 DEF Unsaved
  <1>4. CASE UNCHANGED taskVars BY <1>2, <1>4 DEF taskVars
  <1>5. ASSUME NEW t \in Tasks, NEW s \in Stages, Moves(t, s), x = t
        PROVE  /\ pc'[x] \in Unsaved \union {"confirm"} => job'[x].charged
               /\ pc'[x] = "mark" => ~job'[x].charged
    <2>1. pc'[x] = s /\ job'[x].charged = (s # "mark" /\ job[x].charged)
      BY <1>1, <1>5 DEF Moves
    <2>2. s \in Unsaved \union {"confirm"} => pc[x] \in Unsaved
      BY <1>5 DEF Moves, Saves, Unsaved
    <2> QED BY <2>1, <2>2 DEF ChargedOK, Unsaved
  <1>6. ASSUME NEW t \in Tasks, NEW s \in Stages, Moves(t, s), x # t PROVE Same
    BY <1>1, <1>6 DEF Moves
  <1>7. ASSUME NEW t \in Tasks, Ends(t) PROVE Same \/ pc'[x] = "idle"
    BY <1>1, <1>7 DEF Ends, End, Await
  <1>8. ASSUME NEW t \in Tasks, Begins(t)
        PROVE  Same \/ (pc'[x] = "next" /\ job'[x].charged)
    BY <1>1, <1>8 DEF Begins
  <1>9. CASE Restarts BY <1>3, <1>9 DEF Restarts
  <1> QED BY <1>2, <1>3, <1>4, <1>5, <1>6, <1>7, <1>8, <1>9 DEF TaskPart

-----------------------------------------------------------------------------
(* What the transactions do to the rows.                                   *)
SameRow(i) == rows'[i] = rows[i]

(* Row i is a charge that is still pending.                                *)
Waits(i) == i \in DOMAIN rows /\ rows[i].type = "consume" /\ rows[i].status = "pending"

(* One more row behind those there are.                                    *)
PostsRow(u, type, status, r) ==
    /\ rows' \in Seq(Row) /\ DOMAIN rows' = DOMAIN rows \union {Len(rows) + 1}
    /\ rows'[Len(rows) + 1].user = u /\ rows'[Len(rows) + 1].ref = r
    /\ rows'[Len(rows) + 1].type = type /\ rows'[Len(rows) + 1].status = status

LEMMA PlainRows ==
    ASSUME IInv, NEW u \in Users, NEW n \in Int,
           NEW type \in {"consume", "refund", "admin_adjust"},
           NEW status \in {"pending", "completed"}, NEW r \in Refs \union OtherRefs,
           Post(u, n, rows, type, status, r)
    PROVE  PostsRow(u, type, status, r) /\ \A i \in DOMAIN rows : SameRow(i)
  <1>1. LedgerTypeOK /\ rows \in Seq(Row) /\ DOMAIN rows = 1..Len(rows) /\ Len(rows) \in Nat
    BY DEF IInv, LedgerTypeOK
  <1>2. /\ rows' \in Seq(Row) /\ Len(rows') = Len(rows) + 1
        /\ \A i \in 1..Len(rows) : rows'[i] = rows[i]
        /\ rows'[Len(rows) + 1] = [user |-> u, type |-> type, status |-> status,
                                   amount |-> n, after |-> balance[u] + n, ref |-> r]
    BY <1>1, PostEffect
  <1>3. DOMAIN rows' = DOMAIN rows \union {Len(rows) + 1} BY <1>1, <1>2
  <1> QED BY <1>1, <1>2, <1>3 DEF PostsRow, SameRow

(* A new account gets at most one row, and that is no charge.              *)
LEMMA AccountRows ==
    ASSUME IInv, NEW u \in Users, NEW p \in Grants, NEW r \in OtherRefs, CreateUser(u, p, r)
    PROVE  \/ UNCHANGED rows
           \/ PostsRow(u, "admin_adjust", "completed", r) /\ \A i \in DOMAIN rows : SameRow(i)
  <1>1. p \in Int BY LedgerAssumption DEF LedgerAssumption
  <1>2. UNCHANGED rows \/ Post(u, p, rows, "admin_adjust", "completed", r) BY DEF CreateUser
  <1> QED BY <1>1, <1>2, PlainRows

LEMMA ChargeRows ==
    ASSUME IInv, NEW u \in Users, NEW r \in Refs, ReserveNew(u, r)
    PROVE  PostsRow(u, "consume", "pending", r) /\ \A i \in DOMAIN rows : SameRow(i)
  <1>1. -rule.cost \in Int BY DEF IInv, LedgerTypeOK
  <1>2. Post(u, -rule.cost, rows, "consume", "pending", r) BY DEF ReserveNew
  <1> QED BY <1>1, <1>2, PlainRows

(* Row i keeps its owner, reference and type, and its status becomes x.    *)
BecomesRow(i, x) ==
    /\ rows'[i].user = rows[i].user /\ rows'[i].ref = rows[i].ref
    /\ rows'[i].type = rows[i].type /\ rows'[i].status = x

LEMMA ConfirmRows ==
    ASSUME IInv, NEW u \in Users, NEW r \in Refs, Confirm(u, r)
    PROVE  /\ DOMAIN rows' = DOMAIN rows
           /\ \A i \in Pending(u, r) : BecomesRow(i, "completed")
           /\ \A i \in DOMAIN rows \ Pending(u, r) : SameRow(i)
  <1>1. \A i \in DOMAIN rows : rows[i] \in Row BY DEF IInv, LedgerTypeOK
  <1>2. \A i \in Pending(u, r) : i \in DOMAIN rows BY DEF Pending
  <1> QED BY <1>1, <1>2 DEF Confirm, Row, BecomesRow, SameRow

LEMMA RefundRows ==
    ASSUME IInv, NEW u \in Users, NEW r \in Refs, RefundPending(u, r)
    PROVE  /\ PostsRow(u, "refund", "completed", r)
           /\ \E i \in DOMAIN rows : /\ Pending(u, r) = {i} /\ BecomesRow(i, "reversed")
                                     /\ \A j \in DOMAIN rows \ {i} : SameRow(j)
  <1> DEFINE i == Newest(Pending(u, r))
             n == -rows[i].amount
             table == [rows EXCEPT ![i].status = "reversed"]
  <1>1. LedgerTypeOK /\ rows \in Seq(Row) /\ DOMAIN rows = 1..Len(rows) /\ Len(rows) \in Nat
    BY DEF IInv, LedgerTypeOK
  <1>2. i \in Pending(u, r) /\ Pending(u, r) # {} BY NewestPending DEF RefundPending
  <1>3. i \in 1..Len(rows) /\ rows[i] \in Row BY <1>1, <1>2 DEF Pending
  <1>4. Post(u, n, table, "refund", "completed", r) BY DEF RefundPending
  <1>5. Kept(table) /\ table \in Seq(Row) /\ Len(table) = Len(rows)
    BY <1>2, RefundTable DEF Kept
  <1>6. n \in Int BY <1>3 DEF Row
  <1>7. Pending(u, r) = {i}
    <2>1. \A j \in Pending(u, r) : j = i BY <1>2 DEF IInv, OnePendingCharge, Pending
    <2> QED BY <1>2, <2>1
  <1> HIDE DEF i
  <1>8. /\ table[i] = [rows[i] EXCEPT !.status = "reversed"]
        /\ \A j \in 1..Len(rows) : j # i => table[j] = rows[j]
    BY <1>1, <1>3
  <1>9. /\ table[i].user = rows[i].user /\ table[i].ref = rows[i].ref
        /\ table[i].type = rows[i].type /\ table[i].status = "reversed"
    BY <1>3, <1>8 DEF Row
  <1> HIDE DEF n, table
  <1>10. /\ rows' \in Seq(Row) /\ Len(rows') = Len(rows) + 1
         /\ \A j \in 1..Len(rows) : rows'[j] = table[j]
         /\ rows'[Len(rows) + 1] = [user |-> u, type |-> "refund", status |-> "completed",
                                    amount |-> n, after |-> balance[u] + n, ref |-> r]
    <2>1. /\ rows' \in Seq(Row) /\ Len(rows') = Len(table) + 1
          /\ \A j \in 1..Len(table) : rows'[j] = table[j]
          /\ rows'[Len(table) + 1] = [user |-> u, type |-> "refund", status |-> "completed",
                                      amount |-> n, after |-> balance[u] + n, ref |-> r]
      BY <1>1, <1>4, <1>5, <1>6, PostEffect
    <2> QED BY <1>5, <2>1
  <1>11. DOMAIN rows' = DOMAIN rows \union {Len(rows) + 1} BY <1>1, <1>10
  <1>12. PostsRow(u, "refund", "completed", r) BY <1>10, <1>11 DEF PostsRow
  <1>13. BecomesRow(i, "reversed") BY <1>3, <1>9, <1>10 DEF BecomesRow
  <1>14. \A j \in DOMAIN rows \ {i} : SameRow(j) BY <1>1, <1>8, <1>10 DEF SameRow
  <1> QED BY <1>1, <1>3, <1>7, <1>12, <1>13, <1>14

-----------------------------------------------------------------------------
(* Charges that wait, and the calls they wait for.                         *)

(* Call t is at work and charged u under reference r.                      *)
Covers(t, u, r) ==
    pc[t] # "idle" /\ job[t].charged /\ job[t].user = u /\ JobRef(t) = r

CoversRow(t, i) == Covers(t, rows[i].user, rows[i].ref)

(* What is stranded after a step was so before, or is among the rows S     *)
(* that have lost their call.                                              *)
LEMMA StrandedOnly ==
    ASSUME NEW S,
           \A i : Waits(i)' => \/ /\ Waits(i)
                                  /\ rows'[i].user = rows[i].user
                                  /\ rows'[i].ref = rows[i].ref
                               \/ \E t \in Tasks : CoversRow(t, i)',
           \A i : \A t \in Tasks :
              Waits(i) /\ Waits(i)' /\ CoversRow(t, i) => CoversRow(t, i)' \/ i \in S
    PROVE  Stranded' \subseteq Stranded \union S
  <1> SUFFICES ASSUME NEW i \in Stranded', i \notin S PROVE i \in Stranded OBVIOUS
  <1>1. Waits(i)' /\ ~\E t \in Tasks : CoversRow(t, i)'
    BY DEF Stranded, Waits, CoversRow, Covers
  <1>2. Waits(i) /\ ~\E t \in Tasks : CoversRow(t, i) BY <1>1
  <1> QED BY <1>2 DEF Stranded, Waits, CoversRow, Covers

(* A call that goes on stands for what it stood for.                       *)
LEMMA CoverKept ==
    ASSUME TasksOK, NEW t \in Tasks, NEW s \in Stages, Moves(t, s), s # "mark",
           NEW x \in Tasks, NEW u, NEW r, Covers(x, u, r)
    PROVE  Covers(x, u, r)'
  <1>1. pc \in [Tasks -> Stages] /\ job \in [Tasks -> Job \union {NoJob}] BY DEF TasksOK
  <1>2. CASE x # t
    <2>1. pc'[x] = pc[x] /\ job'[x] = job[x] BY <1>1, <1>2 DEF Moves
    <2> QED BY <2>1 DEF Covers, JobRef
  <1>3. CASE x = t
    <2>1. /\ pc'[x] # "idle" /\ job'[x].user = job[x].user /\ job'[x].key = job[x].key
          /\ job'[x].id = job[x].id /\ job'[x].charged = (s # "mark" /\ job[x].charged)
      BY <1>1, <1>3 DEF Moves
    <2> QED BY <2>1 DEF Covers, JobRef
  <1> QED BY <1>2, <1>3

(* A call that ends takes nothing from the others.                         *)
LEMMA CoverOthers ==
    ASSUME TasksOK, NEW t \in Tasks, NEW x \in Tasks, x # t, NEW u, NEW r, Covers(x, u, r),
           \/ End(t)
           \/ Begins(t)
           \/ \E s \in Stages : Moves(t, s)
    PROVE  Covers(x, u, r)'
  <1>1. pc \in [Tasks -> Stages] /\ job \in [Tasks -> Job \union {NoJob}] BY DEF TasksOK
  <1>2. pc'[x] = pc[x] /\ job'[x] = job[x] BY <1>1 DEF End, Await, Begins, Moves
  <1> QED BY <1>2 DEF Covers, JobRef

(* The charges a call stands for are one row at most.                      *)
LEMMA CoverOne ==
    ASSUME IInv, NEW t \in Tasks
    PROVE  \E x : \A i : Waits(i) /\ CoversRow(t, i) => i = x
  BY DEF Waits, CoversRow, Covers, IInv, OnePendingCharge

LEMMA FiniteStranded ==
    ASSUME LedgerTypeOK
    PROVE  IsFiniteSet(Stranded) /\ Cardinality(Stranded) \in Nat
  <1>1. rows \in Seq(Row) /\ DOMAIN rows = 1..Len(rows) /\ Len(rows) \in Nat
    BY DEF LedgerTypeOK
  <1>2. IsFiniteSet(1..Len(rows)) BY <1>1, FS_Interval
  <1>3. Stranded \in SUBSET (1..Len(rows)) BY <1>1 DEF Stranded
  <1> QED BY <1>2, <1>3, FS_Subset, FS_CardinalityType

(* Row i waited before, for the same call.                                 *)
WaitedOn(i) == Waits(i) /\ rows'[i].user = rows[i].user /\ rows'[i].ref = rows[i].ref

(* It has its call still, unless that one has ended.                       *)
LEMMA CoversRowKept ==
    ASSUME TasksOK, NEW t \in Tasks, NEW x \in Tasks, x # t, NEW i, CoversRow(x, i),
           rows'[i].user = rows[i].user, rows'[i].ref = rows[i].ref,
           End(t) \/ Begins(t) \/ \E s \in Stages : Moves(t, s)
    PROVE  CoversRow(x, i)'
  <1>1. PICK v, q : v = rows[i].user /\ q = rows[i].ref OBVIOUS
  <1>2. Covers(x, v, q) BY <1>1 DEF CoversRow
  <1>3. Covers(x, v, q)' BY <1>2, CoverOthers
  <1> QED BY <1>1, <1>3 DEF CoversRow

(* What the steps of a call do to the charges that wait.                   *)
LEMMA RestingStranded ==
    ASSUME CreationInv, Resting
    PROVE  Stranded' \subseteq Stranded
  <1>1. IInv /\ UNCHANGED <<pc, job>> BY DEF CreationInv, Resting, taskVars
  <1>2. ASSUME NEW i, Waits(i)' PROVE WaitedOn(i)
    <2>1. CASE UNCHANGED rows BY <1>2, <2>1 DEF Waits, WaitedOn
    <2>2. ASSUME NEW u \in Users, NEW r \in OtherRefs,
                 PostsRow(u, "admin_adjust", "completed", r),
                 \A j \in DOMAIN rows : SameRow(j)
          PROVE  WaitedOn(i)
      BY <1>2, <2>2 DEF Waits, PostsRow, SameRow, WaitedOn
    <2> QED BY <1>1, <2>1, <2>2, AccountRows DEF Resting, ledgerVars
  <1>3. ASSUME NEW i, NEW t \in Tasks, Waits(i), Waits(i)', CoversRow(t, i)
        PROVE  CoversRow(t, i)'
    BY <1>1, <1>2, <1>3 DEF CoversRow, Covers, JobRef, WaitedOn
  <1>4. Stranded' \subseteq Stranded \union {}
    BY <1>2, <1>3, StrandedOnly DEF WaitedOn
  <1> QED BY <1>4

LEMMA GoesOnStranded ==
    ASSUME CreationInv, NEW t \in Tasks, NEW s \in Stages, Moves(t, s), s # "mark",
           UNCHANGED ledgerVars
    PROVE  Stranded' \subseteq Stranded
  <1>1. TasksOK /\ UNCHANGED rows BY DEF CreationInv, ledgerVars
  <1>2. ASSUME NEW i, NEW x \in Tasks, CoversRow(x, i) PROVE CoversRow(x, i)'
    BY <1>1, <1>2, CoverKept DEF CoversRow
  <1>3. Stranded' \subseteq Stranded \union {} BY <1>1, <1>2, StrandedOnly DEF Waits
  <1> QED BY <1>3

LEMMA BeginStranded ==
    ASSUME CreationInv, NEW t \in Tasks, NEW u \in Users,
           NEW key \in SectionKeys \union {NoKey}, NEW req \in Requests,
           Begin(t, u, key, req)
    PROVE  Stranded' \subseteq Stranded
  <1>0. PICK r : r = RefOf(key, lastId + 1) OBVIOUS
  <1>1. IInv /\ TasksOK /\ Begins(t) /\ pc[t] = "idle" /\ Reserve(u, r)
    BY <1>0, BeginsCall DEF CreationInv, Begin, Idle
  <1>2. r \in Refs
    <2>1. lastId + 1 \in Ids
      BY CreationAssumption DEF CreationAssumption, CreationInv, OthersTypeOK, Begin, Ids
    <2> QED BY <1>0, <2>1, CreationAssumption DEF CreationAssumption, RefOf
  <1>3. Covers(t, u, r)'
    <2>1. PICK cands \in Candidates(req.wanted) :
              job' = [job EXCEPT ![t] =
                        [user |-> u, key |-> key, request |-> req, id |-> lastId + 1,
                         cands |-> cands, retryable |-> FALSE, charged |-> TRUE]]
      BY DEF Begin
    <2>2. /\ job'[t].user = u /\ job'[t].key = key /\ job'[t].id = lastId + 1
          /\ job'[t].charged
      BY <1>1, <2>1 DEF TasksOK
    <2>3. pc'[t] = "next" BY <1>1 DEF Begins, TasksOK
    <2> QED BY <1>0, <2>2, <2>3 DEF Covers, JobRef
  <1>4. ASSUME NEW i, Waits(i)', ~WaitedOn(i) PROVE CoversRow(t, i)'
    <2>1. CASE UNCHANGED rows BY <1>4, <2>1 DEF Waits, WaitedOn
    <2>2. CASE ReserveNew(u, r)
      <3>1. PostsRow(u, "consume", "pending", r) /\ \A j \in DOMAIN rows : SameRow(j)
        BY <1>1, <1>2, <2>2, ChargeRows
      <3>2. i = Len(rows) + 1 BY <1>4, <3>1 DEF Waits, WaitedOn, PostsRow, SameRow
      <3>3. rows'[i].user = u /\ rows'[i].ref = r BY <3>1, <3>2 DEF PostsRow
      <3> QED BY <1>3, <3>3 DEF CoversRow
    <2> QED BY <1>1, <2>1, <2>2 DEF Reserve, ReserveAgain, ledgerVars
  <1>5. ASSUME NEW i, NEW x \in Tasks, Waits(i), Waits(i)', CoversRow(x, i)
        PROVE  CoversRow(x, i)'
    <2>1. x # t BY <1>1, <1>5 DEF CoversRow, Covers
    <2>2. WaitedOn(i)
      <3>1. CASE UNCHANGED rows BY <1>5, <3>1 DEF WaitedOn
      <3>2. CASE ReserveNew(u, r)
        <4>1. \A j \in DOMAIN rows : SameRow(j) BY <1>1, <1>2, <3>2, ChargeRows
        <4> QED BY <1>5, <4>1 DEF WaitedOn, Waits, SameRow
      <3> QED BY <1>1, <3>1, <3>2 DEF Reserve, ReserveAgain, ledgerVars
    <2> QED BY <1>1, <1>5, <2>1, <2>2, CoversRowKept DEF WaitedOn
  <1>6. Stranded' \subseteq Stranded \union {}
    BY <1>4, <1>5, StrandedOnly DEF WaitedOn
  <1> QED BY <1>6

(* The charge of the call is settled: no row of its reference waits.       *)
LEMMA SettlesStranded ==
    ASSUME CreationInv, NEW t \in Tasks, pc[t] # "idle",
           (\E s \in Stages : Moves(t, s)) \/ End(t),
           \A i : Waits(i)' => WaitedOn(i),
           \A i : Waits(i)' => ~CoversRow(t, i)
    PROVE  Stranded' \subseteq Stranded
  <1>1. TasksOK BY DEF CreationInv
  <1>2. ASSUME NEW i, NEW x \in Tasks, Waits(i), Waits(i)', CoversRow(x, i)
        PROVE  CoversRow(x, i)'
    <2>1. x # t /\ WaitedOn(i) BY <1>2
    <2> QED BY <1>1, <1>2, <2>1, CoversRowKept DEF WaitedOn
  <1>3. Stranded' \subseteq Stranded \union {} BY <1>2, StrandedOnly DEF WaitedOn
  <1> QED BY <1>3

LEMMA ConfirmStranded ==
    ASSUME CreationInv, NEW t \in Tasks, ConfirmCredit(t)
    PROVE  Stranded' \subseteq Stranded
  <1> DEFINE u == job[t].user  r == JobRef(t)
  <1>1. TasksOK /\ IInv /\ pc[t] = "confirm" /\ pc[t] # "idle" /\ Confirm(u, r)
    BY DEF CreationInv, ConfirmCredit, Runs
  <1>2. u \in Users /\ r \in Refs BY <1>1, JobRefs DEF TasksOK, Job
  <1>3. Moves(t, "mark") BY <1>1, MovesConfirmed DEF ConfirmCredit, Runs
  <1> HIDE DEF u, r
  <1>4. /\ DOMAIN rows' = DOMAIN rows
        /\ \A i \in Pending(u, r) : BecomesRow(i, "completed")
        /\ \A i \in DOMAIN rows \ Pending(u, r) : SameRow(i)
    BY <1>1, <1>2, ConfirmRows
  <1>5. ASSUME NEW i, Waits(i)' PROVE i \notin Pending(u, r) /\ WaitedOn(i)
    BY <1>4, <1>5 DEF Waits, WaitedOn, BecomesRow, SameRow
  <1>6. ASSUME NEW i, Waits(i)' PROVE ~CoversRow(t, i)
    BY <1>5, <1>6 DEF CoversRow, Covers, u, r, Pending, Waits, WaitedOn
  <1>7. \E s \in Stages : Moves(t, s) BY <1>3 DEF Stages
  <1> QED BY <1>1, <1>5, <1>6, <1>7, SettlesStranded

LEMMA GiveBackStranded ==
    ASSUME CreationInv, NEW t \in Tasks, GiveBack(t)
    PROVE  Stranded' \subseteq Stranded
  <1> DEFINE u == job[t].user  r == JobRef(t)
  <1>1. TasksOK /\ IInv /\ pc[t] = "refund" /\ pc[t] # "idle" /\ End(t)
    BY DEF CreationInv, GiveBack, Runs
  <1>2. u \in Users /\ r \in Refs BY <1>1, JobRefs DEF TasksOK, Job
  <1>3. CASE job[t].charged /\ RefundPending(u, r)
    <2> HIDE DEF u, r
    <2>1. PostsRow(u, "refund", "completed", r) BY <1>1, <1>2, <1>3, RefundRows
    <2>2. PICK j \in DOMAIN rows : /\ Pending(u, r) = {j} /\ BecomesRow(j, "reversed")
                                  /\ \A k \in DOMAIN rows \ {j} : SameRow(k)
      BY <1>1, <1>2, <1>3, RefundRows
    <2>3. ASSUME NEW i, Waits(i)' PROVE i # j /\ WaitedOn(i)
      BY <2>1, <2>2, <2>3 DEF Waits, WaitedOn, PostsRow, BecomesRow, SameRow
    <2>4. ASSUME NEW i, Waits(i)' PROVE ~CoversRow(t, i)
      <3>1. i \notin Pending(u, r) /\ WaitedOn(i) BY <2>2, <2>3, <2>4
      <3> QED BY <3>1 DEF CoversRow, Covers, u, r, Pending, Waits, WaitedOn
    <2> QED BY <1>1, <2>3, <2>4, SettlesStranded
  <1>4. CASE UNCHANGED ledgerVars /\ (job[t].charged => Pending(u, r) = {})
    <2>1. ASSUME NEW i, Waits(i)' PROVE WaitedOn(i) /\ ~CoversRow(t, i)
      BY <1>4, <2>1 DEF ledgerVars, Waits, WaitedOn, CoversRow, Covers, Pending
    <2> QED BY <1>1, <2>1, SettlesStranded
  <1> QED BY <1>3, <1>4 DEF GiveBack, Refund, RefundNothing

(* A call that ends leaves its charge behind, if it has one.               *)
LEMMA EndStranded ==
    ASSUME CreationInv, NEW t \in Tasks, End(t), UNCHANGED ledgerVars
    PROVE  /\ \E x : Stranded' \subseteq Stranded \union {x}
           /\ ~job[t].charged => Stranded' \subseteq Stranded
  <1>1. TasksOK /\ IInv /\ UNCHANGED rows BY DEF CreationInv, ledgerVars
  <1>2. ASSUME NEW i, NEW x \in Tasks, x # t, CoversRow(x, i) PROVE CoversRow(x, i)'
    BY <1>1, <1>2, CoversRowKept
  <1>3. PICK x : \A i : Waits(i) /\ CoversRow(t, i) => i = x BY <1>1, CoverOne
  <1>4. Stranded' \subseteq Stranded \union {x}
    BY <1>1, <1>2, <1>3, StrandedOnly DEF Waits
  <1>5. ASSUME ~job[t].charged PROVE Stranded' \subseteq Stranded \union {}
    <2>1. \A i : ~CoversRow(t, i) BY <1>5 DEF CoversRow, Covers
    <2> QED BY <1>1, <1>2, <2>1, StrandedOnly DEF Waits
  <1> QED BY <1>4, <1>5

(* A restart leaves no more charges behind than there were calls.          *)
LEMMA CrashStranded ==
    ASSUME CreationInv, Crash
    PROVE  \E S : /\ IsFiniteSet(S) /\ Cardinality(S) <= Cardinality(Tasks)
                  /\ Stranded' \subseteq Stranded \union S
  <1> DEFINE S == {i \in DOMAIN rows : Waits(i) /\ \E t \in Tasks : CoversRow(t, i)}
             f == [i \in S |-> CHOOSE t \in Tasks : CoversRow(t, i)]
  <1>1. IInv /\ UNCHANGED rows BY DEF CreationInv, Crash, ledgerVars
  <1>2. \A i \in S : f[i] \in Tasks /\ CoversRow(f[i], i) OBVIOUS
  <1>3. f \in [S -> Tasks] BY <1>2
  <1>4. ASSUME NEW i \in S, NEW j \in S, f[i] = f[j] PROVE i = j
    <2>1. PICK t \in Tasks : t = f[i] BY <1>2
    <2>2. Waits(i) /\ Waits(j) /\ CoversRow(t, i) /\ CoversRow(t, j) BY <1>2, <1>4, <2>1
    <2> HIDE DEF f, S
    <2> QED BY <1>1, <2>2, CoverOne
  <1>5. f \in Injection(S, Tasks)
    <2> HIDE DEF f, S
    <2> QED BY <1>3, <1>4 DEF Injection, IsInjective
  <1>6. \A i : \A t \in Tasks : Waits(i) /\ CoversRow(t, i) => i \in S BY DEF Waits
  <1> HIDE DEF S, f
  <1>7. IsFiniteSet(S) /\ Cardinality(S) <= Cardinality(Tasks)
    BY <1>5, CreationAssumption, FS_Injection DEF CreationAssumption
  <1>8. PICK R : R = S OBVIOUS
  <1>9. Stranded' \subseteq Stranded \union R
    BY <1>1, <1>6, <1>8, StrandedOnly DEF Waits
  <1> QED BY <1>7, <1>8, <1>9

(* The bound grows with the faults.                                        *)
LEMMA MoreStranded ==
    ASSUME NEW a \in Nat, NEW b \in Nat, NEW S, NEW SS, NEW R,
           IsFiniteSet(S), IsFiniteSet(R), SS \subseteq S \union R,
           Cardinality(S) <= a, Cardinality(R) <= b
    PROVE  Cardinality(SS) <= a + b
  <1>1. /\ Cardinality(S) \in Nat /\ Cardinality(R) \in Nat
        /\ Cardinality(S \intersect R) \in Nat
    BY FS_CardinalityType, FS_Intersection
  <1>2. /\ IsFiniteSet(S \union R)
        /\ Cardinality(S \union R) = Cardinality(S) + Cardinality(R) - Cardinality(S \intersect R)
    BY FS_Union
  <1>3. Cardinality(SS) <= Cardinality(S \union R) /\ IsFiniteSet(SS) BY <1>2, FS_Subset
  <1>4. Cardinality(SS) \in Nat BY <1>3, FS_CardinalityType
  <1> QED BY <1>1, <1>2, <1>3, <1>4

LEMMA OneMoreTimes ==
    ASSUME NEW n \in Nat, NEW k \in Nat
    PROVE  /\ n * k \in Nat /\ (n + 1) * k \in Nat
           /\ (n + 1) * k = n * k + k
  OBVIOUS

(* A waiting charge without a call is the work of a fault.                 *)
LEMMA PendingKept ==
    ASSUME CreationInv, ChargedOK, PendingAccountedFor, [CreationNext]_creationVars
    PROVE  PendingAccountedFor'
  <1> DEFINE k == Cardinality(Tasks)
             n == faults.crashes
             d == faults.db
  <1>1. IInv /\ LedgerTypeOK /\ TasksOK BY DEF CreationInv, IInv
  <1>2. IsFiniteSet(Stranded) /\ Cardinality(Stranded) \in Nat BY <1>1, FiniteStranded
  <1>3. k \in Nat /\ IsFiniteSet(Tasks)
    BY CreationAssumption, FS_CardinalityType DEF CreationAssumption
  <1>4. n \in Nat /\ d \in Nat
    BY CreationAssumption DEF CreationInv, OthersTypeOK, CreationAssumption
  <1>5. n * k \in Nat /\ (n + 1) * k \in Nat /\ (n + 1) * k = n * k + k
    BY <1>3, <1>4, OneMoreTimes
  <1>6. Cardinality(Stranded) <= n * k + d BY DEF PendingAccountedFor
  <1>7. ASSUME Stranded' \subseteq Stranded, faults'.crashes = n, faults'.db = d
        PROVE  PendingAccountedFor'
    <2>1. Cardinality(Stranded') <= Cardinality(Stranded) /\ IsFiniteSet(Stranded')
      BY <1>2, <1>7, FS_Subset
    <2>2. Cardinality(Stranded') \in Nat BY <2>1, FS_CardinalityType
    <2> HIDE DEF k
    <2>3. Cardinality(Stranded') <= n * k + d BY <1>2, <1>4, <1>5, <1>6, <2>1, <2>2
    <2> QED BY <1>7, <2>3 DEF PendingAccountedFor, k
  <1>8. ASSUME NEW R, IsFiniteSet(R), NEW b \in Nat, Cardinality(R) <= b,
               Stranded' \subseteq Stranded \union R,
               faults'.crashes * k + faults'.db >= n * k + d + b,
               faults'.crashes * k + faults'.db \in Nat
        PROVE  PendingAccountedFor'
    <2> HIDE DEF k
    <2>1. Cardinality(Stranded') <= (n * k + d) + b
      BY <1>2, <1>4, <1>5, <1>6, <1>8, MoreStranded
    <2>2. IsFiniteSet(Stranded')
      <3>1. IsFiniteSet(Stranded \union R) BY <1>2, <1>8, FS_Union
      <3> QED BY <1>8, <3>1, FS_Subset
    <2>3. Cardinality(Stranded') \in Nat BY <2>2, FS_CardinalityType
    <2>4. Cardinality(Stranded') <= faults'.crashes * k + faults'.db
      BY <1>4, <1>5, <1>8, <2>1, <2>3
    <2> QED BY <2>4 DEF PendingAccountedFor, k
  <1>9. CASE Resting BY <1>7, <1>9, RestingStranded DEF Resting
  <1>10. ASSUME NEW t \in Tasks, GoesOn(t) PROVE PendingAccountedFor'
    <2>1. PICK s \in Unsaved \union {"confirm", "refund"} : Moves(t, s) BY <1>10 DEF GoesOn
    <2>2. s \in Stages /\ s # "mark" BY DEF Unsaved, Stages
    <2>3. Stranded' \subseteq Stranded BY <1>10, <2>1, <2>2, GoesOnStranded DEF GoesOn
    <2> QED BY <1>7, <1>10, <2>3 DEF GoesOn
  <1>11. ASSUME NEW t \in Tasks, TakesCharge(t) PROVE PendingAccountedFor'
    BY <1>7, <1>11, BeginStranded DEF TakesCharge, Begin
  <1>12. ASSUME NEW t \in Tasks, ConfirmCredit(t) PROVE PendingAccountedFor'
    BY <1>7, <1>12, ConfirmStranded DEF ConfirmCredit
  <1>13. ASSUME NEW t \in Tasks, GiveBack(t) PROVE PendingAccountedFor'
    BY <1>7, <1>13, GiveBackStranded DEF GiveBack
  <1>14. ASSUME NEW t \in Tasks, Finish(t) PROVE PendingAccountedFor'
    <2>1. ~job[t].charged BY <1>14 DEF Finish, Runs, ChargedOK
    <2>2. Stranded' \subseteq Stranded BY <1>14, <2>1, EndStranded DEF Finish
    <2> QED BY <1>7, <1>14, <2>2 DEF Finish
  <1>15. faults \in [crashes : Nat, db : Nat, admin : Nat, expiry : BOOLEAN]
    BY CreationAssumption DEF CreationInv, OthersTypeOK, CreationAssumption
  <1>16. ASSUME NEW t \in Tasks, Cancelled(t) PROVE PendingAccountedFor'
    <2>1. faults'.crashes = n + 1 /\ faults'.db = d BY <1>15, <1>16 DEF Cancelled
    <2>2. PICK x : Stranded' \subseteq Stranded \union {x}
      BY <1>16, EndStranded DEF Cancelled
    <2>3. IsFiniteSet({x}) /\ Cardinality({x}) = 1 BY FS_Singleton
    <2>4. k >= 1
      <3>1. Tasks # {} OBVIOUS
      <3>2. k # 0 BY <1>3, <3>1, FS_EmptySet
      <3> QED BY <1>3, <3>2
    <2>5. /\ faults'.crashes * k + faults'.db >= n * k + d + 1
          /\ faults'.crashes * k + faults'.db \in Nat
      <3> HIDE DEF k, n, d
      <3> QED BY <1>3, <1>4, <1>5, <2>1, <2>4
    <2> QED BY <1>8, <2>2, <2>3, <2>5
  <1>17. ASSUME NEW t \in Tasks, DbFault(t) PROVE PendingAccountedFor'
    <2>1. faults'.crashes = n /\ faults'.db = d + 1 BY <1>15, <1>17 DEF DbFault
    <2>2. \E x : Stranded' \subseteq Stranded \union {x}
      <3>1. CASE pc[t] = "refund"
        BY <1>17, <3>1, EndStranded DEF DbFault
      <3>2. CASE pc[t] # "refund"
        <4>1. pc[t] # "idle" /\ cpu = t
          BY <1>1, <1>17, CreationAssumption DEF TasksOK, DbFault, CreationAssumption
        <4>2. Moves(t, "refund")
          BY <1>1, <1>17, <3>2, <4>1, MovesOn DEF DbFault, Unsaved, Stages
        <4>3. Stranded' \subseteq Stranded
          BY <1>17, <4>2, GoesOnStranded DEF DbFault, Stages
        <4> QED BY <4>3
      <3> QED BY <3>1, <3>2
    <2>3. PICK x : Stranded' \subseteq Stranded \union {x} BY <2>2
    <2>4. IsFiniteSet({x}) /\ Cardinality({x}) = 1 BY FS_Singleton
    <2>5. /\ faults'.crashes * k + faults'.db >= n * k + d + 1
          /\ faults'.crashes * k + faults'.db \in Nat
      <3> HIDE DEF k, n, d
      <3> QED BY <1>3, <1>4, <1>5, <2>1
    <2> QED BY <1>8, <2>3, <2>4, <2>5
  <1>18. CASE Crash
    <2>1. faults'.crashes = n + 1 /\ faults'.db = d BY <1>15, <1>18 DEF Crash
    <2>2. PICK R : /\ IsFiniteSet(R) /\ Cardinality(R) <= k
                  /\ Stranded' \subseteq Stranded \union R
      BY <1>18, CrashStranded
    <2>3. /\ faults'.crashes * k + faults'.db >= n * k + d + k
          /\ faults'.crashes * k + faults'.db \in Nat
      <3> HIDE DEF k, n, d
      <3> QED BY <1>3, <1>4, <1>5, <2>1
    <2> QED BY <1>3, <1>8, <2>2, <2>3
  <1>19. CASE UNCHANGED creationVars
    BY <1>7, <1>19 DEF creationVars, ledgerVars, taskVars, Stranded, JobRef
  <1> QED BY <1>9, <1>10, <1>11, <1>12, <1>13, <1>14, <1>16, <1>17, <1>18, <1>19, StepKinds

(* The invariant for what is set aside.                                    *)
PendingInv == CreationInv /\ ChargedOK /\ PendingAccountedFor

LEMMA PendingBegins == CreationInit => PendingInv
  <1> SUFFICES ASSUME CreationInit PROVE PendingInv OBVIOUS
  <1>1. CreationInv BY CreationBegins
  <1>2. ChargedOK BY DEF CreationInit, ChargedOK, Unsaved
  <1>3. Stranded = {} BY DEF CreationInit, LedgerInit, Stranded
  <1>4. Cardinality(Stranded) = 0 BY <1>3, FS_EmptySet
  <1>5. faults.crashes = 0 /\ faults.db = 0 BY DEF CreationInit
  <1>6. Cardinality(Tasks) \in Nat
    BY CreationAssumption, FS_CardinalityType DEF CreationAssumption
  <1>7. PendingAccountedFor BY <1>4, <1>5, <1>6 DEF PendingAccountedFor
  <1> QED BY <1>1, <1>2, <1>7 DEF PendingInv

LEMMA PendingKeeps == PendingInv /\ [CreationNext]_creationVars => PendingInv'
  <1> SUFFICES ASSUME PendingInv, [CreationNext]_creationVars PROVE PendingInv'
    OBVIOUS
  <1>1. CreationInv' BY CreationKeeps DEF PendingInv
  <1>2. TaskPart BY DoTaskPart DEF PendingInv, creationVars, TaskPart
  <1>3. ChargedOK' BY <1>2, ChargedKept DEF PendingInv, CreationInv
  <1>4. PendingAccountedFor' BY PendingKept DEF PendingInv
  <1> QED BY <1>1, <1>3, <1>4 DEF PendingInv

(* Points are only set aside for a call that is running: what is left      *)
(* behind is at most one charge for each call that a restart or a          *)
(* cancellation ended, and one for each failing transaction, whatever      *)
(* calls interleave (reserve, confirm and refund_mailbox_credit).          *)
THEOREM CreationPending == CreationSpec => []PendingAccountedFor
  <1>1. PendingInv => PendingAccountedFor BY DEF PendingInv
  <1> QED BY <1>1, PendingBegins, PendingKeeps, PTL DEF CreationSpec

-----------------------------------------------------------------------------
(* Nobody gets without paying.                                             *)

(* The faults after which the code still keeps this.                       *)
Undisturbed == faults.db = 0 /\ (faults.crashes = 0 \/ ~faults.expiry)

(* The charges of a reference that were not given back.                    *)
Unreturned(u, r) ==
    {i \in DOMAIN rows : /\ rows[i].user = u /\ rows[i].ref = r
                         /\ rows[i].type = "consume" /\ rows[i].status # "reversed"}

(* The calls that have paid for a mailbox and not saved one.               *)
Charging(u, r) ==
    {t \in Tasks : pc[t] \in Unsaved \union {"refund"} /\ job[t].user = u /\ JobRef(t) = r}

BoughtFor(u, r) ==
    Cardinality(Owned(u, r)) + (IF Charging(u, r) = {} THEN 0 ELSE 1)
        <= Cardinality(Unreturned(u, r))

(* Each mailbox has a charge of its own, and so has a call that may still  *)
(* save one.                                                               *)
Bought == Undisturbed => \A u \in Users, r \in Refs : BoughtFor(u, r)

(* Until something expires, every mailbox is live.                         *)
NoneExpired == ~faults.expiry => \A n \in Recorded : mailboxes[n].live

LEMMA FiniteRows ==
    ASSUME NEW table \in Seq(Row), NEW S, S \subseteq DOMAIN table
    PROVE  IsFiniteSet(S) /\ Cardinality(S) \in Nat
  <1>1. DOMAIN table = 1..Len(table) /\ Len(table) \in Nat OBVIOUS
  <1>2. IsFiniteSet(1..Len(table)) BY <1>1, FS_Interval
  <1> QED BY <1>1, <1>2, FS_Subset, FS_CardinalityType

LEMMA FiniteIds ==
    ASSUME NEW S, S \subseteq Ids
    PROVE  IsFiniteSet(S) /\ Cardinality(S) \in Nat
  <1>1. MaxIds \in Int BY CreationAssumption DEF CreationAssumption
  <1>2. IsFiniteSet(Ids) BY <1>1, FS_Interval DEF Ids
  <1> QED BY <1>2, FS_Subset, FS_CardinalityType

(* A step after which a reference has no more mailboxes and calls that may *)
(* save one, and no fewer charges.                                         *)
LEMMA BoughtSame ==
    ASSUME LedgerTypeOK, LedgerTypeOK', NEW u, NEW r, BoughtFor(u, r),
           Owned(u, r)' \subseteq Owned(u, r), Unreturned(u, r) \subseteq Unreturned(u, r)',
           Charging(u, r) = {} => Charging(u, r)' = {}
    PROVE  BoughtFor(u, r)'
  <1> DEFINE o == Cardinality(Owned(u, r))      oo == Cardinality(Owned(u, r)')
             c == Cardinality(Unreturned(u, r)) cc == Cardinality(Unreturned(u, r)')
  <1>1. /\ IsFiniteSet(Unreturned(u, r)) /\ c \in Nat
        /\ IsFiniteSet(Owned(u, r)) /\ o \in Nat
    BY FiniteRows, FiniteIds DEF LedgerTypeOK, Unreturned, Owned
  <1>2. /\ IsFiniteSet(Unreturned(u, r)') /\ cc \in Nat
        /\ IsFiniteSet(Owned(u, r)') /\ oo \in Nat
    BY FiniteRows, FiniteIds DEF LedgerTypeOK, Unreturned, Owned
  <1>3. oo <= o BY <1>1, FS_Subset
  <1>4. c <= cc BY <1>2, FS_Subset
  <1>5. o + (IF Charging(u, r) = {} THEN 0 ELSE 1) <= c BY DEF BoughtFor
  <1> HIDE DEF o, oo, c, cc
  <1>6. oo + (IF Charging(u, r)' = {} THEN 0 ELSE 1) <= cc BY <1>1, <1>2, <1>3, <1>4, <1>5
  <1> QED BY <1>6 DEF BoughtFor, oo, cc

(* A new mailbox of a reference is that of a call that saves for it.       *)
LEMMA OwnedBefore ==
    ASSUME CreationInv, StorePart, NEW u, NEW r, NEW n \in Owned(u, r)'
    PROVE  \/ n \in Owned(u, r)
           \/ \E t \in Tasks : /\ Saves(t) /\ n = job[t].id
                               /\ job[t].user = u /\ JobRef(t) = r
  <1> USE DEF CreationInv
  <1>1. /\ n \in Ids /\ mailboxes'[n] # NoMailbox
        /\ mailboxes'[n].owner = u /\ mailboxes'[n].ref = r
    BY DEF Owned
  <1>2. CASE /\ mailboxes[n] # NoMailbox
             /\ mailboxes'[n].owner = mailboxes[n].owner
             /\ mailboxes'[n].ref = mailboxes[n].ref
    BY <1>1, <1>2 DEF Owned
  <1>3. ASSUME NEW t \in Tasks, Saves(t), n = job[t].id
        PROVE  job[t].user = u /\ JobRef(t) = r
    <2> DEFINE m == [owner |-> job[t].user, ref |-> JobRef(t), domain |-> CandDomain(t),
                     instance |-> CandInstance(t), live |-> TRUE]
    <2>1. m.owner = job[t].user /\ m.ref = JobRef(t) OBVIOUS
    <2>2. mailboxes' = [mailboxes EXCEPT ![job[t].id] = m] BY <1>3 DEF Saves
    <2> HIDE DEF m
    <2>3. mailboxes'[n] = m BY <1>1, <1>3, <2>2 DEF StoreTypeOK
    <2> QED BY <1>1, <2>1, <2>3
  <1> QED BY <1>1, <1>2, <1>3, NewMailbox

(* A call that may still save has come that far before, unless it begins.  *)
LEMMA ChargingBefore ==
    ASSUME TasksOK, NEW u, NEW r, NEW x \in Charging(u, r)', NEW t \in Tasks,
           \/ UNCHANGED taskVars
           \/ Restarts
           \/ End(t)
           \/ Begins(t) /\ x # t
           \/ \E s \in Stages : Moves(t, s) /\ (s = "mark" \/ pc[t] \in Unsaved)
    PROVE  x \in Charging(u, r)
  <1>1. /\ x \in Tasks /\ pc'[x] \in Unsaved \union {"refund"}
        /\ job'[x].user = u /\ JobRef(x)' = r
    BY DEF Charging
  <1>2. pc \in [Tasks -> Stages] /\ job \in [Tasks -> Job \union {NoJob}] BY DEF TasksOK
  <1>3. ASSUME pc'[x] = pc[x], job'[x] = job[x] PROVE x \in Charging(u, r)
    BY <1>1, <1>3 DEF Charging, JobRef
  <1>4. CASE UNCHANGED taskVars BY <1>3, <1>4 DEF taskVars
  <1>5. CASE Restarts BY <1>1, <1>5 DEF Restarts, Unsaved
  <1>6. CASE End(t) BY <1>1, <1>2, <1>3, <1>6 DEF End, Await, Unsaved
  <1>7. CASE Begins(t) /\ x # t BY <1>2, <1>3, <1>7 DEF Begins
  <1>8. ASSUME NEW s \in Stages, Moves(t, s), s = "mark" \/ pc[t] \in Unsaved
        PROVE  x \in Charging(u, r)
    <2>1. CASE x # t BY <1>2, <1>3, <1>8, <2>1 DEF Moves
    <2>2. CASE x = t
      <3>1. /\ pc'[x] = s /\ job'[x].user = job[x].user /\ job'[x].key = job[x].key
            /\ job'[x].id = job[x].id
        BY <1>2, <1>8, <2>2 DEF Moves
      <3>2. pc[x] \in Unsaved BY <1>1, <1>8, <2>2, <3>1 DEF Unsaved
      <3> QED BY <1>1, <3>1, <3>2 DEF Charging, JobRef
    <2> QED BY <2>1, <2>2
  <1> QED BY <1>4, <1>5, <1>6, <1>7, <1>8

(* A reference keeps the charges that are not reversed.                    *)
LEMMA UnreturnedStays ==
    ASSUME NEW v, NEW q,
           \/ UNCHANGED rows
           \/ \E u, type, status, r : /\ PostsRow(u, type, status, r)
                                     /\ \A i \in DOMAIN rows : SameRow(i)
           \/ /\ DOMAIN rows' = DOMAIN rows
              /\ \A i \in DOMAIN rows : BecomesRow(i, "completed") \/ SameRow(i)
    PROVE  Unreturned(v, q) \subseteq Unreturned(v, q)'
  BY DEF Unreturned, PostsRow, SameRow, BecomesRow

LEMMA LedgerTypeStays ==
    ASSUME CreationInv, CreationNext
    PROVE  LedgerTypeOK /\ LedgerTypeOK'
  BY DoLedgerPart, LedgerPartIsLedger, StepHolds DEF CreationInv, IInv

(* Steps that neither save, charge nor give back.                          *)
LEMMA BoughtResting ==
    ASSUME CreationInv, CreationNext, Resting, NEW v, NEW q, BoughtFor(v, q)
    PROVE  BoughtFor(v, q)'
  <1>1. IInv /\ TasksOK /\ StorePart /\ UNCHANGED taskVars
    BY DoStorePart DEF CreationInv, Resting
  <1>2. ~\E t \in Tasks : Saves(t) BY <1>1 DEF Saves, taskVars
  <1>3. Owned(v, q)' \subseteq Owned(v, q) BY <1>1, <1>2, OwnedBefore
  <1>4. Unreturned(v, q) \subseteq Unreturned(v, q)'
    BY <1>1, AccountRows, UnreturnedStays DEF Resting, ledgerVars
  <1>5. UNCHANGED Charging(v, q) BY <1>1 DEF taskVars, Charging, JobRef
  <1> QED BY <1>3, <1>4, <1>5, LedgerTypeStays, BoughtSame

(* A call ends or the process restarts: it no longer needs its charge.     *)
LEMMA BoughtEnds ==
    ASSUME CreationInv, CreationNext, UNCHANGED ledgerVars,
           Restarts \/ \E t \in Tasks : End(t),
           NEW v, NEW q, BoughtFor(v, q)
    PROVE  BoughtFor(v, q)'
  <1>1. TasksOK /\ StorePart /\ UNCHANGED rows BY DoStorePart DEF CreationInv, ledgerVars
  <1>2. ~\E t \in Tasks : Saves(t)
    BY <1>1 DEF Saves, Restarts, End, Await, TasksOK
  <1>3. Owned(v, q)' \subseteq Owned(v, q) BY <1>1, <1>2, OwnedBefore
  <1>4. Unreturned(v, q) \subseteq Unreturned(v, q)' BY <1>1, UnreturnedStays
  <1>5. Charging(v, q)' \subseteq Charging(v, q)
    <2>1. ASSUME NEW x \in Charging(v, q)' PROVE x \in Charging(v, q)
      <3>1. x \in Tasks BY DEF Charging
      <3> QED BY <1>1, <3>1, ChargingBefore
    <2> QED BY <2>1
  <1> QED BY <1>3, <1>4, <1>5, LedgerTypeStays, BoughtSame

(* A call goes on: if it saves, its mailbox takes the place it had.        *)
LEMMA BoughtGoesOn ==
    ASSUME CreationInv, CreationNext, NEW t \in Tasks, GoesOn(t),
           NEW v, NEW q, BoughtFor(v, q)
    PROVE  BoughtFor(v, q)'
  <1>1. /\ TasksOK /\ StorePart /\ UNCHANGED rows /\ pc[t] \in Unsaved
    BY DoStorePart DEF CreationInv, GoesOn, ledgerVars
  <1>2. PICK s \in Stages : Moves(t, s) BY DEF GoesOn, Unsaved, Stages
  <1>3. Unreturned(v, q) \subseteq Unreturned(v, q)' BY <1>1, UnreturnedStays
  <1>4. Charging(v, q)' \subseteq Charging(v, q) BY <1>1, <1>2, ChargingBefore
  <1>5. \A x \in Tasks : Saves(x) => x = t BY <1>1, <1>2 DEF Saves, Moves, TasksOK
  <1>6. CASE Saves(t) /\ job[t].user = v /\ JobRef(t) = q
    <2>1. t \in Charging(v, q) BY <1>6 DEF Saves, Charging, Unsaved
    <2>2. Charging(v, q)' = {}
      <3> SUFFICES ASSUME NEW x \in Charging(v, q)' PROVE FALSE OBVIOUS
      <3>1. x \in Tasks /\ pc[x] # "idle" /\ JobRef(x) = q
        BY <1>4 DEF Charging, Unsaved
      <3>2. pc[t] # "idle" BY <1>6 DEF Saves
      <3>3. x = t BY <1>6, <3>1, <3>2, RefUnique
      <3> QED BY <1>6, <3>3 DEF Charging, Saves, Unsaved
    <2> DEFINE O == Owned(v, q)      OO == Owned(v, q)'
               C == Unreturned(v, q) CC == Unreturned(v, q)'
    <2>3. OO \subseteq O \union {job[t].id} BY <1>1, <1>5, OwnedBefore
    <2>4. /\ IsFiniteSet(O) /\ Cardinality(O) \in Nat
          /\ IsFiniteSet(OO) /\ Cardinality(OO) \in Nat
          /\ IsFiniteSet(C) /\ Cardinality(C) \in Nat
          /\ IsFiniteSet(CC) /\ Cardinality(CC) \in Nat
      BY LedgerTypeStays, FiniteRows, FiniteIds DEF LedgerTypeOK, Unreturned, Owned
    <2>5. Cardinality(O) + 1 <= Cardinality(C) BY <2>1 DEF BoughtFor
    <2> HIDE DEF O, OO, C, CC
    <2>6. /\ IsFiniteSet(O \union {job[t].id})
          /\ Cardinality(O \union {job[t].id}) <= Cardinality(O) + 1
      BY <2>4, OneMore
    <2>7. Cardinality(OO) <= Cardinality(O \union {job[t].id}) BY <2>3, <2>6, FS_Subset
    <2>8. Cardinality(C) <= Cardinality(CC) BY <1>3, <2>4, FS_Subset DEF C, CC
    <2>9. Cardinality(O \union {job[t].id}) \in Nat BY <2>6, FS_CardinalityType
    <2>10. Cardinality(OO) + 0 <= Cardinality(CC)
      BY <2>4, <2>5, <2>6, <2>7, <2>8, <2>9
    <2> QED BY <2>2, <2>10 DEF BoughtFor, OO, CC
  <1>7. CASE ~(Saves(t) /\ job[t].user = v /\ JobRef(t) = q)
    <2>1. Owned(v, q)' \subseteq Owned(v, q) BY <1>1, <1>5, <1>7, OwnedBefore
    <2> QED BY <1>3, <1>4, <2>1, LedgerTypeStays, BoughtSame
  <1> QED BY <1>6, <1>7

(* A call confirms: its charge is completed and stays the mailbox's.       *)
LEMMA BoughtConfirms ==
    ASSUME CreationInv, CreationNext, NEW t \in Tasks, ConfirmCredit(t),
           NEW v, NEW q, BoughtFor(v, q)
    PROVE  BoughtFor(v, q)'
  <1> DEFINE u == job[t].user  r == JobRef(t)
  <1>1. /\ TasksOK /\ IInv /\ StorePart /\ pc[t] = "confirm" /\ pc[t] # "idle"
        /\ Confirm(u, r)
    BY DoStorePart DEF CreationInv, ConfirmCredit, Runs
  <1>2. u \in Users /\ r \in Refs BY <1>1, JobRefs DEF TasksOK, Job
  <1>3. Moves(t, "mark") BY <1>1, MovesConfirmed DEF ConfirmCredit, Runs
  <1> HIDE DEF u, r
  <1>4. ~\E x \in Tasks : Saves(x) BY <1>1, <1>3 DEF Saves, Moves, TasksOK
  <1>5. Owned(v, q)' \subseteq Owned(v, q) BY <1>1, <1>4, OwnedBefore
  <1>6. Unreturned(v, q) \subseteq Unreturned(v, q)'
    <2>1. /\ DOMAIN rows' = DOMAIN rows
          /\ \A i \in DOMAIN rows : BecomesRow(i, "completed") \/ SameRow(i)
      BY <1>1, <1>2, ConfirmRows
    <2> QED BY <2>1, UnreturnedStays
  <1>7. Charging(v, q)' \subseteq Charging(v, q)
    <2>1. \E s \in Stages : Moves(t, s) /\ (s = "mark" \/ pc[t] \in Unsaved)
      BY <1>3 DEF Stages
    <2> QED BY <1>1, <2>1, ChargingBefore
  <1> QED BY <1>5, <1>6, <1>7, LedgerTypeStays, BoughtSame

(* A call gives back its charge: it was not going to save any more.        *)
LEMMA BoughtGivesBack ==
    ASSUME CreationInv, CreationNext, NEW t \in Tasks, GiveBack(t),
           NEW v, NEW q, BoughtFor(v, q)
    PROVE  BoughtFor(v, q)'
  <1>1. PICK u, r : u = job[t].user /\ r = JobRef(t) OBVIOUS
  <1>2. /\ TasksOK /\ IInv /\ StorePart /\ pc[t] = "refund" /\ pc[t] # "idle" /\ End(t)
    BY DoStorePart DEF CreationInv, GiveBack, Runs
  <1>3. u \in Users /\ r \in Refs BY <1>1, <1>2, JobRefs DEF TasksOK, Job
  <1>4. UNCHANGED ledgerVars \/ RefundPending(u, r)
    BY <1>1 DEF GiveBack, Refund, RefundNothing
  <1>5. CASE UNCHANGED ledgerVars BY <1>2, <1>5, BoughtEnds
  <1>6. CASE RefundPending(u, r)
    <2>1. PICK i \in DOMAIN rows : /\ Pending(u, r) = {i} /\ BecomesRow(i, "reversed")
                                  /\ \A j \in DOMAIN rows \ {i} : SameRow(j)
      BY <1>2, <1>3, <1>6, RefundRows
    <2>2. PostsRow(u, "refund", "completed", r) BY <1>2, <1>3, <1>6, RefundRows
    <2>3. ~\E x \in Tasks : Saves(x) BY <1>2 DEF Saves, End, Await, TasksOK
    <2>4. Owned(v, q)' \subseteq Owned(v, q) BY <1>2, <2>3, OwnedBefore
    <2>5. Charging(v, q)' \subseteq Charging(v, q) BY <1>2, ChargingBefore
    <2>6. ASSUME NEW j \in Unreturned(v, q), j # i PROVE j \in Unreturned(v, q)'
      BY <2>1, <2>2, <2>6 DEF Unreturned, PostsRow, SameRow
    <2>7. rows[i].user = u /\ rows[i].ref = r BY <2>1 DEF Pending
    <2>8. CASE v # u \/ q # r
      <3>1. i \notin Unreturned(v, q) BY <2>7, <2>8 DEF Unreturned
      <3>2. Unreturned(v, q) \subseteq Unreturned(v, q)' BY <2>6, <3>1
      <3> QED BY <2>4, <2>5, <3>2, LedgerTypeStays, BoughtSame
    <2>9. CASE v = u /\ q = r
      <3>1. t \in Charging(v, q) BY <1>1, <1>2, <2>9 DEF Charging
      <3>2. Charging(v, q)' = {}
        <4> SUFFICES ASSUME NEW x \in Charging(v, q)' PROVE FALSE OBVIOUS
        <4>1. x \in Tasks /\ pc[x] # "idle" /\ JobRef(x) = q
          BY <2>5 DEF Charging, Unsaved
        <4>2. x = t BY <1>1, <1>2, <2>9, <4>1, RefUnique
        <4> QED BY <1>2, <4>2 DEF Charging, End, Await, TasksOK, Unsaved
      <3> DEFINE O == Owned(v, q)      OO == Owned(v, q)'
                 C == Unreturned(v, q) CC == Unreturned(v, q)'
      <3>3. C \subseteq CC \union {i} BY <2>6
      <3>4. /\ IsFiniteSet(O) /\ Cardinality(O) \in Nat
            /\ IsFiniteSet(OO) /\ Cardinality(OO) \in Nat
            /\ IsFiniteSet(C) /\ Cardinality(C) \in Nat
            /\ IsFiniteSet(CC) /\ Cardinality(CC) \in Nat
        BY LedgerTypeStays, FiniteRows, FiniteIds DEF LedgerTypeOK, Unreturned, Owned
      <3>5. Cardinality(O) + 1 <= Cardinality(C) BY <3>1 DEF BoughtFor
      <3>6. Cardinality(OO) <= Cardinality(O) BY <2>4, <3>4, FS_Subset
      <3> HIDE DEF O, OO, C, CC
      <3>7. /\ IsFiniteSet(CC \union {i})
            /\ Cardinality(CC \union {i}) <= Cardinality(CC) + 1
        BY <3>4, OneMore
      <3>8. Cardinality(C) <= Cardinality(CC \union {i}) BY <3>3, <3>7, FS_Subset
      <3>9. Cardinality(CC \union {i}) \in Nat BY <3>7, FS_CardinalityType
      <3>10. Cardinality(OO) + 0 <= Cardinality(CC)
        BY <3>4, <3>5, <3>6, <3>7, <3>8, <3>9
      <3> QED BY <3>2, <3>10 DEF BoughtFor, OO, CC
    <2> QED BY <2>8, <2>9
  <1> QED BY <1>4, <1>5, <1>6

(* A call that finds a charge of its reference pending, without any crash: *)
(* that charge would be another call's; without any expiry: the reference  *)
(* has no mailbox yet, for the call would have been answered with it.      *)
LEMMA FreshStart ==
    ASSUME CreationInv, PendingAccountedFor, NoneExpired, Undisturbed,
           NEW t \in Tasks, NEW u \in Users,
           NEW key \in SectionKeys \union {NoKey}, NEW req \in Requests,
           Begin(t, u, key, req), NEW r, r = RefOf(key, lastId + 1), Pending(u, r) # {}
    PROVE  Owned(u, r) = {}
  <1> USE DEF CreationInv
  <1>1. /\ lastId \in Nat /\ lastId + 1 \in Ids
        /\ SectionFree(key) /\ ~Known(key)
    BY CreationAssumption DEF CreationAssumption, OthersTypeOK, Begin, Ids
  <1>2. /\ \A n \in Ids : IdRef(n) \notin SectionKeys
        /\ NoTask \notin Tasks
    BY CreationAssumption DEF CreationAssumption
  <1>3. \A m, n \in Ids : IdRef(m) = IdRef(n) => m = n
    <2>1. \A n \in Ids : IdRef(n)[2] = n BY DEF IdRef
    <2> QED BY <2>1
  <1>4. CASE faults.crashes = 0
    <2>1. PICK i : i \in Pending(u, r) OBVIOUS
    <2>2. Stranded = {}
      <3>1. IsFiniteSet(Stranded) /\ Cardinality(Stranded) \in Nat
        BY FiniteStranded DEF IInv
      <3>2. Cardinality(Tasks) \in Nat
        BY CreationAssumption, FS_CardinalityType DEF CreationAssumption
      <3>3. Cardinality(Stranded) <= 0
        BY <1>4, <3>2 DEF PendingAccountedFor, Undisturbed
      <3> QED BY <3>1, <3>3, FS_EmptySet
    <2>3. PICK x \in Tasks : pc[x] # "idle" /\ JobRef(x) = r
      BY <2>1, <2>2 DEF Stranded, Pending
    <2>4. /\ r \in SectionKeys \union {IdRef(job[x].id)}
          /\ r \in SectionKeys => job[x].key # NoKey /\ r = job[x].key
      BY <2>3, JobRefs
    <2>5. job[x] \in Job /\ job[x].id <= lastId /\ (job[x].key # NoKey => holder[job[x].key] = x)
      BY <2>3 DEF TasksOK, IdsOK
    <2>6. job[x].id \in Ids /\ job[x].id \in Nat BY <2>5 DEF Job, Ids
    <2>7. CASE key = NoKey
      <3>1. r = IdRef(lastId + 1) BY <2>7 DEF RefOf
      <3>2. job[x].id = lastId + 1 BY <1>1, <1>2, <1>3, <2>4, <2>6, <3>1
      <3> QED BY <1>1, <2>5, <3>2
    <2>8. CASE key # NoKey
      <3>1. r = key /\ key \in SectionKeys BY <2>8 DEF RefOf
      <3>2. holder[key] = x BY <2>4, <2>5, <3>1
      <3> QED BY <1>1, <1>2, <2>8, <3>2 DEF SectionFree
    <2> QED BY <2>7, <2>8
  <1>5. CASE ~faults.expiry
    <2> SUFFICES ASSUME NEW n \in Owned(u, r) PROVE FALSE OBVIOUS
    <2>1. n \in Ids /\ mailboxes[n] # NoMailbox /\ mailboxes[n].ref = r BY DEF Owned
    <2>2. mailboxes[n].live BY <1>5, <2>1 DEF NoneExpired, Recorded
    <2>3. CASE key = NoKey
      <3>1. r = IdRef(lastId + 1) BY <2>3 DEF RefOf
      <3>2. r \in SectionKeys \union {IdRef(n)} BY <2>1 DEF LiveRecorded
      <3>3. n = lastId + 1 BY <1>1, <1>2, <1>3, <2>1, <3>1, <3>2
      <3>4. n <= lastId BY <2>1 DEF IdsOK
      <3> QED BY <1>1, <3>3, <3>4
    <2>4. CASE key # NoKey
      <3>1. r = key /\ key \in SectionKeys BY <2>4 DEF RefOf
      <3>2. idem[key] # NoRecord /\ idem[key].id = n
        BY <2>1, <2>2, <3>1 DEF LiveRecorded
      <3>3. Purged[key] = idem[key] BY <2>2, <3>1, <3>2 DEF Purged, Expired
      <3> QED BY <1>1, <2>4, <3>2, <3>3 DEF Known
    <2> QED BY <2>3, <2>4
  <1> QED BY <1>4, <1>5 DEF Undisturbed

(* A call begins with a charge of its own.                                 *)
LEMMA BoughtBegins ==
    ASSUME CreationInv, CreationNext, PendingAccountedFor, NoneExpired, Undisturbed,
           NEW t \in Tasks, TakesCharge(t), NEW v, NEW q, BoughtFor(v, q)
    PROVE  BoughtFor(v, q)'
  <1>1. PICK u \in Users, key \in SectionKeys \union {NoKey}, req \in Requests :
            Begin(t, u, key, req)
    BY DEF TakesCharge
  <1>2. PICK r : r = RefOf(key, lastId + 1) OBVIOUS
  <1>3. /\ TasksOK /\ IInv /\ StorePart /\ Begins(t) /\ Reserve(u, r)
    BY <1>1, <1>2, DoStorePart, BeginsCall DEF CreationInv, Begin
  <1>4. r \in Refs
    <2>1. lastId + 1 \in Ids
      BY <1>1, CreationAssumption DEF CreationAssumption, CreationInv, OthersTypeOK, Begin, Ids
    <2> QED BY <1>2, <2>1, CreationAssumption DEF CreationAssumption, RefOf
  <1>5. ~\E x \in Tasks : Saves(x) BY <1>3 DEF Saves, Begins, TasksOK
  <1>6. Owned(v, q)' \subseteq Owned(v, q) BY <1>3, <1>5, OwnedBefore
  <1>7. job'[t].user = u /\ JobRef(t)' = r
    <2>1. PICK cands \in Candidates(req.wanted) :
              job' = [job EXCEPT ![t] =
                        [user |-> u, key |-> key, request |-> req, id |-> lastId + 1,
                         cands |-> cands, retryable |-> FALSE, charged |-> TRUE]]
      BY <1>1 DEF Begin
    <2>2. job'[t].user = u /\ job'[t].key = key /\ job'[t].id = lastId + 1
      BY <2>1, <1>3 DEF TasksOK
    <2> QED BY <1>2, <2>2 DEF JobRef
  <1>8. ASSUME NEW x \in Charging(v, q)', x # t PROVE x \in Charging(v, q)
    BY <1>3, <1>8, ChargingBefore
  <1>9. Unreturned(v, q) \subseteq Unreturned(v, q)'
    <2>1. CASE ReserveAgain(u, r) BY <2>1, UnreturnedStays DEF ReserveAgain, ledgerVars
    <2>2. CASE ReserveNew(u, r)
      <3>1. PostsRow(u, "consume", "pending", r) /\ \A j \in DOMAIN rows : SameRow(j)
        BY <1>3, <1>4, <2>2, ChargeRows
      <3> QED BY <3>1, UnreturnedStays
    <2> QED BY <1>3, <2>1, <2>2 DEF Reserve
  <1>10. CASE v # u \/ q # r
    <2>1. t \notin Charging(v, q)' BY <1>7, <1>10 DEF Charging
    <2>2. Charging(v, q)' \subseteq Charging(v, q) BY <1>8, <2>1
    <2> QED BY <1>6, <1>9, <2>2, LedgerTypeStays, BoughtSame
  <1>11. CASE v = u /\ q = r
    <2> DEFINE O == Owned(v, q)      OO == Owned(v, q)'
               C == Unreturned(v, q) CC == Unreturned(v, q)'
    <2>1. /\ IsFiniteSet(O) /\ Cardinality(O) \in Nat
          /\ IsFiniteSet(OO) /\ Cardinality(OO) \in Nat
          /\ IsFiniteSet(C) /\ Cardinality(C) \in Nat
          /\ IsFiniteSet(CC) /\ Cardinality(CC) \in Nat
      BY LedgerTypeStays, FiniteRows, FiniteIds DEF LedgerTypeOK, Unreturned, Owned
    <2>2. Cardinality(OO) <= Cardinality(O) /\ Cardinality(C) <= Cardinality(CC)
      BY <1>6, <1>9, <2>1, FS_Subset
    <2>3. Cardinality(O) <= Cardinality(C)
      <3> HIDE DEF O, C
      <3>1. \/ Cardinality(O) + 0 <= Cardinality(C)
            \/ Cardinality(O) + 1 <= Cardinality(C)
        BY DEF BoughtFor, O, C
      <3> QED BY <2>1, <3>1
    <2>4. Cardinality(OO) + 1 <= Cardinality(CC)
      <3>1. CASE ReserveAgain(u, r)
        <4>1. Pending(u, r) # {} BY <3>1 DEF ReserveAgain
        <4>2. O = {} BY <1>1, <1>2, <1>11, <4>1, FreshStart
        <4>3. C # {}
          <5>1. Pending(u, r) \subseteq C BY <1>11 DEF Pending, Unreturned
          <5> QED BY <4>1, <5>1
        <4>4. Cardinality(C) # 0 /\ Cardinality(O) = 0 BY <2>1, <4>2, <4>3, FS_EmptySet
        <4> HIDE DEF O, OO, C, CC
        <4> QED BY <2>1, <2>2, <4>4
      <3>2. CASE ReserveNew(u, r)
        <4>1. PostsRow(u, "consume", "pending", r) BY <1>3, <1>4, <3>2, ChargeRows
        <4>2. Len(rows) + 1 \notin DOMAIN rows
          <5>1. DOMAIN rows = 1..Len(rows) /\ Len(rows) \in Nat
            BY <1>3 DEF IInv, LedgerTypeOK
          <5> QED BY <5>1
        <4>3. Len(rows) + 1 \notin C BY <4>2 DEF Unreturned
        <4>4. Len(rows) + 1 \in CC BY <1>11, <4>1 DEF Unreturned, PostsRow
        <4>5. C \union {Len(rows) + 1} \subseteq CC BY <1>9, <4>4
        <4> HIDE DEF O, OO, C, CC
        <4>6. Cardinality(C \union {Len(rows) + 1}) = Cardinality(C) + 1
          BY <2>1, <4>3, FS_AddElement
        <4>7. Cardinality(C \union {Len(rows) + 1}) <= Cardinality(CC)
          BY <2>1, <4>5, FS_Subset
        <4> QED BY <2>1, <2>2, <2>3, <4>6, <4>7
      <3> QED BY <1>3, <3>1, <3>2 DEF Reserve
    <2> HIDE DEF OO, CC
    <2>5. Cardinality(OO) + (IF Charging(v, q)' = {} THEN 0 ELSE 1) <= Cardinality(CC)
      BY <2>1, <2>4
    <2> QED BY <2>5 DEF BoughtFor, OO, CC
  <1> QED BY <1>10, <1>11

LEMMA NoneExpiredKept ==
    ASSUME CreationInv, CreationNext, NoneExpired
    PROVE  NoneExpired'
  <1> USE DEF CreationInv
  <1> SUFFICES ASSUME ~faults'.expiry, NEW n \in Recorded' PROVE mailboxes'[n].live
    BY DEF NoneExpired
  <1>1. n \in Ids /\ mailboxes'[n] # NoMailbox BY DEF Recorded
  <1>2. ~faults.expiry BY FaultsGrow
  <1>3. n \in Recorded => mailboxes[n].live BY <1>2 DEF NoneExpired
  <1>4. StorePart BY DoStorePart
  <1>5. CASE UNCHANGED mailboxes BY <1>1, <1>3, <1>5 DEF Recorded
  <1>6. ASSUME NEW t \in Tasks, Saves(t) PROVE mailboxes'[n].live
    <2> DEFINE m == [owner |-> job[t].user, ref |-> JobRef(t), domain |-> CandDomain(t),
                     instance |-> CandInstance(t), live |-> TRUE]
    <2>1. m.live OBVIOUS
    <2>2. mailboxes' = [mailboxes EXCEPT ![job[t].id] = m] BY <1>6 DEF Saves
    <2> HIDE DEF m
    <2>3. mailboxes'[n] = m \/ mailboxes'[n] = mailboxes[n] BY <1>1, <2>2 DEF StoreTypeOK
    <2> QED BY <1>1, <1>3, <2>1, <2>3 DEF Recorded
  <1>7. ASSUME NEW m \in Ids, Expires(m) PROVE FALSE
    <2>1. faults'.expiry BY <1>7 DEF Expires, OthersTypeOK
    <2> QED BY <2>1
  <1> QED BY <1>4, <1>5, <1>6, <1>7 DEF StorePart, storeVars, Purges

LEMMA BoughtKept ==
    ASSUME CreationInv, PendingAccountedFor, NoneExpired, Bought, CreationNext
    PROVE  Bought'
  <1> SUFFICES ASSUME Undisturbed', NEW u \in Users, NEW r \in Refs PROVE BoughtFor(u, r)'
    BY DEF Bought
  <1>1. Undisturbed BY FaultsGrow DEF Undisturbed
  <1>2. BoughtFor(u, r) BY <1>1 DEF Bought
  <1>3. CASE Resting BY <1>2, <1>3, BoughtResting
  <1>4. ASSUME NEW t \in Tasks, GoesOn(t) PROVE BoughtFor(u, r)' BY <1>2, <1>4, BoughtGoesOn
  <1>5. ASSUME NEW t \in Tasks, TakesCharge(t) PROVE BoughtFor(u, r)'
    BY <1>1, <1>2, <1>5, BoughtBegins
  <1>6. ASSUME NEW t \in Tasks, ConfirmCredit(t) PROVE BoughtFor(u, r)'
    BY <1>2, <1>6, BoughtConfirms
  <1>7. ASSUME NEW t \in Tasks, GiveBack(t) PROVE BoughtFor(u, r)'
    BY <1>2, <1>7, BoughtGivesBack
  <1>8. ASSUME NEW t \in Tasks, Finish(t) \/ Cancelled(t) PROVE BoughtFor(u, r)'
    BY <1>2, <1>8, BoughtEnds DEF Finish, Cancelled
  <1>9. CASE Crash
    <2>1. Restarts /\ UNCHANGED ledgerVars BY <1>9 DEF Crash, Restarts
    <2> QED BY <1>2, <2>1, BoughtEnds
  <1>10. ASSUME NEW t \in Tasks, DbFault(t) PROVE FALSE
    <2>1. faults.db \in Nat BY FaultsGrow
    <2>2. faults'.db = faults.db + 1 BY <1>10 DEF DbFault, CreationInv, OthersTypeOK
    <2> QED BY <2>1, <2>2 DEF Undisturbed
  <1> QED BY <1>3, <1>4, <1>5, <1>6, <1>7, <1>8, <1>9, <1>10, StepKinds

(* The invariant for what is charged.                                      *)
BoughtInv == PendingInv /\ NoneExpired /\ Bought

LEMMA BoughtInit == CreationInit => BoughtInv
  <1> SUFFICES ASSUME CreationInit PROVE BoughtInv OBVIOUS
  <1>1. PendingInv BY PendingBegins
  <1>2. Recorded = {} BY DEF CreationInit, Recorded
  <1>3. ASSUME NEW u, NEW r PROVE BoughtFor(u, r)
    <2>1. Owned(u, r) = {} /\ Charging(u, r) = {} /\ Unreturned(u, r) = {}
      BY DEF CreationInit, LedgerInit, Owned, Charging, Unreturned, Unsaved
    <2> QED BY <2>1, FS_EmptySet DEF BoughtFor
  <1> QED BY <1>1, <1>2, <1>3 DEF BoughtInv, NoneExpired, Bought

LEMMA BoughtStep == BoughtInv /\ [CreationNext]_creationVars => BoughtInv'
  <1> SUFFICES ASSUME BoughtInv, [CreationNext]_creationVars PROVE BoughtInv'
    OBVIOUS
  <1>1. PendingInv' BY PendingKeeps DEF BoughtInv
  <1>2. CASE CreationNext
    BY <1>1, <1>2, NoneExpiredKept, BoughtKept DEF BoughtInv, PendingInv
  <1>3. CASE UNCHANGED creationVars
    <2>1. NoneExpired' BY <1>3 DEF creationVars, storeVars, BoughtInv, NoneExpired, Recorded
    <2>2. UNCHANGED <<rows, mailboxes, pc, job, faults>>
      BY <1>3 DEF creationVars, ledgerVars, storeVars, taskVars
    <2>3. ASSUME NEW u, NEW r, BoughtFor(u, r) PROVE BoughtFor(u, r)'
      <3>1. UNCHANGED <<Owned(u, r), Charging(u, r), Unreturned(u, r)>>
        BY <2>2 DEF Owned, Charging, Unreturned, JobRef
      <3> QED BY <2>3, <3>1 DEF BoughtFor
    <2>4. Bought' BY <2>2, <2>3 DEF BoughtInv, Bought, Undisturbed
    <2> QED BY <1>1, <2>1, <2>4 DEF BoughtInv
  <1> QED BY <1>2, <1>3

(* Nobody gets without paying: as long as no transaction fails, and no     *)
(* restart is followed by an expiry, each mailbox has a charge of its own  *)
(* that was not given back, for any calls and retries of them              *)
(* (reserve_mailbox_credit before addUser, refund only before a save).     *)
THEOREM CreationMailboxCharged == CreationSpec => []MailboxCharged
  <1>1. ASSUME BoughtInv PROVE MailboxCharged
    <2> SUFFICES ASSUME Undisturbed, NEW u \in Users, NEW r \in Refs
                 PROVE  MailboxesOf(u, r)
                            <= Charges(u, r, "completed") + Charges(u, r, "pending")
      BY DEF MailboxCharged, Undisturbed
    <2> DEFINE C == Completed(u, r)  P == Pending(u, r)  A == Unreturned(u, r)
               O == Owned(u, r)
    <2>1. LedgerTypeOK BY <1>1 DEF BoughtInv, PendingInv, CreationInv, IInv
    <2>2. /\ IsFiniteSet(C) /\ Cardinality(C) \in Nat
          /\ IsFiniteSet(P) /\ Cardinality(P) \in Nat
          /\ IsFiniteSet(A) /\ Cardinality(A) \in Nat
          /\ IsFiniteSet(O) /\ Cardinality(O) \in Nat
      BY <2>1, FiniteRows, FiniteIds DEF LedgerTypeOK, Completed, Pending, Unreturned, Owned
    <2>3. A = C \union P /\ C \intersect P = {}
      <3>1. \A i \in DOMAIN rows : rows[i] \in Row BY <2>1 DEF LedgerTypeOK
      <3> QED BY <3>1 DEF Completed, Pending, Unreturned, Row
    <2>4. MailboxesOf(u, r) = Cardinality(O) BY DEF MailboxesOf, Owned
    <2>5. Charges(u, r, "completed") = Cardinality(C) BY DEF Charges, Completed
    <2>6. Charges(u, r, "pending") = Cardinality(P)
      <3>1. P = {i \in DOMAIN rows : /\ rows[i].user = u /\ rows[i].ref = r
                                     /\ rows[i].type = "consume"
                                     /\ rows[i].status = "pending"}
        BY DEF Pending
      <3> HIDE DEF P
      <3> QED BY <3>1 DEF Charges
    <2>7. \/ Cardinality(O) + 0 <= Cardinality(A)
          \/ Cardinality(O) + 1 <= Cardinality(A)
      BY <1>1 DEF BoughtInv, Bought, BoughtFor
    <2> HIDE DEF A, C, P, O
    <2>8. Cardinality(A) = Cardinality(C) + Cardinality(P)
      <3>1. Cardinality(C \intersect P) = 0 BY <2>3, FS_EmptySet
      <3>2. Cardinality(A) = Cardinality(C) + Cardinality(P) - Cardinality(C \intersect P)
        BY <2>2, <2>3, FS_Union
      <3> QED BY <2>2, <3>1, <3>2
    <2> QED BY <2>2, <2>4, <2>5, <2>6, <2>7, <2>8
  <1> QED BY <1>1, BoughtInit, BoughtStep, PTL DEF CreationSpec
==============================================================================
