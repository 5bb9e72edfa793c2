---------------------------- MODULE BatchCreation ----------------------------
(***************************************************************************)
(* MailboxGatewayService.create_mailboxes (mailbox_service.py): a batch of *)
(* calls of create_mailbox, at most MaxConcurrency of them at a time,      *)
(* beside single calls, over the lock table of IdempotencyLocks and what a *)
(* call does with its key, KeyedCreation.                                  *)
(*                                                                         *)
(* The items of a batch are tasks that gather starts in the order of their *)
(* indices; asyncio.Semaphore serves them in that order.  An item that has *)
(* its permit goes on to the lock of its key in the same step of the event *)
(* loop, and one that enters its section goes on to the reservation of the *)
(* price, where it meets the user's status and points.                     *)
(***************************************************************************)
EXTENDS IdempotencyLocks

CONSTANTS
    Batches,        \* calls of create_mailboxes
    Callers,        \* other tasks that call create_mailbox
    CallerKeys,     \* the keys they use
    Count,          \* items of a batch
    MaxConcurrency, \* max_concurrency
    PrefixOf,       \* PrefixOf[b]: idempotency_prefix of batch b
    MaxChanges      \* bound: restarts, changes of the user's status and
                    \* mailboxes that expire, together

Items == Batches \X (1 .. Count)

ASSUME BatchAssumption ==
    /\ Count \in Nat \ {0} /\ MaxConcurrency \in Nat \ {0}
    /\ MaxChanges \in Nat
    /\ Tasks = Items \union Callers /\ Items \intersect Callers = {}
    /\ CallerKeys \subseteq Keys
    /\ Keys = {<<PrefixOf[b], i>> : b \in Batches, i \in 1 .. Count}

VARIABLES
    batch,      \* stage of a batch
    item,       \* stage of an item
    permits,    \* permits[b]: the value of the batch's semaphore
    charged,    \* the tasks that have a charge reserved
    result,     \* result[t]: the mailbox item t has got, or Failed
    boxes,      \* see KeyedCreation
    drawn,      \* mailboxes made so far
    lapsed,     \* the keys whose mailbox has expired
    active,     \* the user's status
    late,       \* late[b]: mailboxes batch b has made since the user was disabled
    changes

batchVars == <<batch, item, permits, charged, result, boxes, drawn, lapsed, active, late, changes>>

Failed == 0

Creation == INSTANCE KeyedCreation WITH Mailboxes <- Nat \ {Failed}

BatchTypeOK ==
    /\ batch \in [Batches -> {"idle", "running", "cancelled", "answered"}]
    /\ item \in [Items -> {"none", "queued", "running", "done"}]
    /\ permits \in [Batches -> 0 .. Count]
    /\ charged \subseteq Tasks
    /\ result \in [Items -> Nat]
    /\ boxes \in [Keys -> SUBSET Nat] /\ lapsed \subseteq Keys
    /\ {drawn, changes} \subseteq Nat
    /\ active \in BOOLEAN
    /\ late \in [Batches -> Nat]

BatchInit ==
    /\ Init
    /\ batch = [b \in Batches |-> "idle"]
    /\ item = [t \in Items |-> "none"]
    /\ permits = [b \in Batches |-> 0]
    /\ charged = {}
    /\ result = [t \in Items |-> Failed]
    /\ Creation!KeyedInit
    /\ drawn = 0 /\ lapsed = {}
    /\ active = TRUE
    /\ late = [b \in Batches |-> 0]
    /\ changes = 0

-----------------------------------------------------------------------------
BatchOf(t) == t[1]

(* Mutant: the index of an item is left out of its key.                    *)
ItemKeyShared(t) == <<PrefixOf[t[1]], 1>>

ItemKey(t) == <<PrefixOf[t[1]], t[2]>>

ItemsOf(b) == {t \in Items : BatchOf(t) = b}
InStage(b, s) == {t \in ItemsOf(b) : item[t] = s}

(* Mutant: every item may run at once.                                     *)
SemaphoreOfCount == Count

SemaphoreValue == IF MaxConcurrency < Count THEN MaxConcurrency ELSE Count

(* The endpoint calls create_mailboxes; gather makes a task of every item. *)
StartBatch(b) ==
    /\ batch[b] = "idle"
    /\ batch' = [batch EXCEPT ![b] = "running"]
    /\ item' = [t \in Items |-> IF BatchOf(t) = b THEN "queued" ELSE item[t]]
    /\ permits' = [permits EXCEPT ![b] = SemaphoreValue]
    /\ UNCHANGED <<vars, charged, result, boxes, drawn, lapsed, active, late, changes>>

(* Task t enters the section of key k and asks for the price of a mailbox, *)
(* unless the key has one; the reservation is refused without points, and  *)
(* to a user who is disabled.                                              *)
Reserves(t, k) ==
    \/ boxes[k] = {} /\ active /\ charged' = charged \union {t}
    \/ UNCHANGED charged

EntersOrWaits(t, k) ==
    \E l \in LockIds : \/ EnterAtOnce(t, k, l) /\ Reserves(t, k)
                       \/ Wait(t, k, l) /\ UNCHANGED charged

(* The semaphore's next item gets a permit.                                *)
ItemStarts(t) ==
    LET b == BatchOf(t) IN
    /\ batch[b] = "running" /\ item[t] = "queued"
    /\ \A s \in InStage(b, "queued") : t[2] <= s[2]
    /\ permits[b] > 0
    /\ EntersOrWaits(t, ItemKey(t))
    /\ permits' = [permits EXCEPT ![b] = @ - 1]
    /\ item' = [item EXCEPT ![t] = "running"]
    /\ UNCHANGED <<batch, result, boxes, drawn, lapsed, active, late, changes>>

(* A waiting task gets the lock of its key.                                *)
GetsLock(t) ==
    /\ t \in Items => batch[BatchOf(t)] = "running"
    /\ Acquire(t)
    /\ Reserves(t, keyOf[t])
    /\ UNCHANGED <<batch, item, permits, result, boxes, drawn, lapsed, active, late, changes>>

Got(t, b) == result' = IF t \in Items THEN [result EXCEPT ![t] = b] ELSE result

(* How _create_mailbox ends for key k: with the mailbox of the key, with a *)
(* new one that was paid for, or with an error.                            *)
Ends(t, k) ==
    \/ /\ boxes[k] # {} /\ t \notin charged
       /\ \E b \in boxes[k] : Got(t, b)
       /\ UNCHANGED <<boxes, drawn, late>>
    \/ /\ t \in charged
       /\ Creation!CreateFor(k, drawn + 1)
       /\ drawn' = drawn + 1
       /\ Got(t, drawn + 1)
       /\ late' = IF t \in Items /\ ~active THEN [late EXCEPT ![BatchOf(t)] = @ + 1] ELSE late
    \/ UNCHANGED <<result, boxes, drawn, late>>

(* Mutant: the permit is only given back after a success.                  *)
DoneIfCreated(t) ==
    /\ item' = [item EXCEPT ![t] = "done"]
    /\ permits' = IF result'[t] = Failed THEN permits
                  ELSE [permits EXCEPT ![BatchOf(t)] = @ + 1]

(* The item leaves the semaphore, whatever came out.                       *)
Done(t) ==
    /\ item' = [item EXCEPT ![t] = "done"]
    /\ permits' = [permits EXCEPT ![BatchOf(t)] = @ + 1]

(* The call of an item ends; an exception, whichever, becomes an entry of  *)
(* the batch's list of errors.                                             *)
ItemEnds(t) ==
    /\ batch[BatchOf(t)] = "running"
    /\ Leave(t)
    /\ Ends(t, keyOf[t])
    /\ Done(t)
    /\ charged' = charged \ {t}
    /\ UNCHANGED <<batch, lapsed, active, changes>>

(* gather has all results: the batch is answered with what was created and *)
(* what failed, by index.                                                  *)
Answer(b) ==
    /\ batch[b] = "running"
    /\ InStage(b, "done") = ItemsOf(b)
    /\ batch' = [batch EXCEPT ![b] = "answered"]
    /\ UNCHANGED <<vars, item, permits, charged, result, boxes, drawn, lapsed, active, late, changes>>

(* The request of the batch is cancelled, and gather with it: each item is *)
(* told so at the await where it is.                                       *)
CancelBatch(b) ==
    /\ batch[b] = "running" /\ changes < MaxChanges
    /\ changes' = changes + 1
    /\ batch' = [batch EXCEPT ![b] = "cancelled"]
    /\ UNCHANGED <<vars, item, permits, charged, result, boxes, drawn, lapsed, active, late>>

(* Mutant: a permit is given back for an item that had none.               *)
DropQueuedReleased(t) ==
    /\ item[t] = "queued"
    /\ Done(t)
    /\ UNCHANGED vars

(* An item that waits for a permit just ends.                              *)
DropQueued(t) ==
    /\ item[t] = "queued"
    /\ item' = [item EXCEPT ![t] = "done"]
    /\ UNCHANGED <<vars, permits>>

(* create_one catches Exception, and so not CancelledError; what the call  *)
(* had reserved stays pending.                                             *)
ItemCancelled(t) ==
    /\ batch[BatchOf(t)] = "cancelled"
    /\ UNCHANGED <<batch, result, boxes, drawn, lapsed, active, late, changes>>
    /\ charged' = charged \ {t}
    /\ \/ DropQueued(t)
       \/ (Cancel(t) \/ Leave(t)) /\ Done(t)

-----------------------------------------------------------------------------
(* A single call, through the public API or by another batch's request.    *)
CallerStarts(c) ==
    /\ \E k \in CallerKeys : EntersOrWaits(c, k)
    /\ UNCHANGED <<batch, item, permits, result, boxes, drawn, lapsed, active, late, changes>>

CallerEnds(c) ==
    /\ Leave(c)
    /\ Ends(c, keyOf[c])
    /\ charged' = charged \ {c}
    /\ UNCHANGED <<batch, item, permits, lapsed, active, changes>>

CallerCancelled(c) ==
    /\ changes < MaxChanges
    /\ changes' = changes + 1
    /\ Cancel(c) \/ Leave(c)
    /\ charged' = charged \ {c}
    /\ UNCHANGED <<batch, item, permits, result, boxes, drawn, lapsed, active, late>>

(* set_user_enabled by the administrator.                                  *)
SetUserEnabled ==
    /\ changes < MaxChanges
    /\ changes' = changes + 1
    /\ active' = ~active
    /\ late' = [b \in Batches |-> 0]
    /\ UNCHANGED <<vars, batch, item, permits, charged, result, boxes, drawn, lapsed>>

(* The mailbox of key k expires, and the record of the key with it.        *)
MailboxExpires(k) ==
    /\ changes < MaxChanges
    /\ changes' = changes + 1
    /\ boxes[k] # {}
    /\ Creation!Lapse(k)
    /\ lapsed' = lapsed \union {k}
    /\ UNCHANGED <<vars, batch, item, permits, charged, result, drawn, active, late>>

(* The process restarts; requests that were on their way are gone.         *)
ServerRestarts ==
    /\ changes < MaxChanges
    /\ changes' = changes + 1
    /\ Restart
    /\ batch' = [b \in Batches |-> IF batch[b] = "idle" THEN "idle" ELSE "answered"]
    /\ item' = [t \in Items |-> IF batch[BatchOf(t)] = "idle" THEN "none" ELSE "done"]
    /\ permits' = [b \in Batches |-> 0]
    /\ charged' = {}
    /\ UNCHANGED <<result, boxes, drawn, lapsed, active, late>>

(* What the event loop has task t do when it can run.                      *)
Runs(t) ==
    \/ GetsLock(t)
    \/ t \in Items /\ (ItemStarts(t) \/ ItemEnds(t) \/ ItemCancelled(t))
    \/ t \in Callers /\ CallerEnds(t)

BatchNext ==
    \/ \E b \in Batches : StartBatch(b) \/ Answer(b) \/ CancelBatch(b)
    \/ \E t \in Tasks : Runs(t)
    \/ \E c \in Callers : CallerStarts(c) \/ CallerCancelled(c)
    \/ \E k \in Keys : MailboxExpires(k)
    \/ SetUserEnabled \/ ServerRestarts

BatchSpec == BatchInit /\ [][BatchNext]_<<vars, batchVars>>

(* The event loop runs every task that can run, and _create_mailbox always *)
(* ends: every await in it has a timeout.                                  *)
FairBatchSpec ==
    /\ BatchSpec
    /\ \A t \in Tasks : WF_<<vars, batchVars>>(Runs(t))
    /\ WF_<<vars, batchVars>>(\E b \in Batches : Answer(b))

-----------------------------------------------------------------------------
(* A permit is neither lost nor made: not by an item that fails, nor by a  *)
(* batch that is cancelled while some of its items wait for a permit, some *)
(* for the lock of their key and some for CloudMail (create_one).          *)
PermitsExact ==
    \A b \in Batches : batch[b] \in {"running", "cancelled"} =>
        permits[b] + Cardinality(InStage(b, "running")) = SemaphoreValue

(* A batch that is repeated, while the first one still runs or after it    *)
(* was cancelled or lost in a restart, answers each index with the mailbox *)
(* of that index (unless that has expired), and two indices never share a  *)
(* mailbox.                                                                *)
Made == {t \in Items : result[t] # Failed}

ItemsMatchKeys ==
    \A t, s \in Made :
        LET same == PrefixOf[t[1]] = PrefixOf[s[1]] /\ t[2] = s[2] IN
        /\ result[t] = result[s] => same
        /\ same /\ <<PrefixOf[t[1]], t[2]>> \notin lapsed => result[t] = result[s]

(* Once a user is disabled a batch of his ends soon: of its up to 50 items *)
(* only those that are already creating, no more than the semaphore lets   *)
(* run, can still bring a mailbox.                                         *)
BatchStopped == \A b \in Batches : late[b] <= MaxConcurrency

(* A batch is answered, or ends as cancelled, however many of its items    *)
(* fail, wait for a lock a single call holds, or are cancelled.            *)
BatchOver(b) == batch[b] = "answered" \/ (batch[b] = "cancelled" /\ InStage(b, "done") = ItemsOf(b))

BatchesAnswered == \A b \in Batches : batch[b] = "running" ~> BatchOver(b)

==============================================================================
