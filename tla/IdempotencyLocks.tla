--------------------------- MODULE IdempotencyLocks ---------------------------
(***************************************************************************)
(* The lock table of MailboxGatewayService (mailbox_service.py): a         *)
(* dictionary from internal idempotency key to a pair (asyncio.Lock, users)*)
(* whose entries are created by the first task of a key and removed by the *)
(* last one.                                                               *)
(*                                                                         *)
(* The program runs one event loop.  The guard _idempotency_locks_guard is *)
(* only held across code without an await, so taking it never suspends;    *)
(* looking up the entry, counting the task and the first attempt at the    *)
(* key's lock are one step of the loop.  A task is suspended only while it *)
(* waits for the key's lock and while it is inside the section.  asyncio   *)
(* serves the waiters of a lock in order of arrival and lets no newcomer   *)
(* past them; the task may be cancelled wherever it is suspended.          *)
(*                                                                         *)
(* Lock objects have an identity (LockIds): were an entry dropped while a  *)
(* task still uses its lock, the next task of the key would get another    *)
(* lock and run beside the first.                                          *)
(***************************************************************************)
EXTENDS Naturals, Sequences, FiniteSets, SequencesExt

CONSTANTS
    Tasks,      \* the coroutines that call create_mailbox
    Keys,       \* the internal idempotency keys
    LockIds,    \* identities of asyncio.Lock objects
    NoTask, NoKey, NoLock, NoEntry

ASSUME LocksAssumption ==
    /\ IsFiniteSet(Tasks)
    /\ NoTask \notin Tasks
    /\ NoKey \notin Keys
    /\ NoLock \notin LockIds
    /\ NoEntry \notin [lock : LockIds, users : Nat \ {0}]

VARIABLES
    entries,    \* self._idempotency_locks
    owner,      \* owner[l]: the task that holds lock object l
    waiters,    \* waiters[l]: the tasks suspended in l.acquire(), oldest first
    stage,      \* where a task stands in create_mailbox
    keyOf,      \* the local variable internal_key of a task
    lockOf      \* the local variable lock of a task

vars == <<entries, owner, waiters, stage, keyOf, lockOf>>

(* An entry always counts at least the task that made it.                  *)
Entry == [lock : LockIds, users : Nat \ {0}]

TypeOK ==
    /\ entries \in [Keys -> Entry \union {NoEntry}]
    /\ owner \in [LockIds -> Tasks \union {NoTask}]
    /\ waiters \in [LockIds -> Seq(Tasks)]
    /\ stage \in [Tasks -> {"idle", "waiting", "inside"}]
    /\ keyOf \in [Tasks -> Keys \union {NoKey}]
    /\ lockOf \in [Tasks -> LockIds \union {NoLock}]

Init ==
    /\ entries = [k \in Keys |-> NoEntry]
    /\ owner = [l \in LockIds |-> NoTask]
    /\ waiters = [l \in LockIds |-> <<>>]
    /\ stage = [t \in Tasks |-> "idle"]
    /\ keyOf = [t \in Tasks |-> NoKey]
    /\ lockOf = [t \in Tasks |-> NoLock]

-----------------------------------------------------------------------------
(* The tasks that use key k: counted in its entry, from the increment in   *)
(* create_mailbox to the decrement in its finally clause.                  *)
Clients(k) == {t \in Tasks : stage[t] # "idle" /\ keyOf[t] = k}

(* The lock objects something still refers to; any other id can be the     *)
(* identity of a new object.                                               *)
LiveLocks ==
    {l \in LockIds : \/ \E k \in Keys : entries[k] # NoEntry /\ entries[k].lock = l
                     \/ \E t \in Tasks : lockOf[t] = l}

(* The lock the table gives a task of key k: the entry's, or a new one.    *)
MayGet(k, l) ==
    IF entries[k] = NoEntry THEN l \notin LiveLocks ELSE l = entries[k].lock

(* The table after one more task of key k.                                 *)
Counted(k, l) ==
    [entries EXCEPT ![k] =
        [lock |-> l, users |-> IF @ = NoEntry THEN 1 ELSE @.users + 1]]

(* Mutant: an entry is dropped whoever still uses it.                      *)
DiscountedDropped(k, l) == [entries EXCEPT ![k] = NoEntry]

(* The table after a task of key k with lock l ran the finally clause.     *)
Discounted(k, l) ==
    IF entries[k] = NoEntry THEN entries
    ELSE IF entries[k].lock # l THEN entries
    ELSE IF entries[k].users <= 1 THEN [entries EXCEPT ![k] = NoEntry]
    ELSE [entries EXCEPT ![k].users = @ - 1]

(* Mutant: a released lock goes to whoever asks first.                     *)
FreeToNewcomers(l) == owner[l] = NoTask

(* asyncio.Lock.acquire returns at once iff the lock is free and nobody    *)
(* waits for it.                                                           *)
Free(l) == owner[l] = NoTask /\ waiters[l] = <<>>

(* Task t calls create_mailbox with key k and finds the lock l free.       *)
EnterAtOnce(t, k, l) ==
    /\ stage[t] = "idle"
    /\ MayGet(k, l)
    /\ Free(l)
    /\ entries' = Counted(k, l)
    /\ owner' = [owner EXCEPT ![l] = t]
    /\ stage' = [stage EXCEPT ![t] = "inside"]
    /\ keyOf' = [keyOf EXCEPT ![t] = k]
    /\ lockOf' = [lockOf EXCEPT ![t] = l]
    /\ UNCHANGED waiters

(* Task t calls create_mailbox with key k and has to wait for the lock l.  *)
Wait(t, k, l) ==
    /\ stage[t] = "idle"
    /\ MayGet(k, l)
    /\ ~Free(l)
    /\ entries' = Counted(k, l)
    /\ waiters' = [waiters EXCEPT ![l] = Append(@, t)]
    /\ stage' = [stage EXCEPT ![t] = "waiting"]
    /\ keyOf' = [keyOf EXCEPT ![t] = k]
    /\ lockOf' = [lockOf EXCEPT ![t] = l]
    /\ UNCHANGED owner

(* The lock was released and its oldest waiter t is scheduled.             *)
Acquire(t) ==
    LET l == lockOf[t] IN
    /\ stage[t] = "waiting"
    /\ owner[l] = NoTask
    /\ Head(waiters[l]) = t
    /\ owner' = [owner EXCEPT ![l] = t]
    /\ waiters' = [waiters EXCEPT ![l] = Tail(@)]
    /\ stage' = [stage EXCEPT ![t] = "inside"]
    /\ UNCHANGED <<entries, keyOf, lockOf>>

(* The locals of task t are gone: create_mailbox returned or raised.       *)
Forget(t) ==
    /\ stage' = [stage EXCEPT ![t] = "idle"]
    /\ keyOf' = [keyOf EXCEPT ![t] = NoKey]
    /\ lockOf' = [lockOf EXCEPT ![t] = NoLock]

(* Task t leaves the section (return, error or cancellation inside it):    *)
(* the lock is released and the finally clause runs, without an await.     *)
Leave(t) ==
    /\ stage[t] = "inside"
    /\ owner' = [owner EXCEPT ![lockOf[t]] = NoTask]
    /\ entries' = Discounted(keyOf[t], lockOf[t])
    /\ Forget(t)
    /\ UNCHANGED waiters

(* The queues after asyncio took the waiter of task t out of the one it is *)
(* in.                                                                     *)
Dequeued(t) ==
    [waiters EXCEPT ![lockOf[t]] = RemoveAt(@, CHOOSE i \in DOMAIN @ : @[i] = t)]

(* Mutants: the finally clause does not cover the wait for the lock; the   *)
(* cancelled task stays in the queue.                                      *)
CancelUncounted(t) ==
    /\ stage[t] = "waiting"
    /\ waiters' = Dequeued(t)
    /\ Forget(t)
    /\ UNCHANGED <<entries, owner>>

CancelQueued(t) ==
    /\ stage[t] = "waiting"
    /\ entries' = Discounted(keyOf[t], lockOf[t])
    /\ Forget(t)
    /\ UNCHANGED <<owner, waiters>>

(* Task t is cancelled while it waits for the lock.                        *)
Cancel(t) ==
    /\ stage[t] = "waiting"
    /\ waiters' = Dequeued(t)
    /\ entries' = Discounted(keyOf[t], lockOf[t])
    /\ Forget(t)
    /\ UNCHANGED owner

(* The process stops and starts again with an empty table.                 *)
Restart ==
    /\ entries' = [k \in Keys |-> NoEntry]
    /\ owner' = [l \in LockIds |-> NoTask]
    /\ waiters' = [l \in LockIds |-> <<>>]
    /\ stage' = [t \in Tasks |-> "idle"]
    /\ keyOf' = [t \in Tasks |-> NoKey]
    /\ lockOf' = [t \in Tasks |-> NoLock]

Call(t) == \E k \in Keys, l \in LockIds : EnterAtOnce(t, k, l) \/ Wait(t, k, l)

Next ==
    \/ \E t \in Tasks : Call(t) \/ Acquire(t) \/ Leave(t) \/ Cancel(t)
    \/ Restart

Spec == Init /\ [][Next]_vars

-----------------------------------------------------------------------------
(* Two tasks are never inside the section of one key, whatever lock        *)
(* objects they hold (create_mailbox, "async with lock").                  *)
MutualExclusion ==
    \A t, s \in Tasks :
        stage[t] = "inside" /\ stage[s] = "inside" /\ keyOf[t] = keyOf[s] => t = s

(* The count of an entry is the number of tasks between the increment and  *)
(* the finally clause, all of them with the entry's lock, and a key no task*)
(* uses has no entry: the table neither leaks nor drops a lock in use.     *)
UsersCounted ==
    \A k \in Keys :
        IF entries[k] = NoEntry
        THEN Clients(k) = {}
        ELSE /\ entries[k].users = Cardinality(Clients(k))
             /\ \A t \in Clients(k) : lockOf[t] = entries[k].lock

(* Tasks of different keys never queue for the same lock object.           *)
KeysIndependent ==
    \A t, s \in Tasks :
        lockOf[t] # NoLock /\ lockOf[t] = lockOf[s] => keyOf[t] = keyOf[s]

(* A task is suspended on the lock iff it is in its queue, exactly once: a *)
(* cancelled waiter is never woken and no waiter is forgotten.             *)
QueueMatchesWaiters ==
    \A l \in LockIds :
        /\ {waiters[l][i] : i \in DOMAIN waiters[l]}
             = {t \in Tasks : stage[t] = "waiting" /\ lockOf[t] = l}
        /\ \A i, j \in DOMAIN waiters[l] : waiters[l][i] = waiters[l][j] => i = j

(* A newcomer never overtakes a task that waits for the same key.          *)
NoBarging ==
    [][\A t \in Tasks :
         stage[t] = "idle" /\ stage'[t] = "inside" =>
             \A s \in Tasks : ~(stage[s] = "waiting" /\ keyOf[s] = keyOf'[t])]_vars

(* The abstract mutex: who is inside the section of each key.              *)
HolderOf(k) ==
    IF \E t \in Tasks : stage[t] = "inside" /\ keyOf[t] = k
    THEN CHOOSE t \in Tasks : stage[t] = "inside" /\ keyOf[t] = k
    ELSE NoTask

Mutex == INSTANCE KeyedMutex WITH holder <- [k \in Keys |-> HolderOf(k)]

(* The lock table implements one mutex per key.                            *)
ImplementsMutex == Mutex!MutexSpec

==============================================================================
