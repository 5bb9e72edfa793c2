------------------------------ MODULE KeyedMutex ------------------------------
(***************************************************************************)
(* What the per-key locking of MailboxGatewayService.create_mailbox       *)
(* promises its caller: at most one task is inside the section of a key,   *)
(* tasks of different keys never exclude each other, and a restart of the  *)
(* process empties every section.  How the promise is kept (a table of     *)
(* reference-counted asyncio locks) is module IdempotencyLocks, which      *)
(* implements this one.                                                    *)
(***************************************************************************)
CONSTANTS
    Tasks,      \* the coroutines that call create_mailbox
    Keys,       \* the internal idempotency keys
    NoTask      \* no coroutine

VARIABLE
    holder      \* holder[k]: the task inside the section of key k

MutexTypeOK == holder \in [Keys -> Tasks \union {NoTask}]

MutexInit == holder = [k \in Keys |-> NoTask]

(* Task t enters the section of key k.                                     *)
EnterSection(t, k) ==
    /\ holder[k] = NoTask
    /\ holder' = [holder EXCEPT ![k] = t]

(* Task t leaves the section of key k, by returning or by an exception.    *)
LeaveSection(t, k) ==
    /\ holder[k] = t
    /\ holder' = [holder EXCEPT ![k] = NoTask]

(* The process restarts: its memory, and so every section, is empty.       *)
ResetSections == holder' = [k \in Keys |-> NoTask]

MutexNext ==
    \/ \E t \in Tasks, k \in Keys : EnterSection(t, k) \/ LeaveSection(t, k)
    \/ ResetSections

MutexSpec == MutexInit /\ [][MutexNext]_holder

==============================================================================
