---------------------------- MODULE KeyedCreation ----------------------------
(***************************************************************************)
(* What create_mailbox (mailbox_service.py) promises about its keys: as    *)
(* long as the mailbox of a key lives, every call with the key is answered *)
(* with that mailbox; a mailbox belongs to one key.  MailboxCreation shows *)
(* how the promise is kept; BatchCreation relies on it.                    *)
(***************************************************************************)
CONSTANTS Keys, Mailboxes

VARIABLE
    boxes       \* boxes[k]: the mailbox that answers key k, if any, in a set

KeyedInit == boxes = [k \in Keys |-> {}]

(* A call with key k creates the mailbox b.                                *)
CreateFor(k, b) ==
    /\ boxes[k] = {}
    /\ \A j \in Keys : b \notin boxes[j]
    /\ boxes' = [boxes EXCEPT ![k] = {b}]

(* The mailbox of key k, and with it the record of the key, expires.       *)
Lapse(k) == boxes' = [boxes EXCEPT ![k] = {}]

KeyedNext == \E k \in Keys : Lapse(k) \/ \E b \in Mailboxes : CreateFor(k, b)

KeyedSpec == KeyedInit /\ [][KeyedNext]_boxes
==============================================================================
