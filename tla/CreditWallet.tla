----------------------------- MODULE CreditWallet -----------------------------
(***************************************************************************)
(* What the credit ledger promises: an account of spendable points with    *)
(* two-phase charges.  Creating a mailbox first sets points aside under a  *)
(* reference (a hold); the hold is then either captured, and the points    *)
(* are spent, or released, and they are spendable again.  A reference has  *)
(* at most one hold at a time, and an account never goes below zero.       *)
(* Module CreditLedger implements this with a balance column and a table   *)
(* of transaction rows.                                                    *)
(***************************************************************************)
EXTENDS Integers

CONSTANTS
    Users,      \* user accounts
    Refs,       \* what a charge is for: idempotency keys and mailbox ids
    NoHold      \* nothing set aside

VARIABLES
    avail,      \* avail[u]: the points u can spend
    held        \* held[u][r]: the points of u set aside for r, or NoHold

walletVars == <<avail, held>>

WalletInit ==
    /\ avail = [u \in Users |-> 0]
    /\ held = [u \in Users |-> [r \in Refs |-> NoHold]]

(* Some of the spendable points of u are set aside for r.                  *)
Hold(u, r) ==
    /\ held[u][r] = NoHold
    /\ \E n \in 0..avail[u] :
          /\ avail' = [avail EXCEPT ![u] = @ - n]
          /\ held' = [held EXCEPT ![u][r] = n]

(* The points held for r are spent.                                        *)
Capture(u, r) ==
    /\ held[u][r] # NoHold
    /\ held' = [held EXCEPT ![u][r] = NoHold]
    /\ UNCHANGED avail

(* The points held for r, exactly those, are given back.                   *)
Release(u, r) ==
    /\ held[u][r] # NoHold
    /\ avail' = [avail EXCEPT ![u] = @ + held[u][r]]
    /\ held' = [held EXCEPT ![u][r] = NoHold]

(* Points are granted (initial points, a redeemed CDK, an adjustment) or   *)
(* taken away by an administrator, never more than are spendable.          *)
Grant(u) ==
    /\ avail'[u] \in Nat
    /\ avail' = [avail EXCEPT ![u] = avail'[u]]
    /\ UNCHANGED held

WalletNext ==
    \E u \in Users :
        \/ Grant(u)
        \/ \E r \in Refs : Hold(u, r) \/ Capture(u, r) \/ Release(u, r)

WalletSpec == WalletInit /\ [][WalletNext]_walletVars

==============================================================================
