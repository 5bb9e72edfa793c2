----------------------------- MODULE CreditLedger -----------------------------
(***************************************************************************)
(* The credit accounts of UserRepository (user_repository.py): the column  *)
(* users.credit_balance, the table credit_transactions and the rule that   *)
(* prices a mailbox.                                                       *)
(*                                                                         *)
(* Each action is one database transaction, called from the event loop     *)
(* without an await inside, so it is atomic.  Users are the accounts of    *)
(* role 'user': every operation refuses the one administrator account,     *)
(* which has no points.  The rows of credit_transactions are a sequence in *)
(* the order of their ids.                                                 *)
(***************************************************************************)
EXTENDS Integers, Sequences

CONSTANTS
    Users,          \* the accounts of role 'user'
    Refs,           \* references of a charge: idempotency keys, mailbox ids
    OtherRefs,      \* references of the rows that grant points
    Costs,          \* the values an administrator gives cost_points
    Grants,         \* the values of initial points
    Adjustments,    \* the amounts of manual adjustments
    MaxRows,        \* bound: rows of credit_transactions
    NoHold

ASSUME LedgerAssumption ==
    /\ Costs \subseteq Nat
    /\ Grants \subseteq Nat
    /\ Adjustments \subseteq Int
    /\ MaxRows \in Nat
    /\ NoHold \notin Int

VARIABLES
    account,    \* users.status, "absent" before the row exists
    balance,    \* users.credit_balance
    rule,       \* the credit_rules row of 'create_mailbox'
    rows        \* credit_transactions

ledgerVars == <<account, balance, rule, rows>>

Row == [user : Users,
        type : {"consume", "refund", "admin_adjust"},
        status : {"pending", "completed", "reversed"},
        amount : Int,
        after : Nat,
        ref : Refs \union OtherRefs]

LedgerTypeOK ==
    /\ account \in [Users -> {"absent", "active", "disabled"}]
    /\ balance \in [Users -> Nat]
    /\ rule \in [cost : Nat, initial : Nat]
    /\ rows \in Seq(Row)

(* database.py initialises the rule with cost 1 and no initial points.     *)
LedgerInit ==
    /\ account = [u \in Users |-> "absent"]
    /\ balance = [u \in Users |-> 0]
    /\ rule = [cost |-> 1, initial |-> 0]
    /\ rows = <<>>

-----------------------------------------------------------------------------
(* Mutant: settled charges count as pending.                               *)
PendingSettledToo(u, r) ==
    {i \in DOMAIN rows : rows[i].user = u /\ rows[i].type = "consume" /\ rows[i].ref = r}

(* The ids of the pending charges of user u under reference r.             *)
Pending(u, r) ==
    {i \in DOMAIN rows : /\ rows[i].user = u
                         /\ rows[i].type = "consume"
                         /\ rows[i].status = "pending"
                         /\ rows[i].ref = r}

(* ORDER BY id DESC LIMIT 1                                                *)
Newest(S) == CHOOSE i \in S : \A j \in S : j <= i

(* Mutant: balance_after is the old balance.                               *)
PostStale(u, n, before, type, status, r) ==
    /\ Len(rows) < MaxRows
    /\ balance[u] + n >= 0
    /\ balance' = [balance EXCEPT ![u] = @ + n]
    /\ rows' = Append(before, [user |-> u, type |-> type, status |-> status,
                               amount |-> n, after |-> balance[u], ref |-> r])

(* Change the balance of u by n and record it: the UPDATE of users, the    *)
(* SELECT of the new balance and the INSERT of the row.  before is the     *)
(* table the row is appended to.                                           *)
Post(u, n, before, type, status, r) ==
    /\ Len(rows) < MaxRows
    /\ balance[u] + n >= 0
    /\ balance' = [balance EXCEPT ![u] = @ + n]
    /\ rows' = Append(before, [user |-> u, type |-> type, status |-> status,
                               amount |-> n, after |-> balance[u] + n, ref |-> r])

(* _insert_user: a new account with its initial points, recorded only if   *)
(* there are any; the points default to the rule's.                        *)
CreateUser(u, points, r) ==
    /\ account[u] = "absent"
    /\ points \in Grants \union {rule.initial}
    /\ account' = [account EXCEPT ![u] = "active"]
    /\ IF points = 0
       THEN UNCHANGED <<balance, rows>>
       ELSE Post(u, points, rows, "admin_adjust", "completed", r)
    /\ UNCHANGED rule

SetUserEnabled(u, enabled) ==
    /\ account[u] # "absent"
    /\ account' = [account EXCEPT ![u] = IF enabled THEN "active" ELSE "disabled"]
    /\ UNCHANGED <<balance, rule, rows>>

UpdateCreditRule(cost, initial) ==
    /\ rule' = [cost |-> cost, initial |-> initial]
    /\ UNCHANGED <<account, balance, rows>>

(* reserve_mailbox_credit finds a pending charge: nothing more is charged. *)
ReserveAgain(u, r) ==
    /\ account[u] = "active"
    /\ Pending(u, r) # {}
    /\ UNCHANGED ledgerVars

(* Mutant: the charge is recorded but not taken from the balance.          *)
ReserveNewUntaken(u, r) ==
    /\ account[u] = "active"
    /\ Pending(u, r) = {}
    /\ balance[u] >= rule.cost /\ Len(rows) < MaxRows
    /\ rows' = Append(rows, [user |-> u, type |-> "consume", status |-> "pending",
                             amount |-> -rule.cost, after |-> balance[u], ref |-> r])
    /\ UNCHANGED <<account, balance, rule>>

(* reserve_mailbox_credit charges the rule's cost, if the balance has it.  *)
ReserveNew(u, r) ==
    /\ account[u] = "active"
    /\ Pending(u, r) = {}
    /\ balance[u] >= rule.cost
    /\ Post(u, -rule.cost, rows, "consume", "pending", r)
    /\ UNCHANGED <<account, rule>>

Reserve(u, r) == ReserveAgain(u, r) \/ ReserveNew(u, r)

(* reserve_mailbox_credit raises USER_UNAVAILABLE or INSUFFICIENT_CREDITS. *)
ReserveRefused(u, r) ==
    \/ account[u] # "active"
    \/ Pending(u, r) = {} /\ balance[u] < rule.cost

(* Mutant: the UPDATE forgets the condition on the status.                 *)
ConfirmSettledToo(u, r) ==
    /\ rows' = [i \in DOMAIN rows |->
                   IF rows[i].user = u /\ rows[i].type = "consume" /\ rows[i].ref = r
                   THEN [rows[i] EXCEPT !.status = "completed"]
                   ELSE rows[i]]
    /\ UNCHANGED <<account, balance, rule>>

(* confirm_mailbox_credit settles every pending charge of the reference.   *)
Confirm(u, r) ==
    /\ rows' = [i \in DOMAIN rows |->
                   IF i \in Pending(u, r)
                   THEN [rows[i] EXCEPT !.status = "completed"]
                   ELSE rows[i]]
    /\ UNCHANGED <<account, balance, rule>>

(* Mutant: the price of today is given back.                               *)
RefundAtRule(u, r) ==
    LET i == Newest(Pending(u, r)) IN
    /\ Pending(u, r) # {}
    /\ Post(u, rule.cost, [rows EXCEPT ![i].status = "reversed"], "refund", "completed", r)
    /\ UNCHANGED <<account, rule>>

(* refund_mailbox_credit without a pending charge does nothing; with one,  *)
(* it gives back what that row took and marks the row reversed.            *)
RefundNothing(u, r) == Pending(u, r) = {} /\ UNCHANGED ledgerVars

RefundPending(u, r) ==
    LET i == Newest(Pending(u, r)) IN
    /\ Pending(u, r) # {}
    /\ Post(u, -rows[i].amount, [rows EXCEPT ![i].status = "reversed"],
            "refund", "completed", r)
    /\ UNCHANGED <<account, rule>>

Refund(u, r) == RefundNothing(u, r) \/ RefundPending(u, r)

(* adjust_credits: never by zero, never below zero.                        *)
Adjust(u, n, r) ==
    /\ account[u] # "absent"
    /\ n # 0
    /\ Post(u, n, rows, "admin_adjust", "completed", r)
    /\ UNCHANGED <<account, rule>>

(* What the administrator and the registration do.                         *)
Administer ==
    \/ \E c \in Costs, p \in Grants : UpdateCreditRule(c, p)
    \/ \E u \in Users :
        \/ \E enabled \in BOOLEAN : SetUserEnabled(u, enabled)
        \/ \E r \in OtherRefs :
            \/ \E p \in Grants \union {rule.initial} : CreateUser(u, p, r)
            \/ \E n \in Adjustments : Adjust(u, n, r)

Charge == \E u \in Users, r \in Refs : Reserve(u, r) \/ Confirm(u, r) \/ Refund(u, r)

LedgerNext == Administer \/ Charge

LedgerSpec == LedgerInit /\ [][LedgerNext]_ledgerVars

-----------------------------------------------------------------------------
(* Row i is the latest one of its user before row j.                       *)
Precedes(i, j) ==
    /\ i < j
    /\ rows[i].user = rows[j].user
    /\ \A m \in (i + 1)..(j - 1) : rows[m].user # rows[i].user

(* Every change of a balance is recorded and nothing else is: each row     *)
(* continues the balance_after of the user's row before it (from zero for  *)
(* the first), and the balance is that of the user's last row.  This is    *)
(* what makes the history of api.md's "transactions" an account statement. *)
LedgerChained ==
    /\ \A j \in DOMAIN rows :
          (\A i \in 1..(j - 1) : rows[i].user # rows[j].user) =>
              rows[j].after = rows[j].amount
    /\ \A i, j \in DOMAIN rows :
          Precedes(i, j) => rows[j].after = rows[i].after + rows[j].amount
    /\ \A i \in DOMAIN rows :
          (\A m \in (i + 1)..Len(rows) : rows[m].user # rows[i].user) =>
              balance[rows[i].user] = rows[i].after
    /\ \A u \in Users :
          (\A i \in DOMAIN rows : rows[i].user # u) => balance[u] = 0

(* A reference of a user never has two pending charges, so confirming it   *)
(* spends one charge and refunding it gives one back.                      *)
OnePendingCharge ==
    \A i, j \in DOMAIN rows :
        /\ rows[i].type = "consume" /\ rows[i].status = "pending"
        /\ rows[j].type = "consume" /\ rows[j].status = "pending"
        /\ rows[i].user = rows[j].user /\ rows[i].ref = rows[j].ref
        => i = j

(* The statement of a user is append-only: a row keeps its amount, owner   *)
(* and reference for ever, and its status only settles, from pending to    *)
(* completed or reversed.                                                  *)
HistoryFrozen ==
    [][/\ Len(rows') >= Len(rows)
       /\ \A i \in DOMAIN rows :
            /\ rows'[i] = [rows[i] EXCEPT !.status = rows'[i].status]
            /\ rows'[i].status # rows[i].status => rows[i].status = "pending"]_ledgerVars

(* The reversed charges of u under reference r, and the refunds of it.     *)
Reversals(u, r) ==
    {i \in DOMAIN rows : /\ rows[i].user = u /\ rows[i].ref = r
                         /\ rows[i].type = "consume"
                         /\ rows[i].status = "reversed"}

Refunds(u, r) ==
    {i \in DOMAIN rows : rows[i].user = u /\ rows[i].ref = r /\ rows[i].type = "refund"}

(* Refund f[i] is that of charge i: it gives back what the charge took,    *)
(* and does so before the reference is charged again.                      *)
PaidBack(u, r, f) ==
    /\ {f[i] : i \in Reversals(u, r)} = Refunds(u, r)
    /\ \A i \in Reversals(u, r) : i < f[i] /\ rows[f[i]].amount = -rows[i].amount
    /\ \A i, j \in Reversals(u, r) : i < j => f[i] < j

(* Every reversed charge of a reference is paid back exactly once, in      *)
(* order, at the price it was taken at, though the price may have changed  *)
(* in between, and nothing else is refunded (refund_mailbox_credit).       *)
RefundsMatchReversals ==
    \A u \in Users, r \in Refs :
        \E f \in [Reversals(u, r) -> DOMAIN rows] : PaidBack(u, r, f)

(* The ledger implements the wallet: a pending row is a hold.              *)
HeldFor(u, r) ==
    IF Pending(u, r) = {} THEN NoHold ELSE -rows[Newest(Pending(u, r))].amount

Wallet == INSTANCE CreditWallet
             WITH avail <- balance,
                  held <- [u \in Users |-> [r \in Refs |-> HeldFor(u, r)]]

ImplementsWallet == Wallet!WalletSpec

==============================================================================
