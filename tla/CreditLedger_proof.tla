-------------------------- MODULE CreditLedger_proof --------------------------
(***************************************************************************)
(* Proofs about the credit ledger, for any users, references, prices and   *)
(* length of the history.  Every operation has one of two shapes: it       *)
(* settles pending rows and leaves the balances alone (Settles; changing   *)
(* no row at all is a special case), or it posts one row after settling at *)
(* most what it refunds (Posts).  The invariants are proved for the shapes.*)
(***************************************************************************)
EXTENDS CreditLedger, SequenceTheorems, TLAPS

(* table is rows with some pending rows settled.                           *)
Kept(table) ==
    /\ table \in Seq(Row)
    /\ Len(table) = Len(rows)
    /\ \A i \in 1..Len(rows) :
          /\ table[i] = [rows[i] EXCEPT !.status = table[i].status]
          /\ table[i].status # rows[i].status => rows[i].status = "pending"

Settles == Kept(rows') /\ UNCHANGED balance

(* One more row of user u; a charge is only posted where none is pending.  *)
PostsFor(u, n, table, type, status, r) ==
    /\ Kept(table)
    /\ Post(u, n, table, type, status, r)
    /\ type = "consume" => Pending(u, r) = {}

Posts ==
    \E u \in Users, n \in Int, type \in {"consume", "refund", "admin_adjust"},
       status \in {"pending", "completed"}, r \in Refs \union OtherRefs :
       \E table \in Seq(Row) : PostsFor(u, n, table, type, status, r)

Shape == Settles \/ Posts

IInv == LedgerTypeOK /\ OnePendingCharge

-----------------------------------------------------------------------------
(* The newest pending charge of a reference is its only one.               *)
LEMMA NewestPending ==
    ASSUME IInv, NEW u, NEW r, Pending(u, r) # {}
    PROVE  Newest(Pending(u, r)) \in Pending(u, r)
  <1>1. PICK i \in Pending(u, r) : TRUE OBVIOUS
  <1>2. \A j \in Pending(u, r) : j = i BY <1>1 DEF IInv, OnePendingCharge, Pending
  <1>3. i \in Nat BY <1>1 DEF IInv, LedgerTypeOK, Pending
  <1>4. Pending(u, r) = {i} BY <1>1, <1>2
  <1> QED BY <1>3, <1>4 DEF Newest

(* The rows as they are.                                                   *)
LEMMA KeptRows == LedgerTypeOK => Kept(rows)
  <1> SUFFICES ASSUME LedgerTypeOK PROVE Kept(rows) OBVIOUS
  <1>1. rows \in Seq(Row) BY DEF LedgerTypeOK
  <1>2. \A i \in 1..Len(rows) : rows[i] = [rows[i] EXCEPT !.status = rows[i].status]
    <2>1. \A i \in 1..Len(rows) : rows[i] \in Row BY <1>1
    <2> QED BY <2>1 DEF Row
  <1> QED BY <1>1, <1>2 DEF Kept

(* What a posted row is and what it changes.                               *)
LEMMA PostEffect ==
    ASSUME LedgerTypeOK, NEW u \in Users, NEW n \in Int, NEW table \in Seq(Row),
           NEW type \in {"consume", "refund", "admin_adjust"},
           NEW status \in {"pending", "completed"}, NEW r \in Refs \union OtherRefs,
           Post(u, n, table, type, status, r)
    PROVE  /\ balance' \in [Users -> Nat]
           /\ balance'[u] = balance[u] + n
           /\ \A v \in Users \ {u} : balance'[v] = balance[v]
           /\ rows' \in Seq(Row)
           /\ Len(rows') = Len(table) + 1
           /\ \A i \in 1..Len(table) : rows'[i] = table[i]
           /\ rows'[Len(table) + 1] = [user |-> u, type |-> type, status |-> status,
                                       amount |-> n, after |-> balance[u] + n, ref |-> r]
  <1> DEFINE row == [user |-> u, type |-> type, status |-> status,
                     amount |-> n, after |-> balance[u] + n, ref |-> r]
  <1>1. balance \in [Users -> Nat] BY DEF LedgerTypeOK
  <1>2. balance[u] + n \in Nat BY <1>1 DEF Post
  <1>3. row \in Row BY <1>2 DEF Row
  <1>4. balance' = [balance EXCEPT ![u] = balance[u] + n] BY DEF Post
  <1>5. rows' = Append(table, row) BY DEF Post
  <1> HIDE DEF row
  <1>6. /\ rows' \in Seq(Row)
        /\ Len(rows') = Len(table) + 1
        /\ \A i \in 1..Len(table) : rows'[i] = table[i]
        /\ rows'[Len(table) + 1] = row
    BY <1>3, <1>5, AppendProperties
  <1>7. /\ balance' \in [Users -> Nat]
        /\ balance'[u] = balance[u] + n
        /\ \A v \in Users \ {u} : balance'[v] = balance[v]
    BY <1>1, <1>2, <1>4
  <1> QED BY <1>6, <1>7 DEF row

-----------------------------------------------------------------------------
(* The operations have the shapes.                                         *)
LEMMA PlainPost ==
    ASSUME LedgerTypeOK, NEW u \in Users, NEW n \in Int,
           NEW type \in {"consume", "refund", "admin_adjust"},
           NEW status \in {"pending", "completed"}, NEW r \in Refs \union OtherRefs,
           Post(u, n, rows, type, status, r), type = "consume" => Pending(u, r) = {}
    PROVE  Posts
  BY KeptRows DEF Posts, PostsFor, LedgerTypeOK

LEMMA ConfirmShape ==
    ASSUME LedgerTypeOK, NEW u \in Users, NEW r \in Refs, Confirm(u, r)
    PROVE  Settles
  <1>1. rows \in Seq(Row) /\ DOMAIN rows = 1..Len(rows) BY DEF LedgerTypeOK
  <1>2. ASSUME NEW i \in 1..Len(rows)
        PROVE  /\ rows'[i] \in Row
               /\ rows'[i] = [rows[i] EXCEPT !.status = rows'[i].status]
               /\ rows'[i].status # rows[i].status => rows[i].status = "pending"
    <2>1. rows[i] \in Row BY <1>1
    <2>2. CASE i \in Pending(u, r)
      <3>1. rows'[i] = [rows[i] EXCEPT !.status = "completed"] BY <1>1, <2>2 DEF Confirm
      <3>2. rows[i].status = "pending" BY <2>2 DEF Pending
      <3> QED BY <2>1, <3>1, <3>2 DEF Row
    <2>3. CASE i \notin Pending(u, r)
      <3>1. rows'[i] = rows[i] BY <1>1, <2>3 DEF Confirm
      <3> QED BY <2>1, <3>1 DEF Row
    <2> QED BY <2>2, <2>3
  <1>3. DOMAIN rows' = 1..Len(rows) BY <1>1 DEF Confirm
  <1>4. rows' \in [1..Len(rows) -> Row]
    <2>1. rows' = [i \in 1..Len(rows) |-> rows'[i]] BY <1>1 DEF Confirm
    <2> QED BY <1>2, <2>1
  <1>5. rows' \in Seq(Row) /\ Len(rows') = Len(rows) BY <1>1, <1>4, IsASeq
  <1> QED BY <1>2, <1>5 DEF Settles, Kept, Confirm

LEMMA RefundTable ==
    ASSUME IInv, NEW u \in Users, NEW r \in Refs, Pending(u, r) # {}
    PROVE  Kept([rows EXCEPT ![Newest(Pending(u, r))].status = "reversed"])
  <1> DEFINE i == Newest(Pending(u, r))
             table == [rows EXCEPT ![i].status = "reversed"]
  <1>1. rows \in Seq(Row) /\ DOMAIN rows = 1..Len(rows) BY DEF IInv, LedgerTypeOK
  <1>2. i \in Pending(u, r) BY NewestPending
  <1>3. i \in 1..Len(rows) /\ rows[i].status = "pending" /\ rows[i] \in Row
    BY <1>1, <1>2 DEF Pending
  <1> HIDE DEF i
  <1>4. table[i] = [rows[i] EXCEPT !.status = "reversed"] /\ table[i] \in Row
    BY <1>1, <1>3 DEF Row
  <1>5. \A j \in 1..Len(rows) : j # i => table[j] = rows[j] BY <1>1, <1>3
  <1>6. table \in Seq(Row) /\ Len(table) = Len(rows) BY <1>1, <1>3, <1>4, ExceptSeq
  <1>7. ASSUME NEW j \in 1..Len(rows)
        PROVE  /\ table[j] = [rows[j] EXCEPT !.status = table[j].status]
               /\ table[j].status # rows[j].status => rows[j].status = "pending"
    <2>1. CASE j = i BY <1>3, <1>4, <2>1 DEF Row
    <2>2. CASE j # i
      <3>1. table[j] = rows[j] /\ rows[j] \in Row BY <1>1, <1>5, <2>2
      <3> QED BY <3>1 DEF Row
    <2> QED BY <2>1, <2>2
  <1>8. Kept(table) BY <1>6, <1>7 DEF Kept
  <1> QED BY <1>8 DEF i

LEMMA RefundShape ==
    ASSUME IInv, NEW u \in Users, NEW r \in Refs, RefundPending(u, r)
    PROVE  Posts
  <1> DEFINE i == Newest(Pending(u, r))
             table == [rows EXCEPT ![i].status = "reversed"]
  <1>1. rows \in Seq(Row) BY DEF IInv, LedgerTypeOK
  <1>2. i \in Pending(u, r) /\ Pending(u, r) # {} BY NewestPending DEF RefundPending
  <1>3. rows[i] \in Row BY <1>1, <1>2 DEF Pending
  <1>4. Post(u, -rows[i].amount, table, "refund", "completed", r) BY DEF RefundPending
  <1>5. -rows[i].amount \in Int BY <1>3 DEF Row
  <1>6. Kept(table) BY <1>2, RefundTable
  <1> HIDE DEF i
  <1>7. PostsFor(u, -rows[i].amount, table, "refund", "completed", r)
    BY <1>4, <1>6 DEF PostsFor
  <1> QED BY <1>5, <1>6, <1>7 DEF Posts, Kept

(* Every operation of the ledger has a shape, and keeps the types of what  *)
(* the shapes do not speak about.                                          *)
LEMMA LedgerShape ==
    ASSUME IInv, LedgerNext
    PROVE  /\ Shape
           /\ account' \in [Users -> {"absent", "active", "disabled"}]
           /\ rule' \in [cost : Nat, initial : Nat]
  <1> USE DEF IInv
  <1>1. /\ account \in [Users -> {"absent", "active", "disabled"}]
        /\ rule \in [cost : Nat, initial : Nat]
    BY DEF LedgerTypeOK
  <1> DEFINE Goal == /\ Shape
                     /\ account' \in [Users -> {"absent", "active", "disabled"}]
                     /\ rule' \in [cost : Nat, initial : Nat]
  <1>2. ASSUME UNCHANGED <<balance, rows>> PROVE Settles
    BY <1>2, KeptRows DEF Settles, Kept
  <1>3. ASSUME NEW c \in Costs, NEW p \in Grants, UpdateCreditRule(c, p) PROVE Goal
    BY <1>1, <1>2, <1>3, LedgerAssumption DEF UpdateCreditRule, Shape
  <1>4. ASSUME NEW u \in Users, NEW enabled \in BOOLEAN, SetUserEnabled(u, enabled) PROVE Goal
    BY <1>1, <1>2, <1>4 DEF SetUserEnabled, Shape
  <1>5. ASSUME NEW u \in Users, NEW r \in OtherRefs, NEW p \in Grants \union {rule.initial},
               CreateUser(u, p, r)
        PROVE  Goal
    <2>1. p \in Int BY <1>1, LedgerAssumption
    <2>2. Shape
      <3>1. CASE p = 0 BY <1>2, <1>5, <3>1 DEF CreateUser, Shape
      <3>2. CASE p # 0
        <4>1. Post(u, p, rows, "admin_adjust", "completed", r) BY <1>5, <3>2 DEF CreateUser
        <4> QED BY <2>1, <4>1, PlainPost DEF Shape
      <3> QED BY <3>1, <3>2
    <2> QED BY <1>1, <1>5, <2>2 DEF CreateUser
  <1>6. ASSUME NEW u \in Users, NEW r \in OtherRefs, NEW n \in Adjustments, Adjust(u, n, r)
        PROVE  Goal
    <2>1. Posts BY <1>6, PlainPost, LedgerAssumption DEF Adjust
    <2> QED BY <1>1, <1>6, <2>1 DEF Adjust, Shape
  <1>7. ASSUME NEW u \in Users, NEW r \in Refs, Reserve(u, r) PROVE Goal
    <2>1. CASE ReserveAgain(u, r) BY <1>1, <1>2, <2>1 DEF ReserveAgain, Shape, ledgerVars
    <2>2. CASE ReserveNew(u, r)
      <3>1. -rule.cost \in Int BY <1>1
      <3>2. Posts BY <2>2, <3>1, PlainPost DEF ReserveNew
      <3> QED BY <1>1, <2>2, <3>2 DEF ReserveNew, Shape
    <2> QED BY <1>7, <2>1, <2>2 DEF Reserve
  <1>8. ASSUME NEW u \in Users, NEW r \in Refs, Confirm(u, r) PROVE Goal
    BY <1>1, <1>8, ConfirmShape DEF Confirm, Shape
  <1>9. ASSUME NEW u \in Users, NEW r \in Refs, Refund(u, r) PROVE Goal
    <2>1. CASE RefundNothing(u, r) BY <1>1, <1>2, <2>1 DEF RefundNothing, Shape, ledgerVars
    <2>2. CASE RefundPending(u, r)
      BY <1>1, <2>2, RefundShape DEF RefundPending, Shape
    <2> QED BY <1>9, <2>1, <2>2 DEF Refund
  <1> HIDE DEF Goal
  <1>10. ASSUME Administer PROVE Goal BY <1>3, <1>4, <1>5, <1>6, <1>10 DEF Administer
  <1>11. ASSUME Charge PROVE Goal BY <1>7, <1>8, <1>9, <1>11 DEF Charge
  <1>12. Goal BY <1>10, <1>11 DEF LedgerNext
  <1> QED BY <1>12 DEF Goal

-----------------------------------------------------------------------------
(* The shapes keep the invariant.                                          *)
LEMMA KeptPending ==
    ASSUME NEW table, Kept(table), LedgerTypeOK, NEW i \in 1..Len(rows)
    PROVE  /\ table[i].user = rows[i].user /\ table[i].ref = rows[i].ref
           /\ table[i].type = rows[i].type /\ table[i].amount = rows[i].amount
           /\ table[i].after = rows[i].after
           /\ table[i].status = "pending" => rows[i].status = "pending"
  <1>1. rows[i] \in Row BY DEF LedgerTypeOK
  <1>2. table[i] = [rows[i] EXCEPT !.status = table[i].status] BY DEF Kept
  <1>3. table[i].status # rows[i].status => rows[i].status = "pending" BY DEF Kept
  <1> QED BY <1>1, <1>2, <1>3 DEF Row

LEMMA SettlesHolds ==
    ASSUME IInv, Settles
    PROVE  balance' \in [Users -> Nat] /\ rows' \in Seq(Row) /\ OnePendingCharge'
  <1>1. LedgerTypeOK /\ rows' \in Seq(Row) /\ Len(rows') = Len(rows) /\ Kept(rows')
    BY DEF IInv, Settles, Kept
  <1>2. balance' \in [Users -> Nat] BY DEF IInv, Settles, LedgerTypeOK
  <1>3. DOMAIN rows = 1..Len(rows) /\ DOMAIN rows' = 1..Len(rows)
    BY <1>1 DEF LedgerTypeOK
  <1>4. OnePendingCharge'
    BY <1>1, <1>3, KeptPending DEF OnePendingCharge, IInv
  <1> QED BY <1>1, <1>2, <1>4

LEMMA PostsHolds ==
    ASSUME IInv, Posts
    PROVE  balance' \in [Users -> Nat] /\ rows' \in Seq(Row) /\ OnePendingCharge'
  <1>1. PICK u \in Users, n \in Int, type \in {"consume", "refund", "admin_adjust"},
             status \in {"pending", "completed"}, r \in Refs \union OtherRefs,
             table \in Seq(Row) : PostsFor(u, n, table, type, status, r)
    BY DEF Posts
  <1> DEFINE last == Len(rows) + 1
  <1>2. /\ LedgerTypeOK /\ OnePendingCharge /\ Kept(table) /\ Len(table) = Len(rows)
        /\ Post(u, n, table, type, status, r)
    BY <1>1 DEF IInv, PostsFor, Kept
  <1>3. /\ balance' \in [Users -> Nat]
        /\ rows' \in Seq(Row)
        /\ Len(rows') = last
        /\ \A i \in 1..Len(rows) : rows'[i] = table[i]
        /\ rows'[last] = [user |-> u, type |-> type, status |-> status,
                          amount |-> n, after |-> balance[u] + n, ref |-> r]
    BY <1>2, PostEffect
  <1>4. /\ DOMAIN rows = 1..Len(rows) /\ DOMAIN rows' = 1..last /\ Len(rows) \in Nat
    BY <1>2, <1>3 DEF LedgerTypeOK
  <1>5. \A i \in 1..Len(rows) :
           /\ rows'[i].user = rows[i].user /\ rows'[i].ref = rows[i].ref
           /\ rows'[i].type = rows[i].type
           /\ rows'[i].status = "pending" => rows[i].status = "pending"
    BY <1>2, <1>3, KeptPending
  <1>6. OnePendingCharge'
    <2> SUFFICES ASSUME NEW i \in 1..last, NEW j \in 1..last,
                        rows'[i].type = "consume", rows'[i].status = "pending",
                        rows'[j].type = "consume", rows'[j].status = "pending",
                        rows'[i].user = rows'[j].user, rows'[i].ref = rows'[j].ref
                 PROVE  i = j
      BY <1>4 DEF OnePendingCharge
    <2>1. CASE i # last /\ j # last
      <3>1. i \in 1..Len(rows) /\ j \in 1..Len(rows) BY <1>4, <2>1
      <3> QED BY <1>2, <1>4, <1>5, <3>1 DEF OnePendingCharge
    <2>2. ASSUME NEW k \in 1..Len(rows), rows'[k].type = "consume",
                 rows'[k].status = "pending", type = "consume",
                 rows'[k].user = u, rows'[k].ref = r
          PROVE  FALSE
      <3>1. k \in Pending(u, r) BY <1>4, <1>5, <2>2 DEF Pending
      <3> QED BY <1>1, <2>2, <3>1 DEF PostsFor
    <2>3. CASE i = last /\ j # last
      <3>1. j \in 1..Len(rows) BY <1>4, <2>3
      <3> QED BY <1>3, <2>2, <2>3, <3>1
    <2>4. CASE i # last /\ j = last
      <3>1. i \in 1..Len(rows) BY <1>4, <2>4
      <3> QED BY <1>3, <2>2, <2>4, <3>1
    <2> QED BY <2>1, <2>3, <2>4
  <1> QED BY <1>3, <1>6

LEMMA InitHolds == LedgerInit => IInv
  BY DEF LedgerInit, IInv, LedgerTypeOK, OnePendingCharge

LEMMA StepHolds == IInv /\ [LedgerNext]_ledgerVars => IInv'
  <1> SUFFICES ASSUME IInv, [LedgerNext]_ledgerVars PROVE IInv' OBVIOUS
  <1>1. CASE LedgerNext
    BY <1>1, LedgerShape, SettlesHolds, PostsHolds DEF IInv, LedgerTypeOK, Shape
  <1>2. CASE UNCHANGED ledgerVars
    BY <1>2 DEF ledgerVars, IInv, LedgerTypeOK, OnePendingCharge
  <1> QED BY <1>1, <1>2

(* The invariant the theorems below rest on.                               *)
THEOREM LedgerInvariant == LedgerSpec => []IInv
  BY InitHolds, StepHolds, PTL DEF LedgerSpec

(* No balance is ever negative and the history is well formed.             *)
THEOREM LedgerType == LedgerSpec => []LedgerTypeOK
  <1>1. IInv => LedgerTypeOK BY DEF IInv
  <1> QED BY <1>1, LedgerInvariant, PTL

(* A reference never has two pending charges: confirm and refund, which    *)
(* look for "the" pending charge of a reference, speak of a single one.    *)
THEOREM LedgerOnePending == LedgerSpec => []OnePendingCharge
  <1>1. IInv => OnePendingCharge BY DEF IInv
  <1> QED BY <1>1, LedgerInvariant, PTL

-----------------------------------------------------------------------------
(* A step of a shape only appends to the history and settles what pends.   *)
LEMMA ShapeFrozen ==
    ASSUME IInv, Shape
    PROVE  /\ Len(rows') >= Len(rows)
           /\ \A i \in DOMAIN rows :
                /\ rows'[i] = [rows[i] EXCEPT !.status = rows'[i].status]
                /\ rows'[i].status # rows[i].status => rows[i].status = "pending"
  <1>1. DOMAIN rows = 1..Len(rows) /\ Len(rows) \in Nat BY DEF IInv, LedgerTypeOK
  <1>2. CASE Settles BY <1>1, <1>2 DEF Settles, Kept
  <1>3. CASE Posts
    <2>1. PICK u \in Users, n \in Int, type \in {"consume", "refund", "admin_adjust"},
               status \in {"pending", "completed"}, r \in Refs \union OtherRefs,
               table \in Seq(Row) : PostsFor(u, n, table, type, status, r)
      BY <1>3 DEF Posts
    <2>2. Kept(table) /\ Post(u, n, table, type, status, r) BY <2>1 DEF PostsFor
    <2>3. /\ Len(rows') = Len(rows) + 1
          /\ \A i \in 1..Len(rows) : rows'[i] = table[i]
      <3>1. LedgerTypeOK /\ Len(table) = Len(rows) BY <2>2 DEF IInv, Kept
      <3>2. Post(u, n, table, type, status, r) BY <2>2
      <3>3. /\ rows' \in Seq(Row)
            /\ Len(rows') = Len(table) + 1
            /\ \A i \in 1..Len(table) : rows'[i] = table[i]
            /\ rows'[Len(table) + 1] = [user |-> u, type |-> type, status |-> status,
                                        amount |-> n, after |-> balance[u] + n, ref |-> r]
        BY <3>1, <3>2, PostEffect
      <3> QED BY <3>1, <3>3
    <2> QED BY <1>1, <2>2, <2>3 DEF Kept
  <1> QED BY <1>2, <1>3 DEF Shape

(* The statement of a user is append-only, and a settled row is final.     *)
THEOREM LedgerFrozen == LedgerSpec => HistoryFrozen
  <1> DEFINE Frozen ==
        /\ Len(rows') >= Len(rows)
        /\ \A i \in DOMAIN rows :
             /\ rows'[i] = [rows[i] EXCEPT !.status = rows'[i].status]
             /\ rows'[i].status # rows[i].status => rows[i].status = "pending"
  <1>1. IInv /\ [LedgerNext]_ledgerVars => [Frozen]_ledgerVars
    BY LedgerShape, ShapeFrozen
  <1> QED BY <1>1, LedgerInvariant, PTL DEF LedgerSpec, HistoryFrozen

-----------------------------------------------------------------------------
(* Settling rows does not touch the chain of balances.                     *)
LEMMA SettlesChained ==
    ASSUME IInv, LedgerChained, Settles
    PROVE  LedgerChained'
  <1>1. /\ LedgerTypeOK /\ Kept(rows') /\ balance' = balance
        /\ Len(rows') = Len(rows)
        /\ DOMAIN rows = 1..Len(rows) /\ DOMAIN rows' = 1..Len(rows)
    BY DEF IInv, Settles, Kept, LedgerTypeOK
  <1>2. \A i \in 1..Len(rows) : /\ rows'[i].user = rows[i].user
                                /\ rows'[i].amount = rows[i].amount
                                /\ rows'[i].after = rows[i].after
    BY <1>1, KeptPending
  <1>3. Len(rows) \in Nat BY <1>1 DEF LedgerTypeOK
  <1>4. \A j \in 1..Len(rows) :
           (\A i \in 1..(j - 1) : rows'[i].user # rows'[j].user) =>
               rows'[j].after = rows'[j].amount
    BY <1>1, <1>2, <1>3 DEF LedgerChained
  <1>5. \A i, j \in 1..Len(rows) : Precedes(i, j)' => rows'[j].after = rows'[i].after + rows'[j].amount
    <2> SUFFICES ASSUME NEW i \in 1..Len(rows), NEW j \in 1..Len(rows), Precedes(i, j)'
                 PROVE  rows'[j].after = rows'[i].after + rows'[j].amount
      OBVIOUS
    <2>1. Precedes(i, j) BY <1>2, <1>3 DEF Precedes
    <2> QED BY <1>1, <1>2, <2>1 DEF LedgerChained
  <1>6. \A i \in 1..Len(rows) :
           (\A m \in (i + 1)..Len(rows) : rows'[m].user # rows'[i].user) =>
               balance'[rows'[i].user] = rows'[i].after
    BY <1>1, <1>2, <1>3 DEF LedgerChained
  <1>7. \A u \in Users : (\A i \in 1..Len(rows) : rows'[i].user # u) => balance'[u] = 0
    BY <1>1, <1>2 DEF LedgerChained
  <1> QED BY <1>1, <1>4, <1>5, <1>6, <1>7 DEF LedgerChained

(* A posted row continues the chain of its user and of nobody else.        *)
LEMMA PostsChained ==
    ASSUME IInv, LedgerChained, Posts
    PROVE  LedgerChained'
  <1>1. PICK u \in Users, n \in Int, type \in {"consume", "refund", "admin_adjust"},
             status \in {"pending", "completed"}, r \in Refs \union OtherRefs,
             table \in Seq(Row) : PostsFor(u, n, table, type, status, r)
    BY DEF Posts
  <1> DEFINE L == Len(rows)
             last == L + 1
  <1>2. /\ LedgerTypeOK /\ Kept(table) /\ Len(table) = L
        /\ Post(u, n, table, type, status, r)
    BY <1>1 DEF IInv, PostsFor, Kept
  <1>3. /\ balance'[u] = balance[u] + n
        /\ \A v \in Users \ {u} : balance'[v] = balance[v]
        /\ rows' \in Seq(Row) /\ Len(rows') = last
        /\ \A i \in 1..L : rows'[i] = table[i]
        /\ rows'[last] = [user |-> u, type |-> type, status |-> status,
                          amount |-> n, after |-> balance[u] + n, ref |-> r]
    BY <1>2, PostEffect
  <1>4. /\ L \in Nat /\ DOMAIN rows = 1..L /\ DOMAIN rows' = 1..last
    BY <1>2, <1>3 DEF LedgerTypeOK
  <1>5. \A i \in 1..L : /\ rows'[i].user = rows[i].user
                        /\ rows'[i].amount = rows[i].amount
                        /\ rows'[i].after = rows[i].after
                        /\ rows[i].user \in Users
    <2>0. \A i \in 1..L : rows[i] \in Row BY <1>2 DEF LedgerTypeOK
    <2>1. \A i \in 1..L : rows[i].user \in Users BY <2>0 DEF Row
    <2> QED BY <1>2, <1>3, <2>1, KeptPending
  <1>6. rows'[last].user = u /\ rows'[last].amount = n /\ rows'[last].after = balance[u] + n
    BY <1>3
  <1>7. balance[u] \in Nat BY <1>2 DEF LedgerTypeOK
  <1> HIDE DEF L
  <1>8. ASSUME NEW j \in 1..last, \A i \in 1..(j - 1) : rows'[i].user # rows'[j].user
        PROVE  rows'[j].after = rows'[j].amount
    <2>1. CASE j \in 1..L
      <3>1. \A i \in 1..(j - 1) : rows[i].user # rows[j].user BY <1>4, <1>5, <1>8, <2>1
      <3> QED BY <1>4, <1>5, <2>1, <3>1 DEF LedgerChained
    <2>2. CASE j = last
      <3>1. \A i \in 1..L : rows[i].user # u BY <1>4, <1>5, <1>6, <1>8, <2>2
      <3>2. balance[u] = 0 BY <1>4, <3>1 DEF LedgerChained
      <3> QED BY <1>6, <2>2, <3>2
    <2> QED BY <1>4, <2>1, <2>2
  <1>9. ASSUME NEW i \in 1..last, NEW j \in 1..last, Precedes(i, j)'
        PROVE  rows'[j].after = rows'[i].after + rows'[j].amount
    <2>0. /\ i < j /\ rows'[i].user = rows'[j].user
          /\ \A m \in (i + 1)..(j - 1) : rows'[m].user # rows'[i].user
      BY <1>9 DEF Precedes
    <2>1. CASE j \in 1..L
      <3>1. i \in 1..L BY <1>4, <2>0, <2>1
      <3>2. Precedes(i, j) BY <1>4, <1>5, <2>0, <2>1, <3>1 DEF Precedes
      <3> QED BY <1>4, <1>5, <2>1, <3>1, <3>2, SMTT(30) DEF LedgerChained
    <2>2. CASE j = last
      <3>1. i \in 1..L BY <1>4, <2>0, <2>2
      <3>2. rows[i].user = u /\ \A m \in (i + 1)..L : rows[m].user # rows[i].user
        BY <1>4, <1>5, <1>6, <2>0, <2>2, <3>1
      <3>3. balance[rows[i].user] = rows[i].after
        BY <1>4, <3>1, <3>2 DEF LedgerChained, L
      <3> QED BY <1>5, <1>6, <2>2, <3>1, <3>2, <3>3
    <2> QED BY <1>4, <2>1, <2>2
  <1>10. ASSUME NEW i \in 1..last, \A m \in (i + 1)..last : rows'[m].user # rows'[i].user
         PROVE  balance'[rows'[i].user] = rows'[i].after
    <2>1. CASE i \in 1..L
      <3>1. rows[i].user # u BY <1>4, <1>5, <1>6, <1>10, <2>1
      <3>2. \A m \in (i + 1)..L : rows[m].user # rows[i].user
        BY <1>4, <1>5, <1>10, <2>1
      <3>3. balance[rows[i].user] = rows[i].after
        BY <1>4, <2>1, <3>2 DEF LedgerChained, L
      <3> QED BY <1>3, <1>5, <2>1, <3>1, <3>3
    <2>2. CASE i = last BY <1>3, <1>6, <2>2
    <2> QED BY <1>4, <2>1, <2>2
  <1>11. ASSUME NEW v \in Users, \A i \in 1..last : rows'[i].user # v
         PROVE  balance'[v] = 0
    <2>1. v # u BY <1>4, <1>6, <1>11
    <2>2. \A i \in 1..L : rows[i].user # v BY <1>4, <1>5, <1>11
    <2>3. balance[v] = 0 BY <1>4, <2>2 DEF LedgerChained
    <2> QED BY <1>3, <2>1, <2>3
  <1>12. \A j \in DOMAIN rows' :
            (\A i \in 1..(j - 1) : rows'[i].user # rows'[j].user) =>
                rows'[j].after = rows'[j].amount
    BY <1>4, <1>8
  <1>13. \A i, j \in DOMAIN rows' : Precedes(i, j)' => rows'[j].after = rows'[i].after + rows'[j].amount
    BY <1>4, <1>9
  <1>14. \A i \in DOMAIN rows' :
            (\A m \in (i + 1)..Len(rows') : rows'[m].user # rows'[i].user) =>
                balance'[rows'[i].user] = rows'[i].after
    BY <1>3, <1>4, <1>10
  <1>15. \A v \in Users : (\A i \in DOMAIN rows' : rows'[i].user # v) => balance'[v] = 0
    BY <1>4, <1>11
  <1> QED BY <1>12, <1>13, <1>14, <1>15 DEF LedgerChained

(* The history is an account statement: every change of a balance is in it.*)
THEOREM LedgerStatement == LedgerSpec => []LedgerChained
  <1>1. LedgerInit => LedgerChained
    BY DEF LedgerInit, LedgerChained
  <1>2. IInv /\ LedgerChained /\ [LedgerNext]_ledgerVars => LedgerChained'
    <2> SUFFICES ASSUME IInv, LedgerChained, [LedgerNext]_ledgerVars PROVE LedgerChained'
      OBVIOUS
    <2>1. CASE LedgerNext BY <2>1, LedgerShape, SettlesChained, PostsChained DEF Shape
    <2>2. CASE UNCHANGED ledgerVars
      BY <2>2 DEF ledgerVars, LedgerChained, Precedes
    <2> QED BY <2>1, <2>2
  <1> QED BY <1>1, <1>2, LedgerInvariant, PTL DEF LedgerSpec

-----------------------------------------------------------------------------
(* The refunds of a reference, matched with its reversed charges; they all *)
(* come before the charge that is pending, so that they can be matched in  *)
(* order when that one is reversed too.                                    *)
Matched(u, r) ==
    /\ \E f \in [Reversals(u, r) -> DOMAIN rows] : PaidBack(u, r, f)
    /\ \A g \in Refunds(u, r), p \in Pending(u, r) : g < p

AllMatched == \A u \in Users, r \in Refs : Matched(u, r)

(* A step that reverses and refunds nothing under a reference, and charges *)
(* it, if at all, with a row behind all others.                            *)
LEMMA MatchedKept ==
    ASSUME IInv, NEW v \in Users, NEW q \in Refs, Matched(v, q),
           rows' \in Seq(Row), Len(rows') >= Len(rows),
           \A i \in 1..Len(rows) : rows'[i].amount = rows[i].amount,
           UNCHANGED <<Reversals(v, q), Refunds(v, q)>>,
           \A p \in Pending(v, q)' : p \in Pending(v, q) \/ p = Len(rows) + 1
    PROVE  Matched(v, q)'
  <1>1. /\ DOMAIN rows = 1..Len(rows) /\ DOMAIN rows' = 1..Len(rows')
        /\ Len(rows) \in Nat /\ Len(rows') \in Nat
    BY DEF IInv, LedgerTypeOK
  <1>2. PICK f \in [Reversals(v, q) -> DOMAIN rows] : PaidBack(v, q, f) BY DEF Matched
  <1>3. f \in [Reversals(v, q)' -> DOMAIN rows'] BY <1>1, <1>2
  <1>4. PaidBack(v, q, f)'
    <2>1. \A i \in Reversals(v, q) : /\ rows'[i].amount = rows[i].amount
                                     /\ rows'[f[i]].amount = rows[f[i]].amount
      BY <1>1, <1>2 DEF Reversals
    <2> QED BY <1>2, <2>1 DEF PaidBack
  <1>5. \A g \in Refunds(v, q)', p \in Pending(v, q)' : g < p
    <2>1. \A g \in Refunds(v, q) : g \in 1..Len(rows) BY <1>1 DEF Refunds
    <2> QED BY <1>1, <2>1 DEF Matched
  <1> QED BY <1>3, <1>4, <1>5 DEF Matched

(* A row of another type, or a new charge.                                 *)
LEMMA PostMatched ==
    ASSUME IInv, AllMatched, NEW u \in Users, NEW n \in Int,
           NEW type \in {"consume", "admin_adjust"}, NEW status \in {"pending", "completed"},
           NEW r \in Refs \union OtherRefs, Post(u, n, rows, type, status, r)
    PROVE  AllMatched'
  <1> DEFINE last == Len(rows) + 1
  <1>1. LedgerTypeOK /\ rows \in Seq(Row) /\ DOMAIN rows = 1..Len(rows) /\ Len(rows) \in Nat
    BY DEF IInv, LedgerTypeOK
  <1>2. /\ rows' \in Seq(Row) /\ Len(rows') = last
        /\ \A i \in 1..Len(rows) : rows'[i] = rows[i]
        /\ rows'[last].type = type /\ rows'[last].status = status
    <2>1. type \in {"consume", "refund", "admin_adjust"} OBVIOUS
    <2>2. /\ rows' \in Seq(Row) /\ Len(rows') = last
          /\ \A i \in 1..Len(rows) : rows'[i] = rows[i]
          /\ rows'[last] = [user |-> u, type |-> type, status |-> status,
                            amount |-> n, after |-> balance[u] + n, ref |-> r]
      BY <1>1, <2>1, PostEffect
    <2> QED BY <2>2
  <1>3. DOMAIN rows' = 1..last /\ 1..last = 1..Len(rows) \union {last} BY <1>1, <1>2
  <1> SUFFICES ASSUME NEW v \in Users, NEW q \in Refs PROVE Matched(v, q)'
    BY DEF AllMatched
  <1>4. Reversals(v, q)' = Reversals(v, q)
    <2>1. \A i \in 1..Len(rows) : i \in Reversals(v, q)' <=> i \in Reversals(v, q)
      BY <1>1, <1>2, <1>3 DEF Reversals
    <2>2. last \notin Reversals(v, q)' BY <1>2 DEF Reversals
    <2>3. Reversals(v, q) \subseteq 1..Len(rows) /\ Reversals(v, q)' \subseteq 1..last
      BY <1>1, <1>3 DEF Reversals
    <2> QED BY <1>3, <2>1, <2>2, <2>3
  <1>5. Refunds(v, q)' = Refunds(v, q)
    <2>1. \A i \in 1..Len(rows) : i \in Refunds(v, q)' <=> i \in Refunds(v, q)
      BY <1>1, <1>2, <1>3 DEF Refunds
    <2>2. last \notin Refunds(v, q)' BY <1>2 DEF Refunds
    <2>3. Refunds(v, q) \subseteq 1..Len(rows) /\ Refunds(v, q)' \subseteq 1..last
      BY <1>1, <1>3 DEF Refunds
    <2> QED BY <1>3, <2>1, <2>2, <2>3
  <1>6. \A p \in Pending(v, q)' : p \in Pending(v, q) \/ p = last
    BY <1>1, <1>2, <1>3 DEF Pending
  <1> HIDE DEF last
  <1>7. Matched(v, q) BY DEF AllMatched
  <1> QED BY <1>1, <1>2, <1>4, <1>5, <1>6, <1>7, MatchedKept DEF last

(* A confirmation.                                                         *)
LEMMA ConfirmMatched ==
    ASSUME IInv, AllMatched, NEW u \in Users, NEW r \in Refs, Confirm(u, r)
    PROVE  AllMatched'
  <1>1. LedgerTypeOK /\ rows \in Seq(Row) /\ DOMAIN rows = 1..Len(rows) /\ Len(rows) \in Nat
    BY DEF IInv, LedgerTypeOK
  <1>2. Kept(rows') /\ rows' \in Seq(Row) /\ Len(rows') = Len(rows)
    BY <1>1, ConfirmShape DEF Settles, Kept
  <1>3. DOMAIN rows' = 1..Len(rows) BY <1>2
  <1>4. \A i \in 1..Len(rows) :
           /\ rows'[i].user = rows[i].user /\ rows'[i].ref = rows[i].ref
           /\ rows'[i].type = rows[i].type /\ rows'[i].amount = rows[i].amount
           /\ rows'[i].status = "pending" => rows[i].status = "pending"
    BY <1>1, <1>2, KeptPending
  <1>5. \A i \in 1..Len(rows) : rows'[i].status = "reversed" <=> rows[i].status = "reversed"
    <2> TAKE i \in 1..Len(rows)
    <2>1. rows[i] \in Row BY <1>1
    <2>2. CASE i \in Pending(u, r)
      <3>1. rows'[i] = [rows[i] EXCEPT !.status = "completed"] BY <1>1, <2>2 DEF Confirm
      <3>2. rows'[i].status = "completed" BY <2>1, <3>1 DEF Row
      <3> QED BY <2>2, <3>2 DEF Pending
    <2>3. CASE i \notin Pending(u, r) BY <1>1, <2>3 DEF Confirm
    <2> QED BY <2>2, <2>3
  <1> SUFFICES ASSUME NEW v \in Users, NEW q \in Refs PROVE Matched(v, q)'
    BY DEF AllMatched
  <1>6. Reversals(v, q)' = Reversals(v, q) /\ Refunds(v, q)' = Refunds(v, q)
    BY <1>1, <1>3, <1>4, <1>5 DEF Reversals, Refunds
  <1>7. \A p \in Pending(v, q)' : p \in Pending(v, q) BY <1>1, <1>3, <1>4 DEF Pending
  <1>8. Matched(v, q) BY DEF AllMatched
  <1> QED BY <1>1, <1>2, <1>4, <1>6, <1>7, <1>8, MatchedKept

(* A refund: its row is matched with the charge it reverses.               *)
LEMMA RefundMatched ==
    ASSUME IInv, AllMatched, NEW u \in Users, NEW r \in Refs, RefundPending(u, r)
    PROVE  AllMatched'
  <1> DEFINE i == Newest(Pending(u, r))
             n == -rows[i].amount
             table == [rows EXCEPT ![i].status = "reversed"]
             last == Len(rows) + 1
  <1>1. LedgerTypeOK /\ rows \in Seq(Row) /\ DOMAIN rows = 1..Len(rows) /\ Len(rows) \in Nat
    BY DEF IInv, LedgerTypeOK
  <1>2. i \in Pending(u, r) /\ Pending(u, r) # {} BY NewestPending DEF RefundPending
  <1>3. /\ i \in 1..Len(rows) /\ rows[i] \in Row /\ rows[i].user = u /\ rows[i].ref = r
        /\ rows[i].status = "pending" /\ rows[i].type = "consume"
    BY <1>1, <1>2 DEF Pending
  <1>4. Post(u, n, table, "refund", "completed", r) BY DEF RefundPending
  <1>5. Kept(table) /\ table \in Seq(Row) /\ Len(table) = Len(rows)
    <2>1. Kept(table) BY <1>2, RefundTable
    <2> QED BY <2>1 DEF Kept
  <1>6. /\ table[i].status = "reversed"
        /\ \A j \in 1..Len(rows) : j # i => table[j] = rows[j]
    BY <1>1, <1>3 DEF Row
  <1>7. \A j \in Pending(u, r) : j = i BY <1>2 DEF IInv, OnePendingCharge, Pending
  <1>8. n = -rows[i].amount /\ n \in Int BY <1>3 DEF Row
  <1> HIDE DEF i, n, table
  <1>9. /\ rows' \in Seq(Row) /\ Len(rows') = last
        /\ \A j \in 1..Len(rows) : rows'[j] = table[j]
        /\ rows'[last].user = u /\ rows'[last].ref = r /\ rows'[last].type = "refund"
        /\ rows'[last].amount = n
    <2>1. /\ rows' \in Seq(Row) /\ Len(rows') = Len(table) + 1
          /\ \A j \in 1..Len(table) : rows'[j] = table[j]
          /\ rows'[Len(table) + 1] = [user |-> u, type |-> "refund", status |-> "completed",
                                      amount |-> n, after |-> balance[u] + n, ref |-> r]
      BY <1>1, <1>4, <1>5, <1>8, PostEffect
    <2> QED BY <1>5, <2>1
  <1>10. /\ DOMAIN rows' = 1..last /\ 1..last = 1..Len(rows) \union {last}
         /\ last \notin 1..Len(rows)
    BY <1>1, <1>9
  <1>11. \A j \in 1..Len(rows) :
            /\ rows'[j].user = rows[j].user /\ rows'[j].ref = rows[j].ref
            /\ rows'[j].type = rows[j].type /\ rows'[j].amount = rows[j].amount
            /\ rows'[j].status = IF j = i THEN "reversed" ELSE rows[j].status
    BY <1>1, <1>3, <1>5, <1>6, <1>9, KeptPending
  <1> HIDE DEF last
  <1> SUFFICES ASSUME NEW v \in Users, NEW q \in Refs PROVE Matched(v, q)'
    BY DEF AllMatched
  <1>12. Matched(v, q) BY DEF AllMatched
  <1>13. \A j \in 1..Len(rows) :
            /\ j \in Reversals(v, q)' <=> (j \in Reversals(v, q) \/ (j = i /\ v = u /\ q = r))
            /\ j \in Refunds(v, q)' <=> j \in Refunds(v, q)
            /\ j \in Pending(v, q)' <=> (j \in Pending(v, q) /\ j # i)
    <2> TAKE j \in 1..Len(rows)
    <2>1. j \in DOMAIN rows /\ j \in DOMAIN rows' BY <1>1, <1>10
    <2>2. CASE j = i
      <3>1. /\ rows'[j].user = u /\ rows'[j].ref = r /\ rows'[j].type = "consume"
            /\ rows'[j].status = "reversed"
        BY <1>3, <1>11, <2>2
      <3> QED BY <1>3, <2>1, <2>2, <3>1 DEF Reversals, Refunds, Pending
    <2>3. CASE j # i
      <3>1. /\ rows'[j].user = rows[j].user /\ rows'[j].ref = rows[j].ref
            /\ rows'[j].type = rows[j].type /\ rows'[j].status = rows[j].status
        BY <1>11, <2>3
      <3>2. j \in Reversals(v, q)' <=> j \in Reversals(v, q) BY <2>1, <3>1 DEF Reversals
      <3>3. j \in Refunds(v, q)' <=> j \in Refunds(v, q) BY <2>1, <3>1 DEF Refunds
      <3>4. j \in Pending(v, q)' <=> j \in Pending(v, q) BY <2>1, <3>1 DEF Pending
      <3> QED BY <2>3, <3>2, <3>3, <3>4
    <2> QED BY <2>2, <2>3
  <1>14. /\ last \notin Reversals(v, q)' /\ last \notin Pending(v, q)'
         /\ last \in Refunds(v, q)' <=> v = u /\ q = r
    BY <1>9, <1>10 DEF Reversals, Refunds, Pending
  <1>15. /\ Reversals(v, q) \subseteq 1..Len(rows) /\ Reversals(v, q)' \subseteq 1..last
         /\ Refunds(v, q) \subseteq 1..Len(rows) /\ Refunds(v, q)' \subseteq 1..last
         /\ Pending(v, q)' \subseteq 1..last
    BY <1>1, <1>10 DEF Reversals, Refunds, Pending
  <1>16. CASE v # u \/ q # r
    <2>1. UNCHANGED <<Reversals(v, q), Refunds(v, q)>>
      BY <1>10, <1>13, <1>14, <1>15, <1>16
    <2>2. \A p \in Pending(v, q)' : p \in Pending(v, q) BY <1>10, <1>13, <1>14, <1>15
    <2> QED BY <1>1, <1>9, <1>11, <1>12, <2>1, <2>2, MatchedKept DEF last
  <1>17. CASE v = u /\ q = r
    <2>1. Reversals(v, q)' = Reversals(v, q) \union {i}
      BY <1>3, <1>10, <1>13, <1>14, <1>15, <1>17
    <2>2. Refunds(v, q)' = Refunds(v, q) \union {last}
      BY <1>10, <1>13, <1>14, <1>15, <1>17
    <2>3. Pending(v, q)' = {} BY <1>7, <1>10, <1>13, <1>14, <1>15, <1>17
    <2>4. PICK f \in [Reversals(v, q) -> DOMAIN rows] : PaidBack(v, q, f)
      BY <1>12 DEF Matched
    <2>5. \A j \in Reversals(v, q) : j < f[j] /\ f[j] < i
      <3> TAKE j \in Reversals(v, q)
      <3>1. j < f[j] /\ f[j] \in Refunds(v, q) BY <2>4 DEF PaidBack
      <3>2. i \in Pending(v, q) BY <1>2, <1>17
      <3> QED BY <1>12, <3>1, <3>2 DEF Matched
    <2>6. i \notin Reversals(v, q) BY <1>3 DEF Reversals
    <2> PICK g : g = [j \in Reversals(v, q) \union {i} |-> IF j = i THEN last ELSE f[j]]
      OBVIOUS
    <2>7. g \in [Reversals(v, q)' -> DOMAIN rows'] BY <1>1, <1>10, <2>1, <2>4
    <2>8. g[i] = last /\ \A j \in Reversals(v, q) : g[j] = f[j] BY <2>6
    <2>9. {g[j] : j \in Reversals(v, q)'} = Refunds(v, q)'
      BY <2>1, <2>2, <2>4, <2>8 DEF PaidBack
    <2>10. ASSUME NEW j \in Reversals(v, q)'
           PROVE  j < g[j] /\ rows'[g[j]].amount = -rows'[j].amount
      <3>1. CASE j = i BY <1>1, <1>3, <1>8, <1>9, <1>11, <2>8, <3>1 DEF last
      <3>2. CASE j # i
        <4>1. j \in Reversals(v, q) /\ f[j] \in 1..Len(rows) BY <1>1, <2>1, <2>4, <3>2
        <4> QED BY <1>11, <1>15, <2>4, <2>8, <4>1 DEF PaidBack
      <3> QED BY <3>1, <3>2
    <2>11. ASSUME NEW j \in Reversals(v, q)', NEW k \in Reversals(v, q)', j < k
           PROVE  g[j] < k
      <3>1. CASE j = i
        <4>1. k \in Reversals(v, q) BY <1>1, <1>3, <2>1, <2>11, <3>1
        <4>2. k < f[k] /\ f[k] < i /\ k \in Nat /\ f[k] \in Nat
          BY <1>1, <1>15, <2>4, <2>5, <4>1
        <4> QED BY <1>1, <1>3, <2>11, <3>1, <4>2
      <3>2. CASE j # i /\ k = i BY <2>1, <2>5, <2>8, <3>2
      <3>3. CASE j # i /\ k # i BY <2>1, <2>4, <2>8, <2>11, <3>3 DEF PaidBack
      <3> QED BY <3>1, <3>2, <3>3
    <2>12. PaidBack(v, q, g)' BY <2>9, <2>10, <2>11 DEF PaidBack
    <2> QED BY <2>3, <2>7, <2>12 DEF Matched
  <1> QED BY <1>16, <1>17

LEMMA MatchedSame ==
    ASSUME AllMatched, UNCHANGED rows
    PROVE  AllMatched'
  <1> SUFFICES ASSUME NEW u \in Users, NEW r \in Refs PROVE Matched(u, r)'
    BY DEF AllMatched
  <1>1. UNCHANGED <<Reversals(u, r), Refunds(u, r), Pending(u, r)>>
    BY DEF Reversals, Refunds, Pending
  <1>2. \A f : PaidBack(u, r, f) => PaidBack(u, r, f)' BY <1>1 DEF PaidBack
  <1> QED BY <1>1, <1>2 DEF AllMatched, Matched

LEMMA MatchedHolds ==
    ASSUME IInv, AllMatched, LedgerNext
    PROVE  AllMatched'
  <1>1. rule.cost \in Nat /\ rule.initial \in Nat BY DEF IInv, LedgerTypeOK
  <1>2. ASSUME NEW c \in Costs, NEW p \in Grants, UpdateCreditRule(c, p) PROVE AllMatched'
    BY <1>2, MatchedSame DEF UpdateCreditRule
  <1>3. ASSUME NEW u \in Users, NEW enabled \in BOOLEAN, SetUserEnabled(u, enabled)
        PROVE  AllMatched'
    BY <1>3, MatchedSame DEF SetUserEnabled
  <1>4. ASSUME NEW u \in Users, NEW r \in OtherRefs, NEW p \in Grants \union {rule.initial},
               CreateUser(u, p, r)
        PROVE  AllMatched'
    <2>1. p \in Int BY <1>1, LedgerAssumption
    <2>2. CASE p = 0 BY <1>4, <2>2, MatchedSame DEF CreateUser
    <2>3. CASE p # 0
      <3>1. Post(u, p, rows, "admin_adjust", "completed", r) BY <1>4, <2>3 DEF CreateUser
      <3> QED BY <2>1, <3>1, PostMatched
    <2> QED BY <2>2, <2>3
  <1>5. ASSUME NEW u \in Users, NEW r \in OtherRefs, NEW n \in Adjustments, Adjust(u, n, r)
        PROVE  AllMatched'
    BY <1>5, PostMatched, LedgerAssumption DEF Adjust
  <1>6. ASSUME NEW u \in Users, NEW r \in Refs, Reserve(u, r) PROVE AllMatched'
    <2>1. CASE ReserveAgain(u, r) BY <2>1, MatchedSame DEF ReserveAgain, ledgerVars
    <2>2. CASE ReserveNew(u, r)
      <3>1. -rule.cost \in Int BY <1>1
      <3>2. Post(u, -rule.cost, rows, "consume", "pending", r) BY <2>2 DEF ReserveNew
      <3> QED BY <3>1, <3>2, PostMatched
    <2> QED BY <1>6, <2>1, <2>2 DEF Reserve
  <1>7. ASSUME NEW u \in Users, NEW r \in Refs, Confirm(u, r) PROVE AllMatched'
    BY <1>7, ConfirmMatched
  <1>8. ASSUME NEW u \in Users, NEW r \in Refs, Refund(u, r) PROVE AllMatched'
    <2>1. CASE RefundNothing(u, r) BY <2>1, MatchedSame DEF RefundNothing, ledgerVars
    <2>2. CASE RefundPending(u, r) BY <2>2, RefundMatched
    <2> QED BY <1>8, <2>1, <2>2 DEF Refund
  <1> QED BY <1>2, <1>3, <1>4, <1>5, <1>6, <1>7, <1>8 DEF LedgerNext, Administer, Charge

LEMMA MatchedInit == LedgerInit => AllMatched
  <1> SUFFICES ASSUME LedgerInit, NEW u \in Users, NEW r \in Refs PROVE Matched(u, r)
    BY DEF AllMatched
  <1>1. rows = <<>> BY DEF LedgerInit
  <1>2. Reversals(u, r) = {} /\ Refunds(u, r) = {} /\ Pending(u, r) = {}
    BY <1>1 DEF Reversals, Refunds, Pending
  <1> DEFINE f == [i \in {} |-> 1]
  <1>3. f \in [Reversals(u, r) -> DOMAIN rows] BY <1>2
  <1>4. PaidBack(u, r, f) BY <1>2 DEF PaidBack
  <1> QED BY <1>2, <1>3, <1>4 DEF Matched

(* Every reversal is paid back once, what was taken, before the reference  *)
(* is charged again, whatever prices and references there are.             *)
THEOREM LedgerRefunds == LedgerSpec => []RefundsMatchReversals
  <1>1. IInv /\ AllMatched /\ [LedgerNext]_ledgerVars => AllMatched'
    BY MatchedHolds, MatchedSame DEF ledgerVars
  <1>2. AllMatched => RefundsMatchReversals BY DEF AllMatched, Matched, RefundsMatchReversals
  <1> QED BY <1>1, <1>2, MatchedInit, LedgerInvariant, PTL DEF LedgerSpec

-----------------------------------------------------------------------------
(* A hold is not affected by rows of other holds.                          *)
LEMMA HeldKept ==
    ASSUME IInv, NEW v, NEW q,
           rows' \in Seq(Row), Len(rows') >= Len(rows),
           \A i \in 1..Len(rows) :
              /\ rows'[i].user = rows[i].user /\ rows'[i].ref = rows[i].ref
              /\ rows'[i].type = rows[i].type /\ rows'[i].amount = rows[i].amount
              /\ rows[i].user = v /\ rows[i].ref = q => rows'[i].status = rows[i].status,
           \A i \in 1..Len(rows') : i \notin 1..Len(rows) =>
              ~(rows'[i].user = v /\ rows'[i].ref = q /\ rows'[i].type = "consume")
    PROVE  HeldFor(v, q)' = HeldFor(v, q)
  <1>1. /\ DOMAIN rows = 1..Len(rows) /\ DOMAIN rows' = 1..Len(rows')
        /\ Len(rows) \in Nat /\ Len(rows') \in Nat
    BY DEF IInv, LedgerTypeOK
  <1>2. 1..Len(rows) \subseteq 1..Len(rows') BY <1>1
  <1>3. Pending(v, q)' = Pending(v, q)
    <2>1. ASSUME NEW i \in 1..Len(rows) PROVE i \in Pending(v, q)' <=> i \in Pending(v, q)
      BY <1>1, <1>2 DEF Pending
    <2>2. ASSUME NEW i \in 1..Len(rows'), i \notin 1..Len(rows) PROVE i \notin Pending(v, q)'
      BY <1>1, <2>2 DEF Pending
    <2>3. Pending(v, q) \subseteq 1..Len(rows) /\ Pending(v, q)' \subseteq 1..Len(rows')
      BY <1>1 DEF Pending
    <2> QED BY <2>1, <2>2, <2>3
  <1>4. CASE Pending(v, q) = {} BY <1>3, <1>4 DEF HeldFor
  <1>5. CASE Pending(v, q) # {}
    <2>0. Newest(Pending(v, q)) \in Pending(v, q) BY <1>5, NewestPending
    <2>1. Newest(Pending(v, q)) \in 1..Len(rows) BY <1>1, <2>0 DEF Pending
    <2>2. Newest(Pending(v, q)') = Newest(Pending(v, q)) BY <1>3
    <2>3. rows'[Newest(Pending(v, q))].amount = rows[Newest(Pending(v, q))].amount BY <2>1
    <2> QED BY <1>3, <1>5, <2>2, <2>3 DEF HeldFor
  <1> QED BY <1>4, <1>5

(* After one more row: the holds of all references it is no charge of.     *)
LEMMA HeldPosted ==
    ASSUME IInv, NEW u \in Users, NEW n \in Int, NEW table \in Seq(Row), Kept(table),
           NEW type \in {"consume", "refund", "admin_adjust"},
           NEW status \in {"pending", "completed"}, NEW r \in Refs \union OtherRefs,
           Post(u, n, table, type, status, r),
           NEW v, NEW q, v # u \/ q # r \/ type = "admin_adjust",
           \A i \in 1..Len(rows) :
              rows[i].user = v /\ rows[i].ref = q => table[i].status = rows[i].status
    PROVE  HeldFor(v, q)' = HeldFor(v, q)
  <1>1. LedgerTypeOK /\ Len(table) = Len(rows) /\ Len(rows) \in Nat
    BY DEF IInv, Kept, LedgerTypeOK
  <1>2. /\ rows' \in Seq(Row)
        /\ Len(rows') = Len(table) + 1
        /\ \A i \in 1..Len(table) : rows'[i] = table[i]
        /\ rows'[Len(table) + 1] = [user |-> u, type |-> type, status |-> status,
                                    amount |-> n, after |-> balance[u] + n, ref |-> r]
    BY <1>1, PostEffect
  <1>3. \A i \in 1..Len(rows) :
           /\ rows'[i].user = rows[i].user /\ rows'[i].ref = rows[i].ref
           /\ rows'[i].type = rows[i].type /\ rows'[i].amount = rows[i].amount
           /\ rows[i].user = v /\ rows[i].ref = q => rows'[i].status = rows[i].status
    BY <1>1, <1>2, KeptPending
  <1>4. \A i \in 1..Len(rows') : i \notin 1..Len(rows) =>
           ~(rows'[i].user = v /\ rows'[i].ref = q /\ rows'[i].type = "consume")
    <2> SUFFICES ASSUME NEW i \in 1..Len(rows'), i \notin 1..Len(rows)
                 PROVE  ~(rows'[i].user = v /\ rows'[i].ref = q /\ rows'[i].type = "consume")
      OBVIOUS
    <2>1. i = Len(table) + 1 BY <1>1, <1>2
    <2>2. rows'[i].user = u /\ rows'[i].ref = r /\ rows'[i].type = type BY <1>2, <2>1
    <2> QED BY <2>2
  <1>5. Len(rows') >= Len(rows) BY <1>1, <1>2
  <1> QED BY <1>2, <1>3, <1>4, <1>5, HeldKept

(* The table of holds when one hold changes.                               *)
LEMMA HeldTable ==
    ASSUME NEW u \in Users, NEW r \in Refs, NEW c, HeldFor(u, r)' = c,
           \A v \in Users, q \in Refs :
              v # u \/ q # r => HeldFor(v, q)' = HeldFor(v, q)
    PROVE  [v \in Users |-> [q \in Refs |-> HeldFor(v, q)]]'
             = [[v \in Users |-> [q \in Refs |-> HeldFor(v, q)]] EXCEPT ![u][r] = c]
  OBVIOUS

LEMMA GrantStep ==
    ASSUME IInv, NEW u \in Users, NEW n \in Int, NEW r \in Refs \union OtherRefs,
           Post(u, n, rows, "admin_adjust", "completed", r)
    PROVE  Wallet!WalletNext
  <1>1. rows \in Seq(Row) /\ Kept(rows) /\ LedgerTypeOK BY KeptRows DEF IInv, LedgerTypeOK
  <1>2. \A v, q : HeldFor(v, q)' = HeldFor(v, q) BY <1>1, HeldPosted
  <1>3. balance' \in [Users -> Nat] /\ balance' = [balance EXCEPT ![u] = balance'[u]]
    <2>1. balance' \in [Users -> Nat] BY <1>1, PostEffect
    <2>2. balance' = [balance EXCEPT ![u] = balance[u] + n] BY DEF Post
    <2> QED BY <1>1, <2>1, <2>2 DEF LedgerTypeOK
  <1>4. Wallet!Grant(u) BY <1>2, <1>3 DEF Wallet!Grant
  <1> QED BY <1>4 DEF Wallet!WalletNext

LEMMA HoldStep ==
    ASSUME IInv, NEW u \in Users, NEW r \in Refs, ReserveNew(u, r)
    PROVE  Wallet!WalletNext
  <1> DEFINE held == [v \in Users |-> [q \in Refs |-> HeldFor(v, q)]]
             c == rule.cost
             last == Len(rows) + 1
  <1>1. /\ rows \in Seq(Row) /\ Kept(rows) /\ LedgerTypeOK /\ Len(rows) \in Nat
        /\ DOMAIN rows = 1..Len(rows)
        /\ c \in Nat /\ balance \in [Users -> Nat] /\ c <= balance[u]
    BY KeptRows DEF IInv, LedgerTypeOK, ReserveNew
  <1>2. /\ Post(u, -c, rows, "consume", "pending", r) /\ -c \in Int
        /\ Pending(u, r) = {}
    BY <1>1 DEF ReserveNew
  <1>3. /\ rows' \in Seq(Row)
        /\ Len(rows') = last
        /\ \A i \in 1..Len(rows) : rows'[i] = rows[i]
        /\ rows'[last] = [user |-> u, type |-> "consume", status |-> "pending",
                          amount |-> -c, after |-> balance[u] + (-c), ref |-> r]
    BY <1>1, <1>2, PostEffect
  <1>4. Pending(u, r)' = {last}
    <2>1. DOMAIN rows' = 1..last BY <1>1, <1>3
    <2>2. last \in Pending(u, r)' BY <1>1, <1>3, <2>1 DEF Pending
    <2>3. ASSUME NEW i \in 1..Len(rows) PROVE i \notin Pending(u, r)'
      BY <1>1, <1>2, <1>3 DEF Pending
    <2>4. Pending(u, r)' \subseteq 1..last BY <2>1 DEF Pending
    <2> QED BY <1>1, <2>2, <2>3, <2>4
  <1>5. HeldFor(u, r) = NoHold /\ HeldFor(u, r)' = c
    <2>1. Newest({last}) = last BY <1>1 DEF Newest
    <2>2. rows'[last].amount = -c BY <1>3
    <2>3. HeldFor(u, r)' = -(-c) BY <1>4, <2>1, <2>2 DEF HeldFor
    <2> QED BY <1>1, <1>2, <2>3 DEF HeldFor
  <1>6. ASSUME NEW v \in Users, NEW q \in Refs, v # u \/ q # r
        PROVE  HeldFor(v, q)' = HeldFor(v, q)
    BY <1>1, <1>2, <1>6, HeldPosted
  <1>7. balance' = [balance EXCEPT ![u] = balance[u] - c]
    BY <1>1, <1>2 DEF Post
  <1>8. held' = [held EXCEPT ![u][r] = c]
    BY <1>5, <1>6, HeldTable
  <1>9. held[u][r] = NoHold BY <1>5
  <1>10. c \in 0..balance[u] BY <1>1
  <1> HIDE DEF held
  <1>11. Wallet!Hold(u, r) BY <1>7, <1>8, <1>9, <1>10 DEF Wallet!Hold, held
  <1> QED BY <1>11 DEF Wallet!WalletNext

LEMMA CaptureStep ==
    ASSUME IInv, NEW u \in Users, NEW r \in Refs, Confirm(u, r)
    PROVE  Wallet!WalletNext \/ UNCHANGED <<balance, rows>>
  <1> DEFINE held == [v \in Users |-> [q \in Refs |-> HeldFor(v, q)]]
  <1>1. /\ rows \in Seq(Row) /\ LedgerTypeOK /\ DOMAIN rows = 1..Len(rows)
        /\ balance' = balance
        /\ rows' = [i \in 1..Len(rows) |-> IF i \in Pending(u, r)
                                           THEN [rows[i] EXCEPT !.status = "completed"]
                                           ELSE rows[i]]
    BY DEF IInv, LedgerTypeOK, Confirm
  <1>2. CASE Pending(u, r) = {}
    <2>1. rows' = rows
      <3>1. rows = [i \in 1..Len(rows) |-> rows[i]] BY <1>1
      <3> QED BY <1>1, <1>2, <3>1
    <2> QED BY <1>1, <2>1
  <1>3. CASE Pending(u, r) # {}
    <2>1. Kept(rows') BY ConfirmShape DEF IInv, Settles
    <2>2. rows' \in Seq(Row) /\ Len(rows') = Len(rows) /\ Len(rows) \in Nat
      BY <1>1, <2>1 DEF Kept
    <2>3. \A i \in 1..Len(rows) :
             /\ rows'[i].user = rows[i].user /\ rows'[i].ref = rows[i].ref
             /\ rows'[i].type = rows[i].type /\ rows'[i].amount = rows[i].amount
      BY <1>1, <2>1, KeptPending
    <2>4. \A i \in 1..Len(rows) : i \notin Pending(u, r) => rows'[i] = rows[i] BY <1>1
    <2>5. ASSUME NEW v \in Users, NEW q \in Refs, v # u \/ q # r
          PROVE  HeldFor(v, q)' = HeldFor(v, q)
      <3>1. \A i \in 1..Len(rows) :
               rows[i].user = v /\ rows[i].ref = q => rows'[i].status = rows[i].status
        BY <2>4, <2>5 DEF Pending
      <3> QED BY <2>2, <2>3, <3>1, HeldKept
    <2>6. Pending(u, r)' = {}
      <3>1. DOMAIN rows' = 1..Len(rows) BY <1>1
      <3>2. ASSUME NEW i \in 1..Len(rows) PROVE i \notin Pending(u, r)'
        <4>1. CASE i \in Pending(u, r)
          <5>1. rows'[i].status = "completed"
            <6>1. rows'[i] = [rows[i] EXCEPT !.status = "completed"] BY <1>1, <4>1
            <6>2. rows[i] \in Row BY <1>1
            <6> QED BY <6>1, <6>2 DEF Row
          <5> QED BY <5>1 DEF Pending
        <4>2. CASE i \notin Pending(u, r)
          <5>1. rows'[i] = rows[i] BY <2>4, <4>2
          <5> QED BY <1>1, <4>2, <5>1 DEF Pending
        <4> QED BY <4>1, <4>2
      <3> QED BY <3>1, <3>2 DEF Pending
    <2>7. HeldFor(u, r)' = NoHold BY <2>6 DEF HeldFor
    <2>8. held' = [held EXCEPT ![u][r] = NoHold] BY <2>5, <2>7, HeldTable
    <2>9. held[u][r] # NoHold
      <3>1. Newest(Pending(u, r)) \in Pending(u, r) BY <1>3, NewestPending
      <3>2. rows[Newest(Pending(u, r))] \in Row BY <1>1, <3>1 DEF Pending
      <3>3. HeldFor(u, r) \in Int BY <1>3, <3>2 DEF HeldFor, Row
      <3> QED BY <3>3, LedgerAssumption
    <2> HIDE DEF held
    <2>10. Wallet!Capture(u, r) BY <1>1, <2>8, <2>9 DEF Wallet!Capture, held
    <2> QED BY <2>10 DEF Wallet!WalletNext
  <1> QED BY <1>2, <1>3

LEMMA ReleaseStep ==
    ASSUME IInv, NEW u \in Users, NEW r \in Refs, RefundPending(u, r)
    PROVE  Wallet!WalletNext
  <1> DEFINE held == [v \in Users |-> [q \in Refs |-> HeldFor(v, q)]]
             i == Newest(Pending(u, r))
             n == -rows[i].amount
             table == [rows EXCEPT ![i].status = "reversed"]
             last == Len(rows) + 1
  <1>1. /\ rows \in Seq(Row) /\ LedgerTypeOK /\ DOMAIN rows = 1..Len(rows)
        /\ Len(rows) \in Nat /\ balance \in [Users -> Nat]
    BY DEF IInv, LedgerTypeOK
  <1>2. i \in Pending(u, r) /\ Pending(u, r) # {} BY NewestPending DEF RefundPending
  <1>3. /\ i \in 1..Len(rows) /\ rows[i] \in Row /\ rows[i].user = u /\ rows[i].ref = r
        /\ rows[i].status = "pending" /\ rows[i].type = "consume"
    BY <1>1, <1>2 DEF Pending
  <1>4. n \in Int /\ HeldFor(u, r) = n BY <1>2, <1>3 DEF HeldFor, Row
  <1>5. Post(u, n, table, "refund", "completed", r) BY DEF RefundPending
  <1>6. Kept(table) /\ table \in Seq(Row) /\ Len(table) = Len(rows)
    <2>1. Kept(table) BY <1>2, RefundTable
    <2> QED BY <2>1 DEF Kept
  <1>7. table[i].status = "reversed" /\ \A j \in 1..Len(rows) : j # i => table[j] = rows[j]
    BY <1>1, <1>3 DEF Row
  <1> HIDE DEF i, n, table
  <1>8. /\ rows' \in Seq(Row)
        /\ Len(rows') = Len(table) + 1
        /\ \A j \in 1..Len(table) : rows'[j] = table[j]
        /\ rows'[Len(table) + 1] = [user |-> u, type |-> "refund", status |-> "completed",
                                    amount |-> n, after |-> balance[u] + n, ref |-> r]
    BY <1>1, <1>4, <1>5, <1>6, PostEffect
  <1>9. ASSUME NEW v \in Users, NEW q \in Refs, v # u \/ q # r
        PROVE  HeldFor(v, q)' = HeldFor(v, q)
    <2>1. \A j \in 1..Len(rows) :
             rows[j].user = v /\ rows[j].ref = q => table[j].status = rows[j].status
      BY <1>3, <1>7, <1>9
    <2> QED BY <1>4, <1>5, <1>6, <1>9, <2>1, HeldPosted
  <1>10. Pending(u, r)' = {}
    <2>1. DOMAIN rows' = 1..last BY <1>6, <1>8
    <2>2. last \notin Pending(u, r)' BY <1>6, <1>8 DEF Pending
    <2>3. ASSUME NEW j \in 1..Len(rows) PROVE j \notin Pending(u, r)'
      <3>1. rows'[j] = table[j] BY <1>6, <1>8
      <3>2. CASE j = i BY <1>7, <3>1, <3>2 DEF Pending
      <3>3. CASE j # i
        <4>1. rows'[j] = rows[j] BY <1>7, <3>1, <3>3
        <4>2. j \notin Pending(u, r)
          BY <1>2, <1>3, <3>3 DEF IInv, OnePendingCharge, Pending
        <4> QED BY <1>1, <4>1, <4>2 DEF Pending
      <3> QED BY <3>2, <3>3
    <2>4. Pending(u, r)' \subseteq 1..last BY <2>1 DEF Pending
    <2> QED BY <1>1, <2>2, <2>3, <2>4
  <1>11. HeldFor(u, r)' = NoHold BY <1>10 DEF HeldFor
  <1>12. held' = [held EXCEPT ![u][r] = NoHold] BY <1>9, <1>11, HeldTable
  <1>13. held[u][r] = n /\ n # NoHold BY <1>4, LedgerAssumption
  <1>14. balance' = [balance EXCEPT ![u] = balance[u] + held[u][r]]
    BY <1>5, <1>13 DEF Post
  <1> HIDE DEF held
  <1>15. Wallet!Release(u, r) BY <1>12, <1>13, <1>14 DEF Wallet!Release, held
  <1> QED BY <1>15 DEF Wallet!WalletNext

(* A step of the ledger is a step of the wallet, or invisible in it.       *)
LEMMA WalletStep ==
    ASSUME IInv, [LedgerNext]_ledgerVars
    PROVE  [Wallet!WalletNext]_(Wallet!walletVars)
  <1> DEFINE held == [v \in Users |-> [q \in Refs |-> HeldFor(v, q)]]
  <1>1. ASSUME UNCHANGED <<balance, rows>> PROVE UNCHANGED <<balance, held>>
    BY <1>1 DEF HeldFor, Pending, Newest
  <1>2. ASSUME IInv, LedgerNext
        PROVE  Wallet!WalletNext \/ UNCHANGED <<balance, rows>>
    <2>1. rule.cost \in Nat /\ rule.initial \in Nat BY <1>2 DEF IInv, LedgerTypeOK
    <2>2. CASE Administer
      <3>1. ASSUME NEW c \in Costs, NEW p \in Grants, UpdateCreditRule(c, p)
            PROVE  UNCHANGED <<balance, rows>>
        BY <3>1 DEF UpdateCreditRule
      <3>2. ASSUME NEW u \in Users, NEW enabled \in BOOLEAN, SetUserEnabled(u, enabled)
            PROVE  UNCHANGED <<balance, rows>>
        BY <3>2 DEF SetUserEnabled
      <3>3. ASSUME NEW u \in Users, NEW r \in OtherRefs, NEW p \in Grants \union {rule.initial},
                   CreateUser(u, p, r)
            PROVE  Wallet!WalletNext \/ UNCHANGED <<balance, rows>>
        <4>1. p \in Int BY <2>1, LedgerAssumption
        <4>2. CASE p = 0 BY <3>3, <4>2 DEF CreateUser
        <4>3. CASE p # 0
          <5>1. Post(u, p, rows, "admin_adjust", "completed", r) BY <3>3, <4>3 DEF CreateUser
          <5> QED BY <1>2, <4>1, <5>1, GrantStep
        <4> QED BY <4>2, <4>3
      <3>4. ASSUME NEW u \in Users, NEW r \in OtherRefs, NEW n \in Adjustments, Adjust(u, n, r)
            PROVE  Wallet!WalletNext
        <4>1. n \in Int BY LedgerAssumption
        <4>2. Post(u, n, rows, "admin_adjust", "completed", r) BY <3>4 DEF Adjust
        <4> QED BY <1>2, <4>1, <4>2, GrantStep
      <3> QED BY <2>2, <3>1, <3>2, <3>3, <3>4 DEF Administer
    <2>3. ASSUME NEW u \in Users, NEW r \in Refs, Reserve(u, r) \/ Confirm(u, r) \/ Refund(u, r)
          PROVE  Wallet!WalletNext \/ UNCHANGED <<balance, rows>>
      <3>1. CASE ReserveNew(u, r) BY <1>2, <3>1, HoldStep
      <3>2. CASE Confirm(u, r) BY <1>2, <3>2, CaptureStep
      <3>3. CASE RefundPending(u, r) BY <1>2, <3>3, ReleaseStep
      <3>4. CASE ReserveAgain(u, r) \/ RefundNothing(u, r)
        BY <3>4 DEF ReserveAgain, RefundNothing, ledgerVars
      <3> QED BY <2>3, <3>1, <3>2, <3>3, <3>4 DEF Reserve, Refund
    <2> QED BY <1>2, <2>2, <2>3 DEF LedgerNext, Charge
  <1>3. CASE LedgerNext BY <1>1, <1>2, <1>3 DEF Wallet!walletVars
  <1>4. CASE UNCHANGED ledgerVars BY <1>1, <1>4 DEF ledgerVars, Wallet!walletVars
  <1> QED BY <1>3, <1>4

(* The ledger implements the two-phase wallet: whatever the code does to   *)
(* the balance column and the rows is a grant, a hold, a capture of one    *)
(* hold, the release of one hold, or invisible.                            *)
THEOREM LedgerImplementsWallet == LedgerSpec => ImplementsWallet
  <1>1. LedgerInit => Wallet!WalletInit
    BY DEF LedgerInit, Wallet!WalletInit, HeldFor, Pending
  <1>2. IInv /\ [LedgerNext]_ledgerVars => [Wallet!WalletNext]_(Wallet!walletVars)
    BY WalletStep
  <1> QED BY <1>1, <1>2, LedgerInvariant, PTL
          DEF LedgerSpec, ImplementsWallet, Wallet!WalletSpec

(* What is set aside for a mailbox stays set aside, the same amount, until *)
(* it is spent or given back, whatever is charged, granted or taken        *)
(* meanwhile, and however the price changes.                               *)
HoldsKept ==
    [][\A u \in Users, r \in Refs :
          HeldFor(u, r) # NoHold => HeldFor(u, r)' \in {HeldFor(u, r), NoHold}]_ledgerVars

THEOREM LedgerHoldsKept == LedgerSpec => HoldsKept
  <1> DEFINE held == [u \in Users |-> [r \in Refs |-> HeldFor(u, r)]]
  <1>1. ASSUME [Wallet!WalletNext]_(Wallet!walletVars), NEW u \in Users, NEW r \in Refs,
               HeldFor(u, r) # NoHold
        PROVE  HeldFor(u, r)' \in {HeldFor(u, r), NoHold}
    <2>1. held[u][r] = HeldFor(u, r) /\ held'[u][r] = HeldFor(u, r)' OBVIOUS
    <2>2. CASE UNCHANGED held BY <2>1, <2>2
    <2>3. ASSUME NEW v \in Users, Wallet!Grant(v) PROVE UNCHANGED held
      BY <2>3 DEF Wallet!Grant
    <2>4. ASSUME NEW v \in Users, NEW s \in Refs,
                 Wallet!Hold(v, s) \/ Wallet!Capture(v, s) \/ Wallet!Release(v, s)
          PROVE  held'[u][r] \in {held[u][r], NoHold}
      <3>1. PICK n : /\ n # NoHold => held[v][s] = NoHold
                     /\ held' = [held EXCEPT ![v][s] = n]
        BY <2>4, LedgerAssumption DEF Wallet!Hold, Wallet!Capture, Wallet!Release
      <3>2. CASE u = v /\ r = s
        <4>1. n = NoHold BY <1>1, <2>1, <3>1, <3>2
        <4> QED BY <3>1, <3>2, <4>1
      <3>3. CASE ~(u = v /\ r = s)
        <4>1. held'[u] = IF u = v THEN [held[u] EXCEPT ![s] = n] ELSE held[u] BY <3>1
        <4>2. DOMAIN held[u] = Refs OBVIOUS
        <4> HIDE DEF held
        <4>3. held'[u][r] = held[u][r] BY <3>3, <4>1, <4>2
        <4> QED BY <4>3
      <3> HIDE DEF held
      <3> QED BY <3>2, <3>3
    <2> QED BY <1>1, <2>1, <2>2, <2>3, <2>4 DEF Wallet!WalletNext, Wallet!walletVars
  <1>2. [Wallet!WalletNext]_(Wallet!walletVars)
           => [\A u \in Users, r \in Refs :
                 HeldFor(u, r) # NoHold => HeldFor(u, r)' \in {HeldFor(u, r), NoHold}]_ledgerVars
    BY <1>1
  <1> QED BY <1>2, LedgerImplementsWallet, PTL
          DEF ImplementsWallet, Wallet!WalletSpec, HoldsKept

==============================================================================
