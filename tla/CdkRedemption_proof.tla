------------------------- MODULE CdkRedemption_proof -------------------------
(***************************************************************************)
(* Proofs about redeemable codes: what CreditLedger_proof shows of the     *)
(* ledger still holds when codes are redeemed on it, and a code is worth   *)
(* its points exactly once.                                                *)
(***************************************************************************)
EXTENDS CdkRedemption, CreditLedger_proof

CodesTypeOK ==
    /\ packages \in [Packages -> Package \union {NoPackage}]
    /\ cdks \in [Cdks -> Cdk \union {NoCdk}]

(* A code that exists belongs to a package that exists (the foreign key).  *)
PackagesKept ==
    \A c \in Cdks : cdks[c] # NoCdk => packages[cdks[c].package] # NoPackage

CdkInv == IInv /\ CodesTypeOK /\ PackagesKept /\ RedeemedOnce

-----------------------------------------------------------------------------
LEMMA LedgerStepIsLedgerNext == LedgerStep => LedgerNext
  <1>1. AdminRef \in OtherRefs BY CdkAssumption
  <1> QED BY <1>1 DEF LedgerStep, LedgerNext, Administer

(* Redeeming a code posts one row.                                         *)
LEMMA RedeemPosts ==
    ASSUME IInv, CodesTypeOK, NEW u \in Users, NEW c \in Cdks, RedeemCdk(u, c)
    PROVE  /\ cdks[c] \in Cdk
           /\ c \in OtherRefs
           /\ Post(u, cdks[c].points, rows, "admin_adjust", "completed", c)
           /\ Posts
  <1>1. cdks[c] \in Cdk BY DEF CodesTypeOK, RedeemCdk
  <1>2. c \in OtherRefs BY CdkAssumption
  <1>3. cdks[c].points \in Int BY <1>1 DEF Cdk
  <1>4. Post(u, cdks[c].points, rows, "admin_adjust", "completed", c) BY DEF RedeemCdk
  <1>5. Posts BY <1>2, <1>3, <1>4, PlainPost DEF IInv
  <1> QED BY <1>1, <1>2, <1>4, <1>5

(* What any step is to the ledger: a step of it, a redemption, or nothing. *)
LEMMA CdkStepShape ==
    ASSUME IInv, CodesTypeOK, [CdkNext]_allVars
    PROVE  \/ LedgerStep
           \/ \E u \in Users, c \in Cdks : RedeemCdk(u, c)
           \/ UNCHANGED ledgerVars
  BY DEF CdkNext, CreatePackage, UpdatePackage, DeletePackage, GenerateCdks, DisableCdk,
         ledgerVars, allVars

LEMMA RedeemShape ==
    ASSUME IInv, CodesTypeOK, NEW u \in Users, NEW c \in Cdks, RedeemCdk(u, c)
    PROVE  /\ Shape
           /\ account' \in [Users -> {"absent", "active", "disabled"}]
           /\ rule' \in [cost : Nat, initial : Nat]
  BY RedeemPosts DEF Shape, RedeemCdk, IInv, LedgerTypeOK

LEMMA CdkLedgerHolds ==
    ASSUME IInv, CodesTypeOK, [CdkNext]_allVars
    PROVE  IInv'
  <1>1. CASE LedgerStep BY <1>1, LedgerStepIsLedgerNext, StepHolds
  <1>2. ASSUME NEW u \in Users, NEW c \in Cdks, RedeemCdk(u, c) PROVE IInv'
    BY <1>2, RedeemShape, SettlesHolds, PostsHolds DEF IInv, LedgerTypeOK, Shape
  <1>3. CASE UNCHANGED ledgerVars BY <1>3, StepHolds
  <1> QED BY <1>1, <1>2, <1>3, CdkStepShape

-----------------------------------------------------------------------------
(* The tables of packages and codes.                                       *)
LEMMA CodesHold ==
    ASSUME CodesTypeOK, PackagesKept, [CdkNext]_allVars
    PROVE  CodesTypeOK' /\ PackagesKept'
  <1> DEFINE Goal == CodesTypeOK' /\ PackagesKept'
  <1> USE DEF CodesTypeOK, PackagesKept
  <1>1. ASSUME NEW p \in Packages, NEW n \in PackagePoints, NEW enabled \in BOOLEAN,
               CreatePackage(p, n, enabled) \/ UpdatePackage(p, n, enabled)
        PROVE  Goal
    <2> DEFINE new == [points |-> n, enabled |-> enabled]
    <2>1. new \in Package BY CdkAssumption DEF Package
    <2>2. packages' = [packages EXCEPT ![p] = new] /\ cdks' = cdks
      BY <1>1 DEF CreatePackage, UpdatePackage
    <2> HIDE DEF new
    <2>3. new # NoPackage BY <2>1, CdkAssumption
    <2> QED BY <2>1, <2>2, <2>3
  <1>2. ASSUME NEW p \in Packages, DeletePackage(p) PROVE Goal
    BY <1>2 DEF DeletePackage
  <1>3. ASSUME NEW p \in Packages, NEW batch \in SUBSET Cdks, GenerateCdks(p, batch)
        PROVE  Goal
    <2> DEFINE new == [status |-> "unused", points |-> packages[p].points,
                       package |-> p, redeemedBy |-> NoUser]
    <2>1. packages[p] \in Package BY <1>3 DEF GenerateCdks
    <2>2. new \in Cdk BY <2>1 DEF Package, Cdk
    <2>3. \A c \in Cdks : cdks'[c] = IF c \in batch THEN new ELSE cdks[c]
      BY <1>3 DEF GenerateCdks
    <2>4. cdks' \in [Cdks -> Cdk \union {NoCdk}]
      <3>1. cdks' = [c \in Cdks |-> IF c \in batch THEN new ELSE cdks[c]]
        BY <1>3 DEF GenerateCdks
      <3> HIDE DEF new
      <3> QED BY <2>2, <3>1
    <2>5. packages' = packages /\ packages[p] # NoPackage BY <1>3 DEF GenerateCdks
    <2>6. new.package = p OBVIOUS
    <2> HIDE DEF new
    <2> QED BY <2>3, <2>4, <2>5, <2>6
  <1>4. ASSUME NEW c \in Cdks, DisableCdk(c) PROVE Goal
    <2>1. cdks[c] \in Cdk BY <1>4 DEF DisableCdk
    <2>2. /\ [cdks[c] EXCEPT !.status = "disabled"] \in Cdk
          /\ [cdks[c] EXCEPT !.status = "disabled"].package = cdks[c].package
      BY <2>1 DEF Cdk
    <2> QED BY <1>4, <2>1, <2>2 DEF DisableCdk
  <1>5. ASSUME NEW c \in Cdks, NEW u \in Users, RedeemCdk(u, c) PROVE Goal
    <2>1. cdks[c] \in Cdk BY <1>5 DEF RedeemCdk
    <2>2. cdks' = [cdks EXCEPT ![c] = [cdks[c] EXCEPT !.status = "redeemed", !.redeemedBy = u]]
      BY <1>5 DEF RedeemCdk
    <2>3. /\ [cdks[c] EXCEPT !.status = "redeemed", !.redeemedBy = u] \in Cdk
          /\ [cdks[c] EXCEPT !.status = "redeemed", !.redeemedBy = u].package = cdks[c].package
      BY <2>1 DEF Cdk
    <2>4. cdks[c] # NoCdk /\ packages' = packages BY <1>5 DEF RedeemCdk
    <2> QED BY <2>2, <2>3, <2>4
  <1>6. CASE LedgerStep BY <1>6 DEF LedgerStep, cdkVars
  <1>7. CASE UNCHANGED allVars BY <1>7 DEF allVars
  <1> QED BY <1>1, <1>2, <1>3, <1>4, <1>5, <1>6, <1>7 DEF CdkNext

-----------------------------------------------------------------------------
(* No operation of the ledger itself records a row under a code.           *)
LEMMA NoCodeRows ==
    ASSUME IInv, LedgerStep, NEW i \in DOMAIN rows', i \notin DOMAIN rows
    PROVE  rows'[i].ref \notin Cdks
  <1>1. /\ rows \in Seq(Row) /\ DOMAIN rows = 1..Len(rows) /\ Len(rows) \in Nat
        /\ AdminRef \notin Cdks /\ Refs \intersect Cdks = {}
    BY CdkAssumption DEF IInv, LedgerTypeOK
  <1>2. ASSUME NEW u \in Users, NEW n \in Int, NEW table \in Seq(Row),
               NEW type \in {"consume", "refund", "admin_adjust"},
               NEW status \in {"pending", "completed"}, NEW r \in Refs \union {AdminRef},
               Len(table) = Len(rows), Post(u, n, table, type, status, r)
        PROVE  rows'[i].ref \notin Cdks
    <2>1. r \in Refs \union OtherRefs /\ r \notin Cdks BY <1>1, CdkAssumption
    <2>2. /\ balance' \in [Users -> Nat]
          /\ balance'[u] = balance[u] + n
          /\ \A v \in Users \ {u} : balance'[v] = balance[v]
          /\ rows' \in Seq(Row)
          /\ Len(rows') = Len(table) + 1
          /\ \A j \in 1..Len(table) : rows'[j] = table[j]
          /\ rows'[Len(table) + 1] = [user |-> u, type |-> type, status |-> status,
                                      amount |-> n, after |-> balance[u] + n, ref |-> r]
      BY <1>2, <2>1, PostEffect DEF IInv
    <2>3. i = Len(table) + 1 BY <1>1, <1>2, <2>2
    <2> QED BY <2>1, <2>2, <2>3
  <1>3. ASSUME NEW c \in Costs, NEW p \in Grants, UpdateCreditRule(c, p) PROVE FALSE
    BY <1>3 DEF UpdateCreditRule
  <1>4. ASSUME NEW u \in Users, NEW enabled \in BOOLEAN, SetUserEnabled(u, enabled) PROVE FALSE
    BY <1>4 DEF SetUserEnabled
  <1>5. ASSUME NEW u \in Users, NEW p \in Grants \union {rule.initial}, CreateUser(u, p, AdminRef)
        PROVE  rows'[i].ref \notin Cdks
    <2>1. p \in Int BY LedgerAssumption DEF IInv, LedgerTypeOK
    <2>2. p # 0 BY <1>5 DEF CreateUser
    <2>3. Post(u, p, rows, "admin_adjust", "completed", AdminRef) BY <1>5, <2>2 DEF CreateUser
    <2> QED BY <1>1, <1>2, <2>1, <2>3
  <1>6. ASSUME NEW u \in Users, NEW n \in Adjustments, Adjust(u, n, AdminRef)
        PROVE  rows'[i].ref \notin Cdks
    <2>1. n \in Int BY LedgerAssumption
    <2>2. Post(u, n, rows, "admin_adjust", "completed", AdminRef) BY <1>6 DEF Adjust
    <2> QED BY <1>1, <1>2, <2>1, <2>2
  <1>7. ASSUME NEW u \in Users, NEW r \in Refs, Reserve(u, r) PROVE rows'[i].ref \notin Cdks
    <2>1. ~ReserveAgain(u, r) BY DEF ReserveAgain, ledgerVars
    <2>2. Post(u, -rule.cost, rows, "consume", "pending", r)
      BY <1>7, <2>1 DEF Reserve, ReserveNew
    <2>3. -rule.cost \in Int BY DEF IInv, LedgerTypeOK
    <2> QED BY <1>1, <1>2, <2>2, <2>3
  <1>8. ASSUME NEW u \in Users, NEW r \in Refs, Confirm(u, r) PROVE FALSE
    BY <1>8 DEF Confirm
  <1>9. ASSUME NEW u \in Users, NEW r \in Refs, Refund(u, r) PROVE rows'[i].ref \notin Cdks
    <2> DEFINE n == Newest(Pending(u, r))
               table == [rows EXCEPT ![n].status = "reversed"]
    <2>1. ~RefundNothing(u, r) BY DEF RefundNothing, ledgerVars
    <2>2. RefundPending(u, r) BY <1>9, <2>1 DEF Refund
    <2>3. Pending(u, r) # {} /\ Post(u, -rows[n].amount, table, "refund", "completed", r)
      BY <2>2 DEF RefundPending
    <2>4. n \in Pending(u, r) BY <2>3, NewestPending
    <2>5. rows[n] \in Row BY <1>1, <2>4 DEF Pending
    <2>6. -rows[n].amount \in Int BY <2>5 DEF Row
    <2>7. table \in Seq(Row) /\ Len(table) = Len(rows) BY <2>3, RefundTable DEF Kept
    <2> HIDE DEF n, table
    <2> QED BY <1>2, <2>3, <2>6, <2>7
  <1> QED BY <1>3, <1>4, <1>5, <1>6, <1>7, <1>8, <1>9 DEF LedgerStep, Charge

(* Rows keep what a redemption is about.                                   *)
LEMMA ShapeKeepsRows ==
    ASSUME IInv, Shape
    PROVE  /\ DOMAIN rows \subseteq DOMAIN rows'
           /\ \A i \in DOMAIN rows : /\ rows'[i].user = rows[i].user
                                     /\ rows'[i].ref = rows[i].ref
                                     /\ rows'[i].amount = rows[i].amount
  <1>1. rows \in Seq(Row) /\ rows' \in Seq(Row) BY SettlesHolds, PostsHolds DEF Shape, IInv, LedgerTypeOK
  <1>2. /\ Len(rows') >= Len(rows)
        /\ \A i \in DOMAIN rows : rows'[i] = [rows[i] EXCEPT !.status = rows'[i].status]
    BY ShapeFrozen
  <1>3. \A i \in DOMAIN rows : rows[i] \in Row BY <1>1
  <1>4. DOMAIN rows \subseteq DOMAIN rows'
    <2>1. Len(rows) \in Nat /\ Len(rows') \in Nat BY <1>1
    <2>2. DOMAIN rows = 1..Len(rows) /\ DOMAIN rows' = 1..Len(rows') BY <1>1
    <2> QED BY <1>2, <2>1, <2>2
  <1>5. ASSUME NEW i \in DOMAIN rows
        PROVE  rows'[i].user = rows[i].user /\ rows'[i].ref = rows[i].ref
               /\ rows'[i].amount = rows[i].amount
    BY <1>2, <1>3 DEF Row
  <1> QED BY <1>4, <1>5

LEMMA RedeemedHolds ==
    ASSUME CdkInv, [CdkNext]_allVars
    PROVE  RedeemedOnce'
  <1> USE DEF CdkInv
  <1>1. ASSUME LedgerStep PROVE RedeemedOnce'
    <2>1. cdks' = cdks BY <1>1 DEF LedgerStep, cdkVars
    <2>2. Shape BY <1>1, LedgerStepIsLedgerNext, LedgerShape
    <2>3. /\ DOMAIN rows \subseteq DOMAIN rows'
          /\ \A i \in DOMAIN rows : /\ rows'[i].user = rows[i].user
                                    /\ rows'[i].ref = rows[i].ref
                                    /\ rows'[i].amount = rows[i].amount
      BY <2>2, ShapeKeepsRows
    <2>4. \A c \in Cdks : RedemptionRows(c)' = RedemptionRows(c)
      BY <1>1, <2>3, NoCodeRows DEF RedemptionRows
    <2>5. \A c \in Cdks : \A i \in RedemptionRows(c) : i \in DOMAIN rows
      BY DEF RedemptionRows
    <2>6. ASSUME NEW c \in Cdks, cdks[c] # NoCdk /\ cdks[c].status = "redeemed"
          PROVE  \E i \in DOMAIN rows' : /\ RedemptionRows(c)' = {i}
                                        /\ rows'[i].user = cdks[c].redeemedBy
                                        /\ rows'[i].amount = cdks[c].points
      <3>1. PICK i \in DOMAIN rows : /\ RedemptionRows(c) = {i}
                                     /\ rows[i].user = cdks[c].redeemedBy
                                     /\ rows[i].amount = cdks[c].points
        BY <2>6 DEF RedeemedOnce
      <3> QED BY <2>3, <2>4, <3>1
    <2> QED BY <2>1, <2>4, <2>6 DEF RedeemedOnce
  <1>2. ASSUME NEW u \in Users, NEW c \in Cdks, RedeemCdk(u, c) PROVE RedeemedOnce'
    <2> DEFINE last == Len(rows) + 1
    <2>1. /\ cdks[c] \in Cdk /\ c \in OtherRefs
          /\ Post(u, cdks[c].points, rows, "admin_adjust", "completed", c)
      BY <1>2, RedeemPosts
    <2>2. cdks[c].points \in Int /\ rows \in Seq(Row) /\ LedgerTypeOK
      BY <2>1 DEF Cdk, IInv, LedgerTypeOK
    <2>3. /\ balance' \in [Users -> Nat]
          /\ balance'[u] = balance[u] + cdks[c].points
          /\ \A v \in Users \ {u} : balance'[v] = balance[v]
          /\ rows' \in Seq(Row)
          /\ Len(rows') = last
          /\ \A i \in 1..Len(rows) : rows'[i] = rows[i]
          /\ rows'[last] = [user |-> u, type |-> "admin_adjust", status |-> "completed",
                             amount |-> cdks[c].points,
                             after |-> balance[u] + cdks[c].points, ref |-> c]
      BY <2>1, <2>2, PostEffect
    <2>4. /\ DOMAIN rows = 1..Len(rows) /\ DOMAIN rows' = 1..last /\ Len(rows) \in Nat
      BY <2>2, <2>3
    <2>5. /\ cdks[c] # NoCdk /\ cdks[c].status = "unused"
          /\ cdks' = [cdks EXCEPT ![c] = [cdks[c] EXCEPT !.status = "redeemed", !.redeemedBy = u]]
      BY <1>2 DEF RedeemCdk
    <2>6. RedemptionRows(c) = {} BY <2>5 DEF RedeemedOnce
    <2>7. RedemptionRows(c)' = {last}
      <3>1. \A i \in DOMAIN rows : rows[i].ref # c BY <2>6 DEF RedemptionRows
      <3> QED BY <2>3, <2>4, <3>1, SMTT(30) DEF RedemptionRows
    <2>8. \A d \in Cdks : d # c => RedemptionRows(d)' = RedemptionRows(d)
      BY <2>3, <2>4 DEF RedemptionRows
    <2>9. \A d \in Cdks : d # c => cdks'[d] = cdks[d] BY <2>5 DEF CodesTypeOK
    <2>10. /\ cdks'[c] # NoCdk /\ cdks'[c].status = "redeemed"
           /\ cdks'[c].redeemedBy = u /\ cdks'[c].points = cdks[c].points
      <3> DEFINE new == [cdks[c] EXCEPT !.status = "redeemed", !.redeemedBy = u]
      <3>1. /\ new \in Cdk /\ new.status = "redeemed" /\ new.redeemedBy = u
            /\ new.points = cdks[c].points
        BY <2>1 DEF Cdk
      <3>2. cdks'[c] = new BY <2>5 DEF CodesTypeOK
      <3> HIDE DEF new
      <3> QED BY <3>1, <3>2, CdkAssumption
    <2>11. ASSUME NEW d \in Cdks
           PROVE  IF cdks'[d] # NoCdk /\ cdks'[d].status = "redeemed"
                  THEN \E i \in DOMAIN rows' : /\ RedemptionRows(d)' = {i}
                                              /\ rows'[i].user = cdks'[d].redeemedBy
                                              /\ rows'[i].amount = cdks'[d].points
                  ELSE RedemptionRows(d)' = {}
      <3>1. CASE d = c BY <2>3, <2>4, <2>7, <2>10, <3>1
      <3>2. CASE d # c
        <4>1. RedemptionRows(d)' = RedemptionRows(d) /\ cdks'[d] = cdks[d] BY <2>8, <2>9, <3>2
        <4>2. CASE cdks[d] # NoCdk /\ cdks[d].status = "redeemed"
          <5>1. PICK i \in DOMAIN rows : /\ RedemptionRows(d) = {i}
                                         /\ rows[i].user = cdks[d].redeemedBy
                                         /\ rows[i].amount = cdks[d].points
            BY <4>2 DEF RedeemedOnce
          <5>2. i \in DOMAIN rows' /\ rows'[i] = rows[i] BY <2>3, <2>4
          <5> QED BY <4>1, <4>2, <5>1, <5>2
        <4>3. CASE ~(cdks[d] # NoCdk /\ cdks[d].status = "redeemed")
          BY <4>1, <4>3 DEF RedeemedOnce
        <4> QED BY <4>2, <4>3
      <3> QED BY <3>1, <3>2
    <2> QED BY <2>11 DEF RedeemedOnce
  <1>3. ASSUME UNCHANGED rows,
               \A c \in Cdks : \/ cdks'[c] = cdks[c]
                               \/ /\ ~(cdks[c] # NoCdk /\ cdks[c].status = "redeemed")
                                  /\ ~(cdks'[c] # NoCdk /\ cdks'[c].status = "redeemed")
        PROVE  RedeemedOnce'
    BY <1>3 DEF RedeemedOnce, RedemptionRows
  <1>4. ASSUME NEW p \in Packages, NEW batch \in SUBSET Cdks, GenerateCdks(p, batch)
        PROVE  RedeemedOnce'
    BY <1>3, <1>4 DEF GenerateCdks, ledgerVars
  <1>5. ASSUME NEW c \in Cdks, DisableCdk(c) PROVE RedeemedOnce'
    <2>1. cdks[c] \in Cdk /\ cdks[c].status = "unused" BY <1>5 DEF DisableCdk, CodesTypeOK
    <2>2. [cdks[c] EXCEPT !.status = "disabled"].status = "disabled" BY <2>1 DEF Cdk
    <2>3. rows' = rows BY <1>5 DEF DisableCdk, ledgerVars
    <2>4. cdks' = [cdks EXCEPT ![c] = [cdks[c] EXCEPT !.status = "disabled"]]
      BY <1>5 DEF DisableCdk
    <2> QED BY <1>3, <2>1, <2>2, <2>3, <2>4 DEF CodesTypeOK
  <1>6. ASSUME UNCHANGED <<rows, cdks>> PROVE RedeemedOnce' BY <1>3, <1>6
  <1> QED BY <1>1, <1>2, <1>4, <1>5, <1>6
          DEF CdkNext, CreatePackage, UpdatePackage, DeletePackage, ledgerVars, allVars

LEMMA CdkInitHolds == CdkInit => CdkInv
  BY InitHolds DEF CdkInit, CdkInv, CodesTypeOK, PackagesKept, RedeemedOnce, RedemptionRows,
                   LedgerInit

(* The invariant the theorems below rest on.                               *)
THEOREM CdkInvariant == CdkSpec => []CdkInv
  <1>1. CdkInv /\ [CdkNext]_allVars => CdkInv'
    BY CdkLedgerHolds, CodesHold, RedeemedHolds DEF CdkInv
  <1> QED BY <1>1, CdkInitHolds, PTL DEF CdkSpec

(* A code is worth its points once: redeem_cdk and disable_cdk, whatever   *)
(* is done to the packages, leave a redeemed code with one row.            *)
THEOREM CdkRedeemedOnce == CdkSpec => []RedeemedOnce
  <1>1. CdkInv => RedeemedOnce BY DEF CdkInv
  <1> QED BY <1>1, CdkInvariant, PTL

(* The tables are well formed and no balance is negative.                  *)
THEOREM CdkType == CdkSpec => []CdkTypeOK
  <1>1. CdkInv => CdkTypeOK BY DEF CdkInv, IInv, CodesTypeOK, CdkTypeOK
  <1> QED BY <1>1, CdkInvariant, PTL

-----------------------------------------------------------------------------
(* What is settled about a code stays settled.                             *)
LEMMA StepSettles ==
    ASSUME CdkInv, [CdkNext]_allVars, NEW c \in Cdks, cdks[c] # NoCdk
    PROVE  /\ cdks'[c] # NoCdk /\ cdks'[c].points = cdks[c].points
           /\ cdks[c].status # "unused" => cdks'[c] = cdks[c]
           /\ packages'[cdks[c].package] # NoPackage
  <1>1. cdks[c] \in Cdk /\ CodesTypeOK /\ PackagesKept' /\ CodesTypeOK'
    BY CodesHold DEF CdkInv, CodesTypeOK
  <1>2. ASSUME UNCHANGED cdks[c]
        PROVE  /\ cdks'[c] # NoCdk /\ cdks'[c].points = cdks[c].points
               /\ packages'[cdks[c].package] # NoPackage
    BY <1>1, <1>2 DEF PackagesKept
  <1>3. ASSUME cdks[c].status = "unused", NEW s, NEW u \in Users \union {NoUser},
               s \in {"redeemed", "disabled"},
               cdks'[c] = [cdks[c] EXCEPT !.status = s, !.redeemedBy = u]
        PROVE  /\ cdks'[c] # NoCdk /\ cdks'[c].points = cdks[c].points
               /\ packages'[cdks[c].package] # NoPackage
    <2> DEFINE new == [cdks[c] EXCEPT !.status = s, !.redeemedBy = u]
    <2>1. /\ new \in Cdk /\ new.points = cdks[c].points
          /\ new.package = cdks[c].package
      BY <1>1, <1>3 DEF Cdk
    <2>2. cdks'[c] = new BY <1>3
    <2> HIDE DEF new
    <2>3. cdks'[c] # NoCdk BY <2>1, <2>2, CdkAssumption
    <2> QED BY <1>1, <2>1, <2>2, <2>3 DEF PackagesKept
  <1>4. ASSUME NEW d \in Cdks, DisableCdk(d)
        PROVE  \/ UNCHANGED cdks[c]
               \/ /\ cdks[c].status = "unused"
                  /\ cdks'[c] = [cdks[c] EXCEPT !.status = "disabled", !.redeemedBy = @]
    <2>1. cdks[c] = [cdks[c] EXCEPT !.redeemedBy = @] BY <1>1 DEF Cdk
    <2> QED BY <1>1, <1>4, <2>1 DEF DisableCdk, CodesTypeOK, Cdk
  <1>5. ASSUME NEW d \in Cdks, NEW u \in Users, RedeemCdk(u, d)
        PROVE  \/ UNCHANGED cdks[c]
               \/ /\ cdks[c].status = "unused"
                  /\ cdks'[c] = [cdks[c] EXCEPT !.status = "redeemed", !.redeemedBy = u]
    BY <1>1, <1>5 DEF RedeemCdk, CodesTypeOK
  <1>6. ASSUME NEW p \in Packages, NEW batch \in SUBSET Cdks, GenerateCdks(p, batch)
        PROVE  UNCHANGED cdks[c]
    BY <1>6 DEF GenerateCdks
  <1>7. cdks[c].redeemedBy \in Users \union {NoUser} BY <1>1 DEF Cdk
  <1>8. CASE \E d \in Cdks : DisableCdk(d) \/ \E u \in Users : RedeemCdk(u, d)
    <2>1. \/ UNCHANGED cdks[c]
          \/ /\ cdks[c].status = "unused"
             /\ \E s \in {"redeemed", "disabled"}, u \in Users \union {NoUser} :
                   cdks'[c] = [cdks[c] EXCEPT !.status = s, !.redeemedBy = u]
      BY <1>4, <1>5, <1>7, <1>8
    <2> QED BY <1>2, <1>3, <2>1
  <1>9. CASE ~\E d \in Cdks : DisableCdk(d) \/ \E u \in Users : RedeemCdk(u, d)
    <2>1. UNCHANGED cdks[c]
      BY <1>6, <1>9 DEF CdkNext, LedgerStep, cdkVars, CreatePackage, UpdatePackage,
                        DeletePackage, allVars
    <2> QED BY <1>2, <2>1
  <1> QED BY <1>8, <1>9

(* A code that left "unused" is final, whoever acts next: a redeemed code  *)
(* is never disabled, a disabled one never redeemed.                       *)
THEOREM CdkCodesSettled == CdkSpec => CdkSettled
  <1> DEFINE Settled ==
        \A c \in Cdks : cdks[c] # NoCdk =>
            /\ cdks'[c] # NoCdk /\ cdks'[c].points = cdks[c].points
            /\ cdks[c].status # "unused" => cdks'[c] = cdks[c]
            /\ packages'[cdks[c].package] # NoPackage
  <1>1. CdkInv /\ [CdkNext]_allVars => [Settled]_allVars
    BY StepSettles
  <1> QED BY <1>1, CdkInvariant, PTL DEF CdkSpec, CdkSettled

(* Every change of a balance is in the statement, redemptions included.    *)
THEOREM CdkStatement == CdkSpec => []LedgerChained
  <1>1. CdkInit => LedgerChained
    BY DEF CdkInit, LedgerInit, LedgerChained
  <1>2. CdkInv /\ LedgerChained /\ [CdkNext]_allVars => LedgerChained'
    <2> SUFFICES ASSUME CdkInv, LedgerChained, [CdkNext]_allVars PROVE LedgerChained'
      OBVIOUS
    <2>1. IInv /\ CodesTypeOK BY DEF CdkInv
    <2>2. CASE Shape BY <2>1, <2>2, SettlesChained, PostsChained DEF Shape
    <2>3. CASE UNCHANGED ledgerVars
      BY <2>3 DEF ledgerVars, LedgerChained, Precedes
    <2> QED BY <2>1, <2>2, <2>3, CdkStepShape, LedgerStepIsLedgerNext, LedgerShape, RedeemShape
  <1> QED BY <1>1, <1>2, CdkInvariant, PTL DEF CdkSpec

(* The statement of a user is append-only, redemptions included.           *)
THEOREM CdkFrozen == CdkSpec => HistoryFrozen
  <1> DEFINE Frozen ==
        /\ Len(rows') >= Len(rows)
        /\ \A i \in DOMAIN rows :
             /\ rows'[i] = [rows[i] EXCEPT !.status = rows'[i].status]
             /\ rows'[i].status # rows[i].status => rows[i].status = "pending"
  <1>1. CdkInv /\ [CdkNext]_allVars => [Frozen]_ledgerVars
    <2> SUFFICES ASSUME CdkInv, [CdkNext]_allVars PROVE Frozen \/ UNCHANGED ledgerVars
      OBVIOUS
    <2>1. IInv /\ CodesTypeOK BY DEF CdkInv
    <2>2. CASE Shape BY <2>1, <2>2, ShapeFrozen
    <2>3. CASE UNCHANGED ledgerVars BY <2>3
    <2> QED BY <2>1, <2>2, <2>3, CdkStepShape, LedgerStepIsLedgerNext, LedgerShape, RedeemShape
  <1> QED BY <1>1, CdkInvariant, PTL DEF CdkSpec, HistoryFrozen

(* Redeeming a code refunds nothing: reversals and refunds still match.    *)
THEOREM CdkRefunds == CdkSpec => []RefundsMatchReversals
  <1>1. CdkInit => AllMatched BY MatchedInit DEF CdkInit
  <1>2. CdkInv /\ AllMatched /\ [CdkNext]_allVars => AllMatched'
    <2> SUFFICES ASSUME CdkInv, AllMatched, [CdkNext]_allVars PROVE AllMatched'
      OBVIOUS
    <2>1. IInv /\ CodesTypeOK BY DEF CdkInv
    <2>2. CASE LedgerStep BY <2>1, <2>2, LedgerStepIsLedgerNext, MatchedHolds
    <2>3. CASE UNCHANGED ledgerVars BY <2>3, MatchedSame DEF ledgerVars
    <2>4. ASSUME NEW u \in Users, NEW c \in Cdks, RedeemCdk(u, c)
          PROVE  AllMatched'
      <3>1. /\ cdks[c] \in Cdk /\ c \in OtherRefs
            /\ Post(u, cdks[c].points, rows, "admin_adjust", "completed", c)
        BY <2>1, <2>4, RedeemPosts
      <3>2. cdks[c].points \in Int BY <3>1 DEF Cdk
      <3> QED BY <2>1, <3>1, <3>2, PostMatched
    <2> QED BY <2>1, <2>2, <2>3, <2>4, CdkStepShape
  <1>3. AllMatched => RefundsMatchReversals BY DEF AllMatched, Matched, RefundsMatchReversals
  <1> QED BY <1>1, <1>2, <1>3, CdkInvariant, PTL DEF CdkSpec

(* With codes the ledger is still a wallet: redeeming one is a grant.      *)
THEOREM CdkImplementsWallet == CdkSpec => ImplementsWallet
  <1>1. CdkInit => Wallet!WalletInit
    BY DEF CdkInit, LedgerInit, Wallet!WalletInit, HeldFor, Pending
  <1>2. CdkInv /\ [CdkNext]_allVars => [Wallet!WalletNext]_(Wallet!walletVars)
    <2> SUFFICES ASSUME CdkInv, [CdkNext]_allVars
                 PROVE  [Wallet!WalletNext]_(Wallet!walletVars)
      OBVIOUS
    <2>1. IInv /\ CodesTypeOK BY DEF CdkInv
    <2>2. CASE LedgerStep BY <2>1, <2>2, LedgerStepIsLedgerNext, WalletStep
    <2>3. CASE UNCHANGED ledgerVars BY <2>1, <2>3, WalletStep
    <2>4. ASSUME NEW u \in Users, NEW c \in Cdks, RedeemCdk(u, c)
          PROVE  Wallet!WalletNext
      <3>1. /\ cdks[c] \in Cdk /\ c \in OtherRefs
            /\ Post(u, cdks[c].points, rows, "admin_adjust", "completed", c)
        BY <2>1, <2>4, RedeemPosts
      <3>2. cdks[c].points \in Int BY <3>1 DEF Cdk
      <3> QED BY <2>1, <3>1, <3>2, GrantStep
    <2> QED BY <2>1, <2>2, <2>3, <2>4, CdkStepShape
  <1> QED BY <1>1, <1>2, CdkInvariant, PTL DEF CdkSpec, ImplementsWallet, Wallet!WalletSpec

==============================================================================
