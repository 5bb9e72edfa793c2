---------------------------- MODULE CdkRedemption ----------------------------
(***************************************************************************)
(* Redeemable codes on top of the credit ledger: packages and CDKs of      *)
(* GatewayRepository (repository.py) and redeem_cdk of UserRepository      *)
(* (user_repository.py).  A CDK keeps the points its package had when the  *)
(* code was generated; a package with codes cannot be deleted (foreign key *)
(* of credit_cdks).  The reference of a redemption row is the code.        *)
(***************************************************************************)
EXTENDS CreditLedger

CONSTANTS
    Cdks,           \* the codes that may be generated
    Packages,
    PackagePoints,  \* the points an administrator gives a package
    AdminRef,       \* reference of the rows that are not a redemption
    NoCdk, NoPackage, NoUser

Package == [points : Nat \ {0}, enabled : BOOLEAN]
Cdk == [status : {"unused", "redeemed", "disabled"}, points : Nat \ {0},
        package : Packages, redeemedBy : Users \union {NoUser}]

(* The column reference_type tells a code from the key of a charge.        *)
ASSUME CdkAssumption ==
    /\ Cdks \union {AdminRef} = OtherRefs
    /\ AdminRef \notin Cdks
    /\ Refs \intersect Cdks = {}
    /\ NoCdk \notin Cdk /\ NoPackage \notin Package
    /\ PackagePoints \subseteq Nat \ {0}

VARIABLES
    packages,       \* credit_packages
    cdks            \* credit_cdks

cdkVars == <<packages, cdks>>
allVars == <<account, balance, rule, rows, packages, cdks>>

CdkTypeOK ==
    /\ LedgerTypeOK
    /\ packages \in [Packages -> Package \union {NoPackage}]
    /\ cdks \in [Cdks -> Cdk \union {NoCdk}]

CdkInit ==
    /\ LedgerInit
    /\ packages = [p \in Packages |-> NoPackage]
    /\ cdks = [c \in Cdks |-> NoCdk]

-----------------------------------------------------------------------------
CreatePackage(p, points, enabled) ==
    /\ packages[p] = NoPackage
    /\ packages' = [packages EXCEPT ![p] = [points |-> points, enabled |-> enabled]]
    /\ UNCHANGED <<ledgerVars, cdks>>

UpdatePackage(p, points, enabled) ==
    /\ packages[p] # NoPackage
    /\ packages' = [packages EXCEPT ![p] = [points |-> points, enabled |-> enabled]]
    /\ UNCHANGED <<ledgerVars, cdks>>

(* delete_credit_package: refused by the foreign key while a code of the   *)
(* package exists, in whatever status.                                     *)
DeletePackage(p) ==
    /\ packages[p] # NoPackage
    /\ \A c \in Cdks : cdks[c] # NoCdk => cdks[c].package # p
    /\ packages' = [packages EXCEPT ![p] = NoPackage]
    /\ UNCHANGED <<ledgerVars, cdks>>

(* generate_cdks: a batch of new codes at the package's present points.    *)
GenerateCdks(p, batch) ==
    /\ packages[p] # NoPackage
    /\ packages[p].enabled
    /\ batch # {} /\ \A c \in batch : cdks[c] = NoCdk
    /\ cdks' = [c \in Cdks |->
                   IF c \in batch
                   THEN [status |-> "unused", points |-> packages[p].points,
                         package |-> p, redeemedBy |-> NoUser]
                   ELSE cdks[c]]
    /\ UNCHANGED <<ledgerVars, packages>>

(* Mutant: disabling forgets the condition on the status.                  *)
DisableCdkAnyStatus(c) ==
    /\ cdks[c] # NoCdk
    /\ cdks' = [cdks EXCEPT ![c].status = "disabled"]
    /\ UNCHANGED <<ledgerVars, packages>>

(* disable_cdk touches unused codes only.                                  *)
DisableCdk(c) ==
    /\ cdks[c] # NoCdk /\ cdks[c].status = "unused"
    /\ cdks' = [cdks EXCEPT ![c].status = "disabled"]
    /\ UNCHANGED <<ledgerVars, packages>>

(* Mutant: the points are those the package has now.                       *)
RedeemCdkAtPackage(u, c) ==
    /\ account[u] = "active"
    /\ cdks[c] # NoCdk /\ cdks[c].status = "unused"
    /\ cdks' = [cdks EXCEPT ![c].status = "redeemed", ![c].redeemedBy = u]
    /\ Post(u, packages[cdks[c].package].points, rows, "admin_adjust", "completed", c)
    /\ UNCHANGED <<account, rule, packages>>

(* redeem_cdk: one transaction claims the code, credits the points it was  *)
(* generated with and records them under the code.                         *)
RedeemCdk(u, c) ==
    /\ account[u] = "active"
    /\ cdks[c] # NoCdk /\ cdks[c].status = "unused"
    /\ cdks' = [cdks EXCEPT ![c].status = "redeemed", ![c].redeemedBy = u]
    /\ Post(u, cdks[c].points, rows, "admin_adjust", "completed", c)
    /\ UNCHANGED <<account, rule, packages>>

(* The operations of the ledger itself; an administrator's rows never      *)
(* carry the reference of a code.                                          *)
LedgerStep ==
    /\ \/ \E c \in Costs, p \in Grants : UpdateCreditRule(c, p)
       \/ \E u \in Users, enabled \in BOOLEAN : SetUserEnabled(u, enabled)
       \/ \E u \in Users, p \in Grants \union {rule.initial} : CreateUser(u, p, AdminRef)
       \/ \E u \in Users, n \in Adjustments : Adjust(u, n, AdminRef)
       \/ Charge
    /\ UNCHANGED cdkVars

CdkNext ==
    \/ LedgerStep
    \/ \E p \in Packages, n \in PackagePoints, enabled \in BOOLEAN :
          CreatePackage(p, n, enabled) \/ UpdatePackage(p, n, enabled)
    \/ \E p \in Packages : DeletePackage(p) \/ \E batch \in SUBSET Cdks : GenerateCdks(p, batch)
    \/ \E c \in Cdks : DisableCdk(c) \/ \E u \in Users : RedeemCdk(u, c)

CdkSpec == CdkInit /\ [][CdkNext]_allVars

-----------------------------------------------------------------------------
(* The rows recorded under code c.                                         *)
RedemptionRows(c) == {i \in DOMAIN rows : rows[i].ref = c}

(* A code is worth its points exactly once: a redeemed code has one row,   *)
(* to the user it names, of the points it was generated with, whatever     *)
(* happened to its package since; any other code has none.                 *)
RedeemedOnce ==
    \A c \in Cdks :
        IF cdks[c] # NoCdk /\ cdks[c].status = "redeemed"
        THEN \E i \in DOMAIN rows :
                /\ RedemptionRows(c) = {i}
                /\ rows[i].user = cdks[c].redeemedBy
                /\ rows[i].amount = cdks[c].points
        ELSE RedemptionRows(c) = {}

(* A code that left "unused" is settled for good, its package stays, and   *)
(* nobody changes the points of a code.                                    *)
CdkSettled ==
    [][\A c \in Cdks : cdks[c] # NoCdk =>
          /\ cdks'[c] # NoCdk /\ cdks'[c].points = cdks[c].points
          /\ cdks[c].status # "unused" => cdks'[c] = cdks[c]
          /\ packages'[cdks[c].package] # NoPackage]_allVars

==============================================================================
