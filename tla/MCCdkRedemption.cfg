SPECIFICATION CdkSpec
CONSTANTS
    u1 = u1
    u2 = u2
    r1 = r1
    c1 = c1
    p1 = p1
    AdminRef = AdminRef
    NoCdk = NoCdk
    NoPackage = NoPackage
    NoUser = NoUser
    NoHold = NoHold
    MaxRows = 5
    Users <- MCUsers
    Refs <- MCRefs
    OtherRefs <- MCOtherRefs
    Cdks <- MCCdks
    Packages <- MCPackages
    Costs <- MCCosts
    Grants <- MCGrants
    Adjustments <- MCAdjustments
    PackagePoints <- MCPackagePoints
SYMMETRY MCSymmetry
INVARIANTS
    LedgerChained
    RedeemedOnce
    RefundsMatchReversals
PROPERTIES
    HistoryFrozen
    CdkSettled
    ImplementsWallet
