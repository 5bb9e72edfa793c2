--------------------------- MODULE MCCdkRedemption ---------------------------
(* Two interchangeable users, one charge reference, one package and one    *)
(* code.  The rule starts at cost 1 with no initial points and may become  *)
(* cost 2 with two.  Five rows hold a grant, a charge, its refund, a       *)
(* second charge at the other price and a redemption.                      *)
EXTENDS CdkRedemption, TLC

CONSTANTS u1, u2, r1, c1, p1

MCUsers == {u1, u2}
MCRefs == {r1}
MCCdks == {c1}
MCOtherRefs == MCCdks \union {AdminRef}
MCPackages == {p1}
MCCosts == {2}
MCGrants == {2}
MCAdjustments == {-1}
MCPackagePoints == {1, 2}
MCSymmetry == Permutations(MCUsers)
==============================================================================
