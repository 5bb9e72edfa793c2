-------------------------- MODULE MCMailboxCreation --------------------------
EXTENDS MailboxCreation, TLC

CONSTANTS u1, k1, t1, t2, d1, d2, i1, i2

MCUsers == {u1}
MCKeys == {k1}
MCNoKeys == {}
MCIdRefs == {<<"mbx", n>> : n \in 1..MaxIds}
MCTasks == {t1, t2}
MCDomains == {d1, d2}
MCInstances == {i1}
MCTwoInstances == {i1, i2}
MCRefs == (MCUsers \X MCKeys) \union {<<"mbx", n>> : n \in 1..MaxIds}
MCOtherRefs == {<<"admin", 0>>}
MCRequests == {[strict |-> FALSE, wanted |-> {d1, d2}], [strict |-> TRUE, wanted |-> {d1}]}
MCOneTask == {t1}
MCAnyRequest == {[strict |-> FALSE, wanted |-> {d1, d2}]}
MCStrictRequest == {[strict |-> TRUE, wanted |-> {d1}]}
(* Domain d1 has failed once before, or not.                               *)
MCEarlier == {[d \in MCDomains |-> IF d = d1 THEN n ELSE 0] : n \in 0..1}
MCNoneEarlier == {[d \in MCDomains |-> 0]}
MCCosts == {2}
MCGrants == {3}
MCAdjustments == {}
MCSymmetry == Permutations(MCTasks)
==============================================================================
