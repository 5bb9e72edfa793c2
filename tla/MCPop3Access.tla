----------------------------- MODULE MCPop3Access -----------------------------
EXTENDS Pop3Access, TLC

CONSTANTS m1, m2, k1, u1, c1, c2, c3

MCMailboxes == {m1, m2}
MCKeys == {k1}
MCReaders == {}
MCUsers == {u1}
MCConns == {c1, c2, c3}
MCOwner == [m \in MCMailboxes |-> u1]
MCRetentionDays == {1}
MCSymmetry == Permutations(MCConns) \union Permutations(MCMailboxes)
===============================================================================
