-------------------------- MODULE MCMailboxLifecycle --------------------------
EXTENDS MailboxLifecycle, TLC

CONSTANTS m1, m2, k1, r1, r2

MCMailboxes == {m1, m2}
MCKeys == {k1}
MCReaders == {r1, r2}
MCRetentionDays == {0, 1}
MCSymmetry == Permutations(MCMailboxes) \union Permutations(MCReaders)
===============================================================================
