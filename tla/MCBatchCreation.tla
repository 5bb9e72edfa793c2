--------------------------- MODULE MCBatchCreation ---------------------------
(* A batch of two, its repetition under the same prefix, and a single call *)
(* on the key of one item: five tasks, of which up to three meet on one    *)
(* key; two lock identities are as many as can be live at once.            *)
EXTENDS BatchCreation

CONSTANTS b1, b2, c1, p1, l1, l2

MCBatches == {b1, b2}
MCCallers == {c1}
MCTasks == (MCBatches \X (1 .. Count)) \union MCCallers
MCPrefixOf == [b \in MCBatches |-> p1]
MCKeys == {p1} \X (1 .. Count)
MCCallerKeys == {<<p1, 1>>}
MCLockIds == {l1, l2}
==============================================================================
