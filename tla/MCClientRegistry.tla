--------------------------- MODULE MCClientRegistry ---------------------------
(* Two calls, or rounds of calls, on one instance whose configuration      *)
(* changes twice: one call replaces the client that the other one uses.    *)
EXTENDS ClientRegistry

CONSTANTS t1, t2, i1

MCTasks == {t1, t2}
MCInstances == {i1}
==============================================================================
