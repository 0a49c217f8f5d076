------------------------------- MODULE MCGc -------------------------------
(* Values for the constants of Gc.                                         *)
EXTENDS Gc

CONSTANTS t1, t2, t3

(* A table with a finalizer, one that may be weak, and one that is plain.  *)
MCTables == {t1, t2, t3}
MCBirths == {<<t1, "plain">>, <<t2, "final">>, <<t3, "weak">>, <<t3, "plain">>}
=============================================================================
