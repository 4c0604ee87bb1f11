--------------------------- MODULE MCTaskResearch ---------------------------
(* The instance of TaskResearch for TLC. *)
EXTENDS TaskResearch

CONSTANTS t1, p1, p2

OneTask == {t1}
TwoPasses == {p1, p2}
=============================================================================
