--------------------------- MODULE MCTaskRollback ---------------------------
(* Four action results, one of a removed host, and a pool of two tokens, so *)
(* that workers wait for a token while the loop still adds.                 *)
EXTENDS TaskRollback

MCRemoved == {2}
=============================================================================
