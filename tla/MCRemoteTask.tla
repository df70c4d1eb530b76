---------------------------- MODULE MCRemoteTask ----------------------------
(* Four hosts, one of them removed from the run, one token in the pool and *)
(* two tries, so that workers wait for a token, a retry happens and a slot  *)
(* is skipped; the task is parallel or not.                                 *)
EXTENDS RemoteTask

CONSTANTS a, b, c, d

MCHost == {a, b, c, d}
MCHostList == <<a, d, b, c>>
MCDeprecated == {d}
=============================================================================
