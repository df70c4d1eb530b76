--------------------------- MODULE MCTaskPipeline ---------------------------
(* Three hosts, all with the role, and two modules.  The first has two      *)
(* tasks of the role and may be repeated once, so that a slice captured by  *)
(* the module's Init outlives removals in several tasks; the second starts  *)
(* from the tables these removals have left.                                *)
EXTENDS TaskPipeline

CONSTANTS a, b, c, local

MCHost == {a, b, c}
MCAllHosts == <<a, b, c>>
MCModules == << <<"role", "role">>, <<"all", "local">> >>
=============================================================================
