--------------------------- MODULE MCFileStorage ---------------------------
(* An instance of FileStorage: a kk process that finds the namespace and    *)
(* its watcher set up and makes one call after another, or finds nothing    *)
(* set up and makes concurrent calls.                                       *)
EXTENDS FileStorage

MCProcesses == {"run"}
MCClients == {"c1", "c2"}
MCHome == [c \in Clients |-> "run"]
MCNames == {"a"}
MCSettings == {[dir |-> TRUE, started |-> TRUE, callers |-> {"c1"}],
               [dir |-> FALSE, started |-> FALSE, callers |-> Clients]}
=============================================================================
