--------------------------- MODULE MCInstancePool ---------------------------
(* An instance of InstancePool: KKMachines that compete for few hosts.      *)
EXTENDS InstancePool, SequencesExt

CONSTANTS m1, m2, h1, h2

MCMachines == {m1, m2}
MCHosts == {h1, h2}
MCRemovable == {m1}
MCLags == {{}, {"kkmachine"}, {"kkinstance"}}

(* Every KKMachine has the roles of every host. *)
MCCandidates == [m \in Machines |-> SetToSeq(Hosts)]
=============================================================================
