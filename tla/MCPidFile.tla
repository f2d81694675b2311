----------------------------- MODULE MCPidFile -----------------------------
(* An instance of PidFile for TLC. *)
EXTENDS PidFile, TLC

MCSymmetry == Permutations(Processes)
=============================================================================
