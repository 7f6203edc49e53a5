--------------------------- MODULE MCMachineNodes ---------------------------
(* Small instances of MachineNodes. *)
EXTENDS MachineNodes, TLC
=============================================================================
