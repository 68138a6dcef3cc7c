----------------------------- MODULE NetModuleMC -----------------------------
(* Symmetries of the network module for TLC: addresses, sockets and threads    *)
(* are only compared.                                                       *)
EXTENDS NetModuleProperties, TLC

NetSymmetry == Permutations(Blocks) \cup Permutations(Sockets) \cup Permutations(Workers)
=============================================================================
