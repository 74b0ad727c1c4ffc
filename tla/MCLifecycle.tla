----------------------------- MODULE MCLifecycle -----------------------------
(* Values of MemxLifecycle's constants for TLC.                            *)
EXTENDS MemxLifecycle, TLC

CONSTANTS d1, d2, u1

Symmetry == Permutations(Devices)
=============================================================================
