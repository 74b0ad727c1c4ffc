------------------------------- MODULE MCXflow -------------------------------
(* Values of MemxXflow's constants for TLC.                                *)
EXTENDS MemxXflow, TLC

CONSTANTS t1, t2

Symmetry == Permutations(Threads)
=============================================================================
