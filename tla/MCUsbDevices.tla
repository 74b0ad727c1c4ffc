----------------------------- MODULE MCUsbDevices -----------------------------
(* Values of MemxUsbDevices' constants for TLC.                            *)
EXTENDS MemxUsbDevices, TLC

CONSTANTS i1, i2, u1, u2

Symmetry == Permutations(Interfaces) \cup Permutations(Users)
=============================================================================
