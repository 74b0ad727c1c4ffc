----------------------------- MODULE MCTransfer -----------------------------
(* Values of MemxTransfer's constants for TLC.  The threads are those of a *)
(* user-space driver: one or two that read results, one that submits       *)
(* inputs, and one that controls the device and now and then writes too.   *)
EXTENDS MemxTransfer

CONSTANTS r1, w1, m1, c1

ReadSide  == [t \in {r1, w1, m1} |-> CASE t = r1 -> {"read"}
                                       [] t = w1 -> {"read", "write"}
                                       [] t = m1 -> {"abort", "dummy", "setread"}]
WriteSide == [t \in {w1, m1} |-> IF t = w1 THEN {"write", "read"} ELSE {"write", "abort"}]
=============================================================================
