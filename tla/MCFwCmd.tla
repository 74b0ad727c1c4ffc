------------------------------- MODULE MCFwCmd -------------------------------
(* Values of MemxFwCmd's constants for TLC: a device that is being probed  *)
(* while two processes already use its node, and a probed device with a    *)
(* single user.                                                            *)
EXTENDS MemxFwCmd

CONSTANTS d1, u1, u2, p1

OneDevice == [t \in {u1, u2, p1} |-> d1]
BusyJobs == [u \in {u1, u2} |-> IF u = u1 THEN {"config", "vendor"}
                                          ELSE {"abort", "poke"}]
SoloDev  == [t \in {u1} |-> d1]
SoloJobs == [u \in {u1} |-> {"config", "abort"}]
=============================================================================
