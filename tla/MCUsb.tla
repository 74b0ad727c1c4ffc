-------------------------------- MODULE MCUsb --------------------------------
(* Values of MemxUsb's constants for TLC: two threads and any commands, or*)
(* three and what may meet a read; commands and reads share no URB and no  *)
(* completion.                                                             *)
EXTENDS MemxUsb

CONSTANTS t1, t2, t3

Commands == DOMAIN Scripts \cup {"abort"}
Reading  == {"dummy", "abort", "read"}
Calls    == {[t \in {t1, t2, t3} |-> IF t = t3 THEN {} ELSE Commands],
             [t \in {t1, t2, t3} |-> Reading]}
=============================================================================
