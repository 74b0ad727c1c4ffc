------------------------------- MODULE MCAdmin -------------------------------
(* Values of MemxAdmin's constants for TLC: a process that uses the feature*)
(* node, and another that downloads a DFP or reads a sysfs file.           *)
EXTENDS MemxAdmin

CONSTANTS t1, t2, c1, c2, c3

TypeAndMore == [t \in {t1, t2} |-> IF t = t1 THEN {"setType", "getType", "feature"}
                                            ELSE {"file", "download"}]
OneDownload == [t \in {t1} |-> {"download"}]
=============================================================================
