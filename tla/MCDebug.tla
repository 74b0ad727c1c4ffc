------------------------------- MODULE MCDebug -------------------------------
(* Values of MemxDebug's constants for TLC.                                *)
EXTENDS MemxDebug

CONSTANTS d1, d2, d3, t1, t2, a1, a2

Kinds == [bus : {"pcie", "usb"}, type : {"sys", "proc"}]
Show(file) ==
  [file |-> file, how |-> "read", cmd |-> "other", chip |-> 0, val |-> "a", val2 |-> "a"]
Tell(file, cmd, c, v) ==
  [file |-> file, how |-> "store", cmd |-> cmd, chip |-> c, val |-> v, val2 |-> "7"]
Remotely(code, v)     == [Tell("cmd", "rmtcmd", 0, code) EXCEPT !.val2 = v]
Pair(ops1, ops2)      == [t \in Tasks |-> IF t = t1 THEN ops1 ELSE ops2]
There(kind, tasks, lines, moves) ==
  kind @@ [debug |-> TRUE, there |-> {d1}, comes |-> <<>>, tasks |-> tasks, lines |-> lines, moves |-> moves]

(* Each file by itself, each command.                                      *)
AllTells ==
  {Tell("cmd", cmd, 1, "5") : cmd \in Handled \cup {"msi", "other"}}
    \cup {Tell("i2ctrl", "other", 0, "5"), Tell("debug", "fwlog", 0, "5")}
    \cup {Tell("gpioctrl", cmd, 0, "5") : cmd \in {"r", "w"}}
    \cup {Tell("thermalthrottling", cmd, 0, "5") : cmd \in Throttles \cup {"other"}}
Singly == {There(k, Pair(<<a>>, <<>>), 1, 1) : k \in Kinds, a \in {Show(f) : f \in FileNames} \cup AllTells}

(* Two updates after each other and one beside them, or a command.         *)
Flash(v) == [Show("update_flash") EXCEPT !.val = v]
Updated ==
  {There(k, Pair(<<Flash("a"), Flash("b")>>, other), 0, 0) :
     k \in Kinds, other \in {<<>>, <<Flash("a")>>, <<Tell("cmd", "read", 0, "5")>>}}

(* Commands of two users.                                                  *)
Commands == {Tell("cmd", "read", 0, "5"), Tell("cmd", "write", 0, "6"), Remotely("8", "7"), Remotely("t", "Disable"), Tell("cmd", "memx", 0, "0")}
Throttle2 == {Tell("thermalthrottling", cmd, 0, "0") : cmd \in Throttles}
Commanded ==
  {There(k, Pair(<<a, b>>, <<c>>), 0, 0) :
     k \in Kinds, a \in Commands \cup Throttle2, b \in Commands \cup Throttle2, c \in Throttle2 \cup {Tell("cmd", "read", 0, "9")}}

(* The log and the counters.                                               *)
Dump == Tell("cmd", "fwlog", 0, "0")
Told ==
  {There(k, Pair(<<Dump, Dump>>, <<Dump>>), 5, 0) : k \in Kinds}
    \cup {There(k, Pair(<<Show("throughput"), Show("throughput")>>, <<Show("throughput")>>), 0, 3) : k \in Kinds}

(* Devices come and go, and a user reads or stores meanwhile.              *)
Churn(kind, there, comes, a) ==
  kind @@ [debug |-> FALSE, there |-> there, comes |-> comes, tasks |-> Pair(<<a>>, <<>>), lines |-> 0, moves |-> 0]
Used == {Show("verinfo"), Tell("cmd", "memx", 0, "0")}
Churned ==
  {Churn(k, {}, <<d1, d2>>, a) : k \in Kinds, a \in Used}
    \cup {Churn([bus |-> bus, type |-> "sys"], {d1}, <<d1, d2, d3>>, Show("verinfo")) : bus \in {"pcie", "usb"}}

Cases == Singly \cup Updated \cup Commanded \cup Told \cup Churned
=============================================================================
