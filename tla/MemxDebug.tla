------------------------------ MODULE MemxDebug ------------------------------
(***************************************************************************)
(* The debug file systems of the two drivers: /sys/memxN or /proc/memxN    *)
(* with the files by which a user reads the state of the chips, has them   *)
(* carry out commands, reads their log and writes their flash              *)
(* (linux/pcie and linux/usb: memx_fs.c, memx_fs_sys.c, memx_fs_proc.c,    *)
(* memx_fw_log.c).                                                         *)
(*                                                                         *)
(* An operation on a file is a script: the steps of the function that      *)
(* serves it, between which anything else may happen, for nothing here but *)
(* the admin commands (MemxAdmin) and the USB transfers (MemxUsb) is done  *)
(* under a lock.  The kernel waits for the operations on a directory       *)
(* before it removes it.  The firmware is external.                        *)
(***************************************************************************)
EXTENDS Integers, FiniteSets, SequencesExt

CONSTANTS
  Devs,        (* devices; one that is plugged in again is another         *)
  Tasks,
  Addresses,   (* where directories' kernel objects may lie                *)
  Nobody,
  LogSize,     (* entries of the ring in which a chip logs                 *)
  Values,      (* what a user may write for a number; 0 as a command's     *)
               (* code, which is none, is left out                         *)
  Scenarios    (* the drivers, programs and devices in question            *)

(* A call: a file, whether it is read or stored, and the arguments of a    *)
(* store; of an update, the image.                                         *)
Usages    == {"cmd", "debug", "i2ctrl", "gpioctrl"}
Writable  == Usages \cup {"thermalthrottling"}
FileNames == Writable \cup {"update_flash", "verinfo", "utilization", "temperature", "frequency",
                           "throughput", "hitcount"}
Handled   == {"fwlog", "read", "write", "memx", "rmtcmd"}
Throttles == {"Enable", "Disable"}
Chips     == {0, 1}
Calls ==
  {a \in [file : FileNames, how : {"read", "store"}, chip : Chips, val : Values, val2 : Values,
          cmd : Handled \cup Throttles \cup {"msi", "r", "w", "other"}] :
     a.how = "store" => a.file \in Writable}

(* A scenario: the bus, the type of file system, whether the files for     *)
(* debugging are wanted; the device that is there when it begins, if any,  *)
(* and in order those that come and go; the calls each task makes; how     *)
(* many lines the firmware logs and how many half kilobytes the data path  *)
(* moves.  More devices that are there have come before.                   *)
ASSUME DebugAssumption ==
  /\ LogSize \in Nat \ {0, 1} /\ {"none", "any"} \cap Values = {}
  /\ Nobody \notin Devs \cup Addresses /\ IsFiniteSet(Devs) /\ Addresses # {}
  /\ \A m \in Scenarios :
       /\ m.bus \in {"pcie", "usb"} /\ m.type \in {"sys", "proc"} /\ m.debug \in BOOLEAN
       /\ m.there \subseteq Devs /\ Cardinality(m.there) <= 1 /\ m.comes \in Seq(Devs)
       /\ m.tasks \in [Tasks -> Seq(Calls)]
       /\ m.lines \in Nat /\ m.moves \in Nat

VARIABLES
  model,      (* the scenario                                              *)
  dir,        (* dir[d]: the directory of d, its number, its object and    *)
              (* how many files it has                                     *)
  index,      (* memx_dev->minor_index                                     *)
  map,        (* g_kobj_memx_dev_map                                       *)
  left,       (* left[t]: the operations t has still to begin              *)
  op,         (* the one begun last, and on which device                   *)
  todo,       (* what is left of its script                                *)
  found,      (* the device it works on                                    *)
  got,        (* what it has read                                          *)
  chips,      (* chips[d]: the mailboxes, the memory, the flash and the    *)
              (* log of its chips                                          *)
  disabled,   (* ThermalThrottlingDisable                                  *)
  counters,   (* tx_size and rx_size, in half kilobytes                    *)
  past        (* history                                                   *)

vars == <<model, dir, index, map, left, op, todo, found, got, chips, disabled, counters, past>>

-----------------------------------------------------------------------------
(* Scripts                                                                 *)

Whatever == "any"
Words == <<1, 2>>

Find  == [do |-> "find"]           (* the device, by the directory's object *)
Look  == [do |-> "look"]           (* a reading, or an admin command        *)
Maybe == [do |-> "maybe"]          (* what may end the operation            *)

(* The command mailbox of a chip, in host memory; the store of the command *)
(* and what parameters it is meant to have.  Over USB a transfer has both. *)
Mail(c, reg, v)         == [do |-> "mail", chip |-> c, reg |-> reg, val |-> v]
Code(code, p, p2)       == [code |-> code, param |-> p, param2 |-> p2]
Rest                    == Code("none", Whatever, Whatever)
Command(c, code, p, p2) == <<Mail(c, "commd", Code(code, p, p2))>>
Asked(c, code, p)       == <<Mail(c, "param", p)>> \o Command(c, code, p, Whatever)
Asked2(c, code, p, p2)  == <<Mail(c, "param", p), Mail(c, "param2", p2)>> \o Command(c, code, p, p2)
Send(c, code, p, p2)    == <<[do |-> "send", chip |-> c, val |-> Code(code, p, p2)]>>

Request    == [do |-> "request"]
Check      == [do |-> "check"]
Word(i)    == [do |-> "word", i |-> i]
Sram(r, v) == [do |-> "sram", reg |-> r, val |-> v]
Poll       == [do |-> "poll"]
Verdict    == [do |-> "verdict"]

Log(part)   == [do |-> "log", part |-> part]
Read(c)     == [do |-> "read", of |-> c]
Display       == [do |-> "print"]
Reset(c)    == [do |-> "reset", of |-> c]
Throttle(v) == [do |-> "throttle", val |-> v]

Image == [i \in DOMAIN Words |-> Word(Words[i])]

(* Wrong: the answer of the update before is left where the next is looked *)
(* for.                                                                    *)
OldAnswer == Image \o <<Sram("commd", "Q"), Poll, Verdict>>
(* The image goes to the chip's memory, then the command to program it.    *)
Programming == Image \o <<Sram("param", 0), Sram("commd", "Q"), Poll, Verdict>>

(* Wrong: the pointer is set to where the firmware writes by now.          *)
DumpToNow == <<Log("wp"), Log("rp"), Maybe, Log("copy"), Log("print"), Log("wp"), Log("done")>>
memx_fw_log_dump == <<Log("wp"), Log("rp"), Maybe, Log("copy"), Log("print"), Log("done")>>

(* Over USB the log is copied in one transfer, if that succeeds, and the   *)
(* pointer is moved in the copy.                                           *)
usb_fw_log_dump == <<Maybe, Log("all"), Log("print")>>

(* Every access goes through xflow: the vector is looked at, then used.    *)
memx_msi_trigger_handler == <<Maybe, Look, Look>>

(* Wrong: the command before its parameters.                               *)
CommandFirst(a) ==
  CASE a.cmd = "read"  -> Command(a.chip, "R", a.val, Whatever) \o <<Mail(a.chip, "param", a.val)>>
    [] a.cmd = "fwlog" -> memx_fw_log_dump
    [] OTHER           -> Command(a.chip, "memx", Whatever, Whatever)
(* rmtcmd's command is any word the user writes, throttling's code "t"     *)
(* and those of the other commands among them.                             *)
memx_fs_cmd_handler(a) ==
  CASE a.cmd = "fwlog"  -> memx_fw_log_dump
    [] a.cmd = "read"   -> Asked(a.chip, "R", a.val)
    [] a.cmd = "write"  -> Asked2(a.chip, "W", a.val, a.val2)
    [] a.cmd = "memx"   -> Command(a.chip, "memx", Whatever, Whatever)
    [] a.cmd = "rmtcmd" -> Asked(a.chip, a.val, a.val2)

usb_fs_cmd_handler(a) ==
  CASE a.cmd = "fwlog"  -> usb_fw_log_dump
    [] a.cmd = "read"   -> Send(a.chip, "R", a.val, Whatever)
    [] a.cmd = "write"  -> Send(a.chip, "W", a.val, a.val2)
    [] a.cmd = "memx"   -> Send(a.chip, "memx", Whatever, Whatever)
    [] a.cmd = "rmtcmd" -> Send(a.chip, a.val, a.val2, Whatever)

(* What is neither a command of the table nor has its number of arguments  *)
(* does nothing; the USB driver has no msi.                                *)
memx_fs_parse_cmd_and_exec(a) ==
  CASE a.cmd \in Handled -> memx_fs_cmd_handler(a)
    [] a.cmd = "msi"     -> memx_msi_trigger_handler
    [] OTHER             -> <<>>
usb_fs_parse_cmd_and_exec(a) == IF a.cmd \in Handled THEN usb_fs_cmd_handler(a) ELSE <<>>

(* Bytes for the I2C bus, handed over by an admin command, whose answer    *)
(* the USB driver reads in a second transfer.                              *)
memx_fs_parse_i2ctrl_and_exec == <<Maybe, Look>>
usb_fs_parse_i2ctrl_and_exec  == <<Maybe, Look, Look>>

(* "r" is kept for the reading of the file, "w" is carried out.            *)
memx_fs_parse_gpioctrl_and_exec(a) == IF a.cmd = "w" THEN <<Maybe, Look>> ELSE <<Maybe>>
usb_fs_parse_gpioctrl_and_exec(a)  == IF a.cmd = "w" THEN <<Maybe, Look>> ELSE <<Maybe>>

(* Two admin commands.                                                     *)
memx_fs_get_frequency(c) == <<Look, Look>>
usb_fs_get_frequency(c)  == <<Look, Look>>
Frequencies    == memx_fs_get_frequency(0) \o memx_fs_get_frequency(1)
UsbFrequencies == usb_fs_get_frequency(0) \o usb_fs_get_frequency(1)

(* Enable and Disable: every chip is told, then the driver notes it.       *)
Thermal(a)    == Asked(0, "t", a.cmd) \o Asked(1, "t", a.cmd) \o <<Throttle(a.cmd)>>
UsbThermal(a) == Send(0, "t", a.cmd, Whatever) \o Send(1, "t", a.cmd, Whatever) \o <<Throttle(a.cmd)>>

(* Wrong: rx_size is not reset.                                            *)
HalfReset == <<Read("tx"), Read("rx"), Display, Reset("tx")>>
(* The counters are read, printed and set to zero.                         *)
Throughput == <<Read("tx"), Read("rx"), Display, Reset("tx"), Reset("rx")>>

-----------------------------------------------------------------------------
(* The functions that serve the files of the PCIe driver in /sys.  Most    *)
(* find their device first.                                                *)
sys_usages(a) == IF a.file = "gpioctrl" THEN <<Find, Look>> ELSE <<>>
sys_update_flash == <<Find>> \o Asked2(0, "W", "qspi", "release") \o <<Request, Check>> \o Programming
sys_readings(a) == IF a.file = "verinfo" THEN <<Find, Look, Look>> ELSE <<Find, Look>>
sys_counters(a) ==
  CASE a.file = "temperature" -> <<Find, Look>>
    [] a.file = "thermalthrottling" -> <<Find>>
    [] a.file = "throughput" -> Throughput
    [] OTHER -> <<Find>> \o Frequencies
sys_stores(a) ==
  <<Find>> \o CASE a.file = "i2ctrl" -> memx_fs_parse_i2ctrl_and_exec
                [] a.file = "gpioctrl" -> memx_fs_parse_gpioctrl_and_exec(a)
                [] OTHER -> memx_fs_parse_cmd_and_exec(a)
sys_thermal_store(a) == <<Find>> \o (IF a.cmd \in Throttles THEN Thermal(a) ELSE <<>>)

sys_attrs(a) ==
  CASE a.how = "store" /\ a.file = "thermalthrottling" -> sys_thermal_store(a)
    [] a.how = "store" /\ a.file # "thermalthrottling" -> sys_stores(a)
    [] a.how = "read" /\ a.file \in Usages -> sys_usages(a)
    [] a.how = "read" /\ a.file = "update_flash" -> sys_update_flash
    [] a.how = "read" /\ a.file \in {"verinfo", "utilization"} -> sys_readings(a)
    [] a.how = "read" /\ a.file = "hitcount" -> <<>>
    [] OTHER -> sys_counters(a)

(* Those in /proc, whose files know their device.                          *)
proc_usages(a) == IF a.file = "gpioctrl" THEN <<Look>> ELSE <<>>
proc_qspi == <<Look, Request, Check>> \o Programming
proc_readings(a) ==
  CASE a.file = "thermalthrottling" -> <<>>
    [] a.file = "verinfo" -> <<Look, Look>>
    [] a.file \in {"utilization", "temperature"} -> <<Look>>
    [] a.file = "throughput" -> Throughput
    [] OTHER -> Frequencies
proc_writes(a) ==
  CASE a.file = "i2ctrl" -> memx_fs_parse_i2ctrl_and_exec
    [] a.file = "gpioctrl" -> memx_fs_parse_gpioctrl_and_exec(a)
    [] a.file = "thermalthrottling" -> IF a.cmd \in Throttles THEN Thermal(a) ELSE <<>>
    [] OTHER -> memx_fs_parse_cmd_and_exec(a)
proc_opens(a) ==
  CASE a.file \in Usages -> proc_usages(a)
    [] a.file = "update_flash" -> proc_qspi
    [] OTHER -> proc_readings(a)
proc_fops(a) == IF a.how = "read" THEN proc_opens(a) ELSE proc_writes(a)

(* Those of the USB driver.  It checks neither the image nor whether a     *)
(* word arrived.                                                           *)
UsbUpdate == Send(0, "W", "qspi", "release") \o <<Request>> \o Programming
usb_sys_usages(a) == IF a.file = "gpioctrl" THEN <<Find, Look>> ELSE <<>>
usb_sys_update_flash == <<Find>> \o UsbUpdate
usb_sys_readings(a) == IF a.file = "verinfo" THEN <<Find, Look, Look, Look, Look, Look>> ELSE <<Find, Look>>
usb_sys_counters(a) ==
  CASE a.file = "temperature" -> <<Find, Look>>
    [] a.file = "thermalthrottling" -> <<Find>>
    [] a.file = "throughput" -> Throughput
    [] OTHER -> <<Find>> \o UsbFrequencies
usb_sys_stores(a) ==
  <<Find>> \o CASE a.file = "i2ctrl" -> usb_fs_parse_i2ctrl_and_exec
                [] a.file = "gpioctrl" -> usb_fs_parse_gpioctrl_and_exec(a)
                [] OTHER -> usb_fs_parse_cmd_and_exec(a)
usb_sys_thermal_store(a) == <<Find>> \o (IF a.cmd \in Throttles THEN UsbThermal(a) ELSE <<>>)
usb_sys_attrs(a) ==
  CASE a.how = "store" /\ a.file = "thermalthrottling" -> usb_sys_thermal_store(a)
    [] a.how = "store" /\ a.file # "thermalthrottling" -> usb_sys_stores(a)
    [] a.how = "read" /\ a.file \in Usages -> usb_sys_usages(a)
    [] a.how = "read" /\ a.file = "update_flash" -> usb_sys_update_flash
    [] a.how = "read" /\ a.file \in {"verinfo", "utilization"} -> usb_sys_readings(a)
    [] OTHER -> usb_sys_counters(a)

usb_proc_usages(a) == IF a.file = "gpioctrl" THEN <<Look>> ELSE <<>>
usb_proc_qspi == UsbUpdate
usb_proc_readings(a) ==
  CASE a.file = "verinfo" -> <<Look, Look, Look, Look, Look>>
    [] a.file \in {"utilization", "temperature"} -> <<Look>>
    [] a.file = "thermalthrottling" -> <<>>
    [] a.file = "throughput" -> Throughput
    [] OTHER -> UsbFrequencies
usb_proc_writes(a) ==
  CASE a.file = "i2ctrl" -> usb_fs_parse_i2ctrl_and_exec
    [] a.file = "gpioctrl" -> usb_fs_parse_gpioctrl_and_exec(a)
    [] a.file = "thermalthrottling" -> IF a.cmd \in Throttles THEN UsbThermal(a) ELSE <<>>
    [] OTHER -> usb_fs_parse_cmd_and_exec(a)
usb_proc_opens(a) ==
  CASE a.file \in Usages -> usb_proc_usages(a)
    [] a.file = "update_flash" -> usb_proc_qspi
    [] OTHER -> usb_proc_readings(a)
usb_proc_fops(a) == IF a.how = "read" THEN usb_proc_opens(a) ELSE usb_proc_writes(a)

Script(a) ==
  CASE model.bus = "pcie" /\ model.type = "sys"  -> sys_attrs(a)
    [] model.bus = "pcie" /\ model.type = "proc" -> proc_fops(a)
    [] model.bus = "usb" /\ model.type = "sys"   -> usb_sys_attrs(a)
    [] model.bus = "usb" /\ model.type = "proc"  -> usb_proc_fops(a)

(* The files, in the order in which they are made.                         *)
sys_files(debug) ==
  <<"cmd">> \o (IF debug THEN <<"debug", "i2ctrl", "gpioctrl", "update_flash">> ELSE <<>>)
    \o <<"verinfo", "utilization", "temperature", "frequency">>
    \o (IF debug THEN <<"thermalthrottling", "throughput">> ELSE <<>>) \o <<"hitcount">>
usb_sys_files(debug) ==
  <<"cmd">> \o (IF debug THEN <<"debug", "i2ctrl", "gpioctrl", "update_flash">> ELSE <<>>)
    \o <<"verinfo", "utilization", "temperature", "frequency">>
    \o (IF debug THEN <<"thermalthrottling", "throughput">> ELSE <<>>)
proc_files(debug) ==
  <<"cmd">> \o (IF debug THEN <<"debug", "update_flash", "i2ctrl", "gpioctrl">> ELSE <<>>)
    \o <<"verinfo", "utilization", "temperature">>
    \o (IF debug THEN <<"thermalthrottling", "throughput", "frequency">> ELSE <<>>)
usb_proc_files(debug) ==
  <<"cmd">> \o (IF debug THEN <<"debug", "update_flash", "i2ctrl", "gpioctrl">> ELSE <<>>)
    \o <<"verinfo", "utilization", "temperature">>
    \o (IF debug THEN <<"thermalthrottling", "throughput", "frequency">> ELSE <<>>)
Files ==
  CASE model.bus = "pcie" /\ model.type = "sys"  -> sys_files(model.debug)
    [] model.bus = "pcie" /\ model.type = "proc" -> proc_files(model.debug)
    [] model.bus = "usb" /\ model.type = "sys"   -> usb_sys_files(model.debug)
    [] model.bus = "usb" /\ model.type = "proc"  -> usb_proc_files(model.debug)

-----------------------------------------------------------------------------
(* The initial state                                                       *)

Numbers == 0..Cardinality(Devs)
Blank   == [i \in Range(Words) |-> "blank"]
Chip0   ==
  [host |-> [c \in Chips |-> [param |-> Whatever, param2 |-> Whatever, commd |-> Rest]],
   throttling |-> [c \in Chips |-> "Enable"],
   memory |-> Blank, param |-> 0, commd |-> "none", busy |-> FALSE, burn |-> {}, flash |-> Blank,
   on |-> FALSE, wp |-> 0, rp |-> 0, ring |-> [i \in 0..LogSize - 1 |-> 0], lines |-> 0]
Unborn == [state |-> "unborn", number |-> 0, kobj |-> Nobody, files |-> 0]
Unread == [wp |-> 0, rp |-> 0, lines |-> <<>>, answer |-> 0, tx |-> 0, rx |-> 0]
Somewhere == CHOOSE a \in Addresses : TRUE

Init ==
  /\ model \in Scenarios
  /\ dir = [d \in Devs |-> IF d \in model.there
                           THEN [state |-> "up", number |-> 0, kobj |-> Somewhere, files |-> Len(Files)]
                           ELSE Unborn]
  /\ map = [n \in 0..7 |-> IF n = 0 /\ model.there # {}
                           THEN [kobj |-> Somewhere, dev |-> CHOOSE d \in model.there : TRUE]
                           ELSE [kobj |-> Nobody, dev |-> Nobody]]
  /\ index = [d \in Devs |-> 0]
  /\ left = model.tasks
  /\ op = [t \in Tasks |-> [dev |-> Nobody, call |-> "none"]]
  /\ todo = [t \in Tasks |-> <<>>]
  /\ found = [t \in Tasks |-> Nobody]
  /\ got = [t \in Tasks |-> Unread]
  /\ chips = [d \in Devs |-> [Chip0 EXCEPT !.on = d \in model.there]]
  /\ disabled = [d \in Devs |-> "Enable"]
  /\ counters = [c \in {"tx", "rx"} |-> 0]
  /\ past = [settled |-> model.there, whole |-> {}, clash |-> FALSE, remote |-> {}, botched |-> FALSE, alone |-> {},
             badpass |-> FALSE, twoDumps |-> FALSE, told |-> [d \in Devs |-> <<>>], blurred |-> FALSE,
             counted |-> counters, reported |-> counters, shows |-> 0]

taskVars   == <<left, op, todo, found, got>>
deviceVars == <<dir, index, map>>

-----------------------------------------------------------------------------
(* Directories come and go                                                 *)

Holding == {"inserted", "scanned", "making", "made", "up", "closing", "going"}
Shown   == {"making", "made", "up", "closing", "leaked"}    (* it has files *)
Exists(n) == \E d \in Devs : dir[d].state \in Shown /\ dir[d].number = n
Opens(n)  == \E d \in Devs : dir[d].state \in Shown /\ dir[d].number = n /\ dir[d].files > 0
LowestFree(taken) == Min(Numbers \ taken)
Within(d) == {t \in Tasks : todo[t] # <<>> /\ op[t].dev = d}

Comers == Range(model.comes)
Comes(d) ==
  /\ dir[d].state = "unborn"
  /\ \E i \in DOMAIN model.comes :
       model.comes[i] = d /\ \A j \in 1..i - 1 : dir[model.comes[j]].state # "unborn"
Turn(d, state) == dir' = [dir EXCEPT ![d].state = state]

(* The PCIe driver numbers its devices in a list of its own.               *)
Insert(d) ==
  /\ model.bus = "pcie" /\ Comes(d)
  /\ Turn(d, "inserted")
  /\ index' = [index EXCEPT ![d] = LowestFree({index[e] : e \in {f \in Devs : dir[f].state \in Holding}})]
  /\ UNCHANGED <<model, map, taskVars, chips, disabled, counters, past>>

(* The directory gets the lowest number under which no file cmd opens,     *)
(* which the USB driver takes for the device too.                          *)
Scan(d) ==
  /\ IF model.bus = "pcie" THEN dir[d].state = "inserted" ELSE Comes(d)
  /\ LET n == LowestFree({m \in Numbers : Opens(m)})
     IN  /\ dir' = [dir EXCEPT ![d].state = "scanned", ![d].number = n]
         /\ index' = IF model.bus = "usb" THEN [index EXCEPT ![d] = n] ELSE index
  /\ UNCHANGED <<model, map, taskVars, chips, disabled, counters, past>>

(* history: a directory is settled if the devices of all lower indexes are *)
(* up when it is made.                                                     *)
Settled(d) == \A i \in 0..index[d] - 1 : \E e \in Devs : dir[e].state = "up" /\ index[e] = i
MakeRoot(d) ==
  /\ dir[d].state = "scanned"
  /\ ~Exists(dir[d].number)
  /\ \E a \in Addresses \ {dir[e].kobj : e \in {f \in Devs : dir[f].state \in Shown}} :
       dir' = [dir EXCEPT ![d].state = "making", ![d].kobj = a]
  /\ past' = [past EXCEPT !.settled = IF Settled(d) THEN @ \cup {d} ELSE @]
  /\ UNCHANGED <<model, index, map, taskVars, chips, disabled, counters>>
RootFails(d) ==
  /\ dir[d].state = "scanned"
  /\ Turn(d, "failed")
  /\ UNCHANGED <<model, index, map, taskVars, chips, disabled, counters, past>>

AddFile(d) ==
  /\ dir[d].state = "making" /\ dir[d].files < Len(Files)
  /\ dir' = [dir EXCEPT ![d].files = @ + 1]
  /\ UNCHANGED <<model, index, map, taskVars, chips, disabled, counters, past>>

(* In /sys the directory stays, with the files it has.  In /proc all are   *)
(* removed, once nobody uses them.                                         *)
FileFails(d) ==
  /\ dir[d].state = "making" /\ dir[d].files < Len(Files)
  /\ IF model.type = "sys" THEN Turn(d, "leaked") ELSE Within(d) = {} /\ Turn(d, "failed")
  /\ UNCHANGED <<model, index, map, taskVars, chips, disabled, counters, past>>

(* Wrong: the first entry that is free.                                    *)
FirstEmpty(d) == Min({n \in DOMAIN map : map[n].kobj = Nobody})
(* Where a directory is entered: at the device's index.                    *)
Entry(d) == index[d]
Finish(d) ==
  /\ dir[d].state = "making" /\ dir[d].files = Len(Files)
  /\ map' = IF model.type = "sys" THEN [map EXCEPT ![Entry(d)] = [kobj |-> dir[d].kobj, dev |-> d]] ELSE map
  /\ Turn(d, IF model.bus = "pcie" THEN "made" ELSE "up")
  /\ UNCHANGED <<model, index, taskVars, chips, disabled, counters, past>>

(* Then the firmware is started, which may fail, and told where to log.    *)
memx_fw_log_init(d) ==
  /\ dir[d].state = "made"
  /\ Turn(d, "up")
  /\ chips' = [chips EXCEPT ![d].on = TRUE, ![d].wp = 0, ![d].rp = 0]
  /\ UNCHANGED <<model, index, map, taskVars, disabled, counters, past>>
memx_fw_log_deinit(d) ==
  /\ d \in Comers /\ model.bus = "pcie" /\ dir[d].state = "up"
  /\ Turn(d, "closing")
  /\ chips' = [chips EXCEPT ![d].on = FALSE, ![d].wp = 0, ![d].rp = 0]
  /\ UNCHANGED <<model, index, map, taskVars, disabled, counters, past>>

(* The directory goes when nobody is within; its object is free again and  *)
(* its entry stays.  The PCIe driver gives the index back later.           *)
memx_fs_deinit(d) ==
  /\ d \in Comers
  /\ dir[d].state \in IF model.bus = "pcie" THEN {"closing", "made"} ELSE {"up"}
  /\ Within(d) = {}
  /\ Turn(d, IF model.bus = "pcie" THEN "going" ELSE "gone")
  /\ UNCHANGED <<model, index, map, taskVars, chips, disabled, counters, past>>
memx_pcie_remove_device(d) ==
  /\ dir[d].state = "going"
  /\ Turn(d, "gone")
  /\ UNCHANGED <<model, index, map, taskVars, chips, disabled, counters, past>>

-----------------------------------------------------------------------------
(* Operations on files                                                     *)

Doing(t, what) == todo[t] # <<>> /\ Head(todo[t]).do = what
Now(t)     == Head(todo[t])
Advance(t) == todo' = [todo EXCEPT ![t] = Tail(@)]
Quit(t)    == todo' = [todo EXCEPT ![t] = <<>>]
Note(t, name, value) == got' = [got EXCEPT ![t][name] = value]
Others(t, files) == {u \in Tasks \ {t} : todo[u] # <<>> /\ op[u].call.file \in files}

Start(t) ==
  /\ todo[t] = <<>> /\ left[t] # <<>>
  /\ LET a == Head(left[t])
     IN  \E d \in Devs :
           /\ dir[d].state \in Shown /\ a.file \in Range(SubSeq(Files, 1, dir[d].files))
           /\ op' = [op EXCEPT ![t] = [dev |-> d, call |-> a]]
           /\ todo' = [todo EXCEPT ![t] = Script(a)]
           /\ found' = [found EXCEPT ![t] = IF model.type = "proc" THEN d ELSE Nobody]
  /\ left' = [left EXCEPT ![t] = Tail(@)]
  /\ got' = [got EXCEPT ![t] = Unread]
  /\ past' = [past EXCEPT !.whole = @ \ {t}, !.alone = @ \ {t}]
  /\ UNCHANGED <<model, deviceVars, chips, disabled, counters>>

(* The first entry with the directory's object.  Without one a store gives *)
(* up, a reading faults and never ends.                                    *)
Lookup(t) ==
  /\ Doing(t, "find")
  /\ LET d == op[t].dev
         at == {n \in DOMAIN map : map[n].kobj = dir[d].kobj}
     IN  /\ found' = [found EXCEPT ![t] = IF at = {} THEN Nobody ELSE map[Min(at)].dev]
         /\ IF at # {} THEN Advance(t)
            ELSE todo' = [todo EXCEPT ![t] = IF op[t].call.how = "store" THEN <<>> ELSE <<[do |-> "fault"]>>]
         /\ past' = [past EXCEPT !.whole = IF /\ dir[d].state \in {"made", "up", "closing"}
                                              /\ d \in past.settled /\ index[d] \in DOMAIN map
                                           THEN @ \cup {t} ELSE @]
  /\ UNCHANGED <<model, deviceVars, left, op, got, chips, disabled, counters>>

(* A reading of the device, or an admin command, or memory allocated; what *)
(* was read is printed, if anything was.                                   *)
Looks(t) ==
  /\ Doing(t, "look") \/ Doing(t, "maybe")
  /\ Advance(t) \/ (Doing(t, "maybe") /\ Quit(t))
  /\ UNCHANGED <<model, deviceVars, left, op, found, got, chips, disabled, counters, past>>

-----------------------------------------------------------------------------
(* Commands.  history: a clash is a word of a command's written while      *)
(* another command for the chip is being written or waits; remote are the  *)
(* devices whose throttling was last commanded by rmtcmd, which the driver *)
(* does not note.                                                          *)

Mailing == Writable \cup {"update_flash"}
Clash(t, c) == Others(t, Mailing) # {} \/ chips[found[t]].host[c].commd # Rest
Tells(t)  == Now(t).do = "send" \/ (Now(t).do = "mail" /\ Now(t).reg = "commd")
Remote(t) ==
  IF Tells(t) /\ Now(t).val.code = "t" /\ op[t].call.file # "thermalthrottling" THEN {found[t]} ELSE {}

MailWord(t) ==
  /\ Doing(t, "mail")
  /\ LET s == Now(t)
     IN  /\ chips' = [chips EXCEPT ![found[t]].host[s.chip][s.reg] = s.val]
         /\ past' = [past EXCEPT !.clash = @ \/ Clash(t, s.chip), !.remote = @ \cup Remote(t)]
  /\ Advance(t)
  /\ UNCHANGED <<model, deviceVars, left, op, found, got, disabled, counters>>

Does(d, c, code, param) ==
  IF code = "t" /\ param \in Throttles THEN [chips EXCEPT ![d].throttling[c] = param] ELSE chips

(* Over USB the chip has the command with its parameters at once, or never *)
(* gets it, and no caller looks which.                                     *)
memx_send_memxcmd(t) ==
  /\ Doing(t, "send")
  /\ LET s == Now(t)
     IN  \/ /\ chips' = Does(found[t], s.chip, s.val.code, s.val.param)
            /\ past' = [past EXCEPT !.clash = @ \/ Clash(t, s.chip), !.remote = @ \cup Remote(t)]
         \/ UNCHANGED chips /\ past' = [past EXCEPT !.clash = TRUE]
  /\ Advance(t)
  /\ UNCHANGED <<model, deviceVars, left, op, found, got, disabled, counters>>

SetThrottle(t) ==
  /\ Doing(t, "throttle")
  /\ disabled' = [disabled EXCEPT ![found[t]] = Now(t).val]
  /\ past' = [past EXCEPT !.remote = @ \ {found[t]}]
  /\ Advance(t)
  /\ UNCHANGED <<model, deviceVars, left, op, found, got, chips, counters>>

(* The firmware finds a command and takes the parameters that are there.   *)
FwTake(d, c) ==
  /\ LET h == chips[d].host[c]
     IN  /\ h.commd # Rest
         /\ chips' = [Does(d, c, h.commd.code, h.param) EXCEPT ![d].host[c].commd = Rest]
         /\ past' = [past EXCEPT !.botched = @ \/ (/\ ~past.clash
                                                    /\ \/ h.commd.param \notin {Whatever, h.param}
                                                       \/ h.commd.param2 \notin {Whatever, h.param2})]
  /\ UNCHANGED <<model, deviceVars, taskVars, disabled, counters>>

-----------------------------------------------------------------------------
(* The flash.  The image is that of the operation; history: an update is   *)
(* alone from its first word on if the chip was at rest, no other writes   *)
(* and nothing is lost.                                                    *)

Updates(t) == Others(t, {"update_flash"})
Undisturbed(t) ==
  LET rest == Updates(t) = {} /\ ~chips[found[t]].busy /\ chips[found[t]].commd = "none"
  IN  IF Now(t) = Word(1) /\ rest THEN {t} ELSE past.alone \cap {t}

FirmwareFile(t) ==
  /\ Doing(t, "request") \/ Doing(t, "check")
  /\ Advance(t) \/ Quit(t)
  /\ UNCHANGED <<model, deviceVars, left, op, found, got, chips, disabled, counters, past>>

memx_sram_write(t) ==
  /\ Doing(t, "word") \/ Doing(t, "sram")
  /\ LET d == found[t]
     IN  chips' = IF Doing(t, "word") THEN [chips EXCEPT ![d].memory[Now(t).i] = op[t].call.val]
                                      ELSE [chips EXCEPT ![d][Now(t).reg] = Now(t).val]
  /\ past' = [past EXCEPT !.alone = Undisturbed(t)]
  /\ Advance(t)
  /\ UNCHANGED <<model, deviceVars, left, op, found, got, disabled, counters>>
WriteLost(t) ==
  /\ model.bus = "usb"
  /\ Doing(t, "word") \/ Doing(t, "sram")
  /\ past' = [past EXCEPT !.alone = {}]
  /\ Advance(t)
  /\ UNCHANGED <<model, deviceVars, left, op, found, got, chips, disabled, counters>>

PollAnswer(t) ==
  /\ Doing(t, "poll")
  /\ chips[found[t]].param # 0
  /\ Note(t, "answer", chips[found[t]].param)
  /\ Advance(t)
  /\ UNCHANGED <<model, deviceVars, left, op, found, chips, disabled, counters, past>>
PollFails(t) ==
  /\ Doing(t, "poll")
  /\ model.bus = "usb" \/ chips[found[t]].param = 0
  /\ Quit(t)
  /\ UNCHANGED <<model, deviceVars, left, op, found, got, chips, disabled, counters, past>>

(* PASS or FAILED.  The PCIe driver reads the answer once more.            *)
Report(t) ==
  /\ Doing(t, "verdict")
  /\ LET pass == (IF model.bus = "pcie" THEN chips[found[t]].param ELSE got[t].answer) = 1
     IN  past' = [past EXCEPT !.badpass = @ \/ (/\ pass /\ t \in past.alone
                                                /\ \E i \in Range(Words) : chips[found[t]].flash[i] # op[t].call.val)]
  /\ Advance(t)
  /\ UNCHANGED <<model, deviceVars, left, op, found, got, chips, disabled, counters>>

FwBurn(d) ==
  /\ chips[d].commd = "Q" /\ ~chips[d].busy
  /\ chips' = [chips EXCEPT ![d].commd = "none", ![d].busy = TRUE, ![d].burn = Range(Words)]
  /\ UNCHANGED <<model, deviceVars, taskVars, disabled, counters, past>>
FwWord(d, i) ==
  /\ i \in chips[d].burn
  /\ chips' = [chips EXCEPT ![d].flash[i] = chips[d].memory[i], ![d].burn = @ \ {i}]
  /\ UNCHANGED <<model, deviceVars, taskVars, disabled, counters, past>>
FwAnswer(d) ==
  /\ chips[d].busy
  /\ \E answer \in (IF chips[d].burn = {} THEN {1} ELSE {}) \cup {2} :
       chips' = [chips EXCEPT ![d].busy = FALSE, ![d].burn = {}, ![d].param = answer]
  /\ UNCHANGED <<model, deviceVars, taskVars, disabled, counters, past>>

-----------------------------------------------------------------------------
(* The log of a chip, a ring the firmware writes where the reader is not.  *)

FwLog(d) ==
  /\ chips[d].on /\ chips[d].lines < model.lines
  /\ (chips[d].wp + 1) % LogSize # chips[d].rp
  /\ chips' = [chips EXCEPT ![d].lines = @ + 1, ![d].ring[chips[d].wp] = chips[d].lines + 1,
                            ![d].wp = (@ + 1) % LogSize]
  /\ UNCHANGED <<model, deviceVars, taskVars, disabled, counters, past>>

Lines(d, rp, wp) == [k \in 1..(wp - rp) % LogSize |-> chips[d].ring[(rp + k - 1) % LogSize]]
LogRead(t) ==
  /\ Doing(t, "log") /\ Now(t).part \in {"wp", "rp", "copy", "all"}
  /\ LET k == chips[found[t]]
     IN  CASE Now(t).part \in {"wp", "rp"} -> Note(t, Now(t).part, k[Now(t).part])
           [] Now(t).part = "copy" -> Note(t, "lines", Lines(found[t], got[t].rp, got[t].wp))
           [] Now(t).part = "all"  -> Note(t, "lines", Lines(found[t], k.rp, k.wp))
  /\ past' = [past EXCEPT !.twoDumps = @ \/ Others(t, {"cmd", "debug"}) # {}]
  /\ Advance(t)
  /\ UNCHANGED <<model, deviceVars, left, op, found, chips, disabled, counters>>
LogPrint(t) ==
  /\ Doing(t, "log") /\ Now(t).part = "print"
  /\ past' = [past EXCEPT !.told[found[t]] = @ \o got[t].lines]
  /\ Advance(t)
  /\ UNCHANGED <<model, deviceVars, left, op, found, got, chips, disabled, counters>>
LogDone(t) ==
  /\ Doing(t, "log") /\ Now(t).part = "done"
  /\ chips' = [chips EXCEPT ![found[t]].rp = got[t].wp]
  /\ Advance(t)
  /\ UNCHANGED <<model, deviceVars, left, op, found, got, disabled, counters, past>>

-----------------------------------------------------------------------------
(* The throughput, which the data path counts for all devices.  history:   *)
(* what was counted and shown, in half and in whole kilobytes; blurred if  *)
(* a count or another showing falls into a showing.                        *)

Showing == {t \in Tasks : todo[t] # <<>> /\ op[t].call.file = "throughput"}

THROUGHPUT_ADD(c) ==
  /\ past.counted[c] < model.moves
  /\ counters' = [counters EXCEPT ![c] = @ + 1]
  /\ past' = [past EXCEPT !.counted[c] = @ + 1, !.blurred = @ \/ Showing # {}]
  /\ UNCHANGED <<model, deviceVars, taskVars, chips, disabled>>
ReadCounter(t) ==
  /\ Doing(t, "read")
  /\ Note(t, Now(t).of, counters[Now(t).of] \div 2)
  /\ past' = [past EXCEPT !.blurred = @ \/ Showing # {t}]
  /\ Advance(t)
  /\ UNCHANGED <<model, deviceVars, left, op, found, chips, disabled, counters>>
PrintCounters(t) ==
  /\ Doing(t, "print")
  /\ past' = [past EXCEPT !.reported = [c \in DOMAIN @ |-> @[c] + got[t][c]], !.shows = @ + 1]
  /\ Advance(t)
  /\ UNCHANGED <<model, deviceVars, left, op, found, got, chips, disabled, counters>>
ResetCounter(t) ==
  /\ Doing(t, "reset")
  /\ counters' = [counters EXCEPT ![Now(t).of] = 0]
  /\ Advance(t)
  /\ UNCHANGED <<model, deviceVars, left, op, found, got, chips, disabled, past>>

-----------------------------------------------------------------------------
Directory(d) ==
  \/ Insert(d) \/ Scan(d) \/ MakeRoot(d) \/ RootFails(d) \/ AddFile(d) \/ FileFails(d) \/ Finish(d)
  \/ memx_fw_log_init(d) \/ memx_fw_log_deinit(d) \/ memx_fs_deinit(d) \/ memx_pcie_remove_device(d)
Operation(t) ==
  \/ Start(t) \/ Lookup(t) \/ Looks(t)
  \/ MailWord(t) \/ memx_send_memxcmd(t) \/ SetThrottle(t)
  \/ FirmwareFile(t) \/ memx_sram_write(t) \/ WriteLost(t) \/ PollAnswer(t) \/ PollFails(t) \/ Report(t)
  \/ LogRead(t) \/ LogPrint(t) \/ LogDone(t)
  \/ ReadCounter(t) \/ PrintCounters(t) \/ ResetCounter(t)
Firmware(d) ==
  \/ \E c \in Chips : FwTake(d, c)
  \/ FwBurn(d) \/ FwAnswer(d) \/ FwLog(d)
  \/ \E i \in Range(Words) : FwWord(d, i)
Next ==
  \/ \E d \in Devs : Directory(d) \/ Firmware(d)
  \/ \E t \in Tasks : Operation(t)
  \/ \E c \in {"tx", "rx"} : THROUGHPUT_ADD(c)

Spec == Init /\ [][Next]_vars

-----------------------------------------------------------------------------
(* Types                                                                   *)

Params       == Values \cup Throttles \cup {"qspi", "release", Whatever}
Codes        == Values \cup {"none", "R", "W", "memx", "t"}
CommandWords == [code : Codes, param : Params, param2 : Params]
Content      == [Range(Words) -> Values \cup {"blank"}]
Counts       == [{"tx", "rx"} -> Nat]

Steps ==
  [do : {"find", "look", "maybe", "request", "check", "poll", "verdict", "print", "fault"}]
    \cup [do : {"mail"}, chip : Chips, reg : {"param", "param2"}, val : Params]
    \cup [do : {"mail"}, chip : Chips, reg : {"commd"}, val : CommandWords]
    \cup [do : {"send"}, chip : Chips, val : CommandWords]
    \cup [do : {"word"}, i : Range(Words)]
    \cup [do : {"sram"}, reg : {"param"}, val : {0}] \cup [do : {"sram"}, reg : {"commd"}, val : {"Q"}]
    \cup [do : {"log"}, part : {"wp", "rp", "copy", "all", "print", "done"}]
    \cup [do : {"read", "reset"}, of : {"tx", "rx"}]
    \cup [do : {"throttle"}, val : Throttles]

DirStates == {"unborn", "gone", "failed", "leaked"} \cup Holding
DirRecords == [state : DirStates, number : Numbers, kobj : Addresses \cup {Nobody}, files : Nat]
DirTypeOK ==
  /\ dir \in [Devs -> DirRecords]
  /\ index \in [Devs -> Numbers]
  /\ map \in [0..7 -> [kobj : Addresses \cup {Nobody}, dev : Devs \cup {Nobody}]]

Readings ==
  [wp : 0..LogSize - 1, rp : 0..LogSize - 1, lines : Seq(Nat), answer : 0..2, tx : Nat, rx : Nat]
TaskTypeOK ==
  /\ left \in [Tasks -> Seq(Calls)]
  /\ DOMAIN op = Tasks
  /\ \A t \in Tasks : todo[t] # <<>> => op[t] \in [dev : Devs, call : Calls]
  /\ todo \in [Tasks -> Seq(Steps)]
  /\ found \in [Tasks -> Devs \cup {Nobody}]
  /\ got \in [Tasks -> Readings]

Mailboxes == [param : Params, param2 : Params, commd : CommandWords]
ChipRecords ==
  [host : [Chips -> Mailboxes], throttling : [Chips -> Throttles], memory : Content, flash : Content,
   param : 0..2, commd : {"none", "Q"}, busy : BOOLEAN, burn : SUBSET Range(Words),
   on : BOOLEAN, wp : 0..LogSize - 1, rp : 0..LogSize - 1, ring : [0..LogSize - 1 -> Nat], lines : Nat]
ChipTypeOK == chips \in [Devs -> ChipRecords]

Histories ==
  [settled : SUBSET Devs, whole : SUBSET Tasks, clash : BOOLEAN, remote : SUBSET Devs, botched : BOOLEAN,
   alone : SUBSET Tasks, badpass : BOOLEAN, twoDumps : BOOLEAN, told : [Devs -> Seq(Nat)],
   blurred : BOOLEAN, counted : Counts, reported : Counts, shows : Nat]

(* Scripts consist of these steps, and every table, mailbox, flash, log    *)
(* and counter holds only what can be written into it.                     *)
TypeOK ==
  /\ model \in Scenarios
  /\ DirTypeOK /\ TaskTypeOK /\ ChipTypeOK /\ past \in Histories
  /\ disabled \in [Devs -> Throttles] /\ counters \in Counts

-----------------------------------------------------------------------------
(* The file of a finished directory leads to the directory's own device,   *)
(* however many came and went before and wherever their objects lay, if    *)
(* the devices of all lower indexes were up when it was made, and its own  *)
(* is one of the table's.  (Otherwise a lower entry may still name the     *)
(* object, for a device that is gone.)                                     *)
OwnDevice == \A t \in past.whole : found[t] = op[t].dev

(* Who works on d, by whichever directory.                                 *)
Working(d) == {t \in Tasks : todo[t] # <<>> /\ found[t] = d}

(* A chip carries a command out with the parameters that were meant,       *)
(* unless two commands for it clashed.                                     *)
CommandsWhole == ~past.botched
(* PASS is printed only if the flash holds the image, for an update that   *)
(* nothing disturbed.                                                      *)
FlashIsImage == ~past.badpass
(* When all is at rest and no command clashed or was lost, the driver says *)
(* of thermal throttling what all chips do, unless a user commanded one by *)
(* rmtcmd since the last store to thermalthrottling: rmtcmd carries        *)
(* throttling's code like any other and leaves ThermalThrottlingDisable as *)
(* it is.                                                                  *)
ThrottleAgrees ==
  \A d \in Devs :
    Working(d) = {} /\ ~past.clash /\ d \notin past.remote /\ (\A c \in Chips : chips[d].host[c].commd = Rest) =>
      \A c \in Chips : chips[d].throttling[c] = disabled[d]
(* What a user asks by the file of a device is done by that device and as  *)
(* it was asked, or is not reported as done.                               *)
DoneAsAsked == OwnDevice /\ CommandsWhole /\ FlashIsImage /\ ThrottleAgrees

(* Every line of a chip's log is printed once and in order, and is not     *)
(* freed for the firmware before, if one dump follows another.  (Over USB  *)
(* the pointer is never given back, and every dump prints all again.)      *)
LogTold ==
  model.bus = "pcie" /\ ~past.twoDumps =>
    \A d \in Devs : chips[d].on =>
      /\ past.told[d] = [i \in 1..Len(past.told[d]) |-> i]
      /\ Working(d) = {} => chips[d].rp = Len(past.told[d]) % LogSize
(* What the counters lost to showings is at most the odd half kilobyte of  *)
(* each showing, if the data path pauses for it.                           *)
BytesTold ==
  ~past.blurred /\ Showing = {} =>
    \A c \in DOMAIN counters :
      past.counted[c] - counters[c] - 2 * past.reported[c] \in 0..past.shows
(* What a user is told, he is told once.                                   *)
ToldOnce == LogTold /\ BytesTold
=============================================================================
