---------------------------- MODULE MemxLifecycle ----------------------------
(***************************************************************************)
(* How the PCIe driver gains and loses its devices                         *)
(* (kdriver/linux/pcie/memx_cascade_pciemain.c, memx_msix_irq.c,           *)
(* memx_pcie_dev_list_ctrl.c): probe and its error labels, remove, suspend *)
(* and resume, against processes that open the node and call the device.   *)
(*                                                                         *)
(* Each is a script of steps that those of other devices and processes     *)
(* interleave with; when a step of probe fails, the statements from its    *)
(* error label on replace the rest.                                        *)
(***************************************************************************)
EXTENDS Naturals, FiniteSets, Sequences, SequencesExt, FiniteSetsExt, Functions

CONSTANTS
  Devices,   (* PCI functions with the driver's id                         *)
  Others,    (* devices that stay bound, each by the minor it has          *)
  Minors,    (* bound of the minors                                        *)
  Users,     (* processes                                                  *)
  Vectors,   (* MEMRYX_MAX_MSIX_NUMBER                                     *)
  Free       (* a semaphore that nobody holds, a process without a device  *)

ASSUME LifecycleAssumption ==
  /\ Minors \subseteq Nat /\ 0 \in Minors
  /\ Others \subseteq Minors /\ IsFiniteSet(Others) /\ Others \cap Devices = {}
  /\ Vectors \in Nat \ {0, 1}
  /\ Free \notin Users \cup Devices /\ Users \cap Devices = {}

Kinds == {"char", "feature"}

Acquisitions == <<"mem", "enable", "pages", "regions", "fifo">>
ProbeScript  == <<"acquire", "bars", "insert", "char", "feature", "fs", "msix", "firmware">>
UndoScript   == <<"fsDeinit", "unnode", "uncdev", "fifoFree", "delist", "unmap", "freePages",
                  "disable", "devres">>
(* Wrong: the fifo is freed under the interrupt handlers.                  *)
FifoFirst == <<"down", "fsDeinit", "delist", "unnode", "uncdev", "fifoFree", "deinitMsix",
               "clear", "unmap", "freePages", "disable", "up", "devres">>
RemoveScript == <<"down", "fsDeinit", "delist", "unnode", "uncdev", "deinitMsix", "fifoFree",
                  "clear", "unmap", "freePages", "disable", "up", "devres">>

(* Wrong: a failure of memx_firmware_init goes to err_dev_init.             *)
LabelBeyondFs ==
  [mem |-> "devres", enable |-> "devres", pages |-> "disable", regions |-> "freePages",
   fifo |-> "unmap", bars |-> "unmap", char |-> "unnode", feature |-> "unnode",
   fs |-> "unnode", msix |-> "unnode", request |-> "unnode", firmware |-> "unnode"]

(* The first statement after the error label that a failed step jumps to.  *)
Label ==
  [mem |-> "devres", enable |-> "devres", pages |-> "disable", regions |-> "freePages",
   fifo |-> "unmap", bars |-> "unmap", char |-> "unnode", feature |-> "unnode",
   fs |-> "unnode", msix |-> "fsDeinit", request |-> "fsDeinit", firmware |-> "fsDeinit"]

(* What a step gives back.                                                 *)
Releases ==
  [fsDeinit |-> "fs", fifoFree |-> "fifo", clear |-> "pDev", unmap |-> "regions",
   freePages |-> "pages", disable |-> "enable"]

VARIABLES
  proc, script,    (* what the PCI core has the driver do with a device    *)
  held,            (* what the device's memx_dev holds                     *)
  excused,         (* history: resources a failed probe left behind        *)
  list, minor,     (* g_memx_pcie_device_list and each minor_index         *)
  nodes, cdevs,    (* the nodes in /dev; whose cdev has a number, the      *)
                   (* latest first                                         *)
  contested,       (* history: minors given again before a removal was     *)
                   (* through with them                                    *)
  vectors,         (* int_info: the interrupt vectors allocated,           *)
  registered,      (* those with a handler,                                *)
  init_done,       (* and whether the initialisation succeeded             *)
  power,           (* power_state                                          *)
  phase, pending,  (* the system's sleep, the devices yet to be told       *)
  mutex,           (* memx_dev->mutex                                      *)
  upc, uref        (* where a process is, the memx_dev it refers to        *)

deviceVars == <<proc, script, held, excused>>
nameVars   == <<list, minor, nodes, cdevs, contested>>
msixVars   == <<vectors, registered, init_done>>
powerVars  == <<power, phase, pending>>
userVars   == <<mutex, upc, uref>>
vars == <<deviceVars, nameVars, msixVars, powerVars, userVars>>

Listed(d) == d \in Range(list)
Number(d) == Kinds \X {minor[d]}
Bound     == {d \in Devices : proc[d] = "bound"}

Init ==
  /\ proc = [d \in Devices |-> "none"]
  /\ script = [d \in Devices |-> <<>>]
  /\ held = [d \in Devices |-> {}]
  /\ excused = [d \in Devices |-> {}]
  /\ list \in {l \in [1..Cardinality(Others) -> Others] :
                Range(l) = Others /\ \A i, j \in DOMAIN l : i < j => l[i] < l[j]}
  /\ minor = [d \in Devices \cup Others |-> IF d \in Others THEN d ELSE 0]
  /\ nodes = Kinds \X Others
  /\ cdevs = [n \in Kinds \X Minors |-> IF n[2] \in Others THEN <<n[2]>> ELSE <<>>]
  /\ contested = {}
  /\ vectors = [d \in Devices |-> 0]
  /\ registered = [d \in Devices |-> 0]
  /\ init_done = [d \in Devices |-> FALSE]
  /\ power = [d \in Devices |-> "on"]
  /\ phase = "awake"
  /\ pending = {}
  /\ mutex = [d \in Devices |-> Free]
  /\ upc = [u \in Users |-> "closed"]
  /\ uref = [u \in Users |-> Free]

-----------------------------------------------------------------------------
(* Scripts.                                                                *)

Step(d) == IF script[d] = <<>> THEN "none" ELSE Head(script[d])
Skip(d, n) ==
  /\ script' = [script EXCEPT ![d] = SubSeq(@, n + 1, Len(@))]
  /\ proc' = [proc EXCEPT ![d] = IF n < Len(script[d]) THEN @
                                 ELSE IF @ \in {"probe", "resume"} THEN "bound" ELSE "none"]
Advance(d) == Skip(d, 1)

(* The statements of an error label and all after it.                      *)
From(label) ==
  SubSeq(UndoScript, CHOOSE i \in DOMAIN UndoScript : UndoScript[i] = label, Len(UndoScript))

(* A resume that fails is over, a probe is undone.                         *)
Fail(d, step) ==
  IF proc[d] = "resume"
  THEN Skip(d, Len(script[d]))
  ELSE /\ proc' = [proc EXCEPT ![d] = "undo"]
       /\ script' = [script EXCEPT ![d] = From(Label[step])]

(* The function is one that was just plugged in: its power_state is not    *)
(* that of a suspend.                                                      *)
StartProbe(d) ==
  /\ phase = "awake" /\ proc[d] = "none"
  /\ proc' = [proc EXCEPT ![d] = "probe"]
  /\ script' = [script EXCEPT ![d] = ProbeScript]
  /\ held' = [held EXCEPT ![d] = {}]
  /\ excused' = [excused EXCEPT ![d] = {}]
  /\ UNCHANGED <<nameVars, msixVars, powerVars, userVars>>

(* Without drvdata remove returns at once; the core releases the rest.     *)
StartRemove(d) ==
  /\ phase = "awake" /\ proc[d] = "bound"
  /\ proc' = [proc EXCEPT ![d] = "remove"]
  /\ script' = [script EXCEPT ![d] = IF "pDev" \in held[d] THEN RemoveScript ELSE <<"devres">>]
  /\ UNCHANGED <<held, excused, nameVars, msixVars, powerVars, userVars>>

(* devm_kzalloc, pcim_enable_device, dma_alloc_pages, pci_request_regions, *)
(* kfifo_alloc; nobody else sees the device yet.                           *)
Acquire(d) ==
  /\ Step(d) = "acquire"
  /\ \E n \in 0..Len(Acquisitions) :
       /\ held' = [held EXCEPT ![d] = Range(SubSeq(Acquisitions, 1, n))]
       /\ IF n = Len(Acquisitions) THEN Advance(d) ELSE Fail(d, Acquisitions[n + 1])
  /\ UNCHANGED <<excused, nameVars, msixVars, powerVars, userVars>>

(* The sizes of the BARs decide the mode, then pci_set_drvdata.  An invalid*)
(* combination goes to err_bar_init with ret still 0: the fifo is left,    *)
(* memx_dev freed, and the PCI core told that the driver has the device.   *)
Bars(d) ==
  /\ Step(d) = "bars"
  /\ \/ /\ held' = [held EXCEPT ![d] = @ \cup {"pDev"}]
        /\ Advance(d)
        /\ UNCHANGED excused
     \/ /\ script' = [script EXCEPT ![d] = From(Label["bars"])]
        /\ excused' = [excused EXCEPT ![d] = {"fifo"}]
        /\ UNCHANGED <<proc, held>>
  /\ UNCHANGED <<nameVars, msixVars, powerVars, userVars>>

(* memx_fs_init: what it made of a sysfs tree is left if a file fails.     *)
FsInit(d) ==
  /\ Step(d) = "fs"
  /\ \/ held' = [held EXCEPT ![d] = @ \cup {"fs"}] /\ Advance(d) /\ UNCHANGED excused
     \/ Fail(d, "fs") /\ UNCHANGED <<held, excused>>
     \/ /\ Fail(d, "fs")
        /\ held' = [held EXCEPT ![d] = @ \cup {"fs"}]
        /\ excused' = [excused EXCEPT ![d] = {"fs"}]
  /\ UNCHANGED <<nameVars, msixVars, powerVars, userVars>>

(* The rest of memx_firmware_init, and memx_fw_log_init, which cannot fail.*)
Firmware(d) ==
  /\ Step(d) = "firmware"
  /\ \/ Advance(d) /\ power' = [power EXCEPT ![d] = "on"]
     \/ Fail(d, "firmware") /\ UNCHANGED power
  /\ UNCHANGED <<held, excused, nameVars, msixVars, phase, pending, userVars>>

(* The next statements that give something back, as many as there are.     *)
Release(d) ==
  /\ \E n \in DOMAIN script[d] :
       /\ \A i \in 1..n : script[d][i] \in DOMAIN Releases
       /\ n < Len(script[d]) => script[d][n + 1] \notin DOMAIN Releases
       /\ held' = [held EXCEPT ![d] = @ \ {Releases[script[d][i]] : i \in 1..n}]
       /\ Skip(d, n)
  /\ UNCHANGED <<excused, nameVars, msixVars, powerVars, userVars>>

(* memx_dev is gone, and whoever refers to it is lost.                     *)
Orphans(d) ==
  /\ upc' = [u \in Users |-> IF uref[u] = d THEN "orphan" ELSE upc[u]]
  /\ uref' = [u \in Users |-> IF uref[u] = d THEN Free ELSE uref[u]]
  /\ minor' = [minor EXCEPT ![d] = 0]
  /\ mutex' = [mutex EXCEPT ![d] = Free]
  /\ held' = [held EXCEPT ![d] = @ \ {"mem", "pDev"}]

(* devm_kfree where probe has failed; then the driver core releases what   *)
(* is managed, memx_dev last.                                              *)
Devres(d) ==
  /\ Step(d) = "devres"
  /\ Orphans(d)
  /\ vectors' = [vectors EXCEPT ![d] = 0]
  /\ registered' = [registered EXCEPT ![d] = 0]
  /\ init_done' = [init_done EXCEPT ![d] = FALSE]
  /\ power' = [power EXCEPT ![d] = "on"]
  /\ Advance(d)
  /\ UNCHANGED <<excused, list, nodes, cdevs, contested, phase, pending>>

(* Wrong: remove does not wait.                                            *)
Barge(d) ==
  /\ Step(d) = "down"
  /\ mutex' = [mutex EXCEPT ![d] = d]
  /\ Advance(d)
  /\ UNCHANGED <<held, excused, nameVars, msixVars, powerVars, upc, uref>>

(* down and up of memx_dev->mutex by remove.                               *)
Down(d) ==
  /\ Step(d) = "down"
  /\ mutex[d] = Free
  /\ mutex' = [mutex EXCEPT ![d] = d]
  /\ Advance(d)
  /\ UNCHANGED <<held, excused, nameVars, msixVars, powerVars, upc, uref>>

Up(d) ==
  /\ Step(d) = "up"
  /\ mutex' = [mutex EXCEPT ![d] = Free]
  /\ Advance(d)
  /\ UNCHANGED <<held, excused, nameVars, msixVars, powerVars, upc, uref>>

-----------------------------------------------------------------------------
(* The device list and the nodes.                                          *)

(* How many devices precede the new one: the list is searched for the first*)
(* whose number the next one's does not follow.                            *)
Gap(i) == i = Len(list) \/ minor[list[i + 1]] # minor[list[i]] + 1

Places ==
  IF list = <<>> \/ minor[Head(list)] > 0
  THEN {0}
  ELSE {i \in DOMAIN list : Gap(i) /\ \A j \in 1..(i - 1) : ~Gap(j)}

(* Numbers that a removal has taken off the list and still uses.           *)
InRemoval == {minor[e] : e \in {x \in Devices : ~Listed(x) /\ "uncdev" \in Range(script[x])}}

(* memx_insert_device.                                                     *)
Insert(d) ==
  /\ Step(d) = "insert"
  /\ \E place \in Places :
       LET number == IF place = 0 THEN 0 ELSE minor[list[place]] + 1 IN
       /\ number \in Minors
       /\ minor' = [minor EXCEPT ![d] = number]
       /\ list' = InsertAt(list, place + 1, d)
       /\ contested' = contested \cup ({number} \cap InRemoval)
  /\ Advance(d)
  /\ UNCHANGED <<held, excused, nodes, cdevs, msixVars, powerVars, userVars>>

(* memx_pcie_remove_device.                                                *)
Delist(d) ==
  /\ Step(d) = "delist"
  /\ \E i \in DOMAIN list : list[i] = d /\ list' = RemoveAt(list, i)
  /\ Advance(d)
  /\ UNCHANGED <<held, excused, minor, nodes, cdevs, contested, msixVars, powerVars, userVars>>

(* Wrong: the result of device_create is not looked at either.             *)
DeviceCreateUnchecked(d, name) == nodes' \in {nodes, nodes \cup {name}} /\ Advance(d)

(* device_create refuses a name that exists.                               *)
DeviceCreate(d, name) ==
  \/ name \notin nodes /\ nodes' = nodes \cup {name} /\ Advance(d)
  \/ UNCHANGED nodes /\ Fail(d, Step(d))

(* cdev_add, whose result is not looked at, and device_create.             *)
NodeCreate(d) ==
  /\ Step(d) \in Kinds
  /\ LET name == <<Step(d), minor[d]>> IN
       /\ cdevs' = [cdevs EXCEPT ![name] = <<d>> \o @]
       /\ held' = [held EXCEPT ![d] = @ \cup {Step(d)}]
       /\ DeviceCreate(d, name)
  /\ UNCHANGED <<excused, list, minor, contested, msixVars, powerVars, userVars>>

(* device_destroy finds the nodes by their numbers.                        *)
NodeDestroy(d) ==
  /\ Step(d) = "unnode"
  /\ nodes' = nodes \ Number(d)
  /\ Advance(d)
  /\ UNCHANGED <<held, excused, list, minor, cdevs, contested, msixVars, powerVars, userVars>>

(* cdev_del takes a number from whoever had it last, even if that was not  *)
(* this device; a cdev that was not added has no number.                   *)
CdevDel(d) ==
  /\ Step(d) = "uncdev"
  /\ cdevs' = [n \in Kinds \X Minors |->
                 IF n \in Number(d) /\ n[1] \in held[d] /\ cdevs[n] # <<>>
                 THEN Tail(cdevs[n]) ELSE cdevs[n]]
  /\ contested' = IF \E n \in Number(d) : cdevs'[n] # <<>> \/ \E e \in Range(list) : minor[e] = n[2]
                  THEN contested ELSE contested \ {minor[d]}
  /\ held' = [held EXCEPT ![d] = @ \ Kinds]
  /\ Advance(d)
  /\ UNCHANGED <<excused, list, minor, nodes, msixVars, powerVars, userVars>>

-----------------------------------------------------------------------------
(* Interrupts.                                                             *)

(* memx_init_msix_irq up to the handlers.  If an attempt that failed has   *)
(* left vectors, the kernel offers the one legacy interrupt, which is the  *)
(* first vector's, and refuses a second handler for that.                  *)
Msix(d) ==
  /\ Step(d) = "msix"
  /\ \/ /\ init_done[d]
        /\ Advance(d)
        /\ UNCHANGED vectors
     \/ /\ ~init_done[d]
        /\ \E n \in IF vectors[d] = 0 THEN {1, Vectors} ELSE {1} :
             vectors' = [vectors EXCEPT ![d] = n]
        /\ IF registered[d] = 0
           THEN script' = [script EXCEPT ![d] = <<"request">> \o Tail(@)] /\ UNCHANGED proc
           ELSE Fail(d, "msix")
     \/ ~init_done[d] /\ Fail(d, "msix") /\ UNCHANGED vectors
  /\ UNCHANGED <<held, excused, nameVars, registered, init_done, powerVars, userVars>>

(* devm_request_irq for one vector after the other.                        *)
Request(d) ==
  /\ Step(d) = "request"
  /\ \/ Fail(d, "request") /\ UNCHANGED <<registered, init_done>>
     \/ LET last == registered[d] + 1 = vectors[d] IN
          /\ registered' = [registered EXCEPT ![d] = @ + 1]
          /\ init_done' = [init_done EXCEPT ![d] = last]
          /\ IF last THEN Advance(d) ELSE UNCHANGED <<proc, script>>
  /\ UNCHANGED <<held, excused, nameVars, vectors, powerVars, userVars>>

(* Wrong: init_done stays set, and the resume initialises nothing.         *)
DeinitStaysDone(d) ==
  /\ vectors' = [vectors EXCEPT ![d] = 0]
  /\ registered' = [registered EXCEPT ![d] = 0]
  /\ UNCHANGED init_done

(* memx_deinit_msix_irq does nothing unless the initialisation succeeded.  *)
Deinit(d) ==
  IF init_done[d]
  THEN /\ vectors' = [vectors EXCEPT ![d] = 0]
       /\ registered' = [registered EXCEPT ![d] = 0]
       /\ init_done' = [init_done EXCEPT ![d] = FALSE]
  ELSE UNCHANGED msixVars

DeinitMsix(d) ==
  /\ Step(d) = "deinitMsix"
  /\ Deinit(d)
  /\ Advance(d)
  /\ UNCHANGED <<held, excused, nameVars, powerVars, userVars>>

-----------------------------------------------------------------------------
(* Processes.                                                              *)

MoveTo(u, place) == upc' = [upc EXCEPT ![u] = place]
OnlyUser == UNCHANGED <<deviceVars, nameVars, msixVars, powerVars>>

(* memx_fops_open: memx_get_device_by_index gives its mutex back before the*)
(* device's is taken.                                                      *)
Open(u) ==
  /\ phase = "awake" /\ upc[u] = "closed"
  /\ \E d \in Devices :
       /\ Listed(d) /\ <<"char", minor[d]>> \in nodes /\ cdevs[<<"char", minor[d]>>] # <<>>
       /\ uref' = [uref EXCEPT ![u] = d]
  /\ MoveTo(u, "opening")
  /\ UNCHANGED mutex /\ OnlyUser

Opened(u) ==
  /\ upc[u] = "opening" /\ mutex[uref[u]] = Free
  /\ MoveTo(u, "open")
  /\ UNCHANGED <<mutex, uref>> /\ OnlyUser

(* The file is gone, whether release got the mutex or a signal came.       *)
Close(u) ==
  /\ phase = "awake" /\ upc[u] \in {"open", "orphan"}
  /\ MoveTo(u, "closed")
  /\ uref' = [uref EXCEPT ![u] = Free]
  /\ UNCHANGED mutex /\ OnlyUser

(* ioctl, write and mmap look at pDev, and then wait for the mutex.        *)
Call(u) ==
  /\ phase = "awake" /\ upc[u] = "open" /\ "pDev" \in held[uref[u]]
  /\ MoveTo(u, "want")
  /\ UNCHANGED <<mutex, uref>> /\ OnlyUser

(* They do not look again: what becomes of a call whose device was removed *)
(* meanwhile is undefined.                                                 *)
CallLock(u) ==
  /\ upc[u] = "want" /\ mutex[uref[u]] = Free
  /\ IF "pDev" \in held[uref[u]]
     THEN MoveTo(u, "inside") /\ mutex' = [mutex EXCEPT ![uref[u]] = u]
     ELSE MoveTo(u, "orphan") /\ UNCHANGED mutex
  /\ uref' = [uref EXCEPT ![u] = IF upc'[u] = "orphan" THEN Free ELSE @]
  /\ OnlyUser

CallEnd(u) ==
  /\ upc[u] = "inside"
  /\ mutex' = [mutex EXCEPT ![uref[u]] = Free]
  /\ MoveTo(u, "open")
  /\ UNCHANGED uref /\ OnlyUser

(* A signal ends a wait for the mutex.                                     *)
Signal(u) ==
  /\ phase = "awake"
  /\ \/ upc[u] = "opening" /\ MoveTo(u, "closed") /\ uref' = [uref EXCEPT ![u] = Free]
     \/ upc[u] = "want" /\ MoveTo(u, "open") /\ UNCHANGED uref
  /\ UNCHANGED mutex /\ OnlyUser

-----------------------------------------------------------------------------
(* The system sleeps.  Processes are frozen outside the driver, and no     *)
(* probe or removal is under way.  Suspend would not survive a device      *)
(* without drvdata.                                                        *)
Freeze ==
  /\ phase = "awake"
  /\ \A d \in Devices : proc[d] = "none" \/ (proc[d] = "bound" /\ "pDev" \in held[d])
  /\ \A u \in Users : upc[u] \in {"closed", "open", "orphan"}
  /\ phase' = "suspending"
  /\ pending' = Bound
  /\ UNCHANGED <<deviceVars, nameVars, msixVars, power, userVars>>

(* memx_pcie_suspend: nothing if the device never came back from the last. *)
Suspend(d) ==
  /\ phase = "suspending" /\ d \in pending
  /\ pending' = pending \ {d}
  /\ IF power[d] = "on"
     THEN Deinit(d) /\ power' = [power EXCEPT ![d] = "sleep"]
     ELSE UNCHANGED <<msixVars, power>>
  /\ UNCHANGED <<deviceVars, nameVars, phase, userVars>>

Wake ==
  /\ phase = "suspending" /\ pending = {}
  /\ phase' = "resuming"
  /\ pending' = Bound
  /\ UNCHANGED <<deviceVars, nameVars, msixVars, power, userVars>>

(* memx_pcie_resume.                                                       *)
Resume(d) ==
  /\ phase = "resuming" /\ d \in pending /\ power[d] = "sleep"
  /\ pending' = pending \ {d}
  /\ proc' = [proc EXCEPT ![d] = "resume"]
  /\ script' = [script EXCEPT ![d] = <<"msix", "firmware">>]
  /\ UNCHANGED <<held, excused, nameVars, msixVars, power, phase, userVars>>

Thaw ==
  /\ phase = "resuming" /\ pending = {}
  /\ \A d \in Devices : proc[d] # "resume"
  /\ phase' = "awake"
  /\ UNCHANGED <<deviceVars, nameVars, msixVars, power, pending, userVars>>

-----------------------------------------------------------------------------
(* The next step of a script.                                              *)
Go(d) ==
  \/ Acquire(d) \/ Bars(d) \/ FsInit(d) \/ Firmware(d) \/ Release(d) \/ Devres(d)
  \/ Insert(d) \/ Delist(d) \/ NodeCreate(d) \/ NodeDestroy(d) \/ CdevDel(d)
  \/ Msix(d) \/ Request(d) \/ DeinitMsix(d) \/ Down(d) \/ Up(d)

Next ==
  \/ \E d \in Devices : \/ StartProbe(d) \/ StartRemove(d) \/ Go(d)
                        \/ Suspend(d) \/ Resume(d)
  \/ \E u \in Users : \/ Open(u) \/ Opened(u) \/ Close(u)
                      \/ Call(u) \/ CallLock(u) \/ CallEnd(u) \/ Signal(u)
  \/ Freeze \/ Wake \/ Thaw

Spec == Init /\ [][Next]_vars

-----------------------------------------------------------------------------
(* The types of the variables.                                             *)
TypeOK ==
  /\ proc \in [Devices -> {"none", "probe", "undo", "bound", "remove", "resume"}]
  /\ \A d \in Devices : (script[d] = <<>>) = (proc[d] \in {"none", "bound"})
  /\ held \in [Devices -> SUBSET (Range(Acquisitions) \cup Kinds \cup {"pDev", "fs"})]
  /\ list \in Seq(Devices \cup Others)
  /\ minor \in [Devices \cup Others -> Minors]
  /\ nodes \subseteq Kinds \X Minors
  /\ vectors \in [Devices -> 0..Vectors]
  /\ registered \in [Devices -> 0..Vectors] /\ init_done \in [Devices -> BOOLEAN]
  /\ mutex \in [Devices -> Users \cup Devices \cup {Free}]
  /\ power \in [Devices -> {"on", "sleep"}]
  /\ phase \in {"awake", "suspending", "resuming"} /\ pending \subseteq Devices
  /\ upc \in [Users -> {"closed", "opening", "open", "want", "inside", "orphan"}]
  /\ uref \in [Users -> Devices \cup {Free}]

(* A device the driver does not have holds nothing, is not in the list and *)
(* has no number, wherever its probe failed or its life ended: but for the *)
(* fifo after an invalid combination of BARs, the files whose hwmon device *)
(* could not be made, and numbers that were given twice.                   *)
NothingLeaks ==
  \A d \in Devices : proc[d] = "none" =>
    /\ held[d] \subseteq excused[d]
    /\ ~Listed(d)
    /\ \A n \in DOMAIN cdevs : d \in Range(cdevs[n]) => n[2] \in contested

(* An interrupt finds memx_dev, and the fifo if its handler goes as far as *)
(* to put something in: whatever the driver is doing, except that a probe  *)
(* that fails after the handlers were registered frees both under them.    *)
InterruptsFindDevice ==
  \A d \in Devices : registered[d] > 0 /\ proc[d] # "undo" =>
    /\ "mem" \in held[d]
    /\ init_done[d] /\ "pDev" \in held[d] => {"fifo", "regions"} \subseteq held[d]

(* A device that processes can use has all its interrupt handlers, after   *)
(* any number of suspends and resumes, if the last resume succeeded.       *)
UsableIsArmed ==
  \A d \in Bound : phase = "awake" /\ "pDev" \in held[d] /\ power[d] = "on" =>
    init_done[d] /\ registered[d] > 0 /\ registered[d] = vectors[d]

(* A call that has got the mutex of a device that was there keeps it, with *)
(* its BARs and buffers, until it returns: unless the probe that made the  *)
(* node fails meanwhile, which takes no mutex.                             *)
InsideIsWhole ==
  \A u \in Users : upc[u] = "inside" /\ proc[uref[u]] # "undo" =>
    Range(Acquisitions) \cup {"pDev"} \subseteq held[uref[u]]

(* Every node in /dev belongs to a device in the list, or to one that is   *)
(* just being removed; and the nodes of a bound device lead to it, unless  *)
(* its number was taken while a removal had not yet given it back.  The    *)
(* list is sorted by number: the next device gets one that is not in it.   *)
NodesAndDevicesAgree ==
  /\ \A i, j \in DOMAIN list : i < j => minor[list[i]] < minor[list[j]]
  /\ \A n \in nodes :
       \/ \E d \in Range(list) : minor[d] = n[2]
       \/ \E d \in Devices : proc[d] = "remove" /\ minor[d] = n[2]
  /\ \A d \in Bound : "pDev" \in held[d] /\ minor[d] \notin contested =>
       /\ Listed(d)
       /\ \A n \in Number(d) : n \in nodes /\ cdevs[n] # <<>> /\ Head(cdevs[n]) = d
=============================================================================
