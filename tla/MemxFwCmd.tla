------------------------------ MODULE MemxFwCmd ------------------------------
(***************************************************************************)
(* The firmware command channel of the PCIe driver                         *)
(* (kdriver/linux/pcie/memx_fw_cmd.c) and everything that goes through it: *)
(* the ioctls of memx_cascade_pciemain.c that send a command, and          *)
(* memx_firmware_init (memx_fw_init.c) as memx_pcie_probe runs it, after   *)
(* the device node has become visible.                                     *)
(*                                                                         *)
(* A device has one command buffer in its SRAM, which carries the command  *)
(* and then its result, and one acknowledgement interrupt that carries     *)
(* nothing.  One semaphore for all devices serialises the commands; it is  *)
(* given back before the caller reads the result.  An ioctl also holds its *)
(* device's mutex from beginning to end, a probe does not.                 *)
(***************************************************************************)
EXTENDS Naturals, Sequences

CONSTANTS
  Devices,
  Users,         (* user threads that issue ioctls                         *)
  Probes,        (* kernel threads, each probing a device                  *)
  Dev,           (* Dev[t]: the device thread t works on                   *)
  Jobs,          (* Jobs[u]: the ioctls user u issues                      *)
  Signalled,     (* the threads that signals may wake                      *)
  FailAckCount,  (* FAIL_ACK_COUNT, 5 in the code                          *)
  MaxOwed,       (* triggers of a device that are not merged into one      *)
  Free           (* a lock that nobody holds, a buffer that nobody wrote   *)

Threads == Users \cup Probes

(* The firmware commands each ioctl sends, in order.  The successors of a  *)
(* command that failed are sent all the same.  A failed hwinfo or vendor1, *)
(* which come last, ends its call with an error, a failed wtmem without    *)
(* one; a failed vendor0 changes nothing for its call.                     *)
Script ==
  [config   |-> <<"config", "hwinfo">>,       (* MEMX_CONFIG_MPU_GROUP     *)
   download |-> <<"vendor1">>,                (* MEMX_DOWNLOAD_FIRMWARE    *)
   wtmem    |-> <<"wtmem">>,                  (* MEMX_INIT_WTMEM_FMAP      *)
   waitack  |-> <<"waitAck">>,                (* MEMX_WAIT_FW_MSIX_ACK     *)
   vendor   |-> <<"vendor0">>,                (* MEMX_VENDOR_CMD, download *)
   poke     |-> <<"poke">>,                   (* MEMX_VENDOR_CMD, other    *)
   abort    |-> <<"abort">>]                  (* MEMX_ABORT_TRANSFER       *)
PcieBoot == <<"waitAck", "hostBuf", "hwinfo">>
QspiBoot == <<"hostBuf", "hwinfo">>

Commands == {"config", "hwinfo", "vendor1", "wtmem", "waitAck", "vendor0", "poke",
             "abort", "hostBuf"}

ASSUME FwCmdAssumption ==
  /\ Dev \in [Threads -> Devices]
  /\ Jobs \in [Users -> SUBSET DOMAIN Script]
  /\ Signalled \subseteq Threads
  /\ Users \cap Probes = {}
  /\ FailAckCount \in Nat \ {0}
  /\ MaxOwed \in Nat \ {0}
  /\ Free \notin Threads

VARIABLES
  mutex,         (* memx_dev->mutex of each device                         *)
  fw_cmd_mutex,  (* g_memx_fw_cmd_mutex                                    *)
  is_abort,      (* fw_ctrl.is_abort of each device                        *)
  indicator,     (* fw_ctrl.indicator # -1                                 *)
  rx_is_abort,   (* rx_ctrl.is_abort: an abort no read has consumed        *)
  buffer,        (* whose command the buffer holds, and whether the        *)
                 (* firmware has put the result in its place               *)
  owed,          (* acknowledgements the firmware has still to send        *)
  pc, job, status,
  fail_count,
  alone          (* history: no acknowledgement but the one for the        *)
                 (* thread's command can reach it                          *)

flagVars == <<is_abort, indicator, rx_is_abort>>
fwVars   == <<buffer, owed>>
vars == <<mutex, fw_cmd_mutex, flagVars, fwVars, pc, job, status, fail_count, alone>>

Waiting  == {"ackWait", "ackWoken"}
Reading  == {"use", "copy"}
Inside   == {"sem", "abortFw"} \cup Waiting \cup Reading
Places   == {"user", "want", "done", "failed"} \cup Inside
Outcomes == {"ready", "signal", "timeout"}

Goto(t, place) == pc' = [pc EXCEPT ![t] = place]

Init ==
  /\ mutex = [d \in Devices |-> Free]
  /\ fw_cmd_mutex = Free
  /\ is_abort = [d \in Devices |-> FALSE]
  /\ indicator = [d \in Devices |-> FALSE]
  /\ rx_is_abort = [d \in Devices |-> FALSE]
  /\ buffer = [d \in Devices |-> [owner |-> Free, done |-> FALSE]]
  /\ owed = [d \in Devices |-> 0]
  /\ pc = [t \in Threads |-> "user"]
  /\ job = [t \in Threads |-> <<>>]
  /\ status = [t \in Threads |-> "none"]
  /\ fail_count = [t \in Threads |-> 0]
  /\ alone = [t \in Threads |-> FALSE]

-----------------------------------------------------------------------------
(* The calls around the channel.                                           *)

(* A probe that failed is being undone: nothing enters the device then.    *)
Enter(u) ==
  /\ pc[u] = "user"
  /\ \A p \in Probes : Dev[p] = Dev[u] => pc[p] # "failed"
  /\ \E name \in Jobs[u] : job' = [job EXCEPT ![u] = Script[name]]
  /\ Goto(u, "want")
  /\ UNCHANGED <<mutex, fw_cmd_mutex, flagVars, fwVars, status, fail_count, alone>>

(* down_interruptible(&memx_dev->mutex) fails: -ERESTARTSYS.               *)
Interrupted(u) ==
  /\ pc[u] = "want"
  /\ job' = [job EXCEPT ![u] = <<>>]
  /\ Goto(u, "user")
  /\ UNCHANGED <<mutex, fw_cmd_mutex, flagVars, fwVars, status, fail_count, alone>>

CanLock(u) == pc[u] = "want" /\ mutex[Dev[u]] = Free

(* The next command of the call, or its end, which an ioctl marks with     *)
(* up(&memx_dev->mutex).                                                   *)
Advance(t) ==
  /\ job' = [job EXCEPT ![t] = Tail(@)]
  /\ IF Len(job[t]) > 1
     THEN Goto(t, "sem") /\ UNCHANGED mutex
     ELSE IF t \in Users
          THEN Goto(t, "user") /\ mutex' = [mutex EXCEPT ![Dev[t]] = Free]
          ELSE Goto(t, "done") /\ UNCHANGED mutex

(* MEMX_VENDOR_CMD writes the user's command into the buffer before, or    *)
(* without, asking for the semaphore.                                      *)
Start(u) ==
  /\ CanLock(u)
  /\ Head(job[u]) # "abort"
  /\ mutex' = [mutex EXCEPT ![Dev[u]] = u]
  /\ buffer' = IF Head(job[u]) \in {"vendor0", "poke"}
               THEN [buffer EXCEPT ![Dev[u]] = [owner |-> u, done |-> FALSE]]
               ELSE buffer
  /\ Goto(u, IF Head(job[u]) = "poke" THEN "use" ELSE "sem")
  /\ UNCHANGED <<fw_cmd_mutex, flagVars, owed, job, status, fail_count, alone>>

(* memx_firmware_init; in a PCIe boot the downloaded firmware owes an      *)
(* acknowledgement that no command asked for.                              *)
Probe(p) ==
  /\ pc[p] = "user"
  /\ \/ /\ job' = [job EXCEPT ![p] = PcieBoot]
        /\ owed' = [owed EXCEPT ![Dev[p]] = IF @ < MaxOwed THEN @ + 1 ELSE @]
        /\ alone' = [t \in Threads |-> alone[t] /\ Dev[t] # Dev[p]]
     \/ /\ job' = [job EXCEPT ![p] = QspiBoot]
        /\ UNCHANGED <<owed, alone>>
  /\ Goto(p, "sem")
  /\ UNCHANGED <<mutex, fw_cmd_mutex, flagVars, buffer, status, fail_count>>

(* Wrong: the abort does not wait for the mutex.                           *)
AbortRxUnlocked(u) ==
  /\ pc[u] = "want" /\ Head(job[u]) = "abort"
  /\ rx_is_abort' = [rx_is_abort EXCEPT ![Dev[u]] = TRUE]
  /\ Goto(u, "abortFw")
  /\ UNCHANGED <<mutex, fw_cmd_mutex, is_abort, indicator, fwVars, job, status, fail_count, alone>>

(* memx_pcie_abort_transfer: first the read side, last this channel.       *)
AbortRx(u) ==
  /\ CanLock(u)
  /\ Head(job[u]) = "abort"
  /\ mutex' = [mutex EXCEPT ![Dev[u]] = u]
  /\ rx_is_abort' = [rx_is_abort EXCEPT ![Dev[u]] = TRUE]
  /\ Goto(u, "abortFw")
  /\ UNCHANGED <<fw_cmd_mutex, is_abort, indicator, fwVars, job, status, fail_count, alone>>

AbortFw(u) ==
  /\ pc[u] = "abortFw"
  /\ is_abort' = [is_abort EXCEPT ![Dev[u]] = TRUE]
  /\ indicator' = [indicator EXCEPT ![Dev[u]] = FALSE]
  /\ Advance(u)
  /\ UNCHANGED <<fw_cmd_mutex, rx_is_abort, fwVars, status, fail_count, alone>>

(* memx_fops_read sees an abort: it clears both flags, without a lock.     *)
ReadAbort(d) ==
  /\ rx_is_abort[d]
  /\ rx_is_abort' = [rx_is_abort EXCEPT ![d] = FALSE]
  /\ is_abort' = [is_abort EXCEPT ![d] = FALSE]
  /\ UNCHANGED <<mutex, fw_cmd_mutex, indicator, fwVars, pc, job, status, fail_count, alone>>

(* All files of the device were closed and memx_fops_open is the first     *)
(* again: it clears the flags and leaves the indicator.                    *)
FirstOpen(d) ==
  /\ mutex[d] = Free
  /\ \A u \in Users : Dev[u] = d => pc[u] = "user"
  /\ rx_is_abort' = [rx_is_abort EXCEPT ![d] = FALSE]
  /\ is_abort' = [is_abort EXCEPT ![d] = FALSE]
  /\ UNCHANGED <<mutex, fw_cmd_mutex, indicator, fwVars, pc, job, status, fail_count, alone>>

-----------------------------------------------------------------------------
(* memx_send_cmd_to_fw_and_get_result.                                     *)

(* down(&g_memx_fw_cmd_mutex), memx_send_command_to_firmware.  The         *)
(* indicator keeps what it was.                                            *)
Send(t) ==
  /\ pc[t] = "sem"
  /\ fw_cmd_mutex = Free
  /\ fw_cmd_mutex' = t
  /\ IF Head(job[t]) = "waitAck"
     THEN UNCHANGED <<fwVars, alone>>
     ELSE LET d == Dev[t] IN
            /\ buffer' = [buffer EXCEPT ![d] = [owner |-> t, done |-> FALSE]]
            /\ owed' = [owed EXCEPT ![d] = IF @ < MaxOwed THEN @ + 1 ELSE @]
            /\ alone' = [alone EXCEPT ![t] = owed[d] = 0 /\ ~indicator[d]]
  /\ fail_count' = [fail_count EXCEPT ![t] = 0]
  /\ Goto(t, "ackWait")
  /\ UNCHANGED <<mutex, flagVars, job, status>>

(* wait_event_interruptible_timeout(fw wq, indicator != -1, 1 s).          *)
WaitAck(t) ==
  /\ pc[t] = "ackWait"
  /\ \E how \in Outcomes :
       /\ how = "ready" <=> indicator[Dev[t]]
       /\ how = "signal" => t \in Signalled
       /\ status' = [status EXCEPT ![t] = how]
  /\ Goto(t, "ackWoken")
  /\ UNCHANGED <<mutex, fw_cmd_mutex, flagVars, fwVars, job, fail_count, alone>>

(* The command failed: up, and the call goes on or ends.  A probe without  *)
(* the hardware information is undone.  MEMX_VENDOR_CMD does not look at   *)
(* the outcome: it copies the buffer back as if its command had been done. *)
GiveUp(t) ==
  /\ fw_cmd_mutex' = Free
  /\ status' = [status EXCEPT ![t] = "none"]
  /\ fail_count' = [fail_count EXCEPT ![t] = 0]
  /\ CASE t \in Probes /\ Head(job[t]) = "hwinfo" ->
            /\ Goto(t, "failed")
            /\ job' = [job EXCEPT ![t] = <<>>]
            /\ UNCHANGED mutex
       [] Head(job[t]) = "vendor0" -> Goto(t, "copy") /\ UNCHANGED <<job, mutex>>
       [] OTHER -> Advance(t)
  /\ UNCHANGED <<fwVars, alone>>

(* Wrong: the aborted command returns without up.                          *)
AckAbortedLocked(t) ==
  /\ pc[t] = "ackWoken"
  /\ is_abort[Dev[t]]
  /\ is_abort' = [is_abort EXCEPT ![Dev[t]] = FALSE]
  /\ Advance(t)
  /\ status' = [status EXCEPT ![t] = "none"]
  /\ UNCHANGED <<fw_cmd_mutex, indicator, rx_is_abort, fwVars, fail_count, alone>>

(* The flag is looked at first, however the sleep ended; an acknowledgement*)
(* that has come stays in the indicator.                                   *)
AckAborted(t) ==
  /\ pc[t] = "ackWoken"
  /\ is_abort[Dev[t]]
  /\ is_abort' = [is_abort EXCEPT ![Dev[t]] = FALSE]
  /\ GiveUp(t)
  /\ UNCHANGED <<indicator, rx_is_abort>>

AckSignalled(t) ==
  /\ pc[t] = "ackWoken"
  /\ ~is_abort[Dev[t]]
  /\ status[t] = "signal"
  /\ GiveUp(t)
  /\ UNCHANGED flagVars

(* Wrong: the failures are not counted.                                    *)
AckTimeoutUncounted(t) ==
  /\ pc[t] = "ackWoken"
  /\ ~is_abort[Dev[t]]
  /\ status[t] = "timeout"
  /\ Goto(t, "ackWait")
  /\ status' = [status EXCEPT ![t] = "none"]
  /\ UNCHANGED <<mutex, fw_cmd_mutex, flagVars, fwVars, job, fail_count, alone>>

(* Wrong: running out of time is taken for the acknowledgement.            *)
AckTimeoutTaken(t) ==
  /\ pc[t] = "ackWoken"
  /\ ~is_abort[Dev[t]]
  /\ status[t] = "timeout"
  /\ fw_cmd_mutex' = Free
  /\ status' = [status EXCEPT ![t] = "none"]
  /\ Goto(t, "use")
  /\ UNCHANGED <<mutex, flagVars, fwVars, job, fail_count, alone>>

(* The sleep is repeated until FAIL_ACK_COUNT of them have timed out.      *)
AckTimeout(t) ==
  /\ pc[t] = "ackWoken"
  /\ ~is_abort[Dev[t]]
  /\ status[t] = "timeout"
  /\ IF fail_count[t] + 1 < FailAckCount
     THEN /\ fail_count' = [fail_count EXCEPT ![t] = @ + 1]
          /\ Goto(t, "ackWait")
          /\ status' = [status EXCEPT ![t] = "none"]
          /\ UNCHANGED <<mutex, fw_cmd_mutex, fwVars, job, alone>>
     ELSE GiveUp(t)
  /\ UNCHANGED flagVars

(* The acknowledgement is taken and the semaphore given back; the caller   *)
(* still has to read the result out of the buffer.                         *)
AckTaken(t) ==
  /\ pc[t] = "ackWoken"
  /\ ~is_abort[Dev[t]]
  /\ status[t] = "ready"
  /\ indicator' = [indicator EXCEPT ![Dev[t]] = FALSE]
  /\ fw_cmd_mutex' = Free
  /\ status' = [status EXCEPT ![t] = "none"]
  /\ fail_count' = [fail_count EXCEPT ![t] = 0]
  /\ Goto(t, "use")
  /\ UNCHANGED <<mutex, is_abort, rx_is_abort, fwVars, job, alone>>

(* The caller reads the buffer, or ignores it.                             *)
Use(t) ==
  /\ pc[t] = "use"
  /\ Advance(t)
  /\ UNCHANGED <<fw_cmd_mutex, flagVars, fwVars, status, fail_count, alone>>

(* MEMX_VENDOR_CMD after a failed command: copy_to_user, and 0.            *)
CopyBack(t) ==
  /\ pc[t] = "copy"
  /\ Advance(t)
  /\ UNCHANGED <<fw_cmd_mutex, flagVars, fwVars, status, fail_count, alone>>

(* The firmware carries out the command in the buffer, replaces it by its  *)
(* result and raises the interrupt; memx_firmware_msix_ack_isr.            *)
FwAck(d) ==
  /\ owed[d] > 0
  /\ owed' = [owed EXCEPT ![d] = @ - 1]
  /\ buffer' = [buffer EXCEPT ![d].done = TRUE]
  /\ indicator' = [indicator EXCEPT ![d] = TRUE]
  /\ UNCHANGED <<mutex, fw_cmd_mutex, is_abort, rx_is_abort, pc, job, status, fail_count, alone>>

-----------------------------------------------------------------------------
Command(t) == WaitAck(t) \/ AckAborted(t) \/ AckSignalled(t) \/ AckTimeout(t)
                \/ AckTaken(t) \/ Use(t) \/ CopyBack(t)
Ioctl(u) == Start(u) \/ AbortRx(u) \/ AbortFw(u)

Next ==
  \/ \E u \in Users : Enter(u) \/ Interrupted(u) \/ Ioctl(u)
  \/ \E p \in Probes : Probe(p)
  \/ \E t \in Threads : Send(t) \/ Command(t)
  \/ \E d \in Devices : ReadAbort(d) \/ FirstOpen(d) \/ FwAck(d)

Spec == Init /\ [][Next]_vars

(* The kernel runs every thread that is inside a call and serves the       *)
(* waiters of a semaphore in turn.  The firmware need not answer.          *)
Fairness ==
  /\ \A u \in Users : WF_vars(AbortFw(u)) /\ SF_vars(Start(u) \/ AbortRx(u))
  /\ \A t \in Threads : WF_vars(Command(t)) /\ SF_vars(Send(t))

FairSpec == Spec /\ Fairness

-----------------------------------------------------------------------------
LockTypeOK ==
  /\ mutex \in [Devices -> Users \cup {Free}]
  /\ fw_cmd_mutex \in Threads \cup {Free}

ChannelTypeOK ==
  /\ is_abort \in [Devices -> BOOLEAN]
  /\ indicator \in [Devices -> BOOLEAN]
  /\ rx_is_abort \in [Devices -> BOOLEAN]
  /\ buffer \in [Devices -> [owner : Threads \cup {Free}, done : BOOLEAN]]
  /\ owed \in [Devices -> 0..MaxOwed]

ThreadTypeOK ==
  /\ pc \in [Threads -> Places]
  /\ job \in [Threads -> Seq(Commands)]
  /\ status \in [Threads -> Outcomes \cup {"none"}]
  /\ fail_count \in [Threads -> 0..FailAckCount - 1]
  /\ alone \in [Threads -> BOOLEAN]

(* The types of the variables; in particular no command outlives           *)
(* FAIL_ACK_COUNT sleeps.                                                  *)
TypeOK == LockTypeOK /\ ChannelTypeOK /\ ThreadTypeOK

(* The semaphore is held exactly while a command waits for its             *)
(* acknowledgement, the device mutex exactly while an ioctl is inside: no  *)
(* failure path of the channel keeps either.                               *)
SemaphoreDiscipline ==
  /\ \A t \in Threads : pc[t] \in Waiting <=> fw_cmd_mutex = t
  /\ \A u \in Users : pc[u] \in Inside <=> mutex[Dev[u]] = u

Sent(t) == job[t] # <<>> /\ Head(job[t]) # "waitAck"

(* The command of an ioctl that waits is always owed its acknowledgement:  *)
(* the firmware has still to send it, or it stands in the indicator.  An   *)
(* abort, which forgets the indicator, cannot come between, as it needs the*)
(* mutex; a probe has no such protection.                                  *)
NoLostAck ==
  \A u \in Users :
    pc[u] \in Waiting /\ Sent(u) => owed[Dev[u]] > 0 \/ indicator[Dev[u]]

(* What a caller reads out of the buffer, after the semaphore was given    *)
(* back, was never written by another ioctl, whatever became of its        *)
(* command; and it is the result, provided that the command was            *)
(* acknowledged and that no other acknowledgement could reach it.  Only a  *)
(* probe and an ioctl of the same device, which no lock keeps apart, can   *)
(* overwrite each other's buffer.  The code falls short of more: a         *)
(* MEMX_VENDOR_CMD whose command failed (at "copy") may return 0 with the  *)
(* user's own command in the place of the result.                          *)
ResultIsOwn ==
  \A t \in Threads : LET b == buffer[Dev[t]] IN
    pc[t] \in Reading /\ Head(job[t]) # "waitAck" =>
      \/ b.owner = t /\ (pc[t] = "use" /\ Head(job[t]) # "poke" /\ alone[t] => b.done)
      \/ b.owner # t /\ (t \in Probes \/ b.owner \in Probes)

(* An acknowledgement that was taken means that the firmware has carried   *)
(* out the command it was waited for ("check until received cmd process    *)
(* done msix").                                                            *)
AckMeansDone ==
  \A t \in Threads :
    pc[t] = "use" /\ Head(job[t]) \notin {"waitAck", "poke"} => buffer[Dev[t]].done

(* Every call comes back, and every probe ends, even if the firmware of    *)
(* every device stays silent.                                              *)
CommandReturns ==
  /\ \A u \in Users : pc[u] = "want" ~> pc[u] = "user"
  /\ \A p \in Probes : pc[p] = "sem" ~> pc[p] \in {"done", "failed"}
=============================================================================
