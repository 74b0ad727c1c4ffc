---------------------------- MODULE MemxTransfer ----------------------------
(***************************************************************************)
(* The data path of one PCIe device node, /dev/memxN                       *)
(* (kdriver/linux/pcie/memx_cascade_pciemain.c): open, release, read,      *)
(* write and the transfer ioctls (ABORT_TRANSFER, DUMMY_READ,              *)
(* SET_ABORT_READ), against the two data interrupts of                     *)
(* memx_msix_irq.c.                                                        *)
(*                                                                         *)
(* Three kinds of actor run at once:                                       *)
(*   - system calls.  write, open, release and every ioctl hold            *)
(*     memx_dev->mutex from beginning to end; read takes no lock at all;   *)
(*   - the interrupt handlers, which take neither the mutex nor turns;     *)
(*   - the device, of which only what it owes the host is modelled: one    *)
(*     ingress interrupt for each input it was told to fetch, and egress   *)
(*     interrupts whenever it has a result.                                *)
(*                                                                         *)
(* A system call is cut at the points where another actor can come         *)
(* between: taking the mutex, each sleep on a wait queue, the look at the  *)
(* abort flag after the sleep, and the pop from the fifo.                  *)
(***************************************************************************)
EXTENDS Naturals, Sequences, FiniteSets

CONSTANTS
  Threads,      (* user threads, each with its own open file               *)
  Chips,        (* chips of the device (MAX_SUPPORT_CHIP_NUM = 16)         *)
  Ops,          (* Ops[t]: the calls thread t makes besides open, release  *)
  FifoSize,     (* entries of rx_msix_fifo (MAX_CHIP_NUM = 16)             *)
  MaxInflight,  (* bound of the model: inputs the device has not answered  *)
  MaxRefs,      (* bound of the model: reference_count                     *)
  Free,         (* the mutex is up                                         *)
  BadChip       (* a target chip id >= MAX_SUPPORT_CHIP_NUM                *)

OpNames == {"read", "write", "abort", "dummy", "setread"}

ASSUME TransferAssumption ==
  /\ Ops \in [Threads -> SUBSET OpNames]
  /\ FifoSize \in Nat \ {0}
  /\ MaxInflight \in Nat \ {0}
  /\ MaxRefs \in Nat \ {0}
  /\ Free \notin Threads
  /\ BadChip \notin Chips

VARIABLES
  opened,           (* threads whose file is open                          *)
  reference_count,  (* memx_dev->reference_count                           *)
  mutex,            (* memx_dev->mutex: its holder, or Free                *)
  rx_msix_fifo,     (* chips whose result is ready, oldest first           *)
  rx_is_abort,      (* rx_ctrl.is_abort                                    *)
  rx_is_read_abort, (* rx_ctrl.is_read_abort                               *)
  tx_is_abort,      (* tx_ctrl[c].is_abort                                 *)
  tx_indicator,     (* tx_ctrl[c].indicator = c (the alternative is -1)    *)
  fw_is_abort,      (* fw_ctrl.is_abort                                    *)
  pc,               (* where each thread is in its system call             *)
  call,             (* the call a thread is in                             *)
  target,           (* the chip a write is for                             *)
  status,           (* wq_status: how the thread's last sleep ended        *)
  inflight,         (* inputs of the chip the device still has to answer   *)
  abandoned,        (* history: a write gave up and its answer is unclaimed*)
  robbed            (* history: what woke the thread was taken by another  *)

sessionVars == <<opened, reference_count>>
rxVars      == <<rx_msix_fifo, rx_is_abort, rx_is_read_abort>>
txVars      == <<tx_is_abort, tx_indicator, inflight, abandoned>>
threadVars  == <<pc, call, target, status>>
vars == <<sessionVars, mutex, rxVars, txVars, fw_is_abort, threadVars, robbed>>

Locked   == {"open", "release", "write", "abort", "dummy", "setread"}
Critical == {"wrWait", "wrWoken", "abortDrain", "abortTx", "dummyWait", "dummyPop"}
Reading  == {"readTry", "readWait", "readWoken", "readAbort", "readPop"}
Writing  == {"wrWait", "wrWoken"}
Places   == {"user", "want"} \cup Critical \cup Reading
Outcomes == {"ready", "signal", "timeout"}

Goto(t, place) == pc' = [pc EXCEPT ![t] = place]

(* Return to user space: the locals of the call are gone.                  *)
Return(t) ==
  /\ Goto(t, "user")
  /\ call' = [call EXCEPT ![t] = "none"]
  /\ target' = [target EXCEPT ![t] = BadChip]
  /\ status' = [status EXCEPT ![t] = "none"]

(* up(&memx_dev->mutex) and return.                                        *)
Unlock(t) == mutex' = Free /\ Return(t)

(* down_interruptible(&memx_dev->mutex) can succeed for this call.         *)
CanLock(t, k) == pc[t] = "want" /\ call[t] = k /\ mutex = Free

(* What woke the others is gone: t has taken entries from the fifo or      *)
(* consumed the abort.                                                     *)
Bereft(t) ==
  [u \in Threads |-> u # t /\ (robbed[u] \/ pc[u] \in {"readWoken", "readPop", "dummyPop"})]

(* kfifo_out_locked on a fifo that holds an entry: a reader that was woken *)
(* for it and has not popped yet may now find nothing.                     *)
Pop(t) ==
  /\ rx_msix_fifo # <<>>
  /\ rx_msix_fifo' = Tail(rx_msix_fifo)
  /\ robbed' = Bereft(t)
  /\ UNCHANGED <<rx_is_abort, rx_is_read_abort>>

Init ==
  /\ opened = {}
  /\ reference_count = 0
  /\ mutex = Free
  /\ rx_msix_fifo = <<>>
  /\ rx_is_abort = FALSE
  /\ rx_is_read_abort = FALSE
  /\ tx_is_abort = [c \in Chips |-> FALSE]
  /\ tx_indicator = [c \in Chips |-> FALSE]
  /\ fw_is_abort = FALSE
  /\ pc = [t \in Threads |-> "user"]
  /\ call = [t \in Threads |-> "none"]
  /\ target = [t \in Threads |-> BadChip]
  /\ status = [t \in Threads |-> "none"]
  /\ inflight = [c \in Chips |-> 0]
  /\ abandoned = [c \in Chips |-> FALSE]
  /\ robbed = [t \in Threads |-> FALSE]

-----------------------------------------------------------------------------
(* Entering a system call.                                                 *)

(* A call that begins by taking the mutex.  The target of a write is what  *)
(* user space left in the shared buffer.                                   *)
Enter(t) ==
  /\ pc[t] = "user"
  /\ \E k \in Locked :
       /\ CASE k = "open"    -> t \notin opened
            [] k = "release" -> t \in opened
            [] OTHER         -> t \in opened /\ k \in Ops[t]
       /\ call' = [call EXCEPT ![t] = k]
       /\ IF k = "write"
          THEN \E c \in Chips \cup {BadChip} : target' = [target EXCEPT ![t] = c]
          ELSE UNCHANGED target
  /\ Goto(t, "want")
  /\ UNCHANGED <<sessionVars, mutex, rxVars, txVars, fw_is_abort, status, robbed>>

(* A signal ends down_interruptible: every call returns -ERESTARTSYS.  A   *)
(* release returns without its decrement, and the kernel drops the file    *)
(* all the same.                                                           *)
Interrupted(t) ==
  /\ pc[t] = "want"
  /\ opened' = IF call[t] = "release" THEN opened \ {t} ELSE opened
  /\ Return(t)
  /\ UNCHANGED <<reference_count, mutex, rxVars, txVars, fw_is_abort, robbed>>

(* Wrong: the opener is not counted.                                       *)
OpenUncounted(t) ==
  /\ CanLock(t, "open")
  /\ IF reference_count = 0
     THEN /\ rx_is_abort' = FALSE
          /\ rx_is_read_abort' = FALSE
          /\ tx_is_abort' = [c \in Chips |-> FALSE]
          /\ fw_is_abort' = FALSE
     ELSE UNCHANGED <<rx_is_abort, rx_is_read_abort, tx_is_abort, fw_is_abort>>
  /\ opened' = opened \cup {t}
  /\ Unlock(t)
  /\ UNCHANGED <<reference_count, rx_msix_fifo, tx_indicator, inflight, abandoned, robbed>>

(* memx_fops_open: the first opener clears what earlier aborts left.       *)
Open(t) ==
  /\ CanLock(t, "open")
  /\ reference_count < MaxRefs
  /\ IF reference_count = 0
     THEN /\ rx_is_abort' = FALSE
          /\ rx_is_read_abort' = FALSE
          /\ tx_is_abort' = [c \in Chips |-> FALSE]
          /\ fw_is_abort' = FALSE
     ELSE UNCHANGED <<rx_is_abort, rx_is_read_abort, tx_is_abort, fw_is_abort>>
  /\ reference_count' = reference_count + 1
  /\ opened' = opened \cup {t}
  /\ Unlock(t)
  /\ UNCHANGED <<rx_msix_fifo, tx_indicator, inflight, abandoned, robbed>>

(* memx_fops_release.                                                      *)
Release(t) ==
  /\ CanLock(t, "release")
  /\ reference_count' = reference_count - 1
  /\ opened' = opened \ {t}
  /\ Unlock(t)
  /\ UNCHANGED <<rxVars, txVars, fw_is_abort, robbed>>

(* MEMX_SET_ABORT_READ.                                                    *)
SetAbortRead(t) ==
  /\ CanLock(t, "setread")
  /\ rx_is_read_abort' = TRUE
  /\ Unlock(t)
  /\ UNCHANGED <<sessionVars, rx_msix_fifo, rx_is_abort, txVars, fw_is_abort, robbed>>

-----------------------------------------------------------------------------
(* MEMX_ABORT_TRANSFER: memx_pcie_abort_transfer, under the mutex.         *)

(* Wrong: the abort does not wait for the mutex.                           *)
AbortFlagUnlocked(t) ==
  /\ pc[t] = "want" /\ call[t] = "abort"
  /\ rx_is_abort' = TRUE
  /\ Goto(t, "abortDrain")
  /\ UNCHANGED <<sessionVars, mutex, rx_msix_fifo, rx_is_read_abort, txVars, fw_is_abort,
                 call, target, status, robbed>>

AbortFlag(t) ==
  /\ CanLock(t, "abort")
  /\ mutex' = t
  /\ rx_is_abort' = TRUE
  /\ Goto(t, "abortDrain")
  /\ UNCHANGED <<sessionVars, rx_msix_fifo, rx_is_read_abort, txVars, fw_is_abort,
                 call, target, status, robbed>>

(* The fifo is emptied unless a dummy reader will empty it.                *)
AbortDrain(t) ==
  /\ pc[t] = "abortDrain"
  /\ IF rx_is_read_abort
     THEN UNCHANGED <<rx_msix_fifo, robbed>>
     ELSE /\ rx_msix_fifo' = <<>>
          /\ robbed' = Bereft(t)
  /\ Goto(t, "abortTx")
  /\ UNCHANGED <<sessionVars, mutex, rx_is_abort, rx_is_read_abort, txVars, fw_is_abort,
                 call, target, status>>

(* Every chip's write side and the firmware channel are flagged, their     *)
(* indicators forgotten.                                                   *)
AbortTx(t) ==
  /\ pc[t] = "abortTx"
  /\ tx_is_abort' = [c \in Chips |-> TRUE]
  /\ tx_indicator' = [c \in Chips |-> FALSE]
  /\ abandoned' = [c \in Chips |-> inflight[c] > 0]
  /\ fw_is_abort' = TRUE
  /\ Unlock(t)
  /\ UNCHANGED <<sessionVars, rxVars, inflight, robbed>>

-----------------------------------------------------------------------------
(* MEMX_DUMMY_READ: memx_pcie_dummy_read, under the mutex.                 *)

DummyStart(t) ==
  /\ CanLock(t, "dummy")
  /\ \/ Pop(t) /\ Unlock(t)
     \/ /\ rx_msix_fifo = <<>>
        /\ mutex' = t
        /\ Goto(t, "dummyWait")
        /\ UNCHANGED <<rxVars, call, target, status, robbed>>
  /\ UNCHANGED <<sessionVars, txVars, fw_is_abort>>

(* 100 ms, or a signal; is_abort does not end this sleep.                  *)
DummyWait(t) ==
  /\ pc[t] = "dummyWait"
  /\ IF rx_msix_fifo # <<>>
     THEN /\ Goto(t, "dummyPop")
          /\ UNCHANGED <<mutex, call, target, status>>
     ELSE Unlock(t)
  /\ robbed' = [robbed EXCEPT ![t] = FALSE]
  /\ UNCHANGED <<sessionVars, rxVars, txVars, fw_is_abort>>

(* An empty fifo here is -EFAULT: a reader was quicker.                    *)
DummyPop(t) ==
  /\ pc[t] = "dummyPop"
  /\ \/ Pop(t)
     \/ rx_msix_fifo = <<>> /\ UNCHANGED <<rxVars, robbed>>
  /\ Unlock(t)
  /\ UNCHANGED <<sessionVars, txVars, fw_is_abort>>

-----------------------------------------------------------------------------
(* memx_fops_read: no lock.                                                *)

ReadEnter(t) ==
  /\ pc[t] = "user"
  /\ t \in opened
  /\ "read" \in Ops[t]
  /\ Goto(t, "readTry")
  /\ UNCHANGED <<sessionVars, mutex, rxVars, txVars, fw_is_abort, call, target, status, robbed>>

ReadTry(t) ==
  /\ pc[t] = "readTry"
  /\ \/ Pop(t) /\ Return(t)
     \/ /\ rx_msix_fifo = <<>>
        /\ Goto(t, "readWait")
        /\ UNCHANGED <<rxVars, call, target, status, robbed>>
  /\ UNCHANGED <<sessionVars, mutex, txVars, fw_is_abort>>

(* wait_event_interruptible_timeout(rx wq, is_abort or fifo not empty).    *)
ReadWait(t) ==
  /\ pc[t] = "readWait"
  /\ \E how \in Outcomes :
       /\ how = "ready" <=> (rx_is_abort \/ rx_msix_fifo # <<>>)
       /\ status' = [status EXCEPT ![t] = how]
  /\ robbed' = [robbed EXCEPT ![t] = FALSE]
  /\ Goto(t, "readWoken")
  /\ UNCHANGED <<sessionVars, mutex, rxVars, txVars, fw_is_abort, call, target>>

(* Wrong: a sleep that timed out is taken for a result.                    *)
ReadWokenHasty(t) ==
  /\ pc[t] = "readWoken"
  /\ Goto(t, IF rx_is_abort THEN "readAbort" ELSE "readPop")
  /\ UNCHANGED <<sessionVars, mutex, rxVars, txVars, fw_is_abort, call, target, status, robbed>>

(* The abort flag is looked at first, however the sleep ended.             *)
ReadWoken(t) ==
  /\ pc[t] = "readWoken"
  /\ IF ~rx_is_abort /\ status[t] = "signal"
     THEN Return(t)
     ELSE /\ Goto(t, IF rx_is_abort THEN "readAbort"
                     ELSE IF status[t] = "timeout" THEN "readWait" ELSE "readPop")
          /\ status' = [status EXCEPT ![t] = "none"]
          /\ UNCHANGED <<call, target>>
  /\ UNCHANGED <<sessionVars, mutex, rxVars, txVars, fw_is_abort, robbed>>

(* Wrong: the reader clears the abort and sleeps again.                    *)
ReadAbortSleeps(t) ==
  /\ pc[t] = "readAbort"
  /\ fw_is_abort' = FALSE
  /\ rx_is_abort' = FALSE
  /\ robbed' = Bereft(t)
  /\ Goto(t, "readWait")
  /\ UNCHANGED <<sessionVars, mutex, rx_msix_fifo, rx_is_read_abort, txVars, call, target, status>>

(* The reader consumes the abort, the firmware channel's with it.          *)
ReadAbort(t) ==
  /\ pc[t] = "readAbort"
  /\ fw_is_abort' = FALSE
  /\ rx_is_abort' = FALSE
  /\ robbed' = Bereft(t)
  /\ Return(t)
  /\ UNCHANGED <<sessionVars, mutex, rx_msix_fifo, rx_is_read_abort, txVars>>

(* The second kfifo_out; an empty fifo is -EFAULT.                         *)
ReadPop(t) ==
  /\ pc[t] = "readPop"
  /\ \/ Pop(t)
     \/ rx_msix_fifo = <<>> /\ UNCHANGED <<rxVars, robbed>>
  /\ Return(t)
  /\ UNCHANGED <<sessionVars, mutex, txVars, fw_is_abort>>

-----------------------------------------------------------------------------
(* memx_fops_write: the mutex is held until the device has answered.       *)

(* The target is checked and the device told to fetch the input; the       *)
(* chip's indicator and abort flag keep whatever they were.                *)
WriteStart(t) ==
  /\ CanLock(t, "write")
  /\ \/ target[t] = BadChip /\ Unlock(t) /\ UNCHANGED inflight
     \/ /\ target[t] # BadChip
        /\ inflight[target[t]] < MaxInflight
        /\ mutex' = t
        /\ inflight' = [inflight EXCEPT ![target[t]] = @ + 1]
        /\ Goto(t, "wrWait")
        /\ UNCHANGED <<call, target, status>>
  /\ UNCHANGED <<sessionVars, rxVars, tx_is_abort, tx_indicator, abandoned, fw_is_abort, robbed>>

(* wait_event_interruptible_timeout(tx wq, indicator = target chip).       *)
WriteWait(t) ==
  /\ pc[t] = "wrWait"
  /\ \E how \in Outcomes :
       /\ how = "ready" <=> tx_indicator[target[t]]
       /\ status' = [status EXCEPT ![t] = how]
  /\ Goto(t, "wrWoken")
  /\ UNCHANGED <<sessionVars, mutex, rxVars, txVars, fw_is_abort, call, target, robbed>>

(* Wrong: the aborted write returns without up.                            *)
WriteAbortedLocked(t) ==
  /\ pc[t] = "wrWoken"
  /\ tx_is_abort[target[t]]
  /\ tx_is_abort' = [tx_is_abort EXCEPT ![target[t]] = FALSE]
  /\ abandoned' = [abandoned EXCEPT ![target[t]] = TRUE]
  /\ Return(t)
  /\ UNCHANGED <<sessionVars, mutex, rxVars, tx_indicator, inflight, fw_is_abort, robbed>>

(* An abort left by an earlier ioctl ends the write although the device    *)
(* was triggered; so does a signal.  A timeout sleeps again.  Otherwise    *)
(* the answer is taken.                                                    *)
WriteAborted(t) ==
  /\ pc[t] = "wrWoken"
  /\ tx_is_abort[target[t]]
  /\ tx_is_abort' = [tx_is_abort EXCEPT ![target[t]] = FALSE]
  /\ abandoned' = [abandoned EXCEPT ![target[t]] = TRUE]
  /\ Unlock(t)
  /\ UNCHANGED <<sessionVars, rxVars, tx_indicator, inflight, fw_is_abort, robbed>>

WriteSignalled(t) ==
  /\ pc[t] = "wrWoken"
  /\ ~tx_is_abort[target[t]]
  /\ status[t] = "signal"
  /\ abandoned' = [abandoned EXCEPT ![target[t]] = TRUE]
  /\ Unlock(t)
  /\ UNCHANGED <<sessionVars, rxVars, tx_is_abort, tx_indicator, inflight, fw_is_abort, robbed>>

(* Wrong: the indicator is reset before sleeping again.                    *)
WriteRetryForgets(t) ==
  /\ pc[t] = "wrWoken"
  /\ ~tx_is_abort[target[t]]
  /\ status[t] = "timeout"
  /\ tx_indicator' = [tx_indicator EXCEPT ![target[t]] = FALSE]
  /\ Goto(t, "wrWait")
  /\ status' = [status EXCEPT ![t] = "none"]
  /\ UNCHANGED <<sessionVars, mutex, rxVars, tx_is_abort, inflight, abandoned, fw_is_abort,
                 call, target, robbed>>

WriteRetry(t) ==
  /\ pc[t] = "wrWoken"
  /\ ~tx_is_abort[target[t]]
  /\ status[t] = "timeout"
  /\ Goto(t, "wrWait")
  /\ status' = [status EXCEPT ![t] = "none"]
  /\ UNCHANGED <<sessionVars, mutex, rxVars, txVars, fw_is_abort, call, target, robbed>>

(* Wrong: the answer is left standing for the next write.                  *)
WriteDoneLeaves(t) ==
  /\ pc[t] = "wrWoken"
  /\ ~tx_is_abort[target[t]]
  /\ status[t] = "ready"
  /\ Unlock(t)
  /\ UNCHANGED <<sessionVars, rxVars, txVars, fw_is_abort, robbed>>

WriteDone(t) ==
  /\ pc[t] = "wrWoken"
  /\ ~tx_is_abort[target[t]]
  /\ status[t] = "ready"
  /\ tx_indicator' = [tx_indicator EXCEPT ![target[t]] = FALSE]
  /\ Unlock(t)
  /\ UNCHANGED <<sessionVars, rxVars, tx_is_abort, inflight, abandoned, fw_is_abort, robbed>>

-----------------------------------------------------------------------------
(* Interrupts.                                                             *)

(* Wrong: no look at the room in the fifo.                                 *)
EgressIsrOverrun(c) ==
  /\ rx_msix_fifo' = Append(rx_msix_fifo, c)
  /\ UNCHANGED <<sessionVars, mutex, rx_is_abort, rx_is_read_abort, txVars, fw_is_abort,
                 threadVars, robbed>>

(* memx_egress_dcore_isr: a result that finds the fifo full is lost.       *)
EgressIsr(c) ==
  /\ rx_msix_fifo' = IF Len(rx_msix_fifo) < FifoSize
                     THEN Append(rx_msix_fifo, c)
                     ELSE rx_msix_fifo
  /\ UNCHANGED <<sessionVars, mutex, rx_is_abort, rx_is_read_abort, txVars, fw_is_abort,
                 threadVars, robbed>>

(* memx_ingress_dcore_isr: the device has fetched an input of chip c.      *)
IngressIsr(c) ==
  /\ inflight[c] > 0
  /\ inflight' = [inflight EXCEPT ![c] = @ - 1]
  /\ tx_indicator' = [tx_indicator EXCEPT ![c] = TRUE]
  /\ UNCHANGED <<sessionVars, mutex, rxVars, tx_is_abort, abandoned, fw_is_abort,
                 threadVars, robbed>>
-----------------------------------------------------------------------------
Leave(t) == Open(t) \/ Release(t) \/ SetAbortRead(t)
Abort(t) == AbortFlag(t) \/ AbortDrain(t) \/ AbortTx(t)
Dummy(t) == DummyStart(t) \/ DummyWait(t) \/ DummyPop(t)
Read(t)  == ReadTry(t) \/ ReadWait(t) \/ ReadWoken(t) \/ ReadAbort(t) \/ ReadPop(t)
Write(t) == WriteStart(t) \/ WriteWait(t) \/ WriteAborted(t) \/ WriteSignalled(t)
              \/ WriteRetry(t) \/ WriteDone(t)

Next ==
  \/ \E t \in Threads :
       \/ Enter(t) \/ Interrupted(t) \/ ReadEnter(t)
       \/ Leave(t) \/ Abort(t) \/ Dummy(t) \/ Read(t) \/ Write(t)
  \/ \E c \in Chips : EgressIsr(c) \/ IngressIsr(c)

Spec == Init /\ [][Next]_vars

(* The kernel runs every thread that is inside a call, and hands the       *)
(* semaphore to its waiters in turn (its wait list is first in, first      *)
(* out), which a lock without a queue needs strong fairness for.  The      *)
(* device answers every input.  Nothing obliges a thread to make a call, a *)
(* signal to come or the device to have results.                           *)
Inside(t) == Dummy(t) \/ Read(t) \/ Write(t) \/ Abort(t)
Acquire(t) == mutex = Free /\ (Leave(t) \/ DummyStart(t) \/ WriteStart(t) \/ AbortFlag(t))
Fairness ==
  /\ \A t \in Threads : WF_vars(Inside(t)) /\ SF_vars(Acquire(t))
  /\ \A c \in Chips : WF_vars(IngressIsr(c))

FairSpec == Spec /\ Fairness

-----------------------------------------------------------------------------
SessionTypeOK ==
  /\ opened \in SUBSET Threads
  /\ reference_count \in Nat
  /\ mutex \in Threads \cup {Free}

RxTypeOK ==
  /\ rx_msix_fifo \in Seq(Chips)
  /\ Len(rx_msix_fifo) <= FifoSize
  /\ rx_is_abort \in BOOLEAN
  /\ rx_is_read_abort \in BOOLEAN
  /\ fw_is_abort \in BOOLEAN

TxTypeOK ==
  /\ tx_is_abort \in [Chips -> BOOLEAN]
  /\ tx_indicator \in [Chips -> BOOLEAN]
  /\ inflight \in [Chips -> 0..MaxInflight]
  /\ abandoned \in [Chips -> BOOLEAN]

ThreadTypeOK ==
  /\ pc \in [Threads -> Places]
  /\ call \in [Threads -> Locked \cup {"none"}]
  /\ target \in [Threads -> Chips \cup {BadChip}]
  /\ status \in [Threads -> Outcomes \cup {"none"}]
  /\ robbed \in [Threads -> BOOLEAN]

(* The types of the variables; in particular the fifo never exceeds the    *)
(* size kfifo_alloc gave it and the device never owes more than it was     *)
(* told to fetch.                                                          *)
TypeOK == SessionTypeOK /\ RxTypeOK /\ TxTypeOK /\ ThreadTypeOK

(* memx_dev->mutex is held exactly while a thread is inside one of the     *)
(* calls that take it: no path of write, dummy read or abort returns with  *)
(* it, and none goes on without it.                                        *)
LockDiscipline == \A t \in Threads : pc[t] \in Critical <=> mutex = t

(* A write that waits for a chip is always owed its wake-up: the device    *)
(* has not answered yet, or the answer stands in the indicator.  An abort  *)
(* clears the indicators of all chips, so this rests on abort and write    *)
(* excluding each other.                                                   *)
NoLostCompletion ==
  \A t \in Threads :
    pc[t] \in Writing => inflight[target[t]] > 0 \/ tx_indicator[target[t]]

(* The number of answers of chip c the host can still see.                 *)
Answers(c) == inflight[c] + (IF tx_indicator[c] THEN 1 ELSE 0)

(* As long as no write to the chip was given up (by an abort or a signal)  *)
(* its one answer belongs to the one write that waits for it, and there is *)
(* none when nobody waits: a write that returns its length has been fetched*)
(* by the device, never mistaken for an earlier one.                       *)
OwnCompletion ==
  \A c \in Chips : ~abandoned[c] =>
    Answers(c) = IF \E t \in Threads : pc[t] \in Writing /\ target[t] = c THEN 1 ELSE 0

(* A read or dummy read that was woken for a result and finds the fifo     *)
(* empty (-EFAULT) was overtaken: another call took the result or consumed *)
(* the abort that woke it, or an abort drained the fifo.                   *)
EfaultOnlyIfRobbed ==
  \A t \in Threads :
    pc[t] \in {"readPop", "dummyPop"} /\ rx_msix_fifo = <<>> => robbed[t]

(* reference_count never falls below the number of open files, whatever    *)
(* calls are interrupted, so that no open mistakes itself for the first.   *)
RefsCoverFiles == reference_count >= Cardinality(opened)

(* While a file is open an abort request stays until it is consumed: the   *)
(* write side's by a write to that chip, the read side's by a read that    *)
(* saw it.  In particular another open does not wipe it.                   *)
AbortNotForgotten ==
  [][opened # {} =>
       /\ \A c \in Chips : tx_is_abort[c] /\ ~tx_is_abort'[c] =>
            \E t \in Threads : pc[t] = "wrWoken" /\ target[t] = c /\ pc'[t] = "user"
       /\ rx_is_abort /\ ~rx_is_abort' =>
            \E t \in Threads : pc[t] = "readAbort" /\ pc'[t] = "user"]_vars

(* A write comes back: as the device answers every input it is told to     *)
(* fetch, no writer sleeps for ever on the mutex it holds.                 *)
WriteReturns == \A t \in Threads : pc[t] \in Writing ~> pc[t] = "user"

(* An abort gets through to the device and ends the read that waits.       *)
AbortReleasesReader ==
  \A t \in Threads :
    /\ (pc[t] = "want" /\ call[t] = "abort") ~> pc[t] = "user"
    /\ (pc[t] = "readWait" /\ rx_is_abort) ~> pc[t] = "user"
=============================================================================
