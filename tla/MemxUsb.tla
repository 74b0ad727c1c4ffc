------------------------------- MODULE MemxUsb -------------------------------
(***************************************************************************)
(* The USB driver (kdriver/linux/usb): one device, its four URBs, and the  *)
(* threads that read, write and send it commands.                          *)
(*                                                                         *)
(* A command is a sequence of bulk transfers.  For each the driver fills   *)
(* an URB, submits it and waits, up to a timeout, for a completion that    *)
(* the URB's callback signals.  All commands share the URBs and the        *)
(* completions, under cfglock; reads have an URB and a lock of their own.  *)
(* A completion is a counter: what one waiter leaves behind wakes another. *)
(***************************************************************************)
EXTENDS Naturals, Sequences

CONSTANTS
  Threads,
  OpSets,    (* functions from a thread to the calls it makes: one of them *)
             (* is in question                                             *)
  Chunks,    (* number of transfers that the data of a call takes          *)
  MaxDone,   (* bound: a completion counts no further than this            *)
  Free       (* a lock that nobody holds                                   *)

ASSUME UsbAssumption ==
  /\ Chunks \in Nat \ {0}
  /\ MaxDone \in Nat \ {0}
  /\ Free \notin Threads

VARIABLES
  urb,       (* txurb, fw_txurb, fw_rxurb, rxurb as the USB core has them  *)
  handler,   (* the completion that the callback of each URB signals       *)
  done,      (* the completions' counters                                  *)
  cfglock, readlock,
  state,     (* data->state, MEMX_XFER_STATE_*                             *)
  filled,    (* rbuffer has what the device sent for the URB last submitted*)
  pc,
  rest,      (* what a command has yet to do, the current transfer first   *)
  ops,
  watched,   (* history, of one kind of transfer: commands' that send,     *)
             (* commands' that receive, or reads                           *)
  trace      (* "clean" until something is left after one: "dirty"; or, if *)
             (* that was not so, a waiter was woken by something else than *)
             (* its own transfer: "fooled"                                 *)

usbVars == <<urb, handler, done>>
vars == <<usbVars, cfglock, readlock, state, filled, pc, rest, ops, watched, trace>>

-----------------------------------------------------------------------------
(* The commands as sequences of segments.  A segment is a sequence of      *)
(* transfers that is left at the first that fails; a failed segment either *)
(* ends the call (must) or, as its function returns void or jumps to the   *)
(* clearing of the command, is followed by the next segment (may).         *)

Urbs  == {"tx", "fwtx", "fwrx", "rx"}
Comps == {"fw", "tx", "fwrx", "rx"}
Steps == [urb : Urbs, comp : Comps, kill : BOOLEAN, reinit : BOOLEAN]

(* kill, reinit: what the code does to its URB and its completion when the *)
(* wait times out.                                                         *)
Step(u, c, kill, reinit) == [urb |-> u, comp |-> c, kill |-> kill, reinit |-> reinit]

Tx         == Step("tx", "fw", FALSE, FALSE)
TxData     == Step("tx", "tx", FALSE, FALSE)
FwRx       == Step("fwrx", "fwrx", FALSE, FALSE)
DbgRx      == Step("fwrx", "fwrx", TRUE, FALSE)
WriteChunk == Step("tx", "tx", TRUE, TRUE)
AdminTx    == Step("fwtx", "fw", TRUE, TRUE)
AdminRx    == Step("fwrx", "fwrx", TRUE, TRUE)

Must(steps) == [fatal |-> TRUE, steps |-> steps]
May(steps)  == [fatal |-> FALSE, steps |-> steps]
Data(step)  == [i \in 1..Chunks |-> step]

clear_fw_id     == May(<<Tx, Tx>>)
set_dfp_chip_id == May(<<Tx, Tx, Tx, Tx>>)     (* its clear_fw_id included *)
set_wtmem_addr  == May(<<Tx, Tx, Tx, Tx>>)
set_wtmem_size  == May(<<Tx>>)

memx_flash_download == <<May(<<Tx>> \o Data(Tx) \o <<FwRx>>), clear_fw_id>>
separate_config     == <<set_dfp_chip_id, Must(<<Tx>> \o Data(Tx)), clear_fw_id>>
separate_wtmem      == <<set_dfp_chip_id, set_wtmem_addr, set_wtmem_size, Must(Data(Tx)), clear_fw_id>>
write_reg           == <<Must(<<Tx>>), May(Data(TxData)), clear_fw_id>>
read_reg            == <<Must(<<Tx, Tx>>), clear_fw_id, Must(<<Tx, Tx>>), clear_fw_id, Must(<<FwRx>>)>>
get_fwupdate_status == <<Must(<<FwRx>>)>>
config_mpu_group    == <<Must(<<Tx, TxData>>), clear_fw_id>>
reset_device        == <<Must(<<Tx>>), clear_fw_id>>
mpu_in_size         == <<Must(<<Tx, Tx>>), clear_fw_id>>
mpu_out_size        == <<Must(<<Tx, Tx>>), clear_fw_id>>
memx_write          == <<Must(Data(WriteChunk))>>
memx_admin_trigger  == <<Must(<<AdminTx, AdminTx, AdminRx>>)>>
read_chip0          == <<Must(<<Tx, DbgRx>>)>>
feature_read_chip0  == <<Must(<<Tx, DbgRx>>)>>
memx_dbgfs_enable   == <<Must(<<Tx, DbgRx>>)>>
memx_send_memxcmd   == <<Must(<<Tx, DbgRx>>)>>
memx_get_logbuffer  == <<Must(<<Tx, DbgRx>>)>>

Scripts ==
  [download |-> memx_flash_download, config |-> separate_config, wtmem |-> separate_wtmem,
   writeReg |-> write_reg, readReg |-> read_reg, fwStatus |-> get_fwupdate_status,
   chipId |-> <<set_dfp_chip_id>>, group |-> config_mpu_group, reset |-> reset_device,
   inSize |-> mpu_in_size, outSize |-> mpu_out_size, write |-> memx_write,
   admin |-> memx_admin_trigger, chip0 |-> read_chip0, util |-> feature_read_chip0,
   enable |-> memx_dbgfs_enable, memxcmd |-> memx_send_memxcmd, log |-> memx_get_logbuffer]

ASSUME OpsAssumption ==
  OpSets \subseteq [Threads -> SUBSET (DOMAIN Scripts \cup {"dummy", "abort", "read"})]

-----------------------------------------------------------------------------
Places == {"idle", "fill", "submit", "wait", "expired", "unlink", "dummyLock", "dummyWait",
           "readLock", "readSubmit", "readCheck", "readAsleep", "readSignal", "readDone"}

Goto(t, place) == pc' = [pc EXCEPT ![t] = place]
Cur(t)  == Head(Head(rest[t]).steps)
Kind(s) == IF s.urb = "fwrx" THEN "in" ELSE "out"

TypeOK ==
  /\ urb \in [Urbs -> {"idle", "pending", "unlinked"}]
  /\ handler \in [Urbs -> Comps]
  /\ done \in [Comps -> 0..MaxDone]
  /\ {cfglock, readlock} \subseteq Threads \cup {Free}
  /\ state \in {"normal", "abort"}
  /\ filled \in BOOLEAN
  /\ pc \in [Threads -> Places]
  /\ \A t \in Threads : pc[t] \in {"fill", "submit", "wait", "expired"} => Cur(t) \in Steps
  /\ ops \in OpSets /\ watched \in {"out", "in", "rx"} /\ trace \in {"clean", "dirty", "fooled"}

Init ==
  /\ urb = [u \in Urbs |-> "idle"]
  /\ handler = [u \in Urbs |-> IF u = "rx" THEN "rx" ELSE IF u = "fwrx" THEN "fwrx" ELSE "fw"]
  /\ done = [c \in Comps |-> 0]
  /\ cfglock = Free /\ readlock = Free
  /\ state = "normal"
  /\ filled = FALSE
  /\ pc = [t \in Threads |-> "idle"]
  /\ rest = [t \in Threads |-> <<>>]
  /\ ops \in OpSets
  /\ watched \in {"out", "in", "rx"} /\ trace = "clean"

(* complete(): one more wake-up for whoever waits, or will wait, for c.    *)
Signalled(c) == [done EXCEPT ![c] = IF @ < MaxDone THEN @ + 1 ELSE @]

After(kind, what) == IF kind = watched /\ trace = "clean" THEN what ELSE trace
LeftBehind(kind, something) == trace' = IF something THEN After(kind, "dirty") ELSE trace
WokenBy(kind, own) == trace' = IF own THEN trace ELSE After(kind, "fooled")

(* The USB core gives an URB back, with data or unlinked: its callback     *)
(* signals the completion; that of rxurb wakes the reader too.             *)
Giveback(u, data) ==
  /\ urb' = [urb EXCEPT ![u] = "idle"]
  /\ done' = Signalled(handler[u])
  /\ filled' = IF u = "rx" THEN data ELSE filled
  /\ pc' = IF u = "rx" THEN [t \in Threads |-> IF pc[t] = "readAsleep" THEN "readCheck" ELSE pc[t]]
                       ELSE pc
  /\ UNCHANGED <<handler, cfglock, readlock, state, rest, ops, watched, trace>>

Complete(u)   == urb[u] = "pending" /\ Giveback(u, TRUE)
UnlinkDone(u) == urb[u] = "unlinked" /\ Giveback(u, FALSE)

(* usb_kill_urb: an URB in flight comes back, through its callback.        *)
(* reinit_completion: the counter is zero.                                 *)
KilledUrb(u) == [urb EXCEPT ![u] = "idle"]
KilledDone(u) == IF urb[u] = "idle" THEN done ELSE Signalled(handler[u])
(* Wrong: the completion is cleared before the URB comes back.             *)
ReinitKill(u, c) ==
  LET cleared == [done EXCEPT ![c] = 0]
  IN IF urb[u] = "idle" THEN cleared ELSE [cleared EXCEPT ![handler[u]] = 1]

KillReinit(u, c) == [KilledDone(u) EXCEPT ![c] = 0]

-----------------------------------------------------------------------------
(* Calls under cfglock                                                     *)

(* On with what is left of the command, or out of the call.                *)
GoOn(t, left) ==
  /\ rest' = [rest EXCEPT ![t] = left]
  /\ IF left = <<>> THEN Goto(t, "idle") /\ cfglock' = Free
                    ELSE Goto(t, "fill") /\ UNCHANGED cfglock

(* Wrong: a segment's last transfer is repeated for ever.                  *)
NextSame(t) ==
  LET s == Head(rest[t]) IN
  GoOn(t, IF Len(s.steps) > 1 THEN <<[s EXCEPT !.steps = Tail(@)]>> \o Tail(rest[t])
                              ELSE rest[t])

NextTransfer(t) ==
  LET s == Head(rest[t]) IN
  GoOn(t, IF Len(s.steps) > 1 THEN <<[s EXCEPT !.steps = Tail(@)]>> \o Tail(rest[t])
                              ELSE Tail(rest[t]))

GiveUp(t) == GoOn(t, IF Head(rest[t]).fatal THEN <<>> ELSE Tail(rest[t]))

Lock(t) ==
  /\ pc[t] = "idle" /\ cfglock = Free
  /\ \E o \in ops[t] \cap DOMAIN Scripts : rest' = [rest EXCEPT ![t] = Scripts[o]]
  /\ cfglock' = t
  /\ Goto(t, "fill")
  /\ UNCHANGED <<usbVars, readlock, state, filled, ops, watched, trace>>

(* The buffer is written and usb_fill_bulk_urb sets the callback, whether  *)
(* the URB is in flight or not; or copy_from_user fails.                   *)
Fill(t) ==
  /\ pc[t] = "fill"
  /\ \/ /\ handler' = [handler EXCEPT ![Cur(t).urb] = Cur(t).comp]
        /\ Goto(t, "submit")
        /\ UNCHANGED <<cfglock, rest>>
     \/ GiveUp(t) /\ UNCHANGED handler
  /\ UNCHANGED <<urb, done, readlock, state, filled, ops, watched, trace>>

(* usb_submit_urb refuses an URB that is in flight, and may fail anyway.   *)
Submit(t) ==
  /\ pc[t] = "submit"
  /\ \/ /\ urb[Cur(t).urb] = "idle"
        /\ urb' = [urb EXCEPT ![Cur(t).urb] = "pending"]
        /\ Goto(t, "wait")
        /\ UNCHANGED <<cfglock, rest>>
     \/ GiveUp(t) /\ UNCHANGED urb
  /\ UNCHANGED <<handler, done, readlock, state, filled, ops, watched, trace>>

(* wait_for_completion_timeout returns in time: one signal is used up.     *)
Woken(t) ==
  LET s == Cur(t) IN
  /\ pc[t] = "wait" /\ done[s.comp] > 0
  /\ done' = [done EXCEPT ![s.comp] = @ - 1]
  /\ WokenBy(Kind(s), urb[s.urb] = "idle")
  /\ NextTransfer(t)
  /\ UNCHANGED <<urb, handler, readlock, state, filled, ops, watched>>

(* Wrong: wait_for_completion.                                             *)
NoTimeout(t) == FALSE /\ pc[t] = "wait" /\ UNCHANGED vars

Timeout(t) ==
  /\ pc[t] = "wait" /\ done[Cur(t).comp] = 0
  /\ Goto(t, "expired")
  /\ UNCHANGED <<usbVars, cfglock, readlock, state, filled, rest, ops, watched, trace>>

(* Wrong: the URB stays with the USB core.                                 *)
NotKilled(s) ==
  /\ done' = IF s.reinit THEN [done EXCEPT ![s.comp] = 0] ELSE done
  /\ UNCHANGED urb

(* What follows a timeout; the URB may have completed in the meantime.     *)
Cleaned(s) ==
  /\ urb' = IF s.kill THEN KilledUrb(s.urb) ELSE urb
  /\ done' = IF s.kill /\ s.reinit THEN KillReinit(s.urb, s.comp)
             ELSE IF s.kill THEN KilledDone(s.urb) ELSE done

Expired(t) ==
  LET s == Cur(t) IN
  /\ pc[t] = "expired"
  /\ Cleaned(s)
  /\ LeftBehind(Kind(s), ~(s.kill /\ s.reinit))
  /\ GiveUp(t)
  /\ UNCHANGED <<handler, readlock, state, filled, ops, watched>>

(* MEMX_ABORT_TRANSFER: the state first, then rxurb is taken back.         *)
Abort(t) ==
  /\ "abort" \in ops[t]
  /\ pc[t] = "idle" /\ cfglock = Free
  /\ cfglock' = t
  /\ state' = "abort"
  /\ Goto(t, "unlink")
  /\ UNCHANGED <<usbVars, readlock, filled, rest, ops, watched, trace>>

(* Wrong: the URB is not taken back, nobody wakes the reader.              *)
UnlinkNothing(t) ==
  /\ pc[t] = "unlink"
  /\ cfglock' = Free
  /\ Goto(t, "idle")
  /\ UNCHANGED <<usbVars, readlock, state, filled, rest, ops, watched, trace>>

Unlink(t) ==
  /\ pc[t] = "unlink"
  /\ urb' = [urb EXCEPT !["rx"] = IF @ = "pending" THEN "unlinked" ELSE @]
  /\ cfglock' = Free
  /\ Goto(t, "idle")
  /\ UNCHANGED <<handler, done, readlock, state, filled, rest, ops, watched, trace>>

(* MEMX_DUMMY_READ waits for the readers' lock, cfglock in hand.           *)
Dummy(t) ==
  /\ "dummy" \in ops[t]
  /\ pc[t] = "idle" /\ cfglock = Free
  /\ cfglock' = t
  /\ Goto(t, "dummyLock")
  /\ UNCHANGED <<usbVars, readlock, state, filled, rest, ops, watched, trace>>

(* rxurb is filled and submitted, if it is not in flight.                  *)
SubmitRx ==
  /\ urb["rx"] = "idle"
  /\ urb' = [urb EXCEPT !["rx"] = "pending"]
  /\ filled' = FALSE

DummySubmit(t) ==
  /\ pc[t] = "dummyLock" /\ readlock = Free
  /\ \/ SubmitRx /\ readlock' = t /\ Goto(t, "dummyWait") /\ UNCHANGED cfglock
     \/ Goto(t, "idle") /\ cfglock' = Free /\ UNCHANGED <<urb, filled, readlock>>
  /\ UNCHANGED <<handler, done, state, rest, ops, watched, trace>>

DummyEnd(t) ==
  /\ pc[t] = "dummyWait"
  /\ \/ /\ done["rx"] > 0
        /\ done' = [done EXCEPT !["rx"] = @ - 1]
        /\ WokenBy("rx", filled)
        /\ UNCHANGED urb
     \/ /\ done["rx"] = 0
        /\ urb' = KilledUrb("rx") /\ done' = KillReinit("rx", "rx")
        /\ UNCHANGED trace
  /\ readlock' = Free /\ cfglock' = Free
  /\ Goto(t, "idle")
  /\ UNCHANGED <<handler, state, filled, rest, ops, watched>>

-----------------------------------------------------------------------------
(* memx_read                                                               *)

(* A read that finds the abort state returns -EAGAIN and leaves it set.    *)
Read(t) ==
  /\ "read" \in ops[t]
  /\ pc[t] = "idle" /\ state = "normal"
  /\ Goto(t, "readLock")
  /\ UNCHANGED <<usbVars, cfglock, readlock, state, filled, rest, ops, watched, trace>>

ReadLock(t) ==
  /\ pc[t] = "readLock" /\ readlock = Free
  /\ readlock' = t
  /\ Goto(t, "readSubmit")
  /\ UNCHANGED <<usbVars, cfglock, state, filled, rest, ops, watched, trace>>

ReadSubmit(t) ==
  /\ pc[t] = "readSubmit"
  /\ \/ SubmitRx /\ Goto(t, "readCheck") /\ UNCHANGED readlock
     \/ Goto(t, "idle") /\ readlock' = Free /\ UNCHANGED <<urb, filled>>
  /\ UNCHANGED <<handler, done, cfglock, state, rest, ops, watched, trace>>

(* wait_event_interruptible looks at its condition when it is entered and  *)
(* whenever the callback wakes it, and may be ended by a signal.           *)
ReadCheck(t) ==
  /\ pc[t] = "readCheck"
  /\ Goto(t, IF done["rx"] > 0 \/ state = "abort" THEN "readDone" ELSE "readAsleep")
  /\ UNCHANGED <<usbVars, cfglock, readlock, state, filled, rest, ops, watched, trace>>

ReadSignal(t) ==
  /\ pc[t] = "readAsleep"
  /\ Goto(t, "readSignal")
  /\ UNCHANGED <<usbVars, cfglock, readlock, state, filled, rest, ops, watched, trace>>

Unlinking == \E u \in Threads : pc[u] = "unlink"

(* The abort is taken note of, rxurb is quiet and nothing is left behind.  *)
ReadAborted ==
  /\ state = "abort" /\ state' = "normal"
  /\ urb' = KilledUrb("rx") /\ done' = KillReinit("rx", "rx")
  /\ LeftBehind("rx", Unlinking)

(* Wrong: a signal leaves the completion as it is.                         *)
InterruptedLeaves(t) ==
  /\ state = "normal" /\ pc[t] = "readSignal"
  /\ urb' = KilledUrb("rx") /\ done' = KilledDone("rx")
  /\ UNCHANGED <<state, trace>>

ReadInterrupted(t) ==
  /\ state = "normal" /\ pc[t] = "readSignal"
  /\ urb' = KilledUrb("rx") /\ done' = KillReinit("rx", "rx")
  /\ UNCHANGED <<state, trace>>

(* The data is copied; if that fails the completion keeps its count.       *)
ReadData(t) ==
  /\ state = "normal" /\ pc[t] = "readDone"
  /\ \/ done' = [done EXCEPT !["rx"] = 0] /\ WokenBy("rx", filled)
     \/ trace' = After("rx", IF filled THEN "dirty" ELSE "fooled") /\ UNCHANGED done
  /\ UNCHANGED <<urb, state>>

ReadEnd(t) ==
  /\ pc[t] \in {"readDone", "readSignal"}
  /\ ReadAborted \/ ReadInterrupted(t) \/ ReadData(t)
  /\ readlock' = Free
  /\ Goto(t, "idle")
  /\ UNCHANGED <<handler, cfglock, filled, rest, ops, watched>>

(* The last file is closed and one opened: memx_release, memx_open.        *)
Reopen ==
  /\ \A t \in Threads : pc[t] = "idle"
  /\ state' = "normal"
  /\ UNCHANGED <<usbVars, cfglock, readlock, filled, pc, rest, ops, watched, trace>>

-----------------------------------------------------------------------------
(* A call goes on by itself once begun, except that a read waits for the   *)
(* device.                                                                 *)
Go(t) ==
  \/ Fill(t) \/ Submit(t) \/ Woken(t) \/ Timeout(t) \/ Expired(t)
  \/ Unlink(t) \/ DummySubmit(t) \/ DummyEnd(t)
  \/ ReadLock(t) \/ ReadSubmit(t) \/ ReadCheck(t) \/ ReadEnd(t)

Next ==
  \/ \E t \in Threads : \/ Lock(t) \/ Abort(t) \/ Dummy(t) \/ Read(t) \/ ReadSignal(t)
                        \/ Go(t)
  \/ \E u \in Urbs : Complete(u) \/ UnlinkDone(u)
  \/ Reopen

Spec == Init /\ [][Next]_vars

(* Threads run, waits end, and the USB core gives back what it was told to;*)
(* the device need not ever complete a transfer.                           *)
Fairness ==
  /\ \A t \in Threads : WF_vars(Go(t))
  /\ WF_vars(UnlinkDone("rx"))

FairSpec == Spec /\ Fairness

-----------------------------------------------------------------------------
(* A command's wait for a transfer, sent or received, is ended by that     *)
(* transfer, as long as no earlier wait in that direction was given up     *)
(* without taking the URB back and clearing the completion: the code does  *)
(* this in memx_write and memx_admin_trigger and nowhere else.             *)
WokenByOwnUrb == watched \in {"out", "in"} => trace # "fooled"

(* A read, or dummy read, that returns data returns what the device sent   *)
(* for it, unless an earlier copy_to_user failed, or its URB was taken back*)
(* by an abort that another read had already answered to.                  *)
ReadIsData == watched = "rx" => trace # "fooled"

(* With no such leftovers, every URB is quiet and every completion zero    *)
(* when the lock it is used under is free.                                 *)
QuietAtRest ==
  trace = "clean" =>
    CASE watched = "out" ->
           cfglock = Free => urb["tx"] = "idle" /\ urb["fwtx"] = "idle" /\ done["fw"] = 0 /\ done["tx"] = 0
      [] watched = "in" -> cfglock = Free => urb["fwrx"] = "idle" /\ done["fwrx"] = 0
      [] watched = "rx" -> readlock = Free => urb["rx"] = "idle" /\ done["rx"] = 0

(* A read that waits when an abort is set ends.                            *)
AbortEndsRead ==
  \A t \in Threads : pc[t] \in {"readCheck", "readAsleep"} /\ state = "abort" ~> pc[t] = "idle"

(* Every command ends and gives cfglock back, whatever the device does,    *)
(* except that a dummy read waits, cfglock in hand, for whoever reads.     *)
BehindReader == readlock # Free /\ \E t \in Threads : pc[t] = "dummyLock"
CommandsEnd == cfglock # Free ~> cfglock = Free \/ BehindReader
=============================================================================
