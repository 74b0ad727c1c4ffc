-------------------------- MODULE MemxFwCmd_proofs --------------------------
(***************************************************************************)
(* Safety of the firmware command channel for any devices, users, probes   *)
(* and bounds, in three layers:                                            *)
(*   Base     types, and that whoever is inside a call has a command;      *)
(*   Locks    Base and who holds the two locks;                            *)
(*   Channel  Locks, whose acknowledgement is on its way and whose result  *)
(*            the buffer holds.                                            *)
(***************************************************************************)
EXTENDS MemxFwCmd, SequenceTheorems, TLAPS

USE DEF Threads, Places, Inside, Waiting, Reading, Outcomes

(* Whoever is inside a call has a command to send or to finish, and a      *)
(* probe takes no part in what only ioctls do.                             *)
JobInv ==
  /\ \A t \in Threads : pc[t] \in Inside \cup {"want"} => job[t] # <<>>
  /\ \A p \in Probes : pc[p] \notin {"want", "abortFw"}

Base == TypeOK /\ JobInv

-----------------------------------------------------------------------------
(* Sequences of commands.                                                  *)

LEMMA ScriptType ==
  ASSUME NEW name \in DOMAIN Script
  PROVE  Script[name] \in Seq(Commands) /\ Script[name] # <<>>
  <1>1. name \in {"config", "download", "wtmem", "waitack", "vendor", "poke", "abort"}
    BY DEF Script
  <1>2. CASE name = "config"
    <2>1. Script[name] = <<"config", "hwinfo">>
      BY <1>2 DEF Script
    <2> QED
      BY <2>1 DEF Commands
  <1>3. CASE name # "config"
    <2>1. \E c \in Commands : Script[name] = <<c>>
      BY <1>1, <1>3 DEF Script, Commands
    <2> QED
      BY <2>1
  <1> QED
    BY <1>2, <1>3

LEMMA BootType ==
  /\ PcieBoot \in Seq(Commands) /\ PcieBoot # <<>>
  /\ QspiBoot \in Seq(Commands) /\ QspiBoot # <<>>
  BY DEF PcieBoot, QspiBoot, Commands

LEMMA TailType ==
  ASSUME NEW s \in Seq(Commands), s # <<>>
  PROVE  /\ Tail(s) \in Seq(Commands)
         /\ Len(s) > 1 => Tail(s) # <<>>
  <1>1. Tail(s) \in Seq(Commands) /\ Len(Tail(s)) = Len(s) - 1
    BY HeadTailProperties
  <1>2. Len(s) \in Nat
    BY LenProperties
  <1>3. Len(s) > 1 => Len(Tail(s)) # 0
    BY <1>1, <1>2
  <1> QED
    BY <1>1, <1>3

(* What Advance does to the thread, to the others and to the mutexes.      *)
LEMMA AdvanceStep ==
  ASSUME Base, NEW t \in Threads, pc[t] \in Inside, Advance(t)
  PROVE  /\ mutex' \in [Devices -> Users \cup {Free}]
         /\ pc' \in [Threads -> Places]
         /\ job' \in [Threads -> Seq(Commands)]
         /\ JobInv'
         /\ \A u \in Threads : u # t => pc'[u] = pc[u] /\ job'[u] = job[u]
         /\ pc'[t] \in {"sem", "user", "done"}
         /\ \/ pc'[t] = "sem" /\ mutex' = mutex
            \/ pc'[t] = "user" /\ t \in Users /\ mutex' = [mutex EXCEPT ![Dev[t]] = Free]
            \/ pc'[t] = "done" /\ t \in Probes /\ mutex' = mutex
  <1>1. job[t] \in Seq(Commands) /\ job[t] # <<>> /\ Dev[t] \in Devices
    BY FwCmdAssumption DEF Base, TypeOK, ThreadTypeOK, JobInv
  <1>2. Tail(job[t]) \in Seq(Commands) /\ (Len(job[t]) > 1 => Tail(job[t]) # <<>>)
    BY <1>1, TailType
  <1>3. /\ pc \in [Threads -> Places]
        /\ job \in [Threads -> Seq(Commands)]
        /\ mutex \in [Devices -> Users \cup {Free}]
    BY DEF Base, TypeOK, ThreadTypeOK, LockTypeOK
  <1>4. /\ job' = [job EXCEPT ![t] = Tail(job[t])]
        /\ \/ Len(job[t]) > 1 /\ pc' = [pc EXCEPT ![t] = "sem"] /\ mutex' = mutex
           \/ /\ t \in Users /\ pc' = [pc EXCEPT ![t] = "user"]
              /\ mutex' = [mutex EXCEPT ![Dev[t]] = Free]
           \/ t \in Probes /\ pc' = [pc EXCEPT ![t] = "done"] /\ mutex' = mutex
    BY DEF Advance, Goto
  <1>5. JobInv'
    BY <1>2, <1>3, <1>4 DEF Base, JobInv
  <1> QED
    BY <1>1, <1>2, <1>3, <1>4, <1>5

(* What giving a command up does.                                          *)
LEMMA GiveUpStep ==
  ASSUME Base, NEW t \in Threads, pc[t] = "ackWoken", GiveUp(t)
  PROVE  /\ mutex' \in [Devices -> Users \cup {Free}]
         /\ ThreadTypeOK' /\ JobInv'
         /\ fw_cmd_mutex' = Free
         /\ \A u \in Threads : u # t => pc'[u] = pc[u] /\ job'[u] = job[u]
         /\ \/ pc'[t] \in {"sem", "copy"} /\ mutex' = mutex
            \/ pc'[t] = "user" /\ t \in Users /\ mutex' = [mutex EXCEPT ![Dev[t]] = Free]
            \/ pc'[t] \in {"done", "failed"} /\ t \in Probes /\ mutex' = mutex
         /\ UNCHANGED <<buffer, owed, alone>>
         /\ \A u \in Threads : u # t => status'[u] = status[u]
  <1>1. /\ status' \in [Threads -> Outcomes \cup {"none"}]
        /\ fail_count' \in [Threads -> 0..FailAckCount - 1]
        /\ alone' \in [Threads -> BOOLEAN]
        /\ \A u \in Threads : u # t => status'[u] = status[u]
    BY FwCmdAssumption DEF GiveUp, fwVars, Base, TypeOK, ThreadTypeOK
  <1>2. fw_cmd_mutex' = Free /\ UNCHANGED <<buffer, owed, alone>>
    BY DEF GiveUp, fwVars
  <1>3. CASE t \in Probes /\ Head(job[t]) = "hwinfo"
    <2>1. pc' = [pc EXCEPT ![t] = "failed"] /\ job' = [job EXCEPT ![t] = <<>>] /\ mutex' = mutex
      BY <1>3 DEF GiveUp, Goto
    <2>2. <<>> \in Seq(Commands)
      OBVIOUS
    <2>3. /\ pc \in [Threads -> Places] /\ job \in [Threads -> Seq(Commands)]
          /\ mutex \in [Devices -> Users \cup {Free}]
      BY DEF Base, TypeOK, ThreadTypeOK, LockTypeOK
    <2>4. JobInv'
      BY <2>1, <2>3 DEF Base, JobInv
    <2> QED
      BY <1>1, <1>2, <1>3, <2>1, <2>2, <2>3, <2>4 DEF ThreadTypeOK
  <1>4. CASE ~(t \in Probes /\ Head(job[t]) = "hwinfo") /\ Head(job[t]) = "vendor0"
    <2>1. pc' = [pc EXCEPT ![t] = "copy"] /\ job' = job /\ mutex' = mutex
      BY <1>4 DEF GiveUp, Goto
    <2>2. /\ pc \in [Threads -> Places] /\ job \in [Threads -> Seq(Commands)]
          /\ mutex \in [Devices -> Users \cup {Free}]
      BY DEF Base, TypeOK, ThreadTypeOK, LockTypeOK
    <2>3. JobInv'
      BY <2>1, <2>2 DEF Base, JobInv
    <2> QED
      BY <1>1, <1>2, <2>1, <2>2, <2>3 DEF ThreadTypeOK
  <1>5. CASE ~(t \in Probes /\ Head(job[t]) = "hwinfo") /\ Head(job[t]) # "vendor0"
    <2>1. Advance(t)
      BY <1>5 DEF GiveUp
    <2> QED
      BY <1>1, <1>2, <2>1, AdvanceStep DEF ThreadTypeOK
  <1> QED
    BY <1>3, <1>4, <1>5

-----------------------------------------------------------------------------
(* Base.                                                                   *)

LEMMA InitBase == Init => Base
  <1> SUFFICES ASSUME Init PROVE Base
    OBVIOUS
  <1>1. LockTypeOK
    BY DEF Init, LockTypeOK
  <1>2. ChannelTypeOK
    BY FwCmdAssumption DEF Init, ChannelTypeOK
  <1>3. ThreadTypeOK
    <2>1. <<>> \in Seq(Commands)
      OBVIOUS
    <2> QED
      BY <2>1, FwCmdAssumption DEF Init, ThreadTypeOK
  <1>4. JobInv
    BY DEF Init, JobInv
  <1> QED
    BY <1>1, <1>2, <1>3, <1>4 DEF Base, TypeOK

LEMMA CallsKeepBase ==
  ASSUME Base, NEW u \in Users, Enter(u) \/ Interrupted(u) \/ Ioctl(u)
  PROVE  Base'
  <1> USE FwCmdAssumption DEF flagVars, fwVars, Goto
  <1>1. CASE Enter(u)
    <2>1. PICK name \in Jobs[u] : job' = [job EXCEPT ![u] = Script[name]]
      BY <1>1 DEF Enter
    <2>2. Script[name] \in Seq(Commands) /\ Script[name] # <<>>
      <3>1. name \in DOMAIN Script
        OBVIOUS
      <3> QED
        BY <3>1, ScriptType
    <2>3. LockTypeOK' /\ ChannelTypeOK'
      BY <1>1 DEF Enter, Base, TypeOK, LockTypeOK, ChannelTypeOK
    <2>4. ThreadTypeOK'
      BY <1>1, <2>1, <2>2 DEF Enter, Base, TypeOK, ThreadTypeOK
    <2>5. JobInv'
      BY <1>1, <2>1, <2>2 DEF Enter, Base, TypeOK, ThreadTypeOK, JobInv
    <2> QED
      BY <2>3, <2>4, <2>5 DEF Base, TypeOK
  <1>2. CASE Interrupted(u)
    <2>1. <<>> \in Seq(Commands)
      OBVIOUS
    <2>2. LockTypeOK' /\ ChannelTypeOK' /\ ThreadTypeOK'
      BY <1>2, <2>1 DEF Interrupted, Base, TypeOK, LockTypeOK, ChannelTypeOK, ThreadTypeOK
    <2>3. JobInv'
      BY <1>2 DEF Interrupted, Base, TypeOK, ThreadTypeOK, JobInv
    <2> QED
      BY <2>2, <2>3 DEF Base, TypeOK
  <1>3. CASE Start(u)
    <2>1. LockTypeOK' /\ ThreadTypeOK'
      BY <1>3 DEF Start, Base, TypeOK, LockTypeOK, ThreadTypeOK
    <2>2. ChannelTypeOK'
      BY <1>3 DEF Start, Base, TypeOK, ChannelTypeOK
    <2>3. JobInv'
      BY <1>3 DEF Start, CanLock, Base, TypeOK, ThreadTypeOK, JobInv
    <2> QED
      BY <2>1, <2>2, <2>3 DEF Base, TypeOK
  <1>4. CASE AbortRx(u)
    <2>1. LockTypeOK' /\ ChannelTypeOK' /\ ThreadTypeOK'
      BY <1>4 DEF AbortRx, Base, TypeOK, LockTypeOK, ChannelTypeOK, ThreadTypeOK
    <2>2. JobInv'
      BY <1>4 DEF AbortRx, CanLock, Base, TypeOK, ThreadTypeOK, JobInv
    <2> QED
      BY <2>1, <2>2 DEF Base, TypeOK
  <1>5. CASE AbortFw(u)
    <2>1. pc[u] \in Inside /\ Advance(u)
      BY <1>5 DEF AbortFw
    <2>2. ChannelTypeOK' /\ fw_cmd_mutex' = fw_cmd_mutex
      BY <1>5 DEF AbortFw, Base, TypeOK, ChannelTypeOK
    <2>3. UNCHANGED <<status, fail_count, alone>>
      BY <1>5 DEF AbortFw
    <2> QED
      BY <2>1, <2>2, <2>3, AdvanceStep DEF Base, TypeOK, LockTypeOK, ThreadTypeOK
  <1> QED
    BY <1>1, <1>2, <1>3, <1>4, <1>5 DEF Ioctl

LEMMA ProbeKeepsBase ==
  ASSUME Base, NEW p \in Probes, Probe(p)
  PROVE  Base'
  <1> USE FwCmdAssumption DEF flagVars, fwVars, Goto
  <1>1. LockTypeOK'
    BY DEF Probe, Base, TypeOK, LockTypeOK
  <1>2. ChannelTypeOK'
    BY DEF Probe, Base, TypeOK, ChannelTypeOK
  <1>3. alone' \in [Threads -> BOOLEAN]
    BY Zenon DEF Probe, Base, TypeOK, ThreadTypeOK
  <1>4. PICK s \in {PcieBoot, QspiBoot} : job' = [job EXCEPT ![p] = s]
    BY DEF Probe
  <1>5. s \in Seq(Commands) /\ s # <<>>
    BY BootType
  <1>6. ThreadTypeOK'
    BY <1>3, <1>4, <1>5 DEF Probe, Base, TypeOK, ThreadTypeOK
  <1>7. JobInv'
    BY <1>4, <1>5 DEF Probe, Base, TypeOK, ThreadTypeOK, JobInv
  <1> QED
    BY <1>1, <1>2, <1>6, <1>7 DEF Base, TypeOK

LEMMA CommandsKeepBase ==
  ASSUME Base, NEW t \in Threads, Send(t) \/ Command(t)
  PROVE  Base'
  <1> USE FwCmdAssumption DEF flagVars, fwVars, Goto
  <1>1. CASE Send(t)
    <2>1. ChannelTypeOK'
      <3>1. UNCHANGED <<is_abort, indicator, rx_is_abort>>
        BY <1>1 DEF Send
      <3>2. CASE UNCHANGED <<buffer, owed>>
        BY <3>1, <3>2 DEF Base, TypeOK, ChannelTypeOK
      <3>3. CASE ~UNCHANGED <<buffer, owed>>
        <4>1. /\ buffer' = [buffer EXCEPT ![Dev[t]] = [owner |-> t, done |-> FALSE]]
              /\ owed' = [owed EXCEPT ![Dev[t]] = IF @ < MaxOwed THEN @ + 1 ELSE @]
          BY <1>1, <3>3 DEF Send
        <4>2. buffer' \in [Devices -> [owner : Threads \cup {Free}, done : BOOLEAN]]
          BY <4>1 DEF Base, TypeOK, ChannelTypeOK
        <4>3. owed' \in [Devices -> 0..MaxOwed]
          BY <4>1 DEF Base, TypeOK, ChannelTypeOK
        <4> QED
          BY <3>1, <4>2, <4>3 DEF Base, TypeOK, ChannelTypeOK
      <3> QED
        BY <3>2, <3>3
    <2>2. alone' \in [Threads -> BOOLEAN]
      <3>1. (owed[Dev[t]] = 0 /\ ~indicator[Dev[t]]) \in BOOLEAN
        OBVIOUS
      <3> QED
        BY <1>1, <3>1, Zenon DEF Send, Base, TypeOK, ThreadTypeOK
    <2>3. LockTypeOK' /\ ThreadTypeOK'
      BY <1>1, <2>2 DEF Send, Base, TypeOK, LockTypeOK, ThreadTypeOK
    <2>4. JobInv'
      BY <1>1 DEF Send, Base, TypeOK, ThreadTypeOK, JobInv
    <2> QED
      BY <2>1, <2>3, <2>4 DEF Base, TypeOK
  <1>2. CASE WaitAck(t)
    <2>1. LockTypeOK' /\ ChannelTypeOK' /\ ThreadTypeOK'
      BY <1>2 DEF WaitAck, Base, TypeOK, LockTypeOK, ChannelTypeOK, ThreadTypeOK
    <2>2. JobInv'
      BY <1>2 DEF WaitAck, Base, TypeOK, ThreadTypeOK, JobInv
    <2> QED
      BY <2>1, <2>2 DEF Base, TypeOK
  <1>3. CASE pc[t] = "ackWoken" /\ GiveUp(t) /\ ChannelTypeOK'
    BY <1>3, GiveUpStep DEF Base, TypeOK, LockTypeOK
  <1>4. CASE AckAborted(t)
    <2>1. ChannelTypeOK'
      BY <1>4 DEF AckAborted, GiveUp, Base, TypeOK, ChannelTypeOK
    <2> QED
      BY <1>3, <1>4, <2>1 DEF AckAborted
  <1>5. CASE AckSignalled(t)
    <2>1. ChannelTypeOK'
      BY <1>5 DEF AckSignalled, GiveUp, Base, TypeOK, ChannelTypeOK
    <2> QED
      BY <1>3, <1>5, <2>1 DEF AckSignalled
  <1>6. CASE AckTimeout(t)
    <2>1. ChannelTypeOK'
      BY <1>6 DEF AckTimeout, GiveUp, Base, TypeOK, ChannelTypeOK
    <2>2. CASE fail_count[t] + 1 < FailAckCount
      <3>1. LockTypeOK' /\ ThreadTypeOK'
        <4>1. fail_count' \in [Threads -> 0..FailAckCount - 1]
          <5>1. fail_count[t] + 1 \in 0..FailAckCount - 1
            BY <2>2 DEF Base, TypeOK, ThreadTypeOK
          <5>2. fail_count' = [fail_count EXCEPT ![t] = fail_count[t] + 1]
            BY <1>6, <2>2 DEF AckTimeout
          <5> QED
            BY <5>1, <5>2 DEF Base, TypeOK, ThreadTypeOK
        <4>2. /\ UNCHANGED <<mutex, fw_cmd_mutex, job, alone>>
              /\ pc' = [pc EXCEPT ![t] = "ackWait"]
              /\ status' = [status EXCEPT ![t] = "none"]
          BY <1>6, <2>2 DEF AckTimeout
        <4> QED
          BY <4>1, <4>2 DEF Base, TypeOK, LockTypeOK, ThreadTypeOK
      <3>2. JobInv'
        BY <1>6, <2>2 DEF AckTimeout, Base, TypeOK, ThreadTypeOK, JobInv
      <3> QED
        BY <2>1, <3>1, <3>2 DEF Base, TypeOK
    <2>3. CASE ~(fail_count[t] + 1 < FailAckCount)
      BY <1>3, <1>6, <2>1, <2>3 DEF AckTimeout
    <2> QED
      BY <2>2, <2>3
  <1>7. CASE AckTaken(t)
    <2>1. LockTypeOK' /\ ChannelTypeOK' /\ ThreadTypeOK'
      BY <1>7 DEF AckTaken, Base, TypeOK, LockTypeOK, ChannelTypeOK, ThreadTypeOK
    <2>2. JobInv'
      BY <1>7 DEF AckTaken, Base, TypeOK, ThreadTypeOK, JobInv
    <2> QED
      BY <2>1, <2>2 DEF Base, TypeOK
  <1>8. CASE Use(t) \/ CopyBack(t)
    <2>1. pc[t] \in Inside /\ Advance(t)
      BY <1>8 DEF Use, CopyBack
    <2>2. ChannelTypeOK' /\ UNCHANGED <<fw_cmd_mutex, status, fail_count, alone>>
      BY <1>8 DEF Use, CopyBack, Base, TypeOK, ChannelTypeOK
    <2> QED
      BY <2>1, <2>2, AdvanceStep DEF Base, TypeOK, LockTypeOK, ThreadTypeOK
  <1> QED
    BY <1>1, <1>2, <1>4, <1>5, <1>6, <1>7, <1>8 DEF Command

LEMMA DevicesKeepBase ==
  ASSUME Base, NEW d \in Devices, ReadAbort(d) \/ FirstOpen(d) \/ FwAck(d)
  PROVE  Base'
  <1> USE FwCmdAssumption DEF Base, TypeOK, LockTypeOK, ThreadTypeOK, JobInv, fwVars
  <1>1. CASE ReadAbort(d) \/ FirstOpen(d)
    BY <1>1 DEF ReadAbort, FirstOpen, ChannelTypeOK
  <1>2. CASE FwAck(d)
    <2>1. buffer' = [buffer EXCEPT ![d] = [buffer[d] EXCEPT !.done = TRUE]]
      BY <1>2 DEF FwAck
    <2>2. buffer' \in [Devices -> [owner : Threads \cup {Free}, done : BOOLEAN]]
      <3>1. buffer \in [Devices -> [owner : Threads \cup {Free}, done : BOOLEAN]]
        BY DEF ChannelTypeOK
      <3>2. [buffer[d] EXCEPT !.done = TRUE] \in [owner : Threads \cup {Free}, done : BOOLEAN]
        <4> HIDE DEF Threads
        <4>1. buffer[d] \in [owner : Threads \cup {Free}, done : BOOLEAN]
          BY <3>1
        <4> QED
          BY <4>1
      <3> QED
        BY <2>1, <3>1, <3>2
    <2>3. owed' \in [Devices -> 0..MaxOwed] /\ indicator' \in [Devices -> BOOLEAN]
      BY <1>2 DEF FwAck, ChannelTypeOK
    <2>4. ChannelTypeOK'
      BY <1>2, <2>2, <2>3 DEF FwAck, ChannelTypeOK
    <2> QED
      BY <1>2, <2>4 DEF FwAck
  <1> QED
    BY <1>1, <1>2

LEMMA NextBase ==
  ASSUME Base, [Next]_vars
  PROVE  Base'
  <1>1. CASE UNCHANGED vars
    BY <1>1 DEF Base, TypeOK, LockTypeOK, ChannelTypeOK, ThreadTypeOK, JobInv, vars, flagVars,
                fwVars
  <1> QED
    BY <1>1, CallsKeepBase, ProbeKeepsBase, CommandsKeepBase, DevicesKeepBase DEF Next

(* The types of the variables; no command outlives FAIL_ACK_COUNT sleeps.  *)
THEOREM TypesAlways == Spec => []TypeOK
  <1>1. Base => TypeOK
    BY DEF Base
  <1> QED
    BY InitBase, NextBase, <1>1, PTL DEF Spec

-----------------------------------------------------------------------------
(* Locks.                                                                  *)

Locks == Base /\ SemaphoreDiscipline

LEMMA CallsKeepLocks ==
  ASSUME Locks, NEW u \in Users, Enter(u) \/ Interrupted(u) \/ Ioctl(u)
  PROVE  SemaphoreDiscipline'
  <1> USE FwCmdAssumption DEF Locks, SemaphoreDiscipline, Goto
  <1>0. pc \in [Threads -> Places] /\ mutex \in [Devices -> Users \cup {Free}]
    BY DEF Base, TypeOK, ThreadTypeOK, LockTypeOK
  <1>1. CASE Enter(u) \/ Interrupted(u)
    BY <1>0, <1>1 DEF Enter, Interrupted
  <1>2. CASE Start(u)
    BY <1>0, <1>2 DEF Start, CanLock
  <1>3. CASE AbortRx(u)
    BY <1>0, <1>3 DEF AbortRx, CanLock
  <1>4. CASE AbortFw(u)
    <2>1. pc[u] = "abortFw" /\ Advance(u) /\ fw_cmd_mutex' = fw_cmd_mutex
      BY <1>4 DEF AbortFw
    <2>2. /\ \A t \in Threads : t # u => pc'[t] = pc[t]
          /\ \/ pc'[u] = "sem" /\ mutex' = mutex
             \/ pc'[u] = "user" /\ mutex' = [mutex EXCEPT ![Dev[u]] = Free]
      BY <2>1, AdvanceStep
    <2> QED
      BY <1>0, <2>1, <2>2
  <1> QED
    BY <1>1, <1>2, <1>3, <1>4 DEF Ioctl

LEMMA GiveUpKeepsLocks ==
  ASSUME Locks, NEW t \in Threads, pc[t] = "ackWoken", GiveUp(t)
  PROVE  SemaphoreDiscipline'
  <1> USE FwCmdAssumption DEF Locks, SemaphoreDiscipline
  <1>0. pc \in [Threads -> Places] /\ mutex \in [Devices -> Users \cup {Free}]
    BY DEF Base, TypeOK, ThreadTypeOK, LockTypeOK
  <1>1. /\ fw_cmd_mutex = t /\ fw_cmd_mutex' = Free
        /\ \A u \in Threads : u # t => pc'[u] = pc[u]
        /\ \/ pc'[t] \in {"sem", "copy"} /\ mutex' = mutex
           \/ pc'[t] = "user" /\ t \in Users /\ mutex' = [mutex EXCEPT ![Dev[t]] = Free]
           \/ pc'[t] \in {"done", "failed"} /\ t \in Probes /\ mutex' = mutex
    BY GiveUpStep
  <1> QED
    BY <1>0, <1>1

LEMMA CommandsKeepLocks ==
  ASSUME Locks, NEW t \in Threads, Send(t) \/ Command(t)
  PROVE  SemaphoreDiscipline'
  <1> USE FwCmdAssumption DEF Locks, SemaphoreDiscipline, Goto
  <1>0. pc \in [Threads -> Places] /\ mutex \in [Devices -> Users \cup {Free}]
    BY DEF Base, TypeOK, ThreadTypeOK, LockTypeOK
  <1>1. CASE Send(t)
    BY <1>0, <1>1 DEF Send
  <1>2. CASE WaitAck(t)
    BY <1>0, <1>2 DEF WaitAck
  <1>3. CASE AckAborted(t) \/ AckSignalled(t)
    BY <1>3, GiveUpKeepsLocks DEF AckAborted, AckSignalled
  <1>4. CASE AckTimeout(t)
    <2>1. CASE fail_count[t] + 1 < FailAckCount
      BY <1>0, <1>4, <2>1 DEF AckTimeout
    <2>2. CASE ~(fail_count[t] + 1 < FailAckCount)
      BY <1>4, <2>2, GiveUpKeepsLocks DEF AckTimeout
    <2> QED
      BY <2>1, <2>2
  <1>5. CASE AckTaken(t)
    BY <1>0, <1>5 DEF AckTaken
  <1>6. CASE Use(t) \/ CopyBack(t)
    <2>1. pc[t] \in Reading /\ Advance(t) /\ fw_cmd_mutex' = fw_cmd_mutex
      BY <1>6 DEF Use, CopyBack
    <2>2. /\ \A u \in Threads : u # t => pc'[u] = pc[u]
          /\ \/ pc'[t] = "sem" /\ mutex' = mutex
             \/ pc'[t] = "user" /\ t \in Users /\ mutex' = [mutex EXCEPT ![Dev[t]] = Free]
             \/ pc'[t] = "done" /\ t \in Probes /\ mutex' = mutex
      BY <2>1, AdvanceStep
    <2> QED
      BY <1>0, <2>1, <2>2
  <1> QED
    BY <1>1, <1>2, <1>3, <1>4, <1>5, <1>6 DEF Command

LEMMA NextLocks ==
  ASSUME Locks, [Next]_vars
  PROVE  Locks'
  <1> USE FwCmdAssumption DEF Locks, SemaphoreDiscipline, Goto
  <1>0. pc \in [Threads -> Places]
    BY DEF Base, TypeOK, ThreadTypeOK
  <1>1. ASSUME NEW p \in Probes, Probe(p)
        PROVE  SemaphoreDiscipline'
    BY <1>0, <1>1 DEF Probe
  <1>2. ASSUME NEW d \in Devices, ReadAbort(d) \/ FirstOpen(d) \/ FwAck(d)
        PROVE  SemaphoreDiscipline'
    BY <1>2 DEF ReadAbort, FirstOpen, FwAck
  <1>3. ASSUME UNCHANGED vars
        PROVE  SemaphoreDiscipline'
    BY <1>3 DEF vars
  <1>4. Base'
    BY NextBase
  <1>5. SemaphoreDiscipline'
    <2>1. ASSUME NEW u \in Users, Enter(u) \/ Interrupted(u) \/ Ioctl(u)
          PROVE  SemaphoreDiscipline'
      BY <2>1, CallsKeepLocks DEF Locks
    <2>2. ASSUME NEW t \in Threads, Send(t) \/ Command(t)
          PROVE  SemaphoreDiscipline'
      BY <2>2, CommandsKeepLocks DEF Locks
    <2>3. \/ \E u \in Users : Enter(u) \/ Interrupted(u) \/ Ioctl(u)
          \/ \E p \in Probes : Probe(p)
          \/ \E t \in Threads : Send(t) \/ Command(t)
          \/ \E d \in Devices : ReadAbort(d) \/ FirstOpen(d) \/ FwAck(d)
          \/ UNCHANGED vars
      BY DEF Next
    <2> QED
      BY <1>1, <1>2, <1>3, <2>1, <2>2, <2>3, Zenon
  <1> QED
    BY <1>4, <1>5

LEMMA InitLocks == Init => Locks
  <1>1. Init => SemaphoreDiscipline
    BY FwCmdAssumption DEF Init, SemaphoreDiscipline
  <1> QED
    BY <1>1, InitBase DEF Locks

(* The semaphore is held exactly by the command that waits, the device     *)
(* mutex exactly by the ioctl that is inside.                              *)
THEOREM SemaphoreDisciplineAlways == Spec => []SemaphoreDiscipline
  <1>1. Locks => SemaphoreDiscipline
    BY DEF Locks
  <1> QED
    BY InitLocks, NextLocks, <1>1, PTL DEF Spec

-----------------------------------------------------------------------------
(* The acknowledgement of an ioctl's command.                              *)

LEMMA NextNoLostAck ==
  ASSUME Locks, NoLostAck, [Next]_vars
  PROVE  NoLostAck'
  <1> USE FwCmdAssumption DEF Goto
  <1>0. /\ pc \in [Threads -> Places] /\ job \in [Threads -> Seq(Commands)]
        /\ owed \in [Devices -> 0..MaxOwed] /\ indicator \in [Devices -> BOOLEAN]
        /\ \A u \in Users : pc[u] \in Inside => mutex[Dev[u]] = u
        /\ \A t \in Threads : pc[t] \in Waiting => fw_cmd_mutex = t
    BY DEF Locks, Base, TypeOK, ThreadTypeOK, ChannelTypeOK, SemaphoreDiscipline
  <1>1. ASSUME NEW u \in Users, Enter(u) \/ Interrupted(u) \/ Start(u) \/ AbortRx(u)
        PROVE  NoLostAck'
    BY <1>0, <1>1 DEF Enter, Interrupted, Start, AbortRx, CanLock, NoLostAck, Sent, flagVars,
                      fwVars
  <1>2. ASSUME NEW u \in Users, AbortFw(u)
        PROVE  NoLostAck'
    <2>1. pc[u] = "abortFw" /\ Advance(u)
      BY <1>2 DEF AbortFw
    <2>2. /\ \A t \in Threads : t # u => pc'[t] = pc[t] /\ job'[t] = job[t]
          /\ pc'[u] \notin Waiting
      BY <2>1, AdvanceStep DEF Locks
    <2>3. /\ owed' = owed
          /\ \A d \in Devices : d # Dev[u] => indicator'[d] = indicator[d]
      BY <1>0, <1>2 DEF AbortFw, fwVars
    <2>4. \A t \in Users : pc[t] \in Waiting => Dev[t] # Dev[u]
      BY <1>0, <2>1
    <2> QED
      BY <2>2, <2>3, <2>4 DEF NoLostAck, Sent
  <1>3. ASSUME NEW p \in Probes, Probe(p)
        PROVE  NoLostAck'
    <2>1. \A d \in Devices : (owed[d] > 0 => owed'[d] > 0) /\ indicator'[d] = indicator[d]
      <3>1. \/ owed' = owed
            \/ owed' = [owed EXCEPT ![Dev[p]] = IF @ < MaxOwed THEN @ + 1 ELSE @]
        BY <1>3 DEF Probe
      <3>2. \A d \in Devices : owed[d] > 0 => owed'[d] > 0
        <4>1. CASE owed' = owed
          BY <4>1
        <4>2. CASE owed' = [owed EXCEPT ![Dev[p]] = IF @ < MaxOwed THEN @ + 1 ELSE @]
          BY <1>0, <4>2
        <4> QED
          BY <3>1, <4>1, <4>2
      <3> QED
        BY <1>3, <3>2 DEF Probe, flagVars
    <2>2. \A u \in Users : pc'[u] = pc[u] /\ job'[u] = job[u]
      BY <1>0, <1>3 DEF Probe
    <2> QED
      BY <1>0, <2>1, <2>2 DEF NoLostAck, Sent
  <1>4. ASSUME NEW t \in Threads, Send(t)
        PROVE  NoLostAck'
    <2>1. /\ \A u \in Threads : pc[u] \notin Waiting
          /\ pc' = [pc EXCEPT ![t] = "ackWait"] /\ job' = job
      BY <1>0, <1>4 DEF Send
    <2>2. CASE Head(job[t]) = "waitAck"
      BY <1>0, <2>1, <2>2 DEF NoLostAck, Sent
    <2>3. CASE Head(job[t]) # "waitAck"
      <3>1. owed' = [owed EXCEPT ![Dev[t]] = IF @ < MaxOwed THEN @ + 1 ELSE @]
        BY <1>4, <2>3 DEF Send
      <3>2. owed'[Dev[t]] > 0
        BY <1>0, <3>1
      <3> QED
        BY <1>0, <2>1, <3>2 DEF NoLostAck, Sent
    <2> QED
      BY <2>2, <2>3
  <1>5. ASSUME NEW t \in Threads, WaitAck(t)
        PROVE  NoLostAck'
    BY <1>0, <1>5 DEF WaitAck, NoLostAck, Sent, flagVars, fwVars
  <1>6. ASSUME NEW t \in Threads, pc[t] = "ackWoken", GiveUp(t), indicator' = indicator
        PROVE  NoLostAck'
    <2>1. /\ \A u \in Threads : u # t => pc'[u] = pc[u] /\ job'[u] = job[u]
          /\ pc'[t] \notin Waiting /\ owed' = owed
      BY <1>6, GiveUpStep DEF Locks
    <2> QED
      BY <1>6, <2>1 DEF NoLostAck, Sent
  <1>7. ASSUME NEW t \in Threads, AckAborted(t) \/ AckSignalled(t)
        PROVE  NoLostAck'
    BY <1>6, <1>7 DEF AckAborted, AckSignalled, flagVars
  <1>8. ASSUME NEW t \in Threads, AckTimeout(t)
        PROVE  NoLostAck'
    <2>1. CASE fail_count[t] + 1 < FailAckCount
      BY <1>0, <1>8, <2>1 DEF AckTimeout, NoLostAck, Sent, flagVars, fwVars
    <2>2. CASE ~(fail_count[t] + 1 < FailAckCount)
      BY <1>6, <1>8, <2>2 DEF AckTimeout, flagVars
    <2> QED
      BY <2>1, <2>2
  <1>9. ASSUME NEW t \in Threads, AckTaken(t)
        PROVE  NoLostAck'
    <2>1. \A u \in Threads : u # t => pc[u] \notin Waiting /\ pc'[u] = pc[u]
      BY <1>0, <1>9 DEF AckTaken
    <2>2. pc'[t] = "use"
      BY <1>0, <1>9 DEF AckTaken
    <2> QED
      BY <2>1, <2>2 DEF NoLostAck
  <1>10. ASSUME NEW t \in Threads, Use(t) \/ CopyBack(t)
         PROVE  NoLostAck'
    <2>1. pc[t] \in Inside /\ Advance(t) /\ owed' = owed /\ indicator' = indicator
      BY <1>10 DEF Use, CopyBack, flagVars, fwVars
    <2>2. /\ \A u \in Threads : u # t => pc'[u] = pc[u] /\ job'[u] = job[u]
          /\ pc'[t] \notin Waiting
      BY <2>1, AdvanceStep DEF Locks
    <2> QED
      BY <2>1, <2>2 DEF NoLostAck, Sent
  <1>11. ASSUME NEW d \in Devices, ReadAbort(d) \/ FirstOpen(d)
         PROVE  NoLostAck'
    BY <1>11 DEF ReadAbort, FirstOpen, NoLostAck, Sent, fwVars
  <1>12. ASSUME NEW d \in Devices, FwAck(d)
         PROVE  NoLostAck'
    BY <1>0, <1>12 DEF FwAck, NoLostAck, Sent
  <1>13. CASE UNCHANGED vars
    BY <1>13 DEF NoLostAck, Sent, vars, flagVars, fwVars
  <1> QED
    BY <1>1, <1>2, <1>3, <1>4, <1>5, <1>7, <1>8, <1>9, <1>10, <1>11, <1>12, <1>13
    DEF Next, Ioctl, Command

(* An ioctl's command that waits is always owed its acknowledgement: the   *)
(* mutex keeps the abort, which would throw it away, at a distance.        *)
THEOREM NoLostAckAlways == Spec => []NoLostAck
  <1>1. Init => Locks /\ NoLostAck
    BY InitLocks DEF Init, NoLostAck
  <1>2. Locks /\ NoLostAck /\ [Next]_vars => (Locks /\ NoLostAck)'
    BY NextLocks, NextNoLostAck
  <1> QED
    BY <1>1, <1>2, PTL DEF Spec

-----------------------------------------------------------------------------
(* Whose result the buffer holds.                                          *)

(* Another thread that no lock keeps from t has written the buffer.        *)
Overwritten(t) ==
  LET writer == buffer[Dev[t]].owner
  IN  writer # t /\ (t \in Probes \/ writer \in Probes)

Mine(t) == buffer[Dev[t]].owner = t
Done(t) == buffer[Dev[t]] = [owner |-> t, done |-> TRUE]

(* While a command that was sent alone waits, at most its own              *)
(* acknowledgement is on its way, and once that has come its result stands *)
(* in the buffer.                                                          *)
Claim(t) ==
  alone[t] /\ Sent(t) =>
    /\ pc[t] \in Waiting =>
         /\ owed[Dev[t]] = 0 \/ (owed[Dev[t]] = 1 /\ ~indicator[Dev[t]])
         /\ Overwritten(t) \/ (Mine(t) /\ (indicator[Dev[t]] => Done(t)))
    /\ pc[t] = "ackWoken" /\ status[t] = "ready" => Overwritten(t) \/ Done(t)
    /\ pc[t] = "use" /\ Head(job[t]) # "poke" => Overwritten(t) \/ Done(t)

Claims == \A t \in Threads : Claim(t)
Channel == Locks /\ Claims

(* A thread on which nothing it depends on was changed.                    *)
LEMMA ClaimFrame ==
  ASSUME NEW t \in Threads, Claim(t),
         pc'[t] = pc[t], job'[t] = job[t], status'[t] = status[t], alone'[t] = alone[t],
         buffer'[Dev[t]] = buffer[Dev[t]], owed'[Dev[t]] = owed[Dev[t]],
         indicator'[Dev[t]] = indicator[Dev[t]]
  PROVE  Claim(t)'
  BY DEF Claim, Sent, Overwritten, Mine, Done

(* A thread that is neither waiting nor reading a result claims nothing.   *)
LEMMA NoClaim ==
  ASSUME NEW t \in Threads, pc'[t] \notin Waiting \cup {"use"}
  PROVE  Claim(t)'
  BY DEF Claim

(* What keeps its claim when the acknowledgement is taken or forgotten.    *)
LEMMA ClaimForget ==
  ASSUME NEW t \in Threads, Claim(t),
         pc'[t] = pc[t], job'[t] = job[t], status'[t] = status[t], alone'[t] = alone[t],
         buffer'[Dev[t]] = buffer[Dev[t]], owed'[Dev[t]] = owed[Dev[t]],
         ~indicator'[Dev[t]]
  PROVE  Claim(t)'
  BY DEF Claim, Sent, Overwritten, Mine, Done

LEMMA CallsKeepClaims ==
  ASSUME Channel, NEW u \in Users, Enter(u) \/ Interrupted(u) \/ Ioctl(u),
         NEW t \in Threads
  PROVE  Claim(t)'
  <1> USE FwCmdAssumption DEF Goto
  <1>0. /\ pc \in [Threads -> Places] /\ job \in [Threads -> Seq(Commands)]
        /\ buffer \in [Devices -> [owner : Threads \cup {Free}, done : BOOLEAN]]
        /\ indicator \in [Devices -> BOOLEAN]
        /\ \A v \in Users : pc[v] \in Inside => mutex[Dev[v]] = v
        /\ Claim(t)
    BY DEF Channel, Claims, Locks, Base, TypeOK, ThreadTypeOK, ChannelTypeOK, SemaphoreDiscipline
  <1>1. CASE (Enter(u) \/ Interrupted(u) \/ AbortRx(u)) /\ t # u
    BY <1>0, <1>1, ClaimFrame DEF Enter, Interrupted, AbortRx, flagVars, fwVars
  <1>2. CASE (Enter(u) \/ Interrupted(u) \/ AbortRx(u)) /\ t = u
    BY <1>0, <1>2, NoClaim DEF Enter, Interrupted, AbortRx
  <1>3. CASE Start(u)
    <2>1. CASE t = u /\ Head(job[u]) # "poke"
      BY <1>0, <1>3, <2>1, NoClaim DEF Start
    <2>2. CASE t = u /\ Head(job[u]) = "poke"
      BY <1>0, <1>3, <2>2 DEF Start, Claim
    <2>3. CASE t # u /\ (Dev[t] # Dev[u] \/ buffer' = buffer)
      BY <1>0, <1>3, <2>3, ClaimFrame DEF Start, flagVars
    <2>4. CASE t # u /\ Dev[t] = Dev[u] /\ buffer' # buffer
      <3>1. /\ pc'[t] = pc[t] /\ job' = job /\ status' = status /\ alone' = alone
            /\ owed' = owed /\ indicator' = indicator
            /\ buffer'[Dev[t]].owner = u /\ mutex[Dev[t]] = Free
        BY <1>0, <1>3, <2>4 DEF Start, CanLock, flagVars
      <3>2. CASE t \in Probes
        <4>1. Overwritten(t)'
          BY <2>4, <3>1, <3>2 DEF Overwritten
        <4> QED
          BY <1>0, <3>1, <4>1 DEF Claim, Sent
      <3>3. CASE t \in Users
        BY <1>0, <3>1, <3>3, NoClaim
      <3> QED
        BY <3>2, <3>3
    <2> QED
      BY <2>1, <2>2, <2>3, <2>4
  <1>4. CASE AbortFw(u)
    <2>1. /\ pc[u] = "abortFw" /\ Advance(u)
          /\ UNCHANGED <<buffer, owed, status, alone>>
          /\ indicator' = [indicator EXCEPT ![Dev[u]] = FALSE]
      BY <1>4 DEF AbortFw, fwVars
    <2>2. /\ \A v \in Threads : v # u => pc'[v] = pc[v] /\ job'[v] = job[v]
          /\ pc'[u] \notin Waiting \cup {"use"}
      BY <2>1, AdvanceStep DEF Channel, Locks
    <2>3. CASE t = u
      BY <2>2, <2>3, NoClaim
    <2>4. CASE t # u /\ Dev[t] = Dev[u]
      BY <1>0, <2>1, <2>2, <2>4, ClaimForget
    <2>5. CASE t # u /\ Dev[t] # Dev[u]
      BY <1>0, <2>1, <2>2, <2>5, ClaimFrame
    <2> QED
      BY <2>3, <2>4, <2>5
  <1> QED
    BY <1>1, <1>2, <1>3, <1>4 DEF Ioctl

LEMMA ProbeKeepsClaims ==
  ASSUME Channel, NEW p \in Probes, Probe(p), NEW t \in Threads
  PROVE  Claim(t)'
  <1> USE FwCmdAssumption DEF Goto
  <1>0. /\ pc \in [Threads -> Places] /\ job \in [Threads -> Seq(Commands)]
        /\ owed \in [Devices -> 0..MaxOwed] /\ alone \in [Threads -> BOOLEAN]
        /\ Claim(t)
    BY DEF Channel, Claims, Locks, Base, TypeOK, ThreadTypeOK, ChannelTypeOK
  <1>1. CASE t = p
    <2>1. pc'[t] = "sem"
      BY <1>0, <1>1 DEF Probe
    <2> QED
      BY <2>1, NoClaim
  <1>2. CASE t # p
    <2>1. /\ pc'[t] = pc[t] /\ job'[t] = job[t]
          /\ UNCHANGED <<buffer, indicator, status>>
      BY <1>0, <1>2 DEF Probe, flagVars
    <2>2. CASE UNCHANGED <<owed, alone>>
      BY <1>0, <2>1, <2>2, ClaimFrame
    <2>3. CASE /\ owed' = [owed EXCEPT ![Dev[p]] = IF @ < MaxOwed THEN @ + 1 ELSE @]
               /\ alone' = [u \in Threads |-> alone[u] /\ Dev[u] # Dev[p]]
      <3>1. CASE Dev[t] = Dev[p]
        BY <2>3, <3>1 DEF Claim
      <3>2. CASE Dev[t] # Dev[p]
        <4>1. owed'[Dev[t]] = owed[Dev[t]]
          BY <1>0, <2>3, <3>2
        <4>2. alone'[t] = alone[t]
          BY <1>0, <2>3, <3>2
        <4> QED
          BY <1>0, <2>1, <4>1, <4>2, ClaimFrame
      <3> QED
        BY <3>1, <3>2
    <2> QED
      BY <2>2, <2>3 DEF Probe
  <1> QED
    BY <1>1, <1>2

(* Sending a command rewrites the buffer; a result that an ioctl of the    *)
(* same device still has to read is protected by the mutex.                *)
LEMMA SendKeepsClaims ==
  ASSUME Channel, NEW s \in Threads, Send(s), NEW t \in Threads
  PROVE  Claim(t)'
  <1> USE FwCmdAssumption DEF Goto
  <1>0. /\ pc \in [Threads -> Places] /\ job \in [Threads -> Seq(Commands)]
        /\ buffer \in [Devices -> [owner : Threads \cup {Free}, done : BOOLEAN]]
        /\ owed \in [Devices -> 0..MaxOwed] /\ indicator \in [Devices -> BOOLEAN]
        /\ alone \in [Threads -> BOOLEAN]
        /\ \A v \in Users : pc[v] \in Inside => mutex[Dev[v]] = v
        /\ \A v \in Threads : pc[v] \in Waiting => fw_cmd_mutex = v
        /\ Claim(t)
    BY DEF Channel, Claims, Locks, Base, TypeOK, ThreadTypeOK, ChannelTypeOK, SemaphoreDiscipline
  <1>1. /\ pc[s] = "sem" /\ pc[t] \notin Waiting
        /\ pc' = [pc EXCEPT ![s] = "ackWait"]
        /\ UNCHANGED <<job, status, indicator>>
    BY <1>0 DEF Send, flagVars
  <1>2. CASE Head(job[s]) = "waitAck"
    <2>1. UNCHANGED <<buffer, owed, alone>>
      BY <1>2 DEF Send, fwVars
    <2>2. CASE t = s
      BY <1>1, <1>2, <2>2 DEF Claim, Sent
    <2>3. CASE t # s
      BY <1>0, <1>1, <2>1, <2>3, ClaimFrame
    <2> QED
      BY <2>2, <2>3
  <1>3. CASE Head(job[s]) # "waitAck"
    <2>1. /\ buffer' = [buffer EXCEPT ![Dev[s]] = [owner |-> s, done |-> FALSE]]
          /\ owed' = [owed EXCEPT ![Dev[s]] = IF @ < MaxOwed THEN @ + 1 ELSE @]
          /\ alone' = [alone EXCEPT ![s] = owed[Dev[s]] = 0 /\ ~indicator[Dev[s]]]
      BY <1>3 DEF Send
    <2>2. CASE t = s
      <3>1. pc'[t] = "ackWait"
        BY <1>0, <1>1, <2>2
      <3>2. Mine(t)'
        BY <1>0, <2>1, <2>2 DEF Mine
      <3>3. alone'[t] => owed[Dev[t]] = 0 /\ ~indicator[Dev[t]]
        <4>1. alone'[t] = (owed[Dev[t]] = 0 /\ ~indicator[Dev[t]])
          BY <1>0, <2>1, <2>2, Zenon
        <4> QED
          BY <4>1
      <3>4. owed[Dev[t]] = 0 => owed'[Dev[t]] = 1
        BY <1>0, <2>1, <2>2
      <3> QED
        BY <1>1, <3>1, <3>2, <3>3, <3>4 DEF Claim
    <2>3. CASE t # s /\ pc[t] # "use"
      BY <1>0, <1>1, <2>3, NoClaim
    <2>4. CASE t # s /\ Dev[t] # Dev[s]
      BY <1>0, <1>1, <2>1, <2>4, ClaimFrame
    <2>5. CASE t # s /\ Dev[t] = Dev[s] /\ pc[t] = "use"
      <3>1. t \in Probes \/ s \in Probes
        BY <1>0, <1>1, <2>5
      <3>2. Overwritten(t)'
        BY <1>0, <2>1, <2>5, <3>1 DEF Overwritten
      <3>3. pc'[t] = "use"
        BY <1>0, <1>1, <2>5
      <3> QED
        BY <3>2, <3>3 DEF Claim
    <2> QED
      BY <2>2, <2>3, <2>4, <2>5
  <1> QED
    BY <1>2, <1>3

LEMMA CommandsKeepClaims ==
  ASSUME Channel, NEW s \in Threads, Command(s), NEW t \in Threads
  PROVE  Claim(t)'
  <1> USE FwCmdAssumption DEF Goto
  <1>0. /\ pc \in [Threads -> Places] /\ job \in [Threads -> Seq(Commands)]
        /\ status \in [Threads -> Outcomes \cup {"none"}]
        /\ indicator \in [Devices -> BOOLEAN]
        /\ \A v \in Threads : pc[v] \in Waiting => fw_cmd_mutex = v
        /\ Claim(t) /\ Claim(s)
    BY DEF Channel, Claims, Locks, Base, TypeOK, ThreadTypeOK, ChannelTypeOK, SemaphoreDiscipline
  <1>1. ASSUME pc[s] = "ackWoken", GiveUp(s), indicator' = indicator
        PROVE  Claim(t)'
    <2>1. /\ \A u \in Threads : u # s => /\ pc'[u] = pc[u] /\ job'[u] = job[u]
                                        /\ status'[u] = status[u]
          /\ pc'[s] \notin Waiting \cup {"use"}
          /\ UNCHANGED <<buffer, owed, alone>>
      BY <1>1, GiveUpStep DEF Channel, Locks
    <2>2. CASE t = s
      BY <2>1, <2>2, NoClaim
    <2>3. CASE t # s
      BY <1>0, <1>1, <2>1, <2>3, ClaimFrame
    <2> QED
      BY <2>2, <2>3
  <1>2. CASE WaitAck(s)
    <2>1. /\ pc[s] = "ackWait" /\ pc' = [pc EXCEPT ![s] = "ackWoken"]
          /\ UNCHANGED <<buffer, owed, indicator, job, alone>>
          /\ \A u \in Threads : u # s => status'[u] = status[u]
          /\ status'[s] = "ready" => indicator[Dev[s]]
      BY <1>0, <1>2 DEF WaitAck, fwVars, flagVars
    <2>2. CASE t = s
      BY <1>0, <2>1, <2>2 DEF Claim, Sent, Overwritten, Mine, Done
    <2>3. CASE t # s
      BY <1>0, <2>1, <2>3, ClaimFrame
    <2> QED
      BY <2>2, <2>3
  <1>3. CASE AckAborted(s) \/ AckSignalled(s)
    BY <1>1, <1>3 DEF AckAborted, AckSignalled, flagVars
  <1>4. CASE AckTimeout(s)
    <2>1. CASE fail_count[s] + 1 < FailAckCount
      <3>1. /\ pc[s] = "ackWoken" /\ pc' = [pc EXCEPT ![s] = "ackWait"]
            /\ UNCHANGED <<buffer, owed, indicator, job, alone>>
            /\ \A u \in Threads : u # s => status'[u] = status[u]
        BY <1>0, <1>4, <2>1 DEF AckTimeout, fwVars, flagVars
      <3>2. CASE t = s
        BY <1>0, <3>1, <3>2 DEF Claim, Sent, Overwritten, Mine, Done
      <3>3. CASE t # s
        BY <1>0, <3>1, <3>3, ClaimFrame
      <3> QED
        BY <3>2, <3>3
    <2>2. CASE ~(fail_count[s] + 1 < FailAckCount)
      BY <1>1, <1>4, <2>2 DEF AckTimeout, flagVars
    <2> QED
      BY <2>1, <2>2
  <1>5. CASE AckTaken(s)
    <2>1. /\ pc[s] = "ackWoken" /\ status[s] = "ready"
          /\ pc' = [pc EXCEPT ![s] = "use"]
          /\ indicator' = [indicator EXCEPT ![Dev[s]] = FALSE]
          /\ UNCHANGED <<buffer, owed, job, alone>>
          /\ \A u \in Threads : u # s => status'[u] = status[u]
      BY <1>0, <1>5 DEF AckTaken, fwVars
    <2>2. CASE t = s
      BY <1>0, <2>1, <2>2 DEF Claim, Sent, Overwritten, Mine, Done
    <2>3. CASE t # s /\ Dev[t] = Dev[s]
      BY <1>0, <2>1, <2>3, ClaimForget
    <2>4. CASE t # s /\ Dev[t] # Dev[s]
      BY <1>0, <2>1, <2>4, ClaimFrame
    <2> QED
      BY <2>2, <2>3, <2>4
  <1>6. CASE Use(s) \/ CopyBack(s)
    <2>1. pc[s] \in Reading /\ Advance(s) /\ UNCHANGED <<buffer, owed, indicator, status, alone>>
      BY <1>6 DEF Use, CopyBack, fwVars, flagVars
    <2>2. /\ \A u \in Threads : u # s => pc'[u] = pc[u] /\ job'[u] = job[u]
          /\ pc'[s] \notin Waiting \cup {"use"}
      BY <2>1, AdvanceStep DEF Channel, Locks
    <2>3. CASE t = s
      BY <2>2, <2>3, NoClaim
    <2>4. CASE t # s
      BY <1>0, <2>1, <2>2, <2>4, ClaimFrame
    <2> QED
      BY <2>3, <2>4
  <1> QED
    BY <1>2, <1>3, <1>4, <1>5, <1>6 DEF Command

LEMMA DevicesKeepClaims ==
  ASSUME Channel, NEW d \in Devices, ReadAbort(d) \/ FirstOpen(d) \/ FwAck(d),
         NEW t \in Threads
  PROVE  Claim(t)'
  <1> USE FwCmdAssumption
  <1>0. /\ buffer \in [Devices -> [owner : Threads \cup {Free}, done : BOOLEAN]]
        /\ owed \in [Devices -> 0..MaxOwed] /\ indicator \in [Devices -> BOOLEAN]
        /\ Claim(t)
    BY DEF Channel, Claims, Locks, Base, TypeOK, ChannelTypeOK
  <1>1. CASE ReadAbort(d) \/ FirstOpen(d)
    BY <1>0, <1>1, ClaimFrame DEF ReadAbort, FirstOpen, fwVars
  <1>2. CASE FwAck(d)
    <2>1. /\ owed[d] > 0 /\ owed' = [owed EXCEPT ![d] = owed[d] - 1]
          /\ buffer' = [buffer EXCEPT ![d] = [buffer[d] EXCEPT !.done = TRUE]]
          /\ indicator' = [indicator EXCEPT ![d] = TRUE]
          /\ UNCHANGED <<pc, job, status, alone>>
      BY <1>2 DEF FwAck
    <2>2. CASE Dev[t] # d
      BY <1>0, <2>1, <2>2, ClaimFrame
    <2>3. CASE Dev[t] = d
      <3>1. buffer'[d].owner = buffer[d].owner /\ buffer'[d] = [owner |-> buffer[d].owner, done |-> TRUE]
        <4>1. buffer'[d] = [buffer[d] EXCEPT !.done = TRUE]
          BY <1>0, <2>1
        <4>2. buffer[d] \in [owner : Threads \cup {Free}, done : BOOLEAN]
          BY <1>0
        <4> QED
          BY <4>1, <4>2
      <3>2. /\ Overwritten(t) => Overwritten(t)'
            /\ Done(t) => Done(t)'
            /\ Mine(t) => Mine(t)' /\ Done(t)'
        <4>1. Overwritten(t) => Overwritten(t)'
          BY <2>3, <3>1 DEF Overwritten
        <4>2. Mine(t) => Mine(t)' /\ Done(t)'
          BY <2>3, <3>1 DEF Mine, Done
        <4>3. Done(t) => Mine(t)
          BY DEF Done, Mine
        <4> QED
          BY <4>1, <4>2, <4>3
      <3>3. /\ owed[Dev[t]] = 1 => owed'[Dev[t]] = 0
            /\ owed[Dev[t]] # 0
        BY <1>0, <2>1, <2>3
      <3>4. ASSUME alone[t], job[t] # <<>>, Head(job[t]) # "waitAck", pc[t] \in Waiting
            PROVE  owed'[Dev[t]] = 0 /\ (Overwritten(t)' \/ (Mine(t)' /\ Done(t)'))
        <4>1. /\ owed[Dev[t]] = 0 \/ owed[Dev[t]] = 1
              /\ Overwritten(t) \/ Mine(t)
          BY <1>0, <3>4 DEF Claim, Sent
        <4> QED
          BY <3>2, <3>3, <4>1
      <3>5. ASSUME alone[t], job[t] # <<>>, Head(job[t]) # "waitAck",
                   \/ pc[t] = "ackWoken" /\ status[t] = "ready"
                   \/ pc[t] = "use" /\ Head(job[t]) # "poke"
            PROVE  Overwritten(t)' \/ Done(t)'
        <4>1. Overwritten(t) \/ Done(t)
          BY <1>0, <3>5 DEF Claim, Sent
        <4> QED
          BY <3>2, <4>1
      <3>6. /\ pc'[t] = pc[t] /\ job'[t] = job[t] /\ status'[t] = status[t]
            /\ alone'[t] = alone[t]
        BY <2>1
      <3>7. ASSUME alone'[t], Sent(t)', pc'[t] \in Waiting
            PROVE  owed'[Dev[t]] = 0 /\ (Overwritten(t)' \/ (Mine(t)' /\ Done(t)'))
        BY <3>4, <3>6, <3>7 DEF Sent
      <3>8. ASSUME alone'[t], Sent(t)', pc'[t] = "ackWoken", status'[t] = "ready"
            PROVE  Overwritten(t)' \/ Done(t)'
        BY <3>5, <3>6, <3>8 DEF Sent
      <3>9. ASSUME alone'[t], Sent(t)', pc'[t] = "use", Head(job'[t]) # "poke"
            PROVE  Overwritten(t)' \/ Done(t)'
        BY <3>5, <3>6, <3>9 DEF Sent
      <3> QED
        BY <3>7, <3>8, <3>9 DEF Claim
    <2> QED
      BY <2>2, <2>3
  <1> QED
    BY <1>1, <1>2

LEMMA NextChannel ==
  ASSUME Channel, [Next]_vars
  PROVE  Channel'
  <1>1. Locks'
    BY NextLocks DEF Channel
  <1>2. ASSUME NEW t \in Threads
        PROVE  Claim(t)'
    <2>1. CASE UNCHANGED vars
      BY <2>1, ClaimFrame DEF Channel, Claims, vars, flagVars, fwVars
    <2>2. ASSUME NEW u \in Users, Enter(u) \/ Interrupted(u) \/ Ioctl(u)
          PROVE  Claim(t)'
      BY <2>2, CallsKeepClaims
    <2>3. ASSUME NEW p \in Probes, Probe(p)
          PROVE  Claim(t)'
      BY <2>3, ProbeKeepsClaims
    <2>4. ASSUME NEW s \in Threads, Send(s) \/ Command(s)
          PROVE  Claim(t)'
      BY <2>4, SendKeepsClaims, CommandsKeepClaims
    <2>5. ASSUME NEW d \in Devices, ReadAbort(d) \/ FirstOpen(d) \/ FwAck(d)
          PROVE  Claim(t)'
      BY <2>5, DevicesKeepClaims
    <2> QED
      BY <2>1, <2>2, <2>3, <2>4, <2>5 DEF Next
  <1> QED
    BY <1>1, <1>2 DEF Channel, Claims

-----------------------------------------------------------------------------
(* Who may have written what a call reads, whatever became of its command. *)

Owned ==
  \A t \in Threads :
    pc[t] \in Waiting \cup Reading /\ Sent(t) => Mine(t) \/ Overwritten(t)

(* Nothing that the thread's share of Owned depends on was changed.        *)
LEMMA OwnedFrame ==
  ASSUME Locks, Owned, [Next]_vars, UNCHANGED <<job, buffer>>,
         \A t \in Threads :
           pc'[t] \in Waiting \cup Reading => pc[t] \in Waiting \cup Reading
  PROVE  Owned'
  BY DEF Owned, Sent, Mine, Overwritten

(* A thread that finishes a command, and others that stay as they are.     *)
LEMMA OwnedAdvance ==
  ASSUME Owned, NEW t \in Threads, buffer' = buffer,
         pc'[t] \notin Waiting \cup Reading \/ (pc[t] \in Waiting /\ job'[t] = job[t]),
         \A u \in Threads : u # t => pc'[u] = pc[u] /\ job'[u] = job[u]
  PROVE  Owned'
  BY DEF Owned, Sent, Mine, Overwritten

LEMMA NextOwned ==
  ASSUME Locks, Owned, [Next]_vars
  PROVE  Owned'
  <1> USE FwCmdAssumption DEF Goto
  <1>0. /\ pc \in [Threads -> Places] /\ job \in [Threads -> Seq(Commands)]
        /\ buffer \in [Devices -> [owner : Threads \cup {Free}, done : BOOLEAN]]
        /\ \A u \in Users : pc[u] \in Inside => mutex[Dev[u]] = u
    BY DEF Locks, Base, TypeOK, ThreadTypeOK, ChannelTypeOK, SemaphoreDiscipline
  <1>1. ASSUME NEW u \in Users, Enter(u) \/ Interrupted(u) \/ AbortRx(u)
        PROVE  Owned'
    <2>1. /\ pc'[u] \notin Waiting \cup Reading /\ buffer' = buffer
          /\ \A t \in Threads : t # u => pc'[t] = pc[t] /\ job'[t] = job[t]
      BY <1>0, <1>1 DEF Enter, Interrupted, AbortRx, fwVars
    <2> QED
      BY <2>1, OwnedAdvance
  <1>2. ASSUME NEW u \in Users, Start(u)
        PROVE  Owned'
    <2>1. /\ mutex[Dev[u]] = Free /\ job' = job
          /\ \A t \in Threads : t # u => pc'[t] = pc[t]
          /\ \/ pc'[u] = "sem" /\ buffer' = buffer
             \/ /\ pc'[u] \in {"sem", "use"}
                /\ buffer' = [buffer EXCEPT ![Dev[u]] = [owner |-> u, done |-> FALSE]]
      BY <1>0, <1>2 DEF Start, CanLock
    <2>2. CASE pc'[u] = "sem" /\ buffer' = buffer
      BY <1>0, <2>1, <2>2, OwnedAdvance
    <2>3. CASE buffer' = [buffer EXCEPT ![Dev[u]] = [owner |-> u, done |-> FALSE]]
      <3>1. buffer'[Dev[u]].owner = u
        BY <1>0, <2>3
      <3>2. \A t \in Threads : Dev[t] # Dev[u] => buffer'[Dev[t]] = buffer[Dev[t]]
        BY <1>0, <2>3
      <3>3. ASSUME NEW t \in Threads, pc'[t] \in Waiting \cup Reading, Sent(t)'
            PROVE  Mine(t)' \/ Overwritten(t)'
        <4>1. CASE t = u
          BY <3>1, <4>1 DEF Mine
        <4>2. CASE t # u /\ Dev[t] = Dev[u]
          <5>1. t \in Probes
            BY <1>0, <2>1, <3>3, <4>2
          <5> QED
            BY <3>1, <4>2, <5>1 DEF Overwritten
        <4>3. CASE t # u /\ Dev[t] # Dev[u]
          BY <2>1, <3>2, <3>3, <4>3 DEF Owned, Sent, Mine, Overwritten
        <4> QED
          BY <4>1, <4>2, <4>3
      <3> QED
        BY <3>3 DEF Owned
    <2> QED
      BY <2>1, <2>2, <2>3
  <1>3. ASSUME NEW u \in Users, AbortFw(u)
        PROVE  Owned'
    <2>1. pc[u] \in Inside /\ Advance(u) /\ buffer' = buffer
      BY <1>3 DEF AbortFw, fwVars
    <2> QED
      BY <2>1, AdvanceStep, OwnedAdvance DEF Locks
  <1>4. ASSUME NEW p \in Probes, Probe(p)
        PROVE  Owned'
    <2>1. /\ pc'[p] \notin Waiting \cup Reading /\ buffer' = buffer
          /\ \A t \in Threads : t # p => pc'[t] = pc[t] /\ job'[t] = job[t]
      BY <1>0, <1>4 DEF Probe
    <2> QED
      BY <2>1, OwnedAdvance
  <1>5. ASSUME NEW s \in Threads, Send(s)
        PROVE  Owned'
    <2>1. /\ pc[s] = "sem" /\ job' = job
          /\ pc' = [pc EXCEPT ![s] = "ackWait"]
      BY <1>5 DEF Send
    <2>2. CASE Head(job[s]) = "waitAck"
      BY <1>0, <1>5, <2>1, <2>2 DEF Send, fwVars, Owned, Sent, Mine, Overwritten
    <2>3. CASE Head(job[s]) # "waitAck"
      <3>1. buffer' = [buffer EXCEPT ![Dev[s]] = [owner |-> s, done |-> FALSE]]
        BY <1>5, <2>3 DEF Send
      <3>2. buffer'[Dev[s]].owner = s
        BY <1>0, <3>1
      <3>3. \A t \in Threads : Dev[t] # Dev[s] => buffer'[Dev[t]] = buffer[Dev[t]]
        BY <1>0, <3>1
      <3>4. ASSUME NEW t \in Threads, pc'[t] \in Waiting \cup Reading, Sent(t)'
            PROVE  Mine(t)' \/ Overwritten(t)'
        <4>1. CASE t = s
          BY <3>2, <4>1 DEF Mine
        <4>2. CASE t # s /\ Dev[t] = Dev[s]
          <5>1. t \in Probes \/ s \in Probes
            BY <1>0, <2>1, <3>4, <4>2
          <5> QED
            BY <3>2, <4>2, <5>1 DEF Overwritten
        <4>3. CASE t # s /\ Dev[t] # Dev[s]
          BY <1>0, <2>1, <3>3, <3>4, <4>3 DEF Owned, Sent, Mine, Overwritten
        <4> QED
          BY <4>1, <4>2, <4>3
      <3> QED
        BY <3>4 DEF Owned
    <2> QED
      BY <2>2, <2>3
  <1>6. ASSUME NEW t \in Threads, WaitAck(t) \/ AckTaken(t)
        PROVE  Owned'
    <2>1. /\ UNCHANGED <<job, buffer>>
          /\ \A u \in Threads :
               pc'[u] \in Waiting \cup Reading => pc[u] \in Waiting \cup Reading
      BY <1>0, <1>6 DEF WaitAck, AckTaken, fwVars
    <2> QED
      BY <2>1, OwnedFrame
  <1>7. ASSUME NEW t \in Threads, pc[t] = "ackWoken", GiveUp(t)
        PROVE  Owned'
    <2>1. /\ \A u \in Threads : u # t => pc'[u] = pc[u] /\ job'[u] = job[u]
          /\ buffer' = buffer
      BY <1>7, GiveUpStep DEF Locks
    <2>2. pc'[t] \notin Waiting \cup Reading \/ job'[t] = job[t]
      <3>1. CASE ~(t \in Probes /\ Head(job[t]) = "hwinfo") /\ Head(job[t]) = "vendor0"
        BY <1>7, <3>1 DEF GiveUp
      <3>2. CASE t \in Probes /\ Head(job[t]) = "hwinfo"
        BY <1>0, <1>7, <3>2 DEF GiveUp
      <3>3. CASE ~(t \in Probes /\ Head(job[t]) = "hwinfo") /\ Head(job[t]) # "vendor0"
        <4>1. Advance(t)
          BY <1>7, <3>3 DEF GiveUp
        <4> QED
          BY <1>7, <4>1, AdvanceStep DEF Locks
      <3> QED
        BY <3>1, <3>2, <3>3
    <2> QED
      BY <1>7, <2>1, <2>2, OwnedAdvance
  <1>8. ASSUME NEW t \in Threads, AckTimeout(t)
        PROVE  Owned'
    <2>1. CASE fail_count[t] + 1 < FailAckCount
      <3>1. /\ UNCHANGED <<job, buffer>>
            /\ \A u \in Threads :
                 pc'[u] \in Waiting \cup Reading => pc[u] \in Waiting \cup Reading
        BY <1>0, <1>8, <2>1 DEF AckTimeout, fwVars
      <3> QED
        BY <3>1, OwnedFrame
    <2>2. CASE ~(fail_count[t] + 1 < FailAckCount)
      BY <1>7, <1>8, <2>2 DEF AckTimeout
    <2> QED
      BY <2>1, <2>2
  <1>9. ASSUME NEW t \in Threads, Use(t) \/ CopyBack(t)
        PROVE  Owned'
    <2>1. pc[t] \in Inside /\ Advance(t) /\ buffer' = buffer
      BY <1>9 DEF Use, CopyBack, fwVars
    <2> QED
      BY <2>1, AdvanceStep, OwnedAdvance DEF Locks
  <1>10. ASSUME NEW d \in Devices, ReadAbort(d) \/ FirstOpen(d)
         PROVE  Owned'
    BY <1>10 DEF ReadAbort, FirstOpen, fwVars, Owned, Sent, Mine, Overwritten
  <1>11. ASSUME NEW d \in Devices, FwAck(d)
         PROVE  Owned'
    <2>1. /\ UNCHANGED <<pc, job>>
          /\ buffer' = [buffer EXCEPT ![d] = [buffer[d] EXCEPT !.done = TRUE]]
      BY <1>11 DEF FwAck
    <2>2. \A e \in Devices : buffer'[e].owner = buffer[e].owner
      BY <1>0, <2>1
    <2> QED
      BY <2>1, <2>2 DEF Owned, Sent, Mine, Overwritten
  <1>12. CASE UNCHANGED vars
    BY <1>12 DEF vars, fwVars, Owned, Sent, Mine, Overwritten
  <1>13. ASSUME NEW t \in Threads, AckAborted(t) \/ AckSignalled(t)
         PROVE  Owned'
    BY <1>7, <1>13 DEF AckAborted, AckSignalled
  <1> QED
    BY <1>1, <1>2, <1>3, <1>4, <1>5, <1>6, <1>8, <1>9, <1>10, <1>11, <1>12, <1>13
    DEF Next, Ioctl, Command

(* A call reads a buffer that no other ioctl has written, whether its      *)
(* command was done or, at MEMX_VENDOR_CMD, not; and an acknowledged       *)
(* command that no acknowledgement but its own could reach finds its       *)
(* result there.                                                           *)
THEOREM ResultIsOwnAlways == Spec => []ResultIsOwn
  <1>1. Init => Channel /\ Owned
    <2>1. Init => Claims /\ Owned
      BY DEF Init, Claims, Claim, Owned
    <2> QED
      BY <2>1, InitLocks DEF Channel
  <1>2. Channel /\ Owned /\ [Next]_vars => (Channel /\ Owned)'
    BY NextChannel, NextOwned DEF Channel
  <1>3. Channel /\ Owned => ResultIsOwn
    <2> DEFINE Owns(t) ==
                 /\ buffer[Dev[t]].owner = t
                 /\ pc[t] = "use" /\ Head(job[t]) # "poke" /\ alone[t] => buffer[Dev[t]].done
    <2> SUFFICES ASSUME Channel, Owned, NEW t \in Threads,
                        pc[t] \in Reading, Head(job[t]) # "waitAck"
                 PROVE  Owns(t) \/ Overwritten(t)
      BY Zenon DEF ResultIsOwn, Overwritten
    <2>1. job[t] # <<>>
      BY DEF Channel, Locks, Base, JobInv
    <2>2. Mine(t) \/ Overwritten(t)
      BY <2>1 DEF Owned, Sent
    <2>3. pc[t] = "use" /\ Head(job[t]) # "poke" /\ alone[t] => Overwritten(t) \/ Done(t)
      BY <2>1 DEF Channel, Claims, Claim, Sent
    <2>4. Done(t) => buffer[Dev[t]].done
      BY DEF Done
    <2> QED
      BY <2>2, <2>3, <2>4 DEF Mine
  <1> QED
    BY <1>1, <1>2, <1>3, PTL DEF Spec
=============================================================================
