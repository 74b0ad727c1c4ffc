---------------------------- MODULE MemxUsb_proofs ----------------------------
(***************************************************************************)
(* Safety of the USB driver's transfers for any threads, any calls and any *)
(* number of transfers.  The inductive invariant says who holds which lock,*)
(* which completion the callback of an URB may signal, and, as long as     *)
(* nothing was left behind, that the URB in flight and the signal to come  *)
(* are those of the one who waits.                                         *)
(***************************************************************************)
EXTENDS MemxUsb, SequenceTheorems, TLAPS

(* The transfers that the commands consist of.                             *)
Good     == {Tx, TxData, FwRx, DbgRx, WriteChunk, AdminTx, AdminRx}
Segments == [fatal : BOOLEAN, steps : Seq(Good) \ {<<>>}]

AtTransfer == {"fill", "submit", "wait", "expired"}
WithCfg    == AtTransfer \cup {"unlink", "dummyLock", "dummyWait"}
Receiving  == {"dummyWait", "readCheck", "readAsleep", "readSignal", "readDone"}
WithRead   == Receiving \cup {"readSubmit"}

Types ==
  /\ urb \in [Urbs -> {"idle", "pending", "unlinked"}]
  /\ handler \in [Urbs -> Comps]
  /\ done \in [Comps -> 0..MaxDone]
  /\ cfglock \in Threads \cup {Free} /\ readlock \in Threads \cup {Free}
  /\ state \in {"normal", "abort"} /\ filled \in BOOLEAN
  /\ pc \in [Threads -> Places]
  /\ rest \in [Threads -> Seq(Segments)]
  /\ \A t \in Threads : pc[t] \in AtTransfer => rest[t] # <<>>
  /\ ops \in OpSets /\ watched \in {"out", "in", "rx"}
  /\ trace \in {"clean", "dirty"}

LockInv ==
  \A t \in Threads : /\ pc[t] \in WithCfg <=> cfglock = t
                     /\ pc[t] \in WithRead <=> readlock = t

(* Each direction has URBs and completions of its own.                     *)
UrbsOf(kind)  == IF kind = "out" THEN {"tx", "fwtx"} ELSE IF kind = "in" THEN {"fwrx"} ELSE {"rx"}
CompsOf(kind) == IF kind = "out" THEN {"fw", "tx"} ELSE IF kind = "in" THEN {"fwrx"} ELSE {"rx"}

HandlerInv ==
  /\ \A kind \in {"out", "in", "rx"} : \A u \in UrbsOf(kind) : handler[u] \in CompsOf(kind)
  /\ \A t \in Threads : pc[t] \in {"submit", "wait", "expired"} => handler[Cur(t).urb] = Cur(t).comp

Quiet(kind) ==
  /\ \A u \in UrbsOf(kind) : urb[u] = "idle"
  /\ \A c \in CompsOf(kind) : done[c] = 0

(* The transfer s is on its way or has just signalled, and nothing else    *)
(* will signal its completion.                                             *)
InFlight(s) ==
  /\ \/ urb[s.urb] = "pending" /\ done[s.comp] = 0
     \/ urb[s.urb] = "idle" /\ done[s.comp] = 1
  /\ \A u \in UrbsOf(Kind(s)) : u # s.urb => urb[u] = "idle"
  /\ \A c \in CompsOf(Kind(s)) : c # s.comp => done[c] = 0

Awaits(t) == pc[t] \in {"wait", "expired"} /\ Kind(Cur(t)) = watched

FlightInv ==
  trace = "clean" /\ watched # "rx" =>
    /\ \A t \in Threads : Awaits(t) => InFlight(Cur(t))
    /\ (\A t \in Threads : ~Awaits(t)) => Quiet(watched)

(* Of rxurb: the data has come, or the abort that took it back is to be    *)
(* answered by this read.                                                  *)
Expected(t) ==
  /\ urb["rx"] # "idle" => done["rx"] = 0
  /\ urb["rx"] = "idle" => done["rx"] = 1 /\ (filled \/ state = "abort")
  /\ urb["rx"] = "unlinked" => state = "abort"
  /\ pc[t] = "dummyWait" => urb["rx"] # "unlinked" /\ (urb["rx"] = "idle" => filled)
  /\ pc[t] = "readDone" => state = "abort" \/ urb["rx"] = "idle"

ReceiveInv ==
  trace = "clean" /\ watched = "rx" =>
    /\ \A t \in Threads : pc[t] \in Receiving => Expected(t)
    /\ (\A t \in Threads : pc[t] \notin Receiving) => Quiet("rx")
    /\ Unlinking => state = "abort"

UsbInv == Types /\ LockInv /\ HandlerInv /\ FlightInv /\ ReceiveInv

-----------------------------------------------------------------------------
(* The commands.                                                           *)
OwnDirection(s) ==
  /\ s \in Steps
  /\ s.urb \in UrbsOf(Kind(s)) /\ s.comp \in CompsOf(Kind(s)) /\ Kind(s) \in {"out", "in"}
  /\ s.kill \in BOOLEAN /\ s.reinit \in BOOLEAN

LEMMA StepFields ==
  ASSUME NEW u \in {"tx", "fwtx", "fwrx"}, NEW c \in {"fw", "tx", "fwrx"},
         NEW kill \in BOOLEAN, NEW reinit \in BOOLEAN, u = "fwrx" <=> c = "fwrx"
  PROVE  OwnDirection(Step(u, c, kill, reinit))
  <1> DEFINE s == Step(u, c, kill, reinit)
  <1>1. s \in Steps
    BY DEF Step, Steps, Urbs, Comps
  <1>2. s.urb = u /\ s.comp = c /\ s.kill = kill /\ s.reinit = reinit
    BY DEF Step
  <1> HIDE DEF s
  <1>3. Kind(s) = IF u = "fwrx" THEN "in" ELSE "out"
    BY <1>2 DEF Kind
  <1>6. s.kill \in BOOLEAN /\ s.reinit \in BOOLEAN
    BY <1>1 DEF Steps
  <1>4. UrbsOf("in") = {"fwrx"} /\ CompsOf("in") = {"fwrx"}
        /\ UrbsOf("out") = {"tx", "fwtx"} /\ CompsOf("out") = {"fw", "tx"}
    BY DEF UrbsOf, CompsOf
  <1>5. s.urb \in UrbsOf(Kind(s)) /\ s.comp \in CompsOf(Kind(s)) /\ Kind(s) \in {"out", "in"}
    <2>1. CASE u = "fwrx"
      BY <1>2, <1>3, <1>4, <2>1
    <2>2. CASE u # "fwrx"
      BY <1>2, <1>3, <1>4, <2>2
    <2> QED
      BY <2>1, <2>2
  <1>7. OwnDirection(s)
    BY <1>1, <1>5, <1>6 DEF OwnDirection
  <1> QED
    BY <1>7 DEF s

LEMMA GoodFacts ==
  \A s \in Good : OwnDirection(s)
  <1>1. OwnDirection(Tx) /\ OwnDirection(TxData) /\ OwnDirection(FwRx) /\ OwnDirection(DbgRx)
    BY StepFields DEF Tx, TxData, FwRx, DbgRx
  <1>2. OwnDirection(WriteChunk) /\ OwnDirection(AdminTx) /\ OwnDirection(AdminRx)
    BY StepFields DEF WriteChunk, AdminTx, AdminRx
  <1> QED
    BY <1>1, <1>2 DEF Good

LEMMA DirectionFacts ==
  /\ \A k \in {"out", "in", "rx"} : UrbsOf(k) \subseteq Urbs /\ CompsOf(k) \subseteq Comps
  /\ \A k, l \in {"out", "in", "rx"} : k # l => /\ UrbsOf(k) \cap UrbsOf(l) = {}
                                               /\ CompsOf(k) \cap CompsOf(l) = {}
  /\ \A u \in Urbs : \E k \in {"out", "in", "rx"} : u \in UrbsOf(k)
  BY DEF UrbsOf, CompsOf, Urbs, Comps

LEMMA DataFacts ==
  ASSUME NEW s \in Good
  PROVE  Data(s) \in Seq(Good) /\ Data(s) # <<>>
  <1>1. Chunks \in Nat /\ Chunks # 0
    BY UsbAssumption
  <1>2. Data(s) \in [1..Chunks -> Good] /\ DOMAIN Data(s) = 1..Chunks
    BY DEF Data
  <1>3. Data(s) \in Seq(Good)
    BY <1>1, <1>2
  <1>4. 1 \in DOMAIN Data(s) /\ 1 \notin DOMAIN <<>>
    BY <1>1, <1>2
  <1> QED
    BY <1>3, <1>4

LEMMA Headed ==
  ASSUME NEW S, NEW s \in S, NEW q \in Seq(S)
  PROVE  <<s>> \o q \in Seq(S) /\ <<s>> \o q # <<>>
  <1>1. <<s>> \in Seq(S) /\ Len(<<s>>) = 1
    OBVIOUS
  <1>2. <<s>> \o q \in Seq(S) /\ Len(<<s>> \o q) = Len(<<s>>) + Len(q)
    BY <1>1, ConcatProperties
  <1>3. Len(q) \in Nat
    BY LenProperties
  <1>4. Len(<<s>> \o q) # 0
    BY <1>1, <1>2, <1>3
  <1> QED
    BY <1>2, <1>4, EmptySeq

LEMMA SegmentFacts ==
  ASSUME NEW q \in Seq(Good), q # <<>>
  PROVE  Must(q) \in Segments /\ May(q) \in Segments
  BY DEF Must, May, Segments

LEMMA ScriptFacts ==
  \A o \in DOMAIN Scripts : Scripts[o] \in Seq(Segments) /\ Scripts[o] # <<>>
  <1>1. /\ Tx \in Good /\ TxData \in Good /\ FwRx \in Good /\ DbgRx \in Good
        /\ WriteChunk \in Good /\ AdminTx \in Good /\ AdminRx \in Good
    BY DEF Good
  <1>2. /\ clear_fw_id \in Segments /\ set_dfp_chip_id \in Segments
        /\ set_wtmem_addr \in Segments /\ set_wtmem_size \in Segments
    <2>1. <<Tx>> \in Seq(Good) /\ <<Tx, Tx>> \in Seq(Good) /\ <<Tx, Tx, Tx, Tx>> \in Seq(Good)
      BY <1>1
    <2> QED
      BY <2>1, SegmentFacts DEF clear_fw_id, set_dfp_chip_id, set_wtmem_addr, set_wtmem_size
  <1>3. memx_flash_download \in Seq(Segments) /\ memx_flash_download # <<>>
    <2>1. Data(Tx) \in Seq(Good) /\ <<FwRx>> \in Seq(Good)
      BY <1>1, DataFacts
    <2>2. <<Tx>> \o Data(Tx) \in Seq(Good) /\ <<Tx>> \o Data(Tx) # <<>>
      BY <1>1, <2>1, Headed
    <2>3. /\ <<Tx>> \o Data(Tx) \o <<FwRx>> \in Seq(Good)
          /\ Len(<<Tx>> \o Data(Tx) \o <<FwRx>>) = Len(<<Tx>> \o Data(Tx)) + Len(<<FwRx>>)
      BY <2>1, <2>2, ConcatProperties
    <2>4. Len(<<Tx>> \o Data(Tx)) \in Nat /\ Len(<<FwRx>>) = 1
      BY <2>2, LenProperties
    <2>5. <<Tx>> \o Data(Tx) \o <<FwRx>> # <<>>
      BY <2>3, <2>4, EmptySeq
    <2>6. May(<<Tx>> \o Data(Tx) \o <<FwRx>>) \in Segments
      BY <2>3, <2>5, SegmentFacts
    <2> QED
      BY <1>2, <2>6 DEF memx_flash_download
  <1>4. separate_config \in Seq(Segments) /\ separate_config # <<>>
    <2>1. <<Tx>> \o Data(Tx) \in Seq(Good) /\ <<Tx>> \o Data(Tx) # <<>>
      BY <1>1, DataFacts, Headed
    <2>2. Must(<<Tx>> \o Data(Tx)) \in Segments
      BY <2>1, SegmentFacts
    <2> QED
      BY <1>2, <2>2 DEF separate_config
  <1>5. Must(Data(Tx)) \in Segments /\ May(Data(TxData)) \in Segments /\ Must(Data(WriteChunk)) \in Segments
    BY <1>1, DataFacts, SegmentFacts
  <1>6. separate_wtmem \in Seq(Segments) /\ separate_wtmem # <<>>
    BY <1>2, <1>5 DEF separate_wtmem
  <1>7. /\ Must(<<Tx>>) \in Segments /\ Must(<<Tx, Tx>>) \in Segments /\ Must(<<FwRx>>) \in Segments
        /\ Must(<<Tx, TxData>>) \in Segments /\ Must(<<AdminTx, AdminTx, AdminRx>>) \in Segments
        /\ Must(<<Tx, DbgRx>>) \in Segments
    <2>1. /\ <<Tx>> \in Seq(Good) /\ <<Tx, Tx>> \in Seq(Good) /\ <<FwRx>> \in Seq(Good)
          /\ <<Tx, TxData>> \in Seq(Good) /\ <<AdminTx, AdminTx, AdminRx>> \in Seq(Good)
          /\ <<Tx, DbgRx>> \in Seq(Good)
      BY <1>1
    <2> QED
      BY <2>1, SegmentFacts
  <1>8. /\ write_reg \in Seq(Segments) /\ write_reg # <<>>
        /\ read_reg \in Seq(Segments) /\ read_reg # <<>>
        /\ get_fwupdate_status \in Seq(Segments) /\ get_fwupdate_status # <<>>
        /\ config_mpu_group \in Seq(Segments) /\ config_mpu_group # <<>>
    BY <1>2, <1>5, <1>7 DEF write_reg, read_reg, get_fwupdate_status, config_mpu_group
  <1>9. /\ reset_device \in Seq(Segments) /\ reset_device # <<>>
        /\ mpu_in_size \in Seq(Segments) /\ mpu_in_size # <<>>
        /\ mpu_out_size \in Seq(Segments) /\ mpu_out_size # <<>>
        /\ memx_write \in Seq(Segments) /\ memx_write # <<>>
        /\ memx_admin_trigger \in Seq(Segments) /\ memx_admin_trigger # <<>>
    BY <1>2, <1>5, <1>7 DEF reset_device, mpu_in_size, mpu_out_size, memx_write, memx_admin_trigger
  <1>10. /\ read_chip0 \in Seq(Segments) /\ read_chip0 # <<>>
         /\ feature_read_chip0 \in Seq(Segments) /\ feature_read_chip0 # <<>>
         /\ memx_dbgfs_enable \in Seq(Segments) /\ memx_dbgfs_enable # <<>>
         /\ memx_send_memxcmd \in Seq(Segments) /\ memx_send_memxcmd # <<>>
         /\ memx_get_logbuffer \in Seq(Segments) /\ memx_get_logbuffer # <<>>
    BY <1>7 DEF read_chip0, feature_read_chip0, memx_dbgfs_enable, memx_send_memxcmd, memx_get_logbuffer
  <1>11. <<set_dfp_chip_id>> \in Seq(Segments) /\ <<set_dfp_chip_id>> # <<>>
    BY <1>2
  <1> SUFFICES ASSUME NEW o \in DOMAIN Scripts
               PROVE  Scripts[o] \in Seq(Segments) /\ Scripts[o] # <<>>
    OBVIOUS
  <1>12. o \in {"download", "config", "wtmem", "writeReg", "readReg", "fwStatus", "chipId", "group",
                "reset", "inSize", "outSize", "write", "admin", "chip0", "util", "enable",
                "memxcmd", "log"}
    BY DEF Scripts
  <1>13. CASE o \in {"download", "config", "wtmem"}
    BY <1>3, <1>4, <1>6, <1>13 DEF Scripts
  <1>14. CASE o \in {"writeReg", "readReg", "fwStatus", "group"}
    BY <1>8, <1>14 DEF Scripts
  <1>15. CASE o \in {"reset", "inSize", "outSize", "write", "admin"}
    BY <1>9, <1>15 DEF Scripts
  <1>16. CASE o \in {"chip0", "util", "enable", "memxcmd", "log"}
    BY <1>10, <1>16 DEF Scripts
  <1>17. CASE o = "chipId"
    BY <1>11, <1>17 DEF Scripts
  <1> QED
    BY <1>12, <1>13, <1>14, <1>15, <1>16, <1>17

(* The transfer in question, and what is left after it or after a failure. *)
LEMMA CurFacts ==
  ASSUME NEW r \in Seq(Segments), r # <<>>
  PROVE  LET s == Head(r)
             after == IF Len(s.steps) > 1 THEN <<[s EXCEPT !.steps = Tail(@)]>> \o Tail(r) ELSE Tail(r)
             failed == IF s.fatal THEN <<>> ELSE Tail(r)
         IN  Head(s.steps) \in Good /\ after \in Seq(Segments) /\ failed \in Seq(Segments)
  <1> DEFINE s == Head(r)
  <1>1. s \in Segments /\ Tail(r) \in Seq(Segments)
    BY HeadTailProperties
  <1>2. s.steps \in Seq(Good) /\ s.steps # <<>> /\ s.fatal \in BOOLEAN
        /\ s = [fatal |-> s.fatal, steps |-> s.steps]
    BY <1>1 DEF Segments
  <1>3. Head(s.steps) \in Good /\ Tail(s.steps) \in Seq(Good) /\ Len(Tail(s.steps)) = Len(s.steps) - 1
    BY <1>2, HeadTailProperties
  <1>4. Len(s.steps) \in Nat
    BY <1>2, LenProperties
  <1> HIDE DEF s
  <1>5. ASSUME Len(s.steps) > 1
        PROVE  [s EXCEPT !.steps = Tail(@)] \in Segments
    <2> DEFINE m == Len(s.steps)
               k == Len(Tail(s.steps))
    <2>2. m \in Nat /\ m > 1 /\ k = m - 1
      BY <1>3, <1>4, <1>5
    <2>3. k # 0
      <3> HIDE DEF m, k
      <3> QED
        BY <2>2
    <2>1. Tail(s.steps) # <<>>
      BY <2>3, EmptySeq, Zenon
    <2> QED
      BY <1>1, <1>3, <2>1 DEF Segments
  <1>6. Len(s.steps) > 1 => <<[s EXCEPT !.steps = Tail(@)]>> \o Tail(r) \in Seq(Segments)
    BY <1>1, <1>5, Headed
  <1>7. <<>> \in Seq(Segments)
    BY EmptySeq
  <1> QED
    BY <1>1, <1>3, <1>6, <1>7 DEF s

Waiting == {"wait", "expired"}

LEMMA CurIs ==
  ASSUME Types, NEW t \in Threads, pc[t] \in AtTransfer
  PROVE  /\ Cur(t) \in Good /\ OwnDirection(Cur(t)) /\ rest[t] \in Seq(Segments) /\ rest[t] # <<>>
         /\ Cur(t).urb \in Urbs \ {"rx"} /\ Cur(t).comp \in Comps \ {"rx"}
  <1>1. rest[t] \in Seq(Segments) /\ rest[t] # <<>>
    BY DEF Types
  <1>2. Cur(t) \in Good
    BY <1>1, CurFacts DEF Cur
  <1>3. OwnDirection(Cur(t))
    BY <1>2, GoodFacts
  <1>4. /\ Cur(t).urb \in UrbsOf(Kind(Cur(t))) /\ Cur(t).comp \in CompsOf(Kind(Cur(t)))
        /\ Kind(Cur(t)) \in {"out", "in"}
    BY <1>3 DEF OwnDirection
  <1>5. UrbsOf("out") = {"tx", "fwtx"} /\ UrbsOf("in") = {"fwrx"}
        /\ CompsOf("out") = {"fw", "tx"} /\ CompsOf("in") = {"fwrx"}
    BY DEF UrbsOf, CompsOf
  <1>6. Cur(t).urb \in {"tx", "fwtx", "fwrx"} /\ Cur(t).comp \in {"fw", "tx", "fwrx"}
    BY <1>4, <1>5
  <1>7. Cur(t).urb \in Urbs \ {"rx"} /\ Cur(t).comp \in Comps \ {"rx"}
    BY <1>6 DEF Urbs, Comps
  <1> QED
    BY <1>1, <1>2, <1>3, <1>7

-----------------------------------------------------------------------------
(* What the steps have in common.                                          *)

(* A step of t takes a lock that is free, gives back its own, or neither.  *)
LEMMA Relocks ==
  ASSUME Types, LockInv, NEW t \in Threads, NEW q \in Places, pc' = [pc EXCEPT ![t] = q],
         q \in WithCfg <=> cfglock' = t, q \in WithRead <=> readlock' = t,
         cfglock' = cfglock \/ {cfglock, cfglock'} \subseteq {t, Free},
         readlock' = readlock \/ {readlock, readlock'} \subseteq {t, Free}
  PROVE  LockInv'
  <1> SUFFICES ASSUME NEW u \in Threads
               PROVE  /\ pc'[u] \in WithCfg <=> cfglock' = u
                      /\ pc'[u] \in WithRead <=> readlock' = u
    BY DEF LockInv
  <1>1. pc' = [pc EXCEPT ![t] = q] /\ pc \in [Threads -> Places] /\ u # Free
    BY UsbAssumption DEF Types
  <1>2. CASE u = t
    BY <1>1, <1>2
  <1>3. CASE u # t
    <2>1. pc'[u] = pc[u]
      BY <1>1, <1>3
    <2>2. cfglock' = u <=> cfglock = u
      BY <1>1, <1>3
    <2>3. readlock' = u <=> readlock = u
      BY <1>1, <1>3
    <2> QED
      BY <2>1, <2>2, <2>3 DEF LockInv
  <1> QED
    BY <1>2, <1>3

(* The watched direction is left alone, or no longer matters.              *)
LEMMA FlightKept ==
  ASSUME Types, FlightInv, watched' = watched, trace' = "clean" => trace = "clean",
         watched # "rx" => /\ \A u \in UrbsOf(watched) : urb'[u] = urb[u]
                           /\ \A c \in CompsOf(watched) : done'[c] = done[c],
         \A t \in Threads : (Awaits(t)' <=> Awaits(t)) /\ (Awaits(t) => rest'[t] = rest[t])
  PROVE  FlightInv'
  <1> SUFFICES ASSUME trace' = "clean", watched # "rx"
               PROVE  /\ \A t \in Threads : Awaits(t)' => InFlight(Cur(t))'
                      /\ (\A t \in Threads : ~Awaits(t)') => Quiet(watched)'
    BY DEF FlightInv
  <1>1. /\ \A u \in UrbsOf(watched) : urb'[u] = urb[u]
        /\ \A c \in CompsOf(watched) : done'[c] = done[c]
        /\ trace = "clean"
    OBVIOUS
  <1>2. ASSUME NEW t \in Threads, Awaits(t)'
        PROVE  InFlight(Cur(t))'
    <2>1. Awaits(t) /\ rest'[t] = rest[t]
      BY <1>2
    <2>2. PICK s : s = Cur(t)
      OBVIOUS
    <2>3. Cur(t)' = s
      BY <2>1, <2>2 DEF Cur
    <2>4. pc[t] \in AtTransfer /\ Kind(s) = watched
      BY <2>1, <2>2 DEF Awaits, AtTransfer
    <2>5. s.urb \in UrbsOf(watched) /\ s.comp \in CompsOf(watched)
      BY <2>2, <2>4, CurIs DEF OwnDirection
    <2>6. InFlight(s)
      BY <1>1, <2>1, <2>2 DEF FlightInv
    <2>7. InFlight(s)'
      BY <1>1, <2>4, <2>5, <2>6 DEF InFlight
    <2> QED
      BY <2>3, <2>7 DEF InFlight
  <1>3. ASSUME \A t \in Threads : ~Awaits(t)'
        PROVE  Quiet(watched)'
    <2>1. Quiet(watched)
      BY <1>1, <1>3 DEF FlightInv
    <2> QED
      BY <1>1, <2>1 DEF Quiet
  <1> QED
    BY <1>2, <1>3

(* Nobody waited in the watched direction, and nobody does now.            *)
LEMMA NobodyAwaits ==
  ASSUME watched' = watched, \A t \in Threads : ~Awaits(t)', watched # "rx" /\ trace' = "clean" => Quiet(watched)'
  PROVE  FlightInv'
  BY DEF FlightInv

(* A step of t that is no transfer's.                                      *)
LEMMA OthersAwait ==
  ASSUME Types, NEW t \in Threads, NEW q \in Places, pc' = [pc EXCEPT ![t] = q], watched' = watched,
         \A u \in Threads \ {t} : rest'[u] = rest[u], ~Awaits(t), q \notin Waiting
  PROVE  \A u \in Threads : (Awaits(u)' <=> Awaits(u)) /\ (Awaits(u) => rest'[u] = rest[u])
  <1> SUFFICES ASSUME NEW u \in Threads
               PROVE  (Awaits(u)' <=> Awaits(u)) /\ (Awaits(u) => rest'[u] = rest[u])
    OBVIOUS
  <1>1. pc' = [pc EXCEPT ![t] = q] /\ pc \in [Threads -> Places]
    BY DEF Types
  <1>2. CASE u = t
    <2>1. pc'[t] \notin Waiting
      BY <1>1
    <2> QED
      BY <1>2, <2>1 DEF Awaits, Waiting
  <1>3. CASE u # t
    <2>1. pc'[u] = pc[u] /\ rest'[u] = rest[u]
      BY <1>1, <1>3
    <2>2. Cur(u)' = Cur(u)
      BY <2>1 DEF Cur
    <2> QED
      BY <2>1, <2>2 DEF Awaits
  <1> QED
    BY <1>2, <1>3

(* One command at a time: while t is in one, no other waits.               *)
LEMMA OneCommand ==
  ASSUME LockInv, NEW t \in Threads, pc[t] \in WithCfg, NEW u \in Threads \ {t}
  PROVE  pc[u] \notin WithCfg /\ pc[u] \notin Waiting /\ ~Awaits(u)
  <1>1. cfglock = t /\ pc[u] \notin WithCfg
    BY DEF LockInv
  <1> QED
    BY <1>1 DEF WithCfg, AtTransfer, Waiting, Awaits

(* rxurb is left alone.                                                    *)
LEMMA ReceiveKept ==
  ASSUME ReceiveInv, watched' = watched, trace' = "clean" => trace = "clean",
         urb'["rx"] = urb["rx"], done'["rx"] = done["rx"], filled' = filled, state' = state,
         Unlinking' => Unlinking,
         \A t \in Threads : /\ pc'[t] \in Receiving <=> pc[t] \in Receiving
                            /\ pc'[t] = "dummyWait" => pc[t] = "dummyWait"
                            /\ pc'[t] = "readDone" => pc[t] = "readDone"
  PROVE  ReceiveInv'
  <1> SUFFICES ASSUME trace' = "clean", watched = "rx"
               PROVE  /\ \A t \in Threads : pc'[t] \in Receiving => Expected(t)'
                      /\ (\A t \in Threads : pc'[t] \notin Receiving) => Quiet("rx")'
                      /\ Unlinking' => state' = "abort"
    BY DEF ReceiveInv
  <1>1. trace = "clean" /\ watched = "rx"
    OBVIOUS
  <1>2. ASSUME NEW t \in Threads, pc'[t] \in Receiving
        PROVE  Expected(t)'
    <2>1. Expected(t)
      BY <1>1, <1>2 DEF ReceiveInv
    <2> QED
      BY <2>1 DEF Expected
  <1>3. ASSUME \A t \in Threads : pc'[t] \notin Receiving
        PROVE  Quiet("rx")'
    <2>1. Quiet("rx")
      BY <1>1, <1>3 DEF ReceiveInv
    <2>2. UrbsOf("rx") = {"rx"} /\ CompsOf("rx") = {"rx"}
      BY DEF UrbsOf, CompsOf
    <2> QED
      BY <2>1, <2>2 DEF Quiet
  <1>4. Unlinking' => state' = "abort"
    BY <1>1 DEF ReceiveInv
  <1> QED
    BY <1>2, <1>3, <1>4

LEMMA RxAside ==
  ASSUME Types, ReceiveInv, NEW t \in Threads, NEW q \in Places, pc' = [pc EXCEPT ![t] = q],
         watched' = watched, trace' = "clean" => trace = "clean",
         urb'["rx"] = urb["rx"], done'["rx"] = done["rx"], filled' = filled, state' = state,
         q \in Receiving <=> pc[t] \in Receiving, q \notin {"dummyWait", "readDone", "unlink"}
  PROVE  ReceiveInv'
  <1>1. pc' = [pc EXCEPT ![t] = q] /\ pc \in [Threads -> Places]
    BY DEF Types
  <1>2. \A u \in Threads : /\ pc'[u] \in Receiving <=> pc[u] \in Receiving
                           /\ pc'[u] = "dummyWait" => pc[u] = "dummyWait"
                           /\ pc'[u] = "readDone" => pc[u] = "readDone"
                           /\ pc'[u] = "unlink" => pc[u] = "unlink"
    BY <1>1
  <1>3. Unlinking' => Unlinking
    BY <1>2 DEF Unlinking
  <1> QED
    BY <1>2, <1>3, ReceiveKept

(* No transfer begins to wait.                                             *)
LEMMA HandlerKept ==
  ASSUME HandlerInv, handler' = handler,
         \A t \in Threads : pc'[t] \in {"submit", "wait", "expired"} =>
           pc[t] \in {"submit", "wait", "expired"} /\ rest'[t] = rest[t]
  PROVE  HandlerInv'
  <1>1. \A kind \in {"out", "in", "rx"} : \A u \in UrbsOf(kind) : handler'[u] \in CompsOf(kind)
    BY DEF HandlerInv
  <1>2. ASSUME NEW t \in Threads, pc'[t] \in {"submit", "wait", "expired"}
        PROVE  handler'[Cur(t)'.urb] = Cur(t)'.comp
    <2>1. pc[t] \in {"submit", "wait", "expired"} /\ rest'[t] = rest[t]
      BY <1>2
    <2>2. Cur(t)' = Cur(t)
      BY <2>1 DEF Cur
    <2>3. handler[Cur(t).urb] = Cur(t).comp
      BY <2>1 DEF HandlerInv
    <2> QED
      BY <2>2, <2>3
  <1> QED
    BY <1>1, <1>2 DEF HandlerInv

(* A step of t that is no transfer's: HandlerInv.                          *)
LEMMA HandlerAside ==
  ASSUME Types, HandlerInv, handler' = handler, NEW t \in Threads, NEW q \in Places,
         pc' = [pc EXCEPT ![t] = q], \A u \in Threads \ {t} : rest'[u] = rest[u],
         q \notin {"submit", "wait", "expired"}
  PROVE  HandlerInv'
  <1>1. pc' = [pc EXCEPT ![t] = q] /\ pc \in [Threads -> Places]
    BY DEF Types
  <1>2. \A u \in Threads : pc'[u] \in {"submit", "wait", "expired"} =>
          pc[u] \in {"submit", "wait", "expired"} /\ rest'[u] = rest[u]
    BY <1>1
  <1> QED
    BY <1>2, HandlerKept

(* t is past its transfer, with left still to do, at q.                    *)
Leaves(t, left, q) ==
  /\ rest' = [rest EXCEPT ![t] = left] /\ pc' = [pc EXCEPT ![t] = q]
  /\ cfglock' = IF q = "fill" THEN cfglock ELSE Free
  /\ q = "fill" => left # <<>>

LEMMA GoOnFacts ==
  ASSUME Types, NEW t \in Threads, pc[t] \in AtTransfer, NextTransfer(t) \/ GiveUp(t)
  PROVE  \E left \in Seq(Segments), q \in {"idle", "fill"} : Leaves(t, left, q)
  <1> DEFINE r == rest[t]
             s == Head(r)
             after == IF Len(s.steps) > 1 THEN <<[s EXCEPT !.steps = Tail(@)]>> \o Tail(r) ELSE Tail(r)
             failed == IF s.fatal THEN <<>> ELSE Tail(r)
  <1>1. r \in Seq(Segments) /\ r # <<>>
    BY CurIs
  <1>2. after \in Seq(Segments) /\ failed \in Seq(Segments)
    BY <1>1, CurFacts
  <1>3. GoOn(t, after) \/ GoOn(t, failed)
    BY DEF NextTransfer, GiveUp
  <1> HIDE DEF after, failed
  <1>4. PICK left \in Seq(Segments) : GoOn(t, left)
    BY <1>2, <1>3
  <1>5. CASE left = <<>>
    BY <1>4, <1>5 DEF GoOn, Goto, Leaves
  <1>6. CASE left # <<>>
    BY <1>4, <1>6 DEF GoOn, Goto, Leaves
  <1> QED
    BY <1>5, <1>6

(* What a command's going on leaves for the step to show.                  *)
LEMMA LeavesFacts ==
  ASSUME UsbInv, NEW t \in Threads, pc[t] \in AtTransfer,
         NEW left \in Seq(Segments), NEW q \in {"idle", "fill"}, Leaves(t, left, q),
         readlock' = readlock
  PROVE  /\ pc' \in [Threads -> Places] /\ rest' \in [Threads -> Seq(Segments)]
         /\ \A u \in Threads : pc'[u] \in AtTransfer => rest'[u] # <<>>
         /\ cfglock' \in Threads \cup {Free}
         /\ LockInv'
         /\ watched' = watched => \A u \in Threads : ~Awaits(u)'
         /\ watched' = watched /\ ~Awaits(t) =>
              \A u \in Threads : (Awaits(u)' <=> Awaits(u)) /\ (Awaits(u) => rest'[u] = rest[u])
         /\ handler' = handler => HandlerInv'
  <1>1. /\ rest' = [rest EXCEPT ![t] = left] /\ pc' = [pc EXCEPT ![t] = q]
        /\ cfglock' = IF q = "fill" THEN cfglock ELSE Free
        /\ q = "fill" => left # <<>>
    BY DEF Leaves
  <1>2. Types /\ LockInv /\ HandlerInv /\ pc \in [Threads -> Places] /\ rest \in [Threads -> Seq(Segments)]
        /\ q \in Places /\ cfglock \in Threads \cup {Free} /\ Free \notin Threads
    BY UsbAssumption DEF UsbInv, Types, Places
  <1>3. pc' \in [Threads -> Places] /\ rest' \in [Threads -> Seq(Segments)]
    BY <1>1, <1>2
  <1>4. \A u \in Threads : pc'[u] \in AtTransfer => rest'[u] # <<>>
    <2>1. \A u \in Threads \ {t} : pc'[u] = pc[u] /\ rest'[u] = rest[u]
      BY <1>1, <1>2
    <2>2. pc'[t] = q /\ rest'[t] = left
      BY <1>1, <1>2
    <2> QED
      BY <1>1, <1>2, <2>1, <2>2 DEF Types, AtTransfer
  <1>5. cfglock = t /\ cfglock' \in Threads \cup {Free} /\ cfglock' \in {t, Free}
    BY <1>1, <1>2 DEF LockInv, WithCfg
  <1>6. LockInv'
    <2>1. q \in WithCfg <=> cfglock' = t
      BY <1>1, <1>2, <1>5 DEF WithCfg, AtTransfer
    <2>2. q \in WithRead <=> readlock' = t
      <3>1. q \notin WithRead /\ pc[t] \notin WithRead
        BY DEF AtTransfer, WithRead, Receiving
      <3> QED
        BY <1>2, <3>1 DEF LockInv
    <2> QED
      BY <1>1, <1>2, <1>5, <2>1, <2>2, Relocks
  <1>7. \A u \in Threads \ {t} : pc[u] \notin Waiting /\ pc'[u] = pc[u] /\ rest'[u] = rest[u]
    BY <1>1, <1>2, OneCommand DEF WithCfg
  <1>8. watched' = watched => \A u \in Threads : ~Awaits(u)'
    <2>1. pc'[t] \notin Waiting
      BY <1>1, <1>2 DEF Waiting
    <2> QED
      BY <1>7, <2>1 DEF Awaits, Waiting
  <1>9. watched' = watched /\ ~Awaits(t) =>
          \A u \in Threads : (Awaits(u)' <=> Awaits(u)) /\ (Awaits(u) => rest'[u] = rest[u])
    BY <1>1, <1>2, <1>7, OthersAwait DEF Waiting
  <1>10. handler' = handler => HandlerInv'
    BY <1>1, <1>2, <1>7, HandlerAside
  <1> QED
    BY <1>3, <1>4, <1>5, <1>6, <1>8, <1>9, <1>10

(* A command's step that goes on, or gives up, has nothing to do with reads.*)
LEMMA LeavesReads ==
  ASSUME UsbInv, NEW t \in Threads, pc[t] \in AtTransfer,
         NEW left \in Seq(Segments), NEW q \in {"idle", "fill"}, Leaves(t, left, q),
         watched' = watched, trace' = "clean" => trace = "clean",
         urb'["rx"] = urb["rx"], done'["rx"] = done["rx"], filled' = filled, state' = state
  PROVE  ReceiveInv'
  <1>1. Types /\ ReceiveInv /\ pc' = [pc EXCEPT ![t] = q] /\ q \in Places
    BY DEF UsbInv, Leaves, Places
  <1>2. q \notin Receiving /\ pc[t] \notin Receiving /\ q \notin {"dummyWait", "readDone", "unlink"}
    BY DEF Receiving, AtTransfer
  <1> QED
    BY <1>1, <1>2, RxAside

LEMMA OtherKind ==
  ASSUME Types, HandlerInv, NEW t \in Threads, pc[t] \in AtTransfer, Kind(Cur(t)) # watched
  PROVE  /\ Cur(t).urb \notin UrbsOf(watched) /\ Cur(t).comp \notin CompsOf(watched)
         /\ handler[Cur(t).urb] \notin CompsOf(watched)
  <1> DEFINE k == Kind(Cur(t))
  <1>1. /\ k \in {"out", "in", "rx"} /\ watched \in {"out", "in", "rx"} /\ k # watched
        /\ Cur(t).urb \in UrbsOf(k) /\ Cur(t).comp \in CompsOf(k)
    BY CurIs DEF OwnDirection, Types
  <1>2. handler[Cur(t).urb] \in CompsOf(k)
    BY <1>1 DEF HandlerInv
  <1>3. UrbsOf(k) \cap UrbsOf(watched) = {} /\ CompsOf(k) \cap CompsOf(watched) = {}
    BY <1>1, DirectionFacts
  <1> HIDE DEF k
  <1> QED
    BY <1>1, <1>2, <1>3

-----------------------------------------------------------------------------
(* The steps of a command.                                                 *)
LEMMA LockStep ==
  ASSUME UsbInv, NEW t \in Threads, Lock(t)
  PROVE  UsbInv'
  <1>1. /\ Types /\ LockInv /\ HandlerInv /\ FlightInv /\ ReceiveInv
        /\ urb' = urb /\ handler' = handler /\ done' = done /\ readlock' = readlock /\ state' = state
        /\ filled' = filled /\ ops' = ops /\ watched' = watched /\ trace' = trace
        /\ pc[t] = "idle" /\ cfglock = Free /\ cfglock' = t /\ pc' = [pc EXCEPT ![t] = "fill"]
        /\ pc \in [Threads -> Places] /\ rest \in [Threads -> Seq(Segments)]
    BY DEF UsbInv, Types, Lock, usbVars, Goto
  <1>2. PICK o \in DOMAIN Scripts : rest' = [rest EXCEPT ![t] = Scripts[o]]
    BY DEF Lock
  <1>3. Scripts[o] \in Seq(Segments) /\ Scripts[o] # <<>>
    BY ScriptFacts
  <1>4. /\ "fill" \in Places /\ "fill" \notin Waiting /\ ~Awaits(t) /\ "fill" \in WithCfg /\ "fill" \notin WithRead
        /\ "fill" \notin Receiving /\ pc[t] \notin Receiving /\ pc[t] \notin WithRead
    BY <1>1 DEF Places, Waiting, Awaits, WithCfg, AtTransfer, WithRead, Receiving
  <1>5. Types'
    <2>1. rest' \in [Threads -> Seq(Segments)] /\ pc' \in [Threads -> Places]
      BY <1>1, <1>2, <1>3, <1>4
    <2>2. \A u \in Threads \ {t} : pc'[u] = pc[u] /\ rest'[u] = rest[u]
      BY <1>1, <1>2
    <2>3. rest'[t] # <<>>
      BY <1>1, <1>2, <1>3
    <2>4. \A u \in Threads : pc'[u] \in AtTransfer => rest'[u] # <<>>
      BY <1>1, <2>2, <2>3 DEF Types
    <2> QED
      BY <1>1, <2>1, <2>4 DEF Types
  <1>6. LockInv'
    <2>1. "fill" \in WithRead <=> readlock' = t
      BY <1>1, <1>4 DEF LockInv
    <2>2. {cfglock, cfglock'} \subseteq {t, Free}
      BY <1>1
    <2> QED
      BY <1>1, <1>4, <2>1, <2>2, Relocks
  <1>7. \A u \in Threads \ {t} : rest'[u] = rest[u]
    BY <1>1, <1>2
  <1>8. HandlerInv'
    BY <1>1, <1>4, <1>7, HandlerAside
  <1>9. FlightInv'
    <2>1. \A u \in Threads : (Awaits(u)' <=> Awaits(u)) /\ (Awaits(u) => rest'[u] = rest[u])
      BY <1>1, <1>4, <1>7, OthersAwait
    <2> QED
      BY <1>1, <2>1, FlightKept
  <1>10. ReceiveInv'
    BY <1>1, <1>4, RxAside
  <1> QED
    BY <1>5, <1>6, <1>8, <1>9, <1>10 DEF UsbInv

LEMMA FillStep ==
  ASSUME UsbInv, NEW t \in Threads, Fill(t)
  PROVE  UsbInv'
  <1>1. /\ Types /\ LockInv /\ HandlerInv /\ FlightInv /\ ReceiveInv
        /\ urb' = urb /\ done' = done /\ readlock' = readlock /\ state' = state
        /\ filled' = filled /\ ops' = ops /\ watched' = watched /\ trace' = trace
        /\ pc[t] = "fill" /\ pc \in [Threads -> Places] /\ rest \in [Threads -> Seq(Segments)]
        /\ cfglock \in Threads \cup {Free}
    BY DEF UsbInv, Types, Fill
  <1>2. pc[t] \in AtTransfer /\ pc[t] \in WithCfg /\ ~Awaits(t) /\ pc[t] \notin Receiving
    BY <1>1 DEF AtTransfer, WithCfg, Awaits, Receiving
  <1>3. CASE GiveUp(t) /\ UNCHANGED handler
    <2>1. PICK left \in Seq(Segments), q \in {"idle", "fill"} : Leaves(t, left, q)
      BY <1>1, <1>2, <1>3, GoOnFacts
    <2>2. /\ pc' \in [Threads -> Places] /\ rest' \in [Threads -> Seq(Segments)]
          /\ \A u \in Threads : pc'[u] \in AtTransfer => rest'[u] # <<>>
          /\ cfglock' \in Threads \cup {Free} /\ LockInv' /\ HandlerInv'
          /\ \A u \in Threads : (Awaits(u)' <=> Awaits(u)) /\ (Awaits(u) => rest'[u] = rest[u])
      BY <1>1, <1>2, <1>3, <2>1, LeavesFacts
    <2>3. Types'
      BY <1>1, <1>3, <2>2 DEF Types
    <2>4. FlightInv'
      BY <1>1, <2>2, FlightKept
    <2>5. ReceiveInv'
      BY <1>1, <1>2, <2>1, LeavesReads
    <2> QED
      BY <2>2, <2>3, <2>4, <2>5 DEF UsbInv
  <1>4. CASE /\ handler' = [handler EXCEPT ![Cur(t).urb] = Cur(t).comp]
             /\ Goto(t, "submit")
             /\ UNCHANGED <<cfglock, rest>>
    <2> DEFINE s == Cur(t)
    <2>1. /\ s \in Good /\ OwnDirection(s) /\ s.urb \in Urbs /\ s.comp \in Comps
      BY <1>1, <1>2, CurIs
    <2>2. /\ handler' = [handler EXCEPT ![s.urb] = s.comp] /\ pc' = [pc EXCEPT ![t] = "submit"]
          /\ cfglock' = cfglock /\ rest' = rest /\ handler \in [Urbs -> Comps]
      BY <1>1, <1>4 DEF Goto, Types
    <2>3. rest[t] # <<>>
      BY <1>1, <1>2, CurIs
    <2>4. Cur(t)' = s
      BY <2>2 DEF Cur
    <2> HIDE DEF s
    <2>5. "submit" \in Places /\ "submit" \notin Waiting /\ "submit" \in WithCfg /\ "submit" \notin WithRead
          /\ "submit" \notin Receiving /\ pc[t] \notin WithRead
      BY <1>1 DEF Places, Waiting, WithCfg, AtTransfer, WithRead, Receiving
    <2>6. \A u \in Threads \ {t} : pc'[u] = pc[u] /\ pc[u] \notin AtTransfer
      BY <1>1, <1>2, <2>2, OneCommand DEF WithCfg
    <2>7. pc'[t] = "submit"
      BY <1>1, <2>2
    <2>8. Types'
      <3>1. handler' \in [Urbs -> Comps] /\ pc' \in [Threads -> Places]
        BY <1>1, <2>1, <2>2, <2>5
      <3>2. \A u \in Threads : pc'[u] \in AtTransfer => rest'[u] # <<>>
        BY <2>2, <2>3, <2>6, <2>7
      <3> QED
        BY <1>1, <2>2, <3>1, <3>2 DEF Types
    <2>9. LockInv'
      <3>1. "submit" \in WithRead <=> readlock' = t
        BY <1>1, <2>5 DEF LockInv
      <3>2. "submit" \in WithCfg <=> cfglock' = t
        BY <1>1, <1>2, <2>2, <2>5 DEF LockInv
      <3> QED
        BY <1>1, <2>2, <2>5, <3>1, <3>2, Relocks
    <2>10. HandlerInv'
      <3>1. handler'[s.urb] = s.comp /\ \A u \in Urbs \ {s.urb} : handler'[u] = handler[u]
        BY <2>1, <2>2
      <3>2. ASSUME NEW kind \in {"out", "in", "rx"}, NEW u \in UrbsOf(kind)
            PROVE  handler'[u] \in CompsOf(kind)
        <4>1. u \in Urbs /\ handler[u] \in CompsOf(kind)
          BY <1>1, DirectionFacts DEF HandlerInv
        <4>2. CASE u = s.urb
          <5>1. /\ u \in UrbsOf(Kind(s)) /\ s.comp \in CompsOf(Kind(s))
                /\ Kind(s) \in {"out", "in", "rx"}
            BY <2>1, <4>2 DEF OwnDirection
          <5>2. kind = Kind(s)
            BY <5>1, DirectionFacts
          <5> QED
            BY <3>1, <4>2, <5>1, <5>2
        <4>3. CASE u # s.urb
          BY <3>1, <4>1, <4>3
        <4> QED
          BY <4>2, <4>3
      <3>3. ASSUME NEW u \in Threads, pc'[u] \in {"submit", "wait", "expired"}
            PROVE  handler'[Cur(u)'.urb] = Cur(u)'.comp
        <4>1. u = t
          BY <2>6, <3>3 DEF AtTransfer
        <4> QED
          BY <2>4, <3>1, <4>1
      <3> QED
        BY <3>2, <3>3 DEF HandlerInv
    <2>11. FlightInv'
      <3>1. \A u \in Threads : (Awaits(u)' <=> Awaits(u)) /\ (Awaits(u) => rest'[u] = rest[u])
        BY <1>1, <1>2, <2>2, <2>5, OthersAwait
      <3> QED
        BY <1>1, <3>1, FlightKept
    <2>12. ReceiveInv'
      BY <1>1, <1>2, <2>2, <2>5, RxAside
    <2> QED
      BY <2>8, <2>9, <2>10, <2>11, <2>12 DEF UsbInv
  <1> QED
    BY <1>3, <1>4 DEF Fill

LEMMA SubmitStep ==
  ASSUME UsbInv, NEW t \in Threads, Submit(t)
  PROVE  UsbInv'
  <1>1. /\ Types /\ LockInv /\ HandlerInv /\ FlightInv /\ ReceiveInv
        /\ handler' = handler /\ done' = done /\ readlock' = readlock /\ state' = state
        /\ filled' = filled /\ ops' = ops /\ watched' = watched /\ trace' = trace
        /\ pc[t] = "submit" /\ pc \in [Threads -> Places] /\ rest \in [Threads -> Seq(Segments)]
        /\ cfglock \in Threads \cup {Free} /\ watched \in {"out", "in", "rx"}
    BY DEF UsbInv, Types, Submit
  <1>2. pc[t] \in AtTransfer /\ pc[t] \in WithCfg /\ ~Awaits(t) /\ pc[t] \notin Receiving
    BY <1>1 DEF AtTransfer, WithCfg, Awaits, Receiving
  <1>3. CASE GiveUp(t) /\ UNCHANGED urb
    <2>1. PICK left \in Seq(Segments), q \in {"idle", "fill"} : Leaves(t, left, q)
      BY <1>1, <1>2, <1>3, GoOnFacts
    <2>2. /\ pc' \in [Threads -> Places] /\ rest' \in [Threads -> Seq(Segments)]
          /\ \A u \in Threads : pc'[u] \in AtTransfer => rest'[u] # <<>>
          /\ cfglock' \in Threads \cup {Free} /\ LockInv' /\ HandlerInv'
          /\ \A u \in Threads : (Awaits(u)' <=> Awaits(u)) /\ (Awaits(u) => rest'[u] = rest[u])
      BY <1>1, <1>2, <2>1, LeavesFacts
    <2>3. Types'
      BY <1>1, <1>3, <2>2 DEF Types
    <2>4. FlightInv'
      BY <1>1, <1>3, <2>2, FlightKept
    <2>5. ReceiveInv'
      BY <1>1, <1>2, <1>3, <2>1, LeavesReads
    <2> QED
      BY <2>2, <2>3, <2>4, <2>5 DEF UsbInv
  <1>4. CASE /\ urb[Cur(t).urb] = "idle"
             /\ urb' = [urb EXCEPT ![Cur(t).urb] = "pending"]
             /\ Goto(t, "wait")
             /\ UNCHANGED <<cfglock, rest>>
    <2>0. PICK s : s = Cur(t)
      OBVIOUS
    <2>1. /\ OwnDirection(s) /\ s.urb \in Urbs /\ s.urb # "rx" /\ rest[t] # <<>>
          /\ s.urb \in UrbsOf(Kind(s)) /\ s.comp \in CompsOf(Kind(s)) /\ Kind(s) \in {"out", "in"}
      BY <1>1, <1>2, <2>0, CurIs DEF OwnDirection
    <2>2. /\ urb' = [urb EXCEPT ![s.urb] = "pending"] /\ pc' = [pc EXCEPT ![t] = "wait"]
          /\ cfglock' = cfglock /\ rest' = rest /\ urb \in [Urbs -> {"idle", "pending", "unlinked"}]
      BY <1>1, <1>4, <2>0 DEF Goto, Types
    <2>3. Cur(t)' = s
      BY <2>0, <2>2 DEF Cur
    <2>4. Kind(s) # watched => s.urb \notin UrbsOf(watched)
      BY <1>1, <1>2, <2>0, OtherKind
    <2>5. "wait" \in Places /\ "wait" \in WithCfg /\ "wait" \notin WithRead /\ "wait" \notin Receiving
          /\ pc[t] \notin WithRead
      BY <1>1 DEF Places, WithCfg, AtTransfer, WithRead, Receiving
    <2>6. \A u \in Threads \ {t} : pc'[u] = pc[u] /\ pc[u] \notin AtTransfer /\ pc[u] \notin Waiting /\ ~Awaits(u)
      BY <1>1, <1>2, <2>2, OneCommand DEF WithCfg
    <2>7. pc'[t] = "wait"
      BY <1>1, <2>2
    <2>8. urb'[s.urb] = "pending" /\ \A u \in Urbs \ {s.urb} : urb'[u] = urb[u]
      BY <2>1, <2>2
    <2>9. Types'
      <3>1. urb' \in [Urbs -> {"idle", "pending", "unlinked"}] /\ pc' \in [Threads -> Places]
        BY <1>1, <2>1, <2>2, <2>5
      <3>2. \A u \in Threads : pc'[u] \in AtTransfer => rest'[u] # <<>>
        BY <2>1, <2>2, <2>6, <2>7
      <3> QED
        BY <1>1, <2>2, <3>1, <3>2 DEF Types
    <2>10. LockInv'
      <3>1. "wait" \in WithRead <=> readlock' = t
        BY <1>1, <2>5 DEF LockInv
      <3>2. "wait" \in WithCfg <=> cfglock' = t
        BY <1>1, <1>2, <2>2, <2>5 DEF LockInv
      <3> QED
        BY <1>1, <2>2, <2>5, <3>1, <3>2, Relocks
    <2>11. HandlerInv'
      <3>1. \A u \in Threads : pc'[u] \in {"submit", "wait", "expired"} =>
              pc[u] \in {"submit", "wait", "expired"} /\ rest'[u] = rest[u]
        BY <1>1, <2>2, <2>6
      <3> QED
        BY <1>1, <3>1, HandlerKept
    <2>12. \A u \in Threads \ {t} : ~Awaits(u)'
      BY <2>6 DEF Awaits, Waiting
    <2>13. Awaits(t)' <=> Kind(s) = watched
      BY <1>1, <2>3, <2>7 DEF Awaits
    <2>14. FlightInv'
      <3>1. CASE Kind(s) # watched
        <4>1. \A u \in Threads : (Awaits(u)' <=> Awaits(u)) /\ (Awaits(u) => rest'[u] = rest[u])
          BY <1>2, <2>2, <2>6, <2>12, <2>13, <3>1
        <4>2. \A u \in UrbsOf(watched) : urb'[u] = urb[u]
          BY <1>1, <2>4, <2>8, <3>1, DirectionFacts
        <4> QED
          BY <1>1, <4>1, <4>2, FlightKept
      <3>2. CASE Kind(s) = watched
        <4> SUFFICES ASSUME trace = "clean"
                     PROVE  /\ \A u \in Threads : Awaits(u)' => InFlight(Cur(u))'
                            /\ (\A u \in Threads : ~Awaits(u)') => Quiet(watched)'
          BY <1>1 DEF FlightInv
        <4>1. watched # "rx" /\ watched = Kind(s)
          BY <2>1, <3>2
        <4>2. Quiet(watched)
          BY <1>1, <1>2, <2>6, <4>1 DEF FlightInv
        <4>3. done'[s.comp] = 0 /\ \A c \in CompsOf(Kind(s)) : done'[c] = 0
          BY <1>1, <2>1, <4>1, <4>2 DEF Quiet
        <4>4. \A u \in UrbsOf(Kind(s)) : u # s.urb => urb'[u] = "idle"
          BY <2>1, <2>8, <4>1, <4>2, DirectionFacts DEF Quiet
        <4>5. InFlight(s)'
          BY <2>8, <4>3, <4>4 DEF InFlight
        <4>6. InFlight(Cur(t))'
          BY <2>3, <4>5 DEF InFlight
        <4> QED
          BY <2>12, <2>13, <3>2, <4>6
      <3> QED
        BY <3>1, <3>2
    <2>15. ReceiveInv'
      <3>1. urb'["rx"] = urb["rx"]
        BY <2>1, <2>8 DEF Urbs
      <3> QED
        BY <1>1, <1>2, <2>2, <2>5, <3>1, RxAside
    <2> QED
      BY <2>9, <2>10, <2>11, <2>14, <2>15 DEF UsbInv
  <1> QED
    BY <1>3, <1>4 DEF Submit

LEMMA WokenStep ==
  ASSUME UsbInv, NEW t \in Threads, Woken(t)
  PROVE  UsbInv'
  <1> DEFINE s == Cur(t)
  <1>1. /\ Types /\ LockInv /\ HandlerInv /\ FlightInv /\ ReceiveInv
        /\ urb' = urb /\ handler' = handler /\ readlock' = readlock /\ state' = state
        /\ filled' = filled /\ ops' = ops /\ watched' = watched
        /\ pc[t] = "wait" /\ done[s.comp] > 0 /\ done' = [done EXCEPT ![s.comp] = @ - 1]
        /\ trace' = (IF urb[s.urb] = "idle" THEN trace ELSE After(Kind(s), "fooled"))
        /\ NextTransfer(t) /\ done \in [Comps -> 0..MaxDone] /\ watched \in {"out", "in", "rx"}
        /\ trace \in {"clean", "dirty"}
    BY DEF UsbInv, Types, Woken, WokenBy
  <1>2. pc[t] \in AtTransfer
    BY <1>1 DEF AtTransfer
  <1>3. /\ OwnDirection(s) /\ s.urb \in Urbs /\ s.comp \in Comps /\ s.comp # "rx"
        /\ s.urb \in UrbsOf(Kind(s)) /\ s.comp \in CompsOf(Kind(s)) /\ Kind(s) \in {"out", "in"}
    BY <1>1, <1>2, CurIs DEF OwnDirection
  <1>4. Awaits(t) <=> Kind(s) = watched
    BY <1>1 DEF Awaits
  <1>5. Kind(s) # watched => s.comp \notin CompsOf(watched)
    BY <1>1, <1>2, OtherKind
  <1>6. PICK left \in Seq(Segments), q \in {"idle", "fill"} : Leaves(t, left, q)
    BY <1>1, <1>2, GoOnFacts
  <1>7. /\ pc' \in [Threads -> Places] /\ rest' \in [Threads -> Seq(Segments)]
        /\ \A u \in Threads : pc'[u] \in AtTransfer => rest'[u] # <<>>
        /\ cfglock' \in Threads \cup {Free} /\ LockInv' /\ HandlerInv'
        /\ \A u \in Threads : ~Awaits(u)'
        /\ ~Awaits(t) => \A u \in Threads : (Awaits(u)' <=> Awaits(u)) /\ (Awaits(u) => rest'[u] = rest[u])
    BY <1>1, <1>2, <1>6, LeavesFacts
  <1>8. Kind(s) = watched /\ trace = "clean" => InFlight(s)
    BY <1>1, <1>3, <1>4 DEF FlightInv
  <1> HIDE DEF s
  <1>9. MaxDone \in Nat /\ done[s.comp] \in 0..MaxDone
    BY <1>1, <1>3, UsbAssumption
  <1>10. /\ done'[s.comp] = done[s.comp] - 1 /\ \A c \in Comps \ {s.comp} : done'[c] = done[c]
         /\ done' \in [Comps -> 0..MaxDone]
    <2>1. done[s.comp] - 1 \in 0..MaxDone
      BY <1>1, <1>9
    <2> QED
      BY <1>1, <1>3, <2>1
  <1>11. Kind(s) = watched /\ trace = "clean" => urb[s.urb] = "idle" /\ done[s.comp] = 1
    BY <1>1, <1>8, <1>9 DEF InFlight
  <1>12. trace' = trace
    BY <1>1, <1>11 DEF After
  <1>13. Types'
    BY <1>1, <1>7, <1>10, <1>12 DEF Types
  <1>14. FlightInv'
    <2>1. CASE Kind(s) # watched
      <3>1. \A c \in CompsOf(watched) : done'[c] = done[c]
        BY <1>1, <1>5, <1>10, <2>1, DirectionFacts
      <3> QED
        BY <1>1, <1>4, <1>7, <1>12, <2>1, <3>1, FlightKept
    <2>2. CASE Kind(s) = watched
      <3> SUFFICES ASSUME trace = "clean"
                   PROVE  Quiet(watched)'
        BY <1>1, <1>7, <1>12, NobodyAwaits
      <3>1. \A u \in UrbsOf(watched) : urb'[u] = "idle"
        BY <1>1, <1>8, <1>11, <2>2 DEF InFlight
      <3>2. \A c \in CompsOf(watched) : done'[c] = 0
        <4> SUFFICES ASSUME NEW c \in CompsOf(watched)
                     PROVE  done'[c] = 0
          OBVIOUS
        <4>1. c \in Comps
          BY <1>1, DirectionFacts
        <4>2. CASE c = s.comp
          BY <1>10, <1>11, <2>2, <4>2
        <4>3. CASE c # s.comp
          BY <1>8, <1>10, <2>2, <4>1, <4>3 DEF InFlight
        <4> QED
          BY <4>2, <4>3
      <3> QED
        BY <1>1, <3>1, <3>2 DEF Quiet
    <2> QED
      BY <2>1, <2>2
  <1>15. ReceiveInv'
    <2>1. done'["rx"] = done["rx"]
      BY <1>3, <1>10 DEF Comps
    <2> QED
      BY <1>1, <1>2, <1>6, <1>12, <2>1, LeavesReads
  <1> QED
    BY <1>7, <1>13, <1>14, <1>15 DEF UsbInv

LEMMA TimeoutStep ==
  ASSUME UsbInv, NEW t \in Threads, Timeout(t)
  PROVE  UsbInv'
  <1>1. /\ Types /\ LockInv /\ HandlerInv /\ FlightInv /\ ReceiveInv
        /\ urb' = urb /\ handler' = handler /\ done' = done /\ readlock' = readlock /\ state' = state
        /\ filled' = filled /\ ops' = ops /\ watched' = watched /\ trace' = trace
        /\ cfglock' = cfglock /\ rest' = rest /\ pc' = [pc EXCEPT ![t] = "expired"]
        /\ pc[t] = "wait" /\ pc \in [Threads -> Places] /\ rest \in [Threads -> Seq(Segments)]
    BY DEF UsbInv, Types, Timeout, usbVars, Goto
  <1>2. /\ "expired" \in Places /\ "expired" \in WithCfg /\ "expired" \notin WithRead
        /\ "expired" \notin Receiving /\ pc[t] \notin Receiving /\ pc[t] \notin WithRead
        /\ pc[t] \in WithCfg /\ pc[t] \in AtTransfer
    BY <1>1 DEF Places, WithCfg, AtTransfer, WithRead, Receiving
  <1>3. pc'[t] = "expired" /\ \A u \in Threads \ {t} : pc'[u] = pc[u]
    BY <1>1
  <1>4. Types'
    <2>1. pc' \in [Threads -> Places]
      BY <1>1, <1>2
    <2>2. \A u \in Threads : pc'[u] \in AtTransfer => rest'[u] # <<>>
      BY <1>1, <1>2, <1>3 DEF Types
    <2> QED
      BY <1>1, <2>1, <2>2 DEF Types
  <1>5. LockInv'
    <2>1. "expired" \in WithRead <=> readlock' = t
      BY <1>1, <1>2 DEF LockInv
    <2>2. "expired" \in WithCfg <=> cfglock' = t
      BY <1>1, <1>2 DEF LockInv
    <2> QED
      BY <1>1, <1>2, <2>1, <2>2, Relocks
  <1>6. HandlerInv'
    <2>1. \A u \in Threads : pc'[u] \in {"submit", "wait", "expired"} =>
            pc[u] \in {"submit", "wait", "expired"} /\ rest'[u] = rest[u]
      BY <1>1, <1>3
    <2> QED
      BY <1>1, <2>1, HandlerKept
  <1>7. FlightInv'
    <2>1. \A u \in Threads : Cur(u)' = Cur(u)
      BY <1>1 DEF Cur
    <2>2. \A u \in Threads : Awaits(u)' <=> Awaits(u)
      BY <1>1, <1>3, <2>1 DEF Awaits
    <2> QED
      BY <1>1, <2>2, FlightKept
  <1>8. ReceiveInv'
    BY <1>1, <1>2, RxAside
  <1> QED
    BY <1>4, <1>5, <1>6, <1>7, <1>8 DEF UsbInv

LEMMA SignalFacts ==
  ASSUME Types, NEW c \in Comps
  PROVE  /\ Signalled(c) \in [Comps -> 0..MaxDone]
         /\ \A e \in Comps \ {c} : Signalled(c)[e] = done[e]
         /\ done[c] = 0 => Signalled(c)[c] = 1
  <1> DEFINE n == IF done[c] < MaxDone THEN done[c] + 1 ELSE done[c]
  <1>1. done \in [Comps -> 0..MaxDone] /\ MaxDone \in Nat /\ MaxDone # 0
    BY UsbAssumption DEF Types
  <1>2. done[c] \in 0..MaxDone
    BY <1>1
  <1>3. n \in 0..MaxDone /\ (done[c] = 0 => n = 1)
    BY <1>1, <1>2
  <1>4. Signalled(c) = [done EXCEPT ![c] = n]
    BY DEF Signalled
  <1> HIDE DEF n
  <1> QED
    BY <1>1, <1>3, <1>4

LEMMA ExpiredStep ==
  ASSUME UsbInv, NEW t \in Threads, Expired(t)
  PROVE  UsbInv'
  <1>0. PICK s : s = Cur(t)
    OBVIOUS
  <1>1. /\ Types /\ LockInv /\ HandlerInv /\ FlightInv /\ ReceiveInv
        /\ handler' = handler /\ readlock' = readlock /\ state' = state
        /\ filled' = filled /\ ops' = ops /\ watched' = watched
        /\ pc[t] = "expired" /\ Cleaned(s) /\ LeftBehind(Kind(s), ~(s.kill /\ s.reinit))
        /\ GiveUp(t) /\ done \in [Comps -> 0..MaxDone] /\ watched \in {"out", "in", "rx"}
        /\ trace \in {"clean", "dirty"} /\ urb \in [Urbs -> {"idle", "pending", "unlinked"}]
    BY <1>0 DEF UsbInv, Types, Expired
  <1>2. pc[t] \in AtTransfer
    BY <1>1 DEF AtTransfer
  <1>3. /\ OwnDirection(s) /\ s.urb \in Urbs /\ s.comp \in Comps /\ s.comp # "rx" /\ s.urb # "rx"
        /\ s.urb \in UrbsOf(Kind(s)) /\ s.comp \in CompsOf(Kind(s)) /\ Kind(s) \in {"out", "in"}
        /\ s.kill \in BOOLEAN /\ s.reinit \in BOOLEAN
    BY <1>0, <1>1, <1>2, CurIs DEF OwnDirection
  <1>4. Awaits(t) <=> Kind(s) = watched
    BY <1>0, <1>1 DEF Awaits
  <1>5. Kind(s) # watched => s.comp \notin CompsOf(watched) /\ s.urb \notin UrbsOf(watched)
    BY <1>0, <1>1, <1>2, OtherKind
  <1>6. PICK left \in Seq(Segments), q \in {"idle", "fill"} : Leaves(t, left, q)
    BY <1>1, <1>2, GoOnFacts
  <1>7. /\ pc' \in [Threads -> Places] /\ rest' \in [Threads -> Seq(Segments)]
        /\ \A u \in Threads : pc'[u] \in AtTransfer => rest'[u] # <<>>
        /\ cfglock' \in Threads \cup {Free} /\ LockInv' /\ HandlerInv'
        /\ \A u \in Threads : ~Awaits(u)'
        /\ ~Awaits(t) => \A u \in Threads : (Awaits(u)' <=> Awaits(u)) /\ (Awaits(u) => rest'[u] = rest[u])
    BY <1>1, <1>2, <1>6, LeavesFacts
  <1>8. Kind(s) = watched /\ trace = "clean" => InFlight(s)
    BY <1>0, <1>1, <1>3, <1>4 DEF FlightInv
  <1>9. handler[s.urb] = s.comp
    BY <1>0, <1>1 DEF HandlerInv
  <1>10. /\ urb' \in [Urbs -> {"idle", "pending", "unlinked"}]
         /\ \A u \in Urbs \ {s.urb} : urb'[u] = urb[u]
         /\ s.kill => urb'[s.urb] = "idle"
    <2>1. CASE s.kill
      <3>1. urb' = [urb EXCEPT ![s.urb] = "idle"]
        BY <1>1, <2>1 DEF Cleaned, KilledUrb
      <3> QED
        BY <1>1, <1>3, <3>1
    <2>2. CASE ~s.kill
      <3>1. urb' = urb
        BY <1>1, <2>2 DEF Cleaned
      <3> QED
        BY <1>1, <2>2, <3>1
    <2> QED
      BY <2>1, <2>2
  <1>11. /\ KilledDone(s.urb) \in [Comps -> 0..MaxDone]
         /\ \A c \in Comps \ {s.comp} : KilledDone(s.urb)[c] = done[c]
    <2>1. CASE urb[s.urb] = "idle"
      BY <1>1, <2>1 DEF KilledDone
    <2>2. CASE urb[s.urb] # "idle"
      <3>1. KilledDone(s.urb) = Signalled(s.comp)
        BY <1>9, <2>2 DEF KilledDone
      <3> QED
        BY <1>1, <1>3, <3>1, SignalFacts
    <2> QED
      BY <2>1, <2>2
  <1>12. /\ done' \in [Comps -> 0..MaxDone]
         /\ \A c \in Comps \ {s.comp} : done'[c] = done[c]
         /\ s.kill /\ s.reinit => done'[s.comp] = 0
    <2>1. CASE s.kill /\ s.reinit
      <3>1. done' = [KilledDone(s.urb) EXCEPT ![s.comp] = 0]
        BY <1>1, <2>1 DEF Cleaned, KillReinit
      <3>2. 0 \in 0..MaxDone
        BY UsbAssumption
      <3> QED
        BY <1>3, <1>11, <3>1, <3>2
    <2>2. CASE ~(s.kill /\ s.reinit)
      <3>1. done' = KilledDone(s.urb) \/ done' = done
        BY <1>1, <2>2 DEF Cleaned
      <3> QED
        BY <1>1, <1>11, <2>2, <3>1
    <2> QED
      BY <2>1, <2>2
  <1>13. /\ trace' \in {"clean", "dirty"} /\ (trace' = "clean" => trace = "clean")
         /\ Kind(s) = watched /\ trace' = "clean" => s.kill /\ s.reinit
    BY <1>1 DEF LeftBehind, After
  <1>14. Types'
    BY <1>1, <1>7, <1>10, <1>12, <1>13 DEF Types
  <1>15. FlightInv'
    <2>1. CASE Kind(s) # watched
      <3>1. /\ \A c \in CompsOf(watched) : done'[c] = done[c]
            /\ \A u \in UrbsOf(watched) : urb'[u] = urb[u]
        BY <1>1, <1>5, <1>10, <1>12, <2>1, DirectionFacts
      <3> QED
        BY <1>1, <1>4, <1>7, <1>13, <2>1, <3>1, FlightKept
    <2>2. CASE Kind(s) = watched
      <3> SUFFICES ASSUME trace' = "clean"
                   PROVE  Quiet(watched)'
        BY <1>1, <1>7, NobodyAwaits
      <3>1. InFlight(s) /\ s.kill /\ s.reinit
        BY <1>8, <1>13, <2>2
      <3>2. \A u \in UrbsOf(watched) : urb'[u] = "idle"
        <4> SUFFICES ASSUME NEW u \in UrbsOf(watched)
                     PROVE  urb'[u] = "idle"
          OBVIOUS
        <4>1. u \in Urbs
          BY <1>1, DirectionFacts
        <4>2. CASE u = s.urb
          BY <1>10, <3>1, <4>2
        <4>3. CASE u # s.urb
          BY <1>10, <2>2, <3>1, <4>1, <4>3 DEF InFlight
        <4> QED
          BY <4>2, <4>3
      <3>3. \A c \in CompsOf(watched) : done'[c] = 0
        <4> SUFFICES ASSUME NEW c \in CompsOf(watched)
                     PROVE  done'[c] = 0
          OBVIOUS
        <4>1. c \in Comps
          BY <1>1, DirectionFacts
        <4>2. CASE c = s.comp
          BY <1>12, <3>1, <4>2
        <4>3. CASE c # s.comp
          BY <1>12, <2>2, <3>1, <4>1, <4>3 DEF InFlight
        <4> QED
          BY <4>2, <4>3
      <3> QED
        BY <1>1, <3>2, <3>3 DEF Quiet
    <2> QED
      BY <2>1, <2>2
  <1>16. ReceiveInv'
    <2>1. done'["rx"] = done["rx"] /\ urb'["rx"] = urb["rx"]
      BY <1>3, <1>10, <1>12 DEF Comps, Urbs
    <2> QED
      BY <1>1, <1>2, <1>6, <1>13, <2>1, LeavesReads
  <1> QED
    BY <1>7, <1>14, <1>15, <1>16 DEF UsbInv

-----------------------------------------------------------------------------
(* An URB comes back.                                                      *)
LEMMA GivebackStep ==
  ASSUME UsbInv, NEW u \in Urbs, NEW data \in BOOLEAN, Giveback(u, data),
         urb[u] # "idle", ~data => urb[u] = "unlinked"
  PROVE  UsbInv'
  <1>1. /\ Types /\ LockInv /\ HandlerInv /\ FlightInv /\ ReceiveInv
        /\ handler' = handler /\ readlock' = readlock /\ cfglock' = cfglock /\ state' = state
        /\ rest' = rest /\ ops' = ops /\ watched' = watched /\ trace' = trace
        /\ urb' = [urb EXCEPT ![u] = "idle"] /\ done' = Signalled(handler[u])
        /\ filled' = IF u = "rx" THEN data ELSE filled
        /\ urb \in [Urbs -> {"idle", "pending", "unlinked"}] /\ watched \in {"out", "in", "rx"}
        /\ pc \in [Threads -> Places] /\ handler \in [Urbs -> Comps]
    BY DEF UsbInv, Types, Giveback
  <1>2. PICK h \in Comps : h = handler[u]
    BY <1>1
  <1>3. \A t \in Threads : pc'[t] = pc[t] \/ (pc[t] = "readAsleep" /\ pc'[t] = "readCheck")
    <2>1. pc' = pc \/ pc' = [t \in Threads |-> IF pc[t] = "readAsleep" THEN "readCheck" ELSE pc[t]]
      BY DEF Giveback
    <2> QED
      BY <2>1
  <1>4. pc' \in [Threads -> Places]
    <2>1. pc' = pc \/ pc' = [t \in Threads |-> IF pc[t] = "readAsleep" THEN "readCheck" ELSE pc[t]]
      BY DEF Giveback
    <2> QED
      BY <1>1, <2>1 DEF Places
  <1>5. urb'[u] = "idle" /\ \A v \in Urbs \ {u} : urb'[v] = urb[v]
    BY <1>1
  <1>6. /\ done' \in [Comps -> 0..MaxDone] /\ \A c \in Comps \ {h} : done'[c] = done[c]
        /\ done[h] = 0 => done'[h] = 1
    BY <1>1, <1>2, SignalFacts
  <1>7. \A t \in Threads : /\ pc'[t] \in AtTransfer <=> pc[t] \in AtTransfer
                           /\ pc'[t] \in WithCfg <=> pc[t] \in WithCfg
                           /\ pc'[t] \in WithRead <=> pc[t] \in WithRead
                           /\ pc'[t] \in Receiving <=> pc[t] \in Receiving
    BY <1>3 DEF AtTransfer, WithCfg, WithRead, Receiving
  <1>8. \A t \in Threads : /\ pc'[t] \in {"submit", "wait", "expired"} => pc[t] = pc'[t]
                           /\ pc'[t] \in Waiting <=> pc[t] \in Waiting
                           /\ pc'[t] \in {"dummyWait", "readDone", "unlink"} => pc[t] = pc'[t]
    BY <1>3 DEF Waiting
  <1>9. Types'
    <2>1. urb' \in [Urbs -> {"idle", "pending", "unlinked"}] /\ filled' \in BOOLEAN
      BY <1>1 DEF Types
    <2>2. \A t \in Threads : pc'[t] \in AtTransfer => rest'[t] # <<>>
      BY <1>1, <1>7 DEF Types
    <2> QED
      BY <1>1, <1>4, <1>6, <2>1, <2>2 DEF Types
  <1>10. LockInv'
    BY <1>1, <1>7 DEF LockInv
  <1>11. HandlerInv'
    BY <1>1, <1>8, HandlerKept
  <1>12. \A t \in Threads : (Awaits(t)' <=> Awaits(t)) /\ Cur(t)' = Cur(t)
    <2>1. \A t \in Threads : Cur(t)' = Cur(t)
      BY <1>1 DEF Cur
    <2> QED
      BY <1>1, <1>8, <2>1 DEF Awaits, Waiting
  <1>13. FlightInv'
    <2>1. CASE watched = "rx" \/ u \notin UrbsOf(watched)
      <3>1. ASSUME watched # "rx"
            PROVE  /\ \A v \in UrbsOf(watched) : urb'[v] = urb[v]
                   /\ \A c \in CompsOf(watched) : done'[c] = done[c]
        <4>1. PICK k \in {"out", "in", "rx"} : u \in UrbsOf(k)
          BY DirectionFacts
        <4>2. h \in CompsOf(k) /\ k # watched
          BY <1>1, <1>2, <2>1, <3>1, <4>1 DEF HandlerInv
        <4>3. h \notin CompsOf(watched)
          BY <1>1, <4>2, DirectionFacts
        <4> QED
          BY <1>1, <1>5, <1>6, <2>1, <3>1, <4>3, DirectionFacts
      <3> QED
        BY <1>1, <1>12, <3>1, FlightKept
    <2>2. CASE watched # "rx" /\ u \in UrbsOf(watched)
      <3> SUFFICES ASSUME trace = "clean"
                   PROVE  /\ \A t \in Threads : Awaits(t)' => InFlight(Cur(t))'
                          /\ (\A t \in Threads : ~Awaits(t)') => Quiet(watched)'
        BY <1>1 DEF FlightInv
      <3>1. ASSUME NEW t \in Threads, Awaits(t)'
            PROVE  InFlight(Cur(t))'
        <4>0. PICK s : s = Cur(t)
          OBVIOUS
        <4>1. Awaits(t) /\ InFlight(s) /\ Kind(s) = watched /\ Cur(t)' = s /\ pc[t] \in Waiting
          BY <1>1, <1>12, <2>2, <3>1, <4>0 DEF FlightInv, Awaits, Waiting
        <4>2. pc[t] \in AtTransfer /\ pc[t] \in {"submit", "wait", "expired"}
          BY <4>1 DEF AtTransfer, Waiting
        <4>3. s.urb \in UrbsOf(watched) /\ s.comp \in CompsOf(watched) /\ handler[s.urb] = s.comp
          BY <1>1, <4>0, <4>1, <4>2, CurIs DEF OwnDirection, HandlerInv
        <4>4. u = s.urb
          BY <2>2, <4>1 DEF InFlight
        <4>5. done[s.comp] = 0 /\ h = s.comp
          BY <1>2, <4>1, <4>3, <4>4 DEF InFlight
        <4>6. urb'[s.urb] = "idle" /\ done'[s.comp] = 1
          BY <1>5, <1>6, <4>4, <4>5
        <4>7. \A v \in UrbsOf(Kind(s)) : v # s.urb => urb'[v] = "idle"
          BY <1>1, <1>5, <4>1, <4>4, DirectionFacts DEF InFlight
        <4>8. \A c \in CompsOf(Kind(s)) : c # s.comp => done'[c] = 0
          BY <1>1, <1>6, <4>1, <4>5, DirectionFacts DEF InFlight
        <4>9. InFlight(s)'
          BY <4>6, <4>7, <4>8 DEF InFlight
        <4> QED
          BY <4>1, <4>9 DEF InFlight
      <3>2. ASSUME \A t \in Threads : ~Awaits(t)'
            PROVE  FALSE
        <4>1. Quiet(watched)
          BY <1>1, <1>12, <2>2, <3>2 DEF FlightInv
        <4> QED
          BY <2>2, <4>1 DEF Quiet
      <3> QED
        BY <3>1, <3>2
    <2> QED
      BY <2>1, <2>2
  <1>14. Unlinking' => Unlinking
    BY <1>8 DEF Unlinking
  <1>15. ReceiveInv'
    <2>1. CASE u # "rx"
      <3>1. urb'["rx"] = urb["rx"] /\ filled' = filled
        BY <1>1, <1>5, <2>1 DEF Urbs
      <3>2. PICK k \in {"out", "in", "rx"} : u \in UrbsOf(k)
        BY DirectionFacts
      <3>3. UrbsOf("rx") = {"rx"} /\ CompsOf("rx") = {"rx"}
        BY DEF UrbsOf, CompsOf
      <3>4. h \in CompsOf(k) /\ k # "rx"
        BY <1>1, <1>2, <2>1, <3>2, <3>3 DEF HandlerInv
      <3>5. h # "rx"
        BY <3>3, <3>4, DirectionFacts
      <3>6. done'["rx"] = done["rx"]
        BY <1>6, <3>5 DEF Comps
      <3>7. \A t \in Threads : /\ pc'[t] \in Receiving <=> pc[t] \in Receiving
                               /\ pc'[t] = "dummyWait" => pc[t] = "dummyWait"
                               /\ pc'[t] = "readDone" => pc[t] = "readDone"
        BY <1>7, <1>8
      <3> QED
        BY <1>1, <1>14, <3>1, <3>6, <3>7, ReceiveKept
    <2>2. CASE u = "rx"
      <3> SUFFICES ASSUME trace = "clean", watched = "rx"
                   PROVE  /\ \A t \in Threads : pc'[t] \in Receiving => Expected(t)'
                          /\ (\A t \in Threads : pc'[t] \notin Receiving) => Quiet("rx")'
                          /\ Unlinking' => state' = "abort"
        BY <1>1 DEF ReceiveInv
      <3>1. h = "rx"
        BY <1>1, <1>2, <2>2 DEF HandlerInv, UrbsOf, CompsOf
      <3>2. urb'["rx"] = "idle" /\ filled' = data /\ urb["rx"] # "idle" /\ (~data => urb["rx"] = "unlinked")
        BY <1>1, <1>5, <2>2
      <3>3. ASSUME NEW t \in Threads, pc'[t] \in Receiving
            PROVE  Expected(t)'
        <4>1. Expected(t)
          BY <1>1, <1>7, <3>3 DEF ReceiveInv
        <4>2. done["rx"] = 0
          BY <3>2, <4>1 DEF Expected
        <4>3. done'["rx"] = 1
          BY <1>6, <3>1, <4>2
        <4>4. filled' \/ state' = "abort"
          BY <1>1, <3>2, <4>1 DEF Expected
        <4>5. pc'[t] = "dummyWait" => filled'
          BY <1>8, <3>2, <4>1 DEF Expected
        <4> QED
          BY <3>2, <4>3, <4>4, <4>5 DEF Expected
      <3>4. ASSUME \A t \in Threads : pc'[t] \notin Receiving
            PROVE  FALSE
        <4>1. Quiet("rx")
          BY <1>1, <1>7, <3>4 DEF ReceiveInv
        <4> QED
          BY <3>2, <4>1 DEF Quiet, UrbsOf
      <3>5. Unlinking' => state' = "abort"
        BY <1>1, <1>14 DEF ReceiveInv
      <3> QED
        BY <3>3, <3>4, <3>5
    <2> QED
      BY <2>1, <2>2
  <1> QED
    BY <1>9, <1>10, <1>11, <1>13, <1>15 DEF UsbInv

-----------------------------------------------------------------------------
(* Steps that are no transfer's: of aborts, dummy reads and reads.         *)
LEMMA AsideStep ==
  ASSUME UsbInv, NEW t \in Threads, NEW q \in Places \ AtTransfer, pc[t] \notin AtTransfer,
         pc' = [pc EXCEPT ![t] = q], rest' = rest, ops' = ops, watched' = watched, handler' = handler,
         urb' \in [Urbs -> {"idle", "pending", "unlinked"}], done' \in [Comps -> 0..MaxDone],
         \A u \in Urbs \ {"rx"} : urb'[u] = urb[u], \A c \in Comps \ {"rx"} : done'[c] = done[c],
         state' \in {"normal", "abort"}, filled' \in BOOLEAN,
         trace' \in {"clean", "dirty"}, trace' = "clean" => trace = "clean",
         cfglock' \in Threads \cup {Free}, readlock' \in Threads \cup {Free},
         q \in WithCfg <=> cfglock' = t, q \in WithRead <=> readlock' = t,
         cfglock' = cfglock \/ {cfglock, cfglock'} \subseteq {t, Free},
         readlock' = readlock \/ {readlock, readlock'} \subseteq {t, Free},
         ReceiveInv'
  PROVE  UsbInv'
  <1>1. /\ Types /\ LockInv /\ HandlerInv /\ FlightInv /\ pc \in [Threads -> Places] /\ q \in Places
        /\ watched \in {"out", "in", "rx"}
    BY DEF UsbInv, Types
  <1>2. q \notin Waiting /\ ~Awaits(t) /\ q \notin {"submit", "wait", "expired"}
    BY DEF Waiting, AtTransfer, Awaits
  <1>3. pc'[t] = q /\ \A u \in Threads \ {t} : pc'[u] = pc[u]
    BY <1>1
  <1>4. Types'
    <2>1. pc' \in [Threads -> Places]
      BY <1>1
    <2>2. \A u \in Threads : pc'[u] \in AtTransfer => rest'[u] # <<>>
      BY <1>1, <1>3 DEF Types
    <2>3. /\ handler' \in [Urbs -> Comps] /\ rest' \in [Threads -> Seq(Segments)] /\ ops' \in OpSets
          /\ watched' \in {"out", "in", "rx"}
      BY <1>1 DEF Types
    <2> QED
      BY <2>1, <2>2, <2>3 DEF Types
  <1>5. LockInv'
    BY <1>1, Relocks
  <1>6. HandlerInv'
    BY <1>1, <1>2, HandlerAside
  <1>7. FlightInv'
    <2>1. \A u \in Threads : (Awaits(u)' <=> Awaits(u)) /\ (Awaits(u) => rest'[u] = rest[u])
      BY <1>1, <1>2, OthersAwait
    <2>2. watched # "rx" => "rx" \notin UrbsOf(watched) /\ "rx" \notin CompsOf(watched)
      BY <1>1 DEF UrbsOf, CompsOf
    <2>3. watched # "rx" => /\ \A u \in UrbsOf(watched) : urb'[u] = urb[u]
                            /\ \A c \in CompsOf(watched) : done'[c] = done[c]
      BY <1>1, <2>2, DirectionFacts
    <2> QED
      BY <1>1, <2>1, <2>3, FlightKept
  <1> QED
    BY <1>4, <1>5, <1>6, <1>7 DEF UsbInv

(* One reader at a time.                                                   *)
LEMMA OneReader ==
  ASSUME LockInv, NEW t \in Threads, pc[t] \in WithRead \/ readlock = Free, NEW u \in Threads \ {t}
  PROVE  pc[u] \notin WithRead /\ pc[u] \notin Receiving
  <1>1. readlock = t \/ readlock = Free
    BY DEF LockInv
  <1>2. u # Free
    BY UsbAssumption
  <1>3. pc[u] \notin WithRead
    BY <1>1, <1>2 DEF LockInv
  <1> QED
    BY <1>3 DEF WithRead

(* The reader is done, and leaves rxurb as it found it.                    *)
LEMMA Rests ==
  ASSUME Types, LockInv, NEW t \in Threads, pc[t] \in WithRead, NEW q \in Places,
         pc' = [pc EXCEPT ![t] = q], q \notin Receiving, q # "unlink", watched' = watched,
         trace' = "clean" /\ watched = "rx" =>
           urb'["rx"] = "idle" /\ done'["rx"] = 0 /\ (Unlinking => state' = "abort")
  PROVE  ReceiveInv'
  <1>1. pc' = [pc EXCEPT ![t] = q] /\ pc \in [Threads -> Places]
    BY DEF Types
  <1>2. \A u \in Threads : pc'[u] \notin Receiving
    BY <1>1, OneReader
  <1>3. Unlinking' => Unlinking
    BY <1>1 DEF Unlinking
  <1>4. UrbsOf("rx") = {"rx"} /\ CompsOf("rx") = {"rx"}
    BY DEF UrbsOf, CompsOf
  <1>5. trace' = "clean" /\ watched' = "rx" => Quiet("rx")'
    BY <1>4 DEF Quiet
  <1> QED
    BY <1>2, <1>3, <1>5 DEF ReceiveInv

LEMMA RxKilled ==
  ASSUME Types, HandlerInv
  PROVE  /\ KilledUrb("rx") \in [Urbs -> {"idle", "pending", "unlinked"}] /\ KilledUrb("rx")["rx"] = "idle"
         /\ \A u \in Urbs \ {"rx"} : KilledUrb("rx")[u] = urb[u]
         /\ KillReinit("rx", "rx") \in [Comps -> 0..MaxDone] /\ KillReinit("rx", "rx")["rx"] = 0
         /\ \A c \in Comps \ {"rx"} : KillReinit("rx", "rx")[c] = done[c]
  <1>1. urb \in [Urbs -> {"idle", "pending", "unlinked"}] /\ done \in [Comps -> 0..MaxDone]
        /\ "rx" \in Urbs /\ "rx" \in Comps /\ 0 \in 0..MaxDone
    BY UsbAssumption DEF Types, Urbs, Comps
  <1>2. handler["rx"] = "rx"
    BY DEF HandlerInv, UrbsOf, CompsOf
  <1>3. /\ KilledDone("rx") \in [Comps -> 0..MaxDone]
        /\ \A c \in Comps \ {"rx"} : KilledDone("rx")[c] = done[c]
    <2>1. KilledDone("rx") = done \/ KilledDone("rx") = Signalled("rx")
      BY <1>2 DEF KilledDone
    <2> QED
      BY <1>1, <2>1, SignalFacts
  <1>4. KillReinit("rx", "rx") = [KilledDone("rx") EXCEPT !["rx"] = 0]
    BY DEF KillReinit
  <1>5. KilledUrb("rx") = [urb EXCEPT !["rx"] = "idle"]
    BY DEF KilledUrb
  <1> QED
    BY <1>1, <1>3, <1>4, <1>5

(* Steps that leave rxurb alone.                                           *)
LEMMA PlainAside ==
  ASSUME UsbInv, NEW t \in Threads, NEW q \in Places \ AtTransfer, pc[t] \notin AtTransfer,
         pc' = [pc EXCEPT ![t] = q], rest' = rest, ops' = ops, watched' = watched, handler' = handler,
         urb' = urb, done' = done, state' = state, filled' = filled, trace' = trace,
         cfglock' \in Threads \cup {Free}, readlock' \in Threads \cup {Free},
         q \in WithCfg <=> cfglock' = t, q \in WithRead <=> readlock' = t,
         cfglock' = cfglock \/ {cfglock, cfglock'} \subseteq {t, Free},
         readlock' = readlock \/ {readlock, readlock'} \subseteq {t, Free},
         q \in Receiving <=> pc[t] \in Receiving, q \notin {"dummyWait", "readDone", "unlink"}
  PROVE  UsbInv'
  <1>1. /\ urb' \in [Urbs -> {"idle", "pending", "unlinked"}] /\ done' \in [Comps -> 0..MaxDone]
        /\ \A u \in Urbs \ {"rx"} : urb'[u] = urb[u]
        /\ \A c \in Comps \ {"rx"} : done'[c] = done[c]
        /\ state' \in {"normal", "abort"} /\ filled' \in BOOLEAN
        /\ trace' \in {"clean", "dirty"} /\ (trace' = "clean" => trace = "clean")
    BY DEF UsbInv, Types
  <1>2. ReceiveInv'
    BY RxAside DEF UsbInv
  <1> QED
    BY <1>1, <1>2, AsideStep

(* The places of these steps.                                              *)
LEMMA PlaceKinds ==
  /\ {"idle", "unlink", "dummyLock", "dummyWait", "readLock", "readSubmit", "readCheck", "readAsleep",
      "readSignal", "readDone"} \subseteq Places \ AtTransfer
  /\ \A p \in {"idle", "readLock", "readSubmit", "readCheck", "readAsleep", "readSignal", "readDone"} :
       p \notin WithCfg
  /\ \A p \in {"unlink", "dummyLock", "dummyWait"} : p \in WithCfg
  /\ \A p \in {"idle", "unlink", "dummyLock", "readLock"} : p \notin WithRead /\ p \notin Receiving
  /\ "readSubmit" \in WithRead /\ "readSubmit" \notin Receiving
  /\ \A p \in {"dummyWait", "readCheck", "readAsleep", "readSignal", "readDone"} :
       p \in WithRead /\ p \in Receiving
  BY DEF Places, AtTransfer, WithCfg, WithRead, Receiving

LEMMA AbortStep ==
  ASSUME UsbInv, NEW t \in Threads, Abort(t)
  PROVE  UsbInv'
  <1>1. /\ Types /\ LockInv /\ ReceiveInv /\ pc[t] = "idle" /\ cfglock = Free /\ cfglock' = t
        /\ state' = "abort" /\ pc' = [pc EXCEPT ![t] = "unlink"] /\ pc \in [Threads -> Places]
        /\ urb' = urb /\ handler' = handler /\ done' = done /\ readlock' = readlock /\ filled' = filled
        /\ rest' = rest /\ ops' = ops /\ watched' = watched /\ trace' = trace
    BY DEF UsbInv, Types, Abort, usbVars, Goto
  <1>2. pc[t] \notin AtTransfer /\ pc[t] \notin WithRead /\ "unlink" \in Places \ AtTransfer
        /\ "unlink" \in WithCfg /\ "unlink" \notin WithRead /\ "unlink" \notin Receiving /\ pc[t] \notin Receiving
    BY <1>1, PlaceKinds
  <1>3. pc'[t] = "unlink" /\ \A u \in Threads \ {t} : pc'[u] = pc[u]
    BY <1>1
  <1>4. ReceiveInv'
    <2> SUFFICES ASSUME trace = "clean", watched = "rx"
                 PROVE  /\ \A u \in Threads : pc'[u] \in Receiving => Expected(u)'
                        /\ (\A u \in Threads : pc'[u] \notin Receiving) => Quiet("rx")'
                        /\ Unlinking' => state' = "abort"
      BY <1>1 DEF ReceiveInv
    <2>1. ASSUME NEW u \in Threads, pc'[u] \in Receiving
          PROVE  Expected(u)'
      <3>1. pc[u] \in Receiving /\ pc'[u] = pc[u]
        BY <1>2, <1>3, <2>1
      <3>2. Expected(u)
        BY <1>1, <3>1 DEF ReceiveInv
      <3> QED
        BY <1>1, <3>1, <3>2 DEF Expected
    <2>2. ASSUME \A u \in Threads : pc'[u] \notin Receiving
          PROVE  Quiet("rx")'
      <3>1. Quiet("rx")
        BY <1>1, <1>2, <1>3, <2>2 DEF ReceiveInv
      <3> QED
        BY <1>1, <3>1 DEF Quiet
    <2> QED
      BY <1>1, <2>1, <2>2
  <1>5. "unlink" \in WithRead <=> readlock' = t
    BY <1>1, <1>2 DEF LockInv
  <1> QED
    BY <1>1, <1>2, <1>4, <1>5, AsideStep DEF Types

LEMMA UnlinkStep ==
  ASSUME UsbInv, NEW t \in Threads, Unlink(t)
  PROVE  UsbInv'
  <1>1. /\ Types /\ LockInv /\ ReceiveInv /\ pc[t] = "unlink" /\ cfglock' = Free
        /\ urb' = [urb EXCEPT !["rx"] = IF @ = "pending" THEN "unlinked" ELSE @]
        /\ pc' = [pc EXCEPT ![t] = "idle"] /\ pc \in [Threads -> Places] /\ state' = state
        /\ handler' = handler /\ done' = done /\ readlock' = readlock /\ filled' = filled
        /\ rest' = rest /\ ops' = ops /\ watched' = watched /\ trace' = trace
        /\ urb \in [Urbs -> {"idle", "pending", "unlinked"}] /\ cfglock \in Threads \cup {Free}
    BY DEF UsbInv, Types, Unlink, Goto
  <1>2. /\ pc[t] \notin AtTransfer /\ pc[t] \notin WithRead /\ "idle" \in Places \ AtTransfer
        /\ "idle" \notin WithCfg /\ "idle" \notin WithRead /\ "idle" \notin Receiving /\ pc[t] \notin Receiving
        /\ pc[t] \in WithCfg
    BY <1>1, PlaceKinds
  <1>3. pc'[t] = "idle" /\ \A u \in Threads \ {t} : pc'[u] = pc[u]
    BY <1>1
  <1>4. /\ urb' \in [Urbs -> {"idle", "pending", "unlinked"}]
        /\ \A u \in Urbs \ {"rx"} : urb'[u] = urb[u]
    BY <1>1
  <1>5. /\ urb["rx"] = "idle" => urb'["rx"] = "idle"
        /\ urb["rx"] # "idle" => urb'["rx"] = "unlinked"
    BY <1>1 DEF Urbs
  <1>6. ReceiveInv'
    <2> SUFFICES ASSUME trace = "clean", watched = "rx"
                 PROVE  /\ \A u \in Threads : pc'[u] \in Receiving => Expected(u)'
                        /\ (\A u \in Threads : pc'[u] \notin Receiving) => Quiet("rx")'
                        /\ Unlinking' => state' = "abort"
      BY <1>1 DEF ReceiveInv
    <2>1. state = "abort"
      BY <1>1 DEF ReceiveInv, Unlinking
    <2>2. ASSUME NEW u \in Threads, pc'[u] \in Receiving
          PROVE  Expected(u)'
      <3>1. u # t /\ pc[u] \in Receiving /\ pc'[u] = pc[u]
        BY <1>2, <1>3, <2>2
      <3>2. Expected(u)
        BY <1>1, <3>1 DEF ReceiveInv
      <3>3. pc[u] \notin WithCfg
        BY <1>1, <1>2, <3>1, OneCommand
      <3>4. pc[u] # "dummyWait"
        BY <3>3, PlaceKinds
      <3> QED
        BY <1>1, <1>5, <2>1, <3>1, <3>2, <3>4 DEF Expected
    <2>3. ASSUME \A u \in Threads : pc'[u] \notin Receiving
          PROVE  Quiet("rx")'
      <3>1. Quiet("rx")
        BY <1>1, <1>2, <1>3, <2>3 DEF ReceiveInv
      <3> QED
        BY <1>1, <1>5, <3>1 DEF Quiet, UrbsOf
    <2> QED
      BY <1>1, <2>1, <2>2, <2>3
  <1>7. "idle" \in WithRead <=> readlock' = t
    BY <1>1, <1>2 DEF LockInv
  <1>8. "idle" \in WithCfg <=> cfglock' = t
    BY <1>1, <1>2, UsbAssumption
  <1>9. {cfglock, cfglock'} \subseteq {t, Free}
    BY <1>1, <1>2 DEF LockInv
  <1> QED
    BY <1>1, <1>2, <1>4, <1>6, <1>7, <1>8, <1>9, AsideStep DEF Types

LEMMA DummyStep ==
  ASSUME UsbInv, NEW t \in Threads, Dummy(t)
  PROVE  UsbInv'
  <1>1. /\ Types /\ LockInv /\ pc[t] = "idle" /\ cfglock = Free /\ cfglock' = t
        /\ pc' = [pc EXCEPT ![t] = "dummyLock"] /\ state' = state
        /\ urb' = urb /\ handler' = handler /\ done' = done /\ readlock' = readlock /\ filled' = filled
        /\ rest' = rest /\ ops' = ops /\ watched' = watched /\ trace' = trace
        /\ readlock \in Threads \cup {Free}
    BY DEF UsbInv, Types, Dummy, usbVars, Goto
  <1>2. /\ pc[t] \notin AtTransfer /\ pc[t] \notin WithRead /\ "dummyLock" \in Places \ AtTransfer
        /\ "dummyLock" \in WithCfg /\ "dummyLock" \notin WithRead /\ "dummyLock" \notin Receiving
        /\ pc[t] \notin Receiving
    BY <1>1, PlaceKinds
  <1>3. "dummyLock" \in WithRead <=> readlock' = t
    BY <1>1, <1>2 DEF LockInv
  <1> QED
    BY <1>1, <1>2, <1>3, PlainAside

LEMMA ReadStep ==
  ASSUME UsbInv, NEW t \in Threads, Read(t)
  PROVE  UsbInv'
  <1>1. /\ Types /\ LockInv /\ pc[t] = "idle" /\ cfglock' = cfglock
        /\ pc' = [pc EXCEPT ![t] = "readLock"] /\ state' = state
        /\ urb' = urb /\ handler' = handler /\ done' = done /\ readlock' = readlock /\ filled' = filled
        /\ rest' = rest /\ ops' = ops /\ watched' = watched /\ trace' = trace
        /\ readlock \in Threads \cup {Free} /\ cfglock \in Threads \cup {Free}
    BY DEF UsbInv, Types, Read, usbVars, Goto
  <1>2. /\ pc[t] \notin AtTransfer /\ pc[t] \notin WithRead /\ "readLock" \in Places \ AtTransfer
        /\ "readLock" \notin WithCfg /\ "readLock" \notin WithRead /\ "readLock" \notin Receiving
        /\ pc[t] \notin Receiving /\ pc[t] \notin WithCfg
    BY <1>1, PlaceKinds
  <1>3. ("readLock" \in WithRead <=> readlock' = t) /\ ("readLock" \in WithCfg <=> cfglock' = t)
    BY <1>1, <1>2 DEF LockInv
  <1> QED
    BY <1>1, <1>2, <1>3, PlainAside

LEMMA ReadLockStep ==
  ASSUME UsbInv, NEW t \in Threads, ReadLock(t)
  PROVE  UsbInv'
  <1>1. /\ Types /\ LockInv /\ pc[t] = "readLock" /\ cfglock' = cfglock
        /\ pc' = [pc EXCEPT ![t] = "readSubmit"] /\ state' = state /\ readlock = Free /\ readlock' = t
        /\ urb' = urb /\ handler' = handler /\ done' = done /\ filled' = filled
        /\ rest' = rest /\ ops' = ops /\ watched' = watched /\ trace' = trace
        /\ cfglock \in Threads \cup {Free}
    BY DEF UsbInv, Types, ReadLock, usbVars, Goto
  <1>2. /\ pc[t] \notin AtTransfer /\ "readSubmit" \in Places \ AtTransfer
        /\ "readSubmit" \notin WithCfg /\ "readSubmit" \in WithRead /\ "readSubmit" \notin Receiving
        /\ pc[t] \notin Receiving /\ pc[t] \notin WithCfg
    BY <1>1, PlaceKinds
  <1>3. "readSubmit" \in WithCfg <=> cfglock' = t
    BY <1>1, <1>2 DEF LockInv
  <1> QED
    BY <1>1, <1>2, <1>3, PlainAside

LEMMA ReadSignalStep ==
  ASSUME UsbInv, NEW t \in Threads, ReadSignal(t)
  PROVE  UsbInv'
  <1>1. /\ Types /\ LockInv /\ pc[t] = "readAsleep" /\ cfglock' = cfglock
        /\ pc' = [pc EXCEPT ![t] = "readSignal"] /\ state' = state /\ readlock' = readlock
        /\ urb' = urb /\ handler' = handler /\ done' = done /\ filled' = filled
        /\ rest' = rest /\ ops' = ops /\ watched' = watched /\ trace' = trace
        /\ readlock \in Threads \cup {Free} /\ cfglock \in Threads \cup {Free}
    BY DEF UsbInv, Types, ReadSignal, usbVars, Goto
  <1>2. /\ pc[t] \notin AtTransfer /\ "readSignal" \in Places \ AtTransfer
        /\ "readSignal" \notin WithCfg /\ "readSignal" \in WithRead /\ "readSignal" \in Receiving
        /\ pc[t] \in Receiving /\ pc[t] \notin WithCfg /\ pc[t] \in WithRead
    BY <1>1, PlaceKinds
  <1>3. ("readSignal" \in WithRead <=> readlock' = t) /\ ("readSignal" \in WithCfg <=> cfglock' = t)
    BY <1>1, <1>2 DEF LockInv
  <1> QED
    BY <1>1, <1>2, <1>3, PlainAside

(* A receiver submits rxurb.                                               *)
LEMMA RxSubmitted ==
  ASSUME Types, LockInv, ReceiveInv, NEW t \in Threads, pc[t] \in WithRead \/ readlock = Free,
         pc[t] \notin Receiving, NEW q \in {"dummyWait", "readCheck"}, pc' = [pc EXCEPT ![t] = q],
         SubmitRx, done' = done, state' = state, watched' = watched, trace' = trace
  PROVE  ReceiveInv'
  <1>1. /\ pc \in [Threads -> Places] /\ urb \in [Urbs -> {"idle", "pending", "unlinked"}]
        /\ urb' = [urb EXCEPT !["rx"] = "pending"] /\ "rx" \in Urbs
    BY DEF Types, SubmitRx, Urbs
  <1>2. pc'[t] = q /\ urb'["rx"] = "pending" /\ \A u \in Threads \ {t} : pc'[u] = pc[u]
    BY <1>1
  <1>3. \A u \in Threads : pc[u] \notin Receiving
    BY OneReader
  <1>4. Unlinking' => Unlinking
    BY <1>2 DEF Unlinking
  <1> SUFFICES ASSUME trace = "clean", watched = "rx"
               PROVE  /\ \A u \in Threads : pc'[u] \in Receiving => Expected(u)'
                      /\ (\A u \in Threads : pc'[u] \notin Receiving) => Quiet("rx")'
                      /\ Unlinking' => state' = "abort"
    BY DEF ReceiveInv
  <1>5. done["rx"] = 0
    BY <1>3 DEF ReceiveInv, Quiet, CompsOf
  <1>6. ASSUME NEW u \in Threads, pc'[u] \in Receiving
        PROVE  Expected(u)'
    <2>1. pc'[u] \in {"dummyWait", "readCheck"}
      BY <1>2, <1>3, <1>6
    <2> QED
      BY <1>2, <1>5, <2>1 DEF Expected
  <1>7. pc'[t] \in Receiving
    BY <1>2, PlaceKinds
  <1>8. Unlinking' => state' = "abort"
    BY <1>4 DEF ReceiveInv
  <1> QED
    BY <1>6, <1>7, <1>8

LEMMA DummySubmitStep ==
  ASSUME UsbInv, NEW t \in Threads, DummySubmit(t)
  PROVE  UsbInv'
  <1>1. /\ Types /\ LockInv /\ ReceiveInv /\ pc[t] = "dummyLock" /\ readlock = Free
        /\ handler' = handler /\ done' = done /\ state' = state /\ rest' = rest /\ ops' = ops
        /\ watched' = watched /\ trace' = trace /\ cfglock \in Threads \cup {Free}
        /\ done \in [Comps -> 0..MaxDone] /\ state \in {"normal", "abort"} /\ filled \in BOOLEAN
        /\ urb \in [Urbs -> {"idle", "pending", "unlinked"}] /\ trace \in {"clean", "dirty"}
    BY DEF UsbInv, Types, DummySubmit
  <1>2. pc[t] \notin AtTransfer /\ pc[t] \in WithCfg /\ pc[t] \notin Receiving
    BY <1>1, PlaceKinds
  <1>3. cfglock = t
    BY <1>1, <1>2 DEF LockInv
  <1>4. CASE SubmitRx /\ readlock' = t /\ Goto(t, "dummyWait") /\ UNCHANGED cfglock
    <2>1. /\ "dummyWait" \in Places \ AtTransfer /\ "dummyWait" \in WithCfg /\ "dummyWait" \in WithRead
      BY PlaceKinds
    <2>2. pc' = [pc EXCEPT ![t] = "dummyWait"] /\ readlock' = t /\ cfglock' = cfglock
      BY <1>4 DEF Goto
    <2>3. /\ urb' \in [Urbs -> {"idle", "pending", "unlinked"}]
          /\ \A u \in Urbs \ {"rx"} : urb'[u] = urb[u]
          /\ filled' \in BOOLEAN
      BY <1>1, <1>4 DEF SubmitRx
    <2>4. ReceiveInv'
      BY <1>1, <1>2, <1>4, <2>2, RxSubmitted
    <2> QED
      BY <1>1, <1>2, <1>3, <2>1, <2>2, <2>3, <2>4, AsideStep
  <1>5. CASE Goto(t, "idle") /\ cfglock' = Free /\ UNCHANGED <<urb, filled, readlock>>
    <2>1. /\ "idle" \in Places \ AtTransfer /\ "idle" \notin WithCfg /\ "idle" \notin WithRead
          /\ "idle" \notin Receiving
      BY PlaceKinds
    <2>2. /\ pc' = [pc EXCEPT ![t] = "idle"] /\ readlock' = readlock /\ cfglock' = Free
          /\ urb' = urb /\ filled' = filled
      BY <1>5 DEF Goto
    <2>3. t # Free
      BY UsbAssumption
    <2> QED
      BY <1>1, <1>2, <1>3, <2>1, <2>2, <2>3, PlainAside
  <1> QED
    BY <1>4, <1>5 DEF DummySubmit

LEMMA ReadSubmitStep ==
  ASSUME UsbInv, NEW t \in Threads, ReadSubmit(t)
  PROVE  UsbInv'
  <1>1. /\ Types /\ LockInv /\ ReceiveInv /\ pc[t] = "readSubmit" /\ cfglock' = cfglock
        /\ handler' = handler /\ done' = done /\ state' = state /\ rest' = rest /\ ops' = ops
        /\ watched' = watched /\ trace' = trace /\ cfglock \in Threads \cup {Free}
        /\ done \in [Comps -> 0..MaxDone] /\ state \in {"normal", "abort"} /\ filled \in BOOLEAN
        /\ urb \in [Urbs -> {"idle", "pending", "unlinked"}] /\ trace \in {"clean", "dirty"}
        /\ readlock \in Threads \cup {Free}
    BY DEF UsbInv, Types, ReadSubmit
  <1>2. /\ pc[t] \notin AtTransfer /\ pc[t] \notin WithCfg /\ pc[t] \notin Receiving /\ pc[t] \in WithRead
    BY <1>1, PlaceKinds
  <1>3. readlock = t /\ cfglock' # t
    BY <1>1, <1>2 DEF LockInv
  <1>4. CASE SubmitRx /\ Goto(t, "readCheck") /\ UNCHANGED readlock
    <2>1. /\ "readCheck" \in Places \ AtTransfer /\ "readCheck" \notin WithCfg /\ "readCheck" \in WithRead
      BY PlaceKinds
    <2>2. pc' = [pc EXCEPT ![t] = "readCheck"] /\ readlock' = readlock
      BY <1>4 DEF Goto
    <2>3. /\ urb' \in [Urbs -> {"idle", "pending", "unlinked"}]
          /\ \A u \in Urbs \ {"rx"} : urb'[u] = urb[u]
          /\ filled' \in BOOLEAN
      BY <1>1, <1>4 DEF SubmitRx
    <2>4. ReceiveInv'
      BY <1>1, <1>2, <1>4, <2>2, RxSubmitted
    <2> QED
      BY <1>1, <1>2, <1>3, <2>1, <2>2, <2>3, <2>4, AsideStep
  <1>5. CASE Goto(t, "idle") /\ readlock' = Free /\ UNCHANGED <<urb, filled>>
    <2>1. /\ "idle" \in Places \ AtTransfer /\ "idle" \notin WithCfg /\ "idle" \notin WithRead
          /\ "idle" \notin Receiving
      BY PlaceKinds
    <2>2. pc' = [pc EXCEPT ![t] = "idle"] /\ readlock' = Free /\ urb' = urb /\ filled' = filled
      BY <1>5 DEF Goto
    <2>3. t # Free
      BY UsbAssumption
    <2> QED
      BY <1>1, <1>2, <1>3, <2>1, <2>2, <2>3, PlainAside
  <1> QED
    BY <1>4, <1>5 DEF ReadSubmit

LEMMA DummyEndStep ==
  ASSUME UsbInv, NEW t \in Threads, DummyEnd(t)
  PROVE  UsbInv'
  <1>1. /\ Types /\ LockInv /\ HandlerInv /\ ReceiveInv /\ pc[t] = "dummyWait"
        /\ cfglock' = Free /\ readlock' = Free /\ pc' = [pc EXCEPT ![t] = "idle"]
        /\ handler' = handler /\ state' = state /\ filled' = filled /\ rest' = rest /\ ops' = ops
        /\ watched' = watched
        /\ done \in [Comps -> 0..MaxDone] /\ state \in {"normal", "abort"} /\ filled \in BOOLEAN
        /\ urb \in [Urbs -> {"idle", "pending", "unlinked"}] /\ trace \in {"clean", "dirty"}
        /\ "rx" \in Comps
    BY DEF UsbInv, Types, DummyEnd, Goto, Comps
  <1>2. /\ pc[t] \notin AtTransfer /\ pc[t] \in WithCfg /\ pc[t] \in Receiving /\ pc[t] \in WithRead
        /\ "idle" \in Places \ AtTransfer /\ "idle" \notin WithCfg /\ "idle" \notin WithRead
        /\ "idle" \notin Receiving
    BY <1>1, PlaceKinds
  <1>3. cfglock = t /\ readlock = t /\ t # Free
    BY <1>1, <1>2, UsbAssumption DEF LockInv
  <1>4. trace = "clean" /\ watched = "rx" => Expected(t) /\ (Unlinking => state = "abort")
    BY <1>1, <1>2 DEF ReceiveInv
  <1>5. MaxDone \in Nat /\ done["rx"] \in 0..MaxDone
    BY <1>1, UsbAssumption
  <1>6. /\ urb' \in [Urbs -> {"idle", "pending", "unlinked"}] /\ done' \in [Comps -> 0..MaxDone]
        /\ \A u \in Urbs \ {"rx"} : urb'[u] = urb[u]
        /\ \A c \in Comps \ {"rx"} : done'[c] = done[c]
        /\ trace' \in {"clean", "dirty"} /\ (trace' = "clean" => trace = "clean")
        /\ trace' = "clean" /\ watched = "rx" => urb'["rx"] = "idle" /\ done'["rx"] = 0
    <2>1. CASE /\ done["rx"] > 0
               /\ done' = [done EXCEPT !["rx"] = @ - 1]
               /\ WokenBy("rx", filled)
               /\ UNCHANGED urb
      <3>1. done["rx"] - 1 \in 0..MaxDone
        BY <1>5, <2>1
      <3>2. done'["rx"] = done["rx"] - 1 /\ done' \in [Comps -> 0..MaxDone]
            /\ \A c \in Comps \ {"rx"} : done'[c] = done[c]
        BY <1>1, <2>1, <3>1
      <3>3. trace = "clean" /\ watched = "rx" => urb["rx"] = "idle" /\ done["rx"] = 1 /\ filled
        <4>1. done["rx"] # 0
          BY <2>1
        <4> QED
          BY <1>1, <1>4, <4>1 DEF Expected
      <3>4. trace' = trace
        BY <1>1, <2>1, <3>3 DEF WokenBy, After
      <3>5. done["rx"] = 1 => done'["rx"] = 0
        BY <3>2
      <3> QED
        BY <1>1, <2>1, <3>2, <3>3, <3>4, <3>5
    <2>2. CASE /\ done["rx"] = 0
               /\ urb' = KilledUrb("rx") /\ done' = KillReinit("rx", "rx")
               /\ UNCHANGED trace
      BY <1>1, <2>2, RxKilled
    <2> QED
      BY <2>1, <2>2 DEF DummyEnd
  <1>7. ReceiveInv'
    BY <1>1, <1>2, <1>4, <1>6, Rests
  <1> QED
    BY <1>1, <1>2, <1>3, <1>6, <1>7, AsideStep

LEMMA ReadCheckStep ==
  ASSUME UsbInv, NEW t \in Threads, ReadCheck(t)
  PROVE  UsbInv'
  <1>0. PICK q \in {"readDone", "readAsleep"} :
          pc' = [pc EXCEPT ![t] = q] /\ (q = "readDone" => done["rx"] > 0 \/ state = "abort")
    BY DEF ReadCheck, Goto
  <1>1. /\ Types /\ LockInv /\ ReceiveInv /\ pc[t] = "readCheck" /\ pc \in [Threads -> Places]
        /\ cfglock' = cfglock /\ readlock' = readlock /\ urb' = urb /\ done' = done
        /\ handler' = handler /\ state' = state /\ filled' = filled /\ rest' = rest /\ ops' = ops
        /\ watched' = watched /\ trace' = trace
        /\ cfglock \in Threads \cup {Free} /\ readlock \in Threads \cup {Free}
        /\ done \in [Comps -> 0..MaxDone] /\ state \in {"normal", "abort"} /\ filled \in BOOLEAN
        /\ urb \in [Urbs -> {"idle", "pending", "unlinked"}] /\ trace \in {"clean", "dirty"}
    BY DEF UsbInv, Types, ReadCheck, usbVars
  <1>2. /\ pc[t] \notin AtTransfer /\ pc[t] \notin WithCfg /\ pc[t] \in Receiving /\ pc[t] \in WithRead
        /\ q \in Places \ AtTransfer /\ q \notin WithCfg /\ q \in WithRead /\ q \in Receiving
    BY <1>1, PlaceKinds
  <1>3. readlock' = t /\ cfglock' # t
    BY <1>1, <1>2 DEF LockInv
  <1>4. pc'[t] = q /\ \A u \in Threads \ {t} : pc'[u] = pc[u]
    BY <1>0, <1>1
  <1>5. Unlinking' => Unlinking
    BY <1>4 DEF Unlinking
  <1>6. ReceiveInv'
    <2> SUFFICES ASSUME trace = "clean", watched = "rx"
                 PROVE  /\ \A u \in Threads : pc'[u] \in Receiving => Expected(u)'
                        /\ (\A u \in Threads : pc'[u] \notin Receiving) => Quiet("rx")'
                        /\ Unlinking' => state' = "abort"
      BY <1>1 DEF ReceiveInv
    <2>1. Expected(t)
      BY <1>1, <1>2 DEF ReceiveInv
    <2>2. q = "readDone" => state = "abort" \/ urb["rx"] = "idle"
      <3>1. done["rx"] > 0 => done["rx"] # 0
        OBVIOUS
      <3> QED
        BY <1>0, <2>1, <3>1 DEF Expected
    <2>3. Expected(t)'
      BY <1>1, <1>4, <2>1, <2>2 DEF Expected
    <2>4. ASSUME NEW u \in Threads \ {t}, pc'[u] \in Receiving
          PROVE  FALSE
      BY <1>1, <1>2, <1>4, <2>4, OneReader
    <2>5. Unlinking' => state' = "abort"
      BY <1>1, <1>5 DEF ReceiveInv
    <2>6. pc'[t] \in Receiving
      BY <1>2, <1>4
    <2> QED
      BY <2>3, <2>4, <2>5, <2>6
  <1> QED
    BY <1>0, <1>1, <1>2, <1>3, <1>6, AsideStep

LEMMA ReadEndStep ==
  ASSUME UsbInv, NEW t \in Threads, ReadEnd(t)
  PROVE  UsbInv'
  <1>1. /\ Types /\ LockInv /\ HandlerInv /\ ReceiveInv /\ pc[t] \in {"readDone", "readSignal"}
        /\ cfglock' = cfglock /\ readlock' = Free /\ pc' = [pc EXCEPT ![t] = "idle"]
        /\ handler' = handler /\ filled' = filled /\ rest' = rest /\ ops' = ops
        /\ watched' = watched /\ cfglock \in Threads \cup {Free}
        /\ done \in [Comps -> 0..MaxDone] /\ state \in {"normal", "abort"} /\ filled \in BOOLEAN
        /\ urb \in [Urbs -> {"idle", "pending", "unlinked"}] /\ trace \in {"clean", "dirty"}
        /\ "rx" \in Comps
    BY DEF UsbInv, Types, ReadEnd, Goto, Comps
  <1>2. /\ pc[t] \notin AtTransfer /\ pc[t] \notin WithCfg /\ pc[t] \in Receiving /\ pc[t] \in WithRead
        /\ "idle" \in Places \ AtTransfer /\ "idle" \notin WithCfg /\ "idle" \notin WithRead
        /\ "idle" \notin Receiving
    BY <1>1, PlaceKinds
  <1>3. cfglock' # t /\ readlock = t /\ t # Free
    BY <1>1, <1>2, UsbAssumption DEF LockInv
  <1>4. trace = "clean" /\ watched = "rx" => Expected(t) /\ (Unlinking => state = "abort")
    BY <1>1, <1>2 DEF ReceiveInv
  <1>5. 0 \in 0..MaxDone
    BY UsbAssumption
  <1>6. /\ urb' \in [Urbs -> {"idle", "pending", "unlinked"}] /\ done' \in [Comps -> 0..MaxDone]
        /\ \A u \in Urbs \ {"rx"} : urb'[u] = urb[u]
        /\ \A c \in Comps \ {"rx"} : done'[c] = done[c]
        /\ trace' \in {"clean", "dirty"} /\ (trace' = "clean" => trace = "clean")
        /\ state' \in {"normal", "abort"}
        /\ trace' = "clean" /\ watched = "rx" =>
             urb'["rx"] = "idle" /\ done'["rx"] = 0 /\ (Unlinking => state' = "abort")
    <2>1. CASE ReadAborted
      <3>1. urb' = KilledUrb("rx") /\ done' = KillReinit("rx", "rx") /\ state' = "normal"
        BY <2>1 DEF ReadAborted
      <3>2. /\ trace' \in {"clean", "dirty"} /\ (trace' = "clean" => trace = "clean")
            /\ trace' = "clean" /\ watched = "rx" => ~Unlinking
        BY <1>1, <2>1 DEF ReadAborted, LeftBehind, After
      <3> QED
        BY <1>1, <3>1, <3>2, RxKilled
    <2>2. CASE ReadInterrupted(t)
      <3>1. /\ urb' = KilledUrb("rx") /\ done' = KillReinit("rx", "rx") /\ state' = state
            /\ trace' = trace
        BY <2>2 DEF ReadInterrupted
      <3> QED
        BY <1>1, <1>4, <3>1, RxKilled
    <2>3. CASE ReadData(t)
      <3>1. urb' = urb /\ state' = state /\ state = "normal" /\ pc[t] = "readDone"
        BY <2>3 DEF ReadData
      <3>2. trace = "clean" /\ watched = "rx" => urb["rx"] = "idle" /\ filled
        BY <1>4, <3>1 DEF Expected
      <3>3. CASE done' = [done EXCEPT !["rx"] = 0] /\ WokenBy("rx", filled)
        <4>1. trace' = trace
          BY <1>1, <3>2, <3>3 DEF WokenBy, After
        <4>2. done' \in [Comps -> 0..MaxDone] /\ done'["rx"] = 0
              /\ \A c \in Comps \ {"rx"} : done'[c] = done[c]
          BY <1>1, <1>5, <3>3
        <4> QED
          BY <1>1, <1>4, <3>1, <3>2, <4>1, <4>2
      <3>4. CASE trace' = After("rx", IF filled THEN "dirty" ELSE "fooled") /\ UNCHANGED done
        <4>1. trace' \in {"clean", "dirty"} /\ (trace' = "clean" => trace = "clean")
              /\ ~(trace' = "clean" /\ watched = "rx")
          BY <1>1, <3>2, <3>4 DEF After
        <4> QED
          BY <1>1, <3>1, <3>4, <4>1
      <3> QED
        BY <2>3, <3>3, <3>4 DEF ReadData
    <2> QED
      BY <2>1, <2>2, <2>3 DEF ReadEnd
  <1>7. ReceiveInv'
    BY <1>1, <1>2, <1>6, Rests
  <1> QED
    BY <1>1, <1>2, <1>3, <1>6, <1>7, AsideStep

LEMMA ReopenStep ==
  ASSUME UsbInv, Reopen
  PROVE  UsbInv'
  <1>1. /\ Types /\ LockInv /\ HandlerInv /\ FlightInv /\ ReceiveInv
        /\ \A t \in Threads : pc[t] = "idle"
        /\ urb' = urb /\ handler' = handler /\ done' = done /\ cfglock' = cfglock /\ readlock' = readlock
        /\ filled' = filled /\ pc' = pc /\ rest' = rest /\ ops' = ops /\ watched' = watched /\ trace' = trace
        /\ state' = "normal"
    BY DEF UsbInv, Reopen, usbVars
  <1>2. Types' /\ LockInv' /\ HandlerInv'
    <2>1. \A t \in Threads : Cur(t)' = Cur(t)
      BY <1>1 DEF Cur
    <2> QED
      BY <1>1, <2>1 DEF Types, LockInv, HandlerInv
  <1>3. FlightInv'
    <2>1. \A t \in Threads : (Awaits(t)' <=> Awaits(t)) /\ (Awaits(t) => rest'[t] = rest[t])
      BY <1>1 DEF Awaits
    <2> QED
      BY <1>1, <2>1, FlightKept
  <1>4. ReceiveInv'
    <2>1. \A t \in Threads : pc[t] \notin Receiving /\ pc[t] # "unlink"
      BY <1>1, PlaceKinds
    <2>2. ~Unlinking' /\ \A t \in Threads : pc'[t] \notin Receiving
      BY <1>1, <2>1 DEF Unlinking
    <2>3. trace = "clean" /\ watched = "rx" => Quiet("rx")
      BY <1>1, <2>1 DEF ReceiveInv
    <2>4. trace' = "clean" /\ watched' = "rx" => Quiet("rx")'
      BY <1>1, <2>3 DEF Quiet
    <2> QED
      BY <2>2, <2>4 DEF ReceiveInv
  <1> QED
    BY <1>2, <1>3, <1>4 DEF UsbInv

LEMMA StutterStep ==
  ASSUME UsbInv, UNCHANGED vars
  PROVE  UsbInv'
  <1>1. /\ Types /\ LockInv /\ HandlerInv /\ FlightInv /\ ReceiveInv
        /\ urb' = urb /\ handler' = handler /\ done' = done /\ cfglock' = cfglock /\ readlock' = readlock
        /\ filled' = filled /\ pc' = pc /\ rest' = rest /\ ops' = ops /\ watched' = watched /\ trace' = trace
        /\ state' = state
    BY DEF UsbInv, vars, usbVars
  <1>2. Types' /\ LockInv' /\ HandlerInv'
    <2>1. \A t \in Threads : Cur(t)' = Cur(t)
      BY <1>1 DEF Cur
    <2> QED
      BY <1>1, <2>1 DEF Types, LockInv, HandlerInv
  <1>3. FlightInv'
    <2>1. \A t \in Threads : (Awaits(t)' <=> Awaits(t)) /\ (Awaits(t) => rest'[t] = rest[t])
      <3>1. \A t \in Threads : Cur(t)' = Cur(t)
        BY <1>1 DEF Cur
      <3> QED
        BY <1>1, <3>1 DEF Awaits
    <2> QED
      BY <1>1, <2>1, FlightKept
  <1>4. ReceiveInv'
    <2>1. Unlinking' => Unlinking
      BY <1>1 DEF Unlinking
    <2> QED
      BY <1>1, <2>1, ReceiveKept
  <1> QED
    BY <1>2, <1>3, <1>4 DEF UsbInv

-----------------------------------------------------------------------------
(* The invariant, and what follows from it.                                *)
LEMMA InitInv == Init => UsbInv
  <1> SUFFICES ASSUME Init
               PROVE  UsbInv
    OBVIOUS
  <1>1. /\ urb = [u \in Urbs |-> "idle"] /\ done = [c \in Comps |-> 0]
        /\ handler = [u \in Urbs |-> IF u = "rx" THEN "rx" ELSE IF u = "fwrx" THEN "fwrx" ELSE "fw"]
        /\ cfglock = Free /\ readlock = Free /\ state = "normal" /\ filled = FALSE
        /\ pc = [t \in Threads |-> "idle"] /\ rest = [t \in Threads |-> <<>>] /\ ops \in OpSets
        /\ watched \in {"out", "in", "rx"} /\ trace = "clean"
    BY DEF Init
  <1>2. \A t \in Threads : /\ pc[t] = "idle" /\ pc[t] \notin AtTransfer /\ pc[t] \notin WithCfg
                           /\ pc[t] \notin WithRead /\ pc[t] \notin Receiving /\ t # Free
    BY <1>1, PlaceKinds, UsbAssumption
  <1>3. Types
    <2>1. urb \in [Urbs -> {"idle", "pending", "unlinked"}] /\ handler \in [Urbs -> Comps]
      BY <1>1 DEF Comps
    <2>2. done \in [Comps -> 0..MaxDone]
      BY <1>1, UsbAssumption
    <2>3. <<>> \in Seq(Segments) /\ "idle" \in Places
      BY EmptySeq DEF Places
    <2>4. pc \in [Threads -> Places] /\ rest \in [Threads -> Seq(Segments)]
      BY <1>1, <2>3
    <2> QED
      BY <1>1, <1>2, <2>1, <2>2, <2>4 DEF Types
  <1>4. LockInv
    BY <1>1, <1>2 DEF LockInv
  <1>5. \A k \in {"out", "in", "rx"} : /\ \A u \in UrbsOf(k) : urb[u] = "idle" /\ handler[u] \in CompsOf(k)
                                      /\ \A c \in CompsOf(k) : done[c] = 0
    <2>1. \A k \in {"out", "in", "rx"} : /\ \A u \in UrbsOf(k) : urb[u] = "idle"
                                        /\ \A c \in CompsOf(k) : done[c] = 0
      BY <1>1, DirectionFacts
    <2>2. \A k \in {"out", "in", "rx"} : \A u \in UrbsOf(k) : handler[u] \in CompsOf(k)
      BY <1>1 DEF UrbsOf, CompsOf, Urbs
    <2> QED
      BY <2>1, <2>2
  <1>6. HandlerInv
    BY <1>2, <1>5 DEF HandlerInv
  <1>7. FlightInv
    BY <1>1, <1>2, <1>5 DEF FlightInv, Quiet, Awaits
  <1>8. ReceiveInv
    BY <1>1, <1>2, <1>5 DEF ReceiveInv, Quiet, Unlinking
  <1> QED
    BY <1>3, <1>4, <1>6, <1>7, <1>8 DEF UsbInv

LEMMA GoStep ==
  ASSUME UsbInv, NEW t \in Threads, Go(t)
  PROVE  UsbInv'
  <1>1. CASE Fill(t) \/ Submit(t) \/ Woken(t) \/ Timeout(t) \/ Expired(t)
    BY <1>1, FillStep, SubmitStep, WokenStep, TimeoutStep, ExpiredStep
  <1>2. CASE Unlink(t) \/ DummySubmit(t) \/ DummyEnd(t)
    BY <1>2, UnlinkStep, DummySubmitStep, DummyEndStep
  <1>3. CASE ReadLock(t) \/ ReadSubmit(t) \/ ReadCheck(t) \/ ReadEnd(t)
    BY <1>3, ReadLockStep, ReadSubmitStep, ReadCheckStep, ReadEndStep
  <1> QED
    BY <1>1, <1>2, <1>3 DEF Go

LEMMA NextInv == UsbInv /\ [Next]_vars => UsbInv'
  <1> SUFFICES ASSUME UsbInv, [Next]_vars
               PROVE  UsbInv'
    OBVIOUS
  <1>1. ASSUME NEW t \in Threads, Lock(t) \/ Abort(t) \/ Dummy(t) \/ Read(t) \/ ReadSignal(t)
        PROVE  UsbInv'
    BY <1>1, LockStep, AbortStep, DummyStep, ReadStep, ReadSignalStep
  <1>2. ASSUME NEW t \in Threads, Go(t)
        PROVE  UsbInv'
    BY <1>2, GoStep
  <1>3. ASSUME NEW u \in Urbs, Complete(u)
        PROVE  UsbInv'
    <2>1. Giveback(u, TRUE) /\ urb[u] # "idle"
      BY <1>3 DEF Complete
    <2> QED
      BY <2>1, GivebackStep
  <1>4. ASSUME NEW u \in Urbs, UnlinkDone(u)
        PROVE  UsbInv'
    <2>1. Giveback(u, FALSE) /\ urb[u] # "idle" /\ urb[u] = "unlinked"
      BY <1>4 DEF UnlinkDone
    <2> QED
      BY <2>1, GivebackStep
  <1>5. CASE Reopen
    BY <1>5, ReopenStep
  <1>6. CASE UNCHANGED vars
    BY <1>6, StutterStep
  <1> QED
    BY <1>1, <1>2, <1>3, <1>4, <1>5, <1>6 DEF Next

(* The inductive invariant holds in every state of the USB driver.         *)
THEOREM InvAlways == Spec => []UsbInv
  <1>1. Init => UsbInv
    BY InitInv
  <1>2. UsbInv /\ [Next]_vars => UsbInv'
    BY NextInv
  <1> QED
    BY <1>1, <1>2, PTL DEF Spec

(* Every variable keeps its type, and whoever is at a transfer has one.    *)
THEOREM TypesSafe == Spec => []TypeOK
  <1>1. UsbInv => TypeOK
    <2> SUFFICES ASSUME UsbInv
                 PROVE  TypeOK
      OBVIOUS
    <2>1. ASSUME NEW t \in Threads, pc[t] \in {"fill", "submit", "wait", "expired"}
          PROVE  Cur(t) \in Steps
      <3>1. Types /\ pc[t] \in AtTransfer
        BY <2>1 DEF UsbInv, AtTransfer
      <3> QED
        BY <3>1, CurIs DEF OwnDirection
    <2> QED
      BY <2>1 DEF UsbInv, Types, TypeOK
  <1> QED
    BY <1>1, InvAlways, PTL

(* A command's wait for a transfer is ended by that transfer, as long as   *)
(* no earlier wait in that direction was given up without taking the URB   *)
(* back and clearing the completion.                                       *)
THEOREM WokenByOwnUrbAlways == Spec => []WokenByOwnUrb
  <1>1. UsbInv => WokenByOwnUrb
    BY DEF UsbInv, Types, WokenByOwnUrb
  <1> QED
    BY <1>1, InvAlways, PTL

(* A read that returns data returns what the device sent for it, with the  *)
(* same proviso: an earlier failed copy_to_user, or an abort that another  *)
(* read had already answered to.                                           *)
THEOREM ReadIsDataAlways == Spec => []ReadIsData
  <1>1. UsbInv => ReadIsData
    BY DEF UsbInv, Types, ReadIsData
  <1> QED
    BY <1>1, InvAlways, PTL

(* With no such leftovers, every URB is quiet and every completion zero    *)
(* when the lock it is used under is free.                                 *)
THEOREM QuietAtRestAlways == Spec => []QuietAtRest
  <1>1. UsbInv => QuietAtRest
    <2> SUFFICES ASSUME UsbInv, trace = "clean"
                 PROVE  CASE watched = "out" ->
                               cfglock = Free => /\ urb["tx"] = "idle" /\ urb["fwtx"] = "idle"
                                                 /\ done["fw"] = 0 /\ done["tx"] = 0
                          [] watched = "in" -> cfglock = Free => urb["fwrx"] = "idle" /\ done["fwrx"] = 0
                          [] watched = "rx" -> readlock = Free => urb["rx"] = "idle" /\ done["rx"] = 0
      BY DEF QuietAtRest
    <2>1. watched \in {"out", "in", "rx"} /\ \A t \in Threads : t # Free
      BY UsbAssumption DEF UsbInv, Types
    <2>2. cfglock = Free /\ watched # "rx" => Quiet(watched)
      <3> SUFFICES ASSUME cfglock = Free, watched # "rx"
                   PROVE  Quiet(watched)
        OBVIOUS
      <3>1. \A t \in Threads : pc[t] \notin WithCfg
        BY <2>1 DEF UsbInv, LockInv
      <3>2. \A t \in Threads : ~Awaits(t)
        BY <3>1 DEF Awaits, WithCfg, AtTransfer
      <3> QED
        BY <3>2 DEF UsbInv, FlightInv
    <2>3. readlock = Free /\ watched = "rx" => Quiet(watched)
      <3> SUFFICES ASSUME readlock = Free, watched = "rx"
                   PROVE  Quiet(watched)
        OBVIOUS
      <3>1. \A t \in Threads : pc[t] \notin Receiving
        BY <2>1 DEF UsbInv, LockInv, WithRead
      <3> QED
        BY <3>1 DEF UsbInv, ReceiveInv
    <2>4. CASE watched = "out"
      BY <2>2, <2>4 DEF Quiet, UrbsOf, CompsOf
    <2>5. CASE watched = "in"
      BY <2>2, <2>5 DEF Quiet, UrbsOf, CompsOf
    <2>6. CASE watched = "rx"
      BY <2>3, <2>6 DEF Quiet, UrbsOf, CompsOf
    <2> QED
      BY <2>1, <2>4, <2>5, <2>6
  <1> QED
    BY <1>1, InvAlways, PTL
=============================================================================
