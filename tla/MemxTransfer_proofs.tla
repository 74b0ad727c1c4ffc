------------------------ MODULE MemxTransfer_proofs ------------------------
(***************************************************************************)
(* Safety of the data path for any number of threads and chips, any fifo   *)
(* size and any bounds.  The invariants are proved in layers, each using   *)
(* the ones below it:                                                      *)
(*   Base       types, and the reference count against the open files;     *)
(*   LockDiscipline  who is inside a call that holds the mutex;            *)
(*   Channel    what a writer may rely on;                                 *)
(*   ReadInv    what a reader may rely on;                                 *)
(* and, from Base alone, that aborts are not forgotten.                    *)
(***************************************************************************)
EXTENDS MemxTransfer, FiniteSetTheorems, TLAPS

-----------------------------------------------------------------------------
(* Types, one group of variables at a time.                                *)

USE DEF Places, Critical, Reading, Writing, Locked, Outcomes

LEMMA RxTypes ==
  ASSUME RxTypeOK, [Next]_vars
  PROVE  RxTypeOK'
  <1>1. ASSUME NEW t \in Threads, Pop(t)
        PROVE  /\ rx_msix_fifo' \in Seq(Chips)
               /\ Len(rx_msix_fifo') <= FifoSize
               /\ UNCHANGED <<rx_is_abort, rx_is_read_abort>>
    BY <1>1, TransferAssumption DEF RxTypeOK, Pop
  <1>2. ASSUME NEW t \in Threads, Leave(t)
        PROVE  RxTypeOK'
    BY <1>2 DEF RxTypeOK, Leave, Open, Release, SetAbortRead, rxVars
  <1>3. ASSUME NEW t \in Threads, Abort(t)
        PROVE  RxTypeOK'
    <2>1. CASE AbortFlag(t) \/ AbortTx(t)
      BY <2>1 DEF RxTypeOK, AbortFlag, AbortTx, rxVars
    <2>2. CASE AbortDrain(t)
      <3>1. <<>> \in Seq(Chips) /\ Len(<<>>) <= FifoSize
        BY TransferAssumption
      <3> QED
        BY <2>2, <3>1 DEF RxTypeOK, AbortDrain
    <2> QED
      BY <1>3, <2>1, <2>2 DEF Abort
  <1>4. ASSUME NEW t \in Threads, Dummy(t)
        PROVE  RxTypeOK'
    BY <1>4, <1>1 DEF RxTypeOK, Dummy, DummyStart, DummyWait, DummyPop, rxVars
  <1>5. ASSUME NEW t \in Threads, Read(t)
        PROVE  RxTypeOK'
    BY <1>5, <1>1 DEF RxTypeOK, Read, ReadTry, ReadWait, ReadWoken, ReadAbort, ReadPop, rxVars
  <1>6. ASSUME NEW t \in Threads, Write(t)
        PROVE  RxTypeOK'
    BY <1>6 DEF RxTypeOK, Write, WriteStart, WriteWait, WriteAborted, WriteSignalled,
                WriteRetry, WriteDone, rxVars
  <1>7. ASSUME NEW t \in Threads, Enter(t) \/ Interrupted(t) \/ ReadEnter(t)
        PROVE  RxTypeOK'
    BY <1>7 DEF RxTypeOK, Enter, Interrupted, ReadEnter, rxVars
  <1>8. ASSUME NEW c \in Chips, EgressIsr(c)
        PROVE  RxTypeOK'
    BY <1>8, TransferAssumption DEF RxTypeOK, EgressIsr
  <1>9. ASSUME NEW c \in Chips, IngressIsr(c)
        PROVE  RxTypeOK'
    BY <1>9 DEF RxTypeOK, IngressIsr, rxVars
  <1>10. CASE UNCHANGED vars
    BY <1>10 DEF RxTypeOK, vars, rxVars
  <1> QED
    BY <1>2, <1>3, <1>4, <1>5, <1>6, <1>7, <1>8, <1>9, <1>10 DEF Next

LEMMA TxTypes ==
  ASSUME TxTypeOK, ThreadTypeOK, [Next]_vars
  PROVE  TxTypeOK'
  <1>1. ASSUME NEW t \in Threads,
               Leave(t) \/ Dummy(t) \/ Read(t) \/ Enter(t) \/ Interrupted(t) \/ ReadEnter(t)
        PROVE  TxTypeOK'
    BY <1>1 DEF TxTypeOK, Leave, Open, Release, SetAbortRead, Dummy, DummyStart, DummyWait,
                DummyPop, Read, ReadTry, ReadWait, ReadWoken, ReadAbort, ReadPop, Enter,
                Interrupted, ReadEnter, txVars
  <1>2. ASSUME NEW t \in Threads, Abort(t)
        PROVE  TxTypeOK'
    <2>1. CASE AbortFlag(t) \/ AbortDrain(t)
      BY <2>1 DEF TxTypeOK, AbortFlag, AbortDrain, txVars
    <2>2. CASE AbortTx(t)
      <3>1. abandoned' \in [Chips -> BOOLEAN]
        <4>1. ASSUME NEW c \in Chips PROVE (inflight[c] > 0) \in BOOLEAN
          BY SMT
        <4> QED
          BY <2>2, <4>1, Zenon DEF AbortTx
      <3>2. tx_is_abort' \in [Chips -> BOOLEAN] /\ tx_indicator' \in [Chips -> BOOLEAN]
        BY <2>2 DEF AbortTx
      <3> QED
        BY <2>2, <3>1, <3>2 DEF TxTypeOK, AbortTx
    <2> QED
      BY <1>2, <2>1, <2>2 DEF Abort
  <1>3. ASSUME NEW t \in Threads, WriteStart(t)
        PROVE  TxTypeOK'
    BY <1>3, TransferAssumption DEF TxTypeOK, ThreadTypeOK, WriteStart
  <1>4. ASSUME NEW t \in Threads, Write(t), ~WriteStart(t)
        PROVE  TxTypeOK'
    BY <1>4 DEF TxTypeOK, Write, WriteWait, WriteAborted, WriteSignalled, WriteRetry, WriteDone,
                txVars
  <1>5. ASSUME NEW c \in Chips, EgressIsr(c)
        PROVE  TxTypeOK'
    BY <1>5 DEF TxTypeOK, EgressIsr, txVars
  <1>6. ASSUME NEW c \in Chips, IngressIsr(c)
        PROVE  TxTypeOK'
    BY <1>6, TransferAssumption DEF TxTypeOK, IngressIsr
  <1>7. CASE UNCHANGED vars
    BY <1>7 DEF TxTypeOK, vars, txVars
  <1> QED
    BY <1>1, <1>2, <1>3, <1>4, <1>5, <1>6, <1>7 DEF Next

LEMMA BereftType ==
  ASSUME NEW t \in Threads
  PROVE  Bereft(t) \in [Threads -> BOOLEAN]
  BY Zenon DEF Bereft

LEMMA ReturnTypes ==
  ASSUME NEW t \in Threads, Return(t),
         pc \in [Threads -> Places],
         call \in [Threads -> Locked \cup {"none"}],
         target \in [Threads -> Chips \cup {BadChip}],
         status \in [Threads -> Outcomes \cup {"none"}]
  PROVE  /\ pc' \in [Threads -> Places]
         /\ call' \in [Threads -> Locked \cup {"none"}]
         /\ target' \in [Threads -> Chips \cup {BadChip}]
         /\ status' \in [Threads -> Outcomes \cup {"none"}]
  BY DEF Return, Goto

LEMMA ThreadTypes ==
  ASSUME ThreadTypeOK, [Next]_vars
  PROVE  ThreadTypeOK'
  <1> USE ReturnTypes, BereftType DEF ThreadTypeOK, threadVars, Unlock
  <1>1. ASSUME NEW t \in Threads, Leave(t)
        PROVE  ThreadTypeOK'
    BY <1>1 DEF Leave, Open, Release, SetAbortRead
  <1>2. ASSUME NEW t \in Threads, Abort(t)
        PROVE  ThreadTypeOK'
    <2>1. CASE AbortFlag(t)
      BY <2>1 DEF AbortFlag, Goto
    <2>2. CASE AbortDrain(t)
      BY <2>2 DEF AbortDrain, Goto
    <2>3. CASE AbortTx(t)
      BY <2>3 DEF AbortTx
    <2> QED
      BY <1>2, <2>1, <2>2, <2>3 DEF Abort
  <1>3. ASSUME NEW t \in Threads, Dummy(t)
        PROVE  ThreadTypeOK'
    <2>1. CASE DummyStart(t)
      BY <2>1 DEF DummyStart, Pop, Goto
    <2>2. CASE DummyWait(t)
      BY <2>2 DEF DummyWait, Goto
    <2>3. CASE DummyPop(t)
      BY <2>3 DEF DummyPop, Pop
    <2> QED
      BY <1>3, <2>1, <2>2, <2>3 DEF Dummy
  <1>4. ASSUME NEW t \in Threads, Read(t)
        PROVE  ThreadTypeOK'
    <2>1. CASE ReadTry(t)
      BY <2>1 DEF ReadTry, Pop, Goto
    <2>2. CASE ReadWait(t)
      BY <2>2 DEF ReadWait, Goto
    <2>3. CASE ReadWoken(t)
      BY <2>3 DEF ReadWoken, Goto
    <2>4. CASE ReadAbort(t)
      BY <2>4 DEF ReadAbort
    <2>5. CASE ReadPop(t)
      BY <2>5 DEF ReadPop, Pop
    <2> QED
      BY <1>4, <2>1, <2>2, <2>3, <2>4, <2>5 DEF Read
  <1>5. ASSUME NEW t \in Threads, Write(t)
        PROVE  ThreadTypeOK'
    <2>1. CASE WriteStart(t)
      BY <2>1 DEF WriteStart, Goto
    <2>2. CASE WriteWait(t)
      BY <2>2 DEF WriteWait, Goto
    <2>3. CASE WriteRetry(t)
      BY <2>3 DEF WriteRetry, Goto
    <2>4. CASE WriteAborted(t) \/ WriteSignalled(t) \/ WriteDone(t)
      BY <2>4 DEF WriteAborted, WriteSignalled, WriteDone
    <2> QED
      BY <1>5, <2>1, <2>2, <2>3, <2>4 DEF Write
  <1>6. ASSUME NEW t \in Threads, Enter(t)
        PROVE  ThreadTypeOK'
    BY <1>6 DEF Enter, Goto
  <1>7. ASSUME NEW t \in Threads, Interrupted(t) \/ ReadEnter(t)
        PROVE  ThreadTypeOK'
    BY <1>7 DEF Interrupted, ReadEnter, Goto
  <1>8. ASSUME NEW c \in Chips, EgressIsr(c) \/ IngressIsr(c)
        PROVE  ThreadTypeOK'
    BY <1>8 DEF EgressIsr, IngressIsr
  <1>9. CASE UNCHANGED vars
    BY <1>9 DEF vars
  <1> QED
    BY <1>1, <1>2, <1>3, <1>4, <1>5, <1>6, <1>7, <1>8, <1>9 DEF Next

-----------------------------------------------------------------------------
(* The reference count against the open files.                             *)

(* A release is under way only on an open file, an open only on one that   *)
(* is not.                                                                 *)
Sessions ==
  \A t \in Threads : pc[t] = "want" =>
    /\ call[t] = "release" => t \in opened
    /\ call[t] = "open" => t \notin opened

SessionInv == SessionTypeOK /\ IsFiniteSet(opened) /\ Sessions /\ RefsCoverFiles

(* A step that leaves the files and the count alone and puts no thread in  *)
(* front of the mutex.                                                     *)
Elsewhere ==
  /\ UNCHANGED sessionVars
  /\ mutex' \in Threads \cup {Free}
  /\ \A t \in Threads : pc'[t] = "want" => pc[t] = "want" /\ call'[t] = call[t]

LEMMA ElsewhereKeepsSessions ==
  ASSUME SessionInv, Elsewhere
  PROVE  SessionInv'
  BY DEF SessionInv, SessionTypeOK, Sessions, RefsCoverFiles, Elsewhere, sessionVars

LEMMA MostStepsElsewhere ==
  ASSUME SessionInv, ThreadTypeOK, NEW t \in Threads,
         SetAbortRead(t) \/ Abort(t) \/ Dummy(t) \/ Read(t) \/ Write(t) \/ ReadEnter(t)
  PROVE  Elsewhere
  <1> USE DEF SessionInv, SessionTypeOK, ThreadTypeOK, Elsewhere, sessionVars, Unlock, Return, Goto
  <1>1. CASE SetAbortRead(t) \/ ReadEnter(t)
    BY <1>1 DEF SetAbortRead, ReadEnter
  <1>2. CASE Abort(t)
    BY <1>2 DEF Abort, AbortFlag, AbortDrain, AbortTx
  <1>3. CASE Dummy(t)
    BY <1>3 DEF Dummy, DummyStart, DummyWait, DummyPop
  <1>4. CASE Read(t)
    BY <1>4 DEF Read, ReadTry, ReadWait, ReadWoken, ReadAbort, ReadPop
  <1>5. CASE Write(t)
    BY <1>5 DEF Write, WriteStart, WriteWait, WriteAborted, WriteSignalled, WriteRetry, WriteDone
  <1> QED
    BY <1>1, <1>2, <1>3, <1>4, <1>5

LEMMA SessionStep ==
  ASSUME SessionInv, ThreadTypeOK, [Next]_vars
  PROVE  SessionInv'
  <1> USE DEF SessionInv, SessionTypeOK, ThreadTypeOK
  <1>1. ASSUME NEW t \in Threads,
               SetAbortRead(t) \/ Abort(t) \/ Dummy(t) \/ Read(t) \/ Write(t) \/ ReadEnter(t)
        PROVE  SessionInv'
    <2>1. Elsewhere
      BY <1>1, MostStepsElsewhere
    <2> QED
      BY <2>1, ElsewhereKeepsSessions
  <1>2. ASSUME NEW t \in Threads, Enter(t)
        PROVE  SessionInv'
    <2>1. Sessions'
      BY <1>2 DEF Sessions, Enter, Goto, sessionVars
    <2> QED
      BY <1>2, <2>1 DEF Enter, RefsCoverFiles, sessionVars
  <1>3. ASSUME NEW t \in Threads, Interrupted(t)
        PROVE  SessionInv'
    <2>1. Sessions'
      BY <1>3 DEF Sessions, Interrupted, Return, Goto
    <2>2. /\ IsFiniteSet(opened \ {t})
          /\ Cardinality(opened \ {t}) \in Nat
          /\ Cardinality(opened) \in Nat
          /\ Cardinality(opened \ {t}) <= Cardinality(opened)
      <3>1. CASE t \in opened
        <4>1. /\ IsFiniteSet(opened \ {t})
              /\ Cardinality(opened \ {t}) = Cardinality(opened) - 1
          BY <3>1, FS_RemoveElement
        <4>2. Cardinality(opened) \in Nat /\ Cardinality(opened \ {t}) \in Nat
          BY <4>1, FS_CardinalityType
        <4> QED
          BY <4>1, <4>2
      <3>2. CASE t \notin opened
        <4>1. opened \ {t} = opened
          BY <3>2
        <4> QED
          BY <4>1, FS_CardinalityType
      <3> QED
        BY <3>1, <3>2
    <2> QED
      BY <1>3, <2>1, <2>2 DEF Interrupted, RefsCoverFiles
  <1>4. ASSUME NEW t \in Threads, Open(t)
        PROVE  SessionInv'
    <2>1. t \notin opened
      BY <1>4 DEF Sessions, Open, CanLock
    <2>2. /\ IsFiniteSet(opened \cup {t})
          /\ Cardinality(opened) \in Nat
          /\ Cardinality(opened \cup {t}) = Cardinality(opened) + 1
      BY <2>1, FS_AddElement, FS_CardinalityType
    <2>3. Sessions'
      BY <1>4 DEF Sessions, Open, Unlock, Return, Goto
    <2> QED
      BY <1>4, <2>2, <2>3 DEF Open, Unlock, RefsCoverFiles
  <1>5. ASSUME NEW t \in Threads, Release(t)
        PROVE  SessionInv'
    <2>1. t \in opened
      BY <1>5 DEF Sessions, Release, CanLock
    <2>2. /\ IsFiniteSet(opened \ {t})
          /\ Cardinality(opened) \in Nat
          /\ Cardinality(opened \ {t}) \in Nat
          /\ Cardinality(opened \ {t}) = Cardinality(opened) - 1
      BY <2>1, FS_RemoveElement, FS_CardinalityType
    <2>3. Sessions'
      BY <1>5 DEF Sessions, Release, Unlock, Return, Goto
    <2>4. reference_count' \in Nat /\ RefsCoverFiles'
      BY <1>5, <2>2 DEF Release, RefsCoverFiles
    <2> QED
      BY <1>5, <2>2, <2>3, <2>4 DEF Release, Unlock
  <1>6. ASSUME NEW c \in Chips, EgressIsr(c) \/ IngressIsr(c)
        PROVE  SessionInv'
    <2>1. Elsewhere
      BY <1>6 DEF EgressIsr, IngressIsr, Elsewhere, threadVars, sessionVars
    <2> QED
      BY <2>1, ElsewhereKeepsSessions
  <1>7. CASE UNCHANGED vars
    <2>1. Elsewhere
      BY <1>7 DEF vars, Elsewhere, threadVars, sessionVars
    <2> QED
      BY <2>1, ElsewhereKeepsSessions
  <1> QED
    BY <1>1, <1>2, <1>3, <1>4, <1>5, <1>6, <1>7 DEF Next, Leave

-----------------------------------------------------------------------------
(* The two results of this layer.                                          *)

Base == SessionInv /\ RxTypeOK /\ TxTypeOK /\ ThreadTypeOK

THEOREM BaseAlways == Spec => []Base
  <1>1. Init => Base
    <2> SUFFICES ASSUME Init PROVE Base
      OBVIOUS
    <2>1. SessionInv
      BY FS_EmptySet DEF Init, SessionInv, SessionTypeOK, Sessions, RefsCoverFiles
    <2>2. RxTypeOK
      <3>1. <<>> \in Seq(Chips) /\ Len(<<>>) <= FifoSize
        BY TransferAssumption
      <3> QED
        BY <3>1 DEF Init, RxTypeOK
    <2>3. TxTypeOK
      BY TransferAssumption DEF Init, TxTypeOK
    <2>4. ThreadTypeOK
      BY DEF Init, ThreadTypeOK
    <2> QED
      BY <2>1, <2>2, <2>3, <2>4 DEF Base
  <1>2. Base /\ [Next]_vars => Base'
    BY RxTypes, TxTypes, ThreadTypes, SessionStep DEF Base
  <1> QED
    BY <1>1, <1>2, PTL DEF Spec

(* The variables keep their types: the fifo stays within the size it was   *)
(* allocated with, and reference_count never goes below zero.              *)
THEOREM TypesAlways == Spec => []TypeOK
  <1>1. Base => TypeOK
    BY DEF Base, SessionInv, TypeOK
  <1> QED
    BY <1>1, BaseAlways, PTL

(* reference_count covers the open files whatever calls were interrupted.  *)
THEOREM RefsCoverFilesAlways == Spec => []RefsCoverFiles
  <1>1. Base => RefsCoverFiles
    BY DEF Base, SessionInv
  <1> QED
    BY <1>1, BaseAlways, PTL

-----------------------------------------------------------------------------
(* The mutex.                                                              *)

(* All a step of thread t can do to the mutex: take it, give it back (or   *)
(* take and give it back at once), or go on as before.                     *)
LockStep(t) ==
  /\ \A u \in Threads \ {t} : pc'[u] = pc[u]
  /\ \/ mutex = Free /\ mutex' = t /\ pc'[t] \in Critical
     \/ mutex \in {t, Free} /\ mutex' = Free /\ pc'[t] \notin Critical
     \/ mutex' = mutex /\ (pc'[t] \in Critical <=> pc[t] \in Critical)

LEMMA EveryStepIsLockStep ==
  ASSUME ThreadTypeOK, LockDiscipline, NEW t \in Threads,
         \/ Enter(t) \/ Interrupted(t) \/ ReadEnter(t) \/ Leave(t)
         \/ Abort(t) \/ Dummy(t) \/ Read(t) \/ Write(t)
  PROVE  LockStep(t)
  <1> USE DEF LockStep, LockDiscipline, ThreadTypeOK, Unlock, Return, Goto, CanLock
  <1>1. CASE Enter(t) \/ Interrupted(t) \/ ReadEnter(t)
    BY <1>1 DEF Enter, Interrupted, ReadEnter
  <1>2. CASE Leave(t)
    BY <1>2 DEF Leave, Open, Release, SetAbortRead
  <1>3. CASE Abort(t)
    BY <1>3 DEF Abort, AbortFlag, AbortDrain, AbortTx
  <1>4. CASE Dummy(t)
    BY <1>4 DEF Dummy, DummyStart, DummyWait, DummyPop
  <1>5. CASE Read(t)
    BY <1>5 DEF Read, ReadTry, ReadWait, ReadWoken, ReadAbort, ReadPop
  <1>6. CASE Write(t)
    <2>1. CASE WriteStart(t)
      BY <2>1 DEF WriteStart
    <2>2. CASE WriteWait(t) \/ WriteRetry(t)
      BY <2>2 DEF WriteWait, WriteRetry
    <2>3. CASE WriteAborted(t) \/ WriteSignalled(t) \/ WriteDone(t)
      BY <2>3 DEF WriteAborted, WriteSignalled, WriteDone
    <2> QED
      BY <1>6, <2>1, <2>2, <2>3 DEF Write
  <1> QED
    BY <1>1, <1>2, <1>3, <1>4, <1>5, <1>6

LEMMA LockStepKeepsDiscipline ==
  ASSUME ThreadTypeOK, LockDiscipline, NEW t \in Threads, LockStep(t)
  PROVE  LockDiscipline'
  BY TransferAssumption DEF LockDiscipline, LockStep, ThreadTypeOK

LEMMA DisciplineStep ==
  ASSUME ThreadTypeOK, LockDiscipline, [Next]_vars
  PROVE  LockDiscipline'
  <1>1. ASSUME NEW c \in Chips, EgressIsr(c) \/ IngressIsr(c)
        PROVE  LockDiscipline'
    BY <1>1 DEF EgressIsr, IngressIsr, LockDiscipline, threadVars
  <1>2. CASE UNCHANGED vars
    BY <1>2 DEF vars, LockDiscipline, threadVars
  <1> QED
    BY <1>1, <1>2, EveryStepIsLockStep, LockStepKeepsDiscipline DEF Next

(* The mutex is held exactly inside the calls that take it.                *)
THEOREM LockDisciplineAlways == Spec => []LockDiscipline
  <1>1. Init => LockDiscipline
    BY TransferAssumption DEF Init, LockDiscipline
  <1>2. Base /\ LockDiscipline /\ [Next]_vars => LockDiscipline'
    BY DisciplineStep DEF Base
  <1> QED
    BY <1>1, <1>2, BaseAlways, PTL DEF Spec

-----------------------------------------------------------------------------
(* The write side.                                                         *)

(* A writer has a valid target, and one that was woken by the device's     *)
(* answer still finds it.                                                  *)
Woken ==
  \A t \in Threads : pc[t] \in Writing =>
    /\ target[t] \in Chips
    /\ pc[t] = "wrWoken" /\ status[t] = "ready" => tx_indicator[target[t]]

Channel == Woken /\ NoLostCompletion /\ OwnCompletion

(* A step the write side does not notice.                                  *)
WriteSideSame ==
  /\ UNCHANGED <<tx_indicator, inflight, abandoned>>
  /\ \A u \in Threads :
       /\ pc'[u] \in Writing <=> pc[u] \in Writing
       /\ pc'[u] \in Writing =>
            pc'[u] = pc[u] /\ target'[u] = target[u] /\ status'[u] = status[u]

LEMMA SameKeepsChannel ==
  ASSUME Channel, WriteSideSame
  PROVE  Channel'
  BY DEF Channel, Woken, NoLostCompletion, OwnCompletion, Answers, WriteSideSame

LEMMA OthersSame ==
  ASSUME ThreadTypeOK, NEW t \in Threads,
         \/ Enter(t) \/ Interrupted(t) \/ ReadEnter(t) \/ Leave(t) \/ Dummy(t) \/ Read(t)
         \/ AbortFlag(t) \/ AbortDrain(t)
  PROVE  WriteSideSame
  <1> USE DEF WriteSideSame, ThreadTypeOK, txVars, Unlock, Return, Goto, CanLock
  <1>1. CASE Enter(t) \/ Interrupted(t) \/ ReadEnter(t)
    BY <1>1 DEF Enter, Interrupted, ReadEnter
  <1>2. CASE Leave(t)
    BY <1>2 DEF Leave, Open, Release, SetAbortRead
  <1>3. CASE Dummy(t)
    BY <1>3 DEF Dummy, DummyStart, DummyWait, DummyPop
  <1>4. CASE Read(t)
    BY <1>4 DEF Read, ReadTry, ReadWait, ReadWoken, ReadAbort, ReadPop
  <1>5. CASE AbortFlag(t) \/ AbortDrain(t)
    BY <1>5 DEF AbortFlag, AbortDrain
  <1> QED
    BY <1>1, <1>2, <1>3, <1>4, <1>5

(* Whoever holds the mutex, or finds it free, is the only possible writer. *)
LEMMA OneWriter ==
  ASSUME LockDiscipline, NEW t \in Threads, pc[t] \in Critical \/ mutex = Free,
         NEW u \in Threads, u # t
  PROVE  pc[u] \notin Writing
  BY TransferAssumption DEF LockDiscipline

LEMMA WriteStartKeepsChannel ==
  ASSUME ThreadTypeOK, TxTypeOK, LockDiscipline, Channel, NEW t \in Threads, WriteStart(t)
  PROVE  Channel'
  <1> USE DEF ThreadTypeOK, TxTypeOK, WriteStart, CanLock, Return, Goto, Unlock
  <1>1. \A u \in Threads : pc[u] \notin Writing
    BY OneWriter
  <1>2. CASE target[t] = BadChip
    <2>1. WriteSideSame
      BY <1>2 DEF WriteSideSame
    <2> QED
      BY <2>1, SameKeepsChannel
  <1>3. CASE target[t] # BadChip
    <2>1. /\ target[t] \in Chips
          /\ inflight' = [inflight EXCEPT ![target[t]] = @ + 1]
          /\ pc' = [pc EXCEPT ![t] = "wrWait"]
          /\ UNCHANGED <<target, status, tx_indicator, abandoned>>
      BY <1>3
    <2>2. Woken'
      BY <1>1, <2>1 DEF Woken
    <2>3. NoLostCompletion'
      BY <1>1, <2>1 DEF NoLostCompletion
    <2>4. OwnCompletion'
      <3> SUFFICES ASSUME NEW c \in Chips, ~abandoned[c]
                   PROVE  Answers(c)' = IF \E u \in Threads : pc'[u] \in Writing /\ target'[u] = c
                                        THEN 1 ELSE 0
        BY <2>1 DEF OwnCompletion
      <3>1. Answers(c) = 0
        BY <1>1 DEF Channel, OwnCompletion
      <3>2. CASE c = target[t]
        BY <2>1, <3>1, <3>2 DEF Answers
      <3>3. CASE c # target[t]
        BY <1>1, <2>1, <3>1, <3>3 DEF Answers
      <3> QED
        BY <3>2, <3>3
    <2> QED
      BY <2>2, <2>3, <2>4 DEF Channel
  <1> QED
    BY <1>2, <1>3

LEMMA WriteStepsKeepChannel ==
  ASSUME ThreadTypeOK, TxTypeOK, LockDiscipline, Channel, NEW t \in Threads,
         WriteWait(t) \/ WriteAborted(t) \/ WriteSignalled(t) \/ WriteRetry(t) \/ WriteDone(t)
  PROVE  Channel'
  <1> USE DEF ThreadTypeOK, TxTypeOK, Return, Goto, Unlock, txVars
  <1>1. pc[t] \in Writing /\ target[t] \in Chips
    BY DEF WriteWait, WriteAborted, WriteSignalled, WriteRetry, WriteDone, Channel, Woken
  <1>2. \A u \in Threads \ {t} : pc[u] \notin Writing
    BY <1>1, OneWriter
  <1>3. CASE WriteWait(t) \/ WriteRetry(t)
    <2>1. /\ UNCHANGED <<tx_indicator, inflight, abandoned, target>>
          /\ pc' = [pc EXCEPT ![t] = pc'[t]] /\ pc'[t] \in Writing
      BY <1>3 DEF WriteWait, WriteRetry
    <2>2. Woken'
      BY <1>1, <1>2, <1>3, <2>1 DEF Woken, WriteWait, WriteRetry
    <2>3. NoLostCompletion'
      BY <1>1, <1>2, <2>1 DEF Channel, NoLostCompletion
    <2>4. OwnCompletion'
      BY <1>1, <1>2, <2>1 DEF Channel, OwnCompletion, Answers
    <2> QED
      BY <2>2, <2>3, <2>4 DEF Channel
  <1>4. CASE WriteAborted(t) \/ WriteSignalled(t)
    <2>1. /\ UNCHANGED <<tx_indicator, inflight>>
          /\ abandoned' = [abandoned EXCEPT ![target[t]] = TRUE]
          /\ pc' = [pc EXCEPT ![t] = "user"]
          /\ target' = [target EXCEPT ![t] = BadChip]
      BY <1>4 DEF WriteAborted, WriteSignalled
    <2>2. \A u \in Threads : pc'[u] \notin Writing
      BY <1>2, <2>1
    <2>3. OwnCompletion'
      BY <1>1, <1>2, <2>1, <2>2 DEF Channel, OwnCompletion, Answers
    <2> QED
      BY <2>2, <2>3 DEF Channel, Woken, NoLostCompletion
  <1>5. CASE WriteDone(t)
    <2>1. /\ UNCHANGED <<inflight, abandoned>>
          /\ tx_indicator[target[t]]
          /\ tx_indicator' = [tx_indicator EXCEPT ![target[t]] = FALSE]
          /\ pc' = [pc EXCEPT ![t] = "user"]
      BY <1>1, <1>5 DEF WriteDone, Channel, Woken
    <2>2. \A u \in Threads : pc'[u] \notin Writing
      BY <1>2, <2>1
    <2>3. OwnCompletion'
      <3> SUFFICES ASSUME NEW c \in Chips, ~abandoned[c]
                   PROVE  Answers(c)' = 0
        BY <2>1, <2>2 DEF OwnCompletion
      <3>1. CASE c = target[t]
        <4>1. Answers(c) = 1
          BY <1>1, <3>1 DEF Channel, OwnCompletion
        <4> QED
          BY <2>1, <3>1, <4>1 DEF Answers
      <3>2. CASE c # target[t]
        <4>1. Answers(c) = 0
          BY <1>2, <3>2 DEF Channel, OwnCompletion
        <4> QED
          BY <2>1, <3>2, <4>1 DEF Answers
      <3> QED
        BY <3>1, <3>2
    <2> QED
      BY <2>2, <2>3 DEF Channel, Woken, NoLostCompletion
  <1> QED
    BY <1>3, <1>4, <1>5

(* An abort finds no writer, since it holds the mutex itself.              *)
LEMMA AbortTxKeepsChannel ==
  ASSUME ThreadTypeOK, TxTypeOK, LockDiscipline, NEW t \in Threads, AbortTx(t)
  PROVE  Channel'
  <1>1. \A u \in Threads : pc'[u] \notin Writing
    BY OneWriter DEF ThreadTypeOK, AbortTx, Unlock, Return, Goto
  <1>2. OwnCompletion'
    <2> SUFFICES ASSUME NEW c \in Chips, ~abandoned'[c]
                 PROVE  Answers(c)' = 0
      BY <1>1 DEF OwnCompletion
    <2>1. inflight'[c] = 0 /\ ~tx_indicator'[c]
      <3>1. ~(inflight[c] > 0) /\ inflight' = inflight
        BY Zenon DEF AbortTx
      <3>2. inflight[c] \in Nat
        BY TransferAssumption DEF TxTypeOK
      <3> QED
        BY <3>1, <3>2 DEF AbortTx
    <2> QED
      BY <2>1 DEF Answers
  <1> QED
    BY <1>1, <1>2 DEF Channel, Woken, NoLostCompletion

(* The answer arrives: owed becomes standing.                              *)
LEMMA IngressKeepsChannel ==
  ASSUME ThreadTypeOK, TxTypeOK, Channel, NEW d \in Chips, IngressIsr(d)
  PROVE  Channel'
  <1> USE DEF TxTypeOK, IngressIsr, threadVars
  <1>1. Woken'
    BY DEF Channel, Woken
  <1>2. NoLostCompletion'
    BY DEF Channel, Woken, NoLostCompletion
  <1>3. OwnCompletion'
    <2> SUFFICES ASSUME NEW c \in Chips, ~abandoned[c]
                 PROVE  Answers(c)' = Answers(c)
      BY DEF Channel, OwnCompletion
    <2>1. CASE c = d
      <3>1. Answers(c) \in {0, 1}
        BY DEF Channel, OwnCompletion
      <3>2. inflight[c] = 1 /\ ~tx_indicator[c]
        BY <2>1, <3>1 DEF Answers
      <3> QED
        BY <2>1, <3>2 DEF Answers
    <2>2. CASE c # d
      BY <2>2 DEF Answers
    <2> QED
      BY <2>1, <2>2
  <1> QED
    BY <1>1, <1>2, <1>3 DEF Channel

LEMMA ChannelStep ==
  ASSUME ThreadTypeOK, TxTypeOK, LockDiscipline, Channel, [Next]_vars
  PROVE  Channel'
  <1>1. ASSUME NEW t \in Threads,
               \/ Enter(t) \/ Interrupted(t) \/ ReadEnter(t) \/ Leave(t) \/ Dummy(t) \/ Read(t)
               \/ AbortFlag(t) \/ AbortDrain(t)
        PROVE  Channel'
    BY <1>1, OthersSame, SameKeepsChannel
  <1>2. ASSUME NEW t \in Threads, AbortTx(t)
        PROVE  Channel'
    BY <1>2, AbortTxKeepsChannel
  <1>3. ASSUME NEW t \in Threads, Write(t)
        PROVE  Channel'
    BY <1>3, WriteStartKeepsChannel, WriteStepsKeepChannel DEF Write
  <1>4. ASSUME NEW c \in Chips, EgressIsr(c)
        PROVE  Channel'
    <2>1. WriteSideSame
      BY <1>4 DEF EgressIsr, WriteSideSame, txVars, threadVars
    <2> QED
      BY <2>1, SameKeepsChannel
  <1>5. ASSUME NEW c \in Chips, IngressIsr(c)
        PROVE  Channel'
    BY <1>5, IngressKeepsChannel
  <1>6. CASE UNCHANGED vars
    <2>1. WriteSideSame
      BY <1>6 DEF vars, WriteSideSame, txVars, threadVars
    <2> QED
      BY <2>1, SameKeepsChannel
  <1> QED
    BY <1>1, <1>2, <1>3, <1>4, <1>5, <1>6 DEF Next, Abort

LEMMA ChannelAlways == Spec => []Channel
  <1>1. Init => Channel
    BY DEF Init, Channel, Woken, NoLostCompletion, OwnCompletion, Answers
  <1>2. Base /\ LockDiscipline /\ Channel /\ [Next]_vars => Channel'
    BY ChannelStep DEF Base
  <1> QED
    BY <1>1, <1>2, BaseAlways, LockDisciplineAlways, PTL DEF Spec

(* A waiting writer is always owed its wake-up.                            *)
THEOREM NoLostCompletionAlways == Spec => []NoLostCompletion
  <1>1. Channel => NoLostCompletion
    BY DEF Channel
  <1> QED
    BY <1>1, ChannelAlways, PTL

(* Where no write was given up, an answer belongs to the write waiting.    *)
THEOREM OwnCompletionAlways == Spec => []OwnCompletion
  <1>1. Channel => OwnCompletion
    BY DEF Channel
  <1> QED
    BY <1>1, ChannelAlways, PTL

-----------------------------------------------------------------------------
(* The read side.                                                          *)

(* Who reads has its file open, so that no open can be the first meanwhile.*)
Readers == \A t \in Threads : pc[t] \in Reading => t \in opened

(* What woke a reader or a dummy reader is still there, unless another call*)
(* has taken it: a result that is popped, or a result or an abort that is  *)
(* looked at.                                                              *)
WokenReader(t) ==
  /\ pc[t] = "readWoken" => status[t] \in Outcomes
  /\ pc[t] = "readWoken" /\ status[t] = "ready" =>
       rx_is_abort \/ rx_msix_fifo # <<>> \/ robbed[t]
  /\ pc[t] \in {"readPop", "dummyPop"} => rx_msix_fifo # <<>> \/ robbed[t]

ReadInv == Readers /\ \A t \in Threads : WokenReader(t)

(* A step of thread t that takes nothing from the fifo and leaves the      *)
(* abort flag: the other readers keep what they were woken for.            *)
LEMMA OthersKeepReading ==
  ASSUME ReadInv, NEW t \in Threads,
         \A u \in Threads \ {t} : pc'[u] = pc[u] /\ status'[u] = status[u],
         \A u \in Threads \ {t} : robbed'[u] = robbed[u],
         rx_is_abort => rx_is_abort',
         rx_msix_fifo # <<>> => rx_msix_fifo' # <<>>,
         NEW u \in Threads \ {t}
  PROVE  WokenReader(u)'
  BY DEF ReadInv, WokenReader

(* A step of thread t that takes something away robs the others.           *)
LEMMA OthersAreRobbed ==
  ASSUME ReadInv, NEW t \in Threads,
         \A u \in Threads \ {t} : pc'[u] = pc[u] /\ status'[u] = status[u],
         robbed' = Bereft(t),
         NEW u \in Threads \ {t}
  PROVE  WokenReader(u)'
  BY DEF ReadInv, WokenReader, Bereft

(* What the calls do to the other threads.                                 *)
LEMMA OnlyOwnState ==
  ASSUME ThreadTypeOK, NEW t \in Threads,
         \/ Enter(t) \/ Interrupted(t) \/ ReadEnter(t) \/ Leave(t)
         \/ Abort(t) \/ Dummy(t) \/ Read(t) \/ Write(t)
  PROVE  \A u \in Threads \ {t} : pc'[u] = pc[u] /\ status'[u] = status[u]
  <1> USE DEF ThreadTypeOK, Unlock, Return, Goto
  <1>1. CASE Enter(t) \/ Interrupted(t) \/ ReadEnter(t)
    BY <1>1 DEF Enter, Interrupted, ReadEnter
  <1>2. CASE Leave(t)
    BY <1>2 DEF Leave, Open, Release, SetAbortRead
  <1>3. CASE Abort(t)
    BY <1>3 DEF Abort, AbortFlag, AbortDrain, AbortTx
  <1>4. CASE Dummy(t)
    BY <1>4 DEF Dummy, DummyStart, DummyWait, DummyPop
  <1>5. CASE Read(t)
    <2>1. CASE ReadTry(t) \/ ReadWait(t) \/ ReadAbort(t) \/ ReadPop(t)
      BY <2>1 DEF ReadTry, ReadWait, ReadAbort, ReadPop
    <2>2. CASE ReadWoken(t)
      BY <2>2 DEF ReadWoken
    <2> QED
      BY <1>5, <2>1, <2>2 DEF Read
  <1>6. CASE Write(t)
    <2>1. CASE WriteStart(t)
      BY <2>1 DEF WriteStart
    <2>2. CASE WriteWait(t) \/ WriteRetry(t)
      BY <2>2 DEF WriteWait, WriteRetry
    <2>3. CASE WriteAborted(t) \/ WriteSignalled(t) \/ WriteDone(t)
      BY <2>3 DEF WriteAborted, WriteSignalled, WriteDone
    <2> QED
      BY <1>6, <2>1, <2>2, <2>3 DEF Write
  <1> QED
    BY <1>1, <1>2, <1>3, <1>4, <1>5, <1>6

(* The files of those who read stay open.                                  *)
LEMMA ReadersStep ==
  ASSUME Base, Readers, [Next]_vars
  PROVE  Readers'
  <1> USE DEF Base, ThreadTypeOK, Unlock, Return, Goto, sessionVars, threadVars
  <1>1. ASSUME NEW t \in Threads, Enter(t) \/ Interrupted(t) \/ ReadEnter(t)
        PROVE  Readers'
    BY <1>1 DEF Readers, Enter, Interrupted, ReadEnter
  <1>2. ASSUME NEW t \in Threads, Leave(t)
        PROVE  Readers'
    BY <1>2 DEF Readers, Leave, Open, Release, SetAbortRead, CanLock
  <1>3. ASSUME NEW t \in Threads, Abort(t)
        PROVE  Readers'
    BY <1>3 DEF Readers, Abort, AbortFlag, AbortDrain, AbortTx
  <1>4. ASSUME NEW t \in Threads, Dummy(t)
        PROVE  Readers'
    BY <1>4 DEF Readers, Dummy, DummyStart, DummyWait, DummyPop
  <1>5. ASSUME NEW t \in Threads, Read(t)
        PROVE  Readers'
    <2>1. pc[t] \in Reading /\ opened' = opened
      BY <1>5 DEF Read, ReadTry, ReadWait, ReadWoken, ReadAbort, ReadPop
    <2>2. \A u \in Threads \ {t} : pc'[u] = pc[u]
      BY <1>5, OnlyOwnState
    <2> QED
      BY <2>1, <2>2 DEF Readers
  <1>6. ASSUME NEW t \in Threads, Write(t)
        PROVE  Readers'
    <2>1. opened' = opened /\ pc'[t] \notin Reading
      <3>1. CASE WriteStart(t)
        BY <3>1 DEF WriteStart
      <3>2. CASE WriteWait(t) \/ WriteRetry(t)
        BY <3>2 DEF WriteWait, WriteRetry
      <3>3. CASE WriteAborted(t) \/ WriteSignalled(t) \/ WriteDone(t)
        BY <3>3 DEF WriteAborted, WriteSignalled, WriteDone
      <3> QED
        BY <1>6, <3>1, <3>2, <3>3 DEF Write
    <2>2. \A u \in Threads \ {t} : pc'[u] = pc[u]
      BY <1>6, OnlyOwnState
    <2> QED
      BY <2>1, <2>2 DEF Readers
  <1>7. ASSUME NEW c \in Chips, EgressIsr(c) \/ IngressIsr(c)
        PROVE  Readers'
    BY <1>7 DEF Readers, EgressIsr, IngressIsr
  <1>8. CASE UNCHANGED vars
    BY <1>8 DEF Readers, vars
  <1> QED
    BY <1>1, <1>2, <1>3, <1>4, <1>5, <1>6, <1>7, <1>8 DEF Next

(* Nobody can be the first opener while a file is open.                    *)
LEMMA NotTheFirst ==
  ASSUME Base, NEW t \in Threads, t \in opened
  PROVE  reference_count # 0
  <1>1. IsFiniteSet(opened) /\ reference_count >= Cardinality(opened) /\ reference_count \in Nat
    BY DEF Base, SessionInv, SessionTypeOK, RefsCoverFiles
  <1>2. Cardinality(opened) \in Nat /\ Cardinality(opened) # 0
    BY <1>1, FS_CardinalityType, FS_EmptySet
  <1> QED
    BY <1>1, <1>2

LEMMA WokenReaderStep ==
  ASSUME Base, ReadInv, NEW t \in Threads,
         \/ Enter(t) \/ Interrupted(t) \/ ReadEnter(t) \/ Leave(t)
         \/ Abort(t) \/ Dummy(t) \/ Read(t) \/ Write(t),
         NEW u \in Threads
  PROVE  WokenReader(u)'
  <1> USE DEF Base, ThreadTypeOK, RxTypeOK, rxVars, Unlock, Return, Goto
  <1>1. \A w \in Threads \ {t} : pc'[w] = pc[w] /\ status'[w] = status[w]
    BY OnlyOwnState
  <1>2. CASE Enter(t) \/ Interrupted(t) \/ ReadEnter(t)
    <2>1. /\ UNCHANGED <<rx_msix_fifo, rx_is_abort, robbed>>
          /\ pc'[t] \in {"want", "user", "readTry"}
      BY <1>2 DEF Enter, Interrupted, ReadEnter
    <2>2. CASE u # t
      BY <1>1, <2>1, <2>2, OthersKeepReading
    <2> QED
      BY <2>1, <2>2 DEF WokenReader
  <1>3. CASE Leave(t)
    <2>1. pc'[t] = "user" /\ UNCHANGED <<rx_msix_fifo, robbed>>
      BY <1>3 DEF Leave, Open, Release, SetAbortRead
    <2>2. CASE u # t /\ pc[u] \in Reading
      <3>1. rx_is_abort => rx_is_abort'
        <4>1. reference_count # 0
          BY <2>2, NotTheFirst DEF ReadInv, Readers
        <4> QED
          BY <1>3, <4>1 DEF Leave, Open, Release, SetAbortRead
      <3> QED
        BY <1>1, <2>1, <2>2, <3>1, OthersKeepReading
    <2>3. CASE u # t /\ pc[u] \notin Reading
      BY <1>1, <2>1, <2>3 DEF ReadInv, WokenReader
    <2> QED
      BY <2>1, <2>2, <2>3 DEF WokenReader
  <1>4. CASE Abort(t)
    <2>1. pc'[t] \in {"abortDrain", "abortTx", "user"}
      BY <1>4 DEF Abort, AbortFlag, AbortDrain, AbortTx
    <2>2. CASE u # t /\ robbed' = Bereft(t)
      BY <1>1, <2>2, OthersAreRobbed
    <2>3. CASE u # t /\ robbed' # Bereft(t)
      <3>1. UNCHANGED <<rx_msix_fifo, robbed>> /\ (rx_is_abort => rx_is_abort')
        BY <1>4, <2>3 DEF Abort, AbortFlag, AbortDrain, AbortTx
      <3> QED
        BY <1>1, <2>3, <3>1, OthersKeepReading
    <2> QED
      BY <2>1, <2>2, <2>3 DEF WokenReader
  <1>5. CASE Dummy(t)
    <2>1. pc'[t] \in {"dummyWait", "dummyPop", "user"} /\ (pc'[t] = "dummyPop" => rx_msix_fifo' # <<>>)
      BY <1>5 DEF Dummy, DummyStart, DummyWait, DummyPop
    <2>2. CASE u # t /\ robbed' = Bereft(t)
      BY <1>1, <2>2, OthersAreRobbed
    <2>3. CASE u # t /\ robbed' # Bereft(t)
      <3>1. /\ UNCHANGED <<rx_msix_fifo, rx_is_abort>>
            /\ \A w \in Threads \ {t} : robbed'[w] = robbed[w]
        BY <1>5, <2>3 DEF Dummy, DummyStart, DummyWait, DummyPop, Pop
      <3> QED
        BY <1>1, <2>3, <3>1, OthersKeepReading
    <2> QED
      BY <2>1, <2>2, <2>3 DEF WokenReader
  <1>6. CASE Write(t)
    <2>1. UNCHANGED <<rx_msix_fifo, rx_is_abort, robbed>> /\ pc'[t] \in {"wrWait", "wrWoken", "user"}
      <3>1. CASE WriteStart(t)
        BY <3>1 DEF WriteStart
      <3>2. CASE WriteWait(t) \/ WriteRetry(t)
        BY <3>2 DEF WriteWait, WriteRetry
      <3>3. CASE WriteAborted(t) \/ WriteSignalled(t) \/ WriteDone(t)
        BY <3>3 DEF WriteAborted, WriteSignalled, WriteDone
      <3> QED
        BY <1>6, <3>1, <3>2, <3>3 DEF Write
    <2>2. CASE u # t
      BY <1>1, <2>1, <2>2, OthersKeepReading
    <2> QED
      BY <2>1, <2>2 DEF WokenReader
  <1>7. CASE ReadTry(t) \/ ReadAbort(t) \/ ReadPop(t)
    <2>1. pc'[t] \in {"readWait", "user"}
      BY <1>7 DEF ReadTry, ReadAbort, ReadPop
    <2>2. CASE u # t /\ robbed' = Bereft(t)
      BY <1>1, <2>2, OthersAreRobbed
    <2>3. CASE u # t /\ robbed' # Bereft(t)
      <3>1. UNCHANGED <<rx_msix_fifo, rx_is_abort, robbed>>
        BY <1>7, <2>3 DEF ReadTry, ReadAbort, ReadPop, Pop
      <3> QED
        BY <1>1, <2>3, <3>1, OthersKeepReading
    <2> QED
      BY <2>1, <2>2, <2>3 DEF WokenReader
  <1>8. CASE ReadWait(t)
    <2>1. PICK how \in Outcomes : /\ how = "ready" <=> (rx_is_abort \/ rx_msix_fifo # <<>>)
                                  /\ status' = [status EXCEPT ![t] = how]
      BY <1>8 DEF ReadWait
    <2>2. /\ UNCHANGED <<rx_msix_fifo, rx_is_abort>> /\ pc'[t] = "readWoken"
          /\ \A w \in Threads \ {t} : robbed'[w] = robbed[w]
      BY <1>8 DEF ReadWait
    <2>3. status'[t] = how
      BY <2>1
    <2>4. CASE u # t
      BY <1>1, <2>2, <2>4, OthersKeepReading
    <2>5. CASE u = t
      BY <2>1, <2>2, <2>3, <2>5 DEF WokenReader
    <2> QED
      BY <2>4, <2>5
  <1>9. CASE ReadWoken(t)
    <2>1. UNCHANGED <<rx_msix_fifo, rx_is_abort, robbed>> /\ pc[t] = "readWoken"
      BY <1>9 DEF ReadWoken
    <2>2. pc'[t] \in {"user", "readAbort", "readWait"}
            \/ (pc'[t] = "readPop" /\ ~rx_is_abort /\ status[t] \notin {"signal", "timeout"})
      BY <1>9 DEF ReadWoken
    <2>3. CASE u # t
      BY <1>1, <2>1, <2>3, OthersKeepReading
    <2>4. CASE u = t
      BY <2>1, <2>2, <2>4 DEF ReadInv, WokenReader
    <2> QED
      BY <2>3, <2>4
  <1> QED
    BY <1>2, <1>3, <1>4, <1>5, <1>6, <1>7, <1>8, <1>9 DEF Read

LEMMA ReadInvStep ==
  ASSUME Base, ReadInv, [Next]_vars
  PROVE  ReadInv'
  <1>1. Readers'
    BY ReadersStep DEF ReadInv
  <1>2. ASSUME NEW c \in Chips, EgressIsr(c) \/ IngressIsr(c), NEW u \in Threads
        PROVE  WokenReader(u)'
    <2>1. UNCHANGED <<rx_is_abort, pc, status, robbed>>
      BY <1>2 DEF EgressIsr, IngressIsr, threadVars, rxVars
    <2>2. rx_msix_fifo # <<>> => rx_msix_fifo' # <<>>
      BY <1>2 DEF Base, RxTypeOK, EgressIsr, IngressIsr, rxVars
    <2> QED
      BY <2>1, <2>2 DEF ReadInv, WokenReader
  <1>3. ASSUME UNCHANGED vars, NEW u \in Threads
        PROVE  WokenReader(u)'
    BY <1>3 DEF ReadInv, WokenReader, vars, rxVars, threadVars
  <1> QED
    BY <1>1, <1>2, <1>3, WokenReaderStep DEF Next, ReadInv

LEMMA ReadInvAlways == Spec => []ReadInv
  <1>1. Init => ReadInv
    BY DEF Init, ReadInv, Readers, WokenReader
  <1>2. Base /\ ReadInv /\ [Next]_vars => ReadInv'
    BY ReadInvStep
  <1> QED
    BY <1>1, <1>2, BaseAlways, PTL DEF Spec

(* For any number of readers, dummy readers and aborts: -EFAULT is the     *)
(* answer only of a call that another one has overtaken between its wake-up*)
(* and its pop.                                                            *)
THEOREM EfaultOnlyIfRobbedAlways == Spec => []EfaultOnlyIfRobbed
  <1>1. ReadInv => EfaultOnlyIfRobbed
    BY DEF ReadInv, WokenReader, EfaultOnlyIfRobbed
  <1> QED
    BY <1>1, ReadInvAlways, PTL

-----------------------------------------------------------------------------
(* Aborts.                                                                 *)

AbortsStay ==
  opened # {} =>
    /\ \A c \in Chips : tx_is_abort[c] /\ ~tx_is_abort'[c] =>
         \E t \in Threads : pc[t] = "wrWoken" /\ target[t] = c /\ pc'[t] = "user"
    /\ rx_is_abort /\ ~rx_is_abort' =>
         \E t \in Threads : pc[t] = "readAbort" /\ pc'[t] = "user"

LEMMA AbortsStayStep ==
  ASSUME Base, [Next]_vars
  PROVE  AbortsStay
  <1> USE DEF Base, ThreadTypeOK, TxTypeOK, RxTypeOK, rxVars, txVars, Unlock, Return, Goto
  <1>1. ASSUME UNCHANGED tx_is_abort, rx_is_abort => rx_is_abort'
        PROVE  AbortsStay
    BY <1>1 DEF AbortsStay
  <1>2. ASSUME NEW t \in Threads, Open(t)
        PROVE  AbortsStay
    <2> SUFFICES ASSUME NEW u \in opened
                 PROVE  UNCHANGED tx_is_abort /\ (rx_is_abort => rx_is_abort')
      BY <1>1 DEF AbortsStay
    <2>1. reference_count # 0
      BY NotTheFirst DEF SessionInv, SessionTypeOK
    <2> QED
      BY <1>2, <2>1 DEF Open
  <1>3. ASSUME NEW t \in Threads, \/ Enter(t) \/ Interrupted(t) \/ ReadEnter(t) \/ Release(t)
                                 \/ SetAbortRead(t) \/ Dummy(t)
        PROVE  AbortsStay
    BY <1>1, <1>3 DEF Enter, Interrupted, ReadEnter, Release, SetAbortRead, Dummy, DummyStart,
                      DummyWait, DummyPop, Pop
  <1>4. ASSUME NEW t \in Threads, Abort(t)
        PROVE  AbortsStay
    BY <1>4 DEF AbortsStay, Abort, AbortFlag, AbortDrain, AbortTx
  <1>5. ASSUME NEW t \in Threads, Read(t)
        PROVE  AbortsStay
    <2>1. CASE ReadAbort(t)
      <3>1. UNCHANGED tx_is_abort /\ pc[t] = "readAbort" /\ pc'[t] = "user"
        BY <2>1 DEF ReadAbort
      <3> QED
        BY <3>1 DEF AbortsStay
    <2>2. CASE ReadTry(t) \/ ReadWait(t) \/ ReadWoken(t) \/ ReadPop(t)
      BY <1>1, <2>2 DEF ReadTry, ReadWait, ReadWoken, ReadPop, Pop
    <2> QED
      BY <1>5, <2>1, <2>2 DEF Read
  <1>6. ASSUME NEW t \in Threads, Write(t)
        PROVE  AbortsStay
    <2>1. CASE WriteAborted(t)
      <3>1. /\ tx_is_abort' = [tx_is_abort EXCEPT ![target[t]] = FALSE] /\ rx_is_abort' = rx_is_abort
            /\ pc[t] = "wrWoken" /\ pc'[t] = "user"
        BY <2>1 DEF WriteAborted
      <3>2. \A c \in Chips : c # target[t] => tx_is_abort'[c] = tx_is_abort[c]
        BY <3>1
      <3> QED
        BY <3>1, <3>2 DEF AbortsStay
    <2>2. CASE WriteStart(t) \/ WriteWait(t) \/ WriteSignalled(t) \/ WriteRetry(t) \/ WriteDone(t)
      BY <1>1, <2>2 DEF WriteStart, WriteWait, WriteSignalled, WriteRetry, WriteDone
    <2> QED
      BY <1>6, <2>1, <2>2 DEF Write
  <1>7. ASSUME NEW c \in Chips, EgressIsr(c) \/ IngressIsr(c)
        PROVE  AbortsStay
    BY <1>1, <1>7 DEF EgressIsr, IngressIsr
  <1>8. CASE UNCHANGED vars
    BY <1>1, <1>8 DEF vars
  <1> QED
    BY <1>2, <1>3, <1>4, <1>5, <1>6, <1>7, <1>8 DEF Next, Leave

(* For any number of files: an abort request is cleared by the call it is  *)
(* meant for and by no other, as long as any file is open.  It rests on    *)
(* reference_count never falling below the number of open files.           *)
THEOREM AbortNotForgottenAlways == Spec => AbortNotForgotten
  <1>1. Base /\ [Next]_vars => [AbortsStay]_vars
    BY AbortsStayStep
  <1>2. AbortsStay <=>
          (opened # {} =>
             /\ \A c \in Chips : tx_is_abort[c] /\ ~tx_is_abort'[c] =>
                  \E t \in Threads : pc[t] = "wrWoken" /\ target[t] = c /\ pc'[t] = "user"
             /\ rx_is_abort /\ ~rx_is_abort' =>
                  \E t \in Threads : pc[t] = "readAbort" /\ pc'[t] = "user")
    BY DEF AbortsStay
  <1> QED
    BY <1>1, BaseAlways, PTL DEF Spec, AbortNotForgotten, AbortsStay

=============================================================================
