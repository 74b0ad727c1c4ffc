-------------------------- MODULE MemxAdmin_proofs --------------------------
(***************************************************************************)
(* Safety of the admin commands for any threads, chips, calls and bounds,  *)
(* in three layers, and that the slots implement AdminMailbox:             *)
(*   Base   types, and what a thread at each place still has to send and   *)
(*          to fetch;                                                      *)
(*   Slots  Base, where the command in each slot is, and whose it is;      *)
(*   IInv   Slots, and what set and get of the trigger type have in flight.*)
(***************************************************************************)
EXTENDS MemxAdmin, SequenceTheorems, TLAPS

Todos == [chip : Numbers, cmd : Commands]
Dues  == [chip : Numbers, ticket : TicketNos]

(* adminlock is held exactly by the thread that is inside a call.          *)
LockInv == \A t \in Threads : pc[t] \in Held <=> adminlock = t

(* Who is to put a command into a slot has one, who polls has an answer to *)
(* wait for, and only a download has more than one of either.  Whatever a  *)
(* call leaves unfetched when it returns is given up.                      *)
PlaceInv ==
  \A t \in Threads :
    /\ pc[t] = "trigger" => todo[t] # <<>>
    /\ pc[t] \in {"poll", "expired"} => due[t] # <<>>
    /\ pc[t] \in {"user", "want"} => due[t] = <<>>
    /\ pc[t] = "leave" => \A c \in DueChips(t) : abandoned[c]

SingleInv ==
  \A t \in Threads : op[t] # "download" =>
    /\ pc[t] = "trigger" => Len(todo[t]) = 1 /\ due[t] = <<>>
    /\ pc[t] \in {"poll", "expired"} => Len(due[t]) = 1

Base == TypeOK /\ LockInv /\ PlaceInv /\ SingleInv

(* Unless a command of c was given up: an idle slot is nobody's; a slot in *)
(* use is awaited by the holder of the lock, once, under the number of the *)
(* command that is in it; and the firmware has a command of c exactly      *)
(* while the slot says so.                                                 *)
Owned(c) ==
  slot[c].status # "idle" => c \in Chips /\ \E t \in Threads : adminlock = t /\ c \in DueChips(t)

Busy(c) == c \in Chips => (working[c] # Free <=> slot[c].status = "process")

Awaited(t, i, c) ==
  /\ slot[c].status # "idle"
  /\ slot[c].status = "receive" => slot[c].request.ticket = due[t][i].ticket
  /\ slot[c].status = "process" => working[c].ticket = due[t][i].ticket
  /\ slot[c].status = "complete" => slot[c].answer.ticket = due[t][i].ticket
  /\ \A j \in DOMAIN due[t] : due[t][j].chip = c => j = i

Settled(c) ==
  /\ Owned(c)
  /\ Busy(c)
  /\ \A t \in Threads : \A i \in DOMAIN due[t] : due[t][i].chip = c => Awaited(t, i, c)

SlotInv == \A c \in Numbers : ~abandoned[c] => Settled(c)

Slots == Base /\ SlotInv

(* No set command is under way to a chip whose copy is trusted.            *)
TrustInv ==
  \A c \in Chips : trusted[c] =>
    /\ trigger_type[c] = dev_type[c]
    /\ slot[c].status = "receive" => slot[c].request.cmd \notin Words
    /\ working[c] # Free => working[c].cmd \notin Words

(* A set or get that is still to be sent: its chip exists, the copy is not *)
(* trusted meanwhile, and a set has made the copy already.  Other calls    *)
(* send no such command.                                                   *)
SendInv ==
  \A t \in Threads : pc[t] = "trigger" =>
    /\ op[t] \notin TypeOps => \A i \in DOMAIN todo[t] : todo[t][i].cmd = "other"
    /\ op[t] \in TypeOps =>
         /\ Head(todo[t]).chip \in Chips
         /\ ~trusted[Head(todo[t]).chip]
    /\ op[t] = "setType" =>
         Head(todo[t]).cmd \in Words /\ trigger_type[Head(todo[t]).chip] = Head(todo[t]).cmd
    /\ op[t] = "getType" => Head(todo[t]).cmd = "get"

(* A set or get that is under way to c, wherever it has got to.            *)
SetUnderWay(c) ==
  /\ slot[c].status = "receive" => slot[c].request.cmd = trigger_type[c]
  /\ slot[c].status = "process" => working[c].cmd = trigger_type[c]
  /\ slot[c].status = "complete" /\ slot[c].answer.ok => dev_type[c] = trigger_type[c]

GetUnderWay(c) ==
  /\ slot[c].status = "receive" => slot[c].request.cmd = "get"
  /\ slot[c].status = "process" => working[c].cmd = "get"
  /\ slot[c].status = "complete" /\ slot[c].answer.ok => slot[c].answer.data = dev_type[c]

AwaitInv ==
  \A t \in Threads : pc[t] \in {"poll", "expired"} /\ op[t] \in TypeOps =>
    LET c == Head(due[t]).chip IN
      /\ c \in Chips
      /\ ~trusted[c]
      /\ ~abandoned[c] /\ op[t] = "setType" => SetUnderWay(c)
      /\ ~abandoned[c] /\ op[t] = "getType" => GetUnderWay(c)

TypesInv == TrustInv /\ SendInv /\ AwaitInv

IInv == Slots /\ TypesInv

-----------------------------------------------------------------------------
(* Sequences, and the chips of a call.                                     *)

LEMMA TailFacts ==
  ASSUME NEW S, NEW s \in Seq(S), s # <<>>
  PROVE  /\ Tail(s) \in Seq(S) /\ Len(s) \in Nat \ {0} /\ Len(Tail(s)) = Len(s) - 1
         /\ Head(s) = s[1] /\ Head(s) \in S /\ 1 \in DOMAIN s
         /\ DOMAIN s = 1..Len(s) /\ DOMAIN Tail(s) = 1..(Len(s) - 1)
         /\ \A i \in DOMAIN Tail(s) : i + 1 \in DOMAIN s /\ Tail(s)[i] = s[i + 1]
         /\ Len(s) > 1 => Tail(s) # <<>>
         /\ Len(s) = 1 => Tail(s) = <<>>
  <1>1. Len(s) \in Nat \ {0} /\ Head(s) = s[1] /\ Head(s) \in S /\ DOMAIN s = 1..Len(s)
    OBVIOUS
  <1>2. Tail(s) \in Seq(S) /\ Len(Tail(s)) = Len(s) - 1
    BY HeadTailProperties
  <1>3. DOMAIN Tail(s) = 1..(Len(s) - 1)
    BY <1>1, <1>2
  <1>4. \A i \in 1..(Len(s) - 1) : Tail(s)[i] = s[i + 1]
    BY <1>1
  <1>5. (Len(s) > 1 => Tail(s) # <<>>) /\ (Len(s) = 1 => Tail(s) = <<>>)
    <2> DEFINE r == Tail(s)
    <2>1. Len(<<>>) = 0 /\ (r # <<>> => Len(r) \in Nat \ {0}) /\ Len(r) = Len(s) - 1
      BY <1>2, EmptySeq, Zenon
    <2> HIDE DEF r
    <2>2. (Len(s) > 1 => r # <<>>) /\ (Len(s) = 1 => r = <<>>)
      BY <1>1, <2>1
    <2> QED
      BY <2>2 DEF r
  <1> QED
    BY <1>1, <1>2, <1>3, <1>4, <1>5

LEMMA AppendFacts ==
  ASSUME NEW S, NEW s \in Seq(S), NEW e \in S
  PROVE  /\ Append(s, e) \in Seq(S) /\ Append(s, e) # <<>>
         /\ Len(s) \in Nat /\ Len(Append(s, e)) = Len(s) + 1
         /\ DOMAIN s = 1..Len(s) /\ DOMAIN Append(s, e) = 1..(Len(s) + 1)
         /\ Append(s, e)[Len(s) + 1] = e
         /\ \A i \in DOMAIN s : Append(s, e)[i] = s[i]
  OBVIOUS

(* A script is a sequence of commands that is not empty; all but those of  *)
(* a download have one command, of the kind the call is named for.         *)
LEMMA ScriptFacts ==
  ASSUME NEW name \in OpNames, NEW script \in Scripts(name)
  PROVE  /\ script \in Seq(Todos) /\ script # <<>>
         /\ Head(script) = script[1] /\ Head(script) \in Todos
         /\ name # "download" => Len(script) = 1
         /\ name = "setType" => Head(script).cmd \in Words
         /\ name = "getType" => Head(script).cmd = "get"
         /\ name \notin TypeOps => \A i \in DOMAIN script : script[i].cmd = "other"
  <1> DEFINE Cmd  == CASE name = "setType" -> Words
                       [] name = "getType" -> {"get"}
                       [] OTHER            -> {"other"}
             Most == IF name = "download" THEN Parallel ELSE 1
  <1>1. PICK n \in 1..Most : script \in [1..n -> [chip : Numbers, cmd : Cmd]]
    BY DEF Scripts
  <1>2. Most \in Nat /\ (name # "download" => Most = 1)
    BY AdminAssumption
  <1>3. Cmd \subseteq Commands
    BY DEF Commands, OpNames
  <1>4. /\ name = "setType" => Cmd = Words
        /\ name = "getType" => Cmd = {"get"}
        /\ name \notin TypeOps => Cmd = {"other"}
    BY DEF TypeOps
  <1> HIDE DEF Cmd, Most
  <1>5. n \in Nat \ {0} /\ (name # "download" => n = 1)
    BY <1>2
  <1>6. \A i \in 1..n : script[i] \in [chip : Numbers, cmd : Cmd] /\ script[i] \in Todos
    BY <1>1, <1>3 DEF Todos
  <1>7. script \in [1..n -> Todos]
    BY <1>1, <1>6
  <1>8. script \in Seq(Todos)
    BY <1>5, <1>7, SeqDef
  <1>9. Len(script) = n /\ DOMAIN script = 1..n
    BY <1>5, <1>7, <1>8, LenProperties
  <1>10. script # <<>> /\ Head(script) = script[1]
    BY <1>5, <1>8, <1>9, EmptySeq
  <1>11. 1 \in 1..n
    BY <1>5
  <1> QED
    BY <1>4, <1>5, <1>6, <1>8, <1>9, <1>10, <1>11

LEMMA NoDueChips ==
  ASSUME NEW t, due[t] = <<>>
  PROVE  DueChips(t) = {}
  BY DEF DueChips

(* Only one thread is inside; the others have nothing to fetch.            *)
LEMMA OneInside ==
  ASSUME Base, NEW t \in Threads, pc[t] \in Held
  PROVE  /\ adminlock = t
         /\ \A u \in Threads \ {t} :
              pc[u] \in {"user", "want"} /\ due[u] = <<>> /\ DueChips(u) = {}
  <1>1. adminlock = t
    BY DEF Base, LockInv
  <1>2. ASSUME NEW u \in Threads \ {t}
        PROVE  pc[u] \in {"user", "want"} /\ due[u] = <<>> /\ DueChips(u) = {}
    <2>1. pc[u] \notin Held /\ pc[u] \in Places
      BY <1>1 DEF Base, LockInv, TypeOK, CallTypeOK
    <2>2. pc[u] \in {"user", "want"}
      BY <2>1 DEF Places
    <2>3. due[u] = <<>>
      BY <2>2 DEF Base, PlaceInv
    <2> QED
      BY <2>2, <2>3, NoDueChips
  <1> QED
    BY <1>1, <1>2

-----------------------------------------------------------------------------
(* Layer Base.                                                             *)

USE DEF Held

(* A step that touches only thread t, which stays at a place inside or     *)
(* outside, keeps what Base says of the other threads.                     *)
LEMMA ThreadStep ==
  ASSUME Base, NEW t \in Threads,
         CallTypeOK',
         \A u \in Threads \ {t} : /\ pc'[u] = pc[u] /\ op'[u] = op[u]
                                 /\ todo'[u] = todo[u] /\ due'[u] = due[u],
         \A u \in Threads \ {t} : pc[u] = "leave" => \A c \in DueChips(u) : abandoned'[c],
         \/ pc[t] \in Held /\ pc'[t] \in Held /\ adminlock' = adminlock
         \/ pc[t] \in Held /\ pc'[t] \notin Held /\ adminlock' = Free
         \/ pc[t] \notin Held /\ pc'[t] \in Held /\ adminlock = Free /\ adminlock' = t
         \/ pc[t] \notin Held /\ pc'[t] \notin Held /\ adminlock' = adminlock,
         pc'[t] = "trigger" => todo'[t] # <<>>,
         pc'[t] \in {"poll", "expired"} => due'[t] # <<>>,
         pc'[t] \in {"user", "want"} => due'[t] = <<>>,
         pc'[t] = "leave" => \A i \in DOMAIN due'[t] : abandoned'[due'[t][i].chip],
         op'[t] # "download" =>
           /\ pc'[t] = "trigger" => Len(todo'[t]) = 1 /\ due'[t] = <<>>
           /\ pc'[t] \in {"poll", "expired"} => Len(due'[t]) = 1
  PROVE  LockInv' /\ PlaceInv' /\ SingleInv'
  <1>1. LockInv'
    <2>1. Free \notin Threads
      BY AdminAssumption
    <2> QED
      BY <2>1 DEF Base, LockInv
  <1>2. PlaceInv'
    <2> SUFFICES ASSUME NEW u \in Threads
                 PROVE  /\ pc'[u] = "trigger" => todo'[u] # <<>>
                        /\ pc'[u] \in {"poll", "expired"} => due'[u] # <<>>
                        /\ pc'[u] \in {"user", "want"} => due'[u] = <<>>
                        /\ pc'[u] = "leave" =>
                             \A i \in DOMAIN due'[u] : abandoned'[due'[u][i].chip]
      BY DEF PlaceInv, DueChips
    <2>1. CASE u = t
      BY <2>1
    <2>2. CASE u # t
      BY <2>2 DEF Base, PlaceInv, DueChips
    <2> QED
      BY <2>1, <2>2
  <1>3. SingleInv'
    BY DEF Base, SingleInv
  <1> QED
    BY <1>1, <1>2, <1>3

LEMMA InitBase == Init => Base
  <1> SUFFICES ASSUME Init
               PROVE  Base
    OBVIOUS
  <1>1. SlotTypeOK
    <2>1. NoRequest \in Requests /\ NoAnswer \in Answers
      BY AdminAssumption
         DEF NoRequest, NoAnswer, Requests, Answers, Commands, TicketNos
    <2> QED
      BY <2>1 DEF Init, SlotTypeOK, Statuses, Words, Types, Numbers
  <1>2. CallTypeOK
    <2>1. <<>> \in Seq([chip : Numbers, cmd : Commands])
          /\ <<>> \in Seq([chip : Numbers, ticket : TicketNos])
      OBVIOUS
    <2> QED
      BY <2>1 DEF Init, CallTypeOK, Places, OpNames
  <1>3. HistoryTypeOK
    BY AdminAssumption DEF Init, HistoryTypeOK, TicketNos
  <1>4. LockInv /\ PlaceInv /\ SingleInv
    BY AdminAssumption DEF Init, LockInv, PlaceInv, SingleInv
  <1> QED
    BY <1>1, <1>2, <1>3, <1>4 DEF Base, TypeOK

LEMMA EnterBase ==
  ASSUME Base, NEW t \in Threads, Enter(t)
  PROVE  Base'
  <1>1. TypeOK'
    BY DEF Base, TypeOK, SlotTypeOK, CallTypeOK, HistoryTypeOK, Enter, Goto, history, Places
  <1>2. LockInv' /\ PlaceInv' /\ SingleInv'
    <2>1. pc[t] = "user" /\ pc' = [pc EXCEPT ![t] = "want"]
          /\ UNCHANGED <<adminlock, op, todo, due, abandoned>>
      BY DEF Enter, Goto, history
    <2>2. pc'[t] = "want" /\ \A u \in Threads \ {t} : pc'[u] = pc[u]
      BY <2>1 DEF Base, TypeOK, CallTypeOK
    <2>3. due[t] = <<>>
      BY <2>1 DEF Base, PlaceInv
    <2>4. CallTypeOK'
      BY <1>1 DEF TypeOK
    <2>5. \A u \in Threads \ {t} : pc[u] = "leave" => \A c \in DueChips(u) : abandoned'[c]
      BY <2>1 DEF Base, PlaceInv
    <2> QED
      BY <2>1, <2>2, <2>3, <2>4, <2>5, ThreadStep
  <1> QED
    BY <1>1, <1>2 DEF Base

LEMMA BeginBase ==
  ASSUME Base, NEW t \in Threads, Lock(t)
  PROVE  Base'
  <1>1. PICK name \in Ops[t] : \E script \in Scripts(name) :
          LET chip == Head(script).chip IN
          /\ op' = [op EXCEPT ![t] = name]
          /\ SetCopy(name, Head(script))
          /\ trusted' = [trusted EXCEPT ![chip] = IF name \in TypeOps THEN FALSE ELSE @]
          /\ IF Refused(name, chip) THEN Goto(t, "leave") /\ UNCHANGED todo
             ELSE Goto(t, "trigger") /\ todo' = [todo EXCEPT ![t] = script]
    BY DEF Lock, Begin
  <1>2. PICK script \in Scripts(name) :
          LET chip == Head(script).chip IN
          /\ op' = [op EXCEPT ![t] = name]
          /\ SetCopy(name, Head(script))
          /\ trusted' = [trusted EXCEPT ![chip] = IF name \in TypeOps THEN FALSE ELSE @]
          /\ IF Refused(name, chip) THEN Goto(t, "leave") /\ UNCHANGED todo
             ELSE Goto(t, "trigger") /\ todo' = [todo EXCEPT ![t] = script]
    BY <1>1
  <1>3. /\ pc[t] = "want" /\ adminlock = Free /\ adminlock' = t /\ due[t] = <<>>
        /\ UNCHANGED <<slot, working, dev_type, due, ticket, abandoned>>
    BY DEF Lock, Begin, Base, PlaceInv
  <1>4. name \in OpNames
    BY AdminAssumption
  <1>5. /\ script \in Seq(Todos) /\ script # <<>> /\ Head(script) \in Todos
        /\ name # "download" => Len(script) = 1
        /\ name = "setType" => Head(script).cmd \in Words
    BY <1>4, ScriptFacts
  <1>6. trigger_type' \in [Numbers -> Words]
    BY <1>2, <1>5 DEF SetCopy, Base, TypeOK, SlotTypeOK, Todos
  <1>7. CallTypeOK'
    <2>1. op' \in [Threads -> OpNames] /\ adminlock' \in Threads \cup {Free}
      BY <1>2, <1>3, <1>4 DEF Base, TypeOK, CallTypeOK
    <2>2. pc' \in [Threads -> Places]
      BY <1>2 DEF Base, TypeOK, CallTypeOK, Goto, Places
    <2>3. todo' \in [Threads -> Seq(Todos)]
      BY <1>2, <1>5 DEF Base, TypeOK, CallTypeOK, Todos
    <2> QED
      BY <1>3, <2>1, <2>2, <2>3 DEF Base, TypeOK, CallTypeOK, Todos
  <1>8. trusted' \in [Numbers -> BOOLEAN]
    BY <1>2, Zenon DEF Base, TypeOK, HistoryTypeOK
  <1>9. TypeOK'
    BY <1>3, <1>6, <1>7, <1>8 DEF Base, TypeOK, SlotTypeOK, HistoryTypeOK
  <1>10. LockInv' /\ PlaceInv' /\ SingleInv'
    <2>1. \A u \in Threads \ {t} : /\ pc'[u] = pc[u] /\ op'[u] = op[u]
                                  /\ todo'[u] = todo[u] /\ due'[u] = due[u]
      BY <1>2, <1>3 DEF Goto, Base, TypeOK, CallTypeOK
    <2>2. \A u \in Threads \ {t} : pc[u] = "leave" => \A c \in DueChips(u) : abandoned'[c]
      BY <1>3 DEF Base, PlaceInv
    <2>3. pc'[t] = "leave" \/ (pc'[t] = "trigger" /\ todo'[t] = script)
      <3>1. pc \in [Threads -> Places] /\ todo \in [Threads -> Seq(Todos)]
        BY DEF Base, TypeOK, CallTypeOK, Todos
      <3>2. \/ pc' = [pc EXCEPT ![t] = "leave"]
            \/ pc' = [pc EXCEPT ![t] = "trigger"] /\ todo' = [todo EXCEPT ![t] = script]
        BY <1>2 DEF Goto
      <3>3. CASE pc' = [pc EXCEPT ![t] = "leave"]
        BY <3>1, <3>3
      <3>4. CASE pc' = [pc EXCEPT ![t] = "trigger"] /\ todo' = [todo EXCEPT ![t] = script]
        BY <3>1, <3>4
      <3> QED
        BY <3>2, <3>3, <3>4
    <2>4. op'[t] = name /\ due'[t] = <<>>
      BY <1>2, <1>3 DEF Base, TypeOK, CallTypeOK
    <2>5. pc'[t] = "leave" => \A i \in DOMAIN due'[t] : abandoned'[due'[t][i].chip]
      BY <2>4
    <2> QED
      BY <1>3, <1>5, <1>7, <2>1, <2>2, <2>3, <2>4, <2>5, ThreadStep
  <1> QED
    BY <1>9, <1>10 DEF Base

(* What memx_admin_trigger changes.                                        *)
LEMMA TriggerStep ==
  ASSUME Base, NEW t \in Threads, Trigger(t), NEW c, c = Head(todo[t]).chip,
         NEW no, no = NextTicket(c)
  PROVE  /\ pc[t] = "trigger" /\ c \in Numbers /\ no \in TicketNos
         /\ Head(todo[t]) \in Todos /\ todo'[t] = Tail(todo[t]) /\ todo' \in [Threads -> Seq(Todos)]
         /\ slot' = [slot EXCEPT ![c] = [status  |-> "receive",
                                         request |-> [cmd |-> Head(todo[t]).cmd, ticket |-> no],
                                         answer  |-> NoAnswer]]
         /\ abandoned' = [abandoned EXCEPT ![c] = Astray(t, c)]
         /\ \/ due' = due /\ op[t] = "download" /\ c \in Absent
            \/ due' = [due EXCEPT ![t] = Append(due[t], [chip |-> c, ticket |-> no])]
         /\ \/ pc'[t] = "trigger" /\ Len(todo[t]) > 1 /\ todo'[t] # <<>>
            \/ pc'[t] = "leave" /\ due'[t] = <<>>
            \/ pc'[t] = "poll" /\ due'[t] # <<>> /\ Len(todo[t]) <= 1
         /\ pc' \in [Threads -> Places]
         /\ \A u \in Threads \ {t} : pc'[u] = pc[u] /\ todo'[u] = todo[u] /\ due'[u] = due[u]
         /\ UNCHANGED <<adminlock, trigger_type, working, dev_type, op, trusted>>
  <1>1. pc[t] = "trigger" /\ todo[t] \in Seq(Todos) /\ todo[t] # <<>>
    BY DEF Trigger, Base, PlaceInv, TypeOK, CallTypeOK, Todos
  <1>2. /\ Head(todo[t]) \in Todos /\ Tail(todo[t]) \in Seq(Todos)
        /\ Len(todo[t]) > 1 => Tail(todo[t]) # <<>>
        /\ Len(todo[t]) \in Nat
    BY <1>1, TailFacts
  <1>3. c \in Numbers
    BY <1>2 DEF Todos
  <1>4. no \in TicketNos
    <2>1. ticket[c] \in Nat /\ Tickets \in Nat \ {0, 1}
      BY <1>3, AdminAssumption DEF Base, TypeOK, HistoryTypeOK, TicketNos
    <2>2. (ticket[c] + 1) % Tickets \in 0..Tickets - 1 /\ 0 \in 0..Tickets - 1
      BY <2>1
    <2> QED
      BY <2>2 DEF NextTicket, TicketNos
  <1>5. todo' = [todo EXCEPT ![t] = Tail(todo[t])]
    BY DEF Trigger
  <1>6. todo'[t] = Tail(todo[t]) /\ todo' \in [Threads -> Seq(Todos)]
    BY <1>2, <1>5 DEF Base, TypeOK, CallTypeOK, Todos
  <1>7. \/ due' = due /\ op[t] = "download" /\ c \in Absent
        \/ due' = [due EXCEPT ![t] = Append(due[t], [chip |-> c, ticket |-> no])]
    BY DEF Trigger
  <1>8. \/ pc' = [pc EXCEPT ![t] = "trigger"] /\ Len(todo[t]) > 1
        \/ pc' = [pc EXCEPT ![t] = "leave"] /\ due'[t] = <<>>
        \/ pc' = [pc EXCEPT ![t] = "poll"] /\ due'[t] # <<>> /\ Len(todo[t]) <= 1
    <2>1. pc' = [pc EXCEPT ![t] = IF Len(todo[t]) > 1 THEN "trigger"
                                  ELSE IF due'[t] = <<>> THEN "leave" ELSE "poll"]
      BY DEF Trigger, Goto
    <2>2. Len(todo[t]) > 1 \/ Len(todo[t]) <= 1
      BY <1>2
    <2>3. CASE Len(todo[t]) > 1
      BY <2>1, <2>3
    <2>4. CASE ~(Len(todo[t]) > 1) /\ due'[t] = <<>>
      BY <2>1, <2>4
    <2>5. CASE ~(Len(todo[t]) > 1) /\ due'[t] # <<>>
      <3>1. pc' = [pc EXCEPT ![t] = "poll"]
        BY <2>1, <2>5, Zenon
      <3> QED
        BY <2>2, <2>5, <3>1
    <2> QED
      BY <2>3, <2>4, <2>5
  <1>9. pc \in [Threads -> Places] /\ todo \in [Threads -> Seq(Todos)] /\ due \in [Threads -> Seq(Dues)]
    BY DEF Base, TypeOK, CallTypeOK, Todos, Dues
  <1>10. pc' \in [Threads -> Places]
    BY <1>8, <1>9 DEF Places
  <1>11. \A u \in Threads \ {t} : pc'[u] = pc[u] /\ todo'[u] = todo[u] /\ due'[u] = due[u]
    BY <1>5, <1>7, <1>8, <1>9
  <1>12. /\ slot' = [slot EXCEPT ![c] = [status  |-> "receive",
                                         request |-> [cmd |-> Head(todo[t]).cmd, ticket |-> no],
                                         answer  |-> NoAnswer]]
         /\ abandoned' = [abandoned EXCEPT ![c] = Astray(t, c)]
         /\ UNCHANGED <<adminlock, trigger_type, working, dev_type, op, trusted>>
    BY DEF Trigger
  <1>13. \/ pc'[t] = "trigger" /\ Len(todo[t]) > 1 /\ todo'[t] # <<>>
         \/ pc'[t] = "leave" /\ due'[t] = <<>>
         \/ pc'[t] = "poll" /\ due'[t] # <<>> /\ Len(todo[t]) <= 1
    BY <1>2, <1>6, <1>8, <1>9
  <1> QED
    BY <1>1, <1>2, <1>3, <1>4, <1>6, <1>7, <1>10, <1>11, <1>12, <1>13

LEMMA TriggerBase ==
  ASSUME Base, NEW t \in Threads, Trigger(t)
  PROVE  Base'
  <1> DEFINE c  == Head(todo[t]).chip
             no == NextTicket(c)
             d  == [chip |-> c, ticket |-> no]
             S  == /\ pc[t] = "trigger" /\ c \in Numbers /\ no \in TicketNos
                   /\ Head(todo[t]) \in Todos /\ todo' \in [Threads -> Seq(Todos)]
                   /\ slot' = [slot EXCEPT ![c] =
                                 [status  |-> "receive",
                                  request |-> [cmd |-> Head(todo[t]).cmd, ticket |-> no],
                                  answer  |-> NoAnswer]]
                   /\ abandoned' = [abandoned EXCEPT ![c] = Astray(t, c)]
                   /\ UNCHANGED <<adminlock, trigger_type, working, dev_type, op, trusted>>
             D  == \/ due' = due /\ op[t] = "download" /\ c \in Absent
                   \/ due' = [due EXCEPT ![t] = Append(due[t], d)]
             G  == \/ pc'[t] = "trigger" /\ Len(todo[t]) > 1 /\ todo'[t] # <<>>
                   \/ pc'[t] = "leave" /\ due'[t] = <<>>
                   \/ pc'[t] = "poll" /\ due'[t] # <<>> /\ Len(todo[t]) <= 1
             O  == \A u \in Threads \ {t} : pc'[u] = pc[u] /\ todo'[u] = todo[u] /\ due'[u] = due[u]
  <1>1. S /\ D /\ G /\ O /\ pc' \in [Threads -> Places]
    BY TriggerStep
  <1>2. ticket' = [ticket EXCEPT ![c] = no]
    BY DEF Trigger
  <1>3. d \in Dues /\ due \in [Threads -> Seq(Dues)]
    BY <1>1 DEF Dues, Base, TypeOK, CallTypeOK
  <1>4. Append(due[t], d) \in Seq(Dues) /\ Len(Append(due[t], d)) = Len(due[t]) + 1
    BY <1>3, AppendFacts
  <1> HIDE DEF c, no, d
  <1>5. SlotTypeOK'
    <2>1. NoAnswer \in Answers
      BY AdminAssumption DEF NoAnswer, Answers, TicketNos
    <2>2. [cmd |-> Head(todo[t]).cmd, ticket |-> no] \in Requests
      BY <1>1 DEF Requests, Todos
    <2> QED
      BY <1>1, <2>1, <2>2 DEF Base, TypeOK, SlotTypeOK, Statuses
  <1>6. CallTypeOK'
    <2>1. due' \in [Threads -> Seq(Dues)]
      BY <1>1, <1>3, <1>4
    <2> QED
      BY <1>1, <2>1 DEF Base, TypeOK, CallTypeOK, Todos, Dues
  <1>7. HistoryTypeOK'
    <2>1. Astray(t, c) \in BOOLEAN
      BY DEF Astray
    <2>2. abandoned' \in [Numbers -> BOOLEAN]
      BY <1>1, <2>1, Zenon DEF Base, TypeOK, HistoryTypeOK
    <2>3. ticket' \in [Numbers -> TicketNos]
      BY <1>1, <1>2 DEF Base, TypeOK, HistoryTypeOK
    <2> QED
      BY <1>1, <2>2, <2>3 DEF Base, TypeOK, HistoryTypeOK
  <1>8. LockInv' /\ PlaceInv' /\ SingleInv'
    <2>1. \A u \in Threads \ {t} : pc[u] # "leave"
      BY <1>1, OneInside
    <2>2. op[t] # "download" =>
            /\ Len(todo[t]) = 1 /\ due[t] = <<>>
            /\ due'[t] = Append(due[t], d)
      BY <1>1, <1>3 DEF Base, SingleInv
    <2>3. op'[t] # "download" => pc'[t] # "trigger" /\ Len(due'[t]) = 1
      <3>1. due[t] = <<>> => Len(Append(due[t], d)) = 1
        BY <1>4, EmptySeq
      <3>2. op'[t] = op[t]
        BY <1>1
      <3>3. ASSUME op[t] # "download"
            PROVE  pc'[t] # "trigger" /\ Len(due'[t]) = 1
        <4>1. ~(Len(todo[t]) > 1)
          <5>1. \A n : n = 1 => ~(n > 1)
            OBVIOUS
          <5> QED
            BY <2>2, <3>3, <5>1, Zenon
        <4>2. Len(due'[t]) = 1
          BY <2>2, <3>1, <3>3
        <4> QED
          BY <1>1, <4>1, <4>2
      <3> QED
        BY <3>2, <3>3
    <2>4. pc'[t] = "leave" => \A i \in DOMAIN due'[t] : abandoned'[due'[t][i].chip]
      BY <1>1
    <2>5. \A u \in Threads \ {t} : /\ pc'[u] = pc[u] /\ op'[u] = op[u]
                                  /\ todo'[u] = todo[u] /\ due'[u] = due[u]
      BY <1>1
    <2>6. pc'[t] \in Held /\ pc[t] \in Held /\ adminlock' = adminlock
      BY <1>1
    <2>7. /\ pc'[t] = "trigger" => todo'[t] # <<>>
          /\ pc'[t] \in {"poll", "expired"} => due'[t] # <<>>
          /\ pc'[t] \in {"user", "want"} => due'[t] = <<>>
      BY <1>1
    <2> HIDE DEF S, D, G, O
    <2> QED
      BY <1>6, <2>1, <2>3, <2>4, <2>5, <2>6, <2>7, ThreadStep
  <1> QED
    BY <1>5, <1>6, <1>7, <1>8 DEF Base, TypeOK

(* What copying an answer to the host's copy of the trigger type does.     *)
LEMMA CopyTypeStep ==
  ASSUME TypeOK, NEW t \in Threads, NEW c \in Numbers, NEW data \in Words \cup {"none"},
         CopyType(t, c, data)
  PROVE  /\ trigger_type' \in [Numbers -> Words]
         /\ op[t] # "getType" => trigger_type' = trigger_type
         /\ \A x \in Numbers \ {c} : trigger_type'[x] = trigger_type[x]
         /\ op[t] = "getType" /\ data # "none" => trigger_type'[c] = data
  <1>1. trigger_type \in [Numbers -> Words] /\ "none" \notin Words
    BY DEF TypeOK, SlotTypeOK, Words, Types
  <1>2. CASE op[t] = "getType"
    <2>1. PICK value \in Words : /\ trigger_type' = [trigger_type EXCEPT ![c] = value]
                                 /\ data # "none" => value = data
      BY <1>2 DEF CopyType
    <2> QED
      BY <1>1, <1>2, <2>1
  <1>3. CASE op[t] # "getType"
    BY <1>1, <1>3 DEF CopyType
  <1> QED
    BY <1>2, <1>3

(* The chips of the commands that a call has still to fetch after the one  *)
(* it polls.                                                               *)
Rest(t) == {due[t][i].chip : i \in 2..Len(due[t])}

(* The chip whose answer a call polls for.                                 *)
Polled(t) == Head(due[t]).chip

(* What taking an answer changes.                                          *)
LEMMA FetchStep ==
  ASSUME Base, NEW t \in Threads, Fetch(t)
  PROVE  /\ pc[t] = "poll" /\ Polled(t) \in Numbers /\ 1 \in DOMAIN due[t] /\ Polled(t) = due[t][1].chip
         /\ slot[Polled(t)].status = "complete" /\ slot[Polled(t)].answer \in Answers
         /\ slot' = [slot EXCEPT ![Polled(t)].status = "idle"]
         /\ CopyType(t, Polled(t), slot[Polled(t)].answer.data)
         /\ due[t] \in Seq(Dues) /\ due[t] # <<>> /\ due' \in [Threads -> Seq(Dues)]
         /\ due'[t] = Tail(due[t])
         /\ trusted' = [trusted EXCEPT ![Polled(t)] = IF op[t] \in TypeOps
                                              THEN slot[Polled(t)].answer.ok /\ ~abandoned[Polled(t)] ELSE @]
         /\ \/ /\ slot[Polled(t)].answer.ok /\ abandoned' = abandoned
               /\ \/ pc'[t] = "poll" /\ Len(due[t]) > 1
                  \/ pc'[t] = "leave" /\ Len(due[t]) = 1
            \/ /\ ~slot[Polled(t)].answer.ok /\ pc'[t] = "leave"
               /\ abandoned' = [x \in Numbers |-> abandoned[x] \/ x \in Rest(t)]
         /\ pc' \in [Threads -> Places]
         /\ \A u \in Threads \ {t} : pc'[u] = pc[u] /\ due'[u] = due[u]
         /\ UNCHANGED <<adminlock, working, dev_type, op, todo, ticket>>
  <1> DEFINE c == Polled(t)
  <1>1. /\ pc[t] = "poll" /\ slot[c].status = "complete"
        /\ slot' = [slot EXCEPT ![c].status = "idle"]
        /\ TakeAnswer(t, c, slot[c].answer)
    BY DEF Fetch, Polled
  <1>2. /\ pc \in [Threads -> Places] /\ due \in [Threads -> Seq(Dues)]
        /\ due[t] \in Seq(Dues) /\ due[t] # <<>>
    BY <1>1 DEF Base, TypeOK, CallTypeOK, PlaceInv, Dues
  <1>3. /\ Tail(due[t]) \in Seq(Dues) /\ Len(due[t]) \in Nat \ {0}
        /\ Head(due[t]) = due[t][1] /\ Head(due[t]) \in Dues /\ 1 \in DOMAIN due[t]
    BY <1>2, TailFacts
  <1>4. c \in Numbers /\ c = due[t][1].chip
    BY <1>3 DEF Dues, Polled
  <1> HIDE DEF c
  <1>5. slot[c].answer \in Answers
    BY <1>4 DEF Base, TypeOK, SlotTypeOK
  <1>6. due' = [due EXCEPT ![t] = Tail(due[t])]
    BY <1>1 DEF TakeAnswer
  <1>7. /\ due' \in [Threads -> Seq(Dues)] /\ due'[t] = Tail(due[t])
        /\ \A u \in Threads \ {t} : due'[u] = due[u]
    BY <1>2, <1>3, <1>6
  <1>8. \/ /\ slot[c].answer.ok /\ abandoned' = abandoned
           /\ pc' = [pc EXCEPT ![t] = IF Len(due[t]) > 1 THEN "poll" ELSE "leave"]
        \/ /\ ~slot[c].answer.ok /\ pc' = [pc EXCEPT ![t] = "leave"]
           /\ abandoned' = [x \in Numbers |-> abandoned[x] \/ x \in Rest(t)]
    BY <1>1, Zenon DEF TakeAnswer, Goto, Forsake, Rest
  <1>9. pc' \in [Threads -> Places] /\ \A u \in Threads \ {t} : pc'[u] = pc[u]
    BY <1>2, <1>8 DEF Places
  <1>10. \/ /\ slot[c].answer.ok /\ abandoned' = abandoned
            /\ \/ pc'[t] = "poll" /\ Len(due[t]) > 1
               \/ pc'[t] = "leave" /\ Len(due[t]) = 1
         \/ /\ ~slot[c].answer.ok /\ pc'[t] = "leave"
            /\ abandoned' = [x \in Numbers |-> abandoned[x] \/ x \in Rest(t)]
    <2>1. /\ pc' = [pc EXCEPT ![t] = IF Len(due[t]) > 1 THEN "poll" ELSE "leave"] =>
               \/ pc'[t] = "poll" /\ Len(due[t]) > 1
               \/ pc'[t] = "leave" /\ Len(due[t]) = 1
          /\ pc' = [pc EXCEPT ![t] = "leave"] => pc'[t] = "leave"
      <3>1. Len(due[t]) > 1 \/ Len(due[t]) = 1
        <4>1. \A n \in Nat \ {0} : n > 1 \/ n = 1
          OBVIOUS
        <4> QED
          BY <1>3, <4>1, Zenon
      <3>2. pc \in [Threads -> Places]
        BY <1>2
      <3> QED
        BY <3>1, <3>2
    <2> QED
      BY <1>8, <2>1, Zenon
  <1>11. /\ CopyType(t, c, slot[c].answer.data)
         /\ trusted' = [trusted EXCEPT ![c] = IF op[t] \in TypeOps
                                              THEN slot[c].answer.ok /\ ~abandoned[c] ELSE @]
         /\ UNCHANGED <<adminlock, working, dev_type, op, todo, ticket>>
    BY <1>1 DEF TakeAnswer
  <1> QED
    BY <1>1, <1>2, <1>3, <1>4, <1>5, <1>7, <1>9, <1>10, <1>11 DEF c

LEMMA FetchBase ==
  ASSUME Base, NEW t \in Threads, Fetch(t)
  PROVE  Base'
  <1> DEFINE c == Polled(t)
  <1>1. /\ pc[t] = "poll" /\ c \in Numbers
        /\ slot[c].answer \in Answers
        /\ slot' = [slot EXCEPT ![c].status = "idle"]
        /\ CopyType(t, c, slot[c].answer.data)
        /\ due[t] \in Seq(Dues) /\ due[t] # <<>> /\ due' \in [Threads -> Seq(Dues)]
        /\ due'[t] = Tail(due[t])
        /\ trusted' = [trusted EXCEPT ![c] = IF op[t] \in TypeOps
                                             THEN slot[c].answer.ok /\ ~abandoned[c] ELSE @]
        /\ \/ /\ slot[c].answer.ok /\ abandoned' = abandoned
              /\ \/ pc'[t] = "poll" /\ Len(due[t]) > 1
                 \/ pc'[t] = "leave" /\ Len(due[t]) = 1
           \/ /\ ~slot[c].answer.ok /\ pc'[t] = "leave"
              /\ abandoned' = [x \in Numbers |-> abandoned[x] \/ x \in Rest(t)]
        /\ pc' \in [Threads -> Places]
        /\ \A u \in Threads \ {t} : pc'[u] = pc[u] /\ due'[u] = due[u]
        /\ UNCHANGED <<adminlock, working, dev_type, op, todo, ticket>>
    BY FetchStep
  <1>2. /\ Len(due[t]) \in Nat \ {0}
        /\ DOMAIN Tail(due[t]) = 1..(Len(due[t]) - 1)
        /\ \A i \in DOMAIN Tail(due[t]) : i + 1 \in DOMAIN due[t] /\ Tail(due[t])[i] = due[t][i + 1]
        /\ Len(due[t]) > 1 => Tail(due[t]) # <<>>
        /\ Len(due[t]) = 1 => Tail(due[t]) = <<>>
    BY <1>1, TailFacts
  <1>3. \A i \in DOMAIN due'[t] : due'[t][i].chip \in Rest(t) /\ due'[t][i].chip \in Numbers
    <2> SUFFICES ASSUME NEW i \in DOMAIN due'[t]
                 PROVE  due'[t][i].chip \in Rest(t) /\ due'[t][i].chip \in Numbers
      OBVIOUS
    <2>1. i \in 1..(Len(due[t]) - 1) /\ due'[t][i] = due[t][i + 1] /\ i + 1 \in DOMAIN due[t]
      BY <1>1, <1>2
    <2>2. i + 1 \in 2..Len(due[t])
      BY <1>2, <2>1
    <2>3. due[t][i + 1] \in Dues
      BY <1>1, <2>1
    <2> QED
      BY <2>1, <2>2, <2>3 DEF Dues, Rest
  <1> HIDE DEF c
  <1>4. SlotTypeOK'
    <2>1. trigger_type' \in [Numbers -> Words]
      BY <1>1, CopyTypeStep DEF Base, Answers
    <2>2. slot' \in [Numbers -> [status : Statuses, request : Requests, answer : Answers]]
      <3>1. slot \in [Numbers -> [status : Statuses, request : Requests, answer : Answers]]
        BY DEF Base, TypeOK, SlotTypeOK
      <3>2. [slot[c] EXCEPT !.status = "idle"] \in [status : Statuses, request : Requests, answer : Answers]
        BY <1>1, <3>1 DEF Statuses
      <3> QED
        BY <1>1, <3>1, <3>2
    <2> QED
      BY <1>1, <2>1, <2>2 DEF Base, TypeOK, SlotTypeOK
  <1>5. CallTypeOK'
    BY <1>1 DEF Base, TypeOK, CallTypeOK, Dues
  <1>6. HistoryTypeOK'
    <2>1. abandoned \in [Numbers -> BOOLEAN] /\ trusted \in [Numbers -> BOOLEAN]
      BY DEF Base, TypeOK, HistoryTypeOK
    <2>2. abandoned' \in [Numbers -> BOOLEAN]
      BY <1>1, <2>1
    <2>3. (IF op[t] \in TypeOps THEN slot[c].answer.ok /\ ~abandoned[c] ELSE trusted[c]) \in BOOLEAN
      BY <1>1, <2>1 DEF Answers
    <2>4. trusted' \in [Numbers -> BOOLEAN]
      BY <1>1, <2>1, <2>3
    <2> QED
      BY <1>1, <2>2, <2>4 DEF Base, TypeOK, HistoryTypeOK
  <1>7. LockInv' /\ PlaceInv' /\ SingleInv'
    <2>1. \A u \in Threads \ {t} : pc[u] # "leave"
      BY <1>1, OneInside
    <2>2. op[t] # "download" => pc'[t] = "leave"
      <3>1. op[t] # "download" => Len(due[t]) = 1
        BY <1>1, Zenon DEF Base, SingleInv
      <3>2. op[t] # "download" => ~(Len(due[t]) > 1)
        <4>1. \A n : n = 1 => ~(n > 1)
          OBVIOUS
        <4> QED
          BY <3>1, <4>1, Zenon
      <3> QED
        BY <1>1, <3>2, Zenon
    <2>3. pc'[t] = "leave" => \A i \in DOMAIN due'[t] : abandoned'[due'[t][i].chip]
      <3>1. CASE Len(due[t]) = 1
        BY <1>1, <1>2, <3>1
      <3>2. CASE abandoned' = [x \in Numbers |-> abandoned[x] \/ x \in Rest(t)]
        BY <1>3, <3>2
      <3> QED
        BY <1>1, <3>1, <3>2
    <2>4. pc'[t] \in {"poll", "leave"} /\ (pc'[t] = "poll" => due'[t] # <<>>)
      BY <1>1, <1>2
    <2>5. \A u \in Threads \ {t} : /\ pc'[u] = pc[u] /\ op'[u] = op[u]
                                  /\ todo'[u] = todo[u] /\ due'[u] = due[u]
      BY <1>1
    <2>6. adminlock' = adminlock /\ op' = op /\ pc[t] = "poll"
      BY <1>1
    <2> QED
      BY <1>5, <2>1, <2>2, <2>3, <2>4, <2>5, <2>6, ThreadStep
  <1> QED
    BY <1>4, <1>5, <1>6, <1>7 DEF Base, TypeOK

LEMMA ExpireBase ==
  ASSUME Base, NEW t \in Threads, Expire(t)
  PROVE  Base'
  <1>1. /\ pc[t] = "poll" /\ pc' = [pc EXCEPT ![t] = "expired"]
        /\ UNCHANGED <<adminlock, trigger_type, slot, working, dev_type, op, todo, due,
                       ticket, abandoned, trusted>>
    BY DEF Expire, Goto, history
  <1>2. pc' \in [Threads -> Places] /\ pc'[t] = "expired" /\ \A u \in Threads \ {t} : pc'[u] = pc[u]
    BY <1>1 DEF Base, TypeOK, CallTypeOK, Places
  <1>3. TypeOK'
    BY <1>1, <1>2 DEF Base, TypeOK, SlotTypeOK, CallTypeOK, HistoryTypeOK
  <1>4. \A u \in Threads \ {t} : pc[u] # "leave"
    BY <1>1, OneInside
  <1>5. due[t] # <<>> /\ (op[t] # "download" => Len(due[t]) = 1)
    BY <1>1 DEF Base, PlaceInv, SingleInv
  <1>6. LockInv' /\ PlaceInv' /\ SingleInv'
    BY <1>1, <1>2, <1>3, <1>4, <1>5, ThreadStep DEF TypeOK
  <1> QED
    BY <1>3, <1>6 DEF Base

(* What giving a command up changes.                                       *)
LEMMA GiveUpStep ==
  ASSUME Base, NEW t \in Threads, GiveUp(t)
  PROVE  /\ pc[t] = "expired" /\ Polled(t) \in Numbers /\ 1 \in DOMAIN due[t]
         /\ Polled(t) = due[t][1].chip
         /\ slot' = [slot EXCEPT ![Polled(t)].status = "idle"]
         /\ CopyType(t, Polled(t), "none")
         /\ abandoned' = [x \in Numbers |-> abandoned[x] \/ x \in DueChips(t)]
         /\ due[t] \in Seq(Dues) /\ due[t] # <<>> /\ due' \in [Threads -> Seq(Dues)]
         /\ due'[t] = Tail(due[t])
         /\ pc' \in [Threads -> Places] /\ pc'[t] = "leave"
         /\ \A u \in Threads \ {t} : pc'[u] = pc[u] /\ due'[u] = due[u]
         /\ UNCHANGED <<adminlock, working, dev_type, op, todo, ticket, trusted>>
  <1>1. /\ pc[t] = "expired" /\ pc' = [pc EXCEPT ![t] = "leave"]
        /\ slot' = [slot EXCEPT ![Polled(t)].status = "idle"]
        /\ CopyType(t, Polled(t), "none")
        /\ abandoned' = [x \in Numbers |-> abandoned[x] \/ x \in DueChips(t)]
        /\ due' = [due EXCEPT ![t] = Tail(due[t])]
        /\ UNCHANGED <<adminlock, working, dev_type, op, todo, ticket, trusted>>
    BY DEF GiveUp, Goto, Forsake, Polled
  <1>2. /\ pc \in [Threads -> Places] /\ due \in [Threads -> Seq(Dues)]
        /\ due[t] \in Seq(Dues) /\ due[t] # <<>>
    BY <1>1 DEF Base, TypeOK, CallTypeOK, PlaceInv, Dues
  <1>3. /\ Tail(due[t]) \in Seq(Dues) /\ 1 \in DOMAIN due[t]
        /\ Head(due[t]) = due[t][1] /\ Head(due[t]) \in Dues
    BY <1>2, TailFacts
  <1>4. Polled(t) \in Numbers /\ Polled(t) = due[t][1].chip
    BY <1>3 DEF Dues, Polled
  <1>5. /\ due' \in [Threads -> Seq(Dues)] /\ due'[t] = Tail(due[t])
        /\ \A u \in Threads \ {t} : due'[u] = due[u]
    BY <1>1, <1>2, <1>3
  <1>6. /\ pc' \in [Threads -> Places] /\ pc'[t] = "leave"
        /\ \A u \in Threads \ {t} : pc'[u] = pc[u]
    BY <1>1, <1>2 DEF Places
  <1> QED
    BY <1>1, <1>2, <1>3, <1>4, <1>5, <1>6

(* The chips of the commands left after the first one.                     *)
LEMMA TailChips ==
  ASSUME NEW t \in Threads, due[t] \in Seq(Dues), due[t] # <<>>, due'[t] = Tail(due[t])
  PROVE  \A i \in DOMAIN due'[t] : /\ i + 1 \in DOMAIN due[t] /\ i + 1 # 1
                                   /\ due'[t][i] = due[t][i + 1]
                                   /\ due'[t][i] \in Dues
                                   /\ due'[t][i].chip \in Numbers
                                   /\ due'[t][i].chip \in DueChips(t)
                                   /\ due'[t][i].chip \in Rest(t)
  <1> SUFFICES ASSUME NEW i \in DOMAIN due'[t]
               PROVE  /\ i + 1 \in DOMAIN due[t] /\ i + 1 # 1
                      /\ due'[t][i] = due[t][i + 1]
                      /\ due'[t][i] \in Dues
                      /\ due'[t][i].chip \in Numbers
                      /\ due'[t][i].chip \in DueChips(t)
                      /\ due'[t][i].chip \in Rest(t)
    OBVIOUS
  <1>1. /\ Len(due[t]) \in Nat \ {0} /\ DOMAIN Tail(due[t]) = 1..(Len(due[t]) - 1)
        /\ \A j \in DOMAIN Tail(due[t]) : j + 1 \in DOMAIN due[t] /\ Tail(due[t])[j] = due[t][j + 1]
    BY TailFacts
  <1>2. i \in 1..(Len(due[t]) - 1) /\ due'[t][i] = due[t][i + 1] /\ i + 1 \in DOMAIN due[t]
    BY <1>1
  <1>3. i + 1 \in 2..Len(due[t]) /\ i + 1 # 1
    BY <1>1, <1>2
  <1>4. due[t][i + 1] \in Dues
    BY <1>2
  <1> QED
    BY <1>2, <1>3, <1>4 DEF Dues, Rest, DueChips

LEMMA GiveUpBase ==
  ASSUME Base, NEW t \in Threads, GiveUp(t)
  PROVE  Base'
  <1> DEFINE c == Polled(t)
  <1>1. /\ pc[t] = "expired" /\ c \in Numbers
        /\ slot' = [slot EXCEPT ![c].status = "idle"]
        /\ CopyType(t, c, "none")
        /\ abandoned' = [x \in Numbers |-> abandoned[x] \/ x \in DueChips(t)]
        /\ due[t] \in Seq(Dues) /\ due[t] # <<>> /\ due' \in [Threads -> Seq(Dues)]
        /\ due'[t] = Tail(due[t])
        /\ pc' \in [Threads -> Places] /\ pc'[t] = "leave"
        /\ \A u \in Threads \ {t} : pc'[u] = pc[u] /\ due'[u] = due[u]
        /\ UNCHANGED <<adminlock, working, dev_type, op, todo, ticket, trusted>>
    BY GiveUpStep
  <1> HIDE DEF c
  <1>2. SlotTypeOK'
    <2>1. trigger_type' \in [Numbers -> Words]
      BY <1>1, CopyTypeStep DEF Base
    <2>2. slot' \in [Numbers -> [status : Statuses, request : Requests, answer : Answers]]
      <3>1. slot \in [Numbers -> [status : Statuses, request : Requests, answer : Answers]]
        BY DEF Base, TypeOK, SlotTypeOK
      <3>2. [slot[c] EXCEPT !.status = "idle"] \in [status : Statuses, request : Requests, answer : Answers]
        BY <1>1, <3>1 DEF Statuses
      <3> QED
        BY <1>1, <3>1, <3>2
    <2> QED
      BY <1>1, <2>1, <2>2 DEF Base, TypeOK, SlotTypeOK
  <1>3. CallTypeOK'
    BY <1>1 DEF Base, TypeOK, CallTypeOK, Dues
  <1>4. HistoryTypeOK'
    <2>1. abandoned' \in [Numbers -> BOOLEAN]
      BY <1>1 DEF Base, TypeOK, HistoryTypeOK
    <2> QED
      BY <1>1, <2>1 DEF Base, TypeOK, HistoryTypeOK
  <1>5. LockInv' /\ PlaceInv' /\ SingleInv'
    <2>1. \A u \in Threads \ {t} : pc[u] # "leave"
      BY <1>1, OneInside
    <2>2. \A i \in DOMAIN due'[t] : abandoned'[due'[t][i].chip]
      BY <1>1, TailChips
    <2>3. \A u \in Threads \ {t} : /\ pc'[u] = pc[u] /\ op'[u] = op[u]
                                  /\ todo'[u] = todo[u] /\ due'[u] = due[u]
      BY <1>1
    <2>4. adminlock' = adminlock /\ pc[t] = "expired" /\ pc'[t] = "leave"
      BY <1>1
    <2> QED
      BY <1>3, <2>1, <2>2, <2>3, <2>4, ThreadStep
  <1> QED
    BY <1>2, <1>3, <1>4, <1>5 DEF Base, TypeOK

LEMMA LeaveBase ==
  ASSUME Base, NEW t \in Threads, Leave(t)
  PROVE  Base'
  <1>1. /\ pc[t] = "leave" /\ adminlock' = Free
        /\ op' = [op EXCEPT ![t] = "feature"] /\ due' = [due EXCEPT ![t] = <<>>]
        /\ pc' = [pc EXCEPT ![t] = "user"]
        /\ UNCHANGED <<trigger_type, slot, working, dev_type, todo, ticket, abandoned, trusted>>
    BY DEF Leave, Goto, history
  <1>2. <<>> \in Seq(Dues)
    OBVIOUS
  <1>3. CallTypeOK'
    BY <1>1, <1>2 DEF Base, TypeOK, CallTypeOK, Places, OpNames, Dues
  <1>4. TypeOK'
    BY <1>1, <1>3 DEF Base, TypeOK, SlotTypeOK, HistoryTypeOK
  <1>5. /\ pc'[t] = "user" /\ due'[t] = <<>>
        /\ \A u \in Threads \ {t} : /\ pc'[u] = pc[u] /\ op'[u] = op[u]
                                   /\ todo'[u] = todo[u] /\ due'[u] = due[u]
    BY <1>1 DEF Base, TypeOK, CallTypeOK
  <1>6. \A u \in Threads \ {t} : pc[u] # "leave"
    BY <1>1, OneInside
  <1>7. LockInv' /\ PlaceInv' /\ SingleInv'
    BY <1>1, <1>3, <1>5, <1>6, ThreadStep
  <1> QED
    BY <1>4, <1>7 DEF Base

(* The firmware's steps touch only the slots and its own state.            *)
LEMMA FwTakeBase ==
  ASSUME Base, NEW c \in Chips, FwTake(c)
  PROVE  /\ Base'
         /\ slot[c].request \in Requests /\ slot[c].request # Free
  <1>1. /\ slot[c].status = "receive" /\ working[c] = Free
        /\ working' = [working EXCEPT ![c] = slot[c].request]
        /\ slot' = [slot EXCEPT ![c].status = "process"]
        /\ UNCHANGED <<adminlock, trigger_type, dev_type, pc, op, todo, due, ticket, abandoned, trusted>>
    BY DEF FwTake, callVars, history
  <1>2. slot \in [Numbers -> [status : Statuses, request : Requests, answer : Answers]] /\ c \in Numbers
    BY DEF Base, TypeOK, SlotTypeOK, Numbers
  <1>3. slot[c].request \in Requests /\ slot[c].request # Free
    BY <1>2, AdminAssumption
  <1>4. slot' \in [Numbers -> [status : Statuses, request : Requests, answer : Answers]]
    <2>1. [slot[c] EXCEPT !.status = "process"] \in [status : Statuses, request : Requests, answer : Answers]
      BY <1>2 DEF Statuses
    <2> QED
      BY <1>1, <1>2, <2>1
  <1>5. working' \in [Chips -> Requests \cup {Free}]
    BY <1>1, <1>3 DEF Base, TypeOK, SlotTypeOK
  <1>6. TypeOK'
    BY <1>1, <1>4, <1>5 DEF Base, TypeOK, SlotTypeOK, CallTypeOK, HistoryTypeOK
  <1>7. LockInv' /\ PlaceInv' /\ SingleInv'
    BY <1>1 DEF Base, LockInv, PlaceInv, SingleInv, DueChips
  <1> QED
    BY <1>3, <1>6, <1>7 DEF Base

(* What the end of a command changes: the slot's status and answer, the    *)
(* firmware's trigger type if it was a set that succeeded.                 *)
LEMMA FwDoneStep ==
  ASSUME Base, NEW c \in Chips, FwDone(c)
  PROVE  /\ working[c] # Free /\ working[c] \in Requests
         /\ working' = [working EXCEPT ![c] = Free]
         /\ \E answer \in Answers :
              /\ slot' = [slot EXCEPT ![c] = [@ EXCEPT !.status = "complete", !.answer = answer]]
              /\ answer.ticket = working[c].ticket
              /\ answer.ok /\ working[c].cmd = "get" => answer.data = dev_type[c]
              /\ dev_type' = IF answer.ok /\ working[c].cmd \in Words
                             THEN [dev_type EXCEPT ![c] = working[c].cmd] ELSE dev_type
         /\ UNCHANGED <<adminlock, trigger_type, pc, op, todo, due, ticket, abandoned, trusted>>
  <1>1. /\ working[c] # Free /\ working' = [working EXCEPT ![c] = Free]
        /\ UNCHANGED <<adminlock, trigger_type, pc, op, todo, due, ticket, abandoned, trusted>>
    BY DEF FwDone, callVars, history
  <1>2. working[c] \in Requests /\ dev_type[c] \in Words
    BY <1>1 DEF Base, TypeOK, SlotTypeOK
  <1> DEFINE Answer(ok) == [ok     |-> ok,
                            data   |-> IF ok /\ working[c].cmd = "get" THEN dev_type[c] ELSE "none",
                            ticket |-> working[c].ticket]
  <1>3. PICK ok \in BOOLEAN :
          /\ dev_type' = IF ok /\ working[c].cmd \in Words
                         THEN [dev_type EXCEPT ![c] = working[c].cmd] ELSE dev_type
          /\ slot' = [slot EXCEPT ![c].status = "complete", ![c].answer = Answer(ok)]
    BY DEF FwDone
  <1>4. Answer(ok) \in Answers
    BY <1>2 DEF Requests, Answers
  <1>5. slot' = [slot EXCEPT ![c] = [@ EXCEPT !.status = "complete", !.answer = Answer(ok)]]
    <2>1. c \in Numbers /\ slot \in [Numbers -> [status : Statuses, request : Requests, answer : Answers]]
      BY DEF Base, TypeOK, SlotTypeOK, Numbers
    <2> HIDE DEF Answer
    <2> QED
      BY <1>3, <2>1
  <1>6. Answer(ok).ok = ok /\ Answer(ok).ticket = working[c].ticket
        /\ (ok /\ working[c].cmd = "get" => Answer(ok).data = dev_type[c])
    OBVIOUS
  <1> HIDE DEF Answer
  <1>7. dev_type' = IF Answer(ok).ok /\ working[c].cmd \in Words
                    THEN [dev_type EXCEPT ![c] = working[c].cmd] ELSE dev_type
    BY <1>3, <1>6
  <1> QED
    BY <1>1, <1>2, <1>4, <1>5, <1>6, <1>7

LEMMA FwDoneBase ==
  ASSUME Base, NEW c \in Chips, FwDone(c)
  PROVE  Base'
  <1>1. /\ working[c] # Free /\ working[c] \in Requests
        /\ working' = [working EXCEPT ![c] = Free]
        /\ UNCHANGED <<adminlock, trigger_type, pc, op, todo, due, ticket, abandoned, trusted>>
    BY FwDoneStep
  <1>2. PICK answer \in Answers :
          /\ slot' = [slot EXCEPT ![c] = [@ EXCEPT !.status = "complete", !.answer = answer]]
          /\ dev_type' = IF answer.ok /\ working[c].cmd \in Words
                         THEN [dev_type EXCEPT ![c] = working[c].cmd] ELSE dev_type
    BY FwDoneStep
  <1>3. slot' \in [Numbers -> [status : Statuses, request : Requests, answer : Answers]]
    <2>1. slot \in [Numbers -> [status : Statuses, request : Requests, answer : Answers]] /\ c \in Numbers
      BY DEF Base, TypeOK, SlotTypeOK, Numbers
    <2>2. [slot[c] EXCEPT !.status = "complete", !.answer = answer] \in
            [status : Statuses, request : Requests, answer : Answers]
      BY <2>1 DEF Statuses
    <2> QED
      BY <1>2, <2>1, <2>2
  <1>4. dev_type' \in [Chips -> Words] /\ working' \in [Chips -> Requests \cup {Free}]
    BY <1>1, <1>2 DEF Base, TypeOK, SlotTypeOK
  <1>5. TypeOK'
    BY <1>1, <1>3, <1>4 DEF Base, TypeOK, SlotTypeOK, CallTypeOK, HistoryTypeOK
  <1>6. LockInv' /\ PlaceInv' /\ SingleInv'
    BY <1>1 DEF Base, LockInv, PlaceInv, SingleInv, DueChips
  <1> QED
    BY <1>5, <1>6 DEF Base

LEMMA StutterBase ==
  ASSUME Base, UNCHANGED vars
  PROVE  Base'
  <1> USE DEF vars, callVars, history
  <1>1. TypeOK'
    <2>1. SlotTypeOK'
      BY DEF Base, TypeOK, SlotTypeOK
    <2>2. CallTypeOK'
      BY DEF Base, TypeOK, CallTypeOK
    <2>3. HistoryTypeOK'
      BY DEF Base, TypeOK, HistoryTypeOK
    <2> QED
      BY <2>1, <2>2, <2>3 DEF TypeOK
  <1>2. LockInv' /\ PlaceInv' /\ SingleInv'
    BY DEF Base, LockInv, PlaceInv, SingleInv, DueChips
  <1> QED
    BY <1>1, <1>2 DEF Base

LEMMA NextBase == Base /\ [Next]_vars => Base'
  BY EnterBase, BeginBase, TriggerBase, FetchBase, ExpireBase, GiveUpBase, LeaveBase,
     FwTakeBase, FwDoneBase, StutterBase DEF Next, Inside

LEMMA BaseAlways == Spec => []Base
  BY InitBase, NextBase, PTL DEF Spec

-----------------------------------------------------------------------------
(* Layer Slots.                                                            *)

LEMMA InitSlots == Init => SlotInv
  <1> SUFFICES ASSUME Init, NEW c \in Numbers
               PROVE  Settled(c)
    BY DEF SlotInv
  <1>1. slot[c].status = "idle" /\ (c \in Chips => working[c] = Free)
        /\ \A t \in Threads : due[t] = <<>>
    BY DEF Init
  <1> QED
    BY <1>1 DEF Settled, Owned, Busy

(* Nothing is settled in another way when slots, commands and the lock are *)
(* left alone.                                                             *)
LEMMA SameSlots ==
  ASSUME SlotInv, UNCHANGED <<adminlock, slot, working, due, abandoned>>
  PROVE  SlotInv'
  BY DEF SlotInv, Settled, Owned, Busy, Awaited, DueChips

LEMMA BeginSlots ==
  ASSUME Slots, NEW t \in Threads, Lock(t)
  PROVE  SlotInv'
  <1>1. adminlock = Free /\ UNCHANGED <<slot, working, due, abandoned>>
    BY DEF Lock, Begin
  <1>2. Free \notin Threads
    BY AdminAssumption
  <1> QED
    BY <1>1, <1>2 DEF Slots, SlotInv, Settled, Owned, Busy, Awaited, DueChips

LEMMA LeaveSlots ==
  ASSUME Slots, NEW t \in Threads, Leave(t)
  PROVE  SlotInv'
  <1>1. /\ pc[t] = "leave" /\ due' = [due EXCEPT ![t] = <<>>]
        /\ UNCHANGED <<slot, working, abandoned>>
    BY DEF Leave, history
  <1>2. adminlock = t /\ \A c \in DueChips(t) : abandoned[c]
    BY <1>1, OneInside DEF Slots, Base, PlaceInv
  <1> SUFFICES ASSUME NEW c \in Numbers, ~abandoned'[c]
               PROVE  Settled(c)'
    BY DEF SlotInv
  <1>3. Settled(c) /\ ~abandoned[c]
    BY <1>1 DEF Slots, SlotInv
  <1>4. slot[c].status = "idle"
    BY <1>2, <1>3 DEF Settled, Owned
  <1>5. \A u \in Threads : due'[u] = <<>> \/ (u # t /\ due'[u] = due[u])
    BY <1>1 DEF Slots, Base, TypeOK, CallTypeOK
  <1> QED
    BY <1>1, <1>3, <1>4, <1>5 DEF Settled, Owned, Busy, Awaited

LEMMA TriggerSlots ==
  ASSUME Slots, NEW t \in Threads, Trigger(t)
  PROVE  SlotInv'
  <1> DEFINE c  == Head(todo[t]).chip
             no == NextTicket(c)
             d  == [chip |-> c, ticket |-> no]
  <1>1. /\ pc[t] = "trigger" /\ c \in Numbers /\ no \in TicketNos
        /\ slot' = [slot EXCEPT ![c] = [status  |-> "receive",
                                        request |-> [cmd |-> Head(todo[t]).cmd, ticket |-> no],
                                        answer  |-> NoAnswer]]
        /\ abandoned' = [abandoned EXCEPT ![c] = Astray(t, c)]
        /\ \/ due' = due /\ op[t] = "download" /\ c \in Absent
           \/ due' = [due EXCEPT ![t] = Append(due[t], d)]
        /\ \A u \in Threads \ {t} : due'[u] = due[u]
        /\ UNCHANGED <<adminlock, working>>
    BY TriggerStep DEF Slots
  <1>2. d \in Dues /\ due \in [Threads -> Seq(Dues)] /\ due[t] \in Seq(Dues)
    BY <1>1 DEF Dues, Slots, Base, TypeOK, CallTypeOK
  <1>3. /\ adminlock = t
        /\ \A u \in Threads \ {t} : due[u] = <<>> /\ due'[u] = <<>>
    BY <1>1, OneInside DEF Slots
  <1>4. /\ slot \in [Numbers -> [status : Statuses, request : Requests, answer : Answers]]
        /\ abandoned \in [Numbers -> BOOLEAN]
    BY DEF Slots, Base, TypeOK, SlotTypeOK, HistoryTypeOK
  <1>5. d.chip = c /\ d.ticket = no
    OBVIOUS
  <1>6. /\ Len(due[t]) \in Nat /\ DOMAIN due[t] = 1..Len(due[t])
        /\ DOMAIN Append(due[t], d) = 1..(Len(due[t]) + 1)
        /\ Append(due[t], d)[Len(due[t]) + 1] = d
        /\ \A i \in DOMAIN due[t] : Append(due[t], d)[i] = due[t][i]
    BY <1>2, AppendFacts
  <1> HIDE DEF c, no, d
  <1> SUFFICES ASSUME NEW x \in Numbers, ~abandoned'[x]
               PROVE  Settled(x)'
    BY DEF SlotInv
  <1>7. CASE x # c
    <2>1. slot'[x] = slot[x] /\ abandoned'[x] = abandoned[x]
      BY <1>1, <1>4, <1>7
    <2>2. Settled(x)
      BY <2>1 DEF Slots, SlotInv
    <2>3. \A i \in DOMAIN due'[t] : due'[t][i].chip = x => i \in DOMAIN due[t] /\ due'[t][i] = due[t][i]
      BY <1>1, <1>2, <1>5, <1>6, <1>7
    <2>4. \A i \in DOMAIN due[t] : i \in DOMAIN due'[t] /\ due'[t][i] = due[t][i]
      BY <1>1, <1>2, <1>6
    <2>5. Owned(x)'
      BY <1>1, <1>3, <2>1, <2>2, <2>4 DEF Settled, Owned, DueChips
    <2>6. Busy(x)'
      BY <1>1, <2>1, <2>2 DEF Settled, Busy
    <2>7. ASSUME NEW u \in Threads, NEW i \in DOMAIN due'[u], due'[u][i].chip = x
          PROVE  Awaited(u, i, x)'
      <3>1. u = t
        BY <1>3, <2>7
      <3>2. i \in DOMAIN due[t] /\ due'[t][i] = due[t][i] /\ due[t][i].chip = x
        BY <2>3, <2>7, <3>1
      <3>3. Awaited(t, i, x)
        BY <2>2, <3>2 DEF Settled
      <3> QED
        BY <1>1, <2>1, <2>3, <3>1, <3>2, <3>3 DEF Awaited
    <2> QED
      BY <2>5, <2>6, <2>7 DEF Settled
  <1>8. CASE x = c
    <2>1. ~Astray(t, x)
      BY <1>1, <1>4, <1>8
    <2>2. x \in Chips /\ x \notin DueChips(t) /\ working[x] = Free /\ x \notin Absent
      BY <2>1 DEF Astray, Numbers
    <2>3. due'[t] = Append(due[t], d)
      BY <1>1, <1>2, <1>8, <2>2
    <2>4. slot'[x].status = "receive" /\ slot'[x].request.ticket = no
      BY <1>1, <1>4, <1>8
    <2>5. \A i \in DOMAIN due[t] : due[t][i].chip # x
      BY <2>2 DEF DueChips
    <2>6. \A i \in DOMAIN due'[t] : due'[t][i].chip = x => i = Len(due[t]) + 1 /\ due'[t][i] = d
      BY <1>6, <2>3, <2>5
    <2>7. Len(due[t]) + 1 \in DOMAIN due'[t] /\ due'[t][Len(due[t]) + 1].chip = x
      BY <1>5, <1>6, <1>8, <2>3
    <2>8. Owned(x)'
      BY <1>1, <1>3, <2>2, <2>7 DEF Owned, DueChips
    <2>9. Busy(x)'
      BY <1>1, <2>2, <2>4 DEF Busy
    <2>10. ASSUME NEW u \in Threads, NEW i \in DOMAIN due'[u], due'[u][i].chip = x
           PROVE  Awaited(u, i, x)'
      <3>1. u = t
        BY <1>3, <2>10
      <3>2. i = Len(due[t]) + 1 /\ due'[u][i] = d /\ due'[u][i].ticket = no
        BY <1>5, <2>6, <2>10, <3>1
      <3>3. \A j \in DOMAIN due'[u] : due'[u][j].chip = x => j = i
        BY <2>6, <3>1, <3>2
      <3> QED
        BY <2>4, <3>2, <3>3 DEF Awaited
    <2> QED
      BY <2>8, <2>9, <2>10 DEF Settled
  <1> QED
    BY <1>7, <1>8

(* What dropping the first of the awaited commands leaves of the others'   *)
(* state.                                                                  *)
LEMMA DropSlots ==
  ASSUME Slots, NEW t \in Threads, pc[t] \in Held,
         due[t] \in Seq(Dues), due[t] # <<>>, due'[t] = Tail(due[t]),
         \A u \in Threads \ {t} : due'[u] = due[u],
         UNCHANGED <<adminlock, working>>,
         NEW x \in Numbers, x # due[t][1].chip, slot'[x] = slot[x], ~abandoned[x]
  PROVE  Settled(x)'
  <1>1. Settled(x)
    BY DEF Slots, SlotInv
  <1>2. /\ adminlock = t
        /\ \A u \in Threads \ {t} : due[u] = <<>> /\ due'[u] = <<>>
    BY OneInside DEF Slots
  <1>3. \A i \in DOMAIN due'[t] : i + 1 \in DOMAIN due[t] /\ due'[t][i] = due[t][i + 1]
    BY TailChips
  <1>4. /\ Len(due[t]) \in Nat \ {0} /\ DOMAIN due[t] = 1..Len(due[t])
        /\ DOMAIN due'[t] = 1..(Len(due[t]) - 1)
    BY TailFacts
  <1>5. x \in DueChips(t) => x \in DueChips(t)'
    <2> SUFFICES ASSUME NEW i \in DOMAIN due[t], due[t][i].chip = x
                 PROVE  x \in DueChips(t)'
      BY DEF DueChips
    <2>1. i \in 2..Len(due[t])
      BY <1>4
    <2>2. i - 1 \in DOMAIN due'[t] /\ (i - 1) + 1 = i
      BY <1>4, <2>1
    <2>3. due'[t][i - 1].chip = x
      BY <1>3, <2>2
    <2> QED
      BY <2>2, <2>3 DEF DueChips
  <1>6. Owned(x)'
    BY <1>1, <1>2, <1>5 DEF Settled, Owned
  <1>7. Busy(x)'
    BY <1>1 DEF Settled, Busy
  <1>8. ASSUME NEW u \in Threads, NEW i \in DOMAIN due'[u], due'[u][i].chip = x
        PROVE  Awaited(u, i, x)'
    <2>1. u = t
      BY <1>2, <1>8
    <2>2. Awaited(t, i + 1, x) /\ due'[t][i] = due[t][i + 1]
      BY <1>1, <1>3, <1>8, <2>1 DEF Settled
    <2>3. \A j \in DOMAIN due'[t] : due'[t][j].chip = x => j = i
      <3> SUFFICES ASSUME NEW j \in DOMAIN due'[t], due'[t][j].chip = x
                   PROVE  j = i
        OBVIOUS
      <3>1. j + 1 = i + 1
        BY <1>3, <2>2 DEF Awaited
      <3>2. i \in Int /\ j \in Int
        <4>1. i \in DOMAIN due'[t]
          BY <1>8, <2>1
        <4> QED
          BY <1>4, <4>1
      <3> QED
        BY <3>1, <3>2
    <2>4. /\ slot[x].status # "idle"
          /\ slot[x].status = "receive" => slot[x].request.ticket = due'[t][i].ticket
          /\ slot[x].status = "process" => working[x].ticket = due'[t][i].ticket
          /\ slot[x].status = "complete" => slot[x].answer.ticket = due'[t][i].ticket
      BY <2>2 DEF Awaited
    <2> QED
      BY <2>1, <2>3, <2>4 DEF Awaited
  <1> QED
    BY <1>6, <1>7, <1>8 DEF Settled

LEMMA FetchSlots ==
  ASSUME Slots, NEW t \in Threads, Fetch(t)
  PROVE  SlotInv'
  <1>1. /\ pc[t] = "poll" /\ 1 \in DOMAIN due[t] /\ Polled(t) = due[t][1].chip
        /\ Polled(t) \in Numbers /\ slot[Polled(t)].status = "complete"
        /\ slot' = [slot EXCEPT ![Polled(t)].status = "idle"]
        /\ due[t] \in Seq(Dues) /\ due[t] # <<>> /\ due'[t] = Tail(due[t])
        /\ \A u \in Threads \ {t} : due'[u] = due[u]
        /\ UNCHANGED <<adminlock, working>>
    BY FetchStep DEF Slots
  <1>2. /\ slot \in [Numbers -> [status : Statuses, request : Requests, answer : Answers]]
        /\ abandoned \in [Numbers -> BOOLEAN]
    BY DEF Slots, Base, TypeOK, SlotTypeOK, HistoryTypeOK
  <1>3. ASSUME NEW x \in Numbers, ~abandoned'[x]
        PROVE  ~abandoned[x]
    <2>1. \/ abandoned' = abandoned
          \/ abandoned' = [y \in Numbers |-> abandoned[y] \/ y \in Rest(t)]
      BY FetchStep DEF Slots
    <2> QED
      BY <1>3, <2>1
  <1> SUFFICES ASSUME NEW x \in Numbers, ~abandoned'[x]
               PROVE  Settled(x)'
    BY DEF SlotInv
  <1>4. Settled(x)
    BY <1>3 DEF Slots, SlotInv
  <1>5. CASE x # Polled(t)
    <2>1. slot'[x] = slot[x]
      BY <1>1, <1>2, <1>5
    <2> QED
      BY <1>1, <1>3, <1>5, <2>1, DropSlots
  <1>6. CASE x = Polled(t)
    <2>1. slot'[x].status = "idle"
      BY <1>1, <1>2, <1>6
    <2>2. \A i \in DOMAIN due'[t] : due'[t][i].chip # x
      <3>1. \A i \in DOMAIN due[t] : due[t][i].chip = x => i = 1
        BY <1>1, <1>4, <1>6 DEF Settled, Awaited
      <3>2. \A i \in DOMAIN due'[t] : i + 1 \in DOMAIN due[t] /\ i + 1 # 1
                                      /\ due'[t][i] = due[t][i + 1]
        BY <1>1, TailChips
      <3> QED
        BY <3>1, <3>2
    <2>3. \A u \in Threads \ {t} : due'[u] = <<>>
      BY <1>1, OneInside DEF Slots
    <2>4. x \in Chips => working[x] = Free
      BY <1>1, <1>4, <1>6 DEF Settled, Busy
    <2>5. Owned(x)' /\ Busy(x)'
      BY <1>1, <2>1, <2>4 DEF Owned, Busy
    <2>6. \A u \in Threads : \A i \in DOMAIN due'[u] : due'[u][i].chip # x
      BY <2>2, <2>3
    <2> QED
      BY <2>5, <2>6 DEF Settled
  <1> QED
    BY <1>5, <1>6

LEMMA GiveUpSlots ==
  ASSUME Slots, NEW t \in Threads, GiveUp(t)
  PROVE  SlotInv'
  <1>1. /\ pc[t] = "expired" /\ 1 \in DOMAIN due[t] /\ Polled(t) = due[t][1].chip
        /\ slot' = [slot EXCEPT ![Polled(t)].status = "idle"]
        /\ abandoned' = [x \in Numbers |-> abandoned[x] \/ x \in DueChips(t)]
        /\ due[t] \in Seq(Dues) /\ due[t] # <<>> /\ due'[t] = Tail(due[t])
        /\ \A u \in Threads \ {t} : due'[u] = due[u]
        /\ UNCHANGED <<adminlock, working>>
    BY GiveUpStep DEF Slots
  <1>2. slot \in [Numbers -> [status : Statuses, request : Requests, answer : Answers]]
    BY DEF Slots, Base, TypeOK, SlotTypeOK
  <1> SUFFICES ASSUME NEW x \in Numbers, ~abandoned'[x]
               PROVE  Settled(x)'
    BY DEF SlotInv
  <1>3. ~abandoned[x] /\ x \notin DueChips(t)
    BY <1>1
  <1>4. x # due[t][1].chip
    BY <1>1, <1>3 DEF DueChips
  <1>5. slot'[x] = slot[x]
    BY <1>1, <1>2, <1>4
  <1> QED
    BY <1>1, <1>3, <1>4, <1>5, DropSlots

LEMMA FwTakeSlots ==
  ASSUME Slots, NEW c \in Chips, FwTake(c)
  PROVE  SlotInv'
  <1>1. /\ slot[c].status = "receive" /\ working[c] = Free
        /\ working' = [working EXCEPT ![c] = slot[c].request]
        /\ slot' = [slot EXCEPT ![c].status = "process"]
        /\ UNCHANGED <<adminlock, due, abandoned>>
    BY DEF FwTake, callVars, history
  <1>2. /\ slot \in [Numbers -> [status : Statuses, request : Requests, answer : Answers]]
        /\ working \in [Chips -> Requests \cup {Free}] /\ c \in Numbers
    BY DEF Slots, Base, TypeOK, SlotTypeOK, Numbers
  <1>3. slot[c].request # Free
    BY FwTakeBase DEF Slots
  <1> SUFFICES ASSUME NEW x \in Numbers, ~abandoned'[x]
               PROVE  Settled(x)'
    BY DEF SlotInv
  <1>4. Settled(x)
    BY <1>1 DEF Slots, SlotInv
  <1>5. CASE x # c
    <2>1. slot'[x] = slot[x] /\ (x \in Chips => working'[x] = working[x])
      BY <1>1, <1>2, <1>5
    <2>2. Owned(x)' /\ Busy(x)'
      BY <1>1, <1>4, <2>1 DEF Settled, Owned, Busy, DueChips
    <2>3. ASSUME NEW u \in Threads, NEW i \in DOMAIN due'[u], due'[u][i].chip = x
          PROVE  Awaited(u, i, x)'
      <3>1. Awaited(u, i, x)
        BY <1>1, <1>4, <2>3 DEF Settled
      <3>2. x \in Chips
        BY <1>4, <3>1 DEF Settled, Owned, Awaited
      <3> QED
        BY <1>1, <2>1, <3>1, <3>2 DEF Awaited
    <2> QED
      BY <2>2, <2>3 DEF Settled
  <1>6. CASE x = c
    <2>1. slot'[x].status = "process" /\ working'[x] = slot[x].request
      BY <1>1, <1>2, <1>6
    <2>2. Owned(x)' /\ Busy(x)'
      BY <1>1, <1>3, <1>4, <1>6, <2>1 DEF Settled, Owned, Busy, DueChips
    <2> QED
      BY <1>1, <1>4, <1>6, <2>1, <2>2 DEF Settled, Awaited
  <1> QED
    BY <1>5, <1>6

LEMMA FwDoneSlots ==
  ASSUME Slots, NEW c \in Chips, FwDone(c)
  PROVE  SlotInv'
  <1>1. /\ working[c] # Free /\ working' = [working EXCEPT ![c] = Free]
        /\ UNCHANGED <<adminlock, due, abandoned>>
    BY FwDoneStep DEF Slots
  <1>2. PICK answer \in Answers :
          /\ slot' = [slot EXCEPT ![c] = [@ EXCEPT !.status = "complete", !.answer = answer]]
          /\ answer.ticket = working[c].ticket
    BY FwDoneStep DEF Slots
  <1>3. /\ slot \in [Numbers -> [status : Statuses, request : Requests, answer : Answers]]
        /\ working \in [Chips -> Requests \cup {Free}] /\ c \in Numbers
    BY DEF Slots, Base, TypeOK, SlotTypeOK, Numbers
  <1> SUFFICES ASSUME NEW x \in Numbers, ~abandoned'[x]
               PROVE  Settled(x)'
    BY DEF SlotInv
  <1>4. Settled(x)
    BY <1>1 DEF Slots, SlotInv
  <1>5. CASE x # c
    <2>1. slot'[x] = slot[x] /\ (x \in Chips => working'[x] = working[x])
      BY <1>1, <1>2, <1>3, <1>5
    <2>2. Owned(x)' /\ Busy(x)'
      BY <1>1, <1>4, <2>1 DEF Settled, Owned, Busy, DueChips
    <2>3. ASSUME NEW u \in Threads, NEW i \in DOMAIN due'[u], due'[u][i].chip = x
          PROVE  Awaited(u, i, x)'
      <3>1. Awaited(u, i, x)
        BY <1>1, <1>4, <2>3 DEF Settled
      <3>2. x \in Chips
        BY <1>4, <3>1 DEF Settled, Owned, Awaited
      <3> QED
        BY <1>1, <2>1, <3>1, <3>2 DEF Awaited
    <2> QED
      BY <2>2, <2>3 DEF Settled
  <1>6. CASE x = c
    <2>1. /\ slot'[x].status = "complete" /\ slot'[x].answer = answer /\ working'[x] = Free
          /\ slot[x].status = "process"
      BY <1>1, <1>2, <1>3, <1>4, <1>6 DEF Settled, Busy
    <2>2. Owned(x)' /\ Busy(x)'
      BY <1>1, <1>4, <1>6, <2>1 DEF Settled, Owned, Busy, DueChips
    <2>3. ASSUME NEW u \in Threads, NEW i \in DOMAIN due'[u], due'[u][i].chip = x
          PROVE  Awaited(u, i, x)'
      <3>1. Awaited(u, i, x)
        BY <1>1, <1>4, <2>3 DEF Settled
      <3> QED
        BY <1>1, <1>2, <1>6, <2>1, <3>1 DEF Awaited
    <2> QED
      BY <2>2, <2>3 DEF Settled
  <1> QED
    BY <1>5, <1>6

LEMMA SlotsNext == Slots /\ [Next]_vars => SlotInv'
  <1> SUFFICES ASSUME Slots, [Next]_vars
               PROVE  SlotInv'
    OBVIOUS
  <1>1. SlotInv /\ Base
    BY DEF Slots
  <1>2. ASSUME NEW t \in Threads, Enter(t) \/ Expire(t)
        PROVE  SlotInv'
    BY <1>1, <1>2, SameSlots DEF Enter, Expire, history
  <1>3. ASSUME UNCHANGED vars
        PROVE  SlotInv'
    BY <1>1, <1>3, SameSlots DEF vars, callVars, history
  <1> QED
    BY <1>2, <1>3, BeginSlots, TriggerSlots, FetchSlots, GiveUpSlots, LeaveSlots,
       FwTakeSlots, FwDoneSlots DEF Next, Inside

LEMMA SlotsAlways == Spec => []Slots
  <1>1. Init => Slots
    BY InitBase, InitSlots DEF Slots
  <1>2. Slots /\ [Next]_vars => Slots'
    BY NextBase, SlotsNext DEF Slots
  <1> QED
    BY <1>1, <1>2, PTL DEF Spec

(* For any threads, chips and calls, whatever order the firmware and the   *)
(* three seconds come in: a slot is in use only while the holder of        *)
(* adminlock awaits its answer, or after a command of that chip was given  *)
(* up; no error path leaves one behind.                                    *)
THEOREM SlotsAtRestSafe == Spec => []SlotsAtRest
  <1>1. Slots => SlotsAtRest
    BY DEF Slots, SlotInv, Settled, Owned, SlotsAtRest
  <1> QED
    BY <1>1, SlotsAlways, PTL

(* The answer taken is that of the command put in, for any bound on the    *)
(* numbers that tell commands apart (two suffice).                         *)
THEOREM OwnAnswerSafe == Spec => []OwnAnswer
  <1>1. Slots => OwnAnswer
    <2> SUFFICES ASSUME Slots, NEW t \in Threads, pc[t] = "poll",
                        slot[Head(due[t]).chip].status = "complete",
                        ~abandoned[Head(due[t]).chip]
                 PROVE  slot[Head(due[t]).chip].answer.ticket = Head(due[t]).ticket
      BY DEF OwnAnswer
    <2>1. due[t] \in Seq(Dues) /\ due[t] # <<>>
      BY DEF Slots, Base, PlaceInv, TypeOK, CallTypeOK, Dues
    <2>2. Head(due[t]) = due[t][1] /\ 1 \in DOMAIN due[t] /\ Head(due[t]) \in Dues
      BY <2>1, TailFacts
    <2>3. Settled(Head(due[t]).chip)
      BY <2>2 DEF Slots, SlotInv, Dues
    <2>4. Awaited(t, 1, Head(due[t]).chip)
      BY <2>2, <2>3 DEF Settled
    <2> QED
      BY <2>2, <2>4 DEF Awaited
  <1> QED
    BY <1>1, SlotsAlways, PTL

-----------------------------------------------------------------------------
(* Layer Types.                                                            *)

LEMMA InitTypes == Init => TypesInv
  BY DEF Init, TypesInv, TrustInv, SendInv, AwaitInv, Numbers

(* Nothing changes for the commands under way when no thread moves on to   *)
(* send or to fetch.                                                       *)
LEMMA SameTypes ==
  ASSUME TypesInv, UNCHANGED <<trigger_type, dev_type, slot, working, abandoned, trusted>>,
         \A u \in Threads :
           /\ pc'[u] = "trigger" => pc[u] = "trigger" /\ op'[u] = op[u] /\ todo'[u] = todo[u]
           /\ pc'[u] \in {"poll", "expired"} =>
                pc[u] \in {"poll", "expired"} /\ op'[u] = op[u] /\ due'[u] = due[u]
  PROVE  TypesInv'
  <1>1. TrustInv'
    BY DEF TypesInv, TrustInv
  <1>2. SendInv'
    BY DEF TypesInv, SendInv
  <1>3. AwaitInv'
    BY DEF TypesInv, AwaitInv, SetUnderWay, GetUnderWay
  <1> QED
    BY <1>1, <1>2, <1>3 DEF TypesInv

LEMMA BeginTypes ==
  ASSUME IInv, NEW t \in Threads, Lock(t)
  PROVE  TypesInv'
  <1>1. PICK name \in Ops[t] : \E script \in Scripts(name) :
          LET chip == Head(script).chip IN
          /\ op' = [op EXCEPT ![t] = name]
          /\ SetCopy(name, Head(script))
          /\ trusted' = [trusted EXCEPT ![chip] = IF name \in TypeOps THEN FALSE ELSE @]
          /\ IF Refused(name, chip) THEN Goto(t, "leave") /\ UNCHANGED todo
             ELSE Goto(t, "trigger") /\ todo' = [todo EXCEPT ![t] = script]
    BY DEF Lock, Begin
  <1>2. PICK script \in Scripts(name) :
          LET chip == Head(script).chip IN
          /\ op' = [op EXCEPT ![t] = name]
          /\ SetCopy(name, Head(script))
          /\ trusted' = [trusted EXCEPT ![chip] = IF name \in TypeOps THEN FALSE ELSE @]
          /\ IF Refused(name, chip) THEN Goto(t, "leave") /\ UNCHANGED todo
             ELSE Goto(t, "trigger") /\ todo' = [todo EXCEPT ![t] = script]
    BY <1>1
  <1>3. PICK first :
          /\ first = Head(script)
          /\ op' = [op EXCEPT ![t] = name]
          /\ SetCopy(name, first)
          /\ trusted' = [trusted EXCEPT ![first.chip] = IF name \in TypeOps THEN FALSE ELSE @]
          /\ \/ pc' = [pc EXCEPT ![t] = "leave"]
             \/ /\ ~Refused(name, first.chip) /\ pc' = [pc EXCEPT ![t] = "trigger"]
                /\ todo' = [todo EXCEPT ![t] = script]
    BY <1>2 DEF Goto
  <1>4. /\ adminlock = Free /\ UNCHANGED <<slot, working, dev_type, due, ticket, abandoned>>
    BY DEF Lock, Begin
  <1>5. name \in OpNames
    BY AdminAssumption
  <1>6. /\ first \in Todos /\ Head(script) = first
        /\ name = "setType" => first.cmd \in Words
        /\ name = "getType" => first.cmd = "get"
        /\ name \notin TypeOps => \A i \in DOMAIN script : script[i].cmd = "other"
    BY <1>3, <1>5, ScriptFacts
  <1>7. /\ trigger_type \in [Numbers -> Words] /\ trusted \in [Numbers -> BOOLEAN]
        /\ pc \in [Threads -> Places] /\ op \in [Threads -> OpNames]
        /\ todo \in [Threads -> Seq(Todos)] /\ first.chip \in Numbers
    BY <1>6 DEF IInv, Slots, Base, TypeOK, SlotTypeOK, HistoryTypeOK, CallTypeOK, Todos
  <1>8. /\ name \in TypeOps => ~trusted'[first.chip]
        /\ name \notin TypeOps => trusted'[first.chip] = trusted[first.chip]
        /\ \A x \in Numbers \ {first.chip} : trusted'[x] = trusted[x]
    BY <1>3, <1>7
  <1>9. /\ name = "setType" => trigger_type'[first.chip] = first.cmd
        /\ name # "setType" => trigger_type' = trigger_type
        /\ \A x \in Numbers \ {first.chip} : trigger_type'[x] = trigger_type[x]
    BY <1>3, <1>7 DEF SetCopy
  <1>10. \A u \in Threads : u # t => pc'[u] = pc[u] /\ pc[u] \notin Held
    <2>1. Free \notin Threads
      BY AdminAssumption
    <2> QED
      BY <1>3, <1>4, <1>7, <2>1 DEF IInv, Slots, Base, LockInv
  <1>11. TrustInv'
    <2> SUFFICES ASSUME NEW x \in Chips, trusted'[x]
                 PROVE  /\ trigger_type'[x] = dev_type'[x]
                        /\ slot'[x].status = "receive" => slot'[x].request.cmd \notin Words
                        /\ working'[x] # Free => working'[x].cmd \notin Words
      BY DEF TrustInv
    <2>1. x \in Numbers
      BY DEF Numbers
    <2>2. trusted[x] /\ trigger_type'[x] = trigger_type[x]
      BY <1>8, <1>9, <2>1 DEF TypeOps
    <2> QED
      BY <1>4, <2>2 DEF IInv, TypesInv, TrustInv
  <1>12. SendInv'
    <2> SUFFICES ASSUME pc'[t] = "trigger"
                 PROVE  /\ op'[t] \notin TypeOps => \A i \in DOMAIN todo'[t] : todo'[t][i].cmd = "other"
                        /\ op'[t] \in TypeOps =>
                             Head(todo'[t]).chip \in Chips /\ ~trusted'[Head(todo'[t]).chip]
                        /\ op'[t] = "setType" =>
                             /\ Head(todo'[t]).cmd \in Words
                             /\ trigger_type'[Head(todo'[t]).chip] = Head(todo'[t]).cmd
                        /\ op'[t] = "getType" => Head(todo'[t]).cmd = "get"
      BY <1>10 DEF SendInv
    <2>1. op'[t] = name /\ todo'[t] = script /\ ~Refused(name, first.chip)
      BY <1>3, <1>7
    <2>2. name \in TypeOps => first.chip \in Chips
      BY <1>7, <2>1 DEF Refused, TypeOps, Numbers
    <2>3. Head(todo'[t]) = first
      BY <1>6, <2>1
    <2>4. name \notin TypeOps => \A i \in DOMAIN todo'[t] : todo'[t][i].cmd = "other"
      BY <1>6, <2>1
    <2> QED
      BY <1>6, <1>8, <1>9, <2>1, <2>2, <2>3, <2>4
  <1>13. AwaitInv'
    <2>1. pc'[t] \in {"trigger", "leave"}
      BY <1>3, <1>7
    <2> QED
      BY <1>10, <2>1 DEF AwaitInv
  <1> QED
    BY <1>11, <1>12, <1>13 DEF TypesInv

LEMMA TriggerTypes ==
  ASSUME IInv, NEW t \in Threads, Trigger(t)
  PROVE  TypesInv'
  <1> DEFINE first == Head(todo[t])
             no    == NextTicket(first.chip)
             d     == [chip |-> first.chip, ticket |-> no]
  <1>1. /\ pc[t] = "trigger" /\ first.chip \in Numbers
        /\ todo'[t] = Tail(todo[t])
        /\ slot' = [slot EXCEPT ![first.chip] = [status  |-> "receive",
                                                 request |-> [cmd |-> first.cmd, ticket |-> no],
                                                 answer  |-> NoAnswer]]
        /\ \/ due' = due /\ op[t] = "download" /\ first.chip \in Absent
           \/ due' = [due EXCEPT ![t] = Append(due[t], d)]
        /\ UNCHANGED <<trigger_type, working, dev_type, op, trusted>>
    BY TriggerStep DEF IInv, Slots
  <1>2. /\ \/ pc'[t] = "trigger" /\ Len(todo[t]) > 1
           \/ pc'[t] = "leave"
           \/ pc'[t] = "poll"
        /\ \A u \in Threads \ {t} : pc'[u] = pc[u]
    BY TriggerStep DEF IInv, Slots
  <1>3. d.chip = first.chip
    OBVIOUS
  <1>4. \A u \in Threads \ {t} : pc'[u] \notin Held
    BY <1>1, <1>2, OneInside DEF IInv, Slots
  <1>5. /\ slot \in [Numbers -> [status : Statuses, request : Requests, answer : Answers]]
        /\ todo[t] \in Seq(Todos) /\ todo[t] # <<>> /\ due \in [Threads -> Seq(Dues)]
    BY <1>1 DEF IInv, Slots, Base, TypeOK, SlotTypeOK, CallTypeOK, PlaceInv, Todos, Dues
  <1>6. /\ op[t] \notin TypeOps => \A i \in DOMAIN todo[t] : todo[t][i].cmd = "other"
        /\ op[t] \in TypeOps => first.chip \in Chips /\ ~trusted[first.chip]
        /\ op[t] = "setType" => first.cmd \in Words /\ trigger_type[first.chip] = first.cmd
        /\ op[t] = "getType" => first.cmd = "get"
    BY <1>1 DEF IInv, TypesInv, SendInv
  <1>7. /\ 1 \in DOMAIN todo[t] /\ first = todo[t][1]
        /\ \A i \in DOMAIN Tail(todo[t]) : i + 1 \in DOMAIN todo[t] /\ Tail(todo[t])[i] = todo[t][i + 1]
    BY <1>5, TailFacts
  <1>8. op[t] \in TypeOps => Len(todo[t]) = 1 /\ due[t] = <<>>
    BY <1>1 DEF IInv, Slots, Base, SingleInv, TypeOps
  <1>9. /\ slot'[first.chip].status = "receive" /\ slot'[first.chip].request.cmd = first.cmd
        /\ \A x \in Numbers \ {first.chip} : slot'[x] = slot[x]
    BY <1>1, <1>5
  <1> HIDE DEF first, no, d
  <1>10. TrustInv'
    <2> SUFFICES ASSUME NEW x \in Chips, trusted'[x]
                 PROVE  /\ trigger_type'[x] = dev_type'[x]
                        /\ slot'[x].status = "receive" => slot'[x].request.cmd \notin Words
                        /\ working'[x] # Free => working'[x].cmd \notin Words
      BY DEF TrustInv
    <2>1. trusted[x] /\ x \in Numbers
      BY <1>1 DEF Numbers
    <2>2. CASE x = first.chip
      <3>1. first.cmd = "other"
        BY <1>6, <1>7, <2>1, <2>2
      <3>2. slot'[x].request.cmd \notin Words
        BY <1>9, <2>2, <3>1 DEF Words, Types
      <3> QED
        BY <1>1, <2>1, <3>2 DEF IInv, TypesInv, TrustInv
    <2>3. CASE x # first.chip
      BY <1>1, <1>9, <2>1, <2>3 DEF IInv, TypesInv, TrustInv
    <2> QED
      BY <2>2, <2>3
  <1>11. SendInv'
    <2> SUFFICES ASSUME pc'[t] = "trigger"
                 PROVE  /\ op'[t] \notin TypeOps
                        /\ \A i \in DOMAIN todo'[t] : todo'[t][i].cmd = "other"
      BY <1>4 DEF SendInv, TypeOps
    <2>1. Len(todo[t]) > 1
      BY <1>2
    <2>2. \A n : n = 1 => ~(n > 1)
      OBVIOUS
    <2>3. op[t] \notin TypeOps
      BY <1>8, <2>1, <2>2, Zenon
    <2> QED
      BY <1>1, <1>6, <1>7, <2>3
  <1>12. AwaitInv'
    <2> SUFFICES ASSUME pc'[t] \in {"poll", "expired"}, op'[t] \in TypeOps,
                        NEW c, c = Head(due'[t]).chip
                 PROVE  /\ c \in Chips /\ ~trusted'[c]
                        /\ op'[t] = "setType" => slot'[c].status = "receive"
                                                 /\ slot'[c].request.cmd = trigger_type'[c]
                        /\ op'[t] = "getType" => slot'[c].status = "receive"
                                                 /\ slot'[c].request.cmd = "get"
      BY <1>4 DEF AwaitInv, SetUnderWay, GetUnderWay
    <2>1. op'[t] = op[t] /\ op[t] # "download" /\ due[t] = <<>>
      BY <1>1, <1>8 DEF TypeOps
    <2>2. due'[t] = Append(<<>>, d)
      BY <1>1, <1>5, <2>1
    <2>3. Head(due'[t]) = d
      BY <2>2
    <2>4. c = first.chip
      BY <1>3, <2>3
    <2> QED
      BY <1>1, <1>6, <1>9, <2>1, <2>4
  <1> QED
    BY <1>10, <1>11, <1>12 DEF TypesInv

(* A call that stops polling has nothing of a set or get under way, as far *)
(* as the threads are concerned; what is left to show is TrustInv.         *)
LEMMA NoneUnderWay ==
  ASSUME IInv, NEW t \in Threads, pc[t] \in Held,
         \A u \in Threads \ {t} : pc'[u] = pc[u],
         pc'[t] = "leave" \/ (pc'[t] = "poll" /\ op'[t] \notin TypeOps)
  PROVE  SendInv' /\ AwaitInv'
  <1>1. \A u \in Threads \ {t} : pc'[u] \notin Held
    BY OneInside DEF IInv, Slots
  <1> QED
    BY <1>1 DEF SendInv, AwaitInv

LEMMA FetchTypes ==
  ASSUME IInv, NEW t \in Threads, Fetch(t)
  PROVE  TypesInv'
  <1> DEFINE c == Polled(t)
  <1>1. /\ pc[t] = "poll" /\ c \in Numbers /\ slot[c].status = "complete"
        /\ slot[c].answer \in Answers
        /\ slot' = [slot EXCEPT ![c].status = "idle"]
        /\ CopyType(t, c, slot[c].answer.data)
        /\ trusted' = [trusted EXCEPT ![c] = IF op[t] \in TypeOps
                                             THEN slot[c].answer.ok /\ ~abandoned[c] ELSE @]
        /\ \A u \in Threads \ {t} : pc'[u] = pc[u]
        /\ UNCHANGED <<working, dev_type, op>>
    BY FetchStep DEF IInv, Slots
  <1>2. pc'[t] = "leave" \/ (pc'[t] = "poll" /\ Len(due[t]) > 1)
    BY FetchStep DEF IInv, Slots
  <1>3. op[t] \in TypeOps =>
          /\ c \in Chips /\ ~trusted[c]
          /\ ~abandoned[c] /\ op[t] = "setType" => SetUnderWay(c)
          /\ ~abandoned[c] /\ op[t] = "getType" => GetUnderWay(c)
    BY <1>1 DEF IInv, TypesInv, AwaitInv, Polled
  <1> HIDE DEF c
  <1>4. SendInv' /\ AwaitInv'
    <2>1. op[t] \in TypeOps => Len(due[t]) = 1
      BY <1>1 DEF IInv, Slots, Base, SingleInv, TypeOps
    <2>2. \A n : n = 1 => ~(n > 1)
      OBVIOUS
    <2>3. pc'[t] = "leave" \/ (pc'[t] = "poll" /\ op'[t] \notin TypeOps)
      <3>1. op' = op
        BY <1>1
      <3> QED
        BY <1>2, <2>1, <2>2, <3>1, Zenon
    <2> QED
      BY <1>1, <2>3, NoneUnderWay
  <1>5. /\ slot \in [Numbers -> [status : Statuses, request : Requests, answer : Answers]]
        /\ trusted \in [Numbers -> BOOLEAN] /\ dev_type \in [Chips -> Words]
        /\ abandoned \in [Numbers -> BOOLEAN] /\ TypeOK
    BY DEF IInv, Slots, Base, TypeOK, SlotTypeOK, HistoryTypeOK
  <1>6. /\ op[t] # "getType" => trigger_type' = trigger_type
        /\ \A x \in Numbers \ {c} : trigger_type'[x] = trigger_type[x]
        /\ op[t] = "getType" /\ slot[c].answer.data # "none" => trigger_type'[c] = slot[c].answer.data
    BY <1>1, <1>5, CopyTypeStep DEF Answers
  <1>7. /\ \A x \in Numbers \ {c} : slot'[x] = slot[x] /\ trusted'[x] = trusted[x]
        /\ slot'[c].status = "idle"
    BY <1>1, <1>5
  <1>8. /\ op[t] \in TypeOps /\ trusted'[c] => slot[c].answer.ok /\ ~abandoned[c]
        /\ op[t] \notin TypeOps /\ trusted'[c] => trusted[c]
    BY <1>1, <1>5, Zenon
  <1>9. TrustInv'
    <2> SUFFICES ASSUME NEW x \in Chips, trusted'[x]
                 PROVE  /\ trigger_type'[x] = dev_type'[x]
                        /\ slot'[x].status = "receive" => slot'[x].request.cmd \notin Words
                        /\ working'[x] # Free => working'[x].cmd \notin Words
      BY DEF TrustInv
    <2>1. x \in Numbers
      BY DEF Numbers
    <2>2. CASE x # c
      BY <1>1, <1>6, <1>7, <2>1, <2>2 DEF IInv, TypesInv, TrustInv
    <2>3. CASE x = c /\ op[t] \notin TypeOps
      <3>1. trusted[x] /\ trigger_type' = trigger_type
        BY <1>6, <1>8, <2>3 DEF TypeOps
      <3> QED
        BY <1>1, <1>7, <2>3, <3>1 DEF IInv, TypesInv, TrustInv
    <2>4. CASE x = c /\ op[t] \in TypeOps
      <3>1. slot[x].answer.ok /\ ~abandoned[x]
        BY <1>8, <2>4
      <3>2. working[x] = Free
        BY <1>1, <2>1, <2>4, <3>1 DEF IInv, Slots, SlotInv, Settled, Busy
      <3>3. CASE op[t] = "setType"
        BY <1>1, <1>3, <1>6, <1>7, <2>4, <3>1, <3>2, <3>3 DEF SetUnderWay
      <3>4. CASE op[t] = "getType"
        <4>1. slot[x].answer.data = dev_type[x]
          BY <1>1, <1>3, <2>4, <3>1, <3>4 DEF GetUnderWay
        <4>2. slot[x].answer.data # "none"
          BY <1>5, <4>1 DEF Words, Types
        <4> QED
          BY <1>1, <1>6, <1>7, <2>4, <3>2, <3>4, <4>1, <4>2
      <3> QED
        BY <2>4, <3>3, <3>4 DEF TypeOps
    <2> QED
      BY <2>2, <2>3, <2>4
  <1> QED
    BY <1>4, <1>9 DEF TypesInv

LEMMA GiveUpTypes ==
  ASSUME IInv, NEW t \in Threads, GiveUp(t)
  PROVE  TypesInv'
  <1> DEFINE c == Polled(t)
  <1>1. /\ pc[t] = "expired" /\ c \in Numbers
        /\ slot' = [slot EXCEPT ![c].status = "idle"]
        /\ CopyType(t, c, "none")
        /\ pc'[t] = "leave" /\ \A u \in Threads \ {t} : pc'[u] = pc[u]
        /\ UNCHANGED <<working, dev_type, trusted>>
    BY GiveUpStep DEF IInv, Slots
  <1>2. op[t] = "getType" => ~trusted[c]
    BY <1>1 DEF IInv, TypesInv, AwaitInv, Polled, TypeOps
  <1> HIDE DEF c
  <1>3. SendInv' /\ AwaitInv'
    BY <1>1, NoneUnderWay
  <1>4. slot \in [Numbers -> [status : Statuses, request : Requests, answer : Answers]] /\ TypeOK
    BY DEF IInv, Slots, Base, TypeOK, SlotTypeOK
  <1>5. /\ op[t] # "getType" => trigger_type' = trigger_type
        /\ \A x \in Numbers \ {c} : trigger_type'[x] = trigger_type[x]
    BY <1>1, <1>4, CopyTypeStep
  <1>6. slot'[c].status = "idle" /\ \A x \in Numbers \ {c} : slot'[x] = slot[x]
    BY <1>1, <1>4
  <1>7. TrustInv'
    <2> SUFFICES ASSUME NEW x \in Chips, trusted[x]
                 PROVE  /\ trigger_type'[x] = dev_type[x]
                        /\ slot'[x].status = "receive" => slot'[x].request.cmd \notin Words
                        /\ working[x] # Free => working[x].cmd \notin Words
      BY <1>1 DEF TrustInv
    <2>1. x \in Numbers
      BY DEF Numbers
    <2>2. trigger_type'[x] = trigger_type[x]
      BY <1>2, <1>5, <2>1
    <2> QED
      BY <1>6, <2>1, <2>2 DEF IInv, TypesInv, TrustInv
  <1> QED
    BY <1>3, <1>7 DEF TypesInv

LEMMA LeaveTypes ==
  ASSUME IInv, NEW t \in Threads, Leave(t)
  PROVE  TypesInv'
  <1>1. /\ op' = [op EXCEPT ![t] = "feature"] /\ due' = [due EXCEPT ![t] = <<>>]
        /\ pc' = [pc EXCEPT ![t] = "user"]
        /\ UNCHANGED <<trigger_type, slot, working, dev_type, todo, ticket, abandoned, trusted>>
    BY DEF Leave, Goto, history
  <1>2. /\ pc \in [Threads -> Places] /\ op \in [Threads -> OpNames]
        /\ due \in [Threads -> Seq(Dues)]
    BY DEF IInv, Slots, Base, TypeOK, CallTypeOK, Dues
  <1>3. pc'[t] = "user" /\ \A u \in Threads \ {t} : pc'[u] = pc[u] /\ op'[u] = op[u] /\ due'[u] = due[u]
    BY <1>1, <1>2
  <1> QED
    BY <1>1, <1>3, SameTypes DEF IInv

LEMMA FwTakeTypes ==
  ASSUME IInv, NEW c \in Chips, FwTake(c)
  PROVE  TypesInv'
  <1>1. /\ slot[c].status = "receive"
        /\ working' = [working EXCEPT ![c] = slot[c].request]
        /\ slot' = [slot EXCEPT ![c].status = "process"]
        /\ UNCHANGED <<trigger_type, dev_type, pc, op, todo, due, abandoned, trusted>>
    BY DEF FwTake, callVars, history
  <1>2. /\ slot \in [Numbers -> [status : Statuses, request : Requests, answer : Answers]]
        /\ working \in [Chips -> Requests \cup {Free}] /\ c \in Numbers
    BY DEF IInv, Slots, Base, TypeOK, SlotTypeOK, Numbers
  <1>3. /\ slot'[c].status = "process" /\ working'[c] = slot[c].request
        /\ \A x \in Numbers \ {c} : slot'[x] = slot[x]
        /\ \A x \in Chips \ {c} : working'[x] = working[x]
    BY <1>1, <1>2
  <1>4. \A x \in Chips : x \in Numbers
    BY DEF Numbers
  <1>5. TrustInv'
    BY <1>1, <1>3, <1>4 DEF IInv, TypesInv, TrustInv
  <1>6. SendInv'
    BY <1>1 DEF IInv, TypesInv, SendInv
  <1>7. \A x \in Chips : SetUnderWay(x) => SetUnderWay(x)'
    BY <1>1, <1>3, <1>4 DEF SetUnderWay
  <1>8. \A x \in Chips : GetUnderWay(x) => GetUnderWay(x)'
    BY <1>1, <1>3, <1>4 DEF GetUnderWay
  <1>9. AwaitInv'
    BY <1>1, <1>7, <1>8 DEF IInv, TypesInv, AwaitInv
  <1> QED
    BY <1>5, <1>6, <1>9 DEF TypesInv

LEMMA FwDoneTypes ==
  ASSUME IInv, NEW c \in Chips, FwDone(c)
  PROVE  TypesInv'
  <1>1. /\ working[c] # Free /\ working' = [working EXCEPT ![c] = Free]
        /\ UNCHANGED <<trigger_type, pc, op, todo, due, abandoned, trusted>>
    BY FwDoneStep DEF IInv, Slots
  <1>2. PICK answer \in Answers :
          /\ slot' = [slot EXCEPT ![c] = [@ EXCEPT !.status = "complete", !.answer = answer]]
          /\ answer.ok /\ working[c].cmd = "get" => answer.data = dev_type[c]
          /\ dev_type' = IF answer.ok /\ working[c].cmd \in Words
                         THEN [dev_type EXCEPT ![c] = working[c].cmd] ELSE dev_type
    BY FwDoneStep DEF IInv, Slots
  <1>3. /\ slot \in [Numbers -> [status : Statuses, request : Requests, answer : Answers]]
        /\ working \in [Chips -> Requests \cup {Free}] /\ c \in Numbers
        /\ trigger_type \in [Numbers -> Words] /\ dev_type \in [Chips -> Words]
    BY DEF IInv, Slots, Base, TypeOK, SlotTypeOK, Numbers
  <1>4. /\ slot'[c].status = "complete" /\ slot'[c].answer = answer /\ working'[c] = Free
        /\ \A x \in Numbers \ {c} : slot'[x] = slot[x]
        /\ \A x \in Chips \ {c} : working'[x] = working[x]
    BY <1>1, <1>2, <1>3
  <1>5. /\ \A x \in Chips \ {c} : dev_type'[x] = dev_type[x]
        /\ working[c].cmd \notin Words => dev_type' = dev_type
        /\ answer.ok /\ working[c].cmd \in Words => dev_type'[c] = working[c].cmd
    BY <1>2, <1>3
  <1>6. \A x \in Chips : x \in Numbers
    BY DEF Numbers
  <1>7. TrustInv'
    <2> SUFFICES ASSUME NEW x \in Chips, trusted[x]
                 PROVE  /\ trigger_type[x] = dev_type'[x]
                        /\ slot'[x].status = "receive" => slot'[x].request.cmd \notin Words
                        /\ working'[x] # Free => working'[x].cmd \notin Words
      BY <1>1 DEF TrustInv
    <2>1. /\ trigger_type[x] = dev_type[x]
          /\ slot[x].status = "receive" => slot[x].request.cmd \notin Words
          /\ working[x] # Free => working[x].cmd \notin Words
      BY DEF IInv, TypesInv, TrustInv
    <2>2. CASE x = c
      BY <1>1, <1>4, <1>5, <2>1, <2>2
    <2>3. CASE x # c
      BY <1>4, <1>5, <1>6, <2>1, <2>3
    <2> QED
      BY <2>2, <2>3
  <1>8. SendInv'
    BY <1>1 DEF IInv, TypesInv, SendInv
  <1>9. ASSUME NEW x \in Chips, ~abandoned[x]
        PROVE  /\ SetUnderWay(x) => SetUnderWay(x)'
               /\ GetUnderWay(x) => GetUnderWay(x)'
    <2>1. CASE x # c
      BY <1>1, <1>4, <1>5, <1>6, <2>1 DEF SetUnderWay, GetUnderWay
    <2>2. CASE x = c
      <3>1. slot[x].status = "process"
        BY <1>1, <1>6, <1>9, <2>2 DEF IInv, Slots, SlotInv, Settled, Busy
      <3>2. SetUnderWay(x) => SetUnderWay(x)'
        <4>1. trigger_type[x] \in Words
          BY <1>3, <1>6
        <4> QED
          BY <1>1, <1>2, <1>4, <1>5, <2>2, <3>1, <4>1 DEF SetUnderWay
      <3>3. GetUnderWay(x) => GetUnderWay(x)'
        <4>1. "get" \notin Words
          BY DEF Words, Types
        <4> QED
          BY <1>1, <1>2, <1>4, <1>5, <2>2, <3>1, <4>1 DEF GetUnderWay
      <3> QED
        BY <3>2, <3>3
    <2> QED
      BY <2>1, <2>2
  <1>10. AwaitInv'
    BY <1>1, <1>9 DEF IInv, TypesInv, AwaitInv
  <1> QED
    BY <1>7, <1>8, <1>10 DEF TypesInv

LEMMA TypesNext ==
  ASSUME IInv, [Next]_vars
  PROVE  TypesInv'
  <1>1. TypesInv
    BY DEF IInv
  <1>2. ASSUME NEW t \in Threads, Enter(t) \/ Expire(t)
        PROVE  TypesInv'
    <2>1. pc[t] \in {"user", "poll"} /\ (pc[t] = "poll" => pc' = [pc EXCEPT ![t] = "expired"])
          /\ (pc[t] = "user" => pc' = [pc EXCEPT ![t] = "want"])
          /\ UNCHANGED <<trigger_type, dev_type, slot, working, op, todo, due, abandoned, trusted>>
      BY <1>2 DEF Enter, Expire, Goto, history
    <2>2. pc \in [Threads -> Places]
      BY DEF IInv, Slots, Base, TypeOK, CallTypeOK
    <2>3. \A u \in Threads :
            /\ pc'[u] = "trigger" => pc[u] = "trigger"
            /\ pc'[u] \in {"poll", "expired"} => pc[u] \in {"poll", "expired"}
      BY <2>1, <2>2
    <2> QED
      BY <1>1, <2>1, <2>3, SameTypes
  <1>3. ASSUME UNCHANGED vars
        PROVE  TypesInv'
    BY <1>1, <1>3, SameTypes DEF vars, callVars, history
  <1> QED
    BY <1>2, <1>3, BeginTypes, TriggerTypes, FetchTypes, GiveUpTypes, LeaveTypes,
       FwTakeTypes, FwDoneTypes DEF Next, Inside

LEMMA IInvAlways == Spec => []IInv
  <1>1. Init => IInv
    BY InitBase, InitSlots, InitTypes DEF IInv, Slots
  <1>2. IInv /\ [Next]_vars => IInv'
    BY NextBase, SlotsNext, TypesNext DEF IInv, Slots
  <1> QED
    BY <1>1, <1>2, PTL DEF Spec

(* The variables keep their types for any threads, chips and calls.        *)
THEOREM TypesSafe == Spec => []TypeOK
  <1>1. Base => TypeOK
    BY DEF Base
  <1> QED
    BY <1>1, BaseAlways, PTL

(* For any threads, chips and calls: after a set or get that succeeded,    *)
(* the copy by which write starts transfers is what the firmware uses,     *)
(* whatever commands were given up on that chip since.                     *)
THEOREM TriggerTypeAgreesSafe == Spec => []TriggerTypeAgrees
  <1>1. IInv => TriggerTypeAgrees
    BY DEF IInv, TypesInv, TrustInv, TriggerTypeAgrees
  <1> QED
    BY <1>1, IInvAlways, PTL

-----------------------------------------------------------------------------
(* The slots are the mailboxes of AdminMailbox.                            *)

LEMMA BoxValue ==
  ASSUME Slots, NEW c \in Chips
  PROVE  /\ abandoned[c] => BoxOf(c) = "astray"
         /\ ~abandoned[c] /\ slot[c].status = "idle" => BoxOf(c) = "empty"
         /\ ~abandoned[c] /\ slot[c].status = "receive" => BoxOf(c) = "asked"
         /\ ~abandoned[c] /\ slot[c].status = "process" => BoxOf(c) = "busy"
         /\ ~abandoned[c] /\ slot[c].status = "complete" => BoxOf(c) = "answered"
         /\ abandoned[c] \/ slot[c].status # "idle" => BoxOf(c) # "empty"
         /\ c \in Numbers /\ slot[c].status \in Statuses /\ abandoned[c] \in BOOLEAN
  <1>1. c \in Numbers /\ slot[c].status \in Statuses /\ abandoned[c] \in BOOLEAN
    BY DEF Slots, Base, TypeOK, SlotTypeOK, HistoryTypeOK, Numbers
  <1> QED
    BY <1>1 DEF BoxOf, Statuses

(* The same of the next state.                                             *)
LEMMA BoxValueNext ==
  ASSUME Slots', NEW c \in Chips
  PROVE  /\ abandoned'[c] => BoxOf(c)' = "astray"
         /\ ~abandoned'[c] /\ slot'[c].status = "idle" => BoxOf(c)' = "empty"
         /\ ~abandoned'[c] /\ slot'[c].status = "receive" => BoxOf(c)' = "asked"
         /\ ~abandoned'[c] /\ slot'[c].status = "process" => BoxOf(c)' = "busy"
         /\ ~abandoned'[c] /\ slot'[c].status = "complete" => BoxOf(c)' = "answered"
         /\ abandoned'[c] \in BOOLEAN
  <1>1. c \in Numbers /\ slot'[c].status \in Statuses /\ abandoned'[c] \in BOOLEAN
    BY DEF Slots, Base, TypeOK, SlotTypeOK, HistoryTypeOK, Numbers
  <1> QED
    BY <1>1 DEF BoxOf, Statuses

LEMMA SameBox ==
  ASSUME NEW c, slot'[c] = slot[c], abandoned'[c] = abandoned[c]
  PROVE  BoxOf(c)' = BoxOf(c)
  BY DEF BoxOf

LEMMA SameBoxes ==
  ASSUME \A x \in Chips : BoxOf(x)' = BoxOf(x)
  PROVE  Box' = Box
  BY DEF Box

LEMMA MoveBox ==
  ASSUME NEW c \in Chips, NEW from, NEW to,
         \A x \in Chips \ {c} : BoxOf(x)' = BoxOf(x),
         BoxOf(c) \in from, BoxOf(c)' = to
  PROVE  Mailbox!Move(c, from, to)
  BY DEF Mailbox!Move, Box

(* A box that holds a command may be lost with others.                     *)
LEMMA LoseBoxes ==
  ASSUME NEW lost, \A x \in Chips \cap lost : BoxOf(x) # "empty" /\ BoxOf(x)' = "astray",
         \A x \in Chips \ lost : BoxOf(x)' = BoxOf(x)
  PROVE  Mailbox!Forsake
  <1>1. Chips \cap lost \in SUBSET {c \in Chips : Box[c] # "empty"}
    BY DEF Box
  <1>2. Box' = [c \in Chips |-> IF c \in Chips \cap lost THEN "astray" ELSE Box[c]]
    BY DEF Box
  <1> QED
    BY <1>1, <1>2 DEF Mailbox!Forsake

LEMMA TriggerBox ==
  ASSUME Slots, Slots', NEW t \in Threads, Trigger(t)
  PROVE  Mailbox!Next \/ Box' = Box
  <1>1. PICK c, no :
          /\ c \in Numbers /\ pc[t] = "trigger"
          /\ slot' = [slot EXCEPT ![c] = [status  |-> "receive",
                                          request |-> [cmd |-> Head(todo[t]).cmd, ticket |-> no],
                                          answer  |-> NoAnswer]]
          /\ abandoned' = [abandoned EXCEPT ![c] = Astray(t, c)]
    <2> DEFINE first  == Head(todo[t]).chip
               number == NextTicket(first)
    <2>1. /\ pc[t] = "trigger"
          /\ slot' = [slot EXCEPT ![first] = [status  |-> "receive",
                                              request |-> [cmd |-> Head(todo[t]).cmd, ticket |-> number],
                                              answer  |-> NoAnswer]]
          /\ abandoned' = [abandoned EXCEPT ![first] = Astray(t, first)]
      BY DEF Trigger
    <2>2. first \in Numbers
      <3>1. todo[t] \in Seq(Todos) /\ todo[t] # <<>>
        BY <2>1 DEF Slots, Base, PlaceInv, TypeOK, CallTypeOK, Todos
      <3>2. Head(todo[t]) \in Todos
        BY <3>1, TailFacts
      <3> QED
        BY <3>2 DEF Todos
    <2> HIDE DEF first, number
    <2> QED
      BY <2>1, <2>2
  <1>4. /\ slot \in [Numbers -> [status : Statuses, request : Requests, answer : Answers]]
        /\ abandoned \in [Numbers -> BOOLEAN]
    BY DEF Slots, Base, TypeOK, SlotTypeOK, HistoryTypeOK
  <1>5. /\ slot'[c].status = "receive" /\ abandoned'[c] = Astray(t, c)
        /\ \A x \in Numbers \ {c} : slot'[x] = slot[x] /\ abandoned'[x] = abandoned[x]
    BY <1>1, <1>4
  <1>6. \A x \in Chips \ {c} : BoxOf(x)' = BoxOf(x)
    BY <1>5, SameBox DEF Numbers
  <1>7. CASE c \notin Chips
    BY <1>6, <1>7, SameBoxes
  <1>8. CASE c \in Chips /\ Astray(t, c)
    <2>1. BoxOf(c)' = "astray"
      BY <1>5, <1>8, BoxValueNext
    <2>2. abandoned[c] \/ slot[c].status # "idle"
      <3> SUFFICES ASSUME ~abandoned[c]
                   PROVE  slot[c].status # "idle"
        OBVIOUS
      <3>1. Settled(c)
        BY <1>1 DEF Slots, SlotInv
      <3>2. c \notin Absent
        BY <1>8, AdminAssumption
      <3>3. CASE c \in DueChips(t)
        BY <3>1, <3>3 DEF Settled, Awaited, DueChips
      <3>4. CASE working[c] # Free
        BY <1>8, <3>1, <3>4 DEF Settled, Busy
      <3> QED
        BY <1>8, <3>2, <3>3, <3>4 DEF Astray
    <2>3. BoxOf(c) # "empty"
      BY <1>8, <2>2, BoxValue
    <2>4. Mailbox!Forsake
      <3>1. \A x \in Chips \cap {c} : BoxOf(x) # "empty" /\ BoxOf(x)' = "astray"
        BY <2>1, <2>3
      <3> QED
        BY <1>6, <3>1, LoseBoxes
    <2> QED
      BY <2>4 DEF Mailbox!Next
  <1>9. CASE c \in Chips /\ ~Astray(t, c)
    <2>1. BoxOf(c)' = "asked"
      BY <1>5, <1>9, BoxValueNext
    <2>2. abandoned[c] \/ slot[c].status = "idle"
      <3> SUFFICES ASSUME ~abandoned[c], slot[c].status # "idle"
                   PROVE  FALSE
        OBVIOUS
      <3>1. PICK u \in Threads : adminlock = u /\ c \in DueChips(u)
        BY <1>1 DEF Slots, SlotInv, Settled, Owned
      <3>2. adminlock = t
        BY <1>1, OneInside DEF Slots
      <3> QED
        BY <1>9, <3>1, <3>2 DEF Astray
    <2>3. BoxOf(c) \in {"empty", "astray"}
      BY <1>9, <2>2, BoxValue
    <2>4. Mailbox!Ask(c)
      BY <1>6, <1>9, <2>1, <2>3, MoveBox DEF Mailbox!Ask
    <2> QED
      BY <1>9, <2>4 DEF Mailbox!Next
  <1> QED
    BY <1>7, <1>8, <1>9

LEMMA FetchBox ==
  ASSUME Slots, Slots', NEW t \in Threads, Fetch(t)
  PROVE  Mailbox!Next \/ Box' = Box
  <1>1. PICK c :
          /\ pc[t] = "poll" /\ c \in Numbers /\ 1 \in DOMAIN due[t] /\ c = due[t][1].chip
          /\ slot[c].status = "complete" /\ slot' = [slot EXCEPT ![c].status = "idle"]
          /\ \/ abandoned' = abandoned
             \/ abandoned' = [x \in Numbers |-> abandoned[x] \/ x \in Rest(t)]
    <2>1. /\ pc[t] = "poll" /\ Polled(t) \in Numbers /\ 1 \in DOMAIN due[t] /\ Polled(t) = due[t][1].chip
          /\ slot[Polled(t)].status = "complete" /\ slot' = [slot EXCEPT ![Polled(t)].status = "idle"]
          /\ \/ abandoned' = abandoned
             \/ abandoned' = [x \in Numbers |-> abandoned[x] \/ x \in Rest(t)]
      BY FetchStep DEF Slots
    <2> QED
      BY <2>1
  <1>2. /\ slot \in [Numbers -> [status : Statuses, request : Requests, answer : Answers]]
        /\ abandoned \in [Numbers -> BOOLEAN]
        /\ due[t] \in Seq(Dues) /\ due[t] # <<>>
    BY <1>1 DEF Slots, Base, PlaceInv, TypeOK, SlotTypeOK, CallTypeOK, HistoryTypeOK, Dues
  <1>3. slot'[c].status = "idle" /\ \A x \in Numbers \ {c} : slot'[x] = slot[x]
    BY <1>1, <1>2
  <1>4. Chips \subseteq Numbers
    BY DEF Numbers
  <1>5. CASE abandoned' = abandoned
    <2>1. \A x \in Chips \ {c} : BoxOf(x)' = BoxOf(x)
      BY <1>3, <1>4, <1>5, SameBox
    <2>2. CASE c \notin Chips
      BY <2>1, <2>2, SameBoxes
    <2>3. CASE c \in Chips /\ abandoned[c]
      <3>1. BoxOf(c) = "astray" /\ BoxOf(c)' = "astray"
        BY <1>5, <2>3, BoxValue, BoxValueNext
      <3> QED
        BY <2>1, <3>1, SameBoxes
    <2>4. CASE c \in Chips /\ ~abandoned[c]
      <3>1. BoxOf(c) \in {"answered"} /\ BoxOf(c)' = "empty"
        BY <1>1, <1>3, <1>5, <2>4, BoxValue, BoxValueNext
      <3>2. Mailbox!Take(c)
        BY <2>1, <2>4, <3>1, MoveBox DEF Mailbox!Take
      <3> QED
        BY <2>4, <3>2 DEF Mailbox!Next
    <2> QED
      BY <2>2, <2>3, <2>4
  <1>6. CASE abandoned' = [x \in Numbers |-> abandoned[x] \/ x \in Rest(t)]
    <2>1. \A x \in Numbers : abandoned'[x] <=> abandoned[x] \/ x \in Rest(t)
      BY <1>6
    <2>2. \A x \in Chips \cap Rest(t) : BoxOf(x) # "empty" /\ BoxOf(x)' = "astray"
      <3> SUFFICES ASSUME NEW x \in Chips \cap Rest(t)
                   PROVE  BoxOf(x) # "empty" /\ BoxOf(x)' = "astray"
        OBVIOUS
      <3>1. abandoned[x] \/ slot[x].status # "idle"
        <4>1. PICK i \in 2..Len(due[t]) : x = due[t][i].chip
          BY DEF Rest
        <4>2. i \in DOMAIN due[t]
          BY <1>2, TailFacts
        <4> QED
          BY <1>4, <4>1, <4>2 DEF Slots, SlotInv, Settled, Awaited
      <3> QED
        BY <1>4, <2>1, <3>1, BoxValue, BoxValueNext
    <2>3. \A x \in (Chips \ Rest(t)) \ {c} : BoxOf(x)' = BoxOf(x)
      <3>1. \A x \in (Chips \ Rest(t)) \ {c} : abandoned'[x] = abandoned[x] /\ slot'[x] = slot[x]
        <4>1. abandoned' \in [Numbers -> BOOLEAN]
          BY <1>6, <1>2
        <4> QED
          BY <1>2, <1>3, <1>4, <2>1, <4>1
      <3> QED
        BY <3>1, SameBox
    <2>4. CASE c \in Chips \ Rest(t) /\ ~abandoned[c]
      <3>1. Box[c] = "answered" /\ BoxOf(c)' = "empty"
        BY <1>1, <1>3, <1>4, <2>1, <2>4, BoxValue, BoxValueNext DEF Box
      <3>2. Chips \cap Rest(t) \in SUBSET {x \in Chips : Box[x] # "empty"}
        BY <2>2 DEF Box
      <3>3. Box' = [x \in Chips |-> IF x \in Chips \cap Rest(t) THEN "astray"
                                    ELSE IF x = c THEN "empty" ELSE Box[x]]
        BY <2>2, <2>3, <2>4, <3>1 DEF Box
      <3>4. Mailbox!TakeError
        BY <2>4, <3>1, <3>2, <3>3 DEF Mailbox!TakeError
      <3> QED
        BY <3>4 DEF Mailbox!Next
    <2>5. CASE ~(c \in Chips \ Rest(t) /\ ~abandoned[c])
      <3>1. \A x \in Chips \ Rest(t) : BoxOf(x)' = BoxOf(x)
        <4> SUFFICES ASSUME NEW x \in Chips \ Rest(t), x = c
                     PROVE  BoxOf(x)' = BoxOf(x)
          BY <2>3
        <4>1. abandoned[x] /\ abandoned'[x]
          BY <1>4, <2>1, <2>5
        <4> QED
          BY <4>1, BoxValue, BoxValueNext
      <3>2. Mailbox!Forsake
        BY <2>2, <3>1, LoseBoxes
      <3> QED
        BY <3>2 DEF Mailbox!Next
    <2> QED
      BY <2>4, <2>5
  <1> QED
    BY <1>1, <1>5, <1>6

LEMMA GiveUpBox ==
  ASSUME Slots, Slots', NEW t \in Threads, GiveUp(t)
  PROVE  Mailbox!Next \/ Box' = Box
  <1>1. /\ pc[t] = "expired" /\ Polled(t) \in DueChips(t)
        /\ slot' = [slot EXCEPT ![Polled(t)].status = "idle"]
        /\ abandoned' = [x \in Numbers |-> abandoned[x] \/ x \in DueChips(t)]
    BY GiveUpStep DEF Slots, DueChips
  <1>2. /\ slot \in [Numbers -> [status : Statuses, request : Requests, answer : Answers]]
        /\ abandoned \in [Numbers -> BOOLEAN] /\ Chips \subseteq Numbers
    BY DEF Slots, Base, TypeOK, SlotTypeOK, HistoryTypeOK, Numbers
  <1>3. \A x \in Chips \cap DueChips(t) : BoxOf(x) # "empty" /\ BoxOf(x)' = "astray"
    <2> SUFFICES ASSUME NEW x \in Chips \cap DueChips(t)
                 PROVE  BoxOf(x) # "empty" /\ BoxOf(x)' = "astray"
      OBVIOUS
    <2>1. abandoned[x] \/ slot[x].status # "idle"
      BY <1>2 DEF Slots, SlotInv, Settled, Awaited, DueChips
    <2>2. abandoned'[x]
      BY <1>1, <1>2
    <2> QED
      BY <2>1, <2>2, BoxValue, BoxValueNext
  <1>4. \A x \in Chips \ DueChips(t) : BoxOf(x)' = BoxOf(x)
    <2>1. \A x \in Chips \ DueChips(t) : slot'[x] = slot[x] /\ abandoned'[x] = abandoned[x]
      BY <1>1, <1>2
    <2> QED
      BY <2>1, SameBox
  <1>5. Mailbox!Forsake
    BY <1>3, <1>4, LoseBoxes
  <1> QED
    BY <1>5 DEF Mailbox!Next

LEMMA FirmwareBox ==
  ASSUME Slots, Slots', NEW c \in Chips, FwTake(c) \/ FwDone(c)
  PROVE  Mailbox!Next \/ Box' = Box
  <1>1. /\ slot \in [Numbers -> [status : Statuses, request : Requests, answer : Answers]]
        /\ c \in Numbers /\ Chips \subseteq Numbers
    BY DEF Slots, Base, TypeOK, SlotTypeOK, Numbers
  <1>2. abandoned' = abandoned
    BY DEF FwTake, FwDone, history
  <1>3. CASE abandoned[c]
    <2>1. \A x \in Chips \ {c} : slot'[x] = slot[x]
      <3>1. CASE FwTake(c)
        BY <1>1, <3>1 DEF FwTake
      <3>2. CASE FwDone(c)
        <4>1. PICK answer : slot' = [slot EXCEPT ![c] = [@ EXCEPT !.status = "complete", !.answer = answer]]
          BY <3>2, FwDoneStep DEF Slots
        <4> QED
          BY <1>1, <4>1
      <3> QED
        BY <3>1, <3>2
    <2>2. BoxOf(c)' = BoxOf(c)
      BY <1>2, <1>3, BoxValue, BoxValueNext
    <2> QED
      BY <1>2, <2>1, <2>2, SameBox, SameBoxes
  <1>4. CASE ~abandoned[c] /\ FwTake(c)
    <2>1. /\ slot[c].status = "receive" /\ slot'[c].status = "process"
          /\ \A x \in Chips \ {c} : slot'[x] = slot[x]
      BY <1>1, <1>4 DEF FwTake
    <2>2. BoxOf(c) \in {"asked"} /\ BoxOf(c)' = "busy"
      BY <1>2, <1>4, <2>1, BoxValue, BoxValueNext
    <2>3. \A x \in Chips \ {c} : BoxOf(x)' = BoxOf(x)
      BY <1>2, <2>1, SameBox
    <2>4. Mailbox!Begin(c)
      BY <2>2, <2>3, MoveBox DEF Mailbox!Begin
    <2> QED
      BY <2>4 DEF Mailbox!Next
  <1>5. CASE ~abandoned[c] /\ FwDone(c)
    <2>1. PICK answer : slot' = [slot EXCEPT ![c] = [@ EXCEPT !.status = "complete", !.answer = answer]]
      BY <1>5, FwDoneStep DEF Slots
    <2>2. slot'[c].status = "complete" /\ \A x \in Chips \ {c} : slot'[x] = slot[x]
      BY <1>1, <2>1
    <2>3. slot[c].status = "process"
      BY <1>1, <1>5, FwDoneStep DEF Slots, SlotInv, Settled, Busy
    <2>4. BoxOf(c) \in {"busy"} /\ BoxOf(c)' = "answered"
      BY <1>2, <1>5, <2>2, <2>3, BoxValue, BoxValueNext
    <2>5. \A x \in Chips \ {c} : BoxOf(x)' = BoxOf(x)
      BY <1>2, <2>2, SameBox
    <2>6. Mailbox!Answer(c)
      BY <2>4, <2>5, MoveBox DEF Mailbox!Answer
    <2> QED
      BY <2>6 DEF Mailbox!Next
  <1> QED
    BY <1>3, <1>4, <1>5

(* The admin channel implements AdminMailbox, for any threads, chips and   *)
(* calls: a slot takes a new command only when the one before was answered *)
(* and the answer taken, or was given up.                                  *)
THEOREM SlotsAreMailboxesSafe == Spec => SlotsAreMailboxes
  <1>1. Init => Mailbox!Init
    <2> SUFFICES ASSUME Init
                 PROVE  Mailbox!Init
      OBVIOUS
    <2>1. Slots
      BY InitBase, InitSlots DEF Slots
    <2>2. \A c \in Chips : ~abandoned[c] /\ slot[c].status = "idle"
      BY DEF Init, Numbers
    <2>3. \A c \in Chips : BoxOf(c) = "empty"
      BY <2>1, <2>2, BoxValue
    <2> QED
      BY <2>3 DEF Box, Mailbox!Init
  <1>2. Slots /\ Slots' /\ [Next]_vars => [Mailbox!Next]_Box
    <2> SUFFICES ASSUME Slots, Slots', [Next]_vars
                 PROVE  Mailbox!Next \/ Box' = Box
      OBVIOUS
    <2>1. ASSUME UNCHANGED <<slot, abandoned>>
          PROVE  Box' = Box
      BY <2>1 DEF Box, BoxOf
    <2>2. ASSUME NEW t \in Threads, Enter(t) \/ Lock(t) \/ Expire(t) \/ Leave(t)
          PROVE  Box' = Box
      BY <2>1, <2>2 DEF Enter, Lock, Begin, Expire, Leave, history
    <2>3. CASE UNCHANGED vars
      BY <2>1, <2>3 DEF vars, history
    <2> QED
      BY <2>2, <2>3, TriggerBox, FetchBox, GiveUpBox, FirmwareBox DEF Next, Inside
  <1> QED
    BY <1>1, <1>2, SlotsAlways, PTL DEF Spec, SlotsAreMailboxes, Mailbox!Spec
=============================================================================
