------------------------------ MODULE MemxAdmin ------------------------------
(***************************************************************************)
(* The admin commands of one PCIe device (kdriver/linux/pcie/              *)
(* memx_feature.c), as the ioctls of /dev/memxN_feature and the sysfs and  *)
(* procfs files issue them.                                                *)
(*                                                                         *)
(* Every chip has a command slot in host memory, with a status word that   *)
(* host and firmware both write: the host puts a command in and sets       *)
(* RECEIVE, the firmware fetches it (PROCESS), carries it out and sets     *)
(* COMPLETE, the host takes the answer and sets IDLE.  The host polls for  *)
(* three seconds; when they are over it sets IDLE whatever the firmware    *)
(* does.  All of this happens under adminlock.                             *)
(***************************************************************************)
EXTENDS Naturals, Sequences

CONSTANTS
  Threads,
  Chips,      (* chips below total_chip_cnt                                *)
  Absent,     (* further chip numbers that have a slot (16 slots in all)   *)
  Ops,        (* Ops[t]: the calls thread t makes                          *)
  Parallel,   (* max_parallel_chip_count = 4 commands of one DFP download  *)
  Tickets,    (* history: commands of a chip are numbered modulo this      *)
  Free        (* a lock that nobody holds, a chip that does nothing        *)

Numbers == Chips \cup Absent
OpNames == {"feature", "setType", "getType", "file", "download"}
Types   == {"chip", "host"}   (* CASCADE_PLUS_INPUT_DMA_TRIGGER_TYPE       *)
Words   == Types \cup {"junk"}  (* what a user may give for one: any 32 bits *)

VARIABLES
  adminlock,     (* memx_dev->adminlock: its holder, or Free               *)
  trigger_type,  (* hw_info.chip.input_dma_trigger_type, the host's copy   *)
  slot,          (* the slots in host memory                               *)
  working,       (* the command the firmware of a chip has fetched         *)
  dev_type,      (* the trigger type the firmware of a chip uses           *)
  pc, op,
  todo,          (* commands a thread has still to put into slots          *)
  due,           (* commands whose answers it has still to fetch           *)
  ticket,        (* history: number of the last command put into the slot  *)
  abandoned,     (* history: a command may be under way that nobody awaits *)
  trusted        (* history: the last set or get of the type succeeded     *)

callVars == <<pc, op, todo, due>>
history  == <<ticket, abandoned, trusted>>
vars == <<adminlock, trigger_type, slot, working, dev_type, callVars, history>>

(* A command, as far as it matters: set the trigger type to a word, get it,*)
(* or anything else.                                                       *)
Commands  == {"other", "get"} \cup Words
Statuses  == {"idle", "receive", "process", "complete"}
TicketNos == 0..Tickets - 1
Requests  == [cmd : Commands, ticket : TicketNos]
Answers   == [ok : BOOLEAN, data : Words \cup {"none"}, ticket : TicketNos]
NoRequest == [cmd |-> "other", ticket |-> 0]
NoAnswer  == [ok |-> TRUE, data |-> "none", ticket |-> 0]
Held      == {"trigger", "poll", "expired", "leave"}
Places    == {"user", "want"} \cup Held

ASSUME AdminAssumption ==
  /\ Chips \cap Absent = {}
  /\ Ops \in [Threads -> SUBSET OpNames]
  /\ Parallel \in Nat \ {0}
  /\ Tickets \in Nat \ {0, 1}
  /\ Free \notin Threads \cup Requests

Goto(t, place) == pc' = [pc EXCEPT ![t] = place]
DueChips(t) == {due[t][i].chip : i \in DOMAIN due[t]}
TypeOps     == {"setType", "getType"}

Init ==
  /\ adminlock = Free
  /\ trigger_type = [c \in Numbers |-> "chip"]
  /\ dev_type \in [Chips -> Types]
  /\ slot = [c \in Numbers |-> [status |-> "idle", request |-> NoRequest, answer |-> NoAnswer]]
  /\ working = [c \in Chips |-> Free]
  /\ pc = [t \in Threads |-> "user"]
  /\ op = [t \in Threads |-> "feature"]
  /\ todo = [t \in Threads |-> <<>>]
  /\ due = [t \in Threads |-> <<>>]
  /\ ticket = [c \in Numbers |-> 0]
  /\ abandoned = [c \in Numbers |-> FALSE]
  /\ trusted = [c \in Numbers |-> FALSE]

-----------------------------------------------------------------------------
(* The commands of a call.  Only a download has more than one.             *)
Scripts(name) ==
  LET Cmd == CASE name = "setType" -> Words
               [] name = "getType" -> {"get"}
               [] OTHER            -> {"other"}
      Most == IF name = "download" THEN Parallel ELSE 1
  IN  UNION {[1..n -> [chip : Numbers, cmd : Cmd]] : n \in 1..Most}

(* What a call wants is of no consequence to the others until it has the   *)
(* lock, and is chosen then.                                               *)
Enter(t) ==
  /\ pc[t] = "user"
  /\ Goto(t, "want")
  /\ UNCHANGED <<adminlock, trigger_type, slot, working, dev_type, op, todo, due, history>>

(* A feature or self test of a chip that is not there is refused; the      *)
(* files do not look, and a download triggers it but does not wait.        *)
Refused(name, chip) == name \in {"feature", "setType", "getType"} /\ chip \in Absent

(* Wrong: the host's copy is not set.                                      *)
SetCopyForgotten(name, first) == UNCHANGED trigger_type

(* The host's copy of the trigger type is set, to whatever word the user   *)
(* gives, before the command is checked or sent.                           *)
SetCopy(name, first) ==
  IF name = "setType" THEN trigger_type' = [trigger_type EXCEPT ![first.chip] = first.cmd]
                      ELSE UNCHANGED trigger_type

(* What follows mutex_lock: the checks of the command.                     *)
Begin(t) ==
  /\ adminlock' = t
  /\ \E name \in Ops[t] : \E script \in Scripts(name) :
       LET chip == Head(script).chip IN
       /\ op' = [op EXCEPT ![t] = name]
       /\ SetCopy(name, Head(script))
       /\ trusted' = [trusted EXCEPT ![chip] = IF name \in TypeOps THEN FALSE ELSE @]
       /\ IF Refused(name, chip) THEN Goto(t, "leave") /\ UNCHANGED todo
          ELSE Goto(t, "trigger") /\ todo' = [todo EXCEPT ![t] = script]
  /\ UNCHANGED <<slot, working, dev_type, due, ticket, abandoned>>

(* Wrong: another thread's commands are not waited for.                    *)
LockAtOnce(t) == pc[t] = "want" /\ Begin(t)

(* mutex_lock(&memx_dev->adminlock).                                       *)
Lock(t) == pc[t] = "want" /\ adminlock = Free /\ Begin(t)

(* Nobody can tell whose answer the slot of c will hold next: its firmware *)
(* is busy with a command that was given up, the call has two commands for *)
(* it, or it is not there.                                                 *)
Astray(t, c) == c \in Absent \/ c \in DueChips(t) \/ working[c] # Free

(* History: the commands of a chip that is not there are never answered,   *)
(* and need no numbers.                                                    *)
NextTicket(c) == IF c \in Chips THEN (ticket[c] + 1) % Tickets ELSE 0

(* memx_admin_trigger.                                                     *)
Trigger(t) ==
  LET c  == Head(todo[t]).chip
      no == NextTicket(c)
  IN  /\ pc[t] = "trigger"
      /\ slot' = [slot EXCEPT ![c] =
                    [status  |-> "receive",
                     request |-> [cmd |-> Head(todo[t]).cmd, ticket |-> no],
                     answer  |-> NoAnswer]]
      /\ ticket' = [ticket EXCEPT ![c] = no]
      /\ abandoned' = [abandoned EXCEPT ![c] = Astray(t, c)]
      /\ due' = IF op[t] = "download" /\ c \in Absent
                THEN due
                ELSE [due EXCEPT ![t] = Append(@, [chip |-> c, ticket |-> no])]
      /\ todo' = [todo EXCEPT ![t] = Tail(@)]
      /\ Goto(t, IF Len(todo[t]) > 1 THEN "trigger"
                 ELSE IF due'[t] = <<>> THEN "leave" ELSE "poll")
      /\ UNCHANGED <<adminlock, trigger_type, working, dev_type, op, trusted>>

-----------------------------------------------------------------------------
(* memx_admin_fetch_result.                                                *)

(* _admin_get_feature copies data[0] to the host's copy, whether the       *)
(* command has put the trigger type there or it is still the user's word.  *)
CopyType(t, c, data) ==
  IF op[t] = "getType"
  THEN \E value \in IF data = "none" THEN Words ELSE {data} :
         trigger_type' = [trigger_type EXCEPT ![c] = value]
  ELSE UNCHANGED trigger_type

(* The remaining commands of a call are left to themselves.                *)
Forsake(chips) == abandoned' = [c \in Numbers |-> abandoned[c] \/ c \in chips]

(* A download stops at the first error and leaves the chips it has not     *)
(* polled.                                                                 *)
TakeAnswer(t, c, answer) ==
  /\ CopyType(t, c, answer.data)
  /\ due' = [due EXCEPT ![t] = Tail(@)]
  /\ trusted' = [trusted EXCEPT ![c] = IF op[t] \in TypeOps THEN answer.ok /\ ~abandoned[c] ELSE @]
  /\ IF answer.ok
     THEN Goto(t, IF Len(due[t]) > 1 THEN "poll" ELSE "leave") /\ UNCHANGED abandoned
     ELSE Goto(t, "leave") /\ Forsake({due[t][i].chip : i \in 2..Len(due[t])})
  /\ UNCHANGED <<adminlock, working, dev_type, op, todo, ticket>>

(* Wrong: the status stays COMPLETE.                                       *)
FetchLeaves(t) ==
  LET c == Head(due[t]).chip
  IN  /\ pc[t] = "poll"
      /\ slot[c].status = "complete"
      /\ TakeAnswer(t, c, slot[c].answer)
      /\ UNCHANGED slot

(* COMPLETE: the answer is taken.                                          *)
Fetch(t) ==
  LET c == Head(due[t]).chip
  IN  /\ pc[t] = "poll"
      /\ slot[c].status = "complete"
      /\ TakeAnswer(t, c, slot[c].answer)
      /\ slot' = [slot EXCEPT ![c].status = "idle"]

(* Three seconds have passed and the status just read was not COMPLETE.    *)
Expire(t) ==
  /\ pc[t] = "poll"
  /\ slot[Head(due[t]).chip].status # "complete"
  /\ Goto(t, "expired")
  /\ UNCHANGED <<adminlock, trigger_type, slot, working, dev_type, op, todo, due, history>>

(* Wrong: the poll goes on.                                                *)
GiveUpNever(t) ==
  /\ pc[t] = "expired"
  /\ Goto(t, "poll")
  /\ UNCHANGED <<adminlock, trigger_type, slot, working, dev_type, op, todo, due, history>>

(* IDLE, over whatever the firmware has written meanwhile.                 *)
GiveUp(t) ==
  LET c == Head(due[t]).chip
  IN  /\ pc[t] = "expired"
      /\ slot' = [slot EXCEPT ![c].status = "idle"]
      /\ CopyType(t, c, "none")
      /\ Forsake(DueChips(t))
      /\ due' = [due EXCEPT ![t] = Tail(@)]
      /\ Goto(t, "leave")
      /\ UNCHANGED <<adminlock, working, dev_type, op, todo, ticket, trusted>>

(* mutex_unlock.                                                           *)
Leave(t) ==
  /\ pc[t] = "leave"
  /\ adminlock' = Free
  /\ op' = [op EXCEPT ![t] = "feature"]
  /\ due' = [due EXCEPT ![t] = <<>>]
  /\ Goto(t, "user")
  /\ UNCHANGED <<trigger_type, slot, working, dev_type, todo, history>>

-----------------------------------------------------------------------------
(* The firmware of a chip: one command at a time.  It may also stay silent.*)
(* It reports success for a trigger type only if it goes by it from then   *)
(* on; whether it does so for words that are no type is left open.         *)

FwTake(c) ==
  /\ slot[c].status = "receive"
  /\ working[c] = Free
  /\ working' = [working EXCEPT ![c] = slot[c].request]
  /\ slot' = [slot EXCEPT ![c].status = "process"]
  /\ UNCHANGED <<adminlock, trigger_type, dev_type, callVars, history>>

FwDone(c) ==
  LET cmd == working[c].cmd IN
  /\ working[c] # Free
  /\ \E ok \in BOOLEAN :
       /\ dev_type' = IF ok /\ cmd \in Words THEN [dev_type EXCEPT ![c] = cmd] ELSE dev_type
       /\ slot' = [slot EXCEPT ![c].status = "complete",
                               ![c].answer = [ok     |-> ok,
                                              data   |-> IF ok /\ cmd = "get" THEN dev_type[c]
                                                                              ELSE "none",
                                              ticket |-> working[c].ticket]]
  /\ working' = [working EXCEPT ![c] = Free]
  /\ UNCHANGED <<adminlock, trigger_type, callVars, history>>

-----------------------------------------------------------------------------
Inside(t) == Trigger(t) \/ Fetch(t) \/ Expire(t) \/ GiveUp(t) \/ Leave(t)

Next ==
  \/ \E t \in Threads : Enter(t) \/ Lock(t) \/ Inside(t)
  \/ \E c \in Chips : FwTake(c) \/ FwDone(c)

Spec == Init /\ [][Next]_vars

(* The kernel runs a thread that is inside and hands the mutex to those    *)
(* that wait for it in turn; time passes.  The firmware need not answer.   *)
Fairness == \A t \in Threads : WF_vars(Inside(t)) /\ SF_vars(Lock(t))

FairSpec == Spec /\ Fairness

-----------------------------------------------------------------------------
SlotTypeOK ==
  /\ slot \in [Numbers -> [status : Statuses, request : Requests, answer : Answers]]
  /\ working \in [Chips -> Requests \cup {Free}]
  /\ trigger_type \in [Numbers -> Words]
  /\ dev_type \in [Chips -> Words]

CallTypeOK ==
  /\ adminlock \in Threads \cup {Free}
  /\ pc \in [Threads -> Places]
  /\ op \in [Threads -> OpNames]
  /\ todo \in [Threads -> Seq([chip : Numbers, cmd : Commands])]
  /\ due \in [Threads -> Seq([chip : Numbers, ticket : TicketNos])]

HistoryTypeOK ==
  /\ ticket \in [Numbers -> TicketNos]
  /\ abandoned \in [Numbers -> BOOLEAN]
  /\ trusted \in [Numbers -> BOOLEAN]

(* The types of the variables.  The host's copy of a trigger type is a     *)
(* word, no more: nothing checks that it is a type.                        *)
TypeOK == SlotTypeOK /\ CallTypeOK /\ HistoryTypeOK

(* A slot is not idle only while the holder of adminlock awaits its answer,*)
(* unless a command for that chip was given up: no call leaves a slot in   *)
(* use behind, whichever way it ends.                                      *)
SlotsAtRest ==
  \A c \in Numbers : slot[c].status # "idle" =>
    abandoned[c] \/ \E t \in Threads : adminlock = t /\ c \in DueChips(t)

(* The answer a call takes is that of the command it put into the slot,    *)
(* unless a command for that chip was given up before.                     *)
OwnAnswer ==
  \A t \in Threads : pc[t] = "poll" =>
    LET d == Head(due[t]) IN
      slot[d.chip].status = "complete" /\ ~abandoned[d.chip] =>
        slot[d.chip].answer.ticket = d.ticket

(* After a set or get of the trigger type that reported success, and until *)
(* the next one, write chooses the way of starting the transfer that the   *)
(* firmware expects, however other commands of the chip end meanwhile.     *)
TriggerTypeAgrees == \A c \in Chips : trusted[c] => trigger_type[c] = dev_type[c]

(* "polling admin command done, require all command done": a download does *)
(* not end while a chip it has triggered is still at it.                   *)
DownloadAwaitsAll ==
  \A t \in Threads : pc[t] = "leave" /\ op[t] = "download" =>
    \A c \in DueChips(t) : slot[c].status \notin {"receive", "process"}

(* Every admin command returns, even if no firmware ever answers.          *)
AdminReturns == \A t \in Threads : pc[t] = "want" ~> pc[t] = "user"

(* What the slot of a chip is to the calls that use it.                    *)
BoxOf(c) ==
  IF abandoned[c] THEN "astray"
  ELSE CASE slot[c].status = "idle"     -> "empty"
         [] slot[c].status = "receive"  -> "asked"
         [] slot[c].status = "process"  -> "busy"
         [] slot[c].status = "complete" -> "answered"

Box == [c \in Chips |-> BoxOf(c)]

(* The slots keep the promise of AdminMailbox: a command is not put in     *)
(* before the one before it has been answered and the answer taken, or     *)
(* given up.                                                               *)
Mailbox == INSTANCE AdminMailbox WITH box <- Box
SlotsAreMailboxes == Mailbox!Spec
=============================================================================
