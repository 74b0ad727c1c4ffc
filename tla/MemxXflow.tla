------------------------------ MODULE MemxXflow ------------------------------
(***************************************************************************)
(* How the PCIe driver reads and writes a register of a chip               *)
(* (kdriver/linux/pcie/memx_xflow.c).                                      *)
(*                                                                         *)
(* A chip has a window: a register that says which space it shows (the MPU *)
(* or all the rest), one for the address, and the buffer through which the *)
(* access goes.  How the host reaches the windows depends on the BARs: all *)
(* directly; only that of chip 0, through which the others are reached     *)
(* ("indirect": the BAR mode with 4 BARs); or none ("mailbox": the mode    *)
(* with 1 MB of SRAM), then the firmware of chip 0 is asked.               *)
(*                                                                         *)
(* No lock protects any of this: a call of the device holds memx_dev->mutex*)
(* but a read of a file of the debug file systems, an admin command and the*)
(* log's set-up do not.  The model has any number of callers.              *)
(***************************************************************************)
EXTENDS Naturals, Sequences

CONSTANTS
  Threads,    (* callers of memx_xflow_read and memx_xflow_write           *)
  Chips,      (* chips: numbers, and 0 is one of them                      *)
  Wirings,    (* the ways of access in question                            *)
  Nothing     (* no access, no command                                     *)

Spaces    == {"mpu", "other"}
Accesses  == [chip : Chips, space : Spaces, write : BOOLEAN]
(* The addresses of windows' own registers.                                *)
Registers == {"ctrl", "base", "vbuf"} \X Chips

(* Every caller has an address, and a value to write, of its own; nobody   *)
(* but this file writes to a window's register.                            *)
ASSUME XflowAssumption ==
  /\ 0 \in Chips /\ Chips \subseteq Nat
  /\ Wirings \subseteq {"direct", "indirect", "mailbox"}
  /\ Nothing \notin Threads \cup Accesses
  /\ (Threads \cup {Nothing}) \cap Registers = {}

VARIABLES
  wiring,     (* bar_mode                                                  *)
  ctrl, base, (* each window's control and base address register           *)
  mail,       (* the mailbox: MEMX_EXTINFO_CMD_BASE, DATA_BASE and the     *)
              (* word after it; history: whose command, and if nobody else *)
              (* has touched it                                            *)
  access,     (* what a caller wants                                       *)
  todo,       (* the stores and waits it has yet to do for it              *)
  got,        (* what a read returned                                      *)
  hits,       (* history: what the access reached until it was disturbed,  *)
  disturbed,  (* whether another one used the same registers meanwhile,    *)
  muddled     (* and whether that ever happened where windows are indirect *)

vars == <<wiring, ctrl, base, mail, access, todo, got, hits, disturbed, muddled>>

Busy(t) == access[t] # Nothing

Init ==
  /\ wiring \in Wirings
  /\ ctrl = [c \in Chips |-> "mpu"]
  /\ base = [c \in Chips |-> Nothing]
  /\ mail = [cmd |-> Nothing, data |-> Nothing, word |-> Nothing, by |-> Nothing, pure |-> TRUE]
  /\ access = [t \in Threads |-> Nothing]
  /\ todo = [t \in Threads |-> <<>>]
  /\ got = [t \in Threads |-> Nothing]
  /\ hits = [t \in Threads |-> {}]
  /\ disturbed = [t \in Threads |-> FALSE]
  /\ muddled = FALSE

-----------------------------------------------------------------------------
(* What an access consists of: <<register, chip, value>>.                  *)

Via0(c) == c # 0 /\ wiring = "indirect"

(* A register of another chip's window, through chip 0's.                  *)
Through0(register, c, value) ==
  <<<<"ctrl", 0, "other">>, <<"base", 0, <<register, c>>>>, <<"vbuf", 0, value>>>>

(* A register of a window.                                                 *)
Reach(register, c, value) ==
  IF Via0(c) THEN Through0(register, c, value) ELSE <<<<register, c, value>>>>

(* memx_xflow_set_access_mode, memx_xflow_set_base_address, and            *)
(* memx_xflow_{write,read}_virtual_buffer_address.                         *)
SetMode(c, space) == Reach("ctrl", c, space)
SetBase(c, t)     == Reach("base", c, t)
Touch(c)          == Reach("vbuf", c, "touch")

(* Wrong: chip 0's window keeps the mode in which it showed the other's.   *)
NotRestored(x) == IF x.space = "mpu" THEN <<>> ELSE SetMode(x.chip, "mpu")

(* What is put back.                                                       *)
Restored(x) ==
  (IF x.space = "mpu" THEN <<>> ELSE SetMode(x.chip, "mpu"))
    \o (IF Via0(x.chip) THEN SetMode(0, "mpu") ELSE <<>>)

(* Wrong: the address is set when the access is over.                      *)
Hasty(t, x) == SetMode(x.chip, x.space) \o Touch(x.chip) \o SetBase(x.chip, t) \o Restored(x)

ByWindow(t, x) == SetMode(x.chip, x.space) \o SetBase(x.chip, t) \o Touch(x.chip) \o Restored(x)

(* Wrong: a command is written without waiting for the last one's end.     *)
Impatient(t, x) ==
  <<<<"data", t>>>> \o (IF x.write THEN <<<<"word", t>>>> ELSE <<>>)
    \o <<<<"cmd", x>>, <<"wait">>>> \o (IF x.write THEN <<>> ELSE <<<<"fetch">>>>)

ByMail(t, x) ==
  <<<<"wait">>, <<"data", t>>>> \o (IF x.write THEN <<<<"word", t>>>> ELSE <<>>)
    \o <<<<"cmd", x>>, <<"wait">>>> \o (IF x.write THEN <<>> ELSE <<<<"fetch">>>>)

(* Accesses that use the same registers.                                   *)
Conflict(x, y) == wiring = "direct" => x.chip = y.chip

(* memx_xflow_write, memx_xflow_read.                                      *)
Call(t) ==
  /\ ~Busy(t)
  /\ \E x \in Accesses :
       LET others == {u \in Threads : Busy(u) /\ Conflict(access[u], x)} IN
       /\ access' = [access EXCEPT ![t] = x]
       /\ todo' = [todo EXCEPT ![t] = IF wiring = "mailbox" THEN ByMail(t, x) ELSE ByWindow(t, x)]
       /\ disturbed' = [u \in Threads |-> IF u = t THEN others # {}
                                          ELSE disturbed[u] \/ u \in others]
       /\ muddled' = (muddled \/ (wiring = "indirect" /\ others # {}))
  /\ UNCHANGED <<wiring, ctrl, base, mail, got, hits>>

(* The access ends; what is noted of it is no longer needed.               *)
End(t) ==
  /\ access' = [access EXCEPT ![t] = Nothing]
  /\ todo' = [todo EXCEPT ![t] = <<>>]
  /\ got' = [got EXCEPT ![t] = Nothing]
  /\ hits' = [hits EXCEPT ![t] = {}]
  /\ disturbed' = [disturbed EXCEPT ![t] = FALSE]
  /\ UNCHANGED <<wiring, ctrl, base, muddled>>

Return(t) ==
  /\ Busy(t) /\ todo[t] = <<>>
  /\ End(t)
  /\ UNCHANGED mail

Upcoming(t) == IF todo[t] = <<>> THEN <<"none">> ELSE Head(todo[t])
Advance(t) == todo' = [todo EXCEPT ![t] = Tail(@)]

(* A store to a register that the host sees.                               *)
Store(t) ==
  /\ LET s == Upcoming(t) IN
       \/ s[1] = "ctrl" /\ ctrl' = [ctrl EXCEPT ![s[2]] = s[3]] /\ UNCHANGED base
       \/ s[1] = "base" /\ base' = [base EXCEPT ![s[2]] = s[3]] /\ UNCHANGED ctrl
  /\ Advance(t)
  /\ UNCHANGED <<wiring, mail, access, got, hits, disturbed, muddled>>

Note(t, hit) == hits' = [hits EXCEPT ![t] = IF disturbed[t] THEN @ ELSE @ \cup {hit}]

(* An access through the buffer of chip c's window reaches a place.        *)
Hit(t, c) ==
  /\ Note(t, <<c, ctrl[c], base[c], t>>)
  /\ got' = [got EXCEPT ![t] = IF access[t].write THEN Nothing ELSE <<c, ctrl[c], base[c]>>]

(* One through chip 0's, if that shows a register of another's window, is  *)
(* to that.  A control register that is written anything but a mode has one*)
(* or the other.                                                           *)
Buffer(t) ==
  /\ LET s      == Upcoming(t)
         c      == s[2]
         shown  == IF c = 0 /\ ctrl[0] = "other" /\ base[0] \in Registers
                   THEN base[0] ELSE <<"vbuf", c>>
     IN  /\ s[1] = "vbuf"
         /\ \/ /\ shown[1] = "ctrl"
               /\ \E space \in IF s[3] \in Spaces THEN {s[3]} ELSE Spaces :
                    ctrl' = [ctrl EXCEPT ![shown[2]] = space]
               /\ UNCHANGED <<base, hits, got>>
            \/ /\ shown[1] = "base"
               /\ base' = [base EXCEPT ![shown[2]] = s[3]]
               /\ UNCHANGED <<ctrl, hits, got>>
            \/ shown[1] = "vbuf" /\ Hit(t, shown[2]) /\ UNCHANGED <<ctrl, base>>
  /\ Advance(t)
  /\ UNCHANGED <<wiring, mail, access, disturbed, muddled>>

-----------------------------------------------------------------------------
(* The mailbox.                                                            *)

(* The loop that waits for MEMX_EXTCMD_COMPLETE.                           *)
Wait(t) ==
  /\ Upcoming(t) = <<"wait">> /\ mail.cmd = Nothing
  /\ Advance(t)
  /\ UNCHANGED <<wiring, ctrl, base, mail, access, got, hits, disturbed, muddled>>

(* A second has passed, or all the bits of the command are set because the *)
(* device is gone.  The command is left to the firmware.                   *)
GiveUp(t) ==
  /\ Upcoming(t) = <<"wait">> /\ mail.cmd # Nothing
  /\ End(t)
  /\ mail' = [mail EXCEPT !.by = IF @ = t THEN Nothing ELSE @]

(* memx_sram_write.                                                        *)
Put(t) ==
  /\ LET s == Upcoming(t)
         m == [mail EXCEPT !.pure = ~disturbed[t] /\ (s[1] = "cmd" \/ mail.pure)]
     IN  \/ s[1] = "data" /\ mail' = [m EXCEPT !.data = s[2]]
         \/ s[1] = "word" /\ mail' = [m EXCEPT !.word = s[2]]
         \/ s[1] = "cmd"  /\ mail' = [m EXCEPT !.cmd = s[2], !.by = t]
  /\ Advance(t)
  /\ UNCHANGED <<wiring, ctrl, base, access, got, hits, disturbed, muddled>>

(* memx_sram_read of the answer.                                           *)
Fetch(t) ==
  /\ Upcoming(t) = <<"fetch">>
  /\ got' = [got EXCEPT ![t] = mail.word]
  /\ Advance(t)
  /\ UNCHANGED <<wiring, ctrl, base, mail, access, hits, disturbed, muddled>>

(* The firmware does what the mailbox says.                                *)
Serve ==
  /\ mail.cmd # Nothing
  /\ LET place == <<mail.cmd.chip, mail.cmd.space, mail.data>>
         t     == mail.by
     IN  /\ mail' = [mail EXCEPT !.cmd = Nothing, !.by = Nothing,
                                 !.word = IF mail.cmd.write THEN @ ELSE place]
         /\ IF t = Nothing THEN UNCHANGED hits
            ELSE Note(t, Append(place, IF mail.cmd.write THEN mail.word ELSE t))
  /\ UNCHANGED <<wiring, ctrl, base, access, todo, got, disturbed, muddled>>

Next ==
  \/ \E t \in Threads : Call(t) \/ Return(t) \/ Store(t) \/ Buffer(t) \/ Wait(t) \/ GiveUp(t) \/ Put(t) \/ Fetch(t)
  \/ Serve

Spec == Init /\ [][Next]_vars

-----------------------------------------------------------------------------
(* The types of the variables: a control register holds a mode.            *)
TypeOK ==
  /\ wiring \in Wirings
  /\ ctrl \in [Chips -> Spaces]
  /\ mail.cmd \in Accesses \cup {Nothing}
  /\ access \in [Threads -> Accesses \cup {Nothing}]
  /\ disturbed \in [Threads -> BOOLEAN] /\ muddled \in BOOLEAN

(* The access reaches the place it was meant for, and nothing else, and a  *)
(* read returns what is there, unless another access used the same         *)
(* registers meanwhile or it gave up: whatever earlier ones left behind.   *)
OwnPlace ==
  \A t \in Threads : access[t] # Nothing /\ ~disturbed[t] =>
    LET place == <<access[t].chip, access[t].space, t>> IN
    /\ hits[t] \subseteq {Append(place, t)}
    /\ todo[t] = <<>> => hits[t] # {} /\ (access[t].write \/ got[t] = place)

(* When nobody is at it, every window shows the MPU, however accesses      *)
(* overlapped; other chips' indirect ones only if they never did.          *)
RestIsMpu ==
  (\A t \in Threads : ~Busy(t)) =>
    \A c \in Chips : ctrl[c] = "mpu" \/ (c # 0 /\ muddled)

(* A command that its caller has given up stays what it was until the      *)
(* firmware has served it, unless callers had overlapped.                  *)
PendingIsWhole ==
  mail.cmd # Nothing /\ mail.pure =>
    mail.data \in Threads /\ (mail.cmd.write => mail.word = mail.data)
=============================================================================
