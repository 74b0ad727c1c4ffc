----------------------------- MODULE AdminMailbox -----------------------------
(***************************************************************************)
(* What the command slots of the admin channel promise.  Each chip has a   *)
(* mailbox for one command: it is asked, carries the command out, answers, *)
(* and the answer is taken before the next command is put in.  A command   *)
(* may be forsaken; the mailbox is then astray and promises nothing until  *)
(* it is asked afresh.                                                     *)
(***************************************************************************)
CONSTANT Chips
VARIABLE box

States == {"empty", "asked", "busy", "answered", "astray"}

Init == box = [c \in Chips |-> "empty"]

Move(c, from, to) == box[c] \in from /\ box' = [box EXCEPT ![c] = to]

Ask(c)     == Move(c, {"empty", "astray"}, "asked")
Begin(c)   == Move(c, {"asked"}, "busy")
Answer(c)  == Move(c, {"busy"}, "answered")
Take(c)    == Move(c, {"answered"}, "empty")

(* Commands can be forsaken on several chips at once.                      *)
Forsake ==
  \E lost \in SUBSET {c \in Chips : box[c] # "empty"} :
    box' = [c \in Chips |-> IF c \in lost THEN "astray" ELSE box[c]]

(* An answer that reports an error is taken, and the rest is forsaken.     *)
TakeError ==
  \E d \in Chips, lost \in SUBSET {c \in Chips : box[c] # "empty"} :
    /\ box[d] = "answered"
    /\ box' = [c \in Chips |-> IF c \in lost THEN "astray"
                               ELSE IF c = d THEN "empty" ELSE box[c]]

Next == Forsake \/ TakeError \/ \E c \in Chips : Ask(c) \/ Begin(c) \/ Answer(c) \/ Take(c)

Spec == Init /\ [][Next]_box
=============================================================================
