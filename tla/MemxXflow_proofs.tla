--------------------------- MODULE MemxXflow_proofs ---------------------------
(***************************************************************************)
(* Safety of the access to registers for any number of callers and chips   *)
(* and each of the three ways of access.  An access is a script of stores  *)
(* and waits, and the inductive invariant says, for every position in it,  *)
(* what the access has made of the windows or of the mailbox so far.       *)
(***************************************************************************)
EXTENDS MemxXflow, SequenceTheorems, TLAPS

Values  == Threads \cup Registers \cup Spaces \cup {"touch"}
Items   == {<<"wait">>, <<"fetch">>} \cup ({"data", "word"} \X Threads) \cup ({"cmd"} \X Accesses)
             \cup ({"ctrl"} \X Chips \X Spaces) \cup ({"base", "vbuf"} \X Chips \X Values)

(* Sequences of items, their length and concatenation, under names that the*)
(* provers do not interpret.                                               *)
Scripts   == Seq(Items)
Size(s)   == Len(s)
Cat(s, r) == s \o r

Script(t) == IF wiring = "mailbox" THEN ByMail(t, access[t]) ELSE ByWindow(t, access[t])

(* What t does next is item At(t) of its script, which ends before Over(t).        *)
At(t)   == Size(Script(t)) + 1 - Size(todo[t])
Over(t) == Size(Script(t)) + 1

Mail == [cmd : Accesses \cup {Nothing}, data : Threads \cup {Nothing},
         word : Threads \cup {Nothing} \cup (Chips \X Spaces \X (Threads \cup {Nothing})),
         by : Threads \cup {Nothing}, pure : BOOLEAN]

Types ==
  /\ wiring \in Wirings
  /\ ctrl \in [Chips -> Spaces]
  /\ base \in [Chips -> Values \cup {Nothing}]
  /\ mail \in Mail
  /\ access \in [Threads -> Accesses \cup {Nothing}]
  /\ todo \in [Threads -> Scripts]
  /\ got = [t \in Threads |-> got[t]] /\ hits = [t \in Threads |-> hits[t]]
  /\ disturbed \in [Threads -> BOOLEAN] /\ muddled \in BOOLEAN
  /\ wiring # "mailbox" => mail.cmd = Nothing
  /\ wiring = "mailbox" => \A c \in Chips : ctrl[c] = "mpu"
  /\ wiring = "direct" => \A c \in Chips : base[c] \notin Registers
  /\ base[0] \in Registers => base[0][2] # 0

(* Who is idle has nothing to do; who is not is somewhere in its script,   *)
(* and alone with its registers if it is not disturbed.                    *)
PlaceInv ==
  \A t \in Threads :
    /\ ~Busy(t) => todo[t] = <<>> /\ hits[t] = {}
    /\ Busy(t) =>
         /\ At(t) \in 1..Over(t)
         /\ todo[t] = SubSeq(Script(t), At(t), Size(Script(t)))

AloneInv ==
  \A t, u \in Threads : Busy(t) /\ Busy(u) /\ t # u /\ ~disturbed[t] => ~Conflict(access[t], access[u])

(* What an access that is not disturbed has made of the windows when item  *)
(* k of its script is next.                                                *)
Meant(t) == <<access[t].chip, access[t].space, t>>

Reached(t) ==
  hits[t] = {Append(Meant(t), t)} /\ (access[t].write \/ got[t] = Meant(t))

DirectStage(t, k) ==
  LET c == access[t].chip IN
  /\ k \in 2..4 => ctrl[c] = access[t].space
  /\ k \in 3..5 => base[c] = t
  /\ k <= 3 => hits[t] = {}
  /\ k > 3 => Reached(t)

IndirectStage(t, k) ==
  LET c == access[t].chip IN
  /\ k \in 2..Size(Script(t)) => ctrl[0] = "other"
  /\ k \in {3, 12} => base[0] = <<"ctrl", c>>
  /\ k = 6 => base[0] = <<"base", c>>
  /\ k = 9 => base[0] = <<"vbuf", c>>
  /\ k \in 4..12 => ctrl[c] = access[t].space
  /\ k \in 7..14 => base[c] = t
  /\ k <= 9 => hits[t] = {}
  /\ k > 9 => Reached(t)

(* The same of the mailbox; Sent is the position after the command.        *)
Sent(t) == IF access[t].write THEN 5 ELSE 4

Pending(t) ==
  mail.cmd = access[t] /\ mail.by = t /\ hits[t] = {}

Answered(t) ==
  /\ mail.cmd = Nothing /\ hits[t] = {Append(Meant(t), t)}
  /\ access[t].write \/ mail.word = Meant(t)

MailStage(t, k) ==
  /\ k < Sent(t) => hits[t] = {} /\ mail.by = Nothing
  /\ k \in 2..(Sent(t) - 1) => mail.cmd = Nothing
  /\ k \in 3..Sent(t) => mail.data = t
  /\ k \in 4..Sent(t) /\ access[t].write => mail.word = t
  /\ k = Sent(t) => Pending(t) \/ Answered(t)
  /\ k > Sent(t) => Answered(t)
  /\ k = Over(t) => Reached(t)

Stage(t, k) ==
  IF wiring = "mailbox" THEN MailStage(t, k)
  ELSE IF Via0(access[t].chip) THEN IndirectStage(t, k) ELSE DirectStage(t, k)

StageInv == \A t \in Threads : Busy(t) /\ ~disturbed[t] => Stage(t, At(t))

(* Whoever makes a window show the rest will have it show the MPU again:   *)
(* the windows the host reaches, and the others as long as no two accesses *)
(* have met.                                                               *)
Restores(t, c) ==
  /\ Busy(t) /\ At(t) < Over(t)
  /\ IF Via0(access[t].chip) THEN c = 0 ELSE c = access[t].chip /\ access[t].space = "other"

Shows(t, c) ==
  Busy(t) /\ access[t].chip = c /\ access[t].space = "other" /\ At(t) \in 4..12

RestInv ==
  \A c \in Chips : ctrl[c] = "other" =>
    IF Via0(c) THEN muddled \/ \E t \in Threads : Shows(t, c)
               ELSE \E t \in Threads : Restores(t, c)

CalmInv == wiring = "indirect" /\ ~muddled => \A t \in Threads : Busy(t) => ~disturbed[t]

(* The mailbox: whose command is in it, and that nobody touches it while   *)
(* it is there if its caller was alone when it sent it.                    *)
MailInv ==
  /\ \A t \in Threads : mail.by = t => mail.cmd # Nothing /\ Busy(t) /\ At(t) = Sent(t)
  /\ mail.cmd # Nothing /\ mail.pure =>
       /\ mail.data \in Threads /\ (mail.cmd.write => mail.word = mail.data)
       /\ \A t \in Threads : Busy(t) => At(t) \notin 2..(Sent(t) - 1)

IInv == Types /\ PlaceInv /\ AloneInv /\ StageInv /\ RestInv /\ CalmInv /\ MailInv

-----------------------------------------------------------------------------
(* Scripts, item by item.                                                  *)
LEMMA CatSize ==
  \A s, r \in Scripts : Cat(s, r) \in Scripts /\ Size(Cat(s, r)) = Size(s) + Size(r)
  BY ConcatProperties DEF Scripts, Size, Cat

LEMMA CatLeft == \A s, r \in Scripts : \A i \in 1..Size(s) : Cat(s, r)[i] = s[i]
  <1> SUFFICES ASSUME NEW s \in Seq(Items), NEW r \in Seq(Items), NEW i \in 1..Len(s)
               PROVE  (s \o r)[i] = s[i]
    BY DEF Scripts, Size, Cat
  <1>1. Len(s) \in Nat /\ Len(r) \in Nat
    BY LenProperties
  <1>2. i \in 1..(Len(s) + Len(r)) /\ i <= Len(s)
    BY <1>1
  <1> QED
    BY <1>2, ConcatProperties

LEMMA CatRight ==
  \A s, r \in Scripts : \A j \in (Size(s) + 1)..(Size(s) + Size(r)) : Cat(s, r)[j] = r[j - Size(s)]
  <1> SUFFICES ASSUME NEW s \in Seq(Items), NEW r \in Seq(Items),
                      NEW j \in (Len(s) + 1)..(Len(s) + Len(r))
               PROVE  (s \o r)[j] = r[j - Len(s)]
    BY DEF Scripts, Size, Cat
  <1>1. Len(s) \in Nat /\ Len(r) \in Nat
    BY LenProperties
  <1>2. j \in 1..(Len(s) + Len(r)) /\ ~(j <= Len(s))
    BY <1>1
  <1> QED
    BY <1>2, ConcatProperties

LEMMA ShortScripts ==
  /\ <<>> \in Scripts /\ Size(<<>>) = 0
  /\ \A a \in Items : <<a>> \in Scripts /\ Size(<<a>>) = 1 /\ <<a>>[1] = a
  /\ \A a, b \in Items : <<a, b>> \in Scripts /\ Size(<<a, b>>) = 2
  /\ \A a, b, c \in Items : <<a, b, c>> \in Scripts /\ Size(<<a, b, c>>) = 3
  BY DEF Scripts, Size

(* The items of an access to c in space by t.                              *)
LEMMA WindowItems ==
  ASSUME NEW t \in Threads, NEW c \in Chips, NEW space \in Spaces
  PROVE  /\ <<"ctrl", c, space>> \in Items /\ <<"ctrl", c, "mpu">> \in Items
         /\ <<"base", c, t>> \in Items /\ <<"vbuf", c, "touch">> \in Items
         /\ <<"ctrl", 0, "other">> \in Items /\ <<"ctrl", 0, "mpu">> \in Items
         /\ \A r \in {"ctrl", "base", "vbuf"} : <<"base", 0, <<r, c>>>> \in Items
         /\ <<"vbuf", 0, space>> \in Items /\ <<"vbuf", 0, "mpu">> \in Items
         /\ <<"vbuf", 0, t>> \in Items /\ <<"vbuf", 0, "touch">> \in Items
  BY XflowAssumption DEF Items, Values, Registers, Spaces

LEMMA DirectScript ==
  ASSUME NEW t \in Threads, NEW x \in Accesses, ~Via0(x.chip)
  PROVE  LET s == ByWindow(t, x)
             c == x.chip
         IN  /\ s \in Scripts /\ Size(s) = IF x.space = "mpu" THEN 3 ELSE 4
             /\ s[1] = <<"ctrl", c, x.space>> /\ s[2] = <<"base", c, t>> /\ s[3] = <<"vbuf", c, "touch">>
             /\ x.space # "mpu" => s[4] = <<"ctrl", c, "mpu">>
  <1> DEFINE c == x.chip
             a == <<<<"ctrl", c, x.space>>>>
             b == <<<<"base", c, t>>>>
             d == <<<<"vbuf", c, "touch">>>>
             e == IF x.space = "mpu" THEN <<>> ELSE <<<<"ctrl", c, "mpu">>>>
  <1>1. c \in Chips /\ x.space \in Spaces
    BY DEF Accesses
  <1>2. a \in Scripts /\ b \in Scripts /\ d \in Scripts /\ e \in Scripts
    BY <1>1, WindowItems, ShortScripts
  <1>3. Size(a) = 1 /\ Size(b) = 1 /\ Size(d) = 1 /\ Size(e) = IF x.space = "mpu" THEN 0 ELSE 1
    BY <1>1, WindowItems, ShortScripts
  <1>4. /\ a[1] = <<"ctrl", c, x.space>> /\ b[1] = <<"base", c, t>> /\ d[1] = <<"vbuf", c, "touch">>
        /\ x.space # "mpu" => e[1] = <<"ctrl", c, "mpu">>
    OBVIOUS
  <1>5. Restored(x) = e
    <2>1. Restored(x) = e \o <<>>
      BY DEF Restored, SetMode, Reach
    <2> QED
      BY <1>2, <2>1, ConcatEmptySeq DEF Scripts
  <1>6. ByWindow(t, x) = Cat(Cat(Cat(a, b), d), e)
    BY <1>5 DEF ByWindow, SetMode, SetBase, Touch, Reach, Cat
  <1> HIDE DEF a, b, d, e
  <1> DEFINE f == Cat(Cat(a, b), d)
  <1>7. f \in Scripts /\ Size(f) = 3 /\ f[1] = a[1] /\ f[2] = b[1] /\ f[3] = d[1]
    <2>1. Cat(a, b) \in Scripts /\ Size(Cat(a, b)) = 2
      BY <1>2, <1>3, CatSize
    <2>2. Cat(a, b)[1] = a[1] /\ Cat(a, b)[2] = b[1]
      BY <1>2, <1>3, CatLeft, CatRight
    <2>3. f \in Scripts /\ Size(f) = 3
      BY <1>2, <1>3, <2>1, CatSize
    <2>4. f[1] = Cat(a, b)[1] /\ f[2] = Cat(a, b)[2]
      BY <1>2, <2>1, CatLeft
    <2>5. f[3] = d[1]
      BY <1>2, <1>3, <2>1, CatRight
    <2> QED
      BY <2>2, <2>3, <2>4, <2>5
  <1> HIDE DEF f
  <1>8. Cat(f, e) \in Scripts /\ Size(Cat(f, e)) = 3 + Size(e)
    BY <1>2, <1>7, CatSize
  <1>9. Cat(f, e)[1] = a[1] /\ Cat(f, e)[2] = b[1] /\ Cat(f, e)[3] = d[1]
    BY <1>2, <1>7, CatLeft
  <1>10. Size(e) = 1 => Cat(f, e)[4] = e[1]
    BY <1>2, <1>7, CatRight
  <1>11. ByWindow(t, x) = Cat(f, e)
    BY <1>6 DEF f
  <1> QED
    BY <1>3, <1>4, <1>8, <1>9, <1>10, <1>11

(* Three triples and what is put back.                                     *)
LEMMA IndirectScript ==
  ASSUME NEW t \in Threads, NEW x \in Accesses, Via0(x.chip)
  PROVE  LET s == ByWindow(t, x)
             c == x.chip
         IN  /\ s \in Scripts /\ Size(s) = IF x.space = "mpu" THEN 10 ELSE 13
             /\ s[1] = <<"ctrl", 0, "other">> /\ s[2] = <<"base", 0, <<"ctrl", c>>>>
             /\ s[3] = <<"vbuf", 0, x.space>>
             /\ s[4] = <<"ctrl", 0, "other">> /\ s[5] = <<"base", 0, <<"base", c>>>>
             /\ s[6] = <<"vbuf", 0, t>>
             /\ s[7] = <<"ctrl", 0, "other">> /\ s[8] = <<"base", 0, <<"vbuf", c>>>>
             /\ s[9] = <<"vbuf", 0, "touch">>
             /\ x.space = "mpu" => s[10] = <<"ctrl", 0, "mpu">>
             /\ x.space # "mpu" =>
                  /\ s[10] = <<"ctrl", 0, "other">> /\ s[11] = <<"base", 0, <<"ctrl", c>>>>
                  /\ s[12] = <<"vbuf", 0, "mpu">> /\ s[13] = <<"ctrl", 0, "mpu">>
  <1> DEFINE c == x.chip
             o == <<"ctrl", 0, "other">>
             a == Through0("ctrl", c, x.space)
             b == Through0("base", c, t)
             d == Through0("vbuf", c, "touch")
             e == Through0("ctrl", c, "mpu")
             g == <<<<"ctrl", 0, "mpu">>>>
             h == IF x.space = "mpu" THEN <<>> ELSE e
  <1>1. c \in Chips /\ x.space \in Spaces /\ ~Via0(0)
    BY DEF Accesses, Via0
  <1>2. /\ a \in Scripts /\ Size(a) = 3 /\ b \in Scripts /\ Size(b) = 3
        /\ d \in Scripts /\ Size(d) = 3 /\ e \in Scripts /\ Size(e) = 3
        /\ g \in Scripts /\ Size(g) = 1
    <2>1. /\ o \in Items /\ <<"ctrl", 0, "mpu">> \in Items
          /\ <<"base", 0, <<"ctrl", c>>>> \in Items /\ <<"base", 0, <<"base", c>>>> \in Items
          /\ <<"base", 0, <<"vbuf", c>>>> \in Items
      BY <1>1, WindowItems
    <2>2. /\ <<"vbuf", 0, x.space>> \in Items /\ <<"vbuf", 0, "mpu">> \in Items
          /\ <<"vbuf", 0, t>> \in Items /\ <<"vbuf", 0, "touch">> \in Items
      BY <1>1, WindowItems
    <2>3. g \in Scripts /\ Size(g) = 1
      BY <2>1, ShortScripts
    <2>4. a \in Scripts /\ Size(a) = 3 /\ e \in Scripts /\ Size(e) = 3
      BY <2>1, <2>2, ShortScripts DEF Through0
    <2>5. b \in Scripts /\ Size(b) = 3 /\ d \in Scripts /\ Size(d) = 3
      BY <2>1, <2>2, ShortScripts DEF Through0
    <2> QED
      BY <2>3, <2>4, <2>5
  <1>3. /\ a[1] = o /\ a[2] = <<"base", 0, <<"ctrl", c>>>> /\ a[3] = <<"vbuf", 0, x.space>>
        /\ b[1] = o /\ b[2] = <<"base", 0, <<"base", c>>>> /\ b[3] = <<"vbuf", 0, t>>
        /\ d[1] = o /\ d[2] = <<"base", 0, <<"vbuf", c>>>> /\ d[3] = <<"vbuf", 0, "touch">>
        /\ e[1] = o /\ e[2] = <<"base", 0, <<"ctrl", c>>>> /\ e[3] = <<"vbuf", 0, "mpu">>
        /\ g[1] = <<"ctrl", 0, "mpu">>
    BY DEF Through0
  <1>4. ByWindow(t, x) = Cat(Cat(Cat(a, b), d), Cat(h, g))
    <2>1. Restored(x) = h \o g
      BY <1>1 DEF Restored, SetMode, Reach
    <2> QED
      BY <2>1 DEF ByWindow, SetMode, SetBase, Touch, Reach, Cat
  <1>5. h \in Scripts /\ (x.space = "mpu" => Size(h) = 0) /\ (x.space # "mpu" => h = e)
    BY <1>2, ShortScripts
  <1> DEFINE ab == Cat(a, b)
             f == Cat(ab, d)
             p == Cat(h, g)
  <1> HIDE DEF a, b, d, e, g, h
  <1>6. ab \in Scripts /\ Size(ab) = 6
    BY <1>2, CatSize
  <1>7. ab[1] = a[1] /\ ab[2] = a[2] /\ ab[3] = a[3]
    BY <1>2, CatLeft
  <1>8. ab[4] = b[1] /\ ab[5] = b[2] /\ ab[6] = b[3]
    BY <1>2, CatRight
  <1> HIDE DEF ab
  <1>9. f \in Scripts /\ Size(f) = 9
    BY <1>2, <1>6, CatSize
  <1>10. \A i \in 1..6 : f[i] = ab[i]
    BY <1>2, <1>6, CatLeft
  <1>11. f[7] = d[1] /\ f[8] = d[2] /\ f[9] = d[3]
    BY <1>2, <1>6, CatRight
  <1>12. p \in Scripts /\ Size(p) = IF x.space = "mpu" THEN 1 ELSE 4
    BY <1>2, <1>5, CatSize
  <1>13. x.space = "mpu" => p[1] = g[1]
    BY <1>2, <1>5, CatRight
  <1>14. x.space # "mpu" => p[1] = e[1] /\ p[2] = e[2] /\ p[3] = e[3]
    BY <1>2, <1>5, CatLeft
  <1>15. x.space # "mpu" => p[4] = g[1]
    BY <1>2, <1>5, CatRight
  <1> HIDE DEF f, p
  <1> DEFINE q == Cat(f, p)
  <1>16. q \in Scripts /\ Size(q) = 9 + Size(p)
    BY <1>9, <1>12, CatSize
  <1>17. \A i \in 1..9 : q[i] = f[i]
    BY <1>9, <1>12, CatLeft
  <1>18. q[10] = p[1]
    BY <1>9, <1>12, CatRight
  <1>19. x.space # "mpu" => q[11] = p[2] /\ q[12] = p[3] /\ q[13] = p[4]
    BY <1>9, <1>12, CatRight
  <1>20. ByWindow(t, x) = q
    BY <1>4 DEF ab, f, p
  <1> HIDE DEF q
  <1>21. q \in Scripts /\ Size(q) = IF x.space = "mpu" THEN 10 ELSE 13
    BY <1>12, <1>16
  <1>22. /\ q[1] = a[1] /\ q[2] = a[2] /\ q[3] = a[3] /\ q[4] = b[1] /\ q[5] = b[2] /\ q[6] = b[3]
         /\ q[7] = d[1] /\ q[8] = d[2] /\ q[9] = d[3]
    BY <1>7, <1>8, <1>10, <1>11, <1>17
  <1> QED
    BY <1>3, <1>13, <1>14, <1>15, <1>18, <1>19, <1>20, <1>21, <1>22

LEMMA MailScript ==
  ASSUME NEW t \in Threads, NEW x \in Accesses
  PROVE  LET s == ByMail(t, x)
         IN  /\ s \in Scripts /\ Size(s) = 5
             /\ s[1] = <<"wait">> /\ s[2] = <<"data", t>>
             /\ x.write => s[3] = <<"word", t>> /\ s[4] = <<"cmd", x>> /\ s[5] = <<"wait">>
             /\ ~x.write => s[3] = <<"cmd", x>> /\ s[4] = <<"wait">> /\ s[5] = <<"fetch">>
  <1> DEFINE a == <<<<"wait">>, <<"data", t>>>>
             b == IF x.write THEN <<<<"word", t>>>> ELSE <<>>
             d == <<<<"cmd", x>>, <<"wait">>>>
             e == IF x.write THEN <<>> ELSE <<<<"fetch">>>>
  <1>1. x.write \in BOOLEAN
    BY DEF Accesses
  <1>2. /\ <<"wait">> \in Items /\ <<"fetch">> \in Items /\ <<"data", t>> \in Items
        /\ <<"word", t>> \in Items /\ <<"cmd", x>> \in Items
    BY DEF Items
  <1>3. /\ a \in Scripts /\ Size(a) = 2 /\ a[1] = <<"wait">> /\ a[2] = <<"data", t>>
        /\ d \in Scripts /\ Size(d) = 2 /\ d[1] = <<"cmd", x>> /\ d[2] = <<"wait">>
    BY <1>2, ShortScripts
  <1>4. /\ b \in Scripts /\ (x.write => Size(b) = 1 /\ b[1] = <<"word", t>>) /\ (~x.write => Size(b) = 0)
        /\ e \in Scripts /\ (~x.write => Size(e) = 1 /\ e[1] = <<"fetch">>) /\ (x.write => Size(e) = 0)
    BY <1>2, ShortScripts
  <1>5. ByMail(t, x) = Cat(Cat(Cat(a, b), d), e)
    BY DEF ByMail, Cat
  <1> DEFINE f == Cat(a, b)
             p == Cat(f, d)
  <1> HIDE DEF a, b, d, e
  <1>6. f \in Scripts /\ Size(f) = 2 + Size(b)
    BY <1>3, <1>4, CatSize
  <1>7. f[1] = a[1] /\ f[2] = a[2]
    BY <1>3, <1>4, CatLeft
  <1>8. x.write => f[3] = b[1]
    BY <1>3, <1>4, CatRight
  <1>9. (x.write => Size(f) = 3) /\ (~x.write => Size(f) = 2)
    BY <1>4, <1>6
  <1> HIDE DEF f
  <1>10. p \in Scripts /\ Size(p) = Size(f) + 2
    BY <1>3, <1>6, CatSize
  <1>11. p[1] = f[1] /\ p[2] = f[2] /\ (x.write => p[3] = f[3])
    BY <1>1, <1>3, <1>6, <1>9, CatLeft
  <1>12. x.write => p[4] = d[1] /\ p[5] = d[2]
    BY <1>3, <1>6, <1>9, CatRight
  <1>13. ~x.write => p[3] = d[1] /\ p[4] = d[2]
    BY <1>3, <1>6, <1>9, CatRight
  <1>14. (x.write => Size(p) = 5) /\ (~x.write => Size(p) = 4)
    BY <1>9, <1>10
  <1> HIDE DEF p
  <1> DEFINE q == Cat(p, e)
  <1>15. q \in Scripts /\ Size(q) = Size(p) + Size(e)
    BY <1>4, <1>10, CatSize
  <1>16. \A i \in 1..4 : q[i] = p[i]
    BY <1>1, <1>4, <1>10, <1>14, CatLeft
  <1>17. x.write => q[5] = p[5]
    BY <1>4, <1>10, <1>14, CatLeft
  <1>18. ~x.write => q[5] = e[1]
    BY <1>4, <1>10, <1>14, CatRight
  <1>19. ByMail(t, x) = q
    BY <1>5 DEF f, p
  <1> HIDE DEF q
  <1>20. q \in Scripts /\ Size(q) = 5
    BY <1>1, <1>4, <1>14, <1>15
  <1>21. /\ q[1] = <<"wait">> /\ q[2] = <<"data", t>>
         /\ x.write => q[3] = <<"word", t>> /\ q[4] = <<"cmd", x>> /\ q[5] = <<"wait">>
         /\ ~x.write => q[3] = <<"cmd", x>> /\ q[4] = <<"wait">> /\ q[5] = <<"fetch">>
    BY <1>3, <1>4, <1>7, <1>8, <1>11, <1>12, <1>13, <1>16, <1>17, <1>18
  <1> QED
    BY <1>19, <1>20, <1>21

-----------------------------------------------------------------------------
(* Positions.                                                              *)
Item(t) == Script(t)[At(t)]

LEMMA ScriptFacts ==
  ASSUME Types, NEW t \in Threads, Busy(t)
  PROVE  /\ access[t] \in Accesses /\ access[t].chip \in Chips /\ access[t].space \in Spaces
         /\ access[t].write \in BOOLEAN
         /\ Script(t) \in Scripts /\ Size(Script(t)) \in {3, 4, 5, 10, 13}
         /\ Over(t) = Size(Script(t)) + 1
  <1>1. access[t] \in Accesses
    BY DEF Types, Busy
  <1>2. CASE wiring = "mailbox"
    BY <1>1, <1>2, MailScript DEF Script, Over, Accesses
  <1>3. CASE wiring # "mailbox" /\ Via0(access[t].chip)
    BY <1>1, <1>3, IndirectScript DEF Script, Over, Accesses
  <1>4. CASE wiring # "mailbox" /\ ~Via0(access[t].chip)
    BY <1>1, <1>4, DirectScript DEF Script, Over, Accesses
  <1> QED
    BY <1>2, <1>3, <1>4

(* What remains of a script.                                               *)
LEMMA RestFacts ==
  ASSUME NEW s \in Scripts, NEW k \in Nat, k >= 1, k <= Size(s)
  PROVE  LET r == SubSeq(s, k, Size(s)) IN
         /\ r # <<>> /\ Head(r) = s[k] /\ s[k] \in Items
         /\ Tail(r) = SubSeq(s, k + 1, Size(s))
         /\ Size(r) = Size(s) + 1 - k /\ Size(s) \in Nat
  <1> USE DEF Scripts, Size
  <1>1. Len(s) \in Nat /\ k \in 1..Len(s) /\ Len(s) \in k..Len(s) /\ k \in Int
    BY LenProperties
  <1>2. /\ Head(SubSeq(s, k, Len(s))) = s[k]
        /\ Tail(SubSeq(s, k, Len(s))) = SubSeq(s, k + 1, Len(s))
    BY <1>1, HeadTailOfSubSeq
  <1>3. \A i \in k..Len(s) : s[i] \in Items
    BY <1>1, ElementOfSeq
  <1>4. SubSeq(s, k, Len(s)) \in Seq(Items) /\ Len(SubSeq(s, k, Len(s))) = Len(s) - k + 1
    BY <1>1, <1>3, SubSeqProperties
  <1>5. SubSeq(s, k, Len(s)) # <<>>
    <2> DEFINE r == SubSeq(s, k, Len(s))
    <2>1. Len(r) # 0
      BY <1>1, <1>4
    <2>2. Len(<<>>) = 0
      OBVIOUS
    <2> HIDE DEF r
    <2> QED
      BY <2>1, <2>2 DEF r
  <1>6. Len(s) - k + 1 = Len(s) + 1 - k
    BY <1>1
  <1> QED
    BY <1>1, <1>2, <1>3, <1>4, <1>5, <1>6

LEMMA NoRest ==
  ASSUME NEW s \in Scripts
  PROVE  SubSeq(s, Size(s) + 1, Size(s)) = <<>> /\ Size(s) \in Nat
  <1>1. Len(s) \in Nat
    BY LenProperties DEF Scripts
  <1>2. Len(s) + 1 \in Int /\ Len(s) \in Int /\ Len(s) < Len(s) + 1
    BY <1>1
  <1> QED
    BY <1>1, <1>2, SubSeqEmpty DEF Size

LEMMA RestSize ==
  ASSUME NEW s \in Scripts, NEW k \in Nat, k >= 1, k <= Size(s) + 1
  PROVE  /\ SubSeq(s, k, Size(s)) \in Scripts /\ Size(SubSeq(s, k, Size(s))) = Size(s) + 1 - k
         /\ SubSeq(s, k, Size(s)) = <<>> <=> k = Size(s) + 1
  <1>1. Size(s) \in Nat
    BY LenProperties DEF Scripts, Size
  <1>2. CASE k <= Size(s)
    <2>1. \A i \in k..Len(s) : s[i] \in Items
      BY <1>1, ElementOfSeq DEF Scripts, Size
    <2>2. SubSeq(s, k, Len(s)) \in Seq(Items)
      BY <1>1, <2>1, SubSeqProperties DEF Size
    <2> QED
      BY <1>1, <1>2, <2>2, RestFacts DEF Scripts, Size
  <1>3. CASE k = Size(s) + 1
    <2>1. SubSeq(s, k, Size(s)) = <<>>
      BY <1>3, NoRest
    <2>2. Size(s) + 1 - k = 0
      BY <1>1, <1>3
    <2> QED
      BY <1>3, <2>1, <2>2, ShortScripts
  <1> QED
    BY <1>1, <1>2, <1>3

(* Who does something with its next item.                                  *)
Steps(t) == Store(t) \/ Buffer(t) \/ Wait(t) \/ Put(t) \/ Fetch(t)

LEMMA StepFacts ==
  ASSUME Types, PlaceInv, NEW t \in Threads, Steps(t)
  PROVE  /\ Busy(t) /\ At(t) \in 1..Size(Script(t)) /\ Upcoming(t) = Item(t) /\ Item(t) \in Items
         /\ UNCHANGED <<wiring, access, disturbed, muddled>>
         /\ todo' = [todo EXCEPT ![t] = SubSeq(Script(t), At(t) + 1, Size(Script(t)))]
  <1>1. UNCHANGED <<wiring, access, disturbed, muddled>> /\ Advance(t) /\ Upcoming(t)[1] # "none"
    BY DEF Steps, Store, Buffer, Wait, Put, Fetch
  <1>2. todo[t] # <<>> /\ Upcoming(t) = Head(todo[t])
    BY <1>1 DEF Upcoming
  <1>3. Busy(t)
    BY <1>2 DEF PlaceInv
  <1>4. At(t) \in 1..Over(t) /\ todo[t] = SubSeq(Script(t), At(t), Size(Script(t)))
    BY <1>3 DEF PlaceInv
  <1>5. /\ Script(t) \in Scripts /\ Size(Script(t)) \in Nat
        /\ Over(t) = Size(Script(t)) + 1
    BY <1>3, ScriptFacts
  <1> DEFINE k == At(t)
             r == Script(t)
  <1> HIDE DEF k, r
  <1>6. k \in Nat /\ k >= 1 /\ k <= Size(r)
    <2>1. k # Size(r) + 1
      BY <1>2, <1>4, <1>5, NoRest DEF k, r
    <2> QED
      BY <1>4, <1>5, <2>1 DEF k, r
  <1>7. /\ Head(todo[t]) = r[k] /\ r[k] \in Items
        /\ Tail(todo[t]) = SubSeq(r, k + 1, Size(r))
    BY <1>4, <1>5, <1>6, RestFacts DEF k, r
  <1>8. todo' = [todo EXCEPT ![t] = SubSeq(r, k + 1, Size(r))]
    BY <1>1, <1>7 DEF Advance
  <1>9. k \in 1..Size(r) /\ Upcoming(t) = r[k] /\ r[k] \in Items
    BY <1>2, <1>5, <1>6, <1>7 DEF r
  <1> QED
    BY <1>1, <1>3, <1>8, <1>9 DEF k, r, Item

LEMMA SameScripts ==
  ASSUME UNCHANGED wiring
  PROVE  \A t \in Threads : access'[t] = access[t] => Script(t)' = Script(t) /\ (Busy(t)' <=> Busy(t))
  BY DEF Script, ByMail, ByWindow, SetMode, SetBase, Touch, Restored, Reach, Via0, Through0, Busy

(* A step takes its thread, and nobody else, to the next item.             *)
LEMMA StepMoves ==
  ASSUME Types, PlaceInv, NEW t \in Threads, Steps(t)
  PROVE  /\ At(t)' = At(t) + 1 /\ Script(t)' = Script(t)
         /\ \A u \in Threads \ {t} : At(u)' = At(u) /\ Script(u)' = Script(u) /\ todo'[u] = todo[u]
         /\ \A u \in Threads : Over(u)' = Over(u) /\ (Busy(u)' <=> Busy(u))
         /\ PlaceInv'
  <1>1. /\ Busy(t) /\ At(t) \in 1..Size(Script(t))
        /\ UNCHANGED <<wiring, access, disturbed, muddled>>
        /\ todo' = [todo EXCEPT ![t] = SubSeq(Script(t), At(t) + 1, Size(Script(t)))]
    BY StepFacts
  <1>2. \A u \in Threads : Script(u)' = Script(u) /\ (Busy(u)' <=> Busy(u))
    BY <1>1, SameScripts
  <1>3. \A u \in Threads : Over(u)' = Over(u)
    BY <1>2 DEF Over
  <1>4. Script(t) \in Scripts /\ Size(Script(t)) \in Nat
    BY <1>1, ScriptFacts
  <1>5. todo'[t] = SubSeq(Script(t), At(t) + 1, Size(Script(t)))
    BY <1>1 DEF Types
  <1>6. At(t)' = At(t) + 1
    <2> DEFINE k == At(t) + 1
               r == Script(t)
    <2> HIDE DEF k, r
    <2>1. k \in Nat /\ k >= 1 /\ k <= Size(r) + 1 /\ r \in Scripts /\ Size(r) \in Nat
      BY <1>1, <1>4 DEF k, r
    <2>2. Size(SubSeq(r, k, Size(r))) = Size(r) + 1 - k
      BY <2>1, RestSize
    <2>3. At(t)' = Size(r) + 1 - Size(SubSeq(r, k, Size(r)))
      BY <1>2, <1>5 DEF At, k, r
    <2> QED
      BY <2>1, <2>2, <2>3 DEF k
  <1>7. \A u \in Threads \ {t} : At(u)' = At(u) /\ todo'[u] = todo[u]
    BY <1>1, <1>2 DEF At, Types
  <1>8. \A u \in Threads \ {t} : hits'[u] = hits[u]
    BY DEF Types, Steps, Store, Buffer, Hit, Note, Wait, Put, Fetch
  <1>9. PlaceInv'
    <2>1. ASSUME NEW u \in Threads, u # t
          PROVE  /\ ~Busy(u)' => todo'[u] = <<>> /\ hits'[u] = {}
                 /\ Busy(u)' => /\ At(u)' \in 1..Over(u)'
                                /\ todo'[u] = SubSeq(Script(u)', At(u)', Size(Script(u)'))
      BY <1>2, <1>3, <1>7, <1>8, <2>1 DEF PlaceInv
    <2>2. At(t)' \in 1..Over(t)' /\ todo'[t] = SubSeq(Script(t)', At(t)', Size(Script(t)'))
      BY <1>1, <1>2, <1>3, <1>4, <1>5, <1>6 DEF Over
    <2> QED
      BY <1>1, <1>2, <2>1, <2>2 DEF PlaceInv
  <1> QED
    BY <1>2, <1>3, <1>6, <1>7, <1>9

(* The items of each way of access.                                        *)
LEMMA ItemKinds ==
  ASSUME Types, PlaceInv, NEW t \in Threads, Busy(t), At(t) \in 1..Size(Script(t))
  PROVE  LET i == Item(t)
             c == access[t].chip
         IN  /\ wiring = "mailbox" =>
                  /\ i[1] \in {"wait", "data", "word", "cmd", "fetch"}
                  /\ i[1] \in {"data", "word"} => i[2] = t
                  /\ i[1] = "cmd" => i[2] = access[t]
             /\ wiring # "mailbox" => i[1] \in {"ctrl", "base", "vbuf"}
             /\ wiring # "mailbox" /\ ~Via0(c) =>
                  i[2] = c /\ (i[1] = "base" => i[3] = t) /\ (i[1] = "vbuf" => i[3] = "touch")
             /\ wiring # "mailbox" /\ Via0(c) =>
                  i[2] = 0 /\ (i[1] = "base" => i[3] \in {<<"ctrl", c>>, <<"base", c>>, <<"vbuf", c>>})
  <1> DEFINE k == At(t)
             x == access[t]
  <1>0. x \in Accesses /\ x.write \in BOOLEAN /\ x.space \in Spaces
    BY ScriptFacts
  <1>1. CASE wiring = "mailbox"
    <2>1. Script(t) = ByMail(t, x) /\ k \in 1..5
      BY <1>0, <1>1, MailScript DEF Script
    <2>2. k = 1 \/ k = 2 \/ k = 3 \/ k = 4 \/ k = 5
      BY <2>1
    <2> HIDE DEF k
    <2> QED
      BY <1>0, <1>1, <2>1, <2>2, MailScript DEF Item, k
  <1>2. CASE wiring # "mailbox" /\ ~Via0(x.chip)
    <2>1. Script(t) = ByWindow(t, x) /\ k \in 1..4
      BY <1>0, <1>2, DirectScript DEF Script
    <2>2. k = 1 \/ k = 2 \/ k = 3 \/ (k = 4 /\ x.space # "mpu")
      BY <1>0, <1>2, <2>1, DirectScript DEF Script
    <2> HIDE DEF k
    <2> QED
      BY <1>0, <1>2, <2>1, <2>2, DirectScript DEF Item, k
  <1>3. CASE wiring # "mailbox" /\ Via0(x.chip)
    <2>0. Script(t) = ByWindow(t, x) /\ k \in 1..Size(Script(t))
      BY <1>3 DEF Script
    <2>1. Script(t) = ByWindow(t, x) /\ k \in 1..13 /\ (x.space = "mpu" => k \in 1..10)
      <3>1. Size(ByWindow(t, x)) = IF x.space = "mpu" THEN 10 ELSE 13
        BY <1>0, <1>3, IndirectScript
      <3>2. k \in 1..(IF x.space = "mpu" THEN 10 ELSE 13)
        BY <2>0, <3>1
      <3> HIDE DEF k
      <3>3. k \in 1..13 /\ (x.space = "mpu" => k \in 1..10)
        BY <3>2
      <3> QED
        BY <2>0, <3>3
    <2>2. \/ k = 1 \/ k = 2 \/ k = 3 \/ k = 4 \/ k = 5 \/ k = 6 \/ k = 7 \/ k = 8 \/ k = 9 \/ k = 10
          \/ (x.space # "mpu" /\ (k = 11 \/ k = 12 \/ k = 13))
      BY <2>1
    <2> HIDE DEF k
    <2> QED
      BY <1>0, <1>3, <2>1, <2>2, IndirectScript DEF Item, k
  <1> QED
    BY <1>1, <1>2, <1>3

LEMMA CallMoves ==
  ASSUME Types, PlaceInv, NEW t \in Threads, Call(t)
  PROVE  /\ ~Busy(t) /\ access'[t] \in Accesses /\ Busy(t)' /\ At(t)' = 1 /\ Over(t)' >= 4
         /\ access' = [access EXCEPT ![t] = access'[t]]
         /\ hits[t] = {} /\ UNCHANGED <<wiring, ctrl, base, mail, got, hits>>
         /\ \A u \in Threads \ {t} : /\ At(u)' = At(u) /\ Over(u)' = Over(u) /\ Script(u)' = Script(u)
                                     /\ (Busy(u)' <=> Busy(u)) /\ access'[u] = access[u]
         /\ PlaceInv' /\ todo' \in [Threads -> Scripts]
  <1>1. PICK x \in Accesses :
          /\ access' = [access EXCEPT ![t] = x]
          /\ todo' = [todo EXCEPT ![t] = IF wiring = "mailbox" THEN ByMail(t, x) ELSE ByWindow(t, x)]
    BY DEF Call
  <1>2. /\ ~Busy(t) /\ UNCHANGED <<wiring, ctrl, base, mail, got, hits>>
        /\ access \in [Threads -> Accesses \cup {Nothing}] /\ todo \in [Threads -> Scripts]
    BY DEF Call, Types
  <1>3. hits[t] = {} /\ access'[t] = x /\ Busy(t)'
    BY <1>1, <1>2, XflowAssumption DEF PlaceInv, Busy
  <1>4. todo'[t] = Script(t)'
    <2>1. Script(t)' = IF wiring = "mailbox" THEN ByMail(t, x) ELSE ByWindow(t, x)
      BY <1>2, <1>3 DEF Script, ByMail, ByWindow, SetMode, SetBase, Touch, Restored, Reach, Via0, Through0
    <2> QED
      BY <1>1, <1>2, <2>1
  <1>5. todo'[t] \in Scripts /\ Size(todo'[t]) \in {3, 4, 5, 10, 13}
    <2>1. CASE wiring = "mailbox"
      BY <1>1, <1>2, <2>1, MailScript
    <2>2. CASE wiring # "mailbox" /\ Via0(x.chip)
      BY <1>1, <1>2, <2>2, IndirectScript
    <2>3. CASE wiring # "mailbox" /\ ~Via0(x.chip)
      BY <1>1, <1>2, <2>3, DirectScript
    <2> QED
      BY <2>1, <2>2, <2>3
  <1>6. At(t)' = 1 /\ Over(t)' >= 4
    <2> DEFINE n == Size(todo'[t])
    <2>1. n \in {3, 4, 5, 10, 13}
      BY <1>5
    <2>2. At(t)' = n + 1 - n /\ Over(t)' = n + 1
      BY <1>4 DEF At, Over
    <2> HIDE DEF n
    <2> QED
      BY <2>1, <2>2
  <1>7. \A u \in Threads \ {t} : access'[u] = access[u] /\ todo'[u] = todo[u]
    BY <1>1, <1>2
  <1>8. \A u \in Threads \ {t} : Script(u)' = Script(u) /\ (Busy(u)' <=> Busy(u))
    BY <1>2, <1>7, SameScripts
  <1>9. \A u \in Threads \ {t} : At(u)' = At(u) /\ Over(u)' = Over(u)
    BY <1>7, <1>8 DEF At, Over
  <1>10. todo'[t] = SubSeq(Script(t)', 1, Size(Script(t)'))
    BY <1>4, <1>5, SubSeqFull DEF Size, Scripts
  <1>11. PlaceInv'
    <2>1. ASSUME NEW u \in Threads, u # t
          PROVE  /\ ~Busy(u)' => todo'[u] = <<>> /\ hits'[u] = {}
                 /\ Busy(u)' => /\ At(u)' \in 1..Over(u)'
                                /\ todo'[u] = SubSeq(Script(u)', At(u)', Size(Script(u)'))
      BY <1>2, <1>7, <1>8, <1>9, <2>1 DEF PlaceInv
    <2>2. At(t)' \in 1..Over(t)'
      BY <1>4, <1>5, <1>6 DEF Over
    <2> QED
      BY <1>3, <1>6, <1>10, <2>1, <2>2 DEF PlaceInv
  <1>12. todo' \in [Threads -> Scripts]
    BY <1>1, <1>2, <1>5
  <1> QED
    BY <1>1, <1>2, <1>3, <1>6, <1>7, <1>8, <1>9, <1>11, <1>12

LEMMA EndMoves ==
  ASSUME Types, PlaceInv, NEW t \in Threads, End(t)
  PROVE  /\ ~Busy(t)' /\ UNCHANGED <<wiring, ctrl, base, muddled>>
         /\ \A u \in Threads \ {t} :
              /\ At(u)' = At(u) /\ Over(u)' = Over(u) /\ Script(u)' = Script(u)
              /\ (Busy(u)' <=> Busy(u)) /\ access'[u] = access[u]
              /\ hits'[u] = hits[u] /\ got'[u] = got[u] /\ disturbed'[u] = disturbed[u]
         /\ PlaceInv'
  <1>1. /\ UNCHANGED <<wiring, ctrl, base, muddled>>
        /\ access'[t] = Nothing /\ todo'[t] = <<>> /\ hits'[t] = {}
        /\ \A u \in Threads \ {t} :
             /\ access'[u] = access[u] /\ todo'[u] = todo[u]
             /\ hits'[u] = hits[u] /\ got'[u] = got[u] /\ disturbed'[u] = disturbed[u]
    BY DEF End, Types
  <1>2. \A u \in Threads \ {t} : Script(u)' = Script(u) /\ (Busy(u)' <=> Busy(u))
    BY <1>1, SameScripts
  <1>3. \A u \in Threads \ {t} : At(u)' = At(u) /\ Over(u)' = Over(u)
    BY <1>1, <1>2 DEF At, Over
  <1>4. ~Busy(t)'
    BY <1>1 DEF Busy
  <1>5. PlaceInv'
    <2>1. ASSUME NEW u \in Threads, u # t
          PROVE  /\ ~Busy(u)' => todo'[u] = <<>> /\ hits'[u] = {}
                 /\ Busy(u)' => /\ At(u)' \in 1..Over(u)'
                                /\ todo'[u] = SubSeq(Script(u)', At(u)', Size(Script(u)'))
      BY <1>1, <1>2, <1>3, <2>1 DEF PlaceInv
    <2> QED
      BY <1>1, <1>4, <2>1 DEF PlaceInv
  <1> QED
    BY <1>1, <1>2, <1>3, <1>4, <1>5

LEMMA ServeMoves ==
  ASSUME Types, PlaceInv, MailInv, Serve
  PROVE  /\ wiring = "mailbox"
         /\ UNCHANGED <<wiring, ctrl, base, access, todo, got, disturbed, muddled>>
         /\ \A u \in Threads : /\ At(u)' = At(u) /\ Over(u)' = Over(u) /\ Script(u)' = Script(u)
                               /\ (Busy(u)' <=> Busy(u))
         /\ \A u \in Threads : u # mail.by => hits'[u] = hits[u]
         /\ PlaceInv'
  <1>1. /\ wiring = "mailbox"
        /\ UNCHANGED <<wiring, ctrl, base, access, todo, got, disturbed, muddled>>
    BY DEF Serve, Types
  <1>2. \A u \in Threads : Script(u)' = Script(u) /\ (Busy(u)' <=> Busy(u))
    BY <1>1, SameScripts
  <1>3. \A u \in Threads : At(u)' = At(u) /\ Over(u)' = Over(u)
    BY <1>1, <1>2 DEF At, Over
  <1>4. \A u \in Threads : u # mail.by => hits'[u] = hits[u]
    BY DEF Serve, Note, Types
  <1>5. \A u \in Threads : mail.by = u => Busy(u)
    BY DEF MailInv
  <1>6. PlaceInv'
    <2> SUFFICES ASSUME NEW u \in Threads
                 PROVE  /\ ~Busy(u)' => todo'[u] = <<>> /\ hits'[u] = {}
                        /\ Busy(u)' => /\ At(u)' \in 1..Over(u)'
                                       /\ todo'[u] = SubSeq(Script(u)', At(u)', Size(Script(u)'))
      BY DEF PlaceInv
    <2>1. Busy(u)' => /\ At(u)' \in 1..Over(u)'
                      /\ todo'[u] = SubSeq(Script(u)', At(u)', Size(Script(u)'))
      BY <1>1, <1>2, <1>3 DEF PlaceInv
    <2>2. ~Busy(u) => u # mail.by
      BY <1>5
    <2> QED
      BY <1>1, <1>2, <1>4, <2>1, <2>2 DEF PlaceInv
  <1> QED
    BY <1>1, <1>2, <1>3, <1>4, <1>6

-----------------------------------------------------------------------------
(* What a store and an access through a buffer do to the windows.          *)
LEMMA Wired == Types => wiring \in {"direct", "indirect", "mailbox"}
  BY XflowAssumption DEF Types

LEMMA StoreFacts ==
  ASSUME Types, PlaceInv, NEW t \in Threads, Store(t)
  PROVE  LET i == Item(t)
             c == access[t].chip
         IN  /\ wiring # "mailbox" /\ UNCHANGED <<mail, got, hits>>
             /\ i[2] = IF Via0(c) THEN 0 ELSE c
             /\ \/ /\ i[1] = "ctrl" /\ i[3] \in Spaces
                   /\ ctrl' = [ctrl EXCEPT ![i[2]] = i[3]] /\ UNCHANGED base
                \/ /\ i[1] = "base" /\ i[3] \in Values
                   /\ Via0(c) => i[3] \in {<<"ctrl", c>>, <<"base", c>>, <<"vbuf", c>>}
                   /\ ~Via0(c) => i[3] = t
                   /\ base' = [base EXCEPT ![i[2]] = i[3]] /\ UNCHANGED ctrl
  <1>1. Busy(t) /\ At(t) \in 1..Size(Script(t)) /\ Upcoming(t) = Item(t) /\ Item(t) \in Items
    BY StepFacts DEF Steps
  <1>2. /\ \/ Item(t)[1] = "ctrl" /\ ctrl' = [ctrl EXCEPT ![Item(t)[2]] = Item(t)[3]] /\ UNCHANGED base
           \/ Item(t)[1] = "base" /\ base' = [base EXCEPT ![Item(t)[2]] = Item(t)[3]] /\ UNCHANGED ctrl
        /\ UNCHANGED <<mail, got, hits>>
    BY <1>1 DEF Store
  <1>3. /\ Item(t)[1] = "ctrl" => Item(t)[3] \in Spaces
        /\ Item(t)[1] = "base" => Item(t)[3] \in Values
    BY <1>1 DEF Items
  <1> QED
    BY <1>1, <1>2, <1>3, ItemKinds

Shown(i) ==
  IF i[2] = 0 /\ ctrl[0] = "other" /\ base[0] \in Registers THEN base[0] ELSE <<"vbuf", i[2]>>

LEMMA BufferFacts ==
  ASSUME Types, PlaceInv, NEW t \in Threads, Buffer(t)
  PROVE  LET i == Item(t)
             s == Shown(i)
             c == access[t].chip
         IN  /\ wiring # "mailbox" /\ UNCHANGED mail
             /\ i[1] = "vbuf" /\ i[3] \in Values /\ i[2] = IF Via0(c) THEN 0 ELSE c
             /\ s \in Registers
             /\ s # <<"vbuf", i[2]>> => wiring = "indirect" /\ s[2] # 0
             /\ \/ /\ s[1] = "ctrl"
                   /\ \E space \in Spaces : /\ i[3] \in Spaces => space = i[3]
                                            /\ ctrl' = [ctrl EXCEPT ![s[2]] = space]
                   /\ UNCHANGED <<base, hits, got>>
                \/ s[1] = "base" /\ base' = [base EXCEPT ![s[2]] = i[3]] /\ UNCHANGED <<ctrl, hits, got>>
                \/ s[1] = "vbuf" /\ Hit(t, s[2]) /\ UNCHANGED <<ctrl, base>>
  <1>1. Busy(t) /\ At(t) \in 1..Size(Script(t)) /\ Upcoming(t) = Item(t) /\ Item(t) \in Items
    BY StepFacts DEF Steps
  <1> DEFINE i == Item(t)
             s == Shown(i)
             c == access[t].chip
  <1>2. i[1] = "vbuf" /\ UNCHANGED mail
    BY <1>1 DEF Buffer
  <1>3. i[2] \in Chips /\ i[3] \in Values
    BY <1>1, <1>2 DEF Items
  <1>4. wiring # "mailbox" /\ i[2] = IF Via0(c) THEN 0 ELSE c
    BY <1>1, <1>2, ItemKinds
  <1>5. s \in Registers
    BY <1>3 DEF Shown, Registers
  <1>6. ASSUME s # <<"vbuf", i[2]>>
        PROVE  wiring = "indirect" /\ s[2] # 0
    <2>1. s = base[0] /\ base[0] \in Registers /\ 0 \in Chips
      BY <1>6, XflowAssumption DEF Shown
    <2>2. wiring # "direct" /\ base[0][2] # 0
      BY <2>1 DEF Types
    <2> QED
      BY <1>4, <2>1, <2>2, Wired
  <1>7. \/ /\ s[1] = "ctrl"
           /\ \E space \in IF i[3] \in Spaces THEN {i[3]} ELSE Spaces :
                ctrl' = [ctrl EXCEPT ![s[2]] = space]
           /\ UNCHANGED <<base, hits, got>>
        \/ s[1] = "base" /\ base' = [base EXCEPT ![s[2]] = i[3]] /\ UNCHANGED <<ctrl, hits, got>>
        \/ s[1] = "vbuf" /\ Hit(t, s[2]) /\ UNCHANGED <<ctrl, base>>
    BY <1>1 DEF Buffer, Shown
  <1> QED
    BY <1>2, <1>3, <1>4, <1>5, <1>6, <1>7

LEMMA PutFacts ==
  ASSUME Types, PlaceInv, NEW t \in Threads, Put(t)
  PROVE  LET i == Item(t) IN
         /\ wiring = "mailbox" /\ UNCHANGED <<ctrl, base, got, hits>>
         /\ mail.pure \in BOOLEAN /\ mail'.pure = (~disturbed[t] /\ (i[1] = "cmd" \/ mail.pure))
         /\ \/ /\ i[1] = "data" /\ mail'.data = t
               /\ mail'.cmd = mail.cmd /\ mail'.word = mail.word /\ mail'.by = mail.by
            \/ /\ i[1] = "word" /\ mail'.word = t
               /\ mail'.cmd = mail.cmd /\ mail'.data = mail.data /\ mail'.by = mail.by
            \/ /\ i[1] = "cmd" /\ mail'.cmd = access[t] /\ mail'.by = t
               /\ mail'.data = mail.data /\ mail'.word = mail.word
         /\ mail' \in Mail
  <1>1. Busy(t) /\ At(t) \in 1..Size(Script(t)) /\ Upcoming(t) = Item(t) /\ Item(t) \in Items
    BY StepFacts DEF Steps
  <1> DEFINE i == Item(t)
             m == [mail EXCEPT !.pure = ~disturbed[t] /\ (i[1] = "cmd" \/ mail.pure)]
  <1>2. /\ \/ i[1] = "data" /\ mail' = [m EXCEPT !.data = i[2]]
           \/ i[1] = "word" /\ mail' = [m EXCEPT !.word = i[2]]
           \/ i[1] = "cmd"  /\ mail' = [m EXCEPT !.cmd = i[2], !.by = t]
        /\ UNCHANGED <<ctrl, base, got, hits>>
    BY <1>1 DEF Put
  <1>3. mail \in Mail /\ access[t] \in Accesses
    BY <1>1, ScriptFacts DEF Types
  <1>4. /\ wiring = "mailbox"
        /\ i[1] \in {"data", "word"} => i[2] = t
        /\ i[1] = "cmd" => i[2] = access[t]
    BY <1>1, <1>2, ItemKinds
  <1>5. m \in Mail /\ m.cmd = mail.cmd /\ m.data = mail.data /\ m.word = mail.word /\ m.by = mail.by
        /\ m.pure = (~disturbed[t] /\ (i[1] = "cmd" \/ mail.pure))
    BY <1>3 DEF Mail
  <1> HIDE DEF i, m
  <1>6. mail' \in Mail /\ mail'.pure = m.pure
    <2>1. CASE i[1] = "data" /\ mail' = [m EXCEPT !.data = t]
      BY <1>5, <2>1 DEF Mail
    <2>2. CASE i[1] = "word" /\ mail' = [m EXCEPT !.word = t]
      BY <1>5, <2>2 DEF Mail
    <2>3. CASE i[1] = "cmd" /\ mail' = [m EXCEPT !.cmd = access[t], !.by = t]
      BY <1>3, <1>5, <2>3 DEF Mail
    <2> QED
      BY <1>2, <1>4, <2>1, <2>2, <2>3
  <1>7. \/ /\ i[1] = "data" /\ mail'.data = t
           /\ mail'.cmd = mail.cmd /\ mail'.word = mail.word /\ mail'.by = mail.by
        \/ /\ i[1] = "word" /\ mail'.word = t
           /\ mail'.cmd = mail.cmd /\ mail'.data = mail.data /\ mail'.by = mail.by
        \/ /\ i[1] = "cmd" /\ mail'.cmd = access[t] /\ mail'.by = t
           /\ mail'.data = mail.data /\ mail'.word = mail.word
    BY <1>2, <1>3, <1>4, <1>5 DEF Mail
  <1>8. mail.pure \in BOOLEAN
    BY <1>3 DEF Mail
  <1> QED
    BY <1>2, <1>4, <1>5, <1>6, <1>7, <1>8 DEF i

-----------------------------------------------------------------------------
(* Every step keeps the types.                                             *)
LEMMA CallTypes ==
  ASSUME Types, PlaceInv, NEW t \in Threads, Call(t)
  PROVE  Types'
  <1>1. UNCHANGED <<wiring, ctrl, base, mail, got, hits>> /\ todo' \in [Threads -> Scripts]
    BY CallMoves
  <1>2. PICK x \in Accesses :
          /\ access' = [access EXCEPT ![t] = x]
          /\ disturbed' = [u \in Threads |->
                              IF u = t THEN {v \in Threads : Busy(v) /\ Conflict(access[v], x)} # {}
                              ELSE disturbed[u] \/ u \in {v \in Threads : Busy(v) /\ Conflict(access[v], x)}]
          /\ muddled' = (muddled \/ (wiring = "indirect"
                            /\ {v \in Threads : Busy(v) /\ Conflict(access[v], x)} # {}))
    BY DEF Call
  <1>3. access' \in [Threads -> Accesses \cup {Nothing}]
    BY <1>2 DEF Types
  <1>4. disturbed' \in [Threads -> BOOLEAN]
    BY <1>2 DEF Types
  <1>5. muddled' \in BOOLEAN
    BY <1>2 DEF Types
  <1> QED
    BY <1>1, <1>3, <1>4, <1>5 DEF Types

LEMMA EndTypes ==
  ASSUME Types, NEW t \in Threads, Return(t) \/ GiveUp(t)
  PROVE  Types'
  <1>1. End(t)
    BY DEF Return, GiveUp
  <1>2. /\ UNCHANGED <<wiring, ctrl, base, muddled>>
        /\ access' \in [Threads -> Accesses \cup {Nothing}]
        /\ got' = [u \in Threads |-> got'[u]] /\ hits' = [u \in Threads |-> hits'[u]]
        /\ disturbed' \in [Threads -> BOOLEAN]
    BY <1>1 DEF End, Types
  <1>3. todo' \in [Threads -> Scripts]
    BY <1>1, ShortScripts DEF End, Types
  <1>4. mail' \in Mail /\ mail'.cmd = mail.cmd
    BY DEF Return, GiveUp, Types, Mail
  <1> QED
    BY <1>2, <1>3, <1>4 DEF Types

(* What a step's Advance leaves to do is a script.                         *)
LEMMA StepTodo ==
  ASSUME Types, PlaceInv, NEW t \in Threads, Steps(t)
  PROVE  todo' \in [Threads -> Scripts] /\ UNCHANGED <<wiring, access, disturbed, muddled>>
  <1> DEFINE k == At(t) + 1
             r == Script(t)
  <1>1. /\ Busy(t) /\ At(t) \in 1..Size(r)
        /\ UNCHANGED <<wiring, access, disturbed, muddled>>
        /\ todo' = [todo EXCEPT ![t] = SubSeq(r, k, Size(r))]
    BY StepFacts
  <1>2. r \in Scripts /\ Size(r) \in Nat
    BY <1>1, ScriptFacts
  <1>3. k \in Nat /\ k >= 1 /\ k <= Size(r) + 1
    BY <1>1, <1>2
  <1> HIDE DEF k, r
  <1>4. SubSeq(r, k, Size(r)) \in Scripts
    BY <1>2, <1>3, RestSize
  <1> QED
    BY <1>1, <1>4 DEF Types

LEMMA StoreTypes ==
  ASSUME Types, PlaceInv, NEW t \in Threads, Store(t)
  PROVE  Types'
  <1> DEFINE i == Item(t)
             c == access[t].chip
  <1>1. todo' \in [Threads -> Scripts] /\ UNCHANGED <<wiring, access, disturbed, muddled>>
    BY StepTodo DEF Steps
  <1>2. Busy(t) /\ c \in Chips
    BY StepFacts, ScriptFacts DEF Steps
  <1>3. /\ wiring # "mailbox" /\ UNCHANGED <<mail, got, hits>>
        /\ i[2] = IF Via0(c) THEN 0 ELSE c
        /\ \/ /\ i[1] = "ctrl" /\ i[3] \in Spaces
              /\ ctrl' = [ctrl EXCEPT ![i[2]] = i[3]] /\ UNCHANGED base
           \/ /\ i[1] = "base" /\ i[3] \in Values
              /\ Via0(c) => i[3] \in {<<"ctrl", c>>, <<"base", c>>, <<"vbuf", c>>}
              /\ ~Via0(c) => i[3] = t
              /\ base' = [base EXCEPT ![i[2]] = i[3]] /\ UNCHANGED ctrl
    BY StoreFacts
  <1> HIDE DEF i, c
  <1>4. ctrl' \in [Chips -> Spaces] /\ base' \in [Chips -> Values \cup {Nothing}]
    BY <1>3 DEF Types
  <1>5. t \notin Registers
    BY XflowAssumption
  <1>6. wiring = "direct" => \A d \in Chips : base'[d] \notin Registers
    BY <1>3, <1>5 DEF Types, Via0
  <1>7. base'[0] \in Registers => base'[0][2] # 0
    <2>1. Via0(c) => c # 0
      BY DEF Via0
    <2>2. Via0(c) /\ i[3] \in {<<"ctrl", c>>, <<"base", c>>, <<"vbuf", c>>} => i[3][2] = c
      OBVIOUS
    <2>3. base'[0] = base[0] \/ (Via0(c) /\ base'[0] = i[3] /\ i[3][2] = c) \/ base'[0] = t
      BY <1>3, <2>2, XflowAssumption DEF Types
    <2> QED
      BY <1>5, <2>1, <2>3 DEF Types
  <1> QED
    BY <1>1, <1>3, <1>4, <1>6, <1>7 DEF Types

LEMMA BufferTypes ==
  ASSUME Types, PlaceInv, NEW t \in Threads, Buffer(t)
  PROVE  Types'
  <1> DEFINE i == Item(t)
             s == Shown(i)
  <1>1. todo' \in [Threads -> Scripts] /\ UNCHANGED <<wiring, access, disturbed, muddled>>
    BY StepTodo DEF Steps
  <1>2. /\ wiring # "mailbox" /\ UNCHANGED mail
        /\ i[3] \in Values
        /\ s \in Registers
        /\ s # <<"vbuf", i[2]>> => wiring = "indirect" /\ s[2] # 0
        /\ \/ /\ s[1] = "ctrl"
              /\ \E space \in Spaces : ctrl' = [ctrl EXCEPT ![s[2]] = space]
              /\ UNCHANGED <<base, hits, got>>
           \/ s[1] = "base" /\ base' = [base EXCEPT ![s[2]] = i[3]] /\ UNCHANGED <<ctrl, hits, got>>
           \/ s[1] = "vbuf" /\ Hit(t, s[2]) /\ UNCHANGED <<ctrl, base>>
    BY BufferFacts
  <1>3. s[1] = "base" => s # <<"vbuf", i[2]>>
    OBVIOUS
  <1> HIDE DEF i, s
  <1>4. ctrl' \in [Chips -> Spaces] /\ base' \in [Chips -> Values \cup {Nothing}]
    BY <1>2 DEF Types
  <1>5. got' = [u \in Threads |-> got'[u]] /\ hits' = [u \in Threads |-> hits'[u]]
    BY <1>2 DEF Types, Hit, Note
  <1>6. wiring = "direct" => base' = base
    BY <1>2, <1>3
  <1>7. base'[0] = base[0]
    BY <1>2, <1>3, XflowAssumption DEF Types
  <1> QED
    BY <1>1, <1>2, <1>4, <1>5, <1>6, <1>7 DEF Types

LEMMA MailTypes ==
  ASSUME Types, PlaceInv, NEW t \in Threads, Wait(t) \/ Put(t) \/ Fetch(t)
  PROVE  Types' /\ wiring = "mailbox"
  <1>1. todo' \in [Threads -> Scripts] /\ UNCHANGED <<wiring, access, disturbed, muddled>>
    BY StepTodo DEF Steps
  <1>2. UNCHANGED <<ctrl, base, hits>> /\ got' = [u \in Threads |-> got'[u]]
    BY DEF Wait, Put, Fetch, Types
  <1>3. wiring = "mailbox"
    <2>1. Busy(t) /\ At(t) \in 1..Size(Script(t)) /\ Upcoming(t) = Item(t)
      BY StepFacts DEF Steps
    <2>2. Item(t)[1] \in {"wait", "data", "word", "cmd", "fetch"}
      BY <2>1 DEF Wait, Put, Fetch
    <2> QED
      BY <2>1, <2>2, ItemKinds
  <1>4. mail' \in Mail
    <2>1. CASE Put(t)
      BY <2>1, PutFacts
    <2> QED
      BY <2>1 DEF Wait, Fetch, Types
  <1> QED
    BY <1>1, <1>2, <1>3, <1>4 DEF Types

LEMMA ServeTypes ==
  ASSUME Types, PlaceInv, MailInv, Serve
  PROVE  Types'
  <1>1. /\ UNCHANGED <<wiring, ctrl, base, access, todo, got, disturbed, muddled>>
        /\ wiring = "mailbox"
    BY ServeMoves
  <1>2. hits' = [u \in Threads |-> hits'[u]]
    BY DEF Serve, Note, Types
  <1>3. mail \in Mail /\ mail.cmd \in Accesses
    BY DEF Serve, Types, Mail
  <1>4. mail.cmd.chip \in Chips /\ mail.cmd.space \in Spaces /\ mail.data \in Threads \cup {Nothing}
    BY <1>3 DEF Accesses, Mail
  <1>5. <<mail.cmd.chip, mail.cmd.space, mail.data>> \in Chips \X Spaces \X (Threads \cup {Nothing})
    BY <1>4
  <1>6. mail' \in Mail
    BY <1>3, <1>5 DEF Serve, Mail
  <1> QED
    BY <1>1, <1>2, <1>6 DEF Types

-----------------------------------------------------------------------------
(* Which item is at which position, for each way of access.                *)
LEMMA DirectItem ==
  ASSUME Types, NEW t \in Threads, Busy(t), At(t) \in 1..Size(Script(t)),
         wiring # "mailbox", ~Via0(access[t].chip)
  PROVE  LET i == Item(t)
             x == access[t]
         IN  \/ At(t) = 1 /\ i = <<"ctrl", x.chip, x.space>> /\ Over(t) > 3
             \/ At(t) = 2 /\ i = <<"base", x.chip, t>> /\ Over(t) > 3
             \/ At(t) = 3 /\ i = <<"vbuf", x.chip, "touch">> /\ (Over(t) > 4 <=> x.space # "mpu")
             \/ At(t) = 4 /\ i = <<"ctrl", x.chip, "mpu">> /\ Over(t) = 5
  <1> DEFINE k == At(t)
             x == access[t]
  <1>0. x \in Accesses /\ Over(t) = Size(Script(t)) + 1
    BY ScriptFacts
  <1>1. Script(t) = ByWindow(t, x) /\ k \in 1..4
    BY <1>0, DirectScript DEF Script
  <1>2. k = 1 \/ k = 2 \/ k = 3 \/ (k = 4 /\ x.space # "mpu")
    BY <1>0, <1>1, DirectScript DEF Script
  <1> HIDE DEF k
  <1> QED
    BY <1>0, <1>1, <1>2, DirectScript DEF Item, k

LEMMA IndirectItem ==
  ASSUME Types, NEW t \in Threads, Busy(t), At(t) \in 1..Size(Script(t)),
         wiring # "mailbox", Via0(access[t].chip)
  PROVE  LET i == Item(t)
             c == access[t].chip
         IN  /\ Size(Script(t)) = Over(t) - 1 /\ Over(t) \in {11, 14}
             /\ Over(t) = 14 <=> access[t].space = "other"
             /\ \/ At(t) \in {1, 4, 7} /\ i = <<"ctrl", 0, "other">>
                \/ At(t) = 2 /\ i = <<"base", 0, <<"ctrl", c>>>>
                \/ At(t) = 3 /\ i = <<"vbuf", 0, access[t].space>>
                \/ At(t) = 5 /\ i = <<"base", 0, <<"base", c>>>>
                \/ At(t) = 6 /\ i = <<"vbuf", 0, t>>
                \/ At(t) = 8 /\ i = <<"base", 0, <<"vbuf", c>>>>
                \/ At(t) = 9 /\ i = <<"vbuf", 0, "touch">>
                \/ At(t) = 10 /\ Over(t) = 11 /\ i = <<"ctrl", 0, "mpu">>
                \/ At(t) = 10 /\ Over(t) = 14 /\ i = <<"ctrl", 0, "other">>
                \/ At(t) = 11 /\ Over(t) = 14 /\ i = <<"base", 0, <<"ctrl", c>>>>
                \/ At(t) = 12 /\ Over(t) = 14 /\ i = <<"vbuf", 0, "mpu">>
                \/ At(t) = 13 /\ Over(t) = 14 /\ i = <<"ctrl", 0, "mpu">>
  <1> DEFINE k == At(t)
             x == access[t]
             n == Size(Script(t))
  <1>0. x \in Accesses /\ x.space \in {"mpu", "other"} /\ Over(t) = n + 1
    BY ScriptFacts DEF Spaces
  <1>1. Script(t) = ByWindow(t, x)
    BY DEF Script
  <1>2. n = IF x.space = "mpu" THEN 10 ELSE 13
    BY <1>0, <1>1, IndirectScript
  <1>3. k \in 1..13 /\ (x.space = "mpu" => k \in 1..10)
    BY <1>2
  <1>4. n = Over(t) - 1 /\ Over(t) \in {11, 14} /\ (Over(t) = 14 <=> x.space = "other")
    BY <1>0, <1>2
  <1>5. \/ k \in {1, 4, 7} \/ k = 2 \/ k = 3 \/ k = 5 \/ k = 6 \/ k = 8 \/ k = 9
        \/ (k = 10 /\ x.space = "mpu") \/ (k = 10 /\ x.space # "mpu")
        \/ (x.space # "mpu" /\ (k = 11 \/ k = 12 \/ k = 13))
    BY <1>3
  <1> HIDE DEF k, n
  <1> QED
    BY <1>0, <1>1, <1>4, <1>5, IndirectScript DEF Item, k, n

LEMMA MailItem ==
  ASSUME Types, NEW t \in Threads, Busy(t), At(t) \in 1..Size(Script(t)), wiring = "mailbox"
  PROVE  LET i == Item(t)
             x == access[t]
         IN  /\ Over(t) = 6 /\ x.write \in BOOLEAN
             /\ \/ At(t) = 1 /\ i = <<"wait">>
                \/ At(t) = 2 /\ i = <<"data", t>>
                \/ At(t) = 3 /\ x.write /\ i = <<"word", t>>
                \/ At(t) = 4 /\ x.write /\ i = <<"cmd", x>>
                \/ At(t) = 5 /\ x.write /\ i = <<"wait">>
                \/ At(t) = 3 /\ ~x.write /\ i = <<"cmd", x>>
                \/ At(t) = 4 /\ ~x.write /\ i = <<"wait">>
                \/ At(t) = 5 /\ ~x.write /\ i = <<"fetch">>
  <1> DEFINE k == At(t)
             x == access[t]
  <1>0. x \in Accesses /\ x.write \in BOOLEAN
    BY ScriptFacts
  <1>1. Script(t) = ByMail(t, x) /\ Size(Script(t)) = 5
    BY <1>0, MailScript DEF Script
  <1>2. Over(t) = 6 /\ (k = 1 \/ k = 2 \/ k = 3 \/ k = 4 \/ k = 5)
    BY <1>1 DEF Over
  <1> HIDE DEF k
  <1> QED
    BY <1>0, <1>1, <1>2, MailScript DEF Item, k

-----------------------------------------------------------------------------
(* No two accesses that use the same registers are both undisturbed.       *)
LEMMA AloneStep ==
  ASSUME Types, PlaceInv, AloneInv, NEW t \in Threads,
         Call(t) \/ Return(t) \/ GiveUp(t) \/ Steps(t)
  PROVE  AloneInv'
  <1>1. CASE Call(t)
    <2>1. PICK x \in Accesses :
            /\ access' = [access EXCEPT ![t] = x]
            /\ disturbed' = [u \in Threads |->
                 IF u = t THEN {v \in Threads : Busy(v) /\ Conflict(access[v], x)} # {}
                 ELSE disturbed[u] \/ u \in {v \in Threads : Busy(v) /\ Conflict(access[v], x)}]
      BY <1>1 DEF Call
    <2>2. /\ ~Busy(t) /\ wiring' = wiring /\ access'[t] = x
          /\ \A u \in Threads \ {t} : (Busy(u)' <=> Busy(u)) /\ access'[u] = access[u]
      BY <1>1, <2>1, CallMoves DEF Types
    <2>3. \A y, z \in Accesses : Conflict(y, z)' = Conflict(y, z) /\ (Conflict(y, z) <=> Conflict(z, y))
      BY <2>2 DEF Conflict
    <2>4. ASSUME NEW u \in Threads, NEW v \in Threads, Busy(u)', Busy(v)', u # v, ~disturbed'[u]
          PROVE  ~Conflict(access[u], access[v])'
      <3>1. access'[u] \in Accesses /\ access'[v] \in Accesses
        BY <1>1, <2>4, CallTypes DEF Types, Busy
      <3>2. CASE u # t /\ v # t
        <4>1. ~disturbed[u] /\ Busy(u) /\ Busy(v)
          BY <2>1, <2>2, <2>4, <3>2
        <4>2. ~Conflict(access[u], access[v])
          BY <2>4, <4>1 DEF AloneInv
        <4> QED
          BY <2>2, <3>2, <4>2 DEF Conflict
      <3>3. CASE u = t
        <4>1. Busy(v) /\ access'[v] = access[v]
          BY <2>2, <2>4, <3>3
        <4>2. ~Conflict(access[v], x)
          BY <2>1, <2>4, <3>3, <4>1
        <4> QED
          BY <2>2, <3>3, <4>1, <4>2 DEF Conflict
      <3>4. CASE v = t
        <4>1. Busy(u) /\ access'[u] = access[u]
          BY <2>2, <2>4, <3>4
        <4>2. ~Conflict(access[u], x)
          BY <2>1, <2>4, <3>4, <4>1
        <4> QED
          BY <2>2, <3>4, <4>1, <4>2 DEF Conflict
      <3> QED
        BY <3>2, <3>3, <3>4
    <2> QED
      BY <2>4 DEF AloneInv
  <1>2. CASE Return(t) \/ GiveUp(t)
    <2>1. End(t)
      BY <1>2 DEF Return, GiveUp
    <2>2. /\ ~Busy(t)' /\ wiring' = wiring
          /\ \A u \in Threads \ {t} : /\ (Busy(u)' <=> Busy(u)) /\ access'[u] = access[u]
                                      /\ disturbed'[u] = disturbed[u]
      BY <2>1, EndMoves
    <2>3. ASSUME NEW u \in Threads, NEW v \in Threads, Busy(u)', Busy(v)', u # v, ~disturbed'[u]
          PROVE  ~Conflict(access[u], access[v])'
      <3>1. u # t /\ v # t
        BY <2>2, <2>3
      <3>2. ~Conflict(access[u], access[v])
        BY <2>2, <2>3, <3>1 DEF AloneInv
      <3> QED
        BY <2>2, <3>1, <3>2 DEF Conflict
    <2> QED
      BY <2>3 DEF AloneInv
  <1>3. CASE Steps(t)
    <2>1. UNCHANGED <<wiring, access, disturbed>>
      BY <1>3, StepTodo
    <2> QED
      BY <2>1 DEF AloneInv, Busy, Conflict
  <1> QED
    BY <1>1, <1>2, <1>3

(* Where windows are reached through chip 0's, every two accesses conflict:*)
(* before they ever met nobody is disturbed.                               *)
LEMMA CalmStep ==
  ASSUME Types, PlaceInv, CalmInv, NEW t \in Threads,
         Call(t) \/ Return(t) \/ GiveUp(t) \/ Steps(t)
  PROVE  CalmInv'
  <1>1. CASE Call(t)
    <2>1. PICK x \in Accesses :
            LET others == {v \in Threads : Busy(v) /\ Conflict(access[v], x)} IN
            /\ disturbed' = [u \in Threads |-> IF u = t THEN others # {}
                                               ELSE disturbed[u] \/ u \in others]
            /\ muddled' = (muddled \/ (wiring = "indirect" /\ others # {}))
      BY <1>1 DEF Call
    <2>2. /\ ~Busy(t) /\ wiring' = wiring
          /\ \A u \in Threads \ {t} : Busy(u)' <=> Busy(u)
      BY <1>1, CallMoves
    <2> DEFINE others == {v \in Threads : Busy(v) /\ Conflict(access[v], x)}
    <2>3. others \subseteq Threads
      OBVIOUS
    <2>4. /\ disturbed' = [u \in Threads |-> IF u = t THEN others # {}
                                             ELSE disturbed[u] \/ u \in others]
          /\ muddled' = (muddled \/ (wiring = "indirect" /\ others # {}))
      BY <2>1
    <2> HIDE DEF others
    <2>5. muddled \in BOOLEAN
      BY DEF Types
    <2>6. ASSUME wiring = "indirect", ~muddled', NEW u \in Threads, Busy(u)'
          PROVE  ~disturbed'[u]
      <3>1. ~muddled /\ others = {}
        BY <2>4, <2>5, <2>6
      <3>2. u # t => ~disturbed[u]
        BY <2>2, <2>6, <3>1 DEF CalmInv
      <3> QED
        BY <2>4, <3>1, <3>2
    <2> QED
      BY <2>2, <2>6 DEF CalmInv
  <1>2. CASE Return(t) \/ GiveUp(t)
    <2>1. End(t)
      BY <1>2 DEF Return, GiveUp
    <2>2. /\ ~Busy(t)' /\ UNCHANGED <<wiring, muddled>>
          /\ \A u \in Threads \ {t} : (Busy(u)' <=> Busy(u)) /\ disturbed'[u] = disturbed[u]
      BY <2>1, EndMoves
    <2> QED
      BY <2>2 DEF CalmInv
  <1>3. CASE Steps(t)
    <2>1. UNCHANGED <<wiring, access, disturbed, muddled>>
      BY <1>3, StepTodo
    <2> QED
      BY <2>1 DEF CalmInv, Busy
  <1> QED
    BY <1>1, <1>2, <1>3

-----------------------------------------------------------------------------
(* What a place is made of.                                                *)
LEMMA AppendSame ==
  ASSUME NEW S, NEW s \in Seq(S), NEW d \in S, NEW i \in 1..Len(s)
  PROVE  Append(s, d)[i] = s[i]
  BY AppendProperties

LEMMA Appended ==
  ASSUME NEW a, NEW b, NEW c, NEW d
  PROVE  Append(<<a, b, c>>, d) = <<a, b, c, d>>
  <1> DEFINE S == {a, b, c, d}
             s == <<a, b, c>>
             r == <<a, b, c, d>>
             q == Append(s, d)
  <1>1. s \in Seq(S) /\ Len(s) = 3 /\ r \in Seq(S) /\ Len(r) = 4 /\ d \in S
    OBVIOUS
  <1>2. s[1] = a /\ s[2] = b /\ s[3] = c /\ r[1] = a /\ r[2] = b /\ r[3] = c /\ r[4] = d
    OBVIOUS
  <1> HIDE DEF S, s, r
  <1>3. q \in Seq(S) /\ Len(q) = Len(s) + 1
    BY <1>1, AppendProperties
  <1>4. ASSUME NEW i \in 1..Len(s) PROVE q[i] = s[i]
    BY <1>1, AppendSame, Zenon
  <1>5. q[Len(s) + 1] = d
    BY <1>1, AppendProperties
  <1> HIDE DEF q
  <1>6. Len(q) = 4 /\ q[1] = s[1] /\ q[2] = s[2] /\ q[3] = s[3] /\ q[4] = d
    BY <1>1, <1>3, <1>4, <1>5
  <1>7. \A i \in 1..Len(q) : q[i] = r[i]
    BY <1>2, <1>6
  <1> QED
    BY <1>1, <1>3, <1>6, <1>7, SeqEqual DEF q, s, r

(* What a buffer gives whose window shows what t has asked for.            *)
LEMMA HitReaches ==
  ASSUME Types, NEW t \in Threads, NEW c, c = access[t].chip, Hit(t, c), UNCHANGED access,
         ~disturbed[t], hits[t] = {}, ctrl[c] = access[t].space, base[c] = t
  PROVE  Reached(t)'
  <1>1. hits'[t] = {<<access[t].chip, access[t].space, t, t>>}
    BY DEF Hit, Note, Types
  <1>2. access[t].write \/ got'[t] = <<access[t].chip, access[t].space, t>>
    BY DEF Hit, Types
  <1>3. Append(Meant(t)', t) = <<access[t].chip, access[t].space, t, t>>
    BY Appended DEF Meant
  <1> QED
    BY <1>1, <1>2, <1>3 DEF Reached, Meant

(* Where the buffer leads who is not disturbed.                            *)
LEMMA AimedBuffer ==
  ASSUME Types, PlaceInv, StageInv, NEW t \in Threads, ~disturbed[t], Buffer(t)
  PROVE  LET c == access[t].chip IN
         /\ ~Via0(c) => At(t) = 3 /\ Hit(t, c) /\ UNCHANGED <<ctrl, base>>
         /\ Via0(c) =>
              \/ /\ At(t) = 3 /\ ctrl' = [ctrl EXCEPT ![c] = access[t].space]
                 /\ UNCHANGED <<base, hits, got>>
              \/ /\ At(t) = 6 /\ base' = [base EXCEPT ![c] = t]
                 /\ UNCHANGED <<ctrl, hits, got>>
              \/ At(t) = 9 /\ Hit(t, c) /\ UNCHANGED <<ctrl, base>>
              \/ /\ At(t) = 12 /\ Over(t) = 14 /\ ctrl' = [ctrl EXCEPT ![c] = "mpu"]
                 /\ UNCHANGED <<base, hits, got>>
  <1> DEFINE i == Item(t)
             c == access[t].chip
             s == Shown(i)
  <1>1. /\ Busy(t) /\ At(t) \in 1..Size(Script(t)) /\ c \in Chips /\ access[t].space \in Spaces
        /\ Size(Script(t)) = Over(t) - 1
    <2>1. Busy(t) /\ At(t) \in 1..Size(Script(t))
      BY StepFacts DEF Steps
    <2> QED
      BY <2>1, ScriptFacts
  <1>2. /\ wiring # "mailbox" /\ i[1] = "vbuf" /\ i[2] = IF Via0(c) THEN 0 ELSE c
        /\ \/ /\ s[1] = "ctrl"
              /\ \E space \in Spaces : /\ i[3] \in Spaces => space = i[3]
                                       /\ ctrl' = [ctrl EXCEPT ![s[2]] = space]
              /\ UNCHANGED <<base, hits, got>>
           \/ s[1] = "base" /\ base' = [base EXCEPT ![s[2]] = i[3]] /\ UNCHANGED <<ctrl, hits, got>>
           \/ s[1] = "vbuf" /\ Hit(t, s[2]) /\ UNCHANGED <<ctrl, base>>
    BY BufferFacts
  <1>3. ASSUME ~Via0(c)
        PROVE  At(t) = 3 /\ Hit(t, c) /\ UNCHANGED <<ctrl, base>>
    <2>1. At(t) = 3
      BY <1>1, <1>2, <1>3, DirectItem
    <2>2. base[c] = t
      BY <1>1, <1>2, <1>3, <2>1 DEF StageInv, Stage, DirectStage
    <2>3. s = <<"vbuf", c>>
      BY <1>2, <1>3, <2>2, XflowAssumption DEF Shown
    <2> HIDE DEF i, s
    <2> QED
      BY <1>2, <2>1, <2>3
  <1>4. ASSUME Via0(c)
        PROVE  \/ /\ At(t) = 3 /\ ctrl' = [ctrl EXCEPT ![c] = access[t].space]
                  /\ UNCHANGED <<base, hits, got>>
               \/ /\ At(t) = 6 /\ base' = [base EXCEPT ![c] = t]
                  /\ UNCHANGED <<ctrl, hits, got>>
               \/ At(t) = 9 /\ Hit(t, c) /\ UNCHANGED <<ctrl, base>>
               \/ /\ At(t) = 12 /\ Over(t) = 14 /\ ctrl' = [ctrl EXCEPT ![c] = "mpu"]
                  /\ UNCHANGED <<base, hits, got>>
    <2>1. \/ At(t) = 3 /\ i[3] = access[t].space
          \/ At(t) = 6 /\ i[3] = t
          \/ At(t) = 9
          \/ At(t) = 12 /\ Over(t) = 14 /\ i[3] = "mpu"
      BY <1>1, <1>2, <1>4, IndirectItem
    <2>2. IndirectStage(t, At(t))
      BY <1>1, <1>2, <1>4 DEF StageInv, Stage
    <2>3. ctrl[0] = "other"
      BY <1>1, <2>1, <2>2 DEF IndirectStage
    <2>4. base[0] \in Registers => s = base[0]
      BY <1>2, <1>4, <2>3 DEF Shown
    <2>5. /\ <<"ctrl", c>> \in Registers /\ <<"base", c>> \in Registers /\ <<"vbuf", c>> \in Registers
      BY <1>1 DEF Registers
    <2>6. /\ At(t) \in {3, 12} => s = <<"ctrl", c>>
          /\ At(t) = 6 => s = <<"base", c>>
          /\ At(t) = 9 => s = <<"vbuf", c>>
      BY <2>2, <2>4, <2>5 DEF IndirectStage
    <2> HIDE DEF i, s
    <2>7. CASE At(t) = 3 /\ i[3] = access[t].space
      BY <1>1, <1>2, <2>6, <2>7
    <2>8. CASE At(t) = 6 /\ i[3] = t
      BY <1>2, <2>6, <2>8
    <2>9. CASE At(t) = 9
      BY <1>2, <2>6, <2>9
    <2>10. CASE At(t) = 12 /\ Over(t) = 14 /\ i[3] = "mpu"
      BY <1>1, <1>2, <2>6, <2>10 DEF Spaces
    <2> QED
      BY <2>1, <2>7, <2>8, <2>9, <2>10
  <1> QED
    BY <1>3, <1>4

-----------------------------------------------------------------------------
(* A step of an access that is not disturbed makes of the windows or of the*)
(* mailbox what the next position says.                                    *)
LEMMA DirectOwn ==
  ASSUME Types, PlaceInv, StageInv, NEW t \in Threads, Store(t) \/ Buffer(t), ~disturbed[t],
         ~Via0(access[t].chip)
  PROVE  DirectStage(t, At(t))'
  <1> DEFINE c == access[t].chip
             i == Item(t)
  <1>1. Busy(t) /\ At(t) \in 1..Size(Script(t)) /\ UNCHANGED access
    BY StepFacts DEF Steps
  <1>2. At(t)' = At(t) + 1
    BY StepMoves DEF Steps
  <1>3. wiring # "mailbox" /\ c \in Chips /\ access[t].space \in Spaces
    BY <1>1, StoreFacts, BufferFacts, ScriptFacts
  <1>4. DirectStage(t, At(t))
    BY <1>1, <1>3 DEF StageInv, Stage
  <1>5. ctrl \in [Chips -> Spaces] /\ base \in [Chips -> Values \cup {Nothing}]
    BY DEF Types
  <1>6. CASE Store(t)
    <2>1. /\ UNCHANGED <<got, hits>> /\ i[2] = c
          /\ \/ i[1] = "ctrl" /\ ctrl' = [ctrl EXCEPT ![i[2]] = i[3]] /\ UNCHANGED base
             \/ i[1] = "base" /\ base' = [base EXCEPT ![i[2]] = i[3]] /\ UNCHANGED ctrl
      BY <1>6, StoreFacts
    <2>2. \/ At(t) = 1 /\ i = <<"ctrl", c, access[t].space>>
          \/ At(t) = 2 /\ i = <<"base", c, t>>
          \/ At(t) = 4 /\ i = <<"ctrl", c, "mpu">>
      BY <1>1, <1>3, <2>1, DirectItem
    <2>3. UNCHANGED Reached(t)
      BY <1>1, <2>1 DEF Reached, Meant
    <2> HIDE DEF i
    <2>4. CASE At(t) = 1 /\ i = <<"ctrl", c, access[t].space>>
      <3>1. At(t)' = 2 /\ ctrl'[c] = access[t].space
        BY <1>2, <1>3, <1>5, <2>1, <2>4
      <3> QED
        BY <1>1, <1>4, <2>1, <2>4, <3>1 DEF DirectStage
    <2>5. CASE At(t) = 2 /\ i = <<"base", c, t>>
      <3>1. At(t)' = 3 /\ base'[c] = t /\ ctrl' = ctrl
        BY <1>2, <1>3, <1>5, <2>1, <2>5
      <3> QED
        BY <1>1, <1>4, <2>1, <2>5, <3>1 DEF DirectStage
    <2>6. CASE At(t) = 4 /\ i = <<"ctrl", c, "mpu">>
      <3>1. At(t)' = 5 /\ base' = base
        BY <1>2, <2>1, <2>6
      <3> QED
        BY <1>1, <1>4, <2>3, <2>6, <3>1 DEF DirectStage
    <2> QED
      BY <2>2, <2>4, <2>5, <2>6
  <1>7. CASE Buffer(t)
    <2>1. At(t) = 3 /\ Hit(t, c) /\ UNCHANGED <<ctrl, base>>
      BY <1>7, AimedBuffer
    <2>2. hits[t] = {} /\ ctrl[c] = access[t].space /\ base[c] = t
      BY <1>4, <2>1 DEF DirectStage
    <2>3. Reached(t)'
      BY <1>1, <2>1, <2>2, HitReaches
    <2>4. At(t)' = 4
      BY <1>2, <2>1
    <2> QED
      BY <1>1, <2>1, <2>2, <2>3, <2>4 DEF DirectStage
  <1> QED
    BY <1>6, <1>7

LEMMA IndirectOwn ==
  ASSUME Types, PlaceInv, StageInv, NEW t \in Threads, Store(t) \/ Buffer(t), ~disturbed[t],
         Via0(access[t].chip)
  PROVE  IndirectStage(t, At(t))'
  <1> DEFINE c == access[t].chip
             i == Item(t)
  <1>1. Busy(t) /\ At(t) \in 1..Size(Script(t)) /\ UNCHANGED access
    BY StepFacts DEF Steps
  <1>2. At(t)' = At(t) + 1 /\ Script(t)' = Script(t)
    BY StepMoves DEF Steps
  <1>3. wiring # "mailbox" /\ c \in Chips /\ c # 0 /\ 0 \in Chips /\ access[t].space \in Spaces
    BY <1>1, StoreFacts, BufferFacts, ScriptFacts, XflowAssumption DEF Via0
  <1>4. IndirectStage(t, At(t))
    BY <1>1, <1>3 DEF StageInv, Stage
  <1>5. ctrl \in [Chips -> Spaces] /\ base \in [Chips -> Values \cup {Nothing}]
    BY DEF Types
  <1>6. Size(Script(t)) = Over(t) - 1 /\ Over(t) \in {11, 14}
    BY <1>1, <1>3, IndirectItem
  <1>7. CASE Store(t)
    <2>1. /\ UNCHANGED <<got, hits>>
          /\ \/ i[1] = "ctrl" /\ ctrl' = [ctrl EXCEPT ![i[2]] = i[3]] /\ UNCHANGED base
             \/ i[1] = "base" /\ base' = [base EXCEPT ![i[2]] = i[3]] /\ UNCHANGED ctrl
      BY <1>7, StoreFacts
    <2>2. \/ At(t) \in {1, 4, 7} /\ i = <<"ctrl", 0, "other">>
          \/ At(t) = 2 /\ i = <<"base", 0, <<"ctrl", c>>>>
          \/ At(t) = 5 /\ i = <<"base", 0, <<"base", c>>>>
          \/ At(t) = 8 /\ i = <<"base", 0, <<"vbuf", c>>>>
          \/ At(t) = 10 /\ Over(t) = 11 /\ i = <<"ctrl", 0, "mpu">>
          \/ At(t) = 10 /\ Over(t) = 14 /\ i = <<"ctrl", 0, "other">>
          \/ At(t) = 11 /\ Over(t) = 14 /\ i = <<"base", 0, <<"ctrl", c>>>>
          \/ At(t) = 13 /\ Over(t) = 14 /\ i = <<"ctrl", 0, "mpu">>
      BY <1>1, <1>3, <2>1, IndirectItem
    <2>3. Reached(t)' = Reached(t)
      BY <1>1, <2>1 DEF Reached, Meant
    <2>4. ctrl'[c] = ctrl[c] /\ base'[c] = base[c]
      BY <1>3, <1>5, <2>1, <2>2
    <2> HIDE DEF i
    <2>5. CASE At(t) \in {1, 4, 7} /\ i = <<"ctrl", 0, "other">>
      <3>1. At(t)' \in {2, 5, 8} /\ ctrl'[0] = "other"
        BY <1>2, <1>3, <1>5, <2>1, <2>5
      <3> QED
        BY <1>1, <1>2, <1>4, <2>1, <2>3, <2>4, <2>5, <3>1 DEF IndirectStage
    <2>6. CASE At(t) = 2 /\ i = <<"base", 0, <<"ctrl", c>>>>
      <3>1. At(t)' = 3 /\ ctrl' = ctrl /\ base'[0] = <<"ctrl", c>>
        BY <1>2, <1>3, <1>5, <2>1, <2>6
      <3> QED
        BY <1>1, <1>2, <1>4, <2>1, <2>4, <2>6, <3>1 DEF IndirectStage
    <2>7. CASE At(t) = 5 /\ i = <<"base", 0, <<"base", c>>>>
      <3>1. At(t)' = 6 /\ ctrl' = ctrl /\ base'[0] = <<"base", c>>
        BY <1>2, <1>3, <1>5, <2>1, <2>7
      <3> QED
        BY <1>1, <1>2, <1>4, <1>6, <2>1, <2>4, <2>7, <3>1 DEF IndirectStage
    <2>8. CASE At(t) = 8 /\ i = <<"base", 0, <<"vbuf", c>>>>
      <3>1. At(t)' = 9 /\ ctrl' = ctrl /\ base'[0] = <<"vbuf", c>>
        BY <1>2, <1>3, <1>5, <2>1, <2>8
      <3> QED
        BY <1>1, <1>2, <1>4, <1>6, <2>1, <2>4, <2>8, <3>1 DEF IndirectStage
    <2>9. CASE At(t) = 10 /\ Over(t) = 11
      <3>1. At(t)' = 11 /\ Size(Script(t)) = 10
        BY <1>2, <1>6, <2>9
      <3> QED
        BY <1>1, <1>2, <1>4, <2>3, <2>4, <2>9, <3>1 DEF IndirectStage
    <2>10. CASE At(t) = 10 /\ Over(t) = 14 /\ i = <<"ctrl", 0, "other">>
      <3>1. At(t)' = 11 /\ ctrl'[0] = "other"
        BY <1>2, <1>3, <1>5, <2>1, <2>10
      <3> QED
        BY <1>1, <1>2, <1>4, <2>3, <2>4, <2>10, <3>1 DEF IndirectStage
    <2>11. CASE At(t) = 11 /\ Over(t) = 14 /\ i = <<"base", 0, <<"ctrl", c>>>>
      <3>1. At(t)' = 12 /\ ctrl' = ctrl /\ base'[0] = <<"ctrl", c>> /\ 11 \in 2..Size(Script(t))
        BY <1>2, <1>3, <1>5, <1>6, <2>1, <2>11
      <3> QED
        BY <1>1, <1>2, <1>4, <2>3, <2>4, <2>11, <3>1 DEF IndirectStage
    <2>12. CASE At(t) = 13 /\ Over(t) = 14
      <3>1. At(t)' = 14 /\ Size(Script(t)) = 13
        BY <1>2, <1>6, <2>12
      <3> QED
        BY <1>1, <1>2, <1>4, <2>3, <2>4, <2>12, <3>1 DEF IndirectStage
    <2> QED
      BY <2>2, <2>5, <2>6, <2>7, <2>8, <2>9, <2>10, <2>11, <2>12
  <1>8. CASE Buffer(t)
    <2>1. \/ /\ At(t) = 3 /\ ctrl' = [ctrl EXCEPT ![c] = access[t].space]
             /\ UNCHANGED <<base, hits, got>>
          \/ /\ At(t) = 6 /\ base' = [base EXCEPT ![c] = t]
             /\ UNCHANGED <<ctrl, hits, got>>
          \/ At(t) = 9 /\ Hit(t, c) /\ UNCHANGED <<ctrl, base>>
          \/ /\ At(t) = 12 /\ Over(t) = 14 /\ ctrl' = [ctrl EXCEPT ![c] = "mpu"]
             /\ UNCHANGED <<base, hits, got>>
      BY <1>8, AimedBuffer
    <2>2. CASE At(t) = 3 /\ ctrl' = [ctrl EXCEPT ![c] = access[t].space] /\ UNCHANGED <<base, hits, got>>
      <3>1. At(t)' = 4 /\ ctrl'[c] = access[t].space /\ ctrl'[0] = ctrl[0]
        BY <1>2, <1>3, <1>5, <2>2
      <3> QED
        BY <1>1, <1>2, <1>4, <1>6, <2>2, <3>1 DEF IndirectStage
    <2>3. CASE At(t) = 6 /\ base' = [base EXCEPT ![c] = t] /\ UNCHANGED <<ctrl, hits, got>>
      <3>1. At(t)' = 7 /\ base'[c] = t
        BY <1>2, <1>3, <1>5, <2>3
      <3> QED
        BY <1>1, <1>2, <1>4, <1>6, <2>3, <3>1 DEF IndirectStage
    <2>4. CASE At(t) = 9 /\ Hit(t, c) /\ UNCHANGED <<ctrl, base>>
      <3>1. hits[t] = {} /\ ctrl[c] = access[t].space /\ base[c] = t /\ ctrl[0] = "other"
        BY <1>4, <1>6, <2>4 DEF IndirectStage
      <3>2. Reached(t)'
        BY <1>1, <2>4, <3>1, HitReaches
      <3>3. At(t)' = 10
        BY <1>2, <2>4
      <3> QED
        BY <1>1, <1>2, <2>4, <3>1, <3>2, <3>3 DEF IndirectStage
    <2>5. CASE /\ At(t) = 12 /\ Over(t) = 14 /\ ctrl' = [ctrl EXCEPT ![c] = "mpu"]
               /\ UNCHANGED <<base, hits, got>>
      <3>1. At(t)' = 13 /\ ctrl'[0] = ctrl[0] /\ 12 \in 2..Size(Script(t))
        BY <1>2, <1>3, <1>5, <1>6, <2>5
      <3>2. Reached(t)' = Reached(t)
        BY <1>1, <2>5 DEF Reached, Meant
      <3> QED
        BY <1>1, <1>2, <1>4, <2>5, <3>1, <3>2 DEF IndirectStage
    <2> QED
      BY <2>1, <2>2, <2>3, <2>4, <2>5
  <1> QED
    BY <1>7, <1>8

LEMMA MailOwn ==
  ASSUME Types, PlaceInv, StageInv, NEW t \in Threads, Wait(t) \/ Put(t) \/ Fetch(t), ~disturbed[t]
  PROVE  MailStage(t, At(t))'
  <1> DEFINE i == Item(t)
             x == access[t]
  <1>1. /\ Busy(t) /\ At(t) \in 1..Size(Script(t)) /\ UNCHANGED access /\ Upcoming(t) = i
        /\ wiring = "mailbox" /\ x \in Accesses
    <2>1. Busy(t) /\ At(t) \in 1..Size(Script(t)) /\ UNCHANGED access /\ Upcoming(t) = i
      BY StepFacts DEF Steps
    <2> QED
      BY <2>1, MailTypes, ScriptFacts
  <1>2. At(t)' = At(t) + 1 /\ Over(t)' = Over(t)
    BY StepMoves DEF Steps
  <1>3. MailStage(t, At(t))
    BY <1>1 DEF StageInv, Stage
  <1>4. x.write \in BOOLEAN /\ Over(t) = 6 /\ Nothing \notin Threads \cup Accesses
    BY <1>1, MailItem, XflowAssumption
  <1>5. \/ At(t) = 1 /\ i = <<"wait">>
        \/ At(t) = 2 /\ i = <<"data", t>>
        \/ At(t) = 3 /\ x.write /\ i = <<"word", t>>
        \/ At(t) = 4 /\ x.write /\ i = <<"cmd", x>>
        \/ At(t) = 5 /\ x.write /\ i = <<"wait">>
        \/ At(t) = 3 /\ ~x.write /\ i = <<"cmd", x>>
        \/ At(t) = 4 /\ ~x.write /\ i = <<"wait">>
        \/ At(t) = 5 /\ ~x.write /\ i = <<"fetch">>
    BY <1>1, MailItem
  <1>6. CASE Wait(t)
    <2>1. UNCHANGED <<mail, got, hits>> /\ mail.cmd = Nothing
      BY <1>6 DEF Wait
    <2>2. \/ At(t) = 1 \/ (At(t) = 5 /\ x.write) \/ (At(t) = 4 /\ ~x.write)
      <3>1. i[1] = "wait"
        BY <1>1, <1>6 DEF Wait
      <3> QED
        BY <1>5, <3>1
    <2>3. Meant(t)' = Meant(t)
      BY <1>1 DEF Meant
    <2>4. CASE At(t) = 1
      <3>1. At(t)' = 2 /\ hits[t] = {} /\ mail.by = Nothing
        BY <1>2, <1>3, <2>4 DEF MailStage, Sent
      <3> QED
        BY <1>1, <1>2, <1>4, <2>1, <3>1 DEF MailStage, Sent
    <2>5. CASE At(t) = 5 /\ x.write
      <3>1. ~Pending(t) /\ Answered(t)
        BY <1>1, <1>3, <1>4, <2>1, <2>5 DEF MailStage, Sent, Pending
      <3>2. At(t)' = 6 /\ Answered(t)' /\ Reached(t)'
        BY <1>1, <1>2, <2>1, <2>3, <2>5, <3>1 DEF Answered, Reached
      <3> QED
        BY <1>1, <1>2, <1>4, <2>5, <3>2 DEF MailStage, Sent
    <2>6. CASE At(t) = 4 /\ ~x.write
      <3>1. ~Pending(t) /\ Answered(t)
        BY <1>1, <1>3, <1>4, <2>1, <2>6 DEF MailStage, Sent, Pending
      <3>2. At(t)' = 5 /\ Answered(t)'
        BY <1>1, <1>2, <2>1, <2>3, <2>6, <3>1 DEF Answered
      <3> QED
        BY <1>1, <1>2, <1>4, <2>6, <3>2 DEF MailStage, Sent
    <2> QED
      BY <2>2, <2>4, <2>5, <2>6
  <1>7. CASE Put(t)
    <2>1. /\ UNCHANGED <<got, hits>>
          /\ \/ /\ i[1] = "data" /\ mail'.data = t
                /\ mail'.cmd = mail.cmd /\ mail'.word = mail.word /\ mail'.by = mail.by
             \/ /\ i[1] = "word" /\ mail'.word = t
                /\ mail'.cmd = mail.cmd /\ mail'.data = mail.data /\ mail'.by = mail.by
             \/ /\ i[1] = "cmd" /\ mail'.cmd = x /\ mail'.by = t
                /\ mail'.data = mail.data /\ mail'.word = mail.word
      BY <1>7, PutFacts
    <2>2. \/ At(t) = 2 /\ i[1] = "data"
          \/ At(t) = 3 /\ x.write /\ i[1] = "word"
          \/ At(t) = 4 /\ x.write /\ i[1] = "cmd"
          \/ At(t) = 3 /\ ~x.write /\ i[1] = "cmd"
      BY <1>5, <2>1
    <2> HIDE DEF i
    <2>3. hits[t] = {} /\ mail.by = Nothing /\ mail.cmd = Nothing
      BY <1>3, <1>4, <2>2 DEF MailStage, Sent
    <2>4. CASE At(t) = 2 /\ i[1] = "data"
      <3>1. At(t)' = 3 /\ mail'.data = t /\ mail'.cmd = Nothing /\ mail'.by = Nothing
        BY <1>2, <2>1, <2>3, <2>4
      <3> QED
        BY <1>1, <1>2, <1>4, <2>1, <2>3, <3>1 DEF MailStage, Sent
    <2>5. CASE At(t) = 3 /\ x.write /\ i[1] = "word"
      <3>1. mail.data = t
        BY <1>3, <1>4, <2>5 DEF MailStage, Sent
      <3>2. /\ At(t)' = 4 /\ mail'.data = t /\ mail'.word = t
            /\ mail'.cmd = Nothing /\ mail'.by = Nothing
        BY <1>2, <2>1, <2>3, <2>5, <3>1
      <3> QED
        BY <1>1, <1>2, <1>4, <2>1, <2>3, <2>5, <3>2 DEF MailStage, Sent
    <2>6. CASE At(t) = 4 /\ x.write /\ i[1] = "cmd"
      <3>1. mail.data = t /\ mail.word = t
        BY <1>3, <1>4, <2>6 DEF MailStage, Sent
      <3>2. /\ At(t)' = 5 /\ mail'.data = t /\ mail'.word = t
            /\ mail'.cmd = x /\ mail'.by = t
        BY <1>2, <2>1, <2>6, <3>1
      <3>3. Pending(t)'
        BY <1>1, <2>1, <2>3, <3>2 DEF Pending
      <3> QED
        BY <1>1, <1>2, <1>4, <2>1, <2>6, <3>2, <3>3 DEF MailStage, Sent
    <2>7. CASE At(t) = 3 /\ ~x.write /\ i[1] = "cmd"
      <3>1. mail.data = t
        BY <1>3, <1>4, <2>7 DEF MailStage, Sent
      <3>2. At(t)' = 4 /\ mail'.data = t /\ mail'.cmd = x /\ mail'.by = t
        BY <1>2, <2>1, <2>7, <3>1
      <3>3. Pending(t)'
        BY <1>1, <2>1, <2>3, <3>2 DEF Pending
      <3> QED
        BY <1>1, <1>2, <1>4, <2>1, <2>7, <3>2, <3>3 DEF MailStage, Sent
    <2> QED
      BY <2>2, <2>4, <2>5, <2>6, <2>7
  <1>8. CASE Fetch(t)
    <2>1. UNCHANGED <<mail, hits>> /\ got'[t] = mail.word /\ i[1] = "fetch"
      BY <1>1, <1>8 DEF Fetch, Types
    <2>2. At(t) = 5 /\ ~x.write
      BY <1>5, <2>1
    <2>3. Answered(t)
      BY <1>3, <1>4, <2>2 DEF MailStage, Sent
    <2>4. Meant(t)' = Meant(t) /\ mail.word = Meant(t)
      BY <1>1, <2>2, <2>3 DEF Meant, Answered
    <2>5. At(t)' = 6 /\ Answered(t)' /\ Reached(t)'
      BY <1>1, <1>2, <2>1, <2>2, <2>3, <2>4 DEF Answered, Reached
    <2> QED
      BY <1>1, <1>2, <1>4, <2>2, <2>5 DEF MailStage, Sent
  <1> QED
    BY <1>6, <1>7, <1>8

(* The firmware serves the command of a caller that is not disturbed only  *)
(* when that has sent it.                                                  *)
LEMMA ServeStage ==
  ASSUME Types, PlaceInv, AloneInv, StageInv, MailInv, Serve, NEW t \in Threads, Busy(t), ~disturbed[t]
  PROVE  MailStage(t, At(t))'
  <1> DEFINE x == access[t]
  <1>1. /\ wiring = "mailbox" /\ UNCHANGED <<access, got>>
        /\ At(t)' = At(t) /\ Over(t)' = Over(t) /\ x \in Accesses /\ x.write \in BOOLEAN
    BY ServeMoves, ScriptFacts
  <1>2. MailStage(t, At(t)) /\ mail.cmd # Nothing /\ mail'.cmd = Nothing /\ mail'.by = Nothing
        /\ mail'.data = mail.data
    BY <1>1 DEF StageInv, Stage, Serve, Types, Mail
  <1>3. Nothing \notin Threads \cup Accesses /\ Sent(t)' = Sent(t)
    BY <1>1, XflowAssumption DEF Sent
  <1>4. CASE mail.by = t
    <2>1. At(t) = Sent(t)
      BY <1>3, <1>4 DEF MailInv
    <2>2. Pending(t)
      BY <1>1, <1>2, <2>1 DEF MailStage, Answered, Sent
    <2>3. mail.data = t /\ (x.write => mail.word = t)
      BY <1>1, <1>2, <2>1 DEF MailStage, Sent
    <2>4. /\ mail'.word = IF x.write THEN mail.word ELSE <<x.chip, x.space, t>>
          /\ hits'[t] = {Append(<<x.chip, x.space, t>>, t)}
      BY <1>3, <1>4, <2>2, <2>3 DEF Serve, Pending, Note, Types, Mail
    <2>5. Answered(t)'
      BY <1>1, <1>2, <2>4 DEF Answered, Meant
    <2>6. x.write => mail'.word = t
      BY <2>3, <2>4
    <2>7. Over(t) = 6
      BY <1>1, MailScript DEF Over, Script
    <2> QED
      BY <1>1, <1>2, <1>3, <2>1, <2>3, <2>5, <2>6, <2>7 DEF MailStage, Sent
  <1>5. CASE mail.by # t
    <2>1. mail.by = Nothing
      <3>1. mail.by \in Threads \cup {Nothing}
        BY DEF Types, Mail
      <3>2. ASSUME mail.by \in Threads PROVE FALSE
        <4>1. Busy(mail.by)
          BY <1>3, <3>2 DEF MailInv
        <4>2. ~Conflict(access[t], access[mail.by])
          BY <1>5, <3>2, <4>1 DEF AloneInv
        <4> QED
          BY <1>1, <4>2 DEF Conflict
      <3> QED
        BY <3>1, <3>2
    <2>2. ~Pending(t) /\ ~Answered(t)
      BY <1>2, <1>3, <2>1 DEF Pending, Answered
    <2>3. At(t) \in Nat /\ At(t) = 1
      <3>1. At(t) \in 1..Over(t) /\ Over(t) \in Nat
        BY ScriptFacts DEF PlaceInv
      <3> QED
        BY <1>1, <1>2, <2>2, <3>1 DEF MailStage, Sent
    <2>4. hits'[t] = hits[t] /\ hits[t] = {}
      <3>1. hits'[t] = hits[t]
        BY <1>5, ServeMoves
      <3> QED
        BY <1>1, <1>2, <2>3, <3>1 DEF MailStage, Sent
    <2>5. Over(t) >= 4
      BY ScriptFacts
    <2> QED
      BY <1>1, <1>2, <1>3, <2>3, <2>4, <2>5 DEF MailStage, Sent
  <1> QED
    BY <1>4, <1>5

(* Every step leaves everybody who is not disturbed at a stage: who does   *)
(* not take it has other registers.                                        *)
LEMMA StageStep ==
  ASSUME Types, PlaceInv, AloneInv, StageInv, MailInv, NEW t \in Threads,
         Call(t) \/ Return(t) \/ GiveUp(t) \/ Steps(t)
  PROVE  StageInv'
  <1>1. CASE Call(t)
    <2>1. PICK x \in Accesses :
            LET others == {v \in Threads : Busy(v) /\ Conflict(access[v], x)} IN
            disturbed' = [u \in Threads |-> IF u = t THEN others # {}
                                            ELSE disturbed[u] \/ u \in others]
      BY <1>1 DEF Call
    <2>2. /\ ~Busy(t) /\ At(t)' = 1 /\ Over(t)' >= 4 /\ hits[t] = {} /\ access'[t] \in Accesses
          /\ UNCHANGED <<wiring, ctrl, base, mail, got, hits>>
          /\ \A u \in Threads \ {t} : /\ At(u)' = At(u) /\ Over(u)' = Over(u) /\ Script(u)' = Script(u)
                                      /\ (Busy(u)' <=> Busy(u)) /\ access'[u] = access[u]
      BY <1>1, CallMoves
    <2>3. ASSUME NEW u \in Threads, u # t, Busy(u)', ~disturbed'[u]
          PROVE  Stage(u, At(u))'
      <3>1. Busy(u) /\ ~disturbed[u]
        BY <2>1, <2>2, <2>3
      <3>2. Stage(u, At(u))
        BY <3>1 DEF StageInv
      <3>3. At(u)' = At(u) /\ Over(u)' = Over(u) /\ Script(u)' = Script(u) /\ access'[u] = access[u]
        BY <2>2, <2>3
      <3> QED
        BY <2>2, <3>2, <3>3 DEF Stage, MailStage, DirectStage, IndirectStage, Sent, Pending, Answered,
                                Reached, Meant, Via0
    <2>4. ASSUME ~disturbed'[t]
          PROVE  Stage(t, 1)'
      <3>1. wiring = "mailbox" => mail.by = Nothing
        <4>1. mail.by \in Threads \cup {Nothing}
          BY DEF Types, Mail
        <4>2. ASSUME wiring = "mailbox", mail.by \in Threads PROVE FALSE
          <5>1. Busy(mail.by)
            BY <4>2, XflowAssumption DEF MailInv
          <5>2. Conflict(access[mail.by], x)
            BY <4>2 DEF Conflict
          <5> QED
            BY <2>1, <2>4, <4>2, <5>1, <5>2
        <4> QED
          BY <4>1, <4>2
      <3>2. access'[t].write \in BOOLEAN
        BY <2>2 DEF Accesses
      <3> QED
        BY <2>2, <3>1, <3>2 DEF Stage, MailStage, DirectStage, IndirectStage, Sent
    <2> QED
      BY <2>2, <2>3, <2>4 DEF StageInv
  <1>2. CASE Return(t) \/ GiveUp(t)
    <2>1. End(t)
      BY <1>2 DEF Return, GiveUp
    <2>2. /\ ~Busy(t)' /\ UNCHANGED <<wiring, ctrl, base, muddled>>
          /\ \A u \in Threads \ {t} :
               /\ At(u)' = At(u) /\ Over(u)' = Over(u) /\ Script(u)' = Script(u)
               /\ (Busy(u)' <=> Busy(u)) /\ access'[u] = access[u]
               /\ hits'[u] = hits[u] /\ got'[u] = got[u] /\ disturbed'[u] = disturbed[u]
      BY <2>1, EndMoves
    <2>3. wiring # "mailbox" => mail' = mail
      BY <1>2 DEF Return, GiveUp, Types
    <2>4. Busy(t)
      BY <1>2 DEF Return, GiveUp, PlaceInv, Upcoming
    <2>5. ASSUME NEW u \in Threads, u # t, Busy(u)', ~disturbed'[u]
          PROVE  Stage(u, At(u))'
      <3>1. Busy(u) /\ ~disturbed[u]
        BY <2>2, <2>5
      <3>2. Stage(u, At(u))
        BY <3>1 DEF StageInv
      <3>3. /\ At(u)' = At(u) /\ Over(u)' = Over(u) /\ Script(u)' = Script(u) /\ access'[u] = access[u]
            /\ hits'[u] = hits[u] /\ got'[u] = got[u]
        BY <2>2, <2>5
      <3>4. wiring # "mailbox"
        BY <2>4, <2>5, <3>1 DEF AloneInv, Conflict
      <3> QED
        BY <2>2, <2>3, <3>2, <3>3, <3>4 DEF Stage, DirectStage, IndirectStage, Reached, Meant, Via0
    <2> QED
      BY <2>2, <2>5 DEF StageInv
  <1>3. CASE Steps(t)
    <2>1. /\ Busy(t) /\ At(t) \in 1..Size(Script(t)) /\ UNCHANGED <<wiring, access, disturbed>>
      BY <1>3, StepFacts
    <2>2. /\ \A u \in Threads \ {t} : At(u)' = At(u) /\ Script(u)' = Script(u)
          /\ \A u \in Threads : Over(u)' = Over(u) /\ (Busy(u)' <=> Busy(u))
      BY <1>3, StepMoves
    <2>3. ASSUME ~disturbed[t]
          PROVE  Stage(t, At(t))'
      <3>1. CASE Wait(t) \/ Put(t) \/ Fetch(t)
        BY <2>1, <2>3, <3>1, MailOwn, MailTypes DEF Stage
      <3>2. CASE (Store(t) \/ Buffer(t)) /\ Via0(access[t].chip)
        <4>1. wiring # "mailbox" /\ Via0(access[t].chip)'
          BY <2>1, <3>2, StoreFacts, BufferFacts DEF Via0
        <4> QED
          BY <2>1, <2>3, <3>2, <4>1, IndirectOwn DEF Stage
      <3>3. CASE (Store(t) \/ Buffer(t)) /\ ~Via0(access[t].chip)
        <4>1. wiring # "mailbox" /\ ~Via0(access[t].chip)'
          BY <2>1, <3>3, StoreFacts, BufferFacts DEF Via0
        <4> QED
          BY <2>1, <2>3, <3>3, <4>1, DirectOwn DEF Stage
      <3> QED
        BY <1>3, <3>1, <3>2, <3>3 DEF Steps
    <2>4. ASSUME NEW u \in Threads, u # t, Busy(u), ~disturbed[u]
          PROVE  Stage(u, At(u))'
      <3>1. wiring = "direct" /\ access[u].chip # access[t].chip
        BY <2>1, <2>4 DEF AloneInv, Conflict
      <3>2. Stage(u, At(u))
        BY <2>4 DEF StageInv
      <3>3. At(u)' = At(u) /\ ~Via0(access[u].chip) /\ ~Via0(access[t].chip)
        BY <2>2, <2>4, <3>1 DEF Via0
      <3>4. Store(t) \/ Buffer(t)
        BY <1>3, <3>1, MailTypes DEF Steps
      <3> DEFINE d == access[u].chip
      <3>5. ctrl'[d] = ctrl[d] /\ base'[d] = base[d] /\ hits'[u] = hits[u] /\ got'[u] = got[u]
        <4>1. d \in Chips
          BY <2>4, ScriptFacts
        <4>2. CASE Store(t)
          <5>1. /\ UNCHANGED <<got, hits>>
                /\ \/ ctrl' = [ctrl EXCEPT ![access[t].chip] = Item(t)[3]] /\ UNCHANGED base
                   \/ base' = [base EXCEPT ![access[t].chip] = Item(t)[3]] /\ UNCHANGED ctrl
            BY <3>3, <4>2, StoreFacts
          <5> QED
            BY <3>1, <4>1, <5>1 DEF Types
        <4>3. CASE Buffer(t)
          <5>1. LET i == Item(t)
                    s == Shown(i)
                IN  /\ s = <<"vbuf", i[2]>>
                    /\ \/ s[1] = "ctrl" \/ s[1] = "base"
                       \/ s[1] = "vbuf" /\ Hit(t, s[2]) /\ UNCHANGED <<ctrl, base>>
            BY <3>1, <4>3, BufferFacts
          <5>2. PICK c : Hit(t, c) /\ UNCHANGED <<ctrl, base>>
            BY <5>1
          <5> QED
            BY <2>4, <5>2 DEF Hit, Note, Types
        <4> QED
          BY <3>4, <4>2, <4>3
      <3>6. access'[u] = access[u] /\ wiring' = wiring
        BY <2>1
      <3>7. DirectStage(u, At(u))
        BY <3>1, <3>2, <3>3 DEF Stage
      <3>8. DirectStage(u, At(u))'
        BY <3>3, <3>5, <3>6, <3>7 DEF DirectStage, Reached, Meant
      <3> QED
        BY <3>1, <3>6, <3>8 DEF Stage, Via0
    <2> QED
      BY <2>1, <2>2, <2>3, <2>4 DEF StageInv
  <1> QED
    BY <1>1, <1>2, <1>3

-----------------------------------------------------------------------------
(* A step leaves a window showing the rest only if somebody will restore   *)
(* it, or if two accesses met.                                             *)
LEMMA RestStep ==
  ASSUME Types, PlaceInv, StageInv, CalmInv, RestInv, Types', NEW t \in Threads,
         Call(t) \/ Return(t) \/ GiveUp(t) \/ Steps(t)
  PROVE  RestInv'
  <1> SUFFICES ASSUME NEW c \in Chips, ctrl'[c] = "other"
               PROVE  IF Via0(c)' THEN muddled' \/ \E u \in Threads : Shows(u, c)'
                                  ELSE \E u \in Threads : Restores(u, c)'
    BY DEF RestInv
  <1>0. wiring' = wiring /\ (Via0(c)' <=> Via0(c)) /\ ctrl \in [Chips -> Spaces]
    <2>1. wiring' = wiring
      BY DEF Call, Return, GiveUp, End, Steps, Store, Buffer, Wait, Put, Fetch
    <2> QED
      BY <2>1 DEF Via0, Types
  <1>a. wiring # "mailbox"
    BY <1>0 DEF Types
  (* Who has not moved does what it would have done.                       *)
  <1>1. ASSUME NEW u \in Threads, At(u)' = At(u), Over(u)' = Over(u), Busy(u)' <=> Busy(u),
               access'[u] = access[u]
        PROVE  (Shows(u, c)' <=> Shows(u, c)) /\ (Restores(u, c)' <=> Restores(u, c))
    BY <1>0, <1>1 DEF Shows, Restores, Via0
  <1>2. CASE Call(t)
    <2>1. /\ ~Busy(t) /\ ctrl' = ctrl
          /\ \A u \in Threads \ {t} : /\ At(u)' = At(u) /\ Over(u)' = Over(u)
                                      /\ (Busy(u)' <=> Busy(u)) /\ access'[u] = access[u]
      BY <1>2, CallMoves
    <2>2. muddled => muddled'
      BY <1>2 DEF Call
    <2>3. ~Shows(t, c) /\ ~Restores(t, c)
      BY <2>1 DEF Shows, Restores
    <2>4. IF Via0(c) THEN muddled \/ \E u \in Threads : Shows(u, c)
                     ELSE \E u \in Threads : Restores(u, c)
      BY <2>1 DEF RestInv
    <2> QED
      BY <1>0, <1>1, <2>1, <2>2, <2>3, <2>4
  <1>3. CASE Return(t) \/ GiveUp(t)
    <2>1. /\ ctrl' = ctrl /\ muddled' = muddled
          /\ \A u \in Threads \ {t} : /\ At(u)' = At(u) /\ Over(u)' = Over(u)
                                      /\ (Busy(u)' <=> Busy(u)) /\ access'[u] = access[u]
      BY <1>3, EndMoves DEF Return, GiveUp
    <2>2. IF Via0(c) THEN muddled \/ \E u \in Threads : Shows(u, c)
                     ELSE \E u \in Threads : Restores(u, c)
      BY <2>1 DEF RestInv
    <2>3. Return(t)
      <3>1. ASSUME GiveUp(t) PROVE FALSE
        BY <1>a, <3>1 DEF GiveUp, Types
      <3> QED
        BY <1>3, <3>1
    <2>4. At(t) = Over(t)
      <3> DEFINE k == At(t)
                 r == Script(t)
      <3>1. Busy(t) /\ todo[t] = <<>>
        BY <2>3 DEF Return
      <3>2. r \in Scripts /\ Over(t) = Size(r) + 1 /\ Size(r) \in Nat
        BY <3>1, ScriptFacts
      <3>3. k \in 1..Over(t) /\ todo[t] = SubSeq(r, k, Size(r))
        BY <3>1 DEF PlaceInv
      <3> HIDE DEF k, r
      <3>4. k \in Nat /\ k >= 1 /\ k <= Size(r) + 1
        BY <3>2, <3>3
      <3>5. k = Size(r) + 1
        BY <3>1, <3>2, <3>3, <3>4, RestSize
      <3> QED
        BY <3>2, <3>5 DEF k
    <2>5. ~Restores(t, c)
      <3>1. Over(t) \in Nat
        BY <2>3, ScriptFacts DEF Return
      <3> QED
        BY <2>4, <3>1 DEF Restores
    <2>6. Via0(c) => ~Shows(t, c)
      <3>1. ASSUME Via0(c), Shows(t, c) PROVE FALSE
        <4>1. Busy(t) /\ access[t].chip = c /\ access[t].space = "other" /\ At(t) \in 4..12
          BY <3>1 DEF Shows
        <4>2. access[t] \in Accesses
          BY <4>1, ScriptFacts
        <4>3. Size(Script(t)) = 13
          BY <1>a, <3>1, <4>1, <4>2, IndirectScript DEF Script
        <4> QED
          BY <2>4, <4>1, <4>3 DEF Over
      <3> QED
        BY <3>1
    <2> QED
      BY <1>0, <1>1, <2>1, <2>2, <2>5, <2>6
  <1>4. CASE Store(t) \/ Buffer(t)
    <2> DEFINE i == Item(t)
               d == access[t].chip
    <2>1. /\ Busy(t) /\ At(t) \in 1..Size(Script(t)) /\ UNCHANGED <<access, disturbed, muddled>>
          /\ access[t] \in Accesses /\ d \in Chips /\ access[t].space \in Spaces
          /\ Over(t) = Size(Script(t)) + 1 /\ Size(Script(t)) \in {3, 4, 5, 10, 13}
      <3>1. Busy(t) /\ At(t) \in 1..Size(Script(t)) /\ UNCHANGED <<access, disturbed, muddled>>
        BY <1>4, StepFacts DEF Steps
      <3> QED
        BY <3>1, ScriptFacts
    <2>2. /\ At(t)' = At(t) + 1 /\ \A u \in Threads \ {t} : At(u)' = At(u)
          /\ \A u \in Threads : Over(u)' = Over(u) /\ (Busy(u)' <=> Busy(u))
      BY <1>4, StepMoves DEF Steps
    <2>3. ASSUME NEW u \in Threads, u # t
          PROVE  (Shows(u, c)' <=> Shows(u, c)) /\ (Restores(u, c)' <=> Restores(u, c))
      BY <1>1, <2>1, <2>2, <2>3
    (* The last item makes a window show the MPU, or comes after nothing   *)
    (* that need be restored.                                              *)
    <2>4. ASSUME Via0(d), i # <<"ctrl", 0, "mpu">> PROVE Restores(t, 0)'
      <3>1. At(t) + 1 < Over(t)
        BY <1>a, <2>1, <2>4, IndirectItem
      <3> QED
        BY <1>0, <2>1, <2>2, <2>4, <3>1 DEF Restores, Via0
    <2>5. ASSUME ~Via0(d), c = d, access[t].space = "other", i # <<"ctrl", d, "mpu">>
          PROVE  Restores(t, c)'
      <3>1. At(t) + 1 < Over(t)
        BY <1>a, <2>1, <2>5, DirectItem
      <3> QED
        BY <1>0, <2>1, <2>2, <2>5, <3>1 DEF Restores, Via0
    (* Who was to restore the window, or had made it show the rest, still  *)
    (* is unless it has just made it show the MPU.                         *)
    <2>6. ASSUME ~Via0(c), ctrl[c] = "other" PROVE \E u \in Threads : Restores(u, c)'
      <3>1. PICK u \in Threads : Restores(u, c)
        BY <2>6 DEF RestInv
      <3>2. CASE u # t
        BY <2>3, <3>1, <3>2
      <3>3. CASE u = t /\ Via0(d)
        <4>1. c = 0
          BY <3>1, <3>3 DEF Restores
        <4>2. i # <<"ctrl", 0, "mpu">>
          <5>1. ASSUME i = <<"ctrl", 0, "mpu">> PROVE FALSE
            <6>1. Store(t)
              BY <1>4, <5>1, BufferFacts
            <6>2. ctrl' = [ctrl EXCEPT ![0] = "mpu"]
              BY <5>1, <6>1, StoreFacts
            <6> QED
              BY <1>0, <4>1, <6>2
          <5> QED
            BY <5>1
        <4> QED
          BY <2>4, <3>3, <4>1, <4>2
      <3>4. CASE u = t /\ ~Via0(d)
        <4>1. c = d /\ access[t].space = "other"
          BY <3>1, <3>4 DEF Restores
        <4>2. i # <<"ctrl", d, "mpu">>
          <5>1. ASSUME i = <<"ctrl", d, "mpu">> PROVE FALSE
            <6>1. Store(t)
              BY <1>4, <5>1, BufferFacts
            <6>2. ctrl' = [ctrl EXCEPT ![d] = "mpu"]
              BY <5>1, <6>1, StoreFacts
            <6> QED
              BY <1>0, <4>1, <6>2
          <5> QED
            BY <5>1
        <4> QED
          BY <2>5, <3>4, <4>1, <4>2
      <3> QED
        BY <3>2, <3>3, <3>4
    <2>7. ASSUME Via0(c), ctrl[c] = "other", ~muddled PROVE \E u \in Threads : Shows(u, c)'
      <3>1. PICK u \in Threads : Shows(u, c)
        BY <2>7 DEF RestInv
      <3>2. CASE u # t
        BY <2>3, <3>1, <3>2
      <3>3. CASE u = t
        <4>1. d = c /\ access[t].space = "other" /\ At(t) \in 4..12
          BY <3>1, <3>3 DEF Shows
        <4>2. At(t) # 12
          <5>1. ASSUME At(t) = 12 PROVE FALSE
            <6>1. i = <<"vbuf", 0, "mpu">>
              BY <1>a, <2>1, <2>7, <4>1, <5>1, IndirectItem
            <6>2. Buffer(t)
              BY <1>4, <6>1, StoreFacts
            <6>3. ~disturbed[t]
              BY <2>1, <2>7 DEF CalmInv, Via0
            <6>4. ctrl' = [ctrl EXCEPT ![c] = "mpu"]
              BY <2>7, <4>1, <5>1, <6>2, <6>3, AimedBuffer
            <6> QED
              BY <1>0, <6>4
          <5> QED
            BY <5>1
        <4>3. At(t) + 1 \in 4..12
          BY <4>1, <4>2
        <4> QED
          BY <2>1, <2>2, <4>1, <4>3 DEF Shows
      <3> QED
        BY <3>2, <3>3
    (* Whoever has just made it show the rest will restore it.             *)
    <2>8. ASSUME ctrl[c] # "other", Store(t) PROVE ~Via0(c) /\ Restores(t, c)'
      <3>1. /\ i[1] = "ctrl" /\ i[3] = "other" /\ c = i[2]
            /\ i[2] = IF Via0(d) THEN 0 ELSE d
        <4>1. /\ i[2] = IF Via0(d) THEN 0 ELSE d
              /\ \/ i[1] = "ctrl" /\ ctrl' = [ctrl EXCEPT ![i[2]] = i[3]]
                 \/ ctrl' = ctrl
          BY <2>8, StoreFacts
        <4> HIDE DEF i, d
        <4> QED
          BY <1>0, <2>8, <4>1
      <3>2. ~Via0(c)
        BY <3>1 DEF Via0
      <3>3. i # <<"ctrl", 0, "mpu">> /\ i # <<"ctrl", d, "mpu">>
        BY <3>1
      <3>4. ~Via0(d) => access[t].space = "other"
        BY <1>a, <2>1, <3>1, DirectItem
      <3> QED
        BY <2>4, <2>5, <3>1, <3>2, <3>3, <3>4
    <2>9. ASSUME ctrl[c] # "other", Buffer(t), ~muddled PROVE Via0(c) /\ Shows(t, c)'
      <3>1. /\ i[1] = "vbuf"
            /\ Shown(i) # <<"vbuf", i[2]>> => wiring = "indirect"
            /\ ctrl' # ctrl => Shown(i)[1] = "ctrl"
        BY <2>9, BufferFacts
      <3>2. wiring = "indirect"
        BY <2>9, <3>1
      <3>3. ~disturbed[t]
        BY <2>1, <2>9, <3>2 DEF CalmInv
      <3>4. Via0(d)
        <4>1. ASSUME ~Via0(d) PROVE FALSE
          <5>1. ctrl' = ctrl
            BY <2>9, <3>3, <4>1, AimedBuffer
          <5> QED
            BY <2>9, <5>1
        <4> QED
          BY <4>1
      <3>5. \/ At(t) = 3 /\ ctrl' = [ctrl EXCEPT ![d] = access[t].space]
            \/ ctrl' = ctrl
            \/ ctrl' = [ctrl EXCEPT ![d] = "mpu"]
        BY <2>9, <3>3, <3>4, AimedBuffer
      <3>6. At(t) = 3 /\ c = d /\ access[t].space = "other"
        BY <1>0, <2>9, <3>5
      <3>7. At(t)' = 4
        BY <2>2, <3>6
      <3> QED
        BY <2>1, <2>2, <3>4, <3>6, <3>7 DEF Shows
    <2>10. ASSUME ctrl[c] # "other", Buffer(t) PROVE Via0(c)
      <3>1. /\ Shown(i) \in Registers
            /\ i[1] = "vbuf"
            /\ Shown(i) # <<"vbuf", i[2]>> => wiring = "indirect" /\ Shown(i)[2] # 0
            /\ \/ /\ Shown(i)[1] = "ctrl"
                  /\ \E space \in Spaces : ctrl' = [ctrl EXCEPT ![Shown(i)[2]] = space]
               \/ ctrl' = ctrl
        BY <2>10, BufferFacts
      <3>2. Shown(i)[1] = "ctrl" => Shown(i) # <<"vbuf", i[2]>>
        OBVIOUS
      <3> DEFINE s == Shown(i)
      <3> HIDE DEF i, s
      <3>3. c = s[2] /\ s[1] = "ctrl"
        BY <1>0, <2>10, <3>1 DEF s
      <3> QED
        BY <3>1, <3>2, <3>3 DEF Via0, s
    <2> QED
      BY <1>0, <1>4, <2>1, <2>6, <2>7, <2>8, <2>9, <2>10
  <1>5. CASE Wait(t) \/ Put(t) \/ Fetch(t)
    BY <1>a, <1>5, MailTypes
  <1> QED
    BY <1>2, <1>3, <1>4, <1>5 DEF Steps

-----------------------------------------------------------------------------
(* Every step leaves a command in the mailbox alone whose caller was alone *)
(* when it sent it.                                                        *)
LEMMA MailboxScript ==
  ASSUME Types, NEW t \in Threads, Busy(t), wiring = "mailbox"
  PROVE  Over(t) = 6 /\ Sent(t) \in {4, 5}
  BY ScriptFacts, MailScript DEF Over, Script, Sent

LEMMA MailStep ==
  ASSUME Types, PlaceInv, AloneInv, StageInv, MailInv, NEW t \in Threads,
         Call(t) \/ Return(t) \/ GiveUp(t) \/ Steps(t)
  PROVE  MailInv'
  <1>0. /\ mail.by \in Threads \cup {Nothing} /\ Nothing \notin Threads \cup Accesses
        /\ wiring # "mailbox" => mail.cmd = Nothing /\ mail.by = Nothing
        /\ mail.cmd = Nothing => mail.by = Nothing
    BY XflowAssumption DEF Types, Mail, MailInv
  <1>1. CASE Call(t)
    <2>1. /\ ~Busy(t) /\ At(t)' = 1 /\ mail' = mail
          /\ \A u \in Threads \ {t} : At(u)' = At(u) /\ (Busy(u)' <=> Busy(u)) /\ access'[u] = access[u]
      BY <1>1, CallMoves
    <2>2. \A u \in Threads \ {t} : Sent(u)' = Sent(u)
      BY <2>1 DEF Sent
    <2>3. mail.by # t
      BY <2>1 DEF MailInv
    <2>4. \A u \in Threads : mail'.by = u => mail'.cmd # Nothing /\ Busy(u)' /\ At(u)' = Sent(u)'
      BY <2>1, <2>2, <2>3 DEF MailInv
    <2> QED
      BY <2>1, <2>2, <2>4 DEF MailInv
  <1>2. CASE Return(t) \/ GiveUp(t)
    <2>1. /\ ~Busy(t)' /\ UNCHANGED wiring
          /\ \A u \in Threads \ {t} : At(u)' = At(u) /\ (Busy(u)' <=> Busy(u)) /\ access'[u] = access[u]
      BY <1>2, EndMoves DEF Return, GiveUp
    <2>2. \A u \in Threads \ {t} : Sent(u)' = Sent(u)
      BY <2>1 DEF Sent
    <2>3. /\ mail'.cmd = mail.cmd /\ mail'.data = mail.data /\ mail'.word = mail.word
          /\ mail'.pure = mail.pure /\ mail'.by \in {mail.by, Nothing}
          /\ mail'.by # t \/ Return(t)
      BY <1>0, <1>2 DEF Return, GiveUp, Types, Mail
    <2>4. ASSUME Return(t), mail.by = t PROVE FALSE
      <3>1. Busy(t) /\ todo[t] = <<>> /\ At(t) = Sent(t) /\ wiring = "mailbox"
        BY <1>0, <2>4 DEF MailInv, Return
      <3>2. Over(t) = 6 /\ Sent(t) \in {4, 5} /\ Script(t) \in Scripts /\ Over(t) = Size(Script(t)) + 1
        BY <3>1, MailboxScript, ScriptFacts
      <3>3. todo[t] = SubSeq(Script(t), At(t), Size(Script(t)))
        BY <3>1 DEF PlaceInv
      <3> DEFINE k == At(t)
                 r == Script(t)
      <3>4. Size(r) \in Nat
        BY <3>1, ScriptFacts
      <3> HIDE DEF k, r
      <3>5. k \in Nat /\ k >= 1 /\ k <= Size(r) + 1 /\ k # Size(r) + 1
        BY <3>1, <3>2, <3>4 DEF k, r
      <3> QED
        BY <3>1, <3>2, <3>3, <3>5, RestSize DEF k, r
    <2>5. mail'.by # t
      BY <1>0, <2>3, <2>4
    <2>8. \A u \in Threads : mail'.by = u => mail'.cmd # Nothing /\ Busy(u)' /\ At(u)' = Sent(u)'
      BY <1>0, <2>1, <2>2, <2>3, <2>5 DEF MailInv
    <2>9. \A u \in Threads : Busy(u)' => u # t
      BY <2>1
    <2> QED
      BY <2>1, <2>2, <2>3, <2>8, <2>9 DEF MailInv
  <1>3. CASE Store(t) \/ Buffer(t)
    <2>1. wiring # "mailbox" /\ mail' = mail
      BY <1>3, StoreFacts, BufferFacts
    <2> QED
      BY <1>0, <2>1 DEF MailInv
  <1>4. CASE Wait(t) \/ Put(t) \/ Fetch(t)
    <2>1. /\ Busy(t) /\ At(t) \in 1..Size(Script(t)) /\ UNCHANGED <<wiring, access, disturbed>>
          /\ Upcoming(t) = Item(t)
      BY <1>4, StepFacts DEF Steps
    <2>2. /\ At(t)' = At(t) + 1 /\ \A u \in Threads \ {t} : At(u)' = At(u)
          /\ \A u \in Threads : Busy(u)' <=> Busy(u)
      BY <1>4, StepMoves DEF Steps
    <2>3. \A u \in Threads : Sent(u)' = Sent(u)
      BY <2>1 DEF Sent
    <2>4. wiring = "mailbox"
      BY <1>4, MailTypes
    <2> DEFINE i == Item(t)
               x == access[t]
    <2>5. /\ x.write \in BOOLEAN
          /\ \/ At(t) = 1 /\ i = <<"wait">>
             \/ At(t) = 2 /\ i = <<"data", t>>
             \/ At(t) = 3 /\ x.write /\ i = <<"word", t>>
             \/ At(t) = 4 /\ x.write /\ i = <<"cmd", x>>
             \/ At(t) = 5 /\ x.write /\ i = <<"wait">>
             \/ At(t) = 3 /\ ~x.write /\ i = <<"cmd", x>>
             \/ At(t) = 4 /\ ~x.write /\ i = <<"wait">>
             \/ At(t) = 5 /\ ~x.write /\ i = <<"fetch">>
      BY <2>1, <2>4, MailItem
    <2>6. CASE Wait(t)
      BY <1>0, <2>6 DEF Wait, MailInv
    <2>7. CASE Fetch(t)
      <3>1. mail' = mail /\ At(t) = 5 /\ ~x.write
        <4>1. mail' = mail /\ i[1] = "fetch"
          BY <2>1, <2>7 DEF Fetch
        <4> QED
          BY <2>5, <4>1
      <3>2. mail.by # t
        BY <1>0, <3>1 DEF MailInv, Sent
      <3>3. \A u \in Threads : mail'.by = u => mail'.cmd # Nothing /\ Busy(u)' /\ At(u)' = Sent(u)'
        BY <2>2, <2>3, <3>1, <3>2 DEF MailInv
      <3>4. At(t)' \notin 2..(Sent(t)' - 1)
        BY <2>2, <2>3, <3>1 DEF Sent
      <3>5. mail.cmd # Nothing /\ mail.pure =>
              \A u \in Threads : Busy(u)' => At(u)' \notin 2..(Sent(u)' - 1)
        BY <2>2, <2>3, <3>4 DEF MailInv
      <3> QED
        BY <3>1, <3>3, <3>5 DEF MailInv
    <2>8. CASE Put(t)
      <3>1. /\ mail.pure \in BOOLEAN /\ mail'.pure = (~disturbed[t] /\ (i[1] = "cmd" \/ mail.pure))
            /\ \/ /\ i[1] = "data" /\ mail'.data = t
                  /\ mail'.cmd = mail.cmd /\ mail'.word = mail.word /\ mail'.by = mail.by
               \/ /\ i[1] = "word" /\ mail'.word = t
                  /\ mail'.cmd = mail.cmd /\ mail'.data = mail.data /\ mail'.by = mail.by
               \/ /\ i[1] = "cmd" /\ mail'.cmd = x /\ mail'.by = t
                  /\ mail'.data = mail.data /\ mail'.word = mail.word
        BY <2>8, PutFacts
      <3>2. \/ At(t) = 2 /\ i[1] = "data"
            \/ At(t) = 3 /\ x.write /\ i[1] = "word"
            \/ At(t) = Sent(t) - 1 /\ i[1] = "cmd"
        BY <2>5, <3>1 DEF Sent
      <3>3. At(t) \in 2..(Sent(t) - 1) /\ At(t) # Sent(t)
        BY <2>5, <3>2 DEF Sent
      <3>4. mail.by # t
        BY <1>0, <3>3 DEF MailInv
      <3>5. x \in Accesses
        BY <2>1, ScriptFacts
      <3> HIDE DEF i
      <3>6. CASE i[1] \in {"data", "word"}
        <4>1. mail'.cmd = mail.cmd /\ mail'.by = mail.by /\ (mail'.pure => mail.pure)
          BY <3>1, <3>6
        <4>2. ~(mail.cmd # Nothing /\ mail.pure)
          BY <2>1, <3>3 DEF MailInv
        <4>4. \A u \in Threads : mail'.by = u => mail'.cmd # Nothing /\ Busy(u)' /\ At(u)' = Sent(u)'
          BY <2>2, <2>3, <3>4, <4>1 DEF MailInv
        <4>5. ~(mail'.cmd # Nothing /\ mail'.pure)
          BY <4>1, <4>2
        <4> QED
          BY <4>4, <4>5 DEF MailInv
      <3>7. CASE i[1] = "cmd"
        <4>1. /\ mail'.cmd = x /\ mail'.by = t /\ mail'.data = mail.data /\ mail'.word = mail.word
              /\ mail'.pure = ~disturbed[t]
          BY <3>1, <3>7
        <4>2. At(t)' = Sent(t)' /\ Busy(t)'
          BY <2>1, <2>2, <2>3, <2>5, <3>2, <3>7 DEF Sent
        <4>3. \A u \in Threads : mail'.by = u => mail'.cmd # Nothing /\ Busy(u)' /\ At(u)' = Sent(u)'
          BY <1>0, <3>5, <4>1, <4>2
        <4>4. ASSUME ~disturbed[t]
              PROVE  /\ mail.data = t /\ (x.write => mail.word = t)
                     /\ \A u \in Threads \ {t} : ~Busy(u)
          <5>1. MailStage(t, At(t))
            BY <2>1, <2>4, <4>4 DEF StageInv, Stage
          <5>2. mail.data = t /\ (x.write => mail.word = t)
            BY <2>5, <3>2, <3>7, <5>1 DEF MailStage, Sent
          <5>3. \A u \in Threads \ {t} : ~Busy(u)
            BY <2>1, <2>4, <4>4 DEF AloneInv, Conflict
          <5> QED
            BY <5>2, <5>3
        <4>5. At(t)' \notin 2..(Sent(t)' - 1)
          BY <2>3, <4>2 DEF Sent
        <4>6. mail'.cmd # Nothing /\ mail'.pure =>
                /\ mail'.data \in Threads /\ (mail'.cmd.write => mail'.word = mail'.data)
                /\ \A u \in Threads : Busy(u)' => At(u)' \notin 2..(Sent(u)' - 1)
          BY <2>2, <4>1, <4>4, <4>5
        <4> QED
          BY <4>3, <4>6 DEF MailInv
      <3> QED
        BY <3>2, <3>6, <3>7
    <2> QED
      BY <1>4, <2>6, <2>7, <2>8
  <1> QED
    BY <1>1, <1>2, <1>3, <1>4 DEF Steps

-----------------------------------------------------------------------------
(* The inductive invariant: initially, after a step of a caller, and when  *)
(* the firmware has served a command.                                      *)
LEMMA InitIInv == Init => IInv
  <1> SUFFICES ASSUME Init PROVE IInv
    OBVIOUS
  <1> USE DEF Init
  <1>1. \A t \in Threads : ~Busy(t) /\ todo[t] = <<>> /\ hits[t] = {}
    BY DEF Busy
  <1>2. todo \in [Threads -> Scripts]
    BY ShortScripts
  <1>3. Nothing \notin Registers
    BY XflowAssumption
  <1>4. mail \in Mail
    BY DEF Mail
  <1>5. Types
    BY <1>2, <1>3, <1>4, XflowAssumption DEF Types, Spaces
  <1>6. PlaceInv /\ AloneInv /\ StageInv /\ CalmInv /\ MailInv
    BY <1>1, XflowAssumption DEF PlaceInv, AloneInv, StageInv, CalmInv, MailInv
  <1>7. RestInv
    BY DEF RestInv
  <1> QED
    BY <1>5, <1>6, <1>7 DEF IInv

LEMMA CallerStep ==
  ASSUME IInv, NEW t \in Threads, Call(t) \/ Return(t) \/ GiveUp(t) \/ Steps(t)
  PROVE  IInv'
  <1> USE DEF IInv
  <1>1. Types'
    BY CallTypes, EndTypes, StoreTypes, BufferTypes, MailTypes DEF Steps
  <1>2. PlaceInv'
    BY CallMoves, EndMoves, StepMoves DEF Return, GiveUp
  <1>3. AloneInv' /\ StageInv' /\ CalmInv' /\ MailInv'
    BY AloneStep, StageStep, CalmStep, MailStep
  <1>4. RestInv'
    BY <1>1, RestStep
  <1> QED
    BY <1>1, <1>2, <1>3, <1>4

LEMMA ServeStep == IInv /\ Serve => IInv'
  <1> SUFFICES ASSUME IInv, Serve PROVE IInv'
    OBVIOUS
  <1> USE DEF IInv
  <1>1. /\ wiring = "mailbox"
        /\ UNCHANGED <<wiring, ctrl, base, access, todo, got, disturbed, muddled>>
        /\ \A u \in Threads : At(u)' = At(u) /\ (Busy(u)' <=> Busy(u))
        /\ PlaceInv'
    BY ServeMoves
  <1>2. Types'
    BY ServeTypes
  <1>3. AloneInv' /\ CalmInv'
    BY <1>1 DEF AloneInv, CalmInv, Busy, Conflict
  <1>4. RestInv'
    BY <1>1, <1>2 DEF RestInv, Types
  <1>5. StageInv'
    BY <1>1, ServeStage DEF StageInv, Stage
  <1>6. MailInv'
    <2>1. mail'.cmd = Nothing /\ mail'.by = Nothing
      BY DEF Serve, Types, Mail
    <2> QED
      BY <2>1, XflowAssumption DEF MailInv
  <1> QED
    BY <1>1, <1>2, <1>3, <1>4, <1>5, <1>6

LEMMA StutterStep == IInv /\ UNCHANGED vars => IInv'
  <1> SUFFICES ASSUME IInv, UNCHANGED vars PROVE IInv'
    OBVIOUS
  <1>1. /\ wiring' = wiring /\ ctrl' = ctrl /\ base' = base /\ mail' = mail /\ access' = access
        /\ todo' = todo /\ got' = got /\ hits' = hits /\ disturbed' = disturbed /\ muddled' = muddled
    BY DEF vars
  <1>2. \A t \in Threads : Script(t)' = Script(t) /\ (Busy(t)' <=> Busy(t))
    BY <1>1, SameScripts
  <1>3. \A t \in Threads : At(t)' = At(t) /\ Over(t)' = Over(t)
    BY <1>1, <1>2 DEF At, Over
  <1>4. Types'
    BY <1>1 DEF IInv, Types
  <1>5. PlaceInv' /\ AloneInv' /\ CalmInv'
    BY <1>1, <1>2, <1>3 DEF IInv, PlaceInv, AloneInv, CalmInv, Conflict
  <1>6. StageInv'
    <2> SUFFICES ASSUME NEW t \in Threads, Busy(t), ~disturbed[t] PROVE Stage(t, At(t))'
      BY <1>1, <1>2 DEF StageInv
    <2>1. Stage(t, At(t))
      BY DEF IInv, StageInv
    <2>2. At(t)' = At(t) /\ Over(t)' = Over(t) /\ Script(t)' = Script(t)
      BY <1>2, <1>3
    <2>3. Reached(t)' = Reached(t) /\ Pending(t)' = Pending(t) /\ Answered(t)' = Answered(t)
      BY <1>1 DEF Reached, Pending, Answered, Meant
    <2> QED
      BY <1>1, <2>1, <2>2, <2>3 DEF Stage, MailStage, DirectStage, IndirectStage, Sent, Via0
  <1>7. RestInv'
    BY <1>1, <1>2, <1>3 DEF IInv, RestInv, Restores, Shows, Via0
  <1>8. MailInv'
    <2>1. \A t \in Threads : Sent(t)' = Sent(t)
      BY <1>1 DEF Sent
    <2> QED
      BY <1>1, <1>2, <1>3, <2>1 DEF IInv, MailInv
  <1> QED
    BY <1>4, <1>5, <1>6, <1>7, <1>8 DEF IInv

LEMMA IInvAlways == Spec => []IInv
  <1>1. IInv /\ [Next]_vars => IInv'
    <2> SUFFICES ASSUME IInv, [Next]_vars PROVE IInv'
      OBVIOUS
    <2>1. CASE \E t \in Threads : Call(t) \/ Return(t) \/ GiveUp(t) \/ Steps(t)
      BY <2>1, CallerStep
    <2>2. CASE Serve
      BY <2>2, ServeStep
    <2>3. CASE UNCHANGED vars
      BY <2>3, StutterStep
    <2> QED
      BY <2>1, <2>2, <2>3 DEF Next, Steps
  <1> QED
    BY InitIInv, <1>1, PTL DEF Spec

-----------------------------------------------------------------------------
(* The types of the registers, the mailbox and the callers' variables.     *)
THEOREM TypesSafe == Spec => []TypeOK
  <1>1. IInv => TypeOK
    BY DEF IInv, Types, TypeOK, Mail
  <1> QED
    BY <1>1, IInvAlways, PTL

(* An access reaches the place it was meant for, and nothing else, and a   *)
(* read returns what is there, unless another access used the same         *)
(* registers meanwhile: whatever earlier ones left in the windows and the  *)
(* mailbox, whichever way the accesses go (memx_xflow_write,               *)
(* memx_xflow_read).                                                       *)
THEOREM OwnPlaceAlways == Spec => []OwnPlace
  <1>1. ASSUME IInv, NEW t \in Threads, Busy(t), ~disturbed[t]
        PROVE  /\ hits[t] \subseteq {Append(Meant(t), t)}
               /\ todo[t] = <<>> => hits[t] # {} /\ (access[t].write \/ got[t] = Meant(t))
    <2>1. Types /\ PlaceInv /\ Stage(t, At(t))
      BY <1>1 DEF IInv, StageInv
    <2>2. /\ access[t] \in Accesses /\ access[t].write \in BOOLEAN /\ access[t].space \in Spaces
          /\ Over(t) = Size(Script(t)) + 1 /\ Size(Script(t)) \in {3, 4, 5, 10, 13}
      BY <1>1, <2>1, ScriptFacts
    <2>3. At(t) \in 1..Over(t)
      BY <1>1, <2>1 DEF PlaceInv
    <2>4. /\ wiring = "mailbox" => Over(t) = 6
          /\ wiring # "mailbox" /\ ~Via0(access[t].chip) => Over(t) > 3
          /\ wiring # "mailbox" /\ Via0(access[t].chip) => Over(t) > 9
      <3>1. CASE wiring = "mailbox"
        BY <1>1, <2>1, <3>1, MailboxScript
      <3>2. CASE wiring # "mailbox" /\ ~Via0(access[t].chip)
        BY <2>2, <3>2
      <3>3. CASE wiring # "mailbox" /\ Via0(access[t].chip)
        BY <2>2, <3>3, IndirectScript DEF Script
      <3> QED
        BY <3>1, <3>2, <3>3
    <2>5. hits[t] = {} \/ hits[t] = {Append(Meant(t), t)}
      BY <2>1, <2>2, <2>3 DEF Stage, MailStage, DirectStage, IndirectStage, Reached, Pending, Answered, Sent
    <2>6. At(t) = Over(t) => Reached(t)
      BY <2>1, <2>2, <2>4 DEF Stage, MailStage, DirectStage, IndirectStage
    <2>7. todo[t] = <<>> => At(t) = Over(t)
      <3> DEFINE k == At(t)
                 r == Script(t)
      <3>1. r \in Scripts /\ todo[t] = SubSeq(r, k, Size(r)) /\ Size(r) \in Nat
        BY <1>1, <2>1, <2>2, ScriptFacts DEF PlaceInv
      <3>2. k \in Nat /\ k >= 1 /\ k <= Size(r) + 1
        BY <2>2, <2>3
      <3> HIDE DEF k, r
      <3>3. todo[t] = <<>> => k = Size(r) + 1
        BY <3>1, <3>2, RestSize
      <3> QED
        BY <2>2, <3>3 DEF k, r
    <2> QED
      BY <2>5, <2>6, <2>7 DEF Reached
  <1>2. IInv => OwnPlace
    BY <1>1 DEF OwnPlace, Busy, Meant
  <1> QED
    BY <1>2, IInvAlways, PTL

(* When nobody is at it, every window shows the MPU, however accesses      *)
(* overlapped; another chip's that is reached through chip 0's only if     *)
(* they never did (the modes that memx_xflow_read and memx_xflow_write put *)
(* back).                                                                  *)
THEOREM RestIsMpuAlways == Spec => []RestIsMpu
  <1>1. IInv => RestIsMpu
    <2> SUFFICES ASSUME IInv, \A t \in Threads : ~Busy(t), NEW c \in Chips
                 PROVE  ctrl[c] = "mpu" \/ (c # 0 /\ muddled)
      BY DEF RestIsMpu
    <2>1. ctrl[c] \in {"mpu", "other"}
      BY DEF IInv, Types, Spaces
    <2>2. \A t \in Threads : ~Shows(t, c) /\ ~Restores(t, c)
      BY DEF Shows, Restores
    <2> QED
      BY <2>1, <2>2 DEF IInv, RestInv, Via0
  <1> QED
    BY <1>1, IInvAlways, PTL

(* A command that its caller has given up stays what it was until the      *)
(* firmware has served it, unless callers had overlapped (the wait for     *)
(* MEMX_EXTCMD_COMPLETE before the mailbox is written).                    *)
THEOREM PendingIsWholeAlways == Spec => []PendingIsWhole
  <1>1. IInv => PendingIsWhole
    BY DEF IInv, MailInv, PendingIsWhole
  <1> QED
    BY <1>1, IInvAlways, PTL
=============================================================================
