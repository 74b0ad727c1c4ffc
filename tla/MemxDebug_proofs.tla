-------------------------- MODULE MemxDebug_proofs --------------------------
(***************************************************************************)
(* Safety of the debug files for any number of devices, users, scenarios,  *)
(* any size of the log and any image.  The first part is about the         *)
(* scripts: whichever file system serves a file, what is left of its       *)
(* script tells how far the operation has come in its section, the part    *)
(* that does more than look.  The inductive invariant then says of every   *)
(* operation what it has done by then, of a mailbox what waits in it, of a *)
(* flash how far it is programmed, of a log what lies in the ring and of   *)
(* the counters what they lack.  A lemma XInit, XStep or XKept is that a   *)
(* part of the invariant holds at first, after every step, or after steps  *)
(* that leave what it is about.                                            *)
(***************************************************************************)
EXTENDS MemxDebug, SequenceTheorems, FiniteSetTheorems, WellFoundedInduction, TLAPS

(* A sequence that begins with s and goes on with t is their               *)
(* concatenation.                                                          *)
LEMMA Joined ==
  ASSUME NEW S, NEW s \in Seq(S), NEW t \in Seq(S), NEW u \in Seq(S),
         Len(u) = Len(s) + Len(t),
         \A i \in 1..Len(s) : u[i] = s[i],
         \A i \in 1..Len(t) : u[Len(s) + i] = t[i]
  PROVE  s \o t = u
  <1>1. Len(s) \in Nat /\ Len(t) \in Nat
    BY LenProperties
  <1>2. /\ s \o t \in Seq(S) /\ Len(s \o t) = Len(u)
        /\ \A i \in 1..Len(u) : (s \o t)[i] = IF i <= Len(s) THEN s[i] ELSE t[i - Len(s)]
    BY <1>1, ConcatProperties
  <1>3. \A i \in 1..Len(u) : (s \o t)[i] = u[i]
    <2> SUFFICES ASSUME NEW i \in 1..Len(u) PROVE (s \o t)[i] = u[i]
      OBVIOUS
    <2>1. CASE i <= Len(s)
      BY <1>1, <1>2, <2>1
    <2>2. CASE i > Len(s)
      <3>1. i - Len(s) \in 1..Len(t) /\ Len(s) + (i - Len(s)) = i
        BY <1>1, <2>2
      <3>2. u[Len(s) + (i - Len(s))] = t[i - Len(s)]
        BY <3>1
      <3> QED
        BY <1>1, <1>2, <2>2, <3>1, <3>2
    <2> QED
      BY <1>1, <2>1, <2>2
  <1> QED
    BY <1>1, <1>2, <1>3, SeqEqual

(* The concatenations from which the code's sequences are built, written   *)
(* out.                                                                    *)
LEMMA Join11 ==
  ASSUME NEW a \in Steps, NEW b \in Steps
  PROVE  <<a>> \o <<b>> = <<a, b>>
  <1>1. <<a>> \in Seq(Steps) /\ <<b>> \in Seq(Steps) /\ <<a, b>> \in Seq(Steps)
    OBVIOUS
  <1>2. Len(<<a, b>>) = Len(<<a>>) + Len(<<b>>)
    OBVIOUS
  <1>3. \A i \in 1..Len(<<a>>) : <<a, b>>[i] = <<a>>[i]
    OBVIOUS
  <1>4. Len(<<a>>) = 1 /\ <<a, b>>[2] = b /\ <<b>>[1] = b /\ Len(<<b>>) = 1
    OBVIOUS
  <1>5. \A i \in 1..Len(<<b>>) : <<a, b>>[Len(<<a>>) + i] = <<b>>[i]
    BY <1>4
  <1> QED
    BY <1>1, <1>2, <1>3, <1>5, Joined

LEMMA Join12 ==
  ASSUME NEW a \in Steps, NEW b \in Steps, NEW c \in Steps
  PROVE  <<a>> \o <<b, c>> = <<a, b, c>>
  <1>1. <<a>> \in Seq(Steps) /\ <<b, c>> \in Seq(Steps) /\ <<a, b, c>> \in Seq(Steps)
    OBVIOUS
  <1>2. /\ Len(<<a, b, c>>) = Len(<<a>>) + Len(<<b, c>>)
        /\ \A i \in 1..Len(<<a>>) : <<a, b, c>>[i] = <<a>>[i]
        /\ \A i \in 1..Len(<<b, c>>) : <<a, b, c>>[Len(<<a>>) + i] = <<b, c>>[i]
    OBVIOUS
  <1> QED
    BY <1>1, <1>2, Joined

LEMMA Join21 ==
  ASSUME NEW a \in Steps, NEW b \in Steps, NEW c \in Steps
  PROVE  <<a, b>> \o <<c>> = <<a, b, c>>
  <1>1. <<c>> \in Seq(Steps) /\ <<a, b>> \in Seq(Steps) /\ <<a, b, c>> \in Seq(Steps)
    OBVIOUS
  <1>2. /\ Len(<<a, b, c>>) = Len(<<a, b>>) + Len(<<c>>)
        /\ \A i \in 1..Len(<<a, b>>) : <<a, b, c>>[i] = <<a, b>>[i]
        /\ \A i \in 1..Len(<<c>>) : <<a, b, c>>[Len(<<a, b>>) + i] = <<c>>[i]
    OBVIOUS
  <1> QED
    BY <1>1, <1>2, Joined

LEMMA Join22 ==
  ASSUME NEW a \in Steps, NEW b \in Steps, NEW c \in Steps, NEW d \in Steps
  PROVE  <<a, b>> \o <<c, d>> = <<a, b, c, d>>
  <1>1. <<a, b>> \in Seq(Steps) /\ <<c, d>> \in Seq(Steps) /\ <<a, b, c, d>> \in Seq(Steps)
    OBVIOUS
  <1>2. /\ Len(<<a, b, c, d>>) = Len(<<a, b>>) + Len(<<c, d>>)
        /\ \A i \in 1..Len(<<a, b>>) : <<a, b, c, d>>[i] = <<a, b>>[i]
        /\ \A i \in 1..Len(<<c, d>>) : <<a, b, c, d>>[Len(<<a, b>>) + i] = <<c, d>>[i]
    OBVIOUS
  <1> QED
    BY <1>1, <1>2, Joined

LEMMA Join41 ==
  ASSUME NEW a \in Steps, NEW b \in Steps, NEW c \in Steps, NEW d \in Steps, NEW e \in Steps
  PROVE  <<a, b, c, d>> \o <<e>> = <<a, b, c, d, e>>
  <1>1. <<a, b, c, d>> \in Seq(Steps) /\ <<e>> \in Seq(Steps) /\ <<a, b, c, d, e>> \in Seq(Steps)
    OBVIOUS
  <1>2. /\ Len(<<a, b, c, d, e>>) = Len(<<a, b, c, d>>) + Len(<<e>>)
        /\ \A i \in 1..Len(<<a, b, c, d>>) : <<a, b, c, d, e>>[i] = <<a, b, c, d>>[i]
        /\ \A i \in 1..Len(<<e>>) : <<a, b, c, d, e>>[Len(<<a, b, c, d>>) + i] = <<e>>[i]
    OBVIOUS
  <1> QED
    BY <1>1, <1>2, Joined

LEMMA Join32 ==
  ASSUME NEW a \in Steps, NEW b \in Steps, NEW c \in Steps, NEW d \in Steps, NEW e \in Steps
  PROVE  <<a, b, c>> \o <<d, e>> = <<a, b, c, d, e>>
  <1>1. <<a, b, c>> \in Seq(Steps) /\ <<d, e>> \in Seq(Steps) /\ <<a, b, c, d, e>> \in Seq(Steps)
    OBVIOUS
  <1>2. /\ Len(<<a, b, c, d, e>>) = Len(<<a, b, c>>) + Len(<<d, e>>)
        /\ \A i \in 1..Len(<<a, b, c>>) : <<a, b, c, d, e>>[i] = <<a, b, c>>[i]
        /\ \A i \in 1..Len(<<d, e>>) : <<a, b, c, d, e>>[Len(<<a, b, c>>) + i] = <<d, e>>[i]
    OBVIOUS
  <1> QED
    BY <1>1, <1>2, Joined

LEMMA Join24 ==
  ASSUME NEW a \in Steps, NEW b \in Steps, NEW c \in Steps, NEW d \in Steps, NEW e \in Steps, NEW f \in Steps
  PROVE  <<a, b>> \o <<c, d, e, f>> = <<a, b, c, d, e, f>>
  <1>1. <<a, b>> \in Seq(Steps) /\ <<c, d, e, f>> \in Seq(Steps) /\ <<a, b, c, d, e, f>> \in Seq(Steps)
    OBVIOUS
  <1>2. /\ Len(<<a, b, c, d, e, f>>) = Len(<<a, b>>) + Len(<<c, d, e, f>>)
        /\ \A i \in 1..Len(<<a, b>>) : <<a, b, c, d, e, f>>[i] = <<a, b>>[i]
        /\ \A i \in 1..Len(<<c, d, e, f>>) : <<a, b, c, d, e, f>>[Len(<<a, b>>) + i] = <<c, d, e, f>>[i]
    OBVIOUS
  <1> QED
    BY <1>1, <1>2, Joined

(* What may be a parameter of a command, and its code.                     *)
LEMMA Parameters ==
  /\ Throttles \subseteq Params /\ Values \subseteq Params /\ Whatever \in Params
  /\ "qspi" \in Params /\ "release" \in Params
  /\ Values \subseteq Codes /\ "R" \in Codes /\ "W" \in Codes /\ "memx" \in Codes /\ "t" \in Codes
  BY DEF Params, Codes

(* Words that are written to a mailbox, and transfers, are steps.          *)
LEMMA Letters ==
  ASSUME NEW c \in Chips, NEW p \in Params, NEW p2 \in Params, NEW code \in Codes
  PROVE  /\ Code(code, p, p2) \in CommandWords
         /\ Mail(c, "param", p) \in Steps /\ Mail(c, "param2", p) \in Steps
         /\ Mail(c, "commd", Code(code, p, p2)) \in Steps
         /\ [do |-> "send", chip |-> c, val |-> Code(code, p, p2)] \in Steps
  BY DEF Code, Mail, Steps, CommandWords

(* So are the others.                                                      *)
LEMMA Strokes ==
  /\ Find \in Steps /\ Look \in Steps /\ Maybe \in Steps /\ Request \in Steps /\ Check \in Steps
  /\ Poll \in Steps /\ Verdict \in Steps /\ Display \in Steps
  /\ Word(1) \in Steps /\ Word(2) \in Steps /\ Sram("param", 0) \in Steps /\ Sram("commd", "Q") \in Steps
  /\ \A c \in {"tx", "rx"} : Read(c) \in Steps /\ Reset(c) \in Steps
  /\ \A p \in {"wp", "rp", "copy", "all", "print", "done"} : Log(p) \in Steps
  /\ \A v \in Throttles : Throttle(v) \in Steps
  <1>1. Words[1] = 1 /\ Words[2] = 2 /\ DOMAIN Words = {1, 2}
    BY DEF Words
  <1>2. 1 \in Range(Words) /\ 2 \in Range(Words)
    BY <1>1 DEF Range
  <1> QED
    BY <1>2 DEF Find, Look, Maybe, Request, Check, Poll, Verdict, Display, Word, Sram, Read, Reset, Log, Throttle, Steps

(* A command with one parameter, and with two, written out.                *)
LEMMA AskedIs ==
  ASSUME NEW c \in Chips, NEW p \in Params, NEW p2 \in Params, NEW code \in Codes
  PROVE  /\ Asked(c, code, p) = <<Mail(c, "param", p), Mail(c, "commd", Code(code, p, Whatever))>>
         /\ Asked2(c, code, p, p2) = <<Mail(c, "param", p), Mail(c, "param2", p2), Mail(c, "commd", Code(code, p, p2))>>
  <1> DEFINE x == Mail(c, "param", p)
             y == Mail(c, "param2", p2)
             z == Mail(c, "commd", Code(code, p, Whatever))
             w == Mail(c, "commd", Code(code, p, p2))
  <1>1. x \in Steps /\ y \in Steps /\ z \in Steps /\ w \in Steps
    BY Letters, Parameters
  <1>2. Asked(c, code, p) = <<x>> \o <<z>> /\ Asked2(c, code, p, p2) = <<x, y>> \o <<w>>
    BY DEF Asked, Asked2, Command
  <1> HIDE DEF x, y, z, w
  <1>3. <<x>> \o <<z>> = <<x, z>> /\ <<x, y>> \o <<w>> = <<x, y, w>>
    BY <1>1, Join11, Join21
  <1> QED
    BY <1>2, <1>3 DEF x, y, z, w

(* The part of an update that concerns the flash, written out.             *)
LEMMA ProgrammingIs ==
  Programming = <<Word(1), Word(2), Sram("param", 0), Sram("commd", "Q"), Poll, Verdict>>
  <1>1. Image = <<Word(1), Word(2)>>
    BY DEF Image, Words
  <1> QED
    BY SMTT(30), <1>1, Strokes, Join24 DEF Programming

(* A store to thermalthrottling, written out.                              *)
LEMMA ThermalIs ==
  ASSUME NEW a \in Calls, a.cmd \in Throttles
  PROVE  /\ Thermal(a) = <<Mail(0, "param", a.cmd), Mail(0, "commd", Code("t", a.cmd, Whatever)),
                           Mail(1, "param", a.cmd), Mail(1, "commd", Code("t", a.cmd, Whatever)),
                           Throttle(a.cmd)>>
         /\ UsbThermal(a) = <<[do |-> "send", chip |-> 0, val |-> Code("t", a.cmd, Whatever)],
                              [do |-> "send", chip |-> 1, val |-> Code("t", a.cmd, Whatever)],
                              Throttle(a.cmd)>>
  <1> DEFINE x0 == Mail(0, "param", a.cmd)
             x1 == Mail(1, "param", a.cmd)
             y0 == Mail(0, "commd", Code("t", a.cmd, Whatever))
             y1 == Mail(1, "commd", Code("t", a.cmd, Whatever))
             s0 == [do |-> "send", chip |-> 0, val |-> Code("t", a.cmd, Whatever)]
             s1 == [do |-> "send", chip |-> 1, val |-> Code("t", a.cmd, Whatever)]
             z  == Throttle(a.cmd)
  <1>1. a.cmd \in Params /\ Whatever \in Params /\ 0 \in Chips /\ 1 \in Chips /\ "t" \in Codes
    BY Parameters DEF Chips
  <1>2. /\ x0 \in Steps /\ x1 \in Steps /\ y0 \in Steps /\ y1 \in Steps
        /\ s0 \in Steps /\ s1 \in Steps /\ z \in Steps
    BY <1>1, Letters, Strokes
  <1>3. Asked(0, "t", a.cmd) = <<x0, y0>> /\ Asked(1, "t", a.cmd) = <<x1, y1>>
    BY <1>1, AskedIs
  <1>4. /\ Thermal(a) = (<<x0, y0>> \o <<x1, y1>>) \o <<z>>
        /\ UsbThermal(a) = (<<s0>> \o <<s1>>) \o <<z>>
    BY <1>3 DEF Thermal, UsbThermal, Send
  <1> HIDE DEF x0, x1, y0, y1, s0, s1, z
  <1>5. <<x0, y0>> \o <<x1, y1>> = <<x0, y0, x1, y1>> /\ <<s0>> \o <<s1>> = <<s0, s1>>
    BY <1>2, Join11, Join22
  <1>6. /\ <<x0, y0, x1, y1>> \o <<z>> = <<x0, y0, x1, y1, z>>
        /\ <<s0, s1>> \o <<z>> = <<s0, s1, z>>
    BY <1>2, Join21, Join41
  <1> QED
    BY <1>4, <1>5, <1>6 DEF x0, x1, y0, y1, s0, s1, z

-----------------------------------------------------------------------------
(* Where an operation is in its script: how much of it is left tells what  *)
(* has been done of its section, the part that does more than look.        *)
Calm == {Look, Maybe, Request, Check}

Section(m, a) ==
  CASE a.file = "throughput" -> Throughput
    [] a.file = "update_flash" ->
         (IF m.bus = "usb" THEN UsbUpdate
          ELSE IF m.type = "sys" THEN Asked2(0, "W", "qspi", "release") \o <<Request, Check>> \o Programming
          ELSE Programming)
    [] a.how = "store" /\ a.file = "thermalthrottling" /\ a.cmd \in Throttles ->
         (IF m.bus = "pcie" THEN Thermal(a) ELSE UsbThermal(a))
    [] a.how = "store" /\ a.file \in {"cmd", "debug"} /\ a.cmd \in Handled ->
         (IF m.bus = "pcie" THEN memx_fs_cmd_handler(a) ELSE usb_fs_cmd_handler(a))
    [] OTHER -> <<>>

Aligned(m, s, e) ==
  \A i \in 1..Len(s) :
    LET j == Len(s) - i IN
    IF j < Len(e) THEN s[i] = e[Len(e) - j]
                  ELSE s[i] \in Calm \/ (s[i] = Find /\ i = 1 /\ m.type = "sys")

Led(s, e) == \E p \in Seq(Calm) : s = p \o e

(* Steps that only look are steps.                                         *)
LEMMA CalmSteps ==
  /\ Calm \subseteq Steps /\ Find \notin Calm
  /\ Look \in Calm /\ Maybe \in Calm /\ Request \in Calm /\ Check \in Calm
  BY DEF Calm, Find, Look, Maybe, Request, Check, Steps

(* A script that leads to a section ends with it.                          *)
LEMMA LedAligned ==
  ASSUME NEW s, NEW e \in Seq(Steps), Led(s, e)
  PROVE  Aligned(model, s, e) /\ s \in Seq(Steps)
  <1>1. PICK p \in Seq(Calm) : s = p \o e
    BY DEF Led
  <1>2. p \in Seq(Steps) /\ Len(p) \in Nat /\ \A i \in 1..Len(p) : p[i] \in Calm
    BY CalmSteps, LenProperties
  <1>3. Len(e) \in Nat
    BY LenProperties
  <1>4. /\ s \in Seq(Steps) /\ Len(s) = Len(p) + Len(e)
        /\ \A i \in 1..Len(p) + Len(e) : s[i] = IF i <= Len(p) THEN p[i] ELSE e[i - Len(p)]
    BY <1>1, <1>2, ConcatProperties
  <1>5. ASSUME NEW i \in 1..Len(s)
        PROVE  IF Len(s) - i < Len(e) THEN s[i] = e[Len(e) - (Len(s) - i)] ELSE s[i] \in Calm
    <2>1. CASE i <= Len(p)
      BY <1>2, <1>3, <1>4, <2>1
    <2>2. CASE i > Len(p)
      <3>1. Len(e) - (Len(s) - i) = i - Len(p) /\ Len(s) - i < Len(e)
        BY <1>2, <1>3, <1>4, <2>2
      <3> QED
        BY <1>2, <1>3, <1>4, <2>2, <3>1
    <2> QED
      BY <1>2, <2>1, <2>2
  <1> QED
    BY <1>4, <1>5 DEF Aligned

(* And is not shorter.                                                     *)
LEMMA LedLonger ==
  ASSUME NEW s, NEW e \in Seq(Steps), Led(s, e)
  PROVE  Len(s) \in Nat /\ Len(e) \in Nat /\ Len(s) >= Len(e)
  <1>1. PICK p \in Seq(Calm) : s = p \o e
    BY DEF Led
  <1>2. p \in Seq(Steps) /\ Len(p) \in Nat /\ Len(e) \in Nat
    BY CalmSteps, LenProperties
  <1>3. Len(s) = Len(p) + Len(e)
    BY <1>1, <1>2, ConcatProperties
  <1> QED
    BY <1>2, <1>3

(* So is one that first finds its device.                                  *)
LEMMA FindAligned ==
  ASSUME NEW s, NEW e \in Seq(Steps), Led(s, e), model.type = "sys"
  PROVE  /\ Aligned(model, <<Find>> \o s, e) /\ <<Find>> \o s \in Seq(Steps)
         /\ (<<Find>> \o s)[1] = Find /\ Len(<<Find>> \o s) = Len(s) + 1 /\ Len(s) >= Len(e)
  <1>1. Aligned(model, s, e) /\ s \in Seq(Steps) /\ Len(s) \in Nat /\ Len(e) \in Nat
    BY LedAligned, LenProperties
  <1>2. <<Find>> \in Seq(Steps) /\ Len(<<Find>>) = 1 /\ <<Find>>[1] = Find
    BY Strokes
  <1> DEFINE u == <<Find>> \o s
  <1>3. /\ u \in Seq(Steps) /\ Len(u) = 1 + Len(s)
        /\ \A i \in 1..1 + Len(s) : u[i] = IF i <= 1 THEN <<Find>>[i] ELSE s[i - 1]
    BY <1>1, <1>2, ConcatProperties
  <1> HIDE DEF u
  <1>4. u[1] = Find
    <2>1. 1 \in 1..1 + Len(s)
      BY <1>1
    <2> QED
      BY <1>2, <1>3, <2>1
  <1>5. Len(s) >= Len(e)
    <2>1. PICK p \in Seq(Calm) : s = p \o e
      BY DEF Led
    <2>2. p \in Seq(Steps) /\ Len(p) \in Nat
      BY CalmSteps, LenProperties
    <2>3. Len(s) = Len(p) + Len(e)
      BY <2>1, <2>2, ConcatProperties
    <2> QED
      BY <1>1, <2>2, <2>3
  <1>6. ASSUME NEW i \in 1..Len(u)
        PROVE  IF Len(u) - i < Len(e) THEN u[i] = e[Len(e) - (Len(u) - i)]
               ELSE u[i] \in Calm \/ (u[i] = Find /\ i = 1 /\ model.type = "sys")
    <2>1. CASE i = 1
      BY <1>1, <1>3, <1>4, <1>5, <2>1
    <2>2. CASE i # 1
      <3>1. i - 1 \in 1..Len(s) /\ u[i] = s[i - 1] /\ Len(s) - (i - 1) = Len(u) - i
        BY <1>1, <1>3, <2>2
      <3>2. IF Len(s) - (i - 1) < Len(e) THEN s[i - 1] = e[Len(e) - (Len(s) - (i - 1))]
            ELSE s[i - 1] \in Calm \/ (s[i - 1] = Find /\ i - 1 = 1 /\ model.type = "sys")
        BY <1>1, <3>1 DEF Aligned
      <3>3. s[i - 1] # Find \/ Len(s) - (i - 1) < Len(e)
        <4>1. PICK p \in Seq(Calm) : s = p \o e
          BY DEF Led
        <4>2. p \in Seq(Steps) /\ Len(p) \in Nat /\ \A k \in 1..Len(p) : p[k] \in Calm
          BY CalmSteps, LenProperties
        <4>3. Len(s) = Len(p) + Len(e) /\ \A k \in 1..Len(p) + Len(e) : s[k] = IF k <= Len(p) THEN p[k] ELSE e[k - Len(p)]
          BY <4>1, <4>2, ConcatProperties
        <4> QED
          BY <1>1, <3>1, <4>2, <4>3, CalmSteps
      <3> QED
        BY <3>1, <3>2, <3>3
    <2> QED
      BY <2>1, <2>2
  <1>7. Aligned(model, u, e)
    BY <1>6 DEF Aligned
  <1> QED
    BY <1>1, <1>3, <1>4, <1>5, <1>7 DEF u

(* A section leads to itself, and steps that only look lead to none.       *)
LEMMA ItselfLed ==
  ASSUME NEW e \in Seq(Steps)
  PROVE  Led(e, e)
  <1>1. <<>> \in Seq(Calm) /\ <<>> \o e = e
    BY ConcatEmptySeq
  <1> QED
    BY <1>1 DEF Led

LEMMA CalmLed ==
  ASSUME NEW p \in Seq(Calm)
  PROVE  Led(p, <<>>)
  <1>1. p \o <<>> = p
    BY ConcatEmptySeq
  <1> QED
    BY <1>1 DEF Led

(* The fields of a call.                                                   *)
LEMMA CallFacts ==
  ASSUME NEW a \in Calls
  PROVE  /\ a.file \in FileNames /\ a.chip \in Chips /\ a.val \in Params /\ a.val2 \in Params
         /\ a.val \in Codes /\ a.val # "none" /\ a.val2 # Whatever
         /\ a.how \in {"read", "store"} /\ (a.how = "store" => a.file \in Writable)
  <1>1. a.val \in Values /\ a.val2 \in Values /\ a.file \in FileNames /\ a.chip \in Chips
        /\ a.how \in {"read", "store"} /\ (a.how = "store" => a.file \in Writable)
    BY DEF Calls
  <1> QED
    BY <1>1, Parameters, DebugAssumption DEF Whatever

(* Commands are sequences of steps.                                        *)
LEMMA CommandsAreSteps ==
  ASSUME NEW c \in Chips, NEW p \in Params, NEW p2 \in Params, NEW code \in Codes
  PROVE  /\ Asked(c, code, p) \in Seq(Steps) /\ Asked2(c, code, p, p2) \in Seq(Steps)
         /\ Command(c, code, p, p2) \in Seq(Steps) /\ Send(c, code, p, p2) \in Seq(Steps)
  <1> DEFINE x == Mail(c, "param", p)
             y == Mail(c, "param2", p2)
             z == Mail(c, "commd", Code(code, p, Whatever))
             w == Mail(c, "commd", Code(code, p, p2))
             s == [do |-> "send", chip |-> c, val |-> Code(code, p, p2)]
  <1>1. x \in Steps /\ y \in Steps /\ z \in Steps /\ w \in Steps /\ s \in Steps
    BY Letters, Parameters
  <1>2. Asked(c, code, p) = <<x, z>> /\ Asked2(c, code, p, p2) = <<x, y, w>>
    BY AskedIs
  <1>3. Command(c, code, p, p2) = <<w>> /\ Send(c, code, p, p2) = <<s>>
    BY DEF Command, Send
  <1> HIDE DEF x, y, z, w, s
  <1>4. <<x, z>> \in Seq(Steps) /\ <<x, y, w>> \in Seq(Steps)
    BY <1>1
  <1>5. <<w>> \in Seq(Steps) /\ <<s>> \in Seq(Steps)
    BY <1>1
  <1>6. Command(c, code, p, p2) \in Seq(Steps) /\ Send(c, code, p, p2) \in Seq(Steps)
    BY <1>3, <1>5
  <1>7. Asked(c, code, p) \in Seq(Steps) /\ Asked2(c, code, p, p2) \in Seq(Steps)
    BY <1>2, <1>4
  <1> QED
    BY <1>6, <1>7

(* So are the stores to thermalthrottling.                                 *)
LEMMA ThermalAreSteps ==
  ASSUME NEW a \in Calls, a.cmd \in Throttles
  PROVE  Thermal(a) \in Seq(Steps) /\ UsbThermal(a) \in Seq(Steps)
  <1>1. a.cmd \in Params /\ Whatever \in Params /\ 0 \in Chips /\ 1 \in Chips /\ "t" \in Codes
    BY Parameters DEF Chips
  <1>2. /\ Asked(0, "t", a.cmd) \in Seq(Steps) /\ Asked(1, "t", a.cmd) \in Seq(Steps)
        /\ Send(0, "t", a.cmd, Whatever) \in Seq(Steps) /\ Send(1, "t", a.cmd, Whatever) \in Seq(Steps)
    BY <1>1, CommandsAreSteps
  <1>3. <<Throttle(a.cmd)>> \in Seq(Steps)
    BY Strokes
  <1> QED
    BY <1>2, <1>3, ConcatProperties DEF Thermal, UsbThermal

(* The scripts of the commands one can write to cmd and debug.             *)
LEMMA HandlersAre ==
  ASSUME NEW a \in Calls, a.cmd \in Handled
  PROVE  /\ memx_fs_cmd_handler(a) \in Seq(Steps) /\ usb_fs_cmd_handler(a) \in Seq(Steps)
         /\ a.cmd = "fwlog" => memx_fs_cmd_handler(a) = memx_fw_log_dump /\ usb_fs_cmd_handler(a) = usb_fw_log_dump
         /\ a.cmd = "read" => /\ memx_fs_cmd_handler(a) = Asked(a.chip, "R", a.val)
                              /\ usb_fs_cmd_handler(a) = Send(a.chip, "R", a.val, Whatever)
         /\ a.cmd = "write" => /\ memx_fs_cmd_handler(a) = Asked2(a.chip, "W", a.val, a.val2)
                               /\ usb_fs_cmd_handler(a) = Send(a.chip, "W", a.val, a.val2)
         /\ a.cmd = "memx" => /\ memx_fs_cmd_handler(a) = Command(a.chip, "memx", Whatever, Whatever)
                              /\ usb_fs_cmd_handler(a) = Send(a.chip, "memx", Whatever, Whatever)
         /\ a.cmd = "rmtcmd" => /\ memx_fs_cmd_handler(a) = Asked(a.chip, a.val, a.val2)
                                /\ usb_fs_cmd_handler(a) = Send(a.chip, a.val, a.val2, Whatever)
  <1>1. a.chip \in Chips /\ a.val \in Params /\ a.val2 \in Params /\ Whatever \in Params
        /\ a.val \in Codes /\ "R" \in Codes /\ "W" \in Codes /\ "memx" \in Codes
    BY CallFacts, Parameters
  <1>2. CASE a.cmd = "fwlog"
    <2>1. memx_fs_cmd_handler(a) = memx_fw_log_dump /\ usb_fs_cmd_handler(a) = usb_fw_log_dump
      BY <1>2 DEF memx_fs_cmd_handler, usb_fs_cmd_handler
    <2>2. memx_fw_log_dump \in Seq(Steps) /\ usb_fw_log_dump \in Seq(Steps)
      BY Strokes DEF memx_fw_log_dump, usb_fw_log_dump
    <2> QED
      BY <1>2, <2>1, <2>2
  <1>3. CASE a.cmd = "read"
    <2>1. memx_fs_cmd_handler(a) = Asked(a.chip, "R", a.val) /\ usb_fs_cmd_handler(a) = Send(a.chip, "R", a.val, Whatever)
      BY <1>3 DEF memx_fs_cmd_handler, usb_fs_cmd_handler
    <2>2. Asked(a.chip, "R", a.val) \in Seq(Steps)
      BY <1>1, CommandsAreSteps
    <2>3. Send(a.chip, "R", a.val, Whatever) \in Seq(Steps)
      BY <1>1, CommandsAreSteps
    <2> QED
      BY <1>3, <2>1, <2>2, <2>3
  <1>4. CASE a.cmd = "write"
    <2>1. memx_fs_cmd_handler(a) = Asked2(a.chip, "W", a.val, a.val2) /\ usb_fs_cmd_handler(a) = Send(a.chip, "W", a.val, a.val2)
      BY <1>4 DEF memx_fs_cmd_handler, usb_fs_cmd_handler
    <2>2. Asked2(a.chip, "W", a.val, a.val2) \in Seq(Steps)
      BY <1>1, CommandsAreSteps
    <2>3. Send(a.chip, "W", a.val, a.val2) \in Seq(Steps)
      BY <1>1, CommandsAreSteps
    <2> QED
      BY <1>4, <2>1, <2>2, <2>3
  <1>5. CASE a.cmd = "memx"
    <2>1. memx_fs_cmd_handler(a) = Command(a.chip, "memx", Whatever, Whatever) /\ usb_fs_cmd_handler(a) = Send(a.chip, "memx", Whatever, Whatever)
      BY <1>5 DEF memx_fs_cmd_handler, usb_fs_cmd_handler
    <2>2. Command(a.chip, "memx", Whatever, Whatever) \in Seq(Steps)
      BY <1>1, CommandsAreSteps
    <2>3. Send(a.chip, "memx", Whatever, Whatever) \in Seq(Steps)
      BY <1>1, CommandsAreSteps
    <2> QED
      BY <1>5, <2>1, <2>2, <2>3
  <1>6. CASE a.cmd = "rmtcmd"
    <2>1. memx_fs_cmd_handler(a) = Asked(a.chip, a.val, a.val2) /\ usb_fs_cmd_handler(a) = Send(a.chip, a.val, a.val2, Whatever)
      BY <1>6 DEF memx_fs_cmd_handler, usb_fs_cmd_handler
    <2>2. Asked(a.chip, a.val, a.val2) \in Seq(Steps)
      BY <1>1, CommandsAreSteps
    <2>3. Send(a.chip, a.val, a.val2, Whatever) \in Seq(Steps)
      BY <1>1, CommandsAreSteps
    <2> QED
      BY <1>6, <2>1, <2>2, <2>3
  <1> QED
    BY <1>2, <1>3, <1>4, <1>5, <1>6 DEF Handled

(* Concatenations may be regrouped.                                        *)
Parts(s, t, u) == {s, t, u} \subseteq Seq(Steps)

LEMMA Associated ==
  ASSUME NEW s, NEW t, NEW u, Parts(s, t, u)
  PROVE  (s \o t) \o u = s \o (t \o u)
  <1>1. s \in Seq(Steps) /\ t \in Seq(Steps) /\ u \in Seq(Steps)
    BY DEF Parts
  <1> QED
    BY SMTT(30), <1>1, ConcatAssociative

(* The scripts of an update.                                               *)
LEMMA UpdatesAre ==
  /\ Programming \in Seq(Steps) /\ Len(Programming) = 6
  /\ UsbUpdate \in Seq(Steps)
  /\ (Asked2(0, "W", "qspi", "release") \o <<Request, Check>>) \o Programming \in Seq(Steps)
  /\ <<Find>> \o ((Asked2(0, "W", "qspi", "release") \o <<Request, Check>>) \o Programming)
       = ((<<Find>> \o Asked2(0, "W", "qspi", "release")) \o <<Request, Check>>) \o Programming
  <1>1. Programming \in Seq(Steps) /\ Len(Programming) = 6
    BY ProgrammingIs, Strokes
  <1>2. 0 \in Chips
    BY DEF Chips
  <1>3. Asked2(0, "W", "qspi", "release") \in Seq(Steps)
    BY <1>2, CommandsAreSteps, Parameters
  <1>4. Send(0, "W", "qspi", "release") \in Seq(Steps)
    BY <1>2, CommandsAreSteps, Parameters
  <1>5. <<Request, Check>> \in Seq(Steps) /\ <<Request>> \in Seq(Steps) /\ <<Find>> \in Seq(Steps)
    BY Strokes
  <1>6. UsbUpdate \in Seq(Steps)
    BY <1>1, <1>4, <1>5, ConcatProperties DEF UsbUpdate
  <1>7. Asked2(0, "W", "qspi", "release") \o <<Request, Check>> \in Seq(Steps)
    BY <1>3, <1>5, ConcatProperties
  <1>8. (Asked2(0, "W", "qspi", "release") \o <<Request, Check>>) \o Programming \in Seq(Steps)
    BY <1>1, <1>7, ConcatProperties
  <1> DEFINE A == Asked2(0, "W", "qspi", "release")
             B == <<Request, Check>>
             F == <<Find>>
             AB == A \o B
  <1>9. Parts(F, AB, Programming) /\ Parts(F, A, B)
    BY <1>1, <1>3, <1>5, <1>7 DEF Parts
  <1> HIDE DEF F, AB
  <1>a. (F \o AB) \o Programming = F \o (AB \o Programming)
    BY <1>9, Associated
  <1> HIDE DEF A, B
  <1>b. (F \o A) \o B = F \o AB
    BY <1>9, Associated DEF AB
  <1>10. F \o ((A \o B) \o Programming) = ((F \o A) \o B) \o Programming
    BY <1>a, <1>b DEF AB
  <1>11. <<Find>> \o ((Asked2(0, "W", "qspi", "release") \o <<Request, Check>>) \o Programming)
           = ((<<Find>> \o Asked2(0, "W", "qspi", "release")) \o <<Request, Check>>) \o Programming
    BY <1>10 DEF A, B, F
  <1> QED
    BY <1>1, <1>6, <1>8, <1>11

(* What the section of a call is.                                          *)
LEMMA SectionIs ==
  ASSUME NEW a \in Calls
  PROVE  /\ Section(model, a) \in Seq(Steps)
         /\ a.file = "throughput" => Section(model, a) = Throughput
         /\ a.file = "update_flash" =>
              Section(model, a) = IF model.bus = "usb" THEN UsbUpdate
                           ELSE IF model.type = "sys"
                                THEN (Asked2(0, "W", "qspi", "release") \o <<Request, Check>>) \o Programming
                                ELSE Programming
         /\ a.file = "thermalthrottling" =>
              Section(model, a) = IF a.how = "store" /\ a.cmd \in Throttles
                           THEN IF model.bus = "pcie" THEN Thermal(a) ELSE UsbThermal(a)
                           ELSE <<>>
         /\ a.file \in {"cmd", "debug"} =>
              Section(model, a) = IF a.how = "store" /\ a.cmd \in Handled
                           THEN IF model.bus = "pcie" THEN memx_fs_cmd_handler(a) ELSE usb_fs_cmd_handler(a)
                           ELSE <<>>
         /\ a.file \notin {"throughput", "update_flash", "thermalthrottling", "cmd", "debug"} => Section(model, a) = <<>>
  <1>1. CASE a.file = "throughput"
    <2>1. Section(model, a) = Throughput
      BY <1>1 DEF Section
    <2>2. Throughput \in Seq(Steps)
      BY Strokes DEF Throughput
    <2> QED
      BY <1>1, <2>1, <2>2
  <1>2. CASE a.file = "update_flash"
    <2>1. Section(model, a) = IF model.bus = "usb" THEN UsbUpdate
                       ELSE IF model.type = "sys"
                            THEN (Asked2(0, "W", "qspi", "release") \o <<Request, Check>>) \o Programming
                            ELSE Programming
      BY <1>2 DEF Section
    <2> QED
      BY <1>2, <2>1, UpdatesAre
  <1>3. CASE a.file = "thermalthrottling"
    <2>1. Section(model, a) = IF a.how = "store" /\ a.cmd \in Throttles
                       THEN IF model.bus = "pcie" THEN Thermal(a) ELSE UsbThermal(a)
                       ELSE <<>>
      BY <1>3 DEF Section
    <2>2. a.cmd \in Throttles => Thermal(a) \in Seq(Steps) /\ UsbThermal(a) \in Seq(Steps)
      BY ThermalAreSteps
    <2> QED
      BY <1>3, <2>1, <2>2
  <1>4. CASE a.file \in {"cmd", "debug"}
    <2>1. Section(model, a) = IF a.how = "store" /\ a.cmd \in Handled
                       THEN IF model.bus = "pcie" THEN memx_fs_cmd_handler(a) ELSE usb_fs_cmd_handler(a)
                       ELSE <<>>
      BY <1>4 DEF Section
    <2> QED
      BY <1>4, <2>1, HandlersAre
  <1>5. CASE a.file \notin {"throughput", "update_flash", "thermalthrottling", "cmd", "debug"}
    <2>1. Section(model, a) = <<>>
      BY <1>5 DEF Section
    <2> QED
      BY <1>5, <2>1
  <1> QED
    BY <1>1, <1>2, <1>3, <1>4, <1>5

-----------------------------------------------------------------------------
(* Every script leads to its section.                                      *)
LEMMA PcieCommandsLead ==
  ASSUME NEW a \in Calls, model.bus = "pcie", a.how = "store", a.file \in {"cmd", "debug"}
  PROVE  Led(memx_fs_parse_cmd_and_exec(a), Section(model, a))
  <1>1. CASE a.cmd \in Handled
    <2>1. memx_fs_parse_cmd_and_exec(a) = Section(model, a) /\ Section(model, a) \in Seq(Steps)
      BY <1>1, SectionIs DEF memx_fs_parse_cmd_and_exec, Handled
    <2> QED
      BY <2>1, ItselfLed
  <1>2. CASE a.cmd \notin Handled
    <2>1. Section(model, a) = <<>>
      BY <1>2, SectionIs
    <2>2. memx_fs_parse_cmd_and_exec(a) \in Seq(Calm)
      BY <1>2, CalmSteps DEF memx_fs_parse_cmd_and_exec, memx_msi_trigger_handler
    <2> QED
      BY <2>1, <2>2, CalmLed
  <1> QED
    BY <1>1, <1>2

(* The same over USB.                                                      *)
LEMMA UsbCommandsLead ==
  ASSUME NEW a \in Calls, model.bus = "usb", a.how = "store", a.file \in {"cmd", "debug"}
  PROVE  Led(usb_fs_parse_cmd_and_exec(a), Section(model, a))
  <1>1. CASE a.cmd \in Handled
    <2>1. usb_fs_parse_cmd_and_exec(a) = Section(model, a) /\ Section(model, a) \in Seq(Steps)
      BY <1>1, SectionIs DEF usb_fs_parse_cmd_and_exec
    <2> QED
      BY <2>1, ItselfLed
  <1>2. CASE a.cmd \notin Handled
    <2>1. Section(model, a) = <<>>
      BY <1>2, SectionIs
    <2>2. usb_fs_parse_cmd_and_exec(a) \in Seq(Calm)
      BY <1>2 DEF usb_fs_parse_cmd_and_exec
    <2> QED
      BY <2>1, <2>2, CalmLed
  <1> QED
    BY <1>1, <1>2

(* I2C, GPIO and frequencies only look.                                    *)
LEMMA CalmHandlers ==
  ASSUME NEW a \in Calls
  PROVE  /\ memx_fs_parse_i2ctrl_and_exec \in Seq(Calm) /\ usb_fs_parse_i2ctrl_and_exec \in Seq(Calm)
         /\ memx_fs_parse_gpioctrl_and_exec(a) \in Seq(Calm) /\ usb_fs_parse_gpioctrl_and_exec(a) \in Seq(Calm)
         /\ Frequencies \in Seq(Calm) /\ UsbFrequencies \in Seq(Calm)
  <1>1. memx_fs_parse_i2ctrl_and_exec \in Seq(Calm) /\ usb_fs_parse_i2ctrl_and_exec \in Seq(Calm)
    BY CalmSteps DEF memx_fs_parse_i2ctrl_and_exec, usb_fs_parse_i2ctrl_and_exec
  <1>2. memx_fs_parse_gpioctrl_and_exec(a) \in Seq(Calm) /\ usb_fs_parse_gpioctrl_and_exec(a) \in Seq(Calm)
    BY CalmSteps DEF memx_fs_parse_gpioctrl_and_exec, usb_fs_parse_gpioctrl_and_exec
  <1>3. <<Look, Look>> \in Seq(Calm)
    BY CalmSteps
  <1>4. Frequencies \in Seq(Calm) /\ UsbFrequencies \in Seq(Calm)
    BY <1>3, ConcatProperties DEF Frequencies, UsbFrequencies, memx_fs_get_frequency, usb_fs_get_frequency
  <1> QED
    BY <1>1, <1>2, <1>4

(* The files in /proc of the PCIe driver.                                  *)
LEMMA ProcLeads ==
  ASSUME NEW a \in Calls, model.bus = "pcie", model.type = "proc"
  PROVE  Led(proc_fops(a), Section(model, a))
  <1>1. CASE a.how = "read" /\ a.file \in Usages
    <2>1. Section(model, a) = <<>>
      BY <1>1, SectionIs DEF Usages
    <2>2. proc_fops(a) \in {<<>>, <<Look>>}
      BY <1>1 DEF proc_fops, proc_opens, proc_usages, Usages
    <2>3. <<>> \in Seq(Calm) /\ <<Look>> \in Seq(Calm)
      BY CalmSteps
    <2> QED
      BY <2>1, <2>2, <2>3, CalmLed
  <1>2. CASE a.how = "read" /\ a.file = "update_flash"
    <2>1. Section(model, a) = Programming
      BY <1>2, SectionIs
    <2>2. proc_fops(a) = <<Look, Request, Check>> \o Programming
      BY <1>2 DEF proc_fops, proc_opens, Usages, proc_qspi
    <2>3. <<Look, Request, Check>> \in Seq(Calm)
      BY CalmSteps
    <2> QED
      BY <2>1, <2>2, <2>3 DEF Led
  <1>3. CASE a.how = "read" /\ a.file = "throughput"
    <2>1. Section(model, a) = Throughput /\ Section(model, a) \in Seq(Steps)
      BY <1>3, SectionIs
    <2>2. proc_fops(a) = Throughput
      BY <1>3 DEF proc_fops, proc_opens, proc_readings, Usages
    <2> QED
      BY <2>1, <2>2, ItselfLed
  <1>4. CASE a.how = "read" /\ a.file \notin Usages \cup {"update_flash", "throughput"}
    <2>1. Section(model, a) = <<>>
      BY <1>4, SectionIs DEF Usages
    <2>2. proc_fops(a) = proc_readings(a)
      BY <1>4 DEF proc_fops, proc_opens
    <2>3. proc_readings(a) \in {<<>>, <<Look>>, <<Look, Look>>, Frequencies}
      BY <1>4 DEF proc_readings
    <2>4. <<>> \in Seq(Calm) /\ <<Look>> \in Seq(Calm) /\ <<Look, Look>> \in Seq(Calm) /\ Frequencies \in Seq(Calm)
      BY CalmSteps, CalmHandlers
    <2> QED
      BY <2>1, <2>2, <2>3, <2>4, CalmLed
  <1>5. CASE a.how = "store" /\ a.file \in {"cmd", "debug"}
    <2>1. proc_fops(a) = memx_fs_parse_cmd_and_exec(a)
      BY <1>5 DEF proc_fops, proc_writes
    <2> QED
      BY <1>5, <2>1, PcieCommandsLead
  <1>6. CASE a.how = "store" /\ a.file \in {"i2ctrl", "gpioctrl"}
    <2>1. proc_fops(a) \in {memx_fs_parse_i2ctrl_and_exec, memx_fs_parse_gpioctrl_and_exec(a)}
      BY <1>6 DEF proc_fops, proc_writes
    <2>2. Section(model, a) = <<>>
      BY <1>6, SectionIs
    <2> QED
      BY <2>1, <2>2, CalmHandlers, CalmLed
  <1>7. CASE a.how = "store" /\ a.file = "thermalthrottling"
    <2>1. proc_fops(a) = IF a.cmd \in Throttles THEN Thermal(a) ELSE <<>>
      BY <1>7 DEF proc_fops, proc_writes
    <2>2. Section(model, a) = IF a.cmd \in Throttles THEN Thermal(a) ELSE <<>>
      BY <1>7, SectionIs
    <2> QED
      BY <2>1, <2>2, SectionIs, ItselfLed
  <1> QED
    BY <1>1, <1>2, <1>3, <1>4, <1>5, <1>6, <1>7, CallFacts DEF Writable, Usages

(* The files in /proc of the USB driver.                                   *)
LEMMA UsbProcLeads ==
  ASSUME NEW a \in Calls, model.bus = "usb", model.type = "proc"
  PROVE  Led(usb_proc_fops(a), Section(model, a))
  <1>1. CASE a.how = "read" /\ a.file \in Usages
    <2>1. Section(model, a) = <<>>
      BY <1>1, SectionIs DEF Usages
    <2>2. usb_proc_fops(a) \in {<<>>, <<Look>>}
      BY <1>1 DEF usb_proc_fops, usb_proc_opens, usb_proc_usages, Usages
    <2>3. <<>> \in Seq(Calm) /\ <<Look>> \in Seq(Calm)
      BY CalmSteps
    <2> QED
      BY <2>1, <2>2, <2>3, CalmLed
  <1>2. CASE a.how = "read" /\ a.file = "update_flash"
    <2>1. Section(model, a) = UsbUpdate /\ Section(model, a) \in Seq(Steps)
      BY <1>2, SectionIs
    <2>2. usb_proc_fops(a) = UsbUpdate
      BY <1>2 DEF usb_proc_fops, usb_proc_opens, Usages, usb_proc_qspi
    <2> QED
      BY <2>1, <2>2, ItselfLed
  <1>3. CASE a.how = "read" /\ a.file = "throughput"
    <2>1. Section(model, a) = Throughput /\ Section(model, a) \in Seq(Steps)
      BY <1>3, SectionIs
    <2>2. usb_proc_fops(a) = Throughput
      BY <1>3 DEF usb_proc_fops, usb_proc_opens, usb_proc_readings, Usages
    <2> QED
      BY <2>1, <2>2, ItselfLed
  <1>4. CASE a.how = "read" /\ a.file \notin Usages \cup {"update_flash", "throughput"}
    <2>1. Section(model, a) = <<>>
      BY <1>4, SectionIs DEF Usages
    <2>2. usb_proc_fops(a) = usb_proc_readings(a)
      BY <1>4 DEF usb_proc_fops, usb_proc_opens
    <2>3. usb_proc_readings(a) \in {<<>>, <<Look>>, <<Look, Look, Look, Look, Look>>, UsbFrequencies}
      BY <1>4 DEF usb_proc_readings
    <2>4. <<>> \in Seq(Calm) /\ <<Look>> \in Seq(Calm) /\ <<Look, Look, Look, Look, Look>> \in Seq(Calm) /\ UsbFrequencies \in Seq(Calm)
      BY CalmSteps, CalmHandlers
    <2> QED
      BY <2>1, <2>2, <2>3, <2>4, CalmLed
  <1>5. CASE a.how = "store" /\ a.file \in {"cmd", "debug"}
    <2>1. usb_proc_fops(a) = usb_fs_parse_cmd_and_exec(a)
      BY <1>5 DEF usb_proc_fops, usb_proc_writes
    <2> QED
      BY <1>5, <2>1, UsbCommandsLead
  <1>6. CASE a.how = "store" /\ a.file \in {"i2ctrl", "gpioctrl"}
    <2>1. usb_proc_fops(a) \in {usb_fs_parse_i2ctrl_and_exec, usb_fs_parse_gpioctrl_and_exec(a)}
      BY <1>6 DEF usb_proc_fops, usb_proc_writes
    <2>2. Section(model, a) = <<>>
      BY <1>6, SectionIs
    <2> QED
      BY <2>1, <2>2, CalmHandlers, CalmLed
  <1>7. CASE a.how = "store" /\ a.file = "thermalthrottling"
    <2>1. usb_proc_fops(a) = IF a.cmd \in Throttles THEN UsbThermal(a) ELSE <<>>
      BY <1>7 DEF usb_proc_fops, usb_proc_writes
    <2>2. Section(model, a) = IF a.cmd \in Throttles THEN UsbThermal(a) ELSE <<>>
      BY <1>7, SectionIs
    <2> QED
      BY <2>1, <2>2, SectionIs, ItselfLed
  <1> QED
    BY <1>1, <1>2, <1>3, <1>4, <1>5, <1>6, <1>7, CallFacts DEF Writable, Usages

FindLed(s, e) == \E x : Led(x, e) /\ s = <<Find>> \o x

(* Readings that find their device and look lead to no section.            *)
LEMMA FindLooks ==
  /\ FindLed(<<Find>>, <<>>) /\ FindLed(<<Find, Look>>, <<>>) /\ FindLed(<<Find, Look, Look>>, <<>>)
  /\ FindLed(<<Find, Look, Look, Look, Look, Look>>, <<>>)
  <1>1. Find \in Steps /\ Look \in Steps
    BY Strokes
  <1> DEFINE l5 == <<Look, Look, Look, Look, Look>>
             f5 == <<Find, Look, Look, Look, Look, Look>>
  <1>2. /\ <<>> \in Seq(Calm) /\ <<Look>> \in Seq(Calm) /\ <<Look, Look>> \in Seq(Calm) /\ l5 \in Seq(Calm)
    BY CalmSteps
  <1>3. <<Find>> \o <<>> = <<Find>> /\ <<Find>> \o <<Look>> = <<Find, Look>> /\ <<Find>> \o <<Look, Look>> = <<Find, Look, Look>>
    BY <1>1, Join11, Join12, ConcatEmptySeq
  <1>4. l5 \in Seq(Steps) /\ f5 \in Seq(Steps) /\ <<Find>> \in Seq(Steps)
    BY <1>1
  <1>5. /\ Len(f5) = Len(<<Find>>) + Len(l5)
        /\ \A i \in 1..Len(<<Find>>) : f5[i] = <<Find>>[i]
        /\ \A i \in 1..Len(l5) : f5[Len(<<Find>>) + i] = l5[i]
    OBVIOUS
  <1>6. <<Find>> \o l5 = f5
    BY <1>4, <1>5, Joined
  <1> QED
    BY <1>2, <1>3, <1>6, CalmLed DEF FindLed

(* The files in /sys of the PCIe driver.                                   *)
LEMMA SysLeads ==
  ASSUME NEW a \in Calls, model.bus = "pcie", model.type = "sys"
  PROVE  IF a.file = "throughput" THEN Led(sys_attrs(a), Section(model, a))
         ELSE \/ FindLed(sys_attrs(a), Section(model, a))
              \/ Section(model, a) = <<>> /\ sys_attrs(a) = <<>>
  <1>1. CASE a.how = "read" /\ a.file \in Usages
    <2>1. Section(model, a) = <<>>
      BY <1>1, SectionIs DEF Usages
    <2>2. sys_attrs(a) \in {<<>>, <<Find, Look>>}
      BY <1>1 DEF sys_attrs, sys_usages, Usages
    <2> QED
      BY <1>1, <2>1, <2>2, FindLooks DEF Usages
  <1>2. CASE a.how = "read" /\ a.file = "update_flash"
    <2>1. Section(model, a) \in Seq(Steps) /\ sys_attrs(a) = <<Find>> \o Section(model, a)
      BY <1>2, SectionIs, UpdatesAre DEF sys_attrs, sys_update_flash, Usages
    <2> QED
      BY <1>2, <2>1, ItselfLed DEF FindLed
  <1>3. CASE a.how = "read" /\ a.file = "throughput"
    <2>1. Section(model, a) = Throughput /\ Section(model, a) \in Seq(Steps)
      BY <1>3, SectionIs
    <2>2. sys_attrs(a) = Throughput
      BY <1>3 DEF sys_attrs, sys_counters, Usages
    <2> QED
      BY <1>3, <2>1, <2>2, ItselfLed
  <1>4. CASE a.how = "read" /\ a.file \in {"verinfo", "utilization"}
    <2>1. Section(model, a) = <<>>
      BY <1>4, SectionIs
    <2>2. sys_attrs(a) \in {<<Find, Look, Look>>, <<Find, Look>>}
      BY <1>4 DEF sys_attrs, sys_readings, Usages
    <2> QED
      BY <1>4, <2>1, <2>2, FindLooks
  <1>5. CASE a.how = "read" /\ a.file \in {"temperature", "thermalthrottling"}
    <2>1. Section(model, a) = <<>>
      BY <1>5, SectionIs
    <2>2. sys_attrs(a) \in {<<Find>>, <<Find, Look>>}
      BY <1>5 DEF sys_attrs, sys_counters, Usages
    <2> QED
      BY <1>5, <2>1, <2>2, FindLooks
  <1>6. CASE a.how = "read" /\ a.file \in {"frequency", "hitcount"}
    <2>1. Section(model, a) = <<>>
      BY <1>6, SectionIs
    <2>2. sys_attrs(a) \in {<<>>, <<Find>> \o Frequencies}
      BY <1>6 DEF sys_attrs, sys_counters, Usages
    <2>3. FindLed(<<Find>> \o Frequencies, <<>>)
      BY CalmHandlers, CalmLed DEF FindLed
    <2> QED
      BY <1>6, <2>1, <2>2, <2>3
  <1>7. CASE a.how = "store" /\ a.file \in {"cmd", "debug"}
    <2>1. sys_attrs(a) = <<Find>> \o memx_fs_parse_cmd_and_exec(a)
      BY <1>7 DEF sys_attrs, sys_stores
    <2> QED
      BY <1>7, <2>1, PcieCommandsLead DEF FindLed
  <1>8. CASE a.how = "store" /\ a.file \in {"i2ctrl", "gpioctrl"}
    <2>1. \E p \in Seq(Calm) : sys_attrs(a) = <<Find>> \o p
      BY <1>8, CalmHandlers DEF sys_attrs, sys_stores
    <2>2. Section(model, a) = <<>>
      BY <1>8, SectionIs
    <2> QED
      BY <1>8, <2>1, <2>2, CalmLed DEF FindLed
  <1>9. CASE a.how = "store" /\ a.file = "thermalthrottling"
    <2>1. sys_attrs(a) = <<Find>> \o (IF a.cmd \in Throttles THEN Thermal(a) ELSE <<>>)
      BY <1>9 DEF sys_attrs, sys_thermal_store
    <2>2. Section(model, a) = (IF a.cmd \in Throttles THEN Thermal(a) ELSE <<>>) /\ Section(model, a) \in Seq(Steps)
      BY <1>9, SectionIs
    <2> QED
      BY <1>9, <2>1, <2>2, ItselfLed DEF FindLed
  <1> QED
    BY <1>1, <1>2, <1>3, <1>4, <1>5, <1>6, <1>7, <1>8, <1>9, CallFacts DEF Writable, Usages, FileNames

(* The files in /sys of the USB driver.                                    *)
LEMMA UsbSysLeads ==
  ASSUME NEW a \in Calls, model.bus = "usb", model.type = "sys"
  PROVE  IF a.file = "throughput" THEN Led(usb_sys_attrs(a), Section(model, a))
         ELSE \/ FindLed(usb_sys_attrs(a), Section(model, a))
              \/ Section(model, a) = <<>> /\ usb_sys_attrs(a) = <<>>
  <1>1. CASE a.how = "read" /\ a.file \in Usages
    <2>1. Section(model, a) = <<>>
      BY <1>1, SectionIs DEF Usages
    <2>2. usb_sys_attrs(a) \in {<<>>, <<Find, Look>>}
      BY <1>1 DEF usb_sys_attrs, usb_sys_usages, Usages
    <2> QED
      BY <1>1, <2>1, <2>2, FindLooks DEF Usages
  <1>2. CASE a.how = "read" /\ a.file = "update_flash"
    <2>1. Section(model, a) \in Seq(Steps) /\ usb_sys_attrs(a) = <<Find>> \o Section(model, a)
      BY <1>2, SectionIs, UpdatesAre DEF usb_sys_attrs, usb_sys_update_flash, Usages
    <2> QED
      BY <1>2, <2>1, ItselfLed DEF FindLed
  <1>3. CASE a.how = "read" /\ a.file = "throughput"
    <2>1. Section(model, a) = Throughput /\ Section(model, a) \in Seq(Steps)
      BY <1>3, SectionIs
    <2>2. usb_sys_attrs(a) = Throughput
      BY <1>3 DEF usb_sys_attrs, usb_sys_counters, Usages
    <2> QED
      BY <1>3, <2>1, <2>2, ItselfLed
  <1>4. CASE a.how = "read" /\ a.file \in {"verinfo", "utilization"}
    <2>1. Section(model, a) = <<>>
      BY <1>4, SectionIs
    <2>2. usb_sys_attrs(a) \in {<<Find, Look, Look, Look, Look, Look>>, <<Find, Look>>}
      BY <1>4 DEF usb_sys_attrs, usb_sys_readings, Usages
    <2> QED
      BY <1>4, <2>1, <2>2, FindLooks
  <1>5. CASE a.how = "read" /\ a.file \in {"temperature", "thermalthrottling"}
    <2>1. Section(model, a) = <<>>
      BY <1>5, SectionIs
    <2>2. usb_sys_attrs(a) \in {<<Find>>, <<Find, Look>>}
      BY <1>5 DEF usb_sys_attrs, usb_sys_counters, Usages
    <2> QED
      BY <1>5, <2>1, <2>2, FindLooks
  <1>6. CASE a.how = "read" /\ a.file \in {"frequency", "hitcount"}
    <2>1. Section(model, a) = <<>>
      BY <1>6, SectionIs
    <2>2. usb_sys_attrs(a) \in {<<>>, <<Find>> \o UsbFrequencies}
      BY <1>6 DEF usb_sys_attrs, usb_sys_counters, Usages
    <2>3. FindLed(<<Find>> \o UsbFrequencies, <<>>)
      BY CalmHandlers, CalmLed DEF FindLed
    <2> QED
      BY <1>6, <2>1, <2>2, <2>3
  <1>7. CASE a.how = "store" /\ a.file \in {"cmd", "debug"}
    <2>1. usb_sys_attrs(a) = <<Find>> \o usb_fs_parse_cmd_and_exec(a)
      BY <1>7 DEF usb_sys_attrs, usb_sys_stores
    <2> QED
      BY <1>7, <2>1, UsbCommandsLead DEF FindLed
  <1>8. CASE a.how = "store" /\ a.file \in {"i2ctrl", "gpioctrl"}
    <2>1. \E p \in Seq(Calm) : usb_sys_attrs(a) = <<Find>> \o p
      BY <1>8, CalmHandlers DEF usb_sys_attrs, usb_sys_stores
    <2>2. Section(model, a) = <<>>
      BY <1>8, SectionIs
    <2> QED
      BY <1>8, <2>1, <2>2, CalmLed DEF FindLed
  <1>9. CASE a.how = "store" /\ a.file = "thermalthrottling"
    <2>1. usb_sys_attrs(a) = <<Find>> \o (IF a.cmd \in Throttles THEN UsbThermal(a) ELSE <<>>)
      BY <1>9 DEF usb_sys_attrs, usb_sys_thermal_store
    <2>2. Section(model, a) = (IF a.cmd \in Throttles THEN UsbThermal(a) ELSE <<>>) /\ Section(model, a) \in Seq(Steps)
      BY <1>9, SectionIs
    <2> QED
      BY <1>9, <2>1, <2>2, ItselfLed DEF FindLed
  <1> QED
    BY <1>1, <1>2, <1>3, <1>4, <1>5, <1>6, <1>7, <1>8, <1>9, CallFacts DEF Writable, Usages, FileNames

(* What is left of a script that begins is what leads to its section, and  *)
(* but for the throughput, whoever has one finds a device first.           *)
LEMMA ScriptIs ==
  ASSUME model \in Scenarios, NEW a \in Calls
  PROVE  /\ Script(a) \in Seq(Steps) /\ Section(model, a) \in Seq(Steps) /\ Aligned(model, Script(a), Section(model, a))
         /\ Len(Script(a)) \in Nat /\ Len(Section(model, a)) \in Nat /\ Len(Script(a)) >= Len(Section(model, a))
         /\ model.type = "sys" /\ Section(model, a) # <<>> /\ a.file # "throughput" =>
              Len(Script(a)) > Len(Section(model, a)) /\ Script(a)[1] = Find
  <1>1. Section(model, a) \in Seq(Steps) /\ Len(Section(model, a)) \in Nat
    BY SectionIs, LenProperties
  <1>2. model.bus \in {"pcie", "usb"} /\ model.type \in {"sys", "proc"}
    BY DebugAssumption
  <1>3. CASE model.type = "proc" \/ a.file = "throughput"
    <2>1. Led(Script(a), Section(model, a))
      BY <1>2, <1>3, ProcLeads, UsbProcLeads, SysLeads, UsbSysLeads DEF Script
    <2> QED
      BY <1>1, <1>3, <2>1, LedAligned, LedLonger
  <1>4. CASE model.type = "sys" /\ a.file # "throughput"
    <2>1. \/ FindLed(Script(a), Section(model, a))
          \/ Section(model, a) = <<>> /\ Script(a) = <<>>
      BY <1>2, <1>4, SysLeads, UsbSysLeads DEF Script
    <2>2. CASE Section(model, a) = <<>> /\ Script(a) = <<>>
      BY <1>1, <2>2 DEF Aligned
    <2>3. CASE FindLed(Script(a), Section(model, a))
      <3>1. PICK x : Led(x, Section(model, a)) /\ Script(a) = <<Find>> \o x
        BY <2>3 DEF FindLed
      <3>2. x \in Seq(Steps) /\ Len(x) \in Nat
        BY <1>1, <3>1, LedAligned, LenProperties
      <3> QED
        BY <1>1, <1>4, <3>1, <3>2, FindAligned
    <2> QED
      BY <2>1, <2>2, <2>3
  <1> QED
    BY <1>2, <1>3, <1>4

-----------------------------------------------------------------------------
(* What the steps of a section are.                                        *)

(* The words before place k that make up one command with it.              *)
Parameter(s)   == s.do = "mail" /\ s.reg # "commd"
Fresh(e, k)    == {j \in 1..k - 1 : \A i \in j..k - 1 : Parameter(e[i])}
Given(e, k, reg, v) ==
  v = Whatever \/ \E j \in Fresh(e, k) : e[j].reg = reg /\ e[j].chip = e[k].chip /\ e[j].val = v

Kind(a, e, i) ==
  /\ e[i].do \notin {"find", "fault"}
  /\ e[i].do = "log" => a.file \in {"cmd", "debug"} /\ a.how = "store" /\ a.cmd = "fwlog"
  /\ e[i].do \in {"read", "print", "reset"} => a.file = "throughput"
  /\ e[i].do \in {"word", "sram", "poll", "verdict"} => a.file = "update_flash" /\ i > Len(e) - 6
  /\ e[i].do = "mail" => model.bus = "pcie" /\ a.file \in Mailing
  /\ e[i].do = "send" => model.bus = "usb" /\ a.file \in Mailing
  /\ e[i].do = "throttle" => a.file = "thermalthrottling" /\ a.how = "store" /\ a.cmd \in Throttles
  /\ e[i].do = "mail" /\ e[i].reg = "commd" =>
       /\ Given(e, i, "param", e[i].val.param) /\ Given(e, i, "param2", e[i].val.param2)
  /\ Parameter(e[i]) => \A j \in Fresh(e, i) : e[j].reg # e[i].reg
  /\ (e[i].do = "mail" /\ e[i].reg = "commd") \/ e[i].do = "send" =>
       /\ e[i].val # Rest
       /\ e[i].val.code = "t" => e[i].val.param # Whatever

Kinds(a, e) == \A i \in 1..Len(e) : Kind(a, e, i)

(* The steps of a dump.                                                    *)
LEMMA LogKinds ==
  ASSUME NEW a \in Calls, a.file \in {"cmd", "debug"}, a.how = "store", a.cmd = "fwlog"
  PROVE  Kinds(a, memx_fw_log_dump) /\ Kinds(a, usb_fw_log_dump)
  <1>1. ASSUME NEW i \in 1..6
        PROVE  Kind(a, memx_fw_log_dump, i)
    <2>1. memx_fw_log_dump[i].do \in {"log", "maybe"}
      BY DEF memx_fw_log_dump, Log, Maybe
    <2> QED
      BY <2>1 DEF Kind, Parameter
  <1>2. ASSUME NEW i \in 1..3
        PROVE  Kind(a, usb_fw_log_dump, i)
    <2>1. usb_fw_log_dump[i].do \in {"log", "maybe"}
      BY DEF usb_fw_log_dump, Log, Maybe
    <2> QED
      BY <2>1 DEF Kind, Parameter
  <1>3. Len(memx_fw_log_dump) = 6 /\ Len(usb_fw_log_dump) = 3
    BY DEF memx_fw_log_dump, usb_fw_log_dump
  <1> QED
    BY <1>1, <1>2, <1>3 DEF Kinds

(* The steps of a showing of the counters.                                 *)
LEMMA ThroughputKinds ==
  ASSUME NEW a \in Calls, a.file = "throughput"
  PROVE  Kinds(a, Throughput)
  <1>1. ASSUME NEW i \in 1..5
        PROVE  Kind(a, Throughput, i)
    <2>1. Throughput[i].do \in {"read", "print", "reset"}
      BY DEF Throughput, Read, Display, Reset
    <2> QED
      BY <2>1 DEF Kind, Parameter
  <1>2. Len(Throughput) = 5
    BY DEF Throughput
  <1> QED
    BY <1>1, <1>2 DEF Kinds

(* The step of a command over USB.                                         *)
LEMMA SendKinds ==
  ASSUME NEW a \in Calls, model.bus = "usb", a.file \in Mailing, NEW c \in Chips, NEW p \in Params, NEW p2 \in Params,
         NEW code \in Codes, code # "none", code = "t" => p # Whatever
  PROVE  Kinds(a, Send(c, code, p, p2))
  <1>1. Len(Send(c, code, p, p2)) = 1 /\ Send(c, code, p, p2)[1] = [do |-> "send", chip |-> c, val |-> Code(code, p, p2)]
    BY DEF Send
  <1>2. Code(code, p, p2).code = code /\ Code(code, p, p2).param = p /\ Rest.code = "none"
    BY DEF Code, Rest
  <1>3. Kind(a, Send(c, code, p, p2), 1)
    BY <1>1, <1>2 DEF Kind, Parameter
  <1> QED
    BY <1>1, <1>3 DEF Kinds

(* The parameters before the first, the second and the third place.        *)
LEMMA FreshAre ==
  ASSUME NEW e
  PROVE  /\ Fresh(e, 1) = {}
         /\ Fresh(e, 2) = IF Parameter(e[1]) THEN {1} ELSE {}
         /\ Fresh(e, 3) = IF Parameter(e[2]) THEN IF Parameter(e[1]) THEN {1, 2} ELSE {2} ELSE {}
  BY DEF Fresh

(* And before the next one.                                                *)
LEMMA FreshNext ==
  ASSUME NEW e, NEW k \in Nat \ {0}
  PROVE  Fresh(e, k + 1) = IF Parameter(e[k]) THEN Fresh(e, k) \cup {k} ELSE {}
  <1>1. CASE Parameter(e[k])
    BY <1>1 DEF Fresh
  <1>2. CASE ~Parameter(e[k])
    BY <1>2 DEF Fresh
  <1> QED
    BY <1>1, <1>2

(* The steps of a command over PCIe bring its parameters before it.        *)
LEMMA CommandKinds ==
  ASSUME NEW a \in Calls, model.bus = "pcie", a.file \in Mailing, NEW c \in Chips, NEW p \in Params, NEW p2 \in Params
  PROVE  /\ \A code \in Codes \ {"none"} : (code = "t" => p # Whatever) => Kinds(a, Asked(c, code, p))
         /\ Kinds(a, Asked2(c, "W", p, p2))
         /\ Kinds(a, Command(c, "memx", Whatever, Whatever))
  <1>1. ASSUME NEW code \in Codes \ {"none"}, code = "t" => p # Whatever
        PROVE  Kinds(a, Asked(c, code, p))
    <2> DEFINE e == Asked(c, code, p)
    <2>1. e = <<Mail(c, "param", p), Mail(c, "commd", Code(code, p, Whatever))>>
      BY AskedIs, Parameters
    <2>2. /\ Len(e) = 2 /\ e[1] = Mail(c, "param", p) /\ e[2] = Mail(c, "commd", Code(code, p, Whatever))
      BY <2>1
    <2> HIDE DEF e
    <2>3. /\ e[1].do = "mail" /\ e[1].reg = "param" /\ e[1].val = p /\ e[1].chip = c
          /\ e[2].do = "mail" /\ e[2].reg = "commd" /\ e[2].chip = c
          /\ e[2].val.code = code /\ e[2].val.param = p /\ e[2].val.param2 = Whatever /\ Rest.code = "none"
      BY <2>2 DEF Mail, Code, Rest
    <2>4. Fresh(e, 1) = {} /\ Fresh(e, 2) = {1}
      BY <2>3, FreshAre DEF Parameter
    <2>5. Kind(a, e, 1)
      BY <2>3, <2>4 DEF Kind, Parameter
    <2>6. Kind(a, e, 2)
      BY <1>1, <2>3, <2>4 DEF Kind, Parameter, Given
    <2> QED
      BY <2>2, <2>5, <2>6 DEF Kinds, e
  <1>2. Kinds(a, Asked2(c, "W", p, p2))
    <2> DEFINE e == Asked2(c, "W", p, p2)
    <2>1. e = <<Mail(c, "param", p), Mail(c, "param2", p2), Mail(c, "commd", Code("W", p, p2))>>
      BY AskedIs, Parameters
    <2>2. /\ Len(e) = 3 /\ e[1] = Mail(c, "param", p) /\ e[2] = Mail(c, "param2", p2) /\ e[3] = Mail(c, "commd", Code("W", p, p2))
      BY <2>1
    <2> HIDE DEF e
    <2>3. /\ e[1].do = "mail" /\ e[1].reg = "param" /\ e[1].val = p /\ e[1].chip = c
          /\ e[2].do = "mail" /\ e[2].reg = "param2" /\ e[2].val = p2 /\ e[2].chip = c
          /\ e[3].do = "mail" /\ e[3].reg = "commd" /\ e[3].chip = c
          /\ e[3].val.code = "W" /\ e[3].val.param = p /\ e[3].val.param2 = p2 /\ Rest.code = "none"
      BY <2>2 DEF Mail, Code, Rest
    <2>4. Fresh(e, 1) = {} /\ Fresh(e, 2) = {1} /\ Fresh(e, 3) = {1, 2}
      BY <2>3, FreshAre DEF Parameter
    <2>5. Kind(a, e, 1) /\ Kind(a, e, 2)
      BY <2>3, <2>4 DEF Kind, Parameter
    <2>6. Kind(a, e, 3)
      BY <2>3, <2>4 DEF Kind, Parameter, Given
    <2>7. Kinds(a, e)
      BY <2>2, <2>5, <2>6 DEF Kinds
    <2> QED
      BY <2>7 DEF e
  <1>3. Kinds(a, Command(c, "memx", Whatever, Whatever))
    <2> DEFINE e == Command(c, "memx", Whatever, Whatever)
    <2>1. Len(e) = 1 /\ e[1] = Mail(c, "commd", Code("memx", Whatever, Whatever))
      BY DEF Command
    <2> HIDE DEF e
    <2>2. /\ e[1].do = "mail" /\ e[1].reg = "commd" /\ e[1].chip = c
          /\ e[1].val.code = "memx" /\ e[1].val.param = Whatever /\ e[1].val.param2 = Whatever /\ Rest.code = "none"
      BY <2>1 DEF Mail, Code, Rest
    <2>3. Kind(a, e, 1)
      BY <2>2 DEF Kind, Parameter, Given
    <2>4. Kinds(a, e)
      BY <2>1, <2>3 DEF Kinds
    <2> QED
      BY <2>4 DEF e
  <1> QED
    BY <1>1, <1>2, <1>3

(* So do those of a store to thermalthrottling.                            *)
LEMMA ThermalKinds ==
  ASSUME NEW a \in Calls, a.file = "thermalthrottling", a.how = "store", a.cmd \in Throttles
  PROVE  /\ model.bus = "pcie" => Kinds(a, Thermal(a))
         /\ model.bus = "usb" => Kinds(a, UsbThermal(a))
  <1>1. a.file \in Mailing /\ a.cmd # Whatever
    BY DEF Mailing, Writable, Throttles, Whatever
  <1>2. ASSUME model.bus = "pcie"
        PROVE  Kinds(a, Thermal(a))
    <2> DEFINE e == Thermal(a)
    <2>1. e = <<Mail(0, "param", a.cmd), Mail(0, "commd", Code("t", a.cmd, Whatever)),
                Mail(1, "param", a.cmd), Mail(1, "commd", Code("t", a.cmd, Whatever)), Throttle(a.cmd)>>
      BY ThermalIs
    <2>2. /\ Len(e) = 5 /\ e[1] = Mail(0, "param", a.cmd) /\ e[2] = Mail(0, "commd", Code("t", a.cmd, Whatever))
          /\ e[3] = Mail(1, "param", a.cmd) /\ e[4] = Mail(1, "commd", Code("t", a.cmd, Whatever))
          /\ e[5] = Throttle(a.cmd)
      BY <2>1
    <2> HIDE DEF e
    <2>3. /\ e[1].do = "mail" /\ e[1].reg = "param" /\ e[1].val = a.cmd /\ e[1].chip = 0
          /\ e[2].do = "mail" /\ e[2].reg = "commd" /\ e[2].chip = 0
          /\ e[2].val.code = "t" /\ e[2].val.param = a.cmd /\ e[2].val.param2 = Whatever /\ Rest.code = "none"
          /\ e[3].do = "mail" /\ e[3].reg = "param" /\ e[3].val = a.cmd /\ e[3].chip = 1
          /\ e[4].do = "mail" /\ e[4].reg = "commd" /\ e[4].chip = 1
          /\ e[4].val.code = "t" /\ e[4].val.param = a.cmd /\ e[4].val.param2 = Whatever
          /\ e[5].do = "throttle"
      BY <2>2 DEF Mail, Code, Rest, Throttle
    <2>4. /\ Parameter(e[1]) /\ ~Parameter(e[2]) /\ Parameter(e[3])
      BY <2>3 DEF Parameter
    <2>5. Fresh(e, 1) = {} /\ Fresh(e, 2) = {1} /\ Fresh(e, 3) = {}
      BY <2>4, FreshAre
    <2>6. Fresh(e, 4) = {3}
      <3>1. \A j \in 1..3 : (\A i \in j..3 : Parameter(e[i])) <=> j = 3
        BY <2>4
      <3>2. 4 - 1 = 3
        OBVIOUS
      <3> QED
        BY <3>1, <3>2 DEF Fresh
    <2>7. Kind(a, e, 1) /\ Kind(a, e, 3)
      BY <1>1, <1>2, <2>3, <2>5 DEF Kind, Parameter
    <2>8. Kind(a, e, 2) /\ Kind(a, e, 4)
      BY <1>1, <1>2, <2>3, <2>5, <2>6 DEF Kind, Parameter, Given
    <2>9. Kind(a, e, 5)
      BY <2>3 DEF Kind, Parameter
    <2> QED
      BY <2>2, <2>7, <2>8, <2>9 DEF Kinds, e
  <1>3. ASSUME model.bus = "usb"
        PROVE  Kinds(a, UsbThermal(a))
    <2> DEFINE e == UsbThermal(a)
    <2>1. e = <<[do |-> "send", chip |-> 0, val |-> Code("t", a.cmd, Whatever)],
                [do |-> "send", chip |-> 1, val |-> Code("t", a.cmd, Whatever)], Throttle(a.cmd)>>
      BY ThermalIs
    <2>2. /\ Len(e) = 3 /\ e[1] = [do |-> "send", chip |-> 0, val |-> Code("t", a.cmd, Whatever)]
          /\ e[2] = [do |-> "send", chip |-> 1, val |-> Code("t", a.cmd, Whatever)] /\ e[3] = Throttle(a.cmd)
      BY <2>1
    <2> HIDE DEF e
    <2>3. /\ e[1].do = "send" /\ e[1].val.code = "t" /\ e[1].val.param = a.cmd
          /\ e[2].do = "send" /\ e[2].val.code = "t" /\ e[2].val.param = a.cmd
          /\ e[3].do = "throttle" /\ Rest.code = "none"
      BY <2>2 DEF Code, Rest, Throttle
    <2>4. Kind(a, e, 1) /\ Kind(a, e, 2) /\ Kind(a, e, 3)
      BY <1>1, <1>3, <2>3 DEF Kind, Parameter
    <2> QED
      BY <2>2, <2>4 DEF Kinds, e
  <1> QED
    BY <1>2, <1>3

UpdateShape(a, e) ==
  /\ Kinds(a, e) /\ Len(e) \in Nat /\ Len(e) >= 6
  /\ \A i \in 1..6 : e[Len(e) - 6 + i] = Programming[i]
  /\ \A i \in 1..Len(e) - 6 : e[i].do \in {"mail", "send", "request", "check"}

(* The steps of programming the flash.                                     *)
LEMMA ProgrammingKinds ==
  /\ Programming \in Seq(Steps) /\ Len(Programming) = 6
  /\ \A i \in 1..6 : Programming[i].do \in {"word", "sram", "poll", "verdict"}
  <1>1. \A i \in 1..6 : Programming[i].do \in {"word", "sram", "poll", "verdict"}
    BY ProgrammingIs DEF Word, Sram, Poll, Verdict
  <1> QED
    BY <1>1, UpdatesAre

(* What programs the flash at its end, and before only releases it.        *)
LEMMA UpdateShaped ==
  ASSUME NEW a \in Calls, a.file = "update_flash", NEW q \in Seq(Steps), NEW e, e = q \o Programming,
         \A i \in 1..Len(q) : q[i].do \in {"mail", "send", "request", "check"},
         Kinds(a, q)
  PROVE  UpdateShape(a, e)
  <1>2. Programming \in Seq(Steps)
    BY ProgrammingKinds
  <1>0. /\ Len(q \o Programming) = Len(q) + Len(Programming)
        /\ \A i \in 1..Len(q) + Len(Programming) :
             (q \o Programming)[i] = IF i <= Len(q) THEN q[i] ELSE Programming[i - Len(q)]
    BY <1>2, ConcatProperties
  <1>1. /\ Len(e) = Len(q) + 6
        /\ \A i \in 1..Len(q) + 6 : e[i] = IF i <= Len(q) THEN q[i] ELSE Programming[i - Len(q)]
    BY ProgrammingKinds, <1>0
  <1>3. \A i \in 1..6 : e[Len(e) - 6 + i] = Programming[i]
    <2> SUFFICES ASSUME NEW i \in 1..6 PROVE e[Len(e) - 6 + i] = Programming[i]
      OBVIOUS
    <2> DEFINE k == Len(e) - 6 + i
    <2>1. k \in 1..Len(q) + 6 /\ ~(k <= Len(q)) /\ k - Len(q) = i
      BY <1>1
    <2> HIDE DEF k
    <2>2. e[k] = Programming[i]
      BY <1>1, <2>1
    <2> QED
      BY <2>2 DEF k
  <1>4. \A i \in 1..Len(q) : e[i] = q[i]
    BY <1>1
  <1>5. ASSUME NEW i \in 1..Len(q)
        PROVE  Kind(a, e, i)
    <2>1. Kind(a, q, i) /\ e[i].do \in {"mail", "send", "request", "check"}
      BY <1>4 DEF Kinds
    <2>2. Fresh(e, i) = Fresh(q, i)
      <3>1. ASSUME NEW j \in 1..i - 1
            PROVE  (\A m \in j..i - 1 : Parameter(e[m])) <=> (\A m \in j..i - 1 : Parameter(q[m]))
        <4>1. \A m \in j..i - 1 : e[m] = q[m]
          BY <1>4
        <4> QED
          BY <4>1
      <3> QED
        BY <3>1 DEF Fresh
    <2>3. \A j \in Fresh(q, i) : e[j] = q[j]
      BY <1>4 DEF Fresh
    <2>4. \A reg, v : Given(q, i, reg, v) <=> Given(e, i, reg, v)
      BY <1>4, <2>2, <2>3 DEF Given
    <2> QED
      BY <1>4, <2>1, <2>2, <2>3, <2>4 DEF Kind
  <1>6. ASSUME NEW i \in 1..Len(e), i > Len(q)
        PROVE  Kind(a, e, i)
    <2>1. i - Len(q) \in 1..6 /\ e[i] = Programming[i - Len(q)]
      BY <1>1, <1>6
    <2>2. e[i].do \in {"word", "sram", "poll", "verdict"}
      BY ProgrammingKinds, <2>1
    <2> QED
      BY <1>1, <1>6, <2>2 DEF Kind, Parameter
  <1>7. Kinds(a, e)
    BY <1>1, <1>5, <1>6 DEF Kinds
  <1>8. \A i \in 1..Len(e) - 6 : e[i].do \in {"mail", "send", "request", "check"}
    BY <1>1, <1>4
  <1> QED
    BY SMTT(30), <1>1, <1>3, <1>7, <1>8 DEF UpdateShape

(* Every update is so.                                                     *)
LEMMA UpdateKinds ==
  ASSUME model \in Scenarios, NEW a \in Calls, a.file = "update_flash"
  PROVE  UpdateShape(a, Section(model, a))
  <1>1. a.file \in Mailing
    BY DEF Mailing
  <1>2. 0 \in Chips /\ "qspi" \in Params /\ "release" \in Params /\ "W" \in Codes
    BY Parameters DEF Chips
  <1>5. CASE model.bus = "usb"
    <2> DEFINE x == [do |-> "send", chip |-> 0, val |-> Code("W", "qspi", "release")]
               q == <<x, Request>>
    <2>1. x \in Steps /\ Request \in Steps
      BY <1>2, Letters, Strokes
    <2>2. <<x>> \o <<Request>> = q
      BY <2>1, Join11
    <2>3. Section(model, a) = q \o Programming
      BY <1>5, <2>2, SectionIs DEF UsbUpdate, Send
    <2>4. q \in Seq(Steps) /\ Len(q) = 2 /\ q[1] = x /\ q[2] = Request
      BY <2>1
    <2>5. x.do = "send" /\ x.val.code = "W" /\ Rest.code = "none" /\ Request.do = "request"
      BY DEF Code, Rest, Request
    <2> HIDE DEF q, x
    <2>6. Kind(a, q, 1) /\ Kind(a, q, 2)
      BY <1>1, <1>5, <2>4, <2>5 DEF Kind, Parameter
    <2>7. Kinds(a, q)
      BY <2>4, <2>6 DEF Kinds
    <2>8. \A i \in 1..Len(q) : q[i].do \in {"mail", "send", "request", "check"}
      BY <2>4, <2>5
    <2> QED
      BY <2>3, <2>4, <2>7, <2>8, UpdateShaped
  <1>6. CASE model.bus # "usb" /\ model.type = "sys" /\ model.bus = "pcie"
    <2> DEFINE x == Mail(0, "param", "qspi")
               y == Mail(0, "param2", "release")
               w == Mail(0, "commd", Code("W", "qspi", "release"))
               q == <<x, y, w, Request, Check>>
    <2>1. x \in Steps /\ y \in Steps /\ w \in Steps /\ Request \in Steps /\ Check \in Steps
      BY <1>2, Letters, Strokes
    <2>2. Asked2(0, "W", "qspi", "release") = <<x, y, w>>
      BY <1>2, AskedIs
    <2>3. x.do = "mail" /\ x.reg = "param" /\ x.val = "qspi" /\ x.chip = 0 /\ y.do = "mail" /\ y.reg = "param2" /\ y.val = "release" /\ y.chip = 0
          /\ w.do = "mail" /\ w.reg = "commd" /\ w.chip = 0 /\ w.val.code = "W" /\ w.val.param = "qspi" /\ w.val.param2 = "release"
          /\ Rest.code = "none" /\ Request.do = "request" /\ Check.do = "check"
      BY DEF Mail, Code, Rest, Request, Check
    <2> HIDE DEF x, y, w
    <2>4. <<x, y, w>> \o <<Request, Check>> = q
      BY <2>1, Join32
    <2>5. Section(model, a) = q \o Programming
      BY <1>6, <2>2, <2>4, SectionIs
    <2>6. q \in Seq(Steps) /\ Len(q) = 5 /\ q[1] = x /\ q[2] = y /\ q[3] = w /\ q[4] = Request /\ q[5] = Check
      BY <2>1
    <2> HIDE DEF q
    <2>7. Fresh(q, 1) = {} /\ Fresh(q, 2) = {1} /\ Fresh(q, 3) = {1, 2}
      BY <2>3, <2>6, FreshAre DEF Parameter
    <2>8. Kind(a, q, 1) /\ Kind(a, q, 2)
      BY <1>1, <1>6, <2>3, <2>6, <2>7 DEF Kind, Parameter
    <2>9. Kind(a, q, 3)
      BY <1>1, <1>6, <2>3, <2>6, <2>7 DEF Kind, Parameter, Given
    <2>10. Kind(a, q, 4) /\ Kind(a, q, 5)
      BY <2>3, <2>6 DEF Kind, Parameter
    <2>11. Kinds(a, q)
      BY <2>6, <2>8, <2>9, <2>10 DEF Kinds
    <2>12. \A i \in 1..Len(q) : q[i].do \in {"mail", "send", "request", "check"}
      BY <2>3, <2>6
    <2> QED
      BY <2>5, <2>6, <2>11, <2>12, UpdateShaped
  <1>7. CASE model.bus # "usb" /\ model.type # "sys"
    <2>1. Section(model, a) = <<>> \o Programming
      BY <1>7, SectionIs, ProgrammingKinds, ConcatEmptySeq
    <2>2. <<>> \in Seq(Steps) /\ Len(<<>>) = 0 /\ Kinds(a, <<>>) /\ \A i \in 1..Len(<<>>) : <<>>[i].do \in {"mail", "send", "request", "check"}
      BY DEF Kinds
    <2> QED
      BY <2>1, <2>2, UpdateShaped
  <1>8. model.bus \in {"pcie", "usb"}
    BY DebugAssumption
  <1> QED
    BY <1>5, <1>6, <1>7, <1>8

(* Every section consists of the steps its file is there for.              *)
LEMMA KindsAre ==
  ASSUME model \in Scenarios, NEW a \in Calls
  PROVE  Kinds(a, Section(model, a))
  <1>1. model.bus \in {"pcie", "usb"}
    BY DebugAssumption
  <1>2. Kinds(a, <<>>)
    BY DEF Kinds
  <1>3. CASE a.file = "throughput"
    BY <1>3, SectionIs, ThroughputKinds
  <1>4. CASE a.file = "update_flash"
    BY <1>4, UpdateKinds DEF UpdateShape
  <1>5. CASE a.file = "thermalthrottling"
    BY <1>1, <1>2, <1>5, SectionIs, ThermalKinds
  <1>6. CASE a.file \in {"cmd", "debug"}
    <2>1. CASE ~(a.how = "store" /\ a.cmd \in Handled)
      BY <1>2, <1>6, <2>1, SectionIs
    <2>2. CASE a.how = "store" /\ a.cmd = "fwlog"
      BY <1>1, <1>6, <2>2, SectionIs, HandlersAre, LogKinds DEF Handled
    <2>3. CASE a.how = "store" /\ a.cmd \in Handled \ {"fwlog"}
      <3>1. a.file \in Mailing /\ a.chip \in Chips /\ a.val \in Params /\ a.val2 \in Params /\ Whatever \in Params
            /\ a.val \in Codes /\ a.val # "none" /\ a.val2 # Whatever /\ "R" \in Codes /\ "W" \in Codes /\ "memx" \in Codes
        BY <1>6, CallFacts, Parameters DEF Mailing, Writable, Usages
      <3>2. CASE model.bus = "pcie"
        <4>1. Section(model, a) = memx_fs_cmd_handler(a)
          BY <1>6, <2>3, <3>2, SectionIs
        <4>2. memx_fs_cmd_handler(a) \in {Asked(a.chip, "R", a.val), Asked(a.chip, a.val, a.val2), Asked2(a.chip, "W", a.val, a.val2), Command(a.chip, "memx", Whatever, Whatever)}
          BY <2>3, HandlersAre DEF Handled
        <4> QED
          BY <3>1, <3>2, <4>1, <4>2, CommandKinds
      <3>3. CASE model.bus = "usb"
        <4>1. Section(model, a) = usb_fs_cmd_handler(a)
          BY <1>6, <2>3, <3>3, SectionIs
        <4>2. usb_fs_cmd_handler(a) \in {Send(a.chip, "R", a.val, Whatever), Send(a.chip, "W", a.val, a.val2), Send(a.chip, "memx", Whatever, Whatever), Send(a.chip, a.val, a.val2, Whatever)}
          BY <2>3, HandlersAre DEF Handled
        <4> QED
          BY <3>1, <3>3, <4>1, <4>2, SendKinds
      <3> QED
        BY <1>1, <3>2, <3>3
    <2> QED
      BY <2>1, <2>2, <2>3
  <1>7. CASE a.file \notin {"throughput", "update_flash", "thermalthrottling", "cmd", "debug"}
    BY <1>2, <1>7, SectionIs
  <1> QED
    BY <1>3, <1>4, <1>5, <1>6, <1>7

-----------------------------------------------------------------------------
(* Tasks and directories: an operation is within a directory that is       *)
(* there, at its place of its script, and has found a device before it     *)
(* does anything to one.                                                   *)
Fault == [do |-> "fault"]

OnTrack(t) ==
  /\ dir[op[t].dev].state \in Shown
  /\ model.type = "proc" => found[t] = op[t].dev
  /\ \/ todo[t] = <<Fault>>
     \/ /\ Aligned(model, todo[t], Section(model, op[t].call))
        /\ \/ found[t] \in Devs \/ Head(todo[t]) = Find
           \/ Section(model, op[t].call) = <<>> \/ op[t].call.file = "throughput"

ScriptInv == \A t \in Tasks : todo[t] # <<>> => OnTrack(t)

(* Directories that are there have objects and numbers of their own, and   *)
(* devices that are there indexes; what is entered is a device's.          *)
DirInv ==
  /\ \A d \in Devs : dir[d].state \in Shown => dir[d].kobj \in Addresses
  /\ \A n \in 0..7 : map[n].kobj # Nobody => map[n].dev \in Devs

Base == TypeOK /\ ScriptInv /\ DirInv

(* Head and tail of a sequence that is not empty.                          *)
LEMMA LengthOf ==
  ASSUME NEW S, NEW s \in Seq(S), s # <<>>
  PROVE  /\ Len(s) \in Nat /\ Len(s) > 0 /\ Head(s) = s[1] /\ Head(s) \in S
         /\ Tail(s) \in Seq(S) /\ Len(Tail(s)) = Len(s) - 1
         /\ \A i \in 1..Len(Tail(s)) : Tail(s)[i] = s[i + 1]
  <1>1. Len(s) \in Nat /\ Len(s) > 0
    BY EmptySeq, LenProperties
  <1> QED
    BY <1>1, HeadTailProperties

(* The next step of a script, and that the rest leads to the section too.  *)
LEMMA AlignedHead ==
  ASSUME NEW s \in Seq(Steps), NEW e \in Seq(Steps), Aligned(model, s, e), s # <<>>
  PROVE  /\ IF Len(s) <= Len(e) THEN Head(s) = e[Len(e) + 1 - Len(s)]
            ELSE Head(s) \in Calm \/ (Head(s) = Find /\ model.type = "sys")
         /\ Aligned(model, Tail(s), e)
         /\ Tail(s) # <<>> /\ Len(Tail(s)) > Len(e) => Head(Tail(s)) # Find
  <1>1. Len(s) \in Nat /\ Len(s) > 0 /\ Len(e) \in Nat
    BY LengthOf, LenProperties
  <1>2. Head(s) = s[1] /\ Tail(s) \in Seq(Steps) /\ Len(Tail(s)) = Len(s) - 1
        /\ \A i \in 1..Len(Tail(s)) : Tail(s)[i] = s[i + 1]
    BY LengthOf
  <1>3. 1 \in 1..Len(s)
    BY <1>1
  <1>4. IF Len(s) <= Len(e) THEN Head(s) = e[Len(e) + 1 - Len(s)]
        ELSE Head(s) \in Calm \/ (Head(s) = Find /\ model.type = "sys")
    BY <1>1, <1>2, <1>3 DEF Aligned
  <1>5. Aligned(model, Tail(s), e)
    <2> SUFFICES ASSUME NEW i \in 1..Len(Tail(s))
                 PROVE  LET j == Len(Tail(s)) - i IN
                        IF j < Len(e) THEN Tail(s)[i] = e[Len(e) - j]
                        ELSE Tail(s)[i] \in Calm \/ (Tail(s)[i] = Find /\ i = 1 /\ model.type = "sys")
      BY DEF Aligned
    <2>1. i + 1 \in 1..Len(s) /\ Len(Tail(s)) - i = Len(s) - (i + 1) /\ i + 1 # 1
      BY <1>1, <1>2
    <2> QED
      BY <1>2, <2>1 DEF Aligned
  <1>6. ASSUME Tail(s) # <<>>, Len(Tail(s)) > Len(e)
        PROVE  Head(Tail(s)) # Find
    <2>1. 2 \in 1..Len(s) /\ Len(s) - 2 >= Len(e) /\ 1 \in 1..Len(Tail(s))
      BY <1>1, <1>2, <1>6, LengthOf
    <2>2. Head(Tail(s)) = s[2]
      BY <1>2, <1>6, <2>1, LengthOf
    <2> QED
      BY <1>1, <2>1, <2>2, CalmSteps DEF Aligned
  <1> QED
    BY <1>4, <1>5, <1>6

(* What is next is the step of the section there is as much left of, or    *)
(* one before the section.                                                 *)
LEMMA Standing ==
  ASSUME TypeOK, ScriptInv, NEW t \in Tasks, todo[t] # <<>>, todo[t] # <<Fault>>
  PROVE  LET e == Section(model, op[t].call) IN
         /\ op[t].call \in Calls /\ op[t].dev \in Devs /\ dir[op[t].dev].state \in Shown
         /\ e \in Seq(Steps) /\ Len(e) \in Nat /\ Len(todo[t]) \in Nat /\ Len(todo[t]) > 0 /\ Kinds(op[t].call, e)
         /\ IF Len(todo[t]) <= Len(e) THEN Now(t) = e[Len(e) + 1 - Len(todo[t])] /\ Len(e) + 1 - Len(todo[t]) \in 1..Len(e)
            ELSE Now(t) \in Calm \/ (Now(t) = Find /\ model.type = "sys")
         /\ Aligned(model, todo[t], e) /\ Aligned(model, Tail(todo[t]), e) /\ Len(Tail(todo[t])) = Len(todo[t]) - 1
         /\ Tail(todo[t]) # <<>> /\ Len(Tail(todo[t])) > Len(e) => Head(Tail(todo[t])) # Find
         /\ Now(t) \in Steps /\ Tail(todo[t]) \in Seq(Steps)
  <1>1. /\ todo[t] \in Seq(Steps) /\ op[t].call \in Calls /\ op[t].dev \in Devs /\ model \in Scenarios
    BY DEF TypeOK, TaskTypeOK
  <1>2. Section(model, op[t].call) \in Seq(Steps) /\ Kinds(op[t].call, Section(model, op[t].call))
    BY <1>1, ScriptIs, KindsAre
  <1>3. Aligned(model, todo[t], Section(model, op[t].call)) /\ dir[op[t].dev].state \in Shown
    BY DEF ScriptInv, OnTrack
  <1>4. Len(Section(model, op[t].call)) \in Nat /\ Len(todo[t]) \in Nat /\ Len(todo[t]) > 0
    BY <1>1, <1>2, LengthOf, LenProperties
  <1> DEFINE e == Section(model, op[t].call)
             s == todo[t]
  <1>5. s \in Seq(Steps) /\ e \in Seq(Steps) /\ Aligned(model, s, e) /\ s # <<>>
    BY <1>1, <1>2, <1>3
  <1>6. Now(t) = Head(s)
    BY DEF Now
  <1> HIDE DEF e, s
  <1>7. /\ IF Len(s) <= Len(e) THEN Head(s) = e[Len(e) + 1 - Len(s)]
            ELSE Head(s) \in Calm \/ (Head(s) = Find /\ model.type = "sys")
        /\ Aligned(model, Tail(s), e)
        /\ Tail(s) # <<>> /\ Len(Tail(s)) > Len(e) => Head(Tail(s)) # Find
    BY <1>5, AlignedHead
  <1>8. Head(s) \in Steps /\ Tail(s) \in Seq(Steps) /\ Len(Tail(s)) = Len(s) - 1
    BY <1>5, LengthOf
  <1>9. Len(e) \in Nat /\ Len(s) \in Nat /\ Len(s) > 0 /\ (Len(s) <= Len(e) => Len(e) + 1 - Len(s) \in 1..Len(e))
    BY <1>4 DEF e, s
  <1> QED
    BY <1>1, <1>2, <1>3, <1>5, <1>6, <1>7, <1>8, <1>9 DEF e, s

(* A step that is none of the quiet ones is one of the section's.          *)
LEMMA Inside ==
  ASSUME TypeOK, ScriptInv, NEW t \in Tasks, NEW what, Doing(t, what),
         what \notin {"find", "look", "maybe", "request", "check", "fault"}
  PROVE  LET e == Section(model, op[t].call)
             k == Len(e) + 1 - Len(todo[t])
         IN  /\ todo[t] # <<>> /\ todo[t] # <<Fault>> /\ Len(todo[t]) <= Len(e)
             /\ k \in 1..Len(e) /\ Now(t) = e[k] /\ Now(t).do = what
             /\ Kind(op[t].call, e, k)
             /\ op[t].call.file # "throughput" => found[t] \in Devs
  <1>1. todo[t] # <<>> /\ Now(t).do = what
    BY DEF Doing, Now
  <1>2. todo[t] # <<Fault>>
    <2>1. todo[t] = <<Fault>> => Now(t).do = "fault"
      BY DEF Now, Fault
    <2> QED
      BY <1>1, <2>1
  <1>3. Now(t) \notin Calm /\ Now(t) # Find
    BY <1>1 DEF Calm, Find, Look, Maybe, Request, Check
  <1> DEFINE e == Section(model, op[t].call)
             k == Len(e) + 1 - Len(todo[t])
  <1>4. Len(todo[t]) <= Len(e) /\ Now(t) = e[k] /\ k \in 1..Len(e) /\ Kinds(op[t].call, e) /\ e \in Seq(Steps)
    BY <1>1, <1>2, <1>3, Standing
  <1>5. op[t].call.file # "throughput" => found[t] \in Devs
    <2>1. e # <<>>
      BY <1>4
    <2>2. Head(todo[t]) # Find
      BY <1>3 DEF Now
    <2> QED
      BY <1>1, <1>2, <2>1, <2>2 DEF ScriptInv, OnTrack
  <1> HIDE DEF k
  <1>6. Kind(op[t].call, e, k)
    BY <1>4 DEF Kinds
  <1> QED
    BY <1>1, <1>2, <1>4, <1>5, <1>6 DEF k

-----------------------------------------------------------------------------
(* Types                                                                   *)
LEMMA LeastIsThere ==
  ASSUME NEW S \in SUBSET Nat, S # {}
  PROVE  Min(S) \in S /\ \A x \in S : Min(S) <= x
  <1> DEFINE R == OpToRel(<, Nat)
  <1>1. IsWellFoundedOn(R, Nat)
    BY NatLessThanWellFounded
  <1>2. R = {ss \in Nat \X Nat : ss[1] < ss[2]}
    BY DEF OpToRel
  <1> HIDE DEF R
  <1>3. PICK x \in S : \A y \in S : ~(<<y, x>> \in R)
    BY <1>1, WFMin
  <1>4. \A y \in S : x \in Nat /\ y \in Nat /\ (y < x => <<y, x>> \in R)
    BY <1>2
  <1>5. \A y \in S : x \in Nat /\ y \in Nat /\ ~(y < x)
    BY <1>3, <1>4, Zenon
  <1>6. \A y \in S : x <= y
    BY <1>5
  <1> QED
    BY <1>3, <1>6 DEF Min

(* One number more than devices: one is free.                              *)
LEMMA NumbersSuffice ==
  ASSUME NEW f \in [Devs -> Numbers], NEW taken, taken \subseteq {f[d] : d \in Devs}
  PROVE  /\ Numbers \subseteq Nat /\ LowestFree(taken) \in Numbers \ taken
  <1>1. IsFiniteSet(Devs) /\ Cardinality(Devs) \in Nat
    BY DebugAssumption, FS_CardinalityType
  <1>2. Numbers \subseteq Nat /\ IsFiniteSet(Numbers) /\ Cardinality(Numbers) = Cardinality(Devs) + 1
    BY <1>1, FS_Interval DEF Numbers
  <1>3. ASSUME Numbers \subseteq taken
        PROVE  FALSE
    <2> DEFINE g == [n \in Numbers |-> CHOOSE d \in Devs : f[d] = n]
    <2>1. \A n \in Numbers : \E d \in Devs : f[d] = n
      BY <1>3
    <2>2. \A n \in Numbers : g[n] \in Devs /\ f[g[n]] = n
      BY <2>1
    <2>3. g \in [Numbers -> Devs]
      BY <2>2
    <2> HIDE DEF g
    <2>4. Cardinality(Devs) < Cardinality(Numbers)
      BY <1>1, <1>2
    <2>5. \E x, y \in Numbers : x # y /\ g[x] = g[y]
      BY <1>1, <1>2, <2>3, <2>4, FS_PigeonHole
    <2> QED
      BY <2>2, <2>5
  <1>4. Numbers \ taken # {} /\ Numbers \ taken \in SUBSET Nat
    BY <1>2, <1>3
  <1> QED
    BY <1>2, <1>4, LeastIsThere DEF LowestFree

(* The search for a free index and for a free number finds one.            *)
LEMMA Indexing ==
  ASSUME TypeOK
  PROVE  /\ LowestFree({index[e] : e \in {f \in Devs : dir[f].state \in Holding}})
              \in Numbers \ {index[e] : e \in {f \in Devs : dir[f].state \in Holding}}
         /\ LowestFree({m \in Numbers : Opens(m)}) \in Numbers
  <1>1. index \in [Devs -> Numbers] /\ \A d \in Devs : dir[d].number \in Numbers
    BY DEF TypeOK, DirTypeOK, DirRecords
  <1>2. LowestFree({index[e] : e \in {f \in Devs : dir[f].state \in Holding}})
              \in Numbers \ {index[e] : e \in {f \in Devs : dir[f].state \in Holding}}
    <2> DEFINE taken == {index[e] : e \in {f \in Devs : dir[f].state \in Holding}}
    <2>1. taken \subseteq {index[d] : d \in Devs}
      OBVIOUS
    <2> HIDE DEF taken
    <2>2. LowestFree(taken) \in Numbers \ taken
      BY <1>1, <2>1, NumbersSuffice
    <2> QED
      BY <2>2 DEF taken
  <1> DEFINE g == [d \in Devs |-> dir[d].number]
  <1>3. g \in [Devs -> Numbers]
    BY <1>1
  <1>4. {m \in Numbers : Opens(m)} \subseteq {g[d] : d \in Devs}
    BY DEF Opens
  <1> HIDE DEF g
  <1>5. LowestFree({m \in Numbers : Opens(m)}) \in Numbers
    BY <1>3, <1>4, NumbersSuffice
  <1> QED
    BY <1>2, <1>5

(* The image has two words.                                                *)
LEMMA TwoWords == Range(Words) = {1, 2} /\ DOMAIN Words = {1, 2} /\ Len(Words) = 2
  BY DEF Range, Words

(* A directory that only changes its state keeps its type.                 *)
LEMMA Turned ==
  ASSUME DirTypeOK, NEW d \in Devs, NEW s \in DirStates, Turn(d, s)
  PROVE  dir' \in [Devs -> DirRecords]
  <1>1. dir \in [Devs -> DirRecords] /\ dir' = [dir EXCEPT ![d] = [dir[d] EXCEPT !.state = s]]
    BY DEF DirTypeOK, Turn
  <1>2. [dir[d] EXCEPT !.state = s] \in DirRecords
    BY <1>1 DEF DirRecords
  <1> QED
    BY <1>1, <1>2

(* So does a chip that is given a record of its type.                      *)
LEMMA Rewired ==
  ASSUME ChipTypeOK, NEW d \in Devs, NEW k \in ChipRecords, chips' = [chips EXCEPT ![d] = k]
  PROVE  ChipTypeOK'
  BY DEF ChipTypeOK

(* Records of a chip whose log is started or stopped, that answers, or     *)
(* whose mailbox is written.                                               *)
LEMMA ChipAgain ==
  ASSUME NEW r \in ChipRecords, NEW b \in BOOLEAN, NEW x \in 0..LogSize - 1
  PROVE  [r EXCEPT !.on = b, !.wp = x, !.rp = x] \in ChipRecords
  BY DEF ChipRecords

LEMMA ChipAnswers ==
  ASSUME NEW r \in ChipRecords, NEW answer \in 0..2
  PROVE  [r EXCEPT !.busy = FALSE, !.burn = {}, !.param = answer] \in ChipRecords
  BY DEF ChipRecords

LEMMA MailboxSet ==
  ASSUME NEW r \in ChipRecords, NEW c \in Chips, NEW h \in Mailboxes
  PROVE  [r EXCEPT !.host[c] = h] \in ChipRecords
  BY DEF ChipRecords

(* The states of a directory.                                              *)
LEMMA StatesAre ==
  {"inserted", "scanned", "making", "made", "up", "closing", "going", "gone", "failed", "leaked", "unborn"} = DirStates
  BY DEF DirStates, Holding

(* The types of all but one group of variables.                            *)
LEMMA TypesApart ==
  TypeOK <=> /\ model \in Scenarios /\ DirTypeOK /\ TaskTypeOK /\ ChipTypeOK /\ past \in Histories
             /\ disabled \in [Devs -> Throttles] /\ counters \in Counts
  BY DEF TypeOK

(* Types under the steps of a directory.                                   *)
LEMMA DirectoryTypes ==
  ASSUME TypeOK, NEW d \in Devs, Directory(d)
  PROVE  TypeOK'
  <1> USE DEF taskVars
  <1>0. /\ model \in Scenarios /\ DirTypeOK /\ TaskTypeOK /\ ChipTypeOK /\ past \in Histories
        /\ disabled \in [Devs -> Throttles] /\ counters \in Counts
    BY DEF TypeOK
  <1>a. /\ index \in [Devs -> Numbers] /\ dir[d] \in DirRecords /\ dir \in [Devs -> DirRecords]
        /\ map \in [0..7 -> [kobj : Addresses \cup {Nobody}, dev : Devs \cup {Nobody}]]
    BY <1>0 DEF DirTypeOK
  <1>1. CASE Insert(d)
    <2>1. LowestFree({index[e] : e \in {f \in Devs : dir[f].state \in Holding}}) \in Numbers
      BY Indexing
    <2>2. index' \in [Devs -> Numbers]
      BY <1>1, <1>a, <2>1 DEF Insert
    <2>3. dir' \in [Devs -> DirRecords]
      BY <1>0, <1>1, Turned, StatesAre DEF Insert
    <2>4. DirTypeOK'
      BY <1>1, <1>a, <2>2, <2>3 DEF Insert, DirTypeOK
    <2> QED
      BY <1>0, <1>1, <2>4 DEF Insert, TypeOK, TaskTypeOK, ChipTypeOK
  <1>2. CASE Scan(d)
    <2> DEFINE n == LowestFree({m \in Numbers : Opens(m)})
    <2>1. n \in Numbers
      BY Indexing
    <2>2. /\ dir' = [dir EXCEPT ![d] = [dir[d] EXCEPT !.state = "scanned", !.number = n]]
          /\ index' = IF model.bus = "usb" THEN [index EXCEPT ![d] = n] ELSE index
      BY <1>2, <1>a DEF Scan
    <2> HIDE DEF n
    <2>3. [dir[d] EXCEPT !.state = "scanned", !.number = n] \in DirRecords
      BY <1>a, <2>1, StatesAre DEF DirRecords
    <2>4. dir' \in [Devs -> DirRecords] /\ index' \in [Devs -> Numbers]
      BY <1>a, <2>1, <2>2, <2>3
    <2>5. DirTypeOK'
      BY <1>2, <1>a, <2>4 DEF Scan, DirTypeOK
    <2> QED
      BY <1>0, <1>2, <2>5 DEF Scan, TypeOK, TaskTypeOK, ChipTypeOK
  <1>3. CASE MakeRoot(d)
    <2>1. PICK a \in Addresses : dir' = [dir EXCEPT ![d] = [dir[d] EXCEPT !.state = "making", !.kobj = a]]
      BY <1>3, <1>a DEF MakeRoot
    <2>2. [dir[d] EXCEPT !.state = "making", !.kobj = a] \in DirRecords
      BY <1>a, StatesAre DEF DirRecords
    <2>3. DirTypeOK'
      BY <1>3, <1>a, <2>1, <2>2 DEF MakeRoot, DirTypeOK
    <2>4. past' \in Histories
      BY <1>0, <1>3 DEF Histories, MakeRoot
    <2> QED
      BY <1>0, <1>3, <2>3, <2>4 DEF MakeRoot, TypeOK, TaskTypeOK, ChipTypeOK
  <1>4. CASE RootFails(d)
    <2>1. dir' \in [Devs -> DirRecords]
      BY <1>0, <1>4, Turned, StatesAre DEF RootFails
    <2>2. DirTypeOK'
      BY <1>4, <1>a, <2>1 DEF RootFails, DirTypeOK
    <2> QED
      BY <1>0, <1>4, <2>2 DEF RootFails, TypeOK, TaskTypeOK, ChipTypeOK
  <1>5. CASE AddFile(d)
    <2>1. dir' = [dir EXCEPT ![d] = [dir[d] EXCEPT !.files = @ + 1]]
      BY <1>5, <1>a DEF AddFile
    <2>2. [dir[d] EXCEPT !.files = @ + 1] \in DirRecords
      BY <1>a DEF DirRecords
    <2>3. DirTypeOK'
      BY <1>5, <1>a, <2>1, <2>2 DEF AddFile, DirTypeOK
    <2> QED
      BY <1>0, <1>5, <2>3 DEF AddFile, TypeOK, TaskTypeOK, ChipTypeOK
  <1>6. CASE FileFails(d)
    <2>1. Turn(d, "leaked") \/ Turn(d, "failed")
      BY <1>6 DEF FileFails
    <2>2. dir' \in [Devs -> DirRecords]
      BY <1>0, <2>1, Turned, StatesAre
    <2>3. DirTypeOK'
      BY <1>6, <1>a, <2>2 DEF FileFails, DirTypeOK
    <2> QED
      BY <1>0, <1>6, <2>3 DEF FileFails, TypeOK, TaskTypeOK, ChipTypeOK
  <1>7. CASE Finish(d)
    <2>1. Turn(d, "made") \/ Turn(d, "up")
      BY <1>7 DEF Finish
    <2>2. dir' \in [Devs -> DirRecords]
      BY <1>0, <2>1, Turned, StatesAre
    <2>3. [kobj |-> dir[d].kobj, dev |-> d] \in [kobj : Addresses \cup {Nobody}, dev : Devs \cup {Nobody}]
      BY <1>a DEF DirRecords
    <2>4. map' \in [0..7 -> [kobj : Addresses \cup {Nobody}, dev : Devs \cup {Nobody}]]
      BY <1>7, <1>a, <2>3 DEF Finish
    <2>5. DirTypeOK'
      BY <1>7, <1>a, <2>2, <2>4 DEF Finish, DirTypeOK
    <2> QED
      BY <1>0, <1>7, <2>5 DEF Finish, TypeOK, TaskTypeOK, ChipTypeOK
  <1>8. CASE memx_fw_log_init(d) \/ memx_fw_log_deinit(d)
    <2>1. Turn(d, "up") \/ Turn(d, "closing")
      BY <1>8 DEF memx_fw_log_init, memx_fw_log_deinit
    <2>2. dir' \in [Devs -> DirRecords]
      BY <1>0, <2>1, Turned, StatesAre
    <2>3. DirTypeOK'
      BY <1>8, <1>a, <2>2 DEF memx_fw_log_init, memx_fw_log_deinit, DirTypeOK
    <2>4. 0 \in 0..LogSize - 1
      BY SMTT(30), DebugAssumption
    <2>5. PICK b \in BOOLEAN : chips' = [chips EXCEPT ![d].on = b, ![d].wp = 0, ![d].rp = 0]
      BY <1>8 DEF memx_fw_log_init, memx_fw_log_deinit
    <2>6. chips' = [chips EXCEPT ![d] = [chips[d] EXCEPT !.on = b, !.wp = 0, !.rp = 0]]
      BY <1>0, <2>5 DEF ChipTypeOK
    <2>7. [chips[d] EXCEPT !.on = b, !.wp = 0, !.rp = 0] \in ChipRecords
      BY <1>0, <2>4, ChipAgain DEF ChipTypeOK
    <2>8. ChipTypeOK'
      BY <1>0, <2>6, <2>7, Rewired
    <2> QED
      BY <1>0, <1>8, <2>3, <2>8 DEF memx_fw_log_init, memx_fw_log_deinit, TypeOK, TaskTypeOK
  <1>9. CASE memx_fs_deinit(d) \/ memx_pcie_remove_device(d)
    <2>1. Turn(d, "going") \/ Turn(d, "gone")
      BY <1>9 DEF memx_fs_deinit, memx_pcie_remove_device
    <2>2. dir' \in [Devs -> DirRecords]
      BY <1>0, <2>1, Turned, StatesAre
    <2>3. DirTypeOK'
      BY <1>9, <1>a, <2>2 DEF memx_fs_deinit, memx_pcie_remove_device, DirTypeOK
    <2> QED
      BY <1>0, <1>9, <2>3 DEF memx_fs_deinit, memx_pcie_remove_device, TypeOK, TaskTypeOK, ChipTypeOK
  <1> QED
    BY <1>1, <1>2, <1>3, <1>4, <1>5, <1>6, <1>7, <1>8, <1>9 DEF Directory

(* What a command does to a chip.                                          *)
LEMMA DoesIs ==
  ASSUME ChipTypeOK, NEW d \in Devs, NEW c \in Chips, NEW code, NEW param
  PROVE  \E k \in ChipRecords :
           /\ Does(d, c, code, param) = [chips EXCEPT ![d] = k]
           /\ k = IF code = "t" /\ param \in Throttles THEN [chips[d] EXCEPT !.throttling[c] = param] ELSE chips[d]
  <1>1. chips[d] \in ChipRecords /\ chips \in [Devs -> ChipRecords]
    BY DEF ChipTypeOK
  <1>2. CASE code = "t" /\ param \in Throttles
    <2>1. [chips[d] EXCEPT !.throttling[c] = param] \in ChipRecords
      BY <1>1, <1>2 DEF ChipRecords
    <2>2. Does(d, c, code, param) = [chips EXCEPT ![d] = [chips[d] EXCEPT !.throttling[c] = param]]
      BY <1>1, <1>2 DEF Does
    <2> QED
      BY <1>2, <2>1, <2>2
  <1>3. CASE ~(code = "t" /\ param \in Throttles)
    <2>1. Does(d, c, code, param) = [chips EXCEPT ![d] = chips[d]]
      BY <1>1, <1>3 DEF Does
    <2> QED
      BY <1>1, <1>3, <2>1
  <1> QED
    BY <1>2, <1>3

(* Types under the steps of the firmware.                                  *)
LEMMA FirmwareTypes ==
  ASSUME TypeOK, NEW d \in Devs, Firmware(d)
  PROVE  TypeOK'
  <1> USE DEF taskVars, deviceVars
  <1>0. /\ model \in Scenarios /\ DirTypeOK /\ TaskTypeOK /\ ChipTypeOK /\ past \in Histories
        /\ disabled \in [Devs -> Throttles] /\ counters \in Counts
    BY DEF TypeOK
  <1>a. chips[d] \in ChipRecords /\ chips \in [Devs -> ChipRecords]
    BY <1>0 DEF ChipTypeOK
  <1>1. ASSUME NEW c \in Chips, FwTake(d, c)
        PROVE  TypeOK'
    <2> DEFINE h == chips[d].host[c]
               new == Does(d, c, h.commd.code, h.param)
    <2>1. chips' = [new EXCEPT ![d].host[c].commd = Rest]
      BY Zenon, <1>1 DEF FwTake
    <2>2. PICK k \in ChipRecords : new = [chips EXCEPT ![d] = k]
      BY <1>0, DoesIs
    <2>3. Rest \in CommandWords
      BY DEF Rest, Code, CommandWords, Params, Codes
    <2> HIDE DEF new
    <2>b. k.host[c] \in Mailboxes
      BY <2>2 DEF ChipRecords
    <2>c. [k.host[c] EXCEPT !.commd = Rest] \in Mailboxes
      BY <2>3, <2>b DEF Mailboxes
    <2>4. chips' = [chips EXCEPT ![d] = [k EXCEPT !.host[c] = [k.host[c] EXCEPT !.commd = Rest]]]
      BY <1>a, <2>1, <2>2
    <2>5. [k EXCEPT !.host[c] = [k.host[c] EXCEPT !.commd = Rest]] \in ChipRecords
      BY <2>2, <2>c, MailboxSet
    <2>6. ChipTypeOK'
      BY Zenon, <1>0, <2>4, <2>5, Rewired
    <2>7. past' \in Histories
      BY Zenon, <1>0, <1>1 DEF Histories, FwTake
    <2> QED
      BY ZenonT(60), <1>0, <1>1, <2>6, <2>7 DEF FwTake, TypeOK, TaskTypeOK, DirTypeOK
  <1>2. CASE FwBurn(d)
    <2>1. chips' = [chips EXCEPT ![d] = [chips[d] EXCEPT !.commd = "none", !.busy = TRUE, !.burn = Range(Words)]]
      BY <1>a, <1>2 DEF FwBurn
    <2>2. [chips[d] EXCEPT !.commd = "none", !.busy = TRUE, !.burn = Range(Words)] \in ChipRecords
      BY <1>a DEF ChipRecords
    <2>3. ChipTypeOK'
      BY <1>0, <2>1, <2>2, Rewired
    <2> QED
      BY <1>0, <1>2, <2>3 DEF FwBurn, TypeOK, TaskTypeOK, DirTypeOK
  <1>3. CASE FwAnswer(d)
    <2>1. PICK answer \in {1, 2} : chips' = [chips EXCEPT ![d].busy = FALSE, ![d].burn = {}, ![d].param = answer]
      BY <1>3 DEF FwAnswer
    <2>2. chips' = [chips EXCEPT ![d] = [chips[d] EXCEPT !.busy = FALSE, !.burn = {}, !.param = answer]]
      BY <1>a, <2>1
    <2>a. answer \in 0..2
      OBVIOUS
    <2>3. [chips[d] EXCEPT !.busy = FALSE, !.burn = {}, !.param = answer] \in ChipRecords
      BY <1>a, <2>a, ChipAnswers, Zenon
    <2>4. ChipTypeOK'
      BY <1>0, <2>2, <2>3, Rewired
    <2> QED
      BY <1>0, <1>3, <2>4 DEF FwAnswer, TypeOK, TaskTypeOK, DirTypeOK
  <1>4. CASE FwLog(d)
    <2> DEFINE wp == chips[d].wp
               n  == chips[d].lines + 1
               w  == (wp + 1) % LogSize
    <2>1. wp \in 0..LogSize - 1 /\ n \in Nat /\ w \in 0..LogSize - 1
      BY SMTT(30), <1>a, DebugAssumption DEF ChipRecords
    <2>2. chips' = [chips EXCEPT ![d] = [chips[d] EXCEPT !.lines = n, !.ring[wp] = n, !.wp = w]]
      BY <1>a, <1>4 DEF FwLog, ChipRecords
    <2> HIDE DEF wp, n, w
    <2>3. [chips[d] EXCEPT !.lines = n, !.ring[wp] = n, !.wp = w] \in ChipRecords
      BY <1>a, <2>1 DEF ChipRecords
    <2>4. ChipTypeOK'
      BY <1>0, <2>2, <2>3, Rewired
    <2> QED
      BY <1>0, <1>4, <2>4 DEF FwLog, TypeOK, TaskTypeOK, DirTypeOK
  <1>5. ASSUME NEW i \in Range(Words), FwWord(d, i)
        PROVE  TypeOK'
    <2>1. chips' = [chips EXCEPT ![d] = [chips[d] EXCEPT !.flash[i] = chips[d].memory[i], !.burn = @ \ {i}]]
      BY <1>a, <1>5 DEF FwWord
    <2>2. [chips[d] EXCEPT !.flash[i] = chips[d].memory[i], !.burn = @ \ {i}] \in ChipRecords
      BY <1>a DEF ChipRecords, Content
    <2>3. ChipTypeOK'
      BY <1>0, <2>1, <2>2, Rewired
    <2> QED
      BY <1>0, <1>5, <2>3 DEF FwWord, TypeOK, TaskTypeOK, DirTypeOK
  <1> QED
    BY <1>1, <1>2, <1>3, <1>4, <1>5 DEF Firmware

(* A step of an operation, but for finding a device.                       *)
LEMMA Trodden ==
  ASSUME TypeOK, ScriptInv, NEW t \in Tasks, NEW what, Doing(t, what), what \notin {"fault", "find"}, Advance(t) \/ Quit(t),
         op' = op, left' = left, found' = found, dir' = dir, model' = model, got' \in [Tasks -> Readings]
  PROVE  TaskTypeOK' /\ ScriptInv'
  <1>1. /\ todo \in [Tasks -> Seq(Steps)] /\ TaskTypeOK
    BY DEF TypeOK, TaskTypeOK
  <1>2. todo[t] # <<>> /\ todo[t] # <<Fault>> /\ Now(t).do = what
    BY DEF Doing, Fault, Now
  <1>3. Now(t) # Find
    BY <1>2 DEF Find
  <1>4. Tail(todo[t]) \in Seq(Steps) /\ Aligned(model, Tail(todo[t]), Section(model, op[t].call))
    BY <1>2, Standing
  <1>5. todo' \in [Tasks -> Seq(Steps)] /\ \A u \in Tasks \ {t} : todo'[u] = todo[u]
    <2>1. CASE Advance(t)
      BY <1>1, <1>4, <2>1 DEF Advance
    <2>2. CASE Quit(t)
      <3>1. <<>> \in Seq(Steps)
        OBVIOUS
      <3> QED
        BY <1>1, <2>2, <3>1 DEF Quit
    <2> QED
      BY <2>1, <2>2
  <1>6. todo'[t] # <<>> => todo'[t] = Tail(todo[t])
    BY <1>1 DEF Advance, Quit
  <1>7. TaskTypeOK'
    <2>1. \A u \in Tasks : todo'[u] # <<>> => op[u] \in [dev : Devs, call : Calls]
      BY <1>1, <1>2, <1>5 DEF TaskTypeOK
    <2> QED
      BY <1>1, <1>5, <2>1 DEF TaskTypeOK
  <1>8. OnTrack(t)
    BY <1>2 DEF ScriptInv
  <1>9. todo'[t] # <<>> => OnTrack(t)'
    <2>1. found[t] \in Devs \/ Section(model, op[t].call) = <<>> \/ op[t].call.file = "throughput"
      BY <1>2, <1>3, <1>8 DEF OnTrack, Now
    <2> QED
      BY <1>4, <1>6, <1>8, <2>1 DEF OnTrack
  <1>10. ASSUME NEW u \in Tasks \ {t}, todo'[u] # <<>>
         PROVE  OnTrack(u)'
    BY <1>5, <1>10 DEF ScriptInv, OnTrack
  <1> QED
    BY <1>7, <1>9, <1>10 DEF ScriptInv

(* Only an operation in /sys finds its device, and before its section.     *)
LEMMA FindsInSys ==
  ASSUME TypeOK, ScriptInv, NEW t \in Tasks, Doing(t, "find")
  PROVE  /\ model.type = "sys" /\ Now(t) = Find /\ todo[t] # <<>> /\ todo[t] # <<Fault>>
         /\ Len(todo[t]) > Len(Section(model, op[t].call))
  <1>1. todo[t] # <<>> /\ todo[t] # <<Fault>> /\ Now(t).do = "find"
    BY DEF Doing, Fault, Now
  <1> DEFINE e == Section(model, op[t].call)
             k == Len(e) + 1 - Len(todo[t])
  <1>2. /\ IF Len(todo[t]) <= Len(e) THEN Now(t) = e[k] /\ k \in 1..Len(e)
           ELSE Now(t) \in Calm \/ (Now(t) = Find /\ model.type = "sys")
        /\ Kinds(op[t].call, e) /\ Len(e) \in Nat /\ Len(todo[t]) \in Nat
    BY <1>1, Standing
  <1> HIDE DEF k
  <1>3. ~(Len(todo[t]) <= Len(e))
    BY <1>1, <1>2 DEF Kinds, Kind
  <1>4. Now(t) \notin Calm
    BY <1>1 DEF Calm, Look, Maybe, Request, Check
  <1> QED
    BY <1>1, <1>2, <1>3, <1>4

(* Finding a device changes nothing but what is found.                     *)
LEMMA Unchanging ==
  ASSUME TypeOK, ScriptInv, DirInv, NEW t \in Tasks, Lookup(t)
  PROVE  TypeOK' /\ ScriptInv' /\ DirInv'
  <1> DEFINE d == op[t].dev
             at == {n \in DOMAIN map : map[n].kobj = dir[d].kobj}
  <1>1. /\ found' = [found EXCEPT ![t] = IF at = {} THEN Nobody ELSE map[Min(at)].dev]
        /\ IF at # {} THEN Advance(t) ELSE todo' = [todo EXCEPT ![t] = IF op[t].call.how = "store" THEN <<>> ELSE <<[do |-> "fault"]>>]
        /\ UNCHANGED <<model, dir, index, map, left, op, got, chips, disabled, counters>>
    BY DEF Lookup, deviceVars
  <1>2. Doing(t, "find") /\ TaskTypeOK /\ todo \in [Tasks -> Seq(Steps)] /\ found \in [Tasks -> Devs \cup {Nobody}]
    BY DEF Lookup, TypeOK, TaskTypeOK
  <1>3. model.type = "sys" /\ Now(t) = Find /\ todo[t] # <<>> /\ todo[t] # <<Fault>>
    BY <1>2, FindsInSys
  <1>4. /\ Tail(todo[t]) \in Seq(Steps) /\ Aligned(model, Tail(todo[t]), Section(model, op[t].call))
        /\ d \in Devs /\ dir[d].state \in Shown
    BY Zenon, <1>3, Standing
  <1>5. at # {} => map[Min(at)].dev \in Devs
    <2> SUFFICES ASSUME at # {} PROVE map[Min(at)].dev \in Devs
      OBVIOUS
    <2>1. DOMAIN map = 0..7
      BY DEF TypeOK, DirTypeOK
    <2>2. Min(at) \in at
      <3>1. at \in SUBSET Nat
        BY <2>1
      <3> QED
        BY <3>1, LeastIsThere
    <2>3. dir[d].kobj # Nobody
      BY <1>4, DebugAssumption DEF DirInv
    <2> QED
      BY Zenon, <2>1, <2>2, <2>3 DEF DirInv
  <1> HIDE DEF at
  <1>6. todo'[t] \in Seq(Steps)
    <2>1. CASE at # {}
      BY <1>1, <1>2, <1>4, <2>1 DEF Advance
    <2>2. CASE at = {}
      <3>1. Fault \in Steps
        BY DEF Fault, Steps
      <3>2. <<>> \in Seq(Steps) /\ <<Fault>> \in Seq(Steps)
        BY <3>1
      <3>3. todo'[t] \in {<<>>, <<Fault>>}
        BY <1>1, <1>2, <2>2 DEF Fault
      <3> QED
        BY <3>2, <3>3
    <2> QED
      BY <2>1, <2>2
  <1>7. todo' \in [Tasks -> Seq(Steps)] /\ (\A u \in Tasks \ {t} : todo'[u] = todo[u] /\ found'[u] = found[u])
    BY <1>1, <1>2, <1>6 DEF Advance
  <1>8. found' \in [Tasks -> Devs \cup {Nobody}]
    BY <1>1, <1>2, <1>5
  <1>9. TaskTypeOK'
    <2>1. \A u \in Tasks : todo'[u] # <<>> => op[u] \in [dev : Devs, call : Calls]
      BY <1>2, <1>3, <1>7 DEF TaskTypeOK
    <2> QED
      BY <1>1, <1>2, <1>7, <1>8, <2>1 DEF TaskTypeOK
  <1>10. past' \in Histories
    BY DEF Lookup, TypeOK, Histories
  <1>11. todo'[t] # <<>> => OnTrack(t)'
    <2>1. at # {} => todo'[t] = Tail(todo[t]) /\ found'[t] \in Devs
      BY <1>1, <1>2, <1>5 DEF Advance
    <2>2. at = {} => todo'[t] \in {<<>>, <<Fault>>}
      BY <1>1, <1>2 DEF Fault
    <2> QED
      BY <1>1, <1>3, <1>4, <2>1, <2>2 DEF OnTrack
  <1>12. ASSUME NEW u \in Tasks \ {t}, todo'[u] # <<>>
         PROVE  OnTrack(u)'
    BY <1>1, <1>7, <1>12 DEF ScriptInv, OnTrack
  <1> QED
    BY <1>1, <1>9, <1>10, <1>11, <1>12 DEF TypeOK, DirTypeOK, ChipTypeOK, ScriptInv, DirInv

(* Types and places when an operation begins.                              *)
LEMMA StartTypes ==
  ASSUME TypeOK, ScriptInv, NEW t \in Tasks, Start(t)
  PROVE  TypeOK' /\ ScriptInv'
  <1> DEFINE a == Head(left[t])
  <1>1. PICK d \in Devs :
           /\ dir[d].state \in Shown
           /\ op' = [op EXCEPT ![t] = [dev |-> d, call |-> a]]
           /\ todo' = [todo EXCEPT ![t] = Script(a)]
           /\ found' = [found EXCEPT ![t] = IF model.type = "proc" THEN d ELSE Nobody]
    BY DEF Start
  <1>2. /\ left' = [left EXCEPT ![t] = Tail(@)] /\ got' = [got EXCEPT ![t] = Unread] /\ left[t] # <<>>
        /\ UNCHANGED <<model, dir, index, map, chips, disabled, counters>>
    BY DEF Start, deviceVars
  <1>3. /\ TaskTypeOK /\ left \in [Tasks -> Seq(Calls)] /\ todo \in [Tasks -> Seq(Steps)] /\ found \in [Tasks -> Devs \cup {Nobody}]
        /\ DOMAIN op = Tasks /\ got \in [Tasks -> Readings] /\ model \in Scenarios
    BY DEF TypeOK, TaskTypeOK
  <1>4. a \in Calls /\ Tail(left[t]) \in Seq(Calls)
    <2>1. left[t] \in Seq(Calls)
      BY <1>3
    <2> QED
      BY <1>2, <2>1, LengthOf
  <1>5. Unread \in Readings
    BY DebugAssumption DEF Unread, Readings
  <1> HIDE DEF a
  <1>6. /\ Script(a) \in Seq(Steps) /\ Aligned(model, Script(a), Section(model, a))
        /\ Len(Script(a)) \in Nat /\ Len(Section(model, a)) \in Nat
        /\ model.type = "sys" /\ Section(model, a) # <<>> /\ a.file # "throughput" =>
              Len(Script(a)) > Len(Section(model, a)) /\ Script(a)[1] = Find
    BY <1>3, <1>4, ScriptIs
  <1>7. /\ left' \in [Tasks -> Seq(Calls)] /\ todo' \in [Tasks -> Seq(Steps)] /\ found' \in [Tasks -> Devs \cup {Nobody}]
        /\ DOMAIN op' = Tasks /\ got' \in [Tasks -> Readings]
    BY <1>1, <1>2, <1>3, <1>4, <1>5, <1>6
  <1>8. op'[t].dev = d /\ op'[t].call = a /\ todo'[t] = Script(a) /\ (model.type = "proc" => found'[t] = d)
    BY <1>1, <1>3
  <1>9. \A u \in Tasks \ {t} : op'[u] = op[u] /\ todo'[u] = todo[u] /\ found'[u] = found[u]
    BY <1>1, <1>3
  <1>10. TaskTypeOK'
    <2>1. op'[t] \in [dev : Devs, call : Calls]
      BY <1>1, <1>3, <1>4
    <2>2. \A u \in Tasks : todo'[u] # <<>> => op'[u] \in [dev : Devs, call : Calls]
      BY <1>3, <1>9, <2>1 DEF TaskTypeOK
    <2> QED
      BY <1>7, <2>2 DEF TaskTypeOK
  <1>11. past' \in Histories
    BY DEF Start, TypeOK, Histories
  <1>12. todo'[t] # <<>> => OnTrack(t)'
    <2>1. Script(a) # <<>> => Head(Script(a)) = Script(a)[1]
      BY <1>6, LengthOf
    <2>2. model.type \in {"sys", "proc"}
      BY <1>3, DebugAssumption
    <2> QED
      BY <1>1, <1>2, <1>6, <1>8, <2>1, <2>2 DEF OnTrack
  <1>13. ASSUME NEW u \in Tasks \ {t}, todo'[u] # <<>>
         PROVE  OnTrack(u)'
    BY <1>2, <1>9, <1>13 DEF ScriptInv, OnTrack
  <1> QED
    BY <1>2, <1>10, <1>11, <1>12, <1>13 DEF TypeOK, DirTypeOK, ChipTypeOK, ScriptInv

-----------------------------------------------------------------------------
(* The invariant                                                           *)

(* A task that has nothing but steps of its section to do, at most so many.*)
Inner(t) ==
  todo[t] # <<>> /\ todo[t] # <<Fault>> /\ Len(todo[t]) <= Len(Section(model, op[t].call))
Begun(t, files, most) == Inner(t) /\ op[t].call.file \in files /\ Len(todo[t]) <= most

(* Directories that are there have objects of their own, devices that are  *)
(* there indexes; a finished directory is entered at its device's index,   *)
(* and none before that names its object if it was settled.                *)
Entered == {"made", "up", "closing"}
DirsApart ==
  \A d, e \in Devs : d # e /\ dir[d].state \in Shown /\ dir[e].state \in Shown => dir[d].kobj # dir[e].kobj
NumbersApart ==
  /\ model.bus = "usb" => \A d \in Devs : index[d] = dir[d].number
  /\ model.bus = "usb" =>
       \A d, e \in Devs : d # e /\ dir[d].state \in Shown /\ dir[e].state \in Shown => dir[d].number # dir[e].number
  /\ model.bus = "pcie" =>
       \A d, e \in Devs : d # e /\ dir[d].state \in Holding /\ dir[e].state \in Holding => index[d] # index[e]
EntriesAgree ==
  model.type = "sys" =>
    /\ \A d \in Devs : dir[d].state \in Entered /\ index[d] \in 0..7 => map[index[d]] = [kobj |-> dir[d].kobj, dev |-> d]
    /\ \A d \in past.settled : dir[d].state \in Entered \cup {"making"} =>
         \A n \in 0..7 : n < index[d] => map[n].kobj # dir[d].kobj
SettledAre == \A d \in past.settled : dir[d].state \notin {"unborn", "inserted", "scanned"}
OwnInv ==
  /\ DirsApart /\ NumbersApart /\ EntriesAgree /\ SettledAre
  /\ \A t \in past.whole : found[t] = op[t].dev /\ (todo[t] # <<>> => Head(todo[t]) # Find)

(* Without a clash the parameters of a command that is being written, and  *)
(* of one that waits, are in the mailbox.                                  *)
Written(t) ==
  LET e == Section(model, op[t].call)
      h == chips[found[t]].host
  IN  \A j \in Fresh(e, Len(e) + 1 - Len(todo[t])) : h[e[j].chip][e[j].reg] = e[j].val
Holds(h) == h.commd.param \in {Whatever, h.param} /\ h.commd.param2 \in {Whatever, h.param2}
CommandInv ==
  /\ ~past.botched
  /\ ~past.clash =>
       /\ \A t \in Tasks : Inner(t) => Written(t)
       /\ \A d \in Devs, c \in Chips : chips[d].host[c].commd # Rest => Holds(chips[d].host[c])

(* What a chip does of throttling once it has taken the command that waits *)
(* is what the driver notes, unless rmtcmd commanded it, and but for the   *)
(* chips that the one store that has begun has told by then.               *)
Effect(d, c) ==
  IF chips[d].host[c].commd.code = "t" /\ chips[d].host[c].commd.param \in Throttles
  THEN chips[d].host[c].commd.param ELSE chips[d].throttling[c]
Telling(t) == Begun(t, {"thermalthrottling"}, IF model.bus = "pcie" THEN 3 ELSE 2)
Reached(t, c) == c = 0 \/ Len(todo[t]) = 1
ThrottleInv ==
  /\ \A d \in Devs, c \in Chips : chips[d].host[c].commd.code = "t" => chips[d].host[c].commd.param # Whatever
  /\ ~past.clash =>
       /\ \A t, u \in Tasks : Telling(t) /\ Telling(u) => t = u
       /\ \A t \in Tasks, c \in Chips : Telling(t) /\ Reached(t, c) => Effect(found[t], c) = op[t].call.cmd
       /\ \A d \in Devs \ past.remote, c \in Chips :
            (\A t \in Tasks : Telling(t) /\ found[t] = d => ~Reached(t, c)) => Effect(d, c) = disabled[d]

(* How far an undisturbed update is, of the six steps of Programming.      *)
Updating(t) == Begun(t, {"update_flash"}, 5)
Burnt(k, v)  == k.commd = "none" /\ ~k.busy /\ k.param # 0 /\ (k.param = 1 => \A i \in {1, 2} : k.flash[i] = v)
Burning(k, v) == k.commd = "none" /\ k.busy /\ k.param = 0 /\ \A i \in {1, 2} \ k.burn : k.flash[i] = v
Asking(k)    == k.commd = "Q" /\ ~k.busy /\ k.param = 0
Progress(l, k, v, answer) ==
  /\ k.memory[1] = v
  /\ l <= 4 => k.memory[2] = v
  /\ l \in 3..5 => k.commd = "none" /\ ~k.busy
  /\ l = 3 => k.param = 0
  /\ l = 2 => Asking(k) \/ Burning(k, v) \/ Burnt(k, v)
  /\ l = 1 => Burnt(k, v) /\ answer = k.param
FlashInv ==
  /\ ~past.badpass
  /\ \A d \in Devs : ~chips[d].busy => chips[d].burn = {}
  /\ \A t, u \in past.alone : t = u
  /\ \A t \in past.alone : todo[t] # <<>> => 
       /\ Updating(t) /\ found[t] \in Devs
       /\ Progress(Len(todo[t]), chips[found[t]], op[t].call.val, got[t].answer)

(* The lines from the first that is not given back on are in the ring; the *)
(* reader has come as far as what it has still to do tells.                *)
Live(d) == dir[d].state \notin {"closing", "going", "gone"}
Ring(k, f) ==
  /\ f \in 0..k.lines /\ k.lines - f < LogSize
  /\ k.rp = f % LogSize /\ k.wp = k.lines % LogSize
  /\ \A i \in f + 1..k.lines : k.ring[(i - 1) % LogSize] = i
Dumping(t) == Begun(t, {"cmd", "debug"}, 5) /\ op[t].call.cmd = "fwlog"
Reader(l, k, told, g) ==
  \E f \in 0..k.lines : \E w \in f..k.lines :
    /\ Ring(k, f)
    /\ g.wp = w % LogSize
    /\ l <= 4 => g.rp = f % LogSize
    /\ l <= 2 => g.lines = [i \in 1..w - f |-> f + i]
    /\ Len(told) = IF l = 1 THEN w ELSE f
LogInv ==
  model.bus = "pcie" =>
    /\ \A d \in Devs : chips[d].on <=> dir[d].state = "up"
    /\ ~past.twoDumps =>
         /\ \A d \in Devs : Live(d) /\ dir[d].state # "up" => chips[d].lines = 0 /\ chips[d].rp = 0 /\ chips[d].wp = 0
         /\ \A t, u \in Tasks : Dumping(t) /\ Dumping(u) => t = u
         /\ \A d \in Devs : Live(d) => past.told[d] = [i \in 1..Len(past.told[d]) |-> i]
         /\ \A d \in Devs : Live(d) /\ (\A t \in Tasks : Dumping(t) => found[t] # d) => Ring(chips[d], Len(past.told[d]))
         /\ \A t \in Tasks : Dumping(t) /\ Live(found[t]) => Reader(Len(todo[t]), chips[found[t]], past.told[found[t]], got[t])

(* What the counters lack, but for what a showing has read and not yet     *)
(* printed, or printed and not yet reset.                                  *)
ShowsOn(t) == Begun(t, {"throughput"}, 4)
Missing(c)  == past.counted[c] - counters[c] - 2 * past.reported[c]
Unshown(c) == past.counted[c] - 2 * past.reported[c]
BytesInv ==
  ~past.blurred =>
    /\ \A t, u \in Tasks : ShowsOn(t) /\ ShowsOn(u) => t = u
    /\ (\A t \in Tasks : ~ShowsOn(t)) => \A c \in {"tx", "rx"} : Missing(c) \in 0..past.shows
    /\ \A t \in Tasks : ShowsOn(t) =>
         /\ Len(todo[t]) \in {3, 4} => \A c \in {"tx", "rx"} : Missing(c) \in 0..past.shows
         /\ Len(todo[t]) \in {3, 4} => got[t].tx = counters["tx"] \div 2
         /\ Len(todo[t]) = 3 => got[t].rx = counters["rx"] \div 2
         /\ Len(todo[t]) = 1 => counters["tx"] = 0
         /\ Len(todo[t]) \in {1, 2} => \A c \in {"tx", "rx"} : Unshown(c) \in 0..past.shows

IInv == Base /\ OwnInv /\ CommandInv /\ ThrottleInv /\ FlashInv /\ LogInv /\ BytesInv

-----------------------------------------------------------------------------
(* Steps                                                                   *)

(* What an operation does that is not just beginning.                      *)
Follow(t) ==
  \/ Lookup(t) \/ Looks(t)
  \/ MailWord(t) \/ memx_send_memxcmd(t) \/ SetThrottle(t)
  \/ FirmwareFile(t) \/ memx_sram_write(t) \/ WriteLost(t) \/ PollAnswer(t) \/ PollFails(t) \/ Report(t)
  \/ LogRead(t) \/ LogPrint(t) \/ LogDone(t)
  \/ ReadCounter(t) \/ PrintCounters(t) \/ ResetCounter(t)

(* A step of an operation begins it or follows.                            *)
LEMMA StartOrFollow ==
  ASSUME NEW t
  PROVE  Operation(t) <=> Start(t) \/ Follow(t)
  BY DEF Operation, Follow

(* What every step that follows has in common.                             *)
LEMMA Followed ==
  ASSUME TypeOK, NEW t \in Tasks, Follow(t)
  PROVE  /\ todo[t] # <<>> /\ Doing(t, Now(t).do)
         /\ UNCHANGED <<model, dir, index, map, left, op>>
         /\ \A u \in Tasks \ {t} : todo'[u] = todo[u] /\ found'[u] = found[u] /\ got'[u] = got[u]
         /\ Now(t).do # "find" => ~Lookup(t) /\ found' = found /\ (Advance(t) \/ Quit(t)) /\ todo'[t] \in {<<>>, Tail(todo[t])}
         /\ Now(t).do = "find" => Lookup(t)
         /\ Now(t).do # "fault"
  <1> USE DEF Follow, Doing, Now, taskVars, deviceVars
  <1>1. todo[t] # <<>> /\ Doing(t, Now(t).do)
    BY ZenonT(60) DEF Lookup, Looks, MailWord, memx_send_memxcmd, SetThrottle, FirmwareFile, memx_sram_write, WriteLost, PollAnswer, PollFails, Report,
       LogRead, LogPrint, LogDone, ReadCounter, PrintCounters, ResetCounter
  <1>2. UNCHANGED <<model, dir, index, map, left, op>>
    BY ZenonT(60) DEF Lookup, Looks, MailWord, memx_send_memxcmd, SetThrottle, FirmwareFile, memx_sram_write, WriteLost, PollAnswer, PollFails, Report,
       LogRead, LogPrint, LogDone, ReadCounter, PrintCounters, ResetCounter
  <1>3. Now(t).do = "find" => Lookup(t)
    BY ZenonT(60) DEF Lookup, Looks, MailWord, memx_send_memxcmd, SetThrottle, FirmwareFile, memx_sram_write, WriteLost, PollAnswer, PollFails, Report,
       LogRead, LogPrint, LogDone, ReadCounter, PrintCounters, ResetCounter
  <1>4. Now(t).do # "fault"
    BY ZenonT(60) DEF Lookup, Looks, MailWord, memx_send_memxcmd, SetThrottle, FirmwareFile, memx_sram_write, WriteLost, PollAnswer, PollFails, Report,
       LogRead, LogPrint, LogDone, ReadCounter, PrintCounters, ResetCounter
  <1>5. Now(t).do # "find" => ~Lookup(t) /\ found' = found /\ (Advance(t) \/ Quit(t))
    BY Zenon DEF Lookup, Looks, MailWord, memx_send_memxcmd, SetThrottle, FirmwareFile, memx_sram_write, WriteLost, PollAnswer, PollFails, Report,
       LogRead, LogPrint, LogDone, ReadCounter, PrintCounters, ResetCounter
  <1>6. todo \in [Tasks -> Seq(Steps)] /\ found \in [Tasks -> Devs \cup {Nobody}] /\ got \in [Tasks -> Readings]
    BY SMTT(30) DEF TypeOK, TaskTypeOK
  <1>7. Lookup(t) => /\ \A u \in Tasks \ {t} : todo'[u] = todo[u] /\ found'[u] = found[u]
                     /\ got' = got
    BY <1>6 DEF Lookup, Advance
  <1>8. ASSUME ~Lookup(t)
        PROVE  /\ todo'[t] \in {<<>>, Tail(todo[t])}
               /\ \A u \in Tasks \ {t} : todo'[u] = todo[u] /\ found'[u] = found[u]
    BY <1>3, <1>5, <1>6, <1>8 DEF Advance, Quit
  <1>9. ASSUME NEW u \in Tasks \ {t} PROVE got'[u] = got[u]
    <2>1. CASE LogRead(t)
      BY Zenon, <1>6, <2>1 DEF LogRead, Note
    <2>2. CASE ~LogRead(t)
      <3>1. \/ got' = got \/ Note(t, "answer", chips[found[t]].param)
            \/ Note(t, Now(t).of, counters[Now(t).of] \div 2)
        BY Zenon, <2>2 DEF Lookup, Looks, MailWord, memx_send_memxcmd, SetThrottle, FirmwareFile, memx_sram_write, WriteLost, PollAnswer, PollFails, Report,
           LogPrint, LogDone, ReadCounter, PrintCounters, ResetCounter
      <3> QED
        BY <1>6, <3>1 DEF Note
    <2> QED
      BY <2>1, <2>2
  <1> QED
    BY SMTT(30), <1>1, <1>2, <1>3, <1>4, <1>5, <1>7, <1>8, <1>9

(* What an operation reads, and what it does to the chips, is of its type. *)
LEMMA StepFields ==
  ASSUME NEW s \in Steps
  PROVE  /\ s.do = "mail" => /\ s.chip \in Chips
                             /\ \/ (s.reg \in {"param", "param2"} /\ s.val \in Params)
                                \/ (s.reg = "commd" /\ s.val \in CommandWords)
         /\ s.do = "send" => s.chip \in Chips /\ s.val \in CommandWords
         /\ s.do = "word" => s.i \in Range(Words)
         /\ s.do = "sram" => (s.reg = "param" /\ s.val = 0) \/ (s.reg = "commd" /\ s.val = "Q")
         /\ s.do \in {"read", "reset"} => s.of \in {"tx", "rx"}
         /\ s.do = "throttle" => s.val \in Throttles
         /\ s.do = "log" => s.part \in {"wp", "rp", "copy", "all", "print", "done"}
  <1>1. CASE s \in [do : {"find", "look", "maybe", "request", "check", "poll", "verdict", "print", "fault"}]
    BY <1>1
  <1>2. CASE s \in [do : {"mail"}, chip : Chips, reg : {"param", "param2"}, val : Params]
    BY <1>2
  <1>3. CASE s \in [do : {"mail"}, chip : Chips, reg : {"commd"}, val : CommandWords]
    BY <1>3
  <1>4. CASE s \in [do : {"send"}, chip : Chips, val : CommandWords]
    BY <1>4
  <1>5. CASE s \in [do : {"word"}, i : Range(Words)]
    BY <1>5
  <1>6. CASE s \in [do : {"sram"}, reg : {"param"}, val : {0}]
    <2>1. s.do = "sram" /\ s.reg = "param" /\ s.val = 0
      BY <1>6
    <2> QED
      BY <2>1
  <1>7. CASE s \in [do : {"sram"}, reg : {"commd"}, val : {"Q"}]
    BY <1>7
  <1>8. CASE s \in [do : {"log"}, part : {"wp", "rp", "copy", "all", "print", "done"}]
    BY <1>8
  <1>9. CASE s \in [do : {"read", "reset"}, of : {"tx", "rx"}]
    BY <1>9
  <1>10. CASE s \in [do : {"throttle"}, val : Throttles]
    BY <1>10
  <1> QED
    BY <1>1, <1>2, <1>3, <1>4, <1>5, <1>6, <1>7, <1>8, <1>9, <1>10 DEF Steps

(* A step that works on a device has one.                                  *)
LEMMA AtDevice ==
  ASSUME TypeOK, ScriptInv, NEW t \in Tasks, NEW what, Doing(t, what),
         what \in {"mail", "send", "throttle", "word", "sram", "poll", "verdict", "log"}
  PROVE  /\ found[t] \in Devs /\ todo[t] # <<>> /\ todo[t] # <<Fault>> /\ Now(t).do = what
         /\ Now(t) \in Steps /\ op[t].call \in Calls
  <1> DEFINE e == Section(model, op[t].call)
             k == Len(e) + 1 - Len(todo[t])
  <1>1. /\ todo[t] # <<>> /\ todo[t] # <<Fault>>
        /\ Now(t) = e[k] /\ Now(t).do = what
        /\ Kind(op[t].call, e, k)
        /\ op[t].call.file # "throughput" => found[t] \in Devs
    BY Inside
  <1> HIDE DEF e, k
  <1>2. op[t].call.file # "throughput"
    BY <1>1 DEF Kind, Mailing, Writable, Usages
  <1> QED
    BY <1>1, <1>2, Standing

(* What is read keeps its type.                                            *)
LEMMA ReadTypes ==
  ASSUME TypeOK, ScriptInv, NEW t \in Tasks, LogRead(t) \/ PollAnswer(t) \/ ReadCounter(t)
  PROVE  got' \in [Tasks -> Readings]
  <1>1. /\ got \in [Tasks -> Readings] /\ ChipTypeOK /\ counters \in Counts
    BY DEF TypeOK, TaskTypeOK
  <1>2. got[t] \in Readings
    BY <1>1
  <1>3. CASE PollAnswer(t)
    <2>1. found[t] \in Devs
      <3>1. Doing(t, "poll")
        BY <1>3 DEF PollAnswer
      <3> QED
        BY <3>1, AtDevice
    <2>2. chips[found[t]].param \in 0..2
      BY <1>1, <2>1 DEF ChipTypeOK, ChipRecords
    <2>3. got' = [got EXCEPT ![t] = [got[t] EXCEPT !.answer = chips[found[t]].param]]
      BY <1>1, <1>3 DEF PollAnswer, Note
    <2>4. [got[t] EXCEPT !.answer = chips[found[t]].param] \in Readings
      BY <1>2, <2>2 DEF Readings
    <2> QED
      BY <1>1, <2>3, <2>4
  <1>4. CASE ReadCounter(t)
    <2>1. Doing(t, "read") /\ Note(t, Now(t).of, counters[Now(t).of] \div 2)
      BY <1>4 DEF ReadCounter
    <2>2. Now(t) \in Steps /\ Now(t).do = "read"
      <3>1. todo[t] # <<>> /\ todo[t] # <<Fault>>
        BY <2>1, Inside
      <3> QED
        BY <2>1, <3>1, Standing DEF Doing, Now
    <2>3. Now(t).of \in {"tx", "rx"}
      BY <2>2, StepFields
    <2> DEFINE n == counters[Now(t).of] \div 2
    <2>4. n \in Nat
      BY <1>1, <2>3 DEF Counts
    <2> HIDE DEF n
    <2>5. got' = [got EXCEPT ![t] = [got[t] EXCEPT ![Now(t).of] = n]]
      BY <1>1, <2>1 DEF Note, n
    <2>6. [got[t] EXCEPT !.tx = n] \in Readings /\ [got[t] EXCEPT !.rx = n] \in Readings
      BY <1>2, <2>4 DEF Readings
    <2>7. [got[t] EXCEPT ![Now(t).of] = n] \in Readings
      BY <2>3, <2>6
    <2> QED
      BY <1>1, <2>5, <2>7
  <1>5. CASE LogRead(t)
    <2>1. Doing(t, "log") /\ Now(t).part \in {"wp", "rp", "copy", "all"}
      BY <1>5 DEF LogRead
    <2>2. found[t] \in Devs
      BY <2>1, AtDevice
    <2> DEFINE k == chips[found[t]]
    <2>3. k \in ChipRecords
      BY <1>1, <2>2 DEF ChipTypeOK
    <2>4. ASSUME NEW rp \in 0..LogSize - 1, NEW wp \in 0..LogSize - 1
          PROVE  Lines(found[t], rp, wp) \in Seq(Nat)
      <3> DEFINE n == (wp - rp) % LogSize
      <3>1. n \in Nat
        BY DebugAssumption
      <3>2. ASSUME NEW i \in 1..n PROVE k.ring[(rp + i - 1) % LogSize] \in Nat
        <4>1. (rp + i - 1) % LogSize \in 0..LogSize - 1
          BY <3>1, DebugAssumption
        <4> QED
          BY <2>3, <4>1 DEF ChipRecords
      <3>3. Lines(found[t], rp, wp) = [i \in 1..n |-> k.ring[(rp + i - 1) % LogSize]]
        BY DEF Lines
      <3> HIDE DEF n, k
      <3> QED
        BY <3>1, <3>2, <3>3
    <2>5. k.wp \in 0..LogSize - 1 /\ k.rp \in 0..LogSize - 1
      BY <2>3 DEF ChipRecords
    <2>6. got[t].wp \in 0..LogSize - 1 /\ got[t].rp \in 0..LogSize - 1
      BY <1>2 DEF Readings
    <2>7. PICK v \in Seq(Nat), w \in 0..LogSize - 1, r \in 0..LogSize - 1 :
            Note(t, "wp", w) \/ Note(t, "rp", r) \/ Note(t, "lines", v)
      <3>1. CASE Now(t).part = "wp"
        <4>1. Note(t, Now(t).part, k[Now(t).part])
          BY <1>5, <3>1 DEF LogRead
        <4>2. Note(t, "wp", k["wp"])
          BY <3>1, <4>1
        <4>3. <<>> \in Seq(Nat) /\ k["wp"] = k.wp /\ k["rp"] = k.rp
          OBVIOUS
        <4> QED
          BY <2>5, <4>2, <4>3
      <3>4. CASE Now(t).part = "rp"
        <4>1. Note(t, Now(t).part, k[Now(t).part])
          BY <1>5, <3>4 DEF LogRead
        <4>2. Note(t, "rp", k["rp"])
          BY <3>4, <4>1
        <4>3. <<>> \in Seq(Nat) /\ k["wp"] = k.wp /\ k["rp"] = k.rp
          OBVIOUS
        <4> QED
          BY <2>5, <4>2, <4>3
      <3>2. CASE Now(t).part = "copy"
        BY <1>5, <2>4, <2>5, <2>6, <3>2 DEF LogRead
      <3>3. CASE Now(t).part = "all"
        BY <1>5, <2>4, <2>5, <2>6, <3>3 DEF LogRead
      <3> QED
        BY <2>1, <3>1, <3>2, <3>3, <3>4
    <2>8. [got[t] EXCEPT !.wp = w] \in Readings /\ [got[t] EXCEPT !.rp = r] \in Readings /\ [got[t] EXCEPT !.lines = v] \in Readings
      BY <1>2 DEF Readings
    <2>9. \/ got' = [got EXCEPT ![t] = [got[t] EXCEPT !.wp = w]] \/ got' = [got EXCEPT ![t] = [got[t] EXCEPT !.rp = r]]
          \/ got' = [got EXCEPT ![t] = [got[t] EXCEPT !.lines = v]]
      BY <1>1, <2>7 DEF Note
    <2> QED
      BY <1>1, <2>8, <2>9
  <1> QED
    BY <1>3, <1>4, <1>5

(* So do the chips that are written to.                                    *)
LEMMA WriteTypes ==
  ASSUME TypeOK, ScriptInv, NEW t \in Tasks,
         MailWord(t) \/ memx_send_memxcmd(t) \/ memx_sram_write(t) \/ LogDone(t)
  PROVE  ChipTypeOK'
  <1>1. /\ got \in [Tasks -> Readings] /\ ChipTypeOK
    BY DEF TypeOK, TaskTypeOK
  <1>2. PICK what : Doing(t, what) /\ what \in {"mail", "send", "word", "sram", "log"}
    BY DEF MailWord, memx_send_memxcmd, memx_sram_write, LogDone
  <1>3. /\ found[t] \in Devs /\ todo[t] # <<>> /\ todo[t] # <<Fault>> /\ Now(t).do = what
    BY <1>2, AtDevice
  <1>4. Now(t) \in Steps /\ op[t].call \in Calls
    BY <1>3, Standing
  <1> DEFINE d == found[t]
             k == chips[d]
             s == Now(t)
  <1>5. d \in Devs /\ k \in ChipRecords /\ chips \in [Devs -> ChipRecords]
    BY <1>1, <1>3 DEF ChipTypeOK
  <1>6. CASE MailWord(t)
    <2>1. s.do = "mail"
      BY <1>6 DEF MailWord, Doing, Now
    <2>a. s \in Steps
      BY <1>4
    <2> HIDE DEF s
    <2>2. s.chip \in Chips /\ ((s.reg \in {"param", "param2"} /\ s.val \in Params) \/ (s.reg = "commd" /\ s.val \in CommandWords))
      BY <2>1, <2>a, StepFields
    <2> DEFINE h == k.host[s.chip]
    <2>3. h \in Mailboxes
      BY <1>5, <2>2 DEF ChipRecords
    <2>4. [h EXCEPT ![s.reg] = s.val] \in Mailboxes
      <3>1. CASE s.reg = "param" /\ s.val \in Params
        BY <2>3, <3>1 DEF Mailboxes
      <3>2. CASE s.reg = "param2" /\ s.val \in Params
        BY <2>3, <3>2 DEF Mailboxes
      <3>3. CASE s.reg = "commd" /\ s.val \in CommandWords
        BY <2>3, <3>3 DEF Mailboxes
      <3> QED
        BY <2>2, <3>1, <3>2, <3>3
    <2>5. chips' = [chips EXCEPT ![d].host[s.chip][s.reg] = s.val]
      BY <1>6 DEF MailWord, s
    <2>6. chips' = [chips EXCEPT ![d] = [k EXCEPT !.host[s.chip] = [h EXCEPT ![s.reg] = s.val]]]
      BY <1>5, <2>5
    <2> HIDE DEF h
    <2>7. [k EXCEPT !.host[s.chip] = [h EXCEPT ![s.reg] = s.val]] \in ChipRecords
      BY <1>5, <2>2, <2>4, MailboxSet
    <2> QED
      BY <1>1, <1>5, <2>6, <2>7, Rewired
  <1>7. CASE memx_send_memxcmd(t)
    <2>1. s.do = "send"
      BY <1>7 DEF memx_send_memxcmd, Doing, Now
    <2>2. s.chip \in Chips
      BY <1>4, <2>1, StepFields
    <2>3. chips' = chips \/ chips' = Does(d, s.chip, s.val.code, s.val.param)
      BY <1>7 DEF memx_send_memxcmd
    <2>4. PICK r \in ChipRecords : Does(d, s.chip, s.val.code, s.val.param) = [chips EXCEPT ![d] = r]
      BY <1>1, <1>5, <2>2, DoesIs
    <2>5. CASE chips' = chips
      BY <1>1, <2>5 DEF ChipTypeOK
    <2> HIDE DEF d, s, k
    <2> QED
      BY <1>1, <1>5, <2>3, <2>4, <2>5, Rewired
  <1>8. CASE memx_sram_write(t)
    <2>1. CASE Doing(t, "word")
      <3>1. s.do = "word"
        BY <2>1 DEF Doing, Now
      <3>2. s.i \in Range(Words) /\ op[t].call.val \in Values
        <4>1. s.i \in Range(Words)
          BY <1>4, <3>1, StepFields
        <4> QED
          BY <1>4, <4>1 DEF Calls
      <3>3. chips' = [chips EXCEPT ![d].memory[s.i] = op[t].call.val]
        BY <1>8, <2>1 DEF memx_sram_write
      <3>4. chips' = [chips EXCEPT ![d] = [k EXCEPT !.memory[s.i] = op[t].call.val]]
        BY <1>5, <3>3
      <3> HIDE DEF s
      <3>5. [k EXCEPT !.memory[s.i] = op[t].call.val] \in ChipRecords
        BY <1>5, <3>2 DEF ChipRecords, Content
      <3> HIDE DEF k, d
      <3> QED
        BY <1>1, <1>5, <3>4, <3>5, Rewired
    <2>2. CASE ~Doing(t, "word")
      <3>1. s.do = "sram"
        BY <1>8, <2>2 DEF memx_sram_write, Doing, Now
      <3>2. (s.reg = "param" /\ s.val = 0) \/ (s.reg = "commd" /\ s.val = "Q")
        BY <1>4, <3>1, StepFields
      <3>3. chips' = [chips EXCEPT ![d][s.reg] = s.val]
        BY <1>8, <2>2 DEF memx_sram_write
      <3>4. chips' = [chips EXCEPT ![d] = [k EXCEPT ![s.reg] = s.val]]
        BY <1>5, <3>3
      <3>a. 0 \in 0..2
        OBVIOUS
      <3> HIDE DEF k
      <3>5. [k EXCEPT !.param = 0] \in ChipRecords /\ [k EXCEPT !.commd = "Q"] \in ChipRecords
        BY <1>5, <3>a DEF ChipRecords
      <3>6. [k EXCEPT ![s.reg] = s.val] \in ChipRecords
        BY <3>2, <3>5
      <3> HIDE DEF k, d, s
      <3> QED
        BY <1>1, <1>5, <3>4, <3>6, Rewired
    <2> QED
      BY <2>1, <2>2
  <1>9. CASE LogDone(t)
    <2>1. got[t].wp \in 0..LogSize - 1
      BY <1>1 DEF Readings
    <2>2. chips' = [chips EXCEPT ![d] = [k EXCEPT !.rp = got[t].wp]]
      BY <1>5, <1>9 DEF LogDone
    <2>3. [k EXCEPT !.rp = got[t].wp] \in ChipRecords
      BY <1>5, <2>1 DEF ChipRecords
    <2> HIDE DEF k, d
    <2> QED
      BY <1>1, <1>5, <2>2, <2>3, Rewired
  <1> QED
    BY <1>6, <1>7, <1>8, <1>9

(* And the history.                                                        *)
LEMMA HistoryTypes ==
  ASSUME TypeOK, ScriptInv, NEW t \in Tasks, Follow(t)
  PROVE  past' \in Histories
  <1>1. past \in Histories /\ got[t] \in Readings
    BY DEF TypeOK, TaskTypeOK
  <1>2. CASE Lookup(t)
    BY <1>1, <1>2 DEF Lookup, Histories
  <1>3. CASE Looks(t) \/ SetThrottle(t) \/ FirmwareFile(t) \/ PollAnswer(t) \/ PollFails(t) \/ LogDone(t) \/ ResetCounter(t)
    BY <1>1, <1>3 DEF Looks, SetThrottle, Histories, FirmwareFile, PollAnswer, PollFails, LogDone, ResetCounter
  <1>4. CASE MailWord(t) \/ memx_send_memxcmd(t)
    <2>1. found[t] \in Devs
      BY <1>4, AtDevice DEF MailWord, memx_send_memxcmd
    <2>a. Clash(t, Now(t).chip) \in BOOLEAN
      BY DEF Clash
    <2>b. past.remote \cup Remote(t) \in SUBSET Devs /\ past.remote \in SUBSET Devs /\ past.clash \in BOOLEAN
      BY <1>1, <2>1 DEF Remote, Histories
    <2>2. PICK b \in BOOLEAN, s \in SUBSET Devs : past' = [past EXCEPT !.clash = b, !.remote = s]
      <3>1. CASE past' = [past EXCEPT !.clash = @ \/ Clash(t, Now(t).chip), !.remote = @ \cup Remote(t)]
        BY Zenon, <2>a, <2>b, <3>1
      <3>2. CASE past' = [past EXCEPT !.clash = TRUE]
        <4>1. past' = [past EXCEPT !.clash = TRUE, !.remote = past.remote]
          BY <1>1, <3>2 DEF Histories
        <4> QED
          BY <2>b, <4>1
      <3> QED
        BY <1>4, <3>1, <3>2 DEF MailWord, memx_send_memxcmd
    <2> QED
      BY <1>1, <2>2 DEF Histories
  <1>5. CASE memx_sram_write(t) \/ WriteLost(t)
    <2>1. PICK s \in SUBSET Tasks : past' = [past EXCEPT !.alone = s]
      BY <1>1, <1>5 DEF memx_sram_write, WriteLost, Undisturbed, Histories
    <2> QED
      BY <1>1, <2>1 DEF Histories
  <1>6. CASE Report(t)
    <2>1. PICK b \in BOOLEAN : past' = [past EXCEPT !.badpass = b]
      BY <1>1, <1>6 DEF Report, Histories
    <2> QED
      BY <1>1, <2>1 DEF Histories
  <1>7. CASE LogRead(t)
    <2>1. PICK b \in BOOLEAN : past' = [past EXCEPT !.twoDumps = b]
      BY <1>1, <1>7 DEF LogRead, Histories
    <2> QED
      BY <1>1, <2>1 DEF Histories
  <1>8. CASE LogPrint(t)
    <2>1. found[t] \in Devs
      <3>1. Doing(t, "log")
        BY <1>8 DEF LogPrint
      <3> QED
        BY <3>1, AtDevice
    <2> DEFINE s == past.told[found[t]] \o got[t].lines
    <2>2. s \in Seq(Nat)
      <3>1. past.told[found[t]] \in Seq(Nat) /\ got[t].lines \in Seq(Nat)
        BY <1>1, <2>1 DEF Histories, Readings
      <3> QED
        BY <3>1, ConcatProperties
    <2>3. past' = [past EXCEPT !.told[found[t]] = s]
      BY <1>8 DEF LogPrint
    <2> HIDE DEF s
    <2>4. [past EXCEPT !.told[found[t]] = s] \in Histories
      BY <1>1, <2>1, <2>2 DEF Histories
    <2> QED
      BY <2>3, <2>4
  <1>9. CASE ReadCounter(t)
    <2>1. PICK b \in BOOLEAN : past' = [past EXCEPT !.blurred = b]
      BY <1>1, <1>9 DEF ReadCounter, Histories
    <2> QED
      BY <1>1, <2>1 DEF Histories
  <1>10. CASE PrintCounters(t)
    <2> DEFINE f == [c \in {"tx", "rx"} |-> past.reported[c] + got[t][c]]
    <2>1. f \in Counts
      <3>1. got[t].tx \in Nat /\ got[t].rx \in Nat /\ past.reported["tx"] \in Nat /\ past.reported["rx"] \in Nat
        BY <1>1 DEF Readings, Histories, Counts
      <3> QED
        BY <3>1 DEF Counts
    <2>2. DOMAIN past.reported = {"tx", "rx"} /\ past.shows \in Nat
      BY <1>1 DEF Histories, Counts
    <2> DEFINE n == past.shows + 1
    <2>3. past' = [past EXCEPT !.reported = f, !.shows = n]
      BY <1>10, <2>2 DEF PrintCounters
    <2>a. n \in Nat
      BY <2>2
    <2> HIDE DEF f, n
    <2>4. [past EXCEPT !.reported = f, !.shows = n] \in Histories
      BY <1>1, <2>1, <2>a DEF Histories
    <2> QED
      BY <2>3, <2>4
  <1> QED
    BY <1>2, <1>3, <1>4, <1>5, <1>6, <1>7, <1>8, <1>9, <1>10 DEF Follow

(* Types, places and directories under all steps that follow.              *)
LEMMA FollowBase ==
  ASSUME TypeOK, ScriptInv, DirInv, NEW t \in Tasks, Follow(t)
  PROVE  TypeOK' /\ ScriptInv' /\ DirInv'
  <1>1. CASE Lookup(t)
    BY <1>1, Unchanging
  <1>2. CASE ~Lookup(t)
    <2>1. /\ todo[t] # <<>> /\ Doing(t, Now(t).do) /\ Now(t).do \notin {"find", "fault"}
          /\ UNCHANGED <<model, dir, index, map, left, op, found>>
          /\ Advance(t) \/ Quit(t)
      BY <1>2, Followed
    <2>2. got' \in [Tasks -> Readings]
      <3>1. CASE LogRead(t) \/ PollAnswer(t) \/ ReadCounter(t)
        BY <3>1, ReadTypes
      <3>2. CASE ~(LogRead(t) \/ PollAnswer(t) \/ ReadCounter(t))
        <4>1. got' = got
          BY <1>2, <3>2 DEF Follow, Looks, MailWord, memx_send_memxcmd, SetThrottle, FirmwareFile, memx_sram_write, WriteLost, PollFails, Report,
             LogPrint, LogDone, PrintCounters, ResetCounter
        <4> QED
          BY SMTT(30), <4>1 DEF TypeOK, TaskTypeOK
      <3> QED
        BY <3>1, <3>2
    <2>3. TaskTypeOK' /\ ScriptInv'
      BY <2>1, <2>2, Trodden
    <2>4. ChipTypeOK'
      <3>1. CASE MailWord(t) \/ memx_send_memxcmd(t) \/ memx_sram_write(t) \/ LogDone(t)
        BY <3>1, WriteTypes
      <3>2. CASE ~(MailWord(t) \/ memx_send_memxcmd(t) \/ memx_sram_write(t) \/ LogDone(t))
        <4>1. chips' = chips
          BY <1>2, <3>2 DEF Follow, Looks, SetThrottle, FirmwareFile, WriteLost, PollAnswer, PollFails, Report,
             LogRead, LogPrint, ReadCounter, PrintCounters, ResetCounter
        <4> QED
          BY SMTT(30), <4>1 DEF TypeOK, ChipTypeOK
      <3> QED
        BY <3>1, <3>2
    <2>5. past' \in Histories
      BY HistoryTypes
    <2>6. disabled' \in [Devs -> Throttles]
      <3>1. CASE SetThrottle(t)
        <4>1. Doing(t, "throttle") /\ disabled' = [disabled EXCEPT ![found[t]] = Now(t).val]
          BY <3>1 DEF SetThrottle
        <4>2. Now(t).val \in Throttles
          BY <4>1, AtDevice, StepFields
        <4> QED
          BY <4>1, <4>2 DEF TypeOK
      <3>2. CASE ~SetThrottle(t)
        <4>1. disabled' = disabled
          BY Zenon, <1>2, <3>2 DEF Follow, Looks, MailWord, memx_send_memxcmd, FirmwareFile, memx_sram_write, WriteLost, PollAnswer, PollFails, Report,
             LogRead, LogPrint, LogDone, ReadCounter, PrintCounters, ResetCounter
        <4> QED
          BY SMTT(30), <4>1 DEF TypeOK
      <3> QED
        BY <3>1, <3>2
    <2>7. counters' \in Counts
      <3>1. CASE ResetCounter(t)
        BY Zenon, <3>1 DEF ResetCounter, TypeOK, Counts
      <3>2. CASE ~ResetCounter(t)
        <4>1. counters' = counters
          BY Zenon, <1>2, <3>2 DEF Follow, Looks, MailWord, memx_send_memxcmd, SetThrottle, FirmwareFile, memx_sram_write, WriteLost, PollAnswer, PollFails, Report,
             LogRead, LogPrint, LogDone, ReadCounter, PrintCounters
        <4> QED
          BY <4>1 DEF TypeOK
      <3> QED
        BY <3>1, <3>2
    <2>8. DirTypeOK' /\ DirInv' /\ model' \in Scenarios
      BY <2>1 DEF TypeOK, DirTypeOK, DirInv
    <2> QED
      BY <2>3, <2>4, <2>5, <2>6, <2>7, <2>8 DEF TypeOK
  <1> QED
    BY <1>1, <1>2

(* Under the data path.                                                    *)
LEMMA CountBase ==
  ASSUME TypeOK, ScriptInv, DirInv, NEW c \in {"tx", "rx"}, THROUGHPUT_ADD(c)
  PROVE  TypeOK' /\ ScriptInv' /\ DirInv'
  <1>1. UNCHANGED <<model, deviceVars, taskVars, chips, disabled>>
    BY DEF THROUGHPUT_ADD
  <1>2. counters' \in Counts
    BY DEF THROUGHPUT_ADD, TypeOK, Counts
  <1>3. past' \in Histories
    <2>1. past \in Histories
      BY DEF TypeOK
    <2>2. PICK b \in BOOLEAN : past' = [past EXCEPT !.counted[c] = @ + 1, !.blurred = b]
      BY <2>1 DEF THROUGHPUT_ADD, Histories
    <2>3. past' = [past EXCEPT !.counted = [past.counted EXCEPT ![c] = past.counted[c] + 1], !.blurred = b]
      BY <2>1, <2>2
    <2>4. [past.counted EXCEPT ![c] = past.counted[c] + 1] \in Counts
      BY <2>1 DEF Histories, Counts
    <2> QED
      BY <2>1, <2>3, <2>4 DEF Histories
  <1> QED
    BY <1>1, <1>2, <1>3 DEF TypeOK, DirTypeOK, TaskTypeOK, ChipTypeOK, ScriptInv, OnTrack, DirInv, taskVars, deviceVars

(* Under the firmware.                                                     *)
LEMMA FirmwareBase ==
  ASSUME TypeOK, ScriptInv, DirInv, NEW d \in Devs, Firmware(d)
  PROVE  TypeOK' /\ ScriptInv' /\ DirInv'
  <1>1. UNCHANGED <<model, deviceVars, taskVars, disabled, counters>>
    BY Zenon DEF Firmware, FwTake, FwBurn, FwAnswer, FwLog, FwWord
  <1>2. TypeOK'
    BY FirmwareTypes
  <1> QED
    BY SMTT(30), <1>1, <1>2 DEF ScriptInv, OnTrack, DirInv, taskVars, deviceVars

(* Who is within keeps a directory's state among those that have files.    *)
LEMMA DirectoryTurns ==
  ASSUME TypeOK, NEW d \in Devs, Directory(d)
  PROVE  /\ UNCHANGED <<model, taskVars, disabled, counters>>
         /\ \A e \in Devs \ {d} : dir'[e] = dir[e] /\ index'[e] = index[e]
         /\ dir[d].state \in Shown /\ Within(d) # {} => dir'[d].state \in Shown
         /\ dir'[d].state \in Shown /\ dir[d].state \notin Shown => MakeRoot(d)
         /\ MakeRoot(d) => dir'[d].kobj \in Addresses
         /\ ~MakeRoot(d) => dir'[d].kobj = dir[d].kobj
         /\ \A n \in 0..7 : map'[n] # map[n] => model.type = "sys" /\ Finish(d) /\ n = index[d] /\ map'[n] = [kobj |-> dir[d].kobj, dev |-> d]
  <1> USE DEF taskVars, Turn, Shown
  <1>0. dir \in [Devs -> DirRecords] /\ index \in [Devs -> Numbers] /\ map \in [0..7 -> [kobj : Addresses \cup {Nobody}, dev : Devs \cup {Nobody}]]
    BY DEF TypeOK, DirTypeOK
  <1>a. dir[d] \in DirRecords
    BY <1>0
  <1>1. CASE Insert(d)
    BY SMTT(30), <1>0, <1>a, <1>1 DEF Insert, Comes, MakeRoot, DirRecords
  <1>2. CASE Scan(d)
    BY <1>0, <1>a, <1>2 DEF Scan, Comes, MakeRoot, DirRecords
  <1>3. CASE MakeRoot(d)
    BY ZenonT(30), <1>0, <1>a, <1>3 DEF MakeRoot, DirRecords
  <1>4. CASE RootFails(d)
    BY ZenonT(30), <1>0, <1>a, <1>4 DEF RootFails, MakeRoot, DirRecords
  <1>5. CASE AddFile(d)
    BY <1>0, <1>a, <1>5 DEF AddFile, MakeRoot, DirRecords
  <1>6. CASE FileFails(d)
    BY ZenonT(30), <1>0, <1>a, <1>6 DEF FileFails, MakeRoot, DirRecords
  <1>7. CASE Finish(d)
    BY <1>0, <1>a, <1>7 DEF Finish, Entry, MakeRoot, DirRecords
  <1>8. CASE memx_fw_log_init(d) \/ memx_fw_log_deinit(d)
    BY <1>0, <1>a, <1>8 DEF memx_fw_log_init, memx_fw_log_deinit, MakeRoot, DirRecords
  <1>9. CASE memx_fs_deinit(d) \/ memx_pcie_remove_device(d)
    BY <1>0, <1>a, <1>9 DEF memx_fs_deinit, memx_pcie_remove_device, MakeRoot, DirRecords
  <1> QED
    BY <1>1, <1>2, <1>3, <1>4, <1>5, <1>6, <1>7, <1>8, <1>9 DEF Directory

(* Under the steps of a directory.                                         *)
LEMMA DirectoryBase ==
  ASSUME TypeOK, ScriptInv, DirInv, NEW d \in Devs, Directory(d)
  PROVE  TypeOK' /\ ScriptInv' /\ DirInv'
  <1>1. TypeOK'
    BY DirectoryTypes
  <1>2. /\ UNCHANGED <<model, taskVars, disabled, counters>>
        /\ \A e \in Devs \ {d} : dir'[e] = dir[e] /\ index'[e] = index[e]
        /\ dir[d].state \in Shown /\ Within(d) # {} => dir'[d].state \in Shown
        /\ dir'[d].state \in Shown /\ dir[d].state \notin Shown => MakeRoot(d)
        /\ MakeRoot(d) => dir'[d].kobj \in Addresses
        /\ ~MakeRoot(d) => dir'[d].kobj = dir[d].kobj
        /\ \A n \in 0..7 : map'[n] # map[n] => map'[n] = [kobj |-> dir[d].kobj, dev |-> d]
    BY DirectoryTurns
  <1>3. ScriptInv'
    <2> SUFFICES ASSUME NEW t \in Tasks, todo'[t] # <<>> PROVE OnTrack(t)'
      BY DEF ScriptInv
    <2>1. OnTrack(t) /\ todo[t] # <<>>
      BY <1>2 DEF ScriptInv, taskVars
    <2>2. op[t].dev \in Devs
      BY <2>1 DEF TypeOK, TaskTypeOK
    <2>3. dir'[op[t].dev].state \in Shown
      <3>1. CASE op[t].dev = d
        BY <1>2, <2>1, <3>1 DEF OnTrack, Within
      <3>2. CASE op[t].dev # d
        BY <1>2, <2>1, <2>2, <3>2 DEF OnTrack
      <3> QED
        BY <3>1, <3>2
    <2> QED
      BY <1>2, <2>1, <2>3 DEF OnTrack, taskVars
  <1>4. DirInv'
    BY <1>2 DEF DirInv
  <1> QED
    BY <1>1, <1>3, <1>4

(* The files of a directory.                                               *)
LEMMA FilesAre ==
  ASSUME model \in Scenarios
  PROVE  Files \in Seq(FileNames) /\ Len(Files) \in Nat
  <1>1. /\ <<"cmd">> \in Seq(FileNames) /\ <<"hitcount">> \in Seq(FileNames) /\ <<>> \in Seq(FileNames)
        /\ <<"debug", "i2ctrl", "gpioctrl", "update_flash">> \in Seq(FileNames)
        /\ <<"debug", "update_flash", "i2ctrl", "gpioctrl">> \in Seq(FileNames)
        /\ <<"verinfo", "utilization", "temperature", "frequency">> \in Seq(FileNames)
        /\ <<"verinfo", "utilization", "temperature">> \in Seq(FileNames)
        /\ <<"thermalthrottling", "throughput">> \in Seq(FileNames)
        /\ <<"thermalthrottling", "throughput", "frequency">> \in Seq(FileNames)
    BY DEF FileNames, Writable, Usages
  <1>2. \A s, t \in Seq(FileNames) : s \o t \in Seq(FileNames)
    BY ConcatProperties
  <1>3. ASSUME NEW b \in BOOLEAN
        PROVE  /\ sys_files(b) \in Seq(FileNames) /\ usb_sys_files(b) \in Seq(FileNames)
               /\ proc_files(b) \in Seq(FileNames) /\ usb_proc_files(b) \in Seq(FileNames)
    <2>1. sys_files(b) \in Seq(FileNames) /\ usb_sys_files(b) \in Seq(FileNames)
      BY <1>1, <1>2 DEF sys_files, usb_sys_files
    <2>2. proc_files(b) \in Seq(FileNames) /\ usb_proc_files(b) \in Seq(FileNames)
      BY <1>1, <1>2 DEF proc_files, usb_proc_files
    <2> QED
      BY <2>1, <2>2
  <1>4. model.debug \in BOOLEAN /\ model.bus \in {"pcie", "usb"} /\ model.type \in {"sys", "proc"}
    BY DebugAssumption
  <1>5. Files \in Seq(FileNames)
    BY <1>3, <1>4 DEF Files
  <1> QED
    BY <1>5, LenProperties

(* The device that is there when a scenario begins.                        *)
LEMMA OnlyOne ==
  ASSUME NEW m \in Scenarios, m.there # {}
  PROVE  \E d \in Devs : m.there = {d} /\ (CHOOSE x \in m.there : TRUE) = d
  <1>1. m.there \subseteq Devs /\ Cardinality(m.there) <= 1 /\ IsFiniteSet(Devs)
    BY DebugAssumption
  <1>2. IsFiniteSet(m.there)
    BY <1>1, FS_Subset
  <1>3. Cardinality(m.there) \in Nat /\ Cardinality(m.there) # 0
    BY <1>2, FS_CardinalityType, FS_EmptySet
  <1>4. PICK d : m.there = {d}
    BY <1>1, <1>2, <1>3, FS_Singleton
  <1> QED
    BY <1>1, <1>4

LEMMA InitBase ==
  ASSUME Init
  PROVE  TypeOK /\ ScriptInv /\ DirInv
  <1>0. model \in Scenarios /\ model.there \subseteq Devs /\ model.tasks \in [Tasks -> Seq(Calls)] /\ Somewhere \in Addresses
    BY DebugAssumption DEF Init, Somewhere
  <1>1. DirTypeOK
    <2>0. 0 \in Numbers
      BY DebugAssumption, FS_CardinalityType DEF Numbers
    <2>a. Len(Files) \in Nat
      BY <1>0, FilesAre
    <2>1. dir \in [Devs -> DirRecords]
      <3>1. Unborn \in DirRecords
        BY <2>0 DEF Unborn, DirRecords, DirStates
      <3>2. [state |-> "up", number |-> 0, kobj |-> Somewhere, files |-> Len(Files)] \in DirRecords
        BY <1>0, <2>0, <2>a DEF DirRecords, DirStates, Holding
      <3> QED
        BY <3>1, <3>2 DEF Init
    <2>2. index \in [Devs -> Numbers]
      BY <2>0 DEF Init
    <2>3. map \in [0..7 -> [kobj : Addresses \cup {Nobody}, dev : Devs \cup {Nobody}]]
      <3>1. [kobj |-> Nobody, dev |-> Nobody] \in [kobj : Addresses \cup {Nobody}, dev : Devs \cup {Nobody}]
        OBVIOUS
      <3>2. model.there # {} => [kobj |-> Somewhere, dev |-> CHOOSE d \in model.there : TRUE] \in [kobj : Addresses \cup {Nobody}, dev : Devs \cup {Nobody}]
        BY <1>0, OnlyOne
      <3> QED
        BY <3>1, <3>2 DEF Init
    <2> QED
      BY <2>1, <2>2, <2>3 DEF DirTypeOK
  <1>2. TaskTypeOK
    <2>1. Unread \in Readings
      BY DebugAssumption DEF Unread, Readings
    <2> QED
      BY <1>0, <2>1 DEF TaskTypeOK, Init
  <1>3. ChipTypeOK
    <2>1. Rest \in CommandWords
      BY DEF Rest, Code, CommandWords, Params, Codes
    <2>2. [param |-> Whatever, param2 |-> Whatever, commd |-> Rest] \in Mailboxes
      BY <2>1 DEF Mailboxes, Params
    <2> DEFINE host == [c \in Chips |-> [param |-> Whatever, param2 |-> Whatever, commd |-> Rest]]
               throttling == [c \in Chips |-> "Enable"]
               ring == [i \in 0..LogSize - 1 |-> 0]
    <2>3. host \in [Chips -> Mailboxes] /\ throttling \in [Chips -> Throttles] /\ ring \in [0..LogSize - 1 -> Nat]
      BY <2>2 DEF Throttles
    <2>4. Blank \in Content /\ 0 \in 0..LogSize - 1 /\ {} \in SUBSET Range(Words) /\ 0 \in 0..2
      BY DebugAssumption DEF Blank, Content
    <2>5. Chip0 = [host |-> host, throttling |-> throttling,
                   memory |-> Blank, param |-> 0, commd |-> "none", busy |-> FALSE, burn |-> {}, flash |-> Blank,
                   on |-> FALSE, wp |-> 0, rp |-> 0, ring |-> ring, lines |-> 0]
      BY DEF Chip0
    <2> HIDE DEF host, throttling, ring
    <2>6. Chip0 \in ChipRecords
      BY <2>3, <2>4, <2>5 DEF ChipRecords
    <2>7. \A b \in BOOLEAN : [Chip0 EXCEPT !.on = b] \in ChipRecords
      BY <2>6 DEF ChipRecords
    <2>8. chips = [d \in Devs |-> [Chip0 EXCEPT !.on = d \in model.there]]
      BY DEF Init
    <2>9. \A d \in Devs : (d \in model.there) \in BOOLEAN
      OBVIOUS
    <2> QED
      BY <2>7, <2>8, <2>9 DEF ChipTypeOK
  <1>4. past \in Histories /\ counters \in Counts
    <2>1. counters \in Counts
      BY DEF Init, Counts
    <2>2. past = [settled |-> model.there, whole |-> {}, clash |-> FALSE, remote |-> {}, botched |-> FALSE, alone |-> {},
             badpass |-> FALSE, twoDumps |-> FALSE, told |-> [d \in Devs |-> <<>>], blurred |-> FALSE,
             counted |-> counters, reported |-> counters, shows |-> 0]
      BY DEF Init
    <2>3. [d \in Devs |-> <<>>] \in [Devs -> Seq(Nat)] /\ 0 \in Nat /\ {} \in SUBSET Tasks /\ {} \in SUBSET Devs
      OBVIOUS
    <2> QED
      BY <1>0, <2>1, <2>2, <2>3 DEF Histories
  <1>5. disabled \in [Devs -> Throttles]
    BY DEF Init, Throttles
  <1>6. TypeOK
    BY <1>0, <1>1, <1>2, <1>3, <1>4, <1>5 DEF TypeOK
  <1>7. ScriptInv
    BY DEF Init, ScriptInv
  <1>8. DirInv
    <2>1. \A d \in Devs : dir[d].state \in Shown => dir[d].kobj \in Addresses
      BY <1>0 DEF Init, Unborn, Shown
    <2>2. \A n \in 0..7 : map[n].kobj # Nobody => map[n].dev \in Devs
      BY <1>0, OnlyOne DEF Init
    <2> QED
      BY <2>1, <2>2 DEF DirInv
  <1> QED
    BY <1>6, <1>7, <1>8

(* Types, places and directories under every step.                         *)
LEMMA NextBase ==
  ASSUME TypeOK, ScriptInv, DirInv, [Next]_vars
  PROVE  TypeOK' /\ ScriptInv' /\ DirInv'
  <1>1. ASSUME NEW d \in Devs, Directory(d)
        PROVE  TypeOK' /\ ScriptInv' /\ DirInv'
    BY <1>1, DirectoryBase
  <1>2. ASSUME NEW d \in Devs, Firmware(d)
        PROVE  TypeOK' /\ ScriptInv' /\ DirInv'
    BY <1>2, FirmwareBase
  <1>3. ASSUME NEW t \in Tasks, Operation(t)
        PROVE  TypeOK' /\ ScriptInv' /\ DirInv'
    <2>1. CASE Start(t)
      <3>1. TypeOK' /\ ScriptInv'
        BY <2>1, StartTypes
      <3>2. DirInv'
        BY <2>1 DEF Start, DirInv, deviceVars
      <3> QED
        BY <3>1, <3>2
    <2>2. CASE Follow(t)
      BY <2>2, FollowBase
    <2> QED
      BY <1>3, <2>1, <2>2, StartOrFollow
  <1>4. ASSUME NEW c \in {"tx", "rx"}, THROUGHPUT_ADD(c)
        PROVE  TypeOK' /\ ScriptInv' /\ DirInv'
    BY <1>4, CountBase
  <1>5. CASE UNCHANGED vars
    BY <1>5 DEF vars, TypeOK, DirTypeOK, TaskTypeOK, ChipTypeOK, ScriptInv, OnTrack, DirInv
  <1> QED
    BY <1>1, <1>2, <1>3, <1>4, <1>5 DEF Next

(* What the history keeps, and what the chips and the driver do.           *)
LEMMA Kept ==
  ASSUME TypeOK, NEW t \in Tasks, Follow(t)
  PROVE  /\ past'.settled = past.settled /\ past'.botched = past.botched /\ past'.counted = past.counted
         /\ ~Lookup(t) => past'.whole = past.whole
         /\ ~(MailWord(t) \/ memx_send_memxcmd(t)) => past'.clash = past.clash
         /\ ~(MailWord(t) \/ memx_send_memxcmd(t) \/ SetThrottle(t)) => past'.remote = past.remote
         /\ ~(memx_sram_write(t) \/ WriteLost(t)) => past'.alone = past.alone
         /\ ~Report(t) => past'.badpass = past.badpass
         /\ ~LogRead(t) => past'.twoDumps = past.twoDumps
         /\ ~LogPrint(t) => past'.told = past.told
         /\ ~ReadCounter(t) => past'.blurred = past.blurred
         /\ ~PrintCounters(t) => past'.reported = past.reported /\ past'.shows = past.shows
         /\ ~(MailWord(t) \/ memx_send_memxcmd(t) \/ memx_sram_write(t) \/ LogDone(t)) => chips' = chips
         /\ ~SetThrottle(t) => disabled' = disabled
         /\ ~ResetCounter(t) => counters' = counters
         /\ ~(LogRead(t) \/ PollAnswer(t) \/ ReadCounter(t)) => got' = got
  <1>1. past \in Histories
    BY DEF TypeOK
  <1>2. CASE Lookup(t)
    BY <1>1, <1>2 DEF Lookup, Histories
  <1>3. CASE Looks(t) \/ FirmwareFile(t) \/ PollFails(t)
    BY <1>1, <1>3 DEF Looks, FirmwareFile, PollFails
  <1>4. CASE SetThrottle(t) \/ ResetCounter(t) \/ PollAnswer(t) \/ LogDone(t)
    BY <1>1, <1>4 DEF SetThrottle, ResetCounter, PollAnswer, LogDone, Histories
  <1>5. CASE MailWord(t)
    BY <1>1, <1>5 DEF MailWord, Histories
  <1>6. CASE memx_send_memxcmd(t)
    BY <1>1, <1>6 DEF memx_send_memxcmd, Histories
  <1>7. CASE memx_sram_write(t) \/ WriteLost(t)
    BY <1>1, <1>7 DEF memx_sram_write, WriteLost, Histories
  <1>8. CASE Report(t)
    BY SMTT(30), <1>1, <1>8 DEF Report, Histories
  <1>9. CASE LogRead(t) \/ LogPrint(t)
    BY <1>1, <1>9 DEF LogRead, LogPrint, Histories
  <1>10. CASE ReadCounter(t) \/ PrintCounters(t)
    BY <1>1, <1>10 DEF ReadCounter, PrintCounters, Histories
  <1> QED
    BY <1>2, <1>3, <1>4, <1>5, <1>6, <1>7, <1>8, <1>9, <1>10 DEF Follow

-----------------------------------------------------------------------------
(* The device an operation finds                                           *)

(* Objects, numbers and indexes stay apart.                                *)
LEMMA ApartStep ==
  ASSUME TypeOK, OwnInv, NEW d \in Devs, Directory(d)
  PROVE  DirsApart' /\ NumbersApart'
  <1> USE DEF taskVars, Turn, Shown, Holding
  <1>0. dir \in [Devs -> DirRecords] /\ index \in [Devs -> Numbers]
    BY DEF TypeOK, DirTypeOK
  <1>a. dir[d] \in DirRecords /\ DirsApart /\ NumbersApart
    BY <1>0 DEF OwnInv
  <1>b. model' = model /\ \A e \in Devs \ {d} : dir'[e] = dir[e] /\ index'[e] = index[e]
    BY DirectoryTurns
  <1>c. model.bus \in {"pcie", "usb"}
    BY DebugAssumption DEF TypeOK
  <1>1. CASE Insert(d)
    <2>1. index'[d] \notin {index[e] : e \in {f \in Devs : dir[f].state \in Holding}}
      BY <1>0, <1>1, Indexing DEF Insert
    <2>2. dir'[d].state = "inserted" /\ model.bus = "pcie"
      BY <1>0, <1>1 DEF Insert, DirRecords
    <2>3. DirsApart'
      BY <1>a, <1>b, <2>2 DEF DirsApart
    <2>4. NumbersApart'
      BY <1>a, <1>b, <2>1, <2>2 DEF NumbersApart
    <2> QED
      BY <2>3, <2>4
  <1>2. CASE Scan(d)
    <2>1. /\ dir'[d].state = "scanned" /\ (model.bus = "usb" => index'[d] = dir'[d].number)
          /\ model.bus = "pcie" => index' = index /\ dir[d].state = "inserted"
      BY <1>0, <1>2 DEF Scan, DirRecords
    <2>2. DirsApart'
      BY <1>a, <1>b, <2>1 DEF DirsApart
    <2>3. NumbersApart'
      BY <1>a, <1>b, <1>c, <2>1 DEF NumbersApart
    <2> QED
      BY <2>2, <2>3
  <1>3. CASE MakeRoot(d)
    <2>1. /\ dir'[d].kobj \notin {dir[e].kobj : e \in {f \in Devs : dir[f].state \in Shown}}
          /\ dir'[d].number = dir[d].number /\ dir[d].state = "scanned" /\ ~Exists(dir[d].number) /\ index' = index
      BY <1>0, <1>a, <1>3 DEF MakeRoot, DirRecords
    <2>2. DirsApart'
      BY <1>a, <1>b, <2>1 DEF DirsApart
    <2>3. NumbersApart'
      BY <1>a, <1>b, <2>1 DEF NumbersApart, Exists
    <2> QED
      BY <2>2, <2>3
  <1>4. CASE RootFails(d) \/ AddFile(d) \/ FileFails(d) \/ Finish(d) \/ memx_fw_log_init(d) \/ memx_fw_log_deinit(d)
              \/ memx_fs_deinit(d) \/ memx_pcie_remove_device(d)
    <2>1. /\ dir'[d].kobj = dir[d].kobj /\ dir'[d].number = dir[d].number /\ index' = index
          /\ dir'[d].state \in Shown => dir[d].state \in Shown
          /\ dir'[d].state \in Holding => dir[d].state \in Holding
      <3>1. CASE RootFails(d) \/ AddFile(d) \/ FileFails(d)
        BY <1>0, <1>a, <3>1 DEF RootFails, AddFile, FileFails, DirRecords
      <3>2. CASE Finish(d) \/ memx_fw_log_init(d) \/ memx_fw_log_deinit(d)
        BY <1>0, <1>a, <3>2 DEF Finish, memx_fw_log_init, memx_fw_log_deinit, DirRecords
      <3>3. CASE memx_fs_deinit(d) \/ memx_pcie_remove_device(d)
        BY <1>0, <1>a, <3>3 DEF memx_fs_deinit, memx_pcie_remove_device, DirRecords
      <3> QED
        BY <1>4, <3>1, <3>2, <3>3
    <2>2. DirsApart'
      BY <1>a, <1>b, <2>1 DEF DirsApart
    <2>3. NumbersApart'
      BY <1>a, <1>b, <2>1 DEF NumbersApart
    <2> QED
      BY <2>2, <2>3
  <1> QED
    BY <1>1, <1>2, <1>3, <1>4 DEF Directory

(* Two directories that are entered, or about to be, have two indexes.     *)
LEMMA IndexesApart ==
  ASSUME TypeOK, NumbersApart, NEW d \in Devs, NEW e \in Devs, d # e,
         dir[d].state \in Entered \cup {"making"}, dir[e].state \in Entered \cup {"making"}
  PROVE  index[d] # index[e]
  <1>1. model.bus \in {"pcie", "usb"}
    BY DebugAssumption DEF TypeOK
  <1> QED
    BY <1>1 DEF NumbersApart, Entered, Shown, Holding

(* Which directories are settled.                                          *)
LEMMA SettledStep ==
  ASSUME TypeOK, OwnInv, NEW d \in Devs, Directory(d)
  PROVE  /\ SettledAre'
         /\ past'.whole = past.whole
         /\ past'.settled = past.settled \/ (MakeRoot(d) /\ Settled(d) /\ past'.settled = past.settled \cup {d})
  <1>0. dir \in [Devs -> DirRecords] /\ past \in Histories /\ SettledAre /\ dir[d] \in DirRecords
    BY DEF TypeOK, DirTypeOK, OwnInv
  <1>1. CASE MakeRoot(d)
    <2>1. dir'[d].state = "making" /\ \A e \in Devs \ {d} : dir'[e] = dir[e]
      BY <1>0, <1>1 DEF MakeRoot, DirRecords
    <2>2. /\ past'.whole = past.whole
          /\ past'.settled = past.settled \/ (Settled(d) /\ past'.settled = past.settled \cup {d})
      BY <1>0, <1>1 DEF MakeRoot, Histories
    <2>3. past.settled \subseteq Devs
      BY <1>0 DEF Histories
    <2> QED
      BY <1>0, <1>1, <2>1, <2>2, <2>3 DEF SettledAre
  <1>2. CASE ~MakeRoot(d)
    <2>1. past' = past
      BY <1>2 DEF Directory, Insert, Scan, RootFails, AddFile, FileFails, Finish, memx_fw_log_init, memx_fw_log_deinit, memx_fs_deinit, memx_pcie_remove_device
    <2>2. past.settled \subseteq Devs /\ \A e \in Devs \ {d} : dir'[e] = dir[e]
      BY <1>0, DirectoryTurns DEF Histories
    <2>3. dir[d].state \notin {"unborn", "inserted", "scanned"} => dir'[d].state \notin {"unborn", "inserted", "scanned"}
      <3> USE DEF Turn, Comes
      <3>1. CASE Insert(d) \/ Scan(d) \/ RootFails(d) \/ AddFile(d) \/ FileFails(d)
        BY <1>0, <3>1 DEF Insert, Scan, RootFails, AddFile, FileFails, DirRecords
      <3>2. CASE Finish(d) \/ memx_fw_log_init(d) \/ memx_fw_log_deinit(d)
        BY <1>0, <3>2 DEF Finish, memx_fw_log_init, memx_fw_log_deinit, DirRecords
      <3>3. CASE memx_fs_deinit(d) \/ memx_pcie_remove_device(d)
        BY <1>0, <3>3 DEF memx_fs_deinit, memx_pcie_remove_device, DirRecords
      <3> QED
        BY <1>2, <3>1, <3>2, <3>3 DEF Directory
    <2> QED
      BY <1>0, <2>1, <2>2, <2>3 DEF SettledAre
  <1> QED
    BY <1>1, <1>2

(* What is entered for a directory stays until the directory has gone.     *)
LEMMA EntriesStep ==
  ASSUME TypeOK, OwnInv, NEW d \in Devs, Directory(d)
  PROVE  EntriesAgree'
  <1>0. /\ dir \in [Devs -> DirRecords] /\ dir[d] \in DirRecords /\ index \in [Devs -> Numbers] /\ Numbers \subseteq Nat
        /\ past \in Histories /\ past.settled \subseteq Devs /\ SettledAre
        /\ DirsApart /\ NumbersApart /\ EntriesAgree
        /\ DOMAIN map = 0..7
    <2>1. Numbers \subseteq Nat
      BY DebugAssumption, FS_CardinalityType DEF Numbers
    <2> QED
      BY <2>1 DEF TypeOK, DirTypeOK, OwnInv, Histories
  <1>1. /\ model' = model
        /\ \A e \in Devs \ {d} : dir'[e] = dir[e] /\ index'[e] = index[e]
        /\ ~MakeRoot(d) => dir'[d].kobj = dir[d].kobj
        /\ \A n \in 0..7 : map'[n] # map[n] => model.type = "sys" /\ Finish(d) /\ n = index[d] /\ map'[n] = [kobj |-> dir[d].kobj, dev |-> d]
    BY DirectoryTurns
  <1>2. past'.settled = past.settled \/ (MakeRoot(d) /\ Settled(d) /\ past'.settled = past.settled \cup {d})
    BY SettledStep
  <1> SUFFICES ASSUME model.type = "sys"
               PROVE  /\ \A e \in Devs : dir'[e].state \in Entered /\ index'[e] \in 0..7 => map'[index'[e]] = [kobj |-> dir'[e].kobj, dev |-> e]
                      /\ \A e \in past'.settled : dir'[e].state \in Entered \cup {"making"} =>
                           \A n \in 0..7 : n < index'[e] => map'[n].kobj # dir'[e].kobj
    BY <1>1 DEF EntriesAgree
  <1>3. CASE MakeRoot(d)
    <2>1. /\ dir'[d].state = "making" /\ dir[d].state = "scanned" /\ index' = index /\ map' = map
          /\ dir'[d].kobj \notin {dir[e].kobj : e \in {f \in Devs : dir[f].state \in Shown}}
      BY <1>0, <1>3 DEF MakeRoot, DirRecords
    <2>2. d \notin past.settled
      BY <1>0, <2>1 DEF SettledAre
    <2>3. ASSUME Settled(d), NEW n \in 0..7, n < index[d]
          PROVE  map[n].kobj # dir'[d].kobj
      <3>0. index[d] \in Nat
        BY <1>0
      <3>1. n \in 0..index[d] - 1
        BY <2>3, <3>0
      <3>2. PICK e \in Devs : dir[e].state = "up" /\ index[e] = n
        BY <2>3, <3>1 DEF Settled
      <3>3. map[n] = [kobj |-> dir[e].kobj, dev |-> e]
        BY <1>0, <3>2 DEF EntriesAgree, Entered
      <3>4. dir[e].state \in Shown
        BY <3>2 DEF Shown
      <3> QED
        BY <2>1, <3>3, <3>4
    <2>4. \A e \in Devs : dir'[e].state \in Entered /\ index'[e] \in 0..7 => map'[index'[e]] = [kobj |-> dir'[e].kobj, dev |-> e]
      BY <1>0, <1>1, <2>1 DEF EntriesAgree, Entered
    <2>5. ASSUME NEW e \in past'.settled, dir'[e].state \in Entered \cup {"making"}, NEW n \in 0..7, n < index'[e]
          PROVE  map'[n].kobj # dir'[e].kobj
      <3>1. CASE e = d
        BY <1>2, <2>1, <2>2, <2>3, <2>5, <3>1
      <3>2. CASE e # d
        BY <1>0, <1>1, <1>2, <2>1, <2>5, <3>2 DEF EntriesAgree
      <3> QED
        BY <3>1, <3>2
    <2> QED
      BY <2>4, <2>5
  <1>4. CASE Finish(d)
    <2>1. /\ dir[d].state = "making" /\ dir'[d].state \in Entered /\ dir'[d].kobj = dir[d].kobj /\ index' = index /\ past' = past
          /\ map' = [map EXCEPT ![index[d]] = [kobj |-> dir[d].kobj, dev |-> d]]
      BY <1>0, <1>4 DEF Finish, Turn, DirRecords, Entry, Entered
    <2>2. ASSUME NEW e \in Devs, dir'[e].state \in Entered, index'[e] \in 0..7
          PROVE  map'[index'[e]] = [kobj |-> dir'[e].kobj, dev |-> e]
      <3>1. CASE e = d
        BY <1>0, <2>1, <2>2, <3>1
      <3>2. CASE e # d
        <4>1. dir[e].state \in Entered /\ dir'[e] = dir[e]
          BY <1>1, <2>2, <3>2
        <4>2. index[e] # index[d]
          BY <1>0, <2>1, <3>2, <4>1, IndexesApart
        <4> QED
          BY <1>0, <2>1, <2>2, <4>1, <4>2 DEF EntriesAgree
      <3> QED
        BY <3>1, <3>2
    <2>3. ASSUME NEW e \in past'.settled, dir'[e].state \in Entered \cup {"making"}, NEW n \in 0..7, n < index'[e]
          PROVE  map'[n].kobj # dir'[e].kobj
      <3>0. e \in Devs /\ e \in past.settled /\ index[e] \in Nat /\ index[d] \in Nat
        BY <1>0, <2>1, <2>3
      <3>1. CASE e = d
        <4>1. n # index[d] /\ map'[n] = map[n] /\ dir[d].state \in Entered \cup {"making"}
          BY <1>0, <2>1, <2>3, <3>0, <3>1
        <4> QED
          BY <1>0, <2>1, <2>3, <3>0, <3>1, <4>1 DEF EntriesAgree
      <3>2. CASE e # d /\ n # index[d]
        BY <1>0, <1>1, <2>1, <2>3, <3>0, <3>2 DEF EntriesAgree
      <3>3. CASE e # d /\ n = index[d]
        <4>1. dir[e].state \in Shown /\ dir[d].state \in Shown /\ dir'[e] = dir[e]
          BY <1>1, <2>1, <2>3, <3>0, <3>3 DEF Shown, Entered
        <4>2. map'[n].kobj = dir[d].kobj
          BY <1>0, <2>1, <3>3
        <4> QED
          BY <1>0, <3>0, <3>3, <4>1, <4>2 DEF DirsApart
      <3> QED
        BY <3>1, <3>2, <3>3
    <2> QED
      BY <2>2, <2>3
  <1>5. CASE ~MakeRoot(d) /\ ~Finish(d)
    <2>1. /\ dir'[d].state \in Entered => dir[d].state \in Entered /\ index'[d] = index[d]
          /\ dir'[d].state = "making" => dir[d].state = "making" /\ index'[d] = index[d]
      <3> USE DEF Turn, Comes, Entered
      <3>1. CASE Insert(d) \/ Scan(d) \/ RootFails(d) \/ AddFile(d) \/ FileFails(d)
        BY <1>0, <3>1 DEF Insert, Scan, RootFails, AddFile, FileFails, DirRecords
      <3>2. CASE memx_fw_log_init(d) \/ memx_fw_log_deinit(d)
        BY <1>0, <3>2 DEF memx_fw_log_init, memx_fw_log_deinit, DirRecords
      <3>3. CASE memx_fs_deinit(d) \/ memx_pcie_remove_device(d)
        BY <1>0, <3>3 DEF memx_fs_deinit, memx_pcie_remove_device, DirRecords
      <3> QED
        BY <1>5, <3>1, <3>2, <3>3 DEF Directory
    <2>2. \A n \in 0..7 : map'[n] = map[n]
      BY <1>1, <1>5
    <2>3. \A e \in Devs : dir'[e].kobj = dir[e].kobj /\ (dir'[e].state \in Entered => dir[e].state \in Entered /\ index'[e] = index[e])
                          /\ (dir'[e].state = "making" => dir[e].state = "making" /\ index'[e] = index[e])
      BY <1>1, <1>5, <2>1
    <2> QED
      BY <1>0, <1>2, <1>5, <2>2, <2>3 DEF EntriesAgree
  <1> QED
    BY <1>3, <1>4, <1>5

LEMMA OwnInit ==
  ASSUME Init
  PROVE  OwnInv
  <1>1. model \in Scenarios /\ model.there \subseteq Devs
    BY DebugAssumption DEF Init
  <1>2. \A d, e \in model.there : d = e
    BY <1>1, OnlyOne
  <1>3. ASSUME NEW d \in model.there
        PROVE  map[0] = [kobj |-> Somewhere, dev |-> d] /\ index[d] = 0 /\ dir[d].kobj = Somewhere /\ dir[d].state = "up"
    BY <1>1, <1>3, OnlyOne DEF Init
  <1>4. \A d \in Devs \ model.there : dir[d].state = "unborn"
    BY DEF Init, Unborn
  <1>5. \A d \in Devs : index[d] = 0 /\ dir[d].number = 0
    BY DEF Init, Unborn
  <1>6. past.settled = model.there /\ past.whole = {}
    BY DEF Init
  <1>7. DirsApart /\ NumbersApart
    BY <1>2, <1>4, <1>5 DEF DirsApart, NumbersApart, Shown, Holding
  <1>8. EntriesAgree
    <2>1. ASSUME NEW d \in Devs, dir[d].state \in Entered \cup {"making"}
          PROVE  d \in model.there
      BY <1>4, <2>1 DEF Entered
    <2>2. \A d \in Devs : dir[d].state \in Entered => map[index[d]] = [kobj |-> dir[d].kobj, dev |-> d]
      BY <1>3, <2>1
    <2>3. \A d \in past.settled, n \in 0..7 : ~(n < index[d])
      BY <1>1, <1>5, <1>6
    <2> QED
      BY <2>2, <2>3 DEF EntriesAgree
  <1>9. SettledAre
    BY <1>3, <1>6 DEF SettledAre
  <1> QED
    BY <1>6, <1>7, <1>8, <1>9 DEF OwnInv

(* After it has found its device an operation does not look for it again.  *)
LEMMA NoMoreFinds ==
  ASSUME TypeOK, ScriptInv, NEW t \in Tasks, todo[t] # <<>>, todo[t] # <<Fault>>, Tail(todo[t]) # <<>>
  PROVE  Head(Tail(todo[t])) # Find
  <1> DEFINE s == Tail(todo[t])
             e == Section(model, op[t].call)
  <1>1. /\ e \in Seq(Steps) /\ Len(e) \in Nat /\ s \in Seq(Steps) /\ Aligned(model, s, e) /\ Kinds(op[t].call, e)
        /\ s # <<>> /\ Len(s) > Len(e) => Head(s) # Find
    BY Standing
  <1> HIDE DEF s, e
  <1>2. s # <<>>
    BY DEF s
  <1>3. CASE Len(s) <= Len(e)
    <2>1. Head(s) = e[Len(e) + 1 - Len(s)] /\ Len(s) \in Nat /\ Len(s) > 0
      BY <1>1, <1>2, <1>3, AlignedHead, LengthOf
    <2> DEFINE k == Len(e) + 1 - Len(s)
    <2>2. k \in 1..Len(e) /\ Head(s) = e[k]
      BY <1>1, <1>3, <2>1
    <2> HIDE DEF k
    <2>3. e[k].do # "find"
      BY <1>1, <2>2 DEF Kinds, Kind
    <2> QED
      BY <2>2, <2>3 DEF s, Find
  <1>4. CASE ~(Len(s) <= Len(e))
    <2>1. Len(s) \in Nat
      BY <1>1, <1>2, LengthOf
    <2> QED
      BY <1>1, <1>2, <1>4, <2>1 DEF s
  <1> QED
    BY <1>3, <1>4

(* An operation works on the device of its directory, if that was settled. *)
LEMMA OwnStep ==
  ASSUME TypeOK, ScriptInv, DirInv, OwnInv, [Next]_vars
  PROVE  OwnInv'
  <1> USE DEF taskVars, deviceVars
  <1>0. past \in Histories /\ todo \in [Tasks -> Seq(Steps)] /\ found \in [Tasks -> Devs \cup {Nobody}] /\ DOMAIN op = Tasks
    BY DEF TypeOK, TaskTypeOK
  <1>a. ASSUME UNCHANGED <<model, dir, index, map>>, past'.settled = past.settled
        PROVE  (DirsApart /\ NumbersApart /\ EntriesAgree /\ SettledAre)'
    BY <1>a DEF OwnInv, DirsApart, NumbersApart, EntriesAgree, SettledAre
  <1>1. ASSUME NEW d \in Devs, Directory(d)
        PROVE  OwnInv'
    <2>1. UNCHANGED taskVars /\ past'.whole = past.whole
      BY Zenon, <1>1, DirectoryTurns, SettledStep
    <2> QED
      BY <1>1, <2>1, ApartStep, EntriesStep, SettledStep DEF OwnInv
  <1>2. ASSUME NEW d \in Devs, Firmware(d)
        PROVE  OwnInv'
    <2>1. UNCHANGED <<model, deviceVars, taskVars>> /\ past'.settled = past.settled /\ past'.whole = past.whole
      BY Zenon, <1>0, <1>2 DEF Firmware, FwTake, FwBurn, FwAnswer, FwLog, FwWord, Histories
    <2> QED
      BY <1>a, <2>1 DEF OwnInv
  <1>3. ASSUME NEW c \in {"tx", "rx"}, THROUGHPUT_ADD(c)
        PROVE  OwnInv'
    <2>1. UNCHANGED <<model, deviceVars, taskVars>> /\ past'.settled = past.settled /\ past'.whole = past.whole
      BY <1>0, <1>3 DEF THROUGHPUT_ADD, Histories
    <2> QED
      BY <1>a, <2>1 DEF OwnInv
  <1>4. ASSUME NEW t \in Tasks, Start(t)
        PROVE  OwnInv'
    <2>1. UNCHANGED <<model, dir, index, map>> /\ past'.settled = past.settled /\ past'.whole = past.whole \ {t}
      BY <1>0, <1>4 DEF Start, Histories
    <2>2. \A u \in Tasks \ {t} : op'[u] = op[u] /\ todo'[u] = todo[u] /\ found'[u] = found[u]
      BY <1>0, <1>4 DEF Start
    <2>3. past.whole \subseteq Tasks
      BY <1>0 DEF Histories
    <2> QED
      BY <1>a, <2>1, <2>2, <2>3 DEF OwnInv
  <1>5. ASSUME NEW t \in Tasks, Follow(t), ~Lookup(t)
        PROVE  OwnInv'
    <2>1. UNCHANGED <<model, dir, index, map, op, found>> /\ past'.settled = past.settled /\ past'.whole = past.whole
      BY <1>5, Followed, Kept
    <2>2. /\ todo[t] # <<>> /\ todo[t] # <<Fault>> /\ todo'[t] \in {<<>>, Tail(todo[t])}
          /\ \A u \in Tasks \ {t} : todo'[u] = todo[u]
      <3>1. todo[t] # <<>> /\ Now(t).do # "fault" /\ todo'[t] \in {<<>>, Tail(todo[t])}
            /\ \A u \in Tasks \ {t} : todo'[u] = todo[u]
        BY <1>5, Followed
      <3>2. todo[t] = <<Fault>> => Now(t).do = "fault"
        BY DEF Now, Fault
      <3> QED
        BY <3>1, <3>2
    <2>3. todo'[t] # <<>> => Head(todo'[t]) # Find
      BY <2>2, NoMoreFinds
    <2>4. past.whole \subseteq Tasks
      BY <1>0 DEF Histories
    <2> QED
      BY <1>a, <2>1, <2>2, <2>3, <2>4 DEF OwnInv
  <1>6. ASSUME NEW t \in Tasks, Lookup(t)
        PROVE  OwnInv'
    <2> DEFINE d == op[t].dev
               at == {n \in DOMAIN map : map[n].kobj = dir[d].kobj}
    <2>1. /\ found' = [found EXCEPT ![t] = IF at = {} THEN Nobody ELSE map[Min(at)].dev]
          /\ at # {} => Advance(t)
          /\ UNCHANGED <<model, dir, index, map, op>>
          /\ past'.settled = past.settled
          /\ past'.whole = IF /\ dir[d].state \in {"made", "up", "closing"}
                              /\ d \in past.settled /\ index[d] \in DOMAIN map
                           THEN past.whole \cup {t} ELSE past.whole
      BY <1>0, <1>6 DEF Lookup, Histories
    <2>2. Doing(t, "find")
      BY <1>6 DEF Lookup
    <2>3. model.type = "sys" /\ todo[t] # <<>> /\ todo[t] # <<Fault>> /\ Now(t) = Find
      BY <2>2, FindsInSys
    <2>4. t \notin past.whole
      BY <2>3 DEF OwnInv, Now
    <2>5. DOMAIN map = 0..7 /\ past.whole \subseteq Tasks /\ d \in Devs /\ index[d] \in Nat
      <3>1. d \in Devs
        BY <2>3, Standing
      <3>2. Numbers \subseteq Nat
        BY DebugAssumption, FS_CardinalityType DEF Numbers
      <3> QED
        BY <1>0, <3>1, <3>2 DEF TypeOK, DirTypeOK, Histories
    <2>6. ASSUME dir[d].state \in {"made", "up", "closing"}, d \in past.settled, index[d] \in DOMAIN map
          PROVE  at # {} /\ found'[t] = d
      <3>1. map[index[d]] = [kobj |-> dir[d].kobj, dev |-> d]
        BY <2>3, <2>5, <2>6 DEF OwnInv, EntriesAgree, Entered
      <3>2. index[d] \in at /\ at \in SUBSET Nat
        BY <2>5, <2>6, <3>1
      <3>3. Min(at) \in at /\ Min(at) <= index[d]
        BY <3>2, LeastIsThere
      <3>4. \A n \in 0..7 : n < index[d] => map[n].kobj # dir[d].kobj
        BY SMTT(30), <2>3, <2>6 DEF OwnInv, EntriesAgree, Entered
      <3>5. Min(at) \in 0..7 /\ map[Min(at)].kobj = dir[d].kobj
        BY ZenonT(60), <2>5, <3>3
      <3> DEFINE least == Min(at)
      <3>a. least \in 0..7 /\ map[least].kobj = dir[d].kobj /\ least <= index[d] /\ index[d] \in Nat
        BY ZenonT(60), <2>5, <3>3, <3>5
      <3>b. at # {} /\ found' = [found EXCEPT ![t] = map[least].dev]
        BY <2>1, <3>2
      <3> HIDE DEF at, d, least
      <3>6. least = index[d]
        BY <3>4, <3>a
      <3>7. map[least].dev = d
        BY <3>1, <3>6
      <3> QED
        BY <1>0, <3>7, <3>b
    <2>7. \A u \in Tasks \ {t} : todo'[u] = todo[u] /\ found'[u] = found[u]
      BY <1>6, Followed DEF Follow
    <2>8. at # {} => (todo'[t] # <<>> => Head(todo'[t]) # Find)
      BY <1>0, <2>1, <2>3, NoMoreFinds DEF Advance
    <2> HIDE DEF at
    <2>9. \A u \in past'.whole : found'[u] = op'[u].dev /\ (todo'[u] # <<>> => Head(todo'[u]) # Find)
      BY <2>1, <2>4, <2>5, <2>6, <2>7, <2>8 DEF OwnInv
    <2> QED
      BY <1>a, <2>1, <2>9 DEF OwnInv
  <1>7. CASE UNCHANGED vars
    BY <1>a, <1>7 DEF vars, OwnInv
  <1> QED
    BY <1>1, <1>2, <1>3, <1>4, <1>5, <1>6, <1>7, StartOrFollow DEF Next, Follow

-----------------------------------------------------------------------------
(* Where a step leaves a task, and what it leaves alone of the chips       *)

(* An operation within its section is at the step its remaining length     *)
(* tells.                                                                  *)
LEMMA AtStep ==
  ASSUME TypeOK, ScriptInv, NEW t \in Tasks, Inner(t)
  PROVE  LET e == Section(model, op[t].call)
             k == Len(e) + 1 - Len(todo[t])
         IN  /\ Now(t) = e[k] /\ k \in 1..Len(e) /\ Kind(op[t].call, e, k) /\ Doing(t, Now(t).do)
             /\ Len(todo[t]) \in Nat /\ Len(todo[t]) > 0 /\ Len(todo[t]) <= Len(e) /\ Len(e) \in Nat
             /\ Now(t) \in Steps /\ op[t].call \in Calls /\ e \in Seq(Steps) /\ Kinds(op[t].call, e)
             /\ op[t].call.file # "throughput" => found[t] \in Devs
  <1> DEFINE e == Section(model, op[t].call)
             k == Len(e) + 1 - Len(todo[t])
  <1>1. todo[t] # <<>> /\ todo[t] # <<Fault>> /\ Len(todo[t]) <= Len(e)
    BY DEF Inner
  <1>2. /\ op[t].call \in Calls /\ e \in Seq(Steps) /\ Len(e) \in Nat /\ Len(todo[t]) \in Nat /\ Len(todo[t]) > 0 /\ Kinds(op[t].call, e)
        /\ Now(t) = e[k] /\ k \in 1..Len(e) /\ Now(t) \in Steps
    BY <1>1, Standing
  <1>3. Doing(t, Now(t).do)
    BY <1>1 DEF Doing, Now
  <1> HIDE DEF k
  <1>4. Kind(op[t].call, e, k)
    BY <1>2 DEF Kinds
  <1>5. op[t].call.file # "throughput" => found[t] \in Devs
    <2>1. OnTrack(t) /\ Head(todo[t]).do # "find" /\ e # <<>>
      BY <1>1, <1>2, <1>4 DEF ScriptInv, Now, Kind
    <2>2. Head(todo[t]) # Find
      BY <2>1 DEF Find
    <2> QED
      BY <1>1, <2>1, <2>2 DEF OnTrack
  <1> QED
    BY <1>1, <1>2, <1>3, <1>4, <1>5 DEF k

(* A step of one operation leaves the others where they are.               *)
LEMMA OthersStay ==
  ASSUME TypeOK, NEW t \in Tasks, Operation(t), NEW u \in Tasks \ {t}
  PROVE  /\ todo'[u] = todo[u] /\ op'[u] = op[u] /\ found'[u] = found[u] /\ got'[u] = got[u] /\ model' = model
         /\ Inner(u)' <=> Inner(u)
         /\ \A files, most : Begun(u, files, most)' <=> Begun(u, files, most)
  <1>1. todo'[u] = todo[u] /\ op'[u] = op[u] /\ found'[u] = found[u] /\ got'[u] = got[u] /\ model' = model
    <2>1. CASE Start(t)
      BY <2>1 DEF Start, TypeOK, TaskTypeOK
    <2>2. CASE Follow(t)
      BY <2>2, Followed
    <2> QED
      BY <2>1, <2>2, StartOrFollow
  <1>2. Inner(u)' <=> Inner(u)
    BY <1>1 DEF Inner
  <1> QED
    BY <1>1, <1>2 DEF Begun

(* A task enters its section at the first step or is one further.          *)
LEMMA Arrives ==
  ASSUME TypeOK, ScriptInv, DirInv, NEW t \in Tasks, Operation(t), Inner(t)'
  PROVE  \/ /\ Len(todo'[t]) = Len(Section(model', op'[t].call)) /\ Len(todo'[t]) > 0
            /\ Start(t) \/ Now(t).do \in {"find", "look", "maybe", "request", "check"}
         \/ /\ Inner(t) /\ Follow(t) /\ ~Lookup(t) /\ todo'[t] = Tail(todo[t]) /\ Len(todo'[t]) = Len(todo[t]) - 1 /\ Len(todo'[t]) > 0
            /\ op' = op /\ found' = found /\ model' = model
  <1> DEFINE e == Section(model', op'[t].call)
  <1>0. todo'[t] # <<>> /\ todo'[t] # <<Fault>> /\ Len(todo'[t]) <= Len(e)
    BY DEF Inner, Fault
  <1>a. TypeOK' /\ ScriptInv'
    BY NextBase DEF Next
  <1>b. Len(todo'[t]) \in Nat /\ Len(todo'[t]) > 0
    <2>1. todo'[t] \in Seq(Steps)
      BY <1>a DEF TypeOK, TaskTypeOK
    <2> QED
      BY <1>0, <2>1, LengthOf
  <1>1. CASE Start(t)
    <2>1. /\ todo'[t] = Script(Head(left[t])) /\ op'[t].call = Head(left[t]) /\ model' = model /\ left[t] # <<>>
      BY <1>1 DEF Start, TypeOK, TaskTypeOK
    <2>2. Head(left[t]) \in Calls /\ model \in Scenarios
      <3>1. left[t] \in Seq(Calls)
        BY DEF TypeOK, TaskTypeOK
      <3> QED
        BY <2>1, <3>1, LengthOf DEF TypeOK
    <2>3. Len(Script(Head(left[t]))) >= Len(Section(model, Head(left[t]))) /\ Len(Section(model, Head(left[t]))) \in Nat
      BY <2>2, ScriptIs
    <2> QED
      BY <1>0, <1>1, <1>b, <2>1, <2>3
  <1>2. CASE Follow(t)
    <2>1. /\ todo[t] # <<>> /\ UNCHANGED <<model, op>> /\ Now(t).do # "fault"
          /\ Now(t).do # "find" => ~Lookup(t) /\ found' = found /\ todo'[t] \in {<<>>, Tail(todo[t])}
          /\ Now(t).do = "find" => Lookup(t)
      BY <1>2, Followed
    <2>2. todo[t] # <<Fault>>
      BY <2>1 DEF Now, Fault
    <2>3. todo'[t] = Tail(todo[t])
      <3>1. CASE Now(t).do = "find"
        <4>1. todo'[t] \in {Tail(todo[t]), <<>>, <<Fault>>}
          BY <2>1, <3>1 DEF Lookup, Advance, Fault, TypeOK, TaskTypeOK
        <4> QED
          BY <1>0, <4>1
      <3>2. CASE Now(t).do # "find"
        BY <1>0, <2>1, <3>2
      <3> QED
        BY <3>1, <3>2
    <2>4. /\ Len(Tail(todo[t])) = Len(todo[t]) - 1 /\ Len(todo[t]) \in Nat /\ Len(e) \in Nat
          /\ ~(Len(todo[t]) <= Len(e)) => Now(t) \in Calm \/ Now(t) = Find
          /\ Len(todo[t]) <= Len(e) => Now(t) = e[Len(e) + 1 - Len(todo[t])] /\ Len(e) + 1 - Len(todo[t]) \in 1..Len(e) /\ Kinds(op[t].call, e)
      BY <2>1, <2>2, Standing
    <2>5. CASE Len(todo[t]) <= Len(e)
      <3>1. Inner(t)
        BY <2>1, <2>2, <2>5 DEF Inner
      <3>2. Now(t).do # "find"
        BY <3>1, AtStep DEF Kind
      <3> QED
        BY <1>2, <1>b, <2>1, <2>3, <2>4, <3>1, <3>2
    <2>6. CASE ~(Len(todo[t]) <= Len(e))
      <3>1. Now(t).do \in {"find", "look", "maybe", "request", "check"}
        BY <2>4, <2>6 DEF Calm, Find, Look, Maybe, Request, Check
      <3>2. Len(todo'[t]) = Len(e)
        BY <1>0, <1>b, <2>3, <2>4, <2>6
      <3> QED
        BY <1>b, <3>1, <3>2
    <2> QED
      BY <2>5, <2>6
  <1> QED
    BY <1>1, <1>2, StartOrFollow

(* Which action takes which step.                                          *)
LEMMA Acts ==
  ASSUME NEW t \in Tasks, Follow(t)
  PROVE  /\ MailWord(t) <=> Now(t).do = "mail"
         /\ memx_send_memxcmd(t) <=> Now(t).do = "send"
         /\ SetThrottle(t) <=> Now(t).do = "throttle"
         /\ memx_sram_write(t) \/ WriteLost(t) <=> Now(t).do \in {"word", "sram"}
         /\ PollAnswer(t) \/ PollFails(t) <=> Now(t).do = "poll"
         /\ Report(t) <=> Now(t).do = "verdict"
         /\ LogRead(t) <=> Now(t).do = "log" /\ Now(t).part \in {"wp", "rp", "copy", "all"}
         /\ LogPrint(t) <=> Now(t).do = "log" /\ Now(t).part = "print"
         /\ LogDone(t) <=> Now(t).do = "log" /\ Now(t).part = "done"
         /\ ReadCounter(t) <=> Now(t).do = "read"
         /\ PrintCounters(t) <=> Now(t).do = "print"
         /\ ResetCounter(t) <=> Now(t).do = "reset"
  BY Zenon DEF Follow, Doing, Now, Lookup, Looks, MailWord, memx_send_memxcmd, SetThrottle, FirmwareFile, memx_sram_write, WriteLost, PollAnswer, PollFails, Report,
       LogRead, LogPrint, LogDone, ReadCounter, PrintCounters, ResetCounter

(* What an operation leaves of a chip.                                     *)
LEMMA ChipKept ==
  ASSUME TypeOK, ScriptInv, NEW t \in Tasks, Follow(t), NEW d \in Devs
  PROVE  /\ d # found[t] => chips'[d] = chips[d]
         /\ ~MailWord(t) => chips'[d].host = chips[d].host
         /\ ~memx_send_memxcmd(t) => chips'[d].throttling = chips[d].throttling
         /\ ~memx_sram_write(t) => chips'[d].memory = chips[d].memory /\ chips'[d].param = chips[d].param /\ chips'[d].commd = chips[d].commd
         /\ chips'[d].busy = chips[d].busy /\ chips'[d].burn = chips[d].burn /\ chips'[d].flash = chips[d].flash
         /\ chips'[d].on = chips[d].on /\ chips'[d].wp = chips[d].wp /\ chips'[d].ring = chips[d].ring /\ chips'[d].lines = chips[d].lines
         /\ ~LogDone(t) => chips'[d].rp = chips[d].rp
  <1>0. ChipTypeOK /\ chips \in [Devs -> ChipRecords] /\ chips[d] \in ChipRecords
    BY DEF TypeOK, ChipTypeOK
  <1>1. CASE ~(MailWord(t) \/ memx_send_memxcmd(t) \/ memx_sram_write(t) \/ LogDone(t))
    BY <1>1, Kept
  <1>2. CASE MailWord(t)
    <2>1. chips' = [chips EXCEPT ![found[t]].host[Now(t).chip][Now(t).reg] = Now(t).val]
      BY <1>2 DEF MailWord
    <2>2. ~memx_send_memxcmd(t) /\ ~memx_sram_write(t) /\ ~LogDone(t)
      BY <1>2 DEF MailWord, memx_send_memxcmd, memx_sram_write, LogDone, Doing
    <2> QED
      BY <1>0, <1>2, <2>1, <2>2 DEF ChipRecords
  <1>3. CASE memx_send_memxcmd(t)
    <2>1. ~MailWord(t) /\ ~memx_sram_write(t) /\ ~LogDone(t) /\ Doing(t, "send")
      BY <1>3 DEF MailWord, memx_send_memxcmd, memx_sram_write, LogDone, Doing
    <2>2. chips' = chips \/ chips' = Does(found[t], Now(t).chip, Now(t).val.code, Now(t).val.param)
      BY <1>3 DEF memx_send_memxcmd
    <2>3. found[t] \in Devs /\ Now(t).chip \in Chips
      BY <2>1, AtDevice, StepFields DEF Doing, Now
    <2>4. CASE chips' = chips
      BY <1>3, <2>1, <2>4
    <2>5. CASE chips' # chips
      <3>1. PICK k \in ChipRecords :
              /\ chips' = [chips EXCEPT ![found[t]] = k]
              /\ \/ k = chips[found[t]]
                 \/ k = [chips[found[t]] EXCEPT !.throttling[Now(t).chip] = Now(t).val.param]
        BY <1>0, <2>2, <2>3, <2>5, DoesIs
      <3>2. CASE k = chips[found[t]]
        BY SMTT(30), <1>0, <2>5, <3>1, <3>2
      <3>3. CASE k = [chips[found[t]] EXCEPT !.throttling[Now(t).chip] = Now(t).val.param]
        BY <1>0, <1>3, <2>1, <2>3, <3>1, <3>3 DEF ChipRecords
      <3> QED
        BY <3>1, <3>2, <3>3
    <2> QED
      BY <2>4, <2>5
  <1>4. CASE memx_sram_write(t)
    <2>1. ~MailWord(t) /\ ~memx_send_memxcmd(t) /\ ~LogDone(t) /\ Doing(t, Now(t).do) /\ Now(t).do \in {"word", "sram"}
      BY Zenon, <1>4 DEF MailWord, memx_send_memxcmd, memx_sram_write, LogDone, Doing, Now
    <2>2. Now(t).do = "sram" => Now(t).reg \in {"param", "commd"}
      BY <2>1, AtDevice, StepFields
    <2>3. \/ chips' = [chips EXCEPT ![found[t]].memory[Now(t).i] = op[t].call.val]
          \/ Now(t).do = "sram" /\ chips' = [chips EXCEPT ![found[t]][Now(t).reg] = Now(t).val]
      BY <1>4, <2>1 DEF memx_sram_write, Doing, Now
    <2>4. CASE chips' = [chips EXCEPT ![found[t]].memory[Now(t).i] = op[t].call.val]
      BY <1>0, <1>4, <2>1, <2>4 DEF ChipRecords
    <2>5. CASE Now(t).reg = "param" /\ chips' = [chips EXCEPT ![found[t]][Now(t).reg] = Now(t).val]
      BY <1>0, <1>4, <2>1, <2>5 DEF ChipRecords
    <2>6. CASE Now(t).reg = "commd" /\ chips' = [chips EXCEPT ![found[t]][Now(t).reg] = Now(t).val]
      BY <1>0, <1>4, <2>1, <2>6 DEF ChipRecords
    <2> QED
      BY <2>2, <2>3, <2>4, <2>5, <2>6
  <1>5. CASE LogDone(t)
    <2>1. ~MailWord(t) /\ ~memx_send_memxcmd(t) /\ ~memx_sram_write(t)
      BY <1>5 DEF MailWord, memx_send_memxcmd, memx_sram_write, LogDone, Doing
    <2>2. chips' = [chips EXCEPT ![found[t]].rp = got[t].wp]
      BY <1>5 DEF LogDone
    <2> QED
      BY <1>0, <1>5, <2>1, <2>2 DEF ChipRecords
  <1> QED
    BY <1>1, <1>2, <1>3, <1>4, <1>5

(* And what the firmware does.                                             *)
LEMMA FirmwareKeeps ==
  ASSUME TypeOK, NEW d \in Devs, Firmware(d), NEW x \in Devs
  PROVE  /\ UNCHANGED <<model, deviceVars, taskVars, disabled, counters>>
         /\ x # d => chips'[x] = chips[x]
         /\ chips'[x].memory = chips[x].memory /\ chips'[x].on = chips[x].on /\ chips'[x].rp = chips[x].rp
         /\ ~(\E c \in Chips : FwTake(d, c)) => chips'[x].host = chips[x].host /\ chips'[x].throttling = chips[x].throttling /\ past' = past
         /\ ~FwLog(d) => chips'[x].wp = chips[x].wp /\ chips'[x].ring = chips[x].ring /\ chips'[x].lines = chips[x].lines
         /\ (\E c \in Chips : FwTake(d, c)) \/ FwLog(d) =>
              /\ chips'[x].param = chips[x].param /\ chips'[x].commd = chips[x].commd
              /\ chips'[x].busy = chips[x].busy /\ chips'[x].burn = chips[x].burn /\ chips'[x].flash = chips[x].flash
         /\ past'.settled = past.settled /\ past'.whole = past.whole /\ past'.clash = past.clash /\ past'.alone = past.alone
         /\ past'.badpass = past.badpass /\ past'.twoDumps = past.twoDumps /\ past'.told = past.told
         /\ past'.blurred = past.blurred /\ past'.counted = past.counted /\ past'.reported = past.reported /\ past'.shows = past.shows
  <1>0. chips \in [Devs -> ChipRecords] /\ chips[x] \in ChipRecords /\ chips[d] \in ChipRecords /\ past \in Histories
    BY SMTT(30) DEF TypeOK, ChipTypeOK
  <1>1. ASSUME NEW c \in Chips, FwTake(d, c)
        PROVE  /\ UNCHANGED <<model, deviceVars, taskVars, disabled, counters>>
               /\ x # d => chips'[x] = chips[x]
               /\ chips'[x] = [chips[x] EXCEPT !.host = chips'[x].host, !.throttling = chips'[x].throttling]
               /\ \E b : past' = [past EXCEPT !.botched = b]
    BY <1>0, <1>1 DEF FwTake, Does, ChipRecords
  <1>2. ASSUME FwBurn(d)
        PROVE  /\ UNCHANGED <<model, deviceVars, taskVars, disabled, counters, past>>
               /\ x # d => chips'[x] = chips[x]
               /\ chips'[x] = [chips[x] EXCEPT !.commd = chips'[x].commd, !.busy = chips'[x].busy, !.burn = chips'[x].burn]
    BY <1>0, <1>2 DEF FwBurn, ChipRecords
  <1>3. ASSUME FwAnswer(d)
        PROVE  /\ UNCHANGED <<model, deviceVars, taskVars, disabled, counters, past>>
               /\ x # d => chips'[x] = chips[x]
               /\ chips'[x] = [chips[x] EXCEPT !.param = chips'[x].param, !.busy = chips'[x].busy, !.burn = chips'[x].burn]
    <2>1. PICK answer : chips' = [chips EXCEPT ![d].busy = FALSE, ![d].burn = {}, ![d].param = answer]
      BY <1>3 DEF FwAnswer
    <2> QED
      BY <1>0, <1>3, <2>1 DEF FwAnswer, ChipRecords
  <1>4. ASSUME FwLog(d)
        PROVE  /\ UNCHANGED <<model, deviceVars, taskVars, disabled, counters, past>>
               /\ x # d => chips'[x] = chips[x]
               /\ chips'[x] = [chips[x] EXCEPT !.lines = chips'[x].lines, !.ring = chips'[x].ring, !.wp = chips'[x].wp]
    BY <1>0, <1>4 DEF FwLog, ChipRecords
  <1>5. ASSUME NEW i \in Range(Words), FwWord(d, i)
        PROVE  /\ UNCHANGED <<model, deviceVars, taskVars, disabled, counters, past>>
               /\ x # d => chips'[x] = chips[x]
               /\ chips'[x] = [chips[x] EXCEPT !.flash = chips'[x].flash, !.burn = chips'[x].burn]
    BY <1>0, <1>5 DEF FwWord, ChipRecords
  <1>6. CASE \E c \in Chips : FwTake(d, c)
    <2>1. PICK c \in Chips : FwTake(d, c)
      BY <1>6
    <2>2. PICK b : past' = [past EXCEPT !.botched = b]
      BY <1>1, <2>1
    <2>3. chips'[x].wp = chips[x].wp /\ chips'[x].ring = chips[x].ring /\ chips'[x].lines = chips[x].lines
      BY <1>0, <1>1, <2>1 DEF ChipRecords
    <2> QED
      BY <1>0, <1>1, <1>6, <2>1, <2>2, <2>3 DEF ChipRecords, Histories
  <1>7. CASE FwLog(d) /\ ~(\E c \in Chips : FwTake(d, c))
    BY <1>0, <1>4, <1>7 DEF ChipRecords
  <1>8. CASE ~FwLog(d) /\ ~(\E c \in Chips : FwTake(d, c))
    <2>1. FwBurn(d) \/ FwAnswer(d) \/ \E i \in Range(Words) : FwWord(d, i)
      BY <1>8 DEF Firmware
    <2> QED
      BY ZenonT(60), <1>0, <1>2, <1>3, <1>5, <1>8, <2>1 DEF ChipRecords
  <1> QED
    BY <1>6, <1>7, <1>8

-----------------------------------------------------------------------------
(* Commands come through whole                                             *)

(* What a directory's step leaves of the chips and of the history.         *)
LEMMA DirectoryKeeps ==
  ASSUME TypeOK, NEW d \in Devs, Directory(d), NEW x \in Devs
  PROVE  /\ UNCHANGED <<model, taskVars, disabled, counters>>
         /\ ~(memx_fw_log_init(d) \/ memx_fw_log_deinit(d)) => chips' = chips
         /\ x # d => chips'[x] = chips[x]
         /\ chips'[x].host = chips[x].host /\ chips'[x].throttling = chips[x].throttling /\ chips'[x].memory = chips[x].memory
         /\ chips'[x].flash = chips[x].flash /\ chips'[x].param = chips[x].param /\ chips'[x].commd = chips[x].commd
         /\ chips'[x].busy = chips[x].busy /\ chips'[x].burn = chips[x].burn
         /\ chips'[x].ring = chips[x].ring /\ chips'[x].lines = chips[x].lines
         /\ \E s : past' = [past EXCEPT !.settled = s]
  <1>0. chips \in [Devs -> ChipRecords] /\ chips[x] \in ChipRecords /\ past \in Histories
    BY DEF TypeOK, ChipTypeOK
  <1>1. UNCHANGED <<model, taskVars, disabled, counters>>
    BY DirectoryTurns
  <1>2. ~(memx_fw_log_init(d) \/ memx_fw_log_deinit(d)) => chips' = chips
    BY DEF Directory, Insert, Scan, MakeRoot, RootFails, AddFile, FileFails, Finish, memx_fs_deinit, memx_pcie_remove_device
  <1>3. past = [past EXCEPT !.settled = past.settled]
    BY <1>0 DEF Histories
  <1>4. \E s : past' = [past EXCEPT !.settled = s]
    BY <1>3 DEF Directory, Insert, Scan, MakeRoot, RootFails, AddFile, FileFails, Finish, memx_fs_deinit, memx_pcie_remove_device,
            memx_fw_log_init, memx_fw_log_deinit
  <1>5. x # d => chips'[x] = chips[x]
    BY <1>0, <1>2 DEF memx_fw_log_init, memx_fw_log_deinit
  <1>6. \/ chips' = chips
        \/ \E b : chips' = [chips EXCEPT ![d].on = b, ![d].wp = 0, ![d].rp = 0]
    BY <1>2 DEF memx_fw_log_init, memx_fw_log_deinit
  <1>7. /\ chips'[x].host = chips[x].host /\ chips'[x].throttling = chips[x].throttling /\ chips'[x].memory = chips[x].memory
        /\ chips'[x].flash = chips[x].flash /\ chips'[x].param = chips[x].param /\ chips'[x].commd = chips[x].commd
        /\ chips'[x].busy = chips[x].busy /\ chips'[x].burn = chips[x].burn
        /\ chips'[x].ring = chips[x].ring /\ chips'[x].lines = chips[x].lines
    <2>1. CASE chips' = chips
      BY <2>1
    <2>2. CASE chips' # chips
      <3>1. PICK b : chips' = [chips EXCEPT ![d].on = b, ![d].wp = 0, ![d].rp = 0]
        BY <1>6, <2>2
      <3> QED
        BY SMTT(30), <1>0, <3>1 DEF ChipRecords
    <2> QED
      BY <2>1, <2>2
  <1> QED
    BY <1>1, <1>2, <1>4, <1>5, <1>7

(* And what the counting of the data path leaves.                          *)
LEMMA CountKeeps ==
  ASSUME TypeOK, NEW c \in {"tx", "rx"}, THROUGHPUT_ADD(c)
  PROVE  /\ UNCHANGED <<model, deviceVars, taskVars, chips, disabled>>
         /\ past'.clash = past.clash /\ past'.botched = past.botched /\ past'.alone = past.alone
         /\ past'.badpass = past.badpass /\ past'.twoDumps = past.twoDumps /\ past'.told = past.told
         /\ past'.reported = past.reported /\ past'.shows = past.shows
         /\ past'.remote = past.remote
  BY DEF THROUGHPUT_ADD, TypeOK, Histories

(* The parameters of a command that is being written are mails.            *)
LEMMA FreshFacts ==
  ASSUME TypeOK, ScriptInv, NEW t \in Tasks, Inner(t),
         NEW j \in Fresh(Section(model, op[t].call), Len(Section(model, op[t].call)) + 1 - Len(todo[t]))
  PROVE  LET e == Section(model, op[t].call) IN
         /\ j \in 1..Len(e) /\ j < Len(e) + 1 - Len(todo[t]) /\ Parameter(e[j])
         /\ e[j].chip \in Chips /\ e[j].reg \in {"param", "param2"} /\ e[j].val \in Params
         /\ op[t].call.file \in Mailing /\ found[t] \in Devs
  <1> DEFINE e == Section(model, op[t].call)
             k == Len(e) + 1 - Len(todo[t])
  <1>1. /\ k \in 1..Len(e) /\ Len(e) \in Nat /\ Kinds(op[t].call, e) /\ e \in Seq(Steps)
        /\ op[t].call.file # "throughput" => found[t] \in Devs
    BY AtStep
  <1>a. j \in Fresh(e, k)
    OBVIOUS
  <1> HIDE DEF k, e
  <1>2. j \in 1..k - 1 /\ Parameter(e[j])
    BY <1>1, <1>a DEF Fresh
  <1>3. j \in 1..Len(e) /\ j < k
    BY <1>1, <1>2
  <1>4. e[j] \in Steps /\ Kind(op[t].call, e, j)
    BY <1>1, <1>3 DEF Kinds
  <1>5. op[t].call.file \in Mailing
    BY <1>2, <1>4 DEF Kind, Parameter
  <1>6. "throughput" \notin Mailing
    BY DEF Mailing, Writable, Usages
  <1>7. e[j].chip \in Chips /\ e[j].reg \in {"param", "param2"} /\ e[j].val \in Params
    BY <1>2, <1>4, StepFields DEF Parameter
  <1> QED
    BY <1>1, <1>2, <1>3, <1>5, <1>6, <1>7 DEF k, e

(* What a word written to a mailbox changes.                               *)
LEMMA MailWrites ==
  ASSUME TypeOK, ScriptInv, NEW t \in Tasks, MailWord(t), NEW d \in Devs, NEW c \in Chips
  PROVE  /\ found[t] \in Devs /\ Now(t).chip \in Chips /\ Now(t).reg \in {"param", "param2", "commd"}
         /\ d # found[t] \/ c # Now(t).chip => chips'[d].host[c] = chips[d].host[c]
         /\ d = found[t] /\ c = Now(t).chip => chips'[d].host[c] = [chips[d].host[c] EXCEPT ![Now(t).reg] = Now(t).val]
         /\ chips[d].host[c] \in Mailboxes
  <1>1. /\ Doing(t, "mail") /\ chips' = [chips EXCEPT ![found[t]].host[Now(t).chip][Now(t).reg] = Now(t).val]
    BY DEF MailWord
  <1>2. found[t] \in Devs /\ Now(t) \in Steps /\ Now(t).do = "mail"
    BY <1>1, AtDevice
  <1>3. Now(t).chip \in Chips /\ Now(t).reg \in {"param", "param2", "commd"}
    BY <1>2, StepFields
  <1>4. chips \in [Devs -> ChipRecords] /\ chips[d] \in ChipRecords
    BY DEF TypeOK, ChipTypeOK
  <1>5. chips[d].host \in [Chips -> Mailboxes]
    BY <1>4 DEF ChipRecords
  <1>6. chips[d].host[c] \in Mailboxes
    BY <1>5
  <1>7. d # found[t] => chips'[d] = chips[d]
    BY <1>1, <1>4
  <1>8. d = found[t] => chips'[d].host = [chips[d].host EXCEPT ![Now(t).chip][Now(t).reg] = Now(t).val]
    BY <1>1, <1>4 DEF ChipRecords
  <1> QED
    BY <1>2, <1>3, <1>5, <1>6, <1>7, <1>8

(* Other mailboxes stay as they are.                                       *)
LEMMA MailElsewhere ==
  ASSUME TypeOK, ScriptInv, NEW t \in Tasks, MailWord(t), NEW d \in Devs, NEW c \in Chips,
         ~(d = found[t] /\ c = Now(t).chip)
  PROVE  chips'[d].host[c] = chips[d].host[c]
  BY ZenonT(60), MailWrites

(* Where no clash is noted none was, and none is.                          *)
LEMMA ClashIs ==
  ASSUME TypeOK, NEW t \in Tasks, Operation(t), ~past'.clash
  PROVE  /\ ~past.clash
         /\ MailWord(t) \/ memx_send_memxcmd(t) => ~Clash(t, Now(t).chip)
         /\ memx_send_memxcmd(t) => chips' = Does(found[t], Now(t).chip, Now(t).val.code, Now(t).val.param)
  <1>0. past \in Histories
    BY DEF TypeOK
  <1>1. CASE Start(t)
    <2>1. past'.clash = past.clash /\ ~MailWord(t) /\ ~memx_send_memxcmd(t)
      BY <1>0, <1>1 DEF Start, Histories, MailWord, memx_send_memxcmd, Doing
    <2> QED
      BY <2>1
  <1>2. CASE Follow(t) /\ ~MailWord(t) /\ ~memx_send_memxcmd(t)
    BY <1>2, Kept
  <1>3. CASE MailWord(t)
    <2>1. past'.clash = (past.clash \/ Clash(t, Now(t).chip)) /\ ~memx_send_memxcmd(t)
      BY <1>0, <1>3 DEF MailWord, Histories, memx_send_memxcmd, Doing
    <2> QED
      BY <2>1
  <1>4. CASE memx_send_memxcmd(t)
    <2>1. \/ /\ chips' = Does(found[t], Now(t).chip, Now(t).val.code, Now(t).val.param)
             /\ past'.clash = (past.clash \/ Clash(t, Now(t).chip))
          \/ past'.clash
      BY <1>0, <1>4 DEF memx_send_memxcmd, Histories
    <2> QED
      BY <2>1
  <1> QED
    BY <1>1, <1>2, <1>3, <1>4, StartOrFollow

LEMMA CommandInit ==
  ASSUME Init
  PROVE  CommandInv
  <1>1. ~past.botched /\ \A t \in Tasks : todo[t] = <<>>
    BY DEF Init
  <1>2. \A d \in Devs, c \in Chips : chips[d].host[c].commd = Rest
    BY DEF Init, Chip0
  <1> QED
    BY <1>1, <1>2 DEF CommandInv, Inner

LEMMA CommandKept ==
  ASSUME CommandInv, UNCHANGED <<model, todo, op, found>>, \A d \in Devs : chips'[d].host = chips[d].host,
         TypeOK, ScriptInv, past'.clash = past.clash, past'.botched = past.botched
  PROVE  CommandInv'
  <1>1. ASSUME NEW t \in Tasks, Inner(t)', ~past.clash
        PROVE  Written(t)'
    <2>1. Inner(t) /\ Written(t)
      BY <1>1 DEF CommandInv, Inner
    <2>2. \A j \in Fresh(Section(model, op[t].call), Len(Section(model, op[t].call)) + 1 - Len(todo[t])) : found[t] \in Devs
      BY <2>1, FreshFacts
    <2> QED
      BY <2>1, <2>2 DEF Written
  <1> QED
    BY <1>1 DEF CommandInv

(* The task whose step it is.                                              *)
LEMMA WrittenOwn ==
  ASSUME TypeOK, ScriptInv, DirInv, CommandInv, NEW t \in Tasks, Operation(t), ~past'.clash, Inner(t)'
  PROVE  Written(t)'
  <1> DEFINE e == Section(model, op[t].call)
             k == Len(e) + 1 - Len(todo[t])
             h == chips[found[t]].host
  <1>1. CASE Len(todo'[t]) = Len(Section(model', op'[t].call)) /\ Len(todo'[t]) > 0
    <2>1. Len(todo'[t]) \in Nat
      <3>1. TypeOK'
        BY NextBase DEF Next
      <3> QED
        BY <3>1 DEF TypeOK, TaskTypeOK
    <2>2. Len(Section(model', op'[t].call)) + 1 - Len(todo'[t]) = 1
      BY <1>1, <2>1
    <2>3. Fresh(Section(model', op'[t].call), 1) = {}
      BY FreshAre
    <2> QED
      BY <2>2, <2>3 DEF Written
  <1>2. CASE /\ Inner(t) /\ Follow(t) /\ Len(todo'[t]) = Len(todo[t]) - 1 /\ Len(todo'[t]) > 0
             /\ op' = op /\ found' = found /\ model' = model
    <2>1. /\ Now(t) = e[k] /\ k \in 1..Len(e) /\ Kind(op[t].call, e, k) /\ Len(todo[t]) \in Nat /\ Len(e) \in Nat
      BY <1>2, AtStep
    <2>2. Len(Section(model', op'[t].call)) + 1 - Len(todo'[t]) = k + 1
      BY <1>2, <2>1
    <2>3. Fresh(e, k + 1) = IF Parameter(e[k]) THEN Fresh(e, k) \cup {k} ELSE {}
      <3>1. k \in Nat \ {0}
        BY <2>1
      <3> HIDE DEF k, e
      <3> QED
        BY <3>1, FreshNext
    <2>4. Written(t)
      BY <1>2, ClashIs DEF CommandInv
    <2>5. CASE ~Parameter(e[k])
      BY Zenon, <1>2, <2>2, <2>3, <2>5 DEF Written
    <2>6. CASE Parameter(e[k])
      <3>1. MailWord(t) /\ Now(t).reg # "commd"
        BY <1>2, <2>1, <2>6, Acts DEF Parameter
      <3>2. found[t] \in Devs /\ Now(t).chip \in Chips /\ Now(t).reg \in {"param", "param2"}
        <4>1. Doing(t, "mail")
          BY <3>1 DEF MailWord
        <4>2. found[t] \in Devs /\ Now(t) \in Steps /\ Now(t).do = "mail"
          BY <4>1, AtDevice
        <4> QED
          BY <3>1, <4>2, StepFields
      <3>3. ASSUME NEW c \in Chips
            PROVE  /\ c # Now(t).chip => chips'[found[t]].host[c] = h[c]
                   /\ c = Now(t).chip => chips'[found[t]].host[c] = [h[c] EXCEPT ![Now(t).reg] = Now(t).val]
                   /\ h[c] \in Mailboxes
        BY SMTT(30), <3>1, <3>2, MailWrites
      <3>4. chips'[found[t]].host[e[k].chip][e[k].reg] = e[k].val
        <4>1. chips'[found[t]].host[Now(t).chip] = [h[Now(t).chip] EXCEPT ![Now(t).reg] = Now(t).val]
          BY <3>2, <3>3
        <4>2. h[Now(t).chip] \in Mailboxes
          BY <3>2, <3>3
        <4>3. chips'[found[t]].host[Now(t).chip][Now(t).reg] = Now(t).val
          BY <3>2, <4>1, <4>2 DEF Mailboxes
        <4> QED
          BY Zenon, <2>1, <4>3
      <3>5. ASSUME NEW j \in Fresh(e, k)
            PROVE  chips'[found[t]].host[e[j].chip][e[j].reg] = e[j].val
        <4>1. e[j].chip \in Chips /\ e[j].reg \in {"param", "param2"}
          BY <1>2, FreshFacts
        <4>2. e[j].reg # Now(t).reg
          BY <2>1, <2>6 DEF Kind
        <4>3. h[e[j].chip][e[j].reg] = e[j].val
          BY <2>4 DEF Written
        <4> QED
          BY ZenonT(60), <3>2, <3>3, <4>1, <4>2, <4>3 DEF Mailboxes
      <3> QED
        BY Zenon, <1>2, <2>2, <2>3, <2>6, <3>4, <3>5 DEF Written
    <2> QED
      BY <2>5, <2>6
  <1> QED
    BY SMTT(30), <1>1, <1>2, Arrives

(* Another's.                                                              *)
LEMMA WrittenOther ==
  ASSUME TypeOK, ScriptInv, CommandInv, NEW t \in Tasks, Operation(t), ~past'.clash, NEW u \in Tasks \ {t}, Inner(u)'
  PROVE  Written(u)'
  <1> DEFINE e == Section(model, op[u].call)
             k == Len(e) + 1 - Len(todo[u])
  <1>1. todo'[u] = todo[u] /\ op'[u] = op[u] /\ found'[u] = found[u] /\ model' = model /\ Inner(u)
    BY OthersStay
  <1>2. Written(u)
    BY <1>1, ClashIs DEF CommandInv
  <1>3. ASSUME NEW j \in Fresh(e, k)
        PROVE  chips'[found[u]].host = chips[found[u]].host
    <2>1. op[u].call.file \in Mailing /\ found[u] \in Devs
      BY <1>1, FreshFacts
    <2>2. todo[u] # <<>>
      BY <1>1 DEF Inner
    <2>3. ~MailWord(t)
      BY <2>1, <2>2, ClashIs DEF Clash, Others
    <2>4. CASE Start(t)
      BY <2>4 DEF Start
    <2>5. CASE Follow(t)
      BY <2>1, <2>3, <2>5, ChipKept
    <2> QED
      BY <2>4, <2>5, StartOrFollow
  <1> QED
    BY <1>1, <1>2, <1>3 DEF Written

(* A command that waits.                                                   *)
LEMMA HoldsOn ==
  ASSUME TypeOK, ScriptInv, CommandInv, NEW t \in Tasks, Operation(t), ~past'.clash,
         NEW d \in Devs, NEW c \in Chips, chips'[d].host[c].commd # Rest
  PROVE  Holds(chips'[d].host[c])
  <1> DEFINE e == Section(model, op[t].call)
             k == Len(e) + 1 - Len(todo[t])
             h == chips[d].host[c]
  <1>1. ~past.clash /\ (h.commd # Rest => Holds(h))
    BY ClashIs DEF CommandInv
  <1>2. CASE chips'[d].host[c] = chips[d].host[c]
    BY <1>1, <1>2
  <1>3. CASE MailWord(t) /\ d = found[t] /\ c = Now(t).chip
    <2>1. Now(t).reg \in {"param", "param2", "commd"} /\ chips'[d].host[c] = [h EXCEPT ![Now(t).reg] = Now(t).val] /\ h \in Mailboxes
      BY <1>3, MailWrites
    <2>2. h.commd = Rest
      BY <1>3, ClashIs DEF Clash
    <2>3. Now(t).reg = "commd"
      BY <2>1, <2>2 DEF Mailboxes
    <2>4. Inner(t) /\ Doing(t, "mail") /\ Now(t).do = "mail"
      <3>1. Doing(t, "mail")
        BY <1>3 DEF MailWord
      <3> QED
        BY <3>1, Inside DEF Inner
    <2>5. /\ Now(t) = e[k] /\ Kind(op[t].call, e, k)
      BY <2>4, AtStep
    <2>6. Given(e, k, "param", Now(t).val.param) /\ Given(e, k, "param2", Now(t).val.param2)
      BY Zenon, <2>3, <2>4, <2>5 DEF Kind
    <2>7. Written(t)
      BY <1>1, <2>4 DEF CommandInv
    <2>8. ASSUME NEW r \in {"param", "param2"}, NEW v, Given(e, k, r, v)
          PROVE  v \in {Whatever, h[r]}
      BY Zenon, <1>3, <2>5, <2>7, <2>8 DEF Given, Written
    <2>9. Now(t).val.param \in {Whatever, h.param} /\ Now(t).val.param2 \in {Whatever, h.param2}
      BY <2>6, <2>8
    <2>10. chips'[d].host[c].commd = Now(t).val /\ chips'[d].host[c].param = h.param /\ chips'[d].host[c].param2 = h.param2
      BY <2>1, <2>3 DEF Mailboxes
    <2> QED
      BY <2>9, <2>10 DEF Holds
  <1>4. CASE MailWord(t) /\ ~(d = found[t] /\ c = Now(t).chip)
    <2>1. chips'[d].host[c] = chips[d].host[c]
      BY <1>4, MailElsewhere
    <2> QED
      BY <1>2, <2>1
  <1>5. CASE Follow(t) /\ ~MailWord(t)
    BY <1>2, <1>5, ChipKept
  <1>6. CASE Start(t)
    BY <1>2, <1>6 DEF Start
  <1> QED
    BY <1>3, <1>4, <1>5, <1>6, StartOrFollow

(* The firmware takes a command.                                           *)
LEMMA TakenIs ==
  ASSUME TypeOK, NEW d \in Devs, NEW c \in Chips, FwTake(d, c)
  PROVE  /\ chips[d].host[c].commd # Rest
         /\ \A x \in Devs, b \in Chips :
              /\ x # d \/ b # c => chips'[x].host[b] = chips[x].host[b] /\ chips'[x].throttling[b] = chips[x].throttling[b]
              /\ x = d /\ b = c =>
                   /\ chips'[x].host[b] = [chips[x].host[b] EXCEPT !.commd = Rest]
                   /\ chips'[x].throttling[b] =
                        IF chips[x].host[b].commd.code = "t" /\ chips[x].host[b].param \in Throttles
                        THEN chips[x].host[b].param ELSE chips[x].throttling[b]
              /\ chips[x].host[b] \in Mailboxes
         /\ past'.clash = past.clash /\ past'.botched = (past.botched \/ (~past.clash /\ ~Holds(chips[d].host[c])))
         /\ past'.remote = past.remote
         /\ UNCHANGED <<model, deviceVars, taskVars, disabled, counters>>
  <1>0. ChipTypeOK /\ chips \in [Devs -> ChipRecords] /\ past \in Histories
    BY DEF TypeOK, ChipTypeOK
  <1> DEFINE h == chips[d].host[c]
  <1>1. PICK k \in ChipRecords :
          /\ Does(d, c, h.commd.code, h.param) = [chips EXCEPT ![d] = k]
          /\ k = IF h.commd.code = "t" /\ h.param \in Throttles THEN [chips[d] EXCEPT !.throttling[c] = h.param] ELSE chips[d]
    BY <1>0, DoesIs
  <1>2. chips' = [chips EXCEPT ![d] = [k EXCEPT !.host[c].commd = Rest]]
    <2>1. chips' = [Does(d, c, h.commd.code, h.param) EXCEPT ![d].host[c].commd = Rest]
      BY Zenon DEF FwTake
    <2> QED
      BY <1>0, <1>1, <2>1
  <1>3. k.host = chips[d].host
    BY <1>0, <1>1 DEF ChipRecords
  <1>4. chips[d].host \in [Chips -> Mailboxes] /\ chips[d].throttling \in [Chips -> Throttles]
    BY <1>0 DEF ChipRecords
  <1>5. k.throttling = IF h.commd.code = "t" /\ h.param \in Throttles THEN [chips[d].throttling EXCEPT ![c] = h.param] ELSE chips[d].throttling
    BY <1>0, <1>1 DEF ChipRecords
  <1>6. chips'[d].host = [chips[d].host EXCEPT ![c].commd = Rest] /\ chips'[d].throttling = k.throttling
    BY <1>0, <1>2, <1>3 DEF ChipRecords
  <1>7. ASSUME NEW x \in Devs, NEW b \in Chips
        PROVE  /\ x # d \/ b # c => chips'[x].host[b] = chips[x].host[b] /\ chips'[x].throttling[b] = chips[x].throttling[b]
               /\ x = d /\ b = c =>
                   /\ chips'[x].host[b] = [chips[x].host[b] EXCEPT !.commd = Rest]
                   /\ chips'[x].throttling[b] =
                        IF chips[x].host[b].commd.code = "t" /\ chips[x].host[b].param \in Throttles
                        THEN chips[x].host[b].param ELSE chips[x].throttling[b]
               /\ chips[x].host[b] \in Mailboxes
    <2>1. x # d => chips'[x] = chips[x]
      BY <1>0, <1>2
    <2>2. chips[x].host[b] \in Mailboxes
      BY SMTT(30), <1>0 DEF ChipRecords
    <2> QED
      BY <1>4, <1>5, <1>6, <2>1, <2>2
  <1>8. /\ past'.clash = past.clash /\ past'.botched = (past.botched \/ (~past.clash /\ ~Holds(chips[d].host[c])))
        /\ chips[d].host[c].commd # Rest /\ UNCHANGED <<model, deviceVars, taskVars, disabled, counters>>
    BY Zenon, <1>0 DEF FwTake, Histories, Holds
  <1>9. past'.remote = past.remote
    <2>1. PICK b : past' = [past EXCEPT !.botched = b]
      BY Zenon DEF FwTake
    <2> QED
      BY <1>0, <2>1 DEF Histories
  <1> QED
    BY <1>7, <1>8, <1>9

(* The firmware that takes a command finds its parameters.                 *)
LEMMA CommandTaken ==
  ASSUME TypeOK, ScriptInv, CommandInv, NEW d \in Devs, NEW c \in Chips, FwTake(d, c)
  PROVE  CommandInv'
  <1>1. /\ past'.clash = past.clash /\ chips[d].host[c].commd # Rest
        /\ past'.botched = (past.botched \/ (~past.clash /\ ~Holds(chips[d].host[c])))
        /\ todo' = todo /\ op' = op /\ found' = found /\ model' = model
    BY TakenIs DEF taskVars
  <1>2. ~past'.botched
    BY <1>1 DEF CommandInv
  <1>3. ASSUME NEW x \in Devs, NEW b \in Chips
        PROVE  /\ chips'[x].host[b].param = chips[x].host[b].param /\ chips'[x].host[b].param2 = chips[x].host[b].param2
               /\ chips'[x].host[b].commd \in {Rest, chips[x].host[b].commd}
    <2>1. /\ x # d \/ b # c => chips'[x].host[b] = chips[x].host[b]
          /\ x = d /\ b = c => chips'[x].host[b] = [chips[x].host[b] EXCEPT !.commd = Rest]
          /\ chips[x].host[b] \in Mailboxes
      BY TakenIs
    <2>2. CASE x # d \/ b # c
      BY <2>1, <2>2
    <2>3. CASE x = d /\ b = c
      BY SMTT(30), <2>1, <2>3 DEF Mailboxes
    <2> QED
      BY <2>2, <2>3
  <1>4. ASSUME NEW t \in Tasks, Inner(t)', ~past.clash
        PROVE  Written(t)'
    <2>1. Inner(t) /\ Written(t)
      BY <1>1, <1>4 DEF CommandInv, Inner
    <2> DEFINE e == Section(model, op[t].call)
    <2>2. \A j \in Fresh(e, Len(e) + 1 - Len(todo[t])) : found[t] \in Devs /\ e[j].chip \in Chips /\ e[j].reg \in {"param", "param2"}
      BY ZenonT(60), <2>1, FreshFacts
    <2>3. ASSUME NEW j \in Fresh(e, Len(e) + 1 - Len(todo[t]))
          PROVE  chips'[found[t]].host[e[j].chip][e[j].reg] = e[j].val
      <3>1. chips[found[t]].host[e[j].chip][e[j].reg] = e[j].val
        BY <2>1 DEF Written
      <3>2. \/ chips'[found[t]].host[e[j].chip].param = chips[found[t]].host[e[j].chip].param /\ e[j].reg = "param"
            \/ chips'[found[t]].host[e[j].chip].param2 = chips[found[t]].host[e[j].chip].param2 /\ e[j].reg = "param2"
        BY <1>3, <2>2
      <3> QED
        BY Zenon, <3>1, <3>2
    <2> QED
      BY <1>1, <2>3 DEF Written
  <1>5. ASSUME NEW x \in Devs, NEW b \in Chips, chips'[x].host[b].commd # Rest, ~past.clash
        PROVE  Holds(chips'[x].host[b])
    <2>1. chips'[x].host[b].commd = chips[x].host[b].commd
      BY <1>3, <1>5
    <2> QED
      BY <1>3, <1>5, <2>1 DEF CommandInv, Holds
  <1> QED
    BY <1>1, <1>2, <1>4, <1>5 DEF CommandInv

(* Parameters come before their command, and stay until it is taken.       *)
LEMMA CommandStep ==
  ASSUME TypeOK, ScriptInv, DirInv, CommandInv, [Next]_vars
  PROVE  CommandInv'
  <1>1. ASSUME NEW t \in Tasks, Operation(t)
        PROVE  CommandInv'
    <2>1. ~past'.botched
      <3>1. past \in Histories
        BY DEF TypeOK
      <3>2. Start(t) => past'.botched = past.botched
        BY <3>1 DEF Start, Histories
      <3> QED
        BY <1>1, <3>2, StartOrFollow, Kept DEF CommandInv
    <2>2. ASSUME NEW u \in Tasks, Inner(u)', ~past'.clash
          PROVE  Written(u)'
      BY <1>1, <2>2, WrittenOwn, WrittenOther
    <2>3. \A d \in Devs, c \in Chips : ~past'.clash /\ chips'[d].host[c].commd # Rest => Holds(chips'[d].host[c])
      BY <1>1, HoldsOn
    <2> QED
      BY <2>1, <2>2, <2>3 DEF CommandInv
  <1>2. ASSUME NEW d \in Devs, Directory(d)
        PROVE  CommandInv'
    <2>1. past \in Histories
      BY DEF TypeOK
    <2>2. PICK s : past' = [past EXCEPT !.settled = s]
      BY <1>2, DirectoryKeeps
    <2>3. past'.clash = past.clash /\ past'.botched = past.botched
      BY <2>1, <2>2 DEF Histories
    <2>4. UNCHANGED <<model, todo, op, found>> /\ \A x \in Devs : chips'[x].host = chips[x].host
      BY <1>2, DirectoryKeeps DEF taskVars
    <2> QED
      BY <2>3, <2>4, CommandKept
  <1>3. ASSUME NEW d \in Devs, Firmware(d)
        PROVE  CommandInv'
    <2>1. CASE \E c \in Chips : FwTake(d, c)
      BY <2>1, CommandTaken
    <2>2. CASE ~(\E c \in Chips : FwTake(d, c))
      <3>1. UNCHANGED <<model, todo, op, found>> /\ past' = past /\ \A x \in Devs : chips'[x].host = chips[x].host
        BY <1>3, <2>2, FirmwareKeeps DEF taskVars
      <3> QED
        BY <3>1, CommandKept
    <2> QED
      BY <2>1, <2>2
  <1>4. ASSUME NEW c \in {"tx", "rx"}, THROUGHPUT_ADD(c)
        PROVE  CommandInv'
    BY <1>4, CountKeeps, CommandKept DEF taskVars
  <1>5. CASE UNCHANGED vars
    BY <1>5, CommandKept DEF vars
  <1> QED
    BY <1>1, <1>2, <1>3, <1>4, <1>5 DEF Next

-----------------------------------------------------------------------------
(* The driver and its chips agree on thermal throttling                    *)

(* Where a store to thermalthrottling is.                                  *)
LEMMA ThermalPlace ==
  ASSUME TypeOK, ScriptInv, NEW t \in Tasks, Inner(t), op[t].call.file = "thermalthrottling"
  PROVE  LET a == op[t].call
             l == Len(todo[t])
         IN  /\ a.cmd \in Throttles /\ found[t] \in Devs
             /\ model.bus \in {"pcie", "usb"}
             /\ model.bus = "pcie" => /\ Len(Section(model, a)) = 5 /\ l \in 1..5
                                      /\ l \in {3, 5} => Now(t).do = "mail" /\ Now(t).reg = "param"
                                      /\ l = 4 => Now(t) = Mail(0, "commd", Code("t", a.cmd, Whatever))
                                      /\ l = 2 => Now(t) = Mail(1, "commd", Code("t", a.cmd, Whatever))
             /\ model.bus = "usb" => /\ Len(Section(model, a)) = 3 /\ l \in 1..3
                                     /\ l = 3 => Now(t) = [do |-> "send", chip |-> 0, val |-> Code("t", a.cmd, Whatever)]
                                     /\ l = 2 => Now(t) = [do |-> "send", chip |-> 1, val |-> Code("t", a.cmd, Whatever)]
             /\ l = 1 => Now(t) = Throttle(a.cmd)
             /\ l # 1 => Now(t).do \in {"mail", "send"}
  <1> DEFINE a == op[t].call
             l == Len(todo[t])
             e == Section(model, a)
  <1>1. /\ Now(t) = e[Len(e) + 1 - l] /\ l \in Nat /\ l > 0 /\ l <= Len(e) /\ Len(e) \in Nat /\ a \in Calls
        /\ a.file # "throughput" => found[t] \in Devs
    BY AtStep
  <1>2. e = IF a.how = "store" /\ a.cmd \in Throttles THEN IF model.bus = "pcie" THEN Thermal(a) ELSE UsbThermal(a) ELSE <<>>
    BY <1>1, SectionIs
  <1>3. a.how = "store" /\ a.cmd \in Throttles
    <2>1. e # <<>>
      BY <1>1
    <2> QED
      BY <1>2, <2>1
  <1>4. model.bus \in {"pcie", "usb"}
    BY DebugAssumption DEF TypeOK
  <1> HIDE DEF a, l
  <1>5. CASE model.bus = "pcie"
    <2>1. e = <<Mail(0, "param", a.cmd), Mail(0, "commd", Code("t", a.cmd, Whatever)),
                Mail(1, "param", a.cmd), Mail(1, "commd", Code("t", a.cmd, Whatever)), Throttle(a.cmd)>>
      BY <1>1, <1>2, <1>3, <1>5, ThermalIs
    <2> HIDE DEF e
    <2>2. Len(e) = 5 /\ l \in 1..5 /\ Now(t) = e[6 - l]
      BY <1>1, <2>1
    <2>3. /\ l = 5 => Now(t) = Mail(0, "param", a.cmd)
          /\ l = 4 => Now(t) = Mail(0, "commd", Code("t", a.cmd, Whatever))
          /\ l = 3 => Now(t) = Mail(1, "param", a.cmd)
          /\ l = 2 => Now(t) = Mail(1, "commd", Code("t", a.cmd, Whatever))
          /\ l = 1 => Now(t) = Throttle(a.cmd)
      BY <2>1, <2>2
    <2>4. /\ l \in {3, 5} => Now(t).do = "mail" /\ Now(t).reg = "param"
          /\ l # 1 => Now(t).do \in {"mail", "send"}
      BY <2>2, <2>3 DEF Mail
    <2> QED
      BY <1>1, <1>3, <1>5, <2>2, <2>3, <2>4 DEF a, l, e
  <1>6. CASE model.bus = "usb"
    <2>1. e = <<[do |-> "send", chip |-> 0, val |-> Code("t", a.cmd, Whatever)],
                [do |-> "send", chip |-> 1, val |-> Code("t", a.cmd, Whatever)], Throttle(a.cmd)>>
      BY <1>1, <1>2, <1>3, <1>6, ThermalIs
    <2> HIDE DEF e
    <2>2. Len(e) = 3 /\ l \in 1..3 /\ Now(t) = e[4 - l]
      BY <1>1, <2>1
    <2>3. /\ l = 3 => Now(t) = [do |-> "send", chip |-> 0, val |-> Code("t", a.cmd, Whatever)]
          /\ l = 2 => Now(t) = [do |-> "send", chip |-> 1, val |-> Code("t", a.cmd, Whatever)]
          /\ l = 1 => Now(t) = Throttle(a.cmd)
      BY <2>1, <2>2
    <2>4. l # 1 => Now(t).do \in {"mail", "send"}
      BY <2>2, <2>3
    <2> QED
      BY <1>1, <1>3, <1>6, <2>2, <2>3, <2>4 DEF a, l, e
  <1> QED
    BY <1>4, <1>5, <1>6

(* How long a store to thermalthrottling is.                               *)
LEMMA ThermalLength ==
  ASSUME NEW a \in Calls, a.file = "thermalthrottling", Section(model, a) # <<>>
  PROVE  Len(Section(model, a)) = IF model.bus = "pcie" THEN 5 ELSE 3
  <1>1. a.cmd \in Throttles /\ Section(model, a) = IF model.bus = "pcie" THEN Thermal(a) ELSE UsbThermal(a)
    BY SectionIs
  <1>2. Len(Thermal(a)) = 5 /\ Len(UsbThermal(a)) = 3
    BY <1>1, ThermalIs
  <1> QED
    BY <1>1, <1>2

LEMMA ThrottleInit ==
  ASSUME Init
  PROVE  ThrottleInv
  <1>1. \A t \in Tasks : todo[t] = <<>>
    BY DEF Init
  <1>2. \A d \in Devs, c \in Chips : chips[d].host[c].commd = Rest /\ chips[d].throttling[c] = "Enable" /\ disabled[d] = "Enable"
    BY DEF Init, Chip0
  <1>3. \A t \in Tasks : ~Telling(t)
    BY <1>1 DEF Telling, Begun, Inner
  <1>4. Rest.code = "none"
    BY DEF Rest, Code
  <1> QED
    BY <1>2, <1>3, <1>4 DEF ThrottleInv, Effect

(* A task other than the one whose step it is tells as before.             *)
LEMMA TellingOther ==
  ASSUME TypeOK, NEW t \in Tasks, Operation(t), NEW u \in Tasks \ {t}
  PROVE  /\ Telling(u)' <=> Telling(u)
         /\ \A c : Reached(u, c)' <=> Reached(u, c)
  BY OthersStay DEF Telling, Reached

(* How a task comes to tell, and goes on.                                  *)
LEMMA TellingOwn ==
  ASSUME TypeOK, ScriptInv, DirInv, NEW t \in Tasks, Operation(t), Telling(t)'
  PROVE  /\ Follow(t) /\ Inner(t) /\ op[t].call.file = "thermalthrottling" /\ op' = op /\ found' = found /\ model' = model
         /\ Len(todo'[t]) = Len(todo[t]) - 1 /\ Len(todo'[t]) > 0
         /\ Len(todo'[t]) <= IF model.bus = "pcie" THEN 3 ELSE 2
  <1>1. TypeOK' /\ ScriptInv'
    BY NextBase DEF Next
  <1>2. Inner(t)' /\ op'[t].call.file = "thermalthrottling" /\ Len(todo'[t]) <= IF model'.bus = "pcie" THEN 3 ELSE 2
    BY DEF Telling, Begun
  <1>3. Len(Section(model', op'[t].call)) = IF model'.bus = "pcie" THEN 5 ELSE 3
    <2>1. model' = model
      BY StartOrFollow, Followed DEF Start
    <2>2. todo'[t] # <<>> /\ Len(todo'[t]) \in Nat /\ Len(todo'[t]) > 0 /\ Len(todo'[t]) <= Len(Section(model', op'[t].call))
      <3>1. todo'[t] # <<>> /\ Len(todo'[t]) <= Len(Section(model', op'[t].call))
        BY <1>2 DEF Inner
      <3>2. todo'[t] \in Seq(Steps)
        BY <1>1 DEF TypeOK, TaskTypeOK
      <3> QED
        BY <3>1, <3>2, LengthOf
    <2>3. op'[t].call \in Calls
      BY <1>1, <2>2 DEF TypeOK, TaskTypeOK
    <2> DEFINE a == op'[t].call
    <2> HIDE DEF a
    <2>4. a \in Calls /\ a.file = "thermalthrottling" /\ Section(model, a) # <<>> /\ model.bus \in {"pcie", "usb"}
      BY <1>2, <2>1, <2>2, <2>3, DebugAssumption DEF a, TypeOK
    <2>5. Len(Section(model, a)) = IF model.bus = "pcie" THEN 5 ELSE 3
      BY <2>4, ThermalLength
    <2> QED
      BY <2>1, <2>5 DEF a
  <1>4. Len(todo'[t]) # Len(Section(model', op'[t].call))
    BY <1>2, <1>3
  <1> QED
    BY <1>2, <1>4, Arrives

(* What telling a chip does.                                               *)
LEMMA ToldIs ==
  ASSUME TypeOK, ScriptInv, NEW t \in Tasks, MailWord(t) \/ memx_send_memxcmd(t), ~past'.clash
  PROVE  /\ Inner(t) /\ Follow(t) /\ found[t] \in Devs /\ Now(t).chip \in Chips /\ op[t].call.file \in Mailing
         /\ past'.remote = past.remote \cup Remote(t)
         /\ \A d \in Devs \ Remote(t), c \in Chips :
              Effect(d, c)' = IF op[t].call.file = "thermalthrottling" /\ Tells(t) /\ d = found[t] /\ c = Now(t).chip
                              THEN op[t].call.cmd ELSE Effect(d, c)
         /\ \A u \in Tasks \ {t} : ~Telling(u)
         /\ disabled' = disabled /\ ~past.clash
  <1> DEFINE e == Section(model, op[t].call)
             k == Len(e) + 1 - Len(todo[t])
  <1>1. Follow(t) /\ Operation(t) /\ Doing(t, Now(t).do) /\ Now(t).do \in {"mail", "send"}
    BY DEF Follow, Operation, MailWord, memx_send_memxcmd, Doing, Now
  <1>2. Inner(t) /\ Kind(op[t].call, e, k) /\ Now(t) = e[k]
    BY <1>1, Inside DEF Inner
  <1>3. found[t] \in Devs /\ Now(t) \in Steps
    BY <1>1, AtDevice
  <1>4. Now(t).chip \in Chips
    BY <1>1, <1>3, StepFields
  <1>5. op[t].call.file \in Mailing
    BY <1>1, <1>2 DEF Kind
  <1>6. ~past.clash /\ ~Clash(t, Now(t).chip)
    BY <1>1, ClashIs
  <1>7. disabled' = disabled
    BY DEF MailWord, memx_send_memxcmd
  <1>8. ASSUME NEW u \in Tasks \ {t}
        PROVE  ~Telling(u)
    <2>1. u \notin Others(t, Mailing)
      BY <1>6 DEF Clash
    <2>2. "thermalthrottling" \in Mailing
      BY DEF Mailing, Writable
    <2> QED
      BY <2>1, <2>2 DEF Others, Telling, Begun, Inner
  <1>9. chips[found[t]].host[Now(t).chip].commd = Rest /\ Rest.code # "t"
    BY <1>6 DEF Clash, Rest, Code
  <1>10. Tells(t) => Now(t).val # Rest /\ (Now(t).val.code = "t" => Now(t).val.param # Whatever)
    BY <1>2 DEF Kind, Tells
  <1>13. past'.remote = past.remote \cup Remote(t)
    <2>1. past \in Histories
      BY DEF TypeOK
    <2> QED
      BY <2>1 DEF MailWord, memx_send_memxcmd, Histories
  <1>11. op[t].call.file = "thermalthrottling" /\ Tells(t) =>
           op[t].call.cmd \in Throttles /\ Now(t).val.code = "t" /\ Now(t).val.param = op[t].call.cmd
    <2>1. ASSUME op[t].call.file = "thermalthrottling", Tells(t)
          PROVE  op[t].call.cmd \in Throttles /\ Now(t).val = Code("t", op[t].call.cmd, Whatever)
      <3> DEFINE l == Len(todo[t])
      <3>1. /\ op[t].call.cmd \in Throttles /\ model.bus \in {"pcie", "usb"}
            /\ model.bus = "pcie" => /\ l \in 1..5
                                     /\ l \in {3, 5} => Now(t).do = "mail" /\ Now(t).reg = "param"
                                     /\ l = 4 => Now(t) = Mail(0, "commd", Code("t", op[t].call.cmd, Whatever))
                                     /\ l = 2 => Now(t) = Mail(1, "commd", Code("t", op[t].call.cmd, Whatever))
            /\ model.bus = "usb" => /\ l \in 1..3
                                    /\ l = 3 => Now(t) = [do |-> "send", chip |-> 0, val |-> Code("t", op[t].call.cmd, Whatever)]
                                    /\ l = 2 => Now(t) = [do |-> "send", chip |-> 1, val |-> Code("t", op[t].call.cmd, Whatever)]
            /\ l = 1 => Now(t) = Throttle(op[t].call.cmd)
        BY <1>2, <2>1, ThermalPlace
      <3>2. l # 1
        BY <1>1, <3>1 DEF Throttle
      <3>3. model.bus = "pcie" => l \notin {3, 5}
        BY <2>1, <3>1 DEF Tells
      <3> HIDE DEF l
      <3> QED
        BY <3>1, <3>2, <3>3 DEF Mail
    <2> QED
      BY <2>1 DEF Code
  <1>12. ASSUME NEW d \in Devs \ Remote(t), NEW c \in Chips
         PROVE  Effect(d, c)' = IF op[t].call.file = "thermalthrottling" /\ Tells(t) /\ d = found[t] /\ c = Now(t).chip
                                THEN op[t].call.cmd ELSE Effect(d, c)
    <2>3. d = found[t] /\ Tells(t) /\ Now(t).val.code = "t" => op[t].call.file = "thermalthrottling"
      BY DEF Remote
    <2>1. CASE MailWord(t)
      <3>1. chips'[d].throttling = chips[d].throttling
        <4>1. ~memx_send_memxcmd(t)
          BY SMTT(30), <2>1 DEF MailWord, memx_send_memxcmd, Doing
        <4> QED
          BY <1>1, <4>1, ChipKept
      <3>2. Now(t).do = "mail"
        BY <2>1 DEF MailWord, Doing, Now
      <3>3. CASE ~(d = found[t] /\ c = Now(t).chip)
        <4>1. chips'[d].host[c] = chips[d].host[c]
          BY <2>1, <3>3, MailElsewhere
        <4> QED
          BY <3>1, <3>3, <4>1 DEF Effect
      <3>4. CASE d = found[t] /\ c = Now(t).chip
        <4>1. /\ chips'[d].host[c] = [chips[d].host[c] EXCEPT ![Now(t).reg] = Now(t).val]
              /\ chips[d].host[c] \in Mailboxes /\ Now(t).reg \in {"param", "param2", "commd"}
          BY <2>1, <3>4, MailWrites
        <4>2. chips'[d].host[c].commd = IF Tells(t) THEN Now(t).val ELSE Rest
          BY <1>9, <3>2, <3>4, <4>1 DEF Mailboxes, Tells
        <4> QED
          BY <1>9, <1>11, <2>3, <3>1, <3>4, <4>2 DEF Effect
      <3> QED
        BY <3>3, <3>4
    <2>2. CASE memx_send_memxcmd(t)
      <3>1. Tells(t)
        BY <2>2 DEF memx_send_memxcmd, Doing, Now, Tells
      <3>2. chips' = Does(found[t], Now(t).chip, Now(t).val.code, Now(t).val.param)
        BY <1>1, <2>2, ClashIs
      <3>3. chips'[d].host = chips[d].host
        <4>1. ~MailWord(t)
          BY <2>2 DEF MailWord, memx_send_memxcmd, Doing
        <4> QED
          BY <1>1, <4>1, ChipKept
      <3>4. ChipTypeOK /\ chips \in [Devs -> ChipRecords]
        BY DEF TypeOK, ChipTypeOK
      <3>5. PICK r \in ChipRecords :
              /\ Does(found[t], Now(t).chip, Now(t).val.code, Now(t).val.param) = [chips EXCEPT ![found[t]] = r]
              /\ r = IF Now(t).val.code = "t" /\ Now(t).val.param \in Throttles
                     THEN [chips[found[t]] EXCEPT !.throttling[Now(t).chip] = Now(t).val.param] ELSE chips[found[t]]
        <4> DEFINE f == found[t]
                   b == Now(t).chip
                   code == Now(t).val.code
                   p == Now(t).val.param
        <4>1. f \in Devs /\ b \in Chips
          BY <1>3, <1>4
        <4> HIDE DEF f, b, code, p
        <4>2. \E r \in ChipRecords :
                /\ Does(f, b, code, p) = [chips EXCEPT ![f] = r]
                /\ r = IF code = "t" /\ p \in Throttles THEN [chips[f] EXCEPT !.throttling[b] = p] ELSE chips[f]
          BY <3>4, <4>1, DoesIs
        <4> QED
          BY <4>2 DEF f, b, code, p
      <3>6. d # found[t] => chips'[d] = chips[d]
        BY <3>2, <3>4, <3>5
      <3>7. d = found[t] => chips'[d] = r
        BY <3>2, <3>4, <3>5
      <3>8. chips[found[t]].throttling \in [Chips -> Throttles] /\ chips[found[t]] \in ChipRecords
        BY <1>3, <3>4 DEF ChipRecords
      <3>9. CASE op[t].call.file = "thermalthrottling"
        <4>1. r = [chips[found[t]] EXCEPT !.throttling[Now(t).chip] = op[t].call.cmd]
          BY <1>11, <3>1, <3>5, <3>9
        <4>2. r.throttling = [chips[found[t]].throttling EXCEPT ![Now(t).chip] = op[t].call.cmd]
          BY <3>8, <4>1 DEF ChipRecords
        <4>3. chips'[d].throttling[c] = IF d = found[t] /\ c = Now(t).chip THEN op[t].call.cmd ELSE chips[d].throttling[c]
          BY <1>4, <3>6, <3>7, <3>8, <4>2
        <4> QED
          BY <1>9, <3>1, <3>3, <3>9, <4>3 DEF Effect
      <3>10. CASE op[t].call.file # "thermalthrottling"
        <4>1. chips'[d] = chips[d]
          BY <2>3, <3>1, <3>5, <3>6, <3>7, <3>10
        <4> QED
          BY <3>10, <4>1 DEF Effect
      <3> QED
        BY <3>9, <3>10
    <2> QED
      BY <2>1, <2>2
  <1> QED
    BY <1>1, <1>2, <1>3, <1>4, <1>5, <1>6, <1>7, <1>8, <1>12, <1>13

(* A command for throttling that waits has a parameter.                    *)
Lawful == \A d \in Devs, c \in Chips : chips[d].host[c].commd.code = "t" => chips[d].host[c].commd.param # Whatever

(* Commands for throttling, rmtcmd's too, come with a parameter.           *)
LEMMA LawfulStep ==
  ASSUME TypeOK, ScriptInv, Lawful, NEW t \in Tasks, Operation(t)
  PROVE  Lawful'
  <1>1. CASE Start(t)
    BY <1>1 DEF Start, Lawful
  <1>2. CASE Follow(t) /\ ~MailWord(t)
    <2>1. \A d \in Devs : chips'[d].host = chips[d].host
      BY <1>2, ChipKept
    <2> QED
      BY <2>1 DEF Lawful
  <1>3. CASE MailWord(t)
    <2>1. ASSUME NEW d \in Devs, NEW c \in Chips, chips'[d].host[c].commd.code = "t"
          PROVE  chips'[d].host[c].commd.param # Whatever
      <3>1. /\ d # found[t] \/ c # Now(t).chip => chips'[d].host[c] = chips[d].host[c]
            /\ d = found[t] /\ c = Now(t).chip => chips'[d].host[c] = [chips[d].host[c] EXCEPT ![Now(t).reg] = Now(t).val]
            /\ chips[d].host[c] \in Mailboxes /\ Now(t).reg \in {"param", "param2", "commd"}
        BY <1>3, MailWrites
      <3>2. CASE chips'[d].host[c].commd = chips[d].host[c].commd
        BY <2>1, <3>2 DEF Lawful
      <3>3. CASE chips'[d].host[c].commd # chips[d].host[c].commd
        <4>1. Now(t).reg = "commd" /\ chips'[d].host[c].commd = Now(t).val
          BY SMTT(30), <3>1, <3>3 DEF Mailboxes
        <4>2. Doing(t, "mail") /\ Now(t).do = "mail"
          BY <1>3 DEF MailWord, Doing, Now
        <4> DEFINE e == Section(model, op[t].call)
                   k == Len(e) + 1 - Len(todo[t])
        <4>3. Inner(t) /\ Kind(op[t].call, e, k) /\ Now(t) = e[k]
          BY <4>2, Inside DEF Inner
        <4> QED
          BY <2>1, <4>1, <4>2, <4>3 DEF Kind
      <3> QED
        BY <3>2, <3>3
    <2> QED
      BY <2>1 DEF Lawful
  <1> QED
    BY <1>1, <1>2, <1>3, StartOrFollow

ThrottlesAgree ==
  /\ \A t, u \in Tasks : Telling(t) /\ Telling(u) => t = u
  /\ \A t \in Tasks, c \in Chips : Telling(t) /\ Reached(t, c) => Effect(found[t], c) = op[t].call.cmd
  /\ \A d \in Devs \ past.remote, c \in Chips :
       (\A t \in Tasks : Telling(t) /\ found[t] = d => ~Reached(t, c)) => Effect(d, c) = disabled[d]

(* The two parts of the invariant about throttling.                        *)
LEMMA ThrottleParts == ThrottleInv <=> Lawful /\ (~past.clash => ThrottlesAgree)
  BY DEF ThrottleInv, Lawful, ThrottlesAgree

(* What a chip will do changes only with its mailbox and its throttling.   *)
LEMMA EffectKept ==
  ASSUME NEW d \in Devs, chips'[d].host = chips[d].host, chips'[d].throttling = chips[d].throttling
  PROVE  \A c \in Chips : Effect(d, c)' = Effect(d, c)
  BY DEF Effect

(* Nor is the history of commands touched by an operation that begins.     *)
LEMMA StartKept ==
  ASSUME TypeOK, NEW t \in Tasks, Start(t)
  PROVE  past'.remote = past.remote /\ past'.clash = past.clash
  <1>1. past \in Histories
    BY DEF TypeOK
  <1> QED
    BY <1>1 DEF Start, Histories

(* An operation that tells nobody.                                         *)
LEMMA AgreeKept ==
  ASSUME TypeOK, ScriptInv, DirInv, ThrottlesAgree, NEW t \in Tasks, Operation(t),
         ~MailWord(t), ~memx_send_memxcmd(t), ~SetThrottle(t)
  PROVE  ThrottlesAgree'
  <1>1. /\ \A d \in Devs : chips'[d].host = chips[d].host /\ chips'[d].throttling = chips[d].throttling
        /\ disabled' = disabled /\ past'.remote = past.remote
    BY StartOrFollow, ChipKept, Kept, StartKept DEF Start
  <1>2. \A d \in Devs, c \in Chips : Effect(d, c)' = Effect(d, c)
    BY <1>1, EffectKept
  <1>3. ~Telling(t)
    <2>1. CASE Start(t)
      BY <2>1 DEF Start, Telling, Begun, Inner
    <2>2. CASE Follow(t) /\ Telling(t)
      <3>1. Inner(t) /\ op[t].call.file = "thermalthrottling"
        BY <2>2 DEF Telling, Begun
      <3>2. Now(t).do \in {"mail", "send", "throttle"}
        BY <3>1, ThermalPlace DEF Throttle
      <3> QED
        BY <2>2, <3>2, Acts
    <2> QED
      BY <2>1, <2>2, StartOrFollow
  <1>4. ~Telling(t)'
    <2>1. ASSUME Telling(t)'
          PROVE  FALSE
      <3>1. Follow(t) /\ Inner(t) /\ op[t].call.file = "thermalthrottling"
        BY <2>1, TellingOwn
      <3>2. Now(t).do \in {"mail", "send", "throttle"}
        BY <3>1, ThermalPlace DEF Throttle
      <3> QED
        BY <3>1, <3>2, Acts
    <2> QED
      BY <2>1
  <1>5. ASSUME NEW u \in Tasks
        PROVE  /\ Telling(u)' <=> Telling(u)
               /\ Telling(u) => u # t /\ found'[u] = found[u] /\ op'[u] = op[u] /\ \A c : Reached(u, c)' <=> Reached(u, c)
    BY <1>3, <1>4, TellingOther, OthersStay
  <1>6. ASSUME NEW u \in Tasks, NEW c \in Chips, Telling(u)', Reached(u, c)'
        PROVE  Effect(found[u], c)' = op'[u].call.cmd
    <2>1. Telling(u) /\ Reached(u, c) /\ found'[u] = found[u] /\ op'[u] = op[u]
      BY <1>5, <1>6
    <2>2. found[u] \in Devs
      BY <2>1, ThermalPlace DEF Telling, Begun
    <2>3. Effect(found[u], c) = op[u].call.cmd
      BY <2>1 DEF ThrottlesAgree
    <2>4. Effect(found[u], c)' = chips'[found'[u]].throttling[c] \/ Effect(found[u], c)' = chips'[found'[u]].host[c].commd.param
      BY DEF Effect
    <2> QED
      BY <1>1, <2>1, <2>2, <2>3 DEF Effect
  <1>7. ASSUME NEW d \in Devs \ past'.remote, NEW c \in Chips, \A u \in Tasks : Telling(u)' /\ found'[u] = d => ~Reached(u, c)'
        PROVE  Effect(d, c)' = disabled'[d]
    <2>1. \A u \in Tasks : Telling(u) /\ found[u] = d => ~Reached(u, c)
      BY <1>5, <1>7
    <2> QED
      BY <1>1, <1>2, <2>1 DEF ThrottlesAgree
  <1>8. \A u, v \in Tasks : Telling(u)' /\ Telling(v)' => u = v
    BY <1>5 DEF ThrottlesAgree
  <1> QED
    BY <1>6, <1>7, <1>8 DEF ThrottlesAgree

(* The next step of a section.                                             *)
LEMMA InnerNext ==
  ASSUME TypeOK, ScriptInv, NEW t \in Tasks, Inner(t), Len(todo[t]) > 1, todo'[t] = Tail(todo[t]), op' = op, model' = model
  PROVE  Inner(t)' /\ Len(todo'[t]) = Len(todo[t]) - 1
  <1> DEFINE e == Section(model, op[t].call)
             s == Tail(todo[t])
             l == Len(todo[t])
  <1>1. /\ Len(s) = l - 1 /\ l <= Len(e) /\ l \in Nat /\ Len(e) \in Nat /\ l > 1
        /\ s \in Seq(Steps) /\ e \in Seq(Steps) /\ Aligned(model, s, e) /\ Kinds(op[t].call, e)
    BY Standing DEF Inner
  <1> HIDE DEF s, e, l
  <1>2. Len(s) > 0 /\ Len(s) <= Len(e) /\ Len(e) + 1 - Len(s) \in 1..Len(e)
    BY <1>1
  <1>3. s # <<>>
    BY <1>2
  <1>4. Head(s) = e[Len(e) + 1 - Len(s)]
    BY <1>1, <1>2, <1>3, AlignedHead
  <1>5. Head(s).do # "fault"
    BY <1>1, <1>2, <1>4 DEF Kinds, Kind
  <1>6. s # <<Fault>>
    BY <1>5 DEF Fault
  <1> QED
    BY <1>1, <1>2, <1>3, <1>6 DEF Inner, s, e, l

(* A chip is told.                                                         *)
LEMMA AgreeTold ==
  ASSUME TypeOK, ScriptInv, DirInv, ThrottleInv, NEW t \in Tasks, MailWord(t) \/ memx_send_memxcmd(t), ~past'.clash
  PROVE  ThrottlesAgree'
  <1> DEFINE l == Len(todo[t])
             a == op[t].call
  <1>1. /\ Inner(t) /\ Follow(t) /\ found[t] \in Devs /\ Now(t).chip \in Chips /\ a.file \in Mailing
        /\ past'.remote = past.remote \cup Remote(t)
        /\ \A d \in Devs \ Remote(t), c \in Chips :
             Effect(d, c)' = IF a.file = "thermalthrottling" /\ Tells(t) /\ d = found[t] /\ c = Now(t).chip
                             THEN a.cmd ELSE Effect(d, c)
        /\ \A u \in Tasks \ {t} : ~Telling(u)
        /\ disabled' = disabled /\ ~past.clash
    BY ToldIs
  <1>2. ThrottlesAgree /\ Operation(t)
    BY <1>1, ThrottleParts, StartOrFollow
  <1>3. \A u \in Tasks \ {t} : ~Telling(u)'
    BY <1>1, <1>2, TellingOther
  <1>4. /\ found' = found /\ op' = op /\ model' = model /\ todo'[t] = Tail(todo[t]) /\ Len(Tail(todo[t])) = l - 1
        /\ l \in Nat /\ l > 0 /\ todo[t] # <<Fault>> /\ l <= Len(Section(model, a)) /\ Len(Section(model, a)) \in Nat
    <2>1. Advance(t) /\ found' = found /\ op' = op /\ model' = model
      BY DEF MailWord, memx_send_memxcmd
    <2>2. todo[t] \in Seq(Steps) /\ todo[t] # <<>> /\ todo[t] # <<Fault>> /\ l <= Len(Section(model, a)) /\ Len(Section(model, a)) \in Nat
      BY <1>1, AtStep DEF Inner, TypeOK, TaskTypeOK
    <2>3. todo'[t] = Tail(todo[t])
      BY <2>1 DEF Advance, TypeOK, TaskTypeOK
    <2> QED
      BY <2>1, <2>2, <2>3, LengthOf
  <1>5. CASE a.file # "thermalthrottling"
    <2>1. ~Telling(t) /\ ~Telling(t)'
      BY <1>4, <1>5 DEF Telling, Begun
    <2>2. \A d \in Devs \ past'.remote, c \in Chips : Effect(d, c)' = disabled'[d]
      BY <1>1, <1>2, <1>5, <2>1 DEF ThrottlesAgree
    <2>3. \A u \in Tasks : ~Telling(u)'
      BY <1>3, <2>1
    <2> QED
      BY <2>2, <2>3 DEF ThrottlesAgree
  <1>6. CASE a.file = "thermalthrottling"
    <2> DEFINE most == IF model.bus = "pcie" THEN 3 ELSE 2
               D == found[t]
    <2>1. /\ model.bus \in {"pcie", "usb"}
          /\ model.bus = "pcie" => /\ l \in 1..5 /\ (l \in {3, 5} => ~Tells(t))
                                   /\ (l = 4 => Tells(t) /\ Now(t).chip = 0) /\ (l = 2 => Tells(t) /\ Now(t).chip = 1)
          /\ model.bus = "usb" => /\ l \in 1..3 /\ (l = 3 => Tells(t) /\ Now(t).chip = 0) /\ (l = 2 => Tells(t) /\ Now(t).chip = 1)
          /\ l # 1
      <3>1. l = 1 => Now(t) = Throttle(a.cmd)
        BY SMTT(30), <1>1, <1>6, ThermalPlace
      <3>2. Now(t).do \in {"mail", "send"}
        BY DEF MailWord, memx_send_memxcmd, Doing, Now
      <3>3. l # 1
        BY <3>1, <3>2 DEF Throttle
      <3> QED
        BY <1>1, <1>6, <3>3, ThermalPlace DEF Tells, Mail
    <2>2. Telling(t) <=> l <= most
      BY <1>1, <1>6 DEF Telling, Begun
    <2>3. Telling(t)' <=> l - 1 <= most
      <3>1. l > 1
        <4>1. l \in Nat /\ l > 0 /\ l # 1
          BY <1>4, <2>1
        <4> HIDE DEF l
        <4> QED
          BY <4>1
      <3>2. Inner(t)'
        BY <1>1, <1>4, <3>1, InnerNext
      <3> QED
        BY <1>4, <1>6, <3>2 DEF Telling, Begun
    <2>4. \A c \in Chips : Reached(t, c) <=> c = 0
      BY <2>1 DEF Reached
    <2>5. \A c \in Chips : Reached(t, c)' <=> c = 0 \/ l = 2
      BY <1>4 DEF Reached
    <2> HIDE DEF l, D, a
    <2>10. Remote(t) = {} /\ past'.remote = past.remote
      BY <1>1, <1>6 DEF Remote, a
    <2>6. ASSUME NEW d \in Devs, d = D, NEW c \in Chips, Telling(t)', Reached(t, c)'
          PROVE  Effect(d, c)' = a.cmd
      <3>1. CASE Tells(t) /\ c = Now(t).chip
        BY <1>1, <1>6, <2>6, <2>10, <3>1 DEF D
      <3>2. CASE ~(Tells(t) /\ c = Now(t).chip)
        <4>1. l <= most /\ c = 0
          BY <1>4, <2>1, <2>3, <2>5, <2>6, <3>2 DEF Chips
        <4>2. Effect(d, c) = a.cmd
          BY <1>2, <2>2, <2>4, <2>6, <4>1 DEF ThrottlesAgree, D, a
        <4> QED
          BY <1>1, <2>6, <2>10, <3>2, <4>2 DEF D
      <3> QED
        BY <3>1, <3>2
    <2>7. ASSUME NEW d \in Devs \ past'.remote, NEW c \in Chips, \A u \in Tasks : Telling(u)' /\ found'[u] = d => ~Reached(u, c)'
          PROVE  Effect(d, c)' = disabled'[d]
      <3>1. ~(Tells(t) /\ d = D /\ c = Now(t).chip)
        BY <1>4, <2>1, <2>3, <2>5, <2>7 DEF D
      <3>2. \A u \in Tasks : Telling(u) /\ found[u] = d => ~Reached(u, c)
        BY <1>1, <1>4, <2>1, <2>2, <2>3, <2>4, <2>5, <2>7
      <3>3. Effect(d, c) = disabled[d]
        BY <1>2, <2>7, <2>10, <3>2 DEF ThrottlesAgree
      <3> QED
        BY <1>1, <2>10, <3>1, <3>3 DEF D
    <2>8. ASSUME NEW u \in Tasks, NEW c \in Chips, Telling(u)', Reached(u, c)'
          PROVE  Effect(found[u], c)' = op'[u].call.cmd
      <3>1. u = t
        BY <1>3, <2>8
      <3>2. PICK d \in Devs : d = D
        BY <1>1 DEF D
      <3>3. Effect(d, c)' = a.cmd
        BY <2>6, <2>8, <3>1, <3>2
      <3> QED
        BY <1>4, <3>1, <3>2, <3>3 DEF D, a, Effect
    <2>9. \A u, v \in Tasks : Telling(u)' /\ Telling(v)' => u = v
      BY <1>3
    <2> QED
      BY <2>7, <2>8, <2>9 DEF ThrottlesAgree
  <1> QED
    BY <1>5, <1>6

(* The driver notes what it told them.                                     *)
LEMMA AgreeNoted ==
  ASSUME TypeOK, ScriptInv, DirInv, ThrottlesAgree, NEW t \in Tasks, SetThrottle(t)
  PROVE  ThrottlesAgree'
  <1> DEFINE a == op[t].call
  <1>1. /\ Doing(t, "throttle") /\ Now(t).do = "throttle" /\ Follow(t) /\ Operation(t)
        /\ disabled' = [disabled EXCEPT ![found[t]] = Now(t).val] /\ Advance(t) /\ found' = found /\ op' = op /\ model' = model /\ chips' = chips
    BY DEF SetThrottle, Doing, Now, Follow, Operation
  <1>9. past'.remote = past.remote \ {found[t]}
    <2>1. past \in Histories
      BY DEF TypeOK
    <2> QED
      BY <2>1 DEF SetThrottle, Histories
  <1>2. Inner(t) /\ Kind(a, Section(model, a), Len(Section(model, a)) + 1 - Len(todo[t])) /\ Now(t) = Section(model, a)[Len(Section(model, a)) + 1 - Len(todo[t])]
    BY <1>1, Inside DEF Inner
  <1>3. a.file = "thermalthrottling"
    BY <1>1, <1>2 DEF Kind
  <1>4. Len(todo[t]) = 1 /\ found[t] \in Devs /\ Now(t) = Throttle(a.cmd)
    BY <1>1, <1>2, <1>3, ThermalPlace
  <1>5. Telling(t) /\ \A c : Reached(t, c)
    BY <1>2, <1>3, <1>4 DEF Telling, Begun, Reached
  <1>6. todo'[t] = <<>>
    <2>1. todo[t] \in Seq(Steps) /\ todo[t] # <<>> /\ todo'[t] = Tail(todo[t])
      BY <1>1, <1>2 DEF TypeOK, TaskTypeOK, Advance, Inner
    <2>2. todo'[t] \in Seq(Steps) /\ Len(todo'[t]) = 0
      BY <1>4, <2>1, LengthOf
    <2> QED
      BY <2>2, EmptySeq
  <1>7. \A u \in Tasks : ~Telling(u)'
    <2>1. ~Telling(t)'
      BY <1>6 DEF Telling, Begun, Inner
    <2>2. \A u \in Tasks \ {t} : ~Telling(u)
      BY <1>5 DEF ThrottlesAgree
    <2> QED
      BY <1>1, <2>1, <2>2, TellingOther
  <1>8. ASSUME NEW d \in Devs \ past'.remote, NEW c \in Chips
        PROVE  Effect(d, c)' = disabled'[d]
    <2>1. Effect(d, c)' = Effect(d, c)
      BY <1>1 DEF Effect
    <2>2. disabled \in [Devs -> Throttles]
      BY DEF TypeOK
    <2>3. CASE d = found[t]
      <3>1. Effect(d, c) = a.cmd
        BY <1>5, <2>3 DEF ThrottlesAgree
      <3> QED
        BY <1>1, <1>4, <2>1, <2>2, <2>3, <3>1 DEF Throttle
    <2>4. CASE d # found[t]
      <3>1. \A u \in Tasks : Telling(u) => u = t
        BY <1>5 DEF ThrottlesAgree
      <3>2. Effect(d, c) = disabled[d]
        BY <1>8, <1>9, <2>4, <3>1 DEF ThrottlesAgree
      <3> QED
        BY <1>1, <1>4, <2>1, <2>2, <2>4, <3>2
    <2> QED
      BY <2>3, <2>4
  <1> QED
    BY <1>7, <1>8 DEF ThrottlesAgree

(* Nothing happens to it.                                                  *)
LEMMA AgreeSame ==
  ASSUME TypeOK, ScriptInv, ThrottlesAgree, UNCHANGED <<model, todo, op, found, disabled>>, past'.remote = past.remote,
         \A d \in Devs, c \in Chips : Effect(d, c)' = Effect(d, c)
  PROVE  ThrottlesAgree'
  <1>1. ASSUME NEW u \in Tasks
        PROVE  /\ Telling(u)' <=> Telling(u)
               /\ \A c : Reached(u, c)' <=> Reached(u, c)
    BY DEF Telling, Begun, Inner, Reached
  <1>2. ASSUME NEW u \in Tasks, NEW c \in Chips, Telling(u)', Reached(u, c)'
        PROVE  Effect(found[u], c)' = op'[u].call.cmd
    <2>1. Telling(u) /\ Reached(u, c)
      BY <1>1, <1>2
    <2>2. PICK d \in Devs : d = found[u]
      BY <2>1, ThermalPlace DEF Telling, Begun
    <2>3. Effect(d, c) = op[u].call.cmd
      BY <2>1, <2>2 DEF ThrottlesAgree
    <2>4. Effect(d, c)' = op'[u].call.cmd
      BY <2>3
    <2> QED
      BY <2>2, <2>4 DEF Effect
  <1>3. ASSUME NEW d \in Devs \ past'.remote, NEW c \in Chips, \A u \in Tasks : Telling(u)' /\ found'[u] = d => ~Reached(u, c)'
        PROVE  Effect(d, c)' = disabled'[d]
    <2>1. \A u \in Tasks : Telling(u) /\ found[u] = d => ~Reached(u, c)
      BY <1>1, <1>3
    <2> QED
      BY <2>1 DEF ThrottlesAgree
  <1>4. \A u, v \in Tasks : Telling(u)' /\ Telling(v)' => u = v
    BY <1>1 DEF ThrottlesAgree
  <1> QED
    BY <1>2, <1>3, <1>4 DEF ThrottlesAgree

LEMMA ThrottleKept ==
  ASSUME TypeOK, ScriptInv, ThrottleInv, UNCHANGED <<model, todo, op, found, disabled>>, past'.clash = past.clash, past'.remote = past.remote,
         \A d \in Devs : chips'[d].host = chips[d].host /\ chips'[d].throttling = chips[d].throttling
  PROVE  ThrottleInv'
  <1>1. \A d \in Devs, c \in Chips : Effect(d, c)' = Effect(d, c)
    BY EffectKept
  <1>2. Lawful'
    BY ThrottleParts DEF Lawful
  <1>3. ~past'.clash => ThrottlesAgree'
    BY <1>1, AgreeSame, ThrottleParts
  <1>4. ThrottleInv' <=> Lawful' /\ (~past'.clash => ThrottlesAgree')
    BY DEF ThrottleInv, Lawful, ThrottlesAgree
  <1> QED
    BY <1>2, <1>3, <1>4

(* The firmware takes what was told, with its parameter.                   *)
LEMMA ThrottleTaken ==
  ASSUME TypeOK, ScriptInv, CommandInv, ThrottleInv, NEW d \in Devs, NEW c \in Chips, FwTake(d, c)
  PROVE  ThrottleInv'
  <1>1. /\ past'.clash = past.clash /\ past'.remote = past.remote
        /\ UNCHANGED <<model, todo, op, found, disabled>> /\ chips[d].host[c].commd # Rest
    BY TakenIs DEF taskVars
  <1>2. ASSUME NEW x \in Devs, NEW b \in Chips
        PROVE  /\ x # d \/ b # c => chips'[x].host[b] = chips[x].host[b] /\ chips'[x].throttling[b] = chips[x].throttling[b]
               /\ x = d /\ b = c =>
                   /\ chips'[x].host[b].commd = Rest
                   /\ chips'[x].throttling[b] =
                        IF chips[x].host[b].commd.code = "t" /\ chips[x].host[b].param \in Throttles
                        THEN chips[x].host[b].param ELSE chips[x].throttling[b]
    <2>1. /\ x # d \/ b # c => chips'[x].host[b] = chips[x].host[b] /\ chips'[x].throttling[b] = chips[x].throttling[b]
          /\ x = d /\ b = c =>
                   /\ chips'[x].host[b] = [chips[x].host[b] EXCEPT !.commd = Rest]
                   /\ chips'[x].throttling[b] =
                        IF chips[x].host[b].commd.code = "t" /\ chips[x].host[b].param \in Throttles
                        THEN chips[x].host[b].param ELSE chips[x].throttling[b]
          /\ chips[x].host[b] \in Mailboxes
      BY TakenIs
    <2>2. x = d /\ b = c => chips'[x].host[b].commd = Rest
      BY <2>1 DEF Mailboxes
    <2> QED
      BY <2>1, <2>2
  <1>3. Rest.code = "none"
    BY DEF Rest, Code
  <1>4. Lawful'
    <2>1. ASSUME NEW x \in Devs, NEW b \in Chips, chips'[x].host[b].commd.code = "t"
          PROVE  chips'[x].host[b].commd.param # Whatever
      <3>1. chips'[x].host[b] = chips[x].host[b]
        BY <1>2, <1>3, <2>1
      <3> QED
        BY <2>1, <3>1, ThrottleParts DEF Lawful
    <2> QED
      BY <2>1 DEF Lawful
  <1>5. ASSUME ~past.clash, NEW x \in Devs, NEW b \in Chips
        PROVE  Effect(x, b)' = Effect(x, b)
    <2>1. CASE x # d \/ b # c
      BY <1>2, <2>1 DEF Effect
    <2>2. CASE x = d /\ b = c
      <3>1. Holds(chips[x].host[b])
        BY <1>1, <1>5, <2>2 DEF CommandInv
      <3>2. CASE chips[x].host[b].commd.code = "t"
        <4>1. chips[x].host[b].commd.param # Whatever
          BY <3>2, ThrottleParts DEF Lawful
        <4>2. chips[x].host[b].param = chips[x].host[b].commd.param
          BY <3>1, <4>1 DEF Holds
        <4> QED
          BY <1>2, <1>3, <2>2, <3>2, <4>2 DEF Effect
      <3>3. CASE chips[x].host[b].commd.code # "t"
        BY <1>2, <1>3, <2>2, <3>3 DEF Effect
      <3> QED
        BY <3>2, <3>3
    <2> QED
      BY <2>1, <2>2
  <1>6. ~past'.clash => ThrottlesAgree'
    BY <1>1, <1>5, AgreeSame, ThrottleParts
  <1>7. ThrottleInv' <=> Lawful' /\ (~past'.clash => ThrottlesAgree')
    BY DEF ThrottleInv, Lawful, ThrottlesAgree
  <1> QED
    BY <1>4, <1>6, <1>7

(* What the driver notes of throttling is what the chips do.               *)
LEMMA ThrottleStep ==
  ASSUME TypeOK, ScriptInv, DirInv, CommandInv, ThrottleInv, [Next]_vars
  PROVE  ThrottleInv'
  <1>1. ASSUME NEW t \in Tasks, Operation(t)
        PROVE  ThrottleInv'
    <2>1. Lawful'
      BY <1>1, LawfulStep, ThrottleParts
    <2>2. ASSUME ~past'.clash
          PROVE  ThrottlesAgree'
      <3>1. ThrottlesAgree
        BY <1>1, <2>2, ClashIs, ThrottleParts
      <3> QED
        BY <1>1, <2>2, <3>1, AgreeKept, AgreeTold, AgreeNoted
    <2>3. ThrottleInv' <=> Lawful' /\ (~past'.clash => ThrottlesAgree')
      BY DEF ThrottleInv, Lawful, ThrottlesAgree
    <2> QED
      BY <2>1, <2>2, <2>3
  <1>2. ASSUME NEW d \in Devs, Directory(d)
        PROVE  ThrottleInv'
    <2>1. past \in Histories
      BY DEF TypeOK
    <2>2. PICK s : past' = [past EXCEPT !.settled = s]
      BY <1>2, DirectoryKeeps
    <2>3. past'.clash = past.clash /\ past'.remote = past.remote
      BY <2>1, <2>2 DEF Histories
    <2>4. UNCHANGED <<model, todo, op, found, disabled>> /\ \A x \in Devs : chips'[x].host = chips[x].host /\ chips'[x].throttling = chips[x].throttling
      BY <1>2, DirectoryKeeps DEF taskVars
    <2> QED
      BY <2>3, <2>4, ThrottleKept
  <1>3. ASSUME NEW d \in Devs, Firmware(d)
        PROVE  ThrottleInv'
    <2>1. CASE \E c \in Chips : FwTake(d, c)
      BY <2>1, ThrottleTaken
    <2>2. CASE ~(\E c \in Chips : FwTake(d, c))
      <3>1. /\ UNCHANGED <<model, todo, op, found, disabled>> /\ past' = past
            /\ \A x \in Devs : chips'[x].host = chips[x].host /\ chips'[x].throttling = chips[x].throttling
        BY <1>3, <2>2, FirmwareKeeps DEF taskVars
      <3> QED
        BY <3>1, ThrottleKept
    <2> QED
      BY <2>1, <2>2
  <1>4. ASSUME NEW c \in {"tx", "rx"}, THROUGHPUT_ADD(c)
        PROVE  ThrottleInv'
    BY <1>4, CountKeeps, ThrottleKept DEF taskVars
  <1>5. CASE UNCHANGED vars
    BY <1>5, ThrottleKept DEF vars
  <1> QED
    BY <1>1, <1>2, <1>3, <1>4, <1>5 DEF Next

(* At rest nobody tells: the chips do what the driver notes.               *)
LEMMA ThrottlesAtRest ==
  ASSUME TypeOK, ThrottleInv
  PROVE  ThrottleAgrees
  <1>1. ASSUME NEW d \in Devs \ past.remote, Working(d) = {}, ~past.clash, NEW c \in Chips, chips[d].host[c].commd = Rest
        PROVE  chips[d].throttling[c] = disabled[d]
    <2>1. \A t \in Tasks : Telling(t) /\ found[t] = d => ~Reached(t, c)
      BY <1>1 DEF Working, Telling, Begun, Inner
    <2>2. Effect(d, c) = disabled[d]
      BY <1>1, <2>1 DEF ThrottleInv
    <2> QED
      BY <1>1, <2>2 DEF Effect, Rest, Code
  <1> QED
    BY <1>1 DEF ThrottleAgrees

-----------------------------------------------------------------------------
(* PASS is printed of an image that is in the flash                        *)

FlashOf(t) ==
  todo[t] # <<>> =>
    /\ Updating(t) /\ found[t] \in Devs
    /\ Progress(Len(todo[t]), chips[found[t]], op[t].call.val, got[t].answer)
SameFlash(k, r) ==
  /\ r.memory = k.memory /\ r.param = k.param /\ r.commd = k.commd
  /\ r.busy = k.busy /\ r.burn = k.burn /\ r.flash = k.flash
Tidy == \A d \in Devs : ~chips[d].busy => chips[d].burn = {}

(* The parts of the invariant about the flash.                             *)
LEMMA FlashParts ==
  FlashInv <=> ~past.badpass /\ Tidy /\ (\A t, u \in past.alone : t = u) /\ (\A t \in past.alone : FlashOf(t))
  BY DEF FlashInv, FlashOf, Tidy

(* How far an update is depends only on the chip's flash, memory and       *)
(* answer.                                                                 *)
LEMMA ProgressSame ==
  ASSUME NEW k, NEW r, SameFlash(k, r), NEW l, NEW v, NEW answer, Progress(l, k, v, answer)
  PROVE  Progress(l, r, v, answer)
  BY DEF SameFlash, Progress, Asking, Burning, Burnt

(* An update whose operation does nothing is as far as it was.             *)
LEMMA FlashOfKept ==
  ASSUME NEW t, FlashOf(t), todo'[t] = todo[t], op'[t] = op[t], found'[t] = found[t], got'[t] = got[t], model' = model,
         \A d \in Devs : SameFlash(chips[d], chips'[d])
  PROVE  FlashOf(t)'
  <1>1. ASSUME todo[t] # <<>>
        PROVE  /\ Updating(t)' /\ found'[t] \in Devs
               /\ Progress(Len(todo'[t]), chips'[found'[t]], op'[t].call.val, got'[t].answer)
    <2>1. /\ Updating(t) /\ found[t] \in Devs
          /\ Progress(Len(todo[t]), chips[found[t]], op[t].call.val, got[t].answer)
      BY <1>1 DEF FlashOf
    <2>2. Updating(t)'
      BY <2>1 DEF Updating, Begun, Inner
    <2>3. Progress(Len(todo[t]), chips'[found[t]], op[t].call.val, got[t].answer)
      BY <2>1, ProgressSame
    <2> QED
      BY <2>1, <2>2, <2>3
  <1> QED
    BY <1>1 DEF FlashOf

(* Where an update is.                                                     *)
LEMMA UpdatePlace ==
  ASSUME TypeOK, ScriptInv, NEW t \in Tasks, Inner(t), op[t].call.file = "update_flash", Len(todo[t]) \in 1..6
  PROVE  LET l == Len(todo[t]) IN
         /\ found[t] \in Devs /\ l \in 1..6
         /\ l = 6 => Now(t) = Word(1)
         /\ l = 5 => Now(t) = Word(2)
         /\ l = 4 => Now(t) = Sram("param", 0)
         /\ l = 3 => Now(t) = Sram("commd", "Q")
         /\ l = 2 => Now(t) = Poll
         /\ l = 1 => Now(t) = Verdict
  <1> DEFINE e == Section(model, op[t].call)
             l == Len(todo[t])
  <1>1. /\ Now(t) = e[Len(e) + 1 - l] /\ l \in Nat /\ l > 0 /\ l <= Len(e) /\ Len(e) \in Nat /\ op[t].call \in Calls
        /\ op[t].call.file # "throughput" => found[t] \in Devs
    BY AtStep
  <1>2. UpdateShape(op[t].call, e)
    BY <1>1, UpdateKinds DEF TypeOK
  <1> HIDE DEF e
  <1>3. \A i \in 1..6 : e[Len(e) - 6 + i] = Programming[i]
    BY <1>2 DEF UpdateShape
  <1>4. l \in 1..6
    OBVIOUS
  <1> HIDE DEF l
  <1>5. 7 - l \in 1..6 /\ Len(e) - 6 + (7 - l) = Len(e) + 1 - l
    BY <1>1, <1>4
  <1>6. Now(t) = Programming[7 - l]
    BY <1>1, <1>3, <1>5
  <1>7. /\ Programming[1] = Word(1) /\ Programming[2] = Word(2) /\ Programming[3] = Sram("param", 0)
        /\ Programming[4] = Sram("commd", "Q") /\ Programming[5] = Poll /\ Programming[6] = Verdict
    BY ProgrammingIs
  <1>8. /\ l = 6 => Now(t) = Word(1)
        /\ l = 5 => Now(t) = Word(2)
        /\ l = 4 => Now(t) = Sram("param", 0)
        /\ l = 3 => Now(t) = Sram("commd", "Q")
        /\ l = 2 => Now(t) = Poll
        /\ l = 1 => Now(t) = Verdict
    BY <1>6, <1>7
  <1>9. found[t] \in Devs
    BY <1>1
  <1> QED
    BY <1>4, <1>8, <1>9 DEF l

(* Words for the flash, polls and verdicts are an update's.                *)
LEMMA UpdateActs ==
  ASSUME TypeOK, ScriptInv, NEW t \in Tasks, Follow(t), Now(t).do \in {"word", "sram", "poll", "verdict"}
  PROVE  /\ Inner(t) /\ op[t].call.file = "update_flash" /\ Len(todo[t]) \in 1..6 /\ found[t] \in Devs
         /\ op' = op /\ found' = found /\ model' = model
  <1> DEFINE e == Section(model, op[t].call)
             l == Len(todo[t])
  <1>1. Doing(t, Now(t).do) /\ op' = op /\ model' = model /\ (Now(t).do # "find" => found' = found)
    BY Followed
  <1>2. Inner(t) /\ Kind(op[t].call, e, Len(e) + 1 - l) /\ Now(t) = e[Len(e) + 1 - l]
    BY <1>1, Inside DEF Inner
  <1>3. op[t].call.file = "update_flash" /\ Len(e) + 1 - l > Len(e) - 6
    BY <1>2 DEF Kind
  <1>4. l \in Nat /\ l > 0 /\ Len(e) \in Nat /\ (op[t].call.file # "throughput" => found[t] \in Devs)
    BY <1>2, AtStep
  <1>5. l \in 1..6
    <2> HIDE DEF e, l
    <2> QED
      BY <1>3, <1>4
  <1> QED
    BY <1>1, <1>2, <1>3, <1>4, <1>5

LEMMA FlashInit ==
  ASSUME Init
  PROVE  FlashInv
  <1>1. past.alone = {} /\ ~past.badpass
    BY DEF Init
  <1>2. \A d \in Devs : chips[d].burn = {}
    BY DEF Init, Chip0
  <1> QED
    BY <1>1, <1>2 DEF FlashInv

(* A word that is written.                                                 *)
LEMMA FlashWrites ==
  ASSUME TypeOK, ScriptInv, DirInv, FlashInv, NEW t \in Tasks, memx_sram_write(t)
  PROVE  FlashInv'
  <1> DEFINE l == Len(todo[t])
             v == op[t].call.val
             D == found[t]
             r == chips'[D]
  <1>0. chips \in [Devs -> ChipRecords] /\ past \in Histories
    BY DEF TypeOK, ChipTypeOK
  <1>1. Follow(t) /\ Operation(t) /\ Advance(t) /\ Doing(t, Now(t).do) /\ Now(t).do \in {"word", "sram"} /\ past' = [past EXCEPT !.alone = Undisturbed(t)]
    BY DEF memx_sram_write, Follow, Operation, Doing, Now
  <1>2. /\ Inner(t) /\ op[t].call.file = "update_flash" /\ l \in 1..6 /\ D \in Devs
        /\ op' = op /\ found' = found /\ model' = model
    BY <1>1, UpdateActs
  <1>3. /\ l = 6 => Now(t) = Word(1)
        /\ l = 5 => Now(t) = Word(2)
        /\ l = 4 => Now(t) = Sram("param", 0)
        /\ l = 3 => Now(t) = Sram("commd", "Q")
        /\ l \notin {1, 2}
    <2>1. l = 2 => Now(t) = Poll
      BY <1>2, UpdatePlace
    <2>2. l = 1 => Now(t) = Verdict
      BY <1>2, UpdatePlace
    <2>3. l \notin {1, 2}
      BY <1>1, <2>1, <2>2 DEF Poll, Verdict
    <2> QED
      BY <1>2, <2>3, UpdatePlace
  <1>4. past'.alone = Undisturbed(t) /\ past'.badpass = past.badpass
    BY <1>0, <1>1 DEF Histories
  <1>5. past'.alone \subseteq {t}
    BY <1>4 DEF Undisturbed
  <1>6. \A d \in Devs : chips'[d].busy = chips[d].busy /\ chips'[d].burn = chips[d].burn
    BY <1>1, ChipKept
  <1>7. /\ l \in {5, 6} => r.memory = [chips[D].memory EXCEPT ![Now(t).i] = v] /\ r.param = chips[D].param /\ r.commd = chips[D].commd
        /\ l = 4 => r.memory = chips[D].memory /\ r.param = 0 /\ r.commd = chips[D].commd
        /\ l = 3 => r.memory = chips[D].memory /\ r.param = chips[D].param /\ r.commd = "Q"
        /\ r.flash = chips[D].flash
    <2>1. chips' = IF Doing(t, "word") THEN [chips EXCEPT ![D].memory[Now(t).i] = op[t].call.val]
                                       ELSE [chips EXCEPT ![D][Now(t).reg] = Now(t).val]
      BY DEF memx_sram_write
    <2>2. chips[D] \in ChipRecords
      BY <1>0, <1>2
    <2>3. Doing(t, "word") <=> Now(t).do = "word"
      BY <1>1 DEF Doing, Now
    <2> HIDE DEF l, D
    <2>4. CASE l \in {5, 6}
      <3>1. chips' = [chips EXCEPT ![D].memory[Now(t).i] = op[t].call.val]
        BY <1>3, <2>1, <2>3, <2>4 DEF Word
      <3> QED
        BY <1>0, <1>2, <2>2, <2>4, <3>1 DEF ChipRecords
    <2>5. CASE l = 4
      <3>1. chips' = [chips EXCEPT ![D]["param"] = 0]
        <4>1. Now(t).do = "sram" /\ Now(t).reg = "param" /\ Now(t).val = 0
          BY <1>3, <2>5 DEF Sram
        <4>2. chips' = [chips EXCEPT ![D][Now(t).reg] = Now(t).val]
          BY <2>1, <2>3, <4>1
        <4> QED
          BY <4>1, <4>2
      <3> QED
        BY <1>0, <1>2, <2>2, <2>5, <3>1 DEF ChipRecords
    <2>6. CASE l = 3
      <3>1. chips' = [chips EXCEPT ![D]["commd"] = "Q"]
        <4>1. Now(t).do = "sram" /\ Now(t).reg = "commd" /\ Now(t).val = "Q"
          BY <1>3, <2>6 DEF Sram
        <4>2. chips' = [chips EXCEPT ![D][Now(t).reg] = Now(t).val]
          BY <2>1, <2>3, <4>1
        <4> QED
          BY <4>1, <4>2
      <3> QED
        BY <1>0, <1>2, <2>2, <2>6, <3>1 DEF ChipRecords
    <2> QED
      BY <1>2, <1>3, <2>4, <2>5, <2>6
  <1>8. ASSUME t \in past'.alone
        PROVE  FlashOf(t)'
    <2>1. todo'[t] = Tail(todo[t])
      BY <1>1 DEF Advance, TypeOK, TaskTypeOK
    <2>2. l > 1
      <3> HIDE DEF l
      <3> QED
        BY <1>2, <1>3
    <2>3. Inner(t)' /\ Len(todo'[t]) = l - 1
      BY <1>2, <2>1, <2>2, InnerNext
    <2>4. l = 6 \/ t \in past.alone
      <3>1. Word(2) # Word(1) /\ Sram("param", 0) # Word(1) /\ Sram("commd", "Q") # Word(1)
        BY DEF Word, Sram
      <3>2. l # 6 => Now(t) # Word(1)
        <4> HIDE DEF l
        <4> QED
          BY <1>2, <1>3, <3>1
      <3> QED
        BY <1>4, <1>8, <3>2 DEF Undisturbed
    <2>5. t \in past.alone => l <= 5 /\ Progress(l, chips[D], v, got[t].answer)
      <3>1. ASSUME t \in past.alone
            PROVE  l <= 5 /\ Progress(l, chips[D], v, got[t].answer)
        <4>1. FlashOf(t) /\ todo[t] # <<>>
          BY <1>2, <3>1, FlashParts DEF Inner
        <4> QED
          BY <4>1 DEF FlashOf, Updating, Begun
      <3> QED
        BY <3>1
    <2>6. l = 6 => chips[D].commd = "none" /\ ~chips[D].busy
      <3>1. ASSUME l = 6
            PROVE  chips[D].commd = "none" /\ ~chips[D].busy
        <4>1. t \notin past.alone
          BY <2>5, <3>1
        <4> QED
          BY <1>4, <1>8, <4>1 DEF Undisturbed
      <3> QED
        BY <3>1
    <2>7. chips[D].memory \in [{1, 2} -> Values \cup {"blank"}]
      BY <1>0, <1>2, TwoWords DEF ChipRecords, Content
    <2>8. r.busy = chips[D].busy
      BY <1>2, <1>6
    <2>9. Progress(l - 1, r, v, got'[t].answer)
      <3> HIDE DEF l, D, r, v
      <3>1. CASE l = 6
        <4>1. r.memory[1] = v
          BY <1>3, <1>7, <2>7, <3>1 DEF Word
        <4> QED
          BY <1>7, <2>6, <2>8, <3>1, <4>1 DEF Progress
      <3>2. CASE l = 5
        <4>1. r.memory[2] = v /\ r.memory[1] = chips[D].memory[1]
          BY <1>3, <1>7, <2>7, <3>2 DEF Word
        <4> QED
          BY <1>7, <2>4, <2>5, <2>8, <3>2, <4>1 DEF Progress
      <3>3. CASE l = 4
        BY <1>7, <2>4, <2>5, <2>8, <3>3 DEF Progress
      <3>4. CASE l = 3
        BY <1>7, <2>4, <2>5, <2>8, <3>4 DEF Progress, Asking
      <3> QED
        BY <1>2, <1>3, <3>1, <3>2, <3>3, <3>4
    <2>10. Updating(t)'
      <3>1. Len(todo'[t]) <= 5
        <4> HIDE DEF l
        <4> QED
          BY <1>2, <2>3
      <3> QED
        BY <1>2, <2>3, <3>1 DEF Updating, Begun
    <2> QED
      BY <1>2, <2>3, <2>9, <2>10 DEF FlashOf
  <1>9. ~past'.badpass /\ Tidy'
    BY <1>4, <1>6, FlashParts DEF Tidy
  <1>10. FlashInv' <=> ~past'.badpass /\ Tidy' /\ (\A x, u \in past'.alone : x = u) /\ (\A x \in past'.alone : FlashOf(x)')
    BY DEF FlashInv, FlashOf, Tidy
  <1> QED
    BY <1>5, <1>8, <1>9, <1>10

(* The answer is read.                                                     *)
LEMMA FlashAnswered ==
  ASSUME TypeOK, ScriptInv, DirInv, FlashInv, NEW t \in past.alone, t \in Tasks, PollAnswer(t)
  PROVE  FlashOf(t)'
  <1> DEFINE l == Len(todo[t])
             D == found[t]
  <1>1. Follow(t) /\ Operation(t) /\ Advance(t) /\ Now(t).do = "poll" /\ chips' = chips /\ chips[D].param # 0 /\ Note(t, "answer", chips[D].param)
    BY DEF PollAnswer, Follow, Operation, Doing, Now
  <1>2. Inner(t) /\ op[t].call.file = "update_flash" /\ l \in 1..6 /\ D \in Devs /\ op' = op /\ found' = found /\ model' = model
    BY <1>1, UpdateActs
  <1>3. l = 2
    <2>1. /\ l = 6 => Now(t) = Word(1)
          /\ l = 5 => Now(t) = Word(2)
          /\ l = 4 => Now(t) = Sram("param", 0)
          /\ l = 3 => Now(t) = Sram("commd", "Q")
          /\ l = 1 => Now(t) = Verdict
      BY <1>2, UpdatePlace
    <2> HIDE DEF l
    <2> QED
      BY <1>1, <1>2, <2>1 DEF Word, Sram, Verdict
  <1>4. FlashOf(t) /\ todo[t] # <<>>
    BY <1>2, FlashParts DEF Inner
  <1>5. Progress(2, chips[D], op[t].call.val, got[t].answer)
    BY <1>3, <1>4 DEF FlashOf
  <1>6. todo'[t] = Tail(todo[t])
    BY <1>1 DEF Advance, TypeOK, TaskTypeOK
  <1>7. Inner(t)' /\ Len(todo'[t]) = 1
    <2>1. Len(todo[t]) = 2 /\ Len(todo[t]) > 1
      BY <1>3
    <2> HIDE DEF l, D
    <2>2. Inner(t)' /\ Len(todo'[t]) = Len(todo[t]) - 1
      BY <1>2, <1>6, <2>1, InnerNext
    <2> QED
      BY <2>1, <2>2
  <1>8. got'[t].answer = chips[D].param
    BY <1>1 DEF Note, TypeOK, TaskTypeOK, Readings
  <1>9. Progress(1, chips[D], op[t].call.val, chips[D].param)
    BY <1>1, <1>5 DEF Progress, Asking, Burning
  <1>10. Updating(t)'
    BY <1>2, <1>7 DEF Updating, Begun
  <1> QED
    BY <1>1, <1>2, <1>7, <1>8, <1>9, <1>10 DEF FlashOf

(* PASS or FAILED.                                                         *)
LEMMA FlashReported ==
  ASSUME TypeOK, ScriptInv, DirInv, FlashInv, NEW t \in Tasks, Report(t)
  PROVE  ~past'.badpass /\ todo'[t] = <<>>
  <1> DEFINE l == Len(todo[t])
             D == found[t]
  <1>1. Follow(t) /\ Advance(t) /\ Now(t).do = "verdict"
    BY DEF Report, Follow, Doing, Now
  <1>2. Inner(t) /\ op[t].call.file = "update_flash" /\ l \in 1..6 /\ D \in Devs
    BY <1>1, UpdateActs
  <1>3. l = 1
    <2>1. /\ l = 6 => Now(t) = Word(1)
          /\ l = 5 => Now(t) = Word(2)
          /\ l = 4 => Now(t) = Sram("param", 0)
          /\ l = 3 => Now(t) = Sram("commd", "Q")
          /\ l = 2 => Now(t) = Poll
      BY <1>2, UpdatePlace
    <2> HIDE DEF l
    <2> QED
      BY <1>1, <1>2, <2>1 DEF Word, Sram, Poll
  <1>4. todo'[t] = <<>>
    <2>1. todo[t] \in Seq(Steps) /\ todo[t] # <<>> /\ todo'[t] = Tail(todo[t])
      BY <1>1, <1>2 DEF TypeOK, TaskTypeOK, Advance, Inner
    <2>2. todo'[t] \in Seq(Steps) /\ Len(todo'[t]) = 0
      BY <1>3, <2>1, LengthOf
    <2> QED
      BY <2>2, EmptySeq
  <1>5. past'.badpass = (past.badpass \/ (/\ (IF model.bus = "pcie" THEN chips[D].param ELSE got[t].answer) = 1
                                          /\ t \in past.alone
                                          /\ \E i \in Range(Words) : chips[D].flash[i] # op[t].call.val))
    BY DEF Report, TypeOK, Histories
  <1>6. ASSUME t \in past.alone, (IF model.bus = "pcie" THEN chips[D].param ELSE got[t].answer) = 1
        PROVE  \A i \in Range(Words) : chips[D].flash[i] = op[t].call.val
    <2>1. FlashOf(t) /\ todo[t] # <<>>
      BY <1>2, <1>6, FlashParts DEF Inner
    <2>2. Progress(1, chips[D], op[t].call.val, got[t].answer)
      BY <1>3, <2>1 DEF FlashOf
    <2>3. Burnt(chips[D], op[t].call.val) /\ chips[D].param = 1
      BY <1>6, <2>2 DEF Progress
    <2> QED
      BY <2>3, TwoWords DEF Burnt
  <1> QED
    BY <1>4, <1>5, <1>6, FlashParts

LEMMA FlashKept ==
  ASSUME FlashInv, past'.alone \subseteq past.alone, past'.badpass = past.badpass, model' = model,
         \A u \in past'.alone : todo'[u] = todo[u] /\ op'[u] = op[u] /\ found'[u] = found[u] /\ got'[u] = got[u],
         \A d \in Devs : SameFlash(chips[d], chips'[d])
  PROVE  FlashInv'
  <1>1. Tidy'
    BY FlashParts DEF Tidy, SameFlash
  <1>2. ASSUME NEW u \in past'.alone
        PROVE  FlashOf(u)'
    BY <1>2, FlashParts, FlashOfKept
  <1>3. FlashInv' <=> ~past'.badpass /\ Tidy' /\ (\A x, u \in past'.alone : x = u) /\ (\A x \in past'.alone : FlashOf(x)')
    BY DEF FlashInv, FlashOf, Tidy
  <1> QED
    BY <1>1, <1>2, <1>3, FlashParts

(* The flash under the steps of an operation.                              *)
LEMMA FlashOperation ==
  ASSUME TypeOK, ScriptInv, DirInv, FlashInv, NEW t \in Tasks, Operation(t)
  PROVE  FlashInv'
  <1>0. past \in Histories /\ past.alone \subseteq Tasks
    BY DEF TypeOK, Histories
  <1>1. CASE Start(t)
    <2>1. past'.alone = past.alone \ {t} /\ past'.badpass = past.badpass
      BY <1>0, <1>1 DEF Start, Histories
    <2>2. \A u \in past'.alone : todo'[u] = todo[u] /\ op'[u] = op[u] /\ found'[u] = found[u] /\ got'[u] = got[u]
      BY <1>0, <1>1, <2>1, OthersStay
    <2>3. model' = model /\ \A d \in Devs : SameFlash(chips[d], chips'[d])
      BY <1>1 DEF Start, SameFlash
    <2> QED
      BY <2>1, <2>2, <2>3, FlashKept
  <1>2. CASE memx_sram_write(t)
    BY <1>2, FlashWrites
  <1>3. CASE Follow(t) /\ ~memx_sram_write(t)
    <2>1. \A d \in Devs : SameFlash(chips[d], chips'[d])
      BY <1>3, ChipKept DEF SameFlash
    <2>2. \A u \in Tasks \ {t} : todo'[u] = todo[u] /\ op'[u] = op[u] /\ found'[u] = found[u] /\ got'[u] = got[u]
      BY OthersStay
    <2>3. model' = model
      BY <1>3, Followed
    <2>4. CASE WriteLost(t)
      <3>1. past'.alone = {} /\ past'.badpass = past.badpass
        BY <1>0, <2>4 DEF WriteLost, Histories
      <3> QED
        BY <2>1, <2>3, <3>1, FlashKept
    <2>5. CASE ~WriteLost(t)
      <3>1. past'.alone = past.alone
        BY <1>3, <2>5, Kept
      <3>2. ~past'.badpass
        BY <1>3, Kept, FlashReported, FlashParts
      <3>3. Tidy'
        BY <2>1, FlashParts DEF Tidy, SameFlash
      <3>4. ASSUME NEW u \in past.alone
            PROVE  FlashOf(u)'
        <4>1. CASE u # t
          BY <1>0, <2>1, <2>2, <2>3, <4>1, FlashParts, FlashOfKept
        <4>2. CASE u = t /\ todo'[t] = <<>>
          BY <4>2 DEF FlashOf
        <4>3. CASE u = t /\ PollAnswer(t)
          BY <4>3, FlashAnswered
        <4>4. CASE u = t /\ todo'[t] # <<>> /\ ~PollAnswer(t)
          <5>1. todo[t] # <<>>
            BY <1>3, Followed
          <5>2. Updating(t) /\ found[t] \in Devs
            BY <4>4, <5>1, FlashParts DEF FlashOf
          <5>3. Inner(t) /\ op[t].call.file = "update_flash" /\ Len(todo[t]) <= 5 /\ Len(todo[t]) \in 1..6
            <6>1. Inner(t) /\ op[t].call.file = "update_flash" /\ Len(todo[t]) <= 5
              BY <5>2 DEF Updating, Begun
            <6>2. Len(todo[t]) \in Nat /\ Len(todo[t]) > 0
              BY <6>1, AtStep
            <6> DEFINE l == Len(todo[t])
            <6>3. l \in Nat /\ l > 0 /\ l <= 5
              BY <6>1, <6>2
            <6> HIDE DEF l
            <6>4. l \in 1..6
              BY <6>3
            <6> QED
              BY <6>1, <6>4 DEF l
          <5>4. Now(t).do \in {"word", "sram", "poll", "verdict"}
            <6> DEFINE l == Len(todo[t])
            <6>1. /\ l = 5 => Now(t) = Word(2)
                  /\ l = 4 => Now(t) = Sram("param", 0)
                  /\ l = 3 => Now(t) = Sram("commd", "Q")
                  /\ l = 2 => Now(t) = Poll
                  /\ l = 1 => Now(t) = Verdict
              BY <5>3, UpdatePlace
            <6>2. l \in 1..6 /\ l <= 5
              BY <5>3
            <6> HIDE DEF l
            <6> QED
              BY <6>1, <6>2 DEF Word, Sram, Poll, Verdict
          <5>5. PollFails(t) \/ Report(t)
            BY <1>3, <2>5, <4>4, <5>4, Acts
          <5>6. PollFails(t) => todo'[t] = <<>>
            BY DEF PollFails, Quit, TypeOK, TaskTypeOK
          <5> QED
            BY <4>4, <5>5, <5>6, FlashReported
        <4> QED
          BY <4>1, <4>2, <4>3, <4>4
      <3>5. FlashInv' <=> ~past'.badpass /\ Tidy' /\ (\A x, u \in past'.alone : x = u) /\ (\A x \in past'.alone : FlashOf(x)')
        BY DEF FlashInv, FlashOf, Tidy
      <3> QED
        BY <3>1, <3>2, <3>3, <3>4, <3>5, FlashParts
    <2> QED
      BY <2>4, <2>5
  <1> QED
    BY <1>1, <1>2, <1>3, StartOrFollow

(* The firmware burns.                                                     *)
LEMMA FlashBurns ==
  ASSUME TypeOK, ScriptInv, DirInv, FlashInv, NEW d \in Devs,
         FwBurn(d) \/ FwAnswer(d) \/ \E i \in Range(Words) : FwWord(d, i)
  PROVE  FlashInv'
  <1> DEFINE k == chips[d]
             r == chips'[d]
  <1>0. chips \in [Devs -> ChipRecords] /\ k \in ChipRecords /\ past \in Histories /\ past.alone \subseteq Tasks
    BY DEF TypeOK, ChipTypeOK, Histories
  <1>1. Firmware(d)
    BY DEF Firmware
  <1>2. /\ past' = past /\ UNCHANGED <<model, op, todo, found, got>> /\ \A x \in Devs \ {d} : chips'[x] = chips[x]
        /\ r.memory = k.memory
    <2>1. past' = past
      BY DEF FwBurn, FwAnswer, FwWord
    <2> QED
      BY <1>1, <2>1, FirmwareKeeps DEF taskVars
  <1>3. \/ k.commd = "Q" /\ ~k.busy /\ r.commd = "none" /\ r.busy /\ r.burn = {1, 2} /\ r.param = k.param /\ r.flash = k.flash
        \/ \E i \in k.burn : /\ i \in {1, 2} /\ r.flash = [k.flash EXCEPT ![i] = k.memory[i]] /\ r.burn = k.burn \ {i}
                             /\ r.commd = k.commd /\ r.busy = k.busy /\ r.param = k.param
        \/ /\ k.busy /\ ~r.busy /\ r.burn = {} /\ r.param \in {1, 2} /\ (r.param = 1 => k.burn = {})
           /\ r.commd = k.commd /\ r.flash = k.flash
    <2>1. CASE FwBurn(d)
      <3>1. chips' = [chips EXCEPT ![d].commd = "none", ![d].busy = TRUE, ![d].burn = {1, 2}] /\ k.commd = "Q" /\ ~k.busy
        BY <2>1, TwoWords DEF FwBurn
      <3> QED
        BY <1>0, <3>1 DEF ChipRecords
    <2>2. CASE FwAnswer(d)
      <3>1. PICK answer \in (IF k.burn = {} THEN {1} ELSE {}) \cup {2} :
              chips' = [chips EXCEPT ![d].busy = FALSE, ![d].burn = {}, ![d].param = answer]
        BY <2>2 DEF FwAnswer
      <3>2. k.busy
        BY <2>2 DEF FwAnswer
      <3>3. answer \in {1, 2} /\ (answer = 1 => k.burn = {})
        BY <3>1
      <3> QED
        BY <1>0, <3>1, <3>2, <3>3 DEF ChipRecords
    <2>3. ASSUME NEW i \in Range(Words), FwWord(d, i)
          PROVE  /\ i \in k.burn /\ i \in {1, 2} /\ r.flash = [k.flash EXCEPT ![i] = k.memory[i]] /\ r.burn = k.burn \ {i}
                 /\ r.commd = k.commd /\ r.busy = k.busy /\ r.param = k.param
      <3>1. i \in k.burn /\ chips' = [chips EXCEPT ![d].flash[i] = k.memory[i], ![d].burn = @ \ {i}]
        BY <2>3 DEF FwWord
      <3>2. i \in {1, 2}
        BY TwoWords
      <3> QED
        BY <1>0, <3>1, <3>2 DEF ChipRecords
    <2> QED
      BY <2>1, <2>2, <2>3
  <1>4. Tidy
    BY FlashParts
  <1>5. Tidy'
    <2>1. ~r.busy => r.burn = {}
      BY <1>3, <1>4 DEF Tidy
    <2> QED
      BY <1>2, <1>4, <2>1 DEF Tidy
  <1>6. ASSUME NEW t \in past.alone
        PROVE  FlashOf(t)'
    <2>1. FlashOf(t)
      BY FlashParts
    <2>2. CASE todo[t] = <<>>
      BY <1>2, <2>2 DEF FlashOf
    <2>3. CASE todo[t] # <<>>
      <3> DEFINE l == Len(todo[t])
                 v == op[t].call.val
      <3>1. Updating(t) /\ found[t] \in Devs /\ Progress(l, chips[found[t]], v, got[t].answer)
        BY <2>1, <2>3 DEF FlashOf
      <3>2. l \in 1..5
        <4>1. Inner(t) /\ l <= 5
          BY <3>1 DEF Updating, Begun
        <4>2. l \in Nat /\ l > 0
          BY <1>0, <4>1, AtStep
        <4> HIDE DEF l
        <4> QED
          BY <4>1, <4>2
      <3>3. Updating(t)'
        BY <1>2, <3>1 DEF Updating, Begun, Inner
      <3>4. CASE found[t] # d
        BY <1>2, <3>1, <3>3, <3>4 DEF FlashOf
      <3>5. CASE found[t] = d
        <4>1. Progress(l, k, v, got[t].answer) /\ (~k.busy => k.burn = {})
          BY <1>4, <3>1, <3>5 DEF Tidy
        <4>2. k.flash \in [{1, 2} -> Values \cup {"blank"}] /\ k.burn \subseteq {1, 2} /\ k.busy \in BOOLEAN
          BY <1>0, TwoWords DEF ChipRecords, Content
        <4> HIDE DEF k, r, l, v
        <4>3. ASSUME k.commd = "Q" /\ ~k.busy /\ r.commd = "none" /\ r.busy /\ r.burn = {1, 2} /\ r.param = k.param /\ r.flash = k.flash
              PROVE  Progress(l, r, v, got[t].answer)
          <5>1. l \notin {1, 3, 4} /\ (l = 5 => FALSE) /\ (l = 2 => k.param = 0)
            BY <4>1, <4>3 DEF Progress, Asking, Burning, Burnt
          <5>2. l = 2
            BY <3>2, <5>1
          <5>3. Burning(r, v)
            BY <4>3, <5>1, <5>2 DEF Burning
          <5> QED
            BY <1>2, <4>1, <5>2, <5>3 DEF Progress
        <4>4. ASSUME \E i \in k.burn : /\ i \in {1, 2} /\ r.flash = [k.flash EXCEPT ![i] = k.memory[i]] /\ r.burn = k.burn \ {i}
                                       /\ r.commd = k.commd /\ r.busy = k.busy /\ r.param = k.param
              PROVE  Progress(l, r, v, got[t].answer)
          <5>1. PICK i \in k.burn : /\ i \in {1, 2} /\ r.flash = [k.flash EXCEPT ![i] = k.memory[i]] /\ r.burn = k.burn \ {i}
                                    /\ r.commd = k.commd /\ r.busy = k.busy /\ r.param = k.param
            BY <4>4
          <5>2. k.busy
            BY <4>1, <5>1
          <5>3. l = 2 /\ Burning(k, v)
            BY <3>2, <4>1, <5>2 DEF Progress, Asking, Burnt
          <5>4. k.memory[1] = v /\ k.memory[2] = v
            BY <4>1, <5>3 DEF Progress
          <5>5. \A j \in {1, 2} \ r.burn : r.flash[j] = v
            BY <4>2, <5>1, <5>3, <5>4 DEF Burning
          <5>6. Burning(r, v)
            BY <5>1, <5>3, <5>5 DEF Burning
          <5> QED
            BY <1>2, <4>1, <5>3, <5>6 DEF Progress
        <4>5. ASSUME /\ k.busy /\ ~r.busy /\ r.burn = {} /\ r.param \in {1, 2} /\ (r.param = 1 => k.burn = {})
                     /\ r.commd = k.commd /\ r.flash = k.flash
              PROVE  Progress(l, r, v, got[t].answer)
          <5>1. l = 2 /\ Burning(k, v)
            BY <3>2, <4>1, <4>5 DEF Progress, Asking, Burnt
          <5>2. Burnt(r, v)
            BY <4>5, <5>1 DEF Burning, Burnt
          <5> QED
            BY <1>2, <4>1, <5>1, <5>2 DEF Progress
        <4>6. Progress(l, r, v, got[t].answer)
          BY <1>3, <4>3, <4>4, <4>5 DEF k, r
        <4> QED
          BY <1>2, <3>1, <3>3, <3>5, <4>6 DEF FlashOf, r, l, v
      <3> QED
        BY <3>4, <3>5
    <2> QED
      BY <2>2, <2>3
  <1>7. FlashInv' <=> ~past'.badpass /\ Tidy' /\ (\A x, u \in past'.alone : x = u) /\ (\A x \in past'.alone : FlashOf(x)')
    BY DEF FlashInv, FlashOf, Tidy
  <1> QED
    BY <1>2, <1>5, <1>6, <1>7, FlashParts

(* PASS is told only of an image that is in the flash.                     *)
LEMMA FlashStep ==
  ASSUME TypeOK, ScriptInv, DirInv, FlashInv, [Next]_vars
  PROVE  FlashInv'
  <1>1. ASSUME NEW t \in Tasks, Operation(t)
        PROVE  FlashInv'
    BY <1>1, FlashOperation
  <1>2. ASSUME NEW d \in Devs, Directory(d)
        PROVE  FlashInv'
    <2>1. past \in Histories
      BY DEF TypeOK
    <2>2. PICK s : past' = [past EXCEPT !.settled = s]
      BY <1>2, DirectoryKeeps
    <2>3. past'.alone = past.alone /\ past'.badpass = past.badpass
      BY <2>1, <2>2 DEF Histories
    <2>4. UNCHANGED <<model, todo, op, found, got>> /\ \A x \in Devs : SameFlash(chips[x], chips'[x])
      BY <1>2, DirectoryKeeps DEF taskVars, SameFlash
    <2> QED
      BY <2>3, <2>4, FlashKept
  <1>3. ASSUME NEW d \in Devs, Firmware(d)
        PROVE  FlashInv'
    <2>1. CASE FwBurn(d) \/ FwAnswer(d) \/ \E i \in Range(Words) : FwWord(d, i)
      BY <2>1, FlashBurns
    <2>2. CASE (\E c \in Chips : FwTake(d, c)) \/ FwLog(d)
      <3>1. \A x \in Devs : SameFlash(chips[x], chips'[x])
        BY <1>3, <2>2, FirmwareKeeps DEF SameFlash
      <3>2. /\ UNCHANGED <<model, todo, op, found, got>> /\ past'.alone = past.alone /\ past'.badpass = past.badpass
        BY <1>3, FirmwareKeeps DEF taskVars
      <3> QED
        BY <3>1, <3>2, FlashKept
    <2> QED
      BY <1>3, <2>1, <2>2 DEF Firmware
  <1>4. ASSUME NEW c \in {"tx", "rx"}, THROUGHPUT_ADD(c)
        PROVE  FlashInv'
    <2>1. \A x \in Devs : SameFlash(chips[x], chips'[x])
      BY <1>4, CountKeeps DEF SameFlash
    <2> QED
      BY <1>4, <2>1, CountKeeps, FlashKept DEF taskVars
  <1>5. CASE UNCHANGED vars
    <2>1. \A x \in Devs : SameFlash(chips[x], chips'[x])
      BY <1>5 DEF SameFlash, vars
    <2> QED
      BY <1>5, <2>1, FlashKept DEF vars
  <1> QED
    BY <1>1, <1>2, <1>3, <1>4, <1>5 DEF Next

-----------------------------------------------------------------------------
(* The counters are shown but for the odd half kilobytes                   *)

(* Half a number lacks at most one half.                                   *)
LEMMA Halves ==
  ASSUME NEW x \in Nat
  PROVE  x \div 2 \in Nat /\ x - 2 * (x \div 2) \in 0..1
  OBVIOUS

(* A showing of the counters, written out.                                 *)
LEMMA ThroughputIs ==
  /\ Len(Throughput) = 5 /\ Throughput[1] = Read("tx") /\ Throughput[2] = Read("rx") /\ Throughput[3] = Display
  /\ Throughput[4] = Reset("tx") /\ Throughput[5] = Reset("rx")
  BY DEF Throughput

(* Where a showing is.                                                     *)
LEMMA ShowPlace ==
  ASSUME TypeOK, ScriptInv, NEW t \in Tasks, Inner(t), op[t].call.file = "throughput"
  PROVE  LET l == Len(todo[t]) IN
         /\ l \in 1..5
         /\ l = 5 => Now(t) = Read("tx")
         /\ l = 4 => Now(t) = Read("rx")
         /\ l = 3 => Now(t) = Display
         /\ l = 2 => Now(t) = Reset("tx")
         /\ l = 1 => Now(t) = Reset("rx")
  <1> DEFINE e == Section(model, op[t].call)
             l == Len(todo[t])
  <1>1. /\ Now(t) = e[Len(e) + 1 - l] /\ l \in Nat /\ l > 0 /\ l <= Len(e) /\ Len(e) \in Nat /\ op[t].call \in Calls
    BY AtStep
  <1>2. e = Throughput
    BY <1>1, SectionIs
  <1> HIDE DEF e, l
  <1>3. l \in 1..5 /\ Now(t) = Throughput[6 - l]
    BY <1>1, <1>2, ThroughputIs
  <1>4. /\ l = 5 => Now(t) = Read("tx")
        /\ l = 4 => Now(t) = Read("rx")
        /\ l = 3 => Now(t) = Display
        /\ l = 2 => Now(t) = Reset("tx")
        /\ l = 1 => Now(t) = Reset("rx")
    BY <1>3, ThroughputIs
  <1> QED
    BY <1>3, <1>4 DEF l

(* Readings, the print and the resets are a showing's.                     *)
LEMMA ShowActs ==
  ASSUME TypeOK, ScriptInv, NEW t \in Tasks, Follow(t), Now(t).do \in {"read", "print", "reset"}
  PROVE  /\ Inner(t) /\ op[t].call.file = "throughput" /\ Len(todo[t]) \in 1..5
         /\ op' = op /\ found' = found /\ model' = model /\ todo'[t] = Tail(todo[t]) /\ t \in Showing
  <1> DEFINE e == Section(model, op[t].call)
             l == Len(todo[t])
  <1>1. Doing(t, Now(t).do) /\ op' = op /\ model' = model /\ (Now(t).do # "find" => found' = found)
    BY Followed
  <1>2. Inner(t) /\ Kind(op[t].call, e, Len(e) + 1 - l) /\ Now(t) = e[Len(e) + 1 - l]
    BY <1>1, Inside DEF Inner
  <1>3. op[t].call.file = "throughput"
    BY <1>2 DEF Kind
  <1>4. Advance(t)
    BY Acts DEF ReadCounter, PrintCounters, ResetCounter
  <1>5. todo'[t] = Tail(todo[t])
    BY <1>4 DEF Advance, TypeOK, TaskTypeOK
  <1> QED
    BY <1>1, <1>2, <1>3, <1>5, ShowPlace DEF Showing, Inner

(* A task other than the one whose step it is, and how a task comes to     *)
(* show and goes on.                                                       *)
LEMMA ShowsOwn ==
  ASSUME TypeOK, ScriptInv, DirInv, NEW t \in Tasks, Operation(t), ShowsOn(t)'
  PROVE  /\ Follow(t) /\ Inner(t) /\ op[t].call.file = "throughput" /\ op' = op /\ model' = model
         /\ Len(todo'[t]) = Len(todo[t]) - 1 /\ Len(todo'[t]) > 0 /\ Len(todo'[t]) <= 4
  <1>1. TypeOK'
    BY NextBase DEF Next
  <1>2. Inner(t)' /\ op'[t].call.file = "throughput" /\ Len(todo'[t]) <= 4
    BY DEF ShowsOn, Begun
  <1>3. model' = model
    BY StartOrFollow, Followed DEF Start
  <1>4. op'[t].call \in Calls
    BY <1>1, <1>2 DEF Inner, TypeOK, TaskTypeOK
  <1> DEFINE a == op'[t].call
  <1> HIDE DEF a
  <1>5. Section(model, a) = Throughput
    BY <1>2, <1>4, SectionIs DEF a
  <1>6. Len(Section(model', op'[t].call)) = 5
    BY <1>3, <1>5, ThroughputIs DEF a
  <1>7. Len(todo'[t]) # Len(Section(model', op'[t].call))
    <2> DEFINE n == Len(todo'[t])
               m == Len(Section(model', op'[t].call))
    <2>1. n <= 4 /\ m = 5
      BY <1>2, <1>6
    <2> HIDE DEF n, m
    <2>2. n # m
      BY <2>1
    <2> QED
      BY <2>2 DEF n, m
  <1> QED
    BY <1>2, <1>7, Arrives

ShowsAt(t) ==
  /\ Len(todo[t]) \in {3, 4} => \A c \in {"tx", "rx"} : Missing(c) \in 0..past.shows
  /\ Len(todo[t]) \in {3, 4} => got[t].tx = counters["tx"] \div 2
  /\ Len(todo[t]) = 3 => got[t].rx = counters["rx"] \div 2
  /\ Len(todo[t]) = 1 => counters["tx"] = 0
  /\ Len(todo[t]) \in {1, 2} => \A c \in {"tx", "rx"} : Unshown(c) \in 0..past.shows
BytesAgree ==
  /\ \A t, u \in Tasks : ShowsOn(t) /\ ShowsOn(u) => t = u
  /\ (\A t \in Tasks : ~ShowsOn(t)) => \A c \in {"tx", "rx"} : Missing(c) \in 0..past.shows
  /\ \A t \in Tasks : ShowsOn(t) => ShowsAt(t)

(* The invariant about the counters speaks of showings nothing has         *)
(* blurred.                                                                *)
LEMMA BytesParts == BytesInv <=> (~past.blurred => BytesAgree)
  BY DEF BytesInv, BytesAgree, ShowsAt

LEMMA BytesInit ==
  ASSUME Init
  PROVE  BytesInv
  <1>1. \A t \in Tasks : ~ShowsOn(t)
    BY DEF Init, ShowsOn, Begun, Inner
  <1>2. \A c \in {"tx", "rx"} : Missing(c) = 0 /\ past.shows = 0
    BY DEF Init, Missing
  <1> QED
    BY <1>1, <1>2 DEF BytesInv

(* Steps that neither count nor show.                                      *)
LEMMA BytesSame ==
  ASSUME BytesAgree, counters' = counters, past'.counted = past.counted, past'.reported = past.reported, past'.shows = past.shows,
         \A u \in Tasks : ShowsOn(u)' <=> ShowsOn(u),
         \A u \in Tasks : ShowsOn(u) => todo'[u] = todo[u] /\ got'[u] = got[u]
  PROVE  BytesAgree'
  <1>1. \A c : Missing(c)' = Missing(c) /\ Unshown(c)' = Unshown(c)
    BY DEF Missing, Unshown
  <1>2. ASSUME NEW u \in Tasks, ShowsOn(u)'
        PROVE  ShowsAt(u)'
    <2>1. ShowsAt(u) /\ todo'[u] = todo[u] /\ got'[u] = got[u]
      BY <1>2 DEF BytesAgree
    <2> QED
      BY <1>1, <2>1 DEF ShowsAt
  <1>3. (\A t \in Tasks : ~ShowsOn(t)') => \A c \in {"tx", "rx"} : Missing(c)' \in 0..past'.shows
    BY <1>1 DEF BytesAgree
  <1>4. \A t, u \in Tasks : ShowsOn(t)' /\ ShowsOn(u)' => t = u
    BY DEF BytesAgree
  <1> QED
    BY <1>2, <1>3, <1>4 DEF BytesAgree

(* Only one shows.                                                         *)
LEMMA BytesAlone ==
  ASSUME NEW t \in Tasks, \A u \in Tasks \ {t} : ~ShowsOn(u)',
         ShowsOn(t)' => ShowsAt(t)',
         ~ShowsOn(t)' => \A c \in {"tx", "rx"} : Missing(c)' \in 0..past'.shows
  PROVE  BytesAgree'
  BY DEF BytesAgree

(* A counter is read.                                                      *)
LEMMA BytesRead ==
  ASSUME TypeOK, ScriptInv, DirInv, BytesInv, NEW t \in Tasks, ReadCounter(t), ~past'.blurred
  PROVE  BytesAgree'
  <1> DEFINE l == Len(todo[t])
  <1>0. past \in Histories /\ counters \in Counts
    BY DEF TypeOK
  <1>1. /\ Follow(t) /\ Operation(t) /\ Now(t).do = "read" /\ Note(t, Now(t).of, counters[Now(t).of] \div 2)
        /\ past' = [past EXCEPT !.blurred = @ \/ Showing # {t}] /\ counters' = counters
    BY DEF ReadCounter, Follow, Operation, Doing, Now
  <1>2. Inner(t) /\ op[t].call.file = "throughput" /\ l \in 1..5 /\ op' = op /\ model' = model /\ todo'[t] = Tail(todo[t])
    BY <1>1, ShowActs
  <1>3. past'.blurred = (past.blurred \/ Showing # {t}) /\ past'.counted = past.counted /\ past'.reported = past.reported /\ past'.shows = past.shows
    BY <1>0, <1>1 DEF Histories
  <1>4. BytesAgree /\ Showing = {t}
    BY <1>3, BytesParts
  <1>5. \A u \in Tasks \ {t} : ~ShowsOn(u)
    BY <1>4 DEF Showing, ShowsOn, Begun, Inner
  <1>6. \A u \in Tasks \ {t} : ~ShowsOn(u)'
    BY <1>1, <1>5, OthersStay DEF ShowsOn
  <1>7. \A c : Missing(c)' = Missing(c) /\ Unshown(c)' = Unshown(c)
    BY <1>1, <1>3 DEF Missing, Unshown
  <1>8. (l = 5 /\ Now(t).of = "tx") \/ (l = 4 /\ Now(t).of = "rx")
    <2>1. /\ l = 5 => Now(t) = Read("tx")
          /\ l = 4 => Now(t) = Read("rx")
          /\ l = 3 => Now(t) = Display
          /\ l = 2 => Now(t) = Reset("tx")
          /\ l = 1 => Now(t) = Reset("rx")
      BY <1>2, ShowPlace
    <2> HIDE DEF l
    <2> QED
      BY <1>1, <1>2, <2>1 DEF Read, Display, Reset
  <1>9. l \in {4, 5} /\ Inner(t)' /\ Len(todo'[t]) = l - 1
    <2>1. l \in {4, 5} /\ Len(todo[t]) > 1
      BY SMTT(30), <1>8
    <2> QED
      BY <1>2, <2>1, InnerNext
  <1>10. got[t] \in Readings /\ got'[t] = [got[t] EXCEPT ![Now(t).of] = counters[Now(t).of] \div 2]
    BY <1>1 DEF Note, TypeOK, TaskTypeOK
  <1> HIDE DEF l
  <1>11. ShowsAt(t)'
    <2>1. CASE l = 5 /\ Now(t).of = "tx"
      <3>1. Len(todo'[t]) = 4
        BY <1>9, <2>1
      <3>2. ~ShowsOn(t)
        BY <2>1 DEF ShowsOn, Begun, l
      <3>3. \A c \in {"tx", "rx"} : Missing(c) \in 0..past.shows
        BY <1>4, <1>5, <3>2 DEF BytesAgree
      <3>4. got'[t].tx = counters["tx"] \div 2
        BY <1>10, <2>1 DEF Readings
      <3> QED
        BY <1>1, <1>3, <1>7, <3>1, <3>3, <3>4 DEF ShowsAt
    <2>2. CASE l = 4 /\ Now(t).of = "rx"
      <3>1. Len(todo'[t]) = 3
        BY <1>9, <2>2
      <3>a. l <= 4
        BY <2>2
      <3>b. Len(todo[t]) <= 4
        BY <3>a DEF l
      <3>c. ShowsOn(t)
        BY <1>2, <3>b DEF ShowsOn, Begun
      <3>2. ShowsAt(t)
        BY <1>4, <3>c DEF BytesAgree
      <3>3. (\A c \in {"tx", "rx"} : Missing(c) \in 0..past.shows) /\ got[t].tx = counters["tx"] \div 2
        BY <2>2, <3>2 DEF ShowsAt, l
      <3>4. got'[t].rx = counters["rx"] \div 2 /\ got'[t].tx = got[t].tx
        BY <1>10, <2>2 DEF Readings
      <3> QED
        BY <1>1, <1>3, <1>7, <3>1, <3>3, <3>4 DEF ShowsAt
    <2> QED
      BY <1>8, <2>1, <2>2
  <1>12. ShowsOn(t)'
    <2>1. Len(todo'[t]) <= 4
      BY <1>9
    <2> QED
      BY <1>2, <1>9, <2>1 DEF ShowsOn, Begun
  <1> QED
    BY <1>6, <1>11, <1>12, BytesAlone

(* Both are printed.                                                       *)
LEMMA BytesPrint ==
  ASSUME TypeOK, ScriptInv, DirInv, BytesAgree, NEW t \in Tasks, PrintCounters(t)
  PROVE  BytesAgree'
  <1> DEFINE l == Len(todo[t])
  <1>0. past \in Histories /\ counters \in Counts /\ past.counted \in Counts /\ past.reported \in Counts /\ past.shows \in Nat
    BY DEF TypeOK, Histories
  <1>1. /\ Follow(t) /\ Operation(t) /\ Now(t).do = "print" /\ got' = got /\ counters' = counters
        /\ past' = [past EXCEPT !.reported = [c \in DOMAIN @ |-> @[c] + got[t][c]], !.shows = @ + 1]
    BY DEF PrintCounters, Follow, Operation, Doing, Now
  <1>2. Inner(t) /\ op[t].call.file = "throughput" /\ l \in 1..5 /\ op' = op /\ model' = model /\ todo'[t] = Tail(todo[t])
    BY <1>1, ShowActs
  <1>3. l = 3
    <2>1. /\ l = 5 => Now(t) = Read("tx")
          /\ l = 4 => Now(t) = Read("rx")
          /\ l = 2 => Now(t) = Reset("tx")
          /\ l = 1 => Now(t) = Reset("rx")
      BY <1>2, ShowPlace
    <2> HIDE DEF l
    <2> QED
      BY <1>1, <1>2, <2>1 DEF Read, Reset
  <1>4. ShowsOn(t) /\ ShowsAt(t)
    <2> HIDE DEF l
    <2>1. l <= 4
      BY <1>3
    <2>2. Len(todo[t]) <= 4
      BY <2>1 DEF l
    <2> QED
      BY <1>2, <2>2 DEF BytesAgree, ShowsOn, Begun
  <1>5. \A u \in Tasks \ {t} : ~ShowsOn(u)'
    BY <1>1, <1>4, OthersStay DEF ShowsOn, BytesAgree
  <1>6. Inner(t)' /\ Len(todo'[t]) = 2
    <2>1. Len(todo[t]) = 3 /\ Len(todo[t]) > 1
      BY <1>3
    <2> HIDE DEF l
    <2>2. Inner(t)' /\ Len(todo'[t]) = Len(todo[t]) - 1
      BY <1>2, <2>1, InnerNext
    <2> QED
      BY <2>1, <2>2
  <1>7. /\ past'.shows = past.shows + 1 /\ past'.counted = past.counted
        /\ \A c \in {"tx", "rx"} : past'.reported[c] = past.reported[c] + got[t][c]
    <2>1. past'.reported = [c \in {"tx", "rx"} |-> past.reported[c] + got[t][c]]
      BY <1>0, <1>1 DEF Histories, Counts
    <2> QED
      BY <1>0, <1>1, <2>1 DEF Histories
  <1>8. ASSUME NEW c \in {"tx", "rx"}
        PROVE  Unshown(c)' \in 0..past'.shows
    <2> DEFINE x == counters[c]
               n == past.counted[c]
               r == past.reported[c]
               s == past.shows
    <2>1. x \in Nat /\ n \in Nat /\ r \in Nat /\ s \in Nat
      BY <1>0 DEF Counts
    <2>2. got[t][c] = x \div 2 /\ Missing(c) \in 0..s
      BY <1>3, <1>4 DEF ShowsAt
    <2>3. n - x - 2 * r \in 0..s
      BY <2>2 DEF Missing
    <2>4. Unshown(c)' = n - 2 * (r + (x \div 2))
      BY <1>7, <2>2 DEF Unshown
    <2>5. past'.shows = s + 1
      BY <1>7
    <2> HIDE DEF x, n, r, s
    <2>6. x \div 2 \in Nat /\ x - 2 * (x \div 2) \in 0..1
      BY <2>1, Halves
    <2> DEFINE h == x \div 2
    <2> HIDE DEF h
    <2>7. h \in Nat /\ x - 2 * h \in 0..1
      BY <2>6 DEF h
    <2>8. n - 2 * (r + h) \in 0..s + 1
      BY <2>1, <2>3, <2>7
    <2> QED
      BY <2>4, <2>5, <2>8 DEF h
  <1>9. ShowsAt(t)'
    BY <1>6, <1>8 DEF ShowsAt
  <1>10. ShowsOn(t)'
    <2>1. Len(todo'[t]) <= 4
      BY <1>6
    <2> QED
      BY <1>2, <1>6, <2>1 DEF ShowsOn, Begun
  <1> QED
    BY <1>5, <1>9, <1>10, BytesAlone

(* One is reset.                                                           *)
LEMMA BytesReset ==
  ASSUME TypeOK, ScriptInv, DirInv, BytesAgree, NEW t \in Tasks, ResetCounter(t)
  PROVE  BytesAgree'
  <1> DEFINE l == Len(todo[t])
  <1>0. counters \in Counts /\ past.counted \in Counts /\ past.reported \in Counts /\ past.shows \in Nat
    BY DEF TypeOK, Histories
  <1>1. /\ Follow(t) /\ Operation(t) /\ Now(t).do = "reset" /\ got' = got /\ past' = past
        /\ counters' = [counters EXCEPT ![Now(t).of] = 0]
    BY DEF ResetCounter, Follow, Operation, Doing, Now
  <1>2. Inner(t) /\ op[t].call.file = "throughput" /\ l \in 1..5 /\ op' = op /\ model' = model /\ todo'[t] = Tail(todo[t])
    BY <1>1, ShowActs
  <1>3. (l = 2 /\ Now(t).of = "tx") \/ (l = 1 /\ Now(t).of = "rx")
    <2>1. /\ l = 5 => Now(t) = Read("tx")
          /\ l = 4 => Now(t) = Read("rx")
          /\ l = 3 => Now(t) = Display
          /\ l = 2 => Now(t) = Reset("tx")
          /\ l = 1 => Now(t) = Reset("rx")
      BY <1>2, ShowPlace
    <2> HIDE DEF l
    <2> QED
      BY <1>1, <1>2, <2>1 DEF Read, Display, Reset
  <1>4. ShowsOn(t) /\ ShowsAt(t)
    <2> HIDE DEF l
    <2>1. l <= 4
      BY <1>3
    <2>2. Len(todo[t]) <= 4
      BY <2>1 DEF l
    <2> QED
      BY <1>2, <2>2 DEF BytesAgree, ShowsOn, Begun
  <1>5. \A u \in Tasks \ {t} : ~ShowsOn(u)'
    BY <1>1, <1>4, OthersStay DEF ShowsOn, BytesAgree
  <1>6. \A c \in {"tx", "rx"} : Unshown(c)' = Unshown(c) /\ Unshown(c) \in 0..past'.shows
    BY <1>1, <1>3, <1>4 DEF Unshown, ShowsAt
  <1>7. CASE l = 2 /\ Now(t).of = "tx"
    <2>1. Inner(t)' /\ Len(todo'[t]) = 1
      <3>1. Len(todo[t]) = 2 /\ Len(todo[t]) > 1
        BY <1>7
      <3> HIDE DEF l
      <3>2. Inner(t)' /\ Len(todo'[t]) = Len(todo[t]) - 1
        BY <1>2, <3>1, InnerNext
      <3> QED
        BY <3>1, <3>2
    <2>2. counters'["tx"] = 0
      BY <1>0, <1>1, <1>7 DEF Counts
    <2>3. ShowsAt(t)'
      BY <1>6, <2>1, <2>2 DEF ShowsAt
    <2>4. ShowsOn(t)'
      <3>1. Len(todo'[t]) <= 4
        BY <2>1
      <3> QED
        BY <1>2, <2>1, <3>1 DEF ShowsOn, Begun
    <2> QED
      BY <1>5, <2>3, <2>4, BytesAlone
  <1>8. CASE l = 1 /\ Now(t).of = "rx"
    <2>1. todo'[t] = <<>>
      <3>1. todo[t] \in Seq(Steps) /\ todo[t] # <<>>
        BY <1>2 DEF TypeOK, TaskTypeOK, Inner
      <3>2. todo'[t] \in Seq(Steps) /\ Len(todo'[t]) = 0
        BY <1>2, <1>8, <3>1, LengthOf
      <3> QED
        BY <3>2, EmptySeq
    <2>2. ~ShowsOn(t)'
      BY <2>1 DEF ShowsOn, Begun, Inner
    <2>3. counters["tx"] = 0
      BY <1>4, <1>8 DEF ShowsAt
    <2>4. \A c \in {"tx", "rx"} : counters'[c] = 0
      BY <1>0, <1>1, <1>8, <2>3 DEF Counts
    <2>5. ASSUME NEW c \in {"tx", "rx"}
          PROVE  Missing(c)' \in 0..past'.shows
      <3>1. past.counted[c] \in Nat /\ past.reported[c] \in Nat
        BY <1>0 DEF Counts
      <3>2. Missing(c)' = past.counted[c] - 0 - 2 * past.reported[c]
        BY <1>1, <2>4 DEF Missing
      <3>3. Missing(c)' = Unshown(c)
        BY <3>1, <3>2 DEF Unshown
      <3> QED
        BY <1>6, <3>3
    <2> QED
      BY <1>5, <2>2, <2>5, BytesAlone
  <1> QED
    BY <1>3, <1>7, <1>8

(* The data path moves half a kilobyte.                                    *)
LEMMA BytesCount ==
  ASSUME TypeOK, BytesInv, NEW c \in {"tx", "rx"}, THROUGHPUT_ADD(c), ~past'.blurred
  PROVE  BytesAgree'
  <1>0. past \in Histories /\ counters \in Counts /\ past.counted \in Counts /\ past.reported \in Counts
    BY DEF TypeOK, Histories
  <1>1. /\ past'.blurred = (past.blurred \/ Showing # {}) /\ past'.reported = past.reported /\ past'.shows = past.shows
        /\ past'.counted = [past.counted EXCEPT ![c] = @ + 1] /\ counters' = [counters EXCEPT ![c] = @ + 1]
        /\ UNCHANGED <<todo, op, model>>
    BY <1>0 DEF THROUGHPUT_ADD, Histories, taskVars
  <1>2. BytesAgree /\ Showing = {}
    BY <1>1, BytesParts
  <1>3. \A u \in Tasks : ~ShowsOn(u) /\ ~ShowsOn(u)'
    BY <1>1, <1>2 DEF Showing, ShowsOn, Begun, Inner
  <1>4. ASSUME NEW x \in {"tx", "rx"}
        PROVE  Missing(x)' \in 0..past'.shows
    <2>1. Missing(x) \in 0..past.shows
      BY <1>2, <1>3 DEF BytesAgree
    <2>2. past.counted[x] \in Nat /\ counters[x] \in Nat /\ past.reported[x] \in Nat
      BY <1>0 DEF Counts
    <2>3. \/ past'.counted[x] = past.counted[x] /\ counters'[x] = counters[x]
          \/ past'.counted[x] = past.counted[x] + 1 /\ counters'[x] = counters[x] + 1
      BY <1>0, <1>1 DEF Counts
    <2>4. Missing(x)' = Missing(x)
      BY <1>1, <2>2, <2>3 DEF Missing
    <2> QED
      BY <1>1, <2>1, <2>4
  <1> QED
    BY <1>3, <1>4 DEF BytesAgree

(* What is counted is told, but for the odd half kilobytes.                *)
LEMMA BytesStep ==
  ASSUME TypeOK, ScriptInv, DirInv, BytesInv, [Next]_vars
  PROVE  BytesInv'
  <1>a. BytesInv' <=> (~past'.blurred => BytesAgree')
    BY DEF BytesInv, BytesAgree, ShowsAt
  <1>0. past \in Histories
    BY DEF TypeOK
  <1>1. ASSUME NEW t \in Tasks, Operation(t), ~past'.blurred
        PROVE  BytesAgree'
    <2>1. CASE ReadCounter(t)
      BY <1>1, <2>1, BytesRead
    <2>2. CASE ~ReadCounter(t)
      <3>1. past'.blurred = past.blurred
        <4>1. Start(t) => past'.blurred = past.blurred
          BY <1>0 DEF Start, Histories
        <4> QED
          BY <1>1, <2>2, <4>1, StartOrFollow, Kept
      <3>2. BytesAgree
        BY <1>1, <3>1, BytesParts
      <3>3. CASE PrintCounters(t)
        BY <3>2, <3>3, BytesPrint
      <3>4. CASE ResetCounter(t)
        BY <3>2, <3>4, BytesReset
      <3>5. CASE ~PrintCounters(t) /\ ~ResetCounter(t)
        <4>1. counters' = counters /\ past'.counted = past.counted /\ past'.reported = past.reported /\ past'.shows = past.shows
          <5>1. CASE Start(t)
            BY <1>0, <5>1 DEF Start, Histories
          <5>2. CASE Follow(t)
            BY <3>5, <5>2, Kept
          <5> QED
            BY <1>1, <5>1, <5>2, StartOrFollow
        <4>2. ASSUME Inner(t), Follow(t), op[t].call.file = "throughput"
              PROVE  FALSE
          <5>1. Now(t).do \in {"read", "print", "reset"}
            <6> DEFINE l == Len(todo[t])
            <6>1. /\ l \in 1..5
                  /\ l = 5 => Now(t) = Read("tx")
                  /\ l = 4 => Now(t) = Read("rx")
                  /\ l = 3 => Now(t) = Display
                  /\ l = 2 => Now(t) = Reset("tx")
                  /\ l = 1 => Now(t) = Reset("rx")
              BY <4>2, ShowPlace
            <6> HIDE DEF l
            <6> QED
              BY <6>1 DEF Read, Display, Reset
          <5> QED
            BY <2>2, <3>5, <4>2, <5>1, Acts
        <4>3. ~ShowsOn(t)
          <5>1. Start(t) => todo[t] = <<>>
            BY DEF Start
          <5> QED
            BY <1>1, <4>2, <5>1, StartOrFollow DEF ShowsOn, Begun, Inner
        <4>4. ~ShowsOn(t)'
          BY <1>1, <4>2, ShowsOwn
        <4>5. ASSUME NEW u \in Tasks \ {t}
              PROVE  (ShowsOn(u)' <=> ShowsOn(u)) /\ todo'[u] = todo[u] /\ got'[u] = got[u]
          BY <1>1, OthersStay DEF ShowsOn
        <4> QED
          BY <3>2, <4>1, <4>3, <4>4, <4>5, BytesSame
      <3> QED
        BY <3>3, <3>4, <3>5
    <2> QED
      BY <2>1, <2>2
  <1>2. ASSUME UNCHANGED <<todo, op, got, model, counters>>, past'.blurred = past.blurred, past'.counted = past.counted,
               past'.reported = past.reported, past'.shows = past.shows, ~past'.blurred
        PROVE  BytesAgree'
    <2>1. \A u \in Tasks : ShowsOn(u)' <=> ShowsOn(u)
      BY <1>2 DEF ShowsOn, Begun, Inner
    <2> QED
      BY <1>2, <2>1, BytesParts, BytesSame
  <1>3. ASSUME NEW d \in Devs, Directory(d), ~past'.blurred
        PROVE  BytesAgree'
    <2>1. PICK s : past' = [past EXCEPT !.settled = s]
      BY <1>3, DirectoryKeeps
    <2>2. past'.blurred = past.blurred /\ past'.counted = past.counted /\ past'.reported = past.reported /\ past'.shows = past.shows
      BY <1>0, <2>1 DEF Histories
    <2>3. UNCHANGED <<todo, op, got, model, counters>>
      BY <1>3, DirectoryKeeps DEF taskVars
    <2> QED
      BY <1>2, <1>3, <2>2, <2>3
  <1>4. ASSUME NEW d \in Devs, Firmware(d), ~past'.blurred
        PROVE  BytesAgree'
    <2>1. UNCHANGED <<todo, op, got, model, counters>> /\ past'.blurred = past.blurred /\ past'.counted = past.counted
          /\ past'.reported = past.reported /\ past'.shows = past.shows
      BY <1>4, FirmwareKeeps DEF taskVars
    <2> QED
      BY <1>2, <1>4, <2>1
  <1>5. CASE UNCHANGED vars
    BY <1>a, <1>2, <1>5 DEF vars
  <1> QED
    BY <1>a, <1>1, <1>3, <1>4, <1>5, BytesCount DEF Next

(* With no showing under way what was lost is what the invariant says.     *)
LEMMA BytesAtRest ==
  ASSUME TypeOK, BytesInv
  PROVE  BytesTold
  <1>1. ASSUME ~past.blurred, Showing = {}
        PROVE  \A c \in {"tx", "rx"} : Missing(c) \in 0..past.shows
    <2>1. \A t \in Tasks : ~ShowsOn(t)
      BY <1>1 DEF Showing, ShowsOn, Begun, Inner
    <2> QED
      BY <1>1, <2>1 DEF BytesInv
  <1>2. DOMAIN counters = {"tx", "rx"}
    BY DEF TypeOK, Counts
  <1> QED
    BY <1>1, <1>2 DEF BytesTold, Missing

-----------------------------------------------------------------------------
(* The ring                                                                *)

(* A remainder is what is left of a multiple.                              *)
LEMMA Remainder ==
  ASSUME NEW n \in Nat \ {0}, NEW a \in Int
  PROVE  a % n \in 0..n - 1 /\ \E q \in Int : a = n * q + (a % n)
  <1>1. a = n * (a \div n) + (a % n)
    OBVIOUS
  <1>2. a \div n \in Int
    OBVIOUS
  <1>3. a % n \in 0..n - 1
    OBVIOUS
  <1>4. \E q \in Int : a = n * q + (a % n)
    BY <1>1, <1>2, Zenon
  <1> QED
    BY <1>3, <1>4, Zenon

(* Two multiples less than one apart are the same.                         *)
LEMMA Multiples ==
  ASSUME NEW n \in Nat \ {0}, NEW q \in Int, NEW p \in Int, n * q - n * p \in 1 - n..n - 1
  PROVE  q = p
  <1>1. n * q - n * p = n * (q - p)
    OBVIOUS
  <1> DEFINE k == q - p
  <1>2. k \in Int /\ n * k \in 1 - n..n - 1
    BY <1>1
  <1> HIDE DEF k
  <1>3. k > 0 => n * k >= n
    BY <1>2
  <1>4. k < 0 => n * k <= 0 - n
    <2>1. ASSUME k < 0
          PROVE  n * k <= 0 - n
      <3> DEFINE j == 0 - k
      <3>1. j \in Nat /\ j > 0 /\ n * k = 0 - n * j
        BY <1>2, <2>1
      <3> HIDE DEF j
      <3>2. n * j >= n
        BY <3>1
      <3> DEFINE x == n * j
                 y == n * k
      <3>3. y = 0 - x /\ x >= n /\ x \in Int /\ y \in Int
        BY <1>2, <3>1, <3>2
      <3> HIDE DEF x, y
      <3>4. y <= 0 - n
        BY <3>3
      <3> QED
        BY <3>4 DEF y
    <2> QED
      BY <2>1
  <1>5. k = 0
    <2> DEFINE y == n * k
    <2>1. y \in 1 - n..n - 1 /\ (k > 0 => y >= n) /\ (k < 0 => y <= 0 - n)
      BY <1>2, <1>3, <1>4
    <2> HIDE DEF y
    <2> QED
      BY <1>2, <2>1
  <1> QED
    BY <1>5 DEF k

(* Two places less than a ring apart are the same only if they are one.    *)
LEMMA PlacesApart ==
  ASSUME NEW n \in Nat \ {0}, NEW a \in Int, NEW b \in Int, b - a \in 1 - n..n - 1, a % n = b % n
  PROVE  a = b
  <1>1. PICK p \in Int : a = n * p + (a % n)
    BY Remainder
  <1>2. PICK q \in Int : b = n * q + (b % n)
    BY Remainder
  <1>3. a % n \in Int
    BY Remainder
  <1>a. b % n = a % n
    OBVIOUS
  <1>b. b = n * q + (a % n)
    BY <1>2, <1>a
  <1>4. n * q - n * p = b - a
    <2> DEFINE x == n * p
               y == n * q
               r == a % n
    <2>1. a = x + r /\ b = y + r /\ x \in Int /\ y \in Int /\ r \in Int
      <3>1. a = x + r /\ b = y + r
        BY <1>1, <1>b, Zenon
      <3>2. x \in Int /\ y \in Int
        OBVIOUS
      <3> HIDE DEF x, y
      <3> QED
        BY <1>3, <3>1, <3>2
    <2> HIDE DEF x, y, r
    <2>2. y - x = b - a
      BY <2>1
    <2> QED
      BY <2>2 DEF x, y
  <1>5. q = p
    BY <1>4, Multiples
  <1> QED
    BY <1>1, <1>2, <1>5

(* Places may be reckoned from where a place lies in the ring.             *)
LEMMA PlaceOn ==
  ASSUME NEW n \in Nat \ {0}, NEW a \in Int, NEW x \in Int
  PROVE  ((a % n) + x) % n = (a + x) % n
  <1> DEFINE r == a % n
             s == (r + x) % n
             u == (a + x) % n
  <1>1. PICK p \in Int : a = n * p + r
    BY Remainder
  <1>2. r \in Int /\ r + x \in Int /\ a + x \in Int
    BY Remainder
  <1>3. PICK q \in Int : r + x = n * q + s
    BY <1>2, Remainder
  <1>4. PICK j \in Int : a + x = n * j + u
    BY <1>2, Remainder
  <1>5. s \in 0..n - 1 /\ u \in 0..n - 1
    BY <1>2, Remainder
  <1> HIDE DEF r, s, u
  <1>6. n * j - n * (p + q) = s - u
    <2> DEFINE jj == n * j
               pp == n * p
               qq == n * q
               pq == n * (p + q)
    <2>1. pq = pp + qq /\ jj \in Int /\ pp \in Int /\ qq \in Int /\ pq \in Int
      OBVIOUS
    <2>2. a = pp + r /\ r + x = qq + s /\ a + x = jj + u
      BY <1>1, <1>3, <1>4
    <2> HIDE DEF jj, pp, qq, pq
    <2>3. jj - pq = s - u
      BY <1>2, <1>5, <2>1, <2>2
    <2> QED
      BY <2>3 DEF jj, pq
  <1>7. p + q \in Int /\ s - u \in 1 - n..n - 1
    BY <1>5
  <1>8. j = p + q
    BY <1>6, <1>7, Multiples
  <1>9. s = u
    <2> DEFINE jj == n * j
    <2>1. jj - jj = s - u /\ jj \in Int
      BY <1>6, <1>8
    <2> HIDE DEF jj
    <2> QED
      BY <1>5, <2>1
  <1> QED
    BY <1>9 DEF r, s, u

(* The remainder of a number that is small enough is itself.               *)
LEMMA SmallRemainder ==
  ASSUME NEW n \in Nat \ {0}, NEW a \in Nat, a < n
  PROVE  a % n = a
  OBVIOUS

(* How far two places of the ring are apart.                               *)
LEMMA PlacesBetween ==
  ASSUME NEW n \in Nat \ {0}, NEW f \in Nat, NEW w \in Nat, NEW k \in Nat, k < n, w = f + k
  PROVE  ((w % n) - (f % n)) % n = k
  <1> DEFINE g == f % n
             h == w % n
             x == 0 - g
             y == g + k
  <1>1. g \in Int /\ x \in Int /\ h \in Int /\ y \in Int /\ y + x = k /\ h + x = h - g
    <2>1. g \in Int
      BY Remainder
    <2>2. h \in Int
      BY Remainder
    <2> HIDE DEF g, h
    <2> QED
      BY <2>1, <2>2
  <1>2. y % n = h
    <2>a. f \in Int /\ k \in Int
      OBVIOUS
    <2>1. ((f % n) + k) % n = (f + k) % n
      BY <2>a, PlaceOn, Zenon
    <2> QED
      BY <2>1
  <1> HIDE DEF g, h, x, y
  <1>3. ((y % n) + x) % n = (y + x) % n
    BY <1>1, PlaceOn
  <1>4. (h + x) % n = k % n
    BY <1>1, <1>2, <1>3
  <1>5. k % n = k
    BY SmallRemainder
  <1>6. (h - g) % n = k
    BY <1>1, <1>4, <1>5
  <1> QED
    BY <1>6 DEF g, h

(* What is logged, read and given back.                                    *)
SameLog(k, r) == r.wp = k.wp /\ r.rp = k.rp /\ r.ring = k.ring /\ r.lines = k.lines

(* The ring and its reader depend only on the fields of the log.           *)
LEMMA RingSame ==
  ASSUME NEW k, NEW r, SameLog(k, r)
  PROVE  /\ \A f : Ring(k, f) => Ring(r, f)
         /\ \A l, told, g : Reader(l, k, told, g) => Reader(l, r, told, g)
  <1>1. ASSUME NEW f
        PROVE  Ring(k, f) <=> Ring(r, f)
    BY DEF SameLog, Ring
  <1>2. r.lines = k.lines
    BY DEF SameLog
  <1>3. ASSUME NEW l, NEW told, NEW g, Reader(l, k, told, g)
        PROVE  Reader(l, r, told, g)
    BY <1>1, <1>2, <1>3 DEF Reader
  <1> QED
    BY <1>1, <1>3

(* The types of these fields.                                              *)
LEMMA LogFields ==
  ASSUME NEW k \in ChipRecords
  PROVE  /\ k.lines \in Nat /\ k.wp \in 0..LogSize - 1 /\ k.rp \in 0..LogSize - 1 /\ k.ring \in [0..LogSize - 1 -> Nat]
         /\ LogSize \in Nat \ {0} /\ LogSize \in Int
  BY DebugAssumption DEF ChipRecords

(* A line is logged where the ring has room.                               *)
LEMMA RingLogs ==
  ASSUME NEW k \in ChipRecords, NEW r, NEW f, Ring(k, f), (k.wp + 1) % LogSize # k.rp,
         r.rp = k.rp, r.lines = k.lines + 1, r.wp = (k.wp + 1) % LogSize,
         r.ring = [k.ring EXCEPT ![k.wp] = k.lines + 1]
  PROVE  Ring(r, f)
  <1> DEFINE n == LogSize
             m == k.lines
  <1>1. n \in Nat \ {0} /\ m \in Nat /\ k.ring \in [0..n - 1 -> Nat] /\ k.wp \in 0..n - 1
    BY LogFields
  <1>2. f \in 0..m /\ m - f < n /\ k.rp = f % n /\ k.wp = m % n /\ \A i \in f + 1..m : k.ring[(i - 1) % n] = i
    BY DEF Ring
  <1>a. r.lines = m + 1 /\ r.wp = (k.wp + 1) % n /\ r.rp = f % n /\ r.ring = [k.ring EXCEPT ![k.wp] = m + 1] /\ (k.wp + 1) % n # f % n
    BY <1>2
  <1> HIDE DEF n, m
  <1>3. ((m % n) + 1) % n = (m + 1) % n
    <2>1. m \in Int /\ 1 \in Int
      BY <1>1
    <2> QED
      BY <1>1, <2>1, PlaceOn, Zenon
  <1>4. r.wp = (m + 1) % n /\ (m + 1) % n # f % n
    BY <1>2, <1>3, <1>a
  <1>5. (m + 1) - f < n
    <2>1. (m + 1) - f # n
      <3>1. ASSUME m + 1 = f + n
            PROVE  FALSE
        <4>1. f \in Int /\ n \in Int
          BY <1>1, <1>2
        <4>2. (n % n) = 0
          <5>1. n % n \in 0..n - 1 /\ n \in Int
            BY <1>1, Remainder
          <5>2. PICK q \in Int : n = n * q + (n % n)
            BY <1>1, <5>1, Remainder, Zenon
          <5> DEFINE s == n % n
                     y == n * q
                     z == n * 1
          <5>3. s \in 0..n - 1 /\ n = y + s /\ z = n /\ y \in Int
            BY <1>1, <5>1, <5>2
          <5>4. z - y \in 1 - n..n - 1
            <6> HIDE DEF s, y, z
            <6> QED
              BY <1>1, <5>3
          <5>5. 1 = q
            <6>1. 1 \in Int
              OBVIOUS
            <6> QED
              BY <1>1, <5>2, <5>4, <6>1, Multiples, Zenon
          <5> HIDE DEF s
          <5>6. s = 0
            <6>1. y = n
              BY <1>1, <5>5
            <6> HIDE DEF y
            <6> QED
              BY <1>1, <5>3, <6>1
          <5> QED
            BY <5>6 DEF s
        <4>3. ((n % n) + f) % n = (n + f) % n
          BY <1>1, <4>1, PlaceOn, Zenon
        <4>4. n + f = m + 1 /\ 0 + f = f
          BY <3>1, <4>1
        <4>5. f % n = (m + 1) % n
          BY <4>2, <4>3, <4>4
        <4> QED
          BY <1>4, <4>5
      <3> QED
        BY <1>1, <1>2, <3>1
    <2> QED
      BY <1>1, <1>2, <2>1
  <1>6. ASSUME NEW i \in f + 1..m + 1
        PROVE  r.ring[(i - 1) % n] = i
    <2>1. i \in Int /\ i - 1 \in Int /\ m \in Int /\ m - (i - 1) \in 0..n - 1
      BY <1>1, <1>2, <1>5
    <2>2. (i - 1) % n \in 0..n - 1
      BY <1>1, <2>1, Remainder
    <2>3. CASE i = m + 1
      <3>1. i - 1 = m
        BY <1>1, <2>3
      <3> QED
        BY <1>1, <1>2, <1>a, <2>3, <3>1
    <2>4. CASE i # m + 1
      <3>1. i \in f + 1..m
        BY <1>1, <1>2, <2>4
      <3>2. k.ring[(i - 1) % n] = i
        BY <1>2, <3>1
      <3>3. (i - 1) % n # m % n
        <4>1. m - (i - 1) \in 1 - n..n - 1 /\ i - 1 # m
          BY SMTT(30), <1>1, <2>1, <3>1
        <4> QED
          BY <1>1, <2>1, <4>1, PlacesApart
      <3> QED
        BY <1>1, <1>2, <1>a, <2>2, <3>2, <3>3
    <2> QED
      BY <2>3, <2>4
  <1>7. f \in 0..m + 1 /\ r.lines = m + 1
    BY <1>1, <1>2, <1>a
  <1> QED
    BY <1>4, <1>5, <1>6, <1>7, <1>a DEF Ring, n

(* What is copied are the lines between the pointers, in order.            *)
LEMMA RingRead ==
  ASSUME NEW k \in ChipRecords, NEW f, Ring(k, f), NEW w \in f..k.lines, NEW rp, NEW wp, rp = f % LogSize, wp = w % LogSize
  PROVE  [i \in 1..(wp - rp) % LogSize |-> k.ring[(rp + i - 1) % LogSize]] = [i \in 1..w - f |-> f + i]
  <1> DEFINE n == LogSize
             m == k.lines
             d == w - f
  <1>1. n \in Nat \ {0} /\ m \in Nat
    BY LogFields
  <1>2. f \in 0..m /\ m - f < n /\ \A i \in f + 1..m : k.ring[(i - 1) % n] = i
    BY DEF Ring
  <1>3. f \in Nat /\ w \in Nat /\ d \in Nat /\ d < n /\ w = f + d /\ w <= m
    <2>1. w \in f..m
      OBVIOUS
    <2> HIDE DEF n, m
    <2> QED
      BY <1>1, <1>2, <2>1
  <1> HIDE DEF n, m, d
  <1>4. ((w % n) - (f % n)) % n = d
    BY <1>1, <1>3, PlacesBetween, Zenon
  <1>5. (wp - rp) % n = d
    BY <1>4 DEF n
  <1>6. ASSUME NEW i \in 1..d
        PROVE  k.ring[(rp + i - 1) % n] = f + i
    <2>1. f \in Int /\ i - 1 \in Int /\ f + i \in f + 1..m /\ f + (i - 1) = f + i - 1 /\ f + i \in Int
      BY <1>1, <1>3
    <2>2. ((f % n) + (i - 1)) % n = (f + (i - 1)) % n
      BY <1>1, <2>1, PlaceOn, Zenon
    <2>3. rp = f % n /\ rp \in Int
      BY <1>1, <2>1, Remainder DEF n
    <2>4. rp + (i - 1) = rp + i - 1
      BY <2>3
    <2>5. k.ring[(f + i - 1) % n] = f + i
      BY <1>2, <2>1
    <2> QED
      BY <2>1, <2>2, <2>3, <2>4, <2>5
  <1>7. [i \in 1..(wp - rp) % n |-> k.ring[(rp + i - 1) % n]] = [i \in 1..d |-> f + i]
    BY <1>5, <1>6
  <1> QED
    BY <1>7 DEF n, d

(* The pointer is given back.                                              *)
LEMMA RingDone ==
  ASSUME NEW k \in ChipRecords, NEW r, NEW f, Ring(k, f), NEW w \in f..k.lines,
         r.rp = w % LogSize, r.wp = k.wp, r.ring = k.ring, r.lines = k.lines
  PROVE  Ring(r, w)
  <1> DEFINE m == k.lines
  <1>1. LogSize \in Int /\ m \in Nat
    BY LogFields
  <1>2. f \in 0..m /\ m - f < LogSize /\ k.wp = m % LogSize /\ \A i \in f + 1..m : k.ring[(i - 1) % LogSize] = i
    BY DEF Ring
  <1>3. r.lines = m /\ w \in f..m
    OBVIOUS
  <1> HIDE DEF m
  <1>4. w \in 0..m /\ m - w < LogSize /\ \A i \in w + 1..m : i \in f + 1..m
    BY <1>1, <1>2, <1>3
  <1> QED
    BY <1>2, <1>3, <1>4 DEF Ring

-----------------------------------------------------------------------------
(* A log is told once                                                      *)

UpTo(s)    == s = [i \in 1..Len(s) |-> i]
LogOf(d)   ==
  Live(d) => /\ UpTo(past.told[d])
             /\ (\A t \in Tasks : Dumping(t) => found[t] # d) => Ring(chips[d], Len(past.told[d]))
DumpOf(t)  == Live(found[t]) => Reader(Len(todo[t]), chips[found[t]], past.told[found[t]], got[t])
LogAgree   ==
  /\ \A t, u \in Tasks : Dumping(t) /\ Dumping(u) => t = u
  /\ \A d \in Devs : LogOf(d)
  /\ \A t \in Tasks : Dumping(t) => DumpOf(t)
OnAreUp    == \A d \in Devs : chips[d].on <=> dir[d].state = "up"
Unlogged(d) == Live(d) /\ dir[d].state # "up" => chips[d].lines = 0 /\ chips[d].rp = 0 /\ chips[d].wp = 0

(* The parts of the invariant about the log.                               *)
LEMMA LogParts ==
  LogInv <=> (model.bus = "pcie" => OnAreUp /\ (~past.twoDumps => (\A d \in Devs : Unlogged(d)) /\ LogAgree))
  <1>1. (\A d \in Devs : LogOf(d)) <=>
          /\ \A d \in Devs : Live(d) => past.told[d] = [i \in 1..Len(past.told[d]) |-> i]
          /\ \A d \in Devs : Live(d) /\ (\A t \in Tasks : Dumping(t) => found[t] # d) => Ring(chips[d], Len(past.told[d]))
    BY DEF LogOf, UpTo
  <1>2. (\A t \in Tasks : Dumping(t) => DumpOf(t)) <=>
          \A t \in Tasks : Dumping(t) /\ Live(found[t]) => Reader(Len(todo[t]), chips[found[t]], past.told[found[t]], got[t])
    BY DEF DumpOf
  <1>3. LogAgree <=>
          /\ \A t, u \in Tasks : Dumping(t) /\ Dumping(u) => t = u
          /\ \A d \in Devs : Live(d) => past.told[d] = [i \in 1..Len(past.told[d]) |-> i]
          /\ \A d \in Devs : Live(d) /\ (\A t \in Tasks : Dumping(t) => found[t] # d) => Ring(chips[d], Len(past.told[d]))
          /\ \A t \in Tasks : Dumping(t) /\ Live(found[t]) => Reader(Len(todo[t]), chips[found[t]], past.told[found[t]], got[t])
    BY <1>1, <1>2 DEF LogAgree
  <1> QED
    BY <1>3 DEF LogInv, OnAreUp, Unlogged

(* A log that has no lines.                                                *)
LEMMA RingEmpty ==
  ASSUME NEW k \in ChipRecords, k.lines = 0, k.rp = 0, k.wp = 0
  PROVE  Ring(k, 0)
  <1>1. LogSize \in Nat \ {0} /\ 0 % LogSize = 0 /\ 0 < LogSize
    <2>1. LogSize \in Nat \ {0}
      BY LogFields
    <2> QED
      BY <2>1, SmallRemainder
  <1>2. 0 \in 0..k.lines /\ k.lines - 0 < LogSize
    BY <1>1
  <1>3. k.rp = 0 % LogSize /\ k.wp = k.lines % LogSize
    BY <1>1
  <1>4. \A i \in 0 + 1..k.lines : k.ring[(i - 1) % LogSize] = i
    OBVIOUS
  <1> QED
    BY <1>2, <1>3, <1>4 DEF Ring

LEMMA LogInit ==
  ASSUME Init
  PROVE  LogInv
  <1>0. TypeOK
    BY InitBase
  <1>1. \A t \in Tasks : ~Dumping(t)
    BY DEF Init, Dumping, Begun, Inner
  <1>2. \A d \in Devs : /\ chips[d].lines = 0 /\ chips[d].rp = 0 /\ chips[d].wp = 0 /\ chips[d] \in ChipRecords
                        /\ past.told[d] = <<>>
    <2>1. \A d \in Devs : chips[d] \in ChipRecords
      BY <1>0 DEF TypeOK, ChipTypeOK
    <2> QED
      BY <2>1 DEF Init, Chip0
  <1>3. \A d \in Devs : chips[d].on <=> dir[d].state = "up"
    BY DEF Init, Chip0, Unborn
  <1>4. OnAreUp /\ \A d \in Devs : Unlogged(d)
    BY <1>2, <1>3 DEF OnAreUp, Unlogged
  <1>5. ASSUME NEW d \in Devs
        PROVE  LogOf(d)
    <2>1. Len(<<>>) = 0 /\ <<>> = [i \in 1..0 |-> i]
      OBVIOUS
    <2> QED
      BY <1>2, <2>1, RingEmpty DEF LogOf, UpTo
  <1> QED
    BY <1>0, <1>1, <1>4, <1>5, LogParts DEF LogAgree

(* Where a dump is.                                                        *)
LEMMA DumpPlace ==
  ASSUME TypeOK, ScriptInv, NEW t \in Tasks, Inner(t), op[t].call.file \in {"cmd", "debug"}, op[t].call.cmd = "fwlog", model.bus = "pcie"
  PROVE  LET l == Len(todo[t]) IN
         /\ l \in 1..6 /\ found[t] \in Devs
         /\ l = 6 => Now(t) = Log("wp")
         /\ l = 5 => Now(t) = Log("rp")
         /\ l = 4 => Now(t) = Maybe
         /\ l = 3 => Now(t) = Log("copy")
         /\ l = 2 => Now(t) = Log("print")
         /\ l = 1 => Now(t) = Log("done")
  <1> DEFINE e == Section(model, op[t].call)
             l == Len(todo[t])
             dump == memx_fw_log_dump
  <1>1. /\ Now(t) = e[Len(e) + 1 - l] /\ l \in Nat /\ l > 0 /\ l <= Len(e) /\ Len(e) \in Nat /\ op[t].call \in Calls
        /\ op[t].call.file # "throughput" => found[t] \in Devs
    BY AtStep
  <1>2. e = dump
    <2>1. e = IF op[t].call.how = "store" /\ op[t].call.cmd \in Handled
              THEN memx_fs_cmd_handler(op[t].call) ELSE <<>>
      BY <1>1, SectionIs
    <2>2. e # <<>>
      BY <1>1
    <2>3. memx_fs_cmd_handler(op[t].call) = dump
      BY <1>1, HandlersAre DEF Handled
    <2> QED
      BY <2>1, <2>2, <2>3
  <1>3. /\ Len(dump) = 6 /\ dump[1] = Log("wp") /\ dump[2] = Log("rp") /\ dump[3] = Maybe
        /\ dump[4] = Log("copy") /\ dump[5] = Log("print") /\ dump[6] = Log("done")
    BY DEF memx_fw_log_dump
  <1> HIDE DEF e, l, dump
  <1>4. l \in 1..6 /\ Now(t) = dump[7 - l]
    BY <1>1, <1>2, <1>3
  <1>5. /\ l = 6 => Now(t) = Log("wp")
        /\ l = 5 => Now(t) = Log("rp")
        /\ l = 4 => Now(t) = Maybe
        /\ l = 3 => Now(t) = Log("copy")
        /\ l = 2 => Now(t) = Log("print")
        /\ l = 1 => Now(t) = Log("done")
    BY <1>3, <1>4
  <1>6. found[t] \in Devs
    BY <1>1
  <1> QED
    BY <1>4, <1>5, <1>6 DEF l

(* Steps at the log are a dump's.                                          *)
LEMMA DumpActs ==
  ASSUME TypeOK, ScriptInv, NEW t \in Tasks, Follow(t), Now(t).do = "log"
  PROVE  Inner(t) /\ op[t].call.file \in {"cmd", "debug"} /\ op[t].call.cmd = "fwlog"
  <1> DEFINE e == Section(model, op[t].call)
  <1>1. Doing(t, Now(t).do)
    BY Followed
  <1>2. Inner(t) /\ Kind(op[t].call, e, Len(e) + 1 - Len(todo[t])) /\ Now(t) = e[Len(e) + 1 - Len(todo[t])]
    BY <1>1, Inside DEF Inner
  <1> QED
    BY <1>2 DEF Kind

(* How a task comes to be dumping.                                         *)
LEMMA DumpsOwn ==
  ASSUME TypeOK, ScriptInv, DirInv, NEW t \in Tasks, Operation(t), Dumping(t)', model.bus = "pcie"
  PROVE  /\ Follow(t) /\ Inner(t) /\ op[t].call.file \in {"cmd", "debug"} /\ op[t].call.cmd = "fwlog"
         /\ op' = op /\ found' = found /\ model' = model
  <1>1. TypeOK' /\ ScriptInv'
    BY NextBase DEF Next
  <1>2. Inner(t)' /\ op'[t].call.file \in {"cmd", "debug"} /\ op'[t].call.cmd = "fwlog" /\ Len(todo'[t]) <= 5
    BY DEF Dumping, Begun
  <1>3. model' = model
    BY StartOrFollow, Followed DEF Start
  <1>4. op'[t].call \in Calls
    BY <1>1, <1>2 DEF Inner, TypeOK, TaskTypeOK
  <1> DEFINE a == op'[t].call
             m == Len(Section(model', a))
             n == Len(todo'[t])
  <1>5. m = 6
    <2> HIDE DEF a
    <2>1. Section(model, a) = IF a.how = "store" /\ a.cmd \in Handled THEN memx_fs_cmd_handler(a) ELSE <<>>
      BY <1>2, <1>4, SectionIs DEF a
    <2>2. memx_fs_cmd_handler(a) = memx_fw_log_dump
      BY <1>2, <1>4, HandlersAre DEF Handled, a
    <2>3. Section(model, a) # <<>>
      <3>1. n <= Len(Section(model, a)) /\ todo'[t] # <<>>
        BY <1>2, <1>3 DEF Inner, a
      <3>2. todo'[t] \in Seq(Steps)
        BY <1>1 DEF TypeOK, TaskTypeOK
      <3>3. n \in Nat /\ n > 0
        BY <3>1, <3>2, LengthOf
      <3>4. Len(<<>>) = 0
        OBVIOUS
      <3> HIDE DEF n
      <3> QED
        BY <3>1, <3>3, <3>4
    <2>4. Section(model, a) = memx_fw_log_dump /\ Len(memx_fw_log_dump) = 6
      BY <2>1, <2>2, <2>3 DEF memx_fw_log_dump
    <2> QED
      BY <1>3, <2>4
  <1>6. n # m
    <2>1. n <= 5
      BY <1>2
    <2> HIDE DEF n, m
    <2> QED
      BY <1>5, <2>1
  <1> QED
    BY <1>2, <1>6, Arrives

(* Steps that leave the log, those who dump it and what was told.          *)
LEMMA LogUntouched ==
  ASSUME TypeOK, ScriptInv, LogAgree,
         \A u \in Tasks : Dumping(u)' <=> Dumping(u),
         \A u \in Tasks : Dumping(u) => todo'[u] = todo[u] /\ found'[u] = found[u] /\ got'[u] = got[u],
         \A d \in Devs : Live(d)' => Live(d) /\ past'.told[d] = past.told[d] /\ SameLog(chips[d], chips'[d])
  PROVE  LogAgree'
  <1>1. ASSUME NEW d \in Devs
        PROVE  LogOf(d)'
    <2>1. ASSUME Live(d)'
          PROVE  /\ UpTo(past'.told[d])
                 /\ (\A t \in Tasks : Dumping(t)' => found'[t] # d) => Ring(chips'[d], Len(past'.told[d]))
      <3>1. Live(d) /\ past'.told[d] = past.told[d] /\ SameLog(chips[d], chips'[d])
        BY <2>1
      <3>2. UpTo(past.told[d]) /\ ((\A t \in Tasks : Dumping(t) => found[t] # d) => Ring(chips[d], Len(past.told[d])))
        BY <3>1 DEF LogAgree, LogOf
      <3>3. (\A t \in Tasks : Dumping(t)' => found'[t] # d) => Ring(chips'[d], Len(past.told[d]))
        BY <3>1, <3>2, RingSame
      <3> QED
        BY <3>1, <3>2, <3>3
    <2> QED
      BY <2>1 DEF LogOf, UpTo
  <1>2. ASSUME NEW u \in Tasks, Dumping(u)'
        PROVE  DumpOf(u)'
    <2>1. Dumping(u) /\ todo'[u] = todo[u] /\ found'[u] = found[u] /\ got'[u] = got[u]
      BY <1>2
    <2>2. Inner(u) /\ op[u].call.file # "throughput"
      BY <2>1 DEF Dumping, Begun
    <2>3. found[u] \in Devs
      BY <2>2, AtStep
    <2> PICK d \in Devs : d = found[u]
      BY <2>3
    <2>4. ASSUME Live(d)'
          PROVE  Reader(Len(todo[u]), chips'[d], past'.told[d], got[u])
      <3>1. Live(d) /\ past'.told[d] = past.told[d] /\ SameLog(chips[d], chips'[d])
        BY <2>4
      <3>2. Reader(Len(todo[u]), chips[d], past.told[d], got[u])
        BY <2>1, <3>1 DEF LogAgree, DumpOf
      <3> QED
        BY <3>1, <3>2, RingSame
    <2>5. Live(found[u])' => Live(d)'
      BY <2>1 DEF Live
    <2> QED
      BY <2>1, <2>4, <2>5 DEF DumpOf
  <1>3. \A t, u \in Tasks : Dumping(t)' /\ Dumping(u)' => t = u
    BY DEF LogAgree
  <1> QED
    BY <1>1, <1>2, <1>3 DEF LogAgree

(* One that dumps is alone in it.                                          *)
LEMMA DumpAlone ==
  ASSUME TypeOK, ScriptInv, DirInv, LogAgree, model.bus = "pcie", NEW t \in Tasks, Follow(t), ~past'.twoDumps,
         Inner(t), op[t].call.file \in {"cmd", "debug"}, op[t].call.cmd = "fwlog"
  PROVE  /\ \A u \in Tasks \ {t} : ~Dumping(u) /\ ~Dumping(u)'
         /\ op' = op /\ found' = found /\ dir' = dir /\ model' = model
         /\ \A x \in Devs \ {found[t]} : LogOf(x)'
  <1> DEFINE l == Len(todo[t])
  <1>0. past \in Histories
    BY DEF TypeOK
  <1>1. /\ l \in 1..6 /\ found[t] \in Devs
        /\ l = 6 => Now(t) = Log("wp")
        /\ l = 5 => Now(t) = Log("rp")
        /\ l = 4 => Now(t) = Maybe
        /\ l = 3 => Now(t) = Log("copy")
        /\ l = 2 => Now(t) = Log("print")
        /\ l = 1 => Now(t) = Log("done")
    BY DumpPlace
  <1>2. ASSUME NEW u \in Tasks \ {t}, Dumping(u)
        PROVE  FALSE
    <2>1. CASE l = 6
      <3>1. LogRead(t)
        BY <1>1, <2>1, Acts DEF Log
      <3>2. past'.twoDumps = (past.twoDumps \/ Others(t, {"cmd", "debug"}) # {})
        BY <1>0, <3>1 DEF LogRead, Histories
      <3>3. u \in Others(t, {"cmd", "debug"})
        BY <1>2 DEF Others, Dumping, Begun, Inner
      <3> QED
        BY <3>2, <3>3
    <2>2. CASE l # 6
      <3>1. l <= 5
        <4> HIDE DEF l
        <4> QED
          BY <1>1, <2>2
      <3>2. Dumping(t)
        BY <3>1 DEF Dumping, Begun
      <3> QED
        BY <1>2, <3>2 DEF LogAgree
    <2> QED
      BY <2>1, <2>2
  <1>3. Operation(t)
    BY StartOrFollow
  <1>4. \A u \in Tasks \ {t} : ~Dumping(u)'
    <2>1. ASSUME NEW u \in Tasks \ {t}
          PROVE  (Begun(u, {"cmd", "debug"}, 5)' <=> Begun(u, {"cmd", "debug"}, 5)) /\ op'[u] = op[u]
      BY <1>3, OthersStay
    <2> QED
      BY <1>2, <2>1 DEF Dumping
  <1>5. op' = op /\ found' = found /\ dir' = dir /\ model' = model
    <2>1. Now(t).do # "find"
      <3> HIDE DEF l
      <3> QED
        BY <1>1 DEF Log, Maybe
    <2> QED
      BY <2>1, Followed
  <1>6. ASSUME NEW x \in Devs \ {found[t]}
        PROVE  LogOf(x)'
    <2>1. chips'[x] = chips[x]
      BY ChipKept
    <2>2. past'.told[x] = past.told[x]
      <3>1. CASE LogPrint(t)
        BY <1>0, <1>1, <3>1 DEF LogPrint, Histories
      <3>2. CASE ~LogPrint(t)
        BY <3>2, Kept
      <3> QED
        BY <3>1, <3>2
    <2>3. \A u \in Tasks : Dumping(u) => found[u] # x
      BY <1>2
    <2>4. LogOf(x)
      BY DEF LogAgree
    <2>5. Live(x) => UpTo(past.told[x]) /\ Ring(chips[x], Len(past.told[x]))
      BY <2>3, <2>4 DEF LogOf
    <2>6. Live(x)' <=> Live(x)
      BY <1>5 DEF Live
    <2> QED
      BY <2>1, <2>2, <2>5, <2>6 DEF LogOf, UpTo
  <1> QED
    BY <1>2, <1>4, <1>5, <1>6

(* With one dump it is enough to say what becomes of its device.           *)
LEMMA DumpGoesOn ==
  ASSUME NEW t \in Tasks, NEW d \in Devs, d = found[t], found' = found,
         \A u \in Tasks \ {t} : ~Dumping(u)',
         \A x \in Devs \ {d} : LogOf(x)',
         Live(d)' => /\ UpTo(past'.told[d])
                     /\ Dumping(t)' => Reader(Len(todo'[t]), chips'[d], past'.told[d], got'[t])
                     /\ ~Dumping(t)' => Ring(chips'[d], Len(past'.told[d]))
  PROVE  LogAgree'
  <1>1. LogOf(d)'
    BY DEF LogOf, UpTo
  <1>2. Dumping(t)' => DumpOf(t)'
    BY DEF DumpOf, Live
  <1> QED
    BY <1>1, <1>2 DEF LogAgree

(* The state of a dump: what Reader says, with its two places named.       *)
LEMMA ReaderIs ==
  ASSUME NEW l, NEW k, NEW told, NEW g
  PROVE  Reader(l, k, told, g) <=>
           \E f \in 0..k.lines : \E w \in f..k.lines :
             /\ Ring(k, f) /\ g.wp = w % LogSize /\ (l <= 4 => g.rp = f % LogSize)
             /\ (l <= 2 => g.lines = [i \in 1..w - f |-> f + i])
             /\ Len(told) = IF l = 1 THEN w ELSE f
  BY DEF Reader

(* A dump that has read the write pointer.                                 *)
LEMMA DumpBegins ==
  ASSUME NEW k \in ChipRecords, NEW told, Ring(k, Len(told)), NEW g, g.wp = k.wp
  PROVE  Reader(5, k, told, g)
  <1> DEFINE f == Len(told)
             w == k.lines
  <1>1. f \in 0..k.lines /\ Ring(k, f) /\ k.wp = w % LogSize /\ k.lines \in Nat
    BY LogFields DEF Ring
  <1>2. w \in f..k.lines
    <2> HIDE DEF f
    <2> QED
      BY <1>1
  <1> HIDE DEF f, w
  <1>3. ~(5 <= 4) /\ ~(5 <= 2) /\ 5 # 1
    OBVIOUS
  <1>4. Len(told) = f
    BY DEF f
  <1> DEFINE l == 5
  <1> HIDE DEF l
  <1>5. ~(l <= 4) /\ ~(l <= 2) /\ l # 1
    BY <1>3 DEF l
  <1>6. /\ Ring(k, f) /\ g.wp = w % LogSize /\ (l <= 4 => g.rp = f % LogSize)
        /\ (l <= 2 => g.lines = [i \in 1..w - f |-> f + i])
        /\ Len(told) = IF l = 1 THEN w ELSE f
    BY <1>1, <1>4, <1>5
  <1>7. Reader(l, k, told, g)
    BY <1>1, <1>2, <1>6, ReaderIs
  <1> QED
    BY <1>7 DEF l

(* A dump that has read more.                                              *)
LEMMA DumpReads ==
  ASSUME NEW k, NEW told, NEW g, NEW h, NEW l \in {3, 4, 5}, Reader(l, k, told, g), h.wp = g.wp,
         IF l = 5 THEN h.rp = k.rp ELSE h.rp = g.rp,
         l = 3 => \A f, w : f \in 0..k.lines /\ w \in f..k.lines /\ Ring(k, f) /\ g.wp = w % LogSize /\ g.rp = f % LogSize =>
                    h.lines = [i \in 1..w - f |-> f + i]
  PROVE  Reader(l - 1, k, told, h)
  <1>1. PICK f \in 0..k.lines : \E w \in f..k.lines :
               /\ Ring(k, f) /\ g.wp = w % LogSize /\ (l <= 4 => g.rp = f % LogSize)
               /\ Len(told) = IF l = 1 THEN w ELSE f
    BY ReaderIs
  <1>2. PICK w \in f..k.lines :
               /\ Ring(k, f) /\ g.wp = w % LogSize /\ (l <= 4 => g.rp = f % LogSize)
               /\ Len(told) = IF l = 1 THEN w ELSE f
    BY <1>1
  <1>3. h.rp = f % LogSize
    BY <1>2 DEF Ring
  <1>4. l - 1 <= 2 => h.lines = [i \in 1..w - f |-> f + i]
    <2>1. l - 1 <= 2 => l = 3 /\ l <= 4
      OBVIOUS
    <2> QED
      BY <1>2, <2>1
  <1>5. Len(told) = IF l - 1 = 1 THEN w ELSE f
    <2>1. l # 1 /\ l - 1 # 1
      OBVIOUS
    <2> QED
      BY <1>2, <2>1
  <1> DEFINE m == l - 1
  <1> HIDE DEF m
  <1>6. /\ Ring(k, f) /\ h.wp = w % LogSize /\ (m <= 4 => h.rp = f % LogSize)
        /\ (m <= 2 => h.lines = [i \in 1..w - f |-> f + i])
        /\ Len(told) = IF m = 1 THEN w ELSE f
    BY <1>2, <1>3, <1>4, <1>5 DEF m
  <1>7. Reader(m, k, told, h)
    BY <1>6, ReaderIs
  <1> QED
    BY <1>7 DEF m

(* A dump that finds nothing new.                                          *)
LEMMA DumpStops ==
  ASSUME NEW k, NEW told, NEW g, Reader(4, k, told, g)
  PROVE  Ring(k, Len(told))
  BY DEF Reader

(* Lines told in order, and the next ones.                                 *)
LEMMA ToldOn ==
  ASSUME NEW told \in Seq(Nat), UpTo(told), NEW n \in Nat, NEW s \in Seq(Nat), Len(s) = n,
         \A i \in 1..n : s[i] = Len(told) + i
  PROVE  UpTo(told \o s) /\ Len(told \o s) = Len(told) + n
  <1> DEFINE u == told \o s
             f == Len(told)
  <1>1. f \in Nat
    OBVIOUS
  <1>2. Len(u) = f + n /\ u \in Seq(Nat)
    OBVIOUS
  <1>3. \A i \in 1..f : u[i] = told[i]
    OBVIOUS
  <1>4. \A j \in 1..n : u[f + j] = s[j]
    OBVIOUS
  <1>5. \A i \in 1..f : told[i] = i
    BY DEF UpTo
  <1>6. \A j \in 1..n : s[j] = f + j
    OBVIOUS
  <1> HIDE DEF u, f
  <1>7. ASSUME NEW i \in 1..f + n
        PROVE  u[i] = i
    <2>1. CASE i <= f
      <3>1. i \in 1..f
        BY <1>1, <2>1
      <3> QED
        BY <1>3, <1>5, <3>1
    <2>2. CASE i > f
      <3> DEFINE j == i - f
      <3>1. j \in 1..n /\ f + j = i
        BY <1>1, <2>2
      <3> HIDE DEF j
      <3> QED
        BY <1>4, <1>6, <3>1
    <2> QED
      BY <1>1, <2>1, <2>2
  <1>8. u = [i \in 1..Len(u) |-> i]
    <2>1. u = [i \in 1..Len(u) |-> u[i]]
      BY <1>2
    <2> QED
      BY <1>2, <1>7, <2>1
  <1> QED
    BY <1>2, <1>8 DEF u, f, UpTo

(* The copy is printed.                                                    *)
LEMMA DumpPrints ==
  ASSUME NEW k \in ChipRecords, NEW told \in Seq(Nat), UpTo(told), NEW g, Reader(2, k, told, g)
  PROVE  UpTo(told \o g.lines) /\ Reader(1, k, told \o g.lines, g)
  <1>1. PICK f \in 0..k.lines : \E w \in f..k.lines :
               /\ Ring(k, f) /\ g.wp = w % LogSize /\ g.rp = f % LogSize
               /\ g.lines = [i \in 1..w - f |-> f + i] /\ Len(told) = f
    <2> DEFINE l == 2
    <2>1. l <= 4 /\ l <= 2 /\ l # 1
      OBVIOUS
    <2> HIDE DEF l
    <2>2. Reader(l, k, told, g)
      BY DEF l
    <2>3. \E f \in 0..k.lines : \E w \in f..k.lines :
             /\ Ring(k, f) /\ g.wp = w % LogSize /\ (l <= 4 => g.rp = f % LogSize)
             /\ (l <= 2 => g.lines = [i \in 1..w - f |-> f + i])
             /\ Len(told) = IF l = 1 THEN w ELSE f
      BY <2>2, ReaderIs
    <2> QED
      BY <2>1, <2>3
  <1>2. PICK w \in f..k.lines :
               /\ Ring(k, f) /\ g.wp = w % LogSize /\ g.rp = f % LogSize
               /\ g.lines = [i \in 1..w - f |-> f + i] /\ Len(told) = f
    BY <1>1
  <1>3. k.lines \in Nat /\ f \in Nat /\ w \in Nat /\ w - f \in Nat /\ f + (w - f) = w
    <2>1. k.lines \in Nat
      BY LogFields
    <2> QED
      BY <2>1
  <1> DEFINE n == w - f
             s == g.lines
  <1>4. s \in Seq(Nat) /\ Len(s) = n /\ \A i \in 1..n : s[i] = Len(told) + i
    BY <1>2, <1>3
  <1>5. UpTo(told \o s) /\ Len(told \o s) = Len(told) + n
    <2>1. n \in Nat
      BY <1>3
    <2> HIDE DEF n, s
    <2> QED
      BY <1>4, <2>1, ToldOn
  <1> DEFINE u == told \o s
  <1>6. Len(u) = w
    BY <1>2, <1>3, <1>5
  <1> HIDE DEF u
  <1>7. /\ Ring(k, f) /\ g.wp = w % LogSize /\ (1 <= 4 => g.rp = f % LogSize)
        /\ (1 <= 2 => g.lines = [i \in 1..w - f |-> f + i])
        /\ Len(u) = IF 1 = 1 THEN w ELSE f
    BY <1>2, <1>6
  <1>8. Reader(1, k, u, g)
    BY <1>7, ReaderIs
  <1> QED
    BY <1>5, <1>8 DEF u

(* What was printed is given back.                                         *)
LEMMA DumpEnds ==
  ASSUME NEW k \in ChipRecords, NEW told, NEW g, Reader(1, k, told, g), NEW r,
         r.rp = g.wp, r.wp = k.wp, r.ring = k.ring, r.lines = k.lines
  PROVE  Ring(r, Len(told))
  <1>1. PICK f \in 0..k.lines : \E w \in f..k.lines : Ring(k, f) /\ g.wp = w % LogSize /\ Len(told) = w
    BY DEF Reader
  <1>2. PICK w \in f..k.lines : Ring(k, f) /\ g.wp = w % LogSize /\ Len(told) = w
    BY <1>1
  <1>3. Ring(r, w)
    BY <1>2, RingDone
  <1> QED
    BY <1>2, <1>3

(* All steps of a dump.                                                    *)
LEMMA DumpStep ==
  ASSUME TypeOK, ScriptInv, DirInv, LogAgree, model.bus = "pcie", NEW t \in Tasks, Follow(t), ~past'.twoDumps,
         Inner(t), op[t].call.file \in {"cmd", "debug"}, op[t].call.cmd = "fwlog"
  PROVE  LogAgree'
  <1> DEFINE l == Len(todo[t])
  <1>0. past \in Histories /\ got \in [Tasks -> Readings] /\ chips \in [Devs -> ChipRecords] /\ todo \in [Tasks -> Seq(Steps)]
    BY DEF TypeOK, TaskTypeOK, ChipTypeOK
  <1>1. /\ l \in 1..6 /\ found[t] \in Devs
        /\ l = 6 => Now(t) = Log("wp")
        /\ l = 5 => Now(t) = Log("rp")
        /\ l = 4 => Now(t) = Maybe
        /\ l = 3 => Now(t) = Log("copy")
        /\ l = 2 => Now(t) = Log("print")
        /\ l = 1 => Now(t) = Log("done")
    BY DumpPlace
  <1> PICK d \in Devs : d = found[t]
    BY <1>1
  <1> DEFINE k == chips[d]
             told == past.told[d]
             g == got[t]
  <1>2. /\ \A u \in Tasks \ {t} : ~Dumping(u) /\ ~Dumping(u)'
        /\ op' = op /\ found' = found /\ dir' = dir /\ model' = model
        /\ \A x \in Devs \ {d} : LogOf(x)'
    BY DumpAlone
  <1>3. k \in ChipRecords /\ g \in Readings /\ told \in Seq(Nat)
    BY <1>0 DEF Histories
  <1>4. Live(d)' <=> Live(d)
    BY <1>2 DEF Live
  <1>5. Live(d) => UpTo(told)
    BY DEF LogAgree, LogOf
  <1>6. l # 6 => Dumping(t)
    <2>1. l # 6 => l <= 5
      <3> HIDE DEF l
      <3> QED
        BY <1>1
    <2> QED
      BY <2>1 DEF Dumping, Begun
  <1>7. Live(d) /\ l # 6 => Reader(l, k, told, g)
    BY <1>6 DEF LogAgree, DumpOf
  <1>8. Live(d) /\ l = 6 => Ring(k, Len(told))
    <2>1. l = 6 => ~Dumping(t)
      <3>1. l = 6 => ~(l <= 5)
        <4> HIDE DEF l
        <4> QED
          OBVIOUS
      <3> QED
        BY <3>1 DEF Dumping, Begun
    <2>2. l = 6 => \A u \in Tasks : ~Dumping(u)
      BY <1>2, <2>1
    <2> QED
      BY <2>2 DEF LogAgree, LogOf
  <1>9. ASSUME l # 1, todo'[t] = Tail(todo[t])
        PROVE  Dumping(t)' /\ Len(todo'[t]) = l - 1
    <2>1. Len(todo[t]) > 1
      <3>1. l > 1
        <4> HIDE DEF l
        <4> QED
          BY <1>1, <1>9
      <3> QED
        BY <3>1
    <2>2. Inner(t)' /\ Len(todo'[t]) = l - 1
      BY <1>2, <1>9, <2>1, InnerNext
    <2>3. Len(todo'[t]) <= 5
      <3> HIDE DEF l
      <3> QED
        BY <1>1, <2>2
    <2> QED
      BY <1>2, <2>2, <2>3 DEF Dumping, Begun
  <1>10. CASE l \in {6, 5, 3}
    <2>1. LogRead(t) /\ Now(t).part = (IF l = 6 THEN "wp" ELSE IF l = 5 THEN "rp" ELSE "copy")
      <3>1. Now(t).do = "log" /\ Now(t).part = (IF l = 6 THEN "wp" ELSE IF l = 5 THEN "rp" ELSE "copy")
        <4> HIDE DEF l
        <4> QED
          BY <1>1, <1>10 DEF Log
      <3> QED
        BY <3>1, Acts
    <2>2. chips' = chips /\ past'.told = past.told /\ todo'[t] = Tail(todo[t])
      BY <1>0, <2>1 DEF LogRead, Advance, Histories
    <2>3. Dumping(t)' /\ Len(todo'[t]) = l - 1
      <3>1. l # 1
        <4> HIDE DEF l
        <4> QED
          BY <1>10
      <3> QED
        BY <1>9, <2>2, <3>1
    <2> DEFINE h == got'[t]
    <2>4. /\ l = 6 => h = [g EXCEPT !.wp = k.wp]
          /\ l = 5 => h = [g EXCEPT !.rp = k.rp]
          /\ l = 3 => h = [g EXCEPT !.lines = Lines(d, g.rp, g.wp)]
      <3>1. l = 6 => Note(t, "wp", k.wp)
        BY <2>1 DEF LogRead
      <3>2. l = 5 => Note(t, "rp", k.rp)
        <4>1. l = 5 => Now(t).part = "rp"
          <5> HIDE DEF l
          <5> QED
            BY <2>1
        <4> QED
          BY <2>1, <4>1 DEF LogRead
      <3>3. l = 3 => Note(t, "lines", Lines(d, g.rp, g.wp))
        <4>1. l = 3 => Now(t).part = "copy"
          <5> HIDE DEF l
          <5> QED
            BY <2>1
        <4> QED
          BY <2>1, <4>1 DEF LogRead
      <3> HIDE DEF l, k
      <3> QED
        BY <1>0, <3>1, <3>2, <3>3 DEF Note
    <2>5. Live(d) => Reader(l - 1, k, told, h)
      <3>1. CASE l = 6
        <4>1. h.wp = k.wp
          BY <1>3, <2>4, <3>1 DEF Readings
        <4> HIDE DEF k, told, h, l
        <4>2. Live(d) => Reader(5, k, told, h)
          BY <1>3, <1>8, <3>1, <4>1, DumpBegins
        <4> QED
          BY <3>1, <4>2
      <3>2. CASE l = 5
        <4>1. h.wp = g.wp /\ h.rp = k.rp
          BY <1>3, <2>4, <3>2 DEF Readings
        <4> HIDE DEF k, told, h, l, g
        <4>2. l \in {3, 4, 5} /\ (IF l = 5 THEN h.rp = k.rp ELSE h.rp = g.rp) /\ l # 3 /\ l # 6
          BY <3>2, <4>1
        <4> QED
          BY <1>7, <4>1, <4>2, DumpReads
      <3>3. CASE l = 3
        <4>1. h.wp = g.wp /\ h.rp = g.rp /\ h.lines = Lines(d, g.rp, g.wp)
          BY <1>3, <2>4, <3>3 DEF Readings
        <4>2. ASSUME NEW f, NEW w, f \in 0..k.lines, w \in f..k.lines, Ring(k, f), g.wp = w % LogSize, g.rp = f % LogSize
              PROVE  h.lines = [i \in 1..w - f |-> f + i]
          <5>1. h.lines = [i \in 1..(g.wp - g.rp) % LogSize |-> k.ring[(g.rp + i - 1) % LogSize]]
            BY <4>1 DEF Lines
          <5> HIDE DEF k, h, g, l
          <5> QED
            BY SMTT(30), <1>3, <4>2, <5>1, RingRead
        <4> HIDE DEF k, told, h, l, g
        <4>3. l \in {3, 4, 5} /\ (IF l = 5 THEN h.rp = k.rp ELSE h.rp = g.rp) /\ l # 6
          BY <3>3, <4>1
        <4>4. \A f, w : f \in 0..k.lines /\ w \in f..k.lines /\ Ring(k, f) /\ g.wp = w % LogSize /\ g.rp = f % LogSize =>
                h.lines = [i \in 1..w - f |-> f + i]
          BY <4>2
        <4> QED
          BY <1>7, <4>1, <4>3, <4>4, DumpReads
      <3> QED
        BY <1>10, <3>1, <3>2, <3>3
    <2>6. Live(d)' => UpTo(past'.told[d]) /\ Reader(Len(todo'[t]), chips'[d], past'.told[d], got'[t])
      BY <1>4, <1>5, <2>2, <2>3, <2>5
    <2> QED
      BY <1>2, <2>3, <2>6, DumpGoesOn
  <1>11. CASE l = 4
    <2>1. Looks(t) /\ Now(t).do = "maybe"
      <3>1. Now(t).do = "maybe"
        BY <1>1, <1>11 DEF Maybe
      <3>2. ~Lookup(t) /\ ~FirmwareFile(t)
        BY <3>1, Followed DEF FirmwareFile, Doing, Now
      <3> QED
        BY <3>1, <3>2, Acts DEF Follow
    <2>2. chips' = chips /\ past' = past /\ got' = got /\ (todo'[t] = Tail(todo[t]) \/ todo'[t] = <<>>)
      BY <1>0, <2>1 DEF Looks, Advance, Quit
    <2>3. CASE todo'[t] = Tail(todo[t])
      <3>1. Dumping(t)' /\ Len(todo'[t]) = l - 1
        <4>1. l # 1
          <5> HIDE DEF l
          <5> QED
            BY <1>11
        <4> QED
          BY <1>9, <2>3, <4>1
      <3>2. Live(d) => Reader(l - 1, k, told, g)
        <4> HIDE DEF k, told, g, l
        <4> QED
          BY <1>7, <1>11, DumpReads
      <3>3. Live(d)' => UpTo(past'.told[d]) /\ Reader(Len(todo'[t]), chips'[d], past'.told[d], got'[t])
        BY <1>4, <1>5, <2>2, <3>1, <3>2
      <3> QED
        BY <1>2, <3>1, <3>3, DumpGoesOn
    <2>4. CASE todo'[t] = <<>>
      <3>1. ~Dumping(t)'
        BY <2>4 DEF Dumping, Begun, Inner
      <3>2. Live(d) => Ring(k, Len(told))
        <4> HIDE DEF k, told, g, l
        <4>1. Live(d) => Reader(4, k, told, g)
          BY <1>7, <1>11
        <4> QED
          BY <4>1, DumpStops
      <3>3. Live(d)' => UpTo(past'.told[d]) /\ Ring(chips'[d], Len(past'.told[d]))
        BY <1>4, <1>5, <2>2, <3>2
      <3> QED
        BY <1>2, <3>1, <3>3, DumpGoesOn
    <2> QED
      BY <2>2, <2>3, <2>4
  <1>12. CASE l = 2
    <2>1. LogPrint(t)
      BY <1>1, <1>12, Acts DEF Log
    <2>2. chips' = chips /\ got' = got /\ todo'[t] = Tail(todo[t]) /\ past'.told[d] = told \o g.lines
      BY <1>0, <2>1 DEF LogPrint, Advance, Histories
    <2>3. Dumping(t)' /\ Len(todo'[t]) = 1
      <3>1. l # 1 /\ l - 1 = 1
        <4> HIDE DEF l
        <4> QED
          BY <1>12
      <3> QED
        BY <1>9, <2>2, <3>1
    <2>4. Live(d) => UpTo(told \o g.lines) /\ Reader(1, k, told \o g.lines, g)
      <3> HIDE DEF k, told, g, l
      <3>1. Live(d) => Reader(2, k, told, g)
        BY <1>7, <1>12
      <3> QED
        BY <1>3, <1>5, <3>1, DumpPrints
    <2>5. Live(d)' => UpTo(past'.told[d]) /\ Reader(Len(todo'[t]), chips'[d], past'.told[d], got'[t])
      BY <1>4, <2>2, <2>3, <2>4
    <2> QED
      BY <1>2, <2>3, <2>5, DumpGoesOn
  <1>13. CASE l = 1
    <2>1. LogDone(t)
      BY <1>1, <1>13, Acts DEF Log
    <2>2. /\ chips'[d] = [k EXCEPT !.rp = g.wp] /\ todo'[t] = Tail(todo[t]) /\ past' = past /\ got' = got
      BY <1>0, <2>1 DEF LogDone, Advance
    <2>3. ~Dumping(t)'
      <3>1. todo[t] \in Seq(Steps) /\ todo[t] # <<>>
        BY <1>0 DEF Inner
      <3>2. todo'[t] \in Seq(Steps) /\ Len(todo'[t]) = 0
        BY <1>13, <2>2, <3>1, LengthOf
      <3>3. todo'[t] = <<>>
        BY <3>2, EmptySeq
      <3> QED
        BY <3>3 DEF Dumping, Begun, Inner
    <2> DEFINE r == chips'[d]
    <2>4. r.rp = g.wp /\ r.wp = k.wp /\ r.ring = k.ring /\ r.lines = k.lines
      BY <1>3, <2>2 DEF ChipRecords
    <2>5. Live(d) => Ring(r, Len(told))
      <3> HIDE DEF k, told, g, l, r
      <3>1. Live(d) => Reader(1, k, told, g)
        BY <1>7, <1>13
      <3> QED
        BY <1>3, <2>4, <3>1, DumpEnds
    <2>6. Live(d)' => UpTo(past'.told[d]) /\ Ring(chips'[d], Len(past'.told[d]))
      BY <1>4, <1>5, <2>2, <2>5
    <2> QED
      BY <1>2, <2>3, <2>6, DumpGoesOn
  <1> HIDE DEF l
  <1>14. l \in {6, 5, 3} \/ l = 4 \/ l = 2 \/ l = 1
    BY <1>1
  <1> QED
    BY <1>10, <1>11, <1>12, <1>13, <1>14

(* The log under the steps of an operation.                                *)
LEMMA LogOperation ==
  ASSUME TypeOK, ScriptInv, DirInv, LogInv, model.bus = "pcie", NEW t \in Tasks, Operation(t)
  PROVE  OnAreUp' /\ (~past'.twoDumps => (\A d \in Devs : Unlogged(d)') /\ LogAgree')
  <1>0. past \in Histories /\ chips \in [Devs -> ChipRecords]
    BY DEF TypeOK, ChipTypeOK
  <1>1. dir' = dir
    BY StartOrFollow, Followed DEF Start, deviceVars
  <1>2. \A d \in Devs : chips'[d].on = chips[d].on /\ chips'[d].lines = chips[d].lines /\ chips'[d].wp = chips[d].wp /\ chips'[d].ring = chips[d].ring
    BY StartOrFollow, ChipKept DEF Start
  <1>3. OnAreUp'
    BY <1>1, <1>2, LogParts DEF OnAreUp
  <1>4. ASSUME ~past'.twoDumps
        PROVE  (\A d \in Devs : Unlogged(d)') /\ LogAgree'
    <2>1. ~past.twoDumps
      <3>1. Start(t) => past'.twoDumps = past.twoDumps
        BY <1>0 DEF Start, Histories
      <3>2. LogRead(t) => past'.twoDumps = (past.twoDumps \/ Others(t, {"cmd", "debug"}) # {})
        BY <1>0 DEF LogRead, Histories
      <3> QED
        BY <1>4, <3>1, <3>2, StartOrFollow, Kept
    <2>2. LogAgree /\ \A d \in Devs : Unlogged(d)
      BY <2>1, LogParts
    <2>3. CASE Follow(t) /\ Inner(t) /\ op[t].call.file \in {"cmd", "debug"} /\ op[t].call.cmd = "fwlog"
      <3>1. LogAgree'
        BY <1>4, <2>2, <2>3, DumpStep
      <3>2. ASSUME NEW d \in Devs
            PROVE  Unlogged(d)'
        <4>1. CASE ~LogDone(t) \/ d # found[t]
          <5>1. chips'[d].rp = chips[d].rp
            BY <2>3, <4>1, ChipKept
          <5> QED
            BY <1>1, <1>2, <2>2, <5>1 DEF Unlogged, Live
        <4>2. CASE LogDone(t) /\ d = found[t]
          <5>1. ASSUME Live(d), dir[d].state # "up"
                PROVE  chips'[d].rp = 0
            <6> DEFINE l == Len(todo[t])
            <6>1. /\ l \in 1..6
                  /\ l = 6 => Now(t) = Log("wp")
                  /\ l = 5 => Now(t) = Log("rp")
                  /\ l = 4 => Now(t) = Maybe
                  /\ l = 3 => Now(t) = Log("copy")
                  /\ l = 2 => Now(t) = Log("print")
              BY <2>3, DumpPlace
            <6>2. Now(t).do = "log" /\ Now(t).part = "done"
              BY <2>3, <4>2, Acts
            <6>3. l = 1
              <7> HIDE DEF l
              <7> QED
                BY <6>1, <6>2 DEF Log, Maybe
            <6>4. Dumping(t)
              <7>1. l <= 5
                BY <6>3
              <7> QED
                BY <2>3, <7>1 DEF Dumping, Begun
            <6> DEFINE k == chips[d]
                       g == got[t]
                       told == past.told[d]
            <6>5. Reader(1, k, told, g)
              BY <2>2, <4>2, <5>1, <6>3, <6>4 DEF LogAgree, DumpOf
            <6>6. k.lines = 0 /\ k \in ChipRecords
              BY <1>0, <2>2, <5>1 DEF Unlogged
            <6>7. g.wp = 0
              <7> HIDE DEF k, g, told
              <7>1. PICK f \in 0..k.lines : \E w \in f..k.lines : g.wp = w % LogSize
                BY <6>5 DEF Reader
              <7>2. PICK w \in f..k.lines : g.wp = w % LogSize
                BY <7>1
              <7>3. w = 0
                BY <6>6, <7>2
              <7>4. LogSize \in Nat \ {0} /\ 0 < LogSize
                BY <6>6, LogFields
              <7> QED
                BY <7>2, <7>3, <7>4, SmallRemainder
            <6>8. chips'[d].rp = g.wp
              BY <1>0, <4>2 DEF LogDone, ChipRecords
            <6> QED
              BY <6>7, <6>8
          <5> QED
            BY <1>1, <1>2, <2>2, <5>1 DEF Unlogged, Live
        <4> QED
          BY <4>1, <4>2
      <3> QED
        BY <3>1, <3>2
    <2>4. CASE ~(Follow(t) /\ Inner(t) /\ op[t].call.file \in {"cmd", "debug"} /\ op[t].call.cmd = "fwlog")
      <3>1. ~Dumping(t)
        <4>1. Start(t) => todo[t] = <<>>
          BY DEF Start
        <4> QED
          BY <2>4, <4>1, StartOrFollow DEF Dumping, Begun, Inner
      <3>2. ~Dumping(t)'
        BY <2>4, DumpsOwn
      <3>3. ASSUME NEW u \in Tasks \ {t}
            PROVE  /\ Dumping(u)' <=> Dumping(u)
                   /\ todo'[u] = todo[u] /\ found'[u] = found[u] /\ got'[u] = got[u]
        <4>1. /\ Begun(u, {"cmd", "debug"}, 5)' <=> Begun(u, {"cmd", "debug"}, 5)
              /\ todo'[u] = todo[u] /\ found'[u] = found[u] /\ got'[u] = got[u] /\ op'[u] = op[u]
          BY OthersStay
        <4> QED
          BY <4>1 DEF Dumping
      <3>4. past'.told = past.told /\ \A d \in Devs : SameLog(chips[d], chips'[d])
        <4>1. CASE Start(t)
          BY <1>0, <4>1 DEF Start, SameLog, Histories
        <4>2. CASE Follow(t)
          <5>1. Now(t).do # "log"
            BY <2>4, <4>2, DumpActs
          <5>2. ~LogPrint(t) /\ ~LogDone(t)
            BY <4>2, <5>1, Acts
          <5> QED
            BY <1>2, <4>2, <5>2, Kept, ChipKept DEF SameLog
        <4> QED
          BY <4>1, <4>2, StartOrFollow
      <3>5. LogAgree'
        <4>1. \A u \in Tasks : Dumping(u)' <=> Dumping(u)
          BY <3>1, <3>2, <3>3
        <4>2. \A u \in Tasks : Dumping(u) => todo'[u] = todo[u] /\ found'[u] = found[u] /\ got'[u] = got[u]
          BY <3>1, <3>3
        <4>3. \A d \in Devs : Live(d)' => Live(d) /\ past'.told[d] = past.told[d] /\ SameLog(chips[d], chips'[d])
          BY <1>1, <3>4 DEF Live
        <4> QED
          BY <2>2, <4>1, <4>2, <4>3, LogUntouched
      <3>6. \A d \in Devs : Unlogged(d)'
        BY <1>1, <2>2, <3>4 DEF Unlogged, Live, SameLog
      <3> QED
        BY <3>5, <3>6
    <2> QED
      BY <2>3, <2>4
  <1> QED
    BY <1>3, <1>4

(* The firmware logs.                                                      *)
LEMMA LogLogs ==
  ASSUME TypeOK, ScriptInv, DirInv, LogInv, model.bus = "pcie", NEW d \in Devs, FwLog(d)
  PROVE  OnAreUp' /\ (~past'.twoDumps => (\A x \in Devs : Unlogged(x)') /\ LogAgree')
  <1> DEFINE k == chips[d]
             r == chips'[d]
  <1>0. chips \in [Devs -> ChipRecords] /\ k \in ChipRecords
    BY DEF TypeOK, ChipTypeOK
  <1>1. UNCHANGED <<model, dir, todo, op, found, got, past>>
    BY DEF FwLog, deviceVars, taskVars
  <1>2. \A x \in Devs \ {d} : chips'[x] = chips[x]
    BY <1>0 DEF FwLog
  <1>3. /\ k.on /\ (k.wp + 1) % LogSize # k.rp /\ r.on = k.on /\ r.rp = k.rp /\ r.lines = k.lines + 1
        /\ r.wp = (k.wp + 1) % LogSize /\ r.ring = [k.ring EXCEPT ![k.wp] = k.lines + 1]
    BY <1>0 DEF FwLog, ChipRecords
  <1>4. dir[d].state = "up"
    BY <1>3, LogParts DEF OnAreUp
  <1>5. OnAreUp'
    BY <1>1, <1>2, <1>3, LogParts DEF OnAreUp
  <1>6. ASSUME ~past'.twoDumps
        PROVE  (\A x \in Devs : Unlogged(x)') /\ LogAgree'
    <2>1. (\A x \in Devs : Unlogged(x)) /\ LogAgree
      BY <1>1, <1>6, LogParts
    <2>2. \A x \in Devs : Unlogged(x)'
      BY <1>1, <1>2, <1>4, <2>1 DEF Unlogged, Live
    <2>3. \A u \in Tasks : Dumping(u)' <=> Dumping(u)
      BY <1>1 DEF Dumping, Begun, Inner
    <2>4. ASSUME NEW f, Ring(k, f)
          PROVE  Ring(r, f)
      <3> HIDE DEF k, r
      <3> QED
        BY <1>0, <1>3, <2>4, RingLogs
    <2>5. ASSUME NEW x \in Devs
          PROVE  LogOf(x)'
      <3>1. LogOf(x)
        BY <2>1 DEF LogAgree
      <3>2. CASE x # d
        BY <1>1, <1>2, <2>3, <3>1, <3>2 DEF LogOf, Live, UpTo
      <3>3. CASE x = d
        BY <1>1, <2>3, <2>4, <3>1, <3>3 DEF LogOf, Live, UpTo
      <3> QED
        BY <3>2, <3>3
    <2>6. ASSUME NEW u \in Tasks, Dumping(u)
          PROVE  DumpOf(u)'
      <3>1. DumpOf(u) /\ Inner(u) /\ op[u].call.file # "throughput"
        BY <2>1, <2>6 DEF LogAgree, Dumping, Begun
      <3>2. found[u] \in Devs
        BY <3>1, AtStep
      <3>3. CASE found[u] # d
        BY <1>1, <1>2, <3>1, <3>2, <3>3 DEF DumpOf, Live
      <3>4. CASE found[u] = d
        <4> DEFINE l == Len(todo[u])
                   told == past.told[d]
                   g == got[u]
        <4>1. ASSUME Reader(l, k, told, g)
              PROVE  Reader(l, r, told, g)
          <5> HIDE DEF l, k, r, told, g
          <5>1. k.lines \in Nat /\ r.lines = k.lines + 1
            BY <1>0, <1>3, LogFields
          <5>2. PICK f \in 0..k.lines : \E w \in f..k.lines :
                   /\ Ring(k, f) /\ g.wp = w % LogSize /\ (l <= 4 => g.rp = f % LogSize)
                   /\ (l <= 2 => g.lines = [i \in 1..w - f |-> f + i])
                   /\ Len(told) = IF l = 1 THEN w ELSE f
            BY <4>1, ReaderIs
          <5>3. PICK w \in f..k.lines :
                   /\ Ring(k, f) /\ g.wp = w % LogSize /\ (l <= 4 => g.rp = f % LogSize)
                   /\ (l <= 2 => g.lines = [i \in 1..w - f |-> f + i])
                   /\ Len(told) = IF l = 1 THEN w ELSE f
            BY <5>2
          <5>4. f \in 0..r.lines /\ w \in f..r.lines
            BY <5>1
          <5>5. Ring(r, f)
            BY <2>4, <5>3
          <5> QED
            BY <5>3, <5>4, <5>5, ReaderIs
        <4>2. Live(d) => Reader(l, k, told, g)
          BY <3>1, <3>4 DEF DumpOf
        <4> HIDE DEF k, r
        <4>3. Live(d)' => Reader(l, r, told, g)
          BY <1>1, <4>1, <4>2 DEF Live
        <4> QED
          BY <1>1, <3>4, <4>3 DEF DumpOf, Live, r
      <3> QED
        BY <3>3, <3>4
    <2>7. \A t, u \in Tasks : Dumping(t)' /\ Dumping(u)' => t = u
      BY <2>1, <2>3 DEF LogAgree
    <2> QED
      BY <2>2, <2>3, <2>5, <2>6, <2>7 DEF LogAgree
  <1> QED
    BY <1>5, <1>6

(* A directory comes or goes.                                              *)
LEMMA LogTurns ==
  ASSUME TypeOK, model.bus = "pcie", NEW d \in Devs, Directory(d)
  PROVE  /\ Live(d)' => Live(d)
         /\ memx_fw_log_init(d) => /\ dir[d].state = "made" /\ dir'[d].state = "up"
                                   /\ chips'[d] = [chips[d] EXCEPT !.on = TRUE, !.wp = 0, !.rp = 0]
         /\ memx_fw_log_deinit(d) => ~Live(d)' /\ dir'[d].state # "up" /\ chips'[d].on = FALSE
         /\ ~memx_fw_log_init(d) /\ ~memx_fw_log_deinit(d) =>
              chips' = chips /\ (dir'[d].state = "up" <=> dir[d].state = "up")
  <1>0. dir \in [Devs -> DirRecords] /\ chips \in [Devs -> ChipRecords]
    BY DEF TypeOK, DirTypeOK, ChipTypeOK
  <1>1. CASE memx_fw_log_init(d)
    <2>1. dir[d].state = "made" /\ dir'[d].state = "up"
      BY <1>0, <1>1 DEF memx_fw_log_init, Turn, DirRecords
    <2>2. chips'[d] = [chips[d] EXCEPT !.on = TRUE, !.wp = 0, !.rp = 0]
      BY <1>0, <1>1 DEF memx_fw_log_init
    <2> QED
      BY <1>1, <2>1, <2>2 DEF memx_fw_log_deinit, Live
  <1>2. CASE memx_fw_log_deinit(d)
    <2>1. dir[d].state = "up" /\ dir'[d].state = "closing"
      BY <1>0, <1>2 DEF memx_fw_log_deinit, Turn, DirRecords
    <2>2. chips'[d].on = FALSE
      BY <1>0, <1>2 DEF memx_fw_log_deinit, ChipRecords
    <2> QED
      BY <1>2, <2>1, <2>2 DEF memx_fw_log_init, Live
  <1>3. CASE ~memx_fw_log_init(d) /\ ~memx_fw_log_deinit(d)
    <2>1. chips' = chips
      BY <1>3, DirectoryKeeps
    <2>2. (Live(d)' => Live(d)) /\ (dir'[d].state = "up" <=> dir[d].state = "up")
      <3>1. CASE Insert(d)
        BY <1>0, <3>1 DEF Insert, Comes, Turn, DirRecords, Live
      <3>2. CASE Scan(d)
        BY <1>0, <3>2 DEF Scan, Turn, DirRecords, Live
      <3>3. CASE MakeRoot(d)
        <4>1. PICK a : dir' = [dir EXCEPT ![d].state = "making", ![d].kobj = a]
          BY <3>3 DEF MakeRoot
        <4> QED
          BY <1>0, <3>3, <4>1 DEF MakeRoot, DirRecords, Live
      <3>4. CASE RootFails(d)
        BY <1>0, <3>4 DEF RootFails, Turn, DirRecords, Live
      <3>5. CASE AddFile(d)
        BY <1>0, <3>5 DEF AddFile, DirRecords, Live
      <3>6. CASE FileFails(d)
        BY <1>0, <3>6 DEF FileFails, Turn, DirRecords, Live
      <3>7. CASE Finish(d)
        BY <1>0, <3>7 DEF Finish, Turn, DirRecords, Live
      <3>8. CASE memx_fs_deinit(d)
        BY <1>0, <3>8 DEF memx_fs_deinit, Turn, DirRecords, Live
      <3>9. CASE memx_pcie_remove_device(d)
        BY <1>0, <3>9 DEF memx_pcie_remove_device, Turn, DirRecords, Live
      <3> QED
        BY <1>3, <3>1, <3>2, <3>3, <3>4, <3>5, <3>6, <3>7, <3>8, <3>9 DEF Directory
    <2> QED
      BY <1>3, <2>1, <2>2
  <1> QED
    BY <1>1, <1>2, <1>3

(* Under the steps of a directory: it starts and stops with it.            *)
LEMMA LogDirectory ==
  ASSUME TypeOK, ScriptInv, DirInv, LogInv, model.bus = "pcie", NEW d \in Devs, Directory(d)
  PROVE  OnAreUp' /\ (~past'.twoDumps => (\A x \in Devs : Unlogged(x)') /\ LogAgree')
  <1>0. chips \in [Devs -> ChipRecords] /\ past \in Histories
    BY DEF TypeOK, ChipTypeOK
  <1>1. UNCHANGED <<model, todo, op, found, got>> /\ \A x \in Devs \ {d} : dir'[x] = dir[x] /\ chips'[x] = chips[x]
    BY DirectoryTurns, DirectoryKeeps DEF taskVars
  <1>2. PICK s : past' = [past EXCEPT !.settled = s]
    BY DirectoryKeeps
  <1>3. past'.twoDumps = past.twoDumps /\ past'.told = past.told
    BY SMTT(30), <1>0, <1>2 DEF Histories
  <1>4. ASSUME NEW x \in Devs
        PROVE  Live(x)' => Live(x)
    BY <1>1, LogTurns DEF Live
  <1>5. OnAreUp'
    <2>1. chips'[d].on <=> dir'[d].state = "up"
      <3>1. CASE memx_fw_log_init(d)
        <4>1. dir'[d].state = "up" /\ chips'[d] = [chips[d] EXCEPT !.on = TRUE, !.wp = 0, !.rp = 0]
          BY <3>1, LogTurns
        <4>2. chips[d] \in ChipRecords
          BY <1>0
        <4>3. chips'[d].on = TRUE
          BY <4>1, <4>2 DEF ChipRecords
        <4> QED
          BY <4>1, <4>3
      <3>2. CASE memx_fw_log_deinit(d)
        BY <3>2, LogTurns
      <3>3. CASE ~memx_fw_log_init(d) /\ ~memx_fw_log_deinit(d)
        BY <3>3, LogTurns, LogParts DEF OnAreUp
      <3> QED
        BY <3>1, <3>2, <3>3
    <2> QED
      BY <1>1, <2>1, LogParts DEF OnAreUp
  <1>6. ASSUME ~past'.twoDumps
        PROVE  (\A x \in Devs : Unlogged(x)') /\ LogAgree'
    <2>1. (\A x \in Devs : Unlogged(x)) /\ LogAgree
      BY <1>3, <1>6, LogParts
    <2>2. ASSUME NEW x \in Devs, Live(x)'
          PROVE  SameLog(chips[x], chips'[x])
      <3>1. CASE x # d
        BY <1>1, <3>1 DEF SameLog
      <3>2. CASE x = d /\ memx_fw_log_init(d)
        <4>1. dir[d].state = "made" /\ chips'[d] = [chips[d] EXCEPT !.on = TRUE, !.wp = 0, !.rp = 0]
          BY <3>2, LogTurns
        <4>2. chips[d].wp = 0 /\ chips[d].rp = 0
          BY <2>1, <4>1 DEF Unlogged, Live
        <4> QED
          BY <1>0, <3>2, <4>1, <4>2 DEF SameLog, ChipRecords
      <3>3. CASE x = d /\ ~memx_fw_log_init(d)
        BY <2>2, <3>3, LogTurns DEF SameLog
      <3> QED
        BY <3>1, <3>2, <3>3
    <2>3. ASSUME NEW x \in Devs
          PROVE  Unlogged(x)'
      <3>1. CASE x # d
        BY <1>1, <2>1, <3>1 DEF Unlogged, Live
      <3>2. CASE x = d
        <4>1. ASSUME Live(d)', dir'[d].state # "up"
              PROVE  chips'[d].lines = 0 /\ chips'[d].rp = 0 /\ chips'[d].wp = 0
          <5>1. Live(d) /\ dir[d].state # "up"
            BY <1>4, <4>1, LogTurns
          <5>2. chips[d].lines = 0 /\ chips[d].rp = 0 /\ chips[d].wp = 0
            BY <2>1, <5>1 DEF Unlogged
          <5> QED
            BY <2>2, <4>1, <5>2 DEF SameLog
        <4> QED
          BY <3>2, <4>1 DEF Unlogged
      <3> QED
        BY <3>1, <3>2
    <2>4. \A u \in Tasks : Dumping(u)' <=> Dumping(u)
      BY <1>1 DEF Dumping, Begun, Inner
    <2>5. LogAgree'
      BY <1>1, <1>3, <1>4, <2>1, <2>2, <2>4, LogUntouched
    <2> QED
      BY <2>3, <2>5
  <1> QED
    BY <1>5, <1>6

(* What is logged is told, in order and before it is given back.           *)
LEMMA LogStep ==
  ASSUME TypeOK, ScriptInv, DirInv, LogInv, [Next]_vars
  PROVE  LogInv'
  <1>a. LogInv' <=> (model'.bus = "pcie" => OnAreUp' /\ (~past'.twoDumps => (\A d \in Devs : Unlogged(d)') /\ LogAgree'))
    <2>1. (\A d \in Devs : LogOf(d)') <=>
            /\ \A d \in Devs : Live(d)' => past'.told[d] = [i \in 1..Len(past'.told[d]) |-> i]
            /\ \A d \in Devs : Live(d)' /\ (\A t \in Tasks : Dumping(t)' => found'[t] # d) => Ring(chips'[d], Len(past'.told[d]))
      BY DEF LogOf, UpTo
    <2>2. (\A t \in Tasks : Dumping(t)' => DumpOf(t)') <=>
            \A t \in Tasks : Dumping(t)' /\ Live(found[t])' => Reader(Len(todo'[t]), chips'[found'[t]], past'.told[found'[t]], got'[t])
      BY DEF DumpOf, Live
    <2>3. LogAgree' <=>
            /\ \A t, u \in Tasks : Dumping(t)' /\ Dumping(u)' => t = u
            /\ \A d \in Devs : Live(d)' => past'.told[d] = [i \in 1..Len(past'.told[d]) |-> i]
            /\ \A d \in Devs : Live(d)' /\ (\A t \in Tasks : Dumping(t)' => found'[t] # d) => Ring(chips'[d], Len(past'.told[d]))
            /\ \A t \in Tasks : Dumping(t)' /\ Live(found[t])' => Reader(Len(todo'[t]), chips'[found'[t]], past'.told[found'[t]], got'[t])
      BY <2>1, <2>2 DEF LogAgree
    <2> QED
      BY <2>3 DEF LogInv, OnAreUp, Unlogged
  <1>b. model' = model
    <2>1. \A t \in Tasks : Operation(t) => model' = model
      BY StartOrFollow, Followed DEF Start
    <2> QED
      BY <2>1, DirectoryKeeps, FirmwareKeeps, CountKeeps DEF Next, vars
  <1>1. ASSUME model.bus = "pcie", UNCHANGED <<dir, todo, op, found, got, model>>,
               past'.twoDumps = past.twoDumps, past'.told = past.told,
               \A d \in Devs : SameLog(chips[d], chips'[d]) /\ chips'[d].on = chips[d].on
        PROVE  OnAreUp' /\ (~past'.twoDumps => (\A d \in Devs : Unlogged(d)') /\ LogAgree')
    <2>1. OnAreUp'
      BY <1>1, LogParts DEF OnAreUp
    <2>2. ASSUME ~past'.twoDumps
          PROVE  (\A d \in Devs : Unlogged(d)') /\ LogAgree'
      <3>1. (\A d \in Devs : Unlogged(d)) /\ LogAgree
        BY <1>1, <2>2, LogParts
      <3>2. \A u \in Tasks : Dumping(u)' <=> Dumping(u)
        BY <1>1 DEF Dumping, Begun, Inner
      <3>3. \A d \in Devs : Live(d)' => Live(d)
        BY <1>1 DEF Live
      <3>4. LogAgree'
        BY <1>1, <3>1, <3>2, <3>3, LogUntouched
      <3> QED
        BY <1>1, <3>1, <3>4 DEF Unlogged, Live, SameLog
    <2> QED
      BY <2>1, <2>2
  <1>2. ASSUME model.bus = "pcie"
        PROVE  OnAreUp' /\ (~past'.twoDumps => (\A d \in Devs : Unlogged(d)') /\ LogAgree')
    <2>1. ASSUME NEW d \in Devs, Firmware(d), ~FwLog(d)
          PROVE  OnAreUp' /\ (~past'.twoDumps => (\A x \in Devs : Unlogged(x)') /\ LogAgree')
      <3>1. UNCHANGED <<dir, todo, op, found, got, model>> /\ past'.twoDumps = past.twoDumps /\ past'.told = past.told
        BY <2>1, FirmwareKeeps DEF deviceVars, taskVars
      <3>2. \A x \in Devs : SameLog(chips[x], chips'[x]) /\ chips'[x].on = chips[x].on
        BY <2>1, FirmwareKeeps DEF SameLog
      <3> QED
        BY <1>1, <1>2, <3>1, <3>2
    <2>2. ASSUME NEW c \in {"tx", "rx"}, THROUGHPUT_ADD(c)
          PROVE  OnAreUp' /\ (~past'.twoDumps => (\A x \in Devs : Unlogged(x)') /\ LogAgree')
      <3>1. UNCHANGED <<dir, todo, op, found, got, model>> /\ past'.twoDumps = past.twoDumps /\ past'.told = past.told /\ chips' = chips
        BY <2>2, CountKeeps DEF deviceVars, taskVars
      <3> QED
        BY <1>1, <1>2, <3>1 DEF SameLog
    <2>3. CASE UNCHANGED vars
      BY <1>1, <1>2, <2>3 DEF SameLog, vars
    <2> QED
      BY <1>2, <2>1, <2>2, <2>3, LogOperation, LogDirectory, LogLogs DEF Next
  <1> QED
    BY <1>a, <1>b, <1>2

(* With no dump under way the pointer is where the printed log ends.       *)
LEMMA LogAtRest ==
  ASSUME TypeOK, ScriptInv, LogInv
  PROVE  LogTold
  <1>1. ASSUME model.bus = "pcie", ~past.twoDumps, NEW d \in Devs, chips[d].on
        PROVE  UpTo(past.told[d]) /\ (Working(d) = {} => chips[d].rp = Len(past.told[d]) % LogSize)
    <2>1. OnAreUp /\ LogAgree
      BY <1>1, LogParts
    <2>2. Live(d)
      BY <1>1, <2>1 DEF OnAreUp, Live
    <2>3. UpTo(past.told[d]) /\ ((\A t \in Tasks : Dumping(t) => found[t] # d) => Ring(chips[d], Len(past.told[d])))
      BY <2>1, <2>2 DEF LogAgree, LogOf
    <2>4. Working(d) = {} => \A t \in Tasks : Dumping(t) => found[t] # d
      BY DEF Working, Dumping, Begun, Inner
    <2> QED
      BY <2>3, <2>4 DEF Ring
  <1> QED
    BY <1>1 DEF LogTold, UpTo

-----------------------------------------------------------------------------
(* The theorems                                                            *)

LEMMA InvInit ==
  ASSUME Init
  PROVE  IInv
  BY InitBase, OwnInit, CommandInit, ThrottleInit, FlashInit, LogInit, BytesInit DEF IInv, Base

LEMMA InvStep ==
  ASSUME IInv, [Next]_vars
  PROVE  IInv'
  <1>1. TypeOK /\ ScriptInv /\ DirInv /\ OwnInv /\ CommandInv /\ ThrottleInv /\ FlashInv /\ LogInv /\ BytesInv
    BY DEF IInv, Base
  <1>2. TypeOK' /\ ScriptInv' /\ DirInv'
    BY <1>1, NextBase
  <1>3. OwnInv' /\ CommandInv' /\ ThrottleInv' /\ FlashInv' /\ LogInv' /\ BytesInv'
    BY <1>1, OwnStep, CommandStep, ThrottleStep, FlashStep, LogStep, BytesStep
  <1> QED
    BY <1>2, <1>3 DEF IInv, Base

(* All parts together are inductive.                                       *)
LEMMA InvAlways == Spec => []IInv
  <1>1. Init => IInv
    BY InvInit
  <1>2. IInv /\ [Next]_vars => IInv'
    BY InvStep
  <1> QED
    BY <1>1, <1>2, PTL DEF Spec

(* The state stays within its types: scripts consist of the steps the      *)
(* functions of the debug files take, numbers within the table's, every    *)
(* mailbox, ring and flash holds what can be written into it.              *)
THEOREM TypesSafe == Spec => []TypeOK
  <1>1. IInv => TypeOK
    BY DEF IInv, Base
  <1> QED
    BY <1>1, InvAlways, PTL

(* What a user asks by a debug file is done by the device of its           *)
(* directory and as it was asked, or not reported as done.                 *)
THEOREM DoneAsAskedAlways == Spec => []DoneAsAsked
  <1>1. IInv => DoneAsAsked
    <2>1. ASSUME IInv
          PROVE  DoneAsAsked
      <3>1. OwnDevice
        BY <2>1 DEF IInv, OwnInv, OwnDevice
      <3>2. CommandsWhole
        BY <2>1 DEF IInv, CommandInv, CommandsWhole
      <3>3. FlashIsImage
        BY <2>1 DEF IInv, FlashInv, FlashIsImage
      <3>4. ThrottleAgrees
        BY <2>1, ThrottlesAtRest DEF IInv, Base
      <3> QED
        BY <3>1, <3>2, <3>3, <3>4 DEF DoneAsAsked
    <2> QED
      BY <2>1
  <1> QED
    BY <1>1, InvAlways, PTL

(* What a user is told by a debug file, a line of the log or a kilobyte of *)
(* the throughput, he is told once.                                        *)
THEOREM ToldOnceAlways == Spec => []ToldOnce
  <1>1. IInv => ToldOnce
    BY LogAtRest, BytesAtRest DEF IInv, Base, ToldOnce
  <1> QED
    BY <1>1, InvAlways, PTL
=============================================================================
