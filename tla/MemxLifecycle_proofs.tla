------------------------- MODULE MemxLifecycle_proofs -------------------------
(***************************************************************************)
(* Safety of the driver's gaining and losing devices for any number of     *)
(* devices, processes, minors and interrupt vectors.  The inductive        *)
(* invariant says, for every position in every script, what the device     *)
(* holds, which of its interrupts are set up, and whether it is in the     *)
(* list; and of every number, who has its nodes and its cdevs.             *)
(***************************************************************************)
EXTENDS MemxLifecycle, FiniteSetTheorems, SequenceTheorems, TLAPS

(* What is left of a script when its step k is next.                       *)
Rest(s, k) == SubSeq(s, k, Len(s))

RequestScript == <<"request", "firmware">>

Owned   == {"mem", "enable", "pages", "regions", "fifo", "pDev", "char", "feature", "fs"}
Entries == Devices \cup Others

Types ==
  /\ proc \in [Devices -> {"none", "probe", "undo", "bound", "remove", "resume"}]
  /\ script = [d \in Devices |-> script[d]]
  /\ held \in [Devices -> SUBSET Owned]
  /\ excused \in [Devices -> SUBSET {"fifo", "fs"}]
  /\ minor \in [Entries -> Minors]
  /\ nodes \subseteq Kinds \X Minors
  /\ cdevs \in [Kinds \X Minors -> Seq(Entries)]
  /\ contested \subseteq Minors
  /\ vectors \in [Devices -> 0..Vectors]
  /\ registered \in [Devices -> 0..Vectors] /\ init_done \in [Devices -> BOOLEAN]
  /\ power \in [Devices -> {"on", "sleep"}]
  /\ phase \in {"awake", "suspending", "resuming"} /\ pending \subseteq Devices
  /\ mutex \in [Devices -> Users \cup Devices \cup {Free}]
  /\ upc \in [Users -> {"closed", "opening", "open", "want", "inside", "orphan"}]
  /\ uref \in [Users -> Devices \cup {Free}]
  /\ \A u \in Users : upc[u] \notin {"closed", "orphan"} => uref[u] \in Devices

-----------------------------------------------------------------------------
(* Where a device is in its life.                                          *)
Unarmed(d) == vectors[d] = 0 /\ registered[d] = 0 /\ ~init_done[d]
Armed(d)   == init_done[d] /\ registered[d] > 0 /\ registered[d] = vectors[d]

(* A resource is held after this step of probe, and until that of an undo  *)
(* or a removal.                                                           *)
ProbeFrom ==
  [mem |-> 1, enable |-> 1, pages |-> 1, regions |-> 1, fifo |-> 1,
   pDev |-> 2, char |-> 4, feature |-> 5, fs |-> 6]
UndoBy ==
  [fs |-> 1, char |-> 3, feature |-> 3, fifo |-> 4, regions |-> 6, pages |-> 7,
   enable |-> 8, mem |-> 9, pDev |-> 9]
RemoveBy ==
  [fs |-> 2, char |-> 5, feature |-> 5, fifo |-> 7, pDev |-> 8, regions |-> 9,
   pages |-> 10, enable |-> 11, mem |-> 13]

Absent(d) ==
  /\ proc[d] = "none" /\ script[d] = <<>>
  /\ held[d] \subseteq excused[d] /\ Unarmed(d)

Present(d) ==
  /\ proc[d] = "bound" /\ script[d] = <<>> /\ held[d] = Owned
  /\ init_done[d] \/ power[d] = "on" => Armed(d)

(* Bound without drvdata.                                                  *)
Hollow(d) ==
  /\ proc[d] = "bound" /\ script[d] = <<>>
  /\ held[d] \subseteq excused[d] /\ Unarmed(d)

Probing(d, k) ==
  /\ proc[d] = "probe" /\ script[d] = Rest(ProbeScript, k)
  /\ \A r \in Owned : r \in held[d] <=> k > ProbeFrom[r]
  /\ IF k = 8 THEN Armed(d) ELSE Unarmed(d)

Requesting(d) ==
  /\ proc[d] \in {"probe", "resume"} /\ script[d] = RequestScript
  /\ held[d] = Owned /\ ~init_done[d] /\ registered[d] < vectors[d]
  /\ proc[d] = "resume" => power[d] = "sleep"

(* After an invalid combination of BARs.                                   *)
Hollowing(d, k) ==
  /\ proc[d] = "probe" /\ script[d] = Rest(UndoScript, k)
  /\ \A r \in held[d] \ excused[d] : k <= UndoBy[r] /\ r # "pDev"
  /\ Unarmed(d)

Undoing(d, k) ==
  /\ proc[d] = "undo" /\ script[d] = Rest(UndoScript, k)
  /\ \A r \in held[d] \ excused[d] : k <= UndoBy[r]

Resuming(d, k) ==
  /\ proc[d] = "resume" /\ script[d] = Rest(ProbeScript, k)
  /\ held[d] = Owned /\ power[d] = "sleep"
  /\ init_done[d] \/ k = 8 => Armed(d)

Removing(d, k) ==
  /\ proc[d] = "remove" /\ script[d] = Rest(RemoveScript, k)
  /\ k < 13 => \A r \in Owned : r \in held[d] <=> k <= RemoveBy[r]
  /\ k = 13 => \A r \in held[d] : r = "mem" \/ r \in excused[d]
  /\ k \in 2..12 => mutex[d] = d
  /\ k \in 7..12 => ~init_done[d]
  /\ k = 13 /\ registered[d] > 0 => "mem" \in held[d]

Stage(d) ==
  \/ Absent(d) \/ Present(d) \/ Hollow(d) \/ Requesting(d)
  \/ \E k \in 1..8 : Probing(d, k)
  \/ \E k \in 6..9 : Hollowing(d, k)
  \/ \E k \in 1..9 : Undoing(d, k)
  \/ \E k \in 7..8 : Resuming(d, k)
  \/ \E k \in 1..13 : Removing(d, k)

StageInv == \A d \in Devices : Stage(d)

(* Nobody moves but devices that resume while the system sleeps.           *)
PhaseInv ==
  phase # "awake" =>
    /\ \A d \in Devices : Absent(d) \/ Present(d) \/ proc[d] = "resume"
    /\ \A d \in pending : Present(d)
    /\ \A u \in Users : upc[u] \in {"closed", "open", "orphan"}

(* Who is inside has the mutex of a device that is there, unless its probe *)
(* has failed.                                                             *)
InsideInv ==
  \A u \in Users : upc[u] = "inside" =>
    /\ mutex[uref[u]] = u
    /\ proc[uref[u]] # "undo" => "pDev" \in held[uref[u]]
    /\ proc[uref[u]] = "remove" => script[uref[u]] = RemoveScript

CoreInv == Types /\ StageInv /\ PhaseInv /\ InsideInv
-----------------------------------------------------------------------------
(* Scripts: their statements, length and rest under names that the provers *)
(* do not interpret.                                                       *)
Statements ==
  {"acquire", "bars", "insert", "char", "feature", "fs", "msix", "firmware", "request",
   "fsDeinit", "unnode", "uncdev", "fifoFree", "delist", "unmap", "freePages", "disable", "devres",
   "down", "deinitMsix", "clear", "up"}
Scripts    == Seq(Statements)
Size(s)    == Len(s)

LEMMA RestFacts ==
  \A s \in Scripts : \A k \in 1..Size(s) :
    /\ Rest(s, k) \in Scripts /\ Size(Rest(s, k)) = Size(s) + 1 - k
    /\ Rest(s, k) # <<>> /\ Head(Rest(s, k)) = s[k]
    /\ Size(s) \in Nat
  <1> SUFFICES ASSUME NEW s \in Seq(Statements), NEW k \in 1..Len(s)
               PROVE  /\ Rest(s, k) \in Seq(Statements) /\ Len(Rest(s, k)) = Len(s) + 1 - k
                      /\ Rest(s, k) # <<>> /\ Head(Rest(s, k)) = s[k]
                      /\ Len(s) \in Nat
    BY DEF Scripts, Size
  <1>1. Len(s) \in Nat
    BY LenProperties
  <1>2. k \in Int /\ Len(s) \in Int /\ Len(s) \in k..Len(s) /\ k <= Len(s)
    BY <1>1
  <1>3. \A i \in k..Len(s) : s[i] \in Statements
    BY <1>1, ElementOfSeq
  <1>4. SubSeq(s, k, Len(s)) \in Seq(Statements) /\ Len(SubSeq(s, k, Len(s))) = Len(s) + 1 - k
    BY <1>2, <1>3, SubSeqProperties
  <1>5. Head(SubSeq(s, k, Len(s))) = s[k]
    BY <1>2, HeadTailOfSubSeq
  <1>6. SubSeq(s, k, Len(s)) # <<>>
    <2>1. Len(SubSeq(s, k, Len(s))) # 0
      BY <1>2, <1>4
    <2> QED
      BY <2>1, EmptySeq
  <1> QED
    BY <1>1, <1>4, <1>5, <1>6 DEF Rest

LEMMA RestItem ==
  \A s \in Scripts : \A k \in 1..Size(s) : \A n \in 1..(Size(s) + 1 - k) :
    Rest(s, k)[n] = s[k + n - 1]
  <1> SUFFICES ASSUME NEW s \in Seq(Statements), NEW k \in 1..Len(s), NEW n \in 1..(Len(s) + 1 - k)
               PROVE  SubSeq(s, k, Len(s))[n] = s[k + n - 1]
    BY DEF Scripts, Size, Rest
  <1>1. Len(s) \in Nat
    BY LenProperties
  <1>2. k \in Int /\ Len(s) \in Int /\ n \in 1..(Len(s) - k + 1)
    BY <1>1
  <1>3. \A i \in k..Len(s) : s[i] \in Statements
    BY <1>1, ElementOfSeq
  <1> QED
    BY <1>2, <1>3, SubSeqProperties

LEMMA RestOver == \A s \in Scripts : Rest(s, Size(s) + 1) = <<>>
  <1> SUFFICES ASSUME NEW s \in Seq(Statements) PROVE SubSeq(s, Len(s) + 1, Len(s)) = <<>>
    BY DEF Scripts, Size, Rest
  <1>1. Len(s) \in Nat
    BY LenProperties
  <1> QED
    BY <1>1, SubSeqEmpty

LEMMA RestFull == \A s \in Scripts : Rest(s, 1) = s
  BY SubSeqFull DEF Scripts, Rest

LEMMA RestOfRest ==
  \A s \in Scripts : \A k \in 1..Size(s) : \A n \in 1..(Size(s) + 1 - k) :
    SubSeq(Rest(s, k), n + 1, Len(Rest(s, k))) = Rest(s, k + n)
  <1> SUFFICES ASSUME NEW s \in Scripts, NEW k \in 1..Size(s), NEW n \in 1..(Size(s) + 1 - k)
               PROVE  SubSeq(Rest(s, k), n + 1, Len(Rest(s, k))) = Rest(s, k + n)
    OBVIOUS
  <1>1. Len(s) \in Nat /\ s \in Seq(Statements) /\ k \in 1..Len(s) /\ n \in 1..(Len(s) + 1 - k)
    BY LenProperties DEF Scripts, Size
  <1>2. Len(Rest(s, k)) = Len(s) + 1 - k /\ Rest(s, k) = SubSeq(s, k, Len(s))
    BY RestFacts DEF Size, Rest
  <1>3. CASE n = Len(s) + 1 - k
    <2>1. SubSeq(Rest(s, k), n + 1, Len(Rest(s, k))) = <<>>
      BY <1>1, <1>2, <1>3, SubSeqEmpty
    <2>2. Rest(s, k + n) = <<>>
      BY <1>1, <1>3, SubSeqEmpty DEF Rest
    <2> QED
      BY <2>1, <2>2
  <1>4. CASE n # Len(s) + 1 - k
    <2>1. Len(s) \in 1..Len(s) /\ n + 1 \in 1..(Len(s) - k + 1) /\ Len(s) + 1 - k \in 1..(Len(s) - k + 1)
      BY <1>1, <1>4
    <2>2. SubSeq(SubSeq(s, k, Len(s)), n + 1, Len(s) + 1 - k)
            = SubSeq(s, k + (n + 1) - 1, k + (Len(s) + 1 - k) - 1)
      BY <1>1, <2>1, SubSeqOfSubSeq
    <2>3. k + (n + 1) - 1 = k + n /\ k + (Len(s) + 1 - k) - 1 = Len(s)
      BY <1>1
    <2> QED
      BY <1>2, <2>2, <2>3 DEF Rest
  <1> QED
    BY <1>3, <1>4

LEMMA ProbeTable ==
  /\ ProbeScript \in Scripts /\ Size(ProbeScript) = 8
  /\ ProbeScript[1] = "acquire" /\ ProbeScript[2] = "bars" /\ ProbeScript[3] = "insert"
  /\ ProbeScript[4] = "char" /\ ProbeScript[5] = "feature" /\ ProbeScript[6] = "fs"
  /\ ProbeScript[7] = "msix" /\ ProbeScript[8] = "firmware"
  BY DEF ProbeScript, Scripts, Size, Statements

LEMMA UndoTable ==
  /\ UndoScript \in Scripts /\ Size(UndoScript) = 9
  /\ UndoScript[1] = "fsDeinit" /\ UndoScript[2] = "unnode" /\ UndoScript[3] = "uncdev"
  /\ UndoScript[4] = "fifoFree" /\ UndoScript[5] = "delist" /\ UndoScript[6] = "unmap"
  /\ UndoScript[7] = "freePages" /\ UndoScript[8] = "disable" /\ UndoScript[9] = "devres"
  BY DEF UndoScript, Scripts, Size, Statements

LEMMA RemoveTable ==
  /\ RemoveScript \in Scripts /\ Size(RemoveScript) = 13
  /\ RemoveScript[1] = "down" /\ RemoveScript[2] = "fsDeinit" /\ RemoveScript[3] = "delist"
  /\ RemoveScript[4] = "unnode" /\ RemoveScript[5] = "uncdev" /\ RemoveScript[6] = "deinitMsix"
  /\ RemoveScript[7] = "fifoFree" /\ RemoveScript[8] = "clear" /\ RemoveScript[9] = "unmap"
  /\ RemoveScript[10] = "freePages" /\ RemoveScript[11] = "disable" /\ RemoveScript[12] = "up"
  /\ RemoveScript[13] = "devres"
  BY DEF RemoveScript, Scripts, Size, Statements

LEMMA RequestTable ==
  /\ RequestScript \in Scripts /\ Size(RequestScript) = 2
  /\ RequestScript[1] = "request" /\ RequestScript[2] = "firmware"
  BY DEF RequestScript, Scripts, Size, Statements

(* The scripts that are written out are rests of the three.                *)
LEMMA RestEqual ==
  \A s, r \in Scripts : Size(s) = Size(r) /\ (\A i \in 1..Size(s) : s[i] = r[i]) => s = r
  BY SeqEqual DEF Scripts, Size

LEMMA ResumeScript == Rest(ProbeScript, 7) = <<"msix", "firmware">>
  <1> DEFINE r == <<"msix", "firmware">>
  <1>1. r \in Scripts /\ Size(r) = 2 /\ r[1] = "msix" /\ r[2] = "firmware"
    BY DEF Scripts, Size, Statements
  <1>2. Rest(ProbeScript, 7) \in Scripts /\ Size(Rest(ProbeScript, 7)) = 2
    BY ProbeTable, RestFacts
  <1>3. Rest(ProbeScript, 7)[1] = "msix" /\ Rest(ProbeScript, 7)[2] = "firmware"
    BY ProbeTable, RestItem
  <1> HIDE DEF r
  <1> QED
    BY <1>1, <1>2, <1>3, RestEqual DEF r

LEMMA LastScript == Rest(RemoveScript, 13) = <<"devres">>
  <1> DEFINE r == <<"devres">>
  <1>1. r \in Scripts /\ Size(r) = 1 /\ r[1] = "devres"
    BY DEF Scripts, Size, Statements
  <1>2. Rest(RemoveScript, 13) \in Scripts /\ Size(Rest(RemoveScript, 13)) = 1
    BY RemoveTable, RestFacts
  <1>3. Rest(RemoveScript, 13)[1] = "devres"
    BY RemoveTable, RestItem
  <1> HIDE DEF r
  <1> QED
    BY <1>1, <1>2, <1>3, RestEqual DEF r

LEMMA RequestRest ==
  /\ <<"request">> \o Tail(Rest(ProbeScript, 7)) = RequestScript
  /\ Rest(RequestScript, 2) = Rest(ProbeScript, 8)
  <1> DEFINE a == <<"request">>
             b == Rest(ProbeScript, 8)
  <1>1. Tail(Rest(ProbeScript, 7)) = b
    <2>1. ProbeScript \in Seq(Statements) /\ Len(ProbeScript) = 8
      BY ProbeTable DEF Scripts, Size
    <2>2. Tail(SubSeq(ProbeScript, 7, 8)) = SubSeq(ProbeScript, 8, 8)
      BY <2>1, HeadTailOfSubSeq
    <2> QED
      BY <2>1, <2>2 DEF Rest
  <1>2. a \in Scripts /\ Size(a) = 1 /\ a[1] = "request"
    BY DEF Scripts, Size, Statements
  <1>3. b \in Scripts /\ Size(b) = 1 /\ b[1] = "firmware"
    BY ProbeTable, RestFacts, RestItem
  <1>4. Rest(RequestScript, 2) \in Scripts /\ Size(Rest(RequestScript, 2)) = 1
        /\ Rest(RequestScript, 2)[1] = "firmware"
    BY RequestTable, RestFacts, RestItem
  <1> HIDE DEF a, b
  <1>5. a \o b \in Scripts /\ Size(a \o b) = 2 /\ (a \o b)[1] = a[1] /\ (a \o b)[2] = b[1]
    <2>1. a \in Seq(Statements) /\ b \in Seq(Statements) /\ Len(a) = 1 /\ Len(b) = 1
      BY <1>2, <1>3 DEF Scripts, Size
    <2>2. a \o b \in Seq(Statements) /\ Len(a \o b) = Len(a) + Len(b)
          /\ \A i \in 1..(Len(a) + Len(b)) : (a \o b)[i] = IF i <= Len(a) THEN a[i] ELSE b[i - Len(a)]
      BY <2>1, ConcatProperties
    <2> QED
      BY <2>1, <2>2 DEF Scripts, Size
  <1>6. a \o b = RequestScript
    <2> DEFINE c == a \o b
    <2>1. c \in Scripts /\ Size(c) = 2 /\ c[1] = "request" /\ c[2] = "firmware"
      BY <1>2, <1>3, <1>5
    <2> HIDE DEF c
    <2>2. \A i \in 1..Size(c) : c[i] = RequestScript[i]
      BY <2>1, RequestTable
    <2>3. c = RequestScript
      BY <2>1, <2>2, RequestTable, RestEqual
    <2> QED
      BY <2>3 DEF c
  <1>7. Rest(RequestScript, 2) = b
    BY <1>3, <1>4, RestEqual
  <1> QED
    BY <1>1, <1>6, <1>7 DEF a, b

(* Where the error labels lead.                                            *)
LEMMA FromLabel == \A k \in 1..9 : From(UndoScript[k]) = Rest(UndoScript, k)
  <1> SUFFICES ASSUME NEW k \in 1..9 PROVE From(UndoScript[k]) = Rest(UndoScript, k)
    OBVIOUS
  <1>1. DOMAIN UndoScript = 1..9
    BY DEF UndoScript
  <1>2. \A i \in 1..9 : UndoScript[i] = UndoScript[k] => i = k
    BY UndoTable
  <1>3. (CHOOSE i \in DOMAIN UndoScript : UndoScript[i] = UndoScript[k]) = k
    BY <1>1, <1>2
  <1> QED
    BY <1>3 DEF From, Rest

LEMMA Labels ==
  /\ From(Label["mem"]) = Rest(UndoScript, 9) /\ From(Label["enable"]) = Rest(UndoScript, 9)
  /\ From(Label["pages"]) = Rest(UndoScript, 8) /\ From(Label["regions"]) = Rest(UndoScript, 7)
  /\ From(Label["fifo"]) = Rest(UndoScript, 6) /\ From(Label["bars"]) = Rest(UndoScript, 6)
  /\ From(Label["char"]) = Rest(UndoScript, 2) /\ From(Label["feature"]) = Rest(UndoScript, 2)
  /\ From(Label["fs"]) = Rest(UndoScript, 2) /\ From(Label["msix"]) = Rest(UndoScript, 1)
  /\ From(Label["request"]) = Rest(UndoScript, 1) /\ From(Label["firmware"]) = Rest(UndoScript, 1)
  <1>1. /\ Label["mem"] = UndoScript[9] /\ Label["enable"] = UndoScript[9]
        /\ Label["pages"] = UndoScript[8] /\ Label["regions"] = UndoScript[7]
        /\ Label["fifo"] = UndoScript[6] /\ Label["bars"] = UndoScript[6]
        /\ Label["char"] = UndoScript[2] /\ Label["feature"] = UndoScript[2]
        /\ Label["fs"] = UndoScript[2] /\ Label["msix"] = UndoScript[1]
        /\ Label["request"] = UndoScript[1] /\ Label["firmware"] = UndoScript[1]
    BY UndoTable DEF Label
  <1> QED
    BY <1>1, FromLabel

-----------------------------------------------------------------------------
(* What a step makes of a script.                                          *)
LEMMA StepAt ==
  \A d \in Devices, s \in Scripts : \A k \in 1..Size(s) : script[d] = Rest(s, k) => Step(d) = s[k]
  BY RestFacts DEF Step

LEMMA SkipRest ==
  ASSUME NEW d \in Devices, script = [e \in Devices |-> script[e]]
  PROVE  \A s \in Scripts : \A k \in 1..Size(s) : \A n \in 1..(Size(s) + 1 - k) :
           script[d] = Rest(s, k) /\ Skip(d, n) =>
             /\ script' = [script EXCEPT ![d] = Rest(s, k + n)]
             /\ proc' = [proc EXCEPT ![d] = IF k + n <= Size(s) THEN @
                                            ELSE IF @ \in {"probe", "resume"} THEN "bound" ELSE "none"]
             /\ k + n = Size(s) + 1 => Rest(s, k + n) = <<>>
  <1> SUFFICES ASSUME NEW s \in Scripts, NEW k \in 1..Size(s), NEW n \in 1..(Size(s) + 1 - k),
                      script[d] = Rest(s, k), Skip(d, n)
               PROVE  /\ script' = [script EXCEPT ![d] = Rest(s, k + n)]
                      /\ proc' = [proc EXCEPT ![d] = IF k + n <= Size(s) THEN @
                                            ELSE IF @ \in {"probe", "resume"} THEN "bound" ELSE "none"]
                      /\ k + n = Size(s) + 1 => Rest(s, k + n) = <<>>
    OBVIOUS
  <1>1. SubSeq(script[d], n + 1, Len(script[d])) = Rest(s, k + n)
    BY RestOfRest
  <1>2. Size(s) \in Nat /\ Len(script[d]) = Size(s) + 1 - k
    BY RestFacts DEF Size
  <1>3. n < Len(script[d]) <=> k + n <= Size(s)
    BY <1>2
  <1>4. script' = [script EXCEPT ![d] = Rest(s, k + n)]
    BY <1>1 DEF Skip
  <1>5. proc' = [proc EXCEPT ![d] = IF k + n <= Size(s) THEN @
                                    ELSE IF @ \in {"probe", "resume"} THEN "bound" ELSE "none"]
    BY <1>3 DEF Skip
  <1> QED
    BY <1>4, <1>5, RestOver

Activities == {"none", "probe", "undo", "bound", "remove", "resume"}

(* The scripts of others stay, and this one's and its device's activity are*)
(* as they should be.                                                      *)
Moves(d) ==
  /\ \A e \in Devices \ {d} : proc'[e] = proc[e] /\ script'[e] = script[e]
  /\ script' = [e \in Devices |-> script'[e]] /\ proc' \in [Devices -> Activities]

LEMMA SkipFacts ==
  ASSUME Types, NEW d \in Devices
  PROVE  \A s \in Scripts : \A k \in 1..Size(s) : \A n \in 1..(Size(s) + 1 - k) :
           script[d] = Rest(s, k) /\ Skip(d, n) =>
             /\ Moves(d)
             /\ script'[d] = Rest(s, k + n)
             /\ k + n <= Size(s) => proc'[d] = proc[d]
             /\ k + n = Size(s) + 1 =>
                  /\ script'[d] = <<>>
                  /\ proc'[d] = IF proc[d] \in {"probe", "resume"} THEN "bound" ELSE "none"
  <1> SUFFICES ASSUME NEW s \in Scripts, NEW k \in 1..Size(s), NEW n \in 1..(Size(s) + 1 - k),
                      script[d] = Rest(s, k), Skip(d, n)
               PROVE  /\ Moves(d)
                      /\ script'[d] = Rest(s, k + n)
                      /\ k + n <= Size(s) => proc'[d] = proc[d]
                      /\ k + n = Size(s) + 1 =>
                           /\ script'[d] = <<>>
                           /\ proc'[d] = IF proc[d] \in {"probe", "resume"} THEN "bound" ELSE "none"
    OBVIOUS
  <1>1. script = [e \in Devices |-> script[e]] /\ proc \in [Devices -> Activities]
    BY DEF Types, Activities
  <1> DEFINE after == IF k + n <= Size(s) THEN proc[d]
                      ELSE IF proc[d] \in {"probe", "resume"} THEN "bound" ELSE "none"
  <1>2. /\ script' = [script EXCEPT ![d] = Rest(s, k + n)]
        /\ proc' = [proc EXCEPT ![d] = after]
        /\ k + n = Size(s) + 1 => Rest(s, k + n) = <<>>
    BY <1>1, SkipRest
  <1>3. after \in Activities
    BY <1>1 DEF Activities
  <1>4. Size(s) \in Nat
    BY RestFacts
  <1>5. (k + n <= Size(s) => after = proc[d])
        /\ (k + n = Size(s) + 1 =>
              after = IF proc[d] \in {"probe", "resume"} THEN "bound" ELSE "none")
    BY <1>4
  <1> HIDE DEF after
  <1>6. Moves(d)
    BY <1>1, <1>2, <1>3 DEF Moves
  <1>7. script'[d] = Rest(s, k + n) /\ proc'[d] = after
    BY <1>1, <1>2
  <1> QED
    BY <1>2, <1>5, <1>6, <1>7

LEMMA FailFacts ==
  ASSUME NEW d \in Devices, NEW step, Fail(d, step), Types
  PROVE  /\ Moves(d)
         /\ proc[d] = "resume" /\ script[d] \in Scripts => proc'[d] = "bound" /\ script'[d] = <<>>
         /\ proc[d] # "resume" => proc'[d] = "undo" /\ script'[d] = From(Label[step])
  <1>1. script = [e \in Devices |-> script[e]] /\ proc \in [Devices -> Activities]
    BY DEF Types, Activities
  <1>2. CASE proc[d] = "resume"
    <2> DEFINE rest == SubSeq(script[d], Len(script[d]) + 1, Len(script[d]))
               after == IF Len(script[d]) < Len(script[d]) THEN proc[d] ELSE "bound"
    <2>1. script' = [script EXCEPT ![d] = rest] /\ proc' = [proc EXCEPT ![d] = after]
      BY <1>2 DEF Fail, Skip
    <2>2. after \in Activities
      BY <1>1 DEF Activities
    <2>3. script[d] \in Scripts => rest = <<>> /\ after = "bound"
      <3> SUFFICES ASSUME script[d] \in Seq(Statements) PROVE rest = <<>> /\ after = "bound"
        BY DEF Scripts
      <3>1. Len(script[d]) \in Nat
        BY LenProperties
      <3>2. rest = <<>>
        BY <3>1, SubSeqEmpty
      <3> QED
        BY <3>1, <3>2
    <2> HIDE DEF rest, after
    <2> QED
      BY <1>1, <1>2, <2>1, <2>2, <2>3 DEF Moves
  <1>3. CASE proc[d] # "resume"
    BY <1>1, <1>3 DEF Fail, Moves, Activities
  <1> QED
    BY <1>2, <1>3

(* Which steps there are in which stage.                                   *)
LEMMA Steps ==
  ASSUME NEW d \in Devices
  PROVE  /\ Absent(d) \/ Present(d) \/ Hollow(d) => Step(d) = "none"
         /\ Requesting(d) => Step(d) = "request"
         /\ \A k \in 1..8 : Probing(d, k) => Step(d) = ProbeScript[k]
         /\ \A k \in 6..9 : Hollowing(d, k) => Step(d) = UndoScript[k]
         /\ \A k \in 1..9 : Undoing(d, k) => Step(d) = UndoScript[k]
         /\ \A k \in 7..8 : Resuming(d, k) => Step(d) = ProbeScript[k]
         /\ \A k \in 1..13 : Removing(d, k) => Step(d) = RemoveScript[k]
  <1>1. Absent(d) \/ Present(d) \/ Hollow(d) => Step(d) = "none"
    BY DEF Absent, Present, Hollow, Step
  <1>2. Requesting(d) => Step(d) = "request"
    <2>1. Rest(RequestScript, 1) = RequestScript
      BY RequestTable, RestFull
    <2> QED
      BY <2>1, StepAt, RequestTable DEF Requesting
  <1>3. \A k \in 1..8 : Probing(d, k) => Step(d) = ProbeScript[k]
    BY StepAt, ProbeTable DEF Probing
  <1>4. \A k \in 1..9 : Undoing(d, k) => Step(d) = UndoScript[k]
    BY StepAt, UndoTable DEF Undoing
  <1>5. \A k \in 6..9 : Hollowing(d, k) => Step(d) = UndoScript[k]
    BY StepAt, UndoTable DEF Hollowing
  <1>6. \A k \in 7..8 : Resuming(d, k) => Step(d) = ProbeScript[k]
    BY StepAt, ProbeTable DEF Resuming
  <1>7. \A k \in 1..13 : Removing(d, k) => Step(d) = RemoveScript[k]
    BY StepAt, RemoveTable DEF Removing
  <1> QED
    BY <1>1, <1>2, <1>3, <1>4, <1>5, <1>6, <1>7

LEMMA StageOf ==
  ASSUME NEW d \in Devices, Stage(d)
  PROVE  /\ Step(d) \in {"acquire", "bars", "insert", "char", "feature", "fs"} =>
              \E k \in 1..6 : Probing(d, k) /\ ProbeScript[k] = Step(d)
         /\ Step(d) = "msix" => Probing(d, 7) \/ Resuming(d, 7)
         /\ Step(d) = "firmware" => Probing(d, 8) \/ Resuming(d, 8)
         /\ Step(d) = "request" => Requesting(d)
         /\ Step(d) = "down" => Removing(d, 1)
         /\ Step(d) = "deinitMsix" => Removing(d, 6)
         /\ Step(d) = "up" => Removing(d, 12)
         /\ Step(d) = "delist" => Removing(d, 3) \/ Undoing(d, 5)
         /\ Step(d) = "unnode" => Removing(d, 4) \/ Undoing(d, 2)
         /\ Step(d) = "uncdev" => Removing(d, 5) \/ Undoing(d, 3)
         /\ Step(d) = "devres" => Removing(d, 13) \/ Undoing(d, 9) \/ Hollowing(d, 9)
  <1>1. CASE Absent(d) \/ Present(d) \/ Hollow(d) \/ Requesting(d)
    BY <1>1, Steps
  <1>2. CASE \E k \in 1..8 : Probing(d, k)
    BY <1>2, Steps, ProbeTable
  <1>3. CASE \E k \in 6..9 : Hollowing(d, k)
    BY <1>3, Steps, UndoTable
  <1>4. CASE \E k \in 1..9 : Undoing(d, k)
    BY <1>4, Steps, UndoTable
  <1>5. CASE \E k \in 7..8 : Resuming(d, k)
    BY <1>5, Steps, ProbeTable
  <1>6. CASE \E k \in 1..13 : Removing(d, k)
    BY <1>6, Steps, RemoveTable
  <1> QED
    BY <1>1, <1>2, <1>3, <1>4, <1>5, <1>6 DEF Stage

-----------------------------------------------------------------------------
(* What a step leaves alone.                                               *)
Alike(e) ==
  /\ proc'[e] = proc[e] /\ script'[e] = script[e]
  /\ held'[e] = held[e] /\ excused'[e] = excused[e]
  /\ vectors'[e] = vectors[e] /\ registered'[e] = registered[e] /\ init_done'[e] = init_done[e]
  /\ power'[e] = power[e]

LEMMA StageKept ==
  ASSUME NEW e \in Devices, Alike(e), mutex[e] = e => mutex'[e] = e
  PROVE  /\ Stage(e) => Stage(e)'
         /\ Absent(e) => Absent(e)'
         /\ Present(e) => Present(e)'
  <1>1. Absent(e) => Absent(e)'
    BY DEF Alike, Absent, Unarmed
  <1>2. Present(e) => Present(e)'
    BY DEF Alike, Present, Armed
  <1>3. Hollow(e) => Hollow(e)'
    BY DEF Alike, Hollow, Unarmed
  <1>4. Requesting(e) => Requesting(e)'
    BY DEF Alike, Requesting
  <1>5. \A k \in 1..8 : Probing(e, k) => Probing(e, k)'
    BY DEF Alike, Probing, Unarmed, Armed
  <1>6. \A k \in 6..9 : Hollowing(e, k) => Hollowing(e, k)'
    BY DEF Alike, Hollowing, Unarmed
  <1>7. \A k \in 1..9 : Undoing(e, k) => Undoing(e, k)'
    BY DEF Alike, Undoing
  <1>8. \A k \in 7..8 : Resuming(e, k) => Resuming(e, k)'
    BY DEF Alike, Resuming, Armed
  <1>9. \A k \in 1..13 : Removing(e, k) => Removing(e, k)'
    BY DEF Alike, Removing
  <1> QED
    BY <1>1, <1>2, <1>3, <1>4, <1>5, <1>6, <1>7, <1>8, <1>9 DEF Stage

(* Only a resuming device takes a step while the system sleeps.            *)
LEMMA AwakeOrResume ==
  ASSUME PhaseInv, Types, NEW d \in Devices, Step(d) # "none", proc[d] # "resume"
  PROVE  phase = "awake"
  BY Steps DEF PhaseInv

(* A step of a device's script: what is to be shown of that device alone.  *)
Alone(d) ==
  /\ \A e \in Devices \ {d} : Alike(e) /\ mutex'[e] = mutex[e]
  /\ UNCHANGED <<phase, pending, upc, uref>>

LEMMA ScriptStep ==
  ASSUME CoreInv, NEW d \in Devices, Alone(d), Types', Stage(d)', Step(d) # "none",
         proc[d] = "resume" => Present(d)' \/ proc'[d] = "resume",
         \A u \in Users : upc[u] = "inside" /\ uref[u] = d =>
           /\ mutex'[d] = mutex[d]
           /\ proc'[d] # "undo" => "pDev" \in held'[d]
           /\ proc'[d] # "remove"
  PROVE  CoreInv'
  <1>1. StageInv'
    <2> SUFFICES ASSUME NEW e \in Devices, e # d PROVE Stage(e)'
      BY DEF StageInv
    <2> QED
      BY StageKept DEF CoreInv, StageInv, Alone
  <1>2. PhaseInv'
    <2> SUFFICES ASSUME phase # "awake"
                 PROVE  /\ \A e \in Devices : (Absent(e) \/ Present(e) \/ proc[e] = "resume")'
                        /\ \A e \in pending : Present(e)'
                        /\ \A u \in Users : upc[u] \in {"closed", "open", "orphan"}
      BY DEF PhaseInv, Alone
    <2>1. PhaseInv /\ Types
      BY DEF CoreInv
    <2>2. proc[d] = "resume"
      BY <2>1, AwakeOrResume
    <2>3. \A e \in Devices : (Absent(e) \/ Present(e) \/ proc[e] = "resume")'
      <3> SUFFICES ASSUME NEW e \in Devices, e # d PROVE (Absent(e) \/ Present(e) \/ proc[e] = "resume")'
        BY <2>2
      <3>1. Alike(e) /\ mutex'[e] = mutex[e]
        BY DEF Alone
      <3>2. CASE proc[e] = "resume"
        BY <3>1, <3>2 DEF Alike
      <3>3. CASE Absent(e) \/ Present(e)
        <4>1. (Absent(e) => Absent(e)') /\ (Present(e) => Present(e)')
          BY <3>1, StageKept
        <4> QED
          BY <3>3, <4>1
      <3>4. Absent(e) \/ Present(e) \/ proc[e] = "resume"
        BY <2>1 DEF PhaseInv
      <3> QED
        BY <3>2, <3>3, <3>4
    <2>4. d \notin pending
      BY <2>1, <2>2 DEF PhaseInv, Present
    <2>5. \A e \in pending : Present(e)'
      <3> SUFFICES ASSUME NEW e \in pending PROVE Present(e)'
        OBVIOUS
      <3>1. e \in Devices /\ e # d /\ Present(e)
        BY <2>1, <2>4 DEF PhaseInv, Types
      <3>2. Alike(e) /\ mutex'[e] = mutex[e]
        BY <3>1 DEF Alone
      <3>3. Present(e) => Present(e)'
        BY <3>1, <3>2, StageKept
      <3> QED
        BY <3>1, <3>3
    <2> QED
      BY <2>1, <2>3, <2>5 DEF PhaseInv
  <1>3. InsideInv'
    <2> SUFFICES ASSUME NEW u \in Users, upc[u] = "inside"
                 PROVE  /\ mutex'[uref[u]] = u
                        /\ proc'[uref[u]] # "undo" => "pDev" \in held'[uref[u]]
                        /\ proc'[uref[u]] = "remove" => script'[uref[u]] = RemoveScript
      BY DEF InsideInv, Alone
    <2>1. /\ uref[u] \in Devices /\ mutex[uref[u]] = u
          /\ proc[uref[u]] # "undo" => "pDev" \in held[uref[u]]
          /\ proc[uref[u]] = "remove" => script[uref[u]] = RemoveScript
      BY DEF CoreInv, Types, InsideInv
    <2>2. CASE uref[u] = d
      BY <2>1, <2>2
    <2>3. CASE uref[u] # d
      BY <2>1, <2>3 DEF Alone, Alike
    <2> QED
      BY <2>2, <2>3
  <1> QED
    BY <1>1, <1>2, <1>3 DEF CoreInv

(* Who is inside a device is there, and a removal waits for it.            *)
LEMMA InsideStage ==
  ASSUME CoreInv, NEW u \in Users, upc[u] = "inside"
  PROVE  LET d == uref[u] IN
         /\ d \in Devices /\ mutex[d] = u
         /\ ~Absent(d) /\ ~Hollow(d)
         /\ \A k \in 1..2 : ~Probing(d, k)
         /\ \A k \in 6..9 : ~Hollowing(d, k)
         /\ \A k \in 2..13 : ~Removing(d, k)
  <1> DEFINE d == uref[u]
  <1>1. /\ d \in Devices /\ mutex[d] = u
        /\ proc[d] # "undo" => "pDev" \in held[d]
        /\ proc[d] = "remove" => script[d] = RemoveScript
        /\ excused[d] \subseteq {"fifo", "fs"}
    BY DEF CoreInv, Types, InsideInv
  <1> HIDE DEF d
  <1>2. ~Absent(d) /\ ~Hollow(d)
    BY <1>1 DEF Absent, Hollow
  <1>3. \A k \in 1..2 : ~Probing(d, k)
    <2>1. "pDev" \in Owned /\ ProbeFrom["pDev"] = 2
      BY DEF Owned, ProbeFrom
    <2> QED
      BY <1>1, <2>1 DEF Probing
  <1>4. \A k \in 6..9 : ~Hollowing(d, k)
    BY <1>1 DEF Hollowing
  <1>5. \A k \in 2..13 : ~Removing(d, k)
    <2>1. \A k \in 2..13 : Removing(d, k) => script[d] = Rest(RemoveScript, k) /\ script[d] = RemoveScript
      BY <1>1 DEF Removing
    <2>2. \A k \in 2..13 : Size(Rest(RemoveScript, k)) = 14 - k
      BY RestFacts, RemoveTable
    <2> QED
      BY <2>1, <2>2, RemoveTable
  <1> QED
    BY <1>1, <1>2, <1>3, <1>4, <1>5 DEF d

-----------------------------------------------------------------------------
(* Probe and resume.                                                       *)
LEMMA Acquired ==
  /\ Len(Acquisitions) = 5
  /\ \A n \in 0..5 : Range(SubSeq(Acquisitions, 1, n)) = {Acquisitions[i] : i \in 1..n}
  <1>1. Len(Acquisitions) = 5 /\ \A i \in 1..5 : Acquisitions[i] \in Owned
    BY DEF Acquisitions, Owned
  <1> SUFFICES ASSUME NEW n \in 0..5
               PROVE  Range(SubSeq(Acquisitions, 1, n)) = {Acquisitions[i] : i \in 1..n}
    BY <1>1
  <1> DEFINE s == SubSeq(Acquisitions, 1, n)
  <1>2. /\ s \in Seq(Owned) /\ Len(s) = (IF 1 <= n THEN n - 1 + 1 ELSE 0)
        /\ \A i \in 1..(n - 1 + 1) : s[i] = Acquisitions[1 + i - 1]
    BY <1>1, SubSeqProperties
  <1> HIDE DEF s
  <1>3. DOMAIN s = 1..Len(s)
    BY <1>2, LenProperties
  <1>4. Len(s) = n /\ \A i \in 1..n : s[i] = Acquisitions[i]
    BY <1>2
  <1>5. Range(s) = {s[i] : i \in 1..n}
    BY <1>3, <1>4 DEF Range
  <1> QED
    BY <1>4, <1>5 DEF s

LEMMA AcquireStep ==
  ASSUME CoreInv, NEW d \in Devices, Acquire(d)
  PROVE  CoreInv'
  <1>1. Types /\ Stage(d)
    BY DEF CoreInv, StageInv
  <1>2. Probing(d, 1)
    BY <1>1, StageOf, ProbeTable DEF Acquire
  <1>3. /\ proc[d] = "probe" /\ script[d] = Rest(ProbeScript, 1) /\ Unarmed(d)
        /\ UNCHANGED <<excused, nameVars, msixVars, powerVars, userVars>>
    BY <1>2 DEF Probing, Acquire
  <1>4. PICK n \in 0..5 : /\ held' = [held EXCEPT ![d] = {Acquisitions[i] : i \in 1..n}]
                          /\ IF n = 5 THEN Advance(d) ELSE Fail(d, Acquisitions[n + 1])
    BY Acquired DEF Acquire
  <1>5. /\ {Acquisitions[i] : i \in 1..n} \subseteq Owned
        /\ held \in [Devices -> SUBSET Owned]
    BY <1>1 DEF Acquisitions, Owned, Types
  <1>6. /\ held'[d] = {Acquisitions[i] : i \in 1..n}
        /\ \A e \in Devices \ {d} : held'[e] = held[e]
        /\ held' \in [Devices -> SUBSET Owned]
    BY <1>4, <1>5
  <1>7. Moves(d) /\ Stage(d)'
    <2>1. CASE n = 5
      <3>1. Moves(d) /\ script'[d] = Rest(ProbeScript, 2) /\ proc'[d] = "probe"
        BY <1>1, <1>3, <1>4, <2>1, SkipFacts, ProbeTable DEF Advance
      <3>2. \A r \in Owned : r \in held'[d] <=> 2 > ProbeFrom[r]
        BY <1>6, <2>1 DEF Owned, ProbeFrom, Acquisitions
      <3>3. Unarmed(d)'
        BY <1>3 DEF Unarmed, msixVars
      <3>4. Probing(d, 2)'
        BY <3>1, <3>2, <3>3 DEF Probing
      <3> QED
        BY <3>1, <3>4 DEF Stage
    <2>2. CASE n # 5
      <3>1. Moves(d) /\ proc'[d] = "undo" /\ script'[d] = From(Label[Acquisitions[n + 1]])
        BY <1>1, <1>3, <1>4, <2>2, FailFacts
      <3>2. script'[d] = Rest(UndoScript, IF n < 2 THEN 9 ELSE 10 - n)
        BY <2>2, <3>1, Labels DEF Acquisitions
      <3>3. \A r \in held'[d] : (IF n < 2 THEN 9 ELSE 10 - n) <= UndoBy[r]
        BY <1>6, <2>2 DEF UndoBy, Acquisitions
      <3>4. (IF n < 2 THEN 9 ELSE 10 - n) \in 1..9
        BY <2>2
      <3>5. Undoing(d, IF n < 2 THEN 9 ELSE 10 - n)'
        BY <3>1, <3>2, <3>3 DEF Undoing
      <3> QED
        BY <3>1, <3>4, <3>5 DEF Stage
    <2> QED
      BY <2>1, <2>2
  <1>8. Alone(d)
    BY <1>3, <1>6, <1>7 DEF Alone, Alike, Moves, msixVars, powerVars, userVars
  <1>9. Types'
    BY <1>1, <1>3, <1>6, <1>7 DEF Types, Moves, Activities, nameVars, msixVars, powerVars, userVars
  <1>10. \A u \in Users : upc[u] = "inside" => uref[u] # d
    BY <1>2, InsideStage
  <1> QED
    BY <1>3, <1>7, <1>8, <1>9, <1>10, ScriptStep DEF Acquire

LEMMA BarsStep ==
  ASSUME CoreInv, NEW d \in Devices, Bars(d)
  PROVE  CoreInv'
  <1>1. Types /\ Stage(d)
    BY DEF CoreInv, StageInv
  <1>2. Probing(d, 2)
    BY <1>1, StageOf, ProbeTable DEF Bars
  <1>3. /\ proc[d] = "probe" /\ script[d] = Rest(ProbeScript, 2) /\ Unarmed(d)
        /\ \A r \in Owned : r \in held[d] <=> 2 > ProbeFrom[r]
        /\ held \in [Devices -> SUBSET Owned] /\ excused \in [Devices -> SUBSET {"fifo", "fs"}]
        /\ UNCHANGED <<nameVars, msixVars, powerVars, userVars>>
    BY <1>1, <1>2 DEF Types, Probing, Bars
  <1>4. Unarmed(d)'
    BY <1>3 DEF Unarmed, msixVars
  <1>5. /\ Moves(d) /\ Stage(d)'
        /\ held' \in [Devices -> SUBSET Owned] /\ excused' \in [Devices -> SUBSET {"fifo", "fs"}]
        /\ \A e \in Devices \ {d} : held'[e] = held[e] /\ excused'[e] = excused[e]
    <2>1. CASE /\ held' = [held EXCEPT ![d] = @ \cup {"pDev"}]
               /\ Advance(d)
               /\ UNCHANGED excused
      <3>1. Moves(d) /\ script'[d] = Rest(ProbeScript, 3) /\ proc'[d] = "probe"
        BY <1>1, <1>3, <2>1, SkipFacts, ProbeTable DEF Advance
      <3>2. /\ held'[d] = held[d] \cup {"pDev"} /\ held' \in [Devices -> SUBSET Owned]
            /\ \A e \in Devices \ {d} : held'[e] = held[e]
        BY <1>3, <2>1 DEF Owned
      <3>3. \A r \in Owned : r \in held'[d] <=> 3 > ProbeFrom[r]
        BY <1>3, <3>2 DEF Owned, ProbeFrom
      <3>4. Probing(d, 3)'
        BY <1>4, <3>1, <3>3 DEF Probing
      <3> QED
        BY <1>3, <2>1, <3>1, <3>2, <3>4 DEF Stage
    <2>2. CASE /\ script' = [script EXCEPT ![d] = From(Label["bars"])]
               /\ excused' = [excused EXCEPT ![d] = {"fifo"}]
               /\ UNCHANGED <<proc, held>>
      <3>1. Moves(d) /\ script'[d] = Rest(UndoScript, 6) /\ proc'[d] = "probe"
        <4>1. script = [e \in Devices |-> script[e]] /\ proc \in [Devices -> Activities]
          BY <1>1 DEF Types, Activities
        <4> QED
          BY <1>3, <2>2, <4>1, Labels DEF Moves
      <3>2. /\ excused'[d] = {"fifo"} /\ excused' \in [Devices -> SUBSET {"fifo", "fs"}]
            /\ \A e \in Devices \ {d} : excused'[e] = excused[e]
        BY <1>3, <2>2
      <3>3. \A r \in held'[d] \ {"fifo"} : 6 <= UndoBy[r] /\ r # "pDev"
        BY <1>3, <2>2 DEF Owned, ProbeFrom, UndoBy
      <3>4. Hollowing(d, 6)'
        BY <1>4, <3>1, <3>2, <3>3 DEF Hollowing
      <3> QED
        BY <1>3, <2>2, <3>1, <3>2, <3>4 DEF Stage
    <2> QED
      BY <2>1, <2>2 DEF Bars
  <1>6. Alone(d)
    BY <1>3, <1>5 DEF Alone, Alike, Moves, msixVars, powerVars, userVars
  <1>7. Types'
    BY <1>1, <1>3, <1>5 DEF Types, Moves, Activities, nameVars, msixVars, powerVars, userVars
  <1>8. \A u \in Users : upc[u] = "inside" => uref[u] # d
    BY <1>2, InsideStage
  <1> QED
    BY <1>3, <1>5, <1>6, <1>7, <1>8, ScriptStep DEF Bars

LEMMA FsInitStep ==
  ASSUME CoreInv, NEW d \in Devices, FsInit(d)
  PROVE  CoreInv'
  <1>1. Types /\ Stage(d)
    BY DEF CoreInv, StageInv
  <1>2. Probing(d, 6)
    BY <1>1, StageOf, ProbeTable DEF FsInit
  <1>3. /\ proc[d] = "probe" /\ script[d] = Rest(ProbeScript, 6) /\ Unarmed(d)
        /\ \A r \in Owned : r \in held[d] <=> 6 > ProbeFrom[r]
        /\ held \in [Devices -> SUBSET Owned] /\ excused \in [Devices -> SUBSET {"fifo", "fs"}]
        /\ UNCHANGED <<nameVars, msixVars, powerVars, userVars>>
    BY <1>1, <1>2 DEF Types, Probing, FsInit
  <1>4. Unarmed(d)'
    BY <1>3 DEF Unarmed, msixVars
  <1>5. \A r \in held[d] : 2 <= UndoBy[r]
    BY <1>3 DEF Owned, ProbeFrom, UndoBy
  <1>6. /\ Moves(d) /\ Stage(d)' /\ held[d] \subseteq held'[d] /\ proc'[d] \in {"probe", "undo"}
        /\ held' \in [Devices -> SUBSET Owned] /\ excused' \in [Devices -> SUBSET {"fifo", "fs"}]
        /\ \A e \in Devices \ {d} : held'[e] = held[e] /\ excused'[e] = excused[e]
    <2>1. CASE held' = [held EXCEPT ![d] = @ \cup {"fs"}] /\ Advance(d) /\ UNCHANGED excused
      <3>1. Moves(d) /\ script'[d] = Rest(ProbeScript, 7) /\ proc'[d] = "probe"
        BY <1>1, <1>3, <2>1, SkipFacts, ProbeTable DEF Advance
      <3>2. /\ held'[d] = held[d] \cup {"fs"} /\ held' \in [Devices -> SUBSET Owned]
            /\ \A e \in Devices \ {d} : held'[e] = held[e]
        BY <1>3, <2>1 DEF Owned
      <3>3. \A r \in Owned : r \in held'[d] <=> 7 > ProbeFrom[r]
        BY <1>3, <3>2 DEF Owned, ProbeFrom
      <3>4. Probing(d, 7)'
        BY <1>4, <3>1, <3>3 DEF Probing
      <3> QED
        BY <1>3, <2>1, <3>1, <3>2, <3>4 DEF Stage
    <2>2. CASE Fail(d, "fs") /\ UNCHANGED <<held, excused>>
      <3>1. Moves(d) /\ proc'[d] = "undo" /\ script'[d] = Rest(UndoScript, 2)
        BY <1>1, <1>3, <2>2, FailFacts, Labels
      <3>2. Undoing(d, 2)'
        BY <1>5, <2>2, <3>1 DEF Undoing
      <3> QED
        BY <1>3, <2>2, <3>1, <3>2 DEF Stage
    <2>3. CASE /\ Fail(d, "fs")
               /\ held' = [held EXCEPT ![d] = @ \cup {"fs"}]
               /\ excused' = [excused EXCEPT ![d] = {"fs"}]
      <3>1. Moves(d) /\ proc'[d] = "undo" /\ script'[d] = Rest(UndoScript, 2)
        BY <1>1, <1>3, <2>3, FailFacts, Labels
      <3>2. /\ held'[d] = held[d] \cup {"fs"} /\ held' \in [Devices -> SUBSET Owned]
            /\ excused'[d] = {"fs"} /\ excused' \in [Devices -> SUBSET {"fifo", "fs"}]
            /\ \A e \in Devices \ {d} : held'[e] = held[e] /\ excused'[e] = excused[e]
        BY <1>3, <2>3 DEF Owned
      <3>3. Undoing(d, 2)'
        BY <1>5, <3>1, <3>2 DEF Undoing
      <3> QED
        BY <3>1, <3>2, <3>3 DEF Stage
    <2> QED
      BY <2>1, <2>2, <2>3 DEF FsInit
  <1>7. Alone(d)
    BY <1>3, <1>6 DEF Alone, Alike, Moves, msixVars, powerVars, userVars
  <1>8. Types'
    BY <1>1, <1>3, <1>6 DEF Types, Moves, Activities, nameVars, msixVars, powerVars, userVars
  <1>9. "pDev" \in held'[d] /\ mutex' = mutex
    BY <1>3, <1>6 DEF Owned, ProbeFrom, userVars
  <1> QED
    BY <1>3, <1>6, <1>7, <1>8, <1>9, ScriptStep DEF FsInit

LEMMA InsertStep ==
  ASSUME CoreInv, NEW d \in Devices, Insert(d)
  PROVE  CoreInv'
  <1>1. Types /\ Stage(d)
    BY DEF CoreInv, StageInv
  <1>2. Probing(d, 3)
    BY <1>1, StageOf, ProbeTable DEF Insert
  <1>3. /\ proc[d] = "probe" /\ script[d] = Rest(ProbeScript, 3) /\ Unarmed(d) /\ Advance(d)
        /\ \A r \in Owned : r \in held[d] <=> 3 > ProbeFrom[r]
        /\ UNCHANGED <<held, excused, nodes, cdevs, msixVars, powerVars, userVars>>
    BY <1>2 DEF Probing, Insert
  <1>4. Moves(d) /\ script'[d] = Rest(ProbeScript, 4) /\ proc'[d] = "probe"
    BY <1>1, <1>3, SkipFacts, ProbeTable DEF Advance
  <1>5. Probing(d, 4)'
    BY <1>3, <1>4 DEF Probing, Unarmed, msixVars, Owned, ProbeFrom
  <1>6. minor' \in [Entries -> Minors] /\ contested' \subseteq Minors
    <2>1. PICK number \in Minors :
            /\ minor' = [minor EXCEPT ![d] = number]
            /\ contested' = contested \cup ({number} \cap InRemoval)
      BY DEF Insert
    <2> QED
      BY <1>1, <2>1 DEF Types
  <1>7. Alone(d)
    BY <1>3, <1>4 DEF Alone, Alike, Moves, msixVars, powerVars, userVars
  <1>8. Types'
    BY <1>1, <1>3, <1>4, <1>6 DEF Types, Moves, Activities, msixVars, powerVars, userVars
  <1>9. "pDev" \in held'[d] /\ mutex' = mutex
    BY <1>3 DEF Owned, ProbeFrom, userVars
  <1>10. Stage(d)'
    BY <1>5 DEF Stage
  <1> QED
    BY <1>3, <1>4, <1>7, <1>8, <1>9, <1>10, ScriptStep DEF Insert

LEMMA NodeCreateStep ==
  ASSUME CoreInv, NEW d \in Devices, NodeCreate(d)
  PROVE  CoreInv'
  <1>1. Types /\ Stage(d)
    BY DEF CoreInv, StageInv
  <1>2. PICK k \in {4, 5} : Probing(d, k) /\ Step(d) = ProbeScript[k]
    BY <1>1, StageOf, ProbeTable DEF NodeCreate, Kinds
  <1>3. /\ proc[d] = "probe" /\ script[d] = Rest(ProbeScript, k) /\ Unarmed(d)
        /\ \A r \in Owned : r \in held[d] <=> k > ProbeFrom[r]
        /\ held \in [Devices -> SUBSET Owned]
        /\ UNCHANGED <<excused, list, minor, contested, msixVars, powerVars, userVars>>
    BY <1>1, <1>2 DEF Types, Probing, NodeCreate
  <1>4. Step(d) \in Kinds /\ Step(d) = IF k = 4 THEN "char" ELSE "feature"
    BY <1>2, ProbeTable DEF Kinds
  <1>5. /\ held' = [held EXCEPT ![d] = @ \cup {Step(d)}]
        /\ cdevs' = [cdevs EXCEPT ![<<Step(d), minor[d]>>] = <<d>> \o @]
        /\ DeviceCreate(d, <<Step(d), minor[d]>>)
    BY DEF NodeCreate
  <1>6. /\ held'[d] = held[d] \cup {Step(d)} /\ held' \in [Devices -> SUBSET Owned]
        /\ \A e \in Devices \ {d} : held'[e] = held[e]
    BY <1>3, <1>4, <1>5 DEF Owned
  <1>7. \A r \in Owned : r \in held'[d] <=> k + 1 > ProbeFrom[r]
    BY <1>3, <1>4, <1>6 DEF Owned, ProbeFrom
  <1>8. Unarmed(d)'
    BY <1>3 DEF Unarmed, msixVars
  <1>9. <<Step(d), minor[d]>> \in Kinds \X Minors
    BY <1>1, <1>4 DEF Types, Entries
  <1>10. /\ Moves(d) /\ Stage(d)' /\ proc'[d] \in {"probe", "undo"}
         /\ nodes' \subseteq Kinds \X Minors
    <2>1. CASE nodes' = nodes \cup {<<Step(d), minor[d]>>} /\ Advance(d)
      <3>1. Moves(d) /\ script'[d] = Rest(ProbeScript, k + 1) /\ proc'[d] = "probe"
        BY <1>1, <1>3, <2>1, SkipFacts, ProbeTable DEF Advance
      <3>2. Probing(d, k + 1)'
        BY <1>7, <1>8, <3>1 DEF Probing
      <3>3. k + 1 \in 1..8
        OBVIOUS
      <3>4. Stage(d)'
        BY <3>2, <3>3 DEF Stage
      <3> QED
        BY <1>1, <1>9, <2>1, <3>1, <3>4 DEF Types
    <2>2. CASE UNCHANGED nodes /\ Fail(d, Step(d))
      <3>1. Moves(d) /\ proc'[d] = "undo" /\ script'[d] = Rest(UndoScript, 2)
        BY <1>1, <1>3, <1>4, <2>2, FailFacts, Labels
      <3>2. \A r \in held'[d] : 2 <= UndoBy[r]
        BY <1>6, <1>7 DEF Owned, ProbeFrom, UndoBy
      <3>3. Undoing(d, 2)'
        BY <3>1, <3>2 DEF Undoing
      <3> QED
        BY <1>1, <2>2, <3>1, <3>3 DEF Stage, Types
    <2> QED
      BY <1>5, <2>1, <2>2 DEF DeviceCreate
  <1>11. Alone(d)
    BY <1>3, <1>6, <1>10 DEF Alone, Alike, Moves, msixVars, powerVars, userVars
  <1>12. cdevs' \in [Kinds \X Minors -> Seq(Entries)]
    <2>1. cdevs \in [Kinds \X Minors -> Seq(Entries)]
      BY <1>1 DEF Types
    <2>2. <<d>> \in Seq(Entries)
      BY DEF Entries
    <2>3. <<d>> \o cdevs[<<Step(d), minor[d]>>] \in Seq(Entries)
      BY <1>9, <2>1, <2>2, ConcatProperties
    <2> QED
      BY <1>5, <2>1, <2>3
  <1>13. Types'
    BY <1>1, <1>3, <1>6, <1>10, <1>12 DEF Types, Moves, Activities, msixVars, powerVars, userVars
  <1>14. "pDev" \in held'[d] /\ mutex' = mutex
    BY <1>7, <1>3 DEF Owned, ProbeFrom, userVars
  <1>15. Step(d) # "none"
    BY <1>4
  <1> QED
    BY <1>3, <1>10, <1>11, <1>13, <1>14, <1>15, ScriptStep

(* Devices that hold everything, one of them resuming or probing.          *)
LEMMA Whole ==
  ASSUME NEW d \in Devices, held[d] \in SUBSET Owned
  PROVE  /\ \A k \in {7, 8} : Probing(d, k) => held[d] = Owned
         /\ held[d] = Owned => \A r \in Owned : (r \in held[d] <=> 7 > ProbeFrom[r])
                                             /\ (r \in held[d] <=> 8 > ProbeFrom[r])
         /\ \A r \in held[d] : 1 <= UndoBy[r]
         /\ "pDev" \in Owned
  BY DEF Probing, Owned, ProbeFrom, UndoBy

LEMMA FirmwareStep ==
  ASSUME CoreInv, NEW d \in Devices, Firmware(d)
  PROVE  CoreInv'
  <1>1. Types /\ Stage(d)
    BY DEF CoreInv, StageInv
  <1>2. held \in [Devices -> SUBSET Owned] /\ power \in [Devices -> {"on", "sleep"}]
    BY <1>1 DEF Types
  <1>3. Probing(d, 8) \/ Resuming(d, 8)
    BY <1>1, StageOf DEF Firmware
  <1>4. /\ proc[d] \in {"probe", "resume"} /\ script[d] = Rest(ProbeScript, 8)
        /\ held[d] = Owned /\ Armed(d)
    BY <1>2, <1>3, Whole DEF Probing, Resuming
  <1>5. UNCHANGED <<held, excused, nameVars, msixVars, phase, pending, userVars>>
    BY DEF Firmware
  <1>6. Armed(d)'
    BY <1>4, <1>5 DEF Armed, msixVars
  <1>7. /\ Moves(d) /\ Stage(d)' /\ proc'[d] \in {"bound", "undo"}
        /\ proc[d] = "resume" => Present(d)'
        /\ power' \in [Devices -> {"on", "sleep"}]
        /\ \A e \in Devices \ {d} : power'[e] = power[e]
    <2>1. CASE Advance(d) /\ power' = [power EXCEPT ![d] = "on"]
      <3>1. Moves(d) /\ script'[d] = <<>> /\ proc'[d] = "bound"
        BY <1>1, <1>4, <2>1, SkipFacts, ProbeTable DEF Advance
      <3>2. Present(d)'
        BY <1>4, <1>5, <1>6, <3>1 DEF Present
      <3>3. /\ power' \in [Devices -> {"on", "sleep"}]
            /\ \A e \in Devices \ {d} : power'[e] = power[e]
        BY <1>2, <2>1
      <3> QED
        BY <3>1, <3>2, <3>3 DEF Stage
    <2>2. CASE Fail(d, "firmware") /\ UNCHANGED power
      <3>1. CASE proc[d] = "resume"
        <4>1. script[d] \in Scripts
          BY <1>4, RestFacts, ProbeTable
        <4>2. Moves(d) /\ script'[d] = <<>> /\ proc'[d] = "bound"
          BY <1>1, <2>2, <3>1, <4>1, FailFacts
        <4>3. Present(d)'
          BY <1>4, <1>5, <1>6, <4>2 DEF Present
        <4> QED
          BY <1>2, <2>2, <4>2, <4>3 DEF Stage
      <3>2. CASE proc[d] # "resume"
        <4>1. Moves(d) /\ proc'[d] = "undo" /\ script'[d] = Rest(UndoScript, 1)
          BY <1>1, <2>2, <3>2, FailFacts, Labels
        <4>2. \A r \in held'[d] : 1 <= UndoBy[r]
          BY <1>2, <1>5, Whole
        <4>3. Undoing(d, 1)'
          BY <4>1, <4>2 DEF Undoing
        <4> QED
          BY <1>2, <2>2, <3>2, <4>1, <4>3 DEF Stage
      <3> QED
        BY <3>1, <3>2
    <2> QED
      BY <2>1, <2>2 DEF Firmware
  <1>8. Alone(d)
    BY <1>5, <1>7 DEF Alone, Alike, Moves, msixVars, userVars
  <1>9. Types'
    BY <1>1, <1>5, <1>7 DEF Types, Moves, Activities, nameVars, msixVars, userVars
  <1>10. "pDev" \in held'[d] /\ mutex' = mutex
    BY <1>2, <1>4, <1>5, Whole DEF userVars
  <1>11. Step(d) # "none"
    BY DEF Firmware
  <1> QED
    BY <1>7, <1>8, <1>9, <1>10, <1>11, ScriptStep

LEMMA MsixStep ==
  ASSUME CoreInv, NEW d \in Devices, Msix(d)
  PROVE  CoreInv'
  <1>1. Types /\ Stage(d)
    BY DEF CoreInv, StageInv
  <1>2. /\ held \in [Devices -> SUBSET Owned] /\ vectors \in [Devices -> 0..Vectors]
        /\ registered \in [Devices -> 0..Vectors]
    BY <1>1 DEF Types
  <1>3. Probing(d, 7) \/ Resuming(d, 7)
    BY <1>1, StageOf DEF Msix
  <1>4. /\ proc[d] \in {"probe", "resume"} /\ script[d] = Rest(ProbeScript, 7)
        /\ held[d] = Owned /\ (init_done[d] => Armed(d))
        /\ proc[d] = "probe" => Unarmed(d)
        /\ proc[d] = "resume" => power[d] = "sleep"
    BY <1>2, <1>3, Whole DEF Probing, Resuming, Unarmed
  <1>5. UNCHANGED <<held, excused, nameVars, registered, init_done, powerVars, userVars>>
    BY DEF Msix
  <1>6. \A r \in held'[d] : 1 <= UndoBy[r]
    BY <1>2, <1>5, Whole
  <1>7. \A r \in Owned : r \in held'[d] <=> 8 > ProbeFrom[r]
    BY <1>2, <1>4, <1>5, Whole
  <1>8. script[d] \in Scripts
    BY <1>4, RestFacts, ProbeTable
  <1>9. ~init_done[d] /\ Fail(d, "msix") =>
          Moves(d) /\ Stage(d)' /\ proc'[d] \in {"bound", "undo"} /\ (proc[d] = "resume" => Present(d)')
    <2> SUFFICES ASSUME ~init_done[d], Fail(d, "msix")
                 PROVE  /\ Moves(d) /\ Stage(d)' /\ proc'[d] \in {"bound", "undo"}
                        /\ proc[d] = "resume" => Present(d)'
      OBVIOUS
    <2>1. CASE proc[d] = "resume"
      <3>1. Moves(d) /\ script'[d] = <<>> /\ proc'[d] = "bound"
        BY <1>1, <1>8, <2>1, FailFacts
      <3>2. Present(d)'
        BY <1>4, <1>5, <2>1, <3>1 DEF Present, powerVars
      <3> QED
        BY <3>1, <3>2 DEF Stage
    <2>2. CASE proc[d] # "resume"
      <3>1. Moves(d) /\ proc'[d] = "undo" /\ script'[d] = Rest(UndoScript, 1)
        BY <1>1, <2>2, FailFacts, Labels
      <3>2. Undoing(d, 1)'
        BY <1>6, <3>1 DEF Undoing
      <3> QED
        BY <2>2, <3>1, <3>2 DEF Stage
    <2> QED
      BY <2>1, <2>2
  <1>10. /\ Moves(d) /\ Stage(d)' /\ proc'[d] \in {"probe", "resume", "bound", "undo"}
         /\ proc[d] = "resume" => Present(d)' \/ proc'[d] = "resume"
         /\ vectors' \in [Devices -> 0..Vectors]
         /\ \A e \in Devices \ {d} : vectors'[e] = vectors[e]
    <2>1. CASE /\ init_done[d]
               /\ Advance(d)
               /\ UNCHANGED vectors
      <3>1. Moves(d) /\ script'[d] = Rest(ProbeScript, 8) /\ proc'[d] = proc[d]
        BY <1>1, <1>4, <2>1, SkipFacts, ProbeTable DEF Advance
      <3>2. proc[d] = "resume"
        BY <1>4, <2>1 DEF Unarmed
      <3>3. Armed(d)'
        BY <1>4, <1>5, <2>1 DEF Armed
      <3>4. Resuming(d, 8)'
        BY <1>4, <1>5, <3>1, <3>2, <3>3 DEF Resuming, powerVars
      <3> QED
        BY <1>2, <2>1, <3>1, <3>2, <3>4 DEF Stage
    <2>2. CASE /\ ~init_done[d]
               /\ \E n \in IF vectors[d] = 0 THEN {1, Vectors} ELSE {1} :
                    vectors' = [vectors EXCEPT ![d] = n]
               /\ IF registered[d] = 0
                  THEN script' = [script EXCEPT ![d] = <<"request">> \o Tail(@)] /\ UNCHANGED proc
                  ELSE Fail(d, "msix")
      <3>1. Vectors \in Nat /\ Vectors > 1
        BY LifecycleAssumption
      <3>2. PICK n \in 1..Vectors : vectors' = [vectors EXCEPT ![d] = n]
        <4>1. (IF vectors[d] = 0 THEN {1, Vectors} ELSE {1}) \subseteq 1..Vectors
          BY <3>1
        <4> QED
          BY <2>2, <4>1
      <3>3. /\ vectors' \in [Devices -> 0..Vectors] /\ vectors'[d] = n
            /\ \A e \in Devices \ {d} : vectors'[e] = vectors[e]
        BY <1>2, <3>1, <3>2
      <3>4. CASE registered[d] = 0
        <4>1. script' = [script EXCEPT ![d] = RequestScript] /\ proc' = proc
          BY <1>4, <2>2, <3>4, RequestRest
        <4>2. script = [e \in Devices |-> script[e]] /\ proc \in [Devices -> Activities]
          BY <1>1 DEF Types, Activities
        <4>3. Moves(d) /\ script'[d] = RequestScript
          BY <4>1, <4>2 DEF Moves
        <4>4. registered'[d] < vectors'[d]
          BY <1>5, <3>2, <3>3, <3>4
        <4>5. Requesting(d)'
          BY <1>4, <1>5, <2>2, <4>1, <4>3, <4>4 DEF Requesting, powerVars
        <4> QED
          BY <1>4, <3>3, <4>1, <4>3, <4>5 DEF Stage
      <3>5. CASE registered[d] # 0
        BY <1>9, <2>2, <3>3, <3>5
      <3> QED
        BY <3>4, <3>5
    <2>3. CASE ~init_done[d] /\ Fail(d, "msix") /\ UNCHANGED vectors
      BY <1>2, <1>9, <2>3
    <2> QED
      BY <2>1, <2>2, <2>3 DEF Msix
  <1>11. Alone(d)
    BY <1>5, <1>10 DEF Alone, Alike, Moves, powerVars, userVars
  <1>12. Types'
    BY <1>1, <1>5, <1>10 DEF Types, Moves, Activities, nameVars, powerVars, userVars
  <1>13. "pDev" \in held'[d] /\ mutex' = mutex
    BY <1>2, <1>4, <1>5, Whole DEF userVars
  <1>14. Step(d) # "none"
    BY DEF Msix
  <1> QED
    BY <1>10, <1>11, <1>12, <1>13, <1>14, ScriptStep

LEMMA RequestStep ==
  ASSUME CoreInv, NEW d \in Devices, Request(d)
  PROVE  CoreInv'
  <1>1. Types /\ Stage(d)
    BY DEF CoreInv, StageInv
  <1>2. /\ held \in [Devices -> SUBSET Owned] /\ vectors \in [Devices -> 0..Vectors]
        /\ registered \in [Devices -> 0..Vectors] /\ init_done \in [Devices -> BOOLEAN]
        /\ script = [e \in Devices |-> script[e]] /\ proc \in [Devices -> Activities]
    BY <1>1 DEF Types, Activities
  <1>3. Requesting(d) /\ Step(d) = "request"
    BY <1>1, StageOf DEF Request
  <1>4. /\ proc[d] \in {"probe", "resume"} /\ script[d] = RequestScript
        /\ held[d] = Owned /\ ~init_done[d] /\ registered[d] < vectors[d]
        /\ proc[d] = "resume" => power[d] = "sleep"
    BY <1>3 DEF Requesting
  <1>5. UNCHANGED <<held, excused, nameVars, vectors, powerVars, userVars>>
    BY DEF Request
  <1>6. Vectors \in Nat
    BY LifecycleAssumption
  <1>7. /\ Moves(d) /\ Stage(d)' /\ proc'[d] \in {"probe", "resume", "bound", "undo"}
        /\ proc[d] = "resume" => Present(d)' \/ proc'[d] = "resume"
        /\ registered' \in [Devices -> 0..Vectors] /\ init_done' \in [Devices -> BOOLEAN]
        /\ \A e \in Devices \ {d} : registered'[e] = registered[e] /\ init_done'[e] = init_done[e]
    <2>1. CASE Fail(d, "request") /\ UNCHANGED <<registered, init_done>>
      <3>1. CASE proc[d] = "resume"
        <4>1. script[d] \in Scripts
          BY <1>4, RequestTable
        <4>2. Moves(d) /\ script'[d] = <<>> /\ proc'[d] = "bound"
          BY <1>1, <2>1, <3>1, <4>1, FailFacts
        <4>3. Present(d)'
          BY <1>4, <1>5, <2>1, <3>1, <4>2 DEF Present, powerVars
        <4> QED
          BY <1>2, <2>1, <4>2, <4>3 DEF Stage
      <3>2. CASE proc[d] # "resume"
        <4>1. Moves(d) /\ proc'[d] = "undo" /\ script'[d] = Rest(UndoScript, 1)
          BY <1>1, <2>1, <3>2, FailFacts, Labels
        <4>2. \A r \in held'[d] : 1 <= UndoBy[r]
          BY <1>2, <1>5, Whole
        <4>3. Undoing(d, 1)'
          BY <4>1, <4>2 DEF Undoing
        <4> QED
          BY <1>2, <2>1, <3>2, <4>1, <4>3 DEF Stage
      <3> QED
        BY <3>1, <3>2
    <2>2. CASE LET last == registered[d] + 1 = vectors[d] IN
                 /\ registered' = [registered EXCEPT ![d] = @ + 1]
                 /\ init_done' = [init_done EXCEPT ![d] = last]
                 /\ IF last THEN Advance(d) ELSE UNCHANGED <<proc, script>>
      <3> DEFINE last == registered[d] + 1 = vectors[d]
      <3>1. registered[d] + 1 \in 0..Vectors /\ last \in BOOLEAN
        BY <1>2, <1>4, <1>6
      <3>2. /\ registered' \in [Devices -> 0..Vectors] /\ registered'[d] = registered[d] + 1
            /\ \A e \in Devices \ {d} : registered'[e] = registered[e]
        BY <1>2, <2>2, <3>1
      <3>3. /\ init_done' \in [Devices -> BOOLEAN] /\ init_done'[d] = last
            /\ \A e \in Devices \ {d} : init_done'[e] = init_done[e]
        BY <1>2, <2>2, <3>1, Zenon
      <3>4. CASE last
        <4>1. /\ Moves(d) /\ script'[d] = Rest(ProbeScript, 8) /\ proc'[d] = proc[d]
          <5>1. Rest(RequestScript, 1) = RequestScript
            BY RequestTable, RestFull
          <5> QED
            BY <1>1, <1>4, <2>2, <3>4, <5>1, SkipFacts, RequestTable, RequestRest DEF Advance
        <4>2. Armed(d)'
          BY <1>2, <1>5, <3>2, <3>3, <3>4 DEF Armed
        <4>3. \A r \in Owned : r \in held'[d] <=> 8 > ProbeFrom[r]
          BY <1>2, <1>4, <1>5, Whole
        <4>4. proc[d] = "probe" => Probing(d, 8)'
          BY <4>1, <4>2, <4>3 DEF Probing
        <4>5. proc[d] = "resume" => Resuming(d, 8)'
          BY <1>4, <1>5, <4>1, <4>2 DEF Resuming, powerVars
        <4> QED
          BY <1>4, <3>2, <3>3, <4>1, <4>4, <4>5 DEF Stage
      <3>5. CASE ~last
        <4>1. proc' = proc /\ script' = script
          BY <2>2, <3>5
        <4>2. registered'[d] < vectors'[d]
          BY <1>2, <1>4, <1>5, <1>6, <3>2, <3>5
        <4>3. ~init_done'[d]
          BY <3>3, <3>5
        <4>4. Requesting(d)'
          BY <1>4, <1>5, <4>1, <4>2, <4>3 DEF Requesting, powerVars
        <4>5. Moves(d)
          BY <1>2, <4>1 DEF Moves
        <4> QED
          BY <1>4, <3>2, <3>3, <4>1, <4>4, <4>5 DEF Stage
      <3> QED
        BY <3>4, <3>5
    <2> QED
      BY <2>1, <2>2 DEF Request
  <1>8. Alone(d)
    BY <1>5, <1>7 DEF Alone, Alike, Moves, powerVars, userVars
  <1>9. Types'
    BY <1>1, <1>5, <1>7 DEF Types, Moves, Activities, nameVars, powerVars, userVars
  <1>10. "pDev" \in held'[d] /\ mutex' = mutex
    BY <1>2, <1>4, <1>5, Whole DEF userVars
  <1> QED
    BY <1>3, <1>7, <1>8, <1>9, <1>10, ScriptStep

-----------------------------------------------------------------------------
(* Undoing and removing.                                                   *)

(* What a step of an undo or a removal gives back is what it stands for in *)
(* the table of its script.                                                *)
LEMMA Given ==
  /\ \A r \in Owned : UndoBy[r] \in 1..9 /\ RemoveBy[r] \in 2..13
  /\ \A r \in Owned : UndoScript[UndoBy[r]] \in DOMAIN Releases =>
                        Releases[UndoScript[UndoBy[r]]] = r
  /\ \A r \in Owned : RemoveScript[RemoveBy[r]] \in DOMAIN Releases =>
                        Releases[RemoveScript[RemoveBy[r]]] = r
  /\ \A k \in 1..9 : \A r \in Owned :
       UndoScript[k] \in DOMAIN Releases /\ Releases[UndoScript[k]] = r => UndoBy[r] = k \/ r = "pDev"
  /\ \A k \in 1..13 : \A r \in Owned :
       RemoveScript[k] \in DOMAIN Releases /\ Releases[RemoveScript[k]] = r => RemoveBy[r] = k
  /\ UndoScript[9] \notin DOMAIN Releases
  /\ \A k \in {1, 3, 4, 5, 6, 12, 13} : RemoveScript[k] \notin DOMAIN Releases
  /\ \A k \in 1..8 : ProbeScript[k] \notin DOMAIN Releases
  /\ RequestScript[1] \notin DOMAIN Releases
  <1>1. DOMAIN Releases = {"fsDeinit", "fifoFree", "clear", "unmap", "freePages", "disable"}
    BY DEF Releases
  <1>2. /\ Releases["fsDeinit"] = "fs" /\ Releases["fifoFree"] = "fifo" /\ Releases["clear"] = "pDev"
        /\ Releases["unmap"] = "regions" /\ Releases["freePages"] = "pages"
        /\ Releases["disable"] = "enable"
    BY DEF Releases
  <1>3. \A r \in Owned : UndoBy[r] \in 1..9 /\ RemoveBy[r] \in 2..13
    BY DEF Owned, UndoBy, RemoveBy
  <1>4. \A r \in Owned : UndoScript[UndoBy[r]] \in DOMAIN Releases =>
                           Releases[UndoScript[UndoBy[r]]] = r
    BY <1>1, <1>2, UndoTable DEF Owned, UndoBy
  <1>5. \A r \in Owned : RemoveScript[RemoveBy[r]] \in DOMAIN Releases =>
                           Releases[RemoveScript[RemoveBy[r]]] = r
    BY <1>1, <1>2, RemoveTable DEF Owned, RemoveBy
  <1>6. \A k \in 1..9 : \A r \in Owned :
          UndoScript[k] \in DOMAIN Releases /\ Releases[UndoScript[k]] = r => UndoBy[r] = k \/ r = "pDev"
    BY <1>1, <1>2, UndoTable DEF Owned, UndoBy
  <1>7. \A k \in 1..13 : \A r \in Owned :
          RemoveScript[k] \in DOMAIN Releases /\ Releases[RemoveScript[k]] = r => RemoveBy[r] = k
    BY <1>1, <1>2, RemoveTable DEF Owned, RemoveBy
  <1>8. UndoScript[9] \notin DOMAIN Releases
    BY <1>1, UndoTable
  <1>9. \A k \in {1, 3, 4, 5, 6, 12, 13} : RemoveScript[k] \notin DOMAIN Releases
    BY <1>1, RemoveTable
  <1>10. \A k \in 1..8 : ProbeScript[k] \notin DOMAIN Releases
    BY <1>1, ProbeTable
  <1>11. RequestScript[1] \notin DOMAIN Releases
    BY <1>1, RequestTable
  <1> QED
    BY <1>3, <1>4, <1>5, <1>6, <1>7, <1>8, <1>9, <1>10, <1>11

(* The length and the items of what is left of a script.                   *)
LEMMA LeftOver ==
  ASSUME NEW d \in Devices
  PROVE  \A s \in Scripts : \A k \in 1..Size(s) : script[d] = Rest(s, k) =>
           /\ DOMAIN script[d] = 1..(Size(s) + 1 - k)
           /\ \A i \in 1..(Size(s) + 1 - k) : script[d][i] = s[k + i - 1]
  <1> SUFFICES ASSUME NEW s \in Scripts, NEW k \in 1..Size(s), script[d] = Rest(s, k)
               PROVE  /\ DOMAIN script[d] = 1..(Size(s) + 1 - k)
                      /\ \A i \in 1..(Size(s) + 1 - k) : script[d][i] = s[k + i - 1]
    OBVIOUS
  <1>1. script[d] \in Seq(Statements) /\ Len(script[d]) = Size(s) + 1 - k
    BY RestFacts DEF Scripts, Size
  <1>2. DOMAIN script[d] = 1..(Size(s) + 1 - k)
    BY <1>1, LenProperties
  <1> QED
    BY <1>2, RestItem

LEMMA Released ==
  ASSUME Types, NEW d \in Devices, Release(d)
  PROVE  \E n \in DOMAIN script[d] :
           /\ Skip(d, n)
           /\ held' \in [Devices -> SUBSET Owned]
           /\ \A e \in Devices \ {d} : held'[e] = held[e]
           /\ script[d] # <<>>
           /\ \A s \in Scripts : \A k \in 1..Size(s) : script[d] = Rest(s, k) =>
                /\ n \in 1..(Size(s) + 1 - k)
                /\ \A j \in k..(k + n - 1) : s[j] \in DOMAIN Releases
                /\ held'[d] = {r \in held[d] : ~\E j \in k..(k + n - 1) : Releases[s[j]] = r}
  <1>1. PICK n \in DOMAIN script[d] :
          /\ \A i \in 1..n : script[d][i] \in DOMAIN Releases
          /\ held' = [held EXCEPT ![d] = @ \ {Releases[script[d][i]] : i \in 1..n}]
          /\ Skip(d, n)
    BY DEF Release
  <1>2. held \in [Devices -> SUBSET Owned]
    BY DEF Types
  <1>3. /\ held' \in [Devices -> SUBSET Owned]
        /\ \A e \in Devices \ {d} : held'[e] = held[e]
        /\ held'[d] = held[d] \ {Releases[script[d][i]] : i \in 1..n}
    BY <1>1, <1>2
  <1>4. script[d] # <<>>
    BY <1>1
  <1>5. ASSUME NEW s \in Scripts, NEW k \in 1..Size(s), script[d] = Rest(s, k)
        PROVE  /\ n \in 1..(Size(s) + 1 - k)
               /\ \A j \in k..(k + n - 1) : s[j] \in DOMAIN Releases
               /\ held'[d] = {r \in held[d] : ~\E j \in k..(k + n - 1) : Releases[s[j]] = r}
    <2>1. /\ DOMAIN script[d] = 1..(Size(s) + 1 - k)
          /\ \A i \in 1..(Size(s) + 1 - k) : script[d][i] = s[k + i - 1]
      BY <1>5, LeftOver
    <2>2. Size(s) \in Nat
      BY RestFacts
    <2>3. n \in 1..(Size(s) + 1 - k)
      BY <1>1, <2>1
    <2>4. \A j \in k..(k + n - 1) : j - k + 1 \in 1..n /\ script[d][j - k + 1] = s[j]
      <3> SUFFICES ASSUME NEW j \in k..(k + n - 1)
                   PROVE  j - k + 1 \in 1..n /\ script[d][j - k + 1] = s[j]
        OBVIOUS
      <3>1. /\ j - k + 1 \in 1..n /\ j - k + 1 \in 1..(Size(s) + 1 - k)
            /\ k + (j - k + 1) - 1 = j
        BY <2>2, <2>3
      <3> QED
        BY <2>1, <3>1
    <2>5. \A i \in 1..n : k + i - 1 \in k..(k + n - 1) /\ script[d][i] = s[k + i - 1]
      BY <2>1, <2>2, <2>3
    <2>6. \A j \in k..(k + n - 1) : s[j] \in DOMAIN Releases
      BY <1>1, <2>4
    <2>7. {Releases[script[d][i]] : i \in 1..n} = {Releases[s[j]] : j \in k..(k + n - 1)}
      BY <2>4, <2>5
    <2> QED
      BY <1>3, <2>3, <2>6, <2>7
  <1> QED
    BY <1>1, <1>3, <1>4, <1>5

LEMMA ReleaseStep ==
  ASSUME CoreInv, NEW d \in Devices, Release(d)
  PROVE  CoreInv'
  <1>1. Types /\ Stage(d) /\ held \in [Devices -> SUBSET Owned]
    BY DEF CoreInv, StageInv, Types
  <1>2. PICK n \in DOMAIN script[d] :
           /\ Skip(d, n)
           /\ held' \in [Devices -> SUBSET Owned]
           /\ \A e \in Devices \ {d} : held'[e] = held[e]
           /\ script[d] # <<>>
           /\ \A s \in Scripts : \A k \in 1..Size(s) : script[d] = Rest(s, k) =>
                /\ n \in 1..(Size(s) + 1 - k)
                /\ \A j \in k..(k + n - 1) : s[j] \in DOMAIN Releases
                /\ held'[d] = {r \in held[d] : ~\E j \in k..(k + n - 1) : Releases[s[j]] = r}
    BY <1>1, Released
  <1>3. UNCHANGED <<excused, nameVars, msixVars, powerVars, userVars>>
    BY DEF Release
  <1>4. ~Absent(d) /\ ~Present(d) /\ ~Hollow(d)
    BY <1>2 DEF Absent, Present, Hollow
  <1>5. ~Requesting(d)
    <2> SUFFICES ASSUME script[d] = RequestScript PROVE FALSE
      BY DEF Requesting
    <2>1. script[d] = Rest(RequestScript, 1)
      BY RequestTable, RestFull
    <2>2. n \in 1..2 /\ \A j \in 1..(1 + n - 1) : RequestScript[j] \in DOMAIN Releases
      BY <1>2, <2>1, RequestTable
    <2> QED
      BY <2>2, Given
  <1>6. \A k \in 1..8 : script[d] # Rest(ProbeScript, k)
    <2> SUFFICES ASSUME NEW k \in 1..8, script[d] = Rest(ProbeScript, k) PROVE FALSE
      OBVIOUS
    <2>1. n \in 1..(9 - k) /\ \A j \in k..(k + n - 1) : ProbeScript[j] \in DOMAIN Releases
      BY <1>2, ProbeTable
    <2>2. k \in k..(k + n - 1)
      BY <2>1
    <2> QED
      BY <2>1, <2>2, Given
  <1>7. ASSUME NEW k \in 1..9, script[d] = Rest(UndoScript, k)
        PROVE  /\ n \in Nat /\ k + n \in (k + 1)..9
               /\ Moves(d) /\ script'[d] = Rest(UndoScript, k + n) /\ proc'[d] = proc[d]
               /\ held'[d] \subseteq held[d]
               /\ \A r \in held'[d] : k <= UndoBy[r] => k + n <= UndoBy[r]
    <2>1. /\ n \in 1..(10 - k) /\ \A j \in k..(k + n - 1) : UndoScript[j] \in DOMAIN Releases
          /\ held'[d] = {r \in held[d] : ~\E j \in k..(k + n - 1) : Releases[UndoScript[j]] = r}
      BY <1>2, <1>7, UndoTable
    <2>2. ~(9 \in k..(k + n - 1))
      BY <2>1, Given
    <2>3. k + n \in (k + 1)..9 /\ n \in Nat
      BY <2>1, <2>2
    <2>4. Moves(d) /\ script'[d] = Rest(UndoScript, k + n) /\ proc'[d] = proc[d]
      BY <1>1, <1>2, <1>7, <2>1, <2>3, SkipFacts, UndoTable
    <2>5. ASSUME NEW r \in held'[d], k <= UndoBy[r]
          PROVE  k + n <= UndoBy[r]
      <3>1. r \in Owned /\ UndoBy[r] \in 1..9
        BY <1>2, Given
      <3>2. UndoBy[r] \notin k..(k + n - 1)
        BY <2>1, <3>1, Given
      <3> QED
        BY <2>3, <2>5, <3>1, <3>2
    <2> QED
      BY <2>1, <2>3, <2>4, <2>5
  <1>8. ASSUME NEW k \in 1..13, script[d] = Rest(RemoveScript, k)
        PROVE  /\ n \in Nat /\ k + n \in (k + 1)..12 /\ (k = 2 \/ k \in 7..11) /\ (k = 2 => n = 1)
               /\ Moves(d) /\ script'[d] = Rest(RemoveScript, k + n) /\ proc'[d] = proc[d]
               /\ held'[d] \subseteq held[d]
               /\ \A r \in Owned : r \in held'[d] => r \in held[d] /\ RemoveBy[r] \notin k..(k + n - 1)
               /\ \A r \in held[d] : RemoveBy[r] \notin k..(k + n - 1) => r \in held'[d]
    <2>1. /\ n \in 1..(14 - k) /\ \A j \in k..(k + n - 1) : RemoveScript[j] \in DOMAIN Releases
          /\ held'[d] = {r \in held[d] : ~\E j \in k..(k + n - 1) : Releases[RemoveScript[j]] = r}
      <3>1. RemoveScript \in Scripts /\ Size(RemoveScript) = 13 /\ k \in 1..Size(RemoveScript)
        BY RemoveTable
      <3>2. /\ n \in 1..(Size(RemoveScript) + 1 - k)
            /\ \A j \in k..(k + n - 1) : RemoveScript[j] \in DOMAIN Releases
            /\ held'[d] = {r \in held[d] : ~\E j \in k..(k + n - 1) : Releases[RemoveScript[j]] = r}
        BY <1>2, <1>8, <3>1
      <3> QED
        BY <3>1, <3>2
    <2>2. \A j \in {1, 3, 4, 5, 6, 12, 13} : j \notin k..(k + n - 1)
      BY <2>1, Given
    <2>3. k + n \in (k + 1)..12 /\ n \in Nat /\ (k = 2 \/ k \in 7..11) /\ (k = 2 => n = 1)
      BY <2>1, <2>2
    <2>4. Moves(d) /\ script'[d] = Rest(RemoveScript, k + n) /\ proc'[d] = proc[d]
      <3>1. /\ RemoveScript \in Scripts /\ Size(RemoveScript) = 13 /\ k \in 1..Size(RemoveScript)
            /\ n \in 1..(Size(RemoveScript) + 1 - k) /\ k + n <= Size(RemoveScript)
        BY <2>1, <2>3, RemoveTable
      <3>2. Types /\ script[d] = Rest(RemoveScript, k) /\ Skip(d, n)
        BY <1>1, <1>2, <1>8
      <3>3. /\ Moves(d) /\ script'[d] = Rest(RemoveScript, k + n)
            /\ k + n <= Size(RemoveScript) => proc'[d] = proc[d]
        BY <3>1, <3>2, SkipFacts
      <3> QED
        BY <3>1, <3>3
    <2>5. ASSUME NEW r \in held'[d]
          PROVE  r \in held[d] /\ RemoveBy[r] \notin k..(k + n - 1)
      <3>1. r \in Owned
        BY <1>2
      <3> QED
        BY <2>1, <3>1, Given
    <2>6. ASSUME NEW r \in held[d], RemoveBy[r] \notin k..(k + n - 1)
          PROVE  r \in held'[d]
      <3>1. r \in Owned
        BY <1>1
      <3>2. \A j \in k..(k + n - 1) : j \in 1..13
        BY <2>3
      <3>3. \A j \in k..(k + n - 1) : Releases[RemoveScript[j]] # r
        BY <2>1, <2>6, <3>1, <3>2, Given
      <3> QED
        BY <2>1, <3>3
    <2> QED
      BY <2>1, <2>3, <2>4, <2>5, <2>6
  <1>9. /\ Moves(d) /\ Stage(d)' /\ proc'[d] = proc[d] /\ proc[d] \notin {"none", "resume"}
        /\ proc[d] = "remove" => \E k \in 2..13 : Removing(d, k)
        /\ proc[d] = "probe" => \E k \in 6..9 : Hollowing(d, k)
    <2>1. ASSUME NEW k \in 6..9, Hollowing(d, k)
          PROVE  Moves(d) /\ Stage(d)' /\ proc'[d] = proc[d] /\ proc[d] = "probe"
      <3>1. /\ n \in Nat /\ k + n \in (k + 1)..9 /\ Moves(d) /\ script'[d] = Rest(UndoScript, k + n)
            /\ proc'[d] = proc[d] /\ held'[d] \subseteq held[d]
            /\ \A r \in held'[d] : k <= UndoBy[r] => k + n <= UndoBy[r]
        BY <1>7, <2>1 DEF Hollowing
      <3>2. k + n \in 6..9
        BY <3>1
      <3>3. Hollowing(d, k + n)'
        BY <1>3, <2>1, <3>1 DEF Hollowing, Unarmed, msixVars
      <3> QED
        BY <2>1, <3>1, <3>2, <3>3 DEF Stage, Hollowing
    <2>2. ASSUME NEW k \in 1..9, Undoing(d, k)
          PROVE  Moves(d) /\ Stage(d)' /\ proc'[d] = proc[d] /\ proc[d] = "undo"
      <3>1. /\ n \in Nat /\ k + n \in (k + 1)..9 /\ Moves(d) /\ script'[d] = Rest(UndoScript, k + n)
            /\ proc'[d] = proc[d] /\ held'[d] \subseteq held[d]
            /\ \A r \in held'[d] : k <= UndoBy[r] => k + n <= UndoBy[r]
        BY <1>7, <2>2 DEF Undoing
      <3>2. k + n \in 1..9
        BY <3>1
      <3>3. Undoing(d, k + n)'
        BY <1>3, <2>2, <3>1 DEF Undoing
      <3> QED
        BY <2>2, <3>1, <3>2, <3>3 DEF Stage, Undoing
    <2>3. ASSUME NEW k \in 1..13, Removing(d, k)
          PROVE  Moves(d) /\ Stage(d)' /\ proc'[d] = proc[d] /\ proc[d] = "remove" /\ k \in 2..13
      <3>1. /\ n \in Nat /\ k + n \in (k + 1)..12 /\ (k = 2 \/ k \in 7..11) /\ (k = 2 => n = 1)
            /\ Moves(d) /\ script'[d] = Rest(RemoveScript, k + n) /\ proc'[d] = proc[d]
            /\ held'[d] \subseteq held[d]
            /\ \A r \in Owned : r \in held'[d] => r \in held[d] /\ RemoveBy[r] \notin k..(k + n - 1)
            /\ \A r \in held[d] : RemoveBy[r] \notin k..(k + n - 1) => r \in held'[d]
        BY <1>8, <2>3 DEF Removing
      <3>2. /\ \A r \in Owned : r \in held[d] <=> k <= RemoveBy[r]
            /\ mutex[d] = d /\ proc[d] = "remove" /\ (k \in 7..12 => ~init_done[d])
        BY <2>3, <3>1 DEF Removing
      <3>3. \A r \in Owned : r \in held'[d] <=> k + n <= RemoveBy[r]
        <4> SUFFICES ASSUME NEW r \in Owned PROVE r \in held'[d] <=> k + n <= RemoveBy[r]
          OBVIOUS
        <4>1. RemoveBy[r] \in 2..13
          BY Given
        <4>2. k + n <= RemoveBy[r] <=> k <= RemoveBy[r] /\ RemoveBy[r] \notin k..(k + n - 1)
          BY <3>1, <4>1
        <4> QED
          BY <3>1, <3>2, <4>2
      <3>4. k + n \in 2..12 /\ (k + n \in 7..12 => k \in 7..12)
        BY <3>1
      <3>5. Removing(d, k + n)'
        BY <1>3, <3>1, <3>2, <3>3, <3>4 DEF Removing, msixVars, userVars
      <3>6. k + n \in 1..13 /\ k \in 2..13
        BY <3>1
      <3> QED
        BY <3>1, <3>2, <3>5, <3>6 DEF Stage
    <2>4. \A k \in 1..8 : ~Probing(d, k)
      BY <1>6 DEF Probing
    <2>5. \A k \in 7..8 : ~Resuming(d, k)
      BY <1>6 DEF Resuming
    <2> QED
      BY <1>1, <1>4, <1>5, <2>1, <2>2, <2>3, <2>4, <2>5 DEF Stage
  <1>10. Alone(d)
    BY <1>2, <1>3, <1>9 DEF Alone, Alike, Moves, msixVars, powerVars, userVars
  <1>11. Types'
    BY <1>1, <1>2, <1>3, <1>9 DEF Types, Moves, Activities, nameVars, msixVars, powerVars, userVars
  <1>12. \A u \in Users : upc[u] = "inside" /\ uref[u] = d => proc[d] \in {"undo", "bound"}
    <2> SUFFICES ASSUME NEW u \in Users, upc[u] = "inside", uref[u] = d
                 PROVE  proc[d] \in {"undo", "bound"}
      OBVIOUS
    <2>1. proc[d] # "remove" /\ proc[d] # "probe"
      BY <1>9, InsideStage
    <2> QED
      BY <1>1, <1>9, <2>1 DEF Types
  <1>13. proc[d] # "bound"
    BY <1>1, <1>4 DEF Stage, Requesting, Probing, Hollowing, Undoing, Resuming, Removing
  <1>14. Step(d) # "none"
    <2>1. Step(d) \in {UndoScript[k] : k \in 1..9} \cup {RemoveScript[k] : k \in 1..13}
      BY <1>1, <1>4, <1>5, <1>6, Steps DEF Stage, Probing, Resuming
    <2> QED
      BY <2>1, UndoTable, RemoveTable
  <1>15. mutex' = mutex
    BY <1>3 DEF userVars
  <1> QED
    BY <1>9, <1>10, <1>11, <1>12, <1>13, <1>14, <1>15, ScriptStep

(* One step on in a removal or an undo.                                    *)
LEMMA RemoveOn ==
  ASSUME CoreInv, NEW d \in Devices, NEW k \in 1..12, Removing(d, k), Advance(d)
  PROVE  /\ Moves(d) /\ script'[d] = Rest(RemoveScript, k + 1) /\ proc'[d] = "remove"
         /\ Step(d) # "none" /\ proc[d] = "remove"
         /\ \A r \in Owned : r \in held[d] <=> k <= RemoveBy[r]
         /\ \A r \in Owned : RemoveBy[r] # k => (r \in held[d] <=> k + 1 <= RemoveBy[r])
         /\ k > 1 => \A u \in Users : upc[u] = "inside" => uref[u] # d
  <1>1. /\ script[d] = Rest(RemoveScript, k) /\ proc[d] = "remove"
        /\ \A r \in Owned : r \in held[d] <=> k <= RemoveBy[r]
    BY DEF Removing
  <1>2. Moves(d) /\ script'[d] = Rest(RemoveScript, k + 1) /\ proc'[d] = "remove"
    <2>1. 1 \in 1..(Size(RemoveScript) + 1 - k) /\ k + 1 <= Size(RemoveScript)
          /\ k \in 1..Size(RemoveScript) /\ RemoveScript \in Scripts
      BY RemoveTable
    <2> QED
      BY <1>1, <2>1, SkipFacts DEF CoreInv, Advance
  <1>3. \A r \in Owned : RemoveBy[r] # k => (r \in held[d] <=> k + 1 <= RemoveBy[r])
    <2>1. \A r \in Owned : RemoveBy[r] \in 2..13
      BY Given
    <2> QED
      BY <1>1, <2>1
  <1>4. Step(d) # "none"
    BY <1>1, StepAt, RemoveTable
  <1>5. k > 1 => \A u \in Users : upc[u] = "inside" => uref[u] # d
    <2>1. k > 1 => k \in 2..13
      OBVIOUS
    <2> QED
      BY <2>1, InsideStage
  <1> QED
    BY <1>1, <1>2, <1>3, <1>4, <1>5

LEMMA UndoOn ==
  ASSUME CoreInv, NEW d \in Devices, NEW k \in 1..8, Undoing(d, k), Advance(d)
  PROVE  /\ Moves(d) /\ script'[d] = Rest(UndoScript, k + 1) /\ proc'[d] = "undo"
         /\ Step(d) # "none" /\ proc[d] = "undo"
         /\ \A r \in held[d] \ excused[d] : UndoBy[r] # k => k + 1 <= UndoBy[r]
  <1>1. /\ script[d] = Rest(UndoScript, k) /\ proc[d] = "undo"
        /\ \A r \in held[d] \ excused[d] : k <= UndoBy[r]
    BY DEF Undoing
  <1>2. Moves(d) /\ script'[d] = Rest(UndoScript, k + 1) /\ proc'[d] = "undo"
    <2>1. 1 \in 1..(Size(UndoScript) + 1 - k) /\ k + 1 <= Size(UndoScript)
          /\ k \in 1..Size(UndoScript) /\ UndoScript \in Scripts
      BY UndoTable
    <2> QED
      BY <1>1, <2>1, SkipFacts DEF CoreInv, Advance
  <1>3. \A r \in held[d] \ excused[d] : UndoBy[r] # k => k + 1 <= UndoBy[r]
    <2>1. \A r \in Owned : UndoBy[r] \in 1..9
      BY Given
    <2>2. held[d] \subseteq Owned
      BY DEF CoreInv, Types
    <2> QED
      BY <1>1, <2>1, <2>2
  <1>4. Step(d) # "none"
    BY <1>1, StepAt, UndoTable
  <1> QED
    BY <1>1, <1>2, <1>3, <1>4

LEMMA DownStep ==
  ASSUME CoreInv, NEW d \in Devices, Down(d)
  PROVE  CoreInv'
  <1>1. Types /\ Stage(d) /\ Advance(d) /\ mutex[d] = Free
        /\ mutex \in [Devices -> Users \cup Devices \cup {Free}]
    BY DEF CoreInv, StageInv, Down, Types
  <1>2. Removing(d, 1)
    BY <1>1, StageOf DEF Down
  <1>3. UNCHANGED <<held, excused, nameVars, msixVars, powerVars, upc, uref>>
    BY DEF Down
  <1>4. /\ Moves(d) /\ script'[d] = Rest(RemoveScript, 2) /\ proc'[d] = "remove"
        /\ Step(d) # "none" /\ proc[d] = "remove"
        /\ \A r \in Owned : RemoveBy[r] # 1 => (r \in held[d] <=> 2 <= RemoveBy[r])
    BY <1>1, <1>2, RemoveOn
  <1>5. \A r \in Owned : r \in held'[d] <=> 2 <= RemoveBy[r]
    BY <1>3, <1>4, Given
  <1>6. /\ mutex' \in [Devices -> Users \cup Devices \cup {Free}] /\ mutex'[d] = d
        /\ \A e \in Devices \ {d} : mutex'[e] = mutex[e]
    BY <1>1 DEF Down
  <1>7. Removing(d, 2)'
    BY <1>4, <1>5, <1>6 DEF Removing
  <1>8. Stage(d)'
    BY <1>7 DEF Stage
  <1>9. Alone(d)
    BY <1>3, <1>4, <1>6 DEF Alone, Alike, Moves, msixVars, powerVars
  <1>10. Types'
    BY <1>1, <1>3, <1>4, <1>6 DEF Types, Moves, Activities, nameVars, msixVars, powerVars
  <1>11. \A u \in Users : upc[u] = "inside" => uref[u] # d
    BY <1>1, InsideStage, LifecycleAssumption
  <1> QED
    BY <1>4, <1>8, <1>9, <1>10, <1>11, ScriptStep

LEMMA UpStep ==
  ASSUME CoreInv, NEW d \in Devices, Up(d)
  PROVE  CoreInv'
  <1>1. Types /\ Stage(d) /\ Advance(d)
        /\ mutex \in [Devices -> Users \cup Devices \cup {Free}] /\ held[d] \subseteq Owned
    BY DEF CoreInv, StageInv, Up, Types
  <1>2. Removing(d, 12)
    BY <1>1, StageOf DEF Up
  <1>3. UNCHANGED <<held, excused, nameVars, msixVars, powerVars, upc, uref>>
    BY DEF Up
  <1>4. /\ Moves(d) /\ script'[d] = Rest(RemoveScript, 13) /\ proc'[d] = "remove"
        /\ Step(d) # "none" /\ proc[d] = "remove"
        /\ \A r \in Owned : r \in held[d] <=> 12 <= RemoveBy[r]
        /\ \A u \in Users : upc[u] = "inside" => uref[u] # d
    BY <1>1, <1>2, RemoveOn
  <1>5. held'[d] = {"mem"}
    BY <1>1, <1>3, <1>4 DEF Owned, RemoveBy
  <1>6. /\ mutex' \in [Devices -> Users \cup Devices \cup {Free}]
        /\ \A e \in Devices \ {d} : mutex'[e] = mutex[e]
    BY <1>1 DEF Up
  <1>7. Removing(d, 13)'
    BY <1>4, <1>5 DEF Removing
  <1>8. Stage(d)'
    BY <1>7 DEF Stage
  <1>9. Alone(d)
    BY <1>3, <1>4, <1>6 DEF Alone, Alike, Moves, msixVars, powerVars
  <1>10. Types'
    BY <1>1, <1>3, <1>4, <1>6 DEF Types, Moves, Activities, nameVars, msixVars, powerVars
  <1> QED
    BY <1>4, <1>8, <1>9, <1>10, ScriptStep

LEMMA Deinited ==
  ASSUME Types, NEW d \in Devices, Deinit(d)
  PROVE  /\ vectors' \in [Devices -> 0..Vectors] /\ registered' \in [Devices -> 0..Vectors]
         /\ init_done' \in [Devices -> BOOLEAN] /\ ~init_done'[d]
         /\ init_done[d] => Unarmed(d)'
         /\ ~init_done[d] => UNCHANGED msixVars
         /\ \A e \in Devices \ {d} : /\ vectors'[e] = vectors[e] /\ registered'[e] = registered[e]
                                     /\ init_done'[e] = init_done[e]
  <1>1. /\ vectors \in [Devices -> 0..Vectors] /\ registered \in [Devices -> 0..Vectors]
        /\ init_done \in [Devices -> BOOLEAN] /\ 0 \in 0..Vectors
    BY LifecycleAssumption DEF Types
  <1>2. CASE init_done[d]
    <2>1. /\ vectors' = [vectors EXCEPT ![d] = 0] /\ registered' = [registered EXCEPT ![d] = 0]
          /\ init_done' = [init_done EXCEPT ![d] = FALSE]
      BY <1>2 DEF Deinit
    <2>2. vectors'[d] = 0 /\ registered'[d] = 0 /\ ~init_done'[d]
      BY <1>1, <2>1
    <2> QED
      BY <1>1, <1>2, <2>1, <2>2 DEF Unarmed
  <1>3. CASE ~init_done[d]
    BY <1>1, <1>3 DEF Deinit, msixVars
  <1> QED
    BY <1>2, <1>3

LEMMA DeinitMsixStep ==
  ASSUME CoreInv, NEW d \in Devices, DeinitMsix(d)
  PROVE  CoreInv'
  <1>1. Types /\ Stage(d) /\ Advance(d) /\ Deinit(d)
    BY DEF CoreInv, StageInv, DeinitMsix
  <1>2. Removing(d, 6) /\ mutex[d] = d
    BY <1>1, StageOf DEF DeinitMsix, Removing
  <1>3. UNCHANGED <<held, excused, nameVars, powerVars, userVars>>
    BY DEF DeinitMsix
  <1>4. /\ Moves(d) /\ script'[d] = Rest(RemoveScript, 7) /\ proc'[d] = "remove"
        /\ Step(d) # "none" /\ proc[d] = "remove"
        /\ \A r \in Owned : RemoveBy[r] # 6 => (r \in held[d] <=> 7 <= RemoveBy[r])
        /\ \A u \in Users : upc[u] = "inside" => uref[u] # d
    BY <1>1, <1>2, RemoveOn
  <1>5. \A r \in Owned : r \in held'[d] <=> 7 <= RemoveBy[r]
    BY <1>3, <1>4 DEF Owned, RemoveBy
  <1>6. /\ vectors' \in [Devices -> 0..Vectors] /\ registered' \in [Devices -> 0..Vectors]
        /\ init_done' \in [Devices -> BOOLEAN] /\ ~init_done'[d]
        /\ \A e \in Devices \ {d} : /\ vectors'[e] = vectors[e] /\ registered'[e] = registered[e]
                                    /\ init_done'[e] = init_done[e]
    BY <1>1, Deinited
  <1>7. mutex'[d] = d
    BY <1>2, <1>3 DEF userVars
  <1>8. Removing(d, 7)'
    BY <1>4, <1>5, <1>6, <1>7 DEF Removing
  <1>9. Stage(d)'
    BY <1>8 DEF Stage
  <1>10. Alone(d)
    BY <1>3, <1>4, <1>6 DEF Alone, Alike, Moves, powerVars, userVars
  <1>11. Types'
    BY <1>1, <1>3, <1>4, <1>6 DEF Types, Moves, Activities, nameVars, powerVars, userVars
  <1> QED
    BY <1>4, <1>9, <1>10, <1>11, ScriptStep

(* Steps of both that leave what the device holds.                         *)
LEMMA QuietStep ==
  ASSUME CoreInv, NEW d \in Devices, NEW k \in {3, 4}, NEW j \in {2, 5},
         Removing(d, k) \/ Undoing(d, j), Advance(d),
         UNCHANGED <<held, excused, minor, contested, msixVars, powerVars, userVars>>,
         nodes' \subseteq Kinds \X Minors, UNCHANGED cdevs
  PROVE  CoreInv'
  <1>1. Types /\ held[d] \subseteq Owned
    BY DEF CoreInv, Types
  <1>2. /\ Moves(d) /\ Step(d) # "none" /\ Stage(d)' /\ proc'[d] = proc[d]
        /\ \/ proc[d] = "remove" /\ (\A u \in Users : upc[u] = "inside" => uref[u] # d)
           \/ proc[d] = "undo"
    <2>1. CASE Removing(d, k)
      <3>1. /\ Moves(d) /\ script'[d] = Rest(RemoveScript, k + 1) /\ proc'[d] = "remove"
            /\ Step(d) # "none" /\ proc[d] = "remove"
            /\ \A r \in Owned : RemoveBy[r] # k => (r \in held[d] <=> k + 1 <= RemoveBy[r])
            /\ \A u \in Users : upc[u] = "inside" => uref[u] # d
        BY <2>1, RemoveOn
      <3>2. \A r \in Owned : r \in held'[d] <=> k + 1 <= RemoveBy[r]
        BY <3>1 DEF Owned, RemoveBy
      <3>3. Removing(d, k + 1)'
        BY <2>1, <3>1, <3>2 DEF Removing, userVars
      <3>4. k + 1 \in 1..13
        OBVIOUS
      <3> QED
        BY <3>1, <3>3, <3>4 DEF Stage
    <2>2. CASE Undoing(d, j)
      <3>1. /\ Moves(d) /\ script'[d] = Rest(UndoScript, j + 1) /\ proc'[d] = "undo"
            /\ Step(d) # "none" /\ proc[d] = "undo"
            /\ \A r \in held[d] \ excused[d] : UndoBy[r] # j => j + 1 <= UndoBy[r]
        BY <2>2, UndoOn
      <3>2. \A r \in Owned : UndoBy[r] # j
        BY DEF Owned, UndoBy
      <3>3. Undoing(d, j + 1)'
        BY <1>1, <3>1, <3>2 DEF Undoing
      <3>4. j + 1 \in 1..9
        OBVIOUS
      <3> QED
        BY <3>1, <3>3, <3>4 DEF Stage
    <2> QED
      BY <2>1, <2>2
  <1>3. Alone(d)
    BY <1>2 DEF Alone, Alike, Moves, msixVars, powerVars, userVars
  <1>4. Types'
    BY <1>1, <1>2 DEF Types, Moves, Activities, msixVars, powerVars, userVars
  <1>5. mutex' = mutex /\ proc[d] # "resume"
    BY <1>2 DEF userVars
  <1> QED
    BY <1>2, <1>3, <1>4, <1>5, ScriptStep

LEMMA DelistStep ==
  ASSUME CoreInv, NEW d \in Devices, Delist(d)
  PROVE  CoreInv'
  <1>1. Removing(d, 3) \/ Undoing(d, 5)
    BY StageOf DEF CoreInv, StageInv, Delist
  <1>2. nodes' \subseteq Kinds \X Minors
    BY DEF CoreInv, Types, Delist
  <1> QED
    BY <1>1, <1>2, QuietStep DEF Delist

LEMMA NodeDestroyStep ==
  ASSUME CoreInv, NEW d \in Devices, NodeDestroy(d)
  PROVE  CoreInv'
  <1>1. Removing(d, 4) \/ Undoing(d, 2)
    BY StageOf DEF CoreInv, StageInv, NodeDestroy
  <1>2. nodes' \subseteq Kinds \X Minors
    BY DEF CoreInv, Types, NodeDestroy
  <1> QED
    BY <1>1, <1>2, QuietStep DEF NodeDestroy

LEMMA CdevDelStep ==
  ASSUME CoreInv, NEW d \in Devices, CdevDel(d)
  PROVE  CoreInv'
  <1>1. Types /\ Stage(d) /\ Advance(d) /\ held \in [Devices -> SUBSET Owned]
        /\ cdevs \in [Kinds \X Minors -> Seq(Entries)] /\ contested \subseteq Minors
    BY DEF CoreInv, StageInv, CdevDel, Types
  <1>2. Removing(d, 5) \/ Undoing(d, 3)
    BY <1>1, StageOf DEF CdevDel
  <1>3. UNCHANGED <<excused, list, minor, nodes, msixVars, powerVars, userVars>>
    BY DEF CdevDel
  <1>4. /\ held'[d] = held[d] \ Kinds /\ held' \in [Devices -> SUBSET Owned]
        /\ \A e \in Devices \ {d} : held'[e] = held[e]
    BY <1>1 DEF CdevDel
  <1>5. /\ Moves(d) /\ Step(d) # "none" /\ Stage(d)' /\ proc'[d] = proc[d]
        /\ \/ proc[d] = "remove" /\ (\A u \in Users : upc[u] = "inside" => uref[u] # d)
           \/ proc[d] = "undo"
    <2>1. CASE Removing(d, 5)
      <3>1. /\ Moves(d) /\ script'[d] = Rest(RemoveScript, 6) /\ proc'[d] = "remove"
            /\ Step(d) # "none" /\ proc[d] = "remove"
            /\ \A r \in Owned : RemoveBy[r] # 5 => (r \in held[d] <=> 6 <= RemoveBy[r])
            /\ \A u \in Users : upc[u] = "inside" => uref[u] # d
        BY <1>1, <2>1, RemoveOn
      <3>2. \A r \in Owned : r \in held'[d] <=> 6 <= RemoveBy[r]
        BY <1>4, <3>1 DEF Owned, RemoveBy, Kinds
      <3>3. Removing(d, 6)'
        BY <1>3, <2>1, <3>1, <3>2 DEF Removing, userVars
      <3> QED
        BY <3>1, <3>3 DEF Stage
    <2>2. CASE Undoing(d, 3)
      <3>1. /\ Moves(d) /\ script'[d] = Rest(UndoScript, 4) /\ proc'[d] = "undo"
            /\ Step(d) # "none" /\ proc[d] = "undo"
            /\ \A r \in held[d] \ excused[d] : UndoBy[r] # 3 => 4 <= UndoBy[r]
        BY <1>1, <2>2, UndoOn
      <3>2. \A r \in Owned \ Kinds : UndoBy[r] # 3
        BY DEF Owned, UndoBy, Kinds
      <3>3. Undoing(d, 4)'
        BY <1>1, <1>3, <1>4, <3>1, <3>2 DEF Undoing
      <3> QED
        BY <3>1, <3>3 DEF Stage
    <2> QED
      BY <1>2, <2>1, <2>2
  <1>6. Alone(d)
    BY <1>3, <1>4, <1>5 DEF Alone, Alike, Moves, msixVars, powerVars, userVars
  <1>7. cdevs' \in [Kinds \X Minors -> Seq(Entries)]
    <2>1. \A n \in Kinds \X Minors : cdevs[n] \in Seq(Entries) /\
            (cdevs[n] # <<>> => Tail(cdevs[n]) \in Seq(Entries))
      BY <1>1, HeadTailProperties
    <2>2. cdevs' = [n \in Kinds \X Minors |->
                      IF n \in Number(d) /\ n[1] \in held[d] /\ cdevs[n] # <<>>
                      THEN Tail(cdevs[n]) ELSE cdevs[n]]
      BY DEF CdevDel
    <2> QED
      BY <2>1, <2>2
  <1>8. contested' \subseteq Minors
    <2>1. contested' = contested \/ contested' = contested \ {minor[d]}
      BY DEF CdevDel
    <2> QED
      BY <1>1, <2>1
  <1>9. Types'
    BY <1>1, <1>3, <1>4, <1>5, <1>7, <1>8 DEF Types, Moves, Activities, msixVars, powerVars, userVars
  <1>10. mutex' = mutex /\ proc[d] # "resume"
    BY <1>3, <1>5 DEF userVars
  <1> QED
    BY <1>5, <1>6, <1>9, <1>10, ScriptStep

(* The last step of a removal or an undo.                                  *)
LEMMA DevresMoves ==
  ASSUME Types, NEW d \in Devices, Advance(d), Removing(d, 13) \/ Undoing(d, 9) \/ Hollowing(d, 9)
  PROVE  /\ Moves(d) /\ script'[d] = <<>>
         /\ proc'[d] = IF proc[d] = "probe" THEN "bound" ELSE "none"
         /\ proc[d] \in {"remove", "undo", "probe"}
  <1>1. CASE Removing(d, 13)
    <2>1. RemoveScript \in Scripts /\ Size(RemoveScript) = 13 /\ 1 \in 1..(13 + 1 - 13)
      BY RemoveTable
    <2>2. script[d] = Rest(RemoveScript, 13) /\ proc[d] = "remove" /\ 13 \in 1..13 /\ 13 + 1 = 14
      BY <1>1 DEF Removing
    <2> QED
      BY <2>1, <2>2, SkipFacts DEF Advance
  <1>2. CASE Undoing(d, 9) \/ Hollowing(d, 9)
    <2>1. UndoScript \in Scripts /\ Size(UndoScript) = 9 /\ 1 \in 1..(9 + 1 - 9)
      BY UndoTable
    <2>2. script[d] = Rest(UndoScript, 9) /\ proc[d] \in {"undo", "probe"} /\ 9 \in 1..9 /\ 9 + 1 = 10
      BY <1>2 DEF Undoing, Hollowing
    <2> QED
      BY <2>1, <2>2, SkipFacts DEF Advance
  <1> QED
    BY <1>1, <1>2

(* Processes other than those that lose their device.                      *)
LEMMA DevresStep ==
  ASSUME CoreInv, NEW d \in Devices, Devres(d)
  PROVE  CoreInv'
  <1>1. /\ Types /\ Stage(d) /\ Advance(d) /\ Orphans(d) /\ PhaseInv
        /\ held \in [Devices -> SUBSET Owned]
    BY DEF CoreInv, StageInv, Devres, Types
  <1>2. /\ vectors' = [vectors EXCEPT ![d] = 0] /\ registered' = [registered EXCEPT ![d] = 0]
        /\ init_done' = [init_done EXCEPT ![d] = FALSE] /\ power' = [power EXCEPT ![d] = "on"]
        /\ UNCHANGED <<excused, list, nodes, cdevs, contested, phase, pending>>
    BY DEF Devres
  <1>3. Removing(d, 13) \/ Undoing(d, 9) \/ Hollowing(d, 9)
    BY <1>1, StageOf DEF Devres
  <1>4. /\ vectors' \in [Devices -> 0..Vectors] /\ registered' \in [Devices -> 0..Vectors]
        /\ init_done' \in [Devices -> BOOLEAN] /\ power' \in [Devices -> {"on", "sleep"}]
        /\ vectors'[d] = 0 /\ registered'[d] = 0 /\ ~init_done'[d]
        /\ \A e \in Devices \ {d} : /\ vectors'[e] = vectors[e] /\ registered'[e] = registered[e]
                                    /\ init_done'[e] = init_done[e] /\ power'[e] = power[e]
    <2>1. 0 \in 0..Vectors
      BY LifecycleAssumption
    <2> QED
      BY <1>1, <1>2, <2>1 DEF Types
  <1>5. /\ held' \in [Devices -> SUBSET Owned] /\ held'[d] = held[d] \ {"mem", "pDev"}
        /\ minor' \in [Entries -> Minors] /\ mutex' \in [Devices -> Users \cup Devices \cup {Free}]
        /\ \A e \in Devices \ {d} : held'[e] = held[e] /\ mutex'[e] = mutex[e]
    BY <1>1, LifecycleAssumption DEF Orphans, Types
  <1>6. /\ Moves(d) /\ script'[d] = <<>>
        /\ proc'[d] = IF proc[d] = "probe" THEN "bound" ELSE "none"
        /\ proc[d] \in {"remove", "undo", "probe"}
    BY <1>1, <1>3, DevresMoves
  <1>7. held'[d] \subseteq excused'[d]
    <2>1. \A r \in Owned : 9 <= UndoBy[r] => r \in {"mem", "pDev"}
      BY DEF Owned, UndoBy
    <2>2. held[d] \subseteq Owned
      BY <1>1
    <2> QED
      BY <1>2, <1>3, <1>5, <2>1, <2>2 DEF Removing, Undoing, Hollowing
  <1>8. Stage(d)'
    <2>1. Absent(d)' \/ Hollow(d)'
      BY <1>4, <1>6, <1>7 DEF Absent, Hollow, Unarmed
    <2> QED
      BY <2>1 DEF Stage
  <1>9. \A e \in Devices \ {d} : Alike(e)
    BY <1>2, <1>4, <1>5, <1>6 DEF Alike, Moves
  <1>10. StageInv'
    <2> SUFFICES ASSUME NEW e \in Devices, e # d PROVE Stage(e)'
      BY <1>8 DEF StageInv
    <2> QED
      BY <1>5, <1>9, StageKept DEF CoreInv, StageInv
  <1>11. PhaseInv'
    <2>1. phase = "awake"
      BY <1>1, <1>6, AwakeOrResume DEF Devres
    <2> QED
      BY <1>2, <2>1 DEF PhaseInv
  <1>12. \A u \in Users : IF uref[u] = d THEN upc'[u] = "orphan" /\ uref'[u] = Free
                                        ELSE upc'[u] = upc[u] /\ uref'[u] = uref[u]
    BY <1>1 DEF Orphans
  <1>13. /\ upc' \in [Users -> {"closed", "opening", "open", "want", "inside", "orphan"}]
         /\ uref' \in [Users -> Devices \cup {Free}]
         /\ \A u \in Users : upc'[u] \notin {"closed", "orphan"} => uref'[u] \in Devices
    BY <1>1, <1>12 DEF Orphans, Types
  <1>14. Types'
    BY <1>1, <1>2, <1>4, <1>5, <1>6, <1>13 DEF Types, Moves, Activities
  <1>15. InsideInv'
    <2> SUFFICES ASSUME NEW u \in Users, upc'[u] = "inside"
                 PROVE  /\ mutex'[uref'[u]] = u
                        /\ proc'[uref'[u]] # "undo" => "pDev" \in held'[uref'[u]]
                        /\ proc'[uref'[u]] = "remove" => script'[uref'[u]] = RemoveScript
      BY DEF InsideInv
    <2>1. uref'[u] = uref[u] /\ upc[u] = "inside" /\ uref[u] # d
      BY <1>12
    <2>2. /\ uref[u] \in Devices /\ mutex[uref[u]] = u
          /\ proc[uref[u]] # "undo" => "pDev" \in held[uref[u]]
          /\ proc[uref[u]] = "remove" => script[uref[u]] = RemoveScript
      BY <2>1 DEF CoreInv, Types, InsideInv
    <2> QED
      BY <1>5, <1>9, <2>1, <2>2 DEF Alike
  <1> QED
    BY <1>10, <1>11, <1>14, <1>15 DEF CoreInv

-----------------------------------------------------------------------------
(* The PCI core.                                                           *)
LEMMA StartProbeStep ==
  ASSUME CoreInv, NEW d \in Devices, StartProbe(d)
  PROVE  CoreInv'
  <1>1. /\ Types /\ Stage(d) /\ proc[d] = "none" /\ phase = "awake"
        /\ held \in [Devices -> SUBSET Owned] /\ excused \in [Devices -> SUBSET {"fifo", "fs"}]
        /\ script = [e \in Devices |-> script[e]] /\ proc \in [Devices -> Activities]
    BY DEF CoreInv, StageInv, StartProbe, Types, Activities
  <1>2. Absent(d)
    BY <1>1 DEF Stage, Present, Hollow, Requesting, Probing, Hollowing, Undoing, Resuming, Removing
  <1>3. /\ proc' = [proc EXCEPT ![d] = "probe"] /\ script' = [script EXCEPT ![d] = ProbeScript]
        /\ held' = [held EXCEPT ![d] = {}] /\ excused' = [excused EXCEPT ![d] = {}]
        /\ UNCHANGED <<nameVars, msixVars, powerVars, userVars>>
    BY DEF StartProbe
  <1>4. /\ held' \in [Devices -> SUBSET Owned] /\ excused' \in [Devices -> SUBSET {"fifo", "fs"}]
        /\ held'[d] = {} /\ \A e \in Devices \ {d} : held'[e] = held[e] /\ excused'[e] = excused[e]
    BY <1>1, <1>3
  <1>5. Moves(d) /\ proc'[d] = "probe" /\ script'[d] = Rest(ProbeScript, 1)
    BY <1>1, <1>3, RestFull, ProbeTable DEF Moves, Activities
  <1>6. \A r \in Owned : r \in held'[d] <=> 1 > ProbeFrom[r]
    BY <1>4 DEF Owned, ProbeFrom
  <1>7. Unarmed(d)'
    BY <1>2, <1>3 DEF Absent, Unarmed, msixVars
  <1>8. Probing(d, 1)'
    BY <1>5, <1>6, <1>7 DEF Probing
  <1>9. \A e \in Devices \ {d} : Alike(e) /\ mutex'[e] = mutex[e]
    BY <1>3, <1>4, <1>5 DEF Alike, Moves, msixVars, powerVars, userVars
  <1>10. StageInv'
    <2> SUFFICES ASSUME NEW e \in Devices PROVE Stage(e)'
      BY DEF StageInv
    <2>1. CASE e = d
      BY <1>8, <2>1 DEF Stage
    <2>2. CASE e # d
      BY <1>9, <2>2, StageKept DEF CoreInv, StageInv
    <2> QED
      BY <2>1, <2>2
  <1>11. PhaseInv'
    BY <1>1, <1>3 DEF PhaseInv, powerVars
  <1>12. Types'
    BY <1>1, <1>3, <1>4, <1>5 DEF Types, Moves, Activities, nameVars, msixVars, powerVars, userVars
  <1>13. InsideInv'
    <2> SUFFICES ASSUME NEW u \in Users, upc[u] = "inside"
                 PROVE  /\ mutex[uref[u]] = u
                        /\ proc'[uref[u]] # "undo" => "pDev" \in held'[uref[u]]
                        /\ proc'[uref[u]] = "remove" => script'[uref[u]] = RemoveScript
      BY <1>3 DEF InsideInv, userVars
    <2>1. uref[u] # d /\ uref[u] \in Devices
      BY <1>2, InsideStage
    <2> QED
      BY <1>9, <2>1 DEF CoreInv, InsideInv, Alike
  <1> QED
    BY <1>10, <1>11, <1>12, <1>13 DEF CoreInv

LEMMA StartRemoveStep ==
  ASSUME CoreInv, NEW d \in Devices, StartRemove(d)
  PROVE  CoreInv'
  <1>1. /\ Types /\ Stage(d) /\ proc[d] = "bound" /\ phase = "awake" /\ InsideInv
        /\ script = [e \in Devices |-> script[e]] /\ proc \in [Devices -> Activities]
        /\ excused[d] \subseteq {"fifo", "fs"} /\ held[d] \subseteq Owned
    BY DEF CoreInv, StageInv, StartRemove, Types, Activities
  <1>2. Present(d) \/ Hollow(d)
    BY <1>1 DEF Stage, Absent, Requesting, Probing, Hollowing, Undoing, Resuming, Removing
  <1>3. /\ proc' = [proc EXCEPT ![d] = "remove"]
        /\ script' = [script EXCEPT ![d] = IF "pDev" \in held[d] THEN RemoveScript ELSE <<"devres">>]
        /\ UNCHANGED <<held, excused, nameVars, msixVars, powerVars, userVars>>
    BY DEF StartRemove
  <1>4. /\ Moves(d) /\ proc'[d] = "remove"
        /\ "pDev" \in held[d] => script'[d] = RemoveScript
        /\ "pDev" \notin held[d] => script'[d] = <<"devres">>
    BY <1>1, <1>3 DEF Moves, Activities
  <1>5. Stage(d)'
    <2>1. CASE Present(d)
      <3>1. held[d] = Owned /\ "pDev" \in Owned
        BY <2>1 DEF Present, Owned
      <3>2. script'[d] = Rest(RemoveScript, 1)
        BY <1>4, <3>1, RestFull, RemoveTable
      <3>3. \A r \in Owned : r \in held'[d] <=> 1 <= RemoveBy[r]
        BY <1>3, <3>1 DEF Owned, RemoveBy
      <3>4. Removing(d, 1)'
        BY <1>4, <3>2, <3>3 DEF Removing
      <3> QED
        BY <3>4 DEF Stage
    <2>2. CASE Hollow(d)
      <3>1. held[d] \subseteq excused[d] /\ registered[d] = 0
        BY <2>2 DEF Hollow, Unarmed
      <3>2. script'[d] = Rest(RemoveScript, 13)
        BY <1>1, <1>4, <3>1, LastScript
      <3>3. Removing(d, 13)'
        BY <1>3, <1>4, <3>1, <3>2 DEF Removing, msixVars
      <3> QED
        BY <3>3 DEF Stage
    <2> QED
      BY <1>2, <2>1, <2>2
  <1>6. \A e \in Devices \ {d} : Alike(e) /\ mutex'[e] = mutex[e]
    BY <1>3, <1>4 DEF Alike, Moves, msixVars, powerVars, userVars
  <1>7. StageInv'
    <2> SUFFICES ASSUME NEW e \in Devices, e # d PROVE Stage(e)'
      BY <1>5 DEF StageInv
    <2> QED
      BY <1>6, StageKept DEF CoreInv, StageInv
  <1>8. PhaseInv'
    BY <1>1, <1>3 DEF PhaseInv, powerVars
  <1>9. Types'
    BY <1>1, <1>3, <1>4 DEF Types, Moves, Activities, nameVars, msixVars, powerVars, userVars
  <1>10. InsideInv'
    <2> SUFFICES ASSUME NEW u \in Users, upc[u] = "inside"
                 PROVE  /\ mutex[uref[u]] = u
                        /\ proc'[uref[u]] # "undo" => "pDev" \in held[uref[u]]
                        /\ proc'[uref[u]] = "remove" => script'[uref[u]] = RemoveScript
      BY <1>3 DEF InsideInv, userVars
    <2>1. /\ uref[u] \in Devices /\ mutex[uref[u]] = u
          /\ proc[uref[u]] # "undo" => "pDev" \in held[uref[u]]
          /\ proc[uref[u]] = "remove" => script[uref[u]] = RemoveScript
      BY DEF CoreInv, Types, InsideInv
    <2> QED
      BY <1>1, <1>4, <1>6, <2>1 DEF Alike
  <1> QED
    BY <1>7, <1>8, <1>9, <1>10 DEF CoreInv

-----------------------------------------------------------------------------
(* Processes.                                                              *)
Stops == {"closed", "opening", "open", "want", "inside", "orphan"}

LEMMA UserStep ==
  ASSUME CoreInv, NEW u \in Users, OnlyUser,
         mutex' \in [Devices -> Users \cup Devices \cup {Free}],
         upc' \in [Users -> Stops], uref' \in [Users -> Devices \cup {Free}],
         \A v \in Users \ {u} : upc'[v] = upc[v] /\ uref'[v] = uref[v],
         upc'[u] \notin {"closed", "orphan"} => uref'[u] \in Devices,
         phase # "awake" => upc'[u] \in {"closed", "open", "orphan"},
         \A d \in Devices : mutex'[d] = mutex[d] \/ mutex[d] = Free \/ (mutex[d] = u /\ uref[u] = d),
         upc'[u] = "inside" =>
           /\ mutex'[uref'[u]] = u /\ "pDev" \in held[uref'[u]]
           /\ proc[uref'[u]] = "remove" => script[uref'[u]] = RemoveScript
  PROVE  CoreInv'
  <1>1. Types /\ PhaseInv /\ StageInv /\ InsideInv
    BY DEF CoreInv
  <1>2. UNCHANGED <<proc, script, held, excused, list, minor, nodes, cdevs, contested, vectors,
                    registered, init_done, power, phase, pending>>
    BY DEF OnlyUser, deviceVars, nameVars, msixVars, powerVars
  <1>3. \A d \in Devices : Alike(d) /\ (mutex[d] = d => mutex'[d] = d)
    BY <1>2, LifecycleAssumption DEF Alike
  <1>4. StageInv'
    <2> SUFFICES ASSUME NEW d \in Devices PROVE Stage(d)'
      BY DEF StageInv
    <2> QED
      BY <1>1, <1>3, StageKept DEF StageInv
  <1>5. \A d \in Devices : (Absent(d) => Absent(d)') /\ (Present(d) => Present(d)')
    BY <1>3, StageKept
  <1>6. PhaseInv'
    <2> SUFFICES ASSUME phase # "awake"
                 PROVE  /\ \A d \in Devices : Absent(d)' \/ Present(d)' \/ proc[d] = "resume"
                        /\ \A d \in pending : Present(d)'
                        /\ \A v \in Users : upc'[v] \in {"closed", "open", "orphan"}
      BY <1>2 DEF PhaseInv
    <2>1. \A d \in Devices : Absent(d)' \/ Present(d)' \/ proc[d] = "resume"
      BY <1>1, <1>5 DEF PhaseInv
    <2>2. \A d \in pending : Present(d)'
      BY <1>1, <1>5 DEF PhaseInv, Types
    <2>3. \A v \in Users : upc'[v] \in {"closed", "open", "orphan"}
      BY <1>1 DEF PhaseInv
    <2> QED
      BY <2>1, <2>2, <2>3
  <1>7. \A v \in Users : upc'[v] \notin {"closed", "orphan"} => uref'[v] \in Devices
    BY <1>1 DEF Types
  <1>8. Types'
    BY <1>1, <1>2, <1>7 DEF Types, Stops
  <1>9. InsideInv'
    <2> SUFFICES ASSUME NEW v \in Users, upc'[v] = "inside"
                 PROVE  /\ mutex'[uref'[v]] = v
                        /\ proc[uref'[v]] # "undo" => "pDev" \in held[uref'[v]]
                        /\ proc[uref'[v]] = "remove" => script[uref'[v]] = RemoveScript
      BY <1>2 DEF InsideInv
    <2>1. CASE v = u
      BY <2>1
    <2>2. CASE v # u
      <3>1. upc[v] = "inside" /\ uref'[v] = uref[v]
        BY <2>2
      <3>2. /\ uref[v] \in Devices /\ mutex[uref[v]] = v
            /\ proc[uref[v]] # "undo" => "pDev" \in held[uref[v]]
            /\ proc[uref[v]] = "remove" => script[uref[v]] = RemoveScript
        BY <1>1, <3>1 DEF Types, InsideInv
      <3>3. mutex'[uref[v]] = mutex[uref[v]]
        BY <2>2, <3>2, LifecycleAssumption
      <3> QED
        BY <3>1, <3>2, <3>3
    <2> QED
      BY <2>1, <2>2
  <1> QED
    BY <1>4, <1>6, <1>8, <1>9 DEF CoreInv

LEMMA UserSteps ==
  ASSUME CoreInv, NEW u \in Users,
         Open(u) \/ Opened(u) \/ Close(u) \/ Call(u) \/ CallLock(u) \/ CallEnd(u) \/ Signal(u)
  PROVE  CoreInv'
  <1>1. /\ mutex \in [Devices -> Users \cup Devices \cup {Free}]
        /\ upc \in [Users -> Stops] /\ uref \in [Users -> Devices \cup {Free}]
        /\ upc[u] \notin {"closed", "orphan"} => uref[u] \in Devices
        /\ upc[u] = "inside" => mutex[uref[u]] = u
        /\ phase # "awake" => upc[u] \in {"closed", "open", "orphan"}
        /\ StageInv
    BY DEF CoreInv, Types, Stops, InsideInv, PhaseInv
  <1>2. CASE Open(u)
    <2>1. PICK d \in Devices : uref' = [uref EXCEPT ![u] = d]
      BY <1>2 DEF Open
    <2>2. phase = "awake" /\ upc' = [upc EXCEPT ![u] = "opening"] /\ mutex' = mutex /\ OnlyUser
      BY <1>2 DEF Open, MoveTo
    <2>3. /\ upc' \in [Users -> Stops] /\ uref' \in [Users -> Devices \cup {Free}]
          /\ upc'[u] = "opening" /\ uref'[u] = d
          /\ \A v \in Users \ {u} : upc'[v] = upc[v] /\ uref'[v] = uref[v]
      BY <1>1, <2>1, <2>2 DEF Stops
    <2> QED
      BY <1>1, <2>2, <2>3, UserStep
  <1>3. CASE Opened(u)
    <2>1. upc[u] = "opening" /\ upc' = [upc EXCEPT ![u] = "open"] /\ UNCHANGED <<mutex, uref>> /\ OnlyUser
      BY <1>3 DEF Opened, MoveTo
    <2>2. /\ upc' \in [Users -> Stops] /\ upc'[u] = "open"
          /\ \A v \in Users \ {u} : upc'[v] = upc[v]
      BY <1>1, <2>1 DEF Stops
    <2> QED
      BY <1>1, <2>1, <2>2, UserStep
  <1>4. CASE Close(u)
    <2>1. /\ upc' = [upc EXCEPT ![u] = "closed"] /\ uref' = [uref EXCEPT ![u] = Free]
          /\ mutex' = mutex /\ OnlyUser
      BY <1>4 DEF Close, MoveTo
    <2>2. /\ upc' \in [Users -> Stops] /\ uref' \in [Users -> Devices \cup {Free}]
          /\ upc'[u] = "closed"
          /\ \A v \in Users \ {u} : upc'[v] = upc[v] /\ uref'[v] = uref[v]
      BY <1>1, <2>1 DEF Stops
    <2> QED
      BY <1>1, <2>1, <2>2, UserStep
  <1>5. CASE Call(u)
    <2>1. /\ phase = "awake" /\ upc[u] = "open"
          /\ upc' = [upc EXCEPT ![u] = "want"] /\ UNCHANGED <<mutex, uref>> /\ OnlyUser
      BY <1>5 DEF Call, MoveTo
    <2>2. /\ upc' \in [Users -> Stops] /\ upc'[u] = "want"
          /\ \A v \in Users \ {u} : upc'[v] = upc[v]
      BY <1>1, <2>1 DEF Stops
    <2> QED
      BY <1>1, <2>1, <2>2, UserStep
  <1>6. CASE CallLock(u)
    <2>1. /\ upc[u] = "want" /\ mutex[uref[u]] = Free /\ OnlyUser /\ uref[u] \in Devices
          /\ phase = "awake"
      BY <1>1, <1>6 DEF CallLock
    <2>2. CASE "pDev" \in held[uref[u]]
      <3>1. upc' = [upc EXCEPT ![u] = "inside"] /\ mutex' = [mutex EXCEPT ![uref[u]] = u]
        BY <1>6, <2>2 DEF CallLock, MoveTo
      <3>2. /\ upc' \in [Users -> Stops] /\ upc'[u] = "inside"
            /\ \A v \in Users \ {u} : upc'[v] = upc[v]
        BY <1>1, <3>1 DEF Stops
      <3>3. uref' = [uref EXCEPT ![u] = IF upc'[u] = "orphan" THEN Free ELSE @]
        BY <1>6 DEF CallLock
      <3>4. uref' = uref
        BY <1>1, <3>2, <3>3
      <3>5. /\ mutex' \in [Devices -> Users \cup Devices \cup {Free}] /\ mutex'[uref[u]] = u
            /\ \A d \in Devices : mutex'[d] = mutex[d] \/ mutex[d] = Free
        BY <1>1, <2>1, <3>1
      <3>6. proc[uref[u]] = "remove" => script[uref[u]] = RemoveScript
        <4> DEFINE d == uref[u]
        <4> SUFFICES ASSUME proc[d] = "remove" PROVE script[d] = RemoveScript
          OBVIOUS
        <4>1. Stage(d) /\ d \in Devices /\ mutex[d] = Free /\ "pDev" \in held[d]
              /\ excused[d] \subseteq {"fifo", "fs"}
          BY <1>1, <2>1, <2>2 DEF StageInv, CoreInv, Types
        <4> HIDE DEF d
        <4>2. PICK k \in 1..13 : Removing(d, k)
          BY <4>1 DEF Stage, Absent, Present, Hollow, Requesting, Probing, Hollowing, Undoing, Resuming
        <4>3. k \notin 2..12
          BY <4>1, <4>2, LifecycleAssumption DEF Removing
        <4>4. k # 13
          BY <4>1, <4>2 DEF Removing
        <4>5. k = 1
          BY <4>3, <4>4
        <4> QED
          BY <4>2, <4>5, RestFull, RemoveTable DEF Removing
      <3> QED
        BY <1>1, <2>1, <2>2, <3>2, <3>4, <3>5, <3>6, UserStep
    <2>3. CASE "pDev" \notin held[uref[u]]
      <3>1. upc' = [upc EXCEPT ![u] = "orphan"] /\ mutex' = mutex
        BY <1>6, <2>3 DEF CallLock, MoveTo
      <3>2. /\ upc' \in [Users -> Stops] /\ upc'[u] = "orphan"
            /\ \A v \in Users \ {u} : upc'[v] = upc[v]
        BY <1>1, <3>1 DEF Stops
      <3>3. uref' = [uref EXCEPT ![u] = IF upc'[u] = "orphan" THEN Free ELSE @]
        BY <1>6 DEF CallLock
      <3>4. uref' \in [Users -> Devices \cup {Free}] /\ \A v \in Users \ {u} : uref'[v] = uref[v]
        BY <1>1, <3>2, <3>3
      <3> QED
        BY <1>1, <2>1, <3>1, <3>2, <3>4, UserStep
    <2> QED
      BY <2>2, <2>3
  <1>7. CASE CallEnd(u)
    <2>1. /\ upc[u] = "inside" /\ uref' = uref /\ OnlyUser /\ uref[u] \in Devices
          /\ upc' = [upc EXCEPT ![u] = "open"] /\ mutex' = [mutex EXCEPT ![uref[u]] = Free]
      BY <1>1, <1>7 DEF CallEnd, MoveTo
    <2>2. /\ upc' \in [Users -> Stops] /\ upc'[u] = "open"
          /\ \A v \in Users \ {u} : upc'[v] = upc[v]
      BY <1>1, <2>1 DEF Stops
    <2>3. /\ mutex' \in [Devices -> Users \cup Devices \cup {Free}]
          /\ \A d \in Devices : mutex'[d] = mutex[d] \/ (mutex[d] = u /\ uref[u] = d)
      BY <1>1, <2>1
    <2> QED
      BY <1>1, <2>1, <2>2, <2>3, UserStep
  <1>8. CASE Signal(u)
    <2>1. phase = "awake" /\ mutex' = mutex /\ OnlyUser
      BY <1>8 DEF Signal
    <2>2. \/ upc[u] = "opening" /\ upc' = [upc EXCEPT ![u] = "closed"] /\ uref' = [uref EXCEPT ![u] = Free]
          \/ upc[u] = "want" /\ upc' = [upc EXCEPT ![u] = "open"] /\ uref' = uref
      BY <1>8 DEF Signal, MoveTo
    <2>3. /\ upc' \in [Users -> Stops] /\ uref' \in [Users -> Devices \cup {Free}]
          /\ upc'[u] = "closed" \/ (upc'[u] = "open" /\ uref'[u] \in Devices)
          /\ \A v \in Users \ {u} : upc'[v] = upc[v] /\ uref'[v] = uref[v]
      BY <1>1, <2>2 DEF Stops
    <2> QED
      BY <1>1, <2>1, <2>3, UserStep
  <1> QED
    BY <1>2, <1>3, <1>4, <1>5, <1>6, <1>7, <1>8

-----------------------------------------------------------------------------
(* The system's sleep.                                                     *)
LEMMA SleepStep ==
  ASSUME CoreInv, UNCHANGED <<deviceVars, nameVars, userVars>>,
         vectors' \in [Devices -> 0..Vectors], registered' \in [Devices -> 0..Vectors],
         init_done' \in [Devices -> BOOLEAN], power' \in [Devices -> {"on", "sleep"}],
         phase' \in {"awake", "suspending", "resuming"}, pending' \subseteq Devices,
         StageInv', PhaseInv'
  PROVE  CoreInv'
  <1>1. Types'
    BY DEF CoreInv, Types, deviceVars, nameVars, userVars
  <1>2. InsideInv'
    BY DEF CoreInv, InsideInv, deviceVars, userVars
  <1> QED
    BY <1>1, <1>2 DEF CoreInv

(* Nothing but the phase and who is to be told changes.                    *)
LEMMA PhaseStep ==
  ASSUME CoreInv, UNCHANGED <<deviceVars, nameVars, msixVars, power, userVars>>,
         phase' \in {"awake", "suspending", "resuming"}, pending' \subseteq Devices,
         phase' # "awake" =>
           /\ \A d \in Devices : Absent(d) \/ Present(d) \/ proc[d] = "resume"
           /\ \A d \in pending' : Present(d)
           /\ \A u \in Users : upc[u] \in {"closed", "open", "orphan"}
  PROVE  CoreInv'
  <1>1. Types /\ StageInv
    BY DEF CoreInv
  <1>2. \A d \in Devices : Alike(d) /\ mutex'[d] = mutex[d]
    BY DEF Alike, deviceVars, msixVars, userVars
  <1>3. StageInv'
    BY <1>1, <1>2, StageKept DEF StageInv
  <1>4. \A d \in Devices : (Absent(d) => Absent(d)') /\ (Present(d) => Present(d)')
    BY <1>2, StageKept
  <1>5. PhaseInv'
    <2> SUFFICES ASSUME phase' # "awake"
                 PROVE  /\ \A d \in Devices : Absent(d)' \/ Present(d)' \/ proc'[d] = "resume"
                        /\ \A d \in pending' : Present(d)'
                        /\ \A u \in Users : upc'[u] \in {"closed", "open", "orphan"}
      BY DEF PhaseInv
    <2>1. \A d \in Devices : Absent(d)' \/ Present(d)' \/ proc'[d] = "resume"
      BY <1>4 DEF deviceVars
    <2>2. \A d \in pending' : Present(d)'
      BY <1>4
    <2>3. \A u \in Users : upc'[u] \in {"closed", "open", "orphan"}
      BY DEF userVars
    <2> QED
      BY <2>1, <2>2, <2>3
  <1> QED
    BY <1>1, <1>3, <1>5, SleepStep DEF Types, msixVars

LEMMA FreezeStep ==
  ASSUME CoreInv, Freeze
  PROVE  CoreInv'
  <1>1. /\ UNCHANGED <<deviceVars, nameVars, msixVars, power, userVars>>
        /\ phase' = "suspending" /\ pending' = Bound
        /\ \A u \in Users : upc[u] \in {"closed", "open", "orphan"}
    BY DEF Freeze
  <1>2. \A d \in Devices : Absent(d) \/ Present(d)
    <2> SUFFICES ASSUME NEW d \in Devices PROVE Absent(d) \/ Present(d)
      OBVIOUS
    <2>1. Stage(d) /\ (proc[d] = "none" \/ (proc[d] = "bound" /\ "pDev" \in held[d]))
          /\ excused[d] \subseteq {"fifo", "fs"}
      BY DEF CoreInv, StageInv, Freeze, Types
    <2>2. ~Hollow(d) \/ proc[d] = "none"
      BY <2>1 DEF Hollow
    <2> QED
      BY <2>1, <2>2 DEF Stage, Hollow, Requesting, Probing, Hollowing, Undoing, Resuming, Removing
  <1>3. Bound \subseteq Devices /\ \A d \in Bound : Present(d)
    BY <1>2 DEF Bound, Absent
  <1> QED
    BY <1>1, <1>2, <1>3, PhaseStep

LEMMA WakeStep ==
  ASSUME CoreInv, Wake
  PROVE  CoreInv'
  <1>1. /\ UNCHANGED <<deviceVars, nameVars, msixVars, power, userVars>>
        /\ phase = "suspending" /\ phase' = "resuming" /\ pending' = Bound /\ PhaseInv
    BY DEF Wake, CoreInv
  <1>2. Bound \subseteq Devices /\ \A d \in Bound : Present(d)
    BY <1>1 DEF Bound, Absent, PhaseInv
  <1> QED
    BY <1>1, <1>2, PhaseStep DEF PhaseInv

LEMMA ThawStep ==
  ASSUME CoreInv, Thaw
  PROVE  CoreInv'
  <1>1. /\ UNCHANGED <<deviceVars, nameVars, msixVars, power, pending, userVars>>
        /\ phase' = "awake" /\ pending \subseteq Devices
    BY DEF Thaw, CoreInv, Types
  <1> QED
    BY <1>1, PhaseStep

LEMMA SuspendStep ==
  ASSUME CoreInv, NEW d \in Devices, Suspend(d)
  PROVE  CoreInv'
  <1>1. /\ UNCHANGED <<deviceVars, nameVars, phase, userVars>>
        /\ phase = "suspending" /\ d \in pending /\ pending' = pending \ {d}
        /\ Types /\ StageInv /\ PhaseInv /\ power \in [Devices -> {"on", "sleep"}]
    BY DEF Suspend, CoreInv, Types
  <1>2. Present(d)
    BY <1>1 DEF PhaseInv
  <1>3. /\ vectors' \in [Devices -> 0..Vectors] /\ registered' \in [Devices -> 0..Vectors]
        /\ init_done' \in [Devices -> BOOLEAN] /\ power' \in [Devices -> {"on", "sleep"}]
        /\ Present(d)'
        /\ \A e \in Devices \ {d} : Alike(e)
    <2>1. CASE power[d] = "on"
      <3>1. Deinit(d) /\ power' = [power EXCEPT ![d] = "sleep"]
        BY <2>1 DEF Suspend
      <3>2. /\ vectors' \in [Devices -> 0..Vectors] /\ registered' \in [Devices -> 0..Vectors]
            /\ init_done' \in [Devices -> BOOLEAN] /\ ~init_done'[d]
            /\ \A e \in Devices \ {d} : /\ vectors'[e] = vectors[e] /\ registered'[e] = registered[e]
                                        /\ init_done'[e] = init_done[e]
        BY <1>1, <3>1, Deinited
      <3>3. /\ power' \in [Devices -> {"on", "sleep"}] /\ power'[d] = "sleep"
            /\ \A e \in Devices \ {d} : power'[e] = power[e]
        BY <1>1, <3>1
      <3>4. Present(d)'
        BY <1>1, <1>2, <3>2, <3>3 DEF Present, deviceVars
      <3> QED
        BY <1>1, <3>2, <3>3, <3>4 DEF Alike, deviceVars
    <2>2. CASE power[d] # "on"
      <3>1. UNCHANGED <<msixVars, power>>
        BY <2>2 DEF Suspend
      <3>2. \A e \in Devices : Alike(e)
        BY <1>1, <3>1 DEF Alike, deviceVars, msixVars
      <3>3. Present(d)'
        BY <1>1, <1>2, <3>2, StageKept DEF userVars
      <3> QED
        BY <1>1, <3>1, <3>2, <3>3 DEF Types, msixVars
    <2> QED
      BY <2>1, <2>2
  <1>4. mutex' = mutex /\ proc' = proc /\ upc' = upc
    BY <1>1 DEF userVars, deviceVars
  <1>5. \A e \in Devices \ {d} : /\ Stage(e) => Stage(e)'
                                 /\ Absent(e) => Absent(e)'
                                 /\ Present(e) => Present(e)'
    BY <1>3, <1>4, StageKept
  <1>6. StageInv'
    <2> SUFFICES ASSUME NEW e \in Devices PROVE Stage(e)'
      BY DEF StageInv
    <2>1. CASE e = d
      BY <1>3, <2>1 DEF Stage
    <2>2. CASE e # d
      BY <1>1, <1>5, <2>2 DEF StageInv
    <2> QED
      BY <2>1, <2>2
  <1>7. PhaseInv'
    <2>1. \A e \in Devices : Absent(e)' \/ Present(e)' \/ proc[e] = "resume"
      BY <1>1, <1>3, <1>5 DEF PhaseInv
    <2>2. \A e \in pending' : Present(e)'
      BY <1>1, <1>5 DEF PhaseInv, Types
    <2> QED
      BY <1>1, <1>4, <2>1, <2>2 DEF PhaseInv
  <1>8. phase' \in {"awake", "suspending", "resuming"} /\ pending' \subseteq Devices
    BY <1>1 DEF Types
  <1> QED
    BY <1>1, <1>3, <1>6, <1>7, <1>8, SleepStep

LEMMA ResumeStep ==
  ASSUME CoreInv, NEW d \in Devices, Resume(d)
  PROVE  CoreInv'
  <1>1. /\ phase = "resuming" /\ d \in pending /\ power[d] = "sleep" /\ pending' = pending \ {d}
        /\ proc' = [proc EXCEPT ![d] = "resume"]
        /\ script' = [script EXCEPT ![d] = <<"msix", "firmware">>]
        /\ UNCHANGED <<held, excused, nameVars, msixVars, power, phase, userVars>>
        /\ Types /\ StageInv /\ PhaseInv
        /\ script = [e \in Devices |-> script[e]] /\ proc \in [Devices -> Activities]
    BY DEF Resume, CoreInv, Types, Activities
  <1>2. Present(d)
    BY <1>1 DEF PhaseInv
  <1>3. Moves(d) /\ proc'[d] = "resume" /\ script'[d] = Rest(ProbeScript, 7)
    BY <1>1, ResumeScript DEF Moves, Activities
  <1>4. Resuming(d, 7)'
    BY <1>1, <1>2, <1>3 DEF Resuming, Present, Armed, msixVars
  <1>5. \A e \in Devices \ {d} : Alike(e) /\ mutex'[e] = mutex[e]
    BY <1>1, <1>3 DEF Alike, Moves, msixVars, userVars
  <1>6. \A e \in Devices \ {d} : /\ Stage(e) => Stage(e)'
                                 /\ Absent(e) => Absent(e)'
                                 /\ Present(e) => Present(e)'
    BY <1>5, StageKept
  <1>7. StageInv'
    <2> SUFFICES ASSUME NEW e \in Devices PROVE Stage(e)'
      BY DEF StageInv
    <2>1. CASE e = d
      BY <1>4, <2>1 DEF Stage
    <2>2. CASE e # d
      BY <1>1, <1>6, <2>2 DEF StageInv
    <2> QED
      BY <2>1, <2>2
  <1>8. PhaseInv'
    <2>1. \A e \in Devices : Absent(e)' \/ Present(e)' \/ proc'[e] = "resume"
      BY <1>1, <1>3, <1>5, <1>6 DEF PhaseInv, Alike
    <2>2. \A e \in pending' : Present(e)'
      BY <1>1, <1>6 DEF PhaseInv, Types
    <2>3. \A u \in Users : upc'[u] \in {"closed", "open", "orphan"}
      BY <1>1 DEF PhaseInv, userVars
    <2> QED
      BY <2>1, <2>2, <2>3 DEF PhaseInv
  <1>9. Types'
    BY <1>1, <1>3 DEF Types, Moves, Activities, nameVars, msixVars, userVars
  <1>10. InsideInv'
    BY <1>1, <1>3 DEF PhaseInv, InsideInv, userVars
  <1> QED
    BY <1>7, <1>8, <1>9, <1>10 DEF CoreInv

-----------------------------------------------------------------------------
LEMMA CoreInit == Init => CoreInv
  <1> SUFFICES ASSUME Init PROVE CoreInv
    OBVIOUS
  <1>1. 0 \in 0..Vectors /\ 0 \in Minors /\ Others \subseteq Minors
    BY LifecycleAssumption
  <1>2. \A d \in Devices : Absent(d)
    BY DEF Init, Absent, Unarmed
  <1>3. cdevs \in [Kinds \X Minors -> Seq(Entries)]
    <2>1. \A n \in Kinds \X Minors :
            (IF n[2] \in Others THEN <<n[2]>> ELSE <<>>) \in Seq(Entries)
      BY DEF Entries
    <2> QED
      BY <2>1 DEF Init
  <1>4. minor \in [Entries -> Minors]
    BY <1>1 DEF Init, Entries
  <1>5. nodes \subseteq Kinds \X Minors
    BY <1>1 DEF Init
  <1>6. Types
    <2>1. /\ proc \in [Devices -> {"none", "probe", "undo", "bound", "remove", "resume"}]
          /\ script = [d \in Devices |-> script[d]]
          /\ held \in [Devices -> SUBSET Owned] /\ excused \in [Devices -> SUBSET {"fifo", "fs"}]
      BY DEF Init
    <2>2. /\ vectors \in [Devices -> 0..Vectors] /\ registered \in [Devices -> 0..Vectors]
          /\ init_done \in [Devices -> BOOLEAN] /\ power \in [Devices -> {"on", "sleep"}]
          /\ phase \in {"awake", "suspending", "resuming"} /\ pending \subseteq Devices
      BY <1>1 DEF Init
    <2>3. /\ mutex \in [Devices -> Users \cup Devices \cup {Free}]
          /\ upc \in [Users -> {"closed", "opening", "open", "want", "inside", "orphan"}]
          /\ uref \in [Users -> Devices \cup {Free}]
          /\ \A u \in Users : upc[u] \notin {"closed", "orphan"} => uref[u] \in Devices
          /\ contested \subseteq Minors
      BY DEF Init
    <2> QED
      BY <1>3, <1>4, <1>5, <2>1, <2>2, <2>3 DEF Types
  <1>7. PhaseInv /\ InsideInv
    BY DEF Init, PhaseInv, InsideInv
  <1>8. StageInv
    BY <1>2 DEF StageInv, Stage
  <1> QED
    BY <1>6, <1>7, <1>8 DEF CoreInv

LEMMA GoStep ==
  ASSUME CoreInv, NEW d \in Devices, Go(d)
  PROVE  CoreInv'
  BY AcquireStep, BarsStep, FsInitStep, FirmwareStep, ReleaseStep, DevresStep, InsertStep, DelistStep,
     NodeCreateStep, NodeDestroyStep, CdevDelStep, MsixStep, RequestStep, DeinitMsixStep, DownStep,
     UpStep DEF Go

LEMMA CoreStep == CoreInv /\ [Next]_vars => CoreInv'
  <1> SUFFICES ASSUME CoreInv, [Next]_vars PROVE CoreInv'
    OBVIOUS
  <1>1. CASE Next
    <2>1. CASE \E d \in Devices : StartProbe(d) \/ StartRemove(d) \/ Go(d) \/ Suspend(d) \/ Resume(d)
      BY <2>1, StartProbeStep, StartRemoveStep, GoStep, SuspendStep, ResumeStep
    <2>2. CASE \E u \in Users : Open(u) \/ Opened(u) \/ Close(u) \/ Call(u) \/ CallLock(u)
                                  \/ CallEnd(u) \/ Signal(u)
      BY <2>2, UserSteps
    <2>3. CASE Freeze \/ Wake \/ Thaw
      BY <2>3, FreezeStep, WakeStep, ThawStep
    <2> QED
      BY <1>1, <2>1, <2>2, <2>3 DEF Next
  <1>2. CASE UNCHANGED vars
    <2>1. UNCHANGED <<deviceVars, nameVars, msixVars, powerVars, userVars>>
      BY <1>2 DEF vars
    <2>2. \A d \in Devices : Alike(d) /\ mutex'[d] = mutex[d]
      BY <2>1 DEF Alike, deviceVars, msixVars, powerVars, userVars
    <2>3. \A d \in Devices : /\ Stage(d) => Stage(d)'
                             /\ Absent(d) => Absent(d)'
                             /\ Present(d) => Present(d)'
      BY <2>2, StageKept
    <2>4. StageInv'
      BY <2>3 DEF CoreInv, StageInv
    <2>5. PhaseInv'
      <3>1. /\ phase' = phase /\ pending' = pending /\ upc' = upc /\ proc' = proc
            /\ PhaseInv /\ pending \subseteq Devices
        BY <2>1 DEF powerVars, userVars, deviceVars, CoreInv, Types
      <3> QED
        BY <2>3, <3>1 DEF PhaseInv
    <2>6. Types' /\ InsideInv'
      BY <2>1 DEF CoreInv, Types, InsideInv, deviceVars, nameVars, msixVars, powerVars, userVars
    <2> QED
      BY <2>4, <2>5, <2>6 DEF CoreInv
  <1> QED
    BY <1>1, <1>2

LEMMA CoreAlways == Spec => []CoreInv
  BY CoreInit, CoreStep, PTL DEF Spec

(* Whatever interrupt is registered finds memx_dev, and one whose          *)
(* initialisation succeeded the fifo and the BARs its handler uses, at each*)
(* step of probe, remove, suspend and resume: only the undo of a probe that*)
(* failed after memx_init_msix_irq frees them first.                       *)
THEOREM InterruptsFindDeviceAlways == Spec => []InterruptsFindDevice
  <1>1. CoreInv => InterruptsFindDevice
    <2> SUFFICES ASSUME CoreInv, NEW d \in Devices, registered[d] > 0, proc[d] # "undo"
                 PROVE  /\ "mem" \in held[d]
                        /\ init_done[d] /\ "pDev" \in held[d] => {"fifo", "regions"} \subseteq held[d]
      BY DEF InterruptsFindDevice
    <2>1. /\ Stage(d) /\ ~Unarmed(d)
          /\ excused[d] \subseteq {"fifo", "fs"} /\ held[d] \subseteq Owned
      BY DEF CoreInv, StageInv, Types, Unarmed
    <2>2. CASE Present(d) \/ Requesting(d) \/ \E k \in 7..8 : Resuming(d, k)
      BY <2>2 DEF Present, Requesting, Resuming, Owned
    <2>3. CASE \E k \in 1..8 : Probing(d, k)
      <3>1. Probing(d, 8)
        BY <2>1, <2>3 DEF Probing
      <3> QED
        BY <2>1, <3>1, Whole DEF Owned
    <2>4. CASE \E k \in 1..13 : Removing(d, k)
      <3>1. PICK k \in 1..13 : Removing(d, k)
        BY <2>4
      <3>2. RemoveBy["mem"] = 13 /\ RemoveBy["fifo"] = 7 /\ RemoveBy["regions"] = 9
        BY DEF RemoveBy
      <3>3. {"mem", "fifo", "regions", "pDev"} \subseteq Owned
        BY DEF Owned
      <3>4. CASE k = 13
        BY <2>1, <3>1, <3>4 DEF Removing
      <3>5. CASE k # 13
        <4>1. "mem" \in held[d]
          BY <3>1, <3>2, <3>3, <3>5 DEF Removing
        <4>2. init_done[d] => k < 7
          BY <3>1, <3>5 DEF Removing
        <4>3. init_done[d] => "fifo" \in held[d] /\ "regions" \in held[d]
          BY <3>1, <3>2, <3>3, <4>2 DEF Removing
        <4> QED
          BY <4>1, <4>3
      <3> QED
        BY <3>4, <3>5
    <2>5. ~Absent(d) /\ ~Hollow(d) /\ (\A k \in 6..9 : ~Hollowing(d, k)) /\ (\A k \in 1..9 : ~Undoing(d, k))
      BY <2>1 DEF Absent, Hollow, Hollowing, Undoing
    <2> QED
      BY <2>1, <2>2, <2>3, <2>4, <2>5 DEF Stage
  <1> QED
    BY <1>1, CoreAlways, PTL

(* A device that processes can use and whose last resume succeeded has all *)
(* the handlers of all the vectors it was given, whatever suspends, resumes*)
(* and attempts of memx_init_msix_irq that failed came before.             *)
THEOREM UsableIsArmedAlways == Spec => []UsableIsArmed
  <1>1. CoreInv => UsableIsArmed
    <2> SUFFICES ASSUME CoreInv, NEW d \in Devices, proc[d] = "bound", "pDev" \in held[d], power[d] = "on"
                 PROVE  init_done[d] /\ registered[d] > 0 /\ registered[d] = vectors[d]
      BY DEF UsableIsArmed, Bound
    <2>1. Stage(d) /\ excused[d] \subseteq {"fifo", "fs"}
      BY DEF CoreInv, StageInv, Types
    <2>2. Present(d)
      BY <2>1 DEF Stage, Absent, Hollow, Requesting, Probing, Hollowing, Undoing, Resuming, Removing
    <2> QED
      BY <2>2 DEF Present, Armed
  <1> QED
    BY <1>1, CoreAlways, PTL

(* A call that has got memx_dev->mutex of a device that was there keeps its*)
(* memory, buffers, BARs and fifo until it gives the mutex back, because   *)
(* memx_pcie_remove waits for it: only the undo of a probe does not.       *)
THEOREM InsideIsWholeAlways == Spec => []InsideIsWhole
  <1>1. CoreInv => InsideIsWhole
    <2> SUFFICES ASSUME CoreInv, NEW u \in Users, upc[u] = "inside", proc[uref[u]] # "undo"
                 PROVE  Range(Acquisitions) \cup {"pDev"} \subseteq held[uref[u]]
      BY DEF InsideIsWhole
    <2> DEFINE d == uref[u]
    <2>1. /\ d \in Devices /\ ~Absent(d) /\ ~Hollow(d)
          /\ \A k \in 1..2 : ~Probing(d, k)
          /\ \A k \in 6..9 : ~Hollowing(d, k)
          /\ \A k \in 2..13 : ~Removing(d, k)
          /\ proc[d] # "undo"
      BY InsideStage
    <2> HIDE DEF d
    <2>2. Stage(d)
      BY <2>1 DEF CoreInv, StageInv
    <2>3. {"mem", "enable", "pages", "regions", "fifo", "pDev"} \subseteq held[d]
      <3>1. CASE Present(d) \/ Requesting(d) \/ \E k \in 7..8 : Resuming(d, k)
        BY <3>1 DEF Present, Requesting, Resuming, Owned
      <3>2. CASE \E k \in 1..8 : Probing(d, k)
        <4>1. PICK k \in 3..8 : Probing(d, k)
          BY <2>1, <3>2
        <4> QED
          BY <4>1 DEF Probing, Owned, ProbeFrom
      <3>3. CASE \E k \in 1..13 : Removing(d, k)
        <4>1. Removing(d, 1)
          BY <2>1, <3>3
        <4> QED
          BY <4>1 DEF Removing, Owned, RemoveBy
      <3>4. \A k \in 1..9 : ~Undoing(d, k)
        BY <2>1 DEF Undoing
      <3> QED
        BY <2>1, <2>2, <3>1, <3>2, <3>3, <3>4 DEF Stage
    <2>4. Range(Acquisitions) \subseteq {"mem", "enable", "pages", "regions", "fifo"}
      BY DEF Acquisitions, Range
    <2> QED
      BY <2>3, <2>4 DEF d
  <1> QED
    BY <1>1, CoreAlways, PTL

-----------------------------------------------------------------------------
(* Numbers.  Where a device is when it is in the list; when it or its cdevs*)
(* have its number; and when it is still to destroy the nodes it may have: *)
(* by its activity, the rest of its script, and what it holds.             *)
OnAt(p, s, h) ==
  \/ p = "resume"
  \/ p = "bound" /\ "pDev" \in h
  \/ p = "probe" /\ "pDev" \in h /\ s # Rest(ProbeScript, 3)
  \/ p = "undo" /\ Size(s) >= 5
  \/ p = "remove" /\ Size(s) >= 11
UseAt(p, s, h) == OnAt(p, s, h) \/ (p = "remove" /\ Size(s) >= 9)
BackAt(p, s, h) ==
  \/ OnAt(p, s, h) /\ ~(p = "undo" /\ Size(s) <= 7)
  \/ p = "remove" /\ Size(s) >= 10

OnList(d) == OnAt(proc[d], script[d], held[d])
InUse(d)  == UseAt(proc[d], script[d], held[d])
Backs(d)  == BackAt(proc[d], script[d], held[d])
Live(d)   == proc[d] \in {"probe", "resume", "bound"}

ListInv ==
  /\ list \in Seq(Entries)
  /\ \A i, j \in DOMAIN list : i < j => minor[list[i]] < minor[list[j]]
  /\ \A d \in Devices : d \in Range(list) <=> OnList(d)
  /\ Others \subseteq Range(list) /\ \A e \in Others : minor[e] = e

Uses(e) == e \in Others \/ (e \in Devices /\ InUse(e))

(* Two that have a number at once share a contested one.                   *)
UserInv ==
  \A d, e \in Entries : d # e /\ Uses(d) /\ Uses(e) /\ minor[d] = minor[e] => minor[d] \in contested

(* Whose cdevs have the number, by their count and, if it is not contested,*)
(* by their names.                                                         *)
Holders(n) == {e \in Entries : minor[e] = n[2] /\ (e \in Others \/ (e \in Devices /\ n[1] \in held[e]))}

CountInv ==
  \A n \in Kinds \X Minors : IsFiniteSet(Holders(n)) /\ Len(cdevs[n]) = Cardinality(Holders(n))

OwnInv ==
  \A n \in Kinds \X Minors : n[2] \notin contested =>
    \A i \in DOMAIN cdevs[n] : cdevs[n][i] \in Holders(n)

(* Every node has a device that will destroy it, and every device has the  *)
(* nodes it has made unless it must share its number.                      *)
NodeInv ==
  \A n \in nodes : \E e \in Entries :
    minor[e] = n[2] /\ (e \in Others \/ (e \in Devices /\ Backs(e)))

OwnNodeInv ==
  \A d \in Devices, kind \in Kinds :
    Live(d) /\ kind \in held[d] /\ minor[d] \notin contested => <<kind, minor[d]>> \in nodes

NumberInv == ListInv /\ UserInv /\ CountInv /\ OwnInv /\ NodeInv /\ OwnNodeInv

-----------------------------------------------------------------------------
(* The positions in every script.                                          *)
LEMMA Sizes ==
  /\ \A k \in 1..9 : Size(Rest(UndoScript, k)) = 10 - k
  /\ \A k \in 1..13 : Size(Rest(RemoveScript, k)) = 14 - k
  /\ \A k \in 1..8 : Rest(ProbeScript, k) = Rest(ProbeScript, 3) => k = 3
  /\ RequestScript # Rest(ProbeScript, 3)
  <1>1. \A k \in 1..9 : Size(Rest(UndoScript, k)) = 10 - k
    BY UndoTable, RestFacts
  <1>2. \A k \in 1..13 : Size(Rest(RemoveScript, k)) = 14 - k
    <2>1. RemoveScript \in Scripts /\ Size(RemoveScript) = 13
      BY RemoveTable
    <2> QED
      BY <2>1, RestFacts
  <1>3. \A k \in 1..8 : Size(Rest(ProbeScript, k)) = 9 - k
    BY ProbeTable, RestFacts
  <1>4. Size(RequestScript) = 2
    BY RequestTable
  <1> QED
    BY <1>1, <1>2, <1>3, <1>4

LEMMA PlaceTable ==
  \A h :
    /\ \A s : ~OnAt("none", s, h) /\ ~UseAt("none", s, h) /\ ~BackAt("none", s, h)
    /\ \A s : OnAt("resume", s, h) /\ UseAt("resume", s, h) /\ BackAt("resume", s, h)
    /\ \A s : /\ OnAt("bound", s, h) <=> "pDev" \in h
              /\ UseAt("bound", s, h) <=> "pDev" \in h
              /\ BackAt("bound", s, h) <=> "pDev" \in h
    /\ \A s : "pDev" \notin h => /\ ~OnAt("probe", s, h) /\ ~UseAt("probe", s, h)
                                 /\ ~BackAt("probe", s, h)
    /\ "pDev" \in h => /\ OnAt("probe", RequestScript, h) /\ UseAt("probe", RequestScript, h)
                       /\ BackAt("probe", RequestScript, h)
    /\ \A k \in 1..8 :
         /\ OnAt("probe", Rest(ProbeScript, k), h) <=> ("pDev" \in h /\ k # 3)
         /\ UseAt("probe", Rest(ProbeScript, k), h) <=> ("pDev" \in h /\ k # 3)
         /\ BackAt("probe", Rest(ProbeScript, k), h) <=> ("pDev" \in h /\ k # 3)
    /\ \A k \in 1..9 :
         /\ OnAt("undo", Rest(UndoScript, k), h) <=> k <= 5
         /\ UseAt("undo", Rest(UndoScript, k), h) <=> k <= 5
         /\ BackAt("undo", Rest(UndoScript, k), h) <=> k <= 2
    /\ \A k \in 1..13 :
         /\ OnAt("remove", Rest(RemoveScript, k), h) <=> k <= 3
         /\ UseAt("remove", Rest(RemoveScript, k), h) <=> k <= 5
         /\ BackAt("remove", Rest(RemoveScript, k), h) <=> k <= 4
  <1> SUFFICES ASSUME NEW h
               PROVE  /\ \A s : ~OnAt("none", s, h) /\ ~UseAt("none", s, h) /\ ~BackAt("none", s, h)
                      /\ \A s : OnAt("resume", s, h) /\ UseAt("resume", s, h) /\ BackAt("resume", s, h)
                      /\ \A s : /\ OnAt("bound", s, h) <=> "pDev" \in h
                                /\ UseAt("bound", s, h) <=> "pDev" \in h
                                /\ BackAt("bound", s, h) <=> "pDev" \in h
                      /\ \A s : "pDev" \notin h => /\ ~OnAt("probe", s, h) /\ ~UseAt("probe", s, h)
                                                   /\ ~BackAt("probe", s, h)
                      /\ "pDev" \in h => /\ OnAt("probe", RequestScript, h)
                                         /\ UseAt("probe", RequestScript, h)
                                         /\ BackAt("probe", RequestScript, h)
                      /\ \A k \in 1..8 :
                           /\ OnAt("probe", Rest(ProbeScript, k), h) <=> ("pDev" \in h /\ k # 3)
                           /\ UseAt("probe", Rest(ProbeScript, k), h) <=> ("pDev" \in h /\ k # 3)
                           /\ BackAt("probe", Rest(ProbeScript, k), h) <=> ("pDev" \in h /\ k # 3)
                      /\ \A k \in 1..9 :
                           /\ OnAt("undo", Rest(UndoScript, k), h) <=> k <= 5
                           /\ UseAt("undo", Rest(UndoScript, k), h) <=> k <= 5
                           /\ BackAt("undo", Rest(UndoScript, k), h) <=> k <= 2
                      /\ \A k \in 1..13 :
                           /\ OnAt("remove", Rest(RemoveScript, k), h) <=> k <= 3
                           /\ UseAt("remove", Rest(RemoveScript, k), h) <=> k <= 5
                           /\ BackAt("remove", Rest(RemoveScript, k), h) <=> k <= 4
    OBVIOUS
  <1>1. \A s : ~OnAt("none", s, h) /\ ~UseAt("none", s, h) /\ ~BackAt("none", s, h)
    BY DEF OnAt, UseAt, BackAt
  <1>2. \A s : OnAt("resume", s, h) /\ UseAt("resume", s, h) /\ BackAt("resume", s, h)
    BY DEF OnAt, UseAt, BackAt
  <1>3. \A s : /\ OnAt("bound", s, h) <=> "pDev" \in h
               /\ UseAt("bound", s, h) <=> "pDev" \in h
               /\ BackAt("bound", s, h) <=> "pDev" \in h
    BY DEF OnAt, UseAt, BackAt
  <1>4. \A s : /\ OnAt("probe", s, h) <=> ("pDev" \in h /\ s # Rest(ProbeScript, 3))
               /\ UseAt("probe", s, h) <=> ("pDev" \in h /\ s # Rest(ProbeScript, 3))
               /\ BackAt("probe", s, h) <=> ("pDev" \in h /\ s # Rest(ProbeScript, 3))
    BY DEF OnAt, UseAt, BackAt
  <1>5. \A k \in 1..9 :
          /\ OnAt("undo", Rest(UndoScript, k), h) <=> k <= 5
          /\ UseAt("undo", Rest(UndoScript, k), h) <=> k <= 5
          /\ BackAt("undo", Rest(UndoScript, k), h) <=> k <= 2
    <2> SUFFICES ASSUME NEW k \in 1..9
                 PROVE  /\ OnAt("undo", Rest(UndoScript, k), h) <=> k <= 5
                        /\ UseAt("undo", Rest(UndoScript, k), h) <=> k <= 5
                        /\ BackAt("undo", Rest(UndoScript, k), h) <=> k <= 2
      OBVIOUS
    <2>1. Size(Rest(UndoScript, k)) = 10 - k
      BY Sizes
    <2> QED
      BY <2>1 DEF OnAt, UseAt, BackAt
  <1>6. \A k \in 1..13 :
          /\ OnAt("remove", Rest(RemoveScript, k), h) <=> k <= 3
          /\ UseAt("remove", Rest(RemoveScript, k), h) <=> k <= 5
          /\ BackAt("remove", Rest(RemoveScript, k), h) <=> k <= 4
    <2> SUFFICES ASSUME NEW k \in 1..13
                 PROVE  /\ OnAt("remove", Rest(RemoveScript, k), h) <=> k <= 3
                        /\ UseAt("remove", Rest(RemoveScript, k), h) <=> k <= 5
                        /\ BackAt("remove", Rest(RemoveScript, k), h) <=> k <= 4
      OBVIOUS
    <2>1. Size(Rest(RemoveScript, k)) = 14 - k
      BY Sizes
    <2> QED
      BY <2>1 DEF OnAt, UseAt, BackAt
  <1>7. \A k \in 1..8 : Rest(ProbeScript, k) # Rest(ProbeScript, 3) <=> k # 3
    BY Sizes
  <1>8. \A k \in 1..8 :
          /\ OnAt("probe", Rest(ProbeScript, k), h) <=> ("pDev" \in h /\ k # 3)
          /\ UseAt("probe", Rest(ProbeScript, k), h) <=> ("pDev" \in h /\ k # 3)
          /\ BackAt("probe", Rest(ProbeScript, k), h) <=> ("pDev" \in h /\ k # 3)
    BY <1>4, <1>7
  <1>9. /\ \A s : "pDev" \notin h => /\ ~OnAt("probe", s, h) /\ ~UseAt("probe", s, h)
                                     /\ ~BackAt("probe", s, h)
        /\ "pDev" \in h => /\ OnAt("probe", RequestScript, h)
                           /\ UseAt("probe", RequestScript, h)
                           /\ BackAt("probe", RequestScript, h)
    BY <1>4, Sizes
  <1> QED
    BY <1>1, <1>2, <1>3, <1>5, <1>6, <1>8, <1>9

(* Where a device is in the stages that the steps below start from.        *)
Off(d) == ~OnList(d) /\ ~InUse(d) /\ ~Backs(d) /\ \A kind \in Kinds : kind \notin held[d]
On(d)  == OnList(d) /\ InUse(d) /\ Backs(d)

LEMMA Positions ==
  ASSUME Types, NEW d \in Devices
  PROVE  /\ Absent(d) \/ Hollow(d) => Off(d)
         /\ Present(d) \/ Requesting(d) => On(d)
         /\ \A k \in 1..3 : Probing(d, k) => Off(d)
         /\ \A k \in 4..8 : Probing(d, k) => On(d)
         /\ \A k \in 6..9 : Hollowing(d, k) => Off(d)
         /\ \A k \in 1..2 : Undoing(d, k) => On(d)
         /\ \A k \in 3..5 : Undoing(d, k) => OnList(d) /\ InUse(d) /\ ~Backs(d)
         /\ \A k \in 4..9 : Undoing(d, k) => \A kind \in Kinds : kind \notin held[d]
         /\ \A k \in 6..9 : Undoing(d, k) => Off(d)
         /\ \A k \in 7..8 : Resuming(d, k) => On(d)
         /\ \A k \in 1..3 : Removing(d, k) => On(d)
         /\ \A k \in 4..5 : Removing(d, k) => ~OnList(d) /\ InUse(d)
         /\ Removing(d, 4) => Backs(d)
         /\ Removing(d, 5) => ~Backs(d)
         /\ \A k \in 6..13 : Removing(d, k) => Off(d)
  <1>1. /\ held[d] \subseteq Owned /\ excused[d] \subseteq {"fifo", "fs"}
        /\ "pDev" \in Owned /\ Kinds \subseteq Owned
        /\ \A kind \in Kinds : kind \notin {"fifo", "fs", "mem", "pDev"}
        /\ ProbeFrom["pDev"] = 2
        /\ \A kind \in Kinds : ProbeFrom[kind] \in 4..5 /\ UndoBy[kind] = 3 /\ RemoveBy[kind] = 5
    BY DEF Types, Owned, Kinds, ProbeFrom, UndoBy, RemoveBy
  <1>2. Absent(d) \/ Hollow(d) => Off(d)
    <2> SUFFICES ASSUME Absent(d) \/ Hollow(d) PROVE Off(d)
      OBVIOUS
    <2>1. proc[d] \in {"none", "bound"} /\ held[d] \subseteq {"fifo", "fs"}
      BY <1>1 DEF Absent, Hollow
    <2>2. "pDev" \notin held[d] /\ \A kind \in Kinds : kind \notin held[d]
      BY <1>1, <2>1
    <2>3. ~OnList(d) /\ ~InUse(d) /\ ~Backs(d)
      BY <2>1, <2>2, PlaceTable DEF OnList, InUse, Backs
    <2> QED
      BY <2>2, <2>3 DEF Off
  <1>3. Present(d) \/ Requesting(d) => On(d)
    BY <1>1, PlaceTable DEF Present, Requesting, On, OnList, InUse, Backs
  <1>4. ASSUME NEW k \in 1..8, Probing(d, k)
        PROVE  IF k <= 3 THEN Off(d) ELSE On(d)
    <2>1. /\ proc[d] = "probe" /\ script[d] = Rest(ProbeScript, k)
          /\ \A r \in Owned : r \in held[d] <=> k > ProbeFrom[r]
      BY <1>4 DEF Probing
    <2>2. /\ "pDev" \in held[d] <=> k > 2
          /\ k <= 3 => \A kind \in Kinds : kind \notin held[d]
      BY <1>1, <2>1
    <2>3. /\ OnAt("probe", Rest(ProbeScript, k), held[d]) <=> ("pDev" \in held[d] /\ k # 3)
          /\ UseAt("probe", Rest(ProbeScript, k), held[d]) <=> ("pDev" \in held[d] /\ k # 3)
          /\ BackAt("probe", Rest(ProbeScript, k), held[d]) <=> ("pDev" \in held[d] /\ k # 3)
      BY PlaceTable
    <2> QED
      BY <2>1, <2>2, <2>3 DEF Off, On, OnList, InUse, Backs
  <1>5. \A k \in 6..9 : Hollowing(d, k) => Off(d)
    <2> SUFFICES ASSUME NEW k \in 6..9, Hollowing(d, k) PROVE Off(d)
      OBVIOUS
    <2>1. proc[d] = "probe" /\ "pDev" \notin held[d] /\ \A kind \in Kinds : kind \notin held[d]
      BY <1>1 DEF Hollowing
    <2> QED
      BY <2>1, PlaceTable DEF Off, OnList, InUse, Backs
  <1>6. ASSUME NEW k \in 1..9, Undoing(d, k)
        PROVE  /\ OnList(d) <=> k <= 5
               /\ InUse(d) <=> k <= 5
               /\ Backs(d) <=> k <= 2
               /\ k > 3 => \A kind \in Kinds : kind \notin held[d]
    <2>1. /\ proc[d] = "undo" /\ script[d] = Rest(UndoScript, k)
          /\ \A r \in held[d] \ excused[d] : k <= UndoBy[r]
      BY <1>6 DEF Undoing
    <2> QED
      BY <1>1, <2>1, PlaceTable DEF OnList, InUse, Backs
  <1>7. \A k \in 7..8 : Resuming(d, k) => On(d)
    BY PlaceTable DEF Resuming, On, OnList, InUse, Backs
  <1>8. ASSUME NEW k \in 1..13, Removing(d, k)
        PROVE  /\ OnList(d) <=> k <= 3
               /\ InUse(d) <=> k <= 5
               /\ Backs(d) <=> k <= 4
               /\ k > 5 => \A kind \in Kinds : kind \notin held[d]
    <2>1. /\ proc[d] = "remove" /\ script[d] = Rest(RemoveScript, k)
          /\ k < 13 => \A r \in Owned : r \in held[d] <=> k <= RemoveBy[r]
          /\ k = 13 => \A r \in held[d] : r = "mem" \/ r \in excused[d]
      BY <1>8 DEF Removing
    <2>2. k > 5 => \A kind \in Kinds : kind \notin held[d]
      BY <1>1, <2>1
    <2> QED
      BY <2>1, <2>2, PlaceTable DEF OnList, InUse, Backs
  <1>9. \A k \in 1..3 : Probing(d, k) => Off(d)
    BY <1>4
  <1>10. \A k \in 4..8 : Probing(d, k) => On(d)
    BY <1>4
  <1>11. \A k \in 1..2 : Undoing(d, k) => On(d)
    BY <1>6 DEF On
  <1>12. \A k \in 3..5 : Undoing(d, k) => OnList(d) /\ InUse(d) /\ ~Backs(d)
    BY <1>6
  <1>13. \A k \in 4..9 : Undoing(d, k) => \A kind \in Kinds : kind \notin held[d]
    BY <1>6
  <1>14. \A k \in 6..9 : Undoing(d, k) => Off(d)
    BY <1>6 DEF Off
  <1>15. \A k \in 1..3 : Removing(d, k) => On(d)
    BY <1>8 DEF On
  <1>16. /\ \A k \in 4..5 : Removing(d, k) => ~OnList(d) /\ InUse(d)
         /\ Removing(d, 4) => Backs(d)
         /\ Removing(d, 5) => ~Backs(d)
    BY <1>8
  <1>17. \A k \in 6..13 : Removing(d, k) => Off(d)
    BY <1>8 DEF Off
  <1> QED
    BY <1>2, <1>3, <1>5, <1>7, <1>9, <1>10, <1>11, <1>12, <1>13, <1>14, <1>15, <1>16, <1>17

(* Who has a cdev uses its number, and is in the list if it may be used.   *)
LEMMA HeldInUse ==
  ASSUME Types, NEW d \in Devices, Stage(d), NEW kind \in Kinds, kind \in held[d]
  PROVE  InUse(d) /\ (Live(d) => OnList(d))
  <1>1. ~Off(d)
    BY DEF Off
  <1>2. CASE Absent(d) \/ Present(d) \/ Hollow(d) \/ Requesting(d)
    BY <1>1, <1>2, Positions DEF On
  <1>3. CASE \E k \in 1..8 : Probing(d, k)
    <2>1. PICK k \in 1..8 : Probing(d, k)
      BY <1>3
    <2>2. k \in 1..3 \/ k \in 4..8
      OBVIOUS
    <2> QED
      BY <1>1, <2>1, <2>2, Positions DEF On
  <1>4. CASE \E k \in 6..9 : Hollowing(d, k)
    BY <1>1, <1>4, Positions
  <1>5. CASE \E k \in 1..9 : Undoing(d, k)
    <2>1. PICK k \in 1..9 : Undoing(d, k)
      BY <1>5
    <2>2. k \in 1..2 \/ k \in 3..5 \/ k \in 6..9
      OBVIOUS
    <2> QED
      BY <1>1, <2>1, <2>2, Positions DEF On
  <1>6. CASE \E k \in 7..8 : Resuming(d, k)
    BY <1>6, Positions DEF On
  <1>7. CASE \E k \in 1..13 : Removing(d, k)
    <2>1. PICK k \in 1..13 : Removing(d, k)
      BY <1>7
    <2>2. k \in 1..3 \/ k \in 4..5 \/ k \in 6..13
      OBVIOUS
    <2>3. ~Live(d)
      BY <2>1 DEF Removing, Live
    <2> QED
      BY <1>1, <2>1, <2>2, <2>3, Positions DEF On
  <1> QED
    BY <1>2, <1>3, <1>4, <1>5, <1>6, <1>7 DEF Stage

(* Who has taken a number off the list and still uses it is in a removal.  *)
LEMMA UsedOffList ==
  ASSUME Types, NEW d \in Devices, Stage(d), InUse(d), ~OnList(d)
  PROVE  \E k \in 4..5 : Removing(d, k)
  <1>1. ~Off(d) /\ ~On(d)
    BY DEF Off, On
  <1>2. CASE Absent(d) \/ Present(d) \/ Hollow(d) \/ Requesting(d)
    BY <1>1, <1>2, Positions
  <1>3. CASE \E k \in 1..8 : Probing(d, k)
    <2>1. PICK k \in 1..8 : Probing(d, k)
      BY <1>3
    <2>2. k \in 1..3 \/ k \in 4..8
      OBVIOUS
    <2> QED
      BY <1>1, <2>1, <2>2, Positions
  <1>4. CASE \E k \in 6..9 : Hollowing(d, k)
    BY <1>1, <1>4, Positions
  <1>5. CASE \E k \in 1..9 : Undoing(d, k)
    <2>1. PICK k \in 1..9 : Undoing(d, k)
      BY <1>5
    <2>2. k \in 1..2 \/ k \in 3..5 \/ k \in 6..9
      OBVIOUS
    <2> QED
      BY <1>1, <2>1, <2>2, Positions
  <1>6. CASE \E k \in 7..8 : Resuming(d, k)
    BY <1>1, <1>6, Positions
  <1>7. CASE \E k \in 1..13 : Removing(d, k)
    <2>1. PICK k \in 1..13 : Removing(d, k)
      BY <1>7
    <2>2. k \in 1..3 \/ k \in 4..5 \/ k \in 6..13
      OBVIOUS
    <2> QED
      BY <1>1, <2>1, <2>2, Positions
  <1> QED
    BY <1>2, <1>3, <1>4, <1>5, <1>6, <1>7 DEF Stage

-----------------------------------------------------------------------------
(* Steps that leave the numbers alone.                                     *)
Quiet(d) ==
  /\ OnList(d)' <=> OnList(d)
  /\ InUse(d)' <=> InUse(d)
  /\ Backs(d)' <=> Backs(d)
  /\ \A kind \in Kinds : kind \in held'[d] <=> kind \in held[d]
  /\ \A kind \in Kinds : kind \in held[d] /\ Live(d)' => Live(d)

Still(e) == proc'[e] = proc[e] /\ script'[e] = script[e] /\ held'[e] = held[e]

LEMMA StillQuiet == ASSUME NEW e, Still(e) PROVE Quiet(e)
  BY DEF Still, Quiet, OnList, InUse, Backs, Live

(* From off to off, and from on to on.                                     *)
LEMMA OffQuiet == ASSUME NEW e, Off(e), Off(e)' PROVE Quiet(e)
  BY DEF Off, Quiet

LEMMA OnQuiet ==
  ASSUME NEW e, On(e), On(e)', Live(e)' => Live(e),
         \A kind \in Kinds : kind \in held'[e] <=> kind \in held[e]
  PROVE  Quiet(e)
  BY DEF On, Quiet

LEMMA QuietNumbers ==
  ASSUME NumberInv, UNCHANGED nameVars, \A e \in Devices : Quiet(e)
  PROVE  NumberInv'
  <1>1. /\ list' = list /\ minor' = minor /\ nodes' = nodes /\ cdevs' = cdevs
        /\ contested' = contested
    BY DEF nameVars
  <1>2. ListInv'
    BY <1>1 DEF NumberInv, ListInv, Quiet
  <1>3. \A e \in Entries : Uses(e)' <=> Uses(e)
    BY DEF Uses, Quiet
  <1>4. UserInv'
    BY <1>1, <1>3 DEF NumberInv, UserInv
  <1>5. \A n \in Kinds \X Minors : Holders(n)' = Holders(n)
    BY <1>1 DEF Holders, Quiet
  <1>6. CountInv' /\ OwnInv'
    BY <1>1, <1>5 DEF NumberInv, CountInv, OwnInv
  <1>7. NodeInv'
    BY <1>1 DEF NumberInv, NodeInv, Quiet
  <1>8. OwnNodeInv'
    BY <1>1 DEF NumberInv, OwnNodeInv, Quiet
  <1> QED
    BY <1>2, <1>4, <1>6, <1>7, <1>8 DEF NumberInv

LEMMA QuietAction ==
  ASSUME NumberInv, UNCHANGED nameVars, NEW d \in Devices, Quiet(d), Moves(d),
         \A e \in Devices \ {d} : held'[e] = held[e]
  PROVE  NumberInv'
  <1>1. \A e \in Devices \ {d} : Still(e)
    BY DEF Still, Moves
  <1>2. \A e \in Devices : Quiet(e)
    BY <1>1, StillQuiet
  <1> QED
    BY <1>2, QuietNumbers

LEMMA AcquireNumbers ==
  ASSUME CoreInv, NumberInv, NEW d \in Devices, Acquire(d)
  PROVE  NumberInv'
  <1>1. Types /\ Stage(d) /\ held \in [Devices -> SUBSET Owned]
    BY DEF CoreInv, StageInv, Types
  <1>2. Probing(d, 1)
    BY <1>1, StageOf, ProbeTable DEF Acquire
  <1>3. /\ proc[d] = "probe" /\ script[d] = Rest(ProbeScript, 1) /\ UNCHANGED nameVars
    BY <1>2 DEF Probing, Acquire
  <1>4. PICK n \in 0..5 : /\ held' = [held EXCEPT ![d] = {Acquisitions[i] : i \in 1..n}]
                          /\ IF n = 5 THEN Advance(d) ELSE Fail(d, Acquisitions[n + 1])
    BY Acquired DEF Acquire
  <1>5. /\ "pDev" \notin held'[d] /\ \A kind \in Kinds : kind \notin held'[d]
        /\ \A e \in Devices \ {d} : held'[e] = held[e]
    BY <1>1, <1>4 DEF Acquisitions, Kinds
  <1>6. Moves(d) /\ ~OnList(d)' /\ ~InUse(d)' /\ ~Backs(d)'
    <2>1. CASE n = 5
      <3>1. Moves(d) /\ proc'[d] = "probe"
        BY <1>1, <1>3, <1>4, <2>1, SkipFacts, ProbeTable DEF Advance
      <3> QED
        BY <1>5, <3>1, PlaceTable DEF OnList, InUse, Backs
    <2>2. CASE n # 5
      <3>1. Moves(d) /\ proc'[d] = "undo" /\ script'[d] = From(Label[Acquisitions[n + 1]])
        BY <1>1, <1>3, <1>4, <2>2, FailFacts
      <3>2. script'[d] = Rest(UndoScript, IF n < 2 THEN 9 ELSE 10 - n)
        BY <2>2, <3>1, Labels DEF Acquisitions
      <3>3. (IF n < 2 THEN 9 ELSE 10 - n) \in 6..9
        BY <2>2
      <3> QED
        BY <3>1, <3>2, <3>3, PlaceTable DEF OnList, InUse, Backs
    <2> QED
      BY <2>1, <2>2
  <1>7. Off(d) /\ Off(d)'
    BY <1>1, <1>2, <1>5, <1>6, Positions DEF Off
  <1> QED
    BY <1>3, <1>5, <1>6, <1>7, OffQuiet, QuietAction

LEMMA BarsNumbers ==
  ASSUME CoreInv, NumberInv, NEW d \in Devices, Bars(d)
  PROVE  NumberInv'
  <1>1. Types /\ Stage(d) /\ held \in [Devices -> SUBSET Owned]
    BY DEF CoreInv, StageInv, Types
  <1>2. Probing(d, 2)
    BY <1>1, StageOf, ProbeTable DEF Bars
  <1>3. /\ proc[d] = "probe" /\ script[d] = Rest(ProbeScript, 2) /\ UNCHANGED nameVars
        /\ \A r \in Owned : r \in held[d] <=> 2 > ProbeFrom[r]
    BY <1>2 DEF Probing, Bars
  <1>4. Off(d) /\ "pDev" \notin held[d] /\ \A kind \in Kinds : kind \notin held[d] /\ kind # "pDev"
    BY <1>1, <1>2, <1>3, Positions DEF Owned, ProbeFrom, Off, Kinds
  <1>5. Moves(d) /\ Off(d)' /\ \A e \in Devices \ {d} : held'[e] = held[e]
    <2>1. CASE held' = [held EXCEPT ![d] = @ \cup {"pDev"}] /\ Advance(d)
      <3>1. Moves(d) /\ script'[d] = Rest(ProbeScript, 3) /\ proc'[d] = "probe"
        BY <1>1, <1>3, <2>1, SkipFacts, ProbeTable DEF Advance
      <3>2. ~OnList(d)' /\ ~InUse(d)' /\ ~Backs(d)'
        BY <3>1, PlaceTable DEF OnList, InUse, Backs
      <3>3. held'[d] = held[d] \cup {"pDev"} /\ \A e \in Devices \ {d} : held'[e] = held[e]
        BY <1>1, <2>1
      <3> QED
        BY <1>4, <3>1, <3>2, <3>3 DEF Off
    <2>2. CASE /\ script' = [script EXCEPT ![d] = From(Label["bars"])]
               /\ UNCHANGED <<proc, held>>
      <3>1. Moves(d) /\ proc'[d] = "probe"
        <4>1. script = [e \in Devices |-> script[e]] /\ proc \in [Devices -> Activities]
          BY <1>1 DEF Types, Activities
        <4> QED
          BY <1>3, <2>2, <4>1 DEF Moves
      <3>2. ~OnList(d)' /\ ~InUse(d)' /\ ~Backs(d)'
        BY <1>4, <2>2, <3>1, PlaceTable DEF OnList, InUse, Backs
      <3> QED
        BY <1>4, <2>2, <3>1, <3>2 DEF Off
    <2> QED
      BY <2>1, <2>2 DEF Bars
  <1> QED
    BY <1>3, <1>4, <1>5, OffQuiet, QuietAction

LEMMA FsInitNumbers ==
  ASSUME CoreInv, NumberInv, NEW d \in Devices, FsInit(d)
  PROVE  NumberInv'
  <1>1. Types /\ Stage(d) /\ held \in [Devices -> SUBSET Owned]
    BY DEF CoreInv, StageInv, Types
  <1>2. Probing(d, 6) /\ On(d)
    BY <1>1, StageOf, Positions, ProbeTable DEF FsInit
  <1>3. /\ proc[d] = "probe" /\ script[d] = Rest(ProbeScript, 6) /\ UNCHANGED nameVars
        /\ \A r \in Owned : r \in held[d] <=> 6 > ProbeFrom[r]
    BY <1>2 DEF Probing, FsInit
  <1>4. /\ held'[d] = held[d] \/ held'[d] = held[d] \cup {"fs"}
        /\ \A e \in Devices \ {d} : held'[e] = held[e]
    BY <1>1 DEF FsInit
  <1>5. "pDev" \in held'[d] /\ \A kind \in Kinds : kind \in held'[d] <=> kind \in held[d]
    BY <1>3, <1>4 DEF Owned, ProbeFrom, Kinds
  <1>6. Moves(d) /\ On(d)'
    <2>1. CASE Advance(d)
      <3>1. Moves(d) /\ script'[d] = Rest(ProbeScript, 7) /\ proc'[d] = "probe"
        BY <1>1, <1>3, <2>1, SkipFacts, ProbeTable DEF Advance
      <3> QED
        BY <1>5, <3>1, PlaceTable DEF On, OnList, InUse, Backs
    <2>2. CASE Fail(d, "fs")
      <3>1. Moves(d) /\ proc'[d] = "undo" /\ script'[d] = Rest(UndoScript, 2)
        BY <1>1, <1>3, <2>2, FailFacts, Labels
      <3> QED
        BY <3>1, PlaceTable DEF On, OnList, InUse, Backs
    <2> QED
      BY <2>1, <2>2 DEF FsInit
  <1>7. Live(d)
    BY <1>3 DEF Live
  <1> QED
    BY <1>2, <1>3, <1>4, <1>5, <1>6, <1>7, OnQuiet, QuietAction

(* A whole device stays whole or is undone from the first label.           *)
LEMMA WholeQuiet ==
  ASSUME Types, NEW d \in Devices, On(d), Live(d), held[d] = Owned, UNCHANGED held,
         \/ proc'[d] = "probe" /\ \E k \in {7, 8} : script'[d] = Rest(ProbeScript, k)
         \/ proc'[d] = "probe" /\ script'[d] = RequestScript
         \/ proc'[d] \in {"resume", "bound"}
         \/ proc'[d] = "undo" /\ script'[d] = Rest(UndoScript, 1)
  PROVE  Quiet(d)
  <1>1. "pDev" \in held'[d]
    BY DEF Owned
  <1>2. On(d)'
    <2>1. CASE proc'[d] = "probe" /\ \E k \in {7, 8} : script'[d] = Rest(ProbeScript, k)
      BY <1>1, <2>1, PlaceTable DEF On, OnList, InUse, Backs
    <2>2. CASE proc'[d] = "probe" /\ script'[d] = RequestScript
      BY <1>1, <2>2, PlaceTable DEF On, OnList, InUse, Backs
    <2>3. CASE proc'[d] \in {"resume", "bound"}
      BY <1>1, <2>3, PlaceTable DEF On, OnList, InUse, Backs
    <2>4. CASE proc'[d] = "undo" /\ script'[d] = Rest(UndoScript, 1)
      BY <2>4, PlaceTable DEF On, OnList, InUse, Backs
    <2> QED
      BY <2>1, <2>2, <2>3, <2>4
  <1> QED
    BY <1>2, OnQuiet

LEMMA FirmwareNumbers ==
  ASSUME CoreInv, NumberInv, NEW d \in Devices, Firmware(d)
  PROVE  NumberInv'
  <1>1. Types /\ Stage(d) /\ held[d] \in SUBSET Owned
    BY DEF CoreInv, StageInv, Types
  <1>2. Probing(d, 8) \/ Resuming(d, 8)
    BY <1>1, StageOf DEF Firmware
  <1>3. /\ proc[d] \in {"probe", "resume"} /\ script[d] = Rest(ProbeScript, 8) /\ held[d] = Owned
        /\ On(d) /\ UNCHANGED <<held, nameVars>>
    BY <1>1, <1>2, Whole, Positions DEF Probing, Resuming, Firmware
  <1>4. /\ Moves(d)
        /\ proc'[d] = "bound" \/ (proc'[d] = "undo" /\ script'[d] = Rest(UndoScript, 1))
    <2>1. CASE Advance(d)
      BY <1>1, <1>3, <2>1, SkipFacts, ProbeTable DEF Advance
    <2>2. CASE Fail(d, "firmware")
      <3>1. script[d] \in Scripts
        BY <1>3, RestFacts, ProbeTable
      <3> QED
        BY <1>1, <1>3, <2>2, <3>1, FailFacts, Labels
    <2> QED
      BY <2>1, <2>2 DEF Firmware
  <1>5. Quiet(d)
    BY <1>1, <1>3, <1>4, WholeQuiet DEF Live
  <1> QED
    BY <1>3, <1>4, <1>5, QuietAction

LEMMA MsixNumbers ==
  ASSUME CoreInv, NumberInv, NEW d \in Devices, Msix(d)
  PROVE  NumberInv'
  <1>1. /\ Types /\ Stage(d) /\ held[d] \in SUBSET Owned
        /\ script = [e \in Devices |-> script[e]] /\ proc \in [Devices -> Activities]
    BY DEF CoreInv, StageInv, Types, Activities
  <1>2. Probing(d, 7) \/ Resuming(d, 7)
    BY <1>1, StageOf DEF Msix
  <1>3. /\ proc[d] \in {"probe", "resume"} /\ script[d] = Rest(ProbeScript, 7) /\ held[d] = Owned
        /\ On(d) /\ UNCHANGED <<held, nameVars>>
    BY <1>1, <1>2, Whole, Positions DEF Probing, Resuming, Msix
  <1>4. /\ Moves(d)
        /\ \/ proc'[d] = "probe" /\ script'[d] = Rest(ProbeScript, 8)
           \/ proc'[d] = "probe" /\ script'[d] = RequestScript
           \/ proc'[d] \in {"resume", "bound"}
           \/ proc'[d] = "undo" /\ script'[d] = Rest(UndoScript, 1)
    <2>1. CASE Advance(d)
      <3>1. Moves(d) /\ script'[d] = Rest(ProbeScript, 8) /\ proc'[d] = proc[d]
        BY <1>1, <1>3, <2>1, SkipFacts, ProbeTable DEF Advance
      <3> QED
        BY <1>3, <3>1
    <2>2. CASE script' = [script EXCEPT ![d] = <<"request">> \o Tail(@)] /\ UNCHANGED proc
      <3>1. script' = [script EXCEPT ![d] = RequestScript] /\ proc' = proc
        BY <1>3, <2>2, RequestRest
      <3> QED
        BY <1>1, <1>3, <3>1 DEF Moves
    <2>3. CASE Fail(d, "msix")
      <3>1. script[d] \in Scripts
        BY <1>3, RestFacts, ProbeTable
      <3> QED
        BY <1>1, <1>3, <2>3, <3>1, FailFacts, Labels
    <2> QED
      BY <2>1, <2>2, <2>3 DEF Msix
  <1>5. Quiet(d)
    BY <1>1, <1>3, <1>4, WholeQuiet DEF Live
  <1> QED
    BY <1>3, <1>4, <1>5, QuietAction

LEMMA RequestNumbers ==
  ASSUME CoreInv, NumberInv, NEW d \in Devices, Request(d)
  PROVE  NumberInv'
  <1>1. /\ Types /\ Stage(d)
        /\ script = [e \in Devices |-> script[e]] /\ proc \in [Devices -> Activities]
    BY DEF CoreInv, StageInv, Types, Activities
  <1>2. Requesting(d)
    BY <1>1, StageOf DEF Request
  <1>3. /\ proc[d] \in {"probe", "resume"} /\ script[d] = RequestScript /\ held[d] = Owned
        /\ On(d) /\ UNCHANGED <<held, nameVars>>
    BY <1>1, <1>2, Positions DEF Requesting, Request
  <1>4. /\ Moves(d)
        /\ \/ proc'[d] = "probe" /\ script'[d] = Rest(ProbeScript, 8)
           \/ proc'[d] = "probe" /\ script'[d] = RequestScript
           \/ proc'[d] \in {"resume", "bound"}
           \/ proc'[d] = "undo" /\ script'[d] = Rest(UndoScript, 1)
    <2>1. CASE Advance(d)
      <3>1. Rest(RequestScript, 1) = RequestScript
        BY RequestTable, RestFull
      <3>2. Moves(d) /\ script'[d] = Rest(ProbeScript, 8) /\ proc'[d] = proc[d]
        BY <1>1, <1>3, <2>1, <3>1, SkipFacts, RequestTable, RequestRest DEF Advance
      <3> QED
        BY <1>3, <3>2
    <2>2. CASE UNCHANGED <<proc, script>>
      BY <1>1, <1>3, <2>2 DEF Moves
    <2>3. CASE Fail(d, "request")
      <3>1. script[d] \in Scripts
        BY <1>3, RequestTable
      <3> QED
        BY <1>1, <1>3, <2>3, <3>1, FailFacts, Labels
    <2> QED
      BY <2>1, <2>2, <2>3 DEF Request
  <1>5. Quiet(d)
    BY <1>1, <1>3, <1>4, WholeQuiet DEF Live
  <1> QED
    BY <1>3, <1>4, <1>5, QuietAction

LEMMA ReleaseNumbers ==
  ASSUME CoreInv, NumberInv, NEW d \in Devices, Release(d)
  PROVE  NumberInv'
  <1>1. Types /\ Stage(d)
    BY DEF CoreInv, StageInv
  <1>2. PICK n \in DOMAIN script[d] :
           /\ Skip(d, n)
           /\ held' \in [Devices -> SUBSET Owned]
           /\ \A e \in Devices \ {d} : held'[e] = held[e]
           /\ script[d] # <<>>
           /\ \A s \in Scripts : \A k \in 1..Size(s) : script[d] = Rest(s, k) =>
                /\ n \in 1..(Size(s) + 1 - k)
                /\ \A j \in k..(k + n - 1) : s[j] \in DOMAIN Releases
                /\ held'[d] = {r \in held[d] : ~\E j \in k..(k + n - 1) : Releases[s[j]] = r}
    BY <1>1, Released
  <1>3. UNCHANGED nameVars
    BY DEF Release
  <1>4. /\ \A r \in DOMAIN Releases : Releases[r] \notin Kinds
        /\ \A k \in {2, 3, 5, 9} : UndoScript[k] \notin DOMAIN Releases
        /\ \A k \in {1, 3, 4, 5, 6, 12, 13} : RemoveScript[k] \notin DOMAIN Releases
    <2>1. DOMAIN Releases = {"fsDeinit", "fifoFree", "clear", "unmap", "freePages", "disable"}
      BY DEF Releases
    <2>2. \A r \in DOMAIN Releases : Releases[r] \notin Kinds
      BY <2>1 DEF Releases, Kinds
    <2>3. \A k \in {2, 3, 5, 9} : UndoScript[k] \notin DOMAIN Releases
      BY <2>1, UndoTable
    <2> QED
      BY <2>2, <2>3, Given
  <1>5. ~Absent(d) /\ ~Present(d) /\ ~Hollow(d)
    BY <1>2 DEF Absent, Present, Hollow
  <1>6. ~Requesting(d)
    <2> SUFFICES ASSUME script[d] = RequestScript PROVE FALSE
      BY DEF Requesting
    <2>1. script[d] = Rest(RequestScript, 1)
      BY RequestTable, RestFull
    <2>2. n \in 1..2 /\ \A j \in 1..(1 + n - 1) : RequestScript[j] \in DOMAIN Releases
      BY <1>2, <2>1, RequestTable
    <2> QED
      BY <2>2, Given
  <1>7. \A k \in 1..8 : script[d] # Rest(ProbeScript, k)
    <2> SUFFICES ASSUME NEW k \in 1..8, script[d] = Rest(ProbeScript, k) PROVE FALSE
      OBVIOUS
    <2>1. n \in 1..(9 - k) /\ \A j \in k..(k + n - 1) : ProbeScript[j] \in DOMAIN Releases
      BY <1>2, ProbeTable
    <2>2. k \in k..(k + n - 1)
      BY <2>1
    <2> QED
      BY <2>1, <2>2, Given
  <1>8. ASSUME NEW k \in 1..9, script[d] = Rest(UndoScript, k)
        PROVE  /\ Moves(d) /\ proc'[d] = proc[d]
               /\ \A kind \in Kinds : kind \in held'[d] <=> kind \in held[d]
               /\ held'[d] \subseteq held[d]
               /\ \E m \in 1..9 : /\ script'[d] = Rest(UndoScript, m)
                                  /\ k <= 2 <=> m <= 2
                                  /\ k <= 5 <=> m <= 5
    <2>1. UndoScript \in Scripts /\ Size(UndoScript) = 9
      BY UndoTable
    <2>2. /\ n \in 1..(10 - k) /\ \A j \in k..(k + n - 1) : UndoScript[j] \in DOMAIN Releases
          /\ held'[d] = {r \in held[d] : ~\E j \in k..(k + n - 1) : Releases[UndoScript[j]] = r}
      BY <1>2, <1>8, <2>1
    <2>3. \A j \in {2, 3, 5, 9} : j \notin k..(k + n - 1)
      BY <1>4, <2>2
    <2>4. k + n \in 1..9 /\ (k <= 2 <=> k + n <= 2) /\ (k <= 5 <=> k + n <= 5)
      BY <2>2, <2>3
    <2>5. Moves(d) /\ script'[d] = Rest(UndoScript, k + n) /\ proc'[d] = proc[d]
      <3>1. k \in 1..Size(UndoScript) /\ n \in 1..(Size(UndoScript) + 1 - k) /\ k + n <= Size(UndoScript)
        BY <2>1, <2>2, <2>4
      <3> QED
        BY <1>1, <1>2, <1>8, <2>1, <3>1, SkipFacts
    <2>6. \A kind \in Kinds : kind \in held'[d] <=> kind \in held[d]
      BY <1>4, <2>2
    <2>7. held'[d] \subseteq held[d]
      BY <2>2
    <2> QED
      BY <2>4, <2>5, <2>6, <2>7
  <1>9. ASSUME NEW k \in 1..13, script[d] = Rest(RemoveScript, k)
        PROVE  /\ Moves(d) /\ proc'[d] = proc[d]
               /\ \A kind \in Kinds : kind \in held'[d] <=> kind \in held[d]
               /\ \E m \in 1..13 : /\ script'[d] = Rest(RemoveScript, m)
                                   /\ k <= 3 <=> m <= 3
                                   /\ k <= 4 <=> m <= 4
                                   /\ k <= 5 <=> m <= 5
    <2>1. RemoveScript \in Scripts /\ Size(RemoveScript) = 13
      BY RemoveTable
    <2>2. /\ n \in 1..(14 - k) /\ \A j \in k..(k + n - 1) : RemoveScript[j] \in DOMAIN Releases
          /\ held'[d] = {r \in held[d] : ~\E j \in k..(k + n - 1) : Releases[RemoveScript[j]] = r}
      BY <1>2, <1>9, <2>1
    <2>3. \A j \in {1, 3, 4, 5, 6, 12, 13} : j \notin k..(k + n - 1)
      BY <1>4, <2>2
    <2>4. /\ k + n \in 1..13 /\ (k <= 3 <=> k + n <= 3) /\ (k <= 4 <=> k + n <= 4)
          /\ (k <= 5 <=> k + n <= 5)
      BY <2>2, <2>3
    <2>5. Moves(d) /\ script'[d] = Rest(RemoveScript, k + n) /\ proc'[d] = proc[d]
      <3>1. /\ k \in 1..Size(RemoveScript) /\ n \in 1..(Size(RemoveScript) + 1 - k)
            /\ k + n <= Size(RemoveScript)
        BY <2>1, <2>2, <2>4
      <3> QED
        BY <1>1, <1>2, <1>9, <2>1, <3>1, SkipFacts
    <2>6. \A kind \in Kinds : kind \in held'[d] <=> kind \in held[d]
      BY <1>4, <2>2
    <2> QED
      BY <2>4, <2>5, <2>6
  <1>10. Moves(d) /\ Quiet(d)
    <2>1. ASSUME NEW k \in 6..9, Hollowing(d, k)
          PROVE  Moves(d) /\ Quiet(d)
      <3>1. proc[d] = "probe" /\ "pDev" \notin held[d] /\ script[d] = Rest(UndoScript, k)
        <4>1. excused[d] \subseteq {"fifo", "fs"}
          BY <1>1 DEF Types
        <4> QED
          BY <2>1, <4>1 DEF Hollowing
      <3>2. /\ Moves(d) /\ proc'[d] = "probe" /\ "pDev" \notin held'[d]
            /\ \A kind \in Kinds : kind \in held'[d] <=> kind \in held[d]
        BY <1>8, <3>1
      <3>3. Off(d)
        BY <1>1, <2>1, Positions
      <3>4. Off(d)'
        BY <3>2, <3>3, PlaceTable DEF Off, OnList, InUse, Backs
      <3> QED
        BY <3>2, <3>3, <3>4, OffQuiet
    <2>2. ASSUME NEW k \in 1..9, Undoing(d, k)
          PROVE  Moves(d) /\ Quiet(d)
      <3>1. proc[d] = "undo" /\ script[d] = Rest(UndoScript, k)
        BY <2>2 DEF Undoing
      <3>2. PICK m \in 1..9 : /\ script'[d] = Rest(UndoScript, m)
                              /\ k <= 2 <=> m <= 2
                              /\ k <= 5 <=> m <= 5
        BY <1>8, <3>1
      <3>3. Moves(d) /\ proc'[d] = "undo" /\ \A kind \in Kinds : kind \in held'[d] <=> kind \in held[d]
        BY <1>8, <3>1
      <3>4. ~Live(d)'
        BY <3>3 DEF Live
      <3>5. (OnList(d)' <=> OnList(d)) /\ (InUse(d)' <=> InUse(d)) /\ (Backs(d)' <=> Backs(d))
        BY <3>1, <3>2, <3>3, PlaceTable DEF OnList, InUse, Backs
      <3> QED
        BY <3>3, <3>4, <3>5 DEF Quiet
    <2>3. ASSUME NEW k \in 1..13, Removing(d, k)
          PROVE  Moves(d) /\ Quiet(d)
      <3>1. proc[d] = "remove" /\ script[d] = Rest(RemoveScript, k)
        BY <2>3 DEF Removing
      <3>2. PICK m \in 1..13 : /\ script'[d] = Rest(RemoveScript, m)
                               /\ k <= 3 <=> m <= 3
                               /\ k <= 4 <=> m <= 4
                               /\ k <= 5 <=> m <= 5
        BY <1>9, <3>1
      <3>3. Moves(d) /\ proc'[d] = "remove" /\ \A kind \in Kinds : kind \in held'[d] <=> kind \in held[d]
        BY <1>9, <3>1
      <3>4. ~Live(d)'
        BY <3>3 DEF Live
      <3>5. (OnList(d)' <=> OnList(d)) /\ (InUse(d)' <=> InUse(d)) /\ (Backs(d)' <=> Backs(d))
        BY <3>1, <3>2, <3>3, PlaceTable DEF OnList, InUse, Backs
      <3> QED
        BY <3>3, <3>4, <3>5 DEF Quiet
    <2>4. \A k \in 1..8 : ~Probing(d, k)
      BY <1>7 DEF Probing
    <2>5. \A k \in 7..8 : ~Resuming(d, k)
      BY <1>7 DEF Resuming
    <2> QED
      BY <1>1, <1>5, <1>6, <2>1, <2>2, <2>3, <2>4, <2>5 DEF Stage
  <1> QED
    BY <1>2, <1>3, <1>10, QuietAction

(* A removal that goes on without touching a number.                       *)
LEMMA RemoveOnNumbers ==
  ASSUME CoreInv, NumberInv, NEW d \in Devices, NEW k \in {1, 6, 12}, Removing(d, k), Advance(d),
         UNCHANGED held, UNCHANGED nameVars
  PROVE  NumberInv'
  <1>1. Types /\ k \in 1..12
    BY DEF CoreInv
  <1>2. Moves(d) /\ script'[d] = Rest(RemoveScript, k + 1) /\ proc'[d] = "remove"
    BY <1>1, RemoveOn
  <1>3. proc[d] = "remove" /\ script[d] = Rest(RemoveScript, k)
    BY DEF Removing
  <1>4. k + 1 \in 1..13 /\ k \in 1..13 /\ (k <= 3 <=> k + 1 <= 3) /\ (k <= 4 <=> k + 1 <= 4)
        /\ (k <= 5 <=> k + 1 <= 5)
    OBVIOUS
  <1>5. (OnList(d)' <=> OnList(d)) /\ (InUse(d)' <=> InUse(d)) /\ (Backs(d)' <=> Backs(d))
    BY <1>2, <1>3, <1>4, PlaceTable DEF OnList, InUse, Backs
  <1>6. ~Live(d)'
    BY <1>2 DEF Live
  <1>7. Quiet(d)
    BY <1>5, <1>6 DEF Quiet
  <1> QED
    BY <1>2, <1>7, QuietAction

LEMMA DownNumbers ==
  ASSUME CoreInv, NumberInv, NEW d \in Devices, Down(d) \/ Up(d) \/ DeinitMsix(d)
  PROVE  NumberInv'
  <1>1. PICK k \in {1, 6, 12} : Removing(d, k)
    BY StageOf DEF CoreInv, StageInv, Down, Up, DeinitMsix
  <1>2. Advance(d) /\ UNCHANGED held /\ UNCHANGED nameVars
    BY DEF Down, Up, DeinitMsix
  <1> QED
    BY <1>1, <1>2, RemoveOnNumbers

LEMMA StartProbeNumbers ==
  ASSUME CoreInv, NumberInv, NEW d \in Devices, StartProbe(d)
  PROVE  NumberInv'
  <1>1. /\ Types /\ Stage(d) /\ proc[d] = "none" /\ held \in [Devices -> SUBSET Owned]
        /\ script = [e \in Devices |-> script[e]] /\ proc \in [Devices -> Activities]
    BY DEF CoreInv, StageInv, StartProbe, Types, Activities
  <1>2. Absent(d)
    BY <1>1 DEF Stage, Present, Hollow, Requesting, Probing, Hollowing, Undoing, Resuming, Removing
  <1>3. /\ proc' = [proc EXCEPT ![d] = "probe"] /\ script' = [script EXCEPT ![d] = ProbeScript]
        /\ held' = [held EXCEPT ![d] = {}] /\ UNCHANGED nameVars
    BY DEF StartProbe
  <1>4. held'[d] = {} /\ \A e \in Devices \ {d} : held'[e] = held[e]
    BY <1>1, <1>3
  <1>5. Moves(d) /\ proc'[d] = "probe"
    BY <1>1, <1>3 DEF Moves, Activities
  <1>6. Off(d)'
    <2>1. "pDev" \notin held'[d] /\ \A kind \in Kinds : kind \notin held'[d]
      BY <1>4
    <2>2. ~OnList(d)' /\ ~InUse(d)' /\ ~Backs(d)'
      BY <1>5, <2>1, PlaceTable DEF OnList, InUse, Backs
    <2> QED
      BY <2>1, <2>2 DEF Off
  <1>7. Quiet(d)
    BY <1>1, <1>2, <1>6, Positions, OffQuiet
  <1> QED
    BY <1>3, <1>4, <1>5, <1>7, QuietAction

LEMMA StartRemoveNumbers ==
  ASSUME CoreInv, NumberInv, NEW d \in Devices, StartRemove(d)
  PROVE  NumberInv'
  <1>1. /\ Types /\ Stage(d) /\ proc[d] = "bound"
        /\ script = [e \in Devices |-> script[e]] /\ proc \in [Devices -> Activities]
        /\ excused[d] \subseteq {"fifo", "fs"}
    BY DEF CoreInv, StageInv, StartRemove, Types, Activities
  <1>2. Present(d) \/ Hollow(d)
    BY <1>1 DEF Stage, Absent, Requesting, Probing, Hollowing, Undoing, Resuming, Removing
  <1>3. /\ proc' = [proc EXCEPT ![d] = "remove"]
        /\ script' = [script EXCEPT ![d] = IF "pDev" \in held[d] THEN RemoveScript ELSE <<"devres">>]
        /\ UNCHANGED held /\ UNCHANGED nameVars
    BY DEF StartRemove
  <1>4. /\ Moves(d) /\ proc'[d] = "remove"
        /\ "pDev" \in held[d] => script'[d] = RemoveScript
        /\ "pDev" \notin held[d] => script'[d] = <<"devres">>
    BY <1>1, <1>3 DEF Moves, Activities
  <1>5. ~Live(d)'
    BY <1>4 DEF Live
  <1>6. Quiet(d)
    <2>1. CASE Present(d)
      <3>1. "pDev" \in held[d]
        BY <2>1 DEF Present, Owned
      <3>2. script'[d] = Rest(RemoveScript, 1)
        BY <1>4, <3>1, RestFull, RemoveTable
      <3>3. On(d)'
        BY <1>4, <3>2, PlaceTable DEF On, OnList, InUse, Backs
      <3>4. On(d)
        BY <1>1, <2>1, Positions
      <3> QED
        BY <1>3, <1>5, <3>3, <3>4, OnQuiet
    <2>2. CASE Hollow(d)
      <3>1. "pDev" \notin held[d]
        BY <1>1, <2>2 DEF Hollow
      <3>2. script'[d] = Rest(RemoveScript, 13)
        BY <1>4, <3>1, LastScript
      <3>3. Off(d)
        BY <1>1, <2>2, Positions
      <3>4. Off(d)'
        BY <1>3, <1>4, <3>2, <3>3, PlaceTable DEF Off, OnList, InUse, Backs
      <3> QED
        BY <3>3, <3>4, OffQuiet
    <2> QED
      BY <1>2, <2>1, <2>2
  <1> QED
    BY <1>3, <1>4, <1>6, QuietAction

LEMMA ResumeNumbers ==
  ASSUME CoreInv, NumberInv, NEW d \in Devices, Resume(d)
  PROVE  NumberInv'
  <1>1. /\ Types /\ Present(d)
        /\ script = [e \in Devices |-> script[e]] /\ proc \in [Devices -> Activities]
    BY DEF CoreInv, PhaseInv, Resume, Types, Activities
  <1>2. /\ proc' = [proc EXCEPT ![d] = "resume"]
        /\ script' = [script EXCEPT ![d] = <<"msix", "firmware">>]
        /\ UNCHANGED held /\ UNCHANGED nameVars
    BY DEF Resume
  <1>3. Moves(d) /\ proc'[d] = "resume" /\ held[d] = Owned /\ Live(d) /\ On(d)
    BY <1>1, <1>2, Positions DEF Moves, Activities, Present, Live
  <1>4. Quiet(d)
    BY <1>1, <1>2, <1>3, WholeQuiet
  <1> QED
    BY <1>2, <1>3, <1>4, QuietAction

(* Everybody else leaves proc, script and held alone.                      *)
LEMMA OthersNumbers ==
  ASSUME NumberInv, UNCHANGED deviceVars, UNCHANGED nameVars
  PROVE  NumberInv'
  <1>1. \A e \in Devices : Still(e)
    BY DEF Still, deviceVars
  <1>2. \A e \in Devices : Quiet(e)
    BY <1>1, StillQuiet
  <1> QED
    BY <1>2, QuietNumbers

-----------------------------------------------------------------------------
(* Steps that take a number, use it or give it back.                       *)

(* A sequence that grows or shrinks by one.                                *)
InsertedAfter(t, s, S, p, e) ==
  /\ t \in Seq(S) /\ Len(t) = Len(s) + 1
  /\ \A i \in 1..(Len(s) + 1) :
       t[i] = IF i <= p THEN s[i] ELSE IF i = p + 1 THEN e ELSE s[i - 1]

LEMMA Inserted ==
  ASSUME NEW S, NEW s \in Seq(S), NEW e \in S, NEW p \in 0..Len(s)
  PROVE  InsertedAfter(InsertAt(s, p + 1, e), s, S, p, e)
  <1> DEFINE a == SubSeq(s, 1, p)
             c == SubSeq(s, p + 1, Len(s))
  <1>1. Len(s) \in Nat /\ \A i \in 1..Len(s) : s[i] \in S
    BY LenProperties
  <1>2. p \in Int /\ p + 1 \in Int /\ Len(s) \in Int /\ (p + 1) - 1 = p
        /\ (\A i \in 1..p : s[i] \in S) /\ (\A i \in (p + 1)..Len(s) : s[i] \in S)
    BY <1>1
  <1>3. a \in Seq(S) /\ Len(a) = p /\ \A i \in 1..p : a[i] = s[i]
    BY <1>1, <1>2, SubSeqProperties
  <1>4. c \in Seq(S) /\ Len(c) = Len(s) - p /\ \A i \in 1..(Len(s) - p) : c[i] = s[p + i]
    BY <1>1, <1>2, SubSeqProperties
  <1>5. <<e>> \in Seq(S) /\ Len(<<e>>) = 1 /\ <<e>>[1] = e
    OBVIOUS
  <1>6. InsertAt(s, p + 1, e) = a \o <<e>> \o c
    BY <1>2 DEF InsertAt
  <1> HIDE DEF a, c
  <1>7. /\ a \o <<e>> \in Seq(S) /\ Len(a \o <<e>>) = p + 1
        /\ \A i \in 1..(p + 1) : (a \o <<e>>)[i] = IF i <= p THEN a[i] ELSE <<e>>[i - p]
    BY <1>3, <1>5, ConcatProperties
  <1>8. \A i \in 1..(p + 1) : (a \o <<e>>)[i] = IF i <= p THEN s[i] ELSE e
    BY <1>3, <1>5, <1>7
  <1> DEFINE b == a \o <<e>>
  <1>9. b \in Seq(S) /\ Len(b) = p + 1 /\ \A i \in 1..(p + 1) : b[i] = IF i <= p THEN s[i] ELSE e
    BY <1>7, <1>8
  <1> HIDE DEF b
  <1>10. /\ b \o c \in Seq(S) /\ Len(b \o c) = Len(s) + 1
         /\ \A i \in 1..(Len(s) + 1) : (b \o c)[i] = IF i <= p + 1 THEN b[i] ELSE c[i - (p + 1)]
    BY <1>1, <1>4, <1>9, ConcatProperties
  <1>11. \A i \in 1..(Len(s) + 1) :
           (b \o c)[i] = IF i <= p THEN s[i] ELSE IF i = p + 1 THEN e ELSE s[i - 1]
    <2> SUFFICES ASSUME NEW i \in 1..(Len(s) + 1)
                 PROVE  (b \o c)[i] = IF i <= p THEN s[i] ELSE IF i = p + 1 THEN e ELSE s[i - 1]
      OBVIOUS
    <2>1. CASE i <= p + 1
      BY <1>1, <1>9, <1>10, <2>1
    <2>2. CASE i > p + 1
      <3>1. i - (p + 1) \in 1..(Len(s) - p) /\ p + (i - (p + 1)) = i - 1
        BY <1>1, <2>2
      <3> QED
        BY <1>1, <1>4, <1>10, <2>2, <3>1
    <2>3. i <= p + 1 \/ i > p + 1
      BY <1>1
    <2> QED
      BY <2>1, <2>2, <2>3
  <1> DEFINE t == InsertAt(s, p + 1, e)
  <1>12. t = b \o c
    BY <1>6 DEF b
  <1> HIDE DEF t
  <1>13. t \in Seq(S) /\ Len(t) = Len(s) + 1
    BY <1>10, <1>12
  <1>14. \A i \in 1..(Len(s) + 1) :
           t[i] = IF i <= p THEN s[i] ELSE IF i = p + 1 THEN e ELSE s[i - 1]
    BY <1>11, <1>12
  <1> QED
    BY <1>13, <1>14 DEF t, InsertedAfter

WithoutPlace(t, s, S, p) ==
  /\ t \in Seq(S) /\ Len(t) = Len(s) - 1
  /\ \A i \in 1..(Len(s) - 1) : t[i] = IF i < p THEN s[i] ELSE s[i + 1]

LEMMA Removed ==
  ASSUME NEW S, NEW s \in Seq(S), NEW p \in 1..Len(s)
  PROVE  WithoutPlace(RemoveAt(s, p), s, S, p)
  <1> DEFINE a == SubSeq(s, 1, p - 1)
             c == SubSeq(s, p + 1, Len(s))
  <1>1. Len(s) \in Nat /\ \A i \in 1..Len(s) : s[i] \in S
    BY LenProperties
  <1>2. p - 1 \in Int /\ p + 1 \in Int /\ Len(s) \in Int
        /\ (\A i \in 1..(p - 1) : s[i] \in S) /\ (\A i \in (p + 1)..Len(s) : s[i] \in S)
    BY <1>1
  <1>3. a \in Seq(S) /\ Len(a) = p - 1 /\ \A i \in 1..(p - 1) : a[i] = s[i]
    BY <1>1, <1>2, SubSeqProperties
  <1>4. c \in Seq(S) /\ Len(c) = Len(s) - p /\ \A i \in 1..(Len(s) - p) : c[i] = s[p + i]
    BY <1>1, <1>2, SubSeqProperties
  <1>5. RemoveAt(s, p) = a \o c
    BY DEF RemoveAt
  <1> HIDE DEF a, c
  <1>6. /\ a \o c \in Seq(S) /\ Len(a \o c) = Len(s) - 1
        /\ \A i \in 1..(Len(s) - 1) : (a \o c)[i] = IF i <= p - 1 THEN a[i] ELSE c[i - (p - 1)]
    BY <1>1, <1>3, <1>4, ConcatProperties
  <1>7. \A i \in 1..(Len(s) - 1) : (a \o c)[i] = IF i < p THEN s[i] ELSE s[i + 1]
    <2> SUFFICES ASSUME NEW i \in 1..(Len(s) - 1)
                 PROVE  (a \o c)[i] = IF i < p THEN s[i] ELSE s[i + 1]
      OBVIOUS
    <2>1. CASE i < p
      BY <1>1, <1>3, <1>6, <2>1
    <2>2. CASE i >= p
      <3>1. i - (p - 1) \in 1..(Len(s) - p) /\ p + (i - (p - 1)) = i + 1
        BY <1>1, <2>2
      <3> QED
        BY <1>1, <1>4, <1>6, <2>2, <3>1
    <2>3. i < p \/ i >= p
      BY <1>1
    <2> QED
      BY <2>1, <2>2, <2>3
  <1> QED
    BY <1>5, <1>6, <1>7 DEF WithoutPlace

LEMMA DevresNumbers ==
  ASSUME CoreInv, NumberInv, NEW d \in Devices, Devres(d)
  PROVE  NumberInv'
  <1>1. /\ Types /\ Stage(d) /\ Advance(d) /\ Orphans(d)
        /\ held \in [Devices -> SUBSET Owned] /\ minor \in [Entries -> Minors]
        /\ list' = list /\ nodes' = nodes /\ cdevs' = cdevs /\ contested' = contested
    BY DEF CoreInv, StageInv, Devres, Types
  <1>2. Removing(d, 13) \/ Undoing(d, 9) \/ Hollowing(d, 9)
    BY <1>1, StageOf DEF Devres
  <1>3. Moves(d) /\ script'[d] = <<>> /\ proc'[d] \in {"none", "bound"}
    BY <1>1, <1>2, DevresMoves
  <1>4. /\ held'[d] = held[d] \ {"mem", "pDev"} /\ \A e \in Devices \ {d} : held'[e] = held[e]
        /\ \A e \in Entries \ {d} : minor'[e] = minor[e]
    BY <1>1 DEF Orphans
  <1>5. Off(d)
    BY <1>1, <1>2, Positions
  <1>6. Off(d)'
    <2>1. "pDev" \notin held'[d] /\ \A kind \in Kinds : kind \notin held'[d]
      BY <1>4, <1>5 DEF Off
    <2>2. ~OnList(d)' /\ ~InUse(d)' /\ ~Backs(d)'
      BY <1>3, <2>1, PlaceTable DEF OnList, InUse, Backs
    <2> QED
      BY <2>1, <2>2 DEF Off
  <1>7. \A e \in Devices : Quiet(e)
    <2>1. \A e \in Devices \ {d} : Still(e)
      BY <1>3, <1>4 DEF Still, Moves
    <2> QED
      BY <1>5, <1>6, <2>1, StillQuiet, OffQuiet
  <1>8. d \notin Others /\ Others \subseteq Entries
    BY LifecycleAssumption DEF Entries
  <1>9. ListInv'
    <2>1. \A i \in DOMAIN list : list[i] \in Entries \ {d}
      <3>1. \A i \in DOMAIN list : list[i] \in Range(list)
        BY DEF Range
      <3>2. d \notin Range(list)
        BY <1>5 DEF NumberInv, ListInv, Off
      <3>3. \A i \in DOMAIN list : list[i] \in Entries
        BY LenProperties DEF NumberInv, ListInv
      <3> QED
        BY <3>1, <3>2, <3>3
    <2>2. \A i, j \in DOMAIN list : i < j => minor'[list[i]] < minor'[list[j]]
      BY <1>4, <2>1 DEF NumberInv, ListInv
    <2> QED
      BY <1>1, <1>4, <1>7, <1>8, <2>2 DEF NumberInv, ListInv, Quiet
  <1>10. \A e \in Entries : (Uses(e)' <=> Uses(e)) /\ (Uses(e) => e # d)
    BY <1>5, <1>7, <1>8 DEF Uses, Quiet, Off
  <1>11. UserInv'
    BY <1>1, <1>4, <1>10 DEF NumberInv, UserInv
  <1>12. \A n \in Kinds \X Minors : Holders(n)' = Holders(n)
    BY <1>4, <1>5, <1>7, <1>8 DEF Holders, Quiet, Off
  <1>13. CountInv' /\ OwnInv'
    BY <1>1, <1>12 DEF NumberInv, CountInv, OwnInv
  <1>14. NodeInv'
    BY <1>1, <1>4, <1>5, <1>7, <1>8 DEF NumberInv, NodeInv, Quiet, Off
  <1>15. OwnNodeInv'
    <2> SUFFICES ASSUME NEW e \in Devices, NEW kind \in Kinds, Live(e)', kind \in held'[e],
                        minor'[e] \notin contested
                 PROVE  <<kind, minor'[e]>> \in nodes
      BY <1>1 DEF OwnNodeInv
    <2>1. e # d /\ Live(e) /\ kind \in held[e]
      BY <1>6, <1>7 DEF Off, Quiet
    <2>2. minor'[e] = minor[e]
      BY <1>4, <2>1 DEF Entries
    <2> QED
      BY <2>1, <2>2 DEF NumberInv, OwnNodeInv
  <1> QED
    BY <1>9, <1>11, <1>13, <1>14, <1>15 DEF NumberInv

(* The search of the list finds the place before which all numbers are     *)
(* less than the one given, and after which they are greater.              *)
LEMMA PlaceFacts ==
  ASSUME Types, ListInv, NEW place \in Places
  PROVE  LET number == IF place = 0 THEN 0 ELSE minor[list[place]] + 1
         IN  /\ place \in 0..Len(list)
             /\ \A i \in 1..Len(list) : /\ i <= place => minor[list[i]] < number
                                        /\ i > place => number < minor[list[i]]
  <1> DEFINE number == IF place = 0 THEN 0 ELSE minor[list[place]] + 1
  <1>1. Len(list) \in Nat /\ DOMAIN list = 1..Len(list) /\ \A i \in 1..Len(list) : list[i] \in Entries
    BY LenProperties DEF ListInv
  <1>2. \A i \in 1..Len(list) : minor[list[i]] \in Nat
    BY <1>1, LifecycleAssumption DEF Types
  <1>3. \A i, j \in 1..Len(list) : i < j => minor[list[i]] < minor[list[j]]
    BY <1>1 DEF ListInv
  <1>4. CASE list = <<>> \/ minor[Head(list)] > 0
    <2>1. place = 0 /\ number = 0
      BY <1>4 DEF Places
    <2>2. ASSUME NEW i \in 1..Len(list)
          PROVE  0 < minor[list[i]]
      <3>1. list # <<>> /\ 1 \in 1..Len(list)
        BY <1>1, <2>2
      <3>2. Head(list) = list[1]
        BY <3>1 DEF ListInv
      <3>3. 0 < minor[list[1]]
        BY <1>2, <1>4, <3>1, <3>2
      <3>4. i = 1 \/ 1 < i
        BY <1>1, <3>1
      <3> QED
        BY <1>2, <1>3, <3>1, <3>3, <3>4
    <2>3. \A i \in 1..Len(list) : ~(i <= 0) /\ i > 0
      BY <1>1
    <2>4. 0 \in 0..Len(list)
      BY <1>1
    <2> HIDE DEF number
    <2>5. \A i \in 1..Len(list) : /\ i <= place => minor[list[i]] < number
                                  /\ i > place => number < minor[list[i]]
      BY <2>1, <2>2, <2>3
    <2> QED
      BY <2>1, <2>4, <2>5 DEF number
  <1>5. CASE ~(list = <<>> \/ minor[Head(list)] > 0)
    <2>1. place \in 1..Len(list) /\ Gap(place)
      BY <1>1, <1>5 DEF Places
    <2>2. number = minor[list[place]] + 1 /\ minor[list[place]] \in Nat
      BY <1>1, <1>2, <2>1
    <2> HIDE DEF number
    <2>3. \A i \in 1..Len(list) : i <= place => minor[list[i]] < number
      <3> SUFFICES ASSUME NEW i \in 1..Len(list), i <= place
                   PROVE  minor[list[i]] < number
        OBVIOUS
      <3>1. i = place \/ i < place
        BY <1>1, <2>1
      <3>2. minor[list[i]] \in Nat
        BY <1>2
      <3>3. i < place => minor[list[i]] < minor[list[place]]
        BY <1>3, <2>1
      <3> QED
        BY <2>2, <3>1, <3>2, <3>3
    <2>4. \A i \in 1..Len(list) : i > place => number < minor[list[i]]
      <3> SUFFICES ASSUME NEW i \in 1..Len(list), i > place
                   PROVE  number < minor[list[i]]
        OBVIOUS
      <3>1. place + 1 \in 1..Len(list) /\ place < place + 1 /\ place # Len(list)
            /\ (i = place + 1 \/ place + 1 < i)
        <4> DEFINE m == Len(list)
        <4>1. m \in Nat /\ place \in 1..m /\ i \in 1..m /\ i > place
          BY <1>1, <2>1
        <4> HIDE DEF m
        <4>2. place + 1 \in 1..m /\ place < place + 1 /\ place # m
          BY <4>1
        <4>3. i = place + 1 \/ place + 1 < i
          BY <4>1
        <4> QED
          BY <4>2, <4>3 DEF m
      <3>2. minor[list[place + 1]] # minor[list[place]] + 1
        BY <2>1, <3>1 DEF Gap
      <3>3. minor[list[place]] < minor[list[place + 1]] /\ minor[list[place + 1]] \in Nat
        BY <1>2, <1>3, <2>1, <3>1
      <3>4. number < minor[list[place + 1]]
        BY <2>2, <3>2, <3>3
      <3>5. minor[list[i]] \in Nat /\ (i # place + 1 => minor[list[place + 1]] < minor[list[i]])
        BY <1>2, <1>3, <3>1
      <3>6. number \in Nat
        BY <2>2
      <3> QED
        BY <3>3, <3>4, <3>5, <3>6
    <2>5. place \in 0..Len(list)
      BY <1>1, <2>1
    <2> QED
      BY <2>3, <2>4, <2>5 DEF number
  <1> QED
    BY <1>4, <1>5

(* Whose number is new to the list: only a removal can still use it.       *)
LEMMA NewNumber ==
  ASSUME CoreInv, NumberInv, NEW e \in Entries, Uses(e),
         \A i \in DOMAIN list : minor[list[i]] # minor[e]
  PROVE  e \in Devices /\ minor[e] \in InRemoval
  <1>1. e \notin Range(list)
    BY DEF Range
  <1>2. e \in Devices /\ InUse(e) /\ ~OnList(e)
    BY <1>1 DEF NumberInv, ListInv, Uses, Entries
  <1>3. PICK k \in 4..5 : Removing(e, k)
    BY <1>2, UsedOffList DEF CoreInv, StageInv
  <1>4. "uncdev" \in Range(script[e])
    <2>1. script[e] = Rest(RemoveScript, k)
      BY <1>3 DEF Removing
    <2>2. /\ RemoveScript \in Scripts /\ Size(RemoveScript) = 13 /\ k \in 1..Size(RemoveScript)
          /\ 6 - k \in 1..(Size(RemoveScript) + 1 - k) /\ k + (6 - k) - 1 = 5
      BY RemoveTable
    <2>3. Rest(RemoveScript, k)[6 - k] = RemoveScript[5]
      BY <2>2, RestItem
    <2>4. 6 - k \in DOMAIN Rest(RemoveScript, k)
      <3>1. Rest(RemoveScript, k) \in Scripts /\ Size(Rest(RemoveScript, k)) = 13 + 1 - k
        BY <2>2, RestFacts
      <3>2. Rest(RemoveScript, k) \in Seq(Statements) /\ Len(Rest(RemoveScript, k)) = 14 - k
        BY <3>1 DEF Scripts, Size
      <3> QED
        BY <3>2, LenProperties
    <2> QED
      BY <2>1, <2>3, <2>4, RemoveTable DEF Range
  <1> QED
    BY <1>1, <1>2, <1>4 DEF InRemoval, Listed

(* memx_insert_device: the list stays sorted, and a number that is not in  *)
(* it is one that a removal still uses, or nobody's.                       *)
LEMMA InsertNumbers ==
  ASSUME CoreInv, NumberInv, NEW d \in Devices, Insert(d)
  PROVE  NumberInv'
  <1>1. /\ Types /\ Stage(d) /\ ListInv /\ Advance(d)
        /\ minor \in [Entries -> Minors] /\ contested \subseteq Minors
        /\ held' = held /\ nodes' = nodes /\ cdevs' = cdevs
    BY DEF CoreInv, StageInv, NumberInv, Insert, Types
  <1>2. Probing(d, 3)
    BY <1>1, StageOf, ProbeTable DEF Insert
  <1>3. /\ proc[d] = "probe" /\ script[d] = Rest(ProbeScript, 3)
        /\ \A r \in Owned : r \in held[d] <=> 3 > ProbeFrom[r]
    BY <1>2 DEF Probing
  <1>4. Moves(d) /\ script'[d] = Rest(ProbeScript, 4) /\ proc'[d] = "probe"
    BY <1>1, <1>3, SkipFacts, ProbeTable DEF Advance
  <1>5. "pDev" \in held'[d] /\ \A kind \in Kinds : kind \notin held[d]
    BY <1>1, <1>3 DEF Owned, ProbeFrom, Kinds
  <1>6. On(d)'
    BY <1>4, <1>5, PlaceTable DEF On, OnList, InUse, Backs
  <1>7. Off(d)
    BY <1>1, <1>2, Positions
  <1>8. \A e \in Devices \ {d} : Still(e) /\ Quiet(e)
    BY <1>1, <1>4, StillQuiet DEF Still, Moves
  <1>9. PICK place \in Places :
          LET number == IF place = 0 THEN 0 ELSE minor[list[place]] + 1 IN
            /\ number \in Minors
            /\ minor' = [minor EXCEPT ![d] = number]
            /\ list' = InsertAt(list, place + 1, d)
            /\ contested' = contested \cup ({number} \cap InRemoval)
    BY DEF Insert
  <1> DEFINE number == IF place = 0 THEN 0 ELSE minor[list[place]] + 1
             t == InsertAt(list, place + 1, d)
  <1>10. /\ number \in Minors /\ minor' = [minor EXCEPT ![d] = number] /\ list' = t
         /\ contested' = contested \cup ({number} \cap InRemoval)
    BY <1>9
  <1>11. /\ place \in 0..Len(list)
         /\ \A i \in 1..Len(list) : /\ i <= place => minor[list[i]] < number
                                    /\ i > place => number < minor[list[i]]
    BY <1>1, PlaceFacts
  <1>12. /\ d \in Entries /\ list \in Seq(Entries) /\ Len(list) \in Nat /\ DOMAIN list = 1..Len(list)
         /\ d \notin Others /\ Others \subseteq Entries
    BY <1>1, LenProperties, LifecycleAssumption DEF ListInv, Entries
  <1>13. /\ t \in Seq(Entries) /\ Len(t) = Len(list) + 1
         /\ \A i \in 1..(Len(list) + 1) :
              t[i] = IF i <= place THEN list[i] ELSE IF i = place + 1 THEN d ELSE list[i - 1]
    <2>1. list \in Seq(Entries) /\ d \in Entries /\ place \in 0..Len(list)
      BY <1>11, <1>12
    <2>2. InsertedAfter(t, list, Entries, place, d)
      BY <2>1, Inserted
    <2> QED
      BY <2>2 DEF InsertedAfter
  <1>14. DOMAIN t = 1..(Len(list) + 1)
    BY <1>12, <1>13, LenProperties
  <1> HIDE DEF number, t
  <1>15. minor'[d] = number /\ \A e \in Entries \ {d} : minor'[e] = minor[e]
    BY <1>1, <1>10, <1>12
  <1>16. \A i \in 1..Len(list) : list[i] \in Entries \ {d} /\ minor[list[i]] \in Nat
    <2>1. \A i \in 1..Len(list) : list[i] \in Entries /\ list[i] \in Range(list)
      BY <1>12, LenProperties DEF Range
    <2>2. d \notin Range(list)
      BY <1>1, <1>7 DEF ListInv, Off
    <2> QED
      BY <1>1, <2>1, <2>2, LifecycleAssumption
  <1>17. number \in Nat
    BY <1>10, LifecycleAssumption
  <1>18. \A i, j \in DOMAIN t : i < j => minor'[t[i]] < minor'[t[j]]
    <2> SUFFICES ASSUME NEW i \in 1..(Len(list) + 1), NEW j \in 1..(Len(list) + 1), i < j
                 PROVE  minor'[t[i]] < minor'[t[j]]
      BY <1>14
    <2> DEFINE l == Len(list)
               m(k) == minor[list[k]]
    <2>1. /\ l \in Nat /\ place \in 0..l /\ i \in 1..(l + 1) /\ j \in 1..(l + 1)
          /\ \A k \in 1..l : m(k) \in Nat /\ (k <= place => m(k) < number) /\ (k > place => number < m(k))
      BY <1>11, <1>12, <1>16
    <2>2. \A k, o \in 1..l : k < o => m(k) < m(o)
      BY <1>1, <1>12 DEF ListInv
    <2>3. \A k \in 1..l : minor'[list[k]] = m(k)
      BY <1>15, <1>16
    <2>4. \A k \in 1..(l + 1) : t[k] = IF k <= place THEN list[k] ELSE IF k = place + 1 THEN d ELSE list[k - 1]
      BY <1>13
    <2> HIDE DEF l, m
    <2>5. \A k \in 1..(l + 1) : /\ k <= place => k \in 1..l /\ minor'[t[k]] = m(k)
                                /\ k = place + 1 => minor'[t[k]] = number
                                /\ k > place + 1 => k - 1 \in 1..l /\ minor'[t[k]] = m(k - 1)
      <3> SUFFICES ASSUME NEW k \in 1..(l + 1)
                   PROVE  /\ k <= place => k \in 1..l /\ minor'[t[k]] = m(k)
                          /\ k = place + 1 => minor'[t[k]] = number
                          /\ k > place + 1 => k - 1 \in 1..l /\ minor'[t[k]] = m(k - 1)
        OBVIOUS
      <3>1. ASSUME k <= place PROVE k \in 1..l /\ minor'[t[k]] = m(k)
        <4>1. k \in 1..l
          BY <2>1, <3>1
        <4>2. t[k] = list[k]
          BY <2>4, <3>1
        <4> QED
          BY <2>3, <4>1, <4>2
      <3>2. ASSUME k = place + 1 PROVE minor'[t[k]] = number
        <4>1. ~(k <= place)
          BY <2>1, <3>2
        <4>2. t[k] = d
          BY <2>4, <3>2, <4>1
        <4> QED
          BY <1>15, <4>2
      <3>3. ASSUME k > place + 1 PROVE k - 1 \in 1..l /\ minor'[t[k]] = m(k - 1)
        <4>1. k - 1 \in 1..l /\ ~(k <= place) /\ k # place + 1
          BY <2>1, <3>3
        <4>2. t[k] = list[k - 1]
          BY <2>4, <4>1
        <4> QED
          BY <2>3, <4>1, <4>2
      <3> QED
        BY <3>1, <3>2, <3>3
    <2>6. CASE i <= place /\ j <= place
      BY <2>1, <2>2, <2>5, <2>6
    <2>7. CASE i <= place /\ j = place + 1
      BY <2>1, <2>5, <2>7
    <2>8. CASE i <= place /\ j > place + 1
      <3>1. i \in 1..l /\ j - 1 \in 1..l /\ i < j - 1
        BY <2>1, <2>5, <2>8
      <3> QED
        BY <2>1, <2>2, <2>5, <2>8, <3>1
    <2>9. CASE i = place + 1 /\ j > place + 1
      <3>1. j - 1 \in 1..l /\ j - 1 > place
        BY <2>1, <2>5, <2>9
      <3> QED
        BY <2>1, <2>5, <2>9, <3>1
    <2>10. CASE i > place + 1 /\ j > place + 1
      <3>1. i - 1 \in 1..l /\ j - 1 \in 1..l /\ i - 1 < j - 1
        BY <2>1, <2>5, <2>10
      <3> QED
        BY <2>1, <2>2, <2>5, <2>10, <3>1
    <2> QED
      BY <2>1, <2>6, <2>7, <2>8, <2>9, <2>10
  <1>19. \A e : e \in Range(t) <=> e = d \/ e \in Range(list)
    <2> SUFFICES ASSUME NEW e PROVE e \in Range(t) <=> e = d \/ e \in Range(list)
      OBVIOUS
    <2>1. place + 1 \in DOMAIN t /\ t[place + 1] = d
      BY <1>11, <1>12, <1>13, <1>14
    <2>2. ASSUME NEW i \in 1..Len(list) PROVE list[i] \in Range(t)
      <3>1. CASE i <= place
        <4>1. i \in DOMAIN t /\ t[i] = list[i]
          BY <1>11, <1>12, <1>13, <1>14, <3>1
        <4> QED
          BY <4>1 DEF Range
      <3>2. CASE i > place
        <4>1. i + 1 \in 1..(Len(list) + 1) /\ ~(i + 1 <= place) /\ i + 1 # place + 1 /\ (i + 1) - 1 = i
          BY <1>11, <1>12, <3>2
        <4>2. i + 1 \in DOMAIN t /\ t[i + 1] = list[i]
          BY <1>13, <1>14, <4>1
        <4> QED
          BY <4>2 DEF Range
      <3> QED
        BY <1>11, <1>12, <3>1, <3>2
    <2>3. ASSUME NEW i \in 1..(Len(list) + 1), t[i] # d PROVE t[i] \in Range(list)
      <3>1. CASE i <= place
        <4>1. i \in DOMAIN list /\ t[i] = list[i]
          BY <1>11, <1>12, <1>13, <3>1
        <4> QED
          BY <4>1 DEF Range
      <3>2. CASE i > place
        <4>1. i # place + 1 /\ ~(i <= place)
          BY <1>11, <1>12, <1>13, <2>3, <3>2
        <4>2. i - 1 \in DOMAIN list /\ t[i] = list[i - 1]
          BY <1>11, <1>12, <1>13, <3>2, <4>1
        <4> QED
          BY <4>2 DEF Range
      <3> QED
        BY <1>11, <1>12, <3>1, <3>2
    <2>4. e = d => e \in Range(t)
      BY <2>1 DEF Range
    <2>5. e \in Range(list) => e \in Range(t)
      BY <1>12, <2>2 DEF Range
    <2>6. e \in Range(t) /\ e # d => e \in Range(list)
      BY <1>14, <2>3 DEF Range
    <2> QED
      BY <2>4, <2>5, <2>6
  <1>20. ListInv'
    <2>1. \A e \in Devices : e \in Range(t) <=> OnList(e)'
      BY <1>1, <1>6, <1>8, <1>19 DEF On, Quiet, ListInv
    <2>2. Others \subseteq Range(t) /\ \A e \in Others : minor'[e] = e
      BY <1>1, <1>12, <1>15, <1>19 DEF ListInv
    <2> QED
      BY <1>10, <1>13, <1>18, <2>1, <2>2 DEF ListInv
  <1>21. UserInv'
    <2> SUFFICES ASSUME NEW e \in Entries, NEW f \in Entries, e # f, Uses(e)', Uses(f)',
                        minor'[e] = minor'[f]
                 PROVE  minor'[e] \in contested'
      BY DEF UserInv
    <2>1. \A g \in Entries \ {d} : (Uses(g)' <=> Uses(g)) /\ minor'[g] = minor[g]
      BY <1>8, <1>12, <1>15 DEF Uses, Quiet
    <2>2. ASSUME NEW g \in Entries \ {d}, Uses(g), minor[g] = number
          PROVE  number \in contested'
      <3>1. \A i \in DOMAIN list : minor[list[i]] # minor[g]
        <4>1. \A i \in 1..Len(list) : i <= place \/ i > place
          BY <1>11, <1>12
        <4>2. \A a \in Nat : ~(a < a)
          OBVIOUS
        <4> QED
          BY <1>11, <1>12, <1>17, <2>2, <4>1, <4>2
      <3>2. minor[g] \in InRemoval
        BY <2>2, <3>1, NewNumber
      <3> QED
        BY <1>10, <2>2, <3>2
    <2>3. CASE e = d
      BY <1>15, <2>1, <2>2, <2>3
    <2>4. CASE f = d
      BY <1>15, <2>1, <2>2, <2>4
    <2>5. CASE e # d /\ f # d
      <3>1. minor[e] \in contested
        BY <2>1, <2>5 DEF NumberInv, UserInv
      <3> QED
        BY <1>10, <2>1, <2>5, <3>1
    <2> QED
      BY <2>3, <2>4, <2>5
  <1>22. \A n \in Kinds \X Minors : Holders(n)' = Holders(n)
    BY <1>1, <1>5, <1>12, <1>15 DEF Holders
  <1>23. CountInv' /\ OwnInv'
    BY <1>1, <1>10, <1>22 DEF NumberInv, CountInv, OwnInv
  <1>24. NodeInv'
    <2> SUFFICES ASSUME NEW n \in nodes
                 PROVE  \E e \in Entries : /\ minor'[e] = n[2]
                                           /\ e \in Others \/ (e \in Devices /\ Backs(e)')
      BY <1>1 DEF NodeInv
    <2>1. PICK e \in Entries : minor[e] = n[2] /\ (e \in Others \/ (e \in Devices /\ Backs(e)))
      BY DEF NumberInv, NodeInv
    <2>2. e # d
      BY <1>7, <1>12, <2>1 DEF Off
    <2> QED
      BY <1>8, <1>15, <2>1, <2>2 DEF Quiet
  <1>25. OwnNodeInv'
    <2> SUFFICES ASSUME NEW e \in Devices, NEW kind \in Kinds, Live(e)', kind \in held'[e],
                        minor'[e] \notin contested'
                 PROVE  <<kind, minor'[e]>> \in nodes
      BY <1>1 DEF OwnNodeInv
    <2>1. e # d
      BY <1>1, <1>5
    <2>2. Live(e) /\ kind \in held[e]
      BY <1>8, <2>1 DEF Quiet
    <2>3. minor'[e] = minor[e] /\ minor[e] \notin contested
      BY <1>10, <1>15, <2>1 DEF Entries
    <2> QED
      BY <2>2, <2>3 DEF NumberInv, OwnNodeInv
  <1> QED
    BY <1>20, <1>21, <1>23, <1>24, <1>25 DEF NumberInv

(* memx_pcie_remove_device: the list loses this device alone.              *)
LEMMA DelistNumbers ==
  ASSUME CoreInv, NumberInv, NEW d \in Devices, Delist(d)
  PROVE  NumberInv'
  <1>1. /\ Types /\ Stage(d) /\ ListInv /\ Advance(d) /\ minor \in [Entries -> Minors]
        /\ held' = held /\ minor' = minor /\ nodes' = nodes /\ cdevs' = cdevs
        /\ contested' = contested
    BY DEF CoreInv, StageInv, NumberInv, Delist, Types
  <1>2. Removing(d, 3) \/ Undoing(d, 5)
    BY <1>1, StageOf DEF Delist
  <1>3. /\ Moves(d) /\ OnList(d) /\ ~OnList(d)' /\ InUse(d) /\ ~Live(d) /\ ~Live(d)'
        /\ Backs(d)' <=> Backs(d)
    <2>1. CASE Removing(d, 3)
      <3>1. Moves(d) /\ script'[d] = Rest(RemoveScript, 4) /\ proc'[d] = "remove"
        BY <1>1, <2>1, RemoveOn
      <3>2. proc[d] = "remove" /\ script[d] = Rest(RemoveScript, 3)
        BY <2>1 DEF Removing
      <3> QED
        BY <3>1, <3>2, PlaceTable DEF OnList, InUse, Backs, Live
    <2>2. CASE Undoing(d, 5)
      <3>1. Moves(d) /\ script'[d] = Rest(UndoScript, 6) /\ proc'[d] = "undo"
        BY <1>1, <2>2, UndoOn
      <3>2. proc[d] = "undo" /\ script[d] = Rest(UndoScript, 5)
        BY <2>2 DEF Undoing
      <3> QED
        BY <3>1, <3>2, PlaceTable DEF OnList, InUse, Backs, Live
    <2> QED
      BY <1>2, <2>1, <2>2
  <1>4. \A e \in Devices \ {d} : Still(e) /\ Quiet(e)
    BY <1>1, <1>3, StillQuiet DEF Still, Moves
  <1>5. PICK p \in DOMAIN list : list[p] = d /\ list' = RemoveAt(list, p)
    BY DEF Delist
  <1> DEFINE t == RemoveAt(list, p)
  <1>6. /\ list \in Seq(Entries) /\ Len(list) \in Nat /\ DOMAIN list = 1..Len(list)
        /\ p \in 1..Len(list)
    BY <1>1, LenProperties DEF ListInv
  <1>7. /\ t \in Seq(Entries) /\ Len(t) = Len(list) - 1
        /\ \A i \in 1..(Len(list) - 1) : t[i] = IF i < p THEN list[i] ELSE list[i + 1]
    <2>1. WithoutPlace(t, list, Entries, p)
      BY <1>6, Removed
    <2> QED
      BY <2>1 DEF WithoutPlace
  <1>8. DOMAIN t = 1..(Len(list) - 1)
    BY <1>7, LenProperties
  <1>9. list' = t
    BY <1>5
  <1> HIDE DEF t
  <1> DEFINE at(i) == IF i < p THEN i ELSE i + 1
  <1>10. \A i \in DOMAIN t : at(i) \in DOMAIN list /\ at(i) # p /\ t[i] = list[at(i)]
    <2> SUFFICES ASSUME NEW i \in 1..(Len(list) - 1)
                 PROVE  at(i) \in 1..Len(list) /\ at(i) # p /\ t[i] = list[at(i)]
      BY <1>6, <1>8
    <2>1. at(i) \in 1..Len(list) /\ at(i) # p
      BY <1>6
    <2>2. t[i] = list[at(i)]
      BY <1>7
    <2> QED
      BY <2>1, <2>2
  <1>11. \A i, j \in DOMAIN t : i < j => at(i) < at(j)
    BY <1>6, <1>8
  <1>12. \A i \in DOMAIN list : i # p => \E j \in DOMAIN t : at(j) = i
    <2> SUFFICES ASSUME NEW i \in 1..Len(list), i # p
                 PROVE  \E j \in 1..(Len(list) - 1) : at(j) = i
      BY <1>6, <1>8
    <2>1. CASE i < p
      <3>1. i \in 1..(Len(list) - 1) /\ at(i) = i
        BY <1>6, <2>1
      <3> QED
        BY <3>1
    <2>2. CASE i > p
      <3>1. i - 1 \in 1..(Len(list) - 1) /\ at(i - 1) = i
        BY <1>6, <2>2
      <3> QED
        BY <3>1
    <2> QED
      BY <1>6, <2>1, <2>2
  <1> HIDE DEF at
  <1>13. \A i \in DOMAIN list : list[i] = d => i = p
    <2> SUFFICES ASSUME NEW i \in DOMAIN list, list[i] = d, i # p PROVE FALSE
      OBVIOUS
    <2>1. i < p \/ p < i
      BY <1>6
    <2>2. minor[d] < minor[d]
      BY <1>1, <1>5, <2>1 DEF ListInv
    <2>3. minor[d] \in Nat
      BY <1>1, LifecycleAssumption DEF Entries
    <2> QED
      BY <2>2, <2>3
  <1>14. \A e : e \in Range(t) <=> e \in Range(list) /\ e # d
    <2> SUFFICES ASSUME NEW e PROVE e \in Range(t) <=> e \in Range(list) /\ e # d
      OBVIOUS
    <2>1. ASSUME NEW i \in DOMAIN t PROVE t[i] \in Range(list) /\ t[i] # d
      BY <1>10, <1>13 DEF Range
    <2>2. ASSUME NEW i \in DOMAIN list, list[i] # d PROVE list[i] \in Range(t)
      <3>1. PICK j \in DOMAIN t : at(j) = i
        BY <1>5, <1>12, <2>2
      <3>2. t[j] = list[i]
        BY <1>10, <3>1
      <3> QED
        BY <3>2 DEF Range
    <2>3. e \in Range(t) => e \in Range(list) /\ e # d
      BY <2>1 DEF Range
    <2>4. e \in Range(list) /\ e # d => e \in Range(t)
      BY <2>2 DEF Range
    <2> QED
      BY <2>3, <2>4
  <1>15. ListInv'
    <2>1. \A i, j \in DOMAIN t : i < j => minor[t[i]] < minor[t[j]]
      BY <1>1, <1>10, <1>11 DEF ListInv
    <2>2. \A e \in Devices : e \in Range(t) <=> OnList(e)'
      BY <1>1, <1>3, <1>4, <1>14 DEF Quiet, ListInv
    <2>3. Others \subseteq Range(t) /\ \A e \in Others : minor[e] = e
      BY <1>1, <1>14, LifecycleAssumption DEF ListInv
    <2> QED
      BY <1>1, <1>7, <1>9, <2>1, <2>2, <2>3 DEF ListInv
  <1>16. \A e \in Entries : Uses(e)' => Uses(e)
    BY <1>3, <1>4 DEF Uses, Quiet
  <1>17. UserInv'
    BY <1>1, <1>16 DEF NumberInv, UserInv
  <1>18. \A n \in Kinds \X Minors : Holders(n)' = Holders(n)
    BY <1>1 DEF Holders
  <1>19. CountInv' /\ OwnInv'
    BY <1>1, <1>18 DEF NumberInv, CountInv, OwnInv
  <1>20. \A e \in Devices : (Backs(e)' <=> Backs(e)) /\ (Live(e)' => Live(e))
    BY <1>3, <1>4 DEF Quiet, Still, Live
  <1>21. NodeInv' /\ OwnNodeInv'
    BY <1>1, <1>20 DEF NumberInv, NodeInv, OwnNodeInv
  <1> QED
    BY <1>15, <1>17, <1>19, <1>21 DEF NumberInv

(* cdev_add and device_create: a device that fails here still has both     *)
(* statements ahead of it that take back what it has made.                 *)
LEMMA NodeCreateNumbers ==
  ASSUME CoreInv, NumberInv, NEW d \in Devices, NodeCreate(d)
  PROVE  NumberInv'
  <1>1. /\ Types /\ Stage(d) /\ held \in [Devices -> SUBSET Owned]
        /\ list' = list /\ minor' = minor /\ contested' = contested
        /\ minor \in [Entries -> Minors] /\ cdevs \in [Kinds \X Minors -> Seq(Entries)]
    BY DEF CoreInv, StageInv, NodeCreate, Types
  <1>2. PICK k \in {4, 5} : Probing(d, k) /\ Step(d) = ProbeScript[k]
    BY <1>1, StageOf, ProbeTable DEF NodeCreate, Kinds
  <1>3. /\ proc[d] = "probe" /\ script[d] = Rest(ProbeScript, k)
        /\ \A r \in Owned : r \in held[d] <=> k > ProbeFrom[r]
    BY <1>2 DEF Probing
  <1>4. PICK kind \in Kinds : kind = Step(d) /\ kind = IF k = 4 THEN "char" ELSE "feature"
    BY <1>2, ProbeTable DEF Kinds
  <1>4a. PICK name \in Kinds \X Minors : name = <<kind, minor[d]>>
    BY <1>1 DEF Entries
  <1>5. /\ held' = [held EXCEPT ![d] = @ \cup {kind}]
        /\ cdevs' = [cdevs EXCEPT ![name] = <<d>> \o @]
        /\ DeviceCreate(d, name)
    BY <1>4, <1>4a DEF NodeCreate
  <1>6. d \in Entries /\ d \notin Others /\ Others \subseteq Entries /\ minor[d] \in Minors
    BY <1>1, LifecycleAssumption DEF Entries
  <1>7. name \in Kinds \X Minors /\ name[1] = kind /\ name[2] = minor[d]
        /\ \A n \in Kinds \X Minors : n[1] = kind /\ n[2] = minor[d] => n = name
    BY <1>4a
  <1>8. /\ held'[d] = held[d] \cup {kind} /\ \A e \in Devices \ {d} : held'[e] = held[e]
    BY <1>1, <1>5
  <1>9. kind \notin held[d]
    BY <1>3, <1>4 DEF Owned, ProbeFrom
  <1>10. "pDev" \in held'[d]
    BY <1>3, <1>8 DEF Owned, ProbeFrom
  <1>11. On(d) /\ Live(d)
    <2>1. k \in 4..8
      OBVIOUS
    <2> QED
      BY <1>1, <1>2, <1>3, <2>1, Positions DEF Live
  <1>12. /\ Moves(d) /\ On(d)'
         /\ \/ name \notin nodes /\ nodes' = nodes \cup {name}
            \/ nodes' = nodes /\ ~Live(d)'
    <2>1. CASE name \notin nodes /\ nodes' = nodes \cup {name} /\ Advance(d)
      <3>1. Moves(d) /\ script'[d] = Rest(ProbeScript, k + 1) /\ proc'[d] = "probe"
        <4>1. /\ ProbeScript \in Scripts /\ Size(ProbeScript) = 8 /\ k \in 1..8 /\ 1 \in 1..(8 + 1 - k)
              /\ k + 1 <= 8
          BY ProbeTable
        <4> QED
          BY <1>1, <1>3, <2>1, <4>1, SkipFacts DEF Advance
      <3>2. k + 1 \in 1..8 /\ k + 1 # 3
        OBVIOUS
      <3>3. On(d)'
        BY <1>10, <3>1, <3>2, PlaceTable DEF On, OnList, InUse, Backs
      <3> QED
        BY <2>1, <3>1, <3>3
    <2>2. CASE UNCHANGED nodes /\ Fail(d, kind)
      <3>1. Moves(d) /\ proc'[d] = "undo" /\ script'[d] = From(Label[kind])
        BY <1>1, <1>3, <2>2, FailFacts
      <3>2. script'[d] = Rest(UndoScript, 2)
        BY <1>4, <3>1, Labels
      <3>3. On(d)' /\ ~Live(d)'
        BY <3>1, <3>2, PlaceTable DEF On, OnList, InUse, Backs, Live
      <3> QED
        BY <2>2, <3>1, <3>3
    <2> QED
      BY <1>4, <1>5, <2>1, <2>2 DEF DeviceCreate
  <1>13. \A e \in Devices \ {d} : Still(e) /\ Quiet(e)
    BY <1>8, <1>12, StillQuiet DEF Still, Moves
  <1>14. \A e \in Devices : /\ OnList(e)' <=> OnList(e)
                            /\ InUse(e)' <=> InUse(e)
                            /\ Backs(e)' <=> Backs(e)
    BY <1>11, <1>12, <1>13 DEF On, Quiet
  <1>15. ListInv'
    BY <1>1, <1>14 DEF NumberInv, ListInv
  <1>16. UserInv'
    BY <1>1, <1>14 DEF NumberInv, UserInv, Uses
  <1>17. /\ d \notin Holders(name) /\ Holders(name)' = Holders(name) \cup {d}
         /\ \A n \in Kinds \X Minors : n # name => Holders(n)' = Holders(n)
    <2>1. \A n \in Kinds \X Minors, e \in Entries \ {d} : e \in Holders(n)' <=> e \in Holders(n)
      BY <1>1, <1>8 DEF Holders
    <2>2. \A n \in Kinds \X Minors : /\ d \in Holders(n) <=> n[2] = minor[d] /\ n[1] \in held[d]
                                     /\ d \in Holders(n)' <=> n[2] = minor[d] /\ n[1] \in held'[d]
      BY <1>1, <1>6 DEF Holders
    <2>3. \A n \in Kinds \X Minors : Holders(n) \subseteq Entries /\ Holders(n)' \subseteq Entries
      BY DEF Holders
    <2>4. d \notin Holders(name) /\ d \in Holders(name)'
      BY <1>7, <1>8, <1>9, <2>2
    <2>5. \A n \in Kinds \X Minors : n # name => (d \in Holders(n)' <=> d \in Holders(n))
      BY <1>7, <1>8, <2>2
    <2>6. Holders(name)' = Holders(name) \cup {d}
      BY <1>6, <1>7, <2>1, <2>3, <2>4
    <2>7. \A n \in Kinds \X Minors : n # name => Holders(n)' = Holders(n)
      BY <1>6, <2>1, <2>3, <2>5
    <2> QED
      BY <2>4, <2>6, <2>7
  <1>18. \A n \in Kinds \X Minors : n # name => cdevs'[n] = cdevs[n]
    BY <1>1, <1>5
  <1>19. /\ cdevs[name] \in Seq(Entries) /\ cdevs'[name] = <<d>> \o cdevs[name]
         /\ Len(cdevs[name]) \in Nat /\ DOMAIN cdevs[name] = 1..Len(cdevs[name])
    <2>1. cdevs[name] \in Seq(Entries)
      BY <1>1, <1>7
    <2> QED
      BY <1>1, <1>5, <1>7, <2>1, LenProperties
  <1>20. /\ Len(cdevs'[name]) = Len(cdevs[name]) + 1
         /\ DOMAIN cdevs'[name] = 1..(Len(cdevs[name]) + 1)
         /\ \A i \in 1..(Len(cdevs[name]) + 1) :
              cdevs'[name][i] = d \/ \E j \in DOMAIN cdevs[name] : cdevs'[name][i] = cdevs[name][j]
    <2> DEFINE s == cdevs[name]
               q == <<d>>
    <2>1. q \in Seq(Entries) /\ Len(q) = 1 /\ q[1] = d
      BY <1>6
    <2>2. s \in Seq(Entries) /\ Len(s) \in Nat /\ DOMAIN s = 1..Len(s) /\ cdevs'[name] = q \o s
      BY <1>19
    <2> HIDE DEF s, q
    <2>3. /\ q \o s \in Seq(Entries) /\ Len(q \o s) = Len(s) + 1
          /\ \A i \in 1..(Len(s) + 1) : (q \o s)[i] = IF i <= 1 THEN q[i] ELSE s[i - 1]
      <3>1. /\ q \o s \in Seq(Entries) /\ Len(q \o s) = Len(q) + Len(s)
            /\ \A i \in 1..(Len(q) + Len(s)) :
                 (q \o s)[i] = IF i <= Len(q) THEN q[i] ELSE s[i - Len(q)]
        BY <2>1, <2>2, ConcatProperties
      <3>2. Len(q) + Len(s) = Len(s) + 1
        BY <2>1, <2>2
      <3> QED
        BY <2>1, <3>1, <3>2
    <2>4. DOMAIN (q \o s) = 1..(Len(s) + 1)
      BY <2>3, LenProperties
    <2>5. ASSUME NEW i \in 1..(Len(s) + 1)
          PROVE  (q \o s)[i] = d \/ \E j \in DOMAIN s : (q \o s)[i] = s[j]
      <3>1. CASE i = 1
        BY <2>1, <2>2, <2>3, <3>1
      <3>2. CASE i # 1
        <4>1. i - 1 \in DOMAIN s /\ ~(i <= 1)
          BY <2>2, <3>2
        <4> QED
          BY <2>3, <4>1
      <3> QED
        BY <3>1, <3>2
    <2> QED
      BY <2>2, <2>3, <2>4, <2>5 DEF s
  <1>21. CountInv'
    <2> SUFFICES ASSUME NEW n \in Kinds \X Minors
                 PROVE  IsFiniteSet(Holders(n)') /\ Len(cdevs'[n]) = Cardinality(Holders(n)')
      BY DEF CountInv
    <2>1. IsFiniteSet(Holders(n)) /\ Len(cdevs[n]) = Cardinality(Holders(n))
      BY DEF NumberInv, CountInv
    <2>2. CASE n = name
      <3>1. /\ IsFiniteSet(Holders(name) \cup {d})
            /\ Cardinality(Holders(name) \cup {d}) = Cardinality(Holders(name)) + 1
        BY <1>17, <2>1, <2>2, FS_AddElement
      <3> QED
        BY <1>17, <1>20, <2>1, <2>2, <3>1
    <2>3. CASE n # name
      BY <1>17, <1>18, <2>1, <2>3
    <2> QED
      BY <2>2, <2>3
  <1>22. OwnInv'
    <2> SUFFICES ASSUME NEW n \in Kinds \X Minors, n[2] \notin contested, NEW i \in DOMAIN cdevs'[n]
                 PROVE  cdevs'[n][i] \in Holders(n)'
      BY <1>1 DEF OwnInv
    <2>1. \A j \in DOMAIN cdevs[n] : cdevs[n][j] \in Holders(n)
      BY DEF NumberInv, OwnInv
    <2>2. CASE n = name
      BY <1>17, <1>20, <2>1, <2>2
    <2>3. CASE n # name
      BY <1>17, <1>18, <2>1, <2>3
    <2> QED
      BY <2>2, <2>3
  <1>23. NodeInv'
    <2> SUFFICES ASSUME NEW n \in nodes'
                 PROVE  \E e \in Entries : /\ minor[e] = n[2]
                                           /\ e \in Others \/ (e \in Devices /\ Backs(e)')
      BY <1>1 DEF NodeInv
    <2>1. CASE n \in nodes
      BY <1>14, <2>1 DEF NumberInv, NodeInv
    <2>2. CASE n = name
      BY <1>6, <1>7, <1>12, <2>2 DEF On
    <2> QED
      BY <1>12, <2>1, <2>2
  <1>24. OwnNodeInv'
    <2> SUFFICES ASSUME NEW e \in Devices, NEW r \in Kinds, Live(e)', r \in held'[e],
                        minor[e] \notin contested
                 PROVE  <<r, minor[e]>> \in nodes'
      BY <1>1 DEF OwnNodeInv
    <2>1. nodes \subseteq nodes'
      BY <1>12
    <2>2. CASE e # d
      <3>1. Live(e) /\ r \in held[e]
        BY <1>13, <2>2 DEF Quiet
      <3> QED
        BY <2>1, <3>1 DEF NumberInv, OwnNodeInv
    <2>3. CASE e = d /\ r \in held[d]
      BY <1>11, <2>1, <2>3 DEF NumberInv, OwnNodeInv
    <2>4. CASE e = d /\ r = kind
      BY <1>12, <1>4a, <2>4
    <2> QED
      BY <1>8, <2>2, <2>3, <2>4
  <1> QED
    BY <1>15, <1>16, <1>21, <1>22, <1>23, <1>24 DEF NumberInv

(* device_destroy: another device in use with the number would have shared *)
(* it.                                                                     *)
LEMMA NodeDestroyNumbers ==
  ASSUME CoreInv, NumberInv, NEW d \in Devices, NodeDestroy(d)
  PROVE  NumberInv'
  <1>1. /\ Types /\ Stage(d) /\ Advance(d) /\ minor \in [Entries -> Minors]
        /\ nodes' = nodes \ Number(d) /\ nodes \subseteq Kinds \X Minors
        /\ held' = held /\ list' = list /\ minor' = minor /\ cdevs' = cdevs
        /\ contested' = contested
    BY DEF CoreInv, StageInv, NodeDestroy, Types
  <1>2. Removing(d, 4) \/ Undoing(d, 2)
    BY <1>1, StageOf DEF NodeDestroy
  <1>3. /\ Moves(d) /\ (OnList(d)' <=> OnList(d)) /\ InUse(d) /\ InUse(d)' /\ ~Live(d)'
    <2>1. CASE Removing(d, 4)
      <3>1. Moves(d) /\ script'[d] = Rest(RemoveScript, 5) /\ proc'[d] = "remove"
        BY <1>1, <2>1, RemoveOn
      <3>2. proc[d] = "remove" /\ script[d] = Rest(RemoveScript, 4)
        BY <2>1 DEF Removing
      <3> QED
        BY <3>1, <3>2, PlaceTable DEF OnList, InUse, Live
    <2>2. CASE Undoing(d, 2)
      <3>1. Moves(d) /\ script'[d] = Rest(UndoScript, 3) /\ proc'[d] = "undo"
        BY <1>1, <2>2, UndoOn
      <3>2. proc[d] = "undo" /\ script[d] = Rest(UndoScript, 2)
        BY <2>2 DEF Undoing
      <3> QED
        BY <3>1, <3>2, PlaceTable DEF OnList, InUse, Live
    <2> QED
      BY <1>2, <2>1, <2>2
  <1>4. \A e \in Devices \ {d} : Still(e) /\ Quiet(e)
    BY <1>1, <1>3, StillQuiet DEF Still, Moves
  <1>5. \A e \in Devices : (OnList(e)' <=> OnList(e)) /\ (InUse(e)' <=> InUse(e))
    BY <1>3, <1>4 DEF Quiet
  <1>6. ListInv' /\ UserInv'
    BY <1>1, <1>5 DEF NumberInv, ListInv, UserInv, Uses
  <1>7. \A n \in Kinds \X Minors : Holders(n)' = Holders(n)
    BY <1>1 DEF Holders
  <1>8. CountInv' /\ OwnInv'
    BY <1>1, <1>7 DEF NumberInv, CountInv, OwnInv
  <1>9. NodeInv'
    <2> SUFFICES ASSUME NEW n \in nodes, n \notin Number(d)
                 PROVE  \E e \in Entries : /\ minor[e] = n[2]
                                           /\ e \in Others \/ (e \in Devices /\ Backs(e)')
      BY <1>1 DEF NodeInv
    <2>1. PICK e \in Entries : minor[e] = n[2] /\ (e \in Others \/ (e \in Devices /\ Backs(e)))
      BY DEF NumberInv, NodeInv
    <2>2. n[2] # minor[d]
      BY <1>1 DEF Number
    <2> QED
      BY <1>4, <2>1, <2>2 DEF Quiet
  <1>10. OwnNodeInv'
    <2> SUFFICES ASSUME NEW e \in Devices, NEW kind \in Kinds, Live(e)', kind \in held[e],
                        minor[e] \notin contested
                 PROVE  <<kind, minor[e]>> \in nodes /\ <<kind, minor[e]>> \notin Number(d)
      BY <1>1 DEF OwnNodeInv
    <2>1. e # d /\ Live(e)
      BY <1>3, <1>4 DEF Quiet
    <2>2. <<kind, minor[e]>> \in nodes
      BY <2>1 DEF NumberInv, OwnNodeInv
    <2>3. Uses(e) /\ Uses(d) /\ e \in Entries /\ d \in Entries
      BY <1>1, <1>3, HeldInUse DEF Uses, Entries, CoreInv, StageInv
    <2>4. minor[e] # minor[d]
      BY <2>1, <2>3 DEF NumberInv, UserInv
    <2> QED
      BY <2>2, <2>4 DEF Number
  <1> QED
    BY <1>6, <1>8, <1>9, <1>10 DEF NumberInv

(* cdev_del: the cdev that loses its number is this device's own unless    *)
(* the number is contested, and it ceases to be contested only when nobody *)
(* has it any more.                                                        *)
LEMMA CdevDelNumbers ==
  ASSUME CoreInv, NumberInv, NEW d \in Devices, CdevDel(d)
  PROVE  NumberInv'
  <1>1. /\ Types /\ Stage(d) /\ Advance(d) /\ held \in [Devices -> SUBSET Owned]
        /\ minor \in [Entries -> Minors] /\ cdevs \in [Kinds \X Minors -> Seq(Entries)]
        /\ list' = list /\ minor' = minor /\ nodes' = nodes
    BY DEF CoreInv, StageInv, CdevDel, Types
  <1>2. Removing(d, 5) \/ Undoing(d, 3)
    BY <1>1, StageOf DEF CdevDel
  <1>3. /\ Moves(d) /\ (OnList(d)' <=> OnList(d)) /\ InUse(d) /\ (InUse(d)' => OnList(d))
        /\ ~Backs(d) /\ ~Backs(d)' /\ ~Live(d)'
    <2>1. CASE Removing(d, 5)
      <3>1. Moves(d) /\ script'[d] = Rest(RemoveScript, 6) /\ proc'[d] = "remove"
        BY <1>1, <2>1, RemoveOn
      <3>2. proc[d] = "remove" /\ script[d] = Rest(RemoveScript, 5)
        BY <2>1 DEF Removing
      <3> QED
        BY <3>1, <3>2, PlaceTable DEF OnList, InUse, Backs, Live
    <2>2. CASE Undoing(d, 3)
      <3>1. Moves(d) /\ script'[d] = Rest(UndoScript, 4) /\ proc'[d] = "undo"
        BY <1>1, <2>2, UndoOn
      <3>2. proc[d] = "undo" /\ script[d] = Rest(UndoScript, 3)
        BY <2>2 DEF Undoing
      <3> QED
        BY <3>1, <3>2, PlaceTable DEF OnList, InUse, Backs, Live
    <2> QED
      BY <1>2, <2>1, <2>2
  <1>4. /\ held'[d] = held[d] \ Kinds /\ \A e \in Devices \ {d} : held'[e] = held[e]
    BY <1>1 DEF CdevDel
  <1>5. \A e \in Devices \ {d} : Still(e) /\ Quiet(e)
    BY <1>3, <1>4, StillQuiet DEF Still, Moves
  <1>6. d \in Entries /\ d \notin Others /\ Others \subseteq Entries /\ minor[d] \in Minors
    BY <1>1, LifecycleAssumption DEF Entries
  <1>7. \A e \in Devices : (OnList(e)' <=> OnList(e)) /\ (Backs(e)' <=> Backs(e))
    BY <1>3, <1>5 DEF Quiet
  <1>8. ListInv'
    BY <1>1, <1>7 DEF NumberInv, ListInv
  <1> DEFINE Loses(n) == n \in Number(d) /\ n[1] \in held[d]
  <1>9. \A n \in Kinds \X Minors : n \in Number(d) <=> n[2] = minor[d]
    BY DEF Number
  <1>10. \A n \in Kinds \X Minors : Loses(n) <=> d \in Holders(n)
    BY <1>6, <1>9 DEF Holders
  <1>11. \A n \in Kinds \X Minors : Holders(n)' = Holders(n) \ {d}
    <2> SUFFICES ASSUME NEW n \in Kinds \X Minors
                 PROVE  Holders(n)' = Holders(n) \ {d}
      OBVIOUS
    <2>1. d \notin Holders(n)'
      BY <1>1, <1>4, <1>6 DEF Holders
    <2>2. \A e \in Entries \ {d} : e \in Holders(n)' <=> e \in Holders(n)
      BY <1>1, <1>4 DEF Holders
    <2>3. Holders(n) \subseteq Entries /\ Holders(n)' \subseteq Entries
      BY DEF Holders
    <2> QED
      BY <2>1, <2>2, <2>3
  <1>12. cdevs' = [n \in Kinds \X Minors |-> IF Loses(n) /\ cdevs[n] # <<>> THEN Tail(cdevs[n])
                                                                            ELSE cdevs[n]]
    BY DEF CdevDel
  <1> HIDE DEF Loses
  <1>13. ASSUME NEW n \in Kinds \X Minors
         PROVE  /\ IsFiniteSet(Holders(n)) /\ IsFiniteSet(Holders(n) \ {d})
                /\ Cardinality(Holders(n)) \in Nat /\ Cardinality(Holders(n) \ {d}) \in Nat
                /\ Len(cdevs[n]) = Cardinality(Holders(n))
                /\ Len(cdevs'[n]) = Cardinality(Holders(n) \ {d})
                /\ ~Loses(n) => cdevs'[n] = cdevs[n] /\ Holders(n) \ {d} = Holders(n)
                /\ Loses(n) => Len(cdevs'[n]) = Len(cdevs[n]) - 1
    <2>1. IsFiniteSet(Holders(n)) /\ Len(cdevs[n]) = Cardinality(Holders(n))
      BY DEF NumberInv, CountInv
    <2>2. /\ IsFiniteSet(Holders(n) \ {d})
          /\ Cardinality(Holders(n) \ {d}) = IF d \in Holders(n) THEN Cardinality(Holders(n)) - 1
                                                                 ELSE Cardinality(Holders(n))
      BY <2>1, FS_RemoveElement
    <2>3. Cardinality(Holders(n)) \in Nat /\ Cardinality(Holders(n) \ {d}) \in Nat
      BY <2>1, <2>2, FS_CardinalityType
    <2>4. CASE Loses(n)
      <3>1. Cardinality(Holders(n)) # 0
        BY <1>10, <2>1, <2>4, FS_EmptySet
      <3>2. cdevs[n] # <<>>
        BY <2>1, <3>1
      <3>3. cdevs'[n] = Tail(cdevs[n]) /\ cdevs[n] \in Seq(Entries)
        BY <1>1, <1>12, <2>4, <3>2
      <3>4. Len(cdevs'[n]) = Len(cdevs[n]) - 1
        BY <3>2, <3>3, HeadTailProperties
      <3>5. d \in Holders(n)
        BY <1>10, <2>4
      <3> QED
        BY <2>1, <2>2, <2>3, <2>4, <3>4, <3>5
    <2>5. CASE ~Loses(n)
      <3>1. cdevs'[n] = cdevs[n]
        BY <1>12, <2>5
      <3>2. d \notin Holders(n) /\ Holders(n) \ {d} = Holders(n)
        BY <1>10, <2>5
      <3> QED
        BY <2>1, <2>2, <2>3, <2>5, <3>1, <3>2
    <2> QED
      BY <2>4, <2>5
  <1>14. CountInv'
    BY <1>11, <1>13 DEF CountInv
  <1>15. /\ contested' = contested \/ contested' = contested \ {minor[d]}
         /\ contested' # contested => /\ \A n \in Number(d) : cdevs'[n] = <<>>
                                      /\ \A e \in Range(list) : minor[e] # minor[d]
    <2>1. contested' = IF \E n \in Number(d) : cdevs'[n] # <<>> \/ \E e \in Range(list) : minor[e] = n[2]
                       THEN contested ELSE contested \ {minor[d]}
      BY DEF CdevDel
    <2>2. \E n \in Number(d) : n[2] = minor[d]
      <3>1. <<"char", minor[d]>> \in Number(d)
        BY DEF Number, Kinds
      <3> QED
        BY <3>1
    <2> QED
      BY <2>1, <2>2
  <1>16. ASSUME contested' # contested, NEW e \in Entries, minor[e] = minor[d]
         PROVE  /\ ~Uses(e)'
                /\ e \in Devices => \A kind \in Kinds : kind \notin held'[e]
    <2>1. \A kind \in Kinds : e \notin Holders(<<kind, minor[d]>>)'
      <3> SUFFICES ASSUME NEW kind \in Kinds
                   PROVE  e \notin Holders(<<kind, minor[d]>>)'
        OBVIOUS
      <3>1. PICK n \in Kinds \X Minors : n = <<kind, minor[d]>>
        BY <1>6
      <3>2. n \in Number(d)
        BY <1>9, <3>1
      <3>3. Len(cdevs'[n]) = 0
        BY <1>15, <1>16, <3>2
      <3>4. Holders(n) \ {d} = {}
        BY <1>13, <3>3, FS_EmptySet
      <3>5. e \notin Holders(n)'
        BY <1>11, <3>4
      <3>6. Holders(n)' = Holders(<<kind, minor[d]>>)'
        BY <1>1, <3>1 DEF Holders
      <3> QED
        BY <3>5, <3>6
    <2>2. e \notin Others
      <3>1. "char" \in Kinds
        BY DEF Kinds
      <3> QED
        BY <1>1, <1>16, <2>1, <3>1 DEF Holders
    <2>3. e \in Devices => \A kind \in Kinds : kind \notin held'[e]
      BY <1>1, <1>16, <2>1 DEF Holders
    <2>4. e \in Devices => ~OnList(e)
      BY <1>15, <1>16 DEF NumberInv, ListInv
    <2>5. ASSUME e \in Devices PROVE ~InUse(e)'
      <3>1. CASE e = d
        BY <1>3, <2>4, <2>5, <3>1
      <3>2. CASE e # d
        <4> SUFFICES ASSUME InUse(e) PROVE FALSE
          BY <1>5, <2>5, <3>2 DEF Quiet
        <4>1. PICK k \in 4..5 : Removing(e, k)
          BY <2>4, <2>5, UsedOffList DEF CoreInv, StageInv
        <4>2. "char" \in Owned /\ RemoveBy["char"] = 5 /\ "char" \in Kinds
          BY DEF Owned, RemoveBy, Kinds
        <4>3. "char" \in held[e]
          BY <4>1, <4>2 DEF Removing
        <4> QED
          BY <1>4, <2>3, <2>5, <3>2, <4>2, <4>3
      <3> QED
        BY <3>1, <3>2
    <2> QED
      BY <2>2, <2>3, <2>5 DEF Uses
  <1>17. \A e \in Entries : Uses(e)' => Uses(e)
    BY <1>3, <1>5 DEF Uses, Quiet
  <1>18. UserInv'
    <2> SUFFICES ASSUME NEW e \in Entries, NEW f \in Entries, e # f, Uses(e)', Uses(f)',
                        minor[e] = minor[f]
                 PROVE  minor[e] \in contested'
      BY <1>1 DEF UserInv
    <2>1. minor[e] \in contested
      BY <1>17 DEF NumberInv, UserInv
    <2>2. contested' # contested => minor[e] # minor[d]
      BY <1>16
    <2> QED
      BY <1>15, <2>1, <2>2
  <1>19. OwnInv'
    <2> SUFFICES ASSUME NEW n \in Kinds \X Minors, n[2] \notin contested', NEW i \in DOMAIN cdevs'[n]
                 PROVE  cdevs'[n][i] \in Holders(n)'
      BY DEF OwnInv
    <2>1. CASE n[2] \in contested
      <3>1. contested' # contested /\ n[2] = minor[d]
        BY <1>15, <2>1
      <3>2. n \in Number(d)
        BY <1>9, <3>1
      <3>3. cdevs'[n] = <<>>
        BY <1>15, <3>1, <3>2
      <3> QED
        BY <3>3
    <2>2. CASE n[2] \notin contested /\ ~Loses(n)
      BY <1>11, <1>13, <2>2 DEF NumberInv, OwnInv
    <2>3. CASE n[2] \notin contested /\ Loses(n)
      <3>1. \A e \in Holders(n) : e = d
        <4> SUFFICES ASSUME NEW e \in Holders(n), e # d PROVE FALSE
          OBVIOUS
        <4>1. e \in Entries /\ minor[e] = n[2] /\ Uses(e)
          BY HeldInUse DEF Holders, Uses, CoreInv, StageInv
        <4>2. minor[d] = n[2] /\ Uses(d)
          BY <1>3, <1>10, <2>3 DEF Holders, Uses
        <4> QED
          BY <1>6, <2>3, <4>1, <4>2 DEF NumberInv, UserInv
      <3>2. Holders(n) \ {d} = {}
        BY <3>1
      <3>3. Len(cdevs'[n]) = 0
        BY <1>13, <3>2, FS_EmptySet
      <3>4. cdevs'[n] \in Seq(Entries)
        <4>1. cdevs[n] \in Seq(Entries)
          BY <1>1
        <4>2. cdevs[n] # <<>> => Tail(cdevs[n]) \in Seq(Entries)
          BY <4>1, HeadTailProperties
        <4> QED
          BY <1>12, <4>1, <4>2
      <3>5. DOMAIN cdevs'[n] = 1..0
        BY <3>3, <3>4, LenProperties
      <3> QED
        BY <3>5
    <2> QED
      BY <2>1, <2>2, <2>3
  <1>20. NodeInv'
    BY <1>1, <1>7 DEF NumberInv, NodeInv
  <1>21. OwnNodeInv'
    <2> SUFFICES ASSUME NEW e \in Devices, NEW kind \in Kinds, Live(e)', kind \in held'[e],
                        minor[e] \notin contested'
                 PROVE  <<kind, minor[e]>> \in nodes
      BY <1>1 DEF OwnNodeInv
    <2>1. e # d /\ e \in Entries
      BY <1>3 DEF Entries
    <2>2. Live(e) /\ kind \in held[e]
      BY <1>5, <2>1 DEF Quiet
    <2>3. minor[e] \notin contested
      <3>1. contested' # contested => minor[e] # minor[d]
        BY <1>16, <2>1
      <3> QED
        BY <1>15, <3>1
    <2> QED
      BY <2>2, <2>3 DEF NumberInv, OwnNodeInv
  <1> QED
    BY <1>8, <1>14, <1>18, <1>19, <1>20, <1>21 DEF NumberInv

-----------------------------------------------------------------------------
LEMMA NumberInit == Init => NumberInv
  <1> SUFFICES ASSUME Init PROVE NumberInv
    OBVIOUS
  <1>1. /\ \A d \in Devices : Absent(d)
        /\ Types /\ minor \in [Entries -> Minors]
    BY CoreInit DEF Init, Absent, Unarmed, CoreInv, Types
  <1>2. \A d \in Devices : Off(d)
    BY <1>1, Positions
  <1>3. /\ Others \subseteq Minors /\ IsFiniteSet(Others) /\ Others \cap Devices = {}
        /\ Minors \subseteq Nat /\ \A e \in Others : e \in Entries
    BY LifecycleAssumption DEF Entries
  <1>4. \A e \in Others : minor[e] = e
    BY <1>3 DEF Init
  <1>5. \A e \in Entries : Uses(e) <=> e \in Others
    BY <1>2 DEF Uses, Off, Entries
  <1>6. ListInv
    <2>1. /\ list \in [1..Cardinality(Others) -> Others] /\ Range(list) = Others
          /\ \A i, j \in DOMAIN list : i < j => list[i] < list[j]
      BY DEF Init
    <2>2. Cardinality(Others) \in Nat
      BY <1>3, FS_CardinalityType
    <2>3. list \in Seq(Others)
      BY <2>1, <2>2
    <2>4. list \in Seq(Entries)
      <3>1. Others \subseteq Entries
        BY <1>3
      <3>2. list \in [1..Cardinality(Others) -> Entries]
        BY <2>1, <3>1
      <3> QED
        BY <2>2, <3>2
    <2>5. \A i \in DOMAIN list : minor[list[i]] = list[i]
      BY <1>4, <2>1
    <2> QED
      BY <1>2, <1>3, <1>4, <2>1, <2>4, <2>5 DEF ListInv, Off
  <1>7. UserInv
    BY <1>4, <1>5 DEF UserInv
  <1>8. \A n \in Kinds \X Minors :
          /\ Holders(n) = IF n[2] \in Others THEN {n[2]} ELSE {}
          /\ cdevs[n] = IF n[2] \in Others THEN <<n[2]>> ELSE <<>>
    <2> SUFFICES ASSUME NEW n \in Kinds \X Minors
                 PROVE  Holders(n) = IF n[2] \in Others THEN {n[2]} ELSE {}
      BY DEF Init
    <2>1. \A e : e \in Holders(n) <=> e \in Others /\ e = n[2]
      BY <1>2, <1>3, <1>4 DEF Holders, Off
    <2> QED
      BY <2>1
  <1>9. CountInv
    <2> SUFFICES ASSUME NEW n \in Kinds \X Minors
                 PROVE  IsFiniteSet(Holders(n)) /\ Len(cdevs[n]) = Cardinality(Holders(n))
      BY DEF CountInv
    <2>1. CASE n[2] \in Others
      <3>1. Holders(n) = {n[2]} /\ cdevs[n] = <<n[2]>>
        BY <1>8, <2>1
      <3>2. Len(<<n[2]>>) = 1
        OBVIOUS
      <3> QED
        BY <3>1, <3>2, FS_Singleton
    <2>2. CASE n[2] \notin Others
      <3>1. Holders(n) = {} /\ cdevs[n] = <<>>
        BY <1>8, <2>2
      <3> QED
        BY <3>1, FS_EmptySet, EmptySeq
    <2> QED
      BY <2>1, <2>2
  <1>10. OwnInv
    <2> SUFFICES ASSUME NEW n \in Kinds \X Minors, NEW i \in DOMAIN cdevs[n]
                 PROVE  cdevs[n][i] \in Holders(n)
      BY DEF OwnInv
    <2>1. n[2] \in Others
      <3> SUFFICES ASSUME n[2] \notin Others PROVE FALSE
        OBVIOUS
      <3>1. cdevs[n] = <<>>
        BY <1>8
      <3>2. \A j : j \notin DOMAIN <<>>
        OBVIOUS
      <3> QED
        BY <3>1, <3>2
    <2>2. Holders(n) = {n[2]} /\ cdevs[n] = <<n[2]>>
      BY <1>8, <2>1
    <2> QED
      BY <2>2
  <1>11. NodeInv
    <2> SUFFICES ASSUME NEW n \in Kinds \X Others
                 PROVE  \E e \in Others : minor[e] = n[2]
      BY <1>3 DEF Init, NodeInv
    <2> QED
      BY <1>4
  <1>12. OwnNodeInv
    BY <1>2 DEF OwnNodeInv, Off
  <1> QED
    BY <1>6, <1>7, <1>9, <1>10, <1>11, <1>12 DEF NumberInv

LEMMA GoNumbers ==
  ASSUME CoreInv, NumberInv, NEW d \in Devices, Go(d)
  PROVE  NumberInv'
  BY AcquireNumbers, BarsNumbers, FsInitNumbers, FirmwareNumbers, ReleaseNumbers, DevresNumbers,
     InsertNumbers, DelistNumbers, NodeCreateNumbers, NodeDestroyNumbers, CdevDelNumbers,
     MsixNumbers, RequestNumbers, DownNumbers DEF Go

LEMMA NumberStep == CoreInv /\ NumberInv /\ [Next]_vars => NumberInv'
  <1> SUFFICES ASSUME CoreInv, NumberInv, [Next]_vars PROVE NumberInv'
    OBVIOUS
  <1>1. CASE Next
    <2>1. CASE \E d \in Devices : StartProbe(d) \/ StartRemove(d) \/ Go(d) \/ Resume(d)
      BY <2>1, StartProbeNumbers, StartRemoveNumbers, GoNumbers, ResumeNumbers
    <2>2. CASE \E d \in Devices : Suspend(d)
      BY <2>2, OthersNumbers DEF Suspend
    <2>3. CASE \E u \in Users : Open(u) \/ Opened(u) \/ Close(u) \/ Call(u) \/ CallLock(u)
                                  \/ CallEnd(u) \/ Signal(u)
      <3>1. UNCHANGED deviceVars /\ UNCHANGED nameVars
        BY <2>3 DEF Open, Opened, Close, Call, CallLock, CallEnd, Signal, OnlyUser
      <3> QED
        BY <3>1, OthersNumbers
    <2>4. CASE Freeze \/ Wake \/ Thaw
      BY <2>4, OthersNumbers DEF Freeze, Wake, Thaw
    <2> QED
      BY <1>1, <2>1, <2>2, <2>3, <2>4 DEF Next
  <1>2. CASE UNCHANGED vars
    BY <1>2, OthersNumbers DEF vars
  <1> QED
    BY <1>1, <1>2

LEMMA NumberAlways == Spec => [](CoreInv /\ NumberInv)
  <1>1. Init => CoreInv /\ NumberInv
    BY CoreInit, NumberInit
  <1>2. CoreInv /\ NumberInv /\ [Next]_vars => (CoreInv /\ NumberInv)'
    BY CoreStep, NumberStep
  <1> QED
    BY <1>1, <1>2, PTL DEF Spec

(* A device that the driver does not have, because its probe failed at any *)
(* step or because it was removed, holds nothing but what the code is known*)
(* to leave, is not in the list, and has left no cdev under any number that*)
(* is not contested.                                                       *)
THEOREM NothingLeaksAlways == Spec => []NothingLeaks
  <1>1. CoreInv /\ NumberInv => NothingLeaks
    <2> SUFFICES ASSUME CoreInv, NumberInv, NEW d \in Devices, proc[d] = "none"
                 PROVE  /\ held[d] \subseteq excused[d]
                        /\ ~Listed(d)
                        /\ \A n \in DOMAIN cdevs : d \in Range(cdevs[n]) => n[2] \in contested
      BY DEF NothingLeaks
    <2>1. Types /\ Stage(d) /\ cdevs \in [Kinds \X Minors -> Seq(Entries)]
      BY DEF CoreInv, StageInv, Types
    <2>2. Absent(d)
      BY <2>1 DEF Stage, Present, Hollow, Requesting, Probing, Hollowing, Undoing, Resuming, Removing
    <2>3. held[d] \subseteq excused[d] /\ Off(d)
      BY <2>1, <2>2, Positions DEF Absent
    <2>4. ~Listed(d)
      BY <2>3 DEF NumberInv, ListInv, Off, Listed
    <2>5. ASSUME NEW n \in Kinds \X Minors, d \in Range(cdevs[n]), n[2] \notin contested
          PROVE  FALSE
      <3>1. d \in Holders(n)
        BY <2>5 DEF NumberInv, OwnInv, Range
      <3>2. d \in Others \/ n[1] \in held[d]
        BY <3>1 DEF Holders
      <3> QED
        BY <2>3, <3>2, LifecycleAssumption DEF Off
    <2> QED
      BY <2>1, <2>3, <2>4, <2>5
  <1> QED
    BY <1>1, NumberAlways, PTL

(* The list is sorted by number without a number twice; every node in /dev *)
(* belongs to a device in the list or to one that is being removed; and the*)
(* nodes of a bound device lead to it unless memx_insert_device gave its   *)
(* number to two at once.                                                  *)
THEOREM NodesAndDevicesAgreeAlways == Spec => []NodesAndDevicesAgree
  <1>1. CoreInv /\ NumberInv => NodesAndDevicesAgree
    <2> SUFFICES ASSUME CoreInv, NumberInv PROVE NodesAndDevicesAgree
      OBVIOUS
    <2>1. /\ Types /\ cdevs \in [Kinds \X Minors -> Seq(Entries)]
          /\ minor \in [Entries -> Minors] /\ nodes \subseteq Kinds \X Minors
      BY DEF CoreInv, Types
    <2>2. \A i, j \in DOMAIN list : i < j => minor[list[i]] < minor[list[j]]
      BY DEF NumberInv, ListInv
    <2>3. ASSUME NEW n \in nodes
          PROVE  \/ \E d \in Range(list) : minor[d] = n[2]
                 \/ \E d \in Devices : proc[d] = "remove" /\ minor[d] = n[2]
      <3>1. PICK e \in Entries : minor[e] = n[2] /\ (e \in Others \/ (e \in Devices /\ Backs(e)))
        BY DEF NumberInv, NodeInv
      <3>2. CASE e \in Range(list)
        BY <3>1, <3>2
      <3>3. CASE e \notin Range(list)
        <4>1. e \in Devices /\ Backs(e) /\ ~OnList(e)
          BY <3>1, <3>3 DEF NumberInv, ListInv
        <4>2. proc[e] = "remove"
          BY <4>1 DEF Backs, BackAt, OnList
        <4> QED
          BY <3>1, <4>1, <4>2
      <3> QED
        BY <3>2, <3>3
    <2>4. ASSUME NEW d \in Bound, "pDev" \in held[d], minor[d] \notin contested
          PROVE  /\ Listed(d)
                 /\ \A n \in Number(d) : n \in nodes /\ cdevs[n] # <<>> /\ Head(cdevs[n]) = d
      <3>1. d \in Devices /\ proc[d] = "bound" /\ Stage(d) /\ excused[d] \subseteq {"fifo", "fs"}
            /\ d \in Entries /\ minor[d] \in Minors
        BY <2>1 DEF Bound, CoreInv, StageInv, Types, Entries
      <3>2. Present(d)
        BY <2>4, <3>1 DEF Stage, Absent, Hollow, Requesting, Probing, Hollowing, Undoing, Resuming,
                          Removing
      <3>3. OnList(d) /\ InUse(d) /\ Uses(d) /\ Live(d)
        BY <2>1, <3>1, <3>2, Positions DEF On, Uses, Live
      <3>4. Listed(d)
        BY <3>1, <3>3 DEF NumberInv, ListInv, Listed
      <3>5. ASSUME NEW n \in Number(d)
            PROVE  n \in nodes /\ cdevs[n] # <<>> /\ Head(cdevs[n]) = d
        <4>1. n \in Kinds \X Minors /\ n[1] \in Kinds /\ n[2] = minor[d] /\ n = <<n[1], minor[d]>>
          BY <3>1 DEF Number
        <4>2. n[1] \in held[d]
          BY <3>2, <4>1 DEF Present, Owned, Kinds
        <4>3. n \in nodes
          BY <2>4, <3>1, <3>3, <4>1, <4>2 DEF NumberInv, OwnNodeInv
        <4>4. d \in Holders(n)
          BY <3>1, <4>1, <4>2 DEF Holders
        <4>5. Len(cdevs[n]) # 0
          BY <4>1, <4>4, FS_EmptySet DEF NumberInv, CountInv
        <4>6. cdevs[n] \in Seq(Entries) /\ cdevs[n] # <<>>
          BY <2>1, <4>1, <4>5
        <4>7. Head(cdevs[n]) = cdevs[n][1] /\ 1 \in DOMAIN cdevs[n]
          <5>1. Len(cdevs[n]) \in Nat /\ DOMAIN cdevs[n] = 1..Len(cdevs[n])
            BY <4>6, LenProperties
          <5>2. 1 \in DOMAIN cdevs[n]
            BY <4>5, <5>1
          <5> QED
            BY <4>6, <5>2
        <4>8. Head(cdevs[n]) \in Holders(n)
          BY <2>4, <4>1, <4>7 DEF NumberInv, OwnInv
        <4>9. \A e \in Holders(n) : e = d
          <5> SUFFICES ASSUME NEW e \in Holders(n), e # d PROVE FALSE
            OBVIOUS
          <5>1. e \in Entries /\ minor[e] = n[2] /\ Uses(e)
            BY <2>1, <4>1, HeldInUse DEF Holders, Uses, CoreInv, StageInv
          <5> QED
            BY <2>4, <3>1, <3>3, <4>1, <5>1 DEF NumberInv, UserInv
        <4> QED
          BY <4>3, <4>6, <4>8, <4>9
      <3> QED
        BY <3>4, <3>5
    <2> QED
      BY <2>2, <2>3, <2>4 DEF NodesAndDevicesAgree
  <1> QED
    BY <1>1, NumberAlways, PTL

=============================================================================
