----------------------- MODULE MemxUsbDevices_proofs -----------------------
(***************************************************************************)
(* Safety of the USB device list for any number of interfaces, processes,  *)
(* minors and regions.  The inductive invariant has one part for each thing*)
(* that devices share: minors, device_mutex with the class it protects,    *)
(* directories, and open files; and one for what each of them has.         *)
(***************************************************************************)
EXTENDS MemxUsbDevices, FiniteSetTheorems, WellFoundedInduction, TLAPS

Places == Unready \cup Served \cup {"absent", "firmware", "deregister", "free"}
Things == Buffers \cup {"data", "intf", "cdev", "device", "dir"}

Types ==
  /\ pc \in [Interfaces -> Places]
  /\ held \in [Interfaces -> SUBSET Things]
  /\ flying \subseteq Interfaces
  /\ minor \in [Interfaces -> Minors \cup {None}]
  /\ taken \subseteq Minors
  /\ class \in BOOLEAN
  /\ lost \in Nat /\ regions \in 0..MaxRegions
  /\ device_mutex \in Interfaces \cup {None}
  /\ index \in [Interfaces -> Indexes \cup {None}] /\ dirs \subseteq Indexes
  /\ reference_count \in [Interfaces -> Int]
  /\ file \in [Users -> Interfaces \cup {None}]
  /\ failed \subseteq Interfaces /\ stuck \subseteq Interfaces /\ early \subseteq Interfaces

(* A minor is one interface's, from usb_register_dev on and, if its probe  *)
(* has failed, for ever; the list has minors that are taken.               *)
MinorInv ==
  /\ device_link \subseteq taken
  /\ \A i \in Interfaces :
       /\ minor[i] # None => minor[i] \in taken
       /\ pc[i] \in {"firmware", "register"} => minor[i] = None
       /\ pc[i] = "deregister" => minor[i] \notin device_link
       /\ \A j \in Interfaces : minor[i] # None /\ minor[j] = minor[i] => i = j

(* What memx_data has at each statement.                                   *)
WithMinor == Unready \cup (Served \ {"bound", "kill"}) \cup {"deregister"}
WithNode  == {"link", "dead"} \cup (Served \ {"delist"})

HeldInv ==
  \A i \in Interfaces :
    /\ pc[i] \in WithMinor => ~Loader(i)
    /\ pc[i] = "firmware" => Loader(i)
    /\ pc[i] # "absent" => "data" \in held[i]
    /\ "device" \in held[i] \/ "cdev" \in held[i] => pc[i] \in WithNode /\ ~Loader(i)
    /\ "dir" \in held[i] => pc[i] = "bound"
    /\ pc[i] = "absent" /\ i \notin failed => held[i] \subseteq {"intf"} /\ i \notin flying
    /\ pc[i] \in {"destroy", "delist", "deregister", "free"} => i \notin flying

(* device_mutex, and the class while nobody has it and while a probe does. *)
ClassOf(i) ==
  /\ pc[i] \in Locked => device_mutex = i
  /\ device_mutex = i => pc[i] \in Locked \/ i \in stuck
  /\ pc[i] = "region" => device_link = {} /\ ~class /\ regions = lost
  /\ pc[i] = "class" => device_link = {} /\ ~class /\ regions = lost + 1
  /\ pc[i] \in {"node", "link"} => class /\ regions = lost + 1
  /\ pc[i] \in Served /\ ~Loader(i) => minor[i] \in device_link
  /\ "device" \in held[i] => class

ClassInv ==
  /\ lost <= regions
  /\ device_mutex = None =>
       class = (device_link # {}) /\ regions = lost + (IF class THEN 1 ELSE 0)
  /\ \A i \in Interfaces : ClassOf(i)

(* A directory is its owner's alone.                                       *)
DirInv ==
  \A i \in Interfaces :
    /\ pc[i] = "fs" => index[i] # None
    /\ pc[i] # "fs" /\ "dir" \notin held[i] => index[i] = None
    /\ "dir" \in held[i] =>
         /\ index[i] \in dirs
         /\ \A j \in Interfaces : "dir" \in held[j] /\ index[j] = index[i] => i = j

(* Files are opened where there is a node; the count lags behind by the    *)
(* files that were open when memx_probe zeroed it, and by none if it was   *)
(* not opened early.                                                       *)
FilesOf(i) == {u \in Users : file[u] = i}

CountOf(i) ==
  /\ pc[i] = "absent" => i \notin early
  /\ i \notin early =>
       /\ pc[i] \in Unready \cup {"absent", "firmware"} => FilesOf(i) = {}
       /\ reference_count[i] = Cardinality(FilesOf(i))
  /\ reference_count[i] <= Cardinality(FilesOf(i))
  /\ reference_count[i] >= Cardinality(FilesOf(i)) - Cardinality(Users)

CountInv == \A i \in Interfaces : CountOf(i)

IInv == Types /\ MinorInv /\ HeldInv /\ ClassInv /\ DirInv /\ CountInv

-----------------------------------------------------------------------------
(* What is searched for, if there is any: a least one.                     *)
LEMMA LeastIsThere ==
  ASSUME NEW S \in SUBSET Nat, S # {}
  PROVE  Min(S) \in S
  <1> DEFINE R == OpToRel(<, Nat)
  <1>1. IsWellFoundedOn(R, Nat)
    BY NatLessThanWellFounded
  <1>2. R = {ss \in Nat \X Nat : ss[1] < ss[2]}
    BY DEF OpToRel
  <1> HIDE DEF R
  <1>3. PICK x \in S : \A y \in S : ~(<<y, x>> \in R)
    BY <1>1, WFMin
  <1>4. \A y \in S : x \in Nat /\ y \in Nat /\ (y < x => <<y, x>> \in R)
    BY <1>2
  <1>5. \A y \in S : x \in Nat /\ y \in Nat /\ ~(y < x)
    BY <1>3, <1>4, Zenon
  <1>6. \A y \in S : x <= y
    BY <1>5
  <1> QED
    BY <1>3, <1>6 DEF Min

LEMMA BoundsAreNumbers ==
  /\ MaxMinor \in Nat /\ MaxRegions \in Nat
  /\ Minors \subseteq Nat /\ None \notin Minors
  BY UsbDevicesAssumption DEF Minors

LEMMA IndexesAreNumbers == Indexes \subseteq Nat /\ 0 \in Indexes
  BY FS_CardinalityType, UsbDevicesAssumption DEF Indexes

LEMMA TypesStep ==
  ASSUME Types, HeldInv, ClassInv, DirInv, [Next]_vars
  PROVE  Types'
  <1> USE UsbDevicesAssumption DEF Types, Places, Things, Unready, Served, Buffers, Minors
  <1>1. ASSUME NEW i \in Interfaces, Alloc(i)
         PROVE  Types'
    BY <1>1 DEF Alloc, Fails, Orphan, Go, fileVars, listVars, fsVars
  <1>2. ASSUME NEW i \in Interfaces, FirmwareInit(i)
         PROVE  Types'
    BY <1>2 DEF FirmwareInit, Fails, Orphan, Go, fileVars, listVars, fsVars
  <1>3. ASSUME NEW i \in Interfaces, Register(i)
         PROVE  Types'
    <2>1. Minors \ taken # {} => Min(Minors \ taken) \in Minors \ taken
      BY LeastIsThere, BoundsAreNumbers
    <2>2. minor' \in [Interfaces -> Minors \cup {None}]
      BY <1>3, <2>1 DEF Register
    <2>3. taken' \subseteq Minors
      <3>1. CASE UNCHANGED taken
        BY <3>1
      <3>2. CASE /\ Minors \ taken # {}
                 /\ minor' = [minor EXCEPT ![i] = Min(Minors \ taken)]
                 /\ taken' = taken \cup {minor'[i]}
        <4>1. minor'[i] \in Minors
          BY <2>1, <3>2
        <4> QED
          BY <3>2, <4>1
      <3> QED
        BY <1>3, <3>1, <3>2 DEF Register
    <2> QED
      BY <1>3, <2>2, <2>3 DEF Register, Go, listVars, fsVars, fileVars
  <1>4. ASSUME NEW i \in Interfaces, Lock(i)
         PROVE  Types'
    BY <1>4 DEF Lock, Go, fsVars, fileVars
  <1>5. ASSUME NEW i \in Interfaces, Region(i)
         PROVE  Types'
    BY <1>5 DEF Region, Fails, Orphan, Go, fileVars, fsVars
  <1>6. ASSUME NEW i \in Interfaces, Class(i)
         PROVE  Types'
    <2>1. lost' \in Nat
      BY <1>6 DEF Class, ClassFails
    <2>2. class' \in BOOLEAN /\ pc' \in [Interfaces -> Places]
      BY <1>6 DEF Class, ClassFails, Fails, Go
    <2>3. CASE ClassFails(i)
      BY <1>6, <2>1, <2>2, <2>3 DEF Class, ClassFails, Fails, Orphan, fsVars
    <2>4. CASE ~ClassFails(i)
      BY <1>6, <2>1, <2>2, <2>4 DEF Class, fileVars, fsVars
    <2> QED
      BY <2>3, <2>4
  <1>7. ASSUME NEW i \in Interfaces, Node(i)
         PROVE  Types'
    BY <1>7 DEF Node, Fails, Orphan, Go, listVars, fsVars, fileVars
  <1>8. ASSUME NEW i \in Interfaces, Link(i)
         PROVE  Types'
    BY <1>8 DEF Link, Go, fsVars, fileVars
  <1>9. ASSUME NEW i \in Interfaces, Count(i)
         PROVE  Types'
    BY <1>9 DEF Count, Go, listVars, fsVars
  <1>10. ASSUME NEW i \in Interfaces, Place(i)
         PROVE  Types'
    <2>1. ~(Indexes \subseteq dirs) => Min(Indexes \ dirs) \in Indexes
      BY LeastIsThere, IndexesAreNumbers
    <2> QED
      BY <1>10, <2>1, IndexesAreNumbers DEF Place, Go, listVars, fileVars
  <1>11. ASSUME NEW i \in Interfaces, FsInit(i)
         PROVE  Types'
    <2>1. index[i] \in Indexes
      BY <1>11 DEF FsInit, Go, DirInv
    <2> QED
      BY <1>11, <2>1 DEF FsInit, Go, listVars, fileVars
  <1>12. ASSUME NEW i \in Interfaces, FsDeinit(i)
         PROVE  Types'
    BY <1>12 DEF FsDeinit, Go, listVars, fileVars
  <1>13. ASSUME NEW i \in Interfaces, Kill(i)
         PROVE  Types'
    BY <1>13 DEF Kill, Go, listVars, fsVars, fileVars
  <1>14. ASSUME NEW i \in Interfaces, Destroy(i)
         PROVE  Types'
    BY <1>14 DEF Destroy, Go, listVars, fsVars, fileVars
  <1>15. ASSUME NEW i \in Interfaces, Delist(i)
         PROVE  Types'
    <2>1. minor[i] \in device_link /\ device_mutex = None
      BY <1>15 DEF Delist, Go, ClassInv, ClassOf, HeldInv, WithMinor
    <2>2. regions = lost + 1
      BY <2>1 DEF ClassInv
    <2>3. regions' = regions \/ regions' = regions - 1
      BY <1>15 DEF Delist
    <2>4. regions' \in 0..MaxRegions
      BY <2>2, <2>3, BoundsAreNumbers
    <2> QED
      BY <1>15, <2>4 DEF Delist, Unlinked, Go, fsVars, fileVars
  <1>16. ASSUME NEW i \in Interfaces, Deregister(i)
         PROVE  Types'
    BY <1>16 DEF Deregister, Go, listVars, fsVars, fileVars
  <1>17. ASSUME NEW i \in Interfaces, Free(i)
         PROVE  Types'
    BY <1>17 DEF Free, Orphan, Go, listVars, fsVars
  <1>18. ASSUME NEW i \in Interfaces, TimeOut(i)
         PROVE  Types'
    BY <1>18 DEF TimeOut, listVars, fsVars, fileVars
  <1>19. ASSUME NEW i \in Interfaces, Giveback(i)
         PROVE  Types'
    BY <1>19 DEF Giveback, listVars, fsVars, fileVars
  <1>20. ASSUME NEW u \in Users, Close(u)
         PROVE  Types'
    BY <1>20 DEF Close, Released, listVars, fsVars
  <1>21. ASSUME NEW u \in Users, NEW i \in Interfaces, Open(u, i)
         PROVE  Types'
    BY <1>21 DEF Open, listVars, fsVars
  <1>22. CASE UNCHANGED vars
    BY <1>22 DEF vars, listVars, fsVars, fileVars
  <1> QED
    BY <1>1, <1>2, <1>3, <1>4, <1>5, <1>6, <1>7, <1>8, <1>9, <1>10, <1>11, <1>12, <1>13, <1>14, <1>15, <1>16, <1>17, <1>18, <1>19, <1>20, <1>21, <1>22 DEF Next, Probe, Disconnect

LEMMA MinorStep ==
  ASSUME Types, MinorInv, ClassInv, [Next]_vars
  PROVE  MinorInv'
  <1> USE UsbDevicesAssumption DEF Types, MinorInv, Minors
  <1>1. ASSUME NEW i \in Interfaces, Alloc(i)
         PROVE  MinorInv'
    BY <1>1 DEF Alloc, Fails, Orphan, Go, fileVars, listVars, fsVars
  <1>2. ASSUME NEW i \in Interfaces, FirmwareInit(i)
         PROVE  MinorInv'
    BY <1>2 DEF FirmwareInit, Fails, Orphan, Go, fileVars, listVars, fsVars
  <1>3. ASSUME NEW i \in Interfaces, Register(i)
         PROVE  MinorInv'
    <2>1. Minors \ taken # {} => Min(Minors \ taken) \in Minors \ taken
      BY LeastIsThere
    <2>2. None \notin Minors
      OBVIOUS
    <2>3. CASE minor' = [minor EXCEPT ![i] = None] /\ UNCHANGED taken
      BY <1>3, <2>2, <2>3 DEF Register, Go, listVars
    <2>4. CASE /\ Minors \ taken # {}
               /\ minor' = [minor EXCEPT ![i] = Min(Minors \ taken)]
               /\ taken' = taken \cup {minor'[i]}
      <3> DEFINE m == Min(Minors \ taken)
      <3>1. m \in Minors \ taken /\ minor' = [minor EXCEPT ![i] = m] /\ taken' = taken \cup {m}
        BY <2>1, <2>4
      <3> HIDE DEF m
      <3> QED
        BY <1>3, <2>2, <3>1 DEF Register, Go, listVars
    <2> QED
      BY <1>3, <2>3, <2>4 DEF Register
  <1>4. ASSUME NEW i \in Interfaces, Lock(i)
         PROVE  MinorInv'
    BY <1>4 DEF Lock, Go, fsVars, fileVars
  <1>5. ASSUME NEW i \in Interfaces, Region(i)
         PROVE  MinorInv'
    BY <1>5 DEF Region, Fails, Orphan, Go, fileVars, fsVars
  <1>6. ASSUME NEW i \in Interfaces, Class(i)
         PROVE  MinorInv'
    BY <1>6 DEF Class, ClassFails, Fails, Orphan, Go, fileVars, fsVars
  <1>7. ASSUME NEW i \in Interfaces, Node(i)
         PROVE  MinorInv'
    BY <1>7 DEF Node, Fails, Orphan, Go, listVars, fsVars, fileVars
  <1>8. ASSUME NEW i \in Interfaces, Link(i)
         PROVE  MinorInv'
    <2>1. CASE minor[i] = None
      BY <1>8, <2>1 DEF Link, Go
    <2>2. CASE minor[i] # None
      <3>1. /\ device_link' = device_link \cup {minor[i]} /\ UNCHANGED <<minor, taken>>
            /\ pc' = [pc EXCEPT ![i] = "count"]
        BY <1>8, <2>2 DEF Link, Go
      <3>2. \A j \in Interfaces : pc'[j] = "deregister" => j # i /\ pc[j] = "deregister"
        BY <3>1
      <3>3. \A j \in Interfaces : j # i => minor[j] # minor[i]
        BY <2>2
      <3>4. \A j \in Interfaces : pc'[j] = "deregister" => minor[j] \notin device_link'
        BY <3>1, <3>2, <3>3
      <3>5. \A j \in Interfaces : pc'[j] \in {"firmware", "register"} => minor[j] = None
        BY <3>1
      <3> QED
        BY <2>2, <3>1, <3>4, <3>5
    <2> QED
      BY <2>1, <2>2
  <1>9. ASSUME NEW i \in Interfaces, Count(i)
         PROVE  MinorInv'
    BY <1>9 DEF Count, Go, listVars, fsVars
  <1>10. ASSUME NEW i \in Interfaces, Place(i)
         PROVE  MinorInv'
    BY <1>10 DEF Place, Go, listVars, fileVars
  <1>11. ASSUME NEW i \in Interfaces, FsInit(i)
         PROVE  MinorInv'
    BY <1>11 DEF FsInit, Go, listVars, fileVars
  <1>12. ASSUME NEW i \in Interfaces, FsDeinit(i)
         PROVE  MinorInv'
    BY <1>12 DEF FsDeinit, Go, listVars, fileVars
  <1>13. ASSUME NEW i \in Interfaces, Kill(i)
         PROVE  MinorInv'
    BY <1>13 DEF Kill, Go, listVars, fsVars, fileVars
  <1>14. ASSUME NEW i \in Interfaces, Destroy(i)
         PROVE  MinorInv'
    BY <1>14 DEF Destroy, Go, listVars, fsVars, fileVars
  <1>15. ASSUME NEW i \in Interfaces, Delist(i)
         PROVE  MinorInv'
    BY <1>15 DEF Delist, Unlinked, EmptyAfter, Go, fsVars, fileVars
  <1>16. ASSUME NEW i \in Interfaces, Deregister(i)
         PROVE  MinorInv'
    BY <1>16 DEF Deregister, Go, listVars, fsVars, fileVars
  <1>17. ASSUME NEW i \in Interfaces, Free(i)
         PROVE  MinorInv'
    BY <1>17 DEF Free, Orphan, Go, listVars, fsVars
  <1>18. ASSUME NEW i \in Interfaces, TimeOut(i)
         PROVE  MinorInv'
    BY <1>18 DEF TimeOut, listVars, fsVars, fileVars
  <1>19. ASSUME NEW i \in Interfaces, Giveback(i)
         PROVE  MinorInv'
    BY <1>19 DEF Giveback, listVars, fsVars, fileVars
  <1>20. ASSUME NEW u \in Users, Close(u)
         PROVE  MinorInv'
    BY <1>20 DEF Close, Released, listVars, fsVars
  <1>21. ASSUME NEW u \in Users, NEW i \in Interfaces, Open(u, i)
         PROVE  MinorInv'
    BY <1>21 DEF Open, listVars, fsVars
  <1>22. CASE UNCHANGED vars
    BY <1>22 DEF vars, listVars, fsVars, fileVars
  <1> QED
    BY <1>1, <1>2, <1>3, <1>4, <1>5, <1>6, <1>7, <1>8, <1>9, <1>10, <1>11, <1>12, <1>13, <1>14, <1>15, <1>16, <1>17, <1>18, <1>19, <1>20, <1>21, <1>22 DEF Next, Probe, Disconnect

LEMMA HeldStep ==
  ASSUME Types, HeldInv, [Next]_vars
  PROVE  HeldInv'
  <1> USE UsbDevicesAssumption DEF Types, Things, HeldInv, WithMinor, WithNode, Unready, Served, Loader, Buffers
  <1>1. ASSUME NEW i \in Interfaces, Alloc(i)
         PROVE  HeldInv'
    BY <1>1 DEF Alloc, Fails, Orphan, Go, fileVars, listVars, fsVars
  <1>2. ASSUME NEW i \in Interfaces, FirmwareInit(i)
         PROVE  HeldInv'
    BY <1>2 DEF FirmwareInit, Fails, Orphan, Go, fileVars, listVars, fsVars
  <1>3. ASSUME NEW i \in Interfaces, Register(i)
         PROVE  HeldInv'
    BY <1>3 DEF Register, Go, listVars, fsVars, fileVars
  <1>4. ASSUME NEW i \in Interfaces, Lock(i)
         PROVE  HeldInv'
    BY <1>4 DEF Lock, Go, fsVars, fileVars
  <1>5. ASSUME NEW i \in Interfaces, Region(i)
         PROVE  HeldInv'
    BY <1>5 DEF Region, Fails, Orphan, Go, fileVars, fsVars
  <1>6. ASSUME NEW i \in Interfaces, Class(i)
         PROVE  HeldInv'
    BY <1>6 DEF Class, ClassFails, Fails, Orphan, Go, fileVars, fsVars
  <1>7. ASSUME NEW i \in Interfaces, Node(i)
         PROVE  HeldInv'
    BY <1>7 DEF Node, Fails, Orphan, Go, listVars, fsVars, fileVars
  <1>8. ASSUME NEW i \in Interfaces, Link(i)
         PROVE  HeldInv'
    BY <1>8 DEF Link, Go, fsVars, fileVars
  <1>9. ASSUME NEW i \in Interfaces, Count(i)
         PROVE  HeldInv'
    BY <1>9 DEF Count, Go, listVars, fsVars
  <1>10. ASSUME NEW i \in Interfaces, Place(i)
         PROVE  HeldInv'
    BY <1>10 DEF Place, Go, listVars, fileVars
  <1>11. ASSUME NEW i \in Interfaces, FsInit(i)
         PROVE  HeldInv'
    BY <1>11 DEF FsInit, Go, listVars, fileVars
  <1>12. ASSUME NEW i \in Interfaces, FsDeinit(i)
         PROVE  HeldInv'
    BY <1>12 DEF FsDeinit, Go, listVars, fileVars
  <1>13. ASSUME NEW i \in Interfaces, Kill(i)
         PROVE  HeldInv'
    BY <1>13 DEF Kill, Go, listVars, fsVars, fileVars
  <1>14. ASSUME NEW i \in Interfaces, Destroy(i)
         PROVE  HeldInv'
    BY <1>14 DEF Destroy, Go, listVars, fsVars, fileVars
  <1>15. ASSUME NEW i \in Interfaces, Delist(i)
         PROVE  HeldInv'
    BY <1>15 DEF Delist, Unlinked, EmptyAfter, Go, fsVars, fileVars
  <1>16. ASSUME NEW i \in Interfaces, Deregister(i)
         PROVE  HeldInv'
    BY <1>16 DEF Deregister, Go, listVars, fsVars, fileVars
  <1>17. ASSUME NEW i \in Interfaces, Free(i)
         PROVE  HeldInv'
    <2>1. pc[i] = "free" /\ held'[i] = held[i] \ (Buffers \cup {"data"})
      BY <1>17 DEF Free, Go
    <2>2. "device" \notin held[i] /\ "cdev" \notin held[i] /\ "dir" \notin held[i] /\ i \notin flying
      BY <2>1
    <2>3. held'[i] \subseteq {"intf"}
      BY <2>1, <2>2
    <2>4. pc'[i] = "absent" /\ flying' = flying /\ failed' = failed
      BY <1>17 DEF Free, Go
    <2>5. \A j \in Interfaces \ {i} : held'[j] = held[j] /\ pc'[j] = pc[j]
      BY <1>17 DEF Free, Go
    <2> QED
      BY <2>2, <2>3, <2>4, <2>5
  <1>18. ASSUME NEW i \in Interfaces, TimeOut(i)
         PROVE  HeldInv'
    BY <1>18 DEF TimeOut, listVars, fsVars, fileVars
  <1>19. ASSUME NEW i \in Interfaces, Giveback(i)
         PROVE  HeldInv'
    BY <1>19 DEF Giveback, listVars, fsVars, fileVars
  <1>20. ASSUME NEW u \in Users, Close(u)
         PROVE  HeldInv'
    BY <1>20 DEF Close, Released, listVars, fsVars
  <1>21. ASSUME NEW u \in Users, NEW i \in Interfaces, Open(u, i)
         PROVE  HeldInv'
    BY <1>21 DEF Open, listVars, fsVars
  <1>22. CASE UNCHANGED vars
    BY <1>22 DEF vars, listVars, fsVars, fileVars
  <1> QED
    BY <1>1, <1>2, <1>3, <1>4, <1>5, <1>6, <1>7, <1>8, <1>9, <1>10, <1>11, <1>12, <1>13, <1>14, <1>15, <1>16, <1>17, <1>18, <1>19, <1>20, <1>21, <1>22 DEF Next, Probe, Disconnect

(* Between two holders of the mutex.                                       *)
LEMMA ClassAtRest ==
  ASSUME Types, ClassInv, device_mutex = None
  PROVE  /\ device_link = {} => ~class /\ regions = lost
         /\ device_link # {} => class /\ regions = lost + 1
  <1>1. (device_link = {} => ~class) /\ (device_link # {} => class)
    BY Zenon DEF Types, ClassInv
  <1>2. regions = lost + (IF class THEN 1 ELSE 0) /\ lost \in Nat
    BY DEF Types, ClassInv
  <1> QED
    BY <1>1, <1>2

LEMMA ListedAreMinors ==
  ASSUME Types, MinorInv, NEW i \in Interfaces, minor[i] \in device_link
  PROVE  minor[i] # None
  BY BoundsAreNumbers DEF Types, MinorInv

LEMMA LockClass ==
  ASSUME Types, ClassInv, NEW i \in Interfaces, Lock(i)
  PROVE  ClassInv'
  <1>1. /\ pc' = [pc EXCEPT ![i] = IF device_link = {} THEN "region" ELSE "node"]
        /\ pc[i] = "lock" /\ device_mutex = None /\ device_mutex' = i
        /\ UNCHANGED <<held, minor, device_link, class, regions, lost, stuck>>
    BY DEF Lock, Go
  <1>2. pc \in [Interfaces -> Places] /\ None \notin Interfaces
    BY UsbDevicesAssumption DEF Types
  <1>3. \A j \in Interfaces : pc[j] \notin Locked
    BY <1>1, <1>2 DEF ClassInv, ClassOf
  <1>4. device_mutex' # None /\ (lost <= regions)'
    BY <1>1, <1>2 DEF ClassInv
  <1>5. ClassOf(i)'
    <2>1. device_link = {} => ~class' /\ regions' = lost' /\ pc'[i] = "region"
      BY <1>1, <1>2, ClassAtRest
    <2>2. device_link # {} => class' /\ regions' = lost' + 1 /\ pc'[i] = "node"
      BY <1>1, <1>2, ClassAtRest
    <2>3. "device" \in held'[i] => class'
      BY <1>1 DEF ClassInv, ClassOf
    <2> QED
      BY <1>1, <2>1, <2>2, <2>3 DEF ClassOf, Locked, Served
  <1>6. ASSUME NEW j \in Interfaces, j # i
        PROVE  ClassOf(j)'
    <2>1. pc'[j] = pc[j] /\ pc[j] \notin Locked /\ ClassOf(j)
      BY <1>1, <1>2, <1>3, <1>6 DEF ClassInv
    <2> QED
      BY <1>1, <1>6, <2>1 DEF ClassOf, Locked, Loader
  <1> QED
    BY <1>4, <1>5, <1>6 DEF ClassInv

LEMMA DelistClass ==
  ASSUME Types, MinorInv, HeldInv, ClassInv, NEW i \in Interfaces, Delist(i)
  PROVE  ClassInv'
  <1>1. /\ pc' = [pc EXCEPT ![i] = "deregister"] /\ pc[i] = "delist" /\ device_mutex = None
        /\ device_link' = device_link \ {minor[i]}
        /\ UNCHANGED <<held, minor, device_mutex, lost, stuck>>
    BY DEF Delist, Unlinked, Go
  <1>2. /\ pc \in [Interfaces -> Places] /\ None \notin Interfaces
        /\ lost \in Nat /\ regions \in Int /\ class \in BOOLEAN
    BY UsbDevicesAssumption, BoundsAreNumbers DEF Types
  <1>3. \A j \in Interfaces : pc[j] \notin Locked
    BY <1>1, <1>2 DEF ClassInv, ClassOf
  <1>4. minor[i] \in device_link
    BY <1>1 DEF ClassInv, ClassOf, HeldInv, WithMinor, Served
  <1>5. minor[i] # None
    BY <1>4, ListedAreMinors
  <1>6. class /\ regions = lost + 1
    BY <1>1, <1>4, ClassAtRest
  <1>7. ASSUME NEW j \in Interfaces, j # i, pc[j] \in Served, ~Loader(j)
        PROVE  minor[j] \in device_link'
    <2>1. minor[j] \in device_link
      BY <1>7 DEF ClassInv, ClassOf
    <2>2. minor[j] # minor[i]
      BY <1>5, <1>7 DEF MinorInv
    <2> QED
      BY <1>1, <2>1, <2>2
  <1>8. ASSUME NEW j \in Interfaces, "device" \in held[j]
        PROVE  j # i /\ pc[j] \in Served /\ ~Loader(j)
    BY <1>1, <1>3, <1>8 DEF HeldInv, WithNode, Served, Locked
  <1>9. (device_link' = {} /\ class' = FALSE /\ regions' = lost)
         \/ (device_link' # {} /\ class' = TRUE /\ regions' = lost + 1)
    <2>1. CASE device_link' = {}
      <3>1. class' = FALSE /\ regions' = regions - 1
        BY <1>1, <2>1 DEF Delist, EmptyAfter
      <3> QED
        BY <1>2, <1>6, <2>1, <3>1
    <2>2. CASE device_link' # {}
      <3>1. class' = class /\ regions' = regions
        BY <1>1, <2>2 DEF Delist, EmptyAfter
      <3> QED
        BY <1>2, <1>6, <2>2, <3>1
    <2> QED
      BY <2>1, <2>2
  <1>10. ASSUME NEW j \in Interfaces
         PROVE  ClassOf(j)'
    <2>1. "device" \in held'[j] => class'
      <3>1. ASSUME "device" \in held[j]
            PROVE  device_link' # {}
        BY <1>7, <1>8, <3>1
      <3> QED
        BY <1>1, <1>9, <3>1
    <2>2. pc'[j] \in Served /\ ~Loader(j)' => minor'[j] \in device_link'
      <3>1. CASE j = i
        BY <1>1, <1>2, <3>1 DEF Served
      <3>2. CASE j # i
        BY <1>1, <1>2, <1>7, <3>2 DEF Loader
      <3> QED
        BY <3>1, <3>2
    <2>3. pc'[j] \notin Locked \cup {"region", "class", "node", "link"}
      BY <1>1, <1>2, <1>3 DEF Locked
    <2>4. device_mutex' # j
      BY <1>1, <1>2
    <2> QED
      BY <2>1, <2>2, <2>3, <2>4 DEF ClassOf
  <1>11. lost' = lost /\ lost <= regions'
    BY <1>1, <1>2, <1>9
  <1>12. class' = (device_link' # {})
    BY <1>9, Zenon
  <1>13. regions' = lost' + (IF class' THEN 1 ELSE 0)
    BY <1>1, <1>2, <1>9
  <1> QED
    BY <1>2, <1>10, <1>11, <1>12, <1>13 DEF ClassInv

LEMMA ClassStep ==
  ASSUME Types, MinorInv, HeldInv, ClassInv, [Next]_vars
  PROVE  ClassInv'
  <1> USE UsbDevicesAssumption DEF Types, HeldInv, ClassInv, ClassOf, MinorInv, WithMinor, WithNode, Unready, Served, Locked, Loader, Buffers
  <1>1. ASSUME NEW i \in Interfaces, Alloc(i)
         PROVE  ClassInv'
    BY <1>1 DEF Alloc, Fails, Orphan, Go, fileVars, listVars, fsVars
  <1>2. ASSUME NEW i \in Interfaces, FirmwareInit(i)
         PROVE  ClassInv'
    <2>1. CASE Go(i, "firmware", "bound") /\ UNCHANGED <<held, flying, failed, fileVars>>
      <3>1. Loader(i)'
        BY <1>2, <2>1 DEF FirmwareInit, Go
      <3> QED
        BY <1>2, <2>1, <3>1 DEF FirmwareInit, Go, listVars
    <2>2. CASE Fails(i, "firmware")
      BY <1>2, <2>2 DEF FirmwareInit, Fails, Go, listVars
    <2> QED
      BY <1>2, <2>1, <2>2 DEF FirmwareInit
  <1>3. ASSUME NEW i \in Interfaces, Register(i)
         PROVE  ClassInv'
    BY <1>3 DEF Register, Go, listVars, fsVars, fileVars
  <1>4. ASSUME NEW i \in Interfaces, Lock(i)
         PROVE  ClassInv'
    BY <1>4, LockClass
  <1>5. ASSUME NEW i \in Interfaces, Region(i)
         PROVE  ClassInv'
    BY <1>5 DEF Region, Fails, Orphan, Go, fileVars, fsVars
  <1>6. ASSUME NEW i \in Interfaces, Class(i)
         PROVE  ClassInv'
    BY <1>6 DEF Class, ClassFails, Fails, Orphan, Go, fileVars, fsVars
  <1>7. ASSUME NEW i \in Interfaces, Node(i)
         PROVE  ClassInv'
    BY <1>7 DEF Node, Fails, Orphan, Go, listVars, fsVars, fileVars
  <1>8. ASSUME NEW i \in Interfaces, Link(i)
         PROVE  ClassInv'
    BY <1>8 DEF Link, Go, fsVars, fileVars
  <1>9. ASSUME NEW i \in Interfaces, Count(i)
         PROVE  ClassInv'
    BY <1>9 DEF Count, Go, listVars, fsVars
  <1>10. ASSUME NEW i \in Interfaces, Place(i)
         PROVE  ClassInv'
    BY <1>10 DEF Place, Go, listVars, fileVars
  <1>11. ASSUME NEW i \in Interfaces, FsInit(i)
         PROVE  ClassInv'
    BY <1>11 DEF FsInit, Go, listVars, fileVars
  <1>12. ASSUME NEW i \in Interfaces, FsDeinit(i)
         PROVE  ClassInv'
    BY <1>12 DEF FsDeinit, Go, listVars, fileVars
  <1>13. ASSUME NEW i \in Interfaces, Kill(i)
         PROVE  ClassInv'
    BY <1>13 DEF Kill, Go, listVars, fsVars, fileVars
  <1>14. ASSUME NEW i \in Interfaces, Destroy(i)
         PROVE  ClassInv'
    BY <1>14 DEF Destroy, Go, listVars, fsVars, fileVars
  <1>15. ASSUME NEW i \in Interfaces, Delist(i)
         PROVE  ClassInv'
    BY <1>15, DelistClass
  <1>16. ASSUME NEW i \in Interfaces, Deregister(i)
         PROVE  ClassInv'
    BY <1>16 DEF Deregister, Go, listVars, fsVars, fileVars
  <1>17. ASSUME NEW i \in Interfaces, Free(i)
         PROVE  ClassInv'
    BY <1>17 DEF Free, Orphan, Go, listVars, fsVars
  <1>18. ASSUME NEW i \in Interfaces, TimeOut(i)
         PROVE  ClassInv'
    BY <1>18 DEF TimeOut, listVars, fsVars, fileVars
  <1>19. ASSUME NEW i \in Interfaces, Giveback(i)
         PROVE  ClassInv'
    BY <1>19 DEF Giveback, listVars, fsVars, fileVars
  <1>20. ASSUME NEW u \in Users, Close(u)
         PROVE  ClassInv'
    BY <1>20 DEF Close, Released, listVars, fsVars
  <1>21. ASSUME NEW u \in Users, NEW i \in Interfaces, Open(u, i)
         PROVE  ClassInv'
    BY <1>21 DEF Open, listVars, fsVars
  <1>22. CASE UNCHANGED vars
    BY <1>22 DEF vars, listVars, fsVars, fileVars
  <1> QED
    BY <1>1, <1>2, <1>3, <1>4, <1>5, <1>6, <1>7, <1>8, <1>9, <1>10, <1>11, <1>12, <1>13, <1>14, <1>15, <1>16, <1>17, <1>18, <1>19, <1>20, <1>21, <1>22 DEF Next, Probe, Disconnect

LEMMA DirStep ==
  ASSUME Types, HeldInv, DirInv, [Next]_vars
  PROVE  DirInv'
  <1> USE UsbDevicesAssumption DEF Types, HeldInv, DirInv, Buffers
  <1>1. ASSUME NEW i \in Interfaces, Alloc(i)
         PROVE  DirInv'
    BY <1>1 DEF Alloc, Fails, Orphan, Go, fileVars, listVars, fsVars
  <1>2. ASSUME NEW i \in Interfaces, FirmwareInit(i)
         PROVE  DirInv'
    BY <1>2 DEF FirmwareInit, Fails, Orphan, Go, fileVars, listVars, fsVars
  <1>3. ASSUME NEW i \in Interfaces, Register(i)
         PROVE  DirInv'
    BY <1>3 DEF Register, Go, listVars, fsVars, fileVars
  <1>4. ASSUME NEW i \in Interfaces, Lock(i)
         PROVE  DirInv'
    BY <1>4 DEF Lock, Go, fsVars, fileVars
  <1>5. ASSUME NEW i \in Interfaces, Region(i)
         PROVE  DirInv'
    BY <1>5 DEF Region, Fails, Orphan, Go, fileVars, fsVars
  <1>6. ASSUME NEW i \in Interfaces, Class(i)
         PROVE  DirInv'
    BY <1>6 DEF Class, ClassFails, Fails, Orphan, Go, fileVars, fsVars
  <1>7. ASSUME NEW i \in Interfaces, Node(i)
         PROVE  DirInv'
    BY <1>7 DEF Node, Fails, Orphan, Go, listVars, fsVars, fileVars
  <1>8. ASSUME NEW i \in Interfaces, Link(i)
         PROVE  DirInv'
    BY <1>8 DEF Link, Go, fsVars, fileVars
  <1>9. ASSUME NEW i \in Interfaces, Count(i)
         PROVE  DirInv'
    BY <1>9 DEF Count, Go, listVars, fsVars
  <1>10. ASSUME NEW i \in Interfaces, Place(i)
         PROVE  DirInv'
    <2>1. ~(Indexes \subseteq dirs) => Min(Indexes \ dirs) \in Indexes
      BY LeastIsThere, IndexesAreNumbers
    <2>2. PICK n \in Indexes : index' = [index EXCEPT ![i] = n]
      BY <1>10, <2>1, IndexesAreNumbers DEF Place
    <2>3. n # None
      BY <2>2, IndexesAreNumbers
    <2>4. /\ pc[i] = "place" /\ pc' = [pc EXCEPT ![i] = "fs"] /\ UNCHANGED <<held, dirs>>
      BY <1>10 DEF Place, Go
    <2>5. "dir" \notin held[i]
      BY <2>4
    <2> QED
      BY <2>2, <2>3, <2>4, <2>5
  <1>11. ASSUME NEW i \in Interfaces, FsInit(i)
         PROVE  DirInv'
    BY <1>11 DEF FsInit, Go, listVars, fileVars
  <1>12. ASSUME NEW i \in Interfaces, FsDeinit(i)
         PROVE  DirInv'
    <2>1. /\ pc[i] = "bound" /\ pc' = [pc EXCEPT ![i] = "kill"]
          /\ dirs' = dirs \ {index[i]} /\ index' = [index EXCEPT ![i] = None]
          /\ held' = [held EXCEPT ![i] = @ \ {"dir"}]
      BY <1>12 DEF FsDeinit, Go
    <2>2. ASSUME NEW j \in Interfaces, j # i, "dir" \in held[j]
          PROVE  index[j] \in dirs'
      <3>1. CASE "dir" \in held[i]
        BY <2>1, <2>2, <3>1
      <3>2. CASE "dir" \notin held[i]
        <4>1. index[i] = None /\ index[j] \in Indexes /\ index[j] \in dirs
          BY <2>1, <2>2, <3>2
        <4> QED
          BY <2>1, <4>1, IndexesAreNumbers
      <3> QED
        BY <3>1, <3>2
    <2> QED
      BY <2>1, <2>2
  <1>13. ASSUME NEW i \in Interfaces, Kill(i)
         PROVE  DirInv'
    BY <1>13 DEF Kill, Go, listVars, fsVars, fileVars
  <1>14. ASSUME NEW i \in Interfaces, Destroy(i)
         PROVE  DirInv'
    BY <1>14 DEF Destroy, Go, listVars, fsVars, fileVars
  <1>15. ASSUME NEW i \in Interfaces, Delist(i)
         PROVE  DirInv'
    BY <1>15 DEF Delist, Unlinked, EmptyAfter, Go, fsVars, fileVars
  <1>16. ASSUME NEW i \in Interfaces, Deregister(i)
         PROVE  DirInv'
    BY <1>16 DEF Deregister, Go, listVars, fsVars, fileVars
  <1>17. ASSUME NEW i \in Interfaces, Free(i)
         PROVE  DirInv'
    BY <1>17 DEF Free, Orphan, Go, listVars, fsVars
  <1>18. ASSUME NEW i \in Interfaces, TimeOut(i)
         PROVE  DirInv'
    BY <1>18 DEF TimeOut, listVars, fsVars, fileVars
  <1>19. ASSUME NEW i \in Interfaces, Giveback(i)
         PROVE  DirInv'
    BY <1>19 DEF Giveback, listVars, fsVars, fileVars
  <1>20. ASSUME NEW u \in Users, Close(u)
         PROVE  DirInv'
    BY <1>20 DEF Close, Released, listVars, fsVars
  <1>21. ASSUME NEW u \in Users, NEW i \in Interfaces, Open(u, i)
         PROVE  DirInv'
    BY <1>21 DEF Open, listVars, fsVars
  <1>22. CASE UNCHANGED vars
    BY <1>22 DEF vars, listVars, fsVars, fileVars
  <1> QED
    BY <1>1, <1>2, <1>3, <1>4, <1>5, <1>6, <1>7, <1>8, <1>9, <1>10, <1>11, <1>12, <1>13, <1>14, <1>15, <1>16, <1>17, <1>18, <1>19, <1>20, <1>21, <1>22 DEF Next, Probe, Disconnect

(* Sets of files.                                                          *)
LEMMA FilesAreFinite ==
  ASSUME NEW i
  PROVE  /\ IsFiniteSet(FilesOf(i)) /\ Cardinality(FilesOf(i)) \in Nat
         /\ Cardinality(FilesOf(i)) <= Cardinality(Users) /\ Cardinality(Users) \in Nat
  BY UsbDevicesAssumption, FS_Subset, FS_CardinalityType DEF FilesOf

LEMMA OrphanCounts ==
  ASSUME Types, CountInv, NEW i \in Interfaces, Orphan(i), pc'[i] = "absent",
         \A j \in Interfaces \ {i} : pc'[j] = pc[j]
  PROVE  CountInv'
  <1>1. FilesOf(i)' = {} /\ \A j \in Interfaces \ {i} : FilesOf(j)' = FilesOf(j)
    BY UsbDevicesAssumption DEF Orphan, FilesOf, Types
  <1>2. Cardinality(FilesOf(i)') = 0
    BY <1>1, FS_EmptySet
  <1>3. /\ reference_count'[i] = 0 /\ i \notin early'
        /\ \A j \in Interfaces \ {i} : reference_count'[j] = reference_count[j]
                                    /\ (j \in early' <=> j \in early)
    BY DEF Orphan, Types
  <1>4. Cardinality(Users) \in Nat /\ 0 <= 0 /\ 0 >= 0 - Cardinality(Users)
    BY FilesAreFinite
  <1> SUFFICES ASSUME NEW j \in Interfaces
               PROVE  CountOf(j)'
    BY DEF CountInv
  <1>5. CASE j = i
    <2>1. CountOf(i)'
      BY <1>1, <1>2, <1>3, <1>4 DEF CountOf
    <2> QED
      BY <1>5, <2>1
  <1>6. CASE j # i
    BY <1>1, <1>3, <1>6 DEF CountInv, CountOf
  <1> QED
    BY <1>5, <1>6

(* No step but those that have a lemma or a step of their own below takes a *)
(* device back to where there are no files.                                *)
LEMMA SameCounts ==
  ASSUME CountInv, UNCHANGED fileVars,
         \A i \in Interfaces : \/ pc'[i] = pc[i]
                               \/ pc'[i] \notin Unready \cup {"absent", "firmware"}
                               \/ pc[i] \in Unready /\ pc'[i] \in Unready
  PROVE  CountInv'
  <1> SUFFICES ASSUME NEW i \in Interfaces
               PROVE  CountOf(i)'
    BY DEF CountInv
  <1>1. FilesOf(i)' = FilesOf(i)
    BY DEF FilesOf, fileVars
  <1>2. CountOf(i) /\ reference_count'[i] = reference_count[i] /\ (i \in early' <=> i \in early)
    BY DEF CountInv, fileVars
  <1>3. "absent" \notin Unready
    BY DEF Unready
  <1> QED
    BY <1>1, <1>2, <1>3 DEF CountOf

LEMMA CountStep ==
  ASSUME Types, MinorInv, CountInv, [Next]_vars
  PROVE  CountInv'
  <1> USE UsbDevicesAssumption DEF Types, MinorInv, CountInv, CountOf, FilesOf, Unready, Served
  <1>1. ASSUME NEW i \in Interfaces, Alloc(i)
         PROVE  CountInv'
    <2>1. CASE Fails(i, "absent")
      BY <2>1, OrphanCounts DEF Fails, Go
    <2>2. CASE ~Fails(i, "absent")
      BY <1>1, <2>2 DEF Alloc, Go, fileVars
    <2> QED
      BY <2>1, <2>2
  <1>2. ASSUME NEW i \in Interfaces, FirmwareInit(i)
         PROVE  CountInv'
    <2>1. CASE Fails(i, "firmware")
      BY <2>1, OrphanCounts DEF Fails, Go
    <2>2. CASE ~Fails(i, "firmware")
      BY <1>2, <2>2 DEF FirmwareInit, Go, fileVars
    <2> QED
      BY <2>1, <2>2
  <1>3. ASSUME NEW i \in Interfaces, Register(i)
         PROVE  CountInv'
    BY <1>3, SameCounts DEF Register, Go, fileVars
  <1>4. ASSUME NEW i \in Interfaces, Lock(i)
         PROVE  CountInv'
    BY <1>4, SameCounts DEF Lock, Go, fileVars
  <1>5. ASSUME NEW i \in Interfaces, Region(i)
         PROVE  CountInv'
    <2>1. CASE Fails(i, "region")
      BY <2>1, OrphanCounts DEF Fails, Go
    <2>2. CASE ~Fails(i, "region")
      BY <1>5, <2>2 DEF Region, Go, fileVars
    <2> QED
      BY <2>1, <2>2
  <1>6. ASSUME NEW i \in Interfaces, Class(i)
         PROVE  CountInv'
    <2>1. CASE Fails(i, "class")
      BY <2>1, OrphanCounts DEF Fails, Go
    <2>2. CASE ~Fails(i, "class")
      BY <1>6, <2>2 DEF Class, ClassFails, Go, fileVars
    <2> QED
      BY <2>1, <2>2
  <1>7. ASSUME NEW i \in Interfaces, Node(i)
         PROVE  CountInv'
    <2>1. CASE Fails(i, "node")
      BY <2>1, OrphanCounts DEF Fails, Go
    <2>2. CASE ~Fails(i, "node")
      BY <1>7, <2>2 DEF Node, Go, fileVars
    <2> QED
      BY <2>1, <2>2
  <1>8. ASSUME NEW i \in Interfaces, Link(i)
         PROVE  CountInv'
    BY <1>8, SameCounts DEF Link, Go, fileVars
  <1>9. ASSUME NEW i \in Interfaces, Count(i)
         PROVE  CountInv'
    <2>1. /\ reference_count' = [reference_count EXCEPT ![i] = 0]
          /\ pc[i] = "count" /\ pc' = [pc EXCEPT ![i] = pc'[i]] /\ pc'[i] \in {"place", "bound"}
          /\ file' = file /\ early' = early
      BY <1>9 DEF Count, Go
    <2>2. \A j \in Interfaces : FilesOf(j)' = FilesOf(j)
      BY <2>1 DEF FilesOf
    <2>3. i \notin early => Cardinality(FilesOf(i)) = 0
      BY <2>1, FS_EmptySet
    <2> HIDE DEF FilesOf
    <2> QED
      BY <2>1, <2>2, <2>3, FilesAreFinite
  <1>10. ASSUME NEW i \in Interfaces, Place(i)
         PROVE  CountInv'
    BY <1>10, SameCounts DEF Place, Go, fileVars
  <1>11. ASSUME NEW i \in Interfaces, FsInit(i)
         PROVE  CountInv'
    BY <1>11, SameCounts DEF FsInit, Go, fileVars
  <1>12. ASSUME NEW i \in Interfaces, FsDeinit(i)
         PROVE  CountInv'
    BY <1>12, SameCounts DEF FsDeinit, Go, fileVars
  <1>13. ASSUME NEW i \in Interfaces, Kill(i)
         PROVE  CountInv'
    BY <1>13, SameCounts DEF Kill, Go, fileVars
  <1>14. ASSUME NEW i \in Interfaces, Destroy(i)
         PROVE  CountInv'
    BY <1>14, SameCounts DEF Destroy, Go, fileVars
  <1>15. ASSUME NEW i \in Interfaces, Delist(i)
         PROVE  CountInv'
    BY <1>15, SameCounts DEF Delist, Unlinked, EmptyAfter, Go, fileVars
  <1>16. ASSUME NEW i \in Interfaces, Deregister(i)
         PROVE  CountInv'
    BY <1>16, SameCounts DEF Deregister, Go, fileVars
  <1>17. ASSUME NEW i \in Interfaces, Free(i)
         PROVE  CountInv'
    BY <1>17, OrphanCounts DEF Free, Go
  <1>18. ASSUME NEW i \in Interfaces, TimeOut(i)
         PROVE  CountInv'
    BY <1>18, SameCounts DEF TimeOut, fileVars
  <1>19. ASSUME NEW i \in Interfaces, Giveback(i)
         PROVE  CountInv'
    BY <1>19, SameCounts DEF Giveback, fileVars
  <1>20. ASSUME NEW u \in Users, Close(u)
         PROVE  CountInv'
    <2>1. PICK i \in Interfaces : file[u] = i
      BY <1>20 DEF Close
    <2>2. /\ file' = [file EXCEPT ![u] = None]
          /\ reference_count' = [reference_count EXCEPT ![i] = @ - 1]
          /\ pc' = pc /\ early' = early
      BY <1>20, <2>1 DEF Close, Released
    <2>3. /\ FilesOf(i)' = FilesOf(i) \ {u} /\ u \in FilesOf(i)
          /\ \A j \in Interfaces \ {i} : FilesOf(j)' = FilesOf(j)
      BY <2>1, <2>2 DEF FilesOf
    <2> HIDE DEF FilesOf
    <2>4. Cardinality(FilesOf(i) \ {u}) = Cardinality(FilesOf(i)) - 1
      BY <2>3, FilesAreFinite, FS_RemoveElement
    <2>5. /\ Cardinality(FilesOf(i)) \in Nat /\ Cardinality(Users) \in Nat
          /\ Cardinality(FilesOf(i)) <= Cardinality(Users)
      BY FilesAreFinite
    <2>6. CountOf(i)'
      BY <2>2, <2>3, <2>4, <2>5
    <2>7. \A j \in Interfaces \ {i} : CountOf(j)'
      BY <2>2, <2>3
    <2> QED
      BY <2>6, <2>7
  <1>21. ASSUME NEW u \in Users, NEW i \in Interfaces, Open(u, i)
         PROVE  CountInv'
    <2>1. /\ file' = [file EXCEPT ![u] = i] /\ file[u] = None
          /\ reference_count' = [reference_count EXCEPT ![i] = @ + 1]
          /\ pc' = pc /\ early' = IF pc[i] \in Unready THEN early \cup {i} ELSE early
          /\ minor[i] # None /\ pc[i] # "absent"
      BY <1>21, BoundsAreNumbers DEF Open
    <2>2. /\ FilesOf(i)' = FilesOf(i) \cup {u} /\ u \notin FilesOf(i)
          /\ \A j \in Interfaces \ {i} : FilesOf(j)' = FilesOf(j)
      BY <2>1 DEF FilesOf
    <2>3. FilesOf(i)' \subseteq Users
      BY DEF FilesOf
    <2>4. pc[i] # "firmware"
      BY <2>1
    <2> HIDE DEF FilesOf
    <2>5. Cardinality(FilesOf(i) \cup {u}) = Cardinality(FilesOf(i)) + 1
      BY <2>2, FilesAreFinite, FS_AddElement
    <2>6. Cardinality(FilesOf(i) \cup {u}) <= Cardinality(Users)
      BY <2>2, <2>3, FS_Subset, UsbDevicesAssumption
    <2>7. Cardinality(FilesOf(i)) \in Nat /\ Cardinality(Users) \in Nat
      BY FilesAreFinite
    <2>8. CountOf(i)'
      BY <2>1, <2>2, <2>4, <2>5, <2>6, <2>7
    <2>9. \A j \in Interfaces \ {i} : CountOf(j)'
      BY <2>1, <2>2
    <2> QED
      BY <2>8, <2>9
  <1>22. CASE UNCHANGED vars
    BY <1>22 DEF vars, listVars, fsVars, fileVars
  <1> QED
    BY <1>1, <1>2, <1>3, <1>4, <1>5, <1>6, <1>7, <1>8, <1>9, <1>10, <1>11, <1>12, <1>13, <1>14, <1>15, <1>16, <1>17, <1>18, <1>19, <1>20, <1>21, <1>22 DEF Next, Probe, Disconnect

LEMMA IInvAlways == Spec => []IInv
  <1>1. Init => IInv
    <2> SUFFICES ASSUME Init PROVE IInv
      OBVIOUS
    <2> USE UsbDevicesAssumption
    <2>1. Types
      <3>1. 0 \in 0..MaxRegions
        BY BoundsAreNumbers
      <3>2. /\ pc \in [Interfaces -> Places] /\ held \in [Interfaces -> SUBSET Things]
            /\ minor \in [Interfaces -> Minors \cup {None}]
            /\ index \in [Interfaces -> Indexes \cup {None}]
            /\ reference_count \in [Interfaces -> Int] /\ file \in [Users -> Interfaces \cup {None}]
        BY DEF Init, Places
      <3>3. class \in BOOLEAN /\ lost \in Nat /\ regions \in 0..MaxRegions
        BY <3>1 DEF Init
      <3> QED
        BY <3>2, <3>3 DEF Init, Types
    <2>2. MinorInv /\ DirInv
      BY DEF Init, MinorInv, DirInv
    <2>3. HeldInv
      BY DEF Init, HeldInv, WithMinor, WithNode, Unready, Served
    <2>4. ClassInv
      <3>1. class = (device_link # {})
        BY Zenon DEF Init
      <3>2. \A i \in Interfaces : ClassOf(i)
        BY DEF Init, ClassOf, Served, Locked
      <3> QED
        BY <3>1, <3>2 DEF Init, ClassInv
    <2>5. ASSUME NEW i \in Interfaces
          PROVE  FilesOf(i) = {} /\ Cardinality(FilesOf(i)) = 0 /\ Cardinality(Users) \in Nat
      <3>1. FilesOf(i) = {}
        BY DEF Init, FilesOf
      <3> QED
        BY <3>1, FS_EmptySet, FilesAreFinite
    <2>6. CountInv
      BY <2>5 DEF Init, CountInv, CountOf
    <2> QED
      BY <2>1, <2>2, <2>3, <2>4, <2>6 DEF IInv
  <1>2. IInv /\ [Next]_vars => IInv'
    BY TypesStep, MinorStep, HeldStep, ClassStep, DirStep, CountStep DEF IInv
  <1> QED
    BY <1>1, <1>2, PTL DEF Spec

-----------------------------------------------------------------------------
(* The variables have their types: minors stay in range and belong to      *)
(* devices, regions and directories are no more than there are, and the    *)
(* count of open files, wrong or not, by no more than the processes.       *)
THEOREM TypesSafe == Spec => []TypeOK
  <1>1. IInv => TypeOK
    <2> SUFFICES ASSUME IInv PROVE TypeOK
      OBVIOUS
    <2>1. ASSUME NEW i \in Interfaces
          PROVE  reference_count[i] \in -Cardinality(Users)..Cardinality(Users)
      <3>1. reference_count[i] \in Int
        BY DEF IInv, Types
      <3>2. CountOf(i)
        BY DEF IInv, CountInv
      <3> QED
        BY <3>1, <3>2, FilesAreFinite DEF CountOf
    <2>2. reference_count \in [Interfaces -> -Cardinality(Users)..Cardinality(Users)]
      BY <2>1 DEF IInv, Types
    <2>3. lost \in 0..regions /\ device_link \subseteq taken
      BY BoundsAreNumbers DEF IInv, Types, ClassInv, MinorInv
    <2> QED
      BY <2>2, <2>3 DEF IInv, Types, TypeOK, Places, Things
  <1> QED
    BY <1>1, IInvAlways, PTL

(* The class of the feature nodes outlives every one of them and, between  *)
(* holders of device_mutex, exists just while there is one, with a region: *)
(* no order in which any number of probes and disconnects look at the list *)
(* and at the class can break that.                                        *)
THEOREM ClassWithDevicesSafe == Spec => []ClassWithDevices
  <1>1. IInv => ClassWithDevices
    <2> SUFFICES ASSUME IInv PROVE ClassWithDevices
      OBVIOUS
    <2>1. ASSUME NEW i \in Interfaces, NEW j \in Interfaces, pc[i] \in Served, ~Loader(i)
          PROVE  minor[i] \in device_link /\ (minor[j] = minor[i] => i = j)
      <3>1. minor[i] \in device_link /\ device_link \subseteq Minors
        BY <2>1 DEF IInv, Types, ClassInv, ClassOf, MinorInv
      <3>2. minor[i] # None
        BY <3>1, BoundsAreNumbers
      <3> QED
        BY <3>1, <3>2 DEF IInv, MinorInv
    <2> QED
      BY <2>1 DEF IInv, ClassInv, ClassOf, ClassWithDevices
  <1> QED
    BY <1>1, IInvAlways, PTL

(* memx_probe and memx_disconnect give back what a device has, at its end  *)
(* and not before; a directory has one owner; device_mutex is nobody's for *)
(* good but a probe's that has failed to make its node or has faulted.     *)
THEOREM GivenBackSafe == Spec => []GivenBack
  <1>1. IInv => GivenBack
    <2> SUFFICES ASSUME IInv, NEW i \in Interfaces
                 PROVE  /\ i \notin failed =>
                             /\ pc[i] = "absent" => held[i] \subseteq {"intf"}
                             /\ i \in flying \/ "cdev" \in held[i] => "data" \in held[i]
                        /\ "dir" \in held[i] =>
                             /\ index[i] \in dirs
                             /\ \A j \in Interfaces \ {i} : "dir" \in held[j] => index[j] # index[i]
                        /\ device_mutex = i => pc[i] \in Locked \/ i \in stuck
      BY DEF GivenBack
    <2>1. "absent" \notin WithNode
      BY DEF WithNode, Served
    <2>2. i \notin failed =>
            /\ pc[i] = "absent" => held[i] \subseteq {"intf"}
            /\ i \in flying \/ "cdev" \in held[i] => "data" \in held[i]
      BY <2>1 DEF IInv, HeldInv
    <2> QED
      BY <2>2 DEF IInv, DirInv, ClassInv, ClassOf
  <1> QED
    BY <1>1, IInvAlways, PTL

(* The count of a device that is ready is that of the files open, whoever  *)
(* opens, closes and unplugs, unless a file was opened before memx_probe   *)
(* zeroed the count.                                                       *)
THEOREM FilesAreCountedSafe == Spec => []FilesAreCounted
  <1>1. IInv => FilesAreCounted
    BY DEF IInv, CountInv, CountOf, FilesOf, FilesAreCounted
  <1> QED
    BY <1>1, IInvAlways, PTL
=============================================================================
