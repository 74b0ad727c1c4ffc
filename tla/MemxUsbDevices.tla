---------------------------- MODULE MemxUsbDevices ----------------------------
(***************************************************************************)
(* How the USB driver gains and loses its devices                          *)
(* (kdriver/linux/usb/memx_cascade_usbmain.c, memx_fs.c, memx_fs_sys.c):   *)
(* memx_probe and memx_disconnect of interfaces on different hubs, against *)
(* processes that open the node and close it.                              *)
(*                                                                         *)
(* The first device makes the class and the numbers of the feature nodes,  *)
(* the last one gives them back; device_link, under device_mutex, tells    *)
(* which is which.                                                         *)
(***************************************************************************)
EXTENDS Integers, FiniteSets, FiniteSetsExt

CONSTANTS
  Interfaces,  (* where devices with the driver's ids are plugged in       *)
  Users,       (* processes                                                *)
  MaxMinor,    (* bound: the USB core's last minor, less than MAX_CHIP_NUM *)
  MaxRegions,  (* bound: number regions the kernel has to give             *)
  None         (* no minor, no file, no directory, nobody                  *)

ASSUME UsbDevicesAssumption ==
  /\ {MaxMinor, MaxRegions} \subseteq Nat
  /\ IsFiniteSet(Interfaces) /\ IsFiniteSet(Users)
  /\ None \notin Interfaces \cup Users \cup Nat

Minors  == 0..MaxMinor
Indexes == 0..Cardinality(Interfaces)   (* minor_index, of 128             *)
Buffers == {"txurb", "tbuffer", "rxurb", "fw_txurb", "fw_rxurb", "rbuffer", "fw_wbuffer",
            "fw_rbuffer"}

VARIABLES
  pc,            (* the statement of memx_probe or memx_disconnect an      *)
                 (* interface is at                                        *)
  held,          (* what its memx_data has of buffers, references, nodes;  *)
                 (* nothing after a failed probe                           *)
  flying,        (* a transfer of it that nobody waits for is with the     *)
                 (* USB core                                               *)
  minor,         (* intf->minor                                            *)
  taken,         (* the USB core's minors                                  *)
  device_link,   (* minors with a feature device                           *)
  class,         (* memx_feature_class                                     *)
  regions,       (* number regions allocated                               *)
  device_mutex,
  index, dirs,   (* minor_index while dbgfs_en; directories /sys/memx<n>   *)
  reference_count,
  file,          (* the interface whose memx_data a process's file has     *)
  failed,        (* history: interfaces whose last probe failed,           *)
  stuck,         (* of those whose device_create failed                    *)
  lost, early    (* history: regions left by a failed probe; interfaces    *)
                 (* opened before the end of memx_probe                    *)

listVars == <<device_link, class, regions, device_mutex>>
fsVars   == <<index, dirs>>
fileVars == <<reference_count, file, early>>
vars == <<pc, held, flying, minor, taken, listVars, fsVars, fileVars, failed, stuck, lost>>

(* Where memx_probe has yet to set the count, and where it holds the mutex. *)
Unready == {"register", "lock", "region", "class", "node", "link", "count", "dead"}
Locked  == {"region", "class", "node", "link", "dead"}
Served  == {"count", "place", "fs", "bound", "kill", "destroy", "delist"}

Init ==
  /\ pc = [i \in Interfaces |-> "absent"]
  /\ held = [i \in Interfaces |-> {}]
  /\ flying = {}
  /\ minor = [i \in Interfaces |-> None]
  /\ taken = {}
  /\ device_link = {}
  /\ class = FALSE
  /\ regions = 0
  /\ device_mutex = None
  /\ index = [i \in Interfaces |-> None]
  /\ dirs = {}
  /\ reference_count = [i \in Interfaces |-> 0]
  /\ file = [u \in Users |-> None]
  /\ failed = {}
  /\ stuck = {}
  /\ lost = 0
  /\ early = {}

-----------------------------------------------------------------------------
Go(i, from, to) == pc[i] = from /\ pc' = [pc EXCEPT ![i] = to]

(* Files that are open keep a memx_data that is no more.                   *)
Orphan(i) ==
  /\ file' = [u \in Users |-> IF file[u] = i THEN None ELSE file[u]]
  /\ reference_count' = [reference_count EXCEPT ![i] = 0]
  /\ early' = early \ {i}

(* A probe that returns an error: devm frees memx_data.  What else it had  *)
(* nobody can give back any more, and it is not followed further.          *)
Fails(i, from) ==
  /\ Go(i, from, "absent") /\ Orphan(i)
  /\ held' = [held EXCEPT ![i] = {}]
  /\ failed' = failed \cup {i}

(* A device without firmware (ZSBL), for which memx_probe allocates less.  *)
Loader(i) == "rxurb" \notin held[i]

(* A device is plugged in; everything up to usb_set_intfdata.              *)
Alloc(i) ==
  /\ minor' = [minor EXCEPT ![i] = None]
  /\ UNCHANGED <<flying, taken, listVars, fsVars, stuck, lost>>
  /\ \/ /\ \/ /\ Go(i, "absent", "firmware")
              /\ held' = [held EXCEPT ![i] = {"data", "intf", "txurb", "tbuffer"}]
           \/ /\ Go(i, "absent", "register")
              /\ held' = [held EXCEPT ![i] = {"data", "intf"} \cup Buffers]
        /\ failed' = failed \ {i}
        /\ UNCHANGED fileVars
     \/ Fails(i, "absent")

(* memx_firmware_init: two transfers, of which either may time out and be  *)
(* left with the USB core.                                                 *)
FirmwareInit(i) ==
  /\ UNCHANGED <<minor, taken, listVars, fsVars, stuck, lost>>
  /\ \/ Go(i, "firmware", "bound") /\ UNCHANGED <<held, flying, failed, fileVars>>
     \/ /\ Fails(i, "firmware")
        /\ flying' \in {flying, flying \cup {i}}

(* The core gives out its least free minor.  It may fail, as when the name *)
(* is taken by a device of the same group; nobody looks at the result.     *)
Register(i) ==
  /\ Go(i, "register", "lock")
  /\ \/ /\ Minors \ taken # {}
        /\ minor' = [minor EXCEPT ![i] = Min(Minors \ taken)]
        /\ taken' = taken \cup {minor'[i]}
     \/ minor' = [minor EXCEPT ![i] = None] /\ UNCHANGED taken
  /\ UNCHANGED <<held, flying, listVars, fsVars, fileVars, failed, stuck, lost>>

(* check_device_all_empty.                                                 *)
Lock(i) ==
  /\ device_mutex = None /\ device_mutex' = i
  /\ Go(i, "lock", IF device_link = {} THEN "region" ELSE "node")
  /\ UNCHANGED <<held, flying, minor, taken, device_link, class, regions, fsVars, fileVars,
                 failed, stuck, lost>>

Region(i) ==
  /\ UNCHANGED <<flying, minor, taken, device_link, class, fsVars, stuck, lost>>
  /\ \/ /\ Go(i, "region", "class")
        /\ regions < MaxRegions /\ regions' = regions + 1
        /\ UNCHANGED <<held, device_mutex, failed, fileVars>>
     \/ /\ Fails(i, "region")
        /\ device_mutex' = None
        /\ UNCHANGED regions

(* Wrong: device_mutex is kept.                                            *)
ClassFailsLocked(i) ==
  Fails(i, "class") /\ lost' = lost + 1 /\ UNCHANGED device_mutex
(* The region of the probe is not given back.                              *)
ClassFails(i) ==
  Fails(i, "class") /\ lost' = lost + 1 /\ device_mutex' = None

(* class_create returns NULL, which is what the driver expects of a        *)
(* failure, or an error, which it takes for a class: the thread faults.    *)
Class(i) ==
  /\ UNCHANGED <<flying, minor, taken, device_link, regions, fsVars, stuck>>
  /\ \/ /\ Go(i, "class", "node") /\ class' = TRUE
        /\ UNCHANGED <<held, device_mutex, failed, lost, fileVars>>
     \/ ClassFails(i) /\ UNCHANGED class
     \/ Go(i, "class", "dead") /\ UNCHANGED <<held, class, device_mutex, failed, lost, fileVars>>

(* cdev_init, cdev_add, device_create; a failure of the last returns with  *)
(* device_mutex held and the cdev in the memx_data that is freed.          *)
Node(i) ==
  /\ UNCHANGED <<flying, minor, taken, listVars, fsVars, lost>>
  /\ \/ /\ Go(i, "node", "link")
        /\ held' = [held EXCEPT ![i] = @ \cup {"cdev", "device"}]
        /\ UNCHANGED <<failed, stuck, fileVars>>
     \/ Fails(i, "node") /\ stuck' = stuck \cup {i}

(* add_device_link.  intf->minor of an interface without minor is -1: the  *)
(* store at device_link[0xffffffff] faults.                                *)
Link(i) ==
  /\ IF minor[i] = None
     THEN Go(i, "link", "dead") /\ UNCHANGED <<device_link, device_mutex>>
     ELSE /\ Go(i, "link", "count")
          /\ device_link' = device_link \cup {minor[i]}
          /\ device_mutex' = None
  /\ UNCHANGED <<held, flying, minor, taken, class, regions, fsVars, fileVars, failed, stuck, lost>>

(* Without memx_dbgfs_enable there are no files.                           *)
Count(i) ==
  /\ \E to \in {"place", "bound"} : Go(i, "count", to)
  /\ reference_count' = [reference_count EXCEPT ![i] = 0]
  /\ UNCHANGED <<held, flying, minor, taken, listVars, fsVars, file, failed, stuck, lost, early>>

(* The search for a free number in memx_fs_init; without one minor_index   *)
(* stays 0.                                                                *)
Place(i) ==
  /\ Go(i, "place", "fs")
  /\ index' = [index EXCEPT ![i] = IF Indexes \subseteq dirs THEN 0 ELSE Min(Indexes \ dirs)]
  /\ UNCHANGED <<held, flying, minor, taken, listVars, dirs, fileVars, failed, stuck, lost>>

(* memx_fs_sys_init.  If the directory is there by now or cannot be made   *)
(* there is no file system; if one of its files cannot, the directory      *)
(* stays.                                                                  *)
FsInit(i) ==
  /\ Go(i, "fs", "bound")
  /\ \/ /\ index[i] \notin dirs
        /\ dirs' = dirs \cup {index[i]}
        /\ \/ held' = [held EXCEPT ![i] = @ \cup {"dir"}] /\ UNCHANGED index
           \/ index' = [index EXCEPT ![i] = None] /\ UNCHANGED held
     \/ index' = [index EXCEPT ![i] = None] /\ UNCHANGED <<dirs, held>>
  /\ UNCHANGED <<flying, minor, taken, listVars, fileVars, failed, stuck, lost>>

-----------------------------------------------------------------------------
(* memx_disconnect, from the removal of the files on.                      *)
FsDeinit(i) ==
  /\ Go(i, "bound", "kill")
  /\ dirs' = dirs \ {index[i]}
  /\ index' = [index EXCEPT ![i] = None]
  /\ held' = [held EXCEPT ![i] = @ \ {"dir"}]
  /\ UNCHANGED <<flying, minor, taken, listVars, fileVars, failed, stuck, lost>>

Kill(i) ==
  /\ Go(i, "kill", IF Loader(i) THEN "free" ELSE "destroy")
  /\ flying' = flying \ {i}
  /\ UNCHANGED <<held, minor, taken, listVars, fsVars, fileVars, failed, stuck, lost>>

Destroy(i) ==
  /\ Go(i, "destroy", "delist")
  /\ held' = [held EXCEPT ![i] = @ \ {"device", "cdev"}]
  /\ UNCHANGED <<flying, minor, taken, listVars, fsVars, fileVars, failed, stuck, lost>>

(* Wrong: the list is looked at before the device has left it.             *)
EmptyBefore(i) == device_link = {}
(* The device was the last one.                                            *)
EmptyAfter(i) == device_link \ {minor[i]} = {}

(* delete_device_link.                                                     *)
Unlinked(i) == device_link \ {minor[i]}

(* The end of a device and perhaps of the class, under device_mutex.       *)
Delist(i) ==
  /\ device_mutex = None
  /\ Go(i, "delist", "deregister")
  /\ device_link' = Unlinked(i)
  /\ IF EmptyAfter(i) THEN class' = FALSE /\ regions' = regions - 1
                      ELSE UNCHANGED <<class, regions>>
  /\ UNCHANGED <<held, flying, minor, taken, device_mutex, fsVars, fileVars, failed, stuck, lost>>

Deregister(i) ==
  /\ Go(i, "deregister", "free")
  /\ taken' = taken \ {minor[i]}
  /\ minor' = [minor EXCEPT ![i] = None]
  /\ UNCHANGED <<held, flying, listVars, fsVars, fileVars, failed, stuck, lost>>

(* The reference of usb_get_intf is not given back.                        *)
Free(i) ==
  /\ Go(i, "free", "absent")
  /\ held' = [held EXCEPT ![i] = @ \ (Buffers \cup {"data"})]
  /\ Orphan(i)
  /\ UNCHANGED <<flying, minor, taken, listVars, fsVars, failed, stuck, lost>>

-----------------------------------------------------------------------------
(* A command of a bound device times out; the device answers at last.  The *)
(* USB core takes no transfer of a device that is being disconnected.      *)
TimeOut(i) ==
  /\ pc[i] = "bound" /\ ~Loader(i)
  /\ flying' = flying \cup {i}
  /\ UNCHANGED <<pc, held, minor, taken, listVars, fsVars, fileVars, failed, stuck, lost>>

Giveback(i) ==
  /\ i \in flying /\ flying' = flying \ {i}
  /\ UNCHANGED <<pc, held, minor, taken, listVars, fsVars, fileVars, failed, stuck, lost>>

(* An interface is found by its minor as long as it has a driver: not      *)
(* after a failed probe.                                                   *)
Open(u, i) ==
  /\ file[u] = None /\ minor[i] \in taken /\ pc[i] # "absent"
  /\ file' = [file EXCEPT ![u] = i]
  /\ reference_count' = [reference_count EXCEPT ![i] = @ + 1]
  /\ early' = IF pc[i] \in Unready THEN early \cup {i} ELSE early
  /\ UNCHANGED <<pc, held, flying, minor, taken, listVars, fsVars, failed, stuck, lost>>

(* Wrong: a release that leaves the count alone.                           *)
ReleaseUncounted(i) == reference_count
(* The count after a release.                                              *)
Released(i) == [reference_count EXCEPT ![i] = @ - 1]

Close(u) ==
  /\ file[u] # None
  /\ file' = [file EXCEPT ![u] = None]
  /\ reference_count' = Released(file[u])
  /\ UNCHANGED <<pc, held, flying, minor, taken, listVars, fsVars, failed, stuck, lost, early>>

-----------------------------------------------------------------------------
Probe(i) ==
  \/ Alloc(i) \/ FirmwareInit(i) \/ Register(i) \/ Lock(i) \/ Region(i) \/ Class(i) \/ Node(i)
  \/ Link(i) \/ Count(i) \/ Place(i) \/ FsInit(i)

Disconnect(i) ==
  FsDeinit(i) \/ Kill(i) \/ Destroy(i) \/ Delist(i) \/ Deregister(i) \/ Free(i)

Next ==
  \/ \E i \in Interfaces : Probe(i) \/ Disconnect(i) \/ TimeOut(i) \/ Giveback(i)
  \/ \E u \in Users : Close(u) \/ \E i \in Interfaces : Open(u, i)

Spec == Init /\ [][Next]_vars

-----------------------------------------------------------------------------
(* The types of the variables; a counter of opens and releases may be      *)
(* negative.                                                               *)
TypeOK ==
  /\ pc \in [Interfaces -> Unready \cup Served \cup {"absent", "firmware", "deregister", "free"}]
  /\ held \in [Interfaces -> SUBSET (Buffers \cup {"data", "intf", "cdev", "device", "dir"})]
  /\ flying \subseteq Interfaces
  /\ minor \in [Interfaces -> Minors \cup {None}]
  /\ device_link \subseteq taken /\ taken \subseteq Minors
  /\ class \in BOOLEAN
  /\ lost \in 0..regions /\ regions \in 0..MaxRegions
  /\ device_mutex \in Interfaces \cup {None}
  /\ index \in [Interfaces -> Indexes \cup {None}] /\ dirs \subseteq Indexes
  /\ reference_count \in [Interfaces -> -Cardinality(Users)..Cardinality(Users)]
  /\ file \in [Users -> Interfaces \cup {None}]
  /\ failed \cup stuck \cup early \subseteq Interfaces

(* The class of the feature nodes outlives every one of them, whoever      *)
(* comes and goes at the same time; between two holders of device_mutex    *)
(* the class and one region of numbers exist just while there is a device, *)
(* but for the regions of probes whose class could not be made; and every  *)
(* device has an entry of its own in the list.                             *)
ClassWithDevices ==
  /\ \A i \in Interfaces : "device" \in held[i] => class
  /\ device_mutex = None =>
       /\ class = (device_link # {})
       /\ regions = lost + (IF class THEN 1 ELSE 0)
  /\ \A i, j \in Interfaces :
       pc[i] \in Served /\ ~Loader(i) =>
         /\ minor[i] \in device_link
         /\ pc[j] \in Served /\ minor[j] = minor[i] => i = j

(* What a device has is given back by its end and not before.  Everything  *)
(* that memx_probe allocates, but the reference of usb_get_intf, is gone   *)
(* after memx_disconnect; a transfer in flight and a cdev have their       *)
(* memx_data; a directory is its owner's alone.  Where a probe fails some  *)
(* of it stays.  Nobody keeps device_mutex but a probe that faulted or     *)
(* whose device_create failed.                                             *)
GivenBack ==
  \A i \in Interfaces :
    /\ i \notin failed =>
         /\ pc[i] = "absent" => held[i] \subseteq {"intf"}
         /\ i \in flying \/ "cdev" \in held[i] => "data" \in held[i]
    /\ "dir" \in held[i] =>
         /\ index[i] \in dirs
         /\ \A j \in Interfaces \ {i} : "dir" \in held[j] => index[j] # index[i]
    /\ device_mutex = i => pc[i] \in Locked \/ i \in stuck

(* The count of a device that is ready is that of the files open, which    *)
(* says when memx_open clears an abort: unless one was opened as soon as   *)
(* usb_register_dev had made the node and before memx_probe zeroed it.     *)
FilesAreCounted ==
  \A i \in Interfaces \ early : pc[i] \in Served =>
    reference_count[i] = Cardinality({u \in Users : file[u] = i})
=============================================================================
