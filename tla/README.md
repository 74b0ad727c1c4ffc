# TLA+ models of the MemryX MX3 Linux drivers

TLA+ specifications, TLC runs and TLAPS proofs for the kernel drivers of the
MemryX MX3 accelerator (`src/kdriver/linux`) and its Python module
(`src/pymodule`). The models follow the C code
function by function; `PROJECT.json` names the lines behind every definition.

* [What the repository holds](#the-system)
* [The modules](#the-modules) and how they correspond to the code
* [The runs](#the-runs), their bounds and their fairness
* [The proofs](#the-proofs)
* [What was found](#findings)
* [What is not modelled](#not-modelled) and [the plan](#plan)

## The system

An MX3 device is a cascade of up to 16 chips on one board. The host reaches it
over PCIe or over USB, through a driver of its own for each bus; a closed
user-space library sits on top. The repository also carries a 32 bit copy of
the PCIe driver, a Python wrapper of the library, and flash tools.

### Components

**PCIe data path** (`pcie/memx_cascade_pciemain.c`, `pcie/memx_msix_irq.c`).
State: `reference_count`, the device `mutex`, the fifo `rx_msix_fifo` of chips
whose result is ready, `tx_ctrl[c].indicator` for an input that the device has
fetched, and an `is_abort` flag in each of `rx_ctrl`, `tx_ctrl[c]` and `fw_ctrl`.
Operations: `open`, `release`, `read`, `write`, and the ioctls
`MEMX_ABORT_TRANSFER`, `MEMX_DUMMY_READ`, `MEMX_SET_ABORT_READ`. Interrupts put
chips into the fifo and set indicators. Hard: `read` takes no lock; `write`
sleeps with the mutex held; an abort has to reach sleepers it cannot lock out.
Correct when no wake-up is lost, a write returns for its own input, an abort is
neither lost nor wiped, the mutex is given back on every path.

**PCIe firmware command channel** (`pcie/memx_fw_cmd.c`, callers in the main
file and `pcie/memx_fw_init.c`). State: per device one command buffer in SRAM
and one acknowledgement `fw_ctrl.indicator`; one semaphore `g_memx_fw_cmd_mutex`
for all devices. Operations: send a command, wait up to five seconds for the
acknowledgement, read the result. Hard: the acknowledgement carries no identity,
so a late one can end a later command; the probe takes no device mutex although
the device node already exists; the result is read after the semaphore was
given back. Correct when a caller reads the result of its own command.

**PCIe admin commands** (`pcie/memx_feature.c`, and the sysfs, procfs and hwmon
readers). State: a command slot per chip in host memory with a status word
(idle, receive, process, complete), `adminlock`, the cached
`input_dma_trigger_type`. Operations: get and set feature, self test,
I2C transceive, DFP download to up to four chips at once. Hard: after a timeout
of three seconds the slot is set idle although the firmware may still answer;
a download leaves at its first error. Correct when an answer is that of the
command and the cached trigger type is the firmware's.

**xflow register window** (`pcie/memx_xflow.c`, `pcie/memx_dma.c`). State: the
window registers (access mode, base address) of the first chip, shared by all
accesses to chips behind it. Operations: set the mode, set the base, read or
write through the window: several register accesses without a lock. Correct when
two accesses do not mix their windows.

**PCIe firmware start** (`pcie/memx_fw_init.c`). Operations: choose the boot
mode, download the image, wait for the device, read the hardware information and
scan the chip roles into groups. Correct when the groups partition the chips.

**PCIe interrupt setup** (`pcie/memx_msix_irq.c`). Allocates MSI-X, MSI or legacy
vectors and requests each. Correct when every failure releases exactly what was
requested, an interrupt always finds its device, and a resumed device has its handlers again.

**PCIe probe, remove, suspend, resume** (main file). Correct when a failed probe
undoes what it did, and removal frees nothing that a sleeper still uses.

**PCIe device list** (`pcie/memx_pcie_dev_list_ctrl.c`). State: the sorted list of
devices and their minors. Correct when two devices never share a minor and a
lookup finds a device that is still there.

**PCIe firmware log** (`pcie/memx_fw_log.c`). A ring in host memory that the
firmware writes and the driver prints. Correct when every line is printed once and
in order.

**Debug file systems** (`memx_fs.c`, `memx_fs_sys.c`, `memx_fs_proc.c` of both
drivers). State: a directory per device in /sys or /proc, a table
`g_kobj_memx_dev_map` from kernel objects to devices, the chips' mailboxes for
commands, the throughput counters. Operations: read a file, store a command into one,
update the flash. Hard: nothing is locked; the table's entries outlive their devices;
the directory's number and the device's number are searched for separately. Correct
when a file's operation is done by its own device and as asked, and nothing is told twice.

**USB driver** (`usb/memx_cascade_usbmain.c`, `usb/memx_feature.c`). State: URBs,
the completions `fw_comp`, `tx_comp`, `rx_comp`, `fwrx_comp`, the locks `cfglock`
and `readlock`, a state word; for all devices together `device_link`, the class of the
feature nodes and `device_mutex`. Operations: read, write, firmware and DFP download,
flash update, admin and debug commands, abort, probe and disconnect. Hard: a completion
that comes after its waiter has timed out serves the next waiter; the first device makes what
the last one destroys; a node can be opened before its probe is over. Correct when a waiter
is woken by its own URB, the class is there while a node is, and a disconnect frees everything.

**Python module** (`pymodule/memxmodule.c`, `pymodule/convert.h`). State: the
callers' arrays, the buffers of the calls. Operations: send and receive feature maps, in
several number formats, and some sixty calls handed on to the library. Hard: the
interpreter's lock is given up in the middle of a call that rounds the caller's
array in place; three decoders written by hand for three machines. Correct when what is
sent and received are the array's numbers, within its buffers, and every call returns.

**The rest**: a lab self test, the USB bulk test, the flash tools and the 32 bit copy. See [below](#not-modelled).

### How they interact

```
 read write ioctl     admin ioctl, sysfs, procfs        probe / remove / resume
      |                        |                               |
  data path --- abort --> firmware command channel <--- firmware start
   |      \                    |       \                       |
 fifo,     mutex           SRAM buffer  g_memx_fw_cmd_mutex    device list,
 indicators                    |                               interrupt setup
      \________ xflow window __/                               |
      interrupt handlers: egress, ingress, firmware acknowledgement
```

The abort ioctl joins the first two: it flags the read side, every chip's
write side and the command channel. Whoever sees a flag clears it. A `read` that
consumes an abort clears the command channel's flag with it, and so does the
first `open` after the last `release`. `MemxTransfer` holds the channel's flag
as `fw_is_abort`; `MemxFwCmd` holds the read side's as `rx_is_abort`.

## The modules

| module | contents |
|---|---|
| `MemxTransfer` | the data path of one device node |
| `MCTransfer` | its instances for TLC |
| `MemxTransfer_proofs` | its theorems |
| `MemxFwCmd` | the firmware command channel, its callers and the probe |
| `MCFwCmd` | its instances for TLC |
| `MemxFwCmd_proofs` | its theorems |
| `MemxAdmin` | the admin commands of one device and its chips' command slots |
| `AdminMailbox` | the abstract promise of a slot, which `MemxAdmin` implements |
| `MemxAdmin_proofs` | its theorems, the refinement among them |
| `MCAdmin` | instances of `MemxAdmin` for TLC |
| `MemxXflow` | register accesses through windows or the firmware's mailbox |
| `MCXflow` | its instance for TLC |
| `MemxXflow_proofs` | its theorems |
| `MemxLifecycle` | PCIe devices come and go: probe, remove, suspend, resume, interrupts, the device list |
| `MCLifecycle` | its instance for TLC |
| `MemxLifecycle_proofs` | its theorems |
| `MemxUsb` | the calls of one USB device as sequences of URBs |
| `MCUsb` | its instances for TLC |
| `MemxUsb_proofs` | its theorems |
| `MemxUsbDevices` | USB devices come and go: probe, disconnect, open, release |
| `MCUsbDevices` | its instance for TLC |
| `MemxUsbDevices_proofs` | its theorems |
| `MemxDebug` | the debug file systems of both drivers, with the firmware log |
| `MCDebug` | its instances for TLC |
| `MemxDebug_proofs` | its theorems |
| `MemxConvert` | the conversions of feature maps, bit by bit |
| `MemxPython` | threads of one interpreter that call the Python module |
| `MCPython` | instances of `MemxPython`, and through it of `MemxConvert`, for TLC |

An operator whose comment begins with *Wrong:* is a plausible bug in the action
that follows it. No specification uses it; it shows that a property of the runs
would notice that bug.

### MemxTransfer

A system call becomes several actions, cut where another actor can come between:
at `down_interruptible`, at every sleep, at the look at the abort flag after the
sleep and at the pop from the fifo. `pc[t]` says where thread `t` is.

| code | actions |
|---|---|
| `memx_fops_open`, `memx_fops_release` | `Enter`, `Open`, `Release`; a signal while waiting for the mutex: `Interrupted` |
| `memx_fops_read` | `ReadEnter`, `ReadTry`, `ReadWait`, `ReadWoken`, `ReadAbort`, `ReadPop` |
| `memx_fops_write` | `Enter`, `WriteStart`, `WriteWait`, then `WriteAborted`, `WriteSignalled`, `WriteRetry` or `WriteDone` |
| `memx_pcie_abort_transfer` | `AbortFlag`, `AbortDrain`, `AbortTx` |
| `memx_pcie_dummy_read` | `DummyStart`, `DummyWait`, `DummyPop` |
| `MEMX_SET_ABORT_READ` | `SetAbortRead` |
| `memx_egress_dcore_isr`, `memx_ingress_dcore_isr` | `EgressIsr`, `IngressIsr`; the legacy handler has the same effects, several at once |

Three things in the code are worth knowing when reading it. `release` waits for
the mutex interruptibly, and the kernel drops the file even if it fails, so
`reference_count` may stay too high; it is never too low. `write` neither
resets the chip's indicator nor its abort flag before it triggers the device:
a flag left by an abort ends the next write to that chip, and its answer is
left for the write after that. The model keeps this as `abandoned`. The sleep
of `dummy read` does not look at the abort flag.

Left out: the payload and its copies, the throughput counters, `mmap`, and the
other ioctls, which take the same mutex and leave this state alone.
The device is modelled by what it owes (external): one ingress interrupt for
each input it was told to fetch, egress interrupts at any time.

### MemxFwCmd

Threads are users, which issue ioctls and hold their device's mutex throughout,
and probes, which run `memx_firmware_init` without it. `job[t]` is what remains
of the commands the thread sends (`Script`, `PcieBoot`, `QspiBoot`).

| code | actions |
|---|---|
| the ioctls that send commands | `Enter`, `Interrupted`, `Start` |
| `memx_firmware_init` | `Probe`, then the channel's actions |
| `memx_send_cmd_to_fw_and_get_result` | `Send`, then `WaitAck` |
| `memx_wait_for_firmware_msix_ack` | `WaitAck`, then `AckAborted`, `AckSignalled`, `AckTimeout` or `AckTaken` |
| the caller reads the buffer | `Use`; after a command that failed, `MEMX_VENDOR_CMD` alone: `CopyBack` |
| `memx_pcie_abort_transfer` | `AbortRx`, `AbortFw` |
| an abort consumed by `memx_fops_read`; the first `open` | `ReadAbort`, `FirstOpen` |
| `memx_firmware_msix_ack_isr` | `FwAck` |

A command or a result is represented by the thread that wrote the buffer and by
whether the firmware has since replaced it (`buffer`); its contents are left out.
`MEMX_VENDOR_CMD` does not look whether its command has failed: it copies the buffer to the
user and returns 0 all the same (`memx_cascade_pciemain.c:341`). So a user may be told that a
command was done and get the request back. `ResultIsOwn` promises less there: what is
copied was not written by another ioctl, but by a probe at most. `Signalled` is the set of threads that signals may wake.
Two environment assumptions (external): the firmware carries out whatever the
buffer holds when it gets to it, and it answers every trigger at most once. A PCIe
boot ends with one acknowledgement no command asked for. `resume` is not here,
because user space is frozen while it runs. After a failed probe the model lets
nothing enter the device; how the driver undoes the probe belongs to the lifecycle.

### MemxAdmin

A call is a list of commands (`todo`), one for everything but a DFP download. They are
put into slots one after the other, then polled one after the other (`due`).

| code | actions |
|---|---|
| `memx_admin_ioctl`, the sysfs and procfs files | `Enter` |
| `mutex_lock`, the checks of `_admin_set_feature` and its like | `Lock` |
| `memx_admin_trigger` | `Trigger` |
| `memx_admin_fetch_result`, the end of `_admin_download_dfp` and `_admin_get_feature` | `Fetch`; after three seconds `Expire`, `GiveUp` |
| `mutex_unlock` | `Leave` |
| the firmware (external) | `FwTake`, `FwDone` |

A user may give any word for a trigger type, or have any word copied after a get that failed (`memx_feature.c:162`, `128`):
the host's copy is one of `Words`, of which the firmware takes those in `Types`.
`Expire` and `GiveUp` are two steps because the firmware may complete the command
between the last look at the status and the store of IDLE. The firmware is assumed
to handle one command at a time per chip, to write COMPLETE when it has finished
whatever the status word says by then, and it may never answer.
Commands and answers are numbered (`ticket`, modulo `Tickets`) only to tell whose
answer is in a slot. `abandoned[c]` says that a command of chip `c` was given up, by a
timeout or by a download that stopped early, or that a download names the chip twice; no
property promises anything about such a chip until a command finds its firmware idle.

Left out: the features that the driver answers itself (throughput, interface,
hardware information, utilisation), and chip numbers beyond the 16 slots.

`AdminMailbox` is the abstract specification: empty, asked, busy, answered, empty again,
and *astray* once a command was forsaken. The refinement mapping reads the state off the
status word, or off `abandoned`.

### MemxXflow

A caller (an ioctl, a file of the debug file systems, an admin command) has its access
turned into the list of its register accesses (`todo`), each one an action. `BAR` modes
differ in how a window is reached, `wiring`: directly, through the window of chip 0, or by the
firmware's mailbox in SRAM.

| code | actions and operators |
|---|---|
| `memx_xflow_write`, `memx_xflow_read` | `Call`, with `ByWindow` or `ByMail` the steps to come; `Return` |
| `memx_xflow_set_access_mode`, `..._set_base_address` | `SetMode`, `SetBase`, carried out by `Store` and `Buffer` |
| `memx_xflow_{write,read}_virtual_buffer_address` | `Touch`, carried out by `Buffer` |
| the waits for `MEMX_EXTCMD_COMPLETE` | `Wait`; after a second `GiveUp` |
| `memx_sram_write`, `memx_sram_read` | `Put`, `Fetch` |
| the firmware (external) | `Serve` |

Nothing in the code keeps two accesses apart, so the properties are about an access that
was alone on its registers (`disturbed`), after any history of others that were not. Left out:
`basic_check`, whose refusals change nothing, and values: each caller writes one of its own.

### MemxLifecycle

What the PCI core has the driver do with a device is a script of steps (`ProbeScript`,
`RemoveScript`), interleaved with the scripts of other devices and with processes. When a step of
probe fails, the statements after its error label (`Label`, `UndoScript`) replace the rest.

| code | actions |
|---|---|
| `memx_pcie_probe` | `StartProbe`, `Acquire`, `Bars`, `Insert`, `NodeCreate`, `FsInit`, `Msix`, `Request`, `Firmware` |
| its error labels, `memx_pcie_remove` | `StartRemove`, `Down`, `Delist`, `NodeDestroy`, `CdevDel`, `DeinitMsix`, `Release`, `Up`; the managed resources: `Devres` |
| `memx_insert_device` | `Insert`, with `Gap` and `Places` |
| `memx_init_msix_irq`, `memx_deinit_msix_irq` | `Msix`, `Request`, `Deinit`, `DeinitMsix` |
| `memx_pcie_suspend`, `memx_pcie_resume` | `Suspend`, `Resume`, then the steps for interrupts and firmware |
| open, release, the entry of an ioctl, read or write | `Open`, `Opened`, `Close`, `Call`, `CallLock`, `CallEnd`, `Signal` |
| the freezer and the PM core (external) | `Freeze`, `Wake`, `Thaw` |

The code loses things on some paths, and the model with it: a probe that fails after the
interrupt handlers were registered frees the fifo and `memx_dev` under them; an invalid
combination of BARs returns 0, so the device counts as bound without any data; a removal gives
up its number in the list before its nodes are gone, so another probe may take it. The history
variables `excused` and `contested` mark these, and the properties say what holds of everything
else. Left out: module init and exit, kernels without `CONFIG_PM`, a device bound
again after a failed resume without being plugged in, and a suspend of the device without data.

### MemxUsb

A command is a script of segments, each a sequence of transfers (`Step`: which URB, which
completion, and what the code does to both when the wait times out). `Scripts` has one entry per
command of the driver.

| code | actions |
|---|---|
| `mutex_lock(&cfglock)` of `memx_write`, `memx_ioctl`, `memx_admin_ioctl`, the debug commands | `Lock` |
| `usb_fill_bulk_urb`, `usb_submit_urb` | `Fill`, `Submit` |
| `wait_for_completion_timeout` and what follows | `Woken`, `Timeout`, `Expired` |
| `memx_abort_transfer` | `Abort`, `Unlink` |
| `memx_dummy_read` | `Dummy`, `DummySubmit`, `DummyEnd` |
| `memx_read` | `Read`, `ReadLock`, `ReadSubmit`, `ReadCheck`, `ReadSignal`, `ReadEnd` |
| the last close and the first open | `Reopen` |
| the device, the USB core (external) | `Complete`, `UnlinkDone` |

`watched` is the kind of transfer (commands that send, commands that receive, reads) whose history
`trace` keeps, a different one in each behaviour: clean, dirty once the code has left something behind,
an URB in flight or a completion that counts, fooled if without that a wait was ended by something else than its own
transfer. `WokenByOwnUrb` and `ReadIsData` say that the last never happens. Most commands
do leave something when they time out (only `memx_write` and the admin commands
clean up), and then every later command is one transfer ahead of the device.

### MemxUsbDevices

`pc[i]` is the statement of `memx_probe` or `memx_disconnect` that an interface is at;
the USB core probes interfaces on different hubs at the same time.

| code | actions |
|---|---|
| `memx_probe` | `Alloc`, `Register`, `Lock`, `Region`, `Class`, `Node`, `Link`, `Count` |
| `memx_firmware_init` | `FirmwareInit` |
| `memx_fs_init`, `memx_fs_sys_init` | `Place`, `FsInit` |
| `memx_disconnect` | `FsDeinit`, `Kill`, `Destroy`, `Delist`, `Deregister`, `Free` |
| `memx_open`, `memx_release` | `Open`, `Close` |
| a command that times out; the late answer (external) | `TimeOut`, `Giveback` |

Every step of a probe may fail. What a failed probe leaves allocated is not followed
further, but for the minor and the region, which stay taken, and the mutex: `memx_probe` keeps it
when `device_create` fails (`stuck`), and dies with it when `class_create` returns an error,
which the driver does not recognise, or when `usb_register_dev` had failed, which it does not look
at: `intf->minor` is then -1 and indexes `device_link` (`dead`; the model takes the 64 bit
kernel, where that address faults). Minors are taken to be less than `MAX_CHIP_NUM`, as with
`CONFIG_USB_DYNAMIC_MINORS`; without it they begin at 192, and the driver stores beyond the array.
A file that is open when its device goes keeps a pointer to freed memory; the model drops it.
hwmon, procfs and the feature node's own calls are left out.

### MemxDebug

The function that serves a file is a *script*, the steps at which it looks at the device, writes a
word or reads one; other users, the firmware and the data path come between any two. The four file systems
(PCIe or USB, /sys or /proc) have each their own scripts. A scenario (`model`) picks one, the devices that
come and go, and what two users do.

| code | operators and actions |
|---|---|
| the functions behind the files | `sys_...`, `proc_...`, `usb_sys_...`, `usb_proc_...`, begun by `Start` |
| the commands in `memx_fs.c` | `memx_fs_cmd_handler` and its like, `usb_fs_...` |
| the search of `g_kobj_memx_dev_map` | `Lookup` |
| stores into a chip's mailbox; transfers that carry a command | `MailWord`; `memx_send_memxcmd` |
| update of the flash | `FirmwareFile`, `memx_sram_write`, `WriteLost`, `PollAnswer`, `PollFails`, `Report` |
| `memx_fw_log_init`, `_dump`, `_deinit` | actions of these names; `LogRead`, `LogPrint`, `LogDone` |
| `THROUGHPUT_ADD`, `throughput_show` | `THROUGHPUT_ADD`, `ReadCounter`, `PrintCounters`, `ResetCounter` |
| `memx_fs_init`, the part of `memx_fs_sys_init` or `memx_fs_proc_init` | `Scan`, `MakeRoot`, `AddFile`, `Finish`; when one fails `RootFails`, `FileFails` |
| `memx_insert_device`, `memx_fs_deinit`, `memx_pcie_remove_device` | `Insert` and actions of these names |
| the firmware (external) | `FwTake`, `FwBurn`, `FwWord`, `FwAnswer`, `FwLog` |

Admin commands and readings are single steps here (`Look`), `MemxAdmin` and `MemxUsb` have them in full.
What users do to each other when they meet is not promised anything and is marked by history
variables: commands that clash, updates that are not alone, dumps beside dumps, a count that falls into a showing.
So is what a `rmtcmd` may do, which sends whatever command code its user gives (`pcie/memx_fs.c:165`, `usb/memx_fs.c:98`):
with the thermal one, a chip's throttling is no longer what `ThermalThrottlingDisable` says (`past.remote`), until the next
store to `thermalthrottling`. The firmware is taken to act on the code of an update only in SRAM, where the driver writes
it, and the code 0, which is an empty mailbox, is left out.
So is a directory made while a lower device is not up (`past.settled`): an older entry of the table
may name the new directory's object, because entries are never cleared, and the PCIe
driver gives a device's number back later than its directory (`memx_cascade_pciemain.c:1114`, `1123`).
So is a device whose number is beyond the table, which no file of its directory finds.

Seen while modelling: a file can be opened before its directory is in the table, and then its reading
dereferences NULL; the table has 8 entries and numbers reach 127; a directory that fails
halfway in /sys stays for good; `kstrtou8(..) && chip_id >= ...` refuses no number that is
too high; the USB driver moves the log's pointer only in its copy, so that every dump
repeats all lines; `memx_fs_get_frequency` leaves its result unset on an error.
Left out: text, hwmon, the log's restart by resume, command lines with wrong arguments (they
change nothing), the overflow of the counters.

### MemxConvert and MemxPython

`MemxConvert` translates `convert.h`. A float32 is its upper 17 bits (sign, exponent, the
fraction that survives and the bit that rounds it), a packet of ten bytes the set of its bits that are 1.
`gbf_encode` and the three bodies of `gbf_decode` (SSE and BMI, NEON, portable) are written
as they are in the code: tables, shifts, masks, unsigned saturation. A shift by 32 or more is
undefined in C; `wrap` says which of the two things the build does.

| code | actions of `MemxPython` |
|---|---|
| a call of the module: its arguments are parsed | `Call`; `Refused` for arguments that end it |
| `Py_BEGIN_ALLOW_THREADS`, `Py_END_ALLOW_THREADS` | `AllowThreads`, `Retake`; `get_ofmap_hpoc` has neither (`GivesUp`) |
| a size query that fails and is not looked at | `Unsized`, or `Crash` |
| a `malloc` that fails and is not looked at, `_wrap_memx_operation` | `Crash` |
| `_wrap_memx_stream_ifmap` | `Add`, `Mask`, `Pack`, then the library |
| `_wrap_memx_stream_ofmap`, `_pop` | the library, then `Unconvert` |
| every other call | the library; `I2c`, `Otherwise` |
| the library (external) | `Succeed`, `Fail` |

The library answers, fails, runs into the timeout it was given or is aborted. A caller's array is rounded whole
where the code goes packet by packet: the properties tell apart only whether two calls round it at once.

Nothing in `_wrap_memx_stream_ifmap` and `_ofmap` looks whether the sizes of a flow could be read, whether memory was there, or
how large the caller's array is. On a *poor* host (a flag of the scenario) the first two fail: the locals for sizes and format
are then what the stack held, and the array goes to the library as it is, or the process dies converting or
clearing memory it does not have. The third is a precondition: the scenarios pass arrays of the flow's size.
`FitsBuffer` counts the twelve bytes of the struct through which a packet of ten is stored (`convert.h:47`). A buffer of flat packets
has them, as at least two bytes follow the last packet; a buffer of rows (`memxmodule.c:1215`) has not, if the rows need no padding:
there the last store may reach two bytes behind it, and the property excepts this case by name (`Unpadded`), as it excepts `pop`.

Seen while modelling: a failed pull zeroes the caller's array; a pull of bf16 hands on timeout 0 (`memxmodule.c:1304`),
against `memxmodule_doc.py:196-197`, "timeout : int / Milliseconds timeout, '0' indicates infinite", so that it may wait for ever
whatever it was given; `operation` parses `"bizl"` into the type object of arrays and takes a
number for the array (`memxmodule.c:197`), so it cannot be called without a crash;
`pop` allocates three dimensions of four; `devioctrl_i2crw` writes its answer into the
caller's immutable bytes object; `get_ofmap_hpoc` without dummy channels returns NULL
without setting an exception, and if it fails inside a pull the frame with its dummy channels is received into a buffer
without; `unconvert_gbf_hpoc` reads an index behind the last; two
threads that send one array may each move its numbers by a unit.

## The runs

| run | question | bounds |
|---|---|---|
| `transfer_read` | mutex discipline, reference count, who may fail with `-EFAULT`, lost aborts | three threads (a reader, a reader/writer, a controller that aborts, drains and sets read-abort), one chip, fifo of 2 |
| `transfer_write` | types, no lost completion, completions belong to their writes; every write returns; an abort gets through and frees the reader | a writer/reader and a writer/aborter, one chip, two unanswered inputs, fifo of 2 |
| `fwcmd` | locks on every failure path, no lost acknowledgement, own results; every call and every probe ends although the firmware may stay silent | one device, a user that configures or sends vendor commands, one that aborts or pokes, one probe |
| `admin` | the host's copy of the trigger type, slots at rest, own answers, the mailbox; every call returns although the firmware may stay silent | two threads, one chip present, one absent, two commands per download |
| `admin_download` | does a download wait for all its chips? (no) | one thread, two chips |
| `xflow` | what an access reaches, what it leaves in the windows and in the mailbox | two callers, two chips, all three wirings |
| `lifecycle` | what is released, who has which number, what an interrupt or a call finds | two devices beside one that stays, one process, two vectors |
| `usb` | who is woken by whose URB, what is left behind; an abort ends a read, every command ends although the device may stay silent | two threads with every command, or three that read, dummy read and abort; two data transfers per call, completions up to 2, one kind of leftover at a time |
| `usb_devices` | the class, the list, the mutex, the directories, the count of open files | two interfaces, two processes, two minors, two regions |
| `debug` | is what a file does done by its own device and as asked; is everything told once | four file systems; two users, up to three devices, two directory objects, two chips, an image of two words, a log of four entries and five lines, three half kilobytes |
| `python` | what is sent and received, what fits, does every thread get through its calls | two threads; numbers of 14 pairs of exponents and all fractions, packets with every mantissa, four shapes, all formats |
| `fwcmd_stale` | does a taken acknowledgement mean the command was processed? (no) | one user, one device |

What each property says is in the comment above it. `TypeOK` is checked and proved in `MemxTransfer`; proved in
`MemxFwCmd`, `MemxAdmin`, `MemxXflow`, `MemxUsb`, `MemxUsbDevices` and `MemxDebug`; in `MemxLifecycle` it is the first part of
the proof's own invariant. `MemxPython` states none.

*Why the bounds suffice.* The hazards need at most three roles at once: one that
waits, one that competes for the same result, and one that aborts. A fifo
of 2 (16 in the code) can be empty, partly filled and full, and loses an entry
when it is full. `MaxInflight = 2` allows an input that was given up together
with the next one on the same chip, which is how an answer gets a new owner.
`MaxRefs = 3` lets the count exceed the open files after interrupted releases.
`FailAckCount = 2` (5 in the code) has a sleep that repeats and one that gives up. `fwcmd_stale` has 5, so that its
counterexample is not a timeout, and no signals (`Signalled`), so that it is not a signal either: it is the abort.
`MaxOwed = 1` merges further triggers of a firmware that has not answered one, as
the hardware merges interrupts that are still pending; a late acknowledgement stands in the
indicator beside the one still owed.
`MaxRefs` and `MaxInflight` are bounds of the model in the guards of `Open` and `WriteStart`, `MaxOwed` saturates a count.

`Parallel = 2` (4 in the code) lets a download fail on one chip while another is at work,
name one chip twice, or name one that is absent; chips beyond two would repeat the second.
`Tickets = 2` is enough because at most one command of a chip is outstanding besides the
one its firmware is busy with.

One chip in `transfer_write` and one device in `fwcmd` are enough for TLC because the safety
properties of these runs are proved for any number; what several chips or devices add is contention for
the one mutex or semaphore, which the second thread provides.

`xflow` has two chips: the first, whose window the others are reached through, and another one; a
third only multiplies the states. `lifecycle`: two vectors have a request that succeeds before
one that fails; the device that stays (`Others`) makes the list search begin behind a number in
use; numbers end at 3 (`Minors`, a guard of `Insert`), more than the three devices ever need. `usb`: two data transfers (`Chunks`) leave a call in the middle of its data; a completion
that counts to 2 (`MaxDone`) holds a leftover and the present transfer's. Commands and reads share no URB
and no completion, so the instance has either the commands and the abort, or what may meet a read. `usb_devices`: two regions
(`MaxRegions`) allow one that was lost and one in use, two minors (`MaxMinor`) one that was lost, so that
a later registration fails. `MaxMinor` and `MaxRegions` are guards of `Register` and `Region`, which
then fail as they may anyway; `MaxDone` saturates. `debug`: three devices, two objects and any order of
coming and going let an object's address be used again beside an entry that names it; a log of 4 and 5 lines
goes around, is full, and is dumped twice. Flash updates, commands, dumps and comings and goings
share no state but what the scenarios combine. `python`: numbers are independent of each other but
for the largest of eight, so pairs of exponents and every fraction cover the encoder; every byte value
occurs in every lane of the decoders.

*Deadlock* is checked in every run but `usb_devices`, where a probe that faults with `device_mutex` in
hand really does stop every other, and `debug` and `python`, whose users and programs come to an end: elsewhere a thread that has returned can always make another call.

*Fairness.* A thread inside a call is eventually run (weak fairness of its own
steps). Linux semaphores serve their waiters first in, first out, so a call that
waits for a mutex gets it if it becomes free again and again (strong
fairness). Nobody has to make a call, no signal has to come, and no result has to
appear. `transfer_write` also assumes that the device answers every
input, because `memx_fops_write` repeats its sleep without end and cannot return
otherwise (`WriteRetry`). `fwcmd` does not: a firmware command gives up after
`FAIL_ACK_COUNT` sleeps. Nor does `admin`: the poll ends after three seconds. In
`usb` the device need not complete any transfer; the USB core must give back an URB that it was
told to unlink, and a read that waits for data and meets no abort may wait for ever. A dummy
read takes `cfglock` and then waits for the lock of a reader that
waits for the device, and nothing in the code ends this: `CommandsEnd` excepts it. In `python` threads
that have the interpreter's lock or do without it run (`WF_pc`), the lock goes round among the threads that want it, to return
from a call or to make the next, as CPython's requests to drop it
make it (`SF_pc`), and the library returns but from a read without a timeout, which needs an
abort. So a read that kept the lock would keep out the thread that is to abort it, and `CallsReturn` would fail. It excepts a
pull of bf16 whatever its timeout, for the reason given above. `MemxXflow`, `MemxLifecycle`, `MemxUsbDevices` and `MemxDebug` state no fairness: their
promises are about safety, and a thread that faults with `device_mutex` in hand does stop the driver.

## The proofs

Of all components but the Python module, every safety property that a passing run
checks is proved, for any number of threads, processes, chips, devices, numbers and interfaces and any value of the
bounds, from the named assumption on the module's constants and nothing else. The theorems are about `Spec`, which
the fair specifications imply.

| theorem | statement | hazard it answers |
|---|---|---|
| `MemxTransfer_proofs!TypesAlways` | `TypeOK` | |
| `...!RefsCoverFilesAlways` | `RefsCoverFiles` | an interrupted release |
| `...!LockDisciplineAlways` | `LockDiscipline` | a path that keeps the mutex |
| `...!NoLostCompletionAlways` | `NoLostCompletion` | an abort that wipes a wake-up |
| `...!OwnCompletionAlways` | `OwnCompletion` | an answer taken by the next write |
| `...!EfaultOnlyIfRobbedAlways` | `EfaultOnlyIfRobbed` | two readers woken for one result |
| `...!AbortNotForgottenAlways` | `AbortNotForgotten` (an action property) | a step that wipes an abort |
| `MemxFwCmd_proofs!TypesAlways` | `TypeOK` | |
| `...!SemaphoreDisciplineAlways` | `SemaphoreDiscipline` | a failure path that keeps or doubles the semaphore |
| `...!NoLostAckAlways` | `NoLostAck` | a lost acknowledgement |
| `...!ResultIsOwnAlways` | `ResultIsOwn` | a result read after it was written over |
| `MemxAdmin_proofs!TypesSafe` | `TypeOK` | |
| `...!SlotsAtRestSafe` | `SlotsAtRest` | a download that fails halfway |
| `...!OwnAnswerSafe` | `OwnAnswer` | an answer that comes after the poll was given up |
| `...!TriggerTypeAgreesSafe` | `TriggerTypeAgrees` | a cached value the firmware does not have |
| `...!SlotsAreMailboxesSafe` | `SlotsAreMailboxes`: each slot implements `AdminMailbox` | |
| `MemxXflow_proofs!TypesSafe` | `TypeOK` | |
| `...!OwnPlaceAlways` | `OwnPlace` | two accesses mix their windows |
| `...!RestIsMpuAlways` | `RestIsMpu` | a window left open |
| `...!PendingIsWholeAlways` | `PendingIsWhole` | a mailbox command given up and written over |
| `MemxLifecycle_proofs!InterruptsFindDeviceAlways` | `InterruptsFindDevice` | an interrupt while its device is taken down |
| `...!UsableIsArmedAlways` | `UsableIsArmed` | a resume that fails halfway |
| `...!InsideIsWholeAlways` | `InsideIsWhole` | a removal under a call |
| `...!NothingLeaksAlways` | `NothingLeaks` | an error label that undoes too little |
| `...!NodesAndDevicesAgreeAlways` | `NodesAndDevicesAgree` | a number given twice |
| `MemxUsb_proofs!TypesSafe` | `TypeOK` | |
| `...!WokenByOwnUrbAlways` | `WokenByOwnUrb` | a late completion ends a later wait |
| `...!ReadIsDataAlways` | `ReadIsData` | an abort takes back another read's URB |
| `...!QuietAtRestAlways` | `QuietAtRest` | a leftover between two calls |
| `MemxUsbDevices_proofs!TypesSafe` | `TypeOK` | |
| `...!ClassWithDevicesSafe` | `ClassWithDevices` | the last device destroys the class under a new one |
| `...!GivenBackSafe` | `GivenBack` | a disconnect beside files and late transfers |
| `...!FilesAreCountedSafe` | `FilesAreCounted` | a file opened during the probe |
| `MemxDebug_proofs!TypesSafe` | `TypeOK` | |
| `...!DoneAsAskedAlways` | `DoneAsAsked` | another device's directory, another's parameters, an old answer |
| `...!ToldOnceAlways` | `ToldOnce` | a log that goes on under its reader, counters that are reset |

### Assumptions

* `TransferAssumption`, `FwCmdAssumption`, `AdminAssumption`, `UsbAssumption`, `UsbDevicesAssumption`: bounds are
  numbers, and not zero where zero would switch the code off; who may call what is a set of calls; the value
  that stands for "nobody" is not a thread (in `MemxAdmin`, nor a command).
* `OpsAssumption` (`MemxUsb`): the calls that threads make are commands of `Scripts`, reads, dummy reads and aborts.
* `UsbDevicesAssumption`: interfaces and processes are finitely many: open files are counted, and numbers are found by search.
* `XflowAssumption`: the callers are told apart from the registers, because a window's base may be either.
* `LifecycleAssumption`: 0 is a number; the devices that stay are finitely many, and there are at least two
  vectors, as the driver asks for `MEMRYX_MAX_MSIX_NUMBER`.

* `DebugAssumption`: a log has at least two entries (one is always free); devices are finitely many, as free numbers are
  found by search; a scenario consists of calls of the files that are there, and begins with at most one device
  (others come in its course).

TLC evaluates them in every run.

### Inductive invariants

None of the invariants is inductive alone, for reasons that say something about the code.

`MemxTransfer` and `MemxFwCmd` are proved in layers.

1. *Base*: the types, and what ties a thread's place to its locals. `TypeOK` is not
   inductive by itself: that `target[t]` is a chip while a write waits, or that a
   command is left in `job[t]` while the thread is in the channel, has to be known
   before indexing with it. `reference_count` is in `Nat` only because it covers
   the open files, which in turn needs the files to be finitely many.
2. *Locks*: the lock is held by exactly the thread at a place inside; so two
   threads are never inside together.
3. *Channel*: what a waiting thread can rely on. `NoLostCompletion` follows because an
   abort, the only step that forgets indicators, would hold the mutex the writer
   holds. `OwnCompletion` counts the answers still visible: one when a writer waits
   on a chip that was never given up, otherwise none. `ResultIsOwn` needs the
   claim a command makes from `Send` on: if nothing was owed or standing when
   it was sent, then as long as it waits at most one acknowledgement is on its way
   *or* stands, never both, and once it stands the buffer holds this
   command's result, or a thread that no lock keeps apart has written over it.
   The semaphore protects the buffer while the command waits, and the device
   mutex protects it between `up` and the read of the result. A user's claim and
   a probe's are not protected from each other, which is the exception in
   the property.

`ReadInv` (`MemxTransfer`) is about readers, who have no lock: what woke a reader is still in the fifo or the abort
flag still stands, unless another call has robbed it. It needs that whoever reads has its file open, since only the first open
clears a flag without being a reader; `AbortNotForgotten` needs the same fact and no lock at all.

`MemxAdmin`: *Base* has the types and what a thread still has to send (`todo`) and to poll (`due`). *Slots*
says of every chip none of whose commands was given up that a slot in use is awaited by the holder of `adminlock`, once,
under the number of the command in it, wherever that command has got to (slot, firmware, answer), and
that the firmware has it just while the status says so. One command number cannot prove this: it takes the lock to know that no
other thread awaits the slot, and the end of the call to know that nobody does when the lock is
free. `IInv` adds what the three stations of a set or get command have to agree on: with the host's copy, for a set,
with the firmware's for an answer of a get. The refinement has one step for each action: those of the
mailbox for the chip concerned, a stutter for the others; a forsaken command leads to *astray*.

`MemxXflow`: an access is a script of up to 14 register accesses, and `Stage(t, k)` says for each position in each of
the three ways what the access has by then made of the windows or of the mailbox, if no other access conflicted.
That the scripts have these items at these positions is proved first, from concatenation. `RestInv` says
*who* will bring an open window back to the MPU. It is needed because an access that is disturbed can
still be the one to close it: `RestIsMpu` promises this of the first chip after any history, and of
chips behind it as long as no two indirect accesses have met.

`MemxLifecycle`: the invariant has two halves. `CoreInv` lists the stages a device can be in (absent, bound, hollow, each
position of probe, undo, resume and remove) and says of each one what is held, which handlers are set up,
and who has the mutex. It makes the tables in the driver's error labels explicit: a resource is taken by one
statement of probe and given up by one of the undo and one of the removal. `NumberInv` is about numbers. Whether a device
is in the list, uses a number or is still to destroy nodes is read off its stage; the list is sorted and has
exactly these devices; two users of a number share a contested one; each number has *as many* cdevs as holders. This
count is what makes `NothingLeaks` inductive: a removal with a contested number may delete the other's cdev
(`cdev_del` finds it by number), so that names are not kept but their count is.

`MemxUsb`: the locks (`LockInv`); which completion the callback of an URB signals, in particular for
a transfer that is being submitted or awaited (`HandlerInv`: `fw_txurb` and `txurb` are filled anew for each command and
serve two completions); and, as long as the history of the watched direction is clean, that the URB in flight
and the signal to come are those of the one who awaits them, and that without such a one all is quiet (`FlightInv`).
For reads (`ReceiveInv`) the signal may also be that of an URB an abort took back, but then `state` still says
so. This is the argument why an abort is answered by the read it hit.

`MemxUsbDevices`: one part for each thing devices share. A minor in use is taken and nobody else's; the class and
the region are there just while the list is not empty, except between the statements of the one probe that holds
`device_mutex`, for which `ClassOf` has each statement; a directory is its owner's alone; a count differs from the open
files only by those opened early. That the search for a free minor or directory finds one needs
well-founded induction on numbers (`LeastIsThere`).

`MemxDebug`: there are four file systems, twelve files and some thirty scripts. What they have in common is proved
first: every script is *led*, it finds its device if it is in /sys, looks at it, and then comes to its `Section`, one of
a handful of sequences that change something (`ProcLeads`, `SysLeads` and their USB forms; `KindsAre` says which steps may
be in which). So the number of steps that are left tells where in its section an operation is, and the rest of
the invariant need not know which file it serves. Its parts:

* `Base`: types, every operation at its place of its script (`ScriptInv`), what is entered in the table (`DirInv`).
* `OwnInv`: objects, numbers and indexes of directories are apart, a finished directory stands at its device's index
  and no lower entry names its object. That is why the first hit of the search is its own device, and why it has to be
  *settled*: only then has every lower index been written over since the address was used last.
* `CommandInv`: without a clash the parameters that an operation has written are still there when its command follows,
  and those of a command that waits. Neither half is inductive alone: the second becomes true by the step the first is about.
* `ThrottleInv`: what a chip will do once it has taken the command that waits is what the driver notes in
  `ThermalThrottlingDisable`, but for chips the one store under way has told by then and devices a `rmtcmd` has told.
* `FlashInv`: for every place in the six steps of an update, what of the image is in memory or in the flash, and whose the
  answer is. It needs that an old answer is wiped before the firmware is asked (`param := 0` before `commd := Q`).
* `LogInv`: the ring holds, at their places modulo its size, the lines from the first that is not given back on; a
  dump under way (`Reader`) has fixed an interval of them. That places less than a ring apart differ is
  number theory the provers have to be led to (`PlacesApart`, `PlacesBetween`).
* `BytesInv`: what was counted less what stands in the counters is twice what was told and at most half a
  kilobyte for each showing, with a place for each of the five steps of a showing.

Steps are proved action by action, with lemmas for the parts of the invariant and for the
threads or devices that an action does not touch; `PTL` combines them.

### Checked by TLC only

* Liveness (`WriteReturns`, `AbortReleasesReader`, `CommandReturns`, `AdminReturns`, `AbortEndsRead`,
  `CommandsEnd`, `CallsReturn`): TLAPS does not prove properties under fairness.
* `MemxPython` (`SentIsArray`, `PulledIsSent`, `FitsBuffer`): what the conversions compute, bit by bit, and
  how many packets they write. TLC goes through the numbers; the provers know nothing of bits.

## Findings

`fwcmd_stale` is expected to fail. `memx_wait_for_firmware_msix_ack` looks at
`is_abort` first and returns, even if the acknowledgement has come, without
resetting the indicator (`pcie/memx_fw_cmd.c:20`). The indicator is not reset when a
command is sent either. So after a `MEMX_ABORT_TRANSFER` that no `read` consumed,
the next command fails and leaves its acknowledgement standing, and the one
after it is "acknowledged" before the firmware has run it, against the comment at
`pcie/memx_fw_cmd.c:17`, "check until received cmd process done msix".
The counterexample takes this path: an abort, a command that is aborted by the flag it left, its acknowledgement, the
next command. `MEMX_CONFIG_MPU_GROUP` does exactly that in one call: it ignores the failure
of its first command and then reads its own request back as hardware information.
From there every result is one command late until an abort or a reload.

`admin_download` is expected to fail. The comment at `pcie/memx_feature.c:214` requires
all commands of a download to be done; the loop below it breaks at the first error
(line 220) and the call returns while other chips are still loading.

Not a disagreement with any text, but worth knowing: a trigger type that was set while the
firmware was late with an earlier command can be reported as set although the firmware
never saw the command (`TriggerTypeAgrees` is promised only when no command of the chip
was given up).

## Not modelled

Planned: the scan of chip roles into groups in `pcie/memx_fw_init.c`.

Of the modelled components: the payload and its DMA descriptors (`pcie/memx_dma.c`), `mmap`,
the overflow of the throughput counters (whose reset names `tx_size` twice), the fifo's
spin lock and the interrupt that may spin on it on the same CPU (which needs a model of CPUs),
store order on weakly ordered machines (the firmware's side has no source), the register values
of the firmware start, and of the USB commands what the data says.

Not planned: the text of the debug file systems, hwmon, the lab self test and the USB bulk test,
the flash tools (sequential programs on vendored libraries), the 32 bit driver (an older copy of the
PCIe driver: its lines repeat those modelled here), headers of tables and vendored libraries, and
anything inside the firmware or the user-space library, of which the repository has binaries only.

## Plan

In order of importance for a user of the driver.

1. `MemxTransfer`: done, its safety proved.
2. `MemxFwCmd`: done, its safety proved.
3. `MemxAdmin` with `AdminMailbox`: modelled, safety and refinement proved.
4. `MemxXflow`: done, its safety proved for all three ways of access.
5. `MemxLifecycle`: done, its safety proved.
6. `MemxUsb`, `MemxUsbDevices`: done, their safety proved.
7. `MemxDebug`: done, its safety proved.
8. `MemxConvert`, `MemxPython`: done. Bit by bit, so a matter for TLC.
9. `MemxChips`: the scan of chip roles against a reference definition.
10. `MemxDevice`: the transfer path and the command channel composed over the shared abort
   flags, each component's view of the other shown to be the other's projection.
