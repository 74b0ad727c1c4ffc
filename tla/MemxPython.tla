------------------------------ MODULE MemxPython ------------------------------
(***************************************************************************)
(* The Python module mxa (pymodule/memxmodule.c): threads of one           *)
(* interpreter that call the user-space library.                           *)
(*                                                                         *)
(* A call parses its arguments with the interpreter's lock (GIL) in hand,  *)
(* gives it up while it converts a feature map and while it is in the      *)
(* library, and takes it again to return.  A feature map is a numpy array  *)
(* of the caller's, which the module takes to have the flow's size: what is*)
(* sent is rounded in it, in place, and what is received is unconverted    *)
(* into it.  The module does not look whether the library tells it the     *)
(* sizes, nor whether it gets memory.  The library and the device are      *)
(* external.                                                               *)
(***************************************************************************)
EXTENDS MemxConvert

CONSTANTS
  Threads,
  Free,        (* the GIL when nobody holds it                             *)
  Scenarios    (* the programs, builds and devices in question             *)

(* A scenario: the calls each thread makes one after the other; data, the  *)
(* contents of the callers' objects; what the device sends, in groups (of  *)
(* gbf80) or flat; how the module was built: for which arch, and whether an*)
(* undefined shift wraps around; the stray number that lies behind the     *)
(* array of hpoc indexes; and whether the host is poor: whether malloc, or *)
(* the library when it is asked for sizes, may fail.                       *)
(* A call: its operation, the object it is given, and, of the flow it is   *)
(* about, the format, the shape and the dummy channels (hpoc); and the     *)
(* timeout, 0 for none.                                                    *)

VARIABLES
  model,      (* the scenario                                              *)
  gil,
  pc,
  left,       (* left[t]: the calls t has still to make, with the present  *)
  array,      (* the callers' objects                                      *)
  format,     (* what each call takes its flow's format to be              *)
  buffer,     (* formatted_data of each call: its size and contents        *)
  sent,       (* what the library got from each call                       *)
  status,     (* of the library's call                                     *)
  is_abort,   (* the library's: the next read is to end                    *)
  meddled,    (* history: what other calls did meanwhile to the object of  *)
              (* this one: "no", "added" to its numbers, or "written"      *)
  written,    (* history: the objects as the program, the device or the    *)
              (* library last gave them contents; rounding is none         *)
  asked,      (* history: what the object of a call was thus, at its start *)
  raced       (* history: how often, since, one call rounded an object in  *)
              (* the midst of another                                      *)

vars == <<model, gil, pc, left, array, format, buffer, sent, status, is_abort, meddled, written, asked, raced>>

(* The calls that hand their arguments to the library and its answer back, *)
(* in the order of MemxMethods.                                            *)
Plain ==
  {"lock", "trylock", "unlock", "open", "close", "abort", "operation", "chip_count", "config_mpu_group",
   "download_model_config", "download_model_wtmem", "download", "download_buffer", "update_firmware",
   "set_stream_enable", "set_stream_disable", "set_ifmap_queue_size", "set_ofmap_queue_size",
   "get_ifmap_size", "get_ifmap_range_convert", "get_ofmap_size", "get_ofmap_hpoc", "reset_device",
   "get_manufacturer_id", "get_fw_commit", "get_date_code", "get_cold_warm_reboot_count",
   "get_warm_reboot_count", "get_kdriver_version", "get_temperature", "get_thermal_state",
   "get_thermal_threshold", "get_frequency", "get_voltage", "get_throughput", "get_power",
   "get_poweralert", "get_module_info", "get_interface_info", "get_utilization", "set_mpu_frequency",
   "set_mpu_voltage", "set_mpu_thermal_threshold", "set_powerstate", "set_power_threshold",
   "set_power_alert_frequency", "enter_device_deep_sleep", "exit_device_deep_sleep",
   "set_ifmap_control", "get_ifmap_control", "get_total_chip_count", "get_device_count"}

Methods == Plain \cup {"push", "pull", "pop", "i2crw", "gpiorw"}
Formats == {"float32", "raw", "bf16", "gbf", "gbfrow", "odd"}
Gbf     == {"gbf", "gbfrow"}
Converted == Gbf \cup {"bf16"}

Cur(t)  == Head(left[t])
Pad(c)  == c.fmt = "gbfrow"
Map(t)  == array[Cur(t).array]
Statuses == {"ok", "error", "timeout", "aborted"}

ASSUME PythonAssumption ==
  \A m \in Scenarios : \A t \in Threads : \A i \in DOMAIN m.call[t] :
    LET c == m.call[t][i] IN
    c.op \in Methods /\ c.fmt \in Formats /\ c.array \in DOMAIN m.data /\ c.limit \in Nat

Stages == {"python", "parse", "add", "mask", "pack", "library", "unconvert", "retake", "return", "crashed"}
Goto(t, place) == pc' = [pc EXCEPT ![t] = place]
NoBuffer == [size |-> 0, data |-> <<>>]

Init ==
  /\ model \in Scenarios
  /\ gil = Free
  /\ pc = [t \in Threads |-> "python"]
  /\ left = model.call
  /\ array = model.data
  /\ format = [t \in Threads |-> "raw"]
  /\ buffer = [t \in Threads |-> NoBuffer]
  /\ sent = [t \in Threads |-> NoBuffer]
  /\ status = [t \in Threads |-> "ok"]
  /\ is_abort = FALSE
  /\ meddled = [t \in Threads |-> "no"]
  /\ written = model.data
  /\ asked = [t \in Threads |-> <<>>]
  /\ raced = [o \in DOMAIN model.data |-> 0]

(* What a step of t that adds to, or writes, its object is to the others.  *)
Inside(t) == pc[t] # "python"
Alive     == \A t \in Threads : pc[t] # "crashed"
Beside(t, stages) == \E u \in Threads \ {t} : pc[u] \in stages /\ Cur(u).array = Cur(t).array
Meddle(t, how) ==
  meddled' = [u \in Threads |->
    IF u # t /\ Inside(u) /\ Cur(u).array = Cur(t).array /\ meddled[u] # "written" THEN how ELSE meddled[u]]
Rewrite(t, contents) ==
  /\ array' = [array EXCEPT ![Cur(t).array] = contents]
  /\ written' = [written EXCEPT ![Cur(t).array] = contents]
  /\ raced' = [raced EXCEPT ![Cur(t).array] = 0]
  /\ Meddle(t, "written")

-----------------------------------------------------------------------------
(* f of each number.                                                       *)
Map1(f(_), words) == [i \in DOMAIN words |-> f(words[i])]

(* The size of formatted_data: bf16 rounded up to four bytes, gbf80 to the *)
(* next four bytes, row by row or, with four more if nothing is missing,   *)
(* as a whole.                                                             *)
fmt_size(c, num_gbf_ch) ==
  CASE c.fmt = "bf16"   -> 2 * Size(c.shape) + (IF Size(c.shape) % 2 = 1 THEN 2 ELSE 0)
    [] c.fmt = "gbf"    -> LET n == (Size(c.shape) \div c.shape.c) * PixelSize(num_gbf_ch)
                           IN n + (4 - (n % 4))
    [] c.fmt = "gbfrow" -> c.shape.h * RowSize(c.shape, num_gbf_ch, TRUE)
    [] OTHER            -> 0

(* Wrong: the dummy channels of what is received are forgotten.            *)
WithoutHpoc(c) == c.shape.c
num_gbf_ch(c) == IF c.op = "pull" THEN c.shape.c + Len(c.hpoc) ELSE c.shape.c

(* pop allocates three of the four dimensions.                             *)
PopSize(c) == c.shape.h * c.shape.w * c.shape.z * (IF c.fmt = "float32" THEN 4 ELSE 1)

(* Where a call goes once it has parsed its arguments.                     *)
Begins(c) ==
  CASE c.op = "push" /\ c.fmt \in Gbf -> "add"
    [] c.op = "push" /\ c.fmt = "bf16" -> "pack"
    [] OTHER -> "library"

(* The interpreter runs the thread, which calls the module.                *)
Call(t) ==
  /\ pc[t] = "python" /\ left[t] # <<>>
  /\ gil = Free /\ gil' = t
  /\ Goto(t, "parse")
  /\ meddled' = [meddled EXCEPT ![t] = IF Beside(t, {"mask"}) THEN "added" ELSE "no"]
  /\ raced' = [raced EXCEPT ![Cur(t).array] = @ + (IF Beside(t, {"mask"}) THEN 1 ELSE 0)]
  /\ asked' = [asked EXCEPT ![t] = written[Cur(t).array]]
  /\ format' = [format EXCEPT ![t] = Cur(t).fmt]
  /\ buffer' = [buffer EXCEPT ![t] = NoBuffer]
  /\ sent' = [sent EXCEPT ![t] = NoBuffer]
  /\ UNCHANGED <<model, left, array, status, is_abort, written>>

(* Bad arguments, a generation of chips that is not known or cannot be     *)
(* read, or a pop whose sizes cannot be read, or whose array cannot be     *)
(* allocated.                                                              *)
Refused(t) ==
  /\ pc[t] = "parse"
  /\ status' = [status EXCEPT ![t] = "error"]
  /\ Goto(t, "return")
  /\ UNCHANGED <<model, gil, left, array, format, buffer, sent, is_abort, meddled, written, asked, raced>>

(* The interpreter's process dies, or might as well: operation stores its  *)
(* arguments over the type of arrays and takes a number for an array; push *)
(* and pull, on a poor host, clear formatted_data though malloc has failed,*)
(* convert by sizes that were never read, or receive a frame with dummy    *)
(* channels into a buffer without, as get_ofmap_hpoc has failed.           *)
Shaky(t) == model.poor /\ Cur(t).op \in {"push", "pull"} /\ Cur(t).fmt \in Converted

Crash(t) ==
  /\ pc[t] = "parse"
  /\ Cur(t).op = "operation" \/ Shaky(t)
  /\ Goto(t, "crashed")
  /\ UNCHANGED <<model, gil, left, array, format, buffer, sent, status, is_abort, meddled, written, asked, raced>>

(* Py_BEGIN_ALLOW_THREADS, which get_ofmap_hpoc does without.              *)
(* Wrong: stream_ofmap does without it too.                                *)
GivesUpUnlessReads(c) == c.op \notin {"get_ofmap_hpoc", "pull"}
GivesUp(c) == c.op # "get_ofmap_hpoc"

(* formatted_data is allocated, all zeros.                                 *)
AllowThreads(t) ==
  /\ pc[t] = "parse" /\ Cur(t).op # "operation" /\ Cur(t).fmt # "odd"
  /\ gil' = IF GivesUp(Cur(t)) THEN Free ELSE gil
  /\ buffer' = [buffer EXCEPT ![t].size =
       IF Cur(t).op \in {"push", "pull"} THEN fmt_size(Cur(t), num_gbf_ch(Cur(t)))
       ELSE IF Cur(t).op = "pop" THEN PopSize(Cur(t)) ELSE 0]
  /\ Goto(t, Begins(Cur(t)))
  /\ UNCHANGED <<model, left, array, format, sent, status, is_abort, meddled, written, asked, raced>>

(* The sizes and the format could not be read, and what the stack held for *)
(* the format is none of those to convert.                                 *)
Unsized(t) ==
  /\ pc[t] = "parse" /\ Shaky(t)
  /\ gil' = IF GivesUp(Cur(t)) THEN Free ELSE gil
  /\ format' = [format EXCEPT ![t] = "raw"]
  /\ Goto(t, "library")
  /\ UNCHANGED <<model, left, array, buffer, sent, status, is_abort, meddled, written, asked, raced>>

(* gbf_encode rounds the array in place, by two assignments, and reads it  *)
(* again to pack it: three steps, between which another call may use it.   *)
Add(t) ==
  /\ pc[t] = "add"
  /\ array' = [array EXCEPT ![Cur(t).array] = Map1(Added, @)]
  /\ Meddle(t, "added")
  /\ raced' = [raced EXCEPT ![Cur(t).array] = @ + (IF Beside(t, Stages \ {"python"}) THEN 1 ELSE 0)]
  /\ Goto(t, "mask")
  /\ UNCHANGED <<model, gil, left, format, buffer, sent, status, is_abort, written, asked>>

Mask(t) ==
  /\ pc[t] = "mask"
  /\ array' = [array EXCEPT ![Cur(t).array] = Map1(Masked, @)]
  /\ Meddle(t, "added")
  /\ Goto(t, "pack")
  /\ UNCHANGED <<model, gil, left, format, buffer, sent, status, is_abort, written, asked, raced>>

(* convert_bf16, which leaves the array alone, or the packing of gbf80.    *)
Pack(t) ==
  /\ pc[t] = "pack"
  /\ buffer' = [buffer EXCEPT ![t].data =
       IF Cur(t).fmt = "bf16" THEN convert_bf16(Map(t), model.arch)
       ELSE convert_gbf(Map(t), Cur(t).shape, Pad(Cur(t)), model.wrap)]
  /\ Goto(t, "library")
  /\ UNCHANGED <<model, gil, left, array, format, sent, status, is_abort, meddled, written, asked, raced>>

-----------------------------------------------------------------------------
(* The library                                                             *)

(* The timeout a call hands on: none for a pull of bf16.                   *)
Limit(c) == IF c.op = "pull" /\ c.fmt = "bf16" THEN 0 ELSE c.limit

(* memx_stream_ifmap is given the array itself if nothing is converted.    *)
Given(t) == IF buffer[t].data # <<>> THEN buffer[t].data ELSE Map(t)

Push(t) ==
  /\ Cur(t).op = "push"
  /\ sent' = [sent EXCEPT ![t].data = Given(t)]
  /\ UNCHANGED <<array, buffer, is_abort, meddled, written, raced>>

(* A frame of the device's in the format of the flow, dummy channels       *)
(* included.                                                               *)
Frame(c) ==
  IF c.fmt \in Gbf
  THEN LET places == Places(c.shape, c.shape.c + Len(c.hpoc), Pad(c))
       IN [a \in Range(places) |->
             Packet(model.groups[CHOOSE ig \in DOMAIN places : places[ig] = a])]
  ELSE model.flat

(* memx_stream_ofmap into formatted_data, or into the array itself.        *)
Receive(t) ==
  /\ Cur(t).op \in {"pull", "pop"}
  /\ IF Cur(t).op = "pop" \/ format[t] \in Converted
     THEN buffer' = [buffer EXCEPT ![t].data = Frame(Cur(t))] /\ UNCHANGED <<array, meddled, written, raced>>
     ELSE Rewrite(t, model.flat) /\ UNCHANGED buffer
  /\ UNCHANGED <<sent, is_abort>>

(* memx_devio_control: the answer replaces the request in the caller's     *)
(* bytes object.  The answer to n is n + 1.                                *)
I2c(t) ==
  /\ Cur(t).op = "i2crw"
  /\ Rewrite(t, Map1(Added, Map(t)))
  /\ UNCHANGED <<buffer, sent, is_abort>>

Otherwise(t) ==
  /\ Cur(t).op \in Plain \cup {"gpiorw"}
  /\ is_abort' = (is_abort \/ Cur(t).op = "abort")
  /\ UNCHANGED <<array, buffer, sent, meddled, written, raced>>

(* What follows the library's call.                                        *)
Leave(c) == IF GivesUp(c) THEN "retake" ELSE "return"
After(c) == IF c.op = "pull" THEN "unconvert" ELSE Leave(c)

(* The library's call ends: with success, which a read may have to wait    *)
(* for; an error; a timeout; or, a read, an abort.                         *)
Succeed(t) ==
  /\ pc[t] = "library"
  /\ Push(t) \/ Receive(t) \/ I2c(t) \/ Otherwise(t)
  /\ status' = [status EXCEPT ![t] = "ok"]
  /\ Goto(t, After(Cur(t)))
  /\ UNCHANGED <<model, gil, left, format, asked>>

Fail(t) ==
  /\ pc[t] = "library"
  /\ \E s \in {"error", "timeout", "aborted"} :
       /\ s = "timeout" => Limit(Cur(t)) > 0
       /\ s = "aborted" => is_abort /\ Cur(t).op \in {"pull", "pop"}
       /\ status' = [status EXCEPT ![t] = s]
       /\ is_abort' = (is_abort /\ s # "aborted")
  /\ Goto(t, After(Cur(t)))
  /\ UNCHANGED <<model, gil, left, array, format, buffer, sent, meddled, written, asked, raced>>

-----------------------------------------------------------------------------
(* The frame that was never received is all zeros.                         *)
Received(t) ==
  IF buffer[t].data # <<>> THEN buffer[t].data
  ELSE IF Cur(t).fmt = "bf16" THEN [i \in 1..Size(Cur(t).shape) |-> 0]
  ELSE [a \in DOMAIN Frame(Cur(t)) |-> {}]

Unconverted(t) ==
  LET c == Cur(t) IN
  IF c.fmt = "bf16" THEN unconvert_bf16(Received(t))
  ELSE IF c.hpoc # <<>> THEN unconvert_gbf_hpoc(Received(t), Map(t), c.shape, Pad(c), c.hpoc, model.stray, model.arch)
  ELSE unconvert_gbf(Received(t), c.shape, Pad(c), model.arch)

(* After the library's call, and whatever its status, what is in the       *)
(* buffer is unconverted into the array.                                   *)
Unconvert(t) ==
  /\ pc[t] = "unconvert"
  /\ IF format[t] \in Converted
     THEN Rewrite(t, Unconverted(t))
     ELSE UNCHANGED <<array, meddled, written, raced>>
  /\ Goto(t, Leave(Cur(t)))
  /\ UNCHANGED <<model, gil, left, format, buffer, sent, status, is_abort, asked>>

(* Py_END_ALLOW_THREADS.                                                   *)
Retake(t) ==
  /\ pc[t] = "retake"
  /\ gil = Free /\ gil' = t
  /\ Goto(t, "return")
  /\ UNCHANGED <<model, left, array, format, buffer, sent, status, is_abort, meddled, written, asked, raced>>

Return(t) ==
  /\ pc[t] = "return"
  /\ gil' = Free
  /\ left' = [left EXCEPT ![t] = Tail(@)]
  /\ Goto(t, "python")
  /\ UNCHANGED <<model, array, format, buffer, sent, status, is_abort, meddled, written, asked, raced>>

Running(t) ==
  Refused(t) \/ Crash(t) \/ AllowThreads(t) \/ Unsized(t) \/ Add(t) \/ Mask(t) \/ Pack(t) \/ Unconvert(t) \/ Return(t)

Next == Alive /\ \E t \in Threads : Call(t) \/ Running(t) \/ Succeed(t) \/ Fail(t) \/ Retake(t)

Spec == Init /\ [][Next]_vars

(* A call of the library returns by itself, unless it reads without a      *)
(* timeout: then it has to be aborted.                                     *)
Patient(t) == pc[t] = "library" /\ Cur(t).op \in {"pull", "pop"} /\ Limit(Cur(t)) = 0 /\ ~is_abort

(* Threads that have the GIL, or do without, run; the library's calls end; *)
(* and the interpreter hands the GIL round among the threads that want it, *)
(* to return or to make their next call.  A step of a thread is seen by its*)
(* place.                                                                  *)
Moves(t) == Alive /\ \E place \in Stages : Goto(t, place)

Fairness ==
  \A t \in Threads :
    /\ WF_pc(pc[t] \in {"parse", "add", "mask", "pack", "unconvert", "return"} /\ Moves(t))
    /\ WF_pc(pc[t] = "library" /\ ~Patient(t) /\ Moves(t))
    /\ SF_pc(pc[t] = "retake" /\ gil = Free /\ Moves(t))
    /\ SF_pc(pc[t] = "python" /\ left[t] # <<>> /\ gil = Free /\ Moves(t))

FairSpec == Spec /\ Fairness

-----------------------------------------------------------------------------
(* The address of a packet of a tensor with c channels.                    *)
Address(s, c, pad, pixel, g) ==
  LET row == s.w * s.z * 10 * GroupsOf(c)
  IN  (pixel \div (s.w * s.z)) * (IF pad THEN ((row + 3) \div 4) * 4 ELSE row)
        + ((pixel % (s.w * s.z)) * GroupsOf(c) + g) * 10

(* Number i of the caller's tensor as the packet at its address has it.    *)
SentRight(t, i, err) ==
  LET s == Cur(t).shape
      channel == (i - 1) % s.c
      k == channel % 8
      p == sent[t].data[Address(s, s.c, Pad(Cur(t)), (i - 1) \div s.c, channel \div 8)]
      man == Number(p, 9 * k, 8)
      exp == Number(p, 72, 8)
      w == asked[t][i]
  IN  \/ model.wrap /\ exp - Exponent(w) >= 31
      \/ /\ StandsFor(man, exp, w, err)
         /\ man > 0 => Number(p, 9 * k + 8, 1) = SignOf(w)

(* What the library gets for an array is that array, every number at its   *)
(* place and within a unit of the last place of its format, however often  *)
(* the array was sent before (push).  Whenever another call sent it at the *)
(* same time, its numbers may have moved by one unit more, and stay so.    *)
(* Excepted are arrays that another call receives into meanwhile; calls    *)
(* that could not read their flow's format and do not look; and, in a build*)
(* whose shifts wrap, numbers 2^31 times smaller than their group's        *)
(* largest.                                                                *)
SentIsArray ==
  \A t \in Threads :
    pc[t] = "retake" /\ Cur(t).op = "push" /\ status[t] = "ok" /\ meddled[t] # "written" /\ format[t] = Cur(t).fmt =>
      LET err == 2 * raced[Cur(t).array]
          n == Size(Cur(t).shape)
      IN CASE Cur(t).fmt \in Gbf -> \A i \in 1..n : SentRight(t, i, err)
           [] Cur(t).fmt = "bf16" ->
                \A i \in 1..n : Within(2 * sent[t].data[i], asked[t][i], 1 + err)
           [] OTHER -> \A i \in 1..n : Within(sent[t].data[i], asked[t][i], 1 + err)

(* The channels of the device's frame that are not dummies, in order.      *)
Real(c, k) ==
  LET real == (0..c.shape.c + Len(c.hpoc) - 1) \ {c.hpoc[i] : i \in DOMAIN c.hpoc}
  IN CHOOSE x \in real : Cardinality({y \in real : y < x}) = k

(* After a pull that succeeds the caller's array has the numbers the       *)
(* device sent, whichever decoder was built and whatever dummy channels    *)
(* the frame had, unless another call wrote the array meanwhile or sent it,*)
(* the format could not be read and nobody looked, or what lies behind the *)
(* indexes of the dummy channels looks like one.                           *)
PulledIsSent ==
  \A t \in Threads :
    pc[t] = "return" /\ Cur(t).op = "pull" /\ status[t] = "ok" /\ meddled[t] = "no" /\ format[t] = Cur(t).fmt =>
      LET c == Cur(t) IN
      CASE c.fmt \in Gbf ->
             \/ c.hpoc # <<>> /\ model.stray \in 0..c.shape.c + Len(c.hpoc) - 1
             \/ \A i \in 1..Size(c.shape) :
                  LET channel == Real(c, (i - 1) % c.shape.c)
                      g == model.groups[<<(i - 1) \div c.shape.c, channel \div 8>>]
                      k == channel % 8
                  IN IsNumber(Map(t)[i], g.sign[k], g.man[k], g.exp)
        [] c.fmt = "bf16" -> \A i \in 1..Size(c.shape) : Map(t)[i] = 2 * model.flat[i]
        [] OTHER -> Map(t) = model.flat

(* How many bytes of a buffer a call touches.  A packet is stored through  *)
(* a struct of three units of four bytes; it is loaded as ten bytes.       *)
Touched(c) == IF c.op = "push" THEN 12 ELSE 10
Bytes(c, data) ==
  IF c.fmt \in Gbf THEN Max({a + Touched(c) : a \in DOMAIN data})
  ELSE (IF c.fmt = "bf16" THEN 2 ELSE IF c.fmt = "float32" THEN 4 ELSE 1) * Len(data)

(* Rows of packets that need no padding leave nothing behind the last.     *)
Unpadded(c) == c.fmt = "gbfrow" /\ (c.shape.w * c.shape.z * GroupsOf(c.shape.c)) % 2 = 0

(* How many numbers unconverting writes to the caller's array.             *)
Written(c) ==
  IF c.fmt \in Gbf /\ c.hpoc # <<>>
  THEN Size(c.shape) - c.shape.c + Len(HpocWalk(c.hpoc, num_gbf_ch(c), model.stray))
  ELSE Size(c.shape)

(* Nothing is touched beyond what was allocated: formatted_data when it is *)
(* sent or received, the array of the caller's, of the flow's size, when it*)
(* is received into.  Excepted are pop, which allocates too little if there*)
(* is more than one channel, and push of unpadded rows, whose last packet's*)
(* last unit reaches two bytes behind formatted_data.                      *)
FitsBuffer ==
  \A t \in Threads : left[t] # <<>> /\ Inside(t) =>
    LET c == Cur(t) IN
    /\ buffer[t].data # <<>> =>
         \/ c.op = "pop" /\ (c.shape.c > 1 \/ c.fmt \in Converted)
         \/ Bytes(c, buffer[t].data) <= buffer[t].size + (IF c.op = "push" /\ Unpadded(c) THEN 2 ELSE 0)
    /\ pc[t] = "unconvert" /\ format[t] \in Converted => Written(c) <= Len(Map(t))

(* Every thread makes all its calls and returns from them, unless the      *)
(* process dies: a thread in the library keeps no other from running, the  *)
(* one that aborts it least of all.  Excepted are reads that wait without a*)
(* timeout and are not aborted.  A pull of bf16 is one whatever timeout it *)
(* was given, though memxmodule_doc.py:196-197 promises to heed it.        *)
CallsReturn == \A t \in Threads : left[t] # <<>> ~> left[t] = <<>> \/ Patient(t) \/ ~Alive
=============================================================================
