------------------------------ MODULE Virtio -------------------------------
(***************************************************************************)
(* The virtio drivers of the kernel: src/src/virtio.c, block.c, rng.c,     *)
(* gpu.c and input.c with the ring of src/util/src/ring.c, started by the  *)
(* enumeration of Pci.                                                     *)
(*                                                                         *)
(* Every driver call sends one or more commands the same way: it reads the *)
(* device's driver_idx, THEN takes the device's lock, fills the chain of   *)
(* descriptors that begins there, puts it into the driver ring, moves      *)
(* driver_idx by one, unlocks, notifies the device and looks at the status *)
(* or response that the device was to write.  A chain is two or three      *)
(* descriptors long and the next one begins one further on, so chains of   *)
(* commands that are under way together overwrite each other.              *)
(*                                                                         *)
(* The device serves one ring entry per step at any time after a           *)
(* notification.  The drivers' waiting loops do not wait: queue_interrupt  *)
(* reads 0 at the latest on the second try, because reading clears it.     *)
(* What keeps the system together is that the device is done by the time a *)
(* driver's debugf has been printed (README.md says so of the debugf       *)
(* calls): a driver looks at its status only when the device has nothing   *)
(* left to serve.                                                          *)
(***************************************************************************)
EXTENDS Pci, Functions, SequencesExt

CONSTANTS
  Harts,       \* the harts that call the drivers
  Boot,        \* the one that runs virtio_init and reads the input devices
  QSize,       \* queue_size of every device
  SectorSize,  \* SECTOR_SIZE, in the model's bytes
  NumSectors,  \* the size of the disk
  Ranges,      \* the byte ranges the block wrappers are called with
  RingBytes,   \* INPUT_RING_BUFFER_CAPACITY
  EventBytes,  \* the bytes of an input event, 8 in the code
  MaxCalls,    \* the bound on driver calls
  MaxEvents    \* the bound on input events

AlignedLen(a, n) == AlignUp((a % SectorSize) + n, SectorSize)

(* The wrappers allocate AlignUp(size) bytes and transfer AlignedLen: the  *)
(* ranges are those for which the two agree.                               *)
ASSUME VirtioAssumption ==
  /\ Boot \in Harts
  /\ QSize \in Nat \ {0, 1, 2}
  /\ SectorSize \in Nat \ {0} /\ NumSectors \in Nat
  /\ Ranges \subseteq [byte : Nat, size : Nat]
  /\ \A r \in Ranges : AlignedLen(r.byte, r.size) = AlignUp(r.size, SectorSize)
  /\ RingBytes \in Nat /\ EventBytes \in Nat \ {0} /\ RingBytes % EventBytes = 0

(* There is one disk and one GPU, as there is one g_bdev and one g_gdev,   *)
(* and the wrappers are asked for bytes that the disk has.                 *)
ASSUME DriverAssumption ==
  /\ "none" \notin Functions
  /\ \A d, e \in Functions :
       Topology[d].kind = Topology[e].kind /\ Topology[d].kind \in {"block", "gpu"} => d = e
  /\ \A r \in Ranges : r.size > 0 /\ r.byte + r.size <= NumSectors * SectorSize

Kind(d) == Topology[d].kind
Inputs == {d \in Functions : Kind(d) \in {"keyboard", "tablet"}}
Queued == {d \in Functions : Kind(d) \in {"block", "rng", "gpu"}}
Disk == 0 .. (NumSectors * SectorSize - 1)

VARIABLES
  ready,    \* the devices that virtio_device_init has finished with
  queue,    \* the queue of each device with commands
  pc,       \* where each hart is
  call,     \* the call that each hart runs, with its stack and buffer
  calls,    \* how many calls there were
  disk,     \* what is on the disk
  broken,   \* the devices that met a malformed request and stopped
  gpu,      \* the host side of the GPU, and the framebuffer's version
  input     \* the queue, the ring buffer and the history of each input device

devVars == <<ready, queue, pc, call, calls, disk, broken, gpu, input>>
vars == <<pciVars, devVars>>

(* A descriptor: the hart and the part of its call that addr points to.    *)
(* next is always the following one.                                       *)
NoDesc == [hart |-> Boot, part |-> "none", write |-> FALSE, more |-> FALSE]
NoEvent == <<0, "syn">>

EmptyQueue ==
  [desc |-> [i \in 0 .. (QSize - 1) |-> NoDesc], ring |-> [i \in 0 .. (QSize - 1) |-> 0],
   idx |-> 0, driver_idx |-> 0, device_idx |-> 0, used |-> 0, seen |-> 0,
   lock |-> FALSE, notified |-> FALSE]

(* ring_new_with_policy: room for RingBytes bytes, none of them used. *)
RingNew == << >>

EmptyInput ==
  [idx |-> 0, used |-> 0, device_idx |-> 0, buf |-> [i \in 0 .. (QSize - 1) |-> NoEvent],
   rb |-> RingNew, lock |-> FALSE, sent |-> << >>, got |-> << >>, lost |-> {}]

NoCall ==
  [fn |-> "none", dev |-> "none", cmds |-> << >>, byte |-> 0, size |-> 0, at |-> 0,
   val |-> 0, status |-> 0, buf |-> << >>, want |-> 0, alone |-> TRUE, result |-> FALSE]

Init ==
  /\ PciInit
  /\ ready = {}
  /\ queue = [d \in Queued |-> EmptyQueue]
  /\ input = [d \in Inputs |-> EmptyInput]
  /\ pc = [h \in Harts |-> "idle"]
  /\ call = [h \in Harts |-> NoCall]
  /\ calls = 0
  /\ disk = [b \in Disk |-> 0]
  /\ broken = {}
  /\ gpu = [steps |-> {}, fb |-> 0, resource |-> 0, screen |-> 0]

-----------------------------------------------------------------------------
(* virtio_init *)

Booted == PciDone /\ ready = Range(devices) /\ call[Boot].fn # "gpu_setup"

(* The chain of each command: the request, perhaps data, and what the      *)
(* device writes, those with VIRTQ_DESC_F_WRITE.                           *)
Part(part, write) == [part |-> part, write |-> write]
Request == Part("hdr", FALSE)
Answer == Part("status", TRUE)
BlockReadChain == <<Request, Part("data", TRUE), Answer>>
BlockWriteChain == <<Request, Part("data", FALSE), Answer>>
BlockFlushChain == <<Request, Answer>>
RngChain == <<Part("data", TRUE)>>
GpuSendChain == <<Request, Answer>>
GpuSend3Chain == <<Request, Part("entry", FALSE), Answer>>

Chain(op) ==
  CASE op = "in" -> BlockReadChain
    [] op = "out" -> BlockWriteChain
    [] op = "flush" -> BlockFlushChain
    [] op = "rng" -> RngChain
    [] op = "attach" -> GpuSend3Chain
    [] OTHER -> GpuSendChain

NoRange == [byte |-> 0, size |-> 0]

SetupCommands == <<"display", "create", "attach", "scanout", "transfer", "screen">>

Begin(h, f, d, cmds, r, buf, want) ==
  /\ pc' = [pc EXCEPT ![h] = "submit"]
  /\ call' = [k \in Harts |->
       IF k = h
       THEN [NoCall EXCEPT !.fn = f, !.dev = d, !.cmds = cmds, !.byte = r.byte,
                           !.size = r.size, !.val = calls + 1, !.buf = buf, !.want = want,
                           !.alone = \A j \in Harts \ {h} : call[j].dev # d]
       ELSE IF call[k].dev = d THEN [call[k] EXCEPT !.alone = FALSE] ELSE call[k]]

(* The drivers' own part: an input device gets all its buffers, the GPU is *)
(* set up by commands; block_init and rng_init only note the device.       *)
BlockInit(d) == Kind(d) = "block" /\ UNCHANGED <<input, pc, call>>

RngInit(d) == Kind(d) = "rng" /\ UNCHANGED <<input, pc, call>>

GpuInit(d) ==
  /\ Kind(d) = "gpu"
  /\ Begin(Boot, "gpu_setup", d, SetupCommands, NoRange, << >>, gpu.fb)
  /\ UNCHANGED input

InputInit(d) ==
  /\ d \in Inputs
  /\ input' = [input EXCEPT ![d].idx = QSize]
  /\ UNCHANGED <<pc, call>>

(* virtio_device_init leaves an empty queue and a status with DRIVER_OK.   *)
(* virtio_init takes the devices in their order and goes on when gpu_setup *)
(* has returned.                                                           *)
VirtioDeviceInit ==
  /\ PciDone
  /\ pc[Boot] = "idle"
  /\ \E i \in DOMAIN devices :
       LET d == devices[i]
       IN /\ Range(SubSeq(devices, 1, i - 1)) = ready
          /\ d \notin ready
          /\ ready' = ready \cup {d}
          /\ BlockInit(d) \/ RngInit(d) \/ GpuInit(d) \/ InputInit(d)
  /\ UNCHANGED <<pciVars, queue, calls, disk, broken, gpu>>

-----------------------------------------------------------------------------
(* One command of a driver call. *)

Op(h) == Head(call[h].cmds)
Dev(h) == call[h].dev

(* block_read, block_write, block_flush, rng_fill, gpu_send and gpu_send_3 *)
(* up to the lock: the device has DRIVER_OK (no call comes before the      *)
(* boot, so their early return never happens); clear the status and read   *)
(* driver_idx.                                                             *)
Submit(h) ==
  /\ pc[h] = "submit"
  /\ Dev(h) \in ready
  /\ pc' = [pc EXCEPT ![h] = "lock"]
  /\ call' = [call EXCEPT ![h].status = 7, ![h].at = queue[Dev(h)].driver_idx]
  /\ UNCHANGED <<pciVars, ready, queue, calls, disk, broken, gpu, input>>

Lock(h) ==
  /\ pc[h] = "lock"
  /\ ~queue[Dev(h)].lock
  /\ queue' = [queue EXCEPT ![Dev(h)].lock = TRUE]
  /\ pc' = [pc EXCEPT ![h] = "fill"]
  /\ UNCHANGED <<pciVars, ready, call, calls, disk, broken, gpu, input>>

Fill(h) ==
  /\ pc[h] = "fill"
  /\ LET c == Chain(Op(h))
         at == call[h].at
         pos(i) == (i + QSize - at) % QSize
     IN queue' = [queue EXCEPT ![Dev(h)].desc =
          [i \in 0 .. (QSize - 1) |->
             IF pos(i) < Len(c)
             THEN [hart |-> h, part |-> c[pos(i) + 1].part, write |-> c[pos(i) + 1].write,
                   more |-> pos(i) + 1 < Len(c)]
             ELSE @[i]]]
  /\ pc' = [pc EXCEPT ![h] = "publish"]
  /\ UNCHANGED <<pciVars, ready, call, calls, disk, broken, gpu, input>>

(* A mutant: the lock is kept. *)
PublishLocked(h) ==
  /\ pc[h] = "publish"
  /\ queue' = [queue EXCEPT
       ![Dev(h)].ring = [@ EXCEPT ![queue[Dev(h)].idx % QSize] = call[h].at],
       ![Dev(h)].idx = @ + 1,
       ![Dev(h)].driver_idx = (@ + 1) % QSize]
  /\ pc' = [pc EXCEPT ![h] = "notify"]
  /\ UNCHANGED <<pciVars, ready, call, calls, disk, broken, gpu, input>>

Publish(h) ==
  /\ pc[h] = "publish"
  /\ queue' = [queue EXCEPT
       ![Dev(h)].ring = [@ EXCEPT ![queue[Dev(h)].idx % QSize] = call[h].at],
       ![Dev(h)].idx = @ + 1,
       ![Dev(h)].driver_idx = (@ + 1) % QSize,
       ![Dev(h)].lock = FALSE]
  /\ pc' = [pc EXCEPT ![h] = "notify"]
  /\ UNCHANGED <<pciVars, ready, call, calls, disk, broken, gpu, input>>

(* virtio_notify and the write to the notify register. *)
Notify(h) ==
  /\ pc[h] = "notify"
  /\ queue' = [queue EXCEPT ![Dev(h)].notified = TRUE]
  /\ pc' = [pc EXCEPT ![h] = "wait"]
  /\ UNCHANGED <<pciVars, ready, call, calls, disk, broken, gpu, input>>

DeviceIdle(d) == queue[d].seen = queue[d].idx \/ d \in broken

(* The status is VIRTIO_BLK_S_OK, or the response the one expected.  An    *)
(* entropy request has no status: rng_fill returns true.                   *)
Succeeded(h) == Op(h) = "rng" \/ call[h].status = 0

(* A mutant: the bytes go to the start of the sector. *)
OverlayAtStart(h) ==
  [i \in DOMAIN call[h].buf |-> IF i \in 1 .. call[h].size THEN call[h].val ELSE call[h].buf[i]]

(* The wrappers: what was read is overlaid with the caller's bytes before  *)
(* it is written.                                                          *)
Overlay(h) ==
  [i \in DOMAIN call[h].buf |->
     IF i \in ((call[h].byte % SectorSize) + 1) .. ((call[h].byte % SectorSize) + call[h].size)
     THEN call[h].val ELSE call[h].buf[i]]

(* The end of the wait: catch up with the device ring (the GPU's driver    *)
(* under the lock), judge the command and go on with the next one.         *)
Wait(h) ==
  /\ pc[h] = "wait"
  /\ DeviceIdle(Dev(h))
  /\ Kind(Dev(h)) = "gpu" => ~queue[Dev(h)].lock
  /\ queue' = [queue EXCEPT ![Dev(h)].device_idx = queue[Dev(h)].used]
  /\ \/ /\ Succeeded(h) /\ Len(call[h].cmds) > 1
        /\ call' = [call EXCEPT
             ![h].cmds = Tail(@),
             ![h].buf = IF call[h].fn = "block_write_wrapper" THEN Overlay(h) ELSE @]
        /\ pc' = [pc EXCEPT ![h] = "submit"]
     \/ /\ ~Succeeded(h) \/ Len(call[h].cmds) = 1
        /\ call' = [call EXCEPT ![h].result = Succeeded(h)]
        /\ pc' = [pc EXCEPT ![h] = "done"]
  /\ UNCHANGED <<pciVars, ready, calls, disk, broken, gpu, input>>

Return(h) ==
  /\ pc[h] = "done"
  /\ pc' = [pc EXCEPT ![h] = "idle"]
  /\ call' = [call EXCEPT ![h] = NoCall]
  /\ UNCHANGED <<pciVars, ready, queue, calls, disk, broken, gpu, input>>

-----------------------------------------------------------------------------
(* The devices.  A chain runs from its head to the first descriptor        *)
(* without NEXT; the parts the device may write follow those it may read.  *)

ChainFrom(q, head) ==
  LET d(k) == q.desc[(head + k) % QSize]
      n == CHOOSE k \in 0 .. (QSize - 1) : ~d(k).more /\ \A j \in 0 .. (k - 1) : d(j).more
  IN [k \in 1 .. (n + 1) |-> d(k - 1)]

Outs(c) == {k \in DOMAIN c : ~c[k].write}
Ins(c) == {k \in DOMAIN c : c[k].write}
FirstOut(c) == c[Min(Outs(c))]
LastIn(c) == c[Max(Ins(c))]

Served(d) == [queue EXCEPT ![d].seen = @ + 1, ![d].used = @ + 1,
                           ![d].notified = queue[d].seen + 1 # queue[d].idx]

(* A mutant: the sector number is rounded up. *)
SectorAbove(h) == AlignUp(call[h].byte, SectorSize)

(* request.sector, as the byte that it begins at. *)
SectorOf(h) == (call[h].byte \div SectorSize) * SectorSize

(* The request header that the first readable part holds: that of a driver *)
(* or, if the part is somebody's data, anything.                           *)
Headers(x) ==
  IF x.part = "hdr" THEN {[op |-> Op(x.hart), start |-> SectorOf(x.hart)]}
  ELSE [op : {"in", "out", "flush", "other"},
        start : {s \in Disk : s % SectorSize = 0}]

(* A disk writes and reads whole sectors that it has. *)
BytesIn(ps) == {p.hart : p \in {q \in ps : q.part = "data"}}
Fits(ps, start) ==
  \A h \in BytesIn(ps) : start + Len(call[h].buf) - 1 \in Disk
WholeSectors(ps) == \A p \in ps : p.part = "data"

Reply(h, s, fill) ==
  call' = [k \in Harts |->
             [call[k] EXCEPT !.status = IF k = h THEN s ELSE @,
                             !.buf = IF k \in DOMAIN fill THEN fill[k] ELSE @]]

Nothing == [h \in {} |-> << >>]

BlockRequest(c, hdr) ==
  LET to == LastIn(c).hart
      room == {c[k] : k \in Ins(c) \ {Max(Ins(c))}}
      payload == {c[k] : k \in Outs(c) \ {Min(Outs(c))}}
  IN \/ /\ hdr.op = "in" /\ Fits(room, hdr.start)
        /\ Reply(to, 0, [h \in BytesIn(room) |->
             [i \in DOMAIN call[h].buf |-> disk[hdr.start + i - 1]]])
        /\ UNCHANGED disk
     \/ /\ hdr.op = "out" /\ FirstOut(c).part = "hdr"
        /\ WholeSectors(payload) /\ Fits(payload, hdr.start)
        /\ Reply(to, 0, Nothing)
        /\ disk' = [b \in Disk |->
             IF \E h \in BytesIn(payload) : b - hdr.start + 1 \in DOMAIN call[h].buf
             THEN call[CHOOSE h \in BytesIn(payload) : TRUE].buf[b - hdr.start + 1]
             ELSE disk[b]]
     \/ hdr.op = "flush" /\ Reply(to, 0, Nothing) /\ UNCHANGED disk
     \/ /\ \/ hdr.op = "in" /\ ~Fits(room, hdr.start)
           \/ /\ hdr.op = "out"
              /\ ~(FirstOut(c).part = "hdr" /\ WholeSectors(payload) /\ Fits(payload, hdr.start))
           \/ hdr.op = "other"
        /\ Reply(to, 1, Nothing)
        /\ UNCHANGED disk

Entry(d) == ChainFrom(queue[d], queue[d].ring[queue[d].seen % QSize])
Pending(d) == queue[d].notified /\ queue[d].seen # queue[d].idx /\ d \notin broken

ServeBlock(d) ==
  /\ Kind(d) = "block" /\ Pending(d)
  /\ LET c == Entry(d)
     IN \/ /\ Outs(c) = {} \/ Ins(c) = {}
           /\ broken' = broken \cup {d}
           /\ UNCHANGED <<queue, call, disk>>
        \/ /\ Outs(c) # {} /\ Ins(c) # {}
           /\ \E hdr \in Headers(FirstOut(c)) : BlockRequest(c, hdr)
           /\ queue' = Served(d)
           /\ UNCHANGED broken
  /\ UNCHANGED <<pciVars, ready, pc, calls, gpu, input>>

(* The entropy device fills any buffer that it may write. *)
ServeRng(d) ==
  /\ Kind(d) = "rng" /\ Pending(d)
  /\ queue' = Served(d)
  /\ UNCHANGED <<pciVars, ready, pc, call, calls, disk, broken, gpu, input>>

(* What a GPU command needs to have happened before. *)
Needs(op) == CASE op \in {"display", "create"} -> {}
               [] op = "transfer" -> {"create", "attach"}
               [] OTHER -> {"create"}

(* A command without a readable or a writable part gets no answer. *)
ServeGpu(d) ==
  /\ Kind(d) = "gpu" /\ Pending(d)
  /\ LET c == Entry(d)
     IN \/ (Outs(c) = {} \/ Ins(c) = {}) /\ UNCHANGED <<call, gpu>>
        \/ /\ Outs(c) # {} /\ Ins(c) # {}
           /\ LET op == Op(FirstOut(c).hart)
                  ok == Needs(op) \subseteq gpu.steps
              IN /\ Reply(LastIn(c).hart, IF ok THEN 0 ELSE 1, Nothing)
                 /\ gpu' = IF ~ok THEN gpu
                           ELSE [gpu EXCEPT !.steps = @ \cup {op},
                                  !.resource = IF op = "transfer" THEN gpu.fb ELSE @,
                                  !.screen = IF op = "screen" /\ "scanout" \in gpu.steps
                                             THEN gpu.resource ELSE @]
  /\ queue' = Served(d)
  /\ UNCHANGED <<pciVars, ready, pc, calls, disk, broken, input>>

-----------------------------------------------------------------------------
(* The calls of the drivers. *)

MayCall(h) == Booted /\ pc[h] = "idle" /\ calls < MaxCalls
Counted == /\ calls' = calls + 1
           /\ UNCHANGED <<pciVars, ready, queue, disk, broken, gpu, input>>

Zeros(r) == [i \in 1 .. AlignedLen(r.byte, r.size) |-> 0]
InRange(b, r) == b \in r.byte .. (r.byte + r.size - 1)

BlockReadWrapper(h, d, r) ==
  /\ MayCall(h) /\ Kind(d) = "block"
  /\ Begin(h, "block_read_wrapper", d, <<"in">>, r, Zeros(r), disk)
  /\ Counted

BlockWriteWrapper(h, d, r) ==
  /\ MayCall(h) /\ Kind(d) = "block"
  /\ Begin(h, "block_write_wrapper", d, <<"in", "out">>, r, Zeros(r),
           [b \in Disk |-> IF InRange(b, r) THEN calls + 1 ELSE disk[b]])
  /\ Counted

BlockFlush(h, d) ==
  /\ MayCall(h) /\ Kind(d) = "block"
  /\ Begin(h, "block_flush", d, <<"flush">>, NoRange, << >>, disk)
  /\ Counted

RngFill(h, d) ==
  /\ MayCall(h) /\ Kind(d) = "rng"
  /\ Begin(h, "rng_fill", d, <<"rng">>, NoRange, << >>, 0)
  /\ Counted

GpuRedraw(h, d) ==
  /\ MayCall(h) /\ Kind(d) = "gpu"
  /\ Begin(h, "gpu_redraw", d, <<"transfer", "screen">>, NoRange, << >>, gpu.fb)
  /\ Counted

(* A program draws into the framebuffer that syscall_get_gpu mapped. *)
Paint ==
  /\ Booted /\ gpu.fb < 1
  /\ gpu' = [gpu EXCEPT !.fb = @ + 1]
  /\ UNCHANGED <<pciVars, ready, queue, pc, call, calls, disk, broken, input>>

-----------------------------------------------------------------------------
(* Input devices: the device fills a buffer per event, a caller of         *)
(* get_keyboard or get_cursor moves the events into the ring buffer.       *)

Types(d) == IF Kind(d) = "keyboard" THEN {"syn", "key"} ELSE {"syn", "x", "y"}
NotSyn(e) == e[2] # "syn"

(* An event without a buffer to go to is dropped by the device. *)
DeviceEvent(d, t) ==
  /\ Booted
  /\ Len(input[d].sent) < MaxEvents
  /\ input[d].used < input[d].idx
  /\ LET e == <<Len(input[d].sent) + 1, t>>
     IN input' = [input EXCEPT ![d].buf = [@ EXCEPT ![input[d].used % QSize] = e],
                               ![d].used = @ + 1,
                               ![d].sent = Append(@, e)]
  /\ UNCHANGED <<pciVars, ready, queue, pc, call, calls, disk, broken, gpu>>

(* A mutant: the policy is RP_OVERWRITE. *)
RingPushOver(rb, byte) == Append(IF Len(rb) >= RingBytes THEN Tail(rb) ELSE rb, byte)

(* ring_push with RP_DISCARD, eight times. *)
RingPush(rb, byte) == IF Len(rb) >= RingBytes THEN rb ELSE Append(rb, byte)
PushEvent(rb, e) ==
  LET pushed[i \in 0 .. EventBytes] == IF i = 0 THEN rb ELSE RingPush(pushed[i - 1], <<e, i>>)
  IN pushed[EventBytes]

(* ring_pop, eight times; an empty ring gives no event. *)
PopBytes(rb) == SubSeq(rb, EventBytes + 1, Len(rb))
Popped(rb) == SubSeq(rb, 1, EventBytes)

GetInput(d) ==
  /\ MayCall(Boot)
  /\ pc' = [pc EXCEPT ![Boot] = "input_lock"]
  /\ call' = [call EXCEPT ![Boot] = [NoCall EXCEPT !.fn = "get_input", !.dev = d]]
  /\ Counted

InputLock(d) ==
  /\ pc[Boot] = "input_lock" /\ Dev(Boot) = d /\ ~input[d].lock
  /\ input' = [input EXCEPT ![d].lock = TRUE]
  /\ pc' = [pc EXCEPT ![Boot] = "handle"]
  /\ UNCHANGED <<pciVars, ready, queue, call, calls, disk, broken, gpu>>

(* input_handle: one turn of its loop.  Sync events are not kept. *)
HandleEvent(d) ==
  /\ pc[Boot] = "handle" /\ Dev(Boot) = d
  /\ input[d].device_idx # input[d].used
  /\ LET e == input[d].buf[input[d].device_idx % QSize]
         pushed == IF NotSyn(e) THEN PushEvent(input[d].rb, e) ELSE input[d].rb
     IN input' = [input EXCEPT ![d].device_idx = @ + 1, ![d].idx = @ + 1, ![d].rb = pushed,
                    ![d].lost = IF NotSyn(e) /\ pushed = input[d].rb THEN @ \cup {e} ELSE @]
  /\ UNCHANGED <<pciVars, ready, queue, pc, call, calls, disk, broken, gpu>>

InputUnlock(d) ==
  /\ pc[Boot] = "handle" /\ Dev(Boot) = d
  /\ input[d].device_idx = input[d].used
  /\ input' = [input EXCEPT ![d].lock = FALSE]
  /\ pc' = [pc EXCEPT ![Boot] = "pop"]
  /\ UNCHANGED <<pciVars, ready, queue, call, calls, disk, broken, gpu>>

(* get_keyboard pops one event; get_cursor pops until it has seen both     *)
(* coordinates or the ring is empty.                                       *)
HasBoth(es) == {"x", "y"} \subseteq {es[i][2] : i \in DOMAIN es}

PopEvent(d) ==
  /\ pc[Boot] = "pop" /\ Dev(Boot) = d
  /\ input[d].rb # << >>
  /\ Kind(d) = "tablet" => ~HasBoth(call[Boot].buf)
  /\ LET p == Popped(input[d].rb)
         e == IF \A i \in DOMAIN p : p[i] = <<p[1][1], i>> THEN p[1][1] ELSE NoEvent
     IN /\ input' = [input EXCEPT ![d].rb = PopBytes(@), ![d].got = Append(@, e)]
        /\ call' = [call EXCEPT ![Boot].buf = Append(@, e)]
  /\ pc' = [pc EXCEPT ![Boot] = IF Kind(d) = "keyboard" THEN "done" ELSE "pop"]
  /\ UNCHANGED <<pciVars, ready, queue, calls, disk, broken, gpu>>

PopNone(d) ==
  /\ pc[Boot] = "pop" /\ Dev(Boot) = d
  /\ input[d].rb = << >> \/ (Kind(d) = "tablet" /\ HasBoth(call[Boot].buf))
  /\ pc' = [pc EXCEPT ![Boot] = "done"]
  /\ UNCHANGED <<pciVars, ready, queue, call, calls, disk, broken, gpu, input>>

HartStep(h) == Submit(h) \/ Lock(h) \/ Fill(h) \/ Publish(h) \/ Notify(h) \/ Wait(h) \/ Return(h)
InputStep(d) == InputLock(d) \/ HandleEvent(d) \/ InputUnlock(d) \/ PopEvent(d) \/ PopNone(d)
DeviceStep(d) == ServeBlock(d) \/ ServeRng(d) \/ ServeGpu(d)

Next ==
  \/ PciSlot /\ UNCHANGED devVars
  \/ VirtioDeviceInit
  \/ \E h \in Harts : HartStep(h)
  \/ \E d \in Queued : DeviceStep(d)
  \/ \E h \in Harts, d \in Queued :
       \/ BlockFlush(h, d) \/ RngFill(h, d) \/ GpuRedraw(h, d)
       \/ \E r \in Ranges : BlockReadWrapper(h, d, r) \/ BlockWriteWrapper(h, d, r)
  \/ Paint
  \/ \E d \in Inputs : GetInput(d) \/ InputStep(d) \/ \E t \in Types(d) : DeviceEvent(d, t)

Fairness ==
  /\ WF_vars(PciSlot /\ UNCHANGED devVars)
  /\ WF_vars(VirtioDeviceInit)
  /\ \A h \in Harts : WF_vars(HartStep(h))
  /\ \A d \in Queued : WF_vars(DeviceStep(d))
  /\ \A d \in Inputs : WF_vars(InputStep(d))

Spec == Init /\ [][Next]_vars /\ Fairness

-----------------------------------------------------------------------------

(* setup_pci_device and setup_pci_bridge choose addresses without asking   *)
(* each other, from the bus and device number alone.  When pci_init hands  *)
(* over to virtio_init, which takes the BARs as they are, they are all     *)
(* apart and where the bridges forward them.                               *)
BarsReachable == PciDone /\ ready = {} => BarsFit

(* What a finished call was to do.  A read gives the bytes of its range as *)
(* they were when it began, a write changes exactly its range, a redraw    *)
(* shows at least what had been drawn when it began.                       *)
Effect(c) ==
  CASE c.fn = "block_read_wrapper" ->
         \A i \in 0 .. (c.size - 1) :
           c.buf[(c.byte % SectorSize) + 1 + i] = c.want[c.byte + i]
    [] c.fn = "block_write_wrapper" -> disk = c.want
    [] c.fn \in {"gpu_setup", "gpu_redraw"} -> gpu.screen >= c.want
    [] OTHER -> TRUE

(* block.c, gpu.c: calls on one device overwrite each other's descriptors  *)
(* when they overlap, and a call may then even report success without its  *)
(* command having been carried out.  Only then: a call that had its device *)
(* to itself succeeds and did what it says, whatever calls were lost       *)
(* before it (unless one of them made the device stop).                    *)
AloneMeansDone ==
  \A h \in Harts :
    pc[h] = "done" /\ call[h].alone /\ call[h].fn # "get_input" /\ Dev(h) \notin broken =>
      call[h].result /\ Effect(call[h])

(* The byte becomes what the hart, which is writing there, has for it. *)
WrittenBy(h, b) ==
  /\ call[h].fn = "block_write_wrapper" /\ Op(h) = "out"
  /\ LET i == b - (call[h].byte - (call[h].byte % SectorSize)) + 1
     IN i \in DOMAIN call[h].buf /\ disk'[b] = call[h].buf[i]

(* block.c: however the chains of overlapping calls get mixed up, a byte   *)
(* of the disk only changes to what a call that is writing just there has  *)
(* in its buffer.                                                          *)
OnlyWritersChangeTheDisk ==
  [][\A b \in Disk : disk'[b] # disk[b] => \E h \in Harts : WrittenBy(h, b)]_vars

(* input.c and ring.c: what get_keyboard and get_cursor returned, followed *)
(* by what the ring buffer holds, are the events handled so far, but for   *)
(* syncs and those that met a full ring: each once, whole and in the order *)
(* they came.  Those not yet handled are still in the buffers that the     *)
(* driver will look at.                                                    *)
EventsOnceInOrder ==
  \A d \in Inputs :
    LET i == input[d]
        n == Len(i.rb) \div EventBytes
        ring == [k \in 1 .. n |-> i.rb[(k - 1) * EventBytes + 1][1]]
        taken == i.got \o ring
        handled == {i.sent[k] : k \in 1 .. i.device_idx}
    IN /\ Len(i.rb) = n * EventBytes
       /\ Range(taken) = {e \in handled : NotSyn(e) /\ e \notin i.lost}
       /\ \A j, k \in DOMAIN taken : j < k => taken[j][1] < taken[k][1]
       /\ i.used = Len(i.sent)
       /\ \A k \in (i.device_idx + 1) .. i.used : i.buf[(k - 1) % QSize] = i.sent[k]

(* Every driver call returns: no lock is left behind on any path, and the  *)
(* device serves what it was notified of.                                  *)
CallsReturn == \A h \in Harts : pc[h] # "idle" ~> pc[h] = "idle"
=============================================================================
