---------------------------- MODULE VirtioProofs ----------------------------
(***************************************************************************)
(* Proofs about Virtio for every set of harts, every queue of three        *)
(* descriptors or more, every disk and every machine: however the chains   *)
(* of overlapping calls overwrite each other, the disk only changes to     *)
(* what a writer has in its buffer; and a call that does not overlap with  *)
(* another does what it says, whatever was left behind before it.          *)
(*                                                                         *)
(* The drivers do not keep their chains apart, so nothing can be said of   *)
(* who owns a descriptor.  What survives every mix-up is local: a          *)
(* descriptor of data to be written stands behind the header of the same   *)
(* hart, or behind the end of another chain; and the descriptors that the  *)
(* device can reach from what was published all belong to harts that still *)
(* wait for it.                                                            *)
(***************************************************************************)
EXTENDS Virtio, SequenceLemmas

Positions == 0 .. (QSize - 1)
After(i) == (i + 1) % QSize
Before(i) == (i + QSize - 1) % QSize

PartNames == {"none", "hdr", "data", "status", "entry"}

Desc == [hart : Harts, part : PartNames, write : BOOLEAN, more : BOOLEAN]

Queue ==
  [desc : [Positions -> Desc], ring : [Positions -> Positions], idx : Nat,
   driver_idx : Positions, device_idx : Nat, used : Nat, seen : Nat,
   lock : BOOLEAN, notified : BOOLEAN]

CallFields == {"fn", "dev", "cmds", "byte", "size", "at", "val", "status", "buf", "want",
               "alone", "result"}

Busy == {"submit", "lock", "fill", "publish", "notify", "wait"}
Labels == Busy \cup {"idle", "done", "input_lock", "handle", "pop"}

TypeOK ==
  /\ devices \in Seq(Functions)
  /\ queue \in [Queued -> Queue]
  /\ \A d \in Queued : queue[d].seen <= queue[d].idx
  /\ pc \in [Harts -> Labels]
  /\ DOMAIN call = Harts
  /\ \A h \in Harts : /\ DOMAIN call[h] = CallFields
                      /\ call[h].byte \in Nat
                      /\ call[h].at \in Positions

(* A hart in the middle of a command has a device with a queue; and only   *)
(* block_write_wrapper sends a disk an "out".                              *)
Commands(h) ==
  \/ call[h].cmds \in {<<"in">>, <<"flush">>}
  \/ /\ call[h].fn = "block_write_wrapper"
     /\ call[h].cmds \in {<<"in", "out">>, <<"out">>}

CallInv ==
  \A h \in Harts : pc[h] \in Busy =>
    /\ Dev(h) \in Queued
    /\ Kind(Dev(h)) = "block" => Commands(h)

(* The lock of a device excludes. *)
Inside(h) == pc[h] \in {"fill", "publish"}

LockInv ==
  \A h \in Harts : Inside(h) =>
    /\ queue[Dev(h)].lock
    /\ \A g \in Harts : Inside(g) /\ Dev(g) = Dev(h) => g = h

(* S is a set of descriptors that chains do not lead out of, each of which *)
(* points into a call of a hart of W.                                      *)
Closed(desc, S, W) ==
  /\ S \subseteq Positions
  /\ \A i \in S : desc[i].hart \in W /\ (desc[i].more => After(i) \in S)

(* A hart about to publish has its own chain in the queue. *)
PublishInv ==
  \A h \in Harts : pc[h] = "publish" =>
    \E S \in SUBSET Positions : Closed(queue[Dev(h)].desc, S, {h}) /\ call[h].at \in S

(* All that the device will find belongs to harts that wait for it. *)
Waiting(h) == pc[h] \in {"publish", "notify", "wait"}
Waiters(d) == {h \in Harts : Waiting(h) /\ Dev(h) = d}

LiveInv ==
  \A d \in Queued \ broken :
    \E S \in SUBSET Positions :
      /\ Closed(queue[d].desc, S, Waiters(d))
      /\ \A p \in queue[d].seen .. (queue[d].idx - 1) : queue[d].ring[p % QSize] \in S

(* What a device is to read as data stands behind its own header, or       *)
(* behind the end of another chain.                                        *)
DataBehindHeader(desc) ==
  \A i \in Positions : desc[i].part = "data" /\ ~desc[i].write =>
    \/ ~desc[Before(i)].more
    \/ /\ desc[Before(i)].part = "hdr" /\ ~desc[Before(i)].write
       /\ desc[Before(i)].hart = desc[i].hart

(* And every chain ends. *)
DescInv ==
  \A d \in Queued :
    /\ \E i \in Positions : ~queue[d].desc[i].more
    /\ DataBehindHeader(queue[d].desc)

IInv == TypeOK /\ CallInv /\ LockInv /\ PublishInv /\ LiveInv /\ DescInv
-----------------------------------------------------------------------------
(* Arithmetic on the positions of a queue. *)
LEMMA ModBelow == ASSUME NEW q \in Nat \ {0}, NEW x \in 0 .. (q - 1) PROVE x % q = x
  OBVIOUS

(* One turn of the ring. *)
LEMMA ModWrap == ASSUME NEW q \in Nat \ {0}, NEW x \in q .. (2 * q - 1) PROVE x % q = x - q
  OBVIOUS

(* A whole turn leads back. *)
LEMMA ModRound == ASSUME NEW q \in Nat \ {0}, NEW x \in 0 .. (q - 1) PROVE (x + q) % q = x
<1>1. PICK y \in q .. (2 * q - 1) : y = x + q
  OBVIOUS
<1>2. y % q = y - q
  BY ModWrap
<1>3. QED
  BY <1>1, <1>2

(* A remainder is a position. *)
LEMMA ModType == ASSUME NEW q \in Nat \ {0}, NEW x \in Nat PROVE x % q \in 0 .. (q - 1)
  OBVIOUS

(* The queue holds any chain, of one to three descriptors. *)
LEMMA QueueSize == QSize \in Nat /\ QSize >= 3
  BY VirtioAssumption

(* The positions next to one, and how far one is behind another. *)
LEMMA Neighbours ==
  ASSUME NEW i \in Positions
  PROVE  /\ After(i) = IF i + 1 < QSize THEN i + 1 ELSE 0
         /\ Before(i) = IF i > 0 THEN i - 1 ELSE QSize - 1
         /\ After(i) \in Positions /\ Before(i) \in Positions
<1>1. QSize \in Nat \ {0} /\ i \in 0 .. (QSize - 1) /\ QSize >= 3
  BY QueueSize DEF Positions
<1>2. i + 1 < QSize => (i + 1) % QSize = i + 1
  BY <1>1, ModBelow
<1>3. ~(i + 1 < QSize) => (i + 1) % QSize = 0
  BY <1>1, ModWrap
<1>4. i > 0 => (i + QSize - 1) % QSize = i - 1
  BY <1>1, ModWrap
<1>5. ~(i > 0) => (i + QSize - 1) % QSize = QSize - 1
  BY <1>1, ModBelow
<1>6. QED
  BY <1>1, <1>2, <1>3, <1>4, <1>5 DEF After, Before, Positions

Offset(at, i) == (i + QSize - at) % QSize

(* The distance of i behind at, without the remainder. *)
LEMMA Offsets ==
  ASSUME NEW at \in Positions, NEW i \in Positions
  PROVE  /\ Offset(at, i) = IF i >= at THEN i - at ELSE i + QSize - at
         /\ Offset(at, i) \in Positions
<1>1. QSize \in Nat \ {0} /\ i \in 0 .. (QSize - 1) /\ at \in 0 .. (QSize - 1)
  BY QueueSize DEF Positions
<1>2. i >= at => (i + QSize - at) % QSize = i - at
  <2>1. ASSUME i >= at PROVE i + QSize - at \in QSize .. (2 * QSize - 1)
    BY <1>1, <2>1
  <2>2. ASSUME NEW x \in QSize .. (2 * QSize - 1) PROVE x % QSize = x - QSize
    BY <1>1, ModWrap
  <2>3. QED
    BY <1>1, <2>1, <2>2
<1>3. ~(i >= at) => (i + QSize - at) % QSize = i + QSize - at
  BY <1>1, ModBelow
<1>4. QED
  BY <1>1, <1>2, <1>3 DEF Offset, Positions

(* The distance grows by one with the position, round the ring. *)
LEMMA OffsetSteps ==
  ASSUME NEW at \in Positions, NEW i \in Positions
  PROVE  /\ Offset(at, After(i)) = IF Offset(at, i) + 1 < QSize THEN Offset(at, i) + 1 ELSE 0
         /\ Offset(at, Before(i)) = IF Offset(at, i) > 0 THEN Offset(at, i) - 1 ELSE QSize - 1
<1>1. QSize \in Nat /\ QSize >= 3 /\ i \in 0 .. (QSize - 1) /\ at \in 0 .. (QSize - 1)
  BY QueueSize DEF Positions
<1>2. /\ After(i) = IF i + 1 < QSize THEN i + 1 ELSE 0
      /\ Before(i) = IF i > 0 THEN i - 1 ELSE QSize - 1
      /\ After(i) \in Positions /\ Before(i) \in Positions
  BY Neighbours
<1>3. Offset(at, i) = IF i >= at THEN i - at ELSE i + QSize - at
  BY Offsets
<1>4. Offset(at, After(i)) = IF After(i) >= at THEN After(i) - at ELSE After(i) + QSize - at
  BY <1>2, Offsets
<1>5. Offset(at, Before(i)) = IF Before(i) >= at THEN Before(i) - at ELSE Before(i) + QSize - at
  BY <1>2, Offsets
<1>6. QED
  BY <1>1, <1>2, <1>3, <1>4, <1>5

(* Every distance is that of some position. *)
LEMMA OffsetOnto ==
  ASSUME NEW at \in Positions, NEW n \in Positions
  PROVE  \E i \in Positions : Offset(at, i) = n
<1>1. QSize \in Nat /\ n \in 0 .. (QSize - 1) /\ at \in 0 .. (QSize - 1)
  BY QueueSize DEF Positions
<1> DEFINE i == IF at + n < QSize THEN at + n ELSE at + n - QSize
<1>2. i \in Positions /\ n = IF i >= at THEN i - at ELSE i + QSize - at
  BY <1>1 DEF Positions
<1> HIDE DEF i
<1>3. QED
  BY <1>2, Offsets

-----------------------------------------------------------------------------
(* The chains that the drivers build: one to three descriptors, and data   *)
(* that the device reads comes behind a header.                            *)
ChainPart == [part : PartNames, write : BOOLEAN]

PartsOK(c, len) ==
  \A n \in 1 .. len :
    /\ c[n] \in ChainPart
    /\ c[n].part = "data" /\ ~c[n].write =>
         n > 1 /\ c[n - 1].part = "hdr" /\ ~c[n - 1].write

(* All the chains of block.c, rng.c and gpu.c are of this form. *)
LEMMA ChainsOK ==
  ASSUME NEW op PROVE \E len \in 1 .. 3 : Len(Chain(op)) = len /\ PartsOK(Chain(op), len)
<1> DEFINE OK(c) == \E len \in 1 .. 3 : Len(c) = len /\ PartsOK(c, len)
<1>1. /\ Request \in ChainPart /\ Request.part = "hdr" /\ Request.write = FALSE
      /\ Answer \in ChainPart /\ Answer.part = "status" /\ Answer.write = TRUE
  BY DEF Request, Answer, Part, ChainPart, PartNames
<1>2. \A w \in BOOLEAN : \A p \in {"data", "entry"} :
        Part(p, w) \in ChainPart /\ Part(p, w).part = p /\ Part(p, w).write = w
  BY DEF Part, ChainPart, PartNames
<1>3. ASSUME NEW x \in ChainPart PROVE OK(<<Request, x, Answer>>)
  <2>1. ASSUME NEW c, c[1] = Request, c[2] = x, c[3] = Answer PROVE PartsOK(c, 3)
    BY <1>1, <2>1 DEF PartsOK
  <2>2. QED
    BY <2>1
<1>4. OK(<<Request, Answer>>)
  <2>1. ASSUME NEW c, c[1] = Request, c[2] = Answer PROVE PartsOK(c, 2)
    BY <1>1, <2>1 DEF PartsOK
  <2>2. QED
    BY <2>1
<1>5. ASSUME NEW x \in ChainPart, x.write = TRUE PROVE OK(<<x>>)
  <2>1. ASSUME NEW c, c[1] = x PROVE PartsOK(c, 1)
    BY <1>5, <2>1 DEF PartsOK
  <2>2. QED
    BY <2>1
<1> HIDE DEF OK
<1>6. OK(BlockReadChain) /\ OK(BlockWriteChain) /\ OK(GpuSend3Chain)
  BY <1>2, <1>3 DEF BlockReadChain, BlockWriteChain, GpuSend3Chain
<1>7. OK(BlockFlushChain) /\ OK(GpuSendChain)
  BY <1>4 DEF BlockFlushChain, GpuSendChain
<1>8. OK(RngChain)
  BY <1>2, <1>5 DEF RngChain
<1>9. OK(Chain(op))
  BY <1>6, <1>7, <1>8 DEF Chain
<1>10. QED
  BY <1>9 DEF OK

(* What filling in a chain of that length does to the descriptors. *)
Filled(desc, h, c, len, at) ==
  [i \in Positions |->
     IF Offset(at, i) < len
     THEN [hart |-> h, part |-> c[Offset(at, i) + 1].part,
           write |-> c[Offset(at, i) + 1].write, more |-> Offset(at, i) + 1 < len]
     ELSE desc[i]]

(* A chain filled in keeps what DescInv says, and the descriptors it       *)
(* takes are closed: each leads to the next of the same hart.              *)
LEMMA FillProperties ==
  ASSUME NEW desc \in [Positions -> Desc], NEW h \in Harts, NEW c, NEW len \in 1 .. 3,
         PartsOK(c, len), NEW at \in Positions
  PROVE  LET new == Filled(desc, h, c, len, at)
         IN /\ new \in [Positions -> Desc]
            /\ \E i \in Positions : ~new[i].more
            /\ DataBehindHeader(desc) => DataBehindHeader(new)
            /\ \E R \in SUBSET Positions :
                 /\ at \in R
                 /\ Closed(new, R, {h})
                 /\ \A S \in SUBSET Positions, W \in SUBSET Harts :
                      Closed(desc, S, W) => Closed(new, S \cup R, W \cup {h})
<1> DEFINE new == Filled(desc, h, c, len, at)
           o(i) == Offset(at, i)
           R == {i \in Positions : o(i) < len}
<1>0. /\ QSize \in Nat /\ QSize >= 3
      /\ \A i \in Positions : o(i) \in 0 .. (QSize - 1)
  BY QueueSize, Offsets DEF Positions
<1>1. \A i \in R : /\ o(i) \in 0 .. (len - 1)
                   /\ new[i] = [hart |-> h, part |-> c[o(i) + 1].part,
                                write |-> c[o(i) + 1].write, more |-> o(i) + 1 < len]
                   /\ new[i].hart = h /\ new[i].part = c[o(i) + 1].part
                   /\ new[i].write = c[o(i) + 1].write /\ new[i].more = (o(i) + 1 < len)
  BY <1>0 DEF Filled
<1>2. \A i \in Positions \ R : new[i] = desc[i]
  BY DEF Filled
<1>3. \A i \in R : /\ c[o(i) + 1] \in ChainPart
                   /\ c[o(i) + 1].part = "data" /\ ~c[o(i) + 1].write =>
                        o(i) > 0 /\ c[o(i)].part = "hdr" /\ ~c[o(i)].write
  <2> SUFFICES ASSUME NEW i \in R
               PROVE  /\ c[o(i) + 1] \in ChainPart
                      /\ c[o(i) + 1].part = "data" /\ ~c[o(i) + 1].write =>
                           o(i) > 0 /\ c[o(i)].part = "hdr" /\ ~c[o(i)].write
    OBVIOUS
  <2>1. PICK n \in 1 .. len : n = o(i) + 1
    BY <1>0, <1>1
  <2>2. o(i) = n - 1 /\ (n > 1 => o(i) > 0)
    BY <1>0, <1>1, <2>1
  <2> HIDE DEF o
  <2>3. QED
    BY <2>1, <2>2 DEF PartsOK
<1>4. new \in [Positions -> Desc]
  <2>1. ASSUME NEW i \in R PROVE new[i] \in Desc
    <3>1. PICK x \in ChainPart : x = c[o(i) + 1]
      BY <1>3
    <3>2. x.part \in PartNames /\ x.write \in BOOLEAN
      BY DEF ChainPart
    <3>3. PICK m \in BOOLEAN : m = (o(i) + 1 < len)
      <4>1. (o(i) + 1 < len) \in BOOLEAN
        OBVIOUS
      <4>2. QED
        BY <4>1, Zenon
    <3>4. new[i] = [hart |-> h, part |-> x.part, write |-> x.write, more |-> m]
      BY <1>1, <3>1, <3>3
    <3>5. QED
      BY <3>2, <3>4 DEF Desc
  <2>2. new = [i \in Positions |-> new[i]]
    BY DEF Filled
  <2> HIDE DEF new
  <2>3. QED
    BY <1>2, <2>1, <2>2
<1> HIDE DEF new
<1>5. \E i \in Positions : ~new[i].more
  <2>1. len - 1 \in Positions
    BY <1>0 DEF Positions
  <2>2. PICK i \in Positions : o(i) = len - 1
    BY <2>1, OffsetOnto
  <2>3. i \in R /\ ~(o(i) + 1 < len)
    BY <1>0, <2>2
  <2> HIDE DEF R, o
  <2>4. QED
    BY <1>1, <2>3
<1>6. at \in R
  <2>1. Offset(at, at) = 0
    BY Offsets, QueueSize DEF Positions
  <2>2. QED
    BY <1>0, <2>1
<1>7. ASSUME NEW i \in R, new[i].more PROVE After(i) \in R
  <2>1. o(i) + 1 < len
    BY <1>1, <1>7
  <2>2. After(i) \in Positions /\ o(After(i)) = IF o(i) + 1 < QSize THEN o(i) + 1 ELSE 0
    BY Neighbours, OffsetSteps
  <2> HIDE DEF o
  <2>3. QED
    BY <1>0, <2>1, <2>2
<1>8. Closed(new, R, {h})
  BY <1>1, <1>7 DEF Closed
<1>9. ASSUME NEW S \in SUBSET Positions, NEW W \in SUBSET Harts, Closed(desc, S, W)
      PROVE  Closed(new, S \cup R, W \cup {h})
  <2>1. ASSUME NEW i \in S \cup R
        PROVE  new[i].hart \in W \cup {h} /\ (new[i].more => After(i) \in S \cup R)
    <3>1. CASE i \in R
      BY <1>1, <1>7, <3>1
    <3>2. CASE i \notin R
      BY <1>2, <1>9, <3>2 DEF Closed
    <3>3. QED
      BY <3>1, <3>2
  <2>2. QED
    BY <2>1 DEF Closed
<1>10. ASSUME DataBehindHeader(desc) PROVE DataBehindHeader(new)
  <2> SUFFICES ASSUME NEW i \in Positions, new[i].part = "data", ~new[i].write
               PROVE  \/ ~new[Before(i)].more
                      \/ /\ new[Before(i)].part = "hdr" /\ ~new[Before(i)].write
                         /\ new[Before(i)].hart = new[i].hart
    BY DEF DataBehindHeader
  <2>1. /\ Before(i) \in Positions
        /\ o(Before(i)) = IF o(i) > 0 THEN o(i) - 1 ELSE QSize - 1
        /\ o(i) \in 0 .. (QSize - 1)
    BY <1>0, Neighbours, OffsetSteps
  <2> HIDE DEF o
  <2>2. CASE i \in R
    <3>1. c[o(i) + 1].part = "data" /\ ~c[o(i) + 1].write
      BY <1>1, <2>2
    <3>2. o(i) > 0 /\ c[o(i)].part = "hdr" /\ ~c[o(i)].write
      BY <1>3, <2>2, <3>1
    <3>3. Before(i) \in R /\ o(Before(i)) + 1 = o(i)
      BY <1>0, <1>1, <2>1, <2>2, <3>2
    <3>4. QED
      BY <1>1, <2>2, <3>2, <3>3
  <2>3. CASE i \notin R /\ Before(i) \in R
    <3>1. ~(o(Before(i)) + 1 < len)
      BY <1>0, <2>1, <2>3
    <3>2. QED
      BY <1>1, <2>3, <3>1
  <2>4. CASE i \notin R /\ Before(i) \notin R
    BY <1>2, <1>10, <2>1, <2>4 DEF DataBehindHeader
  <2>5. QED
    BY <2>2, <2>3, <2>4
<1>11. QED
  BY <1>4, <1>5, <1>6, <1>8, <1>9, <1>10 DEF new

-----------------------------------------------------------------------------
(* What the invariant says of a call does not depend on its status, its    *)
(* buffer or its history.                                                  *)
SameCall(k) ==
  /\ call'[k].fn = call[k].fn /\ call'[k].dev = call[k].dev
  /\ call'[k].cmds = call[k].cmds /\ call'[k].at = call[k].at

(* Steps that change neither descriptors nor ring.  Waiters stay, but for  *)
(* those of a device that has nothing left to serve.                       *)
LEMMA QueueFrame ==
  ASSUME IInv, TypeOK',
         \A d \in Queued :
           /\ queue'[d].desc = queue[d].desc /\ queue'[d].ring = queue[d].ring
           /\ queue'[d].idx = queue[d].idx /\ queue'[d].seen >= queue[d].seen,
         broken \subseteq broken',
         \A k \in Harts :
           /\ pc'[k] \in Busy =>
                /\ call'[k].dev \in Queued
                /\ Kind(call'[k].dev) = "block" => Commands(k)'
           /\ pc'[k] = "publish" => pc[k] = "publish" /\ SameCall(k)
           /\ Waiting(k) => \/ Waiting(k)' /\ call'[k].dev = call[k].dev
                            \/ queue'[Dev(k)].seen = queue'[Dev(k)].idx
                            \/ Dev(k) \in broken'
  PROVE  CallInv' /\ PublishInv' /\ LiveInv' /\ DescInv'
<1>1. CallInv'
  BY DEF CallInv, Dev
<1>2. PublishInv'
  <2> SUFFICES ASSUME NEW h \in Harts, pc'[h] = "publish"
               PROVE  \E S \in SUBSET Positions :
                        Closed(queue'[call'[h].dev].desc, S, {h}) /\ call'[h].at \in S
    BY DEF PublishInv, Dev, Closed
  <2>1. pc[h] = "publish" /\ SameCall(h) /\ pc'[h] \in Busy
    BY DEF Busy
  <2>2. PICK S \in SUBSET Positions : Closed(queue[Dev(h)].desc, S, {h}) /\ call[h].at \in S
    BY <2>1 DEF IInv, PublishInv
  <2>3. queue'[call'[h].dev].desc = queue[Dev(h)].desc
    BY <2>1 DEF SameCall, Dev
  <2>4. QED
    BY <2>1, <2>2, <2>3 DEF SameCall
<1>3. LiveInv'
  <2> SUFFICES ASSUME NEW d \in Queued, d \notin broken'
               PROVE  \E S \in SUBSET Positions :
                        /\ Closed(queue'[d].desc, S, Waiters(d)')
                        /\ \A p \in queue'[d].seen .. (queue'[d].idx - 1) :
                             queue'[d].ring[p % QSize] \in S
    BY DEF LiveInv, Closed
  <2>0. /\ queue[d].seen \in Nat /\ queue[d].idx \in Nat
        /\ queue'[d].seen \in Nat /\ queue'[d].idx \in Nat
    BY DEF IInv, TypeOK, Queue
  <2>1. CASE queue'[d].seen = queue'[d].idx
    <3>1. Closed(queue'[d].desc, {}, Waiters(d)')
      BY DEF Closed
    <3>2. queue'[d].seen .. (queue'[d].idx - 1) = {}
      BY <2>0, <2>1
    <3>3. QED
      BY <3>1, <3>2
  <2>2. CASE queue'[d].seen # queue'[d].idx
    <3>1. Waiters(d) \subseteq Waiters(d)'
      BY <2>2 DEF Waiters, Waiting, Dev
    <3>2. PICK S \in SUBSET Positions :
            /\ Closed(queue[d].desc, S, Waiters(d))
            /\ \A p \in queue[d].seen .. (queue[d].idx - 1) : queue[d].ring[p % QSize] \in S
      BY DEF IInv, LiveInv
    <3>3. Closed(queue'[d].desc, S, Waiters(d)')
      BY <3>1, <3>2 DEF Closed
    <3>4. \A p \in queue'[d].seen .. (queue'[d].idx - 1) : p \in queue[d].seen .. (queue[d].idx - 1)
      BY <2>0
    <3>5. QED
      BY <3>2, <3>3, <3>4
  <2>3. QED
    BY <2>1, <2>2
<1>4. DescInv'
  BY DEF IInv, DescInv, DataBehindHeader
<1>5. QED
  BY <1>1, <1>2, <1>3, <1>4

(* Steps that do not enter the lock either. *)
LEMMA Frame ==
  ASSUME IInv, TypeOK',
         \A d \in Queued :
           /\ queue'[d].desc = queue[d].desc /\ queue'[d].ring = queue[d].ring
           /\ queue'[d].idx = queue[d].idx /\ queue'[d].seen >= queue[d].seen
           /\ queue'[d].lock = queue[d].lock,
         broken \subseteq broken',
         \A k \in Harts :
           /\ pc'[k] \in Busy =>
                /\ call'[k].dev \in Queued
                /\ Kind(call'[k].dev) = "block" => Commands(k)'
           /\ Inside(k)' => pc'[k] = pc[k] /\ SameCall(k)
           /\ Waiting(k) => \/ Waiting(k)' /\ call'[k].dev = call[k].dev
                            \/ queue'[Dev(k)].seen = queue'[Dev(k)].idx
                            \/ Dev(k) \in broken'
  PROVE  IInv'
<1>1. CallInv' /\ PublishInv' /\ LiveInv' /\ DescInv'
  <2>1. \A k \in Harts : pc'[k] = "publish" => pc[k] = "publish" /\ SameCall(k)
    BY DEF Inside
  <2>2. QED
    BY <2>1, QueueFrame
<1>2. LockInv'
  <2> SUFFICES ASSUME NEW h \in Harts, Inside(h)'
               PROVE  /\ queue'[call'[h].dev].lock
                      /\ \A g \in Harts : Inside(g)' /\ call'[g].dev = call'[h].dev => g = h
    BY DEF LockInv, Dev
  <2>1. Inside(h) /\ pc'[h] \in Busy /\ SameCall(h)
    BY DEF Inside, Busy
  <2>2. \A g \in Harts : Inside(g)' => Inside(g) /\ SameCall(g)
    BY DEF Inside
  <2>3. QED
    BY <2>1, <2>2 DEF IInv, LockInv, SameCall, Dev
<1>3. QED
  BY <1>1, <1>2 DEF IInv

(* Before a device is found every queue is empty and every hart idle. *)
LEMMA InitIInv == Init => IInv
<1> SUFFICES ASSUME Init PROVE IInv
  OBVIOUS
<1>0. QSize \in Nat /\ QSize >= 3 /\ 0 \in Positions /\ Boot \in Harts
  BY QueueSize, VirtioAssumption DEF Positions
<1>1. devices \in Seq(Functions)
  BY DEF Init, PciInit
<1>2. NoDesc \in Desc /\ NoDesc.part = "none" /\ NoDesc.more = FALSE
  BY <1>0 DEF NoDesc, Desc, PartNames
<1>3. EmptyQueue \in Queue
  BY <1>0, <1>2 DEF EmptyQueue, Queue, Positions
<1>4. \A i \in Positions : EmptyQueue.desc[i] = NoDesc
  BY DEF EmptyQueue, Positions
<1>5. EmptyQueue.seen = EmptyQueue.idx /\ EmptyQueue.seen = 0
  BY DEF EmptyQueue
<1>6. queue = [d \in Queued |-> EmptyQueue]
  BY DEF Init
<1>7. /\ pc \in [Harts -> Labels]
      /\ \A h \in Harts : pc[h] = "idle" /\ ~Inside(h) /\ pc[h] \notin Busy
  BY DEF Init, Labels, Busy, Inside
<1>8. /\ DOMAIN call = Harts
      /\ \A h \in Harts : call[h] = NoCall
  BY DEF Init
<1>9. DOMAIN NoCall = CallFields /\ NoCall.byte \in Nat /\ NoCall.at \in Positions
  BY <1>0 DEF NoCall, CallFields
<1>10. TypeOK
  <2>1. ASSUME NEW d \in Queued PROVE queue[d].seen <= queue[d].idx
    <3>1. queue[d].seen = 0 /\ queue[d].idx = 0
      BY <1>5, <1>6
    <3>2. QED
      BY <3>1
  <2>2. QED
    BY <1>1, <1>3, <1>6, <1>7, <1>8, <1>9, <2>1 DEF TypeOK
<1>11. CallInv /\ LockInv /\ PublishInv
  BY <1>7 DEF CallInv, LockInv, PublishInv, Busy
<1>12. LiveInv
  <2>1. \A d \in Queued : Closed(queue[d].desc, {}, Waiters(d))
    BY DEF Closed
  <2>2. ASSUME NEW d \in Queued PROVE queue[d].seen .. (queue[d].idx - 1) = {}
    <3>1. queue[d].seen = 0 /\ queue[d].idx = 0
      BY <1>5, <1>6
    <3>2. 0 .. (0 - 1) = {}
      OBVIOUS
    <3>3. QED
      BY <3>1, <3>2
  <2>3. QED
    BY <2>1, <2>2 DEF LiveInv
<1>13. DescInv
  BY <1>0, <1>2, <1>4, <1>6 DEF DescInv, DataBehindHeader
<1>14. QED
  BY <1>10, <1>11, <1>12, <1>13 DEF IInv

(* Steps that touch neither queues nor harts. *)
LEMMA Quiet ==
  ASSUME IInv, UNCHANGED <<queue, pc, call, broken>>,
         devices' \in Seq(Functions)
  PROVE  IInv'
<1>1. TypeOK'
  BY DEF IInv, TypeOK
<1>2. \A d \in Queued : queue[d].seen \in Nat
  BY DEF IInv, TypeOK, Queue
<1>3. \A d \in Queued : queue'[d].seen >= queue[d].seen
  BY <1>2
<1>4. \A k \in Harts :
           /\ pc'[k] \in Busy =>
                /\ call'[k].dev \in Queued
                /\ Kind(call'[k].dev) = "block" => Commands(k)'
           /\ Inside(k)' => pc'[k] = pc[k] /\ SameCall(k)
           /\ Waiting(k) => Waiting(k)' /\ call'[k].dev = call[k].dev
  BY DEF IInv, CallInv, Dev, Commands, SameCall, Waiting
<1>5. QED
  BY <1>1, <1>3, <1>4, Frame

(* A step of one hart outside the lock that leaves the queues alone and    *)
(* after which the hart does not wait.                                     *)
LEMMA QuietHart ==
  ASSUME IInv, NEW h \in Harts, NEW to \in Labels \ {"fill", "publish", "notify", "wait"},
         UNCHANGED <<devices, queue, broken>>, ~Waiting(h),
         pc' = [pc EXCEPT ![h] = to],
         DOMAIN call' = Harts, DOMAIN call'[h] = CallFields,
         call'[h].byte \in Nat, call'[h].at \in Positions,
         \A k \in Harts \ {h} :
           DOMAIN call'[k] = CallFields /\ call'[k].byte = call[k].byte /\ SameCall(k),
         to \in Busy => /\ call'[h].dev \in Queued
                        /\ Kind(call'[h].dev) = "block" => Commands(h)'
  PROVE  IInv'
<1>1. TypeOK'
  BY DEF IInv, TypeOK, SameCall
<1>2. \A d \in Queued : queue[d].seen \in Nat
  BY DEF IInv, TypeOK, Queue
<1>3. \A d \in Queued : queue'[d].seen >= queue[d].seen
  BY <1>2
<1>4. pc'[h] = to /\ \A k \in Harts \ {h} : pc'[k] = pc[k]
  BY DEF IInv, TypeOK
<1>5. ASSUME NEW k \in Harts
      PROVE  /\ pc'[k] \in Busy =>
                  /\ call'[k].dev \in Queued
                  /\ Kind(call'[k].dev) = "block" => Commands(k)'
             /\ Inside(k)' => pc'[k] = pc[k] /\ SameCall(k)
             /\ Waiting(k) => Waiting(k)' /\ call'[k].dev = call[k].dev
  <2>1. CASE k = h
    BY <1>4, <2>1 DEF Inside
  <2>2. CASE k # h
    <3>1. pc'[k] = pc[k] /\ SameCall(k)
      BY <1>4, <2>2
    <3>2. QED
      BY <3>1 DEF IInv, CallInv, Dev, Commands, SameCall, Waiting
  <2>3. QED
    BY <2>1, <2>2
<1>6. QED
  BY <1>1, <1>3, <1>5, Frame

-----------------------------------------------------------------------------
(* The beginning of a call, and of gpu_setup. *)
LEMMA BeginIInv ==
  ASSUME IInv, NEW h \in Harts, NEW f, NEW d \in Queued, NEW cmds, NEW r, NEW buf, NEW want,
         r.byte \in Nat, pc[h] = "idle", Begin(h, f, d, cmds, r, buf, want),
         UNCHANGED <<devices, queue, broken>>,
         Kind(d) = "block" =>
           \/ cmds \in {<<"in">>, <<"flush">>}
           \/ f = "block_write_wrapper" /\ cmds \in {<<"in", "out">>, <<"out">>}
  PROVE  IInv'
<1>1. 0 \in Positions
  BY QueueSize DEF Positions
<1>2. DOMAIN call' = Harts /\ pc' = [pc EXCEPT ![h] = "submit"]
  BY DEF Begin
<1>3. /\ DOMAIN call'[h] = CallFields
      /\ call'[h].fn = f /\ call'[h].dev = d /\ call'[h].cmds = cmds
      /\ call'[h].byte = r.byte /\ call'[h].at = 0
  BY DEF Begin, NoCall, CallFields
<1>4. ASSUME NEW k \in Harts \ {h}
      PROVE  DOMAIN call'[k] = CallFields /\ call'[k].byte = call[k].byte /\ SameCall(k)
  <2>1. DOMAIN call[k] = CallFields
    BY DEF IInv, TypeOK
  <2>2. call'[k] = call[k] \/ call'[k] = [call[k] EXCEPT !.alone = FALSE]
    BY DEF Begin
  <2>3. QED
    BY <2>1, <2>2 DEF SameCall, CallFields
<1>5. ~Waiting(h)
  BY DEF Waiting
<1>6. Kind(d) = "block" => Commands(h)'
  BY <1>3 DEF Commands
<1>7. "submit" \in Labels \ {"fill", "publish", "notify", "wait"}
  BY DEF Labels, Busy
<1>8. QED
  BY <1>1, <1>2, <1>3, <1>4, <1>5, <1>6, <1>7, QuietHart

(* A call that begins: what its hart is to send is as CallInv says. *)
LEMMA CallsIInv ==
  ASSUME IInv, NEW h \in Harts, NEW d \in Queued,
         \/ BlockFlush(h, d) \/ RngFill(h, d) \/ GpuRedraw(h, d)
         \/ \E r \in Ranges : BlockReadWrapper(h, d, r) \/ BlockWriteWrapper(h, d, r)
  PROVE  IInv'
<1>0. NoRange.byte \in Nat /\ \A r \in Ranges : r.byte \in Nat
  BY VirtioAssumption DEF NoRange
<1>1. CASE BlockFlush(h, d)
  <2>1. /\ Begin(h, "block_flush", d, <<"flush">>, NoRange, << >>, disk)
        /\ pc[h] = "idle" /\ UNCHANGED <<devices, queue, broken>>
    BY <1>1 DEF BlockFlush, MayCall, Counted, pciVars
  <2>2. QED
    BY <1>0, <2>1, BeginIInv
<1>2. CASE RngFill(h, d)
  <2>1. /\ Begin(h, "rng_fill", d, <<"rng">>, NoRange, << >>, 0)
        /\ pc[h] = "idle" /\ UNCHANGED <<devices, queue, broken>> /\ Kind(d) # "block"
    BY <1>2 DEF RngFill, MayCall, Counted, pciVars
  <2>2. QED
    BY <1>0, <2>1, BeginIInv
<1>3. CASE GpuRedraw(h, d)
  <2>1. /\ Begin(h, "gpu_redraw", d, <<"transfer", "screen">>, NoRange, << >>, gpu.fb)
        /\ pc[h] = "idle" /\ UNCHANGED <<devices, queue, broken>> /\ Kind(d) # "block"
    BY <1>3 DEF GpuRedraw, MayCall, Counted, pciVars
  <2>2. QED
    BY <1>0, <2>1, BeginIInv
<1>4. ASSUME NEW r \in Ranges, BlockReadWrapper(h, d, r) PROVE IInv'
  <2>1. /\ Begin(h, "block_read_wrapper", d, <<"in">>, r, Zeros(r), disk)
        /\ pc[h] = "idle" /\ UNCHANGED <<devices, queue, broken>>
    BY <1>4 DEF BlockReadWrapper, MayCall, Counted, pciVars
  <2>2. QED
    BY <1>0, <2>1, BeginIInv
<1>5. ASSUME NEW r \in Ranges, BlockWriteWrapper(h, d, r) PROVE IInv'
  <2>1. PICK want : Begin(h, "block_write_wrapper", d, <<"in", "out">>, r, Zeros(r), want)
    BY <1>5 DEF BlockWriteWrapper
  <2>2. pc[h] = "idle" /\ UNCHANGED <<devices, queue, broken>>
    BY <1>5 DEF BlockWriteWrapper, MayCall, Counted, pciVars
  <2>3. QED
    BY <1>0, <2>1, <2>2, BeginIInv
<1>6. QED
  BY <1>1, <1>2, <1>3, <1>4, <1>5

(* virtio_device_init gives the device its queue. *)
LEMMA DeviceInitIInv == ASSUME IInv, VirtioDeviceInit PROVE IInv'
<1>1. PICK i \in DOMAIN devices :
        LET d == devices[i] IN BlockInit(d) \/ RngInit(d) \/ GpuInit(d) \/ InputInit(d)
  BY DEF VirtioDeviceInit
<1> DEFINE d == devices[i]
<1>2. d \in Functions /\ UNCHANGED <<devices, queue, broken>> /\ pc[Boot] = "idle"
  BY DEF IInv, TypeOK, VirtioDeviceInit, pciVars
<1> HIDE DEF d
<1>3. CASE BlockInit(d) \/ RngInit(d) \/ InputInit(d)
  <2>1. UNCHANGED <<queue, pc, call, broken>>
    BY <1>2, <1>3 DEF BlockInit, RngInit, InputInit
  <2>2. devices' \in Seq(Functions)
    BY <1>2 DEF IInv, TypeOK
  <2>3. QED
    BY <2>1, <2>2, Quiet
<1>4. CASE GpuInit(d)
  <2>1. /\ Begin(Boot, "gpu_setup", d, SetupCommands, NoRange, << >>, gpu.fb)
        /\ Kind(d) = "gpu"
    BY <1>4 DEF GpuInit
  <2>2. d \in Queued /\ Boot \in Harts /\ NoRange.byte \in Nat
    BY <1>2, <2>1, VirtioAssumption DEF Queued, NoRange
  <2>3. QED
    BY <1>2, <2>1, <2>2, BeginIInv
<1>5. QED
  BY <1>1, <1>3, <1>4 DEF d

(* The enumeration leaves the queues and the calls alone. *)
LEMMA PciIInv == ASSUME IInv, PciSlot, UNCHANGED devVars PROVE IInv'
<1>1. devices' \in Seq(Functions)
  <2>1. CASE UNCHANGED devices
    BY <2>1 DEF IInv, TypeOK
  <2>2. ASSUME NEW f \in Present, devices' = Append(devices, f)
        PROVE  devices' \in Seq(Functions)
    BY <2>2 DEF IInv, TypeOK, Present
  <2>3. QED
    BY <2>1, <2>2 DEF PciSlot
<1>2. QED
  BY <1>1, Quiet DEF devVars

-----------------------------------------------------------------------------
(* Reading the input devices. *)
LEMMA InputIInv ==
  ASSUME IInv, NEW d \in Inputs, GetInput(d) \/ InputStep(d) PROVE IInv'
<1>0. /\ Boot \in Harts /\ DOMAIN call = Harts /\ 0 \in Positions
      /\ {"input_lock", "handle", "pop", "done"} \subseteq
           (Labels \ {"fill", "publish", "notify", "wait"}) \ Busy
      /\ \A h \in Harts : /\ DOMAIN call[h] = CallFields
                          /\ call[h].byte \in Nat /\ call[h].at \in Positions
  BY VirtioAssumption, QueueSize DEF IInv, TypeOK, Labels, Busy, Positions
<1>1. CASE GetInput(d)
  <2>1. /\ pc' = [pc EXCEPT ![Boot] = "input_lock"] /\ pc[Boot] = "idle"
        /\ call' = [call EXCEPT ![Boot] = [NoCall EXCEPT !.fn = "get_input", !.dev = d]]
        /\ UNCHANGED <<devices, queue, broken>>
    BY <1>1 DEF GetInput, MayCall, Counted, pciVars
  <2>2. /\ DOMAIN call' = Harts /\ DOMAIN call'[Boot] = CallFields
        /\ call'[Boot].byte \in Nat /\ call'[Boot].at \in Positions
    BY <1>0, <2>1 DEF NoCall, CallFields
  <2>3. \A k \in Harts \ {Boot} : call'[k] = call[k]
    BY <1>0, <2>1
  <2>4. ~Waiting(Boot)
    BY <2>1 DEF Waiting
  <2>5. QED
    BY <1>0, <2>1, <2>2, <2>3, <2>4, QuietHart DEF SameCall
<1>2. CASE HandleEvent(d)
  <2>1. UNCHANGED <<devices, queue, pc, call, broken>>
    BY <1>2 DEF HandleEvent, pciVars
  <2>2. QED
    BY <2>1, Quiet DEF IInv, TypeOK
<1>3. CASE InputLock(d) \/ InputUnlock(d) \/ PopNone(d)
  <2>1. PICK to \in {"handle", "pop", "done"} : pc' = [pc EXCEPT ![Boot] = to]
    BY <1>3 DEF InputLock, InputUnlock, PopNone
  <2>2. UNCHANGED <<devices, queue, call, broken>>
    BY <1>3 DEF InputLock, InputUnlock, PopNone, pciVars
  <2>3. ~Waiting(Boot)
    BY <1>3 DEF InputLock, InputUnlock, PopNone, Waiting
  <2>4. QED
    BY <1>0, <2>1, <2>2, <2>3, QuietHart DEF SameCall
<1>4. CASE PopEvent(d)
  <2>1. PICK to \in {"pop", "done"} : pc' = [pc EXCEPT ![Boot] = to]
    BY <1>4 DEF PopEvent
  <2>2. UNCHANGED <<devices, queue, broken>> /\ ~Waiting(Boot)
    BY <1>4 DEF PopEvent, pciVars, Waiting
  <2>3. PICK b : call' = [call EXCEPT ![Boot] = [call[Boot] EXCEPT !.buf = b]]
    BY <1>4 DEF PopEvent
  <2>4. /\ DOMAIN call' = Harts /\ DOMAIN call'[Boot] = CallFields
        /\ call'[Boot].byte = call[Boot].byte /\ call'[Boot].at = call[Boot].at
    BY <1>0, <2>3 DEF CallFields
  <2>5. \A k \in Harts \ {Boot} : call'[k] = call[k]
    BY <1>0, <2>3
  <2>6. QED
    BY <1>0, <2>1, <2>2, <2>4, <2>5, QuietHart DEF SameCall
<1>5. QED
  BY <1>1, <1>2, <1>3, <1>4 DEF InputStep

-----------------------------------------------------------------------------
(* The steps of a command outside the lock. *)
LEMMA SubmitIInv == ASSUME IInv, NEW h \in Harts, Submit(h) PROVE IInv'
<1>0. /\ DOMAIN call = Harts /\ pc[h] = "submit" /\ Dev(h) \in Queued
      /\ \A k \in Harts : /\ DOMAIN call[k] = CallFields
                          /\ call[k].byte \in Nat /\ call[k].at \in Positions
  BY DEF IInv, TypeOK, CallInv, Busy, Submit
<1>1. queue[Dev(h)].driver_idx \in Positions
  BY <1>0 DEF IInv, TypeOK, Queue
<1>2. /\ call' = [call EXCEPT ![h] = [[call[h] EXCEPT !.status = 7]
                                        EXCEPT !.at = queue[Dev(h)].driver_idx]]
      /\ pc' = [pc EXCEPT ![h] = "lock"] /\ UNCHANGED <<devices, queue, broken>>
  BY <1>0 DEF Submit, pciVars
<1>3. /\ DOMAIN call' = Harts /\ DOMAIN call'[h] = CallFields
      /\ call'[h].byte = call[h].byte /\ call'[h].at \in Positions
      /\ call'[h].dev = call[h].dev /\ call'[h].fn = call[h].fn /\ call'[h].cmds = call[h].cmds
  BY <1>0, <1>1, <1>2 DEF CallFields
<1>4. \A k \in Harts \ {h} : call'[k] = call[k]
  BY <1>0, <1>2
<1>5. Kind(call[h].dev) = "block" => Commands(h)'
  BY <1>0, <1>3 DEF IInv, CallInv, Commands, Busy, Dev
<1>6. ~Waiting(h) /\ "lock" \in Labels \ {"fill", "publish", "notify", "wait"}
  BY <1>0 DEF Waiting, Labels, Busy
<1>7. QED
  BY <1>0, <1>2, <1>3, <1>4, <1>5, <1>6, QuietHart DEF SameCall, Dev

(* A call that returns. *)
LEMMA ReturnIInv == ASSUME IInv, NEW h \in Harts, Return(h) PROVE IInv'
<1>0. /\ DOMAIN call = Harts /\ pc[h] = "done" /\ 0 \in Positions
      /\ \A k \in Harts : DOMAIN call[k] = CallFields
  BY QueueSize DEF IInv, TypeOK, Return, Positions
<1>1. /\ call' = [call EXCEPT ![h] = NoCall]
      /\ pc' = [pc EXCEPT ![h] = "idle"] /\ UNCHANGED <<devices, queue, broken>>
  BY DEF Return, pciVars
<1>2. /\ DOMAIN call' = Harts /\ DOMAIN call'[h] = CallFields
      /\ call'[h].byte \in Nat /\ call'[h].at \in Positions
  BY <1>0, <1>1 DEF NoCall, CallFields
<1>3. \A k \in Harts \ {h} : call'[k] = call[k]
  BY <1>0, <1>1
<1>4. /\ ~Waiting(h) /\ "idle" \in Labels \ {"fill", "publish", "notify", "wait"}
      /\ "idle" \notin Busy
  BY <1>0 DEF Waiting, Labels, Busy
<1>5. QED
  BY <1>0, <1>1, <1>2, <1>3, <1>4, QuietHart DEF SameCall

(* Telling the device changes nothing that it will find. *)
LEMMA NotifyIInv == ASSUME IInv, NEW h \in Harts, Notify(h) PROVE IInv'
<1>0. pc[h] = "notify" /\ Dev(h) \in Queued /\ UNCHANGED <<devices, call, broken>>
  BY DEF IInv, CallInv, Busy, Notify, pciVars
<1>1. /\ queue' = [queue EXCEPT ![Dev(h)] = [queue[Dev(h)] EXCEPT !.notified = TRUE]]
      /\ pc' = [pc EXCEPT ![h] = "wait"]
  BY <1>0 DEF Notify
<1>2. \A d \in Queued : queue[d] \in Queue
  BY DEF IInv, TypeOK
<1>3. /\ queue' \in [Queued -> Queue]
      /\ \A d \in Queued :
           /\ queue'[d].desc = queue[d].desc /\ queue'[d].ring = queue[d].ring
           /\ queue'[d].idx = queue[d].idx /\ queue'[d].seen = queue[d].seen
           /\ queue'[d].lock = queue[d].lock /\ queue[d].seen \in Nat
  BY <1>0, <1>1, <1>2 DEF IInv, TypeOK, Queue
<1>4. /\ pc' \in [Harts -> Labels] /\ pc'[h] = "wait"
      /\ \A k \in Harts \ {h} : pc'[k] = pc[k]
  BY <1>1 DEF IInv, TypeOK, Labels, Busy
<1>5. TypeOK'
  BY <1>0, <1>3, <1>4 DEF IInv, TypeOK
<1>6. ASSUME NEW k \in Harts
      PROVE  /\ pc'[k] \in Busy =>
                  /\ call'[k].dev \in Queued
                  /\ Kind(call'[k].dev) = "block" => Commands(k)'
             /\ Inside(k)' => pc'[k] = pc[k] /\ SameCall(k)
             /\ Waiting(k) => Waiting(k)' /\ call'[k].dev = call[k].dev
  BY <1>0, <1>4 DEF IInv, CallInv, Commands, SameCall, Inside, Waiting, Dev, Busy
<1>7. \A d \in Queued : queue'[d].seen >= queue[d].seen
  BY <1>3
<1>8. QED
  BY <1>0, <1>3, <1>5, <1>6, <1>7, Frame

(* The commands of a call that has more of them. *)
LEMMA NextCommand ==
  ASSUME NEW h \in Harts, Commands(h), Len(call[h].cmds) > 1
  PROVE  call[h].fn = "block_write_wrapper" /\ Tail(call[h].cmds) = <<"out">>
<1>1. ~(Len(<<"in">>) > 1) /\ ~(Len(<<"flush">>) > 1) /\ ~(Len(<<"out">>) > 1)
  OBVIOUS
<1>2. Tail(<<"in", "out">>) = <<"out">>
  OBVIOUS
<1>3. call[h].fn = "block_write_wrapper" /\ call[h].cmds = <<"in", "out">>
  BY <1>1, Zenon DEF Commands
<1>4. QED
  BY <1>2, <1>3

(* A hart stops waiting for its command: the device has caught up with     *)
(* all that was published, so nothing live belongs to the hart.            *)
LEMMA WaitIInv == ASSUME IInv, NEW h \in Harts, Wait(h) PROVE IInv'
<1>0. /\ pc[h] = "wait" /\ Dev(h) \in Queued /\ UNCHANGED <<devices, broken>>
      /\ DOMAIN call = Harts
      /\ \A k \in Harts : /\ DOMAIN call[k] = CallFields
                          /\ call[k].byte \in Nat /\ call[k].at \in Positions
  BY DEF IInv, TypeOK, CallInv, Busy, Wait, pciVars
<1>1. queue' = [queue EXCEPT ![Dev(h)] = [queue[Dev(h)] EXCEPT !.device_idx = queue[Dev(h)].used]]
  BY <1>0 DEF Wait
<1>2. \A d \in Queued : queue[d] \in Queue
  BY DEF IInv, TypeOK
<1>3. /\ queue' \in [Queued -> Queue]
      /\ \A d \in Queued :
           /\ queue'[d].desc = queue[d].desc /\ queue'[d].ring = queue[d].ring
           /\ queue'[d].idx = queue[d].idx /\ queue'[d].seen = queue[d].seen
           /\ queue'[d].lock = queue[d].lock /\ queue[d].seen \in Nat
  BY <1>0, <1>1, <1>2 DEF IInv, TypeOK, Queue
<1>4. PICK to \in {"submit", "done"} :
        /\ pc' = [pc EXCEPT ![h] = to]
        /\ to = "submit" => Len(call[h].cmds) > 1
        /\ \E c, b, r :
             /\ call' = [call EXCEPT ![h] =
                           [[[call[h] EXCEPT !.cmds = c] EXCEPT !.buf = b] EXCEPT !.result = r]]
             /\ to = "submit" => c = Tail(call[h].cmds)
  <2>1. CASE /\ Len(call[h].cmds) > 1 /\ pc' = [pc EXCEPT ![h] = "submit"]
             /\ \E b : call' = [call EXCEPT ![h] =
                         [[call[h] EXCEPT !.cmds = Tail(call[h].cmds)] EXCEPT !.buf = b]]
    <3>1. PICK b : call' = [call EXCEPT ![h] =
                         [[call[h] EXCEPT !.cmds = Tail(call[h].cmds)] EXCEPT !.buf = b]]
      BY <2>1
    <3>2. call' = [call EXCEPT ![h] = [[[call[h] EXCEPT !.cmds = Tail(call[h].cmds)]
                     EXCEPT !.buf = b] EXCEPT !.result = call[h].result]]
      BY <1>0, <3>1 DEF CallFields
    <3>3. QED
      BY <2>1, <3>2
  <2>2. CASE /\ pc' = [pc EXCEPT ![h] = "done"]
             /\ \E r : call' = [call EXCEPT ![h] = [call[h] EXCEPT !.result = r]]
    <3>1. PICK r : call' = [call EXCEPT ![h] = [call[h] EXCEPT !.result = r]]
      BY <2>2
    <3>2. call' = [call EXCEPT ![h] = [[[call[h] EXCEPT !.cmds = call[h].cmds]
                     EXCEPT !.buf = call[h].buf] EXCEPT !.result = r]]
      BY <1>0, <3>1 DEF CallFields
    <3>3. QED
      BY <2>2, <3>2
  <2>3. QED
    BY <1>0, <2>1, <2>2 DEF Wait
<1>5. PICK c, b, r :
        /\ call' = [call EXCEPT ![h] =
                      [[[call[h] EXCEPT !.cmds = c] EXCEPT !.buf = b] EXCEPT !.result = r]]
        /\ to = "submit" => c = Tail(call[h].cmds)
  BY <1>4
<1>6. /\ DOMAIN call' = Harts /\ DOMAIN call'[h] = CallFields
      /\ call'[h].byte = call[h].byte /\ call'[h].at = call[h].at
      /\ call'[h].dev = call[h].dev /\ call'[h].fn = call[h].fn /\ call'[h].cmds = c
  BY <1>0, <1>5 DEF CallFields
<1>7. \A k \in Harts \ {h} : call'[k] = call[k]
  BY <1>0, <1>5
<1>8. /\ pc' \in [Harts -> Labels] /\ pc'[h] = to
      /\ \A k \in Harts \ {h} : pc'[k] = pc[k]
  BY <1>4 DEF IInv, TypeOK, Labels, Busy
<1>9. TypeOK'
  BY <1>0, <1>3, <1>6, <1>7, <1>8 DEF IInv, TypeOK
<1>10. to = "submit" /\ Kind(Dev(h)) = "block" => Commands(h)'
  <2>1. Kind(Dev(h)) = "block" => Commands(h)
    BY <1>0 DEF IInv, CallInv, Busy
  <2>2. QED
    BY <1>4, <1>5, <1>6, <2>1, NextCommand DEF Commands
<1>11. queue'[Dev(h)].seen = queue'[Dev(h)].idx \/ Dev(h) \in broken'
  BY <1>0, <1>3 DEF Wait, DeviceIdle
<1>12. ASSUME NEW k \in Harts
       PROVE  /\ pc'[k] \in Busy =>
                   /\ call'[k].dev \in Queued
                   /\ Kind(call'[k].dev) = "block" => Commands(k)'
              /\ Inside(k)' => pc'[k] = pc[k] /\ SameCall(k)
              /\ Waiting(k) => \/ Waiting(k)' /\ call'[k].dev = call[k].dev
                               \/ queue'[Dev(k)].seen = queue'[Dev(k)].idx
                               \/ Dev(k) \in broken'
  <2>1. CASE k = h
    BY <1>0, <1>6, <1>8, <1>10, <1>11, <2>1 DEF Inside, Busy, Dev
  <2>2. CASE k # h
    <3>1. pc'[k] = pc[k] /\ call'[k] = call[k]
      BY <1>7, <1>8, <2>2
    <3>2. QED
      BY <3>1 DEF IInv, CallInv, Dev, Commands, SameCall, Waiting
  <2>3. QED
    BY <2>1, <2>2
<1>13. \A d \in Queued : queue'[d].seen >= queue[d].seen
  BY <1>3
<1>14. QED
  BY <1>0, <1>3, <1>9, <1>12, <1>13, Frame

-----------------------------------------------------------------------------
(* The devices change no call's command and let nobody in. *)
LEMMA ServeFrame ==
  ASSUME IInv, NEW d \in Queued, queue[d].seen # queue[d].idx,
         queue' = Served(d) \/ queue' = queue,
         broken \subseteq broken', UNCHANGED <<devices, pc>>, DOMAIN call' = Harts,
         \A k \in Harts : /\ DOMAIN call'[k] = CallFields
                          /\ call'[k].byte = call[k].byte /\ SameCall(k)
  PROVE  IInv'
<1>1. \A e \in Queued : queue[e] \in Queue
  BY DEF IInv, TypeOK
<1>2. /\ queue' \in [Queued -> Queue]
      /\ \A e \in Queued :
           /\ queue'[e].desc = queue[e].desc /\ queue'[e].ring = queue[e].ring
           /\ queue'[e].idx = queue[e].idx /\ queue'[e].seen >= queue[e].seen
           /\ queue'[e].lock = queue[e].lock
           /\ queue'[e].seen <= queue'[e].idx
  <2>1. CASE queue' = queue
    <3>1. \A e \in Queued : queue[e].seen \in Nat
      BY <1>1 DEF Queue
    <3>2. QED
      BY <2>1, <3>1 DEF IInv, TypeOK
  <2>2. CASE queue' = Served(d)
    <3>1. PICK b \in BOOLEAN : b = (queue[d].seen + 1 # queue[d].idx)
      OBVIOUS
    <3>2. queue' = [queue EXCEPT ![d] = [[[queue[d] EXCEPT !.seen = queue[d].seen + 1]
                      EXCEPT !.used = queue[d].used + 1] EXCEPT !.notified = b]]
      BY <2>2, <3>1, <1>1 DEF Served, IInv, TypeOK, Queue
    <3>3. /\ queue[d].seen \in Nat /\ queue[d].used \in Nat
          /\ queue[d].seen + 1 \in Nat /\ queue[d].used + 1 \in Nat
      BY <1>1 DEF Queue
    <3>4. /\ queue'[d] \in Queue
          /\ queue'[d].desc = queue[d].desc /\ queue'[d].ring = queue[d].ring
          /\ queue'[d].idx = queue[d].idx /\ queue'[d].seen = queue[d].seen + 1
          /\ queue'[d].lock = queue[d].lock
      <4>1. queue'[d] = [[[queue[d] EXCEPT !.seen = queue[d].seen + 1]
                      EXCEPT !.used = queue[d].used + 1] EXCEPT !.notified = b]
        BY <3>2 DEF IInv, TypeOK
      <4>2. PICK q \in Queue, s \in Nat, u \in Nat :
              q = queue[d] /\ s = queue[d].seen + 1 /\ u = queue[d].used + 1
        BY <1>1, <3>3
      <4>3. queue'[d] = [[[q EXCEPT !.seen = s] EXCEPT !.used = u] EXCEPT !.notified = b]
        BY <4>1, <4>2
      <4>4. /\ queue'[d] \in Queue
            /\ queue'[d].desc = q.desc /\ queue'[d].ring = q.ring /\ queue'[d].idx = q.idx
            /\ queue'[d].seen = s /\ queue'[d].lock = q.lock
        BY <4>3 DEF Queue
      <4>5. QED
        BY <4>2, <4>4
    <3>5. \A e \in Queued \ {d} : queue'[e] = queue[e]
      BY <3>2 DEF IInv, TypeOK
    <3>6. \A e \in Queued : queue[e].seen \in Nat
      BY <1>1 DEF Queue
    <3>7. queue' \in [Queued -> Queue]
      BY <1>1, <3>2, <3>4, <3>5 DEF IInv, TypeOK
    <3>8. \A e \in Queued : queue'[e].seen >= queue[e].seen
      BY <3>3, <3>4, <3>5, <3>6
    <3>9. \A e \in Queued : queue'[e].seen <= queue'[e].idx
      <4>1. queue[d].seen <= queue[d].idx /\ queue[d].idx \in Nat
        BY <1>1 DEF IInv, TypeOK, Queue
      <4>2. queue[d].seen + 1 <= queue[d].idx
        BY <3>3, <4>1
      <4>3. \A e \in Queued \ {d} : queue[e].seen <= queue[e].idx
        BY DEF IInv, TypeOK
      <4>4. QED
        BY <3>4, <3>5, <4>2, <4>3
    <3>10. QED
      BY <3>4, <3>5, <3>7, <3>8, <3>9
  <2>3. QED
    BY <2>1, <2>2
<1>3. TypeOK'
  BY <1>2 DEF IInv, TypeOK, SameCall
<1>4. ASSUME NEW k \in Harts
      PROVE  /\ pc'[k] \in Busy =>
                  /\ call'[k].dev \in Queued
                  /\ Kind(call'[k].dev) = "block" => Commands(k)'
             /\ Inside(k)' => pc'[k] = pc[k] /\ SameCall(k)
             /\ Waiting(k) => Waiting(k)' /\ call'[k].dev = call[k].dev
  BY DEF IInv, CallInv, Dev, Commands, SameCall, Waiting
<1>5. QED
  BY <1>2, <1>3, <1>4, Frame

(* What Reply leaves alone. *)
LEMMA ReplyFrame ==
  ASSUME IInv, NEW to, NEW s, NEW fill, Reply(to, s, fill)
  PROVE  /\ DOMAIN call' = Harts
         /\ \A k \in Harts : /\ DOMAIN call'[k] = CallFields
                             /\ call'[k].byte = call[k].byte /\ SameCall(k)
<1>1. DOMAIN call' = Harts
  BY DEF Reply
<1>2. ASSUME NEW k \in Harts
      PROVE  /\ DOMAIN call'[k] = CallFields
             /\ call'[k].byte = call[k].byte /\ SameCall(k)
  <2>1. DOMAIN call[k] = CallFields
    BY DEF IInv, TypeOK
  <2>2. PICK x, y : call'[k] = [[call[k] EXCEPT !.status = x] EXCEPT !.buf = y]
    BY DEF Reply
  <2>3. QED
    BY <2>1, <2>2 DEF SameCall, CallFields
<1>3. QED
  BY <1>1, <1>2

(* A device that takes its next entry. *)
LEMMA ServeIInv == ASSUME IInv, NEW d \in Queued, DeviceStep(d) PROVE IInv'
<1>0. /\ DOMAIN call = Harts /\ \A k \in Harts : DOMAIN call[k] = CallFields
  BY DEF IInv, TypeOK
<1>1. CASE ServeRng(d)
  <2>1. /\ queue' = Served(d) /\ UNCHANGED <<devices, pc, call, broken>>
        /\ queue[d].seen # queue[d].idx
    BY <1>1 DEF ServeRng, pciVars, Pending
  <2>2. QED
    BY <1>0, <2>1, ServeFrame DEF SameCall
<1>2. CASE ServeGpu(d)
  <2>1. /\ queue' = Served(d) /\ UNCHANGED <<devices, pc, broken>>
        /\ queue[d].seen # queue[d].idx
    BY <1>2 DEF ServeGpu, pciVars, Pending
  <2>2. UNCHANGED call \/ \E to, s : Reply(to, s, Nothing)
    BY <1>2 DEF ServeGpu
  <2>3. CASE UNCHANGED call
    BY <1>0, <2>1, <2>3, ServeFrame DEF SameCall
  <2>4. CASE \E to, s : Reply(to, s, Nothing)
    BY <2>1, <2>4, ReplyFrame, ServeFrame
  <2>5. QED
    BY <2>2, <2>3, <2>4
<1>3. CASE ServeBlock(d)
  <2>1. /\ UNCHANGED <<devices, pc>> /\ broken \subseteq broken'
        /\ queue[d].seen # queue[d].idx
    BY <1>3 DEF ServeBlock, pciVars, Pending
  <2>2. \/ UNCHANGED <<queue, call>>
        \/ queue' = Served(d) /\ \E c, hdr : BlockRequest(c, hdr)
    BY <1>3 DEF ServeBlock
  <2>3. ASSUME NEW c, NEW hdr, BlockRequest(c, hdr)
        PROVE  \E to, s, fill : Reply(to, s, fill)
    BY <2>3 DEF BlockRequest
  <2>4. CASE UNCHANGED <<queue, call>>
    BY <1>0, <2>1, <2>4, ServeFrame DEF SameCall
  <2>5. CASE queue' = Served(d) /\ \E to, s, fill : Reply(to, s, fill)
    BY <2>1, <2>5, ReplyFrame, ServeFrame
  <2>6. QED
    BY <2>2, <2>3, <2>4, <2>5
<1>4. QED
  BY <1>1, <1>2, <1>3 DEF DeviceStep

-----------------------------------------------------------------------------
(* The steps of a command that take, use and release the lock. *)
LEMMA LockIInv == ASSUME IInv, NEW h \in Harts, Lock(h) PROVE IInv'
<1>0. /\ pc[h] = "lock" /\ Dev(h) \in Queued /\ UNCHANGED <<devices, call, broken>>
      /\ ~queue[Dev(h)].lock
  BY DEF IInv, CallInv, Busy, Lock, pciVars
<1>1. /\ queue' = [queue EXCEPT ![Dev(h)] = [queue[Dev(h)] EXCEPT !.lock = TRUE]]
      /\ pc' = [pc EXCEPT ![h] = "fill"]
  BY <1>0 DEF Lock
<1>2. \A d \in Queued : queue[d] \in Queue
  BY DEF IInv, TypeOK
<1>3. /\ queue' \in [Queued -> Queue]
      /\ \A d \in Queued :
           /\ queue'[d].desc = queue[d].desc /\ queue'[d].ring = queue[d].ring
           /\ queue'[d].idx = queue[d].idx /\ queue'[d].seen = queue[d].seen
           /\ queue[d].seen \in Nat
  BY <1>0, <1>1, <1>2 DEF IInv, TypeOK, Queue
<1>4. queue'[Dev(h)].lock = TRUE /\ \A d \in Queued \ {Dev(h)} : queue'[d] = queue[d]
  BY <1>0, <1>1, <1>2 DEF IInv, TypeOK, Queue
<1>5. /\ pc' \in [Harts -> Labels] /\ pc'[h] = "fill"
      /\ \A k \in Harts \ {h} : pc'[k] = pc[k]
  BY <1>1 DEF IInv, TypeOK, Labels, Busy
<1>6. TypeOK'
  BY <1>0, <1>3, <1>5 DEF IInv, TypeOK
<1>7. ASSUME NEW k \in Harts
      PROVE  /\ pc'[k] \in Busy =>
                  /\ call'[k].dev \in Queued
                  /\ Kind(call'[k].dev) = "block" => Commands(k)'
             /\ pc'[k] = "publish" => pc[k] = "publish" /\ SameCall(k)
             /\ Waiting(k) => Waiting(k)' /\ call'[k].dev = call[k].dev
  BY <1>0, <1>5 DEF IInv, CallInv, Commands, SameCall, Waiting, Dev, Busy
<1>8. \A d \in Queued : queue'[d].seen >= queue[d].seen
  BY <1>3
<1>9. CallInv' /\ PublishInv' /\ LiveInv' /\ DescInv'
  BY <1>0, <1>3, <1>6, <1>7, <1>8, QueueFrame
<1>10. ASSUME NEW g \in Harts \ {h}, Inside(g)'
       PROVE  Inside(g) /\ Dev(g) \in Queued /\ Dev(g) # Dev(h) /\ queue[Dev(g)].lock
  BY <1>0, <1>5, <1>10 DEF IInv, CallInv, LockInv, Inside, Busy
<1>11. LockInv'
  <2> SUFFICES ASSUME NEW f \in Harts, Inside(f)'
               PROVE  /\ queue'[Dev(f)].lock
                      /\ \A g \in Harts : Inside(g)' /\ Dev(g) = Dev(f) => g = f
    BY <1>0 DEF LockInv, Dev
  <2>1. CASE f = h
    BY <1>4, <1>10, <2>1
  <2>2. CASE f # h
    <3>1. Inside(f) /\ Dev(f) \in Queued \ {Dev(h)} /\ queue[Dev(f)].lock
      BY <1>10, <2>2
    <3>2. \A g \in Harts : Inside(g)' /\ Dev(g) = Dev(f) => Inside(g)
      BY <1>10, <3>1
    <3>3. QED
      BY <1>4, <3>1, <3>2 DEF IInv, LockInv
  <2>3. QED
    BY <2>1, <2>2
<1>12. QED
  BY <1>6, <1>9, <1>11 DEF IInv

(* More harts wait, and the set is still closed. *)
LEMMA ClosedMonotone ==
  ASSUME NEW desc, NEW S, NEW W, NEW V, W \subseteq V, Closed(desc, S, W)
  PROVE  Closed(desc, S, V)
  BY DEF Closed

(* A hart fills in its chain, over whatever was there. *)
LEMMA FillIInv == ASSUME IInv, NEW h \in Harts, Fill(h) PROVE IInv'
<1> DEFINE d == Dev(h)
           at == call[h].at
           c == Chain(Op(h))
<1>0. /\ pc[h] = "fill" /\ d \in Queued /\ UNCHANGED <<devices, call, broken>>
      /\ at \in Positions /\ queue[d] \in Queue
      /\ pc' = [pc EXCEPT ![h] = "publish"]
  BY DEF IInv, TypeOK, CallInv, Busy, Fill, pciVars
<1>1. PICK len \in 1 .. 3 : Len(c) = len /\ PartsOK(c, len)
  BY ChainsOK
<1> DEFINE new == Filled(queue[d].desc, h, c, len, at)
<1>2. queue' = [queue EXCEPT ![d] = [queue[d] EXCEPT !.desc = new]]
  BY <1>0, <1>1 DEF Fill, Filled, Positions, Offset
<1> HIDE DEF c
<1>3. queue[d].desc \in [Positions -> Desc]
  BY <1>0 DEF Queue
<1>4. /\ new \in [Positions -> Desc]
      /\ \E i \in Positions : ~new[i].more
      /\ DataBehindHeader(queue[d].desc) => DataBehindHeader(new)
  BY <1>0, <1>1, <1>3, FillProperties
<1>5. PICK R \in SUBSET Positions :
        /\ at \in R
        /\ Closed(new, R, {h})
        /\ \A S \in SUBSET Positions, W \in SUBSET Harts :
             Closed(queue[d].desc, S, W) => Closed(new, S \cup R, W \cup {h})
  BY <1>0, <1>1, <1>3, FillProperties
<1> HIDE DEF d, at, new
<1>6. /\ queue'[d] \in Queue /\ queue'[d].desc = new
      /\ queue'[d].ring = queue[d].ring /\ queue'[d].idx = queue[d].idx
      /\ queue'[d].seen = queue[d].seen /\ queue'[d].lock = queue[d].lock
      /\ \A e \in Queued \ {d} : queue'[e] = queue[e]
      /\ queue' \in [Queued -> Queue]
  BY <1>0, <1>2, <1>4 DEF IInv, TypeOK, Queue
<1>7. /\ pc' \in [Harts -> Labels] /\ pc'[h] = "publish"
      /\ \A k \in Harts \ {h} : pc'[k] = pc[k]
  BY <1>0 DEF IInv, TypeOK, Labels, Busy
<1>8. TypeOK'
  BY <1>0, <1>6, <1>7 DEF IInv, TypeOK
<1>9. CallInv'
  BY <1>0, <1>7 DEF IInv, CallInv, Commands, Dev, Busy
<1>10. \A g \in Harts : Inside(g)' => Inside(g) /\ Dev(g) \in Queued /\ (Dev(g) = d => g = h)
  BY <1>0, <1>7 DEF IInv, CallInv, LockInv, Inside, Busy, d
<1>11. LockInv'
  <2>1. \A e \in Queued : queue'[e].lock = queue[e].lock
    BY <1>6
  <2>2. \A g \in Harts : Dev(g)' = Dev(g)
    BY <1>0 DEF Dev
  <2>3. QED
    BY <1>10, <2>1, <2>2 DEF IInv, LockInv
<1>12. PublishInv'
  <2> SUFFICES ASSUME NEW g \in Harts, pc'[g] = "publish"
               PROVE  \E S \in SUBSET Positions :
                        Closed(queue'[Dev(g)].desc, S, {g}) /\ call[g].at \in S
    BY <1>0 DEF PublishInv, Dev, Closed
  <2>1. CASE g = h
    BY <1>5, <1>6, <2>1 DEF d, at
  <2>2. CASE g # h
    <3>1. pc[g] = "publish" /\ Inside(g)'
      BY <1>7, <2>2 DEF Inside
    <3>2. queue'[Dev(g)] = queue[Dev(g)]
      BY <1>6, <1>10, <2>2, <3>1
    <3>3. QED
      BY <3>1, <3>2 DEF IInv, PublishInv
  <2>3. QED
    BY <2>1, <2>2
<1>13. LiveInv'
  <2> SUFFICES ASSUME NEW e \in Queued, e \notin broken
               PROVE  \E S \in SUBSET Positions :
                        /\ Closed(queue'[e].desc, S, Waiters(e)')
                        /\ \A p \in queue'[e].seen .. (queue'[e].idx - 1) :
                             queue'[e].ring[p % QSize] \in S
    BY <1>0 DEF LiveInv, Closed
  <2>1. PICK S \in SUBSET Positions :
            /\ Closed(queue[e].desc, S, Waiters(e))
            /\ \A p \in queue[e].seen .. (queue[e].idx - 1) : queue[e].ring[p % QSize] \in S
      BY DEF IInv, LiveInv
  <2>2. Waiters(e) \subseteq Waiters(e)' /\ Waiters(e) \subseteq Harts /\ (e = d => h \in Waiters(e)')
    BY <1>0, <1>7 DEF Waiters, Waiting, Dev, d
  <2>3. CASE e = d
    <3>1. Closed(new, S \cup R, Waiters(e) \cup {h})
      BY <1>5, <2>1, <2>2, <2>3
    <3>2. Waiters(e) \cup {h} \subseteq Waiters(e)'
      BY <2>2, <2>3
    <3>3. Closed(new, S \cup R, Waiters(e)')
      BY <3>1, <3>2, ClosedMonotone
    <3>4. \A p \in queue'[e].seen .. (queue'[e].idx - 1) : queue'[e].ring[p % QSize] \in S \cup R
      BY <1>6, <2>1, <2>3
    <3>5. queue'[e].desc = new /\ S \cup R \in SUBSET Positions
      BY <1>6, <2>3
    <3>6. QED
      BY <3>3, <3>4, <3>5
  <2>4. CASE e # d
    <3>1. Closed(queue[e].desc, S, Waiters(e)')
      BY <2>1, <2>2 DEF Closed
    <3>2. QED
      BY <1>6, <2>1, <2>4, <3>1
  <2>5. QED
    BY <2>3, <2>4
<1>14. DescInv'
  <2> SUFFICES ASSUME NEW e \in Queued
               PROVE  /\ \E i \in Positions : ~queue'[e].desc[i].more
                      /\ DataBehindHeader(queue'[e].desc)
    BY DEF DescInv, DataBehindHeader
  <2>1. /\ \E i \in Positions : ~queue[e].desc[i].more
        /\ DataBehindHeader(queue[e].desc)
    BY DEF IInv, DescInv
  <2>2. QED
    BY <1>4, <1>6, <2>1
<1>15. QED
  BY <1>8, <1>9, <1>11, <1>12, <1>13, <1>14 DEF IInv

(* A hart puts the head of its chain on the ring and releases the lock. *)
LEMMA PublishIInv == ASSUME IInv, NEW h \in Harts, Publish(h) PROVE IInv'
<1> DEFINE d == Dev(h)
           at == call[h].at
           q == queue[d]
           ring == [q.ring EXCEPT ![q.idx % QSize] = at]
<1>0. /\ pc[h] = "publish" /\ d \in Queued /\ UNCHANGED <<devices, call, broken>>
      /\ at \in Positions /\ q \in Queue
      /\ pc' = [pc EXCEPT ![h] = "notify"]
  BY DEF IInv, TypeOK, CallInv, Busy, Publish, pciVars
<1>1. queue' = [queue EXCEPT ![d] = [[[[q EXCEPT !.ring = ring] EXCEPT !.idx = q.idx + 1]
                   EXCEPT !.driver_idx = (q.driver_idx + 1) % QSize] EXCEPT !.lock = FALSE]]
  BY <1>0 DEF Publish, Queue
<1>2. /\ q.ring \in [Positions -> Positions] /\ q.idx \in Nat /\ q.seen \in Nat
      /\ q.driver_idx \in Nat /\ q.idx + 1 \in Nat
  BY <1>0 DEF Queue, Positions
<1>3. q.idx % QSize \in Positions /\ (q.driver_idx + 1) % QSize \in Positions
  <2>1. \A x \in Nat : x % QSize \in Positions
    BY QueueSize, ModType DEF Positions
  <2> HIDE DEF q
  <2>2. QED
    BY <1>2, <2>1
<1>4. /\ ring \in [Positions -> Positions] /\ ring[q.idx % QSize] = at
      /\ \A i \in Positions : ring[i] = at \/ ring[i] = q.ring[i]
  BY <1>0, <1>2, <1>3
<1> HIDE DEF d, at, q, ring
<1>5. PICK n \in Nat, x \in Positions : n = q.idx + 1 /\ x = (q.driver_idx + 1) % QSize
  BY <1>2, <1>3
<1>6. queue' = [queue EXCEPT ![d] = [[[[q EXCEPT !.ring = ring] EXCEPT !.idx = n]
                   EXCEPT !.driver_idx = x] EXCEPT !.lock = FALSE]]
  BY <1>1, <1>5
<1>7. /\ queue'[d] \in Queue /\ queue'[d].desc = q.desc
      /\ queue'[d].ring = ring /\ queue'[d].idx = n /\ queue'[d].seen = q.seen
  BY <1>0, <1>4, <1>6 DEF IInv, TypeOK, Queue
<1>8. /\ \A e \in Queued \ {d} : queue'[e] = queue[e]
      /\ queue' \in [Queued -> Queue]
  BY <1>6, <1>7 DEF IInv, TypeOK
<1>9. /\ pc' \in [Harts -> Labels] /\ pc'[h] = "notify"
      /\ \A k \in Harts \ {h} : pc'[k] = pc[k]
  BY <1>0 DEF IInv, TypeOK, Labels, Busy
<1>10. TypeOK'
  <2>1. q.seen <= q.idx /\ q.seen <= n
    <3>1. q.seen <= q.idx
      BY <1>0 DEF IInv, TypeOK, q
    <3>2. QED
      BY <1>2, <1>5, <3>1
  <2>2. \A e \in Queued : queue'[e].seen <= queue'[e].idx
    BY <1>7, <1>8, <2>1 DEF IInv, TypeOK
  <2>3. QED
    BY <1>0, <1>8, <1>9, <2>2 DEF IInv, TypeOK
<1>11. CallInv'
  BY <1>0, <1>9 DEF IInv, CallInv, Commands, Dev, Busy, d
<1>12. ASSUME NEW g \in Harts, Inside(g)'
       PROVE  /\ g # h /\ Inside(g) /\ Dev(g) \in Queued \ {d} /\ pc'[g] = pc[g]
              /\ queue'[Dev(g)] = queue[Dev(g)]
  <2>1. g # h /\ pc'[g] = pc[g] /\ Inside(g) /\ Inside(h)
    BY <1>0, <1>9, <1>12 DEF Inside
  <2>2. Dev(g) \in Queued \ {d}
    BY <1>0, <2>1 DEF IInv, CallInv, LockInv, Inside, Busy, d
  <2>3. QED
    BY <1>8, <2>1, <2>2
<1>13. LockInv'
  <2>1. \A g \in Harts : Dev(g)' = Dev(g)
    BY <1>0 DEF Dev
  <2>2. QED
    BY <1>12, <2>1 DEF IInv, LockInv
<1>14. PublishInv'
  <2> SUFFICES ASSUME NEW g \in Harts, pc'[g] = "publish"
               PROVE  \E S \in SUBSET Positions :
                        Closed(queue'[Dev(g)].desc, S, {g}) /\ call[g].at \in S
    BY <1>0 DEF PublishInv, Dev, Closed
  <2>1. pc[g] = "publish" /\ queue'[Dev(g)] = queue[Dev(g)]
    BY <1>12 DEF Inside
  <2>2. QED
    BY <2>1 DEF IInv, PublishInv
<1>15. LiveInv'
  <2> SUFFICES ASSUME NEW e \in Queued, e \notin broken
               PROVE  \E S \in SUBSET Positions :
                        /\ Closed(queue'[e].desc, S, Waiters(e)')
                        /\ \A p \in queue'[e].seen .. (queue'[e].idx - 1) :
                             queue'[e].ring[p % QSize] \in S
    BY <1>0 DEF LiveInv, Closed
  <2>1. PICK S \in SUBSET Positions :
            /\ Closed(queue[e].desc, S, Waiters(e))
            /\ \A p \in queue[e].seen .. (queue[e].idx - 1) : queue[e].ring[p % QSize] \in S
      BY DEF IInv, LiveInv
  <2>2. Waiters(e) = Waiters(e)' /\ (e = d => h \in Waiters(e))
    BY <1>0, <1>9 DEF Waiters, Waiting, Dev, d
  <2>3. CASE e = d
    <3>1. PICK T \in SUBSET Positions : Closed(q.desc, T, {h}) /\ at \in T
      BY <1>0 DEF IInv, PublishInv, q, d, at
    <3>2. Closed(q.desc, S, Waiters(e)) /\ Closed(q.desc, T, Waiters(e))
      BY <2>1, <2>2, <2>3, <3>1, ClosedMonotone DEF q
    <3>3. Closed(q.desc, S \cup T, Waiters(e))
      BY <3>2 DEF Closed
    <3>4. ASSUME NEW p \in q.seen .. (n - 1) PROVE ring[p % QSize] \in S \cup T
      <4>1. p \in Nat /\ (p = q.idx \/ p \in q.seen .. (q.idx - 1))
        BY <1>2, <1>5
      <4>2. p % QSize \in Positions
        BY <4>1, QueueSize, ModType DEF Positions
      <4>3. p \in q.seen .. (q.idx - 1) => q.ring[p % QSize] \in S
        BY <2>1, <2>3 DEF q
      <4>4. QED
        BY <1>4, <3>1, <4>1, <4>2, <4>3
    <3>5. /\ Closed(queue'[e].desc, S \cup T, Waiters(e)')
          /\ queue'[e].seen .. (queue'[e].idx - 1) = q.seen .. (n - 1)
          /\ queue'[e].ring = ring /\ S \cup T \in SUBSET Positions
      BY <1>7, <2>2, <2>3, <3>3
    <3>6. QED
      BY <3>4, <3>5
  <2>4. CASE e # d
    BY <1>8, <2>1, <2>2, <2>4
  <2>5. QED
    BY <2>3, <2>4
<1>16. DescInv'
  <2> SUFFICES ASSUME NEW e \in Queued
               PROVE  /\ \E i \in Positions : ~queue'[e].desc[i].more
                      /\ DataBehindHeader(queue'[e].desc)
    BY DEF DescInv, DataBehindHeader
  <2>1. queue'[e].desc = queue[e].desc
    BY <1>7, <1>8 DEF q
  <2>2. QED
    BY <2>1 DEF IInv, DescInv
<1>17. QED
  BY <1>10, <1>11, <1>13, <1>14, <1>15, <1>16 DEF IInv

-----------------------------------------------------------------------------
(* Every step of every hart and every device keeps the invariant. *)
LEMMA NextIInv == IInv /\ [Next]_vars => IInv'
<1> SUFFICES ASSUME IInv, [Next]_vars PROVE IInv'
  OBVIOUS
<1>1. CASE UNCHANGED vars
  <2>1. UNCHANGED <<devices, queue, pc, call, broken>>
    BY <1>1 DEF vars, devVars, pciVars
  <2>2. QED
    BY <2>1, Quiet DEF IInv, TypeOK
<1>2. CASE PciSlot /\ UNCHANGED devVars
  BY <1>2, PciIInv
<1>3. CASE VirtioDeviceInit
  BY <1>3, DeviceInitIInv
<1>4. ASSUME NEW h \in Harts, HartStep(h) PROVE IInv'
  BY <1>4, SubmitIInv, LockIInv, FillIInv, PublishIInv, NotifyIInv, WaitIInv, ReturnIInv
     DEF HartStep
<1>5. ASSUME NEW d \in Queued, DeviceStep(d) PROVE IInv'
  BY <1>5, ServeIInv
<1>6. ASSUME NEW h \in Harts, NEW d \in Queued,
             \/ BlockFlush(h, d) \/ RngFill(h, d) \/ GpuRedraw(h, d)
             \/ \E r \in Ranges : BlockReadWrapper(h, d, r) \/ BlockWriteWrapper(h, d, r)
      PROVE  IInv'
  BY <1>6, CallsIInv
<1>7. CASE Paint
  <2>1. UNCHANGED <<devices, queue, pc, call, broken>>
    BY <1>7 DEF Paint, pciVars
  <2>2. QED
    BY <2>1, Quiet DEF IInv, TypeOK
<1>8. ASSUME NEW d \in Inputs, GetInput(d) \/ InputStep(d) PROVE IInv'
  BY <1>8, InputIInv
<1>9. ASSUME NEW d \in Inputs, NEW t, DeviceEvent(d, t) PROVE IInv'
  <2>1. UNCHANGED <<devices, queue, pc, call, broken>>
    BY <1>9 DEF DeviceEvent, pciVars
  <2>2. QED
    BY <2>1, Quiet DEF IInv, TypeOK
<1>10. QED
  BY <1>1, <1>2, <1>3, <1>4, <1>5, <1>6, <1>7, <1>8, <1>9 DEF Next

-----------------------------------------------------------------------------
(* What the device finds. *)
At(head, k) == (head + k) % QSize

(* The places of a chain, one after the other. *)
LEMMA AtSteps ==
  ASSUME NEW head \in Positions
  PROVE  /\ \A k \in Positions : At(head, k) \in Positions
         /\ At(head, 0) = head
         /\ \A k \in 1 .. (QSize - 1) : /\ At(head, k) = After(At(head, k - 1))
                                        /\ At(head, k - 1) = Before(At(head, k))
<1>1. QSize \in Nat \ {0} /\ head \in 0 .. (QSize - 1) /\ QSize >= 3
  BY QueueSize DEF Positions
<1>2. ASSUME NEW k \in Positions
      PROVE  /\ At(head, k) = IF head + k < QSize THEN head + k ELSE head + k - QSize
             /\ At(head, k) \in Positions
  <2>1. k \in 0 .. (QSize - 1)
    BY DEF Positions
  <2>2. head + k < QSize => (head + k) % QSize = head + k
    BY <1>1, <2>1, ModBelow
  <2>3. ~(head + k < QSize) => (head + k) % QSize = head + k - QSize
    <3> SUFFICES ASSUME ~(head + k < QSize) PROVE (head + k) % QSize = head + k - QSize
      OBVIOUS
    <3>1. PICK x \in QSize .. (2 * QSize - 1) : x = head + k
      BY <1>1, <2>1
    <3>2. x % QSize = x - QSize
      BY <1>1, ModWrap
    <3>3. QED
      BY <1>1, <2>1, <3>1, <3>2
  <2>4. QED
    BY <1>1, <2>1, <2>2, <2>3 DEF At, Positions
<1>3. At(head, 0) = head
  BY <1>1, <1>2 DEF Positions
<1>4. ASSUME NEW k \in 1 .. (QSize - 1)
      PROVE  At(head, k) = After(At(head, k - 1)) /\ At(head, k - 1) = Before(At(head, k))
  <2>1. k \in Positions /\ k - 1 \in Positions /\ k \in Nat
    BY <1>1 DEF Positions
  <2>2. /\ At(head, k) = IF head + k < QSize THEN head + k ELSE head + k - QSize
        /\ At(head, k) \in Positions
        /\ At(head, k - 1) = IF head + (k - 1) < QSize THEN head + (k - 1)
                             ELSE head + (k - 1) - QSize
        /\ At(head, k - 1) \in Positions
    BY <1>2, <2>1
  <2>3. PICK a \in Positions, b \in Positions : a = At(head, k) /\ b = At(head, k - 1)
    BY <2>2
  <2>4. /\ After(b) = IF b + 1 < QSize THEN b + 1 ELSE 0
        /\ Before(a) = IF a > 0 THEN a - 1 ELSE QSize - 1
    BY Neighbours
  <2>5. a = After(b) /\ b = Before(a)
    BY <1>1, <2>1, <2>2, <2>3, <2>4 DEF Positions
  <2>6. QED
    BY <2>3, <2>5
<1>5. QED
  BY <1>2, <1>3, <1>4

(* A chain all of whose descriptors are of the harts W and that has data   *)
(* only behind the header of the same hart, but for its first descriptor.  *)
Shaped(c, W) ==
  \E len \in Nat \ {0} :
    /\ DOMAIN c = 1 .. len
    /\ \A k \in 1 .. len : c[k].hart \in W
    /\ \A k \in 2 .. len : c[k].part = "data" /\ ~c[k].write =>
         c[k - 1].part = "hdr" /\ ~c[k - 1].write /\ c[k - 1].hart = c[k].hart

(* A chain that begins in a closed set stays in it and ends. *)
LEMMA ChainShape ==
  ASSUME NEW q \in Queue, NEW head \in Positions, NEW S, NEW W, Closed(q.desc, S, W), head \in S,
         \E i \in Positions : ~q.desc[i].more, DataBehindHeader(q.desc)
  PROVE  Shaped(ChainFrom(q, head), W)
<1> DEFINE d(k) == q.desc[(head + k) % QSize]
           Last1(k) == ~d(k).more /\ \A j \in 0 .. (k - 1) : d(j).more
           n == CHOOSE k \in 0 .. (QSize - 1) : Last1(k)
<1>0. /\ QSize \in Nat \ {0} /\ Positions = 0 .. (QSize - 1)
      /\ \A k \in Positions : d(k) = q.desc[At(head, k)]
  BY QueueSize DEF Positions, At
<1>1. \E k \in 0 .. (QSize - 1) : Last1(k)
  <2> DEFINE T == {k \in 0 .. (QSize - 1) : ~d(k).more}
  <2>1. T # {}
    <3>1. PICK i \in Positions : ~q.desc[i].more
      OBVIOUS
    <3>2. PICK k \in Positions : At(head, k) = i
      <4>1. PICK k \in Positions : k = Offset(head, i)
        BY Offsets
      <4>2. At(head, k) = i
        <5>1. k = IF i >= head THEN i - head ELSE i + QSize - head
          BY <4>1, Offsets
        <5>2. i \in 0 .. (QSize - 1) /\ head \in 0 .. (QSize - 1)
          BY <1>0
        <5>3. i >= head => (head + k) % QSize = i
          <6>1. i >= head => head + k = i
            BY <1>0, <5>1, <5>2
          <6>2. i % QSize = i
            BY <1>0, <5>2, ModBelow
          <6>3. QED
            BY <6>1, <6>2
        <5>4. ~(i >= head) => (head + k) % QSize = i
          <6>1. ~(i >= head) => head + k = i + QSize
            BY <1>0, <5>1, <5>2
          <6>2. (i + QSize) % QSize = i
            <7>1. QSize \in Nat \ {0}
              BY <1>0
            <7>2. QED
              BY <5>2, <7>1, ModRound
          <6>3. QED
            BY <6>1, <6>2
        <5>5. QED
          BY <5>3, <5>4 DEF At
      <4>3. QED
        BY <4>2
    <3>3. k \in T
      BY <1>0, <3>1, <3>2
    <3>4. QED
      BY <3>3
  <2>2. T \in SUBSET Nat
    BY <1>0
  <2>3. PICK k \in T : \A j \in T : k <= j
    BY <2>1, <2>2, LeastNat
  <2> HIDE DEF d
  <2>4. ASSUME NEW j \in 0 .. (k - 1) PROVE d(j).more
    <3>1. j \in 0 .. (QSize - 1) /\ ~(k <= j)
      BY <1>0
    <3>2. j \notin T
      BY <2>3, <3>1
    <3>3. QED
      BY <3>1, <3>2
  <2>5. QED
    BY <2>3, <2>4
<1>2. n \in 0 .. (QSize - 1) /\ Last1(n)
  BY <1>1
<1>3. ChainFrom(q, head) = [k \in 1 .. (n + 1) |-> d(k - 1)]
  BY DEF ChainFrom
<1>4. \A j \in 0 .. (n - 1) : d(j).more
  BY <1>2
<1> HIDE DEF n, d
<1>5. \A k \in 0 .. n : At(head, k) \in S
  <2> DEFINE U == {k \in Positions : At(head, k) \in S}
  <2>1. 0 \in U
    BY <1>0, AtSteps
  <2>2. ASSUME NEW k \in 1 .. n, k - 1 \in U PROVE k \in U
    <3>1. k \in 1 .. (QSize - 1) /\ k \in Positions /\ k - 1 \in Positions /\ k - 1 \in 0 .. (n - 1)
      BY <1>0, <1>2
    <3>2. At(head, k) = After(At(head, k - 1)) /\ q.desc[At(head, k - 1)].more
      BY <1>0, <1>4, <3>1, AtSteps
    <3>3. QED
      BY <2>2, <3>1, <3>2 DEF Closed
  <2>3. n \in Nat
    BY <1>0, <1>2
  <2> HIDE DEF U
  <2>4. \A k \in 0 .. n : k \in U
    BY <2>1, <2>2, <2>3, IntervalInduction
  <2>5. QED
    BY <2>4 DEF U
<1>6. PICK len \in Nat \ {0} : len = n + 1
  BY <1>0, <1>2
<1> DEFINE c == ChainFrom(q, head)
<1>7. /\ DOMAIN c = 1 .. len
      /\ \A k \in 1 .. len : k - 1 \in 0 .. n /\ c[k] = q.desc[At(head, k - 1)]
  BY <1>0, <1>2, <1>3, <1>6
<1> HIDE DEF c
<1>8. \A k \in 1 .. len : c[k].hart \in W
  BY <1>5, <1>7 DEF Closed
<1>9. ASSUME NEW k \in 2 .. len, c[k].part = "data", ~c[k].write
      PROVE  c[k - 1].part = "hdr" /\ ~c[k - 1].write /\ c[k - 1].hart = c[k].hart
  <2>1. PICK j \in 1 .. (QSize - 1) : j = k - 1
    BY <1>0, <1>2, <1>6
  <2>2. /\ c[k] = q.desc[At(head, j)] /\ c[k - 1] = q.desc[At(head, j - 1)]
        /\ j - 1 \in 0 .. (n - 1) /\ j - 1 \in Positions /\ j \in Positions
    BY <1>0, <1>2, <1>6, <1>7, <2>1
  <2>3. /\ At(head, j - 1) = Before(At(head, j)) /\ At(head, j) \in Positions
        /\ q.desc[At(head, j - 1)].more
    BY <1>0, <1>4, <2>2, AtSteps
  <2>4. QED
    BY <1>9, <2>2, <2>3 DEF DataBehindHeader
<1>10. QED
  BY <1>7, <1>8, <1>9 DEF c, Shaped

-----------------------------------------------------------------------------
(* A device that carries out an "out" writes the data of the hart that     *)
(* sent the header, where that hart's header says.                         *)
LEMMA WriteIsTheHeaders ==
  ASSUME IInv, NEW d \in Queued, Kind(d) = "block", Pending(d), Outs(Entry(d)) # {},
         FirstOut(Entry(d)).part = "hdr", Op(FirstOut(Entry(d)).hart) = "out",
         WholeSectors({Entry(d)[k] : k \in Outs(Entry(d)) \ {Min(Outs(Entry(d)))}})
  PROVE  LET h == FirstOut(Entry(d)).hart
         IN /\ h \in Harts /\ call[h].fn = "block_write_wrapper"
            /\ BytesIn({Entry(d)[k] : k \in Outs(Entry(d)) \ {Min(Outs(Entry(d)))}}) \subseteq {h}
<1> DEFINE q == queue[d]
           head == q.ring[q.seen % QSize]
           c == Entry(d)
           f == Min(Outs(c))
           payload == {c[k] : k \in Outs(c) \ {f}}
<1>1. /\ q \in Queue /\ q.seen \in Nat /\ q.idx \in Nat /\ q.seen <= q.idx /\ q.seen # q.idx
      /\ d \notin broken /\ q.ring \in [Positions -> Positions]
  BY DEF IInv, TypeOK, Queue, Pending
<1>2. q.seen \in q.seen .. (q.idx - 1)
  BY <1>1
<1>3. q.seen % QSize \in Positions /\ head \in Positions
  <2>1. \A x \in Nat : x % QSize \in Positions
    BY QueueSize, ModType DEF Positions
  <2> HIDE DEF q
  <2>2. q.seen % QSize \in Positions
    BY <1>1, <2>1
  <2>3. QED
    BY <1>1, <2>2
<1>4. PICK S \in SUBSET Positions : Closed(q.desc, S, Waiters(d)) /\ head \in S
  BY <1>1, <1>2 DEF IInv, LiveInv
<1>5. (\E i \in Positions : ~q.desc[i].more) /\ DataBehindHeader(q.desc)
  BY DEF IInv, DescInv
<1>6. c = ChainFrom(q, head)
  BY DEF Entry
<1> HIDE DEF q, head, c
<1>7. PICK len \in Nat \ {0} :
        /\ DOMAIN c = 1 .. len
        /\ \A k \in 1 .. len : c[k].hart \in Waiters(d)
        /\ \A k \in 2 .. len : c[k].part = "data" /\ ~c[k].write =>
             c[k - 1].part = "hdr" /\ ~c[k - 1].write /\ c[k - 1].hart = c[k].hart
  <2>1. Shaped(ChainFrom(q, head), Waiters(d))
    BY <1>1, <1>3, <1>4, <1>5, ChainShape
  <2>2. QED
    BY <1>6, <2>1 DEF Shaped
<1>8. Outs(c) \in SUBSET Nat /\ Outs(c) # {} /\ Outs(c) = {k \in 1 .. len : ~c[k].write}
  BY <1>7 DEF Outs, c
<1>9. f \in Outs(c) /\ \A k \in Outs(c) : f <= k
  BY <1>8, LeastNat
<1> HIDE DEF f
<1> DEFINE h == c[f].hart
<1>10. h \in Waiters(d) /\ FirstOut(c) = c[f]
  BY <1>7, <1>8, <1>9 DEF FirstOut, f
<1>11. h \in Harts /\ Waiting(h) /\ Dev(h) = d
  BY <1>10 DEF Waiters
<1>12. call[h].fn = "block_write_wrapper"
  <2>1. Commands(h)
    BY <1>11 DEF IInv, CallInv, Waiting, Busy
  <2>2. Head(<<"in">>) = "in" /\ Head(<<"flush">>) = "flush"
    OBVIOUS
  <2>3. Head(call[h].cmds) = "out"
    BY <1>10 DEF Op, c
  <2>4. QED
    BY <2>1, <2>2, <2>3 DEF Commands
<1>13. ASSUME NEW g \in BytesIn(payload) PROVE g = h
  <2>1. PICK k \in Outs(c) \ {f} : c[k].part = "data" /\ g = c[k].hart
    BY DEF BytesIn
  <2>2. k \in 2 .. len /\ ~c[k].write /\ k - 1 \in 1 .. len /\ f \in Nat /\ f <= k - 1
    BY <1>8, <1>9
  <2>3. c[k - 1].part = "hdr" /\ ~c[k - 1].write /\ c[k - 1].hart = g
    BY <1>7, <2>1, <2>2
  <2>4. k - 1 \in Outs(c)
    BY <1>8, <2>2, <2>3
  <2>5. k - 1 = f
    <3>1. ASSUME k - 1 # f PROVE FALSE
      <4>1. c[k - 1] \in payload
        BY <2>4, <3>1
      <4>2. c[k - 1].part = "data"
        BY <4>1 DEF WholeSectors, c, f
      <4>3. QED
        BY <2>3, <4>2
    <3>2. QED
      BY <3>1
  <2>6. QED
    BY <2>3, <2>5
<1>14. QED
  BY <1>10, <1>11, <1>12, <1>13 DEF c, f

(* The first byte of the sector, as block.c and the wrappers compute it. *)
LEMMA SectorStart == ASSUME NEW n \in Nat, NEW q \in Nat \ {0} PROVE (n \div q) * q = n - (n % q)
  OBVIOUS

(* A byte that a block device changes becomes what the writer has for it. *)
LEMMA ServeBlockWrites ==
  ASSUME IInv, NEW d \in Queued, ServeBlock(d), NEW b \in Disk, disk'[b] # disk[b]
  PROVE  \E h \in Harts : WrittenBy(h, b)
<1> DEFINE c == Entry(d)
           payload == {c[k] : k \in Outs(c) \ {Min(Outs(c))}}
           h == FirstOut(c).hart
<1>1. PICK hdr \in Headers(FirstOut(c)) :
        /\ Outs(c) # {} /\ hdr.op = "out" /\ FirstOut(c).part = "hdr" /\ WholeSectors(payload)
        /\ disk' = [x \in Disk |->
             IF \E g \in BytesIn(payload) : x - hdr.start + 1 \in DOMAIN call[g].buf
             THEN call[CHOOSE g \in BytesIn(payload) : TRUE].buf[x - hdr.start + 1]
             ELSE disk[x]]
  BY DEF ServeBlock, BlockRequest
<1>2. hdr.op = Op(h) /\ hdr.start = SectorOf(h)
  BY <1>1 DEF Headers
<1>3. Kind(d) = "block" /\ Pending(d)
  BY DEF ServeBlock
<1>4. /\ h \in Harts /\ call[h].fn = "block_write_wrapper"
      /\ BytesIn(payload) \subseteq {h}
  BY <1>1, <1>2, <1>3, WriteIsTheHeaders
<1> HIDE DEF c, payload, h
<1>5. \E g \in BytesIn(payload) : b - hdr.start + 1 \in DOMAIN call[g].buf
  BY <1>1
<1>6. BytesIn(payload) = {h} /\ b - hdr.start + 1 \in DOMAIN call[h].buf
  BY <1>4, <1>5
<1>7. (CHOOSE g \in BytesIn(payload) : TRUE) = h
  BY <1>6
<1>8. disk'[b] = call[h].buf[b - hdr.start + 1]
  BY <1>1, <1>5, <1>7
<1>9. hdr.start = call[h].byte - (call[h].byte % SectorSize)
  BY <1>2, <1>4, SectorStart, VirtioAssumption DEF SectorOf, IInv, TypeOK
<1>10. QED
  BY <1>1, <1>2, <1>4, <1>6, <1>8, <1>9 DEF WrittenBy

(* Nothing but a block device changes the disk. *)
LEMMA OthersLeaveTheDisk ==
  ASSUME [Next]_vars, \A d \in Queued : ~ServeBlock(d) PROVE UNCHANGED disk
<1>1. ASSUME NEW h \in Harts, HartStep(h) PROVE UNCHANGED disk
  BY <1>1 DEF HartStep, Submit, Lock, Fill, Publish, Notify, Wait, Return
<1>2. ASSUME NEW d \in Queued, DeviceStep(d) PROVE UNCHANGED disk
  BY <1>2 DEF DeviceStep, ServeRng, ServeGpu
<1>3. ASSUME NEW h \in Harts, NEW d \in Queued,
             \/ BlockFlush(h, d) \/ RngFill(h, d) \/ GpuRedraw(h, d)
             \/ \E r \in Ranges : BlockReadWrapper(h, d, r) \/ BlockWriteWrapper(h, d, r)
      PROVE  UNCHANGED disk
  BY <1>3 DEF BlockFlush, RngFill, GpuRedraw, BlockReadWrapper, BlockWriteWrapper, Counted
<1>4. ASSUME NEW d \in Inputs,
             GetInput(d) \/ InputStep(d) \/ \E t \in Types(d) : DeviceEvent(d, t)
      PROVE  UNCHANGED disk
  BY <1>4 DEF GetInput, Counted, InputStep, InputLock, HandleEvent, InputUnlock, PopEvent,
              PopNone, DeviceEvent
<1>5. CASE (PciSlot /\ UNCHANGED devVars) \/ VirtioDeviceInit \/ Paint \/ UNCHANGED vars
  BY <1>5 DEF vars, devVars, VirtioDeviceInit, Paint
<1>6. QED
  BY <1>1, <1>2, <1>3, <1>4, <1>5 DEF Next

-----------------------------------------------------------------------------
(* The inductive invariant holds in every reachable state. *)
THEOREM Invariance == Spec => []IInv
  BY InitIInv, NextIInv, PTL DEF Spec

(* block.c: however the chains of overlapping calls overwrite each other,  *)
(* a byte of the disk only changes to what a call of block_write_wrapper   *)
(* that has come to its "out" has in its buffer for that byte.             *)
THEOREM DiskIsWrittenByWriters == Spec => OnlyWritersChangeTheDisk
<1> DEFINE Written == \A b \in Disk : disk'[b] # disk[b] => \E h \in Harts : WrittenBy(h, b)
<1>1. IInv /\ [Next]_vars => [Written]_vars
  <2> SUFFICES ASSUME IInv, [Next]_vars PROVE Written
    OBVIOUS
  <2>1. CASE \E d \in Queued : ServeBlock(d)
    BY <2>1, ServeBlockWrites
  <2>2. CASE \A d \in Queued : ~ServeBlock(d)
    BY <2>2, OthersLeaveTheDisk
  <2>3. QED
    BY <2>1, <2>2
<1>2. QED
  BY <1>1, Invariance, PTL DEF Spec, OnlyWritersChangeTheDisk

-----------------------------------------------------------------------------
(* A call that has its device to itself.                                   *)
(*                                                                         *)
(* When such a call begins nobody waits for the device, so by LiveInv      *)
(* nothing is left in the queue that the device could still find, whatever *)
(* earlier calls left in the descriptors.  From then on the queue holds    *)
(* the hart's own chain or nothing, and the invariant follows its commands *)
(* one by one.                                                             *)

(* A hart that had its device, which still works, to itself so far. *)
Sole(h) ==
  /\ pc[h] \in Busy \cup {"done"} /\ Dev(h) \in Queued \ broken
  /\ call[h].alone

Exclusive(h) == \A k \in Harts \ {h} : call[k].dev # Dev(h)

(* Its chain stands in the queue, and is all that the device will find, or *)
(* nothing is left to serve.                                               *)
DescOf(h, c, k) ==
  [hart |-> h, part |-> c[k + 1].part, write |-> c[k + 1].write, more |-> k + 1 < Len(c)]

StandsIn(desc, h, c, at) == \A k \in 0 .. (Len(c) - 1) : desc[At(at, k)] = DescOf(h, c, k)

Stands(h) == StandsIn(queue[Dev(h)].desc, h, Chain(Op(h)), call[h].at)

Idle(h) == queue[Dev(h)].seen = queue[Dev(h)].idx

QueueOK(h) ==
  /\ pc[h] \notin {"notify", "wait"} => Idle(h)
  /\ pc[h] = "publish" => Stands(h)
  /\ ~Idle(h) => /\ queue[Dev(h)].seen + 1 = queue[Dev(h)].idx
                 /\ queue[Dev(h)].ring[queue[Dev(h)].seen % QSize] = call[h].at
                 /\ Stands(h)

(* The command has been carried out. *)
Carried(h) == pc[h] = "done" \/ (pc[h] \in {"notify", "wait"} /\ Idle(h))

StatusOK(h) == /\ Carried(h) => Succeeded(h)
               /\ pc[h] = "done" => call[h].result /\ Len(call[h].cmds) = 1

(* The buffer has room for the sectors of the range, and holds f's bytes. *)
BufferOK(h) ==
  \E r \in Ranges :
    /\ call[h].byte = r.byte /\ call[h].size = r.size
    /\ call[h].buf = [i \in 1 .. AlignedLen(r.byte, r.size) |-> call[h].buf[i]]

HoldsBytes(h, f) == \A i \in DOMAIN call[h].buf : call[h].buf[i] = f[SectorOf(h) + i - 1]

ReadOK(h) ==
  /\ call[h].fn = "block_read_wrapper" /\ call[h].cmds = <<"in">> /\ BufferOK(h)
  /\ call[h].want = disk
  /\ Carried(h) => HoldsBytes(h, disk)

(* block_write_wrapper before and after it overlaid what it read. *)
WriteInOK(h) ==
  /\ call[h].fn = "block_write_wrapper" /\ call[h].cmds = <<"in", "out">> /\ BufferOK(h)
  /\ call[h].want = [b \in Disk |-> IF InRange(b, call[h]) THEN call[h].val ELSE disk[b]]
  /\ Carried(h) => HoldsBytes(h, disk)

WriteOutOK(h) ==
  /\ call[h].fn = "block_write_wrapper" /\ call[h].cmds = <<"out">> /\ BufferOK(h)
  /\ call[h].want = [b \in Disk |-> call[h].want[b]]
  /\ HoldsBytes(h, call[h].want)
  /\ \A b \in Disk : b - SectorOf(h) + 1 \in DOMAIN call[h].buf \/ call[h].want[b] = disk[b]
  /\ Carried(h) => disk = call[h].want

FlushOK(h) == call[h].fn = "block_flush" /\ call[h].cmds = <<"flush">>

RngOK(h) == call[h].fn = "rng_fill" /\ call[h].cmds = <<"rng">>

(* What the GPU was told before a command of gpu_setup. *)
Prior(op) == CASE op \in {"display", "create"} -> {}
               [] op = "attach" -> {"create"}
               [] op = "scanout" -> {"create", "attach"}
               [] OTHER -> {"create", "attach", "scanout"}

GpuLists ==
  {SetupCommands, <<"create", "attach", "scanout", "transfer", "screen">>,
   <<"attach", "scanout", "transfer", "screen">>, <<"scanout", "transfer", "screen">>,
   <<"transfer", "screen">>, <<"screen">>}

GpuOK(h) ==
  /\ call[h].fn \in {"gpu_setup", "gpu_redraw"} /\ call[h].cmds \in GpuLists
  /\ call[h].want \in Nat /\ call[h].want <= gpu.fb
  /\ (pc[h] # "submit" \/ call[h].fn = "gpu_setup") => Prior(Op(h)) \subseteq gpu.steps
  /\ Op(h) = "screen" => call[h].want <= gpu.resource
  /\ Carried(h) => /\ Op(h) \in gpu.steps
                   /\ Op(h) = "transfer" => call[h].want <= gpu.resource
                   /\ Op(h) = "screen" => call[h].want <= gpu.screen

CommandOK(h) ==
  \/ Kind(Dev(h)) = "block" /\ (ReadOK(h) \/ WriteInOK(h) \/ WriteOutOK(h) \/ FlushOK(h))
  \/ Kind(Dev(h)) = "rng" /\ RngOK(h)
  \/ Kind(Dev(h)) = "gpu" /\ GpuOK(h)

AloneOK(h) == Sole(h) => Exclusive(h) /\ QueueOK(h) /\ StatusOK(h) /\ CommandOK(h)

(* What is known of every hart. *)
CalledOK(h) ==
  /\ pc[h] = "idle" => call[h].fn = "none"
  /\ call[h].fn = "none" => call[h].dev = "none"
  /\ pc[h] \in {"input_lock", "handle", "pop"} => call[h].fn = "get_input"
  /\ pc[h] = "done" /\ call[h].fn # "get_input" => Dev(h) \in Queued
  /\ call[h].fn \notin {"none", "gpu_setup"} => PciDone /\ ready = Range(devices)
  /\ call[h].fn = "gpu_setup" => /\ h = Boot /\ call[h].alone /\ Kind(Dev(h)) = "gpu"
                                 /\ pc[h] \in Busy \cup {"done"} /\ Dev(h) \in Functions

(* The GPU works from the end of gpu_setup on; and only disks break. *)
GpuReady ==
  \A d \in ready : Kind(d) = "gpu" =>
    \/ Prior("transfer") \subseteq gpu.steps
    \/ call[Boot].fn = "gpu_setup" /\ Dev(Boot) = d

StateOK ==
  /\ disk = [b \in Disk |-> disk[b]]
  /\ DOMAIN gpu = {"steps", "fb", "resource", "screen"}
  /\ gpu.fb \in Nat /\ gpu.resource \in Nat /\ gpu.screen \in Nat
  /\ calls \in Nat
  /\ \A d \in broken : Kind(d) = "block"

AloneInv == StateOK /\ GpuReady /\ \A h \in Harts : CalledOK(h) /\ AloneOK(h)

-----------------------------------------------------------------------------
(* The fields of a call that no device writes, and all of them. *)
Keeps(k) ==
  /\ call'[k].fn = call[k].fn /\ call'[k].dev = call[k].dev /\ call'[k].cmds = call[k].cmds
  /\ call'[k].byte = call[k].byte /\ call'[k].size = call[k].size /\ call'[k].at = call[k].at
  /\ call'[k].val = call[k].val /\ call'[k].want = call[k].want /\ call'[k].alone = call[k].alone
  /\ call'[k].result = call[k].result

Unchanged(k) == Keeps(k) /\ call'[k].status = call[k].status /\ call'[k].buf = call[k].buf

(* A step that leaves alone what AloneOK says of h, or ends its being      *)
(* alone.                                                                  *)
LEMMA AloneKept ==
  ASSUME NEW h \in Harts, AloneOK(h), pc'[h] = pc[h], broken \subseteq broken',
         call'[h].alone => Unchanged(h),
         Sole(h) /\ call'[h].alone =>
           /\ \A k \in Harts \ {h} : call'[k].dev # Dev(h)
           /\ queue'[Dev(h)].desc = queue[Dev(h)].desc /\ queue'[Dev(h)].ring = queue[Dev(h)].ring
           /\ queue'[Dev(h)].seen = queue[Dev(h)].seen /\ queue'[Dev(h)].idx = queue[Dev(h)].idx
           /\ Kind(Dev(h)) = "block" => disk' = disk
           /\ Kind(Dev(h)) = "gpu" => gpu' = gpu
  PROVE  AloneOK(h)'
<1> SUFFICES ASSUME Sole(h)' PROVE (Exclusive(h) /\ QueueOK(h) /\ StatusOK(h) /\ CommandOK(h))'
  BY DEF AloneOK
<1>1. /\ call'[h].fn = call[h].fn /\ call'[h].dev = call[h].dev /\ call'[h].cmds = call[h].cmds
      /\ call'[h].byte = call[h].byte /\ call'[h].size = call[h].size /\ call'[h].at = call[h].at
      /\ call'[h].val = call[h].val /\ call'[h].want = call[h].want /\ call'[h].alone = call[h].alone
      /\ call'[h].result = call[h].result /\ call'[h].status = call[h].status
      /\ call'[h].buf = call[h].buf /\ call'[h].alone
  BY DEF Sole, Unchanged, Keeps
<1>2. Dev(h)' = Dev(h) /\ Op(h)' = Op(h) /\ SectorOf(h)' = SectorOf(h)
  BY <1>1 DEF Dev, Op, SectorOf
<1>3. Sole(h)
  BY <1>1, <1>2 DEF Sole
<1>4. Exclusive(h) /\ QueueOK(h) /\ StatusOK(h) /\ CommandOK(h)
  BY <1>3 DEF AloneOK
<1>5. /\ \A k \in Harts \ {h} : call'[k].dev # Dev(h)
      /\ queue'[Dev(h)].desc = queue[Dev(h)].desc /\ queue'[Dev(h)].ring = queue[Dev(h)].ring
      /\ queue'[Dev(h)].seen = queue[Dev(h)].seen /\ queue'[Dev(h)].idx = queue[Dev(h)].idx
      /\ Kind(Dev(h)) = "block" => disk' = disk
      /\ Kind(Dev(h)) = "gpu" => gpu' = gpu
  BY <1>1, <1>3
<1>6. Exclusive(h)'
  BY <1>2, <1>5 DEF Exclusive
<1>7. Idle(h)' = Idle(h) /\ Stands(h)' = Stands(h) /\ Carried(h)' = Carried(h)
  BY <1>1, <1>2, <1>5 DEF Idle, Stands, Carried
<1>8. QueueOK(h)'
  BY <1>1, <1>2, <1>4, <1>5, <1>7 DEF QueueOK
<1>9. StatusOK(h)'
  BY <1>1, <1>2, <1>4, <1>7 DEF StatusOK, Succeeded
<1>10. CommandOK(h)'
  <2>1. CASE Kind(Dev(h)) = "block"
    <3>1. BufferOK(h)' = BufferOK(h) /\ HoldsBytes(h, disk)' = HoldsBytes(h, disk)
      BY <1>1, <1>2, <1>5, <2>1 DEF BufferOK, HoldsBytes
    <3>2. HoldsBytes(h, call[h].want)' = HoldsBytes(h, call[h].want)
      BY <1>1, <1>2 DEF HoldsBytes
    <3>3. ReadOK(h) => ReadOK(h)'
      BY <1>1, <1>5, <1>7, <2>1, <3>1 DEF ReadOK
    <3>4. WriteInOK(h) => WriteInOK(h)'
      BY <1>1, <1>5, <1>7, <2>1, <3>1 DEF WriteInOK, InRange
    <3>5. WriteOutOK(h) => WriteOutOK(h)'
      BY <1>1, <1>2, <1>5, <1>7, <2>1, <3>1, <3>2 DEF WriteOutOK
    <3>6. FlushOK(h) => FlushOK(h)'
      BY <1>1 DEF FlushOK
    <3>7. QED
      BY <1>2, <1>4, <2>1, <3>3, <3>4, <3>5, <3>6 DEF CommandOK
  <2>2. CASE Kind(Dev(h)) # "block"
    <3>1. RngOK(h) => RngOK(h)'
      BY <1>1 DEF RngOK
    <3>2. Kind(Dev(h)) = "gpu" /\ GpuOK(h) => GpuOK(h)'
      BY <1>1, <1>2, <1>5, <1>7 DEF GpuOK
    <3>3. QED
      BY <1>2, <1>4, <2>2, <3>1, <3>2 DEF CommandOK
  <2>3. QED
    BY <2>1, <2>2
<1>11. QED
  BY <1>6, <1>8, <1>9, <1>10

(* The same, of a call that does not change at all. *)
LEMMA AloneFrame ==
  ASSUME NEW h \in Harts, AloneOK(h), pc'[h] = pc[h], broken \subseteq broken',
         call'[h].alone => call'[h] = call[h],
         Sole(h) /\ call'[h].alone =>
           /\ \A k \in Harts \ {h} : call'[k].dev # Dev(h)
           /\ queue'[Dev(h)].desc = queue[Dev(h)].desc /\ queue'[Dev(h)].ring = queue[Dev(h)].ring
           /\ queue'[Dev(h)].seen = queue[Dev(h)].seen /\ queue'[Dev(h)].idx = queue[Dev(h)].idx
           /\ Kind(Dev(h)) = "block" => disk' = disk
           /\ Kind(Dev(h)) = "gpu" => gpu' = gpu
  PROVE  AloneOK(h)'
  BY AloneKept DEF Unchanged, Keeps

(* A step of hart h with its own call and its own queue. *)
LEMMA OtherHarts ==
  ASSUME NEW h \in Harts, AloneInv,
         broken \subseteq broken', UNCHANGED <<disk, gpu>>,
         \A k \in Harts \ {h} : pc'[k] = pc[k] /\ call'[k] = call[k],
         \A d \in Queued \ {Dev(h)} : queue'[d] = queue[d],
         call'[h].dev \notin Queued \ {Dev(h)}
  PROVE  \A k \in Harts \ {h} : AloneOK(k)'
<1> SUFFICES ASSUME NEW k \in Harts \ {h} PROVE AloneOK(k)'
  OBVIOUS
<1>1. AloneOK(k) /\ pc'[k] = pc[k] /\ call'[k] = call[k]
  BY DEF AloneInv
<1>2. ASSUME Sole(k)
      PROVE  /\ \A j \in Harts \ {k} : call'[j].dev # Dev(k)
             /\ queue'[Dev(k)] = queue[Dev(k)]
  <2>1. Exclusive(k) /\ Dev(k) \in Queued
    BY <1>1, <1>2 DEF AloneOK, Sole
  <2>2. Dev(k) # Dev(h)
    BY <2>1 DEF Exclusive, Dev
  <2>3. queue'[Dev(k)] = queue[Dev(k)]
    BY <2>1, <2>2
  <2>4. ASSUME NEW j \in Harts \ {k} PROVE call'[j].dev # Dev(k)
    <3>1. CASE j = h
      BY <2>1, <2>2, <3>1
    <3>2. CASE j # h
      BY <2>1, <3>2 DEF Exclusive
    <3>3. QED
      BY <3>1, <3>2
  <2>5. QED
    BY <2>3, <2>4
<1>3. QED
  BY <1>1, <1>2, AloneFrame

(* What is known of a hart depends on little. *)
LEMMA CalledFrame ==
  ASSUME NEW h \in Harts, CalledOK(h), pc'[h] = pc[h], SameCall(h),
         call'[h].alone = call[h].alone \/ call[h].fn # "gpu_setup",
         UNCHANGED <<ready, pciVars>>
  PROVE  CalledOK(h)'
<1>1. /\ call'[h].fn = call[h].fn /\ call'[h].dev = call[h].dev /\ Dev(h)' = Dev(h)
  BY DEF SameCall, Dev
<1>2. PciDone' = PciDone /\ Range(devices)' = Range(devices)
  BY DEF PciDone, pciVars
<1>3. QED
  BY <1>1, <1>2 DEF CalledOK

-----------------------------------------------------------------------------
(* The steps of a command before the device answers. *)

(* What CommandOK says depends on the call's status and place only as far  *)
(* as Carried does.                                                        *)
LEMMA CommandFrame ==
  ASSUME NEW h \in Harts, CommandOK(h), UNCHANGED <<disk, gpu>>,
         call'[h].fn = call[h].fn, call'[h].dev = call[h].dev, call'[h].cmds = call[h].cmds,
         call'[h].byte = call[h].byte, call'[h].size = call[h].size, call'[h].val = call[h].val,
         call'[h].buf = call[h].buf, call'[h].want = call[h].want,
         Carried(h)' => Carried(h),
         Kind(Dev(h)) = "gpu" /\ pc[h] = "submit" => Prior(Op(h)) \subseteq gpu.steps
  PROVE  CommandOK(h)'
<1>1. Dev(h)' = Dev(h) /\ Op(h)' = Op(h) /\ SectorOf(h)' = SectorOf(h)
  BY DEF Dev, Op, SectorOf
<1>2. BufferOK(h)' = BufferOK(h) /\ HoldsBytes(h, disk)' = HoldsBytes(h, disk)
  BY <1>1 DEF BufferOK, HoldsBytes
<1>3. HoldsBytes(h, call[h].want)' = HoldsBytes(h, call[h].want)
  BY <1>1 DEF HoldsBytes
<1>4. ReadOK(h) => ReadOK(h)'
  BY <1>2 DEF ReadOK
<1>5. WriteInOK(h) => WriteInOK(h)'
  BY <1>2 DEF WriteInOK, InRange
<1>6. WriteOutOK(h) => WriteOutOK(h)'
  BY <1>1, <1>2, <1>3 DEF WriteOutOK
<1>7. FlushOK(h) => FlushOK(h)'
  BY DEF FlushOK
<1>8. RngOK(h) => RngOK(h)'
  BY DEF RngOK
<1>9. Kind(Dev(h)) = "gpu" /\ GpuOK(h) => GpuOK(h)'
  BY <1>1 DEF GpuOK
<1>10. QED
  BY <1>1, <1>4, <1>5, <1>6, <1>7, <1>8, <1>9 DEF CommandOK

(* The rest of the invariant, for a step of a hart's command. *)
LEMMA HartAlone ==
  ASSUME IInv, AloneInv, NEW h \in Harts, pc[h] \in Busy, NEW to \in Busy \cup {"done"},
         pc' = [pc EXCEPT ![h] = to],
         UNCHANGED <<pciVars, ready, calls, disk, broken, gpu>>,
         \A k \in Harts \ {h} : call'[k] = call[k],
         call'[h].fn = call[h].fn, call'[h].dev = call[h].dev, call'[h].alone = call[h].alone,
         \A d \in Queued \ {Dev(h)} : queue'[d] = queue[d],
         AloneOK(h)'
  PROVE  AloneInv'
<1>1. pc'[h] = to /\ \A k \in Harts \ {h} : pc'[k] = pc[k]
  BY DEF IInv, TypeOK
<1>2. StateOK'
  BY DEF AloneInv, StateOK
<1>3. Boot \in Harts
  BY VirtioAssumption
<1>4. \A k \in Harts : call'[k].fn = call[k].fn /\ call'[k].dev = call[k].dev /\ Dev(k)' = Dev(k)
  BY DEF Dev
<1>5. GpuReady'
  BY <1>3, <1>4 DEF AloneInv, GpuReady
<1>6. \A k \in Harts \ {h} : AloneOK(k)'
  <2>1. call'[h].dev \notin Queued \ {Dev(h)}
    BY DEF Dev
  <2>2. QED
    BY <1>1, <2>1, OtherHarts
<1>7. \A k \in Harts \ {h} : CalledOK(k)'
  BY <1>1, CalledFrame DEF AloneInv, SameCall
<1>8. CalledOK(h)'
  <2>1. PciDone' = PciDone /\ Range(devices)' = Range(devices)
    BY DEF PciDone, pciVars
  <2>2. CalledOK(h) /\ Dev(h) \in Queued
    BY DEF AloneInv, IInv, CallInv
  <2>3. to \notin {"idle", "input_lock", "handle", "pop"}
    BY DEF Busy
  <2>4. call[h].fn = "gpu_setup" => h = Boot /\ call[h].alone /\ Kind(Dev(h)) = "gpu" /\ Dev(h) \in Functions
    BY <2>2 DEF CalledOK
  <2>5. QED
    BY <1>1, <1>4, <2>1, <2>2, <2>3, <2>4 DEF CalledOK
<1>9. QED
  BY <1>2, <1>5, <1>6, <1>7, <1>8 DEF AloneInv

(* A GPU that is set up has been told all that any command needs. *)
LEMMA PriorSetup == \A op : Prior(op) \subseteq Prior("transfer")
  BY DEF Prior

(* Submitting a command changes nothing that the device will find.  On    *)
(* the GPU, gpu_setup has come before or is what is running.               *)
LEMMA SubmitAlone == ASSUME IInv, AloneInv, NEW h \in Harts, Submit(h) PROVE AloneInv'
<1>1. /\ pc[h] = "submit" /\ pc[h] \in Busy /\ Dev(h) \in ready
      /\ pc' = [pc EXCEPT ![h] = "lock"] /\ pc'[h] = "lock" /\ "lock" \in Busy \cup {"done"}
      /\ UNCHANGED <<pciVars, ready, queue, calls, disk, broken, gpu>>
  BY DEF Submit, Busy, IInv, TypeOK
<1>2. /\ \A k \in Harts \ {h} : call'[k] = call[k]
      /\ call'[h].fn = call[h].fn /\ call'[h].dev = call[h].dev /\ call'[h].cmds = call[h].cmds
      /\ call'[h].byte = call[h].byte /\ call'[h].size = call[h].size /\ call'[h].val = call[h].val
      /\ call'[h].buf = call[h].buf /\ call'[h].want = call[h].want
      /\ call'[h].alone = call[h].alone
  <2>1. DOMAIN call = Harts /\ DOMAIN call[h] = CallFields
    BY DEF IInv, TypeOK
  <2>2. call' = [call EXCEPT ![h] = [[call[h] EXCEPT !.status = 7] EXCEPT !.at = queue[Dev(h)].driver_idx]]
    BY <2>1 DEF Submit, CallFields
  <2>3. QED
    BY <2>1, <2>2 DEF CallFields
<1>3. AloneOK(h)'
  <2> SUFFICES ASSUME Sole(h)' PROVE (Exclusive(h) /\ QueueOK(h) /\ StatusOK(h) /\ CommandOK(h))'
    BY DEF AloneOK
  <2>1. Dev(h)' = Dev(h)
    BY <1>2 DEF Dev
  <2>2. Sole(h)
    BY <1>1, <1>2, <2>1 DEF Sole
  <2>3. Exclusive(h) /\ QueueOK(h) /\ CommandOK(h)
    BY <2>2 DEF AloneInv, AloneOK
  <2>4. Exclusive(h)'
    BY <1>2, <2>1, <2>3 DEF Exclusive
  <2>5. Idle(h) /\ Idle(h)' /\ ~Carried(h)'
    BY <1>1, <2>1, <2>3 DEF QueueOK, Idle, Carried
  <2>6. QueueOK(h)' /\ StatusOK(h)'
    BY <1>1, <2>5 DEF QueueOK, StatusOK
  <2>7. Kind(Dev(h)) = "gpu" => Prior(Op(h)) \subseteq gpu.steps
    <3> SUFFICES ASSUME Kind(Dev(h)) = "gpu" PROVE Prior(Op(h)) \subseteq gpu.steps
      OBVIOUS
    <3>1. CASE Prior("transfer") \subseteq gpu.steps
      BY <3>1, PriorSetup
    <3>2. CASE call[Boot].fn = "gpu_setup" /\ Dev(Boot) = Dev(h)
      <4>1. Boot = h
        BY <2>3, <3>2, VirtioAssumption DEF Exclusive, Dev
      <4>2. GpuOK(h)
        BY <2>3 DEF CommandOK
      <4>3. QED
        BY <3>2, <4>1, <4>2 DEF GpuOK
    <3>3. QED
      BY <1>1, <3>1, <3>2 DEF AloneInv, GpuReady
  <2>8. CommandOK(h)'
    BY <1>1, <1>2, <2>3, <2>5, <2>7, CommandFrame
  <2>9. QED
    BY <2>4, <2>6, <2>8
<1>4. QED
  BY <1>1, <1>2, <1>3, HartAlone

(* A step of a command that leaves the calls alone: what it does to the    *)
(* queue decides.                                                          *)
LEMMA QueueStep ==
  ASSUME IInv, AloneInv, NEW h \in Harts, pc[h] \in Busy \ {"submit"},
         NEW to \in {"fill", "publish", "notify", "wait"},
         pc' = [pc EXCEPT ![h] = to],
         UNCHANGED <<pciVars, ready, call, calls, disk, broken, gpu>>,
         \A d \in Queued \ {Dev(h)} : queue'[d] = queue[d],
         Sole(h) /\ QueueOK(h) => QueueOK(h)' /\ (Carried(h)' => Carried(h))
  PROVE  AloneInv'
<1>1. pc'[h] = to /\ Dev(h)' = Dev(h) /\ to \in Busy \cup {"done"} /\ to # "done" /\ pc[h] # "submit"
  BY DEF Dev, Busy, IInv, TypeOK
<1>2. AloneOK(h)'
  <2> SUFFICES ASSUME Sole(h)' PROVE (Exclusive(h) /\ QueueOK(h) /\ StatusOK(h) /\ CommandOK(h))'
    BY DEF AloneOK
  <2>1. Sole(h)
    BY <1>1 DEF Sole
  <2>2. Exclusive(h) /\ QueueOK(h) /\ StatusOK(h) /\ CommandOK(h)
    BY <2>1 DEF AloneInv, AloneOK
  <2>3. QueueOK(h)' /\ (Carried(h)' => Carried(h))
    BY <2>1, <2>2
  <2>4. Exclusive(h)'
    BY <1>1, <2>2 DEF Exclusive
  <2>5. Succeeded(h)' = Succeeded(h)
    BY DEF Succeeded, Op
  <2>6. StatusOK(h)'
    BY <1>1, <2>2, <2>3, <2>5 DEF StatusOK
  <2>7. CommandOK(h)'
    BY <1>1, <2>2, <2>3, CommandFrame
  <2>8. QED
    BY <2>3, <2>4, <2>6, <2>7
<1>3. QED
  BY <1>1, <1>2, HartAlone

(* Taking the lock, and telling the device. *)
LEMMA LockNotifyAlone ==
  ASSUME IInv, AloneInv, NEW h \in Harts, Lock(h) \/ Notify(h) PROVE AloneInv'
<1>1. PICK to \in {"fill", "wait"} :
        /\ pc' = [pc EXCEPT ![h] = to] /\ pc'[h] = to
        /\ to = "fill" => pc[h] = "lock"
        /\ to = "wait" => pc[h] = "notify"
        /\ UNCHANGED <<pciVars, ready, call, calls, disk, broken, gpu>>
        /\ Dev(h) \in Queued
        /\ \E x : \/ queue' = [queue EXCEPT ![Dev(h)] = [queue[Dev(h)] EXCEPT !.lock = x]]
                  \/ queue' = [queue EXCEPT ![Dev(h)] = [queue[Dev(h)] EXCEPT !.notified = x]]
  <2>1. pc[h] \in Busy
    BY DEF Lock, Notify, Busy
  <2>2. Dev(h) \in Queued
    BY <2>1 DEF IInv, CallInv
  <2>3. QED
    BY <2>2 DEF Lock, Notify, IInv, TypeOK
<1>2. pc[h] \in Busy \ {"submit"} /\ to \in {"fill", "publish", "notify", "wait"} /\ Dev(h)' = Dev(h)
  BY <1>1 DEF Busy, Dev
<1>3. /\ \A d \in Queued \ {Dev(h)} : queue'[d] = queue[d]
      /\ queue'[Dev(h)].desc = queue[Dev(h)].desc /\ queue'[Dev(h)].ring = queue[Dev(h)].ring
      /\ queue'[Dev(h)].seen = queue[Dev(h)].seen /\ queue'[Dev(h)].idx = queue[Dev(h)].idx
  BY <1>1 DEF IInv, TypeOK, Queue
<1>4. Idle(h)' = Idle(h) /\ Stands(h)' = Stands(h)
  BY <1>1, <1>2, <1>3 DEF Idle, Stands, Op
<1>5. QueueOK(h) => QueueOK(h)'
  BY <1>1, <1>2, <1>3, <1>4 DEF QueueOK
<1>6. Carried(h)' => Carried(h)
  BY <1>1, <1>4 DEF Carried
<1>7. QED
  BY <1>1, <1>2, <1>3, <1>5, <1>6, QueueStep

(* The place at a distance has that distance. *)
LEMMA OffsetAt ==
  ASSUME NEW at \in Positions, NEW k \in Positions
  PROVE  At(at, k) \in Positions /\ Offset(at, At(at, k)) = k
<1>1. QSize \in Nat \ {0} /\ at \in 0 .. (QSize - 1) /\ k \in 0 .. (QSize - 1)
  BY QueueSize DEF Positions
<1>2. PICK i \in Positions : i = At(at, k)
  BY AtSteps
<1>3. i = IF at + k < QSize THEN at + k ELSE at + k - QSize
  <2>1. at + k < QSize => (at + k) % QSize = at + k
    BY <1>1, ModBelow
  <2>2. ~(at + k < QSize) => (at + k) % QSize = at + k - QSize
    <3> SUFFICES ASSUME ~(at + k < QSize) PROVE (at + k) % QSize = at + k - QSize
      OBVIOUS
    <3>1. PICK x \in QSize .. (2 * QSize - 1) : x = at + k
      BY <1>1
    <3>2. x % QSize = x - QSize
      BY <1>1, ModWrap
    <3>3. QED
      BY <1>1, <3>1, <3>2
  <2>3. QED
    BY <1>2, <2>1, <2>2 DEF At
<1>4. Offset(at, i) = IF i >= at THEN i - at ELSE i + QSize - at
  BY Offsets
<1>5. Offset(at, i) = k
  BY <1>1, <1>3, <1>4
<1>6. QED
  BY <1>2, <1>5

(* A chain that is filled in stands in the queue. *)
LEMMA FillAlone == ASSUME IInv, AloneInv, NEW h \in Harts, Fill(h) PROVE AloneInv'
<1> DEFINE d == Dev(h)
           at == call[h].at
           c == Chain(Op(h))
<1>0. /\ pc[h] = "fill" /\ pc[h] \in Busy \ {"submit"} /\ d \in Queued
      /\ UNCHANGED <<pciVars, ready, call, calls, disk, broken, gpu>>
      /\ at \in Positions /\ queue[d] \in Queue
      /\ pc' = [pc EXCEPT ![h] = "publish"] /\ pc'[h] = "publish"
  BY DEF IInv, TypeOK, CallInv, Busy, Fill, pciVars
<1>1. PICK len \in 1 .. 3 : Len(c) = len
  BY ChainsOK
<1> DEFINE new == Filled(queue[d].desc, h, c, len, at)
<1>2. queue' = [queue EXCEPT ![d] = [queue[d] EXCEPT !.desc = new]]
  BY <1>0, <1>1 DEF Fill, Filled, Positions, Offset
<1>3. Dev(h)' = d /\ Op(h)' = Op(h)
  BY <1>0 DEF Dev, Op
<1>4. \A k \in 0 .. (Len(c) - 1) : new[At(at, k)] = DescOf(h, c, k)
  <2> SUFFICES ASSUME NEW k \in 0 .. (Len(c) - 1) PROVE new[At(at, k)] = DescOf(h, c, k)
    OBVIOUS
  <2>1. k \in Positions /\ k < len
    BY <1>1, QueueSize DEF Positions
  <2>2. PICK i \in Positions : i = At(at, k) /\ Offset(at, i) = k
    BY <1>0, <2>1, OffsetAt
  <2> HIDE DEF c, at
  <2>3. new[i] = [hart |-> h, part |-> c[k + 1].part, write |-> c[k + 1].write, more |-> k + 1 < len]
    BY <2>1, <2>2 DEF Filled
  <2>4. QED
    BY <1>1, <2>2, <2>3 DEF DescOf
<1> HIDE DEF d, at, c, new
<1>5. /\ queue'[d].desc = new
      /\ queue'[d].ring = queue[d].ring /\ queue'[d].idx = queue[d].idx
      /\ queue'[d].seen = queue[d].seen
      /\ \A e \in Queued \ {d} : queue'[e] = queue[e]
  BY <1>0, <1>2 DEF IInv, TypeOK, Queue
<1>6. Idle(h)' = Idle(h)
  BY <1>3, <1>5 DEF Idle, d
<1>7. Stands(h)'
  <2>1. StandsIn(new, h, c, at)
    BY <1>4 DEF StandsIn
  <2>2. queue'[Dev(h)'].desc = new /\ Chain(Op(h))' = c /\ call'[h].at = at
    BY <1>0, <1>3, <1>5 DEF c, at, d
  <2>3. QED
    BY <2>1, <2>2 DEF Stands
<1>8. QueueOK(h) => QueueOK(h)'
  BY <1>0, <1>6, <1>7 DEF QueueOK
<1>9. ~Carried(h)'
  BY <1>0 DEF Carried
<1>10. QED
  BY <1>0, <1>5, <1>8, <1>9, QueueStep DEF d

(* Publishing gives the device that chain and nothing else. *)
LEMMA PublishAlone == ASSUME IInv, AloneInv, NEW h \in Harts, Publish(h) PROVE AloneInv'
<1> DEFINE d == Dev(h)
           at == call[h].at
           q == queue[d]
           ring == [q.ring EXCEPT ![q.idx % QSize] = at]
<1>0. /\ pc[h] = "publish" /\ pc[h] \in Busy \ {"submit"} /\ d \in Queued
      /\ UNCHANGED <<pciVars, ready, call, calls, disk, broken, gpu>>
      /\ at \in Positions /\ q \in Queue
      /\ pc' = [pc EXCEPT ![h] = "notify"] /\ pc'[h] = "notify"
  BY DEF IInv, TypeOK, CallInv, Busy, Publish, pciVars
<1>1. queue' = [queue EXCEPT ![d] = [[[[q EXCEPT !.ring = ring] EXCEPT !.idx = q.idx + 1]
                   EXCEPT !.driver_idx = (q.driver_idx + 1) % QSize] EXCEPT !.lock = FALSE]]
  BY <1>0 DEF Publish, Queue
<1>2. q.ring \in [Positions -> Positions] /\ q.idx \in Nat /\ q.seen \in Nat /\ q.idx % QSize \in Positions
  <2>1. \A x \in Nat : x % QSize \in Positions
    BY QueueSize, ModType DEF Positions
  <2>2. q.ring \in [Positions -> Positions] /\ q.idx \in Nat /\ q.seen \in Nat
    BY <1>0 DEF Queue
  <2>3. QED
    BY <2>1, <2>2
<1>3. ring[q.idx % QSize] = at
  BY <1>2
<1>4. Dev(h)' = d /\ Op(h)' = Op(h) /\ call'[h].at = at
  BY <1>0 DEF Dev, Op
<1> HIDE DEF ring
<1>5. /\ queue'[d].desc = q.desc /\ queue'[d].ring = ring
      /\ queue'[d].idx = q.idx + 1 /\ queue'[d].seen = q.seen
      /\ \A e \in Queued \ {d} : queue'[e] = queue[e]
  BY <1>0, <1>1 DEF IInv, TypeOK, Queue
<1> HIDE DEF d, q, at
<1>6. ASSUME QueueOK(h) PROVE QueueOK(h)' /\ ~Carried(h)'
  <2>1. q.seen = q.idx /\ Stands(h)
    BY <1>0, <1>6 DEF QueueOK, Idle, q, d
  <2>2. ~Idle(h)'
    BY <1>2, <1>4, <1>5, <2>1 DEF Idle
  <2>3. Stands(h)'
    BY <1>4, <1>5, <2>1 DEF Stands, q, d, at
  <2>4. queue'[d].ring[queue'[d].seen % QSize] = at
    BY <1>3, <1>5, <2>1
  <2>5. queue'[d].seen + 1 = queue'[d].idx
    BY <1>5, <2>1
  <2>6. QED
    BY <1>0, <1>4, <2>2, <2>3, <2>4, <2>5 DEF QueueOK, Carried
<1>7. QED
  BY <1>0, <1>5, <1>6, QueueStep DEF d

-----------------------------------------------------------------------------
(* The sectors of a range, and the arithmetic of the wrappers. *)

(* Rounding up a number of bytes that fits into m sectors. *)
LEMMA RoundUp ==
  ASSUME NEW s \in Nat \ {0}, NEW x \in Nat, NEW m \in Nat, x <= m * s
  PROVE  /\ AlignUp(x, s) \in Nat /\ x <= AlignUp(x, s) /\ AlignUp(x, s) <= m * s
<1>1. PICK y \in Nat : y = x + s - 1
  OBVIOUS
<1>2. PICK k \in Nat : k = y \div s
  OBVIOUS
<1>3. k * s <= y /\ y < k * s + s
  BY <1>2
<1>4. k <= m
  <2>1. ASSUME k >= m + 1 PROVE FALSE
    <3>1. PICK e \in Nat : k = m + 1 + e
      <4>1. k - (m + 1) \in Nat /\ k = m + 1 + (k - (m + 1))
        BY <2>1
      <4>2. QED
        BY <4>1
    <3>2. k * s = m * s + s + e * s /\ e * s >= 0
      BY <3>1
    <3>3. QED
      BY <1>1, <1>3, <3>2
  <2>2. QED
    BY <2>1
<1>5. k * s <= m * s
  <2>1. PICK e \in Nat : m = k + e
    <3>1. m - k \in Nat /\ m = k + (m - k)
      BY <1>4
    <3>2. QED
      BY <3>1
  <2>2. m * s = k * s + e * s /\ e * s >= 0
    BY <2>1
  <2>3. QED
    BY <2>2
<1>6. AlignUp(x, s) = k * s
  BY <1>1, <1>2 DEF AlignUp
<1>7. QED
  BY <1>1, <1>3, <1>5, <1>6

(* The sectors that hold a range are on the disk. *)
LEMMA SectorsOfRange ==
  ASSUME NEW r \in Ranges
  PROVE  LET m == r.byte % SectorSize
             start == (r.byte \div SectorSize) * SectorSize
             n == AlignedLen(r.byte, r.size)
         IN /\ m \in Nat /\ start \in Nat /\ n \in Nat \ {0} /\ r.byte = start + m
            /\ r.byte \in Nat /\ r.size \in Nat /\ m + r.size <= n
            /\ start + n <= NumSectors * SectorSize
<1>1. PICK s \in Nat \ {0}, t \in Nat : s = SectorSize /\ t = NumSectors
  BY VirtioAssumption
<1>2. PICK b \in Nat, z \in Nat : b = r.byte /\ z = r.size
  BY VirtioAssumption
<1>3. z > 0 /\ b + z <= t * s
  BY <1>1, <1>2, DriverAssumption
<1>4. PICK k \in Nat, m \in Nat : k = b \div s /\ m = b % s
  OBVIOUS
<1>5. b = k * s + m
  BY <1>4
<1>6. k * s \in Nat /\ t * s \in Nat
  OBVIOUS
<1>7. k <= t
  <2>1. ASSUME k >= t + 1 PROVE FALSE
    <3>1. PICK e \in Nat : k = t + 1 + e
      <4>1. k - (t + 1) \in Nat /\ k = t + 1 + (k - (t + 1))
        BY <2>1
      <4>2. QED
        BY <4>1
    <3>2. k * s = t * s + s + e * s /\ e * s >= 0
      BY <3>1
    <3>3. QED
      BY <1>3, <1>5, <1>6, <3>2
  <2>2. QED
    BY <2>1
<1>8. PICK e \in Nat : t = k + e
  <2>1. t - k \in Nat /\ t = k + (t - k)
    BY <1>7
  <2>2. QED
    BY <2>1
<1>9. t * s = k * s + e * s /\ e * s \in Nat
  BY <1>8
<1>10. m + z <= e * s
  BY <1>3, <1>5, <1>6, <1>9
<1>11. PICK x \in Nat : x = m + z
  OBVIOUS
<1>12. AlignUp(x, s) \in Nat /\ x <= AlignUp(x, s) /\ AlignUp(x, s) <= e * s
  BY <1>10, <1>11, RoundUp
<1>13. PICK n \in Nat : n = AlignUp(x, s)
  BY <1>12
<1>14. n = AlignedLen(r.byte, r.size)
  BY <1>1, <1>2, <1>4, <1>11, <1>13 DEF AlignedLen
<1>15. n \in Nat \ {0} /\ m + z <= n /\ k * s + n <= t * s
  BY <1>3, <1>6, <1>9, <1>11, <1>12, <1>13
<1>16. QED
  BY <1>1, <1>2, <1>4, <1>5, <1>6, <1>14, <1>15

(* What block_write_wrapper overlays is what is to be on the disk. *)
LEMMA OverlayWanted ==
  ASSUME NEW h \in Harts, BufferOK(h), HoldsBytes(h, disk),
         call[h].want = [b \in Disk |-> IF InRange(b, call[h]) THEN call[h].val ELSE disk[b]]
  PROVE  /\ DOMAIN Overlay(h) = DOMAIN call[h].buf
         /\ \A i \in DOMAIN call[h].buf : Overlay(h)[i] = call[h].want[SectorOf(h) + i - 1]
         /\ \A b \in Disk : b - SectorOf(h) + 1 \in DOMAIN call[h].buf \/ call[h].want[b] = disk[b]
<1>1. PICK r \in Ranges :
        /\ call[h].byte = r.byte /\ call[h].size = r.size
        /\ call[h].buf = [i \in 1 .. AlignedLen(r.byte, r.size) |-> call[h].buf[i]]
  BY DEF BufferOK
<1>2. PICK m \in Nat, start \in Nat, n \in Nat \ {0} :
        /\ m = r.byte % SectorSize /\ start = (r.byte \div SectorSize) * SectorSize
        /\ n = AlignedLen(r.byte, r.size)
        /\ r.byte \in Nat /\ r.size \in Nat /\ m + r.size <= n
        /\ start + n <= NumSectors * SectorSize /\ r.byte = start + m
  BY SectorsOfRange
<1>3. PICK z \in Nat, b0 \in Nat, top \in Nat :
        z = r.size /\ b0 = r.byte /\ top = NumSectors * SectorSize
  BY <1>2, VirtioAssumption
<1>4. b0 = start + m /\ m + z <= n /\ start + n <= top
  BY <1>2, <1>3
<1>5. Disk = 0 .. (top - 1)
  BY <1>3 DEF Disk
<1>6. DOMAIN call[h].buf = 1 .. n /\ SectorOf(h) = start
  BY <1>1, <1>2 DEF SectorOf
<1>7. \A b \in Disk : InRange(b, call[h]) <=> b \in b0 .. (b0 + z - 1)
  BY <1>1, <1>3 DEF InRange
<1>8. /\ DOMAIN Overlay(h) = 1 .. n
      /\ \A i \in 1 .. n : Overlay(h)[i] = IF i \in (m + 1) .. (m + z) THEN call[h].val ELSE call[h].buf[i]
  BY <1>1, <1>2, <1>3, <1>6 DEF Overlay
<1>9. ASSUME NEW i \in 1 .. n PROVE Overlay(h)[i] = call[h].want[start + i - 1]
  <2>0. start + i - 1 \in 0 .. (top - 1)
    BY <1>4
  <2>1. PICK b \in Disk : b = start + i - 1
    BY <1>5, <2>0
  <2>2. b \in b0 .. (b0 + z - 1) <=> i \in (m + 1) .. (m + z)
    BY <1>4, <2>1
  <2>3. call[h].want[b] = IF b \in b0 .. (b0 + z - 1) THEN call[h].val ELSE disk[b]
    BY <1>7
  <2>4. call[h].buf[i] = disk[b]
    BY <1>6, <2>1 DEF HoldsBytes
  <2>5. QED
    BY <1>8, <2>1, <2>2, <2>3, <2>4
<1>10. ASSUME NEW b \in Disk, b - start + 1 \notin 1 .. n PROVE call[h].want[b] = disk[b]
  <2>1. b \notin b0 .. (b0 + z - 1)
    BY <1>4, <1>5, <1>10
  <2>2. QED
    BY <1>7, <2>1
<1>11. QED
  BY <1>6, <1>8, <1>9, <1>10

-----------------------------------------------------------------------------
(* The end of a command. *)

(* The rest of gpu_setup or gpu_redraw after a command, and what the next  *)
(* command needs.                                                          *)
LEMMA NextGpuCommand ==
  ASSUME NEW cmds \in GpuLists, Len(cmds) > 1
  PROVE  /\ Tail(cmds) \in GpuLists
         /\ Prior(Head(Tail(cmds))) \subseteq Prior(Head(cmds)) \cup {Head(cmds)}
         /\ Head(Tail(cmds)) = "screen" => Head(cmds) = "transfer"
<1>0. /\ Head(<<"create", "attach", "scanout", "transfer", "screen">>) = "create"
      /\ Head(<<"attach", "scanout", "transfer", "screen">>) = "attach"
      /\ Head(<<"scanout", "transfer", "screen">>) = "scanout"
      /\ Head(<<"transfer", "screen">>) = "transfer"
      /\ Head(<<"screen">>) = "screen"
  OBVIOUS
<1>1. CASE cmds = <<"display", "create", "attach", "scanout", "transfer", "screen">>
  <2>1. Tail(cmds) = <<"create", "attach", "scanout", "transfer", "screen">> /\ Head(cmds) = "display"
    BY <1>1
  <2>2. Head(Tail(cmds)) = "create"
    BY <1>0, <2>1
  <2>3. QED
    BY <2>1, <2>2 DEF GpuLists, Prior
<1>2. CASE cmds = <<"create", "attach", "scanout", "transfer", "screen">>
  <2>1. Tail(cmds) = <<"attach", "scanout", "transfer", "screen">> /\ Head(cmds) = "create"
    BY <1>2
  <2>2. Head(Tail(cmds)) = "attach"
    BY <1>0, <2>1
  <2>3. QED
    BY <2>1, <2>2 DEF GpuLists, Prior
<1>3. CASE cmds = <<"attach", "scanout", "transfer", "screen">>
  <2>1. Tail(cmds) = <<"scanout", "transfer", "screen">> /\ Head(cmds) = "attach"
    BY <1>3
  <2>2. Head(Tail(cmds)) = "scanout"
    BY <1>0, <2>1
  <2>3. QED
    BY <2>1, <2>2 DEF GpuLists, Prior
<1>4. CASE cmds = <<"scanout", "transfer", "screen">>
  <2>1. Tail(cmds) = <<"transfer", "screen">> /\ Head(cmds) = "scanout"
    BY <1>4
  <2>2. Head(Tail(cmds)) = "transfer"
    BY <1>0, <2>1
  <2>3. QED
    BY <2>1, <2>2 DEF GpuLists, Prior
<1>5. CASE cmds = <<"transfer", "screen">>
  <2>1. Tail(cmds) = <<"screen">> /\ Head(cmds) = "transfer"
    BY <1>5
  <2>2. Head(Tail(cmds)) = "screen"
    BY <1>0, <2>1
  <2>3. QED
    BY <2>1, <2>2 DEF GpuLists, Prior
<1>6. CASE cmds = <<"screen">>
  <2>1. Len(cmds) = 1
    BY <1>6
  <2>2. QED
    BY <2>1
<1>7. QED
  BY <1>1, <1>2, <1>3, <1>4, <1>5, <1>6, Zenon DEF GpuLists, SetupCommands

(* Such a call ends with "screen". *)
LEMMA LastGpuCommand ==
  ASSUME NEW cmds \in GpuLists, Len(cmds) = 1 PROVE Head(cmds) = "screen"
<1>1. /\ Len(<<"display", "create", "attach", "scanout", "transfer", "screen">>) = 6
      /\ Len(<<"create", "attach", "scanout", "transfer", "screen">>) = 5
      /\ Len(<<"attach", "scanout", "transfer", "screen">>) = 4
      /\ Len(<<"scanout", "transfer", "screen">>) = 3
      /\ Len(<<"transfer", "screen">>) = 2
      /\ Head(<<"screen">>) = "screen"
  OBVIOUS
<1>2. cmds = <<"screen">>
  BY <1>1 DEF GpuLists, SetupCommands
<1>3. QED
  BY <1>1, <1>2

(* The next command of a call that goes on. *)
LEMMA GoOn ==
  ASSUME NEW h \in Harts, CommandOK(h), Carried(h), pc[h] = "wait", Len(call[h].cmds) > 1,
         UNCHANGED <<disk, gpu>>, pc'[h] = "submit",
         call'[h].fn = call[h].fn, call'[h].dev = call[h].dev, call'[h].cmds = Tail(call[h].cmds),
         call'[h].byte = call[h].byte, call'[h].size = call[h].size, call'[h].val = call[h].val,
         call'[h].want = call[h].want,
         call[h].fn = "block_write_wrapper" => call'[h].buf = Overlay(h)
  PROVE  CommandOK(h)'
<1>1. ~Carried(h)' /\ Dev(h)' = Dev(h) /\ SectorOf(h)' = SectorOf(h)
  BY DEF Carried, Dev, SectorOf
<1>2. ~(Len(<<"in">>) > 1) /\ ~(Len(<<"out">>) > 1) /\ ~(Len(<<"flush">>) > 1) /\ ~(Len(<<"rng">>) > 1)
  OBVIOUS
<1>3. CASE WriteInOK(h) /\ Kind(Dev(h)) = "block"
  <2>1. /\ call[h].fn = "block_write_wrapper" /\ BufferOK(h) /\ HoldsBytes(h, disk)
        /\ call[h].want = [b \in Disk |-> IF InRange(b, call[h]) THEN call[h].val ELSE disk[b]]
    BY <1>3 DEF WriteInOK
  <2>2. /\ DOMAIN Overlay(h) = DOMAIN call[h].buf
        /\ \A i \in DOMAIN call[h].buf : Overlay(h)[i] = call[h].want[SectorOf(h) + i - 1]
        /\ \A b \in Disk : b - SectorOf(h) + 1 \in DOMAIN call[h].buf \/ call[h].want[b] = disk[b]
    BY <2>1, OverlayWanted
  <2>3. Overlay(h) = [i \in DOMAIN call[h].buf |-> Overlay(h)[i]]
    BY DEF Overlay
  <2>4. call'[h].cmds = <<"out">>
    BY <1>3 DEF WriteInOK
  <2>5. BufferOK(h)'
    <3>1. PICK r \in Ranges :
            /\ call[h].byte = r.byte /\ call[h].size = r.size
            /\ call[h].buf = [i \in 1 .. AlignedLen(r.byte, r.size) |-> call[h].buf[i]]
      BY <2>1 DEF BufferOK
    <3>2. DOMAIN call[h].buf = 1 .. AlignedLen(r.byte, r.size)
      BY <3>1
    <3>3. call'[h].buf = [i \in 1 .. AlignedLen(r.byte, r.size) |-> call'[h].buf[i]]
      BY <2>1, <2>3, <3>2
    <3>4. QED
      BY <3>1, <3>3 DEF BufferOK
  <2>6. DOMAIN call'[h].buf = DOMAIN call[h].buf /\ call'[h].buf = Overlay(h)
    BY <2>1, <2>2
  <2>7. HoldsBytes(h, call[h].want)'
    BY <1>1, <2>2, <2>6 DEF HoldsBytes
  <2>8. \A b \in Disk : b - SectorOf(h)' + 1 \in DOMAIN call'[h].buf \/ call'[h].want[b] = disk'[b]
    BY <1>1, <2>2, <2>6
  <2>9. call'[h].want = [b \in Disk |-> call'[h].want[b]]
    BY <2>1
  <2>10. WriteOutOK(h)'
    BY <1>1, <2>1, <2>4, <2>5, <2>7, <2>8, <2>9 DEF WriteOutOK
  <2>11. QED
    BY <1>1, <1>3, <2>10 DEF CommandOK
<1>4. CASE GpuOK(h) /\ Kind(Dev(h)) = "gpu"
  <2>1. call[h].cmds \in GpuLists
    BY <1>4 DEF GpuOK
  <2>2. /\ Tail(call[h].cmds) \in GpuLists
        /\ Prior(Head(Tail(call[h].cmds))) \subseteq Prior(Op(h)) \cup {Op(h)}
        /\ Head(Tail(call[h].cmds)) = "screen" => Op(h) = "transfer"
    BY <2>1, NextGpuCommand DEF Op
  <2>3. Op(h)' = Head(Tail(call[h].cmds))
    BY DEF Op
  <2>4. Prior(Op(h))' = Prior(Op(h)')
    OBVIOUS
  <2>5. Prior(Op(h)') \subseteq gpu.steps
    BY <1>4, <2>2, <2>3 DEF GpuOK
  <2>6. GpuOK(h)'
    BY <1>1, <1>4, <2>2, <2>3, <2>4, <2>5 DEF GpuOK
  <2>7. QED
    BY <1>1, <1>4, <2>6 DEF CommandOK
<1>5. CASE ReadOK(h) \/ WriteOutOK(h) \/ FlushOK(h) \/ RngOK(h)
  BY <1>2, <1>5 DEF ReadOK, WriteOutOK, FlushOK, RngOK
<1>6. QED
  BY <1>3, <1>4, <1>5 DEF CommandOK

(* A hart that stops waiting goes on with its next command, or its call is *)
(* done and succeeded.                                                     *)
LEMMA WaitAlone == ASSUME IInv, AloneInv, NEW h \in Harts, Wait(h) PROVE AloneInv'
<1>0. /\ pc[h] = "wait" /\ pc[h] \in Busy /\ Dev(h) \in Queued
      /\ UNCHANGED <<pciVars, ready, calls, disk, broken, gpu>>
      /\ DOMAIN call = Harts /\ DOMAIN call[h] = CallFields
      /\ queue[Dev(h)] \in Queue /\ DOMAIN queue = Queued
  BY DEF IInv, TypeOK, CallInv, Busy, Wait
<1>1. queue' = [queue EXCEPT ![Dev(h)] = [queue[Dev(h)] EXCEPT !.device_idx = queue[Dev(h)].used]]
  BY <1>0 DEF Wait
<1>2. /\ \A d \in Queued \ {Dev(h)} : queue'[d] = queue[d]
      /\ queue'[Dev(h)].idx = queue[Dev(h)].idx /\ queue'[Dev(h)].seen = queue[Dev(h)].seen
  BY <1>0, <1>1 DEF Queue
<1>3. CASE /\ Succeeded(h) /\ Len(call[h].cmds) > 1
           /\ call' = [call EXCEPT ![h].cmds = Tail(@),
                 ![h].buf = IF call[h].fn = "block_write_wrapper" THEN Overlay(h) ELSE @]
           /\ pc' = [pc EXCEPT ![h] = "submit"]
  <2>1. PICK b : b = IF call[h].fn = "block_write_wrapper" THEN Overlay(h) ELSE call[h].buf
    OBVIOUS
  <2>2. call' = [call EXCEPT ![h] = [[call[h] EXCEPT !.cmds = Tail(call[h].cmds)] EXCEPT !.buf = b]]
    BY <1>0, <1>3, <2>1 DEF CallFields
  <2>3. /\ call'[h].fn = call[h].fn /\ call'[h].dev = call[h].dev
        /\ call'[h].cmds = Tail(call[h].cmds)
        /\ call'[h].byte = call[h].byte /\ call'[h].size = call[h].size /\ call'[h].val = call[h].val
        /\ call'[h].want = call[h].want /\ call'[h].buf = b /\ call'[h].alone = call[h].alone
    BY <1>0, <2>2 DEF CallFields
  <2>4. \A k \in Harts \ {h} : call'[k] = call[k]
    BY <1>0, <2>2
  <2>5. pc'[h] = "submit" /\ Dev(h)' = Dev(h) /\ "submit" \in Busy \cup {"done"}
    BY <1>3, <2>3 DEF IInv, TypeOK, Dev, Busy
  <2>6. ASSUME Sole(h)' PROVE (Exclusive(h) /\ QueueOK(h) /\ StatusOK(h) /\ CommandOK(h))'
    <3>1. Sole(h) /\ Dev(h) \notin broken
      BY <1>0, <2>3, <2>5, <2>6 DEF Sole
    <3>2. Exclusive(h) /\ CommandOK(h)
      BY <3>1 DEF AloneInv, AloneOK
    <3>3. Idle(h) /\ Carried(h)
      BY <1>0, <3>1 DEF Wait, DeviceIdle, Idle, Carried
    <3>4. Idle(h)' /\ ~Carried(h)'
      BY <1>2, <2>5, <3>3 DEF Idle, Carried
    <3>5. QueueOK(h)' /\ StatusOK(h)'
      BY <2>5, <3>4 DEF QueueOK, StatusOK
    <3>6. Exclusive(h)'
      BY <2>4, <2>5, <3>2 DEF Exclusive
    <3>7. CommandOK(h)'
      BY <1>0, <1>3, <2>1, <2>3, <2>5, <3>2, <3>3, GoOn
    <3>8. QED
      BY <3>5, <3>6, <3>7
  <2>7. AloneOK(h)'
    BY <2>6 DEF AloneOK
  <2>8. QED
    BY <1>0, <1>2, <1>3, <2>3, <2>4, <2>5, <2>7, HartAlone
<1>4. CASE /\ ~Succeeded(h) \/ Len(call[h].cmds) = 1
           /\ call' = [call EXCEPT ![h].result = Succeeded(h)]
           /\ pc' = [pc EXCEPT ![h] = "done"]
  <2>1. PICK s : s = Succeeded(h)
    OBVIOUS
  <2>2. call' = [call EXCEPT ![h] = [call[h] EXCEPT !.result = s]]
    BY <1>0, <1>4, <2>1
  <2>3. /\ call'[h].fn = call[h].fn /\ call'[h].dev = call[h].dev
        /\ call'[h].cmds = call[h].cmds /\ call'[h].status = call[h].status
        /\ call'[h].byte = call[h].byte /\ call'[h].size = call[h].size /\ call'[h].val = call[h].val
        /\ call'[h].want = call[h].want /\ call'[h].buf = call[h].buf /\ call'[h].alone = call[h].alone
        /\ call'[h].result = s
    BY <1>0, <2>2 DEF CallFields
  <2>4. \A k \in Harts \ {h} : call'[k] = call[k]
    BY <1>0, <2>2
  <2>5. pc'[h] = "done" /\ Dev(h)' = Dev(h) /\ "done" \in Busy \cup {"done"}
    BY <1>4, <2>3 DEF IInv, TypeOK, Dev, Busy
  <2>6. ASSUME Sole(h)' PROVE (Exclusive(h) /\ QueueOK(h) /\ StatusOK(h) /\ CommandOK(h))'
    <3>1. Sole(h) /\ Dev(h) \notin broken
      BY <1>0, <2>3, <2>5, <2>6 DEF Sole
    <3>2. Exclusive(h) /\ CommandOK(h) /\ StatusOK(h)
      BY <3>1 DEF AloneInv, AloneOK
    <3>3. Idle(h) /\ Carried(h)
      BY <1>0, <3>1 DEF Wait, DeviceIdle, Idle, Carried
    <3>4. Succeeded(h) /\ Len(call[h].cmds) = 1
      BY <1>4, <3>2, <3>3 DEF StatusOK
    <3>5. s /\ Succeeded(h)'
      <4>1. s
        BY <2>1, <3>4
      <4>2. Succeeded(h)'
        BY <2>3, <3>4 DEF Succeeded, Op
      <4>3. QED
        BY <4>1, <4>2
    <3>6. Idle(h)'
      BY <1>2, <2>5, <3>3 DEF Idle
    <3>7. QueueOK(h)'
      BY <2>5, <3>6 DEF QueueOK
    <3>8. StatusOK(h)'
      BY <2>3, <3>4, <3>5 DEF StatusOK
    <3>9. Exclusive(h)'
      BY <2>4, <2>5, <3>2 DEF Exclusive
    <3>10. CommandOK(h)'
      BY <1>0, <2>3, <3>2, <3>3, CommandFrame
    <3>11. QED
      BY <3>7, <3>8, <3>9, <3>10
  <2>7. AloneOK(h)'
    BY <2>6 DEF AloneOK
  <2>8. QED
    BY <1>0, <1>2, <1>4, <2>3, <2>4, <2>5, <2>7, HartAlone
<1>5. QED
  BY <1>3, <1>4 DEF Wait

(* A call that returns: the GPU is set up when gpu_setup does. *)
LEMMA ReturnAlone == ASSUME IInv, AloneInv, NEW h \in Harts, Return(h) PROVE AloneInv'
<1>0. /\ pc[h] = "done" /\ Boot \in Harts
      /\ UNCHANGED <<pciVars, ready, queue, calls, disk, broken, gpu>>
      /\ DOMAIN call = Harts /\ pc' = [pc EXCEPT ![h] = "idle"]
      /\ call' = [call EXCEPT ![h] = NoCall]
  BY VirtioAssumption DEF IInv, TypeOK, Return
<1>1. /\ pc'[h] = "idle" /\ call'[h] = NoCall
      /\ \A k \in Harts \ {h} : pc'[k] = pc[k] /\ call'[k] = call[k]
  BY <1>0 DEF IInv, TypeOK
<1>2. call'[h].fn = "none" /\ call'[h].dev = "none"
  BY <1>1 DEF NoCall
<1>3. StateOK'
  BY <1>0 DEF AloneInv, StateOK
<1>4. \A k \in Harts \ {h} : AloneOK(k)'
  <2>1. call'[h].dev \notin Queued \ {Dev(h)}
    BY <1>2, DriverAssumption DEF Queued
  <2>2. QED
    BY <1>0, <1>1, <2>1, OtherHarts
<1>5. AloneOK(h)'
  BY <1>1 DEF AloneOK, Sole, Busy
<1>6. \A k \in Harts \ {h} : CalledOK(k)'
  BY <1>0, <1>1, CalledFrame DEF AloneInv, SameCall
<1>7. CalledOK(h)'
  BY <1>1, <1>2 DEF CalledOK
<1>8. GpuReady'
  <2> SUFFICES ASSUME NEW d \in ready, Kind(d) = "gpu"
               PROVE  \/ Prior("transfer") \subseteq gpu'.steps
                      \/ call'[Boot].fn = "gpu_setup" /\ Dev(Boot)' = d
    BY <1>0 DEF GpuReady
  <2>1. CASE Prior("transfer") \subseteq gpu.steps
    BY <1>0, <2>1
  <2>2. CASE call[Boot].fn = "gpu_setup" /\ Dev(Boot) = d /\ h # Boot
    BY <1>0, <1>1, <2>2 DEF Dev
  <2>3. CASE call[Boot].fn = "gpu_setup" /\ Dev(Boot) = d /\ h = Boot
    <3>1. /\ call[h].alone /\ Kind(Dev(h)) = "gpu" /\ Dev(h) \in Functions
      BY <2>3 DEF AloneInv, CalledOK
    <3>2. Dev(h) \in Queued \ broken
      BY <3>1 DEF AloneInv, StateOK, Queued
    <3>3. Sole(h)
      BY <1>0, <3>1, <3>2 DEF Sole
    <3>4. StatusOK(h) /\ GpuOK(h)
      BY <3>1, <3>3 DEF AloneInv, AloneOK, CommandOK
    <3>5. Op(h) = "screen"
      <4>1. call[h].cmds \in GpuLists /\ Len(call[h].cmds) = 1
        BY <1>0, <3>4 DEF StatusOK, GpuOK
      <4>2. QED
        BY <4>1, LastGpuCommand DEF Op
    <3>6. Prior("screen") \subseteq gpu.steps
      BY <1>0, <3>4, <3>5 DEF GpuOK
    <3>7. Prior("transfer") = Prior("screen")
      BY DEF Prior
    <3>8. QED
      BY <1>0, <3>6, <3>7
  <2>4. QED
    BY <2>1, <2>2, <2>3 DEF AloneInv, GpuReady
<1>9. QED
  BY <1>3, <1>4, <1>5, <1>6, <1>7, <1>8 DEF AloneInv

-----------------------------------------------------------------------------
(* What a call begins with, and what its beginning does to the others. *)
Begun(h, f, d, cmds, r, buf, want) ==
  /\ call'[h].fn = f /\ call'[h].dev = d /\ call'[h].cmds = cmds
  /\ call'[h].byte = r.byte /\ call'[h].size = r.size /\ call'[h].val = calls + 1
  /\ call'[h].buf = buf /\ call'[h].want = want /\ pc'[h] = "submit"
  /\ call'[h].alone <=> \A j \in Harts \ {h} : call[j].dev # d
  /\ \A k \in Harts \ {h} :
       pc'[k] = pc[k] /\ SameCall(k) /\ (call'[k].alone = call[k].alone \/ ~call'[k].alone)
  /\ \A k \in Harts \ {h} : AloneOK(k)'
  /\ Sole(h)' => (Exclusive(h) /\ QueueOK(h) /\ StatusOK(h))' /\ ~Carried(h)'

(* The beginning of a call: others on the device are no longer alone, and  *)
(* one that has the device to itself finds nothing left to serve.          *)
LEMMA BeginAlone ==
  ASSUME IInv, AloneInv, NEW h \in Harts, NEW f, NEW d \in Queued, NEW cmds, NEW r, NEW buf, NEW want,
         pc[h] = "idle", Begin(h, f, d, cmds, r, buf, want),
         UNCHANGED <<queue, disk, broken, gpu>>
  PROVE  Begun(h, f, d, cmds, r, buf, want)
<1> DEFINE a == \A j \in Harts \ {h} : call[j].dev # d
<1>1. pc' = [pc EXCEPT ![h] = "submit"] /\ pc'[h] = "submit" /\ \A k \in Harts \ {h} : pc'[k] = pc[k]
  BY DEF Begin, IInv, TypeOK
<1>2. call'[h] = [fn |-> f, dev |-> d, cmds |-> cmds, byte |-> r.byte, size |-> r.size, at |-> 0,
                  val |-> calls + 1, status |-> 0, buf |-> buf, want |-> want, alone |-> a,
                  result |-> FALSE]
  BY DEF Begin, NoCall
<1> HIDE DEF a
<1>3. /\ call'[h].fn = f /\ call'[h].dev = d /\ call'[h].cmds = cmds
      /\ call'[h].byte = r.byte /\ call'[h].size = r.size /\ call'[h].val = calls + 1
      /\ call'[h].buf = buf /\ call'[h].want = want /\ call'[h].alone = a
  BY <1>2
<1>4. ASSUME NEW k \in Harts \ {h}
      PROVE  /\ SameCall(k)
             /\ call[k].dev # d => call'[k] = call[k]
             /\ call[k].dev = d => ~call'[k].alone
  <2>1. DOMAIN call[k] = CallFields
    BY DEF IInv, TypeOK
  <2>2. call'[k] = IF call[k].dev = d THEN [call[k] EXCEPT !.alone = FALSE] ELSE call[k]
    BY DEF Begin
  <2>3. QED
    BY <2>1, <2>2 DEF SameCall, CallFields
<1>5. ASSUME NEW k \in Harts \ {h} PROVE AloneOK(k)'
  <2>1. AloneOK(k) /\ pc'[k] = pc[k] /\ (call'[k].alone => call'[k] = call[k])
    BY <1>1, <1>4 DEF AloneInv
  <2>2. ASSUME Sole(k), call'[k].alone, NEW j \in Harts \ {k} PROVE call'[j].dev # Dev(k)
    <3>1. Exclusive(k) /\ Dev(k) # d
      BY <1>4, <2>1, <2>2 DEF AloneOK, Dev
    <3>2. CASE j = h
      BY <1>3, <3>1, <3>2
    <3>3. CASE j # h
      <4>1. call'[j].dev = call[j].dev
        BY <1>4, <3>3 DEF SameCall
      <4>2. QED
        BY <3>1, <4>1 DEF Exclusive
    <3>4. QED
      BY <3>2, <3>3
  <2>3. QED
    BY <2>1, <2>2, AloneFrame
<1>6. ASSUME Sole(h)' PROVE (Exclusive(h) /\ QueueOK(h) /\ StatusOK(h))' /\ ~Carried(h)'
  <2>1. d \notin broken /\ a /\ Dev(h)' = d
    BY <1>3, <1>6 DEF Sole, Dev
  <2>2. Exclusive(h)'
    BY <1>4, <2>1 DEF Exclusive, a, SameCall
  <2>3. Waiters(d) = {}
    BY <2>1 DEF Waiters, Waiting, Dev, a
  <2>4. PICK S \in SUBSET Positions :
          /\ Closed(queue[d].desc, S, Waiters(d))
          /\ \A p \in queue[d].seen .. (queue[d].idx - 1) : queue[d].ring[p % QSize] \in S
    BY <2>1 DEF IInv, LiveInv
  <2>5. S = {}
    BY <2>3, <2>4 DEF Closed
  <2>6. queue[d].seen \in Nat /\ queue[d].idx \in Nat /\ queue[d].seen <= queue[d].idx
    BY DEF IInv, TypeOK, Queue
  <2>7. queue[d].seen = queue[d].idx
    <3>1. queue[d].seen \notin queue[d].seen .. (queue[d].idx - 1)
      BY <2>4, <2>5
    <3>2. QED
      BY <2>6, <3>1
  <2>8. Idle(h)' /\ ~Carried(h)'
    BY <1>1, <2>1, <2>7 DEF Idle, Carried
  <2>9. QED
    BY <1>1, <2>2, <2>8 DEF QueueOK, StatusOK
<1>7. QED
  BY <1>1, <1>3, <1>4, <1>5, <1>6 DEF a, Begun

(* A call of a driver when the machine has booted. *)
LEMMA CallAlone ==
  ASSUME IInv, AloneInv, NEW h \in Harts, NEW f, NEW d \in Queued, NEW cmds, NEW r, NEW buf, NEW want,
         f \notin {"none", "gpu_setup", "get_input"},
         MayCall(h), Counted, Begin(h, f, d, cmds, r, buf, want),
         Sole(h)' => CommandOK(h)'
  PROVE  AloneInv'
<1>0. /\ pc[h] = "idle" /\ UNCHANGED <<pciVars, ready, queue, disk, broken, gpu>>
      /\ calls' = calls + 1 /\ PciDone /\ ready = Range(devices) /\ call[Boot].fn # "gpu_setup"
      /\ Boot \in Harts
  BY VirtioAssumption DEF MayCall, Booted, Counted
<1>1. /\ call'[h].fn = f /\ call'[h].dev = d /\ pc'[h] = "submit"
      /\ \A k \in Harts \ {h} :
              pc'[k] = pc[k] /\ SameCall(k) /\ (call'[k].alone = call[k].alone \/ ~call'[k].alone)
      /\ \A k \in Harts \ {h} : AloneOK(k)'
      /\ Sole(h)' => (Exclusive(h) /\ QueueOK(h) /\ StatusOK(h))'
  BY <1>0, BeginAlone DEF Begun
<1>2. AloneOK(h)'
  BY <1>1 DEF AloneOK
<1>3. StateOK'
  BY <1>0 DEF AloneInv, StateOK
<1>4. GpuReady'
  BY <1>0 DEF AloneInv, GpuReady
<1>5. \A k \in Harts : call[k].fn # "gpu_setup"
  BY <1>0 DEF AloneInv, CalledOK
<1>6. \A k \in Harts \ {h} : CalledOK(k)'
  BY <1>0, <1>1, <1>5, CalledFrame DEF AloneInv
<1>7. CalledOK(h)'
  <2>1. PciDone' /\ ready' = Range(devices)'
    BY <1>0 DEF PciDone, pciVars
  <2>2. QED
    BY <1>1, <2>1 DEF CalledOK, Dev
<1>8. QED
  BY <1>1, <1>2, <1>3, <1>4, <1>6, <1>7 DEF AloneInv

(* What the calls of block.c, rng.c and gpu.c begin with. *)
LEMMA CallsAlone ==
  ASSUME IInv, AloneInv, NEW h \in Harts, NEW d \in Queued,
         \/ BlockFlush(h, d) \/ RngFill(h, d) \/ GpuRedraw(h, d)
         \/ \E r \in Ranges : BlockReadWrapper(h, d, r) \/ BlockWriteWrapper(h, d, r)
  PROVE  AloneInv'
<1>1. CASE BlockFlush(h, d)
  <2>1. /\ Begin(h, "block_flush", d, <<"flush">>, NoRange, << >>, disk)
        /\ MayCall(h) /\ Counted /\ Kind(d) = "block"
        /\ pc[h] = "idle" /\ UNCHANGED <<queue, disk, broken, gpu>>
    BY <1>1 DEF BlockFlush, MayCall, Counted
  <2>2. call'[h].fn = "block_flush" /\ call'[h].dev = d /\ call'[h].cmds = <<"flush">>
    <3>1. Begun(h, "block_flush", d, <<"flush">>, NoRange, << >>, disk)
      BY <2>1, BeginAlone
    <3>2. QED
      BY <3>1 DEF Begun
  <2>3. CommandOK(h)'
    BY <2>1, <2>2 DEF CommandOK, FlushOK, Dev
  <2>4. QED
    BY <2>1, <2>3, CallAlone
<1>2. CASE RngFill(h, d)
  <2>1. /\ Begin(h, "rng_fill", d, <<"rng">>, NoRange, << >>, 0)
        /\ MayCall(h) /\ Counted /\ Kind(d) = "rng"
        /\ pc[h] = "idle" /\ UNCHANGED <<queue, disk, broken, gpu>>
    BY <1>2 DEF RngFill, MayCall, Counted
  <2>2. call'[h].fn = "rng_fill" /\ call'[h].dev = d /\ call'[h].cmds = <<"rng">>
    <3>1. Begun(h, "rng_fill", d, <<"rng">>, NoRange, << >>, 0)
      BY <2>1, BeginAlone
    <3>2. QED
      BY <3>1 DEF Begun
  <2>3. CommandOK(h)'
    BY <2>1, <2>2 DEF CommandOK, RngOK, Dev
  <2>4. QED
    BY <2>1, <2>3, CallAlone
<1>3. CASE GpuRedraw(h, d)
  <2>1. /\ Begin(h, "gpu_redraw", d, <<"transfer", "screen">>, NoRange, << >>, gpu.fb)
        /\ MayCall(h) /\ Counted /\ Kind(d) = "gpu"
        /\ pc[h] = "idle" /\ UNCHANGED <<queue, disk, broken, gpu>>
    BY <1>3 DEF GpuRedraw, MayCall, Counted
  <2>2. /\ call'[h].fn = "gpu_redraw" /\ call'[h].dev = d /\ call'[h].cmds = <<"transfer", "screen">>
        /\ call'[h].want = gpu.fb /\ pc'[h] = "submit" /\ (Sole(h)' => ~Carried(h)')
    <3>1. Begun(h, "gpu_redraw", d, <<"transfer", "screen">>, NoRange, << >>, gpu.fb)
      BY <2>1, BeginAlone
    <3>2. QED
      BY <3>1 DEF Begun
  <2>3. gpu.fb \in Nat /\ gpu.fb <= gpu.fb /\ gpu' = gpu
    BY <2>1 DEF AloneInv, StateOK
  <2>4. Op(h)' = "transfer"
    BY <2>2 DEF Op
  <2>5. Sole(h)' => GpuOK(h)'
    BY <2>2, <2>3, <2>4 DEF GpuOK, GpuLists
  <2>6. Sole(h)' => CommandOK(h)'
    BY <2>1, <2>2, <2>5 DEF CommandOK, Dev
  <2>7. QED
    BY <2>1, <2>6, CallAlone
<1>4. ASSUME NEW r \in Ranges, BlockReadWrapper(h, d, r) PROVE AloneInv'
  <2>1. /\ Begin(h, "block_read_wrapper", d, <<"in">>, r, Zeros(r), disk)
        /\ MayCall(h) /\ Counted /\ Kind(d) = "block"
        /\ pc[h] = "idle" /\ UNCHANGED <<queue, disk, broken, gpu>>
    BY <1>4 DEF BlockReadWrapper, MayCall, Counted
  <2>2. /\ call'[h].fn = "block_read_wrapper" /\ call'[h].dev = d /\ call'[h].cmds = <<"in">>
        /\ call'[h].byte = r.byte /\ call'[h].size = r.size /\ call'[h].buf = Zeros(r)
        /\ call'[h].want = disk /\ (Sole(h)' => ~Carried(h)')
    <3>1. Begun(h, "block_read_wrapper", d, <<"in">>, r, Zeros(r), disk)
      BY <2>1, BeginAlone
    <3>2. QED
      BY <3>1 DEF Begun
  <2>3. BufferOK(h)'
    BY <2>2 DEF BufferOK, Zeros
  <2>4. Sole(h)' => ReadOK(h)'
    BY <2>1, <2>2, <2>3 DEF ReadOK
  <2>5. Sole(h)' => CommandOK(h)'
    BY <2>1, <2>2, <2>4 DEF CommandOK, Dev
  <2>6. QED
    BY <2>1, <2>5, CallAlone
<1>5. ASSUME NEW r \in Ranges, BlockWriteWrapper(h, d, r) PROVE AloneInv'
  <2> DEFINE want == [b \in Disk |-> IF InRange(b, r) THEN calls + 1 ELSE disk[b]]
  <2>1. /\ Begin(h, "block_write_wrapper", d, <<"in", "out">>, r, Zeros(r), want)
        /\ MayCall(h) /\ Counted /\ Kind(d) = "block"
        /\ pc[h] = "idle" /\ UNCHANGED <<queue, disk, broken, gpu>>
    BY <1>5 DEF BlockWriteWrapper, MayCall, Counted
  <2> HIDE DEF want
  <2>2. /\ call'[h].fn = "block_write_wrapper" /\ call'[h].dev = d /\ call'[h].cmds = <<"in", "out">>
        /\ call'[h].byte = r.byte /\ call'[h].size = r.size /\ call'[h].buf = Zeros(r)
        /\ call'[h].val = calls + 1
        /\ call'[h].want = want /\ (Sole(h)' => ~Carried(h)')
    <3>1. Begun(h, "block_write_wrapper", d, <<"in", "out">>, r, Zeros(r), want)
      BY <2>1, BeginAlone
    <3>2. QED
      BY <3>1 DEF Begun
  <2>3. BufferOK(h)'
    BY <2>2 DEF BufferOK, Zeros
  <2>4. \A b : InRange(b, call'[h]) = InRange(b, r)
    BY <2>2 DEF InRange
  <2>5. want = [b \in Disk |-> IF InRange(b, call'[h]) THEN call'[h].val ELSE disk'[b]]
    BY <2>1, <2>2, <2>4 DEF want
  <2>6. Sole(h)' => WriteInOK(h)'
    BY <2>2, <2>3, <2>5 DEF WriteInOK
  <2>7. Sole(h)' => CommandOK(h)'
    BY <2>1, <2>2, <2>6 DEF CommandOK, Dev
  <2>8. QED
    BY <2>1, <2>7, CallAlone
<1>6. QED
  BY <1>1, <1>2, <1>3, <1>4, <1>5

-----------------------------------------------------------------------------
(* Steps that leave the calls and the queues alone. *)
LEMMA CallsUnchanged ==
  ASSUME AloneInv, UNCHANGED <<queue, pc, call, broken, disk>>,
         gpu' = gpu \/ \A h \in Harts : Sole(h) => Kind(Dev(h)) # "gpu"
  PROVE  \A h \in Harts : AloneOK(h)'
<1> SUFFICES ASSUME NEW h \in Harts PROVE AloneOK(h)'
  OBVIOUS
<1>1. AloneOK(h)
  BY DEF AloneInv
<1>2. Sole(h) => \A k \in Harts \ {h} : call'[k].dev # Dev(h)
  BY <1>1 DEF AloneOK, Exclusive
<1>3. QED
  BY <1>1, <1>2, AloneFrame

(* virtio_device_init: nobody calls a driver yet. *)
LEMMA DeviceInitAlone == ASSUME IInv, AloneInv, VirtioDeviceInit PROVE AloneInv'
<1>1. PICK i \in DOMAIN devices :
        /\ devices[i] \notin ready /\ ready' = ready \cup {devices[i]}
        /\ LET d == devices[i] IN BlockInit(d) \/ RngInit(d) \/ GpuInit(d) \/ InputInit(d)
  BY DEF VirtioDeviceInit
<1> DEFINE d == devices[i]
<1>2. /\ d \in Functions /\ d \in Range(devices) /\ pc[Boot] = "idle" /\ Boot \in Harts
      /\ UNCHANGED <<pciVars, queue, calls, disk, broken, gpu>>
      /\ d \notin ready /\ ready' = ready \cup {d}
  BY <1>1, VirtioAssumption DEF IInv, TypeOK, VirtioDeviceInit, Range
<1> HIDE DEF d
<1>3. \A k \in Harts : call[k].fn = "none" /\ call[k].dev = "none"
  BY <1>2 DEF AloneInv, CalledOK
<1>4. StateOK'
  BY <1>2 DEF AloneInv, StateOK
<1>5. PciDone' = PciDone /\ Range(devices)' = Range(devices)
  BY <1>2 DEF PciDone, pciVars
<1>6. \A e \in ready : Kind(e) = "gpu" => Prior("transfer") \subseteq gpu'.steps
  BY <1>2, <1>3 DEF AloneInv, GpuReady
<1>7. CASE BlockInit(d) \/ RngInit(d) \/ InputInit(d)
  <2>1. UNCHANGED <<pc, call>> /\ Kind(d) # "gpu"
    BY <1>7 DEF BlockInit, RngInit, InputInit, Inputs
  <2>2. \A h \in Harts : AloneOK(h)'
    BY <1>2, <2>1, CallsUnchanged
  <2>3. GpuReady'
    BY <1>2, <1>6, <2>1 DEF GpuReady
  <2>4. \A h \in Harts : CalledOK(h)'
    BY <1>3, <2>1 DEF AloneInv, CalledOK, Dev
  <2>5. QED
    BY <1>4, <2>2, <2>3, <2>4 DEF AloneInv
<1>8. CASE GpuInit(d)
  <2>1. /\ Begin(Boot, "gpu_setup", d, SetupCommands, NoRange, << >>, gpu.fb)
        /\ Kind(d) = "gpu"
    BY <1>8 DEF GpuInit
  <2>2. d \in Queued /\ d # "none"
    BY <1>2, <2>1, DriverAssumption DEF Queued
  <2>3. /\ call'[Boot].fn = "gpu_setup" /\ call'[Boot].dev = d /\ call'[Boot].cmds = SetupCommands
        /\ call'[Boot].want = gpu.fb /\ pc'[Boot] = "submit"
        /\ call'[Boot].alone <=> \A j \in Harts \ {Boot} : call[j].dev # d
        /\ \A k \in Harts \ {Boot} :
              pc'[k] = pc[k] /\ SameCall(k) /\ (call'[k].alone = call[k].alone \/ ~call'[k].alone)
        /\ \A k \in Harts \ {Boot} : AloneOK(k)'
        /\ Sole(Boot)' => (Exclusive(Boot) /\ QueueOK(Boot) /\ StatusOK(Boot))' /\ ~Carried(Boot)'
    <3>1. Begun(Boot, "gpu_setup", d, SetupCommands, NoRange, << >>, gpu.fb)
      BY <1>2, <2>1, <2>2, BeginAlone
    <3>2. QED
      BY <3>1 DEF Begun
  <2>4. call'[Boot].alone
    BY <1>3, <2>2, <2>3
  <2>5. Op(Boot)' = "display"
    BY <2>3 DEF Op, SetupCommands
  <2>6. gpu.fb \in Nat /\ gpu.fb <= gpu'.fb /\ gpu' = gpu
    BY <1>2 DEF AloneInv, StateOK
  <2>7. Prior(Op(Boot)') = {}
    BY <2>5 DEF Prior
  <2>8. Sole(Boot)' => GpuOK(Boot)'
    <3>1. Prior(Op(Boot))' = Prior(Op(Boot)')
      OBVIOUS
    <3>2. SetupCommands \in GpuLists
      BY DEF GpuLists
    <3>3. QED
      BY <2>3, <2>5, <2>6, <2>7, <3>1, <3>2 DEF GpuOK
  <2>9. AloneOK(Boot)'
    BY <2>1, <2>3, <2>8 DEF AloneOK, CommandOK, Dev
  <2>10. CalledOK(Boot)'
    BY <1>2, <2>1, <2>3, <2>4 DEF CalledOK, Dev, Busy
  <2>11. ASSUME NEW k \in Harts \ {Boot} PROVE CalledOK(k)'
    <3>1. pc'[k] = pc[k] /\ call'[k].fn = "none" /\ call'[k].dev = "none" /\ Dev(k)' = Dev(k)
      BY <1>3, <2>3 DEF SameCall, Dev
    <3>2. CalledOK(k) /\ call[k].fn = "none"
      BY <1>3 DEF AloneInv
    <3>3. QED
      BY <3>1, <3>2 DEF CalledOK
  <2>12. GpuReady'
    BY <1>2, <1>6, <2>3 DEF GpuReady, Dev
  <2>13. QED
    BY <1>4, <2>3, <2>9, <2>10, <2>11, <2>12 DEF AloneInv
<1>9. QED
  BY <1>1, <1>7, <1>8 DEF d

(* The enumeration comes before every driver call. *)
LEMMA PciAlone == ASSUME IInv, AloneInv, PciSlot, UNCHANGED devVars PROVE AloneInv'
<1>1. UNCHANGED <<ready, queue, pc, call, calls, disk, broken, gpu>> /\ ~PciDone
  BY DEF devVars, PciSlot
<1>2. \A h \in Harts : AloneOK(h)'
  BY <1>1, CallsUnchanged
<1>3. \A h \in Harts : CalledOK(h)'
  BY <1>1 DEF AloneInv, CalledOK, Dev
<1>4. GpuReady' /\ StateOK'
  BY <1>1 DEF AloneInv, GpuReady, StateOK, Dev
<1>5. QED
  BY <1>2, <1>3, <1>4 DEF AloneInv

(* Steps that touch no call, no queue and neither disk nor GPU. *)
LEMMA QuietAlone ==
  ASSUME AloneInv, UNCHANGED <<pciVars, ready, queue, pc, call, calls, disk, broken, gpu>>
  PROVE  AloneInv'
<1>1. \A h \in Harts : AloneOK(h)'
  BY CallsUnchanged
<1>2. PciDone' = PciDone /\ Range(devices)' = Range(devices)
  BY DEF PciDone, pciVars
<1>3. \A h \in Harts : CalledOK(h)'
  BY <1>2 DEF AloneInv, CalledOK, Dev
<1>4. GpuReady' /\ StateOK'
  BY DEF AloneInv, GpuReady, StateOK, Dev
<1>5. QED
  BY <1>1, <1>3, <1>4 DEF AloneInv

(* A program that draws: what a redraw is to show was drawn before. *)
LEMMA PaintAlone == ASSUME IInv, AloneInv, Paint PROVE AloneInv'
<1>1. /\ gpu' = [gpu EXCEPT !.fb = gpu.fb + 1]
      /\ UNCHANGED <<pciVars, ready, queue, pc, call, calls, disk, broken>>
  BY DEF Paint
<1>2. StateOK
  BY DEF AloneInv
<1>3. /\ DOMAIN gpu' = {"steps", "fb", "resource", "screen"}
      /\ gpu'.fb = gpu.fb + 1 /\ gpu'.steps = gpu.steps
      /\ gpu'.resource = gpu.resource /\ gpu'.screen = gpu.screen
  BY <1>1, <1>2 DEF StateOK
<1>4. gpu.fb \in Nat /\ gpu.fb + 1 \in Nat
  BY <1>2 DEF StateOK
<1>5. StateOK'
  BY <1>1, <1>2, <1>3, <1>4 DEF StateOK
<1>6. GpuReady'
  BY <1>1, <1>3 DEF AloneInv, GpuReady, Dev
<1>7. PciDone' = PciDone /\ Range(devices)' = Range(devices)
  BY <1>1 DEF PciDone, pciVars
<1>8. \A h \in Harts : CalledOK(h)'
  BY <1>1, <1>7 DEF AloneInv, CalledOK, Dev
<1>9. ASSUME NEW h \in Harts PROVE AloneOK(h)'
  <2> SUFFICES ASSUME Sole(h)' PROVE (Exclusive(h) /\ QueueOK(h) /\ StatusOK(h) /\ CommandOK(h))'
    BY DEF AloneOK
  <2>1. Dev(h)' = Dev(h) /\ Op(h)' = Op(h) /\ SectorOf(h)' = SectorOf(h)
    BY <1>1 DEF Dev, Op, SectorOf
  <2>2. Sole(h)
    BY <1>1, <2>1 DEF Sole
  <2>3. Exclusive(h) /\ QueueOK(h) /\ StatusOK(h) /\ CommandOK(h)
    BY <2>2 DEF AloneInv, AloneOK
  <2>4. Exclusive(h)'
    BY <1>1, <2>1, <2>3 DEF Exclusive
  <2>5. Idle(h)' = Idle(h) /\ Stands(h)' = Stands(h) /\ Carried(h)' = Carried(h)
    BY <1>1, <2>1 DEF Idle, Stands, Carried
  <2>6. QueueOK(h)' /\ StatusOK(h)'
    BY <1>1, <2>1, <2>3, <2>5 DEF QueueOK, StatusOK, Succeeded
  <2>7. CASE Kind(Dev(h)) # "gpu"
    <3>1. UNCHANGED <<call[h], pc[h], disk>>
      BY <1>1
    <3>2. AloneOK(h)
      BY DEF AloneInv
    <3>3. \A k \in Harts \ {h} : call'[k].dev # Dev(h)
      BY <1>1, <2>3 DEF Exclusive
    <3>4. AloneOK(h)'
      BY <1>1, <2>7, <3>2, <3>3, AloneFrame
    <3>5. QED
      BY <3>4 DEF AloneOK
  <2>8. CASE Kind(Dev(h)) = "gpu"
    <3>1. GpuOK(h)
      BY <2>3, <2>8 DEF CommandOK
    <3>2. call[h].want \in Nat /\ call[h].want <= gpu.fb
      BY <3>1 DEF GpuOK
    <3>3. call'[h].want <= gpu'.fb
      BY <1>1, <1>3, <1>4, <3>2
    <3>4. GpuOK(h)'
      BY <1>1, <1>3, <2>1, <2>5, <3>1, <3>3 DEF GpuOK
    <3>5. QED
      BY <2>1, <2>4, <2>6, <2>8, <3>4 DEF CommandOK
  <2>9. QED
    BY <2>7, <2>8
<1>10. QED
  BY <1>5, <1>6, <1>8, <1>9 DEF AloneInv

(* The input devices have no commands. *)
LEMMA InputAlone ==
  ASSUME IInv, AloneInv, NEW d \in Inputs, GetInput(d) \/ InputStep(d) PROVE AloneInv'
<1>0. /\ Boot \in Harts /\ DOMAIN call = Harts /\ d \notin Queued
      /\ DOMAIN call[Boot] = CallFields
  BY VirtioAssumption DEF IInv, TypeOK, Inputs, Queued
<1>1. CASE HandleEvent(d)
  <2>1. UNCHANGED <<pciVars, ready, queue, pc, call, calls, disk, broken, gpu>>
    BY <1>1 DEF HandleEvent
  <2>2. QED
    BY <2>1, QuietAlone
<1>2. CASE GetInput(d) \/ InputLock(d) \/ InputUnlock(d) \/ PopNone(d) \/ PopEvent(d)
  <2>1. /\ UNCHANGED <<pciVars, ready, queue, disk, broken, gpu>>
        /\ calls' \in Nat
    <3>1. calls \in Nat
      BY DEF AloneInv, StateOK
    <3>2. QED
      BY <1>2, <3>1 DEF GetInput, Counted, InputLock, InputUnlock, PopNone, PopEvent
  <2>2. PICK to \in {"input_lock", "handle", "pop", "done"} : pc' = [pc EXCEPT ![Boot] = to]
    BY <1>2 DEF GetInput, InputLock, InputUnlock, PopNone, PopEvent
  <2>3. /\ pc'[Boot] = to
        /\ \A k \in Harts \ {Boot} : pc'[k] = pc[k]
    BY <1>0, <2>2 DEF IInv, TypeOK
  <2>4. /\ PciDone /\ ready = Range(devices) /\ call[Boot].fn # "gpu_setup"
        /\ call'[Boot].fn = "get_input" /\ call'[Boot].dev = d
        /\ \A k \in Harts \ {Boot} : call'[k] = call[k]
    <3>1. CASE GetInput(d)
      <4>1. /\ PciDone /\ ready = Range(devices) /\ call[Boot].fn # "gpu_setup"
            /\ call' = [call EXCEPT ![Boot] = [NoCall EXCEPT !.fn = "get_input", !.dev = d]]
        BY <3>1 DEF GetInput, MayCall, Booted
      <4>2. call'[Boot].fn = "get_input" /\ call'[Boot].dev = d
        BY <1>0, <4>1 DEF NoCall
      <4>3. \A k \in Harts \ {Boot} : call'[k] = call[k]
        BY <1>0, <4>1
      <4>4. QED
        BY <4>1, <4>2, <4>3
    <3>2. CASE InputLock(d) \/ InputUnlock(d) \/ PopNone(d) \/ PopEvent(d)
      <4>1. pc[Boot] \in {"input_lock", "handle", "pop"} /\ Dev(Boot) = d
        BY <3>2 DEF InputLock, InputUnlock, PopNone, PopEvent
      <4>2. call[Boot].fn = "get_input" /\ PciDone /\ ready = Range(devices)
        BY <1>0, <4>1 DEF AloneInv, CalledOK
      <4>3. call' = call \/ \E b : call' = [call EXCEPT ![Boot] = [call[Boot] EXCEPT !.buf = b]]
        BY <3>2 DEF InputLock, InputUnlock, PopNone, PopEvent
      <4>4. call'[Boot].fn = call[Boot].fn /\ call'[Boot].dev = call[Boot].dev
        BY <1>0, <4>3 DEF CallFields
      <4>5. \A k \in Harts \ {Boot} : call'[k] = call[k]
        BY <1>0, <4>3
      <4>6. QED
        BY <4>1, <4>2, <4>4, <4>5 DEF Dev
    <3>3. QED
      BY <1>2, <3>1, <3>2
  <2>5. \A k \in Harts \ {Boot} : AloneOK(k)'
    BY <1>0, <2>1, <2>3, <2>4, OtherHarts
  <2>6. AloneOK(Boot)'
    BY <1>0, <2>4 DEF AloneOK, Sole, Dev
  <2>7. \A k \in Harts \ {Boot} : CalledOK(k)'
    BY <2>1, <2>3, <2>4, CalledFrame DEF AloneInv, SameCall
  <2>8. PciDone' /\ ready' = Range(devices)'
    BY <2>1, <2>4 DEF PciDone, pciVars
  <2>9. CalledOK(Boot)'
    BY <2>3, <2>4, <2>8 DEF CalledOK
  <2>10. StateOK'
    BY <2>1 DEF AloneInv, StateOK
  <2>11. GpuReady'
    BY <2>1, <2>4 DEF AloneInv, GpuReady
  <2>12. QED
    BY <2>5, <2>6, <2>7, <2>9, <2>10, <2>11 DEF AloneInv
<1>3. QED
  BY <1>1, <1>2 DEF InputStep

-----------------------------------------------------------------------------
(* The device finds the chain of a hart that is alone. *)
ChainOf(h, c) == [k \in 1 .. Len(c) |-> DescOf(h, c, k - 1)]

(* What was published is the chain of the hart's command, whole. *)
LEMMA EntryAlone ==
  ASSUME IInv, NEW h \in Harts, Dev(h) \in Queued, QueueOK(h), ~Idle(h)
  PROVE  Entry(Dev(h)) = ChainOf(h, Chain(Op(h)))
<1> DEFINE q == queue[Dev(h)]
           at == call[h].at
           c == Chain(Op(h))
           d(k) == q.desc[(at + k) % QSize]
           Last1(k) == ~d(k).more /\ \A j \in 0 .. (k - 1) : d(j).more
           n == CHOOSE k \in 0 .. (QSize - 1) : Last1(k)
<1>1. q.ring[q.seen % QSize] = at /\ Stands(h) /\ at \in Positions
  BY DEF QueueOK, IInv, TypeOK
<1>2. Entry(Dev(h)) = [k \in 1 .. (n + 1) |-> d(k - 1)]
  BY <1>1 DEF Entry, ChainFrom
<1>3. PICK len \in 1 .. 3 : Len(c) = len
  BY ChainsOK
<1> HIDE DEF c
<1>4. QSize \in Nat /\ QSize >= 3
  BY QueueSize
<1>5. \A k \in 0 .. (len - 1) : d(k) = DescOf(h, c, k)
  BY <1>1, <1>3 DEF Stands, StandsIn, At, c
<1> HIDE DEF d
<1>6. \A k \in 0 .. (len - 1) : d(k).more = (k + 1 < len)
  BY <1>3, <1>5 DEF DescOf
<1>7. len - 1 \in 0 .. (QSize - 1) /\ Last1(len - 1)
  <2>1. len - 1 \in 0 .. (QSize - 1) /\ len - 1 \in 0 .. (len - 1) /\ ~((len - 1) + 1 < len)
    BY <1>4
  <2>2. \A j \in 0 .. ((len - 1) - 1) : j \in 0 .. (len - 1) /\ j + 1 < len
    OBVIOUS
  <2>3. ~d(len - 1).more
    BY <1>6, <2>1
  <2>4. \A j \in 0 .. ((len - 1) - 1) : d(j).more
    BY <1>6, <2>2
  <2>5. QED
    BY <2>1, <2>3, <2>4
<1>8. ASSUME NEW k \in 0 .. (QSize - 1), Last1(k) PROVE k = len - 1
  <2>1. CASE k < len - 1
    <3>1. k \in 0 .. (len - 1) /\ k + 1 < len
      BY <1>4, <2>1
    <3>2. QED
      BY <1>6, <1>8, <3>1
  <2>2. CASE k > len - 1
    <3>1. len - 1 \in 0 .. (k - 1) /\ len - 1 \in 0 .. (len - 1) /\ ~((len - 1) + 1 < len)
      BY <1>4, <2>2
    <3>2. QED
      BY <1>6, <1>8, <3>1
  <2>3. QED
    BY <1>4, <2>1, <2>2
<1> HIDE DEF Last1
<1>9. n = len - 1
  <2>1. n \in 0 .. (QSize - 1) /\ Last1(n)
    BY <1>7
  <2>2. QED
    BY <1>8, <2>1
<1> HIDE DEF n
<1>10. n + 1 = len /\ \A k \in 1 .. len : k - 1 \in 0 .. (len - 1)
  BY <1>9
<1>11. Entry(Dev(h)) = [k \in 1 .. len |-> DescOf(h, c, k - 1)]
  BY <1>2, <1>5, <1>10
<1>12. QED
  BY <1>3, <1>11 DEF ChainOf, c

(* The least and the greatest of a few. *)
LEMMA MinMax ==
  /\ Min({1}) = 1 /\ Min({1, 2}) = 1
  /\ Max({2}) = 2 /\ Max({3}) = 3 /\ Max({2, 3}) = 3
<1>1. Min({1}) = 1 /\ Min({1, 2}) = 1
  BY DEF Min
<1>2. Max({2}) = 2 /\ Max({3}) = 3
  BY DEF Max
<1>3. Max({2, 3}) = 3
  BY DEF Max
<1>4. QED
  BY <1>1, <1>2, <1>3

LongChain(h, x) == ChainOf(h, <<Request, x, Answer>>)

(* A chain of three has a header, a middle part and a status, all of its   *)
(* hart.                                                                   *)
LEMMA ThreeParts ==
  ASSUME NEW h, NEW x, NEW c, c = LongChain(h, x)
  PROVE  /\ DOMAIN c = {1, 2, 3}
         /\ c[1].hart = h /\ c[1].part = "hdr" /\ ~c[1].write
         /\ c[2].hart = h /\ c[2].part = x.part /\ c[2].write = x.write
         /\ c[3].hart = h /\ c[3].part = "status" /\ c[3].write
<1> DEFINE s == <<Request, x, Answer>>
<1>1. Len(s) = 3 /\ s[1] = Request /\ s[2] = x /\ s[3] = Answer
  OBVIOUS
<1>2. Request.part = "hdr" /\ ~Request.write /\ Answer.part = "status" /\ Answer.write
  BY DEF Request, Answer, Part
<1>0. c = ChainOf(h, s)
  BY DEF LongChain
<1> HIDE DEF s
<1>3. c = [k \in {1, 2, 3} |-> DescOf(h, s, k - 1)]
  <2>1. 1 .. Len(s) = {1, 2, 3}
    BY <1>1
  <2>2. QED
    BY <1>0, <2>1 DEF ChainOf
<1>4. c[1] = DescOf(h, s, 0) /\ c[2] = DescOf(h, s, 1) /\ c[3] = DescOf(h, s, 2)
  BY <1>3
<1>5. /\ DescOf(h, s, 0).hart = h /\ DescOf(h, s, 0).part = s[1].part /\ DescOf(h, s, 0).write = s[1].write
      /\ DescOf(h, s, 1).hart = h /\ DescOf(h, s, 1).part = s[2].part /\ DescOf(h, s, 1).write = s[2].write
      /\ DescOf(h, s, 2).hart = h /\ DescOf(h, s, 2).part = s[3].part /\ DescOf(h, s, 2).write = s[3].write
  BY DEF DescOf
<1>6. QED
  BY <1>1, <1>2, <1>3, <1>4, <1>5 DEF s

(* A chain of two has a header and a status, both of its hart. *)
LEMMA TwoParts ==
  ASSUME NEW h, NEW c, c = ChainOf(h, <<Request, Answer>>)
  PROVE  /\ DOMAIN c = {1, 2}
         /\ c[1].hart = h /\ c[1].part = "hdr" /\ ~c[1].write
         /\ c[2].hart = h /\ c[2].part = "status" /\ c[2].write
<1> DEFINE s == <<Request, Answer>>
<1>1. Len(s) = 2 /\ s[1] = Request /\ s[2] = Answer
  OBVIOUS
<1>2. Request.part = "hdr" /\ ~Request.write /\ Answer.part = "status" /\ Answer.write
  BY DEF Request, Answer, Part
<1>0. c = ChainOf(h, s)
  OBVIOUS
<1> HIDE DEF s
<1>3. c = [k \in {1, 2} |-> DescOf(h, s, k - 1)]
  <2>1. 1 .. Len(s) = {1, 2}
    BY <1>1
  <2>2. QED
    BY <1>0, <2>1 DEF ChainOf
<1>4. c[1] = DescOf(h, s, 0) /\ c[2] = DescOf(h, s, 1)
  BY <1>3
<1>5. /\ DescOf(h, s, 0).hart = h /\ DescOf(h, s, 0).part = s[1].part /\ DescOf(h, s, 0).write = s[1].write
      /\ DescOf(h, s, 1).hart = h /\ DescOf(h, s, 1).part = s[2].part /\ DescOf(h, s, 1).write = s[2].write
  BY DEF DescOf
<1>6. QED
  BY <1>1, <1>2, <1>3, <1>4, <1>5 DEF s

(* From the chain of a read the device takes the header of the hart, and   *)
(* the room for the data and the status are that hart's.                   *)
LEMMA ReadEntry ==
  ASSUME NEW h, NEW c, c = ChainOf(h, Chain("in"))
  PROVE  /\ Outs(c) # {} /\ Ins(c) # {}
         /\ FirstOut(c).hart = h /\ FirstOut(c).part = "hdr" /\ LastIn(c).hart = h
         /\ BytesIn({c[k] : k \in Ins(c) \ {Max(Ins(c))}}) = {h}
<1>1. Chain("in") = <<Request, Part("data", TRUE), Answer>>
  BY DEF Chain, BlockReadChain
<1>2. /\ DOMAIN c = {1, 2, 3}
      /\ c[1].hart = h /\ c[1].part = "hdr" /\ ~c[1].write
      /\ c[2].hart = h /\ c[2].part = "data" /\ c[2].write
      /\ c[3].hart = h /\ c[3].part = "status" /\ c[3].write
  <2>1. PICK x : x = Part("data", TRUE)
    OBVIOUS
  <2>2. x.part = "data" /\ x.write
    BY <2>1 DEF Part
  <2>3. c = LongChain(h, x)
    BY <1>1, <2>1 DEF LongChain
  <2>4. QED
    BY <2>2, <2>3, ThreeParts
<1>3. Outs(c) = {1} /\ Ins(c) = {2, 3}
  BY <1>2 DEF Outs, Ins
<1>4. FirstOut(c) = c[1] /\ LastIn(c) = c[3]
  BY <1>3, MinMax DEF FirstOut, LastIn
<1>5. Ins(c) \ {Max(Ins(c))} = {2}
  BY <1>3, MinMax
<1>6. QED
  BY <1>2, <1>3, <1>4, <1>5 DEF BytesIn

(* From the chain of a write it takes header, data and status of the hart. *)
LEMMA WriteEntry ==
  ASSUME NEW h, NEW c, c = ChainOf(h, Chain("out"))
  PROVE  /\ Outs(c) # {} /\ Ins(c) # {}
         /\ FirstOut(c).hart = h /\ FirstOut(c).part = "hdr" /\ LastIn(c).hart = h
         /\ WholeSectors({c[k] : k \in Outs(c) \ {Min(Outs(c))}})
         /\ BytesIn({c[k] : k \in Outs(c) \ {Min(Outs(c))}}) = {h}
<1>1. Chain("out") = <<Request, Part("data", FALSE), Answer>>
  BY DEF Chain, BlockWriteChain
<1>2. /\ DOMAIN c = {1, 2, 3}
      /\ c[1].hart = h /\ c[1].part = "hdr" /\ ~c[1].write
      /\ c[2].hart = h /\ c[2].part = "data" /\ ~c[2].write
      /\ c[3].hart = h /\ c[3].part = "status" /\ c[3].write
  <2>1. PICK x : x = Part("data", FALSE)
    OBVIOUS
  <2>2. x.part = "data" /\ ~x.write
    BY <2>1 DEF Part
  <2>3. c = LongChain(h, x)
    BY <1>1, <2>1 DEF LongChain
  <2>4. QED
    BY <2>2, <2>3, ThreeParts
<1>3. Outs(c) = {1, 2} /\ Ins(c) = {3}
  BY <1>2 DEF Outs, Ins
<1>4. FirstOut(c) = c[1] /\ LastIn(c) = c[3]
  BY <1>3, MinMax DEF FirstOut, LastIn
<1>5. Outs(c) \ {Min(Outs(c))} = {2}
  BY <1>3, MinMax
<1>6. QED
  BY <1>2, <1>3, <1>4, <1>5 DEF BytesIn, WholeSectors

(* From the other chains it takes header and status of the hart. *)
LEMMA CommandEntry ==
  ASSUME NEW h, NEW op, op \notin {"in", "out", "rng"}, NEW c, c = ChainOf(h, Chain(op))
  PROVE  /\ Outs(c) # {} /\ Ins(c) # {}
         /\ FirstOut(c).hart = h /\ FirstOut(c).part = "hdr" /\ LastIn(c).hart = h
<1>1. CASE op = "attach"
  <2>1. Chain(op) = <<Request, Part("entry", FALSE), Answer>>
    BY <1>1 DEF Chain, GpuSend3Chain
  <2>2. /\ DOMAIN c = {1, 2, 3}
        /\ c[1].hart = h /\ c[1].part = "hdr" /\ ~c[1].write
        /\ ~c[2].write
        /\ c[3].hart = h /\ c[3].write
    <3>1. PICK x : x = Part("entry", FALSE)
      OBVIOUS
    <3>2. ~x.write
      BY <3>1 DEF Part
    <3>3. c = LongChain(h, x)
      BY <2>1, <3>1 DEF LongChain
    <3>4. QED
      BY <3>2, <3>3, ThreeParts
  <2>3. Outs(c) = {1, 2} /\ Ins(c) = {3}
    BY <2>2 DEF Outs, Ins
  <2>4. FirstOut(c) = c[1] /\ LastIn(c) = c[3]
    BY <2>3, MinMax DEF FirstOut, LastIn
  <2>5. QED
    BY <2>2, <2>3, <2>4
<1>2. CASE op # "attach"
  <2>1. Chain(op) = <<Request, Answer>>
    BY <1>2 DEF Chain, GpuSendChain, BlockFlushChain
  <2>2. /\ DOMAIN c = {1, 2}
        /\ c[1].hart = h /\ c[1].part = "hdr" /\ ~c[1].write
        /\ c[2].hart = h /\ c[2].write
    BY <2>1, TwoParts
  <2>3. Outs(c) = {1} /\ Ins(c) = {2}
    BY <2>2 DEF Outs, Ins
  <2>4. FirstOut(c) = c[1] /\ LastIn(c) = c[2]
    BY <2>3, MinMax DEF FirstOut, LastIn
  <2>5. QED
    BY <2>2, <2>3, <2>4
<1>3. QED
  BY <1>1, <1>2

-----------------------------------------------------------------------------
(* A device serves those who wait for it, and nobody else. *)

(* The greatest of some positions. *)
LEMMA GreatestPosition ==
  ASSUME NEW n \in Nat, NEW T \in SUBSET (1 .. n), T # {} PROVE Max(T) \in T
<1> DEFINE R == {n - x : x \in T}
<1>1. R \in SUBSET Nat /\ R # {}
  <2>1. \A x \in T : n - x \in Nat
    OBVIOUS
  <2>2. PICK x \in T : TRUE
    OBVIOUS
  <2>3. n - x \in R
    OBVIOUS
  <2>4. QED
    BY <2>1, <2>3
<1>2. PICK m \in R : \A y \in R : m <= y
  BY <1>1, LeastNat
<1>3. PICK x \in T : m = n - x
  OBVIOUS
<1>4. ASSUME NEW y \in T PROVE x >= y
  <2>1. n - y \in R
    OBVIOUS
  <2>2. n - x <= n - y
    BY <1>2, <1>3, <2>1
  <2>3. QED
    BY <2>2
<1>5. QED
  BY <1>3, <1>4 DEF Max

(* The chain that the device takes belongs to harts that wait for it. *)
LEMMA EntryHarts ==
  ASSUME IInv, NEW d \in Queued, Pending(d)
  PROVE  /\ Outs(Entry(d)) # {} => FirstOut(Entry(d)).hart \in Waiters(d)
         /\ Ins(Entry(d)) # {} => LastIn(Entry(d)).hart \in Waiters(d)
         /\ \A K \in SUBSET (DOMAIN Entry(d)) :
              BytesIn({Entry(d)[k] : k \in K}) \subseteq Waiters(d)
<1> DEFINE q == queue[d]
           head == q.ring[q.seen % QSize]
           c == Entry(d)
<1>1. /\ q \in Queue /\ q.seen \in Nat /\ q.idx \in Nat /\ q.seen <= q.idx /\ q.seen # q.idx
      /\ d \notin broken /\ q.ring \in [Positions -> Positions]
  BY DEF IInv, TypeOK, Queue, Pending
<1>2. q.seen \in q.seen .. (q.idx - 1)
  BY <1>1
<1>3. q.seen % QSize \in Positions /\ head \in Positions
  <2>1. \A x \in Nat : x % QSize \in Positions
    BY QueueSize, ModType DEF Positions
  <2> HIDE DEF q
  <2>2. q.seen % QSize \in Positions
    BY <1>1, <2>1
  <2>3. QED
    BY <1>1, <2>2
<1>4. PICK S \in SUBSET Positions : Closed(q.desc, S, Waiters(d)) /\ head \in S
  BY <1>1, <1>2 DEF IInv, LiveInv
<1>5. (\E i \in Positions : ~q.desc[i].more) /\ DataBehindHeader(q.desc)
  BY DEF IInv, DescInv
<1>6. c = ChainFrom(q, head)
  BY DEF Entry
<1> HIDE DEF q, head, c
<1>7. PICK len \in Nat \ {0} : DOMAIN c = 1 .. len /\ \A k \in 1 .. len : c[k].hart \in Waiters(d)
  <2>1. Shaped(ChainFrom(q, head), Waiters(d))
    BY <1>1, <1>3, <1>4, <1>5, ChainShape
  <2>2. QED
    BY <1>6, <2>1 DEF Shaped
<1>8. Outs(c) \in SUBSET (1 .. len) /\ Outs(c) \in SUBSET Nat /\ Ins(c) \in SUBSET (1 .. len)
  BY <1>7 DEF Outs, Ins
<1>9. Outs(c) # {} => Min(Outs(c)) \in 1 .. len
  BY <1>8, LeastNat
<1>10. Ins(c) # {} => Max(Ins(c)) \in 1 .. len
  BY <1>8, GreatestPosition
<1>11. ASSUME NEW K \in SUBSET (DOMAIN c) PROVE BytesIn({c[k] : k \in K}) \subseteq Waiters(d)
  BY <1>7 DEF BytesIn
<1>12. QED
  BY <1>7, <1>9, <1>10, <1>11 DEF FirstOut, LastIn, c

(* A reply changes a status and the buffers that were filled. *)
LEMMA ReplyAlone ==
  ASSUME IInv, NEW to, NEW s, NEW fill, Reply(to, s, fill), NEW k \in Harts
  PROVE  /\ Keeps(k)
         /\ call'[k].status = IF k = to THEN s ELSE call[k].status
         /\ call'[k].buf = IF k \in DOMAIN fill THEN fill[k] ELSE call[k].buf
         /\ k # to /\ k \notin DOMAIN fill => Unchanged(k)
<1>1. DOMAIN call[k] = CallFields
  BY DEF IInv, TypeOK
<1>2. PICK x, y : /\ x = IF k = to THEN s ELSE call[k].status
                  /\ y = IF k \in DOMAIN fill THEN fill[k] ELSE call[k].buf
  OBVIOUS
<1>3. call'[k] = [[call[k] EXCEPT !.status = x] EXCEPT !.buf = y]
  BY <1>1, <1>2 DEF Reply, CallFields
<1>4. Keeps(k) /\ call'[k].status = x /\ call'[k].buf = y
  BY <1>1, <1>3 DEF Keeps, CallFields
<1>5. ASSUME k # to, k \notin DOMAIN fill PROVE Unchanged(k)
  BY <1>2, <1>4, <1>5 DEF Unchanged
<1>6. QED
  BY <1>2, <1>4, <1>5

(* A served entry is one less to serve. *)
LEMMA ServedAlone ==
  ASSUME IInv, NEW d \in Queued, queue' = Served(d)
  PROVE  /\ queue'[d].desc = queue[d].desc /\ queue'[d].ring = queue[d].ring
         /\ queue'[d].idx = queue[d].idx /\ queue'[d].seen = queue[d].seen + 1
         /\ \A e \in Queued \ {d} : queue'[e] = queue[e]
<1>1. queue[d] \in Queue /\ DOMAIN queue = Queued
  BY DEF IInv, TypeOK
<1>2. PICK b, s, u : /\ b = (queue[d].seen + 1 # queue[d].idx)
                     /\ s = queue[d].seen + 1 /\ u = queue[d].used + 1
  OBVIOUS
<1>3. queue' = [queue EXCEPT ![d] = [[[queue[d] EXCEPT !.seen = s]
                      EXCEPT !.used = u] EXCEPT !.notified = b]]
  BY <1>1, <1>2 DEF Served, Queue
<1>4. queue'[d] = [[[queue[d] EXCEPT !.seen = s] EXCEPT !.used = u] EXCEPT !.notified = b]
  BY <1>1, <1>3
<1>5. /\ queue'[d].desc = queue[d].desc /\ queue'[d].ring = queue[d].ring
      /\ queue'[d].idx = queue[d].idx /\ queue'[d].seen = s
  BY <1>1, <1>4 DEF Queue
<1>6. QED
  BY <1>1, <1>2, <1>3, <1>5

(* What every step of a device leaves alone. *)
LEMMA DeviceFrame ==
  ASSUME IInv, NEW d \in Queued, DeviceStep(d)
  PROVE  /\ UNCHANGED <<pciVars, ready, pc, calls>> /\ Pending(d)
         /\ broken \subseteq broken' /\ \A e \in broken' : e \in broken \/ (e = d /\ Kind(d) = "block")
         /\ queue' = Served(d) \/ (queue' = queue /\ d \in broken')
         /\ \A k \in Harts : Keeps(k) /\ (Dev(k) # d => Unchanged(k))
         /\ Kind(d) # "block" => disk' = disk
         /\ Kind(d) # "gpu" => gpu' = gpu
<1>0. ASSUME NEW k \in Harts, k \in Waiters(d) PROVE Dev(k) = d
  BY <1>0 DEF Waiters
<1>1. CASE ServeRng(d)
  BY <1>1 DEF ServeRng, Keeps, Unchanged
<1>2. CASE ServeGpu(d)
  <2>1. /\ UNCHANGED <<pciVars, ready, pc, calls, disk, broken>> /\ Pending(d) /\ queue' = Served(d)
        /\ Kind(d) = "gpu"
    BY <1>2 DEF ServeGpu
  <2>2. \/ UNCHANGED call
        \/ Ins(Entry(d)) # {} /\ \E s : Reply(LastIn(Entry(d)).hart, s, Nothing)
    BY <1>2 DEF ServeGpu
  <2>3. CASE UNCHANGED call
    BY <2>1, <2>3 DEF Keeps, Unchanged
  <2>4. ASSUME Ins(Entry(d)) # {}, NEW s, Reply(LastIn(Entry(d)).hart, s, Nothing), NEW k \in Harts
        PROVE  Keeps(k) /\ (Dev(k) # d => Unchanged(k))
    <3>1. Dev(k) # d => k # LastIn(Entry(d)).hart
      BY <1>0, <2>1, <2>4, EntryHarts
    <3>2. k \notin DOMAIN Nothing
      BY DEF Nothing
    <3>3. QED
      BY <2>4, <3>1, <3>2, ReplyAlone
  <2>5. QED
    BY <2>1, <2>2, <2>3, <2>4
<1>3. CASE ServeBlock(d)
  <2>1. /\ UNCHANGED <<pciVars, ready, pc, calls, gpu>> /\ Pending(d) /\ Kind(d) = "block"
        /\ broken \subseteq broken' /\ \A e \in broken' : e \in broken \/ e = d
    BY <1>3 DEF ServeBlock
  <2>2. \/ UNCHANGED <<queue, call, disk>> /\ d \in broken'
        \/ /\ queue' = Served(d) /\ Ins(Entry(d)) # {}
           /\ \E hdr : BlockRequest(Entry(d), hdr)
    BY <1>3 DEF ServeBlock
  <2>3. CASE UNCHANGED <<queue, call, disk>> /\ d \in broken'
    BY <2>1, <2>3 DEF Keeps, Unchanged
  <2>4. ASSUME NEW hdr, BlockRequest(Entry(d), hdr), Ins(Entry(d)) # {}, NEW k \in Harts
        PROVE  Keeps(k) /\ (Dev(k) # d => Unchanged(k))
    <3> DEFINE to == LastIn(Entry(d)).hart
               room == {Entry(d)[j] : j \in Ins(Entry(d)) \ {Max(Ins(Entry(d)))}}
               fill == [g \in BytesIn(room) |-> [i \in DOMAIN call[g].buf |-> disk[hdr.start + i - 1]]]
    <3>1. Reply(to, 0, fill) \/ Reply(to, 0, Nothing) \/ Reply(to, 1, Nothing)
      BY <2>4 DEF BlockRequest
    <3>2. DOMAIN Nothing = {} /\ DOMAIN fill = BytesIn(room)
      BY DEF Nothing
    <3>3. Ins(Entry(d)) \ {Max(Ins(Entry(d)))} \in SUBSET (DOMAIN Entry(d))
      BY DEF Ins
    <3>4. BytesIn(room) \subseteq Waiters(d) /\ to \in Waiters(d)
      BY <2>1, <2>4, <3>3, EntryHarts
    <3>5. Dev(k) # d => k # to /\ k \notin BytesIn(room)
      BY <1>0, <3>4
    <3> HIDE DEF to, room, fill
    <3>6. QED
      BY <3>1, <3>2, <3>5, ReplyAlone
  <2>5. QED
    BY <2>1, <2>2, <2>3, <2>4
<1>4. QED
  BY <1>1, <1>2, <1>3 DEF DeviceStep

-----------------------------------------------------------------------------
(* What the device does with the command of a hart that is alone. *)

(* A function on 1 .. n is a sequence of length n. *)
LEMMA LengthOf ==
  ASSUME NEW n \in Nat, NEW f, f = [i \in 1 .. n |-> f[i]] PROVE Len(f) = n
<1> DEFINE S == {f[i] : i \in 1 .. n}
<1>1. f \in [1 .. n -> S]
  OBVIOUS
<1> HIDE DEF S
<1>2. f \in Seq(S)
  BY <1>1
<1>3. QED
  BY <1>1, <1>2

(* The sectors that a wrapper's buffer stands for are on the disk. *)
LEMMA FitsAlone ==
  ASSUME NEW h \in Harts, BufferOK(h), NEW ps, BytesIn(ps) = {h} PROVE Fits(ps, SectorOf(h))
<1>1. PICK r \in Ranges :
        /\ call[h].byte = r.byte /\ call[h].size = r.size
        /\ call[h].buf = [i \in 1 .. AlignedLen(r.byte, r.size) |-> call[h].buf[i]]
  BY DEF BufferOK
<1>2. PICK start \in Nat, n \in Nat \ {0} :
        /\ start = (r.byte \div SectorSize) * SectorSize
        /\ n = AlignedLen(r.byte, r.size)
        /\ start + n <= NumSectors * SectorSize
  BY SectorsOfRange
<1>3. PICK top \in Nat : top = NumSectors * SectorSize
  BY VirtioAssumption
<1>4. Len(call[h].buf) = n
  BY <1>1, <1>2, LengthOf
<1>5. SectorOf(h) = start /\ Disk = 0 .. (top - 1) /\ start + n <= top
  BY <1>1, <1>2, <1>3 DEF SectorOf, Disk
<1>6. SectorOf(h) + Len(call[h].buf) - 1 \in Disk
  BY <1>4, <1>5
<1>7. QED
  BY <1>6 DEF Fits

(* A read of a hart that is alone is answered with status 0 and the bytes  *)
(* of the sectors, and stops no device.                                    *)
LEMMA InAlone ==
  ASSUME IInv, NEW h \in Harts, NEW d \in Queued, Op(h) = "in", BufferOK(h),
         Entry(d) = ChainOf(h, Chain(Op(h))), ServeBlock(d)
  PROVE  /\ disk' = disk /\ broken' = broken /\ call'[h].status = 0
         /\ call'[h].buf = [i \in DOMAIN call[h].buf |-> disk[SectorOf(h) + i - 1]]
<1> DEFINE c == Entry(d)
           room == {c[k] : k \in Ins(c) \ {Max(Ins(c))}}
           fill(hdr) == [g \in BytesIn(room) |-> [i \in DOMAIN call[g].buf |-> disk[hdr.start + i - 1]]]
<1>1. /\ Outs(c) # {} /\ Ins(c) # {}
      /\ FirstOut(c).hart = h /\ FirstOut(c).part = "hdr" /\ LastIn(c).hart = h
      /\ BytesIn(room) = {h}
  BY ReadEntry
<1>2. PICK hdr \in Headers(FirstOut(c)) : BlockRequest(c, hdr) /\ broken' = broken
  BY <1>1 DEF ServeBlock
<1>3. hdr.op = "in" /\ hdr.start = SectorOf(h)
  BY <1>1, <1>2 DEF Headers
<1>4. Fits(room, hdr.start)
  BY <1>1, <1>3, FitsAlone
<1>5. Reply(LastIn(c).hart, 0, fill(hdr)) /\ disk' = disk
  BY <1>2, <1>3, <1>4 DEF BlockRequest
<1> DEFINE data == [i \in DOMAIN call[h].buf |-> disk[SectorOf(h) + i - 1]]
<1>6. DOMAIN fill(hdr) = {h} /\ fill(hdr)[h] = data
  BY <1>1, <1>3
<1> HIDE DEF fill, c, room, data
<1>7. call'[h].status = 0 /\ call'[h].buf = data
  BY <1>1, <1>5, <1>6, ReplyAlone
<1>8. QED
  BY <1>2, <1>5, <1>7 DEF data

(* A write of a hart that is alone is answered with status 0 and puts the  *)
(* hart's buffer on the disk, and nothing else.                            *)
LEMMA OutAlone ==
  ASSUME IInv, NEW h \in Harts, NEW d \in Queued, Op(h) = "out", BufferOK(h),
         Entry(d) = ChainOf(h, Chain(Op(h))), ServeBlock(d)
  PROVE  /\ broken' = broken /\ call'[h].status = 0 /\ call'[h].buf = call[h].buf
         /\ disk' = [b \in Disk |-> IF b - SectorOf(h) + 1 \in DOMAIN call[h].buf
                                    THEN call[h].buf[b - SectorOf(h) + 1] ELSE disk[b]]
<1> DEFINE c == Entry(d)
           payload == {c[k] : k \in Outs(c) \ {Min(Outs(c))}}
<1>1. /\ Outs(c) # {} /\ Ins(c) # {}
      /\ FirstOut(c).hart = h /\ FirstOut(c).part = "hdr" /\ LastIn(c).hart = h
      /\ WholeSectors(payload) /\ BytesIn(payload) = {h}
  BY WriteEntry
<1>2. PICK hdr \in Headers(FirstOut(c)) : BlockRequest(c, hdr) /\ broken' = broken
  BY <1>1 DEF ServeBlock
<1>3. hdr.op = "out" /\ hdr.start = SectorOf(h)
  BY <1>1, <1>2 DEF Headers
<1>4. Fits(payload, hdr.start)
  BY <1>1, <1>3, FitsAlone
<1>5. /\ Reply(LastIn(c).hart, 0, Nothing)
      /\ disk' = [b \in Disk |->
             IF \E g \in BytesIn(payload) : b - hdr.start + 1 \in DOMAIN call[g].buf
             THEN call[CHOOSE g \in BytesIn(payload) : TRUE].buf[b - hdr.start + 1]
             ELSE disk[b]]
  BY <1>1, <1>2, <1>3, <1>4 DEF BlockRequest
<1>6. (CHOOSE g \in BytesIn(payload) : TRUE) = h
  BY <1>1
<1>7. DOMAIN Nothing = {}
  BY DEF Nothing
<1> HIDE DEF c, payload
<1>8. call'[h].status = 0 /\ call'[h].buf = call[h].buf
  BY <1>1, <1>5, <1>7, ReplyAlone
<1>9. QED
  BY <1>1, <1>2, <1>3, <1>5, <1>6, <1>8

(* A flush of a hart that is alone is answered with status 0. *)
LEMMA FlushAlone ==
  ASSUME IInv, NEW h \in Harts, NEW d \in Queued, Op(h) = "flush",
         Entry(d) = ChainOf(h, Chain(Op(h))), ServeBlock(d)
  PROVE  disk' = disk /\ broken' = broken /\ call'[h].status = 0
<1> DEFINE c == Entry(d)
<1>1. /\ Outs(c) # {} /\ Ins(c) # {}
      /\ FirstOut(c).hart = h /\ FirstOut(c).part = "hdr" /\ LastIn(c).hart = h
  BY CommandEntry
<1>2. PICK hdr \in Headers(FirstOut(c)) : BlockRequest(c, hdr) /\ broken' = broken
  BY <1>1 DEF ServeBlock
<1>3. hdr.op = "flush"
  BY <1>1, <1>2 DEF Headers
<1>4. Reply(LastIn(c).hart, 0, Nothing) /\ disk' = disk
  BY <1>2, <1>3 DEF BlockRequest
<1> HIDE DEF c
<1>5. call'[h].status = 0
  BY <1>1, <1>4, ReplyAlone
<1>6. QED
  BY <1>2, <1>4, <1>5

(* The GPU after a command. *)
GpuAfter(op) ==
  [gpu EXCEPT !.steps = @ \cup {op},
              !.resource = IF op = "transfer" THEN gpu.fb ELSE @,
              !.screen = IF op = "screen" /\ "scanout" \in gpu.steps THEN gpu.resource ELSE @]

(* The command is among the steps; "transfer" copies the framebuffer into  *)
(* the resource, "screen" shows the resource; the rest stays.              *)
LEMMA GpuFields ==
  ASSUME StateOK, NEW op
  PROVE  LET g == GpuAfter(op)
         IN /\ DOMAIN g = {"steps", "fb", "resource", "screen"}
            /\ g.steps = gpu.steps \cup {op} /\ g.fb = gpu.fb
            /\ g.resource = IF op = "transfer" THEN gpu.fb ELSE gpu.resource
            /\ g.screen = IF op = "screen" /\ "scanout" \in gpu.steps THEN gpu.resource ELSE gpu.screen
<1>1. DOMAIN gpu = {"steps", "fb", "resource", "screen"}
  BY DEF StateOK
<1>2. PICK x, y, z :
        /\ x = gpu.steps \cup {op}
        /\ y = IF op = "transfer" THEN gpu.fb ELSE gpu.resource
        /\ z = IF op = "screen" /\ "scanout" \in gpu.steps THEN gpu.resource ELSE gpu.screen
  OBVIOUS
<1>3. GpuAfter(op) = [[[gpu EXCEPT !.steps = x] EXCEPT !.resource = y] EXCEPT !.screen = z]
  BY <1>1, <1>2 DEF GpuAfter
<1>4. QED
  BY <1>1, <1>2, <1>3

(* The GPU carries out the command of a hart that is alone, if what the    *)
(* command needs came before, and answers it with status 0.                *)
LEMMA GpuCommandAlone ==
  ASSUME IInv, NEW h \in Harts, NEW d \in Queued, Op(h) \notin {"in", "out", "rng"},
         Entry(d) = ChainOf(h, Chain(Op(h))), Prior(Op(h)) \subseteq gpu.steps, ServeGpu(d)
  PROVE  call'[h].status = 0 /\ call'[h].buf = call[h].buf /\ gpu' = GpuAfter(Op(h))
<1> DEFINE c == Entry(d)
<1>1. /\ Outs(c) # {} /\ Ins(c) # {}
      /\ FirstOut(c).hart = h /\ FirstOut(c).part = "hdr" /\ LastIn(c).hart = h
  BY CommandEntry
<1>2. Needs(Op(h)) \subseteq gpu.steps
  BY DEF Needs, Prior
<1>3. Reply(LastIn(c).hart, 0, Nothing) /\ gpu' = GpuAfter(Op(h))
  BY <1>1, <1>2 DEF ServeGpu, GpuAfter
<1>4. DOMAIN Nothing = {}
  BY DEF Nothing
<1> HIDE DEF c
<1>5. QED
  BY <1>1, <1>3, <1>4, ReplyAlone

(* When the device has served the command of a hart that is alone, the     *)
(* command succeeded and had its effect.                                   *)
LEMMA ServedCommand ==
  ASSUME IInv, AloneInv, NEW h \in Harts, Sole(h), DeviceStep(Dev(h)), Dev(h) \notin broken'
  PROVE  (QueueOK(h) /\ StatusOK(h) /\ CommandOK(h))'
<1> DEFINE d == Dev(h)
<1>0. d \in Queued /\ d \notin broken
  BY DEF Sole
<1>1. /\ UNCHANGED <<pc, calls>> /\ Pending(d) /\ queue' = Served(d) /\ Keeps(h)
      /\ Kind(d) # "block" => disk' = disk
      /\ Kind(d) # "gpu" => gpu' = gpu
  BY <1>0, DeviceFrame
<1>2. /\ call'[h].fn = call[h].fn /\ call'[h].dev = call[h].dev /\ call'[h].cmds = call[h].cmds
      /\ call'[h].byte = call[h].byte /\ call'[h].size = call[h].size /\ call'[h].at = call[h].at
      /\ call'[h].val = call[h].val /\ call'[h].want = call[h].want
      /\ Dev(h)' = d /\ Op(h)' = Op(h) /\ SectorOf(h)' = SectorOf(h)
  BY <1>1 DEF Keeps, Dev, Op, SectorOf
<1>3. QueueOK(h) /\ StatusOK(h) /\ CommandOK(h)
  BY DEF AloneInv, AloneOK
<1>4. ~Idle(h)
  BY <1>1 DEF Pending, Idle
<1>5. pc[h] \in {"notify", "wait"} /\ queue[d].seen + 1 = queue[d].idx
  BY <1>3, <1>4 DEF QueueOK
<1>6. Entry(d) = ChainOf(h, Chain(Op(h)))
  BY <1>0, <1>3, <1>4, EntryAlone
<1>7. Idle(h)' /\ Carried(h)'
  <2>1. queue'[d].seen = queue'[d].idx
    BY <1>0, <1>1, <1>5, ServedAlone
  <2>2. QED
    BY <1>1, <1>2, <1>5, <2>1 DEF Idle, Carried
<1>8. QueueOK(h)'
  BY <1>1, <1>5, <1>7 DEF QueueOK
<1>9. Succeeded(h)' => StatusOK(h)'
  BY <1>1, <1>5 DEF StatusOK
<1> HIDE DEF d
<1>10. CASE Kind(d) = "rng"
  <2>1. RngOK(h)
    BY <1>3, <1>10 DEF CommandOK, d
  <2>2. Op(h) = "rng"
    BY <2>1 DEF RngOK, Op
  <2>3. RngOK(h)' /\ Succeeded(h)'
    BY <1>2, <2>1, <2>2 DEF RngOK, Succeeded
  <2>4. QED
    BY <1>2, <1>8, <1>9, <1>10, <2>3 DEF CommandOK
<1>11. CASE Kind(d) = "gpu"
  <2>1. GpuOK(h) /\ ServeGpu(d)
    BY <1>3, <1>11 DEF CommandOK, d, DeviceStep, ServeBlock, ServeRng
  <2>2. Prior(Op(h)) \subseteq gpu.steps
    BY <1>5, <2>1 DEF GpuOK
  <2>3. Op(h) \notin {"in", "out", "rng"}
    <3>1. /\ Head(<<"display", "create", "attach", "scanout", "transfer", "screen">>) = "display"
          /\ Head(<<"create", "attach", "scanout", "transfer", "screen">>) = "create"
          /\ Head(<<"attach", "scanout", "transfer", "screen">>) = "attach"
          /\ Head(<<"scanout", "transfer", "screen">>) = "scanout"
          /\ Head(<<"transfer", "screen">>) = "transfer"
          /\ Head(<<"screen">>) = "screen"
      OBVIOUS
    <3>2. call[h].cmds \in GpuLists
      BY <2>1 DEF GpuOK
    <3>3. QED
      BY <3>1, <3>2 DEF GpuLists, SetupCommands, Op
  <2>4. call'[h].status = 0 /\ gpu' = GpuAfter(Op(h))
    BY <1>0, <1>6, <2>1, <2>2, <2>3, GpuCommandAlone DEF d
  <2>5. StateOK
    BY DEF AloneInv
  <2>6. /\ gpu'.steps = gpu.steps \cup {Op(h)} /\ gpu'.fb = gpu.fb
        /\ gpu'.resource = IF Op(h) = "transfer" THEN gpu.fb ELSE gpu.resource
        /\ gpu'.screen = IF Op(h) = "screen" /\ "scanout" \in gpu.steps THEN gpu.resource ELSE gpu.screen
    BY <2>4, <2>5, GpuFields
  <2>7. Op(h) = "screen" => "scanout" \in gpu.steps
    BY <2>2 DEF Prior
  <2>8. Prior(Op(h))' = Prior(Op(h))
    BY <1>2
  <2>9. GpuOK(h)'
    BY <1>2, <2>1, <2>2, <2>6, <2>7, <2>8 DEF GpuOK
  <2>10. Succeeded(h)'
    BY <2>4 DEF Succeeded
  <2>11. QED
    BY <1>2, <1>8, <1>9, <1>11, <2>9, <2>10 DEF CommandOK
<1>12. CASE Kind(d) = "block"
  <2>1. ServeBlock(d)
    BY <1>12 DEF d, DeviceStep, ServeGpu, ServeRng
  <2>2. CASE ReadOK(h) \/ WriteInOK(h)
    <3>1. BufferOK(h) /\ Op(h) = "in"
      <4>1. Head(<<"in">>) = "in" /\ Head(<<"in", "out">>) = "in"
        OBVIOUS
      <4>2. QED
        BY <2>2, <4>1 DEF ReadOK, WriteInOK, Op
    <3>2. /\ disk' = disk /\ call'[h].status = 0
          /\ call'[h].buf = [i \in DOMAIN call[h].buf |-> disk[SectorOf(h) + i - 1]]
      BY <1>0, <1>6, <2>1, <3>1, InAlone DEF d
    <3>3. HoldsBytes(h, disk)'
      BY <1>2, <3>2 DEF HoldsBytes
    <3>4. BufferOK(h)'
      <4>1. PICK r \in Ranges :
              /\ call[h].byte = r.byte /\ call[h].size = r.size
              /\ call[h].buf = [i \in 1 .. AlignedLen(r.byte, r.size) |-> call[h].buf[i]]
        BY <3>1 DEF BufferOK
      <4>2. DOMAIN call[h].buf = 1 .. AlignedLen(r.byte, r.size)
        BY <4>1
      <4>3. call'[h].buf = [i \in 1 .. AlignedLen(r.byte, r.size) |-> call'[h].buf[i]]
        BY <3>2, <4>2
      <4>4. QED
        BY <1>2, <4>1, <4>3 DEF BufferOK
    <3>5. ReadOK(h) => ReadOK(h)'
      BY <1>2, <3>2, <3>3, <3>4 DEF ReadOK
    <3>6. WriteInOK(h) => WriteInOK(h)'
      BY <1>2, <3>2, <3>3, <3>4 DEF WriteInOK, InRange
    <3>7. Succeeded(h)'
      BY <3>2 DEF Succeeded
    <3>8. QED
      BY <1>2, <1>8, <1>9, <1>12, <2>2, <3>5, <3>6, <3>7 DEF CommandOK
  <2>3. CASE WriteOutOK(h)
    <3>1. /\ BufferOK(h) /\ Op(h) = "out" /\ HoldsBytes(h, call[h].want)
          /\ call[h].want = [b \in Disk |-> call[h].want[b]]
          /\ \A b \in Disk : b - SectorOf(h) + 1 \in DOMAIN call[h].buf \/ call[h].want[b] = disk[b]
      BY <2>3 DEF WriteOutOK, Op
    <3>2. /\ call'[h].status = 0 /\ call'[h].buf = call[h].buf
          /\ disk' = [b \in Disk |-> IF b - SectorOf(h) + 1 \in DOMAIN call[h].buf
                                     THEN call[h].buf[b - SectorOf(h) + 1] ELSE disk[b]]
      BY <1>0, <1>6, <2>1, <3>1, OutAlone DEF d
    <3>3. ASSUME NEW b \in Disk PROVE disk'[b] = call[h].want[b]
      <4>1. CASE b - SectorOf(h) + 1 \in DOMAIN call[h].buf
        <5>1. SectorOf(h) \in Int /\ b \in Int
          <6>1. call[h].byte \in Nat /\ SectorSize \in Nat \ {0} /\ NumSectors \in Nat
            BY VirtioAssumption DEF IInv, TypeOK
          <6>2. (call[h].byte \div SectorSize) \in Int
            BY <6>1
          <6>3. QED
            BY <6>1, <6>2 DEF SectorOf, Disk
        <5>2. PICK s \in Int : s = SectorOf(h)
          BY <5>1
        <5>3. s + (b - s + 1) - 1 = b
          BY <5>1
        <5>4. disk'[b] = call[h].buf[b - s + 1]
          BY <3>2, <4>1, <5>2
        <5>5. call[h].buf[b - s + 1] = call[h].want[s + (b - s + 1) - 1]
          BY <3>1, <4>1, <5>2 DEF HoldsBytes
        <5>6. QED
          BY <5>3, <5>4, <5>5
      <4>2. CASE b - SectorOf(h) + 1 \notin DOMAIN call[h].buf
        BY <3>1, <3>2, <4>2
      <4>3. QED
        BY <4>1, <4>2
    <3>4. disk' = call[h].want
      BY <3>1, <3>2, <3>3
    <3>5. BufferOK(h)' /\ HoldsBytes(h, call[h].want)'
      <4>1. BufferOK(h)'
        BY <1>2, <3>1, <3>2 DEF BufferOK
      <4>2. HoldsBytes(h, call[h].want)'
        BY <1>2, <3>1, <3>2 DEF HoldsBytes
      <4>3. QED
        BY <4>1, <4>2
    <3>6. WriteOutOK(h)'
      BY <1>2, <2>3, <3>4, <3>5 DEF WriteOutOK
    <3>7. Succeeded(h)'
      BY <3>2 DEF Succeeded
    <3>8. QED
      BY <1>2, <1>8, <1>9, <1>12, <3>6, <3>7 DEF CommandOK
  <2>4. CASE FlushOK(h)
    <3>1. Op(h) = "flush"
      BY <2>4 DEF FlushOK, Op
    <3>2. call'[h].status = 0
      BY <1>0, <1>6, <2>1, <3>1, FlushAlone DEF d
    <3>3. FlushOK(h)' /\ Succeeded(h)'
      BY <1>2, <2>4, <3>2 DEF FlushOK, Succeeded
    <3>4. QED
      BY <1>2, <1>8, <1>9, <1>12, <3>3 DEF CommandOK
  <2>5. QED
    BY <1>3, <1>12, <2>2, <2>3, <2>4 DEF CommandOK, d
<1>13. QED
  BY <1>0, <1>10, <1>11, <1>12 DEF Queued, d

(* A device that takes its next entry keeps what is known of the harts     *)
(* that are alone: it serves the one on its own queue and touches no other.*)
LEMMA ServeAlone == ASSUME IInv, AloneInv, NEW d \in Queued, DeviceStep(d) PROVE AloneInv'
<1>1. /\ UNCHANGED <<pciVars, ready, pc, calls>> /\ Pending(d)
      /\ broken \subseteq broken' /\ \A e \in broken' : e \in broken \/ (e = d /\ Kind(d) = "block")
      /\ queue' = Served(d) \/ (queue' = queue /\ d \in broken')
      /\ \A k \in Harts : Keeps(k) /\ (Dev(k) # d => Unchanged(k))
      /\ Kind(d) # "block" => disk' = disk
      /\ Kind(d) # "gpu" => gpu' = gpu
  BY DeviceFrame
<1>2. \A k \in Harts : /\ call'[k].fn = call[k].fn /\ call'[k].dev = call[k].dev
                       /\ call'[k].alone = call[k].alone /\ SameCall(k) /\ Dev(k)' = Dev(k)
  BY <1>1 DEF Keeps, SameCall, Dev
<1>3. \A k \in Harts : CalledOK(k)'
  BY <1>1, <1>2, CalledFrame DEF AloneInv
<1>4. StateOK
  BY DEF AloneInv
<1>5. gpu' = gpu \/ \E op : gpu' = GpuAfter(op)
  <2>1. ServeGpu(d) => gpu' = gpu \/ \E op : gpu' = GpuAfter(op)
    BY DEF ServeGpu, GpuAfter
  <2>2. ~ServeGpu(d) => gpu' = gpu
    BY DEF DeviceStep, ServeRng, ServeBlock
  <2>3. QED
    BY <2>1, <2>2
<1>6. /\ DOMAIN gpu' = {"steps", "fb", "resource", "screen"} /\ gpu.steps \subseteq gpu'.steps
      /\ gpu'.fb \in Nat /\ gpu'.resource \in Nat /\ gpu'.screen \in Nat
  <2>1. CASE gpu' = gpu
    BY <1>4, <2>1 DEF StateOK
  <2>2. ASSUME NEW op, gpu' = GpuAfter(op)
        PROVE  /\ DOMAIN gpu' = {"steps", "fb", "resource", "screen"} /\ gpu.steps \subseteq gpu'.steps
               /\ gpu'.fb \in Nat /\ gpu'.resource \in Nat /\ gpu'.screen \in Nat
    BY <1>4, <2>2, GpuFields DEF StateOK
  <2>3. QED
    BY <1>5, <2>1, <2>2
<1>7. disk' = [b \in Disk |-> disk'[b]]
  <2>1. CASE disk' = disk
    BY <1>4, <2>1 DEF StateOK
  <2>2. CASE ServeBlock(d) /\ disk' # disk
    BY <2>2 DEF ServeBlock, BlockRequest
  <2>3. QED
    BY <1>1, <2>1, <2>2 DEF DeviceStep, ServeRng, ServeGpu
<1>8. StateOK'
  BY <1>1, <1>4, <1>6, <1>7 DEF StateOK
<1>9. GpuReady'
  BY <1>1, <1>2, <1>6, VirtioAssumption DEF AloneInv, GpuReady
<1>10. ASSUME NEW h \in Harts PROVE AloneOK(h)'
  <2>1. CASE Dev(h) = d
    <3> SUFFICES ASSUME Sole(h)' PROVE (Exclusive(h) /\ QueueOK(h) /\ StatusOK(h) /\ CommandOK(h))'
      BY DEF AloneOK
    <3>1. Sole(h) /\ Dev(h) \notin broken'
      BY <1>1, <1>2 DEF Sole
    <3>2. (QueueOK(h) /\ StatusOK(h) /\ CommandOK(h))'
      BY <2>1, <3>1, ServedCommand
    <3>3. Exclusive(h)
      BY <3>1 DEF AloneInv, AloneOK
    <3>4. Exclusive(h)'
      BY <1>2, <3>3 DEF Exclusive
    <3>5. QED
      BY <3>2, <3>4
  <2>2. CASE Dev(h) # d
    <3>1. Unchanged(h) /\ AloneOK(h) /\ pc'[h] = pc[h]
      BY <1>1, <2>2 DEF AloneInv
    <3>2. ASSUME Sole(h)
          PROVE  /\ \A k \in Harts \ {h} : call'[k].dev # Dev(h)
                 /\ queue'[Dev(h)] = queue[Dev(h)]
                 /\ Kind(Dev(h)) = "block" => disk' = disk
                 /\ Kind(Dev(h)) = "gpu" => gpu' = gpu
      <4>1. Dev(h) \in Queued /\ Exclusive(h)
        BY <3>1, <3>2 DEF Sole, AloneOK
      <4>2. \A k \in Harts \ {h} : call'[k].dev # Dev(h)
        BY <1>2, <4>1 DEF Exclusive
      <4>3. queue'[Dev(h)] = queue[Dev(h)]
        BY <1>1, <2>2, <4>1, ServedAlone
      <4>4. Kind(Dev(h)) \in {"block", "gpu"} => Kind(d) # Kind(Dev(h))
        BY <2>2, <4>1, DriverAssumption DEF Queued, Kind
      <4>5. QED
        BY <1>1, <4>2, <4>3, <4>4
    <3>3. QED
      BY <1>1, <3>1, <3>2, AloneKept
  <2>3. QED
    BY <2>1, <2>2
<1>11. QED
  BY <1>3, <1>8, <1>9, <1>10 DEF AloneInv

-----------------------------------------------------------------------------
(* The invariant holds at first, when nobody calls a driver. *)
LEMMA InitAlone == Init => AloneInv
<1> SUFFICES ASSUME Init PROVE AloneInv
  OBVIOUS
<1>1. \A h \in Harts : pc[h] = "idle" /\ call[h].fn = "none" /\ call[h].dev = "none"
  BY DEF Init, NoCall
<1>2. \A h \in Harts : CalledOK(h)
  BY <1>1 DEF CalledOK
<1>3. \A h \in Harts : AloneOK(h)
  BY <1>1 DEF AloneOK, Sole, Busy
<1>4. GpuReady
  BY DEF Init, GpuReady
<1>5. StateOK
  BY DEF Init, StateOK
<1>6. QED
  BY <1>2, <1>3, <1>4, <1>5 DEF AloneInv

(* Every step keeps what is known of a hart that is alone. *)
LEMMA NextAlone == IInv /\ AloneInv /\ [Next]_vars => AloneInv'
<1> SUFFICES ASSUME IInv, AloneInv, [Next]_vars PROVE AloneInv'
  OBVIOUS
<1>1. CASE UNCHANGED vars
  <2>1. UNCHANGED <<pciVars, ready, queue, pc, call, calls, disk, broken, gpu>>
    BY <1>1 DEF vars, devVars
  <2>2. QED
    BY <2>1, QuietAlone
<1>2. CASE PciSlot /\ UNCHANGED devVars
  BY <1>2, PciAlone
<1>3. CASE VirtioDeviceInit
  BY <1>3, DeviceInitAlone
<1>4. ASSUME NEW h \in Harts, HartStep(h) PROVE AloneInv'
  BY <1>4, SubmitAlone, LockNotifyAlone, FillAlone, PublishAlone, WaitAlone, ReturnAlone
     DEF HartStep
<1>5. ASSUME NEW d \in Queued, DeviceStep(d) PROVE AloneInv'
  BY <1>5, ServeAlone
<1>6. ASSUME NEW h \in Harts, NEW d \in Queued,
             \/ BlockFlush(h, d) \/ RngFill(h, d) \/ GpuRedraw(h, d)
             \/ \E r \in Ranges : BlockReadWrapper(h, d, r) \/ BlockWriteWrapper(h, d, r)
      PROVE  AloneInv'
  BY <1>6, CallsAlone
<1>7. CASE Paint
  BY <1>7, PaintAlone
<1>8. ASSUME NEW d \in Inputs, GetInput(d) \/ InputStep(d) PROVE AloneInv'
  BY <1>8, InputAlone
<1>9. ASSUME NEW d \in Inputs, NEW t, DeviceEvent(d, t) PROVE AloneInv'
  <2>1. UNCHANGED <<pciVars, ready, queue, pc, call, calls, disk, broken, gpu>>
    BY <1>9 DEF DeviceEvent
  <2>2. QED
    BY <2>1, QuietAlone
<1>10. QED
  BY <1>1, <1>2, <1>3, <1>4, <1>5, <1>6, <1>7, <1>8, <1>9 DEF Next

(* Read sectors hold the bytes of the range where the wrapper takes them. *)
LEMMA ReadBytes ==
  ASSUME NEW h \in Harts, BufferOK(h), HoldsBytes(h, call[h].want)
  PROVE  \A i \in 0 .. (call[h].size - 1) :
           call[h].buf[(call[h].byte % SectorSize) + 1 + i] = call[h].want[call[h].byte + i]
<1>1. PICK r \in Ranges :
        /\ call[h].byte = r.byte /\ call[h].size = r.size
        /\ call[h].buf = [i \in 1 .. AlignedLen(r.byte, r.size) |-> call[h].buf[i]]
  BY DEF BufferOK
<1>2. PICK m \in Nat, start \in Nat, n \in Nat \ {0} :
        /\ m = r.byte % SectorSize /\ start = (r.byte \div SectorSize) * SectorSize
        /\ n = AlignedLen(r.byte, r.size)
        /\ r.byte \in Nat /\ r.size \in Nat /\ m + r.size <= n /\ r.byte = start + m
  BY SectorsOfRange
<1>3. PICK z \in Nat, b0 \in Nat : z = r.size /\ b0 = r.byte
  BY <1>2
<1>4. b0 = start + m /\ m + z <= n
  BY <1>2, <1>3
<1>5. DOMAIN call[h].buf = 1 .. n /\ SectorOf(h) = start
  BY <1>1, <1>2 DEF SectorOf
<1>6. ASSUME NEW i \in 0 .. (z - 1) PROVE call[h].buf[m + 1 + i] = call[h].want[b0 + i]
  <2>1. m + 1 + i \in 1 .. n /\ start + (m + 1 + i) - 1 = b0 + i
    BY <1>4
  <2>2. PICK j \in 1 .. n : j = m + 1 + i
    BY <2>1
  <2>3. call[h].buf[j] = call[h].want[start + j - 1]
    BY <1>5 DEF HoldsBytes
  <2>4. start + j - 1 = b0 + i
    BY <2>1, <2>2
  <2>5. QED
    BY <2>2, <2>3, <2>4
<1>7. QED
  BY <1>1, <1>2, <1>3, <1>6

(* A call that is done and was alone did what it was to do. *)
LEMMA AloneDone == ASSUME IInv, AloneInv PROVE AloneMeansDone
<1> SUFFICES ASSUME NEW h \in Harts, pc[h] = "done", call[h].alone, call[h].fn # "get_input",
                    Dev(h) \notin broken
             PROVE  call[h].result /\ Effect(call[h])
  BY DEF AloneMeansDone
<1>1. Sole(h)
  BY DEF AloneInv, CalledOK, Sole
<1>2. StatusOK(h) /\ CommandOK(h)
  BY <1>1 DEF AloneInv, AloneOK
<1>3. Carried(h) /\ call[h].result /\ Len(call[h].cmds) = 1
  BY <1>2 DEF StatusOK, Carried
<1>4. CASE ReadOK(h)
  <2>1. call[h].fn = "block_read_wrapper" /\ BufferOK(h) /\ HoldsBytes(h, call[h].want)
    BY <1>3, <1>4 DEF ReadOK
  <2>2. QED
    BY <1>3, <2>1, ReadBytes DEF Effect
<1>5. CASE WriteInOK(h)
  <2>1. Len(<<"in", "out">>) = 2
    OBVIOUS
  <2>2. QED
    BY <1>3, <1>5, <2>1 DEF WriteInOK
<1>6. CASE WriteOutOK(h)
  BY <1>3, <1>6 DEF WriteOutOK, Effect
<1>7. CASE FlushOK(h) \/ RngOK(h)
  BY <1>3, <1>7 DEF FlushOK, RngOK, Effect
<1>8. CASE GpuOK(h)
  <2>1. Op(h) = "screen"
    BY <1>3, <1>8, LastGpuCommand DEF GpuOK, Op
  <2>2. call[h].want <= gpu.screen /\ call[h].want \in Nat /\ gpu.screen \in Nat
    BY <1>3, <1>8, <2>1 DEF GpuOK, AloneInv, StateOK
  <2>3. gpu.screen >= call[h].want
    BY <2>2
  <2>4. call[h].fn \in {"gpu_setup", "gpu_redraw"}
    BY <1>8 DEF GpuOK
  <2>5. QED
    BY <1>3, <2>3, <2>4 DEF Effect
<1>9. QED
  BY <1>2, <1>4, <1>5, <1>6, <1>7, <1>8 DEF CommandOK

(* block.c, rng.c, gpu.c: a call that had its device to itself, and whose  *)
(* device no earlier mix-up has stopped, succeeds and did what it says,    *)
(* whatever the calls before it left in the queue: a read gives the bytes  *)
(* of its range, a write changes exactly its range, gpu_setup and a redraw *)
(* show what had been drawn.                                               *)
THEOREM AloneIsDone == Spec => []AloneMeansDone
<1>1. Init /\ [][Next]_vars /\ []IInv => []AloneInv
  BY InitAlone, NextAlone, PTL
<1>2. QED
  BY <1>1, Invariance, AloneDone, PTL DEF Spec

=============================================================================
