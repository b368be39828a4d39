------------------------------ MODULE MCVirtio ------------------------------
(* The machine of the repository's Makefile: root ports 1 to 4, the input  *)
(* devices on the root bus, the others behind the first three ports.  The  *)
(* sizes of the disk, the rings and the queues are cut down.               *)
EXTENDS Virtio

BarsOf(kind) ==
  [k \in 0 .. 5 |-> CASE k = 1 /\ kind # "bridge" -> [size |-> 1, wide |-> FALSE]
                      [] k = 4 /\ kind # "bridge" -> [size |-> 4, wide |-> TRUE]
                      [] OTHER -> [size |-> 0, wide |-> FALSE]]

(* The capabilities of qemu's devices: a page each of the last BAR, and    *)
(* one more of a type that the driver passes over.                         *)
Capes == << [type |-> "pci", bar |-> 0, offset |-> 0], [type |-> "notify", bar |-> 4, offset |-> 3],
            [type |-> "device", bar |-> 4, offset |-> 2], [type |-> "isr", bar |-> 4, offset |-> 1],
            [type |-> "common", bar |-> 4, offset |-> 0] >>

Place4(on, dev, kind) == [on |-> on, dev |-> dev, kind |-> kind, bars |-> BarsOf(kind), capes |-> Capes]

MCTopology ==
  [p1 |-> Place4("root", 1, "bridge"), p2 |-> Place4("root", 2, "bridge"),
   p3 |-> Place4("root", 3, "bridge"), p4 |-> Place4("root", 4, "bridge"),
   keyboard |-> Place4("root", 5, "keyboard"), tablet |-> Place4("root", 6, "tablet"),
   rng |-> Place4("p1", 0, "rng"), gpu |-> Place4("p2", 0, "gpu"), blk |-> Place4("p3", 0, "block")]

(* The devices share no state: after the boot a behaviour uses one of      *)
(* them.  To a device the harts are alike: the first call is Boot's.  The  *)
(* last call begins, and the last event of a device comes, when no call is *)
(* under way.                                                              *)
Touched(d) ==
  \/ d \in Inputs /\ input[d].sent # << >>
  \/ d \in Queued /\ queue[d].idx # IF Kind(d) = "gpu" THEN Len(SetupCommands) ELSE 0
  \/ Kind(d) = "gpu" /\ gpu.fb # 0
  \/ \E h \in Harts : Dev(h) = d

OneDevice ==
  Booted => Cardinality({d \in Inputs \cup Queued : Touched(d)}) <= 1

FirstByBoot == calls = 0 /\ calls' = 1 => pc'[Boot] # "idle"

LastAlone ==
  \/ calls' = MaxCalls /\ calls # calls'
  \/ \E d \in Inputs : Len(input'[d].sent) = MaxEvents /\ input'[d].sent # input[d].sent
  => \A h \in Harts : pc[h] = "idle"

MCSpec == Init /\ [][Next /\ OneDevice' /\ FirstByBoot /\ LastAlone]_vars /\ Fairness

(* The end of a sector, and a stretch across the sector boundary. *)
MCRanges == {[byte |-> 1, size |-> 1], [byte |-> 1, size |-> 3]}
=============================================================================
