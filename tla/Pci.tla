-------------------------------- MODULE Pci --------------------------------
(***************************************************************************)
(* Enumeration of the PCI bus at boot, src/src/pci.c: pci_init walks every *)
(* bus and device number once, gives each bridge the next bus number and   *)
(* the window that belongs to it, and each function its base addresses.    *)
(* Nothing negotiates addresses: they follow from the bus and the device   *)
(* number alone, and the walk finds the functions behind a bridge only     *)
(* because the bridge was numbered before its bus came up.                 *)
(*                                                                         *)
(* Addresses are in units of 4 KiB, the smallest BAR.  The interrupt that  *)
(* pci_init computes is left out: USE_PLIC is not defined, so no external  *)
(* interrupt ever reaches pci_dispatch_irq.                                *)
(***************************************************************************)
EXTENDS Naturals, FiniteSets, Sequences

CONSTANTS
  Topology,   \* the machine: each function's place, kind, BARs and
              \* virtio capabilities
  MaxBus,     \* max_bus
  MaxDevice   \* max_device

Functions == DOMAIN Topology
IsBridge(f) == Topology[f].kind = "bridge"

Bridges == {g \in Functions : IsBridge(g)}

(* Every function has a place of its own, on the root bus (the host bridge *)
(* is number 0 there) or behind a bridge.  The bridges are on the root     *)
(* bus, as pci.c gives each a single bus number to forward, and they are   *)
(* no more than the bus numbers it looks at.                               *)
ASSUME TopologyAssumption ==
  /\ MaxBus \in 1 .. 16 /\ MaxDevice \in 1 .. 32
  /\ "root" \notin Functions
  /\ \A f \in Functions :
       /\ Topology[f].on \in Bridges \cup {"root"}
       /\ Topology[f].dev \in (IF Topology[f].on = "root" THEN 1 ELSE 0) .. (MaxDevice - 1)
  /\ \A f, g \in Functions :
       Topology[f].on = Topology[g].on /\ Topology[f].dev = Topology[g].dev => f = g
  /\ \A g \in Bridges : Topology[g].on = "root"
  /\ IsFiniteSet(Bridges) /\ Cardinality(Bridges) < MaxBus

BusSpan == 256       \* 1 << 20 bytes: the window of one bus
SlotSpan == 8        \* 1 << 15 bytes: the share of one device number

(* The room a BAR takes at most: to align a wide one costs less than its   *)
(* size.                                                                   *)
BarRoom(w) == IF w.size = 0 THEN 0 ELSE IF w.wide THEN 2 * w.size - 1 ELSE w.size

(* The BARs that setup_pci_device does not align are the smallest there    *)
(* are, and those of a function fit into its share however they are        *)
(* aligned.                                                                *)
ASSUME BarAssumption ==
  \A f \in Functions :
    LET b == Topology[f].bars
    IN /\ b \in [0 .. 5 -> [size : Nat, wide : BOOLEAN]]
       /\ \A k \in 0 .. 5 : ~b[k].wide => b[k].size \in {0, 1}
       /\ BarRoom(b[0]) + BarRoom(b[1]) + BarRoom(b[2]) + BarRoom(b[3]) + BarRoom(b[4])
            + BarRoom(b[5]) <= SlotSpan

VARIABLES
  slot,       \* the bus and device number that pci_init looks at next
  sbn,        \* the bus number that the next bridge gets
  secondary,  \* secondary_bus_no of each bridge, 0 before it has one
  bar,        \* the address in each base address register
  devices     \* g_virtio_devices, oldest first

pciVars == <<slot, sbn, secondary, bar, devices>>

PciInit ==
  /\ slot = 1            \* bus 0, device 0 is the host bridge and skipped
  /\ sbn = 1
  /\ secondary = [g \in Bridges |-> 0]
  /\ bar = [f \in Functions |-> [k \in 0 .. 5 |-> 0]]
  /\ devices = << >>

PciDone == slot = MaxBus * MaxDevice

Bus == slot \div MaxDevice
Device == slot % MaxDevice

(* The hardware answers at a bus number that a bridge was given. *)
BusOf(f) == IF Topology[f].on = "root" THEN 0 ELSE secondary[Topology[f].on]
Present == {f \in Functions : /\ Topology[f].dev = Device
                              /\ BusOf(f) = Bus
                              /\ Topology[f].on # "root" => BusOf(f) # 0}

AlignUp(a, size) == ((a + size - 1) \div size) * size

(* A register of a BAR keeps no bits below the BAR's size. *)
BarKeeps(a, size) == a - (a % size)

(* A mutant: no BAR is aligned. *)
PlaceUnaligned(b, start) ==
  LET at[k \in 0 .. 6] == IF k = 0 THEN start ELSE at[k - 1] + b[k - 1].size
  IN [k \in 0 .. 5 |-> IF b[k].size = 0 THEN 0 ELSE BarKeeps(at[k], b[k].size)]

(* setup_pci_device: where register k is put.  Only a 64 bit BAR, which    *)
(* takes two registers (the second one has size 0 here), is aligned.       *)
Place(b, start) ==
  LET at[k \in 0 .. 6] ==
        IF k = 0 THEN start
        ELSE LET c == at[k - 1]
                 w == b[k - 1]
             IN IF w.size = 0 THEN c
                ELSE (IF w.wide THEN AlignUp(c, w.size) ELSE c) + w.size
  IN [k \in 0 .. 5 |->
        IF b[k].size = 0 THEN 0 ELSE BarKeeps(at[k + 1] - b[k].size, b[k].size)]

DeviceStart == Bus * BusSpan + Device * SlotSpan

SetupPciDevice(f) ==
  /\ bar' = [bar EXCEPT ![f] = Place(Topology[f].bars, DeviceStart)]
  /\ UNCHANGED <<sbn, secondary>>

SetupPciBridge(f) ==
  /\ secondary' = [secondary EXCEPT ![f] = sbn]
  /\ sbn' = sbn + 1
  /\ UNCHANGED bar

(* pci_init: one turn of the inner loop. *)
PciSlot ==
  /\ ~PciDone
  /\ slot' = slot + 1
  /\ \/ Present = {} /\ UNCHANGED <<sbn, secondary, bar, devices>>
     \/ \E f \in Present :
          \/ /\ IsBridge(f)
             /\ SetupPciBridge(f)
             /\ UNCHANGED devices
          \/ /\ ~IsBridge(f)
             /\ SetupPciDevice(f)
             /\ devices' = Append(devices, f)

-----------------------------------------------------------------------------
(* Where the drivers find what was enumerated. *)

(* pci_get_ecam, counted from PCI_ECAM_ADDRESS_START. *)
PciGetEcam(bus, device) == (bus % 256) * 256 + (device % 32) * 8

(* What main mapped for the ECAM and for MMIO: 16 MiB and 256 MiB. *)
EcamPages == 0 .. (16 * BusSpan - 1)
MmioPages == 0 .. (256 * BusSpan - 1)

(* virtio_init_notify, virtio_init_isr, virtio_set_dev_config and the      *)
(* beginning of virtio_init_common: the capability's offset in its BAR.    *)
MmioAddr(f, cap) == bar[f][cap.bar] + cap.offset

(* virtio_device_init walks the list of capabilities from its start to its *)
(* end: of several with one type the last one stays.                       *)
LastCape(f, type) ==
  LET capes == Topology[f].capes
      keep(k) == capes[k].type = type /\ \A j \in DOMAIN capes : capes[j].type = type => j <= k
  IN  capes[CHOOSE k \in DOMAIN capes : keep(k)]

StructureAt(f, type) == MmioAddr(f, LastCape(f, type))

CapTypes == {"common", "notify", "isr", "device"}

Used(f) == {k \in 0 .. 5 : Topology[f].bars[k].size # 0}

(* A device has its four structures in its own BARs, and apart. *)
ASSUME CapeAssumption ==
  \A f \in Functions : ~IsBridge(f) =>
    /\ \A t \in CapTypes :
         /\ LastCape(f, t).bar \in Used(f)
         /\ LastCape(f, t).offset \in 0 .. (Topology[f].bars[LastCape(f, t).bar].size - 1)
    /\ \A t, u \in CapTypes :
         LastCape(f, t).bar = LastCape(f, u).bar /\ LastCape(f, t).offset = LastCape(f, u).offset
           => t = u

-----------------------------------------------------------------------------

Decodes(f, k) == bar[f][k] .. (bar[f][k] + Topology[f].bars[k].size - 1)
Window(g) == (secondary[g] * BusSpan) .. (secondary[g] * BusSpan + BusSpan - 1)

(* Every function was found, no two BARs decode the same address, a BAR is *)
(* mapped and lies in the window of the bridge its function is behind and  *)
(* in no other bridge's; and the registers that the drivers will use are   *)
(* four that their own device decodes.                                     *)
BarsFit ==
  /\ \A f \in Functions : ~IsBridge(f) =>
       /\ PciGetEcam(BusOf(f), Topology[f].dev) \in EcamPages
       /\ UNION {Decodes(f, k) : k \in Used(f)} \subseteq MmioPages
       /\ {StructureAt(f, type) : type \in CapTypes} \subseteq UNION {Decodes(f, k) : k \in Used(f)}
       /\ Cardinality({StructureAt(f, type) : type \in CapTypes}) = 4
  /\ \A f \in Functions : ~IsBridge(f) => \E i \in DOMAIN devices : devices[i] = f
  /\ \A f, g \in Functions : ~IsBridge(f) /\ ~IsBridge(g) =>
       \A j \in Used(f), k \in Used(g) :
         <<f, j>> # <<g, k>> => Decodes(f, j) \cap Decodes(g, k) = {}
  /\ \A f, g \in Functions : ~IsBridge(f) /\ IsBridge(g) =>
       \A k \in Used(f) :
         IF Topology[f].on = g THEN Decodes(f, k) \subseteq Window(g)
                               ELSE Decodes(f, k) \cap Window(g) = {}
=============================================================================
