----------------------------- MODULE PciProofs -----------------------------
(***************************************************************************)
(* Proofs about the enumeration of Pci, for every machine that keeps its   *)
(* assumptions: when the walk is over, every function was found and the    *)
(* addresses it was given are apart and reachable.                         *)
(*                                                                         *)
(* The walk visits each place (a bus and a device number) once.  A bridge  *)
(* is met on the root bus and gets a number that is still ahead, so the    *)
(* places behind it are all visited after it was numbered.  An address     *)
(* follows from the place, so functions with different places get          *)
(* addresses from different shares.                                        *)
(***************************************************************************)
EXTENDS Virtio, SequenceLemmas, FiniteSetTheorems

On(f) == Topology[f].on
DevNo(f) == Topology[f].dev
Numbered == {g \in Bridges : secondary[g] # 0}

(* A function answers at a place: that on the root bus from the beginning, *)
(* the others since their bridge was numbered.                             *)
Answers(f) == On(f) = "root" \/ On(f) \in Numbered
PlaceOf(f) == BusOf(f) * MaxDevice + DevNo(f)

ShareOf(f) == BusOf(f) * BusSpan + DevNo(f) * SlotSpan
SetUp(f) == IF IsBridge(f) THEN f \in Numbered
            ELSE /\ \E i \in DOMAIN devices : devices[i] = f
                 /\ bar[f] = Place(Topology[f].bars, ShareOf(f))

WalkType ==
  /\ slot \in 1 .. (MaxBus * MaxDevice)
  /\ sbn \in Nat \ {0}
  /\ secondary \in [Bridges -> 0 .. (sbn - 1)]
  /\ DOMAIN bar = Functions
  /\ devices \in Seq(Functions)

(* The bridges have different numbers, one for each that was met. *)
NumbersOK ==
  /\ \A g, h \in Numbered : secondary[g] = secondary[h] => g = h
  /\ sbn = Cardinality(Numbered) + 1
  /\ \A g \in Numbered : DevNo(g) < slot

(* What has been passed is set up. *)
PassedOK == \A f \in Functions : Answers(f) /\ PlaceOf(f) < slot => SetUp(f)

WalkInv == WalkType /\ NumbersOK /\ PassedOK

-----------------------------------------------------------------------------
(* Arithmetic. *)

(* A place determines its bus and device number. *)
LEMMA PlacesApart ==
  ASSUME NEW m \in Nat \ {0}, NEW b \in Nat, NEW c \in Nat,
         NEW d \in 0 .. (m - 1), NEW e \in 0 .. (m - 1), b * m + d = c * m + e
  PROVE  b = c /\ d = e
<1>1. CASE b < c
  <2>1. (c - b - 1) * m >= 0 /\ c * m = (c - b - 1) * m + b * m + m
    BY <1>1
  <2>2. QED
    BY <2>1
<1>2. CASE c < b
  <2>1. (b - c - 1) * m >= 0 /\ b * m = (b - c - 1) * m + c * m + m
    BY <1>2
  <2>2. QED
    BY <2>1
<1>3. CASE b = c
  BY <1>3
<1>4. QED
  BY <1>1, <1>2, <1>3

(* The bus and device number of a slot are those of the place. *)
LEMMA PlaceOfSlot ==
  ASSUME NEW m \in Nat \ {0}, NEW s \in Nat, NEW b \in Nat, NEW d \in 0 .. (m - 1)
  PROVE  b * m + d = s <=> b = s \div m /\ d = s % m
<1>1. s \div m \in Nat /\ s % m \in 0 .. (m - 1) /\ (s \div m) * m + (s % m) = s
  OBVIOUS
<1>2. ASSUME b * m + d = s PROVE b = s \div m /\ d = s % m
  <2>1. PICK c \in Nat, e \in 0 .. (m - 1) : c = s \div m /\ e = s % m
    BY <1>1
  <2>2. b * m + d = c * m + e
    BY <1>1, <1>2, <2>1
  <2>3. b = c /\ d = e
    BY <2>2, PlacesApart
  <2>4. QED
    BY <2>1, <2>3
<1>3. QED
  BY <1>1, <1>2

(* The places of a bus come before those of the next. *)
LEMMA PlaceBounds ==
  ASSUME NEW m \in Nat \ {0}, NEW b \in Nat, NEW n \in Nat, NEW d \in 0 .. (m - 1)
  PROVE  /\ b * m + d \in Nat
         /\ b < n => b * m + d < n * m
         /\ b >= n => b * m + d >= n * m
<1>0. b * m \in Nat /\ n * m \in Nat
  OBVIOUS
<1>1. ASSUME b < n PROVE b * m + d < n * m
  <2>1. (n - b - 1) * m >= 0 /\ n * m = (n - b - 1) * m + b * m + m
    BY <1>1
  <2>2. QED
    BY <2>1
<1>2. ASSUME b >= n PROVE b * m + d >= n * m
  <2>1. (b - n) * m >= 0 /\ b * m = (b - n) * m + n * m
    BY <1>2
  <2>2. QED
    BY <2>1
<1>3. QED
  BY <1>0, <1>1, <1>2

(* ALIGN_UP_POT. *)
LEMMA AlignUpBounds ==
  ASSUME NEW a \in Nat, NEW s \in Nat \ {0}
  PROVE  /\ AlignUp(a, s) \in Nat /\ a <= AlignUp(a, s) /\ AlignUp(a, s) <= a + s - 1
         /\ AlignUp(a, s) % s = 0
<1>1. PICK c \in Nat : c = a + s - 1
  OBVIOUS
<1>2. PICK q \in Nat, r \in 0 .. (s - 1) : q = c \div s /\ r = c % s
  OBVIOUS
<1>3. c = q * s + r /\ q * s \in Nat
  BY <1>2
<1>4. AlignUp(a, s) = q * s
  BY <1>1, <1>2 DEF AlignUp
<1>5. (q * s) % s = 0
  OBVIOUS
<1>6. QED
  BY <1>1, <1>3, <1>4, <1>5

-----------------------------------------------------------------------------
(* The addresses. *)

(* Where the next BAR begins. *)
NextAt(c, w) == IF w.size = 0 THEN c ELSE (IF w.wide THEN AlignUp(c, w.size) ELSE c) + w.size

(* The recursive function in Place exists and is what it is defined as. *)
LEMMA PlaceRecursion ==
  ASSUME NEW b, NEW start
  PROVE  \E at : /\ at[0] = start
                 /\ \A k \in 1 .. 6 : at[k] = NextAt(at[k - 1], b[k - 1])
                 /\ Place(b, start) = [k \in 0 .. 5 |->
                      IF b[k].size = 0 THEN 0 ELSE BarKeeps(at[k + 1] - b[k].size, b[k].size)]
<1> DEFINE Def(m, n) == [k \in 0 .. n |-> IF k = 0 THEN start ELSE NextAt(m[k - 1], b[k - 1])]
           T == {n \in 0 .. 6 : \E m : m = Def(m, n)}
<1>1. 0 \in T
  <2> DEFINE m == [k \in 0 .. 0 |-> start]
  <2>1. m = Def(m, 0)
    OBVIOUS
  <2> HIDE DEF m, Def
  <2>2. QED
    BY <2>1
<1>2. ASSUME NEW n \in 1 .. 6, n - 1 \in T PROVE n \in T
  <2>1. PICK m : m = Def(m, n - 1)
    BY <1>2
  <2> DEFINE mm == [k \in 0 .. n |-> IF k < n THEN m[k] ELSE NextAt(m[n - 1], b[n - 1])]
  <2>2. ASSUME NEW k \in 0 .. n
        PROVE  mm[k] = IF k = 0 THEN start ELSE NextAt(mm[k - 1], b[k - 1])
    <3>1. n \in Nat /\ n >= 1 /\ k \in Nat /\ k <= n
      OBVIOUS
    <3>2. CASE k = 0
      <4>1. 0 \in 0 .. (n - 1) /\ mm[0] = m[0]
        BY <3>1
      <4>2. QED
        BY <2>1, <3>2, <4>1
    <3>3. CASE k # 0 /\ k < n
      <4>1. k \in 0 .. (n - 1) /\ k - 1 \in 0 .. n /\ k - 1 < n
        BY <3>1, <3>3
      <4>2. mm[k] = m[k] /\ mm[k - 1] = m[k - 1]
        BY <3>3, <4>1
      <4>3. m[k] = NextAt(m[k - 1], b[k - 1])
        BY <2>1, <3>3, <4>1
      <4>4. QED
        BY <3>3, <4>2, <4>3
    <3>4. CASE k = n
      <4>1. n - 1 \in 0 .. n /\ n - 1 < n
        BY <3>1
      <4>2. mm[n - 1] = m[n - 1] /\ mm[n] = NextAt(m[n - 1], b[n - 1])
        BY <3>1, <4>1
      <4>3. QED
        BY <3>1, <3>4, <4>2
    <3>5. QED
      BY <3>1, <3>2, <3>3, <3>4
  <2>3. mm = Def(mm, n)
    <3>1. Def(mm, n) = [k \in 0 .. n |-> mm[k]]
      BY <2>2
    <3>2. QED
      BY <3>1
  <2>4. n \in 0 .. 6
    OBVIOUS
  <2> HIDE DEF mm, Def
  <2>5. QED
    BY <2>3, <2>4
<1>3. 6 \in T
  <2> HIDE DEF T
  <2>1. \A k \in 0 .. 6 : k \in T
    BY <1>1, <1>2, IntervalInduction
  <2>2. QED
    BY <2>1
<1>4. \E m : m = Def(m, 6)
  BY <1>3
<1> DEFINE at == CHOOSE m : m = Def(m, 6)
<1>5. at = Def(at, 6)
  BY <1>4
<1>6. Place(b, start) = [k \in 0 .. 5 |->
        IF b[k].size = 0 THEN 0 ELSE BarKeeps(at[k + 1] - b[k].size, b[k].size)]
  BY DEF Place, NextAt
<1> HIDE DEF at
<1>7. at[0] = start /\ \A k \in 1 .. 6 : at[k] = NextAt(at[k - 1], b[k - 1])
  BY <1>5
<1>8. QED
  BY <1>6, <1>7

(* One BAR: it begins at the next address that is aligned. *)
LEMMA OneBar ==
  ASSUME NEW c \in Nat, NEW w \in [size : Nat, wide : BOOLEAN], ~w.wide => w.size \in {0, 1}
  PROVE  /\ NextAt(c, w) \in Nat /\ c <= NextAt(c, w) /\ NextAt(c, w) <= c + BarRoom(w)
         /\ BarRoom(w) \in Nat
         /\ w.size # 0 => /\ NextAt(c, w) - w.size >= c
                          /\ BarKeeps(NextAt(c, w) - w.size, w.size) = NextAt(c, w) - w.size
<1>1. PICK s \in Nat : s = w.size
  OBVIOUS
<1>2. CASE s = 0
  BY <1>1, <1>2 DEF NextAt, BarRoom
<1>3. CASE s # 0 /\ w.wide
  <2>1. PICK u \in Nat : u = AlignUp(c, s) /\ c <= u /\ u <= c + s - 1 /\ u % s = 0
    BY <1>3, AlignUpBounds
  <2>2. NextAt(c, w) = u + s /\ BarRoom(w) = 2 * s - 1
    BY <1>1, <1>3, <2>1 DEF NextAt, BarRoom
  <2>3. (u + s) - s = u /\ BarKeeps(u, s) = u
    BY <2>1 DEF BarKeeps
  <2>4. QED
    BY <1>1, <1>3, <2>1, <2>2, <2>3
<1>4. CASE s # 0 /\ ~w.wide
  <2>1. s = 1 /\ NextAt(c, w) = c + 1 /\ BarRoom(w) = 1
    BY <1>1, <1>4 DEF NextAt, BarRoom
  <2>2. (c + 1) - 1 = c /\ BarKeeps(c, 1) = c
    BY DEF BarKeeps
  <2>3. QED
    BY <1>1, <2>1, <2>2
<1>5. QED
  BY <1>2, <1>3, <1>4

(* The BARs of a function follow each other within its share. *)
LEMMA BarsInShare ==
  ASSUME NEW f \in Functions, NEW start \in Nat, NEW p, p = Place(Topology[f].bars, start)
  PROVE  /\ \A k \in Used(f) : /\ Topology[f].bars[k].size \in Nat \ {0}
                                /\ p[k] \in Nat /\ start <= p[k]
                                /\ p[k] + Topology[f].bars[k].size <= start + SlotSpan
         /\ \A j, k \in Used(f) : j < k => p[j] + Topology[f].bars[j].size <= p[k]
<1>1. PICK b : b = Topology[f].bars
  OBVIOUS
<1>2. /\ b \in [0 .. 5 -> [size : Nat, wide : BOOLEAN]]
      /\ \A k \in 0 .. 5 : ~b[k].wide => b[k].size \in {0, 1}
      /\ BarRoom(b[0]) + BarRoom(b[1]) + BarRoom(b[2]) + BarRoom(b[3]) + BarRoom(b[4])
            + BarRoom(b[5]) <= SlotSpan
  BY <1>1, BarAssumption
<1>3. PICK at : /\ at[0] = start
                /\ \A k \in 1 .. 6 : at[k] = NextAt(at[k - 1], b[k - 1])
                /\ Place(b, start) = [k \in 0 .. 5 |->
                     IF b[k].size = 0 THEN 0 ELSE BarKeeps(at[k + 1] - b[k].size, b[k].size)]
  BY PlaceRecursion
<1>4. ASSUME NEW k \in 0 .. 5, at[k] \in Nat
      PROVE  /\ at[k + 1] \in Nat /\ at[k] <= at[k + 1]
             /\ at[k + 1] <= at[k] + BarRoom(b[k]) /\ BarRoom(b[k]) \in Nat
             /\ b[k].size # 0 => /\ at[k + 1] - b[k].size >= at[k]
                                 /\ BarKeeps(at[k + 1] - b[k].size, b[k].size) = at[k + 1] - b[k].size
  <2>1. k + 1 \in 1 .. 6 /\ (k + 1) - 1 = k
    OBVIOUS
  <2>2. at[k + 1] = NextAt(at[k], b[k])
    BY <1>3, <2>1
  <2>3. b[k] \in [size : Nat, wide : BOOLEAN] /\ (~b[k].wide => b[k].size \in {0, 1})
    BY <1>2
  <2>4. PICK w : w = b[k]
    OBVIOUS
  <2>5. PICK c \in Nat : c = at[k]
    BY <1>4
  <2>6. /\ NextAt(c, w) \in Nat /\ c <= NextAt(c, w) /\ NextAt(c, w) <= c + BarRoom(w)
        /\ BarRoom(w) \in Nat
        /\ w.size # 0 => /\ NextAt(c, w) - w.size >= c
                         /\ BarKeeps(NextAt(c, w) - w.size, w.size) = NextAt(c, w) - w.size
    BY <2>3, <2>4, OneBar
  <2>7. QED
    BY <2>2, <2>4, <2>5, <2>6
<1>5. at[0] \in Nat
  BY <1>3
<1>6. at[1] \in Nat /\ at[0] <= at[1] /\ at[1] <= at[0] + BarRoom(b[0]) /\ BarRoom(b[0]) \in Nat
  BY <1>5, <1>4, 0 + 1 = 1
<1>7. at[2] \in Nat /\ at[1] <= at[2] /\ at[2] <= at[1] + BarRoom(b[1]) /\ BarRoom(b[1]) \in Nat
  BY <1>6, <1>4, 1 + 1 = 2
<1>8. at[3] \in Nat /\ at[2] <= at[3] /\ at[3] <= at[2] + BarRoom(b[2]) /\ BarRoom(b[2]) \in Nat
  BY <1>7, <1>4, 2 + 1 = 3
<1>9. at[4] \in Nat /\ at[3] <= at[4] /\ at[4] <= at[3] + BarRoom(b[3]) /\ BarRoom(b[3]) \in Nat
  BY <1>8, <1>4, 3 + 1 = 4
<1>10. at[5] \in Nat /\ at[4] <= at[5] /\ at[5] <= at[4] + BarRoom(b[4]) /\ BarRoom(b[4]) \in Nat
  BY <1>9, <1>4, 4 + 1 = 5
<1>11. at[6] \in Nat /\ at[5] <= at[6] /\ at[6] <= at[5] + BarRoom(b[5]) /\ BarRoom(b[5]) \in Nat
  BY <1>10, <1>4, 5 + 1 = 6
<1>12. at[6] <= start + SlotSpan
  BY <1>2, <1>3, <1>6, <1>7, <1>8, <1>9, <1>10, <1>11 DEF SlotSpan
<1>13. \A k \in 0 .. 6 : at[k] \in Nat
  BY <1>5, <1>6, <1>7, <1>8, <1>9, <1>10, <1>11
<1>14. \A j, k \in 0 .. 6 : j <= k => at[j] <= at[k]
  BY <1>5, <1>6, <1>7, <1>8, <1>9, <1>10, <1>11
<1>15. ASSUME NEW k \in Used(f)
       PROVE  /\ k \in 0 .. 5 /\ b[k].size \in Nat \ {0}
              /\ p[k] = at[k + 1] - b[k].size /\ p[k] >= at[k]
  <2>1. k \in 0 .. 5 /\ b[k].size # 0 /\ b[k].size \in Nat
    BY <1>1, <1>2 DEF Used
  <2>2. at[k] \in Nat
    BY <1>13, <2>1
  <2>3. p[k] = BarKeeps(at[k + 1] - b[k].size, b[k].size)
    BY <1>1, <1>3, <2>1
  <2>4. QED
    BY <1>4, <2>1, <2>2, <2>3
<1>16. ASSUME NEW k \in Used(f)
       PROVE  /\ b[k].size \in Nat \ {0}
              /\ p[k] \in Nat /\ start <= p[k] /\ p[k] + b[k].size <= start + SlotSpan
  <2>1. /\ k \in 0 .. 5 /\ b[k].size \in Nat \ {0}
        /\ p[k] = at[k + 1] - b[k].size /\ p[k] >= at[k]
    BY <1>15
  <2>2. at[0] <= at[k] /\ at[k + 1] <= at[6] /\ at[k] \in Nat /\ at[k + 1] \in Nat
    BY <1>13, <1>14, <2>1
  <2>3. QED
    BY <1>3, <1>12, <1>13, <2>1, <2>2 DEF SlotSpan
<1>17. ASSUME NEW j \in Used(f), NEW k \in Used(f), j < k
       PROVE  p[j] + b[j].size <= p[k]
  <2>1. /\ j \in 0 .. 5 /\ b[j].size \in Nat \ {0} /\ p[j] = at[j + 1] - b[j].size
        /\ k \in 0 .. 5 /\ p[k] >= at[k]
    BY <1>15
  <2>2. at[j + 1] <= at[k] /\ at[j + 1] \in Nat /\ at[k] \in Nat
    BY <1>13, <1>14, <1>17, <2>1
  <2>3. p[k] \in Nat
    BY <1>16
  <2>4. QED
    BY <2>1, <2>2, <2>3
<1>18. QED
  BY <1>1, <1>16, <1>17

-----------------------------------------------------------------------------
(* The walk. *)

(* The machine, as the proofs use it. *)
LEMMA Machine ==
  /\ MaxBus \in 1 .. 16 /\ MaxDevice \in 1 .. 32 /\ MaxBus \in Nat /\ MaxDevice \in Nat \ {0}
  /\ MaxBus * MaxDevice \in Nat
  /\ \A f \in Functions : DevNo(f) \in 0 .. (MaxDevice - 1)
  /\ \A f \in Functions : \/ On(f) = "root" /\ DevNo(f) >= 1
                          \/ On(f) # "root" /\ On(f) \in Bridges
  /\ \A f, g \in Functions : On(f) = On(g) /\ DevNo(f) = DevNo(g) => f = g
  /\ \A g \in Bridges : g \in Functions /\ On(g) = "root"
  /\ IsFiniteSet(Bridges) /\ Cardinality(Bridges) \in Nat /\ Cardinality(Bridges) < MaxBus
<1>1. MaxBus \in 1 .. 16 /\ MaxDevice \in 1 .. 32
  BY TopologyAssumption
<1>2. MaxBus \in Nat /\ MaxDevice \in Nat \ {0}
  BY <1>1
<1>3. MaxBus * MaxDevice \in Nat
  BY <1>2
<1>4. IsFiniteSet(Bridges) /\ Cardinality(Bridges) < MaxBus
  BY TopologyAssumption
<1>5. Cardinality(Bridges) \in Nat
  BY <1>4, FS_CardinalityType
<1>6. "root" \notin Bridges
  BY TopologyAssumption DEF Bridges
<1>7. ASSUME NEW f \in Functions
      PROVE  /\ DevNo(f) \in 0 .. (MaxDevice - 1)
             /\ \/ On(f) = "root" /\ DevNo(f) >= 1
                \/ On(f) # "root" /\ On(f) \in Bridges
  <2>1. /\ On(f) \in Bridges \cup {"root"}
        /\ DevNo(f) \in (IF On(f) = "root" THEN 1 ELSE 0) .. (MaxDevice - 1)
    BY TopologyAssumption DEF On, DevNo
  <2>2. QED
    BY <1>2, <1>6, <2>1
<1>8. \A f, g \in Functions : On(f) = On(g) /\ DevNo(f) = DevNo(g) => f = g
  BY TopologyAssumption DEF On, DevNo
<1>9. \A g \in Bridges : g \in Functions /\ On(g) = "root"
  BY TopologyAssumption DEF On, Bridges
<1>10. QED
  BY <1>1, <1>2, <1>3, <1>4, <1>5, <1>7, <1>8, <1>9

(* The bus that a function answers on. *)
LEMMA BusNumbers ==
  ASSUME WalkType, NEW f \in Functions
  PROVE  /\ BusOf(f) \in Nat /\ BusOf(f) < sbn
         /\ On(f) = "root" => BusOf(f) = 0
         /\ On(f) # "root" => BusOf(f) = secondary[On(f)] /\ On(f) \in Bridges
         /\ On(f) # "root" => (Answers(f) <=> BusOf(f) # 0)
         /\ PlaceOf(f) \in Nat
<1>1. sbn \in Nat \ {0} /\ \A g \in Bridges : secondary[g] \in Nat /\ secondary[g] < sbn
  BY DEF WalkType
<1>2. \/ On(f) = "root" /\ DevNo(f) >= 1
      \/ On(f) # "root" /\ On(f) \in Bridges
  BY Machine
<1>3. /\ On(f) = "root" => BusOf(f) = 0
      /\ On(f) # "root" => BusOf(f) = secondary[On(f)] /\ On(f) \in Bridges
  BY <1>2 DEF BusOf, On
<1>4. BusOf(f) \in Nat /\ BusOf(f) < sbn
  BY <1>1, <1>3
<1>5. PlaceOf(f) \in Nat
  BY <1>4, Machine, PlaceBounds DEF PlaceOf
<1>6. On(f) # "root" => (Answers(f) <=> BusOf(f) # 0)
  BY <1>3 DEF Answers, Numbered
<1>7. QED
  BY <1>3, <1>4, <1>5, <1>6

(* The functions that answer now are those whose place this is. *)
LEMMA PresentIs ==
  ASSUME WalkType
  PROVE  \A f \in Functions : f \in Present <=> Answers(f) /\ PlaceOf(f) = slot
<1> SUFFICES ASSUME NEW f \in Functions
             PROVE  f \in Present <=> Answers(f) /\ PlaceOf(f) = slot
  OBVIOUS
<1>1. slot \in Nat
  BY Machine DEF WalkType
<1>2. PICK b \in Nat : b = BusOf(f)
  BY BusNumbers
<1>3. b * MaxDevice + DevNo(f) = slot <=> b = slot \div MaxDevice /\ DevNo(f) = slot % MaxDevice
  <2>1. PICK m \in Nat \ {0}, n \in Nat : m = MaxDevice /\ n = slot
    BY <1>1, Machine
  <2>2. PICK d \in 0 .. (m - 1) : d = DevNo(f)
    BY <2>1, Machine
  <2>3. b * m + d = n <=> b = n \div m /\ d = n % m
    BY PlaceOfSlot
  <2>4. QED
    BY <2>1, <2>2, <2>3
<1>4. PlaceOf(f) = slot <=> BusOf(f) = Bus /\ DevNo(f) = Device
  BY <1>2, <1>3 DEF PlaceOf, Bus, Device
<1>5. On(f) = "root" => Answers(f)
  BY DEF Answers
<1>6. On(f) # "root" => (Answers(f) <=> BusOf(f) # 0)
  BY BusNumbers
<1>7. f \in Present <=> DevNo(f) = Device /\ BusOf(f) = Bus /\ (On(f) # "root" => BusOf(f) # 0)
  BY DEF Present, On, DevNo
<1>8. QED
  BY <1>4, <1>5, <1>6, <1>7

(* No two functions answer at a place. *)
LEMMA OneAnswer ==
  ASSUME WalkType, NumbersOK, NEW f \in Functions, NEW g \in Functions,
         Answers(f), Answers(g), BusOf(f) = BusOf(g), DevNo(f) = DevNo(g)
  PROVE  f = g
<1>1. /\ On(f) = "root" => BusOf(f) = 0
      /\ On(f) # "root" => BusOf(f) = secondary[On(f)] /\ On(f) \in Numbered /\ BusOf(f) # 0
  BY BusNumbers DEF Answers
<1>2. /\ On(g) = "root" => BusOf(g) = 0
      /\ On(g) # "root" => BusOf(g) = secondary[On(g)] /\ On(g) \in Numbered /\ BusOf(g) # 0
  BY BusNumbers DEF Answers
<1>3. On(f) = On(g)
  BY <1>1, <1>2 DEF NumbersOK
<1>4. QED
  BY <1>3, Machine

(* Functions at the same place are the same. *)
LEMMA OnePlace ==
  ASSUME WalkType, NumbersOK, NEW f \in Functions, NEW g \in Functions,
         Answers(f), Answers(g), PlaceOf(f) = PlaceOf(g)
  PROVE  f = g
<1>1. PICK b, c \in Nat : b = BusOf(f) /\ c = BusOf(g)
  BY BusNumbers
<1>2. b * MaxDevice + DevNo(f) = c * MaxDevice + DevNo(g)
  BY <1>1 DEF PlaceOf
<1>3. b = c /\ DevNo(f) = DevNo(g)
  BY <1>2, Machine, PlacesApart
<1>4. QED
  BY <1>1, <1>3, OneAnswer

(* Nothing has been passed at the beginning. *)
LEMMA InitWalk == PciInit => WalkInv
<1> SUFFICES ASSUME PciInit PROVE WalkInv
  OBVIOUS
<1>1. slot = 1 /\ sbn = 1 /\ secondary = [g \in Bridges |-> 0] /\ DOMAIN bar = Functions /\ devices = << >>
  BY DEF PciInit
<1>2. Numbered = {}
  BY <1>1 DEF Numbered
<1>3. WalkType
  <2>1. 1 \in 1 .. (MaxBus * MaxDevice)
    <3>1. PICK x, y \in Nat \ {0} : x = MaxBus /\ y = MaxDevice
      BY Machine
    <3>2. x * y >= 1 /\ x * y \in Nat
      OBVIOUS
    <3>3. QED
      BY <3>1, <3>2
  <2>2. << >> \in Seq(Functions)
    OBVIOUS
  <2>3. QED
    BY <1>1, <2>1, <2>2 DEF WalkType
<1>4. NumbersOK
  BY <1>1, <1>2, FS_EmptySet DEF NumbersOK
<1>5. ASSUME NEW f \in Functions, Answers(f), PlaceOf(f) < slot PROVE FALSE
  <2>1. On(f) = "root" /\ DevNo(f) >= 1 /\ DevNo(f) \in Nat
    BY <1>2, <1>5, Machine DEF Answers
  <2>2. BusOf(f) = 0
    BY <2>1 DEF BusOf, On
  <2>3. PlaceOf(f) = DevNo(f)
    BY <2>1, <2>2, Machine DEF PlaceOf
  <2>4. QED
    BY <1>1, <1>5, <2>1, <2>3
<1>6. QED
  BY <1>3, <1>4, <1>5 DEF WalkInv, PassedOK

(* The steps that leave the enumeration alone. *)
LEMMA SameWalk == ASSUME WalkInv, UNCHANGED pciVars PROVE WalkInv'
<1>1. /\ slot' = slot /\ sbn' = sbn /\ secondary' = secondary /\ bar' = bar /\ devices' = devices
  BY DEF pciVars
<1>2. Numbered' = Numbered
  BY <1>1 DEF Numbered
<1>3. WalkType' /\ NumbersOK'
  BY <1>1, <1>2 DEF WalkInv, WalkType, NumbersOK, DevNo
<1>4. ASSUME NEW f \in Functions, Answers(f)', PlaceOf(f)' < slot' PROVE SetUp(f)'
  <2>1. BusOf(f)' = BusOf(f)
    BY <1>1 DEF BusOf
  <2>2. Answers(f)
    BY <1>2, <1>4 DEF Answers, On
  <2>3. PlaceOf(f) < slot
    BY <1>1, <1>4, <2>1 DEF PlaceOf, DevNo
  <2>4. SetUp(f)
    BY <2>2, <2>3 DEF WalkInv, PassedOK
  <2>5. ShareOf(f)' = ShareOf(f)
    BY <2>1 DEF ShareOf, DevNo
  <2>6. QED
    BY <1>1, <1>2, <2>4, <2>5 DEF SetUp
<1>5. QED
  BY <1>3, <1>4 DEF WalkInv, PassedOK

(* A step of the walk that leaves a function's bridge alone. *)
LEMMA PassedStays ==
  ASSUME WalkInv, slot' = slot + 1, NEW f \in Functions, Answers(f)', PlaceOf(f)' < slot',
         BusOf(f)' = BusOf(f), Answers(f)
  PROVE  SetUp(f) \/ f \in Present
<1>1. PlaceOf(f)' = PlaceOf(f) /\ PlaceOf(f) \in Nat /\ slot \in Nat
  BY BusNumbers, Machine DEF PlaceOf, DevNo, WalkInv, WalkType
<1>2. PlaceOf(f) < slot \/ PlaceOf(f) = slot
  BY <1>1
<1>3. CASE PlaceOf(f) < slot
  BY <1>3 DEF WalkInv, PassedOK
<1>4. CASE PlaceOf(f) = slot
  BY <1>4, PresentIs DEF WalkInv
<1>5. QED
  BY <1>2, <1>3, <1>4

(* The next slot is one. *)
LEMMA SlotStep ==
  ASSUME WalkType, ~PciDone, slot' = slot + 1 PROVE slot' \in 1 .. (MaxBus * MaxDevice)
<1>1. PICK n \in Nat : n = MaxBus * MaxDevice
  BY Machine
<1>2. slot \in 1 .. n /\ slot # n
  BY <1>1 DEF WalkType, PciDone
<1>3. slot + 1 \in 1 .. n
  BY <1>2
<1>4. QED
  BY <1>1, <1>3

(* A place where nothing answers. *)
LEMMA EmptySlot ==
  ASSUME WalkInv, ~PciDone, slot' = slot + 1, Present = {}, UNCHANGED <<sbn, secondary, bar, devices>>
  PROVE  WalkInv'
<1>1. sbn' = sbn /\ secondary' = secondary /\ bar' = bar /\ devices' = devices
  OBVIOUS
<1>2. Numbered' = Numbered
  BY <1>1 DEF Numbered
<1>3. WalkType'
  BY <1>1, SlotStep DEF WalkInv, WalkType
<1>4. NumbersOK'
  <2>1. \A g \in Numbered : DevNo(g) < slot'
    <3>1. ASSUME NEW g \in Numbered PROVE DevNo(g) < slot'
      <4>1. DevNo(g) < slot /\ DevNo(g) \in Nat /\ slot \in Nat
        BY Machine DEF WalkInv, WalkType, NumbersOK, Numbered
      <4>2. QED
        BY <4>1
    <3>2. QED
      BY <3>1
  <2>2. QED
    BY <1>1, <1>2, <2>1 DEF WalkInv, NumbersOK, DevNo
<1>5. ASSUME NEW f \in Functions, Answers(f)', PlaceOf(f)' < slot' PROVE SetUp(f)'
  <2>1. BusOf(f)' = BusOf(f)
    BY <1>1 DEF BusOf
  <2>2. Answers(f)
    BY <1>2, <1>5 DEF Answers, On
  <2>3. SetUp(f)
    BY <1>5, <2>1, <2>2, PassedStays
  <2>4. ShareOf(f)' = ShareOf(f)
    BY <2>1 DEF ShareOf, DevNo
  <2>5. QED
    BY <1>1, <1>2, <2>3, <2>4 DEF SetUp
<1>6. QED
  BY <1>3, <1>4, <1>5 DEF WalkInv, PassedOK

(* setup_pci_bridge: the number the bridge gets is ahead of the walk. *)
LEMMA BridgeSlot ==
  ASSUME WalkInv, ~PciDone, slot' = slot + 1, NEW f \in Present, IsBridge(f),
         SetupPciBridge(f), UNCHANGED devices
  PROVE  WalkInv'
<1>0. WalkType /\ NumbersOK /\ PassedOK
  BY DEF WalkInv
<1>1. /\ secondary' = [secondary EXCEPT ![f] = sbn]
      /\ sbn' = sbn + 1 /\ bar' = bar /\ devices' = devices
  BY DEF SetupPciBridge
<1>2. f \in Functions /\ f \in Bridges /\ On(f) = "root" /\ DevNo(f) \in Nat
  BY Machine DEF Present, Bridges
<1>3. Answers(f) /\ PlaceOf(f) = slot
  BY <1>0, <1>2, PresentIs
<1>4. DevNo(f) = slot /\ DevNo(f) < MaxDevice /\ slot \in Nat
  <2>1. BusOf(f) = 0
    BY <1>0, <1>2, BusNumbers
  <2>2. PlaceOf(f) = DevNo(f)
    BY <1>2, <2>1, Machine DEF PlaceOf
  <2>3. QED
    BY <1>2, <1>3, <2>2, Machine
<1>5. f \notin Numbered
  BY <1>0, <1>4 DEF NumbersOK
<1>6. sbn \in Nat \ {0} /\ secondary \in [Bridges -> 0 .. (sbn - 1)]
  BY <1>0 DEF WalkType
<1>7. /\ secondary' \in [Bridges -> 0 .. ((sbn + 1) - 1)]
      /\ secondary'[f] = sbn /\ \A g \in Bridges : g # f => secondary'[g] = secondary[g]
  BY <1>1, <1>2, <1>6
<1>8. Numbered' = Numbered \cup {f}
  <2>1. Numbered' = {g \in Bridges : secondary'[g] # 0}
    BY DEF Numbered, Bridges, IsBridge
  <2>2. QED
    BY <1>2, <1>6, <1>7, <2>1 DEF Numbered
<1>9. WalkType'
  <2>1. sbn + 1 \in Nat \ {0}
    BY <1>6
  <2>2. DOMAIN bar = Functions /\ devices \in Seq(Functions)
    BY <1>0 DEF WalkType
  <2>3. slot' \in 1 .. (MaxBus * MaxDevice)
    BY <1>0, SlotStep
  <2>4. QED
    BY <1>1, <1>7, <2>1, <2>2, <2>3 DEF WalkType
<1>10. NumbersOK'
  <2>1. ASSUME NEW g \in Numbered', NEW h \in Numbered', secondary'[g] = secondary'[h] PROVE g = h
    <3>1. \A k \in Numbered : k \in Bridges /\ secondary[k] \in Nat /\ secondary[k] < sbn
      BY <1>6 DEF Numbered
    <3>2. \A k \in Numbered : k # f /\ secondary'[k] = secondary[k]
      BY <1>5, <1>7, <3>1
    <3>3. \A k \in Numbered : secondary'[k] # sbn
      BY <1>6, <3>1, <3>2
    <3>4. CASE g = f \/ h = f
      BY <1>7, <1>8, <2>1, <3>3, <3>4
    <3>5. CASE g # f /\ h # f
      <4>1. g \in Numbered /\ h \in Numbered
        BY <1>8, <2>1, <3>5
      <4>2. secondary[g] = secondary[h]
        BY <2>1, <3>2, <4>1
      <4>3. QED
        BY <1>0, <4>1, <4>2 DEF NumbersOK
    <3>6. QED
      BY <3>4, <3>5
  <2>2. sbn' = Cardinality(Numbered') + 1
    <3>1. Numbered \in SUBSET Bridges
      BY DEF Numbered
    <3>2. IsFiniteSet(Numbered)
      BY <3>1, Machine, FS_Subset
    <3>3. Cardinality(Numbered \cup {f}) = Cardinality(Numbered) + 1
      BY <1>5, <3>2, FS_AddElement
    <3>4. sbn = Cardinality(Numbered) + 1
      BY <1>0 DEF NumbersOK
    <3>5. QED
      BY <1>1, <1>8, <3>3, <3>4
  <2>3. ASSUME NEW g \in Numbered' PROVE DevNo(g) < slot'
    <3>1. CASE g = f
      BY <1>4, <3>1
    <3>2. CASE g \in Numbered
      <4>1. DevNo(g) < slot /\ DevNo(g) \in Nat
        BY <1>0, <3>2, Machine DEF NumbersOK, Numbered
      <4>2. QED
        BY <1>4, <4>1
    <3>3. QED
      BY <1>8, <3>1, <3>2
  <2>4. QED
    BY <2>1, <2>2, <2>3 DEF NumbersOK, DevNo
<1>11. ASSUME NEW k \in Functions, Answers(k)', PlaceOf(k)' < slot' PROVE SetUp(k)'
  <2>1. CASE On(k) = f
    <3>1. On(k) # "root"
      <4>1. "root" \notin Functions
        BY TopologyAssumption
      <4>2. QED
        BY <1>2, <2>1, <4>1
    <3>2. BusOf(k)' = sbn
      BY <1>7, <2>1, <3>1 DEF BusOf, On
    <3>3. PlaceOf(k)' = sbn * MaxDevice + DevNo(k)
      BY <3>2 DEF PlaceOf, DevNo
    <3>4. PICK m \in Nat \ {0} : m = MaxDevice
      BY Machine
    <3>5. PICK d \in 0 .. (m - 1) : d = DevNo(k)
      BY <3>4, Machine
    <3>6. sbn * m + d >= 1 * m /\ sbn * m + d \in Nat
      BY <1>6, PlaceBounds
    <3>7. sbn * m + d >= m
      BY <3>6
    <3>8. slot' <= m
      BY <1>4, <3>4
    <3>9. QED
      BY <1>4, <1>11, <3>3, <3>4, <3>5, <3>6, <3>7, <3>8
  <2>2. CASE On(k) # f
    <3>1. BusOf(k)' = BusOf(k)
      <4>1. On(k) = "root" \/ On(k) \in Bridges
        BY Machine
      <4>2. QED
        BY <1>7, <2>2, <4>1 DEF BusOf, On
    <3>2. Answers(k)
      BY <1>8, <1>11, <2>2 DEF Answers, On
    <3>3. SetUp(k) \/ k \in Present
      BY <1>11, <3>1, <3>2, PassedStays
    <3>4. CASE SetUp(k)
      <4>1. ShareOf(k)' = ShareOf(k)
        BY <3>1 DEF ShareOf, DevNo
      <4>2. IsBridge(k)' <=> IsBridge(k)
        BY DEF IsBridge
      <4>3. CASE IsBridge(k)
        BY <1>8, <3>4, <4>2, <4>3 DEF SetUp
      <4>4. CASE ~IsBridge(k)
        BY <1>1, <3>4, <4>1, <4>2, <4>4 DEF SetUp
      <4>5. QED
        BY <4>3, <4>4
    <3>5. CASE k \in Present
      <4>1. PlaceOf(k) = slot
        BY <1>0, <3>5, PresentIs
      <4>2. k = f
        BY <1>0, <1>2, <1>3, <3>2, <4>1, OnePlace
      <4>3. QED
        BY <1>8, <4>2 DEF SetUp, IsBridge
    <3>6. QED
      BY <3>3, <3>4, <3>5
  <2>3. QED
    BY <2>1, <2>2
<1>12. QED
  BY <1>9, <1>10, <1>11 DEF WalkInv, PassedOK

(* setup_pci_device: the addresses are those of the place. *)
LEMMA DeviceSlot ==
  ASSUME WalkInv, ~PciDone, slot' = slot + 1, NEW f \in Present, ~IsBridge(f),
         SetupPciDevice(f), devices' = Append(devices, f)
  PROVE  WalkInv'
<1>0. WalkType /\ NumbersOK /\ PassedOK
  BY DEF WalkInv
<1>1. /\ bar' = [bar EXCEPT ![f] = Place(Topology[f].bars, DeviceStart)]
      /\ sbn' = sbn /\ secondary' = secondary
  BY DEF SetupPciDevice
<1>2. f \in Functions /\ DevNo(f) = Device /\ BusOf(f) = Bus
  BY DEF Present, DevNo
<1>3. Answers(f) /\ PlaceOf(f) = slot
  BY <1>0, <1>2, PresentIs
<1>4. DeviceStart = ShareOf(f)
  BY <1>2 DEF DeviceStart, ShareOf
<1>5. DOMAIN bar = Functions /\ devices \in Seq(Functions)
  BY <1>0 DEF WalkType
<1>6. /\ DOMAIN bar' = Functions /\ bar'[f] = Place(Topology[f].bars, ShareOf(f))
      /\ \A g \in Functions : g # f => bar'[g] = bar[g]
  BY <1>1, <1>2, <1>4, <1>5
<1>7. PICK n \in Nat : n = Len(devices)
  BY <1>5
<1>8. /\ devices' \in Seq(Functions) /\ DOMAIN devices = 1 .. n /\ DOMAIN devices' = 1 .. (n + 1)
      /\ \A i \in 1 .. n : devices'[i] = devices[i]
      /\ devices'[n + 1] = f
  <2>1. /\ devices' \in Seq(Functions) /\ Len(devices') = n + 1
        /\ \A i \in 1 .. n : devices'[i] = devices[i]
        /\ devices'[n + 1] = f
    BY <1>2, <1>5, <1>7, AppendProperties
  <2>2. DOMAIN devices = 1 .. n /\ DOMAIN devices' = 1 .. (n + 1)
    BY <1>5, <1>7, <2>1, LenProperties
  <2>3. QED
    BY <2>1, <2>2
<1>9. Numbered' = Numbered
  BY <1>1 DEF Numbered
<1>10. WalkType'
  BY <1>0, <1>1, <1>6, <1>8, SlotStep DEF WalkType
<1>11. NumbersOK'
  <2>1. ASSUME NEW g \in Numbered PROVE DevNo(g) < slot'
    <3>1. DevNo(g) < slot /\ DevNo(g) \in Nat /\ slot \in Nat
      BY <1>0, Machine DEF WalkType, NumbersOK, Numbered
    <3>2. QED
      BY <3>1
  <2>2. QED
    BY <1>0, <1>1, <1>9, <2>1 DEF NumbersOK, DevNo
<1>12. ASSUME NEW k \in Functions, Answers(k)', PlaceOf(k)' < slot' PROVE SetUp(k)'
  <2>1. BusOf(k)' = BusOf(k)
    BY <1>1 DEF BusOf
  <2>2. Answers(k)
    BY <1>9, <1>12 DEF Answers, On
  <2>3. SetUp(k) \/ k \in Present
    BY <1>12, <2>1, <2>2, PassedStays
  <2>4. ShareOf(k)' = ShareOf(k)
    BY <2>1 DEF ShareOf, DevNo
  <2>5. CASE k = f
    <3>1. \E i \in DOMAIN devices' : devices'[i] = f
      BY <1>8
    <3>2. QED
      BY <1>6, <2>4, <2>5, <3>1 DEF SetUp, IsBridge
  <2>6. CASE k # f
    <3>1. SetUp(k)
      <4>1. ASSUME k \in Present PROVE FALSE
        <5>1. PlaceOf(k) = slot
          BY <1>0, <4>1, PresentIs
        <5>2. QED
          BY <1>0, <1>2, <1>3, <2>2, <2>6, <5>1, OnePlace
      <4>2. QED
        BY <2>3, <4>1
    <3>2. CASE IsBridge(k)
      BY <1>9, <3>1, <3>2 DEF SetUp, IsBridge
    <3>3. CASE ~IsBridge(k)
      <4>1. PICK i \in 1 .. n : devices[i] = k
        BY <1>8, <3>1, <3>3 DEF SetUp
      <4>2. i \in DOMAIN devices' /\ devices'[i] = k
        BY <1>8, <4>1
      <4>3. bar'[k] = Place(Topology[k].bars, ShareOf(k))
        BY <1>6, <2>6, <3>1, <3>3 DEF SetUp
      <4>4. QED
        BY <2>4, <3>3, <4>2, <4>3 DEF SetUp, IsBridge
    <3>4. QED
      BY <3>2, <3>3
  <2>7. QED
    BY <2>5, <2>6
<1>13. QED
  BY <1>10, <1>11, <1>12 DEF WalkInv, PassedOK

(* WalkInv is inductive. *)
LEMMA NextWalk == WalkInv /\ [Next]_vars => WalkInv'
<1> SUFFICES ASSUME WalkInv, [Next]_vars PROVE WalkInv'
  OBVIOUS
<1>1. CASE PciSlot
  <2>1. ~PciDone /\ slot' = slot + 1
    BY <1>1 DEF PciSlot
  <2>2. CASE Present = {} /\ UNCHANGED <<sbn, secondary, bar, devices>>
    BY <2>1, <2>2, EmptySlot
  <2>3. ASSUME NEW f \in Present, IsBridge(f), SetupPciBridge(f), UNCHANGED devices PROVE WalkInv'
    BY <2>1, <2>3, BridgeSlot
  <2>4. ASSUME NEW f \in Present, ~IsBridge(f), SetupPciDevice(f), devices' = Append(devices, f)
        PROVE  WalkInv'
    BY <2>1, <2>4, DeviceSlot
  <2>5. QED
    BY <1>1, <2>2, <2>3, <2>4 DEF PciSlot
<1>2. CASE UNCHANGED pciVars
  BY <1>2, SameWalk
<1>3. CASE UNCHANGED vars
  BY <1>2, <1>3 DEF vars
<1>4. CASE VirtioDeviceInit
  BY <1>2, <1>4 DEF VirtioDeviceInit
<1>5. ASSUME NEW h \in Harts, HartStep(h) PROVE WalkInv'
  BY <1>2, <1>5 DEF HartStep, Submit, Lock, Fill, Publish, Notify, Wait, Return
<1>6. ASSUME NEW d \in Queued, DeviceStep(d) PROVE WalkInv'
  BY <1>2, <1>6 DEF DeviceStep, ServeBlock, ServeRng, ServeGpu
<1>7. ASSUME NEW h \in Harts, NEW d \in Queued,
             \/ BlockFlush(h, d) \/ RngFill(h, d) \/ GpuRedraw(h, d)
             \/ \E r \in Ranges : BlockReadWrapper(h, d, r) \/ BlockWriteWrapper(h, d, r)
      PROVE  WalkInv'
  BY <1>2, <1>7 DEF BlockFlush, RngFill, GpuRedraw, BlockReadWrapper, BlockWriteWrapper, Counted
<1>8. CASE Paint
  BY <1>2, <1>8 DEF Paint
<1>9. ASSUME NEW d \in Inputs, GetInput(d) \/ InputStep(d) \/ \E t \in Types(d) : DeviceEvent(d, t)
      PROVE  WalkInv'
  BY <1>2, <1>9 DEF GetInput, Counted, InputStep, InputLock, HandleEvent, InputUnlock, PopEvent,
                    PopNone, DeviceEvent
<1>10. QED
  BY <1>1, <1>3, <1>4, <1>5, <1>6, <1>7, <1>8, <1>9 DEF Next

-----------------------------------------------------------------------------
(* The end of the walk. *)

(* Every function was found. *)
LEMMA AllFound ==
  ASSUME WalkInv, PciDone
  PROVE  /\ Numbered = Bridges
         /\ \A f \in Functions : Answers(f) /\ SetUp(f) /\ BusOf(f) \in 0 .. (MaxBus - 1)
<1>0. WalkType /\ NumbersOK /\ PassedOK
  BY DEF WalkInv
<1>1. sbn \in Nat /\ sbn <= MaxBus
  <2>1. Numbered \in SUBSET Bridges
    BY DEF Numbered
  <2>2. IsFiniteSet(Numbered) /\ Cardinality(Numbered) <= Cardinality(Bridges)
    BY <2>1, Machine, FS_Subset
  <2>3. Cardinality(Numbered) \in Nat
    BY <2>2, FS_CardinalityType
  <2>4. sbn = Cardinality(Numbered) + 1
    BY <1>0 DEF NumbersOK
  <2>5. QED
    BY <2>2, <2>3, <2>4, Machine
<1>2. \A f \in Functions : BusOf(f) \in 0 .. (MaxBus - 1)
  BY <1>0, <1>1, BusNumbers, Machine
<1>3. ASSUME NEW f \in Functions, Answers(f) PROVE SetUp(f)
  <2>1. PICK m \in Nat \ {0}, n \in Nat : m = MaxDevice /\ n = MaxBus
    BY Machine
  <2>2. PICK b \in Nat, d \in 0 .. (m - 1) : b = BusOf(f) /\ d = DevNo(f)
    BY <1>0, <2>1, BusNumbers, Machine
  <2>3. b < n
    BY <1>2, <2>1, <2>2
  <2>4. b * m + d < n * m
    BY <2>3, PlaceBounds
  <2>5. PlaceOf(f) < slot
    BY <2>1, <2>2, <2>4 DEF PlaceOf, PciDone
  <2>6. QED
    BY <1>0, <1>3, <2>5 DEF PassedOK
<1>4. Numbered = Bridges
  <2>1. ASSUME NEW g \in Bridges PROVE g \in Numbered
    <3>1. g \in Functions /\ Answers(g) /\ IsBridge(g)
      BY Machine DEF Answers, Bridges
    <3>2. QED
      BY <1>3, <3>1 DEF SetUp
  <2>2. QED
    BY <2>1 DEF Numbered
<1>5. \A f \in Functions : Answers(f)
  BY <1>4, Machine DEF Answers
<1>6. QED
  BY <1>2, <1>3, <1>4, <1>5

(* What a device decodes is in its share of the addresses. *)
LEMMA DecodesShare ==
  ASSUME WalkInv, PciDone, NEW f \in Functions, ~IsBridge(f)
  PROVE  /\ BusOf(f) \in 0 .. 15 /\ DevNo(f) \in 0 .. 31 /\ ShareOf(f) \in Nat
         /\ \A k \in Used(f) :
              /\ bar[f][k] \in Nat /\ Topology[f].bars[k].size \in Nat \ {0}
              /\ Decodes(f, k) \subseteq ShareOf(f) .. (ShareOf(f) + 7)
         /\ \A j, k \in Used(f) : j # k => Decodes(f, j) \cap Decodes(f, k) = {}
<1>1. BusOf(f) \in 0 .. 15 /\ DevNo(f) \in 0 .. 31
  BY AllFound, Machine
<1>2. PICK start \in Nat : start = ShareOf(f)
  BY <1>1 DEF ShareOf, BusSpan, SlotSpan
<1>3. PICK p : p = Place(Topology[f].bars, start) /\ bar[f] = p
  BY <1>2, AllFound DEF SetUp
<1>4. PICK b : b = Topology[f].bars
  OBVIOUS
<1>5. /\ \A k \in Used(f) : /\ b[k].size \in Nat \ {0}
                             /\ p[k] \in Nat /\ start <= p[k] /\ p[k] + b[k].size <= start + 8
      /\ \A j, k \in Used(f) : j < k => p[j] + b[j].size <= p[k]
  BY <1>3, <1>4, BarsInShare DEF SlotSpan
<1>6. \A k \in Used(f) : Decodes(f, k) = p[k] .. (p[k] + b[k].size - 1)
  BY <1>3, <1>4 DEF Decodes
<1>7. ASSUME NEW k \in Used(f) PROVE Decodes(f, k) \subseteq start .. (start + 7)
  <2>1. /\ b[k].size \in Nat \ {0}
        /\ p[k] \in Nat /\ start <= p[k] /\ p[k] + b[k].size <= start + 8
    BY <1>5
  <2>2. QED
    BY <1>6, <2>1
<1>8. ASSUME NEW j \in Used(f), NEW k \in Used(f), j < k PROVE Decodes(f, j) \cap Decodes(f, k) = {}
  <2>1. /\ b[j].size \in Nat \ {0} /\ b[k].size \in Nat \ {0} /\ p[j] \in Nat /\ p[k] \in Nat
        /\ p[j] + b[j].size <= p[k]
    BY <1>5, <1>8
  <2>2. PICK u, v, m, n \in Nat : u = p[j] /\ v = p[k] /\ m = b[j].size /\ n = b[k].size
    BY <2>1
  <2>3. u + m <= v
    BY <2>1, <2>2
  <2>4. Decodes(f, j) = u .. (u + m - 1) /\ Decodes(f, k) = v .. (v + n - 1)
    BY <1>6, <2>2
  <2>5. \A x \in u .. (u + m - 1) : x \notin v .. (v + n - 1)
    BY <2>3
  <2>6. QED
    BY <2>4, <2>5
<1>9. ASSUME NEW j \in Used(f), NEW k \in Used(f), j # k PROVE Decodes(f, j) \cap Decodes(f, k) = {}
  <2>1. j \in Int /\ k \in Int
    BY DEF Used
  <2>2. j < k \/ k < j
    BY <1>9, <2>1
  <2>3. QED
    BY <1>8, <2>2
<1>10. QED
  BY <1>1, <1>2, <1>3, <1>4, <1>5, <1>7, <1>9

(* The drivers' structures are four addresses that the device decodes. *)
LEMMA StructuresFit ==
  ASSUME WalkInv, PciDone, NEW f \in Functions, ~IsBridge(f)
  PROVE  /\ {StructureAt(f, type) : type \in CapTypes} \subseteq UNION {Decodes(f, k) : k \in Used(f)}
         /\ Cardinality({StructureAt(f, type) : type \in CapTypes}) = 4
<1>1. ASSUME NEW t \in CapTypes
      PROVE  /\ LastCape(f, t).bar \in Used(f)
             /\ LastCape(f, t).offset \in Nat
             /\ StructureAt(f, t) = bar[f][LastCape(f, t).bar] + LastCape(f, t).offset
             /\ StructureAt(f, t) \in Decodes(f, LastCape(f, t).bar)
  <2>1. PICK c : c = LastCape(f, t)
    OBVIOUS
  <2>2. c.bar \in Used(f) /\ c.offset \in 0 .. (Topology[f].bars[c.bar].size - 1)
    BY <2>1, CapeAssumption
  <2>3. bar[f][c.bar] \in Nat /\ Topology[f].bars[c.bar].size \in Nat \ {0}
    BY <2>2, DecodesShare
  <2>4. StructureAt(f, t) = bar[f][c.bar] + c.offset
    BY <2>1 DEF StructureAt, MmioAddr
  <2>5. StructureAt(f, t) \in Decodes(f, c.bar)
    BY <2>2, <2>3, <2>4 DEF Decodes
  <2>6. QED
    BY <2>1, <2>2, <2>4, <2>5
<1>2. ASSUME NEW t \in CapTypes, NEW u \in CapTypes, t # u PROVE StructureAt(f, t) # StructureAt(f, u)
  <2>1. PICK j, k \in Used(f) : j = LastCape(f, t).bar /\ k = LastCape(f, u).bar
    BY <1>1
  <2>2. CASE j = k
    <3>1. LastCape(f, t).offset # LastCape(f, u).offset
      BY <1>2, <2>1, <2>2, CapeAssumption
    <3>2. bar[f][j] \in Nat /\ LastCape(f, t).offset \in Nat /\ LastCape(f, u).offset \in Nat
      BY <1>1, DecodesShare
    <3>3. /\ StructureAt(f, t) = bar[f][j] + LastCape(f, t).offset
          /\ StructureAt(f, u) = bar[f][j] + LastCape(f, u).offset
      BY <1>1, <2>1, <2>2
    <3>4. QED
      BY <3>1, <3>2, <3>3
  <2>3. CASE j # k
    <3>1. Decodes(f, j) \cap Decodes(f, k) = {}
      BY <2>3, DecodesShare
    <3>2. StructureAt(f, t) \in Decodes(f, j) /\ StructureAt(f, u) \in Decodes(f, k)
      BY <1>1, <2>1
    <3>3. QED
      BY <3>1, <3>2
  <2>4. QED
    BY <2>2, <2>3
<1>3. PICK a, b, c, d : /\ a = StructureAt(f, "common") /\ b = StructureAt(f, "notify")
                       /\ c = StructureAt(f, "isr") /\ d = StructureAt(f, "device")
  OBVIOUS
<1>4. a # b /\ a # c /\ a # d /\ b # c /\ b # d /\ c # d
  BY <1>2, <1>3 DEF CapTypes
<1>5. {StructureAt(f, type) : type \in CapTypes} = (({a} \cup {b}) \cup {c}) \cup {d}
  BY <1>3 DEF CapTypes
<1>6. Cardinality((({a} \cup {b}) \cup {c}) \cup {d}) = 4
  <2>1. IsFiniteSet({a}) /\ Cardinality({a}) = 1
    BY FS_Singleton
  <2>2. IsFiniteSet({a} \cup {b}) /\ Cardinality({a} \cup {b}) = 2
    BY <1>4, <2>1, FS_AddElement
  <2>3. IsFiniteSet(({a} \cup {b}) \cup {c}) /\ Cardinality(({a} \cup {b}) \cup {c}) = 3
    BY <1>4, <2>2, FS_AddElement
  <2>4. QED
    BY <1>4, <2>3, FS_AddElement
<1>7. {StructureAt(f, type) : type \in CapTypes} \subseteq UNION {Decodes(f, k) : k \in Used(f)}
  BY <1>1
<1>8. QED
  BY <1>5, <1>6, <1>7

(* A share lies in the window of its bus and in no other. *)
LEMMA ShareInWindow ==
  ASSUME NEW b \in 0 .. 15, NEW c \in 0 .. 15, NEW d \in 0 .. 31,
         NEW x \in Int, b * 256 + d * 8 <= x, x <= b * 256 + d * 8 + 7
  PROVE  /\ x \in Nat /\ x <= 65535
         /\ (c * 256 <= x /\ x <= c * 256 + 255) <=> (b = c)
<1>0. b \in Int /\ c \in Int /\ d \in Int /\ 0 <= b /\ b <= 15 /\ 0 <= d /\ d <= 31 
  BY SMT
<1>1. x >= b * 256 /\ x <= b * 256 + 255
  BY <1>0, SMT
<1>2. x \in Nat /\ x <= 65535
  BY <1>0, <1>1, SMT
<1>3. CASE b = c
  BY <1>0, <1>1, <1>3, SMT
<1>4. CASE b < c
  BY <1>0, <1>1, <1>4, SMT
<1>5. CASE b > c
  BY <1>0, <1>1, <1>5, SMT
<1>6. QED
  BY <1>0, <1>2, <1>3, <1>4, <1>5, SMT

(* The invariant implies that the addresses fit. *)
LEMMA WalkInvImplies == WalkInv => BarsReachable
<1> SUFFICES ASSUME WalkInv, PciDone PROVE BarsFit
  BY DEF BarsReachable
<1>0. WalkType /\ NumbersOK
  BY DEF WalkInv
<1>1. ASSUME NEW f \in Functions, ~IsBridge(f)
      PROVE  /\ PciGetEcam(BusOf(f), Topology[f].dev) \in EcamPages
             /\ UNION {Decodes(f, k) : k \in Used(f)} \subseteq MmioPages
             /\ {StructureAt(f, type) : type \in CapTypes} \subseteq UNION {Decodes(f, k) : k \in Used(f)}
             /\ Cardinality({StructureAt(f, type) : type \in CapTypes}) = 4
             /\ \E i \in DOMAIN devices : devices[i] = f
  <2>1. PICK b \in 0 .. 15, d \in 0 .. 31 : b = BusOf(f) /\ d = DevNo(f)
    BY <1>1, DecodesShare
  <2>2. PciGetEcam(b, d) \in EcamPages
    <3>1. b \in Int /\ d \in Int /\ 0 <= b /\ b <= 15 /\ 0 <= d /\ d <= 31
      OBVIOUS
    <3>2. b % 256 = b /\ d % 32 = d
      BY <3>1, SMT
    <3>3. QED
      BY <3>1, <3>2, SMT DEF PciGetEcam, EcamPages, BusSpan
  <2>3. ASSUME NEW k \in Used(f), NEW x \in Decodes(f, k) PROVE x \in MmioPages
    <3>1. x \in (b * 256 + d * 8) .. (b * 256 + d * 8 + 7)
      BY <1>1, <2>1, DecodesShare DEF ShareOf, BusSpan, SlotSpan
    <3>2. x \in Int /\ b * 256 + d * 8 <= x /\ x <= b * 256 + d * 8 + 7
      BY <3>1
    <3>3. x \in Nat /\ x <= 65535
      BY <3>2, ShareInWindow
    <3>4. PICK top : top = 256 * BusSpan - 1
      OBVIOUS
    <3>5. top \in Nat /\ top = 65535
      BY <3>4, SMT DEF BusSpan
    <3>6. QED
      BY <3>3, <3>4, <3>5, SMT DEF MmioPages
  <2>4. \E i \in DOMAIN devices : devices[i] = f
    BY <1>1, AllFound DEF SetUp
  <2>5. QED
    BY <1>1, <2>1, <2>2, <2>3, <2>4, StructuresFit DEF DevNo
<1>2. ASSUME NEW f \in Functions, NEW g \in Functions, ~IsBridge(f), ~IsBridge(g),
             NEW j \in Used(f), NEW k \in Used(g), <<f, j>> # <<g, k>>
      PROVE  Decodes(f, j) \cap Decodes(g, k) = {}
  <2>1. CASE f = g
    BY <1>2, <2>1, DecodesShare
  <2>2. CASE f # g
    <3>1. PICK b, c \in 0 .. 15, d, e \in 0 .. 31 :
            b = BusOf(f) /\ d = DevNo(f) /\ c = BusOf(g) /\ e = DevNo(g)
      BY <1>2, DecodesShare
    <3>2. b # c \/ d # e
      BY <1>0, <2>2, <3>1, AllFound, OneAnswer
    <3>3. ASSUME NEW x \in Decodes(f, j) PROVE x \notin Decodes(g, k)
      <4>1. /\ x \in (b * 256 + d * 8) .. (b * 256 + d * 8 + 7)
            /\ Decodes(g, k) \subseteq (c * 256 + e * 8) .. (c * 256 + e * 8 + 7)
        BY <1>2, <3>1, DecodesShare DEF ShareOf, BusSpan, SlotSpan
      <4>2. x \in Int /\ b * 256 + d * 8 <= x /\ x <= b * 256 + d * 8 + 7
        BY <4>1
      <4>3. ~(c * 256 + e * 8 <= x /\ x <= c * 256 + e * 8 + 7)
        <5>1. b \in Int /\ c \in Int /\ d \in Int /\ e \in Int
          BY SMT
        <5>2. 0 <= d /\ d <= 31 /\ 0 <= e /\ e <= 31
          BY SMT
        <5>3. QED
          BY <3>2, <4>2, <5>1, <5>2, SMT
      <4>4. x \notin (c * 256 + e * 8) .. (c * 256 + e * 8 + 7)
        BY <4>3
      <4>5. QED
        BY <4>1, <4>4
    <3>4. QED
      BY <3>3
  <2>3. QED
    BY <2>1, <2>2
<1>3. ASSUME NEW f \in Functions, NEW g \in Functions, ~IsBridge(f), IsBridge(g), NEW k \in Used(f)
      PROVE  IF Topology[f].on = g THEN Decodes(f, k) \subseteq Window(g)
                                   ELSE Decodes(f, k) \cap Window(g) = {}
  <2>1. PICK b \in 0 .. 15, d \in 0 .. 31 : b = BusOf(f) /\ d = DevNo(f)
    BY <1>3, DecodesShare
  <2>2. g \in Bridges /\ g \in Numbered
    BY <1>3, AllFound DEF Bridges
  <2>3. PICK c \in 0 .. 15 : c = secondary[g] /\ c # 0
    <3>1. secondary[g] \in Nat /\ secondary[g] < sbn /\ secondary[g] # 0
      BY <1>0, <2>2 DEF WalkType, Numbered
    <3>2. sbn <= MaxBus /\ sbn \in Nat
      <4>1. sbn = Cardinality(Bridges) + 1
        BY <1>0, AllFound DEF NumbersOK
      <4>2. QED
        BY <4>1, Machine
    <3>3. QED
      BY <3>1, <3>2, Machine
  <2>4. b = c <=> On(f) = g
    <3>1. CASE On(f) = "root"
      <4>1. b = 0 /\ g # "root"
        BY <1>0, <1>3, <2>1, <3>1, BusNumbers, TopologyAssumption
      <4>2. QED
        BY <2>3, <3>1, <4>1
    <3>2. CASE On(f) # "root"
      <4>1. b = secondary[On(f)] /\ On(f) \in Numbered
        BY <1>0, <2>1, <3>2, AllFound, BusNumbers DEF Answers
      <4>2. QED
        BY <1>0, <2>2, <2>3, <4>1 DEF NumbersOK
    <3>3. QED
      BY <3>1, <3>2
  <2>5. Window(g) = (c * 256) .. (c * 256 + 256 - 1)
    BY <2>3 DEF Window, BusSpan
  <2>6. Decodes(f, k) \subseteq (b * 256 + d * 8) .. (b * 256 + d * 8 + 7)
    BY <1>3, <2>1, DecodesShare DEF ShareOf, BusSpan, SlotSpan
  <2>7. \A x \in Decodes(f, k) : (x \in Window(g)) <=> (b = c)
    <3>1. ASSUME NEW x \in Decodes(f, k) PROVE (x \in Window(g)) <=> (b = c)
      <4>1. x \in (b * 256 + d * 8) .. (b * 256 + d * 8 + 7)
        BY <2>6
      <4>2. x \in Int /\ b * 256 + d * 8 <= x /\ x <= b * 256 + d * 8 + 7
        BY <4>1
      <4>3. (c * 256 <= x /\ x <= c * 256 + 255) <=> (b = c)
        BY <4>2, ShareInWindow
      <4>4. x \in Window(g) <=> (c * 256 <= x /\ x <= c * 256 + 255)
        BY <2>5, <4>2
      <4>5. QED
        BY <4>3, <4>4
    <3>2. QED
      BY <3>1
  <2>8. QED
    BY <2>4, <2>7 DEF On
<1>4. QED
  BY <1>1, <1>2, <1>3 DEF BarsFit

(* pci.c, for every machine whose bridges are on the root bus and whose    *)
(* BARs fit the shares: when pci_init is over every device was found, its  *)
(* BARs are apart from all others, mapped and in the window of its own     *)
(* bridge only, and its structures are where the drivers look for them.    *)
THEOREM EnumerationFits == Spec => []BarsReachable
<1>1. Init => WalkInv
  BY InitWalk DEF Init
<1>2. WalkInv /\ [Next]_vars => WalkInv'
  BY NextWalk
<1>3. WalkInv => BarsReachable
  BY WalkInvImplies
<1>4. QED
  BY <1>1, <1>2, <1>3, PTL DEF Spec
=============================================================================
