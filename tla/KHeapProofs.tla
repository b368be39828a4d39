----------------------------- MODULE KHeapProofs -----------------------------
(***************************************************************************)
(* Proofs about KHeap for every heap size, number of descriptors, split    *)
(* threshold, alignment and set of requests.                               *)
(*                                                                         *)
(* The argument is about sets of bytes: insert_block adds the bytes of one *)
(* block to a list, compact changes the blocks of a list and not its       *)
(* bytes, so the free and the used bytes stay disjoint and fill the heap   *)
(* up to its top.                                                          *)
(***************************************************************************)
EXTENDS KHeap, SequenceLemmas

Block == [addr : Nat, size : Nat \ {0}]
UsedBlock == {b \in [addr : Nat, size : Nat \ {0}, asked : Nat \ {0}] : b.size >= b.asked}

Bytes(b) == b.addr .. (End(b) - 1)

(* The bytes of the blocks of a list, and of its first k blocks. *)
OwnedUpTo(s, k) == {a \in Nat : \E j \in 1 .. k : a \in Bytes(s[j])}
Owned(s) == OwnedUpTo(s, Len(s))

(* Blocks in the order of their addresses: overlapping nowhere, and with a *)
(* gap between any two.                                                    *)
Ordered(s) == \A k \in 1 .. (Len(s) - 1) : End(s[k]) <= s[k + 1].addr
Gaps(s) == \A j, k \in 1 .. Len(s) : j < k => End(s[j]) < s[k].addr

(* No byte is in two blocks of a list. *)
Disjoint(s) ==
  \A j, k \in 1 .. Len(s) : j # k => Bytes(s[j]) \cap Bytes(s[k]) = {}

-----------------------------------------------------------------------------
(* Two blocks that share no byte lie one after the other. *)
LEMMA DisjointBlocks ==
  ASSUME NEW b, NEW c,
         b.addr \in Nat, b.size \in Nat \ {0}, c.addr \in Nat, c.size \in Nat \ {0},
         Bytes(b) \cap Bytes(c) = {}
  PROVE  End(b) <= c.addr \/ End(c) <= b.addr
<1> SUFFICES ASSUME End(b) > c.addr, End(c) > b.addr PROVE FALSE
  BY DEF End
<1>1. CASE b.addr <= c.addr
  BY <1>1 DEF Bytes, End
<1>2. CASE c.addr < b.addr
  BY <1>2 DEF Bytes, End
<1>3. QED
  BY <1>1, <1>2

(* The fields of the blocks of a list. *)
LEMMA BlockFields ==
  ASSUME NEW s \in Seq(Block)
  PROVE  \A k \in 1 .. Len(s) : /\ s[k].addr \in Nat /\ s[k].size \in Nat \ {0}
                                /\ End(s[k]) = s[k].addr + s[k].size
<1> SUFFICES ASSUME NEW k \in 1 .. Len(s)
             PROVE  /\ s[k].addr \in Nat /\ s[k].size \in Nat \ {0}
                    /\ End(s[k]) = s[k].addr + s[k].size
  OBVIOUS
<1>1. s[k] \in Block
  BY ElementOfSeq
<1>2. QED
  BY <1>1 DEF Block, End

(* The same of the used blocks. *)
LEMMA UsedBlockFields ==
  ASSUME NEW s \in Seq(UsedBlock)
  PROVE  \A k \in 1 .. Len(s) : /\ s[k].addr \in Nat /\ s[k].size \in Nat \ {0}
                                /\ End(s[k]) = s[k].addr + s[k].size
<1> SUFFICES ASSUME NEW k \in 1 .. Len(s)
             PROVE  /\ s[k].addr \in Nat /\ s[k].size \in Nat \ {0}
                    /\ End(s[k]) = s[k].addr + s[k].size
  OBVIOUS
<1>1. s[k] \in UsedBlock
  BY ElementOfSeq
<1>2. QED
  BY <1>1 DEF UsedBlock, End

(* alloc_block rounds a request up, never down. *)
LEMMA AlignUpHolds ==
  ASSUME NEW asked \in Nat \ {0}
  PROVE  AlignUp(asked) \in Nat \ {0} /\ AlignUp(asked) >= asked
<1> DEFINE x == asked + Alignment - 1
           q == x \div Alignment
<1>1. Alignment \in Nat \ {0} /\ x \in Nat
  BY KHeapAssumption
<1>2. q \in Int /\ x < (q + 1) * Alignment
  BY <1>1
<1>3. (q + 1) * Alignment = q * Alignment + Alignment /\ q * Alignment \in Int
  BY <1>1, <1>2
<1> HIDE DEF q
<1>4. q * Alignment >= asked
  BY <1>1, <1>2, <1>3
<1>5. QED
  BY <1>3, <1>4 DEF AlignUp, q

(* FirstFit finds the first block that will do, if there is one. *)
LEMMA FirstFitProperties ==
  ASSUME free \in Seq(Block), NEW num
  PROVE  /\ FirstFit(num) \in 0 .. Len(free)
         /\ FirstFit(num) # 0 => \/ IsTop(free[FirstFit(num)], num)
                                 \/ free[FirstFit(num)].size >= num
         /\ FirstFit(num) = 0 => \A k \in 1 .. Len(free) : ~(IsTop(free[k], num) \/ free[k].size >= num)
<1> DEFINE I == {k \in 1 .. Len(free) : IsTop(free[k], num) \/ free[k].size >= num}
<1>1. FirstFit(num) = IF I # {} THEN Min(I) ELSE 0
  BY DEF FirstFit, SelectInSeq
<1>2. I \in SUBSET Nat /\ Len(free) \in Nat
  OBVIOUS
<1>3. I # {} => Min(I) \in I
  BY <1>2, LeastNat
<1>4. QED
  BY <1>1, <1>2, <1>3

(* So does the search of free() through the used blocks. *)
LEMMA UsedAtProperties ==
  ASSUME used \in Seq(UsedBlock), NEW addr
  PROVE  /\ UsedAt(addr) \in 0 .. Len(used)
         /\ UsedAt(addr) # 0 => used[UsedAt(addr)].addr = addr
<1> DEFINE I == {k \in 1 .. Len(used) : used[k].addr = addr}
<1>1. UsedAt(addr) = IF I # {} THEN Min(I) ELSE 0
  BY DEF UsedAt, SelectInSeq
<1>2. I \in SUBSET Nat /\ Len(used) \in Nat
  OBVIOUS
<1>3. I # {} => Min(I) \in I
  BY <1>2, LeastNat
<1>4. QED
  BY <1>1, <1>2, <1>3

-----------------------------------------------------------------------------
(* One step of compact: the last block swallows b or b becomes the last    *)
(* one; either way there are gaps between the blocks and b's bytes are the *)
(* only new ones.                                                          *)
LEMMA SwallowProperties ==
  ASSUME NEW acc \in Seq(Block), NEW b \in Block, Gaps(acc),
         acc # <<>> => End(Last(acc)) <= b.addr,
         NEW new, new = Swallow(acc, b)
  PROVE  /\ new \in Seq(Block) /\ Len(new) \in 1 .. (Len(acc) + 1)
         /\ Gaps(new)
         /\ Owned(new) = Owned(acc) \cup Bytes(b)
         /\ End(Last(new)) = End(b)
<1> DEFINE n == Len(acc)
<1>1. n \in Nat /\ \A j \in 1 .. n : acc[j] \in Block
  BY ElementOfSeq
<1>2. b.addr \in Nat /\ b.size \in Nat \ {0} /\ End(b) \in Nat /\ Bytes(b) \subseteq Nat
  BY DEF Block, End, Bytes
<1>3. CASE acc # <<>> /\ End(Last(acc)) = b.addr
  <2> DEFINE e == [addr |-> acc[n].addr, size |-> b.addr - acc[n].addr + b.size]
  <2>1. n >= 1
    BY <1>1, <1>3
  <2>2. /\ acc[n].addr \in Nat /\ acc[n].size \in Nat \ {0}
        /\ acc[n].addr + acc[n].size = b.addr
    BY <1>1, <1>3, <2>1 DEF Last, End, Block
  <2>3. e \in Block /\ e.addr = acc[n].addr /\ e.size = acc[n].size + b.size
    <3>1. b.addr - acc[n].addr + b.size = acc[n].size + b.size
      BY <1>2, <2>2
    <3>2. acc[n].size + b.size \in Nat \ {0}
      BY <1>2, <2>2
    <3>3. QED
      BY <2>2, <3>1, <3>2 DEF Block
  <2> HIDE DEF e
  <2>4. new = [acc EXCEPT ![n] = e]
    BY <1>3 DEF Swallow, e
  <2>5. /\ new \in Seq(Block) /\ Len(new) = n
        /\ \A j \in 1 .. n : new[j] = IF j = n THEN e ELSE acc[j]
    BY <2>1, <2>3, <2>4, <1>1, ExceptSeq
  <2>6. End(e) = End(b) /\ Bytes(e) = Bytes(acc[n]) \cup Bytes(b)
    <3>1. End(e) = End(b) /\ End(acc[n]) = b.addr /\ e.addr = acc[n].addr
      BY <1>2, <2>2, <2>3 DEF End
    <3>2. acc[n].addr <= b.addr /\ b.addr < End(b)
      BY <1>2, <2>2 DEF End
    <3>3. QED
      BY <1>2, <2>2, <3>1, <3>2 DEF Bytes
  <2>7. Gaps(new)
    BY <1>1, <2>3, <2>5 DEF Gaps, End
  <2>8. Owned(new) = Owned(acc) \cup Bytes(b)
    <3>1. ASSUME NEW a \in Nat PROVE a \in Owned(new) <=> a \in Owned(acc) \/ a \in Bytes(b)
      BY <1>1, <2>1, <2>5, <2>6 DEF Owned, OwnedUpTo
    <3>2. QED
      BY <3>1, <1>2 DEF Owned, OwnedUpTo
  <2>9. QED
    BY <1>1, <2>1, <2>5, <2>6, <2>7, <2>8 DEF Last
<1>4. CASE ~(acc # <<>> /\ End(Last(acc)) = b.addr)
  <2>1. new = Append(acc, b)
    BY <1>4 DEF Swallow
  <2>2. /\ new \in Seq(Block) /\ Len(new) = n + 1
        /\ \A j \in 1 .. n : new[j] = acc[j]
        /\ new[n + 1] = b
    BY <2>1, AppendProperties
  <2>3. ASSUME NEW j \in 1 .. n PROVE End(acc[j]) < b.addr
    <3>1. acc # <<>> /\ End(acc[n]) < b.addr
      <4>1. acc # <<>>
        BY <1>1, EmptySeq
      <4>2. acc[n].addr \in Nat /\ acc[n].size \in Nat
        BY <1>1 DEF Block
      <4>3. QED
        BY <1>2, <1>4, <4>1, <4>2 DEF Last, End
    <3>2. j # n => End(acc[j]) < acc[n].addr
      BY <1>1 DEF Gaps
    <3>3. acc[j].addr \in Nat /\ acc[j].size \in Nat /\ acc[n].addr \in Nat /\ acc[n].size \in Nat
      BY <1>1 DEF Block
    <3>4. QED
      BY <1>2, <3>1, <3>2, <3>3 DEF End
  <2>4. Gaps(new)
    BY <1>1, <2>2, <2>3 DEF Gaps
  <2>5. Owned(new) = Owned(acc) \cup Bytes(b)
    <3>1. ASSUME NEW a \in Nat PROVE a \in Owned(new) <=> a \in Owned(acc) \/ a \in Bytes(b)
      BY <1>1, <2>2 DEF Owned, OwnedUpTo
    <3>2. QED
      BY <3>1, <1>2 DEF Owned, OwnedUpTo
  <2>6. QED
    BY <1>1, <2>2, <2>4, <2>5 DEF Last
<1>5. QED
  BY <1>3, <1>4

(* The recursive function in Compact exists and is what it is defined as:  *)
(* the first number up to which it did not would be preceded by one up to  *)
(* which it does.                                                          *)
LEMMA CompactRecursion ==
  ASSUME NEW s \in Seq(Block)
  PROVE  \E m : /\ m = [k \in 0 .. Len(s) |-> IF k = 0 THEN <<>> ELSE Swallow(m[k - 1], s[k])]
                /\ Compact(s) = m[Len(s)]
<1> DEFINE Def(m, n) == [k \in 0 .. n |-> IF k = 0 THEN <<>> ELSE Swallow(m[k - 1], s[k])]
           T == {n \in 0 .. Len(s) : \E m : m = Def(m, n)}
<1>0. Len(s) \in Nat
  OBVIOUS
<1>1. 0 \in T
  <2> DEFINE m == [k \in 0 .. 0 |-> <<>>]
  <2>1. m = Def(m, 0)
    OBVIOUS
  <2>2. 0 \in 0 .. Len(s)
    BY <1>0
  <2> HIDE DEF m, Def
  <2>3. QED
    BY <2>1, <2>2
<1>2. ASSUME NEW n \in 1 .. Len(s), n - 1 \in T PROVE n \in T
  <2>1. PICK m : m = Def(m, n - 1)
    BY <1>2
  <2> DEFINE mm == [k \in 0 .. n |-> IF k < n THEN m[k] ELSE Swallow(m[n - 1], s[n])]
  <2>2. ASSUME NEW k \in 0 .. n
        PROVE  mm[k] = IF k = 0 THEN <<>> ELSE Swallow(mm[k - 1], s[k])
    <3>1. n \in Nat /\ n >= 1 /\ k \in Nat /\ k <= n
      BY <1>0
    <3>2. CASE k = 0
      <4>1. 0 \in 0 .. (n - 1) /\ mm[0] = m[0]
        BY <3>1
      <4>2. QED
        BY <2>1, <3>2, <4>1
    <3>3. CASE k # 0 /\ k < n
      <4>1. k \in 0 .. (n - 1) /\ k - 1 \in 0 .. n /\ k - 1 < n
        BY <3>1, <3>3
      <4>2. mm[k] = m[k] /\ mm[k - 1] = m[k - 1]
        BY <3>3, <4>1
      <4>3. m[k] = Swallow(m[k - 1], s[k])
        BY <2>1, <3>3, <4>1
      <4>4. QED
        BY <3>3, <4>2, <4>3
    <3>4. CASE k = n
      <4>1. n - 1 \in 0 .. n /\ n - 1 < n
        BY <3>1
      <4>2. mm[n - 1] = m[n - 1] /\ mm[n] = Swallow(m[n - 1], s[n])
        BY <3>1, <4>1
      <4>3. QED
        BY <3>1, <3>4, <4>2
    <3>5. QED
      BY <3>1, <3>2, <3>3, <3>4
  <2>3. mm = Def(mm, n)
    <3>1. Def(mm, n) = [k \in 0 .. n |-> mm[k]]
      BY <2>2
    <3>2. QED
      BY <3>1
  <2>4. n \in 0 .. Len(s)
    BY <1>0
  <2> HIDE DEF mm, Def
  <2>5. QED
    BY <2>3, <2>4
<1>3. Len(s) \in T
  <2> HIDE DEF T
  <2>1. \A k \in 0 .. Len(s) : k \in T
    BY <1>0, <1>1, <1>2, IntervalInduction
  <2>2. QED
    BY <1>0, <2>1
<1>4. \E m : m = Def(m, Len(s))
  BY <1>3
<1> DEFINE merged == CHOOSE m : m = Def(m, Len(s))
<1>5. merged = Def(merged, Len(s))
  BY <1>4
<1>6. Compact(s) = merged[Len(s)]
  BY DEF Compact
<1>7. QED
  BY <1>5, <1>6

(* compact leaves gaps between the blocks, keeps the bytes of an ordered   *)
(* list and uses no more descriptors than it had.                          *)
LEMMA CompactProperties ==
  ASSUME NEW s \in Seq(Block), Ordered(s)
  PROVE  /\ Compact(s) \in Seq(Block) /\ Len(Compact(s)) <= Len(s)
         /\ Gaps(Compact(s))
         /\ Owned(Compact(s)) = Owned(s)
<1>1. PICK m : /\ m = [k \in 0 .. Len(s) |-> IF k = 0 THEN <<>> ELSE Swallow(m[k - 1], s[k])]
               /\ Compact(s) = m[Len(s)]
  BY CompactRecursion
<1>2. Len(s) \in Nat /\ \A k \in 1 .. Len(s) : s[k] \in Block
  BY ElementOfSeq
<1> DEFINE Good(k) == /\ m[k] \in Seq(Block) /\ Len(m[k]) <= k
                      /\ Gaps(m[k])
                      /\ Owned(m[k]) = OwnedUpTo(s, k)
                      /\ k # 0 => End(Last(m[k])) = End(s[k])
           T == {k \in 0 .. Len(s) : Good(k)}
<1>3. 0 \in T
  <2>1. m[0] = <<>>
    BY <1>1, <1>2
  <2>2. Good(0)
    BY <2>1 DEF Gaps, Owned, OwnedUpTo
  <2>3. QED
    BY <1>2, <2>2
<1>4. ASSUME NEW k \in 1 .. Len(s), k - 1 \in T PROVE k \in T
  <2>1. Good(k - 1) /\ k \in Nat /\ k - 1 \in Nat /\ k \in 0 .. Len(s) /\ k # 0
    BY <1>2, <1>4
  <2>2. m[k] = Swallow(m[k - 1], s[k])
    BY <1>1, <2>1
  <2>3. ASSUME m[k - 1] # <<>> PROVE End(Last(m[k - 1])) <= s[k].addr
    <3>1. k - 1 # 0
      BY <1>1, <1>2, <2>1, <2>3
    <3>2. k - 1 \in 1 .. (Len(s) - 1)
      BY <1>2, <2>1, <3>1
    <3>3. End(s[k - 1]) <= s[(k - 1) + 1].addr
      BY <3>2 DEF Ordered
    <3>4. QED
      BY <2>1, <3>1, <3>3
  <2>4. /\ m[k] \in Seq(Block) /\ Len(m[k]) \in 1 .. (Len(m[k - 1]) + 1)
        /\ Gaps(m[k])
        /\ Owned(m[k]) = Owned(m[k - 1]) \cup Bytes(s[k])
        /\ End(Last(m[k])) = End(s[k])
    <3> HIDE DEF T
    <3>1. m[k - 1] \in Seq(Block) /\ s[k] \in Block /\ Gaps(m[k - 1])
      BY <1>2, <2>1
    <3>2. QED
      BY <2>2, <2>3, <3>1, SwallowProperties
  <2>5. Len(m[k]) <= k
    BY <2>1, <2>4
  <2>6. Owned(m[k]) = OwnedUpTo(s, k)
    <3>1. Bytes(s[k]) \subseteq Nat
      BY <1>2, <2>1 DEF Bytes, Block, End
    <3>2. OwnedUpTo(s, k) = OwnedUpTo(s, k - 1) \cup Bytes(s[k])
      <4>1. 1 .. k = 1 .. (k - 1) \cup {k}
        BY <2>1
      <4>2. QED
        BY <3>1, <4>1 DEF OwnedUpTo
    <3>3. QED
      BY <2>1, <2>4, <3>2
  <2>7. QED
    BY <2>1, <2>4, <2>5, <2>6
<1>5. Good(Len(s))
  <2> HIDE DEF Good
  <2>1. \A k \in 0 .. Len(s) : k \in T
    <3> HIDE DEF T
    <3>1. QED
      BY <1>2, <1>3, <1>4, IntervalInduction
  <2>2. QED
    BY <1>2, <2>1
<1>6. QED
  BY <1>1, <1>5 DEF Owned

-----------------------------------------------------------------------------
(* insert_block keeps the list ordered, adds the bytes of the block and    *)
(* uses one descriptor.                                                    *)
LEMMA InsertBlockProperties ==
  ASSUME NEW s \in Seq(Block), NEW b \in Block, Gaps(s), Owned(s) \cap Bytes(b) = {}
  PROVE  /\ InsertBlock(s, b) \in Seq(Block) /\ Len(InsertBlock(s, b)) = Len(s) + 1
         /\ Ordered(InsertBlock(s, b))
         /\ Owned(InsertBlock(s, b)) = Owned(s) \cup Bytes(b)
<1> DEFINE n == Len(s)
           I == {k \in 1 .. n : b.addr <= s[k].addr}
           p == IF I = {} THEN n + 1 ELSE Min(I)
           t == InsertBlock(s, b)
<1>1. n \in Nat /\ \A k \in 1 .. n : s[k] \in Block
  BY ElementOfSeq
<1>2. \A k \in 1 .. n : /\ s[k].addr \in Nat /\ s[k].size \in Nat \ {0}
                        /\ End(s[k]) = s[k].addr + s[k].size /\ End(s[k]) \in Nat
  BY <1>1 DEF Block, End
<1>3. b.addr \in Nat /\ b.size \in Nat \ {0} /\ End(b) = b.addr + b.size /\ Bytes(b) \subseteq Nat
  BY DEF Block, End, Bytes
<1>4. /\ p \in 1 .. (n + 1)
      /\ \A k \in 1 .. n : k < p => s[k].addr < b.addr
      /\ p <= n => b.addr <= s[p].addr
  <2>1. I \in SUBSET Nat /\ \A k \in 1 .. n : k \in I <=> ~(s[k].addr < b.addr)
    BY <1>1, <1>2, <1>3
  <2>2. CASE I = {}
    <3>1. p = n + 1
      BY <2>2
    <3> HIDE DEF I, p
    <3>2. QED
      BY <1>1, <2>1, <2>2, <3>1
  <2>3. CASE I # {}
    <3>1. Min(I) \in I /\ \A k \in I : Min(I) <= k
      BY <2>1, <2>3, LeastNat
    <3>2. p = Min(I) /\ p \in 1 .. n /\ b.addr <= s[p].addr
      BY <2>3, <3>1
    <3> HIDE DEF I, p
    <3>3. \A k \in 1 .. n : k < p => k \notin I
      BY <1>1, <3>1, <3>2
    <3>4. QED
      BY <1>1, <2>1, <3>2, <3>3
  <2>4. QED
    BY <2>2, <2>3
<1>5. t = InsertAt(s, p, b)
  <2>1. SelectInSeq(s, LAMBDA q : b.addr <= q.addr) = IF I # {} THEN Min(I) ELSE 0
    BY DEF SelectInSeq
  <2>2. I # {} => Min(I) # 0
    BY <1>1, <1>4
  <2>3. QED
    BY <2>1, <2>2 DEF InsertBlock
<1> HIDE DEF p, t
<1>6. /\ t \in Seq(Block) /\ Len(t) = n + 1
      /\ \A j \in 1 .. (n + 1) : t[j] = IF j < p THEN s[j] ELSE IF j = p THEN b ELSE s[j - 1]
  <2>1. p \in 1 .. (Len(s) + 1)
    BY <1>4
  <2> DEFINE w == InsertAt(s, p, b)
  <2>2. w \in Seq(Block) /\ Len(w) = Len(s) + 1
    BY <2>1, InsertAtProperties
  <2>3. \A j \in 1 .. (Len(s) + 1) :
          w[j] = IF j < p THEN s[j] ELSE IF j = p THEN b ELSE s[j - 1]
    BY <2>1, InsertAtProperties
  <2> HIDE DEF w
  <2>4. QED
    BY <1>5, <2>2, <2>3 DEF w
<1>7. \A k \in 1 .. n : End(s[k]) <= b.addr \/ End(b) <= s[k].addr
  <2> SUFFICES ASSUME NEW k \in 1 .. n PROVE End(s[k]) <= b.addr \/ End(b) <= s[k].addr
    OBVIOUS
  <2>1. Bytes(s[k]) \subseteq Owned(s)
    BY <1>1, <1>2 DEF Owned, OwnedUpTo, Bytes
  <2>2. Bytes(s[k]) \cap Bytes(b) = {}
    BY <2>1
  <2>3. QED
    BY <1>2, <1>3, <2>2, DisjointBlocks
<1>8. Ordered(t)
  <2> SUFFICES ASSUME NEW j \in 1 .. n PROVE End(t[j]) <= t[j + 1].addr
    BY <1>1, <1>6 DEF Ordered
  <2>1. j \in 1 .. (n + 1) /\ j + 1 \in 1 .. (n + 1) /\ p \in Int
    BY <1>1, <1>4
  <2>2. CASE j + 1 < p
    <3>1. t[j] = s[j] /\ t[j + 1] = s[j + 1] /\ j + 1 \in 1 .. n
      BY <1>1, <1>4, <1>6, <2>1, <2>2
    <3>2. End(s[j]) < s[j + 1].addr
      BY <1>1, <3>1 DEF Gaps
    <3>3. QED
      BY <1>2, <3>1, <3>2
  <2>3. CASE j + 1 = p
    <3>1. t[j] = s[j] /\ t[j + 1] = b
      BY <1>1, <1>6, <2>1, <2>3
    <3>2. s[j].addr < b.addr
      BY <1>1, <1>4, <2>1, <2>3
    <3>3. QED
      BY <1>2, <1>3, <1>7, <3>1, <3>2
  <2>4. CASE j = p
    <3>1. t[j] = b /\ t[j + 1] = s[j]
      BY <1>1, <1>6, <2>1, <2>4
    <3>2. b.addr <= s[j].addr
      BY <1>1, <1>4, <2>4
    <3>3. QED
      BY <1>2, <1>3, <1>7, <3>1, <3>2
  <2>5. CASE j > p
    <3>1. t[j] = s[j - 1] /\ t[j + 1] = s[j] /\ j - 1 \in 1 .. n
      BY <1>1, <1>4, <1>6, <2>1, <2>5
    <3>2. End(s[j - 1]) < s[j].addr
      BY <1>1, <3>1 DEF Gaps
    <3>3. QED
      BY <1>2, <3>1, <3>2
  <2>6. QED
    BY <2>1, <2>2, <2>3, <2>4, <2>5
<1>9. Owned(t) = Owned(s) \cup Bytes(b)
  <2>1. ASSUME NEW a \in Owned(t) PROVE a \in Owned(s) \cup Bytes(b)
    <3>1. PICK j \in 1 .. (n + 1) : a \in Bytes(t[j]) /\ a \in Nat
      BY <1>6 DEF Owned, OwnedUpTo
    <3>2. CASE t[j] = b
      BY <3>1, <3>2
    <3>3. CASE t[j] # b
      <4>1. \E k \in 1 .. n : t[j] = s[k]
        BY <1>1, <1>4, <1>6, <3>3
      <4>2. QED
        BY <3>1, <4>1 DEF Owned, OwnedUpTo
    <3>4. QED
      BY <3>2, <3>3
  <2>2. ASSUME NEW a \in Bytes(b) PROVE a \in Owned(t)
    <3>1. p \in 1 .. (n + 1) /\ t[p] = b
      BY <1>4, <1>6
    <3>2. QED
      BY <1>3, <1>6, <3>1 DEF Owned, OwnedUpTo
  <2>3. ASSUME NEW a \in Owned(s) PROVE a \in Owned(t)
    <3>1. PICK k \in 1 .. n : a \in Bytes(s[k]) /\ a \in Nat
      BY DEF Owned, OwnedUpTo
    <3>2. \E j \in 1 .. (n + 1) : t[j] = s[k]
      <4>1. CASE k < p
        BY <1>1, <1>6, <4>1
      <4>2. CASE k >= p
        <5>1. k + 1 \in 1 .. (n + 1) /\ k + 1 > p /\ (k + 1) - 1 = k /\ p \in Int
          BY <1>1, <1>4, <4>2
        <5>2. t[k + 1] = s[k]
          BY <1>6, <5>1
        <5>3. QED
          BY <5>1, <5>2
      <4>3. QED
        BY <1>1, <1>4, <4>1, <4>2
    <3>3. QED
      BY <1>6, <3>1, <3>2 DEF Owned, OwnedUpTo
  <2>4. QED
    BY <2>1, <2>2, <2>3
<1>10. QED
  BY <1>6, <1>8, <1>9 DEF t

(* With gaps between them, the blocks of a list share no byte. *)
LEMMA GapsDisjoint ==
  ASSUME NEW s \in Seq(Block), Gaps(s)
  PROVE  Disjoint(s)
<1> SUFFICES ASSUME NEW j \in 1 .. Len(s), NEW k \in 1 .. Len(s), j # k
             PROVE  Bytes(s[j]) \cap Bytes(s[k]) = {}
  BY DEF Disjoint
<1>1. s[j] \in Block /\ s[k] \in Block
  BY ElementOfSeq
<1>2. End(s[j]) < s[k].addr \/ End(s[k]) < s[j].addr
  BY DEF Gaps
<1>3. QED
  BY <1>1, <1>2 DEF Bytes, End, Block

(* Unlinking a block takes its bytes away and no others. *)
LEMMA RemoveBlock ==
  ASSUME NEW S, NEW s \in Seq(S), NEW k \in 1 .. Len(s), Disjoint(s)
  PROVE  /\ Owned(RemoveAt(s, k)) = Owned(s) \ Bytes(s[k])
         /\ Disjoint(RemoveAt(s, k))
<1> DEFINE n == Len(s)
           t == RemoveAt(s, k)
<1>1. n \in Nat /\ Len(t) = n - 1
  BY RemoveAtProperties
<1>2. \A j \in 1 .. (n - 1) : t[j] = IF j < k THEN s[j] ELSE s[j + 1]
  BY RemoveAtProperties
<1> HIDE DEF t
<1>3. \A j \in 1 .. (n - 1) : \E i \in 1 .. n : i # k /\ t[j] = s[i]
  <2> SUFFICES ASSUME NEW j \in 1 .. (n - 1) PROVE \E i \in 1 .. n : i # k /\ t[j] = s[i]
    OBVIOUS
  <2>1. CASE j < k
    BY <1>1, <1>2, <2>1
  <2>2. CASE j >= k
    <3>1. j + 1 \in 1 .. n /\ j + 1 # k /\ t[j] = s[j + 1]
      BY <1>1, <1>2, <2>2
    <3>2. QED
      BY <3>1
  <2>3. QED
    BY <1>1, <2>1, <2>2
<1>4. \A i \in 1 .. n : i # k => \E j \in 1 .. (n - 1) : t[j] = s[i]
  <2> SUFFICES ASSUME NEW i \in 1 .. n, i # k PROVE \E j \in 1 .. (n - 1) : t[j] = s[i]
    OBVIOUS
  <2>1. CASE i < k
    BY <1>1, <1>2, <2>1
  <2>2. CASE i > k
    <3>1. i - 1 \in 1 .. (n - 1) /\ ~(i - 1 < k) /\ (i - 1) + 1 = i
      BY <1>1, <2>2
    <3>2. QED
      BY <1>2, <3>1
  <2>3. QED
    BY <1>1, <2>1, <2>2
<1>5. Owned(t) = Owned(s) \ Bytes(s[k])
  <2>1. ASSUME NEW a \in Owned(t) PROVE a \in Owned(s) /\ a \notin Bytes(s[k])
    <3>1. PICK j \in 1 .. (n - 1) : a \in Bytes(t[j]) /\ a \in Nat
      BY <1>1 DEF Owned, OwnedUpTo
    <3>2. PICK i \in 1 .. n : i # k /\ t[j] = s[i]
      BY <1>3
    <3>3. QED
      BY <3>1, <3>2 DEF Owned, OwnedUpTo, Disjoint
  <2>2. ASSUME NEW a \in Owned(s), a \notin Bytes(s[k]) PROVE a \in Owned(t)
    <3>1. PICK i \in 1 .. n : a \in Bytes(s[i]) /\ a \in Nat
      BY DEF Owned, OwnedUpTo
    <3>2. PICK j \in 1 .. (n - 1) : t[j] = s[i]
      BY <1>4, <2>2, <3>1
    <3>3. QED
      BY <1>1, <3>1, <3>2 DEF Owned, OwnedUpTo
  <2>3. QED
    BY <2>1, <2>2
<1>6. Disjoint(t)
  <2> SUFFICES ASSUME NEW j \in 1 .. (n - 1), NEW l \in 1 .. (n - 1), j # l
               PROVE  Bytes(t[j]) \cap Bytes(t[l]) = {}
    BY <1>1 DEF Disjoint
  <2> DEFINE Old(x) == IF x < k THEN x ELSE x + 1
  <2>1. /\ Old(j) \in 1 .. n /\ Old(l) \in 1 .. n /\ Old(j) # Old(l)
        /\ t[j] = s[Old(j)] /\ t[l] = s[Old(l)]
    BY <1>1, <1>2
  <2> HIDE DEF Old
  <2>2. QED
    BY <2>1 DEF Disjoint
<1>7. QED
  BY <1>5, <1>6 DEF t

(* Unlinking a block leaves the gaps between the others. *)
LEMMA RemoveGaps ==
  ASSUME NEW s \in Seq(Block), NEW k \in 1 .. Len(s), Gaps(s)
  PROVE  Gaps(RemoveAt(s, k))
<1> DEFINE n == Len(s)
           t == RemoveAt(s, k)
<1>1. n \in Nat /\ Len(t) = n - 1
  BY RemoveAtProperties
<1>2. \A j \in 1 .. (n - 1) : t[j] = IF j < k THEN s[j] ELSE s[j + 1]
  BY RemoveAtProperties
<1> HIDE DEF t
<1>3. SUFFICES ASSUME NEW j \in 1 .. (n - 1), NEW l \in 1 .. (n - 1), j < l
               PROVE  End(t[j]) < t[l].addr
  BY <1>1 DEF Gaps, t
<1> DEFINE Old(x) == IF x < k THEN x ELSE x + 1
<1>4. /\ Old(j) \in 1 .. n /\ Old(l) \in 1 .. n /\ Old(j) < Old(l)
      /\ t[j] = s[Old(j)] /\ t[l] = s[Old(l)]
  BY <1>1, <1>2, <1>3
<1> HIDE DEF Old
<1>5. QED
  BY <1>4 DEF Gaps

(* Linking a block to the head of the used list adds its bytes. *)
LEMMA UseBlock ==
  ASSUME NEW s \in Seq(UsedBlock), Disjoint(s),
         NEW b \in UsedBlock, Owned(s) \cap Bytes(b) = {}
  PROVE  /\ <<b>> \o s \in Seq(UsedBlock) /\ Len(<<b>> \o s) = Len(s) + 1
         /\ Disjoint(<<b>> \o s)
         /\ Owned(<<b>> \o s) = Owned(s) \cup Bytes(b)
<1> DEFINE n == Len(s)
           t == <<b>> \o s
<1>1. n \in Nat /\ t \in Seq(UsedBlock) /\ Len(t) = n + 1
  OBVIOUS
<1>2. t[1] = b /\ \A j \in 2 .. (n + 1) : t[j] = s[j - 1]
  OBVIOUS
<1> HIDE DEF t
<1>3. Bytes(b) \subseteq Nat
  BY DEF UsedBlock, Bytes, End
<1>4. \A j \in 1 .. n : t[j + 1] = s[j]
  <2> SUFFICES ASSUME NEW j \in 1 .. n PROVE t[j + 1] = s[j]
    OBVIOUS
  <2>1. j + 1 \in 2 .. (n + 1) /\ (j + 1) - 1 = j
    BY <1>1
  <2>2. QED
    BY <1>2, <2>1
<1>5. Owned(t) = Owned(s) \cup Bytes(b)
  <2>1. ASSUME NEW a \in Owned(t) PROVE a \in Owned(s) \cup Bytes(b)
    <3>1. PICK j \in 1 .. (n + 1) : a \in Bytes(t[j]) /\ a \in Nat
      BY <1>1 DEF Owned, OwnedUpTo
    <3>2. CASE j = 1
      BY <1>2, <3>1, <3>2
    <3>3. CASE j # 1
      <4>1. j \in 2 .. (n + 1) /\ j - 1 \in 1 .. n
        BY <1>1, <3>3
      <4>2. QED
        BY <1>2, <3>1, <4>1 DEF Owned, OwnedUpTo
    <3>4. QED
      BY <3>2, <3>3
  <2>2. ASSUME NEW a \in Bytes(b) PROVE a \in Owned(t)
    <3>1. 1 \in 1 .. Len(t)
      BY <1>1
    <3>2. QED
      BY <1>2, <1>3, <3>1 DEF Owned, OwnedUpTo
  <2>3. ASSUME NEW a \in Owned(s) PROVE a \in Owned(t)
    <3>1. PICK j \in 1 .. n : a \in Bytes(s[j]) /\ a \in Nat
      BY DEF Owned, OwnedUpTo
    <3>2. j + 1 \in 1 .. Len(t)
      BY <1>1
    <3>3. QED
      BY <1>4, <3>1, <3>2 DEF Owned, OwnedUpTo
  <2>4. QED
    BY <2>1, <2>2, <2>3
<1>6. Disjoint(t)
  <2>0. \A j \in 1 .. n : Bytes(s[j]) \cap Bytes(b) = {}
    BY <1>3 DEF Owned, OwnedUpTo
  <2> SUFFICES ASSUME NEW j \in 1 .. (n + 1), NEW k \in 1 .. (n + 1), j # k
               PROVE  Bytes(t[j]) \cap Bytes(t[k]) = {}
    BY <1>1 DEF Disjoint
  <2>1. CASE j = 1
    <3>1. k \in 2 .. (n + 1) /\ k - 1 \in 1 .. n
      BY <1>1, <2>1
    <3>2. QED
      BY <1>2, <2>0, <2>1, <3>1
  <2>2. CASE k = 1
    <3>1. j \in 2 .. (n + 1) /\ j - 1 \in 1 .. n
      BY <1>1, <2>2
    <3>2. QED
      BY <1>2, <2>0, <2>2, <3>1
  <2>3. CASE j # 1 /\ k # 1
    <3>1. /\ j \in 2 .. (n + 1) /\ j - 1 \in 1 .. n
          /\ k \in 2 .. (n + 1) /\ k - 1 \in 1 .. n /\ j - 1 # k - 1
      BY <1>1, <2>3
    <3>2. QED
      BY <1>2, <3>1 DEF Disjoint
  <2>4. QED
    BY <2>1, <2>2, <2>3
<1>7. QED
  BY <1>1, <1>5, <1>6 DEF t

-----------------------------------------------------------------------------
(* The inductive invariant. *)

(* Type correctness; a used block is as large as what was asked for. *)
TypeOK ==
  /\ free \in Seq(Block)
  /\ used \in Seq(UsedBlock)
  /\ fresh \in Nat
  /\ top \in 0 .. HeapLimit
  /\ refused \in Nat

(* The bytes up to the top are divided among the free and the used blocks. *)
TileInv ==
  /\ Disjoint(used)
  /\ Owned(free) \cap Owned(used) = {}
  /\ Owned(free) \cup Owned(used) = 0 .. (top - 1)

Shape == TypeOK /\ Gaps(free) /\ TileInv /\ HeapCheck

IInv == Shape /\ NullMeansFull

(* A free block that will do, and what is known of it. *)
LEMMA FoundBlock ==
  ASSUME Shape, NEW num \in Nat \ {0}, FirstFit(num) # 0
  PROVE  LET k == FirstFit(num) IN
         /\ k \in 1 .. Len(free)
         /\ free[k] \in Block
         /\ Bytes(free[k]) \subseteq Owned(free)
         /\ free[k].addr \in Nat /\ free[k].size \in Nat \ {0}
         /\ End(free[k]) = free[k].addr + free[k].size /\ End(free[k]) <= top
         /\ ~IsTop(free[k], num) => free[k].size >= num
         /\ RemoveAt(free, k) \in Seq(Block) /\ Len(RemoveAt(free, k)) = Len(free) - 1
         /\ Gaps(RemoveAt(free, k))
         /\ Owned(RemoveAt(free, k)) = Owned(free) \ Bytes(free[k])
<1> DEFINE k == FirstFit(num)
<1>1. free \in Seq(Block) /\ Gaps(free) /\ top \in Nat
  BY KHeapAssumption DEF Shape, TypeOK
<1>2. k \in 1 .. Len(free) /\ (~IsTop(free[k], num) => free[k].size >= num)
  BY <1>1, FirstFitProperties
<1> HIDE DEF k
<1>3. free[k] \in Block
  BY <1>1, <1>2, ElementOfSeq
<1>4. /\ free[k].addr \in Nat /\ free[k].size \in Nat \ {0}
      /\ End(free[k]) = free[k].addr + free[k].size
  BY <1>3 DEF Block, End
<1>5. Bytes(free[k]) \subseteq Owned(free)
  BY <1>2, <1>4 DEF Owned, OwnedUpTo, Bytes
<1>6. End(free[k]) <= top
  <2>1. End(free[k]) - 1 \in Bytes(free[k])
    BY <1>4 DEF Bytes
  <2>2. End(free[k]) - 1 \in 0 .. (top - 1)
    BY <1>5, <2>1 DEF Shape, TileInv
  <2>3. QED
    BY <1>1, <1>4, <2>2
<1>7. RemoveAt(free, k) \in Seq(Block) /\ Len(RemoveAt(free, k)) = Len(free) - 1
  BY <1>1, <1>2, RemoveAtProperties
<1>8. Gaps(RemoveAt(free, k))
  BY <1>1, <1>2, RemoveGaps
<1>9. Owned(RemoveAt(free, k)) = Owned(free) \ Bytes(free[k])
  BY <1>1, <1>2, RemoveBlock, GapsDisjoint
<1>10. QED
  BY <1>2, <1>3, <1>4, <1>5, <1>6, <1>7, <1>8, <1>9 DEF k

(* One descriptor moves from the free or the fresh ones to the used ones. *)
LEMMA DescriptorsKept ==
  ASSUME HeapCheck, Len(free) \in Nat, Len(used) \in Nat, fresh \in Nat,
         Len(free') \in Nat, fresh' \in Nat,
         Len(used') = Len(used) + 1, Len(free') + fresh' + 1 = Len(free) + fresh
  PROVE  HeapCheck'
BY DEF HeapCheck

(* An allocation that links block r to the used list keeps the shape of    *)
(* the heap if the free bytes and r's are what is not used up to the top.  *)
LEMMA TakeShape ==
  ASSUME Shape, NEW r \in UsedBlock, used' = <<r>> \o used,
         free' \in Seq(Block), Gaps(free'),
         Owned(used) \cap Bytes(r) = {},
         Owned(free') \cap (Owned(used) \cup Bytes(r)) = {},
         Owned(free') \cup (Owned(used) \cup Bytes(r)) = 0 .. (top' - 1),
         top' \in 0 .. HeapLimit, fresh' \in Nat, refused' \in Nat,
         Len(free') + fresh' + 1 = Len(free) + fresh
  PROVE  Shape'
<1>1. /\ free \in Seq(Block) /\ used \in Seq(UsedBlock) /\ fresh \in Nat /\ Disjoint(used)
      /\ HeapCheck
  BY DEF Shape, TypeOK, TileInv
<1>2. /\ used' \in Seq(UsedBlock) /\ Len(used') = Len(used) + 1
      /\ Disjoint(used') /\ Owned(used') = Owned(used) \cup Bytes(r)
  BY <1>1, UseBlock
<1>3. HeapCheck'
  <2>1. Len(free) \in Nat /\ Len(used) \in Nat /\ Len(free') \in Nat
    BY <1>1
  <2>2. QED
    BY <1>1, <1>2, <2>1, DescriptorsKept
<1>4. TileInv'
  BY <1>2 DEF TileInv
<1>5. QED
  BY <1>2, <1>3, <1>4 DEF Shape, TypeOK

(* A block from the free list that reaches the top is cut or grown to the  *)
(* request, and the top follows.                                           *)
LEMMA AllocTopShape ==
  ASSUME Shape, NEW asked \in Nat \ {0}, AllocTop(asked)
  PROVE  Shape'
<1> DEFINE num == AlignUp(asked)
           k == FirstFit(num)
           b == free[k]
           r == [addr |-> b.addr, size |-> num, asked |-> asked]
<1>1. num \in Nat \ {0} /\ num >= asked
  BY AlignUpHolds
<1>2. /\ k # 0 /\ End(b) >= top /\ b.addr + num <= HeapLimit
      /\ free' = RemoveAt(free, k) /\ used' = <<r>> \o used /\ top' = b.addr + num
      /\ refused' = 0 /\ fresh' = fresh
  BY DEF AllocTop, IsTop, Use
<1> HIDE DEF num
<1>3. /\ k \in 1 .. Len(free) /\ b.addr \in Nat /\ b.size \in Nat \ {0}
      /\ End(b) = b.addr + b.size /\ End(b) <= top /\ Bytes(b) \subseteq Owned(free)
      /\ free' \in Seq(Block) /\ Len(free') = Len(free) - 1 /\ Gaps(free')
      /\ Owned(free') = Owned(free) \ Bytes(b)
  BY <1>1, <1>2, FoundBlock
<1> HIDE DEF k, b
<1>4. /\ fresh \in Nat /\ top \in Nat /\ Len(free) \in Nat
      /\ Owned(free) \cap Owned(used) = {}
      /\ Owned(free) \cup Owned(used) = 0 .. (top - 1)
  BY KHeapAssumption DEF Shape, TypeOK, TileInv
<1>5. r \in UsedBlock /\ Bytes(r) = b.addr .. (b.addr + num - 1)
  BY <1>1, <1>3 DEF UsedBlock, Bytes, End
<1> HIDE DEF r
<1>6. Bytes(b) = b.addr .. (top - 1)
  <2>1. End(b) = top
    <3>1. End(b) \in Nat
      BY <1>3
    <3>2. End(b) >= top /\ End(b) <= top /\ top \in Nat
      BY <1>2, <1>3, <1>4
    <3>3. QED
      BY <3>1, <3>2
  <2>2. QED
    BY <2>1 DEF Bytes
<1>7. Owned(used) \subseteq 0 .. (b.addr - 1) /\ Owned(free') \subseteq 0 .. (b.addr - 1)
  BY <1>3, <1>4, <1>6
<1>8. Owned(used) \cap Bytes(r) = {} /\ Owned(free') \cap (Owned(used) \cup Bytes(r)) = {}
  BY <1>1, <1>3, <1>4, <1>5, <1>7
<1>9. Owned(free') \cup (Owned(used) \cup Bytes(r)) = 0 .. (top' - 1)
  <2>1. Owned(free') \cup Owned(used) = 0 .. (b.addr - 1)
    BY <1>3, <1>4, <1>6, <1>7
  <2>2. 0 .. (top' - 1) = 0 .. (b.addr - 1) \cup Bytes(r)
    BY <1>1, <1>2, <1>3, <1>5
  <2>3. QED
    BY <2>1, <2>2
<1>10. top' \in 0 .. HeapLimit /\ Len(free') + fresh' + 1 = Len(free) + fresh
  BY <1>1, <1>2, <1>3, <1>4, KHeapAssumption
<1>11. QED
  BY <1>2, <1>3, <1>4, <1>5, <1>8, <1>9, <1>10, TakeShape

(* A block inside the heap is split: the excess goes back to the free list *)
(* in a fresh descriptor.                                                  *)
LEMMA AllocSplitShape ==
  ASSUME Shape, NEW asked \in Nat \ {0}, AllocSplit(asked)
  PROVE  Shape'
<1> DEFINE num == AlignUp(asked)
           k == FirstFit(num)
           b == free[k]
           r == [addr |-> b.addr, size |-> num, asked |-> asked]
           split == [addr |-> b.addr + num, size |-> b.size - num]
           rest == RemoveAt(free, k)
           list == InsertBlock(rest, split)
<1>1. num \in Nat \ {0} /\ num >= asked
  BY AlignUpHolds
<1>2. /\ k # 0 /\ ~IsTop(b, num) /\ fresh > 0 /\ b.size - num >= SplitThresh
      /\ free' = Compact(list) /\ used' = <<r>> \o used /\ top' = top
      /\ refused' = 0 /\ fresh' = fresh - 1 + Len(list) - Len(free')
  BY DEF AllocSplit, Splits, Use
<1> HIDE DEF num
<1>3. /\ k \in 1 .. Len(free) /\ b.addr \in Nat /\ b.size \in Nat \ {0}
      /\ End(b) = b.addr + b.size /\ Bytes(b) \subseteq Owned(free)
      /\ rest \in Seq(Block) /\ Len(rest) = Len(free) - 1 /\ Gaps(rest)
      /\ Owned(rest) = Owned(free) \ Bytes(b)
  BY <1>1, <1>2, FoundBlock
<1> HIDE DEF k, b, rest
<1>4. /\ fresh \in Nat /\ top \in 0 .. HeapLimit /\ Len(free) \in Nat
      /\ Owned(free) \cap Owned(used) = {}
      /\ Owned(free) \cup Owned(used) = 0 .. (top - 1)
  BY DEF Shape, TypeOK, TileInv
<1>5. r \in UsedBlock /\ Bytes(r) = b.addr .. (b.addr + num - 1)
  BY <1>1, <1>3 DEF UsedBlock, Bytes, End
<1>6. split \in Block /\ Bytes(split) = (b.addr + num) .. (b.addr + b.size - 1)
  <2>1. b.size - num \in Nat \ {0} /\ b.addr + num \in Nat
    <3>1. SplitThresh \in Nat \ {0}
      BY KHeapAssumption
    <3>2. b.size - num >= SplitThresh
      BY <1>2
    <3>3. QED
      BY <1>1, <1>3, <3>1, <3>2
  <2>2. (b.addr + num) + (b.size - num) = b.addr + b.size
    BY <1>1, <1>3
  <2>3. split.addr = b.addr + num /\ split.size = b.size - num
    OBVIOUS
  <2>4. split \in Block
    BY <2>1 DEF Block
  <2>5. End(split) = b.addr + b.size
    BY <2>2, <2>3 DEF End
  <2> HIDE DEF split
  <2>6. Bytes(split) = split.addr .. (End(split) - 1)
    BY DEF Bytes
  <2>7. QED
    BY <1>1, <1>3, <2>1, <2>3, <2>4, <2>5, <2>6
<1> HIDE DEF r, split
<1>7. Bytes(b) = Bytes(r) \cup Bytes(split) /\ Bytes(r) \cap Bytes(split) = {}
  <2>1. num <= b.size
    BY <1>1, <1>2, <1>3, KHeapAssumption
  <2>2. Bytes(b) = b.addr .. (b.addr + b.size - 1)
    BY <1>3 DEF Bytes
  <2>3. ASSUME NEW x \in Nat, NEW y \in Nat, NEW z \in Nat, z <= y
        PROVE  /\ x .. (x + y - 1) = x .. (x + z - 1) \cup (x + z) .. (x + y - 1)
               /\ (x .. (x + z - 1)) \cap ((x + z) .. (x + y - 1)) = {}
    BY <2>3
  <2>4. QED
    BY <1>1, <1>3, <1>5, <1>6, <2>1, <2>2, <2>3
<1>8. /\ list \in Seq(Block) /\ Len(list) = Len(free) /\ Ordered(list)
      /\ Owned(list) = Owned(rest) \cup Bytes(split)
  <2>1. Owned(rest) \cap Bytes(split) = {}
    BY <1>3, <1>7
  <2>2. /\ list \in Seq(Block) /\ Len(list) = Len(rest) + 1 /\ Ordered(list)
        /\ Owned(list) = Owned(rest) \cup Bytes(split)
    BY <1>3, <1>6, <2>1, InsertBlockProperties
  <2>3. QED
    BY <1>3, <1>4, <2>2
<1> HIDE DEF list
<1>9. /\ free' \in Seq(Block) /\ Len(free') <= Len(free) /\ Gaps(free')
      /\ Owned(free') = (Owned(free) \ Bytes(b)) \cup Bytes(split)
  BY <1>2, <1>3, <1>8, CompactProperties
<1>10. Owned(used) \cap Bytes(r) = {} /\ Owned(free') \cap (Owned(used) \cup Bytes(r)) = {}
  BY <1>3, <1>4, <1>7, <1>9
<1>11. Owned(free') \cup (Owned(used) \cup Bytes(r)) = 0 .. (top' - 1)
  BY <1>2, <1>3, <1>4, <1>7, <1>9
<1>12. fresh' \in Nat /\ Len(free') + fresh' + 1 = Len(free) + fresh
  <2>1. Len(free') \in Nat
    BY <1>9
  <2>2. QED
    BY <1>2, <1>4, <1>8, <1>9, <2>1
<1>13. QED
  BY <1>2, <1>4, <1>5, <1>9, <1>10, <1>11, <1>12, TakeShape

(* A block inside the heap is handed out as it is. *)
LEMMA AllocWholeShape ==
  ASSUME Shape, NEW asked \in Nat \ {0}, AllocWhole(asked)
  PROVE  Shape'
<1> DEFINE num == AlignUp(asked)
           k == FirstFit(num)
           b == free[k]
           r == [addr |-> b.addr, size |-> b.size, asked |-> asked]
<1>1. num \in Nat \ {0} /\ num >= asked
  BY AlignUpHolds
<1>2. /\ k # 0 /\ ~IsTop(b, num)
      /\ free' = RemoveAt(free, k) /\ used' = <<r>> \o used /\ top' = top
      /\ refused' = 0 /\ fresh' = fresh
  BY DEF AllocWhole, Use
<1> HIDE DEF num
<1>3. /\ k \in 1 .. Len(free) /\ b.addr \in Nat /\ b.size \in Nat \ {0} /\ b.size >= num
      /\ Bytes(b) \subseteq Owned(free)
      /\ free' \in Seq(Block) /\ Len(free') = Len(free) - 1 /\ Gaps(free')
      /\ Owned(free') = Owned(free) \ Bytes(b)
  BY <1>1, <1>2, FoundBlock
<1> HIDE DEF k, b
<1>4. /\ fresh \in Nat /\ top \in 0 .. HeapLimit /\ Len(free) \in Nat
      /\ Owned(free) \cap Owned(used) = {}
      /\ Owned(free) \cup Owned(used) = 0 .. (top - 1)
  BY DEF Shape, TypeOK, TileInv
<1>5. r \in UsedBlock /\ Bytes(r) = Bytes(b)
  BY <1>1, <1>3 DEF UsedBlock, Bytes, End
<1> HIDE DEF r
<1>6. Owned(used) \cap Bytes(r) = {} /\ Owned(free') \cap (Owned(used) \cup Bytes(r)) = {}
  BY <1>3, <1>4, <1>5
<1>7. Owned(free') \cup (Owned(used) \cup Bytes(r)) = 0 .. (top' - 1)
  BY <1>2, <1>3, <1>4, <1>5
<1>8. Len(free') + fresh' + 1 = Len(free) + fresh
  BY <1>2, <1>3, <1>4
<1>9. QED
  BY <1>2, <1>3, <1>4, <1>5, <1>6, <1>7, <1>8, TakeShape

(* No free block will do: a fresh one at the top. *)
LEMMA AllocFreshShape ==
  ASSUME Shape, NEW asked \in Nat \ {0}, AllocFresh(asked)
  PROVE  Shape'
<1> DEFINE num == AlignUp(asked)
           r == [addr |-> top, size |-> num, asked |-> asked]
<1>1. num \in Nat \ {0} /\ num >= asked
  BY AlignUpHolds
<1>2. /\ fresh > 0 /\ top + num <= HeapLimit
      /\ free' = free /\ used' = <<r>> \o used /\ top' = top + num
      /\ refused' = 0 /\ fresh' = fresh - 1
  BY DEF AllocFresh, Use
<1> HIDE DEF num
<1>3. /\ fresh \in Nat /\ top \in Nat /\ Len(free) \in Nat
      /\ free \in Seq(Block) /\ Gaps(free)
      /\ Owned(free) \cap Owned(used) = {}
      /\ Owned(free) \cup Owned(used) = 0 .. (top - 1)
  BY KHeapAssumption DEF Shape, TypeOK, TileInv
<1>4. r \in UsedBlock /\ Bytes(r) = top .. (top + num - 1)
  BY <1>1, <1>3 DEF UsedBlock, Bytes, End
<1> HIDE DEF r
<1>5. Owned(used) \cap Bytes(r) = {} /\ Owned(free) \cap (Owned(used) \cup Bytes(r)) = {}
  BY <1>1, <1>3, <1>4
<1>6. Owned(free) \cup (Owned(used) \cup Bytes(r)) = 0 .. (top' - 1)
  <2>1. 0 .. (top' - 1) = 0 .. (top - 1) \cup Bytes(r)
    BY <1>1, <1>2, <1>3, <1>4
  <2>2. QED
    BY <1>3, <2>1
<1>7. /\ top' \in 0 .. HeapLimit /\ fresh' \in Nat
      /\ Len(free') + fresh' + 1 = Len(free) + fresh
  BY <1>1, <1>2, <1>3, KHeapAssumption
<1>8. Owned(free') = Owned(free)
  BY <1>2
<1>9. QED
  BY <1>2, <1>3, <1>4, <1>5, <1>6, <1>7, <1>8, TakeShape

-----------------------------------------------------------------------------
(* kfree: the bytes of the block move to the free list, and compact gives  *)
(* the descriptors it saves back to the fresh ones.                        *)
LEMMA KfreeShape ==
  ASSUME Shape, NEW addr, Kfree(addr)
  PROVE  Shape' /\ \E k \in 1 .. Len(used) : used' = RemoveAt(used, k)
<1> DEFINE k == UsedAt(addr)
           c == used[k]
           b == [addr |-> addr, size |-> c.size]
           list == InsertBlock(free, b)
<1>1. /\ k # 0 /\ free' = Compact(list) /\ used' = RemoveAt(used, k) /\ top' = top
      /\ fresh' = fresh + Len(list) - Len(free') /\ refused' = 0
  BY DEF Kfree
<1>2. /\ free \in Seq(Block) /\ used \in Seq(UsedBlock) /\ fresh \in Nat
      /\ top \in 0 .. HeapLimit /\ Gaps(free) /\ Disjoint(used) /\ HeapCheck
      /\ Owned(free) \cap Owned(used) = {}
      /\ Owned(free) \cup Owned(used) = 0 .. (top - 1)
  BY DEF Shape, TypeOK, TileInv
<1>3. k \in 1 .. Len(used) /\ c.addr = addr
  BY <1>1, <1>2, UsedAtProperties
<1> HIDE DEF k
<1>4. c \in UsedBlock
  BY <1>2, <1>3, ElementOfSeq
<1> HIDE DEF c
<1>5. c.addr \in Nat /\ c.size \in Nat \ {0}
  BY <1>4 DEF UsedBlock
<1>6. b \in Block /\ Bytes(b) = Bytes(c)
  BY <1>3, <1>5 DEF Block, Bytes, End
<1> HIDE DEF b
<1>7. Bytes(c) \subseteq Owned(used)
  BY <1>3, <1>5 DEF Owned, OwnedUpTo, Bytes, End, c
<1>8. /\ list \in Seq(Block) /\ Len(list) = Len(free) + 1 /\ Ordered(list)
      /\ Owned(list) = Owned(free) \cup Bytes(c)
  <2>1. Owned(free) \cap Bytes(b) = {}
    BY <1>2, <1>6, <1>7
  <2>2. QED
    BY <1>2, <1>6, <2>1, InsertBlockProperties
<1> HIDE DEF list
<1>9. /\ free' \in Seq(Block) /\ Len(free') <= Len(list) /\ Gaps(free')
      /\ Owned(free') = Owned(free) \cup Bytes(c)
  BY <1>1, <1>8, CompactProperties
<1>10. used' \in Seq(UsedBlock) /\ Len(used') = Len(used) - 1
  BY <1>1, <1>2, <1>3, RemoveAtProperties
<1>11. Owned(used') = Owned(used) \ Bytes(c) /\ Disjoint(used')
  BY <1>1, <1>2, <1>3, RemoveBlock DEF c
<1>12. TileInv'
  BY <1>1, <1>2, <1>7, <1>9, <1>11 DEF TileInv
<1>13. fresh' \in Nat /\ HeapCheck'
  <2>1. Len(free) \in Nat /\ Len(used) \in Nat /\ Len(free') \in Nat /\ Len(list) \in Nat
    BY <1>2, <1>8, <1>9
  <2>2. MaxBlocks = Len(free) + Len(used) + fresh
    BY <1>2 DEF HeapCheck
  <2>3. fresh' \in Nat
    BY <1>1, <1>2, <1>9, <2>1
  <2>4. MaxBlocks = Len(free') + Len(used') + fresh'
    BY <1>1, <1>2, <1>8, <1>10, <2>1, <2>2
  <2>5. QED
    BY <2>3, <2>4 DEF HeapCheck
<1>14. QED
  BY <1>1, <1>2, <1>3, <1>9, <1>10, <1>12, <1>13 DEF Shape, TypeOK

(* A call that changes no list and not the top. *)
LEMMA SameShape ==
  ASSUME Shape, UNCHANGED <<free, used, fresh, top>>, refused' \in Nat
  PROVE  Shape'
BY DEF Shape, TypeOK, TileInv, HeapCheck

(* The byte after a free block belongs to a used one, or is the top. *)
LEMMA AfterFreeBlock ==
  ASSUME Shape, NEW j \in 1 .. Len(free), End(free[j]) < top
  PROVE  End(free[j]) \in Owned(used)
<1> DEFINE e == End(free[j])
<1>1. free \in Seq(Block) /\ top \in Nat
  BY KHeapAssumption DEF Shape, TypeOK
<1>2. \A l \in 1 .. Len(free) : /\ free[l].addr \in Nat /\ free[l].size \in Nat \ {0}
                                /\ End(free[l]) = free[l].addr + free[l].size
  BY <1>1, BlockFields
<1>3. e \in 0 .. (top - 1)
  BY <1>1, <1>2
<1>4. e \in Owned(free) \/ e \in Owned(used)
  BY <1>3 DEF Shape, TileInv
<1>5. ASSUME e \in Owned(free) PROVE FALSE
  <2>1. PICK l \in 1 .. Len(free) : e \in Bytes(free[l])
    BY <1>5 DEF Owned, OwnedUpTo
  <2>2. free[l].addr <= e /\ e < End(free[l])
    BY <1>2, <2>1 DEF Bytes
  <2>3. j < l => e < free[l].addr
    BY DEF Shape, Gaps
  <2>4. l < j => End(free[l]) < free[j].addr
    BY DEF Shape, Gaps
  <2>5. QED
    BY <1>2, <2>2, <2>3, <2>4
<1>6. QED
  BY <1>4, <1>5

(* When no free block will do and the heap cannot grow, a used block is in *)
(* the way of every run of bytes as large as the request.                  *)
LEMMA RefusedIsFull ==
  ASSUME Shape, NEW num \in Nat \ {0}, FirstFit(num) = 0, top + num > HeapLimit,
         NEW a \in 0 .. (HeapLimit - num)
  PROVE  \E k \in DOMAIN used : used[k].addr < a + num /\ a < End(used[k])
<1>1. /\ free \in Seq(Block) /\ used \in Seq(UsedBlock) /\ top \in 0 .. HeapLimit
      /\ Owned(free) \cup Owned(used) = 0 .. (top - 1)
  BY DEF Shape, TypeOK, TileInv
<1>2. HeapLimit \in Nat /\ top \in Nat /\ a \in Nat /\ a + num <= HeapLimit /\ a < top
  BY <1>1, KHeapAssumption
<1>3. \A k \in 1 .. Len(used) : /\ used[k].addr \in Nat /\ used[k].size \in Nat \ {0}
                                /\ End(used[k]) = used[k].addr + used[k].size
  BY <1>1, UsedBlockFields
<1>4. \A l \in 1 .. Len(free) : /\ free[l].addr \in Nat /\ free[l].size \in Nat \ {0}
                                /\ End(free[l]) = free[l].addr + free[l].size
  BY <1>1, BlockFields
<1>5. ASSUME NEW x \in Owned(used), a <= x, x < a + num
      PROVE  \E k \in DOMAIN used : used[k].addr < a + num /\ a < End(used[k])
  <2>1. PICK k \in 1 .. Len(used) : x \in Bytes(used[k]) /\ x \in Nat
    BY DEF Owned, OwnedUpTo
  <2>2. used[k].addr <= x /\ x < End(used[k])
    BY <1>3, <2>1 DEF Bytes
  <2>3. used[k].addr < a + num /\ a < End(used[k])
    BY <1>2, <1>3, <1>5, <2>1, <2>2
  <2>4. k \in DOMAIN used
    BY <1>1
  <2>5. QED
    BY <2>3, <2>4
<1>6. CASE a \in Owned(used)
  BY <1>2, <1>5, <1>6
<1>7. CASE a \notin Owned(used)
  <2>1. a \in Owned(free)
    <3>1. a \in 0 .. (top - 1)
      BY <1>2
    <3>2. QED
      BY <1>1, <1>7, <3>1
  <2>2. PICK j \in 1 .. Len(free) : a \in Bytes(free[j])
    BY <2>1 DEF Owned, OwnedUpTo
  <2>3. free[j].addr <= a /\ a < End(free[j])
    BY <1>4, <2>2 DEF Bytes
  <2>4. ~IsTop(free[j], num) /\ ~(free[j].size >= num)
    BY <1>1, FirstFitProperties
  <2>5. free[j].addr + num <= HeapLimit
    BY <1>2, <1>4, <2>3
  <2>6. End(free[j]) < top
    BY <1>2, <1>4, <2>4, <2>5 DEF IsTop
  <2>7. End(free[j]) < a + num
    BY <1>2, <1>4, <2>3, <2>4
  <2>8. End(free[j]) \in Owned(used)
    BY <2>6, AfterFreeBlock
  <2>9. a <= End(free[j])
    BY <1>2, <1>4, <2>3
  <2>10. QED
    BY <1>5, <2>7, <2>8, <2>9
<1>8. QED
  BY <1>6, <1>7

(* alloc_block returns NULL only when the heap is full. *)
LEMMA AllocNullFull ==
  ASSUME Shape, NEW asked \in Nat \ {0}, AllocNull(asked)
  PROVE  NullMeansFull'
<1> DEFINE num == AlignUp(asked)
<1>1. num \in Nat \ {0}
  BY AlignUpHolds
<1>2. /\ FirstFit(num) = 0 /\ ~(fresh > 0 /\ top + num <= HeapLimit)
      /\ refused' = asked /\ used' = used /\ fresh' = fresh
  BY DEF AllocNull
<1>3. AlignUp(refused') = num
  BY <1>2
<1> HIDE DEF num
<1>4. fresh \in Nat /\ top \in Nat /\ HeapLimit \in Nat
  BY KHeapAssumption DEF Shape, TypeOK
<1>5. CASE fresh = 0
  BY <1>2, <1>5 DEF NullMeansFull
<1>6. CASE fresh # 0
  <2>1. top + num > HeapLimit
    BY <1>1, <1>2, <1>4, <1>6
  <2>2. \A a \in 0 .. (HeapLimit - num) :
          \E k \in DOMAIN used : used[k].addr < a + num /\ a < End(used[k])
    BY <1>1, <1>2, <2>1, RefusedIsFull
  <2>3. QED
    BY <1>2, <1>3, <2>2 DEF NullMeansFull
<1>7. QED
  BY <1>5, <1>6

-----------------------------------------------------------------------------
(* init leaves an empty heap and all descriptors fresh. *)
LEMMA InitIInv ==
  ASSUME Init
  PROVE  IInv
<1>1. TypeOK
  BY KHeapAssumption DEF Init, TypeOK
<1>2. Gaps(free)
  BY DEF Init, Gaps
<1>3. Owned(free) = {} /\ Owned(used) = {} /\ 0 .. (top - 1) = {}
  BY DEF Init, Owned, OwnedUpTo
<1>4. TileInv
  BY <1>3 DEF Init, TileInv, Disjoint
<1>5. HeapCheck
  BY KHeapAssumption DEF Init, HeapCheck
<1>6. NullMeansFull
  BY DEF Init, NullMeansFull
<1>7. QED
  BY <1>1, <1>2, <1>4, <1>5, <1>6 DEF IInv, Shape

(* kmalloc either hands out a block or changes none of the lists. *)
LEMMA KmallocIInv ==
  ASSUME Shape, NEW asked \in Nat \ {0}, Kmalloc(asked)
  PROVE  /\ IInv'
         /\ (\E r : used' = <<r>> \o used) \/ used' = used
<1>1. CASE AllocTop(asked)
  BY <1>1, AllocTopShape DEF AllocTop, Use, IInv, NullMeansFull
<1>2. CASE AllocSplit(asked)
  BY <1>2, AllocSplitShape DEF AllocSplit, Use, IInv, NullMeansFull
<1>3. CASE AllocWhole(asked)
  BY <1>3, AllocWholeShape DEF AllocWhole, Use, IInv, NullMeansFull
<1>4. CASE AllocFresh(asked)
  BY <1>4, AllocFreshShape DEF AllocFresh, Use, IInv, NullMeansFull
<1>5. CASE AllocNull(asked)
  <2>1. UNCHANGED <<free, used, fresh, top>> /\ refused' \in Nat
    BY <1>5 DEF AllocNull
  <2>2. QED
    BY <1>5, <2>1, SameShape, AllocNullFull DEF IInv
<1>6. QED
  BY <1>1, <1>2, <1>3, <1>4, <1>5 DEF Kmalloc

(* What a step does to the used list: nothing, a block at its head, or one *)
(* block less.                                                             *)
LEMMA NextIInv ==
  ASSUME IInv, [Next]_vars
  PROVE  /\ IInv'
         /\ \/ used' = used
            \/ \E r : used' = <<r>> \o used
            \/ \E k \in 1 .. Len(used) : used' = RemoveAt(used, k)
<1>1. Shape /\ Requests \subseteq Nat \ {0}
  BY KHeapAssumption DEF IInv
<1>2. CASE \E asked \in Requests : Kmalloc(asked)
  BY <1>1, <1>2, KmallocIInv
<1>3. CASE \E n, each \in Requests : Kcalloc(n, each)
  <2>1. PICK asked \in Requests : Kmalloc(asked)
    BY <1>3 DEF Kcalloc
  <2>2. QED
    BY <1>1, <2>1, KmallocIInv
<1>4. ASSUME NEW addr \in 0 .. HeapLimit, Kfree(addr)
      PROVE  IInv' /\ \E k \in 1 .. Len(used) : used' = RemoveAt(used, k)
  <2>1. Shape' /\ \E k \in 1 .. Len(used) : used' = RemoveAt(used, k)
    BY <1>1, <1>4, KfreeShape
  <2>2. refused' = 0
    BY <1>4 DEF Kfree
  <2>3. QED
    BY <2>1, <2>2 DEF IInv, NullMeansFull
<1>5. ASSUME NEW addr \in 0 .. HeapLimit, KfreeUnknown(addr)
      PROVE  IInv' /\ used' = used
  <2>1. UNCHANGED <<free, used, fresh, top>> /\ refused' = 0
    BY <1>5 DEF KfreeUnknown
  <2>2. QED
    BY <1>1, <2>1, SameShape DEF IInv, NullMeansFull
<1>6. CASE UNCHANGED vars
  <2>1. /\ free' = free /\ used' = used /\ fresh' = fresh /\ top' = top /\ refused' = refused
    BY <1>6 DEF vars
  <2>2. refused' \in Nat
    BY <1>1, <2>1 DEF Shape, TypeOK
  <2>3. NullMeansFull'
    BY <2>1 DEF IInv, NullMeansFull
  <2>4. QED
    BY <1>1, <2>1, <2>2, <2>3, SameShape DEF IInv
<1>7. QED
  BY <1>2, <1>3, <1>4, <1>5, <1>6 DEF Next

(* The inductive invariant holds in every reachable state. *)
THEOREM Invariance == Spec => []IInv
<1>1. Init => IInv
  BY InitIInv
<1>2. IInv /\ [Next]_vars => IInv'
  BY NextIInv
<1>3. QED
  BY <1>1, <1>2, PTL DEF Spec

(* The heap is well formed in every reachable state: lists of blocks, the  *)
(* top within the limit, a used block as large as what was asked for.      *)
THEOREM TypeCorrect == Spec => []TypeOK
<1>1. IInv => TypeOK
  BY DEF IInv, Shape
<1>2. QED
  BY <1>1, Invariance, PTL

(* The blocks on the free and the used list tile the heap up to its top,   *)
(* for every sequence of kmalloc, kcalloc and kfree calls, frees of an     *)
(* address that is not allocated included.                                 *)
THEOREM HeapTiled == Spec => []BlocksTile
<1>1. IInv => BlocksTile
  <2> SUFFICES ASSUME IInv PROVE BlocksTile
    OBVIOUS
  <2>1. /\ free \in Seq(Block) /\ used \in Seq(UsedBlock) /\ top \in 0 .. HeapLimit
        /\ Gaps(free) /\ Disjoint(used) /\ HeapCheck
        /\ Owned(free) \cap Owned(used) = {}
        /\ Owned(free) \cup Owned(used) = 0 .. (top - 1)
    BY DEF IInv, Shape, TypeOK, TileInv
  <2>2. /\ DOMAIN free = 1 .. Len(free) /\ DOMAIN used = 1 .. Len(used)
        /\ top \in Nat /\ HeapLimit \in Nat
    BY <2>1, KHeapAssumption
  <2>3. ASSUME NEW a \in 0 .. (HeapLimit - 1)
        PROVE  LET owners == {k \in DOMAIN free : free[k].addr <= a /\ a < End(free[k])}
                               \cup {-k : k \in {j \in DOMAIN used :
                                                   used[j].addr <= a /\ a < End(used[j])}}
               IN  IF a < top THEN \E k \in owners : owners = {k} ELSE owners = {}
    <3> DEFINE F == {k \in 1 .. Len(free) : a \in Bytes(free[k])}
               U == {k \in 1 .. Len(used) : a \in Bytes(used[k])}
               N == {-k : k \in U}
    <3>1. a \in Nat
      BY <2>2
    <3>2. F = {k \in DOMAIN free : free[k].addr <= a /\ a < End(free[k])}
      <4>1. ASSUME NEW k \in 1 .. Len(free)
            PROVE  a \in Bytes(free[k]) <=> free[k].addr <= a /\ a < End(free[k])
        <5>1. free[k].addr \in Nat /\ free[k].size \in Nat /\ End(free[k]) = free[k].addr + free[k].size
          BY <2>1, BlockFields
        <5>2. QED
          BY <3>1, <5>1 DEF Bytes
      <4>2. QED
        BY <2>2, <4>1
    <3>3. U = {k \in DOMAIN used : used[k].addr <= a /\ a < End(used[k])}
      <4>1. ASSUME NEW k \in 1 .. Len(used)
            PROVE  a \in Bytes(used[k]) <=> used[k].addr <= a /\ a < End(used[k])
        <5>1. used[k].addr \in Nat /\ used[k].size \in Nat /\ End(used[k]) = used[k].addr + used[k].size
          BY <2>1, UsedBlockFields
        <5>2. QED
          BY <3>1, <5>1 DEF Bytes
      <4>2. QED
        BY <2>2, <4>1
    <3>4. (F # {} <=> a \in Owned(free)) /\ (U # {} <=> a \in Owned(used))
      BY <3>1 DEF Owned, OwnedUpTo
    <3>5. \A j, k \in F : j = k
      BY <2>1, GapsDisjoint DEF Disjoint
    <3>6. \A j, k \in U : j = k
      BY <2>1 DEF Disjoint
    <3> HIDE DEF F, U
    <3>7. a < top <=> F # {} \/ U # {}
      <4>1. a < top <=> a \in 0 .. (top - 1)
        BY <2>2, <3>1
      <4>2. QED
        BY <2>1, <3>4, <4>1
    <3>8. F = {} \/ U = {}
      BY <2>1, <3>4
    <3>9. IF a < top THEN \E k \in F \cup N : F \cup N = {k} ELSE F \cup N = {}
      <4>1. CASE F # {}
        <5>1. PICK k \in F : F = {k}
          BY <3>5, <4>1
        <5>2. N = {}
          BY <3>8, <4>1
        <5>3. QED
          BY <3>7, <4>1, <5>1, <5>2
      <4>2. CASE U # {}
        <5>1. PICK k \in U : U = {k}
          BY <3>6, <4>2
        <5>2. N = {-k} /\ F = {}
          BY <3>8, <4>2, <5>1
        <5>3. QED
          BY <3>7, <4>2, <5>2
      <4>3. CASE F = {} /\ U = {}
        BY <3>7, <4>3
      <4>4. QED
        BY <4>1, <4>2, <4>3
    <3>10. QED
      BY <3>2, <3>3, <3>9
  <2>4. top <= HeapLimit /\ HeapCheck
    BY <2>1, <2>2
  <2>5. QED
    BY <2>3, <2>4, Zenon DEF BlocksTile
<1>2. QED
  BY <1>1, Invariance, PTL

(* The free list stays sorted and compacted: no two free blocks touch. *)
THEOREM FreeCompact == Spec => []FreeListCompact
<1>1. IInv => FreeListCompact
  BY DEF IInv, Shape, TypeOK, Gaps, FreeListCompact
<1>2. QED
  BY <1>1, Invariance, PTL

(* kmalloc never hands out fewer bytes than its caller asked for. *)
THEOREM RequestsHeld == Spec => []BlockHoldsRequest
<1>1. IInv => BlockHoldsRequest
  <2> SUFFICES ASSUME IInv, NEW k \in DOMAIN used PROVE used[k].size >= used[k].asked
    BY DEF BlockHoldsRequest
  <2>1. used \in Seq(UsedBlock)
    BY DEF IInv, Shape, TypeOK
  <2>2. used[k] \in UsedBlock
    BY <2>1, ElementOfSeq
  <2>3. QED
    BY <2>2 DEF UsedBlock
<1>2. QED
  BY <1>1, Invariance, PTL

(* kmalloc answers NULL only without a descriptor or without room. *)
THEOREM NullIsFull == Spec => []NullMeansFull
<1>1. IInv => NullMeansFull
  BY DEF IInv
<1>2. QED
  BY <1>1, Invariance, PTL

-----------------------------------------------------------------------------
(* The runs of bytes that callers hold. *)
Held(b) == <<b.addr, End(b) - 1>>
Runs == {Held(used[k]) : k \in DOMAIN used}

(* A used block lies in the heap, and two of them do not overlap. *)
LEMMA UsedRuns ==
  ASSUME NEW u \in Seq(UsedBlock), Disjoint(u), Owned(u) \subseteq 0 .. (HeapLimit - 1)
  PROVE  /\ \A k \in 1 .. Len(u) : Held(u[k]) \in Abstract!Run
         /\ \A j, k \in 1 .. Len(u) : j # k => ~Abstract!Overlap(Held(u[j]), Held(u[k]))
<1>1. \A k \in 1 .. Len(u) : /\ u[k].addr \in Nat /\ u[k].size \in Nat \ {0}
                             /\ End(u[k]) = u[k].addr + u[k].size
  BY UsedBlockFields
<1>2. ASSUME NEW k \in 1 .. Len(u) PROVE Held(u[k]) \in Abstract!Run
  <2> DEFINE x == u[k].addr
             y == End(u[k]) - 1
  <2>1. x \in Nat /\ y \in Nat /\ x <= y /\ y \in Bytes(u[k])
    BY <1>1 DEF Bytes
  <2>2. y \in Owned(u)
    BY <2>1 DEF Owned, OwnedUpTo
  <2>3. Held(u[k]) = <<x, y>>
    BY DEF Held
  <2> HIDE DEF x, y
  <2>4. x \in 0 .. (HeapLimit - 1) /\ y \in 0 .. (HeapLimit - 1)
    BY <2>1, <2>2, KHeapAssumption
  <2>5. QED
    BY <2>1, <2>3, <2>4 DEF Abstract!Run
<1>3. ASSUME NEW j \in 1 .. Len(u), NEW k \in 1 .. Len(u), j # k
      PROVE  ~Abstract!Overlap(Held(u[j]), Held(u[k]))
  <2>1. Bytes(u[j]) \cap Bytes(u[k]) = {}
    BY <1>3 DEF Disjoint
  <2>2. End(u[j]) <= u[k].addr \/ End(u[k]) <= u[j].addr
    BY <1>1, <2>1, DisjointBlocks
  <2>3. QED
    BY <1>1, <2>2 DEF Held, Abstract!Overlap
<1>4. QED
  BY <1>2, <1>3

(* What is below the top is below the limit. *)
LEMMA BelowLimit ==
  ASSUME NEW t \in 0 .. HeapLimit
  PROVE  0 .. (t - 1) \subseteq 0 .. (HeapLimit - 1)
BY KHeapAssumption

(* The used list as UsedRuns needs it. *)
LEMMA HeapRuns ==
  ASSUME Shape
  PROVE  used \in Seq(UsedBlock) /\ Disjoint(used) /\ Owned(used) \subseteq 0 .. (HeapLimit - 1)
<1>1. /\ used \in Seq(UsedBlock) /\ Disjoint(used) /\ top \in 0 .. HeapLimit
      /\ Owned(used) \subseteq 0 .. (top - 1)
  BY DEF Shape, TypeOK, TileInv
<1>2. 0 .. (top - 1) \subseteq 0 .. (HeapLimit - 1)
  BY <1>1, BelowLimit
<1>3. QED
  BY <1>1, <1>2

(* Linking a block to the used list gives its run. *)
LEMMA GiveStep ==
  ASSUME Shape, Shape', NEW r, used' = <<r>> \o used
  PROVE  Abstract!Next
<1> DEFINE n == Len(used)
           u == used'
<1>1. used \in Seq(UsedBlock) /\ n \in Nat /\ DOMAIN used = 1 .. n
  BY HeapRuns
<1>2. u \in Seq(UsedBlock) /\ Disjoint(u) /\ Owned(u) \subseteq 0 .. (HeapLimit - 1)
  <2>1. /\ used' \in Seq(UsedBlock) /\ Disjoint(used') /\ top' \in 0 .. HeapLimit
        /\ Owned(used') \subseteq 0 .. (top' - 1)
    BY DEF Shape, TypeOK, TileInv
  <2>2. 0 .. (top' - 1) \subseteq 0 .. (HeapLimit - 1)
    BY <2>1, BelowLimit
  <2>3. QED
    BY <2>1, <2>2
<1>3. Len(u) = n + 1 /\ u[1] = r /\ \A j \in 2 .. (n + 1) : u[j] = used[j - 1]
  BY <1>1
<1>4. DOMAIN u = 1 .. (n + 1)
  BY <1>2, <1>3
<1>5. Runs' = {Held(u[k]) : k \in DOMAIN u}
  BY DEF Runs
<1> HIDE DEF u
<1>6. Held(r) \in Abstract!Run
  <2>1. 1 \in 1 .. Len(u)
    BY <1>1, <1>3
  <2>2. QED
    BY <1>2, <1>3, <2>1, UsedRuns
<1>7. \A j \in 1 .. n : j + 1 \in 1 .. (n + 1) /\ j + 1 # 1 /\ u[j + 1] = used[j]
  <2> SUFFICES ASSUME NEW j \in 1 .. n
               PROVE  j + 1 \in 1 .. (n + 1) /\ j + 1 # 1 /\ u[j + 1] = used[j]
    OBVIOUS
  <2>1. j + 1 \in 2 .. (n + 1) /\ (j + 1) - 1 = j
    BY <1>1
  <2>2. QED
    BY <1>1, <1>3, <2>1
<1>8. \A s \in Runs : ~Abstract!Overlap(Held(r), s)
  <2> SUFFICES ASSUME NEW j \in 1 .. n PROVE ~Abstract!Overlap(Held(r), Held(used[j]))
    BY <1>1 DEF Runs
  <2>1. 1 \in 1 .. Len(u) /\ j + 1 \in 1 .. Len(u) /\ j + 1 # 1 /\ u[j + 1] = used[j]
    BY <1>1, <1>3, <1>7
  <2>2. ~Abstract!Overlap(Held(u[1]), Held(u[j + 1]))
    BY <1>2, <2>1, UsedRuns
  <2>3. QED
    BY <1>3, <2>1, <2>2
<1>9. Runs' = Runs \cup {Held(r)}
  <2>1. ASSUME NEW s \in Runs' PROVE s \in Runs \cup {Held(r)}
    <3>1. PICK j \in 1 .. (n + 1) : s = Held(u[j])
      BY <1>4, <1>5
    <3>2. CASE j = 1
      BY <1>3, <3>1, <3>2
    <3>3. CASE j # 1
      <4>1. j \in 2 .. (n + 1) /\ j - 1 \in 1 .. n
        BY <1>1, <3>3
      <4>2. u[j] = used[j - 1]
        BY <1>3, <4>1
      <4>3. QED
        BY <1>1, <3>1, <4>1, <4>2 DEF Runs
    <3>4. QED
      BY <3>2, <3>3
  <2>2. ASSUME NEW s \in Runs PROVE s \in Runs'
    <3>1. PICK j \in 1 .. n : s = Held(used[j])
      BY <1>1 DEF Runs
    <3>2. j + 1 \in DOMAIN u /\ s = Held(u[j + 1])
      BY <1>4, <1>7, <3>1
    <3>3. QED
      BY <1>5, <3>2
  <2>3. Held(r) \in Runs'
    <3>1. 1 \in DOMAIN u
      BY <1>1, <1>4
    <3>2. QED
      BY <1>3, <1>5, <3>1
  <2>4. QED
    BY <2>1, <2>2, <2>3
<1>10. Abstract!Give(Held(r))
  BY <1>8, <1>9 DEF Abstract!Give, Runs, Held
<1>11. QED
  BY <1>6, <1>10 DEF Abstract!Next

(* Unlinking one takes exactly its run back. *)
LEMMA TakeBackStep ==
  ASSUME Shape, NEW k \in 1 .. Len(used), used' = RemoveAt(used, k)
  PROVE  Abstract!Next
<1> DEFINE n == Len(used)
           u == used'
<1>1. /\ used \in Seq(UsedBlock) /\ n \in Nat /\ DOMAIN used = 1 .. n
      /\ Disjoint(used) /\ Owned(used) \subseteq 0 .. (HeapLimit - 1)
  BY HeapRuns
<1>2. u \in Seq(UsedBlock) /\ Len(u) = n - 1
  BY <1>1, RemoveAtProperties
<1>3. \A j \in 1 .. (n - 1) : u[j] = IF j < k THEN used[j] ELSE used[j + 1]
  BY <1>1, RemoveAtProperties
<1>4. DOMAIN u = 1 .. (n - 1)
  BY <1>2
<1>5. Runs' = {Held(u[j]) : j \in DOMAIN u}
  BY DEF Runs
<1> HIDE DEF u
<1>6. Held(used[k]) \in Abstract!Run /\ Held(used[k]) \in Runs
  BY <1>1, UsedRuns DEF Runs
<1>7. \A j \in 1 .. n : j # k => Held(used[j]) # Held(used[k])
  <2> SUFFICES ASSUME NEW j \in 1 .. n, j # k, Held(used[j]) = Held(used[k]) PROVE FALSE
    OBVIOUS
  <2>1. ~Abstract!Overlap(Held(used[k]), Held(used[k]))
    BY <1>1, UsedRuns
  <2>2. /\ used[k].addr \in Nat /\ used[k].size \in Nat \ {0}
        /\ End(used[k]) = used[k].addr + used[k].size
    BY <1>1, UsedBlockFields
  <2>3. QED
    BY <2>1, <2>2 DEF Held, Abstract!Overlap
<1>8. Runs' = Runs \ {Held(used[k])}
  <2>1. ASSUME NEW s \in Runs' PROVE s \in Runs \ {Held(used[k])}
    <3>1. PICK j \in 1 .. (n - 1) : s = Held(u[j])
      BY <1>4, <1>5
    <3>2. PICK i \in 1 .. n : i # k /\ u[j] = used[i]
      <4>1. CASE j < k
        BY <1>1, <1>3, <4>1
      <4>2. CASE j >= k
        <5>1. j + 1 \in 1 .. n /\ j + 1 # k /\ u[j] = used[j + 1]
          BY <1>1, <1>3, <4>2
        <5>2. QED
          BY <5>1
      <4>3. QED
        BY <1>1, <4>1, <4>2
    <3>3. QED
      BY <1>1, <1>7, <3>1, <3>2 DEF Runs
  <2>2. ASSUME NEW s \in Runs, s # Held(used[k]) PROVE s \in Runs'
    <3>1. PICK i \in 1 .. n : s = Held(used[i]) /\ i # k
      BY <1>1, <2>2 DEF Runs
    <3>2. CASE i < k
      <4>1. i \in 1 .. (n - 1) /\ u[i] = used[i]
        BY <1>1, <1>3, <3>2
      <4>2. QED
        BY <1>4, <1>5, <3>1, <4>1
    <3>3. CASE i > k
      <4>1. i - 1 \in 1 .. (n - 1) /\ ~(i - 1 < k) /\ (i - 1) + 1 = i
        BY <1>1, <3>3
      <4>2. u[i - 1] = used[i]
        BY <1>3, <4>1
      <4>3. QED
        BY <1>4, <1>5, <3>1, <4>1, <4>2
    <3>4. QED
      BY <1>1, <3>1, <3>2, <3>3
  <2>3. QED
    BY <2>1, <2>2
<1>9. PICK r \in Abstract!Run : r = Held(used[k])
  BY <1>6
<1>10. Abstract!TakeBack(r)
  BY <1>6, <1>8, <1>9 DEF Abstract!TakeBack, Runs, Held
<1>11. QED
  BY <1>9, <1>10 DEF Abstract!Next

(* The heap implements the allocator of disjoint runs: every call gives    *)
(* one run that overlaps none, takes one back whole, or changes nothing    *)
(* that a caller can see.                                                  *)
THEOREM Refinement == Spec => RefinesRunAllocator
<1>1. Init => Abstract!Init
  BY DEF Init, Abstract!Init
<1>2. IInv /\ [Next]_vars => Abstract!Next \/ Runs' = Runs
  <2> SUFFICES ASSUME IInv, [Next]_vars PROVE Abstract!Next \/ Runs' = Runs
    OBVIOUS
  <2>1. Shape /\ Shape'
    BY NextIInv DEF IInv
  <2>2. CASE used' = used
    BY <2>2 DEF Runs
  <2>3. CASE \E r : used' = <<r>> \o used
    BY <2>1, <2>3, GiveStep
  <2>4. CASE \E k \in 1 .. Len(used) : used' = RemoveAt(used, k)
    BY <2>1, <2>4, TakeBackStep
  <2>5. QED
    BY <2>2, <2>3, <2>4, NextIInv
<1>3. IInv /\ [Next]_vars => [Abstract!Next]_Runs
  BY <1>2
<1>4. QED
  BY <1>1, <1>3, Invariance, PTL DEF Spec, RefinesRunAllocator, Abstract!Spec, Runs, Held
=============================================================================
