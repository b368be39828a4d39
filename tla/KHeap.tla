------------------------------- MODULE KHeap -------------------------------
(***************************************************************************)
(* The kernel heap, src/src/kmalloc.c: blocks of memory described by a     *)
(* fixed table of descriptors that sit in one of three lists, free (sorted *)
(* by address and compacted), used and fresh.                              *)
(*                                                                         *)
(* Addresses count from the end of the descriptor table, where init puts   *)
(* heap->top.  The heap has no lock: a call runs from beginning to end.    *)
(* A blank descriptor holds nothing, so the fresh list is its length.      *)
(***************************************************************************)
EXTENDS Integers, SequencesExt

CONSTANTS
  HeapLimit,    \* heap_limit, counted from the first byte after the table
  MaxBlocks,    \* heap_max_blocks, the descriptors in the table
  SplitThresh,  \* heap_split_thresh
  Alignment,    \* heap_alignment
  Requests      \* the sizes that callers ask for

ASSUME KHeapAssumption ==
  /\ HeapLimit \in Nat /\ MaxBlocks \in Nat
  /\ SplitThresh \in Nat \ {0} /\ Alignment \in Nat \ {0}
  /\ Requests \subseteq Nat \ {0}

VARIABLES
  free,    \* heap->free
  used,    \* heap->used, each block with the bytes its caller asked for
  fresh,   \* the number of blocks in heap->fresh
  top,     \* heap->top
  refused  \* ghost: the size the last call asked for in vain, or 0

vars == <<free, used, fresh, top, refused>>

End(b) == b.addr + b.size

Init ==
  /\ free = <<>>
  /\ used = <<>>
  /\ fresh = MaxBlocks
  /\ top = 0
  /\ refused = 0

-----------------------------------------------------------------------------
(* insert_block: before the first block that is not below it. *)
InsertBlock(s, b) ==
  LET k == SelectInSeq(s, LAMBDA p : b.addr <= p.addr)
  IN  InsertAt(s, IF k = 0 THEN Len(s) + 1 ELSE k, b)

(* compact: a block swallows the run of blocks that follow it without a    *)
(* gap; their descriptors become fresh again.                              *)
Swallow(acc, b) ==
  IF acc # <<>> /\ End(Last(acc)) = b.addr
  THEN [acc EXCEPT ![Len(acc)] = [addr |-> @.addr, size |-> b.addr - @.addr + b.size]]
  ELSE Append(acc, b)

Compact(s) ==
  LET merged[k \in 0 .. Len(s)] ==
        IF k = 0 THEN <<>> ELSE Swallow(merged[k - 1], s[k])
  IN  merged[Len(s)]

(* (num + heap_alignment - 1) & -heap_alignment *)
AlignDown(num) == (num \div Alignment) * Alignment

AlignUp(num) == ((num + Alignment - 1) \div Alignment) * Alignment

-----------------------------------------------------------------------------
(* alloc_block *)

(* The block that ends at the top may grow up to the limit, or shrink. *)
IsTopAnywhere(b, num) == b.addr + num <= HeapLimit

IsTop(b, num) == End(b) >= top /\ b.addr + num <= HeapLimit

FirstFit(num) == SelectInSeq(free, LAMBDA b : IsTop(b, num) \/ b.size >= num)

Use(b, size, asked) == <<[addr |-> b.addr, size |-> size, asked |-> asked]>> \o used

AllocTop(asked) ==
  LET num == AlignUp(asked)
      k   == FirstFit(num)
  IN  /\ k # 0
      /\ IsTop(free[k], num)
      /\ free' = RemoveAt(free, k)
      /\ used' = Use(free[k], num, asked)
      /\ top' = free[k].addr + num
      /\ refused' = 0
      /\ UNCHANGED fresh

(* The excess is worth a block of its own and there is a descriptor. *)
Splits(b, num) == fresh > 0 /\ b.size - num >= SplitThresh

AllocSplitForgets(asked) ==
  LET num == AlignUp(asked)
      k   == FirstFit(num)
  IN  /\ k # 0
      /\ ~IsTop(free[k], num)
      /\ Splits(free[k], num)
      /\ free' = RemoveAt(free, k)
      /\ used' = Use(free[k], num, asked)
      /\ refused' = 0
      /\ UNCHANGED <<fresh, top>>

AllocSplit(asked) ==
  LET num   == AlignUp(asked)
      k     == FirstFit(num)
      split == [addr |-> free[k].addr + num, size |-> free[k].size - num]
      list  == InsertBlock(RemoveAt(free, k), split)
  IN  /\ k # 0
      /\ ~IsTop(free[k], num)
      /\ Splits(free[k], num)
      /\ free' = Compact(list)
      /\ used' = Use(free[k], num, asked)
      /\ fresh' = fresh - 1 + Len(list) - Len(free')
      /\ refused' = 0
      /\ UNCHANGED top

AllocWhole(asked) ==
  LET num == AlignUp(asked)
      k   == FirstFit(num)
  IN  /\ k # 0
      /\ ~IsTop(free[k], num)
      /\ ~Splits(free[k], num)
      /\ free' = RemoveAt(free, k)
      /\ used' = Use(free[k], free[k].size, asked)
      /\ refused' = 0
      /\ UNCHANGED <<fresh, top>>

(* No free block will do: a fresh one at the top. *)
AllocFresh(asked) ==
  LET num == AlignUp(asked)
  IN  /\ FirstFit(num) = 0
      /\ fresh > 0
      /\ top + num <= HeapLimit
      /\ used' = Use([addr |-> top], num, asked)
      /\ fresh' = fresh - 1
      /\ top' = top + num
      /\ refused' = 0
      /\ UNCHANGED free

AllocNull(asked) ==
  LET num == AlignUp(asked)
  IN  /\ FirstFit(num) = 0
      /\ ~(fresh > 0 /\ top + num <= HeapLimit)
      /\ refused' = asked
      /\ UNCHANGED <<free, used, fresh, top>>

-----------------------------------------------------------------------------
(* kfree: the first used block with that address is unlinked, inserted     *)
(* among the free ones and compacted.  An address that no used block has,  *)
(* one freed before for instance, is left alone.                           *)
UsedAt(addr) == SelectInSeq(used, LAMBDA b : b.addr = addr)

KfreeNoCompact(addr) ==
  LET k == UsedAt(addr)
      b == [addr |-> addr, size |-> used[k].size]
  IN  /\ k # 0
      /\ free' = InsertBlock(free, b)
      /\ used' = RemoveAt(used, k)
      /\ refused' = 0
      /\ UNCHANGED <<fresh, top>>

Kfree(addr) ==
  LET k    == UsedAt(addr)
      b    == [addr |-> addr, size |-> used[k].size]
      list == InsertBlock(free, b)
  IN  /\ k # 0
      /\ free' = Compact(list)
      /\ used' = RemoveAt(used, k)
      /\ fresh' = fresh + Len(list) - Len(free')
      /\ refused' = 0
      /\ UNCHANGED top

KfreeUnknown(addr) ==
  /\ UsedAt(addr) = 0
  /\ refused' = 0
  /\ UNCHANGED <<free, used, fresh, top>>

Kmalloc(asked) ==
  \/ AllocTop(asked) \/ AllocSplit(asked) \/ AllocWhole(asked)
  \/ AllocFresh(asked) \/ AllocNull(asked)

(* kcalloc multiplies; kzalloc passes 1. *)
Kcalloc(n, each) == n * each \in Requests /\ Kmalloc(n * each)

Next ==
  \/ \E asked \in Requests : Kmalloc(asked)
  \/ \E n, each \in Requests : Kcalloc(n, each)
  \/ \E addr \in 0 .. HeapLimit : Kfree(addr) \/ KfreeUnknown(addr)

Spec == Init /\ [][Next]_vars

-----------------------------------------------------------------------------
(* Properties *)

(* heap_check: the three lists hold all the descriptors. *)
HeapCheck == MaxBlocks = Len(free) + Len(used) + fresh

(* The free and the used blocks tile the heap from its bottom to its top:  *)
(* no byte belongs to two of them, none is lost, whatever was split, grown *)
(* at the top, shrunk at the top, merged or freed twice; and heap_check    *)
(* holds.                                                                  *)
BlocksTile ==
  /\ \A a \in 0 .. (HeapLimit - 1) :
       LET owners == {k \in DOMAIN free : free[k].addr <= a /\ a < End(free[k])}
                       \cup {-k : k \in {j \in DOMAIN used :
                                           used[j].addr <= a /\ a < End(used[j])}}
       IN  IF a < top THEN \E k \in owners : owners = {k} ELSE owners = {}
  /\ top <= HeapLimit
  /\ HeapCheck

(* The free list is sorted by address and no two free blocks touch: what   *)
(* kfree returns is not lost to fragmentation.                             *)
FreeListCompact ==
  \A k \in 1 .. (Len(free) - 1) : End(free[k]) < free[k + 1].addr

(* kmalloc.h: "Your memory address may have more bytes than requested":    *)
(* never fewer, whichever of the four ways the block was found.            *)
BlockHoldsRequest ==
  \A k \in DOMAIN used : used[k].size >= used[k].asked

(* kmalloc answers NULL only when it has no descriptor left or when no gap *)
(* between the used blocks, the one up to the limit included, is as large  *)
(* as the request.                                                         *)
NullMeansFull ==
  refused # 0 =>
    \/ fresh = 0
    \/ \A a \in 0 .. (HeapLimit - AlignUp(refused)) :
         \E k \in DOMAIN used : used[k].addr < a + AlignUp(refused) /\ a < End(used[k])

(* Seen from its callers the heap is an allocator of disjoint runs of      *)
(* bytes that is given back exactly what it gave.                          *)
Abstract == INSTANCE RunAllocator WITH
  Lowest <- 0,
  Highest <- HeapLimit - 1,
  runs <- {<<used[k].addr, End(used[k]) - 1>> : k \in DOMAIN used}

RefinesRunAllocator == Abstract!Spec
=============================================================================
