----------------------------- MODULE PageAlloc -----------------------------
(***************************************************************************)
(* The physical page allocator of the kernel, src/src/page.c, with the     *)
(* spin lock of src/src/lock.c.                                            *)
(*                                                                         *)
(* Two bookkeeping bits per page say whether the page is free (0), taken   *)
(* (2) or the last page of a taken chunk (3).  Every hart runs page_nalloc,*)
(* page_free and the counting functions one memory access at a time; the   *)
(* bits are only written under page_lock, but page_free READS them before  *)
(* it takes the lock.                                                      *)
(*                                                                         *)
(* chunks and held are not in the code: they record the chunks handed out  *)
(* and not yet taken back, and the one that each hart's running call is    *)
(* about.  No step of the allocator reads them; only the callers, who may  *)
(* free what they were given and once, are bound by them.                  *)
(***************************************************************************)
EXTENDS Integers, FiniteSets

CONSTANTS
  Harts,      \* the harts that call the allocator
  NumPages,   \* num_pages: the heap's size in pages
  PageSize,   \* PAGE_SIZE, in bytes
  MaxRequest  \* the bound on n, the pages one call asks for

(* page_init: two bits per page, a quarter of a byte, rounded up to pages. *)
NumBkPages == ((NumPages \div 4) + PageSize - 1) \div PageSize

ASSUME HeapAssumption ==
  /\ NumPages \in Nat
  /\ PageSize \in Nat \ {0}
  /\ MaxRequest \in Nat

(* The heap holds its bookkeeping bytes and at least one page more. *)
ASSUME BkAssumption ==
  /\ NumBkPages \in 1 .. (NumPages - 1)
  /\ NumPages <= 4 * PageSize * NumBkPages

VARIABLES
  bk,          \* the bookkeeping bits of each page
  page_lock,   \* the lock word: 0 unlocked, 1 locked
  pc,          \* where each hart is
  n,           \* page_nalloc's argument
  i,           \* the loop index
  start_indx,  \* start_indx of page_nalloc, page_idx of page_free
  end_indx,    \* end_indx of page_nalloc, end_idx of page_free
  pages_free,  \* pages_free of page_nalloc, the count of page_count_free
  chunks,      \* the chunks handed out and not yet taken back
  held         \* the chunk, at most one, that a hart's call is about

locals == <<pc, n, i, start_indx, end_indx, pages_free>>
vars == <<bk, page_lock, locals, chunks, held>>

Pages == 0 .. (NumPages - 1)
Bits == {0, 2, 3}
Chunk == [first : Pages, last : Pages, asked : 1 .. MaxRequest]
PagesOf(c) == c.first .. c.last

Labels == {"idle", "nalloc", "search", "set", "unlock", "null",
           "check", "scan", "free", "clear", "unlock_free",
           "count", "counting", "unlock_count"}

Init ==
  /\ bk = [p \in Pages |-> IF p < NumBkPages THEN 3 ELSE 0]
  /\ page_lock = 0
  /\ pc = [h \in Harts |-> "idle"]
  /\ n = [h \in Harts |-> 0]
  /\ i = [h \in Harts |-> 0]
  /\ start_indx = [h \in Harts |-> -1]
  /\ end_indx = [h \in Harts |-> -1]
  /\ pages_free = [h \in Harts |-> 0]
  /\ chunks = {}
  /\ held = [h \in Harts |-> {}]

-----------------------------------------------------------------------------
(* src/src/lock.c: mutex_trylock swaps 1 into the word and succeeds when   *)
(* the word was not 1; mutex_spinlock repeats it; mutex_unlock stores 0.   *)

MutexSpinlockUnchecked == page_lock' = 1

MutexSpinlockCounting == page_lock' = page_lock + 1

MutexSpinlock == /\ page_lock # 1
                 /\ page_lock' = 1

MutexUnlock == page_lock' = 0

Goto(h, l) == pc' = [pc EXCEPT ![h] = l]

(* The call returns and its locals are gone. *)
Return(h) ==
  /\ Goto(h, "idle")
  /\ n' = [n EXCEPT ![h] = 0]
  /\ i' = [i EXCEPT ![h] = 0]
  /\ start_indx' = [start_indx EXCEPT ![h] = -1]
  /\ end_indx' = [end_indx EXCEPT ![h] = -1]
  /\ pages_free' = [pages_free EXCEPT ![h] = 0]

-----------------------------------------------------------------------------
(* page_nalloc *)

(* bk_set ors 2, or 3 for the last page, into the two bits. *)
BkSet(b, last) == IF last \/ b = 3 THEN 3 ELSE 2

NallocCall(h, k) ==
  /\ pc[h] = "idle"
  /\ Goto(h, "nalloc")
  /\ n' = [n EXCEPT ![h] = k]
  /\ UNCHANGED <<bk, page_lock, i, start_indx, end_indx, pages_free, chunks, held>>

NallocLock(h) ==
  /\ pc[h] = "nalloc"
  /\ MutexSpinlock
  /\ Goto(h, "search")
  /\ UNCHANGED <<bk, n, i, start_indx, end_indx, pages_free, chunks, held>>

(* A taken page: start over.  The count of free pages is kept. *)
SearchTakenKeepStart(h) ==
  /\ pc[h] = "search"
  /\ i[h] < NumPages
  /\ bk[i[h]] >= 2
  /\ i' = [i EXCEPT ![h] = @ + 1]
  /\ UNCHANGED <<bk, page_lock, pc, n, start_indx, end_indx, pages_free, chunks, held>>

SearchTaken(h) ==
  /\ pc[h] = "search"
  /\ i[h] < NumPages
  /\ bk[i[h]] >= 2
  /\ start_indx' = [start_indx EXCEPT ![h] = -1]
  /\ end_indx' = [end_indx EXCEPT ![h] = -1]
  /\ i' = [i EXCEPT ![h] = @ + 1]
  /\ UNCHANGED <<bk, page_lock, pc, n, pages_free, chunks, held>>

(* A free page: remember the first one, stop at the n-th. *)
SearchFree(h) ==
  LET first == IF start_indx[h] = -1 THEN i[h] ELSE start_indx[h]
      found == pages_free[h] + 1 = n[h]
      new   == [first |-> first, last |-> i[h], asked |-> n[h]]
  IN  /\ pc[h] = "search"
      /\ i[h] < NumPages
      /\ bk[i[h]] < 2
      /\ start_indx' = [start_indx EXCEPT ![h] = first]
      /\ pages_free' = [pages_free EXCEPT ![h] = @ + 1]
      /\ end_indx' = [end_indx EXCEPT ![h] = IF found THEN i[h] ELSE @]
      /\ i' = [i EXCEPT ![h] = IF found THEN first ELSE @ + 1]
      /\ Goto(h, IF found THEN "set" ELSE "search")
      /\ chunks' = IF found THEN chunks \cup {new} ELSE chunks
      /\ held' = IF found THEN [held EXCEPT ![h] = {new}] ELSE held
      /\ UNCHANGED <<bk, page_lock, n>>

(* The loop ends with end_indx still -1. *)
SearchEndEarly(h) ==
  /\ pc[h] = "search"
  /\ i[h] >= NumPages - 1
  /\ Goto(h, "null")
  /\ UNCHANGED <<bk, page_lock, n, i, start_indx, end_indx, pages_free, chunks, held>>

SearchEnd(h) ==
  /\ pc[h] = "search"
  /\ i[h] >= NumPages
  /\ Goto(h, "null")
  /\ UNCHANGED <<bk, page_lock, n, i, start_indx, end_indx, pages_free, chunks, held>>

NallocNull(h) ==
  /\ pc[h] = "null"
  /\ MutexUnlock
  /\ Return(h)
  /\ UNCHANGED <<bk, chunks, held>>

(* One bk_set: the pages before end_indx without, end_indx with "last". *)
SetBitsLastEverywhere(h) ==
  /\ pc[h] = "set"
  /\ bk' = [bk EXCEPT ![i[h]] = BkSet(@, TRUE)]
  /\ i' = [i EXCEPT ![h] = @ + 1]
  /\ Goto(h, IF i[h] = end_indx[h] THEN "unlock" ELSE "set")
  /\ UNCHANGED <<page_lock, n, start_indx, end_indx, pages_free, chunks, held>>

SetBits(h) ==
  /\ pc[h] = "set"
  /\ bk' = [bk EXCEPT ![i[h]] = BkSet(@, i[h] = end_indx[h])]
  /\ i' = [i EXCEPT ![h] = @ + 1]
  /\ Goto(h, IF i[h] = end_indx[h] THEN "unlock" ELSE "set")
  /\ UNCHANGED <<page_lock, n, start_indx, end_indx, pages_free, chunks, held>>

NallocReturn(h) ==
  /\ pc[h] = "unlock"
  /\ MutexUnlock
  /\ Return(h)
  /\ held' = [held EXCEPT ![h] = {}]
  /\ UNCHANGED <<bk, chunks>>

-----------------------------------------------------------------------------
(* page_free.  The caller passes a page of a chunk it holds: the first one *)
(* to give the chunk back, or by mistake a later one, which the code means *)
(* to refuse.  The caller does not use the chunk during the call.          *)

FreeCall(h, c, p) ==
  /\ pc[h] = "idle"
  /\ \A g \in Harts : c \notin held[g]
  /\ held' = [held EXCEPT ![h] = {c}]
  /\ start_indx' = [start_indx EXCEPT ![h] = p]
  /\ end_indx' = [end_indx EXCEPT ![h] = p]
  /\ Goto(h, "check")
  /\ UNCHANGED <<bk, page_lock, n, i, pages_free, chunks>>

(* Is the page before it taken and not the last of its chunk? *)
FreeRefuse(h) ==
  /\ pc[h] = "check"
  /\ bk[start_indx[h] - 1] = 2
  /\ Return(h)
  /\ held' = [held EXCEPT ![h] = {}]
  /\ UNCHANGED <<bk, page_lock, chunks>>

FreeAcceptAny(h) ==
  /\ pc[h] = "check"
  /\ Goto(h, "scan")
  /\ UNCHANGED <<bk, page_lock, n, i, start_indx, end_indx, pages_free, chunks, held>>

FreeAccept(h) ==
  /\ pc[h] = "check"
  /\ bk[start_indx[h] - 1] # 2
  /\ Goto(h, "scan")
  /\ UNCHANGED <<bk, page_lock, n, i, start_indx, end_indx, pages_free, chunks, held>>

(* Looking for the last page of the chunk, without the lock. *)
FreeScan(h) ==
  /\ pc[h] = "scan"
  /\ bk[end_indx[h]] # 3
  /\ end_indx[h] < NumPages - 1
  /\ end_indx' = [end_indx EXCEPT ![h] = @ + 1]
  /\ UNCHANGED <<bk, page_lock, pc, n, i, start_indx, pages_free, chunks, held>>

FreeScanEnd(h) ==
  /\ pc[h] = "scan"
  /\ ~(bk[end_indx[h]] # 3 /\ end_indx[h] < NumPages - 1)
  /\ Goto(h, "free")
  /\ UNCHANGED <<bk, page_lock, n, i, start_indx, end_indx, pages_free, chunks, held>>

FreeLock(h) ==
  /\ pc[h] = "free"
  /\ MutexSpinlock
  /\ i' = [i EXCEPT ![h] = start_indx[h]]
  /\ Goto(h, "clear")
  /\ UNCHANGED <<bk, n, start_indx, end_indx, pages_free, chunks, held>>

(* bk_clear: both bits become 0, whatever they were. *)
BkClear(b) == 0

(* One bk_clear. *)
ClearBitsShort(h) ==
  /\ pc[h] = "clear"
  /\ bk' = IF i[h] = end_indx[h] THEN bk ELSE [bk EXCEPT ![i[h]] = 0]
  /\ i' = [i EXCEPT ![h] = @ + 1]
  /\ Goto(h, IF i[h] >= end_indx[h] THEN "unlock_free" ELSE "clear")
  /\ UNCHANGED <<page_lock, n, start_indx, end_indx, pages_free, chunks, held>>

ClearBits(h) ==
  /\ pc[h] = "clear"
  /\ bk' = [bk EXCEPT ![i[h]] = BkClear(@)]
  /\ i' = [i EXCEPT ![h] = @ + 1]
  /\ Goto(h, IF i[h] = end_indx[h] THEN "unlock_free" ELSE "clear")
  /\ UNCHANGED <<page_lock, n, start_indx, end_indx, pages_free, chunks, held>>

FreeReturnLocked(h) ==
  /\ pc[h] = "unlock_free"
  /\ Return(h)
  /\ chunks' = chunks \ held[h]
  /\ held' = [held EXCEPT ![h] = {}]
  /\ UNCHANGED <<bk, page_lock>>

FreeReturn(h) ==
  /\ pc[h] = "unlock_free"
  /\ MutexUnlock
  /\ Return(h)
  /\ chunks' = chunks \ held[h]
  /\ held' = [held EXCEPT ![h] = {}]
  /\ UNCHANGED bk

-----------------------------------------------------------------------------
(* page_count_free and page_count_taken: one loop over the bits under the  *)
(* lock.  The loop only reads, and the lock keeps the bits as they are, so *)
(* it is one step; the two differ only in which pages they count.          *)

CountCall(h) ==
  /\ pc[h] = "idle"
  /\ Goto(h, "count")
  /\ UNCHANGED <<bk, page_lock, n, i, start_indx, end_indx, pages_free, chunks, held>>

CountLockUnchecked(h) ==
  /\ pc[h] = "count"
  /\ MutexSpinlockUnchecked
  /\ Goto(h, "counting")
  /\ UNCHANGED <<bk, n, i, start_indx, end_indx, pages_free, chunks, held>>

CountLock(h) ==
  /\ pc[h] = "count"
  /\ MutexSpinlock
  /\ Goto(h, "counting")
  /\ UNCHANGED <<bk, n, i, start_indx, end_indx, pages_free, chunks, held>>

FreePages == {p \in Pages : bk[p] < 2}
TakenPages == {p \in Pages : bk[p] >= 2}

Counting(h) ==
  /\ pc[h] = "counting"
  /\ pages_free' = [pages_free EXCEPT ![h] = Cardinality(FreePages)]
  /\ Goto(h, "unlock_count")
  /\ UNCHANGED <<bk, page_lock, n, i, start_indx, end_indx, chunks, held>>

CountReturn(h) ==
  /\ pc[h] = "unlock_count"
  /\ MutexUnlock
  /\ Return(h)
  /\ UNCHANGED <<bk, chunks, held>>

-----------------------------------------------------------------------------
(* The steps of a call that is under way. *)
Step(h) ==
  \/ NallocLock(h) \/ SearchTaken(h) \/ SearchFree(h) \/ SearchEnd(h)
  \/ NallocNull(h) \/ SetBits(h) \/ NallocReturn(h)
  \/ FreeRefuse(h) \/ FreeAccept(h) \/ FreeScan(h) \/ FreeScanEnd(h)
  \/ FreeLock(h) \/ ClearBits(h) \/ FreeReturn(h)
  \/ CountLock(h) \/ Counting(h) \/ CountReturn(h)

Call(h) ==
  \/ \E k \in 1 .. MaxRequest : NallocCall(h, k)
  \/ \E c \in chunks : \E p \in PagesOf(c) : FreeCall(h, c, p)
  \/ CountCall(h)

Next == \E h \in Harts : Call(h) \/ Step(h)

Spec == Init /\ [][Next]_vars

(* A hart in a call keeps executing instructions.  The spin lock promises  *)
(* no order among waiters, so nothing stronger than weak fairness.         *)
FairSpec == Spec /\ \A h \in Harts : WF_vars(Step(h))

-----------------------------------------------------------------------------
(* Properties *)

(* Type correctness of the allocator's state and of every hart's locals. *)
TypeOK ==
  /\ bk \in [Pages -> Bits]
  /\ page_lock \in {0, 1}
  /\ pc \in [Harts -> Labels]
  /\ n \in [Harts -> 0 .. MaxRequest]
  /\ i \in [Harts -> 0 .. NumPages]
  /\ start_indx \in [Harts -> -1 .. (NumPages - 1)]
  /\ end_indx \in [Harts -> -1 .. (NumPages - 1)]
  /\ pages_free \in [Harts -> 0 .. NumPages]
  /\ chunks \subseteq Chunk
  /\ held \in [Harts -> SUBSET Chunk]

(* No page is in two chunks and no bookkeeping page is in any: two callers *)
(* of page_nalloc never get the same page, however their calls overlap     *)
(* with each other and with page_free's unlocked reads.                    *)
ChunksDisjoint ==
  /\ \A c \in chunks : c.first >= NumBkPages /\ c.first <= c.last
  /\ \A c, d \in chunks : c # d => PagesOf(c) \cap PagesOf(d) = {}

(* Whenever the lock is free the bits say exactly which chunks exist: 2 up *)
(* to the last page of a chunk, 3 there, 3 for the bookkeeping pages, and  *)
(* 0 for every other page.  Nothing is leaked and nothing is lost.         *)
BitsDescribeChunks ==
  page_lock = 0 =>
    \A p \in Pages :
      bk[p] = IF p < NumBkPages \/ \E c \in chunks : c.last = p THEN 3
              ELSE IF \E c \in chunks : p \in PagesOf(c) THEN 2 ELSE 0

(* page_free checks and scans the bits before it takes the lock, and what  *)
(* it decided still holds when it clears: it goes on only for the first    *)
(* page of a chunk, it refuses only other pages, and it clears the chunk   *)
(* to its last page and nothing else.                                      *)
FreeIsExact ==
  \A h \in Harts : \A c \in held[h] :
    /\ pc[h] = "check" => (bk[start_indx[h] - 1] = 2 <=> start_indx[h] # c.first)
    /\ pc[h] \in {"scan", "free", "clear"} => start_indx[h] = c.first
    /\ pc[h] \in {"free", "clear"} => end_indx[h] = c.last

(* page_nalloc answers NULL only when fewer than n pages are free in the   *)
(* whole heap.                                                             *)
NullMeansExhausted ==
  \A h \in Harts : pc[h] = "null" => Cardinality(FreePages) < n[h]

(* page_count_free's answer is, at the moment it unlocks, the number of    *)
(* pages that belong to no chunk, and page_count_taken's would be that of  *)
(* the others: their comment says "The point of these is to detect         *)
(* anomalies".                                                             *)
CountIsExact ==
  \A h \in Harts : pc[h] = "unlock_count" =>
    /\ pages_free[h] = Cardinality({p \in NumBkPages .. (NumPages - 1) :
                                      \A c \in chunks : p \notin PagesOf(c)})
    /\ TakenPages = 0 .. (NumBkPages - 1) \cup UNION {PagesOf(c) : c \in chunks}

(* The allocator implements RunAllocator: a run is given when the search  *)
(* finds it and is taken back when page_free has cleared its last bit.     *)
Abstract == INSTANCE RunAllocator WITH
  Lowest <- NumBkPages,
  Highest <- NumPages - 1,
  runs <- {<<c.first, c.last>> : c \in chunks}

RefinesRunAllocator == Abstract!Spec

(* No path through the allocator keeps the lock: every hart that takes it  *)
(* gives it up, on the failing returns too.                                *)
LockReleased == (page_lock = 1) ~> (page_lock = 0)

(* "Linearly search for n consecutive free pages" (page.c:147): the chunk  *)
(* a caller gets has the n pages it asked for.                             *)
ChunkHoldsRequest ==
  \A c \in chunks : c.last - c.first + 1 = c.asked
=============================================================================
