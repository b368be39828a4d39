--------------------------- MODULE PageAllocProofs ---------------------------
(***************************************************************************)
(* Proofs about PageAlloc for every set of harts, every heap size and      *)
(* every bound on the requests.                                            *)
(*                                                                         *)
(* The inductive invariant IInv has five parts: types, mutual exclusion,   *)
(* which chunk each running call is about, what each program point knows   *)
(* about the hart's locals and the bits of its chunk, and what the bits of *)
(* the remaining pages say.  CountInv joins it for what the allocator      *)
(* counts: the search of page_nalloc gives up only when fewer than n pages *)
(* are free, and page_count_free answers the number of pages in no chunk.  *)
(***************************************************************************)
EXTENDS PageAlloc, FiniteSetTheorems, TLAPS

Critical == {"search", "set", "unlock", "null", "clear", "unlock_free",
             "counting", "unlock_count"}

(* The labels at which the hart's call is about a chunk. *)
AtChunk == {"set", "unlock", "check", "scan", "free", "clear", "unlock_free"}

(* The labels at which the bits of that chunk are being rewritten. *)
Rewriting == {"set", "clear", "unlock_free"}

(* The bits of a chunk that is in nobody's hands. *)
WellFormed(c) == \A p \in PagesOf(c) : bk[p] = IF p = c.last THEN 3 ELSE 2

Apart(c, d) == c.last < d.first \/ d.last < c.first

(* The lock word is 1 while a hart is in a critical section, and at most   *)
(* one hart is.                                                            *)
LockInv ==
  /\ \A h \in Harts : pc[h] \in Critical => page_lock = 1
  /\ \A g, h \in Harts : pc[g] \in Critical /\ pc[h] \in Critical => g = h

HeldInv ==
  /\ \A h \in Harts : pc[h] \notin AtChunk => held[h] = {}
  /\ \A h \in Harts : pc[h] \in AtChunk => \E c \in chunks : held[h] = {c}
  /\ \A g, h \in Harts : \A c \in chunks : c \in held[g] /\ c \in held[h] => g = h

ChunkInv ==
  /\ \A c \in chunks : NumBkPages <= c.first /\ c.first <= c.last
  /\ \A c, d \in chunks : c = d \/ Apart(c, d)

(* What a hart that is searching knows. *)
SearchInv ==
  \A h \in Harts :
    /\ pc[h] \in {"idle", "nalloc"} => /\ i[h] = 0
                                       /\ start_indx[h] = -1
                                       /\ end_indx[h] = -1
                                       /\ pages_free[h] = 0
    /\ pc[h] = "nalloc" => n[h] >= 1
    /\ pc[h] = "search" => /\ n[h] >= 1
                           /\ pages_free[h] <= i[h]
                           /\ pages_free[h] < n[h]
                           /\ start_indx[h] < i[h]
                           /\ start_indx[h] # -1 => start_indx[h] >= NumBkPages
                           /\ start_indx[h] # -1 =>
                                \A p \in start_indx[h] .. (i[h] - 1) : bk[p] = 0

(* What a hart with a chunk in its hands knows. *)
ChunkOK(h, c) ==
  /\ pc[h] \in {"set", "free", "clear"} => /\ start_indx[h] = c.first
                                           /\ end_indx[h] = c.last
  /\ pc[h] \in {"set", "clear"} => i[h] \in PagesOf(c)
  /\ pc[h] = "set" => \A p \in PagesOf(c) : bk[p] = IF p < i[h] THEN 2 ELSE 0
  /\ pc[h] = "check" => start_indx[h] \in PagesOf(c) /\ end_indx[h] = start_indx[h]
  /\ pc[h] = "scan" => start_indx[h] = c.first /\ end_indx[h] \in PagesOf(c)
  /\ pc[h] = "clear" =>
       \A p \in PagesOf(c) : bk[p] = IF p < i[h] THEN 0
                                     ELSE IF p = c.last THEN 3 ELSE 2
  /\ pc[h] = "unlock_free" => \A p \in PagesOf(c) : bk[p] = 0

AtChunkInv == \A h \in Harts : \A c \in held[h] : ChunkOK(h, c)

(* What the bits say of the pages nobody is rewriting. *)
BitsInv ==
  /\ \A p \in Pages : p < NumBkPages => bk[p] = 3
  /\ \A c \in chunks :
       (\A h \in Harts : pc[h] \in Rewriting => c \notin held[h]) => WellFormed(c)
  /\ \A p \in Pages : bk[p] = 2 => \E c \in chunks : c.first <= p /\ p < c.last
  /\ \A p \in Pages : bk[p] = 3 /\ p >= NumBkPages => \E c \in chunks : p = c.last

IInv == TypeOK /\ LockInv /\ HeldInv /\ ChunkInv /\ SearchInv /\ AtChunkInv /\ BitsInv

-----------------------------------------------------------------------------
(* The constants the rest relies on. *)
LEMMA Sizes ==
  /\ NumPages \in Nat
  /\ MaxRequest \in Nat
  /\ NumBkPages \in Nat
  /\ 1 <= NumBkPages
  /\ NumBkPages < NumPages
BY HeapAssumption, BkAssumption

(* Counting the free pages of the heap gives a number of pages. *)
LEMMA FreePagesCount ==
  ASSUME TypeOK
  PROVE  Cardinality(FreePages) \in 0 .. NumPages
<1>1. IsFiniteSet(Pages) /\ Cardinality(Pages) = NumPages
  BY Sizes, FS_Interval DEF Pages
<1>2. FreePages \subseteq Pages
  BY DEF FreePages
<1>3. IsFiniteSet(FreePages) /\ Cardinality(FreePages) <= Cardinality(Pages)
  BY <1>1, <1>2, FS_Subset
<1>4. QED
  BY <1>1, <1>3, FS_CardinalityType, Sizes

(* The state page_init leaves behind satisfies the inductive invariant. *)
LEMMA InitIInv == Init => IInv
<1> SUFFICES ASSUME Init PROVE IInv
  OBVIOUS
<1> USE Sizes DEF Init
<1>1. TypeOK
  BY DEF TypeOK, Pages, Bits, Labels
<1>2. LockInv /\ HeldInv /\ ChunkInv /\ SearchInv /\ AtChunkInv
  BY DEF LockInv, HeldInv, ChunkInv, SearchInv, AtChunkInv, ChunkOK, Critical, AtChunk
<1>3. BitsInv
  BY DEF BitsInv, Pages
<1>4. QED
  BY <1>1, <1>2, <1>3 DEF IInv

(* What is known of the chunk a call is about: it is one of the chunks, it *)
(* lies above the bookkeeping pages, and unless the call is rewriting its  *)
(* bits they are those of a whole chunk.                                   *)
LEMMA HeldChunk ==
  ASSUME IInv, NEW h \in Harts, pc[h] \in AtChunk
  PROVE  \E c \in chunks :
           /\ held[h] = {c}
           /\ c \in Chunk
           /\ c.first \in Int /\ c.last \in Int /\ c.first \in Pages /\ c.last \in Pages
           /\ NumBkPages <= c.first /\ c.first <= c.last /\ c.last < NumPages
           /\ ChunkOK(h, c)
           /\ pc[h] \notin Rewriting => WellFormed(c)
<1>1. PICK c \in chunks : held[h] = {c}
  BY DEF IInv, HeldInv
<1>2. c \in Chunk
  BY DEF IInv, TypeOK
<1>3. /\ c.first \in Int /\ c.last \in Int /\ c.first \in Pages /\ c.last \in Pages
      /\ NumBkPages <= c.first /\ c.first <= c.last /\ c.last < NumPages
  BY <1>2, Sizes DEF IInv, ChunkInv, Chunk, Pages
<1>4. ChunkOK(h, c)
  BY <1>1 DEF IInv, AtChunkInv
<1>5. ASSUME pc[h] \notin Rewriting PROVE WellFormed(c)
  BY <1>1, <1>5 DEF IInv, HeldInv, BitsInv
<1>6. QED
  BY <1>1, <1>2, <1>3, <1>4, <1>5

(* page_free's unlocked look at the page before its argument tells the     *)
(* first page of a chunk from the others, whatever other harts are doing.  *)
LEMMA CheckIsAccurate ==
  ASSUME IInv, NEW h \in Harts, NEW c \in held[h], pc[h] = "check"
  PROVE  bk[start_indx[h] - 1] = 2 <=> start_indx[h] # c.first
<1>1. /\ c \in chunks /\ c.first \in Int /\ c.last \in Int
      /\ NumBkPages <= c.first /\ c.first <= c.last /\ c.last < NumPages
      /\ start_indx[h] \in c.first .. c.last
      /\ \A p \in c.first .. c.last : bk[p] = IF p = c.last THEN 3 ELSE 2
  BY HeldChunk DEF AtChunk, Rewriting, ChunkOK, WellFormed, PagesOf
<1>2. CASE start_indx[h] # c.first
  <2>1. start_indx[h] - 1 \in c.first .. c.last /\ start_indx[h] - 1 # c.last
    BY <1>1, <1>2, Sizes
  <2>2. QED
    BY <2>1, <1>1, <1>2
<1>3. CASE start_indx[h] = c.first
  <2> DEFINE p == c.first - 1
  <2>1. p \in Pages
    BY <1>1, Sizes DEF Pages
  <2>2. ASSUME bk[p] = 2 PROVE FALSE
    <3>1. PICK d \in chunks : d.first <= p /\ p < d.last
      BY <2>1, <2>2 DEF IInv, BitsInv
    <3>2. d.first \in Int /\ d.last \in Int
      BY DEF IInv, TypeOK, Chunk, Pages
    <3>3. d # c /\ ~Apart(c, d)
      BY <1>1, <3>1, <3>2 DEF Apart
    <3>4. QED
      BY <1>1, <3>3 DEF IInv, ChunkInv
  <2>3. QED
    BY <1>3, <2>2
<1>4. QED
  BY <1>2, <1>3

(* Calling page_nalloc keeps the invariant: nothing shared changes. *)
LEMMA NallocCallIInv ==
  ASSUME IInv, NEW h \in Harts, NEW k \in 1 .. MaxRequest, NallocCall(h, k)
  PROVE  IInv'
<1> USE Sizes DEF IInv, Goto, NallocCall, PagesOf
<1>1. TypeOK'
  BY DEF TypeOK, Pages, Bits, Labels
<1>2. LockInv'
  BY DEF LockInv, Critical, TypeOK, Labels
<1>3. HeldInv'
  BY DEF HeldInv, AtChunk, TypeOK, Labels
<1>4. ChunkInv'
  BY DEF ChunkInv
<1>5. SearchInv'
  BY DEF SearchInv, TypeOK, Pages, LockInv, Critical
<1>6. AtChunkInv'
  BY DEF AtChunkInv, ChunkOK, TypeOK, Pages, LockInv, Critical, HeldInv, AtChunk
<1>7. BitsInv'
  BY DEF BitsInv, WellFormed, Rewriting, TypeOK
<1>8. QED
  BY <1>1, <1>2, <1>3, <1>4, <1>5, <1>6, <1>7

(* Calling page_free keeps it: the caller names a page of a chunk that no  *)
(* other running call is about.                                            *)
LEMMA FreeCallIInv ==
  ASSUME IInv, NEW h \in Harts, NEW c \in chunks, NEW p \in PagesOf(c), FreeCall(h, c, p)
  PROVE  IInv'
<1> USE Sizes DEF IInv, Goto, FreeCall, PagesOf
<1>1. TypeOK'
  <2>1. c \in Chunk /\ p \in 0 .. (NumPages - 1)
    BY DEF TypeOK, Chunk, Pages
  <2>2. QED
    BY <2>1 DEF TypeOK, Labels
<1>2. LockInv'
  BY DEF LockInv, Critical, TypeOK, Labels
<1>3. HeldInv'
  BY DEF HeldInv, AtChunk, TypeOK, Labels
<1>4. ChunkInv'
  BY DEF ChunkInv
<1>5. SearchInv'
  BY DEF SearchInv, TypeOK, Pages, LockInv, Critical
<1>6. AtChunkInv'
  BY DEF AtChunkInv, ChunkOK, TypeOK, Pages, LockInv, Critical, HeldInv, AtChunk
<1>7. BitsInv'
  BY DEF BitsInv, WellFormed, Rewriting, TypeOK
<1>8. QED
  BY <1>1, <1>2, <1>3, <1>4, <1>5, <1>6, <1>7

(* page_nalloc taking page_lock keeps it: the hart becomes the only one    *)
(* inside.                                                                 *)
LEMMA NallocLockIInv ==
  ASSUME IInv, NEW h \in Harts, NallocLock(h)
  PROVE  IInv'
<1> USE Sizes DEF IInv, Goto, NallocLock, MutexSpinlock, PagesOf
<1>1. TypeOK'
  BY DEF TypeOK, Pages, Bits, Labels
<1>2. LockInv'
  BY DEF LockInv, Critical, TypeOK, Labels
<1>3. HeldInv'
  BY DEF HeldInv, AtChunk, TypeOK, Labels
<1>4. ChunkInv'
  BY DEF ChunkInv
<1>5. SearchInv'
  BY DEF SearchInv, TypeOK, Pages, LockInv, Critical
<1>6. AtChunkInv'
  BY DEF AtChunkInv, ChunkOK, TypeOK, Pages, LockInv, Critical, HeldInv, AtChunk
<1>7. BitsInv'
  BY DEF BitsInv, WellFormed, Rewriting, TypeOK
<1>8. QED
  BY <1>1, <1>2, <1>3, <1>4, <1>5, <1>6, <1>7

(* page_nalloc passing over a taken page keeps it. *)
LEMMA SearchTakenIInv ==
  ASSUME IInv, NEW h \in Harts, SearchTaken(h)
  PROVE  IInv'
<1> USE Sizes DEF IInv, Goto, SearchTaken, PagesOf
<1>1. TypeOK'
  BY DEF TypeOK, Pages, Bits, Labels
<1>2. LockInv'
  BY DEF LockInv, Critical, TypeOK, Labels
<1>3. HeldInv'
  BY DEF HeldInv, AtChunk, TypeOK, Labels
<1>4. ChunkInv'
  BY DEF ChunkInv
<1>5. SearchInv'
  BY DEF SearchInv, TypeOK, Pages, LockInv, Critical
<1>6. AtChunkInv'
  BY DEF AtChunkInv, ChunkOK, TypeOK, Pages, LockInv, Critical, HeldInv, AtChunk
<1>7. BitsInv'
  BY DEF BitsInv, WellFormed, Rewriting, TypeOK
<1>8. QED
  BY <1>1, <1>2, <1>3, <1>4, <1>5, <1>6, <1>7

(* page_nalloc finding a free page keeps it, the n-th included, which      *)
(* makes a chunk of pages that are all free.                               *)
LEMMA SearchFreeIInv ==
  ASSUME IInv, NEW h \in Harts, SearchFree(h)
  PROVE  IInv'
<1> DEFINE first == IF start_indx[h] = -1 THEN i[h] ELSE start_indx[h]
           found == pages_free[h] + 1 = n[h]
           new   == [first |-> first, last |-> i[h], asked |-> n[h]]
<1> USE Sizes DEF SearchFree, Goto, PagesOf
<1>t. /\ pc \in [Harts -> Labels] /\ i \in [Harts -> 0 .. NumPages]
      /\ n \in [Harts -> 0 .. MaxRequest] /\ pages_free \in [Harts -> 0 .. NumPages]
      /\ start_indx \in [Harts -> -1 .. (NumPages - 1)]
      /\ end_indx \in [Harts -> -1 .. (NumPages - 1)]
      /\ held \in [Harts -> SUBSET Chunk] /\ chunks \subseteq Chunk
      /\ bk \in [Pages -> Bits]
  BY DEF IInv, TypeOK
<1>s. /\ pages_free[h] <= i[h] /\ pages_free[h] < n[h] /\ n[h] >= 1
      /\ start_indx[h] < i[h]
      /\ start_indx[h] # -1 => start_indx[h] >= NumBkPages
      /\ start_indx[h] # -1 => \A p \in start_indx[h] .. (i[h] - 1) : bk[p] = 0
  BY DEF IInv, SearchInv
<1>f. /\ i[h] \in Int /\ i[h] \in Pages /\ bk[i[h]] = 0 /\ NumBkPages <= i[h]
  BY <1>t DEF Pages, Bits, IInv, BitsInv
<1>g. /\ first \in Int /\ first \in Pages /\ NumBkPages <= first /\ first <= i[h]
      /\ \A p \in first .. i[h] : bk[p] = 0
  BY <1>t, <1>s, <1>f DEF Pages
<1>n. /\ new \in Chunk /\ new.first = first /\ new.last = i[h] /\ new.asked = n[h]
  BY <1>t, <1>s, <1>f, <1>g DEF Chunk
<1>e. /\ bk' = bk /\ page_lock' = page_lock /\ n' = n
      /\ start_indx' = [start_indx EXCEPT ![h] = first]
      /\ pages_free' = [pages_free EXCEPT ![h] = @ + 1]
      /\ end_indx' = [end_indx EXCEPT ![h] = IF found THEN i[h] ELSE @]
      /\ i' = [i EXCEPT ![h] = IF found THEN first ELSE @ + 1]
      /\ pc' = [pc EXCEPT ![h] = IF found THEN "set" ELSE "search"]
      /\ chunks' = IF found THEN chunks \cup {new} ELSE chunks
      /\ held' = IF found THEN [held EXCEPT ![h] = {new}] ELSE held
      /\ pc[h] = "search"
  OBVIOUS
<1>o. ASSUME NEW d \in chunks
      PROVE  /\ d.first \in Int /\ d.last \in Int
             /\ NumBkPages <= d.first /\ d.first <= d.last
             /\ Apart(d, new) /\ Apart(new, d)
             /\ d # new
  <2>1. d.first \in Int /\ d.last \in Int /\ NumBkPages <= d.first /\ d.first <= d.last
    BY <1>t DEF Chunk, Pages, IInv, ChunkInv
  <2>2. \A g \in Harts : pc[g] \in Rewriting => d \notin held[g]
    BY <1>e DEF IInv, LockInv, Critical, Rewriting
  <2>3. \A p \in d.first .. d.last : bk[p] # 0
    BY <2>2 DEF IInv, BitsInv, WellFormed
  <2>4. Apart(d, new)
    BY <2>1, <2>3, <1>g, <1>n, <1>f DEF Apart
  <2>5. QED
    BY <2>1, <2>4, <1>g, <1>n, <1>f DEF Apart
<1> HIDE DEF first, found, new
<1>1. TypeOK'
  BY <1>e, <1>t, <1>s, <1>f, <1>g, <1>n DEF IInv, TypeOK, Labels, Pages, found
<1>2. LockInv'
  BY <1>e, <1>t DEF IInv, LockInv, Critical
<1>3. HeldInv'
  <2>1. CASE ~found
    BY <1>e, <1>t, <2>1 DEF IInv, HeldInv, AtChunk
  <2>2. CASE found
    <3>1. /\ held'[h] = {new} /\ pc'[h] = "set" /\ chunks' = chunks \cup {new}
          /\ \A g \in Harts : g # h => held'[g] = held[g] /\ pc'[g] = pc[g]
      BY <1>e, <1>t, <2>2
    <3>2. \A g \in Harts : \A d \in held[g] : d \in chunks
      BY DEF IInv, HeldInv
    <3>3. \A g \in Harts : g # h => new \notin held'[g]
      BY <1>o, <3>1, <3>2
    <3>4. \A g \in Harts : pc'[g] \notin AtChunk => held'[g] = {}
      BY <3>1 DEF IInv, HeldInv, AtChunk
    <3>5. \A g \in Harts : pc'[g] \in AtChunk => \E d \in chunks' : held'[g] = {d}
      BY <3>1 DEF IInv, HeldInv
    <3>6. ASSUME NEW g \in Harts, NEW k \in Harts, NEW d \in chunks',
                 d \in held'[g], d \in held'[k]
          PROVE  g = k
      BY <3>1, <3>2, <3>3, <3>6 DEF IInv, HeldInv
    <3>7. QED
      BY <3>4, <3>5, <3>6 DEF HeldInv
  <2>3. QED
    BY <2>1, <2>2
<1>4. ChunkInv'
  BY <1>e, <1>f, <1>g, <1>n, <1>o DEF IInv, ChunkInv
<1>5. SearchInv'
  <2> SUFFICES ASSUME NEW g \in Harts
               PROVE  (/\ pc[g] \in {"idle", "nalloc"} => /\ i[g] = 0
                                                          /\ start_indx[g] = -1
                                                          /\ end_indx[g] = -1
                                                          /\ pages_free[g] = 0
                       /\ pc[g] = "nalloc" => n[g] >= 1
                       /\ pc[g] = "search" => /\ n[g] >= 1
                                              /\ pages_free[g] <= i[g]
                                              /\ pages_free[g] < n[g]
                                              /\ start_indx[g] < i[g]
                                              /\ start_indx[g] # -1 => start_indx[g] >= NumBkPages
                                              /\ start_indx[g] # -1 =>
                                                   \A p \in start_indx[g] .. (i[g] - 1) : bk[p] = 0)'
    BY DEF SearchInv
  <2>1. CASE g = h
    BY <1>e, <1>t, <1>s, <1>f, <1>g, <2>1 DEF found
  <2>2. CASE g # h
    BY <1>e, <1>t, <2>2 DEF IInv, SearchInv
  <2>3. QED
    BY <2>1, <2>2
<1>6. AtChunkInv'
  <2> SUFFICES ASSUME NEW g \in Harts, NEW d \in held'[g]
               PROVE  ChunkOK(g, d)'
    BY DEF AtChunkInv
  <2>1. CASE g = h /\ found
    <3>1. d = new /\ pc'[g] = "set" /\ i'[g] = first /\ start_indx'[g] = first /\ end_indx'[g] = i[h]
      BY <1>e, <1>t, <2>1
    <3>2. QED
      BY <1>e, <1>f, <1>g, <1>n, <3>1 DEF ChunkOK
  <2>2. CASE g = h /\ ~found
    BY <1>e, <1>t, <2>2 DEF ChunkOK
  <2>3. CASE g # h
    <3>1. d \in held[g] /\ pc'[g] = pc[g] /\ i'[g] = i[g]
          /\ start_indx'[g] = start_indx[g] /\ end_indx'[g] = end_indx[g]
      BY <1>e, <1>t, <2>3
    <3>2. QED
      BY <1>e, <3>1 DEF IInv, AtChunkInv, ChunkOK
  <2>4. QED
    BY <2>1, <2>2, <2>3
<1>7. BitsInv'
  <2>1. ASSUME NEW d \in chunks', \A g \in Harts : pc'[g] \in Rewriting => d \notin held'[g]
        PROVE  WellFormed(d)'
    <3>1. d \in chunks
      BY <1>e, <1>t, <2>1 DEF Rewriting
    <3>2. \A g \in Harts : pc[g] \in Rewriting => d \notin held[g]
      BY <1>e DEF IInv, LockInv, Critical, Rewriting
    <3>3. QED
      BY <1>e, <3>1, <3>2 DEF IInv, BitsInv, WellFormed
  <2>2. QED
    BY <1>e, <2>1 DEF IInv, BitsInv
<1>8. QED
  BY <1>1, <1>2, <1>3, <1>4, <1>5, <1>6, <1>7 DEF IInv

(* page_nalloc running off the end of the heap keeps it. *)
LEMMA SearchEndIInv ==
  ASSUME IInv, NEW h \in Harts, SearchEnd(h)
  PROVE  IInv'
<1> USE Sizes DEF IInv, Goto, SearchEnd, PagesOf
<1>1. TypeOK'
  BY DEF TypeOK, Pages, Bits, Labels
<1>2. LockInv'
  BY DEF LockInv, Critical, TypeOK, Labels
<1>3. HeldInv'
  BY DEF HeldInv, AtChunk, TypeOK, Labels
<1>4. ChunkInv'
  BY DEF ChunkInv
<1>5. SearchInv'
  BY DEF SearchInv, TypeOK, Pages, LockInv, Critical
<1>6. AtChunkInv'
  BY DEF AtChunkInv, ChunkOK, TypeOK, Pages, LockInv, Critical, HeldInv, AtChunk
<1>7. BitsInv'
  BY DEF BitsInv, WellFormed, Rewriting, TypeOK
<1>8. QED
  BY <1>1, <1>2, <1>3, <1>4, <1>5, <1>6, <1>7

(* page_nalloc unlocking and answering NULL keeps it. *)
LEMMA NallocNullIInv ==
  ASSUME IInv, NEW h \in Harts, NallocNull(h)
  PROVE  IInv'
<1> USE Sizes DEF IInv, Goto, NallocNull, MutexUnlock, Return, PagesOf
<1>1. TypeOK'
  BY DEF TypeOK, Pages, Bits, Labels
<1>2. LockInv'
  BY DEF LockInv, Critical, TypeOK, Labels
<1>3. HeldInv'
  BY DEF HeldInv, AtChunk, TypeOK, Labels
<1>4. ChunkInv'
  BY DEF ChunkInv
<1>5. SearchInv'
  BY DEF SearchInv, TypeOK, Pages, LockInv, Critical
<1>6. AtChunkInv'
  BY DEF AtChunkInv, ChunkOK, TypeOK, Pages, LockInv, Critical, HeldInv, AtChunk
<1>7. BitsInv'
  BY DEF BitsInv, WellFormed, Rewriting, TypeOK
<1>8. QED
  BY <1>1, <1>2, <1>3, <1>4, <1>5, <1>6, <1>7

(* One bk_set of page_nalloc keeps it. *)
LEMMA SetBitsIInv ==
  ASSUME IInv, NEW h \in Harts, SetBits(h)
  PROVE  IInv'
<1> USE Sizes DEF Goto, SetBits, PagesOf
<1>0. PICK c \in chunks :
           /\ held[h] = {c}
           /\ c \in Chunk
           /\ c.first \in Int /\ c.last \in Int /\ c.first \in Pages /\ c.last \in Pages
           /\ NumBkPages <= c.first /\ c.first <= c.last /\ c.last < NumPages
           /\ ChunkOK(h, c)
           /\ pc[h] \notin Rewriting => WellFormed(c)
  BY HeldChunk DEF AtChunk, SetBits
<1>h. /\ pc \in [Harts -> Labels] /\ i \in [Harts -> 0 .. NumPages]
      /\ start_indx \in [Harts -> -1 .. (NumPages - 1)]
      /\ end_indx \in [Harts -> -1 .. (NumPages - 1)]
      /\ held \in [Harts -> SUBSET Chunk] /\ bk \in [Pages -> Bits]
  BY DEF IInv, TypeOK
<1>b. /\ i[h] \in Int /\ i[h] \in Pages /\ i[h] \in c.first .. c.last
      /\ end_indx[h] = c.last
      /\ bk' = [bk EXCEPT ![i[h]] = IF i[h] = c.last THEN 3 ELSE 2]
      /\ \A p \in Pages : bk'[p] = IF p = i[h] THEN (IF i[h] = c.last THEN 3 ELSE 2) ELSE bk[p]
      /\ chunks' = chunks /\ held' = held
      /\ \A g \in Harts : g # h => pc'[g] = pc[g]
      /\ pc'[h] = IF i[h] = c.last THEN "unlock" ELSE "set"
  <2>1. /\ i[h] \in Int /\ i[h] \in Pages /\ i[h] \in c.first .. c.last
        /\ end_indx[h] = c.last /\ bk[i[h]] = 0
    BY <1>0, <1>h DEF ChunkOK, Pages
  <2>2. bk' = [bk EXCEPT ![i[h]] = IF i[h] = c.last THEN 3 ELSE 2]
    BY <2>1, <1>h DEF BkSet
  <2>3. QED
    BY <2>1, <2>2, <1>h
<1>1. TypeOK'
  BY <1>0, <1>h, <1>b DEF IInv, TypeOK, Bits, Labels, Pages
<1>2. LockInv'
  BY DEF IInv, LockInv, Critical, TypeOK, Labels
<1>3. HeldInv'
  BY DEF IInv, HeldInv, AtChunk, TypeOK, Labels
<1>4. ChunkInv'
  BY DEF IInv, ChunkInv
<1>5. SearchInv'
  BY DEF IInv, SearchInv, TypeOK, Pages, LockInv, Critical
<1>6. AtChunkInv'
  <2> SUFFICES ASSUME NEW g \in Harts, NEW d \in held'[g]
               PROVE  ChunkOK(g, d)'
    BY DEF AtChunkInv
  <2>1. CASE g = h
    <3>1. d = c /\ PagesOf(c) \subseteq Pages
      BY <1>0, <1>b, <2>1 DEF Pages
    <3>2. QED
      BY <1>0, <1>h, <1>b, <2>1, <3>1 DEF ChunkOK
  <2>2. CASE g # h
    BY <2>2 DEF IInv, AtChunkInv, ChunkOK, LockInv, Critical, TypeOK
  <2>3. QED
    BY <2>1, <2>2
<1>7. BitsInv'
  <2>1. \A p \in Pages : p < NumBkPages => bk'[p] = 3
    BY <1>0, <1>b DEF IInv, BitsInv
  <2>2. ASSUME NEW d \in chunks,
               \A g \in Harts : pc'[g] \in Rewriting => d \notin held[g]
        PROVE  WellFormed(d)'
    <3>1. CASE d = c
      BY <1>0, <1>b, <2>2, <3>1 DEF ChunkOK, WellFormed, Rewriting, Pages
    <3>2. CASE d # c
      <4>1. \A g \in Harts : pc[g] \in Rewriting => d \notin held[g]
        BY <1>0, <1>b, <2>2, <3>2
      <4>2. WellFormed(d)
        BY <4>1 DEF IInv, BitsInv
      <4>3. d.first \in Int /\ d.last \in Int /\ d.first \in Pages /\ d.last \in Pages
        BY DEF IInv, TypeOK, Chunk, Pages
      <4>4. \A p \in d.first .. d.last : p \in Pages /\ p # i[h]
        BY <1>0, <1>b, <3>2, <4>3 DEF IInv, ChunkInv, Apart, Pages
      <4>5. QED
        BY <1>b, <4>2, <4>4 DEF WellFormed
    <3>3. QED
      BY <3>1, <3>2
  <2>3. ASSUME NEW p \in Pages, bk'[p] = 2
        PROVE  \E d \in chunks : d.first <= p /\ p < d.last
    BY <1>0, <1>b, <2>3 DEF IInv, BitsInv
  <2>4. ASSUME NEW p \in Pages, bk'[p] = 3, p >= NumBkPages
        PROVE  \E d \in chunks : p = d.last
    BY <1>0, <1>b, <2>4 DEF IInv, BitsInv
  <2>5. QED
    BY <1>b, <2>1, <2>2, <2>3, <2>4 DEF BitsInv
<1>8. QED
  BY <1>1, <1>2, <1>3, <1>4, <1>5, <1>6, <1>7 DEF IInv

(* page_nalloc unlocking and returning a chunk keeps it. *)
LEMMA NallocReturnIInv ==
  ASSUME IInv, NEW h \in Harts, NallocReturn(h)
  PROVE  IInv'
<1> USE Sizes DEF IInv, Goto, NallocReturn, MutexUnlock, Return, PagesOf
<1>1. TypeOK'
  <2>1. held' \in [Harts -> SUBSET Chunk] /\ chunks' \subseteq Chunk
    BY DEF TypeOK
  <2>2. QED
    BY <2>1 DEF TypeOK, Pages, Bits, Labels
<1>2. LockInv'
  BY DEF LockInv, Critical, TypeOK, Labels
<1>3. HeldInv'
  BY DEF HeldInv, AtChunk, TypeOK, Labels
<1>4. ChunkInv'
  BY DEF ChunkInv
<1>5. SearchInv'
  BY DEF SearchInv, TypeOK, Pages, LockInv, Critical
<1>6. AtChunkInv'
  BY DEF AtChunkInv, ChunkOK, TypeOK, Pages, LockInv, Critical, HeldInv, AtChunk
<1>7. BitsInv'
  BY DEF BitsInv, WellFormed, Rewriting, TypeOK
<1>8. QED
  BY <1>1, <1>2, <1>3, <1>4, <1>5, <1>6, <1>7

(* page_free refusing a page keeps it. *)
LEMMA FreeRefuseIInv ==
  ASSUME IInv, NEW h \in Harts, FreeRefuse(h)
  PROVE  IInv'
<1> USE Sizes DEF IInv, Goto, FreeRefuse, Return, PagesOf
<1>1. TypeOK'
  BY DEF TypeOK, Pages, Bits, Labels
<1>2. LockInv'
  BY DEF LockInv, Critical, TypeOK, Labels
<1>3. HeldInv'
  BY DEF HeldInv, AtChunk, TypeOK, Labels
<1>4. ChunkInv'
  BY DEF ChunkInv
<1>5. SearchInv'
  BY DEF SearchInv, TypeOK, Pages, LockInv, Critical
<1>6. AtChunkInv'
  BY DEF AtChunkInv, ChunkOK, TypeOK, Pages, LockInv, Critical, HeldInv, AtChunk
<1>7. BitsInv'
  BY DEF BitsInv, WellFormed, Rewriting, TypeOK
<1>8. QED
  BY <1>1, <1>2, <1>3, <1>4, <1>5, <1>6, <1>7

(* page_free accepting a page keeps it: the page is the first of its       *)
(* chunk.                                                                  *)
LEMMA FreeAcceptIInv ==
  ASSUME IInv, NEW h \in Harts, FreeAccept(h)
  PROVE  IInv'
<1> USE Sizes DEF Goto, FreeAccept, PagesOf
<1>0. PICK c \in chunks :
           /\ held[h] = {c}
           /\ c \in Chunk
           /\ c.first \in Int /\ c.last \in Int /\ c.first \in Pages /\ c.last \in Pages
           /\ NumBkPages <= c.first /\ c.first <= c.last /\ c.last < NumPages
           /\ ChunkOK(h, c)
           /\ pc[h] \notin Rewriting => WellFormed(c)
  BY HeldChunk DEF AtChunk, FreeAccept
<1>h. /\ pc \in [Harts -> Labels] /\ i \in [Harts -> 0 .. NumPages]
      /\ start_indx \in [Harts -> -1 .. (NumPages - 1)]
      /\ end_indx \in [Harts -> -1 .. (NumPages - 1)]
      /\ held \in [Harts -> SUBSET Chunk] /\ bk \in [Pages -> Bits]
  BY DEF IInv, TypeOK
<1>1. TypeOK'
  BY <1>0, <1>h DEF IInv, TypeOK, Bits, Labels, ChunkOK, BkSet, Pages
<1>2. LockInv'
  BY DEF IInv, LockInv, Critical, TypeOK, Labels
<1>3. HeldInv'
  BY DEF IInv, HeldInv, AtChunk, TypeOK, Labels
<1>4. ChunkInv'
  BY DEF IInv, ChunkInv
<1>5. SearchInv'
  BY DEF IInv, SearchInv, TypeOK, Pages, LockInv, Critical
<1>6. AtChunkInv'
  <2> SUFFICES ASSUME NEW g \in Harts, NEW d \in held'[g]
               PROVE  ChunkOK(g, d)'
    BY DEF AtChunkInv
  <2>1. CASE g = h
    BY <1>0, <1>h, <2>1, CheckIsAccurate DEF ChunkOK, Rewriting, WellFormed, Bits, BkSet
  <2>2. CASE g # h
    BY <2>2 DEF IInv, AtChunkInv, ChunkOK, LockInv, Critical, TypeOK
  <2>3. QED
    BY <2>1, <2>2
<1>7. BitsInv'
  BY DEF IInv, BitsInv, WellFormed, Rewriting, TypeOK
<1>8. QED
  BY <1>1, <1>2, <1>3, <1>4, <1>5, <1>6, <1>7 DEF IInv

(* One step of page_free's unlocked scan keeps it: the scan does not leave *)
(* the chunk.                                                              *)
LEMMA FreeScanIInv ==
  ASSUME IInv, NEW h \in Harts, FreeScan(h)
  PROVE  IInv'
<1> USE Sizes DEF Goto, FreeScan, PagesOf
<1>0. PICK c \in chunks :
           /\ held[h] = {c}
           /\ c \in Chunk
           /\ c.first \in Int /\ c.last \in Int /\ c.first \in Pages /\ c.last \in Pages
           /\ NumBkPages <= c.first /\ c.first <= c.last /\ c.last < NumPages
           /\ ChunkOK(h, c)
           /\ pc[h] \notin Rewriting => WellFormed(c)
  BY HeldChunk DEF AtChunk, FreeScan
<1>h. /\ pc \in [Harts -> Labels] /\ i \in [Harts -> 0 .. NumPages]
      /\ start_indx \in [Harts -> -1 .. (NumPages - 1)]
      /\ end_indx \in [Harts -> -1 .. (NumPages - 1)]
      /\ held \in [Harts -> SUBSET Chunk] /\ bk \in [Pages -> Bits]
  BY DEF IInv, TypeOK
<1>1. TypeOK'
  BY <1>0, <1>h DEF IInv, TypeOK, Bits, Labels, ChunkOK, BkSet, Pages
<1>2. LockInv'
  BY DEF IInv, LockInv, Critical, TypeOK, Labels
<1>3. HeldInv'
  BY DEF IInv, HeldInv, AtChunk, TypeOK, Labels
<1>4. ChunkInv'
  BY DEF IInv, ChunkInv
<1>5. SearchInv'
  BY DEF IInv, SearchInv, TypeOK, Pages, LockInv, Critical
<1>6. AtChunkInv'
  <2> SUFFICES ASSUME NEW g \in Harts, NEW d \in held'[g]
               PROVE  ChunkOK(g, d)'
    BY DEF AtChunkInv
  <2>1. CASE g = h
    BY <1>0, <1>h, <2>1 DEF ChunkOK, Rewriting, WellFormed, Bits, BkSet
  <2>2. CASE g # h
    BY <2>2 DEF IInv, AtChunkInv, ChunkOK, LockInv, Critical, TypeOK
  <2>3. QED
    BY <2>1, <2>2
<1>7. BitsInv'
  BY DEF IInv, BitsInv, WellFormed, Rewriting, TypeOK
<1>8. QED
  BY <1>1, <1>2, <1>3, <1>4, <1>5, <1>6, <1>7 DEF IInv

(* The end of the scan keeps it: the page found is the last of the chunk. *)
LEMMA FreeScanEndIInv ==
  ASSUME IInv, NEW h \in Harts, FreeScanEnd(h)
  PROVE  IInv'
<1> USE Sizes DEF Goto, FreeScanEnd, PagesOf
<1>0. PICK c \in chunks :
           /\ held[h] = {c}
           /\ c \in Chunk
           /\ c.first \in Int /\ c.last \in Int /\ c.first \in Pages /\ c.last \in Pages
           /\ NumBkPages <= c.first /\ c.first <= c.last /\ c.last < NumPages
           /\ ChunkOK(h, c)
           /\ pc[h] \notin Rewriting => WellFormed(c)
  BY HeldChunk DEF AtChunk, FreeScanEnd
<1>h. /\ pc \in [Harts -> Labels] /\ i \in [Harts -> 0 .. NumPages]
      /\ start_indx \in [Harts -> -1 .. (NumPages - 1)]
      /\ end_indx \in [Harts -> -1 .. (NumPages - 1)]
      /\ held \in [Harts -> SUBSET Chunk] /\ bk \in [Pages -> Bits]
  BY DEF IInv, TypeOK
<1>1. TypeOK'
  BY <1>0, <1>h DEF IInv, TypeOK, Bits, Labels, ChunkOK, BkSet, Pages
<1>2. LockInv'
  BY DEF IInv, LockInv, Critical, TypeOK, Labels
<1>3. HeldInv'
  BY DEF IInv, HeldInv, AtChunk, TypeOK, Labels
<1>4. ChunkInv'
  BY DEF IInv, ChunkInv
<1>5. SearchInv'
  BY DEF IInv, SearchInv, TypeOK, Pages, LockInv, Critical
<1>6. AtChunkInv'
  <2> SUFFICES ASSUME NEW g \in Harts, NEW d \in held'[g]
               PROVE  ChunkOK(g, d)'
    BY DEF AtChunkInv
  <2>1. CASE g = h
    BY <1>0, <1>h, <2>1 DEF ChunkOK, Rewriting, WellFormed, Bits, BkSet
  <2>2. CASE g # h
    BY <2>2 DEF IInv, AtChunkInv, ChunkOK, LockInv, Critical, TypeOK
  <2>3. QED
    BY <2>1, <2>2
<1>7. BitsInv'
  BY DEF IInv, BitsInv, WellFormed, Rewriting, TypeOK
<1>8. QED
  BY <1>1, <1>2, <1>3, <1>4, <1>5, <1>6, <1>7 DEF IInv

(* page_free taking page_lock keeps it. *)
LEMMA FreeLockIInv ==
  ASSUME IInv, NEW h \in Harts, FreeLock(h)
  PROVE  IInv'
<1> USE Sizes DEF Goto, FreeLock, MutexSpinlock, PagesOf
<1>0. PICK c \in chunks :
           /\ held[h] = {c}
           /\ c \in Chunk
           /\ c.first \in Int /\ c.last \in Int /\ c.first \in Pages /\ c.last \in Pages
           /\ NumBkPages <= c.first /\ c.first <= c.last /\ c.last < NumPages
           /\ ChunkOK(h, c)
           /\ pc[h] \notin Rewriting => WellFormed(c)
  BY HeldChunk DEF AtChunk, FreeLock
<1>h. /\ pc \in [Harts -> Labels] /\ i \in [Harts -> 0 .. NumPages]
      /\ start_indx \in [Harts -> -1 .. (NumPages - 1)]
      /\ end_indx \in [Harts -> -1 .. (NumPages - 1)]
      /\ held \in [Harts -> SUBSET Chunk] /\ bk \in [Pages -> Bits]
  BY DEF IInv, TypeOK
<1>1. TypeOK'
  BY <1>0, <1>h DEF IInv, TypeOK, Bits, Labels, ChunkOK, BkSet, Pages
<1>2. LockInv'
  BY DEF IInv, LockInv, Critical, TypeOK, Labels
<1>3. HeldInv'
  BY DEF IInv, HeldInv, AtChunk, TypeOK, Labels
<1>4. ChunkInv'
  BY DEF IInv, ChunkInv
<1>5. SearchInv'
  BY DEF IInv, SearchInv, TypeOK, Pages, LockInv, Critical
<1>6. AtChunkInv'
  <2> SUFFICES ASSUME NEW g \in Harts, NEW d \in held'[g]
               PROVE  ChunkOK(g, d)'
    BY DEF AtChunkInv
  <2>1. CASE g = h
    BY <1>0, <1>h, <2>1 DEF ChunkOK, Rewriting, WellFormed, Bits, BkSet
  <2>2. CASE g # h
    BY <2>2 DEF IInv, AtChunkInv, ChunkOK, LockInv, Critical, TypeOK
  <2>3. QED
    BY <2>1, <2>2
<1>7. BitsInv'
  BY DEF IInv, BitsInv, WellFormed, Rewriting, TypeOK
<1>8. QED
  BY <1>1, <1>2, <1>3, <1>4, <1>5, <1>6, <1>7 DEF IInv

(* One bk_clear of page_free keeps it. *)
LEMMA ClearBitsIInv ==
  ASSUME IInv, NEW h \in Harts, ClearBits(h)
  PROVE  IInv'
<1> USE Sizes DEF Goto, ClearBits, BkClear, PagesOf
<1>0. PICK c \in chunks :
           /\ held[h] = {c}
           /\ c \in Chunk
           /\ c.first \in Int /\ c.last \in Int /\ c.first \in Pages /\ c.last \in Pages
           /\ NumBkPages <= c.first /\ c.first <= c.last /\ c.last < NumPages
           /\ ChunkOK(h, c)
           /\ pc[h] \notin Rewriting => WellFormed(c)
  BY HeldChunk DEF AtChunk, ClearBits
<1>h. /\ pc \in [Harts -> Labels] /\ i \in [Harts -> 0 .. NumPages]
      /\ start_indx \in [Harts -> -1 .. (NumPages - 1)]
      /\ end_indx \in [Harts -> -1 .. (NumPages - 1)]
      /\ held \in [Harts -> SUBSET Chunk] /\ bk \in [Pages -> Bits]
  BY DEF IInv, TypeOK
<1>b. /\ i[h] \in Int /\ i[h] \in Pages /\ i[h] \in c.first .. c.last
      /\ end_indx[h] = c.last
      /\ bk' = [bk EXCEPT ![i[h]] = 0]
      /\ \A p \in Pages : bk'[p] = IF p = i[h] THEN (0) ELSE bk[p]
      /\ chunks' = chunks /\ held' = held
      /\ \A g \in Harts : g # h => pc'[g] = pc[g]
      /\ pc'[h] = IF i[h] = c.last THEN "unlock_free" ELSE "clear"
  BY <1>0, <1>h DEF ChunkOK, BkSet, Pages
<1>1. TypeOK'
  BY <1>0, <1>h, <1>b DEF IInv, TypeOK, Bits, Labels, Pages
<1>2. LockInv'
  BY DEF IInv, LockInv, Critical, TypeOK, Labels
<1>3. HeldInv'
  BY DEF IInv, HeldInv, AtChunk, TypeOK, Labels
<1>4. ChunkInv'
  BY DEF IInv, ChunkInv
<1>5. SearchInv'
  BY DEF IInv, SearchInv, TypeOK, Pages, LockInv, Critical
<1>6. AtChunkInv'
  <2> SUFFICES ASSUME NEW g \in Harts, NEW d \in held'[g]
               PROVE  ChunkOK(g, d)'
    BY DEF AtChunkInv
  <2>1. CASE g = h
    <3>1. d = c /\ PagesOf(c) \subseteq Pages
      BY <1>0, <1>b, <2>1 DEF Pages
    <3>2. QED
      BY <1>0, <1>h, <1>b, <2>1, <3>1 DEF ChunkOK
  <2>2. CASE g # h
    BY <2>2 DEF IInv, AtChunkInv, ChunkOK, LockInv, Critical, TypeOK
  <2>3. QED
    BY <2>1, <2>2
<1>7. BitsInv'
  <2>1. \A p \in Pages : p < NumBkPages => bk'[p] = 3
    BY <1>0, <1>b DEF IInv, BitsInv
  <2>2. ASSUME NEW d \in chunks,
               \A g \in Harts : pc'[g] \in Rewriting => d \notin held[g]
        PROVE  WellFormed(d)'
    <3>1. CASE d = c
      BY <1>0, <1>b, <2>2, <3>1 DEF ChunkOK, WellFormed, Rewriting, Pages
    <3>2. CASE d # c
      <4>1. \A g \in Harts : pc[g] \in Rewriting => d \notin held[g]
        BY <1>0, <1>b, <2>2, <3>2
      <4>2. WellFormed(d)
        BY <4>1 DEF IInv, BitsInv
      <4>3. d.first \in Int /\ d.last \in Int /\ d.first \in Pages /\ d.last \in Pages
        BY DEF IInv, TypeOK, Chunk, Pages
      <4>4. \A p \in d.first .. d.last : p \in Pages /\ p # i[h]
        BY <1>0, <1>b, <3>2, <4>3 DEF IInv, ChunkInv, Apart, Pages
      <4>5. QED
        BY <1>b, <4>2, <4>4 DEF WellFormed
    <3>3. QED
      BY <3>1, <3>2
  <2>3. ASSUME NEW p \in Pages, bk'[p] = 2
        PROVE  \E d \in chunks : d.first <= p /\ p < d.last
    BY <1>0, <1>b, <2>3 DEF IInv, BitsInv
  <2>4. ASSUME NEW p \in Pages, bk'[p] = 3, p >= NumBkPages
        PROVE  \E d \in chunks : p = d.last
    BY <1>0, <1>b, <2>4 DEF IInv, BitsInv
  <2>5. QED
    BY <1>b, <2>1, <2>2, <2>3, <2>4 DEF BitsInv
<1>8. QED
  BY <1>1, <1>2, <1>3, <1>4, <1>5, <1>6, <1>7 DEF IInv

(* page_free unlocking and returning keeps it: the bits of the chunk are   *)
(* all clear.                                                              *)
LEMMA FreeReturnIInv ==
  ASSUME IInv, NEW h \in Harts, FreeReturn(h)
  PROVE  IInv'
<1> USE Sizes DEF IInv, Goto, FreeReturn, MutexUnlock, Return, PagesOf
<1>1. TypeOK'
  <2>1. held' \in [Harts -> SUBSET Chunk] /\ chunks' \subseteq Chunk
    BY DEF TypeOK
  <2>2. QED
    BY <2>1 DEF TypeOK, Pages, Bits, Labels
<1>2. LockInv'
  BY DEF LockInv, Critical, TypeOK, Labels
<1>3. HeldInv'
  BY DEF HeldInv, AtChunk, TypeOK, Labels
<1>4. ChunkInv'
  BY DEF ChunkInv
<1>5. SearchInv'
  BY DEF SearchInv, TypeOK, Pages, LockInv, Critical
<1>6. AtChunkInv'
  BY DEF AtChunkInv, ChunkOK, TypeOK, Pages, LockInv, Critical, HeldInv, AtChunk
<1>7. BitsInv'
  <2>0. PICK c \in chunks :
             /\ held[h] = {c}
             /\ c.first \in Int /\ c.last \in Int
             /\ c.first <= c.last
             /\ ChunkOK(h, c)
    BY HeldChunk DEF AtChunk
  <2>1. chunks' = chunks \ {c} /\ \A p \in c.first .. c.last : bk[p] = 0
    BY <2>0 DEF ChunkOK
  <2>2. ASSUME NEW d \in chunks', \A g \in Harts : pc'[g] \in Rewriting => d \notin held'[g]
        PROVE  WellFormed(d)'
    <3>1. \A g \in Harts : pc[g] \in Rewriting => d \notin held[g]
      BY <2>0, <2>1, <2>2 DEF TypeOK
    <3>2. WellFormed(d)
      BY <2>1, <3>1 DEF BitsInv
    <3>3. QED
      BY <3>2 DEF WellFormed
  <2>3. ASSUME NEW p \in Pages, bk[p] = 2
        PROVE  \E d \in chunks' : d.first <= p /\ p < d.last
    <3>1. PICK d \in chunks : d.first <= p /\ p < d.last
      BY <2>3 DEF BitsInv
    <3>2. d # c
      BY <2>0, <2>1, <2>3, <3>1 DEF Pages
    <3>3. QED
      BY <2>1, <3>1, <3>2
  <2>4. ASSUME NEW p \in Pages, bk[p] = 3, p >= NumBkPages
        PROVE  \E d \in chunks' : p = d.last
    <3>1. PICK d \in chunks : p = d.last
      BY <2>4 DEF BitsInv
    <3>2. d # c
      BY <2>0, <2>1, <2>4, <3>1 DEF Pages
    <3>3. QED
      BY <2>1, <3>1, <3>2
  <2>5. QED
    BY <2>2, <2>3, <2>4 DEF BitsInv
<1>8. QED
  BY <1>1, <1>2, <1>3, <1>4, <1>5, <1>6, <1>7

(* Calling page_count_free keeps it. *)
LEMMA CountCallIInv ==
  ASSUME IInv, NEW h \in Harts, CountCall(h)
  PROVE  IInv'
<1> USE Sizes DEF IInv, Goto, CountCall, PagesOf
<1>1. TypeOK'
  BY DEF TypeOK, Pages, Bits, Labels
<1>2. LockInv'
  BY DEF LockInv, Critical, TypeOK, Labels
<1>3. HeldInv'
  BY DEF HeldInv, AtChunk, TypeOK, Labels
<1>4. ChunkInv'
  BY DEF ChunkInv
<1>5. SearchInv'
  BY DEF SearchInv, TypeOK, Pages, LockInv, Critical
<1>6. AtChunkInv'
  BY DEF AtChunkInv, ChunkOK, TypeOK, Pages, LockInv, Critical, HeldInv, AtChunk
<1>7. BitsInv'
  BY DEF BitsInv, WellFormed, Rewriting, TypeOK
<1>8. QED
  BY <1>1, <1>2, <1>3, <1>4, <1>5, <1>6, <1>7

(* page_count_free taking page_lock keeps it. *)
LEMMA CountLockIInv ==
  ASSUME IInv, NEW h \in Harts, CountLock(h)
  PROVE  IInv'
<1> USE Sizes DEF IInv, Goto, CountLock, MutexSpinlock, PagesOf
<1>1. TypeOK'
  BY DEF TypeOK, Pages, Bits, Labels
<1>2. LockInv'
  BY DEF LockInv, Critical, TypeOK, Labels
<1>3. HeldInv'
  BY DEF HeldInv, AtChunk, TypeOK, Labels
<1>4. ChunkInv'
  BY DEF ChunkInv
<1>5. SearchInv'
  BY DEF SearchInv, TypeOK, Pages, LockInv, Critical
<1>6. AtChunkInv'
  BY DEF AtChunkInv, ChunkOK, TypeOK, Pages, LockInv, Critical, HeldInv, AtChunk
<1>7. BitsInv'
  BY DEF BitsInv, WellFormed, Rewriting, TypeOK
<1>8. QED
  BY <1>1, <1>2, <1>3, <1>4, <1>5, <1>6, <1>7

(* The count under the lock keeps it. *)
LEMMA CountingIInv ==
  ASSUME IInv, NEW h \in Harts, Counting(h)
  PROVE  IInv'
<1> USE Sizes DEF IInv, Goto, Counting, PagesOf
<1>1. TypeOK'
  BY FreePagesCount DEF TypeOK, Labels
<1>2. LockInv'
  BY DEF LockInv, Critical, TypeOK, Labels
<1>3. HeldInv'
  BY DEF HeldInv, AtChunk, TypeOK, Labels
<1>4. ChunkInv'
  BY DEF ChunkInv
<1>5. SearchInv'
  BY DEF SearchInv, TypeOK, Pages, LockInv, Critical
<1>6. AtChunkInv'
  BY DEF AtChunkInv, ChunkOK, TypeOK, Pages, LockInv, Critical, HeldInv, AtChunk
<1>7. BitsInv'
  BY DEF BitsInv, WellFormed, Rewriting, TypeOK
<1>8. QED
  BY <1>1, <1>2, <1>3, <1>4, <1>5, <1>6, <1>7

(* page_count_free unlocking and returning keeps it. *)
LEMMA CountReturnIInv ==
  ASSUME IInv, NEW h \in Harts, CountReturn(h)
  PROVE  IInv'
<1> USE Sizes DEF IInv, Goto, CountReturn, MutexUnlock, Return, PagesOf
<1>1. TypeOK'
  BY DEF TypeOK, Pages, Bits, Labels
<1>2. LockInv'
  BY DEF LockInv, Critical, TypeOK, Labels
<1>3. HeldInv'
  BY DEF HeldInv, AtChunk, TypeOK, Labels
<1>4. ChunkInv'
  BY DEF ChunkInv
<1>5. SearchInv'
  BY DEF SearchInv, TypeOK, Pages, LockInv, Critical
<1>6. AtChunkInv'
  BY DEF AtChunkInv, ChunkOK, TypeOK, Pages, LockInv, Critical, HeldInv, AtChunk
<1>7. BitsInv'
  BY DEF BitsInv, WellFormed, Rewriting, TypeOK
<1>8. QED
  BY <1>1, <1>2, <1>3, <1>4, <1>5, <1>6, <1>7

(* Every step of every hart, and a step that changes nothing, keeps IInv. *)
LEMMA NextIInv == IInv /\ [Next]_vars => IInv'
<1> SUFFICES ASSUME IInv, [Next]_vars PROVE IInv'
  OBVIOUS
<1>1. ASSUME NEW h \in Harts, Call(h) PROVE IInv'
  BY <1>1, NallocCallIInv, FreeCallIInv, CountCallIInv DEF Call
<1>2. ASSUME NEW h \in Harts, Step(h) PROVE IInv'
  BY <1>2, NallocLockIInv, SearchTakenIInv, SearchFreeIInv, SearchEndIInv, NallocNullIInv, SetBitsIInv, NallocReturnIInv,
     FreeRefuseIInv, FreeAcceptIInv, FreeScanIInv, FreeScanEndIInv, FreeLockIInv, ClearBitsIInv, FreeReturnIInv, CountLockIInv, CountingIInv, CountReturnIInv DEF Step
<1>3. CASE UNCHANGED vars
  BY <1>3 DEF vars, locals, IInv, TypeOK, LockInv, HeldInv, ChunkInv, SearchInv,
              AtChunkInv, ChunkOK, BitsInv, WellFormed, PagesOf, Apart
<1>4. QED
  BY <1>1, <1>2, <1>3 DEF Next

(* Every reachable state of the allocator satisfies the inductive          *)
(* invariant.                                                              *)
THEOREM Invariance == Spec => []IInv
BY InitIInv, NextIInv, PTL DEF Spec

-----------------------------------------------------------------------------
(* The types of the allocator's state and of every hart's locals hold in   *)
(* every reachable state: in particular no step of page_nalloc, page_free  *)
(* or the counting functions reads or writes the bits of a page outside    *)
(* the heap.                                                               *)
THEOREM TypeCorrect == Spec => []TypeOK
BY Invariance, PTL DEF IInv

(* No page is handed out twice and no bookkeeping page is handed out. *)
THEOREM DisjointChunks == Spec => []ChunksDisjoint
<1>1. IInv => ChunksDisjoint
  <2> SUFFICES ASSUME IInv PROVE ChunksDisjoint
    OBVIOUS
  <2>1. ASSUME NEW c \in chunks
        PROVE  c.first \in Int /\ c.last \in Int /\ c.first >= NumBkPages /\ c.first <= c.last
    BY Sizes DEF IInv, TypeOK, ChunkInv, Chunk, Pages
  <2>2. ASSUME NEW c \in chunks, NEW d \in chunks, c # d
        PROVE  PagesOf(c) \cap PagesOf(d) = {}
    BY <2>1, <2>2 DEF IInv, ChunkInv, Apart, PagesOf
  <2>3. QED
    BY <2>1, <2>2 DEF ChunksDisjoint
<1>2. QED
  BY <1>1, Invariance, PTL

(* Whenever the lock is free the bits describe exactly the chunks. *)
THEOREM ExactBits == Spec => []BitsDescribeChunks
<1>1. IInv => BitsDescribeChunks
  <2> SUFFICES ASSUME IInv, page_lock = 0, NEW p \in Pages
               PROVE  bk[p] = IF p < NumBkPages \/ \E c \in chunks : c.last = p THEN 3
                              ELSE IF \E c \in chunks : p \in PagesOf(c) THEN 2 ELSE 0
    BY DEF BitsDescribeChunks
  <2>1. \A h \in Harts : pc[h] \notin Rewriting
    BY DEF IInv, LockInv, Critical, Rewriting
  <2>2. \A c \in chunks : WellFormed(c)
    BY <2>1 DEF IInv, BitsInv
  <2>3. \A c \in chunks : c.first \in Int /\ c.last \in Int /\ c.first <= c.last
    BY DEF IInv, TypeOK, ChunkInv, Chunk, Pages
  <2>4. p \in Int /\ bk[p] \in Bits
    BY Sizes DEF IInv, TypeOK, Pages
  <2>5. CASE p < NumBkPages
    BY <2>5 DEF IInv, BitsInv
  <2>6. CASE \E c \in chunks : c.last = p
    BY <2>2, <2>3, <2>6 DEF WellFormed, PagesOf
  <2>7. CASE ~(p < NumBkPages) /\ ~(\E c \in chunks : c.last = p)
    <3>1. bk[p] # 3
      BY <2>4, <2>7, Sizes DEF IInv, BitsInv
    <3>2. CASE \E c \in chunks : p \in PagesOf(c)
      BY <2>2, <2>7, <3>2 DEF WellFormed
    <3>3. CASE ~\E c \in chunks : p \in PagesOf(c)
      <4>1. bk[p] # 2
        BY <2>3, <2>4, <3>3 DEF IInv, BitsInv, PagesOf
      <4>2. QED
        BY <2>4, <2>7, <3>1, <3>3, <4>1 DEF Bits
    <3>4. QED
      BY <3>2, <3>3
  <2>8. QED
    BY <2>5, <2>6, <2>7
<1>2. QED
  BY <1>1, Invariance, PTL

(* page_free's unlocked check and scan are right, and stay right until it  *)
(* has the lock: it clears one whole chunk and nothing else.               *)
THEOREM ExactFree == Spec => []FreeIsExact
<1>1. IInv => FreeIsExact
  <2> SUFFICES ASSUME IInv, NEW h \in Harts, NEW c \in held[h]
               PROVE  /\ pc[h] = "check" => (bk[start_indx[h] - 1] = 2 <=> start_indx[h] # c.first)
                      /\ pc[h] \in {"scan", "free", "clear"} => start_indx[h] = c.first
                      /\ pc[h] \in {"free", "clear"} => end_indx[h] = c.last
    BY DEF FreeIsExact
  <2>1. ChunkOK(h, c)
    BY DEF IInv, AtChunkInv
  <2>2. QED
    BY <2>1, CheckIsAccurate DEF ChunkOK
<1>2. QED
  BY <1>1, Invariance, PTL

-----------------------------------------------------------------------------
(* The allocator implements RunAllocator.  A run is given in the step of  *)
(* page_nalloc's search that finds its last page and taken back in the     *)
(* step in which page_free unlocks; every other step changes no run.       *)
Runs == {<<c.first, c.last>> : c \in chunks}

(* When the search of page_nalloc finds its chunk, the abstract allocator  *)
(* gives a run that overlaps no other.                                     *)
LEMMA GiveStep ==
  ASSUME IInv, NEW h \in Harts, SearchFree(h)
  PROVE  Abstract!Next \/ Runs' = Runs
<1> DEFINE first == IF start_indx[h] = -1 THEN i[h] ELSE start_indx[h]
           found == pages_free[h] + 1 = n[h]
           new   == [first |-> first, last |-> i[h], asked |-> n[h]]
<1>1. CASE ~found
  BY <1>1 DEF SearchFree, Runs
<1>2. CASE found
  <2>1. chunks' = chunks \cup {new} /\ new \in chunks' /\ IInv'
    BY <1>2, SearchFreeIInv DEF SearchFree
  <2> HIDE DEF new
  <2>2. \A d \in chunks : d # new => Apart(d, new)
    BY <2>1 DEF IInv, ChunkInv, Apart
  <2>3. /\ new.first \in Int /\ new.last \in Int /\ NumBkPages <= new.first
        /\ new.first <= new.last /\ new.last <= NumPages - 1
    BY <2>1, Sizes DEF IInv, TypeOK, ChunkInv, Chunk, Pages
  <2>4. \A d \in chunks : d.first \in Int /\ d.last \in Int /\ d.first <= d.last
    BY DEF IInv, TypeOK, ChunkInv, Chunk, Pages
  <2> DEFINE r == <<new.first, new.last>>
  <2>5. CASE new \in chunks
    BY <2>1, <2>5 DEF Runs
  <2>6. CASE new \notin chunks
    <3>0. r \in Abstract!Run
      BY <2>3, Sizes DEF Abstract!Run
    <3>1. PICK q \in Abstract!Run : q = r
      BY <3>0
    <3>2. Runs' = Runs \cup {q}
      BY <2>1, <3>1 DEF Runs
    <3>3. \A t \in Runs : ~Abstract!Overlap(q, t)
      BY <2>2, <2>3, <2>4, <2>6, <3>1 DEF Runs, Abstract!Overlap, Apart
    <3>4. Abstract!Give(q)
      BY <3>2, <3>3 DEF Abstract!Give, Runs
    <3>5. QED
      BY <3>4 DEF Abstract!Next
  <2>7. QED
    BY <2>5, <2>6
<1>3. QED
  BY <1>1, <1>2

(* When page_free returns, the abstract allocator takes one run back. *)
LEMMA TakeBackStep ==
  ASSUME IInv, NEW h \in Harts, FreeReturn(h)
  PROVE  Abstract!Next
<1>1. PICK c \in chunks :
        /\ held[h] = {c}
        /\ c.first \in Int /\ c.last \in Int
        /\ NumBkPages <= c.first /\ c.first <= c.last /\ c.last < NumPages
  BY HeldChunk DEF AtChunk, FreeReturn
<1> DEFINE r == <<c.first, c.last>>
<1>2. chunks' = chunks \ {c}
  BY <1>1 DEF FreeReturn
<1>3. \A d \in chunks : d.first \in Int /\ d.last \in Int /\ d.first <= d.last
  BY DEF IInv, TypeOK, ChunkInv, Chunk, Pages
<1>4. \A d \in chunks : d # c => <<d.first, d.last>> # r
  BY <1>1, <1>3 DEF IInv, ChunkInv, Apart
<1>5. Runs' = Runs \ {r} /\ r \in Runs
  BY <1>2, <1>4 DEF Runs
<1>6. r \in Abstract!Run
  BY <1>1, Sizes DEF Abstract!Run
<1>7. Abstract!TakeBack(r)
  BY <1>5 DEF Abstract!TakeBack, Runs
<1>8. QED
  BY <1>6, <1>7 DEF Abstract!Next

(* The allocator implements RunAllocator: what page_nalloc hands out and    *)
(* page_free takes back are runs of pages no two of which overlap.         *)
THEOREM Refinement == Spec => RefinesRunAllocator
<1>1. Init => Abstract!Init
  BY DEF Init, Abstract!Init
<1>2. IInv /\ [Next]_vars => Abstract!Next \/ Runs' = Runs
  <2> SUFFICES ASSUME IInv, [Next]_vars PROVE Abstract!Next \/ Runs' = Runs
    OBVIOUS
  <2>1. CASE chunks' = chunks
    BY <2>1 DEF Runs
  <2>2. CASE \E h \in Harts : SearchFree(h)
    BY <2>2, GiveStep
  <2>3. CASE \E h \in Harts : FreeReturn(h)
    BY <2>3, TakeBackStep
  <2>4. QED
    BY <2>1, <2>2, <2>3
       DEF Next, Call, Step, vars, NallocCall, FreeCall, CountCall, NallocLock, SearchTaken,
           SearchEnd, NallocNull, SetBits, NallocReturn, FreeRefuse, FreeAccept, FreeScan,
           FreeScanEnd, FreeLock, ClearBits, CountLock, Counting, CountReturn
<1>3. IInv /\ [Next]_vars => [Abstract!Next]_Runs
  BY <1>2
<1>4. QED
  BY <1>1, <1>3, Invariance, PTL DEF Spec, RefinesRunAllocator, Abstract!Spec, Runs

-----------------------------------------------------------------------------
(* What the page allocator counts.  CountInv relates a hart's count to the *)
(* cardinality of a set of pages while the hart has the lock.              *)

(* The free pages that a search up to page k has met. *)
FreeBelow(k) == {p \in Pages : p < k /\ bk[p] < 2}

(* What the count of hart h is while it has the lock: the free pages it    *)
(* has passed during the search, and all of them at the end of a count.    *)
CountOK(h) ==
  /\ pc[h] = "search" => pages_free[h] = Cardinality(FreeBelow(i[h]))
  /\ pc[h] = "null" => Cardinality(FreePages) < n[h]
  /\ pc[h] = "unlock_count" => pages_free[h] = Cardinality(FreePages)

CountInv == \A h \in Harts : CountOK(h)

-----------------------------------------------------------------------------
(* Going one page further adds that page if it is free. *)
LEMMA FreeBelowNext ==
  ASSUME TypeOK, NEW k \in 0 .. (NumPages - 1)
  PROVE  /\ Cardinality(FreeBelow(k)) \in Nat
         /\ Cardinality(FreeBelow(k + 1)) =
              Cardinality(FreeBelow(k)) + (IF bk[k] < 2 THEN 1 ELSE 0)
<1>1. IsFiniteSet(Pages)
  BY Sizes, FS_Interval DEF Pages
<1>2. IsFiniteSet(FreeBelow(k)) /\ k \notin FreeBelow(k)
  BY <1>1, FS_Subset, Sizes DEF FreeBelow
<1>3. CASE bk[k] < 2
  <2>1. FreeBelow(k + 1) = FreeBelow(k) \cup {k}
    BY <1>3, Sizes DEF FreeBelow, Pages
  <2>2. Cardinality(FreeBelow(k) \cup {k}) = Cardinality(FreeBelow(k)) + 1
    BY <1>2, FS_AddElement
  <2>3. QED
    BY <1>2, <1>3, <2>1, <2>2, FS_CardinalityType
<1>4. CASE ~(bk[k] < 2)
  <2>1. FreeBelow(k + 1) = FreeBelow(k)
    BY <1>4, Sizes DEF FreeBelow, Pages
  <2>2. QED
    BY <1>2, <1>4, <2>1, FS_CardinalityType
<1>5. QED
  BY <1>3, <1>4

(* The search starts having met no page and ends having met them all. *)
LEMMA FreeBelowEnds ==
  /\ Cardinality(FreeBelow(0)) = 0
  /\ \A k \in Nat : k >= NumPages => FreeBelow(k) = FreePages
<1>1. FreeBelow(0) = {}
  BY Sizes DEF FreeBelow, Pages
<1>2. QED
  BY <1>1, FS_EmptySet, Sizes DEF FreeBelow, FreePages, Pages

(* A step of one hart leaves the locals of the others alone, and the bits  *)
(* too unless it is setting or clearing them.                              *)
LEMMA StepIsLocal ==
  ASSUME TypeOK, NEW h \in Harts, Call(h) \/ Step(h)
  PROVE  /\ \A g \in Harts : g # h => /\ pc'[g] = pc[g]
                                      /\ i'[g] = i[g]
                                      /\ n'[g] = n[g]
                                      /\ pages_free'[g] = pages_free[g]
         /\ pc[h] \notin {"set", "clear"} => bk' = bk
<1> USE DEF TypeOK, Goto, Return
<1>1. CASE Call(h)
  BY <1>1 DEF Call, NallocCall, FreeCall, CountCall
<1>2. CASE \/ NallocLock(h) \/ SearchTaken(h) \/ SearchFree(h) \/ SearchEnd(h)
           \/ NallocNull(h) \/ SetBits(h) \/ NallocReturn(h)
  BY <1>2 DEF NallocLock, SearchTaken, SearchFree, SearchEnd, NallocNull, SetBits, NallocReturn
<1>3. CASE \/ FreeRefuse(h) \/ FreeAccept(h) \/ FreeScan(h) \/ FreeScanEnd(h)
           \/ FreeLock(h) \/ ClearBits(h) \/ FreeReturn(h)
  BY <1>3 DEF FreeRefuse, FreeAccept, FreeScan, FreeScanEnd, FreeLock, ClearBits, FreeReturn
<1>4. CASE CountLock(h) \/ Counting(h) \/ CountReturn(h)
  BY <1>4 DEF CountLock, Counting, CountReturn
<1>5. QED
  BY <1>1, <1>2, <1>3, <1>4 DEF Step

(* What the other harts have counted stays right: they have the lock, so   *)
(* this hart is not writing bits.                                          *)
LEMMA OthersCount ==
  ASSUME IInv, CountInv, NEW h \in Harts, Call(h) \/ Step(h), NEW g \in Harts, g # h
  PROVE  CountOK(g)'
<1>1. CASE pc[g] \in {"search", "null", "unlock_count"}
  <2>1. pc[h] \notin {"set", "clear"}
    BY <1>1 DEF IInv, LockInv, Critical
  <2>2. /\ bk' = bk /\ pc'[g] = pc[g] /\ i'[g] = i[g] /\ n'[g] = n[g]
        /\ pages_free'[g] = pages_free[g]
    BY <2>1, StepIsLocal DEF IInv
  <2>3. QED
    BY <2>2 DEF CountInv, CountOK, FreeBelow, FreePages
<1>2. CASE pc[g] \notin {"search", "null", "unlock_count"}
  BY <1>2, StepIsLocal DEF CountOK, IInv
<1>3. QED
  BY <1>1, <1>2

(* Taking the lock starts the search at the first page. *)
LEMMA NallocLockCount ==
  ASSUME IInv, NEW h \in Harts, NallocLock(h)
  PROVE  CountOK(h)'
<1>1. /\ pc'[h] = "search" /\ i'[h] = 0 /\ pages_free'[h] = 0 /\ bk' = bk
  BY DEF NallocLock, Goto, IInv, TypeOK, SearchInv
<1>2. QED
  BY <1>1, FreeBelowEnds DEF CountOK, FreeBelow

(* Passing a taken page keeps the count. *)
LEMMA SearchTakenCount ==
  ASSUME IInv, CountInv, NEW h \in Harts, SearchTaken(h)
  PROVE  CountOK(h)'
<1>1. /\ pc[h] = "search" /\ i[h] \in 0 .. (NumPages - 1) /\ bk[i[h]] \in {2, 3}
      /\ pc'[h] = "search" /\ i'[h] = i[h] + 1 /\ pages_free'[h] = pages_free[h] /\ bk' = bk
  BY Sizes DEF SearchTaken, IInv, TypeOK, Bits, Pages
<1>2. pages_free[h] = Cardinality(FreeBelow(i[h] + 1))
  BY <1>1, FreeBelowNext DEF IInv, CountInv, CountOK
<1>3. QED
  BY <1>1, <1>2 DEF CountOK, FreeBelow

(* Meeting a free page that is not the last one needed counts it. *)
LEMMA SearchFreeCount ==
  ASSUME IInv, CountInv, NEW h \in Harts, SearchFree(h)
  PROVE  CountOK(h)'
<1>1. CASE pages_free[h] + 1 = n[h]
  <2>1. pc'[h] = "set"
    BY <1>1 DEF SearchFree, Goto, IInv, TypeOK
  <2>2. QED
    BY <2>1 DEF CountOK
<1>2. CASE pages_free[h] + 1 # n[h]
  <2>1. /\ pc[h] = "search" /\ i[h] \in 0 .. (NumPages - 1) /\ bk[i[h]] < 2
        /\ pc'[h] = "search" /\ i'[h] = i[h] + 1 /\ pages_free'[h] = pages_free[h] + 1
        /\ bk' = bk
    BY <1>2, Sizes DEF SearchFree, Goto, IInv, TypeOK
  <2>2. pages_free[h] + 1 = Cardinality(FreeBelow(i[h] + 1))
    BY <2>1, FreeBelowNext DEF IInv, CountInv, CountOK
  <2>3. QED
    BY <2>1, <2>2 DEF CountOK, FreeBelow
<1>3. QED
  BY <1>1, <1>2

(* A search that ends without a chunk has counted every free page and has  *)
(* fewer than n.                                                           *)
LEMMA SearchEndCount ==
  ASSUME IInv, CountInv, NEW h \in Harts, SearchEnd(h)
  PROVE  CountOK(h)'
<1>1. /\ pc[h] = "search" /\ i[h] \in Nat /\ i[h] >= NumPages /\ pages_free[h] < n[h]
      /\ pc'[h] = "null" /\ n'[h] = n[h] /\ bk' = bk
  BY Sizes DEF SearchEnd, Goto, IInv, TypeOK, SearchInv
<1>2. Cardinality(FreePages) < n[h]
  BY <1>1, FreeBelowEnds DEF CountInv, CountOK
<1>3. QED
  BY <1>1, <1>2 DEF CountOK, FreePages

(* The loop of the counting functions counts the free pages. *)
LEMMA CountingCount ==
  ASSUME IInv, NEW h \in Harts, Counting(h)
  PROVE  CountOK(h)'
<1>1. /\ pc'[h] = "unlock_count" /\ pages_free'[h] = Cardinality(FreePages) /\ bk' = bk
  BY DEF Counting, Goto, IInv, TypeOK
<1>2. QED
  BY <1>1 DEF CountOK, FreePages

(* Every other step of a hart leaves it where it has counted nothing. *)
LEMMA OtherStepsCount ==
  ASSUME IInv, NEW h \in Harts,
         \/ Call(h) \/ NallocNull(h) \/ SetBits(h) \/ NallocReturn(h)
         \/ FreeRefuse(h) \/ FreeAccept(h) \/ FreeScan(h) \/ FreeScanEnd(h)
         \/ FreeLock(h) \/ ClearBits(h) \/ FreeReturn(h) \/ CountLock(h) \/ CountReturn(h)
  PROVE  CountOK(h)'
<1>1. pc'[h] \notin {"search", "null", "unlock_count"}
  BY DEF Call, NallocCall, FreeCall, CountCall, NallocNull, SetBits, NallocReturn, FreeRefuse,
         FreeAccept, FreeScan, FreeScanEnd, FreeLock, ClearBits, FreeReturn, CountLock,
         CountReturn, Goto, Return, IInv, TypeOK
<1>2. QED
  BY <1>1 DEF CountOK

(* Every step keeps what is known of the counts. *)
LEMMA NextCountInv == IInv /\ CountInv /\ [Next]_vars => CountInv'
<1> SUFFICES ASSUME IInv, CountInv, [Next]_vars PROVE CountInv'
  OBVIOUS
<1>1. CASE UNCHANGED vars
  BY <1>1 DEF vars, locals, CountInv, CountOK, FreeBelow, FreePages
<1>2. ASSUME NEW h \in Harts, Call(h) \/ Step(h) PROVE CountInv'
  <2>1. CountOK(h)'
    BY <1>2, NallocLockCount, SearchTakenCount, SearchFreeCount, SearchEndCount, CountingCount,
       OtherStepsCount DEF Step
  <2>2. \A g \in Harts : g # h => CountOK(g)'
    BY <1>2, OthersCount
  <2>3. QED
    BY <2>1, <2>2 DEF CountInv
<1>3. QED
  BY <1>1, <1>2 DEF Next

(* The counts are right in every state the allocator reaches. *)
THEOREM CountInvariance == Spec => [](IInv /\ CountInv)
<1>1. Init => CountInv
  BY DEF Init, CountInv, CountOK
<1>2. QED
  BY <1>1, InitIInv, NextIInv, NextCountInv, PTL DEF Spec

(* page_nalloc answers NULL only when fewer than the n pages it was asked  *)
(* for are free in the whole heap, whatever the other harts are doing.     *)
THEOREM NullIsExhausted == Spec => []NullMeansExhausted
<1>1. CountInv => NullMeansExhausted
  BY DEF CountInv, CountOK, NullMeansExhausted
<1>2. QED
  BY <1>1, CountInvariance, PTL

(* page_count_free and page_count_taken count the pages outside and inside *)
(* the chunks and the bookkeeping, exactly.                                *)
THEOREM CountExact == Spec => []CountIsExact
<1>1. IInv /\ CountInv => CountIsExact
  <2> SUFFICES ASSUME IInv, CountInv, NEW h \in Harts, pc[h] = "unlock_count"
               PROVE  /\ pages_free[h] = Cardinality({p \in NumBkPages .. (NumPages - 1) :
                                                  \A c \in chunks : p \notin PagesOf(c)})
                      /\ TakenPages = 0 .. (NumBkPages - 1) \cup UNION {PagesOf(c) : c \in chunks}
    BY DEF CountIsExact
  <2>1. \A c \in chunks : WellFormed(c)
    BY DEF IInv, LockInv, Critical, Rewriting, BitsInv
  <2>2. \A c \in chunks : /\ c.first \in Int /\ c.last \in Int /\ c.first <= c.last
                          /\ NumBkPages <= c.first /\ c.last < NumPages
    BY Sizes DEF IInv, TypeOK, ChunkInv, Chunk, Pages
  <2>3. ASSUME NEW p \in Pages
        PROVE  bk[p] >= 2 <=> p < NumBkPages \/ \E c \in chunks : p \in PagesOf(c)
    <3>1. bk[p] \in {0, 2, 3} /\ p \in Int
      BY Sizes DEF IInv, TypeOK, Bits, Pages
    <3>2. ASSUME bk[p] = 2 PROVE \E c \in chunks : p \in PagesOf(c)
      BY <2>2, <3>1, <3>2 DEF IInv, BitsInv, PagesOf
    <3>3. ASSUME bk[p] = 3, ~(p < NumBkPages) PROVE \E c \in chunks : p \in PagesOf(c)
      BY <2>2, <3>1, <3>3, Sizes DEF IInv, BitsInv, PagesOf
    <3>4. ASSUME p < NumBkPages PROVE bk[p] = 3
      BY <3>4 DEF IInv, BitsInv
    <3>5. ASSUME NEW c \in chunks, p \in PagesOf(c) PROVE bk[p] \in {2, 3}
      BY <2>1, <3>5 DEF WellFormed
    <3>6. QED
      BY <3>1, <3>2, <3>3, <3>4, <3>5
  <2>4. FreePages = {p \in NumBkPages .. (NumPages - 1) : \A c \in chunks : p \notin PagesOf(c)}
    <3>1. \A p \in Pages : bk[p] < 2 <=> ~(bk[p] >= 2)
      BY DEF IInv, TypeOK, Bits
    <3>2. NumBkPages .. (NumPages - 1) = {p \in Pages : ~(p < NumBkPages)}
      BY Sizes DEF Pages
    <3>3. QED
      BY <2>3, <3>1, <3>2 DEF FreePages
  <2>5. TakenPages = 0 .. (NumBkPages - 1) \cup UNION {PagesOf(c) : c \in chunks}
    <3>1. ASSUME NEW c \in chunks, NEW p \in PagesOf(c) PROVE p \in Pages
      BY <2>2, Sizes DEF Pages, PagesOf
    <3>2. 0 .. (NumBkPages - 1) = {p \in Pages : p < NumBkPages}
      BY Sizes DEF Pages
    <3>3. UNION {PagesOf(c) : c \in chunks} = {p \in Pages : \E c \in chunks : p \in PagesOf(c)}
      BY <3>1
    <3>4. QED
      BY <2>3, <3>2, <3>3 DEF TakenPages
  <2>6. QED
    BY <2>4, <2>5 DEF CountInv, CountOK
<1>2. QED
  BY <1>1, CountInvariance, PTL
=============================================================================
