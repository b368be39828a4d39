--------------------------- MODULE AddressSpace ---------------------------
(***************************************************************************)
(* The memory of a process: the page tables of src/src/mmu.c in physical   *)
(* pages, the copies between kernel and user of src/src/uaccess.c, the     *)
(* making and freeing of processes in src/src/process.c, the ELF loader of *)
(* src/src/elf.c and the system calls of src/src/syscall.c that touch      *)
(* user memory.                                                            *)
(*                                                                         *)
(* A page has Radix words.  A word is a byte of data or, in a page table,  *)
(* an entry ppn * 32 + bits; nothing but the walk tells them apart.  Only  *)
(* hart 0 runs the kernel (main invokes the scheduler there and a trap     *)
(* keeps interrupts off), so a call is one step.                           *)
(*                                                                         *)
(* amap is not in the code: it is what the successful calls of mmu_map     *)
(* asked for, and no step reads it except to tell whether the hardware     *)
(* could start a process.                                                  *)
(***************************************************************************)
EXTENDS Integers, SequencesExt, FiniteSetsExt

CONSTANTS
  Radix,      \* words of a page: 512 entries, 4096 bytes
  NumPages,   \* pages of the page allocator's heap
  Users,      \* the user processes
  Segments,   \* the program headers of the ELF file
  Requests,   \* the pages that one malloc asks for
  Buffers,    \* the user addresses that a call may pass
  Sizes,      \* the byte counts that a call may pass
  MaxCalls    \* the bound on system calls and on processes made

(* A virtual page's number has one digit to the base Radix for each level. *)
Slot(k) == k * Radix * Radix
Idx(v, l) == (v \div Radix^l) % Radix

(* Where things are, in pages.  The first gigabyte holds the devices, the  *)
(* second the kernel heap (virtual only), the third RAM.                   *)
KernelHeap == Slot(1)
Text       == Slot(2)                   \* kernel text, with the trampolines
HeapStart  == Text + 1                  \* the page allocator's heap
STACK_TOP  == Slot(3) + Radix - 3
Image      == Slot(Radix - 1)           \* the origin in user/lds/libc.lds
Plic       == Radix * (Radix - 1)
KERNEL_HEAP_PAGES == 5
Frame      == KernelHeap + 2            \* the page of the trap frames
TrapStack  == KernelHeap + 4
Gdev       == KernelHeap
Framebuffer == [first |-> KernelHeap * Radix + 3, size |-> Radix]

NULL  == 0
FaultPage == Slot(Radix)                \* MMU_TRANSLATE_PAGE_FAULT
Pages == HeapStart .. (HeapStart + NumPages - 1)
Owners == Users \cup {"idle", "kernel"}

ASSUME LayoutAssumption ==
  /\ Radix \in Nat /\ Radix > 4
  /\ NumPages \in 10 .. (Radix * Radix - 1)
  /\ MaxCalls \in Nat

VARIABLES
  bk,       \* the page allocator's bits: 0 free, 2 taken, 3 last of a chunk
  mem,      \* the words of each page of the heap
  amap,     \* for each owner of a page table, the mappings asked for
  procs,    \* the processes
  cur,      \* the process on hart 0
  sent,     \* the bytes that the last write or open took from the user
  calls,    \* system calls and processes so far
  halted    \* the kernel has faulted, or waits for ever

vars == <<bk, mem, amap, procs, cur, sent, calls, halted>>

(* The bits of an entry. *)
V == 1
R == 2
W == 4
X == 8
U == 16
Has(e, b) == (e \div b) % 2 = 1
IsValid(e) == Has(e, V)
IsLeaf(e) == Has(e, R) \/ Has(e, W) \/ Has(e, X)
Ppn(e) == e \div 32
Entry(ppn, bits) == 32 * ppn + bits

Peek(M, page, k) == IF page \in Pages THEN M[page][k] ELSE 0
Poke(M, page, k, word) == IF page \in Pages THEN [M EXCEPT ![page][k] = word] ELSE M
ZeroPage == [k \in 0 .. (Radix - 1) |-> 0]

-----------------------------------------------------------------------------
(* src/src/page.c, as the calls below see it.  The count of free pages is  *)
(* not reset at a taken page, so the search stops at the n-th free page.   *)

FreePages(b) == {p \in Pages : b[p] = 0}

NthOf(free, n) == CHOOSE e \in free : Cardinality({p \in free : p <= e}) = n

RunStart(free, end) ==
  CHOOSE s \in HeapStart .. end : /\ \A p \in s .. end : p \in free
                                  /\ s - 1 \notin free

Chunk(b, start, end) ==
  [page |-> start,
   bk |-> [p \in Pages |-> IF p \in start .. (end - 1) THEN 2 ELSE IF p = end THEN 3 ELSE b[p]]]

ChunkUpTo(b, free, end) == Chunk(b, RunStart(free, end), end)

PageNalloc(b, n) ==
  LET free == FreePages(b)
  IN  IF n = 0 \/ Cardinality(free) < n
      THEN [page |-> NULL, bk |-> b]
      ELSE ChunkUpTo(b, free, NthOf(free, n))

PageFree(b, p) ==
  IF p \notin Pages \/ (p # HeapStart /\ b[p - 1] = 2) THEN b
  ELSE LET last == {e \in p .. (HeapStart + NumPages - 1) :
                      b[e] = 3 \/ e = HeapStart + NumPages - 1}
           end  == CHOOSE e \in last : \A f \in last : e <= f
       IN  [q \in Pages |-> IF q \in p .. end THEN 0 ELSE b[q]]

(* The state that a call works on: m.bk, m.mem, m.amap, and m.ok, the      *)
(* answer of the last mmu_map.  page_znalloc adds m.page.                  *)
Now == [bk |-> bk, mem |-> mem, amap |-> amap, ok |-> TRUE, page |-> NULL]

Becomes(m) ==
  /\ bk' = m.bk
  /\ mem' = m.mem
  /\ amap' = m.amap

Zeroed(m, n, a) ==
  [m EXCEPT !.bk = a.bk, !.page = a.page,
            !.mem = [p \in Pages |-> IF a.page # NULL /\ p \in a.page .. (a.page + n - 1)
                                     THEN ZeroPage ELSE @[p]]]

PageZnalloc(m, n) == Zeroed(m, n, PageNalloc(m.bk, n))

-----------------------------------------------------------------------------
(* src/src/mmu.c *)

MmuTableCreate(m) == PageZnalloc(m, 1)

(* One step of mmu_map's walk: into the table at w.tab's entry, which is   *)
(* made when there is none.  An existing leaf is taken for a table.        *)
NewBranchUnlinked(w, k, n) ==
  IF n.page = NULL THEN [w EXCEPT !.m.ok = FALSE] ELSE [tab |-> n.page, m |-> n]

NewBranch(w, k, n) ==
  IF n.page = NULL THEN [w EXCEPT !.m.ok = FALSE]
  ELSE [tab |-> n.page, m |-> [n EXCEPT !.mem = Poke(@, w.tab, k, Entry(n.page, V))]]

Descend(w, v, l) ==
  LET e == Peek(w.m.mem, w.tab, Idx(v, l))
  IN  IF ~w.m.ok THEN w
      ELSE IF IsValid(e) THEN [w EXCEPT !.tab = Ppn(e)]
      ELSE NewBranch(w, Idx(v, l), MmuTableCreate(w.m))

(* The pages that a leaf at level l covers, each with what it leads to. *)
Covered(v, p, l, bits) ==
  [q \in {q \in 0 .. (Slot(Radix) - 1) : q \div Radix^l = v \div Radix^l} |->
     [page |-> (p \div Radix^l) * Radix^l + (q % Radix^l), bits |-> bits]]

SetLeaf(w, o, v, p, l, bits) ==
  IF ~w.m.ok THEN w.m
  ELSE [w.m EXCEPT
          !.mem = Poke(@, w.tab, Idx(v, l), Entry((p \div Radix^l) * Radix^l, bits + V)),
          !.amap[o] = Covered(v, p, l, bits) @@ @]

MmuMap(m, o, tab, v, p, l, bits) ==
  LET down(w, k) == IF k > l THEN Descend(w, v, k) ELSE w
  IN  IF tab = NULL \/ ~IsLeaf(bits) THEN [m EXCEPT !.ok = FALSE]
      ELSE SetLeaf(FoldLeft(down, [tab |-> tab, m |-> [m EXCEPT !.ok = TRUE]], <<2, 1>>),
                   o, v, p, l, bits)

(* mmu_map_range takes byte addresses, aligns them and stops at a failure. *)
MmuMapRange(m, o, tab, first, end, p, l, bits) ==
  LET size  == Radix^(l + 1)
      down  == first \div size
      up    == (end + size - 1) \div size
      step(acc, k) == IF acc.ok THEN MmuMap(acc, o, tab, k * Radix^l, p + (k - down) * Radix^l, l, bits)
                      ELSE acc
  IN  FoldLeft(step, [m EXCEPT !.ok = TRUE], [k \in 1 .. (up - down) |-> down + k - 1])

(* The entry that ends the walk for v, and its level. *)
WalkEnd(M, tab, v) ==
  LET e2 == Peek(M, tab, Idx(v, 2))
      e1 == Peek(M, Ppn(e2), Idx(v, 1))
      e0 == Peek(M, Ppn(e1), Idx(v, 0))
      branch(e) == IsValid(e) /\ ~IsLeaf(e)
  IN  IF tab = NULL THEN [e |-> 0, l |-> 0]
      ELSE IF ~branch(e2) THEN [e |-> e2, l |-> 2]
      ELSE IF ~branch(e1) THEN [e |-> e1, l |-> 1]
      ELSE [e |-> e0, l |-> 0]

MmuTranslate(M, tab, v) ==
  LET w == WalkEnd(M, tab, v)
  IN  IF IsValid(w.e) /\ IsLeaf(w.e)
      THEN (Ppn(w.e) \div Radix^w.l) * Radix^w.l + (v % Radix^w.l)
      ELSE FaultPage

MmuAccessOkAny(M, tab, v, perms) ==
  LET w == WalkEnd(M, tab, v)
  IN  IsValid(w.e) /\ IsLeaf(w.e) /\ \E b \in perms : Has(w.e, b)

MmuAccessOk(M, tab, v, perms) ==
  LET w == WalkEnd(M, tab, v)
  IN  IsValid(w.e) /\ IsLeaf(w.e) /\ \A b \in perms : Has(w.e, b)

(* The tables that the branches from tab lead to, tab included. *)
TablesFrom(M, tab) ==
  LET below(t) == {Ppn(M[t][k]) : k \in {k \in 0 .. (Radix - 1) : IsValid(M[t][k]) /\ ~IsLeaf(M[t][k])}}
                  \cap Pages
      level1 == IF tab \in Pages THEN below(tab) ELSE {}
  IN  ({tab} \cap Pages) \cup level1 \cup UNION {below(t) : t \in level1}

(* mmu_free clears every table below tab and gives it back.  Each is a    *)
(* chunk of one page, so the order does not matter.                        *)
InOrder(S) == SelectSeq([k \in 1 .. NumPages |-> HeapStart + k - 1], LAMBDA p : p \in S)

LeavesFrom(M, tab) ==
  {Ppn(M[t][k]) : t \in TablesFrom(M, tab), k \in 0 .. (Radix - 1)}

MmuFreeLeaves(m, tab) ==
  LET freed == TablesFrom(m.mem, tab) \cup (LeavesFrom(m.mem, tab) \cap Pages)
  IN  [m EXCEPT !.bk = FoldLeft(PageFree, @, InOrder(freed)),
                !.mem = [p \in Pages |-> IF p \in freed THEN ZeroPage ELSE @[p]]]

MmuFree(m, tab) ==
  LET freed == TablesFrom(m.mem, tab)
  IN  [m EXCEPT !.bk = FoldLeft(PageFree, @, InOrder(freed)),
                !.mem = [p \in Pages |-> IF p \in freed THEN ZeroPage ELSE @[p]]]

-----------------------------------------------------------------------------
(* src/src/uaccess.c: the physical bytes that a copy touches, in order.    *)
(* The access is checked once for every page.                              *)

RECURSIVE Copy(_, _, _, _, _)
Copy(M, tab, va, size, perms) ==
  LET v  == va \div Radix
      pa == MmuTranslate(M, tab, v) * Radix + (va % Radix)
      k  == Min({Radix - (pa % Radix), size})
  IN  IF size = 0 \/ ~MmuAccessOk(M, tab, v, perms) THEN << >>
      ELSE [i \in 1 .. k |-> pa + i - 1] \o Copy(M, tab, va + k, size - k, perms)

CopyFrom(M, tab, from, size) ==
  LET touched == Copy(M, tab, from, size, {U, R})
  IN  [k \in DOMAIN touched |-> Peek(M, touched[k] \div Radix, touched[k] % Radix)]

CopyTo(M, tab, to, src) ==
  LET touched == Copy(M, tab, to, Len(src), {U, W})
      put(acc, k) == Poke(acc, touched[k] \div Radix, touched[k] % Radix, src[k])
  IN  FoldLeft(put, M, [k \in DOMAIN touched |-> k])

-----------------------------------------------------------------------------
(* The kernel's own table, as main and heap_init leave it.  One range of   *)
(* devices stands for the three that main maps.                            *)

KernelTable == HeapStart + 1

BootWith(root) ==
  LET ram(m)  == MmuMapRange(m, "kernel", root.page, Text * Radix,
                             (HeapStart + NumPages) * Radix, Text, 2, R + W + X)
      plic(m) == MmuMapRange(m, "kernel", root.page, Plic * Radix,
                             Plic * Radix + 1, Plic, 1, R + W)
      heap(m) == MmuMapRange(m, "kernel", root.page, KernelHeap * Radix,
                             (KernelHeap + KERNEL_HEAP_PAGES) * Radix, m.page, 0, R + W)
  IN  heap(PageZnalloc(plic(ram(root)), KERNEL_HEAP_PAGES))

Boot ==
  BootWith(MmuTableCreate([bk |-> [p \in Pages |-> IF p = HeapStart THEN 3 ELSE 0],
                           mem |-> [p \in Pages |-> ZeroPage],
                           amap |-> [o \in Owners |-> << >>], ok |-> TRUE, page |-> NULL]))

NoProc == [state |-> "none", hart |-> -1, ptable |-> NULL,
           pages |-> << >>, image |-> << >>, heap |-> << >>]

Init ==
  /\ \E m \in {Boot} : bk = m.bk /\ mem = m.mem /\ amap = m.amap
  /\ procs = [p \in Users \cup {"idle"} |-> NoProc]
  /\ cur = "none"
  /\ sent = << >>
  /\ calls = 0
  /\ halted = FALSE

-----------------------------------------------------------------------------
(* src/src/process.c *)

NewTable(root) == [m |-> root, proc |-> [NoProc EXCEPT !.state = "new", !.ptable = root.page]]

(* One of the two stack pages; an allocation that fails is listed too. *)
AddStack(acc, a, p, bits, k) ==
  [m |-> MmuMap(a, p, acc.proc.ptable, STACK_TOP + k, a.page, 0, bits),
   proc |-> [acc.proc EXCEPT !.pages = Append(@, a.page)]]

(* The pages of the kernel that the trampolines need. *)
Shared == << [page |-> Text, bits |-> R + X],
             [page |-> Frame + 1, bits |-> R + W + X], [page |-> Frame, bits |-> R + W + X] >>

ProcessNew(m, p, user) ==
  LET rw == R + W + IF user THEN U ELSE 0
      stack(acc, k) == AddStack(acc, PageZnalloc(acc.m, 1), p, rw, k)
      share(acc, s) ==
        [acc EXCEPT !.m = MmuMap(@, p, acc.proc.ptable, s.page,
                                 MmuTranslate(@.mem, KernelTable, s.page), 0, s.bits)]
  IN  FoldLeft(share, FoldLeft(stack, NewTable(MmuTableCreate(m)), <<0, 1>>), Shared)

(* process_free, of a process that is on no hart: the tables and then every *)
(* listed page, oldest first.                                              *)
ProcessFree(m, proc) ==
  [MmuFree(m, proc.ptable) EXCEPT
     !.bk = FoldLeft(PageFree, @, proc.pages \o proc.image \o proc.heap)]

-----------------------------------------------------------------------------
(* src/src/elf.c *)

FlagBits(flags) == SumSet(flags \cap {R, W, X})

(* One page of a segment: allocate, fill from the file, list, map.  A page *)
(* that cannot be had is written to all the same: the kernel faults.       *)
FillPage(acc, a, p, seg, flags, j) ==
  LET bytes == [k \in 0 .. (Radix - 1) |->
                  IF j * Radix + k < seg.memsz THEN seg.offset + j * Radix + k ELSE 0]
  IN  IF a.page = NULL THEN [acc EXCEPT !.fault = TRUE]
      ELSE [acc EXCEPT
              !.m = MmuMap([a EXCEPT !.mem[a.page] = bytes], p, acc.proc.ptable,
                           seg.vaddr + j, a.page, 0, U + FlagBits(flags)),
              !.proc.image = Append(@, a.page)]

LoadPage(acc, p, seg, flags, j) ==
  IF acc.fault THEN acc ELSE FillPage(acc, PageZnalloc(acc.m, 1), p, seg, flags, j)

(* The flags of a segment add to those of the segments before it. *)
LoadSegment(acc, p, s) ==
  LET seg   == Segments[s]
      flags == UNION {Segments[t].flags : t \in {t \in 1 .. s : Segments[t].load /\ Segments[t].memsz # 0}}
      load(a, j) == LoadPage(a, p, seg, flags, j)
  IN  IF ~seg.load THEN acc
      ELSE FoldLeft(load, acc, [k \in 1 .. ((seg.memsz + Radix - 1) \div Radix) |-> k - 1])

(* The entry point is then mapped into the kernel's table too. *)
MapEntry(loaded) ==
  IF loaded.fault THEN loaded
  ELSE [loaded EXCEPT !.m = MmuMap(@, "kernel", KernelTable, Image,
                                   MmuTranslate(@.mem, loaded.proc.ptable, Image), 0, R + X)]

ElfLoad(p) ==
  LET load(acc, s) == LoadSegment(acc, p, s)
  IN  MapEntry(FoldLeft(load, [m |-> Now, proc |-> procs[p], fault |-> FALSE],
                        [s \in DOMAIN Segments |-> s]))

-----------------------------------------------------------------------------
(* The kernel outside of system calls. *)

Count == /\ calls < MaxCalls
         /\ calls' = calls + 1

(* p becomes what new says, with its tables and pages. *)
ProcBecomes(p, new) ==
  /\ Becomes(new.m)
  /\ procs' = [procs EXCEPT ![p] = new.proc]

(* sched_init: the idle process has a copy of its code for an image. *)
IdleImage(new, a) ==
  [m |-> MmuMap(a, "idle", new.proc.ptable, Text, a.page, 0, R + W + X),
   proc |-> [new.proc EXCEPT !.image = <<a.page>>, !.state = "waiting"]]

SchedInit ==
  LET withImage(new) == IdleImage(new, PageZnalloc(new.m, 1))
  IN  /\ procs["idle"].state = "none"
      /\ ProcBecomes("idle", withImage(ProcessNew(Now, "idle", FALSE)))
      /\ UNCHANGED <<cur, sent, calls, halted>>

NewProcess(p) ==
  /\ procs["idle"].state # "none"
  /\ procs[p].state = "none"
  /\ cur = "none"
  /\ Count
  /\ ProcBecomes(p, ProcessNew(Now, p, TRUE))
  /\ UNCHANGED <<cur, sent, halted>>

(* elf_load of a file that is valid, then sched_add. *)
LoadProcess(p) ==
  /\ procs[p].state = "new"
  /\ \E loaded \in {ElfLoad(p)} :
       /\ ProcBecomes(p, [loaded EXCEPT !.proc.state = "running"])
       /\ halted' = loaded.fault
  /\ UNCHANGED <<cur, sent, calls>>

(* elf_valid refuses the file and main waits for ever. *)
RejectProcess(p) ==
  /\ procs[p].state = "new"
  /\ halted' = TRUE
  /\ UNCHANGED <<bk, mem, amap, procs, cur, sent, calls>>

(* process_run on the hart itself: q starts if its table has all that the  *)
(* trampolines need.                                                       *)
ProcessRun(q, am) == {Text, Frame, TrapStack} \subseteq DOMAIN am[q]

(* The end of round_robin: q's table gets the trap stack and q is run. *)
Dispatch(ps, q) ==
  \E m \in {MmuMap(Now, q, procs[q].ptable, TrapStack,
                   MmuTranslate(mem, KernelTable, TrapStack), 0, R + W + X)} :
    /\ Becomes(m)
    /\ procs' = [ps EXCEPT ![q].hart = 0]
    /\ cur' = q
    /\ halted' = ~ProcessRun(q, m.amap)

OffHart(ps) == [p \in DOMAIN ps |-> IF p = cur THEN [ps[p] EXCEPT !.hart = -1] ELSE ps[p]]

Runnable(q) == IF \E p \in Users : procs[p].state = "running"
               THEN q \in Users /\ procs[q].state = "running"
               ELSE q = "idle"

(* A timer interrupt, yield or sleep: the next process runs. *)
Switch(q) ==
  /\ procs["idle"].state # "none"
  /\ Runnable(q)
  /\ q # cur
  /\ Dispatch(OffHart(procs), q)
  /\ UNCHANGED <<sent, calls>>

(* process_free, called for a process on no hart.  Its caller must know    *)
(* that each chunk the process got from malloc was a single page: the      *)
(* second page of a chunk, freed after the first, takes the pages up to    *)
(* the end of the next chunk with it.                                      *)
Singles(p) == \A k \in DOMAIN procs[p].heap :
                procs[p].heap[k] \in Pages => bk[procs[p].heap[k]] = 3 /\ bk[procs[p].heap[k] - 1] # 2

Discard(p) ==
  /\ procs[p].state \in {"new", "running"}
  /\ procs[p].hart = -1
  /\ Singles(p)
  /\ Becomes([ProcessFree(Now, procs[p]) EXCEPT !.amap[p] = << >>])
  /\ procs' = [procs EXCEPT ![p] = NoProc]
  /\ UNCHANGED <<cur, sent, calls, halted>>

-----------------------------------------------------------------------------
(* src/src/syscall.c, called by the process on hart 0 *)

(* process_free refuses: the process is on its hart.  It leaves the list   *)
(* of processes with all it holds, and the next one runs.                  *)
SyscallExit(q) ==
  /\ cur \in Users
  /\ q # cur
  /\ q \in Users => procs[q].state = "running"
  /\ q = "idle" => \A p \in Users \ {cur} : procs[p].state # "running"
  /\ Dispatch([procs EXCEPT ![cur].state = "dead"], q)
  /\ UNCHANGED <<sent, calls>>

(* Every page is listed and mapped at its own address, also when there was *)
(* no memory and the pages are those from address 0 on.  More than one     *)
(* page is asked for only while the free pages are in one piece: with a    *)
(* hole page_nalloc may return fewer pages than asked for.                 *)
OnePiece == {p \in FreePages(bk) : p + 1 \in Pages \ FreePages(bk)} = {}

MapPages(a, n) ==
  LET map(acc, k) == MmuMap(acc, cur, procs[cur].ptable, a.page + k, a.page + k, 0, U + R + W)
  IN  FoldLeft(map, a, [k \in 1 .. n |-> k - 1])

SyscallMalloc(n) ==
  /\ cur \in Users
  /\ n > 1 => OnePiece
  /\ Count
  /\ \E a \in {PageZnalloc(Now, n)} :
       /\ Becomes(MapPages(a, n))
       /\ procs' = [procs EXCEPT ![cur].heap = @ \o [k \in 1 .. n |-> a.page + k - 1]]
  /\ UNCHANGED <<cur, sent, halted>>

(* free hands the physical address to kfree, which has no such block: the  *)
(* blocks of the kernel heap have their virtual addresses.                 *)
SyscallFree ==
  /\ cur \in Users
  /\ procs[cur].heap # << >>
  /\ Count
  /\ UNCHANGED <<bk, mem, amap, procs, cur, sent, halted>>

SyscallGetGpu ==
  LET tab  == procs[cur].ptable
      gdev == MmuMap(Now, cur, tab, Gdev, MmuTranslate(mem, KernelTable, Gdev), 0, U + R)
      fb   == Framebuffer.first \div Radix
  IN  /\ cur \in Users
      /\ Count
      /\ Becomes(MmuMapRange(gdev, cur, tab, Framebuffer.first, Framebuffer.first + Framebuffer.size,
                             MmuTranslate(mem, KernelTable, fb), 0, U + R + W))
      /\ UNCHANGED <<procs, cur, sent, halted>>

Addresses == IF cur \in Users
             THEN Buffers \cup {page * Radix : page \in ToSet(procs[cur].heap)} ELSE {}

(* read and get_cursor copy a kernel buffer out.  The bytes of the file or *)
(* the cursor's place are one value here.                                  *)
FileByte == 1

SyscallRead(va, n) ==
  /\ Count
  /\ mem' = CopyTo(mem, procs[cur].ptable, va, [k \in 1 .. n |-> FileByte])
  /\ UNCHANGED <<bk, amap, procs, cur, sent, halted>>

(* write and open copy the user's bytes in. *)
SyscallWrite(va, n) ==
  /\ Count
  /\ sent' = CopyFrom(mem, procs[cur].ptable, va, n)
  /\ UNCHANGED <<bk, mem, amap, procs, cur, halted>>

Next ==
  /\ ~halted
  /\ \/ SchedInit
     \/ \E p \in Users : NewProcess(p) \/ LoadProcess(p) \/ RejectProcess(p) \/ Discard(p)
     \/ \E q \in Users \cup {"idle"} : Switch(q) \/ SyscallExit(q)
     \/ \E n \in Requests : SyscallMalloc(n)
     \/ SyscallFree
     \/ SyscallGetGpu
     \/ \E va \in Addresses, n \in Sizes : SyscallRead(va, n) \/ SyscallWrite(va, n)

Spec == Init /\ [][Next]_vars

-----------------------------------------------------------------------------
Root(o) == IF o = "kernel" THEN KernelTable ELSE procs[o].ptable

(* The pages of a block share the walk down to the last table.  Where it   *)
(* ends before that at an invalid entry, no page of the block translates.  *)
Block(b) == (b * Radix) .. (b * Radix + Radix - 1)
NoTable(o, b) ==
  LET w == WalkEnd(mem, Root(o), b * Radix)
  IN  Root(o) = NULL \/ (w.l > 0 /\ ~IsValid(w.e))

(* For every table and every page, the walk through the tables in memory   *)
(* finds the last mapping that a successful mmu_map asked for and nothing  *)
(* else: no call that fails half way, no copy into user memory, no page    *)
(* that is freed and used again changes any other translation.             *)
TableIsTheMap ==
  \A o \in Owners, b \in 0 .. (Radix * Radix - 1) :
    IF NoTable(o, b) THEN Block(b) \cap DOMAIN amap[o] = {}
    ELSE \A v \in Block(b) :
           IF v \in DOMAIN amap[o]
           THEN /\ MmuTranslate(mem, Root(o), v) = amap[o][v].page
                /\ WalkEnd(mem, Root(o), v).e % 32 = amap[o][v].bits + V
           ELSE MmuTranslate(mem, Root(o), v) = FaultPage

(* Who holds the pages: each table's pages, and the pages each process has *)
(* listed.  No page has two holders, each is taken in the allocator's      *)
(* books, and what user code can reach in RAM is listed by that process or *)
(* is the GPU's.                                                           *)
Listed(p) == procs[p].pages \o procs[p].image \o procs[p].heap
Held(p) == ToSet(Listed(p)) \cap Pages
Tables(o) == TablesFrom(mem, Root(o))
GpuPages == {MmuTranslate(mem, KernelTable, v) : v \in KernelHeap .. (KernelHeap + 1)}

EveryPageHasOneHolder ==
  /\ \A o1, o2 \in Owners : o1 # o2 => Tables(o1) \cap Tables(o2) = {}
  /\ \A p \in DOMAIN procs, o \in Owners : Held(p) \cap Tables(o) = {}
  /\ \A p, q \in DOMAIN procs : p # q => Held(p) \cap Held(q) = {}
  /\ \A p \in DOMAIN procs : \A j, k \in DOMAIN Listed(p) :
       j # k /\ Listed(p)[j] \in Pages => Listed(p)[j] # Listed(p)[k]
  /\ \A page \in UNION {Tables(o) : o \in Owners} \cup UNION {Held(p) : p \in DOMAIN procs} : bk[page] # 0
  /\ \A p \in Users : \A v \in DOMAIN amap[p] :
       Has(amap[p][v].bits, U) /\ amap[p][v].page \in Pages
         => amap[p][v].page \in Held(p) \cup GpuPages

(* The physical bytes that the process's own loads or stores at va, va + 1 *)
(* and so on reach before the first of them faults.                        *)
UserReaches(p, va, size, perms) ==
  LET may(k) == LET v == (va + k - 1) \div Radix
                IN  v \in DOMAIN amap[p] /\ \A b \in perms : Has(amap[p][v].bits, b)
      fit == {k \in 0 .. size : \A j \in 1 .. k : may(j)}
  IN  [k \in 1 .. Max(fit) |-> amap[p][(va + k - 1) \div Radix].page * Radix + ((va + k - 1) % Radix)]

(* A copy between kernel and user touches the bytes that the user could    *)
(* have touched itself, in order, up to the first that would have faulted, *)
(* wherever the buffer crosses pages.                                      *)
CopyIsUserAccess ==
  \A p \in Users : \A va \in Buffers, n \in Sizes, perm \in {R, W} :
    Copy(mem, procs[p].ptable, va, n, {U, perm}) = UserReaches(p, va, n, {U, perm})
=============================================================================
