---------------------------- MODULE RunAllocator ----------------------------
(***************************************************************************)
(* What the page allocator of src/src/page.c and the kernel heap of        *)
(* src/src/kmalloc.c promise their callers: what they have handed out are  *)
(* runs of consecutive cells (pages or bytes), a cell belongs to one run   *)
(* at most, cells outside Lowest .. Highest (the pages that hold the       *)
(* bookkeeping bytes, the descriptor table) are never part of a run, and a *)
(* free gives back one whole run.  No locks, no bits, no searching.        *)
(***************************************************************************)
EXTENDS Integers

CONSTANTS Lowest, Highest

VARIABLE runs   \* the runs handed out and not yet taken back

Run == {r \in (Lowest .. Highest) \X (Lowest .. Highest) : r[1] <= r[2]}

Overlap(r, s) == r[1] <= s[2] /\ s[1] <= r[2]

Init == runs = {}

Give(r) == /\ \A s \in runs : ~Overlap(r, s)
           /\ runs' = runs \cup {r}

TakeBack(r) == /\ r \in runs
               /\ runs' = runs \ {r}

Next == \E r \in Run : Give(r) \/ TakeBack(r)

Spec == Init /\ [][Next]_runs
=============================================================================
