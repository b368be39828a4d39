------------------------------- MODULE Minix3 -------------------------------
(***************************************************************************)
(* The Minix 3 file system of the kernel (src/src/minix3.c): the mount     *)
(* with its cache of directories, the zone walk over direct, single and    *)
(* double indirect pointers, the allocation of zones, and open, close,     *)
(* read, write, lseek and chmod.                                           *)
(*                                                                         *)
(* A call is one step: the block driver is taken as it should work (Virtio *)
(* models how it does) and calls do not overlap.  One constant, BlockSize, *)
(* stands for the bytes (1024), the pointers (256) and the directory       *)
(* entries (16) of a block.  Two states stop the machine and are kept as   *)
(* such: the while(1) loops ("hang") and a NULL dereference ("fault").     *)
(***************************************************************************)
EXTENDS Integers, Sequences, FiniteSets, FiniteSetsExt, TLC

CONSTANTS
  BlockSize,      \* bytes, pointers and directory entries per block
  ZONE_INDIR,     \* direct zones per inode
  FirstData,      \* sb->first_data_zone
  NumZones,       \* bits of the zone bitmap
  NumInodes,
  MAX_FD_ENTRIES,
  Paths,          \* the paths that callers use
  Counts,         \* the byte counts that callers use
  Holes,          \* whether the image has a free zone below a used one
  MaxCalls,       \* bound on the number of calls
  MaxSize         \* bound on a file's size

ASSUME SizesAssumption ==
  /\ BlockSize \in Nat \ {0, 1} /\ ZONE_INDIR \in Nat \ {0, 1}
  /\ FirstData \in Nat \ {0} /\ NumZones \in Nat \ {0} /\ NumInodes \in Nat \ {0}
  /\ MAX_FD_ENTRIES \in Nat \ {0}
  /\ Counts \subseteq Nat \ {0} /\ Holes \in BOOLEAN

VARIABLES
  zmap,     \* taken elements of the zone bitmap (fs.zmap_allocd, as on disk)
  imap,     \* taken elements of the inode bitmap
  inodes,   \* the inode table on disk
  block,    \* the contents of every block
  cache,    \* fs.dirent_cache: path -> cacheEntry
  fds,      \* fs.fd_table.entry
  tlock,    \* fs.fd_table.lock is held
  stuck,    \* "no", or why the machine has stopped
  ret,      \* the last call and its result
  calls,    \* calls so far
  log       \* history: path -> what was appended to the file; only files
            \* that were never truncated or overwritten are in its domain

vars == <<zmap, imap, inodes, block, cache, fds, tlock, stuck, ret, calls, log>>
disk == <<zmap, imap, inodes, block>>

ZONE_DINDIR == ZONE_INDIR + 1
ZONE_TINDIR == ZONE_INDIR + 2
Blocks == 0 .. FirstData + NumZones
Cells == 0 .. BlockSize - 1
ZeroBlock == [i \in Cells |-> 0]
NoZones == [i \in 0 .. ZONE_TINDIR |-> 0]
NULL == <<"NULL">>
ClosedFd == [taken |-> FALSE, path |-> NULL, idx |-> <<0, -1, -1, -1>>,
             blk |-> 0, off |-> 0, ptr |-> 0, total |-> 0]

-----------------------------------------------------------------------------
(* Bitmaps.  bitmap_taken, bitmap_set and bitmap_clear number the bits from *)
(* 1, so element e of these sets is bit e - 1 of the map on disk.           *)

Free(map, n) == {e \in 1 .. n : e \notin map}

\* find_next_inode: inode number i for element i; the last one is never used
FindNextInode == IF Free(imap, NumInodes - 1) = {} THEN 0 ELSE Min(Free(imap, NumInodes - 1))

\* mutant: the bit is not set between two searches
FindZonesUnmarked(map, k) == [n \in 1 .. k |-> Min(Free(map, NumZones))]

\* find_next_datazone, k times: the k lowest free elements, in order
RECURSIVE FindZones(_, _)
FindZones(map, k) ==
  IF k = 0 THEN <<>> ELSE LET e == Min(Free(map, NumZones)) IN <<e>> \o FindZones(map \cup {e}, k - 1)

\* element e is handed out as zone e - 1, counted from the first data zone
ZonePtr(e) == FirstData + e - 1

-----------------------------------------------------------------------------
(* The image, as mkfs.minix lays it out: bit 0 of each map is reserved and *)
(* bit b stands for inode b and for zone FirstData + b - 1.  Root is inode *)
(* 1 with a directory d (inode 2) in zone FirstData; d has one zone.  With *)
(* Holes, d holds a file (inode 4) whose zone follows a free zone, and     *)
(* inode 3 is free.                                                        *)

Inode(type, size, zones) == [type |-> type, perm |-> 0, size |-> size, zones |-> zones]
Dirent(n, name) == [ino |-> n, name |-> name]
EndOfMap == {NumZones}

Image ==
  LET dots(n) == (0 :> Dirent(n, ".")) @@ (1 :> Dirent(1, ".."))
      at(z) == [NoZones EXCEPT ![0] = z]
      none == Inode("file", 0, NoZones)
      file == IF Holes THEN {4} ELSE {}
  IN [zmap |-> {1, 2, 3} \cup (IF Holes THEN {5} ELSE {}) \cup EndOfMap,
      imap |-> {1, 2, 3} \cup (IF Holes THEN {5} ELSE {}),
      inodes |-> [n \in 1 .. NumInodes |->
                    CASE n = 1 -> Inode("dir", 3, at(FirstData))
                      [] n = 2 -> Inode("dir", 2 + Cardinality(file), at(FirstData + 1))
                      [] n \in file -> Inode("file", 1, at(FirstData + 3))
                      [] OTHER -> none],
      block |-> [b \in Blocks |->
                   CASE b = FirstData -> (2 :> Dirent(2, "d")) @@ dots(1) @@ ZeroBlock
                     [] b = FirstData + 1 ->
                          (IF Holes THEN 2 :> Dirent(4, "old") ELSE <<>>) @@ dots(2) @@ ZeroBlock
                     [] OTHER -> ZeroBlock]]

-----------------------------------------------------------------------------
(* The mount and its cache.                                                *)

IsDir(inode) == inode.type = "dir"

\* the entries that minix3_setup_cache sees in a directory: the first
\* size / 64 of its direct zones, without free ones, "." and ".."
DirEntries(ino, blk, n) ==
  LET used == {z \in 0 .. ZONE_INDIR - 1 : ino[n].zones[z] # 0}
      at(z, i) == blk[ino[n].zones[z]][i]
      before(z, i) == BlockSize * Cardinality({y \in used : y < z}) + i
  IN {at(z, i) : <<z, i>> \in {p \in used \X Cells : before(p[1], p[2]) < ino[n].size}}

IsNamed(e) == e.ino # 0 /\ e.name \notin {".", ".."}

\* minix3_setup_cache, two levels deep (the image has no deeper directory)
SetupPaths(ino, blk) ==
  LET top == {e \in DirEntries(ino, blk, 1) : IsNamed(e)}
      sub(e) == IF IsDir(ino[e.ino]) THEN {f \in DirEntries(ino, blk, e.ino) : IsNamed(f)} ELSE {}
  IN {<<<<e.name>>, e.ino>> : e \in top}
       \cup UNION {{<<<<e.name, f.name>>, f.ino>> : f \in sub(e)} : e \in top}

InodeGet(ino, n) == ino[n]

SetupCache(ino, blk, garbage) ==
  LET found == SetupPaths(ino, blk)
      num(p) == (CHOOSE x \in found : x[1] = p)[2]
  IN [p \in {x[1] : x \in found} |->
        [inode |-> InodeGet(ino, num(p)),
         num |-> IF IsDir(InodeGet(ino, num(p))) THEN num(p) ELSE garbage]]

\* minix3_init_dev: the magic and layout checks passed, the maps read, the
\* cache built.  The inode number in a file's cache entry is never set: it is
\* whatever the heap held.
Init ==
  /\ zmap = Image.zmap /\ imap = Image.imap
  /\ inodes = Image.inodes /\ block = Image.block
  /\ \E garbage \in IF Holes THEN 0 .. NumInodes ELSE {0} :
       cache = SetupCache(Image.inodes, Image.block, garbage)
  /\ fds = [f \in 1 .. MAX_FD_ENTRIES |-> ClosedFd]
  /\ tlock = FALSE /\ stuck = "no" /\ ret = [op |-> "mount"] /\ calls = 0
  /\ log = <<>>

\* minix3_search_cache: every name but the last is a directory's
Cached(p) ==
  p \in DOMAIN cache /\ \A n \in 1 .. Len(p) - 1 : IsDir(cache[SubSeq(p, 1, n)].inode)

\* minix3_get_parent_path; "/" itself is in no directory's map
Parent(p) == SubSeq(p, 1, Len(p) - 1)

\* mutant: an inode is written back only when its file has grown
FlushInodeGrown(ino, entry) ==
  IF entry.num \in 1 .. NumInodes /\ entry.inode.size > ino[entry.num].size
  THEN [ino EXCEPT ![entry.num] = entry.inode] ELSE ino

\* the inode goes to the slot of the entry's number, when that is in the table
FlushInode(ino, entry) ==
  IF entry.num \in 1 .. NumInodes THEN [ino EXCEPT ![entry.num] = entry.inode] ELSE ino

-----------------------------------------------------------------------------
(* Zones of a file.  A call works on a record s of the descriptor, the     *)
(* inode, the zone map and the blocks.                                     *)

\* the pointer that the four zone indices name
PtrAt(inode, blk, idx) ==
  CASE idx[2] = -1 -> inode.zones[idx[1]]
    [] idx[2] # -1 /\ idx[3] = -1 -> blk[inode.zones[ZONE_INDIR]][idx[2]]
    [] idx[3] # -1 /\ idx[4] = -1 -> blk[blk[inode.zones[ZONE_DINDIR]][idx[2]]][idx[3]]
    [] OTHER -> blk[blk[blk[inode.zones[ZONE_TINDIR]][idx[2]]][idx[3]]][idx[4]]

\* every position with a zone, at the three levels that get_next_zone walks
Positions(inode, blk) ==
  {<<i, -1, -1, -1>> : i \in {i \in 0 .. ZONE_INDIR - 1 : inode.zones[i] # 0}}
  \cup (IF inode.zones[ZONE_INDIR] = 0 THEN {} ELSE
          {<<ZONE_INDIR, j, -1, -1>> : j \in {j \in Cells : blk[inode.zones[ZONE_INDIR]][j] # 0}})
  \cup (IF inode.zones[ZONE_INDIR] = 0 \/ inode.zones[ZONE_DINDIR] = 0 THEN {} ELSE
          LET row(j) == blk[inode.zones[ZONE_DINDIR]][j]
          IN {<<ZONE_DINDIR, p[1], p[2], -1>> :
                p \in {p \in Cells \X Cells : row(p[1]) # 0 /\ blk[row(p[1])][p[2]] # 0}})

Rank(idx) == LET b == BlockSize + 1
             IN ((idx[1] * b + idx[2] + 1) * b + idx[3] + 1) * b + idx[4] + 1

Later(s) == {p \in Positions(s.inode, s.block) : Rank(p) > Rank(s.fd.idx)}

HasNextZone(s) == Later(s) # {}

\* get_next_zone_wrapper when there is a later zone; it leaves the byte offset
\* and the file pointer to its caller
GetNextZone(s) ==
  LET later == Later(s)
      p == CHOOSE p \in later : \A q \in later : Rank(p) <= Rank(q)
  IN [s EXCEPT !.fd.idx = p, !.fd.blk = PtrAt(s.inode, s.block, p)]

\* get_next_zone loops for ever once the file has triply indirect zones
NextZoneHangs(s) == ~HasNextZone(s) /\ s.inode.zones[ZONE_TINDIR] # 0

-----------------------------------------------------------------------------
(* alloc_new_zone.  The data zone is claimed first, the pointer blocks     *)
(* after it: z[1] is the data zone, the others are pointer blocks.         *)

NewZones(s, k) ==
  LET e == FindZones(s.zmap, k) IN [n \in 1 .. k |-> ZonePtr(e[n])]

\* t is s with the k new zones linked in
Claimed(s, k, t) ==
  IF Cardinality(Free(s.zmap, NumZones)) < k
  THEN [s EXCEPT !.stuck = "hang", !.zmap = 1 .. NumZones]
  ELSE [t EXCEPT !.zmap = @ \cup {FindZones(s.zmap, k)[n] : n \in 1 .. k}, !.fd.blk = NewZones(s, k)[1]]

PointerBlock(z) == [ZeroBlock EXCEPT ![0] = z]

AllocDirect(s) ==
  LET z == NewZones(s, 1)
      i == s.fd.idx[1] + 1
      t == [s EXCEPT !.inode.zones[i] = z[1], !.fd.idx[1] = i]
  IN Claimed(s, 1, t)

AllocFirstIndirect(s) ==
  LET z == NewZones(s, 2)
      t == [s EXCEPT !.block[z[2]] = PointerBlock(z[1]),
                     !.inode.zones[ZONE_INDIR] = z[2],
                     !.fd.idx = <<ZONE_INDIR, 0, -1, -1>>]
  IN Claimed(s, 2, t)

AllocNextIndirect(s) ==
  LET z == NewZones(s, 1)
      j == s.fd.idx[2] + 1
      t == [s EXCEPT !.block[s.inode.zones[ZONE_INDIR]][j] = z[1], !.fd.idx[2] = j]
  IN Claimed(s, 1, t)

AllocFirstDouble(s) ==
  LET z == NewZones(s, 3)
      t == [s EXCEPT !.block[z[2]] = PointerBlock(z[3]),
                     !.block[z[3]] = PointerBlock(z[1]),
                     !.inode.zones[ZONE_DINDIR] = z[2],
                     !.fd.idx = <<ZONE_DINDIR, 0, 0, -1>>]
  IN Claimed(s, 3, t)

AllocNextDoubleRow(s) ==
  LET z == NewZones(s, 2)
      j == s.fd.idx[2] + 1
      t == [s EXCEPT !.block[s.inode.zones[ZONE_DINDIR]][j] = z[2],
                     !.block[z[2]] = PointerBlock(z[1]),
                     !.fd.idx = <<ZONE_DINDIR, j, 0, -1>>]
  IN Claimed(s, 2, t)

AllocNextDouble(s) ==
  LET z == NewZones(s, 1)
      k == s.fd.idx[3] + 1
      row == s.block[s.inode.zones[ZONE_DINDIR]][s.fd.idx[2]]
      t == [s EXCEPT !.block[row][k] = z[1], !.fd.idx[3] = k]
  IN Claimed(s, 1, t)

\* The first triply indirect zone.  The later ones are never allocated:
\* get_next_zone, which every caller tries first, hangs.
AllocFirstTriple(s) ==
  LET z == NewZones(s, 4)
      t == [s EXCEPT !.block[z[2]] = PointerBlock(z[3]),
                     !.block[z[3]] = PointerBlock(z[4]),
                     !.block[z[4]] = PointerBlock(z[1]),
                     !.inode.zones[ZONE_TINDIR] = z[2],
                     !.fd.idx = <<ZONE_TINDIR, 0, 0, 0>>]
  IN Claimed(s, 4, t)

AllocNewZone(s) ==
  LET idx == s.fd.idx  last == BlockSize - 1 IN
  CASE idx[1] < ZONE_INDIR - 1 -> AllocDirect(s)
    [] idx[1] = ZONE_INDIR - 1 -> AllocFirstIndirect(s)
    [] idx[1] = ZONE_INDIR /\ idx[2] < last -> AllocNextIndirect(s)
    [] idx[1] = ZONE_INDIR /\ idx[2] = last -> AllocFirstDouble(s)
    [] idx[1] = ZONE_DINDIR /\ idx[3] = last /\ idx[2] < last -> AllocNextDoubleRow(s)
    [] idx[1] = ZONE_DINDIR /\ idx[3] = last /\ idx[2] = last -> AllocFirstTriple(s)
    [] OTHER -> AllocNextDouble(s)

-----------------------------------------------------------------------------
(* What the calls do to s = [fd, inode, zmap, block, stuck].               *)

State(f) == [fd |-> fds[f], inode |-> cache[fds[f].path].inode,
             zmap |-> zmap, block |-> block, stuck |-> stuck]

Hang(s) == [s EXCEPT !.stuck = "hang"]

\* file_pointer = fp_block_offset * 1024 + fp_byte_offset
AtByte(s, n) == [s EXCEPT !.fd.off = n, !.fd.ptr = s.fd.blk * BlockSize + n]

Byte(blk, a) == IF a \div BlockSize \in Blocks THEN blk[a \div BlockSize][a % BlockSize] ELSE 0

\* write: go to the next zone of the file, or to a new one
NextOrNewZone(s) ==
  IF HasNextZone(s) THEN GetNextZone(s)
  ELSE IF NextZoneHangs(s) THEN Hang(s) ELSE AllocNewZone(s)

\* n bytes of the payload at byte offset off of the current zone; the size
\* follows the position
PutBytes(s, off, bytes) ==
  LET total == s.fd.total + Len(bytes)
      put(c) == IF c \in off .. off + Len(bytes) - 1 THEN bytes[c - off + 1]
                ELSE s.block[s.fd.blk][c]
  IN [s EXCEPT !.block[s.fd.blk] = [c \in Cells |-> put(c)],
               !.fd.total = total,
               !.inode.size = Max({@, total})]

\* mutant: the byte offset is not reset for a new zone
WriteHereNoReset(s, bytes) ==
  LET room == BlockSize - s.fd.off
      n == Min({room, Len(bytes)})
      t == PutBytes(s, s.fd.off, SubSeq(bytes, 1, n))
      u == [t EXCEPT !.fd.off = @ + n, !.fd.ptr = @ + n]
  IN IF n < room THEN u ELSE NextOrNewZone(u)

\* the first zone of a write: fill what is left of it.  When that fills it and
\* a later zone exists, the byte offset stays at the end of the zone.
WriteHere(s, bytes) ==
  LET room == BlockSize - s.fd.off
      n == Min({room, Len(bytes)})
      t == PutBytes(s, s.fd.off, SubSeq(bytes, 1, n))
      u == [t EXCEPT !.fd.off = @ + n, !.fd.ptr = @ + n]
      next == NextOrNewZone(u)
  IN CASE n < room -> u
       [] n = room /\ HasNextZone(u) -> next
       [] n = room /\ ~HasNextZone(u) -> AtByte(next, 0)

\* the zones after the first: whole ones, then the rest of the bytes
RECURSIVE WriteZones(_, _)
WriteZones(s, bytes) ==
  CASE s.stuck # "no" \/ bytes = <<>> -> s
    [] s.stuck = "no" /\ Len(bytes) >= BlockSize ->
         LET t == PutBytes(s, 0, SubSeq(bytes, 1, BlockSize))
         IN WriteZones(AtByte(NextOrNewZone(t), 0), SubSeq(bytes, BlockSize + 1, Len(bytes)))
    [] OTHER -> [PutBytes(s, 0, bytes) EXCEPT !.fd.off = Len(bytes), !.fd.ptr = @ + Len(bytes)]

WriteBytes(s, bytes) ==
  LET room == BlockSize - s.fd.off
      next == NextOrNewZone(s)
      t == IF room = 0 THEN [next EXCEPT !.fd.ptr = next.fd.blk * BlockSize] ELSE WriteHere(s, bytes)
  IN IF t.stuck # "no" \/ Len(bytes) < room THEN t
     ELSE WriteZones(t, SubSeq(bytes, room + 1, Len(bytes)))

\* read: block after block through file_pointer; reaching the end of the last
\* zone hangs
RECURSIVE ReadBlocks(_, _, _)
ReadBlocks(s, left, got) ==
  LET room == BlockSize - s.fd.off
      n == Min({room, left})
      bytes == got \o [i \in 1 .. n |-> Byte(s.block, s.fd.ptr + i - 1)]
  IN CASE left = 0 -> [s |-> s, got |-> got]
       [] left > 0 /\ n < room ->
            [s |-> [s EXCEPT !.fd.off = @ + n, !.fd.ptr = @ + n], got |-> bytes]
       [] left > 0 /\ n = room /\ HasNextZone(s) -> ReadBlocks(AtByte(GetNextZone(s), 0), left - n, bytes)
       [] OTHER -> [s |-> Hang(s), got |-> bytes]

\* up to n zones further: open with O_APPEND fails when they are not there,
\* lseek stops at the last one
RECURSIVE Skip(_, _)
Skip(s, n) ==
  CASE n = 0 -> [s |-> s, left |-> 0]
    [] n > 0 /\ HasNextZone(s) -> Skip(GetNextZone(s), n - 1)
    [] n > 0 /\ NextZoneHangs(s) -> [s |-> Hang(s), left |-> n]
    [] OTHER -> [s |-> s, left |-> n]

-----------------------------------------------------------------------------
(* The calls.                                                              *)

Running == stuck = "no"

Call == Running /\ calls < MaxCalls /\ calls' = calls + 1

\* leave the call with the work of s on descriptor f and the given result
Apply(f, s, r) ==
  /\ fds' = [fds EXCEPT ![f] = s.fd]
  /\ cache' = [cache EXCEPT ![s.fd.path].inode = s.inode]
  /\ zmap' = s.zmap /\ block' = s.block /\ stuck' = s.stuck
  /\ ret' = r

Stop(why) == stuck' = why /\ UNCHANGED <<disk, cache, fds, ret, log>>

\* open takes the first free entry before it looks for the file; with a full
\* table the last entry is used and -1 returned
Slot == LET free == {f \in DOMAIN fds : ~fds[f].taken}
        IN IF free = {} THEN [f |-> MAX_FD_ENTRIES, n |-> -1] ELSE [f |-> Min(free), n |-> Min(free)]

TakenFds == [fds EXCEPT ![Slot.f].taken = TRUE]

OpenCall == Call /\ ~tlock

\* the descriptor of a file that is found: s and whether open gets to its end
OpenFile(ino, map, blk, p, flags) ==
  LET fd0 == [ClosedFd EXCEPT !.taken = TRUE, !.path = p, !.blk = ino.zones[0]]
      s0 == [fd |-> fd0, inode |-> ino, zmap |-> map, block |-> blk, stuck |-> "no"]
      first == IF ino.zones[0] # 0 THEN [s |-> s0, left |-> 0] ELSE Skip(s0, 1)
      s1 == AtByte(first.s, 0)
      end == IF "APPEND" \in flags THEN Skip(s1, ino.size \div BlockSize) ELSE [s |-> s1, left |-> 0]
      s2 == IF "APPEND" \in flags /\ end.left = 0
            THEN [AtByte(end.s, ino.size % BlockSize) EXCEPT !.fd.total = ino.size] ELSE end.s
      s3 == IF "TRUNC" \in flags THEN [AtByte(s2, 0) EXCEPT !.inode.size = 0, !.fd.total = 0] ELSE s2
  IN [ok |-> first.left = 0 /\ end.left = 0,
      s |-> IF first.left > 0 THEN first.s ELSE IF end.left > 0 THEN end.s ELSE s3]

\* truncation starts a new history
Forget(p) == [q \in DOMAIN log \ {p} |-> log[q]]

OpenFound(p, flags) ==
  LET o == OpenFile(cache[p].inode, zmap, block, p, flags) IN
  /\ OpenCall /\ Cached(p)
  /\ Apply(Slot.f, o.s, [op |-> "open", n |-> IF o.ok THEN Slot.n ELSE -1])
  /\ tlock' = ~o.ok
  /\ inodes' = IF o.ok THEN FlushInode(inodes, [cache[p] EXCEPT !.inode = o.s.inode]) ELSE inodes
  /\ log' = IF "TRUNC" \in flags /\ cache[p].inode.size > 0 THEN Forget(p) ELSE log
  /\ UNCHANGED imap

\* no such file: the error return keeps the table's lock and the entry
OpenMissing(p, flags) ==
  /\ OpenCall /\ ~Cached(p) /\ "CREAT" \notin flags
  /\ fds' = TakenFds /\ tlock' = TRUE
  /\ ret' = [op |-> "open", n |-> -1]
  /\ UNCHANGED <<disk, cache, stuck, log>>

\* a file in "/" or in a directory that is not there: its parent is NULL
OpenCreateNoParent(p, flags) ==
  /\ OpenCall /\ ~Cached(p) /\ "CREAT" \in flags
  /\ ~(Parent(p) \in DOMAIN cache /\ Cached(Parent(p)))
  /\ Stop("fault") /\ UNCHANGED tlock

\* find_entry_for_parent: a slot in the first zone; a directory of more than
\* one block gets address 0, the boot block
EntrySlot(parent) ==
  IF parent.size \div BlockSize = 0 /\ parent.zones[0] # 0
  THEN <<parent.zones[0], parent.size % BlockSize>> ELSE <<0, 0>>

OpenCreate(p, flags) ==
  LET parent == cache[Parent(p)]
      grown == [parent EXCEPT !.inode.size = @ + 1]
      n == FindNextInode
      e == FindZones(zmap, 1)[1]
      new == [inode |-> Inode("file", 0, [NoZones EXCEPT ![0] = ZonePtr(e)]), num |-> n]
      slot == EntrySlot(parent.inode)
      blk == [block EXCEPT ![slot[1]][slot[2]] = Dirent(n, p[Len(p)])]
      o == OpenFile(new.inode, zmap \cup {e}, blk, p, flags)
  IN
  /\ OpenCall /\ ~Cached(p) /\ "CREAT" \in flags
  /\ Parent(p) \in DOMAIN cache /\ Cached(Parent(p))
  /\ n # 0 /\ Free(zmap, NumZones) # {}
  /\ imap' = imap \cup {n} /\ zmap' = zmap \cup {e} /\ block' = blk
  /\ inodes' = FlushInode(FlushInode(inodes, grown), new)
  /\ cache' = (p :> new) @@ [cache EXCEPT ![Parent(p)] = grown]
  /\ fds' = [fds EXCEPT ![Slot.f] = o.s.fd]
  /\ ret' = [op |-> "open", n |-> Slot.n]
  /\ log' = (p :> <<>>) @@ log
  /\ UNCHANGED <<tlock, stuck>>

\* no inode left: -1 with the lock held, and a zone is lost; no zone: a hang
OpenCreateFull(p, flags) ==
  /\ OpenCall /\ ~Cached(p) /\ "CREAT" \in flags
  /\ Parent(p) \in DOMAIN cache /\ Cached(Parent(p))
  /\ FindNextInode = 0 \/ Free(zmap, NumZones) = {}
  /\ fds' = TakenFds /\ tlock' = TRUE
  /\ zmap' = zmap \cup (IF Free(zmap, NumZones) = {} THEN {} ELSE {Min(Free(zmap, NumZones))})
  /\ imap' = (imap \cup {FindNextInode}) \ {0}
  /\ stuck' = IF Free(zmap, NumZones) = {} THEN "hang" ELSE "no"
  /\ ret' = [op |-> "open", n |-> -1]
  /\ UNCHANGED <<inodes, block, cache, log>>

\* an entry that a failed open took: no inode behind it
NullEntry(f) == fds[f].taken /\ fds[f].path = NULL

UseNullEntry(f) ==
  /\ Call /\ NullEntry(f)
  /\ Stop("fault") /\ UNCHANGED tlock

IsOpen(f) == fds[f].taken /\ fds[f].path # NULL

Close(f) ==
  /\ Call /\ IsOpen(f)
  /\ inodes' = FlushInode(inodes, cache[fds[f].path])
  /\ fds' = [fds EXCEPT ![f] = ClosedFd]
  /\ ret' = [op |-> "close"]
  /\ UNCHANGED <<zmap, imap, block, cache, tlock, stuck, log>>

\* read: the count is cut to what is left of the file; past the end of the
\* file that difference wraps around and the read runs into the last zone
Read(f, count) ==
  LET s == State(f)
      n == Min({count, s.inode.size - s.fd.total})
      r == ReadBlocks(s, n, <<>>)
  IN
  /\ Call /\ IsOpen(f)
  /\ IF n < 0 THEN Stop("hang")
     ELSE /\ Apply(f, [r.s EXCEPT !.fd.total = @ + Len(r.got)],
                   [op |-> "read", path |-> s.fd.path, from |-> s.fd.total, count |-> count, got |-> r.got])
          /\ UNCHANGED <<imap, inodes, log>>
  /\ UNCHANGED tlock

\* the bytes of a call are told apart by the call and their place in it
Payload(count) == [i \in 1 .. count |-> 1000 * calls + i]

Write(f, count) ==
  LET s == State(f)
      p == s.fd.path
      t == WriteBytes(s, Payload(count))
  IN
  /\ Call /\ IsOpen(f)
  /\ s.fd.total + count <= MaxSize
  /\ Apply(f, t, [op |-> "write"])
  /\ inodes' = FlushInode(inodes, [cache[p] EXCEPT !.inode = t.inode])
  /\ log' = IF p \notin DOMAIN log THEN log
            ELSE IF s.fd.total = Len(log[p]) THEN [log EXCEPT ![p] = @ \o Payload(count)] ELSE Forget(p)
  /\ UNCHANGED <<imap, tlock>>

\* lseek: back to the first zone, then zone by zone while there is one
Lseek(f, offset) ==
  LET s == State(f)
      start == [s EXCEPT !.fd.idx = ClosedFd.idx, !.fd.blk = s.inode.zones[0]]
      r == Skip(start, offset \div BlockSize)
      t == AtByte(r.s, offset % BlockSize)
      total == offset - r.left * BlockSize
  IN
  /\ Call /\ IsOpen(f)
  /\ Apply(f, [t EXCEPT !.fd.total = total], [op |-> "lseek", n |-> total])
  /\ UNCHANGED <<imap, inodes, tlock, log>>

SeekTargets(f) == \* SEEK_SET, SEEK_CUR and SEEK_END, not before the start
  {o \in {0, BlockSize - 1, fds[f].total - 1, fds[f].total + BlockSize,
          cache[fds[f].path].inode.size} : o >= 0}

\* chmod changes the permission bits and keeps the type
Chmod(p, mode) ==
  /\ Call /\ Cached(p)
  /\ cache' = [cache EXCEPT ![p].inode.perm = mode]
  /\ inodes' = FlushInode(inodes, cache'[p])
  /\ ret' = [op |-> "chmod"]
  /\ UNCHANGED <<zmap, imap, block, fds, tlock, stuck, log>>

OpenFlags == {{}, {"CREAT"}, {"APPEND"}, {"TRUNC"}}

Next ==
  \/ \E p \in Paths, flags \in OpenFlags :
       \/ OpenFound(p, flags) \/ OpenMissing(p, flags) \/ OpenCreateNoParent(p, flags)
       \/ OpenCreate(p, flags) \/ OpenCreateFull(p, flags)
  \/ \E p \in Paths : Chmod(p, 1)
  \/ \E f \in DOMAIN fds :
       \/ Close(f) \/ UseNullEntry(f)
       \/ \E count \in Counts : Read(f, count) \/ Write(f, count)
       \/ IsOpen(f) /\ \E offset \in SeekTargets(f) : Lseek(f, offset)

Spec == Init /\ [][Next]_vars

-----------------------------------------------------------------------------
(* What must hold.                                                         *)

\* Every zone that a file or directory uses, with its place in the file; the
\* place of a pointer block ends in -2
ZonesOf(inode) ==
  LET d == inode.zones[ZONE_DINDIR]
      t == inode.zones[ZONE_TINDIR]
  IN {<<p, PtrAt(inode, block, p)>> : p \in Positions(inode, block)}
     \cup {<<<<l, -1, -1, -2>>, inode.zones[l]>> : l \in ZONE_INDIR .. ZONE_TINDIR}
     \cup (IF d = 0 THEN {} ELSE {<<<<ZONE_DINDIR, j, -1, -2>>, block[d][j]>> : j \in Cells})
     \cup (IF t = 0 THEN {} ELSE
             {<<<<ZONE_TINDIR, 0, -1, -2>>, block[t][0]>>,
              <<<<ZONE_TINDIR, 0, 0, -2>>, block[block[t][0]][0]>>,
              <<<<ZONE_TINDIR, 0, 0, 0>>, block[block[block[t][0]][0]][0]>>})

UsedZones ==
  {u \in UNION {{<<p, z>> : z \in ZonesOf(cache[p].inode)} : p \in DOMAIN cache} : u[2][2] # 0}

\* No zone is used twice, by two files or at two places of one file.
NoZoneShared == Running => Cardinality({u[2][2] : u \in UsedZones}) = Cardinality(UsedZones)

\* A zone handed out is never somebody else's: no zone is used twice, and for
\* every zone in use the bit is set that find_next_datazone looks at.
ZonesExclusive == NoZoneShared /\ (Running => \A u \in UsedZones : u[2][2] - FirstData + 1 \in zmap)

\* After every call the disk alone tells the whole story: mounting it now
\* would build the cache that is in memory (as long as directories fit their
\* first block, the only one that open puts entries into).
MountFindsTheCache ==
  LET now == SetupCache(inodes, block, 0) IN
  (Running /\ \A p \in DOMAIN cache : IsDir(cache[p].inode) => cache[p].inode.size <= BlockSize) =>
    /\ DOMAIN now = DOMAIN cache
    /\ \A p \in DOMAIN cache : now[p].inode = cache[p].inode

\* read gives back exactly what was appended, wherever the position came from
\* (reading on, lseek, another descriptor), through all levels of zones.
ReadReturnsTheLog ==
  (Running /\ ret.op = "read" /\ ret.path \in DOMAIN log) =>
    ret.got = SubSeq(log[ret.path], ret.from + 1, Min({ret.from + ret.count, Len(log[ret.path])}))
=============================================================================
