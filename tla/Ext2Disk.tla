------------------------------ MODULE Ext2Disk ------------------------------
(***************************************************************************)
(* The lower half of the ext2 driver (helpers.c): the device, the bitmap,  *)
(* inode and indirect-block caches, the allocators and the map from a      *)
(* file's block numbers to the volume's.                                   *)
(*                                                                         *)
(* A helper takes the state of a call in progress and returns the next     *)
(* one: s.disk is what the device holds, s.fs the ext2_t in memory, s.hdr  *)
(* the inode header the caller works on, s.ok and s.out what the helper    *)
(* returned.  s.past collects what the device held after each write, where *)
(* a power failure would leave it; s.left counts down to a device error.   *)
(***************************************************************************)
EXTENDS Integers, Sequences, FiniteSets

CONSTANTS
    NBlocks,          \* blocks of the volume are 1..NBlocks (first_data_block is 1)
    BlocksPerGroup,
    NInodes,
    InodesPerGroup,
    FirstAllocatable, \* the blocks of group 0 before it hold the tables
    FirstInode,       \* s_first_inode: the ones before it are reserved
    NDir, Apb,        \* direct slots of an inode, addresses in an indirect block
    BlockSize,        \* bytes in a data block
    InodeCacheSlots,
    Names,            \* the names of directory entries, "." and ".." apart
    Root              \* EXT2_ROOT_INO

ASSUME GeometryAssumption ==
    /\ {NBlocks, NInodes, BlocksPerGroup, InodesPerGroup, NDir, Apb, BlockSize,
        InodeCacheSlots, Root} \subseteq Nat \ {0}
    /\ FirstAllocatable \in 1..NBlocks /\ FirstInode \in (Root + 1)..NInodes

Least(S) == CHOOSE x \in S : \A y \in S : x <= y
CeilDiv(a, b) == (a + b - 1) \div b

Blocks == 1..NBlocks
Inums == 1..NInodes
NGroups == CeilDiv(NBlocks, BlocksPerGroup)
Groups == 0..(NGroups - 1)
BlocksOf(g) == {b \in Blocks : (b - 1) \div BlocksPerGroup = g}
InodesOf(g) == {n \in Inums : (n - 1) \div InodesPerGroup = g}

\* The roots of the three indirect trees follow the direct slots.
Slots == 0..(NDir + 2)

\* What a block holds, in the three ways the code reads one.
ZeroBlock ==
    [ptr |-> [k \in 0..(Apb - 1) |-> 0], recs |-> <<>>, bytes |-> [i \in 0..(BlockSize - 1) |-> 0]]

NoHdr ==
    [mode |-> "none", links |-> 0, size |-> 0, blocks |-> 0, dtime |-> FALSE,
     block |-> [i \in Slots |-> 0]]

Ok(s) == [s EXCEPT !.ok = TRUE]
Err(s) == [s EXCEPT !.ok = FALSE]
Returns(s, x) == [s EXCEPT !.ok = TRUE, !.out = x]

Valid(b) == b \in Blocks

-----------------------------------------------------------------------------
\* The device.  The access that finds s.left = 1 fails.
Access(s) == [s EXCEPT !.left = @ - 1, !.ok = s.left # 1]

Write(s, disk) ==
    LET a == Access(s)
    IN  IF a.ok THEN [a EXCEPT !.disk = disk, !.past = @ \union {disk}] ELSE a

ext2_read_block(s, b) ==
    IF ~Valid(b) THEN Err(s)
    ELSE LET a == Access(s) IN IF a.ok THEN Returns(a, s.disk.blk[b]) ELSE a

ext2_write_block(s, b, content) ==
    IF ~Valid(b) THEN Err(s) ELSE Write(s, [s.disk EXCEPT !.blk[b] = content])

-----------------------------------------------------------------------------
\* One bitmap block of each kind is kept in memory: "bb" for blocks, "ib" for
\* inodes.
BitmapSynced(w, which) == IF w.ok THEN [w EXCEPT !.fs[which].dirty = FALSE] ELSE w

ext2_bitmap_sync(s, which) ==
    LET bc == s.fs[which]
    IN  IF ~bc.dirty THEN Ok(s)
        ELSE IF bc.group = -1 THEN Err(s)
        ELSE BitmapSynced(Write(s, [s.disk EXCEPT !.bm[which][bc.group] = bc.used]), which)

BitmapLoad(w, which, g) ==
    LET r == Access(w)
    IN  IF ~w.ok THEN w
        ELSE IF ~r.ok THEN [r EXCEPT !.fs[which].group = -1]
        ELSE [r EXCEPT !.fs[which] = [group |-> g, used |-> r.disk.bm[which][g], dirty |-> FALSE]]

ext2_bitmap_get(s, which, g) ==
    IF s.fs[which].group = g THEN Ok(s) ELSE BitmapLoad(ext2_bitmap_sync(s, which), which, g)

Allocatable(which, g) ==
    IF which = "bb" THEN {b \in BlocksOf(g) : g = 0 => b >= FirstAllocatable}
                    ELSE {n \in InodesOf(g) : n >= FirstInode}

SetUsed(s, which, used) == [s EXCEPT !.fs[which].used = used, !.fs[which].dirty = TRUE]
Mark(s, which, x) == SetUsed(s, which, s.fs[which].used \union {x})
Unmark(s, which, x) == SetUsed(s, which, s.fs[which].used \ {x})

\* The group descriptors' counters, written back by ext2_sync_metadata.  The
\* superblock's totals move with them.
Count(s, counter, g, d) ==
    [s EXCEPT !.fs.cnt[counter][g] = IF @ + d < 0 THEN 0 ELSE @ + d, !.fs.dirty = TRUE]

ext2_zero_block(s, b) == ext2_write_block(s, b, ZeroBlock)

\* A new block is marked on the disk and zeroed before anyone can point at it.
TakeBlock(zeroed, g, b) ==
    IF zeroed.ok THEN Returns([Count(zeroed, "blocks", g, -1) EXCEPT !.fs.bhint = g], b)
                 ELSE Unmark(zeroed, "bb", b)
ZeroMarked(marked, g, b) ==
    IF marked.ok THEN TakeBlock(ext2_zero_block(marked, b), g, b) ELSE Unmark(marked, "bb", b)
MarkBlock(got, g, b) == ZeroMarked(ext2_bitmap_sync(Mark(got, "bb", b), "bb"), g, b)

RECURSIVE AllocBlockFrom(_, _), AllocBlockIn(_, _, _)
AllocBlockIn(got, g, n) ==
    LET free == Allocatable("bb", g) \ got.fs.bb.used
    IN  IF ~got.ok THEN got
        ELSE IF free = {} THEN AllocBlockFrom(got, n + 1) ELSE MarkBlock(got, g, Least(free))
AllocBlockFrom(s, n) ==
    LET g == (s.fs.bhint + n) % NGroups
    IN  IF n = NGroups THEN Err(s) ELSE AllocBlockIn(ext2_bitmap_get(s, "bb", g), g, n)

ext2_alloc_block(s) == AllocBlockFrom(s, 0)

ext2_block_freeable(b) == \E g \in Groups : b \in Allocatable("bb", g)

\* As a bug: it is free at once.
ext2_free_block_AtOnce(s, b) ==
    LET g == (b - 1) \div BlocksPerGroup
        got == ext2_bitmap_get(s, "bb", g)
    IN  ext2_bitmap_sync(Count(SetUsed(got, "bb", got.fs.bb.used \ {b}), "blocks", g, 1), "bb")

\* A block that is given up stays marked until the inode that pointed at it is
\* written, so that a power failure never finds it free and in use.
ext2_free_block(s, b) ==
    IF ~ext2_block_freeable(b) \/ \E i \in DOMAIN s.fs.pending : s.fs.pending[i] = b
    THEN Err(s)
    ELSE Ok([s EXCEPT !.fs.pending = Append(@, b)])

\* Clears the mark.
ClearMark(got, b) ==
    IF ~got.ok \/ b \notin got.fs.bb.used THEN got
    ELSE Count(Unmark(got, "bb", b), "blocks", (b - 1) \div BlocksPerGroup, 1)
ext2_free_block_now(s, b) == ClearMark(ext2_bitmap_get(s, "bb", (b - 1) \div BlocksPerGroup), b)

RECURSIVE FreeAll(_, _)
FreeAll(s, todo) ==
    IF todo = <<>> THEN s ELSE FreeAll(ext2_free_block_now(s, Head(todo)), Tail(todo))

ext2_pending_free_flush(s) ==
    IF s.fs.pending = <<>> THEN Ok(s)
    ELSE ext2_bitmap_sync([FreeAll(s, s.fs.pending) EXCEPT !.fs.pending = <<>>], "bb")

TakeInode(marked, g, n) ==
    IF marked.ok THEN Returns([Count(marked, "inodes", g, -1) EXCEPT !.fs.ihint = g], n)
                 ELSE Unmark(marked, "ib", n)
MarkInode(got, g, n) == TakeInode(ext2_bitmap_sync(Mark(got, "ib", n), "ib"), g, n)

RECURSIVE AllocInodeFrom(_, _), AllocInodeIn(_, _, _)
AllocInodeIn(got, g, n) ==
    LET free == Allocatable("ib", g) \ got.fs.ib.used
    IN  IF ~got.ok THEN got
        ELSE IF free = {} THEN AllocInodeFrom(got, n + 1) ELSE MarkInode(got, g, Least(free))
AllocInodeFrom(s, n) ==
    LET g == (s.fs.ihint + n) % NGroups
    IN  IF n = NGroups THEN Err(s) ELSE AllocInodeIn(ext2_bitmap_get(s, "ib", g), g, n)

ext2_alloc_inode(s) == AllocInodeFrom(s, 0)

ClearInode(got, n) ==
    IF ~got.ok THEN got
    ELSE IF n \notin got.fs.ib.used THEN Err(got)
    ELSE Ok(Count(Unmark(got, "ib", n), "inodes", (n - 1) \div InodesPerGroup, 1))
ext2_free_inode(s, n) ==
    IF n < FirstInode \/ n > NInodes THEN Err(s)
    ELSE ClearInode(ext2_bitmap_get(s, "ib", (n - 1) \div InodesPerGroup), n)

ext2_dirs_count_adjust(s, n, d) ==
    LET g == (n - 1) \div InodesPerGroup
    IN  IF d < 0 /\ s.fs.cnt.dirs[g] = 0 THEN Err(s) ELSE Ok(Count(s, "dirs", g, d))

-----------------------------------------------------------------------------
\* Inodes, through a cache of a few slots that writes go through.
NextSlot(fs) == (fs.icnext % InodeCacheSlots) + 1
CacheHit(fs, n) == {i \in DOMAIN fs.icache : fs.icache[i].num = n}

\* What the cache does not hold goes to the next slot, which is emptied first.
InodeRead(a, i, n) ==
    IF a.ok THEN Returns([a EXCEPT !.fs.icache[i] = [num |-> n, hdr |-> a.disk.ino[n]]], a.disk.ino[n])
            ELSE a
ext2_read_inode(s, n) ==
    LET hit == CacheHit(s.fs, n)
    IN  IF n \notin Inums THEN Err(s)
        ELSE IF hit # {} THEN Returns(s, s.fs.icache[Least(hit)].hdr)
        ELSE InodeRead(Access([s EXCEPT !.fs.icnext = NextSlot(s.fs),
                                        !.fs.icache[s.fs.icnext] = [num |-> 0, hdr |-> NoHdr]]),
                       s.fs.icnext, n)

\* As a bug: only a new inode is stored.
ext2_inode_cache_store_NewOnly(s, n, hdr) ==
    IF CacheHit(s.fs, n) # {} THEN s
    ELSE [s EXCEPT !.fs.icache[s.fs.icnext] = [num |-> n, hdr |-> hdr], !.fs.icnext = NextSlot(s.fs)]

\* After a write.
ext2_inode_cache_store(s, n, hdr) ==
    LET hit == CacheHit(s.fs, n)
        new == [num |-> n, hdr |-> hdr]
    IN  IF hit # {} THEN [s EXCEPT !.fs.icache[Least(hit)] = new]
        ELSE [s EXCEPT !.fs.icache[s.fs.icnext] = new, !.fs.icnext = NextSlot(s.fs)]

\* Whatever was given up before is free for good once an inode is written.
InodeWritten(w, n, hdr) ==
    IF w.ok THEN Ok(ext2_pending_free_flush(ext2_inode_cache_store(w, n, hdr))) ELSE w
ext2_write_inode(s, n, hdr) ==
    IF n \in Inums THEN InodeWritten(Write(s, [s.disk EXCEPT !.ino[n] = hdr]), n, hdr) ELSE Err(s)

-----------------------------------------------------------------------------
\* Where block i of a file is found: a root slot and the way down from it.
ext2_block_slot(i) ==
    LET j == i - NDir
        k == j - Apb
        m == k - Apb * Apb
    IN  IF j < Apb THEN [root |-> NDir, slots |-> <<j>>]
        ELSE IF k < Apb * Apb THEN [root |-> NDir + 1, slots |-> <<k \div Apb, k % Apb>>]
        ELSE [root |-> NDir + 2,
              slots |-> <<m \div (Apb * Apb), (m \div Apb) % Apb, m % Apb>>]

\* An indirect block that is written must not stay cached as it was.
DropCopy(s, b) == IF s.fs.ind.block = b THEN [s EXCEPT !.fs.ind = [block |-> 0, ptr |-> ZeroBlock.ptr]] ELSE s

\* One indirect block is kept in memory between reads.
KeepCopy(r, b) ==
    IF r.ok THEN [r EXCEPT !.fs.ind = [block |-> b, ptr |-> r.out.ptr]] ELSE [r EXCEPT !.fs.ind.block = 0]
EntryOf(loaded, k) ==
    IF ~loaded.ok \/ ~Valid(loaded.fs.ind.ptr[k]) THEN Err(loaded)
    ELSE Returns(loaded, loaded.fs.ind.ptr[k])
ext2_indirect_entry(s, b, k) ==
    IF ~Valid(b) THEN Err(s)
    ELSE EntryOf(IF s.fs.ind.block = b THEN Ok(s) ELSE KeepCopy(ext2_read_block(s, b), b), k)

Peeked(r, k) == IF r.ok THEN Returns(r, r.out.ptr[k]) ELSE r
ext2_indirect_peek(s, b, k) == Peeked(ext2_read_block(s, b), k)

Stored(w, b) == IF w.ok THEN DropCopy(w, b) ELSE w
StoreIn(r, b, k, to) ==
    IF r.ok THEN Stored(ext2_write_block(r, b, [r.out EXCEPT !.ptr[k] = to]), b) ELSE r
ext2_indirect_store(s, b, k, to) == StoreIn(ext2_read_block(s, b), b, k, to)

RECURSIVE Descend(_, _, _), Descended(_, _)
Descended(e, slots) == IF e.ok THEN Descend(e, e.out, slots) ELSE e
Descend(s, b, slots) ==
    IF slots = <<>> THEN Returns(s, b) ELSE Descended(ext2_indirect_entry(s, b, Head(slots)), Tail(slots))

ext2_map_block(s, block, i) ==
    LET at == ext2_block_slot(i)
    IN  IF i < NDir THEN IF Valid(block[i]) THEN Returns(s, block[i]) ELSE Err(s)
        ELSE Descend(s, block[at.root], at.slots)

-----------------------------------------------------------------------------
\* Giving up one block: the way to it, what was reached of it, and the indirect
\* blocks that became empty, from the bottom.
RECURSIVE Reach(_, _, _, _), Reached(_, _, _)
Reached(p, slots, path) ==
    IF ~p.ok \/ p.out = 0 THEN [s |-> p, path |-> path, leaf |-> 0] ELSE Reach(p, p.out, slots, path)
Reach(s, b, slots, path) ==
    IF slots = <<>> THEN [s |-> Ok(s), path |-> path, leaf |-> b]
    ELSE IF ~Valid(b) THEN [s |-> Ok(s), path |-> path, leaf |-> 0]
    ELSE Reached(ext2_indirect_peek(s, b, Head(slots)), Tail(slots), Append(path, b))

RECURSIVE Prune(_, _, _, _), PruneRead(_, _, _, _), PruneFreed(_, _, _, _), PruneCut(_, _, _, _)
PruneCut(cut, path, at, freed) ==
    IF cut.ok THEN Prune(cut, SubSeq(path, 1, Len(path) - 1), at, freed + 1) ELSE cut
PruneFreed(f, path, at, freed) ==
    LET d == Len(path)
    IN  IF ~f.ok THEN f
        ELSE PruneCut(IF d = 1 THEN [f EXCEPT !.hdr.block[at.root] = 0]
                      ELSE ext2_indirect_store(f, path[d - 1], at.slots[d - 1], 0), path, at, freed)
PruneRead(r, path, at, freed) ==
    IF ~r.ok THEN r
    ELSE IF r.out.ptr # ZeroBlock.ptr THEN Returns(r, freed)
    ELSE PruneFreed(ext2_free_block(r, path[Len(path)]), path, at, freed)
Prune(s, path, at, freed) ==
    IF path = <<>> THEN Returns(s, freed) ELSE PruneRead(ext2_read_block(s, path[Len(path)]), path, at, freed)

DirectFreed(f, i) == IF f.ok THEN Returns([f EXCEPT !.hdr.block[i] = 0], 1) ELSE f
LeafCut(cut, path, at) == IF cut.ok THEN Prune(cut, path, at, 1) ELSE cut
LeafFreed(f, path, at) ==
    IF f.ok THEN LeafCut(ext2_indirect_store(f, path[Len(path)], at.slots[Len(at.slots)], 0), path, at)
    ELSE f
FreeLeaf(way, at) ==
    IF ~way.s.ok THEN way.s
    ELSE IF ~Valid(way.leaf) THEN Prune(way.s, way.path, at, 0)
    ELSE LeafFreed(ext2_free_block(way.s, way.leaf), way.path, at)

ext2_free_index(s, i) ==
    LET at == ext2_block_slot(i)
        b == s.hdr.block[i]
    IN  IF i >= NDir THEN FreeLeaf(Reach(s, s.hdr.block[at.root], at.slots, <<>>), at)
        ELSE IF Valid(b) THEN DirectFreed(ext2_free_block(s, b), i) ELSE Returns(s, 0)

\* A block for index i of s.hdr, with the indirect blocks it needs.
RECURSIVE DescendAlloc(_, _, _), DescendInto(_, _, _), HangNew(_, _, _), HungNew(_, _, _)
HungNew(st, new, slots) ==
    IF st.ok THEN DescendAlloc([st EXCEPT !.hdr.blocks = @ + 1], new, Tail(slots))
             ELSE Err(ext2_free_block(st, new))
HangNew(a, b, slots) ==
    IF a.ok THEN HungNew(ext2_indirect_store(a, b, Head(slots), a.out), a.out, slots) ELSE a
DescendInto(p, b, slots) ==
    IF ~p.ok THEN p
    ELSE IF p.out # 0 THEN DescendAlloc(p, p.out, Tail(slots))
    ELSE HangNew(ext2_alloc_block(p), b, slots)
DescendAlloc(s, b, slots) ==
    IF slots = <<>> THEN Returns(s, b) ELSE DescendInto(ext2_indirect_peek(s, b, Head(slots)), b, slots)

\* What a failure on the way leaves half done is given up again.
Undone(f) == Err(IF f.ok THEN [f EXCEPT !.hdr.blocks = @ - f.out] ELSE f)
OrUndo(s, i) == IF s.ok THEN s ELSE Undone(ext2_free_index(s, i))

Rooted(a, root) == IF a.ok THEN [a EXCEPT !.hdr.block[root] = a.out, !.hdr.blocks = @ + 1] ELSE a
AllocBelow(rooted, i) ==
    IF i < NDir \/ ~rooted.ok THEN rooted
    ELSE OrUndo(DescendAlloc(rooted, rooted.out, ext2_block_slot(i).slots), i)
ext2_map_block_alloc(s, i) ==
    LET root == IF i < NDir THEN i ELSE ext2_block_slot(i).root
    IN  AllocBelow(IF s.hdr.block[root] # 0 THEN Returns(s, s.hdr.block[root])
                   ELSE Rooted(ext2_alloc_block(s), root), i)

-----------------------------------------------------------------------------
\* Giving up a range.  ext2_free_level works on its own copy of the indirect
\* block, ptr, and writes it back once.
RECURSIVE ext2_free_level(_, _, _, _, _, _, _), LevelRead(_, _, _, _, _, _, _), FreeEntries(_, _, _, _, _, _, _)

FreeEntries(s, l, k, base, depth, first, last) ==
    LET stride == Apb ^ depth
        i == base + k * stride
        e == l.ptr[k]
        child == ext2_free_level(s, e, i, depth - 1, first, last, l.freed)
        f == ext2_free_block(IF depth = 0 THEN s ELSE child, e)
        freed == IF depth = 0 THEN l.freed ELSE child.out.freed
    IN  IF k = Apb \/ i > last THEN Returns(s, l)
        ELSE IF e = 0 \/ (depth = 0 /\ i < first) THEN FreeEntries(s, l, k + 1, base, depth, first, last)
        ELSE IF depth > 0 /\ ~child.ok THEN child
        ELSE IF depth > 0 /\ ~child.out.empty
             THEN FreeEntries(child, [l EXCEPT !.freed = freed], k + 1, base, depth, first, last)
        ELSE IF ~f.ok THEN f
        ELSE FreeEntries(f, [ptr |-> [l.ptr EXCEPT ![k] = 0], freed |-> freed + 1],
                         k + 1, base, depth, first, last)

LevelWritten(w, l) ==
    IF w.ok THEN Returns(w, [freed |-> l.freed, empty |-> l.ptr = ZeroBlock.ptr]) ELSE w
LevelFreed(done, b, was) ==
    IF ~done.ok THEN done
    ELSE LevelWritten(IF done.out.ptr = was.ptr THEN done
                      ELSE ext2_write_block(done, b, [was EXCEPT !.ptr = done.out.ptr]), done.out)
LevelRead(r, b, base, depth, first, last, freed) ==
    IF ~r.ok THEN r
    ELSE LevelFreed(FreeEntries(r, [ptr |-> r.out.ptr, freed |-> freed], 0, base, depth, first, last), b, r.out)
ext2_free_level(s, b, base, depth, first, last, freed) ==
    LevelRead(ext2_read_block(s, b), b, base, depth, first, last, freed)

LevelBase(level) == NDir + (IF level = 0 THEN 0 ELSE IF level = 1 THEN Apb ELSE Apb + Apb * Apb)

RECURSIVE FreeDirect(_, _, _), FreeLevels(_, _, _, _, _), LevelGone(_, _, _, _), RootFreed(_, _, _, _, _)
FreeDirect(s, i, last) ==
    LET b == s.hdr.block[i]
        f == ext2_free_block(s, b)
    IN  IF i >= NDir \/ i > last THEN Ok(s)
        ELSE IF ~Valid(b) THEN FreeDirect(s, i + 1, last)
        ELSE IF ~f.ok THEN f
        ELSE FreeDirect([f EXCEPT !.hdr.block[i] = 0], i + 1, last)

RootFreed(f, level, first, last, freed) ==
    IF f.ok THEN FreeLevels([f EXCEPT !.hdr.block[NDir + level] = 0], level + 1, first, last, freed + 1)
    ELSE f
LevelGone(l, level, first, last) ==
    IF ~l.ok THEN l
    ELSE IF ~l.out.empty THEN FreeLevels(l, level + 1, first, last, l.out.freed)
    ELSE RootFreed(ext2_free_block(l, l.hdr.block[NDir + level]), level, first, last, l.out.freed)
FreeLevels(s, level, first, last, freed) ==
    LET b == s.hdr.block[NDir + level]
    IN  IF level = 3 THEN Returns(s, freed)
        ELSE IF ~Valid(b) THEN FreeLevels(s, level + 1, first, last, freed)
        ELSE LevelGone(ext2_free_level(s, b, LevelBase(level), level, first, last, freed), level, first, last)

ext2_free_blocks_from(s, first, last) ==
    LET direct == FreeDirect(s, first, last)
        freed == Cardinality({i \in first..last : i < NDir /\ Valid(s.hdr.block[i])})
    IN  IF first > last THEN Returns(s, 0)
        ELSE IF ~direct.ok THEN direct
        ELSE FreeLevels(direct, 0, first, last, freed)
=============================================================================
