------------------------------ MODULE Ext2Dir ------------------------------
(***************************************************************************)
(* The records of ext2 directories and the last steps of an inode's life   *)
(* (helpers.c).  A directory block is tiled by records: a name and its     *)
(* inode, or a free stretch with inode 0.  Lengths are counted in units of *)
(* four bytes, to which the code rounds every record.  s.hdr is the header *)
(* of the directory, which the callers hold and the helpers change.        *)
(***************************************************************************)
EXTENDS Ext2Disk

LOCAL INSTANCE SequencesExt

CONSTANTS
    NameLen,          \* how many units each name takes; its domain is Names
    DirUnits          \* units in a block of a directory

ASSUME DirAssumption ==
    /\ Names = DOMAIN NameLen
    /\ \A n \in Names : NameLen[n] \in Nat \ {0} /\ NameLen[n] + 2 <= DirUnits
    /\ DirUnits >= 8

RecLen(name) == 2 + (IF name \in Names THEN NameLen[name] ELSE 1)
Rec(ino, name, len) == [ino |-> ino, name |-> name, len |-> len]
Free(len) == Rec(0, "", len)
Units(recs) == FoldLeft(LAMBDA n, r : n + r.len, 0, recs)
Named(recs, names) == {i \in DOMAIN recs : recs[i].ino # 0 /\ recs[i].name \in names}

ext2_dirent_init_dir(ino, parent) ==
    [ZeroBlock EXCEPT !.recs = <<Rec(ino, ".", 3), Rec(parent, "..", 3), Free(DirUnits - 6)>>]

\* Room for a record: the largest hole, else the tail of a record longer than
\* it needs to be, else what the records do not reach.
ext2_dirent_place(recs, ino, name) ==
    LET need == RecLen(name)
        holes == {i \in DOMAIN recs : recs[i].ino = 0 /\ recs[i].len >= need}
        hole == CHOOSE i \in holes : \A j \in holes :
                    recs[j].len < recs[i].len \/ (recs[j].len = recs[i].len /\ i <= j)
        splits == {i \in DOMAIN recs : recs[i].ino # 0 /\ recs[i].len - need >= RecLen(recs[i].name)}
        at == Least(splits)
        split == [recs EXCEPT ![at].len = @ - need]
        placed(r) == [st |-> "placed", recs |-> r]
    IN  IF Named(recs, {name}) # {} THEN [st |-> "exists", recs |-> recs]
        ELSE IF holes # {} THEN placed([recs EXCEPT ![hole] = Rec(ino, name, @.len)])
        ELSE IF splits # {} THEN placed(InsertAt(split, at + 1, Rec(ino, name, need)))
        ELSE IF DirUnits - Units(recs) >= need THEN placed(Append(recs, Rec(ino, name, need)))
        ELSE [st |-> "full", recs |-> recs]

IsDir(hdr) == hdr.mode = "dir"
BlockCount(hdr) == CeilDiv(hdr.size, BlockSize)
DropListing(s) == [s EXCEPT !.fs.dcache.dir = 0]

\* The first block from bi on with a record of one of the names, skipping what
\* cannot be read.  Not found: s.out.phys = 0.
RECURSIVE SeekBlock(_, _, _), SeekMapped(_, _, _), SeekRead(_, _, _, _)
SeekRead(r, b, bi, names) ==
    IF ~r.ok \/ Named(r.out.recs, names) = {} THEN SeekBlock(r, bi + 1, names)
    ELSE Returns(r, [phys |-> b, content |-> r.out])
SeekMapped(m, bi, names) ==
    IF m.ok THEN SeekRead(ext2_read_block(m, m.out), m.out, bi, names) ELSE SeekBlock(m, bi + 1, names)
SeekBlock(s, bi, names) ==
    IF bi >= BlockCount(s.hdr) THEN Returns(s, [phys |-> 0, content |-> ZeroBlock])
    ELSE SeekMapped(ext2_map_block(s, s.hdr.block, bi), bi, names)

InodeNamed(b, name) ==
    LET recs == b.out.content.recs
    IN  IF b.out.phys = 0 THEN Err(b) ELSE Returns(b, recs[Least(Named(recs, {name}))].ino)
ext2_dirent_find(s, name) == IF IsDir(s.hdr) THEN InodeNamed(SeekBlock(s, 0, {name}), name) ELSE Err(s)

NoneFound(b) == Returns(b, b.out.phys = 0)
ext2_dirent_is_empty(s) == IF IsDir(s.hdr) THEN NoneFound(SeekBlock(s, 0, Names)) ELSE Err(s)

\* The directory grows by a block with the new record in it, or not at all.
Fails(s) == Returns(s, "fails")
Shrunk(f, hdr) == [f EXCEPT !.hdr.size = hdr.size, !.hdr.blocks = hdr.blocks]
ExtendSaved(i, n, was) == IF i.ok THEN Returns(i, "added") ELSE Fails(Shrunk(ext2_free_index(i, n), was))
ExtendGrown(g, dir, n, was) == ExtendSaved(ext2_write_inode(g, dir, g.hdr), n, was)
ExtendWritten(w, dir, n, was) ==
    IF w.ok THEN ExtendGrown([w EXCEPT !.hdr.size = (n + 1) * BlockSize], dir, n, was)
            ELSE Fails(ext2_free_index(w, n))
ExtendBlock(a, dir, n, was, rec) ==
    IF a.ok THEN ExtendWritten(ext2_write_block(a, a.out, [ZeroBlock EXCEPT !.recs = <<rec>>]), dir, n, was)
            ELSE Fails(a)
ExtendAt(m, dir, n, rec) ==
    IF m.ok THEN Fails(m) ELSE ExtendBlock(ext2_map_block_alloc(m, n), dir, n, m.hdr, rec)
Extend(s, dir, ino, name) ==
    LET n == BlockCount(s.hdr)
    IN  ExtendAt(ext2_map_block(s, s.hdr.block, n), dir, n, Rec(ino, name, DirUnits))

RECURSIVE AddFrom(_, _, _, _, _), AddMapped(_, _, _, _, _), AddRead(_, _, _, _, _, _)
Added(w) == Returns(w, IF w.ok THEN "added" ELSE "fails")
AddRead(r, b, bi, dir, ino, name) ==
    LET p == ext2_dirent_place(r.out.recs, ino, name)
    IN  IF ~r.ok \/ p.st = "full" THEN AddFrom(r, bi + 1, dir, ino, name)
        ELSE IF p.st = "exists" THEN Returns(r, "exists")
        ELSE Added(ext2_write_block(r, b, [r.out EXCEPT !.recs = p.recs]))
AddMapped(m, bi, dir, ino, name) ==
    IF m.ok THEN AddRead(ext2_read_block(m, m.out), m.out, bi, dir, ino, name)
            ELSE AddFrom(m, bi + 1, dir, ino, name)
AddFrom(s, bi, dir, ino, name) ==
    IF bi >= BlockCount(s.hdr) THEN Extend(s, dir, ino, name)
    ELSE AddMapped(ext2_map_block(s, s.hdr.block, bi), bi, dir, ino, name)

\* s.out tells how it went: "added", "exists" or "fails".
ext2_dirent_add(s, dir, ino, name) ==
    LET fresh == IF s.fs.dcache.dir = dir THEN DropListing(s) ELSE s
    IN  IF ~IsDir(s.hdr) THEN Returns(s, "fails") ELSE AddFrom(fresh, 0, dir, ino, name)

\* A removed record takes a free one behind it along.
Removed(recs, i) ==
    IF i < Len(recs) /\ recs[i + 1].ino = 0
    THEN RemoveAt([recs EXCEPT ![i] = Free(@.len + recs[i + 1].len)], i + 1)
    ELSE [recs EXCEPT ![i] = Free(@.len)]

RemovedIn(b, name) ==
    LET recs == b.out.content.recs
    IN  IF b.out.phys = 0 THEN Err(b)
        ELSE ext2_write_block(b, b.out.phys,
                 [b.out.content EXCEPT !.recs = Removed(recs, Least(Named(recs, {name})))])
ext2_dirent_remove(s, name) ==
    IF IsDir(s.hdr) THEN RemovedIn(SeekBlock(DropListing(s), 0, {name}), name) ELSE Err(s)

\* Works on the directory with header hdr, not on s.hdr.
ParentSet(b, parent) ==
    LET recs == b.out.content.recs
    IN  IF b.out.phys = 0 THEN Err(b)
        ELSE ext2_write_block(b, b.out.phys,
                 [b.out.content EXCEPT !.recs[Least(Named(recs, {".."}))].ino = parent])
ext2_dirent_set_parent(s, hdr, parent) ==
    [ParentSet(SeekBlock([s EXCEPT !.hdr = hdr], 0, {".."}), parent) EXCEPT !.hdr = s.hdr]

-----------------------------------------------------------------------------
Minus(n, d) == IF d > n THEN 0 ELSE n - d

\* The blocks of an inode without a name go first, then its header says so, and
\* last its number is free.  s.hdr is the caller's and stays.
RetireCounted(w, n) ==
    IF w.ok THEN ext2_free_inode(IF IsDir(w.hdr) THEN ext2_dirs_count_adjust(w, n, -1) ELSE w, n) ELSE w
RetireFreed(f, n) ==
    IF f.ok THEN RetireCounted(ext2_write_inode(f, n, [f.hdr EXCEPT !.blocks = Minus(@, f.out), !.dtime = TRUE,
                                                                    !.links = 0]), n)
            ELSE f
RetireRead(r, n) ==
    LET count == BlockCount(r.out)
    IN  IF ~r.ok THEN r
        ELSE IF r.out.dtime THEN Err(r)
        ELSE RetireFreed(ext2_free_blocks_from([r EXCEPT !.hdr = r.out], 0, IF count = 0 THEN 0 ELSE count - 1), n)
ext2_inode_retire(s, n) == [RetireRead(ext2_read_inode(s, n), n) EXCEPT !.hdr = s.hdr]

\* As a bug: the inode bitmap is left out.
ext2_sync_metadata_NoInodes(s) ==
    LET b == ext2_bitmap_sync(s, "bb")
    IN  IF s.fs.ro THEN Ok(s) ELSE Write(b, [b.disk EXCEPT !.cnt = b.fs.cnt])

\* What is only in memory goes to the disk: bitmaps, superblock, descriptors.
SyncWritten(w) == IF w.ok THEN [w EXCEPT !.fs.dirty = FALSE] ELSE w
SyncSuper(a) == IF a.ok THEN SyncWritten(Write(a, [a.disk EXCEPT !.cnt = a.fs.cnt])) ELSE a
SyncInodes(i) == IF ~i.ok \/ ~i.fs.dirty THEN i ELSE SyncSuper(Access(i))
SyncBlocks(b) == IF b.ok THEN SyncInodes(ext2_bitmap_sync(b, "ib")) ELSE b
ext2_sync_metadata(s) == IF s.fs.ro THEN Ok(s) ELSE SyncBlocks(ext2_bitmap_sync(s, "bb"))
=============================================================================
