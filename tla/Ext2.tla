-------------------------------- MODULE Ext2 --------------------------------
(***************************************************************************)
(* The ext2 driver (ext2.c): what each call of the mounted file system     *)
(* does to the disk and to the driver's memory, write by write.            *)
(*                                                                         *)
(* A call is one step (calls do not overlap, as in Registry), in which the *)
(* power may fail after any of its writes; the volume then comes back      *)
(* read-only, because it was not unmounted.  In the code a call names an   *)
(* inode_t; here it is the number that inode_t carries.                    *)
(***************************************************************************)
EXTENDS Ext2Dir

LOCAL INSTANCE SequencesExt

CONSTANTS
    Bytes,            \* what a write fills the file with
    Offsets, Lengths, \* where a READ or WRITE starts and how long it is
    Sizes,            \* what a file is resized to
    MaxCalls,         \* calls that change the disk in one behaviour
    MaxLooks,         \* calls that only read, after the last of those
    LinkTaken,        \* whether LINK is asked for names that are taken
    Failing,          \* per call: which of its accesses to the device fails, 0 for none
    FaultyCalls,      \* how many calls, the first ones, may meet such a failure
    Preloaded         \* the calls that made the disk what it is at first

VARIABLES
    disk,             \* what the device holds
    fs,               \* ext2_t while the volume is mounted
    mounted, crashed, \* the power failed once; since then the volume is not clean
    reply,            \* the last call and its answer
    dirpos,           \* of a directory handle: where READDIR goes on
    landed,           \* history: the inode of the last WRITE, the blocks it filled
    calls, looks

vars == <<disk, fs, mounted, crashed, reply, dirpos, landed, calls, looks>>

-----------------------------------------------------------------------------
\* Answers of a call in progress.
Answer(s, ret) == [s EXCEPT !.ok = ret = "ok", !.out = ret]
Outcome(s) == Answer(s, IF s.ok THEN "ok" ELSE "plainerr")
WithHdr(s, hdr) == [s EXCEPT !.hdr = hdr]
More(hdr, k) == [hdr EXCEPT !.links = @ + k]

\* A READ or a lookup in another second than the last one saves the inode.
ext2_touch_atime(s, n, hdr, later) ==
    IF s.fs.ro \/ ~later THEN s ELSE ext2_write_inode(s, n, hdr)

Regular == [NoHdr EXCEPT !.mode = "file", !.links = 1]
Directory == [NoHdr EXCEPT !.mode = "dir", !.links = 2]

\* What a failing CREATE leaves behind is retired.  The second ext2_free_inode
\* finds the number free already.
Abandon(s, n, ret) == Answer(ext2_free_inode(ext2_inode_retire(s, n), n), ret)

\* The first block of a new directory.
DirSaved(i, b) == IF i.ok THEN i ELSE Err(ext2_free_block(i, b))
DirWritten(w, n, b) ==
    IF ~w.ok THEN Err(ext2_free_block(w, b))
    ELSE DirSaved(ext2_write_inode(IF w.fs.dcache.dir = n THEN DropListing(w) ELSE w, n,
                                   [Directory EXCEPT !.block[0] = b, !.size = BlockSize, !.blocks = 1]), b)
DirAllocated(a, n, parent) ==
    IF a.ok THEN DirWritten(ext2_write_block(a, a.out, ext2_dirent_init_dir(n, parent)), n, a.out) ELSE a
DirCounted(adj, n, parent) == IF adj.ok THEN DirAllocated(ext2_alloc_block(adj), n, parent) ELSE adj
DirBlock(s, n, parent) == DirCounted(ext2_dirs_count_adjust(s, n, 1), n, parent)

\* CREATE: an inode, for a directory its block, the name, and the parent last.
\* s.hdr is the parent's header throughout.
CreateSaved(w, n, name) ==
    IF w.ok THEN Answer(w, "ok") ELSE Abandon(ext2_dirent_remove(w, name), n, "plainerr")
CreateNamed(add, n, d, name, kind) ==
    IF add.out = "added"
    THEN CreateSaved(ext2_write_inode(add, d, IF kind = "dir" THEN More(add.hdr, 1) ELSE add.hdr), n, name)
    ELSE Abandon(add, n, IF add.out = "exists" THEN "exists" ELSE "plainerr")
CreateMade(made, n, d, name, kind) ==
    IF made.ok THEN CreateNamed(ext2_dirent_add(made, d, n, name), n, d, name, kind)
               ELSE Abandon(made, n, "plainerr")
CreateWritten(w, n, d, name, kind) ==
    IF w.ok THEN CreateMade(IF kind = "dir" THEN DirBlock(w, n, d) ELSE w, n, d, name, kind)
            ELSE Answer(ext2_free_inode(w, n), "plainerr")
CreateInode(a, d, name, kind) ==
    IF a.ok THEN CreateWritten(ext2_write_inode(a, a.out, IF kind = "dir" THEN Directory ELSE Regular),
                               a.out, d, name, kind)
            ELSE Answer(a, "plainerr")
CreateSought(f, d, name, kind) ==
    IF f.ok THEN Answer(f, "exists") ELSE CreateInode(ext2_alloc_inode(f), d, name, kind)
CreateRead(r, d, name, kind) ==
    IF ~r.ok \/ ~IsDir(r.out) THEN Answer(r, "notfound")
    ELSE CreateSought(ext2_dirent_find(WithHdr(r, r.out), name), d, name, kind)
ext2_create(s, d, name, kind) ==
    IF s.fs.ro THEN Answer(s, "notsupported") ELSE CreateRead(ext2_read_inode(s, d), d, name, kind)

\* The inode loses one of several links; a failure puts the name back.  c is the
\* call: the directory, the name, the inode it names and that inode's header.
PutBack(s, c, was) == ext2_dirent_add(WithHdr(s, was), c.d, c.n, c.name)
DropLinkParent(p, c, was) ==
    IF p.ok THEN Answer(p, "ok")
    ELSE Answer(PutBack(ext2_write_inode(p, c.n, c.tgt), c, was), "plainerr")
DropLinkTarget(w, c, dih, was) ==
    IF w.ok THEN DropLinkParent(ext2_write_inode(w, c.d, dih), c, was)
            ELSE Answer(PutBack(w, c, was), "plainerr")
DropLink(s, c, dih, was) ==
    DropLinkTarget(ext2_write_inode(s, c.n, More(c.tgt, IF IsDir(c.tgt) THEN -2 ELSE -1)), c, dih, was)

\* The last link: the inode is retired.
Restored(a, c) ==
    Answer(IF a.out = "added" /\ IsDir(c.tgt) THEN ext2_write_inode(a, c.d, a.hdr) ELSE a, "plainerr")
Retired(r, c, dih, was) ==
    IF r.ok THEN Outcome(ext2_write_inode(r, c.d, dih)) ELSE Restored(PutBack(r, c, was), c)
DropInode(s, c, dih, was) == Retired(ext2_inode_retire(s, c.n), c, dih, was)

\* UNLINK.  s.hdr is the directory's header from UnlinkRead on.
UnlinkRemoved(rm, c) ==
    LET was == rm.hdr
        dih == IF IsDir(c.tgt) THEN More(was, -1) ELSE was
    IN  IF ~rm.ok THEN Answer(rm, "plainerr")
        ELSE IF IsDir(c.tgt) /\ was.links <= 1 THEN Answer(PutBack(rm, c, was), "plainerr")
        ELSE IF c.tgt.links > (IF IsDir(c.tgt) THEN 2 ELSE 1) THEN DropLink(rm, c, dih, was)
        ELSE DropInode(rm, c, dih, was)
UnlinkEmpty(e, c, was) ==
    IF ~e.ok THEN Answer(e, "plainerr")
    ELSE IF ~e.out THEN Answer(e, "busy")
    ELSE UnlinkRemoved(ext2_dirent_remove(WithHdr(e, was), c.name), c)
UnlinkStale(rm, d) == IF rm.ok THEN Outcome(ext2_write_inode(rm, d, rm.hdr)) ELSE Answer(rm, "plainerr")
UnlinkTarget(t, n, d, name) ==
    IF ~t.ok THEN Answer(t, "notfound")
    ELSE IF t.out.dtime THEN UnlinkStale(ext2_dirent_remove(t, name), d)
    ELSE UnlinkEmpty(IF IsDir(t.out) THEN ext2_dirent_is_empty(WithHdr(t, t.out)) ELSE Returns(t, TRUE),
                     [d |-> d, name |-> name, n |-> n, tgt |-> t.out], t.hdr)
UnlinkFound(f, d, name) ==
    IF f.ok THEN UnlinkTarget(ext2_read_inode(f, f.out), f.out, d, name) ELSE Answer(f, "notfound")
UnlinkRead(r, d, name) ==
    IF ~r.ok \/ ~IsDir(r.out) THEN Answer(r, "notfound")
    ELSE UnlinkFound(ext2_dirent_find(WithHdr(r, r.out), name), d, name)
ext2_unlink(s, d, name) ==
    IF s.fs.ro THEN Answer(s, "notsupported") ELSE UnlinkRead(ext2_read_inode(s, d), d, name)

RECURSIVE Climb(_, _, _, _), ClimbRead(_, _, _, _), ClimbUp(_, _, _, _)
ClimbUp(up, root, cur, hops) ==
    IF ~up.ok \/ up.out = cur THEN Returns(up, FALSE)
    ELSE IF up.out = root THEN Returns(up, TRUE)
    ELSE Climb(up, root, up.out, hops + 1)
ClimbRead(r, root, cur, hops) ==
    IF ~r.ok \/ ~IsDir(r.out) THEN Returns(r, FALSE)
    ELSE ClimbUp(ext2_dirent_find(WithHdr(r, r.out), ".."), root, cur, hops)
Climb(s, root, cur, hops) ==
    IF hops > NInodes \/ cur = Root \/ cur = 0 THEN Returns(s, FALSE)
    ELSE ClimbRead(ext2_read_inode(s, cur), root, cur, hops)

ext2_in_subtree(s, root, start) == IF root = start THEN Returns(s, TRUE) ELSE Climb(s, root, start, 0)

\* The bearer of the new name is unlinked first, and the header of the directory
\* read again.  s.out: "go", or the answer of the whole call.
ReplaceReread(r) == IF r.ok THEN Returns(WithHdr(r, r.out), "go") ELSE Returns(r, "notfound")
ReplaceGone(u, e) == IF u.ok THEN ReplaceReread(ext2_read_inode(u, e)) ELSE u
ReplaceEmpty(m, e, new) ==
    IF ~m.ok THEN Returns(m, "plainerr")
    ELSE IF ~m.out THEN Returns(m, "busy")
    ELSE ReplaceGone(ext2_unlink(m, e, new), e)
ReplaceTarget(t, e, new, is_dir) ==
    IF ~t.ok \/ t.out.dtime THEN Returns(t, "notfound")
    ELSE IF is_dir # IsDir(t.out) THEN Returns(t, "unsupported")
    ELSE ReplaceEmpty(IF is_dir THEN ext2_dirent_is_empty(WithHdr(t, t.out)) ELSE Returns(t, TRUE), e, new)
ReplaceFound(f, e, new, n, is_dir) ==
    IF ~f.ok THEN Returns(f, "go")
    ELSE IF f.out = n THEN Returns(f, "ok")
    ELSE ReplaceTarget(ext2_read_inode(f, f.out), e, new, is_dir)
Replace(s, e, new, n, is_dir) == ReplaceFound(ext2_dirent_find(s, new), e, new, n, is_dir)

\* A directory moves to another one: "..", then both link counts.  What fails
\* is taken back as far as it went.  c is the call, as of RenameTarget.
SavedBack(s, was_saved, n, hdr) == IF was_saved THEN ext2_write_inode(s, n, hdr) ELSE s
ParentsSaved(wn, old_ok, c, o, ndih) ==
    IF old_ok /\ wn.ok THEN Returns(wn, <<o, More(ndih, 1)>>)
    ELSE Err(ext2_dirent_remove(WithHdr(
             ext2_dirent_set_parent(
                 SavedBack(SavedBack(wn, old_ok, c.d, More(o, 1)), wn.ok, c.e, ndih), c.tgt, c.d),
             ndih), c.new))
OldSaved(wo, c, o, ndih) == ParentsSaved(ext2_write_inode(wo, c.e, More(ndih, 1)), wo.ok, c, o, ndih)
Reparented(p, c, o, ndih) ==
    IF p.ok THEN OldSaved(ext2_write_inode(p, c.d, o), c, o, ndih)
            ELSE Err(ext2_dirent_remove(WithHdr(p, ndih), c.new))
Reparent(s, c, ndih) ==
    Reparented(ext2_dirent_set_parent(s, c.tgt, c.e), c,
               IF c.odih.links > 1 THEN More(c.odih, -1) ELSE c.odih, ndih)

\* The old name goes last.
SaveTarget(p, c) == IF p.ok THEN Outcome(ext2_write_inode(p, c.n, c.tgt)) ELSE Answer(p, "plainerr")
SaveParent(wo, c, ndih) == IF wo.ok THEN ext2_write_inode(wo, c.e, ndih) ELSE wo
TakenBack(un, c, odih, ndih) ==
    Answer(IF c.moved
           THEN ext2_dirent_set_parent(
                    ext2_write_inode(ext2_write_inode(un, c.d, More(odih, 1)), c.e, More(ndih, -1)),
                    c.tgt, c.d)
           ELSE un, "plainerr")
OldRemoved(rm, c, odih, ndih) ==
    IF rm.ok
    THEN SaveTarget(IF c.moved THEN rm
                    ELSE SaveParent(IF c.d = c.e THEN rm ELSE ext2_write_inode(rm, c.d, odih), c, ndih), c)
    ELSE TakenBack(ext2_dirent_remove(WithHdr(rm, ndih), c.new), c, odih, ndih)
DropOld(s, c, odih, ndih) == OldRemoved(ext2_dirent_remove(WithHdr(s, odih), c.old), c, odih, ndih)

RenameMoved(par, c) ==
    IF par.ok THEN DropOld(par, c, par.out[1], par.out[2]) ELSE Answer(par, "plainerr")
RenameAdded(add, c) ==
    IF add.out # "added" THEN Answer(add, IF add.out = "exists" THEN "exists" ELSE "plainerr")
    ELSE IF c.moved THEN RenameMoved(Reparent(add, c, add.hdr), c)
    ELSE DropOld(add, c, c.odih, add.hdr)
RenameReplaced(rep, c) ==
    IF rep.out = "go" THEN RenameAdded(ext2_dirent_add(rep, c.e, c.n, c.new), c) ELSE Answer(rep, rep.out)
RenameClear(below, c, ndih) ==
    IF below.out THEN Answer(below, "busy")
    ELSE RenameReplaced(Replace(WithHdr(below, ndih), c.e, c.new, c.n, IsDir(c.tgt)), c)
RenameTarget(t, n, d, old, e, new, odih, ndih) ==
    LET moved == IsDir(t.out) /\ d # e
    IN  IF ~t.ok \/ t.out.dtime THEN Answer(t, "notfound")
        ELSE RenameClear(IF moved THEN ext2_in_subtree(t, n, e) ELSE Returns(t, FALSE),
                         [d |-> d, old |-> old, e |-> e, new |-> new, n |-> n, tgt |-> t.out,
                          moved |-> moved, odih |-> odih], ndih)
RenameFound(f, d, old, e, new, odih, ndih) ==
    IF f.ok THEN RenameTarget(ext2_read_inode(f, f.out), f.out, d, old, e, new, odih, ndih)
            ELSE Answer(f, "notfound")
RenameRead(rn, d, old, e, new, odih) ==
    IF ~rn.ok \/ ~IsDir(odih) \/ ~IsDir(rn.out) THEN Answer(rn, "notfound")
    ELSE IF d = e /\ old = new THEN Answer(rn, "ok")
    ELSE RenameFound(ext2_dirent_find(WithHdr(rn, odih), old), d, old, e, new, odih, rn.out)
RenameReadOld(ro, d, old, e, new) ==
    IF ro.ok THEN RenameRead(ext2_read_inode(ro, e), d, old, e, new, ro.out) ELSE Answer(ro, "notfound")
ext2_rename(s, d, old, e, new) ==
    IF s.fs.ro THEN Answer(s, "notsupported") ELSE RenameReadOld(ext2_read_inode(s, d), d, old, e, new)

LinkUndone(s, name) == Answer(ext2_dirent_remove(s, name), "plainerr")
LinkParent(p, n, tgt, name) ==
    IF p.ok THEN Answer(p, "ok") ELSE LinkUndone(ext2_write_inode(p, n, tgt), name)
LinkTarget(w, n, tgt, d, name) ==
    IF w.ok THEN LinkParent(ext2_write_inode(w, d, w.hdr), n, tgt, name) ELSE LinkUndone(w, name)
LinkNamed(add, n, tgt, d, name) ==
    IF add.out = "added" THEN LinkTarget(ext2_write_inode(add, n, More(tgt, 1)), n, tgt, d, name)
    ELSE Answer(add, IF add.out = "exists" THEN "exists" ELSE "plainerr")
LinkParentRead(r, n, tgt, d, name) ==
    IF ~r.ok \/ ~IsDir(r.out) THEN Answer(r, "notfound")
    ELSE LinkNamed(ext2_dirent_add(WithHdr(r, r.out), d, n, name), n, tgt, d, name)
LinkTargetRead(t, n, d, name) ==
    IF ~t.ok \/ t.out.dtime THEN Answer(t, "notfound")
    ELSE IF t.out.mode # "file" THEN Answer(t, "unsupported")
    ELSE LinkParentRead(ext2_read_inode(t, d), n, t.out, d, name)
ext2_link(s, n, d, name) ==
    IF s.fs.ro THEN Answer(s, "notsupported") ELSE LinkTargetRead(ext2_read_inode(s, n), n, d, name)

BlocksCut(f, size) ==
    IF f.ok THEN Returns(f, [f.hdr EXCEPT !.blocks = Minus(@, f.out), !.size = size]) ELSE Answer(f, "plainerr")
ext2_inode_resize(s, hdr, size) ==
    LET last == BlockCount(hdr)
    IN  IF size > NBlocks * BlockSize THEN Answer(s, "invalid")
        ELSE IF size >= hdr.size THEN Returns(s, [hdr EXCEPT !.size = size])
        ELSE BlocksCut(ext2_free_blocks_from(WithHdr(s, hdr), CeilDiv(size, BlockSize),
                                             IF last > 0 THEN last - 1 ELSE 0), size)

ResizeSaved(z, n) == IF z.ok THEN Outcome(ext2_write_inode(z, n, z.out)) ELSE z
ResizeRead(r, n, size) ==
    IF ~r.ok THEN Answer(r, "notfound")
    ELSE IF r.out.mode # "file" THEN Answer(r, "unsupported")
    ELSE ResizeSaved(ext2_inode_resize(r, r.out, size), n)
ext2_resize(s, n, size) ==
    IF s.fs.ro THEN Answer(s, "notsupported") ELSE ResizeRead(ext2_read_inode(s, n), n, size)

\* By name: the same, unless the inode was retired.
ext2_setattr(s, n, size) ==
    LET r == ext2_read_inode(s, n)
    IN  IF ~s.fs.ro /\ r.ok /\ r.out.dtime THEN Answer(r, "notfound") ELSE ext2_resize(s, n, size)

-----------------------------------------------------------------------------
\* Up to where the block of pos and the call both go.
PartEnd(pos, end) ==
    LET edge == (pos \div BlockSize + 1) * BlockSize IN IF edge < end THEN edge ELSE end

\* READ: what is mapped comes from the disk, the rest is zeros.
RECURSIVE ReadFrom(_, _, _, _, _), ReadMapped(_, _, _, _, _), ReadPart(_, _, _, _, _)
ReadPart(r, block, pos, end, bytes) ==
    LET to == PartEnd(pos, end)
    IN  IF ~r.ok THEN r
        ELSE ReadFrom(r, block, to, end, bytes \o [i \in 1..(to - pos) |-> r.out.bytes[(pos % BlockSize) + i - 1]])
ReadMapped(m, block, pos, end, bytes) ==
    ReadPart(IF m.ok THEN ext2_read_block(m, m.out) ELSE Returns(m, ZeroBlock), block, pos, end, bytes)
ReadFrom(s, block, pos, end, bytes) ==
    IF pos >= end THEN Returns(s, bytes)
    ELSE ReadMapped(ext2_map_block(s, block, pos \div BlockSize), block, pos, end, bytes)

ReadDone(got, n, hdr, later) ==
    IF got.ok THEN Returns(ext2_touch_atime(got, n, hdr, later), got.out) ELSE Answer(got, "plainerr")
ReadInode(r, n, offset, len, later) ==
    LET hdr == r.out
        end == IF offset + len > hdr.size THEN hdr.size ELSE offset + len
    IN  IF ~r.ok THEN Answer(r, "plainerr")
        ELSE IF offset >= hdr.size THEN Returns(ext2_touch_atime(r, n, hdr, later), <<>>)
        ELSE ReadDone(ReadFrom(r, hdr.block, offset, end, <<>>), n, hdr, later)
ext2_read(s, n, offset, len, later) == ReadInode(ext2_read_inode(s, n), n, offset, len, later)

\* WRITE, first half: a block for every place that has none.  claimed lists them.
RECURSIVE ClaimFrom(_, _, _, _), ClaimMapped(_, _, _, _), ClaimNew(_, _, _, _)
ClaimNew(a, i, end, claimed) ==
    IF a.ok THEN ClaimFrom(a, (i + 1) * BlockSize, end, Append(claimed, i)) ELSE [a EXCEPT !.out = claimed]
ClaimMapped(m, i, end, claimed) ==
    IF m.ok THEN ClaimFrom(m, (i + 1) * BlockSize, end, claimed)
            ELSE ClaimNew(ext2_map_block_alloc(m, i), i, end, claimed)
ClaimFrom(s, pos, end, claimed) ==
    LET i == pos \div BlockSize
    IN  IF pos >= end THEN Returns(s, claimed)
        ELSE ClaimMapped(ext2_map_block(s, s.hdr.block, i), i, end, claimed)

\* Second half: the data, a partial block by reading it first.
Filled(bytes, pos, v, len) ==
    [k \in 0..(BlockSize - 1) |-> IF k \in (pos % BlockSize)..((pos % BlockSize) + len - 1) THEN v ELSE bytes[k]]

RECURSIVE DataFrom(_, _, _, _), DataMapped(_, _, _, _), DataRead(_, _, _, _, _), DataWritten(_, _, _, _, _)
DataWritten(w, b, pos, end, v) ==
    IF w.ok THEN DataFrom([w EXCEPT !.to = @ \union {b}], PartEnd(pos, end), end, v) ELSE w
DataRead(r, b, pos, end, v) ==
    IF r.ok THEN DataWritten(ext2_write_block(r, b,
                     [r.disk.blk[b] EXCEPT !.bytes = Filled(@, pos, v, PartEnd(pos, end) - pos)]), b, pos, end, v)
            ELSE r
DataMapped(m, pos, end, v) ==
    IF ~m.ok THEN m
    ELSE DataRead(IF PartEnd(pos, end) - pos = BlockSize THEN m ELSE ext2_read_block(m, m.out),
                  m.out, pos, end, v)
DataFrom(s, pos, end, v) ==
    IF pos >= end THEN Ok(s)
    ELSE DataMapped(ext2_map_block(s, s.hdr.block, pos \div BlockSize), pos, end, v)

\* A WRITE that failed gives its blocks back and is as long as before.
RECURSIVE GiveBack(_, _, _), GivenBack(_, _, _)
GivenBack(f, claimed, freed) == GiveBack(f, claimed, IF f.ok THEN freed + f.out ELSE freed)
GiveBack(s, claimed, freed) ==
    IF claimed = <<>> THEN Returns(s, freed)
    ELSE GivenBack(ext2_free_index(s, Head(claimed)), Tail(claimed), freed)

RolledBack(g, n, size) == ext2_write_inode(g, n, [g.hdr EXCEPT !.blocks = Minus(@, g.out), !.size = size])
WriteFails(s, c, claimed, wrote) ==
    Answer(IF claimed # <<>> \/ wrote THEN RolledBack(GiveBack(s, claimed, 0), c.n, c.size) ELSE s, "plainerr")

\* As a bug: the inode follows the data.
OwnershipFirst_Never(claimed, end, size) == FALSE

\* ext2.c:1374: "ownership must be durable before any data lands in those blocks".
OwnershipFirst(claimed, end, size) == claimed # <<>> \/ end > size

\* c is the call: the inode, where it starts and ends, the byte, and how long the
\* file was.
Longer(s, end) == [s EXCEPT !.hdr.size = IF end > @ THEN end ELSE @]
SaveHdr(s, n) == ext2_write_inode(s, n, s.hdr)
WriteSaved(w, c, claimed) == IF w.ok THEN Answer(w, "ok") ELSE WriteFails(w, c, claimed, FALSE)
WriteFilled(d, c, claimed, early) ==
    IF ~d.ok THEN WriteFails(d, c, claimed, early)
    ELSE IF early THEN Answer(d, "ok") ELSE WriteSaved(SaveHdr(d, c.n), c, claimed)
WriteOwned(w, c, claimed, early) ==
    IF w.ok THEN WriteFilled(DataFrom(w, c.at, c.end, c.v), c, claimed, early)
            ELSE WriteFails(w, c, claimed, FALSE)
WriteClaimed(k, c, early) ==
    IF k.ok THEN WriteOwned(IF early THEN SaveHdr(Longer(k, c.end), c.n) ELSE k, c, k.out, early)
            ELSE WriteFails(k, c, k.out, FALSE)
WriteMapped(k, c) == WriteClaimed(k, c, OwnershipFirst(k.out, c.end, c.size))
WriteRead(r, n, offset, end, v) ==
    IF ~r.ok THEN Answer(r, "plainerr")
    ELSE WriteMapped(ClaimFrom(WithHdr(r, r.out), offset, end, <<>>),
                     [n |-> n, at |-> offset, end |-> end, v |-> v, size |-> r.out.size])
ext2_write(s, n, offset, len, v) ==
    IF s.fs.ro \/ offset + len > NBlocks * BlockSize THEN Answer(s, "plainerr")
    ELSE IF len = 0 THEN Answer(s, "ok")
    ELSE WriteRead(ext2_read_inode(s, n), n, offset, offset + len, v)

-----------------------------------------------------------------------------
\* READDIR keeps the directory it read last, and one block of it.  The cursor is
\* a position in units; what cannot be read is skipped.
ListRead(r, i) ==
    IF r.ok THEN [r EXCEPT !.fs.dcache.block = i + 1, !.fs.dcache.recs = r.out.recs] ELSE r
ListMapped(m, i) == IF m.ok THEN ListRead(ext2_read_block(m, m.out), i) ELSE m

RECURSIVE ListFrom(_, _), ListLoaded(_, _), ListChild(_, _, _)
ListChild(ch, d, cursor) ==
    IF ~ch.ok \/ ch.out.dtime THEN ListFrom(ch, cursor + d.len)
    ELSE Returns(ch, [name |-> d.name, cursor |-> cursor + d.len])
ListLoaded(l, cursor) ==
    LET recs == l.fs.dcache.recs
        at == {k \in DOMAIN recs : Units(SubSeq(recs, 1, k - 1)) = cursor % DirUnits}
        d == recs[Least(at)]
    IN  IF ~l.ok \/ at = {}
        THEN ListFrom([l EXCEPT !.fs.dcache.block = 0], (cursor \div DirUnits + 1) * DirUnits)
        ELSE IF d.ino = 0 THEN ListFrom(l, cursor + d.len)
        ELSE ListChild(ext2_read_inode(l, d.ino), d, cursor)
ListFrom(s, cursor) ==
    LET c == s.fs.dcache
        i == cursor \div DirUnits
    IN  IF i * BlockSize >= c.size
        THEN Returns(s, [name |-> "end", cursor |-> (c.size \div BlockSize) * DirUnits])
        ELSE ListLoaded(IF c.block = i + 1 THEN Ok(s) ELSE ListMapped(ext2_map_block(s, c.blocks, i), i), cursor)

ReaddirTouched(t, n, hdr, cursor) ==
    ListFrom(IF t.fs.dcache.dir = n THEN t
             ELSE [t EXCEPT !.fs.dcache = [dir |-> n, size |-> hdr.size, blocks |-> hdr.block,
                                           block |-> 0, recs |-> <<>>]], cursor)
ReaddirRead(r, n, cursor, later) ==
    IF ~r.ok \/ ~IsDir(r.out) THEN Answer(r, "plainerr")
    ELSE ReaddirTouched(ext2_touch_atime(r, n, r.out, later), n, r.out, cursor)
ext2_readdir(s, n, cursor, later) == ReaddirRead(ext2_read_inode(s, n), n, cursor, later)

\* The part of ext2_lookup that is not in Registry: it reads, and stamps.
LookupChild(c) == IF ~c.ok \/ c.out.dtime THEN Answer(c, "notfound") ELSE Returns(c, c.out.mode)
LookupFound(f) == IF f.ok THEN LookupChild(ext2_read_inode(f, f.out)) ELSE Answer(f, "notfound")
LookupRead(r, d, name, later) ==
    IF ~r.ok \/ ~IsDir(r.out) THEN Answer(r, "notfound")
    ELSE LookupFound(ext2_dirent_find(WithHdr(ext2_touch_atime(r, d, r.out, later), r.out), name))
ext2_lookup(s, d, name, later) == LookupRead(ext2_read_inode(s, d), d, name, later)

-----------------------------------------------------------------------------
NoBitmap == [group |-> -1, used |-> {}, dirty |-> FALSE]
NoListing == [dir |-> 0, size |-> 0, blocks |-> NoHdr.block, block |-> 0, recs |-> <<>>]

\* kmalloc hands out zeroed memory, so every cache starts empty.
Fresh(d) ==
    [bb |-> NoBitmap, ib |-> NoBitmap, cnt |-> d.cnt, dirty |-> FALSE, bhint |-> 0, ihint |-> 0,
     pending |-> <<>>, icache |-> [i \in 1..InodeCacheSlots |-> [num |-> 0, hdr |-> NoHdr]],
     icnext |-> 1, ind |-> [block |-> 0, ptr |-> ZeroBlock.ptr], dcache |-> NoListing,
     ro |-> ~d.clean]

Start(d, f) ==
    [disk |-> d, fs |-> f, hdr |-> NoHdr, ok |-> TRUE, out |-> "ok", past |-> {d}, left |-> 0, to |-> {}]

ext2_mount(d) ==
    LET s == Start(d, Fresh(d))
        w == Write(s, [d EXCEPT !.clean = FALSE])
    IN  IF s.fs.ro THEN s ELSE IF w.ok THEN w ELSE [w EXCEPT !.fs.ro = TRUE]

Finished(f) == IF f.ok THEN Write(f, [f.disk EXCEPT !.clean = TRUE]) ELSE f
ext2_finish(s) == IF s.fs.ro THEN s ELSE Finished(ext2_sync_metadata(ext2_pending_free_flush(s)))

\* The volume as it is made: a root directory, the tables in the first block of
\* each group.
Tables == {g * BlocksPerGroup + 1 : g \in Groups}
RootBlock == FirstAllocatable
Made ==
    LET marked == Tables \union 1..RootBlock
        reserved == 1..(FirstInode - 1)
    IN  [bm |-> [bb |-> [g \in Groups |-> BlocksOf(g) \intersect marked],
                 ib |-> [g \in Groups |-> InodesOf(g) \intersect reserved]],
         cnt |-> [blocks |-> [g \in Groups |-> Cardinality(BlocksOf(g) \ marked)],
                  inodes |-> [g \in Groups |-> Cardinality(InodesOf(g) \ reserved)],
                  dirs |-> [g \in Groups |-> IF g = 0 THEN 1 ELSE 0]],
         ino |-> [n \in Inums |-> IF n = Root
                    THEN [Directory EXCEPT !.block[0] = RootBlock, !.size = BlockSize, !.blocks = 1]
                    ELSE NoHdr],
         blk |-> [b \in Blocks |-> IF b = RootBlock THEN ext2_dirent_init_dir(Root, Root) ELSE ZeroBlock],
         clean |-> TRUE]

PreloadCall(s, c) ==
    CASE c.op = "create" -> ext2_create(s, c.dir, c.name, c.kind)
      [] c.op = "link" -> ext2_link(s, c.node, c.dir, c.name)
      [] c.op = "unlink" -> ext2_unlink(s, c.dir, c.name)
      [] c.op = "write" -> ext2_write(s, c.node, c.at, c.len, c.byte)
Preload(s, script) == FoldLeft(PreloadCall, s, script)

NoFs == [Fresh(Made) EXCEPT !.ro = TRUE]
NoReply == [op |-> "none", args |-> <<>>, ret |-> "ok"]
NoData == [node |-> 0, blocks |-> {}]

Init ==
    /\ \E script \in Preloaded : disk = ext2_finish(Preload(ext2_mount(Made), script)).disk
    /\ fs = NoFs /\ mounted = FALSE /\ crashed = FALSE
    /\ reply = NoReply /\ dirpos = 0 /\ landed = NoData
    /\ calls = 0 /\ looks = 0

-----------------------------------------------------------------------------
\* What can be named: a directory or file that some live directory lists.
Live(d, n) == d.ino[n].mode # "none" /\ ~d.ino[n].dtime

RECURSIVE Mapped(_, _, _)
Mapped(d, b, slots) ==
    IF ~Valid(b) \/ slots = <<>> THEN b ELSE Mapped(d, d.blk[b].ptr[Head(slots)], Tail(slots))
BlockOf(d, n, i) ==
    IF i < NDir THEN d.ino[n].block[i]
    ELSE Mapped(d, d.ino[n].block[ext2_block_slot(i).root], ext2_block_slot(i).slots)

Indices(d, n) == {i \in 0..(BlockCount(d.ino[n]) - 1) : Valid(BlockOf(d, n, i))}
Records(d, n) ==
    UNION {LET recs == d.blk[BlockOf(d, n, i)].recs IN {recs[k] : k \in DOMAIN recs} : i \in Indices(d, n)}
Entries(d, n) == {r \in Records(d, n) : r.ino # 0}
Listed(d) == UNION {{r.ino : r \in {x \in Entries(d, n) : x.name \in Names}} :
                       n \in {m \in Inums : Live(d, m) /\ IsDir(d.ino[m])}}
Nodes(d) == {Root} \union {n \in Listed(d) : Live(d, n)}
DirNodes(d) == {n \in Nodes(d) : IsDir(d.ino[n])}
FileNodes(d) == {n \in Nodes(d) : d.ino[n].mode = "file"}

Faults(op) == IF calls < FaultyCalls THEN Failing[op] ELSE {0}
Now(fault) == [Start(disk, fs) EXCEPT !.left = fault]

\* A call completes, or the power fails after one of its writes.
Does(op, args, s) ==
    \/ /\ disk' = s.disk /\ fs' = s.fs
       /\ reply' = [op |-> op, args |-> args, ret |-> s.out]
       /\ landed' = IF op = "write" /\ s.out = "ok" THEN [node |-> args[1], blocks |-> s.to] ELSE NoData
       /\ UNCHANGED <<mounted, crashed>>
    \/ /\ disk' \in s.past
       /\ fs' = NoFs /\ mounted' = FALSE /\ crashed' = TRUE
       /\ reply' = NoReply
       /\ landed' = IF op # "write" THEN NoData
                    ELSE [node |-> args[1],
                          blocks |-> {b \in s.to : disk'.blk[b].bytes \notin {disk.blk[b].bytes, ZeroBlock.bytes}}]

Changes(op, args, s) ==
    /\ mounted /\ calls < MaxCalls /\ calls' = calls + 1
    /\ \E r \in {s} : Does(op, args, r)
    /\ UNCHANGED <<dirpos, looks>>

Looks(op, args, s) ==
    /\ mounted /\ looks < MaxLooks /\ looks' = looks + 1
    /\ \E r \in {s} : disk' = r.disk /\ fs' = r.fs
    /\ landed' = NoData
    /\ UNCHANGED <<mounted, crashed, calls>>

Create ==
    \E d \in DirNodes(disk), x \in Names, kind \in {"file", "dir"}, f \in Faults("create") :
        Changes("create", <<d, x, kind>>, ext2_create(Now(f), d, x, kind))
Unlink ==
    \E d \in DirNodes(disk), x \in Names, f \in Faults("unlink") : Changes("unlink", <<d, x>>, ext2_unlink(Now(f), d, x))
Rename ==
    \E d, e \in DirNodes(disk), x, y \in Names, f \in Faults("rename") :
        Changes("rename", <<d, x, e, y>>, ext2_rename(Now(f), d, x, e, y))
Link ==
    \E n \in FileNodes(disk), d \in DirNodes(disk), x \in Names, f \in Faults("link") :
        /\ LinkTaken \/ \A r \in Entries(disk, d) : r.name # x
        /\ Changes("link", <<n, d, x>>, ext2_link(Now(f), n, d, x))
WriteFile ==
    \E n \in FileNodes(disk), at \in Offsets, len \in Lengths, v \in Bytes, f \in Faults("write") :
        Changes("write", <<n, at, len, v>>, ext2_write(Now(f), n, at, len, v))
Resize ==
    \E n \in FileNodes(disk), size \in Sizes, f \in Faults("resize") :
        \/ Changes("resize", <<n, size>>, ext2_resize(Now(f), n, size))
        \/ Changes("resize", <<n, size>>, ext2_setattr(Now(f), n, size))
ReadFile ==
    \E n \in FileNodes(disk), at \in Offsets, len \in Lengths, later \in BOOLEAN :
        LET s == ext2_read(Now(0), n, at, len, later)
        IN  /\ Looks("read", <<n, at, len>>, s)
            /\ reply' = [op |-> "read", args |-> <<n, at, len>>, ret |-> s.out]
            /\ UNCHANGED dirpos
Readdir ==
    \E n \in DirNodes(disk), from \in {0, dirpos}, later \in BOOLEAN :
        LET s == ext2_readdir(Now(0), n, from, later)
        IN  /\ Looks("readdir", <<n>>, s)
            /\ reply' = [op |-> "readdir", args |-> <<n>>, ret |-> s.out.name]
            /\ dirpos' = s.out.cursor
Lookup ==
    \E d \in DirNodes(disk), x \in Names, later \in BOOLEAN :
        LET s == ext2_lookup(Now(0), d, x, later)
        IN  /\ Looks("lookup", <<d, x>>, s)
            /\ reply' = [op |-> "lookup", args |-> <<d, x>>, ret |-> s.out]
            /\ UNCHANGED dirpos

Mounting(s, is) ==
    /\ disk' = s.disk /\ fs' = s.fs /\ mounted' = is
    /\ reply' = NoReply /\ landed' = NoData
    /\ UNCHANGED <<crashed, dirpos, calls, looks>>

Mount == ~mounted /\ Mounting(ext2_mount(disk), TRUE)
Unmount == mounted /\ LET s == ext2_finish(Now(0)) IN Mounting([s EXCEPT !.fs = NoFs], FALSE)

Next ==
    \/ Create \/ Unlink \/ Rename \/ Link \/ WriteFile \/ Resize
    \/ ReadFile \/ Readdir \/ Lookup
    \/ Mount \/ Unmount

Spec == Init /\ [][Next]_vars

-----------------------------------------------------------------------------
(***************************************************************************)
(* Properties.                                                             *)
(***************************************************************************)

\* The blocks of an inode, those of its indirect trees included, each with the
\* way to it.
RECURSIVE Below(_, _, _, _)
Below(d, b, depth, way) ==
    IF b = 0 THEN {}
    ELSE {<<way, b>>} \union
         (IF depth = 0 \/ ~Valid(b) THEN {}
          ELSE UNION {Below(d, d.blk[b].ptr[k], depth - 1, Append(way, k)) : k \in 0..(Apb - 1)})
Owned(d, n) ==
    UNION {Below(d, d.ino[n].block[i], IF i < NDir THEN 0 ELSE i - NDir + 1, <<n, i>>) : i \in Slots}
BlocksOwned(d, n) == {o[2] : o \in Owned(d, n)}

Marked(d, which) == UNION {d.bm[which][g] : g \in Groups}
InUse(d) == {n \in Marked(d, "ib") : Live(d, n)}

\* Wherever the power fails between two writes of ext2_create, ext2_unlink,
\* ext2_rename, ext2_write..., the disk can still be read: every name leads to an
\* inode that is in use, and every block an inode in use points at is marked and
\* belongs to it alone.
Recoverable ==
    LET owned == UNION {Owned(disk, n) : n \in InUse(disk)}
    IN  /\ \A n \in InUse(disk) : IsDir(disk.ino[n]) => \A r \in Entries(disk, n) : r.ino \in InUse(disk)
        /\ \A o \in owned : o[2] \in Marked(disk, "bb") \ Tables
        /\ \A o, p \in owned : o[2] = p[2] => o = p

\* Every name there is, with the directory that lists it.
AllNames(d) == UNION {{<<m, r>> : r \in Entries(d, m)} : m \in InUse(d)}

\* An unmounted volume that ext2_finish called clean is consistent to the last
\* counter: what is marked is what is used, an inode has as many links as names,
\* as many blocks as it says, and the descriptors count what is free.
CleanIsConsistent ==
    LET names == AllNames(disk)
    IN  disk.clean =>
        /\ InUse(disk) = Nodes(disk)
        /\ Marked(disk, "ib") = 1..(FirstInode - 1) \union Nodes(disk)
        /\ Marked(disk, "bb") = Tables \union UNION {BlocksOwned(disk, n) : n \in InUse(disk)}
        /\ \A n \in InUse(disk) :
              /\ disk.ino[n].links = Cardinality({x \in names : x[2].ino = n})
              /\ disk.ino[n].blocks = Cardinality(BlocksOwned(disk, n))
        /\ \A g \in Groups :
              /\ disk.cnt.blocks[g] = Cardinality(BlocksOf(g) \ disk.bm.bb[g])
              /\ disk.cnt.inodes[g] = Cardinality(InodesOf(g) \ disk.bm.ib[g])
              /\ disk.cnt.dirs[g] = Cardinality({n \in DirNodes(disk) : n \in InodesOf(g)})

\* ext2.c:1374: "ownership must be durable before any data lands in those
\* blocks".  What a WRITE has filled is its file's on the disk, when it returns
\* and wherever the power fails.
DataLandsInOwnBlocks == landed.blocks \subseteq (IF landed.node = 0 THEN {} ELSE BlocksOwned(disk, landed.node))

\* The volume is a FileStore, seen through the names and the bytes on the disk.
NamesIn(d, n) ==
    LET named == {r \in Entries(d, n) : r.name \in Names}
    IN  [x \in {r.name : r \in named} |-> (CHOOSE r \in named : r.name = x).ino]
DataIn(d, n) ==
    [i \in 1..d.ino[n].size |->
        LET b == BlockOf(d, n, (i - 1) \div BlockSize)
        IN  IF Valid(b) THEN d.blk[b].bytes[(i - 1) % BlockSize] ELSE 0]
Store(d) ==
    LET nodes == Nodes(d)
    IN  [n \in Inums |-> IF n \notin nodes THEN [kind |-> "none"]
                         ELSE IF IsDir(d.ino[n]) THEN [kind |-> "dir", names |-> NamesIn(d, n)]
                         ELSE [kind |-> "file", data |-> DataIn(d, n)]]

Promised == INSTANCE FileStore WITH
    Ids <- Inums, Root <- Root, FileNames <- Names, Bytes <- Bytes,
    Lengths <- Offsets \union Lengths \union Sizes,
    Failures <- {"exists", "notfound", "plainerr", "busy", "unsupported", "notsupported", "invalid"},
    store <- Store(disk), reply <- reply, up <- ~crashed

\* Every call, whatever is cached, does to the names and bytes on the disk what
\* it promises, or nothing.
IsFileStore == Promised!Spec
=============================================================================
