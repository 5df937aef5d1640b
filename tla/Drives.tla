------------------------------- MODULE Drives -------------------------------
(***************************************************************************)
(* Block devices: reads and writes of bytes by handles (block.c) and by    *)
(* file systems (utils.c), partitions (pardet.c), the RAM disk, and the    *)
(* disk and CD-ROM that share one IDE channel (ide.c, ata.c, atapi.c).     *)
(*                                                                         *)
(* A task holds the channel for one request, which a drive serves sector   *)
(* by sector; between two steps of one task the others run.  A drive may   *)
(* stop answering in the middle of it, and does until it is reset.         *)
(***************************************************************************)
EXTENDS Integers, Sequences, FiniteSets, SequencesExt

CONSTANTS
    DiskUsers,        \* tasks
    NoUserYet,        \* nobody
    SectorSize,       \* bytes in a sector
    Machines,         \* drives: [slots, answers, words, signed, mbr, last], what the slots, IDENTIFY, the
                      \* first sector and READ CAPACITY say
    ATA_MAX_LBA28,    \* the last sector that 28 bits can name
    AllOnes,          \* the 48 bit total of a drive that has no such words
    RamSectors,       \* blocks of the RAM disk
    MaxChunk,         \* sectors that one command transfers
    Windows,          \* what each task reads and writes: sets of [dev, off, len, handle]
    Faults,           \* drives that may stop answering
    MaxFaults, MaxJobs

ASSUME DrivesAssumption ==
    /\ NoUserYet \notin DiskUsers
    /\ {SectorSize, MaxChunk} \subseteq Nat \ {0} /\ {RamSectors, MaxFaults, MaxJobs, ATA_MAX_LBA28} \subseteq Nat

\* What a partition table, a drive's answer and a caller's arguments can hold.
ASSUME MachinesAssumption ==
    /\ \A m \in Machines :
          /\ m.words.lo28 \in Nat /\ m.words.total \in Nat /\ m.last \in Int /\ m.signed \in BOOLEAN
          /\ \A e \in DOMAIN m.mbr : {m.mbr[e].start, m.mbr[e].count} \subseteq [1..4 -> 0..255]
    /\ \A t \in DiskUsers : \A w \in Windows[t] : w.off \in Nat /\ w.len \in Nat /\ w.handle \in BOOLEAN

VARIABLES
    disk,             \* ide_drive_t of the disk: sectors, and whether writes stay in its cache
    devs,             \* registered block devices
    media,            \* bytes on each drive
    busy,             \* who holds the channel
    drive,            \* what the channel's taskfile makes a drive do
    stuck,            \* drives that do not answer
    job,              \* per task: what it is doing
    pos,              \* per task: the offsets of its handles
    shadow,           \* what each byte may be, by the writes that were made
    faults, jobs

driveVars == <<disk, devs, media, busy, drive, stuck, job, pos, shadow, faults, jobs>>

-----------------------------------------------------------------------------
(***************************************************************************)
(* Finding the devices.                                                    *)
(***************************************************************************)
\* What answers in a slot, by the signature that a reset leaves in its registers.
ide_probe_channel(r) ==
    CASE r.sec # 0 /\ r.mid = 20 /\ r.hi = 235 -> "cdrom"
      [] r.sec # 0 /\ r.mid = 0 /\ r.hi = 0 -> "disk"
      [] OTHER -> "none"

\* A disk must also answer IDENTIFY.
ide_identify(m) == "disk" \in {ide_probe_channel(r) : r \in m.slots} /\ m.answers

\* The addressable sectors: those of 48 bits when they are believable.
ata_apply_identify(w) ==
    LET lo28 == IF w.lo28 > ATA_MAX_LBA28 THEN ATA_MAX_LBA28 ELSE w.lo28
    IN  [sectors |-> IF w.lba48 /\ w.total \notin {0, AllOnes} /\ w.total >= lo28 THEN w.total ELSE lo28,
         flushes |-> w.cache /\ w.flush]

\* The capacity is the address of the last sector; without an answer there is none.
atapi_read_capacity(m) == IF m.last >= 0 THEN m.last + 1 ELSE 0

\* read_le32 leaves its last byte where it is.
read_le32(b) == b[1] + 256 * b[2] + 65536 * b[3] + b[4]

Usable(e, sectors) ==
    /\ e.type \notin {"empty", "gpt"} /\ e.status \in {0, 128}
    /\ read_le32(e.count) # 0 /\ read_le32(e.start) + read_le32(e.count) <= sectors

\* A first sector without the signature holds no table.
pardet_create_partitions(m, sectors) ==
    [i \in {k \in DOMAIN m.mbr : m.signed /\ Usable(m.mbr[k], sectors)} |->
        [drive |-> "disk", start |-> read_le32(m.mbr[i].start), count |-> read_le32(m.mbr[i].count)]]

WholeDrive(d, n) == [drive |-> d, start |-> 0, count |-> n]

\* The disk and its partitions, the CD-ROM, and the RAM disk.
ata_attach(m) ==
    LET d == ata_apply_identify(m.words)
        parts == pardet_create_partitions(m, d.sectors)
    IN  IF ide_identify(m) /\ d.sectors # 0
        THEN [p \in DOMAIN parts \union {"disk"} |-> IF p = "disk" THEN WholeDrive(p, d.sectors) ELSE parts[p]]
        ELSE <<>>
atapi_attach(m) ==
    [c \in {ide_probe_channel(r) : r \in m.slots} \intersect {"cdrom"} |-> WholeDrive(c, atapi_read_capacity(m))]
ramblock_init == [r \in {"ram"} |-> WholeDrive(r, RamSectors)]

\* A name that is registered stays with its device.
Registered(ds, more) == [d \in DOMAIN ds \union DOMAIN more |-> IF d \in DOMAIN ds THEN ds[d] ELSE more[d]]

-----------------------------------------------------------------------------
(***************************************************************************)
(* A request: the blocks that the bytes are in.                            *)
(***************************************************************************)
NoJob == [at |-> "idle", op |-> "none", dev |-> "ram", off |-> 0, len |-> 0, buf |-> <<>>,
          todo |-> "none", done |-> 0, i |-> 0, handle |-> FALSE]
FirstBlock(j) == j.off \div SectorSize
Blocks(j) == (j.off + j.len - 1) \div SectorSize - FirstBlock(j) + 1
Aligned(j) == j.off % SectorSize = 0 /\ j.len % SectorSize = 0
Fits(j) == FirstBlock(j) + Blocks(j) <= devs[j.dev].count
Sector(j) == devs[j.dev].start + FirstBlock(j) + j.done + j.i
DriveOf(j) == devs[j.dev].drive
OnChannel(j) == DriveOf(j) \in {"disk", "cdrom"}

\* Bytes of the medium.
Place(j, k) == (devs[j.dev].start * SectorSize) + j.off + k
Window(j) == {<<DriveOf(j), Place(j, k)>> : k \in 0..(j.len - 1)}

\* The blocks that were read, with the new bytes in their place; every task writes
\* its own mark.
Patched(j, t) ==
    LET skip == j.off - FirstBlock(j) * SectorSize
    IN  [k \in 1..(Blocks(j) * SectorSize) |-> IF k - 1 \in skip..(skip + j.len - 1) THEN t ELSE j.buf[k]]

\* As a bug: blocks that are written in part are not read back first.
Readback_Tail(j) == j.op = "write" /\ j.off % SectorSize # 0

\* A write of parts of blocks has to read what stays.
Readback(j) == j.op = "write" /\ ~Aligned(j)

\* Bytes that are about to be written.
Written(j, t) == [b \in DOMAIN shadow |-> IF b \in Window(j) THEN shadow[b] \union {t} ELSE shadow[b]]

\* What reaches a drive.  Beyond the device nothing is done, but nobody asks how many
\* sectors a CD-ROM has before READ of a handle; and what a write would keep of a
\* CD-ROM's blocks is read before the drive turns the write down.
Admitted(j) ==
    /\ j.len # 0
    /\ Fits(j) \/ (j.handle /\ j.op = "read" /\ DriveOf(j) = "cdrom")
    /\ (j.op = "write" /\ DriveOf(j) = "cdrom") => Readback(j)

\* READ and WRITE of a handle, and block_read_bytes and block_write_bytes.
Ask(t, op, w) ==
    LET off == IF w.handle THEN pos[t][w.dev] ELSE w.off
        j == [NoJob EXCEPT !.op = op, !.dev = w.dev, !.off = off, !.len = w.len, !.handle = w.handle,
                           !.buf = IF op = "write" THEN [k \in 1..(w.len + 2 * SectorSize) |-> 0] ELSE <<>>]
        reads == op = "read" \/ Readback(j)
        first == IF OnChannel(j) THEN "acquire" ELSE "copy"
    IN  /\ job[t].at = "idle" /\ jobs < MaxJobs /\ jobs' = jobs + 1
        /\ w.dev \in DOMAIN devs /\ Admitted(j)
        /\ job' = [job EXCEPT ![t] = [j EXCEPT !.at = first, !.todo = IF reads THEN "read" ELSE "write",
                                               !.buf = IF reads THEN <<>> ELSE Patched(j, t)]]
        /\ shadow' = IF reads THEN shadow ELSE Written(j, t)
        /\ UNCHANGED <<disk, devs, media, busy, drive, stuck, pos, faults>>

\* block_seek_op, from the start: the position is clamped to the device.
BlockSeek(t, w) ==
    /\ job[t].at = "idle" /\ w.handle /\ w.dev \in DOMAIN devs
    /\ LET size == devs[w.dev].count * SectorSize
       IN  pos' = [pos EXCEPT ![t][w.dev] = IF w.off > size THEN size ELSE w.off]
    /\ UNCHANGED <<disk, devs, media, busy, drive, stuck, job, shadow, faults, jobs>>

-----------------------------------------------------------------------------
(***************************************************************************)
(* The channel.                                                            *)
(***************************************************************************)
NoCommand == [to |-> "none", sector |-> 0, left |-> 0, write |-> FALSE]

\* As a bug: the test of the lock and its setting are not one step.
ide_channel_acquire_Races == TRUE

ide_channel_acquire == busy = NoUserYet

Acquire(t) ==
    /\ job[t].at = "acquire" /\ ide_channel_acquire
    /\ busy' = t /\ job' = [job EXCEPT ![t].at = "command", ![t].i = 0]
    /\ UNCHANGED <<disk, devs, media, drive, stuck, pos, shadow, faults, jobs>>

\* Sectors of the next command: a chunk for a disk, one for a CD-ROM.
Chunk(j) == LET left == Blocks(j) - j.done
                most == IF DriveOf(j) = "cdrom" THEN 1 ELSE MaxChunk
            IN  IF left < most THEN left ELSE most

\* The medium has the next sector.
Present(j) == Sector(j) * SectorSize \in DOMAIN media[DriveOf(j)]

\* The drive is ready: the taskfile is written and the command given.
Command(t) ==
    LET j == job[t]
    IN  /\ j.at = "command" /\ DriveOf(j) \notin stuck /\ Present(j)
        /\ drive' = [to |-> DriveOf(j), sector |-> Sector(j), left |-> Chunk(j), write |-> j.todo = "write"]
        /\ job' = [job EXCEPT ![t].at = "data"]
        /\ UNCHANGED <<disk, devs, media, busy, stuck, pos, shadow, faults, jobs>>

\* What the task has for the next sector, or the sector it is given.
SectorBytes(d, s) == [k \in 1..SectorSize |-> media[d][s * SectorSize + k - 1]]
Slice(j) == SubSeq(j.buf, (j.done + j.i) * SectorSize + 1, (j.done + j.i + 1) * SectorSize)
Put(d, s, bytes) ==
    [media EXCEPT ![d] = [b \in DOMAIN @ |-> IF b \div SectorSize = s THEN bytes[(b % SectorSize) + 1] ELSE @[b]]]

Transfer(t, sector) ==
    LET j == job[t]
    IN  IF j.todo = "read"
        THEN /\ job' = [job EXCEPT ![t].buf = @ \o SectorBytes(DriveOf(j), sector), ![t].i = @ + 1]
             /\ UNCHANGED media
        ELSE /\ media' = Put(DriveOf(j), sector, Slice(j))
             /\ job' = [job EXCEPT ![t].i = @ + 1]

\* One data phase: the drive's next sector.
DataPhase(t) ==
    /\ job[t].at = "data" /\ drive.left > 0 /\ drive.to \notin stuck /\ job[t].i < Chunk(job[t])
    /\ Transfer(t, drive.sector)
    /\ drive' = [drive EXCEPT !.sector = @ + 1, !.left = @ - 1]
    /\ UNCHANGED <<disk, devs, busy, stuck, pos, shadow, faults, jobs>>

\* After the chunk: the next one, or what follows the request.
EndChunk(t) ==
    LET j == job[t]
        k == [j EXCEPT !.done = @ + j.i, !.i = 0]
        over == k.done = Blocks(j)
        again == IF DriveOf(j) = "cdrom" THEN "acquire" ELSE "command"
        lets == over \/ DriveOf(j) = "cdrom"
        flush == over /\ j.todo = "write" /\ disk.flushes
    IN  /\ j.at = "data" /\ j.i = Chunk(j) /\ drive.to \notin stuck
        /\ drive' = NoCommand
        /\ job' = [job EXCEPT ![t] = [k EXCEPT !.at = IF flush THEN "flush" ELSE IF over THEN "moved" ELSE again]]
        /\ busy' = IF lets /\ ~flush THEN NoUserYet ELSE busy
        /\ UNCHANGED <<disk, devs, media, stuck, pos, shadow, faults, jobs>>

\* ata_flush_cache, once for the whole request.
Flush(t) ==
    /\ job[t].at = "flush" /\ "disk" \notin stuck
    /\ job' = [job EXCEPT ![t].at = "moved"] /\ busy' = NoUserYet
    /\ UNCHANGED <<disk, devs, media, drive, stuck, pos, shadow, faults, jobs>>

\* As a bug: the channel is kept when a command fails.
Holder_Kept == busy

\* What a failed request leaves of the lock.
Holder == NoUserYet

\* A wait for the drive times out.  The disk's driver resets the channel, unless
\* it was waiting for a flush.
Timeout(t) ==
    LET j == job[t]
    IN  /\ j.at \in {"command", "data", "flush"} /\ DriveOf(j) \in stuck
        /\ job' = [job EXCEPT ![t].at = "failed"] /\ busy' = Holder
        /\ IF DriveOf(j) = "disk" /\ j.at # "flush" THEN drive' = NoCommand /\ stuck' = {}
           ELSE UNCHANGED <<drive, stuck>>
        /\ UNCHANGED <<disk, devs, media, pos, shadow, faults, jobs>>

\* A packet for a sector that the medium does not have ends with an error.
Refused(t) ==
    LET j == job[t]
    IN  /\ j.at = "command" /\ DriveOf(j) \notin stuck /\ ~Present(j)
        /\ job' = [job EXCEPT ![t].at = "failed"] /\ busy' = Holder /\ drive' = NoCommand
        /\ UNCHANGED <<disk, devs, media, stuck, pos, shadow, faults, jobs>>

\* The RAM disk is copied from and to without a lock.
Copy(t) ==
    /\ job[t].at = "copy" /\ job[t].i < Blocks(job[t])
    /\ Transfer(t, Sector(job[t]))
    /\ UNCHANGED <<disk, devs, busy, drive, stuck, pos, shadow, faults, jobs>>
Copied(t) ==
    /\ job[t].at = "copy" /\ job[t].i = Blocks(job[t])
    /\ job' = [job EXCEPT ![t].at = "moved"]
    /\ UNCHANGED <<disk, devs, media, busy, drive, stuck, pos, shadow, faults, jobs>>

-----------------------------------------------------------------------------
\* The blocks are there: the write begins, or the bytes are given to the caller.
Patch(t) ==
    LET j == job[t]
    IN  /\ j.at = "moved" /\ j.op = "write" /\ j.todo = "read" /\ DriveOf(j) # "cdrom"
        /\ job' = [job EXCEPT ![t] = [@ EXCEPT !.buf = Patched(j, t), !.todo = "write", !.done = 0, !.i = 0,
                                               !.at = IF OnChannel(j) THEN "acquire" ELSE "copy"]]
        /\ shadow' = Written(j, t)
        /\ UNCHANGED <<disk, devs, media, busy, drive, stuck, pos, faults, jobs>>

Returned(t) ==
    LET j == job[t]
    IN  /\ j.at = "moved" /\ j.todo = j.op
        /\ job' = [job EXCEPT ![t] = NoJob]
        /\ pos' = IF j.handle THEN [pos EXCEPT ![t][j.dev] = @ + j.len] ELSE pos
        /\ shadow' = IF j.op = "read" THEN shadow
                     ELSE [b \in DOMAIN shadow |-> IF b \in Window(j) THEN {t} ELSE shadow[b]]
        /\ UNCHANGED <<disk, devs, media, busy, drive, stuck, faults, jobs>>

\* atapi_write: "cdroms burn, not write".
NotWritten(j) == j.at = "moved" /\ j.op = "write" /\ j.todo = "read" /\ DriveOf(j) = "cdrom"
RequestFailed(t) ==
    /\ job[t].at = "failed" \/ NotWritten(job[t])
    /\ job' = [job EXCEPT ![t] = NoJob]
    /\ UNCHANGED <<disk, devs, media, busy, drive, stuck, pos, shadow, faults, jobs>>

\* A drive stops answering.
Sticks(d) ==
    /\ d \notin stuck /\ faults < MaxFaults /\ faults' = faults + 1
    /\ stuck' = stuck \union {d}
    /\ UNCHANGED <<disk, devs, media, busy, drive, job, pos, shadow, jobs>>

-----------------------------------------------------------------------------
MachineIs(m) ==
    /\ disk = ata_apply_identify(m.words)
    /\ devs = Registered(ata_attach(m), Registered(atapi_attach(m), ramblock_init))

DrivesInit ==
    /\ \E m \in Machines : MachineIs(m)
    /\ media = [d \in DOMAIN devs \intersect {"disk", "cdrom", "ram"} |-> [b \in 0..(devs[d].count * SectorSize - 1) |-> 0]]
    /\ busy = NoUserYet /\ drive = NoCommand /\ stuck = {}
    /\ job = [t \in DiskUsers |-> NoJob] /\ pos = [t \in DiskUsers |-> [d \in DOMAIN devs |-> 0]]
    /\ shadow = [b \in UNION {{d} \X DOMAIN media[d] : d \in DOMAIN media} |-> {0}]
    /\ faults = 0 /\ jobs = 0

DriveStep(t) ==
    Acquire(t) \/ Command(t) \/ DataPhase(t) \/ EndChunk(t) \/ Flush(t) \/ Timeout(t) \/ Refused(t)
        \/ Copy(t) \/ Copied(t) \/ Patch(t) \/ Returned(t) \/ RequestFailed(t)

DrivesNext ==
    \/ \E d \in Faults : Sticks(d)
    \/ \E t \in DiskUsers :
          \/ DriveStep(t)
          \/ \E w \in Windows[t] :
                BlockSeek(t, w) \/ Ask(t, "read", w) \/ Ask(t, "write", w)

DrivesSpec == DrivesInit /\ [][DrivesNext]_driveVars

\* Every task that is in a request goes on when it can.
DrivesFairness == \A t \in DiskUsers : WF_driveVars(DriveStep(t))

-----------------------------------------------------------------------------
\* utils.c:72: "a partial block has to be read back, patched and written whole, or
\* the bytes either side of the window would be lost".  Every byte is what was
\* last written to it; but not when two tasks write to one sector at once, because
\* the channel is free between the reading and the writing of a block.
BytesAreKept == \A b \in DOMAIN shadow : media[b[1]][b[2]] \in shadow[b]

\* While a task moves data the drive is where this task's command has it, whatever
\* other tasks ask of either drive of the channel (ide.c:110-118, ata.c:155-230).
DriveDoesAsAsked ==
    \A t \in DiskUsers : job[t].at = "data" =>
        /\ busy = t
        /\ drive = [to |-> DriveOf(job[t]), sector |-> Sector(job[t]), left |-> Chunk(job[t]) - job[t].i,
                    write |-> job[t].todo = "write"]

\* The channel comes free again, whichever way a request ends.
ChannelIsReleased == busy # NoUserYet ~> busy = NoUserYet
=============================================================================
