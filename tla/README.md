# Verification of panuti

Panuti is a small Unix-like system for the i386: a preemptive uniprocessor
kernel (`src/kernel`), a C library, a shell (`pur`), an editor (`nib`) and a set
of utilities.  This directory holds TLA+ models of the kernel, of the shell and
of the heap of the C library, the TLC configurations that check them on small
instances and TLAPS proofs about them.

## How the system works, as far as the models are concerned

One CPU.  The timer interrupt (PIT) is the only source of preemption: its
handler wakes the sleepers that are due and calls `sched_schedule`.  System
calls run with interrupts on unless the code masks them with
`irq_save_disable`/`irq_restore`; only such stretches are atomic.  There is one
lock, for the IDE channel.  Everything that is hard in this kernel comes from
this: a list, a counter or a check that is used with interrupts on can be
interleaved with any other task, and with the interrupts of the devices.

## Inventory

| component | state | operations | interacts with | hard behaviour |
|---|---|---|---|---|
| scheduler, tasks (`sched.c`, `task.c`, `ksleep.c`, `wait.c`, `exit.c`) | ring of tasks, current task, task list, pids, exit codes, sleepers | PROCREATE, WAIT, EXIT, YIELD, SLEEP, timer, block, wake | everything | preemption in PROCREATE, recycling of ended tasks, lost wake-ups |
| pipes (`pipe.c`) | ring buffer, counters, waiters, reference counts | PIPE_CREATE, READ, WRITE, CLOSE, inheritance, release at teardown | tasks, handle tables | unmasked counters and waiter lists |
| handle tables (`handle.c`, `fs.c`, `dir.c`) | per task table of slots, inode references | OPEN, CLOSE, READ, WRITE, SEEK, READDIR | registry, mounts, pipes, devices | growth, a slot claimed before it is filled |
| registry and mounts (`registry.c`, `mount.c`) | tree of inodes and directory entries, mount table | resolve, link, unlink, rename, mkdir, MOUNT, UNMOUNT | handle tables, file systems | no masking at all, stale inodes |
| memory (`pmm.c`, `vmm.c`) | frame bitmap, page tables | allocate, free, map, unmap, build and destroy an address space | every component | partial failure, table limits |
| kernel heap (`vmalloc.c`, `slab.c`) | free address ranges, slabs, large allocations | kmalloc, kfree, vmalloc, vmfree | frames, every component | coalescing, running out in the middle |
| keyboard (`kbd/*.c`, `ps2.c`) | decoder, queues of packets, waiters, line under edit, its owner | interrupt, READ raw, READ line | tasks | bounded waiters, owner that ends |
| kernel log (`kmsg.c`) | ring of bytes, cursors | append, READ | every component | cursor against a wrapped ring |
| serial (`serial.c`, `uart.c`, `isa.c`) | receive and transmit rings, claim of a port | interrupt, READ, WRITE, rate | tasks | interrupt against task, overruns |
| clock (`rtc.c`, `drivers/time`) | the chip's registers, time of boot | READ, WRITE of the devices | the chip's own updates | torn readings, conversions |
| block devices (`block.c`, `utils.c`, `ata*.c`, `ide.c`) | channel, partitions, partial sectors | READ, WRITE, SEEK | file systems | one channel for two drives, timeouts, unaligned access |
| ext2, isofs, fatfs | on-disk structures, caches | lookup, read, write, create, unlink, link, rename, mount, unmount | block devices, registry | write order, allocation failures, power failures |
| shell (`pur`) and utilities (`pcrutils`) | line, syntax tree, edges, pipes, children | reading, parsing, wiring, starting, waiting | tasks, pipes, keyboard | who holds which end, failing to start |
| heap of the C library (`libc/stdlib`) | regions, blocks, free lists | malloc, calloc, realloc, free | MMAPAN | splitting and coalescing |

The components that have no model, and why, are under "What is not
modelled"; `PROJECT.json` lists every component with its status and every hazard
at its line.

## What makes each component correct

* **Scheduler and tasks.** Something runnable is always found; nothing runs on,
  or reaches, a task structure that was torn down; every task is on the task
  list; a pid names one live task; an exit code reaches exactly the WAIT that
  asked for it; a runnable task runs, a sleeper wakes, a WAIT returns.
* **Pipes.** Bytes come out once, in order, and never more than the capacity are
  inside; nobody sleeps while it could proceed; an end is counted once per
  holder; the buffer is freed with the last holder and not before.
* **Memory.** A frame has one owner; the boot image is never handed out; what
  fails gives back what it took; what the heaps hand out does not overlap.
* **Name space.** The reference count of an inode is the number of its holders;
  directories form a tree; what is removed stays removed; the names cached for a
  mount agree with its disk; an UNMOUNT returns the slots.
* **ext2.** A call does to the names and bytes on the disk what it promises or
  nothing; after a power failure nothing that was reachable is lost or shared;
  after an UNMOUNT every counter is right.
* **Devices.** No modifier is stuck and Enter is seen; a log reader misses no
  record; a lost serial byte is reported; a reading of the clock is a time that
  it was; bytes beside a partial write are kept; the channel comes free.
* **Shell.** A line is accepted if and only if the grammar derives it; its programs all end,
  and nothing is left open or running when the shell prompts again.

## Modules

| module | models | code |
|---|---|---|
| `Task` | ring, task list, pids, PROCREATE, WAIT, EXIT, SLEEP, YIELD, the timer | `sched.c`, `task.c`, `ksleep.c`, the handlers |
| `Pipe`, `Channel` | READ, WRITE, CLOSE, inheritance, release at teardown; `Channel` is what a pipe promises, which `Pipe` implements | `pipe.c`, `task.c` |
| `Registry` | inodes, entries, `walk`, mounts, handles, and the calls that name things; ext2 as the names on its disk | `registry.c`, `mount.c`, `handle.c`, `dir.c`, the handlers, `ext2.c` |
| `Ext2Disk`, `Ext2Dir`, `Ext2`, `FileStore` | the driver's device, caches and allocators; directory records; the calls; `FileStore` is what a file system promises, which `Ext2` implements | `helpers.c`, `ext2.c` |
| `Pmm`, `Space` | the frame bitmap from the boot on; page directories and tables, ELF loading, MMAPAN, MUNMAP, reaping | `pmm.c`, `vmm.c`, `elf.c`, `task.c`, `mmapan.c`, `munmap.c` |
| `Kheap` | address ranges and slabs over a pool of frames | `vmalloc.c`, `slab.c` |
| `Malloc` | regions, blocks and free lists of a program | `libc/stdlib` |
| `PurParse`, `Pcrutils`, `Pur` | the shell's tokens, grammar and tree; what the utilities do with their streams; wiring, starting, waiting, with the programs running | `pur/src`, `pcrutils/src` |
| `Services` | `Space`, `Kheap`, `Malloc` and `Pur` beside each other | |
| `Keyboard`, `Kmsg`, `Serial`, `Clock`, `Drives` | the drivers | `drivers/`, `log/`, `block/` |
| `Devices` | the drivers beside each other | |
| `TaskProofs`, `TaskListProofs`, `PipeProofs`, `SpaceProofs`, `SpaceOwnProofs`, `DeviceProofs`, `RegistryProofs` | the proofs about `Task`, `Pipe`, `Space`, four of the drivers and `Registry` | |
| `DataLemmas` | facts about functions, remainders and least numbers that they share | |
| `MCTask`, `MCPipe`, `MCRegistry`, `MCExt2`, `MCServices`, `MCDevices` | instances for TLC | |
| `MCLive` | `Task` and `Pipe` beside each other, for what must eventually happen | |

`PROJECT.json` maps every definition to its lines.  Names are the code's where
TLA+ allows it (`current`, `task_list`, `next_free_page`, `registry_linkdirent`).
A definition whose name has an underscore and a capitalised word behind it
(`Removed_Nothing`) and the comment "As a bug:" is not the code: it is a plausible
mistake in the definition that follows, kept to show that a property notices it.

`Services` and `Devices` compose components that share nothing but frames and
the CPU: a variable `part` chooses in the initial state which of them a behaviour
exercises, so that a run explores the sum of their state spaces and not the
product.  `Registry` has such a variable too (`scope`: a native tree, or one with a
mount).

### Interleaving

In `Task`, `Pipe`, `Space` and the drivers an action is what the code does between
two points where interrupts are on.  `Task` lets the timer fire between any two
actions; the interrupts of the keyboard, the serial ports and the clock's own
updates come between any two as well.  `Pipe` and `Space` have a constant
`Windows`, the set of the few places *inside* a call where a tick is let in; the
code allows all of them.  The passing runs leave out the windows that are faults
of the code (`pipe_stranded` shows one; the others are under "Findings"), so that
the rest of the model can be checked at all: these runs say that the code is right
in executions where no tick falls into those few instructions.

`Registry` and `Ext2` go further: the calls of different tasks alternate but do not
overlap.  `registry.c` runs with interrupts on throughout, `walk` hands out inodes
without a reference, and the lists are changed in several stores; a task that is
preempted between the walk and the use can go on with an inode that another task
freed.  With overlapping calls no property of the name space holds, so the
modules are about what sequences of complete calls do, which is where the reference
counting and the order of writes have their own difficulties.  What a call
releases is released one reference at a time (`due`, `Drop`), since freeing an inode
frees others.

### State and code

* `Task`: a *slot* is the address of a `task_t`; `ring` is `ready_queue` and what
  its `next` pointers reach, `task_list`/`task_next` the list of all tasks as it is
  in memory, so that the unmasked `task_list_push` is two actions (`PushLoad`,
  `PushStore`).  `pc` says where in the kernel a task is.  `born`, `gen`, `asked`,
  `delivered`, `missed`, `elapsed` are history.
* `Pipe`: the ring buffer with the arithmetic of `size_t` (`SizeMod`), the waiter
  lists, both reference counts.  `LoadCount`/`StoreCount` are the two halves of
  `count -= n`.
* `Pmm`, `Space`: frames are numbers, `bitmap` the set of free ones.  `table` and
  `pte` are the user part of a directory and its tables; `content` and `use` are
  history.  The kernel heap is somebody who takes and returns frames; `Kheap` is
  that heap, with the rest of the kernel as somebody who does.
* `Registry`: `inode`, `kids` (the list at `children`), `dirent` (the entries there
  are), `mounts`, `disk`; `cwd`, `fds`, `stream` are what tasks hold.  A call maps
  the tree to the tree it leaves; the caching of a name by `ext2_lookup` is part of
  every call that walks.  A slot of the handle table is a number; `fdtable_grow`
  and the bitmap are abstracted to "the lowest free slot".
* `Ext2`: `disk` is what the device holds, `fs` the `ext2_t` in memory with its caches.
  A helper takes the state of a call in progress and returns the next one, which
  collects what the device held after each write (`past`); a power failure
  leaves any of these (`Crash`).
* `Keyboard`: `wire` is the bytes between keyboard and controller, `ps2` the decoder,
  `queue` the two queues, `line` the line under edit, `user` where each task is.
* `Kmsg`: head and tail count bytes as in the code; `records` is history.
* `Serial`: bytes are numbered as they arrive; `cpu` is the task that waits with
  interrupts off.
* `Clock`: `chip` has the registers in the chip's mode and goes on while `reading`
  fetches them one by one; `wall` is the true time.
* `Drives`: `busy` is the channel's lock, `drive` what the channel is told to move,
  `shadow` (history) what each byte may hold.  A request is checked against the size
  of the device before it takes the channel, by the caller or the driver (`Admitted`),
  but for READ of a handle on a CD-ROM, which only the drive refuses (`Refused`).
* `Malloc`: a block is its address; the links of a free list are the order of a
  sequence.
* `Pur`: a pipe is the number of chunks in it, a utility a small machine that
  `Pcrutils` describes as data: where it reads, what it prints when, how it ends.

## Runs

| run | shows |
|---|---|
| `task` | With one parent, preempted anywhere: the scheduler never panics, nothing runs on a reaped stack, ring and list agree, pids are distinct, exit codes are delivered once and to the WAIT that asked, sleepers sleep their full time. |
| `pipe` | Three tasks share a pipe: it implements `Channel`, strands nobody, counts its holders and is freed last. |
| `live` | Under fairness of the running task's steps and of the timer: a ready task runs, sleepers return, WAIT on an ended task returns; a blocked READ or WRITE of a pipe returns once data, space or the end of the other side is there to stay. |
| `pipe_stranded` | *Violation.* With a tick inside `pipe_wake_all` a waiter is erased and sleeps on data that is there. |
| `registry` | A native tree, and one with a volume over `/d` or over the root, inodes and entries running out: counts, entries, the tree, nothing lost, cached names, slots returned at UNMOUNT. |
| `registry_open` | *Violation.* UNLINK frees the disk inode of an open file. |
| `ext2` | Two calls and a look on a new volume and on a filled one, blocks and inodes running out, a device error during a CREATE, a power failure after any write: recoverable, consistent when clean, data in own blocks, a `FileStore`. |
| `ext2_stale` | *Violation.* A file that is cut short and grows again writes through a cached indirect block that was freed. |
| `devices` | Each driver with every interleaving of its interrupts and its users. |
| `devices_shared` | *Violation.* Two tasks that write the two halves of one sector: one of them puts back the other's half as it was before. |
| `services` | Frames running out at any point of PROCREATE and MMAPAN; both heaps; every line of a few characters through the parser, and a dozen longer ones run to their end, one program failing to start. |
| `shell_example` | *Violation.* `in f > (cat > wc ; echo)` does not end: `in` writes to `cat` and to `wc`, `wc` reads what `cat` writes before what `in` writes, and `in` blocks on it. |

### Bounds

* `task`: four slots (init, idle, two more), four tasks ever created, so that a
  structure is recycled while its predecessor is waited for; sleeps of at most
  one tick, one exit code.  Two slots suffice for every pair of "the one that is
  torn down" and "the one that is built".  One creator: with two, `TasksAreFound`
  does not hold (below).
* `pipe`: capacity 2 and three bytes, so that indices wrap and a full and an empty
  buffer occur; three holders of two ends; counters modulo 16.  Windows are those
  of the release; the windows of the copy are faults (below).
* `live`: three slots, so that one task is created and ends while another waits or sleeps, and
  structures are recycled until four tasks were created; two tasks on a pipe of two bytes, one to
  wait at each end.
* `registry`: 6 inodes, 9 entries (so that a call finds none left), one handle,
  paths of one or two components, absolute and relative, with "..".  The third
  directory level is reached through the working directory.  With a mount: a
  disk of three inodes, one mount slot, and three conditions, each of which the code
  needs and does not establish: nobody unmounts or unlinks what is in use
  (`Careful`), memory and the device do not fail in the middle of a RENAME
  (`Faults`), and no path goes through "." or ".." of a mounted directory.
* `ext2`: 12 blocks of two bytes in two groups, 6 inodes, one direct pointer and
  indirect blocks of two addresses, so that a file of four bytes reaches its
  indirect block and one of six the double one; two names.  Two changing calls,
  one that only looks; each is as many steps as it has writes.  Two calls are
  enough for "allocate, free, allocate again" because the second volume starts
  filled.  Only a CREATE meets a device error (below).
* `services`: memory maps with so few frames (14 and 11, of which 7 and 4 are to be had) that each loop is
  cut short at each step; pages of two bytes, two tables of two pages;
  `MMAPAN_CHUNK = 2` makes a call of three pages take two passes.  Three heap
  frames and a table of two free ranges; regions of 64 bytes, at most three
  live objects and two regions, so that malloc must coalesce to succeed.  All
  lines of up to five letters of eight; pipes hold one chunk and every
  input is two, so that every writer blocks.
* `devices`: queues of two packets, one line of two characters, five keys (a
  letter, one with a prefix, Enter, print screen, whose prefix comes before a code
  that is not in the table, and pause, with its burst of six bytes), two of them pressed; a log of 16
  bytes and three records, which wraps; a receive ring of two bytes with one
  reading at a time; three clock modes, the eve of a leap day and the ends of years; three machines (the sectors of one disk are what
  28 bits can name, one disk does not answer IDENTIFY, one has more sectors, no partition table and
  a CD-ROM drive without a medium); three or four sectors of two bytes, one timeout, three requests, of which a second
  READ of the CD-ROM ends beyond its medium. The windows
  through which tasks write share no sector; those of `devices_shared` do.

CHECK_DEADLOCK is off for pipes, `live`, services and devices, which really end or stop
when nobody asks for anything; the other runs check it.

### Fairness

`live` assumes of the scheduler that the running task takes its next step (it is on
the CPU, and code between two preemption points terminates) and that the timer
fires (hardware), as `FairSpec` of `Task` does.  Of a pipe it assumes that a task that
is not blocked takes its next step, as `FairSpec` of `Pipe` does, which `TasksGoOn`
justifies: round robin runs every ready task; so do `DrivesFairness`, the tasks of
`KbdFairness` and `SerialFairness`, and the programs of `PurFairness`.  `MCLive` states the
first two again for the part that a behaviour exercises, since the steps of the other
part are enabled and not taken.  `KbdFairness` further assumes that a byte the
keyboard sent interrupts, `SerialFairness` that the transmitter empties: both are
hardware.  `PurFairness` assumes that whoever sits at the keyboard answers a program
that waits for a line, or ends its input.  Nothing else is assumed about user
programs: no run assumes that a task reads, writes, closes or ends.

## Proofs

A run is about one small instance; the theorems below hold for every value of the
constants that the assumption named in the module allows, so without the bounds
and the symmetry of the runs.

### Tasks

`TaskProofs`, for any number of task structures, creators, waiters and exit codes
(`SlotsAssumption`: init and idle are different slots, idle makes no calls, the
slots are finitely many):

* `TypeCorrect`: `Spec => []TypeOK`;
* `SchedulerNeverPanics`: `Spec => []NeverPanics`;
* `NoUseAfterReap`: `Spec => []RunsOnLiveStack`;
* `RingStaysLive`: `Spec => []RingOfLiveTasks`;
* `ExclusiveBuilds`: `Spec => []BuildsAreExclusive`;
* `SleepersSleep`: `Spec => []SleepsFullPeriod`.

None of these is inductive.  The invariant for the first five is

    IInv == TypeOK, NeverPanics, RunsOnLiveStack, RingOfLiveTasks,
            BuildsAreExclusive, IdleStaysRunnable, CreatorsAreRunnable, EndedInRing

`IdleStaysRunnable` (the idle task is in the ring and READY or RUNNING) is why
`sched_schedule` finds somebody; `RingOfLiveTasks` makes its search well defined;
`CreatorsAreRunnable` (a task inside PROCREATE is neither blocked nor ended) keeps
the structure it builds from being recycled; `EndedInRing` (a task that ended is
still in the ring until it is reaped) tells a structure that may be recycled from
one that is free.  The argument goes by lemmas: what `sched_add` and `sched_remove`
do to a ring without repetitions (`AddedRing`, `RemovedRing`); that a search from
the running task finds a ready one (`ScheduleRuns`); that every action that ends
in `sched_schedule` keeps the core (`Rescheduled`); that those which do not leave it
alone (`Unscheduled`); and one lemma for each action that allocates, frees or
publishes a structure.

For `SleepersSleep` the invariant has `SleepInv` besides.  `task_wake_waiters` wakes
whatever task of the list has the pid of the one that ends in `pid_waiting_on`; that
it never wakes a sleeper needs that only a task inside WAIT publishes a pid there
(`PublishedInWait`), that it has withdrawn it when it goes on, that pids are positive
while 0 stands for none, and that one that ended makes no calls.

`TaskListProofs` has the theorems about the list and what is found in it, under
`OneParent`: a single task creates and waits.

* `TasksStayFound`: `Spec => []TasksAreFound`;
* `ExitCodesRight`: `Spec => []ExitCodes`.

`OneParent` is needed.  With two creators a child is lost from the list (below), and
even a second task that only waits is too many: it may reap the head of the list
between the load and the store of `task_list_push`, whose store then makes a freed
structure the new child's successor.  `FindInv` says that `task_list` and `task_next`
form a chain (`IsChain`) through the ring, plus the child between its `PushStore` and its
`sched_add`; that the child being linked has the head as its successor; that pids and
generations (`born`) are distinct; that no code was handed out of a task that is still there;
and that the task a WAIT is about keeps its pid and stays until that WAIT takes it.  The walk `ListAt` is a recursive function;
that it is the chain it walks (`WalkOfChain`) is shown by taking the least step at
which they differ (`LeastNumber`, `FcnIsSeq` in `DataLemmas`), which replaces the
induction the provers lack.

### Pipes

`PipeProofs`, for any tasks, capacity, lengths and modulus (`PipeAssumption`), assumes
`Narrow`: `Windows \subseteq {"shut", "drop"}`, which is that of the passing runs; with any
other window each of the three is false (`pipe_stranded`, "Findings").

* `CountsStayAccurate`: `Spec => []CountsAreAccurate`;
* `PipeIsChannel`: `Spec => IsChannel`, that is, `Pipe` implements `Channel`;
* `NobodyStranded`: `Spec => []NoneStranded`, for at most `PIPE_MAX_WAITERS` tasks:
  another one would block without being registered (pipe.c:70).

The invariant `CountInv` says that at most one task is between two steps that exclude
each other (`Exclusive`); what references there are, of the tasks that hold an end,
those that just let go of it and the one that tears it down (`RefsRight`); and that
the bytes sent and not received are those from head to tail, modulo the capacity,
with `count` their number except between its load and its store (`BytesRight`,
`CountRight`).  The mapping to `Channel` takes the ends that are not closed for `Open` and
the other variables as they are, and each step is one of `Channel` or a stutter
(`ChannelStep`).  `WakeInv` adds `ListsRight`, that a blocked task is in the list of its end,
once, and that only tasks that wait are in a list; and `AsleepRight`, that whenever a blocked
task has something to do another is about to wake it, and what that one has passed is
awake.

### Memory

`SpaceProofs`, for every memory map, every program and any number of tasks
(`PmmAssumption`, `SpaceAssumption`: the tasks are finitely many, sizes and `MMAPAN_CHUNK`
are positive, the pages of a program are user pages), and whatever `Windows` is:

* `SpaceTypesCorrect`: `SpaceSpec => [](SpaceTypeOK /\ CallsRight)`;
* `FramesStayOwned`: `SpaceSpec => []FramesOwnedOnce`;
* `MmapanOverNothing`: `SpaceSpec => MapsOverNothing`;
* `MemoryIsConserved`: `SpaceSpec => FailsCleanly`.

`FramesOwnedOnce` is a statement about cardinalities and says nothing of who may take
what, so it is far from inductive.  The invariant is

    SpaceInv == MemTypes, LocalTypes, CallsRight, FramesApart, GapRight

`CallsRight` relates the locals of a call to the place it is at: how many frames it has
collected, how many of them it has mapped, which range it has left, and that a space
being built belongs to one PROCREATE and to no task that runs.  `FramesApart` says that the
free frames, the kernel's tables and its heap are apart, that no place of any address space
has a frame of these and no two places the same one, and that the frames that a call
has collected and not yet mapped (`Fresh`) are in none of them.  `GapRight` says that the pages
MMAPAN has still to map are unmapped and that those of the present pass hold the frames it
collected, in order; without it a pass that fails halfway might unmap somebody else's
pages and free their frames.  That `SpaceInv` implies `FramesOwnedOnce` is a bijection between
the places that are not empty and the frames in them (`ApartOwnsOnce`).

The steps go by what they do with frames and not by which call they belong to: to free a set that is
nobody's (`GivenApart`), to take one frame (`TakenApart`), to map a fresh frame, with a new page
table or without (`MapApart`), and to leave memory alone (`KeptApart`).  For `MapsOverNothing` it is
enough that only MMAPAN's own passes write into the space of a task that is inside
MMAPAN (`OnlyPuts`), and that these write into the gap (`PutsInTheGap`).

`MemoryIsConserved` is about steps.  A frame is known if it is free, the kernel's, in a
place or fresh (`Known`), and `Lost` is the rest of the memory of the boot (`LostIsUnknown`).  Every
action of every call keeps the known frames known, both ways (`KnownStep`), except the one that maps a
frame of a new program when there is no page table for it.  That needs `NoDirLeft`, that a
space which nobody has and nobody builds has no directory: without it, `CreateDir` would forget the
directory that was there.  That a call gives up only when no frame is free is `FitFound`: the search
of `pmm_allocp` from its cursor, and again from the start, finds a frame if there is one.

`SpaceOwnProofs` goes on to what the frames hold:

* `BootImageUntouched`: `SpaceSpec => []BootImageKept`, if every memory map is `LoadedLow`;
* `SpacesStayOwn`: `SpaceSpec => []SpacesAreOwn`, if moreover `Windows` is empty.

`LoadedLow` says of a machine what `carve_place` relies on and does not check: the kernel
starts at `LOWMEM_END` in the region that is taken and ends below the identity limit, and the module
follows it or leaves room for the bitmap in between.  GRUB loads a kernel and one module like
that; the maps of the runs satisfy it (`MapsLoadedLow` in `MCServices`).  That the bitmap then overlaps nothing
(`CarvedApart`) is a calculation with rounded addresses.  That no frame of the boot image is handed
out is that every known frame is one of `ram` (`InRam`), which `KnownStep` preserves in every step
but those of `vmm_map_in_run`; of these it is enough that they make nothing known (`MapForeign`).
No assumption on `Windows` is needed for that.

With an empty `Windows` a task that uses a scratch page is alone (`BusyAlone`), so the
page shows what its user means (`WindowsRight`), and a directory gets its own recursive entry (`DirsRight`).
The contents of the pages need two more parts.  `LoadsRight`: a frame that the loader has mapped and still
holds in its list is free for nobody and in no space but the one it builds.  Were it otherwise, the
loader's later write through the scratch page would land in somebody else's memory.  It says "in no
*other* space" and not "in this space", because `vmm_map` may have done nothing.  `DataRight`: a
page of an image holds its program's bytes or is among those still to be written by the task that builds the
space; a page of MMAPAN holds zeros and its task runs.  A step that frees frames overwrites none of those
that stay, because what it frees is free afterwards (`PagesStay`).

### Devices

`DeviceProofs` is about four drivers, each under its own specification (`SerialSpec`,
`KbdSpec`, `DrivesSpec`, `ClockSpec`) and each for any number of tasks:

* `LossesReported`: `SerialSpec => []LossIsReported`, for any ports, ring and FIFO, also for none.
  The invariant says per port that what READ has given, the ring and the FIFO put together
  are the first bytes that arrived, in order, unless the counter or the UART's overrun bit says that one is
  missing (`InOrder`).  The property itself says it of the counter; without the bit a drain could not be shown
  to count what the UART lost before it.  A drain keeps the order because a queue is moved from
  its front to the end of the one before it (`HandedOn`).
* `NoModifierSticks`: `KbdSpec => []NoStuckModifiers`, for any keys of the table
  (`KeysAssumption`).  The property speaks of moments when nothing is on the wire.  The
  invariant follows the handler through every byte before (`OnWire`): a scancode, a prefix, a scancode
  whose prefix was read, the pause key's burst, and what is left of it, with `pause` the number of bytes
  left.  In each of them a modifier that is on is a key that is down, or the one whose release
  is on the wire.
* `DrivesDoAsAsked`: `DrivesSpec => []DriveDoesAsAsked`, for any machine whose partition table,
  IDENTIFY and READ CAPACITY hold numbers (`MachinesAssumption`).  A task is between its first
  command and the end of its request if and only if it holds the channel (`Holds`), so at most one is,
  and no other touches the drive; a command starts at the sector where the last one ended because
  every way into "command" resets the count.

And, from the same invariant and assumptions, of what the drives hold:

* `BytesStayKept`: `DrivesSpec /\ []Apart => []BytesAreKept`.

`Apart` says that no two tasks in the middle of a WRITE have a sector in common.  The code does not see
to that, neither here nor in ext2, which has no lock; without it the property is false
(`devices_shared`).  The windows of the passing run satisfy it.
Reads may overlap anything.  A byte must be what was written last; from when a request begins to
write it, and for good if the request fails, it may be the old one or the new one (`shadow`).  The invariant `DataInv` says it of every request under way (`Carries`): as long as a
partial write reads back, its buffer has as many bytes as it has come to and each is that of the
drive (`HasRead`); from when it was patched, the buffer has the caller's bytes inside the window and
the drive's bytes beside it, and as far as the request has come the drive has the caller's bytes too
(`HasToWrite`).  Nobody else disturbs this, because what others write is in their own sectors
(`NoneShared`, `OthersCarry`).  The rest is a calculation: a byte of the drive is in sector
`b \div SectorSize`, at `At` in the buffer and in the window if and only if the patch covers it (`SectorOf`,
`WindowIs`, `PatchedIs`), for which the prover has to be told that a quotient is unique (`QuotientIs`).

For the clock, from `ClockAssumption` (a chip has one of the eight modes and starts at a date from 1970
on, timestamps are not negative):

* `CalendarInverse`: for every day, and every second of it, `Civil` is a date of the calendar, and `Stamp` of that date
  is the day again.  That a division into years ends is the one induction: the least number of years that is too
  many (`LeastNumber`) is one more than the year, since a year starts where the one before it ends (`YearsFollow`).
* `ClockStaysRight`: `ClockSpec => []ClockKeepsTime`.  The invariant is that the time is a date and
  that between two updates the registers, but for the century, are what the chip shows of it (`ClockInv`).
  The conversions are inverse for two digits (`TwoDigits`) and for the twelve-hour count (`Hours`).
* `ClockGoesOn`: `ClockSpec => TimeGoesOn`, of every step: the time stays, is a second later, over whatever ends
  with that second (`AfterIsNext`), or is the timestamp of a WRITE (`WrittenIsDate`).

### Name space

`RegistryProofs` is about the reference counts, which `inode_ref`, `inode_unref` and their
counterparts for entries keep at some thirty places.  For any numbers of inodes, entries, mounts,
slots and tasks and any paths (`SizesAssumption`, `DiskAssumption`, `TasksAssumption`,
`ScopesAssumption`: there is room for the first tree, names and paths are names, the disk holds
inode numbers, the tasks are finitely many), and wherever memory or the device fails:

* `NativeCountsRight`: `Spec => []RefcountsAccurate` where nothing is mounted (`Native`);
* `NoneBecomesItsOwnEntry`: `Spec => []NoneInItself` there;
* `RegistryCountsRight`: `Spec /\ []Ordinary => []RefcountsAccurate`, with any number of mounts, whether the
  callers are `Careful` or not and with `Faults` or without.

`Ordinary` is `NoneInItself /\ VolumeClosed`, two parts of what the run `registry` checks.  An entry for
the directory itself holds no reference, but `dirent_unref` drops one when it removes such an entry
(registry.c:102, 128), so that a single one that is not "." breaks a count.  In the native tree
`dir_has_ancestor` prevents it.  In a mount it is a matter of names on the disk and of what is cached of
them, and the findings below have a sequence that makes one; `VolumeClosed` says that no cached name of a
volume leads out of it.  Both are of the state in which a call begins; nothing is asked of the trees in between.

The invariant is

    RegInv == HoldersOK, MountsOK, DiskOK, Counted, Bare, Plain

`Counted` is the property in a form that a step can be followed in.  It is about a tree `s`, as it is
between two steps of a call, and two functions: `H[i]`, how many hold inode `i` from outside the
tree, and `C[d]`, how many cursors stand on entry `d`.  The count of an inode is the number of entries that
hold it (`Refs`), references due and `H[i]`; that of an entry is `C[d]`, and one more if it is on the list of the
directory it was made for, where it is once and in no other list (`ListsOK`).  A reference taken or
dropped changes the tree and one value of `H` or `C` (`InodeRef`, `DirentRef`, `DirentUnref`), and at the end of the
call the values are those that the new holders give (`HeldMoved`, `CursorsNet`, `HeldMounted`).  `HoldersOK` says that a cursor
stands on an entry of its handle's directory, and that a task that is gone holds nothing; `MountsOK` that mounted
roots differ; `Bare` that an inode that is free has no list; `Plain` that where nothing is mounted no inode has
the marks of a mount and no directory is in itself.

The argument goes by what calls are made of.  A walk keeps the tree sound, whatever it caches, and ends at an inode
that is in use (`WalkWalked`): an entry of an inode in use stands for one, since it holds it, and so do
mounts.  `registry_linkdirent` and `dirent_detach` keep a tree sound between inodes in use (`LinkInUse`,
`RemoveSound`).  Each call is composed of these: RENAME removes the bearer of the new name, links, removes the old
name and moves ".." from one parent to the other (`ReparentedSound`), each of which must leave the entries alone that the next one
needs (`SourceStays`, `Carried`).  `registry_destroy` is the hardest (`DropLast`): all entries of the last list go but those
that a cursor still holds, and each reference due after it is one that a gone entry had (`TargetsCount`).

### What is not proved

Liveness, ENABLED and induction over data are out of the prover's reach, and so is every
module that declares a RECURSIVE operator or extends one that does (`Ext2Disk`, `Ext2Dir`, `Ext2`,
`Kheap`, `Kmsg`, `PurParse`, `Pur`, and with them `Services` and `Devices`).  These properties
are only model-checked, and so are the others of `Registry`, which are about what can be reached from
where (`TreeIsATree`, `NoneLost`) or about the disk (`CachedNamesAgree`), and that of `Malloc`.
`ReadingIsATime` of `Clock` is not true of every instance: noon in twelve-hour mode is read as midnight
("Findings"), and where an hour may pass between the reading of two registers two rounds can agree on a time that
never was.  The run starts the chip, and lets it go on, where neither happens.  With windows open `SpacesAreOwn` is false once two tasks create
tasks at once, which takes four tasks; a simulation finds it, the run has not so many ("Findings").

## Findings

Faults that a run shows are in `PROJECT.json`.  The following were met while
modelling and have no run of their own.

Tasks:
* A task that creates a second child before it waits for the first loses the
  first one's exit code: `task_alloc_task` recycles any ended task nobody is blocked
  on (task.c:89), whereas `doc/syscalls.md:141` says "It is *not* discarded".
* Two tasks in PROCREATE choose the same pid, because the child joins the list,
  which `task_alloc_pid` searches, only at the end (task.c:139); and
  `task_list_push` reads and writes the head unmasked, so one child can be lost from
  the list.  `TasksAreFound` fails with two creators.
* PROCREATE returns `child->pid` after publishing the child (task.c:604), which by
  then can have ended, been recycled by another creator and have another pid.
* Of two tasks in WAIT on one pid the second gets NOTFOUND after it was woken, as
  the documentation says; if the pid is reused in between it waits for a stranger.

Pipes:
* `count += n` and the reference counts are loads and stores with interrupts on
  (pipe.c:22, 38, 160): two tasks in the same pipe lose updates.
* READ tests for end of file again after interrupts are back on (pipe.c:80); with
  a second reader it can report an end that is none (`EofIsFinal`).
* A ninth waiter blocks without being registered (pipe.c:70).

Memory:
* The scratch page of `vmm_create_page_dir` is used with interrupts on (vmm.c:256): a
  tick lets another task unmap it, and the kernel faults.  `map_physical_temp`
  shares it with the same race (tempmap.h:15).
* `vmm_map_in_run` ignores that `vmm_map` did nothing for want of a page table
  (vmm.c:155): the frame is lost and the program starts with a page missing;
  `FailsCleanly` allows for this and nothing else.
* `map_bitmap_home` maps one page of the bitmap whatever its length (pmm.c:85); with
  more than 128 MiB `pmm_allocp` leaves it (`WalkStaysMapped`).
* `carve_place` does not notice a gap before the module that is too short for the
  bitmap (pmm.c:216) when it starts before it.  Nor does it look where a region begins, or
  whether the kernel ends in it (pmm.c:214): it starts at `LOWMEM_END` in each.  `LoadedLow` excludes the three.
* Segments of an ELF file that overlap in a page map it twice and lose a frame.
* `vmalloc_pages` unmaps a page before it asks which frame it had (vmalloc.c:132-134),
  so an allocation of several pages that fails leaks; a full table of free ranges
  drops the range that is returned (vmalloc.c:70); `slab_create` panics when there is
  no page, where its caller expects NULL (slab.c:75); slab pages are never returned.

Name space:
* `ext2_lookup` gives every *path* its own inode: "." and ".." of a mounted directory,
  and a directory whose number was reused while an old handle or working directory
  holds it, are inodes beside the first, each with its own cache.  What is
  renamed or removed through one is stale in the other, and `walk` compares
  inodes: after `cd /mnt/d; cd ..` the task is in the volume's root but not in
  `cmnt->root`, and "cd .." never leaves the mount again (registry.c:214).
* UNLINK in a mount of a name that was not looked up succeeds on the disk and
  reports NOTFOUND (registry.c:659), where `doc/syscalls.md:328` has it return 0; UNMOUNT
  succeeds under the feet of tasks that are inside (mount.c:79).
* A RENAME whose re-caching runs out of memory leaves the old name cached
  (registry.c:825), or links it anew where the comment says the opposite
  (registry.c:831).  Through a stale name a later RENAME can enter a directory in
  itself; such an entry holds no reference, but its removal drops one
  (registry.c:902, 128), and the inode is freed under its holders.  A RENAME in a
  mount of a name that does not exist onto itself returns 0 (registry.c:782).
* RENAME of `/mnt/d` to `/mnt/d/../e` moves the cached `d` below an alias of the root
  that `d` itself holds: a cycle that is never freed.
* The handles of inherited streams copy the implementation pointer without a
  reference of their own (task.c:299); the parent's CLOSE frees what the child uses.
* `isofs_lookup` neither looks in the cache nor gives up the reference of the
  allocation: each lookup costs an inode until the table is full.
* A READDIR whose cursor stands on an entry that is removed ends early; RENAME
  loses the bearer of the new name when there is no memory for the new entry,
  which `doc/syscalls.md` admits ("not a crash-atomic overwrite").

ext2:
* A file that is cut short in the middle of a block keeps the bytes behind its
  new end, which show when it grows again.
* A device error in the middle of UNLINK, RENAME or of cutting a file short leaves
  blocks among those to be freed while an inode still owns them; that is
  why only CREATE fails in the passing run, and only once: two errors can leave a
  name twice in its directory.
* `ext2_link` does not look for the name first and writes it before it raises the
  count.  A directory that was removed while it is a working directory still takes
  new names.

Devices:
* A task that ends while it owns the line, and has no handle on the device, leaves
  the line BUSY for ever (line.c:84, 140); what an earlier owner typed stays in front
  of the next one's line.
* Once the ring of the log has wrapped, comparing a cursor with both its ends
  (kmsg.c:128) restarts readers at the oldest record though they had read it; and
  the bytes of a record can look like a header to one that starts over, because
  `KMSG_TAG` equals a level.
* WRITE to a serial port of more than the ring drops the oldest bytes and returns
  their number (serial.c:100); the divisor is truncated, and not divided by 16 as
  its comment has it.
* Noon in twelve-hour mode is read as midnight (rtc.c:173); the century is
  read after the loop that makes the other registers agree (rtc.c:159); without a
  century register the years from 2070 are taken for the last century's.
* `read_le32` does not shift its last byte (pardet.c:28), so partitions beyond 16 Mi
  sectors are misplaced; a timed-out packet command does not reset its drive; the
  48-bit commands are those for DMA; `ide_wait_drq` waits out its timeout when the
  drive has already reported an error.

Shell:
* A group may end in ";" (parse.c:301), which neither the grammar
  (parse.c:14) nor the manual (pur/README.md:10) has.  The modules have the grammar as it is
  written, and `ParsesGrammar` makes this one exception: a line is taken exactly when the
  grammar derives what is left of it without a ";" right before a ")".  `MCServices` has
  TLC evaluate that `(cat;)` is taken and not derived (`TakenBeyondTheGrammar`), and
  that `(;)` and `(cat;;)` are refused.
* When one program cannot be started those before it run on and are not waited
  for (exec.c:590), and one of them may keep the keyboard, which the shell
  then finds BUSY for ever (main.c:139).  In `(cat ; cat)` the second gets BUSY.
* The kernel self test expects 1 where the shell now returns 127 (ksts/main.c:2107,
  run.c:43).

## What is not modelled

isofs and fatfs (readers of a fixed format), the range checks on user pointers,
SEEK of regular files, options of the utilities and `tail`, string and stream
functions of the C library, path lookup in the shell.  Of a failed call on the name
space only the cached names remain, and `Stat` stands for it.  Not at all:
descriptor tables, port initialisation, the console and speaker (no state
that a property could be about), the editor, the calculator and the games.

In `Space`, the destruction of an address space and the failure of a collecting
loop give back their frames in one step, though ticks may fall between two
frames; nobody else can reach these frames.  In `Serial` a port has its interrupt
line to itself, where COM1 and COM3 share one.  One task at a time uses the clock's
ports, which the code does not ensure.

## Plan

Every component that has a state of its own is modelled.  What is left:

1. A bound on the seconds that pass within a reading of `Clock`, under which
   `ReadingIsATime` could be proved.
2. `NativeTree` of `Registry`, with the invariant of `RegistryProofs`.
3. Overlapping calls in `Registry`, once the code holds references across them.
