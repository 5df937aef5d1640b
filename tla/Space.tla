------------------------------- MODULE Space --------------------------------
(***************************************************************************)
(* Address spaces (vmm.c) and the system calls that build, change and tear *)
(* them down: PROCREATE with the ELF loader and the user stack (elf.c,     *)
(* task.c), MMAPAN, MUNMAP and the reaping of a task.                      *)
(*                                                                         *)
(* The subject is who owns a frame and what happens when frames run out.   *)
(* pmm_allocp masks interrupts itself; a pass of MMAPAN and vmm_map_in_run *)
(* mask them for their whole length; the rest can be preempted.  Windows   *)
(* names the places between the mapping of a scratch page and its last use *)
(* where the timer is allowed to strike.                                   *)
(***************************************************************************)
EXTENDS Pmm, FiniteSets

CONSTANTS
    Tasks,         \* the user tasks there may be
    Kernel,        \* the boot context, which creates the first of them
    NPde, PtePer,  \* user page tables in a directory, pages in a table
    InitPrograms,  \* what the boot may load, and
    Programs,      \* what PROCREATE may: sequences of runs of pages
    MMAPAN_CHUNK,
    Windows

UserPages == 0..(NPde * PtePer - 1)
Pdes  == 0..(NPde - 1)
Kinds == {"image", "stack"}
PageRun == [first : UserPages, count : Nat \ {0}, kind : Kinds]
Scratchy == {"clear", "rec", "write"}  \* a scratch page is in use
Masked == {"map", "mget", "mput"}      \* interrupts are off
Places == {"none", "user", "collect", "load", "start", "pass", "undo"}
            \union Scratchy \union Masked

ASSUME SpaceAssumption ==
    /\ IsFiniteSet(Tasks) /\ Kernel \notin Tasks
    /\ NPde \in Nat \ {0} /\ PtePer \in Nat \ {0}
    /\ MMAPAN_CHUNK \in Nat \ {0}
    /\ \A m \in Maps : m.heap \in Nat
    /\ Windows \subseteq Scratchy
    /\ \A prog \in Programs \union InitPrograms :
          /\ prog \in Seq(PageRun)
          /\ prog # <<>>
          /\ \A i \in DOMAIN prog : prog[i].first + prog[i].count - 1 \in UserPages

Contexts == Tasks \union {Kernel}

VARIABLES
    ktables,     \* frames of the kernel's own page tables
    heap,        \* frames behind the kernel heap
    dir,         \* a task's page directory; 0 if it has none
    tables, pte,  \* the user part of its directory, and of its tables
    rec,         \* the frame that the directory's recursive entry names
    scratch,     \* the frame at PAGE_DIR_TEMP_MAP, 0 if none
    elfscratch,  \* the frame at ELF_LOAD_SCRATCH, 0 if none
    pc, sub,     \* where a task is, and whose space it builds
    todo, got, at,         \* runs still to build, frames of this one, pages done
    base_page, npages, mapped,  \* MMAPAN's range, and the pages of earlier passes
    content,     \* history: whose data a frame holds
    use          \* history: what a page of a task is for

kernelVars == <<ktables, heap>>
spaces  == <<dir, tables, pte, rec, use>>
windows == <<scratch, elfscratch>>
range   == <<base_page, npages, mapped>>
locals  == <<pc, sub, todo, got, at, range>>
spaceVars == <<pmmVars, kernelVars, spaces, windows, locals, content>>

Elems(s) == {s[i] : i \in DOMAIN s}
AllFrames == 1..(bitmap_frames - 1)

\* What pmm_allocp finds now.
Fit == FreeFrom(bitmap, next_free_page)

\* After pmm_init and vmm_init, and the mapping of the init module: the bitmap's
\* home, the upper half of the kernel heap and the scratch pages have a page
\* table each.
SpaceInit ==
    /\ mbi \in {m \in Maps : Bootable(m)}
    /\ bitmap_frames = FramesOf(mbi) /\ ram = BootFree(mbi)
    /\ ktables \in SUBSET ram /\ Cardinality(ktables) = 3
    /\ \A f \in ktables, g \in ram \ ktables : f < g
    /\ bitmap = ram \ ktables
    /\ \E f \in ktables : (\A g \in ktables : g <= f) /\ next_free_page = f + 1
    /\ heap = {}
    /\ dir = [u \in Tasks |-> 0] /\ rec = [u \in Tasks |-> 0]
    /\ tables = [u \in Tasks |-> [k \in Pdes |-> 0]]
    /\ pte = [u \in Tasks |-> [p \in UserPages |-> 0]]
    /\ use = [u \in Tasks |-> [p \in UserPages |-> "none"]]
    /\ scratch = 0 /\ elfscratch = 0
    /\ pc = [t \in Contexts |-> IF t = Kernel THEN "user" ELSE "none"]
    /\ sub = [t \in Contexts |-> Kernel] /\ todo = [t \in Contexts |-> <<>>]
    /\ got = [t \in Contexts |-> <<>>] /\ at = [t \in Contexts |-> 0]
    /\ base_page = [t \in Contexts |-> 0] /\ npages = [t \in Contexts |-> 0]
    /\ mapped = [t \in Contexts |-> 0]
    /\ content = [f \in AllFrames |-> "junk"]

-----------------------------------------------------------------------------
\* t can execute its next step from place p: nobody else is inside a stretch
\* with interrupts off, or inside a window that no tick interrupts.
Quiet(t) == \A u \in Contexts \ {t} : pc[u] \notin Masked \union (Scratchy \ Windows)
At(t, p) == pc[t] = p /\ Quiet(t)

Goto(t, p) == pc' = [pc EXCEPT ![t] = p]

\* pmm_allocp hands out f.
Take(f) ==
    /\ bitmap' = bitmap \ {f}
    /\ next_free_page' = f + 1

\* pmm_freep for each frame of F, the cursor being at c.
GiveBack(c, F) ==
    /\ bitmap' = bitmap \union Freeable(F)
    /\ next_free_page' = CursorFreed(c, Freeable(F))
    /\ content' = [f \in AllFrames |-> IF f \in F THEN "junk" ELSE content[f]]

-----------------------------------------------------------------------------
(* vmm_create_page_dir, called by PROCREATE with interrupts on.  A scratch *)
(* page that is not mapped when it is written is a page fault in kernel    *)
(* mode, which nothing follows.                                            *)

\* The boot builds the first task, and a task the others.
CreateDir(t, u, prog) ==
    /\ At(t, "user") /\ pc[u] = "none"
    /\ \A v \in Contexts : sub[v] # u
    /\ prog \in IF t = Kernel THEN InitPrograms ELSE Programs
    /\ \E f \in Fit :
          /\ Take(f)
          /\ dir' = [dir EXCEPT ![u] = f]
          /\ scratch' = f
    /\ sub' = [sub EXCEPT ![t] = u]
    /\ todo' = [todo EXCEPT ![t] = prog]
    /\ Goto(t, "clear")
    /\ UNCHANGED <<bootVars, kernelVars, tables, pte, rec, use, elfscratch, got, at, range,
                   content>>

\* memset and the copy of the kernel's entries, through the scratch page.
ClearDir(t) ==
    /\ At(t, "clear") /\ scratch # 0
    /\ content' = [content EXCEPT ![scratch] = "zero"]
    /\ rec' = [u \in Tasks |-> IF dir[u] = scratch THEN 0 ELSE rec[u]]
    /\ Goto(t, "rec")
    /\ UNCHANGED <<pmmVars, kernelVars, dir, tables, pte, use, windows, sub, todo, got, at, range>>

\* As a bug: the recursive entry is the kernel's, copied with the others.
SetRec_Kernel(t) ==
    /\ At(t, "rec") /\ scratch # 0
    /\ scratch' = 0
    /\ Goto(t, "collect")
    /\ UNCHANGED <<pmmVars, kernelVars, dir, tables, pte, use, rec, elfscratch, sub, todo, got,
                   at, range, content>>

\* The recursive entry, and the end of the scratch mapping.
SetRec(t) ==
    /\ At(t, "rec") /\ scratch # 0
    /\ rec' = [u \in Tasks |-> IF dir[u] = scratch THEN dir[sub[t]] ELSE rec[u]]
    /\ scratch' = 0
    /\ Goto(t, "collect")
    /\ UNCHANGED <<pmmVars, kernelVars, dir, tables, pte, use, elfscratch, sub, todo, got, at,
                   range, content>>

-----------------------------------------------------------------------------
(* vmm_map and vmm_destroy_page_dir.                                       *)

PdeOf(p) == p \div PtePer
NeedsTable(u, p) == tables[u][PdeOf(p)] = 0
CanMap(u, p) == NeedsTable(u, p) => Fit # {}

\* vmm_map of frame f at page p of u takes a table if one is missing ...
MapPage(u, p, f) ==
    /\ IF NeedsTable(u, p)
       THEN \E g \in Fit : Take(g) /\ tables' = [tables EXCEPT ![u][PdeOf(p)] = g]
       ELSE UNCHANGED <<bitmap, next_free_page, tables>>
    /\ pte' = [pte EXCEPT ![u][p] = f]

\* ... and does nothing if it gets none.
MapNothing ==
    /\ next_free_page' = 0
    /\ UNCHANGED <<bitmap, tables, pte>>

Backed(u) == {pte[u][p] : p \in UserPages} \ {0}
TablesOf(u) == {tables[u][k] : k \in Pdes} \ {0}

\* The entries of u are gone.
Cleared(u) ==
    /\ dir' = [dir EXCEPT ![u] = 0] /\ rec' = [rec EXCEPT ![u] = 0]
    /\ tables' = [tables EXCEPT ![u] = [k \in Pdes |-> 0]]
    /\ pte' = [pte EXCEPT ![u] = [p \in UserPages |-> 0]]
    /\ use' = [use EXCEPT ![u] = [p \in UserPages |-> "none"]]

\* vmm_destroy_page_dir of u, after the frames F and from cursor c.
Destroyed(u, c, F) ==
    GiveBack(c, F \union Backed(u) \union TablesOf(u) \union {dir[u]}) /\ Cleared(u)

-----------------------------------------------------------------------------
(* elf_load_segments and user_stack_setup: one run of pages after another. *)

Run(t) == todo[t][1]

\* The call ends, and its locals are dead; the boot context is left for good.
Idle(t) ==
    /\ sub' = [sub EXCEPT ![t] = Kernel] /\ todo' = [todo EXCEPT ![t] = <<>>]
    /\ got' = [got EXCEPT ![t] = <<>>] /\ at' = [at EXCEPT ![t] = 0]
    /\ base_page' = [base_page EXCEPT ![t] = 0] /\ npages' = [npages EXCEPT ![t] = 0]
    /\ mapped' = [mapped EXCEPT ![t] = 0]

Back(t) == IF t = Kernel THEN "none" ELSE "user"

\* A frame for the next page of the run.
Collect(t) ==
    /\ At(t, "collect")
    /\ \E f \in Fit : Take(f) /\ got' = [got EXCEPT ![t] = Append(@, f)]
    /\ Goto(t, IF Len(got[t]) + 1 = Run(t).count THEN "map" ELSE "collect")
    /\ UNCHANGED <<bootVars, kernelVars, spaces, windows, sub, todo, at, range, content>>

\* There is none: the frames collected go back, and procreate_cleanup destroys
\* the space.
CollectFails(t) ==
    /\ At(t, "collect") /\ Fit = {}
    /\ Destroyed(sub[t], 0, Elems(got[t]))
    /\ Goto(t, Back(t)) /\ Idle(t)
    /\ UNCHANGED <<bootVars, kernelVars, windows>>

NextRun(t) ==
    /\ todo' = [todo EXCEPT ![t] = Tail(@)]
    /\ got' = [got EXCEPT ![t] = <<>>]
    /\ at' = [at EXCEPT ![t] = 0]
    /\ Goto(t, IF Len(todo[t]) = 1 THEN "start" ELSE "collect")

\* After the last page of a run the loader fills an image; a stack is done.
RunMapped(t) ==
    IF at[t] + 1 < Run(t).count
    THEN at' = [at EXCEPT ![t] = @ + 1] /\ UNCHANGED <<pc, todo, got>>
    ELSE IF Run(t).kind = "image"
    THEN at' = [at EXCEPT ![t] = 0] /\ Goto(t, "load") /\ UNCHANGED <<todo, got>>
    ELSE NextRun(t)

\* One turn of vmm_map_in_run ...
MapInRun(t) ==
    /\ At(t, "map")
    /\ LET u == sub[t]
           p == Run(t).first + at[t]
       IN  /\ CanMap(u, p)
           /\ MapPage(u, p, got[t][at[t] + 1])
           /\ use' = [use EXCEPT ![u][p] = Run(t).kind]
    /\ RunMapped(t)
    /\ UNCHANGED <<bootVars, kernelVars, dir, rec, windows, sub, range, content>>

\* ... which does not look whether vmm_map did anything.
MapInRunMisses(t) ==
    /\ At(t, "map")
    /\ ~CanMap(sub[t], Run(t).first + at[t])
    /\ MapNothing
    /\ RunMapped(t)
    /\ UNCHANGED <<bootVars, kernelVars, dir, rec, use, windows, sub, range, content>>

\* The loader maps the next frame at its scratch page ...
ElfMap(t) ==
    /\ At(t, "load")
    /\ elfscratch' = got[t][at[t] + 1]
    /\ Goto(t, "write")
    /\ UNCHANGED <<pmmVars, kernelVars, spaces, scratch, sub, todo, got, at, range, content>>

\* ... writes the segment's bytes through it, and unmaps it.
ElfWrite(t) ==
    /\ At(t, "write") /\ elfscratch # 0
    /\ content' = [content EXCEPT ![elfscratch] = sub[t]]
    /\ elfscratch' = 0
    /\ IF at[t] + 1 < Run(t).count
       THEN at' = [at EXCEPT ![t] = @ + 1] /\ Goto(t, "load") /\ UNCHANGED <<todo, got>>
       ELSE NextRun(t)
    /\ UNCHANGED <<pmmVars, kernelVars, spaces, scratch, sub, range>>

\* The argument block is written and the child starts ...
Start(t) ==
    /\ At(t, "start")
    /\ pc' = [pc EXCEPT ![t] = Back(t), ![sub[t]] = "user"]
    /\ Idle(t)
    /\ UNCHANGED <<pmmVars, kernelVars, spaces, windows, content>>

\* ... or it does not fit, or a stream is bad: procreate_cleanup.
Abandon(t) ==
    /\ At(t, "start") /\ t # Kernel
    /\ Destroyed(sub[t], next_free_page, {})
    /\ Goto(t, "user") /\ Idle(t)
    /\ UNCHANGED <<bootVars, kernelVars, windows>>

-----------------------------------------------------------------------------
(* MMAPAN, MUNMAP and the end of a task.                                   *)

\* As a bug: only the first page of the gap is looked at.
Gaps_FirstPage(u, lo, hi, n) == {p \in lo..(hi - n) : pte[u][p] = 0}

\* vmm_scan_free over the pages from lo up to hi: where n unmapped pages fit.
Gaps(u, lo, hi, n) ==
    {p \in lo..(hi - n) : \A q \in p..(p + n - 1) : pte[u][q] = 0}

\* vmm_find_free_run: the first gap at or above the hint, else the first below.
FindFreeRun(u, hint, n) ==
    LET above == Gaps(u, hint, NPde * PtePer, n)
        fits  == IF above # {} THEN above ELSE Gaps(u, 0, hint, n)
    IN  {p \in fits : \A q \in fits : p <= q}

\* MMAPAN chooses its range.
Mmapan(t, hint, n) ==
    /\ At(t, "user")
    /\ \E p \in FindFreeRun(t, hint, n) : base_page' = [base_page EXCEPT ![t] = p]
    /\ npages' = [npages EXCEPT ![t] = n]
    /\ Goto(t, "pass")
    /\ UNCHANGED <<pmmVars, kernelVars, spaces, windows, sub, todo, got, at, mapped, content>>

Chunk(t) == Lesser(MMAPAN_CHUNK, npages[t] - mapped[t])

\* A pass masks interrupts and collects its frames ...
PassGet(t) ==
    /\ At(t, "pass") \/ At(t, "mget")
    /\ \E f \in Fit : Take(f) /\ got' = [got EXCEPT ![t] = Append(@, f)]
    /\ Goto(t, IF Len(got[t]) + 1 = Chunk(t) THEN "mput" ELSE "mget")
    /\ UNCHANGED <<bootVars, kernelVars, spaces, windows, sub, todo, at, range, content>>

\* ... or, frames having run out, gives those of this pass back.
PassFails(t) ==
    /\ At(t, "pass") \/ At(t, "mget")
    /\ Fit = {}
    /\ GiveBack(0, Elems(got[t]))
    /\ got' = [got EXCEPT ![t] = <<>>]
    /\ Goto(t, "undo")
    /\ UNCHANGED <<bootVars, kernelVars, spaces, windows, sub, todo, at, range>>


\* The pass ends, and with it the call or not.
PassDone(t) ==
    IF mapped[t] + Len(got[t]) = npages[t]
    THEN Goto(t, "user") /\ Idle(t)
    ELSE /\ mapped' = [mapped EXCEPT ![t] = @ + Len(got[t])]
         /\ got' = [got EXCEPT ![t] = <<>>] /\ at' = [at EXCEPT ![t] = 0]
         /\ Goto(t, "pass")
         /\ UNCHANGED <<sub, todo, base_page, npages>>

\* One turn of vmm_map_zeroed_run: clear the frame through the scratch page, map
\* it, and look whether that worked.
PassPut(t) ==
    /\ At(t, "mput")
    /\ LET p == base_page[t] + mapped[t] + at[t]
           f == got[t][at[t] + 1]
       IN  /\ CanMap(t, p) /\ MapPage(t, p, f)
           /\ use' = [use EXCEPT ![t][p] = "anon"]
           /\ content' = [content EXCEPT ![f] = "zero"]
    /\ scratch' = 0
    /\ IF at[t] + 1 = Len(got[t]) THEN PassDone(t)
       ELSE at' = [at EXCEPT ![t] = @ + 1] /\ UNCHANGED <<pc, sub, todo, got, range>>
    /\ UNCHANGED <<bootVars, kernelVars, dir, rec, elfscratch>>

\* Unmaps the n pages from p on.
Unmapped(u, p, n) ==
    LET gone == {q \in UserPages : q >= p /\ q < p + n}
    IN  /\ pte' = [pte EXCEPT ![u] = [q \in UserPages |-> IF q \in gone THEN 0 ELSE @[q]]]
        /\ use' = [use EXCEPT ![u] = [q \in UserPages |-> IF q \in gone THEN "none" ELSE @[q]]]

\* As a bug: the pages of this pass stay mapped.
PassPutFails_Mapped(t) ==
    /\ At(t, "mput") /\ ~CanMap(t, base_page[t] + mapped[t] + at[t])
    /\ GiveBack(0, Elems(got[t]))
    /\ got' = [got EXCEPT ![t] = <<>>] /\ at' = [at EXCEPT ![t] = 0]
    /\ scratch' = 0
    /\ Goto(t, "undo")
    /\ UNCHANGED <<bootVars, kernelVars, spaces, elfscratch, sub, todo, range>>

\* It did not, for want of a table: the pages of this pass are unmapped, and all
\* of its frames given back.
PassPutFails(t) ==
    /\ At(t, "mput") /\ ~CanMap(t, base_page[t] + mapped[t] + at[t])
    /\ Unmapped(t, base_page[t] + mapped[t], Len(got[t]))
    /\ GiveBack(0, Elems(got[t]))
    /\ got' = [got EXCEPT ![t] = <<>>] /\ at' = [at EXCEPT ![t] = 0]
    /\ scratch' = 0
    /\ Goto(t, "undo")
    /\ UNCHANGED <<bootVars, kernelVars, dir, tables, rec, elfscratch, sub, todo, range>>

\* vmm_unmap_run_free for n pages from p on.
UnmapRunFree(u, p, n) ==
    /\ GiveBack(next_free_page, {pte[u][q] : q \in {r \in UserPages : r >= p /\ r < p + n}} \ {0})
    /\ Unmapped(u, p, n)

\* As a bug: a pass that failed leaves the earlier ones' pages.
Undo_Nothing(t) ==
    /\ At(t, "undo")
    /\ Goto(t, "user") /\ Idle(t)
    /\ UNCHANGED <<pmmVars, kernelVars, spaces, windows, content>>

\* With interrupts on again, so do the pages of the earlier passes.
Undo(t) ==
    /\ At(t, "undo")
    /\ UnmapRunFree(t, base_page[t], mapped[t])
    /\ Goto(t, "user") /\ Idle(t)
    /\ UNCHANGED <<bootVars, kernelVars, dir, tables, rec, windows>>

Munmap(t, p, n) ==
    /\ At(t, "user")
    /\ UnmapRunFree(t, p, n)
    /\ UNCHANGED <<bootVars, kernelVars, dir, tables, rec, windows, locals>>

\* A task ends and its address space is reaped.
Reap(t) ==
    /\ At(t, "user")
    /\ Destroyed(t, next_free_page, {})
    /\ Goto(t, "none")
    /\ UNCHANGED <<bootVars, kernelVars, windows, sub, todo, got, at, range>>

-----------------------------------------------------------------------------
(* The kernel heap takes and returns frames; both mask interrupts.         *)

Unmasked == \A t \in Contexts : Quiet(t)

HeapTake ==
    /\ Unmasked /\ Cardinality(heap) < mbi.heap
    /\ \E f \in Fit : Take(f) /\ heap' = heap \union {f}
    /\ UNCHANGED <<bootVars, ktables, spaces, windows, locals, content>>

HeapGive(f) ==
    /\ Unmasked /\ f \in heap
    /\ GiveBack(next_free_page, {f})
    /\ heap' = heap \ {f}
    /\ UNCHANGED <<bootVars, ktables, spaces, windows, locals>>

\* Whoever asks pmm_allocp in vain, a PROCREATE for its directory among them,
\* leaves the cursor at the start.
NoFrame ==
    /\ Unmasked /\ Fit = {}
    /\ next_free_page' = 0
    /\ UNCHANGED <<bootVars, bitmap, kernelVars, spaces, windows, locals, content>>

-----------------------------------------------------------------------------
SpaceNext ==
    \/ \E t \in Contexts :
          \/ \E u \in Tasks, prog \in Programs \union InitPrograms : CreateDir(t, u, prog)
          \/ ClearDir(t) \/ SetRec(t)
          \/ Collect(t) \/ CollectFails(t) \/ MapInRun(t) \/ MapInRunMisses(t)
          \/ ElfMap(t) \/ ElfWrite(t) \/ Start(t) \/ Abandon(t)
    \/ \E t \in Tasks :
          \/ \E hint \in UserPages, n \in 1..(NPde * PtePer) : Mmapan(t, hint, n)
          \/ PassGet(t) \/ PassFails(t) \/ PassPut(t) \/ PassPutFails(t) \/ Undo(t)
          \/ \E p \in UserPages, n \in 1..(NPde * PtePer) : p + n - 1 \in UserPages /\ Munmap(t, p, n)
          \/ Reap(t)
    \/ HeapTake \/ (\E f \in heap : HeapGive(f)) \/ NoFrame

SpaceSpec == SpaceInit /\ [][SpaceNext]_spaceVars

-----------------------------------------------------------------------------
(* Properties.                                                             *)

FrameOr0 == 0..(bitmap_frames - 1)

\* The type of every variable.
SpaceTypeOK ==
    /\ mbi \in Maps /\ bitmap_frames \in Nat
    /\ ram \subseteq AllFrames /\ bitmap \subseteq AllFrames
    /\ next_free_page \in Nat
    /\ ktables \subseteq AllFrames /\ heap \subseteq AllFrames
    /\ dir \in [Tasks -> FrameOr0] /\ rec \in [Tasks -> FrameOr0]
    /\ tables \in [Tasks -> [Pdes -> FrameOr0]] /\ pte \in [Tasks -> [UserPages -> FrameOr0]]
    /\ use \in [Tasks -> [UserPages -> Kinds \union {"none", "anon"}]]
    /\ scratch \in FrameOr0 /\ elfscratch \in FrameOr0
    /\ pc \in [Contexts -> Places] /\ sub \in [Contexts -> Contexts]
    /\ todo \in [Contexts -> Seq(PageRun)]
    /\ got \in [Contexts -> Seq(AllFrames)]
    /\ at \in [Contexts -> Nat] /\ base_page \in [Contexts -> UserPages] /\ npages \in [Contexts -> Nat]
    /\ mapped \in [Contexts -> Nat]
    /\ content \in [AllFrames -> {"junk", "zero"} \union Tasks]

\* The frames a call has collected and not mapped yet.
Carried(t) ==
    {got[t][i] : i \in {j \in DOMAIN got[t] :
                          \/ pc[t] \in {"collect", "mget"}
                          \/ pc[t] \in {"map", "mput"} /\ j > at[t]}}

\* The ways a frame can be in use: a name for every place that may hold one.
Uses ==
    {<<"dir", u>> : u \in Tasks}
      \union {<<"table", u, k>> : u \in Tasks, k \in Pdes}
      \union {<<"page", u, p>> : u \in Tasks, p \in UserPages}

FrameAt(x) ==
    IF x[1] = "dir" THEN dir[x[2]]
    ELSE IF x[1] = "table" THEN tables[x[2]][x[3]] ELSE pte[x[2]][x[3]]

InSpaces == {FrameAt(x) : x \in Uses} \ {0}

\* A frame has one owner: no two directories, tables or pages of any two tasks
\* share one, none of them is free, the kernel's or carried by a call in
\* progress.  pmm_allocp never hands out a frame that somebody still uses.
FramesOwnedOnce ==
    /\ SpaceTypeOK
    /\ Cardinality(InSpaces) = Cardinality({x \in Uses : FrameAt(x) # 0})
    /\ InSpaces \cap (bitmap \union ktables \union heap) = {}
    /\ bitmap \cap (ktables \union heap) = {} /\ ktables \cap heap = {}
    /\ (UNION {Carried(t) : t \in Contexts}) \cap (InSpaces \union bitmap \union ktables \union heap) = {}
    /\ \A t, u \in Contexts : t # u => Carried(t) \cap Carried(u) = {}

\* A task that runs has a directory whose recursive entry is its own, its image
\* is its program's and the pages it got from MMAPAN were cleared; and no frame
\* that the boot image uses is ever handed out: low memory, the kernel, the module
\* and the bitmap stay untouched.
SpacesAreOwn ==
    /\ \A u \in Tasks : pc[u] # "none" =>
           /\ dir[u] # 0 /\ rec[u] = dir[u]
           /\ \A p \in UserPages : pte[u][p] # 0 =>
                 /\ use[u][p] = "image" => content[pte[u][p]] = u
                 /\ use[u][p] = "anon" => content[pte[u][p]] = "zero"
    /\ bitmap \union InSpaces \union ktables \union heap \subseteq ram
    /\ InSpaces = {} => ram \cap FramesIn(0, mbi.kernel_end) = {} /\ BitmapIsPrivate(mbi)

\* The frames of which nobody knows any more.
Lost == ram \ (bitmap \union InSpaces \union ktables \union heap
                           \union UNION {Carried(t) : t \in Contexts})

\* A call gives up for want of memory only when no frame is free, and MMAPAN then
\* leaves nothing mapped of what its earlier passes mapped.  Only vmm_map_in_run,
\* which loses a frame when there is no page table, can lose one: every failure of
\* MMAPAN and of the collecting loops, MUNMAP and the reaping of a task give back
\* all they had.
FailsCleanly ==
    [][/\ Lost' # Lost => \E t \in Contexts : pc[t] = "map"
       /\ \A t \in Contexts :
             /\ pc[t] \in {"collect", "pass", "mget"} /\ pc'[t] \in {"user", "undo", "none"}
                   => bitmap = {}
             /\ pc[t] = "undo" /\ pc'[t] = "user"
                   => \A p \in base_page[t]..(base_page[t] + mapped[t] - 1) : pte'[t][p] = 0]_spaceVars

\* MMAPAN keeps its range to itself: what it maps replaces nothing.
MapsOverNothing ==
    [][\A u \in Tasks, p \in UserPages :
          pte[u][p] # 0 /\ pc[u] \in {"pass", "mget", "mput"}
            => pte'[u][p] \in {pte[u][p], 0}]_spaceVars
=============================================================================
