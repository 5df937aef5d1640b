-------------------------------- MODULE Pmm ---------------------------------
(***************************************************************************)
(* The physical memory manager (pmm.c): the bitmap of free frames, how it  *)
(* is set up from the boot loader's memory map, and the allocation of      *)
(* single frames.  Every allocation and release masks interrupts.          *)
(*                                                                         *)
(* Addresses are bytes, PageSize of them to a frame; a byte of the bitmap  *)
(* stands for BitsPerByte frames.                                          *)
(***************************************************************************)
EXTENDS Integers, Sequences

CONSTANTS
    PageSize, BitsPerByte,
    LOWMEM_END,          \* below it, and up to the kernel's end, all is taken
    PMM_IDENTITY_LIMIT,  \* the bitmap must lie below
    PMM_PHYS_LIMIT,      \* the end of what an address can name
    Maps                 \* the memory maps the machine may boot with; m.heap
                         \* bounds the frames that the kernel heap takes

ASSUME PmmAssumption ==
    /\ PageSize \in Nat \ {0} /\ BitsPerByte \in Nat \ {0}
    /\ LOWMEM_END \in Nat \ {0} /\ LOWMEM_END % PageSize = 0
    /\ PMM_IDENTITY_LIMIT \in Nat /\ PMM_PHYS_LIMIT \in Nat
    /\ \A m \in Maps :
          /\ m.regions \in Seq(Nat \X Nat)
          /\ m.kernel_end \in Nat /\ m.mod_start \in Nat /\ m.mod_end \in Nat

VARIABLES
    mbi,             \* the memory map of this boot
    bitmap_frames,   \* the number of frames the bitmap describes
    bitmap,          \* the frames whose bit says free
    next_free_page,  \* allocation cursor
    ram              \* history: the frames that were free at boot

bootVars == <<mbi, bitmap_frames, ram>>
pmmVars  == <<bootVars, bitmap, next_free_page>>

Lesser(a, b)  == IF a < b THEN a ELSE b
Greater(a, b) == IF a < b THEN b ELSE a
Up(a)   == (a + PageSize - 1) \div PageSize  \* frames below address a, rounded up
Down(a) == a \div PageSize
Least(S) == CHOOSE x \in S : \A y \in S : x <= y

-----------------------------------------------------------------------------
(* pmm_init.                                                               *)

\* The available regions that a 32-bit address reaches, cut off at its limit.
Usable(m) ==
    LET Cut(r) == <<r[1], Lesser(r[2], PMM_PHYS_LIMIT)>>
    IN  {Cut(m.regions[i]) : i \in {j \in DOMAIN m.regions : m.regions[j][1] < PMM_PHYS_LIMIT}}

\* Pass one: the frames up to the end of the last region.
FramesOf(m) ==
    LET ends == {r[2] : r \in Usable(m)}
    IN  IF ends = {} THEN 0 ELSE Up(CHOOSE e \in ends : \A f \in ends : f <= e)

BitmapBytes(m) == (FramesOf(m) + BitsPerByte - 1) \div BitsPerByte

carve_skip(start, limit, skip_start, skip_end) ==
    IF start >= skip_start /\ start < skip_end /\ skip_end <= limit
    THEN Lesser(Up(skip_end) * PageSize, limit) ELSE start

\* Where carve_place would put the bitmap in region r; 0 if it does not fit.
CarveIn(m, r) ==
    LET limit == Lesser(r[2], PMM_IDENTITY_LIMIT)
        past  == carve_skip(LOWMEM_END, limit, LOWMEM_END, m.kernel_end)
        start == Up(carve_skip(past, limit, m.mod_start, m.mod_end)) * PageSize
    IN  IF r[2] > LOWMEM_END /\ limit > start /\ limit - start >= BitmapBytes(m)
        THEN start ELSE 0

\* The regions in which the bitmap fits, by their place in the map.
Candidates(m) ==
    {i \in DOMAIN m.regions :
        /\ m.regions[i][1] < PMM_PHYS_LIMIT
        /\ CarveIn(m, <<m.regions[i][1], Lesser(m.regions[i][2], PMM_PHYS_LIMIT)>>) # 0}

\* The first of them is taken.
BitmapAt(m) ==
    LET r == m.regions[Least(Candidates(m))]
    IN  CarveIn(m, <<r[1], Lesser(r[2], PMM_PHYS_LIMIT)>>)

FramesIn(from, to) == Down(from) .. (Up(to) - 1)

\* What is in use at boot: low memory, the kernel, the module, the bitmap.
InUse(m) ==
    FramesIn(0, LOWMEM_END) \union FramesIn(LOWMEM_END, m.kernel_end)
      \union (IF m.mod_end > m.mod_start THEN FramesIn(m.mod_start, m.mod_end) ELSE {})
      \union FramesIn(BitmapAt(m), BitmapAt(m) + BitmapBytes(m))

\* Pass two: the frames of the regions are free, but for those in use.
BootFree(m) == (UNION {FramesIn(r[1], r[2]) : r \in Usable(m)}) \ InUse(m)

\* The boot goes through: there is room for the bitmap.
Bootable(m) == Candidates(m) # {}

-----------------------------------------------------------------------------
(* pmm_allocp and pmm_freep.                                               *)

\* What pmm_allocp finds among the free frames fr from cursor c on: the first at
\* or above it, else, the cursor wrapping once, the first of all; at most one.
FreeFrom(fr, c) ==
    {f \in fr : /\ f >= c \/ \A g \in fr : g < c
                /\ \A g \in fr : g < f => (g < c /\ f >= c)}

\* pmm_freep of the frames F lowers the cursor to the least of them.
CursorFreed(c, F) == IF \E f \in F : f < c THEN Least(F) ELSE c

\* It refuses frame 0 and what lies beyond the bitmap.
Freeable(F) == {f \in F : f # 0 /\ f < bitmap_frames}

\* The bitmap's permanent mapping is one page: map_bitmap_home fills one entry.
HomeFrames == PageSize * BitsPerByte

-----------------------------------------------------------------------------
\* The bitmap does not overlap anything it describes as in use: carve_place
\* claims to be "skipping everything already spoken for".
BitmapIsPrivate(m) ==
    LET at == BitmapAt(m)
        to == BitmapAt(m) + BitmapBytes(m)
    IN  /\ at >= m.kernel_end
        /\ to <= m.mod_start \/ at >= m.mod_end
        /\ \E r \in Usable(m) : r[1] <= at /\ to <= r[2]

\* It holds of the machines that load the kernel at LOWMEM_END, into the region that
\* is taken, and the module right behind it or with room for the bitmap in between:
\* carve_place starts at LOWMEM_END in every region, and looks at a module only
\* where the kernel ends.
LoadedLow(m) ==
    LET r     == m.regions[Least(Candidates(m))]
        limit == Lesser(Lesser(r[2], PMM_PHYS_LIMIT), PMM_IDENTITY_LIMIT)
        past  == Up(m.kernel_end) * PageSize
    IN  /\ r[1] <= LOWMEM_END /\ LOWMEM_END < m.kernel_end /\ m.kernel_end <= limit
        /\ \/ m.mod_end <= past
           \/ m.mod_start <= past /\ m.mod_end <= limit
           \/ past + BitmapBytes(m) <= m.mod_start

\* A frame is found by pmm_allocp before its walk leaves the part of the bitmap
\* that is mapped: the bitmap "describes the memory the machine actually has".  With more than
\* HomeFrames frames (128 MiB on the real machine) it does not hold.
WalkStaysMapped ==
    bitmap_frames > HomeFrames =>
        \E f \in bitmap : f < HomeFrames /\ f >= next_free_page
=============================================================================
