-------------------------------- MODULE Kheap --------------------------------
(***************************************************************************)
(* The kernel's heap: pages of virtual memory (vmalloc.c) and the objects  *)
(* of kmalloc that are cut from them (slab.c), over the frames that the    *)
(* rest of the kernel takes and gives back.                                *)
(*                                                                         *)
(* Every call runs with interrupts off and is one step.  Pages are         *)
(* numbered, a pointer is a page and an offset into it, and the sizes of   *)
(* pages, headers and objects are parameters.  The page tables of the heap *)
(* are there already.                                                      *)
(***************************************************************************)
EXTENDS Integers, Sequences, FiniteSets, SequencesExt, FiniteSetsExt

CONSTANTS
    Frames,           \* page frames: positive numbers
    HeapEnd,          \* VMALLOC_END, in pages: the heap is 1..HeapEnd
    VmFreeMax,        \* VM_FREE_MAX
    PageBytes,        \* PAGE_SIZE
    SlabHeader,       \* sizeof(slab_t)
    ObjSizes,         \* sizes of the caches, ascending
    MaxBig,           \* MAX_BIG_ALLOCS
    Asks,             \* [size, align] that kmalloc is called with
    RawRuns,          \* lengths that vmalloc_pages is called with
    MaxHeld           \* pointers held at a time

ASSUME KheapAssumption ==
    /\ Frames \subseteq Nat \ {0} /\ IsFiniteSet(Frames)
    /\ {HeapEnd, VmFreeMax, PageBytes, SlabHeader, MaxBig} \subseteq Nat \ {0}
    /\ ObjSizes \in Seq(1..PageBytes) /\ ObjSizes # <<>>

VARIABLES
    pool,             \* frames that are free
    others,           \* frames that the rest of the kernel has
    table,            \* the frame of each heap page, or 0
    next,             \* vmalloc_next
    vmfree,           \* the free ranges: [at, n]
    caches,           \* the slabs of each cache, newest first
    slab,             \* per page: the slab that it holds
    big,              \* big_allocs: [at, n], or NoBig
    held,             \* pointers in use: [page, off, n], n being what was asked for
    panicked          \* kpanic was called

kheapVars == <<pool, others, table, next, vmfree, caches, slab, big, held, panicked>>

Pages == 1..HeapEnd
NoSlab == [obj |-> 0, free |-> <<>>, used |-> 0]
NoBig == [at |-> 0, n |-> 0]

\* The state as a record, through which a call goes on step by step.
Heap == [pool |-> pool, table |-> table, next |-> next, vmfree |-> vmfree,
         caches |-> caches, slab |-> slab, big |-> big]
Becomes(h) ==
    /\ pool' = h.pool /\ table' = h.table /\ next' = h.next /\ vmfree' = h.vmfree
    /\ caches' = h.caches /\ slab' = h.slab /\ big' = h.big

-----------------------------------------------------------------------------
(***************************************************************************)
(* Ranges of pages that are free.                                          *)
(***************************************************************************)
SwapRemove(s, i) == Front([s EXCEPT ![i] = Last(s)])
Touches(e, lo, hi) == e.at + e.n >= lo /\ e.at <= hi

\* All entries that the range meets become one with it, until none is left.
RECURSIVE Merged(_, _, _)
Merged(s, lo, hi) ==
    LET meets == {i \in DOMAIN s : Touches(s[i], lo, hi)}
        i == Min(meets)
    IN  IF meets = {} THEN [list |-> s, lo |-> lo, hi |-> hi]
        ELSE Merged(SwapRemove(s, i), Min({lo, s[i].at}), Max({hi, s[i].at + s[i].n}))

\* A range that has no place in the list is lost.
Listed(m) ==
    IF Len(m.list) >= VmFreeMax THEN m.list ELSE Append(m.list, [at |-> m.lo, n |-> m.hi - m.lo])

vmfree_insert(s, at, n) == IF n = 0 THEN s ELSE Listed(Merged(s, at, at + n))

\* The first of the smallest ranges that are long enough.
BestFit(s, n) ==
    LET fit == {i \in DOMAIN s : s[i].n >= n}
    IN  Min({i \in fit : \A k \in fit : s[i].n <= s[k].n})

\* As a bug: the range keeps the pages that were taken from it.
vmfree_take_Keeps(s, b, n) == IF s[b].n = n THEN SwapRemove(s, b) ELSE s

\* What is left when the pages are taken from the start of range b.
vmfree_take(s, b, n) ==
    IF s[b].n = n THEN SwapRemove(s, b) ELSE [s EXCEPT ![b] = [at |-> @.at + n, n |-> @.n - n]]

PlacedIn(h, b, n) == [at |-> h.vmfree[b].at, h |-> [h EXCEPT !.vmfree = vmfree_take(@, b, n)]]

\* Where the pages go, or 0.
Placed(h, n) ==
    IF \E i \in DOMAIN h.vmfree : h.vmfree[i].n >= n THEN PlacedIn(h, BestFit(h.vmfree, n), n)
    ELSE IF h.next + n - 1 > HeapEnd THEN [at |-> 0, h |-> h]
    ELSE [at |-> h.next, h |-> [h EXCEPT !.next = @ + n]]

\* Frames are alike here: the lowest come first (where pmm_allocp looks, see Pmm).
ByNumber(fs) == SetToSortSeq(fs, <)

\* Every page gets a frame.
Mapped(h, at, n) ==
    LET fs == ByNumber(h.pool)
    IN  [h EXCEPT !.pool = h.pool \ {fs[i] : i \in 1..n},
                  !.table = [p \in Pages |-> IF p \in at..(at + n - 1) THEN fs[p - at + 1] ELSE @[p]]]

\* The pages that were mapped are unmapped again before their frames are looked up,
\* and the lookup then finds none: the frames are not given back.
Undone(h, at, done, n) ==
    [h EXCEPT !.pool = {},
              !.vmfree = vmfree_insert(vmfree_insert(@, at, done), at + done, n - done)]

WithFrames(p, frames, n) ==
    CASE p.at = 0 -> p
      [] p.at # 0 /\ frames < n -> [at |-> 0, h |-> Undone(p.h, p.at, frames, n)]
      [] OTHER -> [at |-> p.at, h |-> Mapped(p.h, p.at, n)]

vmalloc_pages(h, n) == WithFrames(Placed(h, n), Cardinality(h.pool), n)

vmalloc_free(h, page) ==
    IF h.table[page] = 0 THEN h
    ELSE [h EXCEPT !.table[page] = 0, !.pool = @ \union {h.table[page]}, !.vmfree = vmfree_insert(@, page, 1)]
vmalloc_free_pages(h, at, n) == FoldLeft(vmalloc_free, h, [i \in 1..n |-> at + i - 1])

-----------------------------------------------------------------------------
(***************************************************************************)
(* Slabs.                                                                  *)
(***************************************************************************)
align_up(n, a) == ((n + a - 1) \div a) * a

\* As a bug: the header is not taken off.
Capacity_OfPage(obj) == PageBytes \div obj

Capacity(obj) == (PageBytes - align_up(SlabHeader, obj)) \div obj

slab_obj(obj, i) == align_up(SlabHeader, obj) + i * obj

Index(obj, off) == (off - align_up(SlabHeader, obj)) \div obj

cache_for(size, align) ==
    LET fit == {i \in DOMAIN ObjSizes : ObjSizes[i] >= size /\ ObjSizes[i] % align = 0}
    IN  IF fit = {} THEN 0 ELSE Min(fit)

slab_create(obj) == [obj |-> obj, free |-> [i \in 1..Capacity(obj) |-> i - 1], used |-> 0]

NewSlab(v, c) ==
    IF v.at = 0 THEN v
    ELSE [at |-> v.at, h |-> [v.h EXCEPT !.caches[c] = <<v.at>> \o @, !.slab[v.at] = slab_create(ObjSizes[c])]]

\* A slab of the cache with room in it, which may have to be made.
WithRoom(h, c) ==
    LET rooms == {i \in DOMAIN h.caches[c] : h.slab[h.caches[c][i]].free # <<>>}
    IN  IF rooms # {} THEN [at |-> h.caches[c][Min(rooms)], h |-> h] ELSE NewSlab(vmalloc_pages(h, 1), c)

NoPointer == [page |-> 0, off |-> 0, n |-> 0]
Answer(h, page, off, n) == [h |-> h, p |-> [page |-> page, off |-> off, n |-> n], panics |-> FALSE]
Refusal(h) == [h |-> h, p |-> NoPointer, panics |-> FALSE]

\* kmalloc_inner, of at most the largest object: the slab and the first free object of it.
FirstObject(r, size) ==
    IF r.at = 0 THEN [Refusal(r.h) EXCEPT !.panics = TRUE]
    ELSE Answer([r.h EXCEPT !.slab[r.at] = [@ EXCEPT !.free = Tail(@), !.used = @ + 1]],
                r.at, slab_obj(r.h.slab[r.at].obj, Head(r.h.slab[r.at].free)), size)
kmalloc_small(c, size) == IF c = 0 THEN Refusal(Heap) ELSE FirstObject(WithRoom(Heap, c), size)

\* Of more: one page, or a run with a page for its header, listed in big_allocs.
TotalPages(size) == IF size <= PageBytes THEN 1 ELSE (size + PageBytes - 1) \div PageBytes + 1
LargeRun(v, total, size) ==
    LET slots == {i \in 1..MaxBig : v.h.big[i] = NoBig}
        data == IF total = 1 THEN v.at ELSE v.at + 1
    IN  IF v.at = 0 THEN Refusal(v.h)
        ELSE IF slots = {} THEN Refusal(vmalloc_free_pages(v.h, v.at, total))
        ELSE Answer([v.h EXCEPT !.big[Min(slots)] = [at |-> data, n |-> total]], data, 0, size)
kmalloc_big(size) == LargeRun(vmalloc_pages(Heap, TotalPages(size)), TotalPages(size), size)

Gives(r) ==
    /\ Becomes(r.h) /\ panicked' = r.panics
    /\ held' = IF r.p = NoPointer THEN held ELSE held \union {r.p}
Kmalloc(a) ==
    /\ ~panicked /\ Cardinality(held) < MaxHeld
    /\ \E r \in {IF a.size > Max(ToSet(ObjSizes)) THEN kmalloc_big(a.size)
                 ELSE kmalloc_small(cache_for(a.size, a.align), a.size)} : Gives(r)
    /\ UNCHANGED others

\* kfree_inner, of an object and of whole pages.
Freed(p) ==
    LET s == slab[p.page]
        i == Index(s.obj, p.off)
        slots == {b \in 1..MaxBig : big[b].at = p.page}
        b == big[Min(slots)]
    IN  IF p.off # 0
        THEN IF i >= Capacity(s.obj) \/ s.used = 0 \/ i \in ToSet(s.free) THEN Heap
             ELSE [Heap EXCEPT !.slab[p.page] = [@ EXCEPT !.free = <<i>> \o @, !.used = @ - 1]]
        ELSE IF slots # {}
        THEN [vmalloc_free_pages(Heap, IF b.n > 1 THEN p.page - 1 ELSE p.page, b.n) EXCEPT !.big[Min(slots)] = NoBig]
        ELSE vmalloc_free(Heap, p.page)
Kfree(p) ==
    /\ ~panicked /\ p \in held /\ held' = held \ {p}
    /\ \E h \in {Freed(p)} : Becomes(h)
    /\ UNCHANGED <<others, panicked>>

-----------------------------------------------------------------------------
\* Runs of pages for kernel stacks and the like, from vmalloc_pages itself.
RawAlloc(n) ==
    /\ ~panicked /\ Cardinality(held) < MaxHeld
    /\ \E v \in {vmalloc_pages(Heap, n)} :
        /\ Becomes(v.h)
        /\ held' = IF v.at = 0 THEN held ELSE held \union {[page |-> v.at, off |-> 0, n |-> n * PageBytes]}
    /\ UNCHANGED <<others, panicked>>
RawFree(p) ==
    /\ ~panicked /\ p \in held /\ p.off = 0 /\ ~\E i \in 1..MaxBig : big[i].at = p.page
    /\ \E h \in {vmalloc_free_pages(Heap, p.page, p.n \div PageBytes)} : Becomes(h)
    /\ held' = held \ {p}
    /\ UNCHANGED <<others, panicked>>

\* The rest of the kernel takes a frame, and gives one back.
TakeFrame ==
    \E f \in pool : pool' = pool \ {f} /\ others' = others \union {f}
                    /\ UNCHANGED <<table, next, vmfree, caches, slab, big, held, panicked>>
GiveFrame ==
    \E f \in others : pool' = pool \union {f} /\ others' = others \ {f}
                      /\ UNCHANGED <<table, next, vmfree, caches, slab, big, held, panicked>>

KheapInit ==
    /\ pool = Frames /\ others = {} /\ table = [p \in Pages |-> 0] /\ next = 1 /\ vmfree = <<>>
    /\ caches = [c \in DOMAIN ObjSizes |-> <<>>] /\ slab = [p \in Pages |-> NoSlab]
    /\ big = [i \in 1..MaxBig |-> NoBig] /\ held = {} /\ panicked = FALSE

KheapNext ==
    \/ \E a \in Asks : Kmalloc(a)
    \/ \E p \in held : Kfree(p) \/ RawFree(p)
    \/ \E n \in RawRuns : RawAlloc(n)
    \/ TakeFrame \/ GiveFrame

-----------------------------------------------------------------------------
\* The bytes of a pointer, from its first to before its last, and its pages.
FirstByte(p) == p.page * PageBytes + p.off
EndByte(p) == FirstByte(p) + p.n
PagesOf(p) == (FirstByte(p) \div PageBytes)..((EndByte(p) - 1) \div PageBytes)
Slabs == UNION {ToSet(caches[c]) : c \in DOMAIN caches}
FreePages == UNION {vmfree[i].at..(vmfree[i].at + vmfree[i].n - 1) : i \in DOMAIN vmfree}

\* What kmalloc and vmalloc hand out is mapped, apart from everything else that is in
\* use, and apart from the headers: whatever was freed, coalesced and handed out
\* again before (slab.c:119-268, vmalloc.c:44-99).
HeldApart ==
    /\ \A p \in held : \A page \in PagesOf(p) : table[page] # 0
    /\ \A p \in held : p.off # 0 => p.off >= SlabHeader /\ p.off + p.n <= PageBytes /\ p.page \in Slabs
    /\ \A p, q \in held : p # q => EndByte(p) <= FirstByte(q) \/ EndByte(q) <= FirstByte(p)
    /\ \A s \in Slabs : \A p \in held : p.page = s => p.off # 0

\* A frame is in one place: free, under one page of the heap, or with the rest of the
\* kernel; a page below vmalloc_next that is mapped is not also free.
FramesInOnePlace ==
    /\ \A p, q \in Pages : p # q /\ table[p] # 0 => table[p] # table[q]
    /\ \A p \in Pages : table[p] \notin pool \union others
    /\ pool \intersect others = {}
    /\ \A p \in FreePages : table[p] = 0 /\ p < next
    /\ \A i, k \in DOMAIN vmfree : i # k => ~Touches(vmfree[i], vmfree[k].at, vmfree[k].at + vmfree[k].n)
=============================================================================
