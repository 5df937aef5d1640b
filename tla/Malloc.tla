-------------------------------- MODULE Malloc --------------------------------
(***************************************************************************)
(* The heap of a program: malloc, calloc, realloc and free of the C        *)
(* library, over regions that the kernel maps for it (libc/stdlib).        *)
(*                                                                         *)
(* A program has one thread, so a call is one step.  Addresses and sizes   *)
(* are bytes.  A block is where its header is; the links of a free list    *)
(* are the order of a sequence.                                            *)
(***************************************************************************)
EXTENDS Integers, Sequences, FiniteSets, SequencesExt, FiniteSetsExt

CONSTANTS
    HeapStart,        \* _heap_start
    HEAP_REGION_SIZE, HEAP_PAGE_SIZE, HEAP_MAX_REGIONS, HEAP_MAX_TOTAL,
    MMAPAN_MAX,       \* longest run that the kernel maps at once
    UserEnd,          \* end of the addresses that a program can have
    SizeMax,          \* the largest size_t
    Sizes,            \* sizes that the program asks for
    Arrays,           \* [n, size] that it calls calloc with
    MaxLive,          \* blocks that it holds at a time
    MaxOwn            \* runs that it maps for itself in one behaviour

ASSUME MallocAssumption ==
    /\ {HeapStart, HEAP_REGION_SIZE, HEAP_PAGE_SIZE, HEAP_MAX_REGIONS, UserEnd, SizeMax} \subseteq Nat \ {0}
    /\ HeapStart % HEAP_PAGE_SIZE = 0 /\ HEAP_PAGE_SIZE % 8 = 0
    /\ Sizes \subseteq 0..SizeMax

VARIABLES
    regions,          \* heap_regions: [base, size, brk, flist]
    head,             \* the header at each address: [size, used, prev]
    live,             \* what the program holds: [at, n], n bytes asked for
    own               \* addresses that it mapped for itself

mallocVars == <<regions, head, live, own>>

HEAP_ALIGN == 8
HEAP_MIN_BLOCK == 16
BLOCK_HDR == 8
Arena == [regions |-> regions, head |-> head]

\* As a bug: sizes are rounded down.
heap_align_up_Down(n) == (n \div HEAP_ALIGN) * HEAP_ALIGN

heap_align_up(n) == ((n + HEAP_ALIGN - 1) \div HEAP_ALIGN) * HEAP_ALIGN

Need(size) ==
    IF heap_align_up(size + BLOCK_HDR) < HEAP_MIN_BLOCK THEN HEAP_MIN_BLOCK
    ELSE heap_align_up(size + BLOCK_HDR)

-----------------------------------------------------------------------------
(***************************************************************************)
(* Free lists.                                                             *)
(***************************************************************************)
heap_flist_remove(list, b) == SelectSeq(list, LAMBDA x : x # b)
heap_flist_replace(list, old, nw) == [i \in DOMAIN list |-> IF list[i] = old THEN nw ELSE list[i]]
heap_flist_insert(list, b) ==
    SelectSeq(list, LAMBDA x : x < b) \o <<b>> \o SelectSeq(list, LAMBDA x : x >= b)

RegionsOf(a, p) == {i \in DOMAIN a.regions : p \in a.regions[i].base..(a.regions[i].base + a.regions[i].size - 1)}
heap_region_of(a, p) == Min(RegionsOf(a, p))
Limit(r) == r.base + r.brk

\* The block that follows, if there is one, has a predecessor of this size.
Follows(hs, r, after, size) == IF after < Limit(r) THEN [hs EXCEPT ![after].prev = size] ELSE hs

-----------------------------------------------------------------------------
(***************************************************************************)
(* malloc.                                                                 *)
(***************************************************************************)
Fits(a, need) == {<<i, k>> \in UNION {{i} \X DOMAIN a.regions[i].flist : i \in DOMAIN a.regions} :
                    a.head[a.regions[i].flist[k]].size >= need}
FirstFit(a, need) ==
    CHOOSE f \in Fits(a, need) : \A g \in Fits(a, need) : f[1] < g[1] \/ (f[1] = g[1] /\ f[2] <= g[2])

\* As a bug: the block after the tail still has its old predecessor's size.
Split_KeepsAfter(a, i, b, need) ==
    LET rem == b + need
        left == a.head[b].size - need
    IN  [regions |-> [a.regions EXCEPT ![i].flist = heap_flist_replace(@, b, rem)],
         head |-> [a.head EXCEPT ![rem] = [size |-> left, used |-> FALSE, prev |-> need],
                                 ![b].size = need, ![b].used = TRUE]]

\* The tail of the block takes its place in the list.
Split(a, i, b, need) ==
    LET rem == b + need
        left == a.head[b].size - need
    IN  [regions |-> [a.regions EXCEPT ![i].flist = heap_flist_replace(@, b, rem)],
         head |-> Follows([a.head EXCEPT ![rem] = [size |-> left, used |-> FALSE, prev |-> need],
                                         ![b].size = need, ![b].used = TRUE],
                          a.regions[i], rem + left, left)]

TakenWhole(a, i, b) ==
    [regions |-> [a.regions EXCEPT ![i].flist = heap_flist_remove(@, b)],
     head |-> [a.head EXCEPT ![b].used = TRUE]]

\* The last block of the region, found from its first.
LastBlock(hs, r) ==
    LET last[p \in Nat] == IF p + hs[p].size < Limit(r) THEN last[p + hs[p].size] ELSE p
    IN  last[r.base]

heap_region_bump(a, i, need) ==
    LET r == a.regions[i]
        prev == IF r.brk = 0 THEN 0 ELSE a.head[LastBlock(a.head, r)].size
    IN  [at |-> Limit(r),
         a |-> [regions |-> [a.regions EXCEPT ![i].brk = @ + need],
                head |-> [a.head EXCEPT ![Limit(r)] = [size |-> need, used |-> TRUE, prev |-> prev]]]]

\* What the kernel maps: the run that was asked for, or the first that is free.
FreeRun(a, at, n) ==
    /\ at + n <= UserEnd
    /\ \A x \in at..(at + n - 1) : x \notin own /\ RegionsOf(a, x) = {}
Runs(a, n) == {p \in HeapStart..UserEnd : p % HEAP_PAGE_SIZE = 0 /\ FreeRun(a, p, n)}
mmapan(a, n, hint) ==
    IF hint # 0 THEN (IF FreeRun(a, hint, n) THEN hint ELSE 0)
    ELSE IF Runs(a, n) = {} THEN 0 ELSE Min(Runs(a, n))

heap_grow(a, need) ==
    LET want == ((Max({need, HEAP_REGION_SIZE}) + HEAP_PAGE_SIZE - 1) \div HEAP_PAGE_SIZE) * HEAP_PAGE_SIZE
        total == FoldSeq(LAMBDA r, n : n + r.size, 0, a.regions)
        hint == IF a.regions = <<>> THEN HeapStart ELSE Last(a.regions).base + Last(a.regions).size
        base == IF mmapan(a, want, hint) = 0 /\ a.regions # <<>> THEN mmapan(a, want, 0) ELSE mmapan(a, want, hint)
    IN  IF Len(a.regions) >= HEAP_MAX_REGIONS \/ want > MMAPAN_MAX \/ total + want > HEAP_MAX_TOTAL \/ base = 0
        THEN a
        ELSE [a EXCEPT !.regions = Append(@, [base |-> base, size |-> want, brk |-> 0, flist |-> <<>>])]

\* A block of a free list, or the next bytes of a region, perhaps a new one.
malloc(a, size) ==
    LET need == Need(size)
        f == FirstFit(a, need)
        b == a.regions[f[1]].flist[f[2]]
        roomy == {i \in DOMAIN a.regions : a.regions[i].brk + need <= a.regions[i].size}
        grown == heap_grow(a, need)
    IN  CASE size > SizeMax - BLOCK_HDR - (HEAP_ALIGN - 1) -> [at |-> 0, a |-> a]
          [] Fits(a, need) # {} ->
                [at |-> b, a |-> IF a.head[b].size - need >= HEAP_MIN_BLOCK THEN Split(a, f[1], b, need)
                                 ELSE TakenWhole(a, f[1], b)]
          [] OTHER -> IF roomy # {} THEN heap_region_bump(a, Min(roomy), need)
                      ELSE IF grown = a THEN [at |-> 0, a |-> a]
                      ELSE heap_region_bump(grown, Len(grown.regions), need)

-----------------------------------------------------------------------------
(***************************************************************************)
(* free merges with the blocks on both sides.                              *)
(***************************************************************************)
free(a, b) ==
    LET i == heap_region_of(a, b)
        r == a.regions[i]
        h0 == [a.head EXCEPT ![b].used = FALSE]
        prev == b - h0[b].prev
        back == h0[b].prev # 0 /\ prev >= r.base /\ ~h0[prev].used
        at == IF back THEN prev ELSE b
        size == IF back THEN h0[prev].size + h0[b].size ELSE h0[b].size
        forth == at + size < Limit(r) /\ ~h0[at + size].used
        total == IF forth THEN size + h0[at + size].size ELSE size
        list == heap_flist_remove(heap_flist_remove(r.flist, IF back THEN prev ELSE 0), IF forth THEN at + size ELSE 0)
    IN  IF RegionsOf(a, b) = {} THEN a
        ELSE [regions |-> [a.regions EXCEPT ![i].flist = heap_flist_insert(list, at)],
              head |-> Follows([h0 EXCEPT ![at].size = total], r, at + total, total)]

-----------------------------------------------------------------------------
ArenaIs(a) == regions' = a.regions /\ head' = a.head
Gets(r, n, rest) ==
    /\ ArenaIs(r.a)
    /\ live' = IF r.at = 0 THEN rest ELSE rest \union {[at |-> r.at, n |-> n]}
    /\ UNCHANGED own

Malloc(n) == Cardinality(live) < MaxLive /\ Gets(malloc(Arena, n), n, live)

\* The product is calculated in a size_t, once it is known to fit.
calloc(c) ==
    IF c.n # 0 /\ c.size > SizeMax \div c.n THEN [at |-> 0, a |-> Arena]
    ELSE malloc(Arena, (c.n * c.size) % (SizeMax + 1))
Calloc(c) == Cardinality(live) < MaxLive /\ Gets(calloc(c), c.n * c.size, live)

Free(p) == p \in live /\ ArenaIs(free(Arena, p.at)) /\ live' = live \ {p} /\ UNCHANGED own

\* Another block, the contents, and the old block freed; or the old block stays.  Of
\* no bytes, realloc is free.
Realloc(p, n) ==
    LET r == malloc(Arena, n)
    IN  /\ p \in live /\ n # 0
        /\ IF r.at = 0 THEN UNCHANGED mallocVars
           ELSE Gets([r EXCEPT !.a = free(r.a, p.at)], n, live \ {p})

\* The program maps a run for itself where it likes.
MapsOwn(at) ==
    LET run == at..(at + HEAP_PAGE_SIZE - 1)
    IN  /\ Cardinality(own) < MaxOwn * HEAP_PAGE_SIZE
        /\ at % HEAP_PAGE_SIZE = 0 /\ FreeRun(Arena, at, HEAP_PAGE_SIZE)
        /\ own' = own \union run
        /\ UNCHANGED <<regions, head, live>>

MallocInit ==
    /\ regions = <<>> /\ live = {} /\ own = {}
    /\ head = [p \in {x \in HeapStart..UserEnd : x % HEAP_ALIGN = 0} |-> [size |-> 0, used |-> FALSE, prev |-> 0]]

MallocNext ==
    \/ \E n \in Sizes : Malloc(n) \/ \E p \in live : Realloc(p, n)
    \/ \E c \in Arrays : Calloc(c)
    \/ \E p \in live : Free(p)
    \/ \E at \in HeapStart..UserEnd : MapsOwn(at)

-----------------------------------------------------------------------------
\* The blocks of a region, from its first to the bump pointer.
Blocks(r) ==
    LET from[p \in Nat] == IF p >= Limit(r) \/ head[p].size = 0 THEN <<>> ELSE <<p>> \o from[p + head[p].size]
    IN  from[r.base]
Payload(p) == (p.at + BLOCK_HDR)..(p.at + BLOCK_HDR + p.n - 1)

\* The blocks of every region tile it up to its bump pointer, each knows the size of
\* the one before it, those in use are the program's, the others are the free list in
\* order of address, and no two of them touch: whatever was split, merged and bumped
\* before (malloc.c:28-63, free.c:36-65, malloc_util.c:114-138).
BlocksTile ==
    \A i \in DOMAIN regions :
        LET r == regions[i]
            bs == Blocks(r)
        IN  /\ r.brk <= r.size
            /\ bs # <<>> => Last(bs) + head[Last(bs)].size = Limit(r)
            /\ \A k \in DOMAIN bs : head[bs[k]].prev = IF k = 1 THEN 0 ELSE head[bs[k - 1]].size
            /\ \A k \in DOMAIN bs : head[bs[k]].used <=> \E p \in live : p.at = bs[k]
            /\ r.flist = SelectSeq(bs, LAMBDA b : ~head[b].used)
            /\ \A k \in DOMAIN bs : k > 1 => head[bs[k]].used \/ head[bs[k - 1]].used

\* What a caller may write, all that it asked for, is inside its own block: apart
\* from every header and from the memory that the program mapped for itself.
PayloadsApart ==
    \A p \in live :
        /\ \A x \in own : x \notin Payload(p)
        /\ \A q \in live : p # q => p.at + BLOCK_HDR + p.n <= q.at \/ q.at + BLOCK_HDR + q.n <= p.at
        /\ p.n + BLOCK_HDR <= head[p.at].size

\* A program's heap: its blocks tile its regions, and what it handed out is apart
\* (malloc.c, free.c, realloc.c, calloc.c, malloc_util.c).
HeapSound == BlocksTile /\ PayloadsApart
=============================================================================
