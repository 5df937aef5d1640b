---------------------------- MODULE SpaceProofs ----------------------------
(***************************************************************************)
(* For every memory map, every program and any number of tasks: a frame    *)
(* has one owner, a failing call gives back what it took, and MMAPAN keeps *)
(* the range it chose to itself.                                           *)
(***************************************************************************)
EXTENDS Space, DataLemmas

NPages == NPde * PtePer

-----------------------------------------------------------------------------
(* The inductive invariant.                                                *)

Building == {"clear", "rec", "collect", "map", "load", "write", "start"}
Ranging  == {"pass", "mget", "mput", "undo"}

\* The locals of a call, by where it is: place, space built, runs left, frames
\* collected, pages done, and MMAPAN's range.
LocalsRight(p, s, runs, g, a, b, n, m) ==
    /\ p \in Places /\ s \in Contexts /\ g \in Seq(AllFrames)
    /\ runs \in Seq(PageRun)
    /\ a \in Nat /\ b \in UserPages /\ n \in Nat /\ m \in Nat
    /\ p \in Building <=> s \in Tasks
    /\ runs = <<>> <=> p \notin Building \ {"start"}
    /\ \A i \in DOMAIN runs : runs[i].first + runs[i].count - 1 \in UserPages
    /\ p \notin {"collect", "map", "load", "write", "mget", "mput"} => g = <<>>
    /\ p \notin {"map", "load", "write", "mput"} => a = 0
    /\ p \notin Ranging => m = 0
    /\ p = "collect" => Len(g) < runs[1].count
    /\ p \in {"map", "load", "write"} => Len(g) = runs[1].count
    /\ p \in {"map", "load", "write", "mput"} => a < Len(g)
    /\ p \in Ranging => m < n /\ b + n <= NPages
    /\ p = "mget" => Len(g) < Lesser(MMAPAN_CHUNK, n - m)
    /\ p = "mput" => Len(g) = Lesser(MMAPAN_CHUNK, n - m)

\* A space is built by one task, and is nobody's until it is finished.
BuildsRight ==
    /\ \A t \in Contexts : pc[t] \in Building => pc[sub[t]] = "none"
    /\ \A t, u \in Contexts :
          pc[t] \in Building /\ pc[u] \in Building /\ sub[t] = sub[u] => t = u
CallsRight ==
    /\ \A t \in Contexts :
          LocalsRight(pc[t], sub[t], todo[t], got[t], at[t], base_page[t], npages[t], mapped[t])
    /\ BuildsRight

\* The frames that are in use are apart: Fresh(t, i) if t has collected its
\* i-th frame and not mapped it yet.
Fresh(t, i) ==
    /\ i \in DOMAIN got[t]
    /\ pc[t] \in {"collect", "mget"} \/ (pc[t] \in {"map", "mput"} /\ i > at[t])
PoolsApart ==
    /\ bitmap \cap ktables = {} /\ bitmap \cap heap = {} /\ ktables \cap heap = {}
UsesApart ==
    /\ \A x \in Uses : FrameAt(x) \notin bitmap \union ktables \union heap
    /\ \A x, y \in Uses : FrameAt(x) = FrameAt(y) /\ FrameAt(x) # 0 => x = y
FreshApart ==
    /\ \A t \in Contexts, i \in Nat : Fresh(t, i) =>
          /\ got[t][i] \notin bitmap \union ktables \union heap
          /\ \A x \in Uses : FrameAt(x) # got[t][i]
    /\ \A t, u \in Contexts, i, j \in Nat :
          Fresh(t, i) /\ Fresh(u, j) /\ got[t][i] = got[u][j] => t = u /\ i = j
FramesApart == PoolsApart /\ UsesApart /\ FreshApart

\* The pages MMAPAN has yet to map are unmapped, those of this pass hold its frames.
Gap(t) ==
    /\ pc[t] \in {"pass", "mget", "mput"} =>
          \A q \in UserPages :
              q >= base_page[t] + mapped[t] + at[t] /\ q < base_page[t] + npages[t] => pte[t][q] = 0
    /\ pc[t] = "mput" =>
          \A i \in 1..at[t] : pte[t][base_page[t] + mapped[t] + i - 1] = got[t][i]
GapRight == \A t \in Tasks : Gap(t)

-----------------------------------------------------------------------------
(* Types, in two parts: what memory holds, and the locals of the calls.    *)

MemTypes ==
    /\ mbi \in Maps /\ bitmap_frames \in Nat
    /\ ram \subseteq AllFrames /\ bitmap \subseteq AllFrames
    /\ next_free_page \in Nat
    /\ ktables \subseteq AllFrames /\ heap \subseteq AllFrames
    /\ dir \in [Tasks -> FrameOr0] /\ rec \in [Tasks -> FrameOr0]
    /\ tables \in [Tasks -> [Pdes -> FrameOr0]] /\ pte \in [Tasks -> [UserPages -> FrameOr0]]
    /\ use \in [Tasks -> [UserPages -> Kinds \union {"none", "anon"}]]
    /\ scratch \in FrameOr0 /\ elfscratch \in FrameOr0
    /\ content \in [AllFrames -> {"junk", "zero"} \union Tasks]
LocalTypes ==
    /\ pc \in [Contexts -> Places] /\ sub \in [Contexts -> Contexts]
    /\ todo \in [Contexts -> Seq(PageRun)]
    /\ got \in [Contexts -> Seq(AllFrames)]
    /\ at \in [Contexts -> Nat] /\ base_page \in [Contexts -> UserPages] /\ npages \in [Contexts -> Nat]
    /\ mapped \in [Contexts -> Nat]

LEMMA TypeParts == SpaceTypeOK <=> MemTypes /\ LocalTypes
  BY DEF SpaceTypeOK, MemTypes, LocalTypes

\* The kernel's own context is none of the tasks, and there are pages.
LEMMA SizesRight ==
    /\ Kernel \notin Tasks /\ Kernel \in Contexts /\ Tasks \subseteq Contexts
    /\ NPages \in Nat \ {0} /\ UserPages = 0..(NPages - 1) /\ 0 \in UserPages
    /\ MMAPAN_CHUNK \in Nat \ {0}
<1>1. \A a, b \in Nat \ {0} : a * b \in Nat \ {0}
  OBVIOUS
<1>2. NPages \in Nat \ {0}
  BY <1>1, SpaceAssumption DEF SpaceAssumption, NPages
<1> QED BY <1>2, SpaceAssumption DEF SpaceAssumption, UserPages, NPages, Contexts

\* A variable that an action leaves alone.
LEMMA LocalsStay ==
    ASSUME LocalTypes, NEW t \in Contexts
    PROVE  /\ pc = [pc EXCEPT ![t] = pc[t]] /\ sub = [sub EXCEPT ![t] = sub[t]]
           /\ todo = [todo EXCEPT ![t] = todo[t]] /\ got = [got EXCEPT ![t] = got[t]]
           /\ at = [at EXCEPT ![t] = at[t]] /\ base_page = [base_page EXCEPT ![t] = base_page[t]]
           /\ npages = [npages EXCEPT ![t] = npages[t]] /\ mapped = [mapped EXCEPT ![t] = mapped[t]]
  BY DEF LocalTypes

\* What an action of t makes of its locals.
SetLocals(t, p, s, runs, g, a, b, n, m) ==
    /\ pc' = [pc EXCEPT ![t] = p] /\ sub' = [sub EXCEPT ![t] = s]
    /\ todo' = [todo EXCEPT ![t] = runs] /\ got' = [got EXCEPT ![t] = g]
    /\ at' = [at EXCEPT ![t] = a] /\ base_page' = [base_page EXCEPT ![t] = b]
    /\ npages' = [npages EXCEPT ![t] = n] /\ mapped' = [mapped EXCEPT ![t] = m]

LEMMA LocalsSet ==
    ASSUME LocalTypes, NEW t \in Contexts, NEW p, NEW s, NEW runs, NEW g, NEW a, NEW b, NEW n, NEW m,
           SetLocals(t, p, s, runs, g, a, b, n, m)
    PROVE  /\ pc'[t] = p /\ sub'[t] = s /\ todo'[t] = runs /\ got'[t] = g
           /\ at'[t] = a /\ base_page'[t] = b /\ npages'[t] = n /\ mapped'[t] = m
           /\ \A v \in Contexts \ {t} :
                /\ pc'[v] = pc[v] /\ sub'[v] = sub[v] /\ todo'[v] = todo[v] /\ got'[v] = got[v]
                /\ at'[v] = at[v] /\ base_page'[v] = base_page[v] /\ npages'[v] = npages[v]
                /\ mapped'[v] = mapped[v]
  BY DEF LocalTypes, SetLocals

\* An action that leaves t with right locals, building what it built or a space
\* that was nobody's, keeps the calls right.
LEMMA LocalsStep ==
    ASSUME LocalTypes, CallsRight, bitmap_frames' = bitmap_frames,
           NEW t \in Contexts, NEW p, NEW s, NEW runs, NEW g, NEW a, NEW b, NEW n, NEW m,
           pc[t] # "none", LocalsRight(p, s, runs, g, a, b, n, m),
           SetLocals(t, p, s, runs, g, a, b, n, m),
           \/ s = sub[t] \/ s = Kernel
           \/ s \in Tasks /\ pc[s] = "none" /\ \A v \in Contexts : sub[v] # s
    PROVE  LocalTypes' /\ CallsRight'
<1>0. AllFrames' = AllFrames
  BY DEF AllFrames
<1>1. LocalTypes'
  BY <1>0 DEF LocalTypes, LocalsRight, SetLocals
<1>2. \A v \in Contexts :
         LocalsRight(pc'[v], sub'[v], todo'[v], got'[v], at'[v], base_page'[v], npages'[v], mapped'[v])
  <2> HIDE DEF LocalsRight
  <2> SUFFICES ASSUME NEW v \in Contexts
               PROVE LocalsRight(pc'[v], sub'[v], todo'[v], got'[v], at'[v], base_page'[v],
                                 npages'[v], mapped'[v])
    OBVIOUS
  <2>1. CASE v = t
    BY <2>1, LocalsSet
  <2>2. CASE v # t
    BY <2>2, LocalsSet DEF CallsRight
  <2> QED BY <2>1, <2>2
<1>3. \A v \in Contexts : (LocalsRight(pc[v], sub[v], todo[v], got[v], at[v], base_page[v], npages[v], mapped[v]))'
  BY <1>0, <1>2 DEF LocalsRight
<1>4. BuildsRight'
  <2>1. \A v \in Contexts : pc[v] \in Building <=> sub[v] \in Tasks
    BY DEF CallsRight, LocalsRight
  <2>2. \A v \in Contexts \ {t} : pc'[v] = pc[v] /\ sub'[v] = sub[v]
    BY LocalsSet
  <2>3. pc'[t] = p /\ sub'[t] = s /\ (p \in Building <=> s \in Tasks)
    BY LocalsSet DEF LocalsRight
  <2>4. p \in Building =>
           /\ s \in Tasks /\ pc[s] = "none" /\ s # t
           /\ \A v \in Contexts \ {t} : pc[v] \in Building => sub[v] # s
    BY <2>1, <2>3, SizesRight DEF CallsRight, BuildsRight
  <2>5. \A v \in Contexts \ {t} : pc[v] \in Building => sub[v] # t
    BY DEF CallsRight, BuildsRight
  <2>6. \A v \in Contexts : pc[v] \in Building => sub[v] \in Contexts
    BY <2>1, SizesRight
  <2> QED BY <2>2, <2>3, <2>4, <2>5, <2>6, SizesRight DEF BuildsRight, CallsRight
<1> QED BY <1>1, <1>3, <1>4 DEF CallsRight

-----------------------------------------------------------------------------
(* Every action keeps the calls right.                                     *)

\* pmm_allocp hands out a frame that is free.
LEMMA FitIsFree ==
    ASSUME MemTypes, NEW f \in Fit
    PROVE  f \in bitmap /\ f \in AllFrames /\ f \in Nat \ {0}
  BY DEF Fit, FreeFrom, MemTypes, AllFrames

\* The run that is being built, if there is one.
LEMMA FirstRun ==
    ASSUME LocalTypes, NEW t \in Contexts
    PROVE  todo[t] # <<>> =>
              /\ 1 \in DOMAIN todo[t] /\ todo[t][1] \in PageRun
              /\ todo[t][1].count \in Nat \ {0} /\ todo[t][1].first \in UserPages
              /\ todo[t][1].kind \in Kinds
<1> SUFFICES ASSUME todo[t] # <<>>
             PROVE  1 \in DOMAIN todo[t] /\ todo[t][1] \in PageRun
  BY DEF PageRun
<1>1. todo[t] \in Seq(PageRun)
  BY DEF LocalTypes
<1> QED BY <1>1

LEMMA IdleRight ==
    ASSUME NEW p \in {"user", "none"}
    PROVE  LocalsRight(p, Kernel, <<>>, <<>>, 0, 0, 0, 0)
  BY SizesRight DEF LocalsRight, Building, Ranging, Places, Scratchy, Masked

\* The runs that are left when the first is done.
LEMMA NextRunRight ==
    ASSUME LocalTypes, CallsRight, NEW t \in Contexts, pc[t] \in {"map", "write"}, NextRun(t),
           UNCHANGED <<bitmap_frames, sub, range>>
    PROVE  LocalTypes' /\ CallsRight'
<1> DEFINE p == IF Len(todo[t]) = 1 THEN "start" ELSE "collect"
<1>1. SetLocals(t, p, sub[t], Tail(todo[t]), <<>>, 0, base_page[t], npages[t], mapped[t])
  BY LocalsStay DEF SetLocals, NextRun, Goto, range, LocalTypes
<1>2. LocalsRight(p, sub[t], Tail(todo[t]), <<>>, 0, base_page[t], npages[t], mapped[t])
  <2> DEFINE q == todo[t]
             r == Tail(q)
  <2>1. LocalsRight(pc[t], sub[t], q, got[t], at[t], base_page[t], npages[t], mapped[t])
    BY DEF CallsRight
  <2>2. /\ q \in Seq(PageRun) /\ q # <<>> /\ sub[t] \in Tasks
        /\ \A i \in DOMAIN q : q[i].first + q[i].count - 1 \in UserPages
    BY <2>1 DEF LocalsRight, Building
  <2>3. /\ r \in Seq(PageRun) /\ Len(r) = Len(q) - 1 /\ DOMAIN r = 1..Len(r)
        /\ \A i \in DOMAIN r : r[i] = q[i + 1] /\ i + 1 \in DOMAIN q
    BY <2>2
  <2>4. r = <<>> <=> Len(q) = 1
    <3> HIDE DEF r, q
    <3> QED BY <2>2, <2>3
  <2>5. r # <<>> => r[1].count \in Nat \ {0}
    <3>1. r # <<>> => 1 \in DOMAIN r
      <4> HIDE DEF r, q
      <4> QED BY <2>3
    <3>2. r # <<>> => r[1] \in PageRun
      <4> HIDE DEF r, q
      <4> QED BY <2>3, <3>1
    <3> QED BY <3>2 DEF PageRun
  <2>6. \A i \in DOMAIN r : r[i].first + r[i].count - 1 \in UserPages
    <3> HIDE DEF r, q
    <3> QED BY <2>2, <2>3
  <2>7. LocalsRight(p, sub[t], r, <<>>, 0, base_page[t], npages[t], mapped[t])
    <3>1. p = (IF r = <<>> THEN "start" ELSE "collect") /\ Len(<<>>) = 0 /\ <<>> \in Seq(AllFrames)
      BY <2>4
    <3> HIDE DEF r, q, p
    <3> QED BY <2>1, <2>2, <2>3, <2>5, <2>6, <3>1
            DEF LocalsRight, Building, Ranging, Places, Scratchy, Masked
  <2> QED BY <2>7
<1> HIDE DEF p
<1> QED BY <1>1, <1>2, LocalsStep DEF NextRun

\* The steps of a PROCREATE that build nothing anew.
LEMMA DirSteps ==
    ASSUME LocalTypes, CallsRight, NEW t \in Contexts, ClearDir(t) \/ SetRec(t) \/ ElfMap(t)
    PROVE  LocalTypes' /\ CallsRight'
<1> DEFINE p == IF pc[t] = "clear" THEN "rec" ELSE IF pc[t] = "rec" THEN "collect" ELSE "write"
<1>1. /\ SetLocals(t, p, sub[t], todo[t], got[t], at[t], base_page[t], npages[t], mapped[t])
      /\ bitmap_frames' = bitmap_frames /\ pc[t] \in {"clear", "rec", "load"}
  BY LocalsStay DEF ClearDir, SetRec, ElfMap, At, SetLocals, Goto, range, pmmVars, bootVars
<1>2. LocalsRight(pc[t], sub[t], todo[t], got[t], at[t], base_page[t], npages[t], mapped[t])
  BY DEF CallsRight
<1>3. todo[t] # <<>> => todo[t][1].count \in Nat \ {0}
  BY FirstRun
<1>4. LocalsRight(p, sub[t], todo[t], got[t], at[t], base_page[t], npages[t], mapped[t])
  BY <1>1, <1>2, <1>3 DEF LocalsRight, Building, Ranging, Places, Scratchy, Masked
<1> HIDE DEF p
<1> QED BY <1>1, <1>4, LocalsStep

LEMMA CreateDirCalls ==
    ASSUME LocalTypes, CallsRight, NEW t \in Contexts, NEW u \in Tasks,
           NEW prog \in Programs \union InitPrograms, CreateDir(t, u, prog)
    PROVE  LocalTypes' /\ CallsRight'
<1>1. /\ SetLocals(t, "clear", u, prog, got[t], at[t], base_page[t], npages[t], mapped[t])
      /\ bitmap_frames' = bitmap_frames /\ pc[t] = "user"
      /\ pc[u] = "none" /\ \A v \in Contexts : sub[v] # u
  BY LocalsStay DEF CreateDir, At, SetLocals, Goto, range, bootVars
<1>2. LocalsRight(pc[t], sub[t], todo[t], got[t], at[t], base_page[t], npages[t], mapped[t])
  BY DEF CallsRight
<1>3. LocalsRight("clear", u, prog, got[t], at[t], base_page[t], npages[t], mapped[t])
  BY <1>1, <1>2, SpaceAssumption, SizesRight
     DEF LocalsRight, Building, Ranging, Places, Scratchy, Masked, SpaceAssumption
<1> QED BY <1>1, <1>3, LocalsStep

LEMMA CollectCalls ==
    ASSUME MemTypes, LocalTypes, CallsRight, NEW t \in Contexts, Collect(t)
    PROVE  LocalTypes' /\ CallsRight'
<1>1. PICK f \in Fit : got' = [got EXCEPT ![t] = Append(@, f)]
  BY DEF Collect
<1> DEFINE p == IF Len(got[t]) + 1 = Run(t).count THEN "map" ELSE "collect"
           g == Append(got[t], f)
<1>2. /\ SetLocals(t, p, sub[t], todo[t], g, at[t], base_page[t], npages[t], mapped[t])
      /\ bitmap_frames' = bitmap_frames /\ pc[t] = "collect"
  BY <1>1, LocalsStay DEF Collect, At, SetLocals, Goto, range, bootVars, LocalTypes
<1>3. LocalsRight(pc[t], sub[t], todo[t], got[t], at[t], base_page[t], npages[t], mapped[t])
  BY DEF CallsRight
<1>4. todo[t][1].count \in Nat \ {0}
  BY <1>2, <1>3, FirstRun DEF LocalsRight, Building
<1>5. g \in Seq(AllFrames) /\ Len(g) = Len(got[t]) + 1 /\ Len(got[t]) \in Nat
  BY FitIsFree DEF LocalTypes
<1>6. LocalsRight(p, sub[t], todo[t], g, at[t], base_page[t], npages[t], mapped[t])
  <2> HIDE DEF g
  <2> QED BY <1>2, <1>3, <1>4, <1>5
             DEF LocalsRight, Building, Ranging, Places, Scratchy, Masked, Run
<1> HIDE DEF p, g
<1> QED BY <1>2, <1>6, LocalsStep

\* A call that ends, or a task that does.
LEMMA EndsCalls ==
    ASSUME LocalTypes, CallsRight, bitmap_frames' = bitmap_frames, NEW t \in Contexts,
           pc[t] # "none", NEW p \in {"user", "none"}, Goto(t, p), Idle(t)
    PROVE  LocalTypes' /\ CallsRight'
<1>1. SetLocals(t, p, Kernel, <<>>, <<>>, 0, 0, 0, 0)
  BY DEF SetLocals, Goto, Idle
<1> QED BY <1>1, IdleRight, LocalsStep

LEMMA ReapCalls ==
    ASSUME LocalTypes, CallsRight, NEW t \in Contexts, Reap(t)
    PROVE  LocalTypes' /\ CallsRight'
<1>1. /\ SetLocals(t, "none", sub[t], todo[t], got[t], at[t], base_page[t], npages[t], mapped[t])
      /\ bitmap_frames' = bitmap_frames /\ pc[t] = "user"
  BY LocalsStay DEF Reap, At, SetLocals, Goto, range, bootVars
<1>2. LocalsRight(pc[t], sub[t], todo[t], got[t], at[t], base_page[t], npages[t], mapped[t])
  BY DEF CallsRight
<1>3. LocalsRight("none", sub[t], todo[t], got[t], at[t], base_page[t], npages[t], mapped[t])
  BY <1>1, <1>2 DEF LocalsRight, Building, Ranging, Places, Scratchy, Masked
<1> QED BY <1>1, <1>3, LocalsStep

\* vmm_map_in_run goes on to the next page, to the loader, or to the next run.
LEMMA RunMappedCalls ==
    ASSUME LocalTypes, CallsRight, NEW t \in Contexts, pc[t] = "map", RunMapped(t),
           UNCHANGED <<bitmap_frames, sub, range>>
    PROVE  LocalTypes' /\ CallsRight'
<1>1. LocalsRight(pc[t], sub[t], todo[t], got[t], at[t], base_page[t], npages[t], mapped[t])
  BY DEF CallsRight
<1>2. CASE at[t] + 1 < Run(t).count
  <2>1. SetLocals(t, pc[t], sub[t], todo[t], got[t], at[t] + 1, base_page[t], npages[t], mapped[t])
    BY <1>2, LocalsStay DEF RunMapped, SetLocals, range, LocalTypes
  <2>2. LocalsRight(pc[t], sub[t], todo[t], got[t], at[t] + 1, base_page[t], npages[t], mapped[t])
    BY <1>1, <1>2 DEF LocalsRight, Building, Ranging, Places, Scratchy, Masked, Run
  <2> QED BY <2>1, <2>2, LocalsStep
<1>3. CASE ~(at[t] + 1 < Run(t).count) /\ Run(t).kind = "image"
  <2>1. SetLocals(t, "load", sub[t], todo[t], got[t], 0, base_page[t], npages[t], mapped[t])
    BY <1>3, LocalsStay DEF RunMapped, SetLocals, range, Goto
  <2>2. LocalsRight("load", sub[t], todo[t], got[t], 0, base_page[t], npages[t], mapped[t])
    BY <1>1, <1>3 DEF LocalsRight, Building, Ranging, Places, Scratchy, Masked, Run
  <2> QED BY <2>1, <2>2, LocalsStep
<1>4. CASE ~(at[t] + 1 < Run(t).count) /\ Run(t).kind # "image"
  BY <1>4, NextRunRight DEF RunMapped
<1> QED BY <1>2, <1>3, <1>4

LEMMA ElfWriteCalls ==
    ASSUME LocalTypes, CallsRight, NEW t \in Contexts, ElfWrite(t)
    PROVE  LocalTypes' /\ CallsRight'
<1>1. LocalsRight(pc[t], sub[t], todo[t], got[t], at[t], base_page[t], npages[t], mapped[t])
  BY DEF CallsRight
<1>2. UNCHANGED <<bitmap_frames, sub, range>> /\ pc[t] = "write"
  BY DEF ElfWrite, At, pmmVars, bootVars
<1>3. CASE at[t] + 1 < Run(t).count
  <2>1. SetLocals(t, "load", sub[t], todo[t], got[t], at[t] + 1, base_page[t], npages[t], mapped[t])
    BY <1>2, <1>3, LocalsStay DEF ElfWrite, SetLocals, range, Goto, LocalTypes
  <2>2. LocalsRight("load", sub[t], todo[t], got[t], at[t] + 1, base_page[t], npages[t], mapped[t])
    BY <1>1, <1>2, <1>3 DEF LocalsRight, Building, Ranging, Places, Scratchy, Masked, Run
  <2> QED BY <1>2, <2>1, <2>2, LocalsStep
<1>4. CASE ~(at[t] + 1 < Run(t).count)
  BY <1>2, <1>4, NextRunRight DEF ElfWrite
<1> QED BY <1>3, <1>4

\* The child starts: its builder's call ends.
LEMMA StartCalls ==
    ASSUME LocalTypes, CallsRight, NEW t \in Contexts, Start(t)
    PROVE  LocalTypes' /\ CallsRight'
<1> DEFINE u == sub[t]
           LR(v) == LocalsRight(pc[v], sub[v], todo[v], got[v], at[v], base_page[v], npages[v], mapped[v])
<1>0. /\ AllFrames' = AllFrames /\ pc[t] = "start" /\ Idle(t)
      /\ pc' = [pc EXCEPT ![t] = Back(t), ![u] = "user"]
  BY DEF Start, At, pmmVars, bootVars, AllFrames
<1>1. \A v \in Contexts : LR(v) /\ (pc[v] \in Building <=> sub[v] \in Tasks)
  BY DEF CallsRight, LocalsRight
<1>2. u \in Tasks /\ pc[u] = "none" /\ u # t
  BY <1>0, <1>1 DEF Building, CallsRight, BuildsRight
<1>3. /\ pc'[t] = Back(t) /\ pc'[u] = "user" /\ \A v \in Contexts \ {t, u} : pc'[v] = pc[v]
      /\ sub'[t] = Kernel /\ \A v \in Contexts \ {t} : sub'[v] = sub[v]
  BY <1>0, <1>2, SizesRight DEF LocalTypes, Idle
<1>4. LocalTypes'
  <2>1. pc' \in [Contexts -> Places]
    BY <1>0, <1>2 DEF LocalTypes, Back, Places
  <2>2. /\ sub' \in [Contexts -> Contexts] /\ todo' \in [Contexts -> Seq(PageRun)]
        /\ got' \in [Contexts -> Seq(AllFrames)]
    <3>1. sub' \in [Contexts -> Contexts]
      BY <1>0, SizesRight DEF LocalTypes, Idle
    <3>2. <<>> \in Seq(PageRun) /\ <<>> \in Seq(AllFrames)
      OBVIOUS
    <3>3. todo' = [todo EXCEPT ![t] = <<>>] /\ got' = [got EXCEPT ![t] = <<>>]
      BY <1>0 DEF Idle
    <3>4. todo' \in [Contexts -> Seq(PageRun)]
      BY <3>2, <3>3 DEF LocalTypes
    <3>5. got' \in [Contexts -> Seq(AllFrames)]
      BY <3>2, <3>3 DEF LocalTypes
    <3> QED BY <3>1, <3>4, <3>5
  <2>3. /\ at' \in [Contexts -> Nat] /\ base_page' \in [Contexts -> UserPages]
        /\ npages' \in [Contexts -> Nat] /\ mapped' \in [Contexts -> Nat]
    BY <1>0, SizesRight DEF LocalTypes, Idle
  <2> QED BY <1>0, <2>1, <2>2, <2>3 DEF LocalTypes
<1>5. ASSUME NEW v \in Contexts
      PROVE  LocalsRight(pc'[v], sub'[v], todo'[v], got'[v], at'[v], base_page'[v], npages'[v], mapped'[v])
  <2>1. CASE v = t
    <3>1. /\ sub'[t] = Kernel /\ todo'[t] = <<>> /\ got'[t] = <<>> /\ at'[t] = 0
          /\ base_page'[t] = 0 /\ npages'[t] = 0 /\ mapped'[t] = 0 /\ pc'[t] \in {"user", "none"}
      BY <1>0, <1>3 DEF Idle, LocalTypes, Back
    <3> QED BY <2>1, <3>1, IdleRight
  <2>2. v # t => /\ sub'[v] = sub[v] /\ todo'[v] = todo[v] /\ got'[v] = got[v] /\ at'[v] = at[v]
                 /\ base_page'[v] = base_page[v] /\ npages'[v] = npages[v] /\ mapped'[v] = mapped[v]
    BY <1>0 DEF Idle, LocalTypes
  <2>3. CASE v = u
    <3>1. LocalsRight("user", sub[u], todo[u], got[u], at[u], base_page[u], npages[u], mapped[u])
      BY <1>1, <1>2, <2>3 DEF LocalsRight, Building, Ranging, Places, Scratchy, Masked
    <3> QED BY <1>2, <1>3, <2>2, <2>3, <3>1
  <2>4. CASE v # t /\ v # u
    BY <1>1, <1>3, <2>2, <2>4
  <2> QED BY <2>1, <2>3, <2>4
<1>6. \A v \in Contexts : LR(v)'
  BY <1>0, <1>5 DEF LocalsRight
<1>7. BuildsRight'
  <2>1. \A v \in Contexts : pc'[v] \in Building => v # t /\ v # u /\ pc[v] \in Building
    BY <1>0, <1>3 DEF Building, Back
  <2>2. \A v \in Contexts : pc[v] \in Building /\ v # t =>
           sub[v] # u /\ sub[v] # t /\ sub[v] \in Contexts /\ pc[sub[v]] = "none"
    BY <1>0, <1>1, SizesRight DEF Building, CallsRight, BuildsRight
  <2> QED BY <1>3, <2>1, <2>2 DEF BuildsRight, CallsRight
<1> QED BY <1>4, <1>6, <1>7 DEF CallsRight

\* A gap that vmm_find_free_run finds is long enough, and is one.
LEMMA GapFound ==
    ASSUME NEW u \in Tasks, NEW hint \in UserPages, NEW n \in 1..NPages,
           NEW p \in FindFreeRun(u, hint, n)
    PROVE  /\ p \in UserPages /\ p + n <= NPages
           /\ \A q \in UserPages : q >= p /\ q < p + n => pte[u][q] = 0
<1>1. p \in Gaps(u, hint, NPages, n) \/ p \in Gaps(u, 0, hint, n)
  BY DEF FindFreeRun, NPages
<1>2. /\ p \in hint..(NPages - n) \/ p \in 0..(hint - n)
      /\ \A q \in p..(p + n - 1) : pte[u][q] = 0
  BY <1>1 DEF Gaps
<1> QED BY <1>2, SizesRight

LEMMA MmapanCalls ==
    ASSUME LocalTypes, CallsRight, NEW t \in Tasks, NEW hint \in UserPages, NEW n \in 1..NPages,
           Mmapan(t, hint, n)
    PROVE  LocalTypes' /\ CallsRight'
<1>1. PICK p \in FindFreeRun(t, hint, n) : base_page' = [base_page EXCEPT ![t] = p]
  BY DEF Mmapan
<1>2. /\ SetLocals(t, "pass", sub[t], todo[t], got[t], at[t], p, n, mapped[t])
      /\ bitmap_frames' = bitmap_frames /\ pc[t] = "user" /\ t \in Contexts
  BY <1>1, LocalsStay, SizesRight DEF Mmapan, At, SetLocals, Goto, pmmVars, bootVars
<1>3. LocalsRight(pc[t], sub[t], todo[t], got[t], at[t], base_page[t], npages[t], mapped[t])
  BY <1>2 DEF CallsRight
<1>4. LocalsRight("pass", sub[t], todo[t], got[t], at[t], p, n, mapped[t])
  BY <1>2, <1>3, GapFound, SizesRight
     DEF LocalsRight, Building, Ranging, Places, Scratchy, Masked
<1> QED BY <1>2, <1>4, LocalsStep

\* How long a pass is.
LEMMA ChunkRight ==
    ASSUME LocalTypes, CallsRight, NEW t \in Contexts, pc[t] \in Ranging
    PROVE  Chunk(t) \in Nat \ {0} /\ Chunk(t) <= npages[t] - mapped[t]
<1>1. LocalsRight(pc[t], sub[t], todo[t], got[t], at[t], base_page[t], npages[t], mapped[t])
  BY DEF CallsRight
<1>2. npages[t] \in Nat /\ mapped[t] \in Nat /\ mapped[t] < npages[t]
  BY <1>1 DEF LocalsRight
<1> QED BY <1>2, SizesRight DEF Chunk, Lesser

LEMMA PassGetCalls ==
    ASSUME MemTypes, LocalTypes, CallsRight, NEW t \in Tasks, PassGet(t)
    PROVE  LocalTypes' /\ CallsRight'
<1>1. PICK f \in Fit : got' = [got EXCEPT ![t] = Append(@, f)]
  BY DEF PassGet
<1> DEFINE p == IF Len(got[t]) + 1 = Chunk(t) THEN "mput" ELSE "mget"
           g == Append(got[t], f)
<1>2. /\ SetLocals(t, p, sub[t], todo[t], g, at[t], base_page[t], npages[t], mapped[t])
      /\ bitmap_frames' = bitmap_frames /\ pc[t] \in {"pass", "mget"} /\ t \in Contexts
  BY <1>1, LocalsStay, SizesRight DEF PassGet, At, SetLocals, Goto, range, bootVars, LocalTypes
<1>3. LocalsRight(pc[t], sub[t], todo[t], got[t], at[t], base_page[t], npages[t], mapped[t])
  BY <1>2 DEF CallsRight
<1>4. Chunk(t) \in Nat \ {0} /\ Chunk(t) = Lesser(MMAPAN_CHUNK, npages[t] - mapped[t])
  BY <1>2, ChunkRight DEF Ranging, Chunk
<1>5. g \in Seq(AllFrames) /\ Len(g) = Len(got[t]) + 1 /\ Len(got[t]) \in Nat /\ Len(<<>>) = 0
  BY <1>2, FitIsFree DEF LocalTypes
<1>6. LocalsRight(p, sub[t], todo[t], g, at[t], base_page[t], npages[t], mapped[t])
  <2> HIDE DEF g
  <2> QED BY <1>2, <1>3, <1>4, <1>5 DEF LocalsRight, Building, Ranging, Places, Scratchy, Masked
<1> HIDE DEF p, g
<1> QED BY <1>2, <1>6, LocalsStep

LEMMA PassFailCalls ==
    ASSUME LocalTypes, CallsRight, NEW t \in Tasks, PassFails(t) \/ PassPutFails(t)
    PROVE  LocalTypes' /\ CallsRight'
<1>1. pc[t] \in {"pass", "mget", "mput"} /\ t \in Contexts /\ bitmap_frames' = bitmap_frames
  BY SizesRight DEF PassFails, PassPutFails, At, bootVars
<1>2. LocalsRight(pc[t], sub[t], todo[t], got[t], at[t], base_page[t], npages[t], mapped[t])
  BY <1>1 DEF CallsRight
<1>3. PassFails(t) => at[t] = 0
  BY <1>1, <1>2 DEF PassFails, At, LocalsRight
<1>4. SetLocals(t, "undo", sub[t], todo[t], <<>>, 0, base_page[t], npages[t], mapped[t])
  BY <1>1, <1>3, LocalsStay DEF PassFails, PassPutFails, SetLocals, Goto, range
<1>5. LocalsRight("undo", sub[t], todo[t], <<>>, 0, base_page[t], npages[t], mapped[t])
  BY <1>1, <1>2 DEF LocalsRight, Building, Ranging, Places, Scratchy, Masked
<1> QED BY <1>1, <1>4, <1>5, LocalsStep

LEMMA PassPutCalls ==
    ASSUME LocalTypes, CallsRight, NEW t \in Tasks, PassPut(t)
    PROVE  LocalTypes' /\ CallsRight'
<1>1. pc[t] = "mput" /\ t \in Contexts /\ bitmap_frames' = bitmap_frames
  BY SizesRight DEF PassPut, At, bootVars
<1>2. LocalsRight(pc[t], sub[t], todo[t], got[t], at[t], base_page[t], npages[t], mapped[t])
  BY <1>1 DEF CallsRight
<1>3. /\ Chunk(t) \in Nat \ {0} /\ Chunk(t) <= npages[t] - mapped[t] /\ Len(got[t]) = Chunk(t)
      /\ at[t] < Len(got[t])
  BY <1>1, <1>2, ChunkRight DEF LocalsRight, Chunk, Ranging
<1>4. CASE at[t] + 1 # Len(got[t])
  <2>1. SetLocals(t, pc[t], sub[t], todo[t], got[t], at[t] + 1, base_page[t], npages[t], mapped[t])
    BY <1>1, <1>4, LocalsStay DEF PassPut, SetLocals, range, LocalTypes
  <2>2. LocalsRight(pc[t], sub[t], todo[t], got[t], at[t] + 1, base_page[t], npages[t], mapped[t])
    BY <1>1, <1>2, <1>3, <1>4 DEF LocalsRight, Building, Ranging, Places, Scratchy, Masked
  <2> QED BY <1>1, <2>1, <2>2, LocalsStep
<1>5. CASE at[t] + 1 = Len(got[t]) /\ mapped[t] + Len(got[t]) = npages[t]
  BY <1>1, <1>5, EndsCalls DEF PassPut, PassDone
<1>6. CASE at[t] + 1 = Len(got[t]) /\ mapped[t] + Len(got[t]) # npages[t]
  <2>1. SetLocals(t, "pass", sub[t], todo[t], <<>>, 0, base_page[t], npages[t], mapped[t] + Len(got[t]))
    BY <1>1, <1>6, LocalsStay DEF PassPut, PassDone, SetLocals, Goto, LocalTypes
  <2>2. LocalsRight("pass", sub[t], todo[t], <<>>, 0, base_page[t], npages[t], mapped[t] + Len(got[t]))
    <3>1. /\ mapped[t] \in Nat /\ npages[t] \in Nat /\ Len(got[t]) \in Nat
          /\ mapped[t] + Len(got[t]) < npages[t] /\ base_page[t] + npages[t] <= NPages
      <4>1. mapped[t] \in Nat /\ npages[t] \in Nat /\ Len(got[t]) \in Nat
        BY <1>1, <1>3 DEF LocalTypes
      <4>2. base_page[t] + npages[t] <= NPages
        BY <1>1, <1>2 DEF LocalsRight, Ranging
      <4> QED BY <1>3, <1>6, <4>1, <4>2
    <3> QED BY <1>1, <1>2, <3>1 DEF LocalsRight, Building, Ranging, Places, Scratchy, Masked
  <2> QED BY <1>1, <2>1, <2>2, LocalsStep
<1> QED BY <1>4, <1>5, <1>6

\* What touches no locals leaves the calls right.
LEMMA CallsFrame ==
    ASSUME LocalTypes, CallsRight, UNCHANGED <<bitmap_frames, locals>>
    PROVE  LocalTypes' /\ CallsRight'
  BY DEF LocalTypes, CallsRight, BuildsRight, LocalsRight, locals, range, AllFrames

LEMMA CallsStep ==
    ASSUME MemTypes, LocalTypes, CallsRight, [SpaceNext]_spaceVars
    PROVE  LocalTypes' /\ CallsRight'
<1>1. CASE UNCHANGED spaceVars
  BY <1>1, CallsFrame DEF spaceVars, pmmVars, bootVars
<1>2. ASSUME NEW t \in Contexts, CollectFails(t) \/ Abandon(t) PROVE LocalTypes' /\ CallsRight'
  <2>1. /\ pc[t] # "none" /\ bitmap_frames' = bitmap_frames /\ Idle(t)
        /\ Goto(t, "user") \/ Goto(t, "none")
    BY <1>2 DEF CollectFails, Abandon, At, bootVars, Back
  <2> QED BY <2>1, EndsCalls
<1>3. ASSUME NEW t \in Tasks, Undo(t) PROVE LocalTypes' /\ CallsRight'
  <2>1. t \in Contexts /\ pc[t] # "none" /\ bitmap_frames' = bitmap_frames /\ Idle(t) /\ Goto(t, "user")
    BY <1>3, SizesRight DEF Undo, At, bootVars
  <2> QED BY <2>1, EndsCalls
<1>4. ASSUME NEW t \in Contexts, MapInRun(t) \/ MapInRunMisses(t) PROVE LocalTypes' /\ CallsRight'
  <2>1. pc[t] = "map" /\ RunMapped(t) /\ UNCHANGED <<bitmap_frames, sub, range>>
    BY <1>4 DEF MapInRun, MapInRunMisses, At, bootVars
  <2> QED BY <2>1, RunMappedCalls
<1>5. ASSUME NEW t \in Tasks, NEW p, NEW n, Munmap(t, p, n) PROVE LocalTypes' /\ CallsRight'
  BY <1>5, CallsFrame DEF Munmap, bootVars
<1>6. CASE HeapTake \/ (\E f \in heap : HeapGive(f)) \/ NoFrame
  BY <1>6, CallsFrame DEF HeapTake, HeapGive, NoFrame, bootVars
<1>7. \A t \in Tasks : t \in Contexts /\ NPages = NPde * PtePer
  BY SizesRight DEF NPages
<1> QED
  BY <1>1, <1>2, <1>3, <1>4, <1>5, <1>6, <1>7, CreateDirCalls, DirSteps, CollectCalls, ElfWriteCalls,
           StartCalls, MmapanCalls, PassGetCalls, PassFailCalls, PassPutCalls, ReapCalls DEF SpaceNext

-----------------------------------------------------------------------------
(* Every action keeps the types of what memory holds.                      *)

\* The frames, and the frames with 0 for none.
LEMMA FrameSets ==
    ASSUME MemTypes
    PROVE  /\ 0 \in FrameOr0 /\ AllFrames = FrameOr0 \ {0} /\ FrameOr0 \subseteq Nat
           /\ bitmap_frames' = bitmap_frames => AllFrames' = AllFrames /\ FrameOr0' = FrameOr0
  BY DEF MemTypes, FrameOr0, AllFrames

LEMMA TakeTypes ==
    ASSUME MemTypes, NEW f \in Fit, Take(f)
    PROVE  bitmap' \subseteq AllFrames /\ next_free_page' \in Nat
  BY FitIsFree DEF Take, MemTypes

\* pmm_freep makes the frames free that there are, and the cursor a frame number.
LEMMA GiveTypes ==
    ASSUME MemTypes, NEW c \in Nat, NEW F \in SUBSET FrameOr0, GiveBack(c, F)
    PROVE  /\ bitmap' = bitmap \union (F \ {0}) /\ bitmap' \subseteq AllFrames
           /\ next_free_page' \in Nat
           /\ content' \in [AllFrames -> {"junk", "zero"} \union Tasks]
<1> DEFINE G == Freeable(F)
<1>1. G = F \ {0} /\ G \subseteq AllFrames /\ G \subseteq Nat
  <2>1. \A f \in F : f \in Nat /\ f < bitmap_frames /\ (f # 0 => f \in AllFrames)
    BY DEF FrameOr0, AllFrames, MemTypes
  <2> QED BY <2>1 DEF Freeable
<1>2. CursorFreed(c, G) \in Nat
  <2> HIDE DEF G
  <2>1. CASE G # {}
    <3>1. \E m \in G : \A n \in G : m <= n
      BY <1>1, <2>1, LeastNumber
    <3>2. Least(G) \in G
      BY <3>1 DEF Least
    <3> QED BY <1>1, <3>2 DEF CursorFreed
  <2>2. CASE G = {}
    BY <2>2 DEF CursorFreed
  <2> QED BY <2>1, <2>2
<1>3. content' \in [AllFrames -> {"junk", "zero"} \union Tasks]
  BY DEF GiveBack, MemTypes
<1> QED BY <1>1, <1>2, <1>3 DEF GiveBack, MemTypes

\* The frames of a space.
SpaceFrames(u) == Backed(u) \union TablesOf(u) \union {dir[u]}
LEMMA SpaceFramesType ==
    ASSUME MemTypes, NEW u \in Tasks
    PROVE  SpaceFrames(u) \subseteq FrameOr0
  BY DEF MemTypes, SpaceFrames, Backed, TablesOf

LEMMA DestroyedTypes ==
    ASSUME MemTypes, NEW u \in Tasks, NEW c \in Nat, NEW F \in SUBSET FrameOr0,
           Destroyed(u, c, F), UNCHANGED <<bootVars, kernelVars, windows>>
    PROVE  MemTypes'
<1>1. GiveBack(c, F \union SpaceFrames(u)) /\ Cleared(u)
  BY DEF Destroyed, SpaceFrames
<1>2. F \union SpaceFrames(u) \in SUBSET FrameOr0
  BY SpaceFramesType
<1>3. /\ bitmap' \subseteq AllFrames /\ next_free_page' \in Nat
      /\ content' \in [AllFrames -> {"junk", "zero"} \union Tasks]
  BY <1>1, <1>2, GiveTypes
<1>4. /\ dir' \in [Tasks -> FrameOr0] /\ rec' \in [Tasks -> FrameOr0]
      /\ tables' \in [Tasks -> [Pdes -> FrameOr0]] /\ pte' \in [Tasks -> [UserPages -> FrameOr0]]
  BY <1>1, FrameSets DEF Cleared, MemTypes
<1>5. use' \in [Tasks -> [UserPages -> Kinds \union {"none", "anon"}]]
  BY <1>1 DEF Cleared, MemTypes
<1>6. AllFrames' = AllFrames /\ FrameOr0' = FrameOr0
  BY FrameSets DEF bootVars
<1> QED BY <1>3, <1>4, <1>5, <1>6 DEF MemTypes, bootVars, kernelVars, windows

LEMMA MapPageTypes ==
    ASSUME MemTypes, NEW u \in Tasks, NEW p, NEW f \in FrameOr0, MapPage(u, p, f)
    PROVE  /\ bitmap' \subseteq AllFrames /\ next_free_page' \in Nat
           /\ tables' \in [Tasks -> [Pdes -> FrameOr0]]
           /\ pte' \in [Tasks -> [UserPages -> FrameOr0]]
<1>1. CASE NeedsTable(u, p)
  <2>1. PICK g \in Fit : Take(g) /\ tables' = [tables EXCEPT ![u][PdeOf(p)] = g]
    BY <1>1 DEF MapPage
  <2>2. g \in FrameOr0
    BY FitIsFree, FrameSets
  <2>3. tables' \in [Tasks -> [Pdes -> FrameOr0]]
    BY <2>1, <2>2 DEF MemTypes
  <2>4. pte' \in [Tasks -> [UserPages -> FrameOr0]]
    BY DEF MapPage, MemTypes
  <2> QED BY <2>1, <2>3, <2>4, TakeTypes
<1>2. CASE ~NeedsTable(u, p)
  <2>1. pte' \in [Tasks -> [UserPages -> FrameOr0]]
    BY DEF MapPage, MemTypes
  <2> QED BY <1>2, <2>1 DEF MapPage, MemTypes
<1> QED BY <1>1, <1>2

LEMMA UnmapRunTypes ==
    ASSUME MemTypes, NEW u \in Tasks, NEW c \in Nat, NEW F \in SUBSET FrameOr0,
           NEW p, NEW n, GiveBack(c, F), Unmapped(u, p, n),
           UNCHANGED <<bootVars, kernelVars, dir, tables, rec, elfscratch>>, scratch' \in {scratch, 0}
    PROVE  MemTypes'
<1>1. /\ bitmap' \subseteq AllFrames /\ next_free_page' \in Nat
      /\ content' \in [AllFrames -> {"junk", "zero"} \union Tasks]
  BY GiveTypes
<1>2. pte' \in [Tasks -> [UserPages -> FrameOr0]]
  BY FrameSets DEF Unmapped, MemTypes
<1>3. use' \in [Tasks -> [UserPages -> Kinds \union {"none", "anon"}]]
  BY DEF Unmapped, MemTypes
<1>4. AllFrames' = AllFrames /\ FrameOr0' = FrameOr0 /\ 0 \in FrameOr0
  BY FrameSets DEF bootVars
<1> QED BY <1>1, <1>2, <1>3, <1>4 DEF MemTypes, bootVars, kernelVars

\* The frame that a call maps next is one of those it collected.
LEMMA NextFrame ==
    ASSUME LocalTypes, CallsRight, NEW t \in Contexts, pc[t] \in {"map", "load", "write", "mput"}
    PROVE  at[t] + 1 \in DOMAIN got[t] /\ got[t][at[t] + 1] \in AllFrames /\ at[t] \in Nat
<1>1. at[t] < Len(got[t]) /\ at[t] \in Nat
  BY DEF CallsRight, LocalsRight
<1>2. got[t] \in Seq(AllFrames)
  BY DEF LocalTypes
<1> QED BY <1>1, <1>2

LEMMA MemTypesStep ==
    ASSUME MemTypes, LocalTypes, CallsRight, [SpaceNext]_spaceVars
    PROVE  MemTypes'
<1>0. /\ \A t \in Tasks : t \in Contexts
      /\ \A t \in Contexts : pc[t] \in Building => sub[t] \in Tasks
      /\ \A t \in Contexts : Elems(got[t]) \in SUBSET FrameOr0
      /\ next_free_page \in Nat
  <2>1. \A t \in Contexts : pc[t] \in Building => sub[t] \in Tasks
    BY DEF CallsRight, LocalsRight
  <2>2. \A t \in Contexts : Elems(got[t]) \in SUBSET FrameOr0
    <3>1. \A t \in Contexts : got[t] \in Seq(AllFrames)
      BY DEF LocalTypes
    <3> QED BY <3>1, FrameSets DEF Elems
  <2> QED BY <2>1, <2>2, SizesRight DEF MemTypes
<1>1. CASE UNCHANGED spaceVars
  BY <1>1
     DEF spaceVars, pmmVars, bootVars, kernelVars, spaces, windows, MemTypes, AllFrames, FrameOr0
<1>2. ASSUME NEW t \in Contexts, NEW u \in Tasks, NEW prog, CreateDir(t, u, prog) PROVE MemTypes'
  <2>1. PICK f \in Fit : Take(f) /\ dir' = [dir EXCEPT ![u] = f] /\ scratch' = f
    BY <1>2 DEF CreateDir
  <2>2. f \in FrameOr0
    BY FitIsFree, FrameSets
  <2>3. dir' \in [Tasks -> FrameOr0]
    BY <2>1, <2>2 DEF MemTypes
  <2>4. AllFrames' = AllFrames /\ FrameOr0' = FrameOr0
    BY <1>2, FrameSets DEF CreateDir, bootVars
  <2> QED BY <1>2, <2>1, <2>2, <2>3, <2>4, TakeTypes DEF CreateDir, MemTypes, bootVars, kernelVars
<1>3. ASSUME NEW t \in Contexts, ClearDir(t) PROVE MemTypes'
  <2>1. content' \in [AllFrames -> {"junk", "zero"} \union Tasks]
    BY <1>3 DEF ClearDir, MemTypes
  <2>2. rec' \in [Tasks -> FrameOr0]
    BY <1>3, FrameSets DEF ClearDir, MemTypes
  <2>3. AllFrames' = AllFrames /\ FrameOr0' = FrameOr0
    BY <1>3, FrameSets DEF ClearDir, pmmVars, bootVars
  <2> QED BY <1>3, <2>1, <2>2, <2>3
          DEF ClearDir, MemTypes, pmmVars, bootVars, kernelVars, windows
<1>4. ASSUME NEW t \in Contexts, SetRec(t) PROVE MemTypes'
  <2>1. sub[t] \in Tasks
    BY <1>0, <1>4 DEF SetRec, At, Building
  <2>2. rec' \in [Tasks -> FrameOr0]
    BY <1>4, <2>1 DEF SetRec, MemTypes
  <2>3. AllFrames' = AllFrames /\ FrameOr0' = FrameOr0 /\ 0 \in FrameOr0
    BY <1>4, FrameSets DEF SetRec, pmmVars, bootVars
  <2> QED BY <1>4, <2>2, <2>3 DEF SetRec, MemTypes, pmmVars, bootVars, kernelVars
<1>5. ASSUME NEW t \in Contexts, Collect(t) \/ PassGet(t) PROVE MemTypes'
  <2>1. \E f \in Fit : Take(f)
    BY <1>5 DEF Collect, PassGet
  <2>2. UNCHANGED <<bootVars, kernelVars, spaces, windows, content>>
    BY <1>5 DEF Collect, PassGet
  <2>3. AllFrames' = AllFrames /\ FrameOr0' = FrameOr0
    BY <2>2, FrameSets DEF bootVars
  <2> QED BY <2>1, <2>2, <2>3, TakeTypes DEF MemTypes, bootVars, kernelVars, spaces, windows
<1>6. ASSUME NEW t \in Contexts, CollectFails(t) \/ Abandon(t) PROVE MemTypes'
  <2>1. sub[t] \in Tasks
    BY <1>0, <1>6 DEF CollectFails, Abandon, At, Building
  <2>2. {} \in SUBSET FrameOr0 /\ 0 \in Nat
    OBVIOUS
  <2> QED BY <1>0, <1>6, <2>1, <2>2, DestroyedTypes DEF CollectFails, Abandon
<1>7. ASSUME NEW t \in Tasks, Reap(t) PROVE MemTypes'
  <2>1. {} \in SUBSET FrameOr0
    OBVIOUS
  <2> QED BY <1>0, <1>7, <2>1, DestroyedTypes DEF Reap
<1>8. ASSUME NEW t \in Contexts, MapInRun(t) PROVE MemTypes'
  <2>1. sub[t] \in Tasks /\ got[t][at[t] + 1] \in FrameOr0 /\ Run(t).kind \in Kinds
    <3>1. pc[t] = "map" /\ todo[t] # <<>>
      BY <1>8 DEF MapInRun, At, CallsRight, LocalsRight, Building
    <3> QED BY <1>0, <3>1, NextFrame, FrameSets, FirstRun DEF Building, Run
  <2>2. /\ bitmap' \subseteq AllFrames /\ next_free_page' \in Nat
        /\ tables' \in [Tasks -> [Pdes -> FrameOr0]] /\ pte' \in [Tasks -> [UserPages -> FrameOr0]]
    BY <1>8, <2>1, MapPageTypes DEF MapInRun
  <2>3. use' \in [Tasks -> [UserPages -> Kinds \union {"none", "anon"}]]
    BY <1>8, <2>1 DEF MapInRun, MemTypes
  <2>4. UNCHANGED <<bootVars, kernelVars, dir, rec, windows, content>>
    BY <1>8 DEF MapInRun
  <2>5. AllFrames' = AllFrames /\ FrameOr0' = FrameOr0
    BY <2>4, FrameSets DEF bootVars
  <2> QED BY <2>2, <2>3, <2>4, <2>5 DEF MemTypes, bootVars, kernelVars, windows
<1>9. ASSUME NEW t \in Contexts, MapInRunMisses(t) PROVE MemTypes'
  BY <1>9
     DEF MapInRunMisses, MapNothing, MemTypes, bootVars, kernelVars, windows, AllFrames, FrameOr0
<1>10. ASSUME NEW t \in Contexts, ElfMap(t) PROVE MemTypes'
  <2>1. elfscratch' \in FrameOr0
    BY <1>10, NextFrame, FrameSets DEF ElfMap, At
  <2>2. UNCHANGED <<pmmVars, kernelVars, spaces, scratch, content>>
    BY <1>10 DEF ElfMap
  <2>3. AllFrames' = AllFrames /\ FrameOr0' = FrameOr0
    BY <2>2, FrameSets DEF pmmVars, bootVars
  <2> QED BY <2>1, <2>2, <2>3 DEF MemTypes, pmmVars, bootVars, kernelVars, spaces
<1>11. ASSUME NEW t \in Contexts, ElfWrite(t) PROVE MemTypes'
  <2>1. sub[t] \in Tasks
    BY <1>0, <1>11 DEF ElfWrite, At, Building
  <2>2. content' \in [AllFrames -> {"junk", "zero"} \union Tasks]
    BY <1>11, <2>1 DEF ElfWrite, MemTypes
  <2>3. UNCHANGED <<pmmVars, kernelVars, spaces, scratch>> /\ elfscratch' = 0
    BY <1>11 DEF ElfWrite
  <2>4. AllFrames' = AllFrames /\ FrameOr0' = FrameOr0 /\ 0 \in FrameOr0
    BY <2>3, FrameSets DEF pmmVars, bootVars
  <2> QED BY <2>2, <2>3, <2>4 DEF MemTypes, pmmVars, bootVars, kernelVars, spaces
<1>12. ASSUME UNCHANGED <<pmmVars, kernelVars, spaces, windows, content>> PROVE MemTypes'
  BY <1>12 DEF MemTypes, pmmVars, bootVars, kernelVars, spaces, windows, AllFrames, FrameOr0
<1>13. ASSUME NEW t \in Tasks, PassFails(t) PROVE MemTypes'
  <2>1. /\ bitmap' \subseteq AllFrames /\ next_free_page' \in Nat
        /\ content' \in [AllFrames -> {"junk", "zero"} \union Tasks]
    BY <1>0, <1>13, GiveTypes DEF PassFails
  <2>2. UNCHANGED <<bootVars, kernelVars, spaces, windows>>
    BY <1>13 DEF PassFails
  <2>3. AllFrames' = AllFrames /\ FrameOr0' = FrameOr0
    BY <2>2, FrameSets DEF bootVars
  <2> QED BY <2>1, <2>2, <2>3 DEF MemTypes, bootVars, kernelVars, spaces, windows
<1>14. ASSUME NEW t \in Tasks, PassPut(t) PROVE MemTypes'
  <2> DEFINE p == base_page[t] + mapped[t] + at[t]
             f == got[t][at[t] + 1]
  <2>1. f \in AllFrames /\ f \in FrameOr0
    BY <1>0, <1>14, NextFrame, FrameSets DEF PassPut, At
  <2>2. /\ MapPage(t, p, f) /\ use' = [use EXCEPT ![t][p] = "anon"]
        /\ content' = [content EXCEPT ![f] = "zero"] /\ scratch' = 0
        /\ UNCHANGED <<bootVars, kernelVars, dir, rec, elfscratch>>
    BY <1>14 DEF PassPut
  <2> HIDE DEF p, f
  <2>3. /\ bitmap' \subseteq AllFrames /\ next_free_page' \in Nat
        /\ tables' \in [Tasks -> [Pdes -> FrameOr0]] /\ pte' \in [Tasks -> [UserPages -> FrameOr0]]
    BY <2>1, <2>2, MapPageTypes
  <2>4. use' \in [Tasks -> [UserPages -> Kinds \union {"none", "anon"}]]
    BY <2>2 DEF MemTypes
  <2>5. content' \in [AllFrames -> {"junk", "zero"} \union Tasks]
    BY <2>2 DEF MemTypes
  <2>6. AllFrames' = AllFrames /\ FrameOr0' = FrameOr0 /\ 0 \in FrameOr0
    BY <2>2, FrameSets DEF bootVars
  <2> QED BY <2>2, <2>3, <2>4, <2>5, <2>6 DEF MemTypes, bootVars, kernelVars
<1>15. ASSUME NEW t \in Tasks, PassPutFails(t) PROVE MemTypes'
  <2>1. 0 \in Nat
    OBVIOUS
  <2> QED BY <1>0, <1>15, <2>1, UnmapRunTypes DEF PassPutFails
<1>16. ASSUME NEW t \in Tasks, NEW p, NEW n, UnmapRunFree(t, p, n),
              UNCHANGED <<bootVars, kernelVars, dir, tables, rec, windows>>
       PROVE  MemTypes'
  <2>1. {pte[t][q] : q \in {r \in UserPages : r >= p /\ r < p + n}} \ {0} \in SUBSET FrameOr0
    BY DEF MemTypes
  <2> QED BY <1>0, <1>16, <2>1, UnmapRunTypes DEF UnmapRunFree, windows
<1>17. CASE HeapTake
  <2>1. PICK f \in Fit : Take(f) /\ heap' = heap \union {f}
    BY <1>17 DEF HeapTake
  <2>2. UNCHANGED <<bootVars, ktables, spaces, windows, content>>
    BY <1>17 DEF HeapTake
  <2>3. AllFrames' = AllFrames /\ FrameOr0' = FrameOr0
    BY <2>2, FrameSets DEF bootVars
  <2> QED BY <2>1, <2>2, <2>3, TakeTypes, FitIsFree DEF MemTypes, bootVars, spaces, windows
<1>18. ASSUME NEW f \in heap, HeapGive(f) PROVE MemTypes'
  <2>1. {f} \in SUBSET FrameOr0
    BY FrameSets DEF MemTypes
  <2>2. /\ bitmap' \subseteq AllFrames /\ next_free_page' \in Nat
        /\ content' \in [AllFrames -> {"junk", "zero"} \union Tasks]
    BY <1>0, <1>18, <2>1, GiveTypes DEF HeapGive
  <2>3. UNCHANGED <<bootVars, ktables, spaces, windows>> /\ heap' = heap \ {f}
    BY <1>18 DEF HeapGive
  <2>4. AllFrames' = AllFrames /\ FrameOr0' = FrameOr0
    BY <2>3, FrameSets DEF bootVars
  <2> QED BY <2>2, <2>3, <2>4 DEF MemTypes, bootVars, spaces, windows
<1>19. CASE NoFrame
  BY <1>19 DEF NoFrame, MemTypes, bootVars, kernelVars, spaces, windows, AllFrames, FrameOr0
<1>20. ASSUME NEW t \in Contexts, Start(t) PROVE MemTypes'
  BY <1>12, <1>20 DEF Start
<1>21. ASSUME NEW t \in Tasks, NEW hint, NEW n, Mmapan(t, hint, n) PROVE MemTypes'
  BY <1>12, <1>21 DEF Mmapan
<1>22. ASSUME NEW t \in Tasks, Undo(t) PROVE MemTypes'
  BY <1>16, <1>22 DEF Undo
<1>23. ASSUME NEW t \in Tasks, NEW p, NEW n, Munmap(t, p, n) PROVE MemTypes'
  BY <1>16, <1>23 DEF Munmap
<1> QED BY <1>0, <1>1, <1>2, <1>3, <1>4, <1>5, <1>6, <1>7, <1>8, <1>9, <1>10, <1>11, <1>13, <1>14,
           <1>15, <1>17, <1>18, <1>19, <1>20, <1>21, <1>22, <1>23 DEF SpaceNext

-----------------------------------------------------------------------------
(* The boot.                                                               *)

LEMMA FramesBelow ==
    /\ \A a \in Nat : Up(a) \in Nat /\ Down(a) \in Nat
    /\ \A a, b \in Nat : a <= b => Up(a) <= Up(b)
    /\ Down(0) = 0 /\ Up(LOWMEM_END) >= 1
<1>1. PageSize \in Nat \ {0} /\ LOWMEM_END \in Nat \ {0}
  BY PmmAssumption DEF PmmAssumption
<1>2. /\ \A a \in Nat : a + PageSize - 1 \in Nat
      /\ \A a, b \in Nat : a <= b => a + PageSize - 1 <= b + PageSize - 1
      /\ PageSize <= LOWMEM_END + PageSize - 1 /\ LOWMEM_END \in Nat /\ PageSize \in Nat
  BY <1>1
<1> DEFINE D(a) == a \div PageSize
<1>3. /\ D(0) = 0 /\ D(PageSize) = 1 /\ \A a \in Nat : D(a) \in Nat
      /\ \A a, b \in Nat : a <= b => D(a) <= D(b)
  BY <1>1, Division
<1>4. \A a : Up(a) = D(a + PageSize - 1) /\ Down(a) = D(a)
  BY DEF Up, Down
<1> HIDE DEF D
<1> QED BY <1>2, <1>3, <1>4

LEMMA UsableRight ==
    ASSUME NEW m \in Maps
    PROVE  \A r \in Usable(m) : r[1] \in Nat /\ r[2] \in Nat /\ r[2] <= PMM_PHYS_LIMIT
<1>1. m.regions \in Seq(Nat \X Nat) /\ PMM_PHYS_LIMIT \in Nat
  BY PmmAssumption DEF PmmAssumption
<1>2. \A i \in DOMAIN m.regions : m.regions[i] \in Nat \X Nat
  BY <1>1
<1>3. \A i \in DOMAIN m.regions : m.regions[i][1] \in Nat /\ m.regions[i][2] \in Nat
  BY <1>2
<1>4. \A r \in Usable(m) : \E i \in DOMAIN m.regions :
         r = <<m.regions[i][1], Lesser(m.regions[i][2], PMM_PHYS_LIMIT)>>
  BY DEF Usable
<1> QED BY <1>1, <1>3, <1>4 DEF Lesser

\* The frames that are free at boot are frames of the bitmap, without frame 0.
LEMMA BootFrames ==
    ASSUME NEW m \in Maps
    PROVE  FramesOf(m) \in Nat /\ BootFree(m) \subseteq 1..(FramesOf(m) - 1)
<1> DEFINE ends == {r[2] : r \in Usable(m)}
<1>1. \A e \in ends : e \in Nat /\ e <= PMM_PHYS_LIMIT
  BY UsableRight
<1>2. ends # {} => \E e \in ends : \A f \in ends : f <= e
  <2> DEFINE T == {PMM_PHYS_LIMIT - e : e \in ends}
  <2>1. T \in SUBSET Nat /\ (ends # {} => T # {})
    <3>1. PMM_PHYS_LIMIT \in Nat
      BY PmmAssumption DEF PmmAssumption
    <3> HIDE DEF ends
    <3>2. \A e \in ends : PMM_PHYS_LIMIT - e \in Nat
      BY <1>1, <3>1
    <3> QED BY <3>2
  <2>2. ends # {} => \E x \in T : \A y \in T : x <= y
    <3> HIDE DEF T, ends
    <3> QED BY <2>1, LeastNumber
  <2>3. PMM_PHYS_LIMIT \in Nat
    BY PmmAssumption DEF PmmAssumption
  <2>4. ASSUME ends # {} PROVE \E e \in ends : \A f \in ends : f <= e
    <3>1. PICK x \in T : \A y \in T : x <= y
      BY <2>2, <2>4
    <3>2. PICK e \in ends : x = PMM_PHYS_LIMIT - e
      OBVIOUS
    <3>3. \A f \in ends : PMM_PHYS_LIMIT - f \in T
      OBVIOUS
    <3> HIDE DEF T, ends
    <3> QED BY <1>1, <2>3, <3>1, <3>2, <3>3
  <2> QED BY <2>4
<1>3. /\ FramesOf(m) \in Nat
      /\ \A r \in Usable(m) : Up(r[2]) <= FramesOf(m)
  <2>1. CASE ends = {}
    BY <2>1 DEF FramesOf
  <2>2. CASE ends # {}
    <3> DEFINE e == CHOOSE e \in ends : \A f \in ends : f <= e
    <3>1. e \in ends /\ \A f \in ends : f <= e
      <4> HIDE DEF ends
      <4> QED BY <1>2, <2>2
    <3>2. FramesOf(m) = Up(e)
      BY <2>2 DEF FramesOf
    <3>3. \A r \in Usable(m) : r[2] \in ends
      OBVIOUS
    <3> HIDE DEF e, ends
    <3> QED BY <1>1, <3>1, <3>2, <3>3, FramesBelow
  <2> QED BY <2>1, <2>2
<1>4. 0 \in InUse(m)
  <2>1. LOWMEM_END \in Nat /\ Up(LOWMEM_END) \in Nat /\ Up(LOWMEM_END) >= 1
    BY FramesBelow, PmmAssumption DEF PmmAssumption
  <2>2. 0 \in FramesIn(0, LOWMEM_END)
    BY <2>1, FramesBelow DEF FramesIn
  <2> QED BY <2>2 DEF InUse
<1>5. ASSUME NEW f \in BootFree(m) PROVE f \in 1..(FramesOf(m) - 1)
  <2>1. f # 0 /\ \E r \in Usable(m) : f \in Down(r[1])..(Up(r[2]) - 1)
    BY <1>4 DEF BootFree, FramesIn
  <2>2. PICK r \in Usable(m) : f \in Down(r[1])..(Up(r[2]) - 1)
    BY <2>1
  <2>3. r[1] \in Nat /\ r[2] \in Nat
    BY UsableRight
  <2>4. Down(r[1]) \in Nat /\ Up(r[2]) \in Nat /\ Up(r[2]) <= FramesOf(m)
    BY <1>3, <2>3, FramesBelow
  <2> QED BY <1>3, <2>1, <2>2, <2>4
<1> QED BY <1>3, <1>5

LEMMA BootRight ==
    SpaceInit => MemTypes /\ LocalTypes /\ CallsRight
<1> SUFFICES ASSUME SpaceInit PROVE MemTypes /\ LocalTypes /\ CallsRight
  OBVIOUS
<1>1. mbi \in Maps /\ bitmap_frames \in Nat /\ ram \subseteq AllFrames
  BY BootFrames DEF SpaceInit, AllFrames
<1>2. /\ ktables \subseteq AllFrames /\ bitmap \subseteq AllFrames
      /\ next_free_page \in Nat
  BY <1>1 DEF SpaceInit, AllFrames
<1>3. 0 \in FrameOr0
  <2>1. \E f : f \in AllFrames
    BY <1>2 DEF SpaceInit
  <2> QED BY <1>1, <2>1 DEF FrameOr0, AllFrames
<1>4. MemTypes
  BY <1>1, <1>2, <1>3 DEF SpaceInit, MemTypes
<1>5. <<>> \in Seq(PageRun) /\ <<>> \in Seq(AllFrames)
  OBVIOUS
<1>6. LocalTypes
  BY <1>5, SizesRight DEF SpaceInit, LocalTypes, Places
<1>7. \A t \in Contexts : LocalsRight(pc[t], sub[t], todo[t], got[t], at[t], base_page[t], npages[t], mapped[t])
  <2> SUFFICES ASSUME NEW t \in Contexts
               PROVE LocalsRight(pc[t], sub[t], todo[t], got[t], at[t], base_page[t], npages[t], mapped[t])
    OBVIOUS
  <2>1. /\ pc[t] \in {"user", "none"} /\ sub[t] = Kernel /\ todo[t] = <<>> /\ got[t] = <<>>
        /\ at[t] = 0 /\ base_page[t] = 0 /\ npages[t] = 0 /\ mapped[t] = 0
    BY DEF SpaceInit
  <2> QED BY <2>1, IdleRight
<1>8. BuildsRight
  BY DEF SpaceInit, BuildsRight, Building
<1> QED BY <1>4, <1>6, <1>7, <1>8 DEF CallsRight

\* Every variable keeps its type, whatever the machine and the programs.
THEOREM SpaceTypesCorrect == SpaceSpec => [](SpaceTypeOK /\ CallsRight)
<1>1. MemTypes /\ LocalTypes /\ CallsRight /\ [SpaceNext]_spaceVars
         => (MemTypes /\ LocalTypes /\ CallsRight)'
  BY CallsStep, MemTypesStep
<1> QED BY <1>1, BootRight, TypeParts, PTL DEF SpaceSpec

-----------------------------------------------------------------------------
(* Who has which frame.                                                    *)

\* The places in the spaces that may hold a frame, and what they hold.
LEMMA PlacesInSpaces ==
    /\ \A u \in Tasks : <<"dir", u>> \in Uses /\ FrameAt(<<"dir", u>>) = dir[u]
    /\ \A u \in Tasks, k \in Pdes :
          <<"table", u, k>> \in Uses /\ FrameAt(<<"table", u, k>>) = tables[u][k]
    /\ \A u \in Tasks, p \in UserPages :
          <<"page", u, p>> \in Uses /\ FrameAt(<<"page", u, p>>) = pte[u][p]
    /\ \A x \in Uses :
          \/ \E u \in Tasks : x = <<"dir", u>>
          \/ \E u \in Tasks, k \in Pdes : x = <<"table", u, k>>
          \/ \E u \in Tasks, p \in UserPages : x = <<"page", u, p>>
  BY DEF Uses, FrameAt

LEMMA PlacesAfter ==
    /\ \A u \in Tasks : FrameAt(<<"dir", u>>)' = dir'[u]
    /\ \A u \in Tasks, k \in Pdes : FrameAt(<<"table", u, k>>)' = tables'[u][k]
    /\ \A u \in Tasks, p \in UserPages : FrameAt(<<"page", u, p>>)' = pte'[u][p]
  BY DEF FrameAt

LEMMA PlacesKept ==
    ASSUME UNCHANGED <<dir, tables, pte>>
    PROVE  \A x \in Uses : FrameAt(x)' = FrameAt(x)
  BY DEF FrameAt

LEMMA PlaceTypes ==
    ASSUME MemTypes
    PROVE  \A x \in Uses : FrameAt(x) \in FrameOr0
<1> SUFFICES ASSUME NEW x \in Uses PROVE FrameAt(x) \in FrameOr0
  OBVIOUS
<1>1. ASSUME NEW u \in Tasks, x = <<"dir", u>> PROVE FrameAt(x) \in FrameOr0
  BY <1>1, PlacesInSpaces DEF MemTypes
<1>2. ASSUME NEW u \in Tasks, NEW k \in Pdes, x = <<"table", u, k>> PROVE FrameAt(x) \in FrameOr0
  BY <1>2, PlacesInSpaces DEF MemTypes
<1>3. ASSUME NEW u \in Tasks, NEW p \in UserPages, x = <<"page", u, p>> PROVE FrameAt(x) \in FrameOr0
  BY <1>3, PlacesInSpaces DEF MemTypes
<1> QED BY <1>1, <1>2, <1>3, PlacesInSpaces

\* A step that collects nothing and changes no frame that a call carries.
FreshStay == \A v \in Contexts, i \in Nat : Fresh(v, i)' => Fresh(v, i) /\ got'[v][i] = got[v][i]

LEMMA FreshTypes ==
    ASSUME LocalTypes, NEW t \in Contexts, NEW i \in Nat, Fresh(t, i)
    PROVE  got[t][i] \in AllFrames
<1>1. got[t] \in Seq(AllFrames) /\ i \in DOMAIN got[t]
  BY DEF LocalTypes, Fresh
<1> QED BY <1>1

\* Frames G are given back, and the places and calls that had them forget them.
LEMMA GivenApart ==
    ASSUME MemTypes, LocalTypes, MemTypes', FramesApart, FreshStay, NEW G,
           bitmap' = bitmap \union G, ktables' = ktables, heap' \subseteq heap,
           \A x \in Uses : FrameAt(x)' = FrameAt(x) \/ FrameAt(x)' = 0,
           \A f \in G : f \notin ktables /\ f \notin heap',
           \A x \in Uses : FrameAt(x)' \notin G,
           \A v \in Contexts, i \in Nat : Fresh(v, i)' => got[v][i] \notin G
    PROVE  FramesApart'
<1>1. 0 \notin bitmap' /\ 0 \notin ktables' /\ 0 \notin heap' /\ 0 \notin AllFrames
  BY FrameSets DEF MemTypes, AllFrames
<1>2. PoolsApart'
  BY DEF FramesApart, PoolsApart
<1>3. UsesApart'
  <2>1. \A x \in Uses : FrameAt(x)' \notin bitmap' \union ktables' \union heap'
    BY <1>1 DEF FramesApart, UsesApart
  <2>2. \A x, y \in Uses : FrameAt(x)' = FrameAt(y)' /\ FrameAt(x)' # 0 => x = y
    BY DEF FramesApart, UsesApart
  <2> QED BY <2>1, <2>2 DEF UsesApart, Uses
<1>4. FreshApart'
  <2>1. \A v \in Contexts, i \in Nat : Fresh(v, i)' =>
           /\ got'[v][i] \notin bitmap' \union ktables' \union heap'
           /\ \A x \in Uses : FrameAt(x)' # got'[v][i]
    <3> SUFFICES ASSUME NEW v \in Contexts, NEW i \in Nat, Fresh(v, i)'
                 PROVE  /\ got'[v][i] \notin bitmap' \union ktables' \union heap'
                        /\ \A x \in Uses : FrameAt(x)' # got'[v][i]
      OBVIOUS
    <3>1. Fresh(v, i) /\ got'[v][i] = got[v][i] /\ got[v][i] \notin G
      BY DEF FreshStay
    <3>2. got[v][i] # 0
      BY <1>1, <3>1, FreshTypes
    <3> QED BY <3>1, <3>2 DEF FramesApart, FreshApart
  <2>2. \A v, w \in Contexts, i, j \in Nat :
           Fresh(v, i)' /\ Fresh(w, j)' /\ got'[v][i] = got'[w][j] => v = w /\ i = j
    BY DEF FramesApart, FreshApart, FreshStay
  <2> QED BY <2>1, <2>2 DEF FreshApart, Uses
<1> QED BY <1>2, <1>3, <1>4 DEF FramesApart

\* A free frame g goes to the kernel heap, to one place, or to one call.
LEMMA TakenApart ==
    ASSUME MemTypes, FramesApart, NEW g \in bitmap, bitmap' = bitmap \ {g}, ktables' = ktables,
           heap' \subseteq heap \union {g},
           \A x \in Uses : FrameAt(x)' = FrameAt(x) \/ FrameAt(x)' = g,
           \A x, y \in Uses : FrameAt(x)' = g /\ FrameAt(y)' = g => x = y,
           \A v \in Contexts, i \in Nat : Fresh(v, i)' =>
              got'[v][i] = g \/ (Fresh(v, i) /\ got'[v][i] = got[v][i]),
           \A v, w \in Contexts, i, j \in Nat :
              Fresh(v, i)' /\ Fresh(w, j)' /\ got'[v][i] = g /\ got'[w][j] = g => v = w /\ i = j,
           g \in heap' => /\ \A x \in Uses : FrameAt(x)' # g
                          /\ \A v \in Contexts, i \in Nat : Fresh(v, i)' => got'[v][i] # g,
           \A x \in Uses, v \in Contexts, i \in Nat :
              FrameAt(x)' = g => ~(Fresh(v, i)' /\ got'[v][i] = g)
    PROVE  FramesApart'
<1>1. /\ g \notin ktables /\ g \notin heap /\ \A x \in Uses : FrameAt(x) # g
      /\ \A v \in Contexts, i \in Nat : Fresh(v, i) => got[v][i] # g
  BY DEF FramesApart, PoolsApart, UsesApart, FreshApart
<1>2. PoolsApart'
  BY <1>1 DEF FramesApart, PoolsApart
<1>3. UsesApart'
  <2>1. \A x \in Uses : FrameAt(x)' \notin bitmap' \union ktables' \union heap'
    BY <1>1 DEF FramesApart, UsesApart
  <2>2. \A x, y \in Uses : FrameAt(x)' = FrameAt(y)' /\ FrameAt(x)' # 0 => x = y
    BY <1>1 DEF FramesApart, UsesApart
  <2> QED BY <2>1, <2>2 DEF UsesApart, Uses
<1>4. FreshApart'
  <2>1. \A v \in Contexts, i \in Nat : Fresh(v, i)' =>
           got'[v][i] \notin bitmap' \union ktables' \union heap'
    BY <1>1 DEF FramesApart, FreshApart
  <2>2. \A v \in Contexts, i \in Nat, x \in Uses : Fresh(v, i)' => FrameAt(x)' # got'[v][i]
    BY <1>1 DEF FramesApart, FreshApart
  <2>3. \A v, w \in Contexts, i, j \in Nat :
           Fresh(v, i)' /\ Fresh(w, j)' /\ got'[v][i] = got'[w][j] => v = w /\ i = j
    BY <1>1 DEF FramesApart, FreshApart
  <2> QED BY <2>1, <2>2, <2>3 DEF FreshApart, Uses
<1> QED BY <1>2, <1>3, <1>4 DEF FramesApart

\* A page belongs to a table of its directory.
LEMMA PagesHaveTables ==
    \A p \in UserPages : PdeOf(p) \in Pdes
<1>1. \A a, b \in Nat \ {0} : \A p \in 0..(a * b - 1) : p \div b \in 0..(a - 1)
  <2> SUFFICES ASSUME NEW a \in Nat \ {0}, NEW b \in Nat \ {0}, NEW p \in 0..(a * b - 1)
               PROVE  p \div b \in 0..(a - 1)
    OBVIOUS
  <2>1. p \div b \in Nat /\ b * (p \div b) <= p
    OBVIOUS
  <2>2. \A q \in Nat : q >= a => b * q >= a * b
    OBVIOUS
  <2> QED BY <2>1, <2>2
<1> QED BY <1>1, SpaceAssumption DEF SpaceAssumption, UserPages, Pdes, PdeOf

\* A collected frame is mapped, with a free one as the table it may need.
LEMMA MapApart ==
    ASSUME MemTypes, LocalTypes, FramesApart, NEW t \in Contexts, NEW u \in Tasks, NEW p \in UserPages,
           NEW k \in Nat, Fresh(t, k), MapPage(u, p, got[t][k]), UNCHANGED <<kernelVars, dir>>,
           FreshStay, ~Fresh(t, k)'
    PROVE  FramesApart'
<1> DEFINE f == got[t][k]
           xp == <<"page", u, p>>
           xt == <<"table", u, PdeOf(p)>>
<1>1. xp \in Uses /\ xt \in Uses /\ xp # xt
  BY PlacesInSpaces, PagesHaveTables
<1>2. f \in AllFrames /\ f # 0
  BY FreshTypes DEF AllFrames
<1>3. \A v \in Contexts, i \in Nat : Fresh(v, i)' => got'[v][i] # f
  BY DEF FreshStay, FramesApart, FreshApart
<1>4. f \notin bitmap \union ktables \union heap /\ \A x \in Uses : FrameAt(x) # f
  BY DEF FramesApart, FreshApart
<1>5. ktables' = ktables /\ heap' = heap /\ dir' = dir
  BY DEF kernelVars
<1>6. PdeOf(p) \in Pdes
  BY PagesHaveTables
<1>7. pte' = [pte EXCEPT ![u][p] = f]
  BY DEF MapPage
<1>8. CASE ~NeedsTable(u, p)
  <2>1. bitmap' = bitmap /\ tables' = tables
    BY <1>8 DEF MapPage
  <2>2. \A x \in Uses : FrameAt(x)' = IF x = xp THEN f ELSE FrameAt(x)
    BY <1>5, <1>7, <2>1 DEF MemTypes, FrameAt, Uses
  <2> HIDE DEF f, xp, xt
  <2>3. PoolsApart' /\ UsesApart'
    <3>1. \A x \in Uses : FrameAt(x)' \notin bitmap' \union ktables' \union heap'
      BY <1>4, <1>5, <2>1, <2>2 DEF FramesApart, UsesApart
    <3>2. \A x, y \in Uses : FrameAt(x)' = FrameAt(y)' /\ FrameAt(x)' # 0 => x = y
      BY <1>4, <2>2 DEF FramesApart, UsesApart
    <3> QED BY <1>5, <2>1, <3>1, <3>2 DEF FramesApart, PoolsApart, UsesApart, Uses
  <2>4. FreshApart'
    <3>1. \A v \in Contexts, i \in Nat : Fresh(v, i)' =>
             got'[v][i] \notin bitmap' \union ktables' \union heap'
      BY <1>5, <2>1 DEF FramesApart, FreshApart, FreshStay
    <3>2. \A v \in Contexts, i \in Nat, x \in Uses : Fresh(v, i)' => FrameAt(x)' # got'[v][i]
      BY <1>3, <2>2 DEF FramesApart, FreshApart, FreshStay
    <3>3. \A v, w \in Contexts, i, j \in Nat :
             Fresh(v, i)' /\ Fresh(w, j)' /\ got'[v][i] = got'[w][j] => v = w /\ i = j
      BY DEF FramesApart, FreshApart, FreshStay
    <3> QED BY <3>1, <3>2, <3>3 DEF FreshApart, Uses
  <2> QED BY <2>3, <2>4 DEF FramesApart
<1>9. CASE NeedsTable(u, p)
  <2>1. PICK g \in Fit : Take(g) /\ tables' = [tables EXCEPT ![u][PdeOf(p)] = g]
    BY <1>9 DEF MapPage
  <2>2. g \in bitmap /\ bitmap' = bitmap \ {g} /\ g # f
    BY <1>4, <2>1, FitIsFree DEF Take
  <2>3. \A x \in Uses : FrameAt(x)' = IF x = xp THEN f ELSE IF x = xt THEN g ELSE FrameAt(x)
    BY <1>5, <1>6, <1>7, <2>1 DEF MemTypes, FrameAt, Uses
  <2>4. /\ g \notin ktables /\ g \notin heap /\ \A x \in Uses : FrameAt(x) # g
        /\ \A v \in Contexts, i \in Nat : Fresh(v, i) => got[v][i] # g
    BY <2>2 DEF FramesApart, PoolsApart, UsesApart, FreshApart
  <2> HIDE DEF f, xp, xt
  <2>5. PoolsApart' /\ UsesApart'
    <3>1. \A x \in Uses : FrameAt(x)' \notin bitmap' \union ktables' \union heap'
      BY <1>4, <1>5, <2>2, <2>3, <2>4 DEF FramesApart, UsesApart
    <3>2. \A x, y \in Uses : FrameAt(x)' = FrameAt(y)' /\ FrameAt(x)' # 0 => x = y
      BY <1>4, <2>2, <2>3, <2>4 DEF FramesApart, UsesApart
    <3> QED BY <1>5, <2>2, <3>1, <3>2 DEF FramesApart, PoolsApart, UsesApart, Uses
  <2>6. FreshApart'
    <3>1. \A v \in Contexts, i \in Nat : Fresh(v, i)' =>
             got'[v][i] \notin bitmap' \union ktables' \union heap'
      BY <1>5, <2>2 DEF FramesApart, FreshApart, FreshStay
    <3>2. \A v \in Contexts, i \in Nat, x \in Uses : Fresh(v, i)' => FrameAt(x)' # got'[v][i]
      BY <1>3, <2>3, <2>4 DEF FramesApart, FreshApart, FreshStay
    <3>3. \A v, w \in Contexts, i, j \in Nat :
             Fresh(v, i)' /\ Fresh(w, j)' /\ got'[v][i] = got'[w][j] => v = w /\ i = j
      BY DEF FramesApart, FreshApart, FreshStay
    <3> QED BY <3>1, <3>2, <3>3 DEF FreshApart, Uses
  <2> QED BY <2>5, <2>6 DEF FramesApart
<1> QED BY <1>8, <1>9

\* The places of u's space are those whose second component is u.
LEMMA PlacesOfSpace ==
    ASSUME MemTypes, NEW u \in Tasks
    PROVE  \A f : f \in SpaceFrames(u) \ {0} <=> f # 0 /\ \E x \in Uses : x[2] = u /\ FrameAt(x) = f
<1>1. \A x \in Uses : x[2] = u => FrameAt(x) \in SpaceFrames(u) \union {0}
  BY DEF Uses, FrameAt, SpaceFrames, Backed, TablesOf
<1>2. \A f : f \in Backed(u) => \E x \in Uses : x[2] = u /\ FrameAt(x) = f
  <2> SUFFICES ASSUME NEW p \in UserPages PROVE \E x \in Uses : x[2] = u /\ FrameAt(x) = pte[u][p]
    BY DEF Backed
  <2>1. <<"page", u, p>> \in Uses /\ <<"page", u, p>>[2] = u
    BY PlacesInSpaces
  <2> QED BY <2>1, PlacesInSpaces
<1>3. \A f : f \in TablesOf(u) => \E x \in Uses : x[2] = u /\ FrameAt(x) = f
  <2> SUFFICES ASSUME NEW k \in Pdes PROVE \E x \in Uses : x[2] = u /\ FrameAt(x) = tables[u][k]
    BY DEF TablesOf
  <2>1. <<"table", u, k>> \in Uses /\ <<"table", u, k>>[2] = u
    BY PlacesInSpaces
  <2> QED BY <2>1, PlacesInSpaces
<1>4. \E x \in Uses : x[2] = u /\ FrameAt(x) = dir[u]
  <2>1. <<"dir", u>> \in Uses /\ <<"dir", u>>[2] = u
    BY PlacesInSpaces
  <2> QED BY <2>1, PlacesInSpaces
<1> QED BY <1>1, <1>2, <1>3, <1>4 DEF SpaceFrames

LEMMA ClearedPlaces ==
    ASSUME MemTypes, NEW u \in Tasks, Cleared(u)
    PROVE  \A x \in Uses : FrameAt(x)' = IF x[2] = u THEN 0 ELSE FrameAt(x)
  BY DEF Cleared, MemTypes, FrameAt, Uses

LEMMA UnmappedPlaces ==
    ASSUME MemTypes, NEW u \in Tasks, NEW p, NEW n, Unmapped(u, p, n), UNCHANGED <<dir, tables>>
    PROVE  /\ \A x \in Uses : FrameAt(x)' = FrameAt(x) \/ FrameAt(x)' = 0
           /\ \A q \in UserPages : q >= p /\ q < p + n => FrameAt(<<"page", u, q>>)' = 0
           /\ \A v \in Tasks \ {u} : pte'[v] = pte[v]
           /\ \A q \in UserPages : pte'[u][q] = IF q >= p /\ q < p + n THEN 0 ELSE pte[u][q]
<1>1. /\ \A v \in Tasks \ {u} : pte'[v] = pte[v]
      /\ \A q \in UserPages : pte'[u][q] = IF q >= p /\ q < p + n THEN 0 ELSE pte[u][q]
  BY DEF Unmapped, MemTypes
<1>2. \A v \in Tasks, q \in UserPages : pte'[v][q] = pte[v][q] \/ pte'[v][q] = 0
  BY <1>1
<1>3. \A x \in Uses : FrameAt(x)' = FrameAt(x) \/ FrameAt(x)' = 0
  BY <1>2 DEF FrameAt, Uses
<1> QED BY <1>1, <1>3, PlacesAfter

\* An action of t leaves the others' frames alone.
OthersStay(t) ==
    \A v \in Contexts \ {t} :
        /\ got'[v] = got[v] /\ at'[v] = at[v]
        /\ pc'[v] = pc[v] \/ (pc[v] = "none" /\ pc'[v] = "user")

LEMMA FreshOfOne ==
    ASSUME NEW t \in Contexts, OthersStay(t),
           \A i \in Nat : Fresh(t, i)' => Fresh(t, i) /\ got'[t][i] = got[t][i]
    PROVE  FreshStay
  BY DEF FreshStay, OthersStay, Fresh

LEMMA NotFresh ==
    ASSUME LocalTypes', NEW t \in Contexts,
           pc'[t] \notin {"collect", "mget", "map", "mput"} \/ got'[t] = <<>>
    PROVE  \A i \in Nat : ~Fresh(t, i)'
  BY DEF Fresh

\* A space is destroyed, and frames that t has collected are given back with it.
LEMMA DestroyApart ==
    ASSUME MemTypes, LocalTypes, MemTypes', FramesApart, NEW t \in Contexts, NEW u \in Tasks,
           NEW c \in Nat, NEW F, \A f \in F : \E i \in Nat : Fresh(t, i) /\ got[t][i] = f,
           Destroyed(u, c, F), UNCHANGED kernelVars, OthersStay(t), \A i \in Nat : ~Fresh(t, i)'
    PROVE  FramesApart'
<1> DEFINE G == (F \union SpaceFrames(u)) \ {0}
<1>1. F \in SUBSET FrameOr0
  BY FreshTypes, FrameSets
<1>2. GiveBack(c, F \union SpaceFrames(u)) /\ Cleared(u)
  BY DEF Destroyed, SpaceFrames
<1>3. bitmap' = bitmap \union G
  <2>1. F \union SpaceFrames(u) \in SUBSET FrameOr0
    BY <1>1, SpaceFramesType
  <2> QED BY <1>2, <2>1, GiveTypes
<1>4. \A x \in Uses : FrameAt(x)' = IF x[2] = u THEN 0 ELSE FrameAt(x)
  BY <1>2, ClearedPlaces
<1>5. FreshStay
  BY FreshOfOne
<1>6. ASSUME NEW f \in G
      PROVE  /\ f \notin ktables /\ f \notin heap
             /\ \A x \in Uses : x[2] # u => FrameAt(x) # f
             /\ \A v \in Contexts, i \in Nat : Fresh(v, i)' => got[v][i] # f
  <2>1. CASE f \in F
    <3>1. PICK i \in Nat : Fresh(t, i) /\ got[t][i] = f
      BY <2>1
    <3> QED BY <1>5, <3>1 DEF FramesApart, FreshApart, FreshStay
  <2>2. CASE f \in SpaceFrames(u)
    <3>1. PICK x \in Uses : x[2] = u /\ FrameAt(x) = f
      BY <1>6, <2>2, PlacesOfSpace
    <3>2. f # 0
      BY <1>6
    <3> QED BY <1>5, <3>1, <3>2 DEF FramesApart, UsesApart, FreshApart, FreshStay
  <2> QED BY <1>6, <2>1, <2>2
<1>7. 0 \notin G
  OBVIOUS
<1> HIDE DEF G
<1> QED BY <1>3, <1>4, <1>5, <1>6, <1>7, GivenApart DEF kernelVars

\* Pages are unmapped, and their frames given back.
LEMMA UnmapApart ==
    ASSUME MemTypes, LocalTypes, MemTypes', FramesApart, NEW t \in Tasks, NEW p, NEW n,
           UnmapRunFree(t, p, n), UNCHANGED <<kernelVars, dir, tables>>, FreshStay
    PROVE  FramesApart'
<1> DEFINE P == {r \in UserPages : r >= p /\ r < p + n}
           F == {pte[t][q] : q \in P} \ {0}
<1>1. F \in SUBSET FrameOr0 /\ next_free_page \in Nat
  BY DEF MemTypes
<1>2. bitmap' = bitmap \union F
  <2>1. bitmap' = bitmap \union (F \ {0})
    <3>1. GiveBack(next_free_page, F)
      BY DEF UnmapRunFree
    <3> HIDE DEF F
    <3> QED BY <1>1, <3>1, GiveTypes
  <2> QED BY <2>1
<1>3. Unmapped(t, p, n)
  BY DEF UnmapRunFree
<1>4. ASSUME NEW f \in F
      PROVE  /\ f \notin ktables /\ f \notin heap
             /\ \A x \in Uses : FrameAt(x)' # f
             /\ \A v \in Contexts, i \in Nat : Fresh(v, i)' => got[v][i] # f
  <2>1. PICK q \in P : f = pte[t][q]
    OBVIOUS
  <2>2. q \in UserPages /\ q >= p /\ q < p + n /\ f # 0
    BY <1>4
  <2>3. /\ <<"page", t, q>> \in Uses /\ FrameAt(<<"page", t, q>>) = f
        /\ FrameAt(<<"page", t, q>>)' = 0
    BY <1>3, <2>1, <2>2, PlacesInSpaces, UnmappedPlaces
  <2>4. \A x \in Uses : FrameAt(x)' = FrameAt(x) \/ FrameAt(x)' = 0
    BY <1>3, UnmappedPlaces
  <2>5. f \notin ktables /\ f \notin heap /\ \A x \in Uses : FrameAt(x)' # f
    BY <2>2, <2>3, <2>4 DEF FramesApart, UsesApart
  <2>6. \A v \in Contexts, i \in Nat : Fresh(v, i)' => got[v][i] # f
    BY <2>3 DEF FramesApart, FreshApart, FreshStay
  <2> QED BY <2>5, <2>6
<1>5. \A x \in Uses : FrameAt(x)' = FrameAt(x) \/ FrameAt(x)' = 0
  BY <1>3, UnmappedPlaces
<1> HIDE DEF F
<1> QED BY <1>2, <1>4, <1>5, GivenApart DEF kernelVars

\* A pass that fails gives back the frames it collected; those it had mapped it
\* has unmapped.
LEMMA PassPutFailsApart ==
    ASSUME MemTypes, LocalTypes, CallsRight, MemTypes', LocalTypes', FramesApart, GapRight,
           NEW t \in Tasks, PassPutFails(t)
    PROVE  FramesApart'
<1> DEFINE F == Elems(got[t])
           b == base_page[t] + mapped[t]
<1>1. /\ pc[t] = "mput" /\ t \in Contexts /\ Unmapped(t, b, Len(got[t])) /\ GiveBack(0, F)
      /\ UNCHANGED <<kernelVars, dir, tables>>
  BY SizesRight DEF PassPutFails, At
<1>2. OthersStay(t) /\ \A i \in Nat : ~Fresh(t, i)'
  <2>1. OthersStay(t) /\ got'[t] = <<>>
    BY <1>1 DEF PassPutFails, OthersStay, LocalTypes, Goto
  <2> QED BY <1>1, <2>1, NotFresh
<1>3. FreshStay
  BY <1>1, <1>2, FreshOfOne
<1>4. /\ got[t] \in Seq(AllFrames) /\ at[t] \in Nat /\ at[t] < Len(got[t]) /\ b \in Nat
      /\ b + Len(got[t]) <= NPages
  <2>1. LocalsRight(pc[t], sub[t], todo[t], got[t], at[t], base_page[t], npages[t], mapped[t])
    BY <1>1 DEF CallsRight
  <2>2. Len(got[t]) <= npages[t] - mapped[t]
    BY <1>1, <2>1, ChunkRight DEF LocalsRight, Chunk, Ranging
  <2>3. /\ got[t] \in Seq(AllFrames) /\ at[t] \in Nat /\ at[t] < Len(got[t]) /\ npages[t] \in Nat
        /\ base_page[t] \in Nat /\ mapped[t] \in Nat /\ base_page[t] + npages[t] <= NPages
    BY <1>1, <2>1, SizesRight DEF LocalsRight, Ranging
  <2> QED BY <2>2, <2>3, SizesRight
<1>5. F \subseteq AllFrames
  BY <1>4 DEF Elems
<1>6. bitmap' = bitmap \union F
  <2>1. F \in SUBSET FrameOr0 /\ F \ {0} = F
    BY <1>5, FrameSets
  <2> HIDE DEF F
  <2> QED BY <1>1, <2>1, GiveTypes
<1>7. ASSUME NEW f \in F
      PROVE  /\ f \notin ktables /\ f \notin heap
             /\ \A x \in Uses : FrameAt(x)' # f
             /\ \A v \in Contexts, i \in Nat : Fresh(v, i)' => got[v][i] # f
  <2>0. f # 0
    BY <1>5, <1>7 DEF AllFrames
  <2>1. PICK i \in DOMAIN got[t] : f = got[t][i]
    BY <1>7 DEF Elems
  <2>2. i \in Nat /\ i \in 1..Len(got[t])
    BY <1>4, <2>1
  <2>3. \A x \in Uses : FrameAt(x)' = FrameAt(x) \/ FrameAt(x)' = 0
    BY <1>1, UnmappedPlaces
  <2>4. CASE i > at[t]
    <3>1. Fresh(t, i)
      BY <1>1, <2>1, <2>4 DEF Fresh
    <3> QED BY <1>1, <1>2, <1>3, <2>0, <2>1, <2>2, <2>3, <3>1 DEF FramesApart, FreshApart, FreshStay
  <2>5. CASE i \in 1..at[t]
    <3>1. pte[t][b + i - 1] = f
      BY <1>1, <2>1, <2>5 DEF GapRight, Gap
    <3>2. b + i - 1 \in UserPages /\ b + i - 1 >= b /\ b + i - 1 < b + Len(got[t])
      <4> HIDE DEF b
      <4> QED BY <1>4, <2>2, SizesRight
    <3>3. PICK q \in UserPages : q = b + i - 1
      BY <3>2
    <3>4. <<"page", t, q>> \in Uses /\ FrameAt(<<"page", t, q>>) = f
      BY <3>1, <3>3, PlacesInSpaces
    <3>5. FrameAt(<<"page", t, q>>)' = 0
      <4> HIDE DEF b
      <4> QED BY <1>1, <3>2, <3>3, UnmappedPlaces
    <3> HIDE DEF b
    <3>6. f \notin ktables /\ f \notin heap
      BY <2>0, <3>4 DEF FramesApart, UsesApart
    <3>7. \A x \in Uses : FrameAt(x)' # f
      <4> SUFFICES ASSUME NEW x \in Uses, FrameAt(x)' = f PROVE FALSE
        OBVIOUS
      <4>1. FrameAt(x) = f
        BY <2>0, <2>3
      <4>2. x = <<"page", t, q>>
        BY <2>0, <3>4, <4>1 DEF FramesApart, UsesApart
      <4> QED BY <2>0, <3>5, <4>2
    <3>8. \A v \in Contexts, j \in Nat : Fresh(v, j)' => got[v][j] # f
      BY <1>3, <3>4 DEF FramesApart, FreshApart, FreshStay
    <3> QED BY <3>6, <3>7, <3>8
  <2> QED BY <1>4, <2>2, <2>4, <2>5
<1>8. \A x \in Uses : FrameAt(x)' = FrameAt(x) \/ FrameAt(x)' = 0
  BY <1>1, UnmappedPlaces
<1> HIDE DEF F, b
<1> QED BY <1>1, <1>3, <1>6, <1>7, <1>8, GivenApart DEF kernelVars

LEMMA KeptApart ==
    ASSUME MemTypes, LocalTypes, MemTypes', FramesApart, FreshStay,
           UNCHANGED <<bitmap, kernelVars, dir, tables, pte>>
    PROVE  FramesApart'
<1> DEFINE G == {}
<1>1. bitmap' = bitmap \union G /\ ktables' = ktables /\ heap' \subseteq heap /\ \A f : f \notin G
  BY DEF kernelVars
<1>2. \A x \in Uses : FrameAt(x)' = FrameAt(x)
  BY PlacesKept
<1> HIDE DEF G
<1> QED BY <1>1, <1>2, GivenApart

LEMMA RunMappedOthers ==
    ASSUME LocalTypes, NEW t \in Contexts, RunMapped(t)
    PROVE  OthersStay(t)
<1>1. CASE UNCHANGED <<pc, todo, got>>
  BY <1>1 DEF RunMapped, NextRun, LocalTypes, OthersStay
<1>2. CASE at' = [at EXCEPT ![t] = 0] /\ Goto(t, "load") /\ UNCHANGED <<todo, got>>
  BY <1>2 DEF Goto, LocalTypes, OthersStay
<1>3. CASE NextRun(t)
  BY <1>3 DEF NextRun, Goto, LocalTypes, OthersStay
<1> QED BY <1>1, <1>2, <1>3 DEF RunMapped

\* Which action leaves whose locals alone.
LEMMA ActionsOfOne ==
    ASSUME LocalTypes, CallsRight, NEW t \in Contexts
    PROVE  /\ \A u \in Tasks : \A prog : CreateDir(t, u, prog) => OthersStay(t)
           /\ ClearDir(t) \/ SetRec(t) \/ Collect(t) \/ CollectFails(t) => OthersStay(t)
           /\ MapInRun(t) \/ MapInRunMisses(t) => OthersStay(t)
           /\ ElfMap(t) \/ ElfWrite(t) \/ Abandon(t) \/ Start(t) => OthersStay(t)
           /\ \A hint, n : Mmapan(t, hint, n) => OthersStay(t)
           /\ PassGet(t) \/ PassFails(t) \/ PassPut(t) \/ PassPutFails(t) => OthersStay(t)
           /\ Undo(t) \/ Reap(t) => OthersStay(t)
<1>1. \A u \in Tasks : \A prog : CreateDir(t, u, prog) => OthersStay(t)
  BY DEF CreateDir, Goto, LocalTypes, OthersStay
<1>2. ClearDir(t) \/ SetRec(t) \/ Collect(t) \/ CollectFails(t) => OthersStay(t)
  BY DEF ClearDir, SetRec, Collect, CollectFails, Goto, Idle, LocalTypes, OthersStay
<1>3. RunMapped(t) => OthersStay(t)
  BY RunMappedOthers
<1>4. ElfMap(t) \/ ElfWrite(t) \/ Abandon(t) => OthersStay(t)
  BY DEF ElfMap, ElfWrite, NextRun, Abandon, Goto, Idle, LocalTypes, OthersStay
<1>5. ASSUME Start(t) PROVE OthersStay(t)
  <2>1. pc[t] = "start" /\ Idle(t) /\ pc' = [pc EXCEPT ![t] = Back(t), ![sub[t]] = "user"]
    BY <1>5 DEF Start, At
  <2>2. pc[sub[t]] = "none"
    BY <2>1 DEF CallsRight, BuildsRight, Building
  <2> QED BY <2>1, <2>2 DEF Idle, LocalTypes, OthersStay
<1>6. \A hint, n : Mmapan(t, hint, n) => OthersStay(t)
  BY DEF Mmapan, Goto, LocalTypes, OthersStay
<1>7. PassGet(t) \/ PassFails(t) \/ PassPutFails(t) => OthersStay(t)
  BY DEF PassGet, PassFails, PassPutFails, Goto, LocalTypes, OthersStay
<1>8. PassPut(t) => OthersStay(t)
  BY DEF PassPut, PassDone, Idle, Goto, LocalTypes, OthersStay
<1>9. Undo(t) \/ Reap(t) => OthersStay(t)
  BY DEF Undo, Reap, Idle, Goto, LocalTypes, OthersStay
<1> QED BY <1>1, <1>2, <1>3, <1>4, <1>5, <1>6, <1>7, <1>8, <1>9 DEF MapInRun, MapInRunMisses

\* A frame that a call collects is its own.
LEMMA CollectApart ==
    ASSUME MemTypes, LocalTypes, CallsRight, FramesApart, NEW t \in Contexts,
           pc[t] \in {"collect", "pass", "mget"}, pc'[t] \in {"collect", "map", "mget", "mput"},
           OthersStay(t), UNCHANGED <<kernelVars, dir, tables, pte>>,
           NEW g \in Fit, Take(g), got' = [got EXCEPT ![t] = Append(@, g)]
    PROVE  FramesApart'
<1> DEFINE n == Len(got[t]) + 1
<1>1. /\ got[t] \in Seq(AllFrames) /\ n \in Nat /\ got'[t] = Append(got[t], g)
      /\ pc[t] = "pass" => got[t] = <<>>
  <2>1. got[t] \in Seq(AllFrames) /\ got'[t] = Append(got[t], g)
    BY DEF LocalTypes
  <2>2. pc[t] = "pass" => got[t] = <<>>
    BY DEF CallsRight, LocalsRight
  <2> QED BY <2>1, <2>2
<1>2. g \in bitmap /\ bitmap' = bitmap \ {g} /\ ktables' = ktables /\ heap' = heap
  BY FitIsFree DEF Take, kernelVars
<1>3. \A x \in Uses : FrameAt(x)' = FrameAt(x) /\ FrameAt(x) # g
  BY <1>2, PlacesKept DEF FramesApart, UsesApart
<1>4. \A v \in Contexts, i \in Nat : Fresh(v, i) => got[v][i] # g
  BY <1>2 DEF FramesApart, FreshApart
<1>5. ASSUME NEW i \in Nat, Fresh(t, i)'
      PROVE  IF i = n THEN got'[t][i] = g ELSE Fresh(t, i) /\ got'[t][i] = got[t][i]
  <2>1. i \in DOMAIN got'[t]
    BY <1>5 DEF Fresh
  <2>2. DOMAIN got'[t] = 1..n /\ DOMAIN got[t] = 1..(n - 1) /\ got'[t][n] = g
        /\ \A j \in 1..(n - 1) : got'[t][j] = got[t][j]
    BY <1>1
  <2>3. i # n => i \in DOMAIN got[t] /\ got'[t][i] = got[t][i]
    BY <1>1, <2>1, <2>2
  <2>4. i # n => pc[t] # "pass"
    BY <1>1, <2>3
  <2> QED BY <2>2, <2>3, <2>4 DEF Fresh
<1>6. ASSUME NEW v \in Contexts \ {t}, NEW i \in Nat, Fresh(v, i)'
      PROVE  Fresh(v, i) /\ got'[v][i] = got[v][i]
  BY <1>6 DEF OthersStay, Fresh
<1> HIDE DEF n
<1>7. \A v \in Contexts, i \in Nat : Fresh(v, i)' =>
         \/ v = t /\ i = n /\ got'[v][i] = g
         \/ Fresh(v, i) /\ got'[v][i] = got[v][i] /\ got'[v][i] # g
  <2> SUFFICES ASSUME NEW v \in Contexts, NEW i \in Nat, Fresh(v, i)'
               PROVE  \/ v = t /\ i = n /\ got'[v][i] = g
                      \/ Fresh(v, i) /\ got'[v][i] = got[v][i] /\ got'[v][i] # g
    OBVIOUS
  <2>1. CASE v = t
    BY <1>4, <1>5, <2>1
  <2>2. CASE v # t
    BY <1>4, <1>6, <2>2
  <2> QED BY <2>1, <2>2
<1>8. g \notin heap' /\ heap' \subseteq heap \union {g}
  BY <1>2 DEF FramesApart, PoolsApart
<1>9. \A v \in Contexts, i \in Nat : Fresh(v, i)' =>
         got'[v][i] = g \/ (Fresh(v, i) /\ got'[v][i] = got[v][i])
  BY <1>7
<1>10. \A v \in Contexts, i \in Nat : Fresh(v, i)' /\ got'[v][i] = g => v = t /\ i = n
  BY <1>7
<1>11. \A v, w \in Contexts, i, j \in Nat :
          Fresh(v, i)' /\ Fresh(w, j)' /\ got'[v][i] = g /\ got'[w][j] = g => v = w /\ i = j
  BY <1>10
<1>12. /\ \A x \in Uses : FrameAt(x)' = FrameAt(x) \/ FrameAt(x)' = g
       /\ \A x, y \in Uses : FrameAt(x)' = g /\ FrameAt(y)' = g => x = y
       /\ \A x \in Uses, v \in Contexts, i \in Nat :
             FrameAt(x)' = g => ~(Fresh(v, i)' /\ got'[v][i] = g)
  BY <1>3
<1>13. g \in heap' => /\ \A x \in Uses : FrameAt(x)' # g
                      /\ \A v \in Contexts, i \in Nat : Fresh(v, i)' => got'[v][i] # g
  BY <1>8
<1> QED BY <1>2, <1>8, <1>9, <1>11, <1>12, <1>13, TakenApart

\* What vmm_map_in_run has passed is not fresh any more.
LEMMA RunMappedFresh ==
    ASSUME LocalTypes, LocalTypes', CallsRight, NEW t \in Contexts, pc[t] = "map", RunMapped(t)
    PROVE  FreshStay /\ \E k \in Nat : k = at[t] + 1 /\ Fresh(t, k) /\ ~Fresh(t, k)'
<1>0. /\ at[t] + 1 \in DOMAIN got[t] /\ at[t] \in Nat /\ DOMAIN got[t] \subseteq Nat
      /\ OthersStay(t)
  <2>1. at[t] + 1 \in DOMAIN got[t] /\ at[t] \in Nat
    BY NextFrame
  <2>2. DOMAIN got[t] \subseteq Nat
    BY DEF LocalTypes
  <2> QED BY <2>1, <2>2, RunMappedOthers
<1>3. PICK k \in Nat : k = at[t] + 1 /\ Fresh(t, k)
  BY <1>0 DEF Fresh
<1>1. CASE at[t] + 1 < Run(t).count
  <2>1. at'[t] = at[t] + 1 /\ pc' = pc /\ got' = got
    BY <1>1 DEF RunMapped, LocalTypes
  <2>2. \A i \in Nat : Fresh(t, i)' => i > at[t] + 1 /\ Fresh(t, i)
    BY <1>0, <2>1 DEF Fresh
  <2>3. \A i \in Nat : Fresh(t, i)' => got'[t][i] = got[t][i]
    BY <2>1
  <2>4. FreshStay
    BY <1>0, <2>2, <2>3, FreshOfOne
  <2>5. ~Fresh(t, k)'
    BY <1>3, <2>2
  <2> QED BY <1>3, <2>4, <2>5
<1>2. CASE ~(at[t] + 1 < Run(t).count)
  <2>1. pc'[t] = "load" \/ got'[t] = <<>>
    BY <1>2 DEF RunMapped, NextRun, Goto, LocalTypes
  <2>2. \A i \in Nat : ~Fresh(t, i)'
    BY <2>1, NotFresh
  <2>3. FreshStay
    BY <1>0, <2>2, FreshOfOne
  <2>4. ~Fresh(t, k)'
    BY <2>2
  <2> QED BY <1>3, <2>3, <2>4
<1> QED BY <1>1, <1>2

\* Nor is what vmm_map_zeroed_run has.
LEMMA PassPutFresh ==
    ASSUME LocalTypes, LocalTypes', CallsRight, NEW t \in Tasks, PassPut(t)
    PROVE  FreshStay /\ \E k \in Nat : k = at[t] + 1 /\ Fresh(t, k) /\ ~Fresh(t, k)'
<1>1. pc[t] = "mput" /\ t \in Contexts
  BY SizesRight DEF PassPut, At
<1>2. at[t] + 1 \in DOMAIN got[t] /\ at[t] \in Nat /\ OthersStay(t)
  BY <1>1, NextFrame, ActionsOfOne
<1>3. DOMAIN got[t] \subseteq Nat
  BY <1>1 DEF LocalTypes
<1>4. PICK k \in Nat : k = at[t] + 1 /\ Fresh(t, k)
  BY <1>1, <1>2 DEF Fresh
<1>5. CASE at[t] + 1 = Len(got[t])
  <2>1. got'[t] = <<>>
    BY <1>1, <1>5 DEF PassPut, PassDone, Idle, LocalTypes
  <2>2. \A i \in Nat : ~Fresh(t, i)'
    BY <1>1, <2>1, NotFresh
  <2>3. FreshStay
    BY <1>1, <1>2, <2>2, FreshOfOne
  <2>4. ~Fresh(t, k)'
    BY <2>2
  <2> QED BY <1>4, <2>3, <2>4
<1>6. CASE at[t] + 1 # Len(got[t])
  <2>1. at'[t] = at[t] + 1 /\ pc' = pc /\ got' = got
    BY <1>1, <1>6 DEF PassPut, LocalTypes
  <2>2. \A i \in Nat : Fresh(t, i)' => i > at[t] + 1 /\ Fresh(t, i) /\ got'[t][i] = got[t][i]
    BY <1>1, <1>2, <2>1 DEF Fresh
  <2>3. FreshStay
    BY <1>1, <1>2, <2>2, FreshOfOne
  <2>4. ~Fresh(t, k)'
    BY <1>4, <2>2
  <2> QED BY <1>4, <2>3, <2>4
<1> QED BY <1>5, <1>6

\* The pages that the calls map are pages.
LEMMA PagesToMap ==
    ASSUME LocalTypes, CallsRight, NEW t \in Contexts
    PROVE  /\ pc[t] = "map" => Run(t).first + at[t] \in UserPages
           /\ pc[t] = "mput" => base_page[t] + mapped[t] + at[t] \in UserPages
<1>1. LocalsRight(pc[t], sub[t], todo[t], got[t], at[t], base_page[t], npages[t], mapped[t])
  BY DEF CallsRight
<1>2. ASSUME pc[t] = "map" PROVE Run(t).first + at[t] \in UserPages
  <2>1. todo[t] # <<>> /\ at[t] \in Nat /\ at[t] < Len(got[t]) /\ Len(got[t]) = Run(t).count
    BY <1>1, <1>2 DEF LocalsRight, Building, Run
  <2>2. /\ Run(t).first \in UserPages /\ Run(t).count \in Nat \ {0}
        /\ Run(t).first + Run(t).count - 1 \in UserPages
    BY <1>1, <2>1, FirstRun DEF LocalsRight, Run
  <2> QED BY <2>1, <2>2, SizesRight
<1>3. ASSUME pc[t] = "mput" PROVE base_page[t] + mapped[t] + at[t] \in UserPages
  <2>1. Len(got[t]) <= npages[t] - mapped[t]
    BY <1>1, <1>3, ChunkRight DEF LocalsRight, Chunk, Ranging
  <2>2. /\ at[t] \in Nat /\ at[t] < Len(got[t]) /\ npages[t] \in Nat /\ Len(got[t]) \in Nat
        /\ base_page[t] \in UserPages /\ mapped[t] \in Nat /\ base_page[t] + npages[t] <= NPages
    BY <1>1, <1>3 DEF LocalsRight, Ranging
  <2> QED BY <2>1, <2>2, SizesRight
<1> QED BY <1>2, <1>3

\* The first steps of PROCREATE.
LEMMA CreateDirApart ==
    ASSUME MemTypes, LocalTypes, CallsRight, LocalTypes', FramesApart, NEW t \in Contexts,
           NEW u \in Tasks, NEW prog, CreateDir(t, u, prog)
    PROVE  FramesApart'
<1>1. PICK g \in Fit : Take(g) /\ dir' = [dir EXCEPT ![u] = g]
  BY DEF CreateDir
<1>2. g \in bitmap /\ bitmap' = bitmap \ {g} /\ ktables' = ktables /\ heap' = heap
  BY <1>1, FitIsFree DEF Take, CreateDir, kernelVars
<1>3. \A x \in Uses : FrameAt(x)' = IF x = <<"dir", u>> THEN g ELSE FrameAt(x)
  BY <1>1 DEF CreateDir, MemTypes, FrameAt, Uses
<1>4. OthersStay(t) /\ pc'[t] = "clear"
  BY ActionsOfOne DEF CreateDir, Goto, LocalTypes
<1>5. \A i \in Nat : ~Fresh(t, i)'
  BY <1>4, NotFresh
<1>6. FreshStay
  BY <1>4, <1>5, FreshOfOne
<1>7. /\ \A x \in Uses : FrameAt(x) # g
      /\ \A v \in Contexts, i \in Nat : Fresh(v, i) => got[v][i] # g
      /\ g \notin heap'
  BY <1>2 DEF FramesApart, PoolsApart, UsesApart, FreshApart
<1>8. /\ \A x \in Uses : FrameAt(x)' = FrameAt(x) \/ FrameAt(x)' = g
      /\ \A x, y \in Uses : FrameAt(x)' = g /\ FrameAt(y)' = g => x = y
  BY <1>3, <1>7
<1>9. /\ \A v \in Contexts, i \in Nat : Fresh(v, i)' =>
            got'[v][i] = g \/ (Fresh(v, i) /\ got'[v][i] = got[v][i])
      /\ \A v, w \in Contexts, i, j \in Nat :
            Fresh(v, i)' /\ Fresh(w, j)' /\ got'[v][i] = g /\ got'[w][j] = g => v = w /\ i = j
      /\ \A x \in Uses, v \in Contexts, i \in Nat :
            FrameAt(x)' = g => ~(Fresh(v, i)' /\ got'[v][i] = g)
  BY <1>6, <1>7 DEF FreshStay
<1> QED BY <1>2, <1>7, <1>8, <1>9, TakenApart

\* Steps that take and give no frame.
LEMMA QuietStepsFresh ==
    ASSUME LocalTypes, LocalTypes', CallsRight, NEW t \in Contexts,
           ClearDir(t) \/ SetRec(t) \/ ElfMap(t) \/ ElfWrite(t) \/ Start(t)
    PROVE  FreshStay
<1>1. OthersStay(t)
  BY ActionsOfOne
<1>2. pc'[t] \notin {"collect", "mget", "map", "mput"} \/ got'[t] = <<>>
  <2>1. ASSUME SetRec(t) PROVE got'[t] = <<>>
    <3>1. pc[t] = "rec" /\ got' = got
      BY <2>1 DEF SetRec, At
    <3>2. LocalsRight(pc[t], sub[t], todo[t], got[t], at[t], base_page[t], npages[t], mapped[t])
      BY DEF CallsRight
    <3> QED BY <3>1, <3>2 DEF LocalsRight
  <2>2. ASSUME ClearDir(t) \/ ElfMap(t) PROVE pc'[t] \notin {"collect", "mget", "map", "mput"}
    BY <2>2 DEF ClearDir, ElfMap, Goto, LocalTypes
  <2>3. ASSUME ElfWrite(t)
        PROVE  pc'[t] \notin {"collect", "mget", "map", "mput"} \/ got'[t] = <<>>
    BY <2>3 DEF ElfWrite, NextRun, Goto, LocalTypes
  <2>4. ASSUME Start(t) PROVE got'[t] = <<>>
    BY <2>4 DEF Start, Idle, LocalTypes
  <2> QED BY <2>1, <2>2, <2>3, <2>4
<1>3. \A i \in Nat : ~Fresh(t, i)'
  BY <1>2, NotFresh
<1> QED BY <1>1, <1>3, FreshOfOne

LEMMA FreshKept ==
    ASSUME UNCHANGED locals
    PROVE  FreshStay
  BY DEF FreshStay, Fresh, locals

\* Every action keeps the frames apart.
LEMMA ApartStep ==
    ASSUME MemTypes, LocalTypes, CallsRight, MemTypes', LocalTypes', FramesApart, GapRight,
           [SpaceNext]_spaceVars
    PROVE  FramesApart'
<1>0. /\ \A t \in Tasks : t \in Contexts
      /\ \A t \in Contexts : pc[t] \in Building => sub[t] \in Tasks
      /\ \A t \in Contexts : Elems(got[t]) \subseteq AllFrames
  <2>1. \A t \in Contexts : pc[t] \in Building => sub[t] \in Tasks
    BY DEF CallsRight, LocalsRight
  <2>2. \A t \in Contexts : Elems(got[t]) \subseteq AllFrames
    BY DEF LocalTypes, Elems
  <2> QED BY <2>1, <2>2, SizesRight
<1>1. CASE UNCHANGED spaceVars
  <2>1. UNCHANGED <<bitmap, kernelVars, dir, tables, pte, locals>>
    BY <1>1 DEF spaceVars, pmmVars, spaces
  <2> QED BY <2>1, FreshKept, KeptApart
<1>2. ASSUME NEW t \in Contexts, ClearDir(t) \/ SetRec(t) \/ ElfMap(t) \/ ElfWrite(t) \/ Start(t)
      PROVE  FramesApart'
  <2>1. UNCHANGED <<bitmap, kernelVars, dir, tables, pte>>
    BY <1>2 DEF ClearDir, SetRec, ElfMap, ElfWrite, Start, pmmVars, spaces
  <2> QED BY <1>2, <2>1, QuietStepsFresh, KeptApart
<1>3. ASSUME NEW t \in Contexts, Collect(t) \/ (t \in Tasks /\ PassGet(t)) PROVE FramesApart'
  <2>1. PICK g \in Fit : Take(g) /\ got' = [got EXCEPT ![t] = Append(@, g)]
    BY <1>3 DEF Collect, PassGet
  <2>2. /\ pc[t] \in {"collect", "pass", "mget"} /\ pc'[t] \in {"collect", "map", "mget", "mput"}
        /\ UNCHANGED <<kernelVars, dir, tables, pte>>
    BY <1>3 DEF Collect, PassGet, At, Goto, LocalTypes, spaces
  <2> QED BY <1>3, <2>1, <2>2, ActionsOfOne, CollectApart
<1>4. ASSUME NEW t \in Contexts, CollectFails(t) \/ Abandon(t) PROVE FramesApart'
  <2>1. OthersStay(t) /\ got'[t] = <<>> /\ UNCHANGED kernelVars /\ sub[t] \in Tasks
    <3>1. OthersStay(t)
      BY <1>4, ActionsOfOne
    <3> QED BY <1>0, <1>4, <3>1 DEF CollectFails, Abandon, At, Idle, LocalTypes, Building
  <2>2. \A i \in Nat : ~Fresh(t, i)'
    BY <2>1, NotFresh
  <2>3. CASE CollectFails(t)
    <3>1. pc[t] = "collect" /\ got[t] \in Seq(AllFrames)
      BY <2>3 DEF CollectFails, At, LocalTypes
    <3>2. \A f \in Elems(got[t]) : \E i \in Nat : Fresh(t, i) /\ got[t][i] = f
      BY <3>1 DEF Elems, Fresh
    <3>3. Destroyed(sub[t], 0, Elems(got[t]))
      BY <2>3 DEF CollectFails
    <3> QED BY <2>1, <2>2, <3>2, <3>3, DestroyApart
  <2>4. CASE Abandon(t)
    <3>1. Destroyed(sub[t], next_free_page, {}) /\ next_free_page \in Nat
      BY <2>4 DEF Abandon, MemTypes
    <3>2. \A f \in {} : \E i \in Nat : Fresh(t, i) /\ got[t][i] = f
      OBVIOUS
    <3> QED BY <2>1, <2>2, <3>1, <3>2, DestroyApart
  <2> QED BY <1>4, <2>3, <2>4
<1>5. ASSUME NEW t \in Tasks, Reap(t) PROVE FramesApart'
  <2>1. t \in Contexts /\ OthersStay(t) /\ pc'[t] = "none" /\ UNCHANGED kernelVars
    BY <1>0, <1>5, ActionsOfOne DEF Reap, Goto, LocalTypes
  <2>2. \A i \in Nat : ~Fresh(t, i)'
    BY <2>1, NotFresh
  <2>3. Destroyed(t, next_free_page, {}) /\ next_free_page \in Nat
    BY <1>5 DEF Reap, MemTypes
  <2>4. \A f \in {} : \E i \in Nat : Fresh(t, i) /\ got[t][i] = f
    OBVIOUS
  <2> QED BY <2>1, <2>2, <2>3, <2>4, DestroyApart
<1>6. ASSUME NEW t \in Contexts, MapInRun(t) PROVE FramesApart'
  <2>1. /\ pc[t] = "map" /\ RunMapped(t) /\ sub[t] \in Tasks /\ UNCHANGED <<kernelVars, dir>>
        /\ MapPage(sub[t], Run(t).first + at[t], got[t][at[t] + 1])
    BY <1>0, <1>6 DEF MapInRun, At, Building
  <2>2. PICK k \in Nat : k = at[t] + 1 /\ Fresh(t, k) /\ ~Fresh(t, k)'
    BY <2>1, RunMappedFresh
  <2>3. FreshStay
    BY <2>1, RunMappedFresh
  <2>4. Run(t).first + at[t] \in UserPages
    BY <2>1, PagesToMap
  <2>5. PICK p \in UserPages, u \in Tasks : p = Run(t).first + at[t] /\ u = sub[t]
    BY <2>1, <2>4
  <2>6. MapPage(u, p, got[t][k])
    BY <2>1, <2>2, <2>5
  <2> QED BY <2>1, <2>2, <2>3, <2>6, MapApart
<1>7. ASSUME NEW t \in Contexts, MapInRunMisses(t) PROVE FramesApart'
  <2>1. pc[t] = "map" /\ RunMapped(t) /\ UNCHANGED <<bitmap, kernelVars, dir, tables, pte>>
    BY <1>7 DEF MapInRunMisses, MapNothing, At
  <2> QED BY <2>1, RunMappedFresh, KeptApart
<1>8. ASSUME NEW t \in Tasks, NEW hint, NEW n, Mmapan(t, hint, n) PROVE FramesApart'
  <2>1. OthersStay(t) /\ pc'[t] = "pass" /\ UNCHANGED <<bitmap, kernelVars, dir, tables, pte>>
    BY <1>0, <1>8, ActionsOfOne DEF Mmapan, Goto, LocalTypes, pmmVars, spaces
  <2>2. \A i \in Nat : ~Fresh(t, i)'
    BY <1>0, <2>1, NotFresh
  <2> QED BY <1>0, <2>1, <2>2, FreshOfOne, KeptApart
<1>9. ASSUME NEW t \in Tasks, PassFails(t) PROVE FramesApart'
  <2>1. /\ OthersStay(t) /\ got'[t] = <<>> /\ pc[t] \in {"pass", "mget"} /\ GiveBack(0, Elems(got[t]))
        /\ UNCHANGED <<kernelVars, dir, tables, pte>>
    BY <1>0, <1>9, ActionsOfOne DEF PassFails, At, LocalTypes, spaces
  <2>2. \A i \in Nat : ~Fresh(t, i)'
    BY <1>0, <2>1, NotFresh
  <2>3. FreshStay
    BY <1>0, <2>1, <2>2, FreshOfOne
  <2> DEFINE G == Elems(got[t])
  <2>4. G \subseteq AllFrames /\ G \in SUBSET FrameOr0 /\ G \ {0} = G
    BY <1>0, FrameSets
  <2>5. \A f \in G : \E i \in Nat : Fresh(t, i) /\ got[t][i] = f
    <3>1. got[t] \in Seq(AllFrames) /\ (pc[t] = "pass" => got[t] = <<>>)
      BY <1>0, <2>1 DEF CallsRight, LocalsRight
    <3> QED BY <2>1, <3>1 DEF Elems, Fresh
  <2>6. bitmap' = bitmap \union G
    <3> HIDE DEF G
    <3>1. GiveBack(0, G)
      BY <2>1 DEF G
    <3> QED BY <2>4, <3>1, GiveTypes
  <2> HIDE DEF G
  <2>7. \A f \in G : /\ f \notin ktables /\ f \notin heap /\ \A x \in Uses : FrameAt(x) # f
                     /\ \A v \in Contexts, i \in Nat : Fresh(v, i)' => got[v][i] # f
    BY <1>0, <2>2, <2>3, <2>5 DEF FramesApart, FreshApart, FreshStay
  <2>8. \A x \in Uses : FrameAt(x)' = FrameAt(x)
    BY <2>1, PlacesKept
  <2> QED BY <2>1, <2>3, <2>6, <2>7, <2>8, GivenApart DEF kernelVars
<1>10. ASSUME NEW t \in Tasks, PassPut(t) PROVE FramesApart'
  <2>1. /\ pc[t] = "mput" /\ UNCHANGED <<kernelVars, dir>>
        /\ MapPage(t, base_page[t] + mapped[t] + at[t], got[t][at[t] + 1])
    BY <1>10 DEF PassPut, At
  <2>2. PICK k \in Nat : k = at[t] + 1 /\ Fresh(t, k) /\ ~Fresh(t, k)'
    BY <1>10, PassPutFresh
  <2>3. FreshStay
    BY <1>10, PassPutFresh
  <2>4. base_page[t] + mapped[t] + at[t] \in UserPages
    BY <1>0, <2>1, PagesToMap
  <2>5. PICK p \in UserPages : p = base_page[t] + mapped[t] + at[t]
    BY <2>4
  <2>6. MapPage(t, p, got[t][k])
    BY <2>1, <2>2, <2>5
  <2> QED BY <1>0, <2>1, <2>2, <2>3, <2>6, MapApart
<1>11. ASSUME NEW t \in Tasks, Undo(t) PROVE FramesApart'
  <2>1. /\ OthersStay(t) /\ got'[t] = <<>> /\ UnmapRunFree(t, base_page[t], mapped[t])
        /\ UNCHANGED <<kernelVars, dir, tables>>
    BY <1>0, <1>11, ActionsOfOne DEF Undo, Idle, LocalTypes
  <2>2. \A i \in Nat : ~Fresh(t, i)'
    BY <1>0, <2>1, NotFresh
  <2>3. FreshStay
    BY <1>0, <2>1, <2>2, FreshOfOne
  <2>4. PICK p, n : p = base_page[t] /\ n = mapped[t]
    OBVIOUS
  <2>5. UnmapRunFree(t, p, n)
    BY <2>1, <2>4
  <2> QED BY <2>1, <2>3, <2>5, UnmapApart
<1>12. ASSUME NEW t \in Tasks, NEW p, NEW n, Munmap(t, p, n) PROVE FramesApart'
  <2>1. UnmapRunFree(t, p, n) /\ UNCHANGED <<kernelVars, dir, tables, locals>>
    BY <1>12 DEF Munmap
  <2> QED BY <2>1, FreshKept, UnmapApart
<1>13. CASE HeapTake
  <2>1. PICK g \in Fit : Take(g) /\ heap' = heap \union {g}
    BY <1>13 DEF HeapTake
  <2>2. /\ g \in bitmap /\ bitmap' = bitmap \ {g} /\ ktables' = ktables
        /\ UNCHANGED <<dir, tables, pte, locals>>
    BY <1>13, <2>1, FitIsFree DEF HeapTake, Take, spaces
  <2>3. FreshStay /\ \A x \in Uses : FrameAt(x)' = FrameAt(x)
    BY <2>2, FreshKept, PlacesKept
  <2>4. /\ \A x \in Uses : FrameAt(x) # g
        /\ \A v \in Contexts, i \in Nat : Fresh(v, i) => got[v][i] # g
    BY <2>2 DEF FramesApart, UsesApart, FreshApart
  <2>5. /\ \A x \in Uses : FrameAt(x)' # g
        /\ \A v \in Contexts, i \in Nat : Fresh(v, i)' =>
              got'[v][i] # g /\ Fresh(v, i) /\ got'[v][i] = got[v][i]
    BY <2>3, <2>4 DEF FreshStay
  <2>6. /\ \A x \in Uses : FrameAt(x)' = FrameAt(x) \/ FrameAt(x)' = g
        /\ \A x, y \in Uses : FrameAt(x)' = g /\ FrameAt(y)' = g => x = y
        /\ \A v \in Contexts, i \in Nat : Fresh(v, i)' =>
              got'[v][i] = g \/ (Fresh(v, i) /\ got'[v][i] = got[v][i])
        /\ \A v, w \in Contexts, i, j \in Nat :
              Fresh(v, i)' /\ Fresh(w, j)' /\ got'[v][i] = g /\ got'[w][j] = g => v = w /\ i = j
        /\ \A x \in Uses, v \in Contexts, i \in Nat :
              FrameAt(x)' = g => ~(Fresh(v, i)' /\ got'[v][i] = g)
    BY <2>3, <2>5
  <2> QED BY <2>1, <2>2, <2>5, <2>6, TakenApart
<1>14. ASSUME NEW f \in heap, HeapGive(f) PROVE FramesApart'
  <2> DEFINE G == {f}
  <2>1. /\ GiveBack(next_free_page, G) /\ heap' = heap \ {f} /\ ktables' = ktables
        /\ UNCHANGED <<dir, tables, pte, locals>> /\ next_free_page \in Nat
    BY <1>14 DEF HeapGive, spaces, MemTypes
  <2>2. FreshStay /\ \A x \in Uses : FrameAt(x)' = FrameAt(x)
    BY <2>1, FreshKept, PlacesKept
  <2>3. G \in SUBSET FrameOr0 /\ G \ {0} = G
    BY FrameSets DEF MemTypes
  <2>4. bitmap' = bitmap \union G
    <3> HIDE DEF G
    <3> QED BY <2>1, <2>3, GiveTypes
  <2>5. /\ \A h \in G : h \notin ktables /\ h \notin heap'
        /\ \A x \in Uses : FrameAt(x)' \notin G
        /\ \A v \in Contexts, i \in Nat : Fresh(v, i)' => got[v][i] \notin G
    BY <2>1, <2>2 DEF FramesApart, PoolsApart, UsesApart, FreshApart, FreshStay
  <2> HIDE DEF G
  <2> QED BY <2>1, <2>2, <2>4, <2>5, GivenApart
<1>15. CASE NoFrame
  <2>1. UNCHANGED <<bitmap, kernelVars, dir, tables, pte, locals>>
    BY <1>15 DEF NoFrame, spaces
  <2> QED BY <2>1, FreshKept, KeptApart
<1>16. ASSUME NEW t \in Tasks, PassPutFails(t) PROVE FramesApart'
  BY <1>16, PassPutFailsApart
<1>17. ASSUME NEW t \in Contexts, NEW u \in Tasks, NEW prog, CreateDir(t, u, prog) PROVE FramesApart'
  BY <1>17, CreateDirApart
<1> QED BY <1>0, <1>1, <1>2, <1>3, <1>4, <1>5, <1>6, <1>7, <1>8, <1>9, <1>10, <1>11, <1>12, <1>13,
           <1>14, <1>15, <1>16, <1>17 DEF SpaceNext

-----------------------------------------------------------------------------
(* The range of a MMAPAN stays its own.                                    *)

\* MMAPAN is not at work on v any more, or its range is what it was.
RangeStays(v) ==
    \/ pc'[v] \notin {"pass", "mget", "mput"}
    \/ /\ pc'[v] = pc[v] /\ got'[v] = got[v] /\ at'[v] = at[v] /\ mapped'[v] = mapped[v]
       /\ base_page'[v] = base_page[v] /\ npages'[v] = npages[v] /\ pte'[v] = pte[v]

LEMMA RangeKept ==
    ASSUME NEW v \in Tasks, Gap(v), RangeStays(v)
    PROVE  Gap(v)'
  BY DEF Gap, RangeStays

\* The other tasks keep their ranges, and what they are for.
LEMMA OtherRanges ==
    ASSUME MemTypes, LocalTypes, CallsRight, NEW t \in Contexts, OthersStay(t),
           \A v \in Contexts \ {t} :
              /\ base_page'[v] = base_page[v] /\ npages'[v] = npages[v] /\ mapped'[v] = mapped[v],
           \A v \in Tasks \ {t} : pte'[v] = pte[v] \/ (pc[t] \in Building /\ v = sub[t])
    PROVE  \A v \in Tasks \ {t} : RangeStays(v)
<1> SUFFICES ASSUME NEW v \in Tasks \ {t} PROVE RangeStays(v)
  OBVIOUS
<1>1. v \in Contexts
  BY SizesRight
<1>2. pc[t] \in Building /\ v = sub[t] => pc[v] = "none"
  BY DEF CallsRight, BuildsRight
<1> QED BY <1>1, <1>2 DEF OthersStay, RangeStays

\* An action that tears down, and one that builds.
LEMMA BuildRanges ==
    ASSUME MemTypes, LocalTypes, CallsRight, NEW t \in Contexts,
           \/ \E u \in Tasks : \E prog : CreateDir(t, u, prog)
           \/ ClearDir(t) \/ SetRec(t) \/ Collect(t) \/ CollectFails(t) \/ MapInRun(t)
           \/ MapInRunMisses(t) \/ ElfMap(t) \/ ElfWrite(t) \/ Start(t) \/ Abandon(t)
    PROVE  \A v \in Tasks : RangeStays(v)
<1>1. OthersStay(t)
  BY ActionsOfOne
<1>2. pc'[t] \notin {"pass", "mget", "mput"}
  <2>1. ASSUME CollectFails(t) \/ Abandon(t) \/ Start(t) PROVE pc'[t] \in {"user", "none"}
    BY <2>1 DEF CollectFails, Abandon, Start, Goto, Back, LocalTypes
  <2>2. ASSUME MapInRun(t) \/ MapInRunMisses(t) PROVE pc'[t] \in {"map", "load", "collect", "start"}
    BY <2>2 DEF MapInRun, MapInRunMisses, At, RunMapped, NextRun, Goto, LocalTypes
  <2>3. ASSUME ElfMap(t) \/ ElfWrite(t) PROVE pc'[t] \in {"write", "load", "collect", "start"}
    BY <2>3 DEF ElfMap, ElfWrite, NextRun, Goto, LocalTypes
  <2>4. ASSUME ClearDir(t) \/ SetRec(t) \/ Collect(t) PROVE pc'[t] \in {"rec", "collect", "map"}
    BY <2>4 DEF ClearDir, SetRec, Collect, Goto, LocalTypes
  <2>5. ASSUME NEW u \in Tasks, NEW prog, CreateDir(t, u, prog) PROVE pc'[t] = "clear"
    BY <2>5 DEF CreateDir, Goto, LocalTypes
  <2> QED BY <2>1, <2>2, <2>3, <2>4, <2>5
<1>3. \A v \in Contexts \ {t} :
         /\ base_page'[v] = base_page[v] /\ npages'[v] = npages[v] /\ mapped'[v] = mapped[v]
  <2>1. ASSUME CollectFails(t) \/ Abandon(t) \/ Start(t)
        PROVE  \A v \in Contexts \ {t} :
                  /\ base_page'[v] = base_page[v] /\ npages'[v] = npages[v] /\ mapped'[v] = mapped[v]
    BY <2>1 DEF CollectFails, Abandon, Start, Idle, LocalTypes
  <2>2. ASSUME \/ ClearDir(t) \/ SetRec(t) \/ Collect(t) \/ MapInRun(t)
               \/ MapInRunMisses(t) \/ ElfMap(t) \/ ElfWrite(t)
               \/ \E u \in Tasks : \E prog : CreateDir(t, u, prog)
        PROVE  UNCHANGED range
    BY <2>2 DEF ClearDir, SetRec, Collect, MapInRun, MapInRunMisses, ElfMap, ElfWrite, CreateDir
  <2> QED BY <2>1, <2>2 DEF range
<1>4. \A v \in Tasks \ {t} : pte'[v] = pte[v] \/ (pc[t] \in Building /\ v = sub[t])
  <2>1. ASSUME CollectFails(t) \/ Abandon(t)
        PROVE  pc[t] \in Building /\ \A v \in Tasks : v # sub[t] => pte'[v] = pte[v]
    BY <2>1 DEF CollectFails, Abandon, At, Destroyed, Cleared, MemTypes, Building
  <2>2. ASSUME MapInRun(t)
        PROVE  pc[t] \in Building /\ \A v \in Tasks : v # sub[t] => pte'[v] = pte[v]
    BY <2>2 DEF MapInRun, At, MapPage, MemTypes, Building
  <2>3. ASSUME \/ ClearDir(t) \/ SetRec(t) \/ Collect(t)
               \/ MapInRunMisses(t) \/ ElfMap(t) \/ ElfWrite(t) \/ Start(t)
               \/ \E u \in Tasks : \E prog : CreateDir(t, u, prog)
        PROVE  pte' = pte
    BY <2>3 DEF ClearDir, SetRec, Collect, MapInRunMisses, MapNothing, ElfMap, ElfWrite, Start,
                CreateDir, spaces
  <2> QED BY <2>1, <2>2, <2>3
<1>5. \A v \in Tasks \ {t} : RangeStays(v)
  BY <1>1, <1>3, <1>4, OtherRanges
<1> QED BY <1>2, <1>5 DEF RangeStays

\* The actions of MMAPAN and MUNMAP leave the other tasks' ranges alone.
LEMMA MmapanRanges ==
    ASSUME MemTypes, LocalTypes, CallsRight, NEW t \in Tasks,
           \/ \E hint, n : Mmapan(t, hint, n)
           \/ PassGet(t) \/ PassFails(t) \/ PassPut(t) \/ PassPutFails(t) \/ Undo(t) \/ Reap(t)
    PROVE  \A v \in Tasks \ {t} : RangeStays(v)
<1>0. t \in Contexts
  BY SizesRight
<1>1. OthersStay(t)
  BY <1>0, ActionsOfOne
<1>2. \A v \in Contexts \ {t} :
         /\ base_page'[v] = base_page[v] /\ npages'[v] = npages[v] /\ mapped'[v] = mapped[v]
  <2>1. ASSUME NEW hint, NEW n, Mmapan(t, hint, n)
        PROVE  \A v \in Contexts \ {t} :
                  /\ base_page'[v] = base_page[v] /\ npages'[v] = npages[v] /\ mapped'[v] = mapped[v]
    BY <2>1 DEF Mmapan, LocalTypes
  <2>2. ASSUME PassGet(t) \/ PassFails(t) \/ PassPutFails(t) \/ Reap(t) PROVE UNCHANGED range
    BY <2>2 DEF PassGet, PassFails, PassPutFails, Reap
  <2>3. ASSUME PassPut(t) \/ Undo(t)
        PROVE  \A v \in Contexts \ {t} :
                  /\ base_page'[v] = base_page[v] /\ npages'[v] = npages[v] /\ mapped'[v] = mapped[v]
    BY <2>3 DEF PassPut, PassDone, Undo, Idle, LocalTypes, range
  <2> QED BY <2>1, <2>2, <2>3 DEF range
<1>3. \A v \in Tasks \ {t} : pte'[v] = pte[v]
  <2>1. ASSUME PassPutFails(t) \/ Undo(t) \/ Reap(t) PROVE \A v \in Tasks \ {t} : pte'[v] = pte[v]
    BY <2>1 DEF PassPutFails, Undo, Reap, UnmapRunFree, Unmapped, Destroyed, Cleared, MemTypes
  <2>2. ASSUME PassPut(t) PROVE \A v \in Tasks \ {t} : pte'[v] = pte[v]
    BY <2>2 DEF PassPut, MapPage, MemTypes
  <2>3. ASSUME PassGet(t) \/ PassFails(t) \/ \E hint, n : Mmapan(t, hint, n) PROVE pte' = pte
    BY <2>3 DEF PassGet, PassFails, Mmapan, spaces
  <2> QED BY <2>1, <2>2, <2>3
<1> QED BY <1>0, <1>1, <1>2, <1>3, OtherRanges

\* What MUNMAP unmaps is not in the range of a MMAPAN.
LEMMA MunmapRanges ==
    ASSUME MemTypes, LocalTypes, NEW t \in Tasks, NEW p, NEW n, Munmap(t, p, n)
    PROVE  \A v \in Tasks : RangeStays(v)
<1>1. /\ pc[t] = "user" /\ UNCHANGED locals /\ t \in Contexts
      /\ \A v \in Tasks \ {t} : pte'[v] = pte[v]
  BY SizesRight DEF Munmap, At, UnmapRunFree, Unmapped, MemTypes
<1> QED BY <1>1 DEF RangeStays, locals, range

\* The page that vmm_map_zeroed_run maps is the first of those yet to map.
LEMMA PassPutGap ==
    ASSUME MemTypes, LocalTypes, CallsRight, NEW t \in Tasks, Gap(t), PassPut(t)
    PROVE  Gap(t)'
<1> DEFINE b == base_page[t]
           m == mapped[t]
           a == at[t]
           p == b + m + a
           g == got[t]
<1>1. pc[t] = "mput" /\ t \in Contexts
  BY SizesRight DEF PassPut, At
<1>2. /\ b \in Nat /\ m \in Nat /\ a \in Nat /\ npages[t] \in Nat
      /\ g \in Seq(AllFrames) /\ Len(g) \in Nat /\ a < Len(g)
  <2>1. LocalsRight(pc[t], sub[t], todo[t], g, a, b, npages[t], m)
    BY <1>1 DEF CallsRight
  <2> QED BY <1>1, <2>1, SizesRight DEF LocalsRight
<1>3. p \in UserPages /\ p \in Nat
  BY <1>1, PagesToMap, SizesRight
<1>4. \A q \in UserPages : pte'[t][q] = IF q = p THEN g[a + 1] ELSE pte[t][q]
  BY <1>3 DEF PassPut, MapPage, MemTypes
<1>5. /\ \A q \in UserPages : q >= p /\ q < b + npages[t] => pte[t][q] = 0
      /\ \A i \in 1..a : pte[t][b + m + i - 1] = g[i]
  BY <1>1 DEF Gap
<1>6. CASE a + 1 # Len(g)
  <2>1. /\ at'[t] = a + 1 /\ UNCHANGED <<pc, got, base_page, mapped, npages>>
    BY <1>1, <1>6 DEF PassPut, LocalTypes, range
  <2> HIDE DEF b, m, a, p, g
  <2>2. p = b + m + a /\ UserPages \subseteq Nat
    BY SizesRight DEF p
  <2>3. \A q \in UserPages : q >= b + m + (a + 1) /\ q < b + npages[t] => pte'[t][q] = 0
    <3> SUFFICES ASSUME NEW q \in UserPages, q >= b + m + (a + 1), q < b + npages[t]
                 PROVE  pte'[t][q] = 0
      OBVIOUS
    <3>1. q \in Nat
      BY <2>2
    <3>2. q >= p /\ q # p
      BY <1>2, <2>2, <3>1
    <3> QED BY <1>4, <1>5, <3>2
  <2>4. \A i \in 1..(a + 1) : pte'[t][b + m + i - 1] = g[i]
    <3> SUFFICES ASSUME NEW i \in 1..(a + 1) PROVE pte'[t][b + m + i - 1] = g[i]
      OBVIOUS
    <3>1. CASE i = a + 1
      <4>1. b + m + i - 1 = p
        BY <1>2, <2>2, <3>1
      <4> QED BY <1>3, <1>4, <3>1, <4>1
    <3>2. CASE i \in 1..a
      <4>1. b + m + i - 1 \in UserPages /\ b + m + i - 1 # p
        BY <1>2, <1>3, <2>2, <3>2, SizesRight
      <4> QED BY <1>4, <1>5, <3>2, <4>1
    <3> QED BY <1>2, <3>1, <3>2
  <2> QED BY <2>1, <2>3, <2>4 DEF Gap, b, m, a, g
<1>7. CASE a + 1 = Len(g)
  <2>1. CASE m + Len(g) = npages[t]
    BY <1>1, <1>7, <2>1 DEF PassPut, PassDone, Goto, LocalTypes, Gap
  <2>2. CASE m + Len(g) # npages[t]
    <3>1. /\ pc'[t] = "pass" /\ mapped'[t] = m + Len(g) /\ at'[t] = 0 /\ got'[t] = <<>>
          /\ base_page'[t] = b /\ npages'[t] = npages[t]
      BY <1>1, <1>7, <2>2 DEF PassPut, PassDone, Goto, LocalTypes
    <3> HIDE DEF b, m, a, p, g
    <3>2. p = b + m + a /\ UserPages \subseteq Nat
      BY SizesRight DEF p
    <3>3. \A q \in UserPages : q >= b + (m + Len(g)) + 0 /\ q < b + npages[t] => pte'[t][q] = 0
      <4> SUFFICES ASSUME NEW q \in UserPages, q >= b + (m + Len(g)) + 0, q < b + npages[t]
                   PROVE  pte'[t][q] = 0
        OBVIOUS
      <4>1. q \in Nat
        BY <3>2
      <4>2. q >= p /\ q # p
        BY <1>2, <1>7, <3>2, <4>1
      <4> QED BY <1>4, <1>5, <4>2
    <3> QED BY <3>1, <3>3 DEF Gap, b, m, g
  <2> QED BY <2>1, <2>2
<1> QED BY <1>6, <1>7

\* The range that MMAPAN chose stays unmapped until it maps it.
LEMMA GapStep ==
    ASSUME MemTypes, LocalTypes, CallsRight, GapRight, [SpaceNext]_spaceVars
    PROVE  GapRight'
<1>0. \A t \in Tasks : t \in Contexts
  BY SizesRight
<1>1. CASE UNCHANGED spaceVars
  BY <1>1 DEF GapRight, Gap, spaceVars, spaces, locals, range
<1>2. ASSUME \A v \in Tasks : RangeStays(v) PROVE GapRight'
  BY <1>2, RangeKept DEF GapRight
<1>3. ASSUME NEW t \in Tasks, Gap(t)', \A v \in Tasks \ {t} : RangeStays(v) PROVE GapRight'
  BY <1>3, RangeKept DEF GapRight
<1>4. ASSUME NEW t \in Contexts,
             \/ \E u \in Tasks, prog \in Programs \union InitPrograms : CreateDir(t, u, prog)
             \/ ClearDir(t) \/ SetRec(t) \/ Collect(t) \/ CollectFails(t) \/ MapInRun(t)
             \/ MapInRunMisses(t) \/ ElfMap(t) \/ ElfWrite(t) \/ Start(t) \/ Abandon(t)
      PROVE  GapRight'
  BY <1>2, <1>4, BuildRanges
<1>5. ASSUME NEW t \in Tasks, NEW hint \in UserPages, NEW n \in 1..NPages, Mmapan(t, hint, n)
      PROVE  GapRight'
  <2>1. PICK p \in FindFreeRun(t, hint, n) : base_page' = [base_page EXCEPT ![t] = p]
    BY <1>5 DEF Mmapan
  <2>2. /\ pc[t] = "user" /\ pc'[t] = "pass" /\ base_page'[t] = p /\ npages'[t] = n
        /\ mapped'[t] = mapped[t] /\ at'[t] = at[t] /\ pte' = pte
    BY <1>0, <1>5, <2>1 DEF Mmapan, At, Goto, LocalTypes, spaces
  <2>3. LocalsRight(pc[t], sub[t], todo[t], got[t], at[t], base_page[t], npages[t], mapped[t])
    BY <1>0 DEF CallsRight
  <2>4. mapped[t] = 0 /\ at[t] = 0
    BY <2>2, <2>3 DEF LocalsRight, Ranging
  <2>5. p \in Nat /\ \A q \in UserPages : q >= p /\ q < p + n => pte[t][q] = 0
    BY GapFound, SizesRight
  <2>6. Gap(t)'
    BY <2>2, <2>4, <2>5 DEF Gap
  <2> QED BY <1>3, <1>5, <2>6, MmapanRanges
<1>6. ASSUME NEW t \in Tasks, PassGet(t) PROVE GapRight'
  <2>1. /\ pc[t] \in {"pass", "mget"} /\ pc'[t] \in {"mput", "mget"} /\ pte' = pte
        /\ base_page' = base_page /\ npages' = npages /\ mapped' = mapped /\ at' = at
    BY <1>0, <1>6 DEF PassGet, At, Goto, LocalTypes, spaces, range
  <2>2. LocalsRight(pc[t], sub[t], todo[t], got[t], at[t], base_page[t], npages[t], mapped[t])
    BY <1>0 DEF CallsRight
  <2>3. at[t] = 0
    BY <2>1, <2>2 DEF LocalsRight
  <2>4. Gap(t)
    BY DEF GapRight
  <2>5. \A q \in UserPages :
           q >= base_page'[t] + mapped'[t] + at'[t] /\ q < base_page'[t] + npages'[t] => pte'[t][q] = 0
    BY <2>1, <2>4 DEF Gap
  <2>6. Gap(t)'
    BY <2>1, <2>3, <2>5 DEF Gap
  <2> QED BY <1>3, <1>6, <2>6, MmapanRanges
<1>7. ASSUME NEW t \in Tasks, PassPut(t) PROVE GapRight'
  <2>1. Gap(t)'
    BY <1>7, PassPutGap DEF GapRight
  <2> QED BY <1>3, <1>7, <2>1, MmapanRanges
<1>8. ASSUME NEW t \in Tasks, PassFails(t) \/ PassPutFails(t) \/ Undo(t) \/ Reap(t) PROVE GapRight'
  <2>1. pc'[t] \in {"undo", "user", "none"}
    BY <1>0, <1>8 DEF PassFails, PassPutFails, Undo, Reap, Goto, LocalTypes
  <2>2. Gap(t)'
    BY <2>1 DEF Gap
  <2> QED BY <1>3, <1>8, <2>2, MmapanRanges
<1>9. ASSUME NEW t \in Tasks, NEW p, NEW n, Munmap(t, p, n) PROVE GapRight'
  BY <1>2, <1>9, MunmapRanges
<1>10. ASSUME HeapTake \/ NoFrame \/ \E f \in heap : HeapGive(f) PROVE GapRight'
  <2>1. UNCHANGED <<spaces, locals>>
    BY <1>10 DEF HeapTake, NoFrame, HeapGive
  <2> QED BY <2>1 DEF GapRight, Gap, spaces, locals, range
<1> QED BY <1>1, <1>4, <1>5, <1>6, <1>7, <1>8, <1>9, <1>10 DEF SpaceNext, NPages

LEMMA BootApart ==
    ASSUME SpaceInit, MemTypes, LocalTypes
    PROVE  FramesApart /\ GapRight
<1>1. \A x \in Uses : FrameAt(x) = 0
  BY PagesHaveTables DEF SpaceInit, Uses, FrameAt
<1>2. 0 \notin bitmap \union ktables \union heap
  BY DEF MemTypes, AllFrames
<1>3. \A v \in Contexts, i \in Nat : ~Fresh(v, i)
  BY DEF SpaceInit, Fresh
<1>4. PoolsApart
  BY DEF SpaceInit, PoolsApart
<1>5. \A t \in Tasks : t \in Contexts /\ pc[t] = "none"
  BY SizesRight DEF SpaceInit
<1> QED BY <1>1, <1>2, <1>3, <1>4, <1>5 DEF FramesApart, UsesApart, FreshApart, GapRight, Gap

-----------------------------------------------------------------------------
(* What the invariant says.                                                *)

SpaceInv == MemTypes /\ LocalTypes /\ CallsRight /\ FramesApart /\ GapRight

LEMMA SpaceInvInductive == SpaceSpec => []SpaceInv
<1>1. SpaceInit => SpaceInv
  BY BootRight, BootApart DEF SpaceInv
<1>2. SpaceInv /\ [SpaceNext]_spaceVars => SpaceInv'
  BY CallsStep, MemTypesStep, ApartStep, GapStep DEF SpaceInv
<1> QED BY <1>1, <1>2, PTL DEF SpaceSpec

\* There are finitely many places for a frame.
LEMMA FinitePlaces == IsFiniteSet(Uses)
<1> DEFINE D == {<<"dir", u>> : u \in Tasks}
           T == {<<"table", u, k>> : u \in Tasks, k \in Pdes}
           P == {<<"page", u, p>> : u \in Tasks, p \in UserPages}
<1>1. IsFiniteSet(Tasks) /\ IsFiniteSet(Pdes) /\ IsFiniteSet(UserPages)
  <2>1. NPde - 1 \in Int /\ NPages - 1 \in Int
    BY SpaceAssumption, SizesRight DEF SpaceAssumption
  <2> QED BY <2>1, FS_Interval, SpaceAssumption, SizesRight DEF SpaceAssumption, Pdes
<1>2. IsFiniteSet(D)
  <2>1. [u \in Tasks |-> <<"dir", u>>] \in [Tasks -> D]
    OBVIOUS
  <2>2. \A y \in D : \E u \in Tasks : [v \in Tasks |-> <<"dir", v>>][u] = y
    OBVIOUS
  <2> HIDE DEF D
  <2> QED BY <1>1, <2>1, <2>2, ImageFinite
<1>3. IsFiniteSet(T)
  <2> DEFINE f == [x \in Tasks \X Pdes |-> <<"table", x[1], x[2]>>]
  <2>1. f \in [Tasks \X Pdes -> T]
    OBVIOUS
  <2>2. \A y \in T : \E x \in Tasks \X Pdes : f[x] = y
    <3> SUFFICES ASSUME NEW y \in T PROVE \E x \in Tasks \X Pdes : f[x] = y
      OBVIOUS
    <3>1. PICK u \in Tasks, k \in Pdes : y = <<"table", u, k>>
      OBVIOUS
    <3> WITNESS <<u, k>> \in Tasks \X Pdes
    <3> QED BY <3>1
  <2>3. IsFiniteSet(Tasks \X Pdes)
    BY <1>1, FS_Product
  <2> HIDE DEF T, f
  <2> QED BY <2>1, <2>2, <2>3, ImageFinite
<1>4. IsFiniteSet(P)
  <2> DEFINE f == [x \in Tasks \X UserPages |-> <<"page", x[1], x[2]>>]
  <2>1. f \in [Tasks \X UserPages -> P]
    OBVIOUS
  <2>2. \A y \in P : \E x \in Tasks \X UserPages : f[x] = y
    <3> SUFFICES ASSUME NEW y \in P PROVE \E x \in Tasks \X UserPages : f[x] = y
      OBVIOUS
    <3>1. PICK u \in Tasks, p \in UserPages : y = <<"page", u, p>>
      OBVIOUS
    <3> WITNESS <<u, p>> \in Tasks \X UserPages
    <3> QED BY <3>1
  <2>3. IsFiniteSet(Tasks \X UserPages)
    BY <1>1, FS_Product
  <2> HIDE DEF P, f
  <2> QED BY <2>1, <2>2, <2>3, ImageFinite
<1>5. Uses = (D \union T) \union P
  BY DEF Uses
<1> HIDE DEF D, T, P
<1> QED BY <1>2, <1>3, <1>4, <1>5, FS_Union

\* What a call carries is what it has collected and not mapped.
LEMMA CarriedFresh ==
    ASSUME LocalTypes
    PROVE  \A t \in Contexts : \A f : f \in Carried(t) <=> \E i \in Nat : Fresh(t, i) /\ got[t][i] = f
<1> SUFFICES ASSUME NEW t \in Contexts
             PROVE  \A f : f \in Carried(t) <=> \E i \in Nat : Fresh(t, i) /\ got[t][i] = f
  OBVIOUS
<1>1. DOMAIN got[t] \subseteq Nat
  BY DEF LocalTypes
<1> QED BY <1>1 DEF Carried, Fresh

LEMMA ApartOwnsOnce ==
    ASSUME SpaceInv
    PROVE  FramesOwnedOnce
<1> USE DEF SpaceInv
<1>1. SpaceTypeOK
  BY TypeParts
<1>2. Cardinality(InSpaces) = Cardinality({x \in Uses : FrameAt(x) # 0})
  <2> DEFINE S == {x \in Uses : FrameAt(x) # 0}
             f == [x \in S |-> FrameAt(x)]
  <2>1. S \in SUBSET Uses
    OBVIOUS
  <2>2. IsFiniteSet(S)
    <3> HIDE DEF S
    <3> QED BY <2>1, FinitePlaces, FS_Subset
  <2>3. f \in [S -> InSpaces] /\ \A y \in InSpaces : \E x \in S : f[x] = y
    BY DEF InSpaces
  <2>4. \A x, y \in S : f[x] = f[y] => x = y
    BY DEF FramesApart, UsesApart
  <2>5. Cardinality(InSpaces) = Cardinality(S)
    <3> HIDE DEF S, f
    <3> QED BY <2>2, <2>3, <2>4, ImageFinite
  <2> QED BY <2>5
<1>3. InSpaces \cap (bitmap \union ktables \union heap) = {}
  BY DEF InSpaces, FramesApart, UsesApart
<1>4. bitmap \cap (ktables \union heap) = {} /\ ktables \cap heap = {}
  BY DEF FramesApart, PoolsApart
<1>5. (UNION {Carried(t) : t \in Contexts}) \cap (InSpaces \union bitmap \union ktables \union heap) = {}
  <2>1. ASSUME NEW t \in Contexts, NEW f \in Carried(t)
        PROVE  f \notin InSpaces \union bitmap \union ktables \union heap
    <3>1. PICK i \in Nat : Fresh(t, i) /\ got[t][i] = f
      BY CarriedFresh
    <3> QED BY <3>1 DEF FramesApart, FreshApart, InSpaces
  <2> DEFINE Others == InSpaces \union bitmap \union ktables \union heap
             All == UNION {Carried(t) : t \in Contexts}
  <2>2. \A f \in All : f \notin Others
    BY <2>1
  <2> HIDE DEF Others, All
  <2>3. All \cap Others = {}
    BY <2>2
  <2> QED BY <2>3 DEF Others, All
<1>6. \A t, u \in Contexts : t # u => Carried(t) \cap Carried(u) = {}
  <2> SUFFICES ASSUME NEW t \in Contexts, NEW u \in Contexts, t # u, NEW f \in Carried(t),
                      f \in Carried(u)
               PROVE  FALSE
    OBVIOUS
  <2>1. PICK i \in Nat : Fresh(t, i) /\ got[t][i] = f
    BY CarriedFresh
  <2>2. PICK j \in Nat : Fresh(u, j) /\ got[u][j] = f
    BY CarriedFresh
  <2> QED BY <2>1, <2>2 DEF FramesApart, FreshApart
<1> QED BY <1>1, <1>2, <1>3, <1>4, <1>5, <1>6 DEF FramesOwnedOnce

\* A frame has one owner at any time: pmm_allocp never hands out one that a
\* directory, a table, a page, the kernel or a call in progress still has.
THEOREM FramesStayOwned == SpaceSpec => []FramesOwnedOnce
  BY SpaceInvInductive, ApartOwnsOnce, PTL

\* A step unmaps pages of u, or leaves them.
OnlyUnmaps(u) == \A p \in UserPages : pte'[u][p] \in {pte[u][p], 0}

LEMMA OnlyPuts ==
    ASSUME SpaceInv, [SpaceNext]_spaceVars, NEW u \in Tasks, pc[u] \in {"pass", "mget", "mput"},
           ~PassPut(u)
    PROVE  OnlyUnmaps(u)
<1> USE DEF SpaceInv
<1>1. CASE UNCHANGED spaceVars
  BY <1>1 DEF spaceVars, spaces, OnlyUnmaps
<1>2. ASSUME NEW t \in Contexts,
             \/ \E v \in Tasks, prog \in Programs \union InitPrograms : CreateDir(t, v, prog)
             \/ ClearDir(t) \/ SetRec(t) \/ Collect(t) \/ MapInRunMisses(t)
             \/ ElfMap(t) \/ ElfWrite(t) \/ Start(t)
      PROVE  OnlyUnmaps(u)
  BY <1>2 DEF CreateDir, ClearDir, SetRec, Collect, MapInRunMisses, MapNothing, ElfMap, ElfWrite,
              Start, spaces, OnlyUnmaps
<1>3. ASSUME NEW t \in Contexts, CollectFails(t) \/ Abandon(t) PROVE OnlyUnmaps(u)
  BY <1>3 DEF CollectFails, Abandon, Destroyed, Cleared, MemTypes, OnlyUnmaps
<1>4. ASSUME NEW t \in Contexts, MapInRun(t) PROVE OnlyUnmaps(u)
  <2>1. pc[t] = "map"
    BY <1>4 DEF MapInRun, At
  <2>2. sub[t] # u
    BY <2>1 DEF CallsRight, BuildsRight, Building
  <2> QED BY <1>4, <2>2 DEF MapInRun, MapPage, MemTypes, OnlyUnmaps
<1>5. ASSUME NEW t \in Tasks,
             \/ \E hint \in UserPages, n \in 1..NPages : Mmapan(t, hint, n)
             \/ PassGet(t) \/ PassFails(t)
      PROVE  OnlyUnmaps(u)
  BY <1>5 DEF Mmapan, PassGet, PassFails, spaces, OnlyUnmaps
<1>6. ASSUME NEW t \in Tasks, PassPut(t) PROVE OnlyUnmaps(u)
  <2>1. t # u
    BY <1>6
  <2> QED BY <1>6, <2>1 DEF PassPut, MapPage, MemTypes, OnlyUnmaps
<1>7. ASSUME NEW t \in Tasks, NEW p, NEW n, Unmapped(t, p, n) PROVE OnlyUnmaps(u)
  BY <1>7 DEF Unmapped, MemTypes, OnlyUnmaps
<1>8. ASSUME NEW t \in Tasks, Reap(t) PROVE OnlyUnmaps(u)
  BY <1>8 DEF Reap, Destroyed, Cleared, MemTypes, OnlyUnmaps
<1>9. ASSUME HeapTake \/ NoFrame \/ \E f \in heap : HeapGive(f) PROVE OnlyUnmaps(u)
  BY <1>9 DEF HeapTake, NoFrame, HeapGive, spaces, OnlyUnmaps
<1> QED BY <1>1, <1>2, <1>3, <1>4, <1>5, <1>6, <1>7, <1>8, <1>9
        DEF SpaceNext, NPages, PassPutFails, Undo, Munmap, UnmapRunFree

LEMMA PutsInTheGap ==
    ASSUME SpaceInv, NEW u \in Tasks, PassPut(u), NEW p \in UserPages, pte[u][p] # 0
    PROVE  pte'[u][p] = pte[u][p]
<1> USE DEF SpaceInv
<1> DEFINE q == base_page[u] + mapped[u] + at[u]
<1>1. pc[u] = "mput" /\ u \in Contexts
  BY SizesRight DEF PassPut, At
<1>2. q \in UserPages
  BY <1>1, PagesToMap
<1>3. q < base_page[u] + npages[u]
  <2>1. LocalsRight(pc[u], sub[u], todo[u], got[u], at[u], base_page[u], npages[u], mapped[u])
    BY <1>1 DEF CallsRight
  <2>2. Len(got[u]) <= npages[u] - mapped[u]
    BY <1>1, <2>1, ChunkRight DEF LocalsRight, Chunk, Ranging
  <2>3. /\ at[u] \in Nat /\ at[u] < Len(got[u]) /\ npages[u] \in Nat /\ Len(got[u]) \in Nat
        /\ base_page[u] \in Nat /\ mapped[u] \in Nat
    BY <1>1, <2>1, SizesRight DEF LocalsRight
  <2> QED BY <2>2, <2>3
<1>4. pte[u][q] = 0
  <2>1. Gap(u) /\ q \in Nat
    BY <1>2, SizesRight DEF GapRight
  <2> QED BY <1>1, <1>2, <1>3, <2>1 DEF Gap
<1>5. pte' = [pte EXCEPT ![u][q] = got[u][at[u] + 1]]
  BY DEF PassPut, MapPage
<1>6. p # q
  BY <1>4
<1> HIDE DEF q
<1> QED BY <1>5, <1>6 DEF MemTypes

LEMMA MapsNothingOver ==
    ASSUME SpaceInv, [SpaceNext]_spaceVars, NEW u \in Tasks, NEW p \in UserPages,
           pte[u][p] # 0, pc[u] \in {"pass", "mget", "mput"}
    PROVE  pte'[u][p] \in {pte[u][p], 0}
  BY OnlyPuts, PutsInTheGap DEF OnlyUnmaps

\* MMAPAN keeps to pages that nobody has mapped: whatever runs between its
\* choosing a range and its last pass, a page that is mapped stays or goes.
THEOREM MmapanOverNothing == SpaceSpec => MapsOverNothing
<1>1. SpaceInv /\ [SpaceNext]_spaceVars =>
         [\A u \in Tasks, p \in UserPages :
             pte[u][p] # 0 /\ pc[u] \in {"pass", "mget", "mput"}
               => pte'[u][p] \in {pte[u][p], 0}]_spaceVars
  BY MapsNothingOver
<1> QED BY <1>1, SpaceInvInductive, PTL DEF SpaceSpec, MapsOverNothing

-----------------------------------------------------------------------------
(* No frame is forgotten.                                                  *)

\* A space that no task has and none builds has no directory.
NoDirLeft == \A u \in Tasks : pc[u] = "none" /\ (\A v \in Contexts : sub[v] # u) => dir[u] = 0

LEMMA NoDirLeftStep ==
    ASSUME SpaceInv, NoDirLeft, [SpaceNext]_spaceVars
    PROVE  NoDirLeft'
<1> USE DEF SpaceInv
<1>0. \A t \in Tasks : t \in Contexts
  BY SizesRight
<1> SUFFICES ASSUME NEW u \in Tasks, pc'[u] = "none", \A v \in Contexts : sub'[v] # u
             PROVE  dir'[u] = 0
  BY DEF NoDirLeft
<1>2. ASSUME UNCHANGED <<pc, sub, dir>> PROVE dir'[u] = 0
  BY <1>2 DEF NoDirLeft
<1>3. ASSUME NEW t \in Contexts, NEW w \in Tasks, NEW prog, CreateDir(t, w, prog) PROVE dir'[u] = 0
  <2>1. /\ pc[t] = "user" /\ pc'[t] = "clear" /\ (u # t => pc'[u] = pc[u]) /\ sub'[t] = w
        /\ \A v \in Contexts \ {t} : sub'[v] = sub[v]
    BY <1>0, <1>3 DEF CreateDir, At, Goto, LocalTypes
  <2>2. sub[t] = Kernel
    BY <2>1 DEF CallsRight, LocalsRight, Building, Contexts
  <2>3. u # t /\ u # w /\ u # Kernel
    BY <2>1, SizesRight
  <2>4. dir[u] = 0
    BY <2>1, <2>2, <2>3 DEF NoDirLeft
  <2> QED BY <1>3, <2>3, <2>4 DEF CreateDir, MemTypes
<1>4. ASSUME NEW t \in Contexts, CollectFails(t) \/ Abandon(t) PROVE dir'[u] = 0
  <2>1. /\ pc[t] # "none" /\ pc' = [pc EXCEPT ![t] = IF t = Kernel THEN "none" ELSE "user"]
        /\ dir' = [dir EXCEPT ![sub[t]] = 0] /\ sub' = [sub EXCEPT ![t] = Kernel]
    BY <1>4 DEF CollectFails, Abandon, At, Goto, Back, Idle, Destroyed, Cleared
  <2>2. u # t /\ pc[u] = "none"
    BY <1>0, <2>1, SizesRight DEF LocalTypes
  <2>3. u # sub[t] => dir[u] = 0
    BY <2>1, <2>2 DEF NoDirLeft, LocalTypes
  <2> QED BY <2>1, <2>3 DEF MemTypes
<1>5. ASSUME NEW t \in Contexts, Start(t) PROVE dir'[u] = 0
  <2>1. /\ pc[t] = "start" /\ pc' = [pc EXCEPT ![t] = Back(t), ![sub[t]] = "user"]
        /\ sub' = [sub EXCEPT ![t] = Kernel] /\ dir' = dir
    BY <1>5 DEF Start, At, Idle, spaces
  <2>2. u # sub[t] /\ (u # t => pc[u] = "none") /\ u # t
    BY <1>0, <2>1, SizesRight DEF LocalTypes, Back
  <2>3. \A v \in Contexts : sub[v] # u
    BY <2>1, <2>2 DEF LocalTypes
  <2> QED BY <2>1, <2>2, <2>3 DEF NoDirLeft
<1>6. ASSUME NEW t \in Tasks, Reap(t) PROVE dir'[u] = 0
  <2>1. /\ dir' = [dir EXCEPT ![t] = 0] /\ sub' = sub /\ pc' = [pc EXCEPT ![t] = "none"]
    BY <1>6 DEF Reap, Goto, Destroyed, Cleared
  <2>2. u # t => dir[u] = 0
    BY <1>0, <2>1 DEF NoDirLeft, LocalTypes
  <2> QED BY <2>1, <2>2 DEF MemTypes
<1>7. ASSUME NEW t \in Contexts, pc[t] \in Ranging, NEW q, q # "none", Goto(t, q), Idle(t), dir' = dir
      PROVE  dir'[u] = 0
  <2>1. sub[t] = Kernel
    BY <1>7 DEF CallsRight, LocalsRight, Building, Ranging, Contexts
  <2>2. u # t /\ pc[u] = "none" /\ \A v \in Contexts : sub[v] # u
    BY <1>0, <1>7, <2>1, SizesRight DEF Goto, Idle, LocalTypes
  <2> QED BY <1>7, <2>2 DEF NoDirLeft
<1>8. ASSUME NEW t \in Contexts, NEW q, q # "none", Goto(t, q), sub' = sub, dir' = dir
      PROVE  dir'[u] = 0
  <2>1. u # t /\ pc[u] = "none"
    BY <1>0, <1>8 DEF Goto, LocalTypes
  <2> QED BY <1>8, <2>1 DEF NoDirLeft
<1>9. ASSUME NEW t \in Contexts, ClearDir(t) \/ SetRec(t) \/ Collect(t) \/ ElfMap(t) PROVE dir'[u] = 0
  BY <1>8, <1>9 DEF ClearDir, SetRec, Collect, ElfMap, spaces
<1>10. ASSUME NEW t \in Contexts, MapInRun(t) \/ MapInRunMisses(t) PROVE dir'[u] = 0
  <2>1. sub' = sub /\ dir' = dir /\ (pc' = pc \/ Goto(t, "load") \/ Goto(t, "start") \/ Goto(t, "collect"))
    BY <1>10 DEF MapInRun, MapInRunMisses, RunMapped, NextRun
  <2> QED BY <1>2, <1>8, <2>1
<1>11. ASSUME NEW t \in Contexts, ElfWrite(t) PROVE dir'[u] = 0
  <2>1. sub' = sub /\ dir' = dir /\ (Goto(t, "load") \/ Goto(t, "start") \/ Goto(t, "collect"))
    BY <1>11 DEF ElfWrite, NextRun, spaces
  <2> QED BY <1>8, <2>1
<1>12. ASSUME NEW t \in Tasks, \/ \E hint \in UserPages, n \in 1..NPages : Mmapan(t, hint, n)
                               \/ PassGet(t) \/ PassFails(t) \/ PassPutFails(t)
       PROVE  dir'[u] = 0
  <2>1. sub' = sub /\ dir' = dir
    BY <1>12 DEF Mmapan, PassGet, PassFails, PassPutFails, spaces
  <2>2. \E q \in {"pass", "mput", "mget", "undo"} : Goto(t, q)
    BY <1>12 DEF Mmapan, PassGet, PassFails, PassPutFails
  <2> QED BY <1>0, <1>8, <2>1, <2>2
<1>13. ASSUME NEW t \in Tasks, PassPut(t) PROVE dir'[u] = 0
  <2>1. pc[t] \in Ranging /\ dir' = dir
    BY <1>13 DEF PassPut, At, Ranging
  <2>2. \/ Goto(t, "user") /\ Idle(t)
        \/ Goto(t, "pass") /\ sub' = sub
        \/ UNCHANGED <<pc, sub>>
    BY <1>13 DEF PassPut, PassDone
  <2> QED BY <1>0, <1>2, <1>7, <1>8, <2>1, <2>2
<1>14. ASSUME NEW t \in Tasks, Undo(t) PROVE dir'[u] = 0
  <2>1. pc[t] \in Ranging /\ dir' = dir /\ Goto(t, "user") /\ Idle(t)
    BY <1>14 DEF Undo, At, Ranging
  <2> QED BY <1>0, <1>7, <2>1
<1>15. ASSUME \/ UNCHANGED spaceVars \/ HeapTake \/ NoFrame \/ \E f \in heap : HeapGive(f)
              \/ \E t \in Tasks : \E p, n : Munmap(t, p, n)
       PROVE  dir'[u] = 0
  <2>1. UNCHANGED <<pc, sub, dir>>
    BY <1>15 DEF HeapTake, NoFrame, HeapGive, Munmap, spaceVars, spaces, locals
  <2> QED BY <1>2, <2>1
<1> QED BY <1>3, <1>4, <1>5, <1>6, <1>9, <1>10, <1>11, <1>12, <1>13, <1>14, <1>15
           DEF SpaceNext, NPages

\* Somebody knows of frame f.
Placed(f) == \E x \in Uses : FrameAt(x) = f
Carries(t, f) == \E i \in Nat : Fresh(t, i) /\ got[t][i] = f
Known(f) == \/ f \in bitmap \/ f \in ktables \/ f \in heap \/ Placed(f)
            \/ \E t \in Contexts : Carries(t, f)

LEMMA LostIsUnknown == SpaceInv => Lost = {f \in ram : ~Known(f)}
<1> SUFFICES ASSUME SpaceInv PROVE Lost = {f \in ram : ~Known(f)}
  OBVIOUS
<1> USE DEF SpaceInv
<1>1. \A f \in ram : f # 0
  BY DEF MemTypes, AllFrames
<1>2. \A f \in ram : f \in InSpaces <=> Placed(f)
  BY <1>1 DEF InSpaces, Placed
<1> DEFINE C == UNION {Carried(t) : t \in Contexts}
<1>3. \A f : f \in C <=> \E t \in Contexts : Carries(t, f)
  BY CarriedFresh DEF Carries
<1> HIDE DEF C
<1>4. ram \ (bitmap \union InSpaces \union ktables \union heap \union C) = {f \in ram : ~Known(f)}
  BY <1>2, <1>3 DEF Known
<1> QED BY <1>4 DEF Lost, C

\* What a step of t does to the frames that are free, in a space or carried by t.
Keeps(t, f) == f \in bitmap \/ Placed(f) \/ Carries(t, f)

LEMMA KnownByOne ==
    ASSUME UNCHANGED kernelVars, NEW t \in Contexts, OthersStay(t), NEW f,
           Keeps(t, f)' <=> Keeps(t, f)
    PROVE  Known(f)' <=> Known(f)
<1>1. \A v \in Contexts \ {t}, i \in Nat : Fresh(v, i)' <=> Fresh(v, i)
  BY DEF OthersStay, Fresh
<1>2. \A v \in Contexts \ {t} : Carries(v, f)' <=> Carries(v, f)
  BY <1>1 DEF OthersStay, Carries
<1>3. (f \in ktables' <=> f \in ktables) /\ (f \in heap' <=> f \in heap)
  BY DEF kernelVars
<1>4. (\E v \in Contexts : Carries(v, f)') <=> Carries(t, f)' \/ \E v \in Contexts \ {t} : Carries(v, f)'
  OBVIOUS
<1> QED BY <1>2, <1>3, <1>4 DEF Known, Keeps, Contexts

\* A call that carries nothing.
LEMMA CarriesNone ==
    ASSUME LocalTypes, CallsRight, NEW t \in Contexts,
           pc[t] \notin {"collect", "mget", "map", "mput"}
    PROVE  \A f : ~Carries(t, f)
  BY DEF Carries, Fresh

LEMMA CarriesNoneAfter ==
    ASSUME NEW t \in Contexts, \A i \in Nat : ~Fresh(t, i)'
    PROVE  \A f : ~Carries(t, f)'
  BY DEF Carries

\* The frames that are collected are carried, until the first is mapped.
LEMMA CarriesAll ==
    ASSUME LocalTypes, CallsRight, NEW t \in Contexts, pc[t] \in {"collect", "pass", "mget"}
    PROVE  \A f : Carries(t, f) <=> f \in Elems(got[t])
<1>1. got[t] \in Seq(AllFrames) /\ (pc[t] = "pass" => got[t] = <<>>)
  BY DEF LocalTypes, CallsRight, LocalsRight
<1> QED BY <1>1 DEF Carries, Fresh, Elems

LEMMA PlacedKept ==
    ASSUME UNCHANGED <<dir, tables, pte>>
    PROVE  \A f : Placed(f)' <=> Placed(f)
<1>1. \A x \in Uses : FrameAt(x)' = FrameAt(x)
  BY PlacesKept
<1> QED BY <1>1 DEF Placed, Uses

LEMMA QuietKeeps ==
    ASSUME SpaceInv, LocalTypes', NEW t \in Contexts,
           \/ ClearDir(t) \/ SetRec(t) \/ ElfMap(t) \/ ElfWrite(t) \/ Start(t)
           \/ \E hint, n : Mmapan(t, hint, n)
    PROVE  \A f : Keeps(t, f)' <=> Keeps(t, f)
<1> USE DEF SpaceInv
<1>1. UNCHANGED <<bitmap, dir, tables, pte>>
  BY DEF ClearDir, SetRec, ElfMap, ElfWrite, Start, Mmapan, pmmVars, spaces
<1>2. pc[t] \notin {"collect", "mget", "map", "mput"}
  BY DEF ClearDir, SetRec, ElfMap, ElfWrite, Start, Mmapan, At
<1>3. \A i \in Nat : ~Fresh(t, i)'
  <2>1. \A i \in Nat : ~Fresh(t, i)
    BY <1>2 DEF Fresh
  <2>2. ASSUME NEW hint, NEW n, Mmapan(t, hint, n) PROVE pc'[t] = "pass"
    BY <2>2 DEF Mmapan, Goto, LocalTypes
  <2>3. FreshStay \/ pc'[t] = "pass"
    BY <2>2, QuietStepsFresh
  <2> QED BY <2>1, <2>3, NotFresh DEF FreshStay
<1> QED BY <1>1, <1>2, <1>3, CarriesNone, CarriesNoneAfter, PlacedKept DEF Keeps

LEMMA CreateDirKeeps ==
    ASSUME SpaceInv, LocalTypes', NoDirLeft, NEW t \in Contexts, NEW u \in Tasks, NEW prog,
           CreateDir(t, u, prog), NEW f, f # 0
    PROVE  Keeps(t, f)' <=> Keeps(t, f)
<1> USE DEF SpaceInv
<1>1. PICK g \in Fit : Take(g) /\ dir' = [dir EXCEPT ![u] = g]
  BY DEF CreateDir
<1>2. g \in bitmap /\ bitmap' = bitmap \ {g}
  BY <1>1, FitIsFree DEF Take
<1>3. \A x \in Uses : FrameAt(x)' = IF x = <<"dir", u>> THEN g ELSE FrameAt(x)
  BY <1>1 DEF CreateDir, MemTypes, FrameAt, Uses
<1>4. dir[u] = 0 /\ <<"dir", u>> \in Uses /\ FrameAt(<<"dir", u>>) = dir[u]
  BY PlacesInSpaces DEF CreateDir, NoDirLeft
<1>5. Placed(f)' <=> Placed(f) \/ f = g
  BY <1>3, <1>4 DEF Placed, Uses
<1>6. pc[t] = "user" /\ pc'[t] = "clear"
  BY DEF CreateDir, At, Goto, LocalTypes
<1>7. ~Carries(t, f) /\ ~Carries(t, f)'
  BY <1>6, CarriesNone, NotFresh, CarriesNoneAfter
<1> QED BY <1>2, <1>5, <1>7 DEF Keeps

LEMMA CollectKeeps ==
    ASSUME SpaceInv, LocalTypes', CallsRight', NEW t \in Contexts, Collect(t) \/ PassGet(t), NEW f
    PROVE  Keeps(t, f)' <=> Keeps(t, f)
<1> USE DEF SpaceInv
<1>1. PICK g \in Fit : Take(g) /\ got' = [got EXCEPT ![t] = Append(@, g)]
  BY DEF Collect, PassGet
<1>2. g \in bitmap /\ bitmap' = bitmap \ {g} /\ UNCHANGED <<dir, tables, pte>>
  BY <1>1, FitIsFree DEF Take, Collect, PassGet, spaces
<1>3. /\ pc[t] \in {"collect", "pass", "mget"} /\ pc'[t] \in {"collect", "map", "mget", "mput"}
      /\ at'[t] = at[t]
  BY DEF Collect, PassGet, At, Goto, LocalTypes
<1>4. at[t] = 0
  BY <1>3 DEF CallsRight, LocalsRight
<1>5. got[t] \in Seq(AllFrames) /\ got'[t] = Append(got[t], g)
  BY <1>1 DEF LocalTypes
<1>6. /\ DOMAIN got'[t] = 1..(Len(got[t]) + 1) /\ DOMAIN got[t] = 1..Len(got[t])
      /\ \A i \in DOMAIN got'[t] : got'[t][i] = IF i = Len(got[t]) + 1 THEN g ELSE got[t][i]
  BY <1>5
<1>7. Carries(t, f)' <=> f \in Elems(got'[t])
  BY <1>3, <1>4, <1>6 DEF Carries, Fresh, Elems
<1>8. f \in Elems(got'[t]) <=> f \in Elems(got[t]) \/ f = g
  BY <1>5, <1>6 DEF Elems
<1>9. Carries(t, f) <=> f \in Elems(got[t])
  BY <1>3, CarriesAll
<1> QED BY <1>2, <1>7, <1>8, <1>9, PlacedKept DEF Keeps

\* The frames of a space that is destroyed are free again.
LEMMA DestroyKeeps ==
    ASSUME SpaceInv, NEW t \in Contexts, NEW u \in Tasks, NEW c \in Nat, NEW F \in SUBSET FrameOr0,
           Destroyed(u, c, F), \A h : Carries(t, h) <=> h \in F, \A i \in Nat : ~Fresh(t, i)',
           NEW f, f # 0
    PROVE  Keeps(t, f)' <=> Keeps(t, f)
<1> USE DEF SpaceInv
<1>1. GiveBack(c, F \union SpaceFrames(u)) /\ Cleared(u)
  BY DEF Destroyed, SpaceFrames
<1>2. bitmap' = bitmap \union ((F \union SpaceFrames(u)) \ {0})
  <2>1. F \union SpaceFrames(u) \in SUBSET FrameOr0
    BY SpaceFramesType
  <2> QED BY <1>1, <2>1, GiveTypes
<1>3. Placed(f)' <=> \E x \in Uses : x[2] # u /\ FrameAt(x) = f
  <2>1. \A x \in Uses : FrameAt(x)' = IF x[2] = u THEN 0 ELSE FrameAt(x)
    BY <1>1, ClearedPlaces
  <2> QED BY <2>1 DEF Placed, Uses
<1>4. f \in SpaceFrames(u) <=> \E x \in Uses : x[2] = u /\ FrameAt(x) = f
  BY PlacesOfSpace
<1>5. ~Carries(t, f)'
  BY CarriesNoneAfter
<1> QED BY <1>2, <1>3, <1>4, <1>5 DEF Keeps, Placed

\* Unmapped pages lose the frames that F gets back.
LEMMA UnmapKeeps ==
    ASSUME SpaceInv, NEW t \in Tasks, NEW p, NEW n, UnmapRunFree(t, p, n),
           UNCHANGED <<dir, tables>>, NEW f, f # 0
    PROVE  f \in bitmap' \/ Placed(f)' <=> f \in bitmap \/ Placed(f)
<1> USE DEF SpaceInv
<1> DEFINE P == {r \in UserPages : r >= p /\ r < p + n}
           F == {pte[t][q] : q \in P} \ {0}
<1>1. bitmap' = bitmap \union F
  <2>1. F \in SUBSET FrameOr0 /\ next_free_page \in Nat /\ GiveBack(next_free_page, F) /\ F \ {0} = F
    BY DEF MemTypes, UnmapRunFree
  <2> HIDE DEF F
  <2> QED BY <2>1, GiveTypes
<1>2. /\ \A v \in Tasks \ {t} : pte'[v] = pte[v]
      /\ \A q \in UserPages : pte'[t][q] = IF q >= p /\ q < p + n THEN 0 ELSE pte[t][q]
  BY UnmappedPlaces DEF UnmapRunFree
<1>3. \A x \in Uses : FrameAt(x)' =
         IF x[1] = "page" /\ x[2] = t /\ x[3] \in P THEN 0 ELSE FrameAt(x)
  BY <1>2 DEF FrameAt, Uses
<1>4. \A x \in Uses : x[1] = "page" /\ x[2] = t /\ x[3] \in P /\ FrameAt(x) # 0 => FrameAt(x) \in F
  BY DEF FrameAt, Uses
<1>5. f \in F => \E x \in Uses : x[1] = "page" /\ x[2] = t /\ x[3] \in P /\ FrameAt(x) = f
  <2> SUFFICES ASSUME NEW q \in P, f = pte[t][q]
               PROVE  \E x \in Uses : x[1] = "page" /\ x[2] = t /\ x[3] \in P /\ FrameAt(x) = f
    OBVIOUS
  <2>1. <<"page", t, q>> \in Uses /\ FrameAt(<<"page", t, q>>) = f
    BY PlacesInSpaces
  <2> QED BY <2>1
<1> HIDE DEF P, F
<1>6. Placed(f)' \/ f \in F <=> Placed(f)
  <2>1. ASSUME Placed(f) PROVE Placed(f)' \/ f \in F
    BY <1>3, <1>4, <2>1 DEF Placed, Uses
  <2>2. ASSUME Placed(f)' PROVE Placed(f)
    BY <1>3, <2>2 DEF Placed, Uses
  <2> QED BY <1>5, <2>1, <2>2 DEF Placed
<1> QED BY <1>1, <1>6

LEMMA PassFailsKeeps ==
    ASSUME SpaceInv, LocalTypes', NEW t \in Tasks, PassFails(t), NEW f
    PROVE  Keeps(t, f)' <=> Keeps(t, f)
<1> USE DEF SpaceInv
<1>1. /\ t \in Contexts /\ pc[t] \in {"pass", "mget"} /\ got'[t] = <<>>
      /\ UNCHANGED <<dir, tables, pte>>
  BY SizesRight DEF PassFails, At, LocalTypes, spaces
<1> DEFINE G == Elems(got[t])
<1>2. G \in SUBSET FrameOr0 /\ G \ {0} = G
  BY <1>1, FrameSets DEF LocalTypes, Elems
<1>3. GiveBack(0, G)
  BY DEF PassFails
<1>4. f \in G <=> Carries(t, f)
  BY <1>1, CarriesAll
<1> HIDE DEF G
<1>5. bitmap' = bitmap \union G
  BY <1>2, <1>3, GiveTypes
<1>6. ~Carries(t, f)'
  BY <1>1, NotFresh, CarriesNoneAfter
<1> QED BY <1>1, <1>4, <1>5, <1>6, PlacedKept DEF Keeps

\* vmm_map takes a table that was missing, and fills a page that was free.
LEMMA MapPlaces ==
    ASSUME SpaceInv, NEW u \in Tasks, NEW p \in UserPages, NEW h, MapPage(u, p, h),
           dir' = dir, pte[u][p] = 0, NEW f, f # 0
    PROVE  f \in bitmap' \/ Placed(f)' <=> f \in bitmap \/ Placed(f) \/ f = h
<1> USE DEF SpaceInv
<1> DEFINE xp == <<"page", u, p>>
           xt == <<"table", u, PdeOf(p)>>
<1>1. /\ xp \in Uses /\ xt \in Uses /\ xp # xt /\ PdeOf(p) \in Pdes
      /\ FrameAt(xp) = 0 /\ FrameAt(xt) = tables[u][PdeOf(p)]
  BY PlacesInSpaces, PagesHaveTables
<1>2. pte' = [pte EXCEPT ![u][p] = h]
  BY DEF MapPage
<1>3. CASE ~NeedsTable(u, p)
  <2>1. bitmap' = bitmap /\ tables' = tables
    BY <1>3 DEF MapPage
  <2>2. \A x \in Uses : FrameAt(x)' = IF x = xp THEN h ELSE FrameAt(x)
    BY <1>2, <2>1 DEF MemTypes, FrameAt, Uses
  <2> HIDE DEF xp, xt
  <2> QED BY <1>1, <2>1, <2>2 DEF Placed, Uses
<1>4. CASE NeedsTable(u, p)
  <2>1. PICK g \in Fit : Take(g) /\ tables' = [tables EXCEPT ![u][PdeOf(p)] = g]
    BY <1>4 DEF MapPage
  <2>2. g \in bitmap /\ bitmap' = bitmap \ {g} /\ FrameAt(xt) = 0
    BY <1>1, <1>4, <2>1, FitIsFree DEF Take, NeedsTable
  <2>3. \A x \in Uses : FrameAt(x)' = IF x = xp THEN h ELSE IF x = xt THEN g ELSE FrameAt(x)
    BY <1>1, <1>2, <2>1 DEF MemTypes, FrameAt, Uses
  <2> HIDE DEF xp, xt
  <2> QED BY <1>1, <2>2, <2>3 DEF Placed, Uses
<1> QED BY <1>3, <1>4

LEMMA PassPutKeeps ==
    ASSUME SpaceInv, LocalTypes', NEW t \in Tasks, PassPut(t), NEW f, f # 0
    PROVE  Keeps(t, f)' <=> Keeps(t, f)
<1> USE DEF SpaceInv
<1>1. /\ pc[t] = "mput" /\ t \in Contexts /\ dir' = dir
      /\ MapPage(t, base_page[t] + mapped[t] + at[t], got[t][at[t] + 1])
  BY SizesRight DEF PassPut, At
<1>2. PICK p \in UserPages : p = base_page[t] + mapped[t] + at[t]
  BY <1>1, PagesToMap
<1>3. pte[t][p] = 0
  <2>1. LocalsRight(pc[t], sub[t], todo[t], got[t], at[t], base_page[t], npages[t], mapped[t])
    BY <1>1 DEF CallsRight
  <2>2. Len(got[t]) <= npages[t] - mapped[t]
    BY <1>1, <2>1, ChunkRight DEF LocalsRight, Chunk, Ranging
  <2>3. /\ at[t] \in Nat /\ at[t] < Len(got[t]) /\ npages[t] \in Nat /\ Len(got[t]) \in Nat
        /\ base_page[t] \in Nat /\ mapped[t] \in Nat
    BY <1>1, <2>1, SizesRight DEF LocalsRight
  <2>4. p < base_page[t] + npages[t] /\ p \in Nat
    BY <1>2, <2>2, <2>3
  <2> QED BY <1>1, <1>2, <2>4 DEF GapRight, Gap
<1>4. PICK k \in Nat : k = at[t] + 1 /\ Fresh(t, k) /\ ~Fresh(t, k)'
  BY PassPutFresh
<1>5. \A i \in Nat : i # k => (Fresh(t, i)' <=> Fresh(t, i)) /\ (Fresh(t, i) => got'[t][i] = got[t][i])
  <2>1. got[t] \in Seq(AllFrames) /\ at[t] \in Nat
    BY <1>1 DEF LocalTypes
  <2>2. CASE at[t] + 1 = Len(got[t])
    <3>1. \A i \in Nat : Fresh(t, i) => i = k
      BY <1>1, <1>4, <2>1, <2>2 DEF Fresh
    <3>2. got'[t] = <<>>
      BY <1>1, <2>2 DEF PassPut, PassDone, Idle, LocalTypes
    <3>3. \A i \in Nat : ~Fresh(t, i)'
      BY <1>1, <3>2, NotFresh
    <3> QED BY <3>1, <3>3
  <2>3. CASE at[t] + 1 # Len(got[t])
    <3>1. at'[t] = k /\ pc' = pc /\ got' = got
      BY <1>1, <1>4, <2>3 DEF PassPut, LocalTypes
    <3> QED BY <1>1, <1>4, <2>1, <3>1 DEF Fresh
  <2> QED BY <2>2, <2>3
<1>6. Carries(t, f) <=> Carries(t, f)' \/ f = got[t][k]
  BY <1>4, <1>5 DEF Carries
<1>7. MapPage(t, p, got[t][k])
  BY <1>1, <1>2, <1>4
<1>8. f \in bitmap' \/ Placed(f)' <=> f \in bitmap \/ Placed(f) \/ f = got[t][k]
  BY <1>1, <1>3, <1>7, MapPlaces
<1> QED BY <1>6, <1>8 DEF Keeps

LEMMA PassPutFailsKeeps ==
    ASSUME SpaceInv, LocalTypes', NEW t \in Tasks, PassPutFails(t), NEW f, f # 0
    PROVE  Keeps(t, f)' <=> Keeps(t, f)
<1> USE DEF SpaceInv
<1> DEFINE G == Elems(got[t])
           b == base_page[t] + mapped[t]
           P == {q \in UserPages : q >= b /\ q < b + Len(got[t])}
<1>1. /\ pc[t] = "mput" /\ t \in Contexts /\ got'[t] = <<>> /\ UNCHANGED <<dir, tables>>
      /\ Unmapped(t, b, Len(got[t])) /\ GiveBack(0, G)
  BY SizesRight DEF PassPutFails, At, LocalTypes
<1>2. /\ got[t] \in Seq(AllFrames) /\ at[t] \in Nat /\ at[t] < Len(got[t]) /\ b \in Nat
      /\ b + Len(got[t]) <= base_page[t] + npages[t] /\ b + Len(got[t]) <= NPages
  <2>1. LocalsRight(pc[t], sub[t], todo[t], got[t], at[t], base_page[t], npages[t], mapped[t])
    BY <1>1 DEF CallsRight
  <2>2. Len(got[t]) <= npages[t] - mapped[t]
    BY <1>1, <2>1, ChunkRight DEF LocalsRight, Chunk, Ranging
  <2>3. /\ got[t] \in Seq(AllFrames) /\ at[t] \in Nat /\ at[t] < Len(got[t]) /\ npages[t] \in Nat
        /\ base_page[t] \in Nat /\ mapped[t] \in Nat /\ base_page[t] + npages[t] <= NPages
    BY <1>1, <2>1, SizesRight DEF LocalsRight, Ranging
  <2>4. Len(got[t]) \in Nat
    BY <2>3
  <2>5. b \in Nat /\ b + Len(got[t]) <= base_page[t] + npages[t]
    BY <2>2, <2>3, <2>4
  <2>6. b + Len(got[t]) <= NPages
    <3> HIDE DEF b
    <3> QED BY <2>3, <2>4, <2>5, SizesRight
  <2> QED BY <2>3, <2>5, <2>6
<1>3. bitmap' = bitmap \union G
  <2>1. G \in SUBSET FrameOr0 /\ G \ {0} = G
    BY <1>2, FrameSets DEF Elems
  <2> HIDE DEF G
  <2> QED BY <1>1, <2>1, GiveTypes
<1>4. \A q \in P : pte[t][q] = 0 \/ pte[t][q] \in G
  <2> SUFFICES ASSUME NEW q \in P PROVE pte[t][q] = 0 \/ pte[t][q] \in G
    OBVIOUS
  <2>1. q \in Nat /\ q >= b /\ q < b + Len(got[t]) /\ q \in UserPages
    BY SizesRight
  <2>2. Gap(t)
    BY DEF GapRight
  <2>3. CASE q >= b + at[t]
    <3>1. q >= base_page[t] + mapped[t] + at[t] /\ q < base_page[t] + npages[t]
      <4>1. base_page[t] + npages[t] \in Nat
        <5>1. base_page[t] \in UserPages /\ npages[t] \in Nat
          BY <1>1 DEF LocalTypes
        <5> QED BY <5>1, SizesRight
      <4>2. q < base_page[t] + npages[t]
        <5> HIDE DEF b
        <5> QED BY <1>2, <2>1, <4>1
      <4> QED BY <2>3, <4>2
    <3> QED BY <1>1, <2>1, <2>2, <3>1 DEF Gap
  <2>4. CASE q < b + at[t]
    <3>1. PICK i \in 1..at[t] : i = q - b + 1
      <4> HIDE DEF b
      <4> QED BY <1>2, <2>1, <2>4
    <3>2. b + i - 1 = q
      <4> HIDE DEF b
      <4> QED BY <1>2, <2>1, <3>1
    <3>3. pte[t][q] = got[t][i]
      BY <1>1, <2>2, <3>2 DEF Gap
    <3>4. i \in DOMAIN got[t]
      BY <1>2
    <3> QED BY <3>3, <3>4 DEF Elems
  <2> QED
    <3> HIDE DEF b
    <3> QED BY <1>2, <2>1, <2>3, <2>4
<1>5. \A i \in 1..at[t] : \E q \in P : pte[t][q] = got[t][i]
  <2> SUFFICES ASSUME NEW i \in 1..at[t] PROVE \E q \in P : pte[t][q] = got[t][i]
    OBVIOUS
  <2>1. pte[t][b + i - 1] = got[t][i]
    BY <1>1 DEF GapRight, Gap
  <2>2. b + i - 1 \in P
    <3> HIDE DEF b
    <3> QED BY <1>2, SizesRight
  <2> QED BY <2>1, <2>2
<1>6. f \in G <=> Carries(t, f) \/ \E i \in 1..at[t] : got[t][i] = f
  BY <1>1, <1>2 DEF Carries, Fresh, Elems
<1>7. \A x \in Uses : FrameAt(x)' =
         IF x[1] = "page" /\ x[2] = t /\ x[3] \in P THEN 0 ELSE FrameAt(x)
  <2>1. /\ \A v \in Tasks \ {t} : pte'[v] = pte[v]
        /\ \A q \in UserPages : pte'[t][q] = IF q >= b /\ q < b + Len(got[t]) THEN 0 ELSE pte[t][q]
    <3> HIDE DEF b
    <3> QED BY <1>1, UnmappedPlaces
  <2> QED BY <1>1, <2>1 DEF FrameAt, Uses
<1>8. \A q \in P : <<"page", t, q>> \in Uses /\ FrameAt(<<"page", t, q>>) = pte[t][q]
  BY PlacesInSpaces
<1>9. \A x \in Uses : x[1] = "page" /\ x[2] = t /\ x[3] \in P => FrameAt(x) = pte[t][x[3]]
  BY DEF FrameAt, Uses
<1>10. ~Carries(t, f)'
  BY <1>1, NotFresh, CarriesNoneAfter
<1> HIDE DEF G, b, P
<1>11. Placed(f) => Placed(f)' \/ f \in G
  BY <1>4, <1>7, <1>9 DEF Placed, Uses
<1>12. Placed(f)' => Placed(f)
  BY <1>7 DEF Placed, Uses
<1>13. f \in G => Carries(t, f) \/ Placed(f)
  BY <1>5, <1>6, <1>8 DEF Placed
<1>14. Carries(t, f) => f \in G
  BY <1>6
<1> QED BY <1>3, <1>10, <1>11, <1>12, <1>13, <1>14 DEF Keeps

\* Outside of vmm_map_in_run, every step knows what becomes of its frames.
LEMMA KnownStep ==
    ASSUME SpaceInv, SpaceInv', NoDirLeft, [SpaceNext]_spaceVars, \A t \in Contexts : pc[t] # "map",
           NEW f, f # 0
    PROVE  Known(f)' <=> Known(f)
<1> USE DEF SpaceInv
<1>0. /\ \A t \in Tasks : t \in Contexts
      /\ \A t \in Contexts : pc[t] \in Building => sub[t] \in Tasks
  BY SizesRight DEF CallsRight, LocalsRight
<1>1. ASSUME UNCHANGED <<bitmap, kernelVars, dir, tables, pte, locals>> PROVE Known(f)' <=> Known(f)
  <2>1. \A t \in Contexts, i \in Nat : (Fresh(t, i)' <=> Fresh(t, i)) /\ got'[t] = got[t]
    BY <1>1 DEF Fresh, locals
  <2>2. \A t \in Contexts : Carries(t, f)' <=> Carries(t, f)
    BY <2>1 DEF Carries
  <2> QED BY <1>1, <2>2, PlacedKept DEF Known, kernelVars, Contexts
<1>2. ASSUME NEW t \in Contexts, UNCHANGED kernelVars, OthersStay(t), Keeps(t, f)' <=> Keeps(t, f)
      PROVE  Known(f)' <=> Known(f)
  BY <1>2, KnownByOne
<1>3. ASSUME NEW t \in Contexts,
             \/ ClearDir(t) \/ SetRec(t) \/ ElfMap(t) \/ ElfWrite(t) \/ Start(t)
             \/ t \in Tasks /\ \E hint, n : Mmapan(t, hint, n)
      PROVE  Known(f)' <=> Known(f)
  <2>1. UNCHANGED kernelVars
    BY <1>3 DEF ClearDir, SetRec, ElfMap, ElfWrite, Start, Mmapan
  <2>2. OthersStay(t)
    BY <1>3, ActionsOfOne
  <2>3. Keeps(t, f)' <=> Keeps(t, f)
    BY <1>3, QuietKeeps
  <2> QED BY <1>2, <2>1, <2>2, <2>3
<1>4. ASSUME NEW t \in Contexts, NEW u \in Tasks, NEW prog, CreateDir(t, u, prog)
      PROVE  Known(f)' <=> Known(f)
  <2>1. UNCHANGED kernelVars
    BY <1>4 DEF CreateDir
  <2> QED BY <1>2, <1>4, <2>1, ActionsOfOne, CreateDirKeeps
<1>5. ASSUME NEW t \in Contexts, Collect(t) \/ (t \in Tasks /\ PassGet(t)) PROVE Known(f)' <=> Known(f)
  <2>1. UNCHANGED kernelVars
    BY <1>5 DEF Collect, PassGet
  <2> QED BY <1>2, <1>5, <2>1, ActionsOfOne, CollectKeeps
<1>6. ASSUME NEW t \in Contexts, CollectFails(t) \/ Abandon(t) \/ (t \in Tasks /\ Reap(t))
      PROVE  Known(f)' <=> Known(f)
  <2>1. UNCHANGED kernelVars
    BY <1>6 DEF CollectFails, Abandon, Reap
  <2>2. OthersStay(t)
    BY <1>6, ActionsOfOne
  <2>3. \A i \in Nat : ~Fresh(t, i)'
    <3>1. got'[t] = <<>> \/ pc'[t] = "none"
      BY <1>6 DEF CollectFails, Abandon, Reap, Idle, Goto, LocalTypes
    <3> QED BY <3>1, NotFresh
  <2>4. {} \in SUBSET FrameOr0 /\ next_free_page \in Nat /\ 0 \in Nat
    BY DEF MemTypes
  <2>5. CASE CollectFails(t)
    <3>1. pc[t] = "collect" /\ sub[t] \in Tasks /\ Destroyed(sub[t], 0, Elems(got[t]))
      BY <1>0, <2>5 DEF CollectFails, At, Building
    <3>2. Elems(got[t]) \in SUBSET FrameOr0
      BY FrameSets DEF LocalTypes, Elems
    <3>3. \A h : Carries(t, h) <=> h \in Elems(got[t])
      BY <3>1, CarriesAll
    <3>4. Keeps(t, f)' <=> Keeps(t, f)
      BY <2>3, <2>4, <3>1, <3>2, <3>3, DestroyKeeps
    <3> QED BY <1>2, <2>1, <2>2, <3>4
  <2>6. CASE Abandon(t)
    <3>1. pc[t] = "start" /\ sub[t] \in Tasks /\ Destroyed(sub[t], next_free_page, {})
      BY <1>0, <2>6 DEF Abandon, At, Building
    <3>2. \A h : Carries(t, h) <=> h \in {}
      BY <3>1, CarriesNone
    <3>3. Keeps(t, f)' <=> Keeps(t, f)
      BY <2>3, <2>4, <3>1, <3>2, DestroyKeeps
    <3> QED BY <1>2, <2>1, <2>2, <3>3
  <2>7. CASE t \in Tasks /\ Reap(t)
    <3>1. pc[t] = "user" /\ Destroyed(t, next_free_page, {})
      BY <2>7 DEF Reap, At
    <3>2. \A h : Carries(t, h) <=> h \in {}
      BY <3>1, CarriesNone
    <3>3. Keeps(t, f)' <=> Keeps(t, f)
      BY <2>3, <2>4, <2>7, <3>1, <3>2, DestroyKeeps
    <3> QED BY <1>2, <2>1, <2>2, <3>3
  <2> QED BY <1>6, <2>5, <2>6, <2>7
<1>7. ASSUME NEW t \in Tasks, PassFails(t) \/ PassPut(t) \/ PassPutFails(t)
      PROVE  Known(f)' <=> Known(f)
  <2>1. UNCHANGED kernelVars
    BY <1>7 DEF PassFails, PassPut, PassPutFails
  <2>2. OthersStay(t)
    BY <1>0, <1>7, ActionsOfOne
  <2>3. Keeps(t, f)' <=> Keeps(t, f)
    BY <1>7, PassFailsKeeps, PassPutKeeps, PassPutFailsKeeps
  <2> QED BY <1>0, <1>2, <2>1, <2>2, <2>3
<1>8. ASSUME NEW t \in Tasks, Undo(t) \/ \E p, n : Munmap(t, p, n) PROVE Known(f)' <=> Known(f)
  <2>1. /\ UNCHANGED <<kernelVars, dir, tables>> /\ pc[t] \in {"undo", "user"}
        /\ \E p, n : UnmapRunFree(t, p, n)
    BY <1>8 DEF Undo, Munmap, At
  <2>2. OthersStay(t) /\ pc'[t] = "user"
    <3>1. ASSUME Undo(t) PROVE OthersStay(t) /\ pc'[t] = "user"
      BY <1>0, <3>1, ActionsOfOne DEF Undo, Goto, LocalTypes
    <3>2. ASSUME NEW p, NEW n, Munmap(t, p, n) PROVE OthersStay(t) /\ pc'[t] = "user"
      BY <3>2 DEF Munmap, At, OthersStay, locals
    <3> QED BY <1>8, <3>1, <3>2
  <2>3. f \in bitmap' \/ Placed(f)' <=> f \in bitmap \/ Placed(f)
    <3>1. PICK p, n : UnmapRunFree(t, p, n)
      BY <2>1
    <3> QED BY <2>1, <3>1, UnmapKeeps
  <2>4. ~Carries(t, f) /\ ~Carries(t, f)'
    <3>1. \A i \in Nat : ~Fresh(t, i)'
      BY <1>0, <2>2, NotFresh
    <3> QED BY <1>0, <2>1, <3>1, CarriesNone, CarriesNoneAfter
  <2> QED BY <1>0, <1>2, <2>1, <2>2, <2>3, <2>4 DEF Keeps
<1>9. ASSUME HeapTake \/ \E h \in heap : HeapGive(h) PROVE Known(f)' <=> Known(f)
  <2>1. UNCHANGED <<dir, tables, pte, locals>> /\ ktables' = ktables
    BY <1>9 DEF HeapTake, HeapGive, spaces
  <2>2. f \in bitmap' \/ f \in heap' <=> f \in bitmap \/ f \in heap
    <3>1. ASSUME HeapTake PROVE f \in bitmap' \/ f \in heap' <=> f \in bitmap \/ f \in heap
      BY <3>1, FitIsFree DEF HeapTake, Take
    <3>2. ASSUME NEW h \in heap, HeapGive(h)
          PROVE  f \in bitmap' \/ f \in heap' <=> f \in bitmap \/ f \in heap
      <4>1. {h} \in SUBSET FrameOr0 /\ next_free_page \in Nat /\ h # 0
        BY FrameSets DEF MemTypes
      <4>2. bitmap' = bitmap \union ({h} \ {0}) /\ heap' = heap \ {h}
        BY <3>2, <4>1, GiveTypes DEF HeapGive
      <4> QED BY <4>1, <4>2
    <3> QED BY <1>9, <3>1, <3>2
  <2>3. \A t \in Contexts, i \in Nat : (Fresh(t, i)' <=> Fresh(t, i)) /\ got'[t] = got[t]
    BY <2>1 DEF Fresh, locals
  <2>4. \A t \in Contexts : Carries(t, f)' <=> Carries(t, f)
    BY <2>3 DEF Carries
  <2> QED BY <2>1, <2>2, <2>4, PlacedKept DEF Known, Contexts
<1>10. ASSUME UNCHANGED spaceVars \/ NoFrame PROVE Known(f)' <=> Known(f)
  <2>1. UNCHANGED <<bitmap, kernelVars, dir, tables, pte, locals>>
    BY <1>10 DEF spaceVars, pmmVars, spaces, NoFrame
  <2> QED BY <1>1, <2>1
<1>11. \A t \in Contexts : ~MapInRun(t) /\ ~MapInRunMisses(t)
  BY DEF MapInRun, MapInRunMisses, At
<1> QED BY <1>0, <1>3, <1>4, <1>5, <1>6, <1>7, <1>8, <1>9, <1>10, <1>11 DEF SpaceNext

LEMMA NothingLost ==
    ASSUME SpaceInv, SpaceInv', NoDirLeft, [SpaceNext]_spaceVars, \A t \in Contexts : pc[t] # "map"
    PROVE  Lost' = Lost
<1>1. Lost = {f \in ram : ~Known(f)}
  BY LostIsUnknown
<1>2. (Lost = {f \in ram : ~Known(f)})'
  BY LostIsUnknown, PTL
<1>3. Lost' = {f \in ram' : ~Known(f)'}
  BY <1>2
<1>4. ram' = ram
  BY
     DEF SpaceNext, spaceVars, pmmVars, bootVars, CreateDir, ClearDir, SetRec, Collect, CollectFails,
         MapInRun, MapInRunMisses, ElfMap, ElfWrite, Start, Abandon, Mmapan, PassGet, PassFails,
         PassPut, PassPutFails, Undo, Munmap, Reap, HeapTake, HeapGive, NoFrame
<1>5. \A f \in ram : f # 0
  BY DEF SpaceInv, MemTypes, AllFrames
<1>6. \A f \in ram : Known(f)' <=> Known(f)
  BY <1>5, KnownStep
<1> QED BY <1>1, <1>3, <1>4, <1>6

\* pmm_allocp finds a frame if there is one.
LEMMA FitFound ==
    ASSUME MemTypes, bitmap # {}
    PROVE  Fit # {}
<1> DEFINE above == {f \in bitmap : f >= next_free_page}
<1>1. bitmap \in SUBSET Nat /\ above \in SUBSET Nat /\ next_free_page \in Nat
  <2>1. bitmap \subseteq AllFrames /\ next_free_page \in Nat
    BY DEF MemTypes
  <2> QED BY <2>1, FrameSets
<1>2. CASE above # {}
  <2>1. PICK f \in above : \A g \in above : f <= g
    <3> HIDE DEF above
    <3> QED BY <1>1, <1>2, LeastNumber
  <2>2. \A g \in bitmap : g < f => g < next_free_page /\ f >= next_free_page
    BY <1>1, <2>1
  <2> QED BY <2>1, <2>2 DEF Fit, FreeFrom
<1>3. CASE above = {}
  <2>1. PICK f \in bitmap : \A g \in bitmap : f <= g
    BY <1>1, LeastNumber
  <2>2. \A g \in bitmap : g < next_free_page
    BY <1>1, <1>3
  <2>3. \A g \in bitmap : ~(g < f)
    BY <1>1, <2>1
  <2> QED BY <2>1, <2>2, <2>3 DEF Fit, FreeFrom
<1> QED BY <1>2, <1>3

\* Who leaves the place where t is.
LEMMA OnlyOwnSteps ==
    ASSUME SpaceInv, [SpaceNext]_spaceVars, NEW t \in Contexts, pc'[t] # pc[t],
           pc[t] \in {"collect", "pass", "mget", "undo"}
    PROVE  \/ Collect(t) \/ CollectFails(t)
           \/ t \in Tasks /\ (PassGet(t) \/ PassFails(t) \/ Undo(t))
<1> USE DEF SpaceInv
<1>1. \A u \in Contexts \ {t} : ~OthersStay(u)
  BY DEF OthersStay
<1>2. ~(UNCHANGED locals)
  BY DEF locals
<1>3. ~(UNCHANGED spaceVars) /\ ~HeapTake /\ ~NoFrame /\ \A f \in heap : ~HeapGive(f)
  BY <1>2 DEF spaceVars, HeapTake, NoFrame, HeapGive
<1>4. \A u \in Tasks : \A p, n : ~Munmap(u, p, n)
  BY <1>2 DEF Munmap
<1>5. ASSUME NEW u \in Contexts,
             \/ \E v \in Tasks, prog \in Programs \union InitPrograms : CreateDir(u, v, prog)
             \/ ClearDir(u) \/ SetRec(u) \/ Collect(u) \/ CollectFails(u) \/ MapInRun(u)
             \/ MapInRunMisses(u) \/ ElfMap(u) \/ ElfWrite(u) \/ Start(u) \/ Abandon(u)
      PROVE  Collect(t) \/ CollectFails(t)
  <2>1. OthersStay(u)
    BY <1>5, ActionsOfOne
  <2>2. u = t
    BY <1>1, <2>1
  <2> QED BY <1>5, <2>2 DEF CreateDir, ClearDir, SetRec, MapInRun, MapInRunMisses, ElfMap, ElfWrite,
                            Start, Abandon, At
<1>6. ASSUME NEW u \in Tasks,
             \/ \E hint \in UserPages, n \in 1..NPages : Mmapan(u, hint, n)
             \/ PassGet(u) \/ PassFails(u) \/ PassPut(u) \/ PassPutFails(u) \/ Undo(u) \/ Reap(u)
      PROVE  t \in Tasks /\ (PassGet(t) \/ PassFails(t) \/ Undo(t))
  <2>1. u \in Contexts
    BY SizesRight
  <2>2. OthersStay(u)
    BY <1>6, <2>1, ActionsOfOne
  <2>3. u = t
    BY <1>1, <2>1, <2>2
  <2> QED BY <1>6, <2>3 DEF Mmapan, PassPut, PassPutFails, Reap, At
<1> QED BY <1>3, <1>4, <1>5, <1>6 DEF SpaceNext, NPages

\* A call fails when no frame is free, and not otherwise.
LEMMA FailsWhenEmpty ==
    ASSUME SpaceInv, [SpaceNext]_spaceVars, NEW t \in Contexts,
           pc[t] \in {"collect", "pass", "mget"}, pc'[t] \in {"user", "undo", "none"}
    PROVE  bitmap = {}
<1> USE DEF SpaceInv
<1>1. pc'[t] # pc[t]
  OBVIOUS
<1>2. \/ Collect(t) \/ CollectFails(t)
      \/ t \in Tasks /\ (PassGet(t) \/ PassFails(t) \/ Undo(t))
  BY <1>1, OnlyOwnSteps
<1>3. ~Collect(t) /\ ~PassGet(t) /\ ~Undo(t)
  BY DEF Collect, PassGet, Undo, At, Goto, LocalTypes
<1>4. Fit = {}
  BY <1>2, <1>3 DEF CollectFails, PassFails
<1> QED BY <1>4, FitFound

\* What the earlier passes mapped is unmapped.
LEMMA UndoesAll ==
    ASSUME SpaceInv, [SpaceNext]_spaceVars, NEW t \in Contexts, pc[t] = "undo", pc'[t] = "user",
           NEW p \in base_page[t]..(base_page[t] + mapped[t] - 1)
    PROVE  pte'[t][p] = 0
<1> USE DEF SpaceInv
<1>1. t \in Tasks /\ Undo(t)
  <2>1. pc'[t] # pc[t] /\ ~Collect(t) /\ ~CollectFails(t) /\ ~PassGet(t) /\ ~PassFails(t)
    BY DEF Collect, CollectFails, PassGet, PassFails, At
  <2> QED BY <2>1, OnlyOwnSteps
<1>2. LocalsRight(pc[t], sub[t], todo[t], got[t], at[t], base_page[t], npages[t], mapped[t])
  BY DEF CallsRight
<1>3. /\ base_page[t] \in Nat /\ mapped[t] \in Nat /\ npages[t] \in Nat /\ mapped[t] < npages[t]
      /\ base_page[t] + npages[t] <= NPages
  BY <1>2, SizesRight DEF LocalsRight, Ranging
<1>4. p \in UserPages /\ p >= base_page[t] /\ p < base_page[t] + mapped[t]
  BY <1>3, SizesRight
<1> QED BY <1>1, <1>4, UnmappedPlaces DEF Undo, UnmapRunFree

LEMMA BootNoDir == SpaceInit => NoDirLeft
  BY DEF SpaceInit, NoDirLeft

\* A call that fails for want of memory fails when there is none, MMAPAN unmaps
\* what it had mapped, and no step but one of vmm_map_in_run loses a frame: every
\* frame of the machine is free, in a space, the kernel's, or carried by a call.
THEOREM MemoryIsConserved == SpaceSpec => FailsCleanly
<1>1. SpaceInit => SpaceInv /\ NoDirLeft
  BY BootRight, BootApart, BootNoDir DEF SpaceInv
<1>2. SpaceInv /\ NoDirLeft /\ [SpaceNext]_spaceVars => (SpaceInv /\ NoDirLeft)'
  BY CallsStep, MemTypesStep, ApartStep, GapStep, NoDirLeftStep DEF SpaceInv
<1>3. SpaceInv /\ SpaceInv' /\ NoDirLeft /\ [SpaceNext]_spaceVars =>
         [/\ Lost' # Lost => \E t \in Contexts : pc[t] = "map"
          /\ \A t \in Contexts :
                /\ pc[t] \in {"collect", "pass", "mget"} /\ pc'[t] \in {"user", "undo", "none"}
                      => bitmap = {}
                /\ pc[t] = "undo" /\ pc'[t] = "user"
                      => \A p \in base_page[t]..(base_page[t] + mapped[t] - 1) :
                            pte'[t][p] = 0]_spaceVars
  BY NothingLost, FailsWhenEmpty, UndoesAll
<1> QED BY <1>1, <1>2, <1>3, PTL DEF SpaceSpec, FailsCleanly
=============================================================================
