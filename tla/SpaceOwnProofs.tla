--------------------------- MODULE SpaceOwnProofs ---------------------------
(***************************************************************************)
(* Every address space is its task's own: while no tick falls into a       *)
(* stretch that uses a scratch page (NoWindows), a directory's recursive   *)
(* entry names the directory, an image has its program's bytes, MMAPAN's   *)
(* pages were cleared, and nothing that was in use at boot is handed out.  *)
(***************************************************************************)
EXTENDS SpaceProofs

NoWindows == Windows = {}

-----------------------------------------------------------------------------
(* The invariant, on top of SpaceInv.                                      *)

\* The scratch pages show the frame that their user means.
WindowsRight ==
    \A t \in Contexts :
        /\ pc[t] \in {"clear", "rec"} => scratch = dir[sub[t]]
        /\ pc[t] = "write" => elfscratch = got[t][at[t] + 1]

DirsRight ==
    /\ \A t \in Contexts : pc[t] \in Building => dir[sub[t]] # 0
    /\ \A t \in Contexts : pc[t] \in Building \ {"clear", "rec"} => rec[sub[t]] = dir[sub[t]]
    /\ \A u \in Tasks : pc[u] # "none" => dir[u] # 0 /\ rec[u] = dir[u]

\* What is anybody's but w's: free, the kernel's, collected, or in another space.
Foreign(f, w) ==
    \/ f \in bitmap \/ f \in ktables \/ f \in heap
    \/ \E v \in Contexts, i \in Nat : Fresh(v, i) /\ got[v][i] = f
    \/ \E x \in Uses : x[2] # w /\ FrameAt(x) = f

\* The loader keeps the frames it has mapped, and writes into them; if vmm_map
\* mapped nothing they are nobody's.
Loaded(t, i) ==
    i \in DOMAIN got[t] /\ (pc[t] \in {"load", "write"} \/ (pc[t] = "map" /\ i <= at[t]))
LoadsRight == \A t \in Contexts, i \in Nat : Loaded(t, i) => ~Foreign(got[t][i], sub[t])

\* The kernel has no space, so these are all that somebody knows.
InRam == \A f \in AllFrames : Foreign(f, Kernel) => f \in ram

\* What is mapped and not written yet.
ToLoad(t, i) ==
    /\ i \in DOMAIN got[t]
    /\ \/ pc[t] = "map" /\ Run(t).kind = "image" /\ i <= at[t]
       \/ pc[t] \in {"load", "write"} /\ i > at[t]
DataRight ==
    \A u \in Tasks, p \in UserPages : pte[u][p] # 0 =>
        /\ use[u][p] = "image" => \/ content[pte[u][p]] = u
                                  \/ \E t \in Contexts, i \in Nat :
                                        sub[t] = u /\ ToLoad(t, i) /\ got[t][i] = pte[u][p]
        /\ use[u][p] = "anon" => content[pte[u][p]] = "zero" /\ pc[u] # "none"

-----------------------------------------------------------------------------
(* The steps, by whose they are.                                           *)

StepOf(t) ==
    \/ \E u \in Tasks : \E prog : CreateDir(t, u, prog)
    \/ ClearDir(t) \/ SetRec(t) \/ Collect(t) \/ CollectFails(t) \/ MapInRun(t)
    \/ MapInRunMisses(t) \/ ElfMap(t) \/ ElfWrite(t) \/ Start(t) \/ Abandon(t)
    \/ /\ t \in Tasks
       /\ \/ \E hint, n : Mmapan(t, hint, n)
          \/ PassGet(t) \/ PassFails(t) \/ PassPut(t) \/ PassPutFails(t) \/ Undo(t)
          \/ \E p, n : Munmap(t, p, n)
          \/ Reap(t)

\* Nobody else moves, whatever it builds.
OthersWait(t) ==
    /\ OthersStay(t)
    /\ \A v \in Contexts \ {t} : sub'[v] = sub[v] /\ todo'[v] = todo[v]

\* The kernel's own steps.
StepOfNone ==
    /\ UNCHANGED <<spaces, windows, locals, ktables>>
    /\ bitmap' \subseteq bitmap \union heap /\ heap' \subseteq heap \union bitmap
    /\ \A f \in AllFrames : content'[f] = content[f] \/ f \in bitmap'

LEMMA StepsOfOne ==
    ASSUME SpaceInv, [SpaceNext]_spaceVars
    PROVE  StepOfNone \/ \E t \in Contexts : StepOf(t) /\ Quiet(t) /\ OthersWait(t)
<1> USE DEF SpaceInv
<1>0. Tasks \subseteq Contexts /\ NPages = NPde * PtePer
  BY SizesRight DEF NPages
<1>1. CASE UNCHANGED spaceVars \/ HeapTake \/ NoFrame
  BY <1>1, FitIsFree DEF spaceVars, pmmVars, HeapTake, NoFrame, Take, kernelVars, StepOfNone
<1>2. ASSUME NEW f \in heap, HeapGive(f) PROVE StepOfNone
  <2>1. {f} \in SUBSET FrameOr0 /\ next_free_page \in Nat /\ f # 0
    BY FrameSets DEF MemTypes
  <2>2. /\ GiveBack(next_free_page, {f}) /\ heap' = heap \ {f}
        /\ UNCHANGED <<spaces, windows, locals, ktables>>
    BY <1>2 DEF HeapGive
  <2>3. bitmap' = bitmap \union ({f} \ {0})
    BY <2>1, <2>2, GiveTypes
  <2>4. \A g \in AllFrames : content'[g] = content[g] \/ g = f
    BY <2>2 DEF GiveBack
  <2> QED BY <2>1, <2>2, <2>3, <2>4 DEF StepOfNone
<1>3. ASSUME NEW t \in Contexts, StepOf(t) PROVE Quiet(t) /\ OthersWait(t)
  <2>1. Quiet(t)
    BY <1>3 DEF StepOf, CreateDir, ClearDir, SetRec, Collect, CollectFails, MapInRun, MapInRunMisses,
                ElfMap, ElfWrite, Start, Abandon, Mmapan, PassGet, PassFails, PassPut, PassPutFails,
                Undo, Munmap, Reap, At
  <2>2. OthersStay(t)
    <3>1. ASSUME NEW p, NEW n, Munmap(t, p, n) PROVE OthersStay(t)
      BY <3>1 DEF Munmap, OthersStay, locals
    <3> QED BY <1>3, <3>1, ActionsOfOne DEF StepOf
  <2>3. ASSUME \/ \E u \in Tasks : \E prog : CreateDir(t, u, prog)
               \/ ClearDir(t) \/ SetRec(t) \/ Collect(t) \/ CollectFails(t) \/ ElfMap(t)
               \/ Start(t) \/ Abandon(t)
        PROVE  \A v \in Contexts \ {t} : sub'[v] = sub[v] /\ todo'[v] = todo[v]
    BY <2>3 DEF CreateDir, ClearDir, SetRec, Collect, CollectFails, ElfMap, Start, Abandon, Idle,
                LocalTypes
  <2>4. ASSUME MapInRun(t) \/ MapInRunMisses(t) \/ ElfWrite(t)
        PROVE  \A v \in Contexts \ {t} : sub'[v] = sub[v] /\ todo'[v] = todo[v]
    BY <2>4 DEF MapInRun, MapInRunMisses, ElfWrite, RunMapped, NextRun, LocalTypes
  <2>5. ASSUME \/ \E hint, n : Mmapan(t, hint, n)
               \/ PassGet(t) \/ PassFails(t) \/ PassPutFails(t) \/ Undo(t)
               \/ (\E p, n : Munmap(t, p, n)) \/ Reap(t)
        PROVE  \A v \in Contexts \ {t} : sub'[v] = sub[v] /\ todo'[v] = todo[v]
    BY <2>5 DEF Mmapan, PassGet, PassFails, PassPutFails, Undo, Munmap, Reap, Idle, locals, LocalTypes
  <2>6. ASSUME PassPut(t)
        PROVE  \A v \in Contexts \ {t} : sub'[v] = sub[v] /\ todo'[v] = todo[v]
    BY <2>6 DEF PassPut, PassDone, Idle, LocalTypes
  <2> QED BY <1>3, <2>1, <2>2, <2>3, <2>4, <2>5, <2>6 DEF StepOf, OthersWait
<1>4. SpaceNext => (\E t \in Contexts : StepOf(t)) \/ HeapTake \/ NoFrame \/ \E f \in heap : HeapGive(f)
  BY <1>0 DEF SpaceNext, StepOf
<1> QED BY <1>1, <1>2, <1>3, <1>4

\* Where a step leaves the task that makes it.
LEMMA StepsGo ==
    ASSUME LocalTypes, CallsRight, NEW t \in Contexts
    PROVE  /\ \A u \in Tasks : \A prog : CreateDir(t, u, prog) => pc'[t] = "clear"
           /\ ClearDir(t) => pc'[t] = "rec"
           /\ SetRec(t) => pc'[t] = "collect"
           /\ Collect(t) => pc'[t] \in {"collect", "map"}
           /\ CollectFails(t) => pc'[t] = Back(t)
           /\ MapInRun(t) \/ MapInRunMisses(t) => pc'[t] \in {"map", "load", "start", "collect"}
           /\ ElfMap(t) => pc'[t] = "write"
           /\ ElfWrite(t) => pc'[t] \in {"load", "start", "collect"}
           /\ Start(t) => pc'[t] = Back(t)
           /\ Abandon(t) => pc'[t] = "user"
           /\ t \in Tasks =>
                 /\ \A hint, n : Mmapan(t, hint, n) => pc'[t] = "pass"
                 /\ PassGet(t) => pc'[t] \in {"mget", "mput"}
                 /\ PassFails(t) \/ PassPutFails(t) => pc'[t] = "undo"
                 /\ PassPut(t) => pc'[t] \in {"mput", "pass", "user"}
                 /\ Undo(t) => pc'[t] = "user"
                 /\ \A p, n : Munmap(t, p, n) => pc'[t] = pc[t] /\ pc[t] = "user"
                 /\ Reap(t) => pc'[t] = "none"
<1>1. ASSUME Start(t) PROVE pc'[t] = Back(t)
  <2>1. pc[t] = "start" /\ pc[sub[t]] = "none"
    BY <1>1 DEF Start, At, CallsRight, BuildsRight, Building
  <2>2. pc' = [pc EXCEPT ![t] = Back(t), ![sub[t]] = "user"] /\ sub[t] # t
    BY <1>1, <2>1 DEF Start
  <2> QED BY <2>2 DEF LocalTypes
<1>2. MapInRun(t) \/ MapInRunMisses(t) => pc'[t] \in {"map", "load", "start", "collect"}
  BY DEF MapInRun, MapInRunMisses, At, RunMapped, NextRun, Goto, LocalTypes
<1>3. ElfWrite(t) => pc'[t] \in {"load", "start", "collect"}
  BY DEF ElfWrite, NextRun, Goto, LocalTypes
<1>4. PassPut(t) => pc'[t] \in {"mput", "pass", "user"}
  BY DEF PassPut, At, PassDone, Goto, LocalTypes
<1>5. \A p, n : Munmap(t, p, n) => pc'[t] = pc[t] /\ pc[t] = "user"
  BY DEF Munmap, At, locals
<1>6. /\ \A u \in Tasks : \A prog : CreateDir(t, u, prog) => pc'[t] = "clear"
      /\ ClearDir(t) => pc'[t] = "rec"
      /\ SetRec(t) => pc'[t] = "collect"
      /\ Collect(t) => pc'[t] \in {"collect", "map"}
      /\ CollectFails(t) => pc'[t] = Back(t)
      /\ ElfMap(t) => pc'[t] = "write"
      /\ Abandon(t) => pc'[t] = "user"
  BY DEF CreateDir, ClearDir, SetRec, Collect, CollectFails, ElfMap, Abandon, Goto, LocalTypes
<1>7. /\ \A hint, n : Mmapan(t, hint, n) => pc'[t] = "pass"
      /\ PassGet(t) => pc'[t] \in {"mget", "mput"}
      /\ PassFails(t) \/ PassPutFails(t) => pc'[t] = "undo"
      /\ Undo(t) => pc'[t] = "user"
      /\ Reap(t) => pc'[t] = "none"
  BY DEF Mmapan, PassGet, PassFails, PassPutFails, Undo, Reap, Goto, LocalTypes
<1> QED BY <1>1, <1>2, <1>3, <1>4, <1>5, <1>6, <1>7

\* A task that has a scratch page or has masked the interrupts is alone.
LEMMA BusyAlone ==
    ASSUME NoWindows, NEW t \in Contexts, Quiet(t), OthersWait(t), NEW v \in Contexts,
           pc[v] \in Scratchy \union Masked \/ pc'[v] \in Scratchy \union Masked
    PROVE  v = t
  BY DEF NoWindows, Quiet, OthersWait, OthersStay, Scratchy, Masked

LEMMA OneDir ==
    ASSUME UsesApart, NEW u \in Tasks, NEW v \in Tasks, dir[u] = dir[v], dir[u] # 0
    PROVE  u = v
<1>1. <<"dir", u>> \in Uses /\ <<"dir", v>> \in Uses
  BY PlacesInSpaces
<1>2. FrameAt(<<"dir", u>>) = dir[u] /\ FrameAt(<<"dir", v>>) = dir[v]
  BY PlacesInSpaces
<1>3. <<"dir", u>> = <<"dir", v>>
  BY <1>1, <1>2 DEF UsesApart
<1> QED BY <1>3

\* A space is changed by the one who builds it, and by its own task when it runs.
SameSpace(w) ==
    /\ dir'[w] = dir[w] /\ rec'[w] = rec[w] /\ tables'[w] = tables[w]
    /\ pte'[w] = pte[w] /\ use'[w] = use[w]

LEMMA DirsKept ==
    ASSUME SpaceInv, WindowsRight, NEW t \in Contexts, StepOf(t), NEW w \in Tasks,
           pc[t] \in Building => w # sub[t], \A prog : ~CreateDir(t, w, prog), Reap(t) => w # t
    PROVE  dir'[w] = dir[w] /\ rec'[w] = rec[w]
<1> USE DEF SpaceInv, MemTypes
<1>1. CASE \E u \in Tasks : \E prog : CreateDir(t, u, prog)
  BY <1>1 DEF CreateDir
<1>2. ASSUME ClearDir(t) \/ SetRec(t) PROVE dir'[w] = dir[w] /\ rec'[w] = rec[w]
  <2>1. /\ scratch # 0 /\ pc[t] \in {"clear", "rec"} /\ dir' = dir
        /\ rec'[w] = rec[w] \/ dir[w] = scratch
    BY <1>2 DEF ClearDir, SetRec, At
  <2>2. sub[t] \in Tasks /\ w # sub[t] /\ scratch = dir[sub[t]]
    BY <2>1 DEF CallsRight, LocalsRight, Building, WindowsRight
  <2>3. dir[w] # scratch
    BY <2>1, <2>2, OneDir DEF FramesApart
  <2> QED BY <2>1, <2>3
<1>3. ASSUME CollectFails(t) \/ Abandon(t) PROVE dir'[w] = dir[w] /\ rec'[w] = rec[w]
  <2>1. w # sub[t] /\ Cleared(sub[t])
    BY <1>3 DEF CollectFails, Abandon, Destroyed, At, Building
  <2> QED BY <2>1 DEF Cleared
<1>4. CASE MapInRun(t) \/ Collect(t) \/ MapInRunMisses(t) \/ ElfMap(t) \/ ElfWrite(t) \/ Start(t)
  BY <1>4 DEF MapInRun, Collect, MapInRunMisses, ElfMap, ElfWrite, Start, spaces
<1>6. CASE \/ (\E hint, n : Mmapan(t, hint, n)) \/ (\E p, n : Munmap(t, p, n))
           \/ PassGet(t) \/ PassFails(t) \/ PassPut(t) \/ PassPutFails(t) \/ Undo(t)
  BY <1>6 DEF Mmapan, PassGet, PassFails, PassPut, PassPutFails, Undo, Munmap, spaces
<1>5. CASE t \in Tasks /\ Reap(t)
  BY <1>5 DEF Reap, Destroyed, Cleared
<1> QED BY <1>1, <1>2, <1>3, <1>4, <1>5, <1>6 DEF StepOf

LEMMA OthersKeep ==
    ASSUME SpaceInv, WindowsRight, NEW t \in Contexts, StepOf(t), NEW w \in Tasks, w # t,
           pc[t] \in Building => w # sub[t], \A prog : ~CreateDir(t, w, prog)
    PROVE  SameSpace(w)
<1> USE DEF SpaceInv, MemTypes, SameSpace
<1>1. CASE \E u \in Tasks : \E prog : CreateDir(t, u, prog)
  BY <1>1 DEF CreateDir
<1>2. ASSUME ClearDir(t) \/ SetRec(t) PROVE SameSpace(w)
  <2>1. UNCHANGED <<dir, tables, pte, use>> /\ ~Reap(t)
    BY <1>2 DEF ClearDir, SetRec, Reap, At
  <2> QED BY <2>1, DirsKept
<1>3. ASSUME CollectFails(t) \/ Abandon(t) PROVE SameSpace(w)
  <2>1. w # sub[t] /\ Cleared(sub[t])
    BY <1>3 DEF CollectFails, Abandon, Destroyed, At, Building
  <2> QED BY <2>1 DEF Cleared
<1>4. CASE MapInRun(t)
  BY <1>4 DEF MapInRun, MapPage, At, Building
<1>5. CASE Collect(t) \/ MapInRunMisses(t) \/ ElfMap(t) \/ ElfWrite(t) \/ Start(t)
  BY <1>5 DEF Collect, MapInRunMisses, MapNothing, ElfMap, ElfWrite, Start, spaces
<1>6. ASSUME t \in Tasks, (\E hint, n : Mmapan(t, hint, n)) \/ PassGet(t) \/ PassFails(t)
      PROVE  SameSpace(w)
  BY <1>6 DEF Mmapan, PassGet, PassFails, spaces
<1>7. ASSUME t \in Tasks, PassPut(t) PROVE SameSpace(w)
  BY <1>7 DEF PassPut, MapPage
<1>8. ASSUME t \in Tasks, PassPutFails(t) \/ Undo(t) \/ \E p, n : Munmap(t, p, n) PROVE SameSpace(w)
  BY <1>8 DEF PassPutFails, Undo, Munmap, UnmapRunFree, Unmapped
<1>9. ASSUME t \in Tasks, Reap(t) PROVE SameSpace(w)
  BY <1>9 DEF Reap, Destroyed, Cleared
<1> QED BY <1>1, <1>2, <1>3, <1>4, <1>5, <1>6, <1>7, <1>8, <1>9 DEF StepOf

\* A task comes to life when its space is finished.
LEMMA Woken ==
    ASSUME LocalTypes, NEW t \in Contexts, StepOf(t), NEW u \in Contexts, pc[u] = "none",
           pc'[u] # "none"
    PROVE  Start(t) /\ u = sub[t]
<1>1. pc[t] # "none"
  BY DEF StepOf, CreateDir, ClearDir, SetRec, Collect, CollectFails, MapInRun, MapInRunMisses, ElfMap,
         ElfWrite, Start, Abandon, Mmapan, PassGet, PassFails, PassPut, PassPutFails, Undo, Munmap,
         Reap, At
<1>2. u # t
  BY <1>1
<1>3. ASSUME \/ \E v \in Tasks : \E prog : CreateDir(t, v, prog)
             \/ ClearDir(t) \/ SetRec(t) \/ Collect(t) \/ CollectFails(t) \/ ElfMap(t) \/ Abandon(t)
      PROVE  FALSE
  BY <1>2, <1>3 DEF CreateDir, ClearDir, SetRec, Collect, CollectFails, ElfMap, Abandon, Goto, LocalTypes
<1>4. ASSUME MapInRun(t) \/ MapInRunMisses(t) \/ ElfWrite(t) PROVE FALSE
  BY <1>2, <1>4 DEF MapInRun, MapInRunMisses, ElfWrite, RunMapped, NextRun, Goto, LocalTypes
<1>5. ASSUME \/ (\E hint, n : Mmapan(t, hint, n)) \/ PassGet(t) \/ PassFails(t) \/ PassPutFails(t)
             \/ Undo(t) \/ (\E p, n : Munmap(t, p, n)) \/ Reap(t)
      PROVE  FALSE
  BY <1>2, <1>5 DEF Mmapan, PassGet, PassFails, PassPutFails, Undo, Munmap, Reap, Goto, locals,
                    LocalTypes
<1>6. ASSUME PassPut(t) PROVE FALSE
  BY <1>2, <1>6 DEF PassPut, PassDone, Goto, LocalTypes
<1>7. Start(t) => u = sub[t]
  BY <1>2 DEF Start, LocalTypes
<1> QED BY <1>3, <1>4, <1>5, <1>6, <1>7 DEF StepOf

LEMMA WindowsStep ==
    ASSUME NoWindows, SpaceInv, WindowsRight, [SpaceNext]_spaceVars
    PROVE  WindowsRight'
<1> USE DEF SpaceInv
<1>1. CASE StepOfNone
  BY <1>1 DEF StepOfNone, spaces, windows, locals, WindowsRight
<1>2. ASSUME NEW t \in Contexts, StepOf(t), Quiet(t), OthersWait(t) PROVE WindowsRight'
  <2> SUFFICES ASSUME NEW v \in Contexts, pc'[v] \in Scratchy
               PROVE  /\ pc'[v] \in {"clear", "rec"} => scratch' = dir'[sub'[v]]
                      /\ pc'[v] = "write" => elfscratch' = got'[v][at'[v] + 1]
    BY DEF WindowsRight, Scratchy
  <2>1. v = t
    BY <1>2, BusyAlone
  <2>2. \/ \E u \in Tasks : \E prog : CreateDir(t, u, prog)
        \/ ClearDir(t) \/ ElfMap(t)
    BY <1>2, <2>1, StepsGo DEF StepOf, Scratchy, Back
  <2>3. ASSUME NEW u \in Tasks, NEW prog, CreateDir(t, u, prog)
        PROVE  pc'[t] = "clear" /\ scratch' = dir'[sub'[t]]
    BY <2>3, StepsGo DEF CreateDir, LocalTypes, MemTypes
  <2>4. ASSUME ClearDir(t) PROVE pc'[t] = "rec" /\ scratch' = dir'[sub'[t]]
    BY <2>4, StepsGo DEF ClearDir, At, windows, WindowsRight
  <2>5. ASSUME ElfMap(t) PROVE pc'[t] = "write" /\ elfscratch' = got'[t][at'[t] + 1]
    BY <2>5, StepsGo DEF ElfMap
  <2> QED BY <2>1, <2>2, <2>3, <2>4, <2>5
<1> QED BY <1>1, <1>2, StepsOfOne

LEMMA DirsStep ==
    ASSUME NoWindows, SpaceInv, WindowsRight, DirsRight, [SpaceNext]_spaceVars
    PROVE  DirsRight'
<1> USE DEF SpaceInv
<1>1. CASE StepOfNone
  BY <1>1 DEF StepOfNone, spaces, locals, DirsRight
<1>2. ASSUME NEW t \in Contexts, StepOf(t), Quiet(t), OthersWait(t) PROVE DirsRight'
  <2>0. \A v \in Contexts : pc[v] \in Building => sub[v] \in Tasks /\ pc[sub[v]] = "none"
    BY DEF CallsRight, BuildsRight, LocalsRight
  <2>1. ASSUME NEW v \in Contexts, v # t, pc'[v] \in Building
        PROVE  /\ dir'[sub'[v]] # 0
               /\ pc'[v] \notin {"clear", "rec"} => rec'[sub'[v]] = dir'[sub'[v]]
    <3>1. pc'[v] = pc[v] /\ sub'[v] = sub[v] /\ sub[v] \in Tasks /\ pc[sub[v]] = "none"
      BY <1>2, <2>0, <2>1 DEF OthersWait, OthersStay, Building
    <3>2. pc[t] # "none"
      BY <1>2 DEF StepOf, CreateDir, ClearDir, SetRec, Collect, CollectFails, MapInRun,
                  MapInRunMisses, ElfMap, ElfWrite, Start, Abandon, Mmapan, PassGet, PassFails, PassPut,
                  PassPutFails, Undo, Munmap, Reap, At
    <3>3. sub[v] # t /\ (pc[t] \in Building => sub[v] # sub[t])
      BY <2>1, <3>1, <3>2 DEF CallsRight, BuildsRight
    <3>4. \A prog : ~CreateDir(t, sub[v], prog)
      BY DEF CreateDir
    <3>5. SameSpace(sub[v])
      BY <1>2, <3>1, <3>3, <3>4, OthersKeep
    <3> QED BY <2>1, <3>1, <3>5 DEF SameSpace, DirsRight
  <2>2. ASSUME pc'[t] \in Building
        PROVE  /\ dir'[sub'[t]] # 0
               /\ pc'[t] \notin {"clear", "rec"} => rec'[sub'[t]] = dir'[sub'[t]]
    <3>1. ASSUME NEW u \in Tasks, NEW prog, CreateDir(t, u, prog)
          PROVE  dir'[sub'[t]] # 0 /\ pc'[t] = "clear"
      <4>1. PICK f \in Fit : dir' = [dir EXCEPT ![u] = f]
        BY <3>1 DEF CreateDir
      <4>2. sub'[t] = u /\ f # 0
        BY <3>1, FitIsFree, <4>1 DEF CreateDir, LocalTypes
      <4> QED BY <3>1, <4>1, <4>2, StepsGo DEF MemTypes
    <3>2. ASSUME ClearDir(t) PROVE dir'[sub'[t]] # 0 /\ pc'[t] = "rec"
      BY <3>2, StepsGo DEF ClearDir, At, DirsRight, Building
    <3>3. ASSUME SetRec(t) PROVE dir'[sub'[t]] # 0 /\ rec'[sub'[t]] = dir'[sub'[t]]
      <4>1. pc[t] = "rec" /\ sub[t] \in Tasks /\ scratch = dir[sub[t]]
        BY <2>0, <3>3 DEF SetRec, At, WindowsRight, Building
      <4> QED BY <3>3, <4>1 DEF SetRec, DirsRight, Building
    <3>4. ASSUME Collect(t) \/ MapInRun(t) \/ MapInRunMisses(t) \/ ElfMap(t) \/ ElfWrite(t)
          PROVE  dir'[sub'[t]] # 0 /\ rec'[sub'[t]] = dir'[sub'[t]]
      <4>1. pc[t] \in Building \ {"clear", "rec"} /\ UNCHANGED <<dir, rec, sub>>
        BY <3>4 DEF Collect, MapInRun, MapInRunMisses, ElfMap, ElfWrite, At, Building, spaces
      <4> QED BY <4>1 DEF DirsRight
    <3> QED
      <4>1. pc'[t] \notin {"user", "none", "pass", "mget", "mput", "undo"}
        BY <2>2 DEF Building
      <4> QED BY <1>2, <3>1, <3>2, <3>3, <3>4, <4>1, StepsGo DEF StepOf, Back
  <2>3. ASSUME NEW u \in Tasks, pc'[u] # "none" PROVE dir'[u] # 0 /\ rec'[u] = dir'[u]
    <3>1. CASE Start(t) /\ u = sub[t]
      BY <3>1 DEF Start, At, spaces, DirsRight, Building
    <3>2. CASE ~(Start(t) /\ u = sub[t])
      <4>1. pc[u] # "none"
        BY <1>2, <2>3, <3>2, Woken, SizesRight
      <4>2. pc[t] \in Building => u # sub[t]
        BY <2>0, <4>1
      <4>3. \A prog : ~CreateDir(t, u, prog)
        BY <4>1 DEF CreateDir
      <4>4. Reap(t) => u # t
        BY <2>3 DEF Reap, Goto, LocalTypes
      <4> QED BY <1>2, <4>1, <4>2, <4>3, <4>4, DirsKept DEF DirsRight
    <3> QED BY <3>1, <3>2
  <2> QED BY <2>1, <2>2, <2>3 DEF DirsRight
<1> QED BY <1>1, <1>2, StepsOfOne

-----------------------------------------------------------------------------
(* What the loader has mapped stays with the space it builds.              *)

MapStep(t) == MapInRun(t) \/ MapInRunMisses(t)

\* What one turn of vmm_map_in_run puts into the space.
LEMMA MapPutsOwn ==
    ASSUME SpaceInv, NEW t \in Contexts, MapStep(t)
    PROVE  /\ UNCHANGED kernelVars /\ bitmap' \subseteq bitmap
           /\ \A x \in Uses :
                 \/ FrameAt(x)' = FrameAt(x)
                 \/ x[2] = sub[t] /\ (FrameAt(x)' \in bitmap \/ FrameAt(x)' = got[t][at[t] + 1])
<1> USE DEF SpaceInv
<1>1. CASE MapInRunMisses(t)
  <2>1. UNCHANGED <<kernelVars, dir, tables, pte, bitmap>>
    BY <1>1 DEF MapInRunMisses, MapNothing
  <2> QED BY <2>1, PlacesKept
<1>2. CASE MapInRun(t)
  <2>1. pc[t] = "map" /\ sub[t] \in Tasks
    BY <1>2 DEF MapInRun, At, CallsRight, LocalsRight, Building
  <2> DEFINE u == sub[t]
             p == Run(t).first + at[t]
             h == got[t][at[t] + 1]
  <2>2. p \in UserPages /\ PdeOf(p) \in Pdes
    BY <2>1, PagesToMap, PagesHaveTables
  <2>3. UNCHANGED <<kernelVars, dir>> /\ MapPage(u, p, h)
    BY <1>2 DEF MapInRun
  <2> HIDE DEF u, p, h
  <2>4. u = sub[t] /\ h = got[t][at[t] + 1] /\ u \in Tasks
    BY <2>1 DEF u, h
  <2>5. /\ bitmap' \subseteq bitmap
        /\ \A v \in Tasks, k \in Pdes : tables'[v][k] = tables[v][k] \/ (v = u /\ tables'[v][k] \in bitmap)
    <3>1. CASE NeedsTable(u, p)
      <4>1. PICK g \in Fit : Take(g) /\ tables' = [tables EXCEPT ![u][PdeOf(p)] = g]
        BY <2>3, <3>1 DEF MapPage
      <4> QED BY <2>2, <2>4, <4>1, FitIsFree DEF Take, MemTypes
    <3>2. CASE ~NeedsTable(u, p)
      BY <2>3, <3>2 DEF MapPage
    <3> QED BY <3>1, <3>2
  <2>6. \A v \in Tasks, q \in UserPages : pte'[v][q] = pte[v][q] \/ (v = u /\ pte'[v][q] = h)
    BY <2>2, <2>3, <2>4 DEF MapPage, MemTypes
  <2>7. \A v \in Tasks : dir'[v] = dir[v]
    BY <2>3
  <2>8. ASSUME NEW x \in Uses
        PROVE  \/ FrameAt(x)' = FrameAt(x)
               \/ x[2] = u /\ (FrameAt(x)' \in bitmap \/ FrameAt(x)' = h)
    <3>1. CASE \E v \in Tasks : x = <<"dir", v>>
      BY <2>7, <3>1, PlacesInSpaces, PlacesAfter
    <3>2. ASSUME NEW v \in Tasks, NEW k \in Pdes, x = <<"table", v, k>>
          PROVE  \/ FrameAt(x)' = FrameAt(x)
                 \/ x[2] = u /\ (FrameAt(x)' \in bitmap \/ FrameAt(x)' = h)
      <4>1. FrameAt(x) = tables[v][k] /\ FrameAt(x)' = tables'[v][k] /\ x[2] = v
        BY <3>2 DEF FrameAt
      <4> QED BY <2>5, <4>1
    <3>3. ASSUME NEW v \in Tasks, NEW q \in UserPages, x = <<"page", v, q>>
          PROVE  \/ FrameAt(x)' = FrameAt(x)
                 \/ x[2] = u /\ (FrameAt(x)' \in bitmap \/ FrameAt(x)' = h)
      <4>1. FrameAt(x) = pte[v][q] /\ FrameAt(x)' = pte'[v][q] /\ x[2] = v
        BY <3>3 DEF FrameAt
      <4> QED BY <2>6, <4>1
    <3> QED BY <3>1, <3>2, <3>3, PlacesInSpaces
  <2> QED BY <2>3, <2>4, <2>5, <2>8
<1> QED BY <1>1, <1>2 DEF MapStep

\* It makes nothing foreign, least of all the page it has just mapped.
LEMMA MapForeign ==
    ASSUME SpaceInv, LocalTypes', NEW t \in Contexts, MapStep(t), NEW f
    PROVE  /\ \A w : Foreign(f, w)' => Foreign(f, w)
           /\ \A w : w = sub[t] /\ f = got[t][at[t] + 1] => ~Foreign(f, w)'
<1> USE DEF SpaceInv
<1>1. pc[t] = "map" /\ RunMapped(t)
  BY DEF MapStep, MapInRun, MapInRunMisses, At
<1>2. FreshStay
  BY <1>1, RunMappedFresh
<1>3. PICK k \in Nat : k = at[t] + 1 /\ Fresh(t, k) /\ ~Fresh(t, k)'
  BY <1>1, RunMappedFresh
<1>4. /\ UNCHANGED kernelVars /\ bitmap' \subseteq bitmap
      /\ \A x \in Uses :
            \/ FrameAt(x)' = FrameAt(x)
            \/ x[2] = sub[t] /\ (FrameAt(x)' \in bitmap \/ FrameAt(x)' = got[t][k])
  BY <1>3, MapPutsOwn
<1>5. ASSUME NEW w, Foreign(f, w)' PROVE Foreign(f, w)
  <2>1. CASE f \in bitmap' \/ f \in ktables' \/ f \in heap'
    BY <1>4, <2>1 DEF Foreign, kernelVars
  <2>2. CASE \E v \in Contexts, i \in Nat : Fresh(v, i)' /\ got'[v][i] = f
    BY <1>2, <2>2 DEF Foreign, FreshStay
  <2>3. CASE \E x \in Uses : x[2] # w /\ FrameAt(x)' = f
    BY <1>3, <1>4, <2>3 DEF Foreign
  <2> QED BY <1>5, <2>1, <2>2, <2>3 DEF Foreign, Contexts, Uses
<1>6. ASSUME NEW w, w = sub[t], f = got[t][k] PROVE ~Foreign(f, w)'
  <2>1. f \notin bitmap' /\ f \notin ktables' /\ f \notin heap'
    BY <1>3, <1>4, <1>6 DEF kernelVars, FramesApart, FreshApart
  <2>2. ASSUME NEW v \in Contexts, NEW i \in Nat, Fresh(v, i)', got'[v][i] = f PROVE FALSE
    <3>1. Fresh(v, i) /\ got[v][i] = f
      BY <1>2, <2>2 DEF FreshStay
    <3>2. v = t /\ i = k
      BY <1>3, <1>6, <3>1 DEF FramesApart, FreshApart
    <3> QED BY <1>3, <2>2, <3>2
  <2>3. ASSUME NEW x \in Uses, x[2] # w PROVE FrameAt(x)' # f
    BY <1>3, <1>4, <1>6, <2>3 DEF FramesApart, FreshApart
  <2> QED BY <2>1, <2>2, <2>3 DEF Foreign, Contexts, Uses
<1> QED BY <1>3, <1>5, <1>6

LEMMA LoadedTypes ==
    ASSUME LocalTypes, NEW t \in Contexts, NEW i \in Nat, Loaded(t, i)
    PROVE  got[t][i] \in AllFrames
<1>1. got[t] \in Seq(AllFrames) /\ i \in DOMAIN got[t]
  BY DEF LocalTypes, Loaded
<1> QED BY <1>1

\* Whose frames are loaded after a step of t.
LEMMA LoadedBefore ==
    ASSUME NoWindows, SpaceInv, NEW t \in Contexts, StepOf(t), Quiet(t), OthersWait(t),
           NEW v \in Contexts, NEW i \in Nat, Loaded(v, i)'
    PROVE  /\ got'[v] = got[v] /\ sub'[v] = sub[v]
           /\ ~MapStep(t) => Loaded(v, i) /\ pc[v] \in {"load", "write"} /\ pc'[v] \in {"load", "write"}
           /\ MapStep(t) => Loaded(v, i) \/ (v = t /\ i = at[t] + 1)
<1> USE DEF SpaceInv
<1>0. i \in DOMAIN got'[v] /\ (pc'[v] \in {"load", "write"} \/ (pc'[v] = "map" /\ i <= at'[v]))
  BY DEF Loaded
<1>1. CASE v # t
  <2>1. got'[v] = got[v] /\ at'[v] = at[v] /\ pc'[v] = pc[v] /\ sub'[v] = sub[v]
    BY <1>0, <1>1 DEF OthersWait, OthersStay
  <2>2. pc[v] # "map"
    BY <1>1 DEF Quiet, Masked
  <2> QED BY <1>0, <2>1, <2>2 DEF Loaded
<1>2. CASE v = t
  <2>1. LocalsRight(pc[t], sub[t], todo[t], got[t], at[t], base_page[t], npages[t], mapped[t])
    BY DEF CallsRight
  <2>2. got[t] \in Seq(AllFrames) /\ DOMAIN got[t] = 1..Len(got[t]) /\ Len(got[t]) \in Nat /\ at[t] \in Nat
    BY DEF LocalTypes
  <2>3. \/ Collect(t) \/ MapStep(t) \/ ElfMap(t) \/ ElfWrite(t)
    <3>1. pc'[t] \in {"load", "write", "map"}
      BY <1>0, <1>2
    <3> QED BY <3>1, StepsGo DEF StepOf, MapStep, Back
  <2>4. ASSUME Collect(t) PROVE FALSE
    <3>1. at'[t] = 0 /\ pc'[t] \in {"collect", "map"}
      BY <2>1, <2>4, StepsGo DEF Collect, At, LocalsRight
    <3>2. got'[t] \in Seq(AllFrames)
      BY <2>2, <2>4, FitIsFree DEF Collect, LocalTypes
    <3> QED BY <1>0, <1>2, <3>1, <3>2
  <2>5. ASSUME ElfMap(t)
        PROVE  got'[t] = got[t] /\ sub'[t] = sub[t] /\ pc[t] = "load" /\ pc'[t] = "write"
    BY <2>5, StepsGo DEF ElfMap, At
  <2>6. ASSUME ElfWrite(t)
        PROVE  got'[t] = got[t] /\ sub'[t] = sub[t] /\ pc[t] = "write" /\ pc'[t] = "load"
    <3>1. got'[t] = got[t] \/ pc'[t] \in {"start", "collect"}
      BY <2>6 DEF ElfWrite, NextRun, Goto, LocalTypes
    <3> QED BY <1>0, <1>2, <2>6, <3>1, StepsGo DEF ElfWrite, At
  <2>7. ASSUME MapStep(t)
        PROVE  got'[t] = got[t] /\ sub'[t] = sub[t] /\ (Loaded(t, i) \/ i = at[t] + 1)
    <3>1. pc[t] = "map" /\ RunMapped(t) /\ sub' = sub /\ Len(got[t]) = Run(t).count
      BY <2>1, <2>7 DEF MapStep, MapInRun, MapInRunMisses, At, LocalsRight, Run
    <3>2. CASE at[t] + 1 < Run(t).count
      <4>1. got' = got /\ at'[t] = at[t] + 1 /\ pc' = pc
        BY <3>1, <3>2 DEF RunMapped, LocalTypes
      <4> QED BY <1>0, <1>2, <2>2, <3>1, <4>1 DEF Loaded
    <3>3. CASE ~(at[t] + 1 < Run(t).count)
      <4>1. got' = got
        BY <1>0, <1>2, <3>1, <3>3 DEF RunMapped, NextRun, Goto, LocalTypes
      <4> QED BY <1>0, <1>2, <2>2, <3>1, <3>3, <4>1 DEF Loaded
    <3> QED BY <3>2, <3>3
  <2>8. ElfMap(t) \/ ElfWrite(t) => ~MapStep(t)
    BY <2>5, <2>6 DEF MapStep, MapInRun, MapInRunMisses, At
  <2> QED BY <1>0, <1>2, <2>3, <2>4, <2>5, <2>6, <2>7, <2>8 DEF Loaded
<1> QED BY <1>1, <1>2

\* The kernel's own steps move frames between the free ones and the heap.
LEMMA NoneForeign ==
    ASSUME MemTypes, FramesApart, StepOfNone, NEW f
    PROVE  \A w : Foreign(f, w)' => Foreign(f, w)
<1>1. \A v \in Contexts, i \in Nat : (Fresh(v, i)' <=> Fresh(v, i)) /\ got'[v] = got[v]
  BY DEF StepOfNone, Fresh, locals
<1>2. \A x \in Uses : FrameAt(x)' = FrameAt(x)
  BY PlacesKept DEF StepOfNone, spaces
<1> QED BY <1>1, <1>2 DEF StepOfNone, Foreign, Contexts, Uses

\* In every other step, whatever is loaded is where it was.
LEMMA LoadedStays ==
    ASSUME SpaceInv, SpaceInv', NoDirLeft, WindowsRight, [SpaceNext]_spaceVars, NEW t \in Contexts,
           StepOf(t), OthersWait(t), \A v \in Contexts : pc[v] # "map",
           NEW v \in Contexts, pc[v] \in {"load", "write"}, pc'[v] \in {"load", "write"},
           NEW f, f # 0, NEW w, w = sub[v], ~Foreign(f, w)
    PROVE  ~Foreign(f, w)'
<1> USE DEF SpaceInv
<1>0. w \in Tasks /\ pc[w] = "none" /\ pc[v] \in Building
  BY DEF CallsRight, LocalsRight, BuildsRight, Building
<1>1. \A x \in Uses : x[2] = w => FrameAt(x)' = FrameAt(x)
  <2>1. CASE v = t
    <3>1. ElfMap(t) \/ ElfWrite(t)
      BY <2>1 DEF StepOf, CreateDir, ClearDir, SetRec, Collect, CollectFails, MapInRun,
                  MapInRunMisses, Start, Abandon, Mmapan, PassGet, PassFails, PassPut,
                  PassPutFails, Undo, Munmap, Reap, At
    <3> QED BY <3>1, PlacesKept DEF ElfMap, ElfWrite, spaces
  <2>2. CASE v # t
    <3>1. pc[t] # "none"
      BY DEF StepOf, CreateDir, ClearDir, SetRec, Collect, CollectFails, MapInRun,
             MapInRunMisses, ElfMap, ElfWrite, Start, Abandon, Mmapan, PassGet, PassFails, PassPut,
             PassPutFails, Undo, Munmap, Reap, At
    <3>2. w # t /\ (pc[t] \in Building => w # sub[t])
      BY <1>0, <2>2, <3>1 DEF CallsRight, BuildsRight
    <3>3. \A prog : ~CreateDir(t, w, prog)
      BY DEF CreateDir
    <3>4. SameSpace(w)
      BY <1>0, <3>2, <3>3, OthersKeep
    <3> QED BY <3>4 DEF SameSpace, FrameAt, Uses
  <2> QED BY <2>1, <2>2
<1>2. CASE \E x \in Uses : x[2] = w /\ FrameAt(x) = f
  <2>1. PICK x \in Uses : x[2] = w /\ FrameAt(x)' = f
    BY <1>1, <1>2
  <2>2. f \notin bitmap' \union ktables' \union heap'
    BY <2>1 DEF FramesApart, UsesApart, Uses
  <2>3. ASSUME NEW y \in Uses, FrameAt(y)' = f PROVE y = x
    BY <2>1, <2>3 DEF FramesApart, UsesApart, Uses
  <2>4. ASSUME NEW s \in Contexts, NEW i \in Nat, Fresh(s, i)', got'[s][i] = f PROVE FALSE
    BY <2>1, <2>4 DEF FramesApart, FreshApart, Uses, Contexts
  <2> QED BY <2>1, <2>2, <2>3, <2>4 DEF Foreign, Uses, Contexts
<1>3. CASE ~\E x \in Uses : x[2] = w /\ FrameAt(x) = f
  <2>1. ~Known(f)
    BY <1>3 DEF Known, Foreign, Placed, Carries
  <2>2. ~Known(f)'
    BY <2>1, KnownStep
  <2> QED BY <2>2 DEF Known, Foreign, Placed, Carries, Uses, Contexts
<1> QED BY <1>2, <1>3

LEMMA LoadsStep ==
    ASSUME NoWindows, SpaceInv, SpaceInv', NoDirLeft, WindowsRight, LoadsRight, [SpaceNext]_spaceVars
    PROVE  LoadsRight'
<1> USE DEF SpaceInv
<1> SUFFICES ASSUME NEW v \in Contexts, NEW i \in Nat, Loaded(v, i)', NEW f, f = got'[v][i],
                    NEW w, w = sub'[v]
             PROVE  ~Foreign(f, w)'
  BY DEF LoadsRight, Loaded, Foreign, Contexts
<1>1. CASE StepOfNone
  <2>1. Loaded(v, i) /\ f = got[v][i] /\ w = sub[v]
    BY <1>1 DEF StepOfNone, Loaded, locals
  <2> QED BY <1>1, <2>1, NoneForeign DEF LoadsRight
<1>2. ASSUME NEW t \in Contexts, StepOf(t), Quiet(t), OthersWait(t) PROVE ~Foreign(f, w)'
  <2>1. f = got[v][i] /\ w = sub[v]
    BY <1>2, LoadedBefore
  <2>2. CASE MapStep(t)
    <3>1. CASE Loaded(v, i)
      BY <2>1, <2>2, <3>1, MapForeign DEF LoadsRight
    <3>2. CASE v = t /\ i = at[t] + 1
      BY <2>1, <2>2, <3>2, MapForeign
    <3> QED BY <1>2, <2>2, <3>1, <3>2, LoadedBefore
  <2>3. CASE ~MapStep(t)
    <3>1. Loaded(v, i) /\ pc[v] \in {"load", "write"} /\ pc'[v] \in {"load", "write"}
      BY <1>2, <2>3, LoadedBefore
    <3>2. ~Foreign(f, w) /\ f # 0
      <4>1. f \in AllFrames
        BY <2>1, <3>1, LoadedTypes
      <4>2. ~Foreign(f, w)
        BY <2>1, <3>1 DEF LoadsRight
      <4> QED BY <4>1, <4>2, FrameSets
    <3>3. \A s \in Contexts : pc[s] # "map"
      <4>1. \A s \in Contexts \ {t} : pc[s] # "map"
        BY <1>2 DEF Quiet, Masked
      <4>2. pc[t] # "map"
        BY <1>2, <2>3 DEF MapStep, StepOf, CreateDir, ClearDir, SetRec, Collect, CollectFails, ElfMap,
                    ElfWrite, Start, Abandon, Mmapan, PassGet, PassFails, PassPut, PassPutFails, Undo,
                    Munmap, Reap, At
      <4> QED BY <4>1, <4>2
    <3> QED BY <1>2, <2>1, <3>1, <3>2, <3>3, LoadedStays
  <2> QED BY <2>2, <2>3
<1> QED BY <1>1, <1>2, StepsOfOne

LEMMA InRamStep ==
    ASSUME SpaceInv, SpaceInv', NoDirLeft, InRam, [SpaceNext]_spaceVars
    PROVE  InRam'
<1> USE DEF SpaceInv
<1>0. ram' = ram /\ AllFrames' = AllFrames
  <2>1. UNCHANGED bootVars
    BY DEF SpaceNext, spaceVars, pmmVars, CreateDir, ClearDir, SetRec, Collect, CollectFails,
         MapInRun, MapInRunMisses, ElfMap, ElfWrite, Start, Abandon, Mmapan, PassGet, PassFails,
         PassPut, PassPutFails, Undo, Munmap, Reap, HeapTake, HeapGive, NoFrame
  <2> QED BY <2>1 DEF bootVars, AllFrames
<1> SUFFICES ASSUME NEW f \in AllFrames, Foreign(f, Kernel)' PROVE Foreign(f, Kernel)
  BY <1>0 DEF InRam
<1>1. CASE StepOfNone
  BY <1>1, NoneForeign
<1>2. ASSUME NEW t \in Contexts, MapStep(t) PROVE Foreign(f, Kernel)
  BY <1>2, MapForeign
<1>3. CASE \A t \in Contexts : pc[t] # "map"
  <2>1. \A x \in Uses : x[2] # Kernel
    BY SizesRight DEF Uses
  <2>2. f # 0
    BY DEF AllFrames
  <2>3. Known(f)'
    BY DEF Foreign, Known, Placed, Carries, Uses, Contexts
  <2>4. Known(f)
    BY <1>3, <2>2, <2>3, KnownStep
  <2> QED BY <2>1, <2>4 DEF Foreign, Known, Placed, Carries
<1>4. ASSUME NEW t \in Contexts, StepOf(t), Quiet(t), ~MapStep(t), NEW s \in Contexts, pc[s] = "map"
      PROVE FALSE
  <2>1. s = t
    BY <1>4 DEF Quiet, Masked
  <2> QED BY <1>4, <2>1 DEF MapStep, StepOf, CreateDir, ClearDir, SetRec, Collect, CollectFails, ElfMap,
                    ElfWrite, Start, Abandon, Mmapan, PassGet, PassFails, PassPut, PassPutFails, Undo,
                    Munmap, Reap, At
<1> QED BY <1>1, <1>2, <1>3, <1>4, StepsOfOne

-----------------------------------------------------------------------------
(* What a page holds.                                                      *)

\* Every step that frees something gives back frames of the machine.
LEMMA GivesBack ==
    ASSUME SpaceInv, NEW t \in Contexts,
           \/ CollectFails(t) \/ Abandon(t)
           \/ /\ t \in Tasks
              /\ PassFails(t) \/ PassPutFails(t) \/ Undo(t) \/ (\E p, n : Munmap(t, p, n)) \/ Reap(t)
    PROVE  \E c \in Nat, F \in SUBSET FrameOr0 : GiveBack(c, F)
<1> USE DEF SpaceInv
<1>0. next_free_page \in Nat /\ 0 \in Nat /\ {} \in SUBSET FrameOr0
  BY DEF MemTypes
<1>1. Elems(got[t]) \in SUBSET FrameOr0
  BY FrameSets DEF LocalTypes, Elems
<1>2. ASSUME NEW u \in Tasks, NEW c \in Nat, NEW F \in SUBSET FrameOr0, Destroyed(u, c, F)
      PROVE  \E d \in Nat, G \in SUBSET FrameOr0 : GiveBack(d, G)
  <2>1. F \union Backed(u) \union TablesOf(u) \union {dir[u]} \in SUBSET FrameOr0
    BY SpaceFramesType DEF SpaceFrames
  <2>2. GiveBack(c, F \union Backed(u) \union TablesOf(u) \union {dir[u]})
    BY <1>2 DEF Destroyed
  <2> QED BY <2>1, <2>2
<1>3. ASSUME NEW u \in Tasks, NEW p, NEW n, UnmapRunFree(u, p, n)
      PROVE  \E d \in Nat, G \in SUBSET FrameOr0 : GiveBack(d, G)
  <2> DEFINE G == {pte[u][q] : q \in {r \in UserPages : r >= p /\ r < p + n}} \ {0}
  <2>1. G \in SUBSET FrameOr0
    BY DEF MemTypes
  <2>2. GiveBack(next_free_page, G)
    BY <1>3 DEF UnmapRunFree
  <2> QED BY <1>0, <2>1, <2>2
<1>4. CASE CollectFails(t) \/ Abandon(t)
  <2>1. sub[t] \in Tasks
    BY <1>4 DEF CollectFails, Abandon, At, CallsRight, LocalsRight, Building
  <2>2. Destroyed(sub[t], 0, Elems(got[t])) \/ Destroyed(sub[t], next_free_page, {})
    BY <1>4 DEF CollectFails, Abandon
  <2> QED BY <1>0, <1>1, <1>2, <2>1, <2>2
<1>5. CASE t \in Tasks /\ Reap(t)
  BY <1>0, <1>2, <1>5 DEF Reap
<1>6. CASE PassFails(t) \/ PassPutFails(t)
  BY <1>0, <1>1, <1>6 DEF PassFails, PassPutFails
<1>7. CASE t \in Tasks /\ (Undo(t) \/ \E p, n : Munmap(t, p, n))
  BY <1>3, <1>7 DEF Undo, Munmap
<1> QED BY <1>4, <1>5, <1>6, <1>7

\* Pages are not among the free frames, before and after a step.
LEMMA PageFrames ==
    ASSUME SpaceInv, NEW u \in Tasks, NEW p \in UserPages, pte[u][p] # 0
    PROVE  /\ pte[u][p] \in AllFrames /\ pte[u][p] \notin bitmap
           /\ \A v \in Tasks : pte[u][p] # dir[v]
           /\ \A v \in Tasks, q \in UserPages : pte[v][q] = pte[u][p] => v = u /\ q = p
           /\ \A v \in Contexts, i \in Nat : Fresh(v, i) => got[v][i] # pte[u][p]
<1> USE DEF SpaceInv
<1>1. <<"page", u, p>> \in Uses /\ FrameAt(<<"page", u, p>>) = pte[u][p]
  BY PlacesInSpaces
<1>2. pte[u][p] \in AllFrames
  BY FrameSets DEF MemTypes
<1>3. ASSUME NEW v \in Tasks, pte[u][p] = dir[v] PROVE FALSE
  <2>1. <<"dir", v>> \in Uses /\ FrameAt(<<"dir", v>>) = dir[v] /\ <<"dir", v>>[1] # <<"page", u, p>>[1]
    BY PlacesInSpaces
  <2> QED BY <1>1, <1>3, <2>1 DEF FramesApart, UsesApart
<1>4. ASSUME NEW v \in Tasks, NEW q \in UserPages, pte[v][q] = pte[u][p] PROVE v = u /\ q = p
  <2>1. <<"page", v, q>> \in Uses /\ FrameAt(<<"page", v, q>>) = pte[v][q]
    BY PlacesInSpaces
  <2>2. <<"page", v, q>> = <<"page", u, p>>
    BY <1>1, <1>4, <2>1 DEF FramesApart, UsesApart
  <2> QED BY <2>2
<1> QED BY <1>1, <1>2, <1>3, <1>4 DEF FramesApart, UsesApart, FreshApart

PagesInUse == \A u \in Tasks, p \in UserPages : pte[u][p] # 0 => pte[u][p] \notin bitmap

LEMMA PagesAreInUse == SpaceInv => PagesInUse
  BY PageFrames DEF PagesInUse

LEMMA PageFramesNext ==
    ASSUME SpaceInv'
    PROVE  \A u \in Tasks, p \in UserPages : pte'[u][p] # 0 => pte'[u][p] \notin bitmap'
<1>1. PagesInUse'
  BY PagesAreInUse, PTL
<1> QED BY <1>1 DEF PagesInUse

\* A step that neither maps nor writes a page leaves those that stay.
LEMMA PagesStay ==
    ASSUME SpaceInv, SpaceInv', WindowsRight, NEW t \in Contexts, StepOf(t), ~MapStep(t), ~ElfWrite(t),
           ~PassPut(t), NEW u \in Tasks, NEW p \in UserPages, pte'[u][p] # 0
    PROVE  /\ pte'[u][p] = pte[u][p] /\ use'[u][p] = use[u][p]
           /\ content'[pte[u][p]] = content[pte[u][p]]
<1> USE DEF SpaceInv
<1>1. ASSUME UNCHANGED <<pte, use, content>>
      PROVE  /\ pte'[u][p] = pte[u][p] /\ use'[u][p] = use[u][p]
             /\ content'[pte[u][p]] = content[pte[u][p]]
  BY <1>1
<1>2. CASE \/ \E v \in Tasks : \E prog : CreateDir(t, v, prog)
           \/ SetRec(t) \/ Collect(t) \/ ElfMap(t) \/ Start(t)
           \/ (\E hint, n : Mmapan(t, hint, n)) \/ PassGet(t)
  BY <1>1, <1>2 DEF CreateDir, SetRec, Collect, ElfMap, Start, Mmapan, PassGet, spaces
<1>3. ASSUME ClearDir(t)
      PROVE  /\ pte'[u][p] = pte[u][p] /\ use'[u][p] = use[u][p]
             /\ content'[pte[u][p]] = content[pte[u][p]]
  <2>1. pte' = pte /\ use' = use /\ content' = [content EXCEPT ![scratch] = "zero"] /\ pc[t] = "clear"
    BY <1>3 DEF ClearDir, At
  <2>2. sub[t] \in Tasks /\ scratch = dir[sub[t]]
    BY <2>1 DEF CallsRight, LocalsRight, Building, WindowsRight
  <2>3. pte[u][p] # scratch /\ pte[u][p] \in AllFrames
    BY <2>1, <2>2, PageFrames
  <2> QED BY <2>1, <2>3 DEF MemTypes
<1>4. ASSUME \/ CollectFails(t) \/ Abandon(t)
             \/ /\ t \in Tasks
                /\ PassFails(t) \/ PassPutFails(t) \/ Undo(t) \/ (\E q, n : Munmap(t, q, n)) \/ Reap(t)
      PROVE  /\ pte'[u][p] = pte[u][p] /\ use'[u][p] = use[u][p]
             /\ content'[pte[u][p]] = content[pte[u][p]]
  <2>1. pte'[u][p] = pte[u][p] /\ use'[u][p] = use[u][p]
    <3>1. ASSUME NEW v \in Tasks, Cleared(v) PROVE pte'[u][p] = pte[u][p] /\ use'[u][p] = use[u][p]
      BY <3>1 DEF Cleared, MemTypes
    <3>2. ASSUME NEW v \in Tasks, NEW q, NEW n, Unmapped(v, q, n)
          PROVE  pte'[u][p] = pte[u][p] /\ use'[u][p] = use[u][p]
      BY <3>2 DEF Unmapped, MemTypes
    <3>3. CASE CollectFails(t) \/ Abandon(t)
      <4>1. sub[t] \in Tasks /\ Cleared(sub[t])
        BY <3>3 DEF CollectFails, Abandon, At, CallsRight, LocalsRight, Building, Destroyed
      <4> QED BY <3>1, <4>1
    <3>4. CASE t \in Tasks /\ Reap(t)
      BY <3>1, <3>4 DEF Reap, Destroyed
    <3>5. CASE t \in Tasks /\ PassFails(t)
      BY <3>5 DEF PassFails, spaces
    <3>6. CASE t \in Tasks /\ (PassPutFails(t) \/ Undo(t) \/ \E q, n : Munmap(t, q, n))
      BY <3>2, <3>6 DEF PassPutFails, Undo, Munmap, UnmapRunFree
    <3> QED BY <1>4, <3>3, <3>4, <3>5, <3>6
  <2>2. PICK c \in Nat, F \in SUBSET FrameOr0 : GiveBack(c, F)
    BY <1>4, GivesBack
  <2>3. bitmap' = bitmap \union (F \ {0})
    BY <2>2, GiveTypes
  <2>4. pte[u][p] \in AllFrames /\ pte[u][p] # 0 /\ pte[u][p] \notin F
    BY <2>1, <2>3, PageFrames, PageFramesNext
  <2> QED BY <2>1, <2>2, <2>4 DEF GiveBack
<1> QED BY <1>2, <1>3, <1>4 DEF StepOf, MapStep

\* What others have yet to write stays so, whoever steps.
LEMMA OthersToLoad ==
    ASSUME NEW t \in Contexts, OthersWait(t), NEW s \in Contexts, s # t, NEW i \in Nat, ToLoad(s, i)
    PROVE  ToLoad(s, i)' /\ sub'[s] = sub[s] /\ got'[s][i] = got[s][i]
<1>1. got'[s] = got[s] /\ at'[s] = at[s] /\ pc'[s] = pc[s] /\ sub'[s] = sub[s] /\ todo'[s] = todo[s]
  BY DEF OthersWait, OthersStay, ToLoad
<1> QED BY <1>1 DEF ToLoad, Run

\* A task that ran and is gone has been reaped.
LEMMA OnlyReaped ==
    ASSUME SpaceInv, NEW t \in Contexts, StepOf(t), OthersWait(t), NEW u \in Tasks, pc[u] # "none",
           NEW p \in UserPages, pte'[u][p] # 0
    PROVE  pc'[u] # "none"
<1> USE DEF SpaceInv
<1>1. CASE u # t
  BY <1>1, SizesRight DEF OthersWait, OthersStay
<1>2. CASE u = t
  <2>1. SUFFICES ASSUME pc'[t] = "none" PROVE FALSE
    BY <1>2
  <2>2. t # Kernel /\ Back(t) = "user"
    BY <1>2, SizesRight DEF Back
  <2>3. Reap(t)
    BY <1>2, <2>1, <2>2, StepsGo DEF StepOf
  <2> QED BY <1>2, <2>3 DEF Reap, Destroyed, Cleared, MemTypes
<1> QED BY <1>1, <1>2

\* A turn of vmm_map_in_run maps what is to be loaded, or forgets about it.
LEMMA MapData ==
    ASSUME SpaceInv, DataRight, NEW t \in Contexts, StepOf(t), OthersWait(t), MapStep(t)
    PROVE  DataRight'
<1> USE DEF SpaceInv
<1>1. /\ pc[t] = "map" /\ RunMapped(t) /\ sub' = sub /\ content' = content
      /\ sub[t] \in Tasks /\ pc[sub[t]] = "none"
      /\ Len(got[t]) = Run(t).count /\ at[t] < Len(got[t])
      /\ at[t] \in Nat /\ DOMAIN got[t] = 1..Len(got[t]) /\ Len(got[t]) \in Nat
  <2>1. pc[t] = "map" /\ RunMapped(t) /\ sub' = sub /\ content' = content
    BY DEF MapStep, MapInRun, MapInRunMisses, At
  <2>2. LocalsRight(pc[t], sub[t], todo[t], got[t], at[t], base_page[t], npages[t], mapped[t])
    BY DEF CallsRight
  <2>3. got[t] \in Seq(AllFrames)
    BY DEF LocalTypes
  <2> QED BY <2>1, <2>2, <2>3 DEF LocalsRight, Building, Run, CallsRight, BuildsRight, LocalTypes
<1>2. ASSUME NEW i \in Nat, i \in DOMAIN got[t], i <= at[t] + 1, Run(t).kind = "image"
      PROVE  ToLoad(t, i)' /\ got'[t][i] = got[t][i]
  <2>1. CASE at[t] + 1 < Run(t).count
    <3>1. got' = got /\ at'[t] = at[t] + 1 /\ pc' = pc /\ todo' = todo
      BY <1>1, <2>1 DEF RunMapped, LocalTypes
    <3> QED BY <1>1, <1>2, <3>1 DEF ToLoad, Run
  <2>2. CASE ~(at[t] + 1 < Run(t).count)
    <3>1. got' = got /\ at'[t] = 0 /\ pc'[t] = "load"
      BY <1>1, <1>2, <2>2 DEF RunMapped, Goto, LocalTypes
    <3> QED BY <1>1, <1>2, <3>1 DEF ToLoad
  <2> QED BY <2>1, <2>2
<1>3. ASSUME NEW u \in Tasks, NEW p \in UserPages, pte'[u][p] # 0,
             pte'[u][p] = pte[u][p], use'[u][p] = use[u][p]
      PROVE  /\ use'[u][p] = "image" => \/ content'[pte'[u][p]] = u
                                        \/ \E s \in Contexts, i \in Nat :
                                              sub'[s] = u /\ ToLoad(s, i)' /\ got'[s][i] = pte'[u][p]
             /\ use'[u][p] = "anon" => content'[pte'[u][p]] = "zero" /\ pc'[u] # "none"
  <2>1. ASSUME use[u][p] = "anon" PROVE content'[pte'[u][p]] = "zero" /\ pc'[u] # "none"
    <3>1. content[pte[u][p]] = "zero" /\ pc[u] # "none"
      BY <1>3, <2>1 DEF DataRight
    <3> QED BY <1>1, <1>3, <3>1, OnlyReaped
  <2>2. ASSUME NEW s \in Contexts, NEW i \in Nat, sub[s] = u, ToLoad(s, i), got[s][i] = pte[u][p]
        PROVE  sub'[s] = u /\ ToLoad(s, i)' /\ got'[s][i] = pte'[u][p]
    <3>1. CASE s # t
      BY <1>3, <2>2, <3>1, OthersToLoad
    <3>2. CASE s = t
      <4>1. i \in DOMAIN got[t] /\ i <= at[t] /\ Run(t).kind = "image"
        BY <1>1, <2>2, <3>2 DEF ToLoad
      <4>2. i <= at[t] + 1
        BY <1>1, <4>1
      <4> QED BY <1>1, <1>2, <1>3, <2>2, <3>2, <4>1, <4>2
    <3> QED BY <3>1, <3>2
  <2> QED BY <1>1, <1>3, <2>1, <2>2 DEF DataRight
<1>4. ASSUME NEW u \in Tasks, NEW p \in UserPages, pte'[u][p] # 0,
             ~(pte'[u][p] = pte[u][p] /\ use'[u][p] = use[u][p])
      PROVE  /\ use'[u][p] = "image" => \E s \in Contexts, i \in Nat :
                                              sub'[s] = u /\ ToLoad(s, i)' /\ got'[s][i] = pte'[u][p]
             /\ use'[u][p] # "anon"
  <2>1. MapInRun(t)
    BY <1>4 DEF MapStep, MapInRunMisses, MapNothing
  <2>2. /\ u = sub[t] /\ p = Run(t).first + at[t] /\ pte'[u][p] = got[t][at[t] + 1]
        /\ use'[u][p] = Run(t).kind
    <3>1. Run(t).first + at[t] \in UserPages
      BY <1>1, PagesToMap
    <3> QED BY <1>1, <1>4, <2>1, <3>1 DEF MapInRun, MapPage, MemTypes
  <2>3. Run(t).kind \in Kinds
    <3>1. todo[t] # <<>>
      BY <1>1 DEF CallsRight, LocalsRight, Building
    <3> QED BY <3>1, FirstRun DEF Run
  <2>4. PICK k \in Nat : k = at[t] + 1 /\ k \in DOMAIN got[t]
    BY <1>1
  <2>5. ASSUME Run(t).kind = "image"
        PROVE  sub'[t] = u /\ ToLoad(t, k)' /\ got'[t][k] = pte'[u][p]
    <3>1. k <= at[t] + 1
      BY <1>1, <2>4
    <3>2. ToLoad(t, k)' /\ got'[t][k] = got[t][k]
      BY <1>2, <2>4, <2>5, <3>1
    <3> QED BY <1>1, <2>2, <2>4, <3>2
  <2> QED BY <2>2, <2>3, <2>4, <2>5 DEF Kinds
<1> QED BY <1>3, <1>4 DEF DataRight

\* The loader writes into the page it means, which is of the space it builds.
LEMMA WriteData ==
    ASSUME SpaceInv, WindowsRight, LoadsRight, DataRight, NEW t \in Contexts, StepOf(t),
           OthersWait(t), ElfWrite(t)
    PROVE  DataRight'
<1> USE DEF SpaceInv
<1>1. /\ pc[t] = "write" /\ sub' = sub /\ pte' = pte /\ use' = use
      /\ content' = [content EXCEPT ![elfscratch] = sub[t]]
  BY DEF ElfWrite, At, spaces
<1>2. sub[t] \in Tasks /\ pc[sub[t]] = "none" /\ Len(got[t]) = Run(t).count
  BY <1>1 DEF CallsRight, LocalsRight, BuildsRight, Building, Run
<1>3. at[t] \in Nat /\ DOMAIN got[t] = 1..Len(got[t]) /\ Len(got[t]) \in Nat
  <2>1. got[t] \in Seq(AllFrames)
    BY DEF LocalTypes
  <2> QED BY <2>1 DEF LocalTypes
<1>4. PICK k \in Nat : k = at[t] + 1 /\ k \in DOMAIN got[t] /\ got[t][k] \in AllFrames
  BY <1>1, NextFrame
<1>5. elfscratch = got[t][k]
  BY <1>1, <1>4 DEF WindowsRight
<1>6. Loaded(t, k) /\ ~Foreign(got[t][k], sub[t])
  BY <1>1, <1>4 DEF Loaded, LoadsRight
<1>7. ASSUME NEW u \in Tasks, NEW p \in UserPages, pte[u][p] = got[t][k] PROVE u = sub[t]
  <2>1. <<"page", u, p>> \in Uses /\ FrameAt(<<"page", u, p>>) = pte[u][p] /\ <<"page", u, p>>[2] = u
    BY PlacesInSpaces
  <2> QED BY <1>6, <1>7, <2>1 DEF Foreign
<1>8. ASSUME NEW i \in Nat, ToLoad(t, i), i # k PROVE ToLoad(t, i)' /\ got'[t][i] = got[t][i]
  <2>1. i \in DOMAIN got[t] /\ i > at[t]
    BY <1>1, <1>8 DEF ToLoad
  <2>2. i > at[t] + 1 /\ at[t] + 1 < Run(t).count
    BY <1>2, <1>3, <1>4, <1>8, <2>1
  <2>3. got' = got /\ at'[t] = at[t] + 1 /\ pc'[t] = "load"
    BY <2>2 DEF ElfWrite, Goto, LocalTypes
  <2> QED BY <2>1, <2>2, <2>3 DEF ToLoad
<1> SUFFICES ASSUME NEW u \in Tasks, NEW p \in UserPages, pte[u][p] # 0
             PROVE  /\ use[u][p] = "image" => \/ content'[pte[u][p]] = u
                                              \/ \E s \in Contexts, i \in Nat :
                                                    sub'[s] = u /\ ToLoad(s, i)' /\ got'[s][i] = pte[u][p]
                    /\ use[u][p] = "anon" => content'[pte[u][p]] = "zero" /\ pc'[u] # "none"
  BY <1>1 DEF DataRight
<1>9. pte[u][p] \in AllFrames
  BY PageFrames
<1>10. CASE pte[u][p] = got[t][k]
  <2>1. u = sub[t]
    BY <1>7, <1>10
  <2>2. content'[pte[u][p]] = u
    BY <1>1, <1>5, <1>9, <1>10, <2>1 DEF MemTypes
  <2> QED BY <1>2, <2>1, <2>2 DEF DataRight
<1>11. CASE pte[u][p] # got[t][k]
  <2>1. content'[pte[u][p]] = content[pte[u][p]]
    BY <1>1, <1>5, <1>9, <1>11 DEF MemTypes
  <2>2. ASSUME NEW s \in Contexts, NEW i \in Nat, sub[s] = u, ToLoad(s, i), got[s][i] = pte[u][p]
        PROVE  sub'[s] = u /\ ToLoad(s, i)' /\ got'[s][i] = pte[u][p]
    BY <1>1, <1>8, <1>11, <2>2, OthersToLoad
  <2>3. ASSUME pc[u] # "none" PROVE pc'[u] # "none"
    BY <1>1, <2>3, OnlyReaped
  <2> QED BY <2>1, <2>2, <2>3 DEF DataRight
<1> QED BY <1>10, <1>11

\* MMAPAN clears the frame that it maps.
LEMMA PutData ==
    ASSUME SpaceInv, LocalTypes', DataRight, NEW t \in Tasks, StepOf(t), OthersWait(t), PassPut(t)
    PROVE  DataRight'
<1> USE DEF SpaceInv
<1>0. t \in Contexts /\ pc[t] = "mput"
  BY SizesRight DEF PassPut, At
<1> DEFINE q == base_page[t] + mapped[t] + at[t]
<1>1. q \in UserPages
  BY <1>0, PagesToMap
<1>2. PICK k \in Nat : k = at[t] + 1 /\ Fresh(t, k)
  BY PassPutFresh
<1>3. /\ pte' = [pte EXCEPT ![t][q] = got[t][k]] /\ use' = [use EXCEPT ![t][q] = "anon"]
      /\ content' = [content EXCEPT ![got[t][k]] = "zero"]
  BY <1>2 DEF PassPut, MapPage
<1>4. got[t][k] \in AllFrames
  BY <1>0, <1>2, FreshTypes
<1>5. pc'[t] # "none"
  BY <1>0, StepsGo
<1> HIDE DEF q
<1> SUFFICES ASSUME NEW u \in Tasks, NEW p \in UserPages, pte'[u][p] # 0
             PROVE  /\ use'[u][p] = "image" =>
                          \/ content'[pte'[u][p]] = u
                          \/ \E s \in Contexts, i \in Nat :
                                sub'[s] = u /\ ToLoad(s, i)' /\ got'[s][i] = pte'[u][p]
                    /\ use'[u][p] = "anon" => content'[pte'[u][p]] = "zero" /\ pc'[u] # "none"
  BY DEF DataRight
<1>6. CASE u = t /\ p = q
  <2>1. pte'[u][p] = got[t][k] /\ use'[u][p] = "anon"
    BY <1>1, <1>3, <1>6 DEF MemTypes
  <2>2. content'[got[t][k]] = "zero"
    BY <1>3, <1>4 DEF MemTypes
  <2> QED BY <1>5, <1>6, <2>1, <2>2
<1>7. CASE ~(u = t /\ p = q)
  <2>1. pte'[u][p] = pte[u][p] /\ use'[u][p] = use[u][p]
    BY <1>1, <1>3, <1>7 DEF MemTypes
  <2>2. pte[u][p] \in AllFrames /\ pte[u][p] # got[t][k]
    BY <1>0, <1>2, <2>1, PageFrames
  <2>3. content'[pte[u][p]] = content[pte[u][p]]
    BY <1>3, <2>2 DEF MemTypes
  <2>4. ASSUME NEW s \in Contexts, NEW i \in Nat, sub[s] = u, ToLoad(s, i), got[s][i] = pte[u][p]
        PROVE  sub'[s] = u /\ ToLoad(s, i)' /\ got'[s][i] = pte[u][p]
    <3>1. s # t
      BY <1>0, <2>4 DEF ToLoad
    <3>2. sub'[s] = sub[s] /\ ToLoad(s, i)' /\ got'[s][i] = got[s][i]
      BY <1>0, <2>4, <3>1, OthersToLoad
    <3> QED BY <2>4, <3>2
  <2>5. ASSUME pc[u] # "none" PROVE pc'[u] # "none"
    BY <1>0, <2>1, <2>5, OnlyReaped
  <2> QED BY <2>1, <2>3, <2>4, <2>5 DEF DataRight
<1> QED BY <1>6, <1>7

LEMMA DataStep ==
    ASSUME NoWindows, SpaceInv, SpaceInv', WindowsRight, LoadsRight, DataRight, [SpaceNext]_spaceVars
    PROVE  DataRight'
<1> USE DEF SpaceInv
<1>1. CASE StepOfNone
  <2>1. \A t \in Contexts, i \in Nat : (ToLoad(t, i)' <=> ToLoad(t, i)) /\ got'[t] = got[t] /\ sub'[t] = sub[t]
    BY <1>1 DEF StepOfNone, locals, ToLoad, Run
  <2>2. pte' = pte /\ use' = use /\ pc' = pc /\ \A f \in AllFrames : content'[f] = content[f] \/ f \in bitmap'
    BY <1>1 DEF StepOfNone, spaces, locals
  <2>3. \A u \in Tasks, p \in UserPages : pte[u][p] # 0 => content'[pte[u][p]] = content[pte[u][p]]
    BY <2>2, PageFrames, PageFramesNext
  <2>4. \A u \in Tasks, p \in UserPages : pte'[u][p] # 0 =>
          /\ use'[u][p] = "image" => \/ content'[pte'[u][p]] = u
                                     \/ \E t \in Contexts, i \in Nat :
                                           sub'[t] = u /\ ToLoad(t, i)' /\ got'[t][i] = pte'[u][p]
          /\ use'[u][p] = "anon" => content'[pte'[u][p]] = "zero" /\ pc'[u] # "none"
    BY <2>1, <2>2, <2>3 DEF DataRight
  <2> QED BY <2>4 DEF DataRight, Contexts
<1>2. ASSUME NEW t \in Contexts, StepOf(t), Quiet(t), OthersWait(t) PROVE DataRight'
  <2>1. CASE MapStep(t)
    BY <1>2, <2>1, MapData
  <2>2. CASE ElfWrite(t)
    BY <1>2, <2>2, WriteData
  <2>3. CASE PassPut(t)
    <3>1. t \in Tasks
      BY <1>2, <2>3
         DEF StepOf, CreateDir, ClearDir, SetRec, Collect, CollectFails, MapInRun, MapInRunMisses,
             ElfMap, ElfWrite, Start, Abandon, PassPut, At
    <3> QED BY <1>2, <2>3, <3>1, PutData
  <2>4. CASE ~MapStep(t) /\ ~ElfWrite(t) /\ ~PassPut(t)
    <3> SUFFICES ASSUME NEW u \in Tasks, NEW p \in UserPages, pte'[u][p] # 0
                 PROVE  /\ use'[u][p] = "image" =>
                              \/ content'[pte'[u][p]] = u
                              \/ \E s \in Contexts, i \in Nat :
                                    sub'[s] = u /\ ToLoad(s, i)' /\ got'[s][i] = pte'[u][p]
                        /\ use'[u][p] = "anon" => content'[pte'[u][p]] = "zero" /\ pc'[u] # "none"
      BY DEF DataRight
    <3>1. /\ pte'[u][p] = pte[u][p] /\ use'[u][p] = use[u][p]
          /\ content'[pte[u][p]] = content[pte[u][p]]
      BY <1>2, <2>4, PagesStay
    <3>2. ASSUME NEW s \in Contexts, NEW i \in Nat, sub[s] = u, ToLoad(s, i), got[s][i] = pte[u][p]
          PROVE  sub'[s] = u /\ ToLoad(s, i)' /\ got'[s][i] = pte[u][p]
      <4>1. CASE s # t
        BY <1>2, <3>2, <4>1, OthersToLoad
      <4>2. CASE s = t
        <5>1. pc[t] \in {"map", "load", "write"}
          BY <3>2, <4>2 DEF ToLoad
        <5>2. ElfMap(t)
          BY <1>2, <2>4, <5>1
             DEF MapStep, StepOf, CreateDir, ClearDir, SetRec, Collect, CollectFails,
                 Start, Abandon, Mmapan, PassGet, PassFails, PassPutFails, Undo, Munmap, Reap, At
        <5>3. sub' = sub /\ got' = got /\ at' = at /\ pc'[t] = "write" /\ pc[t] = "load"
          BY <5>2, StepsGo DEF ElfMap, At
        <5> QED BY <3>2, <4>2, <5>3 DEF ToLoad
      <4> QED BY <4>1, <4>2
    <3>3. ASSUME pc[u] # "none" PROVE pc'[u] # "none"
      BY <1>2, <3>3, OnlyReaped
    <3> QED BY <3>1, <3>2, <3>3 DEF DataRight
  <2> QED BY <2>1, <2>2, <2>3, <2>4
<1> QED BY <1>1, <1>2, StepsOfOne

-----------------------------------------------------------------------------
(* The boot.                                                               *)

\* Rounding up to a frame.
LEMMA RoundedUp ==
    /\ \A a \in Nat : Up(a) \in Nat /\ Up(a) * PageSize \in Nat /\ Up(a) * PageSize >= a
    /\ \A k \in Nat : Up(k * PageSize) = k
<1>1. PageSize \in Nat \ {0}
  BY PmmAssumption DEF PmmAssumption
<1>2. \A n \in Nat \ {0}, a \in Int : (a \div n) \in Int /\ (a \div n) * n <= a /\ a < (a \div n) * n + n
  OBVIOUS
<1>3. ASSUME NEW a \in Nat
      PROVE  Up(a) \in Nat /\ Up(a) * PageSize \in Nat /\ Up(a) * PageSize >= a
  <2>1. Up(a) \in Nat
    BY <1>3, FramesBelow
  <2>2. a + PageSize - 1 < Up(a) * PageSize + PageSize
    BY <1>1, <1>2 DEF Up
  <2>3. Up(a) * PageSize \in Nat
    BY <1>1, <2>1
  <2> QED BY <1>1, <2>1, <2>2, <2>3
<1>4. ASSUME NEW k \in Nat PROVE Up(k * PageSize) = k
  <2> DEFINE q == Up(k * PageSize)
  <2>1. k * PageSize \in Nat
    BY <1>1
  <2>2. q \in Nat
    BY <2>1, FramesBelow
  <2>3. q * PageSize <= k * PageSize + PageSize - 1 /\ k * PageSize + PageSize - 1 < q * PageSize + PageSize
    BY <1>1, <1>2, <2>1 DEF Up
  <2> HIDE DEF q
  <2>4. \A x, y \in Nat, n \in Nat \ {0} : x >= y + 1 => x * n >= y * n + n
    OBVIOUS
  <2>5. ~(q >= k + 1)
    BY <1>1, <2>1, <2>2, <2>3, <2>4
  <2>6. ~(k >= q + 1)
    BY <1>1, <2>1, <2>2, <2>3, <2>4
  <2>7. q = k
    BY <2>2, <2>5, <2>6
  <2> QED BY <2>7 DEF q
<1> QED BY <1>3, <1>4

LEMMA LeastIsIn ==
    ASSUME NEW S \in SUBSET Nat, S # {}
    PROVE  Least(S) \in S
<1>1. \E x \in S : \A y \in S : x <= y
  BY LeastNumber
<1> QED BY <1>1 DEF Least

\* carve_place finds a place of its own.
LEMMA CarvedApart ==
    ASSUME NEW m \in Maps, Bootable(m), LoadedLow(m)
    PROVE  BitmapIsPrivate(m)
<1>1. /\ PageSize \in Nat \ {0} /\ BitsPerByte \in Nat \ {0} /\ LOWMEM_END \in Nat \ {0}
      /\ PMM_IDENTITY_LIMIT \in Nat /\ PMM_PHYS_LIMIT \in Nat
      /\ m.regions \in Seq(Nat \X Nat)
      /\ m.kernel_end \in Nat /\ m.mod_start \in Nat /\ m.mod_end \in Nat
  BY PmmAssumption DEF PmmAssumption
<1> DEFINE i == Least(Candidates(m))
           r == m.regions[i]
           e == Lesser(r[2], PMM_PHYS_LIMIT)
           L == Lesser(e, PMM_IDENTITY_LIMIT)
           K == m.kernel_end
           P == Up(K) * PageSize
           B == BitmapBytes(m)
           A == BitmapAt(m)
           c == carve_skip(LOWMEM_END, L, LOWMEM_END, K)
           d == carve_skip(c, L, m.mod_start, m.mod_end)
<1>2. i \in Candidates(m)
  <2>1. Candidates(m) \in SUBSET Nat /\ Candidates(m) # {}
    BY <1>1 DEF Candidates, Bootable
  <2> QED BY <2>1, LeastIsIn
<1>3. i \in DOMAIN m.regions /\ r \in Nat \X Nat /\ r[1] \in Nat /\ r[2] \in Nat /\ r[1] < PMM_PHYS_LIMIT
  <2>1. i \in DOMAIN m.regions /\ r[1] < PMM_PHYS_LIMIT
    BY <1>2 DEF Candidates
  <2>2. r \in Nat \X Nat
    <3> HIDE DEF i
    <3> QED BY <1>1, <2>1
  <2> HIDE DEF r
  <2> QED BY <2>1, <2>2
<1>4. B \in Nat
  <2>1. FramesOf(m) + BitsPerByte - 1 \in Nat
    BY <1>1, BootFrames
  <2> QED BY <1>1, <2>1, Division DEF BitmapBytes
<1>5. A = CarveIn(m, <<r[1], e>>) /\ A # 0
  BY <1>2 DEF Candidates, BitmapAt
<1>6. A = Up(d) * PageSize /\ e > LOWMEM_END /\ L > A /\ L - A >= B
  BY <1>5 DEF CarveIn
<1>7. r[1] <= LOWMEM_END /\ LOWMEM_END < K /\ K <= L
  BY DEF LoadedLow
<1>8. \/ m.mod_end <= P
      \/ m.mod_start <= P /\ m.mod_end <= L
      \/ P + B <= m.mod_start
  BY DEF LoadedLow
<1>9. /\ e \in Nat /\ L \in Nat /\ L <= e /\ e <= r[2] /\ K \in Nat /\ P \in Nat /\ P >= K
      /\ <<r[1], e>> \in Usable(m)
  <2>1. <<r[1], e>> \in Usable(m)
    BY <1>3 DEF Usable
  <2>2. K \in Nat /\ P \in Nat /\ P >= K
    BY <1>1, RoundedUp
  <2>3. e \in Nat /\ e <= r[2]
    <3> HIDE DEF r
    <3>1. r[2] \in Nat /\ PMM_PHYS_LIMIT \in Nat
      BY <1>1, <1>3
    <3> QED BY <3>1 DEF Lesser
  <2>4. L \in Nat /\ L <= e
    <3> HIDE DEF e
    <3> QED BY <1>1, <2>3 DEF Lesser
  <2> QED BY <2>1, <2>2, <2>3, <2>4
<1>10. c = Lesser(P, L)
  BY <1>1, <1>7 DEF carve_skip
<1> HIDE DEF i, e, L, K, P, B, A, c
<1>11. P <= L
  <2>1. SUFFICES ASSUME P > L PROVE FALSE
    BY <1>9
  <2>2. c = L
    BY <1>9, <1>10, <2>1 DEF Lesser
  <2>3. d = L
    BY <1>1, <1>9, <2>2 DEF carve_skip
  <2> QED BY <1>1, <1>6, <1>9, <2>3, RoundedUp
<1>12. c = P
  BY <1>9, <1>10, <1>11 DEF Lesser
<1>13. A \in Nat /\ A >= K /\ (A >= m.mod_end \/ A + B <= m.mod_start)
  <2>1. CASE P >= m.mod_start /\ P < m.mod_end /\ m.mod_end <= L
    <3>1. d = Lesser(Up(m.mod_end) * PageSize, L)
      BY <1>12, <2>1 DEF carve_skip
    <3>2. d \in Nat /\ d >= m.mod_end
      BY <1>1, <1>9, <2>1, <3>1, RoundedUp DEF Lesser
    <3> HIDE DEF d
    <3>3. A >= m.mod_end /\ A \in Nat
      <4>1. Up(d) * PageSize >= d /\ Up(d) * PageSize \in Nat
        BY <3>2, RoundedUp
      <4> QED BY <1>1, <1>6, <3>2, <4>1
    <3> QED BY <1>1, <1>9, <2>1, <3>3
  <2>2. CASE ~(P >= m.mod_start /\ P < m.mod_end /\ m.mod_end <= L)
    <3>1. d = P
      BY <1>12, <2>2 DEF carve_skip
    <3>2. A = P
      <4>1. Up(K) \in Nat
        BY <1>9, RoundedUp
      <4> QED BY <1>6, <3>1, <4>1, RoundedUp DEF P
    <3> QED BY <1>1, <1>4, <1>8, <1>9, <2>2, <3>2
  <2> QED BY <2>1, <2>2
<1>14. r[1] <= A /\ A + B <= e
  <2> HIDE DEF r
  <2>1. L > A /\ L - A >= B
    BY <1>6
  <2>2. r[1] \in Nat /\ r[1] <= LOWMEM_END /\ LOWMEM_END < K /\ LOWMEM_END \in Nat
    BY <1>1, <1>3, <1>7
  <2>3. A \in Nat /\ A >= K /\ B \in Nat /\ L \in Nat /\ e \in Nat /\ K \in Nat /\ L <= e
    BY <1>4, <1>9, <1>13
  <2> QED BY <2>1, <2>2, <2>3
<1>15. \E s \in Usable(m) : s[1] <= A /\ A + B <= s[2]
  BY <1>9, <1>14
<1> QED BY <1>13, <1>15 DEF BitmapIsPrivate, A, B, K

-----------------------------------------------------------------------------
(* The invariant holds, and with it the property.                          *)

BootKept == mbi \in Maps /\ Bootable(mbi) /\ ram = BootFree(mbi)

RamInv == SpaceInv /\ NoDirLeft /\ BootKept /\ InRam
OwnInv == RamInv /\ WindowsRight /\ DirsRight /\ LoadsRight /\ DataRight

LEMMA BootOwn == SpaceInit => OwnInv
<1> SUFFICES ASSUME SpaceInit PROVE OwnInv
  OBVIOUS
<1>1. SpaceInv /\ NoDirLeft
  BY BootRight, BootApart, BootNoDir DEF SpaceInv
<1>2. BootKept
  BY DEF SpaceInit, BootKept
<1>3. /\ \A t \in Contexts : pc[t] \in {"user", "none"} /\ got[t] = <<>>
      /\ \A u \in Tasks : pc[u] = "none"
  BY SizesRight DEF SpaceInit
<1>4. WindowsRight /\ DirsRight /\ LoadsRight
  BY <1>3 DEF WindowsRight, DirsRight, LoadsRight, Loaded, Building
<1>5. DataRight
  BY DEF DataRight, SpaceInit
<1>6. InRam
  <2>1. \A x \in Uses : FrameAt(x) = 0
    BY DEF SpaceInit, Uses, FrameAt
  <2>2. \A t \in Contexts, i \in Nat : ~Fresh(t, i)
    BY <1>3 DEF Fresh
  <2>3. bitmap \subseteq ram /\ ktables \subseteq ram /\ heap = {}
    BY DEF SpaceInit
  <2>4. \A f \in AllFrames : f # 0
    BY DEF AllFrames
  <2> QED BY <2>1, <2>2, <2>3, <2>4 DEF InRam, Foreign
<1> QED BY <1>1, <1>2, <1>4, <1>5, <1>6 DEF OwnInv, RamInv

LEMMA RamStep ==
    ASSUME RamInv, [SpaceNext]_spaceVars
    PROVE  RamInv'
<1> USE DEF RamInv
<1>1. SpaceInv' /\ NoDirLeft'
  BY CallsStep, MemTypesStep, ApartStep, GapStep, NoDirLeftStep DEF SpaceInv
<1>2. BootKept'
  <2>1. UNCHANGED bootVars
    BY DEF SpaceNext, spaceVars, pmmVars, CreateDir, ClearDir, SetRec, Collect, CollectFails,
         MapInRun, MapInRunMisses, ElfMap, ElfWrite, Start, Abandon, Mmapan, PassGet, PassFails,
         PassPut, PassPutFails, Undo, Munmap, Reap, HeapTake, HeapGive, NoFrame
  <2> QED BY <2>1 DEF bootVars, BootKept
<1> QED BY <1>1, <1>2, InRamStep

LEMMA OwnStep ==
    ASSUME NoWindows, OwnInv, [SpaceNext]_spaceVars
    PROVE  OwnInv'
<1> USE DEF OwnInv
<1>1. RamInv'
  BY RamStep
<1>2. WindowsRight' /\ DirsRight'
  BY WindowsStep, DirsStep DEF RamInv
<1>3. LoadsRight' /\ DataRight'
  BY <1>1, LoadsStep, DataStep DEF RamInv
<1> QED BY <1>1, <1>2, <1>3

\* What the kernel occupies was never free.
LEMMA KernelUntouched ==
    ASSUME NEW m \in Maps
    PROVE  BootFree(m) \cap FramesIn(0, m.kernel_end) = {}
<1>1. LOWMEM_END \in Nat /\ m.kernel_end \in Nat /\ PageSize \in Nat \ {0}
  BY PmmAssumption DEF PmmAssumption
<1>2. Down(0) = 0 /\ Up(LOWMEM_END) \in Nat /\ Down(LOWMEM_END) \in Nat /\ Up(m.kernel_end) \in Nat
  BY <1>1, FramesBelow
<1>3. Down(LOWMEM_END) <= Up(LOWMEM_END)
  <2>1. LOWMEM_END + PageSize - 1 \in Nat /\ LOWMEM_END <= LOWMEM_END + PageSize - 1
    BY <1>1
  <2> QED BY <1>1, <2>1, Division DEF Down, Up
<1>4. FramesIn(0, m.kernel_end) \subseteq FramesIn(0, LOWMEM_END) \union FramesIn(LOWMEM_END, m.kernel_end)
  BY <1>2, <1>3 DEF FramesIn
<1> QED BY <1>4 DEF BootFree, InUse

\* What is in use at boot: nobody has it later, and the bitmap has a place of its own.
BootImageKept ==
    /\ bitmap \union InSpaces \union ktables \union heap \subseteq ram
    /\ ram \cap FramesIn(0, mbi.kernel_end) = {} /\ BitmapIsPrivate(mbi)

LEMMA RamKeepsBoot ==
    ASSUME RamInv, \A m \in Maps : LoadedLow(m)
    PROVE  BootImageKept
<1> USE DEF RamInv, SpaceInv
<1>1. \A x \in Uses : FrameAt(x) \in FrameOr0 /\ x[2] # Kernel
  BY PlaceTypes, SizesRight DEF Uses
<1>2. InSpaces \subseteq ram
  BY <1>1, FrameSets DEF InSpaces, InRam, Foreign
<1>3. bitmap \subseteq ram /\ ktables \subseteq ram /\ heap \subseteq ram
  BY DEF InRam, Foreign, MemTypes
<1>4. ram \cap FramesIn(0, mbi.kernel_end) = {} /\ BitmapIsPrivate(mbi)
  BY KernelUntouched, CarvedApart DEF BootKept
<1> QED BY <1>2, <1>3, <1>4 DEF BootImageKept

LEMMA OwnSpaces ==
    ASSUME OwnInv, \A m \in Maps : LoadedLow(m)
    PROVE  SpacesAreOwn
<1> USE DEF OwnInv, RamInv, SpaceInv
<1>1. ASSUME NEW u \in Tasks, pc[u] # "none"
      PROVE  /\ dir[u] # 0 /\ rec[u] = dir[u]
             /\ \A p \in UserPages : pte[u][p] # 0 =>
                   /\ use[u][p] = "image" => content[pte[u][p]] = u
                   /\ use[u][p] = "anon" => content[pte[u][p]] = "zero"
  <2>1. ASSUME NEW t \in Contexts, NEW i \in Nat, sub[t] = u, ToLoad(t, i) PROVE FALSE
    <3>1. pc[t] \in Building
      BY <2>1 DEF ToLoad, Building
    <3> QED BY <1>1, <2>1, <3>1 DEF CallsRight, BuildsRight
  <2> QED BY <1>1, <2>1 DEF DirsRight, DataRight
<1> QED BY <1>1, RamKeepsBoot DEF SpacesAreOwn, BootImageKept

\* On every machine that loads the kernel and its module low (LoadedLow), and wherever
\* ticks fall: a frame that pmm_allocp hands out, or that is in a space, the kernel heap
\* or the kernel's tables, was free at boot, and no such frame holds the kernel.
THEOREM BootImageUntouched ==
    ASSUME \A m \in Maps : LoadedLow(m)
    PROVE  SpaceSpec => []BootImageKept
<1>1. SpaceInit => RamInv
  BY BootOwn DEF OwnInv
<1>2. RamInv /\ [SpaceNext]_spaceVars => RamInv'
  BY RamStep
<1>3. RamInv => BootImageKept
  BY RamKeepsBoot
<1> QED BY <1>1, <1>2, <1>3, PTL DEF SpaceSpec

\* As long as no tick falls between the mapping of a scratch page and its last use, and
\* on every machine that loads the kernel and its module low (LoadedLow): a running
\* task has its own directory, the image of its program and cleared memory, and what
\* the boot image uses is never handed out.
THEOREM SpacesStayOwn ==
    ASSUME NoWindows, \A m \in Maps : LoadedLow(m)
    PROVE  SpaceSpec => []SpacesAreOwn
<1>1. SpaceInit => OwnInv
  BY BootOwn
<1>2. OwnInv /\ [SpaceNext]_spaceVars => OwnInv'
  BY OwnStep
<1>3. OwnInv => SpacesAreOwn
  BY OwnSpaces
<1> QED BY <1>1, <1>2, <1>3, PTL DEF SpaceSpec
=============================================================================
