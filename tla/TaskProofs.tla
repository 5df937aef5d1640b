----------------------------- MODULE TaskProofs -----------------------------
(***************************************************************************)
(* For any number of task_t, of creators, waiters and readers: the         *)
(* scheduler never runs out of tasks, and never runs on the stack of a     *)
(* task that somebody has reaped or recycled; and nothing ends a sleep     *)
(* early.  The argument does not use the task list, so it holds in spite   *)
(* of the races on it.                                                     *)
(***************************************************************************)
EXTENDS Task, DataLemmas

InFlight == {"build", "push", "add"}

\* The idle task is what keeps the ring from running dry: it is always in it,
\* and never blocks.
IdleStaysRunnable ==
    InRing(Idle) /\ state[Idle] \in {"READY", "RUNNING"} /\ pc[Idle] = "user"

\* A task inside PROCREATE is in the ring and runnable, and the task it builds
\* is READY and not yet in the ring.
CreatorsAreRunnable ==
    \A t \in Slots : pc[t] \in InFlight =>
        InRing(t) /\ state[t] \in {"READY", "RUNNING"} /\ state[arg[t]] = "READY"

\* A task that has ended stays in the ring until it is reaped or recycled.
EndedInRing == \A t \in Slots : state[t] = "TERMINATED" => InRing(t)

\* The inductive invariant.
IInv ==
    /\ TypeOK
    /\ NeverPanics
    /\ RunsOnLiveStack
    /\ RingOfLiveTasks
    /\ BuildsAreExclusive
    /\ IdleStaysRunnable
    /\ CreatorsAreRunnable
    /\ EndedInRing

-----------------------------------------------------------------------------
(* The ring.                                                               *)

In(q, t) == \E i \in DOMAIN q : q[i] = t
Injective(q) == \A i, j \in DOMAIN q : q[i] = q[j] => i = j

\* sched_add puts t into the ring and keeps what is there, each task once.
LEMMA AddedRing ==
    ASSUME NEW q \in Seq(Slots), Injective(q), NEW t \in Slots, ~In(q, t)
    PROVE  /\ Added(q, t) \in Seq(Slots)
           /\ Injective(Added(q, t))
           /\ \A u \in Slots : In(Added(q, t), u) <=> In(q, u) \/ u = t
<1> DEFINE f == Added(q, t)
<1>0. Len(q) \in Nat /\ DOMAIN q = 1..Len(q) /\ (q = <<>> <=> Len(q) = 0)
  OBVIOUS
<1>1. f \in [1..(Len(q) + 1) -> Slots]
  BY <1>0 DEF Added
<1>2. f \in Seq(Slots) /\ DOMAIN f = 1..(Len(q) + 1)
  BY <1>0, <1>1, FcnIsSeq
<1>3. /\ \A j \in DOMAIN f : f[j] = t \/ In(q, f[j])
      /\ In(f, t)
      /\ \A i \in DOMAIN q : In(f, q[i])
  <2>1. \A j \in DOMAIN f : f[j] = t \/ In(q, f[j])
    BY <1>0, <1>2 DEF Added, In
  <2>2. In(f, t)
    <3>1. CASE q = <<>>
      <4>1. 1 \in DOMAIN f /\ f[1] = t
        BY <3>1, <1>0, <1>2 DEF Added
      <4> QED BY <4>1 DEF In
    <3>2. CASE q # <<>>
      <4>1. 2 \in DOMAIN f /\ f[2] = t
        BY <3>2, <1>0, <1>2 DEF Added
      <4> QED BY <4>1 DEF In
    <3> QED BY <3>1, <3>2
  <2>3. ASSUME NEW i \in DOMAIN q PROVE In(f, q[i])
    <3>1. CASE i = 1
      <4>1. 1 \in DOMAIN f /\ f[1] = q[i]
        BY <3>1, <1>0, <1>2 DEF Added
      <4> QED BY <4>1 DEF In
    <3>2. CASE i # 1
      <4>1. i + 1 \in DOMAIN f /\ f[i + 1] = q[i]
        BY <3>2, <1>0, <1>2 DEF Added
      <4> QED BY <4>1 DEF In
    <3> QED BY <3>1, <3>2
  <2> QED BY <2>1, <2>2, <2>3
<1>4. Injective(f)
  <2> SUFFICES ASSUME NEW i \in DOMAIN f, NEW j \in DOMAIN f, f[i] = f[j]
               PROVE  i = j
    BY DEF Injective
  <2> QED BY <1>0, <1>2 DEF Added, Injective, In
<1> QED BY <1>2, <1>3, <1>4 DEF In

\* sched_remove takes t out of the ring and nothing else.
LEMMA RemovedRing ==
    ASSUME NEW q \in Seq(Slots), Injective(q), NEW t \in Slots
    PROVE  /\ Removed(q, t) \in Seq(Slots)
           /\ Injective(Removed(q, t))
           /\ \A u \in Slots : In(Removed(q, t), u) <=> In(q, u) /\ u # t
<1>1. CASE ~In(q, t)
  BY <1>1 DEF Removed, In
<1>2. CASE In(q, t)
  <2> DEFINE m == CHOOSE i \in DOMAIN q : q[i] = t
             f == WithoutAt(q, m)
  <2>1. m \in DOMAIN q /\ q[m] = t /\ Removed(q, t) = f
    BY <1>2 DEF In, Removed
  <2>2. Len(q) \in Nat /\ DOMAIN q = 1..Len(q)
    OBVIOUS
  <2> HIDE DEF m
  <2>3. Len(q) - 1 \in Nat
    BY <2>1, <2>2
  <2>4. f \in [1..(Len(q) - 1) -> Slots]
    BY <2>1, <2>2 DEF WithoutAt
  <2>5. f \in Seq(Slots) /\ DOMAIN f = 1..(Len(q) - 1)
    BY <2>3, <2>4, FcnIsSeq
  <2>6. ASSUME NEW j \in DOMAIN f PROVE In(q, f[j]) /\ f[j] # t
    <3>1. \E k \in DOMAIN q : f[j] = q[k] /\ k # m
      <4>1. CASE m = 1 /\ j = 1
        <5>1. f[j] = q[Len(q)] /\ Len(q) \in DOMAIN q /\ Len(q) # m
          BY <4>1, <2>1, <2>2, <2>5 DEF WithoutAt
        <5> QED BY <5>1
      <4>2. CASE (m = 1 /\ j # 1) \/ j < m
        <5>1. f[j] = q[j] /\ j \in DOMAIN q /\ j # m
          BY <4>2, <2>1, <2>2, <2>5 DEF WithoutAt
        <5> QED BY <5>1
      <4>3. CASE m # 1 /\ j >= m
        <5>1. f[j] = q[j + 1] /\ j + 1 \in DOMAIN q /\ j + 1 # m
          BY <4>3, <2>1, <2>2, <2>5 DEF WithoutAt
        <5> QED BY <5>1
      <4> QED BY <4>1, <4>2, <4>3, <2>1, <2>2, <2>5
    <3> QED BY <3>1, <2>1 DEF In, Injective
  <2>7. ASSUME NEW i \in DOMAIN q, q[i] # t PROVE In(f, q[i])
    <3>1. CASE m = 1 /\ i = Len(q)
      <4>0. Len(q) > 1
        BY <3>1, <2>1, <2>2, <2>7
      <4>1. 1 \in DOMAIN f /\ f[1] = q[i]
        BY <3>1, <4>0, <2>1, <2>2, <2>5 DEF WithoutAt
      <4> QED BY <4>1 DEF In
    <3>2. CASE (m = 1 /\ i < Len(q)) \/ i < m
      <4>1. i \in DOMAIN f /\ f[i] = q[i]
        BY <3>2, <2>1, <2>2, <2>5, <2>7 DEF WithoutAt
      <4> QED BY <4>1 DEF In
    <3>3. CASE m # 1 /\ i > m
      <4>1. i - 1 \in DOMAIN f /\ f[i - 1] = q[i]
        BY <3>3, <2>1, <2>2, <2>5, <2>7 DEF WithoutAt
      <4> QED BY <4>1 DEF In
    <3> QED BY <3>1, <3>2, <3>3, <2>1, <2>2, <2>7
  <2>8. Injective(f)
    <3> SUFFICES ASSUME NEW i \in DOMAIN f, NEW j \in DOMAIN f, f[i] = f[j]
                 PROVE  i = j
      BY DEF Injective
    <3> QED BY <2>1, <2>2, <2>5 DEF WithoutAt, Injective
  <2> QED BY <2>1, <2>5, <2>6, <2>7, <2>8 DEF In
<1> QED BY <1>1, <1>2

-----------------------------------------------------------------------------
(* sched_schedule.                                                         *)

\* Entered with a runnable idle task in the ring, sched_schedule switches to a
\* task of the ring that was READY, and does not panic.
LEMMA ScheduleRuns ==
    ASSUME SlotsAssumption, current \in Slots, ring \in Seq(Slots), InRing(current),
           InRing(Idle), NEW st \in [Slots -> States],
           st[Idle] \in {"READY", "RUNNING"},
           \A t \in Slots \ {current} : st[t] # "RUNNING",
           Schedule(st)
    PROVE  /\ ring' = ring /\ panicked' = panicked
           /\ current' \in Slots /\ InRing(current')
           /\ state' \in [Slots -> States]
           /\ state'[current'] = "RUNNING"
           /\ current' # current => st[current'] = "READY"
           /\ current' = current => st[current] \in {"READY", "RUNNING"}
           /\ \A t \in Slots \ {current'} :
                 state'[t] = IF st[t] = "RUNNING" THEN "READY" ELSE st[t]
<1> DEFINE st1 == [st EXCEPT ![current] = IF @ = "RUNNING" THEN "READY" ELSE @]
           i   == CHOOSE i \in DOMAIN ring : ring[i] = current
           K   == {k \in Lookups : st1[After(ring, i, k)] = "READY"}
<1>1. Len(ring) \in Nat /\ DOMAIN ring = 1..Len(ring)
  OBVIOUS
<1>2. i \in DOMAIN ring /\ ring[i] = current
  BY DEF InRing
<1>3. st1 \in [Slots -> States] /\ st1[Idle] = "READY"
  BY DEF States, SlotsAssumption
<1>4. /\ UNCHANGED ring
      /\ \/ \E k \in K :
              /\ current' = After(ring, i, k)
              /\ state' = [st1 EXCEPT ![After(ring, i, k)] = "RUNNING"]
              /\ UNCHANGED panicked
         \/ K = {}
  BY DEF Schedule
<1> HIDE DEF i
<1>5. \A k \in 1..Len(ring) : \E j \in DOMAIN ring : After(ring, i, k) = ring[j]
  BY <1>1, <1>2 DEF After
<1>6. \E k \in 1..Len(ring) : After(ring, i, k) = Idle
  <2>1. PICK j \in DOMAIN ring : ring[j] = Idle
    BY DEF InRing
  <2>2. CASE j > i
    <3>1. j - i \in 1..Len(ring) /\ After(ring, i, j - i) = Idle
      BY <2>1, <2>2, <1>1, <1>2 DEF After
    <3> QED BY <3>1
  <2>3. CASE j <= i
    <3>1. j - i + Len(ring) \in 1..Len(ring) /\ After(ring, i, j - i + Len(ring)) = Idle
      BY <2>1, <2>3, <1>1, <1>2 DEF After
    <3> QED BY <3>1
  <2> QED BY <2>1, <2>2, <2>3, <1>1, <1>2
<1>7. K # {}
  BY <1>3, <1>6 DEF Lookups
<1>8. PICK k \in K : /\ current' = After(ring, i, k)
                     /\ state' = [st1 EXCEPT ![After(ring, i, k)] = "RUNNING"]
                     /\ UNCHANGED panicked
  BY <1>4, <1>7
<1>9. PICK j \in DOMAIN ring : current' = ring[j]
  BY <1>5, <1>8 DEF Lookups
<1>10. st1[current'] = "READY" /\ current' \in Slots
  <2>1. st1[After(ring, i, k)] = "READY"
    BY <1>8
  <2>2. ring[j] \in Slots
    OBVIOUS
  <2> QED BY <2>1, <2>2, <1>8, <1>9
<1> QED BY <1>3, <1>4, <1>8, <1>9, <1>10 DEF InRing, States

-----------------------------------------------------------------------------
(* The invariant without the types, and two kinds of step that keep it.    *)

Core ==
    /\ NeverPanics
    /\ RunsOnLiveStack
    /\ RingOfLiveTasks
    /\ BuildsAreExclusive
    /\ IdleStaysRunnable
    /\ CreatorsAreRunnable
    /\ EndedInRing

\* Steps that wake BLOCKED tasks, perhaps block or end the one that runs, and
\* call sched_schedule.
LEMMA Rescheduled ==
    ASSUME SlotsAssumption, TypeOK, Core, NEW st \in [Slots -> States],
           \A t \in Slots \ {current} :
              st[t] = state[t] \/ (state[t] = "BLOCKED" /\ st[t] = "READY"),
           st[current] \in {"RUNNING", "BLOCKED", "TERMINATED"},
           current = Idle \/ pc[current] \in InFlight => st[current] = "RUNNING",
           Schedule(st), heap' = heap,
           \A t \in Slots : pc'[t] \in InFlight => pc[t] \in InFlight /\ arg'[t] = arg[t],
           pc'[Idle] = "user"
    PROVE  /\ Core'
           /\ current' \in Slots /\ ring' \in Seq(Slots)
           /\ state' \in [Slots -> States] /\ panicked' \in BOOLEAN
<1> USE DEF Core
<1>1. /\ current \in Slots /\ ring \in Seq(Slots) /\ InRing(current) /\ InRing(Idle)
      /\ Idle \in Slots /\ state \in [Slots -> States] /\ state[current] = "RUNNING"
  BY DEF TypeOK, RunsOnLiveStack, IdleStaysRunnable, SlotsAssumption
<1>2. st[Idle] \in {"READY", "RUNNING"}
  BY <1>1 DEF IdleStaysRunnable
<1>3. \A t \in Slots \ {current} : st[t] # "RUNNING"
  BY <1>1 DEF RunsOnLiveStack
<1>4. /\ ring' = ring /\ panicked' = panicked
      /\ current' \in Slots /\ InRing(current')
      /\ state' \in [Slots -> States]
      /\ state'[current'] = "RUNNING"
      /\ current' # current => st[current'] = "READY"
      /\ current' = current => st[current] \in {"READY", "RUNNING"}
      /\ \A t \in Slots \ {current'} :
            state'[t] = IF st[t] = "RUNNING" THEN "READY" ELSE st[t]
  BY <1>1, <1>2, <1>3, ScheduleRuns
<1>5. \A t \in Slots : InRing(t)' <=> InRing(t)
  BY <1>4 DEF InRing
<1>6. NeverPanics'
  BY <1>4 DEF NeverPanics
<1>7. RunsOnLiveStack'
  <2>1. current' \in heap' /\ InRing(current)'
    BY <1>4 DEF RingOfLiveTasks, InRing
  <2> QED BY <2>1, <1>4 DEF RunsOnLiveStack
<1>8. RingOfLiveTasks'
  <2>1. \A t \in Slots : state[t] # "NONE" => state'[t] # "NONE"
    BY <1>1, <1>4
  <2> QED BY <2>1, <1>4, <1>5 DEF RingOfLiveTasks
<1>9. \A t \in Slots : state[t] = "READY" => state'[t] \in {"READY", "RUNNING"}
  BY <1>1, <1>4
<1>10. BuildsAreExclusive'
  <2> SUFFICES ASSUME NEW t \in Slots, pc'[t] \in InFlight
               PROVE  /\ arg'[t] \in heap' /\ ~InRing(arg[t])'
                      /\ \A u \in Slots \ {t} : pc'[u] \in InFlight => arg'[u] # arg'[t]
    BY DEF BuildsAreExclusive, InFlight
  <2>1. /\ pc[t] \in InFlight /\ arg'[t] = arg[t]
        /\ arg[t] \in heap /\ arg[t] \in Slots /\ ~InRing(arg[t])
    BY DEF Core, BuildsAreExclusive, InFlight, TypeOK
  <2>2. ASSUME NEW u \in Slots \ {t}, pc'[u] \in InFlight PROVE arg'[u] # arg'[t]
    BY <2>1, <2>2 DEF Core, BuildsAreExclusive, InFlight
  <2> QED BY <2>1, <2>2, <1>5
<1>11. IdleStaysRunnable'
  BY <1>1, <1>2, <1>4, <1>5 DEF IdleStaysRunnable
<1>12. CreatorsAreRunnable'
  <2> SUFFICES ASSUME NEW t \in Slots, pc'[t] \in InFlight
               PROVE  InRing(t)' /\ state'[t] \in {"READY", "RUNNING"} /\ state'[arg'[t]] = "READY"
    BY DEF CreatorsAreRunnable
  <2>1. /\ pc[t] \in InFlight /\ arg'[t] = arg[t] /\ InRing(t)
        /\ state[t] \in {"READY", "RUNNING"} /\ state[arg[t]] = "READY"
    BY DEF CreatorsAreRunnable
  <2>2. arg[t] \in Slots /\ ~InRing(arg[t])
    BY <2>1 DEF BuildsAreExclusive, InFlight, TypeOK
  <2>3. arg[t] # current /\ arg[t] # current'
    BY <2>2, <1>1, <1>4
  <2>4. state'[arg[t]] = "READY"
    BY <2>1, <2>2, <2>3, <1>1, <1>4
  <2>5. state'[t] \in {"READY", "RUNNING"}
    <3>1. CASE t = current'
      BY <3>1, <1>4
    <3>2. CASE t # current' /\ t = current
      BY <3>2, <2>1, <1>4
    <3>3. CASE t # current' /\ t # current
      BY <3>3, <2>1, <1>4
    <3> QED BY <3>1, <3>2, <3>3
  <2> QED BY <2>1, <2>4, <2>5, <1>5
<1>13. EndedInRing'
  BY <1>1, <1>4, <1>5 DEF EndedInRing
<1> QED BY <1>1, <1>4, <1>6, <1>7, <1>8, <1>10, <1>11, <1>12, <1>13 DEF TypeOK

\* Steps of the running task that leave the scheduler and the heap alone.
LEMMA Unscheduled ==
    ASSUME SlotsAssumption, TypeOK, Core, UNCHANGED <<schedVars, heap>>,
           \A t \in Slots : pc'[t] \in InFlight => pc[t] \in InFlight /\ arg'[t] = arg[t],
           pc'[Idle] = "user"
    PROVE  Core'
<1>1. \A t \in Slots : InRing(t)' <=> InRing(t)
  BY DEF InRing, schedVars
<1>2. NeverPanics' /\ RunsOnLiveStack' /\ RingOfLiveTasks' /\ IdleStaysRunnable'
  BY <1>1 DEF Core, NeverPanics, RunsOnLiveStack, RingOfLiveTasks, IdleStaysRunnable,
              InRing, schedVars
<1>3. BuildsAreExclusive'
  <2> SUFFICES ASSUME NEW t \in Slots, pc'[t] \in InFlight
               PROVE  /\ arg'[t] \in heap' /\ ~InRing(arg[t])'
                      /\ \A u \in Slots \ {t} : pc'[u] \in InFlight => arg'[u] # arg'[t]
    BY DEF BuildsAreExclusive, InFlight
  <2>1. /\ pc[t] \in InFlight /\ arg'[t] = arg[t]
        /\ arg[t] \in heap /\ arg[t] \in Slots /\ ~InRing(arg[t])
    BY DEF Core, BuildsAreExclusive, InFlight, TypeOK
  <2>2. ASSUME NEW u \in Slots \ {t}, pc'[u] \in InFlight PROVE arg'[u] # arg'[t]
    BY <2>1, <2>2 DEF Core, BuildsAreExclusive, InFlight
  <2> QED BY <2>1, <2>2, <1>1
<1>4. CreatorsAreRunnable' /\ EndedInRing'
  BY <1>1 DEF Core, CreatorsAreRunnable, EndedInRing, schedVars
<1> QED BY <1>2, <1>3, <1>4 DEF Core

-----------------------------------------------------------------------------
(* Every step keeps the types.                                             *)

\* task_list_unlink leaves pointers to tasks, or null.
LEMMA UnlinkedType ==
    ASSUME TypeOK, NEW t \in Slots
    PROVE  /\ Unlinked(t) \in [Slots -> Slots \union {Nil}]
           /\ UnlinkedHead(t) \in Slots \union {Nil}
  BY DEF TypeOK, Unlinked, UnlinkedHead

\* The task that WAIT is called for is one of those ever created, or none.
LEMMA HolderType ==
    ASSUME TypeOK, NEW p
    PROVE  Holder(p) \in Nat
<1> DEFINE H == {gen[u] : u \in {v \in Slots : IsFirst(v, WithPid(p))}}
<1>1. H \subseteq Nat
  BY DEF TypeOK
<1>2. Holder(p) = IF H = {} THEN 0 ELSE CHOOSE g \in H : TRUE
  BY DEF Holder
<1>3. CASE H = {}
  BY <1>2, <1>3
<1>4. CASE H # {}
  <2> HIDE DEF H
  <2>1. (CHOOSE g \in H : TRUE) \in H
    BY <1>4
  <2> QED BY <2>1, <1>1, <1>2, <1>4
<1> QED BY <1>3, <1>4

\* The part of TypeOK that sched_schedule does not touch.
LowerTypes ==
    /\ heap \subseteq Slots
    /\ task_list \in Slots \union {Nil}
    /\ task_next \in [Slots -> Slots \union {Nil}]
    /\ pid \in [Slots -> Nat]
    /\ pid_waiting_on \in [Slots -> Nat]
    /\ exit_code \in [Slots -> Codes \union {0, FAULT_EXIT_CODE}]
    /\ wake_in \in [Slots -> Int]
    /\ pc \in [Slots -> Places]
    /\ arg \in [Slots -> Slots \union Nat]
    /\ born \in Seq(Nat)
    /\ gen \in [Slots -> Nat] /\ asked \in [Slots -> Nat]
    /\ elapsed \in [Slots -> Nat]

\* TypeOK is the types of what the scheduler writes together with LowerTypes.
LEMMA TypesSplit ==
    TypeOK <=> /\ current \in Slots /\ ring \in Seq(Slots)
               /\ state \in [Slots -> States] /\ panicked \in BOOLEAN
               /\ LowerTypes
  BY DEF TypeOK, LowerTypes

\* No step stores a value of the wrong type outside the scheduler.
LEMMA LowerTypesStep ==
    ASSUME SlotsAssumption, TypeOK, Core, Next
    PROVE  LowerTypes'
<1> USE DEF LowerTypes, Places
<1>0. LowerTypes
  BY TypesSplit
<1>t. ASSUME NEW t \in Slots, pc[t] \in {"build", "push", "add"} PROVE arg[t] \in Slots
  BY <1>t, TypesSplit DEF Core, BuildsAreExclusive
<1>1. CASE Timer
  <2>1. wake_in' \in [Slots -> Int]
    <3>1. wake_in' = [t \in Slots |->
                        IF wake_in[t] = Never \/ t \in Due THEN Never
                        ELSE IF wake_in[t] > 0 THEN wake_in[t] - 1 ELSE 0]
      BY <1>1 DEF Timer
    <3>2. \A t \in Slots : wake_in[t] \in Int
      BY <1>0
    <3> QED BY <3>1, <3>2 DEF Never
  <2>2. elapsed' \in [Slots -> Nat]
    <3>1. elapsed' = [t \in Slots |->
                        IF pc[t] = "sleep" /\ elapsed[t] <= MaxSleep
                        THEN elapsed[t] + 1 ELSE elapsed[t]]
      BY <1>1 DEF Timer
    <3>2. \A t \in Slots : elapsed[t] \in Nat
      BY <1>0
    <3> QED BY <3>1, <3>2
  <2> QED BY <2>1, <2>2, <1>1, <1>0 DEF Timer, listVars
<1>2. ASSUME NEW t \in Slots, DevWake(t) PROVE LowerTypes'
  BY <1>2, <1>0 DEF DevWake, listVars, callVars, history
<1>3. ASSUME NEW t \in Slots, DevBlock(t) PROVE LowerTypes'
  BY <1>3, <1>0 DEF DevBlock, listVars, history
<1>4. ASSUME NEW t \in Slots, DevReturn(t) PROVE LowerTypes'
  BY <1>4, <1>0 DEF DevReturn, listVars, history
<1>5. ASSUME NEW t \in Slots, BuildFail(t) PROVE LowerTypes'
  <2>1. arg[t] \in Slots
    BY <1>5, <1>t DEF BuildFail, At
  <2> QED BY <2>1, <1>5, <1>0, UnlinkedType DEF BuildFail, history
<1>6. ASSUME NEW t \in Slots, NEW p \in Pids, Wait(t, p) PROVE LowerTypes'
  <2>1. Holder(p) \in Nat
    BY HolderType
  <2>2. p \in Nat
    BY DEF Pids
  <2> QED BY <2>1, <2>2, <1>6, <1>0 DEF Wait, listVars
<1>7. ASSUME NEW t \in Slots, NEW c \in Codes \union {FAULT_EXIT_CODE}, Exit(t, c)
      PROVE  LowerTypes'
  BY <1>7, <1>0 DEF Exit, callVars, history
<1>8. ASSUME NEW t \in Slots, Yield(t) PROVE LowerTypes'
  BY <1>8, <1>0 DEF Yield, listVars, callVars, history
<1>9. ASSUME NEW t \in Slots, NEW cs \in 1..MaxSleep, Sleep(t, cs) PROVE LowerTypes'
  <2>1. cs \in Nat /\ cs + 1 \in Int
    BY DEF SlotsAssumption
  <2>2. wake_in' \in [Slots -> Int]
    BY <2>1, <1>9, <1>0 DEF Sleep
  <2>3. pc' \in [Slots -> Places] /\ arg' \in [Slots -> Slots \union Nat]
    BY <2>1, <1>9, <1>0 DEF Sleep
  <2> QED BY <2>2, <2>3, <1>9, <1>0 DEF Sleep, listVars
<1>10. ASSUME NEW t \in Slots, NEW u \in Slots, NEW q, NEW lst, Allocated(t, u, q, lst)
       PROVE  /\ pid' \in [Slots -> Nat] /\ wake_in' \in [Slots -> Int]
              /\ pc' \in [Slots -> Places] /\ arg' \in [Slots -> Slots \union Nat]
              /\ gen' \in [Slots -> Nat] /\ UNCHANGED <<born, asked, elapsed>>
  <2>1. PICK p \in Pids : pid' = [pid EXCEPT ![u] = p]
    BY <1>10 DEF Allocated
  <2>2. p \in Nat
    BY DEF Pids
  <2>3. pid' \in [Slots -> Nat]
    BY <2>1, <2>2, <1>0
  <2>4. wake_in' \in [Slots -> Int]
    BY <1>10, <1>0 DEF Allocated, Never
  <2>5. pc' \in [Slots -> Places]
    BY <1>10, <1>0 DEF Allocated
  <2>6. arg' \in [Slots -> Slots \union Nat] /\ gen' \in [Slots -> Nat]
    BY <1>10, <1>0 DEF Allocated
  <2> QED BY <2>3, <2>4, <2>5, <2>6, <1>10 DEF Allocated
<1>11. ASSUME NEW t \in Slots, NEW u \in Slots, AllocRecycled(t, u) PROVE LowerTypes'
  <2>1. Allocated(t, u, Removed(ring, u), Listed \ {u})
    BY <1>11 DEF AllocRecycled
  <2> QED BY <2>1, <1>10, <1>11, <1>0, UnlinkedType DEF AllocRecycled
<1>12. ASSUME NEW t \in Slots, NEW u \in Slots, AllocFresh(t, u) PROVE LowerTypes'
  <2>1. Allocated(t, u, ring, Listed)
    BY <1>12 DEF AllocFresh
  <2> QED BY <2>1, <1>10, <1>12, <1>0 DEF AllocFresh
<1>13. ASSUME NEW t \in Slots, WaitNotFound(t) PROVE LowerTypes'
  BY <1>13, <1>0 DEF WaitNotFound
<1>14. ASSUME NEW t \in Slots, NEW u \in Slots, WaitReap(t, u) PROVE LowerTypes'
  BY <1>14, <1>0, UnlinkedType DEF WaitReap
<1>15. ASSUME NEW t \in Slots, NEW u \in Slots, WaitBlock(t, u) PROVE LowerTypes'
  <2>1. arg[t] = pid[u]
    BY <1>15 DEF WaitBlock, IsFirst, WithPid
  <2>2. arg[t] \in Nat
    BY <2>1, <1>0
  <2> QED BY <2>2, <1>15, <1>0 DEF WaitBlock, callVars, history
<1>16. ASSUME NEW t \in Slots, SleepReturn(t) PROVE LowerTypes'
  BY <1>16, <1>0 DEF SleepReturn, listVars, history
<1>17. ASSUME NEW t \in Slots, PushLoad(t) PROVE LowerTypes'
  BY <1>17, <1>0 DEF PushLoad, history
<1>18. ASSUME NEW t \in Slots, PushStore(t) PROVE LowerTypes'
  <2>1. arg[t] \in Slots
    BY <1>18, <1>t DEF PushStore, At
  <2>2. Append(born, pid[arg[t]]) \in Seq(Nat) /\ Len(born) + 1 \in Nat
    BY <2>1, <1>0
  <2>3. gen' \in [Slots -> Nat] /\ asked' \in [Slots -> Nat]
    BY <2>1, <2>2, <1>18, <1>0 DEF PushStore
  <2>4. born' \in Seq(Nat) /\ pc' \in [Slots -> Places]
    BY <2>2, <1>18, <1>0 DEF PushStore
  <2> QED BY <2>1, <2>3, <2>4, <1>18, <1>0 DEF PushStore
<1>19. ASSUME NEW t \in Slots, SchedAdd(t) PROVE LowerTypes'
  BY <1>19, <1>0 DEF SchedAdd, listVars, history
<1>20. ASSUME NEW t \in Slots, ProcreateReturn(t) PROVE LowerTypes'
  BY <1>20, <1>0 DEF ProcreateReturn, listVars, history
<1> QED BY <1>1, <1>2, <1>3, <1>4, <1>5, <1>6, <1>7, <1>8, <1>9, <1>11, <1>12, <1>13,
           <1>14, <1>15, <1>16, <1>17, <1>18, <1>19, <1>20 DEF Next, Call, Continue

-----------------------------------------------------------------------------
(* Every step keeps the core.                                              *)

\* What the scheduler's variables are after a step.
Upper == /\ Core
         /\ current \in Slots /\ ring \in Seq(Slots)
         /\ state \in [Slots -> States] /\ panicked \in BOOLEAN

\* A task reaped by WAIT or recycled by PROCREATE is none that runs, creates or
\* is being built, so taking it out of the ring keeps the core.
LEMMA TerminatedIsIdleMemory ==
    ASSUME SlotsAssumption, TypeOK, Core, NEW u \in Slots, state[u] = "TERMINATED"
    PROVE  /\ u # current /\ u # Idle /\ pc[u] \notin InFlight
           /\ \A t \in Slots : pc[t] \in InFlight => arg[t] # u
  BY DEF Core, RunsOnLiveStack, IdleStaysRunnable, CreatorsAreRunnable

\* task_alloc_common: the slot u, in the ring no more, becomes the one that t
\* builds in.
LEMMA AllocKeepsCore ==
    ASSUME SlotsAssumption, TypeOK, Core, NEW t \in Slots, NEW u \in Slots, At(t, "user"),
           u # current, u # Idle, u \in heap', heap \subseteq heap', pc[u] \notin InFlight,
           \A v \in Slots : pc[v] \in InFlight => arg[v] # u,
           NEW q \in Seq(Slots), Injective(q), NEW lst,
           \A v \in Slots : In(q, v) <=> InRing(v) /\ v # u,
           Allocated(t, u, q, lst)
    PROVE  Upper'
<1> USE DEF Core
<1>1. /\ current = t /\ t # Idle /\ u # t /\ pc[t] = "user"
      /\ current' = current /\ panicked' = panicked /\ ring' = q
      /\ state' = [state EXCEPT ![u] = "READY"]
      /\ pc' = [pc EXCEPT ![t] = "build", ![u] = "user"]
      /\ arg' = [arg EXCEPT ![t] = u]
  BY DEF At, Allocated
<1>2. state \in [Slots -> States] /\ pc \in [Slots -> Places] /\ Idle \in Slots
      /\ arg \in [Slots -> Slots \union Nat] /\ current \in Slots
  BY DEF TypeOK, SlotsAssumption
<1>3. \A v \in Slots : InRing(v)' <=> InRing(v) /\ v # u
  BY <1>1 DEF InRing, In
<1>4. /\ pc'[t] = "build" /\ pc'[u] = "user" /\ arg'[t] = u
      /\ \A v \in Slots \ {t} : pc'[v] \in InFlight => pc[v] \in InFlight /\ arg'[v] = arg[v]
      /\ pc'[Idle] = pc[Idle]
  BY <1>1, <1>2 DEF InFlight
<1>5. /\ state'[u] = "READY" /\ \A v \in Slots \ {u} : state'[v] = state[v]
      /\ state' \in [Slots -> States]
  BY <1>1, <1>2 DEF States
<1>6. NeverPanics' /\ RunsOnLiveStack'
  <2>1. current' \in heap' /\ InRing(current)'
    BY <1>1, <1>2 DEF RunsOnLiveStack, InRing, In
  <2> QED BY <2>1, <1>1, <1>2, <1>5 DEF NeverPanics, RunsOnLiveStack
<1>7. RingOfLiveTasks'
  BY <1>1, <1>3, <1>5 DEF RingOfLiveTasks, Injective
<1>8. BuildsAreExclusive'
  <2> SUFFICES ASSUME NEW v \in Slots, pc'[v] \in InFlight
               PROVE  /\ arg'[v] \in heap' /\ ~InRing(arg[v])'
                      /\ \A w \in Slots \ {v} : pc'[w] \in InFlight => arg'[w] # arg'[v]
    BY DEF BuildsAreExclusive, InFlight
  <2>1. CASE v = t
    BY <2>1, <1>3, <1>4
  <2>2. CASE v # t
    <3>1. /\ pc[v] \in InFlight /\ arg'[v] = arg[v] /\ arg[v] \in heap
          /\ arg[v] \in Slots /\ ~InRing(arg[v]) /\ arg[v] # u
      BY <2>2, <1>4 DEF BuildsAreExclusive, InFlight, TypeOK
    <3>2. ASSUME NEW w \in Slots \ {v}, pc'[w] \in InFlight PROVE arg'[w] # arg'[v]
      BY <3>1, <3>2, <1>4 DEF BuildsAreExclusive, InFlight
    <3> QED BY <3>1, <3>2, <1>3
  <2> QED BY <2>1, <2>2
<1>9. IdleStaysRunnable'
  BY <1>1, <1>2, <1>3, <1>4, <1>5 DEF IdleStaysRunnable
<1>10. CreatorsAreRunnable'
  <2> SUFFICES ASSUME NEW v \in Slots, pc'[v] \in InFlight
               PROVE  InRing(v)' /\ state'[v] \in {"READY", "RUNNING"} /\ state'[arg'[v]] = "READY"
    BY DEF CreatorsAreRunnable
  <2>1. CASE v = t
    BY <2>1, <1>1, <1>2, <1>3, <1>4, <1>5 DEF RunsOnLiveStack
  <2>2. CASE v # t
    <3>1. /\ pc[v] \in InFlight /\ arg'[v] = arg[v] /\ InRing(v) /\ v # u
          /\ arg[v] # u /\ state[v] \in {"READY", "RUNNING"} /\ state[arg[v]] = "READY"
      BY <2>2, <1>4 DEF CreatorsAreRunnable
    <3>2. arg[v] \in Slots
      BY <3>1 DEF BuildsAreExclusive, InFlight, TypeOK
    <3> QED BY <3>1, <3>2, <1>3, <1>5
  <2> QED BY <2>1, <2>2
<1>11. EndedInRing'
  BY <1>3, <1>5 DEF EndedInRing
<1> QED BY <1>1, <1>2, <1>5, <1>6, <1>7, <1>8, <1>9, <1>10, <1>11 DEF Upper, TypeOK

\* WAIT frees a TERMINATED task.
LEMMA ReapKeepsCore ==
    ASSUME SlotsAssumption, TypeOK, Core, NEW t \in Slots, NEW u \in Slots, WaitReap(t, u)
    PROVE  Upper'
<1> USE DEF Core
<1>1. /\ current = t /\ state[u] = "TERMINATED" /\ ring' = Removed(ring, u)
      /\ state' = [state EXCEPT ![u] = "NONE"] /\ heap' = heap \ {u}
      /\ pc' = [pc EXCEPT ![t] = "user"]
      /\ current' = current /\ panicked' = panicked /\ arg' = arg
  BY DEF WaitReap, At
<1>2. /\ state \in [Slots -> States] /\ pc \in [Slots -> Places] /\ Idle \in Slots
      /\ ring \in Seq(Slots) /\ current \in Slots /\ Injective(ring)
      /\ arg \in [Slots -> Slots \union Nat]
  BY DEF TypeOK, SlotsAssumption, RingOfLiveTasks, Injective
<1>3. /\ u # current /\ u # Idle /\ pc[u] \notin InFlight
      /\ \A v \in Slots : pc[v] \in InFlight => arg[v] # u
  BY <1>1, TerminatedIsIdleMemory
<1>4. /\ ring' \in Seq(Slots) /\ Injective(ring')
      /\ \A v \in Slots : InRing(v)' <=> InRing(v) /\ v # u
  <2>1. \A v \in Slots : In(ring, v) <=> InRing(v)
    BY DEF In, InRing
  <2>2. \A v \in Slots : In(ring', v) <=> InRing(v)'
    BY DEF In, InRing
  <2> QED BY <2>1, <2>2, <1>1, <1>2, RemovedRing
<1>5. /\ \A v \in Slots \ {u} : state'[v] = state[v]
      /\ state' \in [Slots -> States]
  BY <1>1, <1>2 DEF States
<1>6. \A v \in Slots : pc'[v] \in InFlight => pc[v] \in InFlight
  BY <1>1, <1>2 DEF InFlight
<1>7. NeverPanics' /\ RunsOnLiveStack'
  <2>1. current' \in heap' /\ InRing(current)'
    BY <1>1, <1>2, <1>3, <1>4 DEF RunsOnLiveStack, InRing
  <2> QED BY <2>1, <1>1, <1>2, <1>3, <1>5 DEF NeverPanics, RunsOnLiveStack
<1>8. RingOfLiveTasks'
  BY <1>1, <1>4, <1>5 DEF RingOfLiveTasks, Injective
<1>9. BuildsAreExclusive'
  <2> SUFFICES ASSUME NEW v \in Slots, pc'[v] \in InFlight
               PROVE  /\ arg[v] \in heap' /\ ~InRing(arg[v])'
                      /\ \A w \in Slots \ {v} : pc'[w] \in InFlight => arg[w] # arg[v]
    BY <1>1 DEF BuildsAreExclusive, InFlight
  <2>1. pc[v] \in InFlight /\ arg[v] \in heap /\ arg[v] \in Slots /\ ~InRing(arg[v])
    BY <1>6 DEF BuildsAreExclusive, InFlight, TypeOK
  <2>2. ASSUME NEW w \in Slots \ {v}, pc'[w] \in InFlight PROVE arg[w] # arg[v]
    BY <2>1, <2>2, <1>6 DEF BuildsAreExclusive, InFlight
  <2>3. ~InRing(arg[v])'
    BY <2>1, <1>1, <1>4 DEF InRing
  <2> QED BY <2>1, <2>2, <2>3, <1>1, <1>3
<1>10. IdleStaysRunnable'
  BY <1>1, <1>2, <1>3, <1>4, <1>5 DEF IdleStaysRunnable
<1>11. CreatorsAreRunnable'
  <2> SUFFICES ASSUME NEW v \in Slots, pc'[v] \in InFlight
               PROVE  InRing(v)' /\ state'[v] \in {"READY", "RUNNING"} /\ state'[arg[v]] = "READY"
    BY <1>1 DEF CreatorsAreRunnable
  <2>1. /\ pc[v] \in InFlight /\ InRing(v) /\ v # u /\ arg[v] # u
        /\ state[v] \in {"READY", "RUNNING"} /\ state[arg[v]] = "READY"
    BY <1>3, <1>6 DEF CreatorsAreRunnable
  <2>2. arg[v] \in Slots
    BY <2>1 DEF BuildsAreExclusive, InFlight, TypeOK
  <2> QED BY <2>1, <2>2, <1>4, <1>5
<1>12. EndedInRing'
  BY <1>1, <1>2, <1>4, <1>5 DEF EndedInRing
<1> QED BY <1>1, <1>2, <1>4, <1>5, <1>7, <1>8, <1>9, <1>10, <1>11, <1>12 DEF Upper, TypeOK

\* PROCREATE gives up and frees the task it was building.
LEMMA FailKeepsCore ==
    ASSUME SlotsAssumption, TypeOK, Core, NEW t \in Slots, BuildFail(t)
    PROVE  Upper'
<1> USE DEF Core
<1> DEFINE u == arg[t]
<1>1. /\ current = t /\ pc[t] = "build" /\ t # Idle
      /\ \E s \in {"READY", "NONE"} : state' = [state EXCEPT ![u] = s]
      /\ heap' = heap \ {u} /\ pc' = [pc EXCEPT ![t] = "user"]
      /\ current' = current /\ ring' = ring /\ panicked' = panicked /\ arg' = arg
  BY DEF BuildFail, At
<1>2. /\ state \in [Slots -> States] /\ pc \in [Slots -> Places] /\ Idle \in Slots
      /\ ring \in Seq(Slots) /\ current \in Slots
  BY DEF TypeOK, SlotsAssumption
<1>3. u \in Slots /\ ~InRing(u) /\ u # current /\ u # Idle
  <2>1. u \in heap /\ ~InRing(u)
    BY <1>1 DEF BuildsAreExclusive
  <2>2. heap \subseteq Slots /\ InRing(current) /\ InRing(Idle)
    BY DEF TypeOK, RunsOnLiveStack, IdleStaysRunnable
  <2> QED BY <2>1, <2>2
<1>4. /\ \A v \in Slots \ {u} : state'[v] = state[v]
      /\ state' \in [Slots -> States]
      /\ state'[u] \in {"READY", "NONE"}
  BY <1>1, <1>2, <1>3 DEF States
<1>5. \A v \in Slots : InRing(v)' <=> InRing(v)
  BY <1>1 DEF InRing
<1>6. \A v \in Slots : pc'[v] \in InFlight => pc[v] \in InFlight /\ v # t /\ arg[v] # u
  BY <1>1, <1>2 DEF InFlight, BuildsAreExclusive
<1> HIDE DEF u
<1>7. NeverPanics' /\ RunsOnLiveStack'
  <2>1. current' \in heap' /\ InRing(current)'
    BY <1>1, <1>2, <1>3 DEF RunsOnLiveStack, InRing
  <2> QED BY <2>1, <1>1, <1>2, <1>3, <1>4 DEF NeverPanics, RunsOnLiveStack
<1>8. RingOfLiveTasks'
  BY <1>1, <1>3, <1>4, <1>5 DEF RingOfLiveTasks
<1>9. BuildsAreExclusive'
  <2> SUFFICES ASSUME NEW v \in Slots, pc'[v] \in InFlight
               PROVE  /\ arg[v] \in heap' /\ ~InRing(arg[v])'
                      /\ \A w \in Slots \ {v} : pc'[w] \in InFlight => arg[w] # arg[v]
    BY <1>1 DEF BuildsAreExclusive, InFlight
  <2>1. pc[v] \in InFlight /\ arg[v] \in heap /\ arg[v] \in Slots /\ ~InRing(arg[v])
    BY <1>6 DEF BuildsAreExclusive, InFlight, TypeOK
  <2>2. ASSUME NEW w \in Slots \ {v}, pc'[w] \in InFlight PROVE arg[w] # arg[v]
    BY <2>1, <2>2, <1>6 DEF BuildsAreExclusive, InFlight
  <2>3. ~InRing(arg[v])'
    BY <2>1, <1>1 DEF InRing
  <2> QED BY <2>1, <2>2, <2>3, <1>1, <1>6
<1>10. IdleStaysRunnable'
  BY <1>1, <1>2, <1>3, <1>4, <1>5 DEF IdleStaysRunnable
<1>11. CreatorsAreRunnable'
  <2> SUFFICES ASSUME NEW v \in Slots, pc'[v] \in InFlight
               PROVE  InRing(v)' /\ state'[v] \in {"READY", "RUNNING"} /\ state'[arg[v]] = "READY"
    BY <1>1 DEF CreatorsAreRunnable
  <2>1. /\ pc[v] \in InFlight /\ InRing(v) /\ arg[v] # u
        /\ state[v] \in {"READY", "RUNNING"} /\ state[arg[v]] = "READY"
    BY <1>6 DEF CreatorsAreRunnable
  <2>2. arg[v] \in Slots /\ v # u
    BY <2>1, <1>3 DEF BuildsAreExclusive, InFlight, TypeOK
  <2> QED BY <2>1, <2>2, <1>4, <1>5
<1>12. EndedInRing'
  BY <1>4, <1>5 DEF EndedInRing
<1> QED BY <1>1, <1>2, <1>4, <1>7, <1>8, <1>9, <1>10, <1>11, <1>12 DEF Upper, TypeOK

\* sched_add: the child joins the ring and the creator has no task in hand.
LEMMA SchedAddKeepsCore ==
    ASSUME SlotsAssumption, TypeOK, Core, NEW t \in Slots, SchedAdd(t)
    PROVE  Upper'
<1> USE DEF Core
<1> DEFINE u == arg[t]
<1>1. /\ current = t /\ pc[t] = "add"
      /\ ring' = Added(ring, u) /\ pc' = [pc EXCEPT ![t] = "ret"]
      /\ current' = current /\ state' = state /\ panicked' = panicked
      /\ heap' = heap /\ arg' = arg
  BY DEF SchedAdd, At, listVars
<1>2. /\ state \in [Slots -> States] /\ pc \in [Slots -> Places] /\ Idle \in Slots
      /\ ring \in Seq(Slots) /\ current \in Slots /\ Injective(ring)
  BY DEF TypeOK, SlotsAssumption, RingOfLiveTasks, Injective
<1>3. u \in Slots /\ u \in heap /\ ~InRing(u) /\ state[u] = "READY"
  BY <1>1 DEF BuildsAreExclusive, TypeOK, CreatorsAreRunnable, InFlight
<1>4. /\ ring' \in Seq(Slots) /\ Injective(ring')
      /\ \A v \in Slots : InRing(v)' <=> InRing(v) \/ v = u
  <2>1. \A v \in Slots : In(ring, v) <=> InRing(v)
    BY DEF In, InRing
  <2>2. \A v \in Slots : In(ring', v) <=> InRing(v)'
    BY DEF In, InRing
  <2> QED BY <2>1, <2>2, <1>1, <1>2, <1>3, AddedRing
<1>5. /\ \A v \in Slots : pc'[v] \in InFlight => pc[v] \in InFlight /\ arg[v] # u
      /\ pc'[Idle] = pc[Idle]
  BY <1>1, <1>2 DEF InFlight, BuildsAreExclusive, IdleStaysRunnable
<1> HIDE DEF u
<1>6. NeverPanics' /\ RunsOnLiveStack'
  <2>1. current' \in heap' /\ InRing(current)'
    BY <1>1, <1>2, <1>4 DEF RunsOnLiveStack, InRing
  <2> QED BY <2>1, <1>1 DEF NeverPanics, RunsOnLiveStack
<1>7. RingOfLiveTasks'
  BY <1>1, <1>3, <1>4 DEF RingOfLiveTasks, Injective
<1>8. BuildsAreExclusive'
  <2> SUFFICES ASSUME NEW v \in Slots, pc'[v] \in InFlight
               PROVE  /\ arg[v] \in heap /\ ~InRing(arg[v])'
                      /\ \A w \in Slots \ {v} : pc'[w] \in InFlight => arg[w] # arg[v]
    BY <1>1 DEF BuildsAreExclusive, InFlight
  <2>1. pc[v] \in InFlight /\ arg[v] \in heap /\ arg[v] \in Slots /\ ~InRing(arg[v])
    BY <1>5 DEF BuildsAreExclusive, InFlight, TypeOK
  <2>2. ASSUME NEW w \in Slots \ {v}, pc'[w] \in InFlight PROVE arg[w] # arg[v]
    BY <2>1, <2>2, <1>5 DEF BuildsAreExclusive, InFlight
  <2>3. ~InRing(arg[v])'
    BY <2>1, <1>1, <1>4, <1>5 DEF InRing
  <2> QED BY <2>1, <2>2, <2>3
<1>9. IdleStaysRunnable' /\ CreatorsAreRunnable' /\ EndedInRing'
  BY <1>1, <1>2, <1>4, <1>5 DEF IdleStaysRunnable, CreatorsAreRunnable, EndedInRing
<1> QED BY <1>1, <1>2, <1>4, <1>6, <1>7, <1>8, <1>9 DEF Upper, TypeOK

\* PROCREATE between task_alloc_common and sched_add: the creator moves on, with
\* the same task in hand.
LEMMA PushKeepsCore ==
    ASSUME SlotsAssumption, TypeOK, Core, NEW t \in Slots, PushLoad(t) \/ PushStore(t)
    PROVE  Upper'
<1>1. /\ UNCHANGED <<schedVars, heap>> /\ arg' = arg /\ pc[t] \in InFlight
      /\ pc' = [pc EXCEPT ![t] = "push"] \/ pc' = [pc EXCEPT ![t] = "add"]
  BY DEF PushLoad, PushStore, At, InFlight, schedVars
<1>2. \A v \in Slots : pc'[v] \in InFlight => pc[v] \in InFlight /\ arg'[v] = arg[v]
  BY <1>1 DEF TypeOK
<1>3. pc'[Idle] = "user"
  BY <1>1 DEF TypeOK, Core, IdleStaysRunnable, InFlight, SlotsAssumption
<1>4. Core'
  BY <1>1, <1>2, <1>3, Unscheduled
<1> QED BY <1>1, <1>4 DEF Upper, TypeOK, schedVars

\* Every step of the specification keeps the core.
LEMMA CoreStep ==
    ASSUME SlotsAssumption, TypeOK, Core, Next
    PROVE  Upper'
<1>0. /\ state \in [Slots -> States] /\ pc \in [Slots -> Places] /\ Idle \in Slots
      /\ current \in Slots /\ ring \in Seq(Slots) /\ arg \in [Slots -> Slots \union Nat]
      /\ panicked \in BOOLEAN
      /\ state[current] = "RUNNING" /\ pc[Idle] = "user" /\ state[Idle] # "BLOCKED"
  BY DEF TypeOK, Core, RunsOnLiveStack, IdleStaysRunnable, SlotsAssumption
<1>r. ASSUME NEW st \in [Slots -> States],
             \A t \in Slots \ {current} :
                st[t] = state[t] \/ (state[t] = "BLOCKED" /\ st[t] = "READY"),
             st[current] \in {"RUNNING", "BLOCKED", "TERMINATED"},
             current = Idle \/ pc[current] \in InFlight => st[current] = "RUNNING",
             Schedule(st), heap' = heap, pc'[Idle] = "user",
             \A t \in Slots : pc'[t] \in InFlight => pc[t] \in InFlight /\ arg'[t] = arg[t]
      PROVE  Upper'
  BY <1>r, Rescheduled DEF Upper
<1>u. ASSUME NEW t \in Slots, UNCHANGED <<schedVars, heap>>, t # Idle,
             pc' = [pc EXCEPT ![t] = "user"] \/ pc' = [pc EXCEPT ![t] = "wait"],
             \A v \in Slots \ {t} : arg'[v] = arg[v]
      PROVE  Upper'
  <2>1. /\ \A v \in Slots : pc'[v] \in InFlight => pc[v] \in InFlight /\ arg'[v] = arg[v]
        /\ pc'[Idle] = "user"
    BY <1>u, <1>0 DEF InFlight
  <2>2. Core'
    BY <2>1, <1>u, Unscheduled
  <2> QED BY <2>2, <1>0, <1>u DEF Upper, schedVars
<1>1. CASE Timer
  <2> DEFINE st == [t \in Slots |-> IF t \in Due THEN "READY" ELSE state[t]]
  <2>1. Schedule(st) /\ heap' = heap /\ pc' = pc /\ arg' = arg
    BY <1>1 DEF Timer, listVars
  <2>2. \A t \in Slots : t \in Due => state[t] = "BLOCKED"
    BY DEF Due
  <2>3. st \in [Slots -> States] /\ st[current] = "RUNNING"
    BY <2>2, <1>0 DEF States
  <2>4. \A t \in Slots : st[t] = state[t] \/ (state[t] = "BLOCKED" /\ st[t] = "READY")
    BY <2>2
  <2> HIDE DEF st
  <2> QED BY <2>1, <2>3, <2>4, <1>0, <1>r
<1>2. ASSUME NEW t \in Slots, DevWake(t) PROVE Upper'
  <2>1. /\ pc[t] = "dev" /\ state[t] = "BLOCKED" /\ state' = [state EXCEPT ![t] = "READY"]
        /\ current' = current /\ ring' = ring /\ panicked' = panicked /\ heap' = heap
        /\ pc' = pc /\ arg' = arg
    BY <1>2 DEF DevWake, listVars, callVars
  <2>2. /\ t # current /\ t # Idle /\ state' \in [Slots -> States]
        /\ \A v \in Slots \ {t} : state'[v] = state[v]
        /\ state'[t] = "READY"
    BY <2>1, <1>0 DEF States
  <2>3. \A v \in Slots : InRing(v)' <=> InRing(v)
    BY <2>1 DEF InRing
  <2>4. NeverPanics' /\ RunsOnLiveStack' /\ RingOfLiveTasks' /\ IdleStaysRunnable'
    BY <2>1, <2>2, <2>3, <1>0 DEF Core, NeverPanics, RunsOnLiveStack, RingOfLiveTasks,
                                   IdleStaysRunnable, InRing
  <2>5. BuildsAreExclusive'
    BY <2>1, <2>3 DEF Core, BuildsAreExclusive, InRing
  <2>6. CreatorsAreRunnable'
    <3> SUFFICES ASSUME NEW v \in Slots, pc[v] \in InFlight
                 PROVE  InRing(v)' /\ state'[v] \in {"READY", "RUNNING"} /\ state'[arg[v]] = "READY"
      BY <2>1 DEF CreatorsAreRunnable
    <3>1. /\ InRing(v) /\ state[v] \in {"READY", "RUNNING"} /\ state[arg[v]] = "READY"
          /\ arg[v] \in Slots
      BY DEF Core, CreatorsAreRunnable, BuildsAreExclusive, InFlight, TypeOK
    <3> QED BY <3>1, <2>1, <2>2, <2>3
  <2>7. EndedInRing'
    BY <2>2, <2>3 DEF Core, EndedInRing
  <2> QED BY <2>1, <2>2, <2>4, <2>5, <2>6, <2>7, <1>0 DEF Upper, Core
<1>3. ASSUME NEW t \in Slots, NEW p, Schedule([state EXCEPT ![t] = "BLOCKED"]),
             heap' = heap, t = current, t # Idle, pc[t] \notin InFlight, p \notin InFlight,
             pc' = [pc EXCEPT ![t] = p], \A v \in Slots \ {t} : arg'[v] = arg[v]
      PROVE  Upper'
  <2> DEFINE st == [state EXCEPT ![t] = "BLOCKED"]
  <2>1. /\ st \in [Slots -> States] /\ st[current] = "BLOCKED"
        /\ \A v \in Slots \ {current} : st[v] = state[v]
    BY <1>0, <1>3 DEF States
  <2>2. /\ pc'[Idle] = "user"
        /\ \A v \in Slots : pc'[v] \in InFlight => pc[v] \in InFlight /\ arg'[v] = arg[v]
    BY <1>0, <1>3
  <2> HIDE DEF st
  <2>3. Schedule(st)
    BY <1>3 DEF st
  <2> QED BY <2>1, <2>2, <2>3, <1>3, <1>r
<1>4. ASSUME NEW t \in Slots, DevBlock(t) PROVE Upper'
  BY <1>4, <1>3 DEF DevBlock, At, listVars, InFlight
<1>5. ASSUME NEW t \in Slots, NEW cs \in 1..MaxSleep, Sleep(t, cs) PROVE Upper'
  <2>1. \A v \in Slots \ {t} : arg'[v] = arg[v]
    BY <1>5, <1>0 DEF Sleep
  <2>2. /\ Schedule([state EXCEPT ![t] = "BLOCKED"]) /\ heap' = heap
        /\ t = current /\ t # Idle /\ pc[t] = "user" /\ pc' = [pc EXCEPT ![t] = "sleep"]
    BY <1>5 DEF Sleep, At, listVars
  <2> QED BY <2>1, <2>2, <1>3 DEF InFlight
<1>6. ASSUME NEW t \in Slots, NEW u \in Slots, WaitBlock(t, u) PROVE Upper'
  <2>1. /\ Schedule([state EXCEPT ![t] = "BLOCKED"]) /\ heap' = heap
        /\ t = current /\ t # Idle /\ pc[t] = "wait" /\ pc' = pc /\ arg' = arg
    BY <1>6 DEF WaitBlock, At, callVars
  <2>2. pc' = [pc EXCEPT ![t] = "wait"]
    BY <2>1, <1>0
  <2> QED BY <2>1, <2>2, <1>3 DEF InFlight
<1>7. ASSUME NEW t \in Slots, NEW c, Exit(t, c) PROVE Upper'
  <2> DEFINE W == WokenWaiters(pid[t])
             st == Ended(t)
  <2>1. /\ Schedule(st) /\ heap' = heap /\ pc' = pc /\ arg' = arg
        /\ t = current /\ t # Idle /\ pc[t] = "user"
    BY <1>7 DEF Exit, At, callVars
  <2>2. \A u \in Slots : u \in W => state[u] = "BLOCKED"
    BY DEF WokenWaiters
  <2>3. st \in [Slots -> States] /\ st[current] = "TERMINATED"
    BY <2>1, <1>0 DEF States, Ended
  <2>4. \A u \in Slots \ {current} :
           st[u] = state[u] \/ (state[u] = "BLOCKED" /\ st[u] = "READY")
    BY <2>1, <2>2 DEF Ended
  <2> HIDE DEF st
  <2> QED BY <2>1, <2>3, <2>4, <1>0, <1>r DEF InFlight
<1>8. ASSUME NEW t \in Slots, Yield(t) PROVE Upper'
  <2>1. Schedule(state) /\ heap' = heap /\ pc' = pc /\ arg' = arg
    BY <1>8 DEF Yield, listVars, callVars
  <2> QED BY <2>1, <1>0, <1>r
<1>9. ASSUME NEW t \in Slots, DevReturn(t) \/ SleepReturn(t) \/ ProcreateReturn(t) PROVE Upper'
  BY <1>9, <1>u DEF DevReturn, SleepReturn, ProcreateReturn, At, listVars
<1>10. ASSUME NEW t \in Slots, NEW p, Wait(t, p) PROVE Upper'
  <2>1. \A v \in Slots \ {t} : arg'[v] = arg[v]
    BY <1>10, <1>0 DEF Wait
  <2> QED BY <2>1, <1>10, <1>u DEF Wait, At, listVars
<1>11. ASSUME NEW t \in Slots, WaitNotFound(t) PROVE Upper'
  BY <1>11, <1>u DEF WaitNotFound, At
<1>12. Injective(ring) /\ \A v \in Slots : In(ring, v) <=> InRing(v)
  BY DEF Injective, In, InRing, Core, RingOfLiveTasks
<1>13. ASSUME NEW t \in Slots, NEW u \in Slots, AllocRecycled(t, u) PROVE Upper'
  <2>1. /\ At(t, "user") /\ heap' = heap /\ state[u] = "TERMINATED"
        /\ Allocated(t, u, Removed(ring, u), Listed \ {u})
    BY <1>13 DEF AllocRecycled, MayCreate, IsFirst, Recyclable
  <2>2. /\ u # current /\ u # Idle /\ pc[u] \notin InFlight
        /\ \A v \in Slots : pc[v] \in InFlight => arg[v] # u
    BY <2>1, TerminatedIsIdleMemory
  <2>3. /\ Removed(ring, u) \in Seq(Slots) /\ Injective(Removed(ring, u))
        /\ \A v \in Slots : In(Removed(ring, u), v) <=> InRing(v) /\ v # u
    BY <1>0, <1>12, RemovedRing
  <2>4. u \in heap
    BY <2>1 DEF Core, EndedInRing, RingOfLiveTasks
  <2> QED BY <2>1, <2>2, <2>3, <2>4, AllocKeepsCore
<1>14. ASSUME NEW t \in Slots, NEW u \in Slots, AllocFresh(t, u) PROVE Upper'
  <2>1. /\ At(t, "user") /\ heap' = heap \union {u} /\ u \notin heap
        /\ Allocated(t, u, ring, Listed)
    BY <1>14 DEF AllocFresh, MayCreate
  <2>2. ~InRing(u) /\ u # current /\ u # Idle
    BY <2>1 DEF Core, RingOfLiveTasks, RunsOnLiveStack, IdleStaysRunnable
  <2>3. /\ pc[u] \notin InFlight
        /\ \A v \in Slots : pc[v] \in InFlight => arg[v] # u
    BY <2>1, <2>2 DEF Core, CreatorsAreRunnable, BuildsAreExclusive, InFlight
  <2>4. \A v \in Slots : In(ring, v) <=> InRing(v) /\ v # u
    BY <1>12, <2>2
  <2> QED BY <2>1, <2>2, <2>3, <2>4, <1>0, <1>12, AllocKeepsCore
<1>15. ASSUME NEW t \in Slots, NEW u \in Slots, WaitReap(t, u) PROVE Upper'
  BY <1>15, ReapKeepsCore
<1>16. ASSUME NEW t \in Slots, BuildFail(t) PROVE Upper'
  BY <1>16, FailKeepsCore
<1>17. ASSUME NEW t \in Slots, PushLoad(t) \/ PushStore(t) PROVE Upper'
  BY <1>17, PushKeepsCore
<1>18. ASSUME NEW t \in Slots, SchedAdd(t) PROVE Upper'
  BY <1>18, SchedAddKeepsCore
<1> QED BY <1>1, <1>2, <1>4, <1>5, <1>6, <1>7, <1>8, <1>9, <1>10, <1>11, <1>13, <1>14,
           <1>15, <1>16, <1>17, <1>18 DEF Next, Call, Continue

-----------------------------------------------------------------------------
\* The state after sched_init satisfies the inductive invariant.
LEMMA InitInv == Init => IInv
<1> SUFFICES ASSUME Init PROVE IInv
  OBVIOUS
<1>0. Pint \in Slots /\ Idle \in Slots /\ Pint # Idle
  BY SlotsAssumption DEF SlotsAssumption
<1>1. /\ state[Pint] = "RUNNING" /\ state[Idle] = "READY"
      /\ \A t \in Slots \ {Pint, Idle} : state[t] = "NONE"
      /\ state \in [Slots -> States]
  BY <1>0 DEF Init, States
<1>2. DOMAIN ring = {1, 2} /\ ring[1] = Pint /\ ring[2] = Idle /\ ring \in Seq(Slots)
  BY <1>0 DEF Init
<1>3. \A t \in Slots : InRing(t) <=> t \in {Pint, Idle}
  BY <1>2 DEF InRing
<1>4. TypeOK
  <2>1. pid \in [Slots -> Nat] /\ gen \in [Slots -> Nat] /\ born \in Seq(Nat)
    BY DEF Init
  <2>2. wake_in \in [Slots -> Int] /\ arg \in [Slots -> Slots \union Nat]
    BY DEF Init, Never
  <2> QED BY <2>1, <2>2, <1>0, <1>1, <1>2 DEF Init, TypeOK, Places
<1>5. NeverPanics /\ RunsOnLiveStack
  BY <1>0, <1>1, <1>3 DEF Init, NeverPanics, RunsOnLiveStack
<1>6. RingOfLiveTasks
  BY <1>0, <1>1, <1>2, <1>3 DEF Init, RingOfLiveTasks
<1>7. \A t \in Slots : pc[t] = "user"
  BY DEF Init
<1>8. BuildsAreExclusive /\ CreatorsAreRunnable
  BY <1>7 DEF BuildsAreExclusive, CreatorsAreRunnable, InFlight
<1>9. IdleStaysRunnable /\ EndedInRing
  BY <1>0, <1>1, <1>3, <1>7 DEF IdleStaysRunnable, EndedInRing
<1> QED BY <1>4, <1>5, <1>6, <1>8, <1>9 DEF IInv

\* The invariant is inductive.
LEMMA StepInv == IInv /\ [Next]_vars => IInv'
<1> SUFFICES ASSUME IInv, [Next]_vars PROVE IInv'
  OBVIOUS
<1>1. TypeOK /\ Core
  BY DEF IInv, Core
<1>2. CASE Next
  <2>1. Upper'
    BY <1>1, <1>2, CoreStep, SlotsAssumption
  <2>2. LowerTypes'
    BY <1>1, <1>2, LowerTypesStep, SlotsAssumption
  <2>3. TypeOK'
    BY <2>1, <2>2 DEF Upper, TypeOK, LowerTypes
  <2> QED BY <2>1, <2>3 DEF Upper, Core, IInv
<1>3. CASE UNCHANGED vars
  <2>1. UNCHANGED <<schedVars, listVars, callVars, history>>
    BY <1>3 DEF vars
  <2>2. TypeOK'
    BY <1>1, <2>1 DEF TypeOK, schedVars, listVars, callVars, history
  <2>3. UNCHANGED <<schedVars, heap>> /\ pc' = pc /\ arg' = arg
    BY <2>1 DEF schedVars, listVars, callVars
  <2>4. pc'[Idle] = "user"
    BY <1>1, <2>3 DEF Core, IdleStaysRunnable
  <2>5. Core'
    BY <1>1, <2>3, <2>4, Unscheduled, SlotsAssumption
  <2> QED BY <2>2, <2>5 DEF Core, IInv
<1> QED BY <1>2, <1>3

\* The inductive invariant holds in every reachable state.
THEOREM Inductive == Spec => []IInv
  BY InitInv, StepInv, PTL DEF Spec

\* Every variable keeps its type.
THEOREM TypeCorrect == Spec => []TypeOK
<1>1. IInv => TypeOK
  BY DEF IInv
<1> QED BY <1>1, Inductive, PTL

\* sched_schedule never runs into its "no runnable tasks" panic.
THEOREM SchedulerNeverPanics == Spec => []NeverPanics
<1>1. IInv => NeverPanics
  BY DEF IInv
<1> QED BY <1>1, Inductive, PTL

\* The CPU never runs on the stack of a task that was reaped or recycled.
THEOREM NoUseAfterReap == Spec => []RunsOnLiveStack
<1>1. IInv => RunsOnLiveStack
  BY DEF IInv
<1> QED BY <1>1, Inductive, PTL

\* Concurrent PROCREATEs never build in the same task_t.
THEOREM ExclusiveBuilds == Spec => []BuildsAreExclusive
<1>1. IInv => BuildsAreExclusive
  BY DEF IInv
<1> QED BY <1>1, Inductive, PTL

\* A task that was torn down is never in the ring, and a task is in it once.
THEOREM RingStaysLive == Spec => []RingOfLiveTasks
<1>1. IInv => RingOfLiveTasks
  BY DEF IInv
<1> QED BY <1>1, Inductive, PTL

-----------------------------------------------------------------------------
(* Sleepers.  task_wake_waiters and task_wake_sleepers walk the same list, *)
(* so that a sleeper is not woken early rests on what a task publishes     *)
(* and on when it stops publishing it.                                     *)

\* Only a task inside WAIT has published a pid, so EXIT wakes no sleeper.
PublishedInWait == \A t \in Slots : pid_waiting_on[t] # 0 => pc[t] = "wait"
EndedInUser == \A t \in Slots : state[t] = "TERMINATED" => pc[t] = "user"
PidsPositive == \A t \in heap : pid[t] >= 1

\* The ticks a sleeper has slept and those it has yet to sleep are more than it
\* asked for; one that is awake has none left.
SleepersRight ==
    \A t \in Slots : pc[t] = "sleep" =>
        /\ arg[t] \in 1..MaxSleep
        /\ IF state[t] = "BLOCKED"
           THEN wake_in[t] >= 0 /\ wake_in[t] + elapsed[t] > arg[t]
           ELSE elapsed[t] > arg[t]

SleepInv == PublishedInWait /\ EndedInUser /\ PidsPositive /\ SleepersRight

\* sched_schedule neither blocks, wakes nor ends a task.
LEMMA ScheduleKeepsBlocked ==
    ASSUME NEW st \in [Slots -> States], Schedule(st)
    PROVE  \A t \in Slots : /\ state'[t] = "BLOCKED" <=> st[t] = "BLOCKED"
                            /\ state'[t] = "TERMINATED" <=> st[t] = "TERMINATED"
<1> DEFINE st1 == [st EXCEPT ![current] = IF @ = "RUNNING" THEN "READY" ELSE @]
<1>1. \A t \in Slots : st1[t] = st[t] \/ (st[t] = "RUNNING" /\ st1[t] = "READY")
  OBVIOUS
<1>2. st1 \in [Slots -> States]
  BY DEF States
<1>3. state' = st1 \/ \E u : st1[u] = "READY" /\ state' = [st1 EXCEPT ![u] = "RUNNING"]
  BY DEF Schedule
<1> HIDE DEF st1
<1>4. \A t \in Slots : state'[t] = st1[t] \/ (st1[t] = "READY" /\ state'[t] = "RUNNING")
  BY <1>2, <1>3
<1> QED BY <1>1, <1>4

\* Steps in which no one falls asleep and no tick passes.
LEMMA SleepFrame ==
    ASSUME SleepInv,
           \A t \in Slots : pc'[t] = "sleep" =>
              /\ pc[t] = "sleep" /\ arg'[t] = arg[t]
              /\ wake_in'[t] = wake_in[t] /\ elapsed'[t] = elapsed[t]
              /\ state'[t] = "BLOCKED" <=> state[t] = "BLOCKED",
           PublishedInWait', EndedInUser', PidsPositive'
    PROVE  SleepInv'
  BY DEF SleepInv, SleepersRight

\* The tick: a sleeper has one tick less to sleep, and is woken when it has none.
LEMMA TimerKeepsSleep ==
    ASSUME SlotsAssumption, TypeOK, SleepInv, Timer
    PROVE  SleepInv'
<1> DEFINE st == [t \in Slots |-> IF t \in Due THEN "READY" ELSE state[t]]
<1>1. /\ UNCHANGED <<pid_waiting_on, pid, heap, pc, arg>> /\ Schedule(st)
      /\ st \in [Slots -> States]
      /\ \A t \in Slots : wake_in[t] \in Int /\ elapsed[t] \in Nat
  BY DEF Timer, listVars, TypeOK, States
<1>2. \A t \in Slots : /\ state'[t] = "BLOCKED" <=> st[t] = "BLOCKED"
                       /\ state'[t] = "TERMINATED" <=> st[t] = "TERMINATED"
  BY <1>1, ScheduleKeepsBlocked
<1>3. PublishedInWait' /\ PidsPositive'
  BY <1>1 DEF SleepInv, PublishedInWait, PidsPositive
<1>4. EndedInUser'
  BY <1>1, <1>2 DEF SleepInv, EndedInUser
<1>5. SleepersRight'
  <2> SUFFICES ASSUME NEW t \in Slots, pc[t] = "sleep"
               PROVE  /\ arg[t] \in 1..MaxSleep
                      /\ IF state'[t] = "BLOCKED"
                         THEN wake_in'[t] >= 0 /\ wake_in'[t] + elapsed'[t] > arg[t]
                         ELSE elapsed'[t] > arg[t]
    BY <1>1 DEF SleepersRight
  <2>1. /\ arg[t] \in 1..MaxSleep /\ MaxSleep \in Nat
        /\ state[t] = "BLOCKED" => wake_in[t] >= 0 /\ wake_in[t] + elapsed[t] > arg[t]
        /\ state[t] # "BLOCKED" => elapsed[t] > arg[t]
    BY DEF SleepInv, SleepersRight, SlotsAssumption
  <2>2. /\ wake_in'[t] = IF wake_in[t] = Never \/ t \in Due THEN Never
                         ELSE IF wake_in[t] > 0 THEN wake_in[t] - 1 ELSE 0
        /\ elapsed'[t] = IF elapsed[t] <= MaxSleep THEN elapsed[t] + 1 ELSE elapsed[t]
    BY DEF Timer
  <2>3. t \in Due => state[t] = "BLOCKED" /\ wake_in[t] \in {0, 1}
    BY DEF Due
  <2>4. CASE t \in Due
    <3>1. elapsed'[t] > arg[t]
      BY <1>1, <2>1, <2>2, <2>3, <2>4
    <3>2. state'[t] # "BLOCKED"
      BY <1>2, <2>4
    <3> QED BY <2>1, <3>1, <3>2
  <2>5. CASE t \notin Due
    <3>1. state'[t] = "BLOCKED" <=> state[t] = "BLOCKED"
      BY <1>2, <2>5
    <3>2. CASE state[t] = "BLOCKED"
      <4>1. wake_in'[t] >= 0 /\ wake_in'[t] + elapsed'[t] > arg[t]
        BY <1>1, <2>1, <2>2, <2>5, <3>2 DEF Never
      <4> QED BY <2>1, <3>1, <3>2, <4>1
    <3>3. CASE state[t] # "BLOCKED"
      <4>1. elapsed'[t] > arg[t]
        BY <1>1, <2>1, <2>2, <3>3
      <4> QED BY <2>1, <3>1, <3>3, <4>1
    <3> QED BY <3>2, <3>3
  <2> QED BY <2>4, <2>5
<1> QED BY <1>3, <1>4, <1>5 DEF SleepInv

\* ksleep: the tick in progress does not count, so wake_at is one more.
LEMMA SleepKeepsSleep ==
    ASSUME SlotsAssumption, TypeOK, Core, SleepInv,
           NEW t \in Slots, NEW cs \in 1..MaxSleep, Sleep(t, cs)
    PROVE  SleepInv'
<1> DEFINE st == [state EXCEPT ![t] = "BLOCKED"]
<1>1. /\ pc[t] = "user" /\ current = t /\ Schedule(st)
      /\ wake_in' = [wake_in EXCEPT ![t] = cs + 1] /\ pc' = [pc EXCEPT ![t] = "sleep"]
      /\ arg' = [arg EXCEPT ![t] = cs] /\ elapsed' = [elapsed EXCEPT ![t] = 0]
      /\ UNCHANGED <<pid_waiting_on, pid, heap>>
  BY DEF Sleep, At, listVars
<1>2. /\ wake_in \in [Slots -> Int] /\ elapsed \in [Slots -> Nat] /\ pc \in [Slots -> Places]
      /\ arg \in [Slots -> Slots \union Nat] /\ state \in [Slots -> States]
      /\ st \in [Slots -> States]
  BY DEF TypeOK, States
<1>3. \A v \in Slots : /\ state'[v] = "BLOCKED" <=> st[v] = "BLOCKED"
                       /\ state'[v] = "TERMINATED" <=> st[v] = "TERMINATED"
  BY <1>1, <1>2, ScheduleKeepsBlocked
<1>4. /\ pc'[t] = "sleep" /\ arg'[t] = cs /\ wake_in'[t] = cs + 1 /\ elapsed'[t] = 0
      /\ \A v \in Slots \ {t} : /\ pc'[v] = pc[v] /\ arg'[v] = arg[v]
                                /\ wake_in'[v] = wake_in[v] /\ elapsed'[v] = elapsed[v]
                                /\ st[v] = state[v]
      /\ st[t] = "BLOCKED"
  BY <1>1, <1>2
<1> HIDE DEF st
<1>5. PublishedInWait' /\ PidsPositive'
  BY <1>1, <1>4 DEF SleepInv, PublishedInWait, PidsPositive
<1>6. EndedInUser'
  BY <1>3, <1>4 DEF SleepInv, EndedInUser
<1>7. SleepersRight'
  <2>1. ASSUME NEW v \in Slots \ {t}, pc'[v] = "sleep"
        PROVE  /\ arg'[v] \in 1..MaxSleep
               /\ IF state'[v] = "BLOCKED"
                  THEN wake_in'[v] >= 0 /\ wake_in'[v] + elapsed'[v] > arg'[v]
                  ELSE elapsed'[v] > arg'[v]
    BY <1>3, <1>4, <2>1 DEF SleepInv, SleepersRight
  <2>2. cs + 1 >= 0 /\ cs + 1 + 0 > cs
    BY DEF SlotsAssumption
  <2> QED BY <1>3, <1>4, <2>1, <2>2 DEF SleepersRight
<1> QED BY <1>5, <1>6, <1>7 DEF SleepInv

\* Steps of the running task on its way through a call, other than SLEEP.
LEMMA MoveKeepsSleep ==
    ASSUME SlotsAssumption, TypeOK, Core, SleepInv, NEW t \in Slots, NEW p, p # "sleep",
           current = t, pc' = [pc EXCEPT ![t] = p], UNCHANGED <<wake_in, elapsed, state, pid, heap>>,
           \A v \in Slots \ {t} : arg'[v] = arg[v] /\ pid_waiting_on'[v] = pid_waiting_on[v],
           pid_waiting_on'[t] = 0 \/ (pid_waiting_on'[t] = pid_waiting_on[t] /\ pc[t] # "wait")
    PROVE  SleepInv'
<1>1. state[t] # "TERMINATED"
  BY DEF Core, RunsOnLiveStack
<1>2. pc'[t] = p /\ \A v \in Slots \ {t} : pc'[v] = pc[v]
  BY DEF TypeOK
<1>3. PublishedInWait' /\ EndedInUser' /\ PidsPositive'
  BY <1>1, <1>2 DEF SleepInv, PublishedInWait, EndedInUser, PidsPositive
<1> QED BY <1>2, <1>3, SleepFrame

\* Steps in which the running task yields or blocks, other than in SLEEP.
LEMMA BlockKeepsSleep ==
    ASSUME SlotsAssumption, TypeOK, Core, SleepInv, NEW t \in Slots, NEW p, p # "sleep",
           NEW s \in {"RUNNING", "BLOCKED"}, current = t, pc[t] = "wait" => p = "wait",
           Schedule([state EXCEPT ![t] = s]), pc' = [pc EXCEPT ![t] = p],
           UNCHANGED <<wake_in, elapsed, pid, heap, arg>>,
           \A v \in Slots \ {t} : pid_waiting_on'[v] = pid_waiting_on[v],
           pid_waiting_on'[t] = pid_waiting_on[t] \/ p = "wait"
    PROVE  SleepInv'
<1> DEFINE st == [state EXCEPT ![t] = s]
<1>1. st \in [Slots -> States] /\ st[t] = s /\ \A v \in Slots \ {t} : st[v] = state[v]
  BY DEF TypeOK, States
<1>2. \A v \in Slots : /\ state'[v] = "BLOCKED" <=> st[v] = "BLOCKED"
                       /\ state'[v] = "TERMINATED" <=> st[v] = "TERMINATED"
  BY <1>1, ScheduleKeepsBlocked
<1>3. pc'[t] = p /\ \A v \in Slots \ {t} : pc'[v] = pc[v]
  BY DEF TypeOK
<1> HIDE DEF st
<1>4. PublishedInWait' /\ EndedInUser' /\ PidsPositive'
  BY <1>1, <1>2, <1>3 DEF SleepInv, PublishedInWait, EndedInUser, PidsPositive
<1> QED BY <1>1, <1>2, <1>3, <1>4, SleepFrame

\* EXIT wakes those that have published the pid, and none of them is a sleeper.
LEMMA ExitKeepsSleep ==
    ASSUME SlotsAssumption, TypeOK, Core, SleepInv, NEW t \in Slots, NEW c, Exit(t, c)
    PROVE  SleepInv'
<1> DEFINE W == WokenWaiters(pid[t])
<1>1. /\ pc[t] = "user" /\ current = t /\ Schedule(Ended(t))
      /\ UNCHANGED <<wake_in, elapsed, pid, heap, pc, arg>>
      /\ pid_waiting_on' = [u \in Slots |-> IF u \in W THEN 0 ELSE pid_waiting_on[u]]
  BY DEF Exit, At, callVars, history
<1>2. Ended(t) \in [Slots -> States]
  BY DEF TypeOK, States, Ended
<1>3. \A v \in Slots : /\ state'[v] = "BLOCKED" <=> Ended(t)[v] = "BLOCKED"
                       /\ state'[v] = "TERMINATED" <=> Ended(t)[v] = "TERMINATED"
  BY <1>1, <1>2, ScheduleKeepsBlocked
<1>4. \A v \in Slots : v \in W => pc[v] = "wait" /\ state[v] = "BLOCKED"
  <2>1. pid[t] # 0
    BY <1>1 DEF SleepInv, PidsPositive, Core, RunsOnLiveStack
  <2> QED BY <2>1 DEF WokenWaiters, SleepInv, PublishedInWait
<1>5. \A v \in Slots : Ended(t)[v] = IF v = t THEN "TERMINATED"
                                     ELSE IF v \in W THEN "READY" ELSE state[v]
  BY DEF Ended
<1> HIDE DEF W
<1>6. PublishedInWait' /\ PidsPositive'
  BY <1>1 DEF SleepInv, PublishedInWait, PidsPositive
<1>7. EndedInUser'
  BY <1>1, <1>3, <1>5 DEF SleepInv, EndedInUser
<1>8. \A v \in Slots : pc[v] = "sleep" => (state'[v] = "BLOCKED" <=> state[v] = "BLOCKED")
  BY <1>1, <1>3, <1>4, <1>5
<1> QED BY <1>1, <1>6, <1>7, <1>8, SleepFrame

\* task_alloc_task: the task is nobody's, so nobody's sleep is cut short.
LEMMA AllocKeepsSleep ==
    ASSUME SlotsAssumption, TypeOK, Core, SleepInv,
           NEW t \in Slots, NEW u \in Slots, At(t, "user"), u # t,
           \E q, lst : Allocated(t, u, q, lst),
           heap' \subseteq heap \union {u}, pid_waiting_on'[u] = 0,
           \A v \in Slots \ {u} : pid_waiting_on'[v] = pid_waiting_on[v]
    PROVE  SleepInv'
<1>1. /\ current = t /\ pc[t] = "user"
      /\ \E p \in Pids : pid' = [pid EXCEPT ![u] = p]
      /\ state' = [state EXCEPT ![u] = "READY"] /\ wake_in' = [wake_in EXCEPT ![u] = Never]
      /\ pc' = [pc EXCEPT ![t] = "build", ![u] = "user"] /\ arg' = [arg EXCEPT ![t] = u]
      /\ elapsed' = elapsed
  BY DEF At, Allocated
<1>2. PICK p \in Pids : pid' = [pid EXCEPT ![u] = p]
  BY <1>1
<1>3. /\ p >= 1 /\ pid'[u] = p /\ pc'[u] = "user" /\ pc'[t] = "build" /\ state'[u] = "READY"
      /\ \A v \in Slots \ {u} : /\ pid'[v] = pid[v] /\ state'[v] = state[v]
                                /\ wake_in'[v] = wake_in[v]
      /\ \A v \in Slots \ {u, t} : pc'[v] = pc[v] /\ arg'[v] = arg[v]
  BY <1>1, <1>2 DEF TypeOK, Pids
<1>4. state[t] # "TERMINATED"
  BY <1>1 DEF Core, RunsOnLiveStack
<1>5. PublishedInWait' /\ EndedInUser'
  <2>1. \A v \in Slots \ {u} : pid_waiting_on'[v] # 0 => pc'[v] = "wait"
    BY <1>1, <1>3 DEF SleepInv, PublishedInWait
  <2>2. \A v \in Slots \ {u} : state'[v] = "TERMINATED" => pc'[v] = "user"
    BY <1>3, <1>4 DEF SleepInv, EndedInUser
  <2> QED BY <1>3, <2>1, <2>2 DEF PublishedInWait, EndedInUser
<1>6. PidsPositive'
  <2>1. heap \subseteq Slots
    BY DEF TypeOK
  <2> QED BY <1>3, <2>1 DEF SleepInv, PidsPositive
<1> QED BY <1>1, <1>3, <1>5, <1>6, SleepFrame

\* Every step of the specification keeps what sleepers rest on.
LEMMA SleepStep ==
    ASSUME SlotsAssumption, TypeOK, Core, SleepInv, Next
    PROVE  SleepInv'
<1>0. /\ state \in [Slots -> States] /\ pc \in [Slots -> Places]
      /\ pid_waiting_on \in [Slots -> Nat] /\ arg \in [Slots -> Slots \union Nat]
      /\ heap \subseteq Slots /\ state[current] = "RUNNING" /\ current \in Slots
  BY DEF TypeOK, Core, RunsOnLiveStack
<1>1. CASE Timer
  BY <1>1, TimerKeepsSleep
<1>2. ASSUME NEW t \in Slots, DevWake(t) PROVE SleepInv'
  <2>1. /\ pc[t] = "dev" /\ state' = [state EXCEPT ![t] = "READY"]
        /\ UNCHANGED <<pid_waiting_on, pid, heap, pc, arg, wake_in, elapsed>>
    BY <1>2 DEF DevWake, listVars, callVars, history
  <2>2. state'[t] = "READY" /\ \A v \in Slots \ {t} : state'[v] = state[v]
    BY <1>0, <2>1
  <2>3. PublishedInWait' /\ EndedInUser' /\ PidsPositive'
    BY <2>1, <2>2 DEF SleepInv, PublishedInWait, EndedInUser, PidsPositive
  <2> QED BY <2>1, <2>2, <2>3, SleepFrame
<1>3. ASSUME NEW t \in Slots, DevBlock(t) PROVE SleepInv'
  <2>1. /\ current = t /\ pc[t] \in {"user", "dev"} /\ pc' = [pc EXCEPT ![t] = "dev"]
        /\ Schedule([state EXCEPT ![t] = "BLOCKED"])
        /\ UNCHANGED <<pid_waiting_on, pid, heap, arg, wake_in, elapsed>>
    BY <1>3 DEF DevBlock, At, listVars, history
  <2> QED BY <2>1, BlockKeepsSleep
<1>4. ASSUME NEW t \in Slots,
             DevReturn(t) \/ SleepReturn(t) \/ ProcreateReturn(t) \/ PushLoad(t)
             \/ PushStore(t) \/ SchedAdd(t)
      PROVE  SleepInv'
  <2>1. /\ current = t /\ pc[t] # "wait" /\ arg' = arg
        /\ \E p \in {"user", "push", "add", "ret"} : pc' = [pc EXCEPT ![t] = p]
        /\ UNCHANGED <<pid_waiting_on, pid, heap, wake_in, elapsed, state>>
    BY <1>4 DEF DevReturn, SleepReturn, ProcreateReturn, PushLoad, PushStore, SchedAdd, At,
                schedVars, listVars, history
  <2> QED BY <2>1, MoveKeepsSleep
<1>5. ASSUME NEW t \in Slots, BuildFail(t) PROVE SleepInv'
  <2> DEFINE u == arg[t]
  <2>1. /\ current = t /\ pc[t] = "build" /\ pc' = [pc EXCEPT ![t] = "user"]
        /\ heap' = heap \ {u} /\ UNCHANGED <<pid_waiting_on, pid, arg, wake_in, elapsed>>
        /\ \E s \in {"READY", "NONE"} : state' = [state EXCEPT ![u] = s]
    BY <1>5 DEF BuildFail, At, history
  <2>2. u \in Slots /\ state[u] = "READY"
    BY <2>1 DEF Core, BuildsAreExclusive, CreatorsAreRunnable, InFlight, TypeOK
  <2> HIDE DEF u
  <2>3. /\ pc'[t] = "user" /\ \A v \in Slots \ {t} : pc'[v] = pc[v]
        /\ state'[u] \in {"READY", "NONE"} /\ \A v \in Slots \ {u} : state'[v] = state[v]
    BY <1>0, <2>1, <2>2
  <2>4. PublishedInWait' /\ PidsPositive'
    BY <2>1, <2>3 DEF SleepInv, PublishedInWait, PidsPositive
  <2>5. EndedInUser'
    BY <2>1, <2>3 DEF SleepInv, EndedInUser
  <2> QED BY <2>1, <2>2, <2>3, <2>4, <2>5, SleepFrame
<1>6. ASSUME NEW t \in Slots, NEW p, Wait(t, p) PROVE SleepInv'
  <2>1. /\ current = t /\ pc[t] = "user" /\ pc' = [pc EXCEPT ![t] = "wait"]
        /\ UNCHANGED <<pid_waiting_on, pid, heap, wake_in, elapsed, state>>
    BY <1>6 DEF Wait, At, schedVars, listVars
  <2>2. \A v \in Slots \ {t} : arg'[v] = arg[v]
    BY <1>6, <1>0 DEF Wait
  <2> QED BY <2>1, <2>2, MoveKeepsSleep
<1>7. ASSUME NEW t \in Slots, NEW c, Exit(t, c) PROVE SleepInv'
  BY <1>7, ExitKeepsSleep
<1>8. ASSUME NEW t \in Slots, Yield(t) PROVE SleepInv'
  <2>1. /\ current = t /\ pc[t] = "user" /\ Schedule(state)
        /\ UNCHANGED <<pid_waiting_on, pid, heap, wake_in, elapsed, pc, arg>>
    BY <1>8 DEF Yield, At, listVars, callVars, history
  <2>2. state = [state EXCEPT ![t] = "RUNNING"] /\ pc = [pc EXCEPT ![t] = "user"]
    BY <2>1, <1>0
  <2>3. Schedule([state EXCEPT ![t] = "RUNNING"]) /\ pc' = [pc EXCEPT ![t] = "user"]
    BY <2>1, <2>2
  <2> QED BY <2>1, <2>3, BlockKeepsSleep
<1>9. ASSUME NEW t \in Slots, NEW cs \in 1..MaxSleep, Sleep(t, cs) PROVE SleepInv'
  BY <1>9, SleepKeepsSleep
<1>10. ASSUME NEW t \in Slots, NEW u \in Slots, AllocRecycled(t, u) PROVE SleepInv'
  <2>1. /\ At(t, "user") /\ current = t /\ heap' = heap /\ state[u] = "TERMINATED"
        /\ pid_waiting_on' = pid_waiting_on /\ \E q, lst : Allocated(t, u, q, lst)
    BY <1>10 DEF AllocRecycled, MayCreate, At, IsFirst, Recyclable
  <2>2. u # t /\ pid_waiting_on[u] = 0
    BY <2>1, <1>0 DEF SleepInv, EndedInUser, PublishedInWait
  <2> QED BY <2>1, <2>2, AllocKeepsSleep
<1>11. ASSUME NEW t \in Slots, NEW u \in Slots, AllocFresh(t, u) PROVE SleepInv'
  <2>1. /\ At(t, "user") /\ current = t /\ heap' = heap \union {u} /\ u \notin heap
        /\ pid_waiting_on' = [pid_waiting_on EXCEPT ![u] = 0]
        /\ \E q, lst : Allocated(t, u, q, lst)
    BY <1>11 DEF AllocFresh, MayCreate, At
  <2>2. u # t
    BY <2>1 DEF Core, RunsOnLiveStack
  <2>3. pid_waiting_on'[u] = 0 /\ \A v \in Slots \ {u} : pid_waiting_on'[v] = pid_waiting_on[v]
    BY <2>1, <1>0
  <2> QED BY <2>1, <2>2, <2>3, AllocKeepsSleep
<1>12. ASSUME NEW t \in Slots, WaitNotFound(t) PROVE SleepInv'
  <2>1. /\ current = t /\ pc' = [pc EXCEPT ![t] = "user"] /\ arg' = arg
        /\ pid_waiting_on' = [pid_waiting_on EXCEPT ![t] = 0]
        /\ UNCHANGED <<pid, heap, wake_in, elapsed, state>>
    BY <1>12 DEF WaitNotFound, At, schedVars
  <2>2. pid_waiting_on'[t] = 0 /\ \A v \in Slots \ {t} : pid_waiting_on'[v] = pid_waiting_on[v]
    BY <2>1, <1>0
  <2> QED BY <2>1, <2>2, MoveKeepsSleep
<1>13. ASSUME NEW t \in Slots, NEW u \in Slots, WaitReap(t, u) PROVE SleepInv'
  <2>1. /\ current = t /\ pc' = [pc EXCEPT ![t] = "user"] /\ arg' = arg
        /\ pid_waiting_on' = [pid_waiting_on EXCEPT ![t] = 0]
        /\ state[u] = "TERMINATED" /\ state' = [state EXCEPT ![u] = "NONE"]
        /\ heap' = heap \ {u} /\ UNCHANGED <<pid, wake_in, elapsed>>
    BY <1>13 DEF WaitReap, At
  <2>2. /\ pid_waiting_on'[t] = 0 /\ \A v \in Slots \ {t} : pid_waiting_on'[v] = pid_waiting_on[v]
        /\ pc'[t] = "user" /\ \A v \in Slots \ {t} : pc'[v] = pc[v]
        /\ state'[u] = "NONE" /\ \A v \in Slots \ {u} : state'[v] = state[v]
    BY <2>1, <1>0
  <2>3. PublishedInWait' /\ EndedInUser' /\ PidsPositive'
    BY <2>1, <2>2 DEF SleepInv, PublishedInWait, EndedInUser, PidsPositive
  <2> QED BY <2>1, <2>2, <2>3, SleepFrame
<1>14. ASSUME NEW t \in Slots, NEW u \in Slots, WaitBlock(t, u) PROVE SleepInv'
  <2>1. /\ current = t /\ pc[t] = "wait" /\ Schedule([state EXCEPT ![t] = "BLOCKED"])
        /\ pid_waiting_on' = [pid_waiting_on EXCEPT ![t] = arg[t]]
        /\ UNCHANGED <<pid, heap, wake_in, elapsed, pc, arg>>
    BY <1>14 DEF WaitBlock, At, callVars, history
  <2>2. pc' = [pc EXCEPT ![t] = "wait"]
    BY <2>1, <1>0
  <2>3. \A v \in Slots \ {t} : pid_waiting_on'[v] = pid_waiting_on[v]
    BY <2>1, <1>0
  <2> QED BY <2>1, <2>2, <2>3, BlockKeepsSleep
<1> QED BY <1>1, <1>2, <1>3, <1>4, <1>5, <1>6, <1>7, <1>8, <1>9, <1>10, <1>11, <1>12,
           <1>13, <1>14 DEF Next, Call, Continue

\* A sleeper is not runnable before as many whole ticks have passed as it asked
\* for, whoever exits, is created or reaped, and in whatever slot, meanwhile.
THEOREM SleepersSleep == Spec => []SleepsFullPeriod
<1>1. Init => SleepInv
  <2>1. \A t \in Slots : Init => pid_waiting_on[t] = 0 /\ pc[t] = "user"
    BY DEF Init
  <2>2. Init => PidsPositive
    BY SlotsAssumption DEF Init, PidsPositive, SlotsAssumption
  <2> QED BY <2>1, <2>2 DEF SleepInv, PublishedInWait, EndedInUser, SleepersRight
<1>2. IInv /\ SleepInv /\ [Next]_vars => SleepInv'
  <2> SUFFICES ASSUME IInv, SleepInv, [Next]_vars PROVE SleepInv'
    OBVIOUS
  <2>1. TypeOK /\ Core
    BY DEF IInv, Core
  <2>2. CASE Next
    BY <2>1, <2>2, SleepStep, SlotsAssumption
  <2>3. CASE UNCHANGED vars
    <3>1. UNCHANGED <<pid_waiting_on, pid, heap, pc, arg, wake_in, elapsed, state>>
      BY <2>3 DEF vars, schedVars, listVars, callVars, history
    <3>2. PublishedInWait' /\ EndedInUser' /\ PidsPositive'
      BY <3>1 DEF SleepInv, PublishedInWait, EndedInUser, PidsPositive
    <3> QED BY <3>1, <3>2, SleepFrame
  <2> QED BY <2>2, <2>3
<1>3. SleepInv => SleepsFullPeriod
  BY DEF SleepInv, SleepersRight, SleepsFullPeriod
<1> QED BY <1>1, <1>2, <1>3, Inductive, PTL DEF Spec
=============================================================================
