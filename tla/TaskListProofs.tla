--------------------------- MODULE TaskListProofs ---------------------------
(***************************************************************************)
(* The list of all tasks, pids and exit codes, for any number of task_t.   *)
(* task_list_push is not masked, so the list is only safe while one task   *)
(* creates and waits (OneParent): it is then always the ring, plus the     *)
(* child that is about to enter it, and what walks of the list promise     *)
(* follows.                                                                *)
(***************************************************************************)
EXTENDS TaskProofs

\* Only one task ever calls PROCREATE or WAIT, as pint and as the shell do.
OneParent == \A t, u \in Creators \union Waiters : t = u

-----------------------------------------------------------------------------
(* The chain that task_list and task_next form.                            *)

\* What follows k steps along the sequence q.
Nth(q, k) == IF k < Len(q) THEN q[k + 1] ELSE Nil

\* From the head hd, the pointers nx lead through q, once through each task.
IsChain(q, hd, nx) ==
    /\ q \in Seq(Slots) /\ Injective(q)
    /\ hd = Nth(q, 0)
    /\ \A i \in DOMAIN q : nx[q[i]] = Nth(q, i)

\* The steps of the walk that task_list_for_each makes are its elements, in order.
LEMMA WalkOfChain ==
    ASSUME SlotsAssumption, NEW q, IsChain(q, task_list, task_next)
    PROVE  ListAt = [k \in 0..Cardinality(Slots) |-> Nth(q, k)]
<1> DEFINE N == Cardinality(Slots)
           Eq(g) == g = [k \in 0..N |-> IF k = 0 THEN task_list
                                        ELSE IF g[k - 1] = Nil THEN Nil ELSE task_next[g[k - 1]]]
           f == [k \in 0..N |-> Nth(q, k)]
<1>0. /\ N \in Nat /\ Nil \notin Slots
      /\ q \in Seq(Slots) /\ Len(q) \in Nat /\ DOMAIN q = 1..Len(q)
      /\ task_list = Nth(q, 0) /\ \A i \in DOMAIN q : task_next[q[i]] = Nth(q, i)
  BY FS_CardinalityType DEF SlotsAssumption, IsChain
<1>1. \A k \in Nat \ {0} :
         Nth(q, k) = IF Nth(q, k - 1) = Nil THEN Nil ELSE task_next[Nth(q, k - 1)]
  <2> SUFFICES ASSUME NEW k \in Nat \ {0}
               PROVE  Nth(q, k) = IF Nth(q, k - 1) = Nil THEN Nil
                                  ELSE task_next[Nth(q, k - 1)]
    OBVIOUS
  <2>1. CASE k - 1 < Len(q)
    <3>1. Nth(q, k - 1) = q[k] /\ k \in DOMAIN q /\ q[k] # Nil
      BY <1>0, <2>1 DEF Nth
    <3> QED BY <1>0, <3>1
  <2>2. CASE ~(k - 1 < Len(q))
    BY <1>0, <2>2 DEF Nth
  <2> QED BY <2>1, <2>2
<1>2. Eq(f)
  <2> SUFFICES ASSUME NEW k \in 0..N
               PROVE  f[k] = IF k = 0 THEN task_list
                             ELSE IF f[k - 1] = Nil THEN Nil ELSE task_next[f[k - 1]]
    OBVIOUS
  <2>1. CASE k = 0
    BY <1>0, <2>1
  <2>2. CASE k # 0
    <3>1. k - 1 \in 0..N /\ k \in Nat \ {0}
      BY <1>0, <2>2
    <3> QED BY <1>1, <2>2, <3>1
  <2> QED BY <2>1, <2>2
<1>3. ListAt = CHOOSE g : Eq(g)
  BY DEF ListAt
<1> HIDE DEF f, N, Eq
<1>4. Eq(ListAt)
  BY <1>2, <1>3
<1>5. \A k \in 0..N : ListAt[k] = IF k = 0 THEN task_list
                                  ELSE IF ListAt[k - 1] = Nil THEN Nil
                                       ELSE task_next[ListAt[k - 1]]
  BY <1>4 DEF Eq
<1> DEFINE Bad == {k \in 0..N : ListAt[k] # Nth(q, k)}
<1>6. CASE Bad # {}
  <2>1. PICK m \in Bad : \A n \in Bad : m <= n
    <3>1. Bad \in SUBSET Nat
      BY <1>0
    <3> QED BY <1>6, <3>1, LeastNumber
  <2>2. m # 0
    BY <1>0, <1>5, <2>1
  <2>3. m - 1 \in 0..N /\ m \in Nat \ {0} /\ m - 1 \notin Bad
    BY <1>0, <2>1, <2>2
  <2>4. ListAt[m - 1] = Nth(q, m - 1)
    BY <2>3
  <2> QED BY <1>1, <1>5, <2>1, <2>2, <2>3, <2>4
<1>7. CASE Bad = {}
  <2>1. \A k \in 0..N : ListAt[k] = Nth(q, k)
    BY <1>7
  <2>2. ListAt = [k \in 0..N |-> ListAt[k]]
    BY <1>4 DEF Eq
  <2> QED BY <2>1, <2>2 DEF f, N
<1> QED BY <1>6, <1>7

\* The walk meets every element of the chain, and nothing else.
LEMMA ListedOfChain ==
    ASSUME SlotsAssumption, NEW q, IsChain(q, task_list, task_next)
    PROVE  /\ \A t : t \in Listed <=> In(q, t)
           /\ \A t \in Slots, S \in SUBSET Slots : IsFirst(t, S) => t \in S /\ In(q, t)
           /\ \A t \in Slots, S \in SUBSET Slots :
                 (\A u \in Slots : u \in S /\ In(q, u) <=> u = t) => IsFirst(t, S)
<1> DEFINE N == Cardinality(Slots)
<1>0. /\ N \in Nat /\ Nil \notin Slots
      /\ q \in Seq(Slots) /\ Len(q) \in Nat /\ DOMAIN q = 1..Len(q)
      /\ \A i \in DOMAIN q : q[i] \in Slots
  BY FS_CardinalityType DEF SlotsAssumption, IsChain
<1>1. Len(q) <= N
  <2>1. q \in [1..Len(q) -> Slots] /\ IsFiniteSet(Slots)
    BY <1>0 DEF SlotsAssumption
  <2>2. \A i, j \in 1..Len(q) : q[i] = q[j] => i = j
    BY <1>0 DEF IsChain, Injective
  <2> QED BY <1>0, <2>1, <2>2, NoLongerThan
<1> HIDE DEF N
<1>2. /\ DOMAIN ListAt = 0..N
      /\ \A k \in 0..N : ListAt[k] = Nth(q, k)
  BY WalkOfChain DEF N
<1>3. \A k \in 0..N : ListAt[k] # Nil => k + 1 \in DOMAIN q /\ ListAt[k] = q[k + 1]
  BY <1>0, <1>2 DEF Nth
<1>4. \A i \in DOMAIN q : i - 1 \in 0..N /\ ListAt[i - 1] = q[i] /\ q[i] # Nil
  BY <1>0, <1>1, <1>2 DEF Nth
<1>5. \A t : t \in Listed <=> In(q, t)
  BY <1>2, <1>3, <1>4 DEF Listed, In
<1>6. ASSUME NEW t \in Slots, NEW S \in SUBSET Slots, IsFirst(t, S) PROVE t \in S /\ In(q, t)
  BY <1>0, <1>2, <1>3, <1>6 DEF IsFirst, In
<1>7. ASSUME NEW t \in Slots, NEW S \in SUBSET Slots,
             \A u \in Slots : u \in S /\ In(q, u) <=> u = t
      PROVE  IsFirst(t, S)
  <2>1. PICK i \in DOMAIN q : q[i] = t
    BY <1>7 DEF In
  <2>2. i - 1 \in 0..N /\ ListAt[i - 1] = t /\ t \in S
    BY <1>4, <1>7, <2>1
  <2>3. ASSUME NEW j \in 0..N, j < i - 1, ListAt[j] \in S PROVE FALSE
    <3>1. ListAt[j] # Nil /\ ListAt[j] \in Slots
      BY <1>0, <2>3
    <3>2. j + 1 \in DOMAIN q /\ ListAt[j] = q[j + 1]
      BY <1>3, <3>1
    <3>3. q[j + 1] = t
      BY <1>7, <2>3, <3>1, <3>2 DEF In
    <3>4. j + 1 # i
      BY <1>0, <2>1, <2>3
    <3> QED BY <2>1, <3>2, <3>3, <3>4 DEF IsChain, Injective
  <2> QED BY <1>2, <2>2, <2>3 DEF IsFirst
<1> QED BY <1>5, <1>6, <1>7

\* Pointers of tasks outside the chain do not matter to it.
LEMMA ChainElsewhere ==
    ASSUME NEW q, NEW hd, NEW nx, NEW ny, IsChain(q, hd, nx),
           \A t \in Slots : In(q, t) => ny[t] = nx[t]
    PROVE  IsChain(q, hd, ny)
<1>1. \A i \in DOMAIN q : q[i] \in Slots /\ In(q, q[i])
  BY DEF IsChain, In
<1> QED BY <1>1 DEF IsChain

\* task_list_push puts a task in front.
Pushed(q, t) == [j \in 1..(Len(q) + 1) |-> IF j = 1 THEN t ELSE q[j - 1]]
LEMMA PushedChain ==
    ASSUME NEW q, NEW hd, NEW nx, IsChain(q, hd, nx), NEW t \in Slots, ~In(q, t), nx[t] = hd
    PROVE  /\ IsChain(Pushed(q, t), t, nx)
           /\ \A u : In(Pushed(q, t), u) <=> In(q, u) \/ u = t
<1> DEFINE f == Pushed(q, t)
<1>0. /\ q \in Seq(Slots) /\ Len(q) \in Nat /\ DOMAIN q = 1..Len(q)
      /\ Injective(q) /\ hd = Nth(q, 0) /\ \A i \in DOMAIN q : nx[q[i]] = Nth(q, i)
  BY DEF IsChain
<1>1. f \in [1..(Len(q) + 1) -> Slots]
  BY <1>0 DEF Pushed
<1>2. f \in Seq(Slots) /\ DOMAIN f = 1..(Len(q) + 1) /\ Len(f) = Len(q) + 1
  BY <1>0, <1>1, FcnIsSeq
<1>3. /\ f[1] = t /\ 1 \in DOMAIN f
      /\ \A i \in DOMAIN q : i + 1 \in DOMAIN f /\ f[i + 1] = q[i]
      /\ \A j \in DOMAIN f : j = 1 \/ (j - 1 \in DOMAIN q /\ f[j] = q[j - 1])
  BY <1>0, <1>2 DEF Pushed
<1> HIDE DEF f
<1>4. \A u : In(f, u) <=> In(q, u) \/ u = t
  BY <1>3 DEF In
<1>5. Injective(f)
  <2> SUFFICES ASSUME NEW i \in DOMAIN f, NEW j \in DOMAIN f, f[i] = f[j] PROVE i = j
    BY DEF Injective
  <2>1. CASE i = 1 \/ j = 1
    BY <1>3, <2>1 DEF In
  <2>2. CASE i # 1 /\ j # 1
    <3>1. i - 1 \in DOMAIN q /\ j - 1 \in DOMAIN q /\ q[i - 1] = q[j - 1]
      BY <1>3, <2>2
    <3>2. i - 1 = j - 1
      BY <1>0, <3>1 DEF Injective
    <3> QED BY <1>2, <3>2
  <2> QED BY <2>1, <2>2
<1>6. t = Nth(f, 0)
  BY <1>0, <1>2, <1>3 DEF Nth
<1>7. ASSUME NEW j \in DOMAIN f PROVE nx[f[j]] = Nth(f, j)
  <2>1. CASE j = 1
    <3>1. Nth(f, 1) = Nth(q, 0)
      BY <1>0, <1>2, <1>3 DEF Nth
    <3> QED BY <1>0, <1>3, <2>1, <3>1
  <2>2. CASE j # 1
    <3>1. j - 1 \in DOMAIN q /\ f[j] = q[j - 1]
      BY <1>3, <2>2
    <3>2. Nth(f, j) = Nth(q, j - 1)
      BY <1>0, <1>2, <1>3, <3>1 DEF Nth
    <3> QED BY <1>0, <3>1, <3>2
  <2> QED BY <2>1, <2>2
<1>8. IsChain(f, t, nx)
  BY <1>2, <1>5, <1>6, <1>7 DEF IsChain
<1> QED BY <1>4, <1>8 DEF f

\* task_list_unlink of a task that the list does not hold changes only that task.
LEMMA UnlinkedOff ==
    ASSUME SlotsAssumption, NEW q, IsChain(q, task_list, task_next), NEW t \in Slots, ~In(q, t)
    PROVE  IsChain(q, UnlinkedHead(t), Unlinked(t))
<1>0. /\ q \in Seq(Slots) /\ Len(q) \in Nat /\ DOMAIN q = 1..Len(q) /\ Nil \notin Slots
      /\ task_list = Nth(q, 0) /\ \A i \in DOMAIN q : task_next[q[i]] = Nth(q, i)
  BY DEF IsChain, SlotsAssumption
<1>1. \A k \in Nat : Nth(q, k) # t
  BY <1>0 DEF Nth, In
<1>2. UnlinkedHead(t) = task_list
  BY <1>0, <1>1 DEF UnlinkedHead
<1>3. ASSUME NEW u \in Slots, In(q, u) PROVE Unlinked(t)[u] = task_next[u]
  <2>1. u # t
    BY <1>3
  <2>2. task_next[u] # t
    <3>1. PICK i \in DOMAIN q : q[i] = u
      BY <1>3 DEF In
    <3>2. task_next[u] = Nth(q, i) /\ i \in Nat
      BY <1>0, <3>1
    <3> QED BY <1>1, <3>2
  <2> QED BY <2>1, <2>2 DEF Unlinked
<1> QED BY <1>2, <1>3, ChainElsewhere

\* task_list_unlink of a task on the list takes it out and nothing else.
Cut(q, m) == [j \in 1..(Len(q) - 1) |-> IF j < m THEN q[j] ELSE q[j + 1]]
LEMMA UnlinkedChain ==
    ASSUME SlotsAssumption, NEW q, IsChain(q, task_list, task_next), NEW t \in Slots, In(q, t)
    PROVE  \E p : /\ IsChain(p, UnlinkedHead(t), Unlinked(t))
                  /\ \A u : In(p, u) <=> In(q, u) /\ u # t
<1>0. /\ q \in Seq(Slots) /\ Len(q) \in Nat /\ DOMAIN q = 1..Len(q) /\ Nil \notin Slots
      /\ Injective(q) /\ \A i \in DOMAIN q : q[i] \in Slots
      /\ task_list = Nth(q, 0) /\ \A i \in DOMAIN q : task_next[q[i]] = Nth(q, i)
  BY DEF IsChain, SlotsAssumption
<1>1. PICK m \in DOMAIN q : q[m] = t
  BY DEF In
<1> DEFINE p == Cut(q, m)
<1>2. p \in [1..(Len(q) - 1) -> Slots] /\ Len(q) - 1 \in Nat /\ m \in 1..Len(q)
  <2>1. Len(q) - 1 \in Nat
    BY <1>0, <1>1
  <2>2. \A j \in 1..(Len(q) - 1) : j \in DOMAIN q /\ j + 1 \in DOMAIN q
    BY <1>0, <2>1
  <2> QED BY <1>0, <1>1, <2>1, <2>2 DEF Cut
<1>3. p \in Seq(Slots) /\ DOMAIN p = 1..(Len(q) - 1) /\ Len(p) = Len(q) - 1
  BY <1>2, FcnIsSeq
<1>4. \A j \in DOMAIN p : p[j] = IF j < m THEN q[j] ELSE q[j + 1]
  BY <1>3 DEF Cut
<1> HIDE DEF p
<1>5. \A i \in DOMAIN q : q[i] = t => i = m
  BY <1>0, <1>1 DEF Injective
<1>6. ASSUME NEW u PROVE In(p, u) <=> In(q, u) /\ u # t
  <2>1. ASSUME NEW j \in DOMAIN p, p[j] = u PROVE In(q, u) /\ u # t
    <3>1. CASE j < m
      <4>1. j \in DOMAIN q /\ q[j] = u /\ j # m
        BY <1>0, <1>3, <1>4, <2>1, <3>1
      <4> QED BY <1>5, <4>1 DEF In
    <3>2. CASE ~(j < m)
      <4>1. j + 1 \in DOMAIN q /\ q[j + 1] = u /\ j + 1 # m
        BY <1>0, <1>2, <1>3, <1>4, <2>1, <3>2
      <4> QED BY <1>5, <4>1 DEF In
    <3> QED BY <3>1, <3>2
  <2>2. ASSUME NEW i \in DOMAIN q, q[i] = u, u # t PROVE In(p, u)
    <3>1. CASE i < m
      <4>1. i \in DOMAIN p /\ p[i] = u
        BY <1>0, <1>2, <1>3, <1>4, <2>2, <3>1
      <4> QED BY <4>1 DEF In
    <3>2. CASE ~(i < m)
      <4>1. i # m
        BY <1>1, <2>2
      <4>2. i - 1 \in DOMAIN p /\ p[i - 1] = u
        BY <1>0, <1>2, <1>3, <1>4, <2>2, <3>2, <4>1
      <4> QED BY <4>2 DEF In
    <3> QED BY <3>1, <3>2
  <2> QED BY <2>1, <2>2 DEF In
<1>7. Injective(p)
  <2> SUFFICES ASSUME NEW i \in DOMAIN p, NEW j \in DOMAIN p, p[i] = p[j] PROVE i = j
    BY DEF Injective
  <2> DEFINE Old(k) == IF k < m THEN k ELSE k + 1
  <2>1. \A k \in DOMAIN p : Old(k) \in DOMAIN q /\ p[k] = q[Old(k)]
    BY <1>0, <1>2, <1>3, <1>4
  <2>2. Old(i) = Old(j)
    <3> HIDE DEF Old
    <3> QED BY <1>0, <2>1 DEF Injective
  <2> QED BY <1>2, <1>3, <2>2
<1>8. \A k \in Nat : Nth(p, k) = IF k + 1 < m THEN Nth(q, k) ELSE Nth(q, k + 1)
  <2> SUFFICES ASSUME NEW k \in Nat
               PROVE  Nth(p, k) = IF k + 1 < m THEN Nth(q, k) ELSE Nth(q, k + 1)
    OBVIOUS
  <2>1. CASE k < Len(p)
    <3>1. k + 1 \in DOMAIN p /\ Nth(p, k) = p[k + 1] /\ k < Len(q) /\ k + 1 < Len(q)
      BY <1>0, <1>3, <2>1 DEF Nth
    <3> QED BY <1>4, <3>1 DEF Nth
  <2>2. CASE ~(k < Len(p))
    BY <1>0, <1>2, <1>3, <2>2 DEF Nth
  <2> QED BY <2>1, <2>2
<1>9. \A i \in DOMAIN q : i \in Nat /\ (task_next[q[i]] = t <=> i + 1 = m)
  <2> SUFFICES ASSUME NEW i \in DOMAIN q PROVE task_next[q[i]] = t <=> i + 1 = m
    BY <1>0
  <2>1. CASE i < Len(q)
    <3>1. Nth(q, i) = q[i + 1] /\ i + 1 \in DOMAIN q
      BY <1>0, <2>1 DEF Nth
    <3> QED BY <1>0, <1>1, <1>5, <3>1
  <2>2. CASE ~(i < Len(q))
    BY <1>0, <1>2, <2>2 DEF Nth
  <2> QED BY <2>1, <2>2
<1>10. \A u : u \in Listed <=> In(q, u)
  BY ListedOfChain
<1>11. ASSUME NEW i \in DOMAIN q, i # m
       PROVE  Unlinked(t)[q[i]] = IF i + 1 = m THEN task_next[t] ELSE task_next[q[i]]
  <2>1. q[i] # t /\ q[i] \in Slots /\ q[i] \in Listed
    BY <1>0, <1>5, <1>10, <1>11 DEF In
  <2> QED BY <1>9, <2>1 DEF Unlinked
<1>12. task_next[t] = Nth(q, m)
  BY <1>0, <1>1
<1>13. ASSUME NEW j \in DOMAIN p PROVE Unlinked(t)[p[j]] = Nth(p, j)
  <2>1. CASE j < m
    <3>1. j \in DOMAIN q /\ j # m /\ p[j] = q[j] /\ j \in Nat
      BY <1>0, <1>3, <1>4, <2>1
    <3>2. Unlinked(t)[q[j]] = IF j + 1 = m THEN Nth(q, m) ELSE Nth(q, j)
      BY <1>0, <1>11, <1>12, <3>1
    <3>3. j + 1 < m \/ j + 1 = m
      BY <1>2, <2>1, <3>1
    <3> QED BY <1>8, <3>1, <3>2, <3>3
  <2>2. CASE ~(j < m)
    <3>1. j + 1 \in DOMAIN q /\ j + 1 # m /\ p[j] = q[j + 1] /\ j \in Nat /\ j + 1 + 1 # m
          /\ ~(j + 1 < m)
      BY <1>0, <1>2, <1>3, <1>4, <2>2
    <3>2. Unlinked(t)[q[j + 1]] = Nth(q, j + 1)
      BY <1>0, <1>11, <3>1
    <3> QED BY <1>8, <3>1, <3>2
  <2> QED BY <2>1, <2>2
<1>14. UnlinkedHead(t) = Nth(p, 0)
  <2>1. task_list = q[1] /\ 1 \in DOMAIN q
    BY <1>0, <1>2 DEF Nth
  <2>2. CASE m = 1
    <3>1. UnlinkedHead(t) = Nth(q, 1)
      BY <1>1, <1>12, <2>1, <2>2 DEF UnlinkedHead
    <3> QED BY <1>8, <2>2, <3>1
  <2>3. CASE m # 1
    <3>1. UnlinkedHead(t) = Nth(q, 0)
      BY <1>0, <1>5, <2>1, <2>3 DEF UnlinkedHead
    <3> QED BY <1>2, <1>8, <2>3, <3>1
  <2> QED BY <2>2, <2>3
<1> QED BY <1>3, <1>6, <1>7, <1>13, <1>14 DEF IsChain

-----------------------------------------------------------------------------
(* The inductive invariant.                                                *)

Busy == InFlight \union {"wait"}
ParentOnly == \A t \in Slots : pc[t] \in Busy => t \in Creators \union Waiters

\* The tasks that the list should hold: the ring's, and the child that
\* task_list_push has just put there.
Member(t) == InRing(t) \/ \E u \in Slots : pc[u] = "add" /\ arg[u] = t

ListRight ==
    /\ \E q : /\ IsChain(q, task_list, task_next)
              /\ \A t \in Slots : In(q, t) <=> Member(t)
    /\ \A t \in Slots : pc[t] = "push" => task_next[arg[t]] = task_list

PidsRight ==
    /\ \A t, u \in Slots : Member(t) /\ Member(u) /\ pid[t] = pid[u] => t = u
    /\ \A t \in Slots : pc[t] \in {"build", "push"} =>
          \A u \in Slots : Member(u) => pid[u] # pid[arg[t]]

\* Each member was created once, and nobody's code was handed out while it is one.
GensRight ==
    /\ \A t \in Slots : Member(t) => gen[t] \in 1..Len(born)
    /\ \A t, u \in Slots : Member(t) /\ Member(u) /\ gen[t] = gen[u] => t = u
CodesRight ==
    /\ delivered \in Seq([asked : Nat, got : Nat]) /\ missed = {}
    /\ DeliveredOnce /\ DeliversAsked
    /\ \A i \in DOMAIN delivered :
          /\ delivered[i].got \in 1..Len(born)
          /\ \A t \in Slots : Member(t) => gen[t] # delivered[i].got

\* The task that a WAIT is about keeps its pid, and stays, until WAIT takes it.
AsksRight ==
    \A t \in Slots : pc[t] = "wait" =>
        IF asked[t] = 0 THEN \A u \in Slots : Member(u) => pid[u] # arg[t]
        ELSE \E u \in Slots : Member(u) /\ pid[u] = arg[t] /\ gen[u] = asked[t]

FindInv == ParentOnly /\ ListRight /\ PidsRight /\ GensRight /\ CodesRight /\ AsksRight

-----------------------------------------------------------------------------
(* What the invariant says of a walk.                                      *)

\* A member is allocated and its state is not NONE, and what PROCREATE is building
\* is no member until it is pushed.
LEMMA MembersLive ==
    ASSUME TypeOK, Core
    PROVE  /\ \A t \in Slots : Member(t) => t \in heap /\ state[t] # "NONE"
           /\ \A t \in Slots : pc[t] \in {"build", "push"} => arg[t] \in Slots /\ ~Member(arg[t])
<1>1. \A t \in Slots : InRing(t) => t \in heap /\ state[t] # "NONE"
  BY DEF Core, RingOfLiveTasks
<1>2. \A u \in Slots : pc[u] \in InFlight =>
         arg[u] \in heap /\ arg[u] \in Slots /\ ~InRing(arg[u]) /\ state[arg[u]] = "READY"
  BY DEF Core, BuildsAreExclusive, CreatorsAreRunnable, InFlight, TypeOK
<1>3. \A t, u \in Slots : pc[t] \in {"build", "push"} /\ pc[u] = "add" => arg[u] # arg[t]
  BY DEF Core, BuildsAreExclusive
<1> QED BY <1>1, <1>2, <1>3 DEF Member, InFlight

\* A walk of the list meets the members, and finds the first of any kind.
LEMMA WalkFinds ==
    ASSUME SlotsAssumption, ListRight
    PROVE  /\ \A t : t \in Listed => t \in Slots
           /\ \A t \in Slots : t \in Listed <=> Member(t)
           /\ \A t \in Slots, S \in SUBSET Slots : IsFirst(t, S) => t \in S /\ Member(t)
           /\ \A t \in Slots, S \in SUBSET Slots :
                 (\A u \in Slots : u \in S /\ Member(u) <=> u = t) => IsFirst(t, S)
<1>1. PICK q : IsChain(q, task_list, task_next) /\ \A t \in Slots : In(q, t) <=> Member(t)
  BY DEF ListRight
<1>2. /\ \A t : t \in Listed <=> In(q, t)
      /\ \A t \in Slots, S \in SUBSET Slots : IsFirst(t, S) => t \in S /\ In(q, t)
      /\ \A t \in Slots, S \in SUBSET Slots :
            (\A u \in Slots : u \in S /\ In(q, u) <=> u = t) => IsFirst(t, S)
  BY <1>1, ListedOfChain
<1>3. \A t : In(q, t) => t \in Slots
  BY <1>1 DEF In, IsChain
<1> QED BY <1>1, <1>2, <1>3

\* While the one parent is not inside PROCREATE or WAIT, nobody is.
LEMMA ParentAlone ==
    ASSUME OneParent, ParentOnly, NEW t \in Creators \union Waiters
    PROVE  \A u \in Slots \ {t} : pc[u] \notin Busy
  BY DEF OneParent, ParentOnly

\* The holder of a pid among the members is who WAIT is about.
LEMMA HolderIsMember ==
    ASSUME SlotsAssumption, TypeOK, Core, ListRight, PidsRight, NEW p
    PROVE  \/ Holder(p) = 0 /\ \A u \in Slots : Member(u) => pid[u] # p
           \/ \E u \in Slots : Member(u) /\ pid[u] = p /\ Holder(p) = gen[u]
<1> DEFINE H == {gen[u] : u \in {v \in Slots : IsFirst(v, WithPid(p))}}
<1>1. Holder(p) = IF H = {} THEN 0 ELSE CHOOSE g \in H : TRUE
  BY DEF Holder
<1>2. /\ WithPid(p) \in SUBSET Slots
      /\ \A u \in Slots : u \in WithPid(p) <=> pid[u] = p /\ state[u] # "NONE"
  BY DEF WithPid
<1>3. \A u \in Slots : IsFirst(u, WithPid(p)) => Member(u) /\ pid[u] = p
  BY <1>2, WalkFinds
<1>4. CASE \E u \in Slots : Member(u) /\ pid[u] = p
  <2>1. PICK u \in Slots : Member(u) /\ pid[u] = p
    BY <1>4
  <2>2. \A v \in Slots : v \in WithPid(p) /\ Member(v) <=> v = u
    BY <1>2, <2>1, MembersLive DEF PidsRight
  <2>3. IsFirst(u, WithPid(p))
    BY <1>2, <2>2, WalkFinds
  <2>4. H = {gen[u]}
    BY <1>3, <2>1, <2>3 DEF PidsRight
  <2>5. Holder(p) = gen[u]
    BY <1>1, <2>4
  <2> QED BY <2>1, <2>5
<1>5. CASE \A u \in Slots : Member(u) => pid[u] # p
  <2>1. H = {}
    BY <1>3, <1>5
  <2> QED BY <1>1, <1>5, <2>1
<1> QED BY <1>4, <1>5

-----------------------------------------------------------------------------
(* Every step keeps it.                                                    *)

\* Steps that leave the list, the ring's members and the parent's call alone.
LEMMA FoundFrame ==
    ASSUME FindInv, UNCHANGED <<ring, task_list, task_next, pid, gen, born, delivered, missed>>,
           \A t \in Slots : pc'[t] \in Busy =>
              pc'[t] = pc[t] /\ arg'[t] = arg[t] /\ asked'[t] = asked[t],
           \A t \in Slots : pc[t] = "add" => pc'[t] = "add"
    PROVE  FindInv'
<1>1. \A t : Member(t)' <=> Member(t)
  BY DEF Member, InRing, Busy, InFlight
<1>2. ParentOnly'
  BY DEF FindInv, ParentOnly
<1>3. ListRight'
  BY <1>1 DEF FindInv, ListRight, Busy, InFlight
<1>4. PidsRight'
  BY <1>1 DEF FindInv, PidsRight, Busy, InFlight
<1>5. GensRight'
  BY <1>1 DEF FindInv, GensRight
<1>6. CodesRight'
  BY <1>1 DEF FindInv, CodesRight, DeliveredOnce, DeliversAsked
<1>7. AsksRight'
  BY <1>1 DEF FindInv, AsksRight, Busy
<1> QED BY <1>2, <1>3, <1>4, <1>5, <1>6, <1>7 DEF FindInv

\* A task leaves the list and the ring together: what is left is a chain.
LEMMA MemberCut ==
    ASSUME SlotsAssumption, TypeOK, Core, ListRight, NEW u \in Slots, InRing(u),
           \A v \in Slots : pc[v] \notin InFlight, \A v \in Slots : pc'[v] \notin {"push", "add"},
           ring' = Removed(ring, u), task_next' = Unlinked(u), task_list' = UnlinkedHead(u)
    PROVE  /\ \A v \in Slots : Member(v)' <=> Member(v) /\ v # u
           /\ ListRight'
<1>1. ring \in Seq(Slots) /\ Injective(ring) /\ \A v \in Slots : In(ring, v) <=> InRing(v)
  BY DEF TypeOK, Core, RingOfLiveTasks, Injective, In, InRing
<1>2. \A v \in Slots : InRing(v)' <=> InRing(v) /\ v # u
  <2>1. \A v \in Slots : InRing(v)' <=> In(Removed(ring, u), v)
    BY DEF InRing, In
  <2> QED BY <1>1, <2>1, RemovedRing
<1>3. \A v \in Slots : Member(v) <=> InRing(v)
  BY DEF Member, InFlight
<1>4. \A v \in Slots : Member(v)' <=> InRing(v)'
  BY DEF Member
<1>5. \A v \in Slots : Member(v)' <=> Member(v) /\ v # u
  BY <1>2, <1>3, <1>4
<1>6. PICK q : IsChain(q, task_list, task_next) /\ \A v \in Slots : In(q, v) <=> Member(v)
  BY DEF ListRight
<1>7. PICK p : /\ IsChain(p, UnlinkedHead(u), Unlinked(u))
               /\ \A v : In(p, v) <=> In(q, v) /\ v # u
  BY <1>3, <1>6, UnlinkedChain
<1>8. IsChain(p, task_list', task_next') /\ \A v \in Slots : In(p, v) <=> Member(v)'
  BY <1>5, <1>6, <1>7
<1> QED BY <1>5, <1>8 DEF ListRight

\* syshandler_wait: the task asked for is the one that has the pid now.
LEMMA WaitKeepsFound ==
    ASSUME SlotsAssumption, TypeOK, Core, OneParent, FindInv,
           NEW t \in Slots, NEW p \in Pids, Wait(t, p)
    PROVE  FindInv'
<1>1. /\ pc[t] = "user" /\ t \in Waiters
      /\ pc' = [pc EXCEPT ![t] = "wait"] /\ arg' = [arg EXCEPT ![t] = p]
      /\ asked' = [asked EXCEPT ![t] = Holder(p)]
      /\ UNCHANGED <<ring, task_list, task_next, pid, gen, born, delivered, missed>>
  BY DEF Wait, At, schedVars, listVars
<1>2. /\ pc \in [Slots -> Places] /\ arg \in [Slots -> Slots \union Nat] /\ asked \in [Slots -> Nat]
  BY DEF TypeOK
<1>3. /\ pc'[t] = "wait" /\ arg'[t] = p /\ asked'[t] = Holder(p)
      /\ \A u \in Slots \ {t} : pc'[u] = pc[u]
      /\ \A u \in Slots \ {t} : pc'[u] \notin Busy
  <2>1. \A u \in Slots \ {t} : pc[u] \notin Busy
    BY <1>1, ParentAlone DEF FindInv
  <2>2. p \in Slots \union Nat
    BY DEF Pids
  <2> QED BY <1>1, <1>2, <2>1, <2>2
<1>4. \A v : Member(v)' <=> Member(v)
  BY <1>1, <1>3 DEF Member, InRing, Busy, InFlight
<1>5. ParentOnly'
  BY <1>1, <1>3 DEF ParentOnly
<1>6. ListRight' /\ PidsRight' /\ GensRight'
  <2>1. \A u \in Slots : pc'[u] \notin {"build", "push"}
    BY <1>3 DEF Busy, InFlight
  <2> QED BY <1>1, <1>4, <2>1 DEF FindInv, ListRight, PidsRight, GensRight
<1>7. CodesRight'
  BY <1>1, <1>4 DEF FindInv, CodesRight, DeliveredOnce, DeliversAsked
<1>8. AsksRight'
  <2>1. ASSUME NEW u \in Slots, pc'[u] = "wait" PROVE u = t
    BY <1>3, <2>1 DEF Busy
  <2>2. \/ Holder(p) = 0 /\ \A u \in Slots : Member(u) => pid[u] # p
        \/ \E u \in Slots : Member(u) /\ pid[u] = p /\ Holder(p) = gen[u]
    BY HolderIsMember DEF FindInv
  <2>3. \A u \in Slots : Member(u) => gen[u] # 0
    BY DEF FindInv, GensRight
  <2>4. IF asked'[t] = 0 THEN \A u \in Slots : Member(u) => pid[u] # p
        ELSE \E u \in Slots : Member(u) /\ pid[u] = p /\ gen[u] = asked'[t]
    BY <1>3, <2>2, <2>3
  <2> QED BY <1>1, <1>3, <1>4, <2>1, <2>4 DEF AsksRight
<1> QED BY <1>5, <1>6, <1>7, <1>8 DEF FindInv

\* WAIT finds nobody only if there was nobody when it was called.
LEMMA NotFoundKeepsFound ==
    ASSUME SlotsAssumption, TypeOK, Core, FindInv, NEW t \in Slots, WaitNotFound(t)
    PROVE  FindInv'
<1>1. /\ pc[t] = "wait" /\ WithPid(arg[t]) \cap Listed = {}
      /\ pc' = [pc EXCEPT ![t] = "user"] /\ missed' = missed \union ({asked[t]} \ {0})
      /\ UNCHANGED <<ring, task_list, task_next, pid, gen, born, delivered, arg, asked>>
  BY DEF WaitNotFound, At, schedVars
<1>2. asked[t] = 0
  <2> SUFFICES ASSUME asked[t] # 0 PROVE FALSE
    OBVIOUS
  <2>1. PICK u \in Slots : Member(u) /\ pid[u] = arg[t]
    BY <1>1 DEF FindInv, AsksRight
  <2>2. u \in Listed /\ state[u] # "NONE"
    BY <2>1, WalkFinds, MembersLive DEF FindInv
  <2> QED BY <1>1, <2>1, <2>2 DEF WithPid
<1>3. missed' = missed
  BY <1>1, <1>2
<1>4. \A u \in Slots : pc'[u] \in Busy => pc'[u] = pc[u]
  BY <1>1 DEF TypeOK, Busy, InFlight
<1>5. \A u \in Slots : pc[u] = "add" => pc'[u] = "add"
  BY <1>1 DEF TypeOK
<1> QED BY <1>1, <1>3, <1>4, <1>5, FoundFrame

\* WAIT takes the code of the task it was asked for, once, and the task is gone.
LEMMA ReapKeepsFound ==
    ASSUME SlotsAssumption, TypeOK, Core, OneParent, FindInv,
           NEW t \in Slots, NEW u \in Slots, WaitReap(t, u)
    PROVE  FindInv'
<1> DEFINE d == [asked |-> asked[t], got |-> gen[u]]
<1>1. /\ pc[t] = "wait" /\ IsFirst(u, WithPid(arg[t])) /\ state[u] = "TERMINATED"
      /\ ring' = Removed(ring, u) /\ task_next' = Unlinked(u) /\ task_list' = UnlinkedHead(u)
      /\ pc' = [pc EXCEPT ![t] = "user"] /\ delivered' = Append(delivered, d)
      /\ UNCHANGED <<pid, gen, born, missed, arg, asked>>
  BY DEF WaitReap, At
<1>2. /\ \A v \in Slots : pc[v] \in Busy => v = t
      /\ \A v \in Slots : pc'[v] \notin Busy
  <2>1. t \in Creators \union Waiters
    BY <1>1 DEF FindInv, ParentOnly, Busy
  <2>2. \A v \in Slots \ {t} : pc[v] \notin Busy
    BY <2>1, ParentAlone DEF FindInv
  <2>3. \A v \in Slots : pc'[v] = IF v = t THEN "user" ELSE pc[v]
    BY <1>1 DEF TypeOK
  <2> QED BY <2>2, <2>3 DEF Busy, InFlight
<1>3. /\ \A v \in Slots : pc[v] \notin InFlight
      /\ \A v \in Slots : pc'[v] \notin {"push", "add"}
  BY <1>1, <1>2 DEF Busy, InFlight
<1>4. InRing(u) /\ Member(u) /\ pid[u] = arg[t]
  <2>1. u \in WithPid(arg[t]) /\ InRing(u)
    BY <1>1 DEF IsFirst, Core, EndedInRing
  <2> QED BY <2>1 DEF Member, WithPid
<1>5. /\ \A v \in Slots : Member(v)' <=> Member(v) /\ v # u
      /\ ListRight'
  BY <1>1, <1>3, <1>4, MemberCut DEF FindInv
<1>6. ParentOnly' /\ AsksRight'
  BY <1>2 DEF ParentOnly, AsksRight, Busy
<1>7. PidsRight'
  BY <1>1, <1>2, <1>5 DEF FindInv, PidsRight, Busy, InFlight
<1>8. GensRight'
  BY <1>1, <1>5 DEF FindInv, GensRight
<1>9. gen[u] \in 1..Len(born) /\ asked[t] = gen[u]
  <2>1. gen[u] \in 1..Len(born)
    BY <1>4 DEF FindInv, GensRight
  <2>2. asked[t] # 0
    BY <1>1, <1>4 DEF FindInv, AsksRight
  <2>3. PICK v \in Slots : Member(v) /\ pid[v] = arg[t] /\ gen[v] = asked[t]
    BY <1>1, <2>2 DEF FindInv, AsksRight
  <2>4. v = u
    BY <1>4, <2>3 DEF FindInv, PidsRight
  <2> QED BY <2>1, <2>3, <2>4
<1>10. CodesRight'
  <2>1. d \in [asked : Nat, got : Nat] /\ d.got = gen[u] /\ d.asked = asked[t]
    BY DEF TypeOK
  <2> HIDE DEF d
  <2>2. /\ delivered \in Seq([asked : Nat, got : Nat]) /\ Len(delivered) \in Nat
        /\ DOMAIN delivered = 1..Len(delivered)
    BY DEF FindInv, CodesRight
  <2>3. /\ delivered' \in Seq([asked : Nat, got : Nat])
        /\ DOMAIN delivered' = 1..(Len(delivered) + 1)
        /\ delivered'[Len(delivered) + 1] = d
        /\ \A i \in DOMAIN delivered : delivered'[i] = delivered[i]
    BY <1>1, <2>1, <2>2
  <2>4. \A i \in DOMAIN delivered' : i \in DOMAIN delivered \/ i = Len(delivered) + 1
    BY <2>2, <2>3
  <2>5. \A i \in DOMAIN delivered :
           /\ delivered[i].got \in 1..Len(born) /\ delivered[i].got = delivered[i].asked
           /\ \A v \in Slots : Member(v) => gen[v] # delivered[i].got
    BY DEF FindInv, CodesRight, DeliversAsked
  <2>6. DeliveredOnce'
    <3> SUFFICES ASSUME NEW i \in DOMAIN delivered', NEW j \in DOMAIN delivered',
                        delivered'[i].got = delivered'[j].got
                 PROVE  i = j
      BY DEF DeliveredOnce
    <3>1. CASE i \in DOMAIN delivered /\ j \in DOMAIN delivered
      BY <2>3, <3>1 DEF FindInv, CodesRight, DeliveredOnce
    <3>2. CASE i \notin DOMAIN delivered \/ j \notin DOMAIN delivered
      BY <1>4, <2>1, <2>3, <2>4, <2>5, <3>2
    <3> QED BY <3>1, <3>2
  <2>7. DeliversAsked'
    BY <1>9, <2>1, <2>3, <2>4, <2>5 DEF DeliversAsked
  <2>8. ASSUME NEW i \in DOMAIN delivered'
        PROVE  /\ delivered'[i].got \in 1..Len(born)
               /\ \A v \in Slots : Member(v)' => gen[v] # delivered'[i].got
    <3>1. CASE i \in DOMAIN delivered
      BY <1>5, <2>3, <2>5, <3>1
    <3>2. CASE i = Len(delivered) + 1
      BY <1>4, <1>5, <1>9, <2>1, <2>3, <3>2 DEF FindInv, GensRight
    <3> QED BY <2>4, <3>1, <3>2
  <2> QED BY <1>1, <2>3, <2>6, <2>7, <2>8 DEF FindInv, CodesRight
<1> QED BY <1>5, <1>6, <1>7, <1>8, <1>10 DEF FindInv

\* task_alloc_common: the task being built gets a pid that no task on the list has.
LEMMA AllocatedKeepsFound ==
    ASSUME SlotsAssumption, TypeOK, Core, FindInv, NEW t \in Slots, NEW u \in Slots,
           NEW q, NEW lst, Allocated(t, u, q, lst), t # u, t \in Creators,
           \A v \in Slots : pc[v] \notin Busy,
           \A v \in Slots : Member(v)' <=> Member(v) /\ v # u, ListRight',
           \A v \in Slots : Member(v) /\ v # u => v \in lst
    PROVE  FindInv'
<1>1. PICK p \in Pids : IsFreePid(p, lst) /\ pid' = [pid EXCEPT ![u] = p]
  BY DEF Allocated
<1>2. /\ pc' = [pc EXCEPT ![t] = "build", ![u] = "user"] /\ arg' = [arg EXCEPT ![t] = u]
      /\ gen' = [gen EXCEPT ![u] = 0] /\ UNCHANGED <<born, delivered, missed>>
  BY DEF Allocated
<1>3. /\ pc \in [Slots -> Places] /\ arg \in [Slots -> Slots \union Nat]
      /\ pid \in [Slots -> Nat] /\ gen \in [Slots -> Nat]
  BY DEF TypeOK
<1>4. /\ \A v \in Slots : pc'[v] \in Busy => v = t
      /\ pc'[t] = "build" /\ arg'[t] = u /\ pid'[u] = p
      /\ \A v \in Slots \ {u} : pid'[v] = pid[v] /\ gen'[v] = gen[v]
  <2>1. \A v \in Slots : pc'[v] = IF v = u THEN "user" ELSE IF v = t THEN "build" ELSE pc[v]
    BY <1>2, <1>3
  <2>2. "user" \notin Busy
    BY DEF Busy, InFlight
  <2> QED BY <1>1, <1>2, <1>3, <2>1, <2>2
<1>5. ParentOnly'
  BY <1>4 DEF ParentOnly
<1>6. PidsRight'
  <2>1. \A v, w \in Slots : Member(v)' /\ Member(w)' /\ pid'[v] = pid'[w] => v = w
    BY <1>4 DEF FindInv, PidsRight
  <2>2. ASSUME NEW w \in Slots, Member(w)' PROVE pid'[w] # p
    <3>1. Member(w) /\ w # u /\ w \in lst /\ state[w] # "NONE"
      BY <2>2, MembersLive
    <3>2. pid[w] # p
      BY <1>1, <3>1 DEF IsFreePid
    <3> QED BY <1>4, <3>1, <3>2
  <2>3. \A v \in Slots : pc'[v] \in {"build", "push"} => v = t
    BY <1>4 DEF Busy, InFlight
  <2>4. \A v \in Slots : pc'[v] \in {"build", "push"} =>
           \A w \in Slots : Member(w)' => pid'[w] # pid'[arg'[v]]
    BY <1>4, <2>2, <2>3
  <2> QED BY <2>1, <2>4 DEF PidsRight
<1>7. GensRight'
  BY <1>2, <1>4 DEF FindInv, GensRight
<1>8. CodesRight'
  <2>1. /\ delivered' \in Seq([asked : Nat, got : Nat]) /\ missed' = {}
        /\ DeliveredOnce' /\ DeliversAsked'
    BY <1>2 DEF FindInv, CodesRight, DeliveredOnce, DeliversAsked
  <2>2. \A i \in DOMAIN delivered' :
           /\ delivered'[i].got \in 1..Len(born')
           /\ \A v \in Slots : Member(v)' => gen'[v] # delivered'[i].got
    BY <1>2, <1>4 DEF FindInv, CodesRight
  <2> QED BY <2>1, <2>2 DEF CodesRight
<1>9. AsksRight'
  <2>1. \A v \in Slots : pc'[v] # "wait"
    BY <1>4 DEF Busy
  <2> QED BY <2>1 DEF AsksRight
<1> QED BY <1>5, <1>6, <1>7, <1>8, <1>9 DEF FindInv

\* task_alloc_task, with a task that has ended ...
LEMMA RecycleKeepsFound ==
    ASSUME SlotsAssumption, TypeOK, Core, OneParent, FindInv,
           NEW t \in Slots, NEW u \in Slots, AllocRecycled(t, u)
    PROVE  FindInv'
<1>1. /\ At(t, "user") /\ pc[t] = "user" /\ current = t /\ t \in Creators
      /\ state[u] = "TERMINATED"
      /\ task_next' = Unlinked(u) /\ task_list' = UnlinkedHead(u)
      /\ Allocated(t, u, Removed(ring, u), Listed \ {u})
  BY DEF AllocRecycled, MayCreate, At, IsFirst, Recyclable
<1>2. ring' = Removed(ring, u) /\ pc' = [pc EXCEPT ![t] = "build", ![u] = "user"]
  BY <1>1 DEF Allocated
<1>3. t # u /\ InRing(u)
  BY <1>1 DEF Core, RunsOnLiveStack, EndedInRing
<1>4. \A v \in Slots : pc[v] \notin Busy
  BY <1>1, ParentAlone DEF FindInv, Busy, InFlight
<1>5. /\ \A v \in Slots : pc[v] \notin InFlight
      /\ \A v \in Slots : pc'[v] \notin {"push", "add"}
  BY <1>2, <1>4 DEF TypeOK, Busy, InFlight
<1>6. /\ \A v \in Slots : Member(v)' <=> Member(v) /\ v # u
      /\ ListRight'
  BY <1>1, <1>2, <1>3, <1>5, MemberCut DEF FindInv
<1>7. \A v \in Slots : Member(v) /\ v # u => v \in Listed \ {u}
  BY WalkFinds DEF FindInv
<1> QED BY <1>1, <1>3, <1>4, <1>6, <1>7, AllocatedKeepsFound

\* ... or with memory that no task has.
LEMMA FreshKeepsFound ==
    ASSUME SlotsAssumption, TypeOK, Core, OneParent, FindInv,
           NEW t \in Slots, NEW u \in Slots, AllocFresh(t, u)
    PROVE  FindInv'
<1>1. /\ pc[t] = "user" /\ current = t /\ t \in Creators /\ u \notin heap
      /\ task_next' = [task_next EXCEPT ![u] = Nil] /\ task_list' = task_list
      /\ Allocated(t, u, ring, Listed)
  BY DEF AllocFresh, MayCreate, At
<1>2. ring' = ring /\ pc' = [pc EXCEPT ![t] = "build", ![u] = "user"]
  BY <1>1 DEF Allocated
<1>3. t # u /\ ~Member(u)
  BY <1>1, MembersLive DEF Core, RunsOnLiveStack
<1>4. \A v \in Slots : pc[v] \notin Busy
  BY <1>1, ParentAlone DEF FindInv, Busy, InFlight
<1>5. /\ \A v \in Slots : pc[v] \notin InFlight
      /\ \A v \in Slots : pc'[v] \notin {"push", "add"}
  BY <1>2, <1>4 DEF TypeOK, Busy, InFlight
<1>6. \A v \in Slots : Member(v)' <=> Member(v)
  BY <1>2, <1>5 DEF Member, InRing, InFlight
<1>7. ListRight'
  <2>1. PICK q : IsChain(q, task_list, task_next) /\ \A v \in Slots : In(q, v) <=> Member(v)
    BY DEF FindInv, ListRight
  <2>2. \A v \in Slots : In(q, v) => task_next'[v] = task_next[v]
    BY <1>1, <1>3, <2>1
  <2>3. IsChain(q, task_list', task_next')
    BY <1>1, <2>1, <2>2, ChainElsewhere
  <2> QED BY <1>5, <1>6, <2>1, <2>3 DEF ListRight
<1>8. \A v \in Slots : Member(v) /\ v # u => v \in Listed
  BY WalkFinds DEF FindInv
<1> QED BY <1>1, <1>3, <1>4, <1>6, <1>7, <1>8, AllocatedKeepsFound

\* What is true while nobody is inside PROCREATE or WAIT.
LEMMA NobodyBusy ==
    ASSUME FindInv, UNCHANGED <<pid, gen, born, delivered, missed>>,
           \A v \in Slots : pc'[v] \notin Busy, \A v : Member(v)' <=> Member(v), ListRight'
    PROVE  FindInv'
<1>1. ParentOnly' /\ AsksRight'
  BY DEF ParentOnly, AsksRight, Busy
<1>2. PidsRight' /\ GensRight'
  BY DEF FindInv, PidsRight, GensRight, Busy, InFlight
<1>3. CodesRight'
  BY DEF FindInv, CodesRight, DeliveredOnce, DeliversAsked
<1> QED BY <1>1, <1>2, <1>3 DEF FindInv

\* PROCREATE gives up on a task that was never on the list.
LEMMA FailKeepsFound ==
    ASSUME SlotsAssumption, TypeOK, Core, OneParent, FindInv, NEW t \in Slots, BuildFail(t)
    PROVE  FindInv'
<1>1. /\ pc[t] = "build" /\ pc' = [pc EXCEPT ![t] = "user"]
      /\ task_next' = Unlinked(arg[t]) /\ task_list' = UnlinkedHead(arg[t])
      /\ UNCHANGED <<ring, pid, arg, gen, asked, born, delivered, missed>>
  BY DEF BuildFail, At, history
<1>2. arg[t] \in Slots /\ ~Member(arg[t])
  BY <1>1, MembersLive
<1>3. \A v \in Slots : pc'[v] \notin Busy /\ pc[v] # "add"
  <2>1. t \in Creators \union Waiters
    BY <1>1 DEF FindInv, ParentOnly, Busy, InFlight
  <2>2. \A v \in Slots \ {t} : pc[v] \notin Busy
    BY <2>1, ParentAlone DEF FindInv
  <2>3. \A v \in Slots : pc'[v] = IF v = t THEN "user" ELSE pc[v]
    BY <1>1 DEF TypeOK
  <2> QED BY <1>1, <2>2, <2>3 DEF Busy, InFlight
<1>4. \A v : Member(v)' <=> Member(v)
  BY <1>1, <1>3 DEF Member, InRing, Busy, InFlight
<1>5. ListRight'
  <2>1. PICK q : IsChain(q, task_list, task_next) /\ \A v \in Slots : In(q, v) <=> Member(v)
    BY DEF FindInv, ListRight
  <2>2. IsChain(q, task_list', task_next')
    BY <1>1, <1>2, <2>1, UnlinkedOff
  <2> QED BY <1>3, <1>4, <2>1, <2>2 DEF ListRight, Busy, InFlight
<1> QED BY <1>1, <1>3, <1>4, <1>5, NobodyBusy

\* task_list_push, its first half: the task points to the head, and nobody can
\* change the head before the second half, as nobody else creates or waits.
LEMMA PushLoadKeepsFound ==
    ASSUME SlotsAssumption, TypeOK, Core, OneParent, FindInv, NEW t \in Slots, PushLoad(t)
    PROVE  FindInv'
<1>1. /\ pc[t] = "build" /\ pc' = [pc EXCEPT ![t] = "push"]
      /\ task_next' = [task_next EXCEPT ![arg[t]] = task_list]
      /\ UNCHANGED <<ring, task_list, pid, arg, gen, asked, born, delivered, missed>>
  BY DEF PushLoad, At, schedVars, history
<1>2. arg[t] \in Slots /\ ~Member(arg[t])
  BY <1>1, MembersLive
<1>3. /\ t \in Creators \union Waiters
      /\ \A v \in Slots : pc'[v] \in Busy => v = t
      /\ \A v \in Slots : pc[v] # "add" /\ pc'[v] # "add"
      /\ pc'[t] = "push"
  <2>1. t \in Creators \union Waiters
    BY <1>1 DEF FindInv, ParentOnly, Busy, InFlight
  <2>2. \A v \in Slots \ {t} : pc[v] \notin Busy
    BY <2>1, ParentAlone DEF FindInv
  <2>3. \A v \in Slots : pc'[v] = IF v = t THEN "push" ELSE pc[v]
    BY <1>1 DEF TypeOK
  <2> QED BY <1>1, <2>1, <2>2, <2>3 DEF Busy, InFlight
<1>4. \A v : Member(v)' <=> Member(v)
  BY <1>1, <1>3 DEF Member, InRing
<1>5. ListRight'
  <2>1. PICK q : IsChain(q, task_list, task_next) /\ \A v \in Slots : In(q, v) <=> Member(v)
    BY DEF FindInv, ListRight
  <2>2. \A v \in Slots : In(q, v) => task_next'[v] = task_next[v]
    BY <1>1, <1>2, <2>1
  <2>3. IsChain(q, task_list', task_next')
    BY <1>1, <2>1, <2>2, ChainElsewhere
  <2>4. task_next'[arg[t]] = task_list
    BY <1>1, <1>2 DEF TypeOK
  <2>5. \A v \in Slots : pc'[v] = "push" => v = t
    BY <1>3 DEF Busy, InFlight
  <2> QED BY <1>1, <1>4, <2>1, <2>3, <2>4, <2>5 DEF ListRight
<1>6. ParentOnly' /\ AsksRight'
  BY <1>3 DEF ParentOnly, AsksRight, Busy
<1>7. PidsRight' /\ GensRight'
  <2>1. \A v \in Slots : pc'[v] \in {"build", "push"} => v = t
    BY <1>3 DEF Busy, InFlight
  <2>2. \A w \in Slots : Member(w) => pid[w] # pid[arg[t]]
    BY <1>1 DEF FindInv, PidsRight
  <2>3. \A v, w \in Slots : Member(v) /\ Member(w) /\ pid[v] = pid[w] => v = w
    BY DEF FindInv, PidsRight
  <2>4. PidsRight'
    BY <1>1, <1>4, <2>1, <2>2, <2>3 DEF PidsRight
  <2> QED BY <1>1, <1>4, <2>4 DEF FindInv, GensRight
<1>8. CodesRight'
  BY <1>1, <1>4 DEF FindInv, CodesRight, DeliveredOnce, DeliversAsked
<1> QED BY <1>5, <1>6, <1>7, <1>8 DEF FindInv

\* Its second half: the child is on the list.
LEMMA PushStoreKeepsFound ==
    ASSUME SlotsAssumption, TypeOK, Core, OneParent, FindInv, NEW t \in Slots, PushStore(t)
    PROVE  FindInv'
<1> DEFINE c == arg[t]
           n == Len(born) + 1
<1>1. /\ pc[t] = "push" /\ pc' = [pc EXCEPT ![t] = "add"]
      /\ task_list' = c /\ born' = Append(born, pid[c]) /\ gen' = [gen EXCEPT ![c] = n]
      /\ UNCHANGED <<ring, task_next, pid, arg, delivered, missed>>
  BY DEF PushStore, At, schedVars
<1>2. c \in Slots /\ ~Member(c)
  BY <1>1, MembersLive
<1>3. /\ t \in Creators \union Waiters
      /\ \A v \in Slots : pc'[v] \in Busy => v = t
      /\ \A v \in Slots : pc[v] # "add"
      /\ pc'[t] = "add"
  <2>1. t \in Creators \union Waiters
    BY <1>1 DEF FindInv, ParentOnly, Busy, InFlight
  <2>2. \A v \in Slots \ {t} : pc[v] \notin Busy
    BY <2>1, ParentAlone DEF FindInv
  <2>3. \A v \in Slots : pc'[v] = IF v = t THEN "add" ELSE pc[v]
    BY <1>1 DEF TypeOK
  <2> QED BY <1>1, <2>1, <2>2, <2>3 DEF Busy, InFlight
<1>4. n \in Nat /\ Len(born) \in Nat /\ Len(born') = n
      /\ gen'[c] = n /\ \A v \in Slots \ {c} : gen'[v] = gen[v]
  <2>1. born \in Seq(Nat) /\ gen \in [Slots -> Nat] /\ pid[c] \in Nat
    BY <1>2 DEF TypeOK
  <2> QED BY <1>1, <1>2, <2>1
<1>5. \A v \in Slots : Member(v)' <=> Member(v) \/ v = c
  <2>1. \A v : InRing(v)' <=> InRing(v)
    BY <1>1 DEF InRing
  <2>2. \A u \in Slots : pc'[u] = "add" <=> u = t
    BY <1>3 DEF Busy, InFlight
  <2> QED BY <1>1, <1>3, <2>1, <2>2 DEF Member
<1>6. ListRight'
  <2>1. PICK q : IsChain(q, task_list, task_next) /\ \A v \in Slots : In(q, v) <=> Member(v)
    BY DEF FindInv, ListRight
  <2>2. task_next[c] = task_list /\ ~In(q, c)
    BY <1>1, <1>2, <2>1 DEF FindInv, ListRight
  <2> HIDE DEF c
  <2>3. /\ IsChain(Pushed(q, c), c, task_next)
        /\ \A v : In(Pushed(q, c), v) <=> In(q, v) \/ v = c
    BY <1>2, <2>1, <2>2, PushedChain
  <2>4. \A v \in Slots : pc'[v] # "push"
    BY <1>3 DEF Busy, InFlight
  <2>5. PICK p : IsChain(p, c, task_next) /\ \A v : In(p, v) <=> In(q, v) \/ v = c
    BY <2>3
  <2>6. IsChain(p, task_list', task_next') /\ \A v \in Slots : In(p, v) <=> Member(v)'
    BY <1>1, <1>5, <2>1, <2>5
  <2> QED BY <2>4, <2>6 DEF ListRight
<1>7. ParentOnly' /\ AsksRight'
  BY <1>3 DEF ParentOnly, AsksRight, Busy
<1>8. PidsRight'
  <2>1. \A v \in Slots : pc'[v] \notin {"build", "push"}
    BY <1>3 DEF Busy, InFlight
  <2>2. \A w \in Slots : Member(w) => pid[w] # pid[c]
    BY <1>1 DEF FindInv, PidsRight
  <2> QED BY <1>1, <1>5, <2>1, <2>2 DEF FindInv, PidsRight
<1>9. \A v \in Slots : Member(v) => gen[v] \in 1..Len(born)
  BY DEF FindInv, GensRight
<1> HIDE DEF c, n
<1>10. GensRight'
  <2>1. \A v \in Slots : Member(v)' => gen'[v] \in 1..n
    BY <1>4, <1>5, <1>9 DEF n
  <2>2. \A v \in Slots : Member(v) => v # c /\ gen'[v] # n
    BY <1>2, <1>4, <1>9 DEF n
  <2>3. \A v, u \in Slots : Member(v)' /\ Member(u)' /\ gen'[v] = gen'[u] => v = u
    BY <1>4, <1>5, <2>2 DEF FindInv, GensRight
  <2> QED BY <1>4, <2>1, <2>3 DEF GensRight
<1>11. CodesRight'
  <2>1. /\ delivered' \in Seq([asked : Nat, got : Nat]) /\ missed' = {}
        /\ DeliveredOnce' /\ DeliversAsked'
    BY <1>1 DEF FindInv, CodesRight, DeliveredOnce, DeliversAsked
  <2>2. ASSUME NEW i \in DOMAIN delivered
        PROVE  /\ delivered[i].got \in 1..n
               /\ \A v \in Slots : Member(v)' => gen'[v] # delivered[i].got
    <3>1. /\ delivered[i].got \in 1..Len(born)
          /\ \A v \in Slots : Member(v) => gen[v] # delivered[i].got
      BY DEF FindInv, CodesRight
    <3>2. delivered[i].got \in 1..n /\ delivered[i].got # n
      BY <1>4, <3>1 DEF n
    <3> QED BY <1>2, <1>4, <1>5, <3>1, <3>2
  <2> QED BY <1>1, <1>4, <2>1, <2>2 DEF CodesRight
<1> QED BY <1>6, <1>7, <1>8, <1>10, <1>11 DEF FindInv

\* sched_add: the child enters the ring, and is still the one member it was.
LEMMA AddKeepsFound ==
    ASSUME SlotsAssumption, TypeOK, Core, OneParent, FindInv, NEW t \in Slots, SchedAdd(t)
    PROVE  FindInv'
<1>1. /\ pc[t] = "add" /\ pc' = [pc EXCEPT ![t] = "ret"] /\ ring' = Added(ring, arg[t])
      /\ UNCHANGED <<task_list, task_next, pid, arg, gen, born, delivered, missed>>
  BY DEF SchedAdd, At, listVars, history
<1>2. arg[t] \in Slots /\ ~InRing(arg[t])
  BY <1>1 DEF Core, BuildsAreExclusive, TypeOK
<1>3. /\ \A v \in Slots : pc'[v] \notin Busy
      /\ \A v \in Slots : pc[v] = "add" <=> v = t
  <2>1. t \in Creators \union Waiters
    BY <1>1 DEF FindInv, ParentOnly, Busy, InFlight
  <2>2. \A v \in Slots \ {t} : pc[v] \notin Busy
    BY <2>1, ParentAlone DEF FindInv
  <2>3. \A v \in Slots : pc'[v] = IF v = t THEN "ret" ELSE pc[v]
    BY <1>1 DEF TypeOK
  <2> QED BY <1>1, <2>2, <2>3 DEF Busy, InFlight
<1>4. \A v \in Slots : InRing(v)' <=> InRing(v) \/ v = arg[t]
  <2>1. ring \in Seq(Slots) /\ Injective(ring) /\ \A v \in Slots : In(ring, v) <=> InRing(v)
    BY DEF TypeOK, Core, RingOfLiveTasks, Injective, In, InRing
  <2>2. \A v \in Slots : InRing(v)' <=> In(Added(ring, arg[t]), v)
    BY <1>1 DEF InRing, In
  <2>3. \A v \in Slots : In(Added(ring, arg[t]), v) <=> In(ring, v) \/ v = arg[t]
    BY <1>2, <2>1, AddedRing
  <2> QED BY <2>1, <2>2, <2>3
<1>5. \A v \in Slots : Member(v)' <=> Member(v)
  BY <1>1, <1>3, <1>4 DEF Member, Busy, InFlight
<1>6. ListRight'
  BY <1>1, <1>3, <1>5 DEF FindInv, ListRight, Busy, InFlight
<1>7. ParentOnly' /\ AsksRight'
  BY <1>3 DEF ParentOnly, AsksRight, Busy
<1>8. PidsRight' /\ GensRight'
  BY <1>1, <1>3, <1>5 DEF FindInv, PidsRight, GensRight, Busy, InFlight
<1>9. CodesRight'
  BY <1>1, <1>5 DEF FindInv, CodesRight, DeliveredOnce, DeliversAsked
<1> QED BY <1>6, <1>7, <1>8, <1>9 DEF FindInv

-----------------------------------------------------------------------------
\* Every step of the specification keeps what the list promises.
LEMMA FindStep ==
    ASSUME SlotsAssumption, TypeOK, Core, OneParent, FindInv, Next
    PROVE  FindInv'
<1>0. /\ pc \in [Slots -> Places] /\ arg \in [Slots -> Slots \union Nat]
      /\ asked \in [Slots -> Nat]
  BY DEF TypeOK
\* A step of t that takes it neither from nor to a place where it is busy.
<1>f. ASSUME NEW t \in Slots, NEW p, p \notin Busy, pc[t] \notin Busy \ {"wait"},
             UNCHANGED <<ring, task_list, task_next, pid, gen, born, asked, delivered, missed>>,
             pc' = [pc EXCEPT ![t] = p], \A v \in Slots \ {t} : arg'[v] = arg[v]
      PROVE  FindInv'
  <2>2. pc'[t] = p /\ \A v \in Slots \ {t} : pc'[v] = pc[v]
    BY <1>f, <1>0
  <2>3. \A v \in Slots : pc'[v] \in Busy =>
           pc'[v] = pc[v] /\ arg'[v] = arg[v] /\ asked'[v] = asked[v]
    BY <1>f, <2>2
  <2>4. \A v \in Slots : pc[v] = "add" => pc'[v] = "add"
    BY <1>f, <2>2 DEF Busy, InFlight
  <2> QED BY <1>f, <2>3, <2>4, FoundFrame
\* A step in which nobody moves within the kernel.
<1>s. ASSUME UNCHANGED <<ring, task_list, task_next, pid, gen, born, asked, delivered, missed>>,
             pc' = pc, arg' = arg
      PROVE  FindInv'
  BY <1>s, FoundFrame
<1>n. {"user", "sleep", "dev", "ret"} \cap Busy = {}
  BY DEF Busy, InFlight
<1>1. CASE Timer
  BY <1>1, <1>s DEF Timer, Schedule, listVars
<1>2. ASSUME NEW t \in Slots, DevWake(t) PROVE FindInv'
  BY <1>2, <1>s DEF DevWake, listVars, callVars, history
<1>3. ASSUME NEW t \in Slots, DevBlock(t) PROVE FindInv'
  <2>1. /\ pc[t] \in {"user", "dev"} /\ pc' = [pc EXCEPT ![t] = "dev"] /\ arg' = arg
        /\ UNCHANGED <<ring, task_list, task_next, pid, gen, born, asked, delivered, missed>>
    BY <1>3 DEF DevBlock, At, Schedule, listVars, history
  <2> QED BY <2>1, <1>n, <1>f
<1>4. ASSUME NEW t \in Slots, DevReturn(t) \/ SleepReturn(t) \/ ProcreateReturn(t)
      PROVE  FindInv'
  <2>1. /\ pc[t] \in {"dev", "sleep", "ret"} /\ pc' = [pc EXCEPT ![t] = "user"] /\ arg' = arg
        /\ UNCHANGED <<ring, task_list, task_next, pid, gen, born, asked, delivered, missed>>
    BY <1>4 DEF DevReturn, SleepReturn, ProcreateReturn, At, schedVars, listVars, history
  <2> QED BY <2>1, <1>n, <1>f
<1>5. ASSUME NEW t \in Slots, BuildFail(t) PROVE FindInv'
  BY <1>5, FailKeepsFound
<1>6. ASSUME NEW t \in Slots, NEW p \in Pids, Wait(t, p) PROVE FindInv'
  BY <1>6, WaitKeepsFound
<1>7. ASSUME NEW t \in Slots, NEW c, Exit(t, c) PROVE FindInv'
  BY <1>7, <1>s DEF Exit, Schedule, callVars, history
<1>8. ASSUME NEW t \in Slots, Yield(t) PROVE FindInv'
  BY <1>8, <1>s DEF Yield, Schedule, listVars, callVars, history
<1>9. ASSUME NEW t \in Slots, NEW cs, Sleep(t, cs) PROVE FindInv'
  <2>1. /\ pc[t] = "user" /\ pc' = [pc EXCEPT ![t] = "sleep"]
        /\ \A v \in Slots \ {t} : arg'[v] = arg[v]
        /\ UNCHANGED <<ring, task_list, task_next, pid, gen, born, asked, delivered, missed>>
    BY <1>9, <1>0 DEF Sleep, At, Schedule, listVars
  <2> QED BY <2>1, <1>n, <1>f
<1>10. ASSUME NEW t \in Slots, NEW u \in Slots, AllocRecycled(t, u) PROVE FindInv'
  BY <1>10, RecycleKeepsFound
<1>11. ASSUME NEW t \in Slots, NEW u \in Slots, AllocFresh(t, u) PROVE FindInv'
  BY <1>11, FreshKeepsFound
<1>12. ASSUME NEW t \in Slots, WaitNotFound(t) PROVE FindInv'
  BY <1>12, NotFoundKeepsFound
<1>13. ASSUME NEW t \in Slots, NEW u \in Slots, WaitReap(t, u) PROVE FindInv'
  BY <1>13, ReapKeepsFound
<1>14. ASSUME NEW t \in Slots, NEW u \in Slots, WaitBlock(t, u) PROVE FindInv'
  BY <1>14, <1>s DEF WaitBlock, Schedule, callVars, history
<1>15. ASSUME NEW t \in Slots, PushLoad(t) PROVE FindInv'
  BY <1>15, PushLoadKeepsFound
<1>16. ASSUME NEW t \in Slots, PushStore(t) PROVE FindInv'
  BY <1>16, PushStoreKeepsFound
<1>17. ASSUME NEW t \in Slots, SchedAdd(t) PROVE FindInv'
  BY <1>17, AddKeepsFound
<1> QED BY <1>1, <1>2, <1>3, <1>4, <1>5, <1>6, <1>7, <1>8, <1>9, <1>10, <1>11, <1>12,
           <1>13, <1>14, <1>15, <1>16, <1>17 DEF Next, Call, Continue

\* When sched_init has switched to the init task, the list is idle, then init.
LEMMA FindInit ==
    ASSUME SlotsAssumption, Init
    PROVE  FindInv
<1>0. Pint \in Slots /\ Idle \in Slots /\ Pint # Idle
  BY DEF SlotsAssumption
<1>1. /\ ring = <<Pint, Idle>> /\ task_list = Idle /\ pid[Pint] = 1 /\ pid[Idle] = 2
      /\ gen[Pint] = 1 /\ gen[Idle] = 2 /\ Len(born) = 2 /\ delivered = <<>> /\ missed = {}
      /\ task_next[Idle] = Pint /\ task_next[Pint] = Nil
      /\ \A t \in Slots : pc[t] = "user"
  BY <1>0 DEF Init
<1>2. \A t \in Slots : Member(t) <=> t \in {Pint, Idle}
  <2>1. DOMAIN ring = {1, 2} /\ ring[1] = Pint /\ ring[2] = Idle
    BY <1>1
  <2> QED BY <1>1, <2>1 DEF Member, InRing
<1>3. ListRight
  <2> DEFINE q == <<Idle, Pint>>
  <2>1. /\ q \in Seq(Slots) /\ Len(q) = 2 /\ DOMAIN q = {1, 2} /\ q[1] = Idle /\ q[2] = Pint
    BY <1>0
  <2> HIDE DEF q
  <2>2. Injective(q) /\ \A t : In(q, t) <=> t \in {Pint, Idle}
    BY <1>0, <2>1 DEF Injective, In
  <2>3. Nth(q, 0) = Idle /\ Nth(q, 1) = Pint /\ Nth(q, 2) = Nil
    BY <2>1 DEF Nth
  <2>4. IsChain(q, task_list, task_next)
    BY <1>1, <2>1, <2>2, <2>3 DEF IsChain
  <2> QED BY <1>1, <1>2, <2>2, <2>4 DEF ListRight
<1>4. ParentOnly /\ AsksRight /\ PidsRight
  BY <1>1, <1>2 DEF ParentOnly, AsksRight, PidsRight, Busy, InFlight
<1>5. GensRight /\ CodesRight
  BY <1>1, <1>2 DEF GensRight, CodesRight, DeliveredOnce, DeliversAsked
<1> QED BY <1>3, <1>4, <1>5 DEF FindInv

\* The invariant holds in every reachable state.
LEMMA FindInductive ==
    ASSUME OneParent
    PROVE  Spec => []FindInv
<1>1. Init => FindInv
  BY FindInit, SlotsAssumption
<1>2. IInv /\ FindInv /\ [Next]_vars => FindInv'
  <2> SUFFICES ASSUME IInv, FindInv, [Next]_vars PROVE FindInv'
    OBVIOUS
  <2>1. TypeOK /\ Core
    BY DEF IInv, Core
  <2>2. CASE Next
    BY <2>1, <2>2, FindStep, SlotsAssumption
  <2>3. CASE UNCHANGED vars
    <3>1. /\ UNCHANGED <<ring, task_list, task_next, pid, gen, born, asked, delivered, missed>>
          /\ pc' = pc /\ arg' = arg
      BY <2>3 DEF vars, schedVars, listVars, callVars, history
    <3> QED BY <3>1, FoundFrame
  <2> QED BY <2>2, <2>3
<1> QED BY <1>1, <1>2, Inductive, PTL DEF Spec

\* While one task creates and waits, every task in the scheduler's ring is found
\* by a walk of task_list, the walk meets no task that was freed, and no two tasks
\* in the ring have the same pid.
THEOREM TasksStayFound ==
    ASSUME OneParent
    PROVE  Spec => []TasksAreFound
<1>1. IInv /\ FindInv => TasksAreFound
  <2> SUFFICES ASSUME IInv, FindInv PROVE TasksAreFound
    OBVIOUS
  <2>1. TypeOK /\ Core
    BY DEF IInv, Core
  <2>2. \A t \in Slots : InRing(t) => Member(t)
    BY DEF Member
  <2>3. /\ \A t : t \in Listed => t \in Slots
        /\ \A t \in Slots : t \in Listed <=> Member(t)
    BY WalkFinds, SlotsAssumption DEF FindInv
  <2>4. \A t \in Slots : Member(t) => t \in heap
    BY <2>1, MembersLive
  <2> QED BY <2>2, <2>3, <2>4 DEF TasksAreFound, ListCoversRing, LivePidsDistinct,
                                  OnList, FindInv, PidsRight
<1> QED BY <1>1, Inductive, FindInductive, PTL

\* While one task creates and waits, WAIT hands out an exit code once, and it is
\* the code of the task that had the pid when WAIT was called, whatever has become
\* of the pid since; a WAIT for a task that existed does not answer NOTFOUND.
THEOREM ExitCodesRight ==
    ASSUME OneParent
    PROVE  Spec => []ExitCodes
<1>1. FindInv => ExitCodes
  BY DEF FindInv, CodesRight, ExitCodes, NotFoundOnlyIfReaped
<1> QED BY <1>1, FindInductive, PTL
=============================================================================
