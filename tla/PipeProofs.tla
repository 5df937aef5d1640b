----------------------------- MODULE PipeProofs -----------------------------
(***************************************************************************)
(* For any number of tasks, any capacity and any lengths: while no tick    *)
(* falls into the few instructions that pipe.c leaves unmasked (Narrow),   *)
(* the counts of a pipe are right, nobody sleeps through a wake-up, and    *)
(* the pipe implements a bounded first-in first-out channel.               *)
(***************************************************************************)
EXTENDS Pipe, DataLemmas

\* A release may be preempted; the copying, the counting and the waking are not.
Narrow == Windows \subseteq {"shut", "drop"}

-----------------------------------------------------------------------------
(* The inductive invariant.                                                *)

\* Where a task is when nobody else can make a step.
Critical  == Inner \ {"shut", "drop"}
Exclusive == \A t, u \in Tasks : pc[t] \in Critical /\ pc[u] \in Critical => t = u

\* A task works on an end it holds, or on one that it is giving up.
HoldsItsEnd ==
    \A t \in Tasks :
        /\ pc[t] \in {"check", "begin", "load", "store"} => end[t] \in holds[t] /\ len[t] > 0
        /\ pc[t] \in {"unref", "shut", "drop"} => end[t] \notin holds[t]
        /\ pc[t] = "new" => holds[t] = {}
        /\ pc[t] = "shut" => tmp[t] = 0
        /\ pc[t] = "wake" => tmp[t] \in Nat

\* The tasks whose reference of e is counted, and those that give e up for good.
Holders(e)  == {t \in Tasks : e \in holds[t]}
Dropping(t) ==
    \/ pc[t] \in {"shut", "drop"}
    \/ pc[t] \in {"wake", "clear"} /\ end[t] \notin holds[t]
Alive(e)    == refcount[e] # 0 \/ \E t \in Tasks : Dropping(t) /\ end[t] = e
One(P)      == IF P THEN 1 ELSE 0

\* The references: an end's count, the flag that says nobody holds it any more,
\* the one task that tears it down, and the pipe_t's own count.
Unreffing(e) == \E t \in Tasks : pc[t] = "unref" /\ end[t] = e
RefcountsRight ==
    /\ \A e \in Ends : ~Unreffing(e) => refcount[e] = Cardinality(Holders(e))
    /\ \A t \in Tasks : pc[t] = "unref"
          => refcount[end[t]] = Cardinality(Holders(end[t])) + 1 /\ tmp[t] = refcount[end[t]]
DroppersRight ==
    /\ \A t \in Tasks : Dropping(t) => refcount[end[t]] = 0
    /\ \A t, u \in Tasks : Dropping(t) /\ Dropping(u) /\ end[t] = end[u] => t = u
ClosedRight ==
    \A e \in Ends : closed[e] <=>
        refcount[e] = 0 /\ \A t \in Tasks : ~(pc[t] = "shut" /\ end[t] = e)
FreedRight ==
    /\ prefs = One(Alive("r")) + One(Alive("w"))
    /\ freed <=> prefs = 0
RefsRight == RefcountsRight /\ DroppersRight /\ ClosedRight /\ FreedRight

\* The ring: what was sent and not received lies between head and tail, and
\* count says so except while a transfer has moved an index and not yet count.
Held == sent - Len(received)
BytesRight ==
    /\ Held \in 0..Capacity
    /\ \A i \in 1..Len(received) : received[i] = i
    /\ tail = (head + Held) % Capacity
    /\ \A i \in 0..(Held - 1) : buffer[(head + i) % Capacity] = Len(received) + i + 1
CountRight ==
    /\ Transferring = {} => count = Held
    /\ \A t \in Transferring :
          /\ count = IF end[t] = "r" THEN Held + len[t] ELSE Held - len[t]
          /\ count \in 0..Capacity
          /\ pc[t] = "store" => tmp[t] = count
\* What ended the loop still holds when the task copies.
ReadyRight == \A t \in Tasks : pc[t] \in {"begin", "load", "store"} => Ready(end[t])
RingRight  == BytesRight /\ CountRight /\ ReadyRight

CountInv == TypeOK /\ Exclusive /\ HoldsItsEnd /\ RefsRight /\ RingRight

\* The lists of waiters: a task is in the list of the end it is blocked on, once,
\* until the waker has emptied that list.
Waking(t, e) == pc[t] \in {"wake", "clear"} /\ Peer(end[t]) = e
Listed(t, e) == \E i \in DOMAIN waiting[e] : waiting[e][i] = t
ListsRight ==
    /\ \A e \in Ends : \A i, j \in DOMAIN waiting[e] :
          waiting[e][i] = waiting[e][j] => i = j
    /\ \A e \in Ends, t \in Tasks : Listed(t, e) =>
          /\ pc[t] = "check" /\ end[t] = e
          /\ t \in blocked \/ \E u \in Tasks : Waking(u, e)
    /\ \A t \in blocked : t \in Tasks /\ pc[t] = "check" /\ Listed(t, end[t])

\* Who is blocked has nothing to do, unless the waker is at work; what the waker
\* has passed is awake.
AsleepRight ==
    /\ \A t \in blocked : Ready(end[t]) => \E u \in Tasks : Waking(u, end[t])
    /\ \A u \in Tasks :
          /\ pc[u] = "wake" => \A i \in DOMAIN waiting[Peer(end[u])] :
                i <= tmp[u] => waiting[Peer(end[u])][i] \notin blocked
          /\ pc[u] = "clear" => \A t \in blocked : end[t] # Peer(end[u])

WakeInv == CountInv /\ ListsRight /\ AsleepRight

-----------------------------------------------------------------------------
(* Who can make a step.                                                    *)

\* Nobody steps while somebody else is inside a stretch that no tick interrupts.
LEMMA AloneAtStep ==
    ASSUME Narrow, NEW t \in Tasks, NEW p, At(t, p)
    PROVE  pc[t] = p /\ t \notin blocked /\ \A u \in Tasks \ {t} : pc[u] \notin Critical
  BY DEF At, Narrow, Critical

-----------------------------------------------------------------------------
(* Types.                                                                  *)

\* How many of the two ends a set holds.
LEMMA CardOfEnds ==
    ASSUME NEW S \in SUBSET Ends
    PROVE  Cardinality(S) = One("r" \in S) + One("w" \in S)
<1>1. S \in {{}, {"r"}, {"w"}, {"r"} \union {"w"}}
  BY DEF Ends
<1>2. Cardinality({}) = 0
  BY FS_EmptySet
<1>3. /\ Cardinality({"r"}) = 1 /\ IsFiniteSet({"r"})
      /\ Cardinality({"w"}) = 1
  BY FS_Singleton
<1>4. Cardinality({"r"} \union {"w"}) = 2
  BY <1>3, FS_AddElement
<1>5. CASE S = {}
  BY <1>2, <1>5 DEF One
<1>6. CASE S = {"r"}
  BY <1>3, <1>6 DEF One
<1>7. CASE S = {"w"}
  BY <1>3, <1>7 DEF One
<1>8. CASE S = {"r"} \union {"w"}
  BY <1>4, <1>8 DEF One
<1> QED BY <1>1, <1>5, <1>6, <1>7, <1>8

\* TypeOK, variable by variable, in four parts.
Places == Inner \union {"user", "check", "new", "dead"}
RingTypes ==
    /\ buffer \in [0..(Capacity - 1) -> Nat]
    /\ head \in 0..(Capacity - 1) /\ tail \in 0..(Capacity - 1) /\ count \in 0..(SizeMod - 1)
    /\ sent \in Nat /\ received \in Seq(Nat)
RefTypes ==
    /\ closed \in [Ends -> BOOLEAN] /\ refcount \in [Ends -> Int]
    /\ prefs \in Int /\ freed \in BOOLEAN /\ holds \in [Tasks -> SUBSET Ends]
WaitTypes == waiting \in [Ends -> Seq(Tasks)] /\ blocked \subseteq Tasks
LocalTypes ==
    /\ pc \in [Tasks -> Places] /\ end \in [Tasks -> Ends]
    /\ len \in [Tasks -> Nat] /\ tmp \in [Tasks -> Int]
    /\ result \in [Tasks -> {"none", "data", "eof", "broken"}]

\* TypeOK is its four parts.
LEMMA TypeParts == TypeOK <=> RingTypes /\ RefTypes /\ WaitTypes /\ LocalTypes
  BY DEF TypeOK, RingTypes, RefTypes, WaitTypes, LocalTypes, Places

\* An unsigned difference is a natural number, and it is the difference itself when
\* that is not negative.
LEMMA FreeSpaceIsNat ==
    ASSUME PipeAssumption, RingTypes
    PROVE  /\ (Capacity - count) % SizeMod \in Nat
           /\ count <= Capacity => (Capacity - count) % SizeMod = Capacity - count
<1>1. SizeMod \in Nat \ {0} /\ Capacity \in Nat /\ count \in Nat /\ Capacity < SizeMod
  BY DEF PipeAssumption, RingTypes
<1>2. (Capacity - count) % SizeMod \in Nat
  BY <1>1
<1>3. ASSUME count <= Capacity PROVE (Capacity - count) % SizeMod = Capacity - count
  <2>1. PICK a \in 0..(SizeMod - 1) : a = Capacity - count
    BY <1>1, <1>3
  <2>2. a % SizeMod = a
    BY <1>1
  <2> QED BY <2>1, <2>2
<1> QED BY <1>2, <1>3

\* Every operation keeps the types of what the tasks keep to themselves.
LEMMA LocalTypesStep ==
    ASSUME PipeAssumption, RingTypes, RefTypes, LocalTypes, Next PROVE LocalTypes'
<1> USE DEF LocalTypes
<1>0. {"user", "check", "new", "dead", "begin", "load", "store", "wake", "clear", "unref",
       "shut", "drop"} \subseteq Places
  BY DEF Places, Inner
<1>1. ASSUME NEW t \in Tasks, NEW e \in Ends, NEW n \in 1..MaxLen, Call(t, e, n)
      PROVE  LocalTypes'
  BY <1>0, <1>1 DEF Call, Goto
<1>2. ASSUME NEW t \in Tasks, WriteBroken(t) PROVE LocalTypes'
  BY <1>0, <1>2 DEF WriteBroken, Return, Goto
<1>3. ASSUME NEW t \in Tasks, Die(t) PROVE LocalTypes'
  BY <1>0, <1>3 DEF Die, logs, Goto
<1>4. ASSUME NEW t \in Tasks, NEW e \in Ends, Close(t, e) PROVE LocalTypes'
  BY <1>0, <1>4 DEF Close, logs, Goto, RefTypes
<1>5. ASSUME NEW t \in Tasks, NEW u \in Tasks, NEW S \in SUBSET Ends, Procreate(t, u, S)
      PROVE  LocalTypes'
  BY <1>0, <1>5 DEF Procreate, logs, Goto
<1>6. ASSUME NEW t \in Tasks, NEW u \in Tasks, Reap(t, u) PROVE LocalTypes'
  BY <1>6 DEF Reap, locals, logs
<1>7. ASSUME NEW t \in Tasks, CheckReady(t) PROVE LocalTypes'
  BY <1>0, <1>7 DEF CheckReady, logs, Goto
<1>8. ASSUME NEW t \in Tasks, CheckBlock(t) PROVE LocalTypes'
  BY <1>8 DEF CheckBlock, locals, logs
<1>9. ASSUME NEW t \in Tasks, BeginNothing(t) PROVE LocalTypes'
  BY <1>0, <1>9 DEF BeginNothing, Return, Goto
<1>10. ASSUME NEW t \in Tasks, CopyOut(t) PROVE LocalTypes'
  <2>1. Least(len[t], count) \in Nat
    BY DEF Least, RingTypes
  <2> QED BY <1>0, <1>10, <2>1 DEF CopyOut, Goto
<1>11. ASSUME NEW t \in Tasks, CopyIn(t) PROVE LocalTypes'
  <2>1. Least(len[t], (Capacity - count) % SizeMod) \in Nat
    BY FreeSpaceIsNat DEF Least
  <2> QED BY <1>0, <1>11, <2>1 DEF CopyIn, Goto
<1>12. ASSUME NEW t \in Tasks, LoadCount(t) PROVE LocalTypes'
  BY <1>0, <1>12 DEF LoadCount, logs, Goto, RingTypes
<1>13. ASSUME NEW t \in Tasks, StoreCount(t) PROVE LocalTypes'
  BY <1>0, <1>13 DEF StoreCount, logs, Goto
<1>14. ASSUME NEW t \in Tasks, Wake(t) PROVE LocalTypes'
  BY <1>0, <1>14 DEF Wake, logs, Goto
<1>15. ASSUME NEW t \in Tasks, Clear(t) PROVE LocalTypes'
  <2>1. CASE end[t] \in holds[t]
    <3>1. /\ pc' = [pc EXCEPT ![t] = "user"] /\ result' = [result EXCEPT ![t] = "data"]
          /\ len' = [len EXCEPT ![t] = 0] /\ tmp' = [tmp EXCEPT ![t] = 0] /\ end' = end
      BY <1>15, <2>1 DEF Clear, Return, Goto
    <3> QED BY <1>0, <3>1
  <2>2. CASE end[t] \notin holds[t]
    BY <1>0, <1>15, <2>2 DEF Clear, Goto
  <2> QED BY <2>1, <2>2
<1>16. ASSUME NEW t \in Tasks, Unref(t) PROVE LocalTypes'
  BY <1>0, <1>16 DEF Unref, logs, Goto
<1>17. ASSUME NEW t \in Tasks, Shut(t) PROVE LocalTypes'
  BY <1>0, <1>17 DEF Shut, logs, Goto
<1>18. ASSUME NEW t \in Tasks, Drop(t) PROVE LocalTypes'
  BY <1>0, <1>18 DEF Drop, logs, Goto
<1> QED
  BY <1>1, <1>2, <1>3, <1>4, <1>5, <1>6, <1>7, <1>8, <1>9, <1>10, <1>11, <1>12, <1>13,
     <1>14, <1>15, <1>16, <1>17, <1>18
  DEF Next, Read, Write, Continue, Ends

\* The buffer after pipe_write_raw put n bytes into it, as CopyIn has it: the k-th
\* byte goes to the k-th place from tail on.
Place(k)  == (tail + k - 1) % Capacity
Byte(n, i) == CHOOSE k \in 1..n : i = Place(k) /\ k > n - Capacity
Filled(n) == [i \in 0..(Capacity - 1) |->
                 IF \E k \in 1..n : i = Place(k) THEN sent + Byte(n, i) ELSE buffer[i]]

\* At most Capacity bytes go to places of their own.
LEMMA PlacesDiffer ==
    ASSUME PipeAssumption, RingTypes
    PROVE  /\ \A k \in 1..Capacity :
                 /\ Place(k) \in 0..(Capacity - 1)
                 /\ Place(k) = IF tail + k - 1 < Capacity THEN tail + k - 1
                               ELSE tail + k - 1 - Capacity
           /\ \A k, l \in 1..Capacity : Place(k) = Place(l) => k = l
<1>1. Capacity \in Nat \ {0} /\ tail \in 0..(Capacity - 1)
  BY DEF PipeAssumption, RingTypes
<1>2. ASSUME NEW k \in 1..Capacity
      PROVE  Place(k) = IF tail + k - 1 < Capacity THEN tail + k - 1
                        ELSE tail + k - 1 - Capacity
  <2>1. PICK a \in 0..(2 * Capacity - 1) : a = tail + k - 1
    BY <1>1
  <2>2. a % Capacity = IF a < Capacity THEN a ELSE a - Capacity
    BY <1>1, ModOnce
  <2> QED BY <1>1, <2>1, <2>2 DEF Place
<1>3. \A k \in 1..Capacity : Place(k) \in 0..(Capacity - 1)
  BY <1>1, <1>2
<1>4. ASSUME NEW k \in 1..Capacity, NEW l \in 1..Capacity, Place(k) = Place(l) PROVE k = l
  BY <1>1, <1>2, <1>4
<1> QED BY <1>2, <1>3, <1>4

\* They are in their places, and every other place keeps its byte.
LEMMA CopiedIn ==
    ASSUME PipeAssumption, RingTypes, NEW n \in 0..Capacity
    PROVE  /\ Filled(n) \in [0..(Capacity - 1) -> Nat]
           /\ \A k \in 1..n : Filled(n)[Place(k)] = sent + k
           /\ \A i \in 0..(Capacity - 1) :
                 (\A k \in 1..n : i # Place(k)) => Filled(n)[i] = buffer[i]
<1>1. Capacity \in Nat \ {0} /\ sent \in Nat /\ n \in Nat
      /\ buffer \in [0..(Capacity - 1) -> Nat]
  BY DEF PipeAssumption, RingTypes
<1>2. ASSUME NEW k \in 1..n PROVE Byte(n, Place(k)) = k /\ Place(k) \in 0..(Capacity - 1)
  <2>1. k > n - Capacity /\ 1..n \subseteq 1..Capacity
    BY <1>1
  <2>2. /\ Byte(n, Place(k)) \in 1..n
        /\ Place(Byte(n, Place(k))) = Place(k)
    BY <2>1 DEF Byte
  <2> QED BY <2>1, <2>2, PlacesDiffer
<1>3. ASSUME NEW k \in 1..n PROVE Filled(n)[Place(k)] = sent + k
  BY <1>2 DEF Filled
<1>4. ASSUME NEW i \in 0..(Capacity - 1), \A k \in 1..n : i # Place(k)
      PROVE  Filled(n)[i] = buffer[i]
  BY <1>4 DEF Filled
<1>5. ASSUME NEW i \in 0..(Capacity - 1) PROVE Filled(n)[i] \in Nat
  <2>1. ASSUME NEW k \in 1..n, i = Place(k) PROVE Filled(n)[i] \in Nat
    BY <2>1, <1>1, <1>3
  <2>2. CASE \A k \in 1..n : i # Place(k)
    BY <2>2, <1>1, <1>4
  <2> QED BY <2>1, <2>2
<1>6. Filled(n) = [i \in 0..(Capacity - 1) |-> Filled(n)[i]]
  BY DEF Filled
<1> QED BY <1>3, <1>4, <1>5, <1>6

\* Every operation keeps the types of the ring: head and tail stay inside the buffer.
LEMMA RingTypesStep ==
    ASSUME PipeAssumption, RingTypes, LocalTypes, Next,
           \A t \in Tasks : pc[t] = "begin" => count <= Capacity
    PROVE  RingTypes'
<1> USE DEF RingTypes
<1>1. ASSUME NEW t \in Tasks, CopyOut(t) PROVE RingTypes'
  <2> DEFINE n == Least(len[t], count)
  <2>1. n \in Nat /\ Capacity \in Nat \ {0}
    BY DEF Least, LocalTypes, PipeAssumption
  <2>2. \A i \in 1..n : (head + i - 1) % Capacity \in 0..(Capacity - 1)
    BY <2>1
  <2> DEFINE taken == [i \in 1..n |-> buffer[(head + i - 1) % Capacity]]
  <2> HIDE DEF n
  <2>3. taken \in Seq(Nat)
    <3>1. taken \in [1..n -> Nat]
      BY <2>1, <2>2
    <3> HIDE DEF taken
    <3> QED BY <2>1, <3>1
  <2>4. (head + n) % Capacity \in 0..(Capacity - 1)
    BY <2>1
  <2>5. /\ received' = received \o taken /\ head' = (head + n) % Capacity
        /\ UNCHANGED <<buffer, tail, count, sent>>
    BY <1>1 DEF CopyOut, n
  <2> HIDE DEF taken
  <2> QED BY <2>3, <2>4, <2>5
<1>2. ASSUME NEW t \in Tasks, CopyIn(t) PROVE RingTypes'
  <2> DEFINE n == Least(len[t], (Capacity - count) % SizeMod)
  <2>1. n \in 0..Capacity /\ Capacity \in Nat \ {0}
    <3>1. count <= Capacity
      BY <1>2 DEF CopyIn, At
    <3>2. (Capacity - count) % SizeMod = Capacity - count /\ count \in Nat /\ Capacity \in Nat \ {0}
      BY <3>1, FreeSpaceIsNat DEF PipeAssumption
    <3>3. len[t] \in Nat
      BY DEF LocalTypes
    <3> QED BY <3>1, <3>2, <3>3 DEF Least
  <2>2. (tail + n) % Capacity \in 0..(Capacity - 1)
    BY <2>1
  <2>3. /\ buffer' = Filled(n) /\ tail' = (tail + n) % Capacity /\ sent' = sent + n
        /\ UNCHANGED <<head, count, received>>
    BY <1>2 DEF CopyIn, Filled, Place, Byte
  <2> HIDE DEF n
  <2>4. buffer' \in [0..(Capacity - 1) -> Nat]
    BY <2>1, <2>3, CopiedIn
  <2>5. tail' \in 0..(Capacity - 1) /\ sent' \in Nat
    BY <2>1, <2>2, <2>3
  <2> QED BY <2>3, <2>4, <2>5
<1>3. ASSUME NEW t \in Tasks, StoreCount(t) PROVE RingTypes'
  <2>1. SizeMod \in Nat \ {0} /\ tmp[t] \in Int /\ len[t] \in Int
    BY DEF LocalTypes, PipeAssumption
  <2> DEFINE c == IF end[t] = "r" THEN tmp[t] - len[t] ELSE tmp[t] + len[t]
  <2>2. count' = c % SizeMod /\ UNCHANGED <<buffer, head, tail, sent, received>>
    BY <1>3 DEF StoreCount, logs
  <2>4. c \in Int
    BY <2>1
  <2> HIDE DEF c
  <2>3. count' \in 0..(SizeMod - 1)
    BY <2>1, <2>2, <2>4
  <2> QED BY <2>2, <2>3
<1>4. ASSUME UNCHANGED <<ring, sent, received>> PROVE RingTypes'
  BY <1>4 DEF ring
<1> QED
  BY <1>1, <1>2, <1>3, <1>4 DEF Next, Read, Write, Call, Close, Procreate, Reap, WriteBroken,
     Die, Continue, CheckReady, CheckBlock, BeginNothing, LoadCount, Wake, Clear, Unref,
     Shut, Drop, logs, ring

\* Every operation keeps the types of the references and the closed flags.
LEMMA RefTypesStep ==
    ASSUME RefTypes, LocalTypes, Next PROVE RefTypes'
<1> USE DEF RefTypes
<1>1. ASSUME NEW t \in Tasks, NEW u \in Tasks, NEW S \in SUBSET Ends, Procreate(t, u, S)
      PROVE  RefTypes'
  BY <1>1 DEF Procreate
<1>2. ASSUME NEW t \in Tasks, NEW e \in Ends, Close(t, e) PROVE RefTypes'
  BY <1>2 DEF Close
<1>3. ASSUME NEW t \in Tasks, NEW u \in Tasks, Reap(t, u) PROVE RefTypes'
  <2> DEFINE last == {e \in holds[u] : refcount[e] <= 1}
  <2>1. Cardinality(last) \in Int
    BY CardOfEnds DEF One
  <2>2. /\ refcount' = [e \in Ends |-> IF e \in holds[u] THEN refcount[e] - 1 ELSE refcount[e]]
        /\ closed' = [e \in Ends |-> closed[e] \/ e \in last]
        /\ prefs' = prefs - Cardinality(last)
        /\ freed' = (freed \/ (last # {} /\ prefs = Cardinality(last)))
        /\ holds' = [holds EXCEPT ![u] = {}]
    BY <1>3 DEF Reap
  <2> HIDE DEF last
  <2> QED BY <2>1, <2>2
<1>4. ASSUME NEW t \in Tasks, Unref(t) PROVE RefTypes'
  BY <1>4 DEF Unref, LocalTypes
<1>5. ASSUME NEW t \in Tasks, Shut(t) PROVE RefTypes'
  BY <1>5 DEF Shut, ends
<1>6. ASSUME NEW t \in Tasks, Drop(t) PROVE RefTypes'
  BY <1>6 DEF Drop
<1>7. ASSUME UNCHANGED <<closed, ends>> PROVE RefTypes'
  BY <1>7 DEF ends
<1> QED
  BY <1>1, <1>2, <1>3, <1>4, <1>5, <1>6, <1>7 DEF Next, Read, Write, Call, WriteBroken,
     Die, Continue, CheckReady, CheckBlock, BeginNothing, CopyOut, CopyIn, LoadCount,
     StoreCount, Wake, Clear

\* Only tasks are registered as waiters and blocked.
LEMMA WaitTypesStep ==
    ASSUME WaitTypes, LocalTypes, Next PROVE WaitTypes'
<1> USE DEF WaitTypes
<1>0. \A e \in Ends : Peer(e) \in Ends
  BY DEF Ends, Peer
<1>1. ASSUME NEW t \in Tasks, CheckBlock(t) PROVE WaitTypes'
  <2>1. end[t] \in Ends
    BY DEF LocalTypes
  <2>2. Append(waiting[end[t]], t) \in Seq(Tasks)
    BY <2>1
  <2> QED BY <1>1, <2>1, <2>2 DEF CheckBlock
<1>2. ASSUME NEW t \in Tasks, Wake(t) PROVE WaitTypes'
  BY <1>2 DEF Wake
<1>3. ASSUME NEW t \in Tasks, Clear(t) PROVE WaitTypes'
  <2>1. <<>> \in Seq(Tasks)
    OBVIOUS
  <2>2. waiting' = [waiting EXCEPT ![Peer(end[t])] = <<>>] /\ blocked' = blocked
    BY <1>3 DEF Clear
  <2> QED BY <2>1, <2>2
<1>4. ASSUME NEW t \in Tasks, NEW u \in Tasks, Reap(t, u) PROVE WaitTypes'
  BY <1>4 DEF Reap
<1>5. ASSUME UNCHANGED <<waiting, blocked>> PROVE WaitTypes'
  BY <1>5
<1> QED
  BY <1>1, <1>2, <1>3, <1>4, <1>5 DEF Next, Read, Write, Call, Close, Procreate,
     WriteBroken, Die, Continue, CheckReady, BeginNothing, CopyOut, CopyIn, LoadCount,
     StoreCount, Unref, Shut, Drop

\* pipe_create_pair establishes the types.
LEMMA TypeInit ==
    ASSUME PipeAssumption, Init PROVE TypeOK
<1>1. RingTypes
  BY DEF Init, RingTypes, PipeAssumption
<1>2. RefTypes
  <2>1. holds \in [Tasks -> SUBSET Ends]
    BY DEF Init
  <2>2. closed \in [Ends -> BOOLEAN] /\ refcount \in [Ends -> Int]
    BY DEF Init
  <2>3. prefs = 2 /\ freed = FALSE
    BY DEF Init
  <2>4. prefs \in Int
    BY <2>3
  <2>5. freed \in BOOLEAN
    BY <2>3
  <2> QED BY <2>1, <2>2, <2>4, <2>5 DEF RefTypes
<1>3. WaitTypes
  BY DEF Init, WaitTypes
<1>4. LocalTypes
  BY DEF Init, LocalTypes, Ends, Places
<1> QED BY <1>1, <1>2, <1>3, <1>4, TypeParts

-----------------------------------------------------------------------------
(* Where the tasks are.                                                    *)

\* At the start nobody is inside an operation.
LEMMA PlacesInit ==
    ASSUME Init PROVE Exclusive /\ HoldsItsEnd
  BY DEF Init, Exclusive, HoldsItsEnd, Critical, Inner

\* Every step is one of a task that no such stretch of another keeps out, and it
\* moves no other task, except that PROCREATE starts one.
LEMMA OneSteps ==
    ASSUME Narrow, LocalTypes, Next
    PROVE  \E t \in Tasks : \A v \in Tasks \ {t} :
              pc[v] \notin Critical /\ (pc'[v] = pc[v] \/ pc'[v] = "user")
<1> USE DEF LocalTypes
<1> DEFINE Alone(t) == \A v \in Tasks \ {t} : pc[v] \notin Critical
           Moved(t) == (\E p \in Places : pc' = [pc EXCEPT ![t] = p]) \/ pc' = pc
<1>0. {"user", "check", "new", "dead", "begin", "load", "store", "wake", "clear", "unref",
       "shut", "drop"} \subseteq Places
  BY DEF Places, Inner
<1>1. ASSUME NEW t \in Tasks, NEW u \in Tasks, NEW S \in SUBSET Ends, Procreate(t, u, S)
      PROVE  Alone(t) /\ pc' = [pc EXCEPT ![u] = "user"]
  BY <1>1, AloneAtStep DEF Procreate, Goto
<1>2. ASSUME NEW t \in Tasks, NEW e \in Ends, NEW n \in 1..MaxLen, Call(t, e, n)
      PROVE  Alone(t) /\ Moved(t)
  BY <1>2, <1>0, AloneAtStep DEF Call, Goto
<1>3. ASSUME NEW t \in Tasks, NEW e \in Ends, Close(t, e) PROVE Alone(t) /\ Moved(t)
  BY <1>3, <1>0, AloneAtStep DEF Close, Goto
<1>4. ASSUME NEW t \in Tasks, NEW u \in Tasks, Reap(t, u) PROVE Alone(t) /\ Moved(t)
  BY <1>4, AloneAtStep DEF Reap, locals
<1>5. ASSUME NEW t \in Tasks, WriteBroken(t) \/ BeginNothing(t) PROVE Alone(t) /\ Moved(t)
  BY <1>5, <1>0, AloneAtStep DEF WriteBroken, BeginNothing, Return, Goto
<1>6. ASSUME NEW t \in Tasks, Die(t) \/ CheckReady(t) \/ CopyOut(t) \/ CopyIn(t)
      PROVE  Alone(t) /\ Moved(t)
  BY <1>6, <1>0, AloneAtStep DEF Die, CheckReady, CopyOut, CopyIn, Goto
<1>7. ASSUME NEW t \in Tasks, LoadCount(t) \/ StoreCount(t) \/ CheckBlock(t)
      PROVE  Alone(t) /\ Moved(t)
  BY <1>7, <1>0, AloneAtStep DEF LoadCount, StoreCount, CheckBlock, locals, Goto
<1>8. ASSUME NEW t \in Tasks, Wake(t) \/ Clear(t) PROVE Alone(t) /\ Moved(t)
  BY <1>8, <1>0, AloneAtStep DEF Wake, Clear, Return, Goto
<1>9. ASSUME NEW t \in Tasks, Unref(t) \/ Shut(t) \/ Drop(t) PROVE Alone(t) /\ Moved(t)
  BY <1>9, <1>0, AloneAtStep DEF Unref, Shut, Drop, Goto
<1>10. ASSUME NEW t \in Tasks, Alone(t), Moved(t)
       PROVE  \A v \in Tasks \ {t} : pc[v] \notin Critical /\ (pc'[v] = pc[v] \/ pc'[v] = "user")
  BY <1>10
<1> HIDE DEF Alone, Moved
<1>11. CASE \E t, u \in Tasks, S \in SUBSET Ends : Procreate(t, u, S)
  BY <1>11, <1>1 DEF Alone
<1>12. CASE \E t \in Tasks : Alone(t) /\ Moved(t)
  BY <1>12, <1>10
<1> QED
  BY <1>2, <1>3, <1>4, <1>5, <1>6, <1>7, <1>8, <1>9, <1>11, <1>12
  DEF Next, Read, Write, Continue, Ends

\* At most one task is in the code that no tick interrupts.
LEMMA ExclusiveStep ==
    ASSUME Narrow, LocalTypes, Next PROVE Exclusive'
<1>1. "user" \notin Critical
  BY DEF Critical, Inner
<1> QED BY <1>1, OneSteps DEF Exclusive

\* A READ or WRITE keeps its end until it returns, and a CLOSE has given it up
\* before it drops the count.
LEMMA HoldsItsEndStep ==
    ASSUME PipeAssumption, RingTypes, RefTypes, LocalTypes, HoldsItsEnd, Next,
           \A t \in Tasks : pc[t] = "begin" => count <= Capacity
    PROVE  HoldsItsEnd'
<1> USE DEF HoldsItsEnd, LocalTypes, RefTypes, Goto
<1>1. ASSUME NEW t \in Tasks, NEW e \in Ends, NEW n \in 1..MaxLen, Call(t, e, n)
      PROVE  HoldsItsEnd'
  BY <1>1 DEF Call, At, ends
<1>2. ASSUME NEW t \in Tasks, WriteBroken(t) PROVE HoldsItsEnd'
  BY <1>2 DEF WriteBroken, Return, At, ends
<1>3. ASSUME NEW t \in Tasks, Die(t) PROVE HoldsItsEnd'
  BY <1>3 DEF Die, At, ends
<1>4. ASSUME NEW t \in Tasks, NEW e \in Ends, Close(t, e) PROVE HoldsItsEnd'
  BY <1>4 DEF Close, At
<1>5. ASSUME NEW t \in Tasks, NEW u \in Tasks, NEW S \in SUBSET Ends, Procreate(t, u, S)
      PROVE  HoldsItsEnd'
  BY <1>5 DEF Procreate, At
<1>6. ASSUME NEW t \in Tasks, NEW u \in Tasks, Reap(t, u) PROVE HoldsItsEnd'
  <2>1. pc' = pc /\ end' = end /\ len' = len /\ tmp' = tmp /\ pc[u] = "dead"
        /\ holds' = [holds EXCEPT ![u] = {}]
    BY <1>6 DEF Reap, locals
  <2> QED BY <2>1
<1>7. ASSUME NEW t \in Tasks, CheckReady(t) PROVE HoldsItsEnd'
  BY <1>7 DEF CheckReady, At, ends
<1>8. ASSUME NEW t \in Tasks, CheckBlock(t) PROVE HoldsItsEnd'
  BY <1>8 DEF CheckBlock, locals, ends
<1>9. ASSUME NEW t \in Tasks, BeginNothing(t) PROVE HoldsItsEnd'
  BY <1>9 DEF BeginNothing, Return, At, ends
<1>10. ASSUME NEW t \in Tasks, CopyOut(t) PROVE HoldsItsEnd'
  <2>1. Least(len[t], count) > 0
    BY <1>10 DEF CopyOut, At, Least, RingTypes
  <2> QED BY <1>10, <2>1 DEF CopyOut, At, ends
<1>11. ASSUME NEW t \in Tasks, CopyIn(t) PROVE HoldsItsEnd'
  <2>1. Least(len[t], (Capacity - count) % SizeMod) > 0
    <3>1. (Capacity - count) % SizeMod = Capacity - count
      BY <1>11, FreeSpaceIsNat DEF CopyIn, At
    <3>2. Capacity - count > 0 /\ len[t] > 0
      BY <1>11 DEF CopyIn, At, RingTypes, PipeAssumption
    <3> QED BY <3>1, <3>2 DEF Least
  <2> DEFINE n == Least(len[t], (Capacity - count) % SizeMod)
  <2>2. len' = [len EXCEPT ![t] = n] /\ pc' = [pc EXCEPT ![t] = "load"]
        /\ pc[t] = "begin" /\ UNCHANGED <<holds, end, tmp>>
    BY <1>11 DEF CopyIn, At, ends
  <2> HIDE DEF n
  <2>3. n > 0
    BY <2>1 DEF n
  <2> QED BY <2>2, <2>3
<1>12. ASSUME NEW t \in Tasks, LoadCount(t) PROVE HoldsItsEnd'
  BY <1>12 DEF LoadCount, At, ends
<1>13. ASSUME NEW t \in Tasks, StoreCount(t) PROVE HoldsItsEnd'
  BY <1>13 DEF StoreCount, At, ends
<1>14. ASSUME NEW t \in Tasks, Wake(t) PROVE HoldsItsEnd'
  BY <1>14 DEF Wake, At, ends
<1>15. ASSUME NEW t \in Tasks, Clear(t) PROVE HoldsItsEnd'
  <2>1. CASE end[t] \in holds[t]
    <3>1. /\ pc' = [pc EXCEPT ![t] = "user"] /\ len' = [len EXCEPT ![t] = 0]
          /\ tmp' = [tmp EXCEPT ![t] = 0] /\ end' = end /\ holds' = holds
      BY <1>15, <2>1 DEF Clear, Return, ends
    <3> QED BY <3>1
  <2>2. CASE end[t] \notin holds[t]
    <3>1. /\ pc' = [pc EXCEPT ![t] = "drop"]
          /\ len' = len /\ tmp' = tmp /\ end' = end /\ holds' = holds
      BY <1>15, <2>2 DEF Clear, ends
    <3> QED BY <2>2, <3>1
  <2> QED BY <2>1, <2>2
<1>16. ASSUME NEW t \in Tasks, Unref(t) PROVE HoldsItsEnd'
  BY <1>16 DEF Unref, At
<1>17. ASSUME NEW t \in Tasks, Shut(t) PROVE HoldsItsEnd'
  BY <1>17 DEF Shut, At, ends
<1>18. ASSUME NEW t \in Tasks, Drop(t) PROVE HoldsItsEnd'
  BY <1>18 DEF Drop, At
<1> QED
  BY <1>1, <1>2, <1>3, <1>4, <1>5, <1>6, <1>7, <1>8, <1>9, <1>10, <1>11, <1>12, <1>13,
     <1>14, <1>15, <1>16, <1>17, <1>18
  DEF Next, Read, Write, Continue, Ends

-----------------------------------------------------------------------------
(* The references.                                                         *)

\* The holders of an end can be counted.
LEMMA HoldersFinite ==
    ASSUME IsFiniteSet(Tasks), NEW e
    PROVE  /\ IsFiniteSet(Holders(e)) /\ Cardinality(Holders(e)) \in Nat
           /\ Cardinality(Holders(e)) = 0 <=> \A t \in Tasks : e \notin holds[t]
<1>1. Holders(e) \subseteq Tasks /\ (Holders(e) = {} <=> \A t \in Tasks : e \notin holds[t])
  BY DEF Holders
<1> QED BY <1>1, FS_Subset, FS_EmptySet, FS_CardinalityType

\* An end that somebody holds has a count, and so is open and has no dropper.
LEMMA HeldIsCounted ==
    ASSUME IsFiniteSet(Tasks), RefTypes, LocalTypes, RefcountsRight, DroppersRight, ClosedRight,
           NEW t \in Tasks, NEW e \in Ends, e \in holds[t]
    PROVE  /\ refcount[e] > 0 /\ refcount[e] \in Nat /\ ~closed[e]
           /\ \A u \in Tasks : Dropping(u) => end[u] # e
<1>1. Cardinality(Holders(e)) \in Nat \ {0}
  BY HoldersFinite
<1>2. refcount[e] \in Nat /\ refcount[e] > 0
  BY <1>1 DEF RefcountsRight, Unreffing
<1> QED BY <1>2 DEF DroppersRight, ClosedRight

\* Steps that leave the references alone, and whoever gives one up.
LEMMA RefsFrame ==
    ASSUME RefsRight, UNCHANGED <<closed, refcount, prefs, freed, holds>>,
           \A u \in Tasks : /\ pc'[u] = "unref" <=> pc[u] = "unref"
                            /\ pc'[u] = "shut" <=> pc[u] = "shut"
                            /\ Dropping(u)' <=> Dropping(u)
                            /\ Dropping(u) \/ pc[u] = "unref" => end'[u] = end[u]
                            /\ pc[u] = "unref" => tmp'[u] = tmp[u]
    PROVE  RefsRight'
<1>1. \A e : Holders(e)' = Holders(e)
  BY DEF Holders
<1>2. \A e : Unreffing(e)' <=> Unreffing(e)
  BY DEF Unreffing
<1>3. RefcountsRight'
  BY <1>1, <1>2 DEF RefsRight, RefcountsRight
<1>4. DroppersRight'
  BY DEF RefsRight, DroppersRight
<1>5. \A u \in Tasks : pc[u] = "shut" => Dropping(u)
  BY DEF Dropping
<1>6. ClosedRight'
  BY <1>5 DEF RefsRight, ClosedRight
<1>7. \A e : Alive(e)' <=> Alive(e)
  BY DEF Alive
<1>8. FreedRight'
  BY <1>7 DEF RefsRight, FreedRight, One
<1> QED BY <1>3, <1>4, <1>6, <1>8 DEF RefsRight

\* pipe_create_pair counts one reference for each end and two for the pipe_t.
LEMMA RefsInit ==
    ASSUME PipeAssumption, IsFiniteSet(Tasks), Init PROVE RefsRight
<1>1. Creator \in Tasks /\ \A t \in Tasks : pc[t] \in {"user", "new"}
  BY DEF Init, PipeAssumption
<1>2. \A e \in Ends : Holders(e) = {Creator}
  BY <1>1 DEF Init, Holders, Ends
<1>3. \A e \in Ends : Cardinality(Holders(e)) = 1 /\ refcount[e] = 1
  BY <1>2, FS_Singleton DEF Init
<1>4. (\A t \in Tasks : ~Dropping(t)) /\ \A e : ~Unreffing(e)
  BY <1>1 DEF Dropping, Unreffing
<1>5. \A e \in Ends : Alive(e) /\ ~closed[e]
  BY <1>3 DEF Alive, Init
<1>6. "r" \in Ends /\ "w" \in Ends /\ prefs = 2 /\ freed = FALSE
  BY DEF Ends, Init
<1>7. FreedRight
  BY <1>5, <1>6 DEF FreedRight, One
<1> QED BY <1>1, <1>3, <1>4, <1>5, <1>7 DEF RefsRight, RefcountsRight, DroppersRight, ClosedRight

\* CLOSE takes the end out of the table before the count is decremented.
LEMMA CloseRefs ==
    ASSUME Narrow, IsFiniteSet(Tasks), RefTypes, LocalTypes, HoldsItsEnd, RefsRight,
           NEW t \in Tasks, NEW e \in Ends, Close(t, e)
    PROVE  RefsRight'
<1> USE DEF RefsRight
<1>1. /\ pc[t] = "user" /\ e \in holds[t] /\ \A u \in Tasks \ {t} : pc[u] \notin Critical
      /\ \A u \in Tasks : pc[u] # "unref"
  BY AloneAtStep DEF Close, Critical, Inner
<1>2. /\ end' = [end EXCEPT ![t] = e] /\ holds' = [holds EXCEPT ![t] = @ \ {e}]
      /\ tmp' = [tmp EXCEPT ![t] = refcount[e]] /\ pc' = [pc EXCEPT ![t] = "unref"]
      /\ UNCHANGED <<closed, refcount, prefs, freed>>
  BY DEF Close, Goto
<1>3. refcount[e] > 0 /\ ~closed[e] /\ refcount[e] \in Nat
  BY <1>1, HeldIsCounted
<1>4. /\ \A u \in Tasks : Dropping(u)' <=> Dropping(u)
      /\ \A u \in Tasks : Dropping(u) => u # t /\ end'[u] = end[u]
  BY <1>1, <1>2 DEF Dropping, LocalTypes, RefTypes
<1>5. /\ Holders(e)' = Holders(e) \ {t} /\ t \in Holders(e)
      /\ \A d \in Ends : d # e => Holders(d)' = Holders(d)
  BY <1>1, <1>2 DEF Holders, RefTypes
<1>6. Cardinality(Holders(e)) = Cardinality(Holders(e)') + 1
  <2>1. IsFiniteSet(Holders(e)) /\ Cardinality(Holders(e)) \in Nat
    BY HoldersFinite
  <2>2. Cardinality(Holders(e) \ {t}) = Cardinality(Holders(e)) - 1
    BY <1>5, <2>1, FS_RemoveElement
  <2> QED BY <1>5, <2>1, <2>2
<1>7. \A d \in Ends : refcount[d] = Cardinality(Holders(d))
  BY <1>1 DEF RefcountsRight, Unreffing
<1>8. \A d \in Ends : Unreffing(d)' <=> d = e
  BY <1>1, <1>2 DEF Unreffing, LocalTypes
<1>9. RefcountsRight'
  <2>1. \A d \in Ends : ~Unreffing(d)' => refcount'[d] = Cardinality(Holders(d)')
    BY <1>2, <1>5, <1>7, <1>8
  <2>2. \A u \in Tasks : pc'[u] = "unref" => u = t
    BY <1>1, <1>2 DEF LocalTypes
  <2>3. end'[t] = e /\ tmp'[t] = refcount[e] /\ refcount'[e] = Cardinality(Holders(e)') + 1
    BY <1>2, <1>6, <1>7 DEF LocalTypes
  <2> QED BY <1>2, <2>1, <2>2, <2>3 DEF RefcountsRight
<1>10. DroppersRight'
  BY <1>2, <1>4 DEF DroppersRight
<1>11. ClosedRight'
  BY <1>1, <1>2, <1>3 DEF ClosedRight, LocalTypes
<1>12. \A d \in Ends : Alive(d)' <=> Alive(d)
  BY <1>2, <1>4 DEF Alive
<1>13. FreedRight'
  BY <1>2, <1>12 DEF FreedRight, One, Ends
<1> QED BY <1>9, <1>10, <1>11, <1>13

\* PROCREATE counts each end that it gives to the child.
LEMMA ProcreateRefs ==
    ASSUME Narrow, IsFiniteSet(Tasks), RefTypes, LocalTypes, HoldsItsEnd, RefsRight,
           NEW t \in Tasks, NEW u \in Tasks, NEW S \in SUBSET Ends, Procreate(t, u, S)
    PROVE  RefsRight'
<1> USE DEF RefsRight
<1>1. /\ pc[t] = "user" /\ pc[u] = "new" /\ S \subseteq holds[t] /\ holds[u] = {}
      /\ \A v \in Tasks : pc[v] # "unref"
  BY AloneAtStep DEF Procreate, Critical, Inner, HoldsItsEnd
<1>2. /\ refcount' = [e \in Ends |-> IF e \in S THEN refcount[e] + 1 ELSE refcount[e]]
      /\ holds' = [holds EXCEPT ![u] = S] /\ pc' = [pc EXCEPT ![u] = "user"]
      /\ UNCHANGED <<closed, prefs, freed, end, tmp>>
  BY DEF Procreate, Goto
<1>3. \A e \in S : refcount[e] > 0 /\ refcount[e] \in Nat /\ ~closed[e]
  BY <1>1, HeldIsCounted
<1>4. \A v \in Tasks : Dropping(v)' <=> Dropping(v)
  BY <1>1, <1>2 DEF Dropping, LocalTypes, RefTypes
<1>5. \A e \in Ends : Holders(e)' = IF e \in S THEN Holders(e) \union {u} ELSE Holders(e)
  BY <1>1, <1>2 DEF Holders, RefTypes
<1>6. \A e \in Ends : u \notin Holders(e)
  BY <1>1 DEF Holders
<1>7. \A e \in Ends : Cardinality(Holders(e)') = IF e \in S THEN Cardinality(Holders(e)) + 1
                                                 ELSE Cardinality(Holders(e))
  <2> SUFFICES ASSUME NEW e \in Ends
               PROVE  Cardinality(Holders(e)') = IF e \in S THEN Cardinality(Holders(e)) + 1
                                                 ELSE Cardinality(Holders(e))
    OBVIOUS
  <2>1. Cardinality(Holders(e) \union {u}) = Cardinality(Holders(e)) + 1
    BY <1>6, HoldersFinite, FS_AddElement
  <2> QED BY <1>5, <2>1
<1>8. \A v \in Tasks : pc'[v] # "unref" /\ (pc'[v] = "shut" <=> pc[v] = "shut")
  BY <1>1, <1>2 DEF LocalTypes
<1>9. RefcountsRight'
  BY <1>1, <1>2, <1>7, <1>8 DEF RefcountsRight, Unreffing
<1>10. \A e \in Ends : refcount'[e] = 0 <=> refcount[e] = 0
  BY <1>2, <1>3 DEF RefTypes
<1>11. DroppersRight'
  BY <1>2, <1>4, <1>10 DEF DroppersRight, LocalTypes
<1>12. ClosedRight'
  BY <1>2, <1>8, <1>10 DEF ClosedRight
<1>13. \A e \in Ends : Alive(e)' <=> Alive(e)
  BY <1>2, <1>4, <1>10 DEF Alive
<1>14. FreedRight'
  BY <1>2, <1>13 DEF FreedRight, One, Ends
<1> QED BY <1>9, <1>11, <1>12, <1>14

\* task_teardown of the dead task u takes one reference of each end that u held.
LEMMA ReapRefs ==
    ASSUME Narrow, IsFiniteSet(Tasks), RefTypes, LocalTypes, RefsRight,
           NEW t \in Tasks, NEW u \in Tasks, Reap(t, u)
    PROVE  RefsRight'
<1> USE DEF RefsRight
<1> DEFINE last == {e \in holds[u] : refcount[e] <= 1}
<1>1. /\ pc[t] = "user" /\ pc[u] = "dead" /\ \A v \in Tasks : pc[v] # "unref"
      /\ holds[u] \subseteq Ends /\ last \subseteq Ends
  BY AloneAtStep DEF Reap, Critical, Inner, RefTypes
<1>2. /\ refcount' = [e \in Ends |-> IF e \in holds[u] THEN refcount[e] - 1 ELSE refcount[e]]
      /\ closed' = [e \in Ends |-> closed[e] \/ e \in last]
      /\ prefs' = prefs - Cardinality(last)
      /\ freed' = (freed \/ (last # {} /\ prefs = Cardinality(last)))
      /\ holds' = [holds EXCEPT ![u] = {}]
      /\ UNCHANGED <<pc, end, tmp>>
  BY DEF Reap, locals
<1>3. \A e \in holds[u] : /\ refcount[e] > 0 /\ refcount[e] \in Nat /\ ~closed[e]
                          /\ \A v \in Tasks : Dropping(v) => end[v] # e
  BY <1>1, HeldIsCounted
<1>4. \A v \in Tasks : Dropping(v)' <=> Dropping(v)
  BY <1>1, <1>2 DEF Dropping, RefTypes
<1>5. \A e \in Ends : Cardinality(Holders(e)') = IF e \in holds[u] THEN Cardinality(Holders(e)) - 1
                                                 ELSE Cardinality(Holders(e))
  <2> SUFFICES ASSUME NEW e \in Ends
               PROVE  Cardinality(Holders(e)') = IF e \in holds[u] THEN Cardinality(Holders(e)) - 1
                                                 ELSE Cardinality(Holders(e))
    OBVIOUS
  <2>1. Holders(e)' = Holders(e) \ {u} /\ (u \in Holders(e) <=> e \in holds[u])
    BY <1>2 DEF Holders, RefTypes
  <2> QED BY <2>1, HoldersFinite, FS_RemoveElement
<1>6. RefcountsRight'
  BY <1>1, <1>2, <1>5 DEF RefcountsRight, Unreffing
<1>7. DroppersRight'
  BY <1>2, <1>3, <1>4 DEF DroppersRight, LocalTypes
<1>8. ClosedRight'
  <2> SUFFICES ASSUME NEW e \in Ends
               PROVE  closed'[e] <=> /\ refcount'[e] = 0
                                     /\ \A v \in Tasks : ~(pc'[v] = "shut" /\ end'[v] = e)
    BY DEF ClosedRight
  <2>1. CASE e \notin holds[u]
    <3>1. closed'[e] = closed[e] /\ refcount'[e] = refcount[e]
      BY <1>2, <2>1 DEF RefTypes
    <3> QED BY <3>1, <1>2 DEF ClosedRight
  <2>2. CASE e \in last
    <3>1. closed'[e]
      BY <1>2, <2>2
    <3>3. refcount'[e] = 0
      BY <1>2, <1>3, <2>2
    <3>2. \A v \in Tasks : pc[v] = "shut" => end[v] # e
      BY <1>3, <2>2 DEF Dropping
    <3> QED BY <3>1, <3>2, <3>3, <1>2
  <2>3. CASE e \in holds[u] /\ e \notin last
    BY <1>2, <1>3, <2>3 DEF RefTypes
  <2> QED BY <2>1, <2>2, <2>3
<1>9. \A e \in Ends : /\ Alive(e)' <=> Alive(e) /\ e \notin last
                      /\ e \in last => Alive(e)
  <2> SUFFICES ASSUME NEW e \in Ends
               PROVE  (Alive(e)' <=> Alive(e) /\ e \notin last) /\ (e \in last => Alive(e))
    OBVIOUS
  <2>1. CASE e \in last
    <3>1. refcount'[e] = 0 /\ refcount[e] # 0
      BY <1>2, <1>3, <2>1
    <3>2. \A v \in Tasks : Dropping(v)' => end'[v] # e
      BY <1>2, <1>3, <1>4, <2>1
    <3> QED BY <3>1, <3>2, <2>1 DEF Alive
  <2>2. CASE e \notin last
    <3>1. refcount'[e] = 0 <=> refcount[e] = 0
      BY <1>2, <1>3, <2>2 DEF RefTypes
    <3> QED BY <3>1, <1>2, <1>4, <2>2 DEF Alive
  <2> QED BY <2>1, <2>2
<1>10. FreedRight'
  <2>1. Cardinality(last) = One("r" \in last) + One("w" \in last)
    BY <1>1, CardOfEnds
  <2>2. last # {} <=> "r" \in last \/ "w" \in last
    BY <1>1 DEF Ends
  <2>3. /\ prefs = One(Alive("r")) + One(Alive("w")) /\ (freed <=> prefs = 0)
    BY DEF FreedRight
  <2>4. /\ (Alive("r")' <=> Alive("r") /\ "r" \notin last) /\ ("r" \in last => Alive("r"))
        /\ (Alive("w")' <=> Alive("w") /\ "w" \notin last) /\ ("w" \in last => Alive("w"))
    BY <1>9 DEF Ends
  <2> HIDE DEF last
  <2>5. prefs' = One(Alive("r")') + One(Alive("w")')
    BY <1>2, <2>1, <2>3, <2>4 DEF One
  <2>6. prefs' = 0 <=> prefs = 0 \/ (last # {} /\ prefs = Cardinality(last))
    BY <1>2, <2>1, <2>2, <2>3, <2>4 DEF One
  <2>7. freed' <=> freed \/ (last # {} /\ prefs = Cardinality(last))
    BY <1>2
  <2> QED BY <2>3, <2>5, <2>6, <2>7 DEF FreedRight
<1> QED BY <1>6, <1>7, <1>8, <1>10

\* pipe_end_unref counts down, and whoever reaches 0 is the one that releases the end.
LEMMA UnrefRefs ==
    ASSUME Narrow, IsFiniteSet(Tasks), RefTypes, LocalTypes, RefsRight,
           NEW t \in Tasks, Unref(t)
    PROVE  RefsRight'
<1> USE DEF RefsRight
<1> DEFINE e == end[t]
<1>1. /\ pc[t] = "unref" /\ e \in Ends
      /\ \A v \in Tasks \ {t} : pc[v] \notin Critical
      /\ \A v \in Tasks \ {t} : pc[v] # "unref"
  BY AloneAtStep DEF Unref, Critical, Inner, LocalTypes
<1>2. /\ refcount' = [refcount EXCEPT ![e] = tmp[t] - 1]
      /\ pc' = [pc EXCEPT ![t] = IF tmp[t] - 1 > 0 THEN "user" ELSE "shut"]
      /\ UNCHANGED <<closed, prefs, freed, holds, end>>
  BY DEF Unref, Goto
<1>3. /\ refcount[e] = Cardinality(Holders(e)) + 1 /\ tmp[t] = refcount[e]
      /\ Cardinality(Holders(e)) \in Nat
  BY <1>1, HoldersFinite DEF RefcountsRight
<1>4. \A d : Holders(d)' = Holders(d)
  BY <1>2 DEF Holders
<1>5. \A v \in Tasks : Dropping(v) => end[v] # e /\ v # t
  BY <1>1, <1>3 DEF DroppersRight, Dropping
<1>6. ~closed[e] /\ refcount'[e] = Cardinality(Holders(e))
  BY <1>1, <1>2, <1>3 DEF ClosedRight, RefTypes
<1>7. \A v \in Tasks \ {t} : (Dropping(v)' <=> Dropping(v)) /\ pc'[v] = pc[v]
  BY <1>2 DEF Dropping, LocalTypes
<1>8. Dropping(t)' <=> refcount'[e] = 0
  BY <1>1, <1>2, <1>3, <1>6 DEF Dropping, LocalTypes
<1>9. RefcountsRight'
  <2>1. \A v \in Tasks : pc'[v] # "unref"
    BY <1>1, <1>2 DEF LocalTypes
  <2>2. \A d \in Ends : d # e => refcount'[d] = refcount[d] /\ ~Unreffing(d)
    BY <1>1, <1>2 DEF RefTypes, Unreffing
  <2> QED BY <2>1, <2>2, <1>4, <1>6 DEF RefcountsRight, Unreffing
<1>10. DroppersRight'
  BY <1>1, <1>2, <1>5, <1>7, <1>8 DEF DroppersRight, RefTypes, LocalTypes
<1>11. ClosedRight'
  BY <1>1, <1>2, <1>3, <1>5, <1>6, <1>7 DEF ClosedRight, RefTypes, LocalTypes
<1>12. \A d \in Ends : Alive(d)' <=> Alive(d)
  <2> SUFFICES ASSUME NEW d \in Ends PROVE Alive(d)' <=> Alive(d)
    OBVIOUS
  <2>1. CASE d = e
    <3>1. refcount[e] # 0
      BY <1>3
    <3>2. refcount'[e] = 0 => Dropping(t)' /\ end'[t] = e
      BY <1>2, <1>8
    <3> QED BY <2>1, <3>1, <3>2 DEF Alive
  <2>2. CASE d # e
    <3>1. refcount'[d] = refcount[d] /\ end' = end /\ end[t] # d
      BY <1>2, <2>2 DEF RefTypes
    <3> QED BY <3>1, <1>7 DEF Alive
  <2> QED BY <2>1, <2>2
<1>13. FreedRight'
  BY <1>2, <1>12 DEF FreedRight, One, Ends
<1> QED BY <1>9, <1>10, <1>11, <1>13

\* pipe_end_release sets the flag of an end that nobody holds.
LEMMA ShutRefs ==
    ASSUME RefTypes, LocalTypes, HoldsItsEnd, RefsRight, NEW t \in Tasks, Shut(t)
    PROVE  RefsRight'
<1> USE DEF RefsRight
<1>1. /\ pc[t] = "shut" /\ end[t] \in Ends /\ Dropping(t) /\ end[t] \notin holds[t]
  BY DEF Shut, At, LocalTypes, Dropping, HoldsItsEnd
<1>2. /\ closed' = [closed EXCEPT ![end[t]] = TRUE] /\ pc' = [pc EXCEPT ![t] = "wake"]
      /\ UNCHANGED <<refcount, prefs, freed, holds, end, tmp>>
  BY DEF Shut, Goto, ends
<1>3. \A v \in Tasks : Dropping(v)' <=> Dropping(v)
  BY <1>1, <1>2 DEF Dropping, LocalTypes
<1>4. RefcountsRight'
  <2>1. \A d : Holders(d)' = Holders(d)
    BY <1>2 DEF Holders
  <2>2. \A v \in Tasks : pc'[v] = "unref" <=> pc[v] = "unref"
    BY <1>1, <1>2 DEF LocalTypes
  <2>3. \A d : Unreffing(d)' <=> Unreffing(d)
    BY <2>2, <1>2 DEF Unreffing
  <2> QED BY <2>1, <2>2, <2>3, <1>2 DEF RefcountsRight
<1>5. DroppersRight'
  BY <1>2, <1>3 DEF DroppersRight
<1>6. ClosedRight'
  <2>1. refcount[end[t]] = 0 /\ \A v \in Tasks \ {t} : pc[v] = "shut" => end[v] # end[t]
    BY <1>1 DEF DroppersRight, Dropping
  <2> QED BY <1>1, <1>2, <2>1 DEF ClosedRight, RefTypes, LocalTypes
<1>7. \A d : Alive(d)' <=> Alive(d)
  BY <1>2, <1>3 DEF Alive
<1>8. FreedRight'
  BY <1>2, <1>7 DEF FreedRight, One
<1> QED BY <1>4, <1>5, <1>6, <1>8

\* The release of an end gives up its reference of the pipe_t, once.
LEMMA DropRefs ==
    ASSUME RefTypes, LocalTypes, RefsRight, NEW t \in Tasks, Drop(t)
    PROVE  RefsRight'
<1> USE DEF RefsRight
<1>1. /\ pc[t] = "drop" /\ end[t] \in Ends /\ Dropping(t)
  BY DEF Drop, At, LocalTypes, Dropping
<1>2. /\ prefs' = prefs - 1 /\ freed' = (freed \/ prefs = 1)
      /\ pc' = [pc EXCEPT ![t] = "user"] /\ tmp' = [tmp EXCEPT ![t] = 0]
      /\ UNCHANGED <<closed, refcount, holds, end>>
  BY DEF Drop, Goto
<1>3. \A v \in Tasks : Dropping(v)' <=> Dropping(v) /\ v # t
  BY <1>1, <1>2 DEF Dropping, LocalTypes
<1>4. RefcountsRight'
  <2>1. \A d : Holders(d)' = Holders(d)
    BY <1>2 DEF Holders
  <2>2. \A v \in Tasks : /\ pc'[v] = "unref" <=> pc[v] = "unref"
                         /\ pc[v] = "unref" => tmp'[v] = tmp[v]
    BY <1>1, <1>2 DEF LocalTypes
  <2>3. \A d : Unreffing(d)' <=> Unreffing(d)
    BY <2>2, <1>2 DEF Unreffing
  <2> QED BY <2>1, <2>2, <2>3, <1>2 DEF RefcountsRight
<1>5. DroppersRight'
  BY <1>2, <1>3 DEF DroppersRight
<1>6. ClosedRight'
  <2>1. \A v \in Tasks : pc'[v] = "shut" <=> pc[v] = "shut"
    BY <1>1, <1>2 DEF LocalTypes
  <2> QED BY <1>2, <2>1 DEF ClosedRight
<1>7. /\ refcount[end[t]] = 0
      /\ \A v \in Tasks : Dropping(v) /\ v # t => end[v] # end[t]
  BY <1>1 DEF DroppersRight
<1>8. \A d \in Ends : /\ d = end[t] => Alive(d) /\ ~Alive(d)'
                      /\ d # end[t] => (Alive(d)' <=> Alive(d))
  BY <1>1, <1>2, <1>3, <1>7 DEF Alive
<1>9. FreedRight'
  <2>1. /\ prefs = One(Alive("r")) + One(Alive("w")) /\ (freed <=> prefs = 0)
    BY DEF FreedRight
  <2>2. \/ Alive("r") /\ ~Alive("r")' /\ (Alive("w")' <=> Alive("w"))
        \/ Alive("w") /\ ~Alive("w")' /\ (Alive("r")' <=> Alive("r"))
    <3>1. end[t] \in {"r", "w"} /\ "r" \in Ends /\ "w" \in Ends /\ "r" # "w"
      BY <1>1 DEF Ends
    <3>2. CASE end[t] = "r"
      BY <1>8, <3>1, <3>2
    <3>3. CASE end[t] = "w"
      BY <1>8, <3>1, <3>3
    <3> QED BY <3>1, <3>2, <3>3
  <2>3. prefs' = One(Alive("r")') + One(Alive("w")')
    BY <1>2, <2>1, <2>2 DEF One
  <2>4. prefs' = 0 <=> prefs = 1
    BY <1>2, <2>1
  <2>5. prefs # 0
    BY <2>1, <2>2 DEF One
  <2>6. freed' <=> freed \/ prefs = 1
    BY <1>2
  <2> QED BY <2>1, <2>3, <2>4, <2>5, <2>6 DEF FreedRight
<1> QED BY <1>4, <1>5, <1>6, <1>9

\* Every operation keeps the references right.
LEMMA RefsStep ==
    ASSUME Narrow, IsFiniteSet(Tasks), RefTypes, LocalTypes, HoldsItsEnd, RefsRight, Next
    PROVE  RefsRight'
<1> USE DEF LocalTypes, Dropping
<1>1. ASSUME NEW t \in Tasks, NEW e \in Ends, NEW n \in 1..MaxLen, Call(t, e, n)
      PROVE  RefsRight'
  BY <1>1, RefsFrame DEF Call, At, Goto, ends
<1>2. ASSUME NEW t \in Tasks, WriteBroken(t) PROVE RefsRight'
  BY <1>2, RefsFrame DEF WriteBroken, Return, Goto, At, ends
<1>3. ASSUME NEW t \in Tasks, Die(t) PROVE RefsRight'
  BY <1>3, RefsFrame DEF Die, Goto, At, ends
<1>4. ASSUME NEW t \in Tasks, CheckReady(t) PROVE RefsRight'
  BY <1>4, RefsFrame DEF CheckReady, Goto, At, ends
<1>5. ASSUME NEW t \in Tasks, CheckBlock(t) PROVE RefsRight'
  BY <1>5, RefsFrame DEF CheckBlock, locals, ends
<1>6. ASSUME NEW t \in Tasks, BeginNothing(t) PROVE RefsRight'
  BY <1>6, RefsFrame DEF BeginNothing, Return, Goto, At, ends
<1>7. ASSUME NEW t \in Tasks, CopyOut(t) PROVE RefsRight'
  BY <1>7, RefsFrame DEF CopyOut, Goto, At, ends
<1>8. ASSUME NEW t \in Tasks, CopyIn(t) PROVE RefsRight'
  BY <1>8, RefsFrame DEF CopyIn, Goto, At, ends
<1>9. ASSUME NEW t \in Tasks, LoadCount(t) PROVE RefsRight'
  BY <1>9, RefsFrame DEF LoadCount, Goto, At, ends
<1>10. ASSUME NEW t \in Tasks, StoreCount(t) PROVE RefsRight'
  BY <1>10, RefsFrame DEF StoreCount, Goto, At, ends, HoldsItsEnd
<1>11. ASSUME NEW t \in Tasks, Wake(t) PROVE RefsRight'
  BY <1>11, RefsFrame DEF Wake, Goto, At, ends
<1>12. ASSUME NEW t \in Tasks, Clear(t) PROVE RefsRight'
  <2>1. CASE end[t] \in holds[t]
    <3>1. /\ pc' = [pc EXCEPT ![t] = "user"] /\ tmp' = [tmp EXCEPT ![t] = 0]
          /\ pc[t] = "clear" /\ UNCHANGED <<closed, refcount, prefs, freed, holds, end>>
      BY <1>12, <2>1 DEF Clear, At, Return, Goto, ends
    <3> QED BY <2>1, <3>1, RefsFrame
  <2>2. CASE end[t] \notin holds[t]
    <3>1. /\ pc' = [pc EXCEPT ![t] = "drop"] /\ pc[t] = "clear"
          /\ UNCHANGED <<closed, refcount, prefs, freed, holds, end, tmp>>
      BY <1>12, <2>2 DEF Clear, At, Goto, ends
    <3> QED BY <2>2, <3>1, RefsFrame
  <2> QED BY <2>1, <2>2
<1> HIDE DEF LocalTypes
<1>13. ASSUME NEW t \in Tasks, NEW e \in Ends, Close(t, e) PROVE RefsRight'
  BY <1>13, CloseRefs
<1>14. ASSUME NEW t \in Tasks, NEW u \in Tasks, NEW S \in SUBSET Ends, Procreate(t, u, S)
       PROVE  RefsRight'
  BY <1>14, ProcreateRefs
<1>15. ASSUME NEW t \in Tasks, NEW u \in Tasks, Reap(t, u) PROVE RefsRight'
  BY <1>15, ReapRefs
<1>16. ASSUME NEW t \in Tasks, Unref(t) \/ Shut(t) \/ Drop(t) PROVE RefsRight'
  BY <1>16, UnrefRefs, ShutRefs, DropRefs
<1> QED
  BY <1>1, <1>2, <1>3, <1>4, <1>5, <1>6, <1>7, <1>8, <1>9, <1>10, <1>11, <1>12, <1>13,
     <1>14, <1>15, <1>16
  DEF Next, Read, Write, Continue, Ends

-----------------------------------------------------------------------------
(* The ring.                                                               *)

\* What the ring's proofs need of the constants and the types.
LEMMA RingNumbers ==
    ASSUME PipeAssumption, RingTypes
    PROVE  /\ Capacity \in Nat \ {0} /\ SizeMod \in Nat \ {0} /\ SizeMod > 2 * Capacity
           /\ head \in 0..(Capacity - 1) /\ tail \in 0..(Capacity - 1)
           /\ sent \in Nat /\ received \in Seq(Nat) /\ Len(received) \in Nat
           /\ count \in Nat /\ Held \in Int
  BY DEF PipeAssumption, RingTypes, Held

\* Going on from head by n and then by i is going on by n + i.
LEMMA ModTwice ==
    ASSUME NEW C \in Nat \ {0}, NEW h \in 0..(C - 1), NEW n \in 0..C, NEW i \in 0..C, n + i <= C
    PROVE  (((h + n) % C) + i) % C = (h + (n + i)) % C
<1>1. PICK a \in 0..(2 * C - 1) : a = h + n
  OBVIOUS
<1>2. PICK x \in 0..(C - 1) : x = a % C /\ x = IF a < C THEN a ELSE a - C
  <2>1. a % C = IF a < C THEN a ELSE a - C
    BY ModOnce
  <2> QED BY <2>1
<1>3. PICK b \in 0..(2 * C - 1) : b = x + i
  OBVIOUS
<1>4. PICK y \in 0..(C - 1) : y = b % C /\ y = IF b < C THEN b ELSE b - C
  <2>1. b % C = IF b < C THEN b ELSE b - C
    BY ModOnce
  <2> QED BY <2>1
<1>5. PICK c \in 0..(2 * C - 1) : c = h + (n + i)
  OBVIOUS
<1>6. PICK z \in 0..(C - 1) : z = c % C /\ z = IF c < C THEN c ELSE c - C
  <2>1. c % C = IF c < C THEN c ELSE c - C
    BY ModOnce
  <2> QED BY <2>1
<1>7. y = z
  <2>1. x = IF h + n < C THEN h + n ELSE h + n - C
    BY <1>1, <1>2
  <2>2. y = IF x + i < C THEN x + i ELSE x + i - C
    BY <1>3, <1>4
  <2>3. z = IF h + (n + i) < C THEN h + (n + i) ELSE h + (n + i) - C
    BY <1>5, <1>6
  <2> QED BY <2>1, <2>2, <2>3
<1> QED BY <1>1, <1>2, <1>3, <1>4, <1>5, <1>6, <1>7

\* What ended the loop of a READ or WRITE still holds if count and flags only move its way.
LEMMA ReadyStays ==
    ASSUME count' = count, \A e \in Ends : closed[e] => closed'[e]
    PROVE  \A e : Ready(e) => Ready(e)'
  BY DEF Ready, Ends

\* Whoever starts a transfer finds that nobody else is in one.
LEMMA BeginAlone ==
    ASSUME PipeAssumption, Narrow, RingTypes, RingRight, NEW t \in Tasks, At(t, "begin")
    PROVE  Transferring = {} /\ count = Held /\ count \in 0..Capacity /\ Ready(end[t])
<1>1. Transferring = {}
  BY AloneAtStep DEF Transferring, Critical, Inner
<1> QED BY <1>1 DEF RingRight, CountRight, BytesRight, ReadyRight, At

\* Steps that neither touch the ring nor take part in a transfer.
LEMMA RingFrame ==
    ASSUME RingRight, UNCHANGED <<ring, sent, received>>,
           \A e \in Ends : closed[e] => closed'[e],
           \A u \in Tasks : /\ pc'[u] = "load" <=> pc[u] = "load"
                            /\ pc'[u] = "store" <=> pc[u] = "store"
                            /\ pc[u] \in {"load", "store"} =>
                                  end'[u] = end[u] /\ len'[u] = len[u] /\ tmp'[u] = tmp[u]
                            /\ pc'[u] = "begin" =>
                                  end'[u] = end[u] /\ (pc[u] = "begin" \/ Ready(end[u]))
    PROVE  RingRight'
<1>1. Held' = Held /\ UNCHANGED <<buffer, head, tail, count, sent, received>>
  BY DEF Held, ring
<1>2. Transferring' = Transferring
  BY DEF Transferring
<1>3. BytesRight'
  BY <1>1 DEF RingRight, BytesRight
<1>4. CountRight'
  BY <1>1, <1>2 DEF RingRight, CountRight, Transferring
<1>5. ReadyRight'
  <2> SUFFICES ASSUME NEW u \in Tasks, pc'[u] \in {"begin", "load", "store"}
               PROVE  Ready(end[u])'
    BY DEF ReadyRight
  <2>1. end'[u] = end[u] /\ Ready(end[u])
    BY DEF RingRight, ReadyRight
  <2> QED BY <2>1, <1>1, ReadyStays
<1> QED BY <1>3, <1>4, <1>5 DEF RingRight

\* pipe_read_raw hands out the oldest bytes.
LEMMA TakenInOrder ==
    ASSUME PipeAssumption, RingTypes, BytesRight, NEW n \in 1..Held,
           NEW taken, taken = [i \in 1..n |-> buffer[(head + i - 1) % Capacity]]
    PROVE  taken = [i \in 1..n |-> Len(received) + i]
<1>1. ASSUME NEW i \in 1..n PROVE buffer[(head + i - 1) % Capacity] = Len(received) + i
  <2>1. PICK j \in 0..(Held - 1) : j = i - 1
    BY RingNumbers DEF BytesRight
  <2>2. buffer[(head + j) % Capacity] = Len(received) + j + 1
    BY DEF BytesRight
  <2>3. head + i - 1 = head + j /\ Len(received) + j + 1 = Len(received) + i
    BY <2>1, RingNumbers
  <2> QED BY <2>2, <2>3
<1> QED BY <1>1

\* pipe_read_raw takes bytes from head on, in order, and no more than there are.
LEMMA ReadRing ==
    ASSUME PipeAssumption, Narrow, RingTypes, RefTypes, LocalTypes, HoldsItsEnd, RingRight,
           NEW t \in Tasks, CopyOut(t)
    PROVE  /\ RingRight'
           /\ \E n \in 1..Capacity : /\ Len(received) + n <= sent
                                     /\ received' = received \o [i \in 1..n |-> Len(received) + i]
<1> DEFINE n == Least(len[t], count)
           taken == [i \in 1..n |-> buffer[(head + i - 1) % Capacity]]
<1>1. /\ Transferring = {} /\ count = Held /\ count \in 0..Capacity /\ Ready(end[t])
      /\ pc[t] = "begin" /\ end[t] = "r" /\ count # 0 /\ len[t] > 0 /\ len[t] \in Nat
  BY BeginAlone DEF CopyOut, At, HoldsItsEnd, LocalTypes
<1>2. n \in 1..Held /\ n \in 1..Capacity /\ Held \in 0..Capacity
  BY <1>1, RingNumbers DEF Least
<1>3. /\ received' = received \o taken /\ head' = (head + n) % Capacity
      /\ len' = [len EXCEPT ![t] = n] /\ pc' = [pc EXCEPT ![t] = "load"]
      /\ UNCHANGED <<buffer, tail, count, closed, end, tmp, sent>>
  BY DEF CopyOut, Goto
<1> HIDE DEF n
<1>4. taken = [i \in 1..n |-> Len(received) + i]
  BY <1>2, TakenInOrder DEF RingRight
<1> HIDE DEF taken
<1>5. /\ received' = received \o [i \in 1..n |-> Len(received) + i]
      /\ Len(received') = Len(received) + n
      /\ \A i \in 1..Len(received') : received'[i] = i
  <2>1. received' = received \o [i \in 1..n |-> Len(received) + i]
    BY <1>3, <1>4
  <2>2. Len(received') = Len(received) + n
    BY <1>2, <2>1, RingNumbers
  <2>3. ASSUME NEW i \in 1..Len(received') PROVE received'[i] = i
    <3>1. CASE i <= Len(received)
      BY <3>1, <2>1, <2>2, <1>2, RingNumbers DEF RingRight, BytesRight
    <3>2. CASE i > Len(received)
      BY <3>2, <2>1, <2>2, <1>2, RingNumbers
    <3> QED BY <3>1, <3>2, <2>2, RingNumbers
  <2> QED BY <2>1, <2>2, <2>3
<1>6. Held' = Held - n
  BY <1>2, <1>3, <1>5, RingNumbers DEF Held
<1>7. \A i \in 0..Held' : (head' + i) % Capacity = (head + (n + i)) % Capacity
  <2> SUFFICES ASSUME NEW i \in 0..Held'
               PROVE  (head' + i) % Capacity = (head + (n + i)) % Capacity
    OBVIOUS
  <2>1. /\ Capacity \in Nat \ {0} /\ head \in 0..(Capacity - 1)
        /\ n \in 0..Capacity /\ i \in 0..Capacity /\ n + i <= Capacity
    BY <1>2, <1>6, RingNumbers
  <2>2. (((head + n) % Capacity) + i) % Capacity = (head + (n + i)) % Capacity
    BY <2>1, ModTwice
  <2> QED BY <2>2, <1>3
<1>8. tail' = (head' + Held') % Capacity
  <2>1. tail = (head + (n + Held')) % Capacity
    BY <1>2, <1>6, RingNumbers DEF RingRight, BytesRight
  <2> QED BY <2>1, <1>2, <1>3, <1>6, <1>7
<1>9. ASSUME NEW i \in 0..(Held' - 1)
      PROVE  buffer'[(head' + i) % Capacity] = Len(received') + i + 1
  <2>1. PICK j \in 0..(Held - 1) : j = n + i
    BY <1>2, <1>6
  <2>2. buffer[(head + j) % Capacity] = Len(received) + j + 1
    BY DEF RingRight, BytesRight
  <2>3. (head' + i) % Capacity = (head + j) % Capacity
    BY <2>1, <1>2, <1>6, <1>7
  <2>4. Len(received) + j + 1 = Len(received') + i + 1
    BY <2>1, <1>2, <1>5, RingNumbers
  <2> QED BY <2>2, <2>3, <2>4, <1>3
<1>10. BytesRight'
  BY <1>2, <1>5, <1>6, <1>8, <1>9 DEF BytesRight
<1>11. CountRight'
  <2>1. Transferring' = {t}
    BY <1>1, <1>3 DEF Transferring, LocalTypes
  <2>2. pc'[t] = "load" /\ len'[t] = n /\ end'[t] = "r" /\ count' = count
    BY <1>1, <1>3 DEF LocalTypes
  <2> QED BY <2>1, <2>2, <1>1, <1>2, <1>6 DEF CountRight
<1>12. ReadyRight'
  <2> SUFFICES ASSUME NEW u \in Tasks, pc'[u] \in {"begin", "load", "store"}
               PROVE  Ready(end[u])'
    BY DEF ReadyRight
  <2>1. end'[u] = end[u] /\ Ready(end[u])
    BY <1>1, <1>3 DEF RingRight, ReadyRight, LocalTypes
  <2> QED BY <2>1, <1>3, ReadyStays
<1>13. RingRight'
  BY <1>10, <1>11, <1>12 DEF RingRight
<1>14. n \in 1..Capacity /\ Len(received) + n <= sent
  BY <1>2, RingNumbers DEF Held
<1> QED BY <1>5, <1>13, <1>14

\* pipe_write_raw puts bytes from tail on, and no more than there is space for.
LEMMA WriteRing ==
    ASSUME PipeAssumption, Narrow, RingTypes, RefTypes, LocalTypes, HoldsItsEnd, RingRight,
           NEW t \in Tasks, CopyIn(t)
    PROVE  /\ RingRight'
           /\ \E n \in 1..Capacity : sent + n - Len(received) <= Capacity /\ sent' = sent + n
<1> DEFINE n == Least(len[t], (Capacity - count) % SizeMod)
<1>1. /\ Transferring = {} /\ count = Held /\ count \in 0..Capacity /\ Ready(end[t])
      /\ pc[t] = "begin" /\ end[t] = "w" /\ count # Capacity /\ len[t] > 0 /\ len[t] \in Nat
  BY BeginAlone DEF CopyIn, At, HoldsItsEnd, LocalTypes
<1>2. n \in 1..Capacity /\ Held + n <= Capacity /\ Held \in 0..Capacity
  <2>1. (Capacity - count) % SizeMod = Capacity - count
    BY <1>1, RingNumbers, FreeSpaceIsNat
  <2>2. n = Least(len[t], Capacity - count)
    BY <2>1
  <2> HIDE DEF n
  <2>3. Capacity \in Nat /\ Capacity # 0
    BY RingNumbers
  <2> QED BY <1>1, <2>2, <2>3 DEF Least
<1>3. /\ buffer' = Filled(n) /\ tail' = (tail + n) % Capacity /\ sent' = sent + n
      /\ len' = [len EXCEPT ![t] = n] /\ pc' = [pc EXCEPT ![t] = "load"]
      /\ UNCHANGED <<head, count, closed, end, tmp, received>>
  BY DEF CopyIn, Goto, Filled, Place, Byte
<1> HIDE DEF n
<1>4. Held' = Held + n
  BY <1>2, <1>3, RingNumbers DEF Held
<1>5. tail' = (head' + Held') % Capacity
  <2>1. (((head + Held) % Capacity) + n) % Capacity = (head + (Held + n)) % Capacity
    BY <1>2, RingNumbers, ModTwice
  <2>2. tail = (head + Held) % Capacity
    BY DEF RingRight, BytesRight
  <2> QED BY <2>1, <2>2, <1>3, <1>4
<1>6. ASSUME NEW k \in 1..n PROVE Place(k) = (head + (Held + k - 1)) % Capacity
  <2>1. PICK j \in 0..Capacity : j = k - 1 /\ Held + j <= Capacity
    BY <1>2
  <2>2. (((head + Held) % Capacity) + j) % Capacity = (head + (Held + j)) % Capacity
    BY <1>2, <2>1, RingNumbers, ModTwice
  <2>3. tail + j = tail + k - 1 /\ Held + j = Held + k - 1
    BY <2>1, <1>2, RingNumbers
  <2> QED BY <2>2, <2>3 DEF Place, RingRight, BytesRight
<1>7. ASSUME NEW i \in 0..(Held - 1), NEW k \in 1..n PROVE (head + i) % Capacity # Place(k)
  <2>1. PICK a \in 0..(2 * Capacity - 1) : a = head + i
    BY <1>2, RingNumbers
  <2>2. a % Capacity = IF a < Capacity THEN a ELSE a - Capacity
    BY RingNumbers, ModOnce
  <2>3. PICK b \in 0..(2 * Capacity - 1) : b = head + (Held + k - 1)
    BY <1>2, RingNumbers
  <2>4. b % Capacity = IF b < Capacity THEN b ELSE b - Capacity
    BY RingNumbers, ModOnce
  <2>5. a < b /\ b < a + Capacity
    BY <2>1, <2>3, <1>2, RingNumbers
  <2>6. a % Capacity # b % Capacity
    <3>1. PICK x \in 0..(Capacity - 1) : x = a % Capacity /\ x = IF a < Capacity THEN a ELSE a - Capacity
      BY <2>2, RingNumbers
    <3>2. PICK y \in 0..(Capacity - 1) : y = b % Capacity /\ y = IF b < Capacity THEN b ELSE b - Capacity
      BY <2>4, RingNumbers
    <3>3. x # y
      <4>1. a \in Int /\ b \in Int /\ Capacity \in Int /\ a < b /\ b < a + Capacity
        BY <2>5, RingNumbers
      <4>2. x = (IF a < Capacity THEN a ELSE a - Capacity)
            /\ y = (IF b < Capacity THEN b ELSE b - Capacity)
        BY <3>1, <3>2
      <4> QED BY <4>1, <4>2
    <3> QED BY <3>1, <3>2, <3>3
  <2> QED BY <2>1, <2>3, <2>6, <1>6
<1>8. /\ \A k \in 1..n : buffer'[Place(k)] = sent + k
      /\ \A i \in 0..(Capacity - 1) :
            (\A k \in 1..n : i # Place(k)) => buffer'[i] = buffer[i]
  <2>1. n \in 0..Capacity
    BY <1>2
  <2> QED BY <2>1, <1>3, CopiedIn
<1>9. ASSUME NEW i \in 0..(Held' - 1)
      PROVE  buffer'[(head' + i) % Capacity] = Len(received') + i + 1
  <2>1. CASE i < Held
    <3>1. i \in 0..(Held - 1)
      BY <2>1, <1>2, <1>4
    <3>2. (head + i) % Capacity \in 0..(Capacity - 1)
      BY <3>1, RingNumbers
    <3>3. buffer[(head + i) % Capacity] = Len(received) + i + 1
      BY <3>1 DEF RingRight, BytesRight
    <3>4. \A k \in 1..n : (head + i) % Capacity # Place(k)
      BY <3>1, <1>7
    <3> QED BY <3>2, <3>3, <3>4, <1>3, <1>8
  <2>2. CASE i >= Held
    <3>1. PICK k \in 1..n : k = i - Held + 1
      BY <2>2, <1>2, <1>4
    <3>2. Held + k - 1 = i /\ sent + k = Len(received) + i + 1
      <4>1. /\ Held \in Int /\ i \in Int /\ k \in Int /\ sent \in Int /\ Len(received) \in Int
            /\ Held = sent - Len(received) /\ k = i - Held + 1
        BY <3>1, <1>2, <1>4, RingNumbers DEF Held
      <4> QED BY <4>1
    <3>3. Place(k) = (head + i) % Capacity
      BY <3>2, <1>6
    <3> QED BY <3>2, <3>3, <1>3, <1>8
  <2> QED BY <2>1, <2>2, <1>2, <1>4
<1>10. BytesRight'
  BY <1>2, <1>3, <1>4, <1>5, <1>9 DEF RingRight, BytesRight
<1>11. CountRight'
  <2>1. Transferring' = {t}
    BY <1>1, <1>3 DEF Transferring, LocalTypes
  <2>2. pc'[t] = "load" /\ len'[t] = n /\ end'[t] = "w" /\ count' = count
    BY <1>1, <1>3 DEF LocalTypes
  <2> QED BY <2>1, <2>2, <1>1, <1>2, <1>4 DEF CountRight
<1>12. ReadyRight'
  <2> SUFFICES ASSUME NEW u \in Tasks, pc'[u] \in {"begin", "load", "store"}
               PROVE  Ready(end[u])'
    BY DEF ReadyRight
  <2>1. end'[u] = end[u] /\ Ready(end[u])
    BY <1>1, <1>3 DEF RingRight, ReadyRight, LocalTypes
  <2> QED BY <2>1, <1>3, ReadyStays
<1>13. RingRight'
  BY <1>10, <1>11, <1>12 DEF RingRight
<1>14. sent + n - Len(received) <= Capacity
  BY <1>2, RingNumbers DEF Held
<1> QED BY <1>2, <1>3, <1>13, <1>14

\* The store of count makes it agree with the indices again.
LEMMA StoreRing ==
    ASSUME PipeAssumption, Narrow, RingTypes, LocalTypes, RingRight,
           NEW t \in Tasks, LoadCount(t) \/ StoreCount(t)
    PROVE  RingRight'
<1>1. /\ t \in Transferring /\ \A u \in Tasks : u \in Transferring => u = t
      /\ \A u \in Tasks \ {t} : pc[u] \notin {"begin", "load", "store"}
  BY AloneAtStep DEF LoadCount, StoreCount, At, Transferring, Critical, Inner
<1>2. /\ count = IF end[t] = "r" THEN Held + len[t] ELSE Held - len[t]
      /\ count \in 0..Capacity /\ Held \in 0..Capacity /\ Ready(end[t])
      /\ pc[t] = "store" => tmp[t] = count
  BY <1>1 DEF RingRight, CountRight, BytesRight, ReadyRight, Transferring
<1>3. CASE LoadCount(t)
  <2>1. /\ tmp' = [tmp EXCEPT ![t] = count] /\ pc' = [pc EXCEPT ![t] = "store"]
        /\ UNCHANGED <<buffer, head, tail, count, closed, end, len, sent, received>>
    BY <1>3 DEF LoadCount, Goto, ring, logs
  <2>2. Held' = Held
    BY <2>1 DEF Held
  <2>3. BytesRight'
    BY <2>1, <2>2 DEF RingRight, BytesRight
  <2>4. Transferring' = {t} /\ tmp'[t] = count
    BY <1>1, <2>1 DEF Transferring, LocalTypes
  <2>5. CountRight'
    BY <1>2, <2>1, <2>2, <2>4 DEF CountRight
  <2>6. Ready(end[t])'
    BY <1>2, <2>1, ReadyStays
  <2>7. ReadyRight'
    BY <1>1, <2>1, <2>6 DEF ReadyRight, LocalTypes
  <2> QED BY <2>3, <2>5, <2>7 DEF RingRight
<1>4. CASE StoreCount(t)
  <2>1. /\ count' = (IF end[t] = "r" THEN tmp[t] - len[t] ELSE tmp[t] + len[t]) % SizeMod
        /\ pc' = [pc EXCEPT ![t] = "wake"] /\ pc[t] = "store"
        /\ UNCHANGED <<buffer, head, tail, closed, end, len, sent, received>>
    BY <1>4 DEF StoreCount, Goto, At, logs
  <2>2. Held' = Held
    BY <2>1 DEF Held
  <2>3. BytesRight'
    BY <2>1, <2>2 DEF RingRight, BytesRight
  <2>4. count' = Held
    <3>1. (IF end[t] = "r" THEN tmp[t] - len[t] ELSE tmp[t] + len[t]) = Held
      BY <1>2, <2>1, RingNumbers DEF LocalTypes
    <3>2. Held % SizeMod = Held
      <4>1. PICK h \in 0..(2 * SizeMod - 1) : h = Held /\ h < SizeMod
        BY <1>2, RingNumbers
      <4>2. h % SizeMod = IF h < SizeMod THEN h ELSE h - SizeMod
        BY RingNumbers, ModOnce
      <4> QED BY <4>1, <4>2
    <3> QED BY <2>1, <3>1, <3>2
  <2>5. Transferring' = {} /\ \A u \in Tasks : pc'[u] \notin {"begin", "load", "store"}
    BY <1>1, <2>1 DEF Transferring, LocalTypes
  <2>6. CountRight' /\ ReadyRight'
    BY <2>2, <2>4, <2>5 DEF CountRight, ReadyRight
  <2> QED BY <2>3, <2>6 DEF RingRight
<1> QED BY <1>3, <1>4

\* The ring starts empty.
LEMMA RingInit ==
    ASSUME PipeAssumption, Init PROVE RingRight
<1>1. /\ received = <<>> /\ Len(received) = 0 /\ sent = 0 /\ head = 0 /\ tail = 0 /\ count = 0
      /\ Capacity \in Nat \ {0}
  BY DEF Init, PipeAssumption
<1>2. \A t \in Tasks : pc[t] \in {"user", "new"}
  BY DEF Init
<1>3. Held = 0 /\ (head + Held) % Capacity = 0
  <2>1. PICK a \in 0..(2 * Capacity - 1) : a = 0
    BY <1>1
  <2>2. a % Capacity = IF a < Capacity THEN a ELSE a - Capacity
    BY <1>1, ModOnce
  <2>3. Held = 0
    <3>1. sent = 0 /\ Len(received) = 0
      BY <1>1
    <3> QED BY <3>1 DEF Held
  <2>4. head + Held = a
    BY <1>1, <2>1, <2>3
  <2>5. a % Capacity = 0
    BY <1>1, <2>1, <2>2
  <2> QED BY <2>3, <2>4, <2>5
<1>4. BytesRight
  BY <1>1, <1>3 DEF BytesRight
<1>5. Transferring = {}
  BY <1>2 DEF Transferring
<1>6. CountRight /\ ReadyRight
  BY <1>1, <1>2, <1>3, <1>5 DEF CountRight, ReadyRight
<1> QED BY <1>4, <1>6 DEF RingRight

\* Every operation keeps the ring right.
LEMMA RingStep ==
    ASSUME PipeAssumption, Narrow, RingTypes, RefTypes, LocalTypes, HoldsItsEnd, RingRight, Next
    PROVE  RingRight'
<1> USE DEF LocalTypes
<1>1. ASSUME NEW t \in Tasks, NEW e \in Ends, NEW n \in 1..MaxLen, Call(t, e, n)
      PROVE  RingRight'
  BY <1>1, RingFrame DEF Call, At, Goto
<1>2. ASSUME NEW t \in Tasks, WriteBroken(t) PROVE RingRight'
  BY <1>2, RingFrame DEF WriteBroken, Return, Goto, At
<1>3. ASSUME NEW t \in Tasks, Die(t) PROVE RingRight'
  BY <1>3, RingFrame DEF Die, Goto, At, logs
<1>4. ASSUME NEW t \in Tasks, CheckReady(t) PROVE RingRight'
  BY <1>4, RingFrame DEF CheckReady, Goto, At, logs
<1>5. ASSUME NEW t \in Tasks, CheckBlock(t) PROVE RingRight'
  BY <1>5, RingFrame DEF CheckBlock, locals, logs
<1>6. ASSUME NEW t \in Tasks, BeginNothing(t) PROVE RingRight'
  BY <1>6, RingFrame DEF BeginNothing, Return, Goto, At
<1>7. ASSUME NEW t \in Tasks, Wake(t) PROVE RingRight'
  BY <1>7, RingFrame DEF Wake, Goto, At, logs
<1>8. ASSUME NEW t \in Tasks, Clear(t) PROVE RingRight'
  <2>1. CASE end[t] \in holds[t]
    <3>1. /\ pc' = [pc EXCEPT ![t] = "user"] /\ tmp' = [tmp EXCEPT ![t] = 0]
          /\ len' = [len EXCEPT ![t] = 0] /\ pc[t] = "clear"
          /\ UNCHANGED <<ring, sent, received, closed, end>>
      BY <1>8, <2>1 DEF Clear, At, Return, Goto
    <3> QED BY <3>1, RingFrame
  <2>2. CASE end[t] \notin holds[t]
    <3>1. /\ pc' = [pc EXCEPT ![t] = "drop"] /\ pc[t] = "clear"
          /\ UNCHANGED <<ring, sent, received, closed, end, len, tmp>>
      BY <1>8, <2>2 DEF Clear, At, Goto
    <3> QED BY <3>1, RingFrame
  <2> QED BY <2>1, <2>2
<1>9. ASSUME NEW t \in Tasks, NEW e \in Ends, Close(t, e) PROVE RingRight'
  BY <1>9, RingFrame DEF Close, Goto, At, logs
<1>10. ASSUME NEW t \in Tasks, NEW u \in Tasks, NEW S \in SUBSET Ends, Procreate(t, u, S)
       PROVE  RingRight'
  BY <1>10, RingFrame DEF Procreate, Goto, logs
<1>11. ASSUME NEW t \in Tasks, NEW u \in Tasks, Reap(t, u) PROVE RingRight'
  <2>1. \A e \in Ends : closed[e] => closed'[e]
    BY <1>11 DEF Reap
  <2>2. UNCHANGED <<ring, sent, received, pc, end, len, tmp>>
    BY <1>11 DEF Reap, locals, logs
  <2> QED BY <2>1, <2>2, RingFrame
<1>12. ASSUME NEW t \in Tasks, Unref(t) PROVE RingRight'
  BY <1>12, RingFrame DEF Unref, Goto, At, logs
<1>13. ASSUME NEW t \in Tasks, Shut(t) PROVE RingRight'
  <2>1. \A e \in Ends : closed[e] => closed'[e]
    BY <1>13 DEF Shut, RefTypes
  <2>2. /\ pc' = [pc EXCEPT ![t] = "wake"] /\ pc[t] = "shut"
        /\ UNCHANGED <<ring, sent, received, end, len, tmp>>
    BY <1>13 DEF Shut, Goto, At, logs
  <2> QED BY <2>1, <2>2, RingFrame
<1>14. ASSUME NEW t \in Tasks, Drop(t) PROVE RingRight'
  BY <1>14, RingFrame DEF Drop, Goto, At, logs
<1> HIDE DEF LocalTypes
<1>15. ASSUME NEW t \in Tasks, CopyOut(t) PROVE RingRight'
  BY <1>15, ReadRing
<1>16. ASSUME NEW t \in Tasks, CopyIn(t) PROVE RingRight'
  BY <1>16, WriteRing
<1>17. ASSUME NEW t \in Tasks, LoadCount(t) \/ StoreCount(t) PROVE RingRight'
  BY <1>17, StoreRing
<1> QED
  BY <1>1, <1>2, <1>3, <1>4, <1>5, <1>6, <1>7, <1>8, <1>9, <1>10, <1>11, <1>12, <1>13,
     <1>14, <1>15, <1>16, <1>17
  DEF Next, Read, Write, Continue, Ends

-----------------------------------------------------------------------------
(* The counts.                                                             *)

\* The invariant holds after pipe_create_pair.
LEMMA CountInvInit ==
    ASSUME PipeAssumption, IsFiniteSet(Tasks), Init PROVE CountInv
  BY TypeInit, PlacesInit, RefsInit, RingInit DEF CountInv

\* Every operation keeps the invariant.
LEMMA CountInvStep ==
    ASSUME PipeAssumption, Narrow, IsFiniteSet(Tasks), CountInv, [Next]_vars PROVE CountInv'
<1> USE DEF CountInv
<1>1. CASE Next
  <2>1. RingTypes /\ RefTypes /\ WaitTypes /\ LocalTypes
    BY TypeParts
  <2>2. \A t \in Tasks : pc[t] = "begin" => count <= Capacity
    <3> SUFFICES ASSUME NEW t \in Tasks, pc[t] = "begin" PROVE count <= Capacity
      OBVIOUS
    <3>1. Transferring = {}
      BY DEF Exclusive, Critical, Inner, Transferring
    <3> QED BY <2>1, <3>1, RingNumbers DEF RingRight, CountRight, BytesRight
  <2>3. TypeOK'
    <3>1. RingTypes'
      BY <1>1, <2>1, <2>2, RingTypesStep
    <3>2. RefTypes'
      BY <1>1, <2>1, RefTypesStep
    <3>3. WaitTypes'
      BY <1>1, <2>1, WaitTypesStep
    <3>4. LocalTypes'
      BY <1>1, <2>1, LocalTypesStep
    <3> QED BY <3>1, <3>2, <3>3, <3>4
        DEF TypeOK, RingTypes, RefTypes, WaitTypes, LocalTypes, Places
  <2>4. Exclusive'
    BY <1>1, <2>1, ExclusiveStep
  <2>5. HoldsItsEnd'
    BY <1>1, <2>1, <2>2, HoldsItsEndStep
  <2>6. RefsRight'
    BY <1>1, <2>1, RefsStep
  <2>7. RingRight'
    BY <1>1, <2>1, RingStep
  <2> QED BY <2>3, <2>4, <2>5, <2>6, <2>7
<1>2. CASE UNCHANGED vars
  <2>1. UNCHANGED <<buffer, head, tail, count, closed, waiting, refcount, prefs, freed, holds,
                    blocked, pc, end, len, tmp, result, sent, received>>
    BY <1>2 DEF vars, ring, ends, locals, logs
  <2>2. TypeOK'
    BY <2>1 DEF TypeOK
  <2>3. Exclusive' /\ HoldsItsEnd'
    BY <2>1 DEF Exclusive, HoldsItsEnd
  <2>4. RefsRight'
    BY <2>1, RefsFrame DEF Dropping
  <2>5. RingRight'
    BY <2>1 DEF RingRight, BytesRight, CountRight, ReadyRight, Held, Transferring, Ready
  <2> QED BY <2>2, <2>3, <2>4, <2>5
<1> QED BY <1>1, <1>2

\* It is strong enough for what the runs check of the counts.
LEMMA CountInvImplies ==
    ASSUME PipeAssumption, IsFiniteSet(Tasks), CountInv PROVE CountsAreAccurate
<1> USE DEF CountInv, RefsRight, RingRight
<1>1. RefTypes /\ LocalTypes /\ TypeOK
  BY TypeParts
<1>2. CountIsAccurate
  BY DEF CountIsAccurate, CountRight, BytesRight, Held
<1>3. \A e \in Ends, t \in Tasks : pc[t] = "unref" /\ end[t] = e => e \notin holds[t]
  BY DEF HoldsItsEnd
<1>4. EndsAreCounted
  <2> SUFFICES ASSUME NEW e \in Ends,
                      \A t \in Tasks : pc[t] \in Inner => end[t] # e \/ e \in holds[t]
               PROVE  /\ refcount[e] = Cardinality({t \in Tasks : e \in holds[t]})
                      /\ closed[e] <=> refcount[e] = 0
    BY DEF EndsAreCounted
  <2>1. \A t \in Tasks : pc[t] \in {"unref", "shut"} => end[t] # e
    BY DEF HoldsItsEnd, Inner
  <2> QED BY <2>1 DEF RefcountsRight, Unreffing, Holders, ClosedRight
<1>5. ASSUME freed PROVE \A t \in Tasks : holds[t] = {} /\ pc[t] \notin Inner \union {"check"}
  <2>1. ~Alive("r") /\ ~Alive("w")
    BY <1>5 DEF FreedRight, One
  <2>2. \A e \in Ends : ~Alive(e)
    BY <2>1 DEF Ends
  <2>3. \A e \in Ends : refcount[e] = 0 /\ \A t \in Tasks : ~(Dropping(t) /\ end[t] = e)
    BY <2>2 DEF Alive
  <2>4. \A e \in Ends : \A t \in Tasks : e \notin holds[t]
    BY <1>1, <2>3, HeldIsCounted
  <2>5. \A t \in Tasks : holds[t] = {} /\ end[t] \in Ends /\ pc[t] \in Places
    BY <1>1, <2>4 DEF RefTypes, LocalTypes
  <2>6. \A t \in Tasks : pc[t] # "unref"
    BY <2>3, <2>5, HoldersFinite DEF RefcountsRight
  <2> QED BY <2>3, <2>5, <2>6 DEF Dropping, HoldsItsEnd, Inner
<1>6. ASSUME Quiet, \A t \in Tasks : holds[t] = {} PROVE freed
  <2>1. \A e \in Ends : refcount[e] = 0
    BY <1>6, HoldersFinite DEF RefcountsRight, Unreffing, Quiet, Inner
  <2>2. \A t \in Tasks : ~Dropping(t)
    BY <1>6 DEF Quiet, Dropping, Inner
  <2>3. \A e \in Ends : ~Alive(e)
    BY <2>1, <2>2 DEF Alive
  <2>4. prefs = 0
    BY <2>3 DEF FreedRight, One, Ends
  <2> QED BY <2>4 DEF FreedRight
<1> QED BY <1>1, <1>2, <1>4, <1>5, <1>6 DEF CountsAreAccurate, FreedLast

\* The counts stay right: count and the two indices agree, an end is released
\* when its last holder lets go, and the pipe_t is freed then and not before.
THEOREM CountsStayAccurate ==
    ASSUME Narrow PROVE Spec => []CountsAreAccurate
<1> USE PipeAssumption, Narrow DEF PipeAssumption
<1>1. Init => CountInv
  BY CountInvInit
<1>2. CountInv /\ [Next]_vars => CountInv'
  BY CountInvStep
<1>3. CountInv => CountsAreAccurate
  BY CountInvImplies
<1> QED BY <1>1, <1>2, <1>3, PTL DEF Spec

-----------------------------------------------------------------------------
(* The channel.                                                            *)

Open == {e \in Ends : ~closed[e]}

\* Steps that close no end and move no byte.
LEMMA ChannelStutters ==
    ASSUME UNCHANGED <<closed, sent, received, result>>
    PROVE  UNCHANGED <<Open, sent, received, result>>
  BY DEF Open

\* A call starts, or comes back with data.
LEMMA ChannelAnswers ==
    ASSUME NEW t \in Tasks, NEW r \in {"none", "data"}, result' = [result EXCEPT ![t] = r],
           UNCHANGED <<closed, sent, received>>
    PROVE  Bytes!Next
<1>1. UNCHANGED <<Open, sent, received>>
  BY DEF Open
<1> QED BY <1>1 DEF Bytes!Next, Bytes!Answer, Open

\* Every step of the pipe is a step of the channel or leaves it alone.
LEMMA ChannelStep ==
    ASSUME PipeAssumption, Narrow, CountInv, Next
    PROVE  Bytes!Next \/ UNCHANGED <<Open, sent, received, result>>
<1>0. RingTypes /\ RefTypes /\ LocalTypes /\ HoldsItsEnd /\ RingRight /\ RefsRight
  BY TypeParts DEF CountInv
<1>1. ASSUME NEW t \in Tasks, NEW e \in Ends, NEW n \in 1..MaxLen, Call(t, e, n)
      PROVE  Bytes!Next
  BY <1>1, ChannelAnswers DEF Call
<1>2. ASSUME NEW t \in Tasks, WriteBroken(t) PROVE Bytes!Next
  <2>1. /\ "r" \notin Open /\ result' = [result EXCEPT ![t] = "broken"]
        /\ UNCHANGED <<Open, sent, received>>
    BY <1>2 DEF WriteBroken, Return, Open
  <2> QED BY <2>1 DEF Bytes!Next, Bytes!Answer, Open
<1>3. ASSUME NEW t \in Tasks, BeginNothing(t) PROVE Bytes!Next
  <2>1. /\ count = Held /\ Ready(end[t]) /\ end[t] \in {"r", "w"}
        /\ count = IF end[t] = "r" THEN 0 ELSE Capacity
        /\ result' = [result EXCEPT ![t] = IF end[t] = "r" THEN "eof" ELSE "broken"]
        /\ UNCHANGED <<closed, sent, received>>
    BY <1>0, <1>3, BeginAlone DEF BeginNothing, Return, LocalTypes, Ends
  <2>2. UNCHANGED <<Open, sent, received>>
    BY <2>1 DEF Open
  <2>3. CASE end[t] = "r"
    <3>1. "w" \notin Open /\ Len(received) = sent
      BY <1>0, <2>1, <2>3, RingNumbers DEF Ready, Open, Held
    <3> QED BY <2>1, <2>2, <2>3, <3>1 DEF Bytes!Next, Bytes!Answer, Open
  <2>4. CASE end[t] = "w"
    <3>1. "r" \notin Open
      BY <1>0, <2>1, <2>4, RingNumbers DEF Ready, Open
    <3> QED BY <2>1, <2>2, <2>4, <3>1 DEF Bytes!Next, Bytes!Answer, Open
  <2> QED BY <2>1, <2>3, <2>4
<1>4. ASSUME NEW t \in Tasks, CopyOut(t) PROVE Bytes!Next
  <2>1. \E n \in 1..Capacity : /\ Len(received) + n <= sent
                               /\ received' = received \o [i \in 1..n |-> Len(received) + i]
    BY <1>0, <1>4, ReadRing
  <2>2. UNCHANGED <<Open, sent, result>>
    BY <1>4 DEF CopyOut, Open
  <2> QED BY <2>1, <2>2 DEF Bytes!Next, Bytes!Receive, Open
<1>5. ASSUME NEW t \in Tasks, CopyIn(t) PROVE Bytes!Next
  <2>1. \E n \in 1..Capacity : sent + n - Len(received) <= Capacity /\ sent' = sent + n
    BY <1>0, <1>5, WriteRing
  <2>2. UNCHANGED <<Open, received, result>>
    BY <1>5 DEF CopyIn, Open
  <2> QED BY <2>1, <2>2 DEF Bytes!Next, Bytes!Send, Open
<1>6. ASSUME NEW t \in Tasks, Clear(t)
      PROVE  Bytes!Next \/ UNCHANGED <<Open, sent, received, result>>
  <2>1. CASE end[t] \in holds[t]
    BY <1>6, <2>1, ChannelAnswers DEF Clear, Return
  <2>2. CASE end[t] \notin holds[t]
    BY <1>6, <2>2, ChannelStutters DEF Clear
  <2> QED BY <2>1, <2>2
<1>7. ASSUME NEW t \in Tasks, Shut(t) PROVE Bytes!Next
  <2>1. Open' = Open \ {end[t]} /\ {end[t]} \in SUBSET Ends
    BY <1>0, <1>7 DEF Shut, Open, RefTypes, LocalTypes
  <2>2. UNCHANGED <<sent, received, result>>
    BY <1>7 DEF Shut, logs
  <2> QED BY <2>1, <2>2 DEF Bytes!Next, Bytes!CloseEnds, Open
<1>8. ASSUME NEW t \in Tasks, NEW u \in Tasks, Reap(t, u) PROVE Bytes!Next
  <2> DEFINE last == {e \in holds[u] : refcount[e] <= 1}
  <2>1. closed' = [e \in Ends |-> closed[e] \/ e \in last] /\ last \in SUBSET Ends
    BY <1>0, <1>8 DEF Reap, RefTypes
  <2> HIDE DEF last
  <2>2. Open' = Open \ last
    BY <2>1 DEF Open
  <2>3. UNCHANGED <<sent, received, result>>
    BY <1>8 DEF Reap, logs
  <2> QED BY <2>1, <2>2, <2>3 DEF Bytes!Next, Bytes!CloseEnds, Open
<1>9. ASSUME UNCHANGED <<closed, sent, received, result>>
      PROVE  UNCHANGED <<Open, sent, received, result>>
  BY <1>9, ChannelStutters
<1> QED
  BY <1>1, <1>2, <1>3, <1>4, <1>5, <1>6, <1>7, <1>8, <1>9
  DEF Next, Read, Write, Continue, Ends, Die, Close, Procreate, CheckReady, CheckBlock,
      LoadCount, StoreCount, Wake, Unref, Drop, logs

\* READ and WRITE are a first-in first-out channel that holds at most Capacity
\* bytes, ends after its last byte, and breaks when its reader has gone.
THEOREM PipeIsChannel ==
    ASSUME Narrow PROVE Spec => IsChannel
<1> USE PipeAssumption, Narrow DEF PipeAssumption
<1>1. Init => CountInv
  BY CountInvInit
<1>2. CountInv /\ [Next]_vars => CountInv'
  BY CountInvStep
<1>3. Init => Bytes!Init
  BY DEF Init, Bytes!Init, Ends
<1>4. CountInv /\ [Next]_vars => [Bytes!Next]_<<Open, sent, received, result>>
  <2> SUFFICES ASSUME CountInv, [Next]_vars
               PROVE  [Bytes!Next]_<<Open, sent, received, result>>
    OBVIOUS
  <2>1. CASE Next
    BY <2>1, ChannelStep
  <2>2. CASE UNCHANGED vars
    BY <2>2, ChannelStutters DEF vars, logs
  <2> QED BY <2>1, <2>2
<1> QED BY <1>1, <1>2, <1>3, <1>4, PTL DEF Spec, IsChannel, Bytes!Spec, Open

-----------------------------------------------------------------------------
(* The waiters.                                                            *)

NobodyWakes == \A u \in Tasks : pc[u] \notin {"wake", "clear"}

\* Whoever can step is in no list, and if it is not waking then nobody is.
LEMMA StepperUnlisted ==
    ASSUME Narrow, ListsRight, NEW t \in Tasks, NEW p, At(t, p)
    PROVE  /\ \A e \in Ends : ~Listed(t, e)
           /\ \A u \in Tasks \ {t} : pc[u] \notin {"wake", "clear"}
           /\ p \notin {"wake", "clear"} => NobodyWakes
<1>1. /\ pc[t] = p /\ t \notin blocked
      /\ \A u \in Tasks \ {t} : pc[u] \notin {"wake", "clear"}
  BY AloneAtStep DEF Critical, Inner
<1>2. ASSUME NEW e \in Ends, Listed(t, e) PROVE FALSE
  <2>1. pc[t] = "check" /\ \E u \in Tasks : Waking(u, e)
    BY <1>1, <1>2 DEF ListsRight
  <2> QED BY <2>1, <1>1 DEF Waking
<1> QED BY <1>1, <1>2 DEF NobodyWakes

\* Steps of t from and to a place where it is not waking, that leave the lists,
\* the sleepers and what they wait for alone.
LEMMA SleepersFrame ==
    ASSUME LocalTypes, ListsRight, AsleepRight, UNCHANGED <<waiting, blocked, count, closed>>,
           NobodyWakes, NobodyWakes',
           \A u \in Tasks : (\E e \in Ends : Listed(u, e)) => pc'[u] = pc[u] /\ end'[u] = end[u]
    PROVE  ListsRight' /\ AsleepRight'
<1>1. \A u, e : Listed(u, e)' <=> Listed(u, e)
  BY DEF Listed
<1>2. \A u \in Tasks, e \in Ends : Listed(u, e) => /\ pc'[u] = "check" /\ end'[u] = e
                                                   /\ u \in blocked'
  BY DEF ListsRight, NobodyWakes, Waking
<1>3. \A u \in blocked : /\ u \in Tasks /\ pc'[u] = "check" /\ end'[u] = end[u]
                         /\ end[u] \in Ends /\ Listed(u, end[u]) /\ ~Ready(end[u])
  BY DEF ListsRight, AsleepRight, NobodyWakes, Waking, LocalTypes
<1>4. \A e : Ready(e)' <=> Ready(e)
  BY DEF Ready
<1>5. ListsRight'
  <2>1. \A u \in blocked' : u \in Tasks /\ pc'[u] = "check" /\ Listed(u, end[u])'
    BY <1>1, <1>3
  <2>2. \A e \in Ends : \A i, j \in DOMAIN waiting'[e] : waiting'[e][i] = waiting'[e][j] => i = j
    BY DEF ListsRight
  <2> QED BY <1>1, <1>2, <2>1, <2>2 DEF ListsRight
<1>6. AsleepRight'
  <2>1. \A u \in blocked' : ~Ready(end[u])'
    BY <1>3, <1>4
  <2> QED BY <2>1 DEF AsleepRight, NobodyWakes
<1> QED BY <1>5, <1>6

\* A list has room for one more task, as each task is in it once.
LEMMA RoomToWait ==
    ASSUME IsFiniteSet(Tasks), Cardinality(Tasks) <= PIPE_MAX_WAITERS, PIPE_MAX_WAITERS \in Nat,
           WaitTypes, ListsRight, NEW t \in Tasks, NEW e \in Ends, ~Listed(t, e)
    PROVE  Len(waiting[e]) < PIPE_MAX_WAITERS
<1> DEFINE Others == Tasks \ {t}
<1>1. waiting[e] \in Seq(Tasks) /\ Len(waiting[e]) \in Nat
      /\ DOMAIN waiting[e] = 1..Len(waiting[e])
  BY DEF WaitTypes
<1>2. /\ IsFiniteSet(Others) /\ Cardinality(Others) = Cardinality(Tasks) - 1
      /\ Cardinality(Tasks) \in Nat /\ Cardinality(Others) \in Nat
  BY FS_RemoveElement, FS_CardinalityType
<1>3. waiting[e] \in [1..Len(waiting[e]) -> Others]
  BY <1>1 DEF Listed
<1>4. \A i, j \in 1..Len(waiting[e]) : waiting[e][i] = waiting[e][j] => i = j
  BY <1>1 DEF ListsRight
<1> HIDE DEF Others
<1>5. Len(waiting[e]) <= Cardinality(Others)
  BY <1>1, <1>2, <1>3, <1>4, NoLongerThan
<1> QED BY <1>1, <1>2, <1>5

\* A task that updates count, or sets the closed flag, goes on to wake the other
\* side; its own side, if anybody sleeps there, still has nothing to do.
LEMMA BeginsToWake ==
    ASSUME WaitTypes, LocalTypes, ListsRight, AsleepRight, NobodyWakes, NEW t \in Tasks,
           pc' = [pc EXCEPT ![t] = "wake"], end' = end, tmp'[t] = 0,
           UNCHANGED <<waiting, blocked>>, \A e \in Ends : ~Listed(t, e),
           \A u \in blocked : end[u] = end[t] => ~Ready(end[u])'
    PROVE  ListsRight' /\ AsleepRight'
<1>1. pc'[t] = "wake" /\ \A u \in Tasks \ {t} : pc'[u] = pc[u] /\ pc[u] \notin {"wake", "clear"}
  BY DEF LocalTypes, NobodyWakes
<1>2. \A u, e : Listed(u, e)' <=> Listed(u, e)
  BY DEF Listed
<1>3. \A u \in Tasks, e \in Ends : Listed(u, e) =>
         u # t /\ pc'[u] = "check" /\ end'[u] = e /\ u \in blocked'
  BY <1>1 DEF ListsRight, NobodyWakes, Waking
<1>4. \A u \in blocked : u # t /\ u \in Tasks /\ pc'[u] = "check" /\ Listed(u, end[u])
                         /\ end[u] \in Ends
  BY <1>1 DEF ListsRight, LocalTypes
<1>5. ListsRight'
  <2>1. \A u \in blocked' : u \in Tasks /\ pc'[u] = "check" /\ Listed(u, end[u])'
    BY <1>2, <1>4
  <2>2. \A e \in Ends : \A i, j \in DOMAIN waiting'[e] : waiting'[e][i] = waiting'[e][j] => i = j
    BY DEF ListsRight
  <2> QED BY <1>2, <1>3, <2>1, <2>2 DEF ListsRight
<1>6. AsleepRight'
  <2>1. ASSUME NEW u \in blocked', Ready(end[u])'
        PROVE  \E v \in Tasks : Waking(v, end[u])'
    <3>1. end[u] = Peer(end[t]) /\ end'[u] = end[u]
      BY <1>4, <2>1 DEF Peer, Ends, LocalTypes
    <3> QED BY <1>1, <3>1 DEF Waking
  <2>2. \A u \in Tasks : pc'[u] \in {"wake", "clear"} => u = t
    BY <1>1
  <2>3. \A i \in DOMAIN waiting'[Peer(end'[t])] : ~(i <= tmp'[t])
    <3>1. waiting[Peer(end[t])] \in Seq(Tasks)
      BY DEF WaitTypes, LocalTypes, Peer, Ends
    <3>2. \A i \in DOMAIN waiting[Peer(end[t])] : ~(i <= 0)
      BY <3>1
    <3> QED BY <3>2
  <2> QED BY <1>1, <2>1, <2>2, <2>3 DEF AsleepRight
<1> QED BY <1>5, <1>6

\* pipe_wake_all: everybody before the loop variable is awake, and at its end nobody
\* of the list sleeps.
LEMMA WakeSleepers ==
    ASSUME Narrow, WaitTypes, LocalTypes, HoldsItsEnd, ListsRight, AsleepRight,
           NEW t \in Tasks, Wake(t)
    PROVE  ListsRight' /\ AsleepRight'
<1> DEFINE P == Peer(end[t])
<1>1. /\ pc[t] = "wake" /\ \A u \in Tasks \ {t} : pc[u] \notin {"wake", "clear"}
      /\ UNCHANGED <<ring, closed, waiting, end>> /\ tmp[t] \in Nat /\ P \in Ends
  <2>1. At(t, "wake") /\ UNCHANGED <<ring, closed, waiting, end>>
    BY DEF Wake
  <2>2. pc[t] = "wake" /\ \A u \in Tasks \ {t} : pc[u] \notin {"wake", "clear"}
    BY <2>1, StepperUnlisted DEF At
  <2>3. tmp[t] \in Nat /\ P \in Ends
    BY <2>2 DEF HoldsItsEnd, LocalTypes, Peer, Ends
  <2> QED BY <2>1, <2>2, <2>3
<1>2. /\ \A u, e : Listed(u, e)' <=> Listed(u, e)
      /\ \A e : Ready(e)' <=> Ready(e)
  BY <1>1 DEF Listed, Ready, ring
<1>3. waiting[P] \in Seq(Tasks) /\ DOMAIN waiting[P] = 1..Len(waiting[P]) /\ Len(waiting[P]) \in Nat
  BY <1>1 DEF WaitTypes
<1>4. \A u \in blocked : u \in Tasks /\ u # t /\ pc[u] = "check" /\ Listed(u, end[u]) /\ end[u] \in Ends
  BY <1>1 DEF ListsRight, LocalTypes
<1>5. \A u \in Tasks, e \in Ends : Listed(u, e) => u # t /\ pc[u] = "check" /\ end[u] = e
  BY <1>1 DEF ListsRight
<1>6. \A u \in Tasks, e \in Ends : Listed(u, e) => u \in blocked \/ e = P
  BY <1>1 DEF ListsRight, Waking
<1>7. \A i \in DOMAIN waiting[P] : i <= tmp[t] => waiting[P][i] \notin blocked
  BY <1>1 DEF AsleepRight
<1>8. \A e \in Ends : \A i, j \in DOMAIN waiting'[e] : waiting'[e][i] = waiting'[e][j] => i = j
  BY <1>1 DEF ListsRight
<1>9. \A u \in blocked : Ready(end[u]) => end[u] = P
  BY <1>1 DEF AsleepRight, Waking
<1>10. CASE tmp[t] < Len(waiting[P])
  <2> DEFINE w == waiting[P][tmp[t] + 1]
  <2>1. blocked' = blocked \ {w} /\ tmp'[t] = tmp[t] + 1 /\ pc' = pc
    BY <1>10 DEF Wake, LocalTypes
  <2>2. tmp[t] + 1 \in DOMAIN waiting[P] /\ w \in Tasks /\ Listed(w, P)
    BY <1>1, <1>3, <1>10 DEF Listed
  <2>3. end[w] = P
    BY <1>1, <1>5, <2>2
  <2>4. \A i \in DOMAIN waiting[P] : i <= tmp[t] + 1 => i <= tmp[t] \/ i = tmp[t] + 1
    BY <1>1, <1>3
  <2> HIDE DEF w, P
  <2>5. \A e : e = P => Waking(t, e)'
    BY <1>1, <2>1 DEF Waking, P
  <2>6. ListsRight'
    <3>1. \A u \in blocked' : u \in Tasks /\ pc'[u] = "check" /\ Listed(u, end[u])'
      BY <1>1, <1>2, <1>4, <2>1
    <3>2. ASSUME NEW u \in Tasks, NEW e \in Ends, Listed(u, e)
          PROVE  pc'[u] = "check" /\ end'[u] = e
                 /\ (u \in blocked' \/ \E v \in Tasks : Waking(v, e)')
      BY <1>1, <1>5, <1>6, <2>1, <2>3, <2>5, <3>2
    <3> QED BY <1>2, <1>8, <3>1, <3>2 DEF ListsRight
  <2>7. AsleepRight'
    <3>1. \A u \in blocked' : Ready(end[u])' => end'[u] = P
      BY <1>1, <1>2, <1>9, <2>1
    <3>2. \A i \in DOMAIN waiting'[Peer(end'[t])] :
             i <= tmp'[t] => waiting'[Peer(end'[t])][i] \notin blocked'
      BY <1>1, <1>7, <2>1, <2>4 DEF w, P
    <3>3. \A u \in Tasks : pc'[u] \in {"wake", "clear"} => u = t /\ pc'[u] = "wake"
      BY <1>1, <2>1
    <3>4. \A u \in blocked' : Ready(end[u])' => \E v \in Tasks : Waking(v, end[u])'
      BY <3>1, <1>1, <2>1 DEF Waking, P
    <3> QED BY <3>2, <3>3, <3>4 DEF AsleepRight
  <2> QED BY <2>6, <2>7
<1>11. CASE ~(tmp[t] < Len(waiting[P]))
  <2>1. blocked' = blocked /\ pc' = [pc EXCEPT ![t] = "clear"]
    BY <1>11 DEF Wake, Goto
  <2>2. pc'[t] = "clear" /\ \A u \in Tasks \ {t} : pc'[u] = pc[u]
    BY <2>1 DEF LocalTypes
  <2>3. \A i \in DOMAIN waiting[P] : waiting[P][i] \notin blocked
    BY <1>1, <1>3, <1>7, <1>11
  <2>4. \A u \in blocked : end[u] # P
    BY <1>4, <2>3 DEF Listed
  <2>5. \A e : e = P => Waking(t, e)'
    BY <1>1, <2>2 DEF Waking
  <2> HIDE DEF P
  <2>6. ListsRight'
    <3>1. \A u \in blocked' : u \in Tasks /\ pc'[u] = "check" /\ Listed(u, end[u])'
      BY <1>2, <1>4, <2>1, <2>2, <1>1
    <3>2. ASSUME NEW u \in Tasks, NEW e \in Ends, Listed(u, e)
          PROVE  pc'[u] = "check" /\ end'[u] = e
                 /\ (u \in blocked' \/ \E v \in Tasks : Waking(v, e)')
      BY <1>1, <1>5, <1>6, <2>1, <2>2, <2>5, <3>2
    <3> QED BY <1>2, <1>8, <3>1, <3>2 DEF ListsRight
  <2>7. AsleepRight'
    <3>1. \A u \in blocked' : ~Ready(end[u])'
      BY <1>2, <1>9, <2>1, <2>4, <1>1
    <3>2. \A u \in Tasks : pc'[u] \in {"wake", "clear"} => u = t
      BY <1>1, <2>2
    <3>3. \A u \in blocked' : end'[u] # Peer(end'[t])
      BY <1>1, <2>1, <2>4 DEF P
    <3> QED BY <2>2, <3>1, <3>2, <3>3 DEF AsleepRight
  <2> QED BY <2>6, <2>7
<1> QED BY <1>10, <1>11

\* Emptying the list forgets nobody who sleeps, and the waker is gone.
LEMMA ClearSleepers ==
    ASSUME Narrow, LocalTypes, WaitTypes, ListsRight, AsleepRight, NEW t \in Tasks, Clear(t)
    PROVE  ListsRight' /\ AsleepRight'
<1> DEFINE P == Peer(end[t])
<1>1. /\ pc[t] = "clear" /\ \A u \in Tasks \ {t} : pc[u] \notin {"wake", "clear"}
      /\ count' = count /\ closed' = closed /\ end' = end /\ blocked' = blocked
  <2>1. /\ At(t, "clear")
        /\ count' = count /\ closed' = closed /\ end' = end /\ blocked' = blocked
    BY DEF Clear, ring
  <2> QED BY <2>1, StepperUnlisted DEF At
<1>2. /\ pc'[t] \in {"user", "drop"} /\ \A u \in Tasks \ {t} : pc'[u] = pc[u]
      /\ waiting' = [waiting EXCEPT ![P] = <<>>]
  BY DEF Clear, Return, Goto, LocalTypes
<1>3. /\ P \in Ends /\ waiting'[P] = <<>>
      /\ \A e \in Ends : e # P => waiting'[e] = waiting[e]
  BY <1>2 DEF WaitTypes, LocalTypes, Peer, Ends
<1>4. /\ \A u : ~Listed(u, P)' /\ \A e \in Ends : e = P => \A v : ~Listed(v, e)'
      /\ \A u, e : e \in Ends /\ e # P => (Listed(u, e)' <=> Listed(u, e))
      /\ \A e : Ready(e)' <=> Ready(e)
  <2>1. \A e \in Ends : e = P => \A u : ~Listed(u, e)'
    BY <1>3 DEF Listed
  <2>2. P' = P
    BY <1>1
  <2>3. \A u : ~Listed(u, P)'
    BY <1>3, <2>2 DEF Listed
  <2> QED BY <1>1, <1>3, <2>1, <2>3 DEF Listed, Ready
<1>5. \A u \in blocked : /\ u \in Tasks /\ u # t /\ pc[u] = "check" /\ Listed(u, end[u])
                         /\ end[u] \in Ends /\ end[u] # P /\ ~Ready(end[u])
  <2>1. \A u \in blocked : u \in Tasks /\ pc[u] = "check" /\ Listed(u, end[u]) /\ end[u] # P
    BY <1>1 DEF ListsRight, AsleepRight
  <2> QED BY <1>1, <2>1 DEF AsleepRight, Waking, LocalTypes
<1>6. \A u \in Tasks, e \in Ends : Listed(u, e) /\ e # P
         => u # t /\ pc[u] = "check" /\ end[u] = e /\ u \in blocked
  BY <1>1 DEF ListsRight, Waking
<1> HIDE DEF P
<1>7. ListsRight'
  <2>1. ASSUME NEW u \in blocked' PROVE u \in Tasks /\ pc'[u] = "check" /\ Listed(u, end[u])'
    <3>1. end[u] \in Ends /\ end[u] # P /\ Listed(u, end[u]) /\ waiting'[end[u]] = waiting[end[u]]
      BY <1>1, <1>3, <1>5
    <3>2. Listed(u, end[u])'
      BY <1>1, <3>1 DEF Listed
    <3> QED BY <1>1, <1>2, <1>5, <3>2
  <2>2. ASSUME NEW u \in Tasks, NEW e \in Ends, Listed(u, e)'
        PROVE  pc'[u] = "check" /\ end'[u] = e /\ u \in blocked'
    BY <1>1, <1>2, <1>4, <1>6, <2>2
  <2>3. \A e \in Ends : \A i, j \in DOMAIN waiting'[e] : waiting'[e][i] = waiting'[e][j] => i = j
    BY <1>3 DEF ListsRight
  <2> QED BY <2>1, <2>2, <2>3 DEF ListsRight
<1>8. AsleepRight'
  <2>1. \A u \in blocked' : ~Ready(end[u])'
    BY <1>1, <1>4, <1>5
  <2>2. \A u \in Tasks : pc'[u] \notin {"wake", "clear"}
    BY <1>1, <1>2
  <2> QED BY <2>1, <2>2 DEF AsleepRight
<1> QED BY <1>7, <1>8

\* A task that goes to sleep has nothing to do and is in its list.
LEMMA BlockSleepers ==
    ASSUME PipeAssumption, Narrow, Cardinality(Tasks) <= PIPE_MAX_WAITERS,
           LocalTypes, WaitTypes, ListsRight, AsleepRight, NEW t \in Tasks, CheckBlock(t)
    PROVE  ListsRight' /\ AsleepRight'
<1> DEFINE E == end[t]
<1>1. /\ NobodyWakes /\ \A e \in Ends : ~Listed(t, e)
      /\ pc[t] = "check" /\ t \notin blocked /\ ~Ready(end[t])
      /\ UNCHANGED <<count, closed, pc, end, tmp>> /\ E \in Ends
  BY StepperUnlisted DEF CheckBlock, At, ring, locals, LocalTypes
<1>2. Len(waiting[E]) < PIPE_MAX_WAITERS
  BY <1>1, RoomToWait DEF PipeAssumption
<1>3. waiting' = [waiting EXCEPT ![E] = Append(waiting[E], t)] /\ blocked' = blocked \union {t}
  BY <1>2 DEF CheckBlock
<1>4. /\ waiting[E] \in Seq(Tasks) /\ Len(waiting[E]) \in Nat /\ DOMAIN waiting[E] = 1..Len(waiting[E])
      /\ waiting'[E] = Append(waiting[E], t) /\ \A e \in Ends : e # E => waiting'[e] = waiting[e]
  BY <1>1, <1>3 DEF WaitTypes
<1>5. /\ DOMAIN waiting'[E] = 1..(Len(waiting[E]) + 1)
      /\ waiting'[E][Len(waiting[E]) + 1] = t
      /\ \A i \in DOMAIN waiting[E] : waiting'[E][i] = waiting[E][i]
  BY <1>4
<1>6. \A i \in DOMAIN waiting'[E] : i \in DOMAIN waiting[E] \/ i = Len(waiting[E]) + 1
  BY <1>4, <1>5
<1>7. \A i \in DOMAIN waiting[E] : waiting[E][i] # t /\ i \in DOMAIN waiting'[E]
  BY <1>1, <1>4, <1>5 DEF Listed
<1>8. \A u, e : e \in Ends => (Listed(u, e)' <=> Listed(u, e) \/ (u = t /\ e = E))
  <2>1. ASSUME NEW u, NEW e, e = E PROVE Listed(u, e)' <=> Listed(u, e) \/ u = t
    <3>1. Len(waiting[E]) + 1 \in DOMAIN waiting'[E]
      BY <1>4, <1>5
    <3> QED BY <2>1, <3>1, <1>5, <1>6, <1>7 DEF Listed
  <2>2. ASSUME NEW u, NEW e, e \in Ends, e # E PROVE Listed(u, e)' <=> Listed(u, e)
    BY <1>4, <2>2 DEF Listed
  <2> QED BY <2>1, <2>2
<1>9. ListsRight'
  <2>1. \A u \in blocked : u \in Tasks /\ pc[u] = "check" /\ Listed(u, end[u]) /\ end[u] \in Ends
    BY DEF ListsRight, LocalTypes
  <2>2. ASSUME NEW u \in blocked'
        PROVE  u \in Tasks /\ pc'[u] = "check" /\ Listed(u, end[u])'
    <3>1. u \in Tasks /\ pc[u] = "check" /\ end[u] \in Ends /\ (Listed(u, end[u]) \/ u = t)
      BY <1>1, <1>3, <2>1
    <3>2. ASSUME NEW e \in Ends, e = end[u] PROVE Listed(u, e)'
      BY <1>8, <3>1, <3>2
    <3>3. Listed(u, end[u])'
      BY <1>1, <3>1, <3>2
    <3> QED BY <1>1, <3>1, <3>3
  <2>3. ASSUME NEW u \in Tasks, NEW e \in Ends, Listed(u, e)'
        PROVE  pc'[u] = "check" /\ end'[u] = e /\ u \in blocked'
    <3>1. \A v \in Tasks : ~Waking(v, e)
      BY <1>1 DEF NobodyWakes, Waking
    <3> QED BY <1>1, <1>3, <1>8, <2>3, <3>1 DEF ListsRight
  <2>4. ASSUME NEW e \in Ends, NEW i \in DOMAIN waiting'[e], NEW j \in DOMAIN waiting'[e],
               waiting'[e][i] = waiting'[e][j]
        PROVE  i = j
    <3>1. CASE e # E
      BY <1>4, <2>4, <3>1 DEF ListsRight
    <3>2. CASE e = E
      <4>1. \A k, l \in DOMAIN waiting[E] : waiting[E][k] = waiting[E][l] => k = l
        BY <1>1 DEF ListsRight
      <4> QED BY <1>5, <1>6, <1>7, <2>4, <3>2, <4>1
    <3> QED BY <3>1, <3>2
  <2> QED BY <2>2, <2>3, <2>4 DEF ListsRight
<1>10. AsleepRight'
  <2>1. \A e : Ready(e)' <=> Ready(e)
    BY <1>1 DEF Ready
  <2>2. \A u \in blocked : ~Ready(end[u])
    BY <1>1 DEF AsleepRight, NobodyWakes, Waking, ListsRight
  <2>3. \A u \in blocked' : ~Ready(end[u])'
    BY <1>1, <1>3, <2>1, <2>2
  <2>4. \A u \in Tasks : pc'[u] \notin {"wake", "clear"}
    BY <1>1 DEF NobodyWakes
  <2> QED BY <2>3, <2>4 DEF AsleepRight
<1> QED BY <1>9, <1>10

\* A release at a reap wakes the whole other side before its list is emptied.
LEMMA ReapSleepers ==
    ASSUME Narrow, RefTypes, LocalTypes, WaitTypes, ListsRight, AsleepRight,
           NEW t \in Tasks, NEW d \in Tasks, Reap(t, d)
    PROVE  ListsRight' /\ AsleepRight'
<1> DEFINE last == {e \in holds[d] : refcount[e] <= 1}
           Gone == UNION {Elems(waiting[Peer(e)]) : e \in last}
<1>1. /\ closed' = [e \in Ends |-> closed[e] \/ e \in last]
      /\ blocked' = blocked \ Gone
      /\ waiting' = [e \in Ends |-> IF Peer(e) \in last THEN <<>> ELSE waiting[e]]
      /\ count' = count /\ pc' = pc /\ end' = end /\ tmp' = tmp
      /\ At(t, "user")
  BY DEF Reap, ring, locals
<1>2. last \subseteq Ends
  BY DEF RefTypes
<1>3. \A u : u \in Gone <=> \E e \in last : Listed(u, Peer(e))
  BY DEF Elems, Listed
<1> HIDE DEF last, Gone
<1>4. NobodyWakes
  BY <1>1, StepperUnlisted
<1>5. \A e \in Ends : Peer(e) \in Ends /\ Peer(Peer(e)) = e
  BY DEF Peer, Ends
<1>6. \A u \in blocked : /\ u \in Tasks /\ pc[u] = "check" /\ end[u] \in Ends
                         /\ Listed(u, end[u]) /\ ~Ready(end[u])
  BY <1>4 DEF ListsRight, AsleepRight, NobodyWakes, Waking, LocalTypes
<1>7. \A u \in Tasks, e \in Ends : Listed(u, e) => pc[u] = "check" /\ end[u] = e /\ u \in blocked
  BY <1>4 DEF ListsRight, NobodyWakes, Waking
<1>8. \A u \in blocked' : u \in blocked /\ u \notin Gone /\ Peer(end[u]) \notin last
  <2> SUFFICES ASSUME NEW u \in blocked', u \in blocked, u \notin Gone, Peer(end[u]) \in last
               PROVE  FALSE
    BY <1>1
  <2>1. end[u] \in Ends /\ Listed(u, end[u]) /\ Peer(Peer(end[u])) = end[u]
    BY <1>5, <1>6
  <2> QED BY <1>3, <2>1
<1>9. \A e \in Ends : Peer(e) \notin last =>
         waiting'[e] = waiting[e] /\ closed'[Peer(e)] = closed[Peer(e)]
  <2>1. closed \in [Ends -> BOOLEAN]
    BY DEF RefTypes
  <2> QED BY <1>1, <1>5, <2>1
<1>10. ListsRight'
  <2>1. ASSUME NEW u \in blocked' PROVE u \in Tasks /\ pc'[u] = "check" /\ Listed(u, end[u])'
    <3>1. end[u] \in Ends /\ Listed(u, end[u]) /\ waiting'[end[u]] = waiting[end[u]]
      BY <1>6, <1>8, <1>9
    <3>2. Listed(u, end[u])'
      BY <1>1, <3>1 DEF Listed
    <3> QED BY <1>1, <1>6, <1>8, <3>2
  <2>2. ASSUME NEW u \in Tasks, NEW e \in Ends, Listed(u, e)'
        PROVE  pc'[u] = "check" /\ end'[u] = e /\ u \in blocked'
    <3>1. Peer(e) \notin last
      BY <1>1, <2>2 DEF Listed
    <3>2. Listed(u, e)
      BY <1>9, <2>2, <3>1 DEF Listed
    <3>3. pc[u] = "check" /\ end[u] = e /\ u \in blocked
      BY <1>7, <3>2
    <3>4. ASSUME u \in Gone PROVE FALSE
      <4>1. PICK g \in last : Listed(u, Peer(g))
        BY <1>3, <3>4
      <4>2. Peer(g) = e /\ Peer(Peer(g)) = g
        BY <1>2, <1>5, <1>7, <3>3, <4>1
      <4> QED BY <3>1, <4>2
    <3> QED BY <1>1, <3>3, <3>4
  <2>3. \A e \in Ends : \A i, j \in DOMAIN waiting'[e] : waiting'[e][i] = waiting'[e][j] => i = j
    <3>1. \A e \in Ends : waiting'[e] = <<>> \/ waiting'[e] = waiting[e]
      BY <1>1
    <3> QED BY <3>1 DEF ListsRight
  <2> QED BY <2>1, <2>2, <2>3 DEF ListsRight
<1>11. AsleepRight'
  <2>1. ASSUME NEW u \in blocked' PROVE ~Ready(end[u])'
    <3>1. ~Ready(end[u]) /\ end[u] \in Ends /\ closed'[Peer(end[u])] = closed[Peer(end[u])]
      BY <1>6, <1>8, <1>9
    <3> QED BY <1>1, <3>1 DEF Ready, Peer, Ends
  <2>2. \A u \in Tasks : pc'[u] \notin {"wake", "clear"}
    BY <1>1, <1>4 DEF NobodyWakes
  <2> QED BY <2>1, <2>2 DEF AsleepRight
<1> QED BY <1>10, <1>11

\* A step of t between places where nobody is woken, which leaves alone what the
\* sleepers wait for.
LEMMA QuietSleepers ==
    ASSUME Narrow, LocalTypes, ListsRight, AsleepRight, NEW t \in Tasks, NEW p, At(t, p),
           p \notin {"wake", "clear"}, pc'[t] \notin {"wake", "clear"},
           UNCHANGED <<waiting, blocked, count, closed>>,
           \A u \in Tasks \ {t} : pc'[u] = pc[u] /\ end'[u] = end[u]
    PROVE  ListsRight' /\ AsleepRight'
<1>1. NobodyWakes /\ \A e \in Ends : ~Listed(t, e)
  BY StepperUnlisted
<1>2. NobodyWakes'
  BY <1>1 DEF NobodyWakes
<1>3. \A u \in Tasks : (\E e \in Ends : Listed(u, e)) => pc'[u] = pc[u] /\ end'[u] = end[u]
  BY <1>1
<1> QED BY <1>1, <1>2, <1>3, SleepersFrame

\* Every step keeps the lists of waiters and the sleepers right.
LEMMA SleepersStep ==
    ASSUME PipeAssumption, Narrow, Cardinality(Tasks) <= PIPE_MAX_WAITERS,
           CountInv, ListsRight, AsleepRight, Next
    PROVE  ListsRight' /\ AsleepRight'
<1> DEFINE Good == ListsRight' /\ AsleepRight'
<1>0. RefTypes /\ LocalTypes /\ WaitTypes /\ HoldsItsEnd /\ RingRight
  BY TypeParts DEF CountInv
<1>1. ASSUME NEW t \in Tasks, NEW e \in Ends, NEW n \in 1..MaxLen, Call(t, e, n) PROVE Good
  <2>1. /\ At(t, "user") /\ pc'[t] = "check"
        /\ UNCHANGED <<waiting, blocked, count, closed>>
        /\ \A u \in Tasks \ {t} : pc'[u] = pc[u] /\ end'[u] = end[u]
    BY <1>0, <1>1 DEF Call, Goto, ring, LocalTypes
  <2> QED BY <1>0, <2>1, QuietSleepers
<1>2. ASSUME NEW t \in Tasks, WriteBroken(t) PROVE Good
  <2>1. /\ At(t, "user") /\ pc'[t] = "user"
        /\ UNCHANGED <<waiting, blocked, count, closed>>
        /\ \A u \in Tasks \ {t} : pc'[u] = pc[u] /\ end'[u] = end[u]
    BY <1>0, <1>2 DEF WriteBroken, Return, Goto, ring, LocalTypes
  <2> QED BY <1>0, <2>1, QuietSleepers
<1>3. ASSUME NEW t \in Tasks, Die(t) PROVE Good
  <2>1. /\ At(t, "user") /\ pc'[t] = "dead"
        /\ UNCHANGED <<waiting, blocked, count, closed>>
        /\ \A u \in Tasks \ {t} : pc'[u] = pc[u] /\ end'[u] = end[u]
    BY <1>0, <1>3 DEF Die, Goto, ring, LocalTypes
  <2> QED BY <1>0, <2>1, QuietSleepers
<1>4. ASSUME NEW t \in Tasks, NEW e \in Ends, Close(t, e) PROVE Good
  <2>1. /\ At(t, "user") /\ pc'[t] = "unref"
        /\ UNCHANGED <<waiting, blocked, count, closed>>
        /\ \A u \in Tasks \ {t} : pc'[u] = pc[u] /\ end'[u] = end[u]
    BY <1>0, <1>4 DEF Close, Goto, ring, LocalTypes
  <2> QED BY <1>0, <2>1, QuietSleepers
<1>5. ASSUME NEW t \in Tasks, NEW u \in Tasks, NEW S \in SUBSET Ends, Procreate(t, u, S)
      PROVE  Good
  <2>1. /\ At(t, "user") /\ pc[u] = "new" /\ pc' = [pc EXCEPT ![u] = "user"] /\ end' = end
        /\ UNCHANGED <<waiting, blocked, count, closed>>
    BY <1>5 DEF Procreate, Goto, ring
  <2>2. NobodyWakes
    BY <2>1, StepperUnlisted
  <2>3. NobodyWakes'
    BY <1>0, <2>1, <2>2 DEF NobodyWakes, LocalTypes
  <2>4. \A v \in Tasks : (\E e \in Ends : Listed(v, e)) => pc'[v] = pc[v] /\ end'[v] = end[v]
    BY <1>0, <2>1 DEF ListsRight, LocalTypes
  <2> QED BY <1>0, <2>1, <2>2, <2>3, <2>4, SleepersFrame
<1>6. ASSUME NEW t \in Tasks, NEW u \in Tasks, Reap(t, u) PROVE Good
  BY <1>0, <1>6, ReapSleepers
<1>7. ASSUME NEW t \in Tasks, CheckReady(t) PROVE Good
  <2>1. /\ At(t, "check") /\ pc'[t] = "begin"
        /\ UNCHANGED <<waiting, blocked, count, closed>>
        /\ \A u \in Tasks \ {t} : pc'[u] = pc[u] /\ end'[u] = end[u]
    BY <1>0, <1>7 DEF CheckReady, Goto, ring, LocalTypes
  <2> QED BY <1>0, <2>1, QuietSleepers
<1>8. ASSUME NEW t \in Tasks, CheckBlock(t) PROVE Good
  BY <1>0, <1>8, BlockSleepers
<1>9. ASSUME NEW t \in Tasks, BeginNothing(t) PROVE Good
  <2>1. /\ At(t, "begin") /\ pc'[t] = "user"
        /\ UNCHANGED <<waiting, blocked, count, closed>>
        /\ \A u \in Tasks \ {t} : pc'[u] = pc[u] /\ end'[u] = end[u]
    BY <1>0, <1>9 DEF BeginNothing, Return, Goto, ring, LocalTypes
  <2> QED BY <1>0, <2>1, QuietSleepers
<1>10. ASSUME NEW t \in Tasks, CopyOut(t) PROVE Good
  <2>1. /\ At(t, "begin") /\ pc'[t] = "load"
        /\ UNCHANGED <<waiting, blocked, count, closed>>
        /\ \A u \in Tasks \ {t} : pc'[u] = pc[u] /\ end'[u] = end[u]
    BY <1>0, <1>10 DEF CopyOut, Goto, LocalTypes
  <2> QED BY <1>0, <2>1, QuietSleepers
<1>11. ASSUME NEW t \in Tasks, CopyIn(t) PROVE Good
  <2>1. /\ At(t, "begin") /\ pc'[t] = "load"
        /\ UNCHANGED <<waiting, blocked, count, closed>>
        /\ \A u \in Tasks \ {t} : pc'[u] = pc[u] /\ end'[u] = end[u]
    BY <1>0, <1>11 DEF CopyIn, Goto, LocalTypes
  <2> QED BY <1>0, <2>1, QuietSleepers
<1>12. ASSUME NEW t \in Tasks, LoadCount(t) PROVE Good
  <2>1. /\ At(t, "load") /\ pc'[t] = "store"
        /\ UNCHANGED <<waiting, blocked, count, closed>>
        /\ \A u \in Tasks \ {t} : pc'[u] = pc[u] /\ end'[u] = end[u]
    BY <1>0, <1>12 DEF LoadCount, Goto, ring, LocalTypes
  <2> QED BY <1>0, <2>1, QuietSleepers
<1>13. ASSUME NEW t \in Tasks, StoreCount(t) PROVE Good
  <2>1. /\ At(t, "store") /\ pc[t] = "store"
        /\ pc' = [pc EXCEPT ![t] = "wake"] /\ end' = end /\ tmp'[t] = 0
        /\ UNCHANGED <<waiting, blocked, closed>>
    BY <1>0, <1>13 DEF StoreCount, At, Goto, LocalTypes
  <2>2. NobodyWakes /\ \A e \in Ends : ~Listed(t, e)
    BY <2>1, StepperUnlisted
  <2>3. Ready(end[t])
    BY <1>0, <2>1 DEF RingRight, ReadyRight
  <2>4. \A u \in blocked : ~Ready(end[u])
    BY <2>2 DEF AsleepRight, NobodyWakes, Waking
  <2>5. \A u \in blocked : end[u] # end[t]
    BY <2>3, <2>4
  <2> QED BY <1>0, <2>1, <2>2, <2>5, BeginsToWake
<1>14. ASSUME NEW t \in Tasks, Wake(t) PROVE Good
  BY <1>0, <1>14, WakeSleepers
<1>15. ASSUME NEW t \in Tasks, Clear(t) PROVE Good
  BY <1>0, <1>15, ClearSleepers
<1>16. ASSUME NEW t \in Tasks, Unref(t) PROVE Good
  <2>1. /\ At(t, "unref") /\ pc'[t] \in {"user", "shut"}
        /\ UNCHANGED <<waiting, blocked, count, closed>>
        /\ \A u \in Tasks \ {t} : pc'[u] = pc[u] /\ end'[u] = end[u]
    BY <1>0, <1>16 DEF Unref, Goto, ring, LocalTypes
  <2> QED BY <1>0, <2>1, QuietSleepers
<1>17. ASSUME NEW t \in Tasks, Shut(t) PROVE Good
  <2>1. /\ At(t, "shut") /\ pc[t] = "shut"
        /\ pc' = [pc EXCEPT ![t] = "wake"] /\ end' = end /\ tmp' = tmp
        /\ closed' = [closed EXCEPT ![end[t]] = TRUE]
        /\ UNCHANGED <<waiting, blocked, count>>
    BY <1>17 DEF Shut, At, Goto, ring
  <2>2. NobodyWakes /\ \A e \in Ends : ~Listed(t, e)
    BY <2>1, StepperUnlisted
  <2>3. tmp'[t] = 0
    BY <1>0, <2>1 DEF HoldsItsEnd
  <2>4. \A u \in blocked : ~Ready(end[u])
    BY <2>2 DEF AsleepRight, NobodyWakes, Waking
  <2>5. ASSUME NEW u \in blocked, end[u] = end[t] PROVE ~Ready(end[u])'
    <3>1. end[t] \in Ends /\ ~Ready(end[t])
      BY <1>0, <2>4, <2>5 DEF LocalTypes
    <3>2. ASSUME NEW e \in Ends, e = end[t] PROVE ~Ready(e)'
      BY <1>0, <2>1, <3>1, <3>2 DEF Ready, RefTypes, Ends
    <3> QED BY <2>1, <2>5, <3>1, <3>2
  <2> QED BY <1>0, <2>1, <2>2, <2>3, <2>5, BeginsToWake
<1>18. ASSUME NEW t \in Tasks, Drop(t) PROVE Good
  <2>1. /\ At(t, "drop") /\ pc'[t] = "user"
        /\ UNCHANGED <<waiting, blocked, count, closed>>
        /\ \A u \in Tasks \ {t} : pc'[u] = pc[u] /\ end'[u] = end[u]
    BY <1>0, <1>18 DEF Drop, Goto, ring, LocalTypes
  <2> QED BY <1>0, <2>1, QuietSleepers
<1> HIDE DEF Good
<1> QED
  BY <1>1, <1>2, <1>3, <1>4, <1>5, <1>6, <1>7, <1>8, <1>9, <1>10, <1>11, <1>12, <1>13,
     <1>14, <1>15, <1>16, <1>17, <1>18
  DEF Next, Read, Write, Continue, Ends, Good

\* Nobody sleeps through a wake-up, as long as every task fits into a list of
\* waiters: while nobody is inside an operation, a blocked task has nothing to do.
THEOREM NobodyStranded ==
    ASSUME Narrow, Cardinality(Tasks) <= PIPE_MAX_WAITERS
    PROVE  Spec => []NoneStranded
<1> USE PipeAssumption, Narrow DEF PipeAssumption
<1>1. Init => WakeInv
  <2> SUFFICES ASSUME Init PROVE WakeInv
    OBVIOUS
  <2>1. /\ blocked = {} /\ \A e \in Ends : DOMAIN waiting[e] = {}
        /\ \A t \in Tasks : pc[t] \in {"user", "new"}
    BY DEF Init
  <2>2. ListsRight /\ AsleepRight
    BY <2>1 DEF ListsRight, AsleepRight, Listed
  <2> QED BY <2>2, CountInvInit DEF WakeInv
<1>2. WakeInv /\ [Next]_vars => WakeInv'
  <2> SUFFICES ASSUME WakeInv, [Next]_vars PROVE WakeInv'
    OBVIOUS
  <2>1. CountInv'
    BY CountInvStep DEF WakeInv
  <2>2. CASE Next
    BY <2>1, <2>2, SleepersStep DEF WakeInv
  <2>3. CASE UNCHANGED vars
    <3>1. /\ ListsRight' <=> ListsRight
          /\ AsleepRight' <=> AsleepRight
      BY <2>3 DEF vars, ring, locals, ListsRight, AsleepRight, Listed, Waking, Ready
    <3> QED BY <2>1, <3>1 DEF WakeInv
  <2> QED BY <2>2, <2>3
<1>3. WakeInv => NoneStranded
  BY DEF WakeInv, AsleepRight, NoneStranded, Quiet, Inner, Waking
<1> QED BY <1>1, <1>2, <1>3, PTL DEF Spec
=============================================================================
