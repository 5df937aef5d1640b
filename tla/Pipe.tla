-------------------------------- MODULE Pipe --------------------------------
(***************************************************************************)
(* An anonymous pipe (pipe.c): READ and WRITE on a ring buffer, blocking   *)
(* on empty and full, the reference counts of the two ends, CLOSE, and the *)
(* release of a dead task's ends by the task that reaps it.                *)
(*                                                                         *)
(* Only the emptiness and fullness tests mask interrupts.  Everything else *)
(* can be preempted, and then another task runs.  Windows names the places *)
(* where the timer is allowed to strike: with all of them the module is    *)
(* the code; with none it is the code in executions where no tick falls    *)
(* into these few instructions.                                            *)
(*                                                                         *)
(* The n-th byte that enters the pipe is the number n.                     *)
(***************************************************************************)
EXTENDS Integers, Sequences, FiniteSets

CONSTANTS
    Tasks,            \* the tasks that may hold an end
    Creator,          \* the one that called PIPE_CREATE
    Capacity,         \* PIPE_BUFFER_SIZE
    PIPE_MAX_WAITERS,
    Windows,          \* the places where a task may be preempted
    SizeMod,          \* stands for 2^32, the range of size_t
    MaxLen,           \* bound on the length of a READ or WRITE
    MaxBytes          \* bound on the bytes that enter the pipe

Inner == {"begin", "load", "store", "wake", "clear", "unref", "shut", "drop"}

ASSUME PipeAssumption ==
    /\ IsFiniteSet(Tasks) /\ Creator \in Tasks
    /\ Capacity \in Nat \ {0} /\ PIPE_MAX_WAITERS \in Nat
    /\ MaxLen \in Nat /\ MaxBytes \in Nat
    /\ SizeMod \in Nat /\ SizeMod > 2 * Capacity
    /\ Windows \subseteq Inner

Ends == {"r", "w"}
Peer(e) == IF e = "r" THEN "w" ELSE "r"

VARIABLES
    buffer, head, tail, count,  \* the ring
    closed,     \* read_end_closed, write_end_closed
    waiting,    \* readers_waiting, writers_waiting
    refcount,   \* pipe_end_t.refcount
    prefs,      \* pipe_t.refcount
    freed,      \* the pipe_t has been given to kfree
    blocked,    \* the tasks that are TASK_BLOCKED
    holds,      \* the ends in a task's handle table or streams
    pc, end,    \* where a task is in which end's operation
    len, tmp,   \* its local variables
    result,     \* history: what its last READ or WRITE returned
    sent,       \* history: how many bytes entered the pipe
    received    \* history: the bytes that came out, in order

ring   == <<buffer, head, tail, count>>
ends   == <<refcount, prefs, freed, holds>>
locals == <<pc, end, len, tmp>>
logs   == <<result, sent, received>>
vars   == <<ring, closed, waiting, ends, blocked, locals, logs>>

Elems(s) == {s[i] : i \in DOMAIN s}
Least(m, n) == IF m < n THEN m ELSE n

\* pipe_create_pair
Init ==
    /\ buffer = [i \in 0..(Capacity - 1) |-> 0]
    /\ head = 0 /\ tail = 0 /\ count = 0
    /\ closed = [e \in Ends |-> FALSE]
    /\ waiting = [e \in Ends |-> <<>>]
    /\ refcount = [e \in Ends |-> 1]
    /\ prefs = 2 /\ freed = FALSE
    /\ blocked = {}
    /\ holds = [t \in Tasks |-> IF t = Creator THEN Ends ELSE {}]
    /\ pc = [t \in Tasks |-> IF t = Creator THEN "user" ELSE "new"]
    /\ end = [t \in Tasks |-> "r"]
    /\ len = [t \in Tasks |-> 0] /\ tmp = [t \in Tasks |-> 0]
    /\ result = [t \in Tasks |-> "none"]
    /\ sent = 0 /\ received = <<>>

\* t can execute its next step from place p: it is not blocked, and no other
\* task is inside a stretch of code that no tick interrupts.
At(t, p) ==
    /\ pc[t] = p /\ t \notin blocked
    /\ \A u \in Tasks \ {t} : pc[u] \in Inner => pc[u] \in Windows

Goto(t, p) == pc' = [pc EXCEPT ![t] = p]
\* The call returns r, and its locals are dead.
Return(t, r) ==
    /\ Goto(t, "user")
    /\ result' = [result EXCEPT ![t] = r]
    /\ len' = [len EXCEPT ![t] = 0]
    /\ tmp' = [tmp EXCEPT ![t] = 0]

-----------------------------------------------------------------------------
(* READ and WRITE.                                                         *)

\* Entry into the loop of pipe_read or pipe_write.
Call(t, e, n) ==
    /\ At(t, "user") /\ e \in holds[t]
    /\ end' = [end EXCEPT ![t] = e]
    /\ len' = [len EXCEPT ![t] = n]
    /\ result' = [result EXCEPT ![t] = "none"]
    /\ Goto(t, "check")
    /\ UNCHANGED <<ring, closed, waiting, ends, blocked, tmp, sent, received>>

Read(t, n) == Call(t, "r", n)

Write(t, n) == ~closed["r"] /\ sent + n <= MaxBytes /\ Call(t, "w", n)

\* pipe_write looks at read_end_closed before its loop.
WriteBroken(t) ==
    /\ At(t, "user") /\ "w" \in holds[t] /\ closed["r"]
    /\ Return(t, "broken")
    /\ UNCHANGED <<ring, closed, waiting, ends, blocked, end, sent, received>>

\* There is something to do: data or end of file for a reader, space or a
\* missing reader for a writer.
Ready(e) ==
    IF e = "r" THEN count > 0 \/ closed["w"] ELSE count < Capacity \/ closed["r"]

\* A turn of the loop, interrupts masked, that ends it ...
CheckReady(t) ==
    /\ At(t, "check") /\ Ready(end[t])
    /\ Goto(t, "begin")
    /\ UNCHANGED <<ring, closed, waiting, ends, blocked, end, len, tmp, logs>>

\* ... or registers the task, if there is room for it, and blocks it.
CheckBlock(t) ==
    /\ At(t, "check") /\ ~Ready(end[t])
    /\ waiting' = IF Len(waiting[end[t]]) < PIPE_MAX_WAITERS
                  THEN [waiting EXCEPT ![end[t]] = Append(@, t)] ELSE waiting
    /\ blocked' = blocked \union {t}
    /\ UNCHANGED <<ring, closed, ends, locals, logs>>

\* After the loop, interrupts on: end of file, or a broken pipe.
BeginNothing(t) ==
    /\ At(t, "begin")
    /\ count = IF end[t] = "r" THEN 0 ELSE Capacity
    /\ Return(t, IF end[t] = "r" THEN "eof" ELSE "broken")
    /\ UNCHANGED <<ring, closed, waiting, ends, blocked, end, sent, received>>

\* pipe_read_raw up to its last statement: copy what fits and advance head.
CopyOut(t) ==
    /\ At(t, "begin") /\ end[t] = "r" /\ count # 0
    /\ LET n == Least(len[t], count)
       IN  /\ len' = [len EXCEPT ![t] = n]
           /\ received' = received \o [i \in 1..n |-> buffer[(head + i - 1) % Capacity]]
           /\ head' = (head + n) % Capacity
    /\ Goto(t, "load")
    /\ UNCHANGED <<buffer, tail, count, closed, waiting, ends, blocked, end, tmp,
                   result, sent>>

\* As a bug: the length is not cut down to the free space.
CopyIn_Unclamped(t) ==
    /\ At(t, "begin") /\ end[t] = "w" /\ count # Capacity
    /\ buffer' = [i \in 0..(Capacity - 1) |->
                     IF \E k \in 1..len[t] : i = (tail + k - 1) % Capacity
                     THEN sent + (CHOOSE k \in 1..len[t] :
                                     /\ i = (tail + k - 1) % Capacity
                                     /\ k > len[t] - Capacity)
                     ELSE buffer[i]]
    /\ tail' = (tail + len[t]) % Capacity
    /\ sent' = sent + len[t]
    /\ Goto(t, "load")
    /\ UNCHANGED <<head, count, closed, waiting, ends, blocked, end, len, tmp,
                   result, received>>

\* pipe_write_raw up to its last statement; free_space is unsigned.
CopyIn(t) ==
    /\ At(t, "begin") /\ end[t] = "w" /\ count # Capacity
    /\ LET n == Least(len[t], (Capacity - count) % SizeMod)
       IN  /\ len' = [len EXCEPT ![t] = n]
           /\ buffer' = [i \in 0..(Capacity - 1) |->
                            IF \E k \in 1..n : i = (tail + k - 1) % Capacity
                            THEN sent + (CHOOSE k \in 1..n :
                                            /\ i = (tail + k - 1) % Capacity
                                            /\ k > n - Capacity)
                            ELSE buffer[i]]
           /\ tail' = (tail + n) % Capacity
           /\ sent' = sent + n
    /\ Goto(t, "load")
    /\ UNCHANGED <<head, count, closed, waiting, ends, blocked, end, tmp,
                   result, received>>

\* p->count -= len and p->count += len are a load and a store.
LoadCount(t) ==
    /\ At(t, "load")
    /\ tmp' = [tmp EXCEPT ![t] = count]
    /\ Goto(t, "store")
    /\ UNCHANGED <<ring, closed, waiting, ends, blocked, end, len, logs>>

\* As a bug: a read gives back one byte, whatever it took.
StoreCount_One(t) ==
    /\ At(t, "store")
    /\ count' = (IF end[t] = "r" THEN tmp[t] - 1 ELSE tmp[t] + len[t]) % SizeMod
    /\ tmp' = [tmp EXCEPT ![t] = 0]
    /\ Goto(t, "wake")
    /\ UNCHANGED <<buffer, head, tail, closed, waiting, ends, blocked, end, len, logs>>

StoreCount(t) ==
    /\ At(t, "store")
    /\ count' = (IF end[t] = "r" THEN tmp[t] - len[t] ELSE tmp[t] + len[t]) % SizeMod
    /\ tmp' = [tmp EXCEPT ![t] = 0]
    /\ Goto(t, "wake")
    /\ UNCHANGED <<buffer, head, tail, closed, waiting, ends, blocked, end, len, logs>>

-----------------------------------------------------------------------------
(* pipe_wake_all on the peer end's list; tmp is the loop variable.         *)

\* As a bug: the tasks woken are those of the caller's own side.
Wake_OwnSide(t) ==
    /\ At(t, "wake")
    /\ IF tmp[t] < Len(waiting[end[t]])
       THEN /\ blocked' = blocked \ {waiting[end[t]][tmp[t] + 1]}
            /\ tmp' = [tmp EXCEPT ![t] = @ + 1]
            /\ UNCHANGED pc
       ELSE Goto(t, "clear") /\ UNCHANGED <<blocked, tmp>>
    /\ UNCHANGED <<ring, closed, waiting, ends, end, len, logs>>

Wake(t) ==
    /\ At(t, "wake")
    /\ IF tmp[t] < Len(waiting[Peer(end[t])])
       THEN /\ blocked' = blocked \ {waiting[Peer(end[t])][tmp[t] + 1]}
            /\ tmp' = [tmp EXCEPT ![t] = @ + 1]
            /\ UNCHANGED pc
       ELSE Goto(t, "clear") /\ UNCHANGED <<blocked, tmp>>
    /\ UNCHANGED <<ring, closed, waiting, ends, end, len, logs>>

\* *count = 0, and READ and WRITE return; CLOSE goes on.
Clear(t) ==
    /\ At(t, "clear")
    /\ waiting' = [waiting EXCEPT ![Peer(end[t])] = <<>>]
    /\ IF end[t] \in holds[t] THEN Return(t, "data")
       ELSE Goto(t, "drop") /\ UNCHANGED <<result, len, tmp>>
    /\ UNCHANGED <<ring, closed, ends, blocked, end, sent, received>>

-----------------------------------------------------------------------------
(* Sharing and closing ends.                                               *)

\* install_stream during PROCREATE: the child starts with the ends S of t; each
\* pipe_end_ref is one instruction.
Procreate(t, u, S) ==
    /\ At(t, "user") /\ S \subseteq holds[t] /\ pc[u] = "new"
    /\ refcount' = [e \in Ends |-> IF e \in S THEN refcount[e] + 1 ELSE refcount[e]]
    /\ holds' = [holds EXCEPT ![u] = S]
    /\ Goto(u, "user")
    /\ UNCHANGED <<ring, closed, waiting, prefs, freed, blocked, end, len, tmp, logs>>

\* pipe_end_unref loads the count ...
Close(t, e) ==
    /\ At(t, "user") /\ e \in holds[t]
    /\ end' = [end EXCEPT ![t] = e]
    /\ holds' = [holds EXCEPT ![t] = @ \ {e}]
    /\ tmp' = [tmp EXCEPT ![t] = refcount[e]]
    /\ Goto(t, "unref")
    /\ UNCHANGED <<ring, closed, waiting, refcount, prefs, freed, blocked, len, logs>>

\* ... and stores it.
Unref(t) ==
    /\ At(t, "unref")
    /\ refcount' = [refcount EXCEPT ![end[t]] = tmp[t] - 1]
    /\ tmp' = [tmp EXCEPT ![t] = 0]
    /\ Goto(t, IF tmp[t] - 1 > 0 THEN "user" ELSE "shut")
    /\ UNCHANGED <<ring, closed, waiting, prefs, freed, holds, blocked, end, len, logs>>

\* As a bug: the peers are not woken.
Shut_Silent(t) ==
    /\ At(t, "shut")
    /\ closed' = [closed EXCEPT ![end[t]] = TRUE]
    /\ Goto(t, "drop")
    /\ UNCHANGED <<ring, waiting, ends, blocked, end, len, tmp, logs>>

\* pipe_end_release: the flag first, then the wake-ups, then the memory.
Shut(t) ==
    /\ At(t, "shut")
    /\ closed' = [closed EXCEPT ![end[t]] = TRUE]
    /\ Goto(t, "wake")
    /\ UNCHANGED <<ring, waiting, ends, blocked, end, len, tmp, logs>>

Drop(t) ==
    /\ At(t, "drop")
    /\ prefs' = prefs - 1
    /\ freed' = (freed \/ prefs = 1)
    /\ tmp' = [tmp EXCEPT ![t] = 0]
    /\ Goto(t, "user")
    /\ UNCHANGED <<ring, closed, waiting, refcount, holds, blocked, end, len, logs>>

\* EXIT closes nothing.
Die(t) ==
    /\ At(t, "user") /\ t # Creator
    /\ Goto(t, "dead")
    /\ UNCHANGED <<ring, closed, waiting, ends, blocked, end, len, tmp, logs>>

\* task_teardown of the dead task u, interrupts masked by WAIT or PROCREATE,
\* releases all its ends.
Reap(t, u) ==
    /\ At(t, "user") /\ pc[u] = "dead" /\ holds[u] # {}
    /\ LET last == {e \in holds[u] : refcount[e] <= 1}
       IN  /\ refcount' = [e \in Ends |-> IF e \in holds[u] THEN refcount[e] - 1
                                          ELSE refcount[e]]
           /\ closed' = [e \in Ends |-> closed[e] \/ e \in last]
           /\ blocked' = blocked \ UNION {Elems(waiting[Peer(e)]) : e \in last}
           /\ waiting' = [e \in Ends |-> IF Peer(e) \in last THEN <<>> ELSE waiting[e]]
           /\ prefs' = prefs - Cardinality(last)
           /\ freed' = (freed \/ (last # {} /\ prefs = Cardinality(last)))
    /\ holds' = [holds EXCEPT ![u] = {}]
    /\ UNCHANGED <<ring, locals, logs>>

-----------------------------------------------------------------------------
\* What a task does on its own once it is in the kernel.
Continue(t) ==
    \/ CheckReady(t) \/ CheckBlock(t) \/ BeginNothing(t)
    \/ CopyOut(t) \/ CopyIn(t) \/ LoadCount(t) \/ StoreCount(t)
    \/ Wake(t) \/ Clear(t) \/ Unref(t) \/ Shut(t) \/ Drop(t)

Next ==
    \E t \in Tasks :
        \/ \E n \in 1..MaxLen : Read(t, n) \/ Write(t, n)
        \/ \E e \in Ends : Close(t, e)
        \/ \E u \in Tasks, S \in SUBSET Ends : Procreate(t, u, S)
        \/ \E u \in Tasks : Reap(t, u)
        \/ WriteBroken(t) \/ Die(t)
        \/ Continue(t)

Spec == Init /\ [][Next]_vars

\* A task in the kernel that is not blocked goes on: round robin runs it, and a
\* tick is long against the steps of a system call.
FairSpec == Spec /\ \A t \in Tasks : SF_vars(Continue(t))

-----------------------------------------------------------------------------
(* Properties.                                                             *)

\* The type of every variable.
TypeOK ==
    /\ buffer \in [0..(Capacity - 1) -> Nat]
    /\ head \in 0..(Capacity - 1) /\ tail \in 0..(Capacity - 1)
    /\ count \in 0..(SizeMod - 1)
    /\ closed \in [Ends -> BOOLEAN]
    /\ waiting \in [Ends -> Seq(Tasks)]
    /\ refcount \in [Ends -> Int] /\ prefs \in Int /\ freed \in BOOLEAN
    /\ blocked \subseteq Tasks
    /\ holds \in [Tasks -> SUBSET Ends]
    /\ pc \in [Tasks -> Inner \union {"user", "check", "new", "dead"}]
    /\ end \in [Tasks -> Ends] /\ len \in [Tasks -> Nat] /\ tmp \in [Tasks -> Int]
    /\ result \in [Tasks -> {"none", "data", "eof", "broken"}]
    /\ sent \in Nat /\ received \in Seq(Nat)

Transferring == {t \in Tasks : pc[t] \in {"load", "store"}}
Quiet == \A t \in Tasks : pc[t] \notin Inner

\* Nobody sleeps through a wake-up: while nobody is inside an operation, a task
\* blocked on the pipe has nothing to do.  This is what "register-then-block
\* must be atomic" is there to ensure.
NoneStranded == Quiet => \A t \in blocked : ~Ready(end[t])

\* What the pipe counts is what there is: count is the number "of bytes sitting in
\* the buffer", and tail is that far from head, whenever nobody is between moving
\* an index and updating it; an end is counted once for each task that holds it, so
\* that it is released, and signals end of file, "once all of them have let go"; and
\* the pipe_t is freed when both ends are released and not before, so that no task
\* that holds an end or is inside an operation can touch freed memory.
CountIsAccurate ==
    Transferring = {} =>
        /\ count = sent - Len(received)
        /\ tail = (head + count) % Capacity
EndsAreCounted ==
    \A e \in Ends :
        (\A t \in Tasks : pc[t] \in Inner => end[t] # e \/ e \in holds[t])
            => /\ refcount[e] = Cardinality({t \in Tasks : e \in holds[t]})
               /\ closed[e] <=> refcount[e] = 0
FreedLast ==
    /\ freed => \A t \in Tasks : holds[t] = {} /\ pc[t] \notin Inner \union {"check"}
    /\ Quiet /\ (\A t \in Tasks : holds[t] = {}) => freed
CountsAreAccurate == TypeOK /\ CountIsAccurate /\ EndsAreCounted /\ FreedLast

\* READ returns 0 only when the write end is closed and all data was read: "EOF,
\* nothing more will ever arrive".  With two readers and a tick before the second
\* test for end of file (pipe.c:80) it does not hold.
EofIsFinal ==
    [][\A t \in Tasks : result'[t] = "eof" /\ result[t] # "eof"
          => closed["w"] /\ Len(received) = sent]_vars

\* A READ comes back when data or end of file is there to stay, and a WRITE when
\* space is, or when the last reader has gone: a wake-up sent between the check and
\* the block is not lost.
Returns(e) ==
    \A t \in Tasks : (pc[t] = "check" /\ end[t] = e /\ []Ready(e)) ~> (pc[t] = "user")
CallsReturn == Returns("r") /\ Returns("w")

-----------------------------------------------------------------------------
\* The pipe as its users see it.
Bytes == INSTANCE Channel WITH
    Ends <- Ends, Open <- {e \in Ends : ~closed[e]}

\* The pipe implements a bounded first-in first-out channel.
IsChannel == Bytes!Spec
=============================================================================
