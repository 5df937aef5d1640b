-------------------------------- MODULE Task --------------------------------
(***************************************************************************)
(* The life of tasks in the panuti kernel: the round-robin ring of         *)
(* sched.c, the task list of task.c, and the PROCREATE, EXIT, WAIT, SLEEP  *)
(* and YIELD system calls.                                                 *)
(*                                                                         *)
(* The kernel runs on one CPU and is preemptive: SYSENTER re-enables       *)
(* interrupts, and the PIT interrupt calls sched_schedule.  Only current   *)
(* takes steps, a section between irq_save_disable and irq_restore is one  *)
(* action, and Timer may fire between any two actions.  PROCREATE is       *)
(* several actions, because only parts of it mask interrupts.              *)
(*                                                                         *)
(* A slot stands for the address of one task_t.  The circular list that    *)
(* ready_queue points into is the sequence ring: ring[1] is ready_queue    *)
(* and the next of the last element is the first.                          *)
(***************************************************************************)
EXTENDS Integers, Sequences, FiniteSets

CONSTANTS
    Slots,     \* the task_t structures the heap has room for
    Nil,       \* the null pointer
    Pint,      \* the slot of the init task
    Idle,      \* the slot of the idle task
    Creators,  \* the tasks that call PROCREATE
    Waiters,   \* the tasks that call WAIT
    Readers,   \* the tasks that block on a device or a pipe
    Codes,     \* the codes passed to EXIT
    MaxSleep,  \* bound on the argument of SLEEP
    MaxBorn    \* bound on the number of tasks ever created

FAULT_EXIT_CODE == 139
Never == -1

ASSUME SlotsAssumption ==
    /\ IsFiniteSet(Slots)
    /\ Pint \in Slots /\ Idle \in Slots /\ Pint # Idle
    /\ Nil \notin Slots
    /\ Creators \subseteq Slots \ {Idle}
    /\ Waiters \subseteq Slots \ {Idle}
    /\ Readers \subseteq Slots \ {Idle}
    /\ MaxSleep \in Nat /\ MaxBorn \in Nat

VARIABLES
    current,        \* the running task
    ring,           \* ready_queue and what its next pointers reach
    state,          \* task_t.state
    heap,           \* the slots that are allocated
    task_list,      \* head of the list of all tasks
    task_next,      \* task_t.task_next
    pid,            \* task_t.pid
    pid_waiting_on, \* task_t.pid_waiting_on
    exit_code,      \* task_t.exit_code
    wake_in,        \* wake_at - ticks, Never where wake_at = 0
    pc,             \* where in the kernel a task is
    arg,            \* the argument of the call it is in
    panicked,       \* kpanic was called
    born,           \* history: the pid of every task ever created
    gen,            \* history: which of them a slot holds
    asked,          \* history: the task that a call is about
    delivered,      \* history: exit codes handed out by WAIT
    missed,         \* history: WAITs on an existing task that found nothing
    elapsed         \* history: ticks since SLEEP was called

schedVars == <<current, ring, state, panicked>>
listVars  == <<heap, task_list, task_next, pid, pid_waiting_on, exit_code>>
callVars  == <<wake_in, pc, arg>>
history   == <<born, gen, asked, delivered, missed, elapsed>>
vars == <<schedVars, listVars, callVars, history>>

States == {"NONE", "READY", "RUNNING", "BLOCKED", "TERMINATED"}
Places == {"user", "wait", "sleep", "dev", "build", "push", "add", "ret"}
Pids == 1..(Cardinality(Slots) + 1)

-----------------------------------------------------------------------------
(* The scheduler ring (sched.c).                                           *)

InRing(t) == \E i \in DOMAIN ring : ring[i] = t

\* sched_add: the new task follows ready_queue.
Added(q, t) ==
    [j \in 1..(Len(q) + 1) |->
        CASE j = 1 /\ q # <<>> -> q[1]
          [] j = 2 \/ q = <<>> -> t
          [] OTHER             -> q[j - 1]]

\* The ring without position i: when ready_queue itself leaves, its predecessor
\* takes over.
WithoutAt(q, i) ==
    [j \in 1..(Len(q) - 1) |->
        IF i = 1 /\ j = 1 THEN q[Len(q)]
        ELSE IF i = 1 \/ j < i THEN q[j] ELSE q[j + 1]]

\* As a bug: the task is left where it is.
Removed_Nothing(q, t) == q

\* sched_remove
Removed(q, t) ==
    IF \E i \in DOMAIN q : q[i] = t
    THEN WithoutAt(q, CHOOSE i \in DOMAIN q : q[i] = t)
    ELSE q

\* The k-th task after position i of the ring, 1 <= k <= Len(q).
After(q, i, k) == IF i + k <= Len(q) THEN q[i + k] ELSE q[i + k - Len(q)]

\* As a bug: the search ends before it has come back to the task that runs.
Lookups_NotSelf == 1..(Len(ring) - 1)

\* The places behind the running task where sched_schedule looks, in order: all
\* the others and then, last, the running task itself.
Lookups == 1..Len(ring)

\* sched_schedule, entered with the states st: the first READY task found there
\* becomes RUNNING.
Schedule(st) ==
    LET st1 == [st EXCEPT ![current] = IF @ = "RUNNING" THEN "READY" ELSE @]
        i   == CHOOSE i \in DOMAIN ring : ring[i] = current
        K   == {k \in Lookups : st1[After(ring, i, k)] = "READY"}
    IN  /\ UNCHANGED ring
        /\ \/ \E k \in K :
                /\ \A j \in K : k <= j
                /\ current' = After(ring, i, k)
                /\ state' = [st1 EXCEPT ![After(ring, i, k)] = "RUNNING"]
                /\ UNCHANGED panicked
           \/ /\ K = {}
              /\ panicked' = TRUE
              /\ state' = st1
              /\ UNCHANGED current

-----------------------------------------------------------------------------
(* The task list (task.c).                                                 *)

\* The k-th task a walk of the list meets.
ListAt ==
    LET w[k \in 0..Cardinality(Slots)] ==
            IF k = 0 THEN task_list
            ELSE IF w[k - 1] = Nil THEN Nil ELSE task_next[w[k - 1]]
    IN  w

\* The tasks on the list.
Listed == LET w == ListAt IN {w[k] : k \in DOMAIN w} \ {Nil}
OnList(t) == t \in Listed

\* t is the first task on the list that belongs to S.
IsFirst(t, S) ==
    LET w == ListAt
    IN  \E k \in DOMAIN w :
            /\ w[k] = t /\ t \in S
            /\ \A j \in DOMAIN w : j < k => w[j] \notin S

\* As a bug: the predecessor keeps its pointer.
Unlinked_Dangling(t) == [u \in Slots |-> IF u = t THEN Nil ELSE task_next[u]]

\* task_list_unlink
Unlinked(t) ==
    LET before == {u \in Listed : task_next[u] = t}
    IN  [u \in Slots |-> IF u = t THEN Nil
                         ELSE IF u \in before THEN task_next[t]
                         ELSE task_next[u]]

UnlinkedHead(t) == IF task_list = t THEN task_next[t] ELSE task_list

\* task_has_waiter: the pids that some task on the list has published.
Awaited == {pid_waiting_on[t] : t \in {u \in Listed : state[u] # "NONE"}}

\* As a bug: a task need not have ended.
Recyclable_Alive ==
    LET a == Awaited IN {t \in Slots : state[t] # "NONE" /\ pid[t] \notin a}

\* Tasks that task_alloc_task may tear down and use again.
Recyclable ==
    LET a == Awaited IN {t \in Slots : state[t] = "TERMINATED" /\ pid[t] \notin a}

\* As a bug: the pid of a blocked task counts as free.
IsFreePid_BlockedFree(p, lst) ==
    LET taken == {pid[t] : t \in {u \in lst : state[u] \notin {"NONE", "BLOCKED"}}}
    IN  /\ p \notin taken
        /\ \A q \in 1..(p - 1) : q \in taken

\* task_alloc_pid: the least number no task on the list (lst) uses.
IsFreePid(p, lst) ==
    LET taken == {pid[t] : t \in {u \in lst : state[u] # "NONE"}}
    IN  /\ p \notin taken
        /\ \A q \in 1..(p - 1) : q \in taken

\* As a bug: any task that has ended will do.
WithPid_AnyEnded(p) ==
    {t \in Slots : state[t] # "NONE" /\ (pid[t] = p \/ state[t] = "TERMINATED")}

\* task_wait_pid: the tasks that answer to pid p.
WithPid(p) == {t \in Slots : pid[t] = p /\ state[t] # "NONE"}

\* task_wake_waiters
WokenWaiters(p) ==
    {t \in Listed : state[t] = "BLOCKED" /\ pid_waiting_on[t] = p}

\* task_wake_sleepers, after the tick.
Due == {t \in Listed : state[t] = "BLOCKED" /\ wake_in[t] \in {0, 1}}

-----------------------------------------------------------------------------
(* kernel_main has created the init task, then the idle task, and          *)
(* sched_init has switched to ready_queue.                                 *)
Init ==
    /\ current = Pint
    /\ ring = <<Pint, Idle>>
    /\ state = [t \in Slots |-> CASE t = Pint -> "RUNNING"
                                  [] t = Idle -> "READY"
                                  [] OTHER    -> "NONE"]
    /\ heap = {Pint, Idle}
    /\ task_list = Idle
    /\ task_next = [t \in Slots |-> IF t = Idle THEN Pint ELSE Nil]
    /\ pid = [t \in Slots |-> CASE t = Pint -> 1 [] t = Idle -> 2 [] OTHER -> 0]
    /\ pid_waiting_on = [t \in Slots |-> 0]
    /\ exit_code = [t \in Slots |-> 0]
    /\ wake_in = [t \in Slots |-> Never]
    /\ pc = [t \in Slots |-> "user"]
    /\ arg = [t \in Slots |-> 0]
    /\ panicked = FALSE
    /\ born = <<1, 2>>
    /\ gen = [t \in Slots |-> CASE t = Pint -> 1 [] t = Idle -> 2 [] OTHER -> 0]
    /\ asked = [t \in Slots |-> 0]
    /\ delivered = <<>>
    /\ missed = {}
    /\ elapsed = [t \in Slots |-> 0]

\* The running task is at place p of a system call.
At(t, p) == ~panicked /\ current = t /\ t # Idle /\ pc[t] = p

-----------------------------------------------------------------------------
(* Interrupts.                                                             *)

\* pit_handler: one tick passes, sleepers whose time has come are woken, and
\* the next task runs.
Timer ==
    /\ ~panicked
    /\ wake_in' = [t \in Slots |-> IF wake_in[t] = Never \/ t \in Due THEN Never
                                   ELSE IF wake_in[t] > 0 THEN wake_in[t] - 1
                                   ELSE 0]
    /\ elapsed' = [t \in Slots |-> IF pc[t] = "sleep" /\ elapsed[t] <= MaxSleep
                                   THEN elapsed[t] + 1 ELSE elapsed[t]]
    /\ Schedule([t \in Slots |-> IF t \in Due THEN "READY" ELSE state[t]])
    /\ UNCHANGED <<listVars, pc, arg, born, gen, asked, delivered, missed>>

\* task_wake of a task that waits for a device or a pipe, from an interrupt
\* handler or from the task that runs.
DevWake(t) ==
    /\ ~panicked
    /\ pc[t] = "dev" /\ state[t] = "BLOCKED"
    /\ state' = [state EXCEPT ![t] = "READY"]
    /\ UNCHANGED <<current, ring, panicked, listVars, callVars, history>>

-----------------------------------------------------------------------------
(* WAIT.                                                                   *)

\* The task that has pid p for a walk of the list, as history.
Holder(p) ==
    LET holders == {gen[u] : u \in {v \in Slots : IsFirst(v, WithPid(p))}}
    IN  IF holders = {} THEN 0 ELSE CHOOSE g \in holders : TRUE

\* syshandler_wait up to its loop.
Wait(t, p) ==
    /\ At(t, "user") /\ t \in Waiters /\ p # pid[t]
    /\ pc' = [pc EXCEPT ![t] = "wait"]
    /\ arg' = [arg EXCEPT ![t] = p]
    /\ asked' = [asked EXCEPT ![t] = Holder(p)]
    /\ UNCHANGED <<schedVars, listVars, wake_in, born, gen, delivered, missed, elapsed>>

\* A turn of the loop in which task_wait_pid finds nobody.
WaitNotFound(t) ==
    /\ At(t, "wait")
    /\ WithPid(arg[t]) \cap Listed = {}
    /\ pid_waiting_on' = [pid_waiting_on EXCEPT ![t] = 0]
    /\ pc' = [pc EXCEPT ![t] = "user"]
    /\ missed' = missed \union ({asked[t]} \ {0})
    /\ UNCHANGED <<schedVars, heap, task_list, task_next, pid, exit_code,
                   wake_in, arg, born, gen, asked, delivered, elapsed>>

\* A turn in which it finds a TERMINATED task, takes its code and frees it.
WaitReap(t, u) ==
    /\ At(t, "wait")
    /\ IsFirst(u, WithPid(arg[t]))
    /\ state[u] = "TERMINATED"
    /\ ring' = Removed(ring, u)
    /\ state' = [state EXCEPT ![u] = "NONE"]
    /\ heap' = heap \ {u}
    /\ task_next' = Unlinked(u)
    /\ task_list' = UnlinkedHead(u)
    /\ pid_waiting_on' = [pid_waiting_on EXCEPT ![t] = 0]
    /\ pc' = [pc EXCEPT ![t] = "user"]
    /\ delivered' = Append(delivered, [asked |-> asked[t], got |-> gen[u]])
    /\ UNCHANGED <<current, panicked, pid, exit_code, wake_in, arg,
                   born, gen, asked, missed, elapsed>>

\* As a bug: the waiter blocks without publishing what it waits for.
WaitBlock_Unpublished(t, u) ==
    /\ At(t, "wait")
    /\ IsFirst(u, WithPid(arg[t]))
    /\ state[u] # "TERMINATED"
    /\ Schedule([state EXCEPT ![t] = "BLOCKED"])
    /\ UNCHANGED <<listVars, callVars, history>>

\* A turn in which it finds a task that has not ended, and blocks.
WaitBlock(t, u) ==
    /\ At(t, "wait")
    /\ IsFirst(u, WithPid(arg[t]))
    /\ state[u] # "TERMINATED"
    /\ pid_waiting_on' = [pid_waiting_on EXCEPT ![t] = arg[t]]
    /\ Schedule([state EXCEPT ![t] = "BLOCKED"])
    /\ UNCHANGED <<heap, task_list, task_next, pid, exit_code, callVars, history>>

-----------------------------------------------------------------------------
(* EXIT, YIELD, SLEEP and blocking on a device or a pipe.                  *)

\* The states after t has ended and task_wake_waiters has run.
Ended(t) ==
    [u \in Slots |-> IF u = t THEN "TERMINATED"
                     ELSE IF u \in WokenWaiters(pid[t]) THEN "READY" ELSE state[u]]

\* As a bug: the pid is stored where the code belongs.
Exit_StoresPid(t, c) ==
    /\ At(t, "user")
    /\ exit_code' = [exit_code EXCEPT ![t] = pid[t]]
    /\ Schedule(Ended(t))
    /\ UNCHANGED <<heap, task_list, task_next, pid, pid_waiting_on, callVars, history>>

\* syshandler_exit with code c, or page_fault_handler.
Exit(t, c) ==
    /\ At(t, "user")
    /\ exit_code' = [exit_code EXCEPT ![t] = c]
    /\ pid_waiting_on' = [u \in Slots |-> IF u \in WokenWaiters(pid[t]) THEN 0
                                          ELSE pid_waiting_on[u]]
    /\ Schedule(Ended(t))
    /\ UNCHANGED <<heap, task_list, task_next, pid, callVars, history>>

\* syshandler_yield, and ksleep(0)
Yield(t) ==
    /\ At(t, "user")
    /\ Schedule(state)
    /\ UNCHANGED <<listVars, callVars, history>>

\* As a bug: the tick in progress counts as a whole one.
Sleep_Short(t, cs) ==
    /\ At(t, "user")
    /\ wake_in' = [wake_in EXCEPT ![t] = cs]
    /\ pc' = [pc EXCEPT ![t] = "sleep"]
    /\ arg' = [arg EXCEPT ![t] = cs]
    /\ elapsed' = [elapsed EXCEPT ![t] = 0]
    /\ Schedule([state EXCEPT ![t] = "BLOCKED"])
    /\ UNCHANGED <<listVars, born, gen, asked, delivered, missed>>

\* ksleep(cs), cs > 0
Sleep(t, cs) ==
    /\ At(t, "user")
    /\ wake_in' = [wake_in EXCEPT ![t] = cs + 1]
    /\ pc' = [pc EXCEPT ![t] = "sleep"]
    /\ arg' = [arg EXCEPT ![t] = cs]
    /\ elapsed' = [elapsed EXCEPT ![t] = 0]
    /\ Schedule([state EXCEPT ![t] = "BLOCKED"])
    /\ UNCHANGED <<listVars, born, gen, asked, delivered, missed>>

SleepReturn(t) ==
    /\ At(t, "sleep")
    /\ pc' = [pc EXCEPT ![t] = "user"]
    /\ UNCHANGED <<schedVars, listVars, wake_in, arg, history>>

\* task_block by a read or write that has to wait; it may block again when woken.
DevBlock(t) ==
    /\ At(t, "user") \/ At(t, "dev")
    /\ t \in Readers
    /\ pc' = [pc EXCEPT ![t] = "dev"]
    /\ Schedule([state EXCEPT ![t] = "BLOCKED"])
    /\ UNCHANGED <<listVars, wake_in, arg, history>>

DevReturn(t) ==
    /\ At(t, "dev")
    /\ pc' = [pc EXCEPT ![t] = "user"]
    /\ UNCHANGED <<schedVars, listVars, wake_in, arg, history>>

-----------------------------------------------------------------------------
(* PROCREATE.                                                              *)

Building == {t \in Slots : pc[t] \in {"build", "push"}}

\* task_alloc_common up to irq_restore, with the slot u: its former user is
\* gone from the ring q, and the list that task_alloc_pid walks is lst.
Allocated(t, u, q, lst) ==
    /\ \E p \in Pids : /\ IsFreePid(p, lst)
                       /\ pid' = [pid EXCEPT ![u] = p]
    /\ ring' = q
    /\ state' = [state EXCEPT ![u] = "READY"]
    /\ wake_in' = [wake_in EXCEPT ![u] = Never]
    /\ pc' = [pc EXCEPT ![t] = "build", ![u] = "user"]
    /\ arg' = [arg EXCEPT ![t] = u]
    /\ gen' = [gen EXCEPT ![u] = 0]
    /\ UNCHANGED <<current, panicked, born, asked, delivered, missed, elapsed>>

MayCreate(t) ==
    /\ At(t, "user") /\ t \in Creators
    /\ Len(born) + Cardinality(Building) < MaxBorn

\* task_alloc_task takes the first TERMINATED task nobody has published a wait for.
AllocRecycled(t, u) ==
    /\ MayCreate(t)
    /\ IsFirst(u, Recyclable)
    /\ task_next' = Unlinked(u)
    /\ task_list' = UnlinkedHead(u)
    /\ Allocated(t, u, Removed(ring, u), Listed \ {u})
    /\ UNCHANGED <<heap, pid_waiting_on, exit_code>>

\* task_alloc_task gets zeroed memory from kmalloc.
AllocFresh(t, u) ==
    /\ MayCreate(t)
    /\ Recyclable \cap Listed = {}
    /\ u \notin heap
    /\ heap' = heap \union {u}
    /\ task_next' = [task_next EXCEPT ![u] = Nil]
    /\ pid_waiting_on' = [pid_waiting_on EXCEPT ![u] = 0]
    /\ exit_code' = [exit_code EXCEPT ![u] = 0]
    /\ Allocated(t, u, ring, Listed)
    /\ UNCHANGED task_list

\* Any failure after that: task_alloc_common's own, which leaves the state of
\* the freed slot alone, or procreate_cleanup.
BuildFail(t) ==
    /\ At(t, "build")
    /\ \E s \in {"READY", "NONE"} : state' = [state EXCEPT ![arg[t]] = s]
    /\ task_next' = Unlinked(arg[t])
    /\ task_list' = UnlinkedHead(arg[t])
    /\ heap' = heap \ {arg[t]}
    /\ pc' = [pc EXCEPT ![t] = "user"]
    /\ UNCHANGED <<current, ring, panicked, pid, pid_waiting_on, exit_code,
                   wake_in, arg, history>>

\* task_list_push reads the head of the list ...
PushLoad(t) ==
    /\ At(t, "build")
    /\ task_next' = [task_next EXCEPT ![arg[t]] = task_list]
    /\ pc' = [pc EXCEPT ![t] = "push"]
    /\ UNCHANGED <<schedVars, heap, task_list, pid, pid_waiting_on, exit_code,
                   wake_in, arg, history>>

\* ... and, interrupts never masked, stores it.
PushStore(t) ==
    /\ At(t, "push")
    /\ task_list' = arg[t]
    /\ pc' = [pc EXCEPT ![t] = "add"]
    /\ born' = Append(born, pid[arg[t]])
    /\ gen' = [gen EXCEPT ![arg[t]] = Len(born) + 1]
    /\ asked' = [asked EXCEPT ![t] = Len(born) + 1]
    /\ UNCHANGED <<schedVars, heap, task_next, pid, pid_waiting_on, exit_code,
                   wake_in, arg, delivered, missed, elapsed>>

\* sched_add: from here on the child runs.
SchedAdd(t) ==
    /\ At(t, "add")
    /\ ring' = Added(ring, arg[t])
    /\ pc' = [pc EXCEPT ![t] = "ret"]
    /\ UNCHANGED <<current, state, panicked, listVars, wake_in, arg, history>>

\* return t->pid
ProcreateReturn(t) ==
    /\ At(t, "ret")
    /\ pc' = [pc EXCEPT ![t] = "user"]
    /\ UNCHANGED <<schedVars, listVars, wake_in, arg, history>>

-----------------------------------------------------------------------------
\* What a task does on its own once it is inside a system call.
Continue(t) ==
    \/ WaitNotFound(t)
    \/ \E u \in Slots : WaitReap(t, u) \/ WaitBlock(t, u)
    \/ SleepReturn(t)
    \/ PushLoad(t) \/ PushStore(t) \/ SchedAdd(t) \/ ProcreateReturn(t)

Call(t) ==
    \/ \E p \in Pids : Wait(t, p)
    \/ \E c \in Codes \union {FAULT_EXIT_CODE} : Exit(t, c)
    \/ Yield(t)
    \/ \E cs \in 1..MaxSleep : Sleep(t, cs)
    \/ \E u \in Slots : AllocRecycled(t, u) \/ AllocFresh(t, u)

Next ==
    \/ Timer
    \/ \E t \in Slots : \/ DevWake(t) \/ DevBlock(t) \/ DevReturn(t)
                        \/ BuildFail(t)
                        \/ Call(t) \/ Continue(t)

Spec == Init /\ [][Next]_vars

\* The PIT never stops and interrupts are never masked for long; a tick is long
\* against the instructions that separate two steps of a system call.
Fairness ==
    /\ WF_vars(Timer)
    /\ \A t \in Slots : SF_vars(Continue(t))

FairSpec == Spec /\ Fairness

-----------------------------------------------------------------------------
(* Properties.                                                             *)

\* The type of every variable.
TypeOK ==
    /\ current \in Slots
    /\ ring \in Seq(Slots)
    /\ state \in [Slots -> States]
    /\ heap \subseteq Slots
    /\ task_list \in Slots \union {Nil}
    /\ task_next \in [Slots -> Slots \union {Nil}]
    /\ pid \in [Slots -> Nat]
    /\ pid_waiting_on \in [Slots -> Nat]
    /\ exit_code \in [Slots -> Codes \union {0, FAULT_EXIT_CODE}]
    /\ wake_in \in [Slots -> Int]
    /\ pc \in [Slots -> Places]
    /\ arg \in [Slots -> Slots \union Nat]
    /\ panicked \in BOOLEAN
    /\ born \in Seq(Nat)
    /\ gen \in [Slots -> Nat] /\ asked \in [Slots -> Nat]
    /\ elapsed \in [Slots -> Nat]

\* Whatever tasks do, and wherever the timer interrupts them, sched_schedule
\* never finds that nothing is runnable: "no runnable tasks" cannot happen.
NeverPanics == ~panicked

\* The CPU executes on the kernel stack of a task that is allocated, linked into
\* the ring and RUNNING, and no other task is RUNNING: nobody reaps or recycles
\* a task that is still on its own stack (the hazard that syshandler_exit's
\* comment names).
RunsOnLiveStack ==
    /\ state[current] = "RUNNING" /\ current \in heap /\ InRing(current)
    /\ \A t \in Slots \ {current} : state[t] # "RUNNING"

\* The ring that the next pointers form visits a task once, and only allocated
\* tasks whose address space has not been torn down.
RingOfLiveTasks ==
    /\ \A i, j \in DOMAIN ring : ring[i] = ring[j] => i = j
    /\ \A t \in Slots : InRing(t) => t \in heap /\ state[t] # "NONE"

\* No two creators ever build in the same task_t, and nothing else can reach it.
BuildsAreExclusive ==
    \A t \in Slots : pc[t] \in {"build", "push", "add"} =>
        /\ arg[t] \in heap /\ ~InRing(arg[t])
        /\ \A u \in Slots \ {t} :
              pc[u] \in {"build", "push", "add"} => arg[u] # arg[t]

\* Exit codes: "exactly one receives the exit code"; the code a WAIT returns is
\* that of the task which had the pid when WAIT was called; and a WAIT that was
\* called while the task existed answers NOTFOUND only when another WAIT has
\* reaped the task.
DeliveredOnce ==
    \A i, j \in DOMAIN delivered : delivered[i].got = delivered[j].got => i = j
DeliversAsked == \A i \in DOMAIN delivered : delivered[i].got = delivered[i].asked
NotFoundOnlyIfReaped ==
    \A g \in missed : \E i \in DOMAIN delivered : delivered[i].got = g
ExitCodes == DeliveredOnce /\ DeliversAsked /\ NotFoundOnlyIfReaped

\* Every task the scheduler runs can be found by a walk of task_list, the walk
\* meets no freed task, and no two tasks in the scheduler's ring have the same pid:
\* WAIT, task_wake_waiters and task_wake_sleepers all depend on it.
ListCoversRing ==
    /\ \A t \in Slots : InRing(t) => OnList(t)
    /\ Listed \subseteq heap
LivePidsDistinct ==
    \A t, u \in Slots : InRing(t) /\ InRing(u) /\ pid[t] = pid[u] => t = u
TasksAreFound == ListCoversRing /\ LivePidsDistinct

\* A sleeper is not made runnable before cs whole ticks have passed: the tick in
\* progress when SLEEP is called does not count.
SleepsFullPeriod ==
    \A t \in Slots :
        pc[t] = "sleep" /\ state[t] # "BLOCKED" => elapsed[t] > arg[t]

\* The exit code of a task that has ended can still be collected, unless it has
\* been.  It does not hold (task.c:89): a parent that creates a second child before
\* it waits for the first recycles the first one's structure.
ExitCodeKept ==
    \A g \in DOMAIN born :
        \/ \E t \in Slots : gen[t] = g /\ OnList(t) /\ state[t] # "NONE"
        \/ \E i \in DOMAIN delivered : delivered[i].got = g

\* Round robin starves nobody: a READY task in the ring runs.  A WAIT for a task
\* that has ended comes back: the wake-up that EXIT sends is not lost between the
\* check and the block.  A sleeper comes back from SLEEP.
ReadyRuns == \A t \in Slots : (InRing(t) /\ state[t] = "READY") ~> (state[t] = "RUNNING")
WaitReturns ==
    \A t \in Waiters :
        (/\ pc[t] = "wait"
         /\ \E u \in WithPid(arg[t]) : state[u] = "TERMINATED")
        ~> pc[t] = "user"
SleeperReturns == \A t \in Slots : pc[t] = "sleep" ~> pc[t] = "user"
TasksGoOn == ReadyRuns /\ WaitReturns /\ SleeperReturns

=============================================================================
