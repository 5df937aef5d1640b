------------------------------- MODULE MCLive -------------------------------
(***************************************************************************)
(* Those who wait go on: the tasks of the scheduler, and two tasks at the  *)
(* ends of a pipe.  A behaviour exercises one of them.                     *)
(***************************************************************************)
CONSTANTS Slots, Nil, Pint, Idle, Creators, Waiters, Readers, Codes, MaxSleep, MaxBorn
CONSTANTS Tasks, Creator, Capacity, PIPE_MAX_WAITERS, Windows, SizeMod, MaxLen, MaxBytes

VARIABLES current, queue, state, heap, task_list, task_next, pid, pid_waiting_on, exit_code, wake_in, pc, arg,
          panicked, born, gen, asked, delivered, missed, elapsed
VARIABLES buffer, head, tail, count, closed, waiting, refcount, prefs, freed, blocked, holds, at, end, len, tmp,
          result, sent, received
VARIABLE part         \* what this behaviour exercises

Sched == INSTANCE Task WITH ring <- queue
APipe == INSTANCE Pipe WITH pc <- at

taskVars == <<current, queue, state, heap, task_list, task_next, pid, pid_waiting_on, exit_code, wake_in, pc, arg,
              panicked, born, gen, asked, delivered, missed, elapsed>>
pipeVars == <<buffer, head, tail, count, closed, waiting, refcount, prefs, freed, blocked, holds, at, end, len, tmp,
              result, sent, received>>
bothVars == <<part, taskVars, pipeVars>>

BothInit == part \in {"scheduler", "pipe"} /\ Sched!Init /\ APipe!Init

BothNext ==
    \/ part = "scheduler" /\ Sched!Next /\ UNCHANGED <<part, pipeVars>>
    \/ part = "pipe" /\ APipe!Next /\ UNCHANGED <<part, taskVars>>

\* As in Task and in Pipe, for the part that is exercised.
BothFairness ==
    /\ WF_taskVars(part = "scheduler" /\ Sched!Timer)
    /\ \A t \in Slots : SF_taskVars(part = "scheduler" /\ Sched!Continue(t))
    /\ \A t \in Tasks : SF_pipeVars(part = "pipe" /\ APipe!Continue(t))

Spec == BothInit /\ [][BothNext]_bothVars /\ BothFairness

\* No task that is ready is starved, no WAIT on a task that has ended and no SLEEP
\* lasts for ever (sched.c:98, task.c:592-660).
TasksGoOn == part = "scheduler" => Sched!TasksGoOn

\* No READ or WRITE waits for what is there to stay (pipe.c:58-95).
CallsReturn == APipe!CallsReturn
=============================================================================
