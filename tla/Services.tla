------------------------------- MODULE Services -------------------------------
(***************************************************************************)
(* Memory, from the frames up, and the shell on top of it: the address     *)
(* spaces of the tasks, the kernel's heap, the heap in a program's own     *)
(* space, and the shell with the programs that it starts.  They share only *)
(* frames, which Space counts for its part and Kheap for its own, and a    *)
(* behaviour exercises one of them.                                        *)
(***************************************************************************)
EXTENDS Space, Kheap, Malloc, Pur

VARIABLE part         \* the one that this behaviour exercises

vars == <<part, spaceVars, kheapVars, mallocVars, purVars>>

Init ==
    /\ part \in {"address spaces", "kernel heap", "program heap", "shell"}
    /\ SpaceInit /\ KheapInit /\ MallocInit /\ PurInit
    /\ part = "address spaces" \/ mbi = CHOOSE m \in Maps : Bootable(m)

Next ==
    \/ part = "address spaces" /\ SpaceNext /\ UNCHANGED <<part, kheapVars, mallocVars, purVars>>
    \/ part = "kernel heap" /\ KheapNext /\ UNCHANGED <<part, spaceVars, mallocVars, purVars>>
    \/ part = "program heap" /\ MallocNext /\ UNCHANGED <<part, spaceVars, kheapVars, purVars>>
    \/ part = "shell" /\ PurNext /\ UNCHANGED <<part, spaceVars, kheapVars, mallocVars>>

Spec == Init /\ [][Next]_vars /\ PurFairness

\* The shell alone.
ShellSpec == Init /\ part = "shell" /\ [][Next]_vars /\ PurFairness
=============================================================================
