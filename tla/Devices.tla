------------------------------- MODULE Devices -------------------------------
(***************************************************************************)
(* The drivers beside each other: the keyboard, the kernel's log, the      *)
(* serial ports, the clock, and the drives.                                *)
(*                                                                         *)
(* They share nothing but the CPU, so what a task can see of one does not  *)
(* depend on what is done to another: a behaviour exercises one of them,   *)
(* which its initial state chooses, and all of its interleavings.          *)
(***************************************************************************)
EXTENDS Keyboard, Kmsg, Serial, Clock, Drives

VARIABLE part         \* what this behaviour exercises

vars == <<part, kbdVars, kmsgVars, serialVars, clockVars, driveVars>>

Parts == {"keyboard", "kmsg", "serial", "clock", "drives"}

\* The machines differ in their clock and their drives, which only these two parts
\* look at.
ChoosesMachine ==
    /\ part # "clock" => /\ chip.mode = CHOOSE m \in Modes : TRUE
                         /\ wall = CHOOSE t \in Starts0 : TRUE
    /\ part # "drives" => MachineIs(CHOOSE m \in Machines : TRUE)

Init ==
    /\ part \in Parts
    /\ KbdInit /\ KmsgInit /\ SerialInit /\ ClockInit /\ DrivesInit
    /\ ChoosesMachine

Next ==
    \/ part = "keyboard" /\ KbdNext /\ UNCHANGED <<part, kmsgVars, serialVars, clockVars, driveVars>>
    \/ part = "kmsg" /\ KmsgNext /\ UNCHANGED <<part, kbdVars, serialVars, clockVars, driveVars>>
    \/ part = "serial" /\ SerialNext /\ UNCHANGED <<part, kbdVars, kmsgVars, clockVars, driveVars>>
    \/ part = "clock" /\ ClockNext /\ UNCHANGED <<part, kbdVars, kmsgVars, serialVars, driveVars>>
    \/ part = "drives" /\ DrivesNext /\ UNCHANGED <<part, kbdVars, kmsgVars, serialVars, clockVars>>

\* Nothing that these name is enabled in a part that is not exercised.
Fairness == KbdFairness /\ SerialFairness /\ DrivesFairness

Spec == Init /\ [][Next]_vars /\ Fairness
=============================================================================
