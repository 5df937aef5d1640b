------------------------------- MODULE MCTask -------------------------------
(***************************************************************************)
(* Task with a heap of a few task_t.                                       *)
(***************************************************************************)
EXTENDS Task
=============================================================================
