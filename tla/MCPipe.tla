------------------------------- MODULE MCPipe -------------------------------
(***************************************************************************)
(* Pipe with a few tasks and a buffer of two bytes.                        *)
(***************************************************************************)
EXTENDS Pipe, TLC

\* The tasks other than the creator are interchangeable.
Symmetry == Permutations(Tasks \ {Creator})
=============================================================================
