------------------------------- MODULE MCExt2 -------------------------------
(* Instances of Ext2 for TLC. *)
EXTENDS Ext2

MCNameLen == [a |-> 1, b |-> 1]

(* A volume that is new, and one with a directory and a file that reaches into its
   indirect block. *)
MCPreloaded ==
    {<<>>,
     <<[op |-> "create", dir |-> Root, name |-> "b", kind |-> "dir"],
       [op |-> "create", dir |-> Root, name |-> "a", kind |-> "file"],
       [op |-> "write", node |-> FirstInode + 1, at |-> 0, len |-> 4, byte |-> 1]>>}

(* A reliable device, and one that fails once during a CREATE. *)
MCReliable == [op \in {"create", "unlink", "rename", "link", "write", "resize"} |-> {0}]
MCFailing == [MCReliable EXCEPT !.create = 0..12]

(* One file that fills three blocks, two of them in its indirect range. *)
MCPreloadedLong ==
    {<<[op |-> "create", dir |-> Root, name |-> "a", kind |-> "file"],
       [op |-> "write", node |-> FirstInode, at |-> 0, len |-> 6, byte |-> 1]>>}
=============================================================================
