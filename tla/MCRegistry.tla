----------------------------- MODULE MCRegistry -----------------------------
(***************************************************************************)
(* Small instances of Registry: a native tree with one directory and one   *)
(* device, a volume with one file, and the paths that lead through both.   *)
(***************************************************************************)
EXTENDS Registry, TLC

abs(names) == [abs |-> TRUE, names |-> names]
rel(names) == [abs |-> FALSE, names |-> names]

(* Inode 2 is the root of the volume and holds the file 3 under the name x. *)
MCVolume ==
    [n \in Inums |->
       CASE n = 2 -> [used |-> TRUE, type |-> "dir", up |-> 2,
                      names |-> [nm \in Names |-> IF nm = "x" THEN 3 ELSE 0]]
         [] n = 3 -> [used |-> TRUE, type |-> "file", up |-> 0, names |-> [nm \in Names |-> 0]]
         [] OTHER -> [used |-> FALSE, type |-> "none", up |-> 0, names |-> [nm \in Names |-> 0]]]

MCNames == {"d", "x", "z"}

(* One task in the native tree, and its device is the name z. *)
Native == [paths |-> 1 :> {abs(<<"d">>), abs(<<"d", "z">>), rel(<<"z">>), rel(<<"..">>)} @@ 2 :> {},
           mountPaths |-> {}, taken |-> 0]

(* With a mount over /d or over the root: the first task names things from the
   root or from where it stands, the one it starts only holds what it was given. *)
Mounted == [paths |-> 1 :> {abs(<<"d", "x">>), abs(<<"d", "d">>), rel(<<"x">>)} @@ 2 :> {},
            mountPaths |-> {<<>>, <<"d">>}, taken |-> 1]

Both == {Native, Mounted}
JustMounted == {Mounted}
=============================================================================
