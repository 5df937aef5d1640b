----------------------------- MODULE FileStore -----------------------------
(***************************************************************************)
(* What a file system promises its callers, whatever it keeps on its disk: *)
(* a tree of names and files of bytes.  A call that succeeds does what it  *)
(* says; one that fails changes nothing; what is read is what is there.    *)
(* After a power failure only reading goes on, from whatever was saved.    *)
(***************************************************************************)
EXTENDS Integers, Sequences

CONSTANTS Ids, Root, FileNames, Bytes, Lengths, Failures

VARIABLES
    store,            \* what each id stands for: nothing, names or data
    reply,            \* the last call with its answer
    up                \* FALSE after a power failure

vars == <<store, reply, up>>

Nothing == [kind |-> "none"]
File(data) == [kind |-> "file", data |-> data]
Dir(names) == [kind |-> "dir", names |-> names]

IsFile(n) == store[n].kind = "file"
IsDir(n) == store[n].kind = "dir"
Taken(d) == DOMAIN store[d].names
EmptyNames == [x \in {} |-> 0]

With(names, x, n) == [y \in DOMAIN names \union {x} |-> IF y = x THEN n ELSE names[y]]
Without(names, x) == [y \in DOMAIN names \ {x} |-> names[y]]

\* Ids that have no name left stand for nothing.
Swept(s) ==
    [n \in Ids |-> IF n = Root \/ \E d \in Ids : s[d].kind = "dir" /\ \E x \in DOMAIN s[d].names : s[d].names[x] = n
                   THEN s[n] ELSE Nothing]

\* The call a step makes is in its reply.
Succeeds == reply'.ret = "ok"

Create(d, x, kind) ==
    /\ Succeeds
    /\ IsDir(d) /\ x \notin Taken(d)
    /\ \E n \in {m \in Ids : store[m] = Nothing} :
          store' = [store EXCEPT ![d].names = With(@, x, n),
                                 ![n] = IF kind = "dir" THEN Dir(EmptyNames) ELSE File(<<>>)]

Link(n, d, x) ==
    /\ Succeeds
    /\ IsFile(n) /\ IsDir(d) /\ x \notin Taken(d)
    /\ store' = [store EXCEPT ![d].names = With(@, x, n)]

Removable(n) == store[n].kind = "dir" => DOMAIN store[n].names = {}

Unlink(d, x) ==
    /\ Succeeds
    /\ IsDir(d) /\ x \in Taken(d) /\ Removable(store[d].names[x])
    /\ store' = Swept([store EXCEPT ![d].names = Without(@, x)])

\* A name that is renamed to itself is not even looked for.
Rename(d, x, e, y) ==
    LET n == store[d].names[x]
        replaced == store[e].names[y]
        cleared == [store EXCEPT ![e].names = Without(@, y)]
        gone == [cleared EXCEPT ![d].names = Without(@, x)]
    IN  /\ Succeeds
        /\ IsDir(d) /\ IsDir(e)
        /\ IF d = e /\ x = y THEN store' = store
           ELSE IF y \in Taken(e) /\ x \in Taken(d) /\ replaced = n THEN store' = store
           ELSE /\ x \in Taken(d)
                /\ y \in Taken(e) => Removable(replaced) /\ store[replaced].kind = store[n].kind
                /\ store' = Swept([gone EXCEPT ![e].names = With(@, y, n)])

Write(n, at, len, v) ==
    LET old == store[n].data
        end == IF at + len > Len(old) THEN at + len ELSE Len(old)
    IN  /\ Succeeds
        /\ IsFile(n)
        /\ store' = [store EXCEPT ![n].data = [i \in 1..end |->
               IF i > at /\ i <= at + len THEN v ELSE IF i <= Len(old) THEN old[i] ELSE 0]]

Resize(n, len) ==
    LET old == store[n].data
    IN  /\ Succeeds
        /\ IsFile(n)
        /\ store' = [store EXCEPT ![n].data = [i \in 1..len |-> IF i <= Len(old) THEN old[i] ELSE 0]]

Read(n, at, len) ==
    LET end == IF at + len > Len(store[n].data) THEN Len(store[n].data) ELSE at + len
    IN  /\ IsFile(n)
        /\ reply'.ret = SubSeq(store[n].data, at + 1, end)
        /\ UNCHANGED store

\* A listing names what is there, and at the end nothing.
Readdir(d) ==
    /\ IsDir(d)
    /\ reply'.ret \in Taken(d) \union {".", "..", "end"}
    /\ UNCHANGED store

Lookup(d, x) ==
    /\ IsDir(d) /\ x \in Taken(d)
    /\ reply'.ret = store[store[d].names[x]].kind
    /\ UNCHANGED store

\* Why a call may fail, where the answer says so.
Fails ==
    /\ \E op \in {"create", "link", "unlink", "rename", "write", "resize", "read", "readdir", "lookup"} :
       \E ret \in Failures : /\ reply'.op = op /\ reply'.ret = ret
                             /\ op = "create" /\ ret = "exists" => reply'.args[2] \in Taken(reply'.args[1])
                             /\ op = "lookup" => ret = "notfound" /\ reply'.args[2] \notin Taken(reply'.args[1])
                             /\ op = "unlink" /\ ret = "notfound" => reply'.args[2] \notin Taken(reply'.args[1])
    /\ UNCHANGED store

\* Mounting and unmounting change nothing.
Idle == reply' = [op |-> "none", args |-> <<>>, ret |-> "ok"] /\ UNCHANGED store

\* The step is of the call that its reply names, with the arguments it names.
Arg(i) == reply'.args[i]

Changes ==
    \/ reply'.op = "create" /\ Arg(2) \in FileNames /\ Create(Arg(1), Arg(2), Arg(3))
    \/ reply'.op = "link" /\ Arg(3) \in FileNames /\ Link(Arg(1), Arg(2), Arg(3))
    \/ reply'.op = "unlink" /\ Unlink(Arg(1), Arg(2))
    \/ reply'.op = "rename" /\ Arg(4) \in FileNames /\ Rename(Arg(1), Arg(2), Arg(3), Arg(4))
    \/ reply'.op = "write" /\ {Arg(2), Arg(3)} \subseteq Lengths /\ Arg(4) \in Bytes /\ Write(Arg(1), Arg(2), Arg(3), Arg(4))
    \/ reply'.op = "resize" /\ Arg(2) \in Lengths /\ Resize(Arg(1), Arg(2))

Looks ==
    \/ reply'.op = "read" /\ Read(Arg(1), Arg(2), Arg(3))
    \/ reply'.op = "readdir" /\ Readdir(Arg(1))
    \/ reply'.op = "lookup" /\ Lookup(Arg(1), Arg(2))

Crash == reply'.op = "none" /\ up /\ up' = FALSE

Init ==
    /\ store[Root].kind = "dir" /\ store = Swept(store)
    /\ reply = [op |-> "none", args |-> <<>>, ret |-> "ok"]
    /\ up = TRUE

Next ==
    \/ up /\ Changes /\ UNCHANGED up
    \/ Crash
    \/ (Looks \/ Fails \/ Idle) /\ UNCHANGED up

Spec == Init /\ [][Next]_vars
=============================================================================
