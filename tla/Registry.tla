------------------------------ MODULE Registry ------------------------------
(***************************************************************************)
(* The name space of the kernel: the tree of registry inodes and directory *)
(* entries (registry.c), the mount table (mount.c), the handles, working   *)
(* directories and streams that hold inodes (handle.c, dir.c, task.c) and  *)
(* the system calls that use them.  The mounted file system is ext2,       *)
(* represented by what its lookup, create, unlink, link and rename do to   *)
(* the names on its disk.                                                  *)
(*                                                                         *)
(* A call resolves its paths, which caches the names it finds in a mount,  *)
(* and acts; then the references it gave up are dropped one by one.  Calls *)
(* of different tasks alternate but do not overlap: this code runs with    *)
(* interrupts on and holds nothing that it has resolved, so a call that is *)
(* preempted may go on with an inode that is gone (see the README).        *)
(***************************************************************************)
EXTENDS Integers, Sequences, FiniteSets

CONSTANTS
    NInodes,     \* REG_MAX_INODES
    NDirents,    \* REG_MAX_DIRENTS
    NMounts,     \* REG_MAX_MOUNTS
    NSlots,      \* MAX_HANDLES, the slots of a task's table
    Names,       \* names other than "." and ".."
    Home, Device, \* the names of a directory and of a device in it, at first
    Inums,       \* inode numbers of the disk
    RootIno,     \* the one of its root directory
    Volume,      \* what it holds at first
    Tasks,
    First,       \* the task that runs first
    Scopes,      \* what the callers of one behaviour name: [paths of each task, mountPaths, taken]
    Careful,     \* nobody unmounts a file system or removes a file of one that is in use
    Faults       \* memory or the device may fail in the middle of a RENAME or LINK in a mount

ASSUME SizesAssumption ==
    /\ NInodes \in Nat \ (0 .. 2) /\ NDirents \in Nat \ (0 .. 5)
    /\ NSlots \in Nat /\ NMounts \in Nat
ASSUME DiskAssumption ==
    /\ Inums \subseteq Nat \ {0} /\ RootIno \in Inums
    /\ Names \cap {"", ".", ".."} = {} /\ {Home, Device} \subseteq Names
    /\ Volume \in [Inums -> [used : BOOLEAN, type : {"none", "dir", "file"},
                             names : [Names -> Inums \cup {0}], up : Inums \cup {0}]]
    /\ \A n \in Inums : Volume[n].used => Volume[n].type # "none"
ASSUME TasksAssumption == First \in Tasks /\ 0 \notin Tasks /\ IsFiniteSet(Tasks)
ASSUME ScopesAssumption ==
    \A sc \in Scopes :
        /\ DOMAIN sc = {"paths", "mountPaths", "taken"} /\ sc.taken \in Nat
        /\ \A t \in Tasks : sc.paths[t] \subseteq [abs : BOOLEAN, names : Seq(Names \cup {".", ".."})]
        /\ sc.mountPaths \subseteq Seq(Names \cup {".", ".."})

None == 0
Root == 1
Inodes == 1 .. NInodes
Mounts == 1 .. NMounts
Slots == 1 .. NSlots
Dots == {".", ".."}

(* An entry is known by the directory and the name it was made for, and a
   number that tells it from other entries made for the same. *)
Dirents == Inodes \X (Names \cup Dots) \X (1 .. NDirents)

VARIABLES
    inode,       \* inode_t: type, refcount, deleted, mnt, and the number on the disk
    kids,        \* the list at inode_t.children, head first
    dirent,      \* the dirent_t there are: name, inode, refcount
    mounts,      \* mounts[]: mountpoint and root
    disk,        \* what the volume holds
    cwd,         \* task_t.cwd
    fds,         \* task_t.fdtable: the inode of a handle and, of a directory, its cursor
    stream,      \* the inode of a task's inherited stream
    alive,       \* the tasks there are
    due,         \* the inodes the call in progress has yet to unref
    scope        \* the paths that calls are given, and the entries that other drivers take

vars == <<inode, kids, dirent, mounts, disk, cwd, fds, stream, alive, due, scope>>
tree == <<inode, kids, dirent, due>>
held == <<cwd, fds, stream, alive>>

Least(S) == CHOOSE x \in S : \A y \in S : x <= y

(* What a list keeps of the members of S, in its order. *)
Keep(seq, S) ==
    LET kept[k \in 0 .. Len(seq)] ==
            IF k = 0 THEN <<>>
            ELSE IF seq[k] \in S THEN Append(kept[k - 1], seq[k]) ELSE kept[k - 1]
    IN  kept[Len(seq)]

NoInode == [type |-> "none", ref |-> 0, deleted |-> FALSE, mnt |-> None, inum |-> None]
NoEntry == <<None, "", 0>>
NoMount == [mountpoint |-> None, root |-> None]
NoFile == [inode |-> None, cursor |-> NoEntry]

(***************************************************************************)
(* A call computes the tree it leaves from the one it finds.  s stands for *)
(* the tree in between, with the inode a walk has come to and the inodes   *)
(* to unref.                                                               *)
(***************************************************************************)

Now == [nodes |-> inode, lists |-> kids, ents |-> dirent, due |-> <<>>, at |-> None]
Becomes(s) == inode' = s.nodes /\ kids' = s.lists /\ dirent' = s.ents /\ due' = s.due /\ UNCHANGED scope

IsDir(s, i) == s.nodes[i].type = "dir"
FreeInodes(s) == {i \in Inodes : s.nodes[i].type = "none"}
FreeDirents(s) == NDirents - scope.taken - Cardinality(DOMAIN s.ents)

(* registry_finddirent: the first entry of that name. *)
Find(s, i, nm) ==
    LET at == {k \in DOMAIN s.lists[i] : s.ents[s.lists[i][k]].name = nm}
    IN  IF at = {} THEN NoEntry ELSE s.lists[i][Least(at)]

(* The entry after d; an entry that was detached has none. *)
NextOf(i, d) ==
    LET at == {k \in DOMAIN kids[i] : kids[i][k] = d}
    IN  IF at = {} \/ Least(at) = Len(kids[i]) THEN NoEntry ELSE kids[i][Least(at) + 1]

\* As a bug: a directory counts as empty by the length of its list.
registry_dir_is_empty_ByCount(s, i) == Len(s.lists[i]) <= 3

registry_dir_is_empty(s, i) == \A k \in DOMAIN s.lists[i] : s.ents[s.lists[i][k]].name \in Dots

mount_find(i) ==
    LET at == {m \in Mounts : mounts[m].mountpoint = i}
    IN  IF at = {} THEN None ELSE Least(at)

Up(s, i) ==
    LET d == Find(s, i, "..")
    IN  IF d = NoEntry THEN i ELSE s.ents[d].inode

dir_has_ancestor(s, i, a) ==
    LET above[k \in 0 .. NInodes] == IF k = 0 THEN i ELSE Up(s, above[k - 1])
    IN  \E k \in 0 .. NInodes : above[k] = a

inode_ref(s, i) == [s EXCEPT !.nodes[i].ref = @ + 1]
inode_unref(s, i) == [s EXCEPT !.due = Append(@, i)]

(* dirent_alloc: no entry that there is has that number. *)
NewDirent(s, i, nm) == <<i, nm, Least({k \in 1 .. NDirents : <<i, nm, k>> \notin DOMAIN s.ents})>>

Added(ents, d, new) == [x \in DOMAIN ents \cup {d} |-> IF x = d THEN new ELSE ents[x]]

(* registry_linkdirent: the new entry holds its inode unless that is the
   directory itself. *)
registry_linkdirent(s, i, nm, j) ==
    LET d == NewDirent(s, i, nm)
    IN  [s EXCEPT !.ents = Added(@, d, [name |-> nm, inode |-> j, ref |-> 1]),
                  !.lists[i] = <<d>> \o @,
                  !.nodes[j].ref = IF j = i THEN @ ELSE @ + 1]

(* dirent_unref: the last reference to an entry takes one of its inode along. *)
dirent_unref(s, d) ==
    LET less == DOMAIN s.ents \ {d}
    IN  IF s.ents[d].ref > 1 THEN [s EXCEPT !.ents[d].ref = @ - 1]
        ELSE inode_unref([s EXCEPT !.ents = [x \in less |-> s.ents[x]]], s.ents[d].inode)

(* dirent_detach, and dirent_unref of what it returns. *)
Remove(s, i, d) ==
    dirent_unref([s EXCEPT !.lists[i] = Keep(@, Dirents \ {d})], d)

Holders(i) ==
    {t \in Tasks : cwd[t] = i \/ stream[t] = i \/ \E f \in Slots : fds[t][f].inode = i}

(***************************************************************************)
(* The disk.                                                               *)
(***************************************************************************)

OnDisk(n, nm) ==
    CASE nm = "."  -> n
      [] nm = ".." -> disk[n].up
      [] OTHER     -> disk[n].names[nm]

InUseOnDisk(n) == \E i \in Inodes : inode[i].inum = n /\ Holders(i) # {}
EmptyOnDisk(n) == \A nm \in Names : disk[n].names[nm] = None

(* ext2_inode_retire: the number is free again, the blocks with the names are
   gone, and the inode keeps its mode. *)
Unused == [used |-> FALSE, type |-> "none", names |-> [nm \in Names |-> None], up |-> None]
Retired(rec) == [Unused EXCEPT !.type = rec.type]

(* ext2_unlink: what has no name left is retired. *)
DiskRemoved(n, nm) ==
    LET k == disk[n].names[nm]
        gone == [disk EXCEPT ![n].names[nm] = None]
    IN  IF \E m \in Inums, x \in Names : gone[m].names[x] = k
        THEN gone ELSE [gone EXCEPT ![k] = Retired(@)]

(***************************************************************************)
(* walk.                                                                   *)
(***************************************************************************)

(* A walk that comes to a mountpoint goes on at the root of what is mounted
   there, and leaves a mark on it. *)
Enter(s, i) ==
    LET m == mount_find(i)
    IN  IF m = None THEN [s EXCEPT !.at = i]
        ELSE [s EXCEPT !.at = mounts[m].root, !.nodes[mounts[m].root].mnt = m]

(* ext2_lookup: a name that has not been looked up before gets an inode and
   an entry of its own, even if the disk's inode has one already. *)
Lookup(s, i, nm, memory) ==
    LET d == Find(s, i, nm)
        n == OnDisk(s.nodes[i].inum, nm)
        new == Least(FreeInodes(s))
        found == IF d # NoEntry THEN s.ents[d].inode ELSE new
        fresh == [NoInode EXCEPT !.type = disk[n].type, !.inum = n]
        made == registry_linkdirent([s EXCEPT !.nodes[new] = fresh], i, nm, new)
        t == IF d # NoEntry THEN s ELSE made
    IN  IF \/ d # NoEntry
           \/ /\ memory /\ n # None /\ disk[n].used
              /\ FreeInodes(s) # {} /\ FreeDirents(s) > 0
        THEN [t EXCEPT !.at = found, !.nodes[found].mnt = s.nodes[i].mnt]
        ELSE [s EXCEPT !.at = None]

(* One component of a path.  ".." of a mounted root leads to the parent of
   the mountpoint. *)
Step(s, nm, memory) ==
    LET i == s.at
        m == s.nodes[i].mnt
        d == Find(s, i, nm)
    IN  IF i = None \/ ~IsDir(s, i) THEN [s EXCEPT !.at = None]
        ELSE IF m = None
        THEN IF d = NoEntry THEN [s EXCEPT !.at = None] ELSE Enter(s, s.ents[d].inode)
        ELSE IF nm = ".." /\ mounts[m].root = i
        THEN [s EXCEPT !.at = Up(s, mounts[m].mountpoint)]
        ELSE Lookup(s, i, nm, memory)

(* The walk starts at the root or at the working directory, or where a file
   system is mounted over it. *)
walk(s, t, abs, names, memory) ==
    LET base == IF abs THEN Root ELSE cwd[t]
        start == IF s.nodes[base].mnt = None THEN Enter(s, base) ELSE [s EXCEPT !.at = base]
        w[k \in 0 .. Len(names)] == IF k = 0 THEN start ELSE Step(w[k - 1], names[k], memory)
    IN  w[Len(names)]

Resolve(s, t, p) == walk(s, t, p.abs, p.names, TRUE)

LastOf(p) == p.names[Len(p.names)]
Above(p) == SubSeq(p.names, 1, Len(p.names) - 1)

(* registry_splitpath: a lone relative name is taken in the working
   directory itself, whatever is mounted over it. *)
Split(s, t, p) ==
    IF ~p.abs /\ Len(p.names) = 1 THEN [s EXCEPT !.at = cwd[t]]
    ELSE walk(s, t, p.abs, Above(p), TRUE)

Found(s) == s.at # None
FoundDir(s) == Found(s) /\ IsDir(s, s.at)
Named(t) == {p \in scope.paths[t] : p.names # <<>>}

(* A task starts a call when the call before has dropped its references. *)
Calls(t) == t \in alive /\ due = <<>>

(***************************************************************************)
(* Handles and working directories.                                        *)
(***************************************************************************)

(* STAT, SETTMSP, NEXIST, and any other call that fails after it has
   resolved its path: what the walk cached stays. *)
Stat(t) ==
    /\ Calls(t)
    /\ \E p \in scope.paths[t], memory \in BOOLEAN : Becomes(walk(Now, t, p.abs, p.names, memory))
    /\ UNCHANGED <<mounts, disk, held>>

FreeSlots(t) == {f \in Slots : fds[t][f] = NoFile}

(* ext2_open refuses a file that was unlinked since it was looked up. *)
Openable(s, i) ==
    s.nodes[i].type = "file" =>
        disk[s.nodes[i].inum].used /\ disk[s.nodes[i].inum].type = "file"

(* OPEN: the lowest free slot; a directory's cursor stands on its first
   entry and holds it. *)
Open(t) ==
    \E p \in scope.paths[t] :
        LET s == Resolve(Now, t, p)
            i == s.at
            cur == IF IsDir(s, i) /\ s.lists[i] # <<>> THEN s.lists[i][1] ELSE NoEntry
            h == inode_ref(s, i)
        IN  /\ Calls(t) /\ Found(s) /\ FreeSlots(t) # {} /\ Openable(s, i)
            /\ fds' = [fds EXCEPT ![t][Least(FreeSlots(t))] = [inode |-> i, cursor |-> cur]]
            /\ Becomes(IF cur = NoEntry THEN h ELSE [h EXCEPT !.ents[cur].ref = @ + 1])
            /\ UNCHANGED <<mounts, disk, cwd, stream, alive>>

(* A handle lets go of the entry under its cursor, then of its inode. *)
Closed(s, h) ==
    inode_unref(IF h.cursor = NoEntry THEN s ELSE dirent_unref(s, h.cursor), h.inode)

Close(t) ==
    /\ Calls(t)
    /\ \E f \in Slots \ FreeSlots(t) :
         /\ Becomes(Closed(Now, fds[t][f]))
         /\ fds' = [fds EXCEPT ![t][f] = NoFile]
    /\ UNCHANGED <<mounts, disk, cwd, stream, alive>>

(* READDIR of a native directory: the cursor goes to the next entry. *)
Readdir(t) ==
    \E f \in Slots :
        LET h == fds[t][f]
            next == NextOf(h.inode, h.cursor)
            s == IF next = NoEntry THEN Now ELSE [Now EXCEPT !.ents[next].ref = @ + 1]
        IN  /\ Calls(t) /\ h.cursor # NoEntry /\ inode[h.inode].mnt = None
            /\ Becomes(dirent_unref(s, h.cursor))
            /\ fds' = [fds EXCEPT ![t][f].cursor = next]
            /\ UNCHANGED <<mounts, disk, cwd, stream, alive>>

\* As a bug: the new directory is not held.
Chdir_NotHeld(t) ==
    \E p \in scope.paths[t] :
        LET s == Resolve(Now, t, p)
        IN  /\ Calls(t) /\ FoundDir(s)
            /\ Becomes(inode_unref(s, cwd[t]))
            /\ cwd' = [cwd EXCEPT ![t] = s.at]
            /\ UNCHANGED <<mounts, disk, fds, stream, alive>>

(* CHDIR, task_set_cwd: the new directory is held before the old one goes. *)
Chdir(t) ==
    \E p \in scope.paths[t] :
        LET s == Resolve(Now, t, p)
        IN  /\ Calls(t) /\ FoundDir(s)
            /\ Becomes(inode_unref(inode_ref(s, s.at), cwd[t]))
            /\ cwd' = [cwd EXCEPT ![t] = s.at]
            /\ UNCHANGED <<mounts, disk, fds, stream, alive>>

(* PROCREATE: the child gets the caller's working directory and, as a
   stream, one of its handles. *)
Procreate(t) ==
    \E p \in scope.paths[t], u \in Tasks \ alive, f \in Slots \ FreeSlots(t) :
        LET s == Resolve(Now, t, p)
        IN  /\ Calls(t) /\ Found(s) /\ s.nodes[s.at].type = "file" /\ Openable(s, s.at)
            /\ Becomes(inode_ref(inode_ref(s, cwd[t]), fds[t][f].inode))
            /\ cwd' = [cwd EXCEPT ![u] = cwd[t]]
            /\ stream' = [stream EXCEPT ![u] = fds[t][f].inode]
            /\ alive' = alive \cup {u}
            /\ UNCHANGED <<mounts, disk, fds>>

(* task_teardown: the handles from the lowest slot on, the stream and the
   working directory. *)
Teardown(t) ==
    LET closed[f \in 0 .. NSlots] ==
            IF f = 0 THEN Now
            ELSE IF fds[t][f] = NoFile THEN closed[f - 1] ELSE Closed(closed[f - 1], fds[t][f])
    IN  /\ Calls(t) /\ t # First
        /\ Becomes(inode_unref(inode_unref(closed[NSlots], stream[t]), cwd[t]))
        /\ fds' = [fds EXCEPT ![t] = [f \in Slots |-> NoFile]]
        /\ stream' = [stream EXCEPT ![t] = None]
        /\ cwd' = [cwd EXCEPT ![t] = None]
        /\ alive' = alive \ {t}
        /\ UNCHANGED <<mounts, disk>>

(* inode_unref, and registry_destroy when it was the last reference: every
   entry is put, and the inode of one that is gone with it is unref'd in
   turn.  An entry for the directory itself holds no reference. *)
Destroyed(i) ==
    LET gone == Keep(kids[i], {d \in DOMAIN dirent : dirent[d].ref = 1})
        mine == {kids[i][k] : k \in DOMAIN kids[i]}
        targets == Keep([k \in DOMAIN gone |-> dirent[gone[k]].inode], Inodes \ {i})
    IN  [nodes |-> [inode EXCEPT ![i] = NoInode],
         lists |-> [kids EXCEPT ![i] = <<>>],
         ents  |-> [d \in DOMAIN dirent \ {gone[k] : k \in DOMAIN gone} |->
                      [dirent[d] EXCEPT !.ref = IF d \in mine THEN @ - 1 ELSE @]],
         due   |-> targets \o Tail(due)]

Drop ==
    /\ due # <<>>
    /\ IF inode[Head(due)].ref = 1
       THEN Becomes(Destroyed(Head(due)))
       ELSE Becomes([Now EXCEPT !.nodes[Head(due)].ref = @ - 1, !.due = Tail(due)])
    /\ UNCHANGED <<mounts, disk, held>>

(***************************************************************************)
(* MKDIR, MKFILE and UNLINK.                                               *)
(***************************************************************************)

(* MKDIR in the native tree walks the whole path again and creates its last
   component: an inode, its name, "." and "..".  When one of them cannot be
   had the others are taken back. *)
MkdirNative(t) ==
    \E p \in Named(t) :
        LET parent == Split(Now, t, p)
            s == walk(parent, t, p.abs, Above(p), TRUE)
            i == s.at
            new == Least(FreeInodes(s))
            named == registry_linkdirent([s EXCEPT !.nodes[new] = [NoInode EXCEPT !.type = "dir"]],
                                         i, LastOf(p), new)
        IN  /\ Calls(t) /\ FoundDir(parent) /\ parent.nodes[parent.at].mnt = None
            /\ ~parent.nodes[parent.at].deleted
            /\ FoundDir(s) /\ s.nodes[i].mnt = None /\ ~s.nodes[i].deleted
            /\ Find(s, i, LastOf(p)) = NoEntry
            /\ FreeInodes(s) # {} /\ FreeDirents(s) >= 3
            /\ Becomes(registry_linkdirent(registry_linkdirent(named, new, ".", new), new, "..", i))
            /\ UNCHANGED <<mounts, disk, held>>

(* ext2_create, for MKDIR and MKFILE; the name is not cached. *)
CreateMounted(t) ==
    \E p \in Named(t), type \in {"dir", "file"} :
        LET s == Split(Now, t, p)
            n == s.nodes[s.at].inum
            free == {k \in Inums : ~disk[k].used}
            up == IF type = "dir" THEN n ELSE None
        IN  /\ Calls(t) /\ FoundDir(s) /\ s.nodes[s.at].mnt # None /\ ~s.nodes[s.at].deleted
            /\ disk[n].type = "dir" /\ LastOf(p) \notin Dots
            /\ OnDisk(n, LastOf(p)) = None /\ free # {}
            /\ disk' = [disk EXCEPT
                 ![Least(free)] = [Unused EXCEPT !.used = TRUE, !.type = type, !.up = up],
                 ![n].names[LastOf(p)] = Least(free)]
            /\ Becomes(s)
            /\ UNCHANGED <<mounts, held>>

NotMountpoint(s, d) == d # NoEntry => mount_find(s.ents[d].inode) = None

(* registry_unlink refuses "." and "..", a directory that is gone itself, a
   mountpoint and a native directory that is not empty. *)
CanUnlink(s, nm) ==
    LET d == Find(s, s.at, nm)
        j == s.ents[d].inode
    IN  /\ FoundDir(s) /\ nm \notin Dots /\ ~s.nodes[s.at].deleted
        /\ NotMountpoint(s, d)
        /\ (s.nodes[s.at].mnt = None /\ d # NoEntry /\ IsDir(s, j)) => registry_dir_is_empty(s, j)

UnlinkNative(t) ==
    \E p \in Named(t) :
        LET s == Split(Now, t, p)
            d == Find(s, s.at, LastOf(p))
            j == s.ents[d].inode
        IN  /\ Calls(t) /\ CanUnlink(s, LastOf(p)) /\ s.nodes[s.at].mnt = None /\ d # NoEntry
            /\ Becomes(Remove([s EXCEPT !.nodes[j].deleted = IsDir(s, j)], s.at, d))
            /\ UNCHANGED <<mounts, disk, held>>

CanUnlinkMounted(s, nm) ==
    LET n == s.nodes[s.at].inum
        k == OnDisk(n, nm)
    IN  /\ CanUnlink(s, nm) /\ s.nodes[s.at].mnt # None
        /\ disk[n].type = "dir" /\ k # None
        /\ disk[k].type = "dir" => EmptyOnDisk(k)
        /\ Careful => ~InUseOnDisk(k)

UnlinkMounted(t) ==
    \E p \in Named(t) :
        LET s == Split(Now, t, p)
            d == Find(s, s.at, LastOf(p))
        IN  /\ Calls(t) /\ CanUnlinkMounted(s, LastOf(p)) /\ d # NoEntry
            /\ disk' = DiskRemoved(s.nodes[s.at].inum, LastOf(p))
            /\ Becomes(Remove(s, s.at, d))
            /\ UNCHANGED <<mounts, held>>

(* A name that nobody has looked up is removed from the disk as well, but
   dirent_detach does not find it and the call returns NOTFOUND. *)
UnlinkNotFound(t) ==
    \E p \in Named(t) :
        LET s == Split(Now, t, p)
        IN  /\ Calls(t) /\ CanUnlinkMounted(s, LastOf(p)) /\ Find(s, s.at, LastOf(p)) = NoEntry
            /\ disk' = DiskRemoved(s.nodes[s.at].inum, LastOf(p))
            /\ Becomes(s)
            /\ UNCHANGED <<mounts, held>>

(***************************************************************************)
(* LINK and RENAME: two paths, resolved one after the other.               *)
(***************************************************************************)

CanLink(s, j, nm) ==
    /\ FoundDir(s) /\ j # None /\ ~IsDir(s, j)
    /\ ~s.nodes[s.at].deleted /\ nm \notin Dots /\ s.nodes[s.at].mnt = s.nodes[j].mnt

LinkNative(t) ==
    \E p \in scope.paths[t], q \in Named(t) :
        LET target == Resolve(Now, t, p)
            s == Split(target, t, q)
        IN  /\ Calls(t) /\ CanLink(s, target.at, LastOf(q)) /\ s.nodes[s.at].mnt = None
            /\ Find(s, s.at, LastOf(q)) = NoEntry /\ FreeDirents(s) > 0
            /\ Becomes(registry_linkdirent(s, s.at, LastOf(q), target.at))
            /\ UNCHANGED <<mounts, disk, held>>

(* ext2_link; the new name is cached if there is memory for it. *)
LinkMounted(t) ==
    \E p \in scope.paths[t], q \in Named(t) :
        LET target == Resolve(Now, t, p)
            s == Split(target, t, q)
            n == s.nodes[s.at].inum
        IN  /\ Calls(t) /\ CanLink(s, target.at, LastOf(q)) /\ s.nodes[s.at].mnt # None
            /\ disk[n].type = "dir" /\ OnDisk(n, LastOf(q)) = None /\ Openable(s, target.at)
            /\ disk' = [disk EXCEPT ![n].names[LastOf(q)] = s.nodes[target.at].inum]
            /\ \/ Becomes(s)
               \/ FreeDirents(s) > 0 /\ Becomes(registry_linkdirent(s, s.at, LastOf(q), target.at))
            /\ UNCHANGED <<mounts, held>>

(* The two ends of a RENAME, in the tree both walks leave. *)
Ends(t, p, q) ==
    LET from == Split(Now, t, p)
        to == Split(from, t, q)
    IN  [s |-> to, od |-> from.at, nd |-> to.at, old |-> LastOf(p), new |-> LastOf(q),
         src |-> IF from.at = None \/ to.at = None THEN NoEntry ELSE Find(to, from.at, LastOf(p)),
         dst |-> IF to.at = None THEN NoEntry ELSE Find(to, to.at, LastOf(q))]

OntoItself(e) == e.od = e.nd /\ e.old = e.new
InodeOf(e, d) == e.s.ents[d].inode

(* What registry_rename asks for in the native tree and in a mount alike.  A
   name renamed to itself is left alone. *)
CanRename(e) ==
    /\ e.od # None /\ e.nd # None /\ IsDir(e.s, e.od) /\ IsDir(e.s, e.nd)
    /\ ~e.s.nodes[e.od].deleted /\ ~e.s.nodes[e.nd].deleted
    /\ e.old \notin Dots /\ e.new \notin Dots /\ ~OntoItself(e)
    /\ NotMountpoint(e.s, e.src) /\ NotMountpoint(e.s, e.dst)
    /\ e.s.nodes[e.od].mnt = e.s.nodes[e.nd].mnt

(* The native entry may move.  Two names of one inode are left alone. *)
CanMove(e) ==
    LET j == InodeOf(e, e.src)
        k == InodeOf(e, e.dst)
    IN  /\ CanRename(e) /\ e.s.nodes[e.od].mnt = None /\ e.src # NoEntry
        /\ IsDir(e.s, j) => ~dir_has_ancestor(e.s, e.nd, j)
        /\ e.dst # NoEntry =>
             /\ j # k /\ IsDir(e.s, j) = IsDir(e.s, k)
             /\ IsDir(e.s, k) => registry_dir_is_empty(e.s, k)

(* The bearer of the new name, if there is one, goes first. *)
Replaced(e) ==
    LET k == InodeOf(e, e.dst)
        native == e.s.nodes[e.nd].mnt = None
    IN  IF e.dst = NoEntry THEN e.s
        ELSE Remove([e.s EXCEPT !.nodes[k].deleted = native /\ IsDir(e.s, k)], e.nd, e.dst)

(* Then the new name is linked and the old one removed. *)
Moved(e) ==
    Remove(registry_linkdirent(Replaced(e), e.nd, e.new, InodeOf(e, e.src)), e.od, e.src)

\* As a bug: ".." stays as it was.
Reparented_KeepsDotDot(e) == Moved(e)

(* A directory that changed its parent gets a new "..". *)
Reparented(e) ==
    LET j == InodeOf(e, e.src)
        up == Find(e.s, j, "..")
    IN  IF IsDir(e.s, j) /\ e.od # e.nd /\ up # NoEntry /\ InodeOf(e, up) # e.nd
        THEN inode_unref(inode_ref([Moved(e) EXCEPT !.ents[up].inode = e.nd], e.nd),
                         InodeOf(e, up))
        ELSE Moved(e)

RenameNative(t) ==
    /\ Calls(t)
    /\ \E e \in {Ends(t, p, q) : p, q \in Named(t)} :
         /\ CanMove(e) /\ FreeDirents(Replaced(e)) > 0
         /\ Becomes(Reparented(e))
         /\ UNCHANGED <<mounts, disk, held>>

(* There is no memory for the new name when its old bearer is already gone. *)
RenameFails(t) ==
    /\ Calls(t)
    /\ \E e \in {Ends(t, p, q) : p, q \in Named(t)} :
         /\ CanMove(e) /\ e.dst # NoEntry
         /\ Becomes(Replaced(e))
         /\ UNCHANGED <<mounts, disk, held>>

(* ext2_in_subtree *)
BelowOnDisk(n, k) ==
    LET up == [m \in Inums \cup {None} |-> IF m = None THEN None ELSE disk[m].up]
        above[i \in 0 .. Cardinality(Inums)] == IF i = 0 THEN n ELSE up[above[i - 1]]
    IN  \E i \in 0 .. Cardinality(Inums) : above[i] = k

DiskFrom(e) == e.s.nodes[e.od].inum
DiskTo(e) == e.s.nodes[e.nd].inum
Source(e) == disk[DiskFrom(e)].names[e.old]
Target(e) == disk[DiskTo(e)].names[e.new]

BothOnDisk(e) ==
    /\ CanRename(e) /\ e.s.nodes[e.od].mnt # None
    /\ disk[DiskFrom(e)].type = "dir" /\ disk[DiskTo(e)].type = "dir"

(* ext2_rename does nothing if both names are the same or of the same file. *)
SameOnDisk(e) ==
    \/ DiskFrom(e) = DiskTo(e) /\ e.old = e.new
    \/ Source(e) # None /\ disk[Source(e)].used /\ Target(e) = Source(e)

CanMoveOnDisk(e) ==
    /\ ~SameOnDisk(e) /\ Source(e) # None /\ disk[Source(e)].used
    /\ (disk[Source(e)].type = "dir" /\ DiskFrom(e) # DiskTo(e))
          => ~BelowOnDisk(DiskTo(e), Source(e))
    /\ Target(e) # None =>
          /\ disk[Target(e)].used /\ disk[Target(e)].type = disk[Source(e)].type
          /\ disk[Target(e)].type = "dir" => EmptyOnDisk(Target(e))
          /\ Careful => ~InUseOnDisk(Target(e))

DiskReplaced(e) == IF Target(e) = None THEN disk ELSE DiskRemoved(DiskTo(e), e.new)
DiskMoved(e) ==
    [DiskReplaced(e) EXCEPT ![DiskTo(e)].names[e.new] = Source(e),
                            ![DiskFrom(e)].names[e.old] = None,
                            ![Source(e)].up = IF disk[Source(e)].type = "dir" THEN DiskTo(e) ELSE None]

\* As a bug: the old name stays.
Recached_OldStays(e) == Replaced(e)

(* The cached names follow: the replaced one goes, the old one is renamed or
   moves to the other directory.  A directory without a free entry for it
   loses it. *)
Recached(e) ==
    LET r == Replaced(e)
        old == Remove(r, e.od, e.src)
    IN  CASE e.src = NoEntry                   -> r
          [] e.src # NoEntry /\ e.od = e.nd    -> [r EXCEPT !.ents[e.src].name = e.new]
          [] e.src # NoEntry /\ e.od # e.nd /\ FreeDirents(r) <= 0 -> old
          [] e.src # NoEntry /\ e.od # e.nd /\ FreeDirents(r) > 0 ->
               Remove(registry_linkdirent(r, e.nd, e.new, InodeOf(e, e.src)), e.od, e.src)

(* Without memory for the name the entry keeps its old one. *)
NotRecached(e) ==
    LET r == Replaced(e)
    IN  IF e.src = NoEntry \/ e.od = e.nd THEN {r}
        ELSE {Remove(r, e.od, e.src)}
             \cup {Remove(registry_linkdirent(r, e.od, e.old, InodeOf(e, e.src)), e.od, e.src) :
                     x \in IF FreeDirents(r) > 0 THEN {0} ELSE {}}

(* What a RENAME in a mount leaves on the disk and in the cache.  When the
   device fails after the replaced name has gone, its cached entry stays. *)
Renamed(e) ==
    LET left == IF SameOnDisk(e) THEN disk ELSE DiskMoved(e)
        halfway == ~SameOnDisk(e) /\ Target(e) # None
    IN  {<<left, Recached(e)>>}
        \cup (IF Faults THEN {<<left, s>> : s \in NotRecached(e)} ELSE {})
        \cup (IF Faults /\ halfway THEN {<<DiskReplaced(e), e.s>>} ELSE {})

RenameMounted(t) ==
    /\ Calls(t)
    /\ \E e \in {Ends(t, p, q) : p, q \in Named(t)} :
         /\ BothOnDisk(e) /\ (SameOnDisk(e) \/ CanMoveOnDisk(e))
         /\ \E r \in Renamed(e) : disk' = r[1] /\ Becomes(r[2])
         /\ UNCHANGED <<mounts, held>>

(***************************************************************************)
(* MOUNT and UNMOUNT, whose paths start at the root.                       *)
(***************************************************************************)

FreeMounts == {m \in Mounts : mounts[m] = NoMount}

(* mount_attach refuses a directory that is covered, that lies in a mount or
   that has been removed. *)
Mount(t) ==
    \E p \in scope.mountPaths :
        LET s == walk(Now, t, TRUE, p, TRUE)
            i == s.at
            r == Least(FreeInodes(s))
            root == [NoInode EXCEPT !.type = "dir", !.ref = 1, !.inum = RootIno]
        IN  /\ Calls(t) /\ FoundDir(s) /\ FreeMounts # {} /\ FreeInodes(s) # {}
            /\ mount_find(i) = None /\ s.nodes[i].mnt = None /\ ~s.nodes[i].deleted
            /\ mounts' = [mounts EXCEPT ![Least(FreeMounts)] = [mountpoint |-> i, root |-> r]]
            /\ Becomes(inode_ref([s EXCEPT !.nodes[r] = root], i))
            /\ UNCHANGED <<disk, held>>

MountInUse(m) == \E i \in Inodes : inode[i].mnt = m /\ Holders(i) # {}

(* registry_unmount: the directory whose mount is to go is the root, or what
   the name stands for in its parent. *)
Covered(s, p) ==
    IF p = <<>> THEN Root
    ELSE LET d == Find(s, s.at, p[Len(p)])
         IN  IF ~FoundDir(s) \/ d = NoEntry THEN None ELSE s.ents[d].inode

Unmount(t) ==
    \E p \in scope.mountPaths :
        LET s == IF p = <<>> THEN Now ELSE walk(Now, t, TRUE, SubSeq(p, 1, Len(p) - 1), TRUE)
            i == Covered(s, p)
            m == mount_find(i)
            r == mounts[m].root
            out == [s EXCEPT !.nodes[r].mnt = None, !.nodes[r].inum = None, !.nodes[i].mnt = None]
        IN  /\ Calls(t) /\ i # None /\ IsDir(s, i) /\ m # None
            /\ Careful => ~MountInUse(m)
            /\ mounts' = [mounts EXCEPT ![m] = NoMount]
            /\ Becomes(inode_unref(inode_unref(out, r), i))
            /\ UNCHANGED <<disk, held>>

(***************************************************************************)
(* The specification.                                                      *)
(***************************************************************************)

(* registry_init and a driver's registry_add: the root, one directory in it
   and a device in that.  The first task stands in the root. *)
Init ==
    /\ inode = [i \in Inodes |->
          CASE i = Root -> [NoInode EXCEPT !.type = "dir", !.ref = 3]
            [] i = 2    -> [NoInode EXCEPT !.type = "dir", !.ref = 1]
            [] i = 3    -> [NoInode EXCEPT !.type = "device", !.ref = 1]
            [] OTHER    -> NoInode]
    /\ kids = [i \in Inodes |->
          CASE i = Root -> <<<<Root, Home, 1>>, <<Root, "..", 1>>, <<Root, ".", 1>>>>
            [] i = 2    -> <<<<2, Device, 1>>, <<2, "..", 1>>, <<2, ".", 1>>>>
            [] OTHER    -> <<>>]
    /\ dirent = [d \in {<<Root, Home, 1>>, <<Root, "..", 1>>, <<Root, ".", 1>>,
                        <<2, Device, 1>>, <<2, "..", 1>>, <<2, ".", 1>>} |->
          [name |-> d[2], ref |-> 1,
           inode |-> CASE d = <<Root, Home, 1>> \/ d = <<2, ".", 1>> -> 2
                       [] d = <<2, Device, 1>> -> 3
                       [] OTHER -> Root]]
    /\ mounts = [m \in Mounts |-> NoMount]
    /\ disk = Volume
    /\ cwd = [t \in Tasks |-> IF t = First THEN Root ELSE None]
    /\ fds = [t \in Tasks |-> [f \in Slots |-> NoFile]]
    /\ stream = [t \in Tasks |-> None]
    /\ alive = {First}
    /\ due = <<>>
    /\ scope \in Scopes

Handles(t) == Stat(t) \/ Open(t) \/ Close(t) \/ Readdir(t) \/ Chdir(t)
Life(t) == Procreate(t) \/ Teardown(t)
Change(t) ==
    \/ MkdirNative(t) \/ CreateMounted(t)
    \/ UnlinkNative(t) \/ UnlinkMounted(t) \/ UnlinkNotFound(t)
    \/ LinkNative(t) \/ LinkMounted(t)
    \/ RenameNative(t) \/ RenameFails(t) \/ RenameMounted(t)
    \/ Mount(t) \/ Unmount(t)

Next == Drop \/ \E t \in Tasks : Handles(t) \/ Life(t) \/ Change(t)

Spec == Init /\ [][Next]_vars

-----------------------------------------------------------------------------
(***************************************************************************)
(* Properties.                                                             *)
(***************************************************************************)

Times(seq, x) == Cardinality({k \in DOMAIN seq : seq[k] = x})
Members(seq) == {seq[k] : k \in DOMAIN seq}
Attached(d) == {i \in Inodes : d \in Members(kids[i])}
InodeOrNone == Inodes \cup {None}

(* Type correctness; an inode is in use exactly while its count is above 0,
   an entry while it is on a list or under a cursor. *)
TypeOK ==
    /\ inode \in [Inodes -> [type : {"none", "dir", "file", "device"}, ref : Nat,
                             deleted : BOOLEAN, mnt : Mounts \cup {None},
                             inum : Inums \cup {None}]]
    /\ \A i \in Inodes : inode[i].ref = 0 <=> inode[i] = NoInode
    /\ \A i \in Inodes : \A k \in DOMAIN kids[i] : kids[i][k] \in DOMAIN dirent
    /\ DOMAIN dirent \subseteq Dirents /\ Cardinality(DOMAIN dirent) <= NDirents
    /\ dirent \in [DOMAIN dirent -> [name : Names \cup Dots, inode : Inodes, ref : Nat \ {0}]]
    /\ mounts \in [Mounts -> [mountpoint : InodeOrNone, root : InodeOrNone]]
    /\ disk \in [Inums -> [used : BOOLEAN, type : {"none", "dir", "file"},
                           names : [Names -> Inums \cup {None}], up : Inums \cup {None}]]
    /\ cwd \in [Tasks -> InodeOrNone] /\ stream \in [Tasks -> InodeOrNone]
    /\ fds \in [Tasks -> [Slots -> [inode : InodeOrNone, cursor : DOMAIN dirent \cup {NoEntry}]]]
    /\ alive \subseteq Tasks
    /\ \A k \in DOMAIN due : due[k] \in Inodes
    /\ scope \in Scopes

(* The reference count of an inode, which inode_ref and inode_unref keep at
   some thirty places, is the number of its holders: names other than those
   of a directory for itself, working directories, handles, streams, mounts
   and references about to be dropped.  A freed inode has none. *)
InodesCounted ==
    \A i \in Inodes :
        inode[i].ref =
            Cardinality({d \in DOMAIN dirent : dirent[d].inode = i /\ i \notin Attached(d)})
          + Cardinality({t \in Tasks : cwd[t] = i}) + Cardinality({t \in Tasks : stream[t] = i})
          + Cardinality({x \in Tasks \X Slots : fds[x[1]][x[2]].inode = i})
          + Cardinality({m \in Mounts : mounts[m].mountpoint = i})
          + Cardinality({m \in Mounts : mounts[m].root = i})
          + Times(due, i)
          + (IF i = Root THEN 1 ELSE 0)

(* An entry is held by its directory and by the READDIR cursors that stand
   on it, and is never on two lists: dirent_ref, dirent_put, dirent_detach. *)
EntriesCounted ==
    \A d \in DOMAIN dirent :
        /\ Cardinality(Attached(d)) <= 1
        /\ dirent[d].ref = Cardinality(Attached(d))
             + Cardinality({x \in Tasks \X Slots : fds[x[1]][x[2]].cursor = d})

(* Every count is that of the holders there are (registry.c, handle.c). *)
RefcountsAccurate == TypeOK /\ InodesCounted /\ EntriesCounted

(* Whatever is allocated can still be reached, by name, from a holder or
   from a mount: no sequence of calls makes a cycle that keeps itself. *)
Holding ==
    {Root} \cup {i \in Inodes : Holders(i) # {}}
    \cup {mounts[m].root : m \in Mounts} \cup {mounts[m].mountpoint : m \in Mounts}
    \cup Members(due)
    \cup {dirent[fds[x[1]][x[2]].cursor].inode :
             x \in {y \in Tasks \X Slots : fds[y[1]][y[2]].cursor # NoEntry}}
Reached ==
    LET Below(S) == S \cup {dirent[d].inode : d \in UNION {Members(kids[i]) : i \in S \ {None}}}
        r[n \in 0 .. NInodes] == IF n = 0 THEN Holding ELSE Below(r[n - 1])
    IN  r[NInodes]

(* When a file system is unmounted that nobody uses, every inode that was
   made for it is freed: mount_detach drops "the mount's own references ...
   or the slots are never returned" (mount.c:107-118). *)
UnmountReturnsSlots ==
    due = <<>> =>
        \A i \in Inodes : inode[i].inum # None =>
            \E m \in Mounts : mounts[m].root = i \/ (inode[i].mnt = m /\ mounts[m] # NoMount)

(* No sequence of calls leaves an inode that nothing leads to, nor one of a
   mount that is gone (registry_destroy, mount_detach). *)
NoneLost ==
    /\ \A i \in Inodes : inode[i] # NoInode => i \in Reached
    /\ UnmountReturnsSlots

NamesOf(i) == {d \in DOMAIN dirent : dirent[d].inode = i /\ dirent[d].name \notin Dots /\ Attached(d) # {}}

(* The native directories form a tree whatever is renamed, replaced or
   removed: one that is not removed has one name, its ".." is the directory
   that holds the name, and climbing ends at the root, which is what
   dir_has_ancestor and ".." of a mounted root rely on. *)
NativeTree ==
    \A i \in Inodes \ {Root} :
        (inode[i].type = "dir" /\ inode[i].inum = None /\ ~inode[i].deleted /\ i \notin Members(due))
        => /\ \E d \in NamesOf(i) : NamesOf(i) = {d} /\ Attached(d) = {Up(Now, i)}
           /\ dir_has_ancestor(Now, i, Root)

(* A removed directory, which handles and working directories may still
   hold, never gets an entry, a name or a mount again. *)
RemovedForGood ==
    \A i \in Inodes : inode[i].deleted =>
        registry_dir_is_empty(Now, i) /\ NamesOf(i) = {} /\ mount_find(i) = None

(* Only "." stands for the directory that it is in, and ".." of the root: other
   names hold a reference, which their removal drops, but one for the directory
   itself would hold none (registry.c:102, 128). *)
NoneInItself ==
    \A i \in Inodes : \A d \in Members(kids[i]) :
        dirent[d].inode = i => dirent[d].name = "." \/ (dirent[d].name = ".." /\ i = Root)

(* The directories are a tree, and what is removed stays removed
   (registry_rename, registry_unlink, mount_attach). *)
TreeIsATree == NativeTree /\ RemovedForGood /\ NoneInItself

(* Names below an inode of a volume stand for inodes of a volume, and what is
   marked as lying in a mount is one. *)
VolumeClosed ==
    /\ \A i \in Inodes : inode[i].mnt # None => inode[i].inum # None
    /\ \A i \in Inodes : \A d \in Members(kids[i]) : inode[i].inum # None => inode[dirent[d].inode].inum # None

(* "cache the new name so the in-memory tree agrees with the disk"
   (registry_link): a name that is cached in a directory of a mount is there
   on the disk and stands for the same file. *)
NamesAgree ==
    \A i \in Inodes : \A d \in Members(kids[i]) :
        (inode[i].inum # None /\ dirent[d].name \notin Dots) =>
            /\ disk[inode[i].inum].names[dirent[d].name] = inode[dirent[d].inode].inum
            /\ disk[inode[dirent[d].inode].inum].used

(* What is cached of a volume is of that volume, and agrees with it (ext2_lookup,
   registry_rename, mount_detach). *)
CachedNamesAgree == VolumeClosed /\ NamesAgree

(* "The underlying inode is not destroyed if its refcount > 0 (e.g. still open
   via a handle)" (syscalls.md on UNLINK). *)
OpenFilesKept ==
    \A t \in Tasks, f \in Slots :
        LET i == fds[t][f].inode
        IN  (i # None /\ inode[i].inum # None) => disk[inode[i].inum].used
=============================================================================
