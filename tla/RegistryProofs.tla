---------------------------- MODULE RegistryProofs ----------------------------
(***************************************************************************)
(* The counts of inodes and entries are the numbers of their holders,      *)
(* whatever calls are made, as long as no directory is an entry of itself  *)
(* and what is cached below an inode of a volume is of a volume.  Where    *)
(* nothing is mounted this needs no hypothesis.                            *)
(***************************************************************************)
EXTENDS Registry, DataLemmas, SequenceTheorems

Paths == [abs : BOOLEAN, names : Seq(Names \cup Dots)]
NodeType == [type : {"none", "dir", "file", "device"}, ref : Nat, deleted : BOOLEAN,
             mnt : Mounts \cup {None}, inum : Inums \cup {None}]
EntryType == [name : Names \cup Dots, inode : Inodes, ref : Nat \ {0}]
DiskType == [used : BOOLEAN, type : {"none", "dir", "file"},
             names : [Names -> Inums \cup {None}], up : Inums \cup {None}]

-----------------------------------------------------------------------------
(* A tree, as it is between two steps of a call.                           *)

\* Its parts, and their types.
Parts(s) == s = [nodes |-> s.nodes, lists |-> s.lists, ents |-> s.ents, due |-> s.due, at |-> s.at]
NodesOK(s) ==
    /\ s.nodes \in [Inodes -> NodeType]
    /\ \A i \in Inodes : s.nodes[i].ref = 0 => s.nodes[i] = NoInode
    /\ \A i \in Inodes : s.nodes[i].ref # 0 => s.nodes[i].type # "none"
    /\ s.nodes[Root].type = "dir"
EntsOK(s) ==
    /\ DOMAIN s.ents \subseteq Dirents /\ IsFiniteSet(DOMAIN s.ents) /\ Cardinality(DOMAIN s.ents) <= NDirents
    /\ s.ents \in [DOMAIN s.ents -> EntryType]
    /\ \A d \in DOMAIN s.ents : s.ents[d].inode = Root => s.ents[d].name \in Dots

\* An entry is in no list but that of the directory it was made for, and there once.
ListsOK(s) ==
    /\ s.lists \in [Inodes -> Seq(DOMAIN s.ents)]
    /\ \A i \in Inodes : \A d \in Members(s.lists[i]) : d[1] = i
    /\ \A i \in Inodes : \A d \in DOMAIN s.ents : Times(s.lists[i], d) <= 1
Bare(s) == \A i \in Inodes : s.nodes[i].ref = 0 => Members(s.lists[i]) = {}
TreeOK(s) == Parts(s) /\ NodesOK(s) /\ EntsOK(s) /\ ListsOK(s) /\ s.due \in Seq(Inodes) /\ s.at \in InodeOrNone

\* The entries that hold inode i.
Listed(s, d) == d \in Members(s.lists[d[1]])
Refs(s, i) == {d \in DOMAIN s.ents : s.ents[d].inode = i /\ ~(Listed(s, d) /\ d[1] = i)}

\* The counts are right if H[i] hold inode i from outside the tree, and C[d] cursors
\* stand on entry d.
NodesCounted(s, H) == \A i \in Inodes : s.nodes[i].ref = Cardinality(Refs(s, i)) + Times(s.due, i) + H[i]
EntsCounted(s, C) ==
    /\ \A d \in DOMAIN s.ents : s.ents[d].ref = (IF Listed(s, d) THEN 1 ELSE 0) + C[d]
    /\ \A d \in Dirents \ DOMAIN s.ents : C[d] = 0
Counted(s, H, C) == TreeOK(s) /\ NodesCounted(s, H) /\ EntsCounted(s, C)

\* The two hypotheses, of a tree.
NoneSelf(s) ==
    \A i \in Inodes : \A d \in Members(s.lists[i]) :
        s.ents[d].inode = i => s.ents[d].name = "." \/ (s.ents[d].name = ".." /\ i = Root)
Closed0(s) ==
    /\ \A i \in Inodes : s.nodes[i].mnt # None => s.nodes[i].inum # None
    /\ \A i \in Inodes : \A d \in Members(s.lists[i]) : s.nodes[i].inum # None => s.nodes[s.ents[d].inode].inum # None

\* What the tree is like if nothing is ever mounted.
Native == \A sc \in Scopes : sc.mountPaths = {}
Dry(s) == NoneSelf(s) /\ \A i \in Inodes : s.nodes[i].mnt = None /\ s.nodes[i].inum = None
Plain(s) == Native => Dry(s)

-----------------------------------------------------------------------------
(* The inductive invariant.                                                *)

\* What holds inodes and entries from outside the tree.
HeldBy(cw, st, fd, mt) ==
    [i \in Inodes |->
        Cardinality({t \in Tasks : cw[t] = i}) + Cardinality({t \in Tasks : st[t] = i})
        + Cardinality({x \in Tasks \X Slots : fd[x[1]][x[2]].inode = i})
        + Cardinality({m \in Mounts : mt[m].mountpoint = i}) + Cardinality({m \in Mounts : mt[m].root = i})
        + (IF i = Root THEN 1 ELSE 0)]
CursorsOf(fd) == [d \in Dirents |-> Cardinality({x \in Tasks \X Slots : fd[x[1]][x[2]].cursor = d})]

Files == [inode : InodeOrNone, cursor : Dirents \cup {NoEntry}]
MountType == [mountpoint : InodeOrNone, root : InodeOrNone]
Here == [nodes |-> inode, lists |-> kids, ents |-> dirent, due |-> due, at |-> None]

\* A cursor stands on an entry of the handle's directory; who is gone holds nothing.
HoldersOK ==
    /\ cwd \in [Tasks -> InodeOrNone] /\ stream \in [Tasks -> InodeOrNone] /\ alive \subseteq Tasks
    /\ fds \in [Tasks -> [Slots -> Files]] /\ mounts \in [Mounts -> MountType] /\ scope \in Scopes
    /\ \A t \in Tasks, f \in Slots : fds[t][f].cursor # NoEntry => fds[t][f].cursor[1] = fds[t][f].inode
    /\ \A t \in alive : cwd[t] # None /\ (t # First => stream[t] # None)
    /\ \A t \in Tasks \ alive : cwd[t] = None /\ stream[t] = None /\ \A f \in Slots : fds[t][f] = NoFile
\* A file system has a root of its own, with a number on the disk.
MountsOK ==
    /\ \A m \in Mounts : mounts[m].root = None <=> mounts[m].mountpoint = None
    /\ \A m \in Mounts : mounts[m].root # None => inode[mounts[m].root].inum # None
    /\ \A m, n \in Mounts : mounts[m].root = mounts[n].root /\ mounts[m].root # None => m = n
DiskOK == disk \in [Inums -> DiskType] /\ \A n \in Inums : disk[n].used => disk[n].type # "none"

RegInv ==
    /\ HoldersOK /\ MountsOK /\ DiskOK
    /\ Counted(Here, HeldBy(cwd, stream, fds, mounts), CursorsOf(fds)) /\ Bare(Here) /\ Plain(Here)
Ordinary == NoneInItself /\ VolumeClosed

-----------------------------------------------------------------------------
(* Counting.                                                               *)

\* A set loses and gains what one changed value stood for.
One(i, v) == IF i = v THEN 1 ELSE 0
Many(S, f, v) == Cardinality({x \in S : f[x] = v})
Same(S, f, g, x0) == \A x \in S \ {x0} : g[x] = f[x]

\* A function changes at one place, and with it how many have each value.
LEMMA ManyMoved ==
    ASSUME NEW S, IsFiniteSet(S), NEW f, NEW g, NEW x0 \in S, Same(S, f, g, x0), NEW v
    PROVE  Many(S, f, v) \in Nat /\ Many(S, g, v) = Many(S, f, v) - One(v, f[x0]) + One(v, g[x0])
<1> SUFFICES /\ Cardinality({x \in S : f[x] = v}) \in Nat
             /\ Cardinality({x \in S : g[x] = v}) =
                  Cardinality({x \in S : f[x] = v}) - (IF f[x0] = v THEN 1 ELSE 0) + (IF g[x0] = v THEN 1 ELSE 0)
  BY DEF Many, One
<1> USE DEF Same
<1> DEFINE A == {x \in S : f[x] = v}
           B == {x \in S : g[x] = v}
           M == A \ {x0}
<1>1. IsFiniteSet(A)
  BY FS_Subset
<1>2. IsFiniteSet(M) /\ Cardinality(A) \in Nat
      /\ Cardinality(M) = Cardinality(A) - (IF f[x0] = v THEN 1 ELSE 0)
  <2>1. x0 \in A <=> f[x0] = v
    OBVIOUS
  <2> HIDE DEF A
  <2>2. Cardinality(A) \in Nat /\ Cardinality(M) = IF x0 \in A THEN Cardinality(A) - 1 ELSE Cardinality(A)
    BY <1>1, FS_RemoveElement, FS_CardinalityType
  <2>3. IsFiniteSet(M)
    BY <1>1, FS_RemoveElement
  <2> QED BY <2>1, <2>2, <2>3
<1>3. CASE g[x0] = v
  <2>1. B = M \cup {x0}
    BY <1>3
  <2> HIDE DEF A, B, M
  <2>2. Cardinality(B) = Cardinality(M) + 1
    <3>1. x0 \notin M
      BY DEF M
    <3> QED BY <1>2, <2>1, <3>1, FS_AddElement
  <2> QED BY <1>2, <1>3, <2>2 DEF A, B
<1>4. CASE g[x0] # v
  <2>1. B = M
    BY <1>4
  <2> HIDE DEF A, B, M
  <2>2. Cardinality(B) = Cardinality(A) - (IF f[x0] = v THEN 1 ELSE 0)
    BY <1>2, <2>1
  <2> QED BY <1>2, <1>4, <2>2 DEF A, B
<1> QED BY <1>3, <1>4

\* How often an element occurs in a sequence.
LEMMA TimesNat ==
    ASSUME NEW S, NEW q \in Seq(S), NEW x
    PROVE  /\ Times(q, x) \in Nat
           /\ x \in Members(q) <=> Times(q, x) # 0
<1> DEFINE A == {k \in DOMAIN q : q[k] = x}
<1>1. IsFiniteSet(A)
  <2>1. DOMAIN q = 1 .. Len(q) /\ Len(q) \in Nat
    OBVIOUS
  <2>2. IsFiniteSet(1 .. Len(q)) /\ A \in SUBSET (1 .. Len(q))
    BY <2>1, FS_Interval
  <2> HIDE DEF A
  <2> QED BY <2>2, FS_Subset
<1>2. x \in Members(q) <=> A # {}
  BY DEF Members
<1> HIDE DEF A
<1>3. Cardinality(A) \in Nat /\ (Cardinality(A) = 0 <=> A = {})
  BY <1>1, FS_CardinalityType, FS_EmptySet
<1> QED BY <1>2, <1>3 DEF Times, A

\* What occurs once is at one place.
LEMMA TimesOnce ==
    ASSUME NEW S, NEW q \in Seq(S), NEW x, Times(q, x) <= 1, NEW k \in DOMAIN q, NEW l \in DOMAIN q,
           q[k] = x, q[l] = x
    PROVE  k = l
<1> DEFINE A == {j \in DOMAIN q : q[j] = x}
<1>1. IsFiniteSet(A)
  <2>1. DOMAIN q = 1 .. Len(q) /\ Len(q) \in Nat
    OBVIOUS
  <2>2. IsFiniteSet(1 .. Len(q)) /\ A \in SUBSET (1 .. Len(q))
    BY <2>1, FS_Interval
  <2> HIDE DEF A
  <2> QED BY <2>2, FS_Subset
<1>2. k \in A /\ l \in A
  OBVIOUS
<1>3. Cardinality(A) <= 1 /\ Cardinality(A) \in Nat
  <2> HIDE DEF A
  <2> QED BY <1>1, FS_CardinalityType DEF Times, A
<1> HIDE DEF A
<1>4. Cardinality(A) # 0
  BY <1>1, <1>2, FS_EmptySet
<1>5. Cardinality(A) = 1
  BY <1>3, <1>4
<1> QED BY <1>1, <1>2, <1>5, FS_Singleton

\* Occurrences add up.
LEMMA TimesConcat ==
    ASSUME NEW S, NEW p \in Seq(S), NEW q \in Seq(S), NEW x
    PROVE  Times(p \o q, x) = Times(p, x) + Times(q, x)
<1> DEFINE r == p \o q
           A == {k \in DOMAIN p : p[k] = x}
           B == {k \in DOMAIN q : q[k] = x}
           m == Len(p)
           D == {k \in DOMAIN r : r[k] = x /\ k > m}
           C == {k \in DOMAIN r : r[k] = x}
<1>1. m \in Nat /\ Len(q) \in Nat /\ DOMAIN p = 1 .. m /\ DOMAIN q = 1 .. Len(q) /\ DOMAIN r = 1 .. m + Len(q)
  OBVIOUS
<1>2. \A i \in DOMAIN r : r[i] = IF i <= m THEN p[i] ELSE q[i - m]
  BY ConcatProperties
<1> HIDE DEF r, m
<1>3. IsFiniteSet(A) /\ IsFiniteSet(B)
  <2>1. IsFiniteSet(1 .. m) /\ IsFiniteSet(1 .. Len(q))
    BY <1>1, FS_Interval
  <2>2. A \in SUBSET (1 .. m) /\ B \in SUBSET (1 .. Len(q))
    BY <1>1
  <2> HIDE DEF A, B
  <2> QED BY <2>1, <2>2, FS_Subset
<1>4. C = A \cup D /\ A \cap D = {}
  BY <1>1, <1>2
<1>5. IsFiniteSet(D) /\ Cardinality(D) = Cardinality(B)
  <2> DEFINE f == [k \in B |-> k + m]
  <2>1. \A k \in B : k + m \in D
    BY <1>1, <1>2
  <2>2. \A k \in D : k - m \in B /\ (k - m) + m = k
    BY <1>1, <1>2
  <2>3. f \in [B -> D]
    BY <2>1
  <2>4. \A y \in D : \E k \in B : f[k] = y
    BY <2>2
  <2>5. \A k, l \in B : f[k] = f[l] => k = l
    BY <1>1
  <2> HIDE DEF f, B, D
  <2> QED BY <1>3, <2>3, <2>4, <2>5, ImageFinite
<1> HIDE DEF A, B, C, D
<1>6. Cardinality(C) = Cardinality(A) + Cardinality(D)
  <2>1. Cardinality(A \cap D) = 0
    BY <1>4, FS_EmptySet
  <2>2. Cardinality(C) = Cardinality(A) + Cardinality(D) - Cardinality(A \cap D)
    BY <1>3, <1>4, <1>5, FS_Union
  <2>3. Cardinality(A) \in Nat /\ Cardinality(D) \in Nat
    BY <1>3, <1>5, FS_CardinalityType
  <2> QED BY <2>1, <2>2, <2>3
<1> QED BY <1>5, <1>6 DEF Times, A, B, C, r

\* In a list of one.
LEMMA TimesOne ==
    ASSUME NEW y, NEW x
    PROVE  Times(<<y>>, x) = IF x = y THEN 1 ELSE 0
<1> DEFINE A == {k \in DOMAIN <<y>> : <<y>>[k] = x}
<1>1. A = IF x = y THEN {1} ELSE {}
  OBVIOUS
<1> HIDE DEF A
<1>2. Cardinality(A) = IF x = y THEN 1 ELSE 0
  BY <1>1, FS_Singleton, FS_EmptySet
<1> QED BY <1>2 DEF Times, A

\* In a list with one more at its end.
LEMMA TimesAppend ==
    ASSUME NEW S, NEW q \in Seq(S), NEW y \in S, NEW x
    PROVE  /\ Append(q, y) \in Seq(S)
           /\ Times(Append(q, y), x) = Times(q, x) + (IF x = y THEN 1 ELSE 0)
<1>1. Append(q, y) = q \o <<y>> /\ <<y>> \in Seq(S) /\ Append(q, y) \in Seq(S)
  BY AppendIsConcat
<1>2. Times(q \o <<y>>, x) = Times(q, x) + Times(<<y>>, x)
  BY <1>1, TimesConcat
<1>3. Times(<<y>>, x) = IF x = y THEN 1 ELSE 0
  BY TimesOne
<1> QED BY <1>1, <1>2, <1>3

\* In a list without its head.
LEMMA TimesTail ==
    ASSUME NEW S, NEW q \in Seq(S), q # <<>>, NEW x
    PROVE  /\ Head(q) \in S /\ Tail(q) \in Seq(S)
           /\ Times(q, x) = Times(Tail(q), x) + (IF x = Head(q) THEN 1 ELSE 0)
<1>1. Head(q) \in S /\ Tail(q) \in Seq(S) /\ <<Head(q)>> \in Seq(S)
  BY HeadTailProperties
<1>2. q = <<Head(q)>> \o Tail(q)
  <2>1. q = SubSeq(q, 1, Len(q)) /\ Tail(q) = SubSeq(q, 2, Len(q)) /\ Len(q) \in Nat /\ Len(q) # 0 /\ Head(q) = q[1]
    BY SubSeqFull, TailIsSubSeq
  <2>2. 1 \in 1 .. Len(q) /\ Len(q) \in 1 .. Len(q)
    BY <2>1
  <2> QED BY <2>1, <2>2, SubSeqRecursiveFirst
<1> HIDE <1>2
<1>3. Times(<<Head(q)>> \o Tail(q), x) = Times(<<Head(q)>>, x) + Times(Tail(q), x)
  BY <1>1, TimesConcat
<1>4. Times(Tail(q), x) \in Nat
  BY <1>1, TimesNat
<1>5. Times(<<Head(q)>>, x) = IF x = Head(q) THEN 1 ELSE 0
  BY TimesOne
<1>6. Times(q, x) = Times(<<Head(q)>>, x) + Times(Tail(q), x)
  BY <1>2, <1>3, Zenon
<1> HIDE <1>2
<1> QED BY <1>1, <1>4, <1>5, <1>6

\* Keep follows its definition.
KeptUpTo(q, T, n, kept) ==
    /\ DOMAIN kept = 0 .. n
    /\ kept[0] = <<>>
    /\ \A k \in 1 .. n : kept[k] = IF q[k] \in T THEN Append(kept[k - 1], q[k]) ELSE kept[k - 1]

\* Keep is the last of the lists that it builds.
LEMMA KeepDef ==
    ASSUME NEW S, NEW q \in Seq(S), NEW T
    PROVE  \E kept : KeptUpTo(q, T, Len(q), kept) /\ Keep(q, T) = kept[Len(q)]
<1> DEFINE N == Len(q)
           Eq(g, n) == g = [k \in 0 .. n |->
                        IF k = 0 THEN <<>>
                        ELSE IF q[k] \in T THEN Append(g[k - 1], q[k]) ELSE g[k - 1]]
           Bad == {n \in 0 .. N : ~\E g : Eq(g, n)}
<1>1. N \in Nat
  OBVIOUS
<1>2. Bad = {}
  <2> SUFFICES ASSUME Bad # {} PROVE FALSE
    OBVIOUS
  <2>1. PICK n \in Bad : \A m \in Bad : n <= m
    <3>1. Bad \in SUBSET Nat
      BY <1>1
    <3> HIDE DEF Bad
    <3> QED BY <3>1, LeastNumber
  <2>2. CASE n = 0
    <3> DEFINE g == [k \in 0 .. 0 |-> <<>>]
    <3>1. Eq(g, 0)
      OBVIOUS
    <3> QED BY <2>2, <3>1
  <2>3. CASE n # 0
    <3>1. n \in 1 .. N /\ n - 1 \in 0 .. N /\ n - 1 \notin Bad
      <4> HIDE DEF Eq
      <4>1. n \in 0 .. N
        OBVIOUS
      <4>2. n \in 1 .. N /\ n - 1 \in 0 .. N
        BY <1>1, <2>3, <4>1
      <4> HIDE DEF Bad
      <4> QED BY <1>1, <2>1, <4>2
    <3>2. PICK g : Eq(g, n - 1)
      <4> HIDE DEF Eq
      <4> QED BY <3>1
    <3>5. \A k \in 0 .. n - 1 : g[k] = IF k = 0 THEN <<>>
                        ELSE IF q[k] \in T THEN Append(g[k - 1], q[k]) ELSE g[k - 1]
      BY <3>2
    <3> DEFINE h == [k \in 0 .. n |->
                        IF k = n THEN IF q[n] \in T THEN Append(g[n - 1], q[n]) ELSE g[n - 1] ELSE g[k]]
    <3>3. \A k \in 0 .. n : h[k] = IF k = 0 THEN <<>>
                        ELSE IF q[k] \in T THEN Append(h[k - 1], q[k]) ELSE h[k - 1]
      <4> HIDE DEF Eq, Bad
      <4> SUFFICES ASSUME NEW k \in 0 .. n
                   PROVE  h[k] = IF k = 0 THEN <<>>
                        ELSE IF q[k] \in T THEN Append(h[k - 1], q[k]) ELSE h[k - 1]
        OBVIOUS
      <4>1. CASE k = n
        BY <1>1, <3>1, <4>1
      <4>2. CASE k # n
        <5>1. k \in 0 .. n - 1 /\ h[k] = g[k] /\ (k # 0 => h[k - 1] = g[k - 1])
          BY <1>1, <3>1, <4>2
        <5> HIDE DEF h
        <5> QED BY <3>5, <5>1
      <4> QED BY <4>1, <4>2
    <3>4. Eq(h, n)
      BY <3>3, SMTT(60)
    <3> QED BY <3>4
  <2> QED BY <2>2, <2>3
<1> DEFINE kept[k \in 0 .. Len(q)] ==
            IF k = 0 THEN <<>>
            ELSE IF q[k] \in T THEN Append(kept[k - 1], q[k]) ELSE kept[k - 1]
<1>3. kept = [k \in 0 .. Len(q) |->
                        IF k = 0 THEN <<>>
                        ELSE IF q[k] \in T THEN Append(kept[k - 1], q[k]) ELSE kept[k - 1]]
  <2>1. N \in 0 .. N
    BY <1>1
  <2>2. \E g : Eq(g, N)
    <3> HIDE DEF Eq
    <3> QED BY <1>2, <2>1
  <2> QED BY <2>2, Zenon
<1>4. Keep(q, T) = kept[Len(q)]
  BY DEF Keep
<1> HIDE DEF kept
<1>5. KeptUpTo(q, T, Len(q), kept)
  <2>1. \A k \in 0 .. N : kept[k] =
                        IF k = 0 THEN <<>>
                        ELSE IF q[k] \in T THEN Append(kept[k - 1], q[k]) ELSE kept[k - 1]
    BY <1>3
  <2>2. DOMAIN kept = 0 .. N
    BY <1>3
  <2>3. 0 \in 0 .. N /\ \A k \in 1 .. N : k \in 0 .. N /\ k # 0
    BY <1>1
  <2> HIDE DEF N
  <2>4. KeptUpTo(q, T, N, kept)
    BY <2>1, <2>2, <2>3 DEF KeptUpTo
  <2> QED BY <2>4 DEF N
<1> QED BY <1>4, <1>5

\* What is kept is what the set has of the list, each as often as before.
LEMMA KeepSeq ==
    ASSUME NEW S, NEW q \in Seq(S), NEW T
    PROVE  /\ Keep(q, T) \in Seq(S \cap T)
           /\ \A x : Times(Keep(q, T), x) = IF x \in T THEN Times(q, x) ELSE 0
<1> DEFINE N == Len(q)
<1>1. PICK kept : KeptUpTo(q, T, N, kept) /\ Keep(q, T) = kept[N]
  BY KeepDef
<1> DEFINE Good(k) == /\ kept[k] \in Seq(S \cap T)
                      /\ \A x : Times(kept[k], x) = IF x \in T THEN Times(SubSeq(q, 1, k), x) ELSE 0
           Bad == {k \in 0 .. N : ~Good(k)}
<1>2. N \in Nat
  OBVIOUS
<1>3. Bad = {}
  <2> SUFFICES ASSUME Bad # {} PROVE FALSE
    OBVIOUS
  <2>1. PICK n \in Bad : \A m \in Bad : n <= m
    <3>1. Bad \in SUBSET Nat
      BY <1>2
    <3> HIDE DEF Bad
    <3> QED BY <3>1, LeastNumber
  <2>2. CASE n = 0
    <3>1. kept[0] = <<>> /\ SubSeq(q, 1, 0) = <<>>
      BY <1>1, SubSeqEmpty DEF KeptUpTo
    <3>2. \A x : Times(<<>>, x) = 0
      <4> SUFFICES ASSUME NEW x PROVE Times(<<>>, x) = 0
        OBVIOUS
      <4>1. {k \in DOMAIN <<>> : <<>>[k] = x} = {}
        OBVIOUS
      <4> QED BY <4>1, FS_EmptySet DEF Times
    <3>3. <<>> \in Seq(S \cap T)
      OBVIOUS
    <3>4. Good(0)
      BY <3>1, <3>2, <3>3
    <3> QED BY <2>2, <3>4
  <2>3. CASE n # 0
    <3>1. n \in 1 .. N /\ n - 1 \in 0 .. N /\ Good(n - 1)
      <4>1. n \in 0 .. N
        OBVIOUS
      <4>2. n \in 1 .. N /\ n - 1 \in 0 .. N /\ ~(n <= n - 1)
        BY <1>2, <2>3, <4>1
      <4> HIDE DEF Good
      <4> QED BY <2>1, <4>2
    <3> DEFINE p == SubSeq(q, 1, n - 1)
    <3>2. p \in Seq(S) /\ q[n] \in S /\ SubSeq(q, 1, n) = p \o <<q[n]>> /\ <<q[n]>> \in Seq(S)
      <4>1. q[n] \in S /\ 1 \in 1 .. Len(q) /\ n \in 1 .. Len(q)
        BY <3>1
      <4>2. SubSeq(q, 1, n) = SubSeq(q, 1, n - 1) \o <<q[n]>>
        BY <4>1, SubSeqRecursiveSecond
      <4>3. SubSeq(q, 1, n - 1) \in Seq(S)
        <5>1. \A i \in 1 .. n - 1 : q[i] \in S
          BY <3>1
        <5>2. n - 1 \in Int /\ 1 \in Int
          BY <3>1
        <5> QED BY <5>1, <5>2, SubSeqProperties
      <4> QED BY <4>1, <4>2, <4>3
    <3> HIDE DEF p
    <3>3. \A x : Times(SubSeq(q, 1, n), x) = Times(p, x) + (IF x = q[n] THEN 1 ELSE 0)
      <4> TAKE x
      <4>1. Times(p \o <<q[n]>>, x) = Times(p, x) + Times(<<q[n]>>, x)
        BY <3>2, TimesConcat
      <4>2. Times(<<q[n]>>, x) = IF x = q[n] THEN 1 ELSE 0
        BY TimesOne
      <4> QED BY <3>2, <4>1, <4>2
    <3>4. \A x : Times(kept[n - 1], x) = IF x \in T THEN Times(p, x) ELSE 0
      BY <3>1 DEF p
    <3>5. kept[n] = IF q[n] \in T THEN Append(kept[n - 1], q[n]) ELSE kept[n - 1]
      BY <1>1, <3>1 DEF KeptUpTo
    <3>6. \A x : Times(p, x) \in Nat
      BY <3>2, TimesNat
    <3>7. CASE q[n] \in T
      <4>1. kept[n] \in Seq(S \cap T)
            /\ \A x : Times(kept[n], x) = Times(kept[n - 1], x) + (IF x = q[n] THEN 1 ELSE 0)
        <5>1. q[n] \in S \cap T /\ kept[n - 1] \in Seq(S \cap T) /\ kept[n] = Append(kept[n - 1], q[n])
          BY <3>1, <3>2, <3>5, <3>7
        <5> QED BY <5>1, TimesAppend
      <4>2. \A x : Times(kept[n], x) = IF x \in T THEN Times(SubSeq(q, 1, n), x) ELSE 0
        <5> TAKE x
        <5> QED BY <3>3, <3>4, <3>6, <3>7, <4>1
      <4> QED BY <4>1, <4>2
    <3>8. CASE q[n] \notin T
      <4>1. kept[n] = kept[n - 1] /\ kept[n] \in Seq(S \cap T)
        BY <3>1, <3>5, <3>8
      <4>2. \A x : Times(kept[n], x) = IF x \in T THEN Times(SubSeq(q, 1, n), x) ELSE 0
        <5> TAKE x
        <5> QED BY <3>3, <3>4, <3>6, <3>8, <4>1
      <4> QED BY <4>1, <4>2
    <3> QED BY <3>7, <3>8
  <2> QED BY <2>2, <2>3
<1>4. Good(N)
  <2>1. N \in 0 .. N
    BY <1>2
  <2> HIDE DEF Good
  <2> QED BY <1>3, <2>1
<1>5. SubSeq(q, 1, N) = q
  BY SubSeqFull
<1> QED BY <1>1, <1>4, <1>5

\* Without an element.
SameBut(d, p, q) == \A x : x # d => Times(p, x) = Times(q, x)

\* A list that loses one member keeps the others as often as it had them.
LEMMA KeepWithout ==
    ASSUME NEW S, NEW q \in Seq(S), NEW T, NEW d, d \notin T, Members(q) \subseteq T \cup {d}
    PROVE  /\ Keep(q, T) \in Seq(S \ {d})
           /\ Members(Keep(q, T)) = Members(q) \ {d}
           /\ SameBut(d, Keep(q, T), q)
<1>1. Keep(q, T) \in Seq(S \cap T) /\ \A x : Times(Keep(q, T), x) = IF x \in T THEN Times(q, x) ELSE 0
  BY KeepSeq
<1>2. Keep(q, T) \in Seq(S \ {d})
  <2>1. S \cap T \subseteq S \ {d}
    OBVIOUS
  <2> QED BY <1>1, <2>1, SeqMonotonic
<1>3. \A x : x \in Members(q) <=> Times(q, x) # 0
  BY TimesNat
<1>4. \A x : x # d => Times(Keep(q, T), x) = Times(q, x)
  <2> SUFFICES ASSUME NEW x, x # d PROVE Times(Keep(q, T), x) = Times(q, x)
    OBVIOUS
  <2>1. CASE x \in T
    BY <1>1, <2>1
  <2>2. CASE x \notin T
    <3>1. x \notin Members(q)
      BY <2>2
    <3> QED BY <1>1, <1>3, <2>2, <3>1
  <2> QED BY <2>1, <2>2
<1>5. \A x : x \in Members(Keep(q, T)) <=> Times(Keep(q, T), x) # 0
  BY <1>1, TimesNat
<1>6. Times(Keep(q, T), d) = 0
  BY <1>1
<1>7. \A x : x \in Members(Keep(q, T)) <=> x \in Members(q) \ {d}
  <2> TAKE x
  <2> QED BY <1>3, <1>4, <1>5, <1>6
<1> QED BY <1>2, <1>4, <1>7 DEF SameBut

-----------------------------------------------------------------------------
(* What the operations on trees do to the counts.                          *)

Plus(H, i, n) == [H EXCEPT ![i] = @ + n]

\* The parts of a tree.
LEMMA TreeParts ==
    ASSUME NEW s, Parts(s), NEW n, NEW l, NEW e, NEW u, NEW a
    PROVE  LET t == [nodes |-> n, lists |-> l, ents |-> e, due |-> u, at |-> a]
           IN  /\ Parts(t) /\ t.nodes = n /\ t.lists = l /\ t.ents = e /\ t.due = u /\ t.at = a
  BY DEF Parts

\* A tree with other entries has its other parts.
LEMMA SetEnts ==
    ASSUME NEW s, Parts(s), NEW v
    PROVE  LET t == [s EXCEPT !.ents = v]
           IN  /\ Parts(t) /\ t.nodes = s.nodes /\ t.lists = s.lists /\ t.ents = v /\ t.due = s.due /\ t.at = s.at
<1> DEFINE t == [s EXCEPT !.ents = v]
<1>1. t = [s EXCEPT !.ents = v]
  OBVIOUS
<1> HIDE DEF t
<1>2. Parts(t) /\ t.nodes = s.nodes /\ t.lists = s.lists /\ t.ents = v /\ t.due = s.due /\ t.at = s.at
  BY <1>1 DEF Parts
<1> QED BY <1>2 DEF t

\* The same with other lists.
LEMMA SetLists ==
    ASSUME NEW s, Parts(s), NEW v
    PROVE  LET t == [s EXCEPT !.lists = v]
           IN  /\ Parts(t) /\ t.nodes = s.nodes /\ t.lists = v /\ t.ents = s.ents /\ t.due = s.due /\ t.at = s.at
<1> DEFINE t == [s EXCEPT !.lists = v]
<1>1. t = [s EXCEPT !.lists = v]
  OBVIOUS
<1> HIDE DEF t
<1>2. Parts(t) /\ t.nodes = s.nodes /\ t.lists = v /\ t.ents = s.ents /\ t.due = s.due /\ t.at = s.at
  BY <1>1 DEF Parts
<1> QED BY <1>2 DEF t

\* And with other inodes.
LEMMA SetNodes ==
    ASSUME NEW s, Parts(s), NEW v
    PROVE  LET t == [s EXCEPT !.nodes = v]
           IN  /\ Parts(t) /\ t.nodes = v /\ t.lists = s.lists /\ t.ents = s.ents /\ t.due = s.due /\ t.at = s.at
<1> DEFINE t == [s EXCEPT !.nodes = v]
<1>1. t = [s EXCEPT !.nodes = v]
  OBVIOUS
<1> HIDE DEF t
<1>2. Parts(t) /\ t.nodes = v /\ t.lists = s.lists /\ t.ents = s.ents /\ t.due = s.due /\ t.at = s.at
  BY <1>1 DEF Parts
<1> QED BY <1>2 DEF t


\* The root is an inode, and what stands for none is neither inode nor entry.
LEMMA RootInodes == Root \in Inodes /\ None \notin Inodes /\ IsFiniteSet(Inodes) /\ NoEntry \notin Dirents
<1>1. NInodes \in Nat /\ NInodes > 2
  BY SizesAssumption
<1>2. None \notin Inodes /\ Root \in Inodes
  BY <1>1 DEF None, Root, Inodes
<1>3. IsFiniteSet(Inodes)
  BY <1>1, FS_Interval DEF Inodes
<1>4. NoEntry \notin Dirents
  BY <1>2 DEF NoEntry, Dirents
<1> QED BY <1>2, <1>3, <1>4

\* The entries that count are finitely many.
LEMMA RefsFinite ==
    ASSUME NEW s, IsFiniteSet(DOMAIN s.ents), NEW i
    PROVE  IsFiniteSet(Refs(s, i)) /\ Cardinality(Refs(s, i)) \in Nat
<1>1. Refs(s, i) \in SUBSET (DOMAIN s.ents)
  BY DEF Refs
<1> QED BY <1>1, FS_Subset, FS_CardinalityType

\* The inodes alone change.
LEMMA NodesChange ==
    ASSUME NEW s, NEW H \in [Inodes -> Int], NEW C, Counted(s, H, C),
           NEW t, Parts(t), NodesOK(t), t.lists = s.lists, t.ents = s.ents, t.due = s.due, t.at \in InodeOrNone,
           NEW G \in [Inodes -> Int], \A i \in Inodes : t.nodes[i].ref = s.nodes[i].ref + (G[i] - H[i])
    PROVE  Counted(t, G, C)
<1>1. TreeOK(t)
  BY DEF Counted, TreeOK, EntsOK, ListsOK
<1>2. EntsCounted(t, C)
  BY DEF Counted, EntsCounted, Listed
<1>3. NodesCounted(t, G)
  <2> SUFFICES ASSUME NEW i \in Inodes
               PROVE  t.nodes[i].ref = Cardinality(Refs(t, i)) + Times(t.due, i) + G[i]
    BY DEF NodesCounted
  <2>1. Refs(t, i) = Refs(s, i)
    BY DEF Refs, Listed
  <2>2. Cardinality(Refs(s, i)) \in Nat /\ Times(s.due, i) \in Nat
    BY RefsFinite, TimesNat DEF Counted, TreeOK, EntsOK
  <2>3. s.nodes[i].ref = Cardinality(Refs(s, i)) + Times(s.due, i) + H[i]
    BY DEF Counted, NodesCounted
  <2> QED BY <2>1, <2>2, <2>3
<1> QED BY <1>1, <1>2, <1>3 DEF Counted

\* Where the walk is does not count.
LEMMA AtChange ==
    ASSUME NEW s, NEW H \in [Inodes -> Int], NEW C, Counted(s, H, C), NEW a \in InodeOrNone
    PROVE  Counted([s EXCEPT !.at = a], H, C)
<1> DEFINE t == [s EXCEPT !.at = a]
<1>1. Parts(t) /\ t.nodes = s.nodes /\ t.lists = s.lists /\ t.ents = s.ents /\ t.due = s.due /\ t.at = a
  BY DEF Counted, TreeOK, Parts
<1>2. NodesOK(t)
  BY <1>1 DEF Counted, TreeOK, NodesOK
<1>3. \A i \in Inodes : s.nodes[i].ref \in Int
  BY DEF Counted, TreeOK, NodesOK, NodeType
<1> HIDE DEF t
<1>4. \A i \in Inodes : t.nodes[i].ref = s.nodes[i].ref + (H[i] - H[i])
  BY <1>1, <1>3
<1>5. Counted(t, H, C)
  BY <1>1, <1>2, <1>4, NodesChange
<1> QED BY <1>5 DEF t

\* What is used of an inode changes, but not its count; or it is put to use.
LEMMA NodeChange ==
    ASSUME NEW s, NEW H \in [Inodes -> Int], NEW C, Counted(s, H, C), NEW j \in Inodes, NEW r \in NodeType,
           r.ref # 0, r.type # "none", j = Root => r.type = "dir"
    PROVE  Counted([s EXCEPT !.nodes[j] = r], Plus(H, j, r.ref - s.nodes[j].ref), C)
<1> DEFINE t == [s EXCEPT !.nodes[j] = r]
           G == Plus(H, j, r.ref - s.nodes[j].ref)
<1>1. Parts(t) /\ t.nodes = [s.nodes EXCEPT ![j] = r] /\ t.lists = s.lists /\ t.ents = s.ents
      /\ t.due = s.due /\ t.at = s.at
  BY DEF Counted, TreeOK, Parts
<1>2. s.nodes \in [Inodes -> NodeType] /\ s.at \in InodeOrNone
  BY DEF Counted, TreeOK, NodesOK
<1>3. NodesOK(t)
  BY <1>1, <1>2, RootInodes DEF Counted, TreeOK, NodesOK
<1>4. \A i \in Inodes : s.nodes[i].ref \in Nat
  BY <1>2 DEF NodeType
<1>5. r.ref \in Nat
  BY DEF NodeType
<1>6. G \in [Inodes -> Int]
  BY <1>4, <1>5 DEF Plus
<1>7. \A i \in Inodes : t.nodes[i].ref = s.nodes[i].ref + (G[i] - H[i])
  BY <1>1, <1>2, <1>4, <1>5 DEF Plus
<1> HIDE DEF t, G
<1>8. Counted(t, G, C)
  BY <1>1, <1>2, <1>3, <1>6, <1>7, NodesChange, ZenonT(60)
<1> QED BY <1>8 DEF t, G

\* One more holder of one inode, or one fewer.
LEMMA PlusInt ==
    ASSUME NEW H \in [Inodes -> Int], NEW j, NEW n \in Int
    PROVE  /\ Plus(H, j, n) \in [Inodes -> Int]
           /\ \A i \in Inodes : Plus(H, j, n)[i] = H[i] + (IF i = j THEN n ELSE 0)
<1>1. \A i \in Inodes : Plus(H, j, n)[i] = H[i] + (IF i = j THEN n ELSE 0)
  BY DEF Plus
<1>2. \A i \in Inodes : Plus(H, j, n)[i] \in Int
  BY <1>1
<1>3. Plus(H, j, n) = [i \in Inodes |-> Plus(H, j, n)[i]]
  BY DEF Plus
<1> QED BY <1>1, <1>2, <1>3

\* The type of an inode, and that one is in use while its count is above 0.
LEMMA NodeTyped ==
    ASSUME NEW s, TreeOK(s), NEW j \in Inodes
    PROVE  /\ s.nodes[j] \in NodeType /\ s.nodes[j].ref \in Nat
           /\ s.nodes[j].type # "none" <=> s.nodes[j].ref # 0
           /\ j = Root => s.nodes[j].type = "dir"
  BY DEF TreeOK, NodesOK, NodeType, NoInode

\* inode_ref
LEMMA InodeRef ==
    ASSUME NEW s, NEW H \in [Inodes -> Int], NEW C, Counted(s, H, C), NEW j \in Inodes, s.nodes[j].ref # 0
    PROVE  /\ Counted(inode_ref(s, j), Plus(H, j, 1), C)
           /\ inode_ref(s, j).lists = s.lists /\ inode_ref(s, j).ents = s.ents
           /\ inode_ref(s, j).nodes = [s.nodes EXCEPT ![j].ref = @ + 1]
           /\ inode_ref(s, j).due = s.due
<1> DEFINE r == [s.nodes[j] EXCEPT !.ref = @ + 1]
<1>1. Parts(s) /\ s.nodes \in [Inodes -> NodeType]
  BY DEF Counted, TreeOK, NodesOK
<1>2. inode_ref(s, j) = [s EXCEPT !.nodes[j] = r]
  BY <1>1 DEF inode_ref, Parts
<1>3. s.nodes[j] \in NodeType /\ s.nodes[j].ref \in Nat /\ s.nodes[j].type # "none" /\ (j = Root => s.nodes[j].type = "dir")
  BY NodeTyped DEF Counted
<1>4. r \in NodeType /\ r.ref = s.nodes[j].ref + 1 /\ r.ref # 0 /\ r.type # "none" /\ (j = Root => r.type = "dir")
  BY <1>3 DEF NodeType
<1> HIDE DEF r
<1>5. Counted([s EXCEPT !.nodes[j] = r], Plus(H, j, r.ref - s.nodes[j].ref), C)
  BY <1>4, NodeChange
<1>6. r.ref - s.nodes[j].ref = 1
  BY <1>3, <1>4
<1>7. Counted(inode_ref(s, j), Plus(H, j, 1), C)
  BY <1>2, <1>5, <1>6
<1> QED BY <1>1, <1>7 DEF inode_ref, Parts

\* What is used of an inode changes.
LEMMA Touch ==
    ASSUME NEW s, NEW H \in [Inodes -> Int], NEW C, Counted(s, H, C), NEW j \in Inodes, NEW r \in NodeType,
           s.nodes[j].ref # 0, r.ref = s.nodes[j].ref, r.type = s.nodes[j].type
    PROVE  Counted([s EXCEPT !.nodes[j] = r], H, C)
<1>1. s.nodes[j].ref \in Nat /\ s.nodes[j].type # "none" /\ (j = Root => s.nodes[j].type = "dir")
  BY NodeTyped DEF Counted
<1>2. Counted([s EXCEPT !.nodes[j] = r], Plus(H, j, r.ref - s.nodes[j].ref), C)
  BY <1>1, NodeChange
<1>3. r.ref - s.nodes[j].ref = 0
  BY <1>1
<1>4. Plus(H, j, 0) = H
  BY DEF Plus
<1> QED BY <1>2, <1>3, <1>4

\* inode_unref
LEMMA InodeUnref ==
    ASSUME NEW s, NEW H \in [Inodes -> Int], NEW C, Counted(s, H, C), NEW j \in Inodes
    PROVE  /\ Counted(inode_unref(s, j), Plus(H, j, -1), C)
           /\ inode_unref(s, j).lists = s.lists /\ inode_unref(s, j).ents = s.ents
           /\ inode_unref(s, j).nodes = s.nodes
<1> DEFINE t == inode_unref(s, j)
           G == Plus(H, j, -1)
<1>1. Parts(t) /\ t.nodes = s.nodes /\ t.lists = s.lists /\ t.ents = s.ents /\ t.due = Append(s.due, j) /\ t.at = s.at
  <2>1. Parts(s)
    BY DEF Counted, TreeOK
  <2> DEFINE u == Append(s.due, j)
  <2>2. t = [s EXCEPT !.due = u]
    BY DEF inode_unref
  <2> HIDE DEF u, t
  <2>3. Parts(t) /\ t.nodes = s.nodes /\ t.lists = s.lists /\ t.ents = s.ents /\ t.due = u /\ t.at = s.at
    BY <2>1, <2>2 DEF Parts
  <2> QED BY <2>3 DEF u
<1>2. s.due \in Seq(Inodes)
  BY DEF Counted, TreeOK
<1>3. t.due \in Seq(Inodes) /\ \A x : Times(t.due, x) = Times(s.due, x) + (IF x = j THEN 1 ELSE 0)
  BY <1>1, <1>2, TimesAppend
<1>4. G \in [Inodes -> Int] /\ \A i \in Inodes : G[i] = H[i] + (IF i = j THEN -1 ELSE 0)
  BY PlusInt
<1> HIDE DEF t, G
<1>5. TreeOK(t)
  BY <1>1, <1>3 DEF Counted, TreeOK, NodesOK, EntsOK, ListsOK
<1>6. EntsCounted(t, C)
  BY <1>1 DEF Counted, EntsCounted, Listed
<1>7. NodesCounted(t, G)
  <2> SUFFICES ASSUME NEW i \in Inodes
               PROVE  t.nodes[i].ref = Cardinality(Refs(t, i)) + Times(t.due, i) + G[i]
    BY DEF NodesCounted
  <2>1. Refs(t, i) = Refs(s, i)
    BY <1>1 DEF Refs, Listed
  <2>2. Cardinality(Refs(s, i)) \in Nat /\ Times(s.due, i) \in Nat
    BY <1>2, RefsFinite, TimesNat DEF Counted, TreeOK, EntsOK
  <2>3. s.nodes[i].ref = Cardinality(Refs(s, i)) + Times(s.due, i) + H[i]
    BY DEF Counted, NodesCounted
  <2>4. G[i] = H[i] + (IF i = j THEN -1 ELSE 0) /\ H[i] \in Int
    BY <1>4
  <2> QED BY <1>1, <1>3, <2>1, <2>2, <2>3, <2>4
<1>8. Counted(t, G, C)
  BY <1>5, <1>6, <1>7 DEF Counted
<1> QED BY <1>1, <1>8 DEF t, G

\* dirent_ref
PlusC(C, d, n) == [C EXCEPT ![d] = @ + n]

\* dirent_ref: one more cursor stands on an entry.
LEMMA DirentRef ==
    ASSUME NEW s, NEW H \in [Inodes -> Int], NEW C \in [Dirents -> Int], Counted(s, H, C), NEW d \in DOMAIN s.ents
    PROVE  /\ Counted([s EXCEPT !.ents[d].ref = @ + 1], H, PlusC(C, d, 1))
           /\ [s EXCEPT !.ents[d].ref = @ + 1].lists = s.lists /\ [s EXCEPT !.ents[d].ref = @ + 1].nodes = s.nodes
           /\ [s EXCEPT !.ents[d].ref = @ + 1].due = s.due
           /\ [s EXCEPT !.ents[d].ref = @ + 1].ents = [s.ents EXCEPT ![d].ref = @ + 1]
<1> DEFINE t == [s EXCEPT !.ents[d].ref = @ + 1]
           D == PlusC(C, d, 1)
<1>1. Parts(t) /\ t.nodes = s.nodes /\ t.lists = s.lists /\ t.ents = [s.ents EXCEPT ![d].ref = @ + 1]
      /\ t.due = s.due /\ t.at = s.at
  <2>1. Parts(s)
    BY DEF Counted, TreeOK
  <2> DEFINE e == [s.ents EXCEPT ![d].ref = @ + 1]
  <2>2. t = [s EXCEPT !.ents = e]
    BY <2>1 DEF Parts
  <2> HIDE DEF e, t
  <2>3. Parts(t) /\ t.nodes = s.nodes /\ t.lists = s.lists /\ t.ents = e /\ t.due = s.due /\ t.at = s.at
    BY <2>1, <2>2 DEF Parts
  <2> QED BY <2>3 DEF e
<1>2. s.ents \in [DOMAIN s.ents -> EntryType] /\ DOMAIN s.ents \subseteq Dirents /\ IsFiniteSet(DOMAIN s.ents)
  BY DEF Counted, TreeOK, EntsOK
<1>3. DOMAIN t.ents = DOMAIN s.ents /\ t.ents \in [DOMAIN s.ents -> EntryType]
      /\ \A x \in DOMAIN s.ents : /\ t.ents[x].name = s.ents[x].name /\ t.ents[x].inode = s.ents[x].inode
                                  /\ t.ents[x].ref = s.ents[x].ref + (IF x = d THEN 1 ELSE 0)
  BY <1>1, <1>2 DEF EntryType
<1>4. \A x \in Dirents : D[x] = C[x] + (IF x = d THEN 1 ELSE 0)
  BY <1>2 DEF PlusC
<1> HIDE DEF t, D
<1>5. EntsOK(t)
  BY <1>3 DEF Counted, TreeOK, EntsOK
<1>6. TreeOK(t)
  BY <1>1, <1>3, <1>5 DEF Counted, TreeOK, NodesOK, ListsOK
<1>7. \A x : Listed(t, x) <=> Listed(s, x)
  BY <1>1 DEF Listed
<1>8. EntsCounted(t, D)
  <2>1. \A x \in DOMAIN s.ents : s.ents[x].ref \in Nat /\ C[x] \in Int
    BY <1>2 DEF EntryType
  <2>2. \A x \in DOMAIN s.ents : s.ents[x].ref = (IF Listed(s, x) THEN 1 ELSE 0) + C[x]
    BY DEF Counted, EntsCounted
  <2>3. \A x \in DOMAIN t.ents : t.ents[x].ref = (IF Listed(t, x) THEN 1 ELSE 0) + D[x]
    BY <1>2, <1>3, <1>4, <1>7, <2>1, <2>2
  <2>4. \A x \in Dirents \ DOMAIN t.ents : D[x] = 0
    BY <1>2, <1>3, <1>4 DEF Counted, EntsCounted
  <2> QED BY <2>3, <2>4 DEF EntsCounted
<1>9. NodesCounted(t, H)
  <2>1. \A i \in Inodes : Refs(t, i) = Refs(s, i)
    BY <1>3, <1>7 DEF Refs
  <2> QED BY <1>1, <2>1 DEF Counted, NodesCounted
<1>10. Counted(t, H, D)
  BY <1>6, <1>8, <1>9 DEF Counted
<1> QED BY <1>1, <1>10 DEF t, D

\* The same of cursors.
LEMMA PlusCInt ==
    ASSUME NEW C \in [Dirents -> Int], NEW d, NEW n \in Int
    PROVE  /\ PlusC(C, d, n) \in [Dirents -> Int]
           /\ \A x \in Dirents : PlusC(C, d, n)[x] = C[x] + (IF x = d THEN n ELSE 0)
<1>1. \A x \in Dirents : PlusC(C, d, n)[x] = C[x] + (IF x = d THEN n ELSE 0)
  BY DEF PlusC
<1>2. \A x \in Dirents : PlusC(C, d, n)[x] \in Int
  BY <1>1
<1>3. PlusC(C, d, n) = [x \in Dirents |-> PlusC(C, d, n)[x]]
  BY DEF PlusC
<1> QED BY <1>1, <1>2, <1>3

\* The type of an entry.
LEMMA EntryTyped ==
    ASSUME NEW s, TreeOK(s), NEW d \in DOMAIN s.ents
    PROVE  /\ d \in Dirents /\ s.ents[d] \in EntryType /\ s.ents[d].inode \in Inodes
           /\ s.ents[d].ref \in Nat \ {0} /\ d[1] \in Inodes
  BY DEF TreeOK, EntsOK, EntryType, Dirents

\* An entry that is in no list goes; its inode counts one fewer.
LEMMA EntryGone ==
    ASSUME NEW s, NEW H \in [Inodes -> Int], NEW C \in [Dirents -> Int], Counted(s, H, C),
           NEW d \in DOMAIN s.ents, ~Listed(s, d)
    PROVE  Counted([s EXCEPT !.ents = [x \in DOMAIN s.ents \ {d} |-> s.ents[x]]],
                   Plus(H, s.ents[d].inode, 1), PlusC(C, d, -C[d]))
<1> DEFINE e == [x \in DOMAIN s.ents \ {d} |-> s.ents[x]]
           t == [s EXCEPT !.ents = e]
           o == s.ents[d].inode
           G == Plus(H, o, 1)
           D == PlusC(C, d, -C[d])
<1>1. Parts(t) /\ t.nodes = s.nodes /\ t.lists = s.lists /\ t.ents = e /\ t.due = s.due /\ t.at = s.at
  <2> HIDE DEF e
  <2> QED BY SetEnts DEF Counted, TreeOK
<1>2. DOMAIN e = DOMAIN s.ents \ {d} /\ \A x \in DOMAIN e : e[x] = s.ents[x]
  OBVIOUS
<1>3. d \in Dirents /\ C[d] \in Int /\ o \in Inodes
  BY EntryTyped DEF Counted
<1>4. G \in [Inodes -> Int] /\ \A i \in Inodes : G[i] = H[i] + (IF i = o THEN 1 ELSE 0)
  BY PlusInt
<1>5. D \in [Dirents -> Int] /\ \A x \in Dirents : D[x] = C[x] + (IF x = d THEN -C[d] ELSE 0)
  <2>1. -C[d] \in Int
    BY <1>3
  <2> QED BY <2>1, PlusCInt
<1>6. EntsOK(t)
  <2>1. IsFiniteSet(DOMAIN s.ents) /\ Cardinality(DOMAIN s.ents) <= NDirents /\ NDirents \in Nat
    BY SizesAssumption DEF Counted, TreeOK, EntsOK
  <2>2. IsFiniteSet(DOMAIN s.ents \ {d}) /\ Cardinality(DOMAIN s.ents \ {d}) <= NDirents
    <3>1. Cardinality(DOMAIN s.ents) \in Nat
      BY <2>1, FS_CardinalityType
    <3>2. IsFiniteSet(DOMAIN s.ents \ {d}) /\ Cardinality(DOMAIN s.ents \ {d}) = Cardinality(DOMAIN s.ents) - 1
      BY <2>1, FS_RemoveElement
    <3> QED BY <2>1, <3>1, <3>2
  <2>3. e \in [DOMAIN e -> EntryType] /\ DOMAIN e \subseteq Dirents
    BY <1>2 DEF Counted, TreeOK, EntsOK
  <2>4. \A x \in DOMAIN e : e[x].inode = Root => e[x].name \in Dots
    BY <1>2 DEF Counted, TreeOK, EntsOK
  <2> HIDE DEF e, t
  <2> QED BY <1>1, <1>2, <2>2, <2>3, <2>4 DEF EntsOK
<1> HIDE DEF e, t, o, G, D
<1>7. \A i \in Inodes : \A x \in Members(s.lists[i]) : x # d /\ x \in DOMAIN s.ents /\ x[1] = i
  <2> SUFFICES ASSUME NEW i \in Inodes, NEW x \in Members(s.lists[i])
               PROVE  x # d /\ x \in DOMAIN s.ents /\ x[1] = i
    OBVIOUS
  <2>1. s.lists[i] \in Seq(DOMAIN s.ents) /\ x[1] = i
    BY DEF Counted, TreeOK, ListsOK
  <2>2. x \in DOMAIN s.ents
    BY <2>1 DEF Members
  <2> QED BY <2>1, <2>2 DEF Listed
<1>8. ListsOK(t)
  <2>1. \A i \in Inodes : s.lists[i] \in Seq(DOMAIN e)
    <3> SUFFICES ASSUME NEW i \in Inodes PROVE s.lists[i] \in Seq(DOMAIN e)
      OBVIOUS
    <3>1. s.lists[i] \in Seq(DOMAIN s.ents)
      BY DEF Counted, TreeOK, ListsOK
    <3>2. \A k \in 1 .. Len(s.lists[i]) : s.lists[i][k] \in DOMAIN e
      BY <1>2, <1>7, <3>1 DEF Members
    <3> QED BY <3>1, <3>2
  <2>2. s.lists \in [Inodes -> Seq(DOMAIN e)]
    BY <2>1 DEF Counted, TreeOK, ListsOK
  <2>3. \A i \in Inodes : \A x \in DOMAIN e : Times(s.lists[i], x) <= 1
    BY <1>2 DEF Counted, TreeOK, ListsOK
  <2> QED BY <1>1, <1>7, <2>2, <2>3 DEF ListsOK
<1>9. TreeOK(t)
  BY <1>1, <1>6, <1>8 DEF Counted, TreeOK, NodesOK
<1>10. \A x : Listed(t, x) <=> Listed(s, x)
  BY <1>1 DEF Listed
<1>11. EntsCounted(t, D)
  <2>1. \A x \in DOMAIN e : e[x].ref = (IF Listed(t, x) THEN 1 ELSE 0) + D[x]
    <3> SUFFICES ASSUME NEW x \in DOMAIN e PROVE e[x].ref = (IF Listed(t, x) THEN 1 ELSE 0) + D[x]
      OBVIOUS
    <3>1. x \in DOMAIN s.ents /\ x # d /\ x \in Dirents
      BY <1>2, EntryTyped DEF Counted
    <3>2. D[x] = C[x]
      BY <1>5, <3>1
    <3> QED BY <1>2, <1>10, <3>1, <3>2 DEF Counted, EntsCounted
  <2>2. \A x \in Dirents \ DOMAIN e : D[x] = 0
    <3> SUFFICES ASSUME NEW x \in Dirents \ DOMAIN e PROVE D[x] = 0
      OBVIOUS
    <3>1. CASE x = d
      BY <1>3, <1>5, <3>1
    <3>2. CASE x # d
      <4>1. x \notin DOMAIN s.ents /\ D[x] = C[x]
        BY <1>2, <1>5, <3>2
      <4> QED BY <4>1 DEF Counted, EntsCounted
    <3> QED BY <3>1, <3>2
  <2> QED BY <1>1, <2>1, <2>2 DEF EntsCounted
<1>12. NodesCounted(t, G)
  <2> SUFFICES ASSUME NEW i \in Inodes
               PROVE  t.nodes[i].ref = Cardinality(Refs(t, i)) + Times(t.due, i) + G[i]
    BY DEF NodesCounted
  <2>1. Refs(t, i) = Refs(s, i) \ {d}
    BY <1>1, <1>2, <1>10 DEF Refs
  <2>2. d \in Refs(s, i) <=> i = o
    BY DEF Refs, o
  <2>3. IsFiniteSet(Refs(s, i)) /\ Cardinality(Refs(s, i)) \in Nat /\ Times(s.due, i) \in Nat
    BY RefsFinite, TimesNat DEF Counted, TreeOK, EntsOK
  <2>4. Cardinality(Refs(t, i)) = Cardinality(Refs(s, i)) - (IF i = o THEN 1 ELSE 0)
    BY <2>1, <2>2, <2>3, FS_RemoveElement
  <2>5. s.nodes[i].ref = Cardinality(Refs(s, i)) + Times(s.due, i) + H[i] /\ H[i] \in Int
    BY DEF Counted, NodesCounted
  <2>6. G[i] = H[i] + (IF i = o THEN 1 ELSE 0)
    BY <1>4
  <2> QED BY <1>1, <2>3, <2>4, <2>5, <2>6
<1>13. Counted(t, G, D)
  BY <1>9, <1>11, <1>12 DEF Counted
<1> QED BY <1>13 DEF t, e, o, G, D

SameEntries(s, t) ==
    /\ DOMAIN t.ents \subseteq DOMAIN s.ents
    /\ \A x \in DOMAIN t.ents : t.ents[x].name = s.ents[x].name /\ t.ents[x].inode = s.ents[x].inode

\* dirent_unref of an entry that is in no list or under two references: what a
\* cursor gives up.
LEMMA DirentUnref ==
    ASSUME NEW s, NEW H \in [Inodes -> Int], NEW C \in [Dirents -> Int], Counted(s, H, C),
           NEW d \in DOMAIN s.ents, C[d] >= 1
    PROVE  /\ Counted(dirent_unref(s, d), H, PlusC(C, d, -1))
           /\ dirent_unref(s, d).lists = s.lists /\ dirent_unref(s, d).nodes = s.nodes
           /\ DOMAIN s.ents \ {d} \subseteq DOMAIN dirent_unref(s, d).ents
           /\ SameEntries(s, dirent_unref(s, d))
<1>1. Parts(s) /\ s.ents \in [DOMAIN s.ents -> EntryType] /\ DOMAIN s.ents \subseteq Dirents /\ IsFiniteSet(DOMAIN s.ents)
  BY DEF Counted, TreeOK, EntsOK
<1>2. d \in Dirents /\ C[d] \in Int /\ s.ents[d].ref \in Nat /\ s.ents[d].inode \in Inodes
  BY EntryTyped DEF Counted
<1>3. s.ents[d].ref = (IF Listed(s, d) THEN 1 ELSE 0) + C[d]
  BY DEF Counted, EntsCounted
<1>4. CASE s.ents[d].ref > 1
  <2> DEFINE e == [s.ents EXCEPT ![d].ref = @ - 1]
             t == [s EXCEPT !.ents = e]
             D == PlusC(C, d, -1)
  <2>1. dirent_unref(s, d) = t
    BY <1>1, <1>4 DEF dirent_unref, Parts
  <2>2. DOMAIN e = DOMAIN s.ents /\ e \in [DOMAIN s.ents -> EntryType]
        /\ \A x \in DOMAIN s.ents : /\ e[x].name = s.ents[x].name /\ e[x].inode = s.ents[x].inode
                                    /\ e[x].ref = s.ents[x].ref - (IF x = d THEN 1 ELSE 0)
    BY <1>1, <1>4 DEF EntryType
  <2>3. \A x \in Dirents : D[x] = C[x] - (IF x = d THEN 1 ELSE 0)
    BY <1>2 DEF PlusC
  <2> HIDE DEF e
  <2>4. Parts(t) /\ t.nodes = s.nodes /\ t.lists = s.lists /\ t.ents = e /\ t.due = s.due /\ t.at = s.at
    BY <1>1, SetEnts
  <2> HIDE DEF t, D
  <2>5. EntsOK(t)
    BY <2>2, <2>4 DEF Counted, TreeOK, EntsOK
  <2>6. TreeOK(t)
    BY <2>2, <2>4, <2>5 DEF Counted, TreeOK, NodesOK, ListsOK
  <2>7. \A x : Listed(t, x) <=> Listed(s, x)
    BY <2>4 DEF Listed
  <2>8. EntsCounted(t, D)
    <3>1. \A x \in DOMAIN s.ents : s.ents[x].ref \in Nat /\ C[x] \in Int
      BY <1>1 DEF EntryType
    <3>2. \A x \in DOMAIN s.ents : s.ents[x].ref = (IF Listed(s, x) THEN 1 ELSE 0) + C[x]
      BY DEF Counted, EntsCounted
    <3>3. \A x \in DOMAIN t.ents : t.ents[x].ref = (IF Listed(t, x) THEN 1 ELSE 0) + D[x]
      BY <1>1, <2>2, <2>3, <2>4, <2>7, <3>1, <3>2
    <3>4. \A x \in Dirents \ DOMAIN t.ents : D[x] = 0
      BY <1>1, <2>2, <2>3, <2>4 DEF Counted, EntsCounted
    <3> QED BY <3>3, <3>4 DEF EntsCounted
  <2>9. NodesCounted(t, H)
    <3>1. \A i \in Inodes : Refs(t, i) = Refs(s, i)
      BY <2>2, <2>4, <2>7 DEF Refs
    <3> QED BY <2>4, <3>1 DEF Counted, NodesCounted
  <2>10. Counted(t, H, D)
    BY <2>6, <2>8, <2>9 DEF Counted
  <2> QED BY <2>1, <2>2, <2>4, <2>10 DEF D, SameEntries
<1>5. CASE ~(s.ents[d].ref > 1)
  <2>1. s.ents[d].ref = 1 /\ C[d] = 1 /\ ~Listed(s, d)
    BY <1>2, <1>3, <1>5
  <2> DEFINE e == [x \in DOMAIN s.ents \ {d} |-> s.ents[x]]
             u == [s EXCEPT !.ents = e]
             o == s.ents[d].inode
             G == Plus(H, o, 1)
             D == PlusC(C, d, -C[d])
  <2>2. dirent_unref(s, d) = inode_unref(u, o)
    BY <1>5 DEF dirent_unref
  <2>3. Counted(u, G, D)
    BY <2>1, EntryGone
  <2>4. DOMAIN e = DOMAIN s.ents \ {d} /\ \A x \in DOMAIN e : e[x] = s.ents[x]
    OBVIOUS
  <2> HIDE DEF e
  <2>5. Parts(u) /\ u.nodes = s.nodes /\ u.lists = s.lists /\ u.ents = e
    BY <1>1, SetEnts
  <2>6. D = PlusC(C, d, -1)
    BY <2>1
  <2>7. G \in [Inodes -> Int] /\ Plus(G, o, -1) = H
    <3>1. G \in [Inodes -> Int] /\ \A i \in Inodes : G[i] = H[i] + (IF i = o THEN 1 ELSE 0)
      BY PlusInt
    <3>2. Plus(G, o, -1) \in [Inodes -> Int] /\ \A i \in Inodes : Plus(G, o, -1)[i] = G[i] + (IF i = o THEN -1 ELSE 0)
      BY <3>1, PlusInt
    <3>3. \A i \in Inodes : Plus(G, o, -1)[i] = H[i]
      <4> TAKE i \in Inodes
      <4>1. H[i] \in Int /\ G[i] = H[i] + (IF i = o THEN 1 ELSE 0) /\ Plus(G, o, -1)[i] = G[i] + (IF i = o THEN -1 ELSE 0)
        BY <3>1, <3>2
      <4> HIDE DEF G
      <4> QED BY <4>1
    <3> HIDE DEF G
    <3> QED BY <3>1, <3>2, <3>3
  <2> HIDE DEF u, o, G, D
  <2>8. /\ Counted(inode_unref(u, o), Plus(G, o, -1), D)
        /\ inode_unref(u, o).lists = u.lists /\ inode_unref(u, o).ents = u.ents
        /\ inode_unref(u, o).nodes = u.nodes
    BY <1>2, <2>3, <2>7, InodeUnref DEF o
  <2> QED BY <2>2, <2>4, <2>5, <2>6, <2>7, <2>8 DEF SameEntries
<1> QED BY <1>4, <1>5

Unlisted(s, t, d) == \A j \in Inodes : Members(t.lists[j]) = Members(s.lists[j]) \ {d}
Detached(s, i, d) == [s EXCEPT !.lists[i] = Keep(@, Dirents \ {d})]

\* dirent_detach: the entry that was in the list is under a reference of its own.
LEMMA Detach ==
    ASSUME NEW s, NEW H \in [Inodes -> Int], NEW C \in [Dirents -> Int], Counted(s, H, C),
           NEW i \in Inodes, NEW d \in Members(s.lists[i]), s.ents[d].inode # i
    PROVE  LET t == Detached(s, i, d)
           IN  /\ Counted(t, H, PlusC(C, d, 1))
               /\ t.nodes = s.nodes /\ t.ents = s.ents /\ d \in DOMAIN s.ents /\ d[1] = i /\ C[d] \in Int
               /\ Unlisted(s, t, d)
<1> DEFINE q == s.lists[i]
           K == Keep(q, Dirents \ {d})
           l == [s.lists EXCEPT ![i] = K]
           t == [s EXCEPT !.lists = l]
           D == PlusC(C, d, 1)
<1>1. /\ Parts(s) /\ s.lists \in [Inodes -> Seq(DOMAIN s.ents)] /\ q \in Seq(DOMAIN s.ents)
      /\ \A j \in Inodes : \A x \in Members(s.lists[j]) : x[1] = j
  BY DEF Counted, TreeOK, ListsOK
<1>2. Members(q) \subseteq DOMAIN s.ents /\ DOMAIN s.ents \subseteq Dirents
  BY <1>1 DEF Members, Counted, TreeOK, EntsOK
<1>3. d \in DOMAIN s.ents /\ d \in Dirents /\ d[1] = i /\ Listed(s, d) /\ C[d] \in Int
  BY <1>1, <1>2 DEF Listed
<1>4. K \in Seq(DOMAIN s.ents \ {d}) /\ Members(K) = Members(q) \ {d} /\ \A x : x # d => Times(K, x) = Times(q, x)
  <2>1. Members(q) \subseteq (Dirents \ {d}) \cup {d}
    BY <1>2
  <2> DEFINE T == Dirents \ {d}
             S == DOMAIN s.ents
  <2>2. q \in Seq(S) /\ d \notin T /\ Members(q) \subseteq T \cup {d}
    BY <1>1, <2>1
  <2> HIDE DEF q, T, S
  <2>3. /\ Keep(q, T) \in Seq(S \ {d}) /\ Members(Keep(q, T)) = Members(q) \ {d}
        /\ SameBut(d, Keep(q, T), q)
    BY ONLY <2>2, KeepWithout
  <2> QED BY <2>3 DEF T, S, SameBut
<1>5. Detached(s, i, d) = t
  BY <1>1 DEF Parts, Detached
<1> HIDE DEF K
<1>6. /\ l \in [Inodes -> Seq(DOMAIN s.ents)] /\ l[i] = K /\ \A j \in Inodes : j # i => l[j] = s.lists[j]
  <2>1. K \in Seq(DOMAIN s.ents)
    BY <1>4, SeqMonotonic
  <2> QED BY <1>1, <2>1
<1> HIDE DEF l
<1>7. Parts(t) /\ t.nodes = s.nodes /\ t.lists = l /\ t.ents = s.ents /\ t.due = s.due /\ t.at = s.at
  BY <1>1, SetLists
<1> HIDE DEF t
<1>8. D \in [Dirents -> Int] /\ \A x \in Dirents : D[x] = C[x] + (IF x = d THEN 1 ELSE 0)
  BY PlusCInt
<1> HIDE DEF D
<1>9. \A j \in Inodes : Members(l[j]) = Members(s.lists[j]) \ {d}
  <2> SUFFICES ASSUME NEW j \in Inodes PROVE Members(l[j]) = Members(s.lists[j]) \ {d}
    OBVIOUS
  <2>1. CASE j = i
    BY <1>4, <1>6, <2>1
  <2>2. CASE j # i
    <3>1. d \notin Members(s.lists[j])
      BY <1>1, <1>3, <2>2
    <3> QED BY <1>6, <2>2, <3>1
  <2> QED BY <2>1, <2>2
<1>10. ListsOK(t)
  <2>1. \A j \in Inodes : \A x \in Members(l[j]) : x[1] = j
    BY <1>1, <1>9
  <2>2. \A j \in Inodes : \A x \in DOMAIN s.ents : Times(l[j], x) <= 1
    <3> SUFFICES ASSUME NEW j \in Inodes, NEW x \in DOMAIN s.ents PROVE Times(l[j], x) <= 1
      OBVIOUS
    <3>1. Times(s.lists[j], x) <= 1
      BY DEF Counted, TreeOK, ListsOK
    <3>2. CASE j = i /\ x = d
      <4>1. Times(K, d) = 0
        <5>1. d \notin Members(K) /\ K \in Seq(DOMAIN s.ents \ {d})
          BY <1>4
        <5> QED BY <5>1, TimesNat
      <4> QED BY <1>6, <3>2, <4>1
    <3>3. CASE j = i /\ x # d
      BY <1>4, <1>6, <3>1, <3>3
    <3>4. CASE j # i
      BY <1>6, <3>1, <3>4
    <3> QED BY <3>2, <3>3, <3>4
  <2> QED BY <1>6, <1>7, <2>1, <2>2 DEF ListsOK
<1>11. TreeOK(t)
  BY <1>7, <1>10 DEF Counted, TreeOK, NodesOK, EntsOK
<1>12. \A x \in DOMAIN s.ents : Listed(t, x) <=> Listed(s, x) /\ x # d
  BY <1>7, <1>9, EntryTyped DEF Listed, Counted
<1>13. EntsCounted(t, D)
  <2>1. \A x \in DOMAIN s.ents : s.ents[x].ref = (IF Listed(t, x) THEN 1 ELSE 0) + D[x]
    <3> SUFFICES ASSUME NEW x \in DOMAIN s.ents PROVE s.ents[x].ref = (IF Listed(t, x) THEN 1 ELSE 0) + D[x]
      OBVIOUS
    <3>1. x \in Dirents /\ C[x] \in Int /\ D[x] = C[x] + (IF x = d THEN 1 ELSE 0)
      BY <1>2, <1>8
    <3>2. s.ents[x].ref = (IF Listed(s, x) THEN 1 ELSE 0) + C[x]
      BY DEF Counted, EntsCounted
    <3> QED BY <1>3, <1>12, <3>1, <3>2
  <2>2. \A x \in Dirents \ DOMAIN s.ents : D[x] = 0
    BY <1>3, <1>8 DEF Counted, EntsCounted
  <2> QED BY <1>7, <2>1, <2>2 DEF EntsCounted
<1>14. NodesCounted(t, H)
  <2>1. \A j \in Inodes : Refs(t, j) = Refs(s, j)
    BY <1>3, <1>7, <1>12 DEF Refs
  <2> QED BY <1>7, <2>1 DEF Counted, NodesCounted
<1>15. Counted(t, H, D)
  BY <1>11, <1>13, <1>14 DEF Counted
<1> QED BY <1>3, <1>5, <1>7, <1>9, <1>15 DEF D, Unlisted

\* Names that are removed, and what stays of a tree then.
Fewer(s, t) ==
    /\ t.nodes = s.nodes /\ SameEntries(s, t)
    /\ \A j \in Inodes : Members(t.lists[j]) \subseteq Members(s.lists[j])

\* dirent_detach and dirent_unref: the counts are right for what is left.
LEMMA RemoveCounted ==
    ASSUME NEW s, NEW H \in [Inodes -> Int], NEW C \in [Dirents -> Nat], Counted(s, H, C),
           NEW i \in Inodes, NEW d \in Members(s.lists[i]), s.ents[d].inode # i
    PROVE  /\ Counted(Remove(s, i, d), H, C) /\ Fewer(s, Remove(s, i, d))
           /\ Unlisted(s, Remove(s, i, d), d)
           /\ DOMAIN s.ents \ {d} \subseteq DOMAIN Remove(s, i, d).ents
<1> DEFINE t == Detached(s, i, d)
           D == PlusC(C, d, 1)
           r == dirent_unref(t, d)
<1>1. C \in [Dirents -> Int]
  OBVIOUS
<1>2. /\ Counted(t, H, D)
      /\ t.nodes = s.nodes /\ t.ents = s.ents /\ d \in DOMAIN s.ents /\ d[1] = i /\ C[d] \in Int
      /\ Unlisted(s, t, d)
  BY <1>1, Detach
<1>3. Remove(s, i, d) = r
  BY DEF Remove, Detached
<1> HIDE DEF t
<1>4. D \in [Dirents -> Int] /\ \A x \in Dirents : D[x] = C[x] + (IF x = d THEN 1 ELSE 0)
  BY <1>1, PlusCInt
<1>5. d \in Dirents
  BY <1>2, EntryTyped DEF Counted
<1>6. PlusC(D, d, -1) = C
  <2>1. PlusC(D, d, -1) \in [Dirents -> Int] /\ \A x \in Dirents : PlusC(D, d, -1)[x] = D[x] + (IF x = d THEN -1 ELSE 0)
    BY <1>4, PlusCInt
  <2>2. \A x \in Dirents : PlusC(D, d, -1)[x] = C[x]
    BY <1>1, <1>4, <2>1
  <2> HIDE DEF D
  <2> QED BY <1>1, <2>1, <2>2
<1>7. D[d] >= 1 /\ d \in DOMAIN t.ents
  BY <1>2, <1>4, <1>5
<1> HIDE DEF D
<1>8. /\ Counted(r, H, PlusC(D, d, -1)) /\ r.lists = t.lists /\ r.nodes = t.nodes
      /\ DOMAIN t.ents \ {d} \subseteq DOMAIN r.ents /\ SameEntries(t, r)
  BY <1>2, <1>4, <1>7, DirentUnref
<1> HIDE DEF r
<1>9. Fewer(s, r)
  BY <1>2, <1>8 DEF Fewer, SameEntries, Unlisted
<1> QED BY <1>2, <1>3, <1>6, <1>8, <1>9 DEF Unlisted

\* Some number tells a new entry from those there are.
LEMMA NewEntry ==
    ASSUME NEW s, TreeOK(s), scope \in Scopes, FreeDirents(s) > 0, NEW i \in Inodes, NEW nm \in Names \cup Dots
    PROVE  /\ NewDirent(s, i, nm) \in Dirents \ DOMAIN s.ents
           /\ NewDirent(s, i, nm)[1] = i
           /\ Cardinality(DOMAIN s.ents) + 1 <= NDirents /\ Cardinality(DOMAIN s.ents) \in Nat
           /\ IsFiniteSet(DOMAIN s.ents)
<1> DEFINE E == DOMAIN s.ents
           K == {k \in 1 .. NDirents : <<i, nm, k>> \notin E}
<1>1. IsFiniteSet(E) /\ Cardinality(E) \in Nat /\ NDirents \in Nat
  BY FS_CardinalityType, SizesAssumption DEF TreeOK, EntsOK
<1>2. scope.taken \in Nat
  BY ScopesAssumption
<1>3. Cardinality(E) < NDirents
  BY <1>1, <1>2 DEF FreeDirents
<1>4. K # {}
  <2> SUFFICES ASSUME K = {} PROVE FALSE
    OBVIOUS
  <2> DEFINE f == [k \in 1 .. NDirents |-> <<i, nm, k>>]
  <2>1. f \in [1 .. NDirents -> E]
    OBVIOUS
  <2>2. \A k, l \in 1 .. NDirents : f[k] = f[l] => k = l
    OBVIOUS
  <2> HIDE DEF f, E, K
  <2>3. NDirents <= Cardinality(E)
    BY <1>1, <2>1, <2>2, NoLongerThan
  <2> QED BY <1>1, <1>3, <2>3
<1>5. Least(K) \in K
  <2>1. K \in SUBSET Nat
    OBVIOUS
  <2> HIDE DEF K
  <2>2. \E x \in K : \A y \in K : x <= y
    BY <1>4, <2>1, LeastNumber
  <2> QED BY <2>2 DEF Least
<1>6. <<i, nm, Least(K)>> \in Dirents \ E
  BY <1>5 DEF Dirents
<1>7. NewDirent(s, i, nm) = <<i, nm, Least(K)>>
  BY DEF NewDirent
<1> HIDE DEF K, E
<1>8. NewDirent(s, i, nm) \in Dirents \ E /\ NewDirent(s, i, nm)[1] = i
  BY <1>6, <1>7
<1>9. Cardinality(E) + 1 <= NDirents
  BY <1>1, <1>3, SMTT(60)
<1> QED BY <1>1, <1>8, <1>9 DEF E

NewEnts(s, d, nm, j) == Added(s.ents, d, [name |-> nm, inode |-> j, ref |-> 1])
NewLists(s, d, i) == [s.lists EXCEPT ![i] = <<d>> \o @]
NewNodes(s, i, j) == [s.nodes EXCEPT ![j].ref = IF j = i THEN @ ELSE @ + 1]

\* registry_linkdirent by its three parts.
LEMMA LinkDef ==
    ASSUME NEW s, NEW i, NEW nm, NEW j
    PROVE  registry_linkdirent(s, i, nm, j) =
             [s EXCEPT !.ents = NewEnts(s, NewDirent(s, i, nm), nm, j), !.lists[i] = <<NewDirent(s, i, nm)>> \o @,
                       !.nodes[j].ref = IF j = i THEN @ ELSE @ + 1]
  BY DEF registry_linkdirent, NewEnts

\* What they make of a tree.
LEMMA LinkParts ==
    ASSUME NEW s, Parts(s), NEW i, NEW nm, NEW j
    PROVE  LET t == registry_linkdirent(s, i, nm, j)
           IN  /\ Parts(t) /\ t.ents = NewEnts(s, NewDirent(s, i, nm), nm, j)
               /\ t.lists = NewLists(s, NewDirent(s, i, nm), i)
               /\ t.nodes = NewNodes(s, i, j)
               /\ t.due = s.due /\ t.at = s.at
<1> DEFINE t == registry_linkdirent(s, i, nm, j)
           d == NewDirent(s, i, nm)
           e == NewEnts(s, d, nm, j)
           q == <<d>> \o s.lists[i]
           l == [s.lists EXCEPT ![i] = q]
           n == [s.nodes EXCEPT ![j].ref = IF j = i THEN @ ELSE @ + 1]
<1>1. t = [s EXCEPT !.ents = e, !.lists[i] = <<d>> \o @, !.nodes[j].ref = IF j = i THEN @ ELSE @ + 1]
  BY LinkDef
<1> HIDE DEF t, d, e
<1>2. t = [s EXCEPT !.ents = e, !.lists[i] = q, !.nodes[j].ref = IF j = i THEN @ ELSE @ + 1]
  BY <1>1 DEF Parts
<1> HIDE DEF q
<1>3. t = [s EXCEPT !.ents = e, !.lists = l, !.nodes = n]
  BY <1>2 DEF Parts
<1> HIDE DEF l, n
<1>4. Parts(t) /\ t.nodes = n /\ t.lists = l /\ t.ents = e /\ t.due = s.due /\ t.at = s.at
  <2>1. t.nodes = n /\ t.lists = l /\ t.ents = e /\ t.due = s.due /\ t.at = s.at
    BY <1>3 DEF Parts
  <2>2. Parts(t)
    BY <1>3 DEF Parts
  <2> QED BY <2>1, <2>2
<1>5. l = NewLists(s, d, i) /\ n = NewNodes(s, i, j)
  BY DEF l, n, q, NewLists, NewNodes
<1> HIDE DEF q
<1>6. Parts(t) /\ t.nodes = NewNodes(s, i, j) /\ t.lists = NewLists(s, d, i) /\ t.ents = e /\ t.due = s.due /\ t.at = s.at
  BY <1>4, <1>5
<1> QED BY <1>6 DEF t, d, e

\* What a new name changes.
Linked(s, t, i, nm, j) ==
    LET d == NewDirent(s, i, nm)
    IN  /\ DOMAIN t.ents = DOMAIN s.ents \cup {d} /\ d \notin DOMAIN s.ents /\ d[1] = i
        /\ t.ents[d] = [name |-> nm, inode |-> j, ref |-> 1]
        /\ \A x \in DOMAIN s.ents : t.ents[x] = s.ents[x]
        /\ Members(t.lists[i]) = Members(s.lists[i]) \cup {d}
        /\ \A k \in Inodes : k # i => t.lists[k] = s.lists[k]
        /\ t.at = s.at /\ t.due = s.due
Linkable(s, i, nm, j, r) ==
    /\ scope \in Scopes /\ FreeDirents(s) > 0
    /\ i \in Inodes /\ j \in Inodes /\ nm \in Names \cup Dots
    /\ r \in NodeType /\ r.type # "none" /\ r.ref = s.nodes[j].ref /\ (r.ref = 0 => i # j)
    /\ (j = Root => r.type = "dir" /\ nm \in Dots)
LinkInto(s, i, nm, j, r) == registry_linkdirent([s EXCEPT !.nodes[j] = r], i, nm, j)
NodesLinked(s, i, j, r) == [s.nodes EXCEPT ![j] = [r EXCEPT !.ref = IF j = i THEN @ ELSE @ + 1]]

\* registry_linkdirent: the new entry is counted once, and its inode once unless
\* the entry is the directory's own.
LEMMA LinkCounted ==
    ASSUME NEW s, NEW H \in [Inodes -> Int], NEW C \in [Dirents -> Int], Counted(s, H, C),
           NEW i, NEW nm, NEW j, NEW r, Linkable(s, i, nm, j, r)
    PROVE  /\ Counted(LinkInto(s, i, nm, j, r), H, C) /\ Linked(s, LinkInto(s, i, nm, j, r), i, nm, j)
           /\ LinkInto(s, i, nm, j, r).nodes = NodesLinked(s, i, j, r)
<1>  /\ scope \in Scopes /\ FreeDirents(s) > 0
     /\ i \in Inodes /\ j \in Inodes /\ nm \in Names \cup Dots
     /\ r \in NodeType /\ r.type # "none" /\ r.ref = s.nodes[j].ref /\ (r.ref = 0 => i # j)
     /\ (j = Root => r.type = "dir" /\ nm \in Dots)
  BY DEF Linkable
<1> DEFINE d == NewDirent(s, i, nm)
           new == [name |-> nm, inode |-> j, ref |-> 1]
           e == [x \in DOMAIN s.ents \cup {d} |-> IF x = d THEN new ELSE s.ents[x]]
           q == <<d>> \o s.lists[i]
           l == [s.lists EXCEPT ![i] = q]
           rr == [r EXCEPT !.ref = IF j = i THEN @ ELSE @ + 1]
           n == [s.nodes EXCEPT ![j] = rr]
           u == [s EXCEPT !.nodes[j] = r]
           t == registry_linkdirent(u, i, nm, j)
<1>1. /\ Parts(s) /\ TreeOK(s) /\ s.lists \in [Inodes -> Seq(DOMAIN s.ents)] /\ s.nodes \in [Inodes -> NodeType]
      /\ DOMAIN s.ents \subseteq Dirents /\ s.ents \in [DOMAIN s.ents -> EntryType]
  BY DEF Counted, TreeOK, ListsOK, NodesOK, EntsOK
<1>2. /\ d \in Dirents \ DOMAIN s.ents /\ d[1] = i
      /\ Cardinality(DOMAIN s.ents) + 1 <= NDirents /\ Cardinality(DOMAIN s.ents) \in Nat /\ IsFiniteSet(DOMAIN s.ents)
  BY <1>1, NewEntry
<1>3. Parts(t) /\ t.nodes = n /\ t.lists = l /\ t.ents = e /\ t.due = s.due /\ t.at = s.at
  <2> DEFINE v == [s.nodes EXCEPT ![j] = r]
             w == [s EXCEPT !.nodes = v]
  <2>1. u = w
    BY <1>1 DEF Parts
  <2> HIDE DEF v
  <2>2. Parts(w) /\ w.nodes = v /\ w.lists = s.lists /\ w.ents = s.ents /\ w.due = s.due /\ w.at = s.at
    BY <1>1, SetNodes
  <2> HIDE DEF u, w
  <2>3. v \in [Inodes -> NodeType] /\ [v EXCEPT ![j].ref = IF j = i THEN @ ELSE @ + 1] = n
    BY <1>1 DEF v, NodeType
  <2>4. NewDirent(u, i, nm) = d /\ NewEnts(u, d, nm, j) = e
    BY <2>1, <2>2 DEF NewDirent, NewEnts, Added
  <2> HIDE DEF t, d, e, n
  <2>5. /\ Parts(t) /\ t.ents = NewEnts(u, NewDirent(u, i, nm), nm, j)
        /\ t.lists = NewLists(u, NewDirent(u, i, nm), i)
        /\ t.nodes = NewNodes(u, i, j)
        /\ t.due = u.due /\ t.at = u.at
    <3>1. Parts(u)
      BY <2>1, <2>2
    <3> QED BY ONLY <3>1, LinkParts DEF t
  <2>6. NewNodes(u, i, j) = n
    BY <2>1, <2>2, <2>3 DEF NewNodes
  <2>7. NewLists(u, d, i) = l
    BY <2>1, <2>2 DEF NewLists
  <2> HIDE DEF l
  <2> QED BY <2>1, <2>2, <2>4, <2>5, <2>6, <2>7
<1> HIDE DEF d
<1>4. /\ DOMAIN e = DOMAIN s.ents \cup {d} /\ e[d] = new /\ \A x \in DOMAIN s.ents : e[x] = s.ents[x]
      /\ new \in EntryType
  BY <1>2 DEF EntryType
<1>5. q \in Seq(DOMAIN s.ents \cup {d}) /\ \A x : Times(q, x) = Times(s.lists[i], x) + (IF x = d THEN 1 ELSE 0)
  <2> DEFINE S == DOMAIN s.ents \cup {d}
             p == s.lists[i]
  <2>1. p \in Seq(DOMAIN s.ents) /\ DOMAIN s.ents \subseteq S /\ d \in S
    BY <1>1
  <2> HIDE DEF S, p
  <2>2. p \in Seq(S) /\ <<d>> \in Seq(S)
    BY <2>1, SeqMonotonic
  <2>3. q \in Seq(S)
    BY <2>2, ConcatProperties DEF p
  <2>4. \A x : Times(q, x) = Times(p, x) + (IF x = d THEN 1 ELSE 0)
    <3> TAKE x
    <3>1. Times(<<d>> \o p, x) = Times(<<d>>, x) + Times(p, x)
      BY <2>2, TimesConcat
    <3>2. Times(<<d>>, x) = IF x = d THEN 1 ELSE 0
      BY TimesOne
    <3>3. Times(p, x) \in Nat
      BY <2>2, TimesNat
    <3> QED BY <3>1, <3>2, <3>3 DEF p
  <2> QED BY <2>3, <2>4 DEF S, p
<1>6. \A k \in Inodes : \A x \in Members(s.lists[k]) : x \in DOMAIN s.ents /\ x[1] = k
  BY <1>1 DEF Counted, TreeOK, ListsOK, Members
<1>7. Times(s.lists[i], d) = 0
  BY <1>1, <1>2, <1>6, TimesNat
<1>8. Members(q) = Members(s.lists[i]) \cup {d}
  <2> DEFINE S == DOMAIN s.ents \cup {d}
             p == s.lists[i]
  <2>1. q \in Seq(S) /\ p \in Seq(DOMAIN s.ents)
    BY <1>1, <1>5
  <2>2. \A x : Times(q, x) = Times(p, x) + (IF x = d THEN 1 ELSE 0)
    BY <1>5
  <2> HIDE DEF S, p, q
  <2>3. \A x : (x \in Members(q) <=> Times(q, x) # 0) /\ (x \in Members(p) <=> Times(p, x) # 0) /\ Times(p, x) \in Nat
    BY <2>1, TimesNat
  <2>4. \A x : x \in Members(q) <=> x \in Members(p) \cup {d}
    <3> TAKE x
    <3> QED BY <2>2, <2>3
  <2> QED BY <2>4 DEF p
<1> HIDE DEF q
<1>9. /\ l \in [Inodes -> Seq(DOMAIN e)] /\ l[i] = q /\ \A k \in Inodes : k # i => l[k] = s.lists[k]
  <2>1. \A k \in Inodes : s.lists[k] \in Seq(DOMAIN e)
    BY <1>1, <1>4, SeqMonotonic
  <2> HIDE DEF e
  <2> QED BY <1>1, <1>4, <1>5, <2>1
<1> HIDE DEF e, l, n
<1> HIDE DEF t
<1>10. Parts(t) /\ t.nodes = n /\ t.lists = l /\ t.ents = e /\ t.due = s.due /\ t.at = s.at
  BY <1>3
<1>11. NodesOK(t)
  <2>1. rr \in NodeType /\ rr.type = r.type /\ rr.ref = (IF j = i THEN r.ref ELSE r.ref + 1) /\ r.ref \in Nat
    BY DEF NodeType
  <2> HIDE DEF rr
  <2>2. \A k \in Inodes : n[k] = IF k = j THEN rr ELSE s.nodes[k]
    BY <1>1 DEF n
  <2>3. n \in [Inodes -> NodeType]
    BY <1>1, <2>1 DEF n
  <2>4. \A k \in Inodes : n[k].ref = 0 => n[k] = NoInode
    <3> SUFFICES ASSUME NEW k \in Inodes, n[k].ref = 0 PROVE n[k] = NoInode
      OBVIOUS
    <3>1. k # j
      BY <2>1, <2>2
    <3> QED BY <2>2, <3>1 DEF Counted, TreeOK, NodesOK
  <2>5. \A k \in Inodes : n[k].ref # 0 => n[k].type # "none"
    BY <2>1, <2>2 DEF Counted, TreeOK, NodesOK
  <2>6. n[Root].type = "dir"
    BY <2>1, <2>2, RootInodes DEF Counted, TreeOK, NodesOK
  <2> QED BY <1>10, <2>3, <2>4, <2>5, <2>6 DEF NodesOK
<1>12. EntsOK(t)
  <2>1. IsFiniteSet(DOMAIN e) /\ Cardinality(DOMAIN e) <= NDirents
    <3> DEFINE E == DOMAIN s.ents
    <3> HIDE DEF E
    <3>1. IsFiniteSet(E \cup {d}) /\ Cardinality(E \cup {d}) = Cardinality(E) + 1
      BY <1>2, FS_AddElement DEF E
    <3> QED BY <1>2, <1>4, <3>1 DEF E
  <2>2. e \in [DOMAIN e -> EntryType]
    <3>1. \A x \in DOMAIN e : e[x] \in EntryType
      BY <1>1, <1>4
    <3>2. e = [x \in DOMAIN e |-> e[x]]
      BY DEF e
    <3> QED BY <3>1, <3>2
  <2>3. \A x \in DOMAIN e : e[x].inode = Root => e[x].name \in Dots
    BY <1>4 DEF Counted, TreeOK, EntsOK
  <2>4. DOMAIN e \subseteq Dirents
    BY <1>1, <1>2, <1>4
  <2> QED BY <1>10, <2>1, <2>2, <2>3, <2>4 DEF EntsOK
<1>13. ListsOK(t)
  <2>1. \A k \in Inodes : \A x \in Members(l[k]) : x[1] = k
    <3> SUFFICES ASSUME NEW k \in Inodes, NEW x \in Members(l[k]) PROVE x[1] = k
      OBVIOUS
    <3>1. CASE k = i
      BY <1>2, <1>6, <1>8, <1>9, <3>1
    <3>2. CASE k # i
      BY <1>6, <1>9, <3>2
    <3> QED BY <3>1, <3>2
  <2>2. \A k \in Inodes : \A x \in DOMAIN e : Times(l[k], x) <= 1
    <3> SUFFICES ASSUME NEW k \in Inodes, NEW x \in DOMAIN e PROVE Times(l[k], x) <= 1
      OBVIOUS
    <3>1. Times(s.lists[k], x) <= 1
      <4>1. CASE x \in DOMAIN s.ents
        BY <4>1 DEF Counted, TreeOK, ListsOK
      <4>2. CASE x \notin DOMAIN s.ents
        BY <1>1, <1>6, <4>2, TimesNat
      <4> QED BY <4>1, <4>2
    <3>2. CASE k = i /\ x = d
      BY <1>5, <1>7, <1>9, <3>2
    <3>3. CASE k = i /\ x # d
      <4>1. Times(q, x) = Times(s.lists[i], x) + 0 /\ Times(s.lists[i], x) \in Nat
        BY <1>1, <1>5, <3>3, TimesNat
      <4> QED BY <1>9, <3>1, <3>3, <4>1
    <3>4. CASE k # i
      BY <1>9, <3>1, <3>4
    <3> QED BY <3>2, <3>3, <3>4
  <2> QED BY <1>9, <1>10, <2>1, <2>2 DEF ListsOK
<1>14. TreeOK(t)
  BY <1>10, <1>11, <1>12, <1>13 DEF Counted, TreeOK
<1>15. Listed(t, d) /\ \A x \in DOMAIN s.ents : Listed(t, x) <=> Listed(s, x)
  <2>1. Listed(t, d)
    BY <1>2, <1>8, <1>9, <1>10 DEF Listed
  <2>2. ASSUME NEW x \in DOMAIN s.ents PROVE Listed(t, x) <=> Listed(s, x)
    <3>1. x # d /\ x[1] \in Inodes
      BY <1>1, <1>2, EntryTyped
    <3> QED BY <1>8, <1>9, <1>10, <3>1 DEF Listed
  <2> QED BY <2>1, <2>2
<1>16. EntsCounted(t, C)
  <2>1. C[d] = 0
    BY <1>2 DEF Counted, EntsCounted
  <2>2. \A x \in DOMAIN e : e[x].ref = (IF Listed(t, x) THEN 1 ELSE 0) + C[x]
    <3> SUFFICES ASSUME NEW x \in DOMAIN e PROVE e[x].ref = (IF Listed(t, x) THEN 1 ELSE 0) + C[x]
      OBVIOUS
    <3>1. CASE x = d
      BY <1>4, <1>15, <2>1, <3>1
    <3>2. CASE x # d
      BY <1>4, <1>15, <3>2 DEF Counted, EntsCounted
    <3> QED BY <3>1, <3>2
  <2>3. \A x \in Dirents \ DOMAIN e : C[x] = 0
    BY <1>4 DEF Counted, EntsCounted
  <2> QED BY <1>10, <2>2, <2>3 DEF EntsCounted
<1>17. NodesCounted(t, H)
  <2> SUFFICES ASSUME NEW k \in Inodes
               PROVE  t.nodes[k].ref = Cardinality(Refs(t, k)) + Times(t.due, k) + H[k]
    BY DEF NodesCounted
  <2>1. IsFiniteSet(Refs(s, k)) /\ Cardinality(Refs(s, k)) \in Nat /\ Times(s.due, k) \in Nat
    BY RefsFinite, TimesNat DEF Counted, TreeOK, EntsOK
  <2>2. s.nodes[k].ref = Cardinality(Refs(s, k)) + Times(s.due, k) + H[k] /\ H[k] \in Int
    BY DEF Counted, NodesCounted
  <2>3. d \notin Refs(s, k)
    BY <1>2 DEF Refs
  <2>4. CASE k = j /\ j # i
    <3>1. Refs(t, k) = Refs(s, k) \cup {d}
      BY <1>2, <1>4, <1>10, <1>15, <2>4 DEF Refs
    <3>2. Cardinality(Refs(t, k)) = Cardinality(Refs(s, k)) + 1
      BY <2>1, <2>3, <3>1, FS_AddElement
    <3>3. t.nodes[k].ref = s.nodes[k].ref + 1
      BY <1>1, <1>10, <2>4 DEF n, NodeType
    <3> QED BY <1>10, <2>1, <2>2, <3>2, <3>3
  <2>5. CASE k # j \/ j = i
    <3>1. Refs(t, k) = Refs(s, k)
      BY <1>2, <1>4, <1>10, <1>15, <2>5 DEF Refs
    <3>2. t.nodes[k].ref = s.nodes[k].ref
      BY <1>1, <1>10, <2>5 DEF n, NodeType
    <3> QED BY <1>10, <2>1, <2>2, <3>1, <3>2
  <2> QED BY <2>4, <2>5
<1>18. Counted(t, H, C)
  BY <1>14, <1>16, <1>17 DEF Counted
<1>19. Linked(s, t, i, nm, j)
  BY <1>2, <1>4, <1>8, <1>9, <1>10 DEF Linked, d
<1>20. n = [s.nodes EXCEPT ![j] = [r EXCEPT !.ref = IF j = i THEN @ ELSE @ + 1]]
  BY DEF n
<1>21. Counted(t, H, C) /\ Linked(s, t, i, nm, j) /\ t.nodes = n
  BY <1>10, <1>18, <1>19, <1>20
<1> QED BY <1>21, Zenon DEF t, u, n, rr, LinkInto, NodesLinked

\* An entry is renamed, or comes to stand for another inode.
LEMMA EntryChange ==
    ASSUME NEW s, NEW H, NEW C, Counted(s, H, C), NEW d \in DOMAIN s.ents,
           NEW x \in EntryType, x.ref = s.ents[d].ref, x.inode = Root => x.name \in Dots
    PROVE  LET t == [s EXCEPT !.ents[d] = x]
           IN  /\ TreeOK(t) /\ EntsCounted(t, C) /\ Parts(t)
               /\ t.nodes = s.nodes /\ t.lists = s.lists /\ t.ents = [s.ents EXCEPT ![d] = x]
               /\ t.due = s.due /\ t.at = s.at
<1> DEFINE e == [s.ents EXCEPT ![d] = x]
           u == [s EXCEPT !.ents = e]
           t == [s EXCEPT !.ents[d] = x]
<1>1. Parts(s) /\ s.ents \in [DOMAIN s.ents -> EntryType]
  BY DEF Counted, TreeOK, EntsOK
<1>2. t = u
  BY <1>1 DEF Parts
<1> HIDE DEF e
<1>3. Parts(u) /\ u.nodes = s.nodes /\ u.lists = s.lists /\ u.ents = e /\ u.due = s.due /\ u.at = s.at
  BY <1>1, SetEnts
<1> HIDE DEF u, t
<1>4. DOMAIN e = DOMAIN s.ents /\ e \in [DOMAIN s.ents -> EntryType] /\ e[d] = x
      /\ \A y \in DOMAIN s.ents : (y # d => e[y] = s.ents[y]) /\ e[y].ref = s.ents[y].ref
  BY <1>1 DEF e
<1>5. EntsOK(u)
  BY <1>3, <1>4 DEF EntsOK, Counted, TreeOK
<1>6. TreeOK(u)
  BY <1>3, <1>4, <1>5 DEF Counted, TreeOK, NodesOK, ListsOK
<1>7. EntsCounted(u, C)
  BY <1>3, <1>4 DEF Counted, EntsCounted, Listed
<1> QED BY <1>2, <1>3, <1>6, <1>7 DEF t, e

\* An entry's name is in no count.
LEMMA EntryRenamed ==
    ASSUME NEW s, NEW H, NEW C, Counted(s, H, C), NEW d \in DOMAIN s.ents, NEW nm \in Names \cup Dots,
           s.ents[d].inode # Root
    PROVE  Counted([s EXCEPT !.ents[d].name = nm], H, C)
<1> DEFINE x == [s.ents[d] EXCEPT !.name = nm]
           t == [s EXCEPT !.ents[d] = x]
<1>1. Parts(s) /\ s.ents[d] \in EntryType
  BY EntryTyped DEF Counted, TreeOK
<1>2. [s EXCEPT !.ents[d].name = nm] = t
  BY <1>1 DEF Parts
<1>3. x \in EntryType /\ x.ref = s.ents[d].ref /\ x.inode = s.ents[d].inode
  BY <1>1 DEF EntryType
<1> HIDE DEF x
<1>4. /\ TreeOK(t) /\ EntsCounted(t, C) /\ t.nodes = s.nodes /\ t.lists = s.lists /\ t.ents = [s.ents EXCEPT ![d] = x]
      /\ t.due = s.due
  BY <1>3, EntryChange
<1> HIDE DEF t
<1>5. \A i \in Inodes : Refs(t, i) = Refs(s, i)
  BY <1>3, <1>4 DEF Refs, Listed
<1>6. NodesCounted(t, H)
  BY <1>4, <1>5 DEF Counted, NodesCounted
<1> QED BY <1>2, <1>4, <1>6 DEF Counted

\* The ".." of a directory that moves: one parent loses a holder that the other
\* gains.
LEMMA EntryMoves ==
    ASSUME NEW s, NEW H \in [Inodes -> Int], NEW C, Counted(s, H, C), NEW d \in DOMAIN s.ents,
           NEW n \in Inodes, n # s.ents[d].inode, d[1] # n, d[1] # s.ents[d].inode,
           n = Root => s.ents[d].name \in Dots
    PROVE  LET t == [s EXCEPT !.ents[d].inode = n]
           IN  /\ Counted(t, Plus(Plus(H, n, -1), s.ents[d].inode, 1), C)
               /\ t.nodes = s.nodes /\ t.lists = s.lists
               /\ t.ents = [s.ents EXCEPT ![d].inode = n]
<1> DEFINE x == [s.ents[d] EXCEPT !.inode = n]
           t == [s EXCEPT !.ents[d] = x]
           o == s.ents[d].inode
           G == Plus(Plus(H, n, -1), o, 1)
<1>1. Parts(s) /\ s.ents[d] \in EntryType /\ o \in Inodes
  BY EntryTyped DEF Counted, TreeOK
<1>2. [s EXCEPT !.ents[d].inode = n] = t /\ [s.ents EXCEPT ![d].inode = n] = [s.ents EXCEPT ![d] = x]
  BY <1>1 DEF Parts
<1>3. x \in EntryType /\ x.ref = s.ents[d].ref /\ x.inode = n /\ x.name = s.ents[d].name
  BY <1>1 DEF EntryType
<1> HIDE DEF x
<1>4. /\ TreeOK(t) /\ EntsCounted(t, C) /\ t.nodes = s.nodes /\ t.lists = s.lists /\ t.ents = [s.ents EXCEPT ![d] = x]
      /\ t.due = s.due
  BY <1>3, EntryChange
<1> HIDE DEF t
<1>5. /\ G \in [Inodes -> Int]
      /\ \A i \in Inodes : G[i] = H[i] + (IF i = n THEN -1 ELSE 0) + (IF i = o THEN 1 ELSE 0)
  <2> DEFINE G1 == Plus(H, n, -1)
  <2>1. G1 \in [Inodes -> Int] /\ \A i \in Inodes : G1[i] = H[i] + (IF i = n THEN -1 ELSE 0)
    BY PlusInt
  <2> HIDE DEF G1
  <2>2. Plus(G1, o, 1) \in [Inodes -> Int] /\ \A i \in Inodes : Plus(G1, o, 1)[i] = G1[i] + (IF i = o THEN 1 ELSE 0)
    BY <2>1, PlusInt
  <2> QED BY <2>1, <2>2 DEF G1
<1> HIDE DEF G
<1>6. NodesCounted(t, G)
  <2> SUFFICES ASSUME NEW i \in Inodes
               PROVE  t.nodes[i].ref = Cardinality(Refs(t, i)) + Times(t.due, i) + G[i]
    BY DEF NodesCounted
  <2>1. IsFiniteSet(Refs(s, i)) /\ Cardinality(Refs(s, i)) \in Nat /\ Times(s.due, i) \in Nat
    BY RefsFinite, TimesNat DEF Counted, TreeOK, EntsOK
  <2>2. s.nodes[i].ref = Cardinality(Refs(s, i)) + Times(s.due, i) + H[i] /\ H[i] \in Int
    BY DEF Counted, NodesCounted
  <2>3. \A y \in DOMAIN s.ents : (y # d => t.ents[y] = s.ents[y]) /\ t.ents[d] = x /\ DOMAIN t.ents = DOMAIN s.ents
    BY <1>4
  <2>4. d \in Refs(s, i) <=> i = o
    BY <1>1 DEF Refs
  <2>5. CASE i = n
    <3>1. Refs(t, i) = Refs(s, i) \cup {d}
      BY <1>3, <1>4, <2>3, <2>5 DEF Refs, Listed
    <3>2. Cardinality(Refs(t, i)) = Cardinality(Refs(s, i)) + 1
      BY <2>1, <2>4, <2>5, <3>1, FS_AddElement
    <3>3. G[i] = H[i] - 1
      BY <1>5, <2>2, <2>5
    <3> QED BY <1>4, <2>1, <2>2, <3>2, <3>3
  <2>6. CASE i = o
    <3>1. Refs(t, i) = Refs(s, i) \ {d}
      BY <1>3, <1>4, <2>3, <2>6 DEF Refs, Listed
    <3>2. Cardinality(Refs(t, i)) = Cardinality(Refs(s, i)) - 1
      BY <2>1, <2>4, <2>6, <3>1, FS_RemoveElement, ZenonT(60)
    <3>3. G[i] = H[i] + 1
      BY <1>5, <2>2, <2>6
    <3> QED BY <1>4, <2>1, <2>2, <3>2, <3>3
  <2>7. CASE i # n /\ i # o
    <3>1. Refs(t, i) = Refs(s, i)
      BY <1>3, <1>4, <2>3, <2>7 DEF Refs, Listed
    <3>2. G[i] = H[i]
      BY <1>5, <2>2, <2>7
    <3> QED BY <1>4, <2>1, <2>2, <3>1, <3>2
  <2> QED BY <2>5, <2>6, <2>7
<1> QED BY <1>2, <1>4, <1>6 DEF Counted, G

\* inode_unref of an inode that others hold.
LEMMA DropOne ==
    ASSUME NEW s, NEW H \in [Inodes -> Nat], NEW C, Counted(s, H, C), s.due # <<>>, s.nodes[Head(s.due)].ref # 1,
           NEW t, Parts(t), t.nodes = [s.nodes EXCEPT ![Head(s.due)].ref = @ - 1], t.lists = s.lists,
           t.ents = s.ents, t.due = Tail(s.due), t.at \in InodeOrNone
    PROVE  Counted(t, H, C)
<1> DEFINE i == Head(s.due)
<1>1. s.due \in Seq(Inodes) /\ s.nodes \in [Inodes -> NodeType] /\ TreeOK(s)
  BY DEF Counted, TreeOK, NodesOK
<1>2. /\ i \in Inodes /\ t.due \in Seq(Inodes)
      /\ \A x : Times(s.due, x) = Times(t.due, x) + (IF x = i THEN 1 ELSE 0)
  BY <1>1, TimesTail
<1> HIDE DEF i
<1>3. \A x : Times(t.due, x) \in Nat /\ Times(s.due, x) \in Nat
  BY <1>1, <1>2, TimesNat
<1>4. \A j \in Inodes : /\ Cardinality(Refs(s, j)) \in Nat
                        /\ s.nodes[j].ref = Cardinality(Refs(s, j)) + Times(s.due, j) + H[j]
  BY RefsFinite DEF Counted, TreeOK, EntsOK, NodesCounted
<1>5. s.nodes[i].ref \in Nat /\ s.nodes[i].ref > 1
  <2>1. Times(s.due, i) >= 1
    BY <1>2, <1>3
  <2>2. s.nodes[i].ref # 1
    BY DEF i
  <2>3. Cardinality(Refs(s, i)) \in Nat /\ s.nodes[i].ref = Cardinality(Refs(s, i)) + Times(s.due, i) + H[i] /\ H[i] \in Nat
    BY <1>2, <1>4
  <2> QED BY <1>3, <2>1, <2>2, <2>3
<1>6. /\ t.nodes \in [Inodes -> NodeType]
      /\ t.nodes[i].ref = s.nodes[i].ref - 1 /\ t.nodes[i].type = s.nodes[i].type
      /\ \A j \in Inodes : j # i => t.nodes[j] = s.nodes[j]
  <2>1. t.nodes = [s.nodes EXCEPT ![i] = [s.nodes[i] EXCEPT !.ref = s.nodes[i].ref - 1]]
    BY DEF i
  <2>2. s.nodes[i] \in NodeType
    BY <1>1, <1>2
  <2>3. [s.nodes[i] EXCEPT !.ref = s.nodes[i].ref - 1] \in NodeType
    BY <1>5, <2>2 DEF NodeType
  <2> DEFINE r == [s.nodes[i] EXCEPT !.ref = s.nodes[i].ref - 1]
  <2>4. r.ref = s.nodes[i].ref - 1 /\ r.type = s.nodes[i].type
    BY <2>2 DEF NodeType
  <2>5. t.nodes = [s.nodes EXCEPT ![i] = r] /\ r \in NodeType
    BY <2>1, <2>3
  <2> HIDE DEF r
  <2> QED BY <1>1, <1>2, <2>4, <2>5
<1>7. NodesOK(t)
  <2> SUFFICES ASSUME NEW j \in Inodes
               PROVE  /\ t.nodes[j].ref = 0 => t.nodes[j] = NoInode
                      /\ t.nodes[j].ref # 0 => t.nodes[j].type # "none"
                      /\ j = Root => t.nodes[j].type = "dir"
    BY <1>6, RootInodes, Zenon DEF NodesOK
  <2>1. /\ s.nodes[j].ref = 0 => s.nodes[j] = NoInode
        /\ s.nodes[j].ref # 0 => s.nodes[j].type # "none"
        /\ j = Root => s.nodes[j].type = "dir"
    BY <1>1 DEF TreeOK, NodesOK
  <2>2. CASE j = i
    BY <1>5, <1>6, <2>1, <2>2
  <2>3. CASE j # i
    BY <1>6, <2>1, <2>3
  <2> QED BY <2>2, <2>3, SMTT(60)
<1>8. TreeOK(t)
  BY <1>1, <1>2, <1>7 DEF TreeOK, EntsOK, ListsOK
<1>9. EntsCounted(t, C)
  BY DEF Counted, EntsCounted, Listed
<1>10. NodesCounted(t, H)
  <2> SUFFICES ASSUME NEW j \in Inodes
               PROVE  t.nodes[j].ref = Cardinality(Refs(t, j)) + Times(t.due, j) + H[j]
    BY DEF NodesCounted
  <2>1. Refs(t, j) = Refs(s, j)
    BY DEF Refs, Listed
  <2>2. /\ Cardinality(Refs(s, j)) \in Nat /\ H[j] \in Nat
        /\ s.nodes[j].ref = Cardinality(Refs(s, j)) + Times(s.due, j) + H[j]
    BY <1>4
  <2>3. t.nodes[j].ref = s.nodes[j].ref - (IF j = i THEN 1 ELSE 0)
    <3>1. CASE j = i
      BY <1>6, <3>1
    <3>2. CASE j # i
      <4>1. s.nodes[j].ref \in Nat
        BY <1>1 DEF NodeType
      <4>2. t.nodes[j] = s.nodes[j]
        BY <1>6, <3>2
      <4> QED BY ONLY <3>2, <4>1, <4>2
    <3> QED BY <3>1, <3>2
  <2>4. Times(s.due, j) = Times(t.due, j) + (IF j = i THEN 1 ELSE 0)
    BY <1>2
  <2> QED BY <1>3, <2>1, <2>2, <2>3, <2>4
<1> QED BY <1>8, <1>9, <1>10 DEF Counted

\* The inodes that the entries of a destroyed directory stand for.
TargetsIn(s, i, T) ==
    LET gone == Keep(s.lists[i], T)
        targets == Keep([k \in DOMAIN gone |-> s.ents[gone[k]].inode], Inodes \ {i})
    IN  /\ {gone[k] : k \in DOMAIN gone} = Members(s.lists[i])
        /\ targets \in Seq(Inodes)
        /\ \A x \in Inodes :
              Times(targets, x) = IF x = i THEN 0
                                  ELSE Cardinality({d \in Members(s.lists[i]) : s.ents[d].inode = x})

\* Each inode is unref'd as often as entries that go stand for it.
LEMMA TargetsCount ==
    ASSUME NEW s, TreeOK(s), NEW i \in Inodes, NEW T, Members(s.lists[i]) \subseteq T
    PROVE  TargetsIn(s, i, T)
<1> DEFINE q == s.lists[i]
           gone == Keep(q, T)
           p == [k \in DOMAIN gone |-> s.ents[gone[k]].inode]
           targets == Keep(p, Inodes \ {i})
           S == DOMAIN s.ents
<1>1. q \in Seq(S) /\ \A d \in S : Times(q, d) <= 1
  BY DEF TreeOK, ListsOK
<1>2. gone \in Seq(S \cap T) /\ \A x : Times(gone, x) = IF x \in T THEN Times(q, x) ELSE 0
  <2>1. q \in Seq(S)
    BY <1>1
  <2> HIDE DEF q, S
  <2> QED BY ONLY <2>1, KeepSeq
<1> HIDE DEF gone
<1>3. gone \in Seq(S)
  <2>1. S \cap T \subseteq S
    OBVIOUS
  <2> QED BY <1>2, <2>1, SeqMonotonic
<1>4. Members(q) \subseteq T
  OBVIOUS
<1> HIDE DEF q
<1>5. \A x : Times(gone, x) = Times(q, x)
  <2> TAKE x
  <2>1. CASE x \in T
    BY <1>2, <2>1
  <2>2. CASE x \notin T
    <3>1. x \notin Members(q)
      BY <1>4, <2>2
    <3> QED BY <1>1, <1>2, <2>2, <3>1, TimesNat
  <2> QED BY <2>1, <2>2
<1>6. Members(gone) = Members(q)
  <2>1. \A x : (x \in Members(gone) <=> Times(gone, x) # 0) /\ (x \in Members(q) <=> Times(q, x) # 0)
    BY <1>1, <1>3, TimesNat
  <2>2. \A x : x \in Members(gone) <=> x \in Members(q)
    BY <1>5, <2>1
  <2> QED BY <2>2
<1>7. p \in Seq(Inodes) /\ DOMAIN p = DOMAIN gone
  <2>1. \A d \in S : s.ents[d].inode \in Inodes
    BY EntryTyped
  <2>2. gone \in [1 .. Len(gone) -> S] /\ Len(gone) \in Nat /\ DOMAIN gone = 1 .. Len(gone)
    BY <1>3
  <2> HIDE DEF S
  <2>3. p \in [1 .. Len(gone) -> Inodes]
    BY <2>1, <2>2
  <2> HIDE DEF p
  <2> QED BY <2>2, <2>3, FcnIsSeq
<1>8. \A x : Times(p, x) = Cardinality({d \in Members(q) : s.ents[d].inode = x})
  <2> TAKE x
  <2> DEFINE A == {k \in DOMAIN p : p[k] = x}
             B == {d \in Members(q) : s.ents[d].inode = x}
             f == [k \in A |-> gone[k]]
  <2>1. f \in [A -> B]
    BY <1>6, <1>7 DEF Members
  <2>2. \A d \in B : \E k \in A : f[k] = d
    <3> SUFFICES ASSUME NEW d \in B PROVE \E k \in A : f[k] = d
      OBVIOUS
    <3>1. d \in Members(gone)
      BY <1>6
    <3>2. PICK k \in DOMAIN gone : gone[k] = d
      BY <3>1 DEF Members
    <3>3. k \in A
      BY <1>7, <3>2
    <3> QED BY <3>2, <3>3
  <2>3. \A k, l \in A : f[k] = f[l] => k = l
    <3> SUFFICES ASSUME NEW k \in A, NEW l \in A, gone[k] = gone[l] PROVE k = l
      OBVIOUS
    <3>1. k \in DOMAIN gone /\ l \in DOMAIN gone /\ gone[k] \in S
      BY <1>3, <1>7
    <3>2. Times(gone, gone[k]) <= 1
      BY <1>1, <1>5, <3>1
    <3> QED BY <1>3, <3>1, <3>2, TimesOnce
  <2>4. IsFiniteSet(A)
    <3>1. DOMAIN p = 1 .. Len(p) /\ Len(p) \in Nat
      BY <1>7
    <3>2. IsFiniteSet(1 .. Len(p)) /\ A \in SUBSET (1 .. Len(p))
      BY <3>1, FS_Interval
    <3> HIDE DEF A
    <3> QED BY <3>2, FS_Subset
  <2> HIDE DEF A, B, f
  <2>5. Cardinality(A) = Cardinality(B)
    BY <2>1, <2>2, <2>3, <2>4, ImageFinite
  <2> QED BY <2>5 DEF A, B, Times
<1> HIDE DEF p
<1>9. targets \in Seq(Inodes) /\ \A x : Times(targets, x) = IF x \in Inodes \ {i} THEN Times(p, x) ELSE 0
  <2>1. /\ targets \in Seq(Inodes \cap (Inodes \ {i}))
        /\ \A x : Times(targets, x) = IF x \in Inodes \ {i} THEN Times(p, x) ELSE 0
    <3> DEFINE U == Inodes \ {i}
    <3>1. p \in Seq(Inodes)
      BY <1>7
    <3> HIDE DEF U
    <3>2. Keep(p, U) \in Seq(Inodes \cap U) /\ \A x : Times(Keep(p, U), x) = IF x \in U THEN Times(p, x) ELSE 0
      BY ONLY <3>1, KeepSeq
    <3> QED BY <3>2 DEF U
  <2>2. Inodes \cap (Inodes \ {i}) \subseteq Inodes
    OBVIOUS
  <2> HIDE DEF targets
  <2>3. targets \in Seq(Inodes)
    BY <2>1, <2>2, SeqMonotonic
  <2> QED BY <2>1, <2>3
<1> HIDE DEF targets
<1>10. {gone[k] : k \in DOMAIN gone} = Members(q)
  BY <1>6 DEF Members
<1>11. \A x \in Inodes : Times(targets, x) = IF x = i THEN 0 ELSE Cardinality({d \in Members(q) : s.ents[d].inode = x})
  <2> TAKE x \in Inodes
  <2> QED BY <1>8, <1>9
<1> QED BY <1>9, <1>10, <1>11, Zenon DEF TargetsIn, q, gone, p, targets

\* What registry_destroy makes of a tree, once it is known that no cursor stands on
\* an entry of the directory.
TargetsOf(targets, s, i) ==
    /\ targets \in Seq(Inodes)
    /\ \A x \in Inodes :
          Times(targets, x) = IF x = i THEN 0 ELSE Cardinality({d \in Members(s.lists[i]) : s.ents[d].inode = x})
Destroys(s, t, i, targets) ==
    /\ Parts(t) /\ t.nodes = [s.nodes EXCEPT ![i] = NoInode] /\ t.lists = [s.lists EXCEPT ![i] = <<>>]
    /\ t.ents = [d \in DOMAIN s.ents \ Members(s.lists[i]) |-> s.ents[d]]
    /\ t.due = targets \o Tail(s.due) /\ t.at \in InodeOrNone

\* registry_destroy: the counts are right without the inode, its list and the
\* entries that go with it.
LEMMA DropLast ==
    ASSUME NEW s, NEW H \in [Inodes -> Nat], NEW C, Counted(s, H, C), s.due # <<>>,
           H[Root] >= 1,
           NEW i, i = Head(s.due), s.nodes[i].ref = 1, \A d \in Members(s.lists[i]) : C[d] = 0,
           NEW targets, TargetsOf(targets, s, i), NEW t, Destroys(s, t, i, targets)
    PROVE  Counted(t, H, C)
<1> DEFINE E == DOMAIN s.ents
           mine == Members(s.lists[i])
           F == E \ mine
<1>1. s.due \in Seq(Inodes) /\ s.nodes \in [Inodes -> NodeType] /\ TreeOK(s)
  BY DEF Counted, TreeOK, NodesOK
<1>2. /\ i \in Inodes /\ Tail(s.due) \in Seq(Inodes)
      /\ \A x : Times(s.due, x) = Times(Tail(s.due), x) + (IF x = i THEN 1 ELSE 0)
  BY <1>1, TimesTail
<1>3. \A x : Times(Tail(s.due), x) \in Nat /\ Times(s.due, x) \in Nat
  BY <1>1, <1>2, TimesNat
<1>4. \A j \in Inodes : /\ IsFiniteSet(Refs(s, j)) /\ Cardinality(Refs(s, j)) \in Nat
                        /\ s.nodes[j].ref = Cardinality(Refs(s, j)) + Times(s.due, j) + H[j]
  BY RefsFinite DEF Counted, TreeOK, EntsOK, NodesCounted
<1>5. H[i] = 0 /\ Refs(s, i) = {} /\ Times(Tail(s.due), i) = 0
  <2>1. Times(s.due, i) = Times(Tail(s.due), i) + 1
    BY <1>2
  <2>2. /\ IsFiniteSet(Refs(s, i)) /\ Cardinality(Refs(s, i)) \in Nat /\ H[i] \in Nat
        /\ 1 = Cardinality(Refs(s, i)) + Times(s.due, i) + H[i]
    BY <1>2, <1>4
  <2>3. H[i] = 0 /\ Cardinality(Refs(s, i)) = 0 /\ Times(Tail(s.due), i) = 0
    BY <1>3, <2>1, <2>2, SMTT(60)
  <2> QED BY <2>2, <2>3, FS_EmptySet
<1>6. i # Root
  BY <1>5
<1>7. \A j \in Inodes : \A x \in Members(s.lists[j]) : x \in E /\ x[1] = j /\ Listed(s, x)
  BY <1>1 DEF TreeOK, ListsOK, Members, Listed
<1>9. /\ targets \in Seq(Inodes)
      /\ \A x \in Inodes :
            Times(targets, x) = IF x = i THEN 0 ELSE Cardinality({d \in mine : s.ents[d].inode = x})
  BY DEF TargetsOf
<1>10. DOMAIN t.ents = F /\ t.ents \in [F -> EntryType] /\ \A d \in F : t.ents[d] = s.ents[d]
  <2>1. s.ents \in [E -> EntryType]
    BY <1>1 DEF TreeOK, EntsOK
  <2>2. t.ents = [d \in F |-> s.ents[d]]
    BY DEF Destroys
  <2> QED BY <2>1, <2>2
<1>11. /\ t.nodes \in [Inodes -> NodeType] /\ t.nodes[i] = NoInode
       /\ \A j \in Inodes : j # i => t.nodes[j] = s.nodes[j]
  <2>1. NoInode \in NodeType
    BY DEF NoInode, NodeType
  <2>2. t.nodes = [s.nodes EXCEPT ![i] = NoInode]
    BY DEF Destroys
  <2> QED BY <1>1, <1>2, <2>1, <2>2
<1>12. NodesOK(t)
  <2> SUFFICES ASSUME NEW j \in Inodes
               PROVE  /\ t.nodes[j].ref = 0 => t.nodes[j] = NoInode
                      /\ t.nodes[j].ref # 0 => t.nodes[j].type # "none"
                      /\ j = Root => t.nodes[j].type = "dir"
    BY <1>11, RootInodes DEF NodesOK
  <2>1. /\ s.nodes[j].ref = 0 => s.nodes[j] = NoInode
        /\ s.nodes[j].ref # 0 => s.nodes[j].type # "none"
        /\ j = Root => s.nodes[j].type = "dir"
    BY <1>1 DEF TreeOK, NodesOK
  <2>2. CASE j = i
    BY <1>6, <1>11, <2>2 DEF NoInode
  <2>3. CASE j # i
    BY <1>11, <2>1, <2>3
  <2> QED BY <2>2, <2>3
<1>13. \A j \in Inodes : /\ t.lists[j] = IF j = i THEN <<>> ELSE s.lists[j]
                         /\ Members(t.lists[j]) = IF j = i THEN {} ELSE Members(s.lists[j])
  <2>1. s.lists \in [Inodes -> Seq(E)]
    BY <1>1 DEF TreeOK, ListsOK
  <2>2. Members(<<>>) = {}
    BY DEF Members
  <2>3. t.lists = [s.lists EXCEPT ![i] = <<>>]
    BY DEF Destroys
  <2> QED BY <1>2, <2>1, <2>2, <2>3
<1>14. \A j \in Inodes : j # i => \A x \in Members(s.lists[j]) : x \notin mine /\ x \in F
  BY <1>2, <1>7, SMTT(60)
<1>15. ListsOK(t)
  <2>1. \A j \in Inodes : t.lists[j] \in Seq(F)
    <3> SUFFICES ASSUME NEW j \in Inodes PROVE t.lists[j] \in Seq(F)
      OBVIOUS
    <3>1. CASE j = i
      <4>1. <<>> \in Seq(F) /\ t.lists[j] = <<>>
        BY <1>13, <3>1
      <4> QED BY ONLY <4>1
    <3>2. CASE j # i
      <4>1. s.lists[j] \in Seq(E)
        BY <1>1 DEF TreeOK, ListsOK
      <4>2. \A k \in 1 .. Len(s.lists[j]) : s.lists[j][k] \in F
        BY <1>14, <3>2, <4>1 DEF Members
      <4>3. s.lists[j] \in Seq(F)
        BY <4>1, <4>2
      <4> QED BY <1>13, <3>2, <4>3
    <3> QED BY <3>1, <3>2
  <2>2. t.lists \in [Inodes -> Seq(F)]
    <3>1. s.lists \in [Inodes -> Seq(E)]
      BY <1>1 DEF TreeOK, ListsOK
    <3>2. t.lists = [s.lists EXCEPT ![i] = <<>>]
      BY DEF Destroys
    <3> QED BY <2>1, <3>1, <3>2
  <2>3. \A j \in Inodes : \A x \in Members(t.lists[j]) : x[1] = j
    BY <1>7, <1>13
  <2>4. \A j \in Inodes : \A x \in F : Times(t.lists[j], x) <= 1
    <3> SUFFICES ASSUME NEW j \in Inodes, NEW x \in F PROVE Times(t.lists[j], x) <= 1
      OBVIOUS
    <3>1. CASE j = i
      <4>1. x \notin Members(t.lists[j]) /\ t.lists[j] \in Seq(F)
        BY <1>13, <2>1, <3>1
      <4> QED BY <4>1, TimesNat
    <3>2. CASE j # i
      <4>1. t.lists[j] = s.lists[j]
        BY <1>13, <3>2
      <4> QED BY <1>1, <4>1 DEF TreeOK, ListsOK
    <3> QED BY <3>1, <3>2
  <2> QED BY <1>10, <2>2, <2>3, <2>4 DEF ListsOK
<1>16. EntsOK(t)
  <2>1. IsFiniteSet(E) /\ Cardinality(E) <= NDirents /\ NDirents \in Nat /\ F \in SUBSET E
    BY <1>1, SizesAssumption DEF TreeOK, EntsOK
  <2> HIDE DEF F, E
  <2>2. IsFiniteSet(F) /\ Cardinality(F) <= Cardinality(E) /\ Cardinality(F) \in Nat /\ Cardinality(E) \in Nat
    BY <2>1, FS_Subset, FS_CardinalityType
  <2>3. Cardinality(F) <= NDirents
    BY <2>1, <2>2
  <2>4. \A d \in F : d \in Dirents /\ (s.ents[d].inode = Root => s.ents[d].name \in Dots)
    BY <1>1 DEF F, E, TreeOK, EntsOK
  <2> QED BY <1>10, <2>2, <2>3, <2>4 DEF EntsOK
<1>17. t.due \in Seq(Inodes) /\ \A x : Times(t.due, x) = Times(targets, x) + Times(Tail(s.due), x)
  <2>1. t.due = targets \o Tail(s.due)
    BY DEF Destroys
  <2> DEFINE u == Tail(s.due)
  <2>2. targets \in Seq(Inodes) /\ u \in Seq(Inodes) /\ t.due = targets \o u
    BY <1>2, <1>9, <2>1
  <2> HIDE DEF u
  <2>3. t.due \in Seq(Inodes) /\ \A x : Times(t.due, x) = Times(targets, x) + Times(u, x)
    BY ONLY <2>2, TimesConcat, ConcatProperties
  <2> QED BY <2>3 DEF u
<1>18. TreeOK(t)
  BY <1>12, <1>15, <1>16, <1>17 DEF TreeOK, Destroys
<1>19. \A x \in F : Listed(t, x) <=> Listed(s, x)
  <2> SUFFICES ASSUME NEW x \in F PROVE Listed(t, x) <=> Listed(s, x)
    OBVIOUS
  <2>1. x[1] \in Inodes /\ (x[1] = i => x \notin Members(s.lists[i]))
    BY <1>1, EntryTyped
  <2> QED BY <1>13, <2>1 DEF Listed
<1>20. EntsCounted(t, C)
  <2>1. \A x \in F : t.ents[x].ref = (IF Listed(t, x) THEN 1 ELSE 0) + C[x]
    BY <1>10, <1>19 DEF Counted, EntsCounted
  <2>2. \A x \in Dirents \ F : C[x] = 0
    <3> SUFFICES ASSUME NEW x \in Dirents \ F PROVE C[x] = 0
      OBVIOUS
    <3>1. x \in mine \/ x \notin E
      OBVIOUS
    <3> QED BY <3>1 DEF Counted, EntsCounted
  <2> QED BY <1>10, <2>1, <2>2 DEF EntsCounted
<1>21. NodesCounted(t, H)
  <2> SUFFICES ASSUME NEW j \in Inodes
               PROVE  t.nodes[j].ref = Cardinality(Refs(t, j)) + Times(t.due, j) + H[j]
    BY DEF NodesCounted
  <2>1. CASE j = i
    <3>1. Refs(t, j) = {}
      <4> SUFFICES ASSUME NEW d \in Refs(t, j) PROVE FALSE
        OBVIOUS
      <4>1. d \in F /\ s.ents[d].inode = i
        BY <1>10, <2>1 DEF Refs
      <4>2. ~(Listed(s, d) /\ d[1] = i)
        BY <1>7, <4>1 DEF Listed
      <4>3. d \in Refs(s, i)
        BY <4>1, <4>2 DEF Refs
      <4> QED BY <1>5, <4>3
    <3>2. Times(t.due, j) = 0
      <4>1. Times(t.due, i) = Times(targets, i) + Times(Tail(s.due), i)
        BY <1>17
      <4>2. Times(targets, i) = 0 /\ Times(Tail(s.due), i) = 0
        BY <1>2, <1>5, <1>9
      <4> QED BY ONLY <2>1, <4>1, <4>2
    <3>3. t.nodes[j].ref = 0
      BY <1>11, <2>1 DEF NoInode
    <3>4. Cardinality(Refs(t, j)) = 0 /\ H[j] = 0
      BY <1>5, <2>1, <3>1, FS_EmptySet
    <3> QED BY ONLY <3>2, <3>3, <3>4
  <2>2. CASE j # i
    <3> DEFINE M == {d \in mine : s.ents[d].inode = j}
    <3>1. M \in SUBSET Refs(s, j)
      BY <1>2, <1>7, <2>2 DEF Refs
    <3>2. Refs(t, j) = Refs(s, j) \ M
      <4>1. \A d : d \in Refs(t, j) <=> d \in F /\ s.ents[d].inode = j /\ ~(Listed(s, d) /\ d[1] = j)
        BY <1>10, <1>19 DEF Refs
      <4>2. \A d : d \in Refs(s, j) <=> d \in E /\ s.ents[d].inode = j /\ ~(Listed(s, d) /\ d[1] = j)
        BY DEF Refs
      <4>3. \A d : d \in M <=> d \in mine /\ s.ents[d].inode = j
        OBVIOUS
      <4>4. \A d : d \in F <=> d \in E /\ d \notin mine
        OBVIOUS
      <4> HIDE DEF M, F
      <4> QED BY <4>1, <4>2, <4>3, <4>4
    <3> HIDE DEF M
    <3>3. IsFiniteSet(Refs(s, j)) /\ Cardinality(Refs(s, j)) \in Nat
      BY <1>4
    <3>4. Cardinality(Refs(t, j)) = Cardinality(Refs(s, j)) - Cardinality(M) /\ Cardinality(M) \in Nat
      <4>1. Refs(s, j) \cap M = M
        BY <3>1
      <4>2. IsFiniteSet(M)
        BY <3>1, <3>3, FS_Subset
      <4>3. Cardinality(Refs(s, j) \ M) = Cardinality(Refs(s, j)) - Cardinality(Refs(s, j) \cap M)
        BY <3>3, FS_Difference
      <4>4. Cardinality(M) \in Nat
        BY <4>2, FS_CardinalityType
      <4> QED BY ONLY <3>2, <4>1, <4>3, <4>4
    <3>5. Times(targets, j) = Cardinality(M)
      BY <1>9, <2>2 DEF M
    <3>6. Times(s.due, j) = Times(Tail(s.due), j)
      BY <1>2, <1>3, <2>2
    <3>7. Times(t.due, j) = Cardinality(M) + Times(s.due, j)
      BY <1>17, <3>5, <3>6
    <3>8. t.nodes[j].ref = Cardinality(Refs(s, j)) + Times(s.due, j) + H[j] /\ H[j] \in Nat
      BY <1>4, <1>11, <2>2
    <3>9. Times(s.due, j) \in Nat
      BY <1>3
    <3> QED BY <3>3, <3>4, <3>7, <3>8, <3>9
  <2> QED BY <2>1, <2>2
<1> QED BY <1>18, <1>20, <1>21 DEF Counted

-----------------------------------------------------------------------------
(* What tasks and mounts hold.                                             *)

Typed(cw, st, fd, mt) ==
    /\ cw \in [Tasks -> InodeOrNone] /\ st \in [Tasks -> InodeOrNone]
    /\ fd \in [Tasks -> [Slots -> Files]] /\ mt \in [Mounts -> MountType]

\* There are finitely many holders.
LEMMA SetsFinite == IsFiniteSet(Tasks) /\ IsFiniteSet(Mounts) /\ IsFiniteSet(Slots) /\ IsFiniteSet(Tasks \X Slots)
<1>1. IsFiniteSet(Tasks)
  BY TasksAssumption
<1>2. IsFiniteSet(Mounts) /\ IsFiniteSet(Slots)
  BY SizesAssumption, FS_Interval DEF Mounts, Slots
<1> QED BY <1>1, <1>2, FS_Product

\* The numbers of those that hold an inode.
Cwds(cw, i) == Cardinality({t \in Tasks : cw[t] = i})
Opens(fd, i) == Cardinality({x \in Tasks \X Slots : fd[x[1]][x[2]].inode = i})
Covers(mt, i) == Cardinality({m \in Mounts : mt[m].mountpoint = i})
Roots(mt, i) == Cardinality({m \in Mounts : mt[m].root = i})

\* What holds an inode from outside the tree, by its kinds.
LEMMA HeldParts ==
    ASSUME NEW cw, NEW st, NEW fd, NEW mt, NEW i \in Inodes
    PROVE  HeldBy(cw, st, fd, mt)[i] = Cwds(cw, i) + Cwds(st, i) + Opens(fd, i) + Covers(mt, i) + Roots(mt, i)
                                       + (IF i = Root THEN 1 ELSE 0)
  BY DEF HeldBy, Cwds, Opens, Covers, Roots

\* A part of a finite set is finite.
LEMMA CountNat ==
    ASSUME NEW S, IsFiniteSet(S), NEW T \in SUBSET S
    PROVE  IsFiniteSet(T) /\ Cardinality(T) \in Nat /\ (T # {} => Cardinality(T) >= 1)
<1>1. IsFiniteSet(T) /\ Cardinality(T) \in Nat
  BY FS_Subset, FS_CardinalityType
<1>2. T # {} => Cardinality(T) # 0
  BY <1>1, FS_EmptySet
<1> QED BY <1>1, <1>2

\* The numbers of holders are numbers, and the root has one.
LEMMA HeldNat ==
    ASSUME NEW cw, NEW st, NEW fd, NEW mt
    PROVE  /\ HeldBy(cw, st, fd, mt) \in [Inodes -> Nat]
           /\ HeldBy(cw, st, fd, mt)[Root] >= 1
           /\ CursorsOf(fd) \in [Dirents -> Nat]
<1>1. ASSUME NEW i \in Inodes
      PROVE  /\ Cwds(cw, i) \in Nat /\ Cwds(st, i) \in Nat /\ Opens(fd, i) \in Nat
             /\ Covers(mt, i) \in Nat /\ Roots(mt, i) \in Nat
  BY SetsFinite, CountNat DEF Cwds, Opens, Covers, Roots
<1>2. \A i \in Inodes : HeldBy(cw, st, fd, mt)[i] \in Nat
  BY <1>1, HeldParts
<1>3. HeldBy(cw, st, fd, mt) = [i \in Inodes |-> HeldBy(cw, st, fd, mt)[i]]
  BY DEF HeldBy
<1>4. HeldBy(cw, st, fd, mt)[Root] >= 1
  BY <1>1, HeldParts, RootInodes
<1>5. \A d \in Dirents : CursorsOf(fd)[d] \in Nat
  BY SetsFinite, CountNat DEF CursorsOf
<1>6. CursorsOf(fd) = [d \in Dirents |-> CursorsOf(fd)[d]]
  BY DEF CursorsOf
<1> QED BY <1>2, <1>3, <1>4, <1>5, <1>6

\* Who holds counts.
Holds(i, cw, st, fd, mt) ==
    \/ \E t \in Tasks : cw[t] = i \/ st[t] = i \/ \E f \in Slots : fd[t][f].inode = i
    \/ \E m \in Mounts : mt[m].mountpoint = i \/ mt[m].root = i

\* What is held has a holder.
LEMMA HeldSome ==
    ASSUME NEW cw, NEW st, NEW fd, NEW mt, NEW i \in Inodes, Holds(i, cw, st, fd, mt) \/ i = Root
    PROVE  HeldBy(cw, st, fd, mt)[i] >= 1
<1> DEFINE A == {t \in Tasks : cw[t] = i}
           B == {t \in Tasks : st[t] = i}
           D == {x \in Tasks \X Slots : fd[x[1]][x[2]].inode = i}
           E == {m \in Mounts : mt[m].mountpoint = i}
           F == {m \in Mounts : mt[m].root = i}
<1>1. A # {} \/ B # {} \/ D # {} \/ E # {} \/ F # {} \/ i = Root
  <2>1. CASE \E t \in Tasks, f \in Slots : fd[t][f].inode = i
    <3>1. PICK t \in Tasks, f \in Slots : fd[t][f].inode = i
      BY <2>1
    <3>2. <<t, f>> \in D
      BY <3>1
    <3> QED BY <3>2
  <2> QED BY <2>1 DEF Holds
<1>2. A \in SUBSET Tasks /\ B \in SUBSET Tasks /\ D \in SUBSET (Tasks \X Slots) /\ E \in SUBSET Mounts /\ F \in SUBSET Mounts
  OBVIOUS
<1>3. /\ Cwds(cw, i) = Cardinality(A) /\ Cwds(st, i) = Cardinality(B) /\ Opens(fd, i) = Cardinality(D)
      /\ Covers(mt, i) = Cardinality(E) /\ Roots(mt, i) = Cardinality(F)
  BY DEF Cwds, Opens, Covers, Roots
<1> HIDE DEF A, B, D, E, F
<1>4. /\ Cardinality(A) \in Nat /\ (A # {} => Cardinality(A) >= 1)
      /\ Cardinality(B) \in Nat /\ (B # {} => Cardinality(B) >= 1)
      /\ Cardinality(D) \in Nat /\ (D # {} => Cardinality(D) >= 1)
      /\ Cardinality(E) \in Nat /\ (E # {} => Cardinality(E) >= 1)
      /\ Cardinality(F) \in Nat /\ (F # {} => Cardinality(F) >= 1)
  BY <1>2, SetsFinite, CountNat
<1>5. HeldBy(cw, st, fd, mt)[i] = Cwds(cw, i) + Cwds(st, i) + Opens(fd, i) + Covers(mt, i) + Roots(mt, i)
                                  + (IF i = Root THEN 1 ELSE 0)
  BY HeldParts
<1> QED BY <1>1, <1>3, <1>4, <1>5

\* What a cursor stands on has a cursor.
LEMMA CursorSome ==
    ASSUME NEW fd, NEW t \in Tasks, NEW f \in Slots, fd[t][f].cursor \in Dirents
    PROVE  CursorsOf(fd)[fd[t][f].cursor] >= 1
<1> DEFINE d == fd[t][f].cursor
           A == {x \in Tasks \X Slots : fd[x[1]][x[2]].cursor = d}
<1>1. <<t, f>> \in A /\ A \in SUBSET (Tasks \X Slots)
  OBVIOUS
<1>2. CursorsOf(fd)[d] = Cardinality(A)
  BY DEF CursorsOf
<1> HIDE DEF A
<1>3. Cardinality(A) >= 1
  BY <1>1, SetsFinite, CountNat
<1> QED BY <1>2, <1>3

\* Who lets go of one inode and takes another.
LEMMA CwdsMoved ==
    ASSUME NEW cw \in [Tasks -> InodeOrNone], NEW t \in Tasks, NEW v, NEW i
    PROVE  /\ Cwds([cw EXCEPT ![t] = v], i) = Cwds(cw, i) - One(i, cw[t]) + One(i, v)
           /\ Cwds(cw, i) \in Nat
<1> DEFINE g == [cw EXCEPT ![t] = v]
<1>1. Same(Tasks, cw, g, t) /\ g[t] = v
  BY DEF Same
<1> HIDE DEF g
<1>2. IsFiniteSet(Tasks)
  BY SetsFinite
<1>3. Many(Tasks, cw, i) \in Nat /\ Many(Tasks, g, i) = Many(Tasks, cw, i) - One(i, cw[t]) + One(i, g[t])
  BY <1>1, <1>2, ManyMoved
<1> QED BY <1>1, <1>3 DEF Cwds, Many, g

\* One handle changes.
LEMMA SlotMoved ==
    ASSUME NEW fd \in [Tasks -> [Slots -> Files]], NEW t \in Tasks, NEW f \in Slots, NEW h
    PROVE  LET gd == [fd EXCEPT ![t][f] = h]
           IN  \A x \in Tasks \X Slots : gd[x[1]][x[2]] = IF x = <<t, f>> THEN h ELSE fd[x[1]][x[2]]
<1> DEFINE gd == [fd EXCEPT ![t][f] = h]
<1>1. gd[t][f] = h /\ \A u \in Tasks, g \in Slots : (u # t \/ g # f) => gd[u][g] = fd[u][g]
  OBVIOUS
<1> HIDE DEF gd
<1>2. SUFFICES ASSUME NEW x \in Tasks \X Slots PROVE gd[x[1]][x[2]] = IF x = <<t, f>> THEN h ELSE fd[x[1]][x[2]]
  BY DEF gd
<1>3. x = <<x[1], x[2]>> /\ x[1] \in Tasks /\ x[2] \in Slots
  OBVIOUS
<1>4. CASE x[1] = t /\ x[2] = f
  BY <1>1, <1>3, <1>4
<1>5. CASE x[1] # t \/ x[2] # f
  BY <1>1, <1>3, <1>5
<1> QED BY <1>4, <1>5

SetFd(fd, t, f, h) == [fd EXCEPT ![t][f] = h]

\* A slot gets another handle: its inode loses a holder, that of the other gains
\* one.
LEMMA OpensMoved ==
    ASSUME NEW fd \in [Tasks -> [Slots -> Files]], NEW t \in Tasks, NEW f \in Slots, NEW h, NEW i
    PROVE  /\ Opens(SetFd(fd, t, f, h), i) = Opens(fd, i) - One(i, fd[t][f].inode) + One(i, h.inode)
           /\ Opens(fd, i) \in Nat
<1> DEFINE gd == [fd EXCEPT ![t][f] = h]
           S == Tasks \X Slots
           a == [x \in S |-> fd[x[1]][x[2]].inode]
           b == [x \in S |-> gd[x[1]][x[2]].inode]
           x0 == <<t, f>>
<1>1. \A x \in S : gd[x[1]][x[2]] = IF x = x0 THEN h ELSE fd[x[1]][x[2]]
  BY SlotMoved
<1>2. x0 \in S /\ x0[1] = t /\ x0[2] = f
  OBVIOUS
<1> HIDE DEF gd
<1>3. a[x0] = fd[t][f].inode /\ b[x0] = h.inode
  BY <1>1, <1>2
<1>4. Same(S, a, b, x0)
  BY <1>1 DEF Same
<1>5. Opens(fd, i) = Many(S, a, i) /\ Opens(gd, i) = Many(S, b, i)
  <2>1. {x \in S : a[x] = i} = {x \in S : fd[x[1]][x[2]].inode = i}
    OBVIOUS
  <2>2. {x \in S : b[x] = i} = {x \in S : gd[x[1]][x[2]].inode = i}
    OBVIOUS
  <2> QED BY <2>1, <2>2, Zenon DEF Opens, Many
<1>6. IsFiniteSet(S)
  BY SetsFinite
<1> HIDE DEF a, b, x0, S
<1>7. Many(S, a, i) \in Nat /\ Many(S, b, i) = Many(S, a, i) - One(i, a[x0]) + One(i, b[x0])
  BY <1>2, <1>4, <1>6, ManyMoved
<1> QED BY <1>3, <1>5, <1>7 DEF gd, SetFd

\* And so do the entries under the cursors.
LEMMA CursorsMoved ==
    ASSUME NEW fd \in [Tasks -> [Slots -> Files]], NEW t \in Tasks, NEW f \in Slots, NEW h, NEW d \in Dirents
    PROVE  CursorsOf(SetFd(fd, t, f, h))[d] = CursorsOf(fd)[d] - One(d, fd[t][f].cursor) + One(d, h.cursor)
<1> DEFINE gd == [fd EXCEPT ![t][f] = h]
           S == Tasks \X Slots
           a == [x \in S |-> fd[x[1]][x[2]].cursor]
           b == [x \in S |-> gd[x[1]][x[2]].cursor]
           x0 == <<t, f>>
<1>1. \A x \in S : gd[x[1]][x[2]] = IF x = x0 THEN h ELSE fd[x[1]][x[2]]
  BY SlotMoved
<1>2. x0 \in S /\ x0[1] = t /\ x0[2] = f
  OBVIOUS
<1> HIDE DEF gd
<1>3. a[x0] = fd[t][f].cursor /\ b[x0] = h.cursor
  BY <1>1, <1>2
<1>4. Same(S, a, b, x0)
  BY <1>1 DEF Same
<1>5. CursorsOf(fd)[d] = Many(S, a, d) /\ CursorsOf(gd)[d] = Many(S, b, d)
  <2>1. {x \in S : a[x] = d} = {x \in S : fd[x[1]][x[2]].cursor = d}
    OBVIOUS
  <2>2. {x \in S : b[x] = d} = {x \in S : gd[x[1]][x[2]].cursor = d}
    OBVIOUS
  <2>3. CursorsOf(fd)[d] = Cardinality({x \in S : fd[x[1]][x[2]].cursor = d})
    BY DEF CursorsOf
  <2>4. CursorsOf(gd)[d] = Cardinality({x \in S : gd[x[1]][x[2]].cursor = d})
    BY DEF CursorsOf
  <2> QED BY <2>1, <2>2, <2>3, <2>4, Zenon DEF Many
<1>6. IsFiniteSet(S)
  BY SetsFinite
<1> HIDE DEF a, b, x0, S
<1>7. Many(S, a, d) \in Nat /\ Many(S, b, d) = Many(S, a, d) - One(d, a[x0]) + One(d, b[x0])
  BY <1>2, <1>4, <1>6, ManyMoved
<1> QED BY <1>3, <1>5, <1>7 DEF gd, SetFd

SetMount(mt, m, x) == [mt EXCEPT ![m] = x]

\* A mount gets another mountpoint and root.
LEMMA MountsMoved ==
    ASSUME NEW mt \in [Mounts -> MountType], NEW m \in Mounts, NEW x, NEW i
    PROVE  /\ Covers(SetMount(mt, m, x), i) = Covers(mt, i) - One(i, mt[m].mountpoint) + One(i, x.mountpoint)
           /\ Roots(SetMount(mt, m, x), i) = Roots(mt, i) - One(i, mt[m].root) + One(i, x.root)
           /\ Covers(mt, i) \in Nat /\ Roots(mt, i) \in Nat
<1> DEFINE nt == [mt EXCEPT ![m] = x]
           a == [k \in Mounts |-> mt[k].mountpoint]
           b == [k \in Mounts |-> nt[k].mountpoint]
           p == [k \in Mounts |-> mt[k].root]
           q == [k \in Mounts |-> nt[k].root]
<1>1. nt[m] = x /\ \A k \in Mounts \ {m} : nt[k] = mt[k]
  OBVIOUS
<1> HIDE DEF nt
<1>2. /\ a[m] = mt[m].mountpoint /\ b[m] = x.mountpoint /\ p[m] = mt[m].root /\ q[m] = x.root
      /\ Same(Mounts, a, b, m) /\ Same(Mounts, p, q, m)
  BY <1>1 DEF Same
<1>3. Covers(mt, i) = Many(Mounts, a, i) /\ Covers(nt, i) = Many(Mounts, b, i)
  <2>1. {k \in Mounts : a[k] = i} = {k \in Mounts : mt[k].mountpoint = i}
    OBVIOUS
  <2>2. {k \in Mounts : b[k] = i} = {k \in Mounts : nt[k].mountpoint = i}
    OBVIOUS
  <2> QED BY <2>1, <2>2, Zenon DEF Covers, Many
<1>4. Roots(mt, i) = Many(Mounts, p, i) /\ Roots(nt, i) = Many(Mounts, q, i)
  <2>1. {k \in Mounts : p[k] = i} = {k \in Mounts : mt[k].root = i}
    OBVIOUS
  <2>2. {k \in Mounts : q[k] = i} = {k \in Mounts : nt[k].root = i}
    OBVIOUS
  <2> QED BY <2>1, <2>2, Zenon DEF Roots, Many
<1>5. IsFiniteSet(Mounts)
  BY SetsFinite
<1> HIDE DEF a, b, p, q
<1>6. Many(Mounts, a, i) \in Nat /\ Many(Mounts, b, i) = Many(Mounts, a, i) - One(i, a[m]) + One(i, b[m])
  BY <1>2, <1>5, ManyMoved
<1>7. Many(Mounts, p, i) \in Nat /\ Many(Mounts, q, i) = Many(Mounts, p, i) - One(i, p[m]) + One(i, q[m])
  BY <1>2, <1>5, ManyMoved
<1> QED BY <1>2, <1>3, <1>4, <1>6, <1>7 DEF nt, SetMount

-----------------------------------------------------------------------------
(* The trees a call goes through.                                          *)

\* What is in use stays in use, and what it is: no operation of a call frees an inode.
Keeps(s, t) ==
    \A i \in Inodes : s.nodes[i].ref # 0 =>
        t.nodes[i].ref # 0 /\ t.nodes[i].type = s.nodes[i].type /\ t.nodes[i].inum = s.nodes[i].inum
Quiet(s, t) ==
    /\ Keeps(s, t) /\ (Plain(s) => Plain(t))
    /\ \A i \in Inodes : t.nodes[i].ref = 0 => Members(t.lists[i]) \subseteq Members(s.lists[i])
Sound(s, H, C) == Counted(s, H, C) /\ Bare(s) /\ Keeps(Now, s) /\ Plain(s)

\* Nothing becomes an entry of itself by losing entries.
Within(s, t) == SameEntries(s, t) /\ \A i \in Inodes : Members(t.lists[i]) \subseteq Members(s.lists[i])
Unmarked(s, t) ==
    \A i \in Inodes : /\ t.nodes[i].mnt = None \/ t.nodes[i].mnt = s.nodes[i].mnt \/ s.nodes[i].inum # None
                      /\ t.nodes[i].inum = None \/ t.nodes[i].inum = s.nodes[i].inum

\* Without mounts, a tree with no other entries than before and no marks stays
\* plain.
LEMMA PlainStays ==
    ASSUME NEW s, NEW t, TreeOK(t), Within(s, t), Unmarked(s, t), Plain(s)
    PROVE  Plain(t)
<1> SUFFICES ASSUME Native PROVE Dry(t)
  BY DEF Plain
<1>1. Dry(s)
  BY DEF Plain
<1>2. \A i \in Inodes : t.nodes[i].mnt = None /\ t.nodes[i].inum = None
  BY <1>1 DEF Dry, Unmarked
<1>3. ASSUME NEW i \in Inodes, NEW d \in Members(t.lists[i])
      PROVE  d \in DOMAIN t.ents /\ d \in Members(s.lists[i])
  <2>1. t.lists[i] \in Seq(DOMAIN t.ents)
    BY DEF TreeOK, ListsOK
  <2>2. d \in DOMAIN t.ents
    BY <2>1 DEF Members
  <2> QED BY <2>2 DEF Within
<1>4. NoneSelf(t)
  BY <1>1, <1>3 DEF Dry, NoneSelf, Within, SameEntries
<1> QED BY <1>2, <1>4 DEF Dry

\* A tree with the same lists and entries has none but those.
LEMMA SameWithin ==
    ASSUME NEW s, NEW t, t.lists = s.lists, t.ents = s.ents
    PROVE  Within(s, t)
  BY DEF Within, SameEntries

\* A sound tree changes quietly, its counts stay right: it is sound.
LEMMA SoundStep ==
    ASSUME NEW s, NEW H, NEW C, Sound(s, H, C), NEW t, NEW G, NEW D, Counted(t, G, D), Quiet(s, t)
    PROVE  Sound(t, G, D)
<1>1. Keeps(Now, t)
  BY DEF Sound, Quiet, Keeps
<1>2. Bare(t)
  BY DEF Sound, Quiet, Keeps, Bare
<1> QED BY <1>1, <1>2 DEF Sound, Quiet

\* Only the counts of inodes that stay in use change.
LEMMA QuietRef ==
    ASSUME NEW s, TreeOK(s), NEW j \in Inodes, NEW t, TreeOK(t), t.lists = s.lists, t.ents = s.ents,
           NEW r, t.nodes = [s.nodes EXCEPT ![j] = r], s.nodes[j].ref # 0 => r.ref # 0 /\ r.type = s.nodes[j].type,
           r.inum = s.nodes[j].inum, r.mnt = s.nodes[j].mnt \/ r.mnt = None \/ r.inum # None
    PROVE  Quiet(s, t)
<1>1. s.nodes \in [Inodes -> NodeType]
  BY DEF TreeOK, NodesOK
<1>2. \A i \in Inodes : t.nodes[i] = IF i = j THEN r ELSE s.nodes[i]
  BY <1>1
<1>3. Unmarked(s, t)
  BY <1>2 DEF Unmarked
<1>4. Plain(s) => Plain(t)
  BY <1>3, SameWithin, PlainStays
<1> QED BY <1>2, <1>4 DEF Quiet, Keeps

\* A tree with the same inodes and no more entries changes quietly.
LEMMA QuietSame ==
    ASSUME NEW s, NEW t, TreeOK(t), t.nodes = s.nodes, Within(s, t)
    PROVE  Quiet(s, t)
<1>1. Unmarked(s, t)
  BY DEF Unmarked
<1>2. Plain(s) => Plain(t)
  BY <1>1, PlainStays
<1> QED BY <1>2 DEF Quiet, Keeps, Within

\* Where the walk has come to is in no count.
LEMMA AtSound ==
    ASSUME NEW s, NEW H \in [Inodes -> Int], NEW C, Sound(s, H, C), NEW a \in InodeOrNone
    PROVE  /\ Sound([s EXCEPT !.at = a], H, C)
           /\ [s EXCEPT !.at = a].nodes = s.nodes /\ [s EXCEPT !.at = a].lists = s.lists
           /\ [s EXCEPT !.at = a].ents = s.ents /\ [s EXCEPT !.at = a].due = s.due /\ [s EXCEPT !.at = a].at = a
<1> DEFINE t == [s EXCEPT !.at = a]
<1>1. Parts(s)
  BY DEF Sound, Counted, TreeOK
<1>2. t.nodes = s.nodes /\ t.lists = s.lists /\ t.ents = s.ents /\ t.due = s.due /\ t.at = a
  BY <1>1 DEF Parts
<1>3. Counted(t, H, C)
  BY AtChange DEF Sound
<1> HIDE DEF t
<1>4. Sound(t, H, C)
  BY <1>2, <1>3, SameWithin, QuietSame, SoundStep DEF Counted
<1> QED BY <1>2, <1>4 DEF t

\* inode_ref, with one more holder.
LEMMA RefSound ==
    ASSUME NEW s, NEW H \in [Inodes -> Int], NEW C, Sound(s, H, C), NEW j \in Inodes, s.nodes[j].ref # 0
    PROVE  /\ Sound(inode_ref(s, j), Plus(H, j, 1), C)
           /\ inode_ref(s, j).lists = s.lists /\ inode_ref(s, j).ents = s.ents
           /\ inode_ref(s, j).due = s.due
<1> DEFINE t == inode_ref(s, j)
           r == [s.nodes[j] EXCEPT !.ref = @ + 1]
<1>1. /\ Counted(t, Plus(H, j, 1), C) /\ t.lists = s.lists /\ t.ents = s.ents
      /\ t.nodes = [s.nodes EXCEPT ![j] = r] /\ t.due = s.due
  BY InodeRef, ZenonT(60) DEF Sound
<1>2. r.ref # 0 /\ r.type = s.nodes[j].type /\ r.inum = s.nodes[j].inum /\ r.mnt = s.nodes[j].mnt
  BY NodeTyped DEF Sound, Counted, NodeType
<1> HIDE DEF t, r
<1>3. Quiet(s, t)
  BY <1>1, <1>2, QuietRef DEF Sound, Counted
<1>4. Sound(t, Plus(H, j, 1), C)
  BY <1>1, <1>3, SoundStep
<1> QED BY <1>1, <1>4 DEF t

\* inode_unref, with one holder fewer and one reference due.
LEMMA UnrefSound ==
    ASSUME NEW s, NEW H \in [Inodes -> Int], NEW C, Sound(s, H, C), NEW j \in Inodes
    PROVE  /\ Sound(inode_unref(s, j), Plus(H, j, -1), C)
           /\ inode_unref(s, j).lists = s.lists /\ inode_unref(s, j).ents = s.ents
           /\ inode_unref(s, j).nodes = s.nodes
<1> DEFINE t == inode_unref(s, j)
<1>1. Counted(t, Plus(H, j, -1), C) /\ t.lists = s.lists /\ t.ents = s.ents /\ t.nodes = s.nodes
  BY InodeUnref DEF Sound
<1> HIDE DEF t
<1>2. Sound(t, Plus(H, j, -1), C)
  BY <1>1, SameWithin, QuietSame, SoundStep DEF Counted
<1> QED BY <1>1, <1>2 DEF t

\* A mark is put on an inode.
LEMMA MarkSound ==
    ASSUME NEW s, NEW H \in [Inodes -> Int], NEW C, Sound(s, H, C), NEW j \in Inodes, s.nodes[j].ref # 0,
           NEW r \in NodeType, r.ref = s.nodes[j].ref, r.type = s.nodes[j].type, r.inum = s.nodes[j].inum,
           r.mnt = s.nodes[j].mnt \/ r.mnt = None \/ r.inum # None
    PROVE  LET t == [s EXCEPT !.nodes[j] = r]
           IN  /\ Sound(t, H, C) /\ t.lists = s.lists /\ t.ents = s.ents /\ t.due = s.due /\ t.at = s.at
               /\ t.nodes = [s.nodes EXCEPT ![j] = r]
<1> DEFINE t == [s EXCEPT !.nodes[j] = r]
<1>1. Parts(s)
  BY DEF Sound, Counted, TreeOK
<1>2. t.lists = s.lists /\ t.ents = s.ents /\ t.due = s.due /\ t.at = s.at /\ t.nodes = [s.nodes EXCEPT ![j] = r]
  BY <1>1 DEF Parts
<1>3. Counted(t, H, C)
  BY Touch DEF Sound
<1> HIDE DEF t
<1>4. Quiet(s, t)
  BY <1>2, <1>3, QuietRef DEF Sound, Counted
<1>5. Sound(t, H, C)
  BY <1>3, <1>4, SoundStep
<1> QED BY <1>2, <1>5 DEF t

\* dirent_ref, with one more cursor.
LEMMA DirentRefSound ==
    ASSUME NEW s, NEW H \in [Inodes -> Int], NEW C \in [Dirents -> Int], Sound(s, H, C), NEW d \in DOMAIN s.ents
    PROVE  LET t == [s EXCEPT !.ents[d].ref = @ + 1]
           IN  /\ Sound(t, H, PlusC(C, d, 1)) /\ t.nodes = s.nodes /\ t.lists = s.lists
               /\ DOMAIN t.ents = DOMAIN s.ents
<1> DEFINE t == [s EXCEPT !.ents[d].ref = @ + 1]
<1>1. Counted(t, H, PlusC(C, d, 1)) /\ t.nodes = s.nodes /\ t.lists = s.lists /\ t.ents = [s.ents EXCEPT ![d].ref = @ + 1]
  BY DirentRef DEF Sound
<1>2. DOMAIN t.ents = DOMAIN s.ents
  BY <1>1
<1> HIDE DEF t
<1>4. Within(s, t)
  <2>1. s.ents \in [DOMAIN s.ents -> EntryType]
    BY DEF Sound, Counted, TreeOK, EntsOK
  <2> QED BY <1>1, <2>1 DEF Within, SameEntries, EntryType
<1>3. Sound(t, H, PlusC(C, d, 1))
  BY <1>1, <1>4, QuietSame, SoundStep DEF Counted
<1> QED BY <1>1, <1>2, <1>3 DEF t

\* dirent_unref, with one cursor fewer.
LEMMA DirentUnrefSound ==
    ASSUME NEW s, NEW H \in [Inodes -> Int], NEW C \in [Dirents -> Int], Sound(s, H, C),
           NEW d \in DOMAIN s.ents, C[d] >= 1
    PROVE  Sound(dirent_unref(s, d), H, PlusC(C, d, -1)) /\ dirent_unref(s, d).nodes = s.nodes
<1> DEFINE t == dirent_unref(s, d)
<1>1. Counted(t, H, PlusC(C, d, -1)) /\ t.nodes = s.nodes /\ t.lists = s.lists /\ SameEntries(s, t)
  BY DirentUnref DEF Sound
<1> HIDE DEF t
<1>2. Within(s, t)
  BY <1>1 DEF Within
<1>3. Sound(t, H, PlusC(C, d, -1))
  BY <1>1, <1>2, QuietSame, SoundStep DEF Counted
<1> QED BY <1>1, <1>3 DEF t

\* dirent_detach keeps a tree sound.
LEMMA RemoveSound ==
    ASSUME NEW s, NEW H \in [Inodes -> Int], NEW C \in [Dirents -> Nat], Sound(s, H, C),
           NEW i \in Inodes, NEW d \in Members(s.lists[i]), s.ents[d].inode # i
    PROVE  /\ Sound(Remove(s, i, d), H, C) /\ Fewer(s, Remove(s, i, d))
           /\ Unlisted(s, Remove(s, i, d), d)
           /\ DOMAIN s.ents \ {d} \subseteq DOMAIN Remove(s, i, d).ents
<1> DEFINE t == Remove(s, i, d)
<1>1. /\ Counted(t, H, C) /\ Fewer(s, t) /\ Unlisted(s, t, d) /\ DOMAIN s.ents \ {d} \subseteq DOMAIN t.ents
  BY RemoveCounted DEF Sound
<1> HIDE DEF t
<1>2. Quiet(s, t)
  BY <1>1, QuietSame DEF Fewer, Within, Counted
<1>3. Sound(t, H, C)
  BY <1>1, <1>2, SoundStep
<1> QED BY <1>1, <1>3 DEF t

\* A name for an inode that is in use, or for one that was free.
LEMMA LinkSound ==
    ASSUME NEW s, NEW H \in [Inodes -> Int], NEW C \in [Dirents -> Int], Sound(s, H, C),
           NEW i, NEW nm, NEW j, NEW r, Linkable(s, i, nm, j, r), s.nodes[i].ref # 0,
           s.nodes[j].ref # 0 => r.type = s.nodes[j].type /\ r.inum = s.nodes[j].inum,
           Plain(s) /\ Native => r.mnt = None /\ r.inum = None /\ (i # j \/ nm = "." \/ (nm = ".." /\ i = Root))
    PROVE  LET t == LinkInto(s, i, nm, j, r)
           IN  Sound(t, H, C) /\ Linked(s, t, i, nm, j) /\ t.nodes = NodesLinked(s, i, j, r)
<1> DEFINE t == LinkInto(s, i, nm, j, r)
           x == [r EXCEPT !.ref = IF j = i THEN @ ELSE @ + 1]
<1>1. Counted(t, H, C) /\ Linked(s, t, i, nm, j) /\ t.nodes = [s.nodes EXCEPT ![j] = x]
  <2>1. Counted(s, H, C)
    BY DEF Sound
  <2>2. Linkable(s, i, nm, j, r)
    OBVIOUS
  <2>3. Counted(t, H, C) /\ Linked(s, t, i, nm, j) /\ t.nodes = NodesLinked(s, i, j, r)
    BY ONLY H \in [Inodes -> Int], C \in [Dirents -> Int], <2>1, <2>2, LinkCounted
  <2> QED BY <2>3, Zenon DEF NodesLinked
<1> i \in Inodes /\ j \in Inodes /\ r \in NodeType /\ r.ref = s.nodes[j].ref
  BY DEF Linkable
<1>2. /\ x.ref \in Nat /\ (s.nodes[j].ref # 0 => x.ref # 0 /\ x.type = s.nodes[j].type /\ x.inum = s.nodes[j].inum)
      /\ x.mnt = r.mnt /\ x.inum = r.inum
  BY DEF NodeType
<1>3. s.nodes \in [Inodes -> NodeType]
  BY DEF Sound, Counted, TreeOK, NodesOK
<1> HIDE DEF t, x
<1>4. \A k \in Inodes : t.nodes[k] = IF k = j THEN x ELSE s.nodes[k]
  BY <1>1, <1>3
<1>5. Quiet(s, t)
  <2>1. Keeps(s, t)
    BY <1>2, <1>4 DEF Keeps
  <2>2. \A k \in Inodes : k # i => t.lists[k] = s.lists[k]
    BY <1>1 DEF Linked
  <2>3. t.nodes[i].ref # 0
    BY <2>1 DEF Keeps
  <2>4. ASSUME Plain(s), Native
        PROVE  Dry(t)
    <3>1. Dry(s)
      BY <2>4 DEF Plain
    <3>2. \A k \in Inodes : t.nodes[k].mnt = None /\ t.nodes[k].inum = None
      BY <1>2, <1>4, <2>4, <3>1 DEF Dry
    <3>3. PICK d : /\ t.ents[d] = [name |-> nm, inode |-> j, ref |-> 1]
                   /\ \A y \in DOMAIN s.ents : t.ents[y] = s.ents[y]
                   /\ Members(t.lists[i]) = Members(s.lists[i]) \cup {d}
      BY <1>1 DEF Linked
    <3>4. \A k \in Inodes : \A y \in Members(s.lists[k]) : y \in DOMAIN s.ents
      BY DEF Sound, Counted, TreeOK, ListsOK, Members
    <3>5. ASSUME NEW k \in Inodes, NEW y \in Members(t.lists[k]), t.ents[y].inode = k
          PROVE  t.ents[y].name = "." \/ (t.ents[y].name = ".." /\ k = Root)
      <4>1. CASE y \in Members(s.lists[k])
        BY <3>1, <3>3, <3>4, <3>5, <4>1 DEF Dry, NoneSelf
      <4>2. CASE y \notin Members(s.lists[k])
        BY <2>2, <2>4, <3>3, <3>5, <4>2
      <4> QED BY <4>1, <4>2
    <3>6. NoneSelf(t)
      BY <3>5 DEF NoneSelf
    <3> QED BY <3>2, <3>6 DEF Dry
  <2>5. Plain(s) => Plain(t)
    BY <2>4 DEF Plain
  <2> QED BY <2>1, <2>2, <2>3, <2>5 DEF Quiet
<1>6. Sound(t, H, C)
  BY <1>1, <1>5, SoundStep
<1> QED BY <1>1, <1>6 DEF t, x, NodesLinked

-----------------------------------------------------------------------------
(* Walks.                                                                  *)

Held0 == HeldBy(cwd, stream, fds, mounts)
Cursors0 == CursorsOf(fds)

\* What a walk has made of the tree, and where it is.
Walked(s) ==
    /\ Sound(s, Held0, Cursors0) /\ NoneSelf(s) /\ Closed0(s) /\ s.due = <<>>
    /\ s.at # None => s.nodes[s.at].ref # 0

\* One step of a walk.
Goes(s, t) == Walked(t) /\ Keeps(s, t)

\* Two steps of a walk make one.
LEMMA GoesOn ==
    ASSUME NEW s, NEW t, NEW u, Goes(s, t), Goes(t, u)
    PROVE  Goes(s, u)
  BY DEF Goes, Keeps

\* And so does none.
LEMMA GoesNowhere ==
    ASSUME NEW s, Walked(s)
    PROVE  Goes(s, s)
  BY DEF Goes, Keeps

\* The tree in memory is sound.
LEMMA HereSound ==
    ASSUME RegInv
    PROVE  Sound(Here, Held0, Cursors0)
<1>1. Here.nodes = Now.nodes
  BY DEF Here, Now
<1> QED BY <1>1 DEF RegInv, Sound, Held0, Cursors0, Keeps

\* So it is when a call begins.
LEMMA NowSound ==
    ASSUME RegInv, due = <<>>
    PROVE  Sound(Now, Held0, Cursors0)
<1>1. Here = Now
  BY DEF Here, Now
<1> QED BY <1>1, HereSound

\* The least number of a set is in it.
LEMMA LeastIs ==
    ASSUME NEW T \in SUBSET Nat, T # {}
    PROVE  Least(T) \in T
<1>1. \E x \in T : \A y \in T : x <= y
  BY LeastNumber
<1> QED BY <1>1 DEF Least

\* The holders at the start of a call, as numbers.
LEMMA ZeroInts == Held0 \in [Inodes -> Nat] /\ Held0 \in [Inodes -> Int]
                  /\ Cursors0 \in [Dirents -> Nat] /\ Cursors0 \in [Dirents -> Int] /\ Held0[Root] >= 1
<1>1. Held0 \in [Inodes -> Nat] /\ Cursors0 \in [Dirents -> Nat] /\ Held0[Root] >= 1
  BY HeldNat DEF Held0, Cursors0
<1> QED BY <1>1

\* registry_finddirent returns an entry of the directory's list.
LEMMA FindOK ==
    ASSUME NEW s, TreeOK(s), NEW i \in Inodes, NEW nm, Find(s, i, nm) # NoEntry
    PROVE  /\ Find(s, i, nm) \in Members(s.lists[i]) /\ Find(s, i, nm) \in DOMAIN s.ents /\ Find(s, i, nm) \in Dirents
           /\ s.ents[Find(s, i, nm)].name = nm /\ s.ents[Find(s, i, nm)].inode \in Inodes
           /\ Find(s, i, nm)[1] = i
<1> DEFINE at == {k \in DOMAIN s.lists[i] : s.ents[s.lists[i][k]].name = nm}
           q == s.lists[i]
<1>1. q \in Seq(DOMAIN s.ents) /\ \A d \in Members(q) : d[1] = i
  BY SMTT(60) DEF TreeOK, ListsOK
<1>2. at # {} /\ Find(s, i, nm) = q[Least(at)]
  BY Zenon DEF Find
<1>3. at \in SUBSET Nat
  BY <1>1
<1>4. Least(at) \in at
  <2> HIDE DEF at
  <2> QED BY <1>2, <1>3, LeastIs, SMTT(60)
<1>5. Least(at) \in DOMAIN q /\ s.ents[q[Least(at)]].name = nm
  BY <1>4, Zenon
<1> HIDE DEF at
<1>6. q[Least(at)] \in Members(q) /\ q[Least(at)] \in DOMAIN s.ents
  BY <1>1, <1>5 DEF Members
<1>7. Find(s, i, nm) \in Dirents /\ s.ents[Find(s, i, nm)].inode \in Inodes
  BY <1>2, <1>6, EntryTyped
<1> QED BY <1>1, <1>2, <1>5, <1>6, <1>7

\* What holds an inode keeps it in use.
LEMMA HolderInUse ==
    ASSUME NEW s, NEW C, Sound(s, Held0, C), NEW i \in Inodes,
           Holds(i, cwd, stream, fds, mounts) \/ i = Root
    PROVE  s.nodes[i].ref # 0
<1>1. Held0[i] >= 1 /\ Held0[i] \in Nat
  BY HeldSome, ZeroInts DEF Held0
<1>2. Cardinality(Refs(s, i)) \in Nat /\ Times(s.due, i) \in Nat
  BY RefsFinite, TimesNat DEF Sound, Counted, TreeOK, EntsOK
<1>3. s.nodes[i].ref = Cardinality(Refs(s, i)) + Times(s.due, i) + Held0[i]
  BY DEF Sound, Counted, NodesCounted
<1> QED BY <1>1, <1>2, <1>3

\* An entry of a directory in use stands for an inode in use.
LEMMA EntryInUse ==
    ASSUME NEW s, NEW C, Sound(s, Held0, C), NEW i \in Inodes, s.nodes[i].ref # 0, NEW d \in Members(s.lists[i])
    PROVE  s.ents[d].inode \in Inodes /\ s.nodes[s.ents[d].inode].ref # 0
<1> DEFINE j == s.ents[d].inode
<1>1. d \in DOMAIN s.ents /\ d[1] = i /\ IsFiniteSet(DOMAIN s.ents) /\ TreeOK(s)
  <2>1. s.lists[i] \in Seq(DOMAIN s.ents) /\ d[1] = i
    BY DEF Sound, Counted, TreeOK, ListsOK
  <2>2. d \in DOMAIN s.ents
    BY <2>1 DEF Members
  <2> QED BY <2>1, <2>2 DEF Sound, Counted, TreeOK, EntsOK
<1>2. j \in Inodes
  BY <1>1, EntryTyped
<1>3. CASE j # i
  <2>1. d \in Refs(s, j)
    BY <1>1, <1>3 DEF Refs
  <2>2. IsFiniteSet(Refs(s, j)) /\ Cardinality(Refs(s, j)) \in Nat
    BY <1>1, RefsFinite
  <2>3. Cardinality(Refs(s, j)) # 0
    BY <2>1, <2>2, FS_EmptySet
  <2>4. Times(s.due, j) \in Nat /\ Held0[j] \in Nat
    BY <1>2, TimesNat, ZeroInts DEF Sound, Counted, TreeOK
  <2>5. s.nodes[j].ref = Cardinality(Refs(s, j)) + Times(s.due, j) + Held0[j]
    BY <1>2 DEF Sound, Counted, NodesCounted
  <2> QED BY <1>2, <2>2, <2>3, <2>4, <2>5
<1> QED BY <1>2, <1>3

\* At the start of a call.
LEMMA NowWalked ==
    ASSUME RegInv, Ordinary, due = <<>>
    PROVE  Walked(Now)
<1>1. Now = Here
  BY DEF Now, Here
<1>2. Sound(Now, Held0, Cursors0)
  BY <1>1, HereSound
<1>3. Now.nodes = inode /\ Now.lists = kids /\ Now.ents = dirent /\ Now.due = <<>> /\ Now.at = None
  BY DEF Now
<1>4. NoneSelf(Now) /\ Closed0(Now)
  BY <1>3 DEF Ordinary, NoneInItself, VolumeClosed, NoneSelf, Closed0
<1> QED BY <1>2, <1>3, <1>4 DEF Walked

\* The walk is somewhere.
LEMMA AtWalked ==
    ASSUME NEW s, Walked(s), NEW a \in InodeOrNone, a # None => s.nodes[a].ref # 0
    PROVE  Goes(s, [s EXCEPT !.at = a]) /\ [s EXCEPT !.at = a].at = a
<1> DEFINE t == [s EXCEPT !.at = a]
<1>1. /\ Sound(t, Held0, Cursors0) /\ t.nodes = s.nodes /\ t.lists = s.lists /\ t.ents = s.ents
      /\ t.due = s.due /\ t.at = a
  BY AtSound, ZeroInts DEF Walked
<1> HIDE DEF t
<1>2. Goes(s, t)
  BY <1>1 DEF Goes, Keeps, Walked, NoneSelf, Closed0
<1> QED BY <1>1, <1>2 DEF t

\* It marks the inode that it comes to as lying in a mount.
LEMMA MarkWalked ==
    ASSUME NEW s, Walked(s), NEW a \in Inodes, s.nodes[a].ref # 0, s.nodes[a].inum # None,
           NEW m \in Mounts \cup {None}
    PROVE  Goes(s, [s EXCEPT !.at = a, !.nodes[a].mnt = m])
<1> DEFINE r == [s.nodes[a] EXCEPT !.mnt = m]
           u == [s EXCEPT !.nodes[a] = r]
           t == [u EXCEPT !.at = a]
<1>1. Parts(s) /\ s.nodes \in [Inodes -> NodeType] /\ TreeOK(s)
  BY DEF Walked, Sound, Counted, TreeOK, NodesOK
<1>2. s.nodes[a] \in NodeType
  BY <1>1
<1>3. r \in NodeType /\ r.ref = s.nodes[a].ref /\ r.type = s.nodes[a].type /\ r.inum = s.nodes[a].inum
  BY <1>2 DEF NodeType
<1>4. [s EXCEPT !.at = a, !.nodes[a].mnt = m] = t
  BY <1>1 DEF Parts
<1> HIDE DEF r
<1>5. /\ Sound(u, Held0, Cursors0) /\ u.lists = s.lists /\ u.ents = s.ents /\ u.due = s.due
      /\ u.nodes = [s.nodes EXCEPT ![a] = r]
  <2>1. Sound(s, Held0, Cursors0) /\ r.inum # None
    BY <1>3 DEF Walked
  <2> QED BY <1>3, <2>1, MarkSound, ZeroInts
<1> HIDE DEF u
<1>6. /\ Sound(t, Held0, Cursors0) /\ t.nodes = u.nodes /\ t.lists = u.lists /\ t.ents = u.ents
      /\ t.due = u.due /\ t.at = a
  BY <1>5, AtSound, ZeroInts DEF InodeOrNone
<1> HIDE DEF t
<1>7. \A i \in Inodes : t.nodes[i] = IF i = a THEN r ELSE s.nodes[i]
  BY <1>1, <1>5, <1>6
<1>8. Closed0(t)
  <2>1. \A i \in Inodes : t.nodes[i].inum = s.nodes[i].inum
    BY <1>3, <1>7
  <2>2. \A i \in Inodes : t.nodes[i].mnt # None => t.nodes[i].inum # None
    BY <1>3, <1>7 DEF Walked, Closed0
  <2>3. ASSUME NEW i \in Inodes, NEW d \in Members(t.lists[i]), t.nodes[i].inum # None
        PROVE  t.nodes[t.ents[d].inode].inum # None
    <3>1. d \in Members(s.lists[i]) /\ s.nodes[i].inum # None
      BY <1>5, <1>6, <2>1, <2>3
    <3>2. s.nodes[s.ents[d].inode].inum # None
      BY <3>1 DEF Walked, Closed0
    <3>3. s.lists[i] \in Seq(DOMAIN s.ents)
      BY <1>1 DEF TreeOK, ListsOK
    <3>4. d \in DOMAIN s.ents
      BY <3>1, <3>3 DEF Members
    <3>5. s.ents[d].inode \in Inodes
      BY <1>1, <3>4, EntryTyped
    <3> QED BY <1>5, <1>6, <2>1, <3>2, <3>5
  <2> QED BY <2>2, <2>3 DEF Closed0
<1>9. NoneSelf(t)
  BY <1>5, <1>6 DEF Walked, NoneSelf
<1>10. t.due = <<>> /\ t.nodes[t.at].ref # 0
  BY <1>3, <1>5, <1>6, <1>7 DEF Walked
<1>11. Goes(s, t)
  BY <1>3, <1>6, <1>7, <1>8, <1>9, <1>10 DEF Walked, Goes, Keeps
<1> QED BY <1>4, <1>11

\* mount_find, and the root of what is mounted.
LEMMA MountFound ==
    ASSUME RegInv, NEW i, i # None, mount_find(i) # None
    PROVE  /\ mount_find(i) \in Mounts /\ mounts[mount_find(i)].mountpoint = i
           /\ mounts[mount_find(i)].root \in Inodes
           /\ inode[mounts[mount_find(i)].root].inum # None
<1> DEFINE at == {m \in Mounts : mounts[m].mountpoint = i}
           m == mount_find(i)
<1>1. at # {} /\ m = Least(at)
  BY DEF mount_find
<1>2. at \in SUBSET Nat
  BY SizesAssumption DEF Mounts
<1>3. m \in at
  <2> HIDE DEF at
  <2> QED BY <1>1, <1>2, LeastIs
<1>4. m \in Mounts /\ mounts[m].mountpoint = i
  BY <1>3
<1> HIDE DEF m
<1>5. mounts[m].root # None /\ inode[mounts[m].root].inum # None
  BY <1>4 DEF RegInv, MountsOK
<1>6. mounts[m].root \in InodeOrNone
  BY <1>4 DEF RegInv, HoldersOK, MountType
<1> QED BY <1>4, <1>5, <1>6 DEF m, InodeOrNone

\* The root of what is mounted is in use.
LEMMA RootOfMount ==
    ASSUME RegInv, NEW s, NEW C, Sound(s, Held0, C), NEW m \in Mounts, mounts[m].root # None
    PROVE  /\ mounts[m].root \in Inodes /\ s.nodes[mounts[m].root].ref # 0
           /\ s.nodes[mounts[m].root].inum # None
           /\ mounts[m].mountpoint \in Inodes /\ s.nodes[mounts[m].mountpoint].ref # 0
<1> DEFINE r == mounts[m].root
           p == mounts[m].mountpoint
<1>1. r \in Inodes /\ p \in Inodes /\ inode[r].inum # None
  BY DEF RegInv, HoldersOK, MountsOK, MountType, InodeOrNone
<1>2. Holds(r, cwd, stream, fds, mounts) /\ Holds(p, cwd, stream, fds, mounts)
  BY DEF Holds
<1> HIDE DEF r, p
<1>3. s.nodes[r].ref # 0 /\ s.nodes[p].ref # 0
  BY <1>1, <1>2, HolderInUse
<1>4. Sound(Here, Held0, Cursors0)
  BY HereSound
<1>5. Here.nodes = inode /\ Now.nodes = inode
  BY DEF Here, Now
<1>6. inode[r].ref # 0
  BY <1>1, <1>2, <1>4, <1>5, HolderInUse
<1>7. s.nodes[r].inum = inode[r].inum
  BY <1>1, <1>5, <1>6 DEF Sound, Keeps
<1> QED BY <1>1, <1>3, <1>7 DEF r, p

\* A walk crosses a mountpoint.
LEMMA EnterWalked ==
    ASSUME RegInv, NEW s, Walked(s), NEW i \in Inodes, s.nodes[i].ref # 0
    PROVE  Goes(s, Enter(s, i))
<1>1. CASE mount_find(i) = None
  <2>1. Enter(s, i) = [s EXCEPT !.at = i]
    BY <1>1 DEF Enter
  <2>2. i \in InodeOrNone
    BY DEF InodeOrNone
  <2>3. Goes(s, [s EXCEPT !.at = i])
    BY <2>2, AtWalked
  <2> QED BY <2>1, <2>3
<1>2. CASE mount_find(i) # None
  <2> DEFINE m == mount_find(i)
             r == mounts[m].root
  <2>1. m \in Mounts /\ r \in Inodes
    BY <1>2, RootInodes, MountFound
  <2>2. Enter(s, i) = [s EXCEPT !.at = r, !.nodes[r].mnt = m]
    BY <1>2 DEF Enter
  <2>3. r # None
    BY <2>1, RootInodes
  <2> HIDE DEF m
  <2>4. s.nodes[r].ref # 0 /\ s.nodes[r].inum # None
    BY <2>1, <2>3, RootOfMount DEF Walked
  <2> HIDE DEF r
  <2>5. Goes(s, [s EXCEPT !.at = r, !.nodes[r].mnt = m])
    BY <2>1, <2>4, MarkWalked
  <2> QED BY <2>2, <2>5
<1> QED BY <1>1, <1>2

\* The parent of an inode in use is in use.
LEMMA UpInUse ==
    ASSUME NEW s, NEW C, Sound(s, Held0, C), NEW i \in Inodes, s.nodes[i].ref # 0
    PROVE  Up(s, i) \in Inodes /\ s.nodes[Up(s, i)].ref # 0
<1> DEFINE d == Find(s, i, "..")
<1>1. CASE d = NoEntry
  BY <1>1 DEF Up
<1>2. CASE d # NoEntry
  <2>1. d \in Members(s.lists[i])
    BY <1>2, FindOK DEF Sound, Counted
  <2>2. Up(s, i) = s.ents[d].inode
    BY <1>2 DEF Up
  <2> HIDE DEF d
  <2> QED BY <2>1, <2>2, EntryInUse
<1> QED BY <1>1, <1>2

\* A free inode is found, and it is not the root.
LEMMA FreeInode ==
    ASSUME NEW s, TreeOK(s), FreeInodes(s) # {}
    PROVE  /\ Least(FreeInodes(s)) \in Inodes /\ Least(FreeInodes(s)) # Root
           /\ s.nodes[Least(FreeInodes(s))].ref = 0
<1> DEFINE F == FreeInodes(s)
<1>1. F \in SUBSET Nat /\ \A i \in F : i \in Inodes /\ s.nodes[i].type = "none"
  BY SizesAssumption DEF FreeInodes, Inodes
<1> HIDE DEF F
<1>2. Least(F) \in F
  BY <1>1, LeastIs DEF F
<1>3. Least(F) \in Inodes /\ s.nodes[Least(F)].type = "none"
  BY <1>1, <1>2
<1> QED BY <1>3, NodeTyped DEF F

\* A name that is looked up for the first time.
Fresh(n) == [NoInode EXCEPT !.type = disk[n].type, !.inum = n]

\* The inode that ext2_lookup fills in.
LEMMA FreshIs ==
    ASSUME NEW n
    PROVE  Fresh(n) = [type |-> disk[n].type, ref |-> 0, deleted |-> FALSE, mnt |-> None, inum |-> n]
<1> DEFINE f == Fresh(n)
           y == disk[n].type
           z == NoInode
<1>1. f = [[z EXCEPT !.type = y] EXCEPT !.inum = n]
  BY DEF Fresh
<1>2. z = [type |-> "none", ref |-> 0, deleted |-> FALSE, mnt |-> None, inum |-> None]
  BY DEF NoInode
<1> HIDE DEF f, y, z
<1>3. f = [type |-> y, ref |-> 0, deleted |-> FALSE, mnt |-> None, inum |-> n]
  BY <1>1, <1>2
<1> QED BY <1>3 DEF f, y

\* ext2_lookup caches a name.
LEMMA FreshWalked ==
    ASSUME RegInv, NEW s, Walked(s), NEW i \in Inodes, s.nodes[i].ref # 0, s.nodes[i].inum # None,
           NEW nm \in Names \cup Dots, FreeInodes(s) # {}, FreeDirents(s) > 0,
           NEW n \in Inums, disk[n].used,
           NEW new, new = Least(FreeInodes(s))
    PROVE  LET t == LinkInto(s, i, nm, new, Fresh(n))
           IN  Goes(s, t) /\ new \in Inodes /\ t.nodes[new].ref # 0 /\ t.nodes[new].inum # None
<1> DEFINE t == LinkInto(s, i, nm, new, Fresh(n))
           f == Fresh(n)
<1>1. TreeOK(s) /\ Parts(s) /\ s.nodes \in [Inodes -> NodeType] /\ s.lists \in [Inodes -> Seq(DOMAIN s.ents)]
  BY DEF Walked, Sound, Counted, TreeOK, NodesOK, ListsOK
<1>2. new \in Inodes /\ new # Root /\ s.nodes[new].ref = 0 /\ new # i
  BY <1>1, FreeInode
<1>3. f \in NodeType /\ f.type # "none" /\ f.ref = 0 /\ f.mnt = None /\ f.inum = n /\ n # None
  <2>1. disk[n].type \in {"dir", "file"}
    BY DEF RegInv, DiskOK, DiskType
  <2>4. f = [type |-> disk[n].type, ref |-> 0, deleted |-> FALSE, mnt |-> None, inum |-> n]
    BY FreshIs
  <2> HIDE DEF f
  <2>2. f.type = disk[n].type /\ f.inum = n /\ f.ref = 0 /\ f.mnt = None /\ f.deleted = FALSE
    BY <2>4
  <2>3. n # None
    BY DiskAssumption DEF None
  <2> QED BY <2>1, <2>2, <2>3, <2>4 DEF NodeType
<1> HIDE DEF f
<1>4. Linkable(s, i, nm, new, f)
  BY <1>2, <1>3 DEF Linkable, RegInv, HoldersOK
<1>5. Sound(t, Held0, Cursors0) /\ Linked(s, t, i, nm, new) /\ t.nodes = NodesLinked(s, i, new, f)
  <2>1. ~(Plain(s) /\ Native)
    BY DEF Plain, Dry
  <2>2. Sound(s, Held0, Cursors0) /\ Held0 \in [Inodes -> Int] /\ Cursors0 \in [Dirents -> Int]
    BY ZeroInts DEF Walked
  <2> HIDE DEF t
  <2>3. t = LinkInto(s, i, nm, new, f)
    BY DEF t, f
  <2> QED BY <1>2, <1>4, <2>1, <2>2, <2>3, LinkSound
<1> HIDE DEF t
<1>6. /\ \A k \in Inodes : k # new => t.nodes[k] = s.nodes[k]
      /\ t.nodes[new].ref # 0 /\ t.nodes[new].inum = n /\ t.nodes[new].mnt = None
  BY <1>1, <1>2, <1>3, <1>5 DEF NodesLinked
<1>7. PICK d : /\ d \notin DOMAIN s.ents /\ t.ents[d] = [name |-> nm, inode |-> new, ref |-> 1]
               /\ \A x \in DOMAIN s.ents : t.ents[x] = s.ents[x]
               /\ Members(t.lists[i]) = Members(s.lists[i]) \cup {d}
               /\ \A k \in Inodes : k # i => t.lists[k] = s.lists[k]
               /\ t.at = s.at /\ t.due = s.due
  BY <1>5 DEF Linked
<1>8. ASSUME NEW k \in Inodes, NEW x \in Members(t.lists[k])
      PROVE  \/ x \in Members(s.lists[k]) /\ x \in DOMAIN s.ents /\ t.ents[x] = s.ents[x] /\ s.ents[x].inode \in Inodes
             \/ k = i /\ x = d
  <2>1. CASE x \in Members(s.lists[k])
    <3>1. x \in DOMAIN s.ents
      BY <1>1, <2>1 DEF Members
    <3> QED BY <1>1, <1>7, <2>1, <3>1, EntryTyped
  <2>2. CASE x \notin Members(s.lists[k])
    BY <1>7, <1>8, <2>2
  <2> QED BY <2>1, <2>2
<1>9. NoneSelf(t)
  <2> SUFFICES ASSUME NEW k \in Inodes, NEW x \in Members(t.lists[k]), t.ents[x].inode = k
               PROVE  t.ents[x].name = "." \/ (t.ents[x].name = ".." /\ k = Root)
    BY DEF NoneSelf
  <2>1. CASE k = i /\ x = d
    BY <1>2, <1>7, <2>1
  <2>2. CASE x \in Members(s.lists[k]) /\ t.ents[x] = s.ents[x]
    BY <2>2 DEF Walked, NoneSelf
  <2> QED BY <1>8, <2>1, <2>2
<1>10. Closed0(t)
  <2>1. \A k \in Inodes : t.nodes[k].mnt # None => t.nodes[k].inum # None
    BY <1>6 DEF Walked, Closed0
  <2>2. ASSUME NEW k \in Inodes, NEW x \in Members(t.lists[k]), t.nodes[k].inum # None
        PROVE  t.nodes[t.ents[x].inode].inum # None
    <3>1. CASE k = i /\ x = d
      BY <1>3, <1>6, <1>7, <3>1
    <3>2. CASE x \in Members(s.lists[k]) /\ t.ents[x] = s.ents[x] /\ s.ents[x].inode \in Inodes
      <4>1. k # new
        BY <1>2, <3>2 DEF Walked, Sound, Bare
      <4>2. s.nodes[k].inum # None
        BY <1>6, <2>2, <4>1
      <4>3. s.nodes[s.ents[x].inode].inum # None
        BY <3>2, <4>2 DEF Walked, Closed0
      <4> QED BY <1>3, <1>6, <3>2, <4>3
    <3> QED BY <1>8, <3>1, <3>2
  <2> QED BY <2>1, <2>2 DEF Closed0
<1>11. t.due = <<>> /\ (t.at # None => t.nodes[t.at].ref # 0)
  <2>1. s.at \in InodeOrNone
    BY <1>1 DEF TreeOK
  <2> QED BY <1>6, <1>7, <2>1 DEF Walked, InodeOrNone
<1>12. Goes(s, t)
  BY <1>2, <1>5, <1>6, <1>9, <1>10, <1>11 DEF Walked, Goes, Keeps
<1> QED BY <1>2, <1>3, <1>6, <1>12 DEF t

\* A name on the disk has a number or none.
LEMMA OnDiskType ==
    ASSUME RegInv, NEW n \in Inums, NEW nm \in Names \cup Dots
    PROVE  OnDisk(n, nm) \in Inums \cup {None}
<1>1. disk[n].up \in Inums \cup {None} /\ disk[n].names \in [Names -> Inums \cup {None}]
  BY DEF RegInv, DiskOK, DiskType
<1>2. nm \notin Dots => disk[n].names[nm] \in Inums \cup {None}
  BY <1>1
<1> QED BY <1>1, <1>2 DEF OnDisk, Dots

\* ext2_lookup is a step of a walk.
LEMMA LookupWalked ==
    ASSUME RegInv, NEW s, Walked(s), NEW i \in Inodes, s.nodes[i].ref # 0, s.nodes[i].mnt # None,
           NEW nm \in Names \cup Dots, NEW memory
    PROVE  Goes(s, Lookup(s, i, nm, memory))
<1> DEFINE d == Find(s, i, nm)
           n == OnDisk(s.nodes[i].inum, nm)
           new == Least(FreeInodes(s))
           made == LinkInto(s, i, nm, new, Fresh(n))
           found == IF d # NoEntry THEN s.ents[d].inode ELSE new
           t == IF d # NoEntry THEN s ELSE made
           m == s.nodes[i].mnt
<1>1. TreeOK(s) /\ s.nodes[i] \in NodeType
  BY NodeTyped DEF Walked, Sound, Counted
<1>2. s.nodes[i].inum \in Inums /\ s.nodes[i].inum # None /\ m \in Mounts \cup {None}
  <2>1. s.nodes[i].inum # None
    BY DEF Walked, Closed0
  <2> QED BY <1>1, <2>1 DEF NodeType
<1>3. n \in Inums \cup {None}
  BY <1>2, OnDiskType
<1>4. Lookup(s, i, nm, memory) =
        IF d # NoEntry \/ (memory /\ n # None /\ disk[n].used /\ FreeInodes(s) # {} /\ FreeDirents(s) > 0)
        THEN [t EXCEPT !.at = found, !.nodes[found].mnt = m] ELSE [s EXCEPT !.at = None]
  BY Zenon DEF Lookup, LinkInto, Fresh
<1> HIDE DEF n, m
<1>5. CASE d # NoEntry
  <2>1. d \in Members(s.lists[i])
    BY <1>1, <1>5, FindOK
  <2>2. t = s /\ found = s.ents[d].inode
    BY <1>5
  <2>3. s.nodes[i].inum # None => s.nodes[s.ents[d].inode].inum # None
    BY <2>1 DEF Walked, Closed0
  <2> HIDE DEF d, t, found
  <2>4. found \in Inodes /\ s.nodes[found].ref # 0
    BY <2>1, <2>2, EntryInUse DEF Walked
  <2>5. Goes(s, [s EXCEPT !.at = found, !.nodes[found].mnt = m])
    BY <1>2, <2>2, <2>3, <2>4, MarkWalked
  <2> QED BY <1>4, <1>5, <2>2, <2>5
<1>6. CASE d = NoEntry /\ memory /\ n # None /\ disk[n].used /\ FreeInodes(s) # {} /\ FreeDirents(s) > 0
  <2>1. t = made /\ found = new
    BY <1>6
  <2>2. n \in Inums
    BY <1>3, <1>6
  <2> HIDE DEF d, t, found, new
  <2>3. Goes(s, made) /\ new \in Inodes /\ made.nodes[new].ref # 0 /\ made.nodes[new].inum # None
    BY <1>2, <1>6, <2>2, FreshWalked DEF new
  <2> HIDE DEF made
  <2>4. Goes(made, [made EXCEPT !.at = new, !.nodes[new].mnt = m])
    BY <1>2, <2>3, MarkWalked DEF Goes
  <2>5. Goes(s, [made EXCEPT !.at = new, !.nodes[new].mnt = m])
    BY <2>3, <2>4, GoesOn
  <2> QED BY <1>4, <1>6, <2>1, <2>5
<1>7. CASE ~(d # NoEntry \/ (memory /\ n # None /\ disk[n].used /\ FreeInodes(s) # {} /\ FreeDirents(s) > 0))
  <2>1. None \in InodeOrNone
    BY DEF InodeOrNone
  <2>2. Goes(s, [s EXCEPT !.at = None])
    BY <2>1, AtWalked
  <2> HIDE DEF d, t, found
  <2> QED BY <1>4, <1>7, <2>2
<1> QED BY <1>5, <1>6, <1>7

\* One component of a path is a step of a walk.
LEMMA StepWalked ==
    ASSUME RegInv, NEW s, Walked(s), NEW nm \in Names \cup Dots, NEW memory
    PROVE  Goes(s, Step(s, nm, memory))
<1> DEFINE i == s.at
           m == s.nodes[i].mnt
           d == Find(s, i, nm)
           away == [s EXCEPT !.at = None]
<1>1. Goes(s, away)
  <2>1. None \in InodeOrNone
    BY DEF InodeOrNone
  <2> QED BY <2>1, AtWalked
<1>2. TreeOK(s) /\ i \in InodeOrNone /\ Sound(s, Held0, Cursors0)
  BY DEF Walked, Sound, Counted, TreeOK
<1>3. CASE i = None \/ ~IsDir(s, i)
  <2>1. Step(s, nm, memory) = away
    BY <1>3 DEF Step
  <2> QED BY <1>1, <2>1
<1>4. CASE i # None /\ IsDir(s, i)
  <2>1. i \in Inodes /\ s.nodes[i].ref # 0
    BY <1>2, <1>4 DEF Walked, InodeOrNone
  <2>2. Step(s, nm, memory) =
          IF m = None THEN IF d = NoEntry THEN away ELSE Enter(s, s.ents[d].inode)
          ELSE IF nm = ".." /\ mounts[m].root = i THEN [s EXCEPT !.at = Up(s, mounts[m].mountpoint)]
          ELSE Lookup(s, i, nm, memory)
    BY <1>4, Zenon DEF Step
  <2> HIDE DEF away
  <2>3. CASE m = None /\ d = NoEntry
    BY <1>1, <2>2, <2>3
  <2>4. CASE m = None /\ d # NoEntry
    <3>1. d \in Members(s.lists[i])
      BY <1>2, <2>1, <2>4, FindOK
    <3> HIDE DEF d
    <3>2. s.ents[d].inode \in Inodes /\ s.nodes[s.ents[d].inode].ref # 0
      BY <1>2, <2>1, <3>1, EntryInUse
    <3>3. Goes(s, Enter(s, s.ents[d].inode))
      BY <3>2, EnterWalked
    <3> QED BY <2>2, <2>4, <3>3
  <2>5. CASE m # None /\ nm = ".." /\ mounts[m].root = i
    <3>1. m \in Mounts
      <4>1. s.nodes[i] \in NodeType
        BY <1>2, <2>1, NodeTyped
      <4> QED BY <2>5, <4>1 DEF NodeType
    <3>2. mounts[m].root # None
      BY <2>1, <2>5, RootInodes
    <3> DEFINE p == mounts[m].mountpoint
    <3>3. p \in Inodes /\ s.nodes[p].ref # 0
      <4> HIDE DEF m
      <4> QED BY <1>2, <3>1, <3>2, RootOfMount
    <3> HIDE DEF p
    <3>4. Up(s, p) \in Inodes /\ s.nodes[Up(s, p)].ref # 0
      BY <1>2, <3>3, UpInUse
    <3>5. Up(s, p) \in InodeOrNone
      BY <3>4 DEF InodeOrNone
    <3>6. Goes(s, [s EXCEPT !.at = Up(s, p)])
      BY <3>4, <3>5, AtWalked
    <3> QED BY <2>2, <2>5, <3>6 DEF p
  <2>6. CASE m # None /\ ~(nm = ".." /\ mounts[m].root = i)
    <3>1. Goes(s, Lookup(s, i, nm, memory))
      BY <2>1, <2>6, LookupWalked
    <3> QED BY <2>2, <2>6, <3>1
  <2> QED BY <2>3, <2>4, <2>5, <2>6
<1> QED BY <1>3, <1>4

\* walk follows its definition.
From(s, t, abs) ==
    LET base == IF abs THEN Root ELSE cwd[t]
    IN  IF s.nodes[base].mnt = None THEN Enter(s, base) ELSE [s EXCEPT !.at = base]
WalkUpTo(start, names, memory, n, w) ==
    /\ DOMAIN w = 0 .. n
    /\ w[0] = start
    /\ \A k \in 1 .. n : w[k] = Step(w[k - 1], names[k], memory)

\* A walk is the last of its steps.
LEMMA WalkDef ==
    ASSUME NEW s, NEW t, NEW abs, NEW names, Len(names) \in Nat, NEW memory
    PROVE  \E w : WalkUpTo(From(s, t, abs), names, memory, Len(names), w) /\ walk(s, t, abs, names, memory) = w[Len(names)]
<1> DEFINE N == Len(names)
           start == From(s, t, abs)
           Eq(g, n) == g = [k \in 0 .. n |-> IF k = 0 THEN start ELSE Step(g[k - 1], names[k], memory)]
           Bad == {n \in 0 .. N : ~\E g : Eq(g, n)}
<1>1. N \in Nat
  OBVIOUS
<1> HIDE DEF start
<1>2. Bad = {}
  <2> SUFFICES ASSUME Bad # {} PROVE FALSE
    OBVIOUS
  <2>1. PICK n \in Bad : \A m \in Bad : n <= m
    <3>1. Bad \in SUBSET Nat
      BY <1>1
    <3> HIDE DEF Bad
    <3> QED BY <3>1, LeastNumber
  <2>2. CASE n = 0
    <3> DEFINE g == [k \in 0 .. 0 |-> start]
    <3>1. Eq(g, 0)
      OBVIOUS
    <3> QED BY <2>2, <3>1
  <2>3. CASE n # 0
    <3>1. n \in 1 .. N /\ n - 1 \in 0 .. N /\ n - 1 \notin Bad
      <4> HIDE DEF Eq
      <4>1. n \in 0 .. N
        OBVIOUS
      <4>2. n \in 1 .. N /\ n - 1 \in 0 .. N
        BY <1>1, <2>3, <4>1
      <4> HIDE DEF Bad
      <4> QED BY <1>1, <2>1, <4>2
    <3>2. PICK g : Eq(g, n - 1)
      <4> HIDE DEF Eq
      <4> QED BY <3>1
    <3>5. \A k \in 0 .. n - 1 : g[k] = IF k = 0 THEN start ELSE Step(g[k - 1], names[k], memory)
      BY <3>2
    <3> DEFINE h == [k \in 0 .. n |-> IF k = n THEN Step(g[n - 1], names[n], memory) ELSE g[k]]
    <3>3. \A k \in 0 .. n : h[k] = IF k = 0 THEN start ELSE Step(h[k - 1], names[k], memory)
      <4> HIDE DEF Eq, Bad
      <4> SUFFICES ASSUME NEW k \in 0 .. n
                   PROVE  h[k] = IF k = 0 THEN start ELSE Step(h[k - 1], names[k], memory)
        OBVIOUS
      <4>1. CASE k = n
        BY <1>1, <3>1, <4>1
      <4>2. CASE k # n
        <5>1. k \in 0 .. n - 1 /\ h[k] = g[k] /\ (k # 0 => h[k - 1] = g[k - 1])
          BY <1>1, <3>1, <4>2
        <5> HIDE DEF h
        <5> QED BY <3>5, <5>1
      <4> QED BY <4>1, <4>2
    <3>4. Eq(h, n)
      BY <3>3
    <3> QED BY <3>4
  <2> QED BY <2>2, <2>3
<1> DEFINE w[k \in 0 .. Len(names)] == IF k = 0 THEN start ELSE Step(w[k - 1], names[k], memory)
<1>3. w = [k \in 0 .. Len(names) |-> IF k = 0 THEN start ELSE Step(w[k - 1], names[k], memory)]
  <2>1. N \in 0 .. N
    BY <1>1
  <2>2. \E g : Eq(g, N)
    <3> HIDE DEF Eq
    <3> QED BY <1>2, <2>1
  <2> QED BY <2>2
<1>4. walk(s, t, abs, names, memory) = w[Len(names)]
  BY Zenon DEF walk, From, start
<1> HIDE DEF w
<1>5. WalkUpTo(start, names, memory, Len(names), w)
  <2>1. \A k \in 0 .. N : w[k] = IF k = 0 THEN start ELSE Step(w[k - 1], names[k], memory)
    BY <1>3
  <2>2. DOMAIN w = 0 .. N
    BY <1>3
  <2>3. 0 \in 0 .. N /\ \A k \in 1 .. N : k \in 0 .. N /\ k # 0
    BY <1>1
  <2> HIDE DEF N
  <2>4. WalkUpTo(start, names, memory, N, w)
    BY <2>1, <2>2, <2>3 DEF WalkUpTo
  <2> QED BY <2>4 DEF N
<1> QED BY <1>4, <1>5 DEF start

\* A walk, from the root or from a working directory.
LEMMA WalkWalked ==
    ASSUME RegInv, NEW s, Walked(s), NEW t \in Tasks, NEW abs, abs \/ cwd[t] # None,
           NEW names \in Seq(Names \cup Dots), NEW memory
    PROVE  Goes(s, walk(s, t, abs, names, memory)) /\ Walked(walk(s, t, abs, names, memory))
<1> DEFINE base == IF abs THEN Root ELSE cwd[t]
           N == Len(names)
<1>1. base \in Inodes /\ s.nodes[base].ref # 0
  <2>1. base \in Inodes /\ (base = Root \/ Holds(base, cwd, stream, fds, mounts))
    BY RootInodes DEF RegInv, HoldersOK, InodeOrNone, Holds
  <2> HIDE DEF base
  <2> QED BY <2>1, HolderInUse DEF Walked
<1>2. Goes(s, From(s, t, abs))
  <2>1. From(s, t, abs) = IF s.nodes[base].mnt = None THEN Enter(s, base) ELSE [s EXCEPT !.at = base]
    BY Zenon DEF From
  <2> HIDE DEF base
  <2>2. Goes(s, Enter(s, base))
    BY <1>1, EnterWalked
  <2>3. base \in InodeOrNone
    BY <1>1 DEF InodeOrNone
  <2>4. Goes(s, [s EXCEPT !.at = base])
    BY <1>1, <2>3, AtWalked
  <2> QED BY <2>1, <2>2, <2>4
<1>3. N \in Nat /\ \A k \in 1 .. N : names[k] \in Names \cup Dots
  OBVIOUS
<1>4. PICK w : WalkUpTo(From(s, t, abs), names, memory, N, w) /\ walk(s, t, abs, names, memory) = w[N]
  BY <1>3, WalkDef
<1> DEFINE Bad == {k \in 0 .. N : ~Goes(s, w[k])}
<1> HIDE DEF N
<1>5. Bad = {}
  <2> SUFFICES ASSUME Bad # {} PROVE FALSE
    OBVIOUS
  <2>1. PICK n \in Bad : \A m \in Bad : n <= m
    <3>1. Bad \in SUBSET Nat
      BY <1>3
    <3> HIDE DEF Bad
    <3> QED BY <3>1, LeastNumber
  <2>2. n \in 0 .. N /\ ~Goes(s, w[n])
    OBVIOUS
  <2>3. CASE n = 0
    BY <1>2, <1>4, <2>2, <2>3 DEF WalkUpTo
  <2>4. CASE n # 0
    <3>1. n \in 1 .. N /\ n - 1 \in 0 .. N /\ ~(n <= n - 1)
      BY <1>3, <2>2, <2>4
    <3>2. Goes(s, w[n - 1])
      BY <2>1, <3>1
    <3>3. w[n] = Step(w[n - 1], names[n], memory)
      BY <1>4, <3>1 DEF WalkUpTo
    <3>4. Goes(s, Step(w[n - 1], names[n], memory))
      <4>1. names[n] \in Names \cup Dots
        BY <1>3, <3>1
      <4>2. Goes(w[n - 1], Step(w[n - 1], names[n], memory))
        BY <3>2, <4>1, StepWalked DEF Goes
      <4> QED BY <3>2, <4>2, GoesOn
    <3> QED BY <2>2, <3>3, <3>4
  <2> QED BY <2>3, <2>4
<1>6. N \in 0 .. N
  BY <1>3
<1>7. Goes(s, w[N]) /\ Walked(w[N])
  BY <1>5, <1>6 DEF Goes
<1> QED BY <1>4, <1>7

\* What callers name.
LEMMA PathOK ==
    ASSUME RegInv, NEW t \in Tasks, NEW p \in scope.paths[t]
    PROVE  /\ p.names \in Seq(Names \cup Dots)
           /\ p.names # <<>> => LastOf(p) \in Names \cup Dots /\ Above(p) \in Seq(Names \cup Dots)
<1>1. scope \in Scopes
  BY DEF RegInv, HoldersOK
<1>2. p \in [abs : BOOLEAN, names : Seq(Names \cup {".", ".."})]
  BY <1>1, ScopesAssumption
<1>3. p.names \in Seq(Names \cup Dots)
  BY <1>2 DEF Dots
<1> DEFINE q == p.names
           S == Names \cup Dots
<1>4. LastOf(p) = q[Len(q)] /\ Above(p) = SubSeq(q, 1, Len(q) - 1)
  BY DEF LastOf, Above
<1> HIDE DEF q, S
<1>5. q \in Seq(S)
  BY <1>3 DEF q, S
<1>6. ASSUME q # <<>>
      PROVE  q[Len(q)] \in S /\ SubSeq(q, 1, Len(q) - 1) \in Seq(S)
  <2>1. Len(q) \in Nat /\ Len(q) # 0 /\ \A k \in 1 .. Len(q) : q[k] \in S
    BY <1>5, <1>6
  <2>2. Len(q) - 1 \in Int /\ 1 \in Int /\ \A k \in 1 .. Len(q) - 1 : q[k] \in S
    BY <2>1
  <2> QED BY <1>5, <2>1, <2>2, SubSeqProperties
<1> QED BY <1>3, <1>4, <1>6 DEF q, S

\* A path of MOUNT or UNMOUNT.
LEMMA MountPathOK ==
    ASSUME RegInv, NEW p \in scope.mountPaths
    PROVE  /\ p \in Seq(Names \cup Dots)
           /\ p # <<>> => SubSeq(p, 1, Len(p) - 1) \in Seq(Names \cup Dots)
<1>1. scope \in Scopes
  BY DEF RegInv, HoldersOK
<1>2. p \in Seq(Names \cup Dots)
  BY <1>1, ScopesAssumption DEF Dots
<1> DEFINE S == Names \cup Dots
<1> HIDE DEF S
<1>5. p \in Seq(S)
  BY <1>2 DEF S
<1>6. ASSUME p # <<>>
      PROVE  SubSeq(p, 1, Len(p) - 1) \in Seq(S)
  <2>1. Len(p) \in Nat /\ Len(p) # 0 /\ \A k \in 1 .. Len(p) : p[k] \in S
    BY <1>5, <1>6
  <2>2. Len(p) - 1 \in Int /\ 1 \in Int /\ \A k \in 1 .. Len(p) - 1 : p[k] \in S
    BY <2>1
  <2> QED BY <1>5, <2>1, <2>2, SubSeqProperties
<1> QED BY <1>2, <1>6 DEF S

\* registry_resolve walks.
LEMMA ResolveWalked ==
    ASSUME RegInv, NEW s, Walked(s), NEW t \in Tasks, cwd[t] # None, NEW p \in scope.paths[t]
    PROVE  Goes(s, Resolve(s, t, p)) /\ Walked(Resolve(s, t, p))
<1>1. p.names \in Seq(Names \cup Dots)
  BY PathOK
<1> QED BY <1>1, WalkWalked DEF Resolve

\* registry_splitpath walks.
LEMMA SplitWalked ==
    ASSUME RegInv, NEW s, Walked(s), NEW t \in Tasks, cwd[t] # None, NEW p \in Named(t)
    PROVE  /\ Goes(s, Split(s, t, p)) /\ Walked(Split(s, t, p)) /\ LastOf(p) \in Names \cup Dots
           /\ Above(p) \in Seq(Names \cup Dots)
<1>1. p \in scope.paths[t] /\ p.names # <<>>
  BY DEF Named
<1>2. LastOf(p) \in Names \cup Dots /\ Above(p) \in Seq(Names \cup Dots)
  BY <1>1, PathOK
<1>3. CASE ~p.abs /\ Len(p.names) = 1
  <2> DEFINE c == cwd[t]
  <2>1. c \in Inodes /\ c \in InodeOrNone /\ Holds(c, cwd, stream, fds, mounts)
    BY DEF RegInv, HoldersOK, InodeOrNone, Holds
  <2> HIDE DEF c
  <2>2. s.nodes[c].ref # 0
    BY <2>1, HolderInUse DEF Walked
  <2>3. Goes(s, [s EXCEPT !.at = c])
    BY <2>1, <2>2, AtWalked
  <2> QED BY <1>2, <1>3, <2>3 DEF Split, c, Goes
<1>4. CASE ~(~p.abs /\ Len(p.names) = 1)
  <2>1. Goes(s, walk(s, t, p.abs, Above(p), TRUE))
    BY <1>2, WalkWalked
  <2> QED BY <1>2, <1>4, <2>1 DEF Split, Goes
<1> QED BY <1>3, <1>4

\* The working directory of a task that makes a call.
LEMMA CallerIn ==
    ASSUME RegInv, NEW t \in Tasks, Calls(t)
    PROVE  cwd[t] # None /\ due = <<>> /\ t \in alive
  BY DEF RegInv, HoldersOK, Calls

-----------------------------------------------------------------------------
(* What a call leaves.                                                     *)

SameHeld(G, K) == \A i \in Inodes : K[i] = G[i]
SameCursors(D, E) == \A d \in Dirents : E[d] = D[d]

\* Counts are right for holders that are as many.
LEMMA CountedSame ==
    ASSUME NEW s, NEW G, NEW D, Counted(s, G, D), NEW K, NEW E, SameHeld(G, K), SameCursors(D, E)
    PROVE  Counted(s, K, E)
<1>1. NodesCounted(s, K)
  BY DEF Counted, NodesCounted, SameHeld
<1>2. EntsCounted(s, E)
  <2>1. DOMAIN s.ents \subseteq Dirents
    BY DEF Counted, TreeOK, EntsOK
  <2> QED BY <2>1 DEF Counted, EntsCounted, SameCursors
<1> QED BY <1>1, <1>2 DEF Counted

\* And so is the tree sound.
LEMMA SoundSame ==
    ASSUME NEW s, NEW G, NEW D, Sound(s, G, D), NEW K, NEW E, SameHeld(G, K), SameCursors(D, E)
    PROVE  Sound(s, K, E)
  BY CountedSame DEF Sound

\* What is in the mounts stays there.
LEMMA MountsStay ==
    ASSUME RegInv, NEW t, NEW G, NEW D, Sound(t, G, D), Becomes(t), mounts' = mounts
    PROVE  MountsOK'
<1>1. Sound(Here, Held0, Cursors0)
  BY HereSound
<1>2. Here.nodes = inode /\ Now.nodes = inode
  BY DEF Here, Now
<1>3. ASSUME NEW m \in Mounts, mounts[m].root # None
      PROVE  inode'[mounts[m].root].inum # None
  <2>1. mounts[m].root \in Inodes /\ inode[mounts[m].root].ref # 0 /\ inode[mounts[m].root].inum # None
    BY <1>1, <1>2, <1>3, RootOfMount
  <2>2. inode' = t.nodes
    BY DEF Becomes
  <2> QED BY <1>2, <2>1, <2>2 DEF Sound, Keeps
<1> QED BY <1>3 DEF RegInv, MountsOK

\* A call leaves the tree it has computed, with the holders that it has counted.
LEMMA EndsCounted ==
    ASSUME NEW t, NEW G \in [Inodes -> Int], NEW D, Counted(t, G, D), Bare(t), Plain(t), Becomes(t),
           HoldersOK', MountsOK', DiskOK',
           SameHeld(G, HeldBy(cwd', stream', fds', mounts')), SameCursors(D, CursorsOf(fds'))
    PROVE  RegInv'
<1> DEFINE K == HeldBy(cwd', stream', fds', mounts')
           E == CursorsOf(fds')
           u == [t EXCEPT !.at = None]
<1>1. K \in [Inodes -> Int]
  BY HeldNat
<1> HIDE DEF K, E
<1>2. Counted(t, K, E)
  BY CountedSame DEF K, E
<1>3. Counted(u, K, E)
  BY <1>1, <1>2, AtChange DEF InodeOrNone
<1>4. Parts(t) /\ Parts(u)
  BY <1>2, <1>3 DEF Counted, TreeOK
<1>5. u.nodes = t.nodes /\ u.lists = t.lists /\ u.ents = t.ents /\ u.due = t.due /\ u.at = None
  BY <1>4 DEF Parts
<1> HIDE DEF u
<1>6. u = Here'
  BY <1>4, <1>5 DEF Parts, Here, Becomes
<1>7. Bare(u) /\ Plain(u)
  BY <1>5 DEF Bare, Plain, Dry, NoneSelf
<1>8. Counted(Here', K, E) /\ Bare(Here') /\ Plain(Here)'
  <2> DEFINE h == Here'
  <2>1. Counted(h, K, E) /\ Bare(h) /\ Plain(h)
    BY <1>3, <1>6, <1>7
  <2>2. Plain(Here)' = Plain(h)
    BY DEF Plain, Dry, NoneSelf, Native
  <2> QED BY <2>1, <2>2
<1> QED BY <1>8 DEF RegInv, K, E

\* The same of a sound tree.
LEMMA EndsGood ==
    ASSUME RegInv, NEW t, NEW G \in [Inodes -> Int], NEW D, Sound(t, G, D), Becomes(t),
           HoldersOK', MountsOK', DiskOK',
           SameHeld(G, HeldBy(cwd', stream', fds', mounts')), SameCursors(D, CursorsOf(fds'))
    PROVE  RegInv'
  BY EndsCounted DEF Sound

\* A call that changes nothing but the tree and the disk.
LEMMA StaysGood ==
    ASSUME RegInv, NEW t, Sound(t, Held0, Cursors0), Becomes(t), mounts' = mounts, UNCHANGED held, DiskOK'
    PROVE  RegInv'
<1>1. MountsOK'
  BY MountsStay
<1>2. HoldersOK'
  BY DEF RegInv, HoldersOK, held, Becomes
<1>3. HeldBy(cwd', stream', fds', mounts') = Held0 /\ CursorsOf(fds') = Cursors0
  BY DEF Held0, Cursors0, held
<1>4. SameHeld(Held0, Held0) /\ SameCursors(Cursors0, Cursors0)
  BY DEF SameHeld, SameCursors
<1> QED BY <1>1, <1>2, <1>3, <1>4, ZeroInts, EndsGood

\* A call that leaves the disk alone.
LEMMA DiskStays ==
    ASSUME RegInv, disk' = disk
    PROVE  DiskOK'
  BY DEF RegInv, DiskOK

\* One holder lets go of one inode and takes another.
Moved2(H, G, off, on) == \A i \in Inodes : G[i] = H[i] - One(i, off) + One(i, on)

\* A task changes its directory, its stream or one handle.
LEMMA HeldMoved ==
    ASSUME NEW cw, NEW st, NEW fd, NEW mt, Typed(cw, st, fd, mt), NEW t \in Tasks
    PROVE  /\ \A v : Moved2(HeldBy(cw, st, fd, mt), HeldBy([cw EXCEPT ![t] = v], st, fd, mt), cw[t], v)
           /\ \A v : Moved2(HeldBy(cw, st, fd, mt), HeldBy(cw, [st EXCEPT ![t] = v], fd, mt), st[t], v)
           /\ \A f \in Slots : \A h : Moved2(HeldBy(cw, st, fd, mt), HeldBy(cw, st, SetFd(fd, t, f, h), mt),
                                         fd[t][f].inode, h.inode)
<1>1. ASSUME NEW i \in Inodes
      PROVE  /\ Cwds(cw, i) \in Nat /\ Cwds(st, i) \in Nat /\ Opens(fd, i) \in Nat
             /\ Covers(mt, i) \in Nat /\ Roots(mt, i) \in Nat
  BY SetsFinite, CountNat DEF Cwds, Opens, Covers, Roots
<1>2. ASSUME NEW v
      PROVE  Moved2(HeldBy(cw, st, fd, mt), HeldBy([cw EXCEPT ![t] = v], st, fd, mt), cw[t], v)
  <2> DEFINE w == [cw EXCEPT ![t] = v]
  <2> SUFFICES ASSUME NEW i \in Inodes
               PROVE  HeldBy(w, st, fd, mt)[i] = HeldBy(cw, st, fd, mt)[i] - One(i, cw[t]) + One(i, v)
    BY DEF Moved2
  <2>1. Cwds(w, i) = Cwds(cw, i) - One(i, cw[t]) + One(i, v)
    <3>1. cw \in [Tasks -> InodeOrNone]
      BY DEF Typed
    <3> QED BY <3>1, CwdsMoved, Zenon
  <2>2. One(i, cw[t]) \in Nat /\ One(i, v) \in Nat
    BY DEF One
  <2> HIDE DEF w
  <2> QED BY <1>1, <2>1, <2>2, HeldParts
<1>3. ASSUME NEW v
      PROVE  Moved2(HeldBy(cw, st, fd, mt), HeldBy(cw, [st EXCEPT ![t] = v], fd, mt), st[t], v)
  <2> DEFINE w == [st EXCEPT ![t] = v]
  <2> SUFFICES ASSUME NEW i \in Inodes
               PROVE  HeldBy(cw, w, fd, mt)[i] = HeldBy(cw, st, fd, mt)[i] - One(i, st[t]) + One(i, v)
    BY DEF Moved2
  <2>1. Cwds(w, i) = Cwds(st, i) - One(i, st[t]) + One(i, v)
    <3>1. st \in [Tasks -> InodeOrNone]
      BY DEF Typed
    <3> QED BY <3>1, CwdsMoved, Zenon
  <2>2. One(i, st[t]) \in Nat /\ One(i, v) \in Nat
    BY DEF One
  <2> HIDE DEF w
  <2> QED BY <1>1, <2>1, <2>2, HeldParts
<1>4. ASSUME NEW f \in Slots, NEW h
      PROVE  Moved2(HeldBy(cw, st, fd, mt), HeldBy(cw, st, SetFd(fd, t, f, h), mt), fd[t][f].inode, h.inode)
  <2> DEFINE w == SetFd(fd, t, f, h)
  <2> SUFFICES ASSUME NEW i \in Inodes
               PROVE  HeldBy(cw, st, w, mt)[i] = HeldBy(cw, st, fd, mt)[i] - One(i, fd[t][f].inode) + One(i, h.inode)
    BY DEF Moved2
  <2>1. Opens(w, i) = Opens(fd, i) - One(i, fd[t][f].inode) + One(i, h.inode)
    BY OpensMoved DEF Typed
  <2>2. One(i, fd[t][f].inode) \in Nat /\ One(i, h.inode) \in Nat
    BY DEF One
  <2> HIDE DEF w
  <2> QED BY <1>1, <2>1, <2>2, HeldParts
<1> QED BY <1>2, <1>3, <1>4

\* The types of what tasks and mounts hold.
LEMMA HolderTypes ==
    ASSUME RegInv
    PROVE  Typed(cwd, stream, fds, mounts)
  BY DEF RegInv, HoldersOK, Typed

\* The references that a call takes and gives up are those of the holder.
LEMMA Net ==
    ASSUME NEW H \in [Inodes -> Int], NEW G, NEW off, NEW on, Moved2(H, G, off, on)
    PROVE  /\ SameHeld(Plus(Plus(H, on, 1), off, -1), G)
           /\ SameHeld(Plus(Plus(H, off, -1), on, 1), G)
           /\ off \notin Inodes => SameHeld(Plus(H, on, 1), G)
           /\ on \notin Inodes => SameHeld(Plus(H, off, -1), G)
<1>1. /\ Plus(H, on, 1) \in [Inodes -> Int] /\ \A i \in Inodes : Plus(H, on, 1)[i] = H[i] + (IF i = on THEN 1 ELSE 0)
      /\ Plus(H, off, -1) \in [Inodes -> Int] /\ \A i \in Inodes : Plus(H, off, -1)[i] = H[i] + (IF i = off THEN -1 ELSE 0)
  BY PlusInt
<1>2. \A i \in Inodes : Plus(Plus(H, on, 1), off, -1)[i] = Plus(H, on, 1)[i] + (IF i = off THEN -1 ELSE 0)
  BY <1>1, PlusInt
<1>3. \A i \in Inodes : Plus(Plus(H, off, -1), on, 1)[i] = Plus(H, off, -1)[i] + (IF i = on THEN 1 ELSE 0)
  BY <1>1, PlusInt
<1>4. \A i \in Inodes : H[i] \in Int /\ G[i] = H[i] - One(i, off) + One(i, on)
  BY DEF Moved2
<1>5. SameHeld(Plus(Plus(H, on, 1), off, -1), G) /\ SameHeld(Plus(Plus(H, off, -1), on, 1), G)
  BY <1>1, <1>2, <1>3, <1>4 DEF SameHeld, One
<1>6. off \notin Inodes => SameHeld(Plus(H, on, 1), G)
  BY <1>1, <1>4 DEF SameHeld, One
<1>7. on \notin Inodes => SameHeld(Plus(H, off, -1), G)
  BY <1>1, <1>4 DEF SameHeld, One
<1> QED BY <1>5, <1>6, <1>7

\* What fails after its walk.
LEMMA StatStep ==
    ASSUME RegInv, Ordinary, NEW t \in Tasks, Stat(t)
    PROVE  RegInv'
<1>1. cwd[t] # None /\ due = <<>>
  BY CallerIn DEF Stat
<1>2. PICK p \in scope.paths[t], memory \in BOOLEAN : Becomes(walk(Now, t, p.abs, p.names, memory))
  BY DEF Stat
<1>3. Walked(Now)
  BY <1>1, NowWalked
<1>4. p.names \in Seq(Names \cup Dots)
  BY PathOK
<1>5. Walked(walk(Now, t, p.abs, p.names, memory))
  BY <1>1, <1>3, <1>4, WalkWalked
<1>6. DiskOK' /\ mounts' = mounts /\ UNCHANGED held
  BY DiskStays DEF Stat
<1> QED BY <1>2, <1>5, <1>6, StaysGood, SMTT(60) DEF Walked

\* Cursors of a handle that changes.
LEMMA CursorsNat ==
    ASSUME NEW fd
    PROVE  CursorsOf(fd) \in [Dirents -> Nat] /\ CursorsOf(fd) \in [Dirents -> Int]
<1>1. HeldBy(<<>>, <<>>, fd, <<>>) \in [Inodes -> Nat] /\ CursorsOf(fd) \in [Dirents -> Nat]
  BY HeldNat
<1> QED BY <1>1

\* A cursor that moves is one more on an entry and one fewer on another.
LEMMA CursorsNet ==
    ASSUME NEW fd \in [Tasks -> [Slots -> Files]], NEW t \in Tasks, NEW f \in Slots, NEW h
    PROVE  SameCursors(PlusC(PlusC(CursorsOf(fd), h.cursor, 1), fd[t][f].cursor, -1), CursorsOf(SetFd(fd, t, f, h)))
<1> DEFINE C == CursorsOf(fd)
           on == h.cursor
           off == fd[t][f].cursor
           G == CursorsOf(SetFd(fd, t, f, h))
<1>1. \A d \in Dirents : G[d] = C[d] - One(d, off) + One(d, on)
  BY CursorsMoved
<1>2. C \in [Dirents -> Int]
  BY CursorsNat
<1> HIDE DEF C, G, on, off
<1>3. PlusC(C, on, 1) \in [Dirents -> Int] /\ \A d \in Dirents : PlusC(C, on, 1)[d] = C[d] + (IF d = on THEN 1 ELSE 0)
  BY <1>2, PlusCInt
<1>4. \A d \in Dirents : PlusC(PlusC(C, on, 1), off, -1)[d] = PlusC(C, on, 1)[d] + (IF d = off THEN -1 ELSE 0)
  BY <1>3, PlusCInt
<1>5. \A d \in Dirents : C[d] \in Int
  BY <1>2
<1>6. SameCursors(PlusC(PlusC(C, on, 1), off, -1), G)
  BY <1>1, <1>3, <1>4, <1>5 DEF SameCursors, One
<1> QED BY <1>6 DEF C, G, on, off

\* No cursor.
LEMMA NoCursor ==
    ASSUME NEW C \in [Dirents -> Int], NEW n \in Int
    PROVE  PlusC(C, NoEntry, n) = C
<1>1. NoEntry \notin Dirents
  BY RootInodes
<1>2. PlusC(C, NoEntry, n) \in [Dirents -> Int] /\ \A x \in Dirents : PlusC(C, NoEntry, n)[x] = C[x]
  BY <1>1, PlusCInt
<1> QED BY <1>2

\* A cursor stands on an entry that there is.
LEMMA CursorThere ==
    ASSUME NEW s, NEW H, NEW C, Sound(s, H, C), NEW d \in Dirents, C[d] >= 1
    PROVE  d \in DOMAIN s.ents
<1>1. d \notin DOMAIN s.ents => C[d] = 0
  BY DEF Sound, Counted, EntsCounted
<1> QED BY <1>1

\* A handle that is open.
LEMMA HandleOpen ==
    ASSUME RegInv, NEW t \in Tasks, NEW f \in Slots, fds[t][f] # NoFile
    PROVE  /\ fds[t][f].inode \in Inodes
           /\ fds[t][f].cursor = NoEntry \/ (fds[t][f].cursor \in Dirents /\ fds[t][f].cursor[1] = fds[t][f].inode)
           /\ t \in alive
<1> DEFINE h == fds[t][f]
<1>1. h \in Files /\ (h.cursor # NoEntry => h.cursor[1] = h.inode) /\ t \in alive
  BY DEF RegInv, HoldersOK
<1> HIDE DEF h
<1>2. h.inode \in InodeOrNone /\ h.cursor \in Dirents \cup {NoEntry} /\ h = [inode |-> h.inode, cursor |-> h.cursor]
  BY <1>1 DEF Files
<1>3. h # NoFile
  BY DEF h
<1>4. CASE h.cursor = NoEntry
  <2>1. h.inode # None
    BY <1>2, <1>3, <1>4 DEF NoFile
  <2> QED BY <1>1, <1>2, <1>4, <2>1 DEF InodeOrNone, h
<1>5. CASE h.cursor # NoEntry
  <2>1. h.cursor \in Dirents
    BY <1>2, <1>5
  <2>2. h.cursor[1] \in Inodes
    BY <2>1 DEF Dirents
  <2> QED BY <1>1, <1>5, <2>1, <2>2 DEF h
<1> QED BY <1>4, <1>5

\* handle_close
LEMMA ClosedSound ==
    ASSUME NEW s, NEW H \in [Inodes -> Int], NEW C \in [Dirents -> Int], Sound(s, H, C), NEW h,
           h.inode \in Inodes, h.cursor # NoEntry => h.cursor \in Dirents /\ C[h.cursor] >= 1
    PROVE  Sound(Closed(s, h), Plus(H, h.inode, -1), PlusC(C, h.cursor, -1))
<1> DEFINE u == IF h.cursor = NoEntry THEN s ELSE dirent_unref(s, h.cursor)
           D == PlusC(C, h.cursor, -1)
<1>1. Sound(u, H, D)
  <2>1. CASE h.cursor = NoEntry
    <3>1. u = s /\ D = C
      BY <2>1, NoCursor
    <3> QED BY <3>1
  <2>2. CASE h.cursor # NoEntry
    <3>1. h.cursor \in DOMAIN s.ents
      BY <2>2, CursorThere
    <3>2. Sound(dirent_unref(s, h.cursor), H, D)
      BY <2>2, <3>1, DirentUnrefSound
    <3> QED BY <2>2, <3>2
  <2> QED BY <2>1, <2>2
<1>2. Closed(s, h) = inode_unref(u, h.inode)
  BY DEF Closed
<1> HIDE DEF u, D
<1>3. Sound(inode_unref(u, h.inode), Plus(H, h.inode, -1), D)
  BY <1>1, UnrefSound
<1> QED BY <1>2, <1>3 DEF D

\* What the holders are when one handle changes.
LEMMA HandleChanges ==
    ASSUME RegInv, NEW t \in alive, NEW f \in Slots, NEW h \in Files,
           h.cursor # NoEntry => h.cursor[1] = h.inode,
           fds' = SetFd(fds, t, f, h), UNCHANGED <<mounts, cwd, stream, alive>>, scope' = scope
    PROVE  HoldersOK'
<1>1. t \in Tasks /\ fds \in [Tasks -> [Slots -> Files]]
  BY DEF RegInv, HoldersOK
<1>2. fds' = [fds EXCEPT ![t] = [fds[t] EXCEPT ![f] = h]]
  BY <1>1 DEF SetFd
<1>3. fds' \in [Tasks -> [Slots -> Files]]
  BY <1>1, <1>2
<1>4. \A u \in Tasks, g \in Slots : fds'[u][g] = IF u = t /\ g = f THEN h ELSE fds[u][g]
  BY <1>1, <1>2
<1>5. \A u \in Tasks, g \in Slots : fds'[u][g].cursor # NoEntry => fds'[u][g].cursor[1] = fds'[u][g].inode
  BY <1>4 DEF RegInv, HoldersOK
<1>6. \A u \in Tasks \ alive : \A g \in Slots : fds'[u][g] = NoFile
  BY <1>4 DEF RegInv, HoldersOK
<1> HIDE <1>2
<1> QED BY <1>3, <1>5, <1>6 DEF RegInv, HoldersOK

\* A call of a task that changes one handle.
LEMMA HandleGood ==
    ASSUME RegInv, NEW t \in alive, NEW f \in Slots, NEW h \in Files,
           h.cursor # NoEntry => h.cursor[1] = h.inode,
           fds' = SetFd(fds, t, f, h), UNCHANGED <<mounts, disk, cwd, stream, alive>>,
           NEW s, NEW G \in [Inodes -> Int], NEW D, Sound(s, G, D), Becomes(s),
           SameHeld(G, HeldBy(cwd, stream, SetFd(fds, t, f, h), mounts)),
           SameCursors(D, CursorsOf(SetFd(fds, t, f, h)))
    PROVE  RegInv'
<1>1. HoldersOK'
  BY HandleChanges DEF Becomes
<1>2. MountsOK' /\ DiskOK'
  BY MountsStay, DiskStays
<1> QED BY <1>1, <1>2, EndsGood

\* CLOSE keeps the invariant.
LEMMA CloseStep ==
    ASSUME RegInv, NEW t \in Tasks, Close(t)
    PROVE  RegInv'
<1>1. due = <<>> /\ t \in alive
  BY DEF Close, Calls
<1>2. PICK f \in Slots \ FreeSlots(t) : Becomes(Closed(Now, fds[t][f])) /\ fds' = [fds EXCEPT ![t][f] = NoFile]
  BY DEF Close
<1> DEFINE h == fds[t][f]
           G == Plus(Held0, h.inode, -1)
           D == PlusC(Cursors0, h.cursor, -1)
<1>3. h # NoFile /\ f \in Slots
  BY DEF FreeSlots
<1>4. h.inode \in Inodes /\ (h.cursor = NoEntry \/ h.cursor \in Dirents)
  BY <1>3, HandleOpen
<1>5. h.cursor # NoEntry => h.cursor \in Dirents /\ Cursors0[h.cursor] >= 1
  BY <1>3, <1>4, CursorSome DEF Cursors0
<1>6. Sound(Now, Held0, Cursors0)
  BY <1>1, NowSound
<1>7. Sound(Closed(Now, h), G, D)
  <2> HIDE DEF h
  <2> QED BY <1>4, <1>5, <1>6, ClosedSound, ZeroInts
<1>8. NoFile \in Files /\ NoFile.cursor = NoEntry /\ NoFile.inode = None
  BY DEF NoFile, Files, InodeOrNone
<1>9. fds' = SetFd(fds, t, f, NoFile)
  BY <1>2 DEF SetFd
<1>10. SameHeld(G, HeldBy(cwd, stream, SetFd(fds, t, f, NoFile), mounts))
  <2>1. Moved2(Held0, HeldBy(cwd, stream, SetFd(fds, t, f, NoFile), mounts), h.inode, None)
    <3>1. Moved2(Held0, HeldBy(cwd, stream, SetFd(fds, t, f, NoFile), mounts), h.inode, NoFile.inode)
      BY <1>3, HolderTypes, HeldMoved DEF Held0
    <3> QED BY <1>8, <3>1
  <2> QED BY <2>1, Net, ZeroInts, RootInodes
<1>11. SameCursors(D, CursorsOf(SetFd(fds, t, f, NoFile)))
  <2>1. fds \in [Tasks -> [Slots -> Files]]
    BY DEF RegInv, HoldersOK
  <2>2. SameCursors(PlusC(PlusC(Cursors0, NoFile.cursor, 1), h.cursor, -1), CursorsOf(SetFd(fds, t, f, NoFile)))
    BY <1>3, <2>1, CursorsNet DEF Cursors0
  <2>3. PlusC(Cursors0, NoFile.cursor, 1) = Cursors0
    BY <1>8, NoCursor, ZeroInts
  <2> QED BY <2>2, <2>3
<1>12. G \in [Inodes -> Int]
  BY PlusInt, ZeroInts
<1>13. UNCHANGED <<mounts, disk, cwd, stream, alive>>
  BY DEF Close
<1> HIDE DEF G, D, h
<1> QED BY <1>1, <1>2, <1>3, <1>7, <1>8, <1>9, <1>10, <1>11, <1>12, <1>13, HandleGood DEF h

\* What is on the list of a directory.
LEMMA ListedOK ==
    ASSUME NEW s, TreeOK(s), NEW i \in Inodes, NEW d \in Members(s.lists[i])
    PROVE  d \in DOMAIN s.ents /\ d[1] = i /\ d \in Dirents /\ d # NoEntry /\ Listed(s, d)
<1>1. s.lists[i] \in Seq(DOMAIN s.ents) /\ d[1] = i
  BY DEF TreeOK, ListsOK
<1>2. d \in DOMAIN s.ents
  BY <1>1 DEF Members
<1>3. d \in Dirents
  BY <1>2 DEF TreeOK, EntsOK
<1> QED BY <1>1, <1>2, <1>3, RootInodes DEF Listed

\* handle_open_inode: the new handle.
LEMMA OpenStep ==
    ASSUME RegInv, Ordinary, NEW t \in Tasks, Open(t)
    PROVE  RegInv'
<1> DEFINE S(p) == Resolve(Now, t, p)
           Cur(s, i) == IF IsDir(s, i) /\ s.lists[i] # <<>> THEN s.lists[i][1] ELSE NoEntry
           After(s, i, cur) == IF cur = NoEntry THEN inode_ref(s, i)
                               ELSE [inode_ref(s, i) EXCEPT !.ents[cur].ref = @ + 1]
           f == Least(FreeSlots(t))
<1>1. PICK p \in scope.paths[t] :
          /\ Calls(t) /\ Found(S(p)) /\ FreeSlots(t) # {}
          /\ fds' = [fds EXCEPT ![t][f] = [inode |-> S(p).at, cursor |-> Cur(S(p), S(p).at)]]
          /\ Becomes(After(S(p), S(p).at, Cur(S(p), S(p).at)))
          /\ UNCHANGED <<mounts, disk, cwd, stream, alive>>
  BY ZenonT(60) DEF Open
<1> DEFINE s == S(p)
           i == s.at
           cur == Cur(s, i)
           u == After(s, i, cur)
           h == [inode |-> i, cursor |-> cur]
<1>2. cwd[t] # None /\ due = <<>> /\ t \in alive
  BY <1>1, CallerIn, Zenon
<1>3. Walked(s)
  BY <1>2, NowWalked, ResolveWalked
<1> HIDE DEF s
<1>4. TreeOK(s) /\ Sound(s, Held0, Cursors0)
  BY <1>3, SMTT(60) DEF Walked, Sound, Counted
<1>5. i \in Inodes /\ s.nodes[i].ref # 0
  BY <1>1, <1>3, <1>4, Zenon DEF Found, Walked, TreeOK, InodeOrNone, s
<1> HIDE DEF i
<1>6. cur = NoEntry \/ (cur \in DOMAIN s.ents /\ cur \in Dirents /\ cur[1] = i /\ cur # NoEntry)
  <2>1. ASSUME s.lists[i] # <<>>
        PROVE  s.lists[i][1] \in Members(s.lists[i])
    <3>1. s.lists[i] \in Seq(DOMAIN s.ents)
      BY <1>4, <1>5 DEF TreeOK, ListsOK
    <3>2. 1 \in DOMAIN s.lists[i]
      BY <2>1, <3>1
    <3> QED BY <3>2 DEF Members
  <2>2. cur = NoEntry \/ cur \in Members(s.lists[i])
    BY <2>1
  <2> HIDE DEF cur
  <2> QED BY <1>4, <1>5, <2>2, ListedOK
<1> HIDE DEF cur, Cur
<1>7. Sound(u, Plus(Held0, i, 1), PlusC(Cursors0, cur, 1))
  <2> DEFINE v == inode_ref(s, i)
             G == Plus(Held0, i, 1)
  <2>1. Sound(v, G, Cursors0) /\ v.ents = s.ents
    BY <1>4, <1>5, RefSound, ZeroInts
  <2>2. G \in [Inodes -> Int]
    BY PlusInt, ZeroInts
  <2> HIDE DEF v, G
  <2>3. CASE cur = NoEntry
    <3>1. PlusC(Cursors0, cur, 1) = Cursors0
      BY <2>3, NoCursor, ZeroInts
    <3> QED BY <2>1, <2>3, <3>1 DEF v, G
  <2>4. CASE cur # NoEntry
    <3>1. cur \in DOMAIN v.ents
      BY <1>6, <2>1, <2>4
    <3>2. Sound([v EXCEPT !.ents[cur].ref = @ + 1], G, PlusC(Cursors0, cur, 1))
      BY <2>1, <2>2, <3>1, DirentRefSound, ZeroInts
    <3> QED BY <2>4, <3>2 DEF v, G
  <2> QED BY <2>3, <2>4
<1>8. f \in Slots /\ fds[t][f] = NoFile
  <2> DEFINE F == FreeSlots(t)
  <2>1. F \in SUBSET Nat
    BY SizesAssumption DEF FreeSlots, Slots
  <2>2. Least(F) \in F
    <3> HIDE DEF F
    <3> QED BY <1>1, <2>1, LeastIs DEF F
  <2> QED BY <2>2 DEF FreeSlots
<1>9. fds' = SetFd(fds, t, f, h) /\ Becomes(u)
  BY <1>1 DEF SetFd, s, i, cur
<1> HIDE DEF u, f
<1>10. h \in Files /\ h.inode = i /\ h.cursor = cur /\ (h.cursor # NoEntry => h.cursor[1] = h.inode)
  BY <1>5, <1>6 DEF Files, InodeOrNone
<1> HIDE DEF h
<1>11. NoFile.inode = None /\ NoFile.cursor = NoEntry
  BY DEF NoFile
<1>12. SameHeld(Plus(Held0, i, 1), HeldBy(cwd, stream, SetFd(fds, t, f, h), mounts))
  <2>1. Moved2(Held0, HeldBy(cwd, stream, SetFd(fds, t, f, h), mounts), fds[t][f].inode, h.inode)
    BY <1>8, HolderTypes, HeldMoved DEF Held0
  <2>2. Moved2(Held0, HeldBy(cwd, stream, SetFd(fds, t, f, h), mounts), None, i)
    BY <1>8, <1>10, <1>11, <2>1
  <2> QED BY <2>2, Net, ZeroInts, RootInodes
<1>13. SameCursors(PlusC(Cursors0, cur, 1), CursorsOf(SetFd(fds, t, f, h)))
  <2>1. fds \in [Tasks -> [Slots -> Files]]
    BY DEF RegInv, HoldersOK
  <2>2. SameCursors(PlusC(PlusC(Cursors0, h.cursor, 1), fds[t][f].cursor, -1), CursorsOf(SetFd(fds, t, f, h)))
    BY <1>8, <2>1, CursorsNet DEF Cursors0
  <2>3. PlusC(Cursors0, cur, 1) \in [Dirents -> Int]
    BY PlusCInt, ZeroInts
  <2>4. PlusC(PlusC(Cursors0, cur, 1), NoEntry, -1) = PlusC(Cursors0, cur, 1)
    BY <2>3, NoCursor
  <2> QED BY <1>8, <1>10, <1>11, <2>2, <2>4
<1>14. Plus(Held0, i, 1) \in [Inodes -> Int]
  BY PlusInt, ZeroInts
<1> QED BY <1>1, <1>2, <1>7, <1>8, <1>9, <1>10, <1>12, <1>13, <1>14, HandleGood

\* The entry after the one a cursor stands on.
LEMMA NextIs ==
    ASSUME NEW i \in Inodes, NEW d, TreeOK(Now)
    PROVE  NextOf(i, d) = NoEntry \/ NextOf(i, d) \in Members(kids[i])
<1> DEFINE at == {k \in DOMAIN kids[i] : kids[i][k] = d}
<1>1. kids[i] \in Seq(DOMAIN dirent)
  BY DEF TreeOK, ListsOK, Now
<1>2. NextOf(i, d) = IF at = {} \/ Least(at) = Len(kids[i]) THEN NoEntry ELSE kids[i][Least(at) + 1]
  BY DEF NextOf
<1>3. at \in SUBSET Nat /\ \A k \in at : k \in DOMAIN kids[i]
  BY <1>1
<1> HIDE DEF at
<1>4. CASE at # {} /\ Least(at) # Len(kids[i])
  <2>1. Least(at) \in DOMAIN kids[i]
    BY <1>3, <1>4, LeastIs
  <2>2. Least(at) + 1 \in DOMAIN kids[i]
    BY <1>1, <1>4, <2>1
  <2> QED BY <1>2, <1>4, <2>2 DEF Members
<1> QED BY <1>2, <1>4

\* handle_readdir: the cursor takes the next entry before it lets go of its own.
LEMMA ReaddirStep ==
    ASSUME RegInv, NEW t \in Tasks, Readdir(t)
    PROVE  RegInv'
<1> DEFINE Next0(f) == NextOf(fds[t][f].inode, fds[t][f].cursor)
           Before(next) == IF next = NoEntry THEN Now ELSE [Now EXCEPT !.ents[next].ref = @ + 1]
<1>1. PICK f \in Slots :
          /\ Calls(t) /\ fds[t][f].cursor # NoEntry
          /\ Becomes(dirent_unref(Before(Next0(f)), fds[t][f].cursor))
          /\ fds' = [fds EXCEPT ![t][f].cursor = Next0(f)]
          /\ UNCHANGED <<mounts, disk, cwd, stream, alive>>
  BY Zenon DEF Readdir
<1> DEFINE h == fds[t][f]
           next == Next0(f)
           s == Before(next)
           g == [h EXCEPT !.cursor = next]
           D == PlusC(Cursors0, next, 1)
<1>2. due = <<>> /\ t \in alive
  BY <1>1 DEF Calls
<1>3. Sound(Now, Held0, Cursors0) /\ Now.lists = kids /\ TreeOK(Now)
  BY <1>2, NowSound DEF Sound, Counted, Now
<1>4. h # NoFile
  BY <1>1, SMTT(60) DEF NoFile
<1>5. h.inode \in Inodes /\ h.cursor \in Dirents /\ h.cursor[1] = h.inode
  BY <1>1, <1>4, HandleOpen
<1>6. h \in Files
  BY DEF RegInv, HoldersOK
<1>7. Cursors0[h.cursor] >= 1
  BY <1>5, CursorSome, SMTT(60) DEF Cursors0
<1>8. fds' = [fds EXCEPT ![t][f].cursor = next] /\ Becomes(dirent_unref(s, h.cursor))
  BY <1>1
<1>9. fds' = SetFd(fds, t, f, g)
  BY <1>8 DEF SetFd
<1>10. next = NoEntry \/ next \in Members(kids[h.inode])
  BY <1>3, <1>5, NextIs
<1> HIDE DEF next, h, Next0
<1>11. next = NoEntry \/ (next \in DOMAIN Now.ents /\ next \in Dirents /\ next[1] = h.inode /\ next # NoEntry)
  BY <1>3, <1>5, <1>10, ListedOK
<1>12. g \in Files /\ g.inode = h.inode /\ g.cursor = next
  BY <1>6, <1>11 DEF Files
<1>13. D \in [Dirents -> Int] /\ \A x \in Dirents : D[x] = Cursors0[x] + (IF x = next THEN 1 ELSE 0)
  BY PlusCInt, ZeroInts
<1>14. Sound(s, Held0, D)
  <2>1. CASE next = NoEntry
    <3>1. D = Cursors0
      BY <2>1, NoCursor, ZeroInts
    <3> QED BY <1>3, <2>1, <3>1
  <2>2. CASE next # NoEntry
    <3>1. Sound([Now EXCEPT !.ents[next].ref = @ + 1], Held0, D)
      BY <1>3, <1>11, <2>2, DirentRefSound, ZeroInts
    <3> QED BY <2>2, <3>1
  <2> QED BY <2>1, <2>2
<1>15. D[h.cursor] >= 1
  <2>1. Cursors0[h.cursor] \in Nat
    BY <1>5, ZeroInts
  <2> QED BY <1>5, <1>7, <1>13, <2>1
<1> HIDE DEF s, D, g
<1>16. h.cursor \in DOMAIN s.ents
  BY <1>5, <1>14, <1>15, CursorThere
<1>17. Sound(dirent_unref(s, h.cursor), Held0, PlusC(D, h.cursor, -1))
  BY <1>13, <1>14, <1>15, <1>16, DirentUnrefSound, ZeroInts
<1>18. SameHeld(Held0, HeldBy(cwd, stream, SetFd(fds, t, f, g), mounts))
  <2>1. Moved2(Held0, HeldBy(cwd, stream, SetFd(fds, t, f, g), mounts), h.inode, g.inode)
    BY HolderTypes, HeldMoved DEF Held0, h
  <2>2. \A i \in Inodes : Held0[i] \in Int
    BY ZeroInts
  <2> QED BY <1>12, <2>1, <2>2 DEF Moved2, SameHeld, One
<1>19. SameCursors(PlusC(D, h.cursor, -1), CursorsOf(SetFd(fds, t, f, g)))
  <2>1. fds \in [Tasks -> [Slots -> Files]]
    BY DEF RegInv, HoldersOK
  <2> QED BY <1>12, <2>1, CursorsNet DEF Cursors0, D, h
<1> QED BY <1>1, <1>2, <1>5, <1>8, <1>9, <1>11, <1>12, <1>17, <1>18, <1>19, ZeroInts, HandleGood

\* task_set_cwd: the new directory is held before the old one goes.
LEMMA ChdirStep ==
    ASSUME RegInv, Ordinary, NEW t \in Tasks, Chdir(t)
    PROVE  RegInv'
<1>1. PICK p \in scope.paths[t] :
          /\ Calls(t) /\ FoundDir(Resolve(Now, t, p))
          /\ Becomes(inode_unref(inode_ref(Resolve(Now, t, p), Resolve(Now, t, p).at), cwd[t]))
          /\ cwd' = [cwd EXCEPT ![t] = Resolve(Now, t, p).at]
          /\ UNCHANGED <<mounts, disk, fds, stream, alive>>
  BY Zenon DEF Chdir
<1> DEFINE s == Resolve(Now, t, p)
           i == s.at
           c == cwd[t]
           u == inode_unref(inode_ref(s, i), c)
           G == Plus(Held0, i, 1)
<1>2. c # None /\ due = <<>> /\ t \in alive
  BY <1>1, CallerIn
<1>3. Walked(s)
  BY <1>2, NowWalked, ResolveWalked
<1>4. c \in Inodes /\ Becomes(u) /\ cwd' = [cwd EXCEPT ![t] = i] /\ Found(s)
  BY <1>1, <1>2 DEF RegInv, HoldersOK, InodeOrNone, FoundDir
<1> HIDE DEF s
<1>5. i \in Inodes /\ s.nodes[i].ref # 0
  BY <1>3, <1>4 DEF Found, Walked, Sound, Counted, TreeOK, InodeOrNone
<1> HIDE DEF i, c
<1>6. Sound(inode_ref(s, i), G, Cursors0) /\ G \in [Inodes -> Int]
  <2>1. Sound(s, Held0, Cursors0)
    BY <1>3 DEF Walked
  <2>2. G \in [Inodes -> Int]
    BY PlusInt, ZeroInts
  <2> QED BY <1>5, <2>1, <2>2, RefSound, ZeroInts
<1> HIDE DEF G
<1>7. Sound(u, Plus(G, c, -1), Cursors0) /\ Plus(G, c, -1) \in [Inodes -> Int]
  BY <1>4, <1>6, UnrefSound, PlusInt
<1> HIDE DEF u
<1>8. SameHeld(Plus(G, c, -1), HeldBy(cwd', stream', fds', mounts'))
  <2>1. Moved2(Held0, HeldBy([cwd EXCEPT ![t] = i], stream, fds, mounts), c, i)
    BY HolderTypes, HeldMoved DEF Held0, c
  <2>2. SameHeld(Plus(Plus(Held0, i, 1), c, -1), HeldBy([cwd EXCEPT ![t] = i], stream, fds, mounts))
    BY <2>1, Net, ZeroInts
  <2> QED BY <1>1, <1>4, <2>2 DEF G
<1>9. SameCursors(Cursors0, CursorsOf(fds'))
  BY <1>1 DEF SameCursors, Cursors0
<1>10. MountsOK' /\ DiskOK'
  BY <1>1, <1>4, <1>7, MountsStay, DiskStays
<1>11. HoldersOK'
  <2>1. i \in InodeOrNone /\ i # None
    BY <1>5, RootInodes DEF InodeOrNone
  <2>2. cwd' \in [Tasks -> InodeOrNone] /\ \A v \in Tasks : cwd'[v] = IF v = t THEN i ELSE cwd[v]
    BY <1>4, <2>1 DEF RegInv, HoldersOK
  <2> QED BY <1>1, <1>2, <1>4, <2>1, <2>2 DEF RegInv, HoldersOK, Becomes
<1> QED BY <1>4, <1>7, <1>8, <1>9, <1>10, <1>11, EndsGood

\* task_new: the child holds the caller's working directory and one of its inodes.
LEMMA ProcreateStep ==
    ASSUME RegInv, Ordinary, NEW t \in Tasks, Procreate(t)
    PROVE  RegInv'
<1>1. PICK p \in scope.paths[t], u \in Tasks \ alive, f \in Slots \ FreeSlots(t) :
          /\ Calls(t)
          /\ Becomes(inode_ref(inode_ref(Resolve(Now, t, p), cwd[t]), fds[t][f].inode))
          /\ cwd' = [cwd EXCEPT ![u] = cwd[t]]
          /\ stream' = [stream EXCEPT ![u] = fds[t][f].inode]
          /\ alive' = alive \cup {u}
          /\ UNCHANGED <<mounts, disk, fds>>
  BY Zenon DEF Procreate
<1> DEFINE s == Resolve(Now, t, p)
           c == cwd[t]
           j == fds[t][f].inode
           x == inode_ref(s, c)
           G == Plus(Held0, c, 1)
           G2 == Plus(G, j, 1)
           cw == [cwd EXCEPT ![u] = c]
           st == [stream EXCEPT ![u] = j]
<1>2. c # None /\ due = <<>> /\ t \in alive
  BY <1>1, CallerIn
<1>3. Walked(s)
  BY <1>2, NowWalked, ResolveWalked
<1>4. c \in Inodes /\ Becomes(inode_ref(x, j)) /\ cwd' = cw /\ stream' = st /\ f \in Slots
  BY <1>1, <1>2 DEF RegInv, HoldersOK, InodeOrNone
<1>5. fds[t][f] # NoFile
  BY <1>4 DEF FreeSlots
<1>6. j \in Inodes
  BY <1>4, <1>5, HandleOpen
<1>7. cwd[u] = None /\ stream[u] = None
  BY DEF RegInv, HoldersOK
<1>8. Holds(c, cwd, stream, fds, mounts) /\ Holds(j, cwd, stream, fds, mounts)
  BY <1>4 DEF Holds
<1> HIDE DEF s, c, j
<1>9. s.nodes[c].ref # 0
  BY <1>3, <1>4, <1>8, HolderInUse DEF Walked
<1>10. Sound(x, G, Cursors0) /\ G \in [Inodes -> Int]
  <2>1. Sound(s, Held0, Cursors0)
    BY <1>3 DEF Walked
  <2>2. G \in [Inodes -> Int]
    BY PlusInt, ZeroInts
  <2> QED BY <1>4, <1>9, <2>1, <2>2, RefSound, ZeroInts
<1>11. x.nodes[j].ref # 0
  <2>1. Now.nodes[j].ref # 0
    <3>1. Sound(Now, Held0, Cursors0)
      BY <1>2, NowWalked DEF Walked
    <3> QED BY <1>6, <1>8, <3>1, HolderInUse
  <2> QED BY <1>6, <1>10, <2>1 DEF Sound, Keeps
<1> HIDE DEF x
<1>12. Sound(inode_ref(x, j), G2, Cursors0) /\ G2 \in [Inodes -> Int]
  <2> HIDE DEF G
  <2> QED BY <1>6, <1>10, <1>11, RefSound, PlusInt
<1>13. /\ \A i \in Inodes : G[i] = Held0[i] + (IF i = c THEN 1 ELSE 0)
       /\ \A i \in Inodes : G2[i] = G[i] + (IF i = j THEN 1 ELSE 0)
  <2>1. \A i \in Inodes : G[i] = Held0[i] + (IF i = c THEN 1 ELSE 0)
    BY PlusInt, ZeroInts
  <2> HIDE DEF G
  <2> QED BY <1>10, <2>1, PlusInt
<1> HIDE DEF G2, G
<1>14. SameHeld(G2, HeldBy(cw, st, fds, mounts))
  <2>1. Moved2(Held0, HeldBy(cw, stream, fds, mounts), None, c)
    BY <1>7, HolderTypes, HeldMoved DEF Held0
  <2>2. Typed(cw, stream, fds, mounts)
    BY <1>4, HolderTypes DEF Typed, InodeOrNone
  <2>3. Moved2(HeldBy(cw, stream, fds, mounts), HeldBy(cw, st, fds, mounts), None, j)
    <3> HIDE DEF cw
    <3> QED BY <1>7, <2>2, HeldMoved
  <2> HIDE DEF cw, st
  <2>4. \A i \in Inodes : Held0[i] \in Int
    BY ZeroInts
  <2> QED BY <1>13, <2>1, <2>3, <2>4, RootInodes DEF Moved2, SameHeld, One
<1>15. SameCursors(Cursors0, CursorsOf(fds'))
  BY <1>1 DEF SameCursors, Cursors0
<1>16. MountsOK' /\ DiskOK'
  BY <1>1, <1>4, <1>12, MountsStay, DiskStays
<1>17. HoldersOK'
  <2>1. c \in InodeOrNone /\ c # None /\ j \in InodeOrNone /\ j # None
    BY <1>4, <1>6, RootInodes DEF InodeOrNone
  <2>2. cwd' \in [Tasks -> InodeOrNone] /\ \A v \in Tasks : cwd'[v] = IF v = u THEN c ELSE cwd[v]
    BY <1>4, <2>1 DEF RegInv, HoldersOK
  <2>3. stream' \in [Tasks -> InodeOrNone] /\ \A v \in Tasks : stream'[v] = IF v = u THEN j ELSE stream[v]
    BY <1>4, <2>1 DEF RegInv, HoldersOK
  <2>4. alive' = alive \cup {u} /\ alive' \subseteq Tasks
    BY <1>1 DEF RegInv, HoldersOK
  <2> QED BY <1>1, <1>4, <2>1, <2>2, <2>3, <2>4 DEF RegInv, HoldersOK, Becomes
<1>18. Becomes(inode_ref(x, j)) /\ SameHeld(G2, HeldBy(cwd', stream', fds', mounts'))
  BY <1>1, <1>4, <1>14
<1> HIDE DEF cw, st
<1> QED BY <1>12, <1>15, <1>16, <1>17, <1>18, EndsGood

\* task_teardown: closing the handles follows its definition.
ClosedUpTo(fd, n, w) ==
    /\ w[0] = Now
    /\ \A k \in 1 .. n : w[k] = IF fd[k] = NoFile THEN w[k - 1] ELSE Closed(w[k - 1], fd[k])
ClosedAll(fd) ==
    LET closed[f \in 0 .. NSlots] ==
            IF f = 0 THEN Now
            ELSE IF fd[f] = NoFile THEN closed[f - 1] ELSE Closed(closed[f - 1], fd[f])
    IN  closed[NSlots]

\* The handles of a task that ends are closed one after the other.
LEMMA ClosedDef ==
    ASSUME NEW fd
    PROVE  \E w : ClosedUpTo(fd, NSlots, w) /\ ClosedAll(fd) = w[NSlots]
<1> DEFINE N == NSlots
           Eq(g, n) == g = [f \in 0 .. n |-> IF f = 0 THEN Now
                                             ELSE IF fd[f] = NoFile THEN g[f - 1] ELSE Closed(g[f - 1], fd[f])]
           Bad == {n \in 0 .. N : ~\E g : Eq(g, n)}
<1>1. N \in Nat
  BY SizesAssumption
<1>2. Bad = {}
  <2> SUFFICES ASSUME Bad # {} PROVE FALSE
    OBVIOUS
  <2>1. PICK n \in Bad : \A m \in Bad : n <= m
    <3>1. Bad \in SUBSET Nat
      BY <1>1
    <3> HIDE DEF Bad
    <3> QED BY <3>1, LeastNumber
  <2>2. CASE n = 0
    <3> DEFINE g == [f \in 0 .. 0 |-> Now]
    <3>1. Eq(g, 0)
      OBVIOUS
    <3> QED BY <2>2, <3>1
  <2>3. CASE n # 0
    <3>1. n \in 1 .. N /\ n - 1 \in 0 .. N /\ n - 1 \notin Bad
      <4> HIDE DEF Eq
      <4>1. n \in 0 .. N
        OBVIOUS
      <4>2. n \in 1 .. N /\ n - 1 \in 0 .. N
        BY <1>1, <2>3, <4>1
      <4> HIDE DEF Bad
      <4> QED BY <1>1, <2>1, <4>2
    <3>2. PICK g : Eq(g, n - 1)
      <4> HIDE DEF Eq
      <4> QED BY <3>1
    <3>3. \A k \in 0 .. n - 1 : g[k] = IF k = 0 THEN Now ELSE IF fd[k] = NoFile THEN g[k - 1] ELSE Closed(g[k - 1], fd[k])
      BY <3>2
    <3> DEFINE h == [k \in 0 .. n |-> IF k = n THEN IF fd[n] = NoFile THEN g[n - 1] ELSE Closed(g[n - 1], fd[n]) ELSE g[k]]
    <3>4. \A k \in 0 .. n : h[k] = IF k = 0 THEN Now ELSE IF fd[k] = NoFile THEN h[k - 1] ELSE Closed(h[k - 1], fd[k])
      <4> HIDE DEF Eq, Bad
      <4> SUFFICES ASSUME NEW k \in 0 .. n
                   PROVE  h[k] = IF k = 0 THEN Now ELSE IF fd[k] = NoFile THEN h[k - 1] ELSE Closed(h[k - 1], fd[k])
        OBVIOUS
      <4>1. CASE k = n
        BY <1>1, <3>1, <4>1
      <4>2. CASE k # n
        <5>1. k \in 0 .. n - 1 /\ h[k] = g[k] /\ (k # 0 => h[k - 1] = g[k - 1])
          BY <1>1, <3>1, <4>2
        <5> HIDE DEF h
        <5> QED BY <3>3, <5>1
      <4> QED BY <4>1, <4>2
    <3>5. Eq(h, n)
      BY <3>4
    <3> QED BY <3>5
  <2> QED BY <2>2, <2>3
<1> DEFINE w[f \in 0 .. NSlots] ==
               IF f = 0 THEN Now
               ELSE IF fd[f] = NoFile THEN w[f - 1] ELSE Closed(w[f - 1], fd[f])
<1>3. w = [f \in 0 .. NSlots |-> IF f = 0 THEN Now
                                 ELSE IF fd[f] = NoFile THEN w[f - 1] ELSE Closed(w[f - 1], fd[f])]
  <2>1. N \in 0 .. N
    BY <1>1
  <2>2. \E g : Eq(g, N)
    <3> HIDE DEF Eq
    <3> QED BY <1>2, <2>1
  <2> QED BY <2>2
<1>4. ClosedAll(fd) = w[NSlots]
  BY Zenon DEF ClosedAll
<1> HIDE DEF w
<1>5. ClosedUpTo(fd, NSlots, w)
  <2>1. \A f \in 0 .. N : w[f] = IF f = 0 THEN Now ELSE IF fd[f] = NoFile THEN w[f - 1] ELSE Closed(w[f - 1], fd[f])
    BY <1>3
  <2>2. 0 \in 0 .. N /\ \A k \in 1 .. N : k \in 0 .. N /\ k # 0
    BY <1>1
  <2> QED BY <2>1, <2>2 DEF ClosedUpTo
<1> QED BY <1>4, <1>5

\* One handle lets go.
LEMMA LetGo ==
    ASSUME NEW cw, NEW st, NEW fd, NEW mt, Typed(cw, st, fd, mt), NEW t \in Tasks, NEW f \in Slots,
           NEW s, Sound(s, HeldBy(cw, st, fd, mt), CursorsOf(fd)),
           fd[t][f].inode \in Inodes, fd[t][f].cursor \in Dirents \cup {NoEntry}
    PROVE  Sound(Closed(s, fd[t][f]), HeldBy(cw, st, SetFd(fd, t, f, NoFile), mt), CursorsOf(SetFd(fd, t, f, NoFile)))
<1> DEFINE h == fd[t][f]
           H == HeldBy(cw, st, fd, mt)
           C == CursorsOf(fd)
           G == Plus(H, h.inode, -1)
           D == PlusC(C, h.cursor, -1)
<1>1. h.cursor # NoEntry => h.cursor \in Dirents /\ C[h.cursor] >= 1
  BY CursorSome
<1>2. H \in [Inodes -> Int] /\ C \in [Dirents -> Int]
  <2>1. H \in [Inodes -> Nat]
    BY HeldNat
  <2> HIDE DEF H
  <2> QED BY <2>1, CursorsNat
<1>3. NoFile.cursor = NoEntry /\ NoFile.inode = None
  BY DEF NoFile
<1>4. SameHeld(G, HeldBy(cw, st, SetFd(fd, t, f, NoFile), mt))
  <2>1. Moved2(H, HeldBy(cw, st, SetFd(fd, t, f, NoFile), mt), h.inode, NoFile.inode)
    BY HeldMoved
  <2>2. Moved2(H, HeldBy(cw, st, SetFd(fd, t, f, NoFile), mt), h.inode, None)
    BY <1>3, <2>1
  <2> HIDE DEF H
  <2> QED BY <1>2, <2>2, Net, RootInodes
<1>5. SameCursors(D, CursorsOf(SetFd(fd, t, f, NoFile)))
  <2>1. SameCursors(PlusC(PlusC(C, NoFile.cursor, 1), h.cursor, -1), CursorsOf(SetFd(fd, t, f, NoFile)))
    BY CursorsNet DEF Typed
  <2> HIDE DEF C
  <2>2. PlusC(C, NoFile.cursor, 1) = C
    BY <1>2, <1>3, NoCursor
  <2> QED BY <2>1, <2>2
<1>6. Sound(Closed(s, h), G, D)
  <2> HIDE DEF h, H, C
  <2> QED BY <1>1, <1>2, ClosedSound DEF h, H, C
<1> HIDE DEF G, D
<1> QED BY <1>4, <1>5, <1>6, SoundSame

Without(t, n) == [fds EXCEPT ![t] = [g \in Slots |-> IF g <= n THEN NoFile ELSE fds[t][g]]]

\* And each is counted.
LEMMA ClosedAllSound ==
    ASSUME RegInv, due = <<>>, NEW t \in Tasks
    PROVE  Sound(ClosedAll(fds[t]), HeldBy(cwd, stream, Without(t, NSlots), mounts), CursorsOf(Without(t, NSlots)))
<1> DEFINE N == NSlots
           Good(n, s) == Sound(s, HeldBy(cwd, stream, Without(t, n), mounts), CursorsOf(Without(t, n)))
<1>1. N \in Nat /\ Slots = 1 .. N
  BY SizesAssumption DEF Slots
<1>2. PICK w : ClosedUpTo(fds[t], N, w) /\ ClosedAll(fds[t]) = w[N]
  BY ClosedDef
<1>3. NoFile \in Files
  BY DEF NoFile, Files, InodeOrNone
<1>4. fds \in [Tasks -> [Slots -> Files]]
  BY DEF RegInv, HoldersOK
<1>5. ASSUME NEW n \in Int
      PROVE  /\ Without(t, n) \in [Tasks -> [Slots -> Files]]
             /\ \A u \in Tasks, g \in Slots : Without(t, n)[u][g] = IF u = t /\ g <= n THEN NoFile ELSE fds[u][g]
  BY <1>3, <1>4 DEF Without
<1>6. ASSUME NEW A \in [Tasks -> [Slots -> Files]], NEW B \in [Tasks -> [Slots -> Files]],
             \A u \in Tasks, g \in Slots : A[u][g] = B[u][g]
      PROVE  A = B
  <2>1. ASSUME NEW u \in Tasks
        PROVE  A[u] = B[u]
    <3>1. A[u] \in [Slots -> Files] /\ B[u] \in [Slots -> Files]
      OBVIOUS
    <3> QED BY <1>6, <3>1
  <2> QED BY <2>1
<1>7. Good(0, Now)
  <2>1. Without(t, 0) = fds
    <3>1. \A u \in Tasks, g \in Slots : Without(t, 0)[u][g] = fds[u][g]
      BY <1>1, <1>5
    <3>2. Without(t, 0) \in [Tasks -> [Slots -> Files]]
      BY <1>5
    <3> QED BY <1>4, <1>6, <3>1, <3>2
  <2>2. Sound(Now, Held0, Cursors0)
    BY NowSound
  <2> QED BY <2>1, <2>2 DEF Held0, Cursors0
<1>8. ASSUME NEW n \in 1 .. N, Good(n - 1, w[n - 1])
      PROVE  Good(n, w[n])
  <2> DEFINE A == Without(t, n - 1)
  <2>1. n \in Slots /\ n \in Int /\ n - 1 \in Int
    BY <1>1
  <2>2. w[n] = IF fds[t][n] = NoFile THEN w[n - 1] ELSE Closed(w[n - 1], fds[t][n])
    BY <1>2 DEF ClosedUpTo
  <2>3. A \in [Tasks -> [Slots -> Files]] /\ A[t][n] = fds[t][n]
    BY <1>5, <2>1
  <2>4. Without(t, n) = SetFd(A, t, n, NoFile)
    <3>1. SetFd(A, t, n, NoFile) = [A EXCEPT ![t] = [A[t] EXCEPT ![n] = NoFile]]
      BY <2>3 DEF SetFd
    <3> HIDE DEF A
    <3>2. SetFd(A, t, n, NoFile) \in [Tasks -> [Slots -> Files]]
      BY <1>3, <2>1, <2>3, <3>1
    <3>3. \A u \in Tasks, g \in Slots : SetFd(A, t, n, NoFile)[u][g] = IF u = t /\ g = n THEN NoFile ELSE A[u][g]
      BY <2>1, <2>3, <3>1
    <3>4. \A u \in Tasks, g \in Slots : A[u][g] = IF u = t /\ g <= n - 1 THEN NoFile ELSE fds[u][g]
      BY <1>5, <2>1 DEF A
    <3>5. \A u \in Tasks, g \in Slots : Without(t, n)[u][g] = IF u = t /\ g <= n THEN NoFile ELSE fds[u][g]
      BY <1>5, <2>1
    <3>6. \A u \in Tasks, g \in Slots : SetFd(A, t, n, NoFile)[u][g] = Without(t, n)[u][g]
      BY <1>1, <3>3, <3>4, <3>5
    <3>7. Without(t, n) \in [Tasks -> [Slots -> Files]]
      BY <1>5, <2>1
    <3> QED BY <1>6, <3>2, <3>6, <3>7
  <2>5. CASE fds[t][n] = NoFile
    <3>1. \A u \in Tasks, g \in Slots : Without(t, n)[u][g] = A[u][g]
      BY <1>1, <1>5, <2>1, <2>5, SMTT(60)
    <3>2. Without(t, n) \in [Tasks -> [Slots -> Files]]
      BY <1>5, <2>1
    <3>3. Without(t, n) = A
      <4> HIDE DEF A
      <4> QED BY <1>6, <2>3, <3>1, <3>2
    <3> QED BY <1>8, <2>2, <2>5, <3>3
  <2>6. CASE fds[t][n] # NoFile
    <3>1. fds[t][n].inode \in Inodes /\ fds[t][n].cursor \in Dirents \cup {NoEntry}
      BY <2>1, <2>6, HandleOpen
    <3>2. Typed(cwd, stream, A, mounts)
      BY <2>3, HolderTypes DEF Typed
    <3>3. Sound(w[n - 1], HeldBy(cwd, stream, A, mounts), CursorsOf(A))
      BY <1>8
    <3> HIDE DEF A
    <3>4. Sound(Closed(w[n - 1], A[t][n]), HeldBy(cwd, stream, SetFd(A, t, n, NoFile), mounts),
                CursorsOf(SetFd(A, t, n, NoFile)))
      BY <2>1, <2>3, <3>1, <3>2, <3>3, LetGo
    <3> QED BY <2>2, <2>3, <2>4, <2>6, <3>4
  <2> QED BY <2>5, <2>6
<1> DEFINE Bad == {n \in 0 .. N : ~Good(n, w[n])}
<1> HIDE DEF Good
<1>9. Bad = {}
  <2> SUFFICES ASSUME Bad # {} PROVE FALSE
    OBVIOUS
  <2>1. PICK n \in Bad : \A m \in Bad : n <= m
    <3>1. Bad \in SUBSET Nat
      BY <1>1
    <3> HIDE DEF Bad
    <3> QED BY <3>1, LeastNumber
  <2>2. n \in 0 .. N /\ ~Good(n, w[n])
    OBVIOUS
  <2>3. CASE n = 0
    BY <1>2, <1>7, <2>2, <2>3 DEF ClosedUpTo
  <2>4. CASE n # 0
    <3>1. n \in 1 .. N /\ n - 1 \in 0 .. N /\ ~(n <= n - 1)
      BY <1>1, <2>2, <2>4
    <3>2. Good(n - 1, w[n - 1])
      BY <2>1, <3>1
    <3> QED BY <1>8, <2>2, <3>1, <3>2
  <2> QED BY <2>3, <2>4
<1>10. N \in 0 .. N
  BY <1>1
<1>11. Good(N, w[N])
  BY <1>9, <1>10
<1> QED BY <1>2, <1>11 DEF Good

\* task_teardown
LEMMA TeardownStep ==
    ASSUME RegInv, NEW t \in Tasks, Teardown(t)
    PROVE  RegInv'
<1> DEFINE s == ClosedAll(fds[t])
           fd == [fds EXCEPT ![t] = [f \in Slots |-> NoFile]]
           st == [stream EXCEPT ![t] = None]
           cw == [cwd EXCEPT ![t] = None]
           j == stream[t]
           c == cwd[t]
           x == inode_unref(s, j)
           H == HeldBy(cwd, stream, fd, mounts)
           H1 == HeldBy(cwd, st, fd, mounts)
           H2 == HeldBy(cw, st, fd, mounts)
           C == CursorsOf(fd)
<1>1. /\ Calls(t) /\ t # First
      /\ Becomes(inode_unref(x, c))
      /\ fds' = fd /\ stream' = st /\ cwd' = cw /\ alive' = alive \ {t} /\ UNCHANGED <<mounts, disk>>
  BY Zenon DEF Teardown, ClosedAll
<1>2. due = <<>> /\ t \in alive
  BY <1>1 DEF Calls
<1>3. j \in Inodes /\ c \in Inodes
  BY <1>1, <1>2 DEF RegInv, HoldersOK, InodeOrNone
<1>4. fd = Without(t, NSlots)
  <2>1. \A g \in Slots : g <= NSlots
    BY SizesAssumption DEF Slots
  <2>2. [f \in Slots |-> NoFile] = [g \in Slots |-> IF g <= NSlots THEN NoFile ELSE fds[t][g]]
    BY <2>1
  <2> QED BY <2>2, Zenon DEF Without
<1>5. Sound(s, H, C)
  BY <1>2, <1>4, ClosedAllSound
<1>6. fd \in [Tasks -> [Slots -> Files]] /\ \A u \in Tasks, g \in Slots : fd[u][g] = IF u = t THEN NoFile ELSE fds[u][g]
  <2>1. NoFile \in Files
    BY DEF NoFile, Files, InodeOrNone
  <2> QED BY <2>1 DEF RegInv, HoldersOK
<1>7. cw \in [Tasks -> InodeOrNone] /\ \A u \in Tasks : cw[u] = IF u = t THEN None ELSE cwd[u]
  BY DEF RegInv, HoldersOK, InodeOrNone
<1>8. st \in [Tasks -> InodeOrNone] /\ \A u \in Tasks : st[u] = IF u = t THEN None ELSE stream[u]
  BY DEF RegInv, HoldersOK, InodeOrNone
<1>9. Typed(cwd, stream, fd, mounts) /\ Typed(cwd, st, fd, mounts)
  BY <1>6, <1>8, HolderTypes DEF Typed
<1>10. Moved2(H, H1, j, None) /\ Moved2(H1, H2, c, None)
  <2> HIDE DEF fd
  <2>1. Moved2(H, H1, j, None)
    BY <1>9, HeldMoved
  <2> HIDE DEF st
  <2>2. Moved2(H1, H2, c, None)
    BY <1>9, HeldMoved
  <2> QED BY <2>1, <2>2
<1>11. H \in [Inodes -> Int] /\ H1 \in [Inodes -> Int] /\ H2 \in [Inodes -> Int]
  <2>1. H \in [Inodes -> Nat] /\ H1 \in [Inodes -> Nat] /\ H2 \in [Inodes -> Nat]
    BY HeldNat
  <2> HIDE DEF H, H1, H2
  <2> QED BY <2>1
<1>12. HoldersOK'
  <2>1. NoFile.cursor = NoEntry
    BY DEF NoFile
  <2> HIDE DEF cw, st, fd
  <2> QED BY <1>1, <1>2, <1>6, <1>7, <1>8, <2>1 DEF RegInv, HoldersOK, Becomes
<1>13. CursorsOf(fds') = C /\ HeldBy(cwd', stream', fds', mounts') = H2
  BY <1>1
<1> HIDE DEF s, cw, st, fd, H, H1, H2, C, j, c
<1>14. Sound(x, H1, C)
  <2>1. Sound(x, Plus(H, j, -1), C)
    BY <1>3, <1>5, <1>11, UnrefSound
  <2>2. SameHeld(Plus(H, j, -1), H1) /\ SameCursors(C, C)
    BY <1>10, <1>11, Net, RootInodes DEF SameCursors
  <2> QED BY <2>1, <2>2, SoundSame
<1> HIDE DEF x
<1>15. Sound(inode_unref(x, c), H2, C)
  <2>1. Sound(inode_unref(x, c), Plus(H1, c, -1), C)
    BY <1>3, <1>11, <1>14, UnrefSound
  <2>2. SameHeld(Plus(H1, c, -1), H2) /\ SameCursors(C, C)
    BY <1>10, <1>11, Net, RootInodes DEF SameCursors
  <2> QED BY <2>1, <2>2, SoundSame
<1>16. MountsOK' /\ DiskOK'
  BY <1>1, <1>15, MountsStay, DiskStays
<1>17. SameHeld(H2, HeldBy(cwd', stream', fds', mounts')) /\ SameCursors(C, CursorsOf(fds'))
  BY <1>13 DEF SameHeld, SameCursors
<1> QED BY <1>1, <1>11, <1>12, <1>15, <1>16, <1>17, EndsGood

\* Nobody's cursor: no cursor.
LEMMA CursorNone ==
    ASSUME NEW fd, NEW d \in Dirents, \A t \in Tasks, f \in Slots : fd[t][f].cursor # d
    PROVE  CursorsOf(fd)[d] = 0
<1>1. \A x \in Tasks \X Slots : x[1] \in Tasks /\ x[2] \in Slots
  OBVIOUS
<1>2. {x \in Tasks \X Slots : fd[x[1]][x[2]].cursor = d} = {}
  BY <1>1
<1>3. CursorsOf(fd)[d] = Cardinality({x \in Tasks \X Slots : fd[x[1]][x[2]].cursor = d})
  BY DEF CursorsOf
<1> QED BY <1>2, <1>3, FS_EmptySet

\* A tree with no more entries and no marks stays plain over a step.
LEMMA PlainAfter ==
    ASSUME RegInv, Counted(Here', Held0, Cursors0), Within(Here, Here'), Unmarked(Here, Here')
    PROVE  Plain(Here)'
<1> DEFINE h == Here'
<1>1. Plain(h)
  <2> HIDE DEF h
  <2>1. TreeOK(h) /\ Within(Here, h) /\ Unmarked(Here, h) /\ Plain(Here)
    BY DEF Counted, RegInv, h
  <2> QED BY <2>1, PlainStays
<1>2. Plain(Here)' = Plain(h)
  BY DEF Plain, Dry, NoneSelf, Native
<1> QED BY <1>1, <1>2

\* An inode that others hold still.
LEMMA DropOneStep ==
    ASSUME RegInv, due # <<>>, inode[Head(due)].ref # 1,
           Becomes([Now EXCEPT !.nodes[Head(due)].ref = @ - 1, !.due = Tail(due)]),
           UNCHANGED <<mounts, disk, held>>
    PROVE  RegInv'
<1> DEFINE i == Head(due)
<1>1. /\ inode' = [inode EXCEPT ![i].ref = @ - 1] /\ kids' = kids /\ dirent' = dirent
      /\ due' = Tail(due) /\ scope' = scope
  BY DEF Becomes, Now
<1>2. /\ Here.nodes = inode /\ Here.lists = kids /\ Here.ents = dirent /\ Here.due = due
      /\ Here'.nodes = inode' /\ Here'.lists = kids' /\ Here'.ents = dirent' /\ Here'.due = due'
      /\ Here'.at \in InodeOrNone /\ Parts(Here')
  BY DEF Here, Parts, InodeOrNone
<1>3. Counted(Here, Held0, Cursors0)
  BY DEF RegInv, Held0, Cursors0
<1>4. Counted(Here', Held0, Cursors0)
  <2> DEFINE s == Here
             t == Here'
  <2>1. /\ Counted(s, Held0, Cursors0) /\ s.due # <<>> /\ s.nodes[Head(s.due)].ref # 1
        /\ Parts(t) /\ t.nodes = [s.nodes EXCEPT ![Head(s.due)].ref = @ - 1] /\ t.lists = s.lists
        /\ t.ents = s.ents /\ t.due = Tail(s.due) /\ t.at \in InodeOrNone
    BY <1>1, <1>2, <1>3
  <2> HIDE DEF s, t
  <2>2. Counted(t, Held0, Cursors0)
    BY <2>1, ZeroInts, DropOne
  <2> QED BY <2>2 DEF t
<1>5. inode \in [Inodes -> NodeType] /\ due \in Seq(Inodes)
  BY <1>2, <1>3 DEF Counted, TreeOK, NodesOK
<1>6. i \in Inodes
  BY <1>5
<1>7. inode[i] \in NodeType /\ inode[i].ref \in Nat
  BY <1>5, <1>6 DEF NodeType
<1>8. \A j \in Inodes : /\ inode'[j].inum = inode[j].inum /\ inode'[j].mnt = inode[j].mnt
                        /\ inode'[j].ref = 0 => inode[j].ref = 0
  <2> SUFFICES ASSUME NEW j \in Inodes
               PROVE  /\ inode'[j].inum = inode[j].inum /\ inode'[j].mnt = inode[j].mnt
                      /\ inode'[j].ref = 0 => inode[j].ref = 0
    OBVIOUS
  <2>1. CASE j = i
    <3>1. inode'[i] = [inode[i] EXCEPT !.ref = @ - 1]
      BY <1>1, <1>5, <1>6
    <3>2. inode'[i].ref = inode[i].ref - 1 /\ inode'[i].inum = inode[i].inum /\ inode'[i].mnt = inode[i].mnt
      BY <1>7, <3>1 DEF NodeType
    <3> QED BY <1>7, <2>1, <3>2
  <2>2. CASE j # i
    BY <1>1, <1>5, <2>2
  <2> QED BY <2>1, <2>2
<1>9. Bare(Here')
  BY <1>1, <1>2, <1>8 DEF RegInv, Bare
<1>10. MountsOK'
  <2>1. \A m \in Mounts : mounts[m].root # None => mounts[m].root \in Inodes
    BY DEF RegInv, HoldersOK, MountType, InodeOrNone
  <2> QED BY <1>8, <2>1 DEF RegInv, MountsOK
<1>11. HoldersOK' /\ DiskOK'
  BY <1>1 DEF RegInv, HoldersOK, DiskOK, held
<1>12. Plain(Here)'
  <2>1. Unmarked(Here, Here') /\ Within(Here, Here')
    BY <1>1, <1>2, <1>8, SameWithin DEF Unmarked
  <2> QED BY <1>4, <2>1, PlainAfter
<1> QED BY <1>4, <1>9, <1>10, <1>11, <1>12 DEF RegInv, held, Held0, Cursors0

\* registry_destroy
Gone(i) == Keep(kids[i], {d \in DOMAIN dirent : dirent[d].ref = 1})
Targets(i) == LET gone == Gone(i) IN Keep([k \in DOMAIN gone |-> dirent[gone[k]].inode], Inodes \ {i})

\* What registry_destroy leaves.
LEMMA DestroyedIs ==
    ASSUME NEW i
    PROVE  /\ Destroyed(i).nodes = [inode EXCEPT ![i] = NoInode]
           /\ Destroyed(i).lists = [kids EXCEPT ![i] = <<>>]
           /\ Destroyed(i).ents = [d \in DOMAIN dirent \ {Gone(i)[k] : k \in DOMAIN Gone(i)} |->
                                     [dirent[d] EXCEPT !.ref = IF d \in Members(kids[i]) THEN @ - 1 ELSE @]]
           /\ Destroyed(i).due = Targets(i) \o Tail(due)
<1> DEFINE gone == Keep(kids[i], {d \in DOMAIN dirent : dirent[d].ref = 1})
           mine == {kids[i][k] : k \in DOMAIN kids[i]}
           targets == Keep([k \in DOMAIN gone |-> dirent[gone[k]].inode], Inodes \ {i})
           a == [inode EXCEPT ![i] = NoInode]
           b == [kids EXCEPT ![i] = <<>>]
           c == [d \in DOMAIN dirent \ {gone[k] : k \in DOMAIN gone} |->
                      [dirent[d] EXCEPT !.ref = IF d \in mine THEN @ - 1 ELSE @]]
           e == targets \o Tail(due)
<1>1. Destroyed(i) = [nodes |-> a, lists |-> b, ents |-> c, due |-> e]
  BY Zenon DEF Destroyed
<1>2. gone = Gone(i) /\ mine = Members(kids[i]) /\ targets = Targets(i)
  BY Zenon DEF Gone, Members, Targets
<1> HIDE DEF a, b, c, e
<1>3. Destroyed(i).nodes = a /\ Destroyed(i).lists = b /\ Destroyed(i).ents = c /\ Destroyed(i).due = e
  BY <1>1
<1>4. c = [d \in DOMAIN dirent \ {Gone(i)[k] : k \in DOMAIN Gone(i)} |->
                                     [dirent[d] EXCEPT !.ref = IF d \in Members(kids[i]) THEN @ - 1 ELSE @]]
  BY <1>2, ZenonT(60) DEF c
<1>5. e = Targets(i) \o Tail(due)
  BY <1>2, Zenon DEF e
<1> QED BY <1>3, <1>4, <1>5 DEF a, b

\* The last reference to an inode: nobody holds it, and no cursor stands on its entries.
LEMMA LastIsAlone ==
    ASSUME RegInv, due # <<>>, inode[Head(due)].ref = 1
    PROVE  /\ Head(due) \in Inodes /\ ~Holds(Head(due), cwd, stream, fds, mounts)
           /\ \A d \in Members(kids[Head(due)]) : Cursors0[d] = 0 /\ dirent[d].ref = 1
<1> DEFINE i == Head(due)
<1>1. /\ Here.nodes = inode /\ Here.lists = kids /\ Here.ents = dirent /\ Here.due = due
  BY DEF Here
<1>2. Counted(Here, Held0, Cursors0) /\ TreeOK(Here)
  BY DEF RegInv, Held0, Cursors0, Counted
<1>3. due \in Seq(Inodes)
  BY <1>1, <1>2 DEF TreeOK
<1>4. i \in Inodes /\ Tail(due) \in Seq(Inodes) /\ Times(due, i) = Times(Tail(due), i) + 1
  BY <1>3, TimesTail
<1>5. Times(Tail(due), i) \in Nat /\ Cardinality(Refs(Here, i)) \in Nat /\ Held0[i] \in Nat
  BY <1>2, <1>4, TimesNat, RefsFinite, ZeroInts DEF TreeOK, EntsOK
<1>6. inode[i].ref = Cardinality(Refs(Here, i)) + Times(due, i) + Held0[i]
  BY <1>1, <1>2, <1>4 DEF Counted, NodesCounted
<1>7. Held0[i] = 0
  BY <1>4, <1>5, <1>6
<1> HIDE DEF i
<1>8. ~Holds(i, cwd, stream, fds, mounts)
  BY <1>4, <1>7, HeldSome DEF Held0
<1>9. ASSUME NEW d \in Members(kids[i])
      PROVE  Cursors0[d] = 0 /\ dirent[d].ref = 1
  <2>1. d \in DOMAIN dirent /\ d[1] = i /\ d \in Dirents /\ d # NoEntry /\ Listed(Here, d)
    BY <1>1, <1>2, <1>4, ListedOK
  <2>2. \A t \in Tasks, f \in Slots : fds[t][f].cursor # d
    BY <1>8, <2>1 DEF RegInv, HoldersOK, Holds
  <2>3. Cursors0[d] = 0
    BY <2>1, <2>2, CursorNone DEF Cursors0
  <2>4. dirent[d].ref = (IF Listed(Here, d) THEN 1 ELSE 0) + Cursors0[d]
    BY <1>1, <1>2, <2>1 DEF Counted, EntsCounted
  <2> QED BY <2>1, <2>3, <2>4
<1> QED BY <1>4, <1>8, <1>9 DEF i

\* The last reference to an inode is dropped.
LEMMA DropLastStep ==
    ASSUME RegInv, due # <<>>, inode[Head(due)].ref = 1, Becomes(Destroyed(Head(due))),
           UNCHANGED <<mounts, disk, held>>
    PROVE  RegInv'
<1> DEFINE i == Head(due)
           targets == Targets(i)
           T == {d \in DOMAIN dirent : dirent[d].ref = 1}
<1>1. i \in Inodes /\ ~Holds(i, cwd, stream, fds, mounts) /\ \A d \in Members(kids[i]) : Cursors0[d] = 0 /\ dirent[d].ref = 1
  BY LastIsAlone
<1>2. /\ Here.nodes = inode /\ Here.lists = kids /\ Here.ents = dirent /\ Here.due = due
      /\ Here'.nodes = inode' /\ Here'.lists = kids' /\ Here'.ents = dirent' /\ Here'.due = due'
      /\ Here'.at \in InodeOrNone /\ Parts(Here')
  BY DEF Here, Parts, InodeOrNone
<1>3. Counted(Here, Held0, Cursors0) /\ TreeOK(Here)
  BY DEF RegInv, Held0, Cursors0, Counted
<1>4. Members(Here.lists[i]) \subseteq T
  <2>1. \A d \in Members(kids[i]) : d \in DOMAIN dirent
    BY <1>1, <1>2, <1>3, ListedOK
  <2> QED BY <1>1, <1>2, <2>1
<1>5. {Gone(i)[k] : k \in DOMAIN Gone(i)} = Members(kids[i]) /\ TargetsOf(targets, Here, i)
  <2> DEFINE gone == Keep(Here.lists[i], T)
             tg == Keep([k \in DOMAIN gone |-> Here.ents[gone[k]].inode], Inodes \ {i})
  <2>1. /\ {gone[k] : k \in DOMAIN gone} = Members(Here.lists[i])
        /\ tg \in Seq(Inodes)
        /\ \A x \in Inodes :
              Times(tg, x) = IF x = i THEN 0 ELSE Cardinality({d \in Members(Here.lists[i]) : Here.ents[d].inode = x})
    <3> HIDE DEF T, i
    <3>1. i \in Inodes /\ TreeOK(Here) /\ Members(Here.lists[i]) \subseteq T
      BY <1>1, <1>3, <1>4
    <3>2. TargetsIn(Here, i, T)
      BY <3>1, TargetsCount
    <3> QED BY ONLY <3>2, Zenon DEF TargetsIn
  <2>2. gone = Gone(i) /\ tg = targets
    BY <1>2, Zenon DEF Gone, Targets
  <2> HIDE DEF gone, tg, targets
  <2> QED BY <1>2, <2>1, <2>2 DEF TargetsOf
<1>6. /\ inode' = [inode EXCEPT ![i] = NoInode] /\ kids' = [kids EXCEPT ![i] = <<>>]
      /\ dirent' = [d \in DOMAIN dirent \ Members(kids[i]) |-> [dirent[d] EXCEPT !.ref = IF d \in Members(kids[i]) THEN @ - 1 ELSE @]]
      /\ due' = targets \o Tail(due) /\ scope' = scope
  <2> HIDE DEF targets
  <2> QED BY <1>5, DestroyedIs DEF Becomes, targets
<1>7. dirent' = [d \in DOMAIN dirent \ Members(kids[i]) |-> dirent[d]]
  <2>1. ASSUME NEW d \in DOMAIN dirent, d \notin Members(kids[i])
        PROVE  [dirent[d] EXCEPT !.ref = IF d \in Members(kids[i]) THEN @ - 1 ELSE @] = dirent[d]
    <3>1. dirent[d] \in EntryType
      BY <1>2, <1>3, EntryTyped
    <3> QED BY <2>1, <3>1 DEF EntryType
  <2> QED BY <1>6, <2>1
<1> HIDE DEF i, targets
<1>8. Destroys(Here, Here', i, targets)
  BY <1>2, <1>6, <1>7 DEF Destroys
<1>9. Counted(Here', Held0, Cursors0)
  <2> DEFINE s == Here
             t == Here'
  <2>1. /\ Counted(s, Held0, Cursors0) /\ s.due # <<>> /\ i = Head(s.due) /\ s.nodes[i].ref = 1
        /\ \A d \in Members(s.lists[i]) : Cursors0[d] = 0
        /\ TargetsOf(targets, s, i) /\ Destroys(s, t, i, targets)
    BY <1>1, <1>2, <1>3, <1>5, <1>8 DEF i
  <2> HIDE DEF s, t
  <2>2. Counted(t, Held0, Cursors0)
    BY <2>1, ZeroInts, DropLast
  <2> QED BY <2>2 DEF t
<1>10. inode \in [Inodes -> NodeType] /\ kids \in [Inodes -> Seq(DOMAIN dirent)]
  BY <1>2, <1>3 DEF TreeOK, NodesOK, ListsOK
<1>11. \A j \in Inodes : j # i => inode'[j] = inode[j] /\ kids'[j] = kids[j]
  BY <1>1, <1>6, <1>10
<1>12. Bare(Here')
  <2>1. kids'[i] = <<>>
    BY <1>1, <1>6, <1>10
  <2>2. Members(<<>>) = {}
    BY DEF Members
  <2> QED BY <1>2, <1>11, <2>1, <2>2 DEF RegInv, Bare
<1>13. MountsOK'
  <2>1. \A m \in Mounts : mounts[m].root # None => mounts[m].root \in Inodes
    BY DEF RegInv, HoldersOK, MountType, InodeOrNone
  <2>2. \A m \in Mounts : mounts[m].root # i
    BY <1>1 DEF Holds
  <2> QED BY <1>11, <2>1, <2>2 DEF RegInv, MountsOK
<1>14. HoldersOK' /\ DiskOK'
  BY <1>6 DEF RegInv, HoldersOK, DiskOK, held
<1>15. Plain(Here)'
  <2>1. inode'[i] = NoInode /\ kids'[i] = <<>>
    BY <1>1, <1>6, <1>10
  <2>2. NoInode.mnt = None /\ NoInode.inum = None /\ Members(<<>>) = {}
    BY DEF NoInode, Members
  <2>3. Unmarked(Here, Here')
    BY <1>2, <1>11, <2>1, <2>2 DEF Unmarked
  <2>4. Within(Here, Here')
    BY <1>2, <1>7, <1>11, <2>1, <2>2 DEF Within, SameEntries
  <2> QED BY <1>9, <2>3, <2>4, PlainAfter
<1> QED BY <1>9, <1>12, <1>13, <1>14, <1>15 DEF RegInv, held, Held0, Cursors0

\* inode_unref
LEMMA DropStep ==
    ASSUME RegInv, Drop
    PROVE  RegInv'
<1>1. CASE inode[Head(due)].ref = 1
  BY <1>1, DropLastStep DEF Drop
<1>2. CASE inode[Head(due)].ref # 1
  BY <1>2, DropOneStep DEF Drop
<1> QED BY <1>1, <1>2

-----------------------------------------------------------------------------
(* Calls that change names.                                                *)

\* A new name takes one of the free entries.
LEMMA FreeAfter ==
    ASSUME NEW s, TreeOK(s), NEW t, NEW i, NEW nm, NEW j, Linked(s, t, i, nm, j), scope \in Scopes
    PROVE  FreeDirents(t) = FreeDirents(s) - 1 /\ FreeDirents(s) \in Int
<1> DEFINE d == NewDirent(s, i, nm)
           E == DOMAIN s.ents
<1>1. DOMAIN t.ents = E \cup {d} /\ d \notin E
  BY DEF Linked
<1>2. IsFiniteSet(E)
  BY DEF TreeOK, EntsOK
<1> HIDE DEF d, E
<1>3. Cardinality(E \cup {d}) = Cardinality(E) + 1 /\ Cardinality(E) \in Nat
  BY <1>1, <1>2, FS_AddElement, FS_CardinalityType
<1>4. NDirents \in Nat /\ scope.taken \in Nat
  BY SizesAssumption, ScopesAssumption
<1> QED BY <1>1, <1>3, <1>4 DEF FreeDirents, E

\* A name for an inode that is in use.
SameKinds(s, t) ==
    \A k \in Inodes : t.nodes[k].type = s.nodes[k].type /\ t.nodes[k].mnt = s.nodes[k].mnt /\ t.nodes[k].inum = s.nodes[k].inum

\* registry_linkdirent between inodes in use keeps a tree sound.
LEMMA LinkInUse ==
    ASSUME NEW s, NEW H \in [Inodes -> Int], NEW C \in [Dirents -> Int], Sound(s, H, C),
           NEW i \in Inodes, s.nodes[i].ref # 0, NEW j \in Inodes, s.nodes[j].ref # 0,
           NEW nm \in Names \cup Dots, scope \in Scopes, FreeDirents(s) > 0, j = Root => nm \in Dots,
           Native => i # j \/ nm = "." \/ (nm = ".." /\ i = Root)
    PROVE  LET t == registry_linkdirent(s, i, nm, j)
           IN  Sound(t, H, C) /\ Linked(s, t, i, nm, j) /\ SameKinds(s, t) /\ Keeps(s, t)
<1> DEFINE t == registry_linkdirent(s, i, nm, j)
           r == s.nodes[j]
<1>1. TreeOK(s) /\ Parts(s) /\ s.nodes \in [Inodes -> NodeType]
  BY DEF Sound, Counted, TreeOK, NodesOK
<1>2. r \in NodeType /\ r.type # "none" /\ (j = Root => r.type = "dir") /\ r.ref \in Nat
  BY <1>1, NodeTyped
<1>3. t = LinkInto(s, i, nm, j, r)
  <2>1. [s EXCEPT !.nodes[j] = r] = s
    BY <1>1 DEF Parts
  <2> QED BY <2>1 DEF LinkInto
<1>4. Linkable(s, i, nm, j, r)
  BY <1>2 DEF Linkable
<1>5. Plain(s) /\ Native => r.mnt = None /\ r.inum = None
  BY DEF Plain, Dry
<1> HIDE DEF t
<1>6. Sound(t, H, C) /\ Linked(s, t, i, nm, j) /\ t.nodes = NodesLinked(s, i, j, r)
  <2> HIDE DEF r
  <2>1. s.nodes[j].ref # 0 => r.type = s.nodes[j].type /\ r.inum = s.nodes[j].inum
    BY DEF r
  <2>2. Plain(s) /\ Native => r.mnt = None /\ r.inum = None /\ (i # j \/ nm = "." \/ (nm = ".." /\ i = Root))
    BY <1>5
  <2> QED BY <1>3, <1>4, <2>1, <2>2, LinkSound
<1> DEFINE x == [r EXCEPT !.ref = IF j = i THEN @ ELSE @ + 1]
<1>7. /\ x.type = r.type /\ x.mnt = r.mnt /\ x.inum = r.inum /\ x.ref # 0
  BY <1>2 DEF NodeType
<1>8. t.nodes = [s.nodes EXCEPT ![j] = x]
  BY <1>6 DEF NodesLinked
<1> HIDE DEF x
<1>9. \A k \in Inodes : t.nodes[k] = IF k = j THEN x ELSE s.nodes[k]
  BY <1>1, <1>8
<1>10. SameKinds(s, t) /\ Keeps(s, t)
  BY <1>7, <1>9 DEF SameKinds, Keeps
<1> QED BY <1>6, <1>10 DEF t

\* A new inode, and its name.
LEMMA LinkNew ==
    ASSUME NEW s, NEW H \in [Inodes -> Int], NEW C \in [Dirents -> Int], Sound(s, H, C),
           NEW i \in Inodes, s.nodes[i].ref # 0, NEW j \in Inodes, s.nodes[j].ref = 0, j # Root,
           NEW r \in NodeType, r.ref = 0, r.type # "none", r.mnt = None, r.inum = None,
           NEW nm \in Names \cup Dots, scope \in Scopes, FreeDirents(s) > 0
    PROVE  LET t == LinkInto(s, i, nm, j, r)
           IN  /\ Sound(t, H, C) /\ Linked(s, t, i, nm, j)
               /\ \A k \in Inodes : k # j => t.nodes[k] = s.nodes[k]
               /\ t.nodes[j].ref = 1 /\ t.nodes[j].type = r.type
<1> DEFINE t == LinkInto(s, i, nm, j, r)
           x == [r EXCEPT !.ref = IF j = i THEN @ ELSE @ + 1]
<1>1. Linkable(s, i, nm, j, r) /\ i # j
  BY DEF Linkable
<1>2. Sound(t, H, C) /\ Linked(s, t, i, nm, j) /\ t.nodes = NodesLinked(s, i, j, r)
  BY <1>1, LinkSound
<1>3. t.nodes = [s.nodes EXCEPT ![j] = x] /\ s.nodes \in [Inodes -> NodeType]
  BY <1>2 DEF NodesLinked, Sound, Counted, TreeOK, NodesOK
<1>4. x.ref = 1 /\ x.type = r.type
  BY <1>1 DEF NodeType
<1> HIDE DEF t, x
<1>5. \A k \in Inodes : t.nodes[k] = IF k = j THEN x ELSE s.nodes[k]
  BY <1>3
<1> QED BY <1>2, <1>4, <1>5 DEF t

\* registry_mkdir: the inode, its name, "." and "..".
LEMMA MkdirNativeStep ==
    ASSUME RegInv, Ordinary, NEW t \in Tasks, MkdirNative(t)
    PROVE  RegInv'
<1> DEFINE Parent(p) == Split(Now, t, p)
           S(p) == walk(Parent(p), t, p.abs, Above(p), TRUE)
           New(s) == Least(FreeInodes(s))
           A(s, nm) == registry_linkdirent([s EXCEPT !.nodes[New(s)] = [NoInode EXCEPT !.type = "dir"]],
                                           s.at, nm, New(s))
           B(s, nm) == registry_linkdirent(A(s, nm), New(s), ".", New(s))
<1>1. PICK p \in Named(t) :
          /\ Calls(t) /\ FoundDir(S(p)) /\ FreeInodes(S(p)) # {} /\ FreeDirents(S(p)) >= 3
          /\ Becomes(registry_linkdirent(B(S(p), LastOf(p)), New(S(p)), "..", S(p).at))
          /\ UNCHANGED <<mounts, disk, held>>
  BY Zenon DEF MkdirNative
<1> DEFINE s == S(p)
           nm == LastOf(p)
           i == s.at
           j == New(s)
           r == [NoInode EXCEPT !.type = "dir"]
           a == A(s, nm)
           b == B(s, nm)
           c == registry_linkdirent(b, j, "..", i)
<1>2. cwd[t] # None /\ due = <<>>
  BY <1>1, CallerIn
<1>3. Walked(s) /\ nm \in Names \cup Dots
  <2>1. Walked(Now)
    BY <1>2, NowWalked
  <2>2. Walked(Parent(p)) /\ nm \in Names \cup Dots /\ Above(p) \in Seq(Names \cup Dots)
    BY <1>2, <2>1, SplitWalked
  <2> HIDE DEF Parent
  <2> QED BY <1>2, <2>2, WalkWalked
<1>4. a = LinkInto(s, i, nm, j, r) /\ b = registry_linkdirent(a, j, ".", j)
  BY DEF LinkInto
<1> HIDE DEF s, nm, A
<1>5. TreeOK(s) /\ Sound(s, Held0, Cursors0) /\ scope \in Scopes
  BY <1>3 DEF Walked, Sound, Counted, RegInv, HoldersOK
<1>6. i \in Inodes /\ s.nodes[i].ref # 0 /\ FreeInodes(s) # {} /\ FreeDirents(s) >= 3
  BY <1>1, <1>3, <1>5 DEF FoundDir, Found, Walked, TreeOK, InodeOrNone, s
<1>7. j \in Inodes /\ j # Root /\ s.nodes[j].ref = 0
  BY <1>5, <1>6, FreeInode
<1>8. i # j
  BY <1>6, <1>7
<1>9. /\ r \in NodeType /\ r.ref = 0 /\ r.type # "none" /\ r.mnt = None /\ r.inum = None
  BY DEF NoInode, NodeType
<1> HIDE DEF r, i, j, B
<1>10. /\ Sound(a, Held0, Cursors0) /\ Linked(s, a, i, nm, j)
       /\ a.nodes[i].ref # 0 /\ a.nodes[j].ref # 0
       /\ FreeDirents(a) >= 2 /\ FreeDirents(a) \in Int
  <2> DEFINE u == LinkInto(s, i, nm, j, r)
  <2>1. FreeDirents(s) > 0
    <3>1. FreeDirents(s) \in Int
      <4>1. Cardinality(DOMAIN s.ents) \in Nat
        BY <1>5, FS_CardinalityType DEF TreeOK, EntsOK
      <4>2. NDirents \in Nat /\ scope.taken \in Nat
        BY <1>5, SizesAssumption, ScopesAssumption
      <4> QED BY <4>1, <4>2 DEF FreeDirents
    <3> QED BY <1>6, <3>1
  <2>2. /\ Sound(u, Held0, Cursors0) /\ Linked(s, u, i, nm, j)
        /\ \A k \in Inodes : k # j => u.nodes[k] = s.nodes[k]
        /\ u.nodes[j].ref = 1
    BY <1>3, <1>5, <1>6, <1>7, <1>9, <2>1, ZeroInts, LinkNew
  <2>3. a = u
    BY <1>4
  <2> HIDE DEF u, a
  <2>4. FreeDirents(u) = FreeDirents(s) - 1 /\ FreeDirents(s) \in Int
    BY <1>5, <2>2, FreeAfter
  <2> QED BY <1>6, <1>8, <2>2, <2>3, <2>4
<1> HIDE DEF a, b
<1>11. /\ Sound(b, Held0, Cursors0)
       /\ b.nodes[i].ref # 0 /\ b.nodes[j].ref # 0 /\ FreeDirents(b) > 0
  <2> DEFINE u == registry_linkdirent(a, j, ".", j)
  <2>1. "." \in Names \cup Dots /\ FreeDirents(a) > 0
    BY <1>10 DEF Dots
  <2>2. Sound(u, Held0, Cursors0) /\ Linked(a, u, j, ".", j) /\ Keeps(a, u)
    BY <1>5, <1>7, <1>10, <2>1, ZeroInts, LinkInUse
  <2>3. b = u
    BY <1>4
  <2> HIDE DEF u
  <2>4. FreeDirents(u) = FreeDirents(a) - 1
    <3>1. TreeOK(a)
      BY <1>10 DEF Sound, Counted
    <3> QED BY <1>5, <2>2, <3>1, FreeAfter
  <2> QED BY <1>6, <1>7, <1>10, <2>2, <2>3, <2>4 DEF Keeps
<1>12. Sound(c, Held0, Cursors0)
  <2>1. ".." \in Names \cup Dots /\ ".." \in Dots
    BY DEF Dots
  <2> QED BY <1>5, <1>6, <1>7, <1>8, <1>11, <2>1, ZeroInts, LinkInUse
<1>13. Becomes(c)
  BY <1>1 DEF s, nm, i, j, b
<1> HIDE DEF c
<1>14. DiskOK'
  BY <1>1, DiskStays
<1> QED BY <1>1, <1>12, <1>13, <1>14, StaysGood

\* The disk keeps its form.
DiskFormed(D) == D \in [Inums -> DiskType] /\ \A n \in Inums : D[n].used => D[n].type # "none"

\* A name on the disk gets another number.
LEMMA DiskNamed ==
    ASSUME NEW D, DiskFormed(D), NEW n \in Inums, NEW nm, NEW v \in Inums \cup {None}
    PROVE  DiskFormed([D EXCEPT ![n].names[nm] = v])
<1> DEFINE E == [D EXCEPT ![n].names[nm] = v]
           r == [D[n] EXCEPT !.names[nm] = v]
<1>1. D[n] \in DiskType
  BY DEF DiskFormed
<1>2. r \in DiskType /\ r.used = D[n].used /\ r.type = D[n].type
  BY <1>1 DEF DiskType
<1>3. E = [D EXCEPT ![n] = r]
  BY DEF DiskFormed
<1> HIDE DEF E, r
<1>4. \A k \in Inums : E[k] = IF k = n THEN r ELSE D[k]
  BY <1>3 DEF DiskFormed
<1>5. DiskFormed(E)
  BY <1>2, <1>3, <1>4 DEF DiskFormed
<1> QED BY <1>5 DEF E

\* An inode on the disk gets other contents.
LEMMA DiskPut ==
    ASSUME NEW D, DiskFormed(D), NEW k, NEW r \in DiskType, r.used => r.type # "none"
    PROVE  DiskFormed([D EXCEPT ![k] = r])
  BY DEF DiskFormed

\* What an inode on the disk is that is free.
LEMMA UnusedIs ==
    Unused = [used |-> FALSE, type |-> "none", names |-> [nm \in Names |-> None], up |-> None] /\ Unused \in DiskType
  BY DEF Unused, DiskType

\* What it is when it was retired.
LEMMA RetiredIs ==
    ASSUME NEW r \in DiskType
    PROVE  Retired(r) \in DiskType /\ ~Retired(r).used
  BY UnusedIs DEF Retired, DiskType

\* ext2_unlink leaves a disk.
LEMMA DiskRemovedFormed ==
    ASSUME DiskOK, NEW n \in Inums, NEW nm \in Names
    PROVE  DiskFormed(DiskRemoved(n, nm))
<1> DEFINE k == disk[n].names[nm]
           gone == [disk EXCEPT ![n].names[nm] = None]
           end == [gone EXCEPT ![k] = Retired(@)]
<1>1. DiskFormed(gone)
  <2>1. DiskFormed(disk)
    BY DEF DiskOK, DiskFormed
  <2>2. None \in Inums \cup {None}
    OBVIOUS
  <2> QED BY <2>1, <2>2, DiskNamed
<1>2. DiskRemoved(n, nm) = gone \/ DiskRemoved(n, nm) = end
  BY DEF DiskRemoved
<1> HIDE DEF gone
<1>3. DiskFormed(end)
  <2>1. CASE k \in Inums
    <3>1. gone[k] \in DiskType
      BY <1>1, <2>1 DEF DiskFormed
    <3>2. Retired(gone[k]) \in DiskType /\ ~Retired(gone[k]).used
      BY <3>1, RetiredIs
    <3>3. end = [gone EXCEPT ![k] = Retired(gone[k])]
      OBVIOUS
    <3> QED BY <1>1, <3>2, <3>3, DiskPut
  <2>2. CASE k \notin Inums
    <3>1. end = gone
      BY <1>1, <2>2 DEF DiskFormed
    <3> QED BY <1>1, <3>1
  <2> QED BY <2>1, <2>2
<1> QED BY <1>1, <1>2, <1>3

\* Where a call that names something has come to.
LEMMA DirFound ==
    ASSUME RegInv, NEW s, Walked(s), Found(s)
    PROVE  /\ s.at \in Inodes /\ s.nodes[s.at].ref # 0 /\ TreeOK(s) /\ Sound(s, Held0, Cursors0) /\ scope \in Scopes
           /\ s.nodes[s.at].mnt # None => s.nodes[s.at].inum \in Inums /\ ~Native
<1>1. TreeOK(s) /\ Sound(s, Held0, Cursors0) /\ scope \in Scopes
  BY DEF Walked, Sound, Counted, RegInv, HoldersOK
<1>2. s.at \in Inodes /\ s.nodes[s.at].ref # 0
  BY <1>1 DEF Found, Walked, TreeOK, InodeOrNone
<1>3. s.nodes[s.at] \in NodeType
  BY <1>1, <1>2, NodeTyped
<1>4. ASSUME s.nodes[s.at].mnt # None
      PROVE  s.nodes[s.at].inum \in Inums /\ ~Native
  <2>1. s.nodes[s.at].inum # None
    BY <1>2, <1>4 DEF Walked, Closed0
  <2>2. ~Native
    BY <1>1, <1>2, <1>4 DEF Sound, Plain, Dry
  <2> QED BY <1>3, <2>1, <2>2 DEF NodeType
<1> QED BY <1>1, <1>2, <1>4

\* ext2_create
LEMMA CreateMountedStep ==
    ASSUME RegInv, Ordinary, NEW t \in Tasks, CreateMounted(t)
    PROVE  RegInv'
<1> DEFINE S(p) == Split(Now, t, p)
           N(s) == s.nodes[s.at].inum
           free == {k \in Inums : ~disk[k].used}
<1>1. PICK p \in Named(t), type \in {"dir", "file"} :
          /\ Calls(t) /\ FoundDir(S(p)) /\ S(p).nodes[S(p).at].mnt # None /\ LastOf(p) \notin Dots /\ free # {}
          /\ disk' = [disk EXCEPT
               ![Least(free)] = [Unused EXCEPT !.used = TRUE, !.type = type, !.up = IF type = "dir" THEN N(S(p)) ELSE None],
               ![N(S(p))].names[LastOf(p)] = Least(free)]
          /\ Becomes(S(p))
          /\ UNCHANGED <<mounts, held>>
  BY ZenonT(60) DEF CreateMounted
<1> DEFINE s == S(p)
           n == N(s)
           f == Least(free)
           up == IF type = "dir" THEN n ELSE None
           r == [Unused EXCEPT !.used = TRUE, !.type = type, !.up = up]
           mid == [disk EXCEPT ![f] = r]
<1>2. cwd[t] # None /\ due = <<>>
  BY <1>1, CallerIn, Zenon
<1>3. Walked(s) /\ LastOf(p) \in Names \cup Dots
  BY <1>2, NowWalked, SplitWalked, SMTT(60)
<1>4. Found(s)
  BY <1>1, ZenonT(60) DEF FoundDir
<1>5. n \in Inums /\ Sound(s, Held0, Cursors0)
  <2> HIDE DEF s
  <2> QED BY <1>1, <1>3, <1>4, DirFound, ZenonT(60) DEF s
<1>6. f \in Inums
  <2>1. free \in SUBSET Nat /\ free \subseteq Inums
    BY DiskAssumption, ZenonT(60)
  <2> HIDE DEF free
  <2> QED BY <1>1, <2>1, LeastIs, Zenon
<1>7. Becomes(s) /\ disk' = [mid EXCEPT ![n].names[LastOf(p)] = f] /\ UNCHANGED <<mounts, held>>
  BY <1>1, Zenon
<1> HIDE DEF s, n, f
<1>8. r \in DiskType /\ r.type # "none"
  BY <1>5, UnusedIs DEF DiskType
<1> HIDE DEF r
<1>9. DiskFormed(mid)
  <2>1. DiskFormed(disk)
    BY DEF RegInv, DiskOK, DiskFormed
  <2> QED BY <1>8, <2>1, DiskPut
<1> HIDE DEF mid
<1>10. DiskFormed([mid EXCEPT ![n].names[LastOf(p)] = f])
  BY <1>5, <1>6, <1>9, DiskNamed
<1>11. DiskOK'
  BY <1>7, <1>10 DEF DiskOK, DiskFormed
<1> QED BY <1>5, <1>7, <1>11, StaysGood

\* A directory that is removed is marked.
LEMMA DeletedSound ==
    ASSUME NEW s, NEW H \in [Inodes -> Int], NEW C, Sound(s, H, C), NEW j \in Inodes, s.nodes[j].ref # 0,
           NEW b \in BOOLEAN
    PROVE  LET t == [s EXCEPT !.nodes[j].deleted = b]
           IN  Sound(t, H, C) /\ t.lists = s.lists /\ t.ents = s.ents /\ SameKinds(s, t) /\ Keeps(s, t)
<1> DEFINE t == [s EXCEPT !.nodes[j].deleted = b]
           r == [s.nodes[j] EXCEPT !.deleted = b]
<1>1. TreeOK(s) /\ Parts(s) /\ s.nodes \in [Inodes -> NodeType]
  BY DEF Sound, Counted, TreeOK, NodesOK
<1>2. s.nodes[j] \in NodeType
  BY <1>1
<1>3. /\ r \in NodeType /\ r.ref = s.nodes[j].ref /\ r.type = s.nodes[j].type /\ r.inum = s.nodes[j].inum
      /\ r.mnt = s.nodes[j].mnt
  BY <1>2 DEF NodeType
<1>4. t = [s EXCEPT !.nodes[j] = r]
  BY <1>1 DEF Parts
<1> HIDE DEF t, r
<1>5. Sound(t, H, C) /\ t.lists = s.lists /\ t.ents = s.ents /\ t.nodes = [s.nodes EXCEPT ![j] = r]
  BY <1>3, <1>4, MarkSound
<1>6. \A k \in Inodes : t.nodes[k] = IF k = j THEN r ELSE s.nodes[k]
  BY <1>1, <1>5
<1>7. SameKinds(s, t) /\ Keeps(s, t)
  BY <1>3, <1>6 DEF SameKinds, Keeps
<1> QED BY <1>5, <1>7 DEF t

\* A name other than "." and ".." stands for another inode than its directory.
LEMMA NameOfOther ==
    ASSUME NEW s, NEW C, Sound(s, Held0, C), NoneSelf(s), NEW i \in Inodes, s.nodes[i].ref # 0,
           NEW nm, nm \notin Dots, Find(s, i, nm) # NoEntry
    PROVE  LET d == Find(s, i, nm)
           IN  /\ d \in Members(s.lists[i]) /\ d \in DOMAIN s.ents /\ d \in Dirents /\ d[1] = i /\ s.ents[d].name = nm
               /\ s.ents[d].inode # i /\ s.ents[d].inode \in Inodes /\ s.nodes[s.ents[d].inode].ref # 0
               /\ s.ents[d].inode # Root
<1> DEFINE d == Find(s, i, nm)
<1>1. /\ d \in Members(s.lists[i]) /\ d \in DOMAIN s.ents /\ d \in Dirents /\ d[1] = i /\ s.ents[d].name = nm
  BY FindOK DEF Sound, Counted
<1> HIDE DEF d
<1>2. s.ents[d].inode # i
  BY <1>1 DEF NoneSelf, Dots
<1>3. s.ents[d].inode \in Inodes /\ s.nodes[s.ents[d].inode].ref # 0
  BY <1>1, EntryInUse
<1>4. s.ents[d].inode # Root
  BY <1>1, SMTT(60) DEF Sound, Counted, TreeOK, EntsOK
<1> QED BY <1>1, <1>2, <1>3, <1>4 DEF d

\* registry_unlink in the native tree.
LEMMA UnlinkNativeStep ==
    ASSUME RegInv, Ordinary, NEW t \in Tasks, UnlinkNative(t)
    PROVE  RegInv'
<1> DEFINE S(p) == Split(Now, t, p)
           D(s, nm) == Find(s, s.at, nm)
           J(s, nm) == s.ents[D(s, nm)].inode
           U(s, nm) == [s EXCEPT !.nodes[J(s, nm)].deleted = IsDir(s, J(s, nm))]
<1>1. PICK p \in Named(t) :
          /\ Calls(t) /\ CanUnlink(S(p), LastOf(p)) /\ D(S(p), LastOf(p)) # NoEntry
          /\ Becomes(Remove(U(S(p), LastOf(p)), S(p).at, D(S(p), LastOf(p))))
          /\ UNCHANGED <<mounts, disk, held>>
  BY ZenonT(60) DEF UnlinkNative
<1> DEFINE s == S(p)
           nm == LastOf(p)
           i == s.at
           d == Find(s, i, nm)
           j == s.ents[d].inode
           u == [s EXCEPT !.nodes[j].deleted = IsDir(s, j)]
<1>2. cwd[t] # None /\ due = <<>>
  BY <1>1, CallerIn
<1>3. Walked(s)
  BY <1>2, NowWalked, SplitWalked, SMTT(60)
<1>4. Found(s) /\ nm \notin Dots /\ d # NoEntry /\ Becomes(Remove(u, i, d))
  BY <1>1 DEF CanUnlink, FoundDir
<1> HIDE DEF s, nm, d
<1>5. i \in Inodes /\ s.nodes[i].ref # 0 /\ Sound(s, Held0, Cursors0) /\ NoneSelf(s)
  BY <1>3, <1>4, DirFound DEF Walked
<1>6. d \in Members(s.lists[i]) /\ j # i /\ j \in Inodes /\ s.nodes[j].ref # 0
  <2> HIDE DEF i
  <2> QED BY <1>4, <1>5, NameOfOther DEF d
<1> HIDE DEF i, j
<1>7. Sound(u, Held0, Cursors0) /\ u.lists = s.lists /\ u.ents = s.ents
  <2>1. IsDir(s, j) \in BOOLEAN
    BY DEF IsDir
  <2> QED BY <1>5, <1>6, <2>1, ZeroInts, DeletedSound, ZenonT(60)
<1> HIDE DEF u
<1>8. Sound(Remove(u, i, d), Held0, Cursors0)
  BY <1>5, <1>6, <1>7, ZeroInts, RemoveSound DEF j
<1>9. DiskOK'
  BY <1>1, DiskStays
<1> QED BY <1>1, <1>4, <1>8, <1>9, StaysGood

\* ext2_unlink
LEMMA UnlinkMountedStep ==
    ASSUME RegInv, Ordinary, NEW t \in Tasks, UnlinkMounted(t) \/ UnlinkNotFound(t)
    PROVE  RegInv'
<1> DEFINE S(p) == Split(Now, t, p)
           D(s, nm) == Find(s, s.at, nm)
<1>1. PICK p \in Named(t) :
          /\ Calls(t) /\ CanUnlinkMounted(S(p), LastOf(p))
          /\ disk' = DiskRemoved(S(p).nodes[S(p).at].inum, LastOf(p))
          /\ \/ D(S(p), LastOf(p)) # NoEntry /\ Becomes(Remove(S(p), S(p).at, D(S(p), LastOf(p))))
             \/ Becomes(S(p))
          /\ UNCHANGED <<mounts, held>>
  <2>1. CASE UnlinkMounted(t)
    BY <2>1, Zenon DEF UnlinkMounted
  <2>2. CASE UnlinkNotFound(t)
    BY <2>2, Zenon DEF UnlinkNotFound
  <2> QED BY <2>1, <2>2
<1> DEFINE s == S(p)
           nm == LastOf(p)
           i == s.at
           d == Find(s, i, nm)
           n == s.nodes[i].inum
<1>2. cwd[t] # None /\ due = <<>>
  BY <1>1, CallerIn
<1>3. Walked(s) /\ nm \in Names \cup Dots
  BY <1>2, NowWalked, SplitWalked
<1>4. /\ Found(s) /\ nm \notin Dots /\ s.nodes[i].mnt # None /\ disk' = DiskRemoved(n, nm)
      /\ (d # NoEntry /\ Becomes(Remove(s, i, d))) \/ Becomes(s)
  BY <1>1 DEF CanUnlinkMounted, CanUnlink, FoundDir
<1> HIDE DEF s, nm, d
<1>5. i \in Inodes /\ s.nodes[i].ref # 0 /\ Sound(s, Held0, Cursors0) /\ NoneSelf(s) /\ n \in Inums
  BY <1>3, <1>4, DirFound DEF Walked
<1> HIDE DEF i, n
<1>6. DiskOK'
  <2>1. DiskOK /\ nm \in Names
    BY <1>3, <1>4 DEF RegInv
  <2>2. DiskFormed(DiskRemoved(n, nm))
    BY <1>5, <2>1, DiskRemovedFormed
  <2> QED BY <1>4, <2>2 DEF DiskFormed, DiskOK
<1>7. CASE Becomes(s)
  BY <1>1, <1>5, <1>6, <1>7, StaysGood
<1>8. CASE d # NoEntry /\ Becomes(Remove(s, i, d))
  <2>1. d \in Members(s.lists[i]) /\ s.ents[d].inode # i
    BY <1>4, <1>5, <1>8, NameOfOther DEF d
  <2>2. Sound(Remove(s, i, d), Held0, Cursors0)
    BY <1>5, <2>1, ZeroInts, RemoveSound
  <2> QED BY <1>1, <1>6, <1>8, <2>2, StaysGood
<1> QED BY <1>4, <1>7, <1>8

\* The end of a LINK or a RENAME: two walks, one after the other.
LinkFits(s, i, j, nm) ==
    /\ Walked(s) /\ s.at = i /\ i \in Inodes /\ s.nodes[i].ref # 0 /\ j \in Inodes /\ s.nodes[j].ref # 0
    /\ s.nodes[i].type = "dir" /\ s.nodes[j].type # "dir" /\ nm \in Names \cup Dots /\ nm \notin Dots

\* Both ends of a LINK are in use, and what is linked is no directory.
LEMMA LinkFitting ==
    ASSUME RegInv, Ordinary, NEW t \in Tasks, Calls(t), NEW p \in scope.paths[t], NEW q \in Named(t),
           CanLink(Split(Resolve(Now, t, p), t, q), Resolve(Now, t, p).at, LastOf(q))
    PROVE  LET target == Resolve(Now, t, p)
               s == Split(target, t, q)
           IN  LinkFits(s, s.at, target.at, LastOf(q))
<1> DEFINE target == Resolve(Now, t, p)
           s == Split(target, t, q)
           j == target.at
<1>1. cwd[t] # None /\ due = <<>>
  BY CallerIn
<1>2. Walked(target)
  BY <1>1, NowWalked, ResolveWalked
<1> HIDE DEF target
<1>3. Goes(target, s) /\ Walked(s) /\ LastOf(q) \in Names \cup Dots
  BY <1>1, <1>2, SplitWalked
<1>4. CanLink(s, j, LastOf(q))
  BY DEF target
<1> HIDE DEF s
<1>5. Found(s) /\ Found(target) /\ s.nodes[s.at].type = "dir" /\ s.nodes[j].type # "dir" /\ LastOf(q) \notin Dots
  BY <1>4 DEF CanLink, FoundDir, Found, IsDir
<1>6. s.at \in Inodes /\ s.nodes[s.at].ref # 0
  BY <1>3, <1>5, DirFound
<1>7. j \in Inodes /\ target.nodes[j].ref # 0
  BY <1>2, <1>5, DirFound
<1>8. s.nodes[j].ref # 0
  BY <1>3, <1>7 DEF Goes, Keeps
<1>9. LinkFits(s, s.at, j, LastOf(q))
  BY <1>3, <1>5, <1>6, <1>7, <1>8 DEF LinkFits
<1> QED BY <1>9 DEF s, target

\* So the new name is counted.
LEMMA LinkedFits ==
    ASSUME RegInv, NEW s, NEW i, NEW j, NEW nm, LinkFits(s, i, j, nm), FreeDirents(s) > 0
    PROVE  Sound(registry_linkdirent(s, i, nm, j), Held0, Cursors0)
<1>1. TreeOK(s) /\ Sound(s, Held0, Cursors0) /\ scope \in Scopes /\ i # j
  BY DEF LinkFits, Walked, Sound, Counted, RegInv, HoldersOK
<1>2. j # Root
  BY <1>1 DEF LinkFits, TreeOK, NodesOK
<1> QED BY <1>1, <1>2, ZeroInts, LinkInUse DEF LinkFits

\* registry_link in the native tree, where nothing but the entry is made.
LEMMA LinkNativeStep ==
    ASSUME RegInv, Ordinary, NEW t \in Tasks, LinkNative(t)
    PROVE  RegInv'
<1> DEFINE T(p) == Resolve(Now, t, p)
           S(p, q) == Split(T(p), t, q)
<1>1. PICK p \in scope.paths[t], q \in Named(t) :
          /\ Calls(t) /\ CanLink(S(p, q), T(p).at, LastOf(q)) /\ FreeDirents(S(p, q)) > 0
          /\ Becomes(registry_linkdirent(S(p, q), S(p, q).at, LastOf(q), T(p).at))
          /\ UNCHANGED <<mounts, disk, held>>
  BY Zenon DEF LinkNative
<1> DEFINE target == T(p)
           s == S(p, q)
           nm == LastOf(q)
<1>2. LinkFits(s, s.at, target.at, nm)
  BY <1>1, LinkFitting
<1>3. FreeDirents(s) > 0 /\ Becomes(registry_linkdirent(s, s.at, nm, target.at))
  BY <1>1
<1> HIDE DEF s, nm, target
<1>4. Sound(registry_linkdirent(s, s.at, nm, target.at), Held0, Cursors0)
  BY <1>2, <1>3, LinkedFits
<1>5. DiskOK'
  BY <1>1, DiskStays
<1> QED BY <1>1, <1>3, <1>4, <1>5, StaysGood

\* ext2_link
LEMMA LinkMountedStep ==
    ASSUME RegInv, Ordinary, NEW t \in Tasks, LinkMounted(t)
    PROVE  RegInv'
<1> DEFINE T(p) == Resolve(Now, t, p)
           S(p, q) == Split(T(p), t, q)
           N(s, i) == s.nodes[i].inum
<1>1. PICK p \in scope.paths[t], q \in Named(t) :
          /\ Calls(t) /\ CanLink(S(p, q), T(p).at, LastOf(q)) /\ S(p, q).nodes[S(p, q).at].mnt # None
          /\ disk' = [disk EXCEPT ![N(S(p, q), S(p, q).at)].names[LastOf(q)] = N(S(p, q), T(p).at)]
          /\ \/ Becomes(S(p, q))
             \/ /\ FreeDirents(S(p, q)) > 0
                /\ Becomes(registry_linkdirent(S(p, q), S(p, q).at, LastOf(q), T(p).at))
          /\ UNCHANGED <<mounts, held>>
  BY ZenonT(60) DEF LinkMounted
<1> DEFINE s == S(p, q)
           i == s.at
           j == T(p).at
           nm == LastOf(q)
           n == N(s, i)
           v == N(s, j)
<1>2. LinkFits(s, i, j, nm)
  BY <1>1, LinkFitting, ZenonT(60)
<1>3. /\ s.nodes[i].mnt # None /\ disk' = [disk EXCEPT ![n].names[nm] = v]
      /\ Becomes(s) \/ (FreeDirents(s) > 0 /\ Becomes(registry_linkdirent(s, i, nm, j)))
  BY <1>1
<1> HIDE DEF s, nm, j
<1>4. TreeOK(s) /\ Sound(s, Held0, Cursors0) /\ n \in Inums
  <2>1. Walked(s) /\ Found(s)
    BY <1>2, RootInodes DEF LinkFits, Found
  <2> QED BY <1>3, <2>1, DirFound
<1>5. v \in Inums \cup {None}
  <2>1. s.nodes[j] \in NodeType
    BY <1>2, <1>4, NodeTyped DEF LinkFits
  <2> QED BY <2>1 DEF NodeType
<1> HIDE DEF i, n, v
<1>6. DiskOK'
  <2>1. DiskFormed(disk)
    BY DEF RegInv, DiskOK, DiskFormed
  <2>2. DiskFormed([disk EXCEPT ![n].names[nm] = v])
    BY <1>4, <1>5, <2>1, DiskNamed, SMTT(60)
  <2> QED BY <1>3, <2>2 DEF DiskFormed, DiskOK
<1>7. CASE Becomes(s)
  BY <1>1, <1>4, <1>6, <1>7, StaysGood, ZenonT(60)
<1>8. CASE FreeDirents(s) > 0 /\ Becomes(registry_linkdirent(s, i, nm, j))
  <2>1. Sound(registry_linkdirent(s, i, nm, j), Held0, Cursors0)
    BY <1>2, <1>8, LinkedFits
  <2> QED BY <1>1, <1>6, <1>8, <2>1, StaysGood
<1> QED BY <1>3, <1>7, <1>8

\* What is marked as lying in a mount is of a volume.
LEMMA MountedAt ==
    ASSUME RegInv, NEW s, Walked(s), NEW i \in Inodes, s.nodes[i].mnt # None
    PROVE  s.nodes[i].inum \in Inums /\ ~Native
<1>1. TreeOK(s) /\ Plain(s)
  BY DEF Walked, Sound, Counted
<1>2. s.nodes[i] \in NodeType
  BY <1>1, NodeTyped
<1>3. s.nodes[i].inum # None
  BY DEF Walked, Closed0
<1>4. ~Native
  BY <1>1 DEF Plain, Dry
<1> QED BY <1>2, <1>3, <1>4 DEF NodeType

\* The two directories of a RENAME and the names in them.
EndsFit(e) ==
    /\ Walked(e.s) /\ e.od \in Inodes /\ e.nd \in Inodes /\ e.s.nodes[e.od].ref # 0 /\ e.s.nodes[e.nd].ref # 0
    /\ e.s.nodes[e.nd].type = "dir" /\ e.old \in Names /\ e.new \in Names /\ e.old \notin Dots /\ e.new \notin Dots
    /\ e.src = Find(e.s, e.od, e.old) /\ e.dst = Find(e.s, e.nd, e.new)
    /\ ~(e.od = e.nd /\ e.old = e.new)

\* Both directories of a RENAME are in use, and what it moves and replaces are
\* their entries.
LEMMA EndsFitting ==
    ASSUME RegInv, Ordinary, NEW t \in Tasks, Calls(t), NEW p \in Named(t), NEW q \in Named(t),
           CanRename(Ends(t, p, q))
    PROVE  EndsFit(Ends(t, p, q))
<1> DEFINE e == Ends(t, p, q)
           from == Split(Now, t, p)
           to == Split(from, t, q)
<1>1. cwd[t] # None /\ due = <<>>
  BY CallerIn
<1>2. Walked(from) /\ LastOf(p) \in Names \cup Dots
  BY <1>1, NowWalked, SplitWalked
<1>3. /\ e.s = to /\ e.od = from.at /\ e.nd = to.at /\ e.old = LastOf(p) /\ e.new = LastOf(q)
      /\ e.src = (IF from.at = None \/ to.at = None THEN NoEntry ELSE Find(to, from.at, LastOf(p)))
      /\ e.dst = (IF to.at = None THEN NoEntry ELSE Find(to, to.at, LastOf(q)))
  BY DEF Ends
<1> HIDE DEF from
<1>4. Goes(from, to) /\ Walked(to) /\ LastOf(q) \in Names \cup Dots
  BY <1>1, <1>2, SplitWalked
<1> HIDE DEF e, to
<1>5. CanRename(e)
  BY DEF e
<1>6. /\ from.at # None /\ to.at # None /\ to.nodes[to.at].type = "dir"
      /\ LastOf(p) \notin Dots /\ LastOf(q) \notin Dots /\ ~(e.od = e.nd /\ e.old = e.new)
  BY <1>3, <1>5 DEF CanRename, IsDir, OntoItself
<1>7. /\ from.at \in Inodes /\ from.nodes[from.at].ref # 0
      /\ to.at \in Inodes /\ to.nodes[to.at].ref # 0
  BY <1>2, <1>4, <1>6, DirFound DEF Found
<1>8. to.nodes[from.at].ref # 0
  BY <1>4, <1>7 DEF Goes, Keeps
<1>9. EndsFit(e)
  BY <1>2, <1>3, <1>4, <1>6, <1>7, <1>8 DEF EndsFit
<1> QED BY <1>9 DEF e

\* The same of whatever ends a call has.
LEMMA EndsOfCall ==
    ASSUME RegInv, Ordinary, NEW t \in Tasks, Calls(t), NEW e \in {Ends(t, p, q) : p, q \in Named(t)}, CanRename(e)
    PROVE  EndsFit(e)
<1>1. PICK p \in Named(t), q \in Named(t) : e = Ends(t, p, q)
  OBVIOUS
<1> QED BY <1>1, EndsFitting

\* t is s without entry d.
Lost(s, t, d) ==
    /\ Sound(t, Held0, Cursors0) /\ SameKinds(s, t) /\ Keeps(s, t) /\ SameEntries(s, t)
    /\ \A x \in Inodes : Members(t.lists[x]) = Members(s.lists[x]) \ {d}
    /\ DOMAIN s.ents \ {d} \subseteq DOMAIN t.ents

\* The bearer of the new name goes, and nothing else does.
LEMMA ReplacedLost ==
    ASSUME RegInv, NEW e, EndsFit(e)
    PROVE  Lost(e.s, Replaced(e), e.dst) /\ (e.dst # NoEntry => e.dst[1] = e.nd)
<1> DEFINE s == e.s
           i == e.nd
           d == e.dst
           k == InodeOf(e, d)
           b == s.nodes[i].mnt = None /\ IsDir(s, k)
           u == [s EXCEPT !.nodes[k].deleted = b]
<1>1. TreeOK(s) /\ Sound(s, Held0, Cursors0) /\ NoneSelf(s)
  BY DEF EndsFit, Walked, Sound, Counted
<1>2. CASE d = NoEntry
  <2>1. Replaced(e) = s
    BY <1>2 DEF Replaced
  <2>2. \A x \in Inodes : d \notin Members(s.lists[x])
    <3> SUFFICES ASSUME NEW x \in Inodes, d \in Members(s.lists[x]) PROVE FALSE
      OBVIOUS
    <3>1. d # NoEntry
      BY <1>1, ListedOK
    <3> QED BY <1>2, <3>1
  <2>3. Lost(s, s, d)
    BY <1>1, <2>2 DEF Lost, SameKinds, Keeps, SameEntries
  <2> QED BY <1>2, <2>1, <2>3
<1>3. CASE d # NoEntry
  <2>1. Replaced(e) = Remove(u, i, d)
    BY <1>3 DEF Replaced
  <2>2. i \in Inodes /\ s.nodes[i].ref # 0 /\ d = Find(s, i, e.new) /\ e.new \notin Dots
    BY DEF EndsFit
  <2>3. d \in Members(s.lists[i]) /\ d[1] = i /\ k # i /\ k \in Inodes /\ s.nodes[k].ref # 0 /\ k = s.ents[d].inode
    <3> HIDE DEF s, i
    <3>1. Find(s, i, e.new) # NoEntry
      BY <1>3, <2>2
    <3>2. k = s.ents[d].inode
      BY DEF InodeOf, s
    <3> HIDE DEF k
    <3> QED BY <1>1, <2>2, <3>1, <3>2, NameOfOther
  <2>4. b \in BOOLEAN
    BY DEF IsDir
  <2> HIDE DEF s, i, d, k, b
  <2>5. Sound(u, Held0, Cursors0) /\ u.lists = s.lists /\ u.ents = s.ents /\ SameKinds(s, u) /\ Keeps(s, u)
    BY <1>1, <2>3, <2>4, ZeroInts, DeletedSound, SMTT(60)
  <2> HIDE DEF u
  <2>6. /\ Sound(Remove(u, i, d), Held0, Cursors0) /\ Fewer(u, Remove(u, i, d)) /\ Unlisted(u, Remove(u, i, d), d)
        /\ DOMAIN u.ents \ {d} \subseteq DOMAIN Remove(u, i, d).ents
    BY <2>2, <2>3, <2>5, ZeroInts, RemoveSound
  <2> DEFINE v == Remove(u, i, d)
  <2>7. v.nodes = u.nodes /\ SameEntries(s, v) /\ DOMAIN s.ents \ {d} \subseteq DOMAIN v.ents
    BY <2>5, <2>6 DEF Fewer, SameEntries
  <2>8. \A x \in Inodes : Members(v.lists[x]) = Members(s.lists[x]) \ {d}
    BY <2>5, <2>6 DEF Unlisted
  <2>9. Sound(v, Held0, Cursors0)
    BY <2>6
  <2> HIDE DEF v
  <2>10. SameKinds(s, v) /\ Keeps(s, v)
    BY <2>5, <2>7 DEF SameKinds, Keeps
  <2>11. Lost(s, v, d)
    BY <2>7, <2>8, <2>9, <2>10 DEF Lost
  <2> QED BY <2>1, <2>3, <2>11 DEF v, s, i, d
<1> QED BY <1>2, <1>3

\* The source of a RENAME outlives the bearer of the new name.
Sourced(e, r) ==
    LET j == InodeOf(e, e.src)
    IN  /\ e.src \in Members(r.lists[e.od]) /\ r.ents[e.src].inode = j /\ e.src \in DOMAIN r.ents
        /\ j \in Inodes /\ r.nodes[j].ref # 0 /\ j # e.od /\ j # Root /\ e.src[1] = e.od

\* It is not what is moved.
LEMMA SourceStays ==
    ASSUME RegInv, NEW e, EndsFit(e), e.src # NoEntry
    PROVE  Sourced(e, Replaced(e))
<1> DEFINE s == e.s
           r == Replaced(e)
           d == e.src
           j == InodeOf(e, d)
<1>1. TreeOK(s) /\ Sound(s, Held0, Cursors0) /\ NoneSelf(s)
  BY DEF EndsFit, Walked, Sound, Counted
<1>2. /\ d \in Members(s.lists[e.od]) /\ d[1] = e.od /\ s.ents[d].name = e.old /\ d \in DOMAIN s.ents
      /\ j # e.od /\ j \in Inodes /\ s.nodes[j].ref # 0 /\ j # Root
  <2>1. j = s.ents[d].inode
    BY DEF InodeOf
  <2> HIDE DEF s, j, d
  <2>2. e.od \in Inodes /\ s.nodes[e.od].ref # 0 /\ d = Find(s, e.od, e.old) /\ e.old \notin Dots /\ d # NoEntry
    BY DEF EndsFit, s, d
  <2> QED BY <1>1, <2>1, <2>2, NameOfOther
<1>3. d # e.dst
  <2>1. e.dst # NoEntry => e.dst[1] = e.nd /\ s.ents[e.dst].name = e.new
    <3>1. e.nd \in Inodes /\ e.dst = Find(s, e.nd, e.new)
      BY DEF EndsFit
    <3> HIDE DEF s
    <3> QED BY <1>1, <3>1, FindOK
  <2> QED BY <1>2, <2>1 DEF EndsFit
<1>4. Lost(s, r, e.dst) /\ e.od \in Inodes
  BY ReplacedLost DEF EndsFit
<1> HIDE DEF s, r, d, j
<1>5. d \in Members(r.lists[e.od]) /\ d \in DOMAIN r.ents
  BY <1>2, <1>3, <1>4 DEF Lost
<1>6. r.ents[d].inode = j
  BY <1>4, <1>5 DEF Lost, SameEntries, j, s, d, InodeOf
<1>7. r.nodes[j].ref # 0
  BY <1>2, <1>4 DEF Lost, Keeps
<1> QED BY <1>2, <1>5, <1>6, <1>7 DEF Sourced, r, d, j

\* A name is linked and the old one removed.
Carried(r, t, d) ==
    /\ Keeps(r, t) /\ \A c \in DOMAIN r.ents : c # d =>
                          c \in DOMAIN t.ents /\ t.ents[c].inode = r.ents[c].inode /\ t.ents[c].name = r.ents[c].name

\* A new name is linked and an old one of the same inode removed.
LEMMA LinkedRemoved ==
    ASSUME RegInv, NEW r, Sound(r, Held0, Cursors0), NEW od \in Inodes, NEW d \in Members(r.lists[od]),
           NEW j \in Inodes, r.ents[d].inode = j, r.nodes[j].ref # 0, j # od, j # Root,
           NEW nd \in Inodes, r.nodes[nd].ref # 0, Native => nd # j, NEW nm \in Names, FreeDirents(r) > 0
    PROVE  LET t == Remove(registry_linkdirent(r, nd, nm, j), od, d)
           IN  Sound(t, Held0, Cursors0) /\ Carried(r, t, d)
<1> DEFINE u == registry_linkdirent(r, nd, nm, j)
           t == Remove(u, od, d)
<1>1. TreeOK(r) /\ scope \in Scopes /\ nm \in Names \cup Dots
  BY DEF Sound, Counted, RegInv, HoldersOK
<1>2. Sound(u, Held0, Cursors0) /\ Linked(r, u, nd, nm, j) /\ Keeps(r, u)
  BY <1>1, ZeroInts, LinkInUse
<1> HIDE DEF u
<1>3. d \in DOMAIN r.ents
  BY <1>1, ListedOK
<1>4. d \in Members(u.lists[od]) /\ u.ents[d].inode = j
  BY <1>2, <1>3 DEF Linked
<1>5. /\ Sound(t, Held0, Cursors0) /\ Fewer(u, t) /\ DOMAIN u.ents \ {d} \subseteq DOMAIN t.ents
  BY <1>2, <1>4, ZeroInts, RemoveSound
<1> HIDE DEF t
<1>6. \A c \in DOMAIN r.ents : c # d =>
          c \in DOMAIN t.ents /\ t.ents[c].inode = r.ents[c].inode /\ t.ents[c].name = r.ents[c].name
  BY <1>2, <1>5 DEF Linked, Fewer, SameEntries
<1>7. Keeps(r, t)
  BY <1>2, <1>5 DEF Keeps, Fewer
<1>8. Sound(t, Held0, Cursors0) /\ Carried(r, t, d)
  BY <1>5, <1>6, <1>7 DEF Carried
<1> QED BY <1>8 DEF t, u

\* The same for the ends of a RENAME.
LEMMA LinkedRemovedEnds ==
    ASSUME RegInv, NEW e, EndsFit(e), e.src # NoEntry, NEW nd \in Inodes, e.s.nodes[nd].ref # 0, NEW nm \in Names,
           Native => nd # InodeOf(e, e.src), FreeDirents(Replaced(e)) > 0
    PROVE  LET t == Remove(registry_linkdirent(Replaced(e), nd, nm, InodeOf(e, e.src)), e.od, e.src)
           IN  Sound(t, Held0, Cursors0) /\ Carried(Replaced(e), t, e.src)
<1> DEFINE r == Replaced(e)
           j == InodeOf(e, e.src)
           d == e.src
           od == e.od
<1>1. Sourced(e, r) /\ Lost(e.s, r, e.dst)
  BY SourceStays, ReplacedLost
<1>2. /\ d \in Members(r.lists[od]) /\ r.ents[d].inode = j
      /\ j \in Inodes /\ r.nodes[j].ref # 0 /\ j # od /\ j # Root
  BY <1>1 DEF Sourced
<1>3. Sound(r, Held0, Cursors0) /\ r.nodes[nd].ref # 0 /\ od \in Inodes
  BY <1>1 DEF Lost, Keeps, EndsFit
<1>4. FreeDirents(r) > 0 /\ (Native => nd # j)
  OBVIOUS
<1> HIDE DEF r, j, d, od
<1>5. LET t == Remove(registry_linkdirent(r, nd, nm, j), od, d) IN Sound(t, Held0, Cursors0) /\ Carried(r, t, d)
  BY <1>2, <1>3, <1>4, LinkedRemoved
<1> QED BY <1>5 DEF r, j, d, od

\* ".." of a directory comes to stand for another parent, which it holds.
LEMMA DotDotMoves ==
    ASSUME NEW s, NEW H \in [Inodes -> Int], NEW C, Sound(s, H, C), NEW d \in DOMAIN s.ents, s.ents[d].name = "..",
           NEW n \in Inodes, s.nodes[n].ref # 0, n # s.ents[d].inode, d[1] # n, d[1] # s.ents[d].inode
    PROVE  Sound(inode_unref(inode_ref([s EXCEPT !.ents[d].inode = n], n), s.ents[d].inode), H, C)
<1> DEFINE a == s.ents[d].inode
           t == [s EXCEPT !.ents[d].inode = n]
           u == inode_ref(t, n)
           v == inode_unref(u, a)
           H1 == Plus(Plus(H, n, -1), a, 1)
<1>1. Counted(s, H, C) /\ TreeOK(s) /\ ".." \in Dots /\ -1 \in Int /\ 1 \in Int
  BY DEF Sound, Counted, Dots
<1>2. a \in Inodes
  BY <1>1, EntryTyped
<1>3. Counted(t, H1, C) /\ t.nodes = s.nodes /\ t.lists = s.lists /\ t.ents = [s.ents EXCEPT ![d].inode = n]
  BY <1>1, EntryMoves
<1>4. H1 \in [Inodes -> Int] /\ \A i \in Inodes : H1[i] = H[i] + (IF i = n THEN -1 ELSE 0) + (IF i = a THEN 1 ELSE 0)
  <2> DEFINE G == Plus(H, n, -1)
  <2>1. G \in [Inodes -> Int] /\ \A i \in Inodes : G[i] = H[i] + (IF i = n THEN -1 ELSE 0)
    BY <1>1, PlusInt
  <2> HIDE DEF G
  <2>2. Plus(G, a, 1) \in [Inodes -> Int] /\ \A i \in Inodes : Plus(G, a, 1)[i] = G[i] + (IF i = a THEN 1 ELSE 0)
    BY <1>1, <2>1, PlusInt
  <2> QED BY <2>1, <2>2 DEF G
<1> HIDE DEF t, H1
<1>5. /\ Counted(u, Plus(H1, n, 1), C) /\ u.lists = s.lists /\ u.ents = t.ents
      /\ u.nodes = [s.nodes EXCEPT ![n].ref = @ + 1]
  <2>1. t.nodes[n].ref # 0
    BY <1>3
  <2>2. Counted(u, Plus(H1, n, 1), C) /\ u.lists = t.lists /\ u.ents = t.ents /\ u.nodes = [t.nodes EXCEPT ![n].ref = @ + 1]
    <3>1. Counted(t, H1, C) /\ H1 \in [Inodes -> Int]
      BY <1>3, <1>4
    <3> QED BY <2>1, <3>1, InodeRef, ZenonT(60)
  <2> QED BY <1>3, <2>2
<1> HIDE DEF u
<1> DEFINE H2 == Plus(H1, n, 1)
<1>6. H2 \in [Inodes -> Int] /\ \A i \in Inodes : H2[i] = H1[i] + (IF i = n THEN 1 ELSE 0)
  BY <1>1, <1>4, PlusInt
<1> HIDE DEF H2
<1>7. Counted(v, Plus(H2, a, -1), C) /\ v.lists = s.lists /\ v.ents = t.ents /\ v.nodes = u.nodes
  <2>1. Counted(u, H2, C)
    BY <1>5 DEF H2
  <2>2. Counted(v, Plus(H2, a, -1), C) /\ v.lists = u.lists /\ v.ents = u.ents /\ v.nodes = u.nodes
    BY <1>2, <1>6, <2>1, InodeUnref
  <2> QED BY <1>5, <2>2
<1>8. Plus(H2, a, -1) = H
  <2>1. Plus(H2, a, -1) \in [Inodes -> Int] /\ \A i \in Inodes : Plus(H2, a, -1)[i] = H2[i] + (IF i = a THEN -1 ELSE 0)
    BY <1>1, <1>6, PlusInt
  <2>2. \A i \in Inodes : H[i] \in Int
    OBVIOUS
  <2>3. \A i \in Inodes : Plus(H2, a, -1)[i] = H[i]
    <3> HIDE DEF a
    <3> QED BY <1>4, <1>6, <2>1, <2>2
  <2> QED BY <2>1, <2>3
<1> HIDE DEF v
<1>9. \A i \in Inodes : /\ v.nodes[i].type = s.nodes[i].type /\ v.nodes[i].mnt = s.nodes[i].mnt
                        /\ v.nodes[i].inum = s.nodes[i].inum
                        /\ v.nodes[i].ref = s.nodes[i].ref + (IF i = n THEN 1 ELSE 0)
  <2>1. s.nodes \in [Inodes -> NodeType] /\ \A i \in Inodes : s.nodes[i] \in NodeType
    BY <1>1 DEF TreeOK, NodesOK
  <2> QED BY <1>5, <1>7, <2>1 DEF NodeType
<1>10. Quiet(s, v)
  <2>1. Keeps(s, v)
    <3>1. \A i \in Inodes : s.nodes[i].ref \in Nat
      BY <1>1, NodeTyped
    <3> QED BY <1>9, <3>1 DEF Keeps
  <2>2. Plain(s) => Plain(v)
    <3> SUFFICES ASSUME Plain(s), Native PROVE Dry(v)
      BY DEF Plain
    <3>1. Dry(s)
      BY DEF Plain
    <3>2. NoneSelf(v)
      <4> SUFFICES ASSUME NEW i \in Inodes, NEW c \in Members(v.lists[i]), v.ents[c].inode = i
                   PROVE  v.ents[c].name = "." \/ (v.ents[c].name = ".." /\ i = Root)
        BY DEF NoneSelf
      <4>1. c \in DOMAIN s.ents /\ c[1] = i /\ c \in Members(s.lists[i])
        BY <1>1, <1>7, ListedOK
      <4>2. CASE c = d
        <5>1. v.ents[d].inode = n
          BY <1>3, <1>7
        <5> QED BY <4>1, <4>2, <5>1
      <4>3. CASE c # d
        <5>1. v.ents[c] = s.ents[c]
          BY <1>3, <1>7, <4>1, <4>3
        <5> QED BY <3>1, <4>1, <5>1 DEF Dry, NoneSelf
      <4> QED BY <4>2, <4>3
    <3> QED BY <1>9, <3>1, <3>2 DEF Dry
  <2> QED BY <1>7, <2>1, <2>2 DEF Quiet
<1>11. Sound(v, H, C)
  BY <1>7, <1>8, <1>10, SoundStep
<1> QED BY <1>11 DEF v, u, t, a

\* Climbing starts at the directory itself (dir_has_ancestor).
LEMMA AncestorSelf ==
    ASSUME NEW s, NEW i
    PROVE  dir_has_ancestor(s, i, i)
<1> DEFINE Eq(g, n) == g = [k \in 0 .. n |-> IF k = 0 THEN i ELSE Up(s, g[k - 1])]
           Bad == {n \in 0 .. NInodes : ~\E g : Eq(g, n)}
<1>1. NInodes \in Nat
  BY SizesAssumption
<1>2. Bad = {}
  <2> SUFFICES ASSUME Bad # {} PROVE FALSE
    OBVIOUS
  <2>1. PICK n \in Bad : \A m \in Bad : n <= m
    <3>1. Bad \in SUBSET Nat
      BY <1>1
    <3> HIDE DEF Bad
    <3> QED BY <3>1, LeastNumber
  <2>2. CASE n = 0
    <3> DEFINE g == [k \in 0 .. 0 |-> i]
    <3>1. Eq(g, 0)
      OBVIOUS
    <3> QED BY <2>2, <3>1
  <2>3. CASE n # 0
    <3>1. n \in 1 .. NInodes /\ n - 1 \in 0 .. NInodes /\ n - 1 \notin Bad
      <4> HIDE DEF Eq
      <4>1. n \in 0 .. NInodes
        OBVIOUS
      <4>2. n \in 1 .. NInodes /\ n - 1 \in 0 .. NInodes
        BY <1>1, <2>3, <4>1
      <4> HIDE DEF Bad
      <4> QED BY <1>1, <2>1, <4>2
    <3>2. PICK g : Eq(g, n - 1)
      <4> HIDE DEF Eq
      <4> QED BY <3>1
    <3>5. \A k \in 0 .. n - 1 : g[k] = IF k = 0 THEN i ELSE Up(s, g[k - 1])
      BY <3>2
    <3> DEFINE h == [k \in 0 .. n |-> IF k = n THEN Up(s, g[n - 1]) ELSE g[k]]
    <3>3. \A k \in 0 .. n : h[k] = IF k = 0 THEN i ELSE Up(s, h[k - 1])
      <4> HIDE DEF Eq, Bad
      <4> SUFFICES ASSUME NEW k \in 0 .. n
                   PROVE  h[k] = IF k = 0 THEN i ELSE Up(s, h[k - 1])
        OBVIOUS
      <4>1. CASE k = n
        BY <1>1, <3>1, <4>1
      <4>2. CASE k # n
        <5>1. k \in 0 .. n - 1 /\ h[k] = g[k] /\ (k # 0 => h[k - 1] = g[k - 1])
          BY <1>1, <3>1, <4>2
        <5> HIDE DEF h
        <5> QED BY <3>5, <5>1
      <4> QED BY <4>1, <4>2
    <3>4. Eq(h, n)
      BY <3>3
    <3> QED BY <3>4
  <2> QED BY <2>2, <2>3
<1> DEFINE above[k \in 0 .. NInodes] == IF k = 0 THEN i ELSE Up(s, above[k - 1])
<1>3. above = [k \in 0 .. NInodes |-> IF k = 0 THEN i ELSE Up(s, above[k - 1])]
  <2>1. NInodes \in 0 .. NInodes
    BY <1>1
  <2>2. \E g : Eq(g, NInodes)
    <3> HIDE DEF Eq
    <3> QED BY <1>2, <2>1
  <2> QED BY <2>2
<1>4. dir_has_ancestor(s, i, i) <=> \E k \in 0 .. NInodes : above[k] = i
  BY DEF dir_has_ancestor
<1> HIDE DEF above
<1>5. 0 \in 0 .. NInodes
  BY <1>1
<1>6. above[0] = i
  BY <1>3, <1>5
<1> QED BY <1>4, <1>5, <1>6

\* registry_rename that runs out of memory.
LEMMA RenameFailsStep ==
    ASSUME RegInv, Ordinary, NEW t \in Tasks, RenameFails(t)
    PROVE  RegInv'
<1>1. PICK e \in {Ends(t, p, q) : p, q \in Named(t)} :
          CanMove(e) /\ Becomes(Replaced(e)) /\ UNCHANGED <<mounts, disk, held>>
  BY DEF RenameFails
<1>2. CanRename(e) /\ Calls(t)
  BY <1>1 DEF CanMove, RenameFails
<1>3. EndsFit(e)
  BY <1>2, EndsOfCall
<1>4. Sound(Replaced(e), Held0, Cursors0)
  BY <1>3, ReplacedLost DEF Lost
<1>5. DiskOK' /\ Becomes(Replaced(e))
  BY <1>1, DiskStays
<1> QED BY <1>1, <1>4, <1>5, StaysGood

\* What a RENAME in the native tree leaves.
LEMMA ReparentedSound ==
    ASSUME RegInv, NEW e, EndsFit(e), CanMove(e), FreeDirents(Replaced(e)) > 0
    PROVE  Sound(Reparented(e), Held0, Cursors0)
<1> DEFINE s == e.s
           r == Replaced(e)
           m == Moved(e)
           j == InodeOf(e, e.src)
           up == Find(s, j, "..")
           a == InodeOf(e, up)
           n == e.nd
           z == inode_unref(inode_ref([m EXCEPT !.ents[up].inode = n], n), a)
<1>1. e.src # NoEntry /\ (s.nodes[j].type = "dir" => ~dir_has_ancestor(s, n, j))
  BY DEF CanMove, IsDir
<1>2. /\ Walked(s) /\ TreeOK(s) /\ NoneSelf(s) /\ n \in Inodes /\ s.nodes[n].ref # 0 /\ s.nodes[n].type = "dir"
      /\ e.new \in Names /\ e.od \in Inodes
  BY DEF EndsFit, Walked, Sound, Counted
<1>3. Sourced(e, r) /\ Lost(s, r, e.dst) /\ (e.dst # NoEntry => e.dst[1] = n)
  BY <1>1, SourceStays, ReplacedLost
<1>4. j \in Inodes /\ j # e.od /\ j # Root /\ e.src[1] = e.od
  BY <1>3 DEF Sourced
<1>5. n # j
  <2>1. CASE s.nodes[j].type # "dir"
    BY <1>2, <2>1
  <2>2. CASE s.nodes[j].type = "dir"
    BY <1>1, <2>2, AncestorSelf
  <2> QED BY <2>1, <2>2
<1>6. Sound(m, Held0, Cursors0) /\ Carried(r, m, e.src)
  <2>1. m = Remove(registry_linkdirent(r, n, e.new, j), e.od, e.src)
    BY DEF Moved
  <2> HIDE DEF m
  <2> QED BY <1>1, <1>2, <1>5, <2>1, LinkedRemovedEnds
<1>7. CASE Reparented(e) = m
  BY <1>6, <1>7
<1>8. CASE Reparented(e) = z /\ up # NoEntry /\ a # n
  <2>1. /\ up \in Members(s.lists[j]) /\ up \in DOMAIN s.ents /\ s.ents[up].name = ".." /\ up[1] = j
    <3> HIDE DEF s, j
    <3> QED BY <1>2, <1>4, <1>8, FindOK
  <2>2. a = s.ents[up].inode /\ a # j
    <3>1. a = s.ents[up].inode
      BY DEF InodeOf
    <3> HIDE DEF s, a, j
    <3> QED BY <1>2, <1>4, <2>1, <3>1 DEF NoneSelf
  <2> HIDE DEF s, r, m, j, up, a, n
  <2>3. up # e.dst /\ up # e.src
    <3>1. up # NoEntry
      BY <1>8
    <3>2. CASE e.dst = NoEntry
      BY <1>4, <2>1, <3>1, <3>2
    <3>3. CASE e.dst # NoEntry
      BY <1>3, <1>4, <1>5, <2>1, <3>3
    <3> QED BY <3>2, <3>3
  <2>4. up \in DOMAIN r.ents /\ r.ents[up].inode = a /\ r.ents[up].name = ".."
    BY <1>3, <2>1, <2>2, <2>3 DEF Lost, SameEntries
  <2>5. up \in DOMAIN m.ents /\ m.ents[up].inode = a /\ m.ents[up].name = ".."
    BY <1>6, <2>3, <2>4 DEF Carried
  <2>6. m.nodes[n].ref # 0
    BY <1>2, <1>3, <1>6 DEF Carried, Lost, Keeps
  <2>7. Sound(inode_unref(inode_ref([m EXCEPT !.ents[up].inode = n], n), m.ents[up].inode), Held0, Cursors0)
    BY <1>2, <1>5, <1>6, <1>8, <2>1, <2>2, <2>5, <2>6, ZeroInts, DotDotMoves
  <2> QED BY <1>8, <2>5, <2>7
<1>9. Reparented(e) = m \/ (Reparented(e) = z /\ up # NoEntry /\ a # n)
  BY Zenon DEF Reparented
<1> QED BY <1>7, <1>8, <1>9

\* registry_rename in the native tree.
LEMMA RenameNativeStep ==
    ASSUME RegInv, Ordinary, NEW t \in Tasks, RenameNative(t)
    PROVE  RegInv'
<1>1. PICK e \in {Ends(t, p, q) : p, q \in Named(t)} :
          /\ CanMove(e) /\ FreeDirents(Replaced(e)) > 0
          /\ Becomes(Reparented(e)) /\ UNCHANGED <<mounts, disk, held>>
  BY DEF RenameNative
<1>2. CanRename(e) /\ Calls(t)
  BY <1>1 DEF CanMove, RenameNative
<1>3. EndsFit(e)
  BY <1>2, EndsOfCall
<1>4. Sound(Reparented(e), Held0, Cursors0)
  BY <1>1, <1>3, ReparentedSound
<1>5. DiskOK'
  BY <1>1, DiskStays
<1> QED BY <1>1, <1>4, <1>5, StaysGood

\* In a mount the cached names follow, as far as there is memory.
LEMMA EntryNamedSound ==
    ASSUME NEW s, NEW H \in [Inodes -> Int], NEW C, Sound(s, H, C), ~Native, NEW d \in DOMAIN s.ents,
           NEW nm \in Names \cup Dots, s.ents[d].inode # Root
    PROVE  Sound([s EXCEPT !.ents[d].name = nm], H, C)
<1> DEFINE t == [s EXCEPT !.ents[d].name = nm]
<1>1. Counted(s, H, C) /\ Parts(s)
  BY DEF Sound, Counted, TreeOK
<1>2. Counted(t, H, C)
  BY <1>1, EntryRenamed
<1>3. t.nodes = s.nodes /\ t.lists = s.lists
  BY <1>1 DEF Parts
<1> HIDE DEF t
<1>4. Quiet(s, t)
  BY <1>3 DEF Quiet, Keeps, Plain
<1>5. Sound(t, H, C)
  BY <1>2, <1>4, SoundStep
<1> QED BY <1>5 DEF t

\* What a RENAME in a mount leaves in the cache, wherever memory fails.
LEMMA RecachedSound ==
    ASSUME RegInv, NEW e, EndsFit(e), ~Native, NEW x \in {Recached(e)} \cup NotRecached(e)
    PROVE  Sound(x, Held0, Cursors0)
<1> DEFINE r == Replaced(e)
           d == e.src
           j == InodeOf(e, d)
           old == Remove(r, e.od, d)
           Both(nd, nm) == Remove(registry_linkdirent(r, nd, nm, j), e.od, d)
<1>1. /\ Sound(r, Held0, Cursors0) /\ e.od \in Inodes /\ e.nd \in Inodes /\ e.old \in Names /\ e.new \in Names
      /\ e.s.nodes[e.od].ref # 0 /\ e.s.nodes[e.nd].ref # 0
  BY ReplacedLost DEF Lost, EndsFit
<1>2. ASSUME d # NoEntry
      PROVE  /\ d \in Members(r.lists[e.od]) /\ r.ents[d].inode = j /\ d \in DOMAIN r.ents
             /\ j # e.od /\ j # Root
  BY <1>2, SourceStays DEF Sourced
<1>3. ASSUME d # NoEntry PROVE Sound(old, Held0, Cursors0)
  <2> HIDE DEF r, d, j
  <2> QED BY <1>1, <1>2, <1>3, ZeroInts, RemoveSound
<1>4. ASSUME d # NoEntry PROVE Sound([r EXCEPT !.ents[d].name = e.new], Held0, Cursors0)
  <2> HIDE DEF r, d, j
  <2> QED BY <1>1, <1>2, <1>4, ZeroInts, EntryNamedSound
<1>5. ASSUME d # NoEntry, FreeDirents(r) > 0, NEW nd \in {e.od, e.nd}, NEW nm \in {e.old, e.new}
      PROVE  Sound(Both(nd, nm), Held0, Cursors0)
  <2>1. nd \in Inodes /\ nm \in Names /\ e.s.nodes[nd].ref # 0
    BY <1>1
  <2> QED BY <1>5, <2>1, LinkedRemovedEnds
<1> HIDE DEF r, d, j
<1>6. CASE x = Recached(e)
  <2>0. FreeDirents(r) \in Int
    <3>1. Cardinality(DOMAIN r.ents) \in Nat
      BY <1>1, FS_CardinalityType DEF Sound, Counted, TreeOK, EntsOK
    <3>2. NDirents \in Nat /\ scope.taken \in Nat
      BY SizesAssumption, ScopesAssumption DEF RegInv, HoldersOK
    <3> QED BY <3>1, <3>2 DEF FreeDirents
  <2>1. CASE d = NoEntry
    <3>1. Recached(e) = r
      BY <2>1 DEF Recached, r, d
    <3> QED BY <1>1, <1>6, <3>1
  <2>2. CASE d # NoEntry /\ e.od = e.nd
    <3>1. Recached(e) = [r EXCEPT !.ents[d].name = e.new]
      BY <2>2 DEF Recached, r, d
    <3> QED BY <1>4, <1>6, <2>2, <3>1
  <2>3. CASE d # NoEntry /\ e.od # e.nd /\ FreeDirents(r) <= 0
    <3>1. ~(FreeDirents(r) > 0)
      BY <2>0, <2>3
    <3>2. Recached(e) = old
      BY <2>3, <3>1 DEF Recached, r, d
    <3> QED BY <1>3, <1>6, <2>3, <3>2
  <2>4. CASE d # NoEntry /\ e.od # e.nd /\ FreeDirents(r) > 0
    <3>1. ~(FreeDirents(r) <= 0)
      BY <2>0, <2>4
    <3>2. Recached(e) = Both(e.nd, e.new)
      BY <2>4, <3>1 DEF Recached, r, d, j
    <3> HIDE DEF Both
    <3> QED BY <1>5, <1>6, <2>4, <3>2
  <2> QED BY <2>0, <2>1, <2>2, <2>3, <2>4
<1>7. CASE x \in NotRecached(e)
  <2>1. CASE d = NoEntry \/ e.od = e.nd
    <3>1. NotRecached(e) = {r}
      BY <2>1 DEF NotRecached, r, d
    <3> QED BY <1>1, <1>7, <3>1
  <2>2. CASE d # NoEntry /\ e.od # e.nd
    <3>1. NotRecached(e) = {old} \cup {Both(e.od, e.old) : y \in IF FreeDirents(r) > 0 THEN {0} ELSE {}}
      BY <2>2 DEF NotRecached, r, d, j
    <3> HIDE DEF Both
    <3> QED BY <1>3, <1>5, <1>7, <2>2, <3>1
  <2> QED BY <2>1, <2>2
<1> QED BY <1>6, <1>7

\* ext2_rename
LEMMA DiskClimbs ==
    ASSUME NEW D, DiskFormed(D), NEW n \in Inums, NEW v \in Inums \cup {None}
    PROVE  DiskFormed([D EXCEPT ![n].up = v])
<1> DEFINE r == [D[n] EXCEPT !.up = v]
<1>1. D[n] \in DiskType
  BY DEF DiskFormed
<1>2. r \in DiskType /\ r.used = D[n].used /\ r.type = D[n].type
  BY <1>1 DEF DiskType
<1>3. [D EXCEPT ![n].up = v] = [D EXCEPT ![n] = r]
  OBVIOUS
<1>4. r.used => r.type # "none"
  BY <1>2 DEF DiskFormed
<1> HIDE DEF r
<1> QED BY <1>2, <1>3, <1>4, DiskPut

\* And on the disk.
LEMMA DiskMovedFormed ==
    ASSUME RegInv, NEW e, e.old \in Names, e.new \in Names, DiskFrom(e) \in Inums, DiskTo(e) \in Inums
    PROVE  DiskFormed(DiskReplaced(e)) /\ (Source(e) # None => DiskFormed(DiskMoved(e)))
<1> DEFINE D == DiskReplaced(e)
           a == DiskTo(e)
           b == DiskFrom(e)
           c == Source(e)
           v == IF disk[c].type = "dir" THEN a ELSE None
           D1 == [D EXCEPT ![a].names[e.new] = c]
           D2 == [D1 EXCEPT ![b].names[e.old] = None]
           D3 == [D2 EXCEPT ![c].up = v]
<1>1. DiskOK /\ DiskFormed(disk)
  BY DEF RegInv, DiskOK, DiskFormed
<1>2. DiskFormed(D)
  BY <1>1, DiskRemovedFormed DEF DiskReplaced
<1>3. ASSUME c # None PROVE DiskFormed(DiskMoved(e))
  <2>1. disk[b] \in DiskType
    BY <1>1 DEF DiskFormed
  <2>2. c \in Inums /\ a \in Inums /\ b \in Inums
    BY <1>3, <2>1 DEF DiskType, Source
  <2>3. DiskMoved(e) = D3
    BY DEF DiskMoved
  <2> HIDE DEF D, a, b, c
  <2>4. v \in Inums \cup {None} /\ None \in Inums \cup {None}
    BY <2>2
  <2>5. DiskFormed(D1)
    BY <1>2, <2>2, DiskNamed
  <2> HIDE DEF D1
  <2>6. DiskFormed(D2)
    BY <2>2, <2>4, <2>5, DiskNamed
  <2> HIDE DEF D2, v
  <2>7. DiskFormed(D3)
    BY <2>2, <2>4, <2>6, DiskClimbs
  <2> QED BY <2>3, <2>7
<1> QED BY <1>2, <1>3

\* RENAME in a mount keeps the invariant.
LEMMA RenameMountedStep ==
    ASSUME RegInv, Ordinary, NEW t \in Tasks, RenameMounted(t)
    PROVE  RegInv'
<1>1. PICK e \in {Ends(t, p, q) : p, q \in Named(t)} :
          /\ BothOnDisk(e) /\ (SameOnDisk(e) \/ CanMoveOnDisk(e))
          /\ \E r \in Renamed(e) : disk' = r[1] /\ Becomes(r[2])
          /\ UNCHANGED <<mounts, held>>
  BY DEF RenameMounted
<1>2. CanRename(e) /\ e.s.nodes[e.od].mnt # None /\ e.s.nodes[e.nd].mnt # None /\ Calls(t)
  BY <1>1 DEF BothOnDisk, CanRename, RenameMounted
<1>3. EndsFit(e)
  BY <1>2, EndsOfCall
<1>4. DiskFrom(e) \in Inums /\ DiskTo(e) \in Inums /\ ~Native /\ e.old \in Names /\ e.new \in Names
  <2>1. Walked(e.s) /\ e.od \in Inodes /\ e.nd \in Inodes /\ e.old \in Names /\ e.new \in Names
    BY <1>3 DEF EndsFit
  <2> QED BY <1>2, <2>1, MountedAt DEF DiskFrom, DiskTo
<1>5. DiskFormed(disk) /\ DiskFormed(DiskReplaced(e)) /\ (~SameOnDisk(e) => DiskFormed(DiskMoved(e)))
  <2>1. ~SameOnDisk(e) => Source(e) # None
    BY <1>1 DEF CanMoveOnDisk
  <2> QED BY <1>4, <2>1, DiskMovedFormed DEF RegInv, DiskOK, DiskFormed
<1>6. PICK r \in Renamed(e) : disk' = r[1] /\ Becomes(r[2])
  BY <1>1
<1>7. DiskFormed(r[1]) /\ (r[2] \in {Recached(e)} \cup NotRecached(e) \/ r[2] = e.s)
  BY <1>5 DEF Renamed
<1>8. DiskOK'
  BY <1>6, <1>7 DEF DiskOK, DiskFormed
<1>9. Sound(r[2], Held0, Cursors0)
  <2>1. Sound(e.s, Held0, Cursors0)
    BY <1>3 DEF EndsFit, Walked
  <2> QED BY <1>3, <1>4, <1>7, <2>1, RecachedSound
<1> QED BY <1>1, <1>6, <1>8, <1>9, StaysGood

\* A slot of the mount table changes.
MountMoved(H, G, old, new) ==
    \A i \in Inodes : G[i] = H[i] - One(i, old.mountpoint) - One(i, old.root) + One(i, new.mountpoint) + One(i, new.root)

\* A slot of the mount table changes.
LEMMA HeldMounted ==
    ASSUME NEW cw, NEW st, NEW fd, NEW mt, Typed(cw, st, fd, mt), NEW m \in Mounts, NEW x
    PROVE  MountMoved(HeldBy(cw, st, fd, mt), HeldBy(cw, st, fd, SetMount(mt, m, x)), mt[m], x)
<1> SUFFICES ASSUME NEW i \in Inodes
             PROVE  HeldBy(cw, st, fd, SetMount(mt, m, x))[i] =
                      HeldBy(cw, st, fd, mt)[i] - One(i, mt[m].mountpoint) - One(i, mt[m].root)
                      + One(i, x.mountpoint) + One(i, x.root)
  BY DEF MountMoved
<1>1. Cwds(cw, i) \in Nat /\ Cwds(st, i) \in Nat /\ Opens(fd, i) \in Nat
  BY SetsFinite, CountNat DEF Cwds, Opens
<1>2. /\ Covers(SetMount(mt, m, x), i) = Covers(mt, i) - One(i, mt[m].mountpoint) + One(i, x.mountpoint)
      /\ Roots(SetMount(mt, m, x), i) = Roots(mt, i) - One(i, mt[m].root) + One(i, x.root)
      /\ Covers(mt, i) \in Nat /\ Roots(mt, i) \in Nat
  BY MountsMoved, ZenonT(60) DEF Typed
<1>3. \A v : One(i, v) \in Nat
  BY DEF One
<1> DEFINE nt == SetMount(mt, m, x)
<1> HIDE DEF nt
<1>4. /\ HeldBy(cw, st, fd, nt)[i] = Cwds(cw, i) + Cwds(st, i) + Opens(fd, i) + Covers(nt, i) + Roots(nt, i) + (IF i = Root THEN 1 ELSE 0)
      /\ HeldBy(cw, st, fd, mt)[i] = Cwds(cw, i) + Cwds(st, i) + Opens(fd, i) + Covers(mt, i) + Roots(mt, i) + (IF i = Root THEN 1 ELSE 0)
  BY HeldParts
<1>5. HeldBy(cw, st, fd, nt)[i] =
        HeldBy(cw, st, fd, mt)[i] - One(i, mt[m].mountpoint) - One(i, mt[m].root) + One(i, x.mountpoint) + One(i, x.root)
  BY <1>1, <1>2, <1>3, <1>4 DEF nt
<1> QED BY <1>5 DEF nt

\* A mount holds two inodes, and one that goes releases two.
LEMMA TwoMore ==
    ASSUME NEW H \in [Inodes -> Int], NEW r \in Inodes, NEW i \in Inodes, NEW G, NEW old, NEW new,
           MountMoved(H, G, old, new)
    PROVE  /\ (old = NoMount /\ new = [mountpoint |-> i, root |-> r]) =>
                 SameHeld(Plus(Plus(H, r, 1), i, 1), G)
           /\ (new = NoMount /\ old.mountpoint = i /\ old.root = r) =>
                 SameHeld(Plus(Plus(H, r, -1), i, -1), G)
<1>1. None \notin Inodes /\ 1 \in Int /\ -1 \in Int
  BY RootInodes
<1>2. \A n \in Int : Plus(H, r, n) \in [Inodes -> Int]
                     /\ \A x \in Inodes : Plus(H, r, n)[x] = H[x] + (IF x = r THEN n ELSE 0)
  BY PlusInt
<1>3. ASSUME NEW n \in Int
      PROVE  \A x \in Inodes : Plus(Plus(H, r, n), i, n)[x] = H[x] + (IF x = r THEN n ELSE 0) + (IF x = i THEN n ELSE 0)
  <2> DEFINE K == Plus(H, r, n)
  <2>1. K \in [Inodes -> Int] /\ \A x \in Inodes : K[x] = H[x] + (IF x = r THEN n ELSE 0)
    BY <1>2
  <2> HIDE DEF K
  <2>2. \A x \in Inodes : Plus(K, i, n)[x] = K[x] + (IF x = i THEN n ELSE 0)
    BY <2>1, PlusInt
  <2> QED BY <2>1, <2>2 DEF K
<1>4. \A x \in Inodes : H[x] \in Int /\ One(x, None) = 0 /\ One(x, i) = (IF x = i THEN 1 ELSE 0)
                        /\ One(x, r) = (IF x = r THEN 1 ELSE 0)
  BY <1>1 DEF One
<1>5. ASSUME old = NoMount, new = [mountpoint |-> i, root |-> r]
      PROVE  SameHeld(Plus(Plus(H, r, 1), i, 1), G)
  <2>1. old.mountpoint = None /\ old.root = None /\ new.mountpoint = i /\ new.root = r
    BY <1>5 DEF NoMount
  <2>2. \A x \in Inodes : G[x] = H[x] - 0 - 0 + One(x, i) + One(x, r)
    BY <1>4, <2>1 DEF MountMoved
  <2>3. \A x \in Inodes : Plus(Plus(H, r, 1), i, 1)[x] = H[x] + (IF x = r THEN 1 ELSE 0) + (IF x = i THEN 1 ELSE 0)
    BY <1>1, <1>3
  <2> QED BY <1>4, <2>2, <2>3 DEF SameHeld
<1>6. ASSUME new = NoMount, old.mountpoint = i, old.root = r
      PROVE  SameHeld(Plus(Plus(H, r, -1), i, -1), G)
  <2>1. new.mountpoint = None /\ new.root = None
    BY <1>6 DEF NoMount
  <2>2. \A x \in Inodes : G[x] = H[x] - One(x, i) - One(x, r) + 0 + 0
    BY <1>4, <1>6, <2>1 DEF MountMoved
  <2>3. \A x \in Inodes : Plus(Plus(H, r, -1), i, -1)[x] = H[x] + (IF x = r THEN -1 ELSE 0) + (IF x = i THEN -1 ELSE 0)
    BY <1>1, <1>3
  <2> QED BY <1>4, <2>2, <2>3 DEF SameHeld
<1> QED BY <1>5, <1>6

\* The root of a file system gets an inode of its own, and the directory is held.
RootNode == [NoInode EXCEPT !.type = "dir", !.ref = 1, !.inum = RootIno]

\* The inode that mount_attach makes for the root of what it mounts.
LEMMA RootNodeIs ==
    RootNode = [type |-> "dir", ref |-> 1, deleted |-> FALSE, mnt |-> None, inum |-> RootIno]
<1> DEFINE z == NoInode
<1>1. RootNode = [[[z EXCEPT !.type = "dir"] EXCEPT !.ref = 1] EXCEPT !.inum = RootIno]
  BY DEF RootNode
<1>2. z = [type |-> "none", ref |-> 0, deleted |-> FALSE, mnt |-> None, inum |-> None]
  BY DEF NoInode
<1> HIDE DEF z
<1> QED BY <1>1, <1>2

\* It and the mountpoint are held by the mount.
LEMMA RootHeld ==
    ASSUME NEW s, Sound(s, Held0, Cursors0), ~Native, NEW r \in Inodes, r # Root, s.nodes[r].ref = 0,
           NEW i \in Inodes, s.nodes[i].ref # 0
    PROVE  LET t == inode_ref([s EXCEPT !.nodes[r] = RootNode], i)
           IN  /\ Sound(t, Plus(Plus(Held0, r, 1), i, 1), Cursors0)
               /\ \A x \in Inodes : s.nodes[x].ref # 0 => t.nodes[x].inum = s.nodes[x].inum
               /\ t.nodes[r].inum # None
<1> DEFINE u == [s EXCEPT !.nodes[r] = RootNode]
           t == inode_ref(u, i)
           H == Plus(Held0, r, 1)
<1>1. RootNode = [type |-> "dir", ref |-> 1, deleted |-> FALSE, mnt |-> None, inum |-> RootIno]
  BY RootNodeIs
<1>2. RootNode \in NodeType /\ RootNode.ref = 1 /\ RootNode.type = "dir" /\ RootNode.inum # None
  <2>1. RootIno \in Inums /\ RootIno # None
    BY DiskAssumption DEF None
  <2>2. RootNode.inum = RootIno /\ RootNode.ref = 1 /\ RootNode.type = "dir"
    BY <1>1
  <2> QED BY <1>1, <2>1, <2>2 DEF NodeType
<1> HIDE DEF RootNode
<1>3. Counted(s, Held0, Cursors0) /\ Parts(s) /\ s.nodes \in [Inodes -> NodeType]
  BY DEF Sound, Counted, TreeOK, NodesOK
<1>4. Counted(u, H, Cursors0)
  <2>1. Counted(u, Plus(Held0, r, RootNode.ref - s.nodes[r].ref), Cursors0)
    BY <1>2, <1>3, ZeroInts, NodeChange
  <2> QED BY <1>2, <2>1
<1>5. u.nodes = [s.nodes EXCEPT ![r] = RootNode] /\ u.lists = s.lists
  BY <1>3 DEF Parts
<1> HIDE DEF u
<1>6. i # r /\ u.nodes[i] = s.nodes[i]
  BY <1>3, <1>5
<1>7. H \in [Inodes -> Int]
  <2>1. 1 \in Int
    OBVIOUS
  <2> QED BY <2>1, ZeroInts, PlusInt
<1> HIDE DEF H
<1>8. Counted(t, Plus(H, i, 1), Cursors0) /\ t.lists = u.lists /\ t.nodes = [u.nodes EXCEPT ![i].ref = @ + 1]
  BY <1>4, <1>6, <1>7, InodeRef
<1> HIDE DEF t
<1>9. \A x \in Inodes : /\ s.nodes[x] \in NodeType
                        /\ t.nodes[x] = IF x = i THEN [s.nodes[i] EXCEPT !.ref = @ + 1]
                                        ELSE IF x = r THEN RootNode ELSE s.nodes[x]
  BY <1>3, <1>5, <1>6, <1>8
<1>10. \A x \in Inodes : s.nodes[x].ref # 0 =>
           /\ t.nodes[x].inum = s.nodes[x].inum /\ t.nodes[x].type = s.nodes[x].type /\ t.nodes[x].ref # 0
  <2> SUFFICES ASSUME NEW x \in Inodes, s.nodes[x].ref # 0
               PROVE  t.nodes[x].inum = s.nodes[x].inum /\ t.nodes[x].type = s.nodes[x].type /\ t.nodes[x].ref # 0
    OBVIOUS
  <2>1. s.nodes[x] \in NodeType /\ s.nodes[i] \in NodeType
    BY <1>9
  <2>2. CASE x = i
    <3>1. t.nodes[x] = [s.nodes[i] EXCEPT !.ref = @ + 1]
      BY <1>9, <2>2
    <3> QED BY <2>1, <2>2, <3>1 DEF NodeType
  <2>3. CASE x # i
    BY <1>9, <2>3
  <2> QED BY <2>2, <2>3
<1>11. t.nodes[r] = RootNode
  BY <1>6, <1>9
<1>12. Quiet(s, t)
  BY <1>5, <1>8, <1>10 DEF Quiet, Keeps, Plain
<1>13. Sound(t, Plus(H, i, 1), Cursors0)
  BY <1>8, <1>12, SoundStep
<1> QED BY <1>2, <1>10, <1>11, <1>13 DEF t, u, H

\* MOUNT with its changes named.
LEMMA MountIs ==
    ASSUME NEW t, Mount(t)
    PROVE  \E p \in scope.mountPaths :
             LET s == walk(Now, t, TRUE, p, TRUE)
                 i == s.at
                 r == Least(FreeInodes(s))
             IN  /\ Calls(t) /\ FoundDir(s) /\ FreeMounts # {} /\ FreeInodes(s) # {}
                 /\ mounts' = SetMount(mounts, Least(FreeMounts), [mountpoint |-> i, root |-> r])
                 /\ Becomes(inode_ref([s EXCEPT !.nodes[r] = RootNode], i))
                 /\ UNCHANGED <<disk, held>>
  BY Zenon DEF Mount, SetMount, RootNode

\* MOUNT keeps the invariant.
LEMMA MountStep ==
    ASSUME RegInv, Ordinary, NEW t \in Tasks, Mount(t)
    PROVE  RegInv'
<1> DEFINE S(p) == walk(Now, t, TRUE, p, TRUE)
           R(s) == Least(FreeInodes(s))
<1>1. PICK p \in scope.mountPaths :
          /\ Calls(t) /\ FoundDir(S(p)) /\ FreeMounts # {} /\ FreeInodes(S(p)) # {}
          /\ mounts' = SetMount(mounts, Least(FreeMounts), [mountpoint |-> S(p).at, root |-> R(S(p))])
          /\ Becomes(inode_ref([S(p) EXCEPT !.nodes[R(S(p))] = RootNode], S(p).at))
          /\ UNCHANGED <<disk, held>>
  BY MountIs
<1> DEFINE s == S(p)
           i == s.at
           r == R(s)
           m == Least(FreeMounts)
           new == [mountpoint |-> i, root |-> r]
           u == inode_ref([s EXCEPT !.nodes[r] = RootNode], i)
           G == Plus(Plus(Held0, r, 1), i, 1)
<1>2. cwd[t] # None /\ due = <<>> /\ ~Native /\ p \in Seq(Names \cup Dots)
  BY <1>1, CallerIn, MountPathOK DEF Native, RegInv, HoldersOK
<1>3. Walked(s)
  <2>1. Walked(Now)
    BY <1>2, NowWalked
  <2> QED BY <1>2, <2>1, WalkWalked
<1>4. Found(s) /\ FreeInodes(s) # {} /\ mounts' = SetMount(mounts, m, new) /\ Becomes(u)
  BY <1>1 DEF FoundDir
<1>5. m \in Mounts /\ mounts[m] = NoMount
  <2>1. FreeMounts \in SUBSET Nat
    BY DEF FreeMounts, Mounts
  <2>2. Least(FreeMounts) \in FreeMounts
    BY <1>1, <2>1, LeastIs
  <2> QED BY <2>2 DEF FreeMounts
<1> HIDE DEF s, m
<1>6. i \in Inodes /\ s.nodes[i].ref # 0 /\ Sound(s, Held0, Cursors0) /\ TreeOK(s)
  BY <1>3, <1>4, DirFound
<1>7. r \in Inodes /\ r # Root /\ s.nodes[r].ref = 0
  BY <1>4, <1>6, FreeInode
<1> HIDE DEF i, r
<1>8. /\ Sound(u, G, Cursors0) /\ u.nodes[r].inum # None
      /\ \A x \in Inodes : s.nodes[x].ref # 0 => u.nodes[x].inum = s.nodes[x].inum
  BY <1>2, <1>6, <1>7, RootHeld
<1> HIDE DEF u
<1>9. inode' = u.nodes /\ scope' = scope
  BY <1>4 DEF Becomes
<1>10. new \in MountType /\ new.mountpoint = i /\ new.root = r
  BY <1>6, <1>7 DEF MountType, InodeOrNone
<1> HIDE DEF new
<1>11. mounts \in [Mounts -> MountType] /\ mounts' = [mounts EXCEPT ![m] = new]
  BY <1>4 DEF RegInv, HoldersOK, SetMount
<1>12. HoldersOK'
  <2>1. mounts' \in [Mounts -> MountType]
    BY <1>10, <1>11
  <2> QED BY <1>1, <1>9, <2>1 DEF RegInv, HoldersOK, held
<1>13. DiskOK'
  BY <1>1, DiskStays
<1>14. \A k \in Mounts : k # m => mounts'[k] = mounts[k]
  BY <1>11
<1>15. mounts'[m] = new
  BY <1>5, <1>11
<1>16. ASSUME NEW k \in Mounts, k # m, mounts[k].root # None
       PROVE  mounts[k].root # r /\ u.nodes[mounts[k].root].inum # None
  <2>1. mounts[k].root \in Inodes /\ s.nodes[mounts[k].root].ref # 0 /\ s.nodes[mounts[k].root].inum # None
    BY <1>6, <1>16, RootOfMount
  <2> QED BY <1>7, <1>8, <2>1
<1>17. MountsOK'
  <2>1. \A k \in Mounts : mounts'[k].root = None <=> mounts'[k].mountpoint = None
    BY <1>6, <1>7, <1>10, <1>14, <1>15, RootInodes DEF RegInv, MountsOK
  <2>2. \A k \in Mounts : mounts'[k].root # None => u.nodes[mounts'[k].root].inum # None
    BY <1>8, <1>10, <1>14, <1>15, <1>16
  <2>3. \A k, l \in Mounts : mounts'[k].root = mounts'[l].root /\ mounts'[k].root # None => k = l
    BY <1>10, <1>14, <1>15, <1>16 DEF RegInv, MountsOK
  <2> QED BY <1>9, <2>1, <2>2, <2>3 DEF MountsOK
<1>18. MountMoved(Held0, HeldBy(cwd', stream', fds', mounts'), NoMount, new)
  <2>1. cwd' = cwd /\ stream' = stream /\ fds' = fds
    BY <1>1 DEF held
  <2>2. MountMoved(Held0, HeldBy(cwd, stream, fds, SetMount(mounts, m, new)), mounts[m], new)
    BY <1>5, HolderTypes, HeldMounted DEF Held0
  <2> QED BY <1>4, <1>5, <2>1, <2>2
<1>19. SameHeld(G, HeldBy(cwd', stream', fds', mounts'))
  BY <1>6, <1>7, <1>18, ZeroInts, TwoMore DEF new
<1>20. SameCursors(Cursors0, CursorsOf(fds'))
  BY <1>1 DEF SameCursors, Cursors0, held
<1>21. G \in [Inodes -> Int]
  <2>1. 1 \in Int /\ Plus(Held0, r, 1) \in [Inodes -> Int]
    BY ZeroInts, PlusInt
  <2> QED BY <2>1, PlusInt
<1> HIDE DEF G
<1> QED BY <1>4, <1>8, <1>12, <1>13, <1>17, <1>19, <1>20, <1>21, EndsGood

\* The mark of a mount goes, and the number on the volume.
Cleared(N, M, j) ==
    /\ M \in [Inodes -> NodeType]
    /\ \A x \in Inodes : /\ M[x].ref = N[x].ref /\ M[x].type = N[x].type
                         /\ x # j => M[x] = N[x]

\* mount_detach clears a mark or a number.
LEMMA MarkCleared ==
    ASSUME NEW N \in [Inodes -> NodeType], NEW j \in Inodes
    PROVE  /\ Cleared(N, [N EXCEPT ![j].mnt = None], j)
           /\ \A x \in Inodes : [N EXCEPT ![j].mnt = None][x].inum = N[x].inum
           /\ Cleared(N, [N EXCEPT ![j].inum = None], j)
<1> DEFINE a == [N[j] EXCEPT !.mnt = None]
           b == [N[j] EXCEPT !.inum = None]
<1>1. N[j] \in NodeType
  OBVIOUS
<1>2. /\ a \in NodeType /\ a.ref = N[j].ref /\ a.type = N[j].type /\ a.inum = N[j].inum
      /\ b \in NodeType /\ b.ref = N[j].ref /\ b.type = N[j].type
  BY <1>1 DEF NodeType
<1>3. [N EXCEPT ![j].mnt = None] = [N EXCEPT ![j] = a] /\ [N EXCEPT ![j].inum = None] = [N EXCEPT ![j] = b]
  OBVIOUS
<1> HIDE DEF a, b
<1> QED BY <1>2, <1>3 DEF Cleared

Uncovered(s, r, i) == [s EXCEPT !.nodes[r].mnt = None, !.nodes[r].inum = None, !.nodes[i].mnt = None]

\* None of these is in a count.
LEMMA UncoveredCounted ==
    ASSUME NEW s, NEW H \in [Inodes -> Int], NEW C, Counted(s, H, C), NEW r \in Inodes, NEW i \in Inodes,
           s.nodes[r].ref # 0, s.nodes[i].ref # 0
    PROVE  /\ Counted(Uncovered(s, r, i), H, C) /\ Uncovered(s, r, i).lists = s.lists
           /\ \A x \in Inodes : /\ Uncovered(s, r, i).nodes[x].ref = s.nodes[x].ref
                                /\ x # r => Uncovered(s, r, i).nodes[x].inum = s.nodes[x].inum
<1> DEFINE out == Uncovered(s, r, i)
           N == s.nodes
           N1 == [N EXCEPT ![r].mnt = None]
           N2 == [N1 EXCEPT ![r].inum = None]
           N3 == [N2 EXCEPT ![i].mnt = None]
           t == [s EXCEPT !.nodes = N3]
<1>1. Parts(s) /\ NodesOK(s) /\ N \in [Inodes -> NodeType]
  BY DEF Counted, TreeOK, NodesOK
<1>2. out = t
  BY <1>1 DEF Parts, Uncovered
<1>3. Cleared(N, N1, r)
  BY <1>1, MarkCleared
<1> HIDE DEF N, N1
<1>4. Cleared(N1, N2, r)
  BY <1>3, MarkCleared, ZenonT(60) DEF Cleared
<1> HIDE DEF N2
<1>5. Cleared(N2, N3, i) /\ \A x \in Inodes : N3[x].inum = N2[x].inum
  BY <1>4, MarkCleared, ZenonT(60) DEF Cleared
<1> HIDE DEF N3
<1>6. Parts(t) /\ t.nodes = N3 /\ t.lists = s.lists /\ t.ents = s.ents /\ t.due = s.due /\ t.at = s.at
  BY <1>1, SetNodes
<1> HIDE DEF t
<1>7. \A x \in Inodes : /\ N3[x] \in NodeType /\ N3[x].ref = N[x].ref /\ N3[x].type = N[x].type
                        /\ x # r => N3[x].inum = N[x].inum
                        /\ x # r /\ x # i => N3[x] = N[x]
  BY <1>3, <1>4, <1>5 DEF Cleared
<1>8. NodesOK(t)
  <2>1. N3 \in [Inodes -> NodeType]
    BY <1>5 DEF Cleared
  <2>2. ASSUME NEW x \in Inodes, N3[x].ref = 0
        PROVE  N3[x] = NoInode
    <3>1. N[x].ref = 0 /\ x # r /\ x # i
      BY <1>7, <2>2 DEF N
    <3> QED BY <1>1, <1>7, <3>1 DEF NodesOK, N
  <2>3. \A x \in Inodes : N3[x].ref # 0 => N3[x].type # "none"
    BY <1>1, <1>7 DEF NodesOK, N
  <2>4. N3[Root].type = "dir"
    BY <1>1, <1>7, RootInodes DEF NodesOK, N
  <2> QED BY <1>6, <2>1, <2>2, <2>3, <2>4 DEF NodesOK
<1>9. \A x \in Inodes : t.nodes[x].ref = s.nodes[x].ref + (H[x] - H[x])
  <2>1. \A x \in Inodes : H[x] \in Int /\ s.nodes[x].ref \in Nat
    BY NodeTyped DEF Counted
  <2> QED BY <1>6, <1>7, <2>1 DEF N
<1>10. Counted(t, H, C)
  <2>1. t.at \in InodeOrNone
    BY <1>6 DEF Counted, TreeOK
  <2> QED BY <1>6, <1>8, <1>9, <2>1, NodesChange
<1>11. /\ Counted(out, H, C) /\ out.lists = s.lists
       /\ \A x \in Inodes : /\ out.nodes[x].ref = s.nodes[x].ref
                            /\ x # r => out.nodes[x].inum = s.nodes[x].inum
  BY <1>2, <1>6, <1>7, <1>10 DEF N
<1> QED BY <1>11 DEF out

\* UNMOUNT with its changes named.
LEMMA UnmountIs ==
    ASSUME NEW t, Unmount(t)
    PROVE  \E p \in scope.mountPaths :
             LET s == IF p = <<>> THEN Now ELSE walk(Now, t, TRUE, SubSeq(p, 1, Len(p) - 1), TRUE)
                 i == Covered(s, p)
                 m == mount_find(i)
                 r == mounts[m].root
             IN  /\ Calls(t) /\ i # None /\ m # None
                 /\ mounts' = SetMount(mounts, m, NoMount)
                 /\ Becomes(inode_unref(inode_unref(Uncovered(s, r, i), r), i))
                 /\ UNCHANGED <<disk, held>>
  BY ZenonT(60) DEF Unmount, SetMount, Uncovered

\* UNMOUNT keeps the invariant.
LEMMA UnmountStep ==
    ASSUME RegInv, Ordinary, NEW t \in Tasks, Unmount(t)
    PROVE  RegInv'
<1> DEFINE S(p) == IF p = <<>> THEN Now ELSE walk(Now, t, TRUE, SubSeq(p, 1, Len(p) - 1), TRUE)
           I(p) == Covered(S(p), p)
           M(p) == mount_find(I(p))
           R(p) == mounts[M(p)].root
<1>1. PICK p \in scope.mountPaths :
          /\ Calls(t) /\ I(p) # None /\ M(p) # None
          /\ mounts' = SetMount(mounts, M(p), NoMount)
          /\ Becomes(inode_unref(inode_unref(Uncovered(S(p), R(p), I(p)), R(p)), I(p)))
          /\ UNCHANGED <<disk, held>>
  BY UnmountIs
<1> DEFINE s == S(p)
           i == I(p)
           m == M(p)
           r == R(p)
           out == Uncovered(s, r, i)
           u == inode_unref(out, r)
           v == inode_unref(u, i)
           K == Plus(Held0, r, -1)
           G == Plus(K, i, -1)
<1>2. cwd[t] # None /\ due = <<>> /\ ~Native /\ (p # <<>> => SubSeq(p, 1, Len(p) - 1) \in Seq(Names \cup Dots))
  BY <1>1, CallerIn, MountPathOK DEF Native, RegInv, HoldersOK
<1>3. Walked(s)
  <2>1. Walked(Now)
    BY <1>2, NowWalked
  <2> QED BY <1>2, <2>1, WalkWalked
<1>4. i # None /\ m # None /\ mounts' = SetMount(mounts, m, NoMount) /\ Becomes(v)
  BY <1>1
<1> HIDE DEF s
<1>5. m \in Mounts /\ mounts[m].mountpoint = i /\ mounts[m].root = r
  <2>1. m = mount_find(i) /\ r = mounts[m].root
    OBVIOUS
  <2> HIDE DEF i, m, r
  <2> QED BY <1>4, <2>1, MountFound
<1> HIDE DEF m, i, r
<1>6. mounts \in [Mounts -> MountType] /\ mounts[m].root # None /\ Sound(s, Held0, Cursors0)
  BY <1>3, <1>4, <1>5 DEF RegInv, HoldersOK, MountsOK, Walked
<1>7. r \in Inodes /\ i \in Inodes /\ s.nodes[r].ref # 0 /\ s.nodes[i].ref # 0
  BY <1>5, <1>6, RootOfMount
<1>8. /\ Counted(out, Held0, Cursors0) /\ out.lists = s.lists
      /\ \A x \in Inodes : out.nodes[x].ref = s.nodes[x].ref /\ (x # r => out.nodes[x].inum = s.nodes[x].inum)
  <2>1. Counted(s, Held0, Cursors0)
    BY <1>6 DEF Sound
  <2> QED BY <1>7, <2>1, ZeroInts, UncoveredCounted
<1> HIDE DEF out
<1>9. K \in [Inodes -> Int] /\ G \in [Inodes -> Int]
  <2>1. -1 \in Int /\ K \in [Inodes -> Int]
    BY ZeroInts, PlusInt
  <2> HIDE DEF K
  <2> QED BY <2>1, PlusInt
<1>10. Counted(u, K, Cursors0) /\ u.lists = s.lists /\ u.nodes = out.nodes
  BY <1>7, <1>8, ZeroInts, InodeUnref
<1> HIDE DEF u, K
<1>11. Counted(v, G, Cursors0) /\ v.lists = s.lists /\ v.nodes = out.nodes
  BY <1>7, <1>9, <1>10, InodeUnref
<1> HIDE DEF v, G
<1>12. Bare(v) /\ Plain(v)
  BY <1>2, <1>6, <1>8, <1>11 DEF Sound, Bare, Plain
<1>13. inode' = v.nodes /\ scope' = scope
  BY <1>4 DEF Becomes
<1>14. mounts' = [mounts EXCEPT ![m] = NoMount]
  BY <1>4 DEF SetMount
<1>15. HoldersOK'
  <2>1. NoMount \in MountType
    BY DEF NoMount, MountType, InodeOrNone
  <2>2. mounts' \in [Mounts -> MountType]
    BY <1>6, <1>14, <2>1
  <2> QED BY <1>1, <1>13, <2>2 DEF RegInv, HoldersOK, held
<1>16. DiskOK'
  BY <1>1, DiskStays
<1>17. /\ \A k \in Mounts : k # m => mounts'[k] = mounts[k]
       /\ mounts'[m].root = None /\ mounts'[m].mountpoint = None
  BY <1>5, <1>6, <1>14 DEF NoMount
<1>18. ASSUME NEW k \in Mounts, k # m, mounts[k].root # None
       PROVE  v.nodes[mounts[k].root].inum # None
  <2>1. mounts[k].root \in Inodes /\ s.nodes[mounts[k].root].inum # None
    BY <1>6, <1>18, RootOfMount
  <2>2. mounts[k].root # r
    BY <1>5, <1>6, <1>18 DEF RegInv, MountsOK
  <2> QED BY <1>8, <1>11, <2>1, <2>2
<1>19. MountsOK'
  <2>1. \A k \in Mounts : mounts'[k].root = None <=> mounts'[k].mountpoint = None
    BY <1>17 DEF RegInv, MountsOK
  <2>2. \A k \in Mounts : mounts'[k].root # None => v.nodes[mounts'[k].root].inum # None
    BY <1>17, <1>18
  <2>3. \A k, l \in Mounts : mounts'[k].root = mounts'[l].root /\ mounts'[k].root # None => k = l
    BY <1>17 DEF RegInv, MountsOK
  <2> QED BY <1>13, <2>1, <2>2, <2>3 DEF MountsOK
<1>20. SameHeld(G, HeldBy(cwd', stream', fds', mounts'))
  <2>1. cwd' = cwd /\ stream' = stream /\ fds' = fds
    BY <1>1 DEF held
  <2>2. MountMoved(Held0, HeldBy(cwd, stream, fds, SetMount(mounts, m, NoMount)), mounts[m], NoMount)
    BY <1>5, HolderTypes, HeldMounted DEF Held0
  <2>3. MountMoved(Held0, HeldBy(cwd', stream', fds', mounts'), mounts[m], NoMount)
    BY <1>4, <2>1, <2>2
  <2> QED BY <1>5, <1>7, <2>3, ZeroInts, TwoMore DEF G, K
<1>21. SameCursors(Cursors0, CursorsOf(fds'))
  BY <1>1 DEF SameCursors, Cursors0, held
<1> QED BY <1>4, <1>9, <1>11, <1>12, <1>15, <1>16, <1>19, <1>20, <1>21, EndsCounted

-----------------------------------------------------------------------------
(* Every step keeps the invariant.                                         *)

\* And so does a step of something else.
LEMMA StutterStep ==
    ASSUME RegInv, UNCHANGED vars
    PROVE  RegInv'
<1>1. HoldersOK' /\ MountsOK' /\ DiskOK'
  BY DEF RegInv, HoldersOK, MountsOK, DiskOK, vars
<1>2. Here' = Here /\ cwd' = cwd /\ stream' = stream /\ fds' = fds /\ mounts' = mounts
  BY DEF Here, vars
<1>3. /\ Counted(Here', HeldBy(cwd', stream', fds', mounts'), CursorsOf(fds'))
      /\ Bare(Here')
  BY <1>2 DEF RegInv
<1>4. Plain(Here)'
  <2> DEFINE h == Here'
  <2>1. Plain(h)
    BY <1>2 DEF RegInv
  <2>2. Plain(Here)' = Plain(h)
    BY DEF Plain, Dry, NoneSelf, Native
  <2> QED BY <2>1, <2>2
<1> QED BY <1>1, <1>3, <1>4 DEF RegInv

\* Every step of every call keeps the invariant.
LEMMA RegInvStep ==
    ASSUME RegInv, Ordinary, [Next]_vars
    PROVE  RegInv'
<1>1. CASE UNCHANGED vars
  BY <1>1, StutterStep
<1>2. CASE Drop
  BY <1>2, DropStep
<1>3. ASSUME NEW t \in Tasks, Handles(t)
      PROVE  RegInv'
  BY <1>3, StatStep, OpenStep, CloseStep, ReaddirStep, ChdirStep DEF Handles
<1>4. ASSUME NEW t \in Tasks, Life(t)
      PROVE  RegInv'
  BY <1>4, ProcreateStep, TeardownStep DEF Life
<1>5. ASSUME NEW t \in Tasks, Change(t)
      PROVE  RegInv'
  <2>1. CASE MkdirNative(t) \/ CreateMounted(t)
    BY <2>1, MkdirNativeStep, CreateMountedStep
  <2>2. CASE UnlinkNative(t) \/ UnlinkMounted(t) \/ UnlinkNotFound(t)
    BY <2>2, UnlinkNativeStep, UnlinkMountedStep
  <2>3. CASE LinkNative(t) \/ LinkMounted(t)
    BY <2>3, LinkNativeStep, LinkMountedStep
  <2>4. CASE RenameNative(t) \/ RenameFails(t) \/ RenameMounted(t)
    BY <2>4, RenameNativeStep, RenameFailsStep, RenameMountedStep
  <2>5. CASE Mount(t) \/ Unmount(t)
    BY <2>5, MountStep, UnmountStep
  <2> QED BY <1>5, <2>1, <2>2, <2>3, <2>4, <2>5 DEF Change
<1> QED BY <1>1, <1>2, <1>3, <1>4, <1>5 DEF Next

\* In the native tree alone the two hypotheses hold of themselves.
LEMMA NativeIsOrdinary ==
    ASSUME RegInv, Native
    PROVE  Ordinary
<1>1. Dry(Here) /\ Here.nodes = inode /\ Here.lists = kids /\ Here.ents = dirent
  BY DEF RegInv, Plain, Here
<1>2. NoneInItself
  BY <1>1 DEF Dry, NoneSelf, NoneInItself
<1>3. VolumeClosed
  BY <1>1 DEF Dry, VolumeClosed
<1> QED BY <1>2, <1>3 DEF Ordinary

-----------------------------------------------------------------------------
(* What the invariant says of the counts.                                  *)

\* The parts of the invariant, of the variables.
LEMMA HereIs ==
    ASSUME RegInv
    PROVE  /\ Here.nodes = inode /\ Here.lists = kids /\ Here.ents = dirent /\ Here.due = due
           /\ TreeOK(Here) /\ NodesCounted(Here, Held0) /\ EntsCounted(Here, Cursors0)
  BY DEF RegInv, Here, Counted, Held0, Cursors0

\* It implies type correctness.
LEMMA TypesOK ==
    ASSUME RegInv
    PROVE  TypeOK
<1>1. /\ Here.nodes = inode /\ Here.lists = kids /\ Here.ents = dirent /\ Here.due = due
      /\ NodesOK(Here) /\ EntsOK(Here) /\ ListsOK(Here) /\ Here.due \in Seq(Inodes)
  BY HereIs DEF TreeOK
<1>2. inode \in [Inodes -> NodeType]
  BY <1>1 DEF NodesOK
<1>3. \A i \in Inodes : inode[i].ref = 0 <=> inode[i] = NoInode
  BY <1>1 DEF NodesOK, NoInode
<1>4. \A i \in Inodes : \A k \in DOMAIN kids[i] : kids[i][k] \in DOMAIN dirent
  BY <1>1 DEF ListsOK
<1>5. /\ DOMAIN dirent \subseteq Dirents /\ Cardinality(DOMAIN dirent) <= NDirents
      /\ dirent \in [DOMAIN dirent -> EntryType]
  BY <1>1 DEF EntsOK
<1>6. /\ cwd \in [Tasks -> InodeOrNone] /\ stream \in [Tasks -> InodeOrNone] /\ alive \subseteq Tasks
      /\ fds \in [Tasks -> [Slots -> Files]] /\ mounts \in [Mounts -> MountType] /\ scope \in Scopes
      /\ disk \in [Inums -> DiskType]
  BY DEF RegInv, HoldersOK, DiskOK
<1>7. fds \in [Tasks -> [Slots -> [inode : InodeOrNone, cursor : DOMAIN dirent \cup {NoEntry}]]]
  <2> DEFINE F == [inode : InodeOrNone, cursor : DOMAIN dirent \cup {NoEntry}]
  <2>1. ASSUME NEW t \in Tasks, NEW f \in Slots
        PROVE  fds[t][f] \in F
    <3>1. fds[t][f] \in Files
      BY <1>6
    <3>2. CASE fds[t][f].cursor = NoEntry
      BY <3>1, <3>2 DEF Files
    <3>3. CASE fds[t][f].cursor # NoEntry
      <4>1. fds[t][f].cursor \in Dirents
        BY <3>1, <3>3 DEF Files
      <4>2. Cursors0[fds[t][f].cursor] >= 1
        BY <4>1, CursorSome DEF Cursors0
      <4>3. fds[t][f].cursor \in DOMAIN dirent
        BY <1>1, <4>1, <4>2, HereSound, CursorThere
      <4> QED BY <3>1, <4>3 DEF Files
    <3> QED BY <3>2, <3>3
  <2> HIDE DEF F
  <2>2. fds \in [Tasks -> [Slots -> F]]
    BY <1>6, <2>1
  <2> QED BY <2>2 DEF F
<1>8. \A k \in DOMAIN due : due[k] \in Inodes
  BY <1>1
<1> QED BY <1>2, <1>3, <1>4, <1>5, <1>6, <1>7, <1>8, Zenon DEF TypeOK, NodeType, EntryType, DiskType, MountType

\* An entry is on the list of the directory it was made for, or on none.
LEMMA AttachedIs ==
    ASSUME RegInv, NEW d \in DOMAIN dirent
    PROVE  /\ d[1] \in Inodes /\ \A i \in Inodes : i \in Attached(d) <=> Listed(Here, d) /\ d[1] = i
           /\ Attached(d) = IF Listed(Here, d) THEN {d[1]} ELSE {}
<1>1. Here.lists = kids /\ Here.ents = dirent /\ TreeOK(Here)
  BY HereIs
<1>2. d \in Dirents /\ d[1] \in Inodes
  BY <1>1, EntryTyped
<1>3. \A i \in Inodes : d \in Members(kids[i]) => d[1] = i
  BY <1>1 DEF TreeOK, ListsOK
<1>4. \A i \in Inodes : i \in Attached(d) <=> Listed(Here, d) /\ d[1] = i
  BY <1>1, <1>2, <1>3 DEF Attached, Listed
<1>5. Attached(d) \subseteq Inodes
  BY DEF Attached
<1> QED BY <1>2, <1>4, <1>5

\* The counts of inodes are as the property has them.
LEMMA CountsOfInodes ==
    ASSUME RegInv
    PROVE  InodesCounted
<1> SUFFICES ASSUME NEW i \in Inodes
             PROVE  inode[i].ref =
                      Cardinality({d \in DOMAIN dirent : dirent[d].inode = i /\ i \notin Attached(d)})
                    + Cardinality({t \in Tasks : cwd[t] = i}) + Cardinality({t \in Tasks : stream[t] = i})
                    + Cardinality({x \in Tasks \X Slots : fds[x[1]][x[2]].inode = i})
                    + Cardinality({m \in Mounts : mounts[m].mountpoint = i})
                    + Cardinality({m \in Mounts : mounts[m].root = i})
                    + Times(due, i)
                    + (IF i = Root THEN 1 ELSE 0)
  BY DEF InodesCounted
<1> DEFINE R == {d \in DOMAIN dirent : dirent[d].inode = i /\ i \notin Attached(d)}
<1>1. R = Refs(Here, i)
  BY HereIs, AttachedIs DEF Refs
<1>2. inode[i].ref = Cardinality(Refs(Here, i)) + Times(due, i) + Held0[i]
  BY HereIs DEF NodesCounted
<1>3. Held0[i] = Cwds(cwd, i) + Cwds(stream, i) + Opens(fds, i) + Covers(mounts, i) + Roots(mounts, i)
                 + (IF i = Root THEN 1 ELSE 0)
  BY HeldParts DEF Held0
<1>4. /\ Cwds(cwd, i) \in Nat /\ Cwds(stream, i) \in Nat /\ Opens(fds, i) \in Nat
      /\ Covers(mounts, i) \in Nat /\ Roots(mounts, i) \in Nat
  BY SetsFinite, CountNat DEF Cwds, Opens, Covers, Roots
<1>5. Cardinality(Refs(Here, i)) \in Nat /\ Times(due, i) \in Nat
  <2>1. IsFiniteSet(DOMAIN Here.ents) /\ due \in Seq(Inodes)
    BY HereIs DEF TreeOK, EntsOK
  <2> QED BY <2>1, RefsFinite, TimesNat
<1> HIDE DEF R
<1>6. inode[i].ref = Cardinality(R) + Cwds(cwd, i) + Cwds(stream, i) + Opens(fds, i) + Covers(mounts, i)
                     + Roots(mounts, i) + Times(due, i) + (IF i = Root THEN 1 ELSE 0)
  BY <1>1, <1>2, <1>3, <1>4, <1>5
<1> QED BY <1>6, Zenon DEF R, Cwds, Opens, Covers, Roots

\* And those of entries.
LEMMA CountsOfEntries ==
    ASSUME RegInv
    PROVE  EntriesCounted
<1> SUFFICES ASSUME NEW d \in DOMAIN dirent
             PROVE  /\ Cardinality(Attached(d)) <= 1
                    /\ dirent[d].ref = Cardinality(Attached(d))
                         + Cardinality({x \in Tasks \X Slots : fds[x[1]][x[2]].cursor = d})
  BY DEF EntriesCounted
<1>1. d \in Dirents
  BY HereIs, EntryTyped
<1>2. Cardinality(Attached(d)) = IF Listed(Here, d) THEN 1 ELSE 0
  <2> DEFINE A == Attached(d)
  <2>1. A = IF Listed(Here, d) THEN {d[1]} ELSE {}
    BY AttachedIs
  <2>2. Cardinality({d[1]}) = 1 /\ Cardinality({}) = 0
    BY FS_Singleton, FS_EmptySet
  <2> HIDE DEF A
  <2>3. Cardinality(A) = IF Listed(Here, d) THEN 1 ELSE 0
    BY <2>1, <2>2
  <2> QED BY <2>3 DEF A
<1>3. dirent[d].ref = (IF Listed(Here, d) THEN 1 ELSE 0) + Cursors0[d]
  BY HereIs DEF EntsCounted
<1>4. Cursors0[d] = Cardinality({x \in Tasks \X Slots : fds[x[1]][x[2]].cursor = d})
  BY <1>1 DEF Cursors0, CursorsOf
<1> QED BY <1>2, <1>3, <1>4

\* So the invariant implies the property.
LEMMA RegInvCounts ==
    ASSUME RegInv
    PROVE  RefcountsAccurate
  BY TypesOK, CountsOfInodes, CountsOfEntries DEF RefcountsAccurate

-----------------------------------------------------------------------------
(* The tree that the kernel starts with.                                   *)

\* A list of three.
LEMMA ThreeListed ==
    ASSUME NEW S, NEW x \in S, NEW y \in S, NEW z \in S, x # y, y # z, x # z
    PROVE  /\ <<x, y, z>> \in Seq(S) /\ Members(<<x, y, z>>) = {x, y, z}
           /\ \A d : Times(<<x, y, z>>, d) <= 1
<1> DEFINE p == <<x>>
           q == Append(p, y)
           r == Append(q, z)
<1>1. p \in Seq(S) /\ q \in Seq(S) /\ y \in S /\ z \in S
  OBVIOUS
<1>0. r = <<x, y, z>> /\ <<x, y, z>> \in Seq(S)
  <2>1. q = <<x, y>>
    <3>1. Len(q) = 2 /\ Len(<<x, y>>) = 2 /\ q[1] = x /\ q[2] = y
      OBVIOUS
    <3>2. <<x, y>> \in Seq(S) /\ <<x, y>>[1] = x /\ <<x, y>>[2] = y
      OBVIOUS
    <3> HIDE DEF q
    <3> QED BY <1>1, <3>1, <3>2, SeqEqual
  <2>2. Append(<<x, y>>, z) = <<x, y, z>>
    <3> DEFINE w == Append(<<x, y>>, z)
               v == <<x, y, z>>
    <3>1. w \in Seq(S) /\ v \in Seq(S) /\ Len(w) = 3 /\ Len(v) = 3
      OBVIOUS
    <3>2. w[1] = x /\ w[2] = y /\ w[3] = z /\ v[1] = x /\ v[2] = y /\ v[3] = z
      OBVIOUS
    <3> HIDE DEF w, v
    <3>3. w = v
      BY <3>1, <3>2, SeqEqual
    <3> QED BY <3>3 DEF w, v
  <2>3. r \in Seq(S)
    <3> HIDE DEF q
    <3> QED BY <1>1
  <2> QED BY <2>1, <2>2, <2>3
<1>2. ASSUME NEW d
      PROVE  Times(r, d) = (IF d = x THEN 1 ELSE 0) + (IF d = y THEN 1 ELSE 0) + (IF d = z THEN 1 ELSE 0)
  <2>1. Times(p, d) = IF d = x THEN 1 ELSE 0
    BY TimesOne
  <2> HIDE DEF p
  <2>2. Times(q, d) = Times(p, d) + (IF d = y THEN 1 ELSE 0)
    BY ONLY <1>1, TimesAppend
  <2> HIDE DEF q
  <2>3. Times(r, d) = Times(q, d) + (IF d = z THEN 1 ELSE 0)
    BY <1>1, TimesAppend
  <2> QED BY <2>1, <2>2, <2>3
<1>3. ASSUME NEW d PROVE Times(r, d) <= 1
  <2> HIDE DEF r
  <2> QED BY <1>2
<1>4. DOMAIN <<x, y, z>> = 1 .. 3
  OBVIOUS
<1>5. Members(<<x, y, z>>) = {x, y, z}
  BY <1>4 DEF Members
<1> HIDE DEF r
<1> QED BY <1>0, <1>3, <1>5

\* Adding one makes one more at most.
LEMMA OneMore ==
    ASSUME NEW S, NEW n \in Nat, IsFiniteSet(S), Cardinality(S) <= n, NEW x
    PROVE  IsFiniteSet(S \cup {x}) /\ Cardinality(S \cup {x}) <= n + 1
<1>1. Cardinality(S) \in Nat
  BY FS_CardinalityType
<1> QED BY <1>1, FS_AddElement

\* A set of six has six members at most.
LEMMA SixAtMost ==
    ASSUME NEW a, NEW b, NEW c, NEW d, NEW e, NEW f
    PROVE  IsFiniteSet({a, b, c, d, e, f}) /\ Cardinality({a, b, c, d, e, f}) <= 6
<1>2. IsFiniteSet({a}) /\ Cardinality({a}) <= 1
  <2>1. IsFiniteSet({a}) /\ Cardinality({a}) = 1
    BY FS_Singleton, Zenon
  <2> QED BY <2>1
<1>3. IsFiniteSet({a} \cup {b}) /\ Cardinality({a} \cup {b}) <= 2
  <2> DEFINE A == {a}
  <2>1. IsFiniteSet(A) /\ Cardinality(A) <= 1 /\ 1 \in Nat
    BY <1>2
  <2> HIDE DEF A
  <2>2. IsFiniteSet(A \cup {b}) /\ Cardinality(A \cup {b}) <= 1 + 1
    BY ONLY <2>1, OneMore
  <2> QED BY <2>2 DEF A
<1>4. IsFiniteSet({a, b} \cup {c}) /\ Cardinality({a, b} \cup {c}) <= 3
  <2> DEFINE A == {a, b}
  <2>1. {a} \cup {b} = A
    OBVIOUS
  <2> HIDE DEF A
  <2>2. IsFiniteSet(A) /\ Cardinality(A) <= 2 /\ 2 \in Nat
    BY <1>3, <2>1
  <2>3. IsFiniteSet(A \cup {c}) /\ Cardinality(A \cup {c}) <= 2 + 1
    BY ONLY <2>2, OneMore
  <2> QED BY <2>3 DEF A
<1>5. IsFiniteSet({a, b, c} \cup {d}) /\ Cardinality({a, b, c} \cup {d}) <= 4
  <2> DEFINE A == {a, b, c}
  <2>1. {a, b} \cup {c} = A
    OBVIOUS
  <2> HIDE DEF A
  <2>2. IsFiniteSet(A) /\ Cardinality(A) <= 3 /\ 3 \in Nat
    BY <1>4, <2>1
  <2>3. IsFiniteSet(A \cup {d}) /\ Cardinality(A \cup {d}) <= 3 + 1
    BY ONLY <2>2, OneMore
  <2> QED BY <2>3 DEF A
<1>6. IsFiniteSet({a, b, c, d} \cup {e}) /\ Cardinality({a, b, c, d} \cup {e}) <= 5
  <2> DEFINE A == {a, b, c, d}
  <2>1. {a, b, c} \cup {d} = A
    OBVIOUS
  <2> HIDE DEF A
  <2>2. IsFiniteSet(A) /\ Cardinality(A) <= 4 /\ 4 \in Nat
    BY <1>5, <2>1
  <2>3. IsFiniteSet(A \cup {e}) /\ Cardinality(A \cup {e}) <= 4 + 1
    BY ONLY <2>2, OneMore
  <2> QED BY <2>3 DEF A
<1>7. IsFiniteSet({a, b, c, d, e} \cup {f}) /\ Cardinality({a, b, c, d, e} \cup {f}) <= 6
  <2> DEFINE A == {a, b, c, d, e}
  <2>1. {a, b, c, d} \cup {e} = A
    OBVIOUS
  <2> HIDE DEF A
  <2>2. IsFiniteSet(A) /\ Cardinality(A) <= 5 /\ 5 \in Nat
    BY <1>6, <2>1
  <2>3. IsFiniteSet(A \cup {f}) /\ Cardinality(A \cup {f}) <= 5 + 1
    BY ONLY <2>2, OneMore
  <2> QED BY <2>3 DEF A
<1>8. {a, b, c, d, e} \cup {f} = {a, b, c, d, e, f}
  OBVIOUS
<1> QED BY <1>7, <1>8

\* An inode of the first tree.
InUse(type, n) == [NoInode EXCEPT !.type = type, !.ref = n]

\* An inode of the first tree.
LEMMA InUseIs ==
    ASSUME NEW type \in {"dir", "device"}, NEW n \in Nat
    PROVE  /\ InUse(type, n) = [type |-> type, ref |-> n, deleted |-> FALSE, mnt |-> None, inum |-> None]
           /\ InUse(type, n) \in NodeType
<1> DEFINE z == NoInode
<1>1. InUse(type, n) = [[z EXCEPT !.type = type] EXCEPT !.ref = n]
  BY DEF InUse
<1>2. z = [type |-> "none", ref |-> 0, deleted |-> FALSE, mnt |-> None, inum |-> None]
  BY DEF NoInode
<1> HIDE DEF z
<1>3. InUse(type, n) = [type |-> type, ref |-> n, deleted |-> FALSE, mnt |-> None, inum |-> None]
  BY <1>1, <1>2
<1> QED BY <1>3 DEF NodeType

\* The names in it.
RootHome == <<Root, Home, 1>>
RootUp == <<Root, "..", 1>>
RootSelf == <<Root, ".", 1>>
HomeDevice == <<2, Device, 1>>
HomeUp == <<2, "..", 1>>
HomeSelf == <<2, ".", 1>>
FirstEntries == {RootHome, RootUp, RootSelf, HomeDevice, HomeUp, HomeSelf}

\* The names in the first tree are entries, and those in one directory differ.
LEMMA FirstEntriesOK ==
    /\ Root = 1 /\ 2 \in Inodes /\ 3 \in Inodes
    /\ FirstEntries \subseteq Dirents /\ IsFiniteSet(FirstEntries) /\ Cardinality(FirstEntries) <= NDirents
    /\ Home \in Names /\ Device \in Names /\ Home \notin Dots /\ Device \notin Dots /\ "." # ".."
    /\ \A x, y \in {RootHome, RootUp, RootSelf} : x[2] = y[2] => x = y
    /\ \A x, y \in {HomeDevice, HomeUp, HomeSelf} : x[2] = y[2] => x = y
<1>1. NInodes \in Nat /\ NInodes > 2 /\ NDirents \in Nat /\ NDirents > 5
  BY SizesAssumption
<1>2. Root = 1 /\ Root \in Inodes /\ 2 \in Inodes /\ 3 \in Inodes /\ 1 \in 1 .. NDirents
  BY <1>1 DEF Root, Inodes
<1>3. Home \in Names /\ Device \in Names /\ Home \notin Dots /\ Device \notin Dots
  BY DiskAssumption DEF Dots
<1>4. "." \in Dots /\ ".." \in Dots /\ "." # ".."
  BY DEF Dots
<1>5. FirstEntries \subseteq Dirents
  BY <1>2, <1>3, <1>4 DEF FirstEntries, RootHome, RootUp, RootSelf, HomeDevice, HomeUp, HomeSelf, Dirents
<1>6. IsFiniteSet(FirstEntries) /\ Cardinality(FirstEntries) <= 6
  BY SixAtMost DEF FirstEntries
<1>7. Cardinality(FirstEntries) <= NDirents
  <2>1. Cardinality(FirstEntries) \in Nat
    BY <1>6, FS_CardinalityType
  <2> QED BY <1>1, <1>6, <2>1
<1>8. /\ \A x, y \in {RootHome, RootUp, RootSelf} : x[2] = y[2] => x = y
      /\ \A x, y \in {HomeDevice, HomeUp, HomeSelf} : x[2] = y[2] => x = y
  BY DEF RootHome, RootUp, RootSelf, HomeDevice, HomeUp, HomeSelf
<1> QED BY <1>2, <1>3, <1>4, <1>5, <1>6, <1>7, <1>8

\* What Init says, one inode, list and entry at a time.
LEMMA FirstIs ==
    ASSUME Init
    PROVE  /\ \A i \in Inodes : inode[i] = IF i = Root THEN InUse("dir", 3) ELSE IF i = 2 THEN InUse("dir", 1)
                                           ELSE IF i = 3 THEN InUse("device", 1) ELSE NoInode
           /\ \A i \in Inodes : kids[i] = IF i = Root THEN <<RootHome, RootUp, RootSelf>>
                                          ELSE IF i = 2 THEN <<HomeDevice, HomeUp, HomeSelf>> ELSE <<>>
           /\ DOMAIN inode = Inodes /\ DOMAIN kids = Inodes /\ DOMAIN dirent = FirstEntries
           /\ inode = [i \in Inodes |-> inode[i]] /\ kids = [i \in Inodes |-> kids[i]]
           /\ dirent = [d \in FirstEntries |-> dirent[d]]
           /\ \A d \in FirstEntries : dirent[d] = [name |-> d[2], ref |-> 1,
                 inode |-> IF d = RootHome \/ d = HomeSelf THEN 2 ELSE IF d = HomeDevice THEN 3 ELSE Root]
<1>1. Root = 1
  BY DEF Root
<1>2. inode = [i \in Inodes |->
          CASE i = Root -> InUse("dir", 3) [] i = 2 -> InUse("dir", 1) [] i = 3 -> InUse("device", 1) [] OTHER -> NoInode]
  BY Zenon DEF Init, InUse
<1>3. kids = [i \in Inodes |->
          CASE i = Root -> <<RootHome, RootUp, RootSelf>> [] i = 2 -> <<HomeDevice, HomeUp, HomeSelf>> [] OTHER -> <<>>]
  BY Zenon DEF Init, RootHome, RootUp, RootSelf, HomeDevice, HomeUp, HomeSelf
<1>4. dirent = [d \in FirstEntries |-> [name |-> d[2], ref |-> 1,
          inode |-> CASE d = RootHome \/ d = HomeSelf -> 2 [] d = HomeDevice -> 3 [] OTHER -> Root]]
  BY Zenon DEF Init, FirstEntries, RootHome, RootUp, RootSelf, HomeDevice, HomeUp, HomeSelf
<1>5. \A i \in Inodes : inode[i] = IF i = Root THEN InUse("dir", 3) ELSE IF i = 2 THEN InUse("dir", 1)
                                   ELSE IF i = 3 THEN InUse("device", 1) ELSE NoInode
  BY <1>1, <1>2
<1>6. \A i \in Inodes : kids[i] = IF i = Root THEN <<RootHome, RootUp, RootSelf>>
                                  ELSE IF i = 2 THEN <<HomeDevice, HomeUp, HomeSelf>> ELSE <<>>
  BY <1>1, <1>3
<1>7. HomeDevice # RootHome /\ HomeDevice # HomeSelf
  BY <1>1, FirstEntriesOK DEF HomeDevice, RootHome, HomeSelf, Dots
<1>8. \A d \in FirstEntries : dirent[d] = [name |-> d[2], ref |-> 1,
          inode |-> IF d = RootHome \/ d = HomeSelf THEN 2 ELSE IF d = HomeDevice THEN 3 ELSE Root]
  BY <1>4, <1>7
<1> QED BY <1>2, <1>3, <1>4, <1>5, <1>6, <1>8

\* Each is on the list of its directory, once.
LEMMA FirstListed ==
    ASSUME Init
    PROVE  /\ \A i \in Inodes : /\ kids[i] \in Seq(FirstEntries)
                                /\ Members(kids[i]) = {d \in FirstEntries : d[1] = i}
                                /\ \A d : Times(kids[i], d) <= 1
           /\ Here.nodes = inode /\ Here.lists = kids /\ Here.ents = dirent /\ Here.due = <<>> /\ Here.at = None
<1>1. /\ \A i \in Inodes : kids[i] = IF i = Root THEN <<RootHome, RootUp, RootSelf>>
                                     ELSE IF i = 2 THEN <<HomeDevice, HomeUp, HomeSelf>> ELSE <<>>
  BY FirstIs
<1>2. /\ RootHome # RootUp /\ RootUp # RootSelf /\ RootHome # RootSelf
      /\ HomeDevice # HomeUp /\ HomeUp # HomeSelf /\ HomeDevice # HomeSelf
      /\ Root = 1 /\ Root \in Inodes
  <2>1. Home # "." /\ Home # ".." /\ Device # "." /\ Device # ".."
    BY FirstEntriesOK DEF Dots
  <2> QED BY <2>1, RootInodes, FirstEntriesOK DEF RootHome, RootUp, RootSelf, HomeDevice, HomeUp, HomeSelf
<1>3. /\ RootHome[1] = Root /\ RootUp[1] = Root /\ RootSelf[1] = Root
      /\ HomeDevice[1] = 2 /\ HomeUp[1] = 2 /\ HomeSelf[1] = 2
  BY DEF RootHome, RootUp, RootSelf, HomeDevice, HomeUp, HomeSelf
<1>4. /\ RootHome \in FirstEntries /\ RootUp \in FirstEntries /\ RootSelf \in FirstEntries
      /\ HomeDevice \in FirstEntries /\ HomeUp \in FirstEntries /\ HomeSelf \in FirstEntries
      /\ \A d \in FirstEntries : d \in {RootHome, RootUp, RootSelf} \/ d \in {HomeDevice, HomeUp, HomeSelf}
  BY DEF FirstEntries
<1>5. /\ <<RootHome, RootUp, RootSelf>> \in Seq(FirstEntries)
      /\ Members(<<RootHome, RootUp, RootSelf>>) = {RootHome, RootUp, RootSelf}
      /\ \A d : Times(<<RootHome, RootUp, RootSelf>>, d) <= 1
  <2> HIDE DEF FirstEntries
  <2> QED BY <1>2, <1>4, ThreeListed
<1>6. /\ <<HomeDevice, HomeUp, HomeSelf>> \in Seq(FirstEntries)
      /\ Members(<<HomeDevice, HomeUp, HomeSelf>>) = {HomeDevice, HomeUp, HomeSelf}
      /\ \A d : Times(<<HomeDevice, HomeUp, HomeSelf>>, d) <= 1
  BY <1>2, <1>4, ThreeListed
<1>7. /\ <<>> \in Seq(FirstEntries) /\ Members(<<>>) = {} /\ \A d : Times(<<>>, d) <= 1
  <2>1. \A d : {k \in DOMAIN <<>> : <<>>[k] = d} = {}
    OBVIOUS
  <2>2. \A d : Times(<<>>, d) = 0
    BY <2>1, FS_EmptySet DEF Times
  <2>3. Members(<<>>) = {}
    BY DEF Members
  <2> QED BY <2>2, <2>3
<1>8. ASSUME NEW i \in Inodes
      PROVE  /\ kids[i] \in Seq(FirstEntries) /\ Members(kids[i]) = {d \in FirstEntries : d[1] = i}
             /\ \A d : Times(kids[i], d) <= 1
  <2>1. CASE i = Root
    <3>1. kids[i] = <<RootHome, RootUp, RootSelf>>
      BY <1>1, <2>1
    <3>2. {RootHome, RootUp, RootSelf} = {d \in FirstEntries : d[1] = i}
      BY <1>2, <1>3, <1>4, <2>1
    <3> QED BY <1>5, <3>1, <3>2
  <2>2. CASE i = 2
    <3>1. kids[i] = <<HomeDevice, HomeUp, HomeSelf>>
      BY <1>1, <1>2, <2>2
    <3>2. {HomeDevice, HomeUp, HomeSelf} = {d \in FirstEntries : d[1] = i}
      BY <1>2, <1>3, <1>4, <2>2
    <3> QED BY <1>6, <3>1, <3>2
  <2>3. CASE i # Root /\ i # 2
    <3>1. kids[i] = <<>>
      BY <1>1, <2>3
    <3>2. {} = {d \in FirstEntries : d[1] = i}
      BY <1>2, <1>3, <1>4, <2>3
    <3> QED BY <1>7, <3>1, <3>2
  <2> QED BY <2>1, <2>2, <2>3
<1>9. Here.nodes = inode /\ Here.lists = kids /\ Here.ents = dirent /\ Here.due = <<>> /\ Here.at = None
  BY DEF Here, Init
<1> QED BY <1>8, <1>9

\* The first tree is a tree.
LEMMA FirstTree ==
    ASSUME Init
    PROVE  TreeOK(Here) /\ Bare(Here) /\ Dry(Here) /\ \A d \in FirstEntries : Listed(Here, d)
<1>1. /\ Here.nodes = inode /\ Here.lists = kids /\ Here.ents = dirent /\ Here.due = <<>> /\ Here.at = None
      /\ \A i \in Inodes : kids[i] \in Seq(FirstEntries) /\ Members(kids[i]) = {d \in FirstEntries : d[1] = i}
      /\ \A i \in Inodes : \A d : Times(kids[i], d) <= 1
  BY FirstListed
<1>2. /\ DOMAIN dirent = FirstEntries /\ inode = [i \in Inodes |-> inode[i]] /\ kids = [i \in Inodes |-> kids[i]]
      /\ dirent = [d \in FirstEntries |-> dirent[d]]
      /\ \A i \in Inodes : inode[i] = IF i = Root THEN InUse("dir", 3) ELSE IF i = 2 THEN InUse("dir", 1)
                                      ELSE IF i = 3 THEN InUse("device", 1) ELSE NoInode
      /\ \A d \in FirstEntries : dirent[d] = [name |-> d[2], ref |-> 1,
            inode |-> IF d = RootHome \/ d = HomeSelf THEN 2 ELSE IF d = HomeDevice THEN 3 ELSE Root]
  BY FirstIs
<1>3. /\ Root = 1 /\ 2 \in Inodes /\ 3 \in Inodes /\ Root \in Inodes
      /\ FirstEntries \subseteq Dirents /\ IsFiniteSet(FirstEntries) /\ Cardinality(FirstEntries) <= NDirents
  BY FirstEntriesOK, RootInodes
<1>4. \A i \in Inodes : /\ inode[i] \in NodeType /\ inode[i].mnt = None /\ inode[i].inum = None
                        /\ inode[i].ref = 0 => inode[i] = NoInode /\ i # Root /\ i # 2
                        /\ inode[i].ref # 0 => inode[i].type # "none"
                        /\ i = Root => inode[i].type = "dir"
  <2> SUFFICES ASSUME NEW i \in Inodes
               PROVE  /\ inode[i] \in NodeType /\ inode[i].mnt = None /\ inode[i].inum = None
                      /\ inode[i].ref = 0 => inode[i] = NoInode /\ i # Root /\ i # 2
                      /\ inode[i].ref # 0 => inode[i].type # "none"
                      /\ i = Root => inode[i].type = "dir"
    OBVIOUS
  <2>1. ASSUME NEW type \in {"dir", "device"}, NEW n \in {1, 3}
        PROVE  /\ InUse(type, n) \in NodeType /\ InUse(type, n).mnt = None /\ InUse(type, n).inum = None
               /\ InUse(type, n).ref = n /\ InUse(type, n).type = type
    <3>1. n \in Nat
      OBVIOUS
    <3> QED BY <3>1, InUseIs
  <2>2. NoInode \in NodeType /\ NoInode.mnt = None /\ NoInode.inum = None /\ NoInode.ref = 0
    BY DEF NoInode, NodeType
  <2>3. inode[i] \in {InUse("dir", 3), InUse("dir", 1), InUse("device", 1), NoInode}
        /\ (i = Root => inode[i] = InUse("dir", 3)) /\ (i = 2 => inode[i] = InUse("dir", 1))
    BY <1>2, <1>3
  <2>4. CASE inode[i] = InUse("dir", 3)
    BY <2>1, <2>4
  <2>5. CASE inode[i] = InUse("dir", 1)
    BY <2>1, <2>5, <2>3
  <2>6. CASE inode[i] = InUse("device", 1)
    BY <2>1, <2>3, <2>6
  <2>7. CASE inode[i] = NoInode
    BY <2>1, <2>2, <2>3, <2>7
  <2> QED BY <2>3, <2>4, <2>5, <2>6, <2>7
<1>5. \A d \in FirstEntries : /\ d \in Dirents /\ d[2] \in Names \cup Dots
                              /\ dirent[d].name = d[2] /\ dirent[d].ref = 1 /\ dirent[d].inode \in Inodes
                              /\ dirent[d] \in EntryType
                              /\ dirent[d].inode = IF d = RootHome \/ d = HomeSelf THEN 2 ELSE IF d = HomeDevice THEN 3 ELSE Root
  <2> SUFFICES ASSUME NEW d \in FirstEntries
               PROVE  /\ d \in Dirents /\ d[2] \in Names \cup Dots
                      /\ dirent[d].name = d[2] /\ dirent[d].ref = 1 /\ dirent[d].inode \in Inodes
                      /\ dirent[d] \in EntryType
                      /\ dirent[d].inode = IF d = RootHome \/ d = HomeSelf THEN 2 ELSE IF d = HomeDevice THEN 3 ELSE Root
    OBVIOUS
  <2> DEFINE j == IF d = RootHome \/ d = HomeSelf THEN 2 ELSE IF d = HomeDevice THEN 3 ELSE Root
  <2>1. d \in Dirents /\ d[2] \in Names \cup Dots
    BY <1>3 DEF Dirents
  <2>2. j \in Inodes /\ dirent[d] = [name |-> d[2], ref |-> 1, inode |-> j]
    BY <1>2, <1>3
  <2> HIDE DEF j
  <2>3. dirent[d] \in EntryType /\ dirent[d].name = d[2] /\ dirent[d].ref = 1 /\ dirent[d].inode = j
    BY <2>1, <2>2 DEF EntryType
  <2> QED BY <2>1, <2>2, <2>3 DEF j
<1>6. \A d \in FirstEntries : /\ d[1] = 1 \/ d[1] = 2
                              /\ dirent[d].inode = Root => d[2] \in Dots
                              /\ dirent[d].inode = d[1] => d[2] = "." \/ (d[2] = ".." /\ d[1] = Root)
  <2>1. \A d \in FirstEntries : \/ d = RootHome /\ d[1] = Root /\ d[2] = Home
                                \/ d = RootUp /\ d[1] = Root /\ d[2] = ".."
                                \/ d = RootSelf /\ d[1] = Root /\ d[2] = "."
                                \/ d = HomeDevice /\ d[1] = 2 /\ d[2] = Device
                                \/ d = HomeUp /\ d[1] = 2 /\ d[2] = ".."
                                \/ d = HomeSelf /\ d[1] = 2 /\ d[2] = "."
    BY DEF FirstEntries, RootHome, RootUp, RootSelf, HomeDevice, HomeUp, HomeSelf
  <2>2. "." \in Dots /\ ".." \in Dots
    BY DEF Dots
  <2>3. /\ RootHome # HomeSelf /\ RootHome # RootUp /\ RootHome # RootSelf /\ RootHome # HomeUp
        /\ HomeSelf # RootUp /\ HomeSelf # RootSelf /\ HomeSelf # HomeUp /\ HomeSelf # HomeDevice
        /\ HomeDevice # RootUp /\ HomeDevice # RootSelf /\ HomeDevice # HomeUp /\ HomeDevice # RootHome
    <3>1. Root = 1 /\ Home \notin Dots /\ Device \notin Dots /\ "." # ".."
      BY FirstEntriesOK
    <3> QED BY <3>1, <2>2 DEF RootHome, RootUp, RootSelf, HomeDevice, HomeUp, HomeSelf
  <2> SUFFICES ASSUME NEW d \in FirstEntries
               PROVE  /\ d[1] = 1 \/ d[1] = 2
                      /\ dirent[d].inode = Root => d[2] \in Dots
                      /\ dirent[d].inode = d[1] => d[2] = "." \/ (d[2] = ".." /\ d[1] = Root)
    OBVIOUS
  <2> DEFINE j == dirent[d].inode
  <2>4. j = IF d = RootHome \/ d = HomeSelf THEN 2 ELSE IF d = HomeDevice THEN 3 ELSE Root
    BY <1>5
  <2> HIDE DEF j
  <2>5. CASE d = RootHome /\ d[1] = Root /\ d[2] = Home
    BY <1>3, <2>4, <2>5 DEF j
  <2>6. CASE d = RootUp /\ d[1] = Root /\ d[2] = ".."
    BY <1>3, <2>2, <2>6 DEF j
  <2>7. CASE d = RootSelf /\ d[1] = Root /\ d[2] = "."
    BY <1>3, <2>2, <2>7 DEF j
  <2>8. CASE d = HomeDevice /\ d[1] = 2 /\ d[2] = Device
    BY <1>3, <2>3, <2>4, <2>8 DEF j
  <2>9. CASE d = HomeUp /\ d[1] = 2 /\ d[2] = ".."
    BY <1>3, <2>2, <2>3, <2>4, <2>9 DEF j
  <2>10. CASE d = HomeSelf /\ d[1] = 2 /\ d[2] = "."
    BY <1>3, <2>4, <2>10 DEF j
  <2> QED BY <2>1, <2>5, <2>6, <2>7, <2>8, <2>9, <2>10
<1>7. Parts(Here) /\ NodesOK(Here)
  <2>1. Parts(Here)
    BY DEF Parts, Here
  <2>2. inode \in [Inodes -> NodeType]
    BY <1>2, <1>4
  <2> QED BY <1>1, <1>3, <1>4, <2>1, <2>2 DEF NodesOK
<1>8. EntsOK(Here)
  <2>1. dirent \in [FirstEntries -> EntryType]
    BY <1>2, <1>5
  <2> QED BY <1>1, <1>2, <1>3, <1>5, <1>6, <2>1 DEF EntsOK
<1>9. ListsOK(Here)
  <2>1. kids \in [Inodes -> Seq(FirstEntries)]
    BY <1>1, <1>2
  <2> QED BY <1>1, <1>2, <2>1 DEF ListsOK
<1>10. TreeOK(Here)
  BY <1>1, <1>7, <1>8, <1>9 DEF TreeOK, InodeOrNone
<1>11. Bare(Here)
  <2> SUFFICES ASSUME NEW i \in Inodes, inode[i].ref = 0 PROVE Members(kids[i]) = {}
    BY <1>1 DEF Bare
  <2>1. i # 1 /\ i # 2
    BY <1>3, <1>4
  <2>2. Members(kids[i]) = {d \in FirstEntries : d[1] = i}
    BY <1>1
  <2>3. \A d \in FirstEntries : d[1] # i
    BY <1>6, <2>1
  <2> QED BY <2>2, <2>3
<1>12. Dry(Here)
  BY <1>1, <1>4, <1>5, <1>6 DEF Dry, NoneSelf
<1>13. \A d \in FirstEntries : Listed(Here, d)
  <2>1. \A d \in FirstEntries : d[1] \in Inodes
    BY <1>3, <1>6
  <2> QED BY <1>1, <2>1 DEF Listed
<1> QED BY <1>10, <1>11, <1>12, <1>13

\* What holds the first inodes and entries: three names and the first task's
\* directory.
LEMMA FirstHeld ==
    ASSUME Init
    PROVE  /\ \A i \in Inodes : Held0[i] = IF i = Root THEN 2 ELSE 0
           /\ \A d \in Dirents : Cursors0[d] = 0
<1>1. /\ \A t \in Tasks : cwd[t] = IF t = First THEN Root ELSE None
      /\ \A t \in Tasks : stream[t] = None
      /\ \A x \in Tasks \X Slots : fds[x[1]][x[2]] = NoFile
      /\ \A m \in Mounts : mounts[m].mountpoint = None /\ mounts[m].root = None
      /\ First \in Tasks
  BY TasksAssumption DEF Init, NoMount
<1>2. NoFile.inode = None /\ NoFile.cursor = NoEntry /\ NoEntry[1] = None /\ None = 0 /\ Root = 1
  BY DEF NoFile, NoEntry, None, Root
<1>3. \A i \in Inodes : i # None
  BY DEF Inodes, None
<1>4. ASSUME NEW i \in Inodes
      PROVE  Held0[i] = IF i = Root THEN 2 ELSE 0
  <2>1. Held0[i] = Cwds(cwd, i) + Cwds(stream, i) + Opens(fds, i) + Covers(mounts, i) + Roots(mounts, i)
                     + (IF i = Root THEN 1 ELSE 0)
    BY HeldParts DEF Held0
  <2>2. Cwds(stream, i) = 0
    <3>1. {t \in Tasks : stream[t] = i} = {}
      BY <1>1, <1>3
    <3> QED BY <3>1, FS_EmptySet DEF Cwds
  <2>3. Opens(fds, i) = 0
    <3>1. {x \in Tasks \X Slots : fds[x[1]][x[2]].inode = i} = {}
      BY <1>1, <1>2, <1>3
    <3> QED BY <3>1, FS_EmptySet DEF Opens
  <2>4. Covers(mounts, i) = 0
    <3>1. {m \in Mounts : mounts[m].mountpoint = i} = {}
      BY <1>1, <1>3
    <3> QED BY <3>1, FS_EmptySet DEF Covers
  <2>5. Roots(mounts, i) = 0
    <3>1. {m \in Mounts : mounts[m].root = i} = {}
      BY <1>1, <1>3
    <3> QED BY <3>1, FS_EmptySet DEF Roots
  <2>6. Cwds(cwd, i) = IF i = Root THEN 1 ELSE 0
    <3>1. {t \in Tasks : cwd[t] = i} = IF i = Root THEN {First} ELSE {}
      BY <1>1, <1>3
    <3> QED BY <3>1, FS_EmptySet, FS_Singleton DEF Cwds
  <2> QED BY <2>1, <2>2, <2>3, <2>4, <2>5, <2>6
<1>5. ASSUME NEW d \in Dirents
      PROVE  Cursors0[d] = 0
  <2>1. d # NoEntry
    BY <1>2, <1>3 DEF Dirents
  <2>2. {x \in Tasks \X Slots : fds[x[1]][x[2]].cursor = d} = {}
    BY <1>1, <1>2, <2>1
  <2>3. Cursors0[d] = Cardinality({x \in Tasks \X Slots : fds[x[1]][x[2]].cursor = d})
    BY DEF Cursors0, CursorsOf
  <2> QED BY <2>2, <2>3, FS_EmptySet
<1> QED BY <1>4, <1>5

\* Each of its inodes has one name besides the root's own and those in itself.
LEMMA FirstRefs ==
    ASSUME Init, NEW i \in Inodes
    PROVE  Cardinality(Refs(Here, i)) = IF i = Root THEN 1 ELSE IF i = 2 THEN 1 ELSE IF i = 3 THEN 1 ELSE 0
<1>1. Here.ents = dirent /\ DOMAIN dirent = FirstEntries
      /\ \A d \in FirstEntries : dirent[d].inode =
            IF d = RootHome \/ d = HomeSelf THEN 2 ELSE IF d = HomeDevice THEN 3 ELSE Root
  <2>1. \A d \in FirstEntries : dirent[d] = [name |-> d[2], ref |-> 1,
            inode |-> IF d = RootHome \/ d = HomeSelf THEN 2 ELSE IF d = HomeDevice THEN 3 ELSE Root]
    BY FirstIs
  <2> QED BY <2>1, FirstListed, FirstIs
<1>2. \A d \in FirstEntries : Listed(Here, d)
  BY FirstTree
<1>3. /\ Root = 1 /\ RootHome[1] = 1 /\ RootUp[1] = 1 /\ RootSelf[1] = 1
      /\ HomeDevice[1] = 2 /\ HomeUp[1] = 2 /\ HomeSelf[1] = 2
      /\ HomeUp # RootHome /\ HomeUp # HomeSelf /\ HomeUp # HomeDevice /\ HomeDevice # RootHome /\ HomeDevice # HomeSelf
  <2>1. Root = 1 /\ Device \notin Dots /\ "." # ".." /\ "." \in Dots /\ ".." \in Dots
    BY FirstEntriesOK DEF Dots
  <2> QED BY <2>1 DEF RootHome, RootUp, RootSelf, HomeDevice, HomeUp, HomeSelf
<1>4. FirstEntries = {RootHome, RootUp, RootSelf, HomeDevice, HomeUp, HomeSelf}
  BY DEF FirstEntries
<1>5. Refs(Here, i) = {d \in FirstEntries : dirent[d].inode = i /\ d[1] # i}
  BY <1>1, <1>2 DEF Refs
<1>6. Refs(Here, i) = IF i = Root THEN {HomeUp} ELSE IF i = 2 THEN {RootHome} ELSE IF i = 3 THEN {HomeDevice} ELSE {}
  <2> DEFINE j(d) == IF d = RootHome \/ d = HomeSelf THEN 2 ELSE IF d = HomeDevice THEN 3 ELSE Root
  <2>1. Refs(Here, i) = {d \in FirstEntries : j(d) = i /\ d[1] # i}
    BY <1>1, <1>5
  <2>2. CASE i = Root
    BY <1>3, <1>4, <2>1, <2>2
  <2>3. CASE i = 2
    BY <1>3, <1>4, <2>1, <2>3
  <2>4. CASE i = 3
    BY <1>3, <1>4, <2>1, <2>4
  <2>5. CASE i # Root /\ i # 2 /\ i # 3
    BY <1>3, <1>4, <2>1, <2>5
  <2> QED BY <1>3, <2>2, <2>3, <2>4, <2>5
<1>7. \A x : Cardinality({x}) = 1
  BY FS_Singleton
<1> QED BY <1>6, <1>7, FS_EmptySet

\* The name space that registry_init and the first driver leave is sound.
LEMMA InitRegInv ==
    ASSUME Init
    PROVE  RegInv
<1>1. TreeOK(Here) /\ Bare(Here) /\ Dry(Here) /\ \A d \in FirstEntries : Listed(Here, d)
  BY FirstTree
<1>2. Here.nodes = inode /\ Here.ents = dirent /\ Here.due = <<>> /\ DOMAIN dirent = FirstEntries
  BY FirstListed, FirstIs
<1>3. NodesCounted(Here, Held0)
  <2> SUFFICES ASSUME NEW i \in Inodes
               PROVE  inode[i].ref = Cardinality(Refs(Here, i)) + Times(<<>>, i) + Held0[i]
    BY <1>2 DEF NodesCounted
  <2>1. Times(<<>>, i) = 0
    <3>1. {k \in DOMAIN <<>> : <<>>[k] = i} = {}
      OBVIOUS
    <3> QED BY <3>1, FS_EmptySet DEF Times
  <2>2. inode[i].ref = IF i = Root THEN 3 ELSE IF i = 2 THEN 1 ELSE IF i = 3 THEN 1 ELSE 0
    <3>1. inode[i] = IF i = Root THEN InUse("dir", 3) ELSE IF i = 2 THEN InUse("dir", 1)
                     ELSE IF i = 3 THEN InUse("device", 1) ELSE NoInode
      BY FirstIs
    <3>2. InUse("dir", 3).ref = 3 /\ InUse("dir", 1).ref = 1 /\ InUse("device", 1).ref = 1 /\ NoInode.ref = 0
      BY DEF InUse, NoInode
    <3> QED BY <3>1, <3>2
  <2>3. Held0[i] = IF i = Root THEN 2 ELSE 0
    BY FirstHeld
  <2>4. Cardinality(Refs(Here, i)) = IF i = Root THEN 1 ELSE IF i = 2 THEN 1 ELSE IF i = 3 THEN 1 ELSE 0
    BY FirstRefs
  <2> QED BY <2>1, <2>2, <2>3, <2>4 DEF Root
<1>4. EntsCounted(Here, Cursors0)
  <2>1. \A d \in FirstEntries : dirent[d].ref = 1 /\ d \in Dirents
    <3>1. \A d \in FirstEntries : dirent[d] = [name |-> d[2], ref |-> 1,
              inode |-> IF d = RootHome \/ d = HomeSelf THEN 2 ELSE IF d = HomeDevice THEN 3 ELSE Root]
      BY FirstIs
    <3>2. \A d \in FirstEntries : dirent[d].ref = 1
      <4> HIDE DEF RootHome, HomeSelf, HomeDevice, FirstEntries
      <4> SUFFICES ASSUME NEW d \in FirstEntries PROVE dirent[d].ref = 1
        OBVIOUS
      <4>1. \E j : dirent[d] = [name |-> d[2], ref |-> 1, inode |-> j]
        BY <3>1, Zenon
      <4> QED BY <4>1
    <3> QED BY <3>2, FirstEntriesOK
  <2> QED BY <1>1, <1>2, <2>1, FirstHeld DEF EntsCounted
<1>5. HoldersOK
  <2>1. /\ cwd = [t \in Tasks |-> IF t = First THEN Root ELSE None] /\ stream = [t \in Tasks |-> None]
        /\ fds = [t \in Tasks |-> [f \in Slots |-> NoFile]] /\ mounts = [m \in Mounts |-> NoMount]
        /\ alive = {First} /\ scope \in Scopes /\ First \in Tasks
    BY TasksAssumption DEF Init
  <2>2. Root \in InodeOrNone /\ None \in InodeOrNone /\ Root # None
    BY RootInodes DEF InodeOrNone, Root, None
  <2>3. NoFile \in Files /\ NoFile.cursor = NoEntry /\ NoMount \in MountType
    BY <2>2 DEF NoFile, Files, NoMount, MountType
  <2>4. cwd \in [Tasks -> InodeOrNone] /\ stream \in [Tasks -> InodeOrNone] /\ alive \subseteq Tasks
    BY <2>1, <2>2
  <2>5. fds \in [Tasks -> [Slots -> Files]] /\ mounts \in [Mounts -> MountType]
    BY <2>1, <2>3
  <2>6. \A t \in Tasks, f \in Slots : fds[t][f] = NoFile
    BY <2>1
  <2>7. \A t \in alive : cwd[t] # None /\ (t # First => stream[t] # None)
    BY <2>1, <2>2
  <2>8. \A t \in Tasks \ alive : cwd[t] = None /\ stream[t] = None
    BY <2>1
  <2> QED BY <2>1, <2>3, <2>4, <2>5, <2>6, <2>7, <2>8 DEF HoldersOK
<1>6. MountsOK
  <2>1. \A m \in Mounts : mounts[m].mountpoint = None /\ mounts[m].root = None
    BY DEF Init, NoMount
  <2> QED BY <2>1 DEF MountsOK
<1>7. DiskOK
  BY DiskAssumption DEF DiskOK, DiskType, Init, None
<1>8. Plain(Here)
  BY <1>1 DEF Plain
<1> QED BY <1>1, <1>3, <1>4, <1>5, <1>6, <1>7, <1>8 DEF RegInv, Counted, Held0, Cursors0

-----------------------------------------------------------------------------
(* The theorems.                                                           *)

\* inode_ref and inode_unref, dirent_ref and dirent_unref keep every count equal
\* to the holders there are, whatever tasks call and wherever a call fails, in a
\* tree with mounts: as long as no directory is an entry of itself and the names
\* cached under a mounted root stand for inodes of the volume.
THEOREM RegistryCountsRight == Spec /\ []Ordinary => []RefcountsAccurate
<1>1. Init => RegInv
  BY InitRegInv
<1>2. RegInv /\ Ordinary /\ [Next]_vars => RegInv'
  BY RegInvStep
<1>3. RegInv => RefcountsAccurate
  BY RegInvCounts
<1> QED BY <1>1, <1>2, <1>3, PTL DEF Spec

\* Where nothing is mounted no hypothesis is left: a directory is never an entry of
\* itself, since RENAME moves none into its own subtree (dir_has_ancestor) and LINK
\* refuses directories, and every count is right after every call.
THEOREM NativeCountsRight == ASSUME Native PROVE Spec => []RefcountsAccurate
<1>1. Init => RegInv
  BY InitRegInv
<1>2. RegInv /\ [Next]_vars => RegInv'
  <2> SUFFICES ASSUME RegInv, [Next]_vars PROVE RegInv'
    OBVIOUS
  <2>1. Ordinary
    BY NativeIsOrdinary
  <2> QED BY <2>1, RegInvStep
<1>3. RegInv => RefcountsAccurate
  BY RegInvCounts
<1> QED BY <1>1, <1>2, <1>3, PTL DEF Spec

\* Where nothing is mounted, no RENAME, LINK or MKDIR makes a directory an entry of
\* itself, the cycle of one that would keep itself: dir_has_ancestor is asked before
\* a directory moves, and LINK refuses one.
THEOREM NoneBecomesItsOwnEntry == ASSUME Native PROVE Spec => []NoneInItself
<1>1. Init => RegInv
  BY InitRegInv
<1>2. RegInv /\ [Next]_vars => RegInv'
  <2> SUFFICES ASSUME RegInv, [Next]_vars PROVE RegInv'
    OBVIOUS
  <2>1. Ordinary
    BY NativeIsOrdinary
  <2> QED BY <2>1, RegInvStep
<1>3. RegInv => NoneInItself
  BY NativeIsOrdinary DEF Ordinary
<1> QED BY <1>1, <1>2, <1>3, PTL DEF Spec
=============================================================================
