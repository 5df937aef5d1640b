------------------------------ MODULE MCServices ------------------------------
(***************************************************************************)
(* Small instances of Services.  Address spaces: a handful of frames of    *)
(* two bytes, some bits to a byte of the bitmap, two page tables of two    *)
(* pages in a user space.  Kernel heap: pages of 64 bytes with three       *)
(* frames.  Program heap: regions of 64 bytes.  Shell: every line of a few *)
(* characters is read, and a few longer ones are run.                      *)
(***************************************************************************)
EXTENDS Services

\* One frame of low memory, one of kernel, one of module, one of bitmap.
Map(end, h) ==
    [heap |-> h, regions |-> <<<<0, 2>>, <<2, end>>>>, kernel_end |-> 4, mod_start |-> 4, mod_end |-> 6]

SmallMaps == {Map(28, 0), Map(22, 1)}

\* As the theorems about what is in use at boot assume.
ASSUME MapsLoadedLow == \A m \in SmallMaps : LoadedLow(m)

Part(kind, first, count) == [first |-> first, count |-> count, kind |-> kind]
SmallInit == {<<Part("image", 0, 1), Part("stack", 1, 1)>>, <<Part("image", 0, 2), Part("stack", 2, 2)>>}
SmallPrograms == {<<Part("image", 0, 1), Part("stack", 2, 2)>>}

-----------------------------------------------------------------------------
MCObjSizes == <<16, 32>>

\* Objects of two caches, one because of its alignment; a page; a run of pages.
MCAsks ==
    {[size |-> 10, align |-> 4], [size |-> 20, align |-> 32], [size |-> 60, align |-> 1], [size |-> 70, align |-> 1]}

\* The second product does not fit in a size_t.
MCArrays == {[n |-> 2, size |-> 4], [n |-> 32, size |-> 9]}

-----------------------------------------------------------------------------
MCFiles == {<<"f">>}
MCDirs == {<<"d">>}

MCLetters == {"cat", " ", "(", ")", ";", ">", "&", "quote"}

\* Words joined by blanks.
Words(words) == FoldLeft(LAMBDA text, word : text \o <<" ">> \o word, words[1], Tail(words))
W(letter) == <<letter>>
And == <<"&", "&">>
Or == <<"|", "|">>

\* in f > cat > wc; each pipe is smaller than the file.
Chain3 == Words(<<W("in"), W("f"), W(">"), W("cat"), W(">"), W("wc")>>)
\* yes > head -1: what never ends is ended by its reader.
Endless == Words(<<W("yes"), W(">"), W("head"), <<"-", "1">>>>)
\* (in f ; echo) > wc: two writers, read one after the other.
FanIn == Words(<<W("("), W("in"), W("f"), W(";"), W("echo"), W(")"), W(">"), W("wc")>>)
\* in f > (cat ; wc): two readers of their own.
FanOut == Words(<<W("in"), W("f"), W(">"), W("("), W("cat"), W(";"), W("wc"), W(")")>>)
\* in f > sort > echo: a reader that reads nothing.
Broken == Words(<<W("in"), W("f"), W(">"), W("sort"), W(">"), W("echo")>>)
\* (cat ; head -1) && in f || cd d: two readers of one keyboard.
Keyboard2 == Words(<<W("("), W("cat"), W(";"), W("head"), <<"-", "1">>, W(")"), And, W("uniq"), Or, W("cd"), W("d")>>)
\* no && cat || cat f & exit: what is not there, what is skipped, what ends the shell.
Chained == Words(<<W("no"), And, W("cat"), Or, W("cat"), W("f"), W("&"), W("exit")>>)
\* (in f ; tac) > paste > out f: one stream after the other, both to the end.
Joined == Words(<<W("("), W("in"), W("f"), W(";"), W("tac"), W(")"), W(">"), W("paste"), W(">"), W("out"), W("f")>>)
\* in f > (mul ; grep x) > tee g: the second writer of tee is not read.
Unread == Words(<<W("in"), W("f"), W(">"), W("("), W("mul"), W(";"), W("grep"), W("a"), W(")"), W(">"), W("tee"), W("g")>>)
\* wc f no && help || rev -h & d & no > cd: files, built-ins and what cannot be started.
Wrong == Words(<<W("wc"), W("f"), W("no"), And, W("help"), Or, W("rev"), <<"-", "h">>, W("&"), W("d"), W("&"),
                 W("no"), W(">"), W("cd")>>)
\* (echo ; echo ; echo ; echo) > wc: more streams than a command may have.
TooMany == Words(<<W("("), W("echo"), W(";"), W("echo"), W(";"), W("echo"), W(";"), W("echo"), W(")"), W(">"), W("wc")>>)
\* ( ): refused as a whole.
EmptyGroup == Words(<<W("("), W(")")>>)
\* "" || cat f: the empty word names the directory of the programs.
EmptyWord == Words(<<<<Quote, Quote>>, Or, W("cat"), W("f")>>)

MCLines ==
    {EmptyGroup, EmptyWord, Chain3, Endless, FanIn, FanOut, Broken, Keyboard2, Chained, Joined, Unread, Wrong,
     TooMany}

\* in f > (cat > wc ; echo), as in pur/README.md: wc reads what cat passes on
\* before it reads what in gives it, and in gives to both.
Example == Words(<<W("in"), W("f"), W(">"), W("("), W("cat"), W(">"), W("wc"), W(";"), W("echo"), W(")")>>)
ExampleLines == {Example}

-----------------------------------------------------------------------------
(* The plans of the kernel self test (ksts/main.c:1918-1974) and the lines *)
(* it expects to be refused.                                               *)
Plan(words, ins, outs) ==
    LET plan == pur_exec_plan(Words(words))
    IN  [n \in DOMAIN plan |-> plan[n].in] = ins /\ [n \in DOMAIN plan |-> plan[n].out] = outs

L == W("ls")
C == W("cat")
M == W("more")
A == W("a")
B == W("b")
To == W(">")
Open == W("(")
Close == W(")")
Semi == W(";")

ASSUME PlansOfTheTests ==
    /\ Plan(<<L, To, C, To, M>>, <<0, 1, 1>>, <<1, 1, 0>>)
    /\ Plan(<<L, To, Open, C, To, M, Close>>, <<0, 1, 2>>, <<2, 1, 0>>)
    /\ Plan(<<L, To, Open, Open, C, Close, To, M, Close>>, <<0, 1, 2>>, <<2, 1, 0>>)
    /\ Plan(<<L, To, Open, C, To, Open, A, Semi, B, Close, Close>>, <<0, 1, 1, 1>>, <<1, 2, 0, 0>>)
    /\ Plan(<<L, To, Open, Open, A, Semi, B, Close, To, C, Close>>, <<0, 0, 0, 3>>, <<1, 1, 1, 0>>)
    /\ Plan(<<A, To, B, To, Open, C, To, M, Close>>, <<0, 1, 1, 2>>, <<1, 2, 1, 0>>)
    /\ Plan(<<A, To, B, To, Open, L, To, Open, C, Semi, M, Close, Semi, C, Close>>,
            <<0, 1, 1, 1, 1, 1>>, <<1, 2, 2, 0, 0, 0>>)
    /\ Plan(<<L, To, Open, C, Semi, M, Close>>, <<0, 1, 1>>, <<2, 0, 0>>)
    /\ Plan(<<Open, A, Semi, B, Close, To, C>>, <<0, 0, 2>>, <<1, 1, 0>>)
    /\ Plan(<<A, B>>, <<0>>, <<0>>)

ASSUME RefusedByTheTests ==
    \A words \in {<<Open, Close>>, <<Open, A, Semi, Open, Close, Close>>, <<To, L>>, <<L, To>>, <<L, To, C, To>>,
                  <<L, To, To, C>>, <<L, To, Open, C, Semi, Semi, M, Close>>, <<L, To, Open, Semi, A, Close>>,
                  <<Open, L>>, <<L, Close>>, <<W(Quote), L>>} :
        pur_parse_command(Words(words)).rc # "ok"

\* What parse.c:301 takes and the grammar of parse.c:11-14 does not derive.
ASSUME TakenBeyondTheGrammar ==
    LET taken == Words(<<Open, C, Semi, Close>>)
        refused == {Words(<<Open, Semi, Close>>), Words(<<Open, C, Semi, Semi, Close>>)}
    IN  /\ pur_parse_command(taken).rc = "ok" /\ ~Command(tokenize(taken))
        /\ \A line0 \in refused : pur_parse_command(line0).rc = "syntax"
=============================================================================
