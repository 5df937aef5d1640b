------------------------------- MODULE Pcrutils -------------------------------
(***************************************************************************)
(* What the utilities do with their streams (pcrutils/src), as data: where *)
(* a program reads, what it does with each chunk, to which out streams it  *)
(* writes, and how it ends when a write fails.  A chunk is what one read   *)
(* returns; it is one line, and so is what a program prints.               *)
(*                                                                         *)
(* A word is a sequence of letters.  An option of "head" has one digit.    *)
(***************************************************************************)
EXTENDS Integers, Sequences, FiniteSetsExt

CONSTANTS
    Files,    \* the words that name a regular file
    Chunks    \* what there is to read in each

ASSUME PcrutilsAssumption == Chunks \in Nat

-----------------------------------------------------------------------------
(***************************************************************************)
(* Arguments.                                                              *)
(***************************************************************************)
Flag(letter) == <<"-", letter>>
IsOption(word) == Len(word) > 1 /\ word[1] = "-"
Arguments(argv) == {argv[i] : i \in 2..Len(argv)}

\* The place of the first argument that is not an option, and what comes before.
First(argv) == Min({i \in 2..(Len(argv) + 1) : i > Len(argv) \/ ~IsOption(argv[i])})
Options(argv) == {argv[i] : i \in 2..(First(argv) - 1)}
Paths(argv) == SubSeq(argv, First(argv), Len(argv))

-----------------------------------------------------------------------------
(***************************************************************************)
(* Programs.  A source is an in stream, a file, or the program itself.     *)
(***************************************************************************)
InStream(s) == [kind |-> "stream", of |-> s]
InFile(path) == [kind |-> "file", of |-> path]
Itself == [kind |-> "self"]
InFiles(paths) == [i \in 1..Len(paths) |-> InFile(paths[i])]
InStreams(n) == [s \in 1..n |-> InStream(s)]
NoLimit == -1

Nothing ==
    [from    |-> <<>>,      \* the sources, one after the other
     each    |-> FALSE,     \* writes each chunk before it reads the next
     keeps   |-> FALSE,     \* writes all it has read when the sources have ended
     picks   |-> "all",     \* how much of it: "all", "some", or "any", which may be none
     reports |-> FALSE,     \* prints a line when a source has ended
     next    |-> FALSE,     \* goes on to the next source when one fails
     patient |-> TRUE,      \* when a write fails, the other out streams get theirs
     outs    |-> 0,         \* how many out streams it writes to
     limit   |-> NoLimit,   \* how many chunks it wants
     prints  |-> 0,         \* what it prints at once, to end with exit
     exit    |-> 0,
     failure |-> -1]        \* its exit status when something has failed

Copies(from, outs) == [Nothing EXCEPT !.from = from, !.each = TRUE, !.outs = outs]
Collects(from, outs) == [Nothing EXCEPT !.from = from, !.keeps = TRUE, !.outs = outs]

\* It has said what is wrong with its arguments, or its help.
Quits == [Nothing EXCEPT !.prints = 1, !.exit = -1]
Says == [Nothing EXCEPT !.prints = 1]

\* With -o, only the first out stream.
Outs(options, nout) == IF Flag("o") \in options THEN 1 ELSE nout

cat(argv, nout) ==
    IF ~(Options(argv) \subseteq {Flag("o")}) THEN Quits
    ELSE IF Paths(argv) = <<>> THEN Copies(InStreams(1), Outs(Options(argv), nout))
    ELSE [Copies(InFiles(Paths(argv)), Outs(Options(argv), nout)) EXCEPT !.next = TRUE]

in(argv, nout) ==
    LET after == {argv[i] : i \in 3..Len(argv)}
    IN  IF Len(argv) < 2 \/ ~(after \subseteq {Flag("o")}) THEN Quits
        ELSE Copies(<<InFile(argv[2])>>, Outs(after, nout))

mul(argv, nout) == IF Len(argv) > 1 THEN Quits ELSE Copies(InStreams(1), nout)

Digits == {"0", "1", "2", "3"}
Value(digit) == CHOOSE v \in 0..3 : digit = <<"0", "1", "2", "3">>[v + 1]

\* It stops at the first write that fails, and after as many lines as it wants.
head_lines(argv, nout) ==
    LET counts == {i \in 2..Len(argv) : Len(argv[i]) = 2 /\ argv[i][2] \in Digits}
        want == IF counts = {} THEN 10 ELSE Value(argv[Max(counts)][2])
    IN  IF ~(Arguments(argv) \subseteq {Flag(c) : c \in Digits \union {"o"}}) THEN Quits
        ELSE [Copies(InStreams(1), Outs(Arguments(argv), nout)) EXCEPT !.limit = want, !.patient = FALSE]

\* Some of the lines, as they come.
grep(argv, nout) ==
    IF Len(Paths(argv)) # 1 \/ ~(Options(argv) \subseteq {Flag("o")}) THEN Quits
    ELSE [Copies(InStreams(1), Outs(Options(argv), nout)) EXCEPT !.picks = "any"]

\* Until one of its out streams takes no more: that is a good end.
yes(argv, nout) == [Copies(<<Itself>>, nout) EXCEPT !.failure = 0]

echo(argv, nout) == Says

\* Its in streams one after the other, and files if it is given any.
wc(argv, nin, nout) ==
    LET streams == IF Paths(argv) = <<>> \/ Flag("s") \in Options(argv) THEN InStreams(nin) ELSE <<>>
    IN  IF ~(Options(argv) \subseteq {Flag(c) : c \in {"l", "w", "c", "s"}}) THEN Quits
        ELSE [Nothing EXCEPT !.from = streams \o InFiles(Paths(argv)), !.reports = TRUE, !.next = TRUE]

\* All of in0 is read before any of it is written.
Sorts(argv, nout, flags) ==
    IF ~(Arguments(argv) \subseteq {Flag(c) : c \in flags}) THEN Quits
    ELSE Collects(InStreams(1), Outs(Arguments(argv), nout))

sort(argv, nout) == Sorts(argv, nout, {"r", "n", "o"})
tac(argv, nout) == Sorts(argv, nout, {"o"})
rev(argv, nout) == Sorts(argv, nout, {"o"})
uniq(argv, nout) ==
    LET p == Sorts(argv, nout, {"c", "d", "u", "o"})
    IN  IF p = Quits THEN p
        ELSE [p EXCEPT !.picks = IF Arguments(argv) \intersect {Flag("d"), Flag("u")} = {} THEN "some" ELSE "any"]

\* The lines of in0 and of in1, side by side.
paste(argv, nin, nout) ==
    IF ~(Arguments(argv) \subseteq {Flag("o")}) THEN Quits
    ELSE Collects(InStreams(Min({nin, 2})), Outs(Arguments(argv), nout))

\* To files, which are there or are made; the out streams are left alone.
tee(argv) == IF Paths(argv) = <<>> \/ ~(Options(argv) \subseteq {Flag("a")}) THEN Quits ELSE Copies(InStreams(1), 0)

out(argv, nin) ==
    IF Len(Paths(argv)) # 1 \/ ~(Options(argv) \subseteq {Flag("a")}) THEN Quits
    ELSE IF Paths(argv)[1] \notin Files THEN Quits
    ELSE Copies(InStreams(nin), 0)

Utilities ==
    {"cat", "in", "mul", "head", "grep", "yes", "echo", "wc", "sort", "tac", "rev", "uniq", "paste", "tee", "out"}

\* The program of a command line with nin in streams and nout out streams.
Program(argv, nin, nout) ==
    LET name == argv[1][1]
    IN  CASE name = "echo" -> echo(argv, nout)
          [] name # "echo" /\ Flag("h") \in Arguments(argv) -> Says
          [] name = "cat" -> cat(argv, nout)
          [] name = "in" -> in(argv, nout)
          [] name = "mul" -> mul(argv, nout)
          [] name = "head" -> head_lines(argv, nout)
          [] name = "grep" -> grep(argv, nout)
          [] name = "yes" -> yes(argv, nout)
          [] name = "wc" -> wc(argv, nin, nout)
          [] name = "sort" -> sort(argv, nout)
          [] name = "tac" -> tac(argv, nout)
          [] name = "rev" -> rev(argv, nout)
          [] name = "uniq" -> uniq(argv, nout)
          [] name = "paste" -> paste(argv, nin, nout)
          [] name = "tee" -> tee(argv)
          [] name = "out" -> out(argv, nin)

-----------------------------------------------------------------------------
(***************************************************************************)
(* A running program: what it does next, and with which stream.            *)
(***************************************************************************)

\* What comes next when nothing is at hand: a source, what was kept, or the end.
Ahead(p, k) ==
    [k EXCEPT !.phase = IF k.at <= Len(p.from) THEN "read" ELSE IF k.held > 0 THEN "write" ELSE "gone",
              !.out = 1]

Started(p) ==
    LET k == [phase |-> "print", at |-> 1, got |-> 0, held |-> 0, out |-> 1, bad |-> FALSE,
              left |-> p.limit, last |-> TRUE, status |-> p.exit]
    IN  IF p.prints > 0 THEN k ELSE Ahead(p, k)

\* Something has failed: it says so, and gives up all or only this source.
Stumbles(p, k) ==
    LET said == [k EXCEPT !.phase = "print", !.out = 1, !.status = p.failure, !.bad = FALSE, !.held = 0]
    IN  IF p.failure = 0 THEN [k EXCEPT !.phase = "gone"]
        ELSE IF p.next THEN [said EXCEPT !.at = @ + 1, !.got = 0, !.last = FALSE]
        ELSE [said EXCEPT !.last = TRUE]

\* A read returned a chunk: what can be done with it.
Took(p, k) ==
    LET more == [k EXCEPT !.got = IF p.keeps \/ p.from[k.at].kind = "file" THEN @ + 1 ELSE @, !.left = IF @ > 0 THEN @ - 1 ELSE @]
        passes == [more EXCEPT !.phase = "write", !.out = 1]
    IN  IF ~p.each \/ p.outs = 0 THEN {more}
        ELSE IF k.left = 0 THEN {[k EXCEPT !.phase = "gone"]}
        ELSE IF p.picks = "any" THEN {more, passes}
        ELSE {passes}

\* A read returned 0.
Ended(p, k) ==
    LET most == IF p.keeps THEN Max({k.held, k.got}) ELSE 0
        left == CASE p.picks = "all" -> {most} [] p.picks = "some" -> Min({1, most})..most [] OTHER -> 0..most
        over(h) == [k EXCEPT !.at = @ + 1, !.got = 0, !.held = h]
    IN  IF p.reports THEN {[over(0) EXCEPT !.phase = "print", !.out = 1, !.last = FALSE]}
        ELSE {Ahead(p, over(h)) : h \in left}

\* A chunk was written to out stream k.out, or could not be.
Wrote(p, k, ok) ==
    LET over == [k EXCEPT !.held = IF p.keeps THEN @ - 1 ELSE @]
    IN  IF ~ok /\ ~p.patient THEN Stumbles(p, k)
        ELSE IF k.out < p.outs THEN [k EXCEPT !.out = @ + 1, !.bad = @ \/ ~ok]
        ELSE IF k.bad \/ ~ok THEN Stumbles(p, k)
        ELSE IF k.left = 0 THEN [k EXCEPT !.phase = "gone"]
        ELSE Ahead(p, over)

\* What it printed has gone to out0, or nowhere: nobody looks.
Printed(p, k) == IF k.last THEN [k EXCEPT !.phase = "gone"] ELSE Ahead(p, k)
=============================================================================
