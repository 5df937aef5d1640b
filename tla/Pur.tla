---------------------------------- MODULE Pur ----------------------------------
(***************************************************************************)
(* pur, the shell: a line is read and parsed, and its commands are wired   *)
(* together with pipes, started, and waited for (pur/src/exec.c, run.c,    *)
(* main.c), while the programs it has started run.                         *)
(*                                                                         *)
(* A pipe is the number of chunks in it; Cap fit.  The keyboard gives its  *)
(* lines to whoever has claimed it, one at a time.  Writing to the console *)
(* never waits.  One line is read and run.                                 *)
(***************************************************************************)
EXTENDS PurParse, Pcrutils

CONSTANTS
    PUR_MAX_PIPES,    \* pipes in an expression
    PUR_MAX_STREAMS,  \* in streams, and out streams, of a command
    Dirs,             \* the words that name a directory
    Cap,              \* chunks that fit in a pipe
    MaxTyped,         \* letters of a line that need not lead anywhere
    Letters,          \* the characters such lines are made of
    Lines,            \* the lines that are run
    MaxKeys,          \* lines typed for the programs
    Faults            \* calls that fail for want of a resource

ASSUME PurAssumption ==
    {PUR_MAX_PIPES, PUR_MAX_STREAMS, Cap, MaxTyped, MaxKeys, Faults} \subseteq Nat

-----------------------------------------------------------------------------
(***************************************************************************)
(* Wiring.  What is wired so far: the return code and the edges, each from *)
(* a command to a command.  The streams of a command are its edges, in the *)
(* order they came.                                                        *)
(***************************************************************************)
EdgesFrom(edges, n) == SelectSeq([e \in 1..Len(edges) |-> e], LAMBDA e : edges[e].src = n)
EdgesTo(edges, n) == SelectSeq([e \in 1..Len(edges) |-> e], LAMBDA e : edges[e].dst = n)

add_edge(w, src, dst) ==
    CASE w.rc # "ok" \/ src = dst \/ [src |-> src, dst |-> dst] \in Range(w.edges) -> w
      [] Len(w.edges) >= PUR_MAX_PIPES -> [w EXCEPT !.rc = "pipes"]
      [] \/ Len(EdgesFrom(w.edges, src)) >= PUR_MAX_STREAMS
         \/ Len(EdgesTo(w.edges, dst)) >= PUR_MAX_STREAMS -> [w EXCEPT !.rc = "streams"]
      [] OTHER -> [w EXCEPT !.edges = Append(@, [src |-> src, dst |-> dst])]

AllTo(w, srcs, leaf) == FoldLeft(LAMBDA v, src : add_edge(v, src, leaf), w, srcs)

RECURSIVE outputs_collect(_), deliver_internal(_, _, _), wire_internals(_, _, _)

\* The commands whose output leaves this part of the tree.
outputs_collect(node) ==
    CASE node.kind = "leaf" -> <<node.first>>
      [] node.kind = "group" -> FlattenSeq([i \in DOMAIN node.members |-> outputs_collect(node.members[i])])
      [] OTHER -> outputs_collect(node.rhs)

\* Output of the left side of a '>' in a group goes all the way down on the right.
deliver_internal(w, srcs, node) ==
    CASE node.kind = "leaf" -> AllTo(w, srcs, node.first)
      [] node.kind = "group" -> FoldLeft(LAMBDA v, member : deliver_internal(v, srcs, member), w, node.members)
      [] OTHER -> deliver_internal(w, srcs, node.rhs)

LeafSide(w, srcs, node) == IF node.kind = "leaf" THEN AllTo(w, srcs, node.first) ELSE w
wire_bare_sides(w, srcs, node) == LeafSide(LeafSide(w, srcs, node.first), srcs, node.rhs)

\* What comes from outside goes to the commands at hand; a group is a boundary.
Outside(w, srcs, node) ==
    CASE node.kind = "leaf" -> AllTo(w, srcs, node.first)
      [] node.kind = "expr" -> wire_bare_sides(w, srcs, node)
      [] OTHER -> w
deliver_external(w, srcs, node) ==
    IF node.kind = "group" THEN FoldLeft(LAMBDA v, member : Outside(v, srcs, member), w, node.members)
    ELSE Outside(w, srcs, node)

\* All but the '>' of the root.
wire_internals(w, node, wire_self) ==
    LET sides == wire_internals(wire_internals(w, node.first, TRUE), node.rhs, TRUE)
    IN  CASE node.kind = "leaf" -> w
          [] node.kind = "group" -> FoldLeft(LAMBDA v, member : wire_internals(v, member, TRUE), w, node.members)
          [] OTHER -> IF wire_self THEN deliver_internal(sides, outputs_collect(node.first), node.rhs) ELSE sides

\* A command alone, or a group, has no edges.
wire_graph(root) ==
    LET unwired == [rc |-> "ok", edges |-> <<>>]
    IN  IF root.kind # "expr" THEN unwired
        ELSE deliver_external(wire_internals(unwired, root, FALSE), outputs_collect(root.first), root.rhs)

\* What -n prints of the first expression: the streams of each command.
pur_exec_plan(line) ==
    LET s == Loaded(tokenize(line), 1)
        w == wire_graph(s.tree)
    IN  [n \in DOMAIN s.leaves |->
            [name |-> s.leaves[n][1], in |-> Len(EdgesTo(w.edges, n)), out |-> Len(EdgesFrom(w.edges, n))]]

-----------------------------------------------------------------------------
(***************************************************************************)
(* State.  A job is an expression that has been started: its commands, its *)
(* edges, the chunks in each pipe and the programs started so far.         *)
(***************************************************************************)
VARIABLES
    line,     \* what has been typed
    cmd,      \* what was entered: the expressions, and the operators between them
    sh,       \* where the shell is: in which expression, at which command or call
    mine,     \* the handles it has open for this expression
    jobs,     \* the job of each expression
    kbd,      \* who has claimed the keyboard
    keys,     \* lines given to programs so far
    faults    \* calls that have failed so far

purVars == <<line, cmd, sh, mine, jobs, kbd, keys, faults>>

Nobody == <<0, 0>>
Shell == <<0, 1>>
NoCommand == [exprs |-> <<>>, ops |-> <<>>]
NoJob == [argv |-> <<>>, edges |-> <<>>, fill |-> <<>>, kids |-> <<>>]

PurInit ==
    /\ line = <<>>
    /\ cmd = NoCommand
    /\ sh = [pc |-> "prompt", expr |-> 0, at |-> 1, status |-> 0, then |-> "load"]
    /\ mine = {}
    /\ jobs = [j \in 1..PUR_MAX_EXPRS |-> NoJob]
    /\ kbd = Nobody
    /\ keys = 0
    /\ faults = 0

job == jobs[sh.expr]
Command_ == pur_parse_command(line)

\* Handles of the shell: default streams of command n, the ends of pipe e.
InHandle(n) == <<"in", n>>
OutHandle(n) == <<"out", n>>
ReadEnd(e) == <<"read", e>>
WriteEnd(e) == <<"write", e>>

\* The default streams that have to be opened, in order.
Defaults(b) ==
    LET of(n) == (IF EdgesTo(b.edges, n) = <<>> THEN <<InHandle(n)>> ELSE <<>>)
                     \o (IF EdgesFrom(b.edges, n) = <<>> THEN <<OutHandle(n)>> ELSE <<>>)
    IN  FlattenSeq([n \in DOMAIN b.argv |-> of(n)])

\* The order in which close_all goes through them.
AllHandles(b) ==
    FlattenSeq([e \in DOMAIN b.edges |-> <<ReadEnd(e), WriteEnd(e)>>]) \o Defaults(b)

Lives(j, n) == n \in DOMAIN jobs[j].kids /\ jobs[j].kids[n].phase # "gone"
Written(j, e) == Lives(j, jobs[j].edges[e].src) \/ (j = sh.expr /\ WriteEnd(e) \in mine)
Read(j, e) == Lives(j, jobs[j].edges[e].dst) \/ (j = sh.expr /\ ReadEnd(e) \in mine)

NumStreams(edges) == IF edges = <<>> THEN 1 ELSE Len(edges)
ProgramOf(b, n) == Program(b.argv[n], NumStreams(EdgesTo(b.edges, n)), NumStreams(EdgesFrom(b.edges, n)))

-----------------------------------------------------------------------------
(***************************************************************************)
(* The prompt.                                                             *)
(***************************************************************************)

\* Its read claims the keyboard, or is refused and tried again.
ReadsLine ==
    /\ sh.pc = "prompt" /\ kbd = Nobody
    /\ kbd' = Shell
    /\ UNCHANGED <<line, cmd, sh, mine, jobs, keys, faults>>

\* What is typed may still become a line, or is the beginning of one that is run.
Viable ==
    LET r == Command_
    IN  r.rc \in {"ok", "empty", "quote"} \/ (r.rc \notin Limits /\ r.pos > Len(tokenize(line)))

Types(c) ==
    /\ sh.pc = "prompt" /\ kbd = Shell /\ sh.expr = 0
    /\ \/ c \in Letters /\ Len(line) < MaxTyped /\ Viable
       \/ \E l \in Lines : IsPrefix(Append(line, c), l)
    /\ line' = Append(line, c)
    /\ UNCHANGED <<cmd, sh, mine, jobs, kbd, keys, faults>>

\* pur_parse_load and wire_graph: the commands of the expression that starts here.
LoadedAt(start) ==
    LET s == Loaded(tokenize(line), start)
    IN  [leaves |-> s.leaves, wired |-> wire_graph(s.tree)]

\* A line that does not parse is complained about; the others are run.
Enters ==
    /\ sh.pc = "prompt" /\ kbd = Shell /\ sh.expr = 0
    /\ line \in Lines
    /\ kbd' = Nobody
    /\ IF Command_.rc = "ok"
       THEN /\ cmd' = [exprs |-> [i \in DOMAIN Command_.starts |-> LoadedAt(Command_.starts[i])], ops |-> Command_.ops]
            /\ sh' = [sh EXCEPT !.pc = "load", !.expr = 1]
       ELSE sh' = [sh EXCEPT !.expr = 1] /\ UNCHANGED cmd
    /\ UNCHANGED <<line, mine, jobs, keys, faults>>

-----------------------------------------------------------------------------
(***************************************************************************)
(* run.c: one expression after the other.                                  *)
(***************************************************************************)
pur_op_should_run(op, status) ==
    CASE op = "&&" -> status = 0
      [] op = "||" -> status # 0
      [] OTHER -> TRUE

\* On to the next expression, or back to the prompt.
NextExpr(s, status) ==
    IF s.expr = Len(cmd.exprs) THEN [s EXCEPT !.pc = "prompt", !.status = status, !.at = 1]
    ELSE [s EXCEPT !.pc = "load", !.expr = @ + 1, !.status = status, !.at = 1]

Builtins == {<<"help">>, <<"exit">>, <<"cd">>}

\* A built-in that is a command by itself.
BuiltinStatus(argv) ==
    IF argv[1] = <<"cd">> /\ (Len(argv) < 2 \/ argv[2] \notin Dirs) THEN 1 ELSE 0

\* Why a command cannot be started at all: 127 is for one that does not exist.
\* An empty word, put behind PUR_PATH, is the directory of the programs.
check_leaf(argv) ==
    CASE argv[1] = <<>> \/ argv[1] \in Dirs -> 1
      [] Len(argv[1]) = 1 /\ argv[1][1] \in Utilities -> 0
      [] OTHER -> 127
Unfit(leaves) ==
    LET bad == {n \in DOMAIN leaves : check_leaf(leaves[n]) # 0}
    IN  IF \E n \in DOMAIN leaves : leaves[n][1] \in Builtins THEN 1
        ELSE IF bad = {} THEN 0 ELSE check_leaf(leaves[Min(bad)])

\* An expression that is not run leaves the status alone.
Skipped(s) == NextExpr(s, s.status)

Loads ==
    LET leaves == cmd.exprs[sh.expr].leaves
        w == cmd.exprs[sh.expr].wired
        runs == IF sh.expr = 1 THEN TRUE ELSE pur_op_should_run(cmd.ops[sh.expr - 1], sh.status)
        alone == Len(leaves) = 1 /\ w.edges = <<>> /\ leaves[1][1] \in Builtins
    IN  /\ sh.pc = "load"
        /\ \/ ~runs /\ sh' = Skipped(sh) /\ UNCHANGED jobs
           \/ runs /\ w.rc # "ok" /\ sh' = NextExpr(sh, 1) /\ UNCHANGED jobs
           \/ /\ runs /\ w.rc = "ok" /\ alone
              /\ sh' = IF leaves[1][1] = <<"exit">> THEN [sh EXCEPT !.pc = "gone"]
                       ELSE NextExpr(sh, BuiltinStatus(leaves[1]))
              /\ UNCHANGED jobs
           \/ /\ runs /\ w.rc = "ok" /\ ~alone /\ Unfit(leaves) # 0
              /\ sh' = NextExpr(sh, Unfit(leaves))
              /\ UNCHANGED jobs
           \/ /\ runs /\ w.rc = "ok" /\ ~alone /\ Unfit(leaves) = 0
              /\ jobs' = [jobs EXCEPT ![sh.expr] =
                     [argv |-> leaves, edges |-> w.edges, fill |-> [e \in DOMAIN w.edges |-> 0], kids |-> <<>>]]
              /\ sh' = [sh EXCEPT !.pc = "open", !.at = 1]
        /\ UNCHANGED <<line, cmd, mine, kbd, keys, faults>>

-----------------------------------------------------------------------------
(***************************************************************************)
(* exec.c: the streams are opened, the commands started, the shell's own   *)
(* handles closed, and the commands waited for.                            *)
(***************************************************************************)
GivesUp ==
    /\ faults < Faults /\ faults' = faults + 1
    /\ sh' = [sh EXCEPT !.pc = "close", !.at = 1, !.then = "fail"]
    /\ UNCHANGED <<mine, jobs>>

\* wire_defaults and create_pipes: call number sh.at of one of them.
Opens(pc, number, handles(_), next) ==
    /\ sh.pc = pc
    /\ \/ /\ sh.at > number
          /\ sh' = [sh EXCEPT !.pc = next, !.at = 1]
          /\ UNCHANGED <<mine, jobs, faults>>
       \/ /\ sh.at <= number
          /\ mine' = mine \union handles(sh.at)
          /\ sh' = [sh EXCEPT !.at = @ + 1]
          /\ UNCHANGED <<jobs, faults>>
       \/ sh.at <= number /\ GivesUp
    /\ UNCHANGED <<line, cmd, kbd, keys>>

wire_defaults == Opens("open", Len(Defaults(job)), LAMBDA i : {Defaults(job)[i]}, "pipes")
create_pipes == Opens("pipes", Len(job.edges), LAMBDA e : {ReadEnd(e), WriteEnd(e)}, "start")

\* The next command gets its streams and starts.
Starts ==
    /\ sh.pc = "start"
    /\ \/ /\ sh.at > Len(job.argv)
          /\ sh' = [sh EXCEPT !.pc = "close", !.at = 1, !.then = "wait"]
          /\ UNCHANGED <<mine, jobs, faults>>
       \/ /\ sh.at <= Len(job.argv)
          /\ jobs' = [jobs EXCEPT ![sh.expr].kids = Append(@, Started(ProgramOf(job, sh.at)))]
          /\ sh' = [sh EXCEPT !.at = @ + 1]
          /\ UNCHANGED <<mine, faults>>
       \/ sh.at <= Len(job.argv) /\ GivesUp
    /\ UNCHANGED <<line, cmd, kbd, keys>>

\* As a bug: the write ends stay open.
ToClose_Reads(b) == SelectSeq(AllHandles(b), LAMBDA h : h \in mine /\ h[1] # "write")

\* What close_all has still to close.
ToClose(b) == SelectSeq(AllHandles(b), LAMBDA h : h \in mine)

close_all ==
    /\ sh.pc = "close"
    /\ IF ToClose(job) # <<>>
       THEN mine' = mine \ {Head(ToClose(job))} /\ UNCHANGED sh
       ELSE /\ sh' = IF sh.then = "fail" THEN NextExpr(sh, 1) ELSE [sh EXCEPT !.pc = "wait", !.at = 1, !.status = 0]
            /\ UNCHANGED mine
    /\ UNCHANGED <<line, cmd, jobs, kbd, keys, faults>>

\* As a bug: only the first command is waited for.
Awaited_First(b) == {1}

\* The commands the shell waits for.
Awaited(b) == DOMAIN b.argv

\* The lowest status that is not 0.
Lowest(low, status) == IF status # 0 /\ (low = 0 \/ status < low) THEN status ELSE low

\* A job that has ended is told from the next one no more.
Forgotten(b) == IF \A n \in DOMAIN b.kids : b.kids[n].phase = "gone" THEN NoJob ELSE b

Waits ==
    /\ sh.pc = "wait"
    /\ IF sh.at \in Awaited(job)
       THEN /\ ~Lives(sh.expr, sh.at)
            /\ sh' = [sh EXCEPT !.at = @ + 1, !.status = Lowest(@, job.kids[sh.at].status)]
            /\ UNCHANGED jobs
       ELSE sh' = NextExpr(sh, sh.status) /\ jobs' = [jobs EXCEPT ![sh.expr] = Forgotten(@)]
    /\ UNCHANGED <<line, cmd, mine, kbd, keys, faults>>

ShellStep == Loads \/ wire_defaults \/ create_pipes \/ Starts \/ close_all \/ Waits

-----------------------------------------------------------------------------
(***************************************************************************)
(* The programs: command n of job j.                                       *)
(***************************************************************************)
KidIs(j, n, k) == jobs' = [jobs EXCEPT ![j].kids[n] = k]

\* Its pipe on in or out stream s; 0 is the keyboard or the console.
Pipe_(edges, s) == IF edges = <<>> THEN 0 ELSE edges[s]

\* A read at the source it is at.
Reads(j, n) ==
    LET b == jobs[j]
        k == b.kids[n]
        p == ProgramOf(b, n)
        source == p.from[k.at]
        e == Pipe_(EdgesTo(b.edges, n), source.of)
    IN  /\ Lives(j, n) /\ k.phase = "read"
        /\ \/ /\ source.kind = "self"
              /\ \E k2 \in Took(p, k) : KidIs(j, n, k2)
              /\ UNCHANGED <<kbd, keys>>
           \/ /\ source.kind = "file"
              /\ IF source.of \notin Files THEN KidIs(j, n, Stumbles(p, k))
                 ELSE \E k2 \in IF k.got < Chunks THEN Took(p, k) ELSE Ended(p, k) : KidIs(j, n, k2)
              /\ UNCHANGED <<kbd, keys>>
           \/ /\ source.kind = "stream" /\ e > 0 /\ b.fill[e] > 0
              /\ \E k2 \in Took(p, k) : jobs' = [jobs EXCEPT ![j].kids[n] = k2, ![j].fill[e] = @ - 1]
              /\ UNCHANGED <<kbd, keys>>
           \/ /\ source.kind = "stream" /\ e > 0 /\ b.fill[e] = 0 /\ ~Written(j, e)
              /\ \E k2 \in Ended(p, k) : KidIs(j, n, k2)
              /\ UNCHANGED <<kbd, keys>>
           \/ /\ source.kind = "stream" /\ e = 0 /\ kbd = Nobody
              /\ kbd' = <<j, n>>
              /\ UNCHANGED <<jobs, keys>>
           \/ /\ source.kind = "stream" /\ e = 0 /\ kbd \notin {Nobody, <<j, n>>}
              /\ KidIs(j, n, Stumbles(p, k))
              /\ UNCHANGED <<kbd, keys>>
        /\ UNCHANGED <<line, cmd, sh, mine, faults>>

\* A line is typed for it, or the end.
Answered(j, n) ==
    LET k == jobs[j].kids[n]
        p == ProgramOf(jobs[j], n)
    IN  /\ kbd = <<j, n>>
        /\ \/ keys < MaxKeys /\ keys' = keys + 1 /\ \E k2 \in Took(p, k) : KidIs(j, n, k2)
           \/ UNCHANGED keys /\ \E k2 \in Ended(p, k) : KidIs(j, n, k2)
        /\ kbd' = Nobody
        /\ UNCHANGED <<line, cmd, sh, mine, faults>>

\* A write waits while the pipe is full and fails when nobody reads it.
Writes(j, n) ==
    LET b == jobs[j]
        k == b.kids[n]
        p == ProgramOf(b, n)
        e == Pipe_(EdgesFrom(b.edges, n), k.out)
        next(ok) == IF k.phase = "print" THEN Printed(p, k) ELSE Wrote(p, k, ok)
    IN  /\ Lives(j, n) /\ k.phase \in {"write", "print"}
        /\ \/ e = 0 /\ KidIs(j, n, next(TRUE))
           \/ e > 0 /\ ~Read(j, e) /\ KidIs(j, n, next(FALSE))
           \/ /\ e > 0 /\ Read(j, e) /\ b.fill[e] < Cap
              /\ jobs' = [jobs EXCEPT ![j].kids[n] = next(TRUE), ![j].fill[e] = @ + 1]
        /\ UNCHANGED <<line, cmd, sh, mine, kbd, keys, faults>>

KidStep(j, n) == Lives(j, n) /\ (Reads(j, n) \/ Answered(j, n) \/ Writes(j, n))

PurNext ==
    \/ ReadsLine \/ Enters \/ ShellStep
    \/ \E c \in Letters \union UNION {Range(l) : l \in Lines} : Types(c)
    \/ \E j \in DOMAIN jobs : \E n \in DOMAIN jobs[j].kids : KidStep(j, n)

(* Every program runs, the shell too, and whoever sits at the keyboard     *)
(* answers a program that waits for a line, or ends its input.             *)
PurFairness ==
    /\ WF_purVars(ShellStep)
    /\ \A j \in 1..PUR_MAX_EXPRS, n \in 1..PUR_MAX_LEAVES : WF_purVars(KidStep(j, n))

-----------------------------------------------------------------------------
(***************************************************************************)
(* Properties.                                                             *)
(***************************************************************************)

\* The tokens that are left when a ";" right before a ")" is taken out.
WithoutLastSemi(t) ==
    FoldLeft(LAMBDA kept, p : IF t[p].type = ";" /\ TypeAt(t, p + 1) = ")" THEN kept ELSE Append(kept, t[p]),
             <<>>, [p \in DOMAIN t |-> p])

(* The shell takes a line exactly when the grammar derives it (parse.c:    *)
(* 11-14), whatever order the tokens come in, unless it is too large, and  *)
(* with one exception: a single ";" at the end of a group is passed over   *)
(* (parse.c:301-304), though no expression follows it as the grammar has   *)
(* it, so that what is taken is what the grammar derives once it is left   *)
(* out.  Neither "(;)" nor "(cat;;)" is taken.                             *)
ParsesGrammar ==
    LET t == tokenize(line)
        derived == Command(WithoutLastSemi(t))
        rc == Command_.rc
    IN  (sh.expr = 0 /\ t # <<>> /\ Last(t) # Unterminated) =>
            CASE rc = "ok" -> derived
              [] rc \in Limits -> TRUE
              [] OTHER -> ~derived

(* When the shell prompts again it has closed all it opened for the line,  *)
(* and nothing that it started still runs, unless a command could not be   *)
(* started (exec.c:583-598, which leaves those before it to themselves).   *)
PromptIsQuiet ==
    sh.pc = "prompt" =>
        /\ mine = {}
        /\ faults = 0 => \A j \in DOMAIN jobs : \A n \in DOMAIN jobs[j].kids : ~Lives(j, n)

(* Every line comes to its end: no program waits for ever for input that   *)
(* nobody writes, or with output that nobody reads (close_all and the wait *)
(* loop of exec.c, and how the utilities end).                             *)
StatementEnds == []<>(sh.pc \in {"prompt", "gone"})
=============================================================================
