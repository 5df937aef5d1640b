------------------------------- MODULE PurParse -------------------------------
(***************************************************************************)
(* How pur, the shell, reads a line: the tokens, the commands that the     *)
(* operators join, and the syntax tree of one of them (pur/src/parse.c).   *)
(*                                                                         *)
(* A line is a sequence of characters.  Whatever is not a blank, a quote   *)
(* or punctuation is a letter; names of commands are letters here.  The    *)
(* pools of tokens and nodes grow as needed, and memory for them does not  *)
(* run out.                                                                *)
(***************************************************************************)
EXTENDS Integers, Sequences, FiniteSets, FiniteSetsExt, SequencesExt

CONSTANTS
    PUR_MAX_LEAVES,   \* commands in an expression
    PUR_MAX_DEPTH,    \* groups and '>' inside each other
    PUR_MAX_ARGV,     \* words of a command
    PUR_MAX_EXPRS     \* expressions in a line

ASSUME PurParseAssumption ==
    {PUR_MAX_LEAVES, PUR_MAX_DEPTH, PUR_MAX_ARGV, PUR_MAX_EXPRS} \subseteq Nat \ {0}

Blank == " "
Quote == "quote"
Single == {"(", ")", ";", ">"}
Doubled == {"&", "|"}
Delimiters == {Blank, Quote} \union Single \union Doubled

-----------------------------------------------------------------------------
(***************************************************************************)
(* Tokens.                                                                 *)
(***************************************************************************)
Word(text) == [type |-> "word", text |-> text]
Mark(type) == [type |-> type, text |-> <<>>]
Unterminated == Mark("unterminated")

\* The first place from p on where the characters end that a word may have.
WordEnd(line, p) == Min({q \in p..(Len(line) + 1) : q > Len(line) \/ line[q] \in Delimiters})
Closing(line, p) == {q \in p..Len(line) : line[q] = Quote}

\* Two of '&' or '|' are one token; from the inside of quotes nothing is left out.
tokenize(line) ==
    LET from[p \in Nat] ==
            IF p > Len(line) THEN <<>>
            ELSE IF line[p] = Blank THEN from[p + 1]
            ELSE IF line[p] \in Single THEN <<Mark(line[p])>> \o from[p + 1]
            ELSE IF line[p] \in Doubled
            THEN IF p < Len(line) /\ line[p + 1] = line[p] THEN <<Mark(line[p] \o line[p])>> \o from[p + 2]
                 ELSE <<Mark(line[p])>> \o from[p + 1]
            ELSE IF line[p] = Quote
            THEN IF Closing(line, p + 1) = {} THEN <<Unterminated>>
                 ELSE LET q == Min(Closing(line, p + 1))
                      IN  <<Word(SubSeq(line, p + 1, q - 1))>> \o from[q + 1]
            ELSE <<Word(SubSeq(line, p, WordEnd(line, p) - 1))>> \o from[WordEnd(line, p)]
    IN  from[1]

TypeAt(t, p) == IF p > Len(t) THEN "end" ELSE t[p].type

-----------------------------------------------------------------------------
(***************************************************************************)
(* The parser.  What it has got so far: the return code, the place of the  *)
(* next token, the words of the commands in the order they came, and the   *)
(* tree.  A tree is a command, by its number, a group, or left > right.    *)
(***************************************************************************)
NoTree == [kind |-> "none"]
Leaf(n) == [kind |-> "leaf", first |-> n]
Group(members) == [kind |-> "group", members |-> members]
Expr(left, right) == [kind |-> "expr", first |-> left, rhs |-> right]

Fails(s, rc) == [s EXCEPT !.rc = rc]
Skips(s) == [s EXCEPT !.pos = @ + 1]

\* As many words as there are.
parse_leaf(t, s) ==
    LET next == Min({q \in s.pos..(Len(t) + 1) : TypeAt(t, q) # "word"})
        argv == [i \in 1..(next - s.pos) |-> t[s.pos + i - 1].text]
    IN  IF Len(argv) > PUR_MAX_ARGV THEN Fails([s EXCEPT !.pos = @ + PUR_MAX_ARGV], "argv")
        ELSE IF Len(s.leaves) = PUR_MAX_LEAVES THEN Fails([s EXCEPT !.pos = next], "leaves")
        ELSE [s EXCEPT !.pos = next, !.leaves = Append(@, argv), !.tree = Leaf(Len(s.leaves) + 1)]

RECURSIVE parse_expr(_, _, _), parse_group(_, _, _), Members(_, _, _, _), Folds(_, _, _, _)

parse_operand(t, s, depth) ==
    CASE TypeAt(t, s.pos) = "(" -> parse_group(t, s, depth)
      [] TypeAt(t, s.pos) = "word" -> parse_leaf(t, s)
      [] OTHER -> Fails(s, "syntax")

\* The members of a group from here on; one ';' may follow the last.
Members(t, s, depth, members) ==
    LET r == parse_expr(t, s, depth + 1)
        all == Append(members, r.tree)
        more == TypeAt(t, r.pos) = ";" /\ TypeAt(t, r.pos + 1) # ")"
        close == IF TypeAt(t, r.pos) = ";" THEN r.pos + 1 ELSE r.pos
    IN  IF r.rc # "ok" THEN r
        ELSE IF more THEN Members(t, Skips(r), depth, all)
        ELSE IF TypeAt(t, close) # ")" THEN Fails([r EXCEPT !.pos = close], "syntax")
        ELSE [r EXCEPT !.pos = close + 1, !.tree = IF Len(all) = 1 THEN all[1] ELSE Group(all)]

parse_group(t, s, depth) ==
    IF depth >= PUR_MAX_DEPTH THEN Fails(Skips(s), "complex")
    ELSE IF TypeAt(t, s.pos + 1) = ")" THEN Fails(Skips(s), "empty group")
    ELSE Members(t, Skips(s), depth, <<>>)

\* What follows the first operand: '>' folds to the left.
Folds(t, s, depth, fold) ==
    LET r == parse_operand(t, Skips(s), depth + fold)
    IN  IF TypeAt(t, s.pos) # ">" THEN s
        ELSE IF depth + fold > PUR_MAX_DEPTH THEN Fails(s, "complex")
        ELSE IF TypeAt(t, s.pos + 1) \notin {"word", "("} THEN Fails(Skips(s), "syntax")
        ELSE IF r.rc # "ok" THEN r
        ELSE Folds(t, [r EXCEPT !.tree = Expr(s.tree, r.tree)], depth, fold + 1)

parse_expr(t, s, depth) ==
    LET r == parse_operand(t, s, depth)
    IN  IF r.rc # "ok" THEN r ELSE Folds(t, r, depth, 1)

\* pur_parse_load: the expression that starts here.
Loaded(t, pos) == parse_expr(t, [rc |-> "ok", pos |-> pos, leaves |-> <<>>, tree |-> NoTree], 0)

-----------------------------------------------------------------------------
(***************************************************************************)
(* Lines.                                                                  *)
(***************************************************************************)
Operators == {"&&", "||", "&"}
Refused(rc, pos) == [rc |-> rc, pos |-> pos, starts |-> <<>>, ops |-> <<>>]

\* As a bug: what follows the last operator is not asked for.
NothingLeft_Fine(t, pos, ops) == "ok"

\* A line may not end in an operator.
NothingLeft(t, pos, ops) == IF ops[Len(ops)] = "&" THEN "trailing &" ELSE "operator"

\* The expressions from here on, with those before and the operators after them.
RECURSIVE Chain(_, _, _, _)
Chain(t, pos, starts, ops) ==
    LET r == Loaded(t, pos)
        after == TypeAt(t, r.pos)
        here == [rc |-> "ok", pos |-> pos, starts |-> starts, ops |-> ops]
    IN  CASE TypeAt(t, pos) = "|" -> Refused("reserved", pos)
          [] TypeAt(t, pos) \in Operators -> Refused("operator", pos)
          [] TypeAt(t, pos) = "end" -> [here EXCEPT !.rc = NothingLeft(t, pos, ops)]
          [] OTHER ->
                IF Len(starts) = PUR_MAX_EXPRS THEN Refused("exprs", pos)
                ELSE IF r.rc # "ok" THEN Refused(r.rc, r.pos)
                ELSE IF after = "end" THEN [here EXCEPT !.pos = r.pos, !.starts = Append(@, pos)]
                ELSE IF after = "|" THEN Refused("reserved", r.pos)
                ELSE IF after \notin Operators THEN Refused("syntax", r.pos)
                ELSE Chain(t, r.pos + 1, Append(starts, pos), Append(ops, after))

\* pur_parse_command: all of the line is read before any of it runs.
pur_parse_command(line) ==
    LET t == tokenize(line)
    IN  IF t # <<>> /\ t[Len(t)] = Unterminated THEN Refused("quote", Len(t))
        ELSE IF t = <<>> THEN Refused("empty", 1)
        ELSE Chain(t, 1, <<>>, <<>>)

-----------------------------------------------------------------------------
(***************************************************************************)
(* The grammar of parse.c:11-14, which says what can be derived, but not   *)
(* how.                                                                    *)
(***************************************************************************)

\* All <<what, i, k>> such that what can be derived from tokens i..k - 1: from those
\* that are shorter than n, those of length n.
Longer(t, d, n) ==
    LET spans == {<<i, i + n>> : i \in 1..(Len(t) + 1 - n)}
        isOperand(i, k) ==
            \/ \A p \in i..(k - 1) : t[p].type = "word"
            \/ /\ t[i].type = "(" /\ t[k - 1].type = ")"
               /\ <<"members", i + 1, k - 1>> \in d
        joined(d1, left, mark, right, i, k) ==
            \E p \in (i + 1)..(k - 2) : t[p].type = mark /\ <<left, i, p>> \in d1 /\ <<right, p + 1, k>> \in d1
        operands == {s \in spans : isOperand(s[1], s[2])}
        expressions == operands \union {s \in spans : joined(d, "expression", ">", "operand", s[1], s[2])}
        members == expressions \union {s \in spans : joined(d, "members", ";", "expression", s[1], s[2])}
    IN  d \union {<<"operand", s[1], s[2]>> : s \in operands}
          \union {<<"expression", s[1], s[2]>> : s \in expressions}
          \union {<<"members", s[1], s[2]>> : s \in members}
Derives(t) == FoldLeft(LAMBDA d, n : Longer(t, d, n), {}, [n \in 1..Len(t) |-> n])

Command(t) ==
    LET d == Derives(t)
        ops == {p \in DOMAIN t : t[p].type \in Operators}
        starts == {1} \union {p + 1 : p \in ops}
        ends == ops \union {Len(t) + 1}
    IN  \A i \in starts : <<"expression", i, Min({k \in ends : k >= i})>> \in d

Limits == {"argv", "leaves", "complex", "exprs"}
=============================================================================
