-------------------------------- MODULE Regex --------------------------------
(***************************************************************************)
(* The regular expressions of the standard library (`io.text.matches`,     *)
(* find, replace, split): the parser, the matcher that computes the set of *)
(* ends of a node at a position, and the loops over matches.  A pattern is *)
(* a sequence of characters.  A class is a set of characters, as "." is;   *)
(* an escape is a character.  Positions in a text are as in the source,    *)
(* from 0.                                                                 *)
(***************************************************************************)
EXTENDS Integers, Sequences, SequencesExt, FiniteSetsExt

Many == -1   \* no upper bound

Node(kind, kids) == [kind |-> kind, kids |-> kids, min |-> 0, max |-> 0]
Bad == Node("bad", <<>>)   \* not a pattern
At(p, i) == IF i > Len(p) THEN "end" ELSE p[i]

(* The number written from i on to the character before j.  Four digits    *)
(* stand for all ten.                                                      *)
Digits == [d \in {"0", "1", "2", "3"} |->
             CASE d = "0" -> 0 [] d = "1" -> 1 [] d = "2" -> 2 [] OTHER -> 3]
DigitsEnd(p, i) == Min({j \in i .. Len(p) + 1 : At(p, j) \notin DOMAIN Digits})
Number(p, i, j) == FoldLeft(LAMBDA n, d : n * 10 + Digits[d], 0, SubSeq(p, i, j - 1))

(* What the braces at i ask for and the position after them; None if they  *)
(* are none of {n}, {n,} and {n,m}.                                        *)
None == <<0, 0, 0>>
Braces(p, i) ==
    LET c == DigitsEnd(p, i + 1)   \* past the first number
        d == DigitsEnd(p, c + 1)   \* past a comma and the second
        n == Number(p, i + 1, c)
    IN  IF c = i + 1 THEN None
        ELSE IF At(p, c) = "}" THEN <<n, n, c + 1>>
        ELSE IF At(p, c) = "," /\ At(p, d) = "}"
        THEN <<n, IF d = c + 1 THEN Many ELSE Number(p, c + 1, d), d + 1>>
        ELSE None
Quantifier(p, i) ==
    CASE At(p, i) = "*" -> <<0, Many, i + 1>>
      [] At(p, i) = "+" -> <<1, Many, i + 1>>
      [] At(p, i) = "?" -> <<0, 1, i + 1>>
      [] At(p, i) = "{" -> Braces(p, i)
      [] OTHER          -> None
Misordered(q) == q[2] # Many /\ q[1] > q[2]
Repeated(node, q) == [kind |-> "repeat", kids |-> <<node>>, min |-> q[1], max |-> q[2]]

(* The parser: each level answers the node and the position after it.       *)
RECURSIVE ParseAlt(_, _), ParseConcat(_, _, _), ParseRepeat(_, _), ParseAtom(_, _), ParseBranches(_, _, _)

\* A branch was read as b.
Branch(b, p, branches) ==
    IF b.node = Bad THEN b
    ELSE IF At(p, b.i) = "|" THEN ParseBranches(p, b.i + 1, Append(branches, b.node))
    ELSE IF branches = <<>> THEN b
    ELSE [node |-> Node("alt", Append(branches, b.node)), i |-> b.i]
ParseBranches(p, i, branches) == Branch(ParseConcat(p, i, <<>>), p, branches)
ParseAlt(p, i) == ParseBranches(p, i, <<>>)

Kid(r, p, kids) == IF r.node = Bad THEN r ELSE ParseConcat(p, r.i, Append(kids, r.node))
ParseConcat(p, i, kids) ==
    IF At(p, i) \in {"end", "|", ")"}
    THEN [node |-> IF Len(kids) = 1 THEN kids[1] ELSE Node("concat", kids), i |-> i]
    ELSE Kid(ParseRepeat(p, i), p, kids)

Quantified(a, q) ==
    IF a.node = Bad \/ q = None THEN a
    ELSE IF Misordered(q) THEN [node |-> Bad, i |-> a.i]
    ELSE [node |-> Repeated(a.node, q), i |-> q[3]]
QuantifiedIn(p, a) == Quantified(a, Quantifier(p, a.i))
ParseRepeat(p, i) == QuantifiedIn(p, ParseAtom(p, i))

Grouped(inner, p, i) ==
    IF inner.node # Bad /\ At(p, inner.i) = ")" THEN [inner EXCEPT !.i = @ + 1]
    ELSE [node |-> Bad, i |-> i]
\* Where an atom is due a brace is a character like any other.
ParseAtom(p, i) ==
    IF At(p, i) = "(" THEN Grouped(ParseAlt(p, i + 1), p, i)
    ELSE IF At(p, i) \in {"end", "|", ")", "*", "+", "?"} THEN [node |-> Bad, i |-> i]
    ELSE [node |-> Node(At(p, i), <<>>), i |-> i + 1]

Whole(r, p) == IF r.node # Bad /\ r.i = Len(p) + 1 THEN r.node ELSE Bad
Parse(p) == Whole(ParseAlt(p, 1), p)

(* The matcher.  Its memo table changes no answer.                          *)
RECURSIVE Ends(_, _, _), Grow(_, _, _, _, _)

EndsOfAll(node, from, text) == UNION {Ends(node, e, text) : e \in from}
\* Mutant: fewer rounds will do.
AfterRoundsOrFewer(node, from, text, n) ==
    FoldLeft(LAMBDA f, x : f \cup EndsOfAll(node, f, text), from, [x \in 1..n |-> x])
AfterRounds(node, from, text, n) == FoldLeft(LAMBDA f, x : EndsOfAll(node, f, text), from, [x \in 1..n |-> x])

\* The ends after more rounds, until a round brings no new one.
Grown(node, text, rounds, next, found) ==
    IF rounds = node.max \/ next \subseteq found THEN found
    ELSE Grow(node, text, rounds + 1, next, found \cup next)
Grow(node, text, rounds, frontier, found) ==
    Grown(node, text, rounds, EndsOfAll(node.kids[1], frontier, text), found)
GrowFrom(node, text, first) == Grow(node, text, node.min, first, first)

Ends(node, pos, text) ==
    CASE node.kind = "concat" -> FoldLeft(LAMBDA cur, kid : EndsOfAll(kid, cur, text), {pos}, node.kids)
      [] node.kind = "alt"    -> UNION {Ends(kid, pos, text) : kid \in Range(node.kids)}
      [] node.kind = "repeat" -> GrowFrom(node, text, AfterRounds(node.kids[1], {pos}, text, node.min))
      [] node.kind = "^"      -> IF pos = 0 THEN {0} ELSE {}
      [] node.kind = "$"      -> IF pos = Len(text) THEN {pos} ELSE {}
      [] OTHER                -> IF pos < Len(text) /\ (node.kind = "." \/ text[pos + 1] = node.kind)
                                 THEN {pos + 1} ELSE {}

\* The leftmost match from s on, as long as possible: <<s, e>>, or none.
NoMatch == <<-1, -1>>
RECURSIVE FindAt(_, _, _)
Longest(ends, node, text, s) == IF ends # {} THEN <<s, Max(ends)>> ELSE FindAt(node, text, s + 1)
FindAt(node, text, s) ==
    IF s > Len(text) THEN NoMatch ELSE Longest(Ends(node, s, text), node, text, s)

(* The loops over matches.                                                  *)
Slice(text, from, to) == SubSeq(text, from + 1, to)
Remaining(text, from) == Slice(text, from, Len(text))

\* Each round writes the text up to the match and the replacement; an empty
\* match takes the character after it along.
RECURSIVE ReplaceFrom(_, _, _, _, _, _)
WithMatch(out, text, last, m, repl) ==
    out \o Slice(text, last, m[1]) \o repl
        \o (IF m[2] > m[1] \/ m[1] = Len(text) THEN <<>> ELSE Slice(text, m[1], m[1] + 1))
ReplaceMatch(m, node, text, repl, out, last) ==
    LET next == IF m[2] > m[1] THEN m[2] ELSE m[1] + 1
        stop == IF m[2] > m[1] THEN m[2] = Len(text) ELSE m[1] + 1 > Len(text)
    IN  IF m = NoMatch THEN out \o Remaining(text, last)
        ELSE IF stop THEN WithMatch(out, text, last, m, repl) \o Remaining(text, next)
        ELSE ReplaceFrom(node, text, repl, WithMatch(out, text, last, m, repl), next, next)
ReplaceFrom(node, text, repl, out, last, cur) ==
    ReplaceMatch(FindAt(node, text, cur), node, text, repl, out, last)
Replace(node, text, repl) == ReplaceFrom(node, text, repl, <<>>, 0, 0)

RECURSIVE SplitFrom(_, _, _, _, _)
SplitMatch(m, node, text, parts, start) ==
    LET more == Append(parts, Slice(text, start, m[1]))
        from == IF m[2] > m[1] THEN m[2] ELSE m[1]     \* of the next part
        next == IF m[2] > m[1] THEN m[2] ELSE m[1] + 1 \* of the search
        stop == IF m[2] > m[1] THEN m[2] = Len(text) ELSE m[1] + 1 > Len(text)
    IN  IF m = NoMatch THEN Append(parts, Remaining(text, start))
        ELSE IF stop THEN Append(more, Remaining(text, from))
        ELSE SplitFrom(node, text, more, from, next)
SplitFrom(node, text, parts, start, cur) ==
    SplitMatch(FindAt(node, text, cur), node, text, parts, start)
Split(node, text) == SplitFrom(node, text, <<>>, 0, 0)

(* What a pattern means, from its lexemes: single characters, and the      *)
(* braces that follow an atom and have one of the forms below.  `p` matches *)
(* the text from i to j.  Alternatives bind loosest, then sequence, then    *)
(* the quantifier of one atom.                                              *)
Exactly == {<<"{", n, "}">> : n \in DOMAIN Digits}
AtLeast == {<<"{", n, ",", "}">> : n \in DOMAIN Digits}
Between == {<<"{", n, ",", m, "}">> : n \in DOMAIN Digits, m \in DOMAIN Digits}
Counts  == Exactly \cup AtLeast \cup Between
Quantifiers == Counts \cup {<<"*">>, <<"+">>, <<"?">>}
Bounds == [q \in Quantifiers |->
             CASE q = <<"*">>     -> <<0, Many>>
               [] q = <<"+">>     -> <<1, Many>>
               [] q = <<"?">>     -> <<0, 1>>
               [] q \in Exactly  -> <<Digits[q[2]], Digits[q[2]]>>
               [] q \in AtLeast  -> <<Digits[q[2]], Many>>
               [] OTHER           -> <<Digits[q[2]], Digits[q[4]]>>]

RECURSIVE Lexemes(_, _)
Lexemes(p, afterAtom) ==
    IF p = <<>> THEN <<>>
    ELSE IF afterAtom /\ \E n \in 1 .. Len(p) : SubSeq(p, 1, n) \in Counts
    THEN LET n == Min({m \in 1 .. Len(p) : SubSeq(p, 1, m) \in Counts})
         IN  <<SubSeq(p, 1, n)>> \o Lexemes(SubSeq(p, n + 1, Len(p)), FALSE)
    ELSE <<SubSeq(p, 1, 1)>> \o Lexemes(Tail(p), p[1] \notin {"(", "|", "*", "+", "?"})

Depth(p, k) == Len(SelectSeq(SubSeq(p, 1, k), LAMBDA t : t = <<"(">>))
             - Len(SelectSeq(SubSeq(p, 1, k), LAMBDA t : t = <<")">>))
Balanced(p) == Depth(p, Len(p)) = 0 /\ \A k \in DOMAIN p : Depth(p, k) >= 0
TopBars(p) == {k \in DOMAIN p : p[k] = <<"|">> /\ Depth(p, k) = 0}
\* Where the atom that p starts with ends.
AtomEnd(p) == IF p[1] # <<"(">> THEN 1 ELSE Min({k \in DOMAIN p : Depth(p, k) = 0})

IsPattern(p) ==
    /\ Balanced(p)
    /\ \A k \in DOMAIN p : p[k] \in Quantifiers =>
          ~Misordered(Bounds[p[k]]) /\ k > 1 /\ p[k - 1] \notin {<<"(">>, <<"|">>} \cup Quantifiers

RECURSIVE Means(_, _, _, _), Times(_, _, _, _, _, _)
\* p between min and max times; a round that reads nothing need not be repeated
\* more often than the bound asks for.
Times(p, min, max, text, i, j) ==
    \/ min <= 0 /\ i = j
    \/ max # 0 /\ \E k \in i..j : /\ k > i \/ min > 0
                                  /\ Means(p, text, i, k)
                                  /\ Times(p, min - 1, IF max = Many THEN Many ELSE max - 1, text, k, j)
Means(p, text, i, j) ==
    IF p = <<>> THEN i = j
    ELSE IF TopBars(p) # {}
    THEN LET k == Min(TopBars(p))
         IN  Means(SubSeq(p, 1, k - 1), text, i, j) \/ Means(SubSeq(p, k + 1, Len(p)), text, i, j)
    ELSE LET e    == AtomEnd(p)
             many == e < Len(p) /\ p[e + 1] \in Quantifiers
             atom == IF p[1] = <<"(">> THEN SubSeq(p, 2, e - 1) ELSE SubSeq(p, 1, 1)
             rest == SubSeq(p, e + (IF many THEN 2 ELSE 1), Len(p))
         IN  IF Len(p) > 1
             THEN \E k \in i..j :
                     /\ IF many THEN Times(atom, Bounds[p[e + 1]][1], Bounds[p[e + 1]][2], text, i, k)
                                ELSE Means(atom, text, i, k)
                     /\ Means(rest, text, k, j)
             ELSE CASE p[1] = <<"^">> -> i = j /\ i = 0
                    [] p[1] = <<"$">> -> i = j /\ i = Len(text)
                    [] OTHER          -> j = i + 1 /\ (p[1] = <<".">> \/ text[j] = p[1][1])

\* The patterns accepted are those that mean something, and at every position
\* the matcher finds exactly the ends the pattern means.
Matches(node, p, text) ==
    \A i \in 0 .. Len(text) : Ends(node, i, text) = {j \in i .. Len(text) : Means(p, text, i, j)}

\* Split and replace agree on where the matches are, and neither loses or
\* doubles a character: the parts joined by the replacement (which no text has)
\* are the text replaced.
Agree(parts, node, text) ==
    FoldLeft(LAMBDA out, part : Append(out, "#") \o part, Head(parts), Tail(parts))
        = Replace(node, text, <<"#">>)

ParsedRight(node, p, Texts) ==
    /\ (node # Bad) <=> IsPattern(p)
    /\ node # Bad => \A text \in Texts : Matches(node, p, text) /\ Agree(Split(node, text), node, text)
IsRight(p, Texts) == ParsedRight(Parse(p), Lexemes(p, FALSE), Texts)
=============================================================================
