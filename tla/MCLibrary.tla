------------------------------ MODULE MCLibrary ------------------------------
(***************************************************************************)
(* The standard library for TLC: a program that uses one of its data       *)
(* structures in every way, or one of its pure algorithms on every input   *)
(* up to a bound (the input is one element longer in each step).           *)
(***************************************************************************)
EXTENDS Integers, Sequences, RingBuf, PageMem, IntrList, TreeMap, Lz

CONSTANTS Which,      \* the parts this run looks at
          Alphabet,   \* the words of patterns, each some characters
          MaxTokens,  \* bound on the weight of a pattern
          MaxText     \* bound on the text it is matched with

VARIABLES which,      \* the part in use
          input       \* a pattern, word by word

vars == <<which, ringVars, pageVars, listVars, treeVars, data, input>>

R == INSTANCE Regex

\* What a program asks for when it makes a ring buffer or a page memory.
Capacities == {-1, 0, 1, 3}
Sizes      == {-1, 0, 4}

\* A letter, operators, braces that are well formed or turned round, and two
\* halves that are a quantifier together and characters alone.
Words == {<<"a">>, <<"|">>, <<"(">>, <<")">>, <<"*">>, <<"$">>,
          <<"{", "1", ",", "2", "}">>, <<"{", "2", ",", "1", "}">>, <<"{", "1", ",">>, <<"}">>}
Close == <<")">>

Pattern == R!FlattenSeq(input)

\* All short texts, and the characters of the pattern itself.
Texts == UNION {[1..n -> {"a", "}"}] : n \in 0..MaxText}
            \cup {SelectSeq(Pattern, LAMBDA c : c \notin {"|", "(", ")", "*", "$"})}

Init ==
    /\ which \in Which
    /\ RingInit  /\ (which # "ring"  => cap = 0)
    /\ PageInit  /\ (which # "pages" => total = 0)
    /\ ListInit  /\ (which # "list"  => ~refuses)
    /\ TreeInit
    /\ LzInit
    /\ input = <<>>

UsesRing  == which = "ring"  /\ RingNext   /\ UNCHANGED <<which, pageVars, listVars, treeVars, data, input>>
UsesPages == which = "pages" /\ PageNext   /\ UNCHANGED <<which, ringVars, listVars, treeVars, data, input>>
UsesList  == which = "list"  /\ ListNext   /\ UNCHANGED <<which, ringVars, pageVars, treeVars, data, input>>
UsesTree  == which = "tree"  /\ TreeNext   /\ UNCHANGED <<which, ringVars, pageVars, listVars, data, input>>

Grows(x) == input' = Append(input, x) /\ UNCHANGED <<which, ringVars, pageVars, listVars, treeVars, data>>

\* Closing parentheses are free, braces weigh two.
Weight(p) == Len(SelectSeq(p, LAMBDA x : x # Close)) + Len(SelectSeq(p, LAMBDA x : Len(x) > 1))

\* A pattern that no end can complete is not made longer.
Opened == R!Depth(input, Len(input))
Completed == Pattern \o [k \in 1..Opened |-> ")"]
Extends ==
    /\ which = "regex"
    /\ Opened >= 0 /\ R!IsPattern(R!Lexemes(Completed, FALSE))
    /\ \E t \in Alphabet :
          /\ t = Close \/ Weight(Append(input, t)) <= MaxTokens
          /\ Grows(t)

Compresses == which = "lz" /\ LzNext /\ UNCHANGED <<which, ringVars, pageVars, listVars, treeVars, input>>

Next == \/ UsesRing \/ UsesPages \/ UsesList \/ UsesTree \/ Compresses \/ Extends

Spec == Init /\ [][Next]_vars

-----------------------------------------------------------------------------
\* Matching a parsed pattern finds what the pattern means; split and replace
\* lose and double nothing (see Regex).
RegexIsRight == which = "regex" => R!IsRight(Pattern, Texts)
=============================================================================
