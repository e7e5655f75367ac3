------------------------------ MODULE DualMode ------------------------------
(***************************************************************************)
(* A function is written, one statement at a time, and run in both modes:  *)
(* by the interpreter (TreeWalk) and lowered (Lowering).  Every function   *)
(* of at most MaxSize statements over the constructs Ops is written.       *)
(***************************************************************************)
EXTENDS Naturals, Sequences, SequencesExt

CONSTANTS Ops,       \* the constructs used
          MaxSize,   \* bound on the statements of a function
          MaxReads   \* bound on what its expressions yield before it is "null"

VARIABLES open,      \* the constructs that are not closed, the function first
          registers  \* it has a defer

vars == <<open, registers>>

LOCAL T == INSTANCE TreeWalk
LOCAL L == INSTANCE Lowering
None == T!None

Scoped == {"catch", "block", "if", "iferr", "ifcap"} \cup T!Loops
DeferOps == {"defer", "errdefer", "defertry"}
Jumps  == {"return", "leave", "break", "continue", "crash"}

Frame(op, id) == [op |-> op, id |-> id, to |-> None, body |-> <<>>, els |-> <<>>, inElse |-> FALSE]
Init == open = <<Frame("fn", None)>> /\ registers = FALSE

RECURSIVE Size(_)
Size(b) == FoldLeft(LAMBDA n, s : n + 1 + Size(s.body) + Size(s.els), 0, b)
Written == FoldLeft(LAMBDA n, f : n + 1 + Size(f.body) + Size(f.els), 0, open) - 1

Current(f) == IF f.inElse THEN f.els ELSE f.body
With(f, s) == IF f.inElse THEN [f EXCEPT !.els = Append(@, s)] ELSE [f EXCEPT !.body = Append(@, s)]

\* What follows a jump is never reached.
Reachable == LET b == Current(Last(open)) IN b # <<>> => Last(b).op \notin Jumps

LoopsAround == {open[i].id : i \in {j \in DOMAIN open : open[j].op \in T!Loops}}
Labels(op) == IF op \notin {"break", "continue"} THEN {None}
              ELSE IF LoopsAround = {} THEN {} ELSE LoopsAround \cup {None}

\* Simple statements before the first defer are left out: no scope sees them.
Write(op) ==
    /\ Written < MaxSize /\ Reachable
    /\ registers \/ op \in DeferOps
    /\ registers' = TRUE
    /\ \E to \in Labels(op) :
          open' = Append(Front(open), With(Last(open), [Frame(op, Written + 1) EXCEPT !.to = to]))

Open(op) ==
    /\ Written < MaxSize /\ Reachable
    /\ open' = Append(open, Frame(op, Written + 1))
    /\ UNCHANGED registers

Else ==
    /\ Last(open).op \in {"if", "iferr", "ifcap"} /\ ~Last(open).inElse
    /\ open' = Append(Front(open), [Last(open) EXCEPT !.inElse = TRUE])
    /\ UNCHANGED registers

Close ==
    /\ Len(open) > 1
    /\ LET outer == Front(open)
       IN  open' = Append(Front(outer), With(Last(outer), Last(open)))
    /\ UNCHANGED registers

Next ==
    \/ \E op \in Ops \ Scoped : Write(op)
    \/ \E op \in Ops \cap Scoped : Open(op)
    \/ Else
    \/ Close

Spec == Init /\ [][Next]_vars

Tapes == [1..MaxReads -> {"ok", "err", "null"}]
Body  == open[1].body
Code == L!Lowered(Body)
Complete == Len(open) = 1 /\ registers

OnEveryPath(Holds(_, _), code) ==
    \A tape \in Tapes : Holds(L!Executed(code.insts, 0..MaxSize, tape), T!Interpreted(Body, tape))
Lowers(Holds(_, _), code) == code.ok => OnEveryPath(Holds, code)

\* Both modes run the same defers in the same order and return alike, on every
\* path through every function that can be lowered: the inlined bodies and their
\* guards (emit_defers) stand for the scope stack of the interpreter (pop_scope).
Alike(ir, tw) == ir.log = tw.log /\ ir.out = tw.out
DualModeAgrees == Complete => Lowers(Alike, Code)

\* And a defer that is struck off is registered exactly once, so the native back
\* end may count registrations in an integer (it decrements without a test).
AlikeAndCounted(ir, tw) == Alike(ir, tw) /\ ~ir.stray
CountersExact == Complete => Lowers(AlikeAndCounted, Code)

\* A defer runs once for every time it is registered, the newest first: the log
\* without the errdefers, which run or not, is balanced like brackets.
RECURSIVE Nests(_, _)
Nests(log, opened) ==
    IF log = <<>> THEN opened = <<>>
    ELSE IF Head(log)[1] = "reg" THEN Nests(Tail(log), Append(opened, Head(log)[2]))
    ELSE opened # <<>> /\ Last(opened) = Head(log)[2] /\ Nests(Tail(log), Front(opened))
Defers(log) == LET ids == {log[i][2] : i \in {j \in DOMAIN log : log[j][1] = "reg"}}
               IN  SelectSeq(log, LAMBDA e : e[2] \in ids)
DefersNest ==
    Complete => \A tape \in Tapes : Nests(Defers(T!Interpreted(Body, tape).log), <<>>)
=============================================================================
