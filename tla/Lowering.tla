------------------------------ MODULE Lowering ------------------------------
(***************************************************************************)
(* The other way to run the same statements (see TreeWalk): lowered to     *)
(* instructions with labels, every exit from a scope with the bodies of    *)
(* the defers it leaves written in line, and a run-time stack that tells   *)
(* which of them are registered on the path that was taken.                *)
(***************************************************************************)
EXTENDS Naturals, Sequences, SequencesExt

LOCAL T == INSTANCE TreeWalk
None == 0

(* Lowering.  The context c holds the instructions so far, the defers and   *)
(* loops around the statement, the next label, and whether all of it is in  *)
(* the subset that can be lowered.                                          *)

Emit(c, insts) == [c EXCEPT !.insts = @ \o insts]
Fresh(c, n) == [c EXCEPT !.label = @ + n]

\* `defer try f()` returns the error from the function; its labels are fresh
\* wherever it is written.
DeferBody(d, l) ==
    <<<<"run", d.id>>>> \o
    IF d.op # "defertry" THEN <<>>
    ELSE <<<<"eval", d.id>>, <<"iferr", d.id, l + 1>>, <<"jump", l + 2>>,
           <<"label", l + 1>>, <<"return", d.id>>, <<"label", l + 2>>>>

Guarded(c, d) ==
    Fresh(Emit(c, <<<<"unless", d.id, c.label>>>> \o DeferBody(d, c.label)
                  \o <<<<"pop", d.id>>, <<"label", c.label>>>>), 3)

\* On a path that is no error, an errdefer is only struck off.
Skipped(c, d) ==
    IF d.op = "errdefer" THEN Emit(c, <<<<"pop", d.id>>>>) ELSE Guarded(c, d)

Newest(c, depth) == Reverse(SubSeq(c.defers, depth + 1, Len(c.defers)))
EmitNever(c, depth)  == FoldLeft(Skipped, c, Newest(c, depth))
EmitAlways(c, depth) == FoldLeft(Guarded, c, Newest(c, depth))

\* Which of the two it is, the value t tells at run time.
EmitByValue(c, depth, t) ==
    LET ok == Emit(EmitNever(Emit(Fresh(c, 2), <<<<"iferr", t, c.label>>>>), depth),
                   <<<<"jump", c.label + 1>>, <<"label", c.label>>>>)
    IN  Emit(EmitAlways(ok, depth), <<<<"label", c.label + 1>>>>)

\* A defer is registered where it stands.  A try in its body would write out
\* the defers around it, which is refused when there are any.
LowerDefer(c, s) ==
    [Emit(c, <<<<"push", s.id, s.op # "errdefer">>>>) EXCEPT
        !.defers = Append(@, s),
        !.ok = @ /\ (s.op = "defertry" => c.defers = <<>>)]

\* The innermost loop, or the one the label names.
LoopOf(c, s) == IF s.to = None THEN Last(c.loops)
                ELSE c.loops[SelectLastInSeq(c.loops, LAMBDA loop : loop.id = s.to)]

\* Mutant: a jump leaves all scopes of the function.
LowerExitAll(c, s) ==
    Emit(EmitNever(c, 0),
         <<<<"jump", IF s.op = "break" THEN LoopOf(c, s).brk ELSE LoopOf(c, s).cont>>>>)
LowerExit(c, s) ==
    Emit(EmitNever(c, LoopOf(c, s).depth),
         <<<<"jump", IF s.op = "break" THEN LoopOf(c, s).brk ELSE LoopOf(c, s).cont>>>>)

RECURSIVE LowerStmt(_, _)
LowerAll(c, b) == FoldLeft(LowerStmt, c, b)

\* A scope ends with the defers it registered, on a path that is no error.
LowerScope(c, b) ==
    LET end == EmitNever(LowerAll(c, b), Len(c.defers))
    IN  [end EXCEPT !.defers = c.defers]

LowerLoop(c, s) ==
    LET l   == c.label   \* top, continue, end, error
        top == Emit(Fresh(c, 4), CASE s.op = "for" -> <<<<"iter", s.id>>, <<"label", l>>, <<"next", s.id, l + 2>>>>
                                   [] s.op = "while" -> <<<<"label", l>>, <<"eval", s.id>>, <<"unlessok", s.id, l + 2>>>>
                                   [] OTHER -> <<<<"label", l>>, <<"eval", s.id>>, <<"iferr", s.id, l + 3>>,
                                                 <<"ifnull", s.id, l + 2>>>>)
        in   == [top EXCEPT !.loops = Append(@, [id |-> s.id, brk |-> l + 2,
                                                  cont |-> l + 1, depth |-> Len(c.defers)])]
        out  == [LowerScope(in, s.body) EXCEPT !.loops = c.loops]
        back == Emit(out, <<<<"label", l + 1>>, <<"jump", l>>>>)
        err  == IF s.op # "whilecap" THEN back
                ELSE Emit(EmitByValue(Emit(back, <<<<"label", l + 3>>>>), 0, s.id), <<<<"return", s.id>>>>)
    IN  Emit(err, <<<<"label", l + 2>>>>)

\* The branches of an if: `tests` leaves the then branch for the label l.
LowerIf(c, s, tests) ==
    LET l    == c.label   \* else, end
        then == LowerScope(Emit(Fresh(c, 2), tests), s.body)
        els  == LowerScope(Emit(then, <<<<"jump", l + 1>>, <<"label", l>>>>), s.els)
    IN  Emit(els, <<<<"label", l + 1>>>>)

LowerStmt(c, s) ==
    LET e == Emit(c, <<<<"eval", s.id>>>>)
        l == c.label
    IN  CASE s.op \in {"defer", "errdefer", "defertry"} -> LowerDefer(c, s)
          [] s.op = "call"   -> e
          [] s.op = "crash"  -> Emit(c, <<<<"crash">>>>)
          [] s.op = "try"    -> Emit(EmitAlways(Emit(Fresh(e, 2), <<<<"iferr", s.id, l>>, <<"jump", l + 1>>,
                                                                     <<"label", l>>>>), 0),
                                     <<<<"return", s.id>>, <<"label", l + 1>>>>)
          [] s.op = "catch"  -> Emit(LowerScope(Emit(Fresh(e, 2), <<<<"iferr", s.id, l>>, <<"jump", l + 1>>,
                                                                    <<"label", l>>>>), s.body),
                                     <<<<"label", l + 1>>>>)
          [] s.op = "return" -> Emit(EmitByValue(e, 0, s.id), <<<<"return", s.id>>>>)
          [] s.op = "leave"  -> Emit(EmitNever(c, 0), <<<<"leave">>>>)
          [] s.op \in {"break", "continue"} -> LowerExit(c, s)
          [] s.op = "block"  -> LowerScope(c, s.body)
          [] s.op = "if"     -> LowerIf(e, s, <<<<"unlessok", s.id, l>>>>)
          [] s.op = "iferr"  -> LowerIf(e, s, <<<<"iferr", s.id, l>>, <<"ifnull", s.id, l + 1>>>>)
          [] s.op = "ifcap"  -> LowerIf(e, s, <<<<"ifnull", s.id, l>>>>)
          [] s.op \in T!Loops -> LowerLoop(c, s)

Lowered(body) ==
    LET c == LowerScope([insts |-> <<>>, defers |-> <<>>, loops |-> <<>>, label |-> 1, ok |-> TRUE], body)
    IN  Emit(c, <<<<"leave">>>>)

(* Execution.  The frame m holds the temporaries, the defers registered and *)
(* the items each iterator has left.                                        *)

At(code, l) == CHOOSE pc \in DOMAIN code : code[pc] = <<"label", l>>
Without(active, id) ==   \* the latest registration of id struck off, if there is one
    IF \E i \in DOMAIN active : active[i] = id
    THEN RemoveAt(active, SelectLastInSeq(active, LAMBDA x : x = id)) ELSE active
Count(active, id) == Len(SelectSeq(active, LAMBDA x : x = id))

RECURSIVE Run(_, _, _)
Run(code, pc, m) ==
    LET i     == code[pc]
        jump(b, l, n) == Run(code, IF b THEN At(code, l) ELSE pc + 1, n)
        next(n) == Run(code, pc + 1, n)
        stop(out) == [log |-> m.log, out |-> out, stray |-> m.stray]
    IN  CASE i[1] = "label"    -> next(m)
          [] i[1] = "eval"     -> next([T!Read(m) EXCEPT !.temps[i[2]] = T!Yields(m)])
          [] i[1] = "run"      -> next(T!Log(m, "run", i[2]))
          [] i[1] = "iter"     -> next([m EXCEPT !.items[i[2]] = T!ForItems])
          [] i[1] = "next"     -> jump(m.items[i[2]] = 0, i[3],
                                       IF m.items[i[2]] = 0 THEN m ELSE [m EXCEPT !.items[i[2]] = @ - 1])
          [] i[1] = "jump"     -> jump(TRUE, i[2], m)
          [] i[1] = "iferr"    -> jump(m.temps[i[2]] = "err", i[3], m)
          [] i[1] = "ifnull"   -> jump(m.temps[i[2]] = "null", i[3], m)
          [] i[1] = "unlessok" -> jump(m.temps[i[2]] # "ok", i[3], m)
          [] i[1] = "unless"   -> jump(Count(m.active, i[2]) = 0, i[3], m)
          [] i[1] = "push"     -> next([(IF i[3] THEN T!Log(m, "reg", i[2]) ELSE m) EXCEPT !.active = Append(@, i[2])])
          [] i[1] = "pop"      -> next([m EXCEPT !.active = Without(@, i[2]),
                                                 !.stray = @ \/ Count(m.active, i[2]) # 1])
          [] i[1] = "return"   -> stop(IF m.temps[i[2]] = "err" THEN "err" ELSE "ok")
          [] i[1] = "leave"    -> stop("ok")
          [] i[1] = "crash"    -> stop("crash")

\* What a call of the lowered function does.  stray: a defer was struck off
\* that was not registered exactly once.
Executed(code, ids, tape) ==
    Run(code, 1, [tape |-> tape, log |-> <<>>, temps |-> [i \in ids |-> "null"],
                  active |-> <<>>, items |-> [i \in ids |-> 0], stray |-> FALSE])
=============================================================================
