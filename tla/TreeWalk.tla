------------------------------ MODULE TreeWalk ------------------------------
(***************************************************************************)
(* How the interpreter leaves scopes: the statements of a function, the    *)
(* flows they end with, and the defers a scope runs on its way out.        *)
(*                                                                         *)
(* A statement is [op, id, body, els, to]: id is its place in the text, to *)
(* the id of the loop a labelled break or continue names, None for the     *)
(* innermost one.  What an expression yields is read from a tape over      *)
(* {"ok", "err", "null"}; past its end everything is "null", which ends a  *)
(* loop.  The log tells when a defer is registered, <<"reg", id>>, and    *)
(* when a defer or an errdefer runs, <<"run", id>>.                        *)
(***************************************************************************)
EXTENDS Naturals, Sequences, SequencesExt

None == 0
ForItems == 2   \* items of the arrays that `for` walks

Flow(kind, err, to) == [kind |-> kind, err |-> err, to |-> to]
Falls      == Flow("none", FALSE, None)
Value(err) == Flow("value", err, None)
Return(err) == Flow("return", err, None)

Expressions == {"call", "try", "catch"}
Loops == {"while", "whilecap", "for"}

\* What the next expression yields, and the tape after it.
Yields(st) == IF st.tape = <<>> THEN "null" ELSE Head(st.tape)
Read(st)   == IF st.tape = <<>> THEN st ELSE [st EXCEPT !.tape = Tail(@)]
Log(st, what, id) == [st EXCEPT !.log = Append(@, <<what, id>>)]

IsErrPath(f) == f.kind = "crash" \/ (f.kind \in {"return", "value"} /\ f.err)

\* The body of a defer; an error it returns is kept until all have run, and then
\* every caller of pop_scope drops it.
RunDefer(st, d) == Log(IF d.op = "defertry" THEN Read(st) ELSE st, "run", d.id)

\* Mutant: in the order they were written.
RunDefersOldest(defers, errPath, st) ==
    FoldLeft(RunDefer, st, SelectSeq(defers, LAMBDA d : d.op = "errdefer" => errPath))

\* The defers of a scope, newest first; errdefers on an error path only.
RunDefers(defers, errPath, st) ==
    FoldLeft(RunDefer, st, Reverse(SelectSeq(defers, LAMBDA d : d.op = "errdefer" => errPath)))

\* The value of a statement is dropped.
Dropped(r) == IF r.f.kind = "value" THEN [r EXCEPT !.f = Falls] ELSE r

RECURSIVE Inner(_, _, _, _), Stmt(_, _), Iterate(_, _, _)

\* The i-th statement of b gave r: the scope goes on, or is left.
Follow(r, b, i, defers) ==
    LET last == i = Len(b) /\ b[i].op \in Expressions   \* the value of the block
        f    == IF last THEN r.f ELSE Dropped(r).f
    IN  IF f = Falls THEN Inner(b, i + 1, defers, r.st)
        ELSE [f |-> f, defers |-> defers, st |-> r.st]

\* The statements of b from the i-th on, in a scope that has registered defers.
Inner(b, i, defers, st) ==
    IF i > Len(b) THEN [f |-> Falls, defers |-> defers, st |-> st]
    ELSE IF b[i].op \in {"defer", "errdefer", "defertry"}
    THEN Inner(b, i + 1, Append(defers, b[i]),
               IF b[i].op = "errdefer" THEN st ELSE Log(st, "reg", b[i].id))
    ELSE Follow(Stmt(b[i], st), b, i, defers)

PopScope(r) == [f |-> r.f, st |-> RunDefers(r.defers, IsErrPath(r.f), r.st)]
Scope(b, st) == PopScope(Inner(b, 1, <<>>, st))

\* A round of the loop s ended with r.
Round(r, s, n) ==
    LET mine == r.f.to = None \/ r.f.to = s.id
    IN  IF r.f.kind = "break" /\ mine THEN [f |-> Falls, st |-> r.st]
        ELSE IF r.f.kind \in {"return", "crash"} \/ (r.f.kind \in {"break", "continue"} /\ ~mine)
        THEN r
        ELSE Iterate(s, n - 1, r.st)

\* One round of a loop after another.  `n` counts the items a `for` has left.
Iterate(s, n, st) ==
    LET in   == IF s.op = "for" THEN st ELSE Read(st)
        more == IF s.op = "for" THEN n > 0
                ELSE Yields(st) = "ok"
    IN  IF s.op = "whilecap" /\ Yields(st) = "err" THEN [f |-> Return(TRUE), st |-> in]
        ELSE IF ~more THEN [f |-> Falls, st |-> in]
        ELSE Round(Scope(s.body, in), s, n)

\* The handler of a catch is an expression.
Caught(r) == IF r.f = Falls THEN [r EXCEPT !.f = Value(FALSE)] ELSE r

Stmt(s, st) ==
    LET v  == Yields(st)
        in == Read(st)
    IN  CASE s.op = "call"   -> [f |-> Value(v = "err"), st |-> in]
          [] s.op = "crash"  -> [f |-> Flow("crash", TRUE, None), st |-> st]
          [] s.op = "try"    -> [f |-> IF v = "err" THEN Return(TRUE) ELSE Value(FALSE), st |-> in]
          [] s.op = "catch"  -> IF v # "err" THEN [f |-> Value(FALSE), st |-> in]
                                ELSE Caught(Scope(s.body, in))
          [] s.op = "return" -> [f |-> Return(v = "err"), st |-> in]
          [] s.op = "leave"  -> [f |-> Return(FALSE), st |-> st]   \* `return;`
          [] s.op \in {"break", "continue"} -> [f |-> Flow(s.op, FALSE, s.to), st |-> st]
          [] s.op = "block"  -> Dropped(Scope(s.body, st))
          \* if (e) |v| {} else |err| {}: null runs neither; ifcap is without |err|
          [] s.op \in {"if", "iferr", "ifcap"} ->
                IF s.op = "iferr" /\ v = "null" THEN [f |-> Falls, st |-> in]
                ELSE Dropped(Scope(IF v = "ok" THEN s.body ELSE s.els, in))
          [] s.op \in Loops  -> Iterate(s, ForItems, st)

\* What a call of a function does: the defers it ran and how it returned.  A
\* value that is not returned is not looked at: the function is void.
Outcome(r) ==
    [log |-> r.st.log,
     out |-> CASE r.f.kind = "crash"             -> "crash"
               [] r.f.kind = "return" /\ r.f.err -> "err"
               [] OTHER                          -> "ok"]
Interpreted(body, tape) == Outcome(Scope(body, [tape |-> tape, log |-> <<>>]))
=============================================================================
