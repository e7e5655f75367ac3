-------------------------------- MODULE Captures --------------------------------
(***************************************************************************)
(* References to locals that are captured by threads: the check of the     *)
(* compiler (hc/src/semantic: check.rs, infer.rs; rules Q18 and Q19) and   *)
(* what the interpreter does with the programs it accepts.                 *)
(*                                                                         *)
(* A function body is written statement by statement, and the checker,     *)
(* which is one pass over it, goes along: `scopes` is its stack of         *)
(* VarInfo tables.  When the body is complete, or rejected, it is run, and *)
(* the branches are chosen by the machine.  A thread that is not joined    *)
(* may be running at any moment, so only joins are followed.               *)
(***************************************************************************)
EXTENDS Naturals, Sequences

CONSTANTS Locals, Handles,
          Forms,      \* the statements programs are made of; with
                      \* "redeclare", one block may use a handle's name twice
          MaxText

VARIABLES text,       \* the body, as far as it is written
          nest,       \* the blocks that are open in it
          scopes,     \* check_block: one table of VarInfo per open block
          rejected,   \* the last statement made a Q18 or Q19 diagnostic
          phase,      \* "text", "run", "over"
          pc, env,    \* run time: place in the text, Interp::scopes
          unjoined    \* threads not joined, with the local each refers to

checkVars == <<text, nest, scopes, rejected>>
runVars   == <<pc, env, unjoined>>
vars      == <<checkVars, phase, runVars>>

Top(s)      == s[Len(s)]
Pop(s)      == SubSeq(s, 1, Len(s) - 1)
Bind(s, n, v) == [s EXCEPT ![Len(s)] = [m \in DOMAIN @ \cup {n} |-> IF m = n THEN v ELSE @[m]]]
Has(s, n)   == \E i \in DOMAIN s : n \in DOMAIN s[i]
Newest(s, n) == CHOOSE i \in DOMAIN s :
                   n \in DOMAIN s[i] /\ \A j \in (i + 1)..Len(s) : n \notin DOMAIN s[j]
Nothing     == [n \in {} |-> 0]

Init ==
    /\ text = <<>> /\ nest = <<"fn">> /\ scopes = <<Nothing>>
    /\ rejected = FALSE /\ phase = "text"
    /\ pc = 1 /\ env = <<Nothing>> /\ unjoined = {}

-----------------------------------------------------------------------------
(* The checker.                                                            *)

(* ThreadState; a local that is no thread is never in anybody's way.       *)
Plain     == [bound |-> TRUE, detached |-> FALSE, ref |-> "none"]
Thread(x) == [bound |-> FALSE, detached |-> FALSE, ref |-> x]

Loose(info)  == ~info.bound /\ ~info.detached

(* conditional_depth > 0                                                   *)
Conditional  == \E i \in DOMAIN nest : nest[i] \in {"if", "while"}

(* Mutant: the window stays shut when the thread is joined.                *)
FrozenForGood(x) == \E i \in DOMAIN scopes : \E h \in DOMAIN scopes[i] :
                        ~scopes[i][h].detached /\ scopes[i][h].ref = x
(* check_thread_freeze, by name, over all scopes.                          *)
Frozen(x) == \E i \in DOMAIN scopes : \E h \in DOMAIN scopes[i] :
                 Loose(scopes[i][h]) /\ scopes[i][h].ref = x

(* thread_escape_sweep                                                     *)
Escapes(scope) == \E h \in DOMAIN scope : Loose(scope[h]) /\ scope[h].ref # "none"

(* The statement is added; with the first diagnostic, or the end of the    *)
(* function, the body is ready to be run.                                  *)
Add(form, n, x, bad) ==
    /\ form \in Forms
    /\ Len(text) + Len(nest) <= MaxText
    /\ text' = Append(text, [form |-> form, name |-> n, of |-> x])
    /\ rejected' = bad
    /\ phase' = IF bad \/ nest' = <<>> THEN "run" ELSE "text"
    /\ UNCHANGED runVars

(* `var x`; a name is declared once per block.                             *)
Declare(x) ==
    /\ x \notin DOMAIN Top(scopes)
    /\ scopes' = Bind(scopes, x, Plain) /\ UNCHANGED nest
    /\ Add("var", x, "none", FALSE)

(* `var h = spawn(f, &x)`                                                  *)
Spawn(h, x) ==
    /\ Has(scopes, x)
    /\ h \in DOMAIN Top(scopes) => "redeclare" \in Forms
    /\ scopes' = Bind(scopes, h, Thread(x)) /\ UNCHANGED nest
    /\ Add("spawn", h, x, FALSE)

(* Mutant: a join counts wherever it stands.                               *)
JoinAnywhere(h) ==
    /\ Has(scopes, h)
    /\ scopes' = [scopes EXCEPT ![Newest(scopes, h)][h].bound = TRUE]
    /\ UNCHANGED nest
    /\ Add("join", h, "none", FALSE)

(* `h.join()`: counts on the straight path only.                           *)
Join(h) ==
    /\ Has(scopes, h)
    /\ scopes' = IF Conditional THEN scopes
                 ELSE [scopes EXCEPT ![Newest(scopes, h)][h].bound = TRUE]
    /\ UNCHANGED nest
    /\ Add("join", h, "none", FALSE)

Detach(h) ==
    /\ Has(scopes, h)
    /\ scopes' = IF Conditional THEN scopes
                 ELSE [scopes EXCEPT ![Newest(scopes, h)][h].detached = TRUE]
    /\ UNCHANGED nest
    /\ Add("detach", h, "none", FALSE)

(* `x = ...`                                                               *)
Write(x) ==
    /\ Has(scopes, x)
    /\ UNCHANGED <<scopes, nest>>
    /\ Add("write", x, "none", Frozen(x))

Open(kind) ==
    /\ nest' = Append(nest, kind)
    /\ scopes' = Append(scopes, Nothing)
    /\ Add(kind, "none", "none", FALSE)

Close ==
    /\ nest' = Pop(nest)
    /\ scopes' = Pop(scopes)
    /\ Add("end", "none", "none", Escapes(Top(scopes)))

Return ==
    /\ UNCHANGED <<scopes, nest>>
    /\ Add("return", "none", "none", FALSE)

Check ==
    /\ phase = "text"
    /\ \/ \E x \in Locals : Declare(x) \/ Write(x) \/ \E h \in Handles : Spawn(h, x)
       \/ \E h \in Handles : Join(h) \/ Detach(h)
       \/ \E kind \in {"block", "if", "while"} : Open(kind)
       \/ Close \/ Return

-----------------------------------------------------------------------------
(* The interpreter.  A cell and a thread are named by the statement that   *)
(* made them.                                                              *)

Opens(i) == text[i].form \in {"block", "if", "while"}
Balance(i, j) == LET part == SubSeq(text, i, j)
                     opens == SelectSeq(part, LAMBDA s : s.form \in {"block", "if", "while"})
                     ends  == SelectSeq(part, LAMBDA s : s.form = "end")
                 IN  Len(opens) = Len(ends)
Ends(i, j) == /\ i < j /\ Opens(i) /\ text[j].form = "end" /\ Balance(i, j)
              /\ \A k \in (i + 1)..(j - 1) : ~Balance(i, k)

Now(form) == phase = "run" /\ (rejected => pc < Len(text)) /\ text[pc].form = form
Value(n)  == env[Newest(env, n)][n]
Pending(h) == \E u \in unjoined : u[1] = Value(h)

RunDeclare ==
    /\ Now("var")
    /\ env' = Bind(env, text[pc].name, pc)
    /\ pc' = pc + 1
    /\ UNCHANGED <<checkVars, phase, unjoined>>

RunSpawn ==
    /\ Now("spawn")
    /\ env' = Bind(env, text[pc].name, pc)
    /\ unjoined' = unjoined \cup {<<pc, Value(text[pc].of)>>}
    /\ pc' = pc + 1
    /\ UNCHANGED <<checkVars, phase>>

(* The second join of a thread is a run-time error.                        *)
RunJoin ==
    /\ Now("join")
    /\ IF Pending(text[pc].name)
       THEN /\ unjoined' = {u \in unjoined : u[1] # Value(text[pc].name)}
            /\ pc' = pc + 1
            /\ UNCHANGED phase
       ELSE phase' = "over" /\ UNCHANGED <<unjoined, pc>>
    /\ UNCHANGED <<checkVars, env>>

(* Neither a write nor a detach changes who may be running.                *)
RunPlain ==
    /\ Now("write") \/ Now("detach")
    /\ pc' = pc + 1
    /\ UNCHANGED <<checkVars, phase, env, unjoined>>

RunEnter ==
    /\ Now("block") \/ Now("if") \/ Now("while")
    /\ env' = Append(env, Nothing)
    /\ pc' = pc + 1
    /\ UNCHANGED <<checkVars, phase, unjoined>>

RunSkip ==
    /\ Now("if") \/ Now("while")
    /\ \E j \in DOMAIN text : Ends(pc, j) /\ pc' = j + 1
    /\ UNCHANGED <<checkVars, phase, env, unjoined>>

(* pop_scope; unjoined threads go to the root scope, and a while loop      *)
(* evaluates its condition again.                                          *)
RunEnd ==
    /\ Now("end")
    /\ env' = Pop(env)
    /\ phase' = IF env' = <<>> THEN "over" ELSE "run"
    /\ pc' = IF \E i \in DOMAIN text : text[i].form = "while" /\ Ends(i, pc)
             THEN CHOOSE i \in DOMAIN text : Ends(i, pc)
             ELSE pc + 1
    /\ UNCHANGED <<checkVars, unjoined>>

RunReturn ==
    /\ Now("return")
    /\ phase' = "over"
    /\ UNCHANGED <<checkVars, pc, env, unjoined>>

Run == RunDeclare \/ RunSpawn \/ RunJoin \/ RunPlain \/ RunEnter \/ RunSkip \/ RunEnd \/ RunReturn

Next == Check \/ Run

Spec == Init /\ [][Next]_vars

-----------------------------------------------------------------------------
(* The scopes the next statement leaves all at once, by return or because  *)
(* a run-time error unwinds them.                                          *)
Unwinds ==
    \/ text[pc].form = "return"
    \/ text[pc].form = "join" /\ ~Pending(text[pc].name)

ValuesOf(scope) == {scope[n] : n \in DOMAIN scope}

(* The cells the next statement writes or destroys.                        *)
Touches ==
    IF Unwinds THEN UNION {ValuesOf(env[i]) : i \in DOMAIN env}
    ELSE IF text[pc].form = "write" THEN {Value(text[pc].name)}
    ELSE IF text[pc].form = "end" THEN ValuesOf(Top(env)) ELSE {}

Races == \E u \in unjoined : u[2] \in Touches

(* Q18, Q19: in a program that is accepted a local is never written, and   *)
(* never goes out of scope, while a thread that refers to it may be        *)
(* running, whichever branches are taken, as long as no thread is detached *)
(* and blocks are left at their end.                                       *)
Attached == \A i \in DOMAIN text : text[i].form # "detach"
CapturesAreSafe == phase = "run" /\ ~rejected /\ Attached /\ ~Unwinds => ~Races

(* The same for blocks that are left by return or by an error, as ADR 0007 *)
(* has it: a handle that is not joined when its scope is left escapes, and *)
(* a reference may not be captured.                                        *)
NoCaptureEscapes == phase = "run" /\ ~rejected => ~Races

(* Nothing is refused without need where there is one path: if every name  *)
(* is declared once, the statement that is refused would touch a local of  *)
(* a running thread, or give up the handle of one.                         *)
OnePath == \A i \in DOMAIN text : /\ text[i].form \notin {"if", "while"}
                                  /\ \A j \in DOMAIN text : i # j /\ text[i].form \in {"var", "spawn"}
                                         /\ text[j].form \in {"var", "spawn"} => text[i].name # text[j].name
HandleIsLost == text[pc].form = "end" /\ \E u \in unjoined : u[1] \in ValuesOf(Top(env))

AlarmsAreReal ==
    phase = "run" /\ rejected /\ pc = Len(text) /\ OnePath => Races \/ HandleIsLost
=============================================================================
