------------------------------- MODULE ErrorSets -------------------------------
(***************************************************************************)
(* The error sets the checker infers for functions that return !T          *)
(* (hc/src/semantic/error_infer.rs, infer_error_sets): what a function     *)
(* returns itself, closed over the functions it passes errors on from.     *)
(* The rounds go over a HashMap, in an order nobody chose, and write into  *)
(* the sets the rest of the round reads.                                   *)
(*                                                                         *)
(* A program is what collect_fn_table and collect_body_errors found in it: *)
(* the form of each return type, the errors each body names, and the       *)
(* functions each body calls with `try` or returns the call of.            *)
(***************************************************************************)
EXTENDS Naturals, FiniteSets

CONSTANTS Fns, Errors,
          MaxRounds     \* 64 in the code

ASSUME SetsAssumption == IsFiniteSet(Fns) /\ MaxRounds \in Nat

VARIABLES form,         \* fn_error_form of each function
          direct,       \* BodyErrors::direct, `error.X` in the body
          edges,        \* BodyErrors::propagates
          declared,     \* the members of an explicit error set
          sets,         \* InferredErrorSets::sets, while they are computed
          todo,         \* `names`, what is left of this round
          changed, round,
          incomplete,   \* InferredErrorSets::incomplete
          setPhase

program == <<form, direct, edges, declared>>
setVars == <<program, sets, todo, changed, round, incomplete, setPhase>>

Inferred == {f \in Fns : form[f] = "Infer"}

SetsInit ==
    /\ form \in [Fns -> {"Infer", "Explicit", "Other"}]
    /\ direct \in [Fns -> SUBSET Errors]
    /\ edges \in [Fns -> SUBSET Fns]
    /\ declared \in [Fns -> SUBSET Errors]
    /\ \A f \in Fns : form[f] # "Explicit" => declared[f] = {}
    /\ sets = [f \in Inferred |-> direct[f]]
    /\ todo = Inferred
    /\ changed = FALSE /\ round = 1
    /\ incomplete = {}
    /\ setPhase = "rounds"

-----------------------------------------------------------------------------
(* What function g is known to return, given sets s: an interface contract *)
(* (anyerror), a plain type or an unknown callee passes nothing on.        *)
Known(s, g) ==
    IF form[g] = "Explicit" THEN declared[g]
    ELSE IF form[g] = "Infer" THEN s[g] ELSE {}

New(s, f) == direct[f] \cup UNION {Known(s, g) : g \in edges[f]}

(* Mutant: the last function of the round decides whether there is another. *)
VisitOverwrites(f) ==
    /\ setPhase = "rounds" /\ f \in todo
    /\ sets' = [sets EXCEPT ![f] = New(sets, f)]
    /\ changed' = (sets'[f] # sets[f])
    /\ todo' = todo \ {f}
    /\ UNCHANGED <<program, round, incomplete, setPhase>>

(* One function of the round.                                              *)
Visit(f) ==
    /\ setPhase = "rounds" /\ f \in todo
    /\ sets' = [sets EXCEPT ![f] = New(sets, f)]
    /\ changed' = (changed \/ sets'[f] # sets[f])
    /\ todo' = todo \ {f}
    /\ UNCHANGED <<program, round, incomplete, setPhase>>

(* The next round, if this one changed a set and there is one left.        *)
NextRound ==
    /\ setPhase = "rounds" /\ todo = {} /\ changed /\ round < MaxRounds
    /\ round' = round + 1
    /\ todo' = Inferred /\ changed' = FALSE
    /\ UNCHANGED <<program, sets, incomplete, setPhase>>

(* What is come upon from the functions `from` along the links, in at most *)
(* n steps; in as many steps as there are functions it is all there is.    *)
InSteps(links, from, n) ==
    LET reach[k \in Nat] ==
            IF k = 0 THEN from ELSE reach[k - 1] \cup UNION {links[g] : g \in reach[k - 1]}
    IN  reach[n]
Closure(links, from) == InSteps(links, from, Cardinality(Fns))

(* The functions f passes errors on from; every function has edges here,   *)
(* whatever the form of its type.                                          *)
Within(f) == Closure(edges, edges[f])

ReachesSelf(f) == f \in Within(f)

(* After the rounds recursive functions lose their entry.                  *)
Sweep ==
    /\ setPhase = "rounds" /\ todo = {} /\ (~changed \/ round = MaxRounds)
    /\ incomplete' = {f \in Inferred : ReachesSelf(f)}
    /\ setPhase' = "done"
    /\ UNCHANGED <<program, sets, todo, changed, round>>

SetsNext == (\E f \in Fns : Visit(f)) \/ NextRound \/ Sweep

SetsSpec == SetsInit /\ [][SetsNext]_setVars

(* What the caller gets.                                                   *)
Reported == [f \in Inferred \ incomplete |-> sets[f]]

-----------------------------------------------------------------------------
SetsTypeOK ==
    /\ form \in [Fns -> {"Infer", "Explicit", "Other"}]
    /\ direct \in [Fns -> SUBSET Errors]
    /\ edges \in [Fns -> SUBSET Fns]
    /\ declared \in [Fns -> SUBSET Errors]
    /\ sets \in [Inferred -> SUBSET Errors]
    /\ todo \subseteq Inferred
    /\ changed \in BOOLEAN /\ round \in Nat
    /\ incomplete \subseteq Inferred
    /\ setPhase \in {"rounds", "done"}

(* The equations the sets are to solve.                                    *)
Solves(s) == \A f \in Inferred : s[f] = New(s, f)
AtMost(s, t) == \A f \in Inferred : s[f] \subseteq t[f]

(* The order of the rounds does not matter: at any moment the sets are at  *)
(* most the least solution of the equations, and if the last round changed *)
(* nothing they are that solution.  (A call chain of more functions than   *)
(* there are rounds can be cut short; its sets are then too small, and are *)
(* reported as complete.)                                                  *)
LeastSolution ==
    /\ \A s \in [Inferred -> SUBSET Errors] : Solves(s) => AtMost(sets, s)
    /\ setPhase = "done" /\ ~changed => Solves(sets)

(* What is reported for a function that is not recursive are the errors it *)
(* can come upon on the paths errors are passed along, and no other; no    *)
(* function on a cycle of calls is reported.                               *)
Passed     == [g \in Fns |-> edges[g] \cap Inferred]
Origins(f) == Closure(Passed, {f})
Own(g)     == direct[g] \cup UNION {declared[h] : h \in {i \in edges[g] : form[i] = "Explicit"}}

ReportedIsReturned ==
    setPhase = "done" /\ Cardinality(Fns) <= MaxRounds =>
        \A f \in DOMAIN Reported :
            /\ \A g \in Origins(f) : f \notin edges[g]
            /\ Reported[f] = UNION {Own(g) : g \in Origins(f)}

(* Both: the inferred sets are the least ones in whatever order functions  *)
(* are visited, and what is reported of a function is what it can return.  *)
ErrorSetsAreExact == LeastSolution /\ ReportedIsReturned
=============================================================================
