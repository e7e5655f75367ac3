-------------------------------- MODULE Future --------------------------------
(***************************************************************************)
(* Futures of hc-rt/src/interp/call.rs: an async fn called makes a Future; *)
(* `await` (future_run) runs its body to the end in the awaiting code and  *)
(* caches the result.  Bodies may await other futures, so running bodies   *)
(* form a stack.  A run-time error (RtError) is not a value: it unwinds    *)
(* every running body, and the caller at the bottom (a test of run_tests)  *)
(* goes on to the next test; futures in globals live on.                   *)
(*                                                                         *)
(* Left out: deferred code that runs while an error unwinds.               *)
(***************************************************************************)
EXTENDS Naturals, Sequences, FiniteSets

CONSTANTS Futures,   \* the futures of the program
          MayAwait,  \* MayAwait[f]: the futures the body of f can await
          Values,    \* what a body can return, error values included
          MaxRuns    \* bound: number of bodies entered

VARIABLES made,      \* futures whose async fn was called
          cancel,    \* the `cancel` fields that are true
          done,      \* the `done` fields that are true
          result,    \* the `result` fields
          stack,     \* the futures whose bodies run, the innermost last
          runs,      \* number of bodies entered, see MaxRuns
          given,     \* history: given[f], the values awaits of f evaluated to
          entered,   \* history: futures whose body was entered
          spared     \* history: futures cancelled when their body was not entered

vars == <<made, cancel, done, result, stack, runs, given, entered, spared>>

Running == {stack[n] : n \in DOMAIN stack}

(* What the code that runs now may await or cancel.                        *)
InReach == made \cap (IF stack = <<>> THEN Futures ELSE MayAwait[stack[Len(stack)]])

Init ==
    /\ made = {} /\ cancel = {} /\ done = {}
    /\ result = [f \in Futures |-> "Void"]
    /\ stack = <<>> /\ runs = 0
    /\ given = [f \in Futures |-> {}]
    /\ entered = {} /\ spared = {}

Gives(f, v) == given' = [given EXCEPT ![f] = @ \cup {v}]

-----------------------------------------------------------------------------
(* call_or_defer, make_future: nothing runs.                               *)
Make(f) ==
    /\ f \notin made
    /\ made' = made \cup {f}
    /\ UNCHANGED <<cancel, done, result, stack, runs, given, entered, spared>>

(* await of a future that is done: the cached result.                      *)
AwaitDone(f) ==
    /\ f \in InReach \cap done
    /\ Gives(f, result[f])
    /\ UNCHANGED <<made, cancel, done, result, stack, runs, entered, spared>>

(* Mutant: the answer is not cached.                                       *)
AwaitCancelledUncached(f) ==
    /\ f \in (InReach \cap cancel) \ done
    /\ Gives(f, "Cancelled")
    /\ done' = done \cup {f}
    /\ UNCHANGED <<made, cancel, result, stack, runs, entered, spared>>

(* await of a cancelled one: done, with error.Cancelled as its result.     *)
AwaitCancelled(f) ==
    /\ f \in (InReach \cap cancel) \ done
    /\ Gives(f, "Cancelled")
    /\ done' = done \cup {f}
    /\ result' = [result EXCEPT ![f] = "Cancelled"]
    /\ UNCHANGED <<made, cancel, stack, runs, entered, spared>>

(* Mutant: the done field is not looked at.                                *)
AwaitRunsAgain(f) ==
    /\ f \in InReach \ cancel
    /\ runs < MaxRuns /\ runs' = runs + 1
    /\ stack' = Append(stack, f)
    /\ entered' = entered \cup {f}
    /\ UNCHANGED <<made, cancel, done, result, given, spared>>

(* await of any other: the body is entered.                                *)
AwaitRuns(f) ==
    /\ f \in InReach \ (done \cup cancel)
    /\ runs < MaxRuns /\ runs' = runs + 1
    /\ stack' = Append(stack, f)
    /\ entered' = entered \cup {f}
    /\ UNCHANGED <<made, cancel, done, result, given, spared>>

(* The body returns v, a value or an error value.  Both fields are written *)
(* whatever they hold by now, the `cancel` field is not looked at again.   *)
BodyReturns(v) ==
    /\ stack # <<>>
    /\ LET f == stack[Len(stack)] IN
           /\ done' = done \cup {f}
           /\ result' = [result EXCEPT ![f] = v]
           /\ Gives(f, v)
    /\ stack' = SubSeq(stack, 1, Len(stack) - 1)
    /\ UNCHANGED <<made, cancel, runs, entered, spared>>

(* The innermost body raises an RtError: every await above it returns the  *)
(* error before it sets a field.                                           *)
BodyRaises ==
    /\ stack # <<>>
    /\ stack' = <<>>
    /\ UNCHANGED <<made, cancel, done, result, runs, given, entered, spared>>

(* cancel(): the field, whatever state the future is in.                   *)
Cancel(f) ==
    /\ f \in InReach
    /\ cancel' = cancel \cup {f}
    /\ spared' = IF f \in entered THEN spared ELSE spared \cup {f}
    /\ UNCHANGED <<made, done, result, stack, runs, given, entered>>

Next ==
    \/ \E f \in Futures :
           Make(f) \/ AwaitDone(f) \/ AwaitCancelled(f) \/ AwaitRuns(f) \/ Cancel(f)
    \/ \E v \in Values : BodyReturns(v)
    \/ BodyRaises

Spec == Init /\ [][Next]_vars

-----------------------------------------------------------------------------
TypeOK ==
    /\ \A s \in {made, cancel, done, entered, spared} : s \subseteq Futures
    /\ result \in [Futures -> Values \cup {"Void", "Cancelled"}]
    /\ stack \in Seq(Futures) /\ runs \in 0..MaxRuns
    /\ given \in [Futures -> SUBSET (Values \cup {"Void", "Cancelled"})]

(* await is idempotent (async.rs "await_after_await_is_cached"): all the   *)
(* awaits of a future evaluate to one and the same value, although errors  *)
(* may interrupt and cancellations overtake its body.                      *)
AwaitIsStable == \A f \in Futures : Cardinality(given[f]) <= 1

(* A body runs once at a time and only while it may: a future that is done *)
(* is not running, so no stale body is left that could overwrite a cached  *)
(* result; and cancel() before the first await is final, however often the *)
(* cancelled future is awaited.                                            *)
RunsOnce ==
    /\ \A m, n \in DOMAIN stack : stack[m] = stack[n] => m = n
    /\ Running \cap done = {}
    /\ spared \cap entered = {}

(* An await that was interrupted by an error leaves the future as it was:  *)
(* a future is done exactly when an await of it has got an answer.         *)
DoneIsAnswered == \A f \in Futures : f \in done <=> given[f] # {}
=============================================================================
