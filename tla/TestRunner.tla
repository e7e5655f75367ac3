------------------------------ MODULE TestRunner ------------------------------
(***************************************************************************)
(* run_tests of hc-rt/src/interp/layout.rs: the tests of a program in the  *)
(* order of their declarations, each in its mode.  A serial or async test  *)
(* runs in the runner's own interpreter and is looked at the clock after;  *)
(* a thread-mode test runs in an OS thread with an interpreter of its own  *)
(* and the runner waits on a channel, with a deadline (recv_timeout).  A   *)
(* test that missed its deadline is never stopped: it keeps running beside *)
(* the tests that follow, and answers late or never.  A test can leave a   *)
(* spawned goroutine (see ThreadRuntime) behind.                           *)
(*                                                                         *)
(* The clock is abstracted: a deadline passes whenever it likes.  Left     *)
(* out: the printed lines but for test and verdict, and panics of the      *)
(* runner's own interpreter, which end the process.                        *)
(***************************************************************************)
EXTENDS Naturals, Sequences, FiniteSets

CONSTANTS N,         \* number of tests, in the order of declaration
          Threaded,  \* those of TestMode::Thread
          Timed,     \* the other ones with a timeout
          MayHang,   \* tests whose body may never end
          Spawners   \* tests that may leave a goroutine behind

Tests == 1..N

Verdicts == {"pass", "skip", "fail"}      \* what a body comes to
Broken   == {"timeout", "thread panic"}   \* what the runner says of the others

VARIABLES pc,        \* of the runner: "next", "body", "waits", "drains", "end"
          pos,       \* the test it is at
          out,       \* test_out: one [test, verdict] for each test reported
          passed, failed, skipped,
          child,     \* child[t], the thread of t: "none", "body",
                     \* "drops" (its interpreter), "gone"
          mail,      \* mail[t], the channel of t: at most one verdict
          left,      \* the goroutine left behind by t: "none", "queued",
                     \* "runs", "done", "lost"
          verdict    \* history: verdict[t], what the body of t came to

vars == <<pc, pos, out, passed, failed, skipped, child, mail, left, verdict>>

Init ==
    /\ pc = "next" /\ pos = 1 /\ out = <<>>
    /\ passed = 0 /\ failed = 0 /\ skipped = 0
    /\ child = [t \in Tests |-> "none"]
    /\ mail = [t \in Tests |-> <<>>]
    /\ left = [t \in Tests |-> "none"]
    /\ verdict = [t \in Tests |-> "none"]

-----------------------------------------------------------------------------
(* The runner.                                                             *)

Upcoming == pc = "next" /\ pos \in Tests

(* The test at pos is reported as v, counted, and the next one is up.      *)
Report(v) ==
    /\ out' = Append(out, [test |-> pos, verdict |-> v])
    /\ passed'  = passed  + (IF v = "pass" THEN 1 ELSE 0)
    /\ skipped' = skipped + (IF v = "skip" THEN 1 ELSE 0)
    /\ failed'  = failed  + (IF v \in {"fail"} \cup Broken THEN 1 ELSE 0)
    /\ pos' = pos + 1
    /\ pc' = "next"

StartsSerial ==
    /\ Upcoming /\ pos \notin Threaded
    /\ pc' = "body"
    /\ UNCHANGED <<pos, out, passed, failed, skipped, child, mail, left, verdict>>

(* run_test_threaded up to recv_timeout.                                   *)
StartsThread ==
    /\ Upcoming /\ pos \in Threaded
    /\ child' = [child EXCEPT ![pos] = "body"]
    /\ pc' = "waits"
    /\ UNCHANGED <<pos, out, passed, failed, skipped, mail, left, verdict>>

(* The body came to v; late or not, the clock is read only now.            *)
SerialEnds(v) ==
    /\ pc = "body"
    /\ verdict' = [verdict EXCEPT ![pos] = v]
    /\ Report(v) \/ (pos \in Timed /\ Report("timeout"))
    /\ UNCHANGED <<child, mail, left>>

Receives ==
    /\ pc = "waits" /\ mail[pos] # <<>>
    /\ Report(Head(mail[pos]))
    /\ mail' = [mail EXCEPT ![pos] = Tail(@)]
    /\ UNCHANGED <<child, left, verdict>>

(* Mutant: recv() in place of recv_timeout().                              *)
TimesOutNever == FALSE

(* recv_timeout looks into the channel a last time.                        *)
TimesOut ==
    /\ pc = "waits" /\ mail[pos] = <<>>
    /\ Report("timeout")
    /\ UNCHANGED <<child, mail, left, verdict>>

(* RecvTimeoutError::Disconnected: the thread went without an answer.      *)
Disconnected ==
    /\ pc = "waits" /\ mail[pos] = <<>> /\ child[pos] = "gone"
    /\ Report("thread panic")
    /\ UNCHANGED <<child, mail, left, verdict>>

(* drain_root_threads: the goroutines of the runner's own interpreter.     *)
DrainStarts ==
    /\ pc = "next" /\ pos = N + 1
    /\ pc' = "drains"
    /\ UNCHANGED <<pos, out, passed, failed, skipped, child, mail, left, verdict>>

DrainReturns ==
    /\ pc = "drains"
    /\ \A t \in Tests \ Threaded : left[t] \in {"none", "done"}
    /\ pc' = "end"
    /\ UNCHANGED <<pos, out, passed, failed, skipped, child, mail, left, verdict>>

-----------------------------------------------------------------------------
(* The thread of a test of TestMode::Thread.                               *)

Waited(t) == pc = "waits" /\ pos = t      \* the receiver still exists

(* Mutant: one channel for the whole run.                                  *)
AnswersRunner(t, v) ==
    mail' = IF pc = "waits" THEN [mail EXCEPT ![pos] = Append(@, v)] ELSE mail

(* `let _ = tx.send(..)`: lost when the runner has gone on.                *)
Answers(t, v) ==
    mail' = IF Waited(t) THEN [mail EXCEPT ![t] = Append(@, v)] ELSE mail

(* The body came to v, or the program could not be loaded (a "fail").      *)
ChildEnds(t, v) ==
    /\ child[t] = "body"
    /\ verdict' = [verdict EXCEPT ![t] = v]
    /\ Answers(t, v)
    /\ child' = [child EXCEPT ![t] = "drops"]
    /\ UNCHANGED <<pc, pos, out, passed, failed, skipped, left>>

ChildPanics(t) ==
    /\ child[t] = "body"
    /\ child' = [child EXCEPT ![t] = "drops"]
    /\ UNCHANGED <<pc, pos, out, passed, failed, skipped, mail, left, verdict>>

(* Drop for Interp: its workers finish what they run, what still waits in  *)
(* the queue is dropped with it; then the closure, and with it `tx`.       *)
ChildDrops(t) ==
    /\ child[t] = "drops" /\ left[t] # "runs"
    /\ left' = [left EXCEPT ![t] = IF @ = "queued" THEN "lost" ELSE @]
    /\ child' = [child EXCEPT ![t] = "gone"]
    /\ UNCHANGED <<pc, pos, out, passed, failed, skipped, mail, verdict>>

-----------------------------------------------------------------------------
(* Goroutines left behind.                                                 *)

InBody(t) == IF t \in Threaded THEN child[t] = "body" ELSE pc = "body" /\ pos = t

Leaves(t) ==
    /\ t \in Spawners /\ InBody(t) /\ left[t] = "none"
    /\ left' = [left EXCEPT ![t] = "queued"]
    /\ UNCHANGED <<pc, pos, out, passed, failed, skipped, child, mail, verdict>>

(* A worker of the interpreter of t takes it, also during the drop.        *)
LeftRuns(t) ==
    /\ left[t] = "queued"
    /\ left' = [left EXCEPT ![t] = "runs"]
    /\ UNCHANGED <<pc, pos, out, passed, failed, skipped, child, mail, verdict>>

LeftReturns(t) ==
    /\ left[t] = "runs"
    /\ left' = [left EXCEPT ![t] = "done"]
    /\ UNCHANGED <<pc, pos, out, passed, failed, skipped, child, mail, verdict>>

-----------------------------------------------------------------------------
Runner ==
    \/ StartsSerial \/ StartsThread \/ Receives \/ TimesOut \/ Disconnected
    \/ DrainStarts \/ DrainReturns
    \/ \E v \in Verdicts : SerialEnds(v)

Next ==
    \/ Runner
    \/ \E t \in Tests :
           \/ \E v \in Verdicts : ChildEnds(t, v)
           \/ ChildPanics(t) \/ ChildDrops(t)
           \/ Leaves(t) \/ LeftRuns(t) \/ LeftReturns(t)

Spec == Init /\ [][Next]_vars

(* The runner runs, save in the body of a test that may hang; deadlines    *)
(* pass; the workers of the runner's own pool run.  Nothing is assumed of  *)
(* the threads of the tests.                                               *)
RunnerRuns == Runner /\ (pc = "body" => pos \notin MayHang)
Fairness ==
    /\ WF_vars(RunnerRuns)
    /\ \A t \in Tests \ Threaded : WF_vars(LeftRuns(t)) /\ WF_vars(LeftReturns(t))

FairSpec == Spec /\ Fairness

-----------------------------------------------------------------------------
TypeOK ==
    /\ pc \in {"next", "body", "waits", "drains", "end"}
    /\ pos \in 1..(N + 1)
    /\ out \in Seq([test : Tests, verdict : Verdicts \cup Broken])
    /\ {passed, failed, skipped} \subseteq 0..N
    /\ child \in [Tests -> {"none", "body", "drops", "gone"}]
    /\ \A t \in Tests : mail[t] \in Seq(Verdicts)
    /\ left \in [Tests -> {"none", "queued", "runs", "done", "lost"}]
    /\ verdict \in [Tests -> Verdicts \cup {"none"}]

With(V) == Cardinality({n \in DOMAIN out : out[n].verdict \in V})

(* The summary tells what the lines tell: every test up to the current one *)
(* is reported once, in the order of the declarations, and counted once.   *)
Tally ==
    /\ Len(out) = pos - 1
    /\ \A n \in DOMAIN out : out[n].test = n
    /\ passed = With({"pass"}) /\ skipped = With({"skip"})
    /\ failed = With({"fail"} \cup Broken)

(* A verdict is the test's own: never the late answer of an earlier one,   *)
(* and a test with no deadline is reported as what it came to.             *)
OwnVerdict ==
    \A n \in DOMAIN out : LET t == out[n].test  v == out[n].verdict IN
        \/ v = verdict[t]
        \/ v = "timeout" /\ t \in Threaded \cup Timed
        \/ v = "thread panic" /\ t \in Threaded /\ verdict[t] = "none"

(* The run ends although thread-mode tests hang (recv_timeout is there for *)
(* that); serial tests have to end by themselves.                          *)
RunEnds == <>(pc = "end")
=============================================================================
