----------------------------- MODULE Interpreter ----------------------------
(***************************************************************************)
(* The smaller parts of the two runtimes side by side.  They share nothing *)
(* but the threads they run in, so a behaviour is one of a single part,    *)
(* chosen at the start.  The pool is the scheduler with tasks that return  *)
(* or panic, the channel is the same scheduler with tasks that wait.       *)
(***************************************************************************)
EXTENDS GoroutineRuntime

CONSTANTS Parts,                                          \* the parts that are looked at
          Interps, MaxHandles, MaxWrites,                 \* see FourMode
          Bodies, MayAwait, Results, MaxRuns,             \* see Future
          N, Threaded, Timed, MayHang, Spawners,          \* see TestRunner
          IrWorkers, IrGids                               \* see IrThreads

VARIABLES which,     \* the part that runs
          handles, channels, nextId, blocked, panicked, outcome, written, got, writes,  \* FourMode
          made, cancel, done, result, stack, runs, given, entered, spared,              \* Future
          tpc, pos, out, passed, failed, skipped, child, mail, left, verdict,           \* TestRunner
          iqueue, istate, ihasTask, inextGid, istarted, istop, iwpc, iheld, iowner,     \* IrThreads
          arg, ipc, icancel, idone, iresult, main, on, joined

containerVars == <<handles, channels, nextId, blocked, panicked, outcome, written, got, writes>>
futureVars    == <<made, cancel, done, result, stack, runs, given, entered, spared>>
testVars      == <<tpc, pos, out, passed, failed, skipped, child, mail, left, verdict>>
irVars        == <<iqueue, istate, ihasTask, inextGid, istarted, istop, iwpc, iheld, iowner,
                   arg, ipc, icancel, idone, iresult, main, on, joined>>
allVars == <<which, containerVars, futureVars, testVars, irVars, runtimeVars>>

Containers == INSTANCE FourMode
Futures    == INSTANCE Future WITH Futures <- Bodies, Values <- Results
Tests      == INSTANCE TestRunner WITH pc <- tpc
Ir         == INSTANCE IrThreads WITH Workers <- IrWorkers, MaxGid <- IrGids,
                queue <- iqueue, state <- istate, hasTask <- ihasTask, nextGid <- inextGid,
                started <- istarted, stop <- istop, pc <- iwpc, held <- iheld, owner <- iowner,
                tpc <- ipc, cancel <- icancel, done <- idone, result <- iresult

-----------------------------------------------------------------------------
ASSUME ContainerAssumption == MaxHandles \in Nat /\ MaxWrites \in Nat

\* No body awaits a future that waits for it, by way of others or itself: an
\* argument of an async fn is there before the future of the call.  (future_run
\* does not look; a cycle made through a global would enter a running body.)
ASSUME FutureAssumption ==
    /\ IsFiniteSet(Bodies) /\ MaxRuns \in Nat
    /\ MayAwait \in [Bodies -> SUBSET Bodies]
    /\ \E rank \in [Bodies -> 1..Cardinality(Bodies)] :
           \A f \in Bodies : \A g \in MayAwait[f] : rank[g] < rank[f]

ASSUME TestAssumption == N \in Nat

PartsInit ==
    /\ which \in Parts
    /\ Containers!Init /\ Futures!Init /\ Tests!Init /\ Ir!Init /\ RuntimeInit

\* Nothing changes but the variables of one part.
InPool    == which = "pool" /\ UNCHANGED <<which, containerVars, futureVars, testVars, irVars, chanVars, step>>
InTests   == which = "tests" /\ UNCHANGED <<which, containerVars, futureVars, irVars, runtimeVars>>
InIr      == which = "ir" /\ UNCHANGED <<which, containerVars, futureVars, testVars, runtimeVars>>
InChannel == which = "channel" /\ UNCHANGED <<which, containerVars, futureVars, testVars, irVars>>

UsesContainers ==
    /\ which = "containers" /\ Containers!Next
    /\ UNCHANGED <<which, futureVars, testVars, irVars, runtimeVars>>
UsesFutures ==
    /\ which = "futures" /\ Futures!Next
    /\ UNCHANGED <<which, containerVars, testVars, irVars, runtimeVars>>
RunsTests   == InTests /\ Tests!Next
RunsPool    == InPool /\ Next
RunsIr      == InIr /\ Ir!Next
UsesChannel == InChannel /\ RuntimeNext

PartsNext == UsesContainers \/ UsesFutures \/ RunsTests \/ RunsIr \/ RunsPool \/ UsesChannel

PartsSpec == PartsInit /\ [][PartsNext]_allVars

\* The fairness of each part, action by action as its module states it.
PartsFairSpec ==
    /\ PartsSpec
    /\ WF_allVars(InTests /\ Tests!RunnerRuns)
    /\ \A t \in Tests!Tests \ Threaded :
           WF_allVars(InTests /\ Tests!LeftRuns(t)) /\ WF_allVars(InTests /\ Tests!LeftReturns(t))
    /\ WF_allVars(InIr /\ Ir!MainProceeds)
    /\ \A w \in IrWorkers : WF_allVars(InIr /\ Ir!Worker(w))
    /\ \A w \in Workers : WF_allVars(InPool /\ WorkerStep(w))
    /\ WF_allVars(InPool /\ DropEnds)
    /\ WF_allVars(InChannel /\ Submits)
    /\ \A w \in Workers : WF_allVars(InChannel /\ Works(w))

-----------------------------------------------------------------------------
\* The first invariant of a part also says that its variables have their types.

\* A container is a queue of its own to the interpreter that made it (FourMode).
OwnFifo == Containers!TypeOK /\ Containers!OwnFifo

\* A value that was written is read at most once, and an interpreter only
\* panics over a Pipe that another one made (FourMode).
ReadOnce == Containers!ReadOnce /\ Containers!PanicNeedsAlias

\* A read of a container that holds values gets one, in any thread: so
\* semantic/infer.rs, not the code (FourMode).
SharedBetweenThreads == Containers!SharedBetweenThreads

\* All awaits of a future give one value (Future).
AwaitIsStable == Futures!TypeOK /\ Futures!AwaitIsStable

\* A body runs once, not after a cancel, and answers its await (Future).
RunsOnce == Futures!RunsOnce /\ Futures!DoneIsAnswered

\* The summary counts what the lines report, and each reports the test's own
\* verdict (TestRunner).
ReportIsTrue == Tests!TypeOK /\ Tests!Tally /\ Tests!OwnVerdict

\* A run ends, hanging thread-mode tests or not (TestRunner).
RunEnds == which = "tests" => Tests!RunEnds

\* Threads of the IR: joins of a thread agree, and return (IrThreads).
IrJoins == []Ir!JoinsAgree /\ Ir!JoinTerminates

\* Every submitted goroutine runs, if a worker is left (GoroutineScheduler).
SubmissionsRun == which = "pool" => EverySubmissionRuns

\* Drop of the scheduler returns (GoroutineScheduler).
DropsReturn == which = "pool" => DropReturns

\* All goroutines finish, receivers first or not (GoroutineRuntime).
ChannelRuns == which = "channel" => AllFinish
=============================================================================
