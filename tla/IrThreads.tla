------------------------------ MODULE IrThreads ------------------------------
(***************************************************************************)
(* Threads of the IR runtime (hc/src/ir: builtin.rs call_spawn_builtin,    *)
(* method.rs call_thread_method_ir), over its GoroutineScheduler.  They    *)
(* differ from those of the interpreter (ThreadRuntime): a join leaves the *)
(* handle and the result where they are, so a thread may be joined again;  *)
(* a cancelled task does not even start a runtime; nothing is drained at   *)
(* the end.  And an argument may be an index into the cells of the         *)
(* spawning runtime, which the thread looks up among its own: the cells of *)
(* the globals are there, initialised afresh, a later index may be beyond  *)
(* the end, which panics in the task.                                      *)
(***************************************************************************)
EXTENDS Naturals, Sequences, FiniteSets

CONSTANTS Workers, MaxGid   \* see GoroutineScheduler

VARIABLES queue, state, hasTask, nextGid, started, stop, pc, held, owner,
          arg,      \* what each thread was given
          tpc,      \* where its task is
          cancel, done, result,   \* ThreadStateIr
          main,     \* what the program is doing
          on,       \* the thread it joins
          joined    \* history: what joins of each thread returned

vars == <<queue, state, hasTask, nextGid, started, stop, pc, held, owner,
          tpc, cancel, done, result, arg, main, on, joined>>

SchedUnchanged == UNCHANGED <<queue, state, hasTask, nextGid, started, stop, pc, held, owner>>
TaskUnchanged  == UNCHANGED <<tpc, cancel, done, result>>
MainUnchanged  == UNCHANGED <<arg, main, on, joined>>

S == INSTANCE GoroutineScheduler WITH MayPanic <- 1..MaxGid

Tids == S!GIds
\* A number, text or the cell of a global; the index of a cell made since.
Args == {"value", "fresh"}

Init ==
    /\ S!Init
    /\ arg = [t \in Tids |-> "value"]
    /\ tpc = [t \in Tids |-> "closure"]
    /\ cancel = [t \in Tids |-> FALSE]
    /\ done = [t \in Tids |-> FALSE]
    /\ result = [t \in Tids |-> "None"]
    /\ main = "running" /\ on = S!NoGid
    /\ joined = [t \in Tids |-> {}]

-----------------------------------------------------------------------------
\* start(), submit, thread_handles.insert, one after the other in one thread;
\* that the workers begin between the two changes nothing they can see.
SpawnStartsPool == main = "running" /\ S!Start /\ TaskUnchanged /\ MainUnchanged

Spawn(a) ==
    /\ main = "running" /\ started
    /\ S!Submit
    /\ arg' = [arg EXCEPT ![nextGid] = a]
    /\ TaskUnchanged /\ UNCHANGED <<main, on, joined>>

Spawned(t) == t < nextGid

Cancel(t) ==
    /\ main = "running" /\ Spawned(t)
    /\ cancel' = [cancel EXCEPT ![t] = TRUE]
    /\ SchedUnchanged /\ MainUnchanged /\ UNCHANGED <<tpc, done, result>>

Join(t) ==
    /\ main = "running" /\ Spawned(t)
    /\ main' = "joining" /\ on' = t
    /\ SchedUnchanged /\ TaskUnchanged /\ UNCHANGED <<arg, joined>>

\* The done flag is seen; the result is copied.
JoinReturns ==
    /\ main = "joining" /\ done[on]
    /\ joined' = [joined EXCEPT ![on] = @ \cup {result[on]}]
    /\ main' = "running" /\ on' = S!NoGid
    /\ SchedUnchanged /\ TaskUnchanged /\ UNCHANGED arg

\* main returns, the Ctx is dropped and its scheduler with it.
End ==
    /\ main = "running" /\ main' = "ended"
    /\ S!DropStarts
    /\ TaskUnchanged /\ UNCHANGED <<arg, on, joined>>

Dropped == S!DropEnds /\ TaskUnchanged /\ MainUnchanged

-----------------------------------------------------------------------------
InTask(w, p) == pc[w] = "run" /\ tpc[held[w]] = p

\* Mutant: a cancelled task is left without its done flag.
EnterForgetsDone(w) ==
    /\ InTask(w, "closure")
    /\ IF cancel[held[w]]
       THEN /\ result' = [result EXCEPT ![held[w]] = "Cancelled"]
            /\ tpc' = [tpc EXCEPT ![held[w]] = "end"]
       ELSE tpc' = [tpc EXCEPT ![held[w]] = "body"] /\ UNCHANGED result
    /\ SchedUnchanged /\ MainUnchanged /\ UNCHANGED <<cancel, done>>

\* The test of the cancel flag, before a runtime is made.
Enter(w) ==
    /\ InTask(w, "closure")
    /\ IF cancel[held[w]]
       THEN /\ result' = [result EXCEPT ![held[w]] = "Cancelled"]
            /\ tpc' = [tpc EXCEPT ![held[w]] = "store"]
       ELSE tpc' = [tpc EXCEPT ![held[w]] = "body"] /\ UNCHANGED result
    /\ SchedUnchanged /\ MainUnchanged /\ UNCHANGED <<cancel, done>>

\* IrRuntime::init and exec_func; the result.
Body(w) ==
    /\ InTask(w, "body")
    /\ \E r \in {"Ok", "Err"} : result' = [result EXCEPT ![held[w]] = r]
    /\ tpc' = [tpc EXCEPT ![held[w]] = "store"]
    /\ SchedUnchanged /\ MainUnchanged /\ UNCHANGED <<cancel, done>>

\* An index beyond the cells of this thread.
BodyPanics(w) ==
    /\ InTask(w, "body") /\ arg[held[w]] = "fresh"
    /\ S!TaskPanics(w)
    /\ TaskUnchanged /\ MainUnchanged

StoreDone(w) ==
    /\ InTask(w, "store")
    /\ done' = [done EXCEPT ![held[w]] = TRUE]
    /\ tpc' = [tpc EXCEPT ![held[w]] = "end"]
    /\ SchedUnchanged /\ MainUnchanged /\ UNCHANGED <<cancel, result>>

TaskReturns(w) ==
    /\ InTask(w, "end")
    /\ S!TaskReturns(w)
    /\ TaskUnchanged /\ MainUnchanged

Worker(w) ==
    \/ (S!TestStop(w) \/ S!PopGid(w) \/ S!TakeTask(w)) /\ TaskUnchanged /\ MainUnchanged
    \/ Enter(w) \/ Body(w) \/ StoreDone(w) \/ TaskReturns(w)

-----------------------------------------------------------------------------
MainProceeds == JoinReturns \/ Dropped

Next ==
    \/ SpawnStartsPool
    \/ \E a \in Args : Spawn(a)
    \/ \E t \in Tids : Cancel(t) \/ Join(t)
    \/ MainProceeds \/ End
    \/ \E w \in Workers : Worker(w) \/ BodyPanics(w)

Spec == Init /\ [][Next]_vars

\* Workers keep running and bodies return; a wait that is over is left.
Fairness ==
    /\ WF_vars(MainProceeds)
    /\ \A w \in Workers : WF_vars(Worker(w))
FairSpec == Spec /\ Fairness

-----------------------------------------------------------------------------
Unwound(w) == pc[w] = "unwound"

\* However often a thread is joined, and whatever is cancelled meanwhile,
\* its joins return one and the same result, and not before it is there.
JoinsAgree == \A t \in Tids : Cardinality(joined[t]) <= 1 /\ "None" \notin joined[t]

\* A join returns, also for the threads that others' wrong indices leave
\* behind, unless the thread itself panics, or every worker has: each
\* panic takes a worker away for good, and threads that are still queued
\* then wait for ever.  (No handle is ever removed: a second join returns.)
JoinTerminates ==
    \A t \in Tids : main = "joining" /\ on = t
        ~> main # "joining" \/ S!InHand("unwound", t) \/ \A w \in Workers : Unwound(w)
=============================================================================
