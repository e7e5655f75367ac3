-------------------------- MODULE GoroutineScheduler --------------------------
(***************************************************************************)
(* The goroutine scheduler of hc-rt/src/interp/mod.rs (the same code runs  *)
(* under the IR: hc/src/ir/models/goroutine_scheduler_ir.rs): one mutex    *)
(* around a FIFO of goroutine ids and the goroutine table, a pool of OS    *)
(* threads that run worker_loop, and a stop flag set by Drop.              *)
(*                                                                         *)
(* A worker takes the mutex three times per goroutine: to pop its id, to   *)
(* mark it Running and take its task, and to mark it Done.  The task runs  *)
(* between the last two without the mutex.  A task that panics unwinds out *)
(* of worker_loop (there is no catch_unwind): the worker is gone and the   *)
(* goroutine stays Running.                                                *)
(***************************************************************************)
EXTENDS Naturals, Sequences, FiniteSets

CONSTANTS Workers,   \* the worker threads, num_workers of them
          MaxGid,    \* bound: number of goroutines submitted
          MayPanic   \* the goroutines whose task may panic

ASSUME SchedulerAssumption ==
    /\ MaxGid \in Nat
    /\ MayPanic \in SUBSET (1..MaxGid)

GIds == 1..MaxGid
NoGid == 0

VARIABLES queue,    \* SchedulerInner::global_queue
          state,    \* Goroutine::state, "Absent" before submit
          hasTask,  \* Goroutine::task is Some
          nextGid,  \* SchedulerInner::next_gid
          started,  \* GoroutineScheduler::started
          stop,     \* the stop flag
          pc,       \* where each worker is in worker_loop
          held,     \* `gid` of each worker, NoGid outside an iteration
          owner     \* the thread that owns the scheduler: "alive", in Drop
                    \* ("joining") or past it ("dropped")

inner == <<queue, state, hasTask, nextGid>>
pool  == <<pc, held>>
vars  == <<inner, started, stop, pool, owner>>

GState == {"Absent", "Runnable", "Running", "Done"}
WorkerPc == {"unborn", "test", "pop", "take", "run", "exited", "unwound"}

Init ==
    /\ queue = <<>>
    /\ state = [g \in GIds |-> "Absent"]
    /\ hasTask = [g \in GIds |-> FALSE]
    /\ nextGid = 1
    /\ started = FALSE
    /\ stop = FALSE
    /\ pc = [w \in Workers |-> "unborn"]
    /\ held = [w \in Workers |-> NoGid]
    /\ owner = "alive"

Goto(w, p, g) == pc' = [pc EXCEPT ![w] = p] /\ held' = [held EXCEPT ![w] = g]

-----------------------------------------------------------------------------
(* start(): idempotent; all workers begin worker_loop.                     *)
Start ==
    /\ owner = "alive" /\ ~started
    /\ started' = TRUE
    /\ pc' = [w \in Workers |-> "test"]
    /\ UNCHANGED <<queue, state, hasTask, nextGid, stop, held, owner>>

(* submit(): a fresh id, a Runnable goroutine with its task, the tail of   *)
(* the queue.                                                              *)
Submit ==
    /\ owner = "alive" /\ nextGid \in GIds
    /\ nextGid' = nextGid + 1
    /\ state' = [state EXCEPT ![nextGid] = "Runnable"]
    /\ hasTask' = [hasTask EXCEPT ![nextGid] = TRUE]
    /\ queue' = Append(queue, nextGid)
    /\ UNCHANGED <<started, stop, pc, held, owner>>

-----------------------------------------------------------------------------
(* Mutant: the worker stops only if it was never asked to run anything.    *)
TestStopForgotten(w) ==
    /\ pc[w] = "test"
    /\ Goto(w, IF stop /\ nextGid = 1 THEN "exited" ELSE "pop", NoGid)
    /\ UNCHANGED <<queue, state, hasTask, nextGid, started, stop, owner>>

(* while !stop.load                                                        *)
TestStop(w) ==
    /\ pc[w] = "test"
    /\ Goto(w, IF stop THEN "exited" ELSE "pop", NoGid)
    /\ UNCHANGED <<queue, state, hasTask, nextGid, started, stop, owner>>

(* Mutant: the id stays in the queue until the task has been taken.        *)
PeekGid(w) ==
    /\ pc[w] = "pop"
    /\ IF queue = <<>> THEN Goto(w, "test", NoGid) ELSE Goto(w, "take", Head(queue))
    /\ UNCHANGED <<queue, state, hasTask, nextGid, started, stop, owner>>

(* Mutant: an empty queue ends the worker.                                 *)
PopGidOrExit(w) ==
    /\ pc[w] = "pop"
    /\ \/ queue = <<>> /\ Goto(w, "exited", NoGid) /\ UNCHANGED queue
       \/ queue # <<>> /\ Goto(w, "take", Head(queue)) /\ queue' = Tail(queue)
    /\ UNCHANGED <<state, hasTask, nextGid, started, stop, owner>>

(* First critical section: global_queue.pop_front; on None sleep and loop. *)
PopGid(w) ==
    /\ pc[w] = "pop"
    /\ \/ /\ queue = <<>>
          /\ Goto(w, "test", NoGid)
          /\ UNCHANGED queue
       \/ /\ queue # <<>>
          /\ Goto(w, "take", Head(queue))
          /\ queue' = Tail(queue)
    /\ UNCHANGED <<state, hasTask, nextGid, started, stop, owner>>

(* Mutant: the task is cloned out of the table, not taken.                 *)
TakeTaskKeeps(w) ==
    /\ pc[w] = "take"
    /\ state' = [state EXCEPT ![held[w]] = "Running"]
    /\ IF hasTask[held[w]] THEN Goto(w, "run", held[w]) ELSE Goto(w, "test", NoGid)
    /\ UNCHANGED <<queue, hasTask, nextGid, started, stop, owner>>

(* Second critical section: state = Running, task.take(); a goroutine      *)
(* without a task is skipped.                                              *)
TakeTask(w) ==
    /\ pc[w] = "take"
    /\ state' = [state EXCEPT ![held[w]] = "Running"]
    /\ hasTask' = [hasTask EXCEPT ![held[w]] = FALSE]
    /\ IF hasTask[held[w]] THEN Goto(w, "run", held[w]) ELSE Goto(w, "test", NoGid)
    /\ UNCHANGED <<queue, nextGid, started, stop, owner>>

(* task() returns; third critical section: state = Done.                   *)
TaskReturns(w) ==
    /\ pc[w] = "run"
    /\ state' = [state EXCEPT ![held[w]] = "Done"]
    /\ Goto(w, "test", NoGid)
    /\ UNCHANGED <<queue, hasTask, nextGid, started, stop, owner>>

(* task() panics: the worker thread ends by unwinding.                     *)
TaskPanics(w) ==
    /\ pc[w] = "run" /\ held[w] \in MayPanic
    /\ pc' = [pc EXCEPT ![w] = "unwound"]
    /\ UNCHANGED <<queue, state, hasTask, nextGid, started, stop, held, owner>>

-----------------------------------------------------------------------------
WorkerEnded(w) == pc[w] \in {"unborn", "exited", "unwound"}

(* Drop: stop.store(true), then join every worker; a join returns when the *)
(* worker has ended, by a panic too (`let _ = w.join()`).                  *)
DropStarts ==
    /\ owner = "alive"
    /\ owner' = "joining"
    /\ stop' = TRUE
    /\ UNCHANGED <<queue, state, hasTask, nextGid, started, pc, held>>

DropEnds ==
    /\ owner = "joining"
    /\ \A w \in Workers : WorkerEnded(w)
    /\ owner' = "dropped"
    /\ UNCHANGED <<queue, state, hasTask, nextGid, started, stop, pc, held>>

WorkerStep(w) == TestStop(w) \/ PopGid(w) \/ TakeTask(w) \/ TaskReturns(w)

Next ==
    \/ Start \/ Submit \/ DropStarts \/ DropEnds
    \/ \E w \in Workers : WorkerStep(w) \/ TaskPanics(w)

Spec == Init /\ [][Next]_vars

(* Every worker keeps running and every task that does not panic returns;  *)
(* the owner, once in Drop, finishes it.                                   *)
FairSpec ==
    /\ Spec
    /\ \A w \in Workers : WF_vars(WorkerStep(w))
    /\ WF_vars(DropEnds)

-----------------------------------------------------------------------------
TypeOK ==
    /\ queue \in Seq(GIds)
    /\ state \in [GIds -> GState]
    /\ hasTask \in [GIds -> BOOLEAN]
    /\ nextGid \in 1..(MaxGid + 1)
    /\ started \in BOOLEAN /\ stop \in BOOLEAN
    /\ pc \in [Workers -> WorkerPc]
    /\ held \in [Workers -> GIds \cup {NoGid}]
    /\ owner \in {"alive", "joining", "dropped"}

Holds(w, g) == pc[w] \in {"take", "run", "unwound"} /\ held[w] = g

(* First in, first out, nothing skipped: the queue always holds exactly    *)
(* the latest submissions, in the order of their ids.  So goroutines are   *)
(* popped in the order of submit, each once, whichever worker is faster.   *)
QueueIsLatest ==
    \A i \in 1..Len(queue) : queue[i] = (nextGid - 1) - Len(queue) + i

(* Between the critical sections a goroutine is never in two hands: no two *)
(* workers hold the same one, and none that is still queued.               *)
OneHolder ==
    /\ \A v, w \in Workers : \A g \in GIds : Holds(v, g) /\ Holds(w, g) => v = w
    /\ \A w \in Workers : \A i \in 1..Len(queue) : ~Holds(w, queue[i])

Queued(g)  == \E i \in 1..Len(queue) : queue[i] = g
InHand(p, g) == \E w \in Workers : pc[w] = p /\ held[w] = g

(* The published state tells where the goroutine is, although the state    *)
(* and the position change in different critical sections: Runnable from   *)
(* submit until the second critical section, task present meanwhile; a     *)
(* goroutine is Running exactly while a worker has it, or for ever when    *)
(* its task panicked; a popped goroutine that is not held is Done.         *)
StateTellsPlace ==
    \A g \in GIds :
        /\ state[g] = "Absent" <=> g >= nextGid
        /\ state[g] = "Runnable" <=> Queued(g) \/ InHand("take", g)
        /\ state[g] = "Running" <=> InHand("run", g) \/ InHand("unwound", g)
        /\ hasTask[g] <=> state[g] = "Runnable"

(* get_state never goes back: Runnable, Running, Done.  In particular a    *)
(* task is never run twice.                                                *)
Rank == [s \in GState |->
            CASE s = "Absent" -> 0 [] s = "Runnable" -> 1 [] s = "Running" -> 2 [] s = "Done" -> 3]
StateOnlyAdvances ==
    [][\A g \in GIds : Rank[state'[g]] \in {Rank[state[g]], Rank[state[g]] + 1}]_vars

(* When Drop has returned no worker is left to run anything: what a task   *)
(* borrows from the owner outlives it.                                     *)
NothingRunsAfterDrop ==
    owner = "dropped" => \A w \in Workers : WorkerEnded(w)

(* Liveness, a worker left that no panic has killed: every goroutine that  *)
(* is submitted to a started scheduler is run, to the end unless it panics *)
(* itself, or Drop begins first.                                           *)
EverySubmissionRuns ==
    \A g \in GIds :
        started /\ state[g] = "Runnable" ~> state[g] = "Done" \/ InHand("unwound", g) \/ stop

(* Liveness: Drop returns.  Workers see the flag after at most one more    *)
(* task; no backlog, however long, delays it.                              *)
DropReturns == owner = "joining" ~> owner = "dropped"
=============================================================================
