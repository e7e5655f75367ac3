---------------------------- MODULE ThreadRuntime ----------------------------
(***************************************************************************)
(* The threads of one interpreter: spawn, join, cancel, detach, is_done,   *)
(* io.poll, the promotion of unjoined threads when a scope is left and the *)
(* drain at the end of the program (hc-rt/src/interp: call.rs, loader.rs,  *)
(* io.rs, layout.rs), over its GoroutineScheduler.                         *)
(*                                                                         *)
(* The interpreter is one OS thread, `main`; what it shares with a task is *)
(* the cancel flag, the done flag and the result slot.  next_tid and       *)
(* next_gid start at 1 and advance together, in spawn only, so a thread    *)
(* and its goroutine have the same number here.                            *)
(*                                                                         *)
(* `drains` tells the two kinds of interpreter apart: the one of run_main  *)
(* or run_tests ends with drain_root_threads; the one a spawned task or a  *)
(* thread-mode test runs in is simply dropped.                             *)
(***************************************************************************)
EXTENDS GoroutineScheduler

CONSTANT Drains     \* the kinds of interpreter, TRUE if it drains

ASSUME ThreadAssumption == Drains \subseteq BOOLEAN

VARIABLES drains,    \* the interpreter drains at its end
          tpc,       \* where each task is in the closure built by spawn
          cancel,    \* ThreadState::cancel
          done,      \* ThreadState::done
          result,    \* ThreadState::result
          handles,   \* the keys of Interp::thread_handles
          fDone,     \* field `done` of the Thread value
          fDetached, \* field `detached` of the Thread value
          bound,     \* threads bound to a variable of the current scope
          root,      \* Interp::root_threads
          main,      \* what the interpreter is doing
          on,        \* the thread whose done flag it spins on, NoGid if none
          waiting,   \* poll and drain: the threads still to be joined
          delivered, \* history: what join returned for each thread
          early      \* history: threads cancelled before a worker had them

schedVars   == <<queue, state, hasTask, nextGid, started, stop, pc, held, owner>>
taskVars    == <<tpc, cancel, done, result>>
mainVars    == <<drains, handles, fDone, fDetached, bound, root, main, on, waiting, delivered, early>>
runtimeVars == <<schedVars, taskVars, mainVars>>

Tids    == GIds
Spawned == {t \in Tids : t < nextGid}

RuntimeInit ==
    /\ Init
    /\ drains \in Drains
    /\ tpc = [t \in Tids |-> "closure"]
    /\ cancel = [t \in Tids |-> FALSE]
    /\ done = [t \in Tids |-> FALSE]
    /\ result = [t \in Tids |-> "None"]
    /\ handles = {} /\ bound = {} /\ root = {} /\ waiting = {} /\ early = {}
    /\ fDone = [t \in Tids |-> FALSE]
    /\ fDetached = [t \in Tids |-> FALSE]
    /\ main = "running"
    /\ on = NoGid
    /\ delivered = [t \in Tids |-> "None"]

-----------------------------------------------------------------------------
(* The task on a worker.                                                   *)

BeginsTask(w) ==
    /\ TakeTask(w)
    /\ tpc' = [tpc EXCEPT ![held[w]] = "load"]
    /\ UNCHANGED <<cancel, done, result, mainVars>>

InTask(w, p) == pc[w] = "run" /\ tpc[held[w]] = p

(* Mutant: the flag is tested when the task has run.                       *)
LoadIgnoringCancel(w) ==
    /\ InTask(w, "load")
    /\ tpc' = [tpc EXCEPT ![held[w]] = "body"]
    /\ UNCHANGED <<result, schedVars, cancel, done, mainVars>>

(* Mutant: a cancelled task leaves the closure at once.                    *)
LoadSkipsDone(w) ==
    /\ InTask(w, "load")
    /\ result' = IF cancel[held[w]] THEN [result EXCEPT ![held[w]] = "Cancelled"] ELSE result
    /\ tpc' = [tpc EXCEPT ![held[w]] = IF cancel[held[w]] THEN "end" ELSE "body"]
    /\ UNCHANGED <<schedVars, cancel, done, mainVars>>

(* Interp::new, load, then the only test of the cancel flag.               *)
Load(w) ==
    /\ InTask(w, "load")
    /\ \/ /\ cancel[held[w]]
          /\ result' = [result EXCEPT ![held[w]] = "Cancelled"]
          /\ tpc' = [tpc EXCEPT ![held[w]] = "store"]
       \/ /\ ~cancel[held[w]]
          /\ tpc' = [tpc EXCEPT ![held[w]] = "body"]
          /\ UNCHANGED result
    /\ UNCHANGED <<schedVars, cancel, done, mainVars>>

(* Mutant: the done flag is stored before the result.                      *)
BodyDoneFirst(w) ==
    /\ InTask(w, "body")
    /\ done' = [done EXCEPT ![held[w]] = TRUE]
    /\ tpc' = [tpc EXCEPT ![held[w]] = "store"]
    /\ UNCHANGED <<schedVars, cancel, result, mainVars>>

(* The callee has returned; its outcome is put into the result slot.       *)
Body(w) ==
    /\ InTask(w, "body")
    /\ \E r \in {"Ok", "Err"} : result' = [result EXCEPT ![held[w]] = r]
    /\ tpc' = [tpc EXCEPT ![held[w]] = "store"]
    /\ UNCHANGED <<schedVars, cancel, done, mainVars>>

(* done.store(true), the last thing the closure does.                      *)
StoreDone(w) ==
    /\ InTask(w, "store")
    /\ done' = [done EXCEPT ![held[w]] = TRUE]
    /\ tpc' = [tpc EXCEPT ![held[w]] = "end"]
    /\ UNCHANGED <<schedVars, cancel, result, mainVars>>

EndsTask(w) ==
    /\ InTask(w, "end")
    /\ TaskReturns(w)
    /\ UNCHANGED <<taskVars, mainVars>>

(* parse or load fails (`panic!`), or the interpreter panics in the body.  *)
PanicsInTask(w) ==
    /\ InTask(w, "load") \/ InTask(w, "body")
    /\ TaskPanics(w)
    /\ UNCHANGED <<taskVars, mainVars>>

Worker(w) ==
    \/ (TestStop(w) \/ PopGid(w)) /\ UNCHANGED <<taskVars, mainVars>>
    \/ BeginsTask(w) \/ Load(w) \/ Body(w) \/ StoreDone(w) \/ EndsTask(w)

-----------------------------------------------------------------------------
(* The program.                                                            *)

(* spawn, first half: scheduler.start().                                   *)
SpawnStartsPool ==
    /\ main = "running"
    /\ Start
    /\ UNCHANGED <<taskVars, mainVars>>

(* spawn, second half: submit, thread_handles.insert, the Thread value,    *)
(* which the program may or may not bind to a variable.                    *)
Spawn ==
    /\ main = "running" /\ started
    /\ Submit
    /\ handles' = handles \cup {nextGid}
    /\ \E b \in {{}, {nextGid}} : bound' = bound \cup b
    /\ UNCHANGED <<drains, taskVars, fDone, fDetached, root, main, on, waiting, delivered, early>>

(* th.join(): the handle is removed before the wait; a second join finds   *)
(* none and raises TypeError, which no catch intercepts: nothing changes   *)
(* but that deferred code runs next.                                       *)
Join(t) ==
    /\ main = "running" /\ t \in handles
    /\ handles' = handles \ {t}
    /\ main' = "joining" /\ on' = t
    /\ UNCHANGED <<drains, schedVars, taskVars, fDone, fDetached, bound, root, waiting, delivered, early>>

(* Mutant: join does not record in the Thread value that it was here.      *)
JoinReturnsUnmarked ==
    /\ main = "joining" /\ done[on]
    /\ delivered' = [delivered EXCEPT ![on] =
                        IF result[on] = "None" THEN "ThreadNoResult" ELSE result[on]]
    /\ result' = [result EXCEPT ![on] = "None"]
    /\ main' = "running" /\ on' = NoGid
    /\ UNCHANGED <<drains, schedVars, tpc, cancel, done, handles, fDone, fDetached, bound, root, waiting, early>>

(* The done flag is seen; the result is taken.  Only an Ok result sets the *)
(* `done` field: on Err the `?` returns first.                             *)
JoinReturns ==
    /\ main = "joining" /\ done[on]
    /\ delivered' = [delivered EXCEPT ![on] =
                        IF result[on] = "None" THEN "ThreadNoResult" ELSE result[on]]
    /\ result' = [result EXCEPT ![on] = "None"]
    /\ fDone' = [fDone EXCEPT ![on] = @ \/ result[on] \in {"Ok", "Cancelled"}]
    /\ main' = "running" /\ on' = NoGid
    /\ UNCHANGED <<drains, schedVars, tpc, cancel, done, handles, fDetached, bound, root, waiting, early>>

(* th.cancel(): the flag; a removed handle makes it a no-op.               *)
Cancel(t) ==
    /\ main = "running" /\ t \in handles
    /\ cancel' = [cancel EXCEPT ![t] = TRUE]
    /\ early' = IF state[t] = "Runnable" THEN early \cup {t} ELSE early
    /\ UNCHANGED <<drains, schedVars, tpc, done, result, handles, fDone, fDetached, bound, root, main, on,
                   waiting, delivered>>

Detach(t) ==
    /\ main = "running" /\ t \in Spawned
    /\ fDetached' = [fDetached EXCEPT ![t] = TRUE]
    /\ UNCHANGED <<drains, schedVars, taskVars, handles, fDone, bound, root, main, on, waiting, delivered, early>>

(* What is_done answers.                                                   *)
IsDone(t) == IF t \in handles THEN done[t] ELSE fDone[t]

(* promote_unfinished_threads looks at the fields of the Thread values the *)
(* scope binds, not at the flags.                                          *)
Promoted == {t \in bound : ~fDone[t] /\ ~fDetached[t]}

(* pop_scope; the program may keep a handle it returned.                   *)
ScopeExits ==
    /\ main = "running"
    /\ root' = root \cup Promoted
    /\ bound' = {}
    /\ UNCHANGED <<drains, schedVars, taskVars, handles, fDone, fDetached, main, on, waiting, delivered, early>>

(* A handle that outlived its scope is bound again.                        *)
Rebind(t) ==
    /\ main = "running" /\ t \in Spawned \ bound
    /\ bound' = bound \cup {t}
    /\ UNCHANGED <<drains, schedVars, taskVars, handles, fDone, fDetached, root, main, on, waiting, delivered, early>>

(* io.poll() of an evented io: the root threads are joined.                *)
Poll ==
    /\ main = "running"
    /\ main' = "polling" /\ waiting' = root /\ root' = {}
    /\ UNCHANGED <<drains, schedVars, taskVars, handles, fDone, fDetached, bound, on, delivered, early>>

PollReturns ==
    /\ main = "polling" /\ waiting = {}
    /\ main' = "running"
    /\ UNCHANGED <<drains, schedVars, taskVars, handles, fDone, fDetached, bound, root, on, waiting, delivered, early>>

(* Mutant: only the root threads are drained.                              *)
ProgramReturnsRootOnly ==
    /\ main = "running"
    /\ bound' = {}
    /\ IF drains
       THEN main' = "draining" /\ waiting' = root \cup Promoted /\ root' = {} /\ handles' = root \cup Promoted
       ELSE main' = "ended" /\ root' = root \cup Promoted /\ UNCHANGED <<waiting, handles>>
    /\ UNCHANGED <<drains, schedVars, taskVars, fDone, fDetached, on, delivered, early>>

(* main returns (by value, by error or by io.exit): its scope is popped;   *)
(* then drain_root_threads, or the interpreter is dropped.                 *)
ProgramReturns ==
    /\ main = "running"
    /\ bound' = {}
    /\ IF drains
       THEN main' = "draining" /\ waiting' = root \cup Promoted /\ root' = {}
       ELSE main' = "ended" /\ root' = root \cup Promoted /\ UNCHANGED waiting
    /\ UNCHANGED <<drains, schedVars, taskVars, handles, fDone, fDetached, on, delivered, early>>

(* Mutant: a thread without a handle is still waited for.                  *)
WaitForMissing(t) ==
    /\ main \in {"polling", "draining"} /\ on = NoGid /\ t \in waiting
    /\ handles' = handles \ {t}
    /\ on' = IF t \in handles THEN t ELSE on
    /\ UNCHANGED <<drains, schedVars, taskVars, fDone, fDetached, bound, root, main, waiting, delivered, early>>

(* thread_join_impl(t), called by poll and drain: nothing if the handle is *)
(* gone; otherwise remove it and spin on the flag.                         *)
WaitFor(t) ==
    /\ main \in {"polling", "draining"} /\ on = NoGid /\ t \in waiting
    /\ handles' = handles \ {t}
    /\ IF t \in handles
       THEN on' = t /\ UNCHANGED waiting
       ELSE waiting' = waiting \ {t} /\ UNCHANGED on
    /\ UNCHANGED <<drains, schedVars, taskVars, fDone, fDetached, bound, root, main, delivered, early>>

WaitReturns ==
    /\ main \in {"polling", "draining"} /\ on # NoGid /\ done[on]
    /\ waiting' = waiting \ {on} /\ on' = NoGid
    /\ UNCHANGED <<drains, schedVars, taskVars, handles, fDone, fDetached, bound, root, main, delivered, early>>

(* drain_root_threads, second loop: every handle left, detached or not.    *)
DrainRest ==
    /\ main = "draining" /\ waiting = {} /\ handles # {}
    /\ waiting' = handles
    /\ UNCHANGED <<drains, schedVars, taskVars, handles, fDone, fDetached, bound, root, main, on, delivered, early>>

DrainReturns ==
    /\ main = "draining" /\ waiting = {} /\ handles = {}
    /\ main' = "ended"
    /\ UNCHANGED <<drains, schedVars, taskVars, handles, fDone, fDetached, bound, root, on, waiting, delivered, early>>

(* Mutant: Drop does not join the workers.                                 *)
InterpDroppedAtOnce ==
    /\ main = "ended"
    /\ \/ DropStarts
       \/ owner = "joining" /\ owner' = "dropped" /\ UNCHANGED <<queue, state, hasTask, nextGid, started, stop, pc, held>>
    /\ UNCHANGED <<taskVars, mainVars>>

(* The interpreter goes out of scope: Drop of its scheduler.               *)
InterpDropped ==
    /\ main = "ended"
    /\ DropStarts \/ DropEnds
    /\ UNCHANGED <<taskVars, mainVars>>

-----------------------------------------------------------------------------
Uses == \E t \in Tids : Join(t) \/ Cancel(t) \/ Detach(t) \/ Rebind(t)

(* The steps that need no decision of the program.                         *)
MainProceeds ==
    \/ JoinReturns
    \/ \E t \in Tids : WaitFor(t)
    \/ WaitReturns \/ PollReturns \/ DrainRest \/ DrainReturns \/ InterpDropped

RuntimeNext ==
    \/ SpawnStartsPool \/ Spawn \/ Uses
    \/ ScopeExits \/ Poll \/ ProgramReturns
    \/ MainProceeds
    \/ \E w \in Workers : Worker(w) \/ PanicsInTask(w)

RuntimeSpec == RuntimeInit /\ [][RuntimeNext]_runtimeVars

(* Workers keep running, bodies return; a wait that is over is left.       *)
RuntimeFairSpec ==
    /\ RuntimeSpec
    /\ WF_runtimeVars(MainProceeds)
    /\ \A w \in Workers : WF_runtimeVars(Worker(w))

-----------------------------------------------------------------------------
RuntimeTypeOK ==
    /\ TypeOK
    /\ drains \in BOOLEAN
    /\ tpc \in [Tids -> {"closure", "load", "body", "store", "end"}]
    /\ cancel \in [Tids -> BOOLEAN] /\ done \in [Tids -> BOOLEAN]
    /\ result \in [Tids -> {"None", "Ok", "Err", "Cancelled"}]
    /\ fDone \in [Tids -> BOOLEAN] /\ fDetached \in [Tids -> BOOLEAN]
    /\ \A s \in {handles, bound, root, waiting, early} : s \subseteq Tids
    /\ main \in {"running", "joining", "polling", "draining", "ended"}
    /\ on \in Tids \cup {NoGid}
    /\ delivered \in [Tids -> {"None", "Ok", "Err", "Cancelled", "ThreadNoResult"}]

(* The closure of spawn unwound before it stored the done flag.            *)
Panicked(t) == InHand("unwound", t)

(* The done flag is only seen set when the result is there: whatever the   *)
(* interleaving of task and joiner, a join that has waited finds a result, *)
(* and ThreadNoResult (call.rs thread_join) never happens.                 *)
DoneHasResult ==
    \A t \in Tids : done[t] /\ (t \in handles \/ on = t) => result[t] # "None"

(* cancel() before any worker has the goroutine is reliable: the body is   *)
(* never entered and join can only report Cancelled.                       *)
EarlyCancelHolds ==
    \A t \in early :
        /\ tpc[t] # "body"
        /\ result[t] \in {"None", "Cancelled"} /\ delivered[t] \in {"None", "Cancelled"}

(* is_done tells the truth while the program can ask: never TRUE too early *)
(* (after cancel, say), and TRUE for a finished thread as long as its      *)
(* handle is there or join has returned its result.  The answer comes from *)
(* the flag or from a field of the Thread value that join writes.  A       *)
(* thread joined by io.poll is the exception: FALSE for good.              *)
IsDoneTells ==
    main = "running" => \A t \in Spawned :
        /\ IsDone(t) => done[t]
        /\ done[t] /\ (t \in handles \/ delivered[t] \in {"Ok", "Cancelled"}) => IsDone(t)

(* thread.rs "unjoined_thread_joins_at_program_end": when a draining       *)
(* interpreter has ended, every thread it ever spawned and did not detach  *)
(* has finished, bound to a variable or not.                               *)
EndAwaitsAttached ==
    drains /\ main = "ended" => \A t \in Spawned : fDetached[t] \/ done[t]

(* call.rs call_thread_method and thread.rs "detach_marks_thread": the end *)
(* of the program does not wait for a detached thread.  It does: the drain *)
(* does not look at the field.                                             *)
EndSkipsDetached ==
    main = "draining" /\ on # NoGid => ~fDetached[on] \/ done[on]

(* An interpreter that does not drain loses what is queued, but cuts       *)
(* nothing in half: when its scheduler is dropped, each of its threads has *)
(* finished, has panicked, or was never begun and is still in the queue.   *)
DropCutsNothing ==
    owner = "dropped" =>
        \A t \in Spawned : done[t] \/ Panicked(t) \/ (tpc[t] = "closure" /\ Queued(t))

(* Liveness: a join returns unless the thread it is for panicked (its done *)
(* flag is then never set), or every worker was lost to a panic before one *)
(* could take it; and so does the end of the program, whoever has been     *)
(* joined, cancelled, detached or forgotten before.                        *)
NeverDone(t) == Panicked(t) \/ \A w \in Workers : pc[w] = "unwound"
JoinTerminates ==
    \A t \in Tids : main = "joining" /\ on = t ~> main = "running" \/ NeverDone(t)
ProgramTerminates ==
    main \in {"draining", "ended"} ~> owner = "dropped" \/ NeverDone(on)
=============================================================================
