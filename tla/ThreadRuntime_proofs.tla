------------------------- MODULE ThreadRuntime_proofs -------------------------
(***************************************************************************)
(* Proofs about ThreadRuntime, for any number of threads and workers,      *)
(* whatever the program does with its threads and whichever of them panic. *)
(***************************************************************************)
EXTENDS ThreadRuntime, GoroutineScheduler_proofs

(* What the closure of a thread has done says where its goroutine is, and  *)
(* the other way round.  Only the worker that runs it moves it on.         *)
TaskTells ==
    \A t \in Tids :
        /\ tpc[t] = "closure" <=> state[t] \in {"Absent", "Runnable"}
        /\ state[t] = "Done" => tpc[t] = "end"
        /\ InHand("unwound", t) => tpc[t] \in {"load", "body"}
        /\ done[t] <=> tpc[t] = "end"
        /\ tpc[t] \in {"closure", "load", "body"} => result[t] = "None"
        /\ tpc[t] = "store" => result[t] # "None"

(* What the program is doing says which flag it spins on; a thread it has  *)
(* neither the handle of nor spins on is done: a handle goes only when its *)
(* thread is waited for.                                                   *)
HandlesTell ==
    /\ \A t \in handles : t < nextGid
    /\ on # NoGid => on \notin handles
    /\ main \in {"running", "ended"} => on = NoGid
    /\ main = "joining" => on # NoGid
    /\ main \in {"polling", "draining"} => on \in waiting \cup {NoGid}
    /\ \A t \in Spawned : t \in handles \/ on = t \/ done[t]
    /\ main = "ended" /\ drains => handles = {}

(* What join has answered, and written into the Thread value, is so.       *)
AnswersTell ==
    \A t \in Tids :
        /\ delivered[t] # "None" => t \notin handles /\ on # t /\ done[t]
        /\ delivered[t] \in {"Ok", "Cancelled"} => fDone[t]
        /\ fDone[t] => done[t]

(* The inductive invariant.  That a join finds its result needs the order  *)
(* of the closure (TaskTells) and that a handle is removed by one waiter   *)
(* only (HandlesTell); that an early cancel holds needs both.              *)
RuntimeInv ==
    /\ Inv
    /\ RuntimeTypeOK
    /\ TaskTells
    /\ HandlesTell
    /\ AnswersTell
    /\ DoneHasResult
    /\ \A t \in early : cancel[t]
    /\ EarlyCancelHolds

-----------------------------------------------------------------------------
(* The steps of the composition are steps of the scheduler.                *)

(* A step of a task on a worker is a step of that worker, or leaves the    *)
(* scheduler alone while the task is between two of its own operations.    *)
LEMMA TaskStepMaps ==
    ASSUME NEW w \in Workers, Worker(w) \/ PanicsInTask(w)
    PROVE  [Next]_vars
<1>1. CASE TestStop(w) \/ PopGid(w) \/ BeginsTask(w) \/ EndsTask(w)
  BY <1>1 DEF BeginsTask, EndsTask, Next, WorkerStep
<1>2. CASE PanicsInTask(w)
  BY <1>2 DEF PanicsInTask, Next
<1>3. CASE Load(w) \/ Body(w) \/ StoreDone(w)
  <2>1. UNCHANGED schedVars
    BY <1>3 DEF Load, Body, StoreDone
  <2>. QED
    BY <2>1 DEF schedVars, vars, inner, pool
<1>. QED
  BY <1>1, <1>2, <1>3 DEF Worker

(* The operations of the program reach the scheduler through start, submit *)
(* and Drop only.                                                          *)
LEMMA MainStepMaps ==
    ASSUME \/ SpawnStartsPool \/ Spawn \/ Uses
           \/ ScopeExits \/ Poll \/ ProgramReturns \/ MainProceeds
    PROVE  [Next]_vars
<1>1. CASE SpawnStartsPool
  BY <1>1 DEF SpawnStartsPool, Next
<1>2. CASE Spawn
  BY <1>2 DEF Spawn, Next
<1>3. CASE InterpDropped
  BY <1>3 DEF InterpDropped, Next
<1>4. CASE \/ Uses \/ ScopeExits \/ Poll \/ ProgramReturns
           \/ JoinReturns \/ WaitReturns \/ PollReturns \/ DrainRest \/ DrainReturns
           \/ \E t \in Tids : WaitFor(t)
  <2>1. UNCHANGED schedVars
    BY <1>4 DEF Uses, Join, Cancel, Detach, Rebind, ScopeExits, Poll, ProgramReturns,
                JoinReturns, WaitFor, WaitReturns, PollReturns, DrainRest, DrainReturns
  <2>. QED
    BY <2>1 DEF schedVars, vars, inner, pool
<1>. QED
  BY <1>1, <1>2, <1>3, <1>4 DEF MainProceeds

LEMMA StepMaps == [RuntimeNext]_runtimeVars => [Next]_vars
<1>1. SUFFICES ASSUME [RuntimeNext]_runtimeVars PROVE [Next]_vars
  OBVIOUS
<1>2. CASE \E w \in Workers : Worker(w) \/ PanicsInTask(w)
  BY <1>2, TaskStepMaps
<1>3. CASE \/ SpawnStartsPool \/ Spawn \/ Uses
           \/ ScopeExits \/ Poll \/ ProgramReturns \/ MainProceeds
  BY <1>3, MainStepMaps
<1>4. CASE UNCHANGED runtimeVars
  BY <1>4 DEF runtimeVars, schedVars, vars, inner, pool
<1>. QED
  BY <1>1, <1>2, <1>3, <1>4 DEF RuntimeNext

-----------------------------------------------------------------------------
LEMMA RuntimeInitInv == RuntimeInit => RuntimeInv
<1>1. SUFFICES ASSUME RuntimeInit PROVE RuntimeInv
  OBVIOUS
<1>2. Inv
  BY <1>1, InitInv DEF RuntimeInit
<1>3. NoGid \notin Tids /\ NoGid = 0 /\ nextGid = 1 /\ Spawned = {}
  BY <1>1, SchedulerAssumption DEF RuntimeInit, Init, NoGid, Tids, GIds, Spawned
<1>4. /\ state = [t \in Tids |-> "Absent"]
      /\ \A w \in Workers : pc[w] = "unborn"
  BY <1>1 DEF RuntimeInit, Init, Tids
<1>5. RuntimeTypeOK
  <2>1. TypeOK
    BY <1>2 DEF Inv
  <2>. QED
    BY <1>1, <2>1, ThreadAssumption DEF RuntimeInit, RuntimeTypeOK
<1>6. TaskTells
  BY <1>1, <1>4 DEF RuntimeInit, TaskTells, InHand
<1>7. HandlesTell /\ AnswersTell /\ DoneHasResult /\ EarlyCancelHolds /\ \A t \in early : cancel[t]
  BY <1>1, <1>3 DEF RuntimeInit, HandlesTell, AnswersTell, DoneHasResult, EarlyCancelHolds
<1>. QED
  BY <1>2, <1>5, <1>6, <1>7 DEF RuntimeInv

(* The goroutine whose task a worker runs.                                 *)
LEMMA RunningTask ==
    ASSUME RuntimeInv, NEW w \in Workers, pc[w] = "run"
    PROVE  /\ held[w] \in Tids /\ held[w] < nextGid
           /\ state[held[w]] = "Running" /\ ~InHand("unwound", held[w])
<1>1. held[w] \in GIds /\ held[w] < nextGid
  BY DEF RuntimeInv, Inv, PcTells
<1>2. InHand("run", held[w])
  BY DEF InHand
<1>3. state[held[w]] = "Running"
  BY <1>1, <1>2 DEF RuntimeInv, Inv, StateTellsPlace
<1>4. ~InHand("unwound", held[w])
  BY <1>1 DEF RuntimeInv, Inv, OneHolder, Holds, InHand
<1>. QED
  BY <1>1, <1>3, <1>4 DEF Tids

(* A step of the scheduler during which neither a task nor the program     *)
(* does anything, and which changes no goroutine's state but to Done.      *)
LEMMA SchedulerKeepsInv ==
    ASSUME RuntimeInv, Inv', UNCHANGED <<taskVars, mainVars, nextGid>>,
           \A t \in Tids : state'[t] = state[t] \/ (state'[t] = "Done" /\ state[t] = "Running" /\ tpc[t] = "end"),
           \A t \in Tids : InHand("unwound", t)' => InHand("unwound", t) \/ tpc[t] \in {"load", "body"}
    PROVE  RuntimeInv'
<1>1. RuntimeTypeOK'
  BY DEF RuntimeInv, RuntimeTypeOK, Inv, taskVars, mainVars, Tids, GIds
<1>2. TaskTells'
  BY DEF RuntimeInv, TaskTells, taskVars, Tids, GIds
<1>3. HandlesTell'
  BY DEF RuntimeInv, HandlesTell, Spawned, taskVars, mainVars
<1>4. AnswersTell' /\ DoneHasResult' /\ EarlyCancelHolds' /\ (\A t \in early : cancel[t])'
  BY DEF RuntimeInv, AnswersTell, DoneHasResult, EarlyCancelHolds, taskVars, mainVars
<1>. QED
  BY <1>1, <1>2, <1>3, <1>4 DEF RuntimeInv

-----------------------------------------------------------------------------
(* The steps of a task.                                                    *)

LEMMA BeginsTaskKeepsInv ==
    ASSUME RuntimeInv, Inv', NEW w \in Workers, BeginsTask(w)
    PROVE  RuntimeInv'
<1>1. PICK g \in Tids : /\ held[w] = g /\ pc[w] = "take"
                        /\ state[g] = "Runnable"
                        /\ state' = [state EXCEPT ![g] = "Running"]
                        /\ pc' = [pc EXCEPT ![w] = "run"]
                        /\ held' = [held EXCEPT ![w] = g]
                        /\ tpc' = [tpc EXCEPT ![g] = "load"]
                        /\ UNCHANGED <<cancel, done, result, mainVars, nextGid>>
  BY TakeTaskFindsTask DEF RuntimeInv, BeginsTask, TakeTask, Tids
<1>2. /\ tpc \in [Tids -> {"closure", "load", "body", "store", "end"}]
      /\ state \in [Tids -> GState] /\ pc \in [Workers -> WorkerPc]
      /\ held \in [Workers -> GIds \cup {NoGid}]
  BY DEF RuntimeInv, RuntimeTypeOK, Inv, TypeOK, Tids
<1>3. \A t \in Tids : InHand("unwound", t)' => InHand("unwound", t)
  BY <1>1, <1>2 DEF InHand
<1>4. tpc[g] = "closure" /\ ~done[g] /\ result[g] = "None"
  BY <1>1 DEF RuntimeInv, TaskTells
<1>5. /\ tpc'[g] = "load" /\ state'[g] = "Running"
      /\ \A t \in Tids : t # g => tpc'[t] = tpc[t] /\ state'[t] = state[t]
  BY <1>1, <1>2
<1>6. RuntimeTypeOK'
  BY <1>1, <1>2 DEF RuntimeInv, RuntimeTypeOK, Inv, mainVars, Tids, GIds
<1>7. TaskTells'
  BY <1>1, <1>3, <1>4, <1>5 DEF RuntimeInv, TaskTells, Tids, GIds
<1>8. HandlesTell' /\ AnswersTell' /\ DoneHasResult' /\ (\A t \in early : cancel[t])'
  BY <1>1 DEF RuntimeInv, HandlesTell, AnswersTell, DoneHasResult, Spawned, mainVars, Tids
<1>9. EarlyCancelHolds'
  <2>1. early \subseteq Tids
    BY DEF RuntimeInv, RuntimeTypeOK
  <2>. QED
    BY <1>1, <1>5, <2>1 DEF RuntimeInv, EarlyCancelHolds, mainVars
<1>. QED
  BY <1>6, <1>7, <1>8, <1>9 DEF RuntimeInv

(* A task g moves from p to q, and writes its result r or leaves it.       *)
LEMMA TaskMovesKeepsInv ==
    ASSUME RuntimeInv, Inv', NEW w \in Workers, NEW g \in Tids,
           pc[w] = "run", held[w] = g,
           NEW q \in {"body", "store", "end"}, NEW r \in {"None", "Ok", "Err", "Cancelled"},
           NEW d \in BOOLEAN,
           tpc' = [tpc EXCEPT ![g] = q], result' = [result EXCEPT ![g] = r],
           done' = [done EXCEPT ![g] = d],
           \/ q = "body" /\ tpc[g] = "load" /\ r = "None" /\ ~d /\ ~cancel[g]
           \/ q = "store" /\ tpc[g] = "load" /\ r = "Cancelled" /\ ~d
           \/ q = "store" /\ tpc[g] = "body" /\ r # "None" /\ ~d
           \/ q = "end" /\ tpc[g] = "store" /\ r = result[g] /\ d,
           UNCHANGED <<schedVars, cancel, mainVars>>
    PROVE  RuntimeInv'
<1>1. state[g] = "Running" /\ ~InHand("unwound", g) /\ g < nextGid
  BY RunningTask
<1>2. /\ tpc \in [Tids -> {"closure", "load", "body", "store", "end"}]
      /\ result \in [Tids -> {"None", "Ok", "Err", "Cancelled"}]
      /\ done \in [Tids -> BOOLEAN]
  BY DEF RuntimeInv, RuntimeTypeOK
<1>3. /\ tpc'[g] = q /\ result'[g] = r /\ done'[g] = d
      /\ \A t \in Tids : t # g => tpc'[t] = tpc[t] /\ result'[t] = result[t] /\ done'[t] = done[t]
  BY <1>2
<1>4. ~done[g] /\ (tpc[g] = "store" => result[g] # "None")
  BY DEF RuntimeInv, TaskTells
<1>5. RuntimeTypeOK'
  BY <1>2 DEF RuntimeInv, RuntimeTypeOK, Inv, mainVars, schedVars
<1>6. TaskTells'
  <2>1. \A t \in Tids : InHand("unwound", t)' <=> InHand("unwound", t)
    BY DEF InHand, schedVars
  <2>. QED
    BY <1>1, <1>3, <1>4, <2>1 DEF RuntimeInv, TaskTells, schedVars
<1>7. \A t \in Tids : done[t] => done'[t]
  BY <1>3, <1>4
<1>8. HandlesTell' /\ AnswersTell' /\ (\A t \in early : cancel[t])'
  BY <1>7 DEF RuntimeInv, HandlesTell, AnswersTell, Spawned, mainVars, schedVars
<1>9. DoneHasResult'
  BY <1>3, <1>4 DEF RuntimeInv, DoneHasResult, mainVars
<1>10. EarlyCancelHolds'
  <2>1. early \subseteq Tids /\ (g \in early => cancel[g] /\ tpc[g] # "body" /\ result[g] \in {"None", "Cancelled"})
    BY DEF RuntimeInv, RuntimeTypeOK, EarlyCancelHolds
  <2>. QED
    BY <1>3, <2>1 DEF RuntimeInv, EarlyCancelHolds, mainVars
<1>. QED
  BY <1>5, <1>6, <1>8, <1>9, <1>10 DEF RuntimeInv

LEMMA TaskStepKeepsInv ==
    ASSUME RuntimeInv, Inv', NEW w \in Workers, Worker(w) \/ PanicsInTask(w)
    PROVE  RuntimeInv'
<1>1. ASSUME NEW g \in Tids, pc[w] = "run", held[w] = g
      PROVE  /\ result \in [Tids -> {"None", "Ok", "Err", "Cancelled"}] /\ done \in [Tids -> BOOLEAN]
             /\ result = [result EXCEPT ![g] = result[g]] /\ done = [done EXCEPT ![g] = done[g]]
             /\ tpc[g] \in {"load", "body", "store"} => done[g] = FALSE
             /\ tpc[g] \in {"load", "body"} => result[g] = "None"
  <2>1. result \in [Tids -> {"None", "Ok", "Err", "Cancelled"}] /\ done \in [Tids -> BOOLEAN]
    BY DEF RuntimeInv, RuntimeTypeOK
  <2>. QED
    BY <2>1 DEF RuntimeInv, TaskTells
<1>2. CASE (TestStop(w) \/ PopGid(w)) /\ UNCHANGED <<taskVars, mainVars>>
  <2>1. /\ pc \in [Workers -> WorkerPc] /\ UNCHANGED <<state, nextGid>>
        /\ \E p \in {"exited", "pop", "test", "take"} : pc' = [pc EXCEPT ![w] = p]
        /\ \A v \in Workers : v # w => held'[v] = held[v]
    BY <1>2 DEF RuntimeInv, Inv, TypeOK, TestStop, PopGid, Goto
  <2>2. \A t \in Tids : InHand("unwound", t)' => InHand("unwound", t)
    BY <2>1 DEF InHand
  <2>. QED
    BY <1>2, <2>1, <2>2, SchedulerKeepsInv
<1>3. CASE BeginsTask(w)
  BY <1>3, BeginsTaskKeepsInv
<1>4. CASE Load(w)
  <2>1. PICK g \in Tids : held[w] = g /\ pc[w] = "run" /\ tpc[g] = "load"
    BY <1>4, RunningTask DEF Load, InTask
  <2>2. CASE cancel[g]
    <3>1. /\ tpc' = [tpc EXCEPT ![g] = "store"] /\ result' = [result EXCEPT ![g] = "Cancelled"]
          /\ done' = [done EXCEPT ![g] = FALSE] /\ UNCHANGED <<schedVars, cancel, mainVars>>
      BY <1>1, <1>4, <2>1, <2>2 DEF Load
    <3>. QED
      BY <2>1, <3>1, TaskMovesKeepsInv
  <2>3. CASE ~cancel[g]
    <3>1. /\ tpc' = [tpc EXCEPT ![g] = "body"] /\ result' = [result EXCEPT ![g] = "None"]
          /\ done' = [done EXCEPT ![g] = FALSE] /\ UNCHANGED <<schedVars, cancel, mainVars>>
      BY <1>1, <1>4, <2>1, <2>3 DEF Load
    <3>. QED
      BY <2>1, <2>3, <3>1, TaskMovesKeepsInv
  <2>. QED
    BY <2>2, <2>3
<1>5. CASE Body(w)
  <2>1. PICK g \in Tids : held[w] = g /\ pc[w] = "run" /\ tpc[g] = "body"
    BY <1>5, RunningTask DEF Body, InTask
  <2>2. PICK r \in {"Ok", "Err"} : result' = [result EXCEPT ![g] = r]
    BY <1>5, <2>1 DEF Body
  <2>3. /\ tpc' = [tpc EXCEPT ![g] = "store"] /\ done' = [done EXCEPT ![g] = FALSE]
        /\ UNCHANGED <<schedVars, cancel, mainVars>>
    BY <1>1, <1>5, <2>1 DEF Body
  <2>. QED
    BY <2>1, <2>2, <2>3, TaskMovesKeepsInv
<1>6. CASE StoreDone(w)
  <2>1. PICK g \in Tids : held[w] = g /\ pc[w] = "run" /\ tpc[g] = "store"
    BY <1>6, RunningTask DEF StoreDone, InTask
  <2>2. /\ tpc' = [tpc EXCEPT ![g] = "end"] /\ result' = [result EXCEPT ![g] = result[g]]
        /\ done' = [done EXCEPT ![g] = TRUE] /\ UNCHANGED <<schedVars, cancel, mainVars>>
        /\ result[g] \in {"None", "Ok", "Err", "Cancelled"}
    BY <1>1, <1>6, <2>1 DEF StoreDone
  <2>. QED
    BY <2>1, <2>2, TaskMovesKeepsInv
<1>7. CASE EndsTask(w)
  <2>1. PICK g \in Tids : held[w] = g /\ pc[w] = "run" /\ tpc[g] = "end" /\ state[g] = "Running"
    BY <1>7, RunningTask DEF EndsTask, InTask
  <2>2. /\ pc \in [Workers -> WorkerPc] /\ state \in [Tids -> GState]
        /\ state' = [state EXCEPT ![g] = "Done"] /\ pc' = [pc EXCEPT ![w] = "test"]
        /\ UNCHANGED <<taskVars, mainVars, nextGid>>
        /\ \A v \in Workers : v # w => held'[v] = held[v]
    BY <1>7, <2>1 DEF RuntimeInv, Inv, TypeOK, EndsTask, TaskReturns, Goto, Tids
  <2>3. \A t \in Tids : InHand("unwound", t)' => InHand("unwound", t)
    BY <2>2 DEF InHand
  <2>4. \A t \in Tids : state'[t] = state[t] \/ (state'[t] = "Done" /\ state[t] = "Running" /\ tpc[t] = "end")
    BY <2>1, <2>2
  <2>. QED
    BY <2>2, <2>3, <2>4, SchedulerKeepsInv
<1>8. CASE PanicsInTask(w)
  <2>1. PICK g \in Tids : held[w] = g /\ pc[w] = "run" /\ tpc[g] \in {"load", "body"}
    BY <1>8, RunningTask DEF PanicsInTask, InTask
  <2>2. /\ pc \in [Workers -> WorkerPc] /\ pc' = [pc EXCEPT ![w] = "unwound"]
        /\ UNCHANGED <<taskVars, mainVars, nextGid, state, held>>
    BY <1>8 DEF RuntimeInv, Inv, TypeOK, PanicsInTask, TaskPanics
  <2>3. \A t \in Tids : InHand("unwound", t)' => InHand("unwound", t) \/ t = g
    BY <2>1, <2>2 DEF InHand
  <2>. QED
    BY <2>1, <2>2, <2>3, SchedulerKeepsInv
<1>. QED
  BY <1>2, <1>3, <1>4, <1>5, <1>6, <1>7, <1>8 DEF Worker

-----------------------------------------------------------------------------
(* The steps of the program.                                               *)

(* While only the program moves, tasks are where they were; a result goes  *)
(* only when it has been waited for.                                       *)
LEMMA ProgramLeavesTasks ==
    ASSUME RuntimeInv, UNCHANGED <<schedVars, tpc, done>>,
           \A t \in Tids : result'[t] = result[t] \/ done[t]
    PROVE  TaskTells'
<1>1. \A t \in Tids, p \in {"unwound"} : InHand(p, t)' <=> InHand(p, t)
  BY DEF InHand, schedVars
<1>. QED
  BY <1>1 DEF RuntimeInv, TaskTells, schedVars

LEMMA SpawnKeepsInv ==
    ASSUME RuntimeInv, Inv', SpawnStartsPool \/ Spawn
    PROVE  RuntimeInv'
<1>1. CASE SpawnStartsPool
  <2>1. \A t \in Tids : ~InHand("unwound", t)'
    BY <1>1 DEF SpawnStartsPool, Start, InHand
  <2>2. UNCHANGED <<state, nextGid, taskVars, mainVars>>
    BY <1>1 DEF SpawnStartsPool, Start
  <2>. QED
    BY <2>1, <2>2, SchedulerKeepsInv
<1>2. CASE Spawn
  <2>1. /\ nextGid \in Tids /\ nextGid' = nextGid + 1 /\ nextGid \in Nat /\ Tids \subseteq Nat /\ NoGid = 0
        /\ state' = [state EXCEPT ![nextGid] = "Runnable"] /\ state \in [Tids -> GState]
        /\ handles' = handles \cup {nextGid} /\ main = "running"
        /\ pc' = pc /\ held' = held
        /\ UNCHANGED <<drains, taskVars, fDone, fDetached, root, main, on, waiting, delivered, early>>
    BY <1>2, SchedulerAssumption DEF RuntimeInv, Inv, TypeOK, Spawn, Submit, Tids, GIds, NoGid
  <2>2. state[nextGid] = "Absent" /\ tpc[nextGid] = "closure" /\ ~done[nextGid]
    BY <2>1 DEF RuntimeInv, Inv, StateTellsPlace, TaskTells, Tids
  <2>3. RuntimeTypeOK'
    <3>1. bound' \subseteq Tids
      BY <1>2, <2>1 DEF RuntimeInv, RuntimeTypeOK, Spawn
    <3>. QED
      BY <2>1, <3>1 DEF RuntimeInv, RuntimeTypeOK, Inv, taskVars
  <2>4. TaskTells'
    <3>1. \A t \in Tids : InHand("unwound", t)' <=> InHand("unwound", t)
      BY <2>1 DEF InHand
    <3>2. \A t \in Tids : t # nextGid => state'[t] = state[t]
      BY <2>1
    <3>3. state'[nextGid] = "Runnable"
      BY <2>1
    <3>. QED
      BY <2>1, <2>2, <3>1, <3>2, <3>3 DEF RuntimeInv, TaskTells, taskVars
  <2>5. HandlesTell'
    <3>1. on = NoGid /\ (\A t \in handles : t \in Tids /\ t < nextGid)
      BY <2>1 DEF RuntimeInv, HandlesTell, RuntimeTypeOK
    <3>2. \A t \in Tids : t < nextGid' <=> t < nextGid \/ t = nextGid
      BY <2>1
    <3>3. \A t \in handles' : t < nextGid'
      BY <2>1, <3>1, <3>2
    <3>4. \A t \in Spawned' : t \in handles' \/ on' = t \/ done'[t]
      BY <2>1, <3>2 DEF RuntimeInv, HandlesTell, Spawned, taskVars
    <3>. QED
      BY <2>1, <3>1, <3>3, <3>4 DEF HandlesTell
  <2>6. AnswersTell' /\ DoneHasResult' /\ EarlyCancelHolds' /\ (\A t \in early : cancel[t])'
    BY <2>1, <2>2 DEF RuntimeInv, AnswersTell, DoneHasResult, EarlyCancelHolds, taskVars
  <2>. QED
    BY <2>3, <2>4, <2>5, <2>6 DEF RuntimeInv
<1>. QED
  BY <1>1, <1>2

(* The handle of t goes, and the program spins on its flag from now on.    *)
LEMMA HandleGoesKeepsInv ==
    ASSUME RuntimeInv, Inv', NEW t \in handles, on = NoGid, on' = t,
           handles' = handles \ {t},
           \/ main = "running" /\ main' = "joining" /\ UNCHANGED waiting
           \/ main \in {"polling", "draining"} /\ t \in waiting /\ UNCHANGED <<main, waiting>>,
           UNCHANGED <<drains, schedVars, taskVars, fDone, fDetached, bound, root, delivered, early>>
    PROVE  RuntimeInv'
<1>1. t \in Tids /\ NoGid \notin Tids
  BY SchedulerAssumption DEF RuntimeInv, RuntimeTypeOK, Tids, GIds, NoGid
<1>2. RuntimeTypeOK'
  BY <1>1 DEF RuntimeInv, RuntimeTypeOK, Inv, taskVars, schedVars
<1>3. TaskTells'
  BY ProgramLeavesTasks DEF taskVars
<1>4. HandlesTell'
  <2>1. \A s \in Spawned' : s \in handles' \/ on' = s \/ done'[s]
    BY <1>1 DEF RuntimeInv, HandlesTell, Spawned, taskVars, schedVars
  <2>2. \A s \in handles' : s < nextGid'
    BY DEF RuntimeInv, HandlesTell, schedVars
  <2>3. \/ main = "running" /\ main' = "joining"
        \/ main \in {"polling", "draining"} /\ main' = main /\ on' \in waiting'
    OBVIOUS
  <2>. QED
    BY <1>1, <2>1, <2>2, <2>3 DEF HandlesTell
<1>5. AnswersTell' /\ DoneHasResult' /\ EarlyCancelHolds' /\ (\A s \in early : cancel[s])'
  BY <1>1 DEF RuntimeInv, AnswersTell, DoneHasResult, EarlyCancelHolds, taskVars
<1>. QED
  BY <1>2, <1>3, <1>4, <1>5 DEF RuntimeInv

LEMMA JoinReturnsKeepsInv ==
    ASSUME RuntimeInv, Inv', JoinReturns
    PROVE  RuntimeInv'
<1>1. /\ on \in Tids /\ on # NoGid /\ done[on] /\ on \notin handles /\ on' = NoGid
      /\ NoGid \notin Tids
  BY SchedulerAssumption DEF RuntimeInv, RuntimeTypeOK, HandlesTell, JoinReturns, Tids, GIds, NoGid
<1>2. result[on] # "None" /\ result[on] \in {"Ok", "Err", "Cancelled"}
  BY <1>1 DEF RuntimeInv, DoneHasResult, RuntimeTypeOK
<1>3. /\ delivered' = [delivered EXCEPT ![on] = result[on]]
      /\ result' = [result EXCEPT ![on] = "None"]
      /\ fDone' = [fDone EXCEPT ![on] = fDone[on] \/ result[on] \in {"Ok", "Cancelled"}]
      /\ main = "joining" /\ main' = "running"
      /\ UNCHANGED <<drains, schedVars, tpc, cancel, done, handles, fDetached, bound, root, waiting, early>>
  BY <1>2 DEF JoinReturns
<1>4. /\ delivered \in [Tids -> {"None", "Ok", "Err", "Cancelled", "ThreadNoResult"}]
      /\ result \in [Tids -> {"None", "Ok", "Err", "Cancelled"}]
      /\ fDone \in [Tids -> BOOLEAN]
  BY DEF RuntimeInv, RuntimeTypeOK
<1>5. /\ delivered'[on] = result[on] /\ result'[on] = "None"
      /\ fDone'[on] <=> fDone[on] \/ result[on] \in {"Ok", "Cancelled"}
      /\ \A t \in Tids : t # on => /\ delivered'[t] = delivered[t] /\ result'[t] = result[t]
                                   /\ fDone'[t] = fDone[t]
  BY <1>1, <1>3, <1>4
<1>6. RuntimeTypeOK'
  BY <1>1, <1>2, <1>3, <1>4 DEF RuntimeInv, RuntimeTypeOK, Inv, schedVars
<1>7. TaskTells'
  BY <1>1, <1>3, <1>5, ProgramLeavesTasks
<1>8. HandlesTell'
  BY <1>1, <1>3 DEF RuntimeInv, HandlesTell, Spawned, schedVars
<1>9. AnswersTell'
  BY <1>1, <1>2, <1>3, <1>5 DEF RuntimeInv, AnswersTell
<1>10. DoneHasResult'
  BY <1>1, <1>3, <1>5 DEF RuntimeInv, DoneHasResult
<1>11. EarlyCancelHolds' /\ (\A t \in early : cancel[t])'
  <2>1. early \subseteq Tids
    BY DEF RuntimeInv, RuntimeTypeOK
  <2>. QED
    BY <1>2, <1>3, <1>5, <2>1 DEF RuntimeInv, EarlyCancelHolds
<1>. QED
  BY <1>6, <1>7, <1>8, <1>9, <1>10, <1>11 DEF RuntimeInv

LEMMA CancelKeepsInv ==
    ASSUME RuntimeInv, Inv', NEW t \in Tids, Cancel(t)
    PROVE  RuntimeInv'
<1>1. /\ cancel \in [Tids -> BOOLEAN] /\ cancel' = [cancel EXCEPT ![t] = TRUE] /\ t \in handles
      /\ early' = IF state[t] = "Runnable" THEN early \cup {t} ELSE early
      /\ early \subseteq Tids
      /\ UNCHANGED <<drains, schedVars, tpc, done, result, handles, fDone, fDetached, bound, root, main, on,
                     waiting, delivered>>
  BY DEF RuntimeInv, RuntimeTypeOK, Cancel
<1>2. RuntimeTypeOK'
  BY <1>1 DEF RuntimeInv, RuntimeTypeOK, Inv, schedVars
<1>3. TaskTells'
  BY <1>1, ProgramLeavesTasks
<1>4. HandlesTell' /\ AnswersTell' /\ DoneHasResult'
  BY <1>1 DEF RuntimeInv, HandlesTell, AnswersTell, DoneHasResult, Spawned, schedVars
<1>5. (\A s \in early : cancel[s])'
  BY <1>1 DEF RuntimeInv
<1>6. EarlyCancelHolds'
  <2>1. state[t] = "Runnable" => tpc[t] = "closure" /\ result[t] = "None"
    BY DEF RuntimeInv, TaskTells
  <2>2. delivered[t] = "None"
    BY <1>1 DEF RuntimeInv, AnswersTell
  <2>. QED
    BY <1>1, <2>1, <2>2 DEF RuntimeInv, EarlyCancelHolds
<1>. QED
  BY <1>2, <1>3, <1>4, <1>5, <1>6 DEF RuntimeInv

(* The steps that touch no handle, no flag and no result.                  *)
LEMMA BookkeepingKeepsInv ==
    ASSUME RuntimeInv, Inv',
           UNCHANGED <<drains, schedVars, taskVars, handles, fDone, delivered, early>>,
           fDetached' \in [Tids -> BOOLEAN], bound' \subseteq Tids, root' \subseteq Tids,
           waiting' \subseteq Tids,
           \/ on = NoGid /\ on' = NoGid /\ main = "running" /\ main' = "running"
           \/ on = NoGid /\ on' = NoGid /\ main = "running" /\ main' \in {"polling", "draining"}
           \/ on = NoGid /\ on' = NoGid /\ main = "running" /\ main' = "ended" /\ ~drains
           \/ on = NoGid /\ on' = NoGid /\ main \in {"polling", "draining"} /\ main' = main
           \/ on \in Tids /\ on' = NoGid /\ done[on] /\ main \in {"polling", "draining"} /\ main' = main
           \/ on = NoGid /\ on' = NoGid /\ main = "polling" /\ main' = "running"
           \/ on = NoGid /\ on' = NoGid /\ main = "draining" /\ main' = "ended" /\ handles = {}
    PROVE  RuntimeInv'
<1>1. RuntimeTypeOK'
  BY DEF RuntimeInv, RuntimeTypeOK, Inv, taskVars, schedVars
<1>2. TaskTells'
  BY ProgramLeavesTasks DEF taskVars
<1>3. HandlesTell'
  BY DEF RuntimeInv, HandlesTell, Spawned, taskVars, schedVars
<1>4. NoGid \notin Tids
  BY SchedulerAssumption DEF NoGid, Tids, GIds
<1>5. AnswersTell' /\ DoneHasResult' /\ EarlyCancelHolds' /\ (\A s \in early : cancel[s])'
  BY <1>4 DEF RuntimeInv, AnswersTell, DoneHasResult, EarlyCancelHolds, taskVars
<1>. QED
  BY <1>1, <1>2, <1>3, <1>5 DEF RuntimeInv

LEMMA MainStepKeepsInv ==
    ASSUME RuntimeInv, Inv',
           \/ SpawnStartsPool \/ Spawn \/ Uses
           \/ ScopeExits \/ Poll \/ ProgramReturns \/ MainProceeds
    PROVE  RuntimeInv'
<1>1. /\ fDetached \in [Tids -> BOOLEAN] /\ bound \subseteq Tids /\ root \subseteq Tids
      /\ waiting \subseteq Tids /\ handles \subseteq Tids /\ on \in Tids \cup {NoGid}
      /\ NoGid \notin Tids
  BY SchedulerAssumption DEF RuntimeInv, RuntimeTypeOK, Tids, GIds, NoGid
<1>2. /\ main \in {"running", "ended"} => on = NoGid
      /\ main = "joining" => on # NoGid
      /\ main \in {"polling", "draining"} => on \in waiting \cup {NoGid}
  BY DEF RuntimeInv, HandlesTell
<1>3. Promoted \subseteq Tids /\ Spawned \subseteq Tids
  BY <1>1 DEF Promoted, Spawned
<1>4. CASE SpawnStartsPool \/ Spawn
  BY <1>4, SpawnKeepsInv
<1>5. ASSUME NEW t \in Tids, Join(t) PROVE RuntimeInv'
  <2>1. /\ t \in handles /\ on = NoGid /\ on' = t /\ handles' = handles \ {t}
        /\ main = "running" /\ main' = "joining" /\ UNCHANGED waiting
        /\ UNCHANGED <<drains, schedVars, taskVars, fDone, fDetached, bound, root, delivered, early>>
    BY <1>2, <1>5 DEF Join
  <2>. QED
    BY <2>1, HandleGoesKeepsInv
<1>6. ASSUME NEW t \in Tids, Cancel(t) PROVE RuntimeInv'
  BY <1>6, CancelKeepsInv
<1>7. ASSUME NEW t \in Tids, Detach(t) \/ Rebind(t) PROVE RuntimeInv'
  <2>1. /\ on = NoGid /\ main = "running" /\ bound' \subseteq Tids /\ fDetached' \in [Tids -> BOOLEAN]
        /\ UNCHANGED <<drains, schedVars, taskVars, handles, fDone, root, main, on, waiting, delivered, early>>
    BY <1>1, <1>2, <1>7 DEF Detach, Rebind
  <2>. QED
    BY <1>1, <2>1, BookkeepingKeepsInv
<1>8. CASE ScopeExits \/ Poll
  <2>1. /\ on = NoGid /\ on' = NoGid /\ main = "running" /\ main' \in {"running", "polling"}
        /\ bound' \subseteq Tids /\ root' \subseteq Tids /\ waiting' \subseteq Tids
        /\ UNCHANGED <<drains, schedVars, taskVars, handles, fDone, fDetached, delivered, early>>
    BY <1>1, <1>2, <1>3, <1>8 DEF ScopeExits, Poll
  <2>. QED
    BY <1>1, <2>1, BookkeepingKeepsInv
<1>9. CASE ProgramReturns
  <2>1. /\ on = NoGid /\ on' = NoGid /\ main = "running"
        /\ main' = "draining" \/ (main' = "ended" /\ ~drains)
        /\ bound' \subseteq Tids /\ root' \subseteq Tids /\ waiting' \subseteq Tids
        /\ UNCHANGED <<drains, schedVars, taskVars, handles, fDone, fDetached, delivered, early>>
    BY <1>1, <1>2, <1>3, <1>9 DEF ProgramReturns
  <2>. QED
    BY <1>1, <2>1, BookkeepingKeepsInv
<1>10. CASE JoinReturns
  BY <1>10, JoinReturnsKeepsInv
<1>11. ASSUME NEW t \in Tids, WaitFor(t) PROVE RuntimeInv'
  <2>1. CASE t \in handles
    <3>1. /\ on = NoGid /\ on' = t /\ handles' = handles \ {t}
          /\ main \in {"polling", "draining"} /\ t \in waiting /\ UNCHANGED <<main, waiting>>
          /\ UNCHANGED <<drains, schedVars, taskVars, fDone, fDetached, bound, root, delivered, early>>
      BY <1>11, <2>1 DEF WaitFor
    <3>. QED
      BY <2>1, <3>1, HandleGoesKeepsInv
  <2>2. CASE t \notin handles
    <3>1. /\ on = NoGid /\ on' = NoGid /\ handles' = handles /\ waiting' \subseteq Tids
          /\ main \in {"polling", "draining"} /\ main' = main
          /\ UNCHANGED <<drains, schedVars, taskVars, fDone, fDetached, bound, root, delivered, early>>
      BY <1>1, <1>11, <2>2 DEF WaitFor
    <3>. QED
      BY <1>1, <3>1, BookkeepingKeepsInv
  <2>. QED
    BY <2>1, <2>2
<1>12. CASE WaitReturns
  <2>1. /\ on \in Tids /\ on' = NoGid /\ done[on] /\ main \in {"polling", "draining"} /\ main' = main
        /\ waiting' \subseteq Tids
        /\ UNCHANGED <<drains, schedVars, taskVars, handles, fDone, fDetached, bound, root, delivered, early>>
    BY <1>1, <1>12 DEF WaitReturns
  <2>. QED
    BY <1>1, <2>1, BookkeepingKeepsInv
<1>13. CASE PollReturns \/ DrainReturns
  <2>1. /\ on = NoGid /\ on' = NoGid
        /\ \/ main = "polling" /\ main' = "running"
           \/ main = "draining" /\ main' = "ended" /\ handles = {}
        /\ UNCHANGED <<drains, schedVars, taskVars, handles, fDone, fDetached, bound, root, waiting,
                       delivered, early>>
    BY <1>2, <1>13 DEF PollReturns, DrainReturns
  <2>. QED
    BY <1>1, <2>1, BookkeepingKeepsInv
<1>14. CASE DrainRest
  <2>1. /\ on = NoGid /\ on' = NoGid /\ main = "draining" /\ main' = "draining" /\ waiting' \subseteq Tids
        /\ UNCHANGED <<drains, schedVars, taskVars, handles, fDone, fDetached, bound, root, delivered, early>>
    BY <1>1, <1>2, <1>14 DEF DrainRest
  <2>. QED
    BY <1>1, <2>1, BookkeepingKeepsInv
<1>15. CASE InterpDropped
  <2>1. UNCHANGED <<state, nextGid, pc, held, taskVars, mainVars>>
    BY <1>15 DEF InterpDropped, DropStarts, DropEnds
  <2>2. \A t \in Tids : InHand("unwound", t)' => InHand("unwound", t)
    BY <2>1 DEF InHand
  <2>. QED
    BY <2>1, <2>2, SchedulerKeepsInv
<1>. QED
  BY <1>4, <1>5, <1>6, <1>7, <1>8, <1>9, <1>10, <1>11, <1>12, <1>13, <1>14, <1>15
     DEF Uses, MainProceeds

LEMMA StepKeepsRuntimeInv == RuntimeInv /\ [RuntimeNext]_runtimeVars => RuntimeInv'
<1>1. SUFFICES ASSUME RuntimeInv, [RuntimeNext]_runtimeVars PROVE RuntimeInv'
  OBVIOUS
<1>2. Inv'
  BY <1>1, StepMaps, NextKeepsInv DEF RuntimeInv
<1>3. CASE \E w \in Workers : Worker(w) \/ PanicsInTask(w)
  BY <1>1, <1>2, <1>3, TaskStepKeepsInv
<1>4. CASE \/ SpawnStartsPool \/ Spawn \/ Uses
           \/ ScopeExits \/ Poll \/ ProgramReturns \/ MainProceeds
  BY <1>1, <1>2, <1>4, MainStepKeepsInv
<1>5. CASE UNCHANGED runtimeVars
  <2>1. UNCHANGED <<state, nextGid, pc, held, taskVars, mainVars>>
    BY <1>5 DEF runtimeVars, schedVars
  <2>2. \A t \in Tids : InHand("unwound", t)' => InHand("unwound", t)
    BY <2>1 DEF InHand
  <2>. QED
    BY <1>1, <1>2, <2>1, <2>2, SchedulerKeepsInv
<1>. QED
  BY <1>1, <1>3, <1>4, <1>5 DEF RuntimeNext

LEMMA RuntimeInvariance == RuntimeSpec => []RuntimeInv
<1>. QED
  BY RuntimeInitInv, StepKeepsRuntimeInv, PTL DEF RuntimeSpec

-----------------------------------------------------------------------------
(* Every reachable state has the declared types (RuntimeTypeOK).           *)
THEOREM RuntimeTypeCorrect == RuntimeSpec => []RuntimeTypeOK
<1>1. RuntimeInv => RuntimeTypeOK
  BY DEF RuntimeInv
<1>. QED
  BY <1>1, RuntimeInvariance, PTL

(* Whoever sees the done flag of a thread it has the handle of, or has     *)
(* waited for, finds a result: thread_join never raises ThreadNoResult.    *)
THEOREM JoinFindsResult == RuntimeSpec => []DoneHasResult
<1>1. RuntimeInv => DoneHasResult
  BY DEF RuntimeInv
<1>. QED
  BY <1>1, RuntimeInvariance, PTL

(* A thread cancelled before any worker has its goroutine never enters its *)
(* body, and a join of it reports Cancelled, however late a worker comes.  *)
THEOREM EarlyCancelIsFinal == RuntimeSpec => []EarlyCancelHolds
<1>1. RuntimeInv => EarlyCancelHolds
  BY DEF RuntimeInv
<1>. QED
  BY <1>1, RuntimeInvariance, PTL

(* is_done is TRUE only of finished threads, and of those whose handle is  *)
(* there or whose result join has returned always.                         *)
THEOREM IsDoneIsTrue == RuntimeSpec => []IsDoneTells
<1>1. RuntimeInv => IsDoneTells
  <2>1. SUFFICES ASSUME RuntimeInv, main = "running", NEW t \in Tids
                 PROVE  /\ IsDone(t) => done[t]
                        /\ done[t] /\ (t \in handles \/ delivered[t] \in {"Ok", "Cancelled"}) => IsDone(t)
    BY DEF IsDoneTells, Spawned
  <2>2. /\ delivered[t] # "None" => t \notin handles
        /\ delivered[t] \in {"Ok", "Cancelled"} => fDone[t]
        /\ fDone[t] => done[t]
    BY <2>1 DEF RuntimeInv, AnswersTell
  <2>3. done[t] \in BOOLEAN /\ fDone[t] \in BOOLEAN
    BY <2>1 DEF RuntimeInv, RuntimeTypeOK
  <2>. QED
    BY <2>2, <2>3 DEF IsDone
<1>. QED
  BY <1>1, RuntimeInvariance, PTL

(* When an interpreter that drains has ended, every thread it ever spawned *)
(* and did not detach has finished: joined, polled, bound or forgotten,    *)
(* whichever of the others panicked.                                       *)
THEOREM EndAwaitsTheAttached == RuntimeSpec => []EndAwaitsAttached
<1>1. RuntimeInv => EndAwaitsAttached
  <2>1. SUFFICES ASSUME RuntimeInv, drains, main = "ended"
                 PROVE  \A t \in Spawned : fDetached[t] \/ done[t]
    BY DEF EndAwaitsAttached
  <2>2. handles = {} /\ on = NoGid /\ NoGid \notin Tids
    BY <2>1, SchedulerAssumption DEF RuntimeInv, HandlesTell, NoGid, Tids, GIds
  <2>. QED
    BY <2>1, <2>2 DEF RuntimeInv, HandlesTell, Spawned
<1>. QED
  BY <1>1, RuntimeInvariance, PTL

(* When the scheduler of an interpreter that does not drain is dropped,    *)
(* each of its threads has finished, has panicked, or was never begun and  *)
(* is still queued: none is cut off in the middle.                         *)
THEOREM DropIsClean == RuntimeSpec => []DropCutsNothing
<1>1. RuntimeInv => DropCutsNothing
  <2>1. SUFFICES ASSUME RuntimeInv, owner = "dropped", NEW t \in Spawned
                 PROVE  done[t] \/ Panicked(t) \/ (tpc[t] = "closure" /\ Queued(t))
    BY DEF DropCutsNothing
  <2>2. \A p \in {"take", "run"} : ~InHand(p, t)
    BY <2>1 DEF RuntimeInv, Inv, NothingRunsAfterDrop, WorkerEnded, InHand
  <2>3. t \in GIds /\ t < nextGid /\ nextGid \in Nat /\ state[t] \in GState
    BY <2>1 DEF RuntimeInv, Inv, TypeOK, Spawned, Tids
  <2>4. state[t] # "Absent"
    BY <2>1, <2>3 DEF RuntimeInv, Inv, StateTellsPlace, GIds
  <2>5. CASE state[t] = "Runnable"
    BY <2>1, <2>2, <2>3, <2>5 DEF RuntimeInv, Inv, StateTellsPlace, TaskTells, Tids
  <2>6. CASE state[t] = "Running"
    BY <2>1, <2>2, <2>3, <2>6 DEF RuntimeInv, Inv, StateTellsPlace, Panicked
  <2>7. CASE state[t] = "Done"
    BY <2>1, <2>3, <2>7 DEF RuntimeInv, TaskTells, Tids
  <2>. QED
    BY <2>3, <2>4, <2>5, <2>6, <2>7 DEF GState
<1>. QED
  BY <1>1, RuntimeInvariance, PTL
=============================================================================
