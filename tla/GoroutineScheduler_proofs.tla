---------------------- MODULE GoroutineScheduler_proofs ----------------------
(***************************************************************************)
(* Proofs about GoroutineScheduler, for any set of workers, any number of  *)
(* goroutines and whichever tasks panic.                                   *)
(***************************************************************************)
EXTENDS GoroutineScheduler, TLAPS

(* What a worker's program counter says of the goroutine it holds, and of  *)
(* the pool.                                                               *)
PcTells ==
    \A w \in Workers :
        /\ held[w] \in GIds <=> pc[w] \in {"take", "run", "unwound"}
        /\ held[w] \in GIds => held[w] < nextGid
        /\ pc[w] = "unborn" <=> ~started

(* The inductive invariant.  That a popped goroutine is in one hand only   *)
(* rests on the queue being the latest ids, hence without repetition; that *)
(* TakeTask always finds a task rests on StateTellsPlace.                  *)
Inv ==
    /\ TypeOK
    /\ PcTells
    /\ QueueIsLatest
    /\ OneHolder
    /\ StateTellsPlace
    /\ NothingRunsAfterDrop

-----------------------------------------------------------------------------
(* A queue that holds the latest ids holds an interval of them.            *)
LEMMA LatestIsInterval ==
    ASSUME NEW q \in Seq(GIds), NEW n \in Nat,
           \A i \in 1..Len(q) : q[i] = (n - 1) - Len(q) + i
    PROVE  \A g \in GIds :
               (\E i \in 1..Len(q) : q[i] = g) <=> n - Len(q) <= g /\ g < n
<1>1. SUFFICES ASSUME NEW g \in GIds
               PROVE  (\E i \in 1..Len(q) : q[i] = g) <=> n - Len(q) <= g /\ g < n
  OBVIOUS
<1>2. g \in Nat /\ Len(q) \in Nat
  BY SchedulerAssumption DEF GIds
<1>3. ASSUME n - Len(q) <= g, g < n PROVE \E i \in 1..Len(q) : q[i] = g
  <2>1. g - (n - 1) + Len(q) \in 1..Len(q)
    BY <1>2, <1>3
  <2>2. q[g - (n - 1) + Len(q)] = (n - 1) - Len(q) + (g - (n - 1) + Len(q))
    BY <2>1
  <2>. QED
    BY <1>2, <2>1, <2>2
<1>. QED
  BY <1>2, <1>3

LEMMA InitInv == Init => Inv
<1>1. SUFFICES ASSUME Init PROVE Inv
  OBVIOUS
<1>2. NoGid \notin GIds /\ 1 \in 1..(MaxGid + 1) /\ <<>> \in Seq(GIds) /\ Len(<<>>) = 0
  BY SchedulerAssumption DEF NoGid, GIds
<1>3. TypeOK
  BY <1>1, <1>2 DEF Init, TypeOK, GState, WorkerPc
<1>4. PcTells
  BY <1>1, <1>2 DEF Init, PcTells
<1>5. QueueIsLatest
  BY <1>1, <1>2 DEF Init, QueueIsLatest
<1>6. OneHolder
  BY <1>1, <1>2 DEF Init, OneHolder, Holds
<1>7. StateTellsPlace
  BY <1>1, <1>2 DEF Init, StateTellsPlace, Queued, InHand, GIds
<1>8. NothingRunsAfterDrop
  BY <1>1 DEF Init, NothingRunsAfterDrop
<1>. QED
  BY <1>3, <1>4, <1>5, <1>6, <1>7, <1>8 DEF Inv

-----------------------------------------------------------------------------
(* Steps that do not touch the queue, the table or the ids in hand.        *)
LEMMA StartKeepsInv == Inv /\ Start => Inv'
<1>1. SUFFICES ASSUME Inv, Start PROVE Inv'
  OBVIOUS
<1>2. \A w \in Workers : pc[w] = "unborn" /\ pc'[w] = "test"
  BY <1>1 DEF Inv, PcTells, Start
<1>3. TypeOK'
  BY <1>1 DEF Inv, TypeOK, Start, inner, WorkerPc
<1>4. PcTells'
  BY <1>1, <1>2 DEF Inv, PcTells, Start, inner
<1>5. QueueIsLatest'
  BY <1>1 DEF Inv, QueueIsLatest, Start, inner
<1>6. OneHolder'
  BY <1>1, <1>2 DEF Inv, OneHolder, Holds, Start, inner
<1>7. StateTellsPlace'
  BY <1>1, <1>2 DEF Inv, StateTellsPlace, Queued, InHand, Start, inner
<1>8. NothingRunsAfterDrop'
  BY <1>1 DEF Inv, NothingRunsAfterDrop, Start
<1>. QED
  BY <1>3, <1>4, <1>5, <1>6, <1>7, <1>8 DEF Inv

LEMMA SubmitKeepsInv == Inv /\ Submit => Inv'
<1>1. SUFFICES ASSUME Inv, Submit PROVE Inv'
  OBVIOUS
<1>2. /\ queue \in Seq(GIds) /\ nextGid \in GIds /\ nextGid \in Nat /\ MaxGid \in Nat
      /\ queue' = Append(queue, nextGid) /\ nextGid' = nextGid + 1
      /\ pc' = pc /\ held' = held /\ owner' = owner /\ started' = started /\ stop' = stop
  BY <1>1, SchedulerAssumption DEF Inv, TypeOK, Submit, GIds, pool
<1>3. /\ Len(queue') = Len(queue) + 1
      /\ \A i \in 1..Len(queue) : queue'[i] = queue[i]
      /\ queue'[Len(queue) + 1] = nextGid
      /\ queue' \in Seq(GIds)
  BY <1>2
<1>4. TypeOK'
  <2>1. state' \in [GIds -> GState] /\ hasTask' \in [GIds -> BOOLEAN]
    BY <1>1 DEF Inv, TypeOK, Submit, GState
  <2>2. nextGid' \in 1..(MaxGid + 1)
    BY <1>2 DEF GIds
  <2>. QED
    BY <1>1, <1>2, <1>3, <2>1, <2>2 DEF Inv, TypeOK
<1>5. PcTells'
  BY <1>1, <1>2 DEF Inv, PcTells, GIds
<1>6. QueueIsLatest'
  BY <1>1, <1>2, <1>3 DEF Inv, QueueIsLatest
<1>7. OneHolder'
  <2>1. \A w \in Workers : ~Holds(w, nextGid)
    BY <1>1, <1>2 DEF Inv, PcTells, Holds
  <2>. QED
    BY <1>1, <1>2, <1>3, <2>1 DEF Inv, OneHolder, Holds
<1>8. StateTellsPlace'
  <2>1. \A g \in GIds : Queued(g)' <=> Queued(g) \/ g = nextGid
    BY <1>2, <1>3 DEF Queued
  <2>2. \A g \in GIds, p \in WorkerPc : InHand(p, g)' <=> InHand(p, g)
    BY <1>2 DEF InHand
  <2>3. \A g \in GIds : g # nextGid => state'[g] = state[g] /\ hasTask'[g] = hasTask[g]
    BY <1>1 DEF Inv, TypeOK, Submit
  <2>4. state'[nextGid] = "Runnable" /\ hasTask'[nextGid] = TRUE
    BY <1>1, <1>2 DEF Inv, TypeOK, Submit
  <2>5. ~InHand("run", nextGid) /\ ~InHand("unwound", nextGid)
    BY <1>1, <1>2 DEF Inv, PcTells, InHand
  <2>6. \A g \in GIds : g # nextGid => (g >= nextGid' <=> g >= nextGid)
    BY <1>2 DEF GIds
  <2>7. ~(nextGid >= nextGid')
    BY <1>2
  <2>. QED
    BY <1>1, <1>2, <2>1, <2>2, <2>3, <2>4, <2>5, <2>6, <2>7
       DEF Inv, StateTellsPlace, WorkerPc
<1>9. NothingRunsAfterDrop'
  BY <1>1, <1>2 DEF Inv, NothingRunsAfterDrop, WorkerEnded
<1>. QED
  BY <1>4, <1>5, <1>6, <1>7, <1>8, <1>9 DEF Inv

(* TestStop, and PopGid on an empty queue: the worker holds nothing before *)
(* and after.                                                              *)
LEMMA EmptyHandedKeepsInv ==
    ASSUME Inv, NEW w \in Workers, NEW p \in {"test", "pop", "exited"},
           pc[w] \in {"test", "pop"}, Goto(w, p, NoGid),
           UNCHANGED <<inner, started, stop, owner>>
    PROVE  Inv'
<1>1. /\ pc' = [pc EXCEPT ![w] = p] /\ held' = [held EXCEPT ![w] = NoGid]
      /\ pc \in [Workers -> WorkerPc] /\ held \in [Workers -> GIds \cup {NoGid}]
      /\ NoGid \notin GIds
  BY SchedulerAssumption DEF Inv, TypeOK, Goto, GIds, NoGid
<1>2. /\ pc'[w] = p /\ held'[w] = NoGid
      /\ \A v \in Workers : v # w => pc'[v] = pc[v] /\ held'[v] = held[v]
  BY <1>1
<1>3. TypeOK'
  BY <1>1 DEF Inv, TypeOK, inner, WorkerPc
<1>4. PcTells'
  BY <1>1, <1>2 DEF Inv, PcTells, inner
<1>5. QueueIsLatest'
  BY DEF Inv, QueueIsLatest, inner
<1>6. OneHolder'
  BY <1>2 DEF Inv, OneHolder, Holds, inner
<1>7. StateTellsPlace'
  <2>1. \A g \in GIds, r \in {"take", "run", "unwound"} : InHand(r, g)' <=> InHand(r, g)
    BY <1>2 DEF InHand
  <2>2. \A g \in GIds : Queued(g)' <=> Queued(g)
    BY DEF Queued, inner
  <2>. QED
    BY <2>1, <2>2 DEF Inv, StateTellsPlace, inner
<1>8. NothingRunsAfterDrop'
  BY DEF Inv, NothingRunsAfterDrop, WorkerEnded
<1>. QED
  BY <1>3, <1>4, <1>5, <1>6, <1>7, <1>8 DEF Inv

LEMMA PopKeepsInv ==
    ASSUME Inv, NEW w \in Workers, PopGid(w)
    PROVE  Inv'
<1>1. CASE queue = <<>>
  BY <1>1, EmptyHandedKeepsInv DEF PopGid, inner
<1>2. CASE queue # <<>>
  <2> DEFINE h == Head(queue)
  <2>1. /\ pc' = [pc EXCEPT ![w] = "take"] /\ held' = [held EXCEPT ![w] = h]
        /\ pc \in [Workers -> WorkerPc] /\ held \in [Workers -> GIds \cup {NoGid}]
        /\ queue \in Seq(GIds) /\ queue' = Tail(queue)
        /\ nextGid \in Nat /\ pc[w] = "pop"
        /\ UNCHANGED <<state, hasTask, nextGid, started, stop, owner>>
    BY <1>2, SchedulerAssumption DEF Inv, TypeOK, PopGid, Goto, GIds
  <2>2. /\ pc'[w] = "take" /\ held'[w] = h
        /\ \A v \in Workers : v # w => pc'[v] = pc[v] /\ held'[v] = held[v]
    BY <2>1
  <2>3. /\ h = queue[1] /\ h \in GIds /\ 1 \in 1..Len(queue)
        /\ Len(queue') = Len(queue) - 1 /\ queue' \in Seq(GIds)
        /\ \A i \in 1..Len(queue') : queue'[i] = queue[i + 1] /\ i + 1 \in 1..Len(queue)
    BY <1>2, <2>1
  <2>4. h = nextGid - Len(queue) /\ h < nextGid
    BY <2>1, <2>3 DEF Inv, QueueIsLatest
  <2>5. TypeOK'
    BY <2>1, <2>3 DEF Inv, TypeOK, WorkerPc
  <2>6. PcTells'
    BY <2>1, <2>2, <2>3, <2>4 DEF Inv, PcTells
  <2>7. QueueIsLatest'
    BY <2>1, <2>3 DEF Inv, QueueIsLatest
  <2>8. OneHolder'
    <3>1. \A v \in Workers : ~Holds(v, h)
      BY <2>3 DEF Inv, OneHolder
    <3>2. \A i \in 1..Len(queue') : queue'[i] # h
      BY <2>1, <2>3, <2>4, <2>7 DEF QueueIsLatest
    <3>3. \A v \in Workers : v # w => \A g : Holds(v, g)' <=> Holds(v, g)
      BY <2>2 DEF Holds
    <3>4. \A g : Holds(w, g)' <=> g = h
      BY <2>2 DEF Holds
    <3>. QED
      BY <2>3, <3>1, <3>2, <3>3, <3>4 DEF Inv, OneHolder
  <2>9. StateTellsPlace'
    <3>1. \A g \in GIds, r \in {"run", "unwound"} : InHand(r, g)' <=> InHand(r, g)
      BY <2>1, <2>2 DEF InHand
    <3>2. \A g \in GIds : InHand("take", g)' <=> InHand("take", g) \/ g = h
      BY <2>1, <2>2 DEF InHand
    <3>3. \A g \in GIds : Queued(g) <=> Queued(g)' \/ g = h
      <4>1. \A g \in GIds : Queued(g) <=> nextGid - Len(queue) <= g /\ g < nextGid
        BY <2>1, LatestIsInterval DEF Inv, QueueIsLatest, Queued
      <4>2. \A g \in GIds : Queued(g)' <=> nextGid - Len(queue') <= g /\ g < nextGid
        BY <2>1, <2>3, <2>7, LatestIsInterval DEF QueueIsLatest, Queued
      <4>. QED
        BY <2>1, <2>3, <2>4, <4>1, <4>2 DEF GIds
    <3>. QED
      BY <2>1, <3>1, <3>2, <3>3 DEF Inv, StateTellsPlace
  <2>10. NothingRunsAfterDrop'
    BY <2>1 DEF Inv, NothingRunsAfterDrop, WorkerEnded
  <2>. QED
    BY <2>5, <2>6, <2>7, <2>8, <2>9, <2>10 DEF Inv
<1>. QED
  BY <1>1, <1>2

-----------------------------------------------------------------------------
(* TakeTask finds the task: the goroutine it holds is Runnable, so the     *)
(* worker goes on to run it.                                               *)
LEMMA TakeTaskFindsTask ==
    ASSUME Inv, NEW w \in Workers, TakeTask(w)
    PROVE  /\ held[w] \in GIds /\ state[held[w]] = "Runnable"
           /\ pc' = [pc EXCEPT ![w] = "run"]
           /\ held' = [held EXCEPT ![w] = held[w]]
<1>1. held[w] \in GIds /\ InHand("take", held[w])
  BY DEF Inv, PcTells, TakeTask, InHand
<1>2. state[held[w]] = "Runnable" /\ hasTask[held[w]]
  BY <1>1 DEF Inv, StateTellsPlace
<1>. QED
  BY <1>1, <1>2 DEF TakeTask, Goto

(* A step in which worker w, holding g all along, moves on to r, and the   *)
(* state and task of g, and only of g, may change.                         *)
LEMMA HoldingKeepsInv ==
    ASSUME Inv, NEW w \in Workers, NEW g \in GIds, NEW r \in {"run", "unwound"},
           pc[w] \in {"take", "run"}, held[w] = g,
           pc' = [pc EXCEPT ![w] = r], held' = [held EXCEPT ![w] = g],
           state' = [state EXCEPT ![g] = "Running"],
           hasTask' = [hasTask EXCEPT ![g] = FALSE],
           UNCHANGED <<queue, nextGid, started, stop, owner>>
    PROVE  Inv'
<1>1. /\ pc \in [Workers -> WorkerPc] /\ held \in [Workers -> GIds \cup {NoGid}]
      /\ state \in [GIds -> GState] /\ hasTask \in [GIds -> BOOLEAN]
  BY DEF Inv, TypeOK
<1>2. /\ pc'[w] = r /\ held'[w] = g /\ held[w] = g
      /\ \A v \in Workers : v # w => pc'[v] = pc[v] /\ held'[v] = held[v]
  BY <1>1
<1>3. r \in {"run", "unwound"} /\ pc[w] \in {"take", "run"}
  OBVIOUS
<1>4. \A v \in Workers : \A x : Holds(v, x)' <=> Holds(v, x)
  BY <1>2, <1>3 DEF Holds
<1>5. \A v \in Workers : v # w => ~Holds(v, g)
  BY <1>2, <1>3 DEF Inv, OneHolder, Holds
<1>6. TypeOK'
  BY <1>1, <1>3 DEF Inv, TypeOK, GState, WorkerPc
<1>7. PcTells'
  BY <1>1, <1>2, <1>3 DEF Inv, PcTells
<1>8. QueueIsLatest'
  BY DEF Inv, QueueIsLatest
<1>9. OneHolder'
  BY <1>4 DEF Inv, OneHolder
<1>10. StateTellsPlace'
  <2>1. \A x \in GIds : Queued(x)' <=> Queued(x)
    BY DEF Queued
  <2>2. ~Queued(g)
    BY <1>2, <1>3 DEF Inv, OneHolder, Holds, Queued
  <2>3. ~InHand("take", g)'
    BY <1>2, <1>3, <1>5 DEF InHand, Holds
  <2>4. InHand("run", g)' \/ InHand("unwound", g)'
    BY <1>2, <1>3 DEF InHand
  <2>5. \A x \in GIds, s \in {"take", "run", "unwound"} :
            x # g => (InHand(s, x)' <=> InHand(s, x))
    BY <1>2 DEF InHand
  <2>6. \A x \in GIds : x # g => state'[x] = state[x] /\ hasTask'[x] = hasTask[x]
    BY <1>1
  <2>7. state'[g] = "Running" /\ hasTask'[g] = FALSE
    BY <1>1
  <2>8. ~(g >= nextGid)
    BY <1>2 DEF Inv, PcTells, TypeOK, GIds
  <2>. QED
    BY <2>1, <2>2, <2>3, <2>4, <2>5, <2>6, <2>7, <2>8 DEF Inv, StateTellsPlace
<1>11. NothingRunsAfterDrop'
  BY <1>2, <1>3 DEF Inv, NothingRunsAfterDrop, WorkerEnded
<1>. QED
  BY <1>6, <1>7, <1>8, <1>9, <1>10, <1>11 DEF Inv

LEMMA TakeTaskKeepsInv ==
    ASSUME Inv, NEW w \in Workers, TakeTask(w)
    PROVE  Inv'
<1>1. /\ held[w] \in GIds /\ pc[w] = "take"
      /\ pc' = [pc EXCEPT ![w] = "run"] /\ held' = [held EXCEPT ![w] = held[w]]
  BY TakeTaskFindsTask DEF TakeTask
<1>2. /\ state' = [state EXCEPT ![held[w]] = "Running"]
      /\ hasTask' = [hasTask EXCEPT ![held[w]] = FALSE]
      /\ UNCHANGED <<queue, nextGid, started, stop, owner>>
  BY DEF TakeTask
<1>. QED
  BY <1>1, <1>2, HoldingKeepsInv

LEMMA TaskPanicsKeepsInv ==
    ASSUME Inv, NEW w \in Workers, TaskPanics(w)
    PROVE  Inv'
<1>1. /\ held[w] \in GIds /\ pc[w] = "run" /\ pc' = [pc EXCEPT ![w] = "unwound"]
      /\ held \in [Workers -> GIds \cup {NoGid}] /\ held' = held
      /\ state \in [GIds -> GState] /\ hasTask \in [GIds -> BOOLEAN]
      /\ UNCHANGED <<queue, state, hasTask, nextGid, started, stop, owner>>
  BY DEF Inv, PcTells, TypeOK, TaskPanics, inner
<1>2. state[held[w]] = "Running" /\ hasTask[held[w]] = FALSE
  BY <1>1 DEF Inv, StateTellsPlace, InHand
<1>3. /\ held' = [held EXCEPT ![w] = held[w]]
      /\ state' = [state EXCEPT ![held[w]] = "Running"]
      /\ hasTask' = [hasTask EXCEPT ![held[w]] = FALSE]
  BY <1>1, <1>2
<1>. QED
  BY <1>1, <1>3, HoldingKeepsInv

LEMMA TaskReturnsKeepsInv ==
    ASSUME Inv, NEW w \in Workers, TaskReturns(w)
    PROVE  Inv'
<1>0. PICK g \in GIds : held[w] = g
  BY DEF Inv, PcTells, TaskReturns
<1>1. /\ pc \in [Workers -> WorkerPc] /\ held \in [Workers -> GIds \cup {NoGid}]
      /\ state \in [GIds -> GState]
      /\ pc' = [pc EXCEPT ![w] = "test"] /\ held' = [held EXCEPT ![w] = NoGid]
      /\ state' = [state EXCEPT ![g] = "Done"] /\ pc[w] = "run" /\ held[w] = g
      /\ NoGid \notin GIds
      /\ UNCHANGED <<queue, hasTask, nextGid, started, stop, owner>>
  BY <1>0, SchedulerAssumption DEF Inv, TypeOK, TaskReturns, Goto, NoGid, GIds
<1>2. /\ pc'[w] = "test" /\ held'[w] = NoGid
      /\ \A v \in Workers : v # w => pc'[v] = pc[v] /\ held'[v] = held[v]
  BY <1>1
<1>3. \A v \in Workers : v # w => ~Holds(v, g)
  BY <1>1 DEF Inv, OneHolder, Holds
<1>4. TypeOK'
  BY <1>1 DEF Inv, TypeOK, GState, WorkerPc
<1>5. PcTells'
  BY <1>1, <1>2 DEF Inv, PcTells
<1>6. QueueIsLatest'
  BY <1>1 DEF Inv, QueueIsLatest
<1>7. OneHolder'
  BY <1>1, <1>2 DEF Inv, OneHolder, Holds
<1>8. StateTellsPlace'
  <2>1. \A x \in GIds : Queued(x)' <=> Queued(x)
    BY <1>1 DEF Queued
  <2>2. ~Queued(g) /\ ~(g >= nextGid)
    BY <1>1 DEF Inv, OneHolder, Holds, Queued, PcTells, TypeOK, GIds
  <2>3. ~InHand("take", g)' /\ ~InHand("run", g)' /\ ~InHand("unwound", g)'
    BY <1>1, <1>2, <1>3 DEF InHand, Holds
  <2>4. \A x \in GIds, s \in {"take", "run", "unwound"} :
            x # g => (InHand(s, x)' <=> InHand(s, x))
    BY <1>1, <1>2 DEF InHand
  <2>5. \A x \in GIds : x # g => state'[x] = state[x]
    BY <1>1
  <2>6. state'[g] = "Done" /\ hasTask'[g] = hasTask[g] /\ ~hasTask[g]
    BY <1>1 DEF Inv, StateTellsPlace, InHand
  <2>. QED
    BY <1>1, <2>1, <2>2, <2>3, <2>4, <2>5, <2>6 DEF Inv, StateTellsPlace
<1>9. NothingRunsAfterDrop'
  BY <1>1, <1>2 DEF Inv, NothingRunsAfterDrop, WorkerEnded
<1>. QED
  BY <1>4, <1>5, <1>6, <1>7, <1>8, <1>9 DEF Inv

(* Drop changes the flag and the owner only.                               *)
LEMMA DropKeepsInv == Inv /\ (DropStarts \/ DropEnds) => Inv'
<1>1. SUFFICES ASSUME Inv, DropStarts \/ DropEnds PROVE Inv'
  OBVIOUS
<1>2. UNCHANGED <<queue, state, hasTask, nextGid, started, pc, held>>
  BY <1>1 DEF DropStarts, DropEnds, inner, pool
<1>3. TypeOK'
  BY <1>1, <1>2 DEF Inv, TypeOK, DropStarts, DropEnds
<1>4. NothingRunsAfterDrop'
  BY <1>1, <1>2 DEF Inv, NothingRunsAfterDrop, WorkerEnded, DropStarts, DropEnds
<1>. QED
  BY <1>1, <1>2, <1>3, <1>4
     DEF Inv, PcTells, QueueIsLatest, OneHolder, Holds, StateTellsPlace, Queued, InHand

LEMMA NextKeepsInv == Inv /\ [Next]_vars => Inv'
<1>1. SUFFICES ASSUME Inv, [Next]_vars PROVE Inv'
  OBVIOUS
<1>2. CASE Start
  BY <1>1, <1>2, StartKeepsInv
<1>3. CASE Submit
  BY <1>1, <1>3, SubmitKeepsInv
<1>4. CASE DropStarts \/ DropEnds
  BY <1>1, <1>4, DropKeepsInv
<1>5. ASSUME NEW w \in Workers, TestStop(w) PROVE Inv'
  <2>1. PICK p \in {"test", "pop", "exited"} : Goto(w, p, NoGid)
    BY <1>5 DEF TestStop
  <2>2. pc[w] \in {"test", "pop"} /\ UNCHANGED <<inner, started, stop, owner>>
    BY <1>5 DEF TestStop, inner
  <2>. QED
    BY <1>1, <2>1, <2>2, EmptyHandedKeepsInv
<1>6. ASSUME NEW w \in Workers, PopGid(w) PROVE Inv'
  BY <1>1, <1>6, PopKeepsInv
<1>7. ASSUME NEW w \in Workers, TakeTask(w) PROVE Inv'
  BY <1>1, <1>7, TakeTaskKeepsInv
<1>8. ASSUME NEW w \in Workers, TaskReturns(w) PROVE Inv'
  BY <1>1, <1>8, TaskReturnsKeepsInv
<1>9. ASSUME NEW w \in Workers, TaskPanics(w) PROVE Inv'
  BY <1>1, <1>9, TaskPanicsKeepsInv
<1>10. CASE UNCHANGED vars
  BY <1>1, <1>10
     DEF vars, inner, pool, Inv, TypeOK, PcTells, QueueIsLatest, OneHolder, Holds,
         StateTellsPlace, Queued, InHand, NothingRunsAfterDrop, WorkerEnded
<1>. QED
  BY <1>1, <1>2, <1>3, <1>4, <1>5, <1>6, <1>7, <1>8, <1>9, <1>10 DEF Next, WorkerStep

LEMMA Invariance == Spec => []Inv
<1>. QED
  BY InitInv, NextKeepsInv, PTL DEF Spec

-----------------------------------------------------------------------------
(* Every reachable state has the declared types (TypeOK).                  *)
THEOREM TypeCorrect == Spec => []TypeOK
<1>1. Inv => TypeOK
  BY DEF Inv
<1>. QED
  BY <1>1, Invariance, PTL

(* Goroutines are popped in the order of submit, each once, whichever of   *)
(* any number of workers is faster (worker_loop's first critical section). *)
THEOREM QueueOrder == Spec => []QueueIsLatest
<1>1. Inv => QueueIsLatest
  BY DEF Inv
<1>. QED
  BY <1>1, Invariance, PTL

(* No two workers ever have the same goroutine.                            *)
THEOREM HoldersDiffer == Spec => []OneHolder
<1>1. Inv => OneHolder
  BY DEF Inv
<1>. QED
  BY <1>1, Invariance, PTL

(* The published state and the task slot tell where each goroutine is,     *)
(* between any two of the three critical sections of worker_loop.          *)
THEOREM TableTellsTheTruth == Spec => []StateTellsPlace
<1>1. Inv => StateTellsPlace
  BY DEF Inv
<1>. QED
  BY <1>1, Invariance, PTL

(* A goroutine's state only advances, one stage at a time: no task is ever *)
(* run twice, and one that panicked is never run again.                    *)
THEOREM StateAdvances == Spec => StateOnlyAdvances
<1>1. ASSUME Inv, [Next]_vars
      PROVE  [\A g \in GIds : Rank[state'[g]] \in {Rank[state[g]], Rank[state[g]] + 1}]_vars
  <2>1. SUFFICES ASSUME NEW g \in GIds
                 PROVE  Rank[state'[g]] \in {Rank[state[g]], Rank[state[g]] + 1}
    OBVIOUS
  <2>2. /\ Rank["Absent"] = 0 /\ Rank["Runnable"] = 1 /\ Rank["Running"] = 2 /\ Rank["Done"] = 3
    BY DEF Rank, GState
  <2>3. state \in [GIds -> GState]
    BY <1>1 DEF Inv, TypeOK
  <2>4. CASE state' = state
    BY <2>4
  <2>5. CASE Submit
    <3>1. nextGid \in GIds /\ state[nextGid] = "Absent"
      BY <1>1, <2>5 DEF Submit, Inv, StateTellsPlace, TypeOK, GIds
    <3>. QED
      BY <2>2, <2>3, <2>5, <3>1 DEF Submit
  <2>6. ASSUME NEW w \in Workers, TakeTask(w)
        PROVE  Rank[state'[g]] \in {Rank[state[g]], Rank[state[g]] + 1}
    <3>1. held[w] \in GIds /\ state[held[w]] = "Runnable"
      BY <1>1, <2>6, TakeTaskFindsTask
    <3>. QED
      BY <2>2, <2>3, <2>6, <3>1 DEF TakeTask
  <2>7. ASSUME NEW w \in Workers, TaskReturns(w)
        PROVE  Rank[state'[g]] \in {Rank[state[g]], Rank[state[g]] + 1}
    <3>1. held[w] \in GIds /\ state[held[w]] = "Running"
      BY <1>1, <2>7 DEF TaskReturns, Inv, PcTells, StateTellsPlace, InHand
    <3>. QED
      BY <2>2, <2>3, <2>7, <3>1 DEF TaskReturns
  <2>. QED
    BY <1>1, <2>4, <2>5, <2>6, <2>7
       DEF Next, WorkerStep, Start, DropStarts, DropEnds, TestStop, PopGid, TaskPanics, vars, inner
<1>. QED
  BY <1>1, Invariance, PTL DEF Spec, StateOnlyAdvances

(* When Drop has returned, no worker is left that could run anything.      *)
THEOREM DropLeavesNobody == Spec => []NothingRunsAfterDrop
<1>1. Inv => NothingRunsAfterDrop
  BY DEF Inv
<1>. QED
  BY <1>1, Invariance, PTL
=============================================================================
