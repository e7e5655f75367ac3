----------------------- MODULE GoroutineRuntime_proofs -----------------------
(***************************************************************************)
(* Proofs about GoroutineRuntime, for any number of workers and            *)
(* goroutines, any capacity and whichever goroutines send and receive.     *)
(***************************************************************************)
EXTENDS GoroutineRuntime, GoroutineScheduler_proofs, FiniteSetTheorems

Senders   == sendCond \cup sendWoken
Receivers == recvCond \cup recvWoken
Waiting   == Senders \cup Receivers

PastCall(r) == {g \in GIds : step[g] = "past" /\ Role[g] = r}

(* The channel: never closed, and a worker in at most one place of it.     *)
ChanTells ==
    /\ buffer \in Seq({Value, None})
    /\ closed = FALSE
    /\ Waiting \subseteq Workers
    /\ sending \in [Workers -> {Value, None}]
    /\ sendCond \cap sendWoken = {} /\ recvCond \cap recvWoken = {}
    /\ Senders \cap Receivers = {}

(* A goroutine that no worker has begun is before its call, and a worker   *)
(* waits on the side of the channel its goroutine's call is on.            *)
StepsTell ==
    /\ step \in [GIds -> {"before", "in", "past"}]
    /\ \A g \in GIds : state[g] \in {"Absent", "Runnable"} => step[g] = "before"
    /\ \A w \in Senders : Role[held[w]] = "send"
    /\ \A w \in Receivers : Role[held[w]] = "recv"

(* The inductive invariant.  That the channel's threads are the workers in *)
(* a call needs the scheduler's: no two workers run one goroutine, so the  *)
(* step of a goroutine is that of one worker.                              *)
CallsInv == Inv /\ ChanTells /\ StepsTell /\ WaitingIsRunning /\ SendsAccounted

-----------------------------------------------------------------------------
(* Counting the calls that are over.                                       *)
LEMMA PastIsFinite ==
    ASSUME NEW r
    PROVE  IsFiniteSet(PastCall(r)) /\ Cardinality(PastCall(r)) \in Nat
<1>1. IsFiniteSet(GIds)
  <2>1. 1 \in Int /\ MaxGid \in Int
    BY SchedulerAssumption
  <2>. QED
    BY <2>1, FS_Interval DEF GIds
<1>2. PastCall(r) \in SUBSET GIds
  BY DEF PastCall
<1>3. IsFiniteSet(PastCall(r))
  BY <1>1, <1>2, FS_Subset
<1>. QED
  BY <1>3, FS_CardinalityType

LEMMA OneMorePast ==
    ASSUME NEW g \in GIds, step \in [GIds -> {"before", "in", "past"}], step[g] # "past",
           step' = [step EXCEPT ![g] = "past"]
    PROVE  /\ Cardinality(PastCall(Role[g])') = Cardinality(PastCall(Role[g])) + 1
           /\ \A r : r # Role[g] => PastCall(r)' = PastCall(r)
<1>1. step'[g] = "past" /\ \A h \in GIds : h # g => step'[h] = step[h]
  OBVIOUS
<1>2. PastCall(Role[g])' = PastCall(Role[g]) \cup {g} /\ g \notin PastCall(Role[g])
  BY <1>1 DEF PastCall
<1>3. \A r : r # Role[g] => PastCall(r)' = PastCall(r)
  BY <1>1 DEF PastCall
<1>. QED
  BY <1>2, <1>3, PastIsFinite, FS_AddElement

LEMMA AccountsAre ==
    SendsAccounted <=>
        Cardinality(PastCall("send")) = Cardinality(PastCall("recv")) + Len(buffer)
  BY DEF SendsAccounted, PastCall

-----------------------------------------------------------------------------
LEMMA RuntimeInitInv == RuntimeInit => CallsInv
<1>1. SUFFICES ASSUME RuntimeInit PROVE CallsInv
  OBVIOUS
<1>2. Inv
  BY <1>1, InitInv DEF RuntimeInit
<1>3. buffer = <<>> /\ Waiting = {} /\ Senders = {} /\ Receivers = {}
  BY <1>1 DEF RuntimeInit, C!Init, Waiting, Senders, Receivers
<1>4. ChanTells
  BY <1>1, <1>3 DEF RuntimeInit, C!Init, ChanTells
<1>5. StepsTell
  BY <1>1, <1>3 DEF RuntimeInit, StepsTell
<1>6. WaitingIsRunning
  BY <1>1 DEF RuntimeInit, Init, C!Init, WaitingIsRunning, Parked
<1>7. SendsAccounted
  <2>1. \A r : PastCall(r) = {}
    BY <1>1 DEF RuntimeInit, PastCall
  <2>2. Cardinality(PastCall("send")) = 0 /\ Cardinality(PastCall("recv")) = 0
    BY <2>1, FS_EmptySet
  <2>. QED
    BY <1>3, <2>2, AccountsAre
<1>. QED
  BY <1>2, <1>4, <1>5, <1>6, <1>7 DEF CallsInv

(* Steps of the scheduler alone: the channel and the goroutines' calls are *)
(* as they were.                                                           *)
LEMMA ChanAsItWas ==
    ASSUME CallsInv, UNCHANGED <<chanVars, step>>
    PROVE  /\ ChanTells' /\ SendsAccounted'
           /\ Waiting' = Waiting /\ Senders' = Senders /\ Receivers' = Receivers
<1>1. UNCHANGED <<buffer, closed, sendCond, recvCond, sendWoken, recvWoken, sending>>
  BY DEF chanVars
<1>2. ChanTells'
  BY <1>1 DEF CallsInv, ChanTells, Waiting, Senders, Receivers
<1>3. SendsAccounted'
  BY <1>1 DEF CallsInv, SendsAccounted
<1>. QED
  BY <1>1, <1>2, <1>3 DEF Waiting, Senders, Receivers

(* A worker waits exactly while it runs a goroutine that is in its call.   *)
LEMMA WaitingRuns ==
    WaitingIsRunning <=> \A w \in Workers : w \in Waiting <=> pc[w] = "run" /\ step[held[w]] = "in"
  BY DEF WaitingIsRunning, Waiting, Senders, Receivers, Parked

LEMMA ControlKeepsInv == CallsInv /\ Control => CallsInv'
<1>1. SUFFICES ASSUME CallsInv, Control PROVE CallsInv'
  OBVIOUS
<1>2. Inv'
  BY <1>1, NextKeepsInv DEF CallsInv, Control, Next
<1>3. /\ ChanTells' /\ SendsAccounted' /\ step' = step
      /\ Waiting' = Waiting /\ Senders' = Senders /\ Receivers' = Receivers
  BY <1>1, ChanAsItWas DEF Control
<1>4. held' = held /\ \A w \in Workers : pc[w] = "run" <=> pc'[w] = "run"
  <2>1. CASE Start
    BY <1>1, <2>1 DEF CallsInv, Inv, PcTells, Start
  <2>2. CASE Submit \/ DropStarts \/ DropEnds
    BY <2>2 DEF Submit, DropStarts, DropEnds
  <2>. QED
    BY <1>1, <2>1, <2>2 DEF Control
<1>5. \A g \in GIds : state'[g] \in {"Absent", "Runnable"} => state[g] \in {"Absent", "Runnable"}
  <2>1. CASE Submit
    <3>1. nextGid \in GIds /\ state[nextGid] = "Absent"
      BY <1>1, <2>1, SchedulerAssumption DEF CallsInv, Inv, StateTellsPlace, Submit, GIds
    <3>2. \A g \in GIds : g # nextGid => state'[g] = state[g]
      BY <1>1, <2>1 DEF CallsInv, Inv, TypeOK, Submit
    <3>. QED
      BY <3>1, <3>2
  <2>2. CASE Start \/ DropStarts \/ DropEnds
    BY <2>2 DEF Start, DropStarts, DropEnds
  <2>. QED
    BY <1>1, <2>1, <2>2 DEF Control
<1>6. StepsTell'
  BY <1>1, <1>3, <1>4, <1>5 DEF CallsInv, StepsTell
<1>7. WaitingIsRunning'
  <2>1. \A v \in Workers : v \in Waiting <=> pc[v] = "run" /\ step[held[v]] = "in"
    BY <1>1, WaitingRuns DEF CallsInv
  <2>2. \A v \in Workers : v \in Waiting' <=> pc'[v] = "run" /\ step'[held'[v]] = "in"
    BY <1>3, <1>4, <2>1
  <2>. QED
    BY <2>2 DEF WaitingIsRunning, Waiting, Senders, Receivers, Parked
<1>. QED
  BY <1>2, <1>3, <1>6, <1>7 DEF CallsInv

(* A worker that looks for work, or begins a goroutine, does not wait: it  *)
(* holds nothing, or a goroutine that is before its call.                  *)
LEMMA DispatchKeepsInv ==
    ASSUME CallsInv, NEW w \in Workers, Dispatch(w) PROVE CallsInv'
<1>1. Inv'
  BY NextKeepsInv DEF CallsInv, Dispatch, Next, WorkerStep
<1>2. /\ ChanTells' /\ SendsAccounted' /\ step' = step
      /\ Waiting' = Waiting /\ Senders' = Senders /\ Receivers' = Receivers
  BY ChanAsItWas DEF Dispatch
<1>3. w \notin Waiting /\ pc[w] # "run"
  BY WaitingRuns DEF CallsInv, Dispatch, TestStop, PopGid, TakeTask
<1>4. \A v \in Workers : v # w => pc'[v] = pc[v] /\ held'[v] = held[v]
  BY DEF CallsInv, Inv, TypeOK, Dispatch, TestStop, PopGid, TakeTask, Goto
<1>5. /\ \A g \in GIds : state'[g] \in {"Absent", "Runnable"} => state[g] \in {"Absent", "Runnable"}
      /\ pc'[w] = "run" => held'[w] \in GIds /\ step[held'[w]] = "before"
  <2>1. CASE TestStop(w) \/ PopGid(w)
    <3>1. state' = state /\ pc'[w] # "run"
      BY <2>1 DEF CallsInv, Inv, TypeOK, TestStop, PopGid, Goto
    <3>. QED
      BY <3>1
  <2>2. CASE TakeTask(w)
    <3>1. /\ held[w] \in GIds /\ state[held[w]] = "Runnable"
          /\ held' = [held EXCEPT ![w] = held[w]]
      BY <2>2, TakeTaskFindsTask DEF CallsInv
    <3>2. state' = [state EXCEPT ![held[w]] = "Running"]
      BY <2>2 DEF TakeTask
    <3>3. held'[w] = held[w] /\ \A g \in GIds : g # held[w] => state'[g] = state[g]
      BY <3>1, <3>2 DEF CallsInv, Inv, TypeOK
    <3>4. step[held[w]] = "before"
      BY <3>1 DEF CallsInv, StepsTell
    <3>. QED
      BY <3>1, <3>3, <3>4
  <2>. QED
    BY <2>1, <2>2 DEF Dispatch
<1>6. StepsTell'
  <2>1. \A v \in Waiting : v \in Workers /\ v # w
    BY <1>3 DEF CallsInv, ChanTells
  <2>2. \A v \in Senders \cup Receivers : held'[v] = held[v]
    BY <1>4, <2>1 DEF Waiting
  <2>. QED
    BY <1>2, <1>5, <2>2 DEF CallsInv, StepsTell
<1>7. WaitingIsRunning'
  <2>1. \A v \in Workers : v \in Waiting <=> pc[v] = "run" /\ step[held[v]] = "in"
    BY WaitingRuns DEF CallsInv
  <2>2. \A v \in Workers : v \in Waiting' <=> pc'[v] = "run" /\ step'[held'[v]] = "in"
    BY <1>2, <1>3, <1>4, <1>5, <2>1
  <2>. QED
    BY <2>2 DEF WaitingIsRunning, Waiting, Senders, Receivers, Parked
<1>. QED
  BY <1>1, <1>2, <1>6, <1>7 DEF CallsInv

(* A goroutine whose call is over leaves its worker.                       *)
LEMMA CallEndsKeepsInv ==
    ASSUME CallsInv, NEW w \in Workers, CallEnds(w) PROVE CallsInv'
<1>1. Inv'
  BY NextKeepsInv DEF CallsInv, CallEnds, Next, WorkerStep
<1>2. /\ ChanTells' /\ SendsAccounted' /\ step' = step
      /\ Waiting' = Waiting /\ Senders' = Senders /\ Receivers' = Receivers
  BY ChanAsItWas DEF CallEnds
<1>3. w \notin Waiting
  BY WaitingRuns DEF CallsInv, CallEnds
<1>4. pc'[w] = "test" /\ \A v \in Workers : v # w => pc'[v] = pc[v] /\ held'[v] = held[v]
  BY DEF CallsInv, Inv, TypeOK, CallEnds, TaskReturns, Goto
<1>5. \A g \in GIds : state'[g] \in {"Absent", "Runnable"} => state[g] \in {"Absent", "Runnable"}
  <2>1. state' = [state EXCEPT ![held[w]] = "Done"]
    BY DEF CallEnds, TaskReturns
  <2>. QED
    BY <2>1 DEF CallsInv, Inv, TypeOK
<1>6. StepsTell'
  <2>1. \A v \in Senders \cup Receivers : held'[v] = held[v]
    BY <1>3, <1>4 DEF CallsInv, ChanTells, Waiting
  <2>. QED
    BY <1>2, <1>5, <2>1 DEF CallsInv, StepsTell
<1>7. WaitingIsRunning'
  <2>1. \A v \in Workers : v \in Waiting <=> pc[v] = "run" /\ step[held[v]] = "in"
    BY WaitingRuns DEF CallsInv
  <2>2. \A v \in Workers : v \in Waiting' <=> pc'[v] = "run" /\ step'[held'[v]] = "in"
    BY <1>2, <1>3, <1>4, <2>1
  <2>. QED
    BY <2>2 DEF WaitingIsRunning, Waiting, Senders, Receivers, Parked
<1>. QED
  BY <1>1, <1>2, <1>6, <1>7 DEF CallsInv

-----------------------------------------------------------------------------
(* What the channel's operations do to the buffer and to who waits.        *)

(* A notification moves a worker within its side of the channel.           *)
LEMMA SpuriousKeepsInv ==
    ASSUME CallsInv, NEW w \in Workers, SpuriousWakeup(w) PROVE CallsInv'
<1>1. UNCHANGED schedVars /\ UNCHANGED <<buffer, closed, sending, step>>
  BY DEF SpuriousWakeup, C!SpuriousWakeup, C!shared
<1>2. Inv'
  <2>1. UNCHANGED vars
    BY <1>1 DEF schedVars, vars, inner, pool
  <2>. QED
    BY <2>1, NextKeepsInv DEF CallsInv
<1>3. /\ Senders' = Senders /\ Receivers' = Receivers
      /\ sendCond' \cap sendWoken' = {} /\ recvCond' \cap recvWoken' = {}
  BY DEF CallsInv, ChanTells, SpuriousWakeup, C!SpuriousWakeup, Senders, Receivers
<1>4. Waiting' = Waiting
  BY <1>3 DEF Waiting
<1>5. ChanTells'
  BY <1>1, <1>3, <1>4 DEF CallsInv, ChanTells
<1>6. StepsTell'
  BY <1>1, <1>3 DEF CallsInv, StepsTell, schedVars
<1>7. WaitingIsRunning'
  <2>1. \A v \in Workers : v \in Waiting <=> pc[v] = "run" /\ step[held[v]] = "in"
    BY WaitingRuns DEF CallsInv
  <2>2. \A v \in Workers : v \in Waiting' <=> pc'[v] = "run" /\ step'[held'[v]] = "in"
    BY <1>1, <1>4, <2>1 DEF schedVars
  <2>. QED
    BY <2>2 DEF WaitingIsRunning, Waiting, Senders, Receivers, Parked
<1>8. SendsAccounted'
  BY <1>1 DEF CallsInv, SendsAccounted
<1>. QED
  BY <1>2, <1>5, <1>6, <1>7, <1>8 DEF CallsInv

(* What every critical section of a call leaves.                           *)
CallLeaves(w) ==
    /\ UNCHANGED schedVars /\ closed' = closed
    /\ buffer' \in Seq({Value, None}) /\ sending' \in [Workers -> {Value, None}]
    /\ sendCond' \cap sendWoken' = {} /\ recvCond' \cap recvWoken' = {}
    /\ Senders' \ {w} = Senders \ {w} /\ Receivers' \ {w} = Receivers \ {w}

\* The call waits, on the side that r names.
CallWaits(w, r) ==
    /\ w \in Parked' /\ buffer' = buffer
    /\ IF r = "send" THEN w \in Senders' /\ w \notin Receivers'
                     ELSE w \in Receivers' /\ w \notin Senders'

\* The call is over: a value more, or a value less, in the buffer.
CallDone(w, r) ==
    /\ w \notin Waiting'
    /\ IF r = "send" THEN Len(buffer') = Len(buffer) + 1
                     ELSE Len(buffer) = Len(buffer') + 1

LEMMA PushEffect ==
    ASSUME CallsInv, NEW w \in Workers, NEW v \in {Value, None}, C!Push(w, v, "void"),
           w \notin sendCond, w \notin Receivers, sendWoken' = sendWoken \ {w},
           sending' \in [Workers -> {Value, None}], UNCHANGED schedVars
    PROVE  CallLeaves(w) /\ CallDone(w, "send")
<1>1. /\ buffer' = Append(buffer, v) /\ closed' = closed /\ sendCond' = sendCond
      /\ buffer \in Seq({Value, None})
  BY DEF C!Push, CallsInv, ChanTells
<1>2. buffer' \in Seq({Value, None}) /\ Len(buffer') = Len(buffer) + 1
  BY <1>1
<1>3. PICK x \in C!NotifyOne(recvCond) : recvCond' = recvCond \ x /\ recvWoken' = recvWoken \cup x
  BY DEF C!Push, C!NotifyReceiver
<1>4. x \subseteq recvCond
  BY DEF C!NotifyOne
<1>5. recvCond' \cap recvWoken' = {} /\ Receivers' = Receivers
  BY <1>3, <1>4 DEF CallsInv, ChanTells, Receivers
<1>6. sendCond' \cap sendWoken' = {} /\ Senders' = Senders \ {w}
  BY <1>1 DEF CallsInv, ChanTells, Senders
<1>. QED
  BY <1>1, <1>2, <1>5, <1>6 DEF CallLeaves, CallDone, Waiting

LEMMA PopEffect ==
    ASSUME CallsInv, NEW w \in Workers, C!Pop(w), buffer # <<>>,
           w \notin recvCond, w \notin Senders, recvWoken' = recvWoken \ {w},
           UNCHANGED schedVars
    PROVE  CallLeaves(w) /\ CallDone(w, "recv")
<1>1. /\ buffer' = Tail(buffer) /\ closed' = closed /\ recvCond' = recvCond
      /\ sending' = sending /\ buffer \in Seq({Value, None})
  BY DEF C!Pop, CallsInv, ChanTells
<1>2. buffer' \in Seq({Value, None}) /\ Len(buffer) = Len(buffer') + 1
  BY <1>1
<1>3. PICK x \in C!NotifyOne(sendCond) : sendCond' = sendCond \ x /\ sendWoken' = sendWoken \cup x
  BY DEF C!Pop, C!NotifySender
<1>4. x \subseteq sendCond
  BY DEF C!NotifyOne
<1>5. sendCond' \cap sendWoken' = {} /\ Senders' = Senders
  BY <1>3, <1>4 DEF CallsInv, ChanTells, Senders
<1>6. recvCond' \cap recvWoken' = {} /\ Receivers' = Receivers \ {w}
  BY <1>1 DEF CallsInv, ChanTells, Receivers
<1>. QED
  BY <1>1, <1>2, <1>5, <1>6 DEF CallLeaves, CallDone, Waiting, CallsInv, ChanTells

LEMMA SendEffect ==
    ASSUME CallsInv, NEW w \in Workers, C!Send(w, Value), UNCHANGED schedVars
    PROVE  CallLeaves(w) /\ (CallWaits(w, "send") \/ CallDone(w, "send"))
<1>1. ~closed /\ w \notin Senders /\ w \notin Receivers /\ w \notin sendWoken /\ w \notin sendCond
  BY DEF CallsInv, ChanTells, C!Send, C!Idle, Senders, Receivers
<1>2. CASE /\ sendCond' = sendCond \cup {w} /\ sending' = [sending EXCEPT ![w] = Value]
           /\ UNCHANGED <<buffer, closed, recvCond, sendWoken, recvWoken>>
  BY <1>1, <1>2 DEF CallsInv, ChanTells, CallLeaves, CallWaits, Senders, Receivers, Parked
<1>3. CASE C!Push(w, Value, "void") /\ UNCHANGED <<sendWoken, sending>>
  <2>1. sendWoken' = sendWoken \ {w} /\ sending' \in [Workers -> {Value, None}]
    BY <1>1, <1>3 DEF CallsInv, ChanTells
  <2>. QED
    BY <1>1, <1>3, <2>1, PushEffect
<1>. QED
  BY <1>1, <1>2, <1>3 DEF C!Send, C!shared

LEMMA SendResumesEffect ==
    ASSUME CallsInv, NEW w \in Workers, C!SendResumes(w), UNCHANGED schedVars
    PROVE  /\ CallLeaves(w) /\ w \in Senders
           /\ CallWaits(w, "send") \/ CallDone(w, "send")
<1>1. ~closed /\ w \in Senders /\ w \notin Receivers /\ w \in sendWoken /\ w \notin sendCond
  BY DEF CallsInv, ChanTells, C!SendResumes, Senders
<1>2. CASE /\ sendCond' = sendCond \cup {w} /\ sendWoken' = sendWoken \ {w}
           /\ UNCHANGED <<buffer, closed, recvCond, recvWoken, sending>>
  BY <1>1, <1>2 DEF CallsInv, ChanTells, CallLeaves, CallWaits, Senders, Receivers, Parked
<1>3. CASE /\ sendWoken' = sendWoken \ {w} /\ sending' = [sending EXCEPT ![w] = None]
           /\ C!Push(w, sending[w], "void")
  <2>1. sending[w] \in {Value, None} /\ sending' \in [Workers -> {Value, None}]
    BY <1>3 DEF CallsInv, ChanTells
  <2>. QED
    BY <1>1, <1>3, <2>1, PushEffect
<1>. QED
  BY <1>1, <1>2, <1>3 DEF C!SendResumes, C!shared

LEMMA RecvEffect ==
    ASSUME CallsInv, NEW w \in Workers, C!Recv(w), UNCHANGED schedVars
    PROVE  /\ CallLeaves(w) /\ w \notin Senders
           /\ CallWaits(w, "recv") \/ CallDone(w, "recv")
<1>1. ~closed /\ w \notin Senders /\ w \notin recvCond /\ recvWoken' = recvWoken \ {w}
  BY DEF CallsInv, ChanTells, C!Recv, C!Idle, Senders, Receivers
<1>2. CASE /\ recvCond' = recvCond \cup {w}
           /\ UNCHANGED <<buffer, closed, sendCond, sendWoken, sending>>
  BY <1>1, <1>2 DEF CallsInv, ChanTells, CallLeaves, CallWaits, Senders, Receivers, Parked
<1>3. CASE buffer # <<>> /\ C!Pop(w)
  BY <1>1, <1>3, PopEffect
<1>. QED
  BY <1>1, <1>2, <1>3 DEF C!Recv, C!shared, C!Empty

-----------------------------------------------------------------------------
(* A call, or its way back from the condition variable, is one step of one *)
(* goroutine: in the call while its worker waits, past it with one value   *)
(* more or less in the buffer.                                             *)
LEMMA CallEffect ==
    ASSUME CallsInv, NEW w \in Workers, Call(w) \/ Resume(w)
    PROVE  /\ pc[w] = "run" /\ held[w] \in GIds /\ step[held[w]] # "past"
           /\ CallLeaves(w)
           /\ step' = [step EXCEPT ![held[w]] = IF w \in Parked' THEN "in" ELSE "past"]
           /\ CallWaits(w, Role[held[w]]) \/ CallDone(w, Role[held[w]])
<1>1. /\ UNCHANGED schedVars
      /\ step' = [step EXCEPT ![held[w]] = IF w \in Parked' THEN "in" ELSE "past"]
  BY DEF Call, Resume, Proceed
<1>2. CASE Call(w)
  <2>1. pc[w] = "run" /\ held[w] \in GIds /\ step[held[w]] = "before"
    BY <1>2 DEF CallsInv, Inv, PcTells, Call
  <2>2. Role[held[w]] \in {"send", "recv"}
    BY <2>1, GoroutineAssumption
  <2>3. CASE Role[held[w]] = "send"
    BY <1>1, <1>2, <2>1, <2>3, SendEffect DEF Call
  <2>4. CASE Role[held[w]] = "recv"
    BY <1>1, <1>2, <2>1, <2>4, RecvEffect DEF Call
  <2>. QED
    BY <2>2, <2>3, <2>4
<1>3. CASE Resume(w)
  <2>1. w \in sendWoken \/ w \in recvWoken
    BY <1>3 DEF Resume, C!SendResumes
  <2>2. pc[w] = "run" /\ step[held[w]] = "in"
    BY <2>1, WaitingRuns DEF CallsInv, Waiting, Senders, Receivers
  <2>3. held[w] \in GIds
    BY <2>2 DEF CallsInv, Inv, PcTells
  <2>4. CASE C!SendResumes(w)
    <3>1. w \in Senders /\ CallLeaves(w) /\ (CallWaits(w, "send") \/ CallDone(w, "send"))
      BY <1>1, <2>4, SendResumesEffect
    <3>2. Role[held[w]] = "send"
      BY <3>1 DEF CallsInv, StepsTell
    <3>. QED
      BY <1>1, <2>2, <2>3, <3>1, <3>2
  <2>5. CASE w \in recvWoken /\ C!Recv(w)
    <3>1. w \in Receivers /\ CallLeaves(w) /\ (CallWaits(w, "recv") \/ CallDone(w, "recv"))
      BY <1>1, <2>5, RecvEffect DEF Receivers
    <3>2. Role[held[w]] = "recv"
      BY <3>1 DEF CallsInv, StepsTell
    <3>. QED
      BY <1>1, <2>2, <2>3, <3>1, <3>2
  <2>. QED
    BY <1>3, <2>4, <2>5 DEF Resume
<1>. QED
  BY <1>2, <1>3

LEMMA CallKeepsInv ==
    ASSUME CallsInv, NEW w \in Workers, Call(w) \/ Resume(w) PROVE CallsInv'
<1>0. PICK g \in GIds : held[w] = g
  BY CallEffect
<1>1. /\ pc[w] = "run" /\ held[w] = g /\ g \in GIds /\ step[g] # "past"
      /\ CallLeaves(w)
      /\ step' = [step EXCEPT ![g] = IF w \in Parked' THEN "in" ELSE "past"]
      /\ CallWaits(w, Role[g]) \/ CallDone(w, Role[g])
  BY <1>0, CallEffect
<1>2. UNCHANGED <<queue, state, hasTask, nextGid, started, stop, pc, held, owner>>
  BY <1>1 DEF CallLeaves, schedVars
<1>3. Role[g] \in {"send", "recv"}
  BY <1>1, GoroutineAssumption
<1>4. Inv'
  <2>1. UNCHANGED vars
    BY <1>2 DEF vars, inner, pool
  <2>. QED
    BY <2>1, NextKeepsInv DEF CallsInv
<1>5. /\ step'[g] = IF w \in Parked' THEN "in" ELSE "past"
      /\ \A h \in GIds : h # g => step'[h] = step[h]
      /\ step' \in [GIds -> {"before", "in", "past"}]
  BY <1>1 DEF CallsInv, StepsTell
<1>6. w \in Parked' <=> w \in Waiting'
  BY <1>1 DEF CallWaits, CallDone, Parked, Waiting, Senders, Receivers
<1>7. ChanTells'
  <2>1. Senders' \cap Receivers' = {}
    <3>1. ~(w \in Senders' /\ w \in Receivers')
      BY <1>1 DEF CallWaits, CallDone, Waiting
    <3>. QED
      BY <1>1, <3>1 DEF CallsInv, ChanTells, CallLeaves
  <2>2. Waiting' \subseteq Workers
    BY <1>1 DEF CallsInv, ChanTells, CallLeaves, Waiting
  <2>. QED
    BY <1>1, <2>1, <2>2 DEF CallsInv, ChanTells, CallLeaves
<1>8. StepsTell'
  <2>1. state[g] = "Running"
    BY <1>1 DEF CallsInv, Inv, StateTellsPlace, InHand
  <2>2. \A h \in GIds : state[h] \in {"Absent", "Runnable"} => h # g /\ step[h] = "before"
    BY <2>1 DEF CallsInv, StepsTell
  <2>3. /\ w \in Senders' => Role[g] = "send"
        /\ w \in Receivers' => Role[g] = "recv"
    BY <1>1, <1>3 DEF CallWaits, CallDone, Waiting
  <2>4. /\ \A v \in Senders' : v # w => Role[held[v]] = "send"
        /\ \A v \in Receivers' : v # w => Role[held[v]] = "recv"
    BY <1>1 DEF CallsInv, StepsTell, CallLeaves
  <2>. QED
    BY <1>0, <1>2, <1>5, <2>2, <2>3, <2>4 DEF StepsTell
<1>9. WaitingIsRunning'
  <2>1. \A v \in Workers : v \in Waiting <=> pc[v] = "run" /\ step[held[v]] = "in"
    BY WaitingRuns DEF CallsInv
  <2>2. \A v \in Workers : v # w => (v \in Waiting' <=> v \in Waiting)
    BY <1>1 DEF CallLeaves, Waiting
  <2>3. \A v \in Workers : v # w /\ pc[v] = "run" => held[v] \in GIds /\ held[v] # g
    BY <1>1 DEF CallsInv, Inv, PcTells, OneHolder, Holds
  <2>4. \A v \in Workers : v \in Waiting' <=> pc'[v] = "run" /\ step'[held'[v]] = "in"
    BY <1>1, <1>2, <1>5, <1>6, <2>1, <2>2, <2>3
  <2>. QED
    BY <2>4 DEF WaitingIsRunning, Waiting, Senders, Receivers, Parked
<1>10. SendsAccounted'
  <2>1. Cardinality(PastCall("send")) = Cardinality(PastCall("recv")) + Len(buffer)
    BY AccountsAre DEF CallsInv
  <2>2. /\ Cardinality(PastCall("send")) \in Nat /\ Cardinality(PastCall("recv")) \in Nat
        /\ Len(buffer) \in Nat /\ Len(buffer') \in Nat
    BY <1>7, PastIsFinite DEF CallsInv, ChanTells
  <2>3. Cardinality(PastCall("send")') = Cardinality(PastCall("recv")') + Len(buffer')
    <3>1. CASE CallWaits(w, Role[g])
      <4>1. w \in Parked' /\ buffer' = buffer
        BY <3>1 DEF CallWaits
      <4>2. step'[g] = "in"
        BY <1>5, <4>1
      <4>3. \A r : PastCall(r)' = PastCall(r)
        BY <1>1, <1>5, <4>2 DEF PastCall
      <4>. QED
        BY <2>1, <4>1, <4>3
    <3>2. CASE CallDone(w, Role[g])
      <4>1. step' = [step EXCEPT ![g] = "past"]
        BY <1>1, <1>6, <3>2 DEF CallDone
      <4>2. /\ Cardinality(PastCall(Role[g])') = Cardinality(PastCall(Role[g])) + 1
            /\ \A r : r # Role[g] => PastCall(r)' = PastCall(r)
        BY <1>1, <4>1, OneMorePast DEF CallsInv, StepsTell
      <4>3. CASE Role[g] = "send"
        BY <2>1, <2>2, <3>2, <4>2, <4>3 DEF CallDone
      <4>4. CASE Role[g] = "recv"
        BY <2>1, <2>2, <3>2, <4>2, <4>4 DEF CallDone
      <4>. QED
        BY <1>3, <4>3, <4>4
    <3>. QED
      BY <1>1, <3>1, <3>2
  <2>. QED
    BY <2>3 DEF SendsAccounted, PastCall
<1>. QED
  BY <1>4, <1>7, <1>8, <1>9, <1>10 DEF CallsInv

LEMMA StepKeepsCallsInv == CallsInv /\ [RuntimeNext]_runtimeVars => CallsInv'
<1>1. SUFFICES ASSUME CallsInv, [RuntimeNext]_runtimeVars PROVE CallsInv'
  OBVIOUS
<1>2. CASE Control
  BY <1>1, <1>2, ControlKeepsInv
<1>3. ASSUME NEW w \in Workers, Works(w) \/ SpuriousWakeup(w) PROVE CallsInv'
  BY <1>1, <1>3, DispatchKeepsInv, CallKeepsInv, CallEndsKeepsInv, SpuriousKeepsInv DEF Works
<1>4. CASE UNCHANGED runtimeVars
  <2>1. UNCHANGED <<chanVars, step>> /\ UNCHANGED schedVars
    BY <1>4 DEF runtimeVars
  <2>2. Inv'
    <3>1. UNCHANGED vars
      BY <2>1 DEF schedVars, vars, inner, pool
    <3>. QED
      BY <1>1, <3>1, NextKeepsInv DEF CallsInv
  <2>3. ChanTells' /\ SendsAccounted' /\ Senders' = Senders /\ Receivers' = Receivers
    BY <1>1, <2>1, ChanAsItWas
  <2>4. StepsTell'
    BY <1>1, <2>1, <2>3 DEF CallsInv, StepsTell, schedVars
  <2>5. WaitingIsRunning'
    BY <1>1, <2>1 DEF CallsInv, WaitingIsRunning, Parked, schedVars, chanVars
  <2>. QED
    BY <2>2, <2>3, <2>4, <2>5 DEF CallsInv
<1>. QED
  BY <1>1, <1>2, <1>3, <1>4 DEF RuntimeNext

LEMMA CallsInvariance == RuntimeSpec => []CallsInv
<1>. QED
  BY RuntimeInitInv, StepKeepsCallsInv, PTL DEF RuntimeSpec

(* A worker is parked or woken exactly while the goroutine it runs is in   *)
(* its call, and the values are accounted for: each send past its call is  *)
(* in the buffer or was received by a goroutine past its recv.             *)
THEOREM CallsAreAccounted == RuntimeSpec => []CallsAccounted
<1>1. CallsInv => CallsAccounted
  BY DEF CallsInv, CallsAccounted
<1>. QED
  BY <1>1, CallsInvariance, PTL
=============================================================================
