--------------------------- MODULE GoroutineRuntime ---------------------------
(***************************************************************************)
(* Goroutines that talk over a channel: the GoroutineScheduler and Chan    *)
(* together.  The thread that waits in ChanState's condition variables is  *)
(* the worker itself: chan.rs blocks the OS thread, so a goroutine that    *)
(* waits keeps its worker (GState::Waiting is never assigned).             *)
(*                                                                         *)
(* Each goroutine makes one blocking call, given by Role; the program      *)
(* submits them in the order of their numbers and drops the scheduler when *)
(* it likes.                                                               *)
(***************************************************************************)
EXTENDS GoroutineScheduler

CONSTANTS Capacity,      \* see Chan
          Role,          \* the call of each goroutine, "send" or "recv"
          None, Value    \* see Chan; the one value that is sent

ASSUME GoroutineAssumption ==
    /\ IsFiniteSet(Workers)
    /\ Capacity \in Nat
    /\ Role \in [GIds -> {"send", "recv"}]

VARIABLES buffer, closed, sendCond, recvCond, sendWoken, recvWoken, sending, ret,
          accepted, delivered, sends,
          step     \* each goroutine: before, in or past its call

schedVars   == <<queue, state, hasTask, nextGid, started, stop, pc, held, owner>>
chanVars    == <<buffer, closed, sendCond, recvCond, sendWoken, recvWoken, sending, ret,
                 accepted, delivered, sends>>
runtimeVars == <<schedVars, chanVars, step>>

C == INSTANCE Chan WITH Threads <- Workers, Values <- {Value}, MaxSends <- MaxGid, queue <- buffer

RuntimeInit == Init /\ C!Init /\ step = [g \in GIds |-> "before"]

Parked == sendCond \cup recvCond

-----------------------------------------------------------------------------
(* The program thread and the worker loop, as they are in the scheduler.   *)
Control ==
    /\ Start \/ Submit \/ DropStarts \/ DropEnds
    /\ UNCHANGED <<chanVars, step>>

Dispatch(w) ==
    /\ TestStop(w) \/ PopGid(w) \/ TakeTask(w)
    /\ UNCHANGED <<chanVars, step>>

(* A call is over when its thread is parked no more.                       *)
Proceed(w) ==
    step' = [step EXCEPT ![held[w]] = IF w \in Parked' THEN "in" ELSE "past"]

(* Mutant: the worker of a goroutine that must wait goes on to the next.   *)
CallAbandoned(w) ==
    /\ pc[w] = "run" /\ step[held[w]] = "before"
    /\ IF Role[held[w]] = "send" THEN C!TrySend(w, Value) ELSE C!TryRecv(w)
    /\ step' = [step EXCEPT ![held[w]] = "past"]
    /\ UNCHANGED schedVars

(* The goroutine's call, on the worker's own thread.                       *)
Call(w) ==
    /\ pc[w] = "run" /\ step[held[w]] = "before"
    /\ IF Role[held[w]] = "send" THEN C!Send(w, Value) ELSE C!Recv(w)
    /\ Proceed(w)
    /\ UNCHANGED schedVars

(* Back from the condition variable.                                       *)
Resume(w) ==
    /\ C!SendResumes(w) \/ (w \in recvWoken /\ C!Recv(w))
    /\ Proceed(w)
    /\ UNCHANGED schedVars

SpuriousWakeup(w) == C!SpuriousWakeup(w) /\ UNCHANGED <<schedVars, step>>

(* The task is the call; it is over when the call is.                      *)
CallEnds(w) ==
    /\ pc[w] = "run" /\ step[held[w]] = "past"
    /\ TaskReturns(w)
    /\ UNCHANGED <<chanVars, step>>

Works(w) == Dispatch(w) \/ Call(w) \/ Resume(w) \/ CallEnds(w)

RuntimeNext ==
    \/ Control
    \/ \E w \in Workers : Works(w) \/ SpuriousWakeup(w)

RuntimeSpec == RuntimeInit /\ [][RuntimeNext]_runtimeVars

(* Workers keep running; the program submits all its goroutines.           *)
Submits == (Start \/ Submit) /\ UNCHANGED <<chanVars, step>>
Fairness ==
    /\ \A w \in Workers : WF_runtimeVars(Works(w))
    /\ WF_runtimeVars(Submits)

RuntimeFairSpec == RuntimeSpec /\ Fairness

-----------------------------------------------------------------------------
(* The channel a worker waits in is that of the goroutine it runs: a       *)
(* worker is parked or woken exactly while its goroutine is in the call,   *)
(* and never while it looks for work or has left the pool.                 *)
WaitingIsRunning ==
    \A w \in Workers :
        w \in Parked \cup sendWoken \cup recvWoken
            <=> pc[w] = "run" /\ step[held[w]] = "in"

(* Every value received was sent, by a goroutine that got past its send;   *)
(* every send past its call is buffered or received.                       *)
SendsAccounted ==
    LET past(r) == Cardinality({g \in GIds : step[g] = "past" /\ Role[g] = r})
    IN  past("send") = past("recv") + Len(buffer)

(* Waiting workers and values, each in its place whatever is interleaved.  *)
CallsAccounted == WaitingIsRunning /\ SendsAccounted

(* Liveness: with fewer receivers than workers, and a receiver for every   *)
(* send the buffer cannot hold, all goroutines finish.                     *)
AllFinish == <>(stop \/ \A g \in GIds : state[g] = "Done")
=============================================================================
