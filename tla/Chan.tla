-------------------------------- MODULE Chan --------------------------------
(***************************************************************************)
(* chan<T>: hc-rt/src/interp/chan.rs over value/models/chan_state.rs, the  *)
(* same code in hc/src/ir/builtin.rs (call_sync_method_ir).                *)
(*                                                                         *)
(* Every method runs under the one mutex `inner`; a blocked send waits on  *)
(* `send_cond`, a blocked recv on `recv_cond`.  A step is one critical     *)
(* section: from taking the mutex to releasing it, or to the wait that     *)
(* releases it.  A wait is over when a notification (or a spurious         *)
(* wake-up, which std::sync::Condvar allows) removes the thread from the   *)
(* condition variable; the thread then competes for the mutex again, and   *)
(* other threads may take it first.                                        *)
(***************************************************************************)
EXTENDS Naturals, Sequences, FiniteSets

CONSTANTS Threads,   \* the threads that share the channel
          Values,    \* the values that can be sent
          Capacity,  \* ChanState::capacity
          None,      \* "not inside a send"
          MaxSends   \* bound: number of send/try_send calls that start

ASSUME ChanAssumption ==
    /\ IsFiniteSet(Threads)
    /\ Capacity \in Nat
    /\ MaxSends \in Nat
    /\ None \notin Values
    /\ Values \cap {"none", "void", "Closed", "true", "false", "null"} = {}

VARIABLES queue,     \* ChanInner::queue
          closed,    \* ChanInner::closed
          sendCond,  \* the threads parked in send_cond.wait
          recvCond,  \* the threads parked in recv_cond.wait
          sendWoken, \* removed from send_cond, not yet holding the mutex
          recvWoken, \* removed from recv_cond, not yet holding the mutex
          sending,   \* sending[t]: the `v` of t's send that had to wait
          ret,       \* ret[t]: what t's latest completed call returned
          accepted,  \* history: the values pushed, in order
          delivered, \* history: the values popped, in order
          sends      \* number of send calls started, see MaxSends

shared == <<queue, closed>>
waits  == <<sendCond, recvCond, sendWoken, recvWoken>>
vars   == <<shared, waits, sending, ret, accepted, delivered, sends>>

Outcomes == Values \cup {"none", "void", "Closed", "true", "false", "null"}

Idle == Threads \ (sendCond \cup recvCond \cup sendWoken \cup recvWoken)

(* chan.init(alloc, cap): an empty open queue, two fresh condvars.         *)
Init ==
    /\ queue = <<>>
    /\ closed = FALSE
    /\ sendCond = {} /\ recvCond = {} /\ sendWoken = {} /\ recvWoken = {}
    /\ sending = [t \in Threads |-> None]
    /\ ret = [t \in Threads |-> "none"]
    /\ accepted = <<>> /\ delivered = <<>>
    /\ sends = 0

Full  == Len(queue) >= Capacity
Empty == queue = <<>>

Return(t, r) == ret' = [ret EXCEPT ![t] = r]

(* Condvar::notify_one: wakes one parked thread, which one is not known,   *)
(* or none when nobody waits.                                              *)
NotifyOne(cond) == IF cond = {} THEN {{}} ELSE {{t} : t \in cond}

(* Mutant: notify only when the buffer was empty before the push.          *)
NotifyReceiverIfWasEmpty ==
    IF Empty
    THEN \E w \in NotifyOne(recvCond) :
             recvCond' = recvCond \ w /\ recvWoken' = recvWoken \cup w
    ELSE UNCHANGED <<recvCond, recvWoken>>

NotifyReceiver ==
    \E w \in NotifyOne(recvCond) :
        /\ recvCond' = recvCond \ w
        /\ recvWoken' = recvWoken \cup w

(* Mutant: notify only when the buffer was full before the pop.            *)
NotifySenderIfWasFull(others) ==
    IF Full
    THEN \E w \in NotifyOne(sendCond) :
             sendCond' = sendCond \ w /\ sendWoken' = others \cup w
    ELSE sendCond' = sendCond /\ sendWoken' = others

NotifySender(others) ==
    \E w \in NotifyOne(sendCond) :
        /\ sendCond' = sendCond \ w
        /\ sendWoken' = others \cup w

-----------------------------------------------------------------------------
(* push_back, recv_cond.notify_one, return r.                              *)
Push(t, v, r) ==
    /\ queue' = Append(queue, v)
    /\ accepted' = Append(accepted, v)
    /\ NotifyReceiver
    /\ Return(t, r)
    /\ UNCHANGED <<closed, sendCond, delivered>>

(* Mutant: a pop notifies nobody.                                          *)
PopSilently(t) ==
    /\ queue' = Tail(queue)
    /\ delivered' = Append(delivered, Head(queue))
    /\ Return(t, Head(queue))
    /\ UNCHANGED <<closed, sendCond, sendWoken, recvCond, accepted, sending, sends>>

(* pop_front, send_cond.notify_one, return the value.                      *)
Pop(t) ==
    /\ queue' = Tail(queue)
    /\ delivered' = Append(delivered, Head(queue))
    /\ NotifySender(sendWoken)
    /\ Return(t, Head(queue))
    /\ UNCHANGED <<closed, recvCond, accepted, sending, sends>>

StartsSend == sends < MaxSends /\ sends' = sends + 1

(* send, first critical section.                                           *)
Send(t, v) ==
    /\ t \in Idle
    /\ StartsSend
    /\ \/ /\ closed
          /\ Return(t, "Closed")
          /\ UNCHANGED <<shared, waits, sending, accepted, delivered>>
       \/ /\ ~closed /\ Full
          /\ sendCond' = sendCond \cup {t}
          /\ sending' = [sending EXCEPT ![t] = v]
          /\ UNCHANGED <<shared, recvCond, sendWoken, recvWoken, ret, accepted, delivered>>
       \/ /\ ~closed /\ ~Full
          /\ Push(t, v, "void")
          /\ UNCHANGED <<sendWoken, sending>>

(* send, back from send_cond.wait with the mutex: the while condition and  *)
(* the check after the loop.                                               *)
SendResumes(t) ==
    /\ t \in sendWoken
    /\ \/ /\ Full /\ ~closed
          /\ sendCond' = sendCond \cup {t}
          /\ sendWoken' = sendWoken \ {t}
          /\ UNCHANGED <<shared, recvCond, recvWoken, sending, ret, accepted, delivered>>
       \/ /\ closed
          /\ sendWoken' = sendWoken \ {t}
          /\ sending' = [sending EXCEPT ![t] = None]
          /\ Return(t, "Closed")
          /\ UNCHANGED <<shared, sendCond, recvCond, recvWoken, accepted, delivered>>
       \/ /\ ~closed /\ ~Full
          /\ sendWoken' = sendWoken \ {t}
          /\ sending' = [sending EXCEPT ![t] = None]
          /\ Push(t, sending[t], "void")
    /\ UNCHANGED sends

TrySend(t, v) ==
    /\ t \in Idle
    /\ StartsSend
    /\ \/ /\ closed \/ Full
          /\ Return(t, "false")
          /\ UNCHANGED <<shared, waits, sending, accepted, delivered>>
       \/ /\ ~closed /\ ~Full
          /\ Push(t, v, "true")
          /\ UNCHANGED <<sendWoken, sending>>

(* Mutant: closed is tested before the buffer.                             *)
RecvClosedFirst(t) ==
    /\ t \in Idle \cup recvWoken
    /\ recvWoken' = recvWoken \ {t}
    /\ IF closed
       THEN /\ Return(t, "Closed")
            /\ UNCHANGED <<shared, sendCond, recvCond, sendWoken, sending, accepted, delivered, sends>>
       ELSE IF Empty
       THEN /\ recvCond' = recvCond \cup {t}
            /\ UNCHANGED <<shared, sendCond, sendWoken, sending, ret, accepted, delivered, sends>>
       ELSE Pop(t)

(* recv: the loop test is the same on entry and after each wait.           *)
Recv(t) ==
    /\ t \in Idle \cup recvWoken
    /\ recvWoken' = recvWoken \ {t}
    /\ \/ /\ Empty /\ ~closed
          /\ recvCond' = recvCond \cup {t}
          /\ UNCHANGED <<shared, sendCond, sendWoken, sending, ret, accepted, delivered, sends>>
       \/ /\ Empty /\ closed
          /\ Return(t, "Closed")
          /\ UNCHANGED <<shared, sendCond, recvCond, sendWoken, sending, accepted, delivered, sends>>
       \/ /\ ~Empty
          /\ Pop(t)

TryRecv(t) ==
    /\ t \in Idle
    /\ \/ /\ Empty
          /\ Return(t, "null")
          /\ UNCHANGED <<shared, waits, sending, accepted, delivered, sends>>
       \/ /\ ~Empty
          /\ Pop(t)
          /\ UNCHANGED recvWoken

(* Mutant of Close: only receivers are notified.                           *)
CloseForgetsSenders(t) ==
    /\ t \in Idle
    /\ closed' = TRUE
    /\ recvCond' = {} /\ recvWoken' = recvWoken \cup recvCond
    /\ Return(t, "void")
    /\ UNCHANGED <<queue, sendCond, sendWoken, sending, accepted, delivered, sends>>

(* close: closed = true, notify_all on both condition variables.           *)
Close(t) ==
    /\ t \in Idle
    /\ closed' = TRUE
    /\ sendCond' = {} /\ sendWoken' = sendWoken \cup sendCond
    /\ recvCond' = {} /\ recvWoken' = recvWoken \cup recvCond
    /\ Return(t, "void")
    /\ UNCHANGED <<queue, sending, accepted, delivered, sends>>

(* A wait may end without a notification.                                  *)
SpuriousWakeup(t) ==
    /\ \/ /\ t \in sendCond
          /\ sendCond' = sendCond \ {t} /\ sendWoken' = sendWoken \cup {t}
          /\ UNCHANGED <<recvCond, recvWoken>>
       \/ /\ t \in recvCond
          /\ recvCond' = recvCond \ {t} /\ recvWoken' = recvWoken \cup {t}
          /\ UNCHANGED <<sendCond, sendWoken>>
    /\ UNCHANGED <<shared, sending, ret, accepted, delivered, sends>>

Next ==
    \E t \in Threads :
        \/ \E v \in Values : Send(t, v) \/ TrySend(t, v)
        \/ SendResumes(t)
        \/ Recv(t) \/ TryRecv(t) \/ Close(t)
        \/ SpuriousWakeup(t)

Spec == Init /\ [][Next]_vars

(* A woken thread eventually gets the mutex: every critical section is     *)
(* finite.  Nothing obliges a thread to call, or a wait to end by itself.  *)
ResumeFairness ==
    \A t \in Threads : WF_vars(SendResumes(t)) /\ WF_vars(t \in recvWoken /\ Recv(t))

FairSpec == Spec /\ ResumeFairness

-----------------------------------------------------------------------------
TypeOK ==
    /\ queue \in Seq(Values) /\ accepted \in Seq(Values) /\ delivered \in Seq(Values)
    /\ closed \in BOOLEAN
    /\ sendCond \in SUBSET Threads /\ recvCond \in SUBSET Threads
    /\ sendWoken \in SUBSET Threads /\ recvWoken \in SUBSET Threads
    /\ sending \in [Threads -> Values \cup {None}]
    /\ ret \in [Threads -> Outcomes]
    /\ sends \in Nat

(* A thread is in at most one place, and it holds a value exactly while    *)
(* its send waits.                                                         *)
OnePlace ==
    /\ sendCond \cap sendWoken = {} /\ sendCond \cap recvCond = {}
    /\ sendCond \cap recvWoken = {} /\ sendWoken \cap recvCond = {}
    /\ sendWoken \cap recvWoken = {} /\ recvCond \cap recvWoken = {}
    /\ \A t \in Threads : sending[t] # None <=> t \in sendCond \cup sendWoken

(* No lost wake-up, receivers: while a thread is parked in recv_cond, each *)
(* buffered value has a woken receiver on its way to it, so a value never  *)
(* lies in the buffer beside receivers that all sleep (chan.rs send/       *)
(* try_send notify one receiver per push, whoever takes the value first).  *)
NoLostReceiverWakeup ==
    recvCond # {} => Len(queue) <= Cardinality(recvWoken)

(* No lost wake-up, senders: while a thread is parked in send_cond, each   *)
(* free slot has a woken sender on its way to it.                          *)
NoLostSenderWakeup ==
    sendCond # {} => Capacity <= Len(queue) + Cardinality(sendWoken)

(* close() reaches everyone: no thread is parked on a closed channel, not  *)
(* even one whose send or recv started while close was running.            *)
ClosedReleasesWaiters == closed => sendCond = {} /\ recvCond = {}

(* The buffer never exceeds the capacity given to chan.init, however many  *)
(* woken and fresh senders race for one slot.                              *)
WithinCapacity == Len(queue) <= Capacity

(* What was accepted is delivered in order, once each, or still buffered:  *)
(* nothing is lost, duplicated or overtaken, and a send that returned      *)
(* Closed or false left nothing behind.                                    *)
FifoConservation == accepted = delivered \o queue

(* A closed channel accepts nothing any more: a sender woken by close      *)
(* never pushes its value into the drained buffer.                         *)
ClosedIsFinal == [][closed => closed' /\ accepted' = accepted]_vars

(* Liveness: after close() every blocked call returns.                     *)
CloseUnblocks ==
    \A t \in Threads : closed ~> t \in Idle

(* Refinement: Chan implements the atomic bounded channel.                 *)
BC == INSTANCE BoundedChannel WITH receiving <- recvCond \cup recvWoken
ImplementsBoundedChannel == BC!FairSpec
=============================================================================
