--------------------------- MODULE BoundedChannel ---------------------------
(***************************************************************************)
(* What a `chan<T>` promises its users: a bounded FIFO buffer whose        *)
(* operations are atomic.  A blocking call either completes at once or     *)
(* stays pending until the buffer can serve it; nothing is said of locks,  *)
(* condition variables, wake-ups or the order in which pending callers are *)
(* served.  `Chan` is the code; it is shown to implement this module.      *)
(***************************************************************************)
EXTENDS Naturals, Sequences

CONSTANTS Threads,   \* the threads that share the channel
          Values,    \* the values that can be sent
          Capacity,  \* ChanState::capacity
          None       \* "not inside a send"

VARIABLES queue,     \* the buffered values, oldest first
          closed,    \* close() was called
          sending,   \* sending[t]: the value of t's pending send, or None
          receiving, \* the threads whose recv is pending
          ret        \* ret[t]: what t's latest completed call returned

vars == <<queue, closed, sending, receiving, ret>>

Outcomes == Values \cup {"none", "void", "Closed", "true", "false", "null"}

Senders == {t \in Threads : sending[t] # None}
Idle    == (Threads \ Senders) \ receiving

TypeOK ==
    /\ queue \in Seq(Values)
    /\ closed \in BOOLEAN
    /\ sending \in [Threads -> Values \cup {None}]
    /\ receiving \in SUBSET Threads
    /\ ret \in [Threads -> Outcomes]

Init ==
    /\ queue = <<>>
    /\ closed = FALSE
    /\ sending = [t \in Threads |-> None]
    /\ receiving = {}
    /\ ret = [t \in Threads |-> "none"]

Full == Len(queue) >= Capacity

Return(t, r) == ret' = [ret EXCEPT ![t] = r]

-----------------------------------------------------------------------------
(* A send call that starts or is pending, for value v.                     *)
SendAccepted(t, v) ==
    /\ ~closed /\ ~Full
    /\ queue' = Append(queue, v)
    /\ sending' = [sending EXCEPT ![t] = None]
    /\ \E r \in {"void", "true"} : Return(t, r)
    /\ UNCHANGED <<closed, receiving>>

SendRefused(t) ==
    /\ closed
    /\ sending' = [sending EXCEPT ![t] = None]
    /\ Return(t, "Closed")
    /\ UNCHANGED <<queue, closed, receiving>>

SendPends(t, v) ==
    /\ ~closed /\ Full
    /\ sending' = [sending EXCEPT ![t] = v]
    /\ UNCHANGED <<queue, closed, receiving, ret>>

TrySendFails(t) ==
    /\ closed \/ Full
    /\ Return(t, "false")
    /\ UNCHANGED <<queue, closed, sending, receiving>>

RecvTakes(t) ==
    /\ queue # <<>>
    /\ queue' = Tail(queue)
    /\ receiving' = receiving \ {t}
    /\ Return(t, Head(queue))
    /\ UNCHANGED <<closed, sending>>

RecvClosed(t) ==
    /\ closed /\ queue = <<>>
    /\ receiving' = receiving \ {t}
    /\ Return(t, "Closed")
    /\ UNCHANGED <<queue, closed, sending>>

RecvPends(t) ==
    /\ ~closed /\ queue = <<>>
    /\ receiving' = receiving \cup {t}
    /\ UNCHANGED <<queue, closed, sending, ret>>

TryRecvFails(t) ==
    /\ queue = <<>>
    /\ Return(t, "null")
    /\ UNCHANGED <<queue, closed, sending, receiving>>

Close(t) ==
    /\ closed' = TRUE
    /\ Return(t, "void")
    /\ UNCHANGED <<queue, sending, receiving>>

-----------------------------------------------------------------------------
PendingSendEnds(t) == t \in Senders /\ (SendAccepted(t, sending[t]) \/ SendRefused(t))
PendingRecvEnds(t) == t \in receiving /\ (RecvTakes(t) \/ RecvClosed(t))

Call(t) ==
    /\ t \in Idle
    /\ \/ \E v \in Values : SendAccepted(t, v) \/ SendPends(t, v)
       \/ SendRefused(t)
       \/ TrySendFails(t)
       \/ RecvTakes(t) \/ RecvClosed(t) \/ RecvPends(t) \/ TryRecvFails(t)
       \/ Close(t)

Next == \E t \in Threads : Call(t) \/ PendingSendEnds(t) \/ PendingRecvEnds(t)

Spec == Init /\ [][Next]_vars

(* Some pending call that the buffer can serve is eventually served; which *)
(* one is not promised.                                                    *)
FairSpec ==
    /\ Spec
    /\ WF_vars(\E t \in Threads : PendingSendEnds(t))
    /\ WF_vars(\E t \in Threads : PendingRecvEnds(t))
=============================================================================
