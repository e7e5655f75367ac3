----------------------------- MODULE Chan_proofs -----------------------------
(***************************************************************************)
(* Proofs about Chan, for any finite set of threads, any set of values and *)
(* any capacity (zero included).                                           *)
(***************************************************************************)
EXTENDS Chan, FiniteSetTheorems, TLAPS

(* The inductive invariant.  The wake-up invariants need OnePlace (a woken *)
(* thread that pops leaves its set, so its cardinality drops by exactly    *)
(* one) and ClosedReleasesWaiters (a thread parks on an open channel only);*)
(* the wake-up of the senders needs WithinCapacity.                        *)
Inv ==
    /\ TypeOK
    /\ OnePlace
    /\ NoLostReceiverWakeup
    /\ NoLostSenderWakeup
    /\ ClosedReleasesWaiters
    /\ WithinCapacity
    /\ FifoConservation

-----------------------------------------------------------------------------
(* Cardinality of a set of threads after one thread joins or leaves it.    *)
LEMMA WokenCardinality ==
    ASSUME NEW S \in SUBSET Threads, NEW t \in Threads
    PROVE  /\ Cardinality(S) \in Nat
           /\ t \notin S => Cardinality(S \cup {t}) = Cardinality(S) + 1
           /\ t \in S => Cardinality(S \ {t}) = Cardinality(S) - 1
           /\ Cardinality(S \ {t}) >= Cardinality(S) - 1
<1>1. IsFiniteSet(S)
  BY FS_Subset, ChanAssumption
<1>2. Cardinality(S) \in Nat
  BY <1>1, FS_CardinalityType
<1>3. Cardinality(S \cup {t}) = IF t \in S THEN Cardinality(S) ELSE Cardinality(S) + 1
  BY <1>1, FS_AddElement, Zenon
<1>4. Cardinality(S \ {t}) = IF t \in S THEN Cardinality(S) - 1 ELSE Cardinality(S)
  BY <1>1, FS_RemoveElement, Zenon
<1>. QED
  BY <1>2, <1>3, <1>4

(* The effect of one notification, whoever is chosen.                      *)
LEMMA NotifyEffect ==
    ASSUME NEW cond, NEW woken, NEW w \in NotifyOne(cond),
           cond \in SUBSET Threads, woken \in SUBSET Threads,
           cond \cap woken = {}
    PROVE  /\ w \in SUBSET cond
           /\ Cardinality(woken) \in Nat
           /\ cond # {} => Cardinality(woken \cup w) = Cardinality(woken) + 1
<1>1. CASE cond = {}
  BY <1>1, WokenCardinality DEF NotifyOne
<1>2. CASE cond # {}
  <2>1. PICK t \in cond : w = {t}
    BY <1>2 DEF NotifyOne
  <2>. QED
    BY <1>2, <2>1, WokenCardinality
<1>. QED
  BY <1>1, <1>2

(* Moving the head of the buffer to the delivered values keeps their       *)
(* concatenation.                                                          *)
LEMMA MoveHead ==
    ASSUME NEW d \in Seq(Values), NEW q \in Seq(Values), q # <<>>
    PROVE  /\ Head(q) \in Values
           /\ Tail(q) \in Seq(Values)
           /\ Len(Tail(q)) = Len(q) - 1
           /\ Append(d, Head(q)) \in Seq(Values)
           /\ Append(d, Head(q)) \o Tail(q) = d \o q
  OBVIOUS

LEMMA AppendToTail ==
    ASSUME NEW d \in Seq(Values), NEW q \in Seq(Values), NEW v \in Values
    PROVE  /\ Append(q, v) \in Seq(Values)
           /\ Len(Append(q, v)) = Len(q) + 1
           /\ Append(d \o q, v) = d \o Append(q, v)
  OBVIOUS

LEMMA AppendAssociates ==
    \A d, q \in Seq(Values) : \A v \in Values : Append(d \o q, v) = d \o Append(q, v)
  BY AppendToTail

-----------------------------------------------------------------------------
LEMMA InitInv == Init => Inv
<1>1. SUFFICES ASSUME Init PROVE Inv
  OBVIOUS
<1>2. Cardinality(sendWoken) = 0 /\ Len(queue) = 0 /\ <<>> \o <<>> = <<>>
  BY <1>1, FS_EmptySet DEF Init
<1>3. TypeOK
  <2>1. <<>> \in Seq(Values) /\ 0 \in Nat
    OBVIOUS
  <2>2. [t \in Threads |-> "none"] \in [Threads -> Outcomes]
    BY DEF Outcomes
  <2>. QED
    BY <1>1, <2>1, <2>2 DEF Init, TypeOK
<1>4. OnePlace
  BY <1>1 DEF Init, OnePlace
<1>5. FifoConservation
  BY <1>1 DEF Init, FifoConservation
<1>6. WithinCapacity
  BY <1>2, ChanAssumption DEF WithinCapacity
<1>. QED
  BY <1>1, <1>3, <1>4, <1>5, <1>6
     DEF Init, Inv, NoLostReceiverWakeup, NoLostSenderWakeup, ClosedReleasesWaiters

(* A push that ends a send of t: t is either a caller that never waited or *)
(* a woken sender that leaves sendWoken.                                   *)
LEMMA PushKeepsInv ==
    ASSUME Inv, NEW t \in Threads, NEW v \in Values, NEW r \in {"void", "true"},
           t \notin sendCond \cup recvCond \cup recvWoken,
           ~closed, ~Full,
           Push(t, v, r),
           sendWoken' = sendWoken \ {t},
           sending' = [sending EXCEPT ![t] = None],
           sends' \in Nat
    PROVE  Inv'
<1>1. PICK w \in NotifyOne(recvCond) :
           recvCond' = recvCond \ w /\ recvWoken' = recvWoken \cup w
  BY DEF Push, NotifyReceiver
<1>a. /\ queue \in Seq(Values) /\ accepted \in Seq(Values) /\ delivered \in Seq(Values)
      /\ sendCond \in SUBSET Threads /\ sendWoken \in SUBSET Threads
      /\ recvCond \in SUBSET Threads /\ recvWoken \in SUBSET Threads
      /\ recvCond \cap recvWoken = {}
  BY DEF Inv, TypeOK, OnePlace
<1>b. /\ queue' = Append(queue, v) /\ accepted' = Append(accepted, v)
      /\ closed' = closed /\ sendCond' = sendCond /\ delivered' = delivered
      /\ ret' = [ret EXCEPT ![t] = r]
  BY DEF Push, Return
<1>2. /\ w \in SUBSET recvCond
      /\ recvCond' \in SUBSET Threads
      /\ recvWoken' \in SUBSET Threads
      /\ recvCond' \cap recvWoken' = {}
      /\ Cardinality(recvWoken) \in Nat
      /\ recvCond # {} => Cardinality(recvWoken') = Cardinality(recvWoken) + 1
  <2>1. /\ w \in SUBSET recvCond
        /\ Cardinality(recvWoken) \in Nat
        /\ recvCond # {} => Cardinality(recvWoken \cup w) = Cardinality(recvWoken) + 1
    BY <1>a, NotifyEffect, Zenon
  <2>. QED
    BY <2>1, <1>1, <1>a
<1>3. /\ queue' \in Seq(Values) /\ accepted' \in Seq(Values)
      /\ Len(queue') = Len(queue) + 1
  BY <1>a, <1>b
<1>4. TypeOK'
  BY <1>a, <1>b, <1>2, <1>3 DEF Inv, TypeOK, Outcomes
<1>5. OnePlace'
  BY <1>1, <1>2, <1>b DEF Inv, OnePlace, TypeOK
<1>6. NoLostReceiverWakeup'
  BY <1>1, <1>2, <1>3, <1>a DEF Inv, NoLostReceiverWakeup
<1>7. NoLostSenderWakeup'
  <2>1. Cardinality(sendWoken) \in Nat /\ Cardinality(sendWoken \ {t}) \in Nat
         /\ Cardinality(sendWoken \ {t}) >= Cardinality(sendWoken) - 1
    BY <1>a, WokenCardinality, Zenon
  <2>. QED
    BY <2>1, <1>3, <1>a, <1>b, ChanAssumption DEF Inv, NoLostSenderWakeup
<1>8. FifoConservation'
  <2>1. accepted' = Append(delivered \o queue, v) /\ delivered' \o queue' = delivered \o Append(queue, v)
    BY <1>b DEF Inv, FifoConservation
  <2>2. Append(delivered \o queue, v) = delivered \o Append(queue, v)
    <3>1. delivered \in Seq(Values) /\ queue \in Seq(Values)
      BY <1>a
    <3>. QED
      BY <3>1, AppendAssociates, Zenon
  <2>3. accepted' = delivered' \o queue'
    BY <2>1, <2>2, Zenon
  <2>. QED
    BY <2>3 DEF FifoConservation
<1>9. ClosedReleasesWaiters' /\ WithinCapacity'
  BY <1>3, <1>a, <1>b, ChanAssumption DEF ClosedReleasesWaiters, WithinCapacity, Full
<1>. QED
  BY <1>4, <1>5, <1>6, <1>7, <1>8, <1>9 DEF Inv

(* A pop by t, a caller that never waited or a woken receiver.             *)
LEMMA PopKeepsInv ==
    ASSUME Inv, NEW t \in Threads,
           t \notin sendCond \cup sendWoken \cup recvCond,
           ~Empty, Pop(t),
           recvWoken' = recvWoken \ {t}
    PROVE  Inv'
<1>1. PICK w \in NotifyOne(sendCond) :
           sendCond' = sendCond \ w /\ sendWoken' = sendWoken \cup w
  BY DEF Pop, NotifySender
<1>a. /\ queue \in Seq(Values) /\ accepted \in Seq(Values) /\ delivered \in Seq(Values)
      /\ sendCond \in SUBSET Threads /\ sendWoken \in SUBSET Threads
      /\ recvCond \in SUBSET Threads /\ recvWoken \in SUBSET Threads
      /\ sendCond \cap sendWoken = {}
      /\ queue # <<>>
  BY DEF Inv, TypeOK, OnePlace, Empty
<1>b. /\ queue' = Tail(queue) /\ delivered' = Append(delivered, Head(queue))
      /\ closed' = closed /\ recvCond' = recvCond /\ accepted' = accepted
      /\ sending' = sending /\ sends' = sends
      /\ ret' = [ret EXCEPT ![t] = Head(queue)]
  BY DEF Pop, Return
<1>2. /\ w \in SUBSET sendCond
      /\ sendCond' \in SUBSET Threads
      /\ sendWoken' \in SUBSET Threads
      /\ sendCond' \cap sendWoken' = {}
      /\ Cardinality(sendWoken) \in Nat
      /\ sendCond # {} => Cardinality(sendWoken') = Cardinality(sendWoken) + 1
  <2>1. /\ w \in SUBSET sendCond
        /\ Cardinality(sendWoken) \in Nat
        /\ sendCond # {} => Cardinality(sendWoken \cup w) = Cardinality(sendWoken) + 1
    BY <1>a, NotifyEffect, Zenon
  <2>. QED
    BY <2>1, <1>1, <1>a
<1>3. /\ queue' \in Seq(Values) /\ delivered' \in Seq(Values)
      /\ Len(queue') = Len(queue) - 1 /\ Len(queue) \in Nat
      /\ Head(queue) \in Values
      /\ delivered' \o queue' = delivered \o queue
  BY <1>a, <1>b, MoveHead
<1>4. TypeOK'
  BY <1>a, <1>b, <1>2, <1>3 DEF Inv, TypeOK, Outcomes
<1>5. OnePlace'
  BY <1>1, <1>2, <1>b DEF Inv, OnePlace, TypeOK
<1>6. NoLostReceiverWakeup'
  <2>1. Cardinality(recvWoken) \in Nat /\ Cardinality(recvWoken \ {t}) \in Nat
         /\ Cardinality(recvWoken \ {t}) >= Cardinality(recvWoken) - 1
    BY <1>a, WokenCardinality, Zenon
  <2>. QED
    BY <2>1, <1>3, <1>b DEF Inv, NoLostReceiverWakeup
<1>7. NoLostSenderWakeup'
  BY <1>1, <1>2, <1>3, <1>a, ChanAssumption DEF Inv, NoLostSenderWakeup
<1>8. FifoConservation'
  BY <1>3, <1>b DEF Inv, FifoConservation
<1>9. ClosedReleasesWaiters' /\ WithinCapacity'
  BY <1>1, <1>2, <1>3, <1>b, ChanAssumption DEF Inv, ClosedReleasesWaiters, WithinCapacity
<1>. QED
  BY <1>4, <1>5, <1>6, <1>7, <1>8, <1>9 DEF Inv

(* A send that parks: its first critical section or one more round of the  *)
(* loop.  Full is what NoLostSenderWakeup needs.                           *)
LEMMA SendParksKeepsInv ==
    ASSUME Inv, NEW t \in Threads,
           t \notin sendCond \cup recvCond \cup recvWoken,
           ~closed, Full,
           sendCond' = sendCond \cup {t},
           sendWoken' = sendWoken \ {t},
           sending' \in [Threads -> Values \cup {None}],
           sending'[t] # None,
           \A u \in Threads \ {t} : sending'[u] = sending[u],
           sends' \in Nat,
           UNCHANGED <<shared, recvCond, recvWoken, ret, accepted, delivered>>
    PROVE  Inv'
<1>1. /\ TypeOK' /\ OnePlace' /\ NoLostReceiverWakeup' /\ ClosedReleasesWaiters'
      /\ WithinCapacity' /\ FifoConservation'
  BY DEF Inv, TypeOK, OnePlace, NoLostReceiverWakeup, ClosedReleasesWaiters,
         WithinCapacity, FifoConservation, shared
<1>2. NoLostSenderWakeup'
  <2>1. Cardinality(sendWoken') \in Nat
    BY <1>1, WokenCardinality DEF TypeOK
  <2>. QED
    BY <2>1, ChanAssumption DEF NoLostSenderWakeup, Full, Inv, TypeOK, shared
<1>. QED
  BY <1>1, <1>2 DEF Inv

(* A step that leaves the buffer and the wait sets alone, except that a    *)
(* blocked call may end on a closed channel.                               *)
LEMMA ReturnKeepsInv ==
    ASSUME Inv, NEW t \in Threads,
           ret' \in [Threads -> Outcomes], sends' \in Nat,
           t \notin sendCond \cup recvCond,
           \/ UNCHANGED <<sendWoken, recvWoken, sending>>
           \/ /\ closed
              /\ sendWoken' = sendWoken \ {t} /\ recvWoken' = recvWoken \ {t}
              /\ sending' = [sending EXCEPT ![t] = None],
           UNCHANGED <<shared, sendCond, recvCond, accepted, delivered>>
    PROVE  Inv'
<1>1. /\ TypeOK' /\ OnePlace' /\ ClosedReleasesWaiters' /\ WithinCapacity' /\ FifoConservation'
  BY DEF Inv, TypeOK, OnePlace, ClosedReleasesWaiters, WithinCapacity, FifoConservation, shared
<1>2. CASE UNCHANGED <<sendWoken, recvWoken, sending>>
  BY <1>1, <1>2 DEF Inv, NoLostReceiverWakeup, NoLostSenderWakeup, shared
<1>3. CASE closed
  BY <1>1, <1>3 DEF Inv, ClosedReleasesWaiters, NoLostReceiverWakeup, NoLostSenderWakeup, shared
<1>. QED
  BY <1>2, <1>3

LEMMA SendKeepsInv ==
    ASSUME Inv, NEW t \in Threads, NEW v \in Values, Send(t, v)
    PROVE  Inv'
<1>1. /\ t \notin sendCond \cup recvCond \cup sendWoken \cup recvWoken
      /\ sends' \in Nat
      /\ sending \in [Threads -> Values \cup {None}] /\ sending[t] = None
      /\ ret \in [Threads -> Outcomes]
  BY DEF Send, Idle, StartsSend, Inv, TypeOK, OnePlace
<1>2. CASE closed
  <2>1. /\ ret' \in [Threads -> Outcomes]
        /\ UNCHANGED <<shared, waits, sending, accepted, delivered>>
    BY <1>1, <1>2 DEF Send, Return, Outcomes
  <2>. QED
    BY <1>1, <2>1, ReturnKeepsInv DEF waits
<1>3. CASE ~closed /\ Full
  <2>1. /\ sendCond' = sendCond \cup {t} /\ sendWoken' = sendWoken \ {t}
        /\ sending' = [sending EXCEPT ![t] = v]
        /\ UNCHANGED <<shared, recvCond, recvWoken, ret, accepted, delivered>>
    BY <1>1, <1>3 DEF Send
  <2>2. /\ sending' \in [Threads -> Values \cup {None}] /\ sending'[t] # None
        /\ \A u \in Threads \ {t} : sending'[u] = sending[u]
    BY <1>1, <2>1, ChanAssumption
  <2>. QED
    BY <1>1, <1>3, <2>1, <2>2, SendParksKeepsInv
<1>4. CASE ~closed /\ ~Full
  <2>1. /\ Push(t, v, "void")
        /\ sendWoken' = sendWoken \ {t} /\ sending' = [sending EXCEPT ![t] = None]
    BY <1>1, <1>4 DEF Send
  <2>. QED
    BY <1>1, <1>4, <2>1, PushKeepsInv
<1>. QED
  BY <1>2, <1>3, <1>4

LEMMA TrySendKeepsInv ==
    ASSUME Inv, NEW t \in Threads, NEW v \in Values, TrySend(t, v)
    PROVE  Inv'
<1>1. /\ t \notin sendCond \cup recvCond \cup sendWoken \cup recvWoken
      /\ sends' \in Nat
      /\ sending \in [Threads -> Values \cup {None}] /\ sending[t] = None
      /\ ret \in [Threads -> Outcomes]
  BY DEF TrySend, Idle, StartsSend, Inv, TypeOK, OnePlace
<1>2. CASE closed \/ Full
  <2>1. /\ ret' \in [Threads -> Outcomes]
        /\ UNCHANGED <<shared, waits, sending, accepted, delivered>>
    BY <1>1, <1>2 DEF TrySend, Return, Outcomes
  <2>. QED
    BY <1>1, <2>1, ReturnKeepsInv DEF waits
<1>3. CASE ~closed /\ ~Full
  <2>1. /\ Push(t, v, "true")
        /\ sendWoken' = sendWoken \ {t} /\ sending' = [sending EXCEPT ![t] = None]
    BY <1>1, <1>3 DEF TrySend
  <2>. QED
    BY <1>1, <1>3, <2>1, PushKeepsInv
<1>. QED
  BY <1>2, <1>3

LEMMA SendResumesKeepsInv ==
    ASSUME Inv, NEW t \in Threads, SendResumes(t)
    PROVE  Inv'
<1>1. /\ t \in sendWoken
      /\ t \notin sendCond \cup recvCond \cup recvWoken
      /\ sends' \in Nat
      /\ sending \in [Threads -> Values \cup {None}] /\ sending[t] \in Values
      /\ ret \in [Threads -> Outcomes]
  BY DEF SendResumes, Inv, TypeOK, OnePlace
<1>2. CASE closed
  <2>1. /\ ret' \in [Threads -> Outcomes]
        /\ sendWoken' = sendWoken \ {t} /\ recvWoken' = recvWoken \ {t}
        /\ sending' = [sending EXCEPT ![t] = None]
        /\ UNCHANGED <<shared, sendCond, recvCond, accepted, delivered>>
    BY <1>1, <1>2 DEF SendResumes, Return, Outcomes
  <2>. QED
    BY <1>1, <1>2, <2>1, ReturnKeepsInv
<1>3. CASE ~closed /\ Full
  <2>1. /\ sendCond' = sendCond \cup {t} /\ sendWoken' = sendWoken \ {t}
        /\ UNCHANGED <<shared, recvCond, recvWoken, sending, ret, accepted, delivered>>
    BY <1>1, <1>3 DEF SendResumes
  <2>2. /\ sending' \in [Threads -> Values \cup {None}] /\ sending'[t] # None
        /\ \A u \in Threads \ {t} : sending'[u] = sending[u]
    BY <1>1, <2>1, ChanAssumption
  <2>. QED
    BY <1>1, <1>3, <2>1, <2>2, SendParksKeepsInv
<1>4. CASE ~closed /\ ~Full
  <2>1. /\ Push(t, sending[t], "void")
        /\ sendWoken' = sendWoken \ {t} /\ sending' = [sending EXCEPT ![t] = None]
    BY <1>1, <1>4 DEF SendResumes
  <2>. QED
    BY <1>1, <1>4, <2>1, PushKeepsInv
<1>. QED
  BY <1>2, <1>3, <1>4

LEMMA RecvKeepsInv ==
    ASSUME Inv, NEW t \in Threads, Recv(t)
    PROVE  Inv'
<1>1. /\ t \notin sendCond \cup recvCond \cup sendWoken
      /\ recvWoken' = recvWoken \ {t}
      /\ sending \in [Threads -> Values \cup {None}] /\ sending[t] = None
      /\ sends \in Nat
      /\ ret \in [Threads -> Outcomes]
  BY DEF Recv, Idle, Inv, TypeOK, OnePlace
<1>2. CASE Empty /\ ~closed
  <2>1. /\ recvCond' = recvCond \cup {t}
        /\ UNCHANGED <<shared, sendCond, sendWoken, sending, ret, accepted, delivered, sends>>
    BY <1>2 DEF Recv
  <2>2. /\ TypeOK' /\ OnePlace' /\ NoLostSenderWakeup' /\ ClosedReleasesWaiters'
        /\ WithinCapacity' /\ FifoConservation'
    BY <1>1, <1>2, <2>1 DEF Inv, TypeOK, OnePlace, NoLostSenderWakeup, ClosedReleasesWaiters,
         WithinCapacity, FifoConservation, shared
  <2>3. NoLostReceiverWakeup'
    <3>1. Cardinality(recvWoken') \in Nat
      BY <2>2, WokenCardinality DEF TypeOK
    <3>2. Len(queue') = 0
      BY <1>2, <2>1 DEF Empty, shared
    <3>. QED
      BY <3>1, <3>2 DEF NoLostReceiverWakeup
  <2>. QED
    BY <2>2, <2>3 DEF Inv
<1>3. CASE Empty /\ closed
  <2>1. /\ ret' \in [Threads -> Outcomes]
        /\ sendWoken' = sendWoken \ {t}
        /\ sending' = [sending EXCEPT ![t] = None]
        /\ UNCHANGED <<shared, sendCond, recvCond, accepted, delivered, sends>>
    BY <1>1, <1>3 DEF Recv, Return, Outcomes
  <2>. QED
    BY <1>1, <1>3, <2>1, ReturnKeepsInv
<1>4. CASE ~Empty
  BY <1>1, <1>4, PopKeepsInv DEF Recv
<1>. QED
  BY <1>2, <1>3, <1>4

LEMMA TryRecvKeepsInv ==
    ASSUME Inv, NEW t \in Threads, TryRecv(t)
    PROVE  Inv'
<1>1. /\ t \notin sendCond \cup recvCond \cup sendWoken \cup recvWoken
      /\ sends \in Nat
      /\ ret \in [Threads -> Outcomes]
  BY DEF TryRecv, Idle, Inv, TypeOK
<1>2. CASE Empty
  <2>1. /\ ret' \in [Threads -> Outcomes]
        /\ UNCHANGED <<shared, waits, sending, accepted, delivered, sends>>
    BY <1>1, <1>2 DEF TryRecv, Return, Outcomes
  <2>. QED
    BY <1>1, <2>1, ReturnKeepsInv DEF waits
<1>3. CASE ~Empty
  <2>1. Pop(t) /\ recvWoken' = recvWoken \ {t}
    BY <1>1, <1>3 DEF TryRecv
  <2>. QED
    BY <1>1, <1>3, <2>1, PopKeepsInv
<1>. QED
  BY <1>2, <1>3

LEMMA CloseKeepsInv ==
    ASSUME Inv, NEW t \in Threads, Close(t)
    PROVE  Inv'
BY DEF Close, Return, Outcomes, Inv, TypeOK, OnePlace, NoLostReceiverWakeup, NoLostSenderWakeup,
       ClosedReleasesWaiters, WithinCapacity, FifoConservation

LEMMA SpuriousWakeupKeepsInv ==
    ASSUME Inv, NEW t \in Threads, SpuriousWakeup(t)
    PROVE  Inv'
<1>1. /\ TypeOK' /\ OnePlace' /\ ClosedReleasesWaiters' /\ WithinCapacity' /\ FifoConservation'
  BY DEF SpuriousWakeup, Inv, TypeOK, OnePlace, ClosedReleasesWaiters, WithinCapacity,
         FifoConservation, shared
<1>2. /\ Cardinality(sendWoken) \in Nat /\ Cardinality(recvWoken) \in Nat
      /\ t \notin sendWoken => Cardinality(sendWoken \cup {t}) = Cardinality(sendWoken) + 1
      /\ t \notin recvWoken => Cardinality(recvWoken \cup {t}) = Cardinality(recvWoken) + 1
  BY WokenCardinality, Zenon DEF Inv, TypeOK
<1>3. /\ Len(queue') = Len(queue) /\ Len(queue) \in Nat
      /\ sendWoken' = sendWoken \/ (t \in sendCond /\ sendWoken' = sendWoken \cup {t})
      /\ recvWoken' = recvWoken \/ (t \in recvCond /\ recvWoken' = recvWoken \cup {t})
      /\ sendCond' \subseteq sendCond /\ recvCond' \subseteq recvCond
  BY DEF SpuriousWakeup, shared, Inv, TypeOK
<1>4. /\ Cardinality(sendWoken') \in Nat /\ Cardinality(sendWoken') >= Cardinality(sendWoken)
      /\ Cardinality(recvWoken') \in Nat /\ Cardinality(recvWoken') >= Cardinality(recvWoken)
  <2>1. t \in sendCond => t \notin sendWoken
    BY DEF Inv, OnePlace
  <2>2. t \in recvCond => t \notin recvWoken
    BY DEF Inv, OnePlace
  <2>3. Cardinality(sendWoken') = Cardinality(sendWoken)
        \/ Cardinality(sendWoken') = Cardinality(sendWoken) + 1
    BY <1>2, <1>3, <2>1, Zenon
  <2>4. Cardinality(recvWoken') = Cardinality(recvWoken)
        \/ Cardinality(recvWoken') = Cardinality(recvWoken) + 1
    BY <1>2, <1>3, <2>2, Zenon
  <2>. QED
    BY <1>2, <2>3, <2>4
<1>5. NoLostReceiverWakeup' /\ NoLostSenderWakeup'
  BY <1>2, <1>3, <1>4, ChanAssumption DEF Inv, NoLostReceiverWakeup, NoLostSenderWakeup
<1>. QED
  BY <1>1, <1>5 DEF Inv

LEMMA NextKeepsInv == Inv /\ [Next]_vars => Inv'
<1>1. SUFFICES ASSUME Inv, [Next]_vars PROVE Inv'
  OBVIOUS
<1>2. CASE Next
  <2>1. PICK t \in Threads :
            \/ \E v \in Values : Send(t, v) \/ TrySend(t, v)
            \/ SendResumes(t)
            \/ Recv(t) \/ TryRecv(t) \/ Close(t)
            \/ SpuriousWakeup(t)
    BY <1>2, Zenon DEF Next
  <2>. QED
    BY <1>1, <2>1, SendKeepsInv, TrySendKeepsInv, SendResumesKeepsInv, RecvKeepsInv,
       TryRecvKeepsInv, CloseKeepsInv, SpuriousWakeupKeepsInv, Zenon
<1>3. CASE UNCHANGED vars
  BY <1>1, <1>3 DEF vars, shared, waits, Inv, TypeOK, OnePlace, NoLostReceiverWakeup,
       NoLostSenderWakeup, ClosedReleasesWaiters, WithinCapacity, FifoConservation
<1>. QED
  BY <1>1, <1>2, <1>3

LEMMA Invariance == Spec => []Inv
BY InitInv, NextKeepsInv, PTL DEF Spec

-----------------------------------------------------------------------------
(* Every variable keeps its type.                                          *)
THEOREM TypeCorrect == Spec => []TypeOK
<1>1. Inv => TypeOK
  BY DEF Inv
<1>. QED
  BY <1>1, Invariance, PTL

(* No interleaving of senders, receivers and spurious wake-ups loses a     *)
(* wake-up of a receiver: none sleeps over a value that nobody was woken   *)
(* for.                                                                    *)
THEOREM ReceiversAreWoken == Spec => []NoLostReceiverWakeup
<1>1. Inv => NoLostReceiverWakeup
  BY DEF Inv
<1>. QED
  BY <1>1, Invariance, PTL

(* The same of senders and free places.                                    *)
THEOREM SendersAreWoken == Spec => []NoLostSenderWakeup
<1>1. Inv => NoLostSenderWakeup
  BY DEF Inv
<1>. QED
  BY <1>1, Invariance, PTL

(* The buffer stays within the capacity.                                   *)
THEOREM CapacityHolds == Spec => []WithinCapacity
<1>1. Inv => WithinCapacity
  BY DEF Inv
<1>. QED
  BY <1>1, Invariance, PTL

(* The channel loses, duplicates and reorders nothing.                     *)
THEOREM BufferCorrect == Spec => []FifoConservation
<1>1. Inv => FifoConservation
  BY DEF Inv
<1>. QED
  BY <1>1, Invariance, PTL

(* A closed channel has no parked thread.                                  *)
THEOREM CloseWakesAll == Spec => []ClosedReleasesWaiters
<1>1. Inv => ClosedReleasesWaiters
  BY DEF Inv
<1>. QED
  BY <1>1, Invariance, PTL

(* A closed channel stays closed and accepts nothing.                      *)
THEOREM ClosedChannelIsFinal == Spec => ClosedIsFinal
<1>1. ASSUME Inv, [Next]_vars
      PROVE  closed => closed' /\ accepted' = accepted
  BY <1>1 DEF Next, vars, shared, waits, Send, TrySend, SendResumes, Recv, TryRecv, Close,
     SpuriousWakeup, Push, Pop
<1>2. Inv /\ [Next]_vars => [closed => closed' /\ accepted' = accepted]_vars
  BY <1>1
<1>. QED
  BY <1>2, Invariance, PTL DEF ClosedIsFinal, Spec

-----------------------------------------------------------------------------
(* Every step of the code is a step of the atomic channel or none.         *)
LEMMA StepRefinement == Inv /\ [Next]_vars => [BC!Next]_BC!vars
<1>1. SUFFICES ASSUME Inv, Next PROVE BC!Next \/ UNCHANGED BC!vars
  BY DEF vars, shared, waits, BC!vars
<1>2. PICK t \in Threads :
          \/ \E v \in Values : Send(t, v) \/ TrySend(t, v)
          \/ SendResumes(t)
          \/ Recv(t) \/ TryRecv(t) \/ Close(t)
          \/ SpuriousWakeup(t)
  BY <1>1, Zenon DEF Next
<1>3. /\ sending \in [Threads -> Values \cup {None}]
      /\ sendCond \cup sendWoken = BC!Senders
      /\ Idle = BC!Idle
  BY <1>1 DEF Inv, TypeOK, OnePlace, BC!Senders, BC!Idle, Idle
<1>4. ASSUME NEW u \in Threads, BC!Call(u) \/ BC!PendingSendEnds(u) \/ BC!PendingRecvEnds(u)
      PROVE  BC!Next
  BY <1>4 DEF BC!Next
<1>5. ASSUME NEW v \in Values, Send(t, v) PROVE BC!Next \/ UNCHANGED BC!vars
  <2>1. t \in Idle /\ sending[t] = None /\ t \notin recvCond \cup recvWoken
    BY <1>1, <1>5 DEF Send, Idle, Inv, OnePlace
  <2>2. CASE closed
    <3>1. BC!SendRefused(t)
      BY <1>3, <1>5, <2>1, <2>2 DEF Send, BC!SendRefused, BC!Return, Return, shared, waits
    <3>. QED
      BY <1>3, <1>4, <2>1, <3>1 DEF BC!Call
  <2>3. CASE ~closed /\ Full
    <3>1. BC!SendPends(t, v)
      BY <1>3, <1>5, <2>1, <2>3 DEF Send, BC!SendPends, BC!Full, Full, shared
    <3>. QED
      BY <1>3, <1>4, <2>1, <3>1 DEF BC!Call
  <2>4. CASE ~closed /\ ~Full
    <3>1. Push(t, v, "void") /\ UNCHANGED <<sendWoken, sending>>
      BY <1>5, <2>4 DEF Send
    <3>2. recvCond' \cup recvWoken' = recvCond \cup recvWoken
      BY <3>1 DEF Push, NotifyReceiver, NotifyOne
    <3>3. BC!SendAccepted(t, v)
      BY <1>3, <2>1, <2>4, <3>1, <3>2 DEF Push, BC!SendAccepted, BC!Full, BC!Return, Full, Return
    <3>. QED
      BY <1>3, <1>4, <2>1, <3>3 DEF BC!Call
  <2>. QED
    BY <2>2, <2>3, <2>4
<1>6. ASSUME NEW v \in Values, TrySend(t, v) PROVE BC!Next \/ UNCHANGED BC!vars
  <2>1. t \in Idle /\ sending[t] = None /\ t \notin recvCond \cup recvWoken
    BY <1>1, <1>6 DEF TrySend, Idle, Inv, OnePlace
  <2>2. CASE closed \/ Full
    <3>1. BC!TrySendFails(t)
      BY <1>3, <1>6, <2>1, <2>2 DEF TrySend, BC!TrySendFails, BC!Full, BC!Return, Full, Return, shared, waits
    <3>. QED
      BY <1>3, <1>4, <2>1, <3>1 DEF BC!Call
  <2>3. CASE ~closed /\ ~Full
    <3>1. Push(t, v, "true") /\ UNCHANGED <<sendWoken, sending>>
      BY <1>6, <2>3 DEF TrySend
    <3>2. recvCond' \cup recvWoken' = recvCond \cup recvWoken
      BY <3>1 DEF Push, NotifyReceiver, NotifyOne
    <3>3. BC!SendAccepted(t, v)
      BY <1>3, <2>1, <2>3, <3>1, <3>2 DEF Push, BC!SendAccepted, BC!Full, BC!Return, Full, Return
    <3>. QED
      BY <1>3, <1>4, <2>1, <3>3 DEF BC!Call
  <2>. QED
    BY <2>2, <2>3
<1>7. ASSUME SendResumes(t) PROVE BC!Next \/ UNCHANGED BC!vars
  <2>1. t \in BC!Senders
    BY <1>3, <1>7 DEF SendResumes
  <2>2. CASE closed
    <3>1. BC!SendRefused(t)
      BY <1>7, <2>2 DEF SendResumes, BC!SendRefused, BC!Return, Return, shared
    <3>. QED
      BY <1>4, <2>1, <3>1 DEF BC!PendingSendEnds
  <2>3. CASE ~closed /\ Full
    BY <1>7, <2>3 DEF SendResumes, BC!vars, shared
  <2>4. CASE ~closed /\ ~Full
    <3>1. /\ Push(t, sending[t], "void")
          /\ sending' = [sending EXCEPT ![t] = None]
      BY <1>7, <2>4 DEF SendResumes
    <3>2. recvCond' \cup recvWoken' = recvCond \cup recvWoken
      BY <3>1 DEF Push, NotifyReceiver, NotifyOne
    <3>3. BC!SendAccepted(t, sending[t])
      BY <2>4, <3>1, <3>2 DEF Push, BC!SendAccepted, BC!Full, BC!Return, Full, Return
    <3>. QED
      BY <1>4, <2>1, <3>3 DEF BC!PendingSendEnds
  <2>. QED
    BY <2>2, <2>3, <2>4
<1>8. ASSUME Recv(t) PROVE BC!Next \/ UNCHANGED BC!vars
  <2>1. t \in BC!Idle \/ t \in recvCond \cup recvWoken
    BY <1>3, <1>8 DEF Recv
  <2>2. t \notin recvCond
    BY <1>1, <1>8 DEF Recv, Idle, Inv, OnePlace
  <2>3. CASE Empty /\ ~closed
    <3>1. CASE t \in recvWoken
      BY <1>8, <2>2, <2>3, <3>1 DEF Recv, BC!vars, shared
    <3>2. CASE t \in BC!Idle
      <4>1. BC!RecvPends(t)
        BY <1>8, <2>2, <2>3 DEF Recv, BC!RecvPends, Empty, shared
      <4>. QED
        BY <1>4, <3>2, <4>1 DEF BC!Call
    <3>. QED
      BY <2>1, <2>2, <3>1, <3>2
  <2>4. CASE Empty /\ closed
    <3>1. BC!RecvClosed(t)
      BY <1>8, <2>2, <2>4 DEF Recv, BC!RecvClosed, BC!Return, Return, Empty, shared
    <3>. QED
      BY <1>4, <2>1, <3>1 DEF BC!Call, BC!PendingRecvEnds
  <2>5. CASE ~Empty
    <3>1. BC!RecvTakes(t)
      BY <1>8, <2>2, <2>5 DEF Recv, Pop, BC!RecvTakes, BC!Return, Return, Empty
    <3>. QED
      BY <1>4, <2>1, <3>1 DEF BC!Call, BC!PendingRecvEnds
  <2>. QED
    BY <2>3, <2>4, <2>5
<1>9. ASSUME TryRecv(t) PROVE BC!Next \/ UNCHANGED BC!vars
  <2>1. t \in BC!Idle /\ t \notin recvCond \cup recvWoken
    BY <1>3, <1>9 DEF TryRecv, Idle
  <2>2. CASE Empty
    <3>1. BC!TryRecvFails(t)
      BY <1>9, <2>2 DEF TryRecv, BC!TryRecvFails, BC!Return, Return, Empty, shared, waits
    <3>. QED
      BY <1>4, <2>1, <3>1 DEF BC!Call
  <2>3. CASE ~Empty
    <3>1. BC!RecvTakes(t)
      BY <1>9, <2>1, <2>3 DEF TryRecv, Pop, BC!RecvTakes, BC!Return, Return, Empty
    <3>. QED
      BY <1>4, <2>1, <3>1 DEF BC!Call
  <2>. QED
    BY <2>2, <2>3
<1>10. ASSUME Close(t) PROVE BC!Next
  <2>1. BC!Close(t) /\ t \in BC!Idle
    BY <1>3, <1>10 DEF Close, BC!Close, BC!Return, Return
  <2>. QED
    BY <1>4, <2>1 DEF BC!Call
<1>11. ASSUME SpuriousWakeup(t) PROVE UNCHANGED BC!vars
  BY <1>11 DEF SpuriousWakeup, BC!vars, shared
<1>. QED
  BY <1>2, <1>5, <1>6, <1>7, <1>8, <1>9, <1>10, <1>11

(* chan<T>, with its locks, condition variables and wake-ups, is an atomic *)
(* bounded buffer to its users.                                            *)
THEOREM Refinement == Spec => BC!Spec
<1>1. Init => BC!Init
  BY DEF Init, BC!Init
<1>. QED
  BY <1>1, StepRefinement, Invariance, PTL DEF Spec, BC!Spec
=============================================================================
