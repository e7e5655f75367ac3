------------------------- MODULE Interpreter_proofs -------------------------
(***************************************************************************)
(* Proofs about the parts of Interpreter, for any number of interpreters,  *)
(* containers, futures and tests.  Each part has an inductive invariant of *)
(* its own; a step of another part does not touch its variables.           *)
(***************************************************************************)
EXTENDS Interpreter, SequenceTheorems, FiniteSetTheorems, TLAPS

Slots == 1..MaxHandles
Vals  == 0..(MaxWrites - 1)

(* Containers.  An interpreter never gives a number twice.                 *)
HandlesTell ==
    /\ Len(handles) <= MaxHandles
    /\ \A i \in Interps : nextId[i] <= Len(handles) + 1
    /\ \A h \in 1..Len(handles) : handles[h].id < nextId[handles[h].maker]
    /\ \A g, h \in 1..Len(handles) :
           handles[g].maker = handles[h].maker /\ handles[g].id = handles[h].id => g = h

(* An entry in the table of an interpreter is one that it made itself, for *)
(* a handle of the same kind.                                              *)
EntriesTell ==
    \A i \in Interps : \A c \in Slots :
        IF channels[i][c].kind = "none"
        THEN channels[i][c].queue = <<>>
        ELSE \E h \in 1..Len(handles) :
                 handles[h].maker = i /\ handles[h].id = c /\ handles[h].kind = channels[i][c].kind

(* Nothing was written or read by way of a handle that is still to come.   *)
UnmadeUnused ==
    \A i \in Interps : \A h \in Slots :
        h > Len(handles) => written[i][h] = <<>> /\ got[i][h] = <<>>

(* Interpreter i has used no foreign handle with the number of h.          *)
Alone(h, i) ==
    \A g \in 1..Len(handles) :
        handles[g].id = handles[h].id /\ handles[g].maker # i
            => got[i][g] = <<>> /\ written[i][g] = <<>>

(* What was read and what is queued is what was written; when the entry is *)
(* gone, the queue is gone with it.                                        *)
InOrder(h, i) ==
    IF channels[i][handles[h].id].kind = "none"
    THEN Containers!IsPrefix(got[i][h], written[i][h])
    ELSE got[i][h] \o channels[i][handles[h].id].queue = written[i][h]

(* Each container that its maker alone has used is a queue.                *)
QueuesTell ==
    \A i \in Interps : \A h \in 1..Len(handles) :
        handles[h].maker = i /\ Alone(h, i) => InOrder(h, i)

(* A value is written once, and is then in one queue or was read once.     *)
WasWritten(i, v) == \E h \in Slots : \E n \in 1..Len(written[i][h]) : written[i][h][n] = v

LogsAreOld(i) == \A h \in Slots : \A n \in 1..Len(written[i][h]) : written[i][h][n] < writes

GotWasWritten(i) == \A h \in Slots : \A n \in 1..Len(got[i][h]) : WasWritten(i, got[i][h][n])

QueuedWasWritten(i) ==
    \A c \in Slots : \A n \in 1..Len(channels[i][c].queue) : WasWritten(i, channels[i][c].queue[n])

GotOnce(i) ==
    \A g, h \in Slots : \A m \in 1..Len(got[i][g]) : \A n \in 1..Len(got[i][h]) :
        got[i][g][m] = got[i][h][n] => g = h /\ m = n

QueuedOnce(i) ==
    \A c, d \in Slots : \A m \in 1..Len(channels[i][c].queue) : \A n \in 1..Len(channels[i][d].queue) :
        channels[i][c].queue[m] = channels[i][d].queue[n] => c = d /\ m = n

GotIsGone(i) ==
    \A h, c \in Slots : \A m \in 1..Len(got[i][h]) : \A n \in 1..Len(channels[i][c].queue) :
        got[i][h][m] # channels[i][c].queue[n]

ValuesTell ==
    \A i \in Interps :
        /\ LogsAreOld(i) /\ GotWasWritten(i) /\ QueuedWasWritten(i)
        /\ GotOnce(i) /\ QueuedOnce(i) /\ GotIsGone(i)

(* A value is written once by all interpreters together.                   *)
WrittenOnce ==
    \A i, j \in Interps : \A g, h \in Slots :
        \A m \in 1..Len(written[i][g]) : \A n \in 1..Len(written[j][h]) :
            written[i][g][m] = written[j][h][n] => i = j /\ g = h /\ m = n

(* The inductive invariant.  FIFO order needs that numbers are not given   *)
(* twice, and that a value is read once that it is in one place at most.   *)
ContainersInv ==
    /\ Containers!TypeOK
    /\ HandlesTell /\ EntriesTell /\ UnmadeUnused /\ QueuesTell /\ ValuesTell
    /\ Containers!PanicNeedsAlias

Container == [kind : {"Pipe", "Hub"}, id : Slots, closed : BOOLEAN, maker : Interps]
Entries   == [kind : {"Pipe", "Hub", "none"}, queue : Seq(Vals)]

LEMMA SlotsAre ==
    /\ Containers!Ids = Slots /\ Containers!Handles = Slots /\ Containers!Values = Vals
    /\ Containers!Kinds = {"Pipe", "Hub"} /\ Containers!Made = DOMAIN handles
  BY DEF Containers!Ids, Containers!Handles, Containers!Values, Containers!Kinds, Containers!Made, Slots, Vals

LEMMA ContainerTypes ==
    Containers!TypeOK <=>
        /\ handles \in Seq(Container)
        /\ channels \in [Interps -> [Slots -> Entries]]
        /\ nextId \in [Interps -> 1..(MaxHandles + 1)]
        /\ blocked \subseteq Interps /\ panicked \subseteq Interps
        /\ outcome \in [Interps -> Containers!Outcomes]
        /\ written \in [Interps -> [Slots -> Seq(Vals)]]
        /\ got \in [Interps -> [Slots -> Seq(Vals)]]
        /\ writes \in 0..MaxWrites
<1>1. /\ Containers!Kinds \cup {"none"} = {"Pipe", "Hub", "none"}
      /\ Containers!Ids = Slots /\ Containers!Handles = Slots /\ Containers!Values = Vals
      /\ Containers!Kinds = {"Pipe", "Hub"}
  BY SlotsAre
<1>. QED
  BY <1>1 DEF Containers!TypeOK, Container, Entries

LEMMA PrefixOf ==
    ASSUME NEW S, NEW s \in Seq(S), NEW t \in Seq(S)
    PROVE  Containers!IsPrefix(s, s \o t)
<1>1. Len(s) <= Len(s \o t)
  OBVIOUS
<1>2. SubSeq(s, 1, Len(s)) = SubSeq(s \o t, 1, Len(s))
  OBVIOUS
<1>. QED
  BY <1>1, <1>2 DEF Containers!IsPrefix

LEMMA ContainersInitInv == Containers!Init => ContainersInv
<1>1. SUFFICES ASSUME Containers!Init PROVE ContainersInv
  OBVIOUS
<1>2. /\ handles = <<>> /\ panicked = {} /\ blocked = {} /\ writes = 0
      /\ channels = [i \in Interps |-> [c \in Slots |-> [kind |-> "none", queue |-> <<>>]]]
      /\ nextId = [i \in Interps |-> 1] /\ outcome = [i \in Interps |-> "none"]
      /\ written = [i \in Interps |-> [h \in Slots |-> <<>>]]
      /\ got = [i \in Interps |-> [h \in Slots |-> <<>>]]
  BY <1>1, SlotsAre DEF Containers!Init, Containers!Absent
<1>3. Containers!TypeOK
  <2>1. <<>> \in Seq(Container) /\ <<>> \in Seq(Vals) /\ 1 \in 1..(MaxHandles + 1)
        /\ 0 \in 0..MaxWrites /\ "none" \in Containers!Outcomes
    BY ContainerAssumption DEF Containers!Outcomes
  <2>2. [kind |-> "none", queue |-> <<>>] \in Entries
    BY <2>1 DEF Entries
  <2>. QED
    BY <1>2, <2>1, <2>2, ContainerTypes
<1>4. Len(handles) = 0
  BY <1>2
<1>5. HandlesTell
  BY <1>2, <1>4, ContainerAssumption DEF HandlesTell
<1>6. EntriesTell /\ UnmadeUnused
  BY <1>2 DEF EntriesTell, UnmadeUnused
<1>7. QueuesTell
  BY <1>4 DEF QueuesTell
<1>8. ValuesTell
  BY <1>2 DEF ValuesTell, LogsAreOld, GotWasWritten, QueuedWasWritten, GotOnce, QueuedOnce, GotIsGone
<1>9. Containers!PanicNeedsAlias
  BY <1>2 DEF Containers!PanicNeedsAlias
<1>. QED
  BY <1>3, <1>5, <1>6, <1>7, <1>8, <1>9 DEF ContainersInv

-----------------------------------------------------------------------------
(* What the invariant says of one container, one entry and one log.        *)
LEMMA HandleType ==
    ASSUME Containers!TypeOK, HandlesTell, NEW h \in 1..Len(handles)
    PROVE  /\ h \in Slots /\ Len(handles) \in Nat
           /\ handles[h].kind \in {"Pipe", "Hub"} /\ handles[h].id \in Slots
           /\ handles[h].maker \in Interps /\ handles[h].closed \in BOOLEAN
           /\ handles[h] = [kind |-> handles[h].kind, id |-> handles[h].id,
                            closed |-> handles[h].closed, maker |-> handles[h].maker]
<1>1. handles \in Seq(Container)
  BY ContainerTypes
<1>2. handles[h] \in Container /\ Len(handles) \in Nat
  BY <1>1, ElementOfSeq
<1>3. Len(handles) <= MaxHandles /\ MaxHandles \in Nat
  BY ContainerAssumption DEF HandlesTell
<1>. QED
  BY <1>2, <1>3 DEF Container, Slots

LEMMA EntryType ==
    ASSUME Containers!TypeOK, NEW i \in Interps, NEW c \in Slots
    PROVE  /\ channels[i][c] = [kind |-> channels[i][c].kind, queue |-> channels[i][c].queue]
           /\ channels[i][c].kind \in {"Pipe", "Hub", "none"}
           /\ channels[i][c].queue \in Seq(Vals)
<1>1. channels[i][c] \in Entries
  BY ContainerTypes
<1>. QED
  BY <1>1 DEF Entries

LEMMA EntryChanges ==
    ASSUME Containers!TypeOK, NEW j \in Interps, NEW c \in Slots, NEW e \in Entries,
           channels' = [channels EXCEPT ![j][c] = e]
    PROVE  /\ channels' \in [Interps -> [Slots -> Entries]]
           /\ channels'[j][c] = e
           /\ \A d \in Slots : d # c => channels'[j][d] = channels[j][d]
           /\ \A i \in Interps : i # j => channels'[i] = channels[i]
<1>1. channels \in [Interps -> [Slots -> Entries]]
  BY ContainerTypes
<1>. QED
  BY <1>1

LEMMA LogGrows ==
    ASSUME NEW f \in [Interps -> [Slots -> Seq(Vals)]], NEW j \in Interps, NEW h \in Slots,
           NEW v \in Vals, NEW g, g = [f EXCEPT ![j][h] = Append(f[j][h], v)]
    PROVE  /\ g \in [Interps -> [Slots -> Seq(Vals)]]
           /\ g[j][h] = Append(f[j][h], v)
           /\ \A k \in Slots : k # h => g[j][k] = f[j][k]
           /\ \A i \in Interps : i # j => g[i] = f[i]
<1>1. Append(f[j][h], v) \in Seq(Vals)
  OBVIOUS
<1>. QED
  BY <1>1

(* A handle keeps what it was made with.                                   *)
HandlesKept ==
    /\ Len(handles') = Len(handles)
    /\ \A h \in 1..Len(handles) :
           /\ handles'[h].id = handles[h].id
           /\ handles'[h].kind = handles[h].kind
           /\ handles'[h].maker = handles[h].maker

LEMMA KeptHandlesTell ==
    ASSUME HandlesTell, HandlesKept, nextId' = nextId
    PROVE  HandlesTell'
  BY DEF HandlesTell, HandlesKept

LEMMA KeptPanics ==
    ASSUME Containers!TypeOK, HandlesTell, EntriesTell, Containers!PanicNeedsAlias,
           HandlesKept, handles' \in Seq(Container),
           \A i \in panicked' \ panicked : i \in Interps /\ \E h \in 1..Len(handles) :
               handles[h].kind = "Pipe" /\ channels[i][handles[h].id].kind = "Hub"
    PROVE  Containers!PanicNeedsAlias'
<1>1. DOMAIN handles = 1..Len(handles) /\ DOMAIN handles' = 1..Len(handles)
  <2>1. handles \in Seq(Container)
    BY ContainerTypes
  <2>. QED
    BY <2>1, LenProperties DEF HandlesKept
<1>2. ASSUME NEW i \in panicked'
      PROVE  \E h \in 1..Len(handles) :
                 /\ handles[h].kind = "Pipe" /\ handles[h].maker # i
                 /\ \E g \in 1..Len(handles) : handles[g].maker = i /\ handles[g].id = handles[h].id
                                               /\ handles[g].kind = "Hub"
  <2>1. CASE i \in panicked
    BY <1>1, <2>1 DEF Containers!PanicNeedsAlias, Containers!Made
  <2>2. CASE i \notin panicked
    <3>1. PICK h \in 1..Len(handles) :
              handles[h].kind = "Pipe" /\ channels[i][handles[h].id].kind = "Hub"
      BY <2>2
    <3>2. i \in Interps /\ handles[h].id \in Slots
      BY <2>2, HandleType
    <3>3. PICK g \in 1..Len(handles) :
              handles[g].maker = i /\ handles[g].id = handles[h].id /\ handles[g].kind = "Hub"
      BY <3>1, <3>2 DEF EntriesTell
    <3>4. handles[h].maker # i
      BY <3>1, <3>3 DEF HandlesTell
    <3>. QED
      BY <3>1, <3>3, <3>4
  <2>. QED
    BY <2>1, <2>2
<1>. QED
  BY <1>1, <1>2 DEF Containers!PanicNeedsAlias, Containers!Made, HandlesKept

-----------------------------------------------------------------------------
(* What the calls do, one effect at a time.                                *)
Quiet(j, h) ==
    /\ handles' = handles /\ channels' = channels /\ nextId' = nextId
    /\ written' = written /\ got' = got
    /\ writes' \in writes..MaxWrites
    /\ blocked' \subseteq Interps
    /\ outcome' \in [Interps -> Containers!Outcomes]
    /\ \/ panicked' = panicked
       \/ /\ panicked' = panicked \cup {j}
          /\ handles[h].kind = "Pipe" /\ channels[j][handles[h].id].kind = "Hub"

Puts(j, h) ==
    /\ UNCHANGED <<handles, nextId, blocked, panicked, got>>
    /\ writes < MaxWrites /\ writes' = writes + 1
    /\ outcome' \in [Interps -> Containers!Outcomes]
    /\ channels[j][handles[h].id].kind = handles[h].kind
    /\ channels' = [channels EXCEPT ![j][handles[h].id] =
                        [kind  |-> handles[h].kind,
                         queue |-> Append(channels[j][handles[h].id].queue, writes)]]
    /\ written' = [written EXCEPT ![j][h] = Append(written[j][h], writes)]

Pops(j, h) ==
    /\ UNCHANGED <<handles, nextId, blocked, panicked, written, writes>>
    /\ outcome' \in [Interps -> Containers!Outcomes]
    /\ channels[j][handles[h].id].kind = handles[h].kind
    /\ channels[j][handles[h].id].queue # <<>>
    /\ channels' = [channels EXCEPT ![j][handles[h].id] =
                        [kind  |-> handles[h].kind,
                         queue |-> Tail(channels[j][handles[h].id].queue)]]
    /\ got' = [got EXCEPT ![j][h] = Append(got[j][h], Head(channels[j][handles[h].id].queue))]

Shuts(j, h) ==
    /\ UNCHANGED <<nextId, blocked, panicked, written, got, writes>>
    /\ outcome' \in [Interps -> Containers!Outcomes]
    /\ HandlesKept /\ handles' \in Seq(Container)
    /\ channels' = [channels EXCEPT ![j][handles[h].id] = [kind |-> "none", queue |-> <<>>]]

LEMMA QueueChanges ==
    ASSUME Containers!TypeOK, NEW j \in Interps, NEW c \in Slots, NEW q
    PROVE  [channels[j][c] EXCEPT !.queue = q] = [kind |-> channels[j][c].kind, queue |-> q]
<1>1. PICK k, p : channels[j][c] = [kind |-> k, queue |-> p]
  <2>1. channels[j][c] = [kind |-> channels[j][c].kind, queue |-> channels[j][c].queue]
    BY EntryType
  <2>. QED
    BY <2>1
<1>2. [[kind |-> k, queue |-> p] EXCEPT !.queue = q] = [kind |-> k, queue |-> q]
  OBVIOUS
<1>. QED
  BY <1>1, <1>2

LEMMA ReturnsType ==
    ASSUME Containers!TypeOK, NEW j \in Interps, NEW r \in Containers!Outcomes, Containers!Returns(j, r)
    PROVE  outcome' \in [Interps -> Containers!Outcomes]
  BY ContainerTypes DEF Containers!Returns

LEMMA OutcomesAre ==
    \A r \in {"none", "Void", "Closed", "TypeError", "NoMethod", "Value", "Null"} : r \in Containers!Outcomes
  BY DEF Containers!Outcomes

LEMMA MissIsQuiet ==
    ASSUME Containers!TypeOK, HandlesTell, EntriesTell, NEW j \in Interps, NEW h \in 1..Len(handles),
           Containers!Misses(j, h), writes' \in writes..MaxWrites
    PROVE  Quiet(j, h)
<1>1. /\ channels[j][handles[h].id].kind # handles[h].kind
      /\ UNCHANGED <<handles, channels, nextId, blocked, written, got>>
      /\ IF handles[h].kind = "Pipe" /\ channels[j][handles[h].id] # Containers!Absent
         THEN Containers!Panics(j)
         ELSE Containers!Returns(j, "TypeError") /\ UNCHANGED panicked
  BY DEF Containers!Misses, Containers!Entry
<1>2. blocked \subseteq Interps /\ outcome \in [Interps -> Containers!Outcomes]
  BY ContainerTypes
<1>3. CASE handles[h].kind = "Pipe" /\ channels[j][handles[h].id] # Containers!Absent
  <2>1. panicked' = panicked \cup {j} /\ outcome' = outcome
    BY <1>1, <1>3 DEF Containers!Panics
  <2>2. handles[h].id \in Slots
    BY HandleType
  <2>3. channels[j][handles[h].id].kind # "none"
    BY <1>3, <2>2, EntryType DEF EntriesTell, Containers!Absent
  <2>4. channels[j][handles[h].id].kind = "Hub"
    BY <1>1, <1>3, <2>2, <2>3, EntryType
  <2>. QED
    BY <1>1, <1>2, <1>3, <2>1, <2>4 DEF Quiet
<1>4. CASE ~(handles[h].kind = "Pipe" /\ channels[j][handles[h].id] # Containers!Absent)
  <2>1. panicked' = panicked /\ Containers!Returns(j, "TypeError")
    BY <1>1, <1>4
  <2>2. outcome' \in [Interps -> Containers!Outcomes]
    BY <2>1, ReturnsType, OutcomesAre
  <2>. QED
    BY <1>1, <1>2, <2>1, <2>2 DEF Quiet
<1>. QED
  BY <1>3, <1>4

LEMMA WriteEffect ==
    ASSUME Containers!TypeOK, HandlesTell, EntriesTell, NEW j \in Interps, NEW h \in 1..Len(handles),
           Containers!Write(j, h)
    PROVE  Quiet(j, h) \/ Puts(j, h)
<1>1. writes \in 0..MaxWrites /\ writes < MaxWrites /\ writes' = writes + 1 /\ blocked \subseteq Interps
  BY ContainerTypes DEF Containers!Write
<1>2. writes' \in writes..MaxWrites
  BY <1>1, ContainerAssumption
<1>3. CASE /\ Containers!Returns(j, "Closed")
           /\ UNCHANGED <<handles, channels, nextId, blocked, panicked, written, got>>
  <2>1. outcome' \in [Interps -> Containers!Outcomes]
    BY <1>3, ReturnsType, OutcomesAre
  <2>. QED
    BY <1>1, <1>2, <1>3, <2>1 DEF Quiet
<1>4. CASE Containers!Misses(j, h)
  BY <1>2, <1>4, MissIsQuiet
<1>5. CASE /\ channels[j][handles[h].id].kind = handles[h].kind
           /\ channels' = [channels EXCEPT ![j][handles[h].id].queue =
                                Append(channels[j][handles[h].id].queue, writes)]
           /\ written' = [written EXCEPT ![j][h] = Append(written[j][h], writes)]
           /\ Containers!Returns(j, "Void")
           /\ UNCHANGED <<handles, nextId, blocked, panicked, got>>
  <2>1. outcome' \in [Interps -> Containers!Outcomes]
    BY <1>5, ReturnsType, OutcomesAre
  <2>2. handles[h].id \in Slots
    BY HandleType
  <2>3. channels' = [channels EXCEPT ![j][handles[h].id] =
                        [kind  |-> channels[j][handles[h].id].kind,
                         queue |-> Append(channels[j][handles[h].id].queue, writes)]]
    <3>1. PICK c \in Slots : c = handles[h].id
      BY <2>2
    <3>2. PICK q : q = Append(channels[j][c].queue, writes)
      OBVIOUS
    <3>3. [channels[j][c] EXCEPT !.queue = q] = [kind |-> channels[j][c].kind, queue |-> q]
      BY QueueChanges
    <3>4. channels' = [channels EXCEPT ![j][c].queue = q] /\ channels \in [Interps -> [Slots -> Entries]]
      BY <1>5, <3>1, <3>2, ContainerTypes
    <3>5. channels' = [channels EXCEPT ![j][c] = [kind |-> channels[j][c].kind, queue |-> q]]
      BY <3>3, <3>4
    <3>. QED
      BY <3>1, <3>2, <3>5
  <2>. QED
    BY <1>1, <1>5, <2>1, <2>3 DEF Puts
<1>. QED
  BY <1>3, <1>4, <1>5 DEF Containers!Write, Containers!Entry

LEMMA TakeEffect ==
    ASSUME Containers!TypeOK, HandlesTell, NEW j \in Interps, NEW h \in 1..Len(handles),
           channels[j][handles[h].id].kind = handles[h].kind,
           Containers!Takes(j, h), UNCHANGED <<handles, nextId, written, writes>>
    PROVE  Pops(j, h)
<1>1. /\ channels[j][handles[h].id].queue # <<>>
      /\ channels' = [channels EXCEPT ![j][handles[h].id].queue =
                          Tail(channels[j][handles[h].id].queue)]
      /\ got' = [got EXCEPT ![j][h] = Append(got[j][h], Head(channels[j][handles[h].id].queue))]
      /\ Containers!Returns(j, "Value")
      /\ UNCHANGED <<blocked, panicked>>
  BY DEF Containers!Takes, Containers!Entry
<1>2. outcome' \in [Interps -> Containers!Outcomes]
  BY <1>1, ReturnsType, OutcomesAre
<1>3. handles[h].id \in Slots
  BY HandleType
<1>4. channels' = [channels EXCEPT ![j][handles[h].id] =
                        [kind  |-> channels[j][handles[h].id].kind,
                         queue |-> Tail(channels[j][handles[h].id].queue)]]
  <2>1. PICK c \in Slots : c = handles[h].id
    BY <1>3
  <2>2. PICK q : q = Tail(channels[j][c].queue)
    OBVIOUS
  <2>3. [channels[j][c] EXCEPT !.queue = q] = [kind |-> channels[j][c].kind, queue |-> q]
    BY QueueChanges
  <2>4. channels' = [channels EXCEPT ![j][c].queue = q] /\ channels \in [Interps -> [Slots -> Entries]]
    BY <1>1, <2>1, <2>2, ContainerTypes
  <2>5. channels' = [channels EXCEPT ![j][c] = [kind |-> channels[j][c].kind, queue |-> q]]
    BY <2>3, <2>4
  <2>. QED
    BY <2>1, <2>2, <2>5
<1>. QED
  BY <1>1, <1>2, <1>4 DEF Pops

LEMMA ReadEffect ==
    ASSUME Containers!TypeOK, HandlesTell, EntriesTell, NEW j \in Interps, NEW h \in 1..Len(handles),
           Containers!Read(j, h) \/ Containers!TryRead(j, h) \/ Containers!SendToPipe(j, h)
    PROVE  Quiet(j, h) \/ Pops(j, h)
<1>1. /\ writes' = writes /\ writes \in 0..MaxWrites /\ blocked \subseteq Interps
      /\ outcome \in [Interps -> Containers!Outcomes] /\ writes' \in writes..MaxWrites
  <2>1. writes' = writes
    BY DEF Containers!Read, Containers!TryRead, Containers!SendToPipe
  <2>2. writes \in 0..MaxWrites /\ blocked \subseteq Interps /\ outcome \in [Interps -> Containers!Outcomes]
    BY ContainerTypes
  <2>3. writes \in writes..MaxWrites
    BY <2>2, ContainerAssumption
  <2>. QED
    BY <2>1, <2>2, <2>3
<1>2. CASE Containers!Misses(j, h)
  BY <1>1, <1>2, MissIsQuiet
<1>3. CASE /\ channels[j][handles[h].id].kind = handles[h].kind
           /\ Containers!Takes(j, h) /\ UNCHANGED <<handles, nextId, written>>
  BY <1>1, <1>3, TakeEffect
<1>4. CASE /\ blocked' = blocked \cup {j}
           /\ UNCHANGED <<handles, channels, nextId, written, panicked, outcome, got>>
  BY <1>1, <1>4 DEF Quiet
<1>5. CASE /\ Containers!Returns(j, "Null") \/ Containers!Returns(j, "NoMethod")
           /\ UNCHANGED <<handles, channels, nextId, written, panicked, blocked, got>>
  <2>1. outcome' \in [Interps -> Containers!Outcomes]
    BY <1>5, ReturnsType, OutcomesAre
  <2>. QED
    BY <1>1, <1>5, <2>1 DEF Quiet
<1>. QED
  BY <1>2, <1>3, <1>4, <1>5 DEF Containers!Read, Containers!TryRead, Containers!SendToPipe, Containers!Entry

LEMMA CloseEffect ==
    ASSUME Containers!TypeOK, HandlesTell, NEW j \in Interps, NEW h \in 1..Len(handles),
           Containers!Close(j, h)
    PROVE  Shuts(j, h)
<1>1. /\ channels' = [channels EXCEPT ![j][handles[h].id] = [kind |-> "none", queue |-> <<>>]]
      /\ handles' = (IF handles[h].kind = "Pipe" THEN [handles EXCEPT ![h].closed = TRUE] ELSE handles)
      /\ Containers!Returns(j, "Void")
      /\ UNCHANGED <<nextId, blocked, panicked, written, got, writes>>
  BY DEF Containers!Close, Containers!Absent
<1>2. outcome' \in [Interps -> Containers!Outcomes]
  BY <1>1, ReturnsType, OutcomesAre
<1>3. handles \in Seq(Container)
  BY ContainerTypes
<1>4. HandlesKept /\ handles' \in Seq(Container)
  <2>1. CASE handles' = handles
    BY <1>3, <2>1 DEF HandlesKept
  <2>2. CASE handles' = [handles EXCEPT ![h].closed = TRUE]
    <3>1. handles' = [handles EXCEPT ![h] = [handles[h] EXCEPT !.closed = TRUE]]
      BY <2>2
    <3>2. PICK e : e = [handles[h] EXCEPT !.closed = TRUE]
      OBVIOUS
    <3>3. /\ e \in Container /\ e.id = handles[h].id /\ e.kind = handles[h].kind
          /\ e.maker = handles[h].maker
      <4>1. handles[h] \in Container
        BY <1>3, ElementOfSeq
      <4>. QED
        BY <3>2, <4>1 DEF Container
    <3>4. /\ handles' \in Seq(Container) /\ Len(handles') = Len(handles)
          /\ \A g \in 1..Len(handles) : handles'[g] = IF g = h THEN e ELSE handles[g]
      BY <1>3, <3>1, <3>2, <3>3, ExceptSeq
    <3>. QED
      BY <3>3, <3>4 DEF HandlesKept
  <2>. QED
    BY <1>1, <2>1, <2>2
<1>. QED
  BY <1>1, <1>2, <1>4 DEF Shuts

-----------------------------------------------------------------------------
LEMMA TypesNext ==
    ASSUME handles' \in Seq(Container), channels' \in [Interps -> [Slots -> Entries]],
           nextId' \in [Interps -> 1..(MaxHandles + 1)],
           blocked' \subseteq Interps, panicked' \subseteq Interps,
           outcome' \in [Interps -> Containers!Outcomes],
           written' \in [Interps -> [Slots -> Seq(Vals)]],
           got' \in [Interps -> [Slots -> Seq(Vals)]], writes' \in 0..MaxWrites
    PROVE  Containers!TypeOK'
<1>1. /\ Containers!Kinds \cup {"none"} = {"Pipe", "Hub", "none"}
      /\ Containers!Ids = Slots /\ Containers!Handles = Slots /\ Containers!Values = Vals
      /\ Containers!Kinds = {"Pipe", "Hub"}
  BY SlotsAre
<1>. QED
  BY <1>1 DEF Containers!TypeOK, Container, Entries

(* Time only adds to what an interpreter has written.                      *)
LEMMA ValuesKept ==
    ASSUME NEW i \in Interps, ValuesTell, writes \in Nat, writes' \in Nat, writes <= writes',
           Containers!TypeOK,
           written'[i] = written[i], got'[i] = got[i],
           \A c \in Slots : channels'[i][c].queue = channels[i][c].queue
    PROVE  /\ LogsAreOld(i)' /\ GotWasWritten(i)' /\ QueuedWasWritten(i)'
           /\ GotOnce(i)' /\ QueuedOnce(i)' /\ GotIsGone(i)'
<1>1. /\ LogsAreOld(i) /\ GotWasWritten(i) /\ QueuedWasWritten(i)
      /\ GotOnce(i) /\ QueuedOnce(i) /\ GotIsGone(i)
  BY DEF ValuesTell
<1>2. LogsAreOld(i)'
  <2>1. ASSUME NEW h \in Slots, NEW n \in 1..Len(written[i][h])
        PROVE  written[i][h][n] \in Nat /\ written[i][h][n] < writes
    <3>1. written[i][h] \in Seq(Vals)
      BY ContainerTypes
    <3>2. written[i][h][n] \in Vals
      BY <3>1, ElementOfSeq
    <3>. QED
      BY <1>1, <3>2 DEF LogsAreOld, Vals
  <2>2. \A v \in Nat : v < writes => v < writes'
    OBVIOUS
  <2>. QED
    BY <2>1, <2>2 DEF LogsAreOld
<1>3. GotWasWritten(i)' /\ QueuedWasWritten(i)'
  BY <1>1 DEF GotWasWritten, QueuedWasWritten, WasWritten
<1>4. GotOnce(i)'
  BY <1>1 DEF GotOnce
<1>5. QueuedOnce(i)'
  <2>1. PICK q : q = [c \in Slots |-> channels[i][c].queue]
    OBVIOUS
  <2>2. \A c \in Slots : q[c] = channels[i][c].queue /\ q[c] = channels'[i][c].queue
    BY <2>1
  <2>3. \A c, d \in Slots : \A m \in 1..Len(q[c]) : \A n \in 1..Len(q[d]) :
            q[c][m] = q[d][n] => c = d /\ m = n
    BY <1>1, <2>2 DEF QueuedOnce
  <2>. QED
    BY <2>2, <2>3 DEF QueuedOnce
<1>6. GotIsGone(i)'
  <2>1. PICK q, g : q = [c \in Slots |-> channels[i][c].queue] /\ g = got[i]
    OBVIOUS
  <2>2. /\ g = got[i] /\ g = got'[i]
        /\ \A c \in Slots : q[c] = channels[i][c].queue /\ q[c] = channels'[i][c].queue
    BY <2>1
  <2>3. GotIsGone(i)
    BY <1>1
  <2>4. \A h, c \in Slots : \A m \in 1..Len(g[h]) : \A n \in 1..Len(q[c]) : g[h][m] # q[c][n]
    BY <2>2, <2>3 DEF GotIsGone
  <2>. QED
    BY <2>2, <2>4 DEF GotIsGone
<1>. QED
  BY <1>2, <1>3, <1>4, <1>5, <1>6

LEMMA QuietKeepsInv ==
    ASSUME ContainersInv, NEW j \in Interps, NEW h \in 1..Len(handles), Quiet(j, h)
    PROVE  ContainersInv'
<1>1. /\ handles' = handles /\ channels' = channels /\ nextId' = nextId
      /\ written' = written /\ got' = got /\ writes' \in writes..MaxWrites
      /\ Containers!TypeOK /\ HandlesTell /\ EntriesTell /\ ValuesTell
      /\ Containers!PanicNeedsAlias
  BY DEF Quiet, ContainersInv
<1>2. /\ handles \in Seq(Container) /\ writes \in 0..MaxWrites /\ MaxWrites \in Nat
      /\ panicked \subseteq Interps
  BY <1>1, ContainerTypes, ContainerAssumption
<1>3. writes' \in 0..MaxWrites /\ writes' \in Nat /\ writes \in Nat /\ writes <= writes'
  BY <1>1, <1>2
<1>4. panicked' \subseteq Interps
  BY <1>2 DEF Quiet
<1>5. Containers!TypeOK'
  <2>1. blocked' \subseteq Interps /\ outcome' \in [Interps -> Containers!Outcomes]
    BY DEF Quiet
  <2>2. /\ handles' \in Seq(Container) /\ channels' \in [Interps -> [Slots -> Entries]]
        /\ nextId' \in [Interps -> 1..(MaxHandles + 1)]
        /\ written' \in [Interps -> [Slots -> Seq(Vals)]]
        /\ got' \in [Interps -> [Slots -> Seq(Vals)]]
    BY <1>1, ContainerTypes
  <2>. QED
    BY <1>3, <1>4, <2>1, <2>2, TypesNext
<1>6. HandlesKept
  BY <1>1 DEF HandlesKept
<1>7. Containers!PanicNeedsAlias'
  <2>1. handles' \in Seq(Container)
    BY <1>1, <1>2
  <2>2. \A i \in panicked' \ panicked :
            i = j /\ handles[h].kind = "Pipe" /\ channels[j][handles[h].id].kind = "Hub"
    BY DEF Quiet
  <2>. QED
    BY <1>1, <1>6, <2>1, <2>2, KeptPanics
<1>8. HandlesTell' /\ EntriesTell' /\ UnmadeUnused' /\ QueuesTell'
  <2>1. HandlesTell' /\ EntriesTell'
    BY <1>1 DEF HandlesTell, EntriesTell
  <2>2. UnmadeUnused'
    BY <1>1 DEF ContainersInv, UnmadeUnused
  <2>3. QueuesTell'
    BY <1>1 DEF ContainersInv, QueuesTell, Alone, InOrder
  <2>. QED
    BY <2>1, <2>2, <2>3
<1>9. ValuesTell'
  <2>1. ASSUME NEW i \in Interps
        PROVE  /\ LogsAreOld(i)' /\ GotWasWritten(i)' /\ QueuedWasWritten(i)'
               /\ GotOnce(i)' /\ QueuedOnce(i)' /\ GotIsGone(i)'
    BY <1>1, <1>3, ValuesKept
  <2>. QED
    BY <2>1 DEF ValuesTell
<1>. QED
  BY <1>5, <1>7, <1>8, <1>9 DEF ContainersInv

-----------------------------------------------------------------------------
(* A write: the value is new, and goes to the end of the queue and of what *)
(* its writer wrote through the handle.                                    *)
LEMMA PutFacts ==
    ASSUME ContainersInv, NEW j \in Interps, NEW h \in 1..Len(handles), Puts(j, h)
    PROVE  \E c \in Slots :
           /\ c = handles[h].id /\ h \in Slots /\ writes \in Vals
           /\ handles[h].kind \in {"Pipe", "Hub"}
           /\ channels[j][c].kind = handles[h].kind
           /\ channels' \in [Interps -> [Slots -> Entries]]
           /\ channels'[j][c].kind = handles[h].kind
           /\ channels'[j][c].queue = Append(channels[j][c].queue, writes)
           /\ \A d \in Slots : d # c => channels'[j][d] = channels[j][d]
           /\ \A i \in Interps : i # j => channels'[i] = channels[i]
           /\ written' \in [Interps -> [Slots -> Seq(Vals)]]
           /\ written'[j][h] = Append(written[j][h], writes)
           /\ \A k \in Slots : k # h => written'[j][k] = written[j][k]
           /\ \A i \in Interps : i # j => written'[i] = written[i]
<1>c. PICK c : c = handles[h].id
  OBVIOUS
<1>1. Containers!TypeOK /\ HandlesTell
  BY DEF ContainersInv
<1>2. /\ h \in Slots /\ c \in Slots /\ handles[h].kind \in {"Pipe", "Hub"}
  BY <1>c, <1>1, HandleType
<1>3. writes \in Vals
  <2>1. writes \in 0..MaxWrites /\ writes < MaxWrites /\ MaxWrites \in Nat
    BY <1>1, ContainerTypes, ContainerAssumption DEF Puts
  <2>. QED
    BY <2>1 DEF Vals
<1>4. channels[j][c].queue \in Seq(Vals)
  BY <1>1, <1>2, EntryType
<1>5. PICK e : e = [kind |-> handles[h].kind, queue |-> Append(channels[j][c].queue, writes)]
  OBVIOUS
<1>6. e \in Entries
  BY <1>2, <1>3, <1>4, <1>5, AppendProperties DEF Entries
<1>7. channels' = [channels EXCEPT ![j][c] = e] /\ channels[j][c].kind = handles[h].kind
  BY <1>c, <1>5 DEF Puts
<1>8. /\ channels' \in [Interps -> [Slots -> Entries]]
      /\ channels'[j][c] = e
      /\ \A d \in Slots : d # c => channels'[j][d] = channels[j][d]
      /\ \A i \in Interps : i # j => channels'[i] = channels[i]
  BY <1>1, <1>2, <1>6, <1>7, EntryChanges
<1>9. /\ written \in [Interps -> [Slots -> Seq(Vals)]]
      /\ written' = [written EXCEPT ![j][h] = Append(written[j][h], writes)]
  BY <1>1, ContainerTypes DEF Puts
<1>10. /\ written' \in [Interps -> [Slots -> Seq(Vals)]]
       /\ written'[j][h] = Append(written[j][h], writes)
       /\ \A k \in Slots : k # h => written'[j][k] = written[j][k]
       /\ \A i \in Interps : i # j => written'[i] = written[i]
  BY <1>2, <1>3, <1>9, LogGrows
<1>. QED
  BY <1>c, <1>2, <1>3, <1>5, <1>7, <1>8, <1>10

LEMMA AppendedIs ==
    ASSUME NEW S, NEW s \in Seq(S), NEW v \in S, NEW n \in 1..Len(Append(s, v))
    PROVE  \/ n \in 1..Len(s) /\ Append(s, v)[n] = s[n]
           \/ n = Len(s) + 1 /\ Append(s, v)[n] = v
  OBVIOUS

LEMMA AppendedHas ==
    ASSUME NEW S, NEW s \in Seq(S), NEW v \in S
    PROVE  /\ Len(s) + 1 \in 1..Len(Append(s, v)) /\ Append(s, v)[Len(s) + 1] = v
           /\ \A n \in 1..Len(s) : n \in 1..Len(Append(s, v)) /\ Append(s, v)[n] = s[n]
  OBVIOUS

LEMMA AppendsMeet ==
    ASSUME NEW S, NEW s \in Seq(S), NEW t \in Seq(S), NEW v \in S
    PROVE  s \o Append(t, v) = Append(s \o t, v)
  OBVIOUS

LEMMA PutsKeepValues ==
    ASSUME ContainersInv, NEW j \in Interps, NEW h \in 1..Len(handles), Puts(j, h)
    PROVE  /\ LogsAreOld(j)' /\ GotWasWritten(j)' /\ QueuedWasWritten(j)'
           /\ GotOnce(j)' /\ QueuedOnce(j)' /\ GotIsGone(j)'
<1>2. PICK c \in Slots :
          /\ h \in Slots /\ writes \in Vals
          /\ channels'[j][c].queue = Append(channels[j][c].queue, writes)
          /\ \A d \in Slots : d # c => channels'[j][d] = channels[j][d]
          /\ written'[j][h] = Append(written[j][h], writes)
          /\ \A k \in Slots : k # h => written'[j][k] = written[j][k]
  BY PutFacts
<1>3. /\ LogsAreOld(j) /\ GotWasWritten(j) /\ QueuedWasWritten(j)
      /\ GotOnce(j) /\ QueuedOnce(j) /\ GotIsGone(j)
      /\ Containers!TypeOK
  BY DEF ContainersInv, ValuesTell
<1>4. PICK v : v = writes
  OBVIOUS
<1>5. PICK q, q2 : /\ q = [d \in Slots |-> channels[j][d].queue]
                   /\ q2 = [d \in Slots |-> channels'[j][d].queue]
  OBVIOUS
<1>6. PICK w, w2, g : w = written[j] /\ w2 = written'[j] /\ g = got[j] /\ g = got'[j]
  BY DEF Puts
<1>7. /\ \A d \in Slots : q[d] = channels[j][d].queue /\ q2[d] = channels'[j][d].queue
      /\ q2[c] = Append(q[c], v) /\ \A d \in Slots : d # c => q2[d] = q[d]
      /\ w2[h] = Append(w[h], v) /\ \A d \in Slots : d # h => w2[d] = w[d]
  BY <1>2, <1>4, <1>5, <1>6
<1>8. /\ \A d \in Slots : q[d] \in Seq(Vals) /\ w[d] \in Seq(Vals) /\ g[d] \in Seq(Vals)
      /\ v \in Vals /\ writes' = v + 1
  <2>1. v \in Vals /\ writes' = v + 1
    BY <1>2, <1>4 DEF Puts
  <2>2. \A d \in Slots : q[d] \in Seq(Vals)
    BY <1>3, <1>7, EntryType
  <2>3. \A d \in Slots : w[d] \in Seq(Vals) /\ g[d] \in Seq(Vals)
    BY <1>3, <1>6, ContainerTypes
  <2>. QED
    BY <2>1, <2>2, <2>3
<1>a. /\ \A n \in 1..Len(w2[h]) : (n \in 1..Len(w[h]) /\ w2[h][n] = w[h][n])
                                     \/ (n = Len(w[h]) + 1 /\ w2[h][n] = v)
      /\ \A n \in 1..Len(w[h]) : n \in 1..Len(w2[h]) /\ w2[h][n] = w[h][n]
      /\ Len(w[h]) + 1 \in 1..Len(w2[h]) /\ w2[h][Len(w[h]) + 1] = v
  <2>1. PICK s \in Seq(Vals) : s = w[h]
    BY <1>2, <1>8
  <2>2. w2[h] = Append(s, v)
    BY <1>7, <2>1
  <2>. QED
    BY <1>8, <2>1, <2>2, AppendedIs, AppendedHas
<1>b. \A n \in 1..Len(q2[c]) : (n \in 1..Len(q[c]) /\ q2[c][n] = q[c][n])
                                  \/ (n = Len(q[c]) + 1 /\ q2[c][n] = v)
  <2>1. PICK s \in Seq(Vals) : s = q[c]
    BY <1>8
  <2>2. q2[c] = Append(s, v)
    BY <1>7, <2>1
  <2>. QED
    BY <1>8, <2>1, <2>2, AppendedIs
<1>9. \A d \in Slots : \A n \in 1..Len(w[d]) : w[d][n] \in Vals /\ w[d][n] < v
  BY <1>3, <1>4, <1>6, <1>8, ElementOfSeq DEF LogsAreOld
<1>10. ASSUME NEW x, WasWritten(j, x)
       PROVE  x \in Vals /\ x < v /\ WasWritten(j, x)'
  <2>1. PICK d \in Slots : \E n \in 1..Len(w[d]) : w[d][n] = x
    BY <1>6, <1>10 DEF WasWritten
  <2>2. PICK n \in 1..Len(w[d]) : w[d][n] = x
    BY <2>1
  <2>3. n \in 1..Len(w2[d]) /\ w2[d][n] = x
    <3>1. CASE d = h
      BY <1>a, <2>2, <3>1
    <3>2. CASE d # h
      BY <1>7, <2>2, <3>2
    <3>. QED
      BY <3>1, <3>2
  <2>. QED
    BY <1>6, <1>9, <2>2, <2>3 DEF WasWritten
<1>11. WasWritten(j, v)'
  BY <1>2, <1>6, <1>a DEF WasWritten
<1>12. \A d \in Slots : \A n \in 1..Len(q[d]) : WasWritten(j, q[d][n])
  BY <1>3, <1>7 DEF QueuedWasWritten
<1>13. \A d \in Slots : \A n \in 1..Len(g[d]) : WasWritten(j, g[d][n])
  BY <1>3, <1>6 DEF GotWasWritten
<1>14. ASSUME NEW d \in Slots, NEW n \in 1..Len(q2[d])
       PROVE  \/ n \in 1..Len(q[d]) /\ q2[d][n] = q[d][n] /\ q[d][n] # v
              \/ d = c /\ n = Len(q[c]) + 1 /\ q2[d][n] = v
  <2>1. \A x \in Vals : x < v => x # v
    BY <1>8 DEF Vals
  <2>2. n \in 1..Len(q[d]) => q[d][n] # v
    BY <1>10, <1>12, <2>1
  <2>3. CASE d = c
    BY <1>b, <2>2, <2>3
  <2>4. CASE d # c
    BY <1>7, <2>2, <2>4
  <2>. QED
    BY <2>3, <2>4
<1>15. \A d \in Slots : \A n \in 1..Len(g[d]) : g[d][n] # v
  <2>1. \A x \in Vals : x < v => x # v
    BY <1>8 DEF Vals
  <2>. QED
    BY <1>10, <1>13, <2>1
<1>16. LogsAreOld(j)'
  <2>1. ASSUME NEW d \in Slots, NEW n \in 1..Len(w2[d])
        PROVE  w2[d][n] \in Vals /\ w2[d][n] <= v
    <3>1. (n \in 1..Len(w[d]) /\ w2[d][n] = w[d][n]) \/ w2[d][n] = v
      <4>1. CASE d = h
        BY <1>a, <4>1
      <4>2. CASE d # h
        BY <1>7, <4>2
      <4>. QED
        BY <4>1, <4>2
    <3>2. \A x \in Vals : x < v => x <= v
      BY <1>8 DEF Vals
    <3>3. v <= v
      BY <1>8 DEF Vals
    <3>. QED
      BY <1>8, <1>9, <3>1, <3>2, <3>3
  <2>2. \A x \in Vals : x <= v => x < v + 1
    BY <1>8 DEF Vals
  <2>. QED
    BY <1>6, <1>8, <2>1, <2>2 DEF LogsAreOld
<1>17. GotWasWritten(j)'
  BY <1>6, <1>10, <1>13 DEF GotWasWritten
<1>18. QueuedWasWritten(j)'
  <2>1. \A d \in Slots : \A n \in 1..Len(q2[d]) : WasWritten(j, q2[d][n])'
    BY <1>10, <1>11, <1>12, <1>14
  <2>. QED
    BY <1>7, <2>1 DEF QueuedWasWritten
<1>19. GotOnce(j)'
  BY <1>3, <1>6 DEF GotOnce
<1>20. QueuedOnce(j)'
  <2>1. \A d, e \in Slots : \A m \in 1..Len(q[d]) : \A n \in 1..Len(q[e]) :
            q[d][m] = q[e][n] => d = e /\ m = n
    <3>1. (\A d \in Slots : q[d] = channels[j][d].queue) /\ QueuedOnce(j)
      BY <1>3, <1>7
    <3>. QED
      BY <3>1 DEF QueuedOnce
  <2>2. \A d, e \in Slots : \A m \in 1..Len(q2[d]) : \A n \in 1..Len(q2[e]) :
            q2[d][m] = q2[e][n] => d = e /\ m = n
    <3>1. SUFFICES ASSUME NEW d \in Slots, NEW e \in Slots,
                          NEW m \in 1..Len(q2[d]), NEW n \in 1..Len(q2[e]), q2[d][m] = q2[e][n]
                   PROVE  d = e /\ m = n
      OBVIOUS
    <3>2. \/ m \in 1..Len(q[d]) /\ q2[d][m] = q[d][m] /\ q[d][m] # v
          \/ d = c /\ m = Len(q[c]) + 1 /\ q2[d][m] = v
      BY <1>14
    <3>3. \/ n \in 1..Len(q[e]) /\ q2[e][n] = q[e][n] /\ q[e][n] # v
          \/ e = c /\ n = Len(q[c]) + 1 /\ q2[e][n] = v
      BY <1>14
    <3>. QED
      BY <2>1, <3>1, <3>2, <3>3
  <2>3. \A d \in Slots : q2[d] = channels'[j][d].queue
    BY <1>7
  <2>. QED
    BY <2>2, <2>3 DEF QueuedOnce
<1>21. GotIsGone(j)'
  <2>1. \A d, e \in Slots : \A m \in 1..Len(g[d]) : \A n \in 1..Len(q[e]) : g[d][m] # q[e][n]
    BY <1>3, <1>6, <1>7 DEF GotIsGone
  <2>2. \A d, e \in Slots : \A m \in 1..Len(g[d]) : \A n \in 1..Len(q2[e]) : g[d][m] # q2[e][n]
    BY <1>14, <1>15, <2>1
  <2>. QED
    BY <1>6, <1>7, <2>2 DEF GotIsGone
<1>. QED
  BY <1>16, <1>17, <1>18, <1>19, <1>20, <1>21

LEMMA PutsKeepQueues ==
    ASSUME ContainersInv, NEW j \in Interps, NEW h \in 1..Len(handles), Puts(j, h)
    PROVE  QueuesTell'
<1>1. PICK c \in Slots :
          /\ c = handles[h].id /\ h \in Slots /\ writes \in Vals
          /\ handles[h].kind \in {"Pipe", "Hub"}
          /\ channels[j][c].kind = handles[h].kind
          /\ channels'[j][c].kind = handles[h].kind
          /\ channels'[j][c].queue = Append(channels[j][c].queue, writes)
          /\ \A d \in Slots : d # c => channels'[j][d] = channels[j][d]
          /\ \A i \in Interps : i # j => channels'[i] = channels[i]
          /\ written'[j][h] = Append(written[j][h], writes)
          /\ \A k \in Slots : k # h => written'[j][k] = written[j][k]
          /\ \A i \in Interps : i # j => written'[i] = written[i]
  BY PutFacts
<1>2. Containers!TypeOK /\ HandlesTell /\ QueuesTell
  BY DEF ContainersInv
<1>3. handles' = handles /\ got' = got
  BY DEF Puts
<1>4. ASSUME NEW i \in Interps, NEW g \in 1..Len(handles), handles[g].maker = i, Alone(g, i)'
      PROVE  InOrder(g, i)'
  <2>1. g \in Slots /\ handles[g].id \in Slots /\ \A k \in 1..Len(handles) : k \in Slots
    BY <1>2, HandleType
  <2>2. \A k \in 1..Len(handles) : handles[k].id = handles[g].id /\ handles[k].maker # i
            => got[i][k] = <<>> /\ written'[i][k] = <<>>
    BY <1>3, <1>4 DEF Alone
  <2>3. CASE i # j
    <3>1. written'[i] = written[i] /\ channels'[i] = channels[i]
      BY <1>1, <2>3
    <3>2. Alone(g, i)
      BY <2>2, <3>1 DEF Alone
    <3>3. InOrder(g, i)
      BY <1>2, <1>4, <3>2 DEF QueuesTell
    <3>. QED
      BY <1>3, <3>1, <3>3 DEF InOrder
  <2>4. CASE i = j /\ g = h
    <3>1. Alone(g, i)
      <4>1. ASSUME NEW k \in 1..Len(handles), handles[k].id = handles[g].id, handles[k].maker # i
            PROVE  got[i][k] = <<>> /\ written[i][k] = <<>>
        <5>1. k # h
          BY <1>4, <2>4, <4>1
        <5>2. written'[i][k] = written[i][k]
          BY <1>1, <2>1, <2>4, <5>1
        <5>. QED
          BY <2>2, <4>1, <5>2
      <4>. QED
        BY <4>1 DEF Alone
    <3>2. InOrder(g, i)
      BY <1>2, <1>4, <3>1 DEF QueuesTell
    <3>3. got[j][h] \o channels[j][c].queue = written[j][h]
      BY <1>1, <2>4, <3>2 DEF InOrder
    <3>4. got[j][h] \in Seq(Vals) /\ channels[j][c].queue \in Seq(Vals)
      BY <1>1, <1>2, ContainerTypes, EntryType
    <3>5. got[j][h] \o channels'[j][c].queue = written'[j][h]
      <4>1. got[j][h] \o Append(channels[j][c].queue, writes)
                = Append(got[j][h] \o channels[j][c].queue, writes)
        <5>1. PICK s \in Seq(Vals), t \in Seq(Vals), v \in Vals :
                  s = got[j][h] /\ t = channels[j][c].queue /\ v = writes
          BY <1>1, <3>4
        <5>2. s \o Append(t, v) = Append(s \o t, v)
          BY AppendsMeet
        <5>. QED
          BY <5>1, <5>2
      <4>. QED
        BY <1>1, <3>3, <4>1
    <3>. QED
      BY <1>1, <1>3, <2>4, <3>5 DEF InOrder
  <2>5. CASE i = j /\ g # h /\ handles[g].id = c
    <3>1. handles[h].maker # j
      BY <1>1, <1>2, <1>4, <2>5 DEF HandlesTell
    <3>2. written'[j][h] = <<>>
      BY <1>1, <2>2, <2>5, <3>1
    <3>3. written[j][h] \in Seq(Vals)
      BY <1>1, <1>2, ContainerTypes
    <3>4. Append(written[j][h], writes) # <<>>
      BY <1>1, <3>3, AppendProperties
    <3>. QED
      BY <1>1, <3>2, <3>4
  <2>6. CASE i = j /\ handles[g].id # c
    <3>1. \A k \in 1..Len(handles) : handles[k].id = handles[g].id => written'[i][k] = written[i][k]
      BY <1>1, <2>1, <2>6
    <3>2. Alone(g, i)
      BY <2>2, <3>1 DEF Alone
    <3>3. InOrder(g, i)
      BY <1>2, <1>4, <3>2 DEF QueuesTell
    <3>4. channels'[i][handles[g].id] = channels[i][handles[g].id]
      BY <1>1, <2>1, <2>6
    <3>. QED
      BY <1>3, <3>1, <3>3, <3>4 DEF InOrder
  <2>. QED
    BY <1>1, <2>3, <2>4, <2>5, <2>6
<1>. QED
  BY <1>3, <1>4 DEF QueuesTell

LEMMA PutsKeepInv ==
    ASSUME ContainersInv, NEW j \in Interps, NEW h \in 1..Len(handles), Puts(j, h)
    PROVE  ContainersInv'
<1>1. PICK c \in Slots :
          /\ c = handles[h].id /\ h \in Slots /\ writes \in Vals
          /\ handles[h].kind \in {"Pipe", "Hub"}
          /\ channels[j][c].kind = handles[h].kind
          /\ channels' \in [Interps -> [Slots -> Entries]]
          /\ channels'[j][c].kind = handles[h].kind
          /\ \A d \in Slots : d # c => channels'[j][d] = channels[j][d]
          /\ \A i \in Interps : i # j => channels'[i] = channels[i]
          /\ written' \in [Interps -> [Slots -> Seq(Vals)]]
          /\ \A k \in Slots : k # h => written'[j][k] = written[j][k]
          /\ \A i \in Interps : i # j => written'[i] = written[i]
  BY PutFacts
<1>2. /\ Containers!TypeOK /\ HandlesTell /\ EntriesTell /\ UnmadeUnused /\ ValuesTell
      /\ Containers!PanicNeedsAlias
  BY DEF ContainersInv
<1>3. /\ UNCHANGED <<handles, nextId, blocked, panicked, got>>
      /\ writes < MaxWrites /\ writes' = writes + 1 /\ MaxWrites \in Nat
      /\ outcome' \in [Interps -> Containers!Outcomes]
  BY ContainerAssumption DEF Puts
<1>4. /\ handles \in Seq(Container) /\ writes \in 0..MaxWrites
      /\ nextId \in [Interps -> 1..(MaxHandles + 1)]
      /\ blocked \subseteq Interps /\ panicked \subseteq Interps
      /\ got \in [Interps -> [Slots -> Seq(Vals)]]
  BY <1>2, ContainerTypes
<1>5. writes' \in 0..MaxWrites /\ writes \in Nat /\ writes' \in Nat /\ writes <= writes'
  BY <1>3, <1>4
<1>6. Containers!TypeOK'
  BY <1>1, <1>3, <1>4, <1>5, TypesNext
<1>7. HandlesKept /\ nextId' = nextId
  BY <1>3 DEF HandlesKept
<1>8. HandlesTell'
  BY <1>2, <1>7, KeptHandlesTell
<1>9. EntriesTell'
  <2>1. ASSUME NEW i \in Interps, NEW d \in Slots
        PROVE  \/ channels'[i][d] = channels[i][d]
               \/ i = j /\ d = c
    BY <1>1
  <2>2. ASSUME NEW i \in Interps, NEW d \in Slots
        PROVE  /\ channels'[i][d].kind = channels[i][d].kind
               /\ channels'[i][d].kind = "none" => channels'[i][d].queue = channels[i][d].queue
    BY <1>1, <2>1
  <2>. QED
    BY <1>2, <1>3, <2>2 DEF EntriesTell
<1>10. UnmadeUnused'
  <2>1. ASSUME NEW i \in Interps, NEW k \in Slots, k > Len(handles)
        PROVE  written'[i][k] = written[i][k]
    <3>1. h \in 1..Len(handles) /\ Len(handles) \in Nat
      BY <1>4
    <3>2. k # h
      BY <2>1, <3>1
    <3>. QED
      BY <1>1, <3>2
  <2>. QED
    BY <1>2, <1>3, <2>1 DEF UnmadeUnused
<1>11. QueuesTell'
  BY PutsKeepQueues
<1>12. ValuesTell'
  <2>1. ASSUME NEW i \in Interps
        PROVE  /\ LogsAreOld(i)' /\ GotWasWritten(i)' /\ QueuedWasWritten(i)'
               /\ GotOnce(i)' /\ QueuedOnce(i)' /\ GotIsGone(i)'
    <3>1. CASE i = j
      BY <3>1, PutsKeepValues
    <3>2. CASE i # j
      <4>1. written'[i] = written[i] /\ got'[i] = got[i] /\ channels'[i] = channels[i]
        BY <1>1, <1>3, <3>2
      <4>. QED
        BY <1>2, <1>5, <4>1, ValuesKept
    <3>. QED
      BY <3>1, <3>2
  <2>. QED
    BY <2>1 DEF ValuesTell
<1>13. Containers!PanicNeedsAlias'
  <2>1. handles' \in Seq(Container) /\ panicked' \ panicked = {}
    BY <1>3, <1>4
  <2>. QED
    BY <1>2, <1>7, <2>1, KeptPanics
<1>. QED
  BY <1>6, <1>8, <1>9, <1>10, <1>11, <1>12, <1>13 DEF ContainersInv

-----------------------------------------------------------------------------
(* A read takes the head of the queue to the end of what was read.         *)
LEMMA HeadMoves ==
    ASSUME NEW S, NEW s \in Seq(S), NEW t \in Seq(S), t # <<>>
    PROVE  /\ Head(t) \in S /\ Tail(t) \in Seq(S) /\ Append(s, Head(t)) \in Seq(S)
           /\ Append(s, Head(t)) \o Tail(t) = s \o t
  OBVIOUS

LEMMA TailIs ==
    ASSUME NEW S, NEW t \in Seq(S), t # <<>>
    PROVE  /\ 1 \in 1..Len(t) /\ Head(t) = t[1]
           /\ \A n \in 1..Len(Tail(t)) : n + 1 \in 1..Len(t) /\ Tail(t)[n] = t[n + 1]
  OBVIOUS

LEMMA PopFacts ==
    ASSUME ContainersInv, NEW j \in Interps, NEW h \in 1..Len(handles), Pops(j, h)
    PROVE  \E c \in Slots : \E v \in Vals :
           /\ c = handles[h].id /\ h \in Slots
           /\ handles[h].kind \in {"Pipe", "Hub"}
           /\ channels[j][c].kind = handles[h].kind
           /\ channels[j][c].queue # <<>> /\ v = Head(channels[j][c].queue)
           /\ channels' \in [Interps -> [Slots -> Entries]]
           /\ channels'[j][c].kind = handles[h].kind
           /\ channels'[j][c].queue = Tail(channels[j][c].queue)
           /\ \A d \in Slots : d # c => channels'[j][d] = channels[j][d]
           /\ \A i \in Interps : i # j => channels'[i] = channels[i]
           /\ got' \in [Interps -> [Slots -> Seq(Vals)]]
           /\ got'[j][h] = Append(got[j][h], v)
           /\ \A k \in Slots : k # h => got'[j][k] = got[j][k]
           /\ \A i \in Interps : i # j => got'[i] = got[i]
<1>c. PICK c : c = handles[h].id
  OBVIOUS
<1>1. Containers!TypeOK /\ HandlesTell
  BY DEF ContainersInv
<1>2. /\ h \in Slots /\ c \in Slots /\ handles[h].kind \in {"Pipe", "Hub"}
  BY <1>c, <1>1, HandleType
<1>3. channels[j][c].queue \in Seq(Vals) /\ channels[j][c].queue # <<>>
  BY <1>c, <1>1, <1>2, EntryType DEF Pops
<1>4. PICK v : v = Head(channels[j][c].queue)
  OBVIOUS
<1>5. PICK e : e = [kind |-> handles[h].kind, queue |-> Tail(channels[j][c].queue)]
  OBVIOUS
<1>6. e \in Entries /\ v \in Vals
  BY <1>2, <1>3, <1>4, <1>5, HeadTailProperties DEF Entries
<1>7. channels' = [channels EXCEPT ![j][c] = e] /\ channels[j][c].kind = handles[h].kind
  BY <1>c, <1>5 DEF Pops
<1>8. /\ channels' \in [Interps -> [Slots -> Entries]]
      /\ channels'[j][c] = e
      /\ \A d \in Slots : d # c => channels'[j][d] = channels[j][d]
      /\ \A i \in Interps : i # j => channels'[i] = channels[i]
  BY <1>1, <1>2, <1>6, <1>7, EntryChanges
<1>9. /\ got \in [Interps -> [Slots -> Seq(Vals)]]
      /\ got' = [got EXCEPT ![j][h] = Append(got[j][h], v)]
  BY <1>c, <1>1, <1>4, ContainerTypes DEF Pops
<1>10. /\ got' \in [Interps -> [Slots -> Seq(Vals)]]
       /\ got'[j][h] = Append(got[j][h], v)
       /\ \A k \in Slots : k # h => got'[j][k] = got[j][k]
       /\ \A i \in Interps : i # j => got'[i] = got[i]
  BY <1>2, <1>6, <1>9, LogGrows
<1>11. /\ channels[j][c].kind = handles[h].kind /\ channels[j][c].queue # <<>>
       /\ v = Head(channels[j][c].queue)
       /\ channels'[j][c].kind = handles[h].kind
       /\ channels'[j][c].queue = Tail(channels[j][c].queue)
  BY <1>3, <1>4, <1>5, <1>7, <1>8
<1>12. c \in Slots /\ v \in Vals
  BY <1>2, <1>6
<1>. USE <1>12
<1>. WITNESS c \in Slots, v \in Vals
<1>. QED
  BY <1>c, <1>2, <1>8, <1>10, <1>11

LEMMA PopsKeepValues ==
    ASSUME ContainersInv, NEW j \in Interps, NEW h \in 1..Len(handles), Pops(j, h)
    PROVE  /\ LogsAreOld(j)' /\ GotWasWritten(j)' /\ QueuedWasWritten(j)'
           /\ GotOnce(j)' /\ QueuedOnce(j)' /\ GotIsGone(j)'
<1>1. PICK c \in Slots, v \in Vals :
          /\ h \in Slots
          /\ channels[j][c].queue # <<>> /\ v = Head(channels[j][c].queue)
          /\ channels'[j][c].queue = Tail(channels[j][c].queue)
          /\ \A d \in Slots : d # c => channels'[j][d] = channels[j][d]
          /\ got'[j][h] = Append(got[j][h], v)
          /\ \A k \in Slots : k # h => got'[j][k] = got[j][k]
  BY PopFacts
<1>2. /\ LogsAreOld(j) /\ GotWasWritten(j) /\ QueuedWasWritten(j)
      /\ GotOnce(j) /\ QueuedOnce(j) /\ GotIsGone(j)
      /\ Containers!TypeOK
  BY DEF ContainersInv, ValuesTell
<1>3. written' = written /\ writes' = writes
  BY DEF Pops
<1>4. PICK q, q2 : /\ q = [d \in Slots |-> channels[j][d].queue]
                   /\ q2 = [d \in Slots |-> channels'[j][d].queue]
  OBVIOUS
<1>5. PICK g, g2 : g = got[j] /\ g2 = got'[j]
  OBVIOUS
<1>6. \A d \in Slots : q[d] = channels[j][d].queue /\ q2[d] = channels'[j][d].queue
  BY <1>4
<1>7. /\ q[c] # <<>> /\ v = Head(q[c])
      /\ q2[c] = Tail(q[c]) /\ \A d \in Slots : d # c => q2[d] = q[d]
      /\ g2[h] = Append(g[h], v) /\ \A d \in Slots : d # h => g2[d] = g[d]
  BY <1>1, <1>5, <1>6
<1>8. \A d \in Slots : q[d] \in Seq(Vals) /\ g[d] \in Seq(Vals)
  <2>1. \A d \in Slots : q[d] \in Seq(Vals)
    BY <1>2, <1>6, EntryType
  <2>2. \A d \in Slots : g[d] \in Seq(Vals)
    BY <1>2, <1>5, ContainerTypes
  <2>. QED
    BY <2>1, <2>2
<1>9. /\ 1 \in 1..Len(q[c]) /\ v = q[c][1]
      /\ \A n \in 1..Len(q2[c]) : n + 1 \in 1..Len(q[c]) /\ q2[c][n] = q[c][n + 1]
  <2>1. PICK t \in Seq(Vals) : t = q[c]
    BY <1>8
  <2>2. t # <<>> /\ v = Head(t) /\ q2[c] = Tail(t)
    BY <1>7, <2>1
  <2>. QED
    BY <2>1, <2>2, TailIs
<1>10. /\ \A d, e \in Slots : \A m \in 1..Len(q[d]) : \A n \in 1..Len(q[e]) :
              q[d][m] = q[e][n] => d = e /\ m = n
  <2>1. (\A d \in Slots : q[d] = channels[j][d].queue) /\ QueuedOnce(j)
    BY <1>2, <1>6
  <2>. QED
    BY <2>1 DEF QueuedOnce
<1>11. \A d, e \in Slots : \A m \in 1..Len(g[d]) : \A n \in 1..Len(q[e]) : g[d][m] # q[e][n]
  <2>1. (\A d \in Slots : q[d] = channels[j][d].queue) /\ g = got[j] /\ GotIsGone(j)
    BY <1>2, <1>5, <1>6
  <2>. QED
    BY <2>1 DEF GotIsGone
<1>12. \A d, e \in Slots : \A m \in 1..Len(g[d]) : \A n \in 1..Len(g[e]) :
              g[d][m] = g[e][n] => d = e /\ m = n
  BY <1>2, <1>5 DEF GotOnce
<1>13. ASSUME NEW d \in Slots, NEW n \in 1..Len(q2[d])
       PROVE  \E m \in 1..Len(q[d]) :
                  q2[d][n] = q[d][m] /\ q2[d][n] # v /\ m = (IF d = c THEN n + 1 ELSE n)
  <2>1. CASE d = c
    <3>1. n + 1 \in 1..Len(q[c]) /\ q2[c][n] = q[c][n + 1] /\ n + 1 # 1
      BY <1>9, <2>1
    <3>2. q[c][n + 1] # v
      BY <1>9, <1>10, <3>1
    <3>. QED
      BY <2>1, <3>1, <3>2
  <2>2. CASE d # c
    BY <1>7, <1>9, <1>10, <2>2
  <2>. QED
    BY <2>1, <2>2
<1>14. ASSUME NEW d \in Slots, NEW n \in 1..Len(g2[d])
       PROVE  \/ n \in 1..Len(g[d]) /\ g2[d][n] = g[d][n] /\ g2[d][n] # v
              \/ d = h /\ n = Len(g[h]) + 1 /\ g2[d][n] = v
  <2>1. n \in 1..Len(g[d]) => g[d][n] # v
    BY <1>9, <1>11
  <2>2. CASE d = h
    <3>1. PICK s \in Seq(Vals) : s = g[h]
      BY <1>1, <1>8
    <3>2. n \in 1..Len(Append(s, v)) /\ g2[d] = Append(s, v)
      BY <1>7, <2>2, <3>1
    <3>3. (n \in 1..Len(s) /\ Append(s, v)[n] = s[n]) \/ (n = Len(s) + 1 /\ Append(s, v)[n] = v)
      BY <3>2, AppendedIs
    <3>. QED
      BY <2>1, <2>2, <3>1, <3>2, <3>3
  <2>3. CASE d # h
    BY <1>7, <2>1, <2>3
  <2>. QED
    BY <2>2, <2>3
<1>15. \A x : WasWritten(j, x)' <=> WasWritten(j, x)
  BY <1>3 DEF WasWritten
<1>16. /\ \A d \in Slots : \A n \in 1..Len(q[d]) : WasWritten(j, q[d][n])
       /\ \A d \in Slots : \A n \in 1..Len(g[d]) : WasWritten(j, g[d][n])
  <2>1. \A d \in Slots : \A n \in 1..Len(q[d]) : WasWritten(j, q[d][n])
    BY <1>2, <1>6 DEF QueuedWasWritten
  <2>2. \A d \in Slots : \A n \in 1..Len(g[d]) : WasWritten(j, g[d][n])
    BY <1>2, <1>5 DEF GotWasWritten
  <2>. QED
    BY <2>1, <2>2
<1>17. LogsAreOld(j)'
  BY <1>2, <1>3 DEF LogsAreOld
<1>18. QueuedWasWritten(j)'
  <2>1. \A d \in Slots : \A n \in 1..Len(q2[d]) : WasWritten(j, q2[d][n])
    BY <1>13, <1>16
  <2>. QED
    BY <1>6, <1>15, <2>1 DEF QueuedWasWritten
<1>19. GotWasWritten(j)'
  <2>1. WasWritten(j, v)
    BY <1>9, <1>16
  <2>2. \A d \in Slots : \A n \in 1..Len(g2[d]) : WasWritten(j, g2[d][n])
    BY <1>14, <1>16, <2>1
  <2>. QED
    BY <1>5, <1>15, <2>2 DEF GotWasWritten
<1>20. QueuedOnce(j)'
  <2>1. ASSUME NEW d \in Slots, NEW e \in Slots, NEW m \in 1..Len(q2[d]), NEW n \in 1..Len(q2[e]),
               q2[d][m] = q2[e][n]
        PROVE  d = e /\ m = n
    <3>1. PICK x \in 1..Len(q[d]) : q2[d][m] = q[d][x] /\ x = (IF d = c THEN m + 1 ELSE m)
      BY <1>13
    <3>2. PICK y \in 1..Len(q[e]) : q2[e][n] = q[e][y] /\ y = (IF e = c THEN n + 1 ELSE n)
      BY <1>13
    <3>3. d = e /\ x = y
      <4>1. q[d][x] = q[e][y]
        BY <2>1, <3>1, <3>2
      <4>. QED
        BY <1>10, <4>1
    <3>4. m \in Int /\ n \in Int
      OBVIOUS
    <3>5. m + 1 = n + 1 \/ m = n
      BY <3>1, <3>2, <3>3
    <3>6. m = n
      BY <3>4, <3>5
    <3>. QED
      BY <3>3, <3>6
  <2>. QED
    BY <1>6, <2>1 DEF QueuedOnce
<1>21. GotOnce(j)'
  <2>1. ASSUME NEW d \in Slots, NEW e \in Slots, NEW m \in 1..Len(g2[d]), NEW n \in 1..Len(g2[e]),
               g2[d][m] = g2[e][n]
        PROVE  d = e /\ m = n
    <3>1. \/ m \in 1..Len(g[d]) /\ g2[d][m] = g[d][m] /\ g2[d][m] # v
          \/ d = h /\ m = Len(g[h]) + 1 /\ g2[d][m] = v
      BY <1>14
    <3>2. \/ n \in 1..Len(g[e]) /\ g2[e][n] = g[e][n] /\ g2[e][n] # v
          \/ e = h /\ n = Len(g[h]) + 1 /\ g2[e][n] = v
      BY <1>14
    <3>. QED
      BY <1>12, <2>1, <3>1, <3>2
  <2>. QED
    BY <1>5, <2>1 DEF GotOnce
<1>22. GotIsGone(j)'
  <2>1. ASSUME NEW d \in Slots, NEW e \in Slots, NEW m \in 1..Len(g2[d]), NEW n \in 1..Len(q2[e])
        PROVE  g2[d][m] # q2[e][n]
    <3>1. \/ m \in 1..Len(g[d]) /\ g2[d][m] = g[d][m] /\ g2[d][m] # v
          \/ d = h /\ m = Len(g[h]) + 1 /\ g2[d][m] = v
      BY <1>14
    <3>2. PICK y \in 1..Len(q[e]) : q2[e][n] = q[e][y] /\ q2[e][n] # v
      BY <1>13
    <3>. QED
      BY <1>11, <3>1, <3>2
  <2>. QED
    BY <1>5, <1>6, <2>1 DEF GotIsGone
<1>. QED
  BY <1>17, <1>18, <1>19, <1>20, <1>21, <1>22

LEMMA PopsKeepQueues ==
    ASSUME ContainersInv, NEW j \in Interps, NEW h \in 1..Len(handles), Pops(j, h)
    PROVE  QueuesTell'
<1>1. PICK c \in Slots, v \in Vals :
          /\ c = handles[h].id /\ h \in Slots
          /\ handles[h].kind \in {"Pipe", "Hub"}
          /\ channels[j][c].kind = handles[h].kind
          /\ channels[j][c].queue # <<>> /\ v = Head(channels[j][c].queue)
          /\ channels'[j][c].kind = handles[h].kind
          /\ channels'[j][c].queue = Tail(channels[j][c].queue)
          /\ \A d \in Slots : d # c => channels'[j][d] = channels[j][d]
          /\ \A i \in Interps : i # j => channels'[i] = channels[i]
          /\ got'[j][h] = Append(got[j][h], v)
          /\ \A k \in Slots : k # h => got'[j][k] = got[j][k]
          /\ \A i \in Interps : i # j => got'[i] = got[i]
  BY PopFacts
<1>2. Containers!TypeOK /\ HandlesTell /\ QueuesTell
  BY DEF ContainersInv
<1>3. handles' = handles /\ written' = written
  BY DEF Pops
<1>4. ASSUME NEW i \in Interps, NEW g \in 1..Len(handles), handles[g].maker = i, Alone(g, i)'
      PROVE  InOrder(g, i)'
  <2>1. g \in Slots /\ handles[g].id \in Slots /\ \A k \in 1..Len(handles) : k \in Slots
    BY <1>2, HandleType
  <2>2. \A k \in 1..Len(handles) : handles[k].id = handles[g].id /\ handles[k].maker # i
            => got'[i][k] = <<>> /\ written[i][k] = <<>>
    BY <1>3, <1>4 DEF Alone
  <2>3. CASE i # j
    <3>1. got'[i] = got[i] /\ channels'[i] = channels[i]
      BY <1>1, <2>3
    <3>2. Alone(g, i)
      BY <2>2, <3>1 DEF Alone
    <3>3. InOrder(g, i)
      BY <1>2, <1>4, <3>2 DEF QueuesTell
    <3>. QED
      BY <1>3, <3>1, <3>3 DEF InOrder
  <2>4. CASE i = j /\ g = h
    <3>1. Alone(g, i)
      <4>1. ASSUME NEW k \in 1..Len(handles), handles[k].id = handles[g].id, handles[k].maker # i
            PROVE  got[i][k] = <<>> /\ written[i][k] = <<>>
        <5>1. k # h
          BY <1>4, <2>4, <4>1
        <5>2. got'[i][k] = got[i][k]
          BY <1>1, <2>1, <2>4, <5>1
        <5>. QED
          BY <2>2, <4>1, <5>2
      <4>. QED
        BY <4>1 DEF Alone
    <3>2. InOrder(g, i)
      BY <1>2, <1>4, <3>1 DEF QueuesTell
    <3>3. got[j][h] \o channels[j][c].queue = written[j][h]
      BY <1>1, <2>4, <3>2 DEF InOrder
    <3>4. got[j][h] \in Seq(Vals) /\ channels[j][c].queue \in Seq(Vals)
      BY <1>1, <1>2, ContainerTypes, EntryType
    <3>5. got'[j][h] \o channels'[j][c].queue = written[j][h]
      <4>1. PICK s \in Seq(Vals), t \in Seq(Vals) : s = got[j][h] /\ t = channels[j][c].queue
        BY <3>4
      <4>2. t # <<>> /\ got'[j][h] = Append(s, Head(t)) /\ channels'[j][c].queue = Tail(t)
        BY <1>1, <4>1
      <4>3. Append(s, Head(t)) \o Tail(t) = s \o t
        BY <4>2, HeadMoves
      <4>. QED
        BY <3>3, <4>1, <4>2, <4>3
    <3>. QED
      BY <1>1, <1>3, <2>4, <3>5 DEF InOrder
  <2>5. CASE i = j /\ g # h /\ handles[g].id = c
    <3>1. handles[h].maker # j
      BY <1>1, <1>2, <1>4, <2>5 DEF HandlesTell
    <3>2. got'[j][h] = <<>>
      BY <1>1, <2>2, <2>5, <3>1
    <3>3. got[j][h] \in Seq(Vals)
      BY <1>1, <1>2, ContainerTypes
    <3>4. Append(got[j][h], v) # <<>>
      BY <1>1, <3>3, AppendProperties
    <3>. QED
      BY <1>1, <3>2, <3>4
  <2>6. CASE i = j /\ handles[g].id # c
    <3>1. \A k \in 1..Len(handles) : handles[k].id = handles[g].id => got'[i][k] = got[i][k]
      BY <1>1, <2>1, <2>6
    <3>2. Alone(g, i)
      BY <2>2, <3>1 DEF Alone
    <3>3. InOrder(g, i)
      BY <1>2, <1>4, <3>2 DEF QueuesTell
    <3>4. channels'[i][handles[g].id] = channels[i][handles[g].id]
      BY <1>1, <2>1, <2>6
    <3>. QED
      BY <1>3, <3>1, <3>3, <3>4 DEF InOrder
  <2>. QED
    BY <1>1, <2>3, <2>4, <2>5, <2>6
<1>. QED
  BY <1>3, <1>4 DEF QueuesTell

LEMMA PopsKeepInv ==
    ASSUME ContainersInv, NEW j \in Interps, NEW h \in 1..Len(handles), Pops(j, h)
    PROVE  ContainersInv'
<1>1. PICK c \in Slots, v \in Vals :
          /\ c = handles[h].id /\ h \in Slots
          /\ handles[h].kind \in {"Pipe", "Hub"}
          /\ channels[j][c].kind = handles[h].kind
          /\ channels' \in [Interps -> [Slots -> Entries]]
          /\ channels'[j][c].kind = handles[h].kind
          /\ \A d \in Slots : d # c => channels'[j][d] = channels[j][d]
          /\ \A i \in Interps : i # j => channels'[i] = channels[i]
          /\ got' \in [Interps -> [Slots -> Seq(Vals)]]
          /\ \A k \in Slots : k # h => got'[j][k] = got[j][k]
          /\ \A i \in Interps : i # j => got'[i] = got[i]
  BY PopFacts
<1>2. /\ Containers!TypeOK /\ HandlesTell /\ EntriesTell /\ UnmadeUnused /\ ValuesTell
      /\ Containers!PanicNeedsAlias
  BY DEF ContainersInv
<1>3. /\ UNCHANGED <<handles, nextId, blocked, panicked, written, writes>>
      /\ outcome' \in [Interps -> Containers!Outcomes]
  BY DEF Pops
<1>4. /\ handles \in Seq(Container) /\ writes \in 0..MaxWrites
      /\ nextId \in [Interps -> 1..(MaxHandles + 1)]
      /\ blocked \subseteq Interps /\ panicked \subseteq Interps
      /\ written \in [Interps -> [Slots -> Seq(Vals)]]
  BY <1>2, ContainerTypes
<1>5. writes \in Nat /\ writes' \in Nat /\ writes <= writes'
  BY <1>3, <1>4
<1>6. Containers!TypeOK'
  BY <1>1, <1>3, <1>4, TypesNext
<1>7. HandlesKept /\ nextId' = nextId
  BY <1>3 DEF HandlesKept
<1>8. HandlesTell'
  BY <1>2, <1>7, KeptHandlesTell
<1>9. EntriesTell'
  <2>1. ASSUME NEW i \in Interps, NEW d \in Slots
        PROVE  \/ channels'[i][d] = channels[i][d]
               \/ i = j /\ d = c
    BY <1>1
  <2>2. ASSUME NEW i \in Interps, NEW d \in Slots
        PROVE  /\ channels'[i][d].kind = channels[i][d].kind
               /\ channels'[i][d].kind = "none" => channels'[i][d].queue = channels[i][d].queue
    BY <1>1, <2>1
  <2>. QED
    BY <1>2, <1>3, <2>2 DEF EntriesTell
<1>10. UnmadeUnused'
  <2>1. ASSUME NEW i \in Interps, NEW k \in Slots, k > Len(handles)
        PROVE  got'[i][k] = got[i][k]
    <3>1. h \in 1..Len(handles) /\ Len(handles) \in Nat
      BY <1>4
    <3>2. k # h
      BY <2>1, <3>1
    <3>. QED
      BY <1>1, <3>2
  <2>. QED
    BY <1>2, <1>3, <2>1 DEF UnmadeUnused
<1>11. QueuesTell'
  BY PopsKeepQueues
<1>12. ValuesTell'
  <2>1. ASSUME NEW i \in Interps
        PROVE  /\ LogsAreOld(i)' /\ GotWasWritten(i)' /\ QueuedWasWritten(i)'
               /\ GotOnce(i)' /\ QueuedOnce(i)' /\ GotIsGone(i)'
    <3>1. CASE i = j
      BY <3>1, PopsKeepValues
    <3>2. CASE i # j
      <4>1. written'[i] = written[i] /\ got'[i] = got[i] /\ channels'[i] = channels[i]
        BY <1>1, <1>3, <3>2
      <4>. QED
        BY <1>2, <1>5, <4>1, ValuesKept
    <3>. QED
      BY <3>1, <3>2
  <2>. QED
    BY <2>1 DEF ValuesTell
<1>13. Containers!PanicNeedsAlias'
  <2>1. handles' \in Seq(Container) /\ panicked' \ panicked = {}
    BY <1>3, <1>4
  <2>. QED
    BY <1>2, <1>7, <2>1, KeptPanics
<1>. QED
  BY <1>6, <1>8, <1>9, <1>10, <1>11, <1>12, <1>13 DEF ContainersInv

-----------------------------------------------------------------------------
(* A close: what was queued is gone, what was read stays a prefix.         *)
LEMMA ShutFacts ==
    ASSUME ContainersInv, NEW j \in Interps, NEW h \in 1..Len(handles), Shuts(j, h)
    PROVE  \E c \in Slots :
           /\ c = handles[h].id
           /\ channels' \in [Interps -> [Slots -> Entries]]
           /\ channels'[j][c].kind = "none" /\ channels'[j][c].queue = <<>>
           /\ \A d \in Slots : d # c => channels'[j][d] = channels[j][d]
           /\ \A i \in Interps : i # j => channels'[i] = channels[i]
<1>1. PICK c \in Slots : c = handles[h].id
  BY HandleType DEF ContainersInv
<1>2. PICK e : e = [kind |-> "none", queue |-> <<>>]
  OBVIOUS
<1>3. e \in Entries /\ e.kind = "none" /\ e.queue = <<>>
  BY <1>2, EmptySeq DEF Entries
<1>4. channels' = [channels EXCEPT ![j][c] = e] /\ Containers!TypeOK
  BY <1>1, <1>2 DEF Shuts, ContainersInv
<1>5. /\ channels' \in [Interps -> [Slots -> Entries]]
      /\ channels'[j][c] = e
      /\ \A d \in Slots : d # c => channels'[j][d] = channels[j][d]
      /\ \A i \in Interps : i # j => channels'[i] = channels[i]
  BY <1>3, <1>4, EntryChanges
<1>. QED
  BY <1>1, <1>3, <1>5

LEMMA ShutsKeepQueues ==
    ASSUME ContainersInv, NEW j \in Interps, NEW h \in 1..Len(handles), Shuts(j, h)
    PROVE  QueuesTell'
<1>1. PICK c \in Slots :
          /\ c = handles[h].id
          /\ channels'[j][c].kind = "none"
          /\ \A d \in Slots : d # c => channels'[j][d] = channels[j][d]
          /\ \A i \in Interps : i # j => channels'[i] = channels[i]
  BY ShutFacts
<1>2. Containers!TypeOK /\ HandlesTell /\ QueuesTell
  BY DEF ContainersInv
<1>3. /\ HandlesKept /\ written' = written /\ got' = got
  BY DEF Shuts
<1>4. ASSUME NEW i \in Interps, NEW g \in 1..Len(handles), handles[g].maker = i, Alone(g, i)'
      PROVE  InOrder(g, i)'
  <2>1. g \in Slots /\ handles[g].id \in Slots /\ handles'[g].id = handles[g].id
    BY <1>2, <1>3, HandleType DEF HandlesKept
  <2>2. Alone(g, i)
    BY <1>3, <1>4 DEF Alone, HandlesKept
  <2>3. InOrder(g, i)
    BY <1>2, <1>4, <2>2 DEF QueuesTell
  <2>4. CASE i = j /\ handles[g].id = c
    <3>1. Containers!IsPrefix(got[i][g], written[i][g])
      <4>1. CASE channels[i][handles[g].id].kind = "none"
        BY <2>3, <4>1 DEF InOrder
      <4>2. CASE channels[i][handles[g].id].kind # "none"
        <5>1. got[i][g] \o channels[i][handles[g].id].queue = written[i][g]
          BY <2>3, <4>2 DEF InOrder
        <5>2. got[i][g] \in Seq(Vals) /\ channels[i][handles[g].id].queue \in Seq(Vals)
          BY <1>2, <2>1, ContainerTypes, EntryType
        <5>. QED
          BY <5>1, <5>2, PrefixOf
      <4>. QED
        BY <4>1, <4>2
    <3>. QED
      BY <1>1, <1>3, <2>1, <2>4, <3>1 DEF InOrder
  <2>5. CASE ~(i = j /\ handles[g].id = c)
    <3>1. channels'[i][handles[g].id] = channels[i][handles[g].id]
      BY <1>1, <2>1, <2>5
    <3>. QED
      BY <1>3, <2>1, <2>3, <3>1 DEF InOrder
  <2>. QED
    BY <2>4, <2>5
<1>. QED
  BY <1>3, <1>4 DEF QueuesTell, HandlesKept

LEMMA ShutsKeepInv ==
    ASSUME ContainersInv, NEW j \in Interps, NEW h \in 1..Len(handles), Shuts(j, h)
    PROVE  ContainersInv'
<1>1. PICK c \in Slots :
          /\ c = handles[h].id
          /\ channels' \in [Interps -> [Slots -> Entries]]
          /\ channels'[j][c].kind = "none" /\ channels'[j][c].queue = <<>>
          /\ \A d \in Slots : d # c => channels'[j][d] = channels[j][d]
          /\ \A i \in Interps : i # j => channels'[i] = channels[i]
  BY ShutFacts
<1>2. /\ Containers!TypeOK /\ HandlesTell /\ EntriesTell /\ UnmadeUnused /\ ValuesTell
      /\ Containers!PanicNeedsAlias
  BY DEF ContainersInv
<1>3. /\ UNCHANGED <<nextId, blocked, panicked, written, got, writes>>
      /\ outcome' \in [Interps -> Containers!Outcomes]
      /\ HandlesKept /\ handles' \in Seq(Container)
  BY DEF Shuts
<1>4. /\ writes \in 0..MaxWrites
      /\ nextId \in [Interps -> 1..(MaxHandles + 1)]
      /\ blocked \subseteq Interps /\ panicked \subseteq Interps
      /\ written \in [Interps -> [Slots -> Seq(Vals)]]
      /\ got \in [Interps -> [Slots -> Seq(Vals)]]
  BY <1>2, ContainerTypes
<1>5. Containers!TypeOK'
  BY <1>1, <1>3, <1>4, TypesNext
<1>6. HandlesTell'
  BY <1>2, <1>3, KeptHandlesTell
<1>7. EntriesTell'
  <2>1. ASSUME NEW i \in Interps, NEW d \in Slots
        PROVE  \/ channels'[i][d] = channels[i][d]
               \/ channels'[i][d].kind = "none" /\ channels'[i][d].queue = <<>>
    BY <1>1
  <2>. QED
    BY <1>2, <1>3, <2>1 DEF EntriesTell, HandlesKept
<1>8. UnmadeUnused'
  BY <1>2, <1>3 DEF UnmadeUnused, HandlesKept
<1>9. QueuesTell'
  BY ShutsKeepQueues
<1>10. ValuesTell'
  <2>1. ASSUME NEW i \in Interps
        PROVE  /\ LogsAreOld(i)' /\ GotWasWritten(i)' /\ QueuedWasWritten(i)'
               /\ GotOnce(i)' /\ QueuedOnce(i)' /\ GotIsGone(i)'
    <3>1. LogsAreOld(i)' /\ GotWasWritten(i)' /\ GotOnce(i)'
      <4>1. LogsAreOld(i) /\ GotWasWritten(i) /\ GotOnce(i)
        BY <1>2 DEF ValuesTell
      <4>a. written' = written /\ got' = got /\ writes' = writes
        BY <1>3
      <4>2. LogsAreOld(i)'
        BY <4>a, <4>1 DEF LogsAreOld
      <4>3. GotWasWritten(i)'
        BY <4>a, <4>1 DEF GotWasWritten, WasWritten
      <4>4. GotOnce(i)'
        BY <4>a, <4>1 DEF GotOnce
      <4>. QED
        BY <4>2, <4>3, <4>4
    <3>2. PICK q, q2 : /\ q = [d \in Slots |-> channels[i][d].queue]
                       /\ q2 = [d \in Slots |-> channels'[i][d].queue]
      OBVIOUS
    <3>3. \A d \in Slots : /\ q[d] = channels[i][d].queue /\ q2[d] = channels'[i][d].queue
                           /\ q2[d] = q[d] \/ q2[d] = <<>>
      BY <1>1, <3>2
    <3>4. \A d \in Slots : \A n \in 1..Len(q2[d]) : n \in 1..Len(q[d]) /\ q2[d][n] = q[d][n]
      BY <3>3
    <3>5. QueuedWasWritten(i)'
      <4>1. \A d \in Slots : \A n \in 1..Len(q[d]) : WasWritten(i, q[d][n])
        <5>1. QueuedWasWritten(i)
          BY <1>2 DEF ValuesTell
        <5>2. \A d \in Slots : q[d] = channels[i][d].queue
          BY <3>3
        <5>. QED
          BY <5>1, <5>2 DEF QueuedWasWritten
      <4>2. \A x : WasWritten(i, x)' <=> WasWritten(i, x)
        BY <1>3 DEF WasWritten
      <4>3. \A d \in Slots : \A n \in 1..Len(q2[d]) : WasWritten(i, q2[d][n])
        BY <3>4, <4>1
      <4>. QED
        BY <3>3, <4>2, <4>3 DEF QueuedWasWritten
    <3>6. QueuedOnce(i)'
      <4>1. \A d \in Slots : q[d] = channels[i][d].queue /\ q2[d] = channels'[i][d].queue
        BY <3>3
      <4>2. \A d, e \in Slots : \A m \in 1..Len(q[d]) : \A n \in 1..Len(q[e]) :
                q[d][m] = q[e][n] => d = e /\ m = n
        <5>1. QueuedOnce(i)
          BY <1>2 DEF ValuesTell
        <5>2. \A d \in Slots : q[d] = channels[i][d].queue
          BY <4>1
        <5>. QED
          BY <5>1, <5>2 DEF QueuedOnce
      <4>3. ASSUME NEW d \in Slots, NEW e \in Slots, NEW m \in 1..Len(q2[d]), NEW n \in 1..Len(q2[e]),
                   q2[d][m] = q2[e][n]
            PROVE  d = e /\ m = n
        <5>1. m \in 1..Len(q[d]) /\ q2[d][m] = q[d][m]
          BY <3>4
        <5>2. n \in 1..Len(q[e]) /\ q2[e][n] = q[e][n]
          BY <3>4
        <5>3. q[d][m] = q[e][n]
          BY <4>3, <5>1, <5>2
        <5>. QED
          BY <4>2, <5>1, <5>2, <5>3
      <4>. QED
        BY <4>1, <4>3 DEF QueuedOnce
    <3>7. GotIsGone(i)'
      <4>1. \A d \in Slots : q[d] = channels[i][d].queue /\ q2[d] = channels'[i][d].queue
        BY <3>3
      <4>2. PICK g : g = got[i] /\ g = got'[i]
        BY <1>3
      <4>3. \A d, e \in Slots : \A m \in 1..Len(g[d]) : \A n \in 1..Len(q[e]) : g[d][m] # q[e][n]
        <5>1. GotIsGone(i)
          BY <1>2 DEF ValuesTell
        <5>. QED
          BY <4>1, <4>2, <5>1 DEF GotIsGone
      <4>4. \A d, e \in Slots : \A m \in 1..Len(g[d]) : \A n \in 1..Len(q2[e]) : g[d][m] # q2[e][n]
        BY <3>4, <4>3
      <4>. QED
        BY <4>1, <4>2, <4>4 DEF GotIsGone
    <3>. QED
      BY <3>1, <3>5, <3>6, <3>7
  <2>. QED
    BY <2>1 DEF ValuesTell
<1>11. Containers!PanicNeedsAlias'
  <2>1. panicked' \ panicked = {}
    BY <1>3
  <2>. QED
    BY <1>2, <1>3, <2>1, KeptPanics
<1>. QED
  BY <1>5, <1>6, <1>7, <1>8, <1>9, <1>10, <1>11 DEF ContainersInv

-----------------------------------------------------------------------------
(* A new container: no other one of its maker has its id, so that nothing  *)
(* is under it, and nothing was written or read through it.                *)
Makes(j, k) ==
    /\ Len(handles) < MaxHandles
    /\ handles' = Append(handles, [kind |-> k, id |-> nextId[j], closed |-> FALSE, maker |-> j])
    /\ channels' = [channels EXCEPT ![j][nextId[j]] = [kind |-> k, queue |-> <<>>]]
    /\ nextId' = [nextId EXCEPT ![j] = nextId[j] + 1]
    /\ outcome' \in [Interps -> Containers!Outcomes]
    /\ UNCHANGED <<blocked, panicked, written, got, writes>>

LEMMA MakeEffect ==
    ASSUME Containers!TypeOK, NEW j \in Interps, NEW k \in {"Pipe", "Hub"}, Containers!Make(j, k)
    PROVE  Makes(j, k)
<1>1. outcome' \in [Interps -> Containers!Outcomes]
  BY ReturnsType, OutcomesAre DEF Containers!Make
<1>. QED
  BY <1>1 DEF Containers!Make, Makes

LEMMA MakeFacts ==
    ASSUME ContainersInv, NEW j \in Interps, NEW k \in {"Pipe", "Hub"}, Makes(j, k)
    PROVE  \E n \in Slots : \E c \in Slots :
           /\ n = Len(handles) + 1 /\ Len(handles) \in Nat /\ n <= MaxHandles
           /\ c = nextId[j]
           /\ handles' \in Seq(Container) /\ Len(handles') = n
           /\ \A h \in 1..Len(handles) : handles'[h] = handles[h]
           /\ handles'[n].kind = k /\ handles'[n].id = c /\ handles'[n].maker = j
           /\ channels[j][c].kind = "none" /\ channels[j][c].queue = <<>>
           /\ channels' \in [Interps -> [Slots -> Entries]]
           /\ channels'[j][c].kind = k /\ channels'[j][c].queue = <<>>
           /\ \A d \in Slots : d # c => channels'[j][d] = channels[j][d]
           /\ \A i \in Interps : i # j => channels'[i] = channels[i]
           /\ nextId' \in [Interps -> 1..(MaxHandles + 1)]
           /\ nextId'[j] = c + 1
           /\ \A i \in Interps : i # j => nextId'[i] = nextId[i]
<1>1. Containers!TypeOK /\ HandlesTell /\ EntriesTell
  BY DEF ContainersInv
<1>2. /\ handles \in Seq(Container) /\ nextId \in [Interps -> 1..(MaxHandles + 1)]
      /\ MaxHandles \in Nat
  BY <1>1, ContainerTypes, ContainerAssumption
<1>3. Len(handles) \in Nat /\ Len(handles) < MaxHandles
  BY <1>2, LenProperties DEF Makes
<1>4. PICK n \in Slots : n = Len(handles) + 1 /\ n <= MaxHandles
  BY <1>2, <1>3 DEF Slots
<1>5. PICK c \in Slots : c = nextId[j]
  <2>1. nextId[j] \in 1..(MaxHandles + 1) /\ nextId[j] <= Len(handles) + 1
    BY <1>1, <1>2 DEF HandlesTell
  <2>2. nextId[j] \in 1..MaxHandles
    BY <1>2, <1>3, <2>1
  <2>. QED
    BY <2>2 DEF Slots
<1>6. PICK r : r = [kind |-> k, id |-> c, closed |-> FALSE, maker |-> j]
  OBVIOUS
<1>7. r \in Container /\ r.kind = k /\ r.id = c /\ r.maker = j
  BY <1>6 DEF Container
<1>8. /\ handles' \in Seq(Container) /\ Len(handles') = n
      /\ \A h \in 1..Len(handles) : handles'[h] = handles[h]
      /\ handles'[n] = r
  <2>1. handles' = Append(handles, r)
    BY <1>5, <1>6 DEF Makes
  <2>. QED
    BY <1>2, <1>4, <1>7, <2>1, AppendProperties
<1>9. channels[j][c].kind = "none" /\ channels[j][c].queue = <<>>
  <2>1. ASSUME channels[j][c].kind # "none" PROVE FALSE
    <3>1. PICK h \in 1..Len(handles) : handles[h].maker = j /\ handles[h].id = c
      BY <1>1, <2>1 DEF EntriesTell
    <3>2. handles[h].id < nextId[j]
      BY <1>1, <3>1 DEF HandlesTell
    <3>. QED
      BY <1>5, <3>1, <3>2 DEF Slots
  <2>. QED
    BY <1>1, <2>1 DEF EntriesTell
<1>10. PICK e : e = [kind |-> k, queue |-> <<>>]
  OBVIOUS
<1>11. e \in Entries /\ e.kind = k /\ e.queue = <<>>
  BY <1>10, EmptySeq DEF Entries
<1>12. channels' = [channels EXCEPT ![j][c] = e]
  BY <1>5, <1>10 DEF Makes
<1>13. /\ channels' \in [Interps -> [Slots -> Entries]]
       /\ channels'[j][c] = e
       /\ \A d \in Slots : d # c => channels'[j][d] = channels[j][d]
       /\ \A i \in Interps : i # j => channels'[i] = channels[i]
  BY <1>1, <1>11, <1>12, EntryChanges
<1>14. /\ nextId' \in [Interps -> 1..(MaxHandles + 1)]
       /\ nextId'[j] = c + 1
       /\ \A i \in Interps : i # j => nextId'[i] = nextId[i]
  <2>1. nextId' = [nextId EXCEPT ![j] = c + 1]
    BY <1>5 DEF Makes
  <2>2. c + 1 \in 1..(MaxHandles + 1)
    BY <1>2 DEF Slots
  <2>. QED
    BY <1>2, <2>1, <2>2
<1>. QED
  BY <1>3, <1>4, <1>5, <1>7, <1>8, <1>9, <1>11, <1>13, <1>14

LEMMA MakesKeepHandles ==
    ASSUME ContainersInv, NEW j \in Interps, NEW k \in {"Pipe", "Hub"}, Makes(j, k)
    PROVE  HandlesTell'
<1>1. PICK n \in Slots, c \in Slots :
          /\ n = Len(handles) + 1 /\ Len(handles) \in Nat /\ n <= MaxHandles /\ c = nextId[j]
          /\ Len(handles') = n
          /\ \A h \in 1..Len(handles) : handles'[h] = handles[h]
          /\ handles'[n].id = c /\ handles'[n].maker = j
          /\ nextId'[j] = c + 1
          /\ \A i \in Interps : i # j => nextId'[i] = nextId[i]
  BY MakeFacts
<1>2. Containers!TypeOK /\ HandlesTell /\ nextId \in [Interps -> 1..(MaxHandles + 1)]
  BY ContainerTypes DEF ContainersInv
<1>3. \A h \in 1..n : h \in 1..Len(handles) \/ h = n
  BY <1>1
<1>4. \A h \in 1..Len(handles) : /\ handles[h].maker \in Interps /\ handles[h].id \in Nat
                                 /\ handles[h].id < nextId[handles[h].maker]
  <2>1. ASSUME NEW h \in 1..Len(handles)
        PROVE  handles[h].maker \in Interps /\ handles[h].id \in Slots
    BY <1>2, HandleType
  <2>2. \A x \in Slots : x \in Nat
    BY DEF Slots
  <2>3. \A h \in 1..Len(handles) : handles[h].id < nextId[handles[h].maker]
    BY <1>2 DEF HandlesTell
  <2>. QED
    BY <2>1, <2>2, <2>3
<1>5. ASSUME NEW i \in Interps
      PROVE  nextId'[i] <= Len(handles') + 1
  <2>1. nextId[i] <= Len(handles) + 1 /\ nextId[i] \in Nat
    BY <1>2, ContainerAssumption DEF HandlesTell
  <2>2. nextId'[i] = nextId[i] \/ nextId'[i] = nextId[i] + 1
    BY <1>1
  <2>. QED
    BY <1>1, <2>1, <2>2
<1>6. ASSUME NEW h \in 1..n
      PROVE  handles'[h].id < nextId'[handles'[h].maker]
  <2>1. CASE h = n
    BY <1>1, <2>1 DEF Slots
  <2>2. CASE h \in 1..Len(handles)
    <3>1. handles'[h] = handles[h] /\ handles[h].id < nextId[handles[h].maker]
      BY <1>1, <1>4, <2>2
    <3>2. PICK m \in Interps : m = handles[h].maker
      BY <1>4, <2>2
    <3>3. nextId[m] \in Nat /\ (nextId'[m] = nextId[m] \/ nextId'[m] = nextId[m] + 1)
      BY <1>1, <1>2
    <3>4. handles[h].id < nextId'[m]
      BY <1>4, <2>2, <3>1, <3>2, <3>3
    <3>. QED
      BY <3>1, <3>2, <3>4
  <2>. QED
    BY <1>3, <2>1, <2>2
<1>7. ASSUME NEW g \in 1..n, NEW h \in 1..n,
             handles'[g].maker = handles'[h].maker, handles'[g].id = handles'[h].id
      PROVE  g = h
  <2>1. \A f \in 1..Len(handles) : handles[f].maker = j => handles[f].id # c
    BY <1>1, <1>4
  <2>2. CASE g = n /\ h \in 1..Len(handles)
    BY <1>1, <1>7, <2>1, <2>2
  <2>3. CASE h = n /\ g \in 1..Len(handles)
    BY <1>1, <1>7, <2>1, <2>3
  <2>4. CASE g \in 1..Len(handles) /\ h \in 1..Len(handles)
    BY <1>1, <1>2, <1>7, <2>4 DEF HandlesTell
  <2>. QED
    BY <1>3, <2>2, <2>3, <2>4
<1>8. /\ Len(handles') <= MaxHandles
      /\ \A i \in Interps : nextId'[i] <= Len(handles') + 1
  BY <1>1, <1>5
<1>9. \A h \in 1..Len(handles') : handles'[h].id < nextId'[handles'[h].maker]
  BY <1>1, <1>6
<1>10. \A g, h \in 1..Len(handles') :
           handles'[g].maker = handles'[h].maker /\ handles'[g].id = handles'[h].id => g = h
  BY <1>1, <1>7
<1>. QED
  BY <1>8, <1>9, <1>10 DEF HandlesTell

LEMMA MakesKeepQueues ==
    ASSUME ContainersInv, NEW j \in Interps, NEW k \in {"Pipe", "Hub"}, Makes(j, k)
    PROVE  QueuesTell'
<1>1. PICK n \in Slots, c \in Slots :
          /\ n = Len(handles) + 1 /\ Len(handles) \in Nat /\ c = nextId[j]
          /\ Len(handles') = n
          /\ \A h \in 1..Len(handles) : handles'[h] = handles[h]
          /\ handles'[n].kind = k /\ handles'[n].id = c /\ handles'[n].maker = j
          /\ channels'[j][c].kind = k /\ channels'[j][c].queue = <<>>
          /\ \A d \in Slots : d # c => channels'[j][d] = channels[j][d]
          /\ \A i \in Interps : i # j => channels'[i] = channels[i]
  BY MakeFacts
<1>2. Containers!TypeOK /\ HandlesTell /\ QueuesTell /\ UnmadeUnused
  BY DEF ContainersInv
<1>3. written' = written /\ got' = got
  BY DEF Makes
<1>4. ASSUME NEW i \in Interps, NEW g \in 1..Len(handles'), handles'[g].maker = i, Alone(g, i)'
      PROVE  InOrder(g, i)'
  <2>1. g \in 1..Len(handles) \/ g = n
    BY <1>1
  <2>2. CASE g = n
    <3>1. n > Len(handles)
      BY <1>1
    <3>2. written[j][n] = <<>> /\ got[j][n] = <<>>
      BY <1>2, <3>1 DEF UnmadeUnused
    <3>3. <<>> \o <<>> = <<>>
      OBVIOUS
    <3>. QED
      BY <1>1, <1>3, <1>4, <2>2, <3>2, <3>3 DEF InOrder
  <2>3. CASE g \in 1..Len(handles)
    <3>1. /\ handles'[g] = handles[g] /\ handles[g].maker = i /\ handles[g].id \in Slots
          /\ handles[g].id < nextId[i]
      BY <1>1, <1>2, <1>4, <2>3, HandleType DEF HandlesTell
    <3>2. Alone(g, i)
      <4>1. \A h \in 1..Len(handles) : h \in 1..Len(handles') /\ handles'[h] = handles[h]
        BY <1>1
      <4>. QED
        BY <1>3, <1>4, <3>1, <4>1 DEF Alone
    <3>3. InOrder(g, i)
      BY <1>2, <2>3, <3>1, <3>2 DEF QueuesTell
    <3>4. channels'[i][handles[g].id] = channels[i][handles[g].id]
      <4>1. CASE i = j
        <5>1. handles[g].id # c
          BY <1>1, <3>1, <4>1 DEF Slots
        <5>. QED
          BY <1>1, <3>1, <4>1, <5>1
      <4>2. CASE i # j
        BY <1>1, <4>2
      <4>. QED
        BY <4>1, <4>2
    <3>. QED
      BY <1>3, <3>1, <3>3, <3>4 DEF InOrder
  <2>. QED
    BY <2>1, <2>2, <2>3
<1>. QED
  BY <1>4 DEF QueuesTell

LEMMA MakesKeepInv ==
    ASSUME ContainersInv, NEW j \in Interps, NEW k \in {"Pipe", "Hub"}, Makes(j, k)
    PROVE  ContainersInv'
<1>1. PICK n \in Slots, c \in Slots :
          /\ n = Len(handles) + 1 /\ Len(handles) \in Nat
          /\ handles' \in Seq(Container) /\ Len(handles') = n
          /\ \A h \in 1..Len(handles) : handles'[h] = handles[h]
          /\ handles'[n].kind = k /\ handles'[n].id = c /\ handles'[n].maker = j
          /\ channels[j][c].kind = "none" /\ channels[j][c].queue = <<>>
          /\ channels' \in [Interps -> [Slots -> Entries]]
          /\ channels'[j][c].kind = k /\ channels'[j][c].queue = <<>>
          /\ \A d \in Slots : d # c => channels'[j][d] = channels[j][d]
          /\ \A i \in Interps : i # j => channels'[i] = channels[i]
          /\ nextId' \in [Interps -> 1..(MaxHandles + 1)]
  BY MakeFacts
<1>2. /\ Containers!TypeOK /\ HandlesTell /\ EntriesTell /\ UnmadeUnused /\ ValuesTell
      /\ Containers!PanicNeedsAlias
  BY DEF ContainersInv
<1>3. /\ UNCHANGED <<blocked, panicked, written, got, writes>>
      /\ outcome' \in [Interps -> Containers!Outcomes]
  BY DEF Makes
<1>4. /\ writes \in 0..MaxWrites
      /\ blocked \subseteq Interps /\ panicked \subseteq Interps
      /\ written \in [Interps -> [Slots -> Seq(Vals)]]
      /\ got \in [Interps -> [Slots -> Seq(Vals)]]
      /\ handles \in Seq(Container)
  BY <1>2, ContainerTypes
<1>5. Containers!TypeOK'
  BY <1>1, <1>3, <1>4, TypesNext
<1>6. \A h \in 1..Len(handles) : h \in 1..Len(handles')
  BY <1>1
<1>7. EntriesTell'
  <2>1. ASSUME NEW i \in Interps, NEW d \in Slots
        PROVE  IF channels'[i][d].kind = "none" THEN channels'[i][d].queue = <<>>
               ELSE \E h \in 1..Len(handles') : /\ handles'[h].maker = i /\ handles'[h].id = d
                                                /\ handles'[h].kind = channels'[i][d].kind
    <3>1. CASE i = j /\ d = c
      <4>1. n \in 1..Len(handles') /\ k # "none"
        BY <1>1
      <4>. QED
        BY <1>1, <3>1, <4>1
    <3>2. CASE ~(i = j /\ d = c)
      <4>1. channels'[i][d] = channels[i][d]
        BY <1>1, <3>2
      <4>2. CASE channels[i][d].kind = "none"
        BY <1>2, <4>1, <4>2 DEF EntriesTell
      <4>3. CASE channels[i][d].kind # "none"
        <5>1. PICK h \in 1..Len(handles) :
                  handles[h].maker = i /\ handles[h].id = d /\ handles[h].kind = channels[i][d].kind
          BY <1>2, <4>3 DEF EntriesTell
        <5>. QED
          BY <1>1, <1>6, <4>1, <4>3, <5>1
      <4>. QED
        BY <4>2, <4>3
    <3>. QED
      BY <3>1, <3>2
  <2>. QED
    BY <2>1 DEF EntriesTell
<1>8. UnmadeUnused'
  <2>1. ASSUME NEW h \in Slots, h > Len(handles')
        PROVE  h > Len(handles)
    BY <1>1, <2>1 DEF Slots
  <2>. QED
    BY <1>2, <1>3, <2>1 DEF UnmadeUnused
<1>9. ValuesTell'
  <2>1. writes \in Nat /\ writes' \in Nat /\ writes <= writes'
    BY <1>3, <1>4
  <2>2. ASSUME NEW i \in Interps
        PROVE  /\ LogsAreOld(i)' /\ GotWasWritten(i)' /\ QueuedWasWritten(i)'
               /\ GotOnce(i)' /\ QueuedOnce(i)' /\ GotIsGone(i)'
    <3>1. ASSUME NEW d \in Slots PROVE channels'[i][d].queue = channels[i][d].queue
      BY <1>1
    <3>2. written'[i] = written[i] /\ got'[i] = got[i]
      BY <1>3
    <3>. QED
      BY <1>2, <2>1, <3>1, <3>2, ValuesKept
  <2>. QED
    BY <2>2 DEF ValuesTell
<1>10. Containers!PanicNeedsAlias'
  <2>1. /\ DOMAIN handles = 1..Len(handles) /\ DOMAIN handles' = 1..Len(handles')
        /\ panicked' = panicked
    BY <1>1, <1>3, <1>4, LenProperties
  <2>2. ASSUME NEW i \in panicked
        PROVE  \E h \in 1..Len(handles') :
                   /\ handles'[h].kind = "Pipe" /\ handles'[h].maker # i
                   /\ \E g \in 1..Len(handles') : /\ handles'[g].maker = i
                                                  /\ handles'[g].id = handles'[h].id
                                                  /\ handles'[g].kind = "Hub"
    <3>1. PICK h \in 1..Len(handles) :
              /\ handles[h].kind = "Pipe" /\ handles[h].maker # i
              /\ \E g \in 1..Len(handles) : handles[g].maker = i /\ handles[g].id = handles[h].id
                                            /\ handles[g].kind = "Hub"
      BY <1>2, <2>1 DEF Containers!PanicNeedsAlias, Containers!Made
    <3>2. PICK g \in 1..Len(handles) :
              handles[g].maker = i /\ handles[g].id = handles[h].id /\ handles[g].kind = "Hub"
      BY <3>1
    <3>3. /\ h \in 1..Len(handles') /\ g \in 1..Len(handles')
          /\ handles'[h] = handles[h] /\ handles'[g] = handles[g]
      BY <1>1, <1>6
    <3>. QED
      BY <3>1, <3>2, <3>3
  <2>. QED
    BY <2>1, <2>2 DEF Containers!PanicNeedsAlias, Containers!Made
<1>11. HandlesTell' /\ QueuesTell'
  BY MakesKeepHandles, MakesKeepQueues
<1>. QED
  BY <1>5, <1>7, <1>8, <1>9, <1>10, <1>11 DEF ContainersInv

-----------------------------------------------------------------------------
LEMMA ContainersKeepInv ==
    ASSUME ContainersInv, Containers!Next
    PROVE  ContainersInv'
<1>1. Containers!TypeOK /\ HandlesTell /\ EntriesTell
  BY DEF ContainersInv
<1>2. /\ Containers!Kinds = {"Pipe", "Hub"}
      /\ Containers!Made = 1..Len(handles)
  <2>1. handles \in Seq(Container)
    BY <1>1, ContainerTypes
  <2>. QED
    BY <2>1, SlotsAre, LenProperties
<1>3. PICK j \in Interps :
          \/ \E k \in {"Pipe", "Hub"} : Containers!Make(j, k)
          \/ \E h \in 1..Len(handles) :
                 \/ Containers!Write(j, h) \/ Containers!SendToPipe(j, h)
                 \/ Containers!Read(j, h) \/ Containers!TryRead(j, h) \/ Containers!Close(j, h)
  BY <1>2 DEF Containers!Next
<1>4. CASE \E k \in {"Pipe", "Hub"} : Containers!Make(j, k)
  BY <1>1, <1>4, MakeEffect, MakesKeepInv
<1>5. ASSUME NEW h \in 1..Len(handles), Containers!Write(j, h)
      PROVE  ContainersInv'
  <2>1. Quiet(j, h) \/ Puts(j, h)
    BY <1>1, <1>5, WriteEffect
  <2>. QED
    BY <2>1, QuietKeepsInv, PutsKeepInv
<1>6. ASSUME NEW h \in 1..Len(handles),
             Containers!SendToPipe(j, h) \/ Containers!Read(j, h) \/ Containers!TryRead(j, h)
      PROVE  ContainersInv'
  <2>1. Quiet(j, h) \/ Pops(j, h)
    BY <1>1, <1>6, ReadEffect
  <2>. QED
    BY <2>1, QuietKeepsInv, PopsKeepInv
<1>7. ASSUME NEW h \in 1..Len(handles), Containers!Close(j, h)
      PROVE  ContainersInv'
  <2>1. Shuts(j, h)
    BY <1>1, <1>7, CloseEffect
  <2>. QED
    BY <2>1, ShutsKeepInv
<1>. QED
  BY <1>3, <1>4, <1>5, <1>6, <1>7

LEMMA ContainersAreFifo == ContainersInv => OwnFifo
<1>1. SUFFICES ASSUME ContainersInv PROVE OwnFifo
  OBVIOUS
<1>2. Containers!TypeOK /\ HandlesTell /\ QueuesTell
  BY <1>1 DEF ContainersInv
<1>3. Containers!Made = 1..Len(handles)
  <2>1. handles \in Seq(Container)
    BY <1>2, ContainerTypes
  <2>. QED
    BY <2>1, SlotsAre, LenProperties
<1>4. ASSUME NEW h \in 1..Len(handles), NEW i, i = handles[h].maker,
             \A g \in Containers!Aliases(i, h) : got[i][g] = <<>> /\ written[i][g] = <<>>
      PROVE  Containers!IsPrefix(got[i][h], written[i][h])
  <2>1. i \in Interps /\ h \in Slots /\ handles[h].id \in Slots
    BY <1>2, <1>4, HandleType
  <2>2. Alone(h, i)
    BY <1>3, <1>4 DEF Alone, Containers!Aliases
  <2>3. InOrder(h, i)
    BY <1>2, <1>4, <2>1, <2>2 DEF QueuesTell
  <2>4. CASE channels[i][handles[h].id].kind = "none"
    BY <2>3, <2>4 DEF InOrder
  <2>5. CASE channels[i][handles[h].id].kind # "none"
    <3>1. got[i][h] \o channels[i][handles[h].id].queue = written[i][h]
      BY <2>3, <2>5 DEF InOrder
    <3>2. got[i][h] \in Seq(Vals) /\ channels[i][handles[h].id].queue \in Seq(Vals)
      BY <1>2, <2>1, ContainerTypes, EntryType
    <3>. QED
      BY <3>1, <3>2, PrefixOf
  <2>. QED
    BY <2>4, <2>5
<1>5. Containers!OwnFifo
  BY <1>3, <1>4 DEF Containers!OwnFifo
<1>. QED
  BY <1>2, <1>5 DEF OwnFifo

LEMMA WrittenIsKept ==
    ASSUME ContainersInv, Containers!Next
    PROVE  written' = written \/ \E j \in Interps : \E h \in 1..Len(handles) : Puts(j, h)
<1>1. Containers!TypeOK /\ HandlesTell /\ EntriesTell
  BY DEF ContainersInv
<1>2. Containers!Made = 1..Len(handles)
  <2>1. handles \in Seq(Container)
    BY <1>1, ContainerTypes
  <2>. QED
    BY <2>1, SlotsAre, LenProperties
<1>3. PICK j \in Interps :
          \/ \E k \in Containers!Kinds : Containers!Make(j, k)
          \/ \E h \in 1..Len(handles) :
                 \/ Containers!Write(j, h) \/ Containers!SendToPipe(j, h)
                 \/ Containers!Read(j, h) \/ Containers!TryRead(j, h) \/ Containers!Close(j, h)
  BY <1>2 DEF Containers!Next
<1>4. ASSUME NEW k \in Containers!Kinds, Containers!Make(j, k) PROVE written' = written
  BY <1>4 DEF Containers!Make
<1>5. ASSUME NEW h \in 1..Len(handles), Containers!Write(j, h)
      PROVE  written' = written \/ Puts(j, h)
  BY <1>1, <1>5, WriteEffect DEF Quiet
<1>6. ASSUME NEW h \in 1..Len(handles),
             Containers!SendToPipe(j, h) \/ Containers!Read(j, h) \/ Containers!TryRead(j, h)
      PROVE  written' = written
  BY <1>1, <1>6, ReadEffect DEF Quiet, Pops
<1>7. ASSUME NEW h \in 1..Len(handles), Containers!Close(j, h) PROVE written' = written
  BY <1>7 DEF Containers!Close
<1>. QED
  BY <1>3, <1>4, <1>5, <1>6, <1>7

LEMMA WritesAreNew ==
    ASSUME ContainersInv, WrittenOnce, Containers!Next
    PROVE  WrittenOnce'
<1>1. CASE written' = written
  BY <1>1 DEF WrittenOnce
<1>2. ASSUME NEW j \in Interps, NEW h \in 1..Len(handles), Puts(j, h)
      PROVE  WrittenOnce'
  <2>1. /\ h \in Slots /\ writes \in Vals
        /\ written'[j][h] = Append(written[j][h], writes)
        /\ \A k \in Slots : k # h => written'[j][k] = written[j][k]
        /\ \A i \in Interps : i # j => written'[i] = written[i]
    BY <1>2, PutFacts
  <2>2. \A i \in Interps : \A g \in Slots :
            written[i][g] \in Seq(Vals) /\ \A n \in 1..Len(written[i][g]) : written[i][g][n] # writes
    <3>1. SUFFICES ASSUME NEW i \in Interps, NEW g \in Slots
                   PROVE  /\ written[i][g] \in Seq(Vals)
                          /\ \A n \in 1..Len(written[i][g]) : written[i][g][n] # writes
      OBVIOUS
    <3>2. written[i][g] \in Seq(Vals)
      BY ContainerTypes DEF ContainersInv
    <3>3. LogsAreOld(i)
      BY DEF ContainersInv, ValuesTell
    <3>4. \A n \in 1..Len(written[i][g]) : written[i][g][n] \in Vals
      BY <3>2, ElementOfSeq
    <3>. QED
      BY <2>1, <3>2, <3>3, <3>4 DEF LogsAreOld, Vals
  <2>3. ASSUME NEW i \in Interps, NEW g \in Slots, NEW n \in 1..Len(written'[i][g])
        PROVE  \/ n \in 1..Len(written[i][g]) /\ written'[i][g][n] = written[i][g][n]
               \/ i = j /\ g = h /\ n = Len(written[j][h]) + 1 /\ written'[i][g][n] = writes
    <3>1. CASE i = j /\ g = h
      <4>1. written[j][h] \in Seq(Vals)
        BY <2>1, <2>2
      <4>. QED
        BY <2>1, <2>3, <3>1, <4>1, AppendedIs
    <3>2. CASE ~(i = j /\ g = h)
      BY <2>1, <3>2
    <3>. QED
      BY <3>1, <3>2
  <2>4. SUFFICES ASSUME NEW i \in Interps, NEW k \in Interps, NEW f \in Slots, NEW g \in Slots,
                        NEW m \in 1..Len(written'[i][f]), NEW n \in 1..Len(written'[k][g]),
                        written'[i][f][m] = written'[k][g][n]
                 PROVE  i = k /\ f = g /\ m = n
    BY DEF WrittenOnce
  <2>5. \/ m \in 1..Len(written[i][f]) /\ written'[i][f][m] = written[i][f][m]
        \/ i = j /\ f = h /\ m = Len(written[j][h]) + 1 /\ written'[i][f][m] = writes
    BY <2>3
  <2>6. \/ n \in 1..Len(written[k][g]) /\ written'[k][g][n] = written[k][g][n]
        \/ k = j /\ g = h /\ n = Len(written[j][h]) + 1 /\ written'[k][g][n] = writes
    BY <2>3
  <2>. QED
    BY <2>2, <2>4, <2>5, <2>6 DEF WrittenOnce
<1>. QED
  BY <1>1, <1>2, WrittenIsKept

LEMMA ContainersReadOnce == ContainersInv /\ WrittenOnce => ReadOnce
<1>1. SUFFICES ASSUME ContainersInv, WrittenOnce PROVE ReadOnce
  OBVIOUS
<1>2. Containers!TypeOK /\ ValuesTell /\ Containers!PanicNeedsAlias
  BY <1>1 DEF ContainersInv
<1>3. \A i \in Interps : \A h \in Slots :
          DOMAIN got[i][h] = 1..Len(got[i][h]) /\ DOMAIN written[i][h] = 1..Len(written[i][h])
  <2>1. \A i \in Interps : \A h \in Slots : got[i][h] \in Seq(Vals) /\ written[i][h] \in Seq(Vals)
    BY <1>2, ContainerTypes
  <2>. QED
    BY <2>1, LenProperties
<1>4. ASSUME NEW r \in Containers!Reads
      PROVE  \E i \in Interps : \E h \in Slots : \E n \in 1..Len(got[i][h]) :
                 r = <<i, h, n>> /\ Containers!ReadAt(r) = got[i][h][n] /\ WasWritten(i, got[i][h][n])
  <2>1. PICK i \in Interps, h \in Slots : \E n \in DOMAIN got[i][h] : r = <<i, h, n>>
    BY SlotsAre DEF Containers!Reads
  <2>2. PICK n \in 1..Len(got[i][h]) : r = <<i, h, n>>
    BY <1>3, <2>1
  <2>3. WasWritten(i, got[i][h][n])
    BY <1>2 DEF ValuesTell, GotWasWritten
  <2>4. Containers!ReadAt(r) = got[i][h][n]
    BY <2>2 DEF Containers!ReadAt
  <2>. QED
    BY <2>2, <2>3, <2>4
<1>5. ASSUME NEW i \in Interps, NEW v, WasWritten(i, v)
      PROVE  \E k \in Interps, h \in Containers!Handles : \E n \in DOMAIN written[k][h] : v = written[k][h][n]
  <2>1. PICK h \in Slots : \E n \in 1..Len(written[i][h]) : written[i][h][n] = v
    BY <1>5 DEF WasWritten
  <2>. QED
    BY <1>3, <2>1, SlotsAre
<1>6. ASSUME NEW i \in Interps, NEW k \in Interps, NEW v, WasWritten(i, v), WasWritten(k, v)
      PROVE  i = k
  BY <1>1, <1>6 DEF WasWritten, WrittenOnce
<1>7. \A r \in Containers!Reads : \E i \in Interps, h \in Containers!Handles :
          \E n \in DOMAIN written[i][h] : Containers!ReadAt(r) = written[i][h][n]
  BY <1>4, <1>5
<1>8. ASSUME NEW r \in Containers!Reads, NEW q \in Containers!Reads,
             Containers!ReadAt(r) = Containers!ReadAt(q)
      PROVE  r = q
  <2>1. PICK i \in Interps, g \in Slots : \E m \in 1..Len(got[i][g]) :
            r = <<i, g, m>> /\ Containers!ReadAt(r) = got[i][g][m] /\ WasWritten(i, got[i][g][m])
    BY <1>4
  <2>2. PICK m \in 1..Len(got[i][g]) :
            r = <<i, g, m>> /\ Containers!ReadAt(r) = got[i][g][m] /\ WasWritten(i, got[i][g][m])
    BY <2>1
  <2>3. PICK k \in Interps, h \in Slots : \E n \in 1..Len(got[k][h]) :
            q = <<k, h, n>> /\ Containers!ReadAt(q) = got[k][h][n] /\ WasWritten(k, got[k][h][n])
    BY <1>4
  <2>4. PICK n \in 1..Len(got[k][h]) :
            q = <<k, h, n>> /\ Containers!ReadAt(q) = got[k][h][n] /\ WasWritten(k, got[k][h][n])
    BY <2>3
  <2>5. got[i][g][m] = got[k][h][n]
    BY <1>8, <2>2, <2>4
  <2>6. i = k
    BY <1>6, <2>2, <2>4, <2>5
  <2>7. GotOnce(i)
    BY <1>2 DEF ValuesTell
  <2>8. g = h /\ m = n
    BY <2>5, <2>6, <2>7 DEF GotOnce
  <2>. QED
    BY <2>2, <2>4, <2>6, <2>8
<1>9. Containers!ReadOnce
  BY <1>7, <1>8 DEF Containers!ReadOnce
<1>. QED
  BY <1>2, <1>9 DEF ReadOnce

-----------------------------------------------------------------------------
(* Futures.  Bodies that run await each other inwards, so a running body   *)
(* is not in reach of the code that runs now; and a future has at most the *)
(* one answer that its `result` field caches.                              *)
Inward(rank) ==
    \A m, n \in DOMAIN stack : m < n => rank[stack[n]] < rank[stack[m]]

AnswerIsCached ==
    \A f \in Bodies : given[f] = IF f \in done THEN {result[f]} ELSE {}

FuturesInv(rank) ==
    /\ Futures!TypeOK /\ Futures!RunsOnce
    /\ Inward(rank) /\ AnswerIsCached
    /\ spared \subseteq cancel

IsRank(rank) ==
    /\ rank \in [Bodies -> 1..Cardinality(Bodies)]
    /\ \A f \in Bodies : \A g \in MayAwait[f] : rank[g] < rank[f]

(* An instance sees the Cardinality its own module extends.                *)
LEMMA FutureCardinality == \A S : Futures!Cardinality(S) = Cardinality(S)
  BY DEF Cardinality, Futures!Cardinality

LEMMA RankIsNat ==
    ASSUME NEW rank, IsRank(rank) PROVE \A f \in Bodies : rank[f] \in Nat
<1>1. Cardinality(Bodies) \in Nat
  BY FutureAssumption, FS_CardinalityType
<1>. QED
  BY <1>1 DEF IsRank

LEMMA FuturesInitInv ==
    ASSUME NEW rank, Futures!Init PROVE FuturesInv(rank)
<1>1. /\ made = {} /\ cancel = {} /\ done = {} /\ entered = {} /\ spared = {}
      /\ stack = <<>> /\ runs = 0 /\ result = [f \in Bodies |-> "Void"]
      /\ given = [f \in Bodies |-> {}]
  BY DEF Futures!Init
<1>2. Futures!TypeOK
  BY <1>1, FutureAssumption DEF Futures!TypeOK
<1>3. Futures!RunsOnce
  BY <1>1 DEF Futures!RunsOnce, Futures!Running
<1>. QED
  BY <1>1, <1>2, <1>3 DEF FuturesInv, Inward, AnswerIsCached

(* What the running code can reach does not run.                           *)
LEMMA InReachIsIdle ==
    ASSUME NEW rank, IsRank(rank), FuturesInv(rank), NEW f \in Futures!InReach
    PROVE  /\ f \in Bodies /\ f \notin Futures!Running
           /\ \A n \in DOMAIN stack : rank[f] < rank[stack[n]]
<1>1. f \in made /\ f \in Bodies /\ stack \in Seq(Bodies)
  BY DEF Futures!InReach, FuturesInv, Futures!TypeOK
<1>2. ASSUME NEW n \in DOMAIN stack PROVE rank[f] < rank[stack[n]]
  <2>1. /\ Len(stack) \in Nat /\ DOMAIN stack = 1..Len(stack) /\ n \in 1..Len(stack)
        /\ Len(stack) \in DOMAIN stack /\ stack # <<>>
    BY <1>1, <1>2
  <2>2. stack[n] \in Bodies /\ stack[Len(stack)] \in Bodies
    BY <1>1, <2>1
  <2>3. rank[f] < rank[stack[Len(stack)]]
    <3>1. f \in MayAwait[stack[Len(stack)]]
      BY <2>1 DEF Futures!InReach
    <3>. QED
      BY <2>2, <3>1 DEF IsRank
  <2>4. n = Len(stack) \/ rank[stack[Len(stack)]] < rank[stack[n]]
    BY <2>1 DEF FuturesInv, Inward
  <2>5. rank[f] \in Nat /\ rank[stack[n]] \in Nat /\ rank[stack[Len(stack)]] \in Nat
    BY <1>1, <2>2, RankIsNat
  <2>. QED
    BY <2>3, <2>4, <2>5
<1>3. f \notin Futures!Running
  <2>1. ASSUME NEW n \in DOMAIN stack, f = stack[n] PROVE FALSE
    <3>1. rank[f] < rank[f]
      BY <1>2, <2>1
    <3>2. rank[f] \in Nat
      BY <1>1, RankIsNat
    <3>. QED
      BY <3>1, <3>2
  <2>. QED
    BY <2>1 DEF Futures!Running
<1>. QED
  BY <1>1, <1>2, <1>3

(* Steps that neither enter nor leave a body.                              *)
LEMMA QuietStepKeepsInv ==
    ASSUME NEW rank, IsRank(rank), FuturesInv(rank), NEW f \in Bodies,
           \/ Futures!Make(f) \/ Futures!AwaitDone(f)
           \/ Futures!AwaitCancelled(f) \/ Futures!Cancel(f)
    PROVE  FuturesInv(rank)'
<1>1. UNCHANGED <<stack, runs, entered>>
  BY DEF Futures!Make, Futures!AwaitDone, Futures!AwaitCancelled, Futures!Cancel
<1>2. /\ Futures!TypeOK /\ Futures!RunsOnce /\ Inward(rank) /\ AnswerIsCached
      /\ spared \subseteq cancel
  BY DEF FuturesInv
<1>3. Futures!TypeOK'
  BY <1>1, <1>2 DEF Futures!TypeOK, Futures!Make, Futures!AwaitDone, Futures!AwaitCancelled,
         Futures!Cancel, Futures!Gives
<1>4. Inward(rank)'
  BY <1>1, <1>2 DEF Inward
<1>5. Futures!Running' = Futures!Running
  BY <1>1 DEF Futures!Running
<1>6. Futures!Running' \cap done' = {}
  <2>1. CASE Futures!AwaitCancelled(f)
    <3>1. done' = done \cup {f} /\ f \in Futures!InReach
      BY <2>1 DEF Futures!AwaitCancelled
    <3>2. f \notin Futures!Running
      BY <3>1, InReachIsIdle
    <3>. QED
      BY <1>2, <1>5, <3>1, <3>2 DEF Futures!RunsOnce
  <2>2. CASE Futures!Make(f) \/ Futures!AwaitDone(f) \/ Futures!Cancel(f)
    <3>1. done' = done
      BY <2>2 DEF Futures!Make, Futures!AwaitDone, Futures!Cancel
    <3>. QED
      BY <1>2, <1>5, <3>1 DEF Futures!RunsOnce
  <2>. QED
    BY <2>1, <2>2
<1>7. spared' \subseteq cancel' /\ spared' \cap entered' = {}
  BY <1>1, <1>2 DEF Futures!RunsOnce, Futures!Make, Futures!AwaitDone, Futures!AwaitCancelled,
         Futures!Cancel
<1>8. AnswerIsCached'
  <2>1. CASE Futures!AwaitCancelled(f)
    <3>1. /\ f \notin done /\ done' = done \cup {f}
          /\ result'[f] = "Cancelled" /\ given'[f] = given[f] \cup {"Cancelled"}
          /\ \A g \in Bodies : g # f => result'[g] = result[g] /\ given'[g] = given[g]
      BY <1>2, <2>1 DEF Futures!TypeOK, Futures!AwaitCancelled, Futures!Gives
    <3>2. given[f] = {}
      BY <1>2, <3>1 DEF AnswerIsCached
    <3>. QED
      BY <1>2, <3>1, <3>2 DEF AnswerIsCached
  <2>2. CASE Futures!AwaitDone(f)
    <3>1. /\ f \in done /\ done' = done /\ result' = result
          /\ given'[f] = given[f] \cup {result[f]}
          /\ \A g \in Bodies : g # f => given'[g] = given[g]
      BY <1>2, <2>2 DEF Futures!TypeOK, Futures!AwaitDone, Futures!Gives
    <3>2. given[f] = {result[f]}
      BY <1>2, <3>1 DEF AnswerIsCached
    <3>. QED
      BY <1>2, <3>1, <3>2 DEF AnswerIsCached
  <2>3. CASE Futures!Make(f) \/ Futures!Cancel(f)
    BY <1>2, <2>3 DEF AnswerIsCached, Futures!Make, Futures!Cancel
  <2>. QED
    BY <2>1, <2>2, <2>3
<1>9. Futures!RunsOnce'
  BY <1>1, <1>2, <1>6, <1>7 DEF Futures!RunsOnce
<1>. QED
  BY <1>3, <1>4, <1>7, <1>8, <1>9 DEF FuturesInv

(* A body is entered inside the one that awaits it.                        *)
LEMMA AwaitRunsKeepsInv ==
    ASSUME NEW rank, IsRank(rank), FuturesInv(rank), NEW f \in Bodies, Futures!AwaitRuns(f)
    PROVE  FuturesInv(rank)'
<1>1. /\ stack' = Append(stack, f) /\ entered' = entered \cup {f}
      /\ f \in Futures!InReach /\ f \notin done /\ f \notin cancel
      /\ runs' = runs + 1 /\ runs < MaxRuns
      /\ UNCHANGED <<made, cancel, done, result, given, spared>>
  BY DEF Futures!AwaitRuns
<1>2. /\ Futures!TypeOK /\ Futures!RunsOnce /\ Inward(rank) /\ AnswerIsCached
      /\ spared \subseteq cancel /\ stack \in Seq(Bodies)
  BY DEF FuturesInv, Futures!TypeOK
<1>3. /\ Len(stack) \in Nat /\ DOMAIN stack = 1..Len(stack)
      /\ DOMAIN stack' = 1..(Len(stack) + 1) /\ stack' \in Seq(Bodies)
      /\ stack'[Len(stack) + 1] = f
      /\ \A n \in 1..Len(stack) : stack'[n] = stack[n]
  BY <1>1, <1>2
<1>4. /\ f \notin Futures!Running
      /\ \A n \in DOMAIN stack : rank[f] < rank[stack[n]]
  BY <1>1, InReachIsIdle
<1>5. Futures!TypeOK'
  BY <1>1, <1>2, <1>3, FutureAssumption DEF Futures!TypeOK
<1>6. Inward(rank)'
  <2>1. SUFFICES ASSUME NEW m \in 1..(Len(stack) + 1), NEW n \in 1..(Len(stack) + 1), m < n
                 PROVE  rank[stack'[n]] < rank[stack'[m]]
    BY <1>3 DEF Inward
  <2>2. m \in 1..Len(stack) /\ stack'[m] = stack[m]
    BY <1>3, <2>1
  <2>3. CASE n = Len(stack) + 1
    BY <1>3, <1>4, <2>2, <2>3
  <2>4. CASE n \in 1..Len(stack)
    BY <1>2, <1>3, <2>1, <2>2, <2>4 DEF Inward
  <2>. QED
    BY <1>3, <2>3, <2>4
<1>7. Futures!Running' = Futures!Running \cup {f}
  <2>1. Futures!Running = {stack[n] : n \in 1..Len(stack)}
    BY <1>3 DEF Futures!Running
  <2>2. Futures!Running' = {stack'[n] : n \in 1..(Len(stack) + 1)}
    BY <1>3 DEF Futures!Running
  <2>3. 1..(Len(stack) + 1) = 1..Len(stack) \cup {Len(stack) + 1}
    BY <1>3
  <2>4. Futures!Running' = {stack'[n] : n \in 1..Len(stack)} \cup {stack'[Len(stack) + 1]}
    BY <2>2, <2>3
  <2>. QED
    BY <1>3, <2>1, <2>4
<1>8. Futures!RunsOnce'
  <2>1. \A n \in 1..Len(stack) : stack[n] # f
    BY <1>3, <1>4 DEF Futures!Running
  <2>2. \A m, n \in DOMAIN stack' : stack'[m] = stack'[n] => m = n
    <3>1. SUFFICES ASSUME NEW m \in 1..(Len(stack) + 1), NEW n \in 1..(Len(stack) + 1),
                          stack'[m] = stack'[n]
                   PROVE  m = n
      BY <1>3
    <3>2. m \in 1..Len(stack) \/ m = Len(stack) + 1
      BY <1>3
    <3>3. n \in 1..Len(stack) \/ n = Len(stack) + 1
      BY <1>3
    <3>4. \A k, l \in 1..Len(stack) : stack[k] = stack[l] => k = l
      BY <1>2, <1>3 DEF Futures!RunsOnce
    <3>. QED
      BY <1>3, <2>1, <3>1, <3>2, <3>3, <3>4
  <2>. QED
    BY <1>1, <1>2, <1>7, <2>2 DEF Futures!RunsOnce
<1>9. AnswerIsCached'
  BY <1>1, <1>2 DEF AnswerIsCached
<1>. QED
  BY <1>1, <1>2, <1>5, <1>6, <1>8, <1>9 DEF FuturesInv

(* The innermost body returns: it was not done, so this is its answer.     *)
LEMMA BodyReturnsKeepsInv ==
    ASSUME NEW rank, IsRank(rank), FuturesInv(rank), NEW v \in Results, Futures!BodyReturns(v)
    PROVE  FuturesInv(rank)'
<1>. DEFINE f == stack[Len(stack)]
<1>1. /\ stack # <<>> /\ done' = done \cup {f} /\ result' = [result EXCEPT ![f] = v]
      /\ given' = [given EXCEPT ![f] = @ \cup {v}]
      /\ stack' = SubSeq(stack, 1, Len(stack) - 1)
      /\ UNCHANGED <<made, cancel, runs, entered, spared>>
  BY DEF Futures!BodyReturns, Futures!Gives
<1>2. /\ Futures!TypeOK /\ Futures!RunsOnce /\ Inward(rank) /\ AnswerIsCached
      /\ spared \subseteq cancel /\ stack \in Seq(Bodies)
  BY DEF FuturesInv, Futures!TypeOK
<1>3. /\ Len(stack) \in Nat /\ Len(stack) > 0 /\ DOMAIN stack = 1..Len(stack)
      /\ f \in Bodies /\ f \in Futures!Running
  BY <1>1, <1>2 DEF Futures!Running
<1>4. /\ DOMAIN stack' = 1..(Len(stack) - 1) /\ stack' \in Seq(Bodies)
      /\ \A n \in 1..(Len(stack) - 1) : stack'[n] = stack[n]
  BY <1>1, <1>2, <1>3
<1>5. /\ result'[f] = v /\ given'[f] = given[f] \cup {v}
      /\ \A g \in Bodies : g # f => result'[g] = result[g] /\ given'[g] = given[g]
  BY <1>1, <1>2, <1>3 DEF Futures!TypeOK
<1>6. f \notin done
  BY <1>2, <1>3 DEF Futures!RunsOnce
<1>7. Futures!TypeOK'
  BY <1>1, <1>2, <1>3, <1>4 DEF Futures!TypeOK
<1>8. Inward(rank)'
  BY <1>2, <1>3, <1>4 DEF Inward
<1>9. AnswerIsCached'
  <2>1. given[f] = {} /\ f \in done'
    BY <1>1, <1>2, <1>3, <1>6 DEF AnswerIsCached
  <2>2. \A g \in Bodies : g # f => (g \in done' <=> g \in done)
    BY <1>1
  <2>3. \A g \in Bodies : g # f => given'[g] = IF g \in done' THEN {result'[g]} ELSE {}
    BY <1>2, <1>5, <2>2 DEF AnswerIsCached
  <2>. QED
    BY <1>5, <2>1, <2>3 DEF AnswerIsCached
<1>10. Futures!RunsOnce'
  <2>1. \A m, n \in 1..Len(stack) : stack[m] = stack[n] => m = n
    BY <1>2, <1>3 DEF Futures!RunsOnce
  <2>2. \A m, n \in DOMAIN stack' : stack'[m] = stack'[n] => m = n
    BY <1>3, <1>4, <2>1
  <2>3. Futures!Running' \subseteq Futures!Running
    BY <1>3, <1>4 DEF Futures!Running
  <2>4. f \notin Futures!Running'
    BY <1>3, <1>4, <2>1 DEF Futures!Running
  <2>. QED
    BY <1>1, <1>2, <2>2, <2>3, <2>4 DEF Futures!RunsOnce
<1>. QED
  BY <1>1, <1>2, <1>7, <1>8, <1>9, <1>10 DEF FuturesInv

LEMMA FuturesKeepInv ==
    ASSUME NEW rank, IsRank(rank), FuturesInv(rank), Futures!Next PROVE FuturesInv(rank)'
<1>1. CASE Futures!BodyRaises
  <2>1. stack' = <<>> /\ UNCHANGED <<made, cancel, done, result, runs, given, entered, spared>>
    BY <1>1 DEF Futures!BodyRaises
  <2>2. DOMAIN stack' = {} /\ Futures!Running' = {} /\ stack' \in Seq(Bodies)
    BY <2>1 DEF Futures!Running
  <2>. QED
    BY <2>1, <2>2 DEF FuturesInv, Futures!TypeOK, Futures!RunsOnce, Inward, AnswerIsCached
<1>. QED
  BY <1>1, QuietStepKeepsInv, AwaitRunsKeepsInv, BodyReturnsKeepsInv DEF Futures!Next

LEMMA FuturesInvHolds ==
    ASSUME NEW rank, FuturesInv(rank)
    PROVE  AwaitIsStable /\ RunsOnce
<1>1. ASSUME NEW f \in Bodies PROVE Cardinality(given[f]) <= 1
  <2>1. given[f] = {} \/ given[f] = {result[f]}
    BY DEF FuturesInv, AnswerIsCached
  <2>2. Cardinality({}) = 0 /\ Cardinality({result[f]}) = 1
    BY FS_EmptySet, FS_Singleton
  <2>. QED
    BY <2>1, <2>2
<1>2. \A f \in Bodies : Cardinality(given[f]) <= 1
  BY <1>1
<1>3. \A f \in Bodies : f \in done <=> given[f] # {}
  BY DEF FuturesInv, AnswerIsCached
<1>. QED
  BY <1>2, <1>3, FutureCardinality DEF FuturesInv, AwaitIsStable, RunsOnce, Futures!AwaitIsStable, Futures!DoneIsAnswered

-----------------------------------------------------------------------------
Verdict == Tests!Verdicts \cup Tests!Broken

(* The test runner.  Where the runner is says which test it is at and how  *)
(* far the threads are that it has started; an answer is in the channel    *)
(* from the end of the body until the runner takes it or has gone on.      *)
RunnerAt ==
    /\ tpc \in {"body", "waits"} => pos \in 1..N
    /\ tpc = "body" => pos \notin Threaded
    /\ tpc = "waits" => pos \in Threaded

StartedTells(t) ==
    child[t] # "none" <=> t \in Threaded /\ (t < pos \/ (t = pos /\ tpc = "waits"))

MailTells(t) ==
    /\ child[t] \in {"none", "body"} => mail[t] = <<>>
    /\ t \in Threaded /\ child[t] \in {"none", "body"} => verdict[t] = "none"
    /\ Len(mail[t]) <= 1
    /\ mail[t] # <<>> => Head(mail[t]) = verdict[t]
    /\ Tests!Waited(t) /\ child[t] \in {"drops", "gone"} /\ mail[t] = <<>>
           => verdict[t] = "none"

ChildTells == \A t \in 1..N : StartedTells(t) /\ MailTells(t)

(* A thread that was reported as panicked can say nothing more.            *)
PanickedIsGone ==
    \A n \in DOMAIN out : out[n].verdict = "thread panic" => child[n] = "gone"

TestsInv ==
    /\ Tests!TypeOK /\ Tests!Tally /\ Tests!OwnVerdict
    /\ RunnerAt /\ ChildTells /\ PanickedIsGone
    /\ mail \in [1..N -> Seq(Tests!Verdicts)]

LEMMA ElementOf == ASSUME NEW S, NEW s \in Seq(S), NEW n \in 1..Len(s) PROVE s[n] \in S
  OBVIOUS

LEMMA TestCardinality == \A S : Tests!Cardinality(S) = Cardinality(S)
  BY DEF Cardinality, Tests!Cardinality

LEMMA TestsInitInv == Tests!Init => TestsInv
<1>1. SUFFICES ASSUME Tests!Init PROVE TestsInv
  OBVIOUS
<1>2. /\ out = <<>> /\ pos = 1 /\ tpc = "next" /\ passed = 0 /\ failed = 0 /\ skipped = 0
      /\ child = [t \in 1..N |-> "none"] /\ mail = [t \in 1..N |-> <<>>]
      /\ left = [t \in 1..N |-> "none"] /\ verdict = [t \in 1..N |-> "none"]
  BY <1>1 DEF Tests!Init, Tests!Tests
<1>3. Tests!TypeOK
  BY <1>2, TestAssumption DEF Tests!TypeOK, Tests!Tests
<1>4. Tests!Tally
  <2>1. \A V : Tests!With(V) = 0
    <3>1. \A V : {n \in DOMAIN out : out[n].verdict \in V} = {}
      BY <1>2
    <3>. QED
      BY <3>1, TestCardinality, FS_EmptySet DEF Tests!With
  <2>. QED
    BY <1>2, <2>1 DEF Tests!Tally
<1>. QED
  BY <1>2, <1>3, <1>4 DEF TestsInv, Tests!OwnVerdict, RunnerAt, ChildTells, StartedTells, MailTells, PanickedIsGone

-----------------------------------------------------------------------------
(* Counting the lines.                                                     *)
Lines(V) == {n \in DOMAIN out : out[n].verdict \in V}

LEMMA WithCounts == \A V : Tests!With(V) = Cardinality(Lines(V))
  BY TestCardinality DEF Tests!With, Lines

(* One more test is reported and counted.                                  *)
LEMMA ReportEffect ==
    ASSUME Tests!TypeOK, Tests!Tally, pos \in 1..N, NEW v \in Verdict, Tests!Report(v)
    PROVE  /\ out' \in Seq([test : 1..N, verdict : Verdict])
           /\ DOMAIN out = 1..(pos - 1) /\ DOMAIN out' = 1..pos
           /\ \A n \in 1..(pos - 1) : out'[n] = out[n]
           /\ out'[pos].test = pos /\ out'[pos].verdict = v
           /\ pos' = pos + 1 /\ tpc' = "next"
           /\ {passed', failed', skipped'} \subseteq 0..N
           /\ Tests!Tally'
<1>1. /\ out \in Seq([test : 1..N, verdict : Verdict])
      /\ Len(out) = pos - 1 /\ N \in Nat /\ pos \in Nat
  BY TestAssumption DEF Tests!TypeOK, Tests!Tests, Verdict, Tests!Tally
<1>. DEFINE e == [test |-> pos, verdict |-> v]
<1>2. e \in [test : 1..N, verdict : Verdict] /\ e.test = pos /\ e.verdict = v
  OBVIOUS
<1>3. /\ out' = Append(out, e) /\ pos' = pos + 1 /\ tpc' = "next"
      /\ passed'  = passed  + (IF v = "pass" THEN 1 ELSE 0)
      /\ skipped' = skipped + (IF v = "skip" THEN 1 ELSE 0)
      /\ failed'  = failed  + (IF v \in {"fail"} \cup Tests!Broken THEN 1 ELSE 0)
  BY DEF Tests!Report
<1>. HIDE DEF e
<1>4. /\ out' \in Seq([test : 1..N, verdict : Verdict])
      /\ DOMAIN out = 1..(pos - 1) /\ DOMAIN out' = 1..pos /\ Len(out') = pos
      /\ \A n \in 1..(pos - 1) : out'[n] = out[n]
      /\ out'[pos] = e
  BY <1>1, <1>2, <1>3
<1>5. ASSUME NEW V
      PROVE  /\ Cardinality(Lines(V)') = Cardinality(Lines(V)) + (IF v \in V THEN 1 ELSE 0)
             /\ Cardinality(Lines(V)') \in Nat /\ Cardinality(Lines(V)) \in Nat
             /\ Cardinality(Lines(V)') <= pos
  <2>1. IsFiniteSet(1..pos) /\ Cardinality(1..pos) = pos
    BY <1>1, FS_Interval
  <2>2. Lines(V) \in SUBSET (1..pos) /\ Lines(V)' \in SUBSET (1..pos)
    BY <1>1, <1>4 DEF Lines
  <2>3. IsFiniteSet(Lines(V)) /\ IsFiniteSet(Lines(V)') /\ Cardinality(Lines(V)') <= pos
    BY <2>1, <2>2, FS_Subset
  <2>4. CASE v \in V
    <3>1. Lines(V)' = Lines(V) \cup {pos} /\ pos \notin Lines(V)
      BY <1>1, <1>2, <1>4, <2>4 DEF Lines
    <3>. QED
      BY <2>3, <2>4, <3>1, FS_AddElement, FS_CardinalityType
  <2>5. CASE v \notin V
    <3>1. Lines(V)' = Lines(V)
      BY <1>1, <1>2, <1>4, <2>5 DEF Lines
    <3>. QED
      BY <2>3, <2>5, <3>1, FS_CardinalityType
  <2>. QED
    BY <2>4, <2>5
<1>6. /\ passed = Cardinality(Lines({"pass"})) /\ skipped = Cardinality(Lines({"skip"}))
      /\ failed = Cardinality(Lines({"fail"} \cup Tests!Broken))
  BY WithCounts DEF Tests!Tally
<1>7. /\ passed' = Cardinality(Lines({"pass"})') /\ skipped' = Cardinality(Lines({"skip"})')
      /\ failed' = Cardinality(Lines({"fail"} \cup Tests!Broken)')
  BY <1>3, <1>5, <1>6
<1>8. {passed', failed', skipped'} \subseteq 0..N
  BY <1>1, <1>5, <1>7
<1>9. \A n \in DOMAIN out' : out'[n].test = n
  BY <1>1, <1>2, <1>4 DEF Tests!Tally
<1>10. Tests!Tally'
  <2>1. /\ passed' = Tests!With({"pass"})' /\ skipped' = Tests!With({"skip"})'
        /\ failed' = Tests!With({"fail"} \cup Tests!Broken)'
    BY <1>7, TestCardinality DEF Tests!With, Lines
  <2>. QED
    BY <1>1, <1>3, <1>4, <1>9, <2>1 DEF Tests!Tally
<1>. QED
  BY <1>2, <1>3, <1>4, <1>8, <1>10

(* What a report leaves of the channels and of what the bodies came to.    *)
Settles ==
    /\ UNCHANGED <<child, left>>
    /\ verdict' \in [1..N -> Tests!Verdicts \cup {"none"}]
    /\ mail' \in [1..N -> Seq(Tests!Verdicts)]
    /\ \A t \in 1..N : t # pos => verdict'[t] = verdict[t] /\ mail'[t] = mail[t]
    /\ IF pos \in Threaded THEN verdict'[pos] = verdict[pos] /\ mail'[pos] = <<>>
                           ELSE mail'[pos] = mail[pos]

\* The report is the test's own.
Own(v) ==
    \/ v = verdict'[pos]
    \/ v = "timeout" /\ pos \in Threaded \cup Timed
    \/ v = "thread panic" /\ pos \in Threaded /\ verdict[pos] = "none" /\ child[pos] = "gone"

LEMMA ReportKeepsInv ==
    ASSUME TestsInv, tpc \in {"body", "waits"}, NEW v \in Verdict, Tests!Report(v),
           Settles, Own(v)
    PROVE  TestsInv'
<1>1. /\ Tests!TypeOK /\ Tests!Tally /\ Tests!OwnVerdict
      /\ RunnerAt /\ ChildTells /\ PanickedIsGone
  BY DEF TestsInv
<1>2. pos \in 1..N /\ N \in Nat /\ pos \in Nat
  BY <1>1, TestAssumption DEF RunnerAt
<1>3. /\ out' \in Seq([test : 1..N, verdict : Verdict])
      /\ DOMAIN out = 1..(pos - 1) /\ DOMAIN out' = 1..pos
      /\ \A n \in 1..(pos - 1) : out'[n] = out[n]
      /\ out'[pos].test = pos /\ out'[pos].verdict = v
      /\ pos' = pos + 1 /\ tpc' = "next"
      /\ {passed', failed', skipped'} \subseteq 0..N
      /\ Tests!Tally'
  BY <1>1, <1>2, ReportEffect
<1>4. Tests!TypeOK'
  <2>1. pos' \in 1..(N + 1)
    BY <1>2, <1>3
  <2>2. /\ \A t \in 1..N : mail'[t] \in Seq(Tests!Verdicts)
        /\ verdict' \in [1..N -> Tests!Verdicts \cup {"none"}]
        /\ child' = child /\ left' = left
    BY DEF Settles
  <2>3. /\ child \in [1..N -> {"none", "body", "drops", "gone"}]
        /\ left \in [1..N -> {"none", "queued", "runs", "done", "lost"}]
    BY <1>1 DEF Tests!TypeOK, Tests!Tests
  <2>. QED
    BY <1>3, <2>1, <2>2, <2>3 DEF Tests!TypeOK, Tests!Tests, Verdict
<1>5. Tests!OwnVerdict'
  <2>1. SUFFICES ASSUME NEW n \in 1..pos
                 PROVE  LET t == out'[n].test  u == out'[n].verdict IN
                        \/ u = verdict'[t]
                        \/ u = "timeout" /\ t \in Threaded \cup Timed
                        \/ u = "thread panic" /\ t \in Threaded /\ verdict'[t] = "none"
    BY <1>3 DEF Tests!OwnVerdict
  <2>2. CASE n = pos
    <3>1. verdict[pos] = "none" /\ pos \in Threaded => verdict'[pos] = "none"
      BY DEF Settles
    <3>2. \/ v = verdict'[pos]
          \/ v = "timeout" /\ pos \in Threaded \cup Timed
          \/ v = "thread panic" /\ pos \in Threaded /\ verdict'[pos] = "none"
      BY <3>1 DEF Own
    <3>3. out'[n].test = pos /\ out'[n].verdict = v
      BY <1>3, <2>2
    <3>. QED
      BY <3>2, <3>3
  <2>3. CASE n \in 1..(pos - 1)
    <3>1. n # pos /\ n \in 1..N
      BY <1>2, <2>3
    <3>2. out[n].test = n /\ out'[n] = out[n]
      BY <1>1, <1>3, <2>3 DEF Tests!Tally
    <3>3. \/ out[n].verdict = verdict[n]
          \/ out[n].verdict = "timeout" /\ n \in Threaded \cup Timed
          \/ out[n].verdict = "thread panic" /\ n \in Threaded /\ verdict[n] = "none"
      BY <1>1, <1>3, <2>3, <3>2 DEF Tests!OwnVerdict
    <3>4. verdict'[n] = verdict[n]
      BY <3>1 DEF Settles
    <3>. QED
      BY <3>3, <3>4, <3>2
  <2>4. n = pos \/ n \in 1..(pos - 1)
    BY <1>2
  <2>. QED
    BY <2>2, <2>3, <2>4
<1>6. RunnerAt'
  BY <1>3 DEF RunnerAt
<1>7. ChildTells'
  <2>1. SUFFICES ASSUME NEW t \in 1..N PROVE StartedTells(t)' /\ MailTells(t)'
    BY DEF ChildTells
  <2>2. /\ child' = child /\ pos' = pos + 1 /\ tpc' = "next"
        /\ t # pos => verdict'[t] = verdict[t] /\ mail'[t] = mail[t]
    BY <1>3 DEF Settles
  <2>3. StartedTells(t) /\ MailTells(t)
    BY <1>1 DEF ChildTells
  <2>4. StartedTells(t)'
    <3>1. t < pos' <=> t < pos \/ t = pos
      BY <1>2, <2>2
    <3>2. t = pos /\ t \in Threaded => tpc = "waits"
      BY <1>1 DEF RunnerAt
    <3>3. child[t] # "none" <=> t \in Threaded /\ (t < pos \/ t = pos)
      BY <2>3, <3>2 DEF StartedTells
    <3>4. child'[t] # "none" <=> t \in Threaded /\ t < pos'
      BY <2>2, <3>1, <3>3
    <3>. QED
      BY <2>2, <3>4 DEF StartedTells
  <2>5. MailTells(t)'
    <3>1. ~Tests!Waited(t)'
      BY <2>2 DEF Tests!Waited
    <3>2. CASE t # pos
      BY <2>2, <2>3, <3>1, <3>2 DEF MailTells
    <3>3. CASE t = pos /\ pos \in Threaded
      <4>1. mail'[t] = <<>> /\ verdict'[t] = verdict[t] /\ Len(<<>>) = 0
        BY <3>3 DEF Settles
      <4>. QED
        BY <2>2, <2>3, <3>1, <4>1 DEF MailTells
    <3>4. CASE t = pos /\ pos \notin Threaded
      <4>1. child[t] = "none" /\ mail'[t] = mail[t]
        BY <2>3, <3>4 DEF StartedTells, Settles
      <4>2. mail'[t] = <<>> /\ Len(<<>>) = 0
        BY <2>3, <4>1 DEF MailTells
      <4>. QED
        BY <2>2, <3>1, <3>4, <4>2 DEF MailTells
    <3>. QED
      BY <3>2, <3>3, <3>4
  <2>. QED
    BY <2>4, <2>5
<1>8. PanickedIsGone'
  <2>1. v = "thread panic" => child[pos] = "gone"
    <3>1. verdict'[pos] # "thread panic"
      BY <1>2 DEF Settles, Tests!Verdicts
    <3>. QED
      BY <3>1 DEF Own
  <2>2. \A n \in 1..(pos - 1) : out[n].verdict = "thread panic" => child[n] = "gone"
    BY <1>1, <1>3 DEF PanickedIsGone
  <2>3. \A n \in 1..pos : n = pos \/ n \in 1..(pos - 1)
    BY <1>2
  <2>. QED
    BY <1>3, <2>1, <2>2, <2>3 DEF PanickedIsGone, Settles
<1>9. mail' \in [1..N -> Seq(Tests!Verdicts)]
  BY DEF Settles
<1>. QED
  BY <1>3, <1>4, <1>5, <1>6, <1>7, <1>8, <1>9 DEF TestsInv

(* The runner takes what the body came to, or gives up on it.              *)
LEMMA RunnerReportsKeepsInv ==
    ASSUME TestsInv,
           \/ \E v \in Tests!Verdicts : Tests!SerialEnds(v)
           \/ Tests!Receives \/ Tests!TimesOut \/ Tests!Disconnected
    PROVE  TestsInv'
<1>1. /\ verdict \in [1..N -> Tests!Verdicts \cup {"none"}]
      /\ mail \in [1..N -> Seq(Tests!Verdicts)]
      /\ RunnerAt /\ ChildTells
  BY DEF TestsInv, Tests!TypeOK, Tests!Tests
<1>2. tpc \in {"body", "waits"} /\ pos \in 1..N
  BY <1>1 DEF RunnerAt, Tests!SerialEnds, Tests!Receives, Tests!TimesOut, Tests!Disconnected
<1>3. ASSUME NEW v \in Tests!Verdicts, Tests!SerialEnds(v) PROVE TestsInv'
  <2>1. /\ tpc = "body" /\ pos \notin Threaded /\ UNCHANGED <<mail, child, left>>
        /\ verdict' = [verdict EXCEPT ![pos] = v]
        /\ Tests!Report(v) \/ (pos \in Timed /\ Tests!Report("timeout"))
    BY <1>1, <1>3 DEF Tests!SerialEnds, RunnerAt
  <2>2. verdict'[pos] = v /\ Settles
    BY <1>1, <1>2, <2>1 DEF Settles
  <2>3. CASE Tests!Report(v)
    BY <1>2, <2>2, <2>3, ReportKeepsInv DEF Verdict, Own
  <2>4. CASE pos \in Timed /\ Tests!Report("timeout")
    BY <1>2, <2>2, <2>4, ReportKeepsInv DEF Verdict, Own, Tests!Broken
  <2>. QED
    BY <2>1, <2>3, <2>4
<1>4. CASE Tests!Receives
  <2>1. /\ tpc = "waits" /\ pos \in Threaded /\ mail[pos] # <<>> /\ Tests!Report(Head(mail[pos]))
        /\ mail' = [mail EXCEPT ![pos] = Tail(mail[pos])] /\ UNCHANGED <<child, left, verdict>>
    BY <1>1, <1>4 DEF Tests!Receives, RunnerAt
  <2>2. mail[pos] \in Seq(Tests!Verdicts) /\ Len(mail[pos]) <= 1 /\ Head(mail[pos]) = verdict[pos]
    BY <1>1, <1>2, <2>1 DEF ChildTells, MailTells
  <2>3. Tail(mail[pos]) = <<>> /\ Head(mail[pos]) \in Tests!Verdicts
    BY <2>1, <2>2
  <2>4. /\ mail' \in [1..N -> Seq(Tests!Verdicts)] /\ mail'[pos] = <<>>
        /\ \A t \in 1..N : t # pos => mail'[t] = mail[t]
    <3>1. mail' = [mail EXCEPT ![pos] = <<>>]
      BY <2>1, <2>3
    <3>2. <<>> \in Seq(Tests!Verdicts)
      OBVIOUS
    <3>. QED
      BY <1>1, <1>2, <3>1, <3>2
  <2>5. Settles /\ Own(Head(mail[pos]))
    BY <1>1, <2>1, <2>2, <2>4 DEF Settles, Own
  <2>. QED
    BY <1>2, <2>1, <2>3, <2>5, ReportKeepsInv DEF Verdict
<1>5. CASE Tests!TimesOut \/ Tests!Disconnected
  <2>1. /\ tpc = "waits" /\ pos \in Threaded /\ mail[pos] = <<>>
        /\ UNCHANGED <<child, mail, left, verdict>>
    BY <1>1, <1>5 DEF Tests!TimesOut, Tests!Disconnected, RunnerAt
  <2>2. Settles
    BY <1>1, <2>1 DEF Settles
  <2>3. CASE Tests!TimesOut
    <3>1. Own("timeout") /\ "timeout" \in Verdict /\ Tests!Report("timeout")
      BY <2>1, <2>3 DEF Own, Verdict, Tests!Broken, Tests!TimesOut
    <3>. QED
      BY <1>2, <2>2, <3>1, ReportKeepsInv
  <2>4. CASE Tests!Disconnected
    <3>1. /\ child[pos] = "gone" /\ Tests!Report("thread panic")
          /\ "thread panic" \in Verdict
      BY <2>4 DEF Tests!Disconnected, Verdict, Tests!Broken
    <3>2. verdict[pos] = "none"
      BY <1>1, <1>2, <2>1, <3>1 DEF ChildTells, MailTells, Tests!Waited
    <3>. QED
      BY <1>2, <2>1, <2>2, <3>1, <3>2, ReportKeepsInv DEF Own
  <2>. QED
    BY <1>5, <2>3, <2>4
<1>. QED
  BY <1>3, <1>4, <1>5

-----------------------------------------------------------------------------
(* Steps of the runner that report nothing.                                *)
LEMMA RunnerMovesKeepsInv ==
    ASSUME TestsInv,
           Tests!StartsSerial \/ Tests!StartsThread \/ Tests!DrainStarts \/ Tests!DrainReturns
    PROVE  TestsInv'
<1>1. UNCHANGED <<pos, out, passed, failed, skipped, mail, left, verdict>>
  BY DEF Tests!StartsSerial, Tests!StartsThread, Tests!DrainStarts, Tests!DrainReturns
<1>2. /\ Tests!TypeOK /\ Tests!Tally /\ Tests!OwnVerdict
      /\ RunnerAt /\ ChildTells /\ PanickedIsGone
      /\ mail \in [1..N -> Seq(Tests!Verdicts)] /\ child \in [1..N -> {"none", "body", "drops", "gone"}]
      /\ pos \in 1..(N + 1) /\ N \in Nat
  BY TestAssumption DEF TestsInv, Tests!TypeOK, Tests!Tests
<1>3. /\ tpc' \in {"next", "body", "waits", "drains", "end"}
      /\ RunnerAt'
  BY <1>1, <1>2 DEF RunnerAt, Tests!StartsSerial, Tests!StartsThread, Tests!DrainStarts,
         Tests!DrainReturns, Tests!Upcoming, Tests!Tests
<1>4. CASE Tests!StartsThread
  <2>1. /\ pos \in 1..N /\ pos \in Threaded /\ tpc = "next" /\ tpc' = "waits"
        /\ child' = [child EXCEPT ![pos] = "body"]
    BY <1>4 DEF Tests!StartsThread, Tests!Upcoming, Tests!Tests
  <2>2. /\ child'[pos] = "body" /\ \A t \in 1..N : t # pos => child'[t] = child[t]
        /\ child' \in [1..N -> {"none", "body", "drops", "gone"}]
    BY <1>2, <2>1
  <2>3. child[pos] = "none"
    BY <1>2, <2>1 DEF ChildTells, StartedTells
  <2>4. ASSUME NEW t \in 1..N PROVE StartedTells(t)' /\ MailTells(t)'
    <3>1. StartedTells(t) /\ MailTells(t)
      BY <1>2 DEF ChildTells
    <3>2. CASE t = pos
      <4>1. child[t] = "none" /\ mail[t] = <<>> /\ verdict[t] = "none" /\ Len(<<>>) = 0
        BY <2>1, <2>3, <3>1, <3>2 DEF MailTells
      <4>. QED
        BY <1>1, <2>1, <2>2, <3>2, <4>1 DEF StartedTells, MailTells
    <3>3. CASE t # pos
      <4>1. child'[t] = child[t] /\ ~Tests!Waited(t)'
        BY <1>1, <2>1, <2>2, <3>3 DEF Tests!Waited
      <4>2. StartedTells(t)'
        BY <1>1, <2>1, <3>1, <3>3, <4>1 DEF StartedTells
      <4>3. MailTells(t)'
        BY <1>1, <3>1, <4>1 DEF MailTells
      <4>. QED
        BY <4>2, <4>3
    <3>. QED
      BY <3>2, <3>3
  <2>5. PanickedIsGone'
    <3>1. \A n \in DOMAIN out : n # pos
      <4>1. out \in Seq([test : 1..N, verdict : Verdict]) /\ Len(out) = pos - 1
        BY <1>2 DEF Tests!TypeOK, Tests!Tests, Tests!Tally, Verdict
      <4>. QED
        BY <1>2, <4>1
    <3>2. \A n \in DOMAIN out : n \in 1..N
      <4>1. out \in Seq([test : 1..N, verdict : Verdict]) /\ Len(out) = pos - 1
        BY <1>2 DEF Tests!TypeOK, Tests!Tests, Tests!Tally, Verdict
      <4>. QED
        BY <1>2, <4>1
    <3>. QED
      BY <1>1, <1>2, <2>2, <3>1, <3>2 DEF PanickedIsGone
  <2>6. Tests!TypeOK'
    BY <1>1, <1>2, <1>3, <2>2 DEF Tests!TypeOK, Tests!Tests
  <2>. QED
    BY <1>1, <1>2, <1>3, <2>4, <2>5, <2>6
       DEF ChildTells, TestsInv, Tests!Tally, Tests!With, Tests!OwnVerdict
<1>5. CASE Tests!StartsSerial \/ Tests!DrainStarts \/ Tests!DrainReturns
  <2>1. child' = child /\ tpc # "waits" /\ tpc' # "waits"
    BY <1>5 DEF Tests!StartsSerial, Tests!DrainStarts, Tests!DrainReturns, Tests!Upcoming
  <2>2. ChildTells'
    BY <1>1, <1>2, <2>1 DEF ChildTells, StartedTells, MailTells, Tests!Waited
  <2>3. Tests!TypeOK'
    BY <1>1, <1>2, <1>3, <2>1 DEF Tests!TypeOK
  <2>. QED
    BY <1>1, <1>2, <1>3, <2>1, <2>2, <2>3
       DEF TestsInv, Tests!Tally, Tests!With, Tests!OwnVerdict, PanickedIsGone
<1>. QED
  BY <1>4, <1>5

(* The thread of a test ends its body, with a verdict or without, or goes. *)
ChildStep(t) ==
    \/ \E v \in Tests!Verdicts : Tests!ChildEnds(t, v)
    \/ Tests!ChildPanics(t) \/ Tests!ChildDrops(t)

LEMMA ChildKeepsInv ==
    ASSUME TestsInv, NEW t \in 1..N, ChildStep(t)
    PROVE  TestsInv'
<1>1. UNCHANGED <<tpc, pos, out, passed, failed, skipped>>
  BY DEF ChildStep, Tests!ChildEnds, Tests!ChildPanics, Tests!ChildDrops
<1>2. /\ Tests!TypeOK /\ Tests!Tally /\ Tests!OwnVerdict
      /\ RunnerAt /\ ChildTells /\ PanickedIsGone
      /\ mail \in [1..N -> Seq(Tests!Verdicts)] /\ child \in [1..N -> {"none", "body", "drops", "gone"}]
      /\ verdict \in [1..N -> Tests!Verdicts \cup {"none"}]
      /\ left \in [1..N -> {"none", "queued", "runs", "done", "lost"}]
  BY DEF TestsInv, Tests!TypeOK, Tests!Tests
<1>3. /\ \A u \in 1..N : u # t => /\ child'[u] = child[u] /\ mail'[u] = mail[u]
                                  /\ verdict'[u] = verdict[u]
      /\ child' \in [1..N -> {"none", "body", "drops", "gone"}]
      /\ mail' \in [1..N -> Seq(Tests!Verdicts)]
      /\ verdict' \in [1..N -> Tests!Verdicts \cup {"none"}]
      /\ left' \in [1..N -> {"none", "queued", "runs", "done", "lost"}]
      /\ \/ /\ child[t] = "body" /\ child'[t] = "drops"
            /\ \/ mail'[t] = mail[t] /\ verdict'[t] = verdict[t]
               \/ /\ verdict'[t] \in Tests!Verdicts
                  /\ mail'[t] = IF Tests!Waited(t) THEN Append(mail[t], verdict'[t]) ELSE mail[t]
         \/ child[t] = "drops" /\ child'[t] = "gone" /\ mail'[t] = mail[t] /\ verdict'[t] = verdict[t]
  <2>1. ASSUME NEW v \in Tests!Verdicts, Tests!ChildEnds(t, v)
        PROVE  /\ child[t] = "body" /\ child' = [child EXCEPT ![t] = "drops"] /\ left' = left
               /\ verdict' = [verdict EXCEPT ![t] = v]
               /\ mail' = [mail EXCEPT ![t] = IF Tests!Waited(t) THEN Append(mail[t], v) ELSE mail[t]]
    BY <1>2, <2>1 DEF Tests!ChildEnds, Tests!Answers
  <2>2. CASE \E v \in Tests!Verdicts : Tests!ChildEnds(t, v)
    <3>1. PICK v \in Tests!Verdicts : Tests!ChildEnds(t, v)
      BY <2>2
    <3>2. mail[t] \in Seq(Tests!Verdicts) /\ Append(mail[t], v) \in Seq(Tests!Verdicts)
      BY <1>2
    <3>3. mail' = [mail EXCEPT ![t] = IF Tests!Waited(t) THEN Append(mail[t], v) ELSE mail[t]]
      BY <2>1, <3>1
    <3>4. /\ mail' \in [1..N -> Seq(Tests!Verdicts)]
          /\ mail'[t] = IF Tests!Waited(t) THEN Append(mail[t], v) ELSE mail[t]
          /\ \A u \in 1..N : u # t => mail'[u] = mail[u]
      BY <1>2, <3>2, <3>3
    <3>5. /\ verdict' \in [1..N -> Tests!Verdicts \cup {"none"}] /\ verdict'[t] = v
          /\ \A u \in 1..N : u # t => verdict'[u] = verdict[u]
      BY <1>2, <2>1, <3>1
    <3>6. /\ child' \in [1..N -> {"none", "body", "drops", "gone"}]
          /\ child[t] = "body" /\ child'[t] = "drops" /\ left' = left
          /\ \A u \in 1..N : u # t => child'[u] = child[u]
      BY <1>2, <2>1, <3>1
    <3>. QED
      BY <1>2, <3>4, <3>5, <3>6
  <2>3. CASE Tests!ChildPanics(t)
    BY <1>2, <2>3 DEF Tests!ChildPanics
  <2>4. CASE Tests!ChildDrops(t)
    BY <1>2, <2>4 DEF Tests!ChildDrops
  <2>. QED
    BY <2>2, <2>3, <2>4 DEF ChildStep
<1>4. Tests!TypeOK'
  BY <1>1, <1>2, <1>3 DEF Tests!TypeOK, Tests!Tests
<1>6. /\ child[t] = "body" => mail[t] = <<>> /\ t \in Threaded /\ verdict[t] = "none"
      /\ t \in Threaded /\ (t < pos \/ (t = pos /\ tpc = "waits"))
  BY <1>2, <1>3 DEF ChildTells, StartedTells, MailTells
<1>7. /\ child'[t] \in {"drops", "gone"} /\ Len(mail'[t]) <= 1
      /\ mail'[t] # <<>> => Head(mail'[t]) = verdict'[t]
      /\ Tests!Waited(t) /\ mail'[t] = <<>> => verdict'[t] = "none"
  <2>1. CASE child[t] = "body"
    <3>1. mail[t] = <<>> /\ verdict[t] = "none"
      BY <1>6, <2>1
    <3>2. /\ Len(<<>>) = 0
          /\ Append(<<>>, verdict'[t]) = <<verdict'[t]>> /\ Len(<<verdict'[t]>>) = 1
          /\ Head(<<verdict'[t]>>) = verdict'[t] /\ <<verdict'[t]>> # <<>>
      OBVIOUS
    <3>3. child'[t] = "drops" /\ mail'[t] \in {<<>>, <<verdict'[t]>>}
      BY <1>3, <2>1, <3>1, <3>2
    <3>4. Tests!Waited(t) /\ mail'[t] = <<>> => verdict'[t] = "none"
      BY <1>3, <2>1, <3>1, <3>2
    <3>5. CASE mail'[t] = <<>>
      BY <3>2, <3>3, <3>4, <3>5
    <3>6. CASE mail'[t] = <<verdict'[t]>>
      BY <3>2, <3>3, <3>4, <3>6
    <3>. QED
      BY <3>3, <3>5, <3>6
  <2>2. CASE child[t] = "drops"
    <3>1. MailTells(t)
      BY <1>2 DEF ChildTells
    <3>2. child'[t] = "gone" /\ mail'[t] = mail[t] /\ verdict'[t] = verdict[t]
      BY <1>3, <2>2
    <3>. QED
      BY <2>2, <3>1, <3>2 DEF MailTells
  <2>. QED
    BY <1>3, <2>1, <2>2
<1>8. ASSUME NEW u \in 1..N PROVE StartedTells(u)' /\ MailTells(u)'
  <2>1. CASE u = t
    <3>1. Tests!Waited(t)' <=> Tests!Waited(t)
      BY <1>1 DEF Tests!Waited
    <3>. QED
      BY <1>1, <1>6, <1>7, <2>1, <3>1 DEF StartedTells, MailTells
  <2>2. CASE u # t
    <3>1. StartedTells(u) /\ MailTells(u)
      BY <1>2 DEF ChildTells
    <3>2. child'[u] = child[u] /\ mail'[u] = mail[u] /\ verdict'[u] = verdict[u]
      BY <1>3, <2>2
    <3>. QED
      BY <1>1, <3>1, <3>2 DEF StartedTells, MailTells, Tests!Waited
  <2>. QED
    BY <2>1, <2>2
<1>9. \A n \in DOMAIN out : n \in 1..N /\ out[n].test = n /\ out[n].verdict \in Verdict
  <2>1. out \in Seq([test : 1..N, verdict : Verdict]) /\ Len(out) = pos - 1 /\ pos \in 1..(N + 1)
    BY <1>2 DEF Tests!TypeOK, Tests!Tests, Tests!Tally, Verdict
  <2>2. DOMAIN out = 1..(pos - 1)
    BY <2>1
  <2>3. \A n \in 1..(pos - 1) : n \in 1..N
    BY <2>1, TestAssumption
  <2>4. \A n \in 1..(pos - 1) : out[n].verdict \in Verdict
    <3>1. SUFFICES ASSUME NEW n \in 1..(pos - 1) PROVE out[n].verdict \in Verdict
      OBVIOUS
    <3>2. n \in 1..Len(out)
      BY <2>1
    <3>3. out[n] \in [test : 1..N, verdict : Verdict]
      BY <2>1, <3>2, ElementOf
    <3>. QED
      BY <3>3
  <2>. QED
    BY <1>2, <2>2, <2>3, <2>4 DEF Tests!Tally
<1>10. PanickedIsGone'
  <2>1. child[t] # "gone"
    BY <1>3
  <2>2. \A n \in DOMAIN out : out[n].verdict = "thread panic" => n # t /\ child[n] = "gone"
    BY <1>2, <2>1 DEF PanickedIsGone
  <2>3. \A n \in DOMAIN out : n # t => child'[n] = child[n]
    BY <1>3, <1>9
  <2>. QED
    BY <1>1, <2>2, <2>3 DEF PanickedIsGone
<1>11. Tests!OwnVerdict'
  <2>1. SUFFICES ASSUME NEW n \in DOMAIN out
                 PROVE  \/ out[n].verdict = verdict'[n]
                        \/ out[n].verdict = "timeout" /\ n \in Threaded \cup Timed
                        \/ out[n].verdict = "thread panic" /\ n \in Threaded /\ verdict'[n] = "none"
    BY <1>1, <1>9 DEF Tests!OwnVerdict
  <2>2. \/ out[n].verdict = verdict[n]
        \/ out[n].verdict = "timeout" /\ n \in Threaded \cup Timed
        \/ out[n].verdict = "thread panic" /\ n \in Threaded /\ verdict[n] = "none"
    <3>1. out[n].test = n
      BY <1>9
    <3>. QED
      BY <1>2, <3>1 DEF Tests!OwnVerdict
  <2>3. CASE n = t /\ child[t] = "body"
    <3>1. out[n].verdict # "none"
      BY <1>9 DEF Verdict, Tests!Verdicts, Tests!Broken
    <3>2. out[n].verdict # "thread panic"
      BY <1>2, <2>3 DEF PanickedIsGone
    <3>. QED
      BY <1>6, <2>2, <2>3, <3>1, <3>2
  <2>4. CASE n # t \/ child[t] # "body"
    <3>1. verdict'[n] = verdict[n]
      BY <1>3, <1>9, <2>4
    <3>. QED
      BY <2>2, <3>1
  <2>. QED
    BY <2>3, <2>4
<1>. QED
  BY <1>1, <1>2, <1>3, <1>4, <1>8, <1>10, <1>11 DEF ChildTells, TestsInv, Tests!Tally, Tests!With, RunnerAt

(* Goroutines left behind say nothing of the tests.                        *)
LEMMA LeftKeepsInv ==
    ASSUME TestsInv, NEW t \in 1..N,
           Tests!Leaves(t) \/ Tests!LeftRuns(t) \/ Tests!LeftReturns(t)
    PROVE  TestsInv'
<1>1. UNCHANGED <<tpc, pos, out, passed, failed, skipped, child, mail, verdict>>
  BY DEF Tests!Leaves, Tests!LeftRuns, Tests!LeftReturns
<1>2. left' \in [1..N -> {"none", "queued", "runs", "done", "lost"}]
  BY DEF TestsInv, Tests!TypeOK, Tests!Tests, Tests!Leaves, Tests!LeftRuns, Tests!LeftReturns
<1>3. Tests!TypeOK'
  BY <1>1, <1>2 DEF TestsInv, Tests!TypeOK, Tests!Tests
<1>. QED
  BY <1>1, <1>3 DEF TestsInv, Tests!Tally, Tests!With, Tests!OwnVerdict, RunnerAt, ChildTells, StartedTells,
         MailTells, PanickedIsGone, Tests!Waited

LEMMA TestsKeepInv == TestsInv /\ Tests!Next => TestsInv'
<1>1. SUFFICES ASSUME TestsInv, Tests!Next PROVE TestsInv'
  OBVIOUS
<1>2. CASE Tests!Runner
  BY <1>1, <1>2, RunnerMovesKeepsInv, RunnerReportsKeepsInv DEF Tests!Runner
<1>3. CASE \E t \in 1..N : ChildStep(t)
  BY <1>1, <1>3, ChildKeepsInv
<1>4. CASE \E t \in 1..N : Tests!Leaves(t) \/ Tests!LeftRuns(t) \/ Tests!LeftReturns(t)
  BY <1>1, <1>4, LeftKeepsInv
<1>. QED
  BY <1>1, <1>2, <1>3, <1>4 DEF Tests!Next, Tests!Tests, ChildStep

-----------------------------------------------------------------------------
(* The parts together.  A step is one of a single part.                    *)
LEMMA OnePartSteps ==
    ASSUME [PartsNext]_allVars
    PROVE  /\ Containers!Next \/ UNCHANGED containerVars
           /\ Futures!Next \/ UNCHANGED futureVars
           /\ Tests!Next \/ UNCHANGED testVars
  BY DEF PartsNext, allVars, UsesContainers, UsesFutures, RunsTests, RunsIr,
         RunsPool, UsesChannel, InTests, InIr, InPool, InChannel

LEMMA ContainersStutter == ContainersInv /\ UNCHANGED containerVars => ContainersInv'
<1>1. SUFFICES ASSUME ContainersInv, UNCHANGED containerVars PROVE ContainersInv'
  OBVIOUS
<1>2. UNCHANGED <<handles, channels, nextId, blocked, panicked, outcome, written, got, writes>>
  BY <1>1 DEF containerVars
<1>3. Containers!TypeOK' /\ Containers!PanicNeedsAlias'
  BY <1>1, <1>2 DEF ContainersInv, Containers!TypeOK, Containers!PanicNeedsAlias, Containers!Made
<1>4. HandlesTell' /\ EntriesTell' /\ UnmadeUnused'
  BY <1>1, <1>2 DEF ContainersInv, HandlesTell, EntriesTell, UnmadeUnused
<1>5. QueuesTell'
  BY <1>1, <1>2 DEF ContainersInv, QueuesTell, Alone, InOrder
<1>6. ValuesTell'
  BY <1>1, <1>2 DEF ContainersInv, ValuesTell, LogsAreOld, GotWasWritten, QueuedWasWritten,
                    GotOnce, QueuedOnce, GotIsGone, WasWritten
<1>. QED
  BY <1>3, <1>4, <1>5, <1>6 DEF ContainersInv

LEMMA ContainersInvariance == PartsSpec => []ContainersInv
<1>1. PartsInit => ContainersInv
  BY ContainersInitInv DEF PartsInit
<1>2. ContainersInv /\ [PartsNext]_allVars => ContainersInv'
  BY OnePartSteps, ContainersStutter, ContainersKeepInv
<1>. QED
  BY <1>1, <1>2, PTL DEF PartsSpec

(* What the maker of a container reads from it is what it wrote, in order, *)
(* as long as it has used no other maker's handle with the same number.    *)
THEOREM OwnContainersAreFifo == PartsSpec => []OwnFifo
  BY ContainersInvariance, ContainersAreFifo, PTL

(* Whatever handles interpreters pass on, a value that was written is read *)
(* once at most, and no other is read; one only panics on a handle from    *)
(* another maker, whose number is a Hub of its own.                        *)
THEOREM ValuesAreReadOnce == PartsSpec => []ReadOnce
<1>1. PartsInit => WrittenOnce
  <2>1. SUFFICES ASSUME PartsInit PROVE WrittenOnce
    OBVIOUS
  <2>2. written = [i \in Interps |-> [h \in Slots |-> <<>>]]
    BY <2>1, SlotsAre DEF PartsInit, Containers!Init
  <2>. QED
    BY <2>2 DEF WrittenOnce
<1>2. ContainersInv /\ WrittenOnce /\ [PartsNext]_allVars => WrittenOnce'
  <2>1. SUFFICES ASSUME ContainersInv, WrittenOnce, [PartsNext]_allVars PROVE WrittenOnce'
    OBVIOUS
  <2>2. CASE Containers!Next
    BY <2>1, <2>2, WritesAreNew
  <2>3. CASE UNCHANGED containerVars
    BY <2>1, <2>3 DEF containerVars, WrittenOnce
  <2>. QED
    BY <2>1, <2>2, <2>3, OnePartSteps
<1>. QED
  BY <1>1, <1>2, ContainersInvariance, ContainersReadOnce, PTL DEF PartsSpec

LEMMA FuturesInvariance ==
    ASSUME NEW rank, IsRank(rank) PROVE PartsSpec => []FuturesInv(rank)
<1>1. PartsInit => FuturesInv(rank)
  BY FuturesInitInv DEF PartsInit
<1>2. FuturesInv(rank) /\ [PartsNext]_allVars => FuturesInv(rank)'
  <2>1. SUFFICES ASSUME FuturesInv(rank), [PartsNext]_allVars PROVE FuturesInv(rank)'
    OBVIOUS
  <2>2. CASE Futures!Next
    BY <2>1, <2>2, FuturesKeepInv
  <2>3. CASE UNCHANGED futureVars
    BY <2>1, <2>3 DEF futureVars, FuturesInv, Futures!TypeOK, Futures!RunsOnce, Futures!Running,
                      Inward, AnswerIsCached
  <2>. QED
    BY <2>1, <2>2, <2>3, OnePartSteps
<1>. QED
  BY <1>1, <1>2, PTL DEF PartsSpec

(* Every await of a future gives one value, the one that its cache holds.  *)
THEOREM AwaitsAgree == PartsSpec => []AwaitIsStable
<1>1. PICK rank : IsRank(rank)
  BY FutureAssumption DEF IsRank
<1>2. FuturesInv(rank) => AwaitIsStable
  BY FuturesInvHolds
<1>3. PartsSpec => []FuturesInv(rank)
  BY <1>1, FuturesInvariance
<1>. QED
  BY <1>2, <1>3, PTL

(* No body runs twice or inside itself, none starts once it was cancelled, *)
(* and a future that is done has given its answer.                         *)
THEOREM BodiesRunOnce == PartsSpec => []RunsOnce
<1>1. PICK rank : IsRank(rank)
  BY FutureAssumption DEF IsRank
<1>2. FuturesInv(rank) => RunsOnce
  BY FuturesInvHolds
<1>3. PartsSpec => []FuturesInv(rank)
  BY <1>1, FuturesInvariance
<1>. QED
  BY <1>2, <1>3, PTL

(* The summary counts what the lines say, and a line says what its test's  *)
(* own body came to, however late threads that timed out are.              *)
THEOREM ReportsAreTrue == PartsSpec => []ReportIsTrue
<1>1. PartsInit => TestsInv
  BY TestsInitInv DEF PartsInit
<1>2. TestsInv /\ [PartsNext]_allVars => TestsInv'
  <2>1. SUFFICES ASSUME TestsInv, [PartsNext]_allVars PROVE TestsInv'
    OBVIOUS
  <2>2. CASE Tests!Next
    BY <2>1, <2>2, TestsKeepInv
  <2>3. CASE UNCHANGED testVars
    <3>1. Tests!TypeOK' /\ Tests!Tally' /\ Tests!OwnVerdict'
      BY <2>1, <2>3 DEF testVars, TestsInv, Tests!TypeOK, Tests!Tally, Tests!With, Tests!OwnVerdict
    <3>2. RunnerAt' /\ ChildTells' /\ PanickedIsGone'
      BY <2>1, <2>3 DEF testVars, TestsInv, RunnerAt, ChildTells, StartedTells, MailTells,
                        Tests!Waited, PanickedIsGone
    <3>. QED
      BY <2>1, <2>3, <3>1, <3>2 DEF testVars, TestsInv
  <2>. QED
    BY <2>1, <2>2, <2>3, OnePartSteps
<1>3. TestsInv => ReportIsTrue
  BY DEF TestsInv, ReportIsTrue
<1>. QED
  BY <1>1, <1>2, <1>3, PTL DEF PartsSpec
=============================================================================
