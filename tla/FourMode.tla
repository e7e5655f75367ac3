------------------------------- MODULE FourMode -------------------------------
(***************************************************************************)
(* The shared containers Pipe, Tee, Funnel and Hub of hc-rt/src/interp/    *)
(* call.rs (make_four_mode_container, call_four_mode_method).  A container *)
(* value is a class instance that holds an id; the queue itself is found   *)
(* under that id in `channels` of the interpreter that runs the call.      *)
(* Every thread has an interpreter of its own, whose ids start at 1 again. *)
(* Tee, Funnel and Hub share one implementation and are all "Hub" here.    *)
(***************************************************************************)
EXTENDS Naturals, Sequences, SequencesExt

CONSTANTS Interps,     \* the interpreters: the program's, those of its threads
          MaxHandles,  \* bound: containers made, by all interpreters together
          MaxWrites    \* bound: calls of write and send

Kinds   == {"Pipe", "Hub"}
Handles == 1..MaxHandles
Absent  == [kind |-> "none", queue |-> <<>>]

VARIABLES handles,  \* the container values: [kind, id, closed], in order of creation;
                    \* maker is history, the interpreter that made it
          channels, \* channels[i]: Interp::channels, Absent where there is no entry
          nextId,   \* Interp::next_channel_id
          blocked,  \* interpreters that wait in recv or in condvar.wait
          panicked, \* interpreters that reached unreachable!()
          outcome,  \* what the latest call of each interpreter returned
          written,  \* history: written[i][h], what i wrote through h, in order
          got,      \* history: got[i][h], what i read through h, in order
          writes    \* number of writes, see MaxWrites; it makes values unique

vars == <<handles, channels, nextId, blocked, panicked, outcome, written, got, writes>>

Ids      == 1..MaxHandles
Running  == Interps \ (blocked \cup panicked)
Made     == DOMAIN handles
Entry(i, h) == channels[i][handles[h].id]
Outcomes == {"none", "Void", "Closed", "TypeError", "NoMethod", "Value", "Null"}

Init ==
    /\ handles = <<>>
    /\ channels = [i \in Interps |-> [c \in Ids |-> Absent]]
    /\ nextId = [i \in Interps |-> 1]
    /\ blocked = {} /\ panicked = {}
    /\ outcome = [i \in Interps |-> "none"]
    /\ written = [i \in Interps |-> [h \in Handles |-> <<>>]] /\ got = written
    /\ writes = 0

Returns(i, r) == outcome' = [outcome EXCEPT ![i] = r]

Panics(i) ==
    /\ panicked' = panicked \cup {i}
    /\ UNCHANGED outcome

-----------------------------------------------------------------------------
(* Mutant: the id is not advanced.                                         *)
MakeReusesId(i, k) ==
    /\ i \in Running /\ Len(handles) < MaxHandles
    /\ handles' = Append(handles, [kind |-> k, id |-> nextId[i], closed |-> FALSE, maker |-> i])
    /\ channels' = [channels EXCEPT ![i][nextId[i]] = [kind |-> k, queue |-> <<>>]]
    /\ Returns(i, "Value")
    /\ UNCHANGED <<nextId, blocked, panicked, written, got, writes>>

(* init: a fresh queue under a fresh id of this interpreter.               *)
Make(i, k) ==
    /\ i \in Running /\ Len(handles) < MaxHandles
    /\ handles' = Append(handles, [kind |-> k, id |-> nextId[i], closed |-> FALSE, maker |-> i])
    /\ channels' = [channels EXCEPT ![i][nextId[i]] = [kind |-> k, queue |-> <<>>]]
    /\ nextId' = [nextId EXCEPT ![i] = @ + 1]
    /\ Returns(i, "Value")
    /\ UNCHANGED <<blocked, panicked, written, got, writes>>

(* The entry the id names in this interpreter is none, or of the other     *)
(* kind: the Pipe methods are then in unreachable!(), the others raise.    *)
Misses(i, h) ==
    /\ Entry(i, h).kind # handles[h].kind
    /\ IF handles[h].kind = "Pipe" /\ Entry(i, h) # Absent
       THEN Panics(i)
       ELSE Returns(i, "TypeError") /\ UNCHANGED panicked
    /\ UNCHANGED <<handles, channels, nextId, blocked, written, got>>

(* write, and send of the Hub family, which is the same: no capacity.      *)
Write(i, h) ==
    /\ i \in Running /\ writes < MaxWrites
    /\ writes' = writes + 1
    /\ \/ /\ handles[h].closed
          /\ Returns(i, "Closed")
          /\ UNCHANGED <<handles, channels, nextId, blocked, panicked, written, got>>
       \/ /\ ~handles[h].closed
          /\ Misses(i, h)
       \/ /\ ~handles[h].closed /\ Entry(i, h).kind = handles[h].kind
          /\ channels' = [channels EXCEPT ![i][handles[h].id].queue = Append(@, writes)]
          /\ written' = [written EXCEPT ![i][h] = Append(@, writes)]
          /\ Returns(i, "Void")
          /\ UNCHANGED <<handles, nextId, blocked, panicked, got>>

(* Pipe has no send.                                                       *)
SendToPipe(i, h) ==
    /\ i \in Running /\ handles[h].kind = "Pipe"
    /\ Returns(i, "NoMethod")
    /\ UNCHANGED <<handles, channels, nextId, blocked, panicked, written, got, writes>>

(* Mutant: front() for pop_front().                                        *)
TakesPeeks(i, h) ==
    /\ Entry(i, h).queue # <<>>
    /\ got' = [got EXCEPT ![i][h] = Append(@, Head(Entry(i, h).queue))]
    /\ Returns(i, "Value")
    /\ UNCHANGED <<channels, blocked, panicked>>

Takes(i, h) ==
    /\ Entry(i, h).queue # <<>>
    /\ channels' = [channels EXCEPT ![i][handles[h].id].queue = Tail(@)]
    /\ got' = [got EXCEPT ![i][h] = Append(@, Head(Entry(i, h).queue))]
    /\ Returns(i, "Value")
    /\ UNCHANGED <<blocked, panicked>>

(* read, recv: an empty queue blocks the thread.  The queue can be reached *)
(* through this interpreter only, and a Pipe's sender is dropped with its  *)
(* receiver, so nothing ends the wait.                                     *)
Read(i, h) ==
    /\ i \in Running
    /\ \/ Misses(i, h)
       \/ /\ Entry(i, h).kind = handles[h].kind
          /\ \/ Takes(i, h)
             \/ /\ Entry(i, h).queue = <<>>
                /\ blocked' = blocked \cup {i}
                /\ UNCHANGED <<channels, panicked, outcome, got>>
          /\ UNCHANGED <<handles, nextId, written>>
    /\ UNCHANGED writes

TryRead(i, h) ==
    /\ i \in Running
    /\ \/ Misses(i, h)
       \/ /\ Entry(i, h).kind = handles[h].kind
          /\ \/ Takes(i, h)
             \/ /\ Entry(i, h).queue = <<>>
                /\ Returns(i, "Null")
                /\ UNCHANGED <<channels, blocked, panicked, got>>
          /\ UNCHANGED <<handles, nextId, written>>
    /\ UNCHANGED writes

(* close: the entry is removed, with the values still in it; only a Pipe   *)
(* also gets its `closed` field set.                                       *)
Close(i, h) ==
    /\ i \in Running
    /\ channels' = [channels EXCEPT ![i][handles[h].id] = Absent]
    /\ handles' = IF handles[h].kind = "Pipe" THEN [handles EXCEPT ![h].closed = TRUE] ELSE handles
    /\ Returns(i, "Void")
    /\ UNCHANGED <<nextId, blocked, panicked, written, got, writes>>

Next ==
    \E i \in Interps :
        \/ \E k \in Kinds : Make(i, k)
        \/ \E h \in Made : Write(i, h) \/ SendToPipe(i, h) \/ Read(i, h) \/ TryRead(i, h) \/ Close(i, h)

Spec == Init /\ [][Next]_vars

-----------------------------------------------------------------------------
Values == 0..(MaxWrites - 1)

TypeOK ==
    /\ handles \in Seq([kind : Kinds, id : Ids, closed : BOOLEAN, maker : Interps])
    /\ channels \in [Interps -> [Ids -> [kind : Kinds \cup {"none"}, queue : Seq(Values)]]]
    /\ nextId \in [Interps -> 1..(MaxHandles + 1)]
    /\ blocked \subseteq Interps /\ panicked \subseteq Interps
    /\ outcome \in [Interps -> Outcomes]
    /\ \A q \in {written, got} : q \in [Interps -> [Handles -> Seq(Values)]]
    /\ writes \in 0..MaxWrites

(* A handle another interpreter made, with the id of h, that names the     *)
(* queue of h in interpreter i.                                            *)
Aliases(i, h) == {g \in Made : handles[g].id = handles[h].id /\ handles[g].maker # i}

(* A container is a FIFO of its own to its maker: what is read through it  *)
(* is what was written through it, in order, each value once, whatever     *)
(* other containers are made and closed in between (an id is never given   *)
(* twice).  Only a container of another thread can come in between.        *)
OwnFifo ==
    \A h \in Made : LET i == handles[h].maker IN
        (\A g \in Aliases(i, h) : got[i][g] = <<>> /\ written[i][g] = <<>>)
            => IsPrefix(got[i][h], written[i][h])

(* The unreachable!() arms of the Pipe methods are for the maker of a Pipe *)
(* what they say: to reach one, an interpreter needs a Pipe that was made  *)
(* by another one and an id it has itself given to another kind.           *)
PanicNeedsAlias ==
    \A i \in panicked : \E h \in Made :
        /\ handles[h].kind = "Pipe" /\ handles[h].maker # i
        /\ \E g \in Made : handles[g].maker = i /\ handles[g].id = handles[h].id /\ handles[g].kind = "Hub"

Reads     == UNION {{<<i, h, n>> : n \in DOMAIN got[i][h]} : i \in Interps, h \in Handles}
ReadAt(r) == got[r[1]][r[2]][r[3]]

(* Whatever handles the threads pass to each other, each value that was    *)
(* written is read at most once, by whichever of them, and no other value  *)
(* is read: none comes back after a close, or through a second handle.     *)
ReadOnce ==
    /\ \A r \in Reads : \E i \in Interps, h \in Handles :
           \E n \in DOMAIN written[i][h] : ReadAt(r) = written[i][h][n]
    /\ \A r, q \in Reads : ReadAt(r) = ReadAt(q) => r = q

(* semantic/infer.rs, type_is_send: a container is shared between threads  *)
(* ("a built-in special case of sharing, synchronised inside").  So a read *)
(* of an open container that holds values, by any thread, gets one.  The   *)
(* code looks the id up in the tables of the reader.                       *)
SharedBetweenThreads ==
    [][\A i \in Interps, h \in Made :
           /\ Read(i, h) \/ TryRead(i, h)
           /\ Entry(handles[h].maker, h).kind = handles[h].kind
           /\ Entry(handles[h].maker, h).queue # <<>>
           => outcome'[i] = "Value"]_vars
=============================================================================
