----------------------------- MODULE SharedValue -----------------------------
(***************************************************************************)
(* One heap cell of the interpreter's values (hc-rt/src/value) that more   *)
(* than one OS thread reaches: `spawn` clones the arguments (call.rs) and  *)
(* `lock` clones what a Mutex holds.  A clone of a class, an array, a      *)
(* closure's cell .. is another Rc to the same cell.  Cloning and dropping *)
(* a handle add to and subtract from the count of the cell, by a read and  *)
(* a write that other threads can come between.  What two unsynchronised   *)
(* steps do is undefined; the model gives them the mildest outcome, that   *)
(* the last write wins.  A channel or a mutex is an Arc, whose counts are  *)
(* atomic, and not one of these cells.                                     *)
(*                                                                         *)
(* Left out: the contents of the cell, weak counts.                        *)
(***************************************************************************)
EXTENDS Naturals, FiniteSets

CONSTANTS Threads,    \* OS threads: the main one and the workers
          Mutex,      \* the place of the handle a Mutex holds
          Initially,  \* Initially[h]: how many handles h has before a spawn
          MaxHandles  \* bound: handles a thread holds at once

Holders == Threads \cup {Mutex}

VARIABLES count,     \* the strong count of the cell
          held,      \* held[h]: live handles of h
          op,        \* op[t]: the count t has read and is about to write
          doing,     \* doing[t]: "none" or what t is about to write for
          lock,      \* the threads that hold the mutex: at most one
          given,     \* threads a spawn has given a handle
          freed      \* the cell was freed

vars == <<count, held, op, doing, lock, given, freed>>

Held    == {p \in Holders \X (1..MaxHandles) : p[2] <= held[p[1]]}
Handles == Cardinality(Held)
Busy == {t \in Threads : doing[t] # "none"}

Init ==
    /\ held = Initially
    /\ count = Handles
    /\ op = [t \in Threads |-> 0]
    /\ doing = [t \in Threads |-> "none"]
    /\ lock = {} /\ given = {} /\ freed = FALSE

-----------------------------------------------------------------------------
(* The first half of an operation on the count.                            *)
Reads(t, what) ==
    /\ t \notin Busy /\ ~freed
    /\ op' = [op EXCEPT ![t] = count]
    /\ doing' = [doing EXCEPT ![t] = what]

Done(t) ==
    /\ op' = [op EXCEPT ![t] = 0]
    /\ doing' = [doing EXCEPT ![t] = "none"]

(* The mutex lives and nobody is about to look into it or to drop it.      *)
MutexIdle ==
    /\ held[Mutex] > 0 /\ lock = {}
    /\ \A t \in Threads : doing[t] # "drop mutex"

CloneReads(t) ==
    /\ held[t] \in 1..(MaxHandles - 1)
    /\ Reads(t, "clone")
    /\ UNCHANGED <<count, held, lock, given, freed>>

(* Mutex.lock: the value is cloned from behind the lock.                   *)
LockReads(t) ==
    /\ MutexIdle /\ held[t] < MaxHandles
    /\ lock' = {t}
    /\ Reads(t, "lock")
    /\ UNCHANGED <<count, held, given, freed>>

(* The guard of a lock is dropped with the match that took the clone.      *)
CloneWrites(t) ==
    /\ doing[t] \in {"clone", "lock"} /\ ~freed
    /\ count' = op[t] + 1
    /\ held' = [held EXCEPT ![t] = @ + 1]
    /\ lock' = lock \ {t}
    /\ Done(t)
    /\ UNCHANGED <<given, freed>>

(* A handle of t goes out of scope, or the last handle to the mutex does   *)
(* and the value goes with it.                                             *)
DropReads(t) ==
    /\ \/ held[t] > 0 /\ Reads(t, "drop")
       \/ MutexIdle /\ Reads(t, "drop mutex")
    /\ UNCHANGED <<count, held, lock, given, freed>>

DropWrite(t, freeing) ==
    /\ doing[t] \in {"drop", "drop mutex"} /\ ~freed
    /\ count' = op[t] - 1
    /\ freed' = freeing
    /\ held' = [held EXCEPT ![IF doing[t] = "drop" THEN t ELSE Mutex] = @ - 1]
    /\ Done(t)
    /\ UNCHANGED <<lock, given>>

DropWrites(t) == DropWrite(t, op[t] = 1)

(* spawn: `arg_vals_clone` moves into the closure of the task, the caller  *)
(* keeps the value it was cloned from.                                     *)
Spawn(t, u) ==
    /\ {t, u} \cap Busy = {} /\ ~freed
    /\ held[t] > 1 /\ u \notin given /\ u # t /\ held[u] < MaxHandles
    /\ held' = [held EXCEPT ![t] = @ - 1, ![u] = @ + 1]
    /\ given' = given \cup {u}
    /\ UNCHANGED <<count, op, doing, lock, freed>>

Next ==
    \E t \in Threads :
        \/ CloneReads(t) \/ LockReads(t) \/ CloneWrites(t)
        \/ DropReads(t) \/ DropWrites(t)
        \/ \E u \in Threads : Spawn(t, u)

Spec == Init /\ [][Next]_vars

-----------------------------------------------------------------------------
(* value.rs at `unsafe impl Send for Value`: a value is accessed by one    *)
(* thread at any moment, because spawn copies it (so the comment), or      *)
(* because it is reached through a Mutex only (CONTEXT.md).  With Rc it is *)
(* not: spawn and lock hand out further handles to the one cell.           *)
OneThreadAtATime == Cardinality(Busy) <= 1
=============================================================================
