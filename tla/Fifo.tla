-------------------------------- MODULE Fifo --------------------------------
(***************************************************************************)
(* What a ring buffer promises: a queue of at most `cap` values that       *)
(* refuses a push when it is full and answers pop, peek and len from the   *)
(* queue alone.  `RingBuf` is the code.                                    *)
(***************************************************************************)
EXTENDS Naturals, Sequences

CONSTANTS Vals, Caps

VARIABLES q, cap, last   \* last: the latest call with its argument and answer

vars == <<q, cap, last>>

Init == q = <<>> /\ cap \in Caps \cap Nat /\ last = <<"init", "null", "null">>

Push(v) ==
    /\ q' = IF Len(q) = cap THEN q ELSE Append(q, v)
    /\ last' = <<"push", v, Len(q) # cap>>
    /\ UNCHANGED cap

Pop ==
    /\ q' = IF q = <<>> THEN q ELSE Tail(q)
    /\ last' = <<"pop", "null", IF q = <<>> THEN "null" ELSE Head(q)>>
    /\ UNCHANGED cap

Peek(i) ==
    /\ last' = <<"peek", i, IF i < Len(q) THEN q[i + 1] ELSE "null">>
    /\ UNCHANGED <<q, cap>>

Clear == q' = <<>> /\ last' = <<"clear", "null", "null">> /\ UNCHANGED cap

Next ==
    \/ \E v \in Vals : Push(v)
    \/ Pop
    \/ \E i \in 0..cap : Peek(i)
    \/ Clear

Spec == Init /\ [][Next]_vars
=============================================================================
