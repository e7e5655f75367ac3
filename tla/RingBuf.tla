------------------------------ MODULE RingBuf ------------------------------
(***************************************************************************)
(* The ring buffer of the standard library, `io.ringbuf.init(cap)`.  The   *)
(* interpreter, the IR runtime and hc::runtime have the same algorithm.    *)
(* The vector `buf` starts empty and grows one slot at a time: a push to   *)
(* an index past its end appends, whatever the index.                      *)
(***************************************************************************)
EXTENDS Naturals, Sequences

CONSTANTS Vals,   \* the values pushed
          Caps    \* the capacities a program asks for, any integers

VARIABLES buf,    \* the slots made so far
          head,   \* slot of the oldest value
          len,    \* number of values
          cap,    \* capacity, fixed by init
          ringLast \* the latest call with its argument and answer

ringVars == <<buf, head, len, cap, ringLast>>

RingInit ==
    /\ buf = <<>> /\ head = 0 /\ len = 0
    /\ cap \in Caps \cap Nat   \* a negative one is error.InvalidArgument
    /\ ringLast = <<"init", "null", "null">>

\* The slot of the value at offset i from the oldest one.
Slot(i) == (head + i) % cap

Push(v) ==
    /\ IF len >= cap
       THEN UNCHANGED <<buf, len>>
       ELSE /\ buf' = IF Slot(len) < Len(buf)
                      THEN [buf EXCEPT ![Slot(len) + 1] = v]
                      ELSE Append(buf, v)
            /\ len' = len + 1
    /\ ringLast' = <<"push", v, len < cap>>
    /\ UNCHANGED <<head, cap>>

\* Mutant: the head does not wrap.
PopUnwrapped ==
    /\ IF len = 0
       THEN UNCHANGED <<head, len>> /\ ringLast' = <<"pop", "null", "null">>
       ELSE /\ head' = head + 1
            /\ len' = len - 1
            /\ ringLast' = <<"pop", "null", IF head < Len(buf) THEN buf[head + 1] ELSE "void">>
    /\ UNCHANGED <<buf, cap>>

\* A head past the end of `buf` would answer Void.
Pop ==
    /\ IF len = 0
       THEN UNCHANGED <<head, len>> /\ ringLast' = <<"pop", "null", "null">>
       ELSE /\ head' = Slot(1)
            /\ len' = len - 1
            /\ ringLast' = <<"pop", "null", IF head < Len(buf) THEN buf[head + 1] ELSE "void">>
    /\ UNCHANGED <<buf, cap>>

Peek(i) ==
    /\ ringLast' = <<"peek", i, IF i >= len THEN "null"
                                ELSE IF Slot(i) < Len(buf) THEN buf[Slot(i) + 1] ELSE "void">>
    /\ UNCHANGED <<buf, head, len, cap>>

Clear ==
    /\ head' = 0 /\ len' = 0
    /\ ringLast' = <<"clear", "null", "null">>
    /\ UNCHANGED <<buf, cap>>

RingNext ==
    \/ \E v \in Vals : Push(v)
    \/ Pop
    \/ \E i \in 0..cap : Peek(i)
    \/ Clear

RingSpec == RingInit /\ [][RingNext]_ringVars

\* The values held, oldest first.
Contents == [i \in 1..len |-> buf[Slot(i - 1) + 1]]

\* Every slot from the head on exists, wherever the window has wrapped to.
SlotsExist ==
    /\ cap \in Nat
    /\ buf \in Seq(Vals) /\ Len(buf) <= cap
    /\ len \in 0..cap
    /\ head \in Nat /\ (cap > 0 => head < cap)
    /\ Len(buf) = cap \/ head + len <= Len(buf)

FifoSpec == INSTANCE Fifo WITH q <- Contents, last <- ringLast

\* A ring buffer is a bounded FIFO queue: what push, pop and peek answer does
\* not show where the window has wrapped or how many slots were made.
ImplementsFifo == FifoSpec!Spec
=============================================================================
