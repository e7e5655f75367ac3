--------------------------- MODULE Library_proofs ---------------------------
(***************************************************************************)
(* Proofs about five parts of the standard library.  RingBuf: a ring       *)
(* buffer is a bounded queue, for every capacity and every set of values.  *)
(* PageMem: its stack is a pool of pages, for every size and whatever a    *)
(* program frees.  IntrList: linked nodes are a sequence under handles,    *)
(* for every number of nodes and every set of values.  TreeMap: a search   *)
(* tree is a map, for every set of integer keys and every set of values.   *)
(* Lz: what is compressed is decompressed to the same bytes, for data of   *)
(* any length and every width of a token's length byte.                    *)
(***************************************************************************)
EXTENDS RingBuf, PageMem, IntrList, TreeMap, Lz, Induction, SequenceTheorems, FiniteSetTheorems, TLAPS

-----------------------------------------------------------------------------
(* Remainders of what is less than twice the divisor.                      *)
LEMMA ModSmall ==
    ASSUME NEW a \in Nat, NEW c \in Nat \ {0}, a < c
    PROVE  a % c = a
OBVIOUS

LEMMA ModWraps ==
    ASSUME NEW a \in Nat, NEW c \in Nat \ {0}, c <= a, a < 2 * c
    PROVE  a % c = a - c
OBVIOUS

(* Moving the head by one moves every slot by one.                         *)
LEMMA Shifts ==
    ASSUME NEW c \in Nat \ {0}, NEW h \in 0 .. c - 1, NEW i \in 1 .. c - 1
    PROVE  (((h + 1) % c) + (i - 1)) % c = (h + i) % c
<1>1. CASE h + 1 < c
  <2>1. (h + 1) % c = h + 1
    BY <1>1, ModSmall
  <2>2. (h + 1) + (i - 1) = h + i
    OBVIOUS
  <2>. QED
    BY <2>1, <2>2
<1>2. CASE h + 1 = c
  <2>1. (h + 1) % c = 0
    BY <1>2, ModWraps
  <2>2. (h + i) % c = i - 1
    <3>1. h + i \in Nat /\ c <= h + i /\ h + i < 2 * c /\ (h + i) - c = i - 1
      BY <1>2
    <3>. QED
      BY <3>1, ModWraps
  <2>3. (0 + (i - 1)) % c = i - 1
    BY ModSmall
  <2>. QED
    BY <2>1, <2>2, <2>3
<1>. QED
  BY <1>1, <1>2

(* A slot of the window is an index below the capacity.                    *)
LEMMA SlotIs ==
    ASSUME SlotsExist, cap > 0, NEW i \in 0..cap
    PROVE  /\ Slot(i) = IF head + i < cap THEN head + i ELSE head + i - cap
           /\ Slot(i) \in 0 .. cap - 1
<1>1. head \in Nat /\ head < cap /\ cap \in Nat \ {0}
  BY DEF SlotsExist
<1>2. CASE head + i < cap
  BY <1>1, <1>2, ModSmall DEF Slot
<1>3. CASE ~(head + i < cap)
  BY <1>1, <1>3, ModWraps DEF Slot
<1>. QED
  BY <1>2, <1>3

(* Slots of different offsets differ: the window does not overlap itself.  *)
LEMMA SlotsDiffer ==
    ASSUME SlotsExist, cap > 0, NEW i \in 0 .. cap - 1, NEW j \in 0 .. cap - 1, i # j
    PROVE  Slot(i) # Slot(j)
<1>. head \in Nat /\ head < cap /\ cap \in Nat
  BY DEF SlotsExist
<1>1. Slot(i) = IF head + i < cap THEN head + i ELSE head + i - cap
  BY SlotIs
<1>2. Slot(j) = IF head + j < cap THEN head + j ELSE head + j - cap
  BY SlotIs
<1>. QED
  BY <1>1, <1>2

(* The slot of every value held has been made.                             *)
LEMMA SlotMade ==
    ASSUME SlotsExist, NEW i \in 0 .. len - 1
    PROVE  Slot(i) \in 0 .. Len(buf) - 1
<1>. cap \in Nat /\ len \in 0..cap /\ cap > 0 /\ head \in Nat /\ head < cap /\ Len(buf) \in Nat
  BY DEF SlotsExist
<1>1. Slot(i) = IF head + i < cap THEN head + i ELSE head + i - cap
  BY SlotIs
<1>. QED
  BY <1>1 DEF SlotsExist

-----------------------------------------------------------------------------
LEMMA RingInitSlots == RingInit => SlotsExist
BY DEF RingInit, SlotsExist

LEMMA PushSlots ==
    ASSUME SlotsExist, NEW v \in Vals, Push(v)
    PROVE  SlotsExist'
<1>. /\ cap \in Nat /\ len \in 0..cap /\ head \in Nat /\ (cap > 0 => head < cap)
     /\ buf \in Seq(Vals) /\ Len(buf) \in Nat /\ Len(buf) <= cap
  BY DEF SlotsExist
<1>1. CASE len >= cap
  BY <1>1 DEF Push, SlotsExist
<1>2. CASE len < cap
  <2>1. Slot(len) \in 0 .. cap - 1
        /\ Slot(len) = IF head + len < cap THEN head + len ELSE head + len - cap
    BY <1>2, SlotIs
  <2>2. CASE Slot(len) < Len(buf)
    <3>1. buf' = [buf EXCEPT ![Slot(len) + 1] = v] /\ len' = len + 1
      BY <1>2, <2>2 DEF Push
    <3>2. buf' \in Seq(Vals) /\ Len(buf') = Len(buf)
      BY <2>1, <2>2, <3>1
    <3>3. Len(buf) = cap \/ head + len + 1 <= Len(buf)
      BY <1>2, <2>1, <2>2 DEF SlotsExist
    <3>4. head' = head /\ cap' = cap
      BY DEF Push
    <3>5. len' \in 0..cap'
      BY <1>2, <3>1, <3>4
    <3>6. Len(buf') <= cap' /\ (cap' > 0 => head' < cap')
      BY <3>2, <3>4
    <3>8. len' = len + 1 /\ Len(buf') = Len(buf)
      BY <3>1, <3>2
    <3>7. Len(buf') = cap' \/ head' + len' <= Len(buf')
      BY <3>3, <3>4, <3>8
    <3>. QED
      BY <3>2, <3>4, <3>5, <3>6, <3>7 DEF SlotsExist
  <2>3. CASE ~(Slot(len) < Len(buf))
    <3>1. buf' = Append(buf, v) /\ len' = len + 1
      BY <1>2, <2>3 DEF Push
    <3>2. buf' \in Seq(Vals) /\ Len(buf') = Len(buf) + 1
      BY <3>1
    <3>. QED
      BY <1>2, <2>1, <2>3, <3>1, <3>2 DEF Push, SlotsExist
  <2>. QED
    BY <2>2, <2>3
<1>. QED
  BY <1>1, <1>2

LEMMA PopSlots ==
    ASSUME SlotsExist, Pop
    PROVE  SlotsExist'
<1>. cap \in Nat /\ len \in 0..cap /\ head \in Nat /\ buf \in Seq(Vals) /\ Len(buf) \in Nat
  BY DEF SlotsExist
<1>1. CASE len = 0
  BY <1>1 DEF Pop, SlotsExist
<1>2. CASE len # 0
  <2>1. Slot(1) \in 0 .. cap - 1
        /\ Slot(1) = IF head + 1 < cap THEN head + 1 ELSE head + 1 - cap
    BY <1>2, SlotIs
  <2>2. head' = Slot(1) /\ len' = len - 1 /\ buf' = buf /\ cap' = cap
    BY <1>2 DEF Pop
  <2>. QED
    BY <1>2, <2>1, <2>2 DEF SlotsExist
<1>. QED
  BY <1>1, <1>2

LEMMA StepSlots == SlotsExist /\ [RingNext]_ringVars => SlotsExist'
<1>1. SUFFICES ASSUME SlotsExist, [RingNext]_ringVars PROVE SlotsExist'
  OBVIOUS
<1>2. CASE \E v \in Vals : Push(v)
  BY <1>1, <1>2, PushSlots
<1>3. CASE Pop
  BY <1>1, <1>3, PopSlots
<1>4. CASE \E i \in 0..cap : Peek(i)
  BY <1>1, <1>4 DEF Peek, SlotsExist
<1>5. CASE Clear
  BY <1>1, <1>5 DEF Clear, SlotsExist
<1>6. CASE UNCHANGED ringVars
  BY <1>1, <1>6 DEF ringVars, SlotsExist
<1>. QED
  BY <1>1, <1>2, <1>3, <1>4, <1>5, <1>6 DEF RingNext

(* Every slot a pop or a peek reads has been made: neither ever answers    *)
(* Void, wherever the window has wrapped to.                               *)
THEOREM SlotsAlwaysExist == RingSpec => []SlotsExist
BY RingInitSlots, StepSlots, PTL DEF RingSpec

-----------------------------------------------------------------------------
LEMMA ContentsIs ==
    SlotsExist => /\ Contents \in Seq(Vals)
                  /\ Len(Contents) = len
                  /\ \A i \in 1..len : Contents[i] = buf[Slot(i - 1) + 1]
<1>. SUFFICES ASSUME SlotsExist
              PROVE  /\ Contents \in Seq(Vals)
                     /\ Len(Contents) = len
                     /\ \A i \in 1..len : Contents[i] = buf[Slot(i - 1) + 1]
  OBVIOUS
<1>. len \in Nat /\ buf \in Seq(Vals) /\ Len(buf) \in Nat
  BY DEF SlotsExist
<1>1. \A i \in 1..len : buf[Slot(i - 1) + 1] \in Vals
  <2>1. TAKE i \in 1..len
  <2>2. Slot(i - 1) \in 0 .. Len(buf) - 1
    BY SlotMade
  <2>. QED
    BY <2>2
<1>2. Contents = [i \in 1..len |-> buf[Slot(i - 1) + 1]]
  BY DEF Contents
<1>. QED
  BY <1>1, <1>2

LEMMA ContentsBecome ==
    SlotsExist' => /\ Contents' \in Seq(Vals)
                   /\ Len(Contents') = len'
                   /\ \A i \in 1..len' : Contents'[i] = buf'[Slot(i - 1)' + 1]
<1>1. (SlotsExist => /\ Contents \in Seq(Vals)
                     /\ Len(Contents) = len
                     /\ \A i \in 1..len : Contents[i] = buf[Slot(i - 1) + 1])'
  BY ContentsIs, PTL
<1>. QED
  BY <1>1

LEMMA OtherSlotsKept ==
    ASSUME NEW S, NEW s \in Seq(S), NEW v \in S,
           NEW j \in 0 .. Len(s), NEW k \in 0 .. Len(s) - 1, j # k
    PROVE  (IF j < Len(s) THEN [s EXCEPT ![j + 1] = v] ELSE Append(s, v))[k + 1] = s[k + 1]
<1>. k + 1 \in 1 .. Len(s) /\ k + 1 # j + 1
  OBVIOUS
<1>1. CASE j < Len(s)
  <2>1. [s EXCEPT ![j + 1] = v][k + 1] = s[k + 1]
    OBVIOUS
  <2>. QED
    BY <1>1, <2>1
<1>2. CASE ~(j < Len(s))
  <2>1. Append(s, v)[k + 1] = s[k + 1]
    OBVIOUS
  <2>. QED
    BY <1>2, <2>1
<1>. QED
  BY <1>1, <1>2

LEMMA RingInitMaps == RingInit => FifoSpec!Init
BY DEF RingInit, FifoSpec!Init, Contents

LEMMA PushMaps ==
    ASSUME SlotsExist, NEW v \in Vals, Push(v)
    PROVE  FifoSpec!Push(v)
<1>. /\ cap \in Nat /\ len \in 0..cap /\ head \in Nat /\ buf \in Seq(Vals) /\ Len(buf) \in Nat
     /\ Contents \in Seq(Vals) /\ Len(Contents) = len
  BY ContentsIs DEF SlotsExist
<1>1. ringLast' = <<"push", v, Len(Contents) # cap>>
  <2>1. (len < cap) = (Len(Contents) # cap)
    OBVIOUS
  <2>. QED
    BY <2>1 DEF Push
<1>2. CASE len >= cap
  <2>1. Contents' = Contents
    BY <1>2 DEF Push, Contents, Slot
  <2>. QED
    BY <1>1, <1>2, <2>1 DEF Push, FifoSpec!Push
<1>3. CASE len < cap
  <2>1. SlotsExist' /\ cap' = cap /\ head' = head /\ len' = len + 1
    BY <1>3, PushSlots DEF Push
  <2>2. /\ Contents' \in Seq(Vals) /\ Len(Contents') = len + 1
        /\ \A i \in 1 .. len + 1 : Contents'[i] = buf'[Slot(i - 1) + 1]
    BY <2>1, ContentsBecome DEF Slot
  <2>0. /\ Slot(len) \in 0 .. cap - 1
        /\ Slot(len) = IF head + len < cap THEN head + len ELSE head + len - cap
        /\ Slot(len) <= Len(buf)
        /\ buf' = IF Slot(len) < Len(buf) THEN [buf EXCEPT ![Slot(len) + 1] = v] ELSE Append(buf, v)
    <3>1. /\ Slot(len) \in 0 .. cap - 1
          /\ Slot(len) = IF head + len < cap THEN head + len ELSE head + len - cap
      BY <1>3, SlotIs
    <3>2. Slot(len) <= Len(buf)
      BY <1>3, <3>1 DEF SlotsExist
    <3>. QED
      BY <1>3, <3>1, <3>2 DEF Push
  <2>3. buf'[Slot(len) + 1] = v
    BY <2>0
  <2>4. ASSUME NEW i \in 1..len
        PROVE  buf'[Slot(i - 1) + 1] = buf[Slot(i - 1) + 1]
    <3>1. Slot(i - 1) # Slot(len)
      BY <1>3, SlotsDiffer
    <3>2. Slot(i - 1) \in 0 .. Len(buf) - 1
      BY <1>3, SlotMade
    <3>3. Slot(len) \in 0 .. Len(buf)
      BY <2>0
    <3>4. (IF Slot(len) < Len(buf) THEN [buf EXCEPT ![Slot(len) + 1] = v] ELSE Append(buf, v))
              [Slot(i - 1) + 1] = buf[Slot(i - 1) + 1]
      BY <3>1, <3>2, <3>3, OtherSlotsKept
    <3>. QED
      BY <2>0, <3>4, Zenon
  <2>5. \A i \in 1..len : Contents'[i] = Contents[i]
    BY <2>2, <2>4, ContentsIs
  <2>6. Contents' = Append(Contents, v)
    BY <2>2, <2>3, <2>5
  <2>. QED
    BY <1>1, <1>3, <2>1, <2>6 DEF FifoSpec!Push
<1>. QED
  BY <1>2, <1>3

LEMMA PopMaps ==
    ASSUME SlotsExist, Pop
    PROVE  FifoSpec!Pop
<1>. /\ cap \in Nat /\ len \in 0..cap /\ head \in Nat /\ buf \in Seq(Vals) /\ Len(buf) \in Nat
     /\ Contents \in Seq(Vals) /\ Len(Contents) = len
  BY ContentsIs DEF SlotsExist
<1>1. CASE len = 0
  <2>1. Contents' = Contents /\ Contents = <<>>
    BY <1>1 DEF Pop, Contents, Slot
  <2>. QED
    BY <1>1, <2>1 DEF Pop, FifoSpec!Pop
<1>2. CASE len # 0
  <2>1. SlotsExist' /\ cap' = cap /\ head' = Slot(1) /\ len' = len - 1 /\ buf' = buf
    BY <1>2, PopSlots DEF Pop
  <2>2. Slot(0) = head /\ Slot(0) \in 0 .. Len(buf) - 1
    BY <1>2, SlotIs, SlotMade DEF SlotsExist
  <2>3. ASSUME NEW i \in 1 .. len - 1
        PROVE  Slot(i - 1)' = Slot(i)
    <3>1. Slot(i - 1)' = (((head + 1) % cap) + (i - 1)) % cap
      BY <2>1 DEF Slot
    <3>2. cap \in Nat \ {0} /\ head \in 0 .. cap - 1 /\ i \in 1 .. cap - 1
      BY <1>2 DEF SlotsExist
    <3>3. (((head + 1) % cap) + (i - 1)) % cap = (head + i) % cap
      BY <3>2, Shifts
    <3>. QED
      BY <3>1, <3>3 DEF Slot
  <2>4. /\ Contents' \in Seq(Vals) /\ Len(Contents') = len - 1
        /\ \A i \in 1 .. len - 1 : Contents'[i] = buf[Slot(i) + 1]
    BY <2>1, <2>3, ContentsBecome
  <2>5. \A i \in 1 .. len - 1 : Contents'[i] = Contents[i + 1]
    BY <2>4, ContentsIs
  <2>6. Contents' = Tail(Contents)
    BY <1>2, <2>4, <2>5
  <2>7. Contents # <<>> /\ Head(Contents) = buf[head + 1]
    BY <1>2, <2>2, ContentsIs
  <2>8. ringLast' = <<"pop", "null", buf[head + 1]>>
    BY <1>2, <2>2 DEF Pop
  <2>. QED
    BY <2>1, <2>6, <2>7, <2>8 DEF FifoSpec!Pop
<1>. QED
  BY <1>1, <1>2

LEMMA PeekMaps ==
    ASSUME SlotsExist, NEW i \in 0..cap, Peek(i)
    PROVE  FifoSpec!Peek(i)
<1>. cap \in Nat /\ len \in 0..cap /\ Len(Contents) = len
  BY ContentsIs DEF SlotsExist
<1>1. Contents' = Contents
  BY DEF Peek, Contents, Slot
<1>2. CASE i >= len
  BY <1>1, <1>2 DEF Peek, FifoSpec!Peek
<1>3. CASE i < len
  <2>1. Slot(i) \in 0 .. Len(buf) - 1
    BY <1>3, SlotMade
  <2>2. Contents[i + 1] = buf[Slot(i) + 1]
    <3>1. i + 1 \in 1..len /\ (i + 1) - 1 = i
      BY <1>3
    <3>. QED
      BY <3>1, ContentsIs
  <2>3. Len(buf) \in Nat
    BY DEF SlotsExist
  <2>4. ringLast' = <<"peek", i, buf[Slot(i) + 1]>>
    BY <1>3, <2>1, <2>3 DEF Peek
  <2>. QED
    BY <1>1, <1>3, <2>2, <2>4 DEF Peek, FifoSpec!Peek
<1>. QED
  BY <1>2, <1>3

LEMMA RingStepMaps == SlotsExist /\ [RingNext]_ringVars => [FifoSpec!Next]_(FifoSpec!vars)
<1>1. SUFFICES ASSUME SlotsExist, [RingNext]_ringVars PROVE [FifoSpec!Next]_(FifoSpec!vars)
  OBVIOUS
<1>2. CASE \E v \in Vals : Push(v)
  BY <1>1, <1>2, PushMaps DEF FifoSpec!Next
<1>3. CASE Pop
  BY <1>1, <1>3, PopMaps DEF FifoSpec!Next
<1>4. CASE \E i \in 0..cap : Peek(i)
  BY <1>1, <1>4, PeekMaps DEF FifoSpec!Next
<1>5. CASE Clear
  <2>1. Contents' = <<>>
    BY <1>5 DEF Clear, Contents
  <2>. QED
    BY <1>5, <2>1 DEF Clear, FifoSpec!Next, FifoSpec!Clear
<1>6. CASE UNCHANGED ringVars
  BY <1>6 DEF ringVars, FifoSpec!vars, Contents, Slot
<1>. QED
  BY <1>1, <1>2, <1>3, <1>4, <1>5, <1>6 DEF RingNext

(* A ring buffer is a bounded FIFO queue: what its calls answer does not   *)
(* show where the window has wrapped to or how many slots have been made.  *)
THEOREM RingImplementsFifo == RingSpec => ImplementsFifo
BY RingInitSlots, StepSlots, RingInitMaps, RingStepMaps, PTL DEF RingSpec, ImplementsFifo, FifoSpec!Spec

-----------------------------------------------------------------------------
Held == {p \in 0 .. total - 1 : ~IsFree(p)}

LEMMA InitOnce == PageInit => FreeOnce
<1>. SUFFICES ASSUME PageInit PROVE FreeOnce
  OBVIOUS
<1>1. total \in Nat /\ free = [i \in 1..total |-> total - i]
  BY DEF PageInit
<1>2. \A i \in 1..total : total - i \in 0 .. total - 1
  BY <1>1
<1>3. free \in Seq(0 .. total - 1) /\ Len(free) = total /\ DOMAIN free = 1..total
  BY <1>1, <1>2
<1>4. \A i, j \in DOMAIN free : free[i] = free[j] => i = j
  BY <1>1, <1>3
<1>. QED
  BY <1>1, <1>3, <1>4 DEF FreeOnce

(* What is left of a stack when its top is taken.                          *)
LEMMA FrontOf ==
    ASSUME NEW S, NEW s \in Seq(S), s # <<>>
    PROVE  /\ SubSeq(s, 1, Len(s) - 1) \in Seq(S)
           /\ Len(SubSeq(s, 1, Len(s) - 1)) = Len(s) - 1
           /\ \A i \in 1 .. Len(s) - 1 : SubSeq(s, 1, Len(s) - 1)[i] = s[i]
<1>1. PICK n \in Nat \ {0} : n = Len(s)
  OBVIOUS
<1>2. \A i \in 1 .. n - 1 : s[i] \in S
  BY <1>1
<1>3. /\ SubSeq(s, 1, n - 1) \in Seq(S)
      /\ Len(SubSeq(s, 1, n - 1)) = IF 1 <= n - 1 THEN (n - 1) - 1 + 1 ELSE 0
      /\ \A i \in 1 .. (n - 1) - 1 + 1 : SubSeq(s, 1, n - 1)[i] = s[1 + i - 1]
  BY <1>2, SubSeqProperties
<1>4. Len(SubSeq(s, 1, n - 1)) = n - 1
  BY <1>3
<1>5. \A i \in 1 .. n - 1 : SubSeq(s, 1, n - 1)[i] = s[i]
  BY <1>3
<1>. QED
  BY <1>1, <1>3, <1>4, <1>5

(* Taking the top of the stack takes that page and no other.               *)
LEMMA AllocPops ==
    ASSUME FreeOnce, Alloc, free # <<>>
    PROVE  /\ FreeOnce'
           /\ free[Len(free)] \in (0 .. total - 1) \ Held
           /\ Held' = Held \cup {free[Len(free)]}
<1>a. free \in Seq(0 .. total - 1)
  BY DEF FreeOnce
<1>b. Len(free) \in Nat \ {0}
  BY <1>a
<1>0. PICK n \in Nat \ {0} : n = Len(free)
  BY <1>b, Zenon
<1>1. /\ total \in Nat /\ free \in Seq(0 .. total - 1) /\ DOMAIN free = 1..n
      /\ \A i \in 1..n : free[i] \in 0 .. total - 1
      /\ \A i, j \in 1..n : free[i] = free[j] => i = j
  BY <1>0 DEF FreeOnce
<1>2. free' = SubSeq(free, 1, Len(free) - 1) /\ total' = total
  BY DEF Alloc
<1>3. /\ free' \in Seq(0 .. total - 1) /\ Len(free') = n - 1
      /\ \A i \in 1 .. n - 1 : free'[i] = free[i]
  BY <1>0, <1>1, <1>2, FrontOf
<1>4. DOMAIN free' = 1 .. n - 1
  BY <1>3
<1>5. \A i, j \in 1 .. n - 1 : free'[i] = free'[j] => i = j
  BY <1>1, <1>3
<1>6. \A p : IsFree(p)' <=> IsFree(p) /\ p # free[n]
  <2>1. \A p : IsFree(p) <=> \E i \in 1..n : free[i] = p
    BY <1>1 DEF IsFree
  <2>2. \A p : IsFree(p)' <=> \E i \in 1 .. n - 1 : free[i] = p
    BY <1>3, <1>4 DEF IsFree
  <2>3. 1..n = (1 .. n - 1) \cup {n}
    BY <1>0
  <2>4. \A i \in 1 .. n - 1 : i \in 1..n /\ i # n /\ n \in 1..n
    BY <1>0
  <2>5. \A i \in 1 .. n - 1 : free[i] # free[n]
    BY <1>1, <2>4, Zenon
  <2>. QED
    BY <2>1, <2>2, <2>3, <2>5, Zenon
<1>7. IsFree(free[n]) /\ free[n] \in 0 .. total - 1
  BY <1>1 DEF IsFree
<1>8. FreeOnce'
  BY <1>1, <1>2, <1>3, <1>4, <1>5 DEF FreeOnce
<1>. QED
  BY <1>0, <1>2, <1>6, <1>7, <1>8 DEF Held

(* Free puts a page back that is not there, and leaves the stack alone     *)
(* otherwise.                                                              *)
LEMMA FreePushes ==
    ASSUME FreeOnce, NEW p \in 0..total, Free(p)
    PROVE  /\ FreeOnce'
           /\ Held' = Held \ {p}
<1>0. total \in Nat /\ free \in Seq(0 .. total - 1) /\ Len(free) \in Nat /\ DOMAIN free = 1 .. Len(free)
  BY DEF FreeOnce
<1>1. CASE p < total /\ ~IsFree(p)
  <2>1. free' = Append(free, p) /\ total' = total
    BY <1>1 DEF Free
  <2>2. p \in 0 .. total - 1
    BY <1>0, <1>1
  <2>3. /\ free' \in Seq(0 .. total - 1) /\ Len(free') = Len(free) + 1
        /\ DOMAIN free' = 1 .. Len(free) + 1
        /\ \A i \in 1 .. Len(free) : free'[i] = free[i]
        /\ free'[Len(free) + 1] = p
    BY <1>0, <2>1, <2>2
  <2>4. \A i \in 1 .. Len(free) : free[i] # p
    BY <1>0, <1>1 DEF IsFree
  <2>5. \A i, j \in 1 .. Len(free) : free[i] = free[j] => i = j
    BY <1>0 DEF FreeOnce
  <2>6. \A i, j \in DOMAIN free' : free'[i] = free'[j] => i = j
    <3>1. ASSUME NEW i \in DOMAIN free', NEW j \in DOMAIN free', free'[i] = free'[j]
          PROVE  i = j
      <4>1. (i \in 1 .. Len(free) \/ i = Len(free) + 1) /\ (j \in 1 .. Len(free) \/ j = Len(free) + 1)
        BY <1>0, <2>3
      <4>. QED
        BY <2>3, <2>4, <2>5, <3>1, <4>1, Zenon
    <3>. QED
      BY <3>1
  <2>7. \A q : IsFree(q)' <=> IsFree(q) \/ q = p
    BY <1>0, <2>3 DEF IsFree
  <2>. QED
    BY <1>0, <2>1, <2>2, <2>3, <2>6, <2>7 DEF FreeOnce, Held
<1>2. CASE ~(p < total /\ ~IsFree(p))
  <2>1. free' = free /\ total' = total
    BY <1>2 DEF Free
  <2>2. p \notin Held
    BY <1>0, <1>2 DEF Held
  <2>. QED
    BY <2>1, <2>2 DEF FreeOnce, Held, IsFree
<1>. QED
  BY <1>1, <1>2

LEMMA StepOnce == FreeOnce /\ [PageNext]_pageVars => FreeOnce'
<1>1. SUFFICES ASSUME FreeOnce, [PageNext]_pageVars PROVE FreeOnce'
  OBVIOUS
<1>2. CASE Alloc /\ free # <<>>
  BY <1>1, <1>2, AllocPops
<1>3. CASE Alloc /\ free = <<>>
  BY <1>1, <1>3 DEF Alloc, FreeOnce
<1>4. CASE \E p \in 0..total : Free(p)
  BY <1>1, <1>4, FreePushes
<1>5. CASE UNCHANGED pageVars
  BY <1>1, <1>5 DEF pageVars, FreeOnce
<1>. QED
  BY <1>1, <1>2, <1>3, <1>4, <1>5 DEF PageNext

(* No page is on the stack twice: a page freed twice, or never handed out, *)
(* is not put back.                                                        *)
THEOREM NoPageTwice == PageSpec => []FreeOnce
BY InitOnce, StepOnce, PTL DEF PageSpec

-----------------------------------------------------------------------------
LEMMA PageInitMaps == PageInit => Pool!Init
<1>. SUFFICES ASSUME PageInit PROVE Pool!Init
  OBVIOUS
<1>1. total \in Nat /\ free = [i \in 1..total |-> total - i]
  BY DEF PageInit
<1>2. \A p \in 0 .. total - 1 : IsFree(p)
  <2>1. TAKE p \in 0 .. total - 1
  <2>2. total - p \in 1..total /\ total - (total - p) = p
    BY <1>1
  <2>. QED
    BY <1>1, <2>2 DEF IsFree
<1>. QED
  BY <1>2 DEF PageInit, Pool!Init

LEMMA PageStepMaps == FreeOnce /\ [PageNext]_pageVars => [Pool!Next]_(Pool!vars)
<1>1. SUFFICES ASSUME FreeOnce, [PageNext]_pageVars PROVE [Pool!Next]_(Pool!vars)
  OBVIOUS
<1>2. CASE Alloc /\ free # <<>>
  <2>1. /\ pageLast' = <<"alloc", "null", free[Len(free)]>> /\ total' = total
        /\ free[Len(free)] \in (0 .. total - 1) \ Held
        /\ Held' = Held \cup {free[Len(free)]}
    BY <1>1, <1>2, AllocPops DEF Alloc
  <2>2. Pool!Alloc
    BY <2>1 DEF Pool!Alloc, Pool!Pages, Held
  <2>. QED
    BY <2>2 DEF Pool!Next
<1>3. CASE Alloc /\ free = <<>>
  <2>1. pageLast' = <<"alloc", "null", "null">> /\ free' = free /\ total' = total
    BY <1>3 DEF Alloc
  <2>2. Held = 0 .. total - 1 /\ Held' = Held
    BY <1>3, <2>1 DEF Held, IsFree
  <2>3. Pool!Alloc
    BY <2>1, <2>2 DEF Pool!Alloc, Pool!Pages, Held
  <2>. QED
    BY <2>3 DEF Pool!Next
<1>4. ASSUME NEW p \in 0..total, Free(p)
      PROVE  Pool!Next
  <2>1. Held' = Held \ {p} /\ pageLast' = <<"free", p, "null">> /\ total' = total
    BY <1>1, <1>4, FreePushes DEF Free
  <2>2. Pool!Free(p)
    BY <2>1 DEF Pool!Free, Held
  <2>. QED
    BY <2>2 DEF Pool!Next
<1>5. CASE UNCHANGED pageVars
  BY <1>5 DEF pageVars, Pool!vars, IsFree
<1>. QED
  BY <1>1, <1>2, <1>3, <1>4, <1>5 DEF PageNext

(* A page that is held is not handed out, a request fails only when all    *)
(* pages are held, and no page is lost.                                    *)
THEOREM PagesImplementPool == PageSpec => ImplementsPool
BY InitOnce, StepOnce, PageInitMaps, PageStepMaps, PTL DEF PageSpec, ImplementsPool, Pool!Spec
-----------------------------------------------------------------------------
(* The intrusive list.  Its nodes, forwards, are a sequence s: the links   *)
(* make a chain of s, and every other node made is free, once.             *)

(* The first and the last node of a sequence, and the neighbours of one.   *)
FirstOf(s) == IF s = <<>> THEN None ELSE s[1]
LastOf(s) == IF s = <<>> THEN None ELSE s[Len(s)]
After(s, k) == IF k = Len(s) THEN None ELSE s[k + 1]
Before(s, k) == IF k = 1 THEN None ELSE s[k - 1]
Cut(s, q) == [k \in 1 .. Len(s) - 1 |-> s[IF k < q THEN k ELSE k + 1]]

(* The nodes of s, each once, are linked one after the other.              *)
Chain(s, n, p) ==
    /\ n \in Seq(Nat) /\ p \in Seq(Nat) /\ Len(p) = Len(n)
    /\ s \in Seq(1..Len(n))
    /\ \A j, k \in 1..Len(s) : s[j] = s[k] => j = k
    /\ \A k \in 1..Len(s) : n[s[k]] = After(s, k) /\ p[s[k]] = Before(s, k)

(* What a chain says of its nodes.                                         *)
LEMMA NodeOf ==
    ASSUME NEW s, NEW n, NEW p, Chain(s, n, p)
    PROVE  /\ Len(s) \in Nat /\ Len(n) \in Nat /\ DOMAIN n = 1..Len(n) /\ DOMAIN p = 1..Len(n)
           /\ (s = <<>> <=> Len(s) = 0)
           /\ \A k \in 1..Len(s) : s[k] \in 1..Len(n) /\ s[k] \in Nat /\ s[k] # None
<1>1. Len(s) \in Nat /\ Len(n) \in Nat /\ DOMAIN n = 1..Len(n) /\ DOMAIN p = 1..Len(n)
  BY DEF Chain
<1>2. s = <<>> <=> Len(s) = 0
  BY EmptySeq DEF Chain
<1>3. \A k \in 1..Len(s) : s[k] \in 1..Len(n)
  BY DEF Chain
<1> QED BY <1>1, <1>2, <1>3 DEF None

(* A vector after SetAt.                                                   *)
LEMMA SetAtIs ==
    ASSUME NEW s \in Seq(Nat), NEW i, NEW x \in Nat
    PROVE  /\ SetAt(s, i, x) \in Seq(Nat) /\ Len(SetAt(s, i, x)) = Len(s)
           /\ \A j \in 1..Len(s) : SetAt(s, i, x)[j] = IF j = i THEN x ELSE s[j]
<1>1. CASE i \in DOMAIN s
  <2>1. i \in 1..Len(s)
    BY <1>1
  <2> QED BY <1>1, <2>1, ExceptSeq DEF SetAt
<1>2. CASE i \notin DOMAIN s
  BY <1>2 DEF SetAt
<1> QED BY <1>1, <1>2

(* A vector after Put.                                                     *)
LEMMA PutIs ==
    ASSUME NEW S, NEW s \in Seq(S), NEW i \in 1 .. Len(s) + 1, NEW x \in S
    PROVE  /\ Put(s, i, x) \in Seq(S)
           /\ Len(Put(s, i, x)) = IF i = Len(s) + 1 THEN Len(s) + 1 ELSE Len(s)
           /\ \A j \in 1..Len(s) : j # i => Put(s, i, x)[j] = s[j]
           /\ Put(s, i, x)[i] = x
<1>0. Len(s) \in Nat /\ DOMAIN s = 1..Len(s)
  OBVIOUS
<1>1. CASE i \in DOMAIN s
  <2>1. i \in 1..Len(s)
    BY <1>1
  <2>2. i # Len(s) + 1
    BY <1>0, <2>1
  <2> QED BY <1>1, <2>1, <2>2, ExceptSeq DEF Put
<1>2. CASE i \notin DOMAIN s
  <2>1. i = Len(s) + 1
    BY <1>0, <1>2
  <2> QED BY <1>0, <1>2, <2>1, AppendProperties DEF Put
<1> QED BY <1>1, <1>2

(* A sequence without its member at q.                                     *)
LEMMA CutIs ==
    ASSUME NEW S, NEW s \in Seq(S), NEW q \in 1..Len(s)
    PROVE  /\ Cut(s, q) \in Seq(S)
           /\ Len(Cut(s, q)) = Len(s) - 1
           /\ \A k \in 1 .. Len(s) - 1 : Cut(s, q)[k] = IF k < q THEN s[k] ELSE s[k + 1]
<1> DEFINE l == Len(s) - 1
<1>1. l \in Nat
  OBVIOUS
<1>2. \A k \in 1..l : s[IF k < q THEN k ELSE k + 1] \in S
  OBVIOUS
<1>3. Cut(s, q) = [k \in 1..l |-> s[IF k < q THEN k ELSE k + 1]]
  BY DEF Cut
<1> HIDE DEF l
<1>4. Cut(s, q) \in Seq(S) /\ Len(Cut(s, q)) = l
  BY <1>1, <1>2, <1>3
<1>5. \A k \in 1..l : Cut(s, q)[k] = IF k < q THEN s[k] ELSE s[k + 1]
  BY <1>3
<1> QED BY <1>4, <1>5 DEF l

(* Linking the neighbours of a node with each other takes it out.          *)
LEMMA Unlinked ==
    ASSUME NEW s, NEW n, NEW p, Chain(s, n, p), NEW q \in 1..Len(s)
    PROVE  /\ Chain(Cut(s, q), SetAt(n, Before(s, q), After(s, q)), SetAt(p, After(s, q), Before(s, q)))
           /\ FirstOf(Cut(s, q)) = IF q = 1 THEN After(s, q) ELSE FirstOf(s)
           /\ LastOf(Cut(s, q)) = IF q = Len(s) THEN Before(s, q) ELSE LastOf(s)
<1> DEFINE c == Cut(s, q)
           a == After(s, q)
           b == Before(s, q)
           n2 == SetAt(n, b, a)
           p2 == SetAt(p, a, b)
           l == Len(s)
           m == Len(n)
<1>1. /\ l \in Nat /\ l > 0 /\ m \in Nat
      /\ \A k \in 1..l : s[k] \in 1..m /\ s[k] \in Nat /\ s[k] # None
  BY NodeOf
<1>2. /\ n \in Seq(Nat) /\ p \in Seq(Nat) /\ Len(p) = m /\ s \in Seq(1..m)
      /\ \A j, k \in 1..l : s[j] = s[k] => j = k
      /\ \A k \in 1..l : n[s[k]] = After(s, k) /\ p[s[k]] = Before(s, k)
  BY DEF Chain
<1>3. a \in Nat /\ b \in Nat
  BY <1>1 DEF After, Before, None
<1>4. /\ n2 \in Seq(Nat) /\ p2 \in Seq(Nat) /\ Len(n2) = m /\ Len(p2) = m
      /\ \A j \in 1..m : n2[j] = IF j = b THEN a ELSE n[j]
      /\ \A j \in 1..m : p2[j] = IF j = a THEN b ELSE p[j]
  <2> HIDE DEF a, b
  <2>1. n2 \in Seq(Nat) /\ Len(n2) = m /\ \A j \in 1..m : n2[j] = IF j = b THEN a ELSE n[j]
    <3>1. n \in Seq(Nat) /\ a \in Nat
      BY <1>2, <1>3
    <3> HIDE DEF m
    <3>2. n2 \in Seq(Nat) /\ Len(n2) = Len(n) /\ \A j \in 1..Len(n) : n2[j] = IF j = b THEN a ELSE n[j]
      BY <3>1, SetAtIs
    <3> QED BY <3>2 DEF m
  <2>2. p2 \in Seq(Nat) /\ Len(p2) = m /\ \A j \in 1..m : p2[j] = IF j = a THEN b ELSE p[j]
    BY <1>2, <1>3, SetAtIs
  <2> QED BY <2>1, <2>2
<1>5. /\ c \in Seq(1..m) /\ Len(c) = l - 1
      /\ \A k \in 1 .. l - 1 : c[k] = IF k < q THEN s[k] ELSE s[k + 1]
  BY <1>2, CutIs
<1>6. c = <<>> <=> l = 1
  <2> HIDE DEF c, l, m
  <2>1. c = <<>> <=> Len(c) = 0
    BY <1>5, EmptySeq
  <2> QED BY <1>1, <1>5, <2>1
<1> HIDE DEF c, n2, p2, l, m
<1>7. ASSUME NEW j \in 1..Len(c), NEW k \in 1..Len(c), c[j] = c[k] PROVE j = k
  <2>1. j \in 1..l /\ k \in 1..l /\ j + 1 \in 1..l /\ k + 1 \in 1..l
    BY <1>1, <1>5
  <2>2. c[j] = (IF j < q THEN s[j] ELSE s[j + 1]) /\ c[k] = IF k < q THEN s[k] ELSE s[k + 1]
    BY <1>5
  <2>3. j = k \/ j + 1 = k + 1 \/ (j < q /\ j = k + 1 /\ ~(k < q)) \/ (k < q /\ k = j + 1 /\ ~(j < q))
    BY <1>2, <1>7, <2>1, <2>2
  <2> QED BY <2>1, <2>3 DEF l
<1>8. ASSUME NEW k \in 1..Len(c) PROVE n2[c[k]] = After(c, k)
  <2>1. k \in 1 .. l - 1 /\ k \in 1..l /\ k + 1 \in 1..l /\ c[k] \in 1..m
    BY <1>1, <1>5
  <2>2. CASE k < q - 1
    <3>1. c[k] = s[k] /\ c[k + 1] = s[k + 1] /\ k + 1 \in 1 .. l - 1
      BY <1>1, <1>5, <2>1, <2>2 DEF l
    <3>2. s[k] # b
      BY <1>1, <1>2, <2>1, <2>2 DEF Before, l
    <3>3. n2[c[k]] = After(s, k)
      BY <1>2, <1>4, <2>1, <3>1, <3>2
    <3> QED BY <1>5, <3>1, <3>3, <2>1, <2>2, <1>1 DEF After, l
  <2>3. CASE k = q - 1
    <3>1. c[k] = s[k] /\ b = s[k]
      BY <1>1, <1>5, <2>1, <2>3 DEF Before, l
    <3>2. n2[c[k]] = a
      BY <1>4, <2>1, <3>1
    <3>3. CASE q = l
      BY <1>5, <2>3, <3>2, <3>3 DEF After, l
    <3>4. CASE q # l
      <4>1. k + 1 \in 1 .. l - 1 /\ k + 1 = q
        BY <1>1, <2>1, <2>3, <3>4 DEF l
      <4>2. c[k + 1] = s[q + 1]
        BY <1>1, <1>5, <4>1
      <4> QED BY <1>1, <1>5, <2>3, <3>2, <3>4, <4>1, <4>2 DEF After, l
    <3> QED BY <3>3, <3>4
  <2>4. CASE k >= q
    <3>1. c[k] = s[k + 1]
      BY <1>1, <1>5, <2>1, <2>4 DEF l
    <3>2. s[k + 1] # b
      BY <1>1, <1>2, <2>1, <2>4 DEF Before, l
    <3>3. n2[c[k]] = After(s, k + 1)
      BY <1>2, <1>4, <2>1, <3>1, <3>2
    <3>4. CASE k = l - 1
      BY <1>1, <1>5, <3>3, <3>4, <2>1 DEF After, l
    <3>5. CASE k # l - 1
      <4>1. k + 1 \in 1 .. l - 1 /\ ~(k + 1 < q)
        BY <1>1, <2>1, <2>4, <3>5 DEF l
      <4>2. c[k + 1] = s[(k + 1) + 1]
        BY <1>5, <4>1
      <4> QED BY <1>1, <1>5, <3>3, <3>5, <2>1, <4>1, <4>2 DEF After, l
    <3> QED BY <3>4, <3>5
  <2> QED BY <1>1, <2>1, <2>2, <2>3, <2>4
<1>9. ASSUME NEW k \in 1..Len(c) PROVE p2[c[k]] = Before(c, k)
  <2>1. k \in 1 .. l - 1 /\ k \in 1..l /\ k + 1 \in 1..l /\ c[k] \in 1..m
    BY <1>1, <1>5
  <2>2. CASE k < q
    <3>1. c[k] = s[k]
      BY <1>1, <1>5, <2>1, <2>2 DEF l
    <3>2. s[k] # a
      BY <1>1, <1>2, <2>1, <2>2 DEF After, l
    <3>3. p2[c[k]] = Before(s, k)
      BY <1>2, <1>4, <2>1, <3>1, <3>2
    <3>4. k = 1 \/ (k - 1 \in 1 .. l - 1 /\ c[k - 1] = s[k - 1])
      BY <1>1, <1>5, <2>1, <2>2 DEF l
    <3> QED BY <3>3, <3>4, <2>1, <1>1 DEF Before
  <2>3. CASE k = q
    <3>1. c[k] = s[k + 1] /\ a = s[k + 1]
      BY <1>1, <1>5, <2>1, <2>3 DEF After, l
    <3>2. p2[c[k]] = b
      BY <1>4, <2>1, <3>1
    <3>3. k = 1 \/ (k - 1 \in 1 .. l - 1 /\ c[k - 1] = s[k - 1])
      BY <1>1, <1>5, <2>1, <2>3 DEF l
    <3> QED BY <3>2, <3>3, <2>1, <2>3, <1>1 DEF Before
  <2>4. CASE k > q
    <3>1. c[k] = s[k + 1]
      BY <1>1, <1>5, <2>1, <2>4 DEF l
    <3>2. s[k + 1] # a
      <4>1. q # l /\ q + 1 \in 1..l /\ q + 1 # k + 1 /\ a = s[q + 1]
        BY <1>1, <2>1, <2>4 DEF After, l
      <4> QED BY <1>2, <2>1, <4>1
    <3>3. p2[c[k]] = Before(s, k + 1)
      BY <1>2, <1>4, <2>1, <3>1, <3>2
    <3>4. k - 1 \in 1 .. l - 1 /\ ~(k - 1 < q) /\ (k - 1) + 1 = k /\ (k + 1) - 1 = k /\ k + 1 # 1 /\ k # 1
      BY <1>1, <2>1, <2>4 DEF l
    <3>5. c[k - 1] = s[k]
      BY <1>5, <3>4
    <3> QED BY <3>3, <3>4, <3>5 DEF Before
  <2> QED BY <1>1, <2>1, <2>2, <2>3, <2>4
<1>10. Chain(c, n2, p2)
  <2> HIDE DEF a, b
  <2> QED BY <1>4, <1>5, <1>7, <1>8, <1>9 DEF Chain
<1>11. FirstOf(c) = IF q = 1 THEN a ELSE FirstOf(s)
  <2>0. s # <<>>
    BY NodeOf, <1>1 DEF l
  <2>1. CASE l = 1
    BY <1>1, <1>6, <2>0, <2>1 DEF FirstOf, After, l
  <2>2. CASE l # 1
    <3>1. 1 \in 1 .. l - 1 /\ c # <<>>
      BY <1>1, <1>6, <2>2
    <3>2. c[1] = IF 1 < q THEN s[1] ELSE s[1 + 1]
      BY <1>5, <3>1
    <3>3. 1 < q \/ q = 1
      BY <1>1 DEF l
    <3> QED BY <1>1, <2>0, <2>2, <3>1, <3>2, <3>3 DEF FirstOf, After, l
  <2> QED BY <2>1, <2>2
<1>12. LastOf(c) = IF q = l THEN b ELSE LastOf(s)
  <2>0. s # <<>>
    BY NodeOf, <1>1 DEF l
  <2>1. CASE l = 1
    BY <1>1, <1>6, <2>0, <2>1 DEF LastOf, Before, l
  <2>2. CASE l # 1
    <3>1. l - 1 \in 1 .. l - 1 /\ c # <<>> /\ (l - 1) + 1 = l
      BY <1>1, <1>6, <2>2
    <3>2. c[l - 1] = IF l - 1 < q THEN s[l - 1] ELSE s[l]
      BY <1>5, <3>1
    <3>3. q = l <=> l - 1 < q
      BY <1>1 DEF l
    <3>4. LastOf(c) = c[l - 1] /\ LastOf(s) = s[l]
      BY <1>5, <2>0, <3>1 DEF LastOf, l
    <3>5. b = s[q - 1] \/ q = 1
      BY DEF Before
    <3> QED BY <1>1, <2>2, <3>2, <3>3, <3>4, <3>5
  <2> QED BY <2>1, <2>2
<1> QED BY <1>10, <1>11, <1>12 DEF c, n2, p2, l

(* A node put before the first one.                                        *)
Prepended(s, i) == [k \in 1 .. Len(s) + 1 |-> IF k = 1 THEN i ELSE s[k - 1]]
(* The members of a sequence with one more before the first.               *)
LEMMA PrependedIs ==
    ASSUME NEW S, NEW s \in Seq(S), NEW i \in S
    PROVE  /\ Prepended(s, i) \in Seq(S) /\ Len(Prepended(s, i)) = Len(s) + 1
           /\ Prepended(s, i)[1] = i
           /\ \A k \in 1..Len(s) : Prepended(s, i)[k + 1] = s[k]
<1> DEFINE l == Len(s) + 1
<1>1. l \in Nat /\ Len(s) \in Nat /\ 1 \in 1..l
  OBVIOUS
<1>2. \A k \in 1..l : (IF k = 1 THEN i ELSE s[k - 1]) \in S
  OBVIOUS
<1>3. Prepended(s, i) = [k \in 1..l |-> IF k = 1 THEN i ELSE s[k - 1]]
  BY DEF Prepended
<1>4. \A k \in 1..Len(s) : k + 1 \in 1..l /\ k + 1 # 1 /\ (k + 1) - 1 = k
  BY <1>1
<1> HIDE DEF l
<1>5. Prepended(s, i) \in Seq(S) /\ Len(Prepended(s, i)) = l
  BY <1>1, <1>2, <1>3
<1>6. Prepended(s, i)[1] = i
  BY <1>1, <1>3
<1>7. \A k \in 1..Len(s) : Prepended(s, i)[k + 1] = s[k]
  BY <1>3, <1>4
<1> QED BY <1>5, <1>6, <1>7 DEF l

(* A node put before the first one, linked as push_front does.             *)
LEMMA LinkedBefore ==
    ASSUME NEW s, NEW n, NEW p, Chain(s, n, p), NEW i \in 1 .. Len(n) + 1,
           \A k \in 1..Len(s) : s[k] # i
    PROVE  /\ Chain(Prepended(s, i), Put(n, i, FirstOf(s)), SetAt(Put(p, i, None), FirstOf(s), i))
           /\ FirstOf(Prepended(s, i)) = i
           /\ LastOf(Prepended(s, i)) = IF FirstOf(s) = None THEN i ELSE LastOf(s)
<1> DEFINE c == Prepended(s, i)
           a == FirstOf(s)
           n2 == Put(n, i, a)
           p1 == Put(p, i, None)
           p2 == SetAt(p1, a, i)
           l == Len(s)
           m == Len(n)
           m2 == Len(n2)
<1>1. /\ l \in Nat /\ m \in Nat /\ i \in Nat /\ i # None /\ (s = <<>> <=> l = 0)
      /\ \A k \in 1..l : s[k] \in 1..m /\ s[k] \in Nat /\ s[k] # None
  BY NodeOf DEF None
<1>2. /\ n \in Seq(Nat) /\ p \in Seq(Nat) /\ Len(p) = m /\ s \in Seq(1..m)
      /\ \A j, k \in 1..l : s[j] = s[k] => j = k
      /\ \A k \in 1..l : n[s[k]] = After(s, k) /\ p[s[k]] = Before(s, k)
  BY DEF Chain
<1>3. a \in Nat /\ None \in Nat /\ a # i
  BY <1>1 DEF FirstOf, None
<1>4. /\ n2 \in Seq(Nat) /\ m2 = (IF i = m + 1 THEN m + 1 ELSE m)
      /\ n2[i] = a /\ \A j \in 1..m : j # i => n2[j] = n[j]
  <2> HIDE DEF a
  <2> QED BY <1>2, <1>3, PutIs
<1>5. /\ p1 \in Seq(Nat) /\ Len(p1) = m2
      /\ p1[i] = None /\ \A j \in 1..m : j # i => p1[j] = p[j]
  <2>1. i \in 1 .. Len(p) + 1
    BY <1>2
  <2>2. /\ p1 \in Seq(Nat) /\ Len(p1) = (IF i = Len(p) + 1 THEN Len(p) + 1 ELSE Len(p))
        /\ p1[i] = None /\ \A j \in 1..Len(p) : j # i => p1[j] = p[j]
    <3>1. p \in Seq(Nat) /\ None \in Nat
      BY <1>2, <1>3
    <3> HIDE DEF m, n2
    <3> QED BY <3>1, <2>1, PutIs
  <2> HIDE DEF m, n2, p1
  <2> QED BY <1>2, <1>4, <2>2
<1>6. /\ p2 \in Seq(Nat) /\ Len(p2) = m2
      /\ \A j \in 1..m2 : p2[j] = IF j = a THEN i ELSE p1[j]
  <2> HIDE DEF p1, a, m2
  <2>1. p2 \in Seq(Nat) /\ Len(p2) = Len(p1) /\ \A j \in 1..Len(p1) : p2[j] = IF j = a THEN i ELSE p1[j]
    BY <1>1, <1>5, SetAtIs
  <2> HIDE DEF p2
  <2> QED BY <2>1, <1>5
<1> HIDE DEF a, n2, p1, p2, m, m2
<1>7. m2 \in Nat /\ m <= m2 /\ i \in 1..m2 /\ \A k \in 1..l : s[k] \in 1..m2 /\ s[k] # i
  BY <1>1, <1>4 DEF m
<1>8. /\ c \in Seq(1..m2) /\ Len(c) = l + 1
      /\ c[1] = i /\ \A k \in 1..l : c[k + 1] = s[k]
  <2>1. s \in Seq(1..m2)
    BY <1>2, <1>7, SeqMonotonic
  <2> QED BY <1>7, <2>1, PrependedIs
<1> HIDE DEF c, l
<1>9. ASSUME NEW k \in 1 .. l + 1
      PROVE  (k = 1 /\ c[k] = i) \/ (k # 1 /\ k - 1 \in 1..l /\ c[k] = s[k - 1] /\ c[k] # i)
  <2>1. k = 1 \/ (k # 1 /\ k - 1 \in 1..l /\ (k - 1) + 1 = k)
    BY <1>1
  <2> QED BY <1>7, <1>8, <2>1
<1>10. ASSUME NEW j \in 1..Len(c), NEW k \in 1..Len(c), c[j] = c[k] PROVE j = k
  <2>1. j \in 1 .. l + 1 /\ k \in 1 .. l + 1
    BY <1>8
  <2>2. (j = 1 /\ k = 1) \/ (j - 1 \in 1..l /\ k - 1 \in 1..l /\ j - 1 = k - 1)
    BY <1>2, <1>9, <1>10, <2>1
  <2> QED BY <1>1, <2>1, <2>2
<1>11. ASSUME NEW k \in 1..Len(c) PROVE n2[c[k]] = After(c, k)
  <2>1. k \in 1 .. l + 1
    BY <1>8
  <2>2. CASE k = 1
    <3>1. n2[c[k]] = a
      BY <1>4, <1>9, <2>1, <2>2
    <3>2. l = 0 \/ (1 \in 1..l /\ 1 # l + 1 /\ c[1 + 1] = s[1])
      BY <1>1, <1>8
    <3> QED BY <1>1, <1>8, <2>2, <3>1, <3>2 DEF a, FirstOf, After, l
  <2>3. CASE k # 1
    <3>1. k - 1 \in 1..l /\ c[k] = s[k - 1] /\ c[k] # i /\ s[k - 1] \in 1..m
      BY <1>1, <1>9, <2>1, <2>3
    <3>2. n2[c[k]] = After(s, k - 1)
      BY <1>2, <1>4, <3>1
    <3>3. k = l + 1 \/ (k # l + 1 /\ k \in 1..l /\ c[k + 1] = s[k])
      BY <1>1, <1>8, <2>1, <3>1
    <3>4. (k - 1) + 1 = k /\ (k - 1 = l <=> k = l + 1)
      BY <1>1, <2>1
    <3> QED BY <1>8, <3>2, <3>3, <3>4 DEF After, l
  <2> QED BY <2>2, <2>3
<1>12. ASSUME NEW k \in 1..Len(c) PROVE p2[c[k]] = Before(c, k)
  <2>1. k \in 1 .. l + 1
    BY <1>8
  <2>2. CASE k = 1
    BY <1>3, <1>5, <1>6, <1>7, <1>9, <2>1, <2>2 DEF Before
  <2>3. CASE k # 1
    <3>1. k - 1 \in 1..l /\ c[k] = s[k - 1] /\ c[k] # i /\ s[k - 1] \in 1..m /\ s[k - 1] \in 1..m2
      BY <1>1, <1>7, <1>9, <2>1, <2>3
    <3>2. CASE k = 2
      <4>1. k - 1 = 1 /\ l # 0
        BY <1>1, <3>1, <3>2
      <4>2. a = s[1]
        BY <1>1, <4>1 DEF a, FirstOf
      <4>3. p2[c[k]] = i
        BY <1>6, <3>1, <4>1, <4>2
      <4> QED BY <1>8, <2>3, <4>1, <4>3 DEF Before
    <3>3. CASE k # 2
      <4>1. k - 1 # 1 /\ (k - 1) - 1 \in 1..l /\ ((k - 1) - 1) + 1 = k - 1 /\ 1 \in 1..l /\ l # 0
        BY <1>1, <2>1, <2>3, <3>3
      <4>2. a = s[1] /\ s[k - 1] # s[1]
        BY <1>1, <1>2, <3>1, <4>1 DEF a, FirstOf
      <4>3. p2[c[k]] = p[s[k - 1]]
        BY <1>5, <1>6, <3>1, <4>2
      <4>4. p[s[k - 1]] = s[(k - 1) - 1]
        BY <1>2, <3>1, <4>1 DEF Before
      <4>5. c[k - 1] = s[(k - 1) - 1]
        BY <1>8, <4>1
      <4> QED BY <2>3, <4>3, <4>4, <4>5 DEF Before
    <3> QED BY <3>2, <3>3
  <2> QED BY <2>2, <2>3
<1>13. Chain(c, n2, p2)
  BY <1>4, <1>6, <1>8, <1>10, <1>11, <1>12 DEF Chain, m2
<1>14. c # <<>>
  BY <1>1, <1>8, EmptySeq
<1>15. FirstOf(c) = i
  BY <1>8, <1>14 DEF FirstOf
<1>16. LastOf(c) = IF a = None THEN i ELSE LastOf(s)
  <2>1. LastOf(c) = c[l + 1]
    BY <1>8, <1>14 DEF LastOf
  <2>2. a = None <=> l = 0
    <3>1. l = 0 \/ 1 \in 1..l
      BY <1>1
    <3> QED BY <1>1, <3>1 DEF a, FirstOf
  <2>3. l = 0 \/ (l \in 1..l /\ c[l + 1] = s[l])
    BY <1>1, <1>8
  <2>4. l = 0 \/ LastOf(s) = s[l]
    BY <1>1 DEF LastOf, l
  <2>5. l = 0 => c[l + 1] = i
    BY <1>8
  <2> QED BY <2>1, <2>2, <2>3, <2>4, <2>5
<1> QED BY <1>13, <1>15, <1>16 DEF c, n2, p1, p2, a

(* A node put after the last one.                                          *)
LEMMA LinkedAfter ==
    ASSUME NEW s, NEW n, NEW p, Chain(s, n, p), NEW i \in 1 .. Len(n) + 1,
           \A k \in 1..Len(s) : s[k] # i
    PROVE  /\ Chain(Append(s, i), SetAt(Put(n, i, None), LastOf(s), i), Put(p, i, LastOf(s)))
           /\ FirstOf(Append(s, i)) = IF LastOf(s) = None THEN i ELSE FirstOf(s)
           /\ LastOf(Append(s, i)) = i
<1> DEFINE c == Append(s, i)
           b == LastOf(s)
           n1 == Put(n, i, None)
           n2 == SetAt(n1, b, i)
           p2 == Put(p, i, b)
           l == Len(s)
           m == Len(n)
           m2 == Len(n1)
<1>1. /\ l \in Nat /\ m \in Nat /\ i \in Nat /\ i # None /\ (s = <<>> <=> l = 0)
      /\ \A k \in 1..l : s[k] \in 1..m /\ s[k] \in Nat /\ s[k] # None
  BY NodeOf DEF None
<1>2. /\ n \in Seq(Nat) /\ p \in Seq(Nat) /\ Len(p) = m /\ s \in Seq(1..m)
      /\ \A j, k \in 1..l : s[j] = s[k] => j = k
      /\ \A k \in 1..l : n[s[k]] = After(s, k) /\ p[s[k]] = Before(s, k)
  BY DEF Chain
<1>3. b \in Nat /\ None \in Nat /\ b # i
  <2>1. l = 0 \/ l \in 1..l
    BY <1>1
  <2> QED BY <1>1, <2>1 DEF LastOf, None
<1>4. /\ n1 \in Seq(Nat) /\ m2 = (IF i = m + 1 THEN m + 1 ELSE m)
      /\ n1[i] = None /\ \A j \in 1..m : j # i => n1[j] = n[j]
  <2> HIDE DEF b
  <2> QED BY <1>2, <1>3, PutIs
<1>5. /\ p2 \in Seq(Nat) /\ Len(p2) = m2
      /\ p2[i] = b /\ \A j \in 1..m : j # i => p2[j] = p[j]
  <2>1. i \in 1 .. Len(p) + 1
    BY <1>2
  <2>2. /\ p2 \in Seq(Nat) /\ Len(p2) = (IF i = Len(p) + 1 THEN Len(p) + 1 ELSE Len(p))
        /\ p2[i] = b /\ \A j \in 1..Len(p) : j # i => p2[j] = p[j]
    <3>1. p \in Seq(Nat) /\ b \in Nat
      BY <1>2, <1>3
    <3> HIDE DEF m, n1, b
    <3> QED BY <3>1, <2>1, PutIs
  <2> HIDE DEF m, n1, p2, b
  <2> QED BY <1>2, <1>4, <2>2
<1>6. /\ n2 \in Seq(Nat) /\ Len(n2) = m2
      /\ \A j \in 1..m2 : n2[j] = IF j = b THEN i ELSE n1[j]
  <2> HIDE DEF n1, b
  <2> QED BY <1>1, <1>4, SetAtIs
<1> HIDE DEF b, n1, n2, p2, m, m2
<1>7. m2 \in Nat /\ m <= m2 /\ i \in 1..m2 /\ \A k \in 1..l : s[k] \in 1..m2 /\ s[k] # i
  BY <1>1, <1>4 DEF m
<1>8. /\ c \in Seq(1..m2) /\ Len(c) = l + 1
      /\ c[l + 1] = i /\ \A k \in 1..l : c[k] = s[k]
  <2>1. s \in Seq(1..m2)
    BY <1>2, <1>7, SeqMonotonic
  <2> QED BY <1>7, <2>1, AppendProperties
<1> HIDE DEF c, l
<1>9. ASSUME NEW k \in 1 .. l + 1
      PROVE  (k = l + 1 /\ c[k] = i) \/ (k # l + 1 /\ k \in 1..l /\ c[k] = s[k] /\ c[k] # i)
  <2>1. k = l + 1 \/ (k # l + 1 /\ k \in 1..l)
    BY <1>1
  <2> QED BY <1>7, <1>8, <2>1
<1>10. ASSUME NEW j \in 1..Len(c), NEW k \in 1..Len(c), c[j] = c[k] PROVE j = k
  <2>1. j \in 1 .. l + 1 /\ k \in 1 .. l + 1
    BY <1>8
  <2> QED BY <1>2, <1>9, <1>10, <2>1
<1>11. ASSUME NEW k \in 1..Len(c) PROVE p2[c[k]] = Before(c, k)
  <2>1. k \in 1 .. l + 1
    BY <1>8
  <2>2. CASE k = l + 1
    <3>1. p2[c[k]] = b
      BY <1>5, <1>9, <2>1, <2>2
    <3>2. l = 0 \/ (l \in 1..l /\ c[l] = s[l] /\ k # 1 /\ k - 1 = l)
      BY <1>1, <1>8, <2>2
    <3> QED BY <1>1, <1>8, <2>2, <3>1, <3>2 DEF b, LastOf, Before, l
  <2>3. CASE k # l + 1
    <3>1. k \in 1..l /\ c[k] = s[k] /\ c[k] # i /\ s[k] \in 1..m
      BY <1>1, <1>9, <2>1, <2>3
    <3>2. p2[c[k]] = Before(s, k)
      BY <1>2, <1>5, <3>1
    <3>3. k = 1 \/ (k - 1 \in 1..l /\ c[k - 1] = s[k - 1])
      BY <1>1, <1>8, <2>1, <3>1
    <3> QED BY <3>2, <3>3 DEF Before
  <2> QED BY <2>2, <2>3
<1>12. ASSUME NEW k \in 1..Len(c) PROVE n2[c[k]] = After(c, k)
  <2>1. k \in 1 .. l + 1
    BY <1>8
  <2>2. CASE k = l + 1
    BY <1>3, <1>4, <1>6, <1>7, <1>8, <1>9, <2>1, <2>2 DEF After
  <2>3. CASE k # l + 1
    <3>1. k \in 1..l /\ c[k] = s[k] /\ c[k] # i /\ s[k] \in 1..m /\ s[k] \in 1..m2 /\ l # 0 /\ l \in 1..l
      BY <1>1, <1>7, <1>9, <2>1, <2>3
    <3>2. b = s[l] /\ k # Len(c)
      BY <1>1, <1>8, <2>3, <3>1 DEF b, LastOf, l
    <3>3. CASE k = l
      <4>1. n2[c[k]] = i
        BY <1>6, <3>1, <3>2, <3>3
      <4> QED BY <1>8, <3>2, <3>3, <4>1 DEF After
    <3>4. CASE k # l
      <4>1. k + 1 \in 1..l /\ s[k] # b
        BY <1>1, <1>2, <3>1, <3>2, <3>4
      <4>2. n2[c[k]] = n[s[k]]
        BY <1>4, <1>6, <3>1, <4>1
      <4>3. n[s[k]] = s[k + 1]
        BY <1>2, <3>1, <3>4 DEF After, l
      <4>4. c[k + 1] = s[k + 1]
        BY <1>8, <4>1
      <4> QED BY <3>2, <4>2, <4>3, <4>4 DEF After
    <3> QED BY <3>3, <3>4
  <2> QED BY <2>2, <2>3
<1>13. Chain(c, n2, p2)
  BY <1>5, <1>6, <1>8, <1>10, <1>11, <1>12 DEF Chain, m2
<1>14. c # <<>>
  BY <1>1, <1>8, EmptySeq
<1>15. LastOf(c) = i
  BY <1>8, <1>14 DEF LastOf
<1>16. FirstOf(c) = IF b = None THEN i ELSE FirstOf(s)
  <2>1. FirstOf(c) = c[1]
    BY <1>14 DEF FirstOf
  <2>2. b = None <=> l = 0
    <3>1. l = 0 \/ l \in 1..l
      BY <1>1
    <3> QED BY <1>1, <3>1 DEF b, LastOf, l
  <2>3. l = 0 \/ (1 \in 1..l /\ c[1] = s[1])
    BY <1>1, <1>8
  <2>4. l = 0 \/ FirstOf(s) = s[1]
    BY <1>1 DEF FirstOf
  <2>5. l = 0 => c[1] = i
    BY <1>8
  <2> QED BY <2>1, <2>2, <2>3, <2>4, <2>5
<1> QED BY <1>13, <1>15, <1>16 DEF c, n1, n2, p2, b
(* A sequence of different numbers up to n is no longer than n.            *)
LEMMA NoLonger ==
    ASSUME NEW n \in Nat, NEW s \in Seq(1..n), \A j, k \in 1..Len(s) : s[j] = s[k] => j = k
    PROVE  Len(s) <= n
<1>1. Len(s) \in Nat /\ s \in [1..Len(s) -> 1..n]
  OBVIOUS
<1>2. s \in Injection(1..Len(s), 1..n)
  BY <1>1 DEF Injection, IsInjective
<1>3. IsFiniteSet(1..n) /\ Cardinality(1..n) = n /\ Cardinality(1..Len(s)) = Len(s)
  <2>1. IsFiniteSet(1..n) /\ Cardinality(1..n) = n
    <3>1. IsFiniteSet(1..n) /\ Cardinality(1..n) = IF 1 > n THEN 0 ELSE n - 1 + 1
      BY FS_Interval
    <3> QED BY <3>1
  <2>2. Cardinality(1..Len(s)) = Len(s)
    <3>1. PICK l \in Nat : l = Len(s)
      BY <1>1
    <3>2. Cardinality(1..l) = IF 1 > l THEN 0 ELSE l - 1 + 1
      BY FS_Interval
    <3> QED BY <3>1, <3>2
  <2> QED BY <2>1, <2>2
<1>. QED
  BY <1>2, <1>3, FS_Injection

(* Who follows the links of a chain meets its nodes.                       *)
LEMMA Meets ==
    ASSUME NEW link \in Seq(Nat), NEW s \in Seq(1..Len(link)), Len(s) <= Len(link), NEW i,
           i = IF s = <<>> THEN None ELSE s[1],
           \A k \in 1..Len(s) : link[s[k]] = IF k = Len(s) THEN None ELSE s[k + 1]
    PROVE  Along(link, i) = s
<1> DEFINE m == Len(link)
           Step(x) == IF x \in DOMAIN link THEN link[x] ELSE None
           F == [n \in 1..m |-> [x \in Nat |-> Step(x)]]
<1>1. m \in Nat /\ i \in Nat /\ Len(s) \in Nat /\ \A k \in 1..Len(s) : s[k] \in 1..m
  BY DEF None
<1>2. DOMAIN link = 1..m /\ \A x \in Nat : Step(x) \in Nat
  BY DEF None
<1>3. F \in [1..m -> [Nat -> Nat]]
  BY <1>2
<1>4. PICK r : FollowsTo(m, r, Nat, i, F)
  <2> HIDE DEF F, m
  <2> QED BY <1>1, <1>3, RecursTo
<1>5. r \in [0..m -> Nat] /\ \A n \in 0..m : r[n] = IF n = 0 THEN i ELSE Step(r[n - 1])
  <2>1. r \in [0..m -> Nat] /\ \A n \in 0..m : r[n] = IF n = 0 THEN i ELSE F[n][r[n - 1]]
    <3> HIDE DEF F
    <3> QED BY <1>4 DEF FollowsTo
  <2>2. ASSUME NEW n \in 0..m, n # 0 PROVE F[n][r[n - 1]] = Step(r[n - 1])
    <3>1. n \in 1..m /\ n - 1 \in 0..m
      BY <1>1, <2>2
    <3>2. r[n - 1] \in Nat
      <4> HIDE DEF F
      <4> QED BY <2>1, <3>1
    <3> QED BY <3>1, <3>2
  <2> HIDE DEF F
  <2> QED BY <2>1, <2>2
<1> HIDE DEF F
<1> DEFINE met == CHOOSE f : f = [n \in 0..m |-> IF n = 0 THEN i ELSE Step(f[n - 1])]
           ends == CHOOSE n \in 0..m : /\ n = m \/ met[n] = None
                                       /\ \A k \in 0 .. n - 1 : met[k] # None
<1>6. Along(link, i) = [n \in 1..ends |-> met[n - 1]]
  BY DEF Along
<1>7. r = [n \in 0..m |-> IF n = 0 THEN i ELSE Step(r[n - 1])]
  BY <1>5
<1>8. met = [n \in 0..m |-> IF n = 0 THEN i ELSE Step(met[n - 1])]
  BY <1>7
<1> HIDE DEF met
<1> DEFINE P == {n \in Nat : n <= Len(s) => met[n] = IF n < Len(s) THEN s[n + 1] ELSE None}
<1>9. 0 \in P
  <2>1. met[0] = i
    BY <1>1, <1>8
  <2>2. Len(s) = 0 <=> s = <<>>
    BY EmptySeq
  <2> QED BY <1>1, <2>1, <2>2
<1>10. ASSUME NEW n \in 0 .. m - 1, n \in P PROVE n + 1 \in P
  <2> SUFFICES ASSUME n + 1 <= Len(s)
               PROVE  met[n + 1] = IF n + 1 < Len(s) THEN s[(n + 1) + 1] ELSE None
    BY <1>1
  <2>1. met[n] = s[n + 1] /\ n + 1 \in 1..Len(s) /\ s[n + 1] \in DOMAIN link
    BY <1>1, <1>2, <1>10
  <2>2. n + 1 \in 0..m /\ n + 1 # 0 /\ (n + 1) - 1 = n
    BY <1>1
  <2>3. met[n + 1] = Step(met[n])
    <3> HIDE DEF Step
    <3> QED BY <1>8, <2>2
  <2>4. met[n + 1] = link[s[n + 1]]
    BY <2>1, <2>3
  <2> QED BY <1>1, <2>1, <2>4
<1>11. \A n \in 0..m : n \in P
  <2> HIDE DEF P, m
  <2> QED BY <1>1, <1>9, <1>10, InductsTo
<1>12. \A n \in 0..Len(s) : met[n] = IF n < Len(s) THEN s[n + 1] ELSE None
  BY <1>1, <1>11
<1>13. ASSUME NEW n \in 0 .. Len(s) - 1 PROVE met[n] # None
  <2>1. n \in 0..Len(s) /\ n < Len(s) /\ n + 1 \in 1..Len(s)
    BY <1>1
  <2>2. met[n] = s[n + 1]
    BY <1>12, <2>1
  <2>3. s[n + 1] \in 1..m
    BY <1>1, <2>1
  <2> QED BY <2>2, <2>3 DEF None
<1>14. ends = Len(s)
  <2>1. Len(s) \in 0..m /\ met[Len(s)] = None
    BY <1>1, <1>12
  <2>2. ASSUME NEW n \in 0..m, n = m \/ met[n] = None, \A k \in 0 .. n - 1 : met[k] # None
        PROVE  n = Len(s)
    <3>1. ~(n < Len(s))
      BY <1>1, <1>13, <2>2
    <3>2. ~(Len(s) < n)
      BY <1>1, <2>1, <2>2
    <3> QED BY <1>1, <3>1, <3>2
  <2> HIDE DEF m
  <2> QED BY <1>1, <1>13, <2>1, <2>2
<1>15. s = [n \in 1..Len(s) |-> s[n]]
  OBVIOUS
<1>16. ASSUME NEW n \in 1..Len(s) PROVE met[n - 1] = s[n]
  <2>1. n - 1 \in 0..Len(s) /\ n - 1 < Len(s) /\ (n - 1) + 1 = n
    BY <1>1
  <2> QED BY <1>12, <2>1
<1> HIDE DEF ends
<1> QED BY <1>6, <1>14, <1>15, <1>16

(* What is freed are the nodes that are not in the list, each once.        *)
In(s, x) == \E k \in 1..Len(s) : s[k] = x
Apart(s, f, m) ==
    /\ f \in Seq(1..m)
    /\ \A j, k \in 1..Len(f) : f[j] = f[k] => j = k
    /\ \A x \in 1..m : In(f, x) <=> ~In(s, x)

OneMore(c, s, i) == \A x : In(c, x) <=> x = i \/ In(s, x)

(* Who is in a sequence after a push at its end.                           *)
LEMMA AppendedIn ==
    ASSUME NEW S, NEW s \in Seq(S), NEW i \in S, NEW x
    PROVE  In(Append(s, i), x) <=> x = i \/ In(s, x)
<1> DEFINE c == Append(s, i)
<1>1. Len(c) = Len(s) + 1 /\ Len(s) \in Nat /\ c[Len(s) + 1] = i /\ \A k \in 1..Len(s) : c[k] = s[k]
  BY AppendProperties
<1> HIDE DEF c
<1>2. ASSUME In(c, x) PROVE x = i \/ In(s, x)
  <2>1. PICK k \in 1..Len(c) : c[k] = x
    BY <1>2 DEF In
  <2>2. k = Len(s) + 1 \/ k \in 1..Len(s)
    BY <1>1
  <2> QED BY <1>1, <2>1, <2>2 DEF In
<1>3. ASSUME In(s, x) PROVE In(c, x)
  <2>1. PICK k \in 1..Len(s) : s[k] = x
    BY <1>3 DEF In
  <2>2. k \in 1..Len(c)
    BY <1>1
  <2> QED BY <1>1, <2>1, <2>2 DEF In
<1>4. In(c, i)
  <2>1. Len(s) + 1 \in 1..Len(c)
    BY <1>1
  <2> QED BY <1>1, <2>1 DEF In
<1> QED BY <1>2, <1>3, <1>4 DEF c

(* Who is in a sequence after a push at its front.                         *)
LEMMA PrependedIn ==
    ASSUME NEW S, NEW s \in Seq(S), NEW i \in S, NEW x
    PROVE  In(Prepended(s, i), x) <=> x = i \/ In(s, x)
<1> DEFINE c == Prepended(s, i)
<1>1. Len(c) = Len(s) + 1 /\ Len(s) \in Nat /\ c[1] = i /\ \A k \in 1..Len(s) : c[k + 1] = s[k]
  <2>1. Len(s) \in Nat
    OBVIOUS
  <2>2. Len(c) = Len(s) + 1 /\ c[1] = i
    BY PrependedIs
  <2>3. \A k \in 1..Len(s) : c[k + 1] = s[k]
    BY PrependedIs
  <2> QED BY <2>1, <2>2, <2>3
<1> HIDE DEF c
<1>2. ASSUME In(c, x) PROVE x = i \/ In(s, x)
  <2>1. PICK k \in 1..Len(c) : c[k] = x
    BY <1>2 DEF In
  <2>2. k = 1 \/ (k - 1 \in 1..Len(s) /\ (k - 1) + 1 = k)
    BY <1>1
  <2> QED BY <1>1, <2>1, <2>2 DEF In
<1>3. ASSUME In(s, x) PROVE In(c, x)
  <2>1. PICK k \in 1..Len(s) : s[k] = x
    BY <1>3 DEF In
  <2>2. k + 1 \in 1..Len(c)
    BY <1>1
  <2> QED BY <1>1, <2>1, <2>2 DEF In
<1>4. In(c, i)
  <2>1. 1 \in 1..Len(c)
    BY <1>1
  <2> QED BY <1>1, <2>1 DEF In
<1> QED BY <1>2, <1>3, <1>4 DEF c

(* Who is in a sequence without its member at q.                           *)
LEMMA CutIn ==
    ASSUME NEW S, NEW s \in Seq(S), NEW q \in 1..Len(s), NEW x,
           \A j, k \in 1..Len(s) : s[j] = s[k] => j = k
    PROVE  In(Cut(s, q), x) <=> x # s[q] /\ In(s, x)
<1> DEFINE c == Cut(s, q)
<1>1. /\ Len(c) = Len(s) - 1 /\ Len(s) \in Nat
      /\ \A k \in 1 .. Len(s) - 1 : c[k] = IF k < q THEN s[k] ELSE s[k + 1]
  BY CutIs
<1> HIDE DEF c
<1>2. ASSUME In(c, x) PROVE x # s[q] /\ In(s, x)
  <2>1. PICK k \in 1..Len(c) : c[k] = x
    BY <1>2 DEF In
  <2>2. (k \in 1..Len(s) /\ k # q /\ c[k] = s[k]) \/ (k + 1 \in 1..Len(s) /\ k + 1 # q /\ c[k] = s[k + 1])
    BY <1>1
  <2> QED BY <1>1, <2>1, <2>2 DEF In
<1>3. ASSUME In(s, x), x # s[q] PROVE In(c, x)
  <2>1. PICK k \in 1..Len(s) : s[k] = x
    BY <1>3 DEF In
  <2>2. k # q
    BY <1>3, <2>1
  <2>3. CASE k < q
    <3>1. k \in 1..Len(c) /\ c[k] = s[k]
      BY <1>1, <2>3
    <3> QED BY <2>1, <3>1 DEF In
  <2>4. CASE k > q
    <3>1. k - 1 \in 1..Len(c) /\ k - 1 \in 1 .. Len(s) - 1 /\ ~(k - 1 < q) /\ (k - 1) + 1 = k
      BY <1>1, <2>4
    <3>2. c[k - 1] = s[k]
      BY <1>1, <3>1
    <3> QED BY <2>1, <3>1, <3>2 DEF In
  <2> QED BY <1>1, <2>2, <2>3, <2>4
<1> QED BY <1>2, <1>3 DEF c

(* A node taken out is freed.                                              *)
LEMMA FreedApart ==
    ASSUME NEW m \in Nat, NEW s \in Seq(1..m), NEW f, Apart(s, f, m), NEW q \in 1..Len(s),
           \A j, k \in 1..Len(s) : s[j] = s[k] => j = k
    PROVE  Apart(Cut(s, q), Append(f, s[q]), m)
<1> DEFINE g == Append(f, s[q])
<1>1. s[q] \in 1..m /\ In(s, s[q]) /\ f \in Seq(1..m)
  BY DEF In, Apart
<1>2. /\ g \in Seq(1..m) /\ Len(g) = Len(f) + 1 /\ Len(f) \in Nat
      /\ g[Len(f) + 1] = s[q] /\ \A k \in 1..Len(f) : g[k] = f[k]
  BY <1>1, AppendProperties
<1>3. \A k \in 1..Len(f) : f[k] # s[q]
  BY <1>1 DEF Apart, In
<1>4. ASSUME NEW x \in 1..m PROVE In(g, x) <=> ~In(Cut(s, q), x)
  <2>1. In(g, x) <=> x = s[q] \/ In(f, x)
    BY <1>1, AppendedIn
  <2>2. In(Cut(s, q), x) <=> x # s[q] /\ In(s, x)
    BY CutIn
  <2> QED BY <2>1, <2>2 DEF Apart
<1> HIDE DEF g
<1>5. ASSUME NEW j \in 1..Len(g), NEW k \in 1..Len(g), g[j] = g[k] PROVE j = k
  <2>1. (j = Len(f) + 1 \/ j \in 1..Len(f)) /\ (k = Len(f) + 1 \/ k \in 1..Len(f))
    BY <1>2
  <2> QED BY <1>2, <1>3, <1>5, <2>1 DEF Apart
<1> QED BY <1>2, <1>4, <1>5 DEF Apart, g

(* The node of a push is a new one or the last one freed.                  *)
NodeFor(f, m) == IF f = <<>> THEN m + 1 ELSE Seqs!Last(f)
Others(f) == IF f = <<>> THEN f ELSE Seqs!Front(f)
LEMMA TakenApart ==
    ASSUME NEW m \in Nat, NEW s \in Seq(1..m), NEW f, Apart(s, f, m)
    PROVE  /\ NodeFor(f, m) \in 1 .. m + 1
           /\ \A k \in 1..Len(s) : s[k] # NodeFor(f, m)
           /\ \A c, n : n = (IF NodeFor(f, m) = m + 1 THEN m + 1 ELSE m) /\ OneMore(c, s, NodeFor(f, m))
                        => Apart(c, Others(f), n)
<1> DEFINE i == NodeFor(f, m)
           g == Others(f)
<1>a. i = (IF f = <<>> THEN m + 1 ELSE Seqs!Last(f)) /\ g = (IF f = <<>> THEN f ELSE Seqs!Front(f))
  BY DEF NodeFor, Others
<1> SUFFICES /\ i \in 1 .. m + 1 /\ (i = m + 1 <=> f = <<>>)
             /\ \A k \in 1..Len(s) : s[k] # i
             /\ \A c, n : n = (IF i = m + 1 THEN m + 1 ELSE m) /\ OneMore(c, s, i) => Apart(c, g, n)
  OBVIOUS
<1> HIDE DEF i, g
<1>0. f \in Seq(1..m) /\ \A k \in 1..Len(s) : s[k] \in 1..m
  BY DEF Apart
<1>1. CASE f = <<>>
  <2>1. i = m + 1 /\ g = <<>> /\ Len(g) = 0
    BY <1>a, <1>1
  <2>2. \A k \in 1..Len(s) : s[k] # i
    BY <1>0, <2>1
  <2>3. ASSUME NEW c, NEW n, n = m + 1, OneMore(c, s, i) PROVE Apart(c, g, n)
    <3>1. g \in Seq(1..n)
      BY <2>1, EmptySeq
    <3>2. ASSUME NEW x \in 1..n PROVE In(c, x)
      <4>1. ASSUME x # i PROVE In(s, x)
        <5>1. x \in 1..m
          BY <2>1, <2>3, <4>1
        <5>2. ~In(f, x)
          BY <1>1 DEF In
        <5> QED BY <5>1, <5>2 DEF Apart
      <4> QED BY <2>3, <4>1 DEF OneMore
    <3>3. \A x : ~In(g, x)
      BY <2>1 DEF In
    <3> QED BY <2>1, <3>1, <3>2, <3>3 DEF Apart
  <2> QED BY <1>1, <2>1, <2>2, <2>3
<1>2. CASE f # <<>>
  <2>1. Len(f) \in Nat /\ Len(f) # 0
    BY <1>0, <1>2, EmptySeq
  <2>2. i = f[Len(f)] /\ g = SubSeq(f, 1, Len(f) - 1)
    BY <1>a, <1>2 DEF Seqs!Last, Seqs!Front
  <2>3. i \in 1..m /\ In(f, i) /\ ~In(s, i) /\ Len(f) \in 1..Len(f)
    <3>1. Len(f) \in 1..Len(f)
      BY <2>1
    <3>2. i \in 1..m /\ In(f, i)
      BY <1>0, <2>2, <3>1 DEF In
    <3> QED BY <3>1, <3>2 DEF Apart
  <2>4. /\ g \in Seq(1..m) /\ Len(g) = Len(f) - 1
        /\ \A k \in 1 .. Len(f) - 1 : g[k] = f[k]
    <3>0. Len(f) - 1 \in Nat
      BY <2>1
    <3>1. PICK l \in Nat : l = Len(f) - 1
      BY <3>0
    <3>2. \A k \in 1..l : f[k] \in 1..m
      BY <1>0, <2>1, <3>1
    <3>3. g = [k \in 1..l |-> f[k]]
      BY <1>0, <2>1, <2>2, <3>1
    <3>4. g \in Seq(1..m) /\ Len(g) = l /\ \A k \in 1..l : g[k] = f[k]
      BY <3>2, <3>3
    <3> QED BY <3>1, <3>4
  <2>5. ASSUME NEW x PROVE In(g, x) <=> In(f, x) /\ x # i
    <3>1. ASSUME In(g, x) PROVE In(f, x) /\ x # i
      <4>1. PICK k \in 1..Len(g) : g[k] = x
        BY <3>1 DEF In
      <4>2. k \in 1 .. Len(f) - 1
        BY <2>4, <4>1
      <4>3. k \in 1..Len(f) /\ k # Len(f) /\ f[k] = x
        BY <2>1, <2>4, <4>1, <4>2
      <4> QED BY <2>2, <2>3, <4>3 DEF Apart, In
    <3>2. ASSUME In(f, x), x # i PROVE In(g, x)
      <4>1. PICK k \in 1..Len(f) : f[k] = x
        BY <3>2 DEF In
      <4>2. k \in 1..Len(g) /\ k \in 1 .. Len(f) - 1
        BY <2>1, <2>2, <2>4, <3>2, <4>1
      <4> QED BY <2>4, <4>1, <4>2 DEF In
    <3> QED BY <3>1, <3>2
  <2>6. i # m + 1
    BY <2>3
  <2>7. ASSUME NEW c, NEW n, n = m, OneMore(c, s, i) PROVE Apart(c, g, n)
    <3>1. ASSUME NEW j \in 1..Len(g), NEW k \in 1..Len(g), g[j] = g[k] PROVE j = k
      <4>1. j \in 1 .. Len(f) - 1 /\ k \in 1 .. Len(f) - 1
        BY <2>4
      <4>2. j \in 1..Len(f) /\ k \in 1..Len(f) /\ f[j] = g[j] /\ f[k] = g[k]
        BY <2>1, <2>4, <4>1
      <4> QED BY <3>1, <4>2 DEF Apart
    <3>2. \A x \in 1..m : In(g, x) <=> ~In(c, x)
      BY <2>3, <2>5, <2>7 DEF Apart, OneMore
    <3> QED BY <2>4, <2>7, <3>1, <3>2 DEF Apart
  <2>8. \A k \in 1..Len(s) : s[k] # i
    BY <2>3 DEF In
  <2> QED BY <1>2, <2>3, <2>6, <2>7, <2>8
<1> QED BY <1>1, <1>2

(* The nodes of the list are those of s, in that order.                    *)
ListAs(s) ==
    /\ Chain(s, next, prev)
    /\ vals \in Seq(ListVals) /\ Len(vals) = Len(next)
    /\ lhead = FirstOf(s) /\ ltail = LastOf(s) /\ llen = Len(s)
    /\ Apart(s, lfree, Len(next))

(* No node is lost, none is both free and in the list, and nothing is      *)
(* removed that the code does not look for.                                *)
ListLinked == (refuses \/ ~Abuse) /\ \E s : ListAs(s)

Pairs(s, v) == [k \in 1..Len(s) |-> <<s[k], v[s[k]]>>]
ItemsAlong(n, h, v) == [k \in DOMAIN Along(n, h) |-> <<Along(n, h)[k], v[Along(n, h)[k]]>>]

(* The items of a chain are its nodes with their values.                   *)
LEMMA ItemsAre ==
    ASSUME NEW s, NEW n, NEW p, NEW v, Chain(s, n, p)
    PROVE  ItemsAlong(n, FirstOf(s), v) = Pairs(s, v)
<1>1. n \in Seq(Nat) /\ s \in Seq(1..Len(n)) /\ Len(n) \in Nat /\ \A j, k \in 1..Len(s) : s[j] = s[k] => j = k
  BY NodeOf DEF Chain
<1>2. Len(s) <= Len(n)
  BY <1>1, NoLonger
<1>3. \A k \in 1..Len(s) : n[s[k]] = IF k = Len(s) THEN None ELSE s[k + 1]
  BY DEF Chain, After
<1>4. FirstOf(s) = IF s = <<>> THEN None ELSE s[1]
  BY DEF FirstOf
<1>5. Along(n, FirstOf(s)) = s
  BY <1>1, <1>2, <1>3, <1>4, Meets
<1>6. DOMAIN s = 1..Len(s)
  BY <1>1
<1> QED BY <1>5, <1>6 DEF ItemsAlong, Pairs

(* What Items is of a list whose nodes are s.                              *)
LEMMA ItemsOf ==
    ASSUME NEW s, ListAs(s)
    PROVE  /\ Items = Pairs(s, vals)
           /\ Len(s) \in Nat /\ Len(Items) = Len(s) /\ DOMAIN Items = 1..Len(s)
           /\ \A k \in 1..Len(s) : Items[k] = <<s[k], vals[s[k]]>> /\ Items[k][1] = s[k] /\ Items[k][2] = vals[s[k]]
<1>1. Items = Pairs(s, vals)
  BY ItemsAre DEF Items, ItemsAlong, ListAs
<1>2. Len(s) \in Nat
  BY NodeOf DEF ListAs
<1>3. DOMAIN Items = 1..Len(s) /\ Len(Items) = Len(s)
  BY <1>1, <1>2 DEF Pairs
<1>4. \A k \in 1..Len(s) : Items[k] = <<s[k], vals[s[k]]>>
  BY <1>1 DEF Pairs
<1> QED BY <1>1, <1>2, <1>3, <1>4

(* The same after a step.                                                  *)
LEMMA ItemsBecome ==
    ASSUME NEW s, ListAs(s)'
    PROVE  Items' = Pairs(s, vals')
<1>1. Chain(s, next', prev') /\ lhead' = FirstOf(s)
  BY DEF ListAs
<1>2. ItemsAlong(next', lhead', vals') = Pairs(s, vals')
  BY <1>1, ItemsAre
<1> QED BY <1>2 DEF Items, ItemsAlong

(* The handles in use are the nodes of the list.                           *)
LEMMA MembersAre ==
    ASSUME NEW s, ListAs(s)
    PROVE  \A x : x \in SequenceSpec!Members <=> In(s, x)
BY ItemsOf DEF SequenceSpec!Members, In

(* A call that takes the node at q out.                                    *)
LEMMA TakesOut ==
    ASSUME NEW s, ListAs(s), NEW q \in 1..Len(s), NEW op, NEW a,
           next' = SetAt(next, Before(s, q), After(s, q)),
           prev' = SetAt(prev, After(s, q), Before(s, q)),
           lhead' = IF q = 1 THEN After(s, q) ELSE lhead,
           ltail' = IF q = Len(s) THEN Before(s, q) ELSE ltail,
           lfree' = Append(lfree, s[q]), llen' = llen - 1, vals' = vals,
           llast' = <<op, a, vals[s[q]]>>
    PROVE  ListAs(Cut(s, q))' /\ SequenceSpec!Take(op, a, s[q])
<1> DEFINE c == Cut(s, q)
           m == Len(next)
<1>1. Chain(s, next, prev) /\ lhead = FirstOf(s) /\ ltail = LastOf(s) /\ Apart(s, lfree, m)
  BY DEF ListAs
<1>2. /\ Chain(c, next', prev')
      /\ FirstOf(c) = IF q = 1 THEN After(s, q) ELSE FirstOf(s)
      /\ LastOf(c) = IF q = Len(s) THEN Before(s, q) ELSE LastOf(s)
  BY <1>1, Unlinked
<1>3. s \in Seq(1..m) /\ m \in Nat /\ Len(s) \in Nat /\ \A j, k \in 1..Len(s) : s[j] = s[k] => j = k
  BY <1>1, NodeOf DEF Chain
<1>4. /\ Len(c) = Len(s) - 1
      /\ \A k \in 1 .. Len(s) - 1 : c[k] = IF k < q THEN s[k] ELSE s[k + 1]
  BY <1>3, CutIs
<1>5. Len(next') = m
  <2>1. next \in Seq(Nat) /\ \A k \in 1..Len(s) : s[k] \in Nat
    BY <1>1, NodeOf DEF Chain
  <2>2. q = Len(s) \/ q + 1 \in 1..Len(s)
    BY <1>3
  <2>3. After(s, q) \in Nat
    BY <2>1, <2>2 DEF After, None
  <2> QED BY <2>1, <2>3, SetAtIs
<1>6. Apart(c, lfree', m)
  BY <1>1, <1>3, FreedApart
<1>7. ListAs(c)'
  <2> HIDE DEF c
  <2> QED BY <1>1, <1>2, <1>4, <1>5, <1>6 DEF ListAs
<1>8. Items' = Pairs(c, vals)
  BY <1>7, ItemsBecome
<1>9. Pairs(c, vals) = [k \in 1 .. Len(Items) - 1 |-> Items[IF k < q THEN k ELSE k + 1]]
  <2>1. /\ Len(Items) = Len(s)
        /\ \A k \in 1..Len(s) : Items[k] = <<s[k], vals[s[k]]>>
    BY ItemsOf
  <2>2. ASSUME NEW k \in 1 .. Len(s) - 1
        PROVE  <<c[k], vals[c[k]]>> = Items[IF k < q THEN k ELSE k + 1]
    <3>1. k \in 1..Len(s) /\ k + 1 \in 1..Len(s)
      BY <1>3
    <3> HIDE DEF c
    <3> QED BY <1>4, <2>1, <3>1
  <2> HIDE DEF c
  <2> QED BY <1>4, <2>1, <2>2 DEF Pairs
<1>10. q \in DOMAIN Items /\ Items[q][1] = s[q] /\ Items[q][2] = vals[s[q]]
  BY ItemsOf
<1> HIDE DEF c
<1>11. SequenceSpec!Take(op, a, s[q])
  BY <1>8, <1>9, <1>10 DEF SequenceSpec!Take
<1> QED BY <1>7, <1>11 DEF c

(* The node of a push.                                                     *)
LEMMA NodeTaken ==
    ASSUME NEW s, ListAs(s), NEW i, i = AllocNode, TakesNode, NEW v \in ListVals
    PROVE  /\ i \in 1 .. Len(next) + 1
           /\ \A k \in 1..Len(s) : s[k] # i
           /\ \A c, n : Len(n) = (IF i = Len(next) + 1 THEN Len(next) + 1 ELSE Len(next))
                            /\ OneMore(c, s, i)
                        => Apart(c, lfree', Len(n))
           /\ Put(vals, i, v) \in Seq(ListVals)
           /\ Len(Put(vals, i, v)) = (IF i = Len(next) + 1 THEN Len(next) + 1 ELSE Len(next))
           /\ \A k \in 1..Len(s) : Put(vals, i, v)[s[k]] = vals[s[k]]
           /\ Put(vals, i, v)[i] = v
<1> DEFINE m == Len(next)
<1>1. /\ m \in Nat /\ s \in Seq(1..m) /\ Apart(s, lfree, m) /\ vals \in Seq(ListVals) /\ Len(vals) = m
      /\ \A k \in 1..Len(s) : s[k] \in 1..m
  BY NodeOf DEF ListAs, Chain
<1>2. i = NodeFor(lfree, m) /\ lfree' = Others(lfree)
  BY <1>1 DEF AllocNode, TakesNode, NodeFor, Others
<1> HIDE DEF m
<1>4. /\ i \in 1 .. m + 1
      /\ \A k \in 1..Len(s) : s[k] # i
      /\ \A c, n : n = (IF i = m + 1 THEN m + 1 ELSE m) /\ OneMore(c, s, i) => Apart(c, lfree', n)
  <2>1. /\ NodeFor(lfree, m) \in 1 .. m + 1
        /\ \A k \in 1..Len(s) : s[k] # NodeFor(lfree, m)
        /\ \A c, n : n = (IF NodeFor(lfree, m) = m + 1 THEN m + 1 ELSE m) /\ OneMore(c, s, NodeFor(lfree, m))
                     => Apart(c, Others(lfree), n)
    BY <1>1, TakenApart
  <2> QED BY <1>2, <2>1
<1>5. /\ Put(vals, i, v) \in Seq(ListVals)
      /\ Len(Put(vals, i, v)) = IF i = m + 1 THEN m + 1 ELSE m
      /\ \A j \in 1..m : j # i => Put(vals, i, v)[j] = vals[j]
      /\ Put(vals, i, v)[i] = v
  <2>1. i \in 1 .. Len(vals) + 1 /\ vals \in Seq(ListVals)
    BY <1>1, <1>4
  <2>2. Put(vals, i, v) \in Seq(ListVals) /\ Put(vals, i, v)[i] = v
    BY <2>1, PutIs
  <2>3. Len(Put(vals, i, v)) = IF i = Len(vals) + 1 THEN Len(vals) + 1 ELSE Len(vals)
    BY <2>1, PutIs
  <2>4. \A j \in 1..Len(vals) : j # i => Put(vals, i, v)[j] = vals[j]
    BY <2>1, PutIs
  <2> QED BY <1>1, <2>2, <2>3, <2>4
<1> QED BY <1>1, <1>4, <1>5 DEF m

(* One more member before the others, or after them.                       *)
LEMMA PrependIsConcat ==
    ASSUME NEW S, NEW s \in Seq(S), NEW e \in S
    PROVE  <<e>> \o s = Prepended(s, e)
<1> DEFINE a == <<e>>
           b == a \o s
<1>1. a \in Seq(S) /\ Len(a) = 1 /\ a[1] = e /\ Len(s) \in Nat
  OBVIOUS
<1> HIDE DEF a
<1>2. /\ b \in Seq(S) /\ Len(b) = 1 + Len(s)
      /\ \A k \in 1 .. 1 + Len(s) : b[k] = IF k <= 1 THEN a[k] ELSE s[k - 1]
  <2>1. b \in Seq(S) /\ Len(b) = Len(a) + Len(s)
    BY <1>1, ConcatProperties
  <2>2. \A k \in 1 .. Len(a) + Len(s) : b[k] = IF k <= Len(a) THEN a[k] ELSE s[k - Len(a)]
    BY <1>1, ConcatProperties
  <2> HIDE DEF b
  <2> QED BY <1>1, <2>1, <2>2
<1> HIDE DEF b
<1>3. \A k \in 1 .. Len(s) + 1 : b[k] = IF k = 1 THEN e ELSE s[k - 1]
  BY <1>1, <1>2
<1>4. b = [k \in 1 .. Len(s) + 1 |-> b[k]]
  BY <1>1, <1>2
<1> QED BY <1>3, <1>4 DEF Prepended, a, b

(* The items are pairs of a node and a value.                              *)
LEMMA PairsTyped ==
    ASSUME NEW s, ListAs(s)
    PROVE  Items \in Seq(Nat \X ListVals) /\ Len(Items) = Len(s)
<1>1. Items = Pairs(s, vals) /\ Len(s) \in Nat /\ Len(Items) = Len(s)
  BY ItemsOf
<1>2. \A k \in 1..Len(s) : s[k] \in Nat /\ s[k] \in 1..Len(next)
  BY NodeOf DEF ListAs
<1>3. \A j \in 1..Len(next) : vals[j] \in ListVals
  BY DEF ListAs
<1>4. \A k \in 1..Len(s) : <<s[k], vals[s[k]]>> \in Nat \X ListVals
  BY <1>2, <1>3
<1> QED BY <1>1, <1>4 DEF Pairs

(* push_front puts a new member first.                                     *)
LEMMA PushFrontKeeps ==
    ASSUME NEW s, ListAs(s), NEW v \in ListVals, PushFront(v)
    PROVE  (\E c : ListAs(c)') /\ SequenceSpec!Push(v)
<1>0. PICK i : i = AllocNode
  OBVIOUS
<1> DEFINE c == Prepended(s, i)
           m == Len(next)
<1>1. /\ Chain(s, next, prev) /\ lhead = FirstOf(s) /\ ltail = LastOf(s) /\ llen = Len(s)
      /\ s \in Seq(1..m) /\ m \in Nat /\ Len(s) \in Nat /\ next \in Seq(Nat)
  BY NodeOf DEF ListAs, Chain
<1>2. /\ i <= MaxNodes /\ TakesNode
      /\ vals' = Put(vals, i, v) /\ next' = Put(next, i, FirstOf(s))
      /\ prev' = SetAt(Put(prev, i, None), FirstOf(s), i)
      /\ lhead' = i /\ ltail' = (IF FirstOf(s) = None THEN i ELSE LastOf(s))
      /\ llen' = Len(s) + 1 /\ llast' = <<"push_front", v, i>> /\ refuses' = refuses
  BY <1>0, <1>1 DEF PushFront
<1>3. /\ i \in 1 .. m + 1
      /\ \A k \in 1..Len(s) : s[k] # i
      /\ \A d, n : Len(n) = (IF i = m + 1 THEN m + 1 ELSE m)
                       /\ OneMore(d, s, i)
                   => Apart(d, lfree', Len(n))
      /\ vals' \in Seq(ListVals)
      /\ Len(vals') = (IF i = m + 1 THEN m + 1 ELSE m)
      /\ \A k \in 1..Len(s) : vals'[s[k]] = vals[s[k]]
      /\ vals'[i] = v
  BY <1>0, <1>2, NodeTaken
<1>4. Chain(c, next', prev') /\ FirstOf(c) = i /\ LastOf(c) = IF FirstOf(s) = None THEN i ELSE LastOf(s)
  BY <1>1, <1>2, <1>3, LinkedBefore
<1>5. Len(next') = IF i = m + 1 THEN m + 1 ELSE m
  <2>1. FirstOf(s) \in Nat
    <3>1. s = <<>> \/ 1 \in 1..Len(s)
      BY <1>1, NodeOf
    <3> QED BY <1>1, <3>1, NodeOf DEF FirstOf, None
  <2> QED BY <1>1, <1>2, <1>3, <2>1, PutIs
<1>6. s \in Seq(Nat) /\ i \in Nat
  BY <1>1, <1>3, SeqMonotonic
<1>7. Len(c) = Len(s) + 1 /\ c[1] = i /\ \A k \in 1..Len(s) : c[k + 1] = s[k]
  <2>1. Len(c) = Len(s) + 1 /\ c[1] = i
    BY <1>6, PrependedIs
  <2>2. ASSUME NEW k \in 1..Len(s) PROVE c[k + 1] = s[k]
    <3>1. k + 1 \in 1 .. Len(s) + 1 /\ k + 1 # 1 /\ (k + 1) - 1 = k
      BY <1>1
    <3> QED BY <3>1 DEF Prepended
  <2> QED BY <2>1, <2>2
<1>8. OneMore(c, s, i)
  BY <1>6, PrependedIn DEF OneMore
<1>9. ListAs(c)'
  <2>1. Apart(c, lfree', Len(next'))
    BY <1>3, <1>5, <1>8
  <2> HIDE DEF c
  <2> QED BY <1>2, <1>3, <1>4, <1>5, <1>7, <2>1 DEF ListAs
<1>10. Items' = Pairs(c, vals')
  <2> HIDE DEF c
  <2> QED BY <1>9, ItemsBecome
<1>11. Pairs(c, vals') = <<<<i, v>>>> \o Items
  <2>1. Items = Pairs(s, vals) /\ Len(Items) = Len(s)
    BY ItemsOf
  <2>2. <<<<i, v>>>> \o Items = Prepended(Items, <<i, v>>)
    <3>1. Items \in Seq(Nat \X ListVals) /\ <<i, v>> \in Nat \X ListVals
      BY <1>6, PairsTyped
    <3> QED BY <3>1, PrependIsConcat
  <2>3. Prepended(Items, <<i, v>>) = [k \in 1 .. Len(s) + 1 |-> IF k = 1 THEN <<i, v>> ELSE Items[k - 1]]
    BY <2>1 DEF Prepended
  <2>4. ASSUME NEW k \in 1 .. Len(s) + 1
        PROVE  <<c[k], vals'[c[k]]>> = IF k = 1 THEN <<i, v>> ELSE Items[k - 1]
    <3>1. CASE k = 1
      BY <1>3, <1>7, <3>1
    <3>2. CASE k # 1
      <4>1. k - 1 \in 1..Len(s) /\ (k - 1) + 1 = k
        BY <1>1, <3>2
      <4>2. c[k] = s[k - 1] /\ vals'[s[k - 1]] = vals[s[k - 1]]
        BY <1>3, <1>7, <4>1
      <4> QED BY <2>1, <3>2, <4>1, <4>2 DEF Pairs
    <3> QED BY <3>1, <3>2
  <2>5. Pairs(c, vals') = [k \in 1 .. Len(s) + 1 |-> <<c[k], vals'[c[k]]>>]
    BY <1>7 DEF Pairs
  <2> HIDE DEF c
  <2> QED BY <2>2, <2>3, <2>4, <2>5
<1>12. i \in 1..MaxNodes /\ i \notin SequenceSpec!Members
  <2>1. ~In(s, i)
    BY <1>3 DEF In
  <2> QED BY <1>2, <1>3, <1>1, <2>1, MembersAre, ListAssumption
<1> HIDE DEF c
<1>13. SequenceSpec!Push(v)
  BY <1>2, <1>10, <1>11, <1>12 DEF SequenceSpec!Push
<1> QED BY <1>9, <1>13
(* push_back puts a new member last.                                       *)
LEMMA PushBackKeeps ==
    ASSUME NEW s, ListAs(s), NEW v \in ListVals, PushBack(v)
    PROVE  (\E c : ListAs(c)') /\ SequenceSpec!Push(v)
<1>0. PICK i : i = AllocNode
  OBVIOUS
<1> DEFINE c == Append(s, i)
           m == Len(next)
<1>1. /\ Chain(s, next, prev) /\ lhead = FirstOf(s) /\ ltail = LastOf(s) /\ llen = Len(s)
      /\ s \in Seq(1..m) /\ m \in Nat /\ Len(s) \in Nat /\ next \in Seq(Nat)
  BY NodeOf DEF ListAs, Chain
<1>2. /\ i <= MaxNodes /\ TakesNode
      /\ vals' = Put(vals, i, v) /\ prev' = Put(prev, i, LastOf(s))
      /\ next' = SetAt(Put(next, i, None), LastOf(s), i)
      /\ ltail' = i /\ lhead' = (IF LastOf(s) = None THEN i ELSE FirstOf(s))
      /\ llen' = Len(s) + 1 /\ llast' = <<"push_back", v, i>> /\ refuses' = refuses
  BY <1>0, <1>1 DEF PushBack
<1>3. /\ i \in 1 .. m + 1
      /\ \A k \in 1..Len(s) : s[k] # i
      /\ \A d, n : Len(n) = (IF i = m + 1 THEN m + 1 ELSE m)
                       /\ OneMore(d, s, i)
                   => Apart(d, lfree', Len(n))
      /\ vals' \in Seq(ListVals)
      /\ Len(vals') = (IF i = m + 1 THEN m + 1 ELSE m)
      /\ \A k \in 1..Len(s) : vals'[s[k]] = vals[s[k]]
      /\ vals'[i] = v
  BY <1>0, <1>2, NodeTaken
<1>4. Chain(c, next', prev') /\ LastOf(c) = i /\ FirstOf(c) = IF LastOf(s) = None THEN i ELSE FirstOf(s)
  BY <1>1, <1>2, <1>3, LinkedAfter
<1>5. Len(next') = IF i = m + 1 THEN m + 1 ELSE m
  <2>1. None \in Nat
    BY DEF None
  <2>2. Put(next, i, None) \in Seq(Nat) /\ Len(Put(next, i, None)) = IF i = m + 1 THEN m + 1 ELSE m
    BY <1>1, <1>3, <2>1, PutIs
  <2>3. i \in Nat
    BY <1>1, <1>3
  <2> QED BY <1>2, <2>2, <2>3, SetAtIs
<1>6. s \in Seq(Nat) /\ i \in Nat
  BY <1>1, <1>3, SeqMonotonic
<1>7. Len(c) = Len(s) + 1 /\ c[Len(s) + 1] = i /\ \A k \in 1..Len(s) : c[k] = s[k]
  BY <1>6, AppendProperties
<1>8. OneMore(c, s, i)
  BY <1>6, AppendedIn DEF OneMore
<1>9. ListAs(c)'
  <2>1. Apart(c, lfree', Len(next'))
    BY <1>3, <1>5, <1>8
  <2> HIDE DEF c
  <2> QED BY <1>2, <1>3, <1>4, <1>5, <1>7, <2>1 DEF ListAs
<1>10. Items' = Pairs(c, vals')
  <2> HIDE DEF c
  <2> QED BY <1>9, ItemsBecome
<1>11. Pairs(c, vals') = Items \o <<<<i, v>>>>
  <2>1. Items = Pairs(s, vals) /\ Len(Items) = Len(s)
    BY ItemsOf
  <2> DEFINE d == Append(Items, <<i, v>>)
  <2>2. Items \in Seq(Nat \X ListVals) /\ <<i, v>> \in Nat \X ListVals
    BY <1>6, PairsTyped
  <2>3. Items \o <<<<i, v>>>> = d
    BY <2>2, AppendIsConcat
  <2>4. /\ d \in Seq(Nat \X ListVals) /\ Len(d) = Len(s) + 1
        /\ d[Len(s) + 1] = <<i, v>> /\ \A k \in 1..Len(s) : d[k] = Items[k]
    BY <2>1, <2>2, AppendProperties
  <2> HIDE DEF d, c
  <2>5. ASSUME NEW k \in 1 .. Len(s) + 1 PROVE <<c[k], vals'[c[k]]>> = d[k]
    <3>1. CASE k = Len(s) + 1
      BY <1>3, <1>7, <2>4, <3>1
    <3>2. CASE k # Len(s) + 1
      <4>1. k \in 1..Len(s)
        BY <1>1, <3>2
      <4>2. c[k] = s[k] /\ vals'[s[k]] = vals[s[k]]
        BY <1>3, <1>7, <4>1
      <4> QED BY <2>1, <2>4, <4>1, <4>2 DEF Pairs
    <3> QED BY <3>1, <3>2
  <2>6. Pairs(c, vals') = [k \in 1 .. Len(s) + 1 |-> <<c[k], vals'[c[k]]>>]
    BY <1>7 DEF Pairs
  <2>7. d = [k \in 1 .. Len(s) + 1 |-> d[k]]
    BY <1>1, <2>4
  <2> QED BY <2>3, <2>5, <2>6, <2>7
<1>12. i \in 1..MaxNodes /\ i \notin SequenceSpec!Members
  <2>1. ~In(s, i)
    BY <1>3 DEF In
  <2> QED BY <1>2, <1>3, <1>1, <2>1, MembersAre, ListAssumption
<1> HIDE DEF c
<1>13. SequenceSpec!Push(v)
  BY <1>2, <1>10, <1>11, <1>12 DEF SequenceSpec!Push
<1> QED BY <1>9, <1>13
(* What changes nothing but the answer.                                    *)
LEMMA NothingKeeps ==
    ASSUME NEW s, ListAs(s), UNCHANGED <<prev, next, vals, lhead, ltail, llen, lfree>>
    PROVE  ListAs(s)' /\ Items' = Items
<1>1. ListAs(s)'
  BY DEF ListAs
<1>2. Items' = Items
  BY DEF Items
<1> QED BY <1>1, <1>2

(* pop_front takes the first member, if there is one.                      *)
LEMMA PopFrontKeeps ==
    ASSUME NEW s, ListAs(s), PopFront
    PROVE  (\E c : ListAs(c)') /\ SequenceSpec!Pop
<1>1. /\ Chain(s, next, prev) /\ lhead = FirstOf(s) /\ ltail = LastOf(s)
      /\ Len(s) \in Nat /\ (s = <<>> <=> Len(s) = 0)
      /\ next \in Seq(Nat) /\ prev \in Seq(Nat)
      /\ \A k \in 1..Len(s) : s[k] # None /\ s[k] \in Nat
  BY NodeOf DEF ListAs, Chain
<1>2. Len(Items) = Len(s) /\ (Items = <<>> <=> s = <<>>)
  BY <1>1, ItemsOf, PairsTyped, EmptySeq
<1>3. CASE lhead = None
  <2>1. s = <<>>
    <3>1. s # <<>> => 1 \in 1..Len(s)
      BY <1>1
    <3> QED BY <1>1, <1>3, <3>1 DEF FirstOf
  <2>2. Nothing("pop_front", "null")
    BY <1>3 DEF PopFront
  <2>3. ListAs(s)' /\ Items' = Items
    BY <2>2, NothingKeeps DEF Nothing, listNodes
  <2>4. SequenceSpec!Misses("pop_front", "null")
    BY <2>2, <2>3 DEF SequenceSpec!Misses, Nothing
  <2> QED BY <1>2, <2>1, <2>3, <2>4 DEF SequenceSpec!Pop
<1>4. CASE lhead # None
  <2>1. s # <<>> /\ 1 \in 1..Len(s) /\ lhead = s[1]
    BY <1>1, <1>4 DEF FirstOf
  <2>2. next[lhead] = After(s, 1) /\ Before(s, 1) = None
    BY <1>1, <2>1 DEF Chain, Before
  <2>3. After(s, 1) = None <=> Len(s) = 1
    <3>1. PICK n \in Nat : n = Len(s) /\ n # 0
      BY <1>1, <2>1
    <3>2. n = 1 \/ 1 + 1 \in 1..n
      BY <3>1
    <3> QED BY <1>1, <3>1, <3>2 DEF After
  <2>4. SetAt(next, None, After(s, 1)) = next
    <3>1. None \notin DOMAIN next
      BY <1>1 DEF None
    <3> QED BY <3>1 DEF SetAt
  <2>5. /\ next' = SetAt(next, Before(s, 1), After(s, 1))
        /\ prev' = SetAt(prev, After(s, 1), Before(s, 1))
        /\ lhead' = After(s, 1)
        /\ ltail' = (IF 1 = Len(s) THEN Before(s, 1) ELSE ltail)
        /\ lfree' = Append(lfree, s[1]) /\ llen' = llen - 1 /\ vals' = vals
        /\ llast' = <<"pop_front", "null", vals[s[1]]>>
    BY <1>4, <2>1, <2>2, <2>3, <2>4 DEF PopFront
  <2>6. ListAs(Cut(s, 1))' /\ SequenceSpec!Take("pop_front", "null", s[1])
    BY <2>1, <2>5, TakesOut
  <2>7. Items # <<>> /\ Items[1][1] = s[1]
    BY <1>2, <2>1, ItemsOf
  <2> QED BY <2>6, <2>7 DEF SequenceSpec!Pop
<1> QED BY <1>3, <1>4

(* pop_back takes the last member, if there is one.                        *)
LEMMA PopBackKeeps ==
    ASSUME NEW s, ListAs(s), PopBack
    PROVE  (\E c : ListAs(c)') /\ SequenceSpec!Pop
<1> DEFINE l == Len(s)
<1>1. /\ Chain(s, next, prev) /\ lhead = FirstOf(s) /\ ltail = LastOf(s)
      /\ l \in Nat /\ (s = <<>> <=> l = 0)
      /\ next \in Seq(Nat) /\ prev \in Seq(Nat)
      /\ \A k \in 1..l : s[k] # None /\ s[k] \in Nat
  BY NodeOf DEF ListAs, Chain
<1>2. Len(Items) = l /\ (Items = <<>> <=> s = <<>>)
  BY <1>1, ItemsOf, PairsTyped, EmptySeq
<1>3. CASE ltail = None
  <2>1. s = <<>>
    <3>1. s # <<>> => l \in 1..l
      BY <1>1
    <3> QED BY <1>1, <1>3, <3>1 DEF LastOf
  <2>2. Nothing("pop_back", "null")
    BY <1>3 DEF PopBack
  <2>3. ListAs(s)' /\ Items' = Items
    BY <2>2, NothingKeeps DEF Nothing, listNodes
  <2>4. SequenceSpec!Misses("pop_back", "null")
    BY <2>2, <2>3 DEF SequenceSpec!Misses, Nothing
  <2> QED BY <1>2, <2>1, <2>3, <2>4 DEF SequenceSpec!Pop
<1>4. CASE ltail # None
  <2>1. s # <<>> /\ l \in 1..l /\ ltail = s[l]
    BY <1>1, <1>4 DEF LastOf
  <2>2. prev[ltail] = Before(s, l) /\ After(s, l) = None
    BY <1>1, <2>1 DEF Chain, After
  <2>3. Before(s, l) = None <=> l = 1
    <3>1. PICK n \in Nat : n = l /\ n # 0
      BY <1>1, <2>1
    <3>2. n = 1 \/ n - 1 \in 1..n
      BY <3>1
    <3> QED BY <1>1, <3>1, <3>2 DEF Before
  <2>4. SetAt(prev, None, Before(s, l)) = prev
    <3>1. None \notin DOMAIN prev
      BY <1>1 DEF None
    <3> QED BY <3>1 DEF SetAt
  <2>5. /\ next' = SetAt(next, Before(s, l), After(s, l))
        /\ prev' = SetAt(prev, After(s, l), Before(s, l))
        /\ lhead' = (IF l = 1 THEN After(s, l) ELSE lhead)
        /\ ltail' = Before(s, l)
        /\ lfree' = Append(lfree, s[l]) /\ llen' = llen - 1 /\ vals' = vals
        /\ llast' = <<"pop_back", "null", vals[s[l]]>>
    BY <1>4, <2>1, <2>2, <2>3, <2>4 DEF PopBack
  <2>6. ListAs(Cut(s, l))' /\ SequenceSpec!Take("pop_back", "null", s[l])
    BY <2>1, <2>5, TakesOut
  <2>7. Items # <<>> /\ Items[Len(Items)][1] = s[l]
    BY <1>2, <2>1, ItemsOf
  <2> QED BY <2>6, <2>7 DEF SequenceSpec!Pop
<1> QED BY <1>3, <1>4

(* remove takes the member of its handle, and nothing for another.         *)
LEMMA RemoveKeeps ==
    ASSUME NEW s, ListAs(s), refuses \/ ~Abuse, NEW i \in 1..MaxNodes, Remove(i)
    PROVE  (\E c : ListAs(c)') /\ SequenceSpec!Remove(i)
<1>1. /\ Chain(s, next, prev) /\ lhead = FirstOf(s) /\ ltail = LastOf(s) /\ Apart(s, lfree, Len(next))
      /\ Len(s) \in Nat /\ (s = <<>> <=> Len(s) = 0) /\ DOMAIN vals = 1..Len(next)
      /\ \A k \in 1..Len(s) : s[k] # None /\ s[k] \in 1..Len(next)
      /\ \A j, k \in 1..Len(s) : s[j] = s[k] => j = k
  <2>1. Chain(s, next, prev) /\ lhead = FirstOf(s) /\ ltail = LastOf(s) /\ Apart(s, lfree, Len(next))
    BY DEF ListAs
  <2>2. DOMAIN vals = 1..Len(next)
    BY DEF ListAs
  <2>3. /\ Len(s) \in Nat /\ (s = <<>> <=> Len(s) = 0)
        /\ \A k \in 1..Len(s) : s[k] # None /\ s[k] \in 1..Len(next)
    BY <2>1, NodeOf
  <2>4. \A j, k \in 1..Len(s) : s[j] = s[k] => j = k
    BY <2>1 DEF Chain
  <2> QED BY <2>1, <2>2, <2>3, <2>4
<1>2. Freed(i) <=> In(lfree, i)
  <2>1. DOMAIN lfree = 1..Len(lfree)
    BY <1>1 DEF Apart
  <2> QED BY <2>1 DEF Freed, In
<1>3. NodeExists(i) <=> In(s, i)
  <2>1. i \in DOMAIN vals => (In(lfree, i) <=> ~In(s, i))
    BY <1>1 DEF Apart
  <2>2. In(s, i) => i \in DOMAIN vals
    BY <1>1 DEF In
  <2>3. Abuse \/ refuses \/ ~Freed(i)
    BY DEF Remove
  <2> QED BY <1>2, <2>1, <2>2, <2>3 DEF NodeExists
<1>4. i \in SequenceSpec!Members <=> In(s, i)
  BY MembersAre
<1>5. CASE ~In(s, i)
  <2>1. Nothing("remove", i)
    BY <1>3, <1>5 DEF Remove
  <2>2. ListAs(s)' /\ Items' = Items
    BY <2>1, NothingKeeps DEF Nothing, listNodes
  <2>3. SequenceSpec!Misses("remove", i)
    BY <2>1, <2>2 DEF SequenceSpec!Misses, Nothing
  <2> QED BY <1>4, <1>5, <2>2, <2>3 DEF SequenceSpec!Remove
<1>6. CASE In(s, i)
  <2>1. PICK q \in 1..Len(s) : s[q] = i
    BY <1>6 DEF In
  <2>2. next[i] = After(s, q) /\ prev[i] = Before(s, q)
    BY <1>1, <2>1 DEF Chain
  <2>3. After(s, q) = None <=> q = Len(s)
    <3>1. q = Len(s) \/ q + 1 \in 1..Len(s)
      BY <1>1, <2>1
    <3> QED BY <1>1, <3>1 DEF After
  <2>4. Before(s, q) = None <=> q = 1
    <3>1. q = 1 \/ q - 1 \in 1..Len(s)
      BY <1>1, <2>1
    <3> QED BY <1>1, <3>1 DEF Before
  <2>5. /\ next' = SetAt(next, Before(s, q), After(s, q))
        /\ prev' = SetAt(prev, After(s, q), Before(s, q))
        /\ lhead' = (IF q = 1 THEN After(s, q) ELSE lhead)
        /\ ltail' = (IF q = Len(s) THEN Before(s, q) ELSE ltail)
        /\ lfree' = Append(lfree, s[q]) /\ llen' = llen - 1 /\ vals' = vals
        /\ llast' = <<"remove", i, vals[s[q]]>>
    BY <1>3, <1>6, <2>1, <2>2, <2>3, <2>4 DEF Remove
  <2>6. ListAs(Cut(s, q))' /\ SequenceSpec!Take("remove", i, s[q])
    BY <2>5, TakesOut
  <2> QED BY <1>4, <1>6, <2>1, <2>6 DEF SequenceSpec!Remove
<1> QED BY <1>5, <1>6

(* len counts the members.                                                 *)
LEMMA CountKeeps ==
    ASSUME NEW s, ListAs(s), CountList
    PROVE  ListAs(s)' /\ SequenceSpec!Count
<1>1. ListAs(s)' /\ Items' = Items
  BY NothingKeeps DEF CountList, listNodes
<1>2. llen = Len(Items)
  BY ItemsOf DEF ListAs
<1> QED BY <1>1, <1>2 DEF CountList, SequenceSpec!Count

(* A list without nodes.                                                   *)
LEMMA EmptyList ==
    /\ Chain(<<>>, <<>>, <<>>) /\ Apart(<<>>, <<>>, Len(<<>>))
    /\ FirstOf(<<>>) = None /\ LastOf(<<>>) = None /\ Len(<<>>) = 0
    /\ \A v : Pairs(<<>>, v) = <<>>
<1>1. Len(<<>>) = 0 /\ \A S : <<>> \in Seq(S)
  BY EmptySeq
<1>2. 1..Len(<<>>) = {}
  BY <1>1
<1>3. Chain(<<>>, <<>>, <<>>)
  BY <1>1, <1>2 DEF Chain
<1>4. Apart(<<>>, <<>>, Len(<<>>))
  BY <1>1, <1>2 DEF Apart
<1>5. \A v : Pairs(<<>>, v) = <<>>
  BY <1>2 DEF Pairs
<1> QED BY <1>1, <1>3, <1>4, <1>5 DEF FirstOf, LastOf

(* clear takes them all.                                                   *)
LEMMA ClearKeeps == ClearList => ListAs(<<>>)' /\ SequenceSpec!Clear
<1> SUFFICES ASSUME ClearList PROVE ListAs(<<>>)' /\ SequenceSpec!Clear
  OBVIOUS
<1>1. ListAs(<<>>)'
  BY EmptyList, EmptySeq DEF ClearList, ListAs
<1>2. Items' = <<>>
  <2>1. Items' = Pairs(<<>>, vals')
    BY <1>1, ItemsBecome
  <2> QED BY <2>1, EmptyList
<1> QED BY <1>1, <1>2 DEF ClearList, SequenceSpec!Clear

(* A new list is the empty sequence.                                       *)
LEMMA ListInitMaps ==
    ASSUME ~Abuse \/ FALSE \notin Refuses, ListInit
    PROVE  ListLinked /\ SequenceSpec!Init
<1>1. ListAs(<<>>)
  BY EmptyList, EmptySeq DEF ListInit, ListAs
<1>2. Items = <<>>
  BY <1>1, ItemsOf, EmptyList
<1>3. refuses \/ ~Abuse
  BY ListAssumption DEF ListInit
<1> QED BY <1>1, <1>2, <1>3 DEF ListLinked, SequenceSpec!Init, ListInit

(* Every call is a call of the sequence.                                   *)
LEMMA ListStepMaps ==
    ASSUME ListLinked, [ListNext]_listVars
    PROVE  ListLinked' /\ [SequenceSpec!Next]_(SequenceSpec!vars)
<1>1. refuses \/ ~Abuse
  BY DEF ListLinked
<1>2. PICK s : ListAs(s)
  BY DEF ListLinked
<1>3. refuses' = refuses
  BY DEF ListNext, listVars, PushFront, PushBack, PopFront, PopBack, Remove, CountList, ClearList, Nothing
<1> SUFFICES (\E c : ListAs(c)') /\ [SequenceSpec!Next]_(SequenceSpec!vars)
  BY <1>1, <1>3 DEF ListLinked
<1>4. CASE \E v \in ListVals : PushFront(v)
  BY <1>2, <1>4, PushFrontKeeps DEF SequenceSpec!Next
<1>5. CASE \E v \in ListVals : PushBack(v)
  BY <1>2, <1>5, PushBackKeeps DEF SequenceSpec!Next
<1>6. CASE PopFront
  BY <1>2, <1>6, PopFrontKeeps DEF SequenceSpec!Next
<1>7. CASE PopBack
  BY <1>2, <1>7, PopBackKeeps DEF SequenceSpec!Next
<1>8. CASE \E i \in 1..MaxNodes : Remove(i)
  BY <1>1, <1>2, <1>8, RemoveKeeps DEF SequenceSpec!Next
<1>9. CASE CountList
  BY <1>2, <1>9, CountKeeps DEF SequenceSpec!Next
<1>10. CASE ClearList
  BY <1>10, ClearKeeps DEF SequenceSpec!Next
<1>11. CASE UNCHANGED listVars
  <2>1. ListAs(s)' /\ Items' = Items /\ llast' = llast
    BY <1>2, <1>11, NothingKeeps DEF listVars
  <2> QED BY <2>1 DEF SequenceSpec!vars
<1> QED BY <1>4, <1>5, <1>6, <1>7, <1>8, <1>9, <1>10, <1>11 DEF ListNext

(* Through every call the links are those of one sequence of nodes, both ways, *)
(* and each other node is free, once: nothing is lost, nothing is handed out twice. *)
THEOREM NodesAlwaysLinked ==
    ASSUME ~Abuse \/ FALSE \notin Refuses PROVE ListSpec => []ListLinked
<1>1. ListInit => ListLinked
  BY ListInitMaps
<1>2. ListLinked /\ [ListNext]_listVars => ListLinked'
  BY ListStepMaps
<1> QED BY <1>1, <1>2, PTL DEF ListSpec

(* The list of hc::runtime, which refuses what is not in it, is a sequence under *)
(* handles; so is that of the runtimes in a program that removes members only. *)
THEOREM ListImplementsSequence ==
    ASSUME ~Abuse \/ FALSE \notin Refuses PROVE ListSpec => ListIsSequence
<1>1. ListInit => SequenceSpec!Init
  BY ListInitMaps
<1>2. ListLinked /\ [ListNext]_listVars => [SequenceSpec!Next]_(SequenceSpec!vars)
  BY ListStepMaps
<1> QED BY <1>1, <1>2, NodesAlwaysLinked, PTL DEF ListSpec, ListIsSequence, SequenceSpec!Spec

-----------------------------------------------------------------------------
(* A node of N and the one above it, if any.                               *)
Ways(m, N) == [above : 0..m, node : N]

(* What is under the next node is under this one, which is not.            *)
Leads(N, sub, below) ==
    \A a \in N : /\ a \in sub[a]
                 /\ below[a] # NoNode => a \notin sub[below[a]] /\ \A x \in sub[below[a]] : x \in sub[a]
StaysIn(R, below) == \A x \in R : below[x.node] # NoNode => [above |-> x.node, node |-> below[x.node]] \in R

(* A way down that stays in R ends in R, at a node with nothing below: it  *)
(* meets no node twice, and is given as many steps as there are nodes.     *)
LEMMA DownEnds ==
    ASSUME NEW m \in Nat, NEW N \in SUBSET (1..m), NEW below \in [N -> N \cup {NoNode}],
           NEW sub, Leads(N, sub, below), NEW R \in SUBSET Ways(m, N), NEW top \in R, StaysIn(R, below)
    PROVE  Down(m, top, below) \in R /\ below[Down(m, top, below).node] = NoNode
<1> USE DEF Ways, Leads, StaysIn
<1> DEFINE Next1(r) == IF below[r.node] = NoNode THEN r ELSE [above |-> r.node, node |-> below[r.node]]
           F == [n \in 1..m |-> [r \in R |-> Next1(r)]]
<1>1. ASSUME NEW r \in R PROVE Next1(r) \in R
  OBVIOUS
<1>2. F \in [1..m -> [R -> R]]
  <2> HIDE DEF Next1
  <2> QED BY <1>1
<1>3. PICK g : FollowsTo(m, g, R, top, F)
  <2> HIDE DEF F
  <2> QED BY <1>2, RecursTo
<1>4. g \in [0..m -> R] /\ \A n \in 0..m : g[n] = IF n = 0 THEN top ELSE Next1(g[n - 1])
  <2>1. g \in [0..m -> R] /\ \A n \in 0..m : g[n] = IF n = 0 THEN top ELSE F[n][g[n - 1]]
    <3> HIDE DEF F
    <3> QED BY <1>3 DEF FollowsTo
  <2>2. ASSUME NEW n \in 0..m, n # 0 PROVE F[n][g[n - 1]] = Next1(g[n - 1])
    <3>1. n \in 1..m /\ n - 1 \in 0..m
      BY <2>2
    <3>2. g[n - 1] \in R
      <4> HIDE DEF F
      <4> QED BY <2>1, <3>1
    <3> HIDE DEF Next1
    <3> QED BY <3>1, <3>2
  <2> HIDE DEF F, Next1
  <2> QED BY <2>1, <2>2
<1> HIDE DEF F
<1> DEFINE onward == [x \in [above : 0..m, node : DOMAIN below] |->
                         IF below[x.node] = NoNode THEN x ELSE [above |-> x.node, node |-> below[x.node]]]
           f == CHOOSE h : h = [n \in 0..m |-> IF n = 0 THEN top ELSE onward[h[n - 1]]]
<1>5. Down(m, top, below) = f[m]
  BY DEF Down
<1>6. ASSUME NEW r \in R PROVE onward[r] = Next1(r)
  <2>1. r \in [above : 0..m, node : DOMAIN below]
    OBVIOUS
  <2> QED BY <2>1
<1> HIDE DEF Next1, onward
<1>7. f[0] = top /\ \A n \in 0 .. m - 1 : f[n + 1] = onward[f[n]]
  <2>1. ASSUME NEW n \in 0..m, n # 0 PROVE onward[g[n - 1]] = Next1(g[n - 1])
    <3>1. n - 1 \in 0..m
      BY <2>1
    <3> QED BY <1>4, <1>6, <3>1
  <2>2. g = [n \in 0..m |-> IF n = 0 THEN top ELSE onward[g[n - 1]]]
    BY <1>4, <2>1
  <2>3. f = [n \in 0..m |-> IF n = 0 THEN top ELSE onward[f[n - 1]]]
    BY <2>2
  <2> HIDE DEF f
  <2>4. f[0] = top
    BY <2>3
  <2>5. ASSUME NEW n \in 0 .. m - 1 PROVE f[n + 1] = onward[f[n]]
    <3>1. n + 1 \in 0..m /\ n + 1 # 0 /\ (n + 1) - 1 = n
      OBVIOUS
    <3> QED BY <2>3, <3>1
  <2> QED BY <2>4, <2>5
<1> HIDE DEF f
<1>8. \A n \in 0..m : f[n] \in R
  <2> DEFINE P == {n \in Nat : f[n] \in R}
  <2>1. 0 \in P
    BY <1>7
  <2>2. \A n \in 0 .. m - 1 : n \in P => n + 1 \in P
    BY <1>1, <1>6, <1>7
  <2>3. \A n \in 0..m : n \in P
    <3> HIDE DEF P
    <3> QED BY <2>1, <2>2, InductsTo
  <2> QED BY <2>3
<1>9. \A n \in 0 .. m - 1 : f[n + 1] = Next1(f[n])
  BY <1>6, <1>7, <1>8
<1> SUFFICES ASSUME below[f[m].node] # NoNode PROVE FALSE
  BY <1>5, <1>8
(* it goes on at each step, for where it stops it stays                     *)
<1>10. \A n \in 0..m : below[f[n].node] # NoNode
  <2> SUFFICES ASSUME NEW n \in 0..m, below[f[n].node] = NoNode PROVE FALSE
    OBVIOUS
  <2> DEFINE P == {k \in Nat : f[n + k] = f[n]}
  <2>1. 0 \in P
    OBVIOUS
  <2>2. ASSUME NEW k \in 0 .. (m - n) - 1, k \in P PROVE k + 1 \in P
    <3>1. n + k \in 0 .. m - 1 /\ (n + k) + 1 = n + (k + 1) /\ k + 1 \in Nat
      OBVIOUS
    <3>2. f[n + (k + 1)] = Next1(f[n])
      BY <1>9, <2>2, <3>1
    <3>3. Next1(f[n]) = f[n]
      BY DEF Next1
    <3> QED BY <3>1, <3>2, <3>3
  <2>3. \A k \in 0 .. m - n : k \in P
    <3>1. m - n \in Nat
      OBVIOUS
    <3> HIDE DEF P
    <3> QED BY <2>1, <2>2, <3>1, InductsTo
  <2>4. m - n \in P /\ n + (m - n) = m
    BY <2>3
  <2> QED BY <2>4
<1>11. \A n \in 0 .. m - 1 : f[n + 1].node = below[f[n].node]
  <2> SUFFICES ASSUME NEW n \in 0 .. m - 1 PROVE f[n + 1].node = below[f[n].node]
    OBVIOUS
  <2>1. f[n + 1] = Next1(f[n]) /\ below[f[n].node] # NoNode
    BY <1>9, <1>10
  <2> QED BY <2>1 DEF Next1
<1>12. \A n \in 0..m : f[n].node \in N
  BY <1>8
(* so the nodes met are all different, and one more than there can be       *)
<1>13. ASSUME NEW n \in 0 .. m - 1, NEW q \in n + 1 .. m PROVE f[n].node # f[q].node
  <2> DEFINE b == below[f[n].node]
  <2>1. b \in N /\ f[n + 1].node = b /\ f[n].node \notin sub[b]
    <3>1. n \in 0..m /\ n + 1 \in 0..m
      OBVIOUS
    <3> QED BY <1>10, <1>11, <1>12, <3>1
  <2> HIDE DEF b
  <2> DEFINE Good(k) == f[k].node \in N /\ \A x \in sub[f[k].node] : x \in sub[b]
             Q == {k \in Nat : Good(n + 1 + k)}
  <2>3. 0 \in Q
    BY <2>1
  <2>4. ASSUME NEW k \in 0 .. m - (n + 1) - 1, k \in Q PROVE k + 1 \in Q
    <3>1. n + 1 + k \in 0 .. m - 1 /\ n + 1 + k \in 0..m /\ (n + 1 + k) + 1 = n + 1 + (k + 1) /\ n + 1 + (k + 1) \in 0..m
      OBVIOUS
    <3>2. PICK i \in 0 .. m - 1 : i = n + 1 + k
      BY <3>1
    <3>3. Good(i) /\ i \in 0..m /\ i + 1 \in 0..m
      BY <2>4, <3>1, <3>2
    <3>4. f[i + 1].node = below[f[i].node] /\ below[f[i].node] # NoNode /\ f[i + 1].node \in N /\ f[i].node \in N
      BY <1>10, <1>11, <1>12, <3>3
    <3>5. Good(i + 1)
      BY <3>3, <3>4
    <3> HIDE DEF Good
    <3> QED BY <3>1, <3>2, <3>5
  <2>5. \A k \in 0 .. m - (n + 1) : k \in Q
    <3>1. m - (n + 1) \in Nat
      OBVIOUS
    <3> HIDE DEF Q
    <3> QED BY <2>3, <2>4, <3>1, InductsTo
  <2>6. q - (n + 1) \in 0 .. m - (n + 1) /\ n + 1 + (q - (n + 1)) = q
    OBVIOUS
  <2>7. Good(q)
    <3> HIDE DEF Good
    <3> QED BY <2>5, <2>6
  <2> QED BY <2>1, <2>7
<1> DEFINE s == [k \in 1 .. m + 1 |-> f[k - 1].node]
<1>14. s \in Seq(1..m) /\ Len(s) = m + 1
  <2>1. ASSUME NEW k \in 1 .. m + 1 PROVE f[k - 1].node \in 1..m
    <3>1. k - 1 \in 0..m
      OBVIOUS
    <3> QED BY <1>12, <3>1
  <2>2. s \in [1 .. m + 1 -> 1..m] /\ m + 1 \in Nat
    BY <2>1
  <2> HIDE DEF s
  <2> QED BY <2>2
<1>15. ASSUME NEW j \in 1..Len(s), NEW k \in 1..Len(s), j # k PROVE s[j] # s[k]
  <2>1. j \in 1 .. m + 1 /\ k \in 1 .. m + 1 /\ s[j] = f[j - 1].node /\ s[k] = f[k - 1].node
    BY <1>14
  <2> HIDE DEF s
  <2>2. CASE j < k
    <3>1. j - 1 \in 0 .. m - 1 /\ k - 1 \in (j - 1) + 1 .. m
      BY <2>1, <2>2
    <3> QED BY <1>13, <2>1, <3>1
  <2>3. CASE k < j
    <3>1. k - 1 \in 0 .. m - 1 /\ j - 1 \in (k - 1) + 1 .. m
      BY <2>1, <2>3
    <3> QED BY <1>13, <2>1, <3>1
  <2> QED BY <1>15, <2>1, <2>2, <2>3
<1> HIDE DEF s
<1>16. Len(s) <= m
  BY <1>14, <1>15, NoLonger
<1> QED BY <1>14, <1>16

(* A search tree on the indices N, where sub[a] is what is under a: links  *)
(* stay inside; what is under what is under a is under a;                  *)
LinksInside(n, N) ==
    \A a \in N : /\ n[a].key \in Int
                 /\ n[a].left \in N \cup {NoNode} /\ n[a].right \in N \cup {NoNode}
Nests(N, sub) == \A a \in N : a \in sub[a] /\ \A x \in sub[a] : x \in N /\ \A y \in sub[x] : y \in sub[a]
(* what is under a is a or on the side of its key;                         *)
OnItsSide(n, N, sub) ==
    \A a \in N : \A x \in sub[a] :
        x # a => /\ n[x].key # n[a].key
                 /\ Child(n, a, n[x].key) \in N /\ x \in sub[Child(n, a, n[x].key)]
(* what is under a child is under its parent, and smaller or greater;      *)
Ordered(n, N, sub) ==
    \A a \in N : /\ n[a].left \in N => \A x \in sub[n[a].left] : x \in sub[a] /\ n[x].key < n[a].key
                 /\ n[a].right \in N => \A x \in sub[n[a].right] : x \in sub[a] /\ n[a].key < n[x].key
(* nothing leads into the middle of what is under a;                       *)
IsChild(n, c, b) == n[b].left = c \/ n[b].right = c
ByParents(n, N, sub) ==
    \A a \in N : \A c \in sub[a] : \A b \in N : c # a /\ IsChild(n, c, b) => b \in sub[a]
(* and everything is under the root.                                       *)
Rooted(N, r, sub) == IF r = NoNode THEN N = {} ELSE r \in N /\ \A x \in N : x \in sub[r]

TreeAs(n, N, r, sub) ==
    /\ NoNode \notin N
    /\ LinksInside(n, N) /\ Nests(N, sub) /\ OnItsSide(n, N, sub) /\ Ordered(n, N, sub)
    /\ ByParents(n, N, sub) /\ Rooted(N, r, sub)

(* Of two nodes only one is under the other.                               *)
LEMMA NotUnderEachOther ==
    ASSUME NEW n, NEW N, NEW r, NEW sub, TreeAs(n, N, r, sub), NEW a \in N, NEW x \in sub[a], a \in sub[x]
    PROVE  a = x
<1> SUFFICES ASSUME a # x PROVE FALSE
  OBVIOUS
<1> DEFINE c == Child(n, a, n[x].key)
<1>1. c \in N /\ x \in sub[c] /\ n[x].key # n[a].key
  BY DEF TreeAs, OnItsSide
<1>2. a \in sub[c]
  BY <1>1 DEF TreeAs, Nests
<1>3. c = n[a].left \/ c = n[a].right
  BY DEF Child
<1> HIDE DEF c
<1>4. n[a].key \in Int
  BY DEF TreeAs, LinksInside
<1> QED BY <1>1, <1>2, <1>3, <1>4 DEF TreeAs, Ordered

(* A child is no root, is not under what is not its parent's, and has one  *)
(* parent.                                                                 *)
LEMMA OneParent ==
    ASSUME NEW n, NEW N, NEW r, NEW sub, TreeAs(n, N, r, sub), NEW c \in N, NEW a \in N, IsChild(n, c, a)
    PROVE  /\ c # r /\ c # a /\ c \in sub[a] /\ a \notin sub[c]
           /\ \A b \in N : IsChild(n, c, b) => b = a
<1>1. ASSUME NEW b \in N, IsChild(n, c, b) PROVE c # b /\ c \in sub[b] /\ b \notin sub[c]
  <2>1. c \in sub[c]
    BY DEF TreeAs, Nests
  <2>2. c \in sub[b] /\ (n[c].key < n[b].key \/ n[b].key < n[c].key)
    BY <1>1, <2>1 DEF TreeAs, Ordered, IsChild
  <2>3. c # b
    BY <2>2 DEF TreeAs, LinksInside
  <2> QED BY <2>2, <2>3, NotUnderEachOther
<1>2. c # r
  <2> SUFFICES ASSUME c = r PROVE FALSE
    OBVIOUS
  <2>1. a \in sub[c]
    BY DEF TreeAs, Rooted
  <2> QED BY <1>1, <2>1
<1>3. ASSUME NEW b \in N, IsChild(n, c, b) PROVE b = a
  <2>1. b \in sub[a]
    BY <1>1, <1>3 DEF TreeAs, ByParents
  <2>2. a \in sub[b]
    BY <1>1, <1>3 DEF TreeAs, ByParents
  <2> QED BY <2>1, <2>2, NotUnderEachOther
<1> QED BY <1>1, <1>2, <1>3

(* Where a search for k may be: all it passed by told it the way.          *)
Fits(n, N, r, sub, k, x) ==
    /\ \A j \in N : n[j].key = k => j \in sub[x.node]
    /\ \A a \in N : x.node \in sub[a] /\ a # x.node => k # n[a].key /\ (k < n[a].key <=> n[x.node].key < n[a].key)
    /\ \/ x.above = NoNode /\ x.node = r
       \/ x.above \in N /\ Child(n, x.above, k) = x.node

(* It may be at the child on the side of k, when the node met has another  *)
(* key.                                                                    *)
LEMMA FitsOn ==
    ASSUME NEW n, NEW N, NEW r, NEW sub, TreeAs(n, N, r, sub), NEW k \in Int,
           NEW x, x.node \in N, Fits(n, N, r, sub, k, x), n[x.node].key # k,
           NEW c \in N, c = Child(n, x.node, k), NEW y, y.above = x.node, y.node = c
    PROVE  Fits(n, N, r, sub, k, y)
<1> DEFINE i == x.node
<1>0. i \in N /\ IsChild(n, c, i) /\ n[i].key \in Int /\ i # NoNode
  BY DEF Child, IsChild, TreeAs, LinksInside
<1>1. ASSUME NEW j \in N, n[j].key = k PROVE j \in sub[c]
  <2>1. j \in sub[i] /\ j # i
    BY <1>1 DEF Fits
  <2> QED BY <1>1, <2>1 DEF TreeAs, OnItsSide
<1>2. c \in sub[c] /\ c # i /\ c \in sub[i]
  BY <1>0, OneParent DEF TreeAs, Nests
<1>3. ASSUME NEW a \in N, c \in sub[a], a # c
      PROVE  k # n[a].key /\ (k < n[a].key <=> n[c].key < n[a].key)
  <2>1. i \in sub[a]
    BY <1>0, <1>3 DEF TreeAs, ByParents
  <2>2. n[a].key \in Int /\ n[c].key \in Int /\ n[i].key \in Int
    BY <1>0 DEF TreeAs, LinksInside
  <2>3. CASE a = i
    <3>1. IF k < n[i].key THEN n[c].key < n[i].key ELSE n[i].key < n[c].key
      BY <1>0, <1>2 DEF TreeAs, Ordered, Child
    <3> QED BY <2>2, <2>3, <3>1
  <2>4. CASE a # i
    <3>1. k # n[a].key /\ (k < n[a].key <=> n[i].key < n[a].key)
      BY <2>1, <2>4 DEF Fits
    <3> DEFINE b == Child(n, a, n[i].key)
    <3>2. b \in N /\ i \in sub[b] /\ n[i].key # n[a].key
      BY <2>1, <2>4 DEF TreeAs, OnItsSide
    <3>3. c \in sub[b]
      BY <1>2, <3>2 DEF TreeAs, Nests
    <3>4. b = IF n[i].key < n[a].key THEN n[a].left ELSE n[a].right
      BY DEF Child
    <3> HIDE DEF b
    <3>5. IF n[i].key < n[a].key THEN n[c].key < n[a].key ELSE n[a].key < n[c].key
      BY <3>2, <3>3, <3>4 DEF TreeAs, Ordered
    <3> HIDE DEF i
    <3> QED BY <2>2, <3>1, <3>2, <3>5
  <2> QED BY <2>3, <2>4
<1> QED BY <1>0, <1>1, <1>3 DEF Fits

(* The nodes n2 are n with a leaf i at `at`, on the side of its key k; what *)
(* is over `at` is over the leaf.                                          *)
LeafAt(n2, n, N, at, i, k) ==
    /\ n2[i].key = k /\ n2[i].left = NoNode /\ n2[i].right = NoNode
    /\ \A a \in N : /\ n2[a].key = n[a].key
                    /\ n2[a].left = (IF a = at /\ k < n[a].key THEN i ELSE n[a].left)
                    /\ n2[a].right = (IF a = at /\ ~(k < n[a].key) THEN i ELSE n[a].right)
LeafUnder(sub2, sub, N, at, i) ==
    /\ \A y : y \in sub2[i] <=> y = i
    /\ \A a \in N : \A y : y \in sub2[a] <=> y \in sub[a] \/ (y = i /\ at \in sub[a])

(* A leaf with a new key may hang where the search for it ended.           *)
LEMMA LeafHangs ==
    ASSUME NEW n, NEW N, NEW r, NEW sub, TreeAs(n, N, r, sub), NEW at \in N, NEW k \in Int, NEW x, x.node = at,
           Fits(n, N, r, sub, k, x), n[at].key # k, Child(n, at, k) = NoNode,
           NEW i, i \notin N, i # NoNode,
           NEW n2, LeafAt(n2, n, N, at, i, k), NEW sub2, LeafUnder(sub2, sub, N, at, i)
    PROVE  TreeAs(n2, N \cup {i}, r, sub2)
<1> USE DEF LeafAt, LeafUnder
<1> DEFINE M == N \cup {i}
<1>1. LinksInside(n, N) /\ Nests(N, sub) /\ OnItsSide(n, N, sub) /\ Ordered(n, N, sub) /\ NoNode \notin N
      /\ ByParents(n, N, sub) /\ Rooted(N, r, sub)
  BY DEF TreeAs
<1>2. NoNode \notin M /\ LinksInside(n2, M)
  BY <1>1 DEF LinksInside
<1>3. Nests(M, sub2)
  BY <1>1 DEF Nests
<1>4. \A a \in N : i \in sub2[a] /\ a # at => k # n[a].key /\ (k < n[a].key <=> n[at].key < n[a].key)
  BY <1>1 DEF Fits, Nests
<1>5. \A a \in N : n[a].key \in Int /\ i # n[a].left /\ i # n[a].right
  BY <1>1 DEF LinksInside
<1>6. OnItsSide(n2, M, sub2)
  <2> SUFFICES ASSUME NEW a \in M, NEW y \in sub2[a], y # a
               PROVE  /\ n2[y].key # n2[a].key
                      /\ Child(n2, a, n2[y].key) \in M /\ y \in sub2[Child(n2, a, n2[y].key)]
    BY DEF OnItsSide
  <2>1. a \in N
    OBVIOUS
  <2>2. CASE y = i
    <3>1. at \in sub[a] /\ n2[y].key = k /\ n2[a].key = n[a].key
      BY <1>1, <2>1, <2>2 DEF Nests
    <3>2. CASE a = at
      <4>1. Child(n2, a, k) = i
        BY <2>1, <3>2, <3>1 DEF Child
      <4> QED BY <2>2, <3>1, <3>2, <4>1
    <3>3. CASE a # at
      <4>1. k # n[a].key /\ (k < n[a].key <=> n[at].key < n[a].key)
        BY <1>4, <2>1, <2>2, <3>3
      <4>2. Child(n2, a, k) = Child(n, a, n[at].key)
        BY <2>1, <3>1, <3>3, <4>1 DEF Child
      <4>3. Child(n, a, n[at].key) \in N /\ at \in sub[Child(n, a, n[at].key)]
        BY <1>1, <2>1, <3>1, <3>3 DEF OnItsSide
      <4> QED BY <2>2, <3>1, <4>1, <4>2, <4>3
    <3> QED BY <3>2, <3>3
  <2>3. CASE y # i
    <3>1. y \in sub[a] /\ y \in N
      BY <1>1, <2>1, <2>3 DEF Nests
    <3> DEFINE b == Child(n, a, n[y].key)
    <3>2. n[y].key # n[a].key /\ b \in N /\ y \in sub[b]
      BY <1>1, <2>1, <3>1 DEF OnItsSide
    <3>3. n2[y].key = n[y].key /\ n2[a].key = n[a].key
      BY <2>1, <3>1
    <3>4. Child(n2, a, n[y].key) = b
      <4>1. a = at => (k < n[a].key <=> ~(n[y].key < n[a].key))
        BY <1>1, <3>2 DEF Child
      <4> QED BY <2>1, <3>3, <4>1 DEF Child
    <3> HIDE DEF b
    <3> QED BY <3>2, <3>3, <3>4
  <2> QED BY <2>2, <2>3
<1>7. \A a \in N : \A c \in N : c \in sub[a] => c \in N
  OBVIOUS
<1>8. Ordered(n2, M, sub2)
  <2> SUFFICES ASSUME NEW a \in M
               PROVE  /\ n2[a].left \in M => \A y \in sub2[n2[a].left] : y \in sub2[a] /\ n2[y].key < n2[a].key
                      /\ n2[a].right \in M => \A y \in sub2[n2[a].right] : y \in sub2[a] /\ n2[a].key < n2[y].key
    BY DEF Ordered
  <2>1. CASE a = i
    BY <1>2, <2>1
  <2>2. CASE a \in N
    <3>0. n2[a].key = n[a].key /\ n[a].key \in Int /\ n[at].key \in Int
      BY <1>5, <2>2
    <3>1. ASSUME NEW c \in N, IsChild(n, c, a), NEW y \in sub2[c]
          PROVE  /\ y \in sub2[a]
                 /\ (n[a].left = c => n2[y].key < n[a].key) /\ (n[a].right = c => n[a].key < n2[y].key)
      <4>1. CASE y = i
        <5>1. at \in sub[c]
          BY <1>1, <3>1, <4>1 DEF Nests
        <5>2. at \in sub[a] /\ (n[a].left = c => n[at].key < n[a].key) /\ (n[a].right = c => n[a].key < n[at].key)
          BY <1>1, <2>2, <3>1, <5>1 DEF Ordered, IsChild
        <5>3. a # at
          BY <2>2, <3>1, <5>1, OneParent
        <5>4. i \in sub2[a] /\ n2[y].key = k
          BY <2>2, <4>1, <5>2
        <5>5. k # n[a].key /\ (k < n[a].key <=> n[at].key < n[a].key)
          BY <1>4, <2>2, <5>3, <5>4
        <5> QED BY <3>0, <4>1, <5>2, <5>4, <5>5
      <4>2. CASE y # i
        <5>1. y \in sub[c] /\ y \in N
          BY <1>1, <3>1, <4>2 DEF Nests
        <5>2. y \in sub[a] /\ (n[a].left = c => n[y].key < n[a].key) /\ (n[a].right = c => n[a].key < n[y].key)
          BY <1>1, <2>2, <3>1, <5>1 DEF Ordered, IsChild
        <5> QED BY <2>2, <5>1, <5>2
      <4> QED BY <4>1, <4>2
    <3>2. ASSUME n2[a].left \in M, NEW y \in sub2[n2[a].left] PROVE y \in sub2[a] /\ n2[y].key < n2[a].key
      <4>1. CASE n2[a].left = i
        <5>1. a = at /\ k < n[a].key /\ y = i
          BY <1>5, <2>2, <3>2, <4>1
        <5> QED BY <1>1, <2>2, <3>0, <5>1 DEF Nests
      <4>2. CASE n2[a].left # i
        <5>1. n2[a].left = n[a].left /\ n[a].left \in N
          BY <2>2, <3>2, <4>2
        <5> QED BY <3>0, <3>1, <3>2, <5>1 DEF IsChild
      <4> QED BY <4>1, <4>2
    <3>3. ASSUME n2[a].right \in M, NEW y \in sub2[n2[a].right] PROVE y \in sub2[a] /\ n2[a].key < n2[y].key
      <4>1. CASE n2[a].right = i
        <5>1. a = at /\ ~(k < n[a].key) /\ y = i
          BY <1>5, <2>2, <3>3, <4>1
        <5>2. k # n[a].key
          BY <5>1
        <5> QED BY <1>1, <2>2, <3>0, <5>1, <5>2 DEF Nests
      <4>2. CASE n2[a].right # i
        <5>1. n2[a].right = n[a].right /\ n[a].right \in N
          BY <2>2, <3>3, <4>2
        <5> QED BY <3>0, <3>1, <3>3, <5>1 DEF IsChild
      <4> QED BY <4>1, <4>2
    <3> QED BY <3>2, <3>3
  <2> QED BY <2>1, <2>2
<1>9. ByParents(n2, M, sub2)
  <2> SUFFICES ASSUME NEW a \in M, NEW c \in sub2[a], NEW b \in M, c # a, IsChild(n2, c, b) PROVE b \in sub2[a]
    BY DEF ByParents
  <2>1. a \in N /\ c \in M
    BY <1>3 DEF Nests
  <2>2. b \in N
    BY <1>2, <2>1 DEF IsChild
  <2>3. CASE c = i
    <3>1. b = at /\ at \in sub[a]
      BY <1>1, <1>5, <2>1, <2>2, <2>3 DEF IsChild, Nests
    <3> QED BY <2>1, <3>1
  <2>4. CASE c # i
    <3>1. c \in sub[a] /\ IsChild(n, c, b)
      BY <2>1, <2>2, <2>4 DEF IsChild
    <3>2. b \in sub[a]
      BY <1>1, <2>1, <2>2, <3>1 DEF ByParents
    <3> QED BY <2>1, <3>2
  <2> QED BY <2>3, <2>4
<1>10. Rooted(M, r, sub2)
  BY <1>1 DEF Rooted
<1> QED BY <1>2, <1>3, <1>6, <1>8, <1>9, <1>10 DEF TreeAs

(* The only child of i is c, if any; the nodes n2 are n without i, and c in *)
(* its place.                                                              *)
OnlyChild(n, N, i, c) == c \in N \cup {NoNode} /\ \A b \in N : IsChild(n, b, i) <=> b = c
GivesPlace(n2, n, M, i, c) ==
    \A a \in M : /\ n2[a].key = n[a].key
                 /\ n2[a].left = (IF n[a].left = i THEN c ELSE n[a].left)
                 /\ n2[a].right = (IF n[a].right = i THEN c ELSE n[a].right)
OneLess(sub2, sub, M, i) == \A a \in M : \A y : y \in sub2[a] <=> y \in sub[a] /\ y # i

(* A node with at most one child may give its place to it.                 *)
LEMMA PlaceGiven ==
    ASSUME NEW n, NEW N, NEW r, NEW sub, TreeAs(n, N, r, sub), NEW i \in N, NEW c, OnlyChild(n, N, i, c),
           NEW M, M = N \ {i}, NEW n2, GivesPlace(n2, n, M, i, c),
           NEW r2, r2 = (IF r = i THEN c ELSE r), NEW sub2, OneLess(sub2, sub, M, i)
    PROVE  TreeAs(n2, M, r2, sub2)
<1> USE DEF OnlyChild, GivesPlace, OneLess
<1>1. LinksInside(n, N) /\ Nests(N, sub) /\ OnItsSide(n, N, sub) /\ Ordered(n, N, sub) /\ NoNode \notin N
      /\ ByParents(n, N, sub) /\ Rooted(N, r, sub)
  BY DEF TreeAs
<1>2. c \in N => c # i /\ c \in sub[i] /\ IsChild(n, c, i) /\ \A y \in sub[c] : y \in sub[i]
  BY <1>1, OneParent DEF Nests
<1>3. ASSUME NEW y \in sub[i], y # i PROVE c \in N /\ y \in sub[c]
  <2> DEFINE b == Child(n, i, n[y].key)
  <2>1. b \in N /\ y \in sub[b]
    BY <1>1, <1>3 DEF OnItsSide
  <2>2. IsChild(n, b, i)
    BY DEF Child, IsChild
  <2> HIDE DEF b
  <2> QED BY <2>1, <2>2
<1>4. NoNode \notin M /\ LinksInside(n2, M)
  <2>1. c \in M \cup {NoNode}
    BY <1>2
  <2>2. ASSUME NEW a \in M
        PROVE  n2[a].key \in Int /\ n2[a].left \in M \cup {NoNode} /\ n2[a].right \in M \cup {NoNode}
    BY <1>1, <2>1 DEF LinksInside
  <2> QED BY <1>1, <2>2 DEF LinksInside
<1>5. Nests(M, sub2)
  BY <1>1 DEF Nests
<1>6. OnItsSide(n2, M, sub2)
  <2> SUFFICES ASSUME NEW a \in M, NEW y \in sub2[a], y # a
               PROVE  /\ n2[y].key # n2[a].key
                      /\ Child(n2, a, n2[y].key) \in M /\ y \in sub2[Child(n2, a, n2[y].key)]
    BY DEF OnItsSide
  <2> DEFINE b == Child(n, a, n[y].key)
             b2 == Child(n2, a, n2[y].key)
  <2>1. y \in sub[a] /\ y \in M /\ y # i
    BY <1>5 DEF Nests
  <2>2. n[y].key # n[a].key /\ b \in N /\ y \in sub[b]
    BY <1>1, <2>1 DEF OnItsSide
  <2>3. n2[y].key = n[y].key /\ n2[a].key = n[a].key
    BY <2>1
  <2>4. b2 = IF b = i THEN c ELSE b
    BY <2>3 DEF Child
  <2> HIDE DEF b, b2
  <2>5. b2 \in M /\ y \in sub2[b2]
    <3>1. CASE b = i
      <4>1. c \in N /\ y \in sub[c] /\ c # i
        BY <1>2, <1>3, <2>1, <2>2, <3>1
      <4> QED BY <2>1, <2>4, <3>1, <4>1
    <3>2. CASE b # i
      BY <2>1, <2>2, <2>4, <3>2
    <3> QED BY <3>1, <3>2
  <2> QED BY <2>2, <2>3, <2>5 DEF b2
<1>7. Ordered(n2, M, sub2)
  <2> SUFFICES ASSUME NEW a \in M
               PROVE  /\ n2[a].left \in M => \A y \in sub2[n2[a].left] : y \in sub2[a] /\ n2[y].key < n2[a].key
                      /\ n2[a].right \in M => \A y \in sub2[n2[a].right] : y \in sub2[a] /\ n2[a].key < n2[y].key
    BY DEF Ordered
  <2>1. a \in N /\ n2[a].key = n[a].key
    OBVIOUS
  <2>2. ASSUME n2[a].left \in M, NEW y \in sub2[n2[a].left] PROVE y \in sub2[a] /\ n2[y].key < n2[a].key
    <3>1. y \in M /\ n2[y].key = n[y].key /\ y # i /\ y \in sub[n2[a].left]
      BY <1>5, <2>2 DEF Nests
    <3>2. n[a].left \in N /\ y \in sub[n[a].left]
      BY <1>2, <1>4, <2>2, <3>1
    <3>3. y \in sub[a] /\ n[y].key < n[a].key
      BY <1>1, <2>1, <3>2 DEF Ordered
    <3> QED BY <2>1, <3>1, <3>3
  <2>3. ASSUME n2[a].right \in M, NEW y \in sub2[n2[a].right] PROVE y \in sub2[a] /\ n2[a].key < n2[y].key
    <3>1. y \in M /\ n2[y].key = n[y].key /\ y # i /\ y \in sub[n2[a].right]
      BY <1>5, <2>3 DEF Nests
    <3>2. n[a].right \in N /\ y \in sub[n[a].right]
      BY <1>2, <1>4, <2>3, <3>1
    <3>3. y \in sub[a] /\ n[a].key < n[y].key
      BY <1>1, <2>1, <3>2 DEF Ordered
    <3> QED BY <2>1, <3>1, <3>3
  <2> QED BY <2>2, <2>3
<1>8. ByParents(n2, M, sub2)
  <2> SUFFICES ASSUME NEW a \in M, NEW y \in sub2[a], NEW b \in M, y # a, IsChild(n2, y, b) PROVE b \in sub2[a]
    BY DEF ByParents
  <2>1. y \in sub[a] /\ y \in M /\ a \in N /\ b \in N /\ b # i /\ a # i
    BY <1>5 DEF Nests
  <2>2. IsChild(n, y, b) \/ (y = c /\ IsChild(n, i, b))
    BY <2>1 DEF IsChild
  <2>3. CASE IsChild(n, y, b)
    BY <1>1, <2>1, <2>3 DEF ByParents
  <2>4. CASE y = c /\ IsChild(n, i, b)
    <3>1. i \in sub[a]
      BY <1>1, <1>2, <2>1, <2>4 DEF ByParents
    <3>2. b \in sub[a]
      BY <1>1, <2>1, <2>4, <3>1 DEF ByParents
    <3> QED BY <2>1, <3>2
  <2> QED BY <2>2, <2>3, <2>4
<1>9. Rooted(M, r2, sub2)
  <2>1. r \in N /\ \A y \in N : y \in sub[r]
    BY <1>1 DEF Rooted
  <2>2. CASE r = i
    BY <1>1, <1>2, <1>3, <2>1, <2>2 DEF Rooted
  <2>3. CASE r # i
    BY <1>1, <2>1, <2>3 DEF Rooted
  <2> QED BY <2>2, <2>3
<1> QED BY <1>4, <1>5, <1>6, <1>7, <1>8, <1>9 DEF TreeAs

(* What is over and under i compares with k as with the key of i; the nodes *)
(* n2 are n where i has the key k.                                         *)
SameOrder(n, N, sub, i, k) ==
    /\ \A x \in sub[i] : x # i => n[x].key # k /\ (n[x].key < n[i].key <=> n[x].key < k)
    /\ \A a \in N : i \in sub[a] /\ a # i => k # n[a].key /\ (n[i].key < n[a].key <=> k < n[a].key)
TakesKey(n2, n, N, i, k) ==
    \A a \in N : /\ n2[a].key = (IF a = i THEN k ELSE n[a].key)
                 /\ n2[a].left = n[a].left /\ n2[a].right = n[a].right

(* A node may take another key that all above and under it compare with as *)
(* they did with the one it had.                                           *)
LEMMA KeyTaken ==
    ASSUME NEW n, NEW N, NEW r, NEW sub, TreeAs(n, N, r, sub), NEW i \in N, NEW k \in Int, SameOrder(n, N, sub, i, k),
           NEW n2, TakesKey(n2, n, N, i, k)
    PROVE  TreeAs(n2, N, r, sub)
<1> USE DEF SameOrder, TakesKey
<1>1. LinksInside(n, N) /\ Nests(N, sub) /\ OnItsSide(n, N, sub) /\ Ordered(n, N, sub) /\ NoNode \notin N
      /\ ByParents(n, N, sub) /\ Rooted(N, r, sub)
  BY DEF TreeAs
<1>2. LinksInside(n2, N)
  BY <1>1 DEF LinksInside
<1>3. ASSUME NEW a \in N, NEW x \in sub[a], x # a
      PROVE  n2[x].key # n2[a].key /\ (n2[x].key < n2[a].key <=> n[x].key < n[a].key)
  <2>1. x \in N /\ n[x].key # n[a].key /\ n[x].key \in Int /\ n[a].key \in Int
    BY <1>1, <1>3 DEF Nests, OnItsSide, LinksInside
  <2>2. CASE a = i
    BY <1>3, <2>1, <2>2
  <2>3. CASE x = i
    BY <1>3, <2>1, <2>3
  <2>4. CASE a # i /\ x # i
    BY <2>1, <2>4
  <2> QED BY <2>2, <2>3, <2>4
<1>4. OnItsSide(n2, N, sub)
  <2> SUFFICES ASSUME NEW a \in N, NEW x \in sub[a], x # a
               PROVE  /\ n2[x].key # n2[a].key
                      /\ Child(n2, a, n2[x].key) \in N /\ x \in sub[Child(n2, a, n2[x].key)]
    BY DEF OnItsSide
  <2>1. Child(n2, a, n2[x].key) = Child(n, a, n[x].key)
    BY <1>3 DEF Child
  <2> QED BY <1>1, <1>3, <2>1 DEF OnItsSide
<1>5. Ordered(n2, N, sub)
  <2> SUFFICES ASSUME NEW a \in N
               PROVE  /\ n2[a].left \in N => \A y \in sub[n2[a].left] : y \in sub[a] /\ n2[y].key < n2[a].key
                      /\ n2[a].right \in N => \A y \in sub[n2[a].right] : y \in sub[a] /\ n2[a].key < n2[y].key
    BY DEF Ordered
  <2>1. ASSUME n[a].left \in N, NEW y \in sub[n[a].left] PROVE y \in sub[a] /\ n2[y].key < n2[a].key
    <3>1. y \in sub[a] /\ n[y].key < n[a].key /\ n[a].key \in Int
      BY <1>1, <2>1 DEF Ordered, LinksInside
    <3>2. y # a
      BY <3>1
    <3> QED BY <1>3, <3>1, <3>2
  <2>2. ASSUME n[a].right \in N, NEW y \in sub[n[a].right] PROVE y \in sub[a] /\ n2[a].key < n2[y].key
    <3>1. y \in sub[a] /\ n[a].key < n[y].key /\ n[a].key \in Int /\ n[y].key \in Int /\ y \in N
      BY <1>1, <2>2 DEF Ordered, LinksInside, Nests
    <3>2. y # a
      BY <3>1
    <3>3. n2[y].key # n2[a].key /\ ~(n2[y].key < n2[a].key)
      BY <1>3, <3>1, <3>2
    <3>4. n2[y].key \in Int /\ n2[a].key \in Int
      BY <1>2, <3>1 DEF LinksInside
    <3> QED BY <3>1, <3>3, <3>4
  <2> QED BY <2>1, <2>2
<1>6. ByParents(n2, N, sub)
  BY <1>1 DEF ByParents, IsChild
<1> QED BY <1>1, <1>2, <1>4, <1>5, <1>6 DEF TreeAs

(* Where the search for the successor may be: what is greater than the     *)
(* node it starts from is under it, or greater than what is.               *)
FitsLeft(n, N, sub, i, x) ==
    LET s == n[i].right IN
    /\ x.node \in sub[s]
    /\ \A y \in sub[s] : y \in sub[x.node] \/ \A z \in sub[x.node] : n[z].key < n[y].key
    /\ IsChild(n, x.node, x.above) /\ x.above \in N /\ (x.node = s \/ n[x.above].left = x.node)

(* It may be at the left child of the node met.                            *)
LEMMA FitsLeftOn ==
    ASSUME NEW n, NEW N, NEW r, NEW sub, TreeAs(n, N, r, sub), NEW i \in N, n[i].right \in N,
           NEW x, x.node \in N, FitsLeft(n, N, sub, i, x),
           NEW c \in N, c = n[x.node].left, NEW y, y.above = x.node, y.node = c
    PROVE  FitsLeft(n, N, sub, i, y)
<1> DEFINE s == n[i].right
           a == x.node
<1>1. LinksInside(n, N) /\ Nests(N, sub) /\ OnItsSide(n, N, sub) /\ Ordered(n, N, sub)
  BY DEF TreeAs
<1>2. a \in N /\ a \in sub[s] /\ n[a].left = c
  BY DEF FitsLeft
<1>3. c \in sub[a] /\ c \in sub[s]
  BY <1>1, <1>2 DEF Nests, Ordered
<1>4. ASSUME NEW w \in sub[s], w \notin sub[c], NEW z \in sub[c] PROVE n[z].key < n[w].key
  <2>1. z \in sub[a] /\ n[z].key < n[a].key /\ z \in N /\ w \in N
    BY <1>1, <1>2, <1>4 DEF Ordered, Nests
  <2>2. CASE w \notin sub[a]
    BY <1>4, <2>1, <2>2 DEF FitsLeft
  <2>3. CASE w = a
    BY <2>1, <2>3
  <2>4. CASE w \in sub[a] /\ w # a
    <3>1. n[w].key # n[a].key /\ w \in sub[Child(n, a, n[w].key)]
      BY <1>1, <1>2, <2>4 DEF OnItsSide
    <3>2. ~(n[w].key < n[a].key)
      BY <1>2, <1>4, <3>1 DEF Child
    <3>3. n[w].key \in Int /\ n[a].key \in Int /\ n[z].key \in Int
      BY <1>1, <1>2, <2>1 DEF LinksInside
    <3> HIDE DEF a
    <3> QED BY <2>1, <3>1, <3>2, <3>3
  <2> QED BY <2>2, <2>3, <2>4
<1> QED BY <1>2, <1>3, <1>4 DEF FitsLeft, IsChild

(* The nodes n on indices up to m are a search tree with root r.           *)
Node == [key : TreeKeys, value : TreeVals, left : Nat, right : Nat]
SearchTree(n, m, r) ==
    /\ n \in [DOMAIN n -> Node] /\ DOMAIN n \in SUBSET (1..m)
    /\ \E sub : TreeAs(n, DOMAIN n, r, sub)

IfNone(i, x, y) == IF i = NoNode THEN x ELSE y

(* Search of nodes n, and the entries it finds.                            *)
SearchIn(n, m, r, k) ==
    Down(m, [above |-> NoNode, node |-> r],
         [i \in DOMAIN n |-> IF n[i].key = k THEN NoNode ELSE Child(n, i, k)])
Dict(n) == [k \in {n[j].key : j \in DOMAIN n} |-> n[CHOOSE j \in DOMAIN n : n[j].key = k].value]

(* The entries d with v for k.                                             *)
More(d, k, v) == [x \in DOMAIN d \cup {k} |-> IF x = k THEN v ELSE d[x]]

(* The search for k ends where k is, or where there is no child on its     *)
(* side.                                                                   *)
LEMMA SearchEnds ==
    ASSUME NEW m \in Nat, NEW n, n \in [DOMAIN n -> Node], DOMAIN n \in SUBSET (1..m), NEW r, NEW sub,
           TreeAs(n, DOMAIN n, r, sub), r # NoNode, NEW k \in Int, NEW at, at = SearchIn(n, m, r, k)
    PROVE  /\ at.node \in DOMAIN n /\ Fits(n, DOMAIN n, r, sub, k, at)
           /\ n[at.node].key = k \/ Child(n, at.node, k) = NoNode
<1> DEFINE N == DOMAIN n
           below == [i \in N |-> IF n[i].key = k THEN NoNode ELSE Child(n, i, k)]
           top == [above |-> NoNode, node |-> r]
           R == {x \in Ways(m, N) : Fits(n, N, r, sub, k, x)}
<1> USE DEF Ways
<1>1. LinksInside(n, N) /\ Nests(N, sub) /\ OnItsSide(n, N, sub) /\ Ordered(n, N, sub) /\ NoNode \notin N
      /\ Rooted(N, r, sub) /\ NoNode \in 0..m /\ \A i \in N : i \in Nat
  BY DEF TreeAs, NoNode
<1>2. below \in [N -> N \cup {NoNode}]
  BY <1>1 DEF LinksInside, Child
<1>3. ASSUME NEW a \in N, below[a] # NoNode
      PROVE  a \notin sub[below[a]] /\ \A x \in sub[below[a]] : x \in sub[a]
  <2> DEFINE c == below[a]
  <2>1. c \in N /\ c = Child(n, a, k)
    BY <1>2, <1>3
  <2>2. IsChild(n, c, a)
    BY <2>1 DEF Child, IsChild
  <2> HIDE DEF c, below
  <2>3. a \notin sub[c] /\ c \in sub[a]
    BY <2>1, <2>2, OneParent
  <2> QED BY <1>1, <2>1, <2>3 DEF Nests, c
<1>4. top \in R
  <2>1. r \in N /\ \A j \in N : j \in sub[r]
    BY <1>1 DEF Rooted
  <2>2. ASSUME NEW a \in N, r \in sub[a] PROVE a = r
    BY <2>1, <2>2, NotUnderEachOther
  <2>3. Fits(n, N, r, sub, k, top)
    BY <2>1, <2>2 DEF Fits
  <2> QED BY <1>1, <2>1, <2>3
<1>5. ASSUME NEW x \in R, below[x.node] # NoNode PROVE [above |-> x.node, node |-> below[x.node]] \in R
  <2> DEFINE y == [above |-> x.node, node |-> below[x.node]]
  <2>1. x.node \in N /\ Fits(n, N, r, sub, k, x) /\ n[x.node].key # k
    BY <1>5
  <2>2. below[x.node] \in N /\ below[x.node] = Child(n, x.node, k)
    BY <1>2, <1>5, <2>1
  <2> HIDE DEF below
  <2>3. Fits(n, N, r, sub, k, y)
    BY <2>1, <2>2, FitsOn
  <2> QED BY <1>1, <2>1, <2>2, <2>3
<1>6. at = Down(m, top, below)
  BY DEF SearchIn
<1> HIDE DEF below, top
<1>7. R \in SUBSET Ways(m, N) /\ N \in SUBSET (1..m) /\ \A a \in N : a \in sub[a]
  BY <1>1 DEF Nests
<1> HIDE DEF R
<1>8. at \in R /\ below[at.node] = NoNode
  <2>1. Leads(N, sub, below)
    BY <1>3, <1>7 DEF Leads
  <2>2. StaysIn(R, below)
    BY <1>5 DEF StaysIn
  <2> HIDE DEF N, Ways
  <2>3. Down(m, top, below) \in R /\ below[Down(m, top, below).node] = NoNode
    BY <1>2, <1>4, <1>7, <2>1, <2>2, DownEnds
  <2> QED BY <1>6, <2>3
<1> QED BY <1>1, <1>8 DEF R, below

(* Who has the key is found.                                               *)
LEMMA SearchFinds ==
    ASSUME NEW m \in Nat, NEW n, NEW r, SearchTree(n, m, r), NEW j \in DOMAIN n
    PROVE  r # NoNode /\ SearchIn(n, m, r, n[j].key).node = j
<1>1. PICK sub : TreeAs(n, DOMAIN n, r, sub)
  BY DEF SearchTree
<1>2. r # NoNode
  BY <1>1 DEF TreeAs, Rooted
<1> DEFINE k == n[j].key
           at == SearchIn(n, m, r, k)
<1>3. k \in Int
  BY <1>1 DEF TreeAs, LinksInside
<1> HIDE DEF k
<1>4. /\ at.node \in DOMAIN n /\ Fits(n, DOMAIN n, r, sub, k, at)
      /\ n[at.node].key = k \/ Child(n, at.node, k) = NoNode
  BY <1>1, <1>2, <1>3, SearchEnds DEF SearchTree
<1> HIDE DEF at
<1>5. j \in sub[at.node]
  BY <1>4 DEF Fits, k
<1>6. ASSUME j # at.node PROVE FALSE
  <2>1. n[j].key # n[at.node].key /\ Child(n, at.node, k) \in DOMAIN n
    BY <1>1, <1>4, <1>5, <1>6 DEF TreeAs, OnItsSide, k
  <2>2. NoNode \notin DOMAIN n
    BY <1>1 DEF TreeAs
  <2> QED BY <1>4, <2>1, <2>2 DEF k
<1> QED BY <1>2, <1>6 DEF at, k

(* No two nodes have the same key.                                         *)
LEMMA KeysDiffer ==
    ASSUME NEW m \in Nat, NEW n, NEW r, SearchTree(n, m, r), NEW i \in DOMAIN n, NEW j \in DOMAIN n,
           n[i].key = n[j].key
    PROVE  i = j
<1>1. SearchIn(n, m, r, n[i].key).node = i
  BY SearchFinds
<1>2. SearchIn(n, m, r, n[j].key).node = j
  BY SearchFinds
<1> QED BY <1>1, <1>2

(* The entries are those of the nodes.                                     *)
LEMMA DictIs ==
    ASSUME NEW n, \A i, j \in DOMAIN n : n[i].key = n[j].key => i = j,
           NEW D, NEW d, d = [k \in D |-> d[k]], \A k : k \in D <=> \E j \in DOMAIN n : n[j].key = k,
           \A j \in DOMAIN n : d[n[j].key] = n[j].value
    PROVE  Dict(n) = d
<1>1. D = {n[j].key : j \in DOMAIN n}
  OBVIOUS
<1>2. ASSUME NEW k \in D PROVE d[k] = n[CHOOSE j \in DOMAIN n : n[j].key = k].value
  <2>1. PICK j \in DOMAIN n : n[j].key = k
    OBVIOUS
  <2>2. (CHOOSE l \in DOMAIN n : n[l].key = k) = j
    BY <2>1
  <2> QED BY <2>1, <2>2
<1> QED BY <1>1, <1>2 DEF Dict

(* What the searches for all keys find is the entries of the nodes.        *)
LEMMA EntriesIn ==
    ASSUME NEW m \in Nat, NEW n, NEW r, SearchTree(n, m, r)
    PROVE  [k \in {x \in TreeKeys : r # NoNode /\ n[SearchIn(n, m, r, x).node].key = x}
               |-> n[SearchIn(n, m, r, k).node].value] = Dict(n)
<1> DEFINE at(x) == SearchIn(n, m, r, x)
           D == {x \in TreeKeys : r # NoNode /\ n[at(x).node].key = x}
           d == [k \in D |-> n[at(k).node].value]
<1>1. \A i, j \in DOMAIN n : n[i].key = n[j].key => i = j
  BY KeysDiffer
<1>2. ASSUME NEW j \in DOMAIN n PROVE r # NoNode /\ at(n[j].key).node = j /\ n[j].key \in TreeKeys
  BY SearchFinds DEF SearchTree, Node
<1>3. \A k : k \in D <=> \E j \in DOMAIN n : n[j].key = k
  <2>1. ASSUME NEW k \in D PROVE \E j \in DOMAIN n : n[j].key = k
    <3>1. PICK sub : TreeAs(n, DOMAIN n, r, sub)
      BY DEF SearchTree
    <3>2. k \in Int
      BY TreeAssumption
    <3>3. at(k).node \in DOMAIN n
      BY <3>1, <3>2, SearchEnds DEF SearchTree
    <3> QED BY <3>3
  <2>2. ASSUME NEW j \in DOMAIN n PROVE n[j].key \in D
    BY <1>2
  <2> QED BY <2>1, <2>2
<1>4. \A j \in DOMAIN n : d[n[j].key] = n[j].value
  BY <1>2, <1>3
<1>5. d = [k \in D |-> d[k]]
  OBVIOUS
<1> HIDE DEF d, D
<1>6. Dict(n) = d
  BY <1>1, <1>3, <1>4, <1>5, DictIs
<1> QED BY <1>6 DEF d, D

(* A pointer set: on the side of k, and nothing else.                      *)
LEMMA ChildSet ==
    ASSUME NEW n, n \in [DOMAIN n -> Node], NEW p \in DOMAIN n, NEW k, NEW c \in Nat, NEW n1, n1 = SetChild(n, p, k, c)
    PROVE  /\ n1 \in [DOMAIN n -> Node] /\ DOMAIN n1 = DOMAIN n
           /\ \A a \in DOMAIN n :
                /\ n1[a].key = n[a].key /\ n1[a].value = n[a].value
                /\ n1[a].left = (IF a = p /\ k < n[a].key THEN c ELSE n[a].left)
                /\ n1[a].right = (IF a = p /\ ~(k < n[a].key) THEN c ELSE n[a].right)
<1>1. CASE k < n[p].key
  <2>1. n1 = [n EXCEPT ![p].left = c]
    BY <1>1 DEF SetChild
  <2> QED BY <1>1, <2>1 DEF Node
<1>2. CASE ~(k < n[p].key)
  <2>1. n1 = [n EXCEPT ![p].right = c]
    BY <1>2 DEF SetChild
  <2> QED BY <1>2, <2>1 DEF Node
<1> QED BY <1>1, <1>2

(* What the entries are.                                                   *)
LEMMA DictHas ==
    ASSUME NEW n, \A i, j \in DOMAIN n : n[i].key = n[j].key => i = j
    PROVE  /\ \A k : k \in DOMAIN Dict(n) <=> \E j \in DOMAIN n : n[j].key = k
           /\ \A j \in DOMAIN n : Dict(n)[n[j].key] = n[j].value
<1>1. DOMAIN Dict(n) = {n[j].key : j \in DOMAIN n}
  BY DEF Dict
<1>2. ASSUME NEW j \in DOMAIN n PROVE Dict(n)[n[j].key] = n[j].value
  <2>1. (CHOOSE l \in DOMAIN n : n[l].key = n[j].key) = j
    OBVIOUS
  <2>2. n[j].key \in {n[l].key : l \in DOMAIN n}
    OBVIOUS
  <2> QED BY <2>1, <2>2 DEF Dict
<1> QED BY <1>1, <1>2

(* A new value at i.                                                       *)
Revalued(n, i, v) == [n EXCEPT ![i].value = v]

(* The tree stays as it is, and its entry of the key has the new value.    *)
LEMMA ValueReplaced ==
    ASSUME NEW m \in Nat, NEW n, NEW r, SearchTree(n, m, r), NEW i \in DOMAIN n, NEW v \in TreeVals,
           NEW n2, n2 = Revalued(n, i, v), NEW k, k = n[i].key
    PROVE  /\ SearchTree(n2, m, r) /\ DOMAIN n2 = DOMAIN n
           /\ Dict(n2) = More(Dict(n), k, v)
<1> DEFINE N == DOMAIN n
<1>1. n \in [N -> Node] /\ N \in SUBSET (1..m)
  BY DEF SearchTree
<1>2. /\ n2 \in [N -> Node] /\ DOMAIN n2 = N
      /\ \A a \in N : /\ n2[a].key = n[a].key /\ n2[a].left = n[a].left /\ n2[a].right = n[a].right
                      /\ n2[a].value = IF a = i THEN v ELSE n[a].value
  BY <1>1 DEF Node, Revalued
<1>3. PICK sub : TreeAs(n, N, r, sub)
  BY DEF SearchTree
<1>4. TreeAs(n2, N, r, sub)
  <2>1. n[i].key \in Int
    BY <1>3 DEF TreeAs, LinksInside
  <2>2. SameOrder(n, N, sub, i, n[i].key)
    BY <1>3 DEF TreeAs, OnItsSide, SameOrder
  <2>3. TakesKey(n2, n, N, i, n[i].key)
    BY <1>2 DEF TakesKey
  <2> QED BY <1>3, <2>1, <2>2, <2>3, KeyTaken
<1>5. \A a, b \in N : n[a].key = n[b].key => a = b
  BY KeysDiffer
<1>6. Dict(n2) = More(Dict(n), k, v)
  <2> DEFINE D == DOMAIN Dict(n) \cup {k}
             d == [x \in D |-> IF x = k THEN v ELSE Dict(n)[x]]
  <2>1. \A x : x \in DOMAIN Dict(n) <=> \E j \in N : n[j].key = x
    BY <1>5, DictHas
  <2>2. \A j \in N : Dict(n)[n[j].key] = n[j].value
    BY <1>5, DictHas
  <2>3. \A a, b \in DOMAIN n2 : n2[a].key = n2[b].key => a = b
    BY <1>2, <1>5
  <2>4. \A x : x \in D <=> \E j \in DOMAIN n2 : n2[j].key = x
    <3> HIDE DEF N
    <3>1. i \in N
      BY DEF N
    <3> QED BY <1>2, <2>1, <3>1
  <2>5. ASSUME NEW j \in DOMAIN n2 PROVE d[n2[j].key] = n2[j].value
    <3>1. j \in N /\ n2[j].key \in D /\ n2[j].key = n[j].key
      BY <1>2, <2>4
    <3>2. d[n[j].key] = IF n[j].key = k THEN v ELSE Dict(n)[n[j].key]
      BY <3>1
    <3>3. n[j].key = k <=> j = i
      BY <1>5, <3>1
    <3> HIDE DEF d, D
    <3> QED BY <1>2, <2>2, <3>1, <3>2, <3>3
  <2>6. d = [x \in D |-> d[x]]
    OBVIOUS
  <2> HIDE DEF d, D, N
  <2>7. Dict(n2) = d
    BY <2>3, <2>4, <2>5, <2>6, DictIs
  <2> QED BY <2>7 DEF d, D, More
<1> QED BY <1>1, <1>2, <1>4, <1>6 DEF SearchTree

(* A leaf i where the search for its key ends.                             *)
Hung(n, r, at, i, k, v) == With(IF r = NoNode THEN n ELSE SetChild(n, at, k, i), i, Leaf(k, v))

(* The tree with the leaf is a search tree with one more entry.            *)
LEMMA LeafAdded ==
    ASSUME NEW m \in Nat, NEW n, NEW r, SearchTree(n, m, r), NEW k \in TreeKeys, NEW v \in TreeVals,
           \A j \in DOMAIN n : n[j].key # k,
           NEW m2 \in Nat, m <= m2, NEW i \in 1..m2, i \notin DOMAIN n,
           NEW at, at = SearchIn(n, m, r, k).node,
           NEW n2, n2 = Hung(n, r, at, i, k, v),
           NEW r2, r2 = IfNone(r, i, r)
    PROVE  /\ SearchTree(n2, m2, r2) /\ DOMAIN n2 = DOMAIN n \cup {i}
           /\ Dict(n2) = More(Dict(n), k, v)
<1> DEFINE N == DOMAIN n
           n1 == IF r = NoNode THEN n ELSE SetChild(n, at, k, i)
<1> USE DEF IfNone
<1>1. n \in [N -> Node] /\ N \in SUBSET (1..m) /\ k \in Int /\ i \in Nat /\ i # NoNode
  BY TreeAssumption DEF SearchTree, NoNode
<1>2. PICK sub : TreeAs(n, N, r, sub)
  BY DEF SearchTree
<1>3. NoNode \notin N /\ (r = NoNode => N = {}) /\ NoNode \in Nat
  BY <1>2 DEF TreeAs, Rooted, NoNode
<1>4. r # NoNode => at \in N /\ Fits(n, N, r, sub, k, SearchIn(n, m, r, k)) /\ Child(n, at, k) = NoNode
  BY <1>1, <1>2, SearchEnds
<1>5. /\ n1 \in [N -> Node] /\ DOMAIN n1 = N
      /\ \A a \in N : n1[a].key = n[a].key /\ n1[a].value = n[a].value
      /\ r # NoNode => \A a \in N :
            /\ n1[a].left = (IF a = at /\ k < n[a].key THEN i ELSE n[a].left)
            /\ n1[a].right = (IF a = at /\ ~(k < n[a].key) THEN i ELSE n[a].right)
  <2>1. CASE r = NoNode
    BY <1>1, <2>1
  <2>2. CASE r # NoNode
    <3>1. n1 = SetChild(n, at, k, i) /\ at \in N
      BY <1>4, <2>2
    <3> HIDE DEF n1
    <3> QED BY <1>1, <2>2, <3>1, ChildSet
  <2> QED BY <2>1, <2>2
<1> HIDE DEF n1
<1>6. n2 = [j \in N \cup {i} |-> IF j = i THEN Leaf(k, v) ELSE n1[j]]
  BY <1>5 DEF With, Hung, n1
<1>7. Leaf(k, v) \in Node /\ Leaf(k, v).key = k /\ Leaf(k, v).value = v
      /\ Leaf(k, v).left = NoNode /\ Leaf(k, v).right = NoNode
  BY <1>3 DEF Leaf, Node
<1>8. n2 \in [N \cup {i} -> Node] /\ DOMAIN n2 = N \cup {i} /\ n2[i] = Leaf(k, v) /\ \A a \in N : n2[a] = n1[a]
  BY <1>5, <1>6, <1>7
<1>9. \E sub2 : TreeAs(n2, N \cup {i}, r2, sub2)
  <2>1. CASE r = NoNode
    <3> DEFINE sub2 == [a \in {i} |-> {i}]
    <3>1. N \cup {i} = {i} /\ r2 = i
      BY <1>3, <2>1
    <3>2. TreeAs(n2, {i}, i, sub2)
      BY <1>1, <1>7, <1>8 DEF TreeAs, LinksInside, Nests, OnItsSide, Ordered, ByParents, Rooted, IsChild
    <3> HIDE DEF sub2
    <3> QED BY <3>1, <3>2
  <2>2. CASE r # NoNode
    <3> DEFINE sub2 == [a \in N \cup {i} |-> IF a = i THEN {i}
                                             ELSE IF at \in sub[a] THEN sub[a] \cup {i} ELSE sub[a]]
    <3>1. LeafUnder(sub2, sub, N, at, i)
      BY DEF LeafUnder
    <3>2. LeafAt(n2, n, N, at, i, k)
      BY <1>5, <1>7, <1>8, <2>2 DEF LeafAt
    <3>3. at \in N /\ n[at].key # k /\ r2 = r
      BY <1>4, <2>2
    <3>4. PICK x : x = SearchIn(n, m, r, k)
      OBVIOUS
    <3>5. x.node = at /\ Fits(n, N, r, sub, k, x) /\ Child(n, at, k) = NoNode
      BY <1>4, <2>2, <3>4
    <3>6. i \notin N
      OBVIOUS
    <3> HIDE DEF sub2, N
    <3>7. TreeAs(n2, N \cup {i}, r, sub2)
      BY <1>1, <1>2, <3>1, <3>2, <3>3, <3>5, <3>6, LeafHangs
    <3> QED BY <3>3, <3>7
  <2> QED BY <2>1, <2>2
<1>10. N \cup {i} \in SUBSET (1..m2)
  BY <1>1
<1>11. \A a, b \in N : n[a].key = n[b].key => a = b
  BY KeysDiffer
<1>12. Dict(n2) = More(Dict(n), k, v)
  <2> DEFINE D == DOMAIN Dict(n) \cup {k}
             d == [x \in D |-> IF x = k THEN v ELSE Dict(n)[x]]
  <2>1. \A x : x \in DOMAIN Dict(n) <=> \E j \in N : n[j].key = x
    BY <1>11, DictHas
  <2>2. \A j \in N : Dict(n)[n[j].key] = n[j].value
    BY <1>11, DictHas
  <2>3. /\ n2[i].key = k /\ n2[i].value = v
        /\ \A j \in N : n2[j].key = n[j].key /\ n2[j].value = n[j].value /\ n[j].key # k /\ j # i
    BY <1>5, <1>7, <1>8
  <2> HIDE DEF N
  <2>4. \A a, b \in DOMAIN n2 : n2[a].key = n2[b].key => a = b
    BY <1>8, <1>11, <2>3
  <2>5. \A x : x \in D <=> \E j \in DOMAIN n2 : n2[j].key = x
    BY <1>8, <2>1, <2>3
  <2>6. ASSUME NEW j \in DOMAIN n2 PROVE d[n2[j].key] = n2[j].value
    <3>1. n2[j].key \in D
      BY <2>5
    <3>2. d[n2[j].key] = IF n2[j].key = k THEN v ELSE Dict(n)[n2[j].key]
      BY <3>1
    <3>3. j = i \/ j \in N
      BY <1>8
    <3> HIDE DEF d, D
    <3> QED BY <2>2, <2>3, <3>2, <3>3
  <2>7. d = [x \in D |-> d[x]]
    OBVIOUS
  <2> HIDE DEF d, D
  <2>8. Dict(n2) = d
    BY <2>4, <2>5, <2>6, <2>7, DictIs
  <2> QED BY <2>8 DEF d, D, More
<1> QED BY <1>8, <1>9, <1>10, <1>12 DEF SearchTree

(* The entries d without the one of k.                                     *)
Less(d, k) == [x \in DOMAIN d \ {k} |-> d[x]]

(* The nodes n2 have the entries of n but for that of i.                   *)
OneEntryLess(n2, n, i) ==
    /\ \A a, b \in DOMAIN n2 : n2[a].key = n2[b].key => a = b
    /\ \A j \in DOMAIN n : j # i => \E l \in DOMAIN n2 : n2[l].key = n[j].key /\ n2[l].value = n[j].value
    /\ \A l \in DOMAIN n2 : \E j \in DOMAIN n : j # i /\ n2[l].key = n[j].key /\ n2[l].value = n[j].value

(* Then the entries are those of n without the key of i.                   *)
LEMMA DictLess ==
    ASSUME NEW m \in Nat, NEW n, NEW r, SearchTree(n, m, r), NEW i \in DOMAIN n, NEW k, k = n[i].key,
           NEW n2, OneEntryLess(n2, n, i)
    PROVE  Dict(n2) = Less(Dict(n), k)
<1> USE DEF OneEntryLess
<1>0. \A a, b \in DOMAIN n : n[a].key = n[b].key => a = b
  BY KeysDiffer
<1> DEFINE D == DOMAIN Dict(n) \ {k}
           d == [x \in D |-> Dict(n)[x]]
<1>1. \A x : x \in DOMAIN Dict(n) <=> \E j \in DOMAIN n : n[j].key = x
  BY <1>0, DictHas
<1>2. \A j \in DOMAIN n : Dict(n)[n[j].key] = n[j].value
  BY <1>0, DictHas
<1>3. ASSUME NEW x PROVE x \in D <=> \E l \in DOMAIN n2 : n2[l].key = x
  <2>1. ASSUME x \in D PROVE \E l \in DOMAIN n2 : n2[l].key = x
    <3>1. PICK j \in DOMAIN n : n[j].key = x
      BY <1>1, <2>1
    <3>2. j # i
      BY <1>0, <2>1, <3>1
    <3> QED BY <3>1, <3>2
  <2>2. ASSUME NEW l \in DOMAIN n2, n2[l].key = x PROVE x \in D
    <3>1. PICK j \in DOMAIN n : j # i /\ n2[l].key = n[j].key
      BY <2>2
    <3> QED BY <1>0, <1>1, <2>2, <3>1
  <2> QED BY <2>1, <2>2
<1>4. ASSUME NEW l \in DOMAIN n2 PROVE d[n2[l].key] = n2[l].value
  <2>1. PICK j \in DOMAIN n : j # i /\ n2[l].key = n[j].key /\ n2[l].value = n[j].value
    OBVIOUS
  <2>2. n[j].key \in D
    BY <1>3, <2>1
  <2>3. d[n[j].key] = Dict(n)[n[j].key]
    BY <2>2
  <2> QED BY <1>2, <2>1, <2>3
<1>5. d = [x \in D |-> d[x]]
  OBVIOUS
<1> HIDE DEF d, D
<1>6. Dict(n2) = d
  BY <1>3, <1>4, <1>5, DictIs
<1> QED BY <1>6 DEF d, D, Less

(* A node with at most one child taken out, and c in its place.            *)
CutOut(n, p, i, k, c) == Taken(IF p = NoNode THEN n ELSE SetChild(n, p, k, c), i)

(* The tree without the node is a search tree without its entry.           *)
LEMMA NodeUnlinked ==
    ASSUME NEW m \in Nat, NEW n, NEW r, SearchTree(n, m, r), NEW i \in DOMAIN n, NEW k, k = n[i].key,
           NEW c, c = IfNone(n[i].left, n[i].right, n[i].left), n[i].left = NoNode \/ n[i].right = NoNode,
           NEW p, p = SearchIn(n, m, r, k).above,
           NEW n2, n2 = CutOut(n, p, i, k, c),
           NEW r2, r2 = IfNone(p, c, r)
    PROVE  /\ SearchTree(n2, m, r2) /\ DOMAIN n2 = DOMAIN n \ {i}
           /\ Dict(n2) = Less(Dict(n), k)
<1> DEFINE N == DOMAIN n
           M == N \ {i}
           n1 == IF p = NoNode THEN n ELSE SetChild(n, p, k, c)
<1> USE DEF IfNone
<1>1. n \in [N -> Node] /\ N \in SUBSET (1..m)
  BY DEF SearchTree
<1>2. PICK sub : TreeAs(n, N, r, sub)
  BY DEF SearchTree
<1>3. NoNode \notin N /\ LinksInside(n, N) /\ Ordered(n, N, sub) /\ Nests(N, sub) /\ NoNode \in Nat /\ k \in Int
  BY <1>2 DEF TreeAs, LinksInside, NoNode
<1>4. c \in N \cup {NoNode} /\ c \in Nat
  BY <1>1, <1>3 DEF LinksInside
<1>5. OnlyChild(n, N, i, c)
  <2> HIDE DEF N
  <2>1. i \in N
    BY DEF N
  <2> QED BY <1>3, <1>4, <2>1 DEF OnlyChild, IsChild, LinksInside
<1>6. PICK x : x = SearchIn(n, m, r, k)
  OBVIOUS
<1>7. x.node = i /\ x.above = p /\ Fits(n, N, r, sub, k, x)
  <2>1. x.node = i /\ r # NoNode
    BY <1>6, SearchFinds
  <2>2. Fits(n, N, r, sub, k, x)
    BY <1>1, <1>2, <1>3, <1>6, <2>1, SearchEnds
  <2> QED BY <1>6, <2>1, <2>2
<1>8. (p = NoNode /\ i = r) \/ (p \in N /\ p # NoNode /\ Child(n, p, k) = i)
  BY <1>3, <1>7 DEF Fits
<1>9. p # NoNode => IsChild(n, i, p) /\ r # i /\ p # i
  <2> SUFFICES ASSUME p # NoNode PROVE IsChild(n, i, p) /\ r # i /\ p # i
    OBVIOUS
  <2>1. p \in N /\ IsChild(n, i, p)
    BY <1>8 DEF Child, IsChild
  <2> QED BY <1>2, <2>1, OneParent
<1>10. \A a \in N : IsChild(n, i, a) => p # NoNode /\ a = p
  <2> SUFFICES ASSUME NEW a \in N, IsChild(n, i, a) PROVE p # NoNode /\ a = p
    OBVIOUS
  <2>1. i # r
    BY <1>2, OneParent
  <2>2. p \in N /\ p # NoNode
    BY <1>8, <2>1
  <2>3. \A b \in N : IsChild(n, i, b) => b = a
    BY <1>2, OneParent
  <2> QED BY <1>9, <2>2, <2>3
<1>11. p # NoNode => (k < n[p].key <=> n[p].left = i) /\ (~(k < n[p].key) <=> n[p].right = i)
  <2> SUFFICES ASSUME p # NoNode PROVE (k < n[p].key <=> n[p].left = i) /\ (~(k < n[p].key) <=> n[p].right = i)
    OBVIOUS
  <2>1. p \in N /\ Child(n, p, k) = i /\ i \in sub[i] /\ n[p].key \in Int
    BY <1>3, <1>8 DEF Nests, LinksInside
  <2>2. (n[p].left = i => k < n[p].key) /\ (n[p].right = i => n[p].key < k)
    BY <1>3, <2>1 DEF Ordered
  <2> QED BY <1>3, <2>1, <2>2 DEF Child
<1>12. /\ n1 \in [N -> Node] /\ DOMAIN n1 = N
       /\ \A a \in N : /\ n1[a].key = n[a].key /\ n1[a].value = n[a].value
                       /\ n1[a].left = (IF n[a].left = i THEN c ELSE n[a].left)
                       /\ n1[a].right = (IF n[a].right = i THEN c ELSE n[a].right)
  <2>1. CASE p = NoNode
    <3>1. \A a \in N : n[a].left # i /\ n[a].right # i
      BY <1>10, <2>1 DEF IsChild
    <3> QED BY <1>1, <2>1, <3>1
  <2>2. CASE p # NoNode
    <3>1. n1 = SetChild(n, p, k, c) /\ p \in N
      BY <1>8, <2>2
    <3> HIDE DEF n1
    <3>2. /\ n1 \in [N -> Node] /\ DOMAIN n1 = N
          /\ \A a \in N :
                /\ n1[a].key = n[a].key /\ n1[a].value = n[a].value
                /\ n1[a].left = (IF a = p /\ k < n[a].key THEN c ELSE n[a].left)
                /\ n1[a].right = (IF a = p /\ ~(k < n[a].key) THEN c ELSE n[a].right)
      BY <1>1, <1>4, <3>1, ChildSet
    <3>3. ASSUME NEW a \in N
          PROVE  (n[a].left = i <=> a = p /\ k < n[a].key) /\ (n[a].right = i <=> a = p /\ ~(k < n[a].key))
      BY <1>10, <1>11, <2>2 DEF IsChild
    <3> HIDE DEF N
    <3> QED BY <3>2, <3>3
  <2> QED BY <2>1, <2>2
<1>13. n2 = [j \in M |-> n1[j]]
  BY <1>12 DEF Taken, CutOut
<1> HIDE DEF n1
<1>14. n2 \in [M -> Node] /\ DOMAIN n2 = M /\ \A a \in M : n2[a] = n1[a]
  BY <1>12, <1>13
<1>15. \E sub2 : TreeAs(n2, M, r2, sub2)
  <2> DEFINE sub2 == [a \in M |-> sub[a] \ {i}]
  <2>1. OneLess(sub2, sub, M, i)
    BY DEF OneLess
  <2>2. GivesPlace(n2, n, M, i, c)
    BY <1>12, <1>14 DEF GivesPlace
  <2>3. r2 = IF r = i THEN c ELSE r
    BY <1>8, <1>9
  <2>4. i \in N /\ M = N \ {i}
    OBVIOUS
  <2> HIDE DEF sub2, N, M
  <2>5. TreeAs(n2, M, r2, sub2)
    BY <1>2, <1>5, <2>1, <2>2, <2>3, <2>4, PlaceGiven
  <2> QED BY <2>5
<1>16. \A a, b \in N : n[a].key = n[b].key => a = b
  BY KeysDiffer
<1>17. Dict(n2) = Less(Dict(n), k)
  <2>1. \A j \in M : n2[j].key = n[j].key /\ n2[j].value = n[j].value
    BY <1>12, <1>14
  <2>2. \A a, b \in DOMAIN n2 : n2[a].key = n2[b].key => a = b
    BY <1>14, <1>16, <2>1
  <2>3. \A j \in DOMAIN n : j # i => \E l \in DOMAIN n2 : n2[l].key = n[j].key /\ n2[l].value = n[j].value
    BY <1>14, <2>1
  <2>4. \A l \in DOMAIN n2 : \E j \in DOMAIN n : j # i /\ n2[l].key = n[j].key /\ n2[l].value = n[j].value
    BY <1>14, <2>1
  <2>5. OneEntryLess(n2, n, i)
    BY <2>2, <2>3, <2>4 DEF OneEntryLess
  <2> QED BY <2>5, DictLess
<1> QED BY <1>1, <1>14, <1>15, <1>17 DEF SearchTree

(* The way to the successor ends at the leftmost node on the right.        *)
Leftmost(n, m, i) == Down(m, [above |-> i, node |-> n[i].right], [j \in DOMAIN n |-> n[j].left])

(* It does: for a node with a right child, there is one with no left       *)
(* child.                                                                  *)
LEMMA SuccessorEnds ==
    ASSUME NEW m \in Nat, NEW n, n \in [DOMAIN n -> Node], DOMAIN n \in SUBSET (1..m), NEW r, NEW sub,
           TreeAs(n, DOMAIN n, r, sub), NEW i \in DOMAIN n, n[i].right # NoNode,
           NEW at, at = Leftmost(n, m, i)
    PROVE  at.node \in DOMAIN n /\ FitsLeft(n, DOMAIN n, sub, i, at) /\ n[at.node].left = NoNode
<1> DEFINE N == DOMAIN n
           below == [j \in N |-> n[j].left]
           top == [above |-> i, node |-> n[i].right]
           R == {x \in Ways(m, N) : FitsLeft(n, N, sub, i, x)}
<1> USE DEF Ways
<1>1. LinksInside(n, N) /\ Nests(N, sub) /\ Ordered(n, N, sub) /\ NoNode \notin N
      /\ NoNode \in Nat /\ \A j \in N : j \in Nat
  BY DEF TreeAs, NoNode
<1>2. below \in [N -> N \cup {NoNode}] /\ n[i].right \in N
  BY <1>1 DEF LinksInside
<1>3. ASSUME NEW a \in N, below[a] # NoNode
      PROVE  a \notin sub[below[a]] /\ \A x \in sub[below[a]] : x \in sub[a]
  <2> DEFINE c == below[a]
  <2>1. c \in N /\ c = n[a].left
    BY <1>2, <1>3
  <2>2. IsChild(n, c, a)
    BY <2>1 DEF IsChild
  <2> HIDE DEF c, below
  <2>3. a \notin sub[c] /\ c \in sub[a]
    BY <2>1, <2>2, OneParent
  <2> QED BY <1>1, <2>1, <2>3 DEF Nests, c
<1>4. top \in R
  <2>1. FitsLeft(n, N, sub, i, top)
    BY <1>1, <1>2 DEF FitsLeft, IsChild, Nests
  <2> QED BY <1>1, <1>2, <2>1
<1>5. ASSUME NEW x \in R, below[x.node] # NoNode PROVE [above |-> x.node, node |-> below[x.node]] \in R
  <2> DEFINE y == [above |-> x.node, node |-> below[x.node]]
  <2>1. x.node \in N /\ FitsLeft(n, N, sub, i, x)
    OBVIOUS
  <2>2. below[x.node] \in N /\ below[x.node] = n[x.node].left
    BY <1>2, <1>5, <2>1
  <2> HIDE DEF below
  <2>3. FitsLeft(n, N, sub, i, y)
    BY <1>2, <2>1, <2>2, FitsLeftOn
  <2> QED BY <1>1, <2>1, <2>2, <2>3
<1>6. at = Down(m, top, below)
  BY DEF Leftmost
<1> HIDE DEF below, top
<1>7. R \in SUBSET Ways(m, N) /\ N \in SUBSET (1..m) /\ \A a \in N : a \in sub[a]
  BY <1>1 DEF Nests
<1> HIDE DEF R
<1>8. at \in R /\ below[at.node] = NoNode
  <2>1. Leads(N, sub, below)
    BY <1>3, <1>7 DEF Leads
  <2>2. StaysIn(R, below)
    BY <1>5 DEF StaysIn
  <2> HIDE DEF N, Ways
  <2>3. Down(m, top, below) \in R /\ below[Down(m, top, below).node] = NoNode
    BY <1>2, <1>4, <1>7, <2>1, <2>2, DownEnds
  <2> QED BY <1>6, <2>3
<1> QED BY <1>1, <1>8 DEF R, below

(* The successor s of i gives its place to its right child, and i takes    *)
(* its key.                                                                *)
LEMMA SuccessorGivesKey ==
    ASSUME NEW n, NEW N, NEW r, NEW sub, TreeAs(n, N, r, sub), NEW i \in N, n[i].right # NoNode,
           NEW at, FitsLeft(n, N, sub, i, at), NEW s \in N, s = at.node, n[s].left = NoNode,
           NEW M, M = N \ {s}, NEW n1, GivesPlace(n1, n, M, s, n[s].right), NEW k, k = n[s].key,
           NEW n2, TakesKey(n2, n1, M, i, k), NEW sub2, OneLess(sub2, sub, M, s)
    PROVE  TreeAs(n2, M, r, sub2)
<1>1. LinksInside(n, N) /\ Nests(N, sub) /\ OnItsSide(n, N, sub) /\ Ordered(n, N, sub) /\ NoNode \notin N
  BY DEF TreeAs
<1>2. n[i].right \in N /\ s \in sub[n[i].right] /\ IsChild(n, s, at.above) /\ at.above \in N
  BY <1>1 DEF LinksInside, FitsLeft
<1>3. s # r
  BY <1>2, OneParent
<1>4. s \in sub[i] /\ n[i].key < k /\ k \in Int
  BY <1>1, <1>2 DEF Ordered, LinksInside
<1>5. i \in M
  BY <1>1, <1>4 DEF LinksInside
<1>6. OnlyChild(n, N, s, n[s].right)
  BY <1>1 DEF OnlyChild, IsChild, LinksInside
<1>7. TreeAs(n1, M, r, sub2)
  <2>1. r = (IF r = s THEN n[s].right ELSE r)
    BY <1>3
  <2> QED BY <1>6, <2>1, PlaceGiven
<1>8. \A a \in M : n1[a].key = n[a].key /\ n[a].key \in Int /\ a \in N
  BY <1>1 DEF GivesPlace, LinksInside
<1>9. ASSUME NEW x \in sub[i], x # i, x # s PROVE n[x].key # k /\ (n[x].key < n[i].key <=> n[x].key < k)
  <2>1. x \in N /\ n[x].key \in Int /\ n[i].key \in Int /\ n[x].key # n[i].key
    BY <1>1, <1>9 DEF Nests, LinksInside, OnItsSide
  <2>2. CASE n[x].key < n[i].key
    BY <1>4, <2>1, <2>2
  <2>3. CASE ~(n[x].key < n[i].key)
    <3>1. x \in sub[n[i].right]
      BY <1>1, <1>9, <2>3 DEF OnItsSide, Child
    <3>2. s \in sub[s]
      BY <1>1 DEF Nests
    <3>3. x \in sub[s] \/ k < n[x].key
      BY <3>1, <3>2 DEF FitsLeft
    <3>4. x \in sub[s] => n[x].key # k /\ ~(n[x].key < k)
      BY <1>1, <1>9 DEF OnItsSide, Child
    <3> QED BY <1>4, <2>1, <2>3, <3>3, <3>4
  <2> QED BY <2>2, <2>3
<1>10. ASSUME NEW a \in N, i \in sub[a], a # i PROVE k # n[a].key /\ (n[i].key < n[a].key <=> k < n[a].key)
  <2>1. n[i].key # n[a].key /\ Child(n, a, n[i].key) \in N /\ i \in sub[Child(n, a, n[i].key)]
    BY <1>1, <1>10 DEF OnItsSide
  <2>2. s \in sub[Child(n, a, n[i].key)]
    BY <1>1, <1>4, <2>1 DEF Nests
  <2>3. n[a].key \in Int /\ n[i].key \in Int
    BY <1>1 DEF LinksInside
  <2>4. CASE n[i].key < n[a].key
    BY <1>1, <1>4, <2>1, <2>2, <2>3, <2>4 DEF Ordered, Child
  <2>5. CASE ~(n[i].key < n[a].key)
    BY <1>1, <1>4, <2>1, <2>2, <2>3, <2>5 DEF Ordered, Child
  <2> QED BY <2>4, <2>5
<1>11. SameOrder(n1, M, sub2, i, k)
  <2>1. \A a \in M : \A y : y \in sub2[a] <=> y \in sub[a] /\ y # s
    BY DEF OneLess
  <2>2. \A x \in sub[i] : x # s => x \in M
    BY <1>1 DEF Nests
  <2> QED BY <1>5, <1>8, <1>9, <1>10, <2>1, <2>2 DEF SameOrder
<1> QED BY <1>4, <1>5, <1>7, <1>11, KeyTaken

(* The nodes without the successor of i, which gave its entry to i.        *)
Bypassed(n, i, at) ==
    IF at.node = n[i].right THEN [n EXCEPT ![i].right = n[at.node].right]
                            ELSE [n EXCEPT ![at.above].left = n[at.node].right]
GaveEntry(n, i, at) ==
    Taken([Bypassed(n, i, at) EXCEPT ![i].key = n[at.node].key, ![i].value = n[at.node].value], at.node)

(* They are a search tree without the entry that i had.                    *)
LEMMA SuccessorTaken ==
    ASSUME NEW m \in Nat, NEW n, NEW r, SearchTree(n, m, r), NEW i \in DOMAIN n, NEW k, k = n[i].key,
           n[i].right # NoNode, NEW at, at = Leftmost(n, m, i), NEW n2, n2 = GaveEntry(n, i, at)
    PROVE  /\ SearchTree(n2, m, r) /\ at.node \in DOMAIN n /\ DOMAIN n2 = DOMAIN n \ {at.node}
           /\ Dict(n2) = Less(Dict(n), k)
<1> DEFINE N == DOMAIN n
           s == at.node
           c == n[s].right
           M == N \ {s}
           n1 == Bypassed(n, i, at)
<1>1. n \in [N -> Node] /\ N \in SUBSET (1..m)
  BY DEF SearchTree
<1>2. PICK sub : TreeAs(n, N, r, sub)
  BY DEF SearchTree
<1>3. LinksInside(n, N) /\ Ordered(n, N, sub) /\ Nests(N, sub) /\ NoNode \notin N
  BY <1>2 DEF TreeAs
<1>4. s \in N /\ FitsLeft(n, N, sub, i, at) /\ n[s].left = NoNode
  BY <1>1, <1>2, SuccessorEnds
<1>5. PICK w \in N : w = at.above
  BY <1>4 DEF FitsLeft
<1>6. IsChild(n, s, w) /\ \A a \in N : IsChild(n, s, a) => a = w
  <2>1. IsChild(n, s, w)
    BY <1>4, <1>5 DEF FitsLeft
  <2> QED BY <1>2, <1>4, <2>1, OneParent
<1>7. \A a \in N : ~(n[a].left = s /\ n[a].right = s)
  <2>1. s \in sub[s] /\ \A a \in N : n[a].key \in Int
    BY <1>3, <1>4 DEF Nests, LinksInside
  <2> QED BY <1>3, <1>4, <2>1 DEF Ordered
<1>8. s # i
  <2>1. n[i].right \in N
    BY <1>3 DEF LinksInside
  <2>2. s \in sub[n[i].right] /\ n[i].key \in Int
    BY <1>3, <1>4 DEF FitsLeft, LinksInside
  <2> QED BY <1>3, <2>1, <2>2 DEF Ordered
<1>9. c \in Nat /\ n[s].key \in TreeKeys /\ n[s].value \in TreeVals
  BY <1>1, <1>4 DEF Node
<1>10. /\ n1 \in [N -> Node] /\ DOMAIN n1 = N
       /\ \A a \in N : /\ n1[a].key = n[a].key /\ n1[a].value = n[a].value
                       /\ n1[a].left = (IF n[a].left = s THEN c ELSE n[a].left)
                       /\ n1[a].right = (IF n[a].right = s THEN c ELSE n[a].right)
  <2>1. CASE s = n[i].right
    <3>1. i = w
      BY <1>6, <2>1 DEF IsChild
    <3>2. n1 = [n EXCEPT ![i].right = c]
      BY <2>1 DEF Bypassed
    <3>3. /\ n1 \in [N -> Node] /\ DOMAIN n1 = N
          /\ \A a \in N : /\ n1[a].key = n[a].key /\ n1[a].value = n[a].value /\ n1[a].left = n[a].left
                          /\ n1[a].right = (IF a = i THEN c ELSE n[a].right)
      BY <1>1, <1>9, <3>2 DEF Node
    <3>4. \A a \in N : (n[a].right = s <=> a = i) /\ n[a].left # s
      BY <1>6, <1>7, <2>1, <3>1 DEF IsChild
    <3> QED BY <3>3, <3>4
  <2>2. CASE s # n[i].right
    <3>1. n[w].left = s
      BY <1>4, <1>5, <2>2 DEF FitsLeft
    <3>2. n1 = [n EXCEPT ![w].left = c]
      BY <1>5, <2>2 DEF Bypassed
    <3>3. /\ n1 \in [N -> Node] /\ DOMAIN n1 = N
          /\ \A a \in N : /\ n1[a].key = n[a].key /\ n1[a].value = n[a].value /\ n1[a].right = n[a].right
                          /\ n1[a].left = (IF a = w THEN c ELSE n[a].left)
      BY <1>1, <1>9, <3>2 DEF Node
    <3>4. \A a \in N : (n[a].left = s <=> a = w) /\ n[a].right # s
      BY <1>6, <1>7, <3>1 DEF IsChild
    <3> QED BY <3>3, <3>4
  <2> QED BY <2>1, <2>2
<1>11. n2 = Taken([n1 EXCEPT ![i].key = n[s].key, ![i].value = n[s].value], s)
  BY DEF GaveEntry
<1> HIDE DEF n1
<1>12. PICK n3 : n3 = [n1 EXCEPT ![i].key = n[s].key, ![i].value = n[s].value]
  OBVIOUS
<1>13. /\ n3 \in [N -> Node] /\ DOMAIN n3 = N
       /\ \A a \in N : /\ n3[a].key = (IF a = i THEN n[s].key ELSE n1[a].key)
                       /\ n3[a].value = (IF a = i THEN n[s].value ELSE n1[a].value)
                       /\ n3[a].left = n1[a].left /\ n3[a].right = n1[a].right
  <2>1. PICK n4 : n4 = [n1 EXCEPT ![i].key = n[s].key]
    OBVIOUS
  <2>2. n3 = [n4 EXCEPT ![i].value = n[s].value]
    BY <1>12, <2>1
  <2>3. /\ n4 \in [N -> Node] /\ DOMAIN n4 = N
        /\ \A a \in N : /\ n4[a].key = (IF a = i THEN n[s].key ELSE n1[a].key) /\ n4[a].value = n1[a].value
                        /\ n4[a].left = n1[a].left /\ n4[a].right = n1[a].right
    BY <1>9, <1>10, <2>1 DEF Node
  <2>4. \A a \in N : /\ n3[a].key = n4[a].key /\ n3[a].value = (IF a = i THEN n[s].value ELSE n4[a].value)
                     /\ n3[a].left = n4[a].left /\ n3[a].right = n4[a].right
    BY <2>2, <2>3 DEF Node
  <2>5. n3 \in [N -> Node] /\ DOMAIN n3 = N
    BY <1>9, <2>2, <2>3 DEF Node
  <2> QED BY <2>3, <2>4, <2>5
<1>14. n2 = [j \in M |-> n3[j]]
  BY <1>11, <1>12, <1>13 DEF Taken
<1>15. n2 \in [M -> Node] /\ DOMAIN n2 = M /\ \A a \in M : n2[a] = n3[a]
  BY <1>13, <1>14
<1>16. \E sub2 : TreeAs(n2, M, r, sub2)
  <2>1. PICK sub2 : sub2 = [a \in M |-> sub[a] \ {s}]
    OBVIOUS
  <2>2. OneLess(sub2, sub, M, s)
    BY <2>1 DEF OneLess
  <2>3. GivesPlace(n1, n, M, s, n[s].right)
    BY <1>10 DEF GivesPlace
  <2>4. TakesKey(n2, n1, M, i, n[s].key)
    BY <1>13, <1>15 DEF TakesKey
  <2>5. i \in N /\ s = at.node /\ M = N \ {s}
    OBVIOUS
  <2>6. TreeAs(n2, M, r, sub2)
    <3> HIDE DEF N, s, M
    <3> QED BY <1>2, <1>4, <2>2, <2>3, <2>4, <2>5, SuccessorGivesKey
  <2> QED BY <2>6
<1>17. \A a, b \in N : n[a].key = n[b].key => a = b
  BY KeysDiffer
<1>18. Dict(n2) = Less(Dict(n), k)
  <2>1. /\ n2[i].key = n[s].key /\ n2[i].value = n[s].value /\ i \in M
        /\ \A a \in M : a # i => n2[a].key = n[a].key /\ n2[a].value = n[a].value
    BY <1>8, <1>10, <1>13, <1>15
  <2>2. \A a, b \in DOMAIN n2 : n2[a].key = n2[b].key => a = b
    BY <1>4, <1>15, <1>17, <2>1
  <2>3. \A j \in N : j # i => \E l \in DOMAIN n2 : n2[l].key = n[j].key /\ n2[l].value = n[j].value
    BY <1>15, <2>1
  <2>4. \A l \in DOMAIN n2 : \E j \in N : j # i /\ n2[l].key = n[j].key /\ n2[l].value = n[j].value
    BY <1>4, <1>8, <1>15, <2>1
  <2>5. OneEntryLess(n2, n, i)
    BY <2>2, <2>3, <2>4 DEF OneEntryLess
  <2> QED BY <2>5, DictLess
<1> QED BY <1>1, <1>4, <1>15, <1>16, <1>18 DEF SearchTree

(* There are as many entries as nodes.                                     *)
LEMMA DictSize ==
    ASSUME NEW m \in Nat, NEW n, NEW r, SearchTree(n, m, r)
    PROVE  /\ IsFiniteSet(DOMAIN n)
           /\ Cardinality(DOMAIN Dict(n)) = Cardinality(DOMAIN n)
<1> DEFINE f == [i \in DOMAIN n |-> n[i].key]
<1>1. IsFiniteSet(DOMAIN n)
  <2>1. DOMAIN n \in SUBSET (1..m) /\ IsFiniteSet(1..m)
    BY FS_Interval DEF SearchTree
  <2> QED BY <2>1, FS_Subset
<1>2. DOMAIN Dict(n) = {n[j].key : j \in DOMAIN n}
  BY DEF Dict
<1>3. \A a, b \in DOMAIN n : n[a].key = n[b].key => a = b
  BY KeysDiffer
<1>4. f \in Bijection(DOMAIN n, DOMAIN Dict(n))
  BY <1>2, <1>3 DEF Bijection, Injection, Surjection, IsInjective
<1>5. ExistsBijection(DOMAIN n, DOMAIN Dict(n))
  BY <1>4 DEF ExistsBijection
<1> QED BY <1>1, <1>5, FS_Bijection

(* What is free is no node, and is free once.                              *)
FreeSlots(f, m, n) ==
    /\ f \in Seq(1..m)
    /\ \A a \in 1..Len(f) : f[a] \notin DOMAIN n
    /\ \A a, b \in 1..Len(f) : f[a] = f[b] => a = b

(* The nodes are a search tree, as many as are counted, and none is free.  *)
TreeInv ==
    /\ slots \in Nat /\ SearchTree(nodes, slots, root)
    /\ tlen = Cardinality(DOMAIN nodes)
    /\ FreeSlots(tfree, slots, nodes)

(* An index taken out of the nodes may be free.                            *)
LEMMA FreeSlotsMore ==
    ASSUME NEW m \in Nat, NEW n, NEW f, FreeSlots(f, m, n), NEW i \in DOMAIN n, i \in 1..m,
           NEW n2, DOMAIN n2 = DOMAIN n \ {i}
    PROVE  FreeSlots(Append(f, i), m, n2)
<1>1. f \in Seq(1..m) /\ Len(f) \in Nat /\ i \in 1..m
  BY DEF FreeSlots
<1>2. PICK g : g = Append(f, i)
  OBVIOUS
<1>3. /\ g \in Seq(1..m) /\ Len(g) = Len(f) + 1 /\ g[Len(f) + 1] = i
      /\ \A a \in 1..Len(f) : g[a] = f[a]
  BY <1>1, <1>2
<1>4. \A a \in 1..Len(g) : a \in 1..Len(f) \/ a = Len(f) + 1
  BY <1>1, <1>3
<1>5. \A a \in 1..Len(g) : g[a] \notin DOMAIN n2
  BY <1>3, <1>4 DEF FreeSlots
<1>6. \A a, b \in 1..Len(g) : g[a] = g[b] => a = b
  BY <1>3, <1>4 DEF FreeSlots
<1> QED BY <1>2, <1>3, <1>5, <1>6 DEF FreeSlots

(* A slot for one more node.                                               *)
LEMMA SlotAllocated ==
    ASSUME TreeInv, TakesSlot, NEW i, i = AllocSlot
    PROVE  /\ slots' \in Nat /\ slots <= slots' /\ i \in 1..slots' /\ i \notin DOMAIN nodes
           /\ (DOMAIN nodes' = DOMAIN nodes \cup {i}) => FreeSlots(tfree', slots', nodes')
<1>1. slots \in Nat /\ DOMAIN nodes \in SUBSET (1..slots) /\ tfree \in Seq(1..slots) /\ Len(tfree) \in Nat
      /\ \A a \in 1..Len(tfree) : tfree[a] \notin DOMAIN nodes
  BY DEF TreeInv, FreeSlots, SearchTree
<1>2. CASE tfree = <<>>
  <2>1. slots' = slots + 1 /\ tfree' = <<>> /\ i = slots + 1
    BY <1>2 DEF TakesSlot, AllocSlot
  <2>2. FreeSlots(tfree', slots', nodes')
    BY <1>1, <2>1 DEF FreeSlots
  <2> QED BY <1>1, <2>1, <2>2
<1>3. CASE tfree # <<>>
  <2>1. PICK l \in Nat : l = Len(tfree)
    BY <1>1
  <2>2. l >= 1
    BY <1>1, <1>3, <2>1
  <2>3. slots' = slots /\ tfree' = SubSeq(tfree, 1, l - 1) /\ i = tfree[l]
    BY <1>3, <2>1 DEF TakesSlot, AllocSlot
  <2>4. i \in 1..slots /\ i \notin DOMAIN nodes
    BY <1>1, <2>1, <2>2, <2>3
  <2>5. /\ tfree' \in Seq(1..slots) /\ Len(tfree') = l - 1
        /\ \A a \in 1 .. l - 1 : tfree'[a] = tfree[a]
    BY <1>1, <2>1, <2>2, <2>3
  <2>6. \A a \in 1 .. l - 1 : a \in 1..Len(tfree) /\ tfree[a] # tfree[l]
    BY <2>1, <2>2 DEF TreeInv, FreeSlots
  <2>7. ASSUME DOMAIN nodes' = DOMAIN nodes \cup {i} PROVE FreeSlots(tfree', slots', nodes')
    <3>1. \A a \in 1..Len(tfree') : tfree'[a] \notin DOMAIN nodes'
      BY <1>1, <2>3, <2>5, <2>6, <2>7
    <3>2. \A a, b \in 1..Len(tfree') : tfree'[a] = tfree'[b] => a = b
      BY <2>5, <2>6 DEF TreeInv, FreeSlots
    <3> QED BY <2>3, <2>5, <3>1, <3>2 DEF FreeSlots
  <2> QED BY <1>1, <2>3, <2>4, <2>7
<1> QED BY <1>2, <1>3

(* What a search finds.                                                    *)
LEMMA EntriesAre ==
    /\ TreeInv => Entries = Dict(nodes)
    /\ TreeInv' => Entries' = Dict(nodes')
<1>1. TreeInv => Entries = Dict(nodes)
  BY EntriesIn DEF TreeInv, Entries, InTree, Search, SearchIn
<1>2. TreeInv' => Entries' = Dict(nodes')
  BY EntriesIn DEF TreeInv, Entries, InTree, Search, SearchIn
<1> QED BY <1>1, <1>2

(* A key is in the tree when it has an entry, and the search is at its     *)
(* node; else no node has it.                                              *)
LEMMA Looks ==
    ASSUME TreeInv, NEW k \in TreeKeys
    PROVE  /\ InTree(k) <=> k \in DOMAIN Entries
           /\ InTree(k) => /\ Search(k).node \in DOMAIN nodes /\ nodes[Search(k).node].key = k
                           /\ Entries[k] = nodes[Search(k).node].value
           /\ ~InTree(k) => \A j \in DOMAIN nodes : nodes[j].key # k
           /\ Search(k) = SearchIn(nodes, slots, root, k)
<1>1. Search(k) = SearchIn(nodes, slots, root, k)
  BY DEF Search, SearchIn
<1>2. slots \in Nat /\ SearchTree(nodes, slots, root) /\ k \in Int
  BY TreeAssumption DEF TreeInv
<1>3. ASSUME InTree(k) PROVE Search(k).node \in DOMAIN nodes /\ nodes[Search(k).node].key = k
  <2>1. PICK sub : TreeAs(nodes, DOMAIN nodes, root, sub)
    BY <1>2 DEF SearchTree
  <2>2. root # NoNode /\ nodes[Search(k).node].key = k
    BY <1>3 DEF InTree
  <2> QED BY <1>1, <1>2, <2>1, <2>2, SearchEnds DEF SearchTree
<1>4. ASSUME ~InTree(k), NEW j \in DOMAIN nodes, nodes[j].key = k PROVE FALSE
  <2>1. root # NoNode /\ SearchIn(nodes, slots, root, k).node = j
    BY <1>2, <1>4, SearchFinds
  <2> QED BY <1>1, <1>4, <2>1 DEF InTree
<1>5. InTree(k) <=> k \in DOMAIN Entries
  BY DEF Entries
<1>6. InTree(k) => Entries[k] = nodes[Search(k).node].value
  BY DEF Entries
<1> QED BY <1>1, <1>3, <1>4, <1>5, <1>6

(* The empty tree is the empty map.                                        *)
LEMMA TreeStarts ==
    ASSUME TreeInit
    PROVE  TreeInv /\ MapSpec!Init
<1>1. slots = 0 /\ root = NoNode /\ tlen = 0 /\ tfree = <<>> /\ nodes = [i \in {} |-> NoNode] /\ DOMAIN nodes = {}
      /\ tlast = <<"init", "null", "null">>
  BY DEF TreeInit
<1>2. SearchTree(nodes, slots, root)
  <2>1. PICK sub : sub = [a \in {} |-> {}]
    OBVIOUS
  <2>2. TreeAs(nodes, {}, root, sub)
    BY <1>1 DEF TreeAs, LinksInside, Nests, OnItsSide, Ordered, ByParents, Rooted
  <2> QED BY <1>1, <2>2 DEF SearchTree
<1>3. Cardinality({}) = 0
  BY FS_EmptySet
<1>4. FreeSlots(tfree, slots, nodes)
  BY <1>1 DEF FreeSlots
<1>5. TreeInv
  BY <1>1, <1>2, <1>3, <1>4 DEF TreeInv
<1>6. Entries = [k \in {} |-> "null"]
  BY <1>1 DEF Entries, InTree
<1> QED BY <1>1, <1>5, <1>6 DEF MapSpec!Init

(* A call that finds nothing to change.                                    *)
LEMMA TreeKept ==
    ASSUME TreeInv, UNCHANGED <<nodes, slots, root, tlen, tfree>>
    PROVE  TreeInv' /\ UNCHANGED Entries
<1>1. TreeInv'
  BY DEF TreeInv, FreeSlots, SearchTree, TreeAs, LinksInside, Nests, OnItsSide, Ordered, ByParents, Rooted, IsChild, Child
<1>2. Entries' = Entries
  BY <1>1, EntriesAre
<1> QED BY <1>1, <1>2

(* insert puts one entry, in a node that has the key or in a leaf.         *)
LEMMA InsertMaps ==
    ASSUME TreeInv, NEW k \in TreeKeys, NEW v \in TreeVals, Insert(k, v)
    PROVE  TreeInv' /\ MapSpec!Insert(k, v)
<1>1. slots \in Nat /\ SearchTree(nodes, slots, root) /\ tlen = Cardinality(DOMAIN nodes) /\ FreeSlots(tfree, slots, nodes)
  BY DEF TreeInv
<1>2. TreeInv' /\ Dict(nodes') = More(Dict(nodes), k, v)
  <2>1. CASE InTree(k)
    <3>1. PICK i : i = Search(k).node
      OBVIOUS
    <3>2. i \in DOMAIN nodes /\ nodes[i].key = k
      BY <2>1, <3>1, Looks
    <3>3. nodes' = Revalued(nodes, i, v) /\ slots' = slots /\ root' = root /\ tlen' = tlen /\ tfree' = tfree
      BY <2>1, <3>1 DEF Insert, Replaces, Revalued
    <3>4. SearchTree(nodes', slots, root) /\ DOMAIN nodes' = DOMAIN nodes /\ Dict(nodes') = More(Dict(nodes), k, v)
      BY <1>1, <3>2, <3>3, ValueReplaced
    <3>5. FreeSlots(tfree', slots', nodes')
      BY <1>1, <3>3, <3>4 DEF FreeSlots
    <3> QED BY <1>1, <3>3, <3>4, <3>5 DEF TreeInv
  <2>2. CASE ~InTree(k)
    <3>1. PICK i : i = AllocSlot
      OBVIOUS
    <3>2. PICK at : at = SearchIn(nodes, slots, root, k).node
      OBVIOUS
    <3>3. /\ TakesSlot /\ tlen' = tlen + 1 /\ root' = IfNone(root, i, root)
          /\ nodes' = Hung(nodes, root, at, i, k, v)
      BY <2>2, <3>1, <3>2, Looks DEF Insert, Adds, Hung, IfNone
    <3>4. /\ slots' \in Nat /\ slots <= slots' /\ i \in 1..slots' /\ i \notin DOMAIN nodes
          /\ (DOMAIN nodes' = DOMAIN nodes \cup {i}) => FreeSlots(tfree', slots', nodes')
      BY <3>1, <3>3, SlotAllocated
    <3>5. \A j \in DOMAIN nodes : nodes[j].key # k
      BY <2>2, Looks
    <3>6. SearchTree(nodes', slots', root') /\ DOMAIN nodes' = DOMAIN nodes \cup {i} /\ Dict(nodes') = More(Dict(nodes), k, v)
      <4>1. slots \in Nat /\ SearchTree(nodes, slots, root)
        BY <1>1
      <4>2. PICK n2, m2, r2 : n2 = nodes' /\ m2 = slots' /\ r2 = root'
        OBVIOUS
      <4>3. /\ n2 = Hung(nodes, root, at, i, k, v) /\ r2 = IfNone(root, i, root)
            /\ m2 \in Nat /\ slots <= m2 /\ i \in 1..m2 /\ i \notin DOMAIN nodes
        BY <3>3, <3>4, <4>2
      <4>4. /\ SearchTree(n2, m2, r2) /\ DOMAIN n2 = DOMAIN nodes \cup {i}
            /\ Dict(n2) = More(Dict(nodes), k, v)
        BY <3>2, <3>5, <4>1, <4>3, LeafAdded
      <4> QED BY <4>2, <4>4
    <3>7. tlen' = Cardinality(DOMAIN nodes')
      <4>1. IsFiniteSet(DOMAIN nodes)
        BY <1>1, DictSize
      <4> QED BY <1>1, <3>3, <3>4, <3>6, <4>1, FS_AddElement
    <3> QED BY <3>4, <3>6, <3>7 DEF TreeInv
  <2> QED BY <2>1, <2>2
<1>3. Entries = Dict(nodes) /\ Entries' = Dict(nodes')
  BY <1>2, EntriesAre
<1>4. tlast' = <<"insert", k, "null">>
  BY DEF Insert
<1>5. Entries' = [x \in DOMAIN Entries \cup {k} |-> IF x = k THEN v ELSE Entries[x]]
  BY <1>2, <1>3 DEF More
<1> QED BY <1>2, <1>4, <1>5 DEF MapSpec!Insert

(* get answers with the entry.                                             *)
LEMMA GetMaps ==
    ASSUME TreeInv, NEW k \in TreeKeys, Get(k)
    PROVE  TreeInv' /\ MapSpec!Get(k)
<1>1. TreeInv' /\ UNCHANGED Entries
  BY TreeKept DEF Get
<1>2. tlast' = <<"get", k, IF InTree(k) THEN nodes[Search(k).node].value ELSE "null">>
  BY DEF Get
<1>3. (InTree(k) <=> k \in DOMAIN Entries) /\ (InTree(k) => Entries[k] = nodes[Search(k).node].value)
  BY Looks
<1>4. MapSpec!Found(k) = (IF InTree(k) THEN nodes[Search(k).node].value ELSE "null")
  BY <1>3 DEF MapSpec!Found
<1> QED BY <1>1, <1>2, <1>4 DEF MapSpec!Get

(* remove takes out one entry, by way of one child or of the successor,    *)
(* and frees one index.                                                    *)
LEMMA RemoveMaps ==
    ASSUME TreeInv, NEW k \in TreeKeys, RemoveKey(k)
    PROVE  TreeInv' /\ MapSpec!Remove(k)
<1>1. slots \in Nat /\ SearchTree(nodes, slots, root) /\ tlen = Cardinality(DOMAIN nodes) /\ FreeSlots(tfree, slots, nodes)
  BY DEF TreeInv
<1>2. Entries = Dict(nodes)
  BY EntriesAre
<1>3. CASE ~InTree(k)
  <2>1. TreeInv' /\ UNCHANGED Entries /\ tlast' = <<"remove", k, "null">>
    BY <1>3, TreeKept DEF RemoveKey
  <2>2. k \notin DOMAIN Entries
    BY <1>3, Looks
  <2>3. Entries = [x \in DOMAIN Entries |-> Entries[x]]
    BY DEF Entries
  <2>4. Entries' = [x \in DOMAIN Entries \ {k} |-> Entries[x]]
    BY <2>1, <2>2, <2>3
  <2>5. MapSpec!Found(k) = "null"
    BY <2>2 DEF MapSpec!Found
  <2> QED BY <2>1, <2>4, <2>5 DEF MapSpec!Remove
<1>4. CASE InTree(k)
  <2>1. PICK i : i = Search(k).node
    OBVIOUS
  <2>2. i \in DOMAIN nodes /\ k = nodes[i].key /\ Entries[k] = nodes[i].value /\ k \in DOMAIN Entries
    BY <1>4, <2>1, Looks
  <2>3. tlen' = tlen - 1 /\ slots' = slots /\ tlast' = <<"remove", k, nodes[i].value>>
    BY <1>4, <2>1 DEF RemoveKey
  <2>4. \E j \in DOMAIN nodes : /\ SearchTree(nodes', slots, root') /\ DOMAIN nodes' = DOMAIN nodes \ {j}
                                /\ Dict(nodes') = Less(Dict(nodes), k) /\ tfree' = Append(tfree, j)
    <3>1. CASE nodes[i].left = NoNode \/ nodes[i].right = NoNode
      <4>1. PICK p : p = SearchIn(nodes, slots, root, k).above
        OBVIOUS
      <4>2. PICK c : c = IfNone(nodes[i].left, nodes[i].right, nodes[i].left)
        OBVIOUS
      <4>3. Unlinks(p, i, k)
        BY <1>4, <2>1, <3>1, <4>1, Looks DEF RemoveKey
      <4>4. /\ nodes' = CutOut(nodes, p, i, k, c)
            /\ root' = IfNone(p, c, root) /\ tfree' = Append(tfree, i)
        BY <4>2, <4>3 DEF Unlinks, CutOut, IfNone
      <4>5. /\ SearchTree(nodes', slots, root') /\ DOMAIN nodes' = DOMAIN nodes \ {i}
            /\ Dict(nodes') = Less(Dict(nodes), k)
        <5>1. slots \in Nat /\ SearchTree(nodes, slots, root)
          BY <1>1
        <5>2. i \in DOMAIN nodes /\ k = nodes[i].key
          BY <2>2
        <5>3. PICK n2, r2 : n2 = nodes' /\ r2 = root'
          OBVIOUS
        <5>4. n2 = CutOut(nodes, p, i, k, c) /\ r2 = IfNone(p, c, root)
          BY <4>4, <5>3
        <5>5. /\ SearchTree(n2, slots, r2) /\ DOMAIN n2 = DOMAIN nodes \ {i}
              /\ Dict(n2) = Less(Dict(nodes), k)
          BY <5>1, <5>2, <3>1, <4>1, <4>2, <5>4, NodeUnlinked
        <5> QED BY <5>3, <5>5
      <4> QED BY <2>2, <4>4, <4>5
    <3>2. CASE ~(nodes[i].left = NoNode \/ nodes[i].right = NoNode)
      <4>1. PICK at : at = Leftmost(nodes, slots, i)
        OBVIOUS
      <4>2. TakesSuccessor(i)
        BY <1>4, <2>1, <3>2 DEF RemoveKey
      <4>3. nodes' = GaveEntry(nodes, i, at) /\ root' = root /\ tfree' = Append(tfree, at.node)
        BY <4>1, <4>2 DEF TakesSuccessor, Successor, Leftmost, GaveEntry, Bypassed
      <4>4. /\ SearchTree(nodes', slots, root) /\ at.node \in DOMAIN nodes /\ DOMAIN nodes' = DOMAIN nodes \ {at.node}
            /\ Dict(nodes') = Less(Dict(nodes), k)
        <5>1. slots \in Nat /\ SearchTree(nodes, slots, root)
          BY <1>1
        <5>2. i \in DOMAIN nodes /\ k = nodes[i].key /\ nodes[i].right # NoNode
          BY <2>2, <3>2
        <5>3. nodes' = GaveEntry(nodes, i, at)
          BY <4>3
        <5> QED BY <5>1, <5>2, <4>1, <5>3, SuccessorTaken
      <4> QED BY <4>3, <4>4
    <3> QED BY <3>1, <3>2
  <2>5. PICK j \in DOMAIN nodes : /\ SearchTree(nodes', slots, root') /\ DOMAIN nodes' = DOMAIN nodes \ {j}
                                  /\ Dict(nodes') = Less(Dict(nodes), k) /\ tfree' = Append(tfree, j)
    BY <2>4
  <2>6. FreeSlots(tfree', slots', nodes')
    <3>1. j \in 1..slots
      BY <1>1 DEF SearchTree
    <3> QED BY <1>1, <2>3, <2>5, <3>1, FreeSlotsMore
  <2>7. tlen' = Cardinality(DOMAIN nodes')
    <3>1. IsFiniteSet(DOMAIN nodes)
      BY <1>1, DictSize
    <3> QED BY <1>1, <2>3, <2>5, <3>1, FS_RemoveElement
  <2>8. TreeInv'
    BY <1>1, <2>3, <2>5, <2>6, <2>7 DEF TreeInv
  <2>9. Entries' = [x \in DOMAIN Entries \ {k} |-> Entries[x]]
    BY <1>2, <2>5, <2>8, EntriesAre DEF Less
  <2>10. MapSpec!Found(k) = nodes[i].value
    BY <2>2 DEF MapSpec!Found
  <2> QED BY <2>3, <2>8, <2>9, <2>10 DEF MapSpec!Remove
<1> QED BY <1>3, <1>4

(* len is the number of entries.                                           *)
LEMMA CountMaps ==
    ASSUME TreeInv, CountTree
    PROVE  TreeInv' /\ MapSpec!Count
<1>1. TreeInv' /\ UNCHANGED Entries /\ tlast' = <<"len", "null", tlen>>
  BY TreeKept DEF CountTree
<1>2. tlen = Cardinality(DOMAIN Entries)
  <2>1. Entries = Dict(nodes)
    BY EntriesAre
  <2>2. Cardinality(DOMAIN Dict(nodes)) = Cardinality(DOMAIN nodes) /\ tlen = Cardinality(DOMAIN nodes)
    BY DictSize DEF TreeInv
  <2> QED BY <2>1, <2>2
<1> QED BY <1>1, <1>2 DEF MapSpec!Count, MapSpec!Cardinality, Cardinality

(* clear leaves no entry.                                                  *)
LEMMA ClearMaps ==
    ASSUME ClearTree
    PROVE  TreeInv' /\ MapSpec!Clear
<1>1. slots' = 0 /\ root' = NoNode /\ tlen' = 0 /\ tfree' = <<>> /\ nodes' = [i \in {} |-> NoNode] /\ DOMAIN nodes' = {}
      /\ tlast' = <<"clear", "null", "null">>
  BY DEF ClearTree
<1>2. SearchTree(nodes', slots', root')
  <2>1. PICK sub : sub = [a \in {} |-> {}]
    OBVIOUS
  <2>2. TreeAs(nodes', {}, root', sub)
    BY <1>1 DEF TreeAs, LinksInside, Nests, OnItsSide, Ordered, ByParents, Rooted
  <2> QED BY <1>1, <2>2 DEF SearchTree
<1>3. Cardinality({}) = 0
  BY FS_EmptySet
<1>4. FreeSlots(tfree', slots', nodes')
  BY <1>1 DEF FreeSlots
<1>5. TreeInv'
  BY <1>1, <1>2, <1>3, <1>4 DEF TreeInv
<1>6. Entries' = [k \in {} |-> "null"]
  BY <1>1 DEF Entries, InTree
<1> QED BY <1>1, <1>5, <1>6 DEF MapSpec!Clear

(* Every step keeps the tree and is a step of the map.                     *)
LEMMA TreeStepMaps ==
    TreeInv /\ [TreeNext]_treeVars => TreeInv' /\ [MapSpec!Next]_(MapSpec!vars)
<1> SUFFICES ASSUME TreeInv, [TreeNext]_treeVars PROVE TreeInv' /\ [MapSpec!Next]_(MapSpec!vars)
  OBVIOUS
<1>1. ASSUME NEW k \in TreeKeys, Get(k) PROVE TreeInv' /\ MapSpec!Next
  BY <1>1, GetMaps DEF MapSpec!Next
<1>2. ASSUME NEW k \in TreeKeys, RemoveKey(k) PROVE TreeInv' /\ MapSpec!Next
  BY <1>2, RemoveMaps DEF MapSpec!Next
<1>3. ASSUME NEW k \in TreeKeys, NEW v \in TreeVals, Insert(k, v) PROVE TreeInv' /\ MapSpec!Next
  BY <1>3, InsertMaps DEF MapSpec!Next
<1>4. CASE CountTree
  BY <1>4, CountMaps DEF MapSpec!Next
<1>5. CASE ClearTree
  BY <1>5, ClearMaps DEF MapSpec!Next
<1>6. CASE UNCHANGED treeVars
  <2>1. TreeInv' /\ UNCHANGED <<Entries, tlast>>
    BY <1>6, TreeKept DEF treeVars
  <2> QED BY <2>1 DEF MapSpec!vars
<1> QED BY <1>1, <1>2, <1>3, <1>4, <1>5, <1>6 DEF TreeNext

(* `ds_treemap`: whatever is inserted and removed, the occupied nodes are  *)
(* a search tree under the root, len is their number, and the free indices *)
(* are unoccupied and different: no index is handed out twice.             *)
THEOREM NodesAlwaysATree == TreeSpec => []TreeInv
<1>1. TreeInit => TreeInv
  BY TreeStarts
<1>2. TreeInv /\ [TreeNext]_treeVars => TreeInv'
  BY TreeStepMaps
<1> QED BY <1>1, <1>2, PTL DEF TreeSpec

(* `ds_treemap` is a map, for all integer keys and all values: insert,     *)
(* get, contains, remove, len and clear answer as those of a function from *)
(* the keys put in and not taken out, through all the ways in which a node *)
(* is replaced.                                                            *)
THEOREM TreeImplementsMap == TreeSpec => TreeIsMap
<1>1. TreeInit => MapSpec!Init
  BY TreeStarts
<1>2. TreeInv /\ [TreeNext]_treeVars => [MapSpec!Next]_(MapSpec!vars)
  BY TreeStepMaps
<1> QED BY <1>1, <1>2, NodesAlwaysATree, PTL DEF TreeSpec, TreeIsMap, MapSpec!Spec

-----------------------------------------------------------------------------
(* The common part ends before the bound or where the bytes differ.        *)
LEMMA CommonIs ==
    ASSUME NEW d, NEW i \in Nat, NEW j \in Nat, NEW n \in Nat
    PROVE  /\ Common(d, i, j, n) \in 0..n
           /\ \A x \in 0 .. Common(d, i, j, n) - 1 : d[i + x] = d[j + x]
<1> DEFINE T == {k \in 0..n : k = n \/ d[i + k] # d[j + k]}
<1>1. T \in SUBSET Nat /\ T # {}
  <2>1. n \in T
    OBVIOUS
  <2> QED BY <2>1
<1>2. PICK k \in T : \A y \in T : k <= y
  <2> HIDE DEF T
  <2> QED BY <1>1, LeastNumber
<1>3. ASSUME NEW x \in 0 .. k - 1 PROVE d[i + x] = d[j + x]
  <2>1. x \notin T /\ x \in 0..n /\ x # n
    BY <1>2
  <2> QED BY <2>1
<1>4. k \in 0..n /\ (k = n \/ d[i + k] # d[j + k])
  OBVIOUS
<1> HIDE DEF T
<1>5. \E q \in 0..n : (\A x \in 0 .. q - 1 : d[i + x] = d[j + x]) /\ (q = n \/ d[i + q] # d[j + q])
  BY <1>3, <1>4
<1> QED BY <1>5 DEF Common

(* The longest run a token can tell.                                       *)
LEMMA RunIs ==
    ASSUME NEW S, NEW d \in Seq(S), NEW i \in 1..Len(d)
    PROVE  /\ RunAt(d, i) \in 1..Width /\ RunAt(d, i) <= Len(d) - i + 1
           /\ \A x \in 0 .. RunAt(d, i) - 1 : d[i + x] = d[i]
<1> DEFINE most == Least(Width, Len(d) - i + 1)
           T == {k \in 1..most : k = most \/ d[i + k] # d[i]}
<1>1. most \in Nat /\ most >= 1 /\ most <= Width /\ most <= Len(d) - i + 1 /\ Width \in Nat /\ i \in Nat
  BY LzAssumption DEF Least
<1>2. RunAt(d, i) = CHOOSE k \in 1..most : /\ \A x \in 0 .. k - 1 : d[i + x] = d[i]
                                           /\ k = most \/ d[i + k] # d[i]
  BY DEF RunAt
<1> HIDE DEF most
<1>3. T \in SUBSET Nat /\ T # {}
  <2>1. most \in T
    BY <1>1
  <2> QED BY <1>1, <2>1
<1>4. PICK k \in T : \A y \in T : k <= y
  <2> HIDE DEF T
  <2> QED BY <1>3, LeastNumber
<1>5. ASSUME NEW x \in 0 .. k - 1 PROVE d[i + x] = d[i]
  <2>1. CASE x = 0
    BY <1>1, <2>1
  <2>2. CASE x # 0
    <3>1. x \notin T /\ x \in 1..most
      BY <1>1, <1>4, <2>2
    <3>2. x # most
      BY <1>1, <3>1
    <3> QED BY <3>1, <3>2
  <2> QED BY <2>1, <2>2
<1>6. k \in 1..most /\ (k = most \/ d[i + k] # d[i])
  OBVIOUS
<1> HIDE DEF T
<1>7. \E q \in 1..most : (\A x \in 0 .. q - 1 : d[i + x] = d[i]) /\ (q = most \/ d[i + q] # d[i])
  BY <1>5, <1>6
<1>8. RunAt(d, i) \in 1..most /\ \A x \in 0 .. RunAt(d, i) - 1 : d[i + x] = d[i]
  BY <1>2, <1>7
<1> HIDE <1>2
<1> QED BY <1>1, <1>8

(* A match is before i, in sight of the search, and no longer than a token *)
(* can tell.                                                               *)
LEMMA MatchIs ==
    ASSUME NEW S, NEW d \in Seq(S), NEW i \in 1..Len(d), NEW m, m = LongestMatch(d, i), m[1] >= MinMatch
    PROVE  /\ m[1] \in MinMatch..MaxMatch /\ m[1] <= Len(d) - i + 1
           /\ m[2] \in 1 .. i - 1 /\ m[2] <= Window
           /\ \A x \in 0 .. m[1] - 1 : d[(i - m[2]) + x] = d[i + x]
<1> DEFINE ahead == Least(Len(d) - i + 1, MaxMatch)
           from  == IF Least(i - 1, Window) > Scan THEN i - Scan ELSE i - Least(i - 1, Window)
           at(j) == Common(d, j, i, Least(ahead, i - j))
           better(j, k) == at(k) < at(j) \/ (at(k) = at(j) /\ j <= k)
           best  == CHOOSE j \in from .. i - 1 : \A k \in from .. i - 1 : better(j, k)
<1>1. m = IF from = i \/ at(best) = 0 THEN <<0, 0>> ELSE <<at(best), i - best>>
  BY DEF LongestMatch
<1>2. ahead \in Nat /\ ahead <= MaxMatch /\ ahead <= Len(d) - i + 1 /\ i \in Nat
  BY LzAssumption DEF Least, MaxMatch
<1>3. from \in 1..i /\ i - from <= Window /\ Window \in Nat
  BY LzAssumption DEF Least
<1>4. ASSUME NEW j \in from .. i - 1
      PROVE  /\ at(j) \in Nat /\ at(j) <= ahead
             /\ \A x \in 0 .. at(j) - 1 : d[j + x] = d[i + x]
  <2>1. j \in Nat /\ Least(ahead, i - j) \in Nat /\ Least(ahead, i - j) <= ahead
    BY <1>2, <1>3 DEF Least
  <2>2. /\ at(j) \in 0 .. Least(ahead, i - j)
        /\ \A x \in 0 .. at(j) - 1 : d[j + x] = d[i + x]
    BY <1>2, <2>1, CommonIs
  <2> HIDE DEF at
  <2> QED BY <1>2, <2>1, <2>2
<1> HIDE DEF ahead, from, at
<1>5. ASSUME from # i PROVE best \in from .. i - 1
  <2> DEFINE T == {at(j) : j \in from .. i - 1}
  <2>1. T \in SUBSET Nat /\ T # {} /\ \A x \in T : x <= ahead
    <3>1. i - 1 \in from .. i - 1
      BY <1>2, <1>3, <1>5
    <3> QED BY <1>4, <3>1
  <2>2. PICK x \in T : \A y \in T : y <= x
    <3> HIDE DEF T
    <3> QED BY <1>2, <2>1, GreatestNumber
  <2> DEFINE U == {j \in from .. i - 1 : at(j) = x}
  <2>3. U \in SUBSET Nat /\ U # {}
    BY <1>3, <2>2
  <2>4. PICK j \in U : \A k \in U : j <= k
    <3> HIDE DEF U
    <3> QED BY <2>3, LeastNumber
  <2>5. ASSUME NEW k \in from .. i - 1 PROVE better(j, k)
    <3>1. at(k) \in T /\ at(k) <= x /\ at(j) = x /\ at(k) \in Nat /\ x \in Nat
      BY <1>4, <2>1, <2>2, <2>4
    <3>2. at(k) = x => j <= k
      BY <2>4
    <3> QED BY <3>1, <3>2
  <2>6. j \in from .. i - 1
    BY <2>4
  <2> HIDE DEF U, T, better
  <2> QED BY <2>5, <2>6
<1> HIDE DEF best
<1>6. from # i /\ at(best) # 0 /\ m = <<at(best), i - best>>
  BY <1>1 DEF MinMatch
<1>7. best \in from .. i - 1 /\ i - (i - best) = best
  BY <1>2, <1>3, <1>5, <1>6
<1>8. /\ at(best) \in Nat /\ at(best) <= ahead
      /\ \A x \in 0 .. at(best) - 1 : d[best + x] = d[i + x]
  BY <1>4, <1>7
<1>9. m[1] = at(best) /\ m[2] = i - best /\ i - m[2] = best
  BY <1>6, <1>7
<1>10. at(best) <= Len(d) - i + 1 /\ at(best) <= MaxMatch /\ at(best) >= MinMatch /\ MaxMatch \in Nat /\ MinMatch \in Nat
  BY <1>2, <1>8, <1>9, LzAssumption DEF MinMatch, MaxMatch
<1>11. i - best \in 1 .. i - 1 /\ i - best <= Window
  BY <1>2, <1>3, <1>7
<1> QED BY <1>8, <1>9, <1>10, <1>11

(* A literal run is one byte long at least, and as long as a token can     *)
(* tell at most.                                                           *)
LEMMA LiteralsAre ==
    ASSUME NEW S, NEW d \in Seq(S), NEW i \in 1..Len(d)
    PROVE  Literals(d, i) \in 1..Width /\ Literals(d, i) <= Len(d) - i + 1
<1> DEFINE most == Least(Width, Len(d) - i + 1)
           stops == {k \in 0 .. most - 1 : Cheaper(d, i + k)} \cup {most}
<1>1. most \in Nat /\ most >= 1 /\ most <= Width /\ most <= Len(d) - i + 1 /\ Width \in Nat
  BY LzAssumption DEF Least
<1>2. Literals(d, i) = IF Min(stops) = 0 THEN 1 ELSE Min(stops)
  BY DEF Literals
<1> HIDE DEF most
<1>3. stops \in SUBSET Nat /\ stops # {} /\ \A x \in stops : x <= most
  BY <1>1
<1> HIDE DEF stops
<1>4. \E x \in stops : \A y \in stops : x <= y
  BY <1>3, LeastNumber
<1>5. Min(stops) \in stops
  BY <1>4 DEF Min
<1>6. Min(stops) \in Nat /\ Min(stops) <= most
  BY <1>3, <1>5
<1> QED BY <1>1, <1>2, <1>6

(* The first n bytes.                                                      *)
Prefix(d, n) == SubSeq(d, 1, n)

LEMMA PrefixIs ==
    ASSUME NEW S, NEW d \in Seq(S), NEW n \in 0..Len(d)
    PROVE  /\ Prefix(d, n) \in Seq(S) /\ Len(Prefix(d, n)) = n
           /\ \A k \in 1..n : Prefix(d, n)[k] = d[k]
<1>1. Len(d) \in Nat /\ \A k \in 1..n : d[k] \in S
  OBVIOUS
<1>2. Prefix(d, n) = [k \in 1..n |-> d[k]]
  BY <1>1 DEF Prefix
<1> QED BY <1>1, <1>2

LEMMA PrefixGrows ==
    ASSUME NEW S, NEW d \in Seq(S), NEW n \in 0 .. Len(d) - 1
    PROVE  Append(Prefix(d, n), d[n + 1]) = Prefix(d, n + 1)
<1>1. n \in 0..Len(d) /\ n + 1 \in 0..Len(d) /\ d[n + 1] \in S
  OBVIOUS
<1> DEFINE p == Prefix(d, n)
           a == Append(p, d[n + 1])
           b == Prefix(d, n + 1)
<1>2. p \in Seq(S) /\ Len(p) = n /\ \A k \in 1..n : p[k] = d[k]
  BY <1>1, PrefixIs
<1>3. b \in Seq(S) /\ Len(b) = n + 1 /\ \A k \in 1 .. n + 1 : b[k] = d[k]
  BY <1>1, PrefixIs
<1> HIDE DEF p, b
<1>4. a \in Seq(S) /\ Len(a) = n + 1 /\ a[n + 1] = d[n + 1] /\ \A k \in 1..n : a[k] = d[k]
  BY <1>1, <1>2, AppendProperties
<1> HIDE DEF a
<1>5. ASSUME NEW k \in 1 .. n + 1 PROVE a[k] = b[k]
  <2>1. k \in 1..n \/ k = n + 1
    OBVIOUS
  <2> QED BY <1>3, <1>4, <2>1
<1>6. a = b
  BY <1>3, <1>4, <1>5, SeqEqual
<1> QED BY <1>6 DEF a, b, p

LEMMA PrefixJoins ==
    ASSUME NEW S, NEW d \in Seq(S), NEW i \in 1..Len(d), NEW n \in 1 .. Len(d) - i + 1, NEW u \in Seq(S),
           Len(u) = n, \A k \in 1..n : u[k] = d[i + k - 1]
    PROVE  Prefix(d, i - 1) \o u = Prefix(d, i - 1 + n)
<1>1. i - 1 \in 0..Len(d) /\ i - 1 + n \in 0..Len(d)
  OBVIOUS
<1> DEFINE p == Prefix(d, i - 1)
           a == p \o u
           b == Prefix(d, i - 1 + n)
<1>2. p \in Seq(S) /\ Len(p) = i - 1 /\ \A k \in 1 .. i - 1 : p[k] = d[k]
  BY <1>1, PrefixIs
<1>3. b \in Seq(S) /\ Len(b) = i - 1 + n /\ \A k \in 1 .. i - 1 + n : b[k] = d[k]
  BY <1>1, PrefixIs
<1> HIDE DEF p, b
<1>4. /\ a \in Seq(S) /\ Len(a) = i - 1 + n
      /\ \A k \in 1 .. i - 1 + n : a[k] = IF k <= i - 1 THEN p[k] ELSE u[k - (i - 1)]
  <2>1. a \in Seq(S) /\ Len(a) = Len(p) + Len(u)
    BY <1>2, ConcatProperties
  <2>2. \A k \in 1 .. Len(p) + Len(u) : a[k] = IF k <= Len(p) THEN p[k] ELSE u[k - Len(p)]
    BY <1>2, ConcatProperties
  <2> HIDE DEF a
  <2> QED BY <1>2, <2>1, <2>2
<1> HIDE DEF a
<1>5. ASSUME NEW k \in 1 .. i - 1 + n PROVE a[k] = b[k]
  <2>1. CASE k <= i - 1
    BY <1>2, <1>3, <1>4, <2>1
  <2>2. CASE ~(k <= i - 1)
    <3>1. k - (i - 1) \in 1..n /\ i + (k - (i - 1)) - 1 = k
      BY <2>2
    <3>2. a[k] = u[k - (i - 1)]
      BY <1>4, <2>2
    <3>3. u[k - (i - 1)] = d[k]
      BY <3>1
    <3> QED BY <1>3, <3>2, <3>3
  <2> QED BY <2>1, <2>2
<1>6. a = b
  BY <1>3, <1>4, <1>5, SeqEqual
<1> QED BY <1>6 DEF a, b, p

(* No part of the data is taken for an error.                              *)
LEMMA NoError ==
    ASSUME NEW d \in Seq(Bytes), NEW n \in 0..Len(d)
    PROVE  Prefix(d, n) # Err
<1> SUFFICES ASSUME Prefix(d, n) = Err PROVE FALSE
  OBVIOUS
<1>1. Len(Err) = 1 /\ Err[1] = "error"
  BY DEF Err
<1>2. Len(Prefix(d, n)) = n /\ \A k \in 1..n : Prefix(d, n)[k] = d[k]
  BY PrefixIs
<1>3. n = 1 /\ d[1] = "error" /\ 1 \in 1..Len(d)
  BY <1>1, <1>2
<1>4. d[1] \in Bytes
  BY <1>3
<1> QED BY <1>3, <1>4, LzAssumption

(* Copying from where the same bytes are writes them once more.            *)
LEMMA CopiedIs ==
    ASSUME NEW S, NEW d \in Seq(S), NEW i \in 1..Len(d), NEW n \in 1 .. Len(d) - i + 1, NEW dist \in 1 .. i - 1,
           \A x \in 0 .. n - 1 : d[(i - dist) + x] = d[i + x]
    PROVE  Copied(Prefix(d, i - 1), dist, n) = Prefix(d, i - 1 + n)
<1> DEFINE p == Prefix(d, i - 1)
           Step(o, x) == Append(o, o[i - 1 - dist + x])
           g == [x \in 0..n |-> Prefix(d, i - 1 + x)]
           f == CHOOSE h : h = [x \in 0..n |-> IF x = 0 THEN p ELSE Step(h[x - 1], x)]
<1>1. i \in Nat /\ n \in Nat /\ dist \in Nat /\ Len(d) \in Nat
  OBVIOUS
<1>2. Len(p) = i - 1
  <2>1. i - 1 \in 0..Len(d)
    OBVIOUS
  <2> QED BY <2>1, PrefixIs
<1>3. Copied(p, dist, n) = f[n]
  BY <1>2 DEF Copied
<1>4. ASSUME NEW x \in 1..n PROVE Prefix(d, i - 1 + x) = Step(Prefix(d, i - 1 + (x - 1)), x)
  <2> DEFINE k == i - 1 + (x - 1)
             q == i - 1 - dist + x
  <2>1. k \in 0..Len(d) /\ k \in 0 .. Len(d) - 1 /\ q \in 1..k /\ k + 1 = i - 1 + x
    OBVIOUS
  <2>2. x - 1 \in 0 .. n - 1 /\ (i - dist) + (x - 1) = q /\ i + (x - 1) = k + 1
    OBVIOUS
  <2>3. d[q] = d[k + 1]
    BY <2>2
  <2> HIDE DEF k, q
  <2>4. Prefix(d, k)[q] = d[q]
    BY <2>1, PrefixIs
  <2>5. Append(Prefix(d, k), d[k + 1]) = Prefix(d, k + 1)
    BY <2>1, PrefixGrows
  <2> QED BY <2>1, <2>3, <2>4, <2>5 DEF k, q
<1> HIDE DEF Step
<1>5. g = [x \in 0..n |-> IF x = 0 THEN p ELSE Step(g[x - 1], x)]
  <2>1. ASSUME NEW x \in 0..n PROVE Prefix(d, i - 1 + x) = IF x = 0 THEN p ELSE Step(g[x - 1], x)
    <3>1. CASE x = 0
      <4>1. i - 1 + x = i - 1
        BY <3>1
      <4> QED BY <3>1, <4>1
    <3>2. CASE x # 0
      <4>1. x \in 1..n /\ x - 1 \in 0..n
        BY <3>2
      <4>2. g[x - 1] = Prefix(d, i - 1 + (x - 1))
        BY <4>1
      <4> QED BY <1>4, <3>2, <4>1, <4>2
    <3> QED BY <3>1, <3>2
  <2> HIDE DEF p
  <2> QED BY <2>1
<1> HIDE DEF g
<1>6. f = [x \in 0..n |-> IF x = 0 THEN p ELSE Step(f[x - 1], x)]
  BY <1>5
<1> HIDE DEF f
<1> DEFINE P == {x \in Nat : f[x] = g[x]}
<1>7. 0 \in P
  <2>1. 0 \in 0..n
    OBVIOUS
  <2> QED BY <1>5, <1>6, <2>1
<1>8. ASSUME NEW x \in 0 .. n - 1, x \in P PROVE x + 1 \in P
  <2>1. x + 1 \in 0..n /\ x + 1 # 0 /\ (x + 1) - 1 = x /\ x + 1 \in Nat
    OBVIOUS
  <2>2. f[x + 1] = Step(f[x], x + 1)
    BY <1>6, <2>1
  <2>3. g[x + 1] = Step(g[x], x + 1)
    BY <1>5, <2>1
  <2> QED BY <1>8, <2>1, <2>2, <2>3
<1>9. n \in P
  <2>1. \A x \in 0..n : x \in P
    <3> HIDE DEF P
    <3> QED BY <1>1, <1>7, <1>8, InductsTo
  <2> QED BY <1>1, <2>1
<1>10. g[n] = Prefix(d, i - 1 + n)
  BY <1>1 DEF g
<1> QED BY <1>3, <1>9, <1>10

(* n times v.                                                              *)
Repeated(n, v) == [x \in 1..n |-> v]

(* What is read of a token of each kind: a repeated byte,                  *)
LEMMA RunRead ==
    ASSUME NEW o, o # Err, NEW b, NEW v, NEW t, t[1] = "run", t[2] = b, t[3] = v
    PROVE  Decoded(o, t) = o \o Repeated(b + 1, v)
  BY DEF Decoded, Repeated

(* a literal run,                                                          *)
LEMMA LiteralRead ==
    ASSUME NEW o, o # Err, NEW b, NEW v, NEW t, t[1] = "lit", t[2] = b, t[3] = v, ~(b + 1 > Len(v))
    PROVE  Decoded(o, t) = o \o SubSeq(v, 1, b + 1)
  BY DEF Decoded

(* a reference back.                                                       *)
LEMMA ReferenceRead ==
    ASSUME NEW o, o # Err, NEW b, NEW v, NEW t, t[1] = "back", t[2] = b, t[3] = v, ~(v = 0 \/ v > Len(o))
    PROVE  Decoded(o, t) = Copied(o, v, b + MinMatch)
  BY DEF Decoded

(* A token stands for one byte at least, and is read as what it stands for.*)
LEMMA TokenIs ==
    ASSUME NEW d \in Seq(Bytes), NEW i \in 1..Len(d), NEW t, t = TokenAt(d, i)
    PROVE  /\ t.of \in 1 .. Len(d) - i + 1
           /\ Decoded(Prefix(d, i - 1), t.token) = Prefix(d, i - 1 + t.of)
<1> DEFINE run == RunAt(d, i)
           m == LongestMatch(d, i)
           lit == Literals(d, i)
           p == Prefix(d, i - 1)
<1>1. Len(d) \in Nat /\ i \in Nat /\ i - 1 \in 0..Len(d) /\ Width \in Nat \ {0}
  BY LzAssumption
<1>2. p # Err /\ Len(p) = i - 1
  BY <1>1, NoError, PrefixIs
<1>3. Byte(run - 1) = run - 1 /\ run \in 1..Width /\ run \in 1 .. Len(d) - i + 1 /\ \A x \in 0 .. run - 1 : d[i + x] = d[i]
  <2>1. run \in 1..Width /\ run <= Len(d) - i + 1 /\ \A x \in 0 .. run - 1 : d[i + x] = d[i]
    BY RunIs
  <2> HIDE DEF run
  <2> QED BY <1>1, <2>1 DEF Byte
<1>4. Byte(lit - 1) = lit - 1 /\ lit \in 1..Width /\ lit \in 1 .. Len(d) - i + 1
  <2>1. lit \in 1..Width /\ lit <= Len(d) - i + 1
    BY LiteralsAre
  <2> HIDE DEF lit
  <2> QED BY <1>1, <2>1 DEF Byte
<1>5. CASE run >= MinMatch
  <2>1. t = [of |-> run, token |-> <<"run", Byte(run - 1), d[i]>>]
    BY <1>5 DEF TokenAt
  <2> HIDE DEF run, p
  <2> DEFINE u == Repeated(run, d[i])
  <2>2. Decoded(p, t.token) = p \o u
    <3> DEFINE tt == t.token
    <3>1. tt = <<"run", run - 1, d[i]>> /\ (run - 1) + 1 = run
      BY <1>3, <2>1
    <3>2. tt[1] = "run" /\ tt[2] = run - 1 /\ tt[3] = d[i]
      BY <3>1
    <3> HIDE DEF tt
    <3>3. Decoded(p, tt) = p \o Repeated((run - 1) + 1, d[i])
      BY <1>2, <3>2, RunRead
    <3> QED BY <3>1, <3>3 DEF tt
  <2>3. u \in Seq(Bytes) /\ Len(u) = run
    BY <1>3 DEF Repeated
  <2>4. ASSUME NEW k \in 1..run PROVE u[k] = d[i + k - 1]
    <3>0. u[k] = d[i]
      BY DEF Repeated
    <3>1. k - 1 \in 0 .. run - 1 /\ i + (k - 1) = i + k - 1
      BY <1>1, <1>3
    <3>2. d[i + (k - 1)] = d[i]
      BY <1>3, <3>1
    <3> QED BY <3>0, <3>1, <3>2
  <2> HIDE DEF u
  <2>5. p \o u = Prefix(d, i - 1 + run)
    BY <1>3, <2>3, <2>4, PrefixJoins DEF p
  <2>6. t.of = run
    BY <2>1
  <2> QED BY <1>3, <2>2, <2>5, <2>6 DEF p
<1>6. CASE ~(run >= MinMatch) /\ Len(d) - i + 1 >= MinMatch /\ m[1] >= MinMatch
  <2>1. t = [of |-> m[1], token |-> <<"back", Byte(m[1] - 3), TwoBytes(m[2])>>]
    BY <1>6 DEF TokenAt
  <2>2. /\ m[1] \in MinMatch..MaxMatch /\ m[1] <= Len(d) - i + 1
        /\ m[2] \in 1 .. i - 1 /\ m[2] <= Window
        /\ \A x \in 0 .. m[1] - 1 : d[(i - m[2]) + x] = d[i + x]
    BY <1>6, MatchIs
  <2> HIDE DEF m, p, run
  <2>3. /\ Byte(m[1] - 3) = m[1] - 3 /\ (m[1] - 3) + MinMatch = m[1] /\ m[1] \in 1 .. Len(d) - i + 1
        /\ m[2] # 0 /\ ~(m[2] > i - 1)
    <3>1. PICK w \in Nat \ {0} : w = Width
      BY <1>1
    <3>2. PICK a \in 3 .. w + 2 : a = m[1]
      BY <2>2, <3>1 DEF MinMatch, MaxMatch
    <3>3. (a - 3) % w = a - 3 /\ (a - 3) + 3 = a
      BY <3>1, <3>2
    <3>4. a \in 1 .. Len(d) - i + 1
      BY <1>1, <2>2, <3>2
    <3>5. m[2] # 0 /\ ~(m[2] > i - 1)
      BY <1>1, <2>2
    <3> QED BY <3>1, <3>2, <3>3, <3>4, <3>5 DEF Byte, MinMatch
  <2>7. TwoBytes(m[2]) = m[2]
    <3>1. PICK q \in Nat : q = Width * Width
      BY <1>1
    <3>2. PICK w \in Nat : w = Window
      BY LzAssumption
    <3>3. PICK b \in Nat : b = m[2]
      BY <1>1, <2>2
    <3>4. w < q /\ b <= w
      BY <2>2, <3>1, <3>2, <3>3, LzAssumption
    <3>5. b % q = b
      BY <3>4, ModSmall
    <3> QED BY <3>1, <3>3, <3>5 DEF TwoBytes
  <2>4. t.token = <<"back", m[1] - 3, m[2]>> /\ t.of = m[1]
    BY <2>1, <2>3, <2>7
  <2>5. Decoded(p, t.token) = Copied(p, m[2], m[1])
    <3> DEFINE tt == t.token
    <3>1. tt[1] = "back" /\ tt[2] = m[1] - 3 /\ tt[3] = m[2]
      BY <2>4
    <3>2. ~(m[2] = 0 \/ m[2] > Len(p))
      BY <1>2, <2>3
    <3> HIDE DEF tt
    <3>3. Decoded(p, tt) = Copied(p, m[2], (m[1] - 3) + MinMatch)
      BY <1>2, <3>1, <3>2, ReferenceRead
    <3> QED BY <2>3, <3>3 DEF tt
  <2>6. Copied(p, m[2], m[1]) = Prefix(d, i - 1 + m[1])
    BY <2>2, <2>3, CopiedIs DEF p
  <2> QED BY <2>3, <2>4, <2>5, <2>6 DEF p
<1>7. CASE ~(run >= MinMatch) /\ ~(Len(d) - i + 1 >= MinMatch /\ m[1] >= MinMatch)
  <2> DEFINE u == SubSeq(d, i, i + lit - 1)
  <2>1. t = [of |-> lit, token |-> <<"lit", Byte(lit - 1), u>>]
    BY <1>7 DEF TokenAt
  <2> HIDE DEF lit, p, run, m
  <2>2. u \in Seq(Bytes) /\ Len(u) = lit /\ \A k \in 1..lit : u[k] = d[i + k - 1]
    <3>1. i + lit - 1 \in Int /\ i \in Int /\ i <= i + lit - 1 /\ (i + lit - 1) - i + 1 = lit
      BY <1>1, <1>4
    <3>2. \A k \in i .. i + lit - 1 : d[k] \in Bytes
      BY <1>1, <1>4
    <3>3. /\ u \in Seq(Bytes)
          /\ Len(u) = IF i <= i + lit - 1 THEN (i + lit - 1) - i + 1 ELSE 0
          /\ \A k \in 1 .. (i + lit - 1) - i + 1 : u[k] = d[i + k - 1]
      BY <3>1, <3>2, SubSeqProperties
    <3> HIDE DEF u
    <3> QED BY <3>1, <3>3
  <2> HIDE DEF u
  <2>3. t.token = <<"lit", lit - 1, u>> /\ (lit - 1) + 1 = lit /\ ~(lit > Len(u)) /\ t.of = lit
    BY <1>4, <2>1, <2>2
  <2>4. SubSeq(u, 1, lit) = u
    BY <2>2, SubSeqFull
  <2>5. Decoded(p, t.token) = p \o u
    <3> DEFINE tt == t.token
    <3>1. tt[1] = "lit" /\ tt[2] = lit - 1 /\ tt[3] = u
      BY <2>3
    <3> HIDE DEF tt
    <3>3. ~((lit - 1) + 1 > Len(u)) /\ p # Err
      BY <1>2, <2>3
    <3>2. Decoded(p, tt) = p \o SubSeq(u, 1, (lit - 1) + 1)
      BY <3>1, <3>3, LiteralRead
    <3> QED BY <2>3, <2>4, <3>2 DEF tt
  <2>6. p \o u = Prefix(d, i - 1 + lit)
    BY <1>4, <2>2, PrefixJoins DEF p
  <2> QED BY <1>4, <2>3, <2>5, <2>6 DEF p
<1> QED BY <1>5, <1>6, <1>7

(* The rounds of compress.                                                 *)
LEMMA RoundsAre ==
    ASSUME NEW d \in Seq(Bytes), NEW T, T = {TokenAt(d, i).token : i \in 1..Len(d)}
    PROVE  /\ \A n \in 0..Len(d) : Rounds(d)[n].out \in Seq(T) /\ Rounds(d)[n].at \in 1 .. Len(d) + 1
           /\ Rounds(d)[0].out = <<>> /\ Rounds(d)[0].at = 1
           /\ \A n \in 1..Len(d) :
                LET r == Rounds(d)[n - 1]
                    t == TokenAt(d, r.at)
                IN  IF r.at > Len(d) THEN Rounds(d)[n] = r
                    ELSE Rounds(d)[n].out = Append(r.out, t.token) /\ Rounds(d)[n].at = r.at + t.of
<1> DEFINE m == Len(d)
           S == [out : Seq(T), at : 1 .. m + 1]
           zero == [out |-> <<>>, at |-> 1]
           Step(r) == IF r.at > m THEN r
                      ELSE [out |-> Append(r.out, TokenAt(d, r.at).token), at |-> r.at + TokenAt(d, r.at).of]
           F == [n \in 1..m |-> [r \in S |-> Step(r)]]
<1>1. m \in Nat /\ zero \in S
  BY EmptySeq
<1>2. ASSUME NEW r \in S PROVE Step(r) \in S
  <2>1. r.out \in Seq(T) /\ r.at \in 1 .. m + 1
    OBVIOUS
  <2>2. CASE r.at > m
    BY <2>2
  <2>3. CASE ~(r.at > m)
    <3>1. r.at \in 1..m
      BY <1>1, <2>1, <2>3
    <3>2. TokenAt(d, r.at).of \in 1 .. m - r.at + 1 /\ TokenAt(d, r.at).token \in T
      BY <3>1, TokenIs
    <3>3. Append(r.out, TokenAt(d, r.at).token) \in Seq(T)
      BY <2>1, <3>2, AppendProperties
    <3>4. r.at + TokenAt(d, r.at).of \in 1 .. m + 1
      BY <1>1, <3>1, <3>2
    <3> QED BY <2>3, <3>3, <3>4
  <2> QED BY <2>2, <2>3
<1>3. F \in [1..m -> [S -> S]]
  <2> HIDE DEF Step, S
  <2> QED BY <1>2
<1>4. PICK g : FollowsTo(m, g, S, zero, F)
  <2> HIDE DEF F, m, S, zero
  <2> QED BY <1>1, <1>3, RecursTo
<1>5. g \in [0..m -> S] /\ \A n \in 0..m : g[n] = IF n = 0 THEN zero ELSE Step(g[n - 1])
  <2>1. g \in [0..m -> S] /\ \A n \in 0..m : g[n] = IF n = 0 THEN zero ELSE F[n][g[n - 1]]
    <3> HIDE DEF F, S, zero
    <3> QED BY <1>4 DEF FollowsTo
  <2>2. ASSUME NEW n \in 0..m, n # 0 PROVE F[n][g[n - 1]] = Step(g[n - 1])
    <3>1. n \in 1..m /\ n - 1 \in 0..m
      BY <1>1, <2>2
    <3>2. g[n - 1] \in S
      <4> HIDE DEF F, S
      <4> QED BY <2>1, <3>1
    <3> HIDE DEF S, Step
    <3> QED BY <3>1, <3>2
  <2> HIDE DEF F, S, zero, Step
  <2> QED BY <2>1, <2>2
<1> HIDE DEF F
<1> DEFINE f == CHOOSE h : h = [n \in 0..m |-> IF n = 0 THEN zero ELSE Step(h[n - 1])]
<1>6. Rounds(d) = f
  BY DEF Rounds
<1> HIDE DEF Step, zero, S
<1>7. g = [n \in 0..m |-> IF n = 0 THEN zero ELSE Step(g[n - 1])]
  BY <1>5
<1>8. f = [n \in 0..m |-> IF n = 0 THEN zero ELSE Step(f[n - 1])]
  BY <1>7
<1> HIDE DEF f
<1> DEFINE P == {n \in Nat : f[n] \in S}
<1>9. 0 \in P
  <2>1. 0 \in 0..m
    BY <1>1
  <2> QED BY <1>1, <1>8, <2>1
<1>10. ASSUME NEW n \in 0 .. m - 1, n \in P PROVE n + 1 \in P
  <2>1. n + 1 \in 0..m /\ n + 1 # 0 /\ (n + 1) - 1 = n /\ n + 1 \in Nat
    BY <1>1
  <2>2. f[n + 1] = Step(f[n])
    BY <1>8, <2>1
  <2> QED BY <1>2, <1>10, <2>1, <2>2
<1>11. \A n \in 0..m : f[n] \in S
  <2>1. \A n \in 0..m : n \in P
    <3> HIDE DEF P
    <3> QED BY <1>1, <1>9, <1>10, InductsTo
  <2> QED BY <2>1
<1>12. \A n \in 0..m : f[n].out \in Seq(T) /\ f[n].at \in 1 .. m + 1
  BY <1>11 DEF S
<1>13. f[0].out = <<>> /\ f[0].at = 1
  <2>1. 0 \in 0..m
    BY <1>1
  <2>2. f[0] = zero
    BY <1>8, <2>1
  <2> QED BY <2>2 DEF zero
<1>14. ASSUME NEW n \in 1..m
       PROVE  IF f[n - 1].at > m THEN f[n] = f[n - 1]
              ELSE /\ f[n].out = Append(f[n - 1].out, TokenAt(d, f[n - 1].at).token)
                   /\ f[n].at = f[n - 1].at + TokenAt(d, f[n - 1].at).of
  <2>1. n \in 0..m /\ n # 0
    BY <1>1
  <2>2. f[n] = Step(f[n - 1])
    BY <1>8, <2>1
  <2> QED BY <2>2 DEF Step
<1> QED BY <1>6, <1>12, <1>13, <1>14

(* The loop of decompress goes through ts, and has e out at its end.       *)
Passes(g, ts) == g = [k \in 0..Len(ts) |-> IF k = 0 THEN <<>> ELSE Decoded(g[k - 1], ts[k])]
Reads(ts, e) == \E g : Passes(g, ts) /\ g[Len(ts)] = e

(* No tokens are read as no bytes,                                         *)
LEMMA ReadsNothing == Reads(<<>>, <<>>)
<1> DEFINE g == [k \in 0..Len(<<>>) |-> <<>>]
<1>1. Len(<<>>) = 0
  OBVIOUS
<1>2. \A k \in 0..Len(<<>>) : k = 0
  BY <1>1
<1>3. Passes(g, <<>>)
  BY <1>2 DEF Passes
<1>4. g[Len(<<>>)] = <<>>
  BY <1>1
<1> HIDE DEF g
<1> QED BY <1>3, <1>4 DEF Reads

(* one more token is decoded after what is out before it,                  *)
LEMMA ReadsNext ==
    ASSUME NEW T, NEW ts \in Seq(T), NEW t \in T, NEW e, Reads(ts, e)
    PROVE  Reads(Append(ts, t), Decoded(e, t))
<1>1. PICK g : Passes(g, ts) /\ g[Len(ts)] = e
  BY DEF Reads
<1>2. PICK n \in Nat : n = Len(ts)
  OBVIOUS
<1> DEFINE more == Append(ts, t)
<1>3. Len(more) = n + 1 /\ more[n + 1] = t /\ \A k \in 1..n : more[k] = ts[k]
  BY <1>2, AppendProperties
<1> HIDE DEF more
<1> DEFINE h == [k \in 0 .. n + 1 |-> IF k <= n THEN g[k] ELSE Decoded(e, t)]
<1>4. \A k \in 0..n : g[k] = IF k = 0 THEN <<>> ELSE Decoded(g[k - 1], ts[k])
  BY <1>1, <1>2 DEF Passes
<1>5. ASSUME NEW k \in 0 .. n + 1
      PROVE  h[k] = IF k = 0 THEN <<>> ELSE Decoded(h[k - 1], more[k])
  <2>1. CASE k = 0
    <3>1. k \in 0..n /\ k <= n
      BY <2>1
    <3> QED BY <1>4, <2>1, <3>1
  <2>2. CASE k # 0 /\ k <= n
    <3>1. k \in 0..n /\ k \in 1..n /\ k - 1 \in 0 .. n + 1 /\ k - 1 <= n
      BY <2>2
    <3>2. h[k] = g[k] /\ h[k - 1] = g[k - 1]
      BY <2>2, <3>1
    <3>3. more[k] = ts[k]
      BY <1>3, <3>1
    <3> HIDE DEF h
    <3> QED BY <1>4, <2>2, <3>1, <3>2, <3>3
  <2>3. CASE k = n + 1
    <3>1. k # 0 /\ ~(k <= n) /\ k - 1 = n /\ n \in 0 .. n + 1 /\ n <= n
      BY <2>3
    <3>2. h[k] = Decoded(e, t) /\ h[k - 1] = g[n]
      BY <3>1
    <3> HIDE DEF h
    <3> QED BY <1>1, <1>2, <1>3, <2>3, <3>1, <3>2
  <2> QED BY <2>1, <2>2, <2>3
<1>6. Passes(h, more)
  <2> DEFINE c == [k \in 0 .. n + 1 |-> IF k = 0 THEN <<>> ELSE Decoded(h[k - 1], more[k])]
  <2>1. h = c
    <3>1. DOMAIN h = 0 .. n + 1 /\ DOMAIN c = 0 .. n + 1 /\ h = [k \in 0 .. n + 1 |-> h[k]]
      OBVIOUS
    <3> HIDE DEF h
    <3> QED BY <1>5, <3>1
  <2> HIDE DEF h
  <2> QED BY <1>3, <2>1 DEF Passes
<1>7. h[n + 1] = Decoded(e, t)
  BY <1>2
<1> HIDE DEF h
<1> QED BY <1>3, <1>6, <1>7 DEF Reads, more

(* and what is out at the end is what decompress returns.                  *)
LEMMA ReadsAll ==
    ASSUME NEW T, NEW ts \in Seq(T), NEW e, Reads(ts, e)
    PROVE  Decompress(ts) = e
<1>1. PICK g : Passes(g, ts) /\ g[Len(ts)] = e
  BY DEF Reads
<1>2. PICK n \in Nat : n = Len(ts)
  OBVIOUS
<1> DEFINE f == CHOOSE h : h = [k \in 0..Len(ts) |-> IF k = 0 THEN <<>> ELSE Decoded(h[k - 1], ts[k])]
<1>3. Decompress(ts) = f[Len(ts)]
  BY DEF Decompress
<1>4. f = [k \in 0..Len(ts) |-> IF k = 0 THEN <<>> ELSE Decoded(f[k - 1], ts[k])]
  BY <1>1 DEF Passes
<1> HIDE DEF f
<1>5. \A k \in 0..n : f[k] = IF k = 0 THEN <<>> ELSE Decoded(f[k - 1], ts[k])
  BY <1>2, <1>4
<1>6. \A k \in 0..n : g[k] = IF k = 0 THEN <<>> ELSE Decoded(g[k - 1], ts[k])
  BY <1>1, <1>2 DEF Passes
<1> DEFINE P == {k \in Nat : f[k] = g[k]}
<1>7. 0 \in P
  <2>1. 0 \in 0..n
    OBVIOUS
  <2> QED BY <1>5, <1>6, <2>1
<1>8. ASSUME NEW k \in 0 .. n - 1, k \in P PROVE k + 1 \in P
  <2>1. k + 1 \in 0..n /\ k + 1 # 0 /\ (k + 1) - 1 = k /\ k + 1 \in Nat
    OBVIOUS
  <2>2. f[k + 1] = Decoded(f[k], ts[k + 1])
    BY <1>5, <2>1
  <2>3. g[k + 1] = Decoded(g[k], ts[k + 1])
    BY <1>6, <2>1
  <2> QED BY <1>8, <2>1, <2>2, <2>3
<1>9. n \in P
  <2>1. \A k \in 0..n : k \in P
    <3> HIDE DEF P
    <3> QED BY <1>7, <1>8, InductsTo
  <2> QED BY <2>1
<1> QED BY <1>1, <1>2, <1>3, <1>9

(* After each round, the tokens are read as the bytes before the position. *)
LEMMA RoundsRead ==
    ASSUME NEW d \in Seq(Bytes), NEW n \in 0..Len(d)
    PROVE  Reads(Rounds(d)[n].out, Prefix(d, Rounds(d)[n].at - 1)) /\ Rounds(d)[n].at >= n + 1
<1> DEFINE T == {TokenAt(d, i).token : i \in 1..Len(d)}
           r(k) == Rounds(d)[k]
           Good(k) == Reads(r(k).out, Prefix(d, r(k).at - 1)) /\ r(k).at >= k + 1
           P == {k \in Nat : Good(k)}
<1>1. PICK m \in Nat : m = Len(d)
  OBVIOUS
<1>2. \A k \in 0..m : r(k).out \in Seq(T) /\ r(k).at \in 1 .. m + 1
  <2> HIDE DEF T
  <2> QED BY <1>1, RoundsAre DEF T
<1>3. r(0).out = <<>> /\ r(0).at = 1
  BY RoundsAre
<1>4. \A k \in 1..m : IF r(k - 1).at > m THEN r(k) = r(k - 1)
                      ELSE /\ r(k).out = Append(r(k - 1).out, TokenAt(d, r(k - 1).at).token)
                           /\ r(k).at = r(k - 1).at + TokenAt(d, r(k - 1).at).of
  BY <1>1, RoundsAre
<1> HIDE DEF r
<1>5. 0 \in P
  <2>1. Prefix(d, r(0).at - 1) = <<>>
    <3>1. r(0).at - 1 = 0 /\ 0 \in 0..Len(d)
      BY <1>1, <1>3
    <3>2. Prefix(d, 0) \in Seq(Bytes) /\ Len(Prefix(d, 0)) = 0
      BY <3>1, PrefixIs
    <3>3. Prefix(d, 0) = <<>>
      BY <3>2, EmptySeq
    <3> QED BY <3>1, <3>3
  <2> QED BY <1>3, <2>1, ReadsNothing
<1>6. ASSUME NEW k \in 0 .. m - 1, k \in P PROVE k + 1 \in P
  <2>1. k \in 0..m /\ k + 1 \in 1..m /\ k + 1 \in 0..m /\ (k + 1) - 1 = k /\ k + 1 \in Nat
    OBVIOUS
  <2>2. r(k).out \in Seq(T) /\ r(k).at \in 1 .. m + 1 /\ Good(k)
    <3> HIDE DEF T, Good
    <3> QED BY <1>2, <1>6, <2>1
  <2>3. CASE r(k).at > m
    <3>1. r(k + 1) = r(k)
      BY <1>4, <2>1, <2>3
    <3>2. r(k).at >= (k + 1) + 1
      BY <2>1, <2>3, <2>2
    <3> QED BY <2>1, <2>2, <3>1, <3>2
  <2>4. CASE ~(r(k).at > m)
    <3>1. PICK i \in 1..m : i = r(k).at
      BY <2>2, <2>4
    <3>2. PICK t : t = TokenAt(d, i)
      OBVIOUS
    <3>3. r(k + 1).out = Append(r(k).out, t.token) /\ r(k + 1).at = i + t.of
      BY <1>4, <2>1, <2>4, <3>1, <3>2
    <3>4. t.of \in 1 .. m - i + 1 /\ Decoded(Prefix(d, i - 1), t.token) = Prefix(d, i - 1 + t.of)
      BY <1>1, <3>1, <3>2, TokenIs
    <3>5. t.token \in T
      BY <1>1, <3>1, <3>2
    <3>6. Reads(r(k).out, Prefix(d, i - 1)) /\ i >= k + 1
      BY <2>2, <3>1
    <3>7. Reads(r(k + 1).out, Decoded(Prefix(d, i - 1), t.token))
      <4> HIDE DEF T
      <4> QED BY <2>2, <3>3, <3>5, <3>6, ReadsNext
    <3>8. i - 1 + t.of = r(k + 1).at - 1 /\ r(k + 1).at >= (k + 1) + 1
      <4>1. PICK w \in Nat \ {0} : w = t.of
        BY <3>4
      <4>2. i - 1 + w = (i + w) - 1 /\ i + w >= (k + 1) + 1
        BY <3>6
      <4> QED BY <3>3, <4>1, <4>2
    <3> QED BY <2>1, <3>4, <3>7, <3>8
  <2> QED BY <2>3, <2>4
<1>7. \A k \in 0..m : k \in P
  <2> HIDE DEF P
  <2> QED BY <1>5, <1>6, InductsTo
<1>8. Good(n)
  BY <1>1, <1>7
<1> QED BY <1>8 DEF r

(* The round trip, of any data.                                            *)
LEMMA RoundTrip ==
    ASSUME NEW d \in Seq(Bytes)
    PROVE  Decompress(Tokens(d)) = d
<1> DEFINE r == Rounds(d)[Len(d)]
           T == {TokenAt(d, i).token : i \in 1..Len(d)}
<1>1. Len(d) \in Nat /\ Len(d) \in 0..Len(d)
  OBVIOUS
<1>2. r.out \in Seq(T) /\ r.at \in 1 .. Len(d) + 1
  <2> HIDE DEF T
  <2> QED BY <1>1, RoundsAre DEF T
<1>3. Reads(r.out, Prefix(d, r.at - 1)) /\ r.at >= Len(d) + 1
  BY <1>1, RoundsRead
<1> HIDE DEF r, T
<1>4. r.at - 1 = Len(d)
  BY <1>1, <1>2, <1>3
<1>5. Prefix(d, Len(d)) = d
  BY SubSeqFull DEF Prefix
<1>6. Reads(r.out, d)
  BY <1>3, <1>4, <1>5
<1>7. Decompress(r.out) = d
  BY <1>2, <1>6, ReadsAll
<1> QED BY <1>7 DEF Tokens, r

(* compress and decompress are inverse on all data, of any length, however *)
(* far back the search looks and whatever number of values a length byte   *)
(* has: no run, match or literal is emitted that is longer than its token  *)
(* can tell, and every reference reaches bytes that are out already.       *)
THEOREM NothingIsLost == LzSpec => []LzRoundTrip
<1> DEFINE Typed == data \in Seq(Bytes)
<1>1. LzInit => Typed
  BY EmptySeq DEF LzInit
<1>2. Typed /\ [LzNext]_data => Typed'
  BY DEF LzNext
<1>3. Typed => LzRoundTrip
  BY RoundTrip DEF LzRoundTrip
<1> QED BY <1>1, <1>2, <1>3, PTL DEF LzSpec
=============================================================================
