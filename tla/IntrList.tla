------------------------------ MODULE IntrList ------------------------------
(***************************************************************************)
(* The intrusive list of the standard library: nodes in parallel vectors,  *)
(* linked by index, and a stack of free indices that pushes use first.  An *)
(* index here is one more than in the source; None stands for its -1.      *)
(*                                                                         *)
(* hc::runtime knows which nodes are in the list (its nodes are Options)   *)
(* and refuses to remove any other.  The interpreter and the IR runtime    *)
(* only test that the index was ever made: `refuses` tells which of the    *)
(* two codes runs.  `Abuse` says whether the program passes remove an      *)
(* index that is no longer in the list.                                    *)
(***************************************************************************)
EXTENDS Integers, Sequences

CONSTANTS ListVals,  \* the values pushed
          MaxNodes,  \* bound on the indices made
          Refuses,   \* the implementations checked
          Abuse      \* programs remove what is not in the list

ASSUME ListAssumption == MaxNodes \in Nat /\ Refuses \subseteq BOOLEAN /\ Abuse \in BOOLEAN

VARIABLES refuses, prev, next, vals, lhead, ltail, llen, lfree,
          llast      \* the latest call with its argument and answer

None == 0
Seqs == INSTANCE SequencesExt
listNodes == <<prev, next, vals>>
listVars == <<refuses, prev, next, vals, lhead, ltail, llen, lfree, llast>>

ListInit ==
    /\ refuses \in Refuses
    /\ prev = <<>> /\ next = <<>> /\ vals = <<>> /\ lfree = <<>>
    /\ lhead = None /\ ltail = None /\ llen = 0
    /\ llast = <<"init", "null", "null">>

\* A vector with x at index i, made longer when i is new.
Put(s, i, x) == IF i \in DOMAIN s THEN [s EXCEPT ![i] = x] ELSE Append(s, x)
\* A vector with x at index i; None is no index.
SetAt(s, i, x) == IF i \in DOMAIN s THEN [s EXCEPT ![i] = x] ELSE s

AllocNode == IF lfree = <<>> THEN Len(vals) + 1 ELSE Seqs!Last(lfree)
TakesNode == lfree' = IF lfree = <<>> THEN lfree ELSE Seqs!Front(lfree)

PushFront(v) == LET i == AllocNode IN
    /\ i <= MaxNodes
    /\ TakesNode
    /\ vals' = Put(vals, i, v)
    /\ next' = Put(next, i, lhead)
    /\ prev' = SetAt(Put(prev, i, None), lhead, i)
    /\ lhead' = i
    /\ ltail' = IF lhead = None THEN i ELSE ltail
    /\ llen' = llen + 1
    /\ llast' = <<"push_front", v, i>>
    /\ UNCHANGED refuses

PushBack(v) == LET i == AllocNode IN
    /\ i <= MaxNodes
    /\ TakesNode
    /\ vals' = Put(vals, i, v)
    /\ prev' = Put(prev, i, ltail)
    /\ next' = SetAt(Put(next, i, None), ltail, i)
    /\ ltail' = i
    /\ lhead' = IF ltail = None THEN i ELSE lhead
    /\ llen' = llen + 1
    /\ llast' = <<"push_back", v, i>>
    /\ UNCHANGED refuses

Nothing(op, arg) == llast' = <<op, arg, "null">> /\ UNCHANGED <<refuses, listNodes, lhead, ltail, llen, lfree>>

PopFront ==
    IF lhead = None THEN Nothing("pop_front", "null")
    ELSE /\ lhead' = next[lhead]
         /\ prev' = SetAt(prev, next[lhead], None)
         /\ ltail' = IF next[lhead] = None THEN None ELSE ltail
         /\ lfree' = Append(lfree, lhead)
         /\ llen' = llen - 1
         /\ llast' = <<"pop_front", "null", vals[lhead]>>
         /\ UNCHANGED <<refuses, next, vals>>

\* Mutant: the head is left on the only node.
PopBackKeepsHead ==
    IF ltail = None THEN Nothing("pop_back", "null")
    ELSE /\ ltail' = prev[ltail]
         /\ next' = SetAt(next, prev[ltail], None)
         /\ lfree' = Append(lfree, ltail)
         /\ llen' = llen - 1
         /\ llast' = <<"pop_back", "null", vals[ltail]>>
         /\ UNCHANGED <<refuses, lhead, prev, vals>>

PopBack ==
    IF ltail = None THEN Nothing("pop_back", "null")
    ELSE /\ ltail' = prev[ltail]
         /\ next' = SetAt(next, prev[ltail], None)
         /\ lhead' = IF prev[ltail] = None THEN None ELSE lhead
         /\ lfree' = Append(lfree, ltail)
         /\ llen' = llen - 1
         /\ llast' = <<"pop_back", "null", vals[ltail]>>
         /\ UNCHANGED <<refuses, prev, vals>>

Freed(i) == \E j \in DOMAIN lfree : lfree[j] = i

\* The node is there: ever made, and in hc::runtime not taken out since.
NodeExists(i) == i \in DOMAIN vals /\ (refuses => ~Freed(i))

Remove(i) ==
    /\ Abuse \/ refuses \/ ~Freed(i)
    /\ IF ~NodeExists(i) THEN Nothing("remove", i)
       ELSE /\ next' = SetAt(next, prev[i], next[i])
            /\ prev' = SetAt(prev, next[i], prev[i])
            /\ lhead' = IF prev[i] = None THEN next[i] ELSE lhead
            /\ ltail' = IF next[i] = None THEN prev[i] ELSE ltail
            /\ lfree' = Append(lfree, i)
            /\ llen' = llen - 1
            /\ llast' = <<"remove", i, vals[i]>>
            /\ UNCHANGED <<refuses, vals>>

CountList == llast' = <<"len", "null", llen>> /\ UNCHANGED <<refuses, listNodes, lhead, ltail, llen, lfree>>

ClearList ==
    /\ prev' = <<>> /\ next' = <<>> /\ vals' = <<>> /\ lfree' = <<>>
    /\ lhead' = None /\ ltail' = None /\ llen' = 0
    /\ llast' = <<"clear", "null", "null">>
    /\ UNCHANGED refuses

ListNext ==
    \/ \E v \in ListVals : PushFront(v) \/ PushBack(v)
    \/ PopFront
    \/ PopBack
    \/ \E i \in 1..MaxNodes : Remove(i)
    \/ CountList
    \/ ClearList

ListSpec == ListInit /\ [][ListNext]_listVars

\* The indices met when following `link` from i, at most as many as were made.
Along(link, i) ==
    LET met[n \in 0..Len(link)] ==
            IF n = 0 THEN i ELSE IF met[n - 1] \in DOMAIN link THEN link[met[n - 1]] ELSE None
        ends == CHOOSE n \in 0..Len(link) : /\ n = Len(link) \/ met[n] = None
                                           /\ \A k \in 0 .. n - 1 : met[k] # None
    IN  [n \in 1..ends |-> met[n - 1]]

Items == [k \in DOMAIN Along(next, lhead) |-> <<Along(next, lhead)[k], vals[Along(next, lhead)[k]]>>]

SequenceSpec == INSTANCE NodeList WITH Vals <- ListVals, Handles <- 1..MaxNodes,
                                       items <- Items, last <- llast

\* The list of hc::runtime is a sequence under handles, and so are those of the
\* runtimes as long as a program removes only what is in the list: every call
\* answers what the sequence would, handles used again included.
ListIsSequence == SequenceSpec!Spec

\* What the test in remove says it does (`the node was not removed`): remove of
\* an index that is free answers null.
RemovesOnlyMembers ==
    [][\A i \in 1..MaxNodes : Remove(i) /\ Freed(i) => llast'[3] = "null"]_listVars
=============================================================================
