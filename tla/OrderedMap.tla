----------------------------- MODULE OrderedMap -----------------------------
(***************************************************************************)
(* What a tree map promises: a function from the keys present to their     *)
(* values.  `TreeMap` is the code.                                         *)
(***************************************************************************)
EXTENDS Naturals, FiniteSets

CONSTANTS Keys, Vals

VARIABLES dict, last

vars == <<dict, last>>

Found(k) == IF k \in DOMAIN dict THEN dict[k] ELSE "null"

Init == dict = [k \in {} |-> "null"] /\ last = <<"init", "null", "null">>

Insert(k, v) ==
    /\ last' = <<"insert", k, "null">>
    /\ dict' = [x \in DOMAIN dict \cup {k} |-> IF x = k THEN v ELSE dict[x]]

Get(k) == last' = <<"get", k, Found(k)>> /\ UNCHANGED dict

Remove(k) ==
    /\ last' = <<"remove", k, Found(k)>>
    /\ dict' = [x \in DOMAIN dict \ {k} |-> dict[x]]

Count == last' = <<"len", "null", Cardinality(DOMAIN dict)>> /\ UNCHANGED dict

Clear == last' = <<"clear", "null", "null">> /\ dict' = [k \in {} |-> "null"]

Next ==
    \/ \E k \in Keys : Get(k) \/ Remove(k) \/ \E v \in Vals : Insert(k, v)
    \/ Count
    \/ Clear

Spec == Init /\ [][Next]_vars
=============================================================================
