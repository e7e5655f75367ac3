------------------------------ MODULE NodeList ------------------------------
(***************************************************************************)
(* What an intrusive list promises: a sequence of values under handles.  A *)
(* push answers a handle no member has; remove takes out the member of its *)
(* handle wherever it stands, and nothing for any other handle.            *)
(* `IntrList` is the code.                                                 *)
(***************************************************************************)
EXTENDS Naturals, Sequences

CONSTANTS Vals, Handles

VARIABLES items, last   \* items: the members, each a <<handle, value>>

vars == <<items, last>>

Members == {items[i][1] : i \in DOMAIN items}
Take(op, arg, h) ==   \* the member of handle h leaves; the call answers its value
    \E i \in DOMAIN items :
        /\ items[i][1] = h
        /\ items' = [k \in 1 .. Len(items) - 1 |-> items[IF k < i THEN k ELSE k + 1]]
        /\ last' = <<op, arg, items[i][2]>>
Misses(op, arg) == last' = <<op, arg, "null">> /\ UNCHANGED items

Init == items = <<>> /\ last = <<"init", "null", "null">>

Push(v) == \E h \in Handles \ Members :
    \/ items' = <<<<h, v>>>> \o items /\ last' = <<"push_front", v, h>>
    \/ items' = items \o <<<<h, v>>>> /\ last' = <<"push_back", v, h>>

Pop ==
    IF items = <<>>
    THEN Misses("pop_front", "null") \/ Misses("pop_back", "null")
    ELSE \/ Take("pop_front", "null", items[1][1])
         \/ Take("pop_back", "null", items[Len(items)][1])

Remove(h) == IF h \in Members THEN Take("remove", h, h) ELSE Misses("remove", h)

Count == last' = <<"len", "null", Len(items)>> /\ UNCHANGED items

Clear == items' = <<>> /\ last' = <<"clear", "null", "null">>

Next ==
    \/ \E v \in Vals : Push(v)
    \/ Pop
    \/ \E h \in Handles : Remove(h)
    \/ Count
    \/ Clear

Spec == Init /\ [][Next]_vars
=============================================================================
