------------------------------ MODULE PagePool ------------------------------
(***************************************************************************)
(* What a page allocator promises: a page that is handed out is not handed *)
(* out again before it is freed, and a request fails only when every page  *)
(* is out.  `PageMem` is the code.                                         *)
(***************************************************************************)
EXTENDS Naturals

CONSTANTS Totals

VARIABLES held, total, last

vars == <<held, total, last>>

Pages == 0 .. total - 1

Init == total \in Totals \cap Nat /\ held = {} /\ last = <<"init", "null", "null">>

Alloc ==
    \/ /\ \E p \in Pages \ held : held' = held \cup {p} /\ last' = <<"alloc", "null", p>>
       /\ UNCHANGED total
    \/ /\ held = Pages
       /\ last' = <<"alloc", "null", "null">>
       /\ UNCHANGED <<held, total>>

Free(p) == held' = held \ {p} /\ last' = <<"free", p, "null">> /\ UNCHANGED total

Next == Alloc \/ \E p \in 0..total : Free(p)

Spec == Init /\ [][Next]_vars
=============================================================================
