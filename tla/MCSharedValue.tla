---------------------------- MODULE MCSharedValue ----------------------------
(***************************************************************************)
(* SharedValue on small instances: where the handles are at first.         *)
(***************************************************************************)
EXTENDS SharedValue, TLC

CONSTANTS main, w1, w2

(* A variable of main.                                                     *)
Variable == [h \in Holders |-> IF h = main THEN 1 ELSE 0]
=============================================================================
