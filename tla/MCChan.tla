------------------------------- MODULE MCChan -------------------------------
(***************************************************************************)
(* Chan on small instances: the threads and the values are model values.   *)
(***************************************************************************)
EXTENDS Chan, TLC

Symmetry == Permutations(Threads) \cup Permutations(Values)
=============================================================================
