--------------------------- MODULE MCThreadRuntime ---------------------------
(***************************************************************************)
(* ThreadRuntime on small instances; workers are interchangeable.          *)
(***************************************************************************)
EXTENDS ThreadRuntime, TLC

Symmetry == Permutations(Workers)
=============================================================================
