---------------------------- MODULE MCInterpreter ----------------------------
(***************************************************************************)
(* The parts of Interpreter on small instances.                            *)
(***************************************************************************)
EXTENDS Interpreter

\* Two bodies that share an inner future.
Inner  == [f \in Bodies |-> IF f = "c" THEN {} ELSE IF f = "b" THEN {"c"} ELSE {"b", "c"}]

\* One receiver more than the buffer, never more than workers - 1.
Calls  == <<"recv", "send", "send", "recv">>
=============================================================================
