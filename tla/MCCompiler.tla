----------------------------- MODULE MCCompiler -----------------------------
(***************************************************************************)
(* The compiler's own algorithms for TLC: the lowering of defers and jumps *)
(* against the interpreter, the two checks of the semantic pass that need  *)
(* a history, and the two steps that put files together.  One of them per  *)
(* behaviour, chosen at the start.                                         *)
(***************************************************************************)
EXTENDS Integers, Sequences, LanguageServer, ErrorSets, Linker, ErrorCodes

CONSTANTS Which,      \* the parts this run looks at
          Ops, MaxSize,             \* see DualMode
          Forms, MaxText            \* see Captures

VARIABLES which,
          open, registers,                                          \* DualMode
          text, nest, scopes, rejected, phase, pc, env, unjoined    \* Captures

modeVars    == <<open, registers>>
captureVars == <<text, nest, scopes, rejected, phase, pc, env, unjoined>>
vars == <<which, modeVars, setVars, captureVars, linkVars, codeVars, serverVars>>

Modes == INSTANCE DualMode WITH MaxReads <- 2
Caps  == INSTANCE Captures WITH Locals <- {"x"}, Handles <- {"h", "k"}

\* A part that is not looked at has one initial state: that of functions that
\* return no !T, of a package of one empty file.
NoSets  == /\ form = [f \in Fns |-> "Other"]
           /\ direct = [f \in Fns |-> {}] /\ edges = direct /\ declared = direct
           /\ sets = [f \in {} |-> {}] /\ todo = {} /\ changed = FALSE /\ round = 1
           /\ incomplete = {} /\ setPhase = "rounds"
NoLink  == /\ merged = Module(0, <<>>) /\ rest = [i \in 1..Siblings |-> merged]
           /\ strip = FALSE /\ stripped = FALSE
NoCodes == /\ files = <<<<>>>> /\ loaded = 0 /\ codes = [n \in ErrorNames |-> NoCode]
           /\ slots = 0 /\ values = {}

Init ==
    /\ which \in Which
    /\ Modes!Init /\ Caps!Init /\ ServerInit
    /\ IF which = "sets"  THEN SetsInit  ELSE NoSets
    /\ IF which = "link"  THEN LinkInit  ELSE NoLink
    /\ IF which = "codes" THEN CodesInit ELSE NoCodes

Lowers   == which = "modes"    /\ Modes!Next
            /\ UNCHANGED <<which, setVars, captureVars, linkVars, codeVars, serverVars>>
Infers   == which = "sets"     /\ SetsNext
            /\ UNCHANGED <<which, modeVars, captureVars, linkVars, codeVars, serverVars>>
Checks   == which = "captures" /\ Caps!Next
            /\ UNCHANGED <<which, modeVars, setVars, linkVars, codeVars, serverVars>>
Links    == which = "link"     /\ LinkNext
            /\ UNCHANGED <<which, modeVars, setVars, captureVars, codeVars, serverVars>>
Numbers  == which = "codes"    /\ CodesNext
            /\ UNCHANGED <<which, modeVars, setVars, captureVars, linkVars, serverVars>>

Serves   == which = "editor"   /\ ServerNext
            /\ UNCHANGED <<which, modeVars, setVars, captureVars, linkVars, codeVars>>

Next == Lowers \/ Infers \/ Checks \/ Links \/ Numbers \/ Serves

Spec == Init /\ [][Next]_vars

-----------------------------------------------------------------------------
\* Both modes run every function alike, and every defer that is registered
\* is executed or cancelled once (DualMode).
DualModeAgrees == which = "modes" => Modes!CountersExact

\* The defers of a scope run newest first, and before those around it (DualMode).
DefersNest == which = "modes" => Modes!DefersNest

\* What the capture check lets pass is safe, and what it reports is not (Captures).
CaptureCheckIsExact == which = "captures" => Caps!CapturesAreSafe /\ Caps!AlarmsAreReal

\* For the runs that show where the code departs from what is said of it.
ModesAgree          == which = "modes" => Modes!DualModeAgrees
NoCaptureEscapes    == which = "captures" => Caps!NoCaptureEscapes
=============================================================================
