--------------------------- MODULE Compiler_proofs ---------------------------
(***************************************************************************)
(* Proofs about the parts of the compiler and its tools that put things    *)
(* together: ErrorSets, ErrorCodes, Linker and LanguageServer, each for    *)
(* any functions, files and documents.                                     *)
(***************************************************************************)
EXTENDS ErrorSets, ErrorCodes, Linker, LanguageServer, Induction,
        FiniteSetTheorems, FunctionTheorems, SequenceTheorems, TLAPS

(* No member of a sequence comes twice.                                    *)
Distinct(s) == \A i, j \in 1..Len(s) : s[i] = s[j] => i = j

-----------------------------------------------------------------------------
(***************************************************************************)
(* Error sets, for any functions, errors and number of rounds.             *)
(***************************************************************************)

(* What one function is known to return grows with the sets.               *)
LEMMA NewIsMonotone ==
    ASSUME NEW s, NEW t, AtMost(s, t), NEW f \in Inferred, edges \in [Fns -> SUBSET Fns]
    PROVE  New(s, f) \subseteq New(t, f)
<1>1. \A g \in edges[f] : Known(s, g) \subseteq Known(t, g)
  BY DEF AtMost, Known, Inferred
<1> QED BY <1>1 DEF New

(* Type correctness: the sets are kept for exactly the !T functions.       *)
THEOREM SetsTypeCorrect == SetsSpec => []SetsTypeOK
<1>1. SetsInit => SetsTypeOK
  <2> SUFFICES ASSUME SetsInit PROVE SetsTypeOK
    OBVIOUS
  <2>1. round \in Nat
    BY DEF SetsInit
  <2>2. sets \in [Inferred -> SUBSET Errors]
    BY DEF SetsInit, Inferred
  <2> QED BY <2>1, <2>2 DEF SetsInit, SetsTypeOK
<1>2. SetsTypeOK /\ [SetsNext]_setVars => SetsTypeOK'
  <2> SUFFICES ASSUME SetsTypeOK, [SetsNext]_setVars PROVE SetsTypeOK'
    OBVIOUS
  <2> USE DEF SetsTypeOK
  <2>1. ASSUME NEW f \in Fns, Visit(f) PROVE SetsTypeOK'
    <3>1. New(sets, f) \subseteq Errors
      <4>1. \A g \in edges[f] : Known(sets, g) \subseteq Errors
        BY <2>1 DEF Known, Inferred
      <4> QED BY <4>1, <2>1 DEF New, Visit, Inferred
    <3> QED BY <2>1, <3>1 DEF Visit, program, Inferred
  <2>2. CASE NextRound
    <3>1. round' \in Nat
      BY <2>2 DEF NextRound
    <3> QED BY <2>2, <3>1 DEF NextRound, program, Inferred
  <2>3. CASE Sweep
    BY <2>3 DEF Sweep, program, Inferred
  <2>4. CASE UNCHANGED setVars
    BY <2>4 DEF setVars, program, Inferred
  <2> QED BY <2>1, <2>2, <2>3, <2>4 DEF SetsNext
<1> QED BY <1>1, <1>2, PTL DEF SetsSpec

-----------------------------------------------------------------------------
(* The sets never exceed a solution; and as long as the round has changed  *)
(* nothing, every function it has passed satisfies its equation.           *)
Below == \A s \in [Inferred -> SUBSET Errors] : Solves(s) => AtMost(sets, s)
Quiet == ~changed => \A f \in Inferred \ todo : sets[f] = New(sets, f)
Ended == setPhase = "done" => todo = {}

LEMMA ProgramStays ==
    ASSUME program' = program
    PROVE  /\ Inferred' = Inferred
           /\ \A s, f : New(s, f)' = New(s, f)
           /\ \A s : Solves(s)' = Solves(s)
           /\ \A s, t : AtMost(s, t)' = AtMost(s, t)
BY DEF program, Inferred, New, Known, Solves, AtMost

LEMMA LeastStarts == SetsInit => Below /\ Quiet /\ Ended
<1> SUFFICES ASSUME SetsInit PROVE Below /\ Quiet /\ Ended
  OBVIOUS
<1>1. Below
  <2> SUFFICES ASSUME NEW s \in [Inferred -> SUBSET Errors], Solves(s), NEW f \in Inferred
               PROVE  sets[f] \subseteq s[f]
    BY DEF Below, AtMost
  <2> QED BY DEF SetsInit, Solves, New
<1> QED BY <1>1 DEF SetsInit, Quiet, Ended

LEMMA LeastStays ==
    SetsTypeOK /\ Below /\ Quiet /\ Ended /\ [SetsNext]_setVars => Below' /\ Quiet' /\ Ended'
<1> SUFFICES ASSUME SetsTypeOK, Below, Quiet, Ended, [SetsNext]_setVars PROVE Below' /\ Quiet' /\ Ended'
  OBVIOUS
<1>1. ASSUME NEW f \in Fns, Visit(f) PROVE Below' /\ Quiet' /\ Ended'
  <2> f \in Inferred
    BY <1>1 DEF Visit, SetsTypeOK
  <2>0. program' = program
    BY <1>1 DEF Visit
  <2>1. sets' = [sets EXCEPT ![f] = New(sets, f)] /\ sets \in [Inferred -> SUBSET Errors]
    BY <1>1 DEF Visit, SetsTypeOK
  <2>2. Below'
    <3> SUFFICES ASSUME NEW s \in [Inferred' -> SUBSET Errors], Solves(s)',
                        NEW g \in Inferred'
                 PROVE  sets'[g] \subseteq s[g]
      BY <2>0, ProgramStays DEF Below, AtMost
    <3>1. s \in [Inferred -> SUBSET Errors] /\ Solves(s) /\ g \in Inferred
      BY <2>0, ProgramStays
    <3>2. AtMost(sets, s)
      BY <3>1 DEF Below
    <3>3. New(sets, f) \subseteq New(s, f)
      BY <3>2, NewIsMonotone DEF SetsTypeOK
    <3>4. New(s, f) = s[f]
      BY <3>1 DEF Solves
    <3> QED BY <2>1, <3>1, <3>2, <3>3, <3>4 DEF AtMost
  <2>3. Quiet'
    <3> SUFFICES ASSUME ~changed', NEW g \in Inferred' \ todo'
                 PROVE  (sets[g] = New(sets, g))'
      BY DEF Quiet
    <3>1. g \in Inferred /\ (g = f \/ g \notin todo)
      BY <1>1, <2>0, ProgramStays DEF Visit
    <3>2. ~changed /\ sets'[f] = sets[f] /\ sets' = sets
      BY <1>1, <2>1 DEF Visit, SetsTypeOK
    <3>3. CASE g = f
      BY <2>0, <2>1, <3>1, <3>2, <3>3 DEF program, New, Known
    <3>4. CASE g \notin todo
      <4>1. sets[g] = New(sets, g)
        BY <3>1, <3>2, <3>4 DEF Quiet
      <4> QED BY <2>0, <3>2, <4>1 DEF program, New, Known
    <3> QED BY <3>1, <3>3, <3>4
  <2>4. Ended'
    BY <1>1 DEF Visit, Ended
  <2> QED BY <2>2, <2>3, <2>4
<1>2. CASE NextRound
  <2>1. program' = program /\ sets' = sets
    BY <1>2 DEF NextRound
  <2>2. Below'
    BY <2>1 DEF program, Below, Inferred, Solves, AtMost, New, Known
  <2> QED BY <1>2, <2>1, <2>2 DEF NextRound, program, Quiet, Ended, Inferred
<1>3. CASE Sweep \/ UNCHANGED setVars
  <2>1. program' = program /\ UNCHANGED <<sets, todo, changed>>
    BY <1>3 DEF Sweep, setVars
  <2>2. Below' /\ Quiet'
    BY <2>1 DEF program, Below, Quiet, Inferred, Solves, AtMost, New, Known
  <2>3. Ended'
    BY <1>3 DEF Sweep, setVars, Ended
  <2> QED BY <2>2, <2>3
<1> QED BY <1>1, <1>2, <1>3 DEF SetsNext

(* The order of the rounds does not matter (see LeastSolution).            *)
THEOREM OrderDoesNotMatter == SetsSpec => []LeastSolution
<1>1. SetsTypeOK /\ Below /\ Quiet /\ Ended => LeastSolution
  BY DEF LeastSolution, Below, Quiet, Ended, Solves
<1> QED BY <1>1, LeastStarts, LeastStays, SetsTypeCorrect, PTL DEF SetsSpec

-----------------------------------------------------------------------------
(* Steps along links.                                                      *)
LEMMA StepsAre ==
    ASSUME NEW links \in [Fns -> SUBSET Fns], NEW from \in SUBSET Fns
    PROVE  /\ InSteps(links, from, 0) = from
           /\ \A n \in Nat : InSteps(links, from, n + 1) =
                  InSteps(links, from, n) \cup UNION {links[g] : g \in InSteps(links, from, n)}
           /\ \A n \in Nat : InSteps(links, from, n) \in SUBSET Fns
<1> DEFINE F == [n \in Nat |-> [X \in SUBSET Fns |-> X \cup UNION {links[g] : g \in X}]]
<1>1. F \in [Nat -> [SUBSET Fns -> SUBSET Fns]]
  OBVIOUS
<1>2. PICK r : Follows(r, SUBSET Fns, from, F)
  <2> HIDE DEF F
  <2> QED BY <1>1, Recurs
<1>3. /\ r \in [Nat -> SUBSET Fns]
      /\ \A n \in Nat : r[n] = IF n = 0 THEN from ELSE F[n][r[n - 1]]
  <2> HIDE DEF F
  <2> QED BY <1>2 DEF Follows
<1>4. ASSUME NEW n \in Nat
      PROVE  r[n] = IF n = 0 THEN from ELSE r[n - 1] \cup UNION {links[g] : g \in r[n - 1]}
  <2>1. CASE n = 0
    <3> HIDE DEF F
    <3> QED BY <1>3, <2>1
  <2>2. CASE n # 0
    <3>1. n - 1 \in Nat
      BY <2>2
    <3>2. r[n] = F[n][r[n - 1]]
      <4> HIDE DEF F
      <4> QED BY <1>3, <2>2
    <3>3. r[n - 1] \in SUBSET Fns
      <4> HIDE DEF F
      <4> QED BY <1>3, <3>1
    <3>4. F[n][r[n - 1]] = r[n - 1] \cup UNION {links[g] : g \in r[n - 1]}
      BY <3>3
    <3> HIDE DEF F
    <3> QED BY <2>2, <3>2, <3>4
  <2> QED BY <2>1, <2>2
<1> HIDE DEF F
<1> DEFINE reach == CHOOSE f : f = [k \in Nat |->
            IF k = 0 THEN from ELSE f[k - 1] \cup UNION {links[g] : g \in f[k - 1]}]
<1>5. \A n : InSteps(links, from, n) = reach[n]
  BY DEF InSteps
<1>6. r = [n \in Nat |-> IF n = 0 THEN from ELSE r[n - 1] \cup UNION {links[g] : g \in r[n - 1]}]
  BY <1>3, <1>4
<1>7. reach = [k \in Nat |->
            IF k = 0 THEN from ELSE reach[k - 1] \cup UNION {links[g] : g \in reach[k - 1]}]
  BY <1>6
<1> HIDE DEF reach
<1>8. reach[0] = from
  BY <1>7
<1>9. ASSUME NEW n \in Nat
      PROVE  reach[n + 1] = reach[n] \cup UNION {links[g] : g \in reach[n]}
  <2>1. n + 1 \in Nat /\ n + 1 # 0 /\ (n + 1) - 1 = n
    OBVIOUS
  <2> QED BY <1>7, <2>1
<1>10. \A n \in Nat : reach[n] \in SUBSET Fns
  <2> DEFINE P == {n \in Nat : reach[n] \in SUBSET Fns}
  <2>1. 0 \in P
    BY <1>8
  <2>2. ASSUME NEW n \in Nat, n \in P PROVE n + 1 \in P
    BY <1>9, <2>2
  <2>3. \A n \in Nat : n \in P
    <3> HIDE DEF P
    <3> QED BY <2>1, <2>2, Inducts
  <2> QED BY <2>3
<1> QED BY <1>5, <1>8, <1>9, <1>10

Closed(links, X) == \A g \in X : links[g] \subseteq X

LEMMA StepsGrow ==
    ASSUME NEW links \in [Fns -> SUBSET Fns], NEW from \in SUBSET Fns,
           NEW n \in Nat, NEW m \in Nat, n <= m
    PROVE  InSteps(links, from, n) \subseteq InSteps(links, from, m)
<1> DEFINE P == {d \in Nat : InSteps(links, from, n) \subseteq InSteps(links, from, n + d)}
<1>1. 0 \in P
  BY n + 0 = n
<1>2. ASSUME NEW d \in Nat, d \in P PROVE d + 1 \in P
  <2>1. n + (d + 1) = (n + d) + 1 /\ n + d \in Nat
    OBVIOUS
  <2>2. InSteps(links, from, n + d) \subseteq InSteps(links, from, (n + d) + 1)
    BY <2>1, StepsAre
  <2> QED BY <1>2, <2>1, <2>2
<1>3. \A d \in Nat : d \in P
  <2> HIDE DEF P
  <2> QED BY <1>1, <1>2, Inducts
<1>4. m - n \in Nat /\ n + (m - n) = m
  OBVIOUS
<1>5. InSteps(links, from, n) \subseteq InSteps(links, from, n + (m - n))
  BY <1>3, <1>4
<1> QED BY <1>4, <1>5

(* Every step that does not close the set adds a function to it: as many   *)
(* steps as there are functions, less one, are enough from one of them.    *)
LEMMA StepsClose ==
    ASSUME NEW links \in [Fns -> SUBSET Fns], NEW from \in SUBSET Fns, from # {},
           IsFiniteSet(Fns)
    PROVE  /\ Cardinality(Fns) \in Nat \ {0}
           /\ Closed(links, InSteps(links, from, Cardinality(Fns) - 1))
           /\ InSteps(links, from, Cardinality(Fns)) = InSteps(links, from, Cardinality(Fns) - 1)
<1> DEFINE N    == Cardinality(Fns)
           W(n) == InSteps(links, from, n)
           P    == {n \in Nat : Closed(links, W(n)) \/ n + 1 <= Cardinality(W(n))}
<1>1. N \in Nat \ {0}
  <2>1. Fns # {}
    OBVIOUS
  <2> QED BY <2>1, SetsAssumption, FS_CardinalityType, FS_EmptySet
<1>2. \A n \in Nat : /\ W(n) \in SUBSET Fns /\ IsFiniteSet(W(n)) /\ Cardinality(W(n)) \in Nat
                     /\ Cardinality(W(n)) <= N
                     /\ (Cardinality(W(n)) = N => W(n) = Fns)
  BY StepsAre, FS_Subset, FS_CardinalityType
<1>3. \A n \in Nat : W(n + 1) = W(n) \cup UNION {links[g] : g \in W(n)}
  BY StepsAre
<1>4. W(0) = from
  BY StepsAre
<1> HIDE DEF W
<1>5. 0 \in P
  <2>1. Cardinality(W(0)) # 0
    BY <1>2, <1>4, FS_EmptySet
  <2> QED BY <1>2, <2>1
<1>6. ASSUME NEW n \in Nat, n \in P PROVE n + 1 \in P
  <2>1. CASE Closed(links, W(n))
    <3>1. W(n + 1) = W(n)
      BY <1>3, <2>1 DEF Closed
    <3> QED BY <2>1, <3>1
  <2>2. CASE ~Closed(links, W(n))
    <3>1. W(n) \subseteq W(n + 1) /\ W(n + 1) # W(n)
      BY <1>3, <2>2 DEF Closed
    <3>2. Cardinality(W(n)) <= Cardinality(W(n + 1)) /\ Cardinality(W(n)) # Cardinality(W(n + 1))
      BY <1>2, <3>1, FS_Subset
    <3>3. n + 1 <= Cardinality(W(n))
      BY <1>6, <2>2
    <3> QED BY <1>2, <3>2, <3>3
  <2> QED BY <2>1, <2>2
<1>7. N - 1 \in P
  <2>1. \A n \in Nat : n \in P
    <3> HIDE DEF P
    <3> QED BY <1>5, <1>6, Inducts
  <2> HIDE DEF P
  <2> QED BY <1>1, <2>1
<1>8. Closed(links, W(N - 1))
  <2>1. CASE (N - 1) + 1 <= Cardinality(W(N - 1))
    <3>1. W(N - 1) = Fns
      BY <1>1, <1>2, <2>1
    <3> QED BY <3>1 DEF Closed
  <2> QED BY <1>7, <2>1
<1>9. W(N) = W(N - 1)
  <2>1. N - 1 \in Nat /\ (N - 1) + 1 = N
    BY <1>1
  <2>2. W(N) = W(N - 1) \cup UNION {links[g] : g \in W(N - 1)}
    BY <1>3, <2>1
  <2> QED BY <1>8, <2>2 DEF Closed
<1> QED BY <1>1, <1>8, <1>9 DEF W

(* The closure is the least set that has `from` and is closed.             *)
LEMMA ClosureIsLeast ==
    ASSUME NEW links \in [Fns -> SUBSET Fns], NEW from \in SUBSET Fns
    PROVE  /\ from \subseteq Closure(links, from)
           /\ Closure(links, from) \in SUBSET Fns
           /\ Closed(links, Closure(links, from))
           /\ \A X : from \subseteq X /\ (\A g \in X \cap Fns : links[g] \subseteq X) => Closure(links, from) \subseteq X
<1> DEFINE N    == Cardinality(Fns)
           W(n) == InSteps(links, from, n)
<1>1. N \in Nat
  BY SetsAssumption, FS_CardinalityType
<1>2. Closure(links, from) = W(N)
  BY DEF Closure
<1>3. /\ W(0) = from
      /\ \A n \in Nat : W(n) \in SUBSET Fns
      /\ \A n \in Nat : W(n + 1) = W(n) \cup UNION {links[g] : g \in W(n)}
  BY StepsAre
<1>4. from \subseteq W(N)
  BY <1>1, <1>3, StepsGrow
<1>5. Closed(links, W(N))
  <2>1. CASE from = {}
    <3> DEFINE P == {n \in Nat : W(n) = {}}
    <3>1. 0 \in P
      BY <1>3, <2>1
    <3>2. \A n \in Nat : n \in P => n + 1 \in P
      BY <1>3
    <3>3. N \in P
      <4> HIDE DEF P
      <4> QED BY <1>1, <3>1, <3>2, Inducts
    <3> HIDE DEF W
    <3> QED BY <3>3 DEF Closed
  <2>2. CASE from # {}
    BY <2>2, StepsClose, SetsAssumption
  <2> QED BY <2>1, <2>2
<1>6. ASSUME NEW X, from \subseteq X, \A g \in X \cap Fns : links[g] \subseteq X
      PROVE  W(N) \subseteq X
  <2> DEFINE P == {n \in Nat : W(n) \subseteq X}
  <2>1. 0 \in P
    BY <1>3, <1>6
  <2>2. ASSUME NEW n \in Nat, n \in P PROVE n + 1 \in P
    <3>1. W(n) \subseteq X /\ W(n) \subseteq Fns
      BY <1>3, <2>2
    <3> HIDE DEF W
    <3>2. W(n + 1) \subseteq X
      BY <1>3, <1>6, <3>1
    <3> QED BY <3>2
  <2>3. N \in P
    <3> HIDE DEF P
    <3> QED BY <1>1, <2>1, <2>2, Inducts
  <2> QED BY <2>3
<1> HIDE DEF W
<1> QED BY <1>1, <1>2, <1>3, <1>4, <1>5, <1>6

(* A function comes from itself and from where what it passes on comes.    *)
LEMMA OriginsAre ==
    ASSUME edges \in [Fns -> SUBSET Fns], NEW f \in Inferred
    PROVE  /\ Origins(f) = {f} \cup UNION {Origins(g) : g \in Passed[f]}
           /\ Origins(f) \subseteq Inferred
           /\ \A X : f \in X /\ (\A g \in X \cap Fns : Passed[g] \subseteq X) => Origins(f) \subseteq X
           /\ Origins(f) \subseteq {f} \cup Within(f)
<1>1. Passed \in [Fns -> SUBSET Fns]
  BY DEF Passed
<1>2. \A g \in Fns : /\ g \in Origins(g)
                     /\ Origins(g) \in SUBSET Fns
                     /\ Closed(Passed, Origins(g))
                     /\ \A X : g \in X /\ (\A h \in X \cap Fns : Passed[h] \subseteq X) => Origins(g) \subseteq X
  BY <1>1, ClosureIsLeast DEF Origins
<1>3. f \in Fns /\ \A g \in Fns : Passed[g] = edges[g] \cap Inferred
  BY DEF Inferred, Passed
<1>4. ASSUME NEW X, f \in X, \A g \in X \cap Fns : Passed[g] \subseteq X PROVE Origins(f) \subseteq X
  BY <1>2, <1>3, <1>4
<1>5. Origins(f) \subseteq Inferred
  <2>1. \A g \in Inferred \cap Fns : Passed[g] \subseteq Inferred
    BY <1>3
  <2> QED BY <1>4, <2>1
<1>6. \A g \in Passed[f] : Origins(g) \subseteq Origins(f)
  BY <1>2, <1>3 DEF Closed
<1>7. Origins(f) \subseteq {f} \cup UNION {Origins(g) : g \in Passed[f]}
  <2> DEFINE X == {f} \cup UNION {Origins(g) : g \in Passed[f]}
  <2>1. ASSUME NEW h \in X PROVE Passed[h] \subseteq X
    <3>1. CASE h = f
      BY <1>2, <1>3, <3>1
    <3>2. CASE h # f
      <4>1. PICK g \in Passed[f] : h \in Origins(g)
        BY <3>2
      <4>2. Passed[h] \subseteq Origins(g)
        BY <1>2, <1>3, <4>1 DEF Closed
      <4> QED BY <4>1, <4>2
    <3> QED BY <3>1, <3>2
  <2>2. f \in X
    OBVIOUS
  <2> HIDE DEF X
  <2>3. Origins(f) \subseteq X
    BY <1>4, <2>1, <2>2
  <2> QED BY <2>3 DEF X
<1>8. Origins(f) \subseteq {f} \cup Within(f)
  <2>1. edges[f] \subseteq Within(f) /\ Closed(edges, Within(f))
    BY <1>3, ClosureIsLeast DEF Within
  <2> DEFINE X == {f} \cup Within(f)
  <2>2. \A g \in X \cap Fns : Passed[g] \subseteq X
    BY <1>3, <2>1 DEF Closed
  <2>3. f \in X
    OBVIOUS
  <2> HIDE DEF X
  <2>4. Origins(f) \subseteq X
    BY <1>4, <2>2, <2>3
  <2> QED BY <2>4 DEF X
<1>9. Origins(f) = {f} \cup UNION {Origins(g) : g \in Passed[f]}
  BY <1>2, <1>3, <1>6, <1>7
<1> QED BY <1>5, <1>8, <1>4, <1>9

(* What is returned along the paths from f.                                *)
Returned(X) == UNION {Own(g) : g \in X}

(* A step is taken first or last.                                          *)
LEMMA StepsBegin ==
    ASSUME edges \in [Fns -> SUBSET Fns], NEW f \in Inferred, NEW n \in Nat
    PROVE  InSteps(Passed, {f}, n + 1) = {f} \cup UNION {InSteps(Passed, {g}, n) : g \in Passed[f]}
<1> DEFINE W(g, k) == InSteps(Passed, {g}, k)
           P == {k \in Nat : W(f, k + 1) = {f} \cup UNION {W(g, k) : g \in Passed[f]}}
<1>1. ASSUME NEW g \in Fns
      PROVE  /\ W(g, 0) = {g}
             /\ \A k \in Nat : W(g, k + 1) = W(g, k) \cup UNION {Passed[h] : h \in W(g, k)}
  <2>1. Passed \in [Fns -> SUBSET Fns] /\ {g} \in SUBSET Fns
    BY DEF Passed
  <2> QED BY <2>1, StepsAre
<1>2. f \in Fns /\ Passed[f] \subseteq Fns
  BY DEF Inferred, Passed
<1> HIDE DEF W
<1>3. 0 \in P
  <2>1. W(f, 0 + 1) = {f} \cup Passed[f]
    BY <1>1, <1>2
  <2> QED BY <1>1, <1>2, <2>1
<1>4. ASSUME NEW k \in Nat, k \in P PROVE k + 1 \in P
  <2>1. W(f, k + 1) = {f} \cup UNION {W(g, k) : g \in Passed[f]}
    BY <1>4
  <2>2. W(f, (k + 1) + 1) = W(f, k + 1) \cup UNION {Passed[h] : h \in W(f, k + 1)}
    BY <1>1, <1>2
  <2>3. \A g \in Passed[f] : W(g, k + 1) = W(g, k) \cup UNION {Passed[h] : h \in W(g, k)}
    BY <1>1, <1>2
  <2>4. \A g \in Passed[f] : g \in W(g, k + 1)
    <3> DEFINE Q == {i \in Nat : \A g \in Passed[f] : g \in W(g, i)}
    <3>1. 0 \in Q /\ \A i \in Nat : i \in Q => i + 1 \in Q
      BY <1>1, <1>2
    <3>2. \A i \in Nat : i \in Q
      <4> HIDE DEF Q
      <4> QED BY <3>1, Inducts
    <3> QED BY <3>2
  <2>5. W(f, (k + 1) + 1) \subseteq {f} \cup UNION {W(g, k + 1) : g \in Passed[f]}
    <3> SUFFICES ASSUME NEW x \in W(f, (k + 1) + 1), x # f
                 PROVE  \E g \in Passed[f] : x \in W(g, k + 1)
      OBVIOUS
    <3>1. CASE x \in W(f, k + 1)
      BY <2>1, <2>3, <3>1
    <3>2. CASE x \notin W(f, k + 1)
      <4>1. PICK h \in W(f, k + 1) : x \in Passed[h]
        BY <2>2, <3>2
      <4>2. CASE h = f
        BY <2>4, <4>1, <4>2
      <4>3. CASE h # f
        BY <2>1, <2>3, <4>1, <4>3
      <4> QED BY <4>2, <4>3
    <3> QED BY <3>1, <3>2
  <2>6. {f} \cup UNION {W(g, k + 1) : g \in Passed[f]} \subseteq W(f, (k + 1) + 1)
    <3>1. f \in W(f, (k + 1) + 1)
      BY <2>1, <2>2
    <3>2. ASSUME NEW g \in Passed[f], NEW x \in W(g, k + 1) PROVE x \in W(f, (k + 1) + 1)
      BY <2>1, <2>2, <2>3
    <3> QED BY <3>1, <3>2
  <2> QED BY <2>5, <2>6
<1>5. \A k \in Nat : k \in P
  <2> HIDE DEF P
  <2> QED BY <1>3, <1>4, Inducts
<1> QED BY <1>5 DEF W

-----------------------------------------------------------------------------
(* What every round adds: after the n-th a function knows what is returned *)
(* n - 1 steps away from it.                                               *)
Deep ==
    /\ round # 0
    /\ \A f \in Inferred :
        /\ round >= 2 => Returned(InSteps(Passed, {f}, round - 2)) \subseteq sets[f]
        /\ f \notin todo => Returned(InSteps(Passed, {f}, round - 1)) \subseteq sets[f]

AtEnd == setPhase = "done" => /\ ~changed \/ round = MaxRounds
                              /\ incomplete = {f \in Inferred : ReachesSelf(f)}

LEMMA PassedStays ==
    ASSUME program' = program
    PROVE  /\ Inferred' = Inferred
           /\ Passed' = Passed
           /\ \A g : Own(g)' = Own(g)
           /\ \A X : Returned(X)' = Returned(X)
           /\ \A f : ReachesSelf(f)' = ReachesSelf(f)
<1>1. form' = form /\ direct' = direct /\ edges' = edges /\ declared' = declared
  BY DEF program
<1>2. Inferred' = Inferred
  BY <1>1 DEF Inferred
<1>3. Passed' = Passed
  BY <1>1, <1>2 DEF Passed
<1>4. \A g : Own(g)' = Own(g)
  BY <1>1 DEF Own
<1>5. \A X : Returned(X)' = Returned(X)
  BY <1>4 DEF Returned
<1>6. \A f : ReachesSelf(f)' = ReachesSelf(f)
  BY <1>1 DEF ReachesSelf, Within, Closure, InSteps
<1> QED BY <1>2, <1>3, <1>4, <1>5, <1>6

(* What a visit knows is what the function returns itself and what the     *)
(* sets of those it passes errors on from hold.                            *)
LEMMA NewIs ==
    ASSUME edges \in [Fns -> SUBSET Fns], NEW f \in Inferred, NEW s
    PROVE  New(s, f) = Own(f) \cup UNION {s[g] : g \in Passed[f]}
<1>1. Passed[f] = {g \in edges[f] : form[g] = "Infer"}
  BY DEF Passed, Inferred
<1>2. \A x : x \in New(s, f) <=> x \in direct[f] \/ \E g \in edges[f] : x \in Known(s, g)
  BY DEF New
<1>3. \A x : x \in Own(f) <=>
          x \in direct[f] \/ \E g \in edges[f] : form[g] = "Explicit" /\ x \in declared[g]
  BY DEF Own
<1>4. \A x, g : x \in Known(s, g) <=> \/ form[g] = "Explicit" /\ x \in declared[g]
                                      \/ form[g] = "Infer" /\ x \in s[g]
  BY DEF Known
<1> QED BY <1>1, <1>2, <1>3, <1>4

LEMMA DeepStays == SetsTypeOK /\ Deep /\ [SetsNext]_setVars => Deep'
<1> SUFFICES ASSUME SetsTypeOK, Deep, [SetsNext]_setVars PROVE Deep'
  OBVIOUS
<1> DEFINE R(f, n) == Returned(InSteps(Passed, {f}, n))
<1>1. program' = program
  BY DEF SetsNext, Visit, NextRound, Sweep, setVars
<1>2. Inferred' = Inferred /\ Passed' = Passed /\ \A g : Own(g)' = Own(g)
  BY <1>1, PassedStays
<1>3. round # 0 /\ round \in Nat
  BY DEF Deep, SetsTypeOK
<1>4. \A f \in Inferred : /\ round >= 2 => R(f, round - 2) \subseteq sets[f]
                          /\ f \notin todo => R(f, round - 1) \subseteq sets[f]
  BY DEF Deep
<1> SUFFICES /\ round' # 0
             /\ \A f \in Inferred : /\ round' >= 2 => R(f, round' - 2) \subseteq sets'[f]
                                    /\ f \notin todo' => R(f, round' - 1) \subseteq sets'[f]
  BY <1>2 DEF Deep, Returned
<1>5. ASSUME NEW f \in Fns, Visit(f)
      PROVE  \A g \in Inferred : /\ round >= 2 => R(g, round - 2) \subseteq sets'[g]
                                 /\ g \notin todo' => R(g, round - 1) \subseteq sets'[g]
  <2>1. /\ f \in Inferred /\ sets \in [Inferred -> SUBSET Errors]
        /\ sets' = [sets EXCEPT ![f] = New(sets, f)] /\ todo' = todo \ {f}
        /\ edges \in [Fns -> SUBSET Fns]
    BY <1>5 DEF Visit, SetsTypeOK
  <2>2. Passed[f] \subseteq Inferred
    BY <2>1 DEF Passed, Inferred
  <2>3. New(sets, f) = Own(f) \cup UNION {sets[g] : g \in Passed[f]}
    BY <2>1, NewIs
  <2>4. R(f, round - 1) \subseteq New(sets, f)
    <3>1. CASE round = 1
      <4>1. Passed \in [Fns -> SUBSET Fns] /\ {f} \in SUBSET Fns
        BY <2>1 DEF Passed
      <4>2. InSteps(Passed, {f}, round - 1) = {f}
        BY <3>1, <4>1, StepsAre
      <4> QED BY <2>3, <4>2 DEF Returned
    <3>2. CASE round # 1
      <4>1. round >= 2 /\ round - 2 \in Nat /\ round - 1 = (round - 2) + 1
        BY <1>3, <3>2
      <4>2. InSteps(Passed, {f}, round - 1)
                = {f} \cup UNION {InSteps(Passed, {g}, round - 2) : g \in Passed[f]}
        BY <2>1, <4>1, StepsBegin
      <4>3. \A g \in Passed[f] : R(g, round - 2) \subseteq sets[g]
        BY <1>4, <2>2, <4>1
      <4>4. ASSUME NEW h \in InSteps(Passed, {f}, round - 1) PROVE Own(h) \subseteq New(sets, f)
        <5>1. CASE h = f
          BY <2>3, <5>1
        <5>2. CASE h # f
          <6>1. PICK g \in Passed[f] : h \in InSteps(Passed, {g}, round - 2)
            BY <4>2, <5>2
          <6>2. Own(h) \subseteq sets[g]
            BY <4>3, <6>1 DEF Returned
          <6> QED BY <2>3, <6>2
        <5> QED BY <5>1, <5>2
      <4> QED BY <4>4 DEF Returned
    <3> QED BY <3>1, <3>2
  <2>5. CASE round >= 2
    <3>1. R(f, round - 2) \subseteq R(f, round - 1)
      <4>1. Passed \in [Fns -> SUBSET Fns] /\ {f} \in SUBSET Fns
        BY <2>1 DEF Passed
      <4>2. round - 2 \in Nat /\ round - 1 \in Nat /\ round - 2 <= round - 1
        BY <1>3, <2>5
      <4>3. InSteps(Passed, {f}, round - 2) \subseteq InSteps(Passed, {f}, round - 1)
        BY <4>1, <4>2, StepsGrow
      <4> QED BY <4>3 DEF Returned
    <3> HIDE DEF R
    <3>2. ASSUME NEW g \in Inferred
          PROVE  /\ R(g, round - 2) \subseteq sets'[g]
                 /\ g \notin todo' => R(g, round - 1) \subseteq sets'[g]
      <4>1. CASE g = f
        BY <2>1, <2>4, <3>1, <4>1
      <4>2. CASE g # f
        BY <1>4, <2>1, <2>5, <4>2
      <4> QED BY <4>1, <4>2
    <3> QED BY <3>2
  <2>6. CASE ~(round >= 2)
    <3> HIDE DEF R
    <3>1. ASSUME NEW g \in Inferred, g \notin todo'
          PROVE  R(g, round - 1) \subseteq sets'[g]
      <4>1. CASE g = f
        BY <2>1, <2>4, <4>1
      <4>2. CASE g # f
        BY <1>4, <2>1, <3>1, <4>2
      <4> QED BY <4>1, <4>2
    <3> QED BY <2>6, <3>1
  <2> QED BY <2>5, <2>6
<1>6. CASE \E f \in Fns : Visit(f)
  <2>1. round' = round
    BY <1>6 DEF Visit
  <2> QED BY <1>3, <1>5, <1>6, <2>1
<1>7. CASE NextRound
  <2>1. todo = {} /\ todo' = Inferred /\ round' = round + 1 /\ sets' = sets
    BY <1>7 DEF NextRound
  <2>2. round' # 0 /\ round' - 2 = round - 1
    BY <1>3, <2>1
  <2> HIDE DEF R
  <2> QED BY <1>4, <2>1, <2>2
<1>8. CASE Sweep \/ UNCHANGED setVars
  <2>1. UNCHANGED <<todo, round, sets>>
    BY <1>8 DEF Sweep, setVars
  <2> HIDE DEF R
  <2> QED BY <1>3, <1>4, <2>1
<1> QED BY <1>6, <1>7, <1>8 DEF SetsNext

(* What is returned along the paths errors are passed on solves the        *)
(* equations, so no set has more.                                          *)
LEMMA NoMore ==
    ASSUME SetsTypeOK, Below, NEW f \in Inferred
    PROVE  sets[f] \subseteq Returned(Origins(f))
<1> DEFINE sol == [g \in Inferred |-> Returned(Origins(g))]
<1>1. edges \in [Fns -> SUBSET Fns]
  BY DEF SetsTypeOK
<1>2. sol \in [Inferred -> SUBSET Errors]
  <2>1. ASSUME NEW g \in Fns PROVE Own(g) \subseteq Errors
    BY DEF Own, SetsTypeOK
  <2>2. ASSUME NEW g \in Inferred PROVE Origins(g) \subseteq Fns
    BY <1>1, OriginsAre DEF Inferred
  <2> QED BY <2>1, <2>2 DEF Returned
<1>3. Solves(sol)
  <2> SUFFICES ASSUME NEW g \in Inferred PROVE sol[g] = New(sol, g)
    BY DEF Solves
  <2>1. Origins(g) = {g} \cup UNION {Origins(h) : h \in Passed[g]}
    BY <1>1, OriginsAre
  <2>2. Returned(Origins(g)) = Own(g) \cup UNION {Returned(Origins(h)) : h \in Passed[g]}
    BY <2>1 DEF Returned
  <2>3. Passed[g] \subseteq Inferred
    BY <1>1 DEF Passed, Inferred
  <2>4. UNION {Returned(Origins(h)) : h \in Passed[g]} = UNION {sol[h] : h \in Passed[g]}
    BY <2>3
  <2>5. New(sol, g) = Own(g) \cup UNION {sol[h] : h \in Passed[g]}
    BY <1>1, NewIs
  <2> QED BY <2>2, <2>4, <2>5
<1>4. AtMost(sets, sol)
  BY <1>2, <1>3 DEF Below
<1> QED BY <1>4 DEF AtMost

(* No set has less: when it solves the equations, and when there were as   *)
(* many rounds as there are functions.                                     *)
LEMMA NoLess ==
    ASSUME SetsTypeOK, Quiet, Deep, todo = {}, ~changed \/ round = MaxRounds,
           Cardinality(Fns) <= MaxRounds, NEW f \in Inferred
    PROVE  Returned(Origins(f)) \subseteq sets[f]
<1>1. edges \in [Fns -> SUBSET Fns] /\ f \in Fns
  BY DEF SetsTypeOK, Inferred
<1>2. CASE ~changed
  <2> DEFINE X == {g \in Inferred : sets[g] \subseteq sets[f]}
  <2>1. \A g \in Inferred : sets[g] = Own(g) \cup UNION {sets[h] : h \in Passed[g]}
    <3>1. \A g \in Inferred : sets[g] = New(sets, g)
      BY <1>2 DEF Quiet
    <3> QED BY <1>1, <3>1, NewIs
  <2>2. \A g \in X \cap Fns : Passed[g] \subseteq X
    BY <1>1, <2>1 DEF Passed
  <2>3. f \in X
    OBVIOUS
  <2>4. Origins(f) \subseteq X
    <3> HIDE DEF X
    <3> QED BY <1>1, <2>2, <2>3, OriginsAre
  <2>5. \A g \in X : Own(g) \subseteq sets[f]
    BY <2>1
  <2> QED BY <2>4, <2>5 DEF Returned
<1>3. CASE round = MaxRounds
  <2>1. Returned(InSteps(Passed, {f}, round - 1)) \subseteq sets[f]
    BY DEF Deep
  <2>2. Passed \in [Fns -> SUBSET Fns] /\ {f} \in SUBSET Fns /\ {f} # {}
    BY <1>1 DEF Passed
  <2>3. /\ Cardinality(Fns) \in Nat \ {0}
        /\ InSteps(Passed, {f}, Cardinality(Fns)) = InSteps(Passed, {f}, Cardinality(Fns) - 1)
    BY <2>2, SetsAssumption, StepsClose
  <2>4. round - 1 \in Nat /\ Cardinality(Fns) - 1 \in Nat /\ Cardinality(Fns) - 1 <= round - 1
    BY <1>3, <2>3, SetsAssumption
  <2>5. Origins(f) \subseteq InSteps(Passed, {f}, round - 1)
    BY <2>2, <2>3, <2>4, StepsGrow DEF Origins, Closure
  <2> QED BY <2>1, <2>5 DEF Returned
<1> QED BY <1>2, <1>3

(* What is reported of a function is what it can return, and nothing on a  *)
(* cycle of calls is reported (see ReportedIsReturned).                    *)
THEOREM ExactOnceReported == SetsSpec => []ErrorSetsAreExact
<1>1. SetsInit => Deep /\ AtEnd
  <2> SUFFICES ASSUME SetsInit PROVE Deep
    BY DEF SetsInit, AtEnd
  <2> QED BY DEF SetsInit, Deep
<1>2. AtEnd /\ [SetsNext]_setVars => AtEnd'
  <2> SUFFICES ASSUME AtEnd, [SetsNext]_setVars PROVE AtEnd'
    OBVIOUS
  <2>1. CASE Sweep
    <3>1. program' = program
      BY <2>1 DEF Sweep
    <3> QED BY <2>1, <3>1, PassedStays DEF Sweep, AtEnd
  <2>2. CASE UNCHANGED setVars
    <3>1. program' = program
      BY <2>2 DEF setVars
    <3> QED BY <2>2, <3>1, PassedStays DEF setVars, AtEnd
  <2>3. CASE SetsNext /\ ~Sweep
    BY <2>3 DEF SetsNext, Visit, NextRound, AtEnd
  <2> QED BY <2>1, <2>2, <2>3
<1>3. SetsTypeOK /\ Below /\ Quiet /\ Ended /\ Deep /\ AtEnd => ReportedIsReturned
  <2> SUFFICES ASSUME SetsTypeOK, Below, Quiet, Ended, Deep, AtEnd,
                      setPhase = "done", Cardinality(Fns) <= MaxRounds,
                      NEW f \in DOMAIN Reported
               PROVE  /\ \A g \in Origins(f) : f \notin edges[g]
                      /\ Reported[f] = UNION {Own(g) : g \in Origins(f)}
    BY DEF ReportedIsReturned
  <2>1. f \in Inferred /\ f \notin Within(f) /\ Reported[f] = sets[f]
    BY DEF Reported, AtEnd, ReachesSelf
  <2>2. edges \in [Fns -> SUBSET Fns] /\ f \in Fns /\ edges[f] \in SUBSET Fns
    BY <2>1 DEF SetsTypeOK, Inferred
  <2>3. /\ edges[f] \subseteq Within(f) /\ Closed(edges, Within(f)) /\ Within(f) \in SUBSET Fns
    BY <2>2, ClosureIsLeast DEF Within
  <2>4. \A g \in Origins(f) : f \notin edges[g]
    <3>1. Origins(f) \subseteq {f} \cup Within(f)
      BY <2>1, <2>2, OriginsAre
    <3> QED BY <2>1, <2>3, <3>1 DEF Closed
  <2>5. sets[f] = Returned(Origins(f))
    <3>1. todo = {} /\ (~changed \/ round = MaxRounds)
      BY DEF Ended, AtEnd
    <3> QED BY <2>1, <3>1, NoMore, NoLess
  <2> QED BY <2>1, <2>4, <2>5 DEF Returned
<1> QED BY <1>1, <1>2, <1>3, LeastStarts, LeastStays, DeepStays, SetsTypeCorrect, OrderDoesNotMatter, PTL
    DEF SetsSpec, ErrorSetsAreExact

-----------------------------------------------------------------------------
(***************************************************************************)
(* Error codes, for any number of files that name the errors any number of *)
(* times.                                                                  *)
(***************************************************************************)

(* Tables of error names: no name twice.                                   *)
Tables == {s \in Seq(ErrorNames) : Distinct(s)}

LEMMA RegisterKeeps ==
    ASSUME NEW t \in Tables, NEW n \in ErrorNames
    PROVE  register(t, n) \in Tables /\ NamesIn(register(t, n)) = NamesIn(t) \cup {n}
<1>1. CASE n \in NamesIn(t)
  BY <1>1 DEF register
<1>2. CASE n \notin NamesIn(t)
  <2> DEFINE s == Append(t, n)
  <2>1. /\ s \in Seq(ErrorNames) /\ Len(s) = Len(t) + 1 /\ s[Len(t) + 1] = n
        /\ \A i \in 1..Len(t) : s[i] = t[i]
    BY DEF Tables
  <2>2. Len(t) \in Nat /\ \A i \in 1..Len(s) : i \in 1..Len(t) \/ i = Len(t) + 1
    BY <2>1 DEF Tables
  <2>3. NamesIn(s) = NamesIn(t) \cup {n}
    BY <2>1, <2>2 DEF NamesIn
  <2>4. Distinct(s)
    BY <1>2, <2>1, <2>2 DEF Tables, Distinct, NamesIn
  <2> QED BY <1>2, <2>1, <2>3, <2>4 DEF register, Tables
<1> QED BY <1>1, <1>2

LEMMA RegisterAllKeeps ==
    ASSUME NEW t \in Tables, NEW ns \in Seq(ErrorNames)
    PROVE  /\ registerAll(t, ns) \in Tables
           /\ NamesIn(registerAll(t, ns)) = NamesIn(t) \cup NamesIn(ns)
<1> DEFINE m == Len(ns)
           F == [k \in 1..m |-> [s \in Tables |-> register(s, ns[k])]]
<1>1. m \in Nat /\ \A k \in 1..m : ns[k] \in ErrorNames
  OBVIOUS
<1>2. F \in [1..m -> [Tables -> Tables]]
  BY <1>1, RegisterKeeps
<1>3. PICK r : FollowsTo(m, r, Tables, t, F)
  <2> HIDE DEF F, m
  <2> QED BY <1>1, <1>2, RecursTo
<1>4. r \in [0..m -> Tables] /\ \A k \in 0..m : r[k] = IF k = 0 THEN t ELSE register(r[k - 1], ns[k])
  <2>1. r \in [0..m -> Tables] /\ \A k \in 0..m : r[k] = IF k = 0 THEN t ELSE F[k][r[k - 1]]
    <3> HIDE DEF F
    <3> QED BY <1>3 DEF FollowsTo
  <2>2. ASSUME NEW k \in 0..m, k # 0 PROVE F[k][r[k - 1]] = register(r[k - 1], ns[k])
    <3>1. k \in 1..m /\ k - 1 \in 0..m
      BY <1>1, <2>2
    <3>2. r[k - 1] \in Tables
      <4> HIDE DEF F
      <4> QED BY <2>1, <3>1
    <3> QED BY <3>1, <3>2
  <2> HIDE DEF F
  <2> QED BY <2>1, <2>2
<1> HIDE DEF F
<1> DEFINE first == CHOOSE f : f = [k \in 0..m |-> IF k = 0 THEN t ELSE register(f[k - 1], ns[k])]
<1>5. registerAll(t, ns) = first[m]
  BY DEF registerAll
<1>6. r = [k \in 0..m |-> IF k = 0 THEN t ELSE register(r[k - 1], ns[k])]
  BY <1>4
<1>7. first = [k \in 0..m |-> IF k = 0 THEN t ELSE register(first[k - 1], ns[k])]
  BY <1>6
<1> HIDE DEF first
<1> DEFINE P == {k \in Nat : /\ first[k] \in Tables
                             /\ NamesIn(first[k]) = NamesIn(t) \cup {ns[i] : i \in 1..k}}
<1>8. 0 \in P
  <2>1. first[0] = t
    BY <1>1, <1>7
  <2> QED BY <2>1
<1>9. ASSUME NEW k \in 0 .. m - 1, k \in P PROVE k + 1 \in P
  <2>1. k + 1 \in 0..m /\ k + 1 # 0 /\ (k + 1) - 1 = k /\ k + 1 \in 1..m
    BY <1>1
  <2>2. first[k + 1] = register(first[k], ns[k + 1])
    BY <1>7, <2>1
  <2>3. first[k + 1] \in Tables /\ NamesIn(first[k + 1]) = NamesIn(first[k]) \cup {ns[k + 1]}
    BY <1>1, <1>9, <2>1, <2>2, RegisterKeeps
  <2>4. 1 .. k + 1 = 1..k \cup {k + 1}
    BY <1>1
  <2> QED BY <1>9, <2>3, <2>4
<1>10. m \in P
  <2>1. \A k \in 0..m : k \in P
    <3> HIDE DEF P, m
    <3> QED BY <1>1, <1>8, <1>9, InductsTo
  <2> HIDE DEF P
  <2> QED BY <1>1, <2>1
<1> QED BY <1>5, <1>10 DEF NamesIn

LEMMA NoNames == <<>> \in Tables /\ NamesIn(<<>>) = {}
BY DEF Tables, Distinct, NamesIn

LEMMA CollectIs ==
    ASSUME NEW file \in Seq(ErrorNames)
    PROVE  collect(file) \in Tables /\ NamesIn(collect(file)) = NamesIn(file) \cup {"OutOfMemory"}
<1>1. BUILTIN_ERRORS \in Seq(ErrorNames) /\ NamesIn(BUILTIN_ERRORS) = {"OutOfMemory"}
  BY DEF BUILTIN_ERRORS, ErrorNames, NamesIn
<1>2. /\ registerAll(<<>>, file) \in Tables
      /\ NamesIn(registerAll(<<>>, file)) = NamesIn(file)
  BY NoNames, RegisterAllKeeps
<1> QED BY <1>1, <1>2, RegisterAllKeeps DEF collect

(* There are numbers enough for a table without repetition, so it tells    *)
(* its names apart.                                                        *)
LEMMA NumbersSuffice ==
    ASSUME NEW t \in Tables
    PROVE  Len(t) \in Nat /\ Len(t) <= CodeSize
<1>1. Len(t) \in Nat /\ t \in [1..Len(t) -> ErrorNames] /\ CodeSize \in Nat
  BY CodesAssumption DEF Tables
<1>2. IsFiniteSet(1..Len(t)) /\ Cardinality(1..Len(t)) = Len(t)
  BY <1>1, FS_Interval
<1>3. IsFiniteSet(ErrorNames) /\ Cardinality(ErrorNames) \in Nat /\ Cardinality(ErrorNames) <= CodeSize
  BY CodesAssumption, FS_CardinalityType
<1>4. CASE Cardinality(ErrorNames) < Cardinality(1..Len(t))
  <2>1. \E i, j \in 1..Len(t) : i # j /\ t[i] = t[j]
    BY <1>1, <1>2, <1>3, <1>4, FS_PigeonHole
  <2> QED BY <2>1 DEF Tables, Distinct
<1> QED BY <1>1, <1>2, <1>3, <1>4

LEMMA CodesOfTable ==
    ASSUME NEW t \in Tables
    PROVE  /\ \A n \in NamesIn(t) : \E i \in 1..Len(t) : t[i] = n /\ CodeIn(t, n) = i - 1
           /\ \A i \in 1..Len(t) : t[i] \in NamesIn(t) /\ CodeIn(t, t[i]) = i - 1
           /\ \A n : n \notin NamesIn(t) => CodeIn(t, n) = NoCode
           /\ \A m, n \in NamesIn(t) : CodeIn(t, m) = CodeIn(t, n) => m = n
           /\ \A n : CodeIn(t, n) \in 0..CodeSize /\ (CodeIn(t, n) # NoCode <=> n \in NamesIn(t))
<1>1. Len(t) \in Nat /\ Len(t) <= CodeSize /\ CodeSize \in Nat
  BY NumbersSuffice, CodesAssumption
<1>2. ASSUME NEW i \in 1..Len(t) PROVE t[i] \in NamesIn(t) /\ CodeIn(t, t[i]) = i - 1
  <2>1. t[i] \in NamesIn(t)
    BY DEF NamesIn
  <2>2. (CHOOSE j \in 1..Len(t) : t[j] = t[i]) = i
    BY DEF Tables, Distinct
  <2>3. (i - 1) % CodeSize = i - 1
    BY <1>1
  <2> QED BY <2>1, <2>2, <2>3 DEF CodeIn
<1>3. ASSUME NEW n \in NamesIn(t) PROVE \E i \in 1..Len(t) : t[i] = n /\ CodeIn(t, n) = i - 1
  BY <1>2 DEF NamesIn
<1>4. \A n : n \notin NamesIn(t) => CodeIn(t, n) = NoCode
  BY DEF CodeIn
<1>5. ASSUME NEW m \in NamesIn(t), NEW n \in NamesIn(t), CodeIn(t, m) = CodeIn(t, n) PROVE m = n
  BY <1>1, <1>3, <1>5
<1>6. ASSUME NEW n PROVE CodeIn(t, n) \in 0..CodeSize /\ (CodeIn(t, n) # NoCode <=> n \in NamesIn(t))
  <2>1. CASE n \in NamesIn(t)
    BY <1>1, <1>3, <2>1 DEF NoCode
  <2>2. CASE n \notin NamesIn(t)
    BY <1>1, <1>4, <2>2 DEF NoCode
  <2> QED BY <2>1, <2>2
<1> QED BY <1>2, <1>3, <1>4, <1>5, <1>6

-----------------------------------------------------------------------------
(* The files of a package.                                                 *)
FilesTell == /\ Len(files) \in Nat \ {0}
             /\ \A i \in 1..Len(files) : files[i] \in Seq(ErrorNames)

LEMMA MergedIs ==
    ASSUME FilesTell
    PROVE  /\ merge_error_tables \in Tables
           /\ NamesIn(merge_error_tables)
                  = (UNION {NamesIn(files[i]) : i \in 1..Len(files)}) \cup {"OutOfMemory"}
<1> DEFINE m       == Len(files)
           file(k) == IF k = 1 THEN files[m] ELSE files[k - 1]
           F       == [k \in 1..m |-> [s \in Tables |-> registerAll(s, collect(file(k)))]]
<1>1. m \in Nat \ {0} /\ \A k \in 1..m : file(k) \in Seq(ErrorNames)
  <2>1. m \in Nat \ {0} /\ m \in 1..m /\ \A k \in 1..m : k # 1 => k - 1 \in 1..m
    BY DEF FilesTell
  <2> QED BY <2>1 DEF FilesTell
<1> HIDE DEF file
<1>2. ASSUME NEW k \in 1..m, NEW s \in Tables
      PROVE  /\ registerAll(s, collect(file(k))) \in Tables
             /\ NamesIn(registerAll(s, collect(file(k)))) = NamesIn(s) \cup NamesIn(file(k)) \cup {"OutOfMemory"}
  <2>1. collect(file(k)) \in Tables /\ NamesIn(collect(file(k))) = NamesIn(file(k)) \cup {"OutOfMemory"}
    BY <1>1, CollectIs
  <2>2. collect(file(k)) \in Seq(ErrorNames)
    BY <2>1 DEF Tables
  <2> QED BY <2>1, <2>2, RegisterAllKeeps
<1>3. F \in [1..m -> [Tables -> Tables]]
  BY <1>2
<1>4. PICK r : FollowsTo(m, r, Tables, <<>>, F)
  <2> HIDE DEF F, m
  <2> QED BY <1>1, <1>3, NoNames, RecursTo
<1>5. /\ r \in [0..m -> Tables]
      /\ \A k \in 0..m : r[k] = IF k = 0 THEN <<>> ELSE registerAll(r[k - 1], collect(file(k)))
  <2>1. r \in [0..m -> Tables] /\ \A k \in 0..m : r[k] = IF k = 0 THEN <<>> ELSE F[k][r[k - 1]]
    <3> HIDE DEF F
    <3> QED BY <1>4 DEF FollowsTo
  <2>2. ASSUME NEW k \in 0..m, k # 0 PROVE F[k][r[k - 1]] = registerAll(r[k - 1], collect(file(k)))
    <3>1. k \in 1..m /\ k - 1 \in 0..m
      BY <1>1, <2>2
    <3>2. r[k - 1] \in Tables
      <4> HIDE DEF F
      <4> QED BY <2>1, <3>1
    <3> QED BY <3>1, <3>2
  <2> HIDE DEF F
  <2> QED BY <2>1, <2>2
<1> HIDE DEF F
<1> DEFINE first == CHOOSE f : f = [k \in 0..m |->
                        IF k = 0 THEN <<>> ELSE registerAll(f[k - 1], collect(file(k)))]
<1>6. merge_error_tables = first[m]
  BY DEF merge_error_tables, file
<1>7. r = [k \in 0..m |-> IF k = 0 THEN <<>> ELSE registerAll(r[k - 1], collect(file(k)))]
  BY <1>5
<1>8. first = [k \in 0..m |-> IF k = 0 THEN <<>> ELSE registerAll(first[k - 1], collect(file(k)))]
  BY <1>7
<1> HIDE DEF first
<1> DEFINE P == {k \in Nat :
                 /\ first[k] \in Tables
                 /\ NamesIn(first[k]) = UNION {NamesIn(file(i)) \cup {"OutOfMemory"} : i \in 1..k}}
<1>9. 0 \in P
  <2>1. first[0] = <<>>
    BY <1>1, <1>8
  <2> QED BY <2>1, NoNames
<1>10. ASSUME NEW k \in 0 .. m - 1, k \in P PROVE k + 1 \in P
  <2>1. k + 1 \in 0..m /\ k + 1 # 0 /\ (k + 1) - 1 = k /\ k + 1 \in 1..m
    BY <1>1
  <2>2. first[k + 1] = registerAll(first[k], collect(file(k + 1)))
    BY <1>8, <2>1
  <2>3. /\ first[k + 1] \in Tables
        /\ NamesIn(first[k + 1]) = NamesIn(first[k]) \cup NamesIn(file(k + 1)) \cup {"OutOfMemory"}
    BY <1>2, <1>10, <2>1, <2>2
  <2>4. 1 .. k + 1 = 1..k \cup {k + 1}
    BY <1>1
  <2> QED BY <1>10, <2>3, <2>4
<1>11. m \in P
  <2>1. \A k \in 0..m : k \in P
    <3> HIDE DEF P, m
    <3> QED BY <1>1, <1>9, <1>10, InductsTo
  <2> HIDE DEF P
  <2> QED BY <1>1, <2>1
<1>12. UNION {NamesIn(file(i)) \cup {"OutOfMemory"} : i \in 1..m}
           = (UNION {NamesIn(files[i]) : i \in 1..m}) \cup {"OutOfMemory"}
  <2>1. ASSUME NEW i \in 1..m PROVE \E j \in 1..m : file(i) = files[j]
    BY <1>1 DEF file
  <2>2. ASSUME NEW j \in 1..m PROVE \E i \in 1..m : file(i) = files[j]
    <3>1. CASE j = m
      <4>1. 1 \in 1..m /\ file(1) = files[j]
        BY <1>1, <3>1 DEF file
      <4> QED BY <4>1
    <3>2. CASE j # m
      <4>1. j + 1 \in 1..m /\ file(j + 1) = files[j]
        BY <1>1, <3>2 DEF file
      <4> QED BY <4>1
    <3> QED BY <3>1, <3>2
  <2>3. 1 \in 1..m
    BY <1>1
  <2>4. ASSUME NEW i \in 1..m, NEW x \in NamesIn(file(i)) PROVE \E j \in 1..m : x \in NamesIn(files[j])
    BY <2>1
  <2>5. ASSUME NEW j \in 1..m, NEW x \in NamesIn(files[j]) PROVE \E i \in 1..m : x \in NamesIn(file(i))
    BY <2>2
  <2> QED BY <2>3, <2>4, <2>5
<1> QED BY <1>6, <1>11, <1>12

-----------------------------------------------------------------------------
(* A value has the number of its name, and in a program of one file the    *)
(* numbers given so far are as many as there are slots.                    *)
Numbered == {n \in ErrorNames : codes[n] # NoCode}

CodesTell ==
    /\ loaded \in Nat /\ slots \in Nat
    /\ codes \in [ErrorNames -> 0..CodeSize]
    /\ \A v \in values : v[1] \in Numbered /\ v[2] = codes[v[1]]

OneFileTells ==
    Len(files) = 1 =>
        /\ loaded = 0 => Numbered = {}
        /\ loaded \in {0, 1}
        /\ slots = Cardinality(Numbered)
        /\ \A n \in Numbered : codes[n] < slots
        /\ \A m, n \in Numbered : codes[m] = codes[n] => m = n

CodesInv == FilesTell /\ CodesTell /\ OneFileTells

LEMMA NumberedIs ==
    /\ Numbered \in SUBSET ErrorNames /\ IsFiniteSet(Numbered)
    /\ Cardinality(Numbered) \in Nat /\ Cardinality(Numbered) <= CodeSize
    /\ \A n \in ErrorNames : n \notin Numbered => Cardinality(Numbered) < CodeSize
    /\ CodeSize \in Nat \ {0}
<1>1. /\ IsFiniteSet(ErrorNames) /\ Cardinality(ErrorNames) \in Nat
      /\ Cardinality(ErrorNames) <= CodeSize /\ CodeSize \in Nat
  BY CodesAssumption, FS_CardinalityType
<1>2. Numbered \in SUBSET ErrorNames
  BY DEF Numbered
<1>3. /\ IsFiniteSet(Numbered) /\ Cardinality(Numbered) <= Cardinality(ErrorNames)
      /\ Cardinality(Numbered) = Cardinality(ErrorNames) => Numbered = ErrorNames
  BY <1>1, <1>2, FS_Subset
<1>4. Cardinality(Numbered) \in Nat
  BY <1>3, FS_CardinalityType
<1>5. Cardinality(ErrorNames) # 0
  <2>1. ErrorNames # {}
    BY DEF ErrorNames
  <2> QED BY <1>1, <2>1, FS_EmptySet
<1> QED BY <1>1, <1>2, <1>3, <1>4, <1>5

(* What is stretched has a place for every index there is, and no more.    *)
LEMMA StretchedIs ==
    ASSUME NEW known \in [ErrorNames -> 0..CodeSize], slots \in Nat
    PROVE  LET used == {0, slots} \cup {known[n] + 1 : n \in {m \in ErrorNames : known[m] # NoCode}}
           IN  Stretched(known) \in used /\ used \in SUBSET Nat /\ \A i \in used : i <= Stretched(known)
<1> DEFINE used == {0, slots} \cup {known[n] + 1 : n \in {m \in ErrorNames : known[m] # NoCode}}
<1>1. CodeSize \in Nat
  BY CodesAssumption
<1>2. used \in SUBSET Nat /\ used # {} /\ \A i \in used : i <= slots + CodeSize + 1
  BY <1>1
<1>3. \E k \in used : \A i \in used : i <= k
  <2>1. slots + CodeSize + 1 \in Nat
    BY <1>1
  <2> HIDE DEF used
  <2> QED BY <1>2, <2>1, GreatestNumber
<1>4. Stretched(known) = CHOOSE k \in used : \A i \in used : i <= k
  BY DEF Stretched
<1> HIDE DEF used
<1>5. Stretched(known) \in used /\ \A i \in used : i <= Stretched(known)
  BY <1>3, <1>4
<1> QED BY <1>2, <1>5 DEF used

LEMMA RecordKeeps ==
    ASSUME CodesInv, RecordErrorLocs
    PROVE  CodesInv'
<1> DEFINE table == collect(files[loaded + 1])
<1>1. /\ files' = files /\ values' = values /\ loaded' = loaded + 1 /\ loaded < Len(files)
      /\ codes' = [n \in ErrorNames |-> IF codes[n] # NoCode THEN codes[n] ELSE CodeIn(table, n)]
      /\ slots' = Stretched(codes')
  BY DEF RecordErrorLocs
<1>2. loaded \in Nat /\ slots \in Nat /\ codes \in [ErrorNames -> 0..CodeSize]
  BY DEF CodesInv, CodesTell
<1>3. table \in Tables
  <2>1. loaded + 1 \in 1..Len(files) /\ files[loaded + 1] \in Seq(ErrorNames)
    BY <1>1, <1>2 DEF CodesInv, FilesTell
  <2> QED BY <2>1, CollectIs
<1> HIDE DEF table
<1>4. codes' \in [ErrorNames -> 0..CodeSize]
  BY <1>1, <1>2, <1>3, CodesOfTable
<1>5. slots' \in Nat
  BY <1>1, <1>2, <1>4, StretchedIs
<1>6. \A n \in Numbered : n \in Numbered' /\ codes'[n] = codes[n]
  BY <1>1 DEF Numbered
<1>7. CodesTell'
  <2>1. \A v \in values' : v[1] \in Numbered' /\ v[2] = codes'[v[1]]
    BY <1>1, <1>6 DEF CodesInv, CodesTell
  <2>2. loaded' \in Nat
    BY <1>1, <1>2
  <2> QED BY <1>4, <1>5, <2>1, <2>2 DEF CodesTell
<1>8. ASSUME Len(files) = 1
      PROVE  /\ loaded' = 1 /\ slots' = Cardinality(Numbered')
             /\ \A n \in Numbered' : codes'[n] < slots'
             /\ \A m, n \in Numbered' : codes'[m] = codes'[n] => m = n
  <2>1. loaded = 0 /\ Numbered = {} /\ slots = 0
    <3>1. loaded = 0 /\ Numbered = {}
      BY <1>1, <1>2, <1>8 DEF CodesInv, OneFileTells
    <3> QED BY <1>8, <3>1, FS_EmptySet DEF CodesInv, OneFileTells
  <2>2. \A n \in ErrorNames : codes'[n] = CodeIn(table, n)
    BY <1>1, <2>1 DEF Numbered
  <2>3. NamesIn(table) \in SUBSET ErrorNames /\ Len(table) \in Nat
    BY <1>3 DEF Tables, NamesIn
  <2>4. Numbered' = NamesIn(table)
    BY <1>3, <2>2, <2>3, CodesOfTable DEF Numbered
  <2>5. Cardinality(NamesIn(table)) = Len(table)
    <3>1. table \in Bijection(1..Len(table), NamesIn(table))
      BY <1>3, <2>3, Fun_IsBij DEF Tables, Distinct, NamesIn
    <3>2. ExistsBijection(1..Len(table), NamesIn(table))
      BY <3>1, Fun_ExistsBij
    <3> QED BY <2>3, <3>2, FS_CountingElements
  <2>6. \A n \in Numbered' : codes'[n] + 1 \in 1..Len(table)
    BY <1>3, <2>2, <2>3, <2>4, CodesOfTable
  <2>7. slots' = Len(table)
    <3> DEFINE used == {0, slots} \cup {codes'[n] + 1 : n \in {m \in ErrorNames : codes'[m] # NoCode}}
    <3>1. slots' \in used /\ used \in SUBSET Nat /\ \A i \in used : i <= slots'
      BY <1>1, <1>2, <1>4, StretchedIs
    <3>2. \A i \in used : i <= Len(table)
      BY <2>1, <2>3, <2>6 DEF Numbered
    <3>3. Len(table) \in used
      <4>1. CASE Len(table) = 0
        BY <4>1
      <4>2. CASE Len(table) # 0
        <5>1. Len(table) \in 1..Len(table)
          BY <2>3, <4>2
        <5>2. table[Len(table)] \in NamesIn(table) /\ CodeIn(table, table[Len(table)]) = Len(table) - 1
          BY <1>3, <5>1, CodesOfTable
        <5>3. table[Len(table)] \in Numbered' /\ codes'[table[Len(table)]] + 1 = Len(table)
          BY <2>2, <2>3, <2>4, <5>2
        <5> QED BY <5>3 DEF Numbered
      <4> QED BY <4>1, <4>2
    <3> HIDE DEF used
    <3> QED BY <3>1, <3>2, <3>3
  <2>8. \A n \in Numbered' : codes'[n] < slots'
    BY <1>4, <2>3, <2>6, <2>7 DEF Numbered
  <2>9. \A m, n \in Numbered' : codes'[m] = codes'[n] => m = n
    BY <1>3, <2>2, <2>3, <2>4, CodesOfTable
  <2>10. loaded' = 1
    BY <1>1, <2>1
  <2>11. slots' = Cardinality(Numbered')
    BY <2>4, <2>5, <2>7
  <2> QED BY <2>8, <2>9, <2>10, <2>11
<1>9. OneFileTells'
  BY <1>1, <1>8 DEF OneFileTells
<1>10. FilesTell'
  BY <1>1 DEF CodesInv, FilesTell
<1> QED BY <1>7, <1>9, <1>10 DEF CodesInv

LEMMA ErrValKeeps ==
    ASSUME CodesInv, NEW n \in ErrorNames, ErrVal(n)
    PROVE  CodesInv'
<1>1. /\ files' = files /\ loaded' = loaded /\ loaded >= 1
      /\ codes' = IF codes[n] # NoCode THEN codes ELSE [codes EXCEPT ![n] = slots % CodeSize]
      /\ slots' = IF codes[n] # NoCode THEN slots ELSE slots + 1
      /\ values' = values \cup {<<n, codes'[n]>>}
  BY DEF ErrVal
<1>2. loaded \in Nat /\ slots \in Nat /\ codes \in [ErrorNames -> 0..CodeSize] /\ CodeSize \in Nat \ {0}
  BY NumberedIs DEF CodesInv, CodesTell
<1>3. slots % CodeSize \in 0..CodeSize /\ slots % CodeSize < CodeSize
  BY <1>2
<1>4. /\ codes' \in [ErrorNames -> 0..CodeSize] /\ slots' \in Nat
      /\ Numbered' = Numbered \cup {n} /\ \A m \in Numbered : codes'[m] = codes[m]
  BY <1>1, <1>2, <1>3 DEF Numbered, NoCode
<1>5. CodesTell'
  <2>1. \A v \in values' : v[1] \in Numbered' /\ v[2] = codes'[v[1]]
    BY <1>1, <1>4 DEF CodesInv, CodesTell
  <2> QED BY <1>1, <1>2, <1>4, <2>1 DEF CodesTell
<1>6. OneFileTells'
  <2> SUFFICES ASSUME Len(files) = 1
               PROVE  /\ loaded \in {0, 1} /\ slots' = Cardinality(Numbered')
                      /\ \A m \in Numbered' : codes'[m] < slots'
                      /\ \A l, m \in Numbered' : codes'[l] = codes'[m] => l = m
    BY <1>1 DEF OneFileTells
  <2>1. /\ loaded \in {0, 1} /\ slots = Cardinality(Numbered)
        /\ \A m \in Numbered : codes[m] < slots
        /\ \A l, m \in Numbered : codes[l] = codes[m] => l = m
    BY DEF CodesInv, OneFileTells
  <2>2. CASE n \in Numbered
    <3>1. codes' = codes /\ slots' = slots /\ Numbered' = Numbered
      BY <1>1, <1>4, <2>2 DEF Numbered
    <3> QED BY <2>1, <3>1
  <2>3. CASE n \notin Numbered
    <3>1. slots' = slots + 1 /\ codes' = [codes EXCEPT ![n] = slots % CodeSize]
      BY <1>1, <2>3 DEF Numbered
    <3>2. slots < CodeSize /\ Cardinality(Numbered \cup {n}) = Cardinality(Numbered) + 1
      BY <2>1, <2>3, NumberedIs, FS_AddElement
    <3>3. codes'[n] = slots
      BY <1>2, <3>1, <3>2
    <3>4. \A m \in Numbered : codes[m] \in Nat
      BY <1>2 DEF Numbered
    <3>5. \A m \in Numbered' : m = n \/ (m \in Numbered /\ codes'[m] = codes[m] /\ codes[m] < slots)
      BY <1>4, <2>1
    <3> QED BY <1>2, <1>4, <2>1, <3>1, <3>2, <3>3, <3>4, <3>5
  <2> QED BY <2>2, <2>3
<1>7. FilesTell'
  BY <1>1 DEF CodesInv, FilesTell
<1> QED BY <1>5, <1>6, <1>7 DEF CodesInv

(* For any names, files and order of loading: errors are their names in a  *)
(* program of one file, a name keeps its number in every program, and the  *)
(* merged table tells all names apart.                                     *)
THEOREM CodesAlwaysHold == CodesSpec => []ErrorCodesHold
<1>1. CodesInit => CodesInv
  <2> SUFFICES ASSUME CodesInit PROVE CodesInv
    OBVIOUS
  <2>1. FilesTell
    <3>1. PICK n \in Packages : files \in [1..n -> UNION {[1..k -> UserNames] : k \in 0..MaxMentions}]
      BY DEF CodesInit
    <3>2. n \in Nat \ {0} /\ Len(files) = n
      BY <3>1, CodesAssumption
    <3>3. ASSUME NEW i \in 1..n PROVE files[i] \in Seq(ErrorNames)
      <4>1. PICK k \in 0..MaxMentions : files[i] \in [1..k -> UserNames]
        BY <3>1
      <4>2. UserNames \subseteq ErrorNames
        BY DEF ErrorNames
      <4> QED BY <4>1, <4>2, CodesAssumption
    <3> QED BY <3>2, <3>3 DEF FilesTell
  <2>2. Numbered = {}
    BY DEF CodesInit, Numbered
  <2>3. CodesTell
    BY CodesAssumption DEF CodesInit, CodesTell, NoCode
  <2>4. OneFileTells
    BY <2>2, FS_EmptySet DEF CodesInit, OneFileTells
  <2> QED BY <2>1, <2>3, <2>4 DEF CodesInv
<1>2. CodesInv /\ [CodesNext]_codeVars => CodesInv'
  <2> SUFFICES ASSUME CodesInv, [CodesNext]_codeVars PROVE CodesInv'
    OBVIOUS
  <2>1. CASE RecordErrorLocs
    BY <2>1, RecordKeeps
  <2>2. ASSUME NEW n \in ErrorNames, ErrVal(n) PROVE CodesInv'
    BY <2>2, ErrValKeeps
  <2>3. CASE UNCHANGED codeVars
    BY <2>3 DEF codeVars, CodesInv, FilesTell, CodesTell, OneFileTells, Numbered
  <2> QED BY <2>1, <2>2, <2>3 DEF CodesNext
<1>3. CodesInv => ErrorCodesHold
  <2> SUFFICES ASSUME CodesInv PROVE ErrorCodesHold
    OBVIOUS
  <2>1. Len(files) = 1 => ErrorsAreTheirNames
    BY DEF CodesInv, CodesTell, OneFileTells, ErrorsAreTheirNames
  <2>2. \A v, w \in values : v[1] = w[1] => v[2] = w[2]
    BY DEF CodesInv, CodesTell
  <2>3. FilesTell
    BY DEF CodesInv
  <2> QED BY <2>1, <2>2, <2>3, MergedIs, CodesOfTable DEF ErrorCodesHold
<1> QED BY <1>1, <1>2, <1>3, PTL DEF CodesSpec

-----------------------------------------------------------------------------
(***************************************************************************)
(* Linking, for any number of siblings, functions and closures in closures. *)
(***************************************************************************)

MembersOf(s) == {s[i] : i \in 1..Len(s)}

LEMMA AppendedMembers ==
    ASSUME NEW S, NEW s \in Seq(S), NEW x \in S
    PROVE  /\ Append(s, x) \in Seq(S)
           /\ MembersOf(Append(s, x)) = MembersOf(s) \cup {x}
           /\ Distinct(s) /\ x \notin MembersOf(s) => Distinct(Append(s, x))
<1> DEFINE t == Append(s, x)
<1>1. /\ t \in Seq(S) /\ Len(t) = Len(s) + 1 /\ t[Len(s) + 1] = x
      /\ \A i \in 1..Len(s) : t[i] = s[i]
  OBVIOUS
<1>2. Len(s) \in Nat /\ \A i \in 1..Len(t) : i \in 1..Len(s) \/ i = Len(s) + 1
  BY <1>1
<1>3. MembersOf(t) = MembersOf(s) \cup {x}
  BY <1>1, <1>2 DEF MembersOf
<1>4. Distinct(s) /\ x \notin MembersOf(s) => Distinct(t)
  BY <1>1, <1>2 DEF Distinct, MembersOf
<1> QED BY <1>1, <1>3, <1>4

(* What is left of a sequence when only some of its members stay.          *)
LEMMA OnlyIs ==
    ASSUME NEW S, NEW s \in Seq(S), NEW P
    PROVE  /\ Only(s, P) \in Seq(S)
           /\ MembersOf(Only(s, P)) = MembersOf(s) \cap P
           /\ Distinct(s) => Distinct(Only(s, P))
<1> DEFINE m    == Len(s)
           G(t, i) == IF s[i] \in P THEN Append(t, s[i]) ELSE t
           F    == [i \in 1..m |-> [t \in Seq(S) |-> G(t, i)]]
<1>1. m \in Nat /\ \A i \in 1..m : s[i] \in S
  OBVIOUS
<1>2. \A i \in 1..m : \A t \in Seq(S) : G(t, i) \in Seq(S)
  BY <1>1
<1>3. F \in [1..m -> [Seq(S) -> Seq(S)]]
  BY <1>2
<1>4. PICK r : FollowsTo(m, r, Seq(S), <<>>, F)
  <2>1. <<>> \in Seq(S)
    OBVIOUS
  <2> HIDE DEF F, m
  <2> QED BY <1>1, <1>3, <2>1, RecursTo
<1>5. r \in [0..m -> Seq(S)] /\ \A i \in 0..m : r[i] = IF i = 0 THEN <<>> ELSE G(r[i - 1], i)
  <2>1. r \in [0..m -> Seq(S)] /\ \A i \in 0..m : r[i] = IF i = 0 THEN <<>> ELSE F[i][r[i - 1]]
    <3> HIDE DEF F
    <3> QED BY <1>4 DEF FollowsTo
  <2>2. ASSUME NEW i \in 0..m, i # 0 PROVE F[i][r[i - 1]] = G(r[i - 1], i)
    <3>1. i \in 1..m /\ i - 1 \in 0..m
      BY <1>1, <2>2
    <3>2. r[i - 1] \in Seq(S)
      <4> HIDE DEF F
      <4> QED BY <2>1, <3>1
    <3> QED BY <3>1, <3>2
  <2> HIDE DEF F, G
  <2> QED BY <2>1, <2>2
<1> HIDE DEF F
<1> DEFINE only == CHOOSE f : f = [i \in 0..m |-> IF i = 0 THEN <<>>
                                     ELSE IF s[i] \in P THEN Append(f[i - 1], s[i]) ELSE f[i - 1]]
<1>6. Only(s, P) = only[m]
  BY DEF Only
<1>7. r = [i \in 0..m |-> IF i = 0 THEN <<>>
                          ELSE IF s[i] \in P THEN Append(r[i - 1], s[i]) ELSE r[i - 1]]
  BY <1>5
<1>8. only = [i \in 0..m |-> IF i = 0 THEN <<>>
                             ELSE IF s[i] \in P THEN Append(only[i - 1], s[i]) ELSE only[i - 1]]
  BY <1>7
<1> HIDE DEF only
<1> DEFINE Q == {i \in Nat : /\ only[i] \in Seq(S)
                             /\ MembersOf(only[i]) = {s[j] : j \in 1..i} \cap P
                             /\ Distinct(s) => Distinct(only[i])}
<1>9. 0 \in Q
  <2>1. only[0] = <<>>
    BY <1>1, <1>8
  <2>2. only[0] \in Seq(S) /\ Len(only[0]) = 0
    BY <2>1
  <2>3. MembersOf(only[0]) = {} /\ Distinct(only[0])
    BY <2>2 DEF MembersOf, Distinct
  <2> QED BY <2>2, <2>3
<1>10. ASSUME NEW i \in 0 .. m - 1, i \in Q PROVE i + 1 \in Q
  <2>1. i + 1 \in 0..m /\ i + 1 # 0 /\ (i + 1) - 1 = i /\ i + 1 \in 1..m
    BY <1>1
  <2>2. only[i + 1] = IF s[i + 1] \in P THEN Append(only[i], s[i + 1]) ELSE only[i]
    BY <1>8, <2>1
  <2>3. 1 .. i + 1 = 1..i \cup {i + 1}
    BY <1>1
  <2>4. Distinct(s) => s[i + 1] \notin {s[j] : j \in 1..i}
    BY <1>1, <2>1 DEF Distinct
  <2>5. s[i + 1] \in S
    BY <1>1, <2>1
  <2>6. CASE s[i + 1] \in P
    <3>1. only[i] \in Seq(S) /\ only[i + 1] = Append(only[i], s[i + 1])
      BY <1>10, <2>2, <2>6
    <3>2. /\ only[i + 1] \in Seq(S)
          /\ MembersOf(only[i + 1]) = MembersOf(only[i]) \cup {s[i + 1]}
          /\ Distinct(only[i]) /\ s[i + 1] \notin MembersOf(only[i]) => Distinct(only[i + 1])
      BY <2>5, <3>1, AppendedMembers
    <3>3. {s[j] : j \in 1 .. i + 1} = {s[j] : j \in 1..i} \cup {s[i + 1]}
      BY <2>3
    <3>4. MembersOf(only[i]) = {s[j] : j \in 1..i} \cap P /\ (Distinct(s) => Distinct(only[i]))
      BY <1>10
    <3>5. Distinct(s) => Distinct(only[i + 1])
      BY <2>4, <3>2, <3>4
    <3>6. MembersOf(only[i + 1]) = {s[j] : j \in 1 .. i + 1} \cap P
      BY <2>6, <3>2, <3>3, <3>4
    <3>7. i + 1 \in Nat
      OBVIOUS
    <3> QED BY <3>2, <3>5, <3>6, <3>7
  <2>7. CASE s[i + 1] \notin P
    BY <1>10, <2>2, <2>3, <2>7
  <2> QED BY <2>6, <2>7
<1>11. m \in Q
  <2>1. \A i \in 0..m : i \in Q
    <3> HIDE DEF Q, m
    <3> QED BY <1>1, <1>9, <1>10, InductsTo
  <2> HIDE DEF Q
  <2> QED BY <1>1, <2>1
<1> QED BY <1>6, <1>11 DEF MembersOf

-----------------------------------------------------------------------------
(* The entries of the tables, and what they are to make.                   *)
Func == [of : Nat \X Nat, kind : FuncKinds, depth : Nat, makes : Int]
Clos == [of : Nat \X Nat \X Nat, makes : Int]
Inside(f) == IF f.depth = 0 THEN <<>> ELSE Append(f.of, f.depth)
Inner(c)  == IF c.of[3] = 1 THEN <<>> ELSE [c.of EXCEPT ![3] = @ - 1]

(* A reference into a table of closures finds what is wanted.              *)
Refers(table, x, wanted) ==
    IF x = NoClosure THEN wanted = <<>>
    ELSE x \in 0 .. Len(table) - 1 /\ table[x + 1].of = wanted

ClosuresRefer(table) ==
    /\ table \in Seq(Clos)
    /\ \A i \in 1..Len(table) : Refers(table, table[i].makes, Inner(table[i]))
WellMade(m) ==
    /\ m \in [funcs : Seq(Func), closures : Seq(Clos), index : [FuncNames -> Seq(Nat)]]
    /\ ClosuresRefer(m.closures)
    /\ \A i \in 1..Len(m.funcs) : Refers(m.closures, m.funcs[i].makes, Inside(m.funcs[i]))

(* A name stands for a set of functions, each once.                        *)
Stands(index, S) == index \in Seq(Nat) /\ MembersOf(index) = S /\ Distinct(index)
Having(m, n) == {i \in 0 .. Len(m.funcs) - 1 : n \in NamesOf[m.funcs[i + 1].kind]}
Standing(m, n)  == {i \in Having(m, n) : m.funcs[i + 1].of[1] = 0 \/ n \in Qualified}

(* A sibling that is still to come, and what is built so far.              *)
Sibling(m) == /\ WellMade(m)
              /\ \A n \in FuncNames : Stands(m.index[n], Having(m, n))
              /\ \A i \in 1..Len(m.funcs) : m.funcs[i].of[1] # 0
Built(m) == WellMade(m) /\ \A n \in FuncNames : Stands(m.index[n], Standing(m, n))

LEMMA ClosureRow ==
    ASSUME NEW t \in Seq(Clos), NEW i \in 1..Len(t)
    PROVE  t[i] \in Clos /\ t[i].makes \in Int
<1>1. t[i] \in Clos
  OBVIOUS
<1> QED BY <1>1 DEF Clos

LEMMA RefersLater ==
    ASSUME NEW a \in Seq(Clos), NEW b \in Seq(Clos), NEW x \in Int, NEW wanted
    PROVE  /\ Refers(a, x, wanted) => Refers(a \o b, x, wanted)
           /\ Refers(b, x, wanted)
                => Refers(a \o b, IF x = NoClosure THEN NoClosure ELSE x + Len(a), wanted)
<1>1. /\ Len(a) \in Nat /\ Len(b) \in Nat /\ Len(a \o b) = Len(a) + Len(b)
      /\ \A i \in 1..Len(a) : (a \o b)[i] = a[i]
      /\ \A i \in 1..Len(b) : (a \o b)[Len(a) + i] = b[i]
  OBVIOUS
<1>2. ASSUME Refers(a, x, wanted) PROVE Refers(a \o b, x, wanted)
  <2>1. CASE x = NoClosure
    BY <1>2, <2>1 DEF Refers
  <2>2. CASE x # NoClosure
    <3>1. x + 1 \in 1..Len(a) /\ x \in 0 .. Len(a \o b) - 1 /\ a[x + 1].of = wanted
      BY <1>1, <1>2, <2>2 DEF Refers
    <3> QED BY <1>1, <2>2, <3>1 DEF Refers
  <2> QED BY <2>1, <2>2
<1>3. ASSUME Refers(b, x, wanted)
      PROVE  Refers(a \o b, IF x = NoClosure THEN NoClosure ELSE x + Len(a), wanted)
  <2>1. CASE x = NoClosure
    BY <1>3, <2>1 DEF Refers
  <2>2. CASE x # NoClosure
    <3>1. x + 1 \in 1..Len(b) /\ x + Len(a) \in 0 .. Len(a \o b) - 1 /\ b[x + 1].of = wanted
      BY <1>1, <1>3, <2>2 DEF Refers
    <3>2. (x + Len(a)) + 1 = Len(a) + (x + 1) /\ x + Len(a) # NoClosure
      BY <1>1, <3>1 DEF NoClosure
    <3> QED BY <1>1, <2>2, <3>1, <3>2 DEF Refers
  <2> QED BY <2>1, <2>2
<1> QED BY <1>2, <1>3

(* The entries of a table, what they make moved.                           *)
LEMMA MovedClosures ==
    ASSUME NEW b \in Seq(Clos), NEW by \in Nat
    PROVE  /\ Moved(b, by) \in Seq(Clos) /\ Len(Moved(b, by)) = Len(b)
           /\ \A i \in 1..Len(b) :
                  /\ Moved(b, by)[i].of = b[i].of
                  /\ Moved(b, by)[i].makes
                        = IF b[i].makes = NoClosure THEN NoClosure ELSE b[i].makes + by
<1> DEFINE c == Moved(b, by)
           to(i) == IF b[i].makes = NoClosure THEN NoClosure ELSE b[i].makes + by
<1>1. \A x \in Clos, y \in Int :
          /\ [x EXCEPT !.makes = y] \in Clos /\ [x EXCEPT !.makes = y].makes = y
          /\ [x EXCEPT !.makes = y].of = x.of
  BY DEF Clos
<1>2. ASSUME NEW i \in 1..Len(b) PROVE b[i] \in Clos /\ to(i) \in Int
  <2>1. b[i] \in Clos
    OBVIOUS
  <2>2. b[i].makes \in Int
    BY <2>1 DEF Clos
  <2> QED BY <2>1, <2>2 DEF NoClosure
<1>3. c = [i \in 1..Len(b) |-> [b[i] EXCEPT !.makes = to(i)]]
  BY DEF Moved
<1> HIDE DEF c, to
<1>4. Len(b) \in Nat /\ \A i \in 1..Len(b) : c[i] = [b[i] EXCEPT !.makes = to(i)] /\ c[i] \in Clos
  BY <1>1, <1>2, <1>3
<1>5. c \in Seq(Clos) /\ Len(c) = Len(b)
  BY <1>3, <1>4
<1>6. ASSUME NEW i \in 1..Len(b)
      PROVE  c[i].makes = to(i) /\ c[i].of = b[i].of
  <2>1. c[i] = [b[i] EXCEPT !.makes = to(i)] /\ b[i] \in Clos /\ to(i) \in Int
    BY <1>2, <1>4
  <2> QED BY <1>1, <2>1
<1> QED BY <1>5, <1>6 DEF c, to

LEMMA MovedFuncs ==
    ASSUME NEW b \in Seq(Func), NEW by \in Nat
    PROVE  /\ Moved(b, by) \in Seq(Func) /\ Len(Moved(b, by)) = Len(b)
           /\ \A i \in 1..Len(b) :
                  /\ Moved(b, by)[i].of = b[i].of /\ Moved(b, by)[i].kind = b[i].kind /\ Moved(b, by)[i].depth = b[i].depth
                  /\ Moved(b, by)[i].makes
                        = IF b[i].makes = NoClosure THEN NoClosure ELSE b[i].makes + by
<1> DEFINE c == Moved(b, by)
           to(i) == IF b[i].makes = NoClosure THEN NoClosure ELSE b[i].makes + by
<1>1. \A x \in Func, y \in Int :
          /\ [x EXCEPT !.makes = y] \in Func /\ [x EXCEPT !.makes = y].makes = y
          /\ [x EXCEPT !.makes = y].of = x.of /\ [x EXCEPT !.makes = y].kind = x.kind /\ [x EXCEPT !.makes = y].depth = x.depth
  BY DEF Func
<1>2. ASSUME NEW i \in 1..Len(b) PROVE b[i] \in Func /\ to(i) \in Int
  <2>1. b[i] \in Func
    OBVIOUS
  <2>2. b[i].makes \in Int
    BY <2>1 DEF Func
  <2> QED BY <2>1, <2>2 DEF NoClosure
<1>3. c = [i \in 1..Len(b) |-> [b[i] EXCEPT !.makes = to(i)]]
  BY DEF Moved
<1> HIDE DEF c, to
<1>4. Len(b) \in Nat /\ \A i \in 1..Len(b) : c[i] = [b[i] EXCEPT !.makes = to(i)] /\ c[i] \in Func
  BY <1>1, <1>2, <1>3
<1>5. c \in Seq(Func) /\ Len(c) = Len(b)
  BY <1>3, <1>4
<1>6. ASSUME NEW i \in 1..Len(b)
      PROVE  c[i].makes = to(i) /\ c[i].of = b[i].of /\ c[i].kind = b[i].kind /\ c[i].depth = b[i].depth
  <2>1. c[i] = [b[i] EXCEPT !.makes = to(i)] /\ b[i] \in Func /\ to(i) \in Int
    BY <1>2, <1>4
  <2> QED BY <1>1, <2>1
<1> QED BY <1>5, <1>6 DEF c, to

(* A table that follows another one, its references moved.                 *)
LEMMA MovedRefer ==
    ASSUME NEW a, ClosuresRefer(a), NEW b, ClosuresRefer(b)
    PROVE  ClosuresRefer(a \o Moved(b, Len(a)))
<1> DEFINE c == Moved(b, Len(a))
<1>1. a \in Seq(Clos) /\ b \in Seq(Clos) /\ Len(a) \in Nat /\ Len(b) \in Nat
  BY DEF ClosuresRefer
<1>2. /\ c \in Seq(Clos) /\ Len(c) = Len(b)
      /\ \A i \in 1..Len(b) :
             /\ c[i].of = b[i].of
             /\ c[i].makes = IF b[i].makes = NoClosure THEN NoClosure ELSE b[i].makes + Len(a)
  BY <1>1, MovedClosures
<1> HIDE DEF c
<1>5. /\ a \o c \in Seq(Clos) /\ Len(a \o c) = Len(a) + Len(b)
      /\ \A i \in 1..Len(a) : (a \o c)[i] = a[i]
      /\ \A i \in 1..Len(b) : (a \o c)[Len(a) + i] = c[i]
  <2>1. c \in Seq(Clos) /\ Len(c) = Len(b)
    BY <1>2
  <2>2. /\ a \o c \in Seq(Clos) /\ Len(a \o c) = Len(a) + Len(c)
        /\ \A i \in 1..Len(a) : (a \o c)[i] = a[i]
        /\ \A i \in 1..Len(c) : (a \o c)[Len(a) + i] = c[i]
    BY <1>1, <2>1
  <2> QED BY <2>1, <2>2
<1>6. \A x \in Int : \A wanted : Refers(b, x, wanted) => Refers(c, x, wanted)
  BY <1>1, <1>2 DEF Refers
<1>7. ASSUME NEW i \in 1..Len(a \o c) PROVE Refers(a \o c, (a \o c)[i].makes, Inner((a \o c)[i]))
  <2>1. CASE i \in 1..Len(a)
    <3>1. Refers(a, a[i].makes, Inner(a[i]))
      BY <2>1 DEF ClosuresRefer
    <3>2. a[i].makes \in Int
      BY <1>1, <2>1, ClosureRow
    <3> QED BY <1>1, <1>2, <1>5, <2>1, <3>1, <3>2, RefersLater
  <2>2. CASE i \notin 1..Len(a)
    <3> DEFINE j == i - Len(a)
    <3>1. j \in 1..Len(b) /\ i = Len(a) + j
      BY <1>1, <1>5, <2>2
    <3>2. Refers(b, b[j].makes, Inner(b[j])) /\ b[j].makes \in Int
      <4> HIDE DEF j
      <4>1. b[j].makes \in Int
        BY <1>1, <3>1, ClosureRow
      <4> QED BY <3>1, <4>1 DEF ClosuresRefer
    <3>3. Inner(c[j]) = Inner(b[j])
      <4> HIDE DEF j
      <4> QED BY <1>2, <3>1 DEF Inner
    <3>4. Refers(c, b[j].makes, Inner(c[j]))
      BY <1>6, <3>2, <3>3
    <3> HIDE DEF j
    <3>5. Refers(a \o c, c[j].makes, Inner(c[j]))
      BY <1>1, <1>2, <3>1, <3>2, <3>4, RefersLater
    <3> QED BY <1>5, <3>1, <3>5
  <2> QED BY <2>1, <2>2
<1>8. ClosuresRefer(a \o c)
  BY <1>5, <1>7 DEF ClosuresRefer
<1> QED BY <1>8 DEF c

(* Lowering: the closures of a file follow each other, each behind those   *)
(* that are made in it.                                                    *)
Behind(id, k, d, t) == t \o Closures(id, k, d, Len(t))

Laid(c, id, k, d, L) ==
    /\ c \in Seq(Clos) /\ Len(c) = d
    /\ \A i \in 1..d : c[i].of = <<id, k, i>> /\ c[i].makes = IF i = 1 THEN NoClosure ELSE L + i - 2

LEMMA ClosuresAre ==
    ASSUME NEW id \in Nat, NEW k \in Nat, NEW d \in Nat, NEW L \in Nat
    PROVE  Laid(Closures(id, k, d, L), id, k, d, L)
<1> DEFINE row(i) == [of |-> <<id, k, i>>, makes |-> IF i = 1 THEN NoClosure ELSE L + i - 2]
<1>1. ASSUME NEW i \in 1..d PROVE row(i) \in Clos
  <2>1. (IF i = 1 THEN NoClosure ELSE L + i - 2) \in Int
    BY DEF NoClosure
  <2>2. <<id, k, i>> \in Nat \X Nat \X Nat
    OBVIOUS
  <2> QED BY <2>1, <2>2 DEF Clos
<1>2. Closures(id, k, d, L) = [i \in 1..d |-> row(i)]
  BY DEF Closures
<1>3. \A i \in 1..d : /\ row(i).of = <<id, k, i>>
                      /\ row(i).makes = IF i = 1 THEN NoClosure ELSE L + i - 2
  OBVIOUS
<1> HIDE DEF row
<1>4. [i \in 1..d |-> row(i)] \in Seq(Clos) /\ Len([i \in 1..d |-> row(i)]) = d
  BY <1>1
<1>5. \A i \in 1..d : [j \in 1..d |-> row(j)][i] = row(i)
  OBVIOUS
<1> QED BY <1>2, <1>3, <1>4, <1>5 DEF Laid

LEMMA BehindRefers ==
    ASSUME NEW id \in Nat, NEW k \in Nat, NEW d \in Nat, NEW t, ClosuresRefer(t)
    PROVE  /\ ClosuresRefer(Behind(id, k, d, t))
           /\ d # 0 => Refers(Behind(id, k, d, t), Len(Behind(id, k, d, t)) - 1, <<id, k, d>>)
           /\ \A x \in Int : \A wanted : Refers(t, x, wanted) => Refers(Behind(id, k, d, t), x, wanted)
<1> DEFINE c == Closures(id, k, d, Len(t))
           n == Behind(id, k, d, t)
<1>1. t \in Seq(Clos) /\ Len(t) \in Nat
  BY DEF ClosuresRefer
<1>2. /\ c \in Seq(Clos) /\ Len(c) = d
      /\ \A i \in 1..d : c[i].of = <<id, k, i>> /\ c[i].makes = IF i = 1 THEN NoClosure ELSE Len(t) + i - 2
  <2>1. Laid(c, id, k, d, Len(t))
    BY <1>1, ClosuresAre
  <2> HIDE DEF c
  <2> QED BY <2>1 DEF Laid
<1> HIDE DEF c
<1>3. n = t \o c
  BY DEF Behind, c
<1> HIDE DEF n
<1>4. /\ n \in Seq(Clos) /\ Len(n) = Len(t) + d
      /\ \A i \in 1..Len(t) : n[i] = t[i]
      /\ \A i \in 1..d : n[Len(t) + i] = c[i]
  <2>1. c \in Seq(Clos) /\ Len(c) = d
    BY <1>2
  <2>2. /\ t \o c \in Seq(Clos) /\ Len(t \o c) = Len(t) + Len(c)
        /\ \A i \in 1..Len(t) : (t \o c)[i] = t[i]
        /\ \A i \in 1..Len(c) : (t \o c)[Len(t) + i] = c[i]
    BY <1>1, <2>1
  <2> QED BY <1>3, <2>1, <2>2
<1>5. ASSUME NEW x \in Int, NEW wanted, Refers(t, x, wanted) PROVE Refers(n, x, wanted)
  BY <1>1, <1>2, <1>3, <1>5, RefersLater
<1>6. ASSUME NEW i \in 1..d PROVE Refers(n, Len(t) + i - 1, <<id, k, i>>)
  <2>1. (Len(t) + i - 1) + 1 = Len(t) + i /\ Len(t) + i - 1 \in 0 .. Len(n) - 1 /\ Len(t) + i - 1 # -1
    BY <1>1, <1>4
  <2>2. n[(Len(t) + i - 1) + 1].of = <<id, k, i>>
    BY <1>2, <1>4, <2>1
  <2> QED BY <2>1, <2>2 DEF Refers, NoClosure
<1>7. ASSUME NEW i \in 1..Len(n) PROVE Refers(n, n[i].makes, Inner(n[i]))
  <2>1. CASE i \in 1..Len(t)
    <3>1. Refers(t, t[i].makes, Inner(t[i]))
      BY <2>1 DEF ClosuresRefer
    <3>2. t[i].makes \in Int
      BY <1>1, <2>1, ClosureRow
    <3> QED BY <1>4, <1>5, <2>1, <3>1, <3>2
  <2>2. CASE i \notin 1..Len(t)
    <3>1. PICK j \in 1..d : i = Len(t) + j
      <4>1. i - Len(t) \in 1..d /\ i = Len(t) + (i - Len(t))
        BY <1>1, <1>4, <2>2
      <4> QED BY <4>1
    <3>2. n[i] = c[j]
      BY <1>4, <3>1
    <3>3. CASE j = 1
      <4>1. c[j].of[3] = 1
        BY <1>2, <3>3
      <4>2. c[j].makes = NoClosure /\ Inner(c[j]) = <<>>
        BY <1>2, <3>3, <4>1 DEF Inner
      <4> QED BY <3>2, <4>2 DEF Refers
    <3>4. CASE j # 1
      <4>1. Inner(c[j]) = <<id, k, j - 1>>
        <5>1. c[j].of = <<id, k, j>>
          BY <1>2
        <5>2. <<id, k, j>>[3] = j /\ [<<id, k, j>> EXCEPT ![3] = j - 1] = <<id, k, j - 1>>
          OBVIOUS
        <5> QED BY <3>4, <5>1, <5>2 DEF Inner
      <4>2. j - 1 \in 1..d /\ c[j].makes = Len(t) + (j - 1) - 1
        BY <1>1, <1>2, <3>4
      <4> QED BY <1>6, <3>2, <4>1, <4>2
    <3> QED BY <3>3, <3>4
  <2> QED BY <2>1, <2>2
<1>8. ClosuresRefer(n)
  BY <1>4, <1>7 DEF ClosuresRefer
<1>9. d # 0 => Refers(n, Len(n) - 1, <<id, k, d>>)
  BY <1>1, <1>4, <1>6
<1> QED BY <1>5, <1>8, <1>9 DEF n

LEMMA TableIs ==
    ASSUME NEW id \in Nat, NEW file \in Seq(Shapes)
    PROVE  /\ ClosuresRefer(ClosureTable(id, file)[Len(file)])
           /\ \A k \in 1..Len(file) :
                  /\ Len(ClosureTable(id, file)[k]) \in Nat
                  /\ file[k].depth # 0 =>
                         Refers(ClosureTable(id, file)[Len(file)],
                                Len(ClosureTable(id, file)[k]) - 1, <<id, k, file[k].depth>>)
<1> DEFINE m == Len(file)
           F == [k \in 1..m |-> [t \in Seq(Clos) |-> Behind(id, k, file[k].depth, t)]]
<1>1. m \in Nat /\ \A k \in 1..m : k \in Nat /\ file[k].depth \in Nat
  <2>1. \A k \in 1..m : file[k] \in Shapes
    OBVIOUS
  <2> QED BY <2>1, LinkAssumption DEF Shapes
<1>2. \A k \in 1..m : \A t \in Seq(Clos) : Behind(id, k, file[k].depth, t) \in Seq(Clos)
  <2> SUFFICES ASSUME NEW k \in 1..m, NEW t \in Seq(Clos)
               PROVE  Behind(id, k, file[k].depth, t) \in Seq(Clos)
    OBVIOUS
  <2>1. Len(t) \in Nat
    OBVIOUS
  <2>2. Closures(id, k, file[k].depth, Len(t)) \in Seq(Clos)
    BY <1>1, <2>1, ClosuresAre DEF Laid
  <2> QED BY <2>2 DEF Behind
<1>3. F \in [1..m -> [Seq(Clos) -> Seq(Clos)]]
  BY <1>2
<1>4. PICK r : FollowsTo(m, r, Seq(Clos), <<>>, F)
  <2>1. <<>> \in Seq(Clos)
    OBVIOUS
  <2> HIDE DEF F, m
  <2> QED BY <1>1, <1>3, <2>1, RecursTo
<1>5. /\ r \in [0..m -> Seq(Clos)]
      /\ \A k \in 0..m : r[k] = IF k = 0 THEN <<>> ELSE Behind(id, k, file[k].depth, r[k - 1])
  <2>1. r \in [0..m -> Seq(Clos)] /\ \A k \in 0..m : r[k] = IF k = 0 THEN <<>> ELSE F[k][r[k - 1]]
    <3> HIDE DEF F
    <3> QED BY <1>4 DEF FollowsTo
  <2>2. ASSUME NEW k \in 0..m, k # 0 PROVE F[k][r[k - 1]] = Behind(id, k, file[k].depth, r[k - 1])
    <3>1. k \in 1..m /\ k - 1 \in 0..m
      BY <1>1, <2>2
    <3>2. r[k - 1] \in Seq(Clos)
      <4> HIDE DEF F
      <4> QED BY <2>1, <3>1
    <3> QED BY <3>1, <3>2
  <2> HIDE DEF F
  <2> QED BY <2>1, <2>2
<1> HIDE DEF F
<1> DEFINE table == CHOOSE f : f = [k \in 0..m |-> IF k = 0 THEN <<>>
                                    ELSE f[k - 1] \o Closures(id, k, file[k].depth, Len(f[k - 1]))]
<1>6. ClosureTable(id, file) = table
  BY DEF ClosureTable
<1>7. r = [k \in 0..m |-> IF k = 0 THEN <<>>
                          ELSE r[k - 1] \o Closures(id, k, file[k].depth, Len(r[k - 1]))]
  BY <1>5 DEF Behind
<1>8. table = [k \in 0..m |-> IF k = 0 THEN <<>>
                              ELSE table[k - 1] \o Closures(id, k, file[k].depth, Len(table[k - 1]))]
  BY <1>7
<1> HIDE DEF table
<1> DEFINE Found(k, j) == file[j].depth # 0 => Refers(table[k], Len(table[j]) - 1, <<id, j, file[j].depth>>)
           Q == {k \in Nat : ClosuresRefer(table[k]) /\ \A j \in 1..k : Len(table[j]) \in Nat /\ Found(k, j)}
<1>9. 0 \in Q
  <2>1. table[0] = <<>>
    BY <1>1, <1>8
  <2>2. ClosuresRefer(table[0])
    BY <2>1 DEF ClosuresRefer
  <2> QED BY <2>2
<1>10. ASSUME NEW k \in 0 .. m - 1, k \in Q PROVE k + 1 \in Q
  <2>1. /\ k + 1 \in 0..m /\ k + 1 # 0 /\ (k + 1) - 1 = k /\ k + 1 \in 1..m /\ k + 1 \in Nat
        /\ 1 .. k + 1 = 1..k \cup {k + 1}
    BY <1>1
  <2>2. table[k + 1] = Behind(id, k + 1, file[k + 1].depth, table[k])
    BY <1>8, <2>1 DEF Behind
  <2>3. ClosuresRefer(table[k])
    BY <1>10
  <2>4. /\ ClosuresRefer(table[k + 1])
        /\ file[k + 1].depth # 0
             => Refers(table[k + 1], Len(table[k + 1]) - 1, <<id, k + 1, file[k + 1].depth>>)
        /\ \A x \in Int : \A wanted : Refers(table[k], x, wanted) => Refers(table[k + 1], x, wanted)
    BY <1>1, <2>1, <2>2, <2>3, BehindRefers
  <2>5. Len(table[k + 1]) \in Nat /\ Found(k + 1, k + 1)
    <3>1. table[k + 1] \in Seq(Clos)
      BY <2>4 DEF ClosuresRefer
    <3> QED BY <2>4, <3>1
  <2>6. ASSUME NEW j \in 1..k PROVE Len(table[j]) \in Nat /\ Found(k + 1, j)
    <3>1. Len(table[j]) \in Nat /\ Found(k, j)
      BY <1>10
    <3>2. Len(table[j]) - 1 \in Int
      BY <3>1
    <3> QED BY <2>4, <3>1, <3>2
  <2> HIDE DEF Found
  <2> QED BY <2>1, <2>4, <2>5, <2>6
<1>11. m \in Q
  <2>1. \A k \in 0..m : k \in Q
    <3> HIDE DEF Q, m
    <3> QED BY <1>1, <1>9, <1>10, InductsTo
  <2> HIDE DEF Q
  <2> QED BY <1>1, <2>1
<1> QED BY <1>6, <1>11

(* A name stands for the functions that have it.                           *)
LEMMA FindIs ==
    ASSUME NEW funcs, Len(funcs) \in Nat, NEW n
    PROVE  /\ Find(funcs, n) \in Seq(Nat) /\ Distinct(Find(funcs, n))
           /\ MembersOf(Find(funcs, n))
                = {i \in 0 .. Len(funcs) - 1 : n \in NamesOf[funcs[i + 1].kind]}
<1> DEFINE all == [i \in 1..Len(funcs) |-> i - 1]
           P   == {i \in 0 .. Len(funcs) - 1 : n \in NamesOf[funcs[i + 1].kind]}
<1>1. all \in Seq(Nat) /\ Len(all) = Len(funcs) /\ \A i \in 1..Len(funcs) : all[i] = i - 1
  OBVIOUS
<1>2. Distinct(all)
  BY <1>1 DEF Distinct
<1>3. MembersOf(all) = 0 .. Len(funcs) - 1
  <2>1. ASSUME NEW i \in 0 .. Len(funcs) - 1 PROVE i \in MembersOf(all)
    <3>1. i + 1 \in 1..Len(all) /\ all[i + 1] = i
      BY <1>1
    <3> QED BY <3>1 DEF MembersOf
  <2>2. ASSUME NEW i \in MembersOf(all) PROVE i \in 0 .. Len(funcs) - 1
    BY <1>1 DEF MembersOf
  <2> QED BY <2>1, <2>2
<1>4. Find(funcs, n) = Only(all, P)
  BY DEF Find
<1> HIDE DEF all
<1>5. /\ Only(all, P) \in Seq(Nat) /\ Distinct(Only(all, P))
      /\ MembersOf(Only(all, P)) = MembersOf(all) \cap P
  <2> HIDE DEF P
  <2> QED BY <1>1, <1>2, OnlyIs
<1> QED BY <1>3, <1>4, <1>5

LEMMA AppendToPair ==
    ASSUME NEW a \in Nat, NEW b \in Nat, NEW d \in Nat
    PROVE  Append(<<a, b>>, d) = <<a, b, d>>
<1>1. /\ <<a, b>> \in Seq(Nat) /\ Len(<<a, b>>) = 2
      /\ <<a, b, d>> \in Seq(Nat) /\ Len(<<a, b, d>>) = 3
  OBVIOUS
<1>2. /\ Append(<<a, b>>, d) \in Seq(Nat) /\ Len(Append(<<a, b>>, d)) = 3
      /\ Append(<<a, b>>, d)[1] = a /\ Append(<<a, b>>, d)[2] = b /\ Append(<<a, b>>, d)[3] = d
  BY <1>1
<1>3. \A i \in 1..3 : i = 1 \/ i = 2 \/ i = 3
  OBVIOUS
<1>4. \A i \in 1..3 : Append(<<a, b>>, d)[i] = <<a, b, d>>[i]
  BY <1>2, <1>3
<1> QED BY <1>1, <1>2, <1>4, SeqEqual

LEMMA ModuleIs ==
    ASSUME NEW id \in Nat, NEW file \in Seq(Shapes)
    PROVE  /\ WellMade(Module(id, file))
           /\ \A n \in FuncNames : Stands(Module(id, file).index[n], Having(Module(id, file), n))
           /\ \A i \in 1..Len(Module(id, file).funcs) : Module(id, file).funcs[i].of[1] = id
<1> DEFINE table == ClosureTable(id, file)
           last  == table[Len(file)]
           row(k) == [of |-> <<id, k>>, kind |-> file[k].kind, depth |-> file[k].depth,
                      makes |-> IF file[k].depth = 0 THEN NoClosure ELSE Len(table[k]) - 1]
           funcs == [k \in 1..Len(file) |-> row(k)]
           m == Module(id, file)
<1>1. /\ ClosuresRefer(last)
      /\ \A k \in 1..Len(file) :
             /\ Len(table[k]) \in Nat
             /\ file[k].depth # 0 => Refers(last, Len(table[k]) - 1, <<id, k, file[k].depth>>)
  BY TableIs
<1>2. m = [funcs |-> funcs, closures |-> last, index |-> [n \in FuncNames |-> Find(funcs, n)]]
  BY DEF Module
<1> HIDE DEF table, last
<1>3. ASSUME NEW k \in 1..Len(file)
      PROVE  row(k) \in Func /\ row(k).of[1] = id /\ Refers(last, row(k).makes, Inside(row(k)))
  <2>1. file[k] \in Shapes /\ k \in Nat
    OBVIOUS
  <2>2. file[k].kind \in FuncKinds /\ file[k].depth \in Nat
    BY <2>1, LinkAssumption DEF Shapes
  <2>3. (IF file[k].depth = 0 THEN NoClosure ELSE Len(table[k]) - 1) \in Int
    BY <1>1 DEF NoClosure
  <2>4. <<id, k>> \in Nat \X Nat
    BY <2>1
  <2>5. row(k) \in Func
    BY <2>2, <2>3, <2>4 DEF Func
  <2>6. row(k).of = <<id, k>> /\ row(k).depth = file[k].depth /\ row(k).of[1] = id
    OBVIOUS
  <2>7. Refers(last, row(k).makes, Inside(row(k)))
    <3>1. CASE file[k].depth = 0
      BY <3>1 DEF Refers, Inside
    <3>2. CASE file[k].depth # 0
      <4>1. Append(<<id, k>>, file[k].depth) = <<id, k, file[k].depth>>
        BY <2>1, <2>2, AppendToPair
      <4>2. Inside(row(k)) = <<id, k, file[k].depth>>
        BY <3>2, <2>6, <4>1 DEF Inside
      <4>3. row(k).makes = Len(table[k]) - 1
        BY <3>2
      <4> QED BY <1>1, <3>2, <4>2, <4>3
    <3> QED BY <3>1, <3>2
  <2> QED BY <2>5, <2>6, <2>7
<1>4. /\ funcs \in Seq(Func) /\ Len(funcs) = Len(file) /\ Len(file) \in Nat
      /\ \A k \in 1..Len(file) : funcs[k] = row(k)
  <2>1. \A k \in 1..Len(file) : row(k) \in Func
    BY <1>3
  <2> HIDE DEF row
  <2> QED BY <2>1
<1> HIDE DEF funcs, row
<1>5. \A n : /\ Find(funcs, n) \in Seq(Nat) /\ Distinct(Find(funcs, n))
             /\ MembersOf(Find(funcs, n)) = {i \in 0 .. Len(funcs) - 1 : n \in NamesOf[funcs[i + 1].kind]}
  BY <1>4, FindIs
<1>6. /\ m.funcs = funcs /\ m.closures = last
      /\ \A n \in FuncNames : m.index[n] = Find(funcs, n)
      /\ m \in [funcs : Seq(Func), closures : Seq(Clos), index : [FuncNames -> Seq(Nat)]]
  BY <1>1, <1>2, <1>4, <1>5 DEF ClosuresRefer
<1> HIDE DEF m
<1>7. WellMade(m)
  BY <1>1, <1>3, <1>4, <1>6 DEF WellMade
<1>8. \A n \in FuncNames : Stands(m.index[n], Having(m, n))
  BY <1>5, <1>6 DEF Stands, Having
<1>9. \A i \in 1..Len(m.funcs) : m.funcs[i].of[1] = id
  BY <1>3, <1>4, <1>6
<1> QED BY <1>7, <1>8, <1>9 DEF m

-----------------------------------------------------------------------------
(* Taking out the tests of a sibling.                                      *)
LEMMA StrippedIs ==
    ASSUME NEW m, Sibling(m)
    PROVE  Sibling(Stripped(m))
<1> DEFINE all   == [i \in 1..Len(m.funcs) |-> i]
           tell  == {i \in 1..Len(m.funcs) : m.funcs[i].kind # "test"}
           kept  == Only(all, tell)
           new(old) == CHOOSE i \in 0 .. Len(kept) - 1 : kept[i + 1] = old + 1
           stays == {kept[i] - 1 : i \in 1..Len(kept)}
           old(n) == Only(m.index[n], stays)
           index(n) == [i \in 1..Len(old(n)) |-> new(old(n)[i])]
           funcs == [i \in 1..Len(kept) |-> m.funcs[kept[i]]]
           s == Stripped(m)
<1>1. s = [m EXCEPT !.funcs = funcs, !.index = [n \in FuncNames |-> index(n)]]
  BY DEF Stripped
<1>2. /\ m \in [funcs : Seq(Func), closures : Seq(Clos), index : [FuncNames -> Seq(Nat)]]
      /\ m.funcs \in Seq(Func) /\ Len(m.funcs) \in Nat
      /\ \A n \in FuncNames : /\ m.index[n] \in Seq(Nat) /\ Distinct(m.index[n])
                              /\ MembersOf(m.index[n]) = Having(m, n)
  BY DEF Sibling, WellMade, Stands
<1>3. all \in Seq(1..Len(m.funcs)) /\ Len(all) = Len(m.funcs) /\ Distinct(all)
  BY <1>2 DEF Distinct
<1>4. /\ kept \in Seq(1..Len(m.funcs)) /\ Distinct(kept) /\ MembersOf(kept) = MembersOf(all) \cap tell
  <2> HIDE DEF all, tell
  <2> QED BY <1>3, OnlyIs
<1> HIDE DEF all, kept
<1>5. Len(kept) \in Nat /\ \A i \in 1..Len(kept) : kept[i] \in 1..Len(m.funcs)
  BY <1>4
<1>6. ASSUME NEW o \in stays PROVE new(o) \in 0 .. Len(kept) - 1 /\ kept[new(o) + 1] = o + 1
  <2>1. PICK i \in 1..Len(kept) : o = kept[i] - 1
    OBVIOUS
  <2>2. i - 1 \in 0 .. Len(kept) - 1 /\ kept[(i - 1) + 1] = o + 1
    BY <1>5, <2>1
  <2> QED BY <2>2
<1>7. \A x, y \in stays : new(x) = new(y) => x = y
  <2> SUFFICES ASSUME NEW x \in stays, NEW y \in stays, new(x) = new(y) PROVE x = y
    OBVIOUS
  <2>1. kept[new(x) + 1] = x + 1 /\ kept[new(x) + 1] = y + 1
    BY <1>6
  <2>2. x \in Int /\ y \in Int
    BY <1>5
  <2> QED BY <2>1, <2>2
<1>8. ASSUME NEW i \in 0 .. Len(kept) - 1 PROVE kept[i + 1] - 1 \in stays /\ new(kept[i + 1] - 1) = i
  <2> DEFINE o == kept[i + 1] - 1
  <2>1. i + 1 \in 1..Len(kept) /\ kept[i + 1] \in 1..Len(m.funcs)
    BY <1>5
  <2>2. o \in stays
    BY <2>1
  <2>3. new(o) \in 0 .. Len(kept) - 1 /\ kept[new(o) + 1] = kept[i + 1]
    <3>1. o + 1 = kept[i + 1]
      BY <2>1
    <3> HIDE DEF o, new, stays
    <3> QED BY <1>6, <2>2, <3>1
  <2>4. new(o) + 1 = i + 1
    <3> HIDE DEF o, new
    <3>1. new(o) + 1 \in 1..Len(kept)
      BY <1>5, <2>3
    <3> QED BY <1>4, <2>1, <2>3, <3>1 DEF Distinct
  <2>5. new(o) = i
    <3> HIDE DEF o, new
    <3> QED BY <2>3, <2>4
  <2> QED BY <2>2, <2>5
<1> HIDE DEF new, stays
<1>9. /\ funcs \in Seq(Func) /\ Len(funcs) = Len(kept)
      /\ \A i \in 1..Len(kept) : funcs[i] = m.funcs[kept[i]]
  BY <1>2, <1>5
<1> HIDE DEF funcs
<1>10. ASSUME NEW n \in FuncNames
       PROVE  Stands(index(n), {i \in 0 .. Len(funcs) - 1 : n \in NamesOf[funcs[i + 1].kind]})
  <2> DEFINE o == old(n)
             H == {i \in 0 .. Len(funcs) - 1 : n \in NamesOf[funcs[i + 1].kind]}
  <2>1. o \in Seq(Nat) /\ Distinct(o) /\ MembersOf(o) = Having(m, n) \cap stays
    <3>1. m.index[n] \in Seq(Nat) /\ Distinct(m.index[n]) /\ MembersOf(m.index[n]) = Having(m, n)
      BY <1>2
    <3> QED BY <3>1, OnlyIs
  <2> HIDE DEF old, o
  <2>2. Len(o) \in Nat /\ \A i \in 1..Len(o) : o[i] \in Having(m, n) /\ o[i] \in stays
    BY <2>1 DEF MembersOf
  <2>3. index(n) = [i \in 1..Len(o) |-> new(o[i])]
    BY DEF o
  <2> DEFINE x == index(n)
  <2> HIDE DEF index
  <2>4. x \in Seq(Nat) /\ Len(x) = Len(o) /\ \A i \in 1..Len(o) : x[i] = new(o[i])
    <3>1. \A i \in 1..Len(o) : new(o[i]) \in Nat
      BY <1>5, <1>6, <2>2
    <3> QED BY <2>2, <2>3, <3>1
  <2> HIDE DEF x
  <2>5. Distinct(x)
    <3> SUFFICES ASSUME NEW i \in 1..Len(o), NEW j \in 1..Len(o), x[i] = x[j] PROVE i = j
      BY <2>4 DEF Distinct
    <3>1. o[i] = o[j]
      BY <1>7, <2>2, <2>4
    <3> QED BY <2>1, <3>1 DEF Distinct
  <2>6. ASSUME NEW i \in MembersOf(x) PROVE i \in H
    <3>1. PICK j \in 1..Len(o) : i = new(o[j])
      BY <2>4 DEF MembersOf
    <3>2. i \in 0 .. Len(kept) - 1 /\ kept[i + 1] = o[j] + 1 /\ o[j] \in Having(m, n)
      BY <1>6, <2>2, <3>1
    <3>3. n \in NamesOf[m.funcs[o[j] + 1].kind]
      BY <3>2 DEF Having
    <3>4. funcs[i + 1] = m.funcs[o[j] + 1]
      BY <1>5, <1>9, <3>2
    <3> QED BY <1>9, <3>2, <3>3, <3>4
  <2>7. ASSUME NEW i \in H PROVE i \in MembersOf(x)
    <3>1. i \in 0 .. Len(kept) - 1 /\ n \in NamesOf[funcs[i + 1].kind]
      BY <1>9
    <3>2. i + 1 \in 1..Len(kept) /\ kept[i + 1] \in 1..Len(m.funcs)
      BY <1>5, <3>1
    <3>3. kept[i + 1] - 1 \in stays /\ new(kept[i + 1] - 1) = i
      BY <1>8, <3>1
    <3>4. kept[i + 1] - 1 \in 0 .. Len(m.funcs) - 1 /\ (kept[i + 1] - 1) + 1 = kept[i + 1]
      BY <1>2, <3>2
    <3>5. kept[i + 1] - 1 \in Having(m, n)
      BY <1>9, <3>1, <3>2, <3>4 DEF Having
    <3>6. PICK j \in 1..Len(o) : o[j] = kept[i + 1] - 1
      BY <2>1, <3>3, <3>5 DEF MembersOf
    <3>7. x[j] = i
      BY <2>4, <3>3, <3>6
    <3> QED BY <2>4, <3>7 DEF MembersOf
  <2>8. MembersOf(x) = H
    BY <2>6, <2>7
  <2> QED BY <2>4, <2>5, <2>8 DEF Stands, x
<1> HIDE DEF index
<1>11. /\ s.funcs = funcs /\ s.closures = m.closures
       /\ \A n \in FuncNames : s.index[n] = index(n)
       /\ s \in [funcs : Seq(Func), closures : Seq(Clos), index : [FuncNames -> Seq(Nat)]]
  <2>1. \A n \in FuncNames : index(n) \in Seq(Nat)
    BY <1>10 DEF Stands
  <2>2. [n \in FuncNames |-> index(n)] \in [FuncNames -> Seq(Nat)]
    BY <2>1
  <2> QED BY <1>1, <1>2, <1>9, <2>2
<1> HIDE DEF s
<1>12. ASSUME NEW i \in 1..Len(s.funcs)
       PROVE  /\ Refers(s.closures, s.funcs[i].makes, Inside(s.funcs[i]))
              /\ s.funcs[i].of[1] # 0
  <2>1. i \in 1..Len(kept) /\ s.funcs[i] = m.funcs[kept[i]] /\ kept[i] \in 1..Len(m.funcs)
    BY <1>5, <1>9, <1>11
  <2> QED BY <1>11, <2>1 DEF Sibling, WellMade
<1>13. WellMade(s)
  <2>1. ClosuresRefer(s.closures)
    BY <1>11 DEF Sibling, WellMade
  <2> QED BY <1>11, <1>12, <2>1 DEF WellMade
<1>14. \A n \in FuncNames : Stands(s.index[n], Having(s, n))
  BY <1>10, <1>11 DEF Having
<1> QED BY <1>12, <1>13, <1>14 DEF Sibling, s

-----------------------------------------------------------------------------
(* A sibling is appended.                                                  *)
IsJoined(c, S, a, b) ==
    /\ c \in Seq(S) /\ Len(c) = Len(a) + Len(b)
    /\ \A i \in 1..Len(a) : c[i] = a[i]
    /\ \A i \in 1..Len(b) : c[Len(a) + i] = b[i]

LEMMA Joined ==
    ASSUME NEW S, NEW a \in Seq(S), NEW b \in Seq(S)
    PROVE  IsJoined(a \o b, S, a, b)
BY DEF IsJoined

IsMoved(c, b, by)    == c \in Seq(Nat) /\ Len(c) = Len(b) /\ \A i \in 1..Len(b) : c[i] = b[i] + by
IsJoint(U, S, T, by) == \A x : x \in U <=> x \in S \/ \E y \in T : x = y + by

LEMMA NameIs ==
    ASSUME NEW a \in Seq(Nat), NEW S, MembersOf(a) = S, Distinct(a),
           NEW b \in Seq(Nat), NEW T, MembersOf(b) = T, Distinct(b),
           NEW by \in Nat, \A x \in S : x < by,
           NEW c, IsMoved(c, b, by), NEW U, IsJoint(U, S, T, by)
    PROVE  Stands(a \o c, U)
<1> DEFINE n == a \o c
<1>1. Len(a) \in Nat /\ Len(b) \in Nat
  OBVIOUS
<1>2. IsJoined(n, Nat, a, c)
  BY Joined DEF IsMoved
<1> HIDE DEF n
<1>3. /\ n \in Seq(Nat) /\ Len(n) = Len(a) + Len(b)
      /\ \A i \in 1..Len(a) : n[i] = a[i]
      /\ \A i \in 1..Len(b) : n[Len(a) + i] = b[i] + by
  BY <1>2 DEF IsJoined, IsMoved
<1>4. ASSUME NEW i \in 1..Len(n), i \notin 1..Len(a)
      PROVE  \E j \in 1..Len(b) : i = Len(a) + j /\ n[i] = b[j] + by /\ b[j] \in T
  <2>1. i - Len(a) \in 1..Len(b) /\ i = Len(a) + (i - Len(a))
    BY <1>1, <1>3, <1>4
  <2>2. \A j \in 1..Len(b) : b[j] \in T
    BY DEF MembersOf
  <2> QED BY <1>3, <2>1, <2>2
<1>5. \A i \in 1..Len(a) : i \in 1..Len(n) /\ n[i] = a[i] /\ a[i] \in S /\ a[i] < by
  BY <1>1, <1>3 DEF MembersOf
<1>6. ASSUME NEW x \in MembersOf(n) PROVE x \in U
  <2>1. PICK i \in 1..Len(n) : x = n[i]
    BY DEF MembersOf
  <2> QED BY <1>4, <1>5, <2>1 DEF IsJoint
<1>7. ASSUME NEW x \in U PROVE x \in MembersOf(n)
  <2>1. CASE x \in S
    <3>1. PICK i \in 1..Len(a) : x = a[i]
      BY <2>1 DEF MembersOf
    <3> QED BY <1>5, <3>1 DEF MembersOf
  <2>2. CASE x \notin S
    <3>1. PICK y \in T : x = y + by
      BY <2>2 DEF IsJoint
    <3>2. PICK j \in 1..Len(b) : y = b[j]
      BY DEF MembersOf
    <3>3. Len(a) + j \in 1..Len(n) /\ n[Len(a) + j] = x
      BY <1>1, <1>3, <3>1, <3>2
    <3> QED BY <3>3 DEF MembersOf
  <2> QED BY <2>1, <2>2
<1>8. ASSUME NEW i \in 1..Len(n), NEW j \in 1..Len(n), n[i] = n[j] PROVE i = j
  <2>1. \A k \in 1..Len(a) : a[k] \in Nat
    OBVIOUS
  <2>2. \A k \in 1..Len(b) : b[k] \in Nat
    OBVIOUS
  <2>3. CASE i \in 1..Len(a) /\ j \in 1..Len(a)
    BY <1>5, <1>8, <2>3 DEF Distinct
  <2>4. CASE i \notin 1..Len(a) /\ j \notin 1..Len(a)
    <3>1. PICK k \in 1..Len(b) : i = Len(a) + k /\ n[i] = b[k] + by
      BY <1>4, <2>4
    <3>2. PICK l \in 1..Len(b) : j = Len(a) + l /\ n[j] = b[l] + by
      BY <1>4, <2>4
    <3>3. b[k] = b[l]
      <4>1. b[k] + by = b[l] + by
        BY <1>8, <3>1, <3>2
      <4>2. b[k] \in Nat /\ b[l] \in Nat
        BY <2>2
      <4> QED BY <4>1, <4>2
    <3> QED BY <3>1, <3>2, <3>3 DEF Distinct
  <2>5. CASE i \in 1..Len(a) /\ j \notin 1..Len(a)
    <3>1. PICK l \in 1..Len(b) : n[j] = b[l] + by
      BY <1>4, <2>5
    <3>2. n[i] \in Nat /\ n[i] < by
      BY <1>5, <2>1, <2>5
    <3>3. b[l] \in Nat
      BY <2>2
    <3> QED BY <1>8, <3>1, <3>2, <3>3
  <2>6. CASE i \notin 1..Len(a) /\ j \in 1..Len(a)
    <3>1. PICK l \in 1..Len(b) : n[i] = b[l] + by
      BY <1>4, <2>6
    <3>2. n[j] \in Nat /\ n[j] < by
      BY <1>5, <2>1, <2>6
    <3>3. b[l] \in Nat
      BY <2>2
    <3> QED BY <1>8, <3>1, <3>2, <3>3
  <2> QED BY <2>3, <2>4, <2>5, <2>6
<1>9. MembersOf(n) = U /\ Distinct(n)
  BY <1>6, <1>7, <1>8 DEF Distinct
<1> QED BY <1>3, <1>9 DEF Stands, n

LEMMA AppendedIs ==
    ASSUME NEW a, Built(a), NEW m, Sibling(m)
    PROVE  Built(Appended(a, m))
<1> DEFINE r == Appended(a, m)
           by == Len(a.closures)
           mf == Moved(m.funcs, by)
           mc == Moved(m.closures, by)
           index(n) == IF n \in Qualified
                       THEN a.index[n] \o [i \in 1..Len(m.index[n]) |-> m.index[n][i] + Len(a.funcs)]
                       ELSE a.index[n]
<1>1. r = [funcs |-> a.funcs \o mf, closures |-> a.closures \o mc, index |-> [n \in FuncNames |-> index(n)]]
  BY DEF Appended
<1>2. /\ a.funcs \in Seq(Func) /\ ClosuresRefer(a.closures) /\ a.closures \in Seq(Clos)
      /\ Len(a.funcs) \in Nat /\ by \in Nat
      /\ \A i \in 1..Len(a.funcs) : Refers(a.closures, a.funcs[i].makes, Inside(a.funcs[i]))
      /\ \A n \in FuncNames : Stands(a.index[n], Standing(a, n))
  BY DEF Built, WellMade, ClosuresRefer
<1>3. /\ m.funcs \in Seq(Func) /\ ClosuresRefer(m.closures) /\ m.closures \in Seq(Clos)
      /\ Len(m.funcs) \in Nat
      /\ \A i \in 1..Len(m.funcs) : Refers(m.closures, m.funcs[i].makes, Inside(m.funcs[i]))
      /\ \A i \in 1..Len(m.funcs) : m.funcs[i].of[1] # 0
      /\ \A n \in FuncNames : Stands(m.index[n], Having(m, n))
  BY DEF Sibling, WellMade, ClosuresRefer
<1>4. /\ mf \in Seq(Func) /\ Len(mf) = Len(m.funcs)
      /\ \A i \in 1..Len(m.funcs) :
             /\ mf[i].of = m.funcs[i].of /\ mf[i].kind = m.funcs[i].kind /\ mf[i].depth = m.funcs[i].depth
             /\ mf[i].makes = IF m.funcs[i].makes = NoClosure THEN NoClosure ELSE m.funcs[i].makes + by
  <2> HIDE DEF by
  <2> QED BY <1>2, <1>3, MovedFuncs
<1>5. /\ mc \in Seq(Clos) /\ Len(mc) = Len(m.closures)
      /\ \A i \in 1..Len(m.closures) : mc[i].of = m.closures[i].of
  <2> HIDE DEF by
  <2> QED BY <1>2, <1>3, MovedClosures
<1>6. ClosuresRefer(a.closures \o mc)
  BY <1>2, <1>3, MovedRefer
<1> HIDE DEF mf, mc
<1>7. /\ a.funcs \o mf \in Seq(Func) /\ Len(a.funcs \o mf) = Len(a.funcs) + Len(m.funcs)
      /\ \A i \in 1..Len(a.funcs) : (a.funcs \o mf)[i] = a.funcs[i]
      /\ \A i \in 1..Len(m.funcs) : (a.funcs \o mf)[Len(a.funcs) + i] = mf[i]
  <2>1. mf \in Seq(Func) /\ Len(mf) = Len(m.funcs)
    BY <1>4
  <2>2. IsJoined(a.funcs \o mf, Func, a.funcs, mf)
    BY <1>2, <2>1, Joined
  <2> QED BY <2>1, <2>2 DEF IsJoined
<1>8. \A n \in FuncNames : r.index[n] = index(n)
  BY <1>1
<1>9. r.funcs = a.funcs \o mf /\ r.closures = a.closures \o mc
  BY <1>1
<1> HIDE DEF r
<1>10. /\ r.funcs \in Seq(Func) /\ Len(r.funcs) = Len(a.funcs) + Len(m.funcs)
       /\ \A i \in 1..Len(a.funcs) : r.funcs[i] = a.funcs[i]
       /\ \A i \in 1..Len(m.funcs) : r.funcs[Len(a.funcs) + i] = mf[i]
  BY <1>7, <1>9
<1> DEFINE p == Len(a.funcs)
           q == Len(m.funcs)
<1>11. p \in Nat /\ q \in Nat /\ Len(r.funcs) = p + q
  BY <1>2, <1>3, <1>10
<1>12. ASSUME NEW i \in 1..Len(r.funcs), i \notin 1..Len(a.funcs)
       PROVE  \E j \in 1..Len(m.funcs) : i = Len(a.funcs) + j /\ r.funcs[i] = mf[j]
  <2>1. i - Len(a.funcs) \in 1..Len(m.funcs) /\ i = Len(a.funcs) + (i - Len(a.funcs))
    <3> HIDE DEF p, q
    <3>1. i \in 1 .. p + q /\ i \notin 1..p
      BY <1>12, <1>11 DEF p
    <3>2. i - p \in 1..q /\ i = p + (i - p)
      BY <1>11, <3>1
    <3> QED BY <3>2 DEF p, q
  <2> QED BY <1>10, <2>1
<1>13. ASSUME NEW i \in 1..Len(r.funcs)
       PROVE  Refers(r.closures, r.funcs[i].makes, Inside(r.funcs[i]))
  <2>1. CASE i \in 1..Len(a.funcs)
    <3>1. Refers(a.closures, a.funcs[i].makes, Inside(a.funcs[i]))
      BY <1>2, <2>1
    <3>2. a.funcs[i].makes \in Int
      <4>1. a.funcs[i] \in Func
        BY <1>2, <2>1
      <4> QED BY <4>1 DEF Func
    <3> QED BY <1>2, <1>5, <1>9, <1>10, <2>1, <3>1, <3>2, RefersLater
  <2>2. CASE i \notin 1..Len(a.funcs)
    <3>1. PICK j \in 1..Len(m.funcs) : i = Len(a.funcs) + j /\ r.funcs[i] = mf[j]
      BY <1>12, <2>2
    <3>2. Refers(m.closures, m.funcs[j].makes, Inside(m.funcs[j]))
      BY <1>3
    <3>3. m.funcs[j].makes \in Int
      <4>1. m.funcs[j] \in Func
        BY <1>3
      <4> QED BY <4>1 DEF Func
    <3>4. Refers(mc, m.funcs[j].makes, Inside(m.funcs[j]))
      <4>1. Len(m.closures) \in Nat
        BY <1>3
      <4> QED BY <1>5, <3>2, <3>3, <4>1 DEF Refers
    <3>5. Inside(mf[j]) = Inside(m.funcs[j])
      BY <1>4 DEF Inside
    <3>6. Refers(a.closures \o mc, mf[j].makes, Inside(m.funcs[j]))
      BY <1>2, <1>4, <1>5, <3>3, <3>4, RefersLater
    <3> QED BY <1>9, <3>1, <3>5, <3>6
  <2> QED BY <2>1, <2>2
<1>14. ASSUME NEW n \in FuncNames PROVE Stands(index(n), Standing(r, n))
  <2>1. /\ a.index[n] \in Seq(Nat) /\ MembersOf(a.index[n]) = Standing(a, n) /\ Distinct(a.index[n])
        /\ m.index[n] \in Seq(Nat) /\ MembersOf(m.index[n]) = Having(m, n) /\ Distinct(m.index[n])
    BY <1>2, <1>3 DEF Stands
  <2>2. \A x \in Standing(a, n) : x < Len(a.funcs)
    BY <1>2 DEF Standing, Having
  <2>3. \A x \in 0 .. Len(a.funcs) - 1 :
            x \in Standing(r, n) <=> x \in Standing(a, n)
    <3> SUFFICES ASSUME NEW x \in 0 .. Len(a.funcs) - 1 PROVE x \in Standing(r, n) <=> x \in Standing(a, n)
      OBVIOUS
    <3>1. x + 1 \in 1..Len(a.funcs) /\ x \in 0 .. Len(r.funcs) - 1
      <4> HIDE DEF p, q
      <4>1. x \in 0 .. p - 1
        BY DEF p
      <4>2. x + 1 \in 1..p /\ x \in 0 .. (p + q) - 1
        BY <1>11, <4>1
      <4> QED BY <1>11, <4>2 DEF p
    <3>2. r.funcs[x + 1] = a.funcs[x + 1]
      BY <1>10, <3>1
    <3> QED BY <3>1, <3>2 DEF Standing, Having
  <2>4. \A x \in 0 .. Len(m.funcs) - 1 :
            x + Len(a.funcs) \in Standing(r, n) <=> x \in Having(m, n) /\ n \in Qualified
    <3> SUFFICES ASSUME NEW x \in 0 .. Len(m.funcs) - 1
                 PROVE  x + Len(a.funcs) \in Standing(r, n) <=> x \in Having(m, n) /\ n \in Qualified
      OBVIOUS
    <3>1. /\ x + 1 \in 1..Len(m.funcs) /\ x + Len(a.funcs) \in 0 .. Len(r.funcs) - 1
          /\ (x + Len(a.funcs)) + 1 = Len(a.funcs) + (x + 1)
      <4> HIDE DEF p, q
      <4>1. x \in 0 .. q - 1
        BY DEF q
      <4>2. x + 1 \in 1..q /\ x + p \in 0 .. (p + q) - 1 /\ (x + p) + 1 = p + (x + 1)
        BY <1>11, <4>1
      <4> QED BY <1>11, <4>2 DEF p, q
    <3>2. r.funcs[(x + Len(a.funcs)) + 1] = mf[x + 1]
      BY <1>10, <3>1
    <3>3. mf[x + 1].of[1] # 0 /\ mf[x + 1].kind = m.funcs[x + 1].kind
      BY <1>3, <1>4, <3>1
    <3> QED BY <3>1, <3>2, <3>3 DEF Standing, Having
  <2>5. ASSUME NEW x \in Standing(r, n)
        PROVE  x \in 0 .. Len(a.funcs) - 1 \/ \E y \in 0 .. Len(m.funcs) - 1 : x = y + Len(a.funcs)
    <3>1. x \in 0 .. Len(r.funcs) - 1
      BY DEF Standing, Having
    <3>2. x \notin 0 .. Len(a.funcs) - 1 =>
             x - Len(a.funcs) \in 0 .. Len(m.funcs) - 1 /\ x = (x - Len(a.funcs)) + Len(a.funcs)
      <4> HIDE DEF p, q
      <4>1. x \in 0 .. (p + q) - 1
        BY <1>11, <3>1
      <4>2. x \notin 0 .. p - 1 => x - p \in 0 .. q - 1 /\ x = (x - p) + p
        BY <1>11, <4>1
      <4> QED BY <4>2 DEF p, q
    <3> QED BY <3>2
  <2>6. Standing(a, n) \subseteq 0 .. Len(a.funcs) - 1 /\ Having(m, n) \subseteq 0 .. Len(m.funcs) - 1
    BY DEF Standing, Having
  <2>7. CASE n \in Qualified
    <3> DEFINE left  == a.index[n]
               right == m.index[n]
               moved == [i \in 1..Len(right) |-> right[i] + p]
    <3>1. index(n) = left \o moved
      BY <2>7
    <3>2. /\ left \in Seq(Nat) /\ MembersOf(left) = Standing(a, n) /\ Distinct(left)
          /\ right \in Seq(Nat) /\ MembersOf(right) = Having(m, n) /\ Distinct(right)
          /\ \A x \in Standing(a, n) : x < p
      BY <2>1, <2>2
    <3> HIDE DEF left, right, index, p
    <3>3. IsMoved(moved, right, p)
      <4>1. Len(right) \in Nat /\ \A i \in 1..Len(right) : right[i] + p \in Nat
        BY <1>11, <3>2
      <4> QED BY <4>1 DEF IsMoved
    <3>4. IsJoint(Standing(r, n), Standing(a, n), Having(m, n), p)
      BY <2>3, <2>4, <2>5, <2>6, <2>7 DEF p, IsJoint
    <3> HIDE DEF moved
    <3> QED BY <1>11, <3>1, <3>2, <3>3, <3>4, NameIs
  <2>8. CASE n \notin Qualified
    <3>1. Standing(r, n) = Standing(a, n)
      BY <2>3, <2>4, <2>5, <2>6, <2>8
    <3> QED BY <2>1, <2>8, <3>1 DEF Stands
  <2> QED BY <2>7, <2>8
<1>15. WellMade(r)
  <2>1. r \in [funcs : Seq(Func), closures : Seq(Clos), index : [FuncNames -> Seq(Nat)]]
    <3>1. \A n \in FuncNames : index(n) \in Seq(Nat)
      BY <1>14 DEF Stands
    <3>2. [n \in FuncNames |-> index(n)] \in [FuncNames -> Seq(Nat)]
      BY <3>1
    <3>3. a.closures \o mc \in Seq(Clos)
      BY <1>6 DEF ClosuresRefer
    <3> HIDE DEF index
    <3> QED BY <1>1, <1>7, <3>2, <3>3 DEF r
  <2> QED BY <1>6, <1>9, <1>13, <2>1 DEF WellMade
<1> QED BY <1>8, <1>14, <1>15 DEF Built, r

-----------------------------------------------------------------------------
(* What is built so far and the siblings still to come are as they should  *)
(* be.                                                                     *)
LinkInv == Built(merged) /\ rest \in Seq({m \in [funcs : Seq(Func), closures : Seq(Clos),
                                                  index : [FuncNames -> Seq(Nat)]] : Sibling(m)})

LEMMA LinkStarts == LinkInit => LinkInv
<1> SUFFICES ASSUME LinkInit PROVE LinkInv
  OBVIOUS
<1>1. \A max \in Nat : \A file \in Files(max) : file \in Seq(Shapes)
  BY DEF Files
<1>2. PICK file \in Files(1) : merged = Module(0, file)
  BY DEF LinkInit
<1>3. PICK others \in [1..Siblings -> Files(MaxFuncs)] : rest = [i \in 1..Siblings |-> Module(i, others[i])]
  BY DEF LinkInit
<1>4. Built(merged)
  <2>1. file \in Seq(Shapes)
    BY <1>1, <1>2
  <2>2. /\ WellMade(merged)
        /\ \A n \in FuncNames : Stands(merged.index[n], Having(merged, n))
        /\ \A i \in 1..Len(merged.funcs) : merged.funcs[i].of[1] = 0
    BY <1>2, <2>1, ModuleIs
  <2>3. Len(merged.funcs) \in Nat
    BY <2>2 DEF WellMade
  <2>4. \A n \in FuncNames : Standing(merged, n) = Having(merged, n)
    BY <2>2, <2>3 DEF Standing, Having
  <2> QED BY <2>2, <2>4 DEF Built
<1>5. ASSUME NEW i \in 1..Siblings PROVE Sibling(Module(i, others[i]))
  <2>1. others[i] \in Seq(Shapes) /\ i \in Nat /\ i # 0
    BY <1>1, <1>3, LinkAssumption
  <2> QED BY <2>1, ModuleIs DEF Sibling
<1>6. \A m : Sibling(m) => m \in [funcs : Seq(Func), closures : Seq(Clos), index : [FuncNames -> Seq(Nat)]]
  BY DEF Sibling, WellMade
<1> QED BY <1>3, <1>4, <1>5, <1>6, LinkAssumption DEF LinkInv

LEMMA LinkStays == LinkInv /\ [LinkNext]_linkVars => LinkInv'
<1> DEFINE S == {m \in [funcs : Seq(Func), closures : Seq(Clos), index : [FuncNames -> Seq(Nat)]] : Sibling(m)}
<1> SUFFICES ASSUME LinkInv, [LinkNext]_linkVars PROVE LinkInv'
  OBVIOUS
<1>1. Built(merged) /\ rest \in Seq(S)
  BY DEF LinkInv
<1>2. \A m : m \in S <=> Sibling(m)
  BY DEF Sibling, WellMade
<1>3. LinkInv' <=> Built(merged') /\ rest' \in Seq(S)
  BY DEF LinkInv, Built, WellMade, ClosuresRefer, Refers, Stands, Standing, Having, MembersOf, Distinct, Inside, Inner
<1> HIDE DEF S
<1>4. CASE Strip
  <2>1. rest[1] \in S /\ rest # <<>> /\ rest' = [rest EXCEPT ![1] = Stripped(rest[1])] /\ merged' = merged
    BY <1>1, <1>4 DEF Strip
  <2>2. Stripped(rest[1]) \in S
    BY <1>2, <2>1, StrippedIs
  <2> QED BY <1>1, <1>3, <2>1, <2>2
<1>5. CASE Merge
  <2>1. rest # <<>> /\ merged' = Appended(merged, Head(rest)) /\ rest' = Tail(rest)
    BY <1>5 DEF Merge
  <2>2. Head(rest) \in S /\ Tail(rest) \in Seq(S)
    BY <1>1, <2>1
  <2> QED BY <1>1, <1>2, <1>3, <2>1, <2>2, AppendedIs
<1>6. CASE UNCHANGED linkVars
  BY <1>1, <1>3, <1>6 DEF linkVars
<1> QED BY <1>4, <1>5, <1>6 DEF LinkNext

(* Linking keeps every reference, however many siblings there are and      *)
(* whatever they hold: merge_modules and strip_test_funcs_in_place.        *)
THEOREM ReferencesAreKept == LinkSpec => []LinkKeepsReferences
<1>1. LinkInv => LinkKeepsReferences
  <2> SUFFICES ASSUME LinkInv PROVE LinkKeepsReferences
    OBVIOUS
  <2>1. /\ \A i \in 1..Len(merged.funcs) :
               Refers(merged.closures, merged.funcs[i].makes, Inside(merged.funcs[i]))
        /\ \A i \in 1..Len(merged.closures) :
               Refers(merged.closures, merged.closures[i].makes, Inner(merged.closures[i]))
        /\ \A n \in FuncNames : Stands(merged.index[n], Standing(merged, n))
    BY DEF LinkInv, Built, WellMade, ClosuresRefer
  <2>2. \A x, wanted : Refers(merged.closures, x.makes, wanted) => Made(merged, x) = wanted
    BY DEF Refers, Made, Row
  <2>3. \A i \in 1..Len(merged.funcs) :
            Made(merged, merged.funcs[i])
              = IF merged.funcs[i].depth = 0 THEN <<>> ELSE Append(merged.funcs[i].of, merged.funcs[i].depth)
    BY <2>1, <2>2 DEF Inside
  <2>4. \A i \in 1..Len(merged.closures) :
            Made(merged, merged.closures[i])
              = IF merged.closures[i].of[3] = 1 THEN <<>>
                ELSE [merged.closures[i].of EXCEPT ![3] = merged.closures[i].of[3] - 1]
    BY <2>1, <2>2 DEF Inner
  <2>5. ASSUME NEW n \in FuncNames
        PROVE  /\ {merged.index[n][i] : i \in 1..Len(merged.index[n])}
                    = {i \in 0 .. Len(merged.funcs) - 1 :
                          /\ n \in NamesOf[Row(merged.funcs, i).kind]
                          /\ Row(merged.funcs, i).of[1] = 0 \/ n \in Qualified}
               /\ \A i, j \in 1..Len(merged.index[n]) : merged.index[n][i] = merged.index[n][j] => i = j
    <3>1. MembersOf(merged.index[n]) = Standing(merged, n) /\ Distinct(merged.index[n])
      BY <2>1 DEF Stands
    <3>2. Standing(merged, n) = {i \in 0 .. Len(merged.funcs) - 1 :
                                  /\ n \in NamesOf[Row(merged.funcs, i).kind]
                                  /\ Row(merged.funcs, i).of[1] = 0 \/ n \in Qualified}
      BY DEF Standing, Having, Row
    <3> QED BY <3>1, <3>2 DEF MembersOf, Distinct
  <2> QED BY <2>3, <2>4, <2>5 DEF LinkKeepsReferences
<1> QED BY <1>1, LinkStarts, LinkStays, PTL DEF LinkSpec

-----------------------------------------------------------------------------
(***************************************************************************)
(* The language server, for any number of documents, messages and handlers *)
(* that run together.                                                      *)
(***************************************************************************)

Editing == {"open", "change", "close"}
Kinds   == Editing \cup {"save", "query"}
Places  == {"documents", "logs", "symbols", "published", "publishes", "end"}

Message  == [kind : Kinds, uri : Uris, version : Nat]
Document == [version : Nat, content : Nat]
Task     == [at : Places, content : Nat, left : SUBSET (Uris \X Document)]

Types ==
    /\ editor \in [Uris -> Nat] /\ fresh \in Nat
    /\ msgs \in Seq(Message) /\ tasks \in Seq(Task) /\ Len(tasks) <= Len(msgs)
    /\ documents \in [Uris -> Document] /\ shown \in [Uris -> Document]
    /\ symbols \in [Uris -> Nat]
    /\ docsLock \in Seq(Nat) /\ symbolsLock \in Seq(Nat)

(* The queue q of a lock: who wants or holds it (W) is in it once, nobody   *)
(* else is, and those behind the first still wait (R).                     *)
Queue(q, W, R) ==
    /\ q \in Seq(Nat)
    /\ \A m, n \in 1..Len(q) : q[m] = q[n] => m = n
    /\ \A n \in 1..Len(q) : q[n] \in W /\ (n # 1 => q[n] \in R)
    /\ \A i \in W : \E n \in 1..Len(q) : q[n] = i

In(P)       == {i \in 1..Len(tasks) : tasks[i].at \in P}
WaitDocs    == In({"documents"})
WantDocs    == WaitDocs \cup {i \in In({"logs"}) : msgs[i].kind \in {"open", "close"}}
WaitSymbols == In({"symbols"})
WantSymbols == In({"symbols", "published"})

LocksTell ==
    /\ Queue(docsLock, WantDocs, WaitDocs)
    /\ Queue(symbolsLock, WantSymbols, WaitSymbols)

(* What a handler has read is of the version that its message names, or of *)
(* the version it was read with.                                           *)
TaskTells(i) ==
    /\ tasks[i].at = "logs" => msgs[i].kind # "query"
    /\ tasks[i].at = "published" => msgs[i].kind \in {"open", "change"}
    /\ tasks[i].at = "symbols" => msgs[i].kind \in {"open", "change", "query"}
    /\ msgs[i].kind \in {"open", "change"} /\ tasks[i].at # "documents"
           => tasks[i].content = msgs[i].version
    /\ \A d \in tasks[i].left : d[2].version = d[2].content

TasksTell == \A i \in 1..Len(tasks) : TaskTells(i)

(* The messages that edit u, and those of them that had the documents.     *)
Edited(u)   == {i \in 1..Len(msgs) : msgs[i].uri = u /\ msgs[i].kind \in Editing}
HadDocs     == In(Places \ {"documents"})
Followed(u) == Edited(u) \cap HadDocs

(* Version v of u is what the last of some messages made it.               *)
LastOf(M, v) ==
    \/ M = {} /\ v = 0
    \/ \E i \in M : (\A j \in M : j <= i) /\ v = msgs[i].version

(* Messages that edit get the documents in the order they were sent.       *)
EditIds == {i \in 1..Len(msgs) : msgs[i].kind \in Editing}

HadInOrder == \A i, j \in EditIds : j < i /\ i \in HadDocs => j \in HadDocs
WaitInOrder ==
    \A m, n \in 1..Len(docsLock) :
        docsLock[m] \in EditIds /\ docsLock[n] \in EditIds /\ m < n => docsLock[m] < docsLock[n]

DocumentsTell ==
    \A u \in Uris :
        /\ documents[u].content = documents[u].version
        /\ LastOf(Followed(u), documents[u].version)

(* The editor changes only what it has open.                               *)
EditorTells ==
    /\ \A u \in Uris : LastOf(Edited(u), editor[u])
    /\ \A i \in 1..Len(msgs) : msgs[i].kind = "close" => msgs[i].version = 0
    /\ \A i \in 1..Len(msgs) :
           msgs[i].kind = "change"
               => \E j \in Edited(msgs[i].uri) :
                      /\ j < i /\ msgs[j].version # 0
                      /\ \A k \in Edited(msgs[i].uri) : k < i => k <= j

(* The inductive invariant.  That diagnostics are of the text of their     *)
(* version needs that a change finds its document open, and so that the    *)
(* documents follow the editor message by message.                         *)
ServerInv ==
    /\ Types /\ LocksTell /\ TasksTell
    /\ HadInOrder /\ WaitInOrder /\ DocumentsTell /\ EditorTells
    /\ VersionsMatch

-----------------------------------------------------------------------------
LEMMA TailIs ==
    ASSUME NEW S, NEW q \in Seq(S), q # <<>>
    PROVE  /\ Tail(q) \in Seq(S) /\ Len(q) \in Nat /\ Len(Tail(q)) = Len(q) - 1 /\ 1 \in 1..Len(q)
           /\ \A n \in 1..Len(Tail(q)) : n + 1 \in 1..Len(q) /\ n + 1 # 1 /\ Tail(q)[n] = q[n + 1]
           /\ \A n \in 1..Len(q) : n # 1 => n - 1 \in 1..Len(Tail(q)) /\ Tail(q)[n - 1] = q[n]
  OBVIOUS

LEMMA AppendIs ==
    ASSUME NEW S, NEW q \in Seq(S), NEW x \in S
    PROVE  /\ Append(q, x) \in Seq(S) /\ Len(q) \in Nat /\ Len(Append(q, x)) = Len(q) + 1
           /\ Append(q, x)[Len(q) + 1] = x /\ Len(q) + 1 \in 1..Len(Append(q, x))
           /\ \A n \in 1..Len(q) : n \in 1..Len(Append(q, x)) /\ n # Len(q) + 1 /\ Append(q, x)[n] = q[n]
           /\ \A n \in 1..Len(Append(q, x)) : n \in 1..Len(q) \/ n = Len(q) + 1
  OBVIOUS

LEMMA TaskType ==
    ASSUME Types, NEW i \in 1..Len(tasks)
    PROVE  /\ tasks[i] \in Task
           /\ tasks[i] = [at |-> tasks[i].at, content |-> tasks[i].content, left |-> tasks[i].left]
           /\ i \in 1..Len(msgs) /\ msgs[i] \in Message
           /\ DOMAIN tasks = 1..Len(tasks) /\ Len(tasks) \in Nat
<1>1. /\ tasks \in Seq(Task) /\ msgs \in Seq(Message)
      /\ Len(tasks) \in Nat /\ Len(msgs) \in Nat /\ Len(tasks) <= Len(msgs)
  BY DEF Types
<1>2. i \in 1..Len(msgs)
  BY <1>1
<1>3. tasks[i] \in Task /\ msgs[i] \in Message /\ DOMAIN tasks = 1..Len(tasks)
  BY <1>1, <1>2, ElementOfSeq
<1>. QED
  BY <1>1, <1>2, <1>3 DEF Task

(* A step of handler i, which changes nothing of the others.               *)
Steps(i) ==
    /\ i \in 1..Len(tasks)
    /\ tasks' \in Seq(Task) /\ Len(tasks') = Len(tasks)
    /\ \A j \in 1..Len(tasks) : j # i => tasks'[j] = tasks[j]
    /\ UNCHANGED <<editor, fresh, msgs>>

LEMMA TaskChanges ==
    ASSUME NEW q \in Seq(Task), NEW i \in 1..Len(q), NEW t \in Task, NEW r,
           r = [q EXCEPT ![i] = t]
    PROVE  /\ r \in Seq(Task) /\ Len(r) = Len(q) /\ r[i] = t
           /\ \A j \in 1..Len(q) : j # i => r[j] = q[j]
  OBVIOUS

LEMMA MoveSteps ==
    ASSUME Types, NEW i, i \in DOMAIN tasks, NEW place \in Places, Moves(i, place),
           UNCHANGED <<editor, fresh, msgs>>
    PROVE  /\ Steps(i) /\ tasks'[i].at = place
           /\ tasks'[i].content = tasks[i].content /\ tasks'[i].left = tasks[i].left
<1>1. i \in 1..Len(tasks) /\ tasks \in Seq(Task)
  BY DEF Types
<1>2. PICK t : t = [tasks[i] EXCEPT !.at = place]
  OBVIOUS
<1>3. t \in Task /\ t.at = place /\ t.content = tasks[i].content /\ t.left = tasks[i].left
  BY <1>1, <1>2, TaskType DEF Task
<1>4. tasks' = [tasks EXCEPT ![i] = t]
  BY <1>2 DEF Moves
<1>5. /\ tasks' \in Seq(Task) /\ Len(tasks') = Len(tasks) /\ tasks'[i] = t
      /\ \A j \in 1..Len(tasks) : j # i => tasks'[j] = tasks[j]
  BY <1>1, <1>3, <1>4, TaskChanges
<1>. QED
  BY <1>1, <1>3, <1>5 DEF Steps

LEMMA ReadSteps ==
    ASSUME Types, NEW i, i \in DOMAIN tasks, NEW place \in Places, NEW content \in Nat,
           Reads(i, place, content), UNCHANGED <<editor, fresh, msgs>>
    PROVE  /\ Steps(i) /\ tasks'[i].at = place
           /\ tasks'[i].content = content /\ tasks'[i].left = tasks[i].left
<1>1. i \in 1..Len(tasks) /\ tasks \in Seq(Task)
  BY DEF Types
<1>2. PICK t : t = [tasks[i] EXCEPT !.at = place, !.content = content]
  OBVIOUS
<1>3. t \in Task /\ t.at = place /\ t.content = content /\ t.left = tasks[i].left
  BY <1>1, <1>2, TaskType DEF Task
<1>4. tasks' = [tasks EXCEPT ![i] = t]
  BY <1>1, <1>2, TaskType DEF Reads
<1>5. /\ tasks' \in Seq(Task) /\ Len(tasks') = Len(tasks) /\ tasks'[i] = t
      /\ \A j \in 1..Len(tasks) : j # i => tasks'[j] = tasks[j]
  BY <1>1, <1>3, <1>4, TaskChanges
<1>. QED
  BY <1>1, <1>3, <1>5 DEF Steps

-----------------------------------------------------------------------------
(* The queue of a lock when nobody comes or goes, when its first leaves,   *)
(* and when somebody comes.                                                *)
LEMMA QueueStays ==
    ASSUME NEW q, NEW W, NEW R, NEW V, Queue(q, W, R), R \subseteq V \cup {q[1]}
    PROVE  Queue(q, W, V)
<1>1. \A n \in 1..Len(q) : n # 1 => 1 \in 1..Len(q)
  BY DEF Queue
<1>2. \A n \in 1..Len(q) : n # 1 => q[n] # q[1]
  BY <1>1 DEF Queue
<1>. QED
  BY <1>2 DEF Queue

LEMMA QueueLeft ==
    ASSUME NEW q, NEW W, NEW R, NEW X, NEW V, Queue(q, W, R), q # <<>>,
           X = W \ {q[1]}, R \ {q[1]} \subseteq V
    PROVE  Queue(Tail(q), X, V)
<1>1. PICK r : r = Tail(q)
  OBVIOUS
<1>2. q \in Seq(Nat) /\ q # <<>>
  BY DEF Queue
<1>3. /\ r \in Seq(Nat) /\ Len(q) \in Nat /\ 1 \in 1..Len(q) /\ Len(r) \in Nat
      /\ \A n \in 1..Len(r) : n + 1 \in 1..Len(q) /\ n + 1 # 1 /\ r[n] = q[n + 1]
      /\ \A n \in 1..Len(q) : n # 1 => n - 1 \in 1..Len(r) /\ r[n - 1] = q[n]
  BY <1>1, <1>2, TailIs
<1>4. \A m, n \in 1..Len(r) : r[m] = r[n] => m = n
  <2>1. \A m, n \in 1..Len(q) : q[m] = q[n] => m = n
    BY DEF Queue
  <2>2. ASSUME NEW m \in 1..Len(r), NEW n \in 1..Len(r), r[m] = r[n] PROVE m = n
    <3>1. m + 1 = n + 1
      BY <1>3, <2>1, <2>2
    <3>. QED
      BY <3>1
  <2>. QED
    BY <2>2
<1>5. \A n \in 1..Len(r) : r[n] \in X /\ r[n] \in V
  <2>1. \A m \in 1..Len(q) : m # 1 => q[m] \in W /\ q[m] # q[1] /\ q[m] \in R
    BY <1>3 DEF Queue
  <2>2. \A m \in 1..Len(q) : m # 1 => q[m] \in X /\ q[m] \in V
    BY <2>1
  <2>. QED
    BY <1>3, <2>2
<1>6. ASSUME NEW i \in X PROVE \E n \in 1..Len(r) : r[n] = i
  <2>1. PICK n \in 1..Len(q) : q[n] = i
    BY DEF Queue
  <2>. QED
    BY <1>3, <2>1
<1>. QED
  BY <1>1, <1>3, <1>4, <1>5, <1>6 DEF Queue

LEMMA QueueJoined ==
    ASSUME NEW q, NEW W, NEW R, NEW X, NEW V, NEW i \in Nat, Queue(q, W, R), i \notin W,
           X = W \cup {i}, i \in V, R \subseteq V
    PROVE  Queue(Append(q, i), X, V)
<1>1. PICK r : r = Append(q, i)
  OBVIOUS
<1>2. q \in Seq(Nat)
  BY DEF Queue
<1>3. /\ r \in Seq(Nat) /\ Len(q) \in Nat /\ r[Len(q) + 1] = i /\ Len(q) + 1 \in 1..Len(r)
      /\ \A n \in 1..Len(q) : n \in 1..Len(r) /\ n # Len(q) + 1 /\ r[n] = q[n]
      /\ \A n \in 1..Len(r) : n \in 1..Len(q) \/ n = Len(q) + 1
  BY <1>1, <1>2, AppendIs
<1>4. \A n \in 1..Len(q) : r[n] = q[n] /\ q[n] \in W /\ r[n] # i /\ (n # 1 => q[n] \in R)
  BY <1>3 DEF Queue
<1>5. \A m, n \in 1..Len(r) : r[m] = r[n] => m = n
  <2>1. \A m, n \in 1..Len(q) : q[m] = q[n] => m = n
    BY DEF Queue
  <2>. QED
    BY <1>3, <1>4, <2>1
<1>6. \A n \in 1..Len(r) : r[n] \in X /\ (n # 1 => r[n] \in V)
  BY <1>3, <1>4
<1>7. ASSUME NEW j \in X PROVE \E n \in 1..Len(r) : r[n] = j
  <2>1. CASE j = i
    BY <1>3, <2>1
  <2>2. CASE j # i
    <3>1. PICK n \in 1..Len(q) : q[n] = j
      BY <2>2 DEF Queue
    <3>. QED
      BY <1>3, <3>1
  <2>. QED
    BY <2>1, <2>2
<1>. QED
  BY <1>1, <1>3, <1>5, <1>6, <1>7 DEF Queue

LEMMA FirstIs ==
    ASSUME NEW q, NEW W, NEW R, Queue(q, W, R), NEW i \in W
    PROVE  q # <<>> /\ 1 \in 1..Len(q) /\ (i \notin R => q[1] = i)
<1>1. PICK n \in 1..Len(q) : q[n] = i
  BY DEF Queue
<1>2. q \in Seq(Nat)
  BY DEF Queue
<1>3. i \notin R => n = 1
  BY <1>1 DEF Queue
<1>. QED
  BY <1>1, <1>2, <1>3

-----------------------------------------------------------------------------
(* What a step of handler i leaves as it was.                              *)
LEMMA InAfter ==
    ASSUME NEW P, NEW i, Steps(i)
    PROVE  In(P)' = IF tasks'[i].at \in P THEN In(P) \cup {i} ELSE In(P) \ {i}
  BY DEF Steps, In

LEMMA WhoAfter ==
    ASSUME NEW i, Steps(i)
    PROVE  /\ tasks'[i].at = "documents" => WaitDocs' = WaitDocs \cup {i} /\ WantDocs' = WantDocs \cup {i}
           /\ tasks'[i].at # "documents" => WaitDocs' = WaitDocs \ {i}
           /\ tasks'[i].at = "logs" /\ msgs[i].kind \in {"open", "close"} => WantDocs' = WantDocs \cup {i}
           /\ tasks'[i].at = "logs" /\ msgs[i].kind \notin {"open", "close"} => WantDocs' = WantDocs \ {i}
           /\ tasks'[i].at \notin {"documents", "logs"} => WantDocs' = WantDocs \ {i}
           /\ tasks'[i].at = "symbols" => WaitSymbols' = WaitSymbols \cup {i}
           /\ tasks'[i].at # "symbols" => WaitSymbols' = WaitSymbols \ {i}
           /\ tasks'[i].at \in {"symbols", "published"} => WantSymbols' = WantSymbols \cup {i}
           /\ tasks'[i].at \notin {"symbols", "published"} => WantSymbols' = WantSymbols \ {i}
<1>1. IF tasks'[i].at = "documents" THEN WaitDocs' = WaitDocs \cup {i} ELSE WaitDocs' = WaitDocs \ {i}
  BY DEF Steps, In, WaitDocs
<1>2. IF tasks'[i].at = "documents" \/ (tasks'[i].at = "logs" /\ msgs[i].kind \in {"open", "close"})
      THEN WantDocs' = WantDocs \cup {i} ELSE WantDocs' = WantDocs \ {i}
  BY DEF Steps, In, WaitDocs, WantDocs
<1>3. IF tasks'[i].at = "symbols" THEN WaitSymbols' = WaitSymbols \cup {i}
      ELSE WaitSymbols' = WaitSymbols \ {i}
  BY DEF Steps, In, WaitSymbols
<1>4. IF tasks'[i].at \in {"symbols", "published"} THEN WantSymbols' = WantSymbols \cup {i}
      ELSE WantSymbols' = WantSymbols \ {i}
  BY DEF Steps, In, WantSymbols
<1>. QED
  BY <1>1, <1>2, <1>3, <1>4

(* And where it is before the step.                                        *)
LEMMA WhoNow ==
    ASSUME NEW i \in 1..Len(tasks)
    PROVE  /\ i \in WaitDocs <=> tasks[i].at = "documents"
           /\ i \in WantDocs <=>
                  tasks[i].at = "documents" \/ (tasks[i].at = "logs" /\ msgs[i].kind \in {"open", "close"})
           /\ i \in WaitSymbols <=> tasks[i].at = "symbols"
           /\ i \in WantSymbols <=> tasks[i].at \in {"symbols", "published"}
  BY DEF In, WaitDocs, WantDocs, WaitSymbols, WantSymbols

LEMMA TellsAfter ==
    ASSUME NEW i, Steps(i), TasksTell, TaskTells(i)'
    PROVE  TasksTell'
<1>1. \A j \in 1..Len(tasks) : j # i => tasks'[j] = tasks[j]
  BY DEF Steps
<1>2. msgs' = msgs /\ Len(tasks') = Len(tasks)
  BY DEF Steps
<1>3. ASSUME NEW j \in 1..Len(tasks), j # i PROVE TaskTells(j)'
  BY <1>1, <1>2, <1>3 DEF TasksTell, TaskTells
<1>. QED
  BY <1>2, <1>3 DEF TasksTell

(* A step that brings no message that edits to the documents.              *)
LEMMA HadAfter ==
    ASSUME Types, NEW i, Steps(i), HadInOrder, DocumentsTell, documents' = documents,
           i \in EditIds => (tasks[i].at = "documents" <=> tasks'[i].at = "documents"),
           tasks'[i].at \in Places
    PROVE  HadInOrder' /\ DocumentsTell'
<1>1. msgs' = msgs /\ i \in 1..Len(tasks)
  BY DEF Steps
<1>2. EditIds' = EditIds /\ \A u : Edited(u)' = Edited(u)
  BY <1>1 DEF EditIds, Edited
<1>3. tasks[i].at \in Places
  BY <1>1, TaskType DEF Task
<1>4. HadDocs \ {i} = HadDocs' \ {i}
  BY InAfter DEF HadDocs
<1>5. i \in EditIds => (i \in HadDocs <=> i \in HadDocs')
  BY <1>1, <1>3, InAfter DEF HadDocs, In
<1>6. \A j \in EditIds : j \in HadDocs <=> j \in HadDocs'
  BY <1>4, <1>5
<1>7. \A u : Edited(u) \subseteq EditIds
  BY DEF Edited, EditIds
<1>8. \A u : Followed(u)' = Followed(u)
  BY <1>2, <1>6, <1>7 DEF Followed
<1>9. HadInOrder'
  BY <1>2, <1>6 DEF HadInOrder
<1>10. DocumentsTell'
  BY <1>1, <1>8 DEF DocumentsTell, LastOf
<1>. QED
  BY <1>9, <1>10

LEMMA EditorAfter ==
    ASSUME EditorTells, UNCHANGED <<editor, msgs>>
    PROVE  EditorTells' /\ EditIds' = EditIds
<1>1. EditIds' = EditIds /\ \A u : Edited(u)' = Edited(u)
  BY DEF EditIds, Edited
<1>. QED
  BY <1>1 DEF EditorTells, LastOf

(* Handlers leave the queue for the documents at its head; those that join *)
(* it late edit nothing.                                                   *)
LEMMA WaitStays ==
    ASSUME WaitInOrder, EditIds' = EditIds, docsLock' = docsLock
    PROVE  WaitInOrder'
  BY DEF WaitInOrder

LEMMA WaitLeft ==
    ASSUME Types, WaitInOrder, EditIds' = EditIds, docsLock # <<>>, docsLock' = Tail(docsLock)
    PROVE  WaitInOrder'
<1>1. docsLock \in Seq(Nat)
  BY DEF Types
<1>2. /\ Len(docsLock) \in Nat /\ Len(docsLock') \in Nat
      /\ \A n \in 1..Len(docsLock') : n + 1 \in 1..Len(docsLock) /\ docsLock'[n] = docsLock[n + 1]
  BY <1>1, TailIs
<1>3. ASSUME NEW m \in 1..Len(docsLock'), NEW n \in 1..Len(docsLock'),
             docsLock'[m] \in EditIds, docsLock'[n] \in EditIds, m < n
      PROVE  docsLock'[m] < docsLock'[n]
  <2>1. m + 1 < n + 1 /\ m + 1 \in 1..Len(docsLock) /\ n + 1 \in 1..Len(docsLock)
    BY <1>2, <1>3
  <2>2. docsLock[m + 1] < docsLock[n + 1]
    BY <1>2, <1>3, <2>1 DEF WaitInOrder
  <2>. QED
    BY <1>2, <2>2
<1>. QED
  BY <1>3 DEF WaitInOrder

LEMMA WaitJoined ==
    ASSUME Types, WaitInOrder, EditIds' = EditIds, NEW i \in Nat, docsLock' = Append(docsLock, i),
           i \in EditIds => \A n \in 1..Len(docsLock) : docsLock[n] < i
    PROVE  WaitInOrder'
<1>1. docsLock \in Seq(Nat)
  BY DEF Types
<1>2. /\ Len(docsLock) \in Nat /\ Len(docsLock') = Len(docsLock) + 1 /\ docsLock'[Len(docsLock) + 1] = i
      /\ \A n \in 1..Len(docsLock) : docsLock'[n] = docsLock[n]
      /\ \A n \in 1..Len(docsLock') : n \in 1..Len(docsLock) \/ n = Len(docsLock) + 1
  BY <1>1, AppendIs
<1>3. ASSUME NEW m \in 1..Len(docsLock'), NEW n \in 1..Len(docsLock'),
             docsLock'[m] \in EditIds, docsLock'[n] \in EditIds, m < n
      PROVE  docsLock'[m] < docsLock'[n]
  <2>1. m \in 1..Len(docsLock)
    BY <1>2, <1>3
  <2>2. CASE n \in 1..Len(docsLock)
    BY <1>2, <1>3, <2>1, <2>2 DEF WaitInOrder
  <2>3. CASE n = Len(docsLock) + 1
    BY <1>2, <1>3, <2>1, <2>3
  <2>. QED
    BY <1>2, <2>2, <2>3
<1>. QED
  BY <1>3 DEF WaitInOrder

-----------------------------------------------------------------------------
(* The handler of a message that edits, first in the queue for the         *)
(* documents: all messages before it had them, none after it.              *)
LEMMA EditsInTurn ==
    ASSUME Types, LocksTell, HadInOrder, WaitInOrder, NEW i \in EditIds, At(i, "documents"),
           docsLock[1] = i
    PROVE  /\ \A j \in EditIds : j < i => j \in HadDocs
           /\ \A j \in EditIds : j \in HadDocs => j < i
<1>1. i \in 1..Len(tasks) /\ tasks[i].at = "documents" /\ Len(tasks) \in Nat /\ Len(msgs) \in Nat
  BY DEF Types, At
<1>2. i \notin HadDocs
  BY <1>1 DEF HadDocs, In
<1>3. \A j \in EditIds : j \in Nat /\ i \in Nat
  BY <1>1 DEF EditIds
<1>4. ASSUME NEW j \in EditIds, j < i, j \notin HadDocs PROVE FALSE
  <2>1. j \in 1..Len(tasks)
    BY <1>1, <1>3, <1>4 DEF EditIds
  <2>2. tasks[j].at \in Places
    BY <2>1, TaskType DEF Task
  <2>3. j \in WaitDocs
    BY <1>4, <2>1, <2>2 DEF HadDocs, In, WaitDocs
  <2>4. PICK n \in 1..Len(docsLock) : docsLock[n] = j
    BY <2>3 DEF LocksTell, Queue, WantDocs
  <2>5. 1 \in 1..Len(docsLock) /\ 1 < n
    <3>1. Len(docsLock) \in Nat /\ n # 1
      BY <1>3, <1>4, <2>4 DEF Types
    <3>. QED
      BY <3>1
  <2>6. i < j
    BY <2>4, <2>5 DEF WaitInOrder
  <2>. QED
    BY <1>3, <1>4, <2>6
<1>5. ASSUME NEW j \in EditIds, j \in HadDocs PROVE j < i
  <2>1. j # i /\ ~(i < j)
    BY <1>2, <1>5 DEF HadInOrder
  <2>. QED
    BY <1>3, <2>1
<1>. QED
  BY <1>4, <1>5

(* It leaves the documents at the version its message names.               *)
LEMMA DocumentTakes ==
    ASSUME Types, LocksTell, HadInOrder, WaitInOrder, DocumentsTell, EditorTells,
           NEW i \in EditIds, At(i, "documents"), docsLock[1] = i, Steps(i), tasks'[i].at = "logs",
           documents' = [documents EXCEPT ![msgs[i].uri] =
                             [version |-> msgs[i].version, content |-> msgs[i].version]]
    PROVE  /\ HadInOrder' /\ DocumentsTell' /\ EditorTells' /\ EditIds' = EditIds
           /\ documents' \in [Uris -> Document]
<1>1. /\ msgs' = msgs /\ editor' = editor /\ i \in 1..Len(tasks) /\ msgs[i] \in Message
      /\ i \in 1..Len(msgs) /\ documents \in [Uris -> Document]
  BY TaskType DEF Steps, Types
<1>2. EditorTells' /\ EditIds' = EditIds
  BY <1>1, EditorAfter
<1>3. HadDocs' = HadDocs \cup {i}
  <2>1. "logs" \in Places \ {"documents"}
    BY DEF Places
  <2>. QED
    BY <2>1, InAfter DEF HadDocs
<1>4. /\ \A j \in EditIds : j < i => j \in HadDocs
      /\ \A j \in EditIds : j \in HadDocs => j < i
  BY EditsInTurn
<1>5. HadInOrder'
  <2>1. ASSUME NEW k \in EditIds, NEW j \in EditIds, j < k, k \in HadDocs' PROVE j \in HadDocs'
    <3>1. CASE k = i
      BY <1>3, <1>4, <2>1, <3>1
    <3>2. CASE k # i
      BY <1>3, <2>1, <3>2 DEF HadInOrder
    <3>. QED
      BY <3>1, <3>2
  <2>. QED
    BY <1>2, <2>1 DEF HadInOrder
<1>6. ASSUME NEW u \in Uris
      PROVE  /\ documents'[u].content = documents'[u].version
             /\ LastOf(Followed(u), documents[u].version)'
  <2>1. Edited(u)' = Edited(u) /\ Edited(u) \subseteq EditIds
    BY <1>1 DEF Edited, EditIds
  <2>2. CASE u = msgs[i].uri
    <3>1. documents'[u] = [version |-> msgs[i].version, content |-> msgs[i].version]
      BY <1>1, <2>2
    <3>2. i \in Edited(u)
      BY <1>1, <2>2 DEF Edited, EditIds
    <3>3. Followed(u)' = Followed(u) \cup {i} /\ Followed(u) \subseteq EditIds \cap HadDocs
      BY <1>3, <2>1, <3>2 DEF Followed
    <3>4. \A j \in Followed(u)' : j <= i
      <4>1. \A j \in EditIds : j \in Nat
        BY DEF EditIds
      <4>2. \A j \in Followed(u) : j < i /\ j \in Nat
        BY <1>4, <3>3, <4>1
      <4>. QED
        BY <3>3, <4>1, <4>2
    <3>5. documents'[u].version = msgs'[i].version /\ documents'[u].content = msgs'[i].version
      BY <1>1, <3>1
    <3>6. i \in Followed(u)'
      BY <3>3
    <3>. QED
      BY <3>4, <3>5, <3>6 DEF LastOf
  <2>3. CASE u # msgs[i].uri
    <3>1. documents'[u] = documents[u]
      BY <1>1, <2>3
    <3>2. i \notin Edited(u)
      BY <2>3 DEF Edited
    <3>3. Followed(u)' = Followed(u)
      BY <1>3, <2>1, <3>2 DEF Followed
    <3>. QED
      BY <1>1, <3>1, <3>3 DEF LastOf, DocumentsTell
  <2>. QED
    BY <2>2, <2>3
<1>7. DocumentsTell'
  BY <1>6 DEF DocumentsTell
<1>8. documents' \in [Uris -> Document]
  BY <1>1 DEF Message, Document
<1>. QED
  BY <1>2, <1>5, <1>7, <1>8

(* A change finds its document open.                                       *)
LEMMA ChangeFinds ==
    ASSUME Types, LocksTell, HadInOrder, WaitInOrder, DocumentsTell, EditorTells,
           NEW i, At(i, "documents"), docsLock[1] = i, msgs[i].kind = "change"
    PROVE  i \in EditIds /\ msgs[i].uri \in Uris /\ documents[msgs[i].uri].version # 0
<1>1. i \in 1..Len(tasks)
  BY DEF At, Types
<1>2. i \in 1..Len(msgs) /\ msgs[i] \in Message
  BY <1>1, TaskType
<1>3. PICK u : u = msgs[i].uri
  OBVIOUS
<1>4. i \in EditIds /\ u \in Uris
  BY <1>2, <1>3 DEF EditIds, Editing, Message
<1>5. PICK j \in Edited(u) : /\ j < i /\ msgs[j].version # 0
                             /\ \A k \in Edited(u) : k < i => k <= j
  BY <1>2, <1>3 DEF EditorTells
<1>6. Edited(u) \subseteq EditIds
  BY DEF Edited, EditIds
<1>7. /\ \A k \in EditIds : k < i => k \in HadDocs
      /\ \A k \in EditIds : k \in HadDocs => k < i
  BY <1>4, EditsInTurn
<1>8. j \in Followed(u) /\ \A k \in Followed(u) : k \in Edited(u) /\ k < i
  BY <1>5, <1>6, <1>7 DEF Followed
<1>9. \A k \in Followed(u) : k <= j
  BY <1>5, <1>8
<1>10. \A k \in EditIds : k \in Nat
  BY DEF EditIds
<1>11. LastOf(Followed(u), documents[u].version)
  BY <1>4 DEF DocumentsTell
<1>12. PICK k \in Followed(u) : /\ \A l \in Followed(u) : l <= k
                                /\ documents[u].version = msgs[k].version
  BY <1>8, <1>11 DEF LastOf
<1>13. k = j
  <2>1. k <= j /\ j <= k /\ k \in Nat /\ j \in Nat
    BY <1>5, <1>6, <1>8, <1>9, <1>10, <1>12
  <2>. QED
    BY <2>1
<1>. QED
  BY <1>3, <1>4, <1>5, <1>12, <1>13

LEMMA TypesAfter ==
    ASSUME Types, NEW i, Steps(i), LocksTell', documents' \in [Uris -> Document],
           shown' \in [Uris -> Document], symbols' \in [Uris -> Nat]
    PROVE  Types'
<1>1. /\ editor \in [Uris -> Nat] /\ fresh \in Nat /\ msgs \in Seq(Message) /\ Len(tasks) <= Len(msgs)
  BY DEF Types
<1>2. /\ editor' = editor /\ fresh' = fresh /\ msgs' = msgs
      /\ tasks' \in Seq(Task) /\ Len(tasks') = Len(tasks)
  BY DEF Steps
<1>3. docsLock' \in Seq(Nat) /\ symbolsLock' \in Seq(Nat)
  BY DEF LocksTell, Queue
<1>. QED
  BY <1>1, <1>2, <1>3 DEF Types

LEMMA HasDocs ==
    ASSUME Types, LocksTell, NEW i, At(i, "documents"), docsLock[1] = i
    PROVE  /\ i \in 1..Len(tasks) /\ i \in WaitDocs /\ i \in WantDocs
           /\ i \notin WaitSymbols /\ i \notin WantSymbols /\ docsLock # <<>>
<1>1. i \in 1..Len(tasks) /\ tasks[i].at = "documents"
  BY DEF At, Types
<1>2. i \in WaitDocs /\ i \in WantDocs /\ i \notin WaitSymbols /\ i \notin WantSymbols
  BY <1>1, WhoNow
<1>. QED
  BY <1>1, <1>2, FirstIs DEF LocksTell

-----------------------------------------------------------------------------
LEMMA OpensKeeps ==
    ASSUME ServerInv, NEW i, Opens(i)
    PROVE  ServerInv'
<1>1. /\ Types /\ LocksTell /\ TasksTell /\ HadInOrder /\ WaitInOrder /\ DocumentsTell /\ EditorTells
      /\ VersionsMatch
  BY DEF ServerInv
<1>2. /\ At(i, "documents") /\ docsLock[1] = i /\ msgs[i].kind = "open"
      /\ documents' = [documents EXCEPT ![msgs[i].uri] =
                           [version |-> msgs[i].version, content |-> msgs[i].version]]
      /\ Reads(i, "logs", msgs[i].version)
      /\ UNCHANGED <<editor, fresh, msgs, symbols, docsLock, symbolsLock, shown>>
  BY DEF Opens, HasDocuments
<1>3. /\ i \in 1..Len(tasks) /\ i \in WaitDocs /\ i \in WantDocs
      /\ i \notin WaitSymbols /\ i \notin WantSymbols /\ docsLock # <<>>
  BY <1>1, <1>2, HasDocs
<1>4. i \in 1..Len(msgs) /\ msgs[i] \in Message /\ i \in DOMAIN tasks
  BY <1>1, <1>3, TaskType
<1>5. i \in EditIds /\ msgs[i].version \in Nat /\ "logs" \in Places
  BY <1>2, <1>4 DEF EditIds, Editing, Message, Places
<1>6. /\ Steps(i) /\ tasks'[i].at = "logs"
      /\ tasks'[i].content = msgs[i].version /\ tasks'[i].left = tasks[i].left
  BY <1>1, <1>2, <1>4, <1>5, ReadSteps
<1>7. /\ HadInOrder' /\ DocumentsTell' /\ EditorTells' /\ EditIds' = EditIds
      /\ documents' \in [Uris -> Document]
  BY <1>1, <1>2, <1>5, <1>6, DocumentTakes
<1>8. LocksTell'
  <2>0. /\ WaitDocs' = WaitDocs \ {i} /\ WantDocs' = WantDocs \cup {i}
        /\ WaitSymbols' = WaitSymbols \ {i} /\ WantSymbols' = WantSymbols \ {i}
    BY <1>2, <1>6, WhoAfter
  <2>1. /\ WaitDocs' = WaitDocs \ {i} /\ WantDocs' = WantDocs
        /\ WaitSymbols' = WaitSymbols /\ WantSymbols' = WantSymbols
    BY <1>3, <2>0
  <2>2. Queue(docsLock, WantDocs, WaitDocs \ {i})
    BY <1>1, <1>2, QueueStays DEF LocksTell
  <2>. QED
    BY <1>1, <1>2, <2>1, <2>2 DEF LocksTell
<1>9. TasksTell'
  <2>1. TaskTells(i)'
    BY <1>1, <1>2, <1>3, <1>6 DEF TaskTells, TasksTell
  <2>. QED
    BY <1>1, <1>6, <2>1, TellsAfter
<1>10. WaitInOrder'
  BY <1>1, <1>2, <1>7, WaitStays
<1>11. Types'
  <2>1. shown' \in [Uris -> Document] /\ symbols' \in [Uris -> Nat]
    BY <1>1, <1>2 DEF Types
  <2>. QED
    BY <1>1, <1>6, <1>7, <1>8, <2>1, TypesAfter
<1>12. VersionsMatch'
  BY <1>1, <1>2 DEF VersionsMatch
<1>. QED
  BY <1>7, <1>8, <1>9, <1>10, <1>11, <1>12 DEF ServerInv

LEMMA ChangesKeeps ==
    ASSUME ServerInv, NEW i, Changes(i)
    PROVE  ServerInv'
<1>1. /\ Types /\ LocksTell /\ TasksTell /\ HadInOrder /\ WaitInOrder /\ DocumentsTell /\ EditorTells
      /\ VersionsMatch
  BY DEF ServerInv
<1>2. /\ At(i, "documents") /\ docsLock[1] = i /\ msgs[i].kind = "change"
      /\ UNCHANGED <<editor, fresh, msgs, symbols, symbolsLock, shown>>
      /\ docsLock' = Tail(docsLock)
  BY DEF Changes, HasDocuments, LeavesDocuments
<1>3. /\ i \in 1..Len(tasks) /\ i \in WaitDocs /\ i \in WantDocs
      /\ i \notin WaitSymbols /\ i \notin WantSymbols /\ docsLock # <<>>
  BY <1>1, <1>2, HasDocs
<1>4. i \in 1..Len(msgs) /\ msgs[i] \in Message /\ i \in DOMAIN tasks
  BY <1>1, <1>3, TaskType
<1>5. /\ i \in EditIds /\ msgs[i].version \in Nat /\ "logs" \in Places
      /\ msgs[i].uri \in Uris /\ documents[msgs[i].uri].version # 0
  BY <1>1, <1>2, <1>4, ChangeFinds DEF Message, Places
<1>6. documents' = [documents EXCEPT ![msgs[i].uri] =
                        [version |-> msgs[i].version, content |-> msgs[i].version]]
  BY <1>5 DEF Changes
<1>7. Reads(i, "logs", msgs[i].version)
  <2>1. documents'[msgs[i].uri].content = msgs[i].version
    BY <1>1, <1>5, <1>6 DEF Types
  <2>. QED
    BY <2>1 DEF Changes
<1>8. /\ Steps(i) /\ tasks'[i].at = "logs"
      /\ tasks'[i].content = msgs[i].version /\ tasks'[i].left = tasks[i].left
  BY <1>1, <1>2, <1>4, <1>5, <1>7, ReadSteps
<1>9. /\ HadInOrder' /\ DocumentsTell' /\ EditorTells' /\ EditIds' = EditIds
      /\ documents' \in [Uris -> Document]
  BY <1>1, <1>2, <1>5, <1>6, <1>8, DocumentTakes
<1>10. LocksTell'
  <2>0. /\ WaitDocs' = WaitDocs \ {i} /\ WantDocs' = WantDocs \ {i}
        /\ WaitSymbols' = WaitSymbols \ {i} /\ WantSymbols' = WantSymbols \ {i}
    BY <1>2, <1>8, WhoAfter
  <2>1. /\ WaitDocs' = WaitDocs \ {i} /\ WantDocs' = WantDocs \ {i}
        /\ WaitSymbols' = WaitSymbols /\ WantSymbols' = WantSymbols
    BY <1>3, <2>0
  <2>2. Queue(Tail(docsLock), WantDocs \ {i}, WaitDocs \ {i})
    BY <1>1, <1>2, <1>3, QueueLeft DEF LocksTell
  <2>. QED
    BY <1>1, <1>2, <2>1, <2>2 DEF LocksTell
<1>11. TasksTell'
  <2>1. TaskTells(i)'
    BY <1>1, <1>2, <1>3, <1>8 DEF TaskTells, TasksTell
  <2>. QED
    BY <1>1, <1>8, <2>1, TellsAfter
<1>12. WaitInOrder'
  BY <1>1, <1>2, <1>3, <1>9, WaitLeft
<1>13. Types'
  <2>1. shown' \in [Uris -> Document] /\ symbols' \in [Uris -> Nat]
    BY <1>1, <1>2 DEF Types
  <2>. QED
    BY <1>1, <1>8, <1>9, <1>10, <2>1, TypesAfter
<1>14. VersionsMatch'
  BY <1>1, <1>2 DEF VersionsMatch
<1>. QED
  BY <1>9, <1>10, <1>11, <1>12, <1>13, <1>14 DEF ServerInv

LEMMA ClosesKeeps ==
    ASSUME ServerInv, NEW i, Closes(i)
    PROVE  ServerInv'
<1>1. /\ Types /\ LocksTell /\ TasksTell /\ HadInOrder /\ WaitInOrder /\ DocumentsTell /\ EditorTells
      /\ VersionsMatch
  BY DEF ServerInv
<1>2. /\ At(i, "documents") /\ docsLock[1] = i /\ msgs[i].kind = "close"
      /\ Moves(i, "logs")
      /\ UNCHANGED <<editor, fresh, msgs, symbols, docsLock, symbolsLock, shown>>
  BY DEF Closes, HasDocuments
<1>3. /\ i \in 1..Len(tasks) /\ i \in WaitDocs /\ i \in WantDocs
      /\ i \notin WaitSymbols /\ i \notin WantSymbols /\ docsLock # <<>>
  BY <1>1, <1>2, HasDocs
<1>4. i \in 1..Len(msgs) /\ msgs[i] \in Message /\ i \in DOMAIN tasks
  BY <1>1, <1>3, TaskType
<1>5. i \in EditIds /\ msgs[i].version = 0 /\ "logs" \in Places
  BY <1>1, <1>2, <1>4 DEF EditIds, Editing, EditorTells, Places
<1>6. documents' = [documents EXCEPT ![msgs[i].uri] =
                        [version |-> msgs[i].version, content |-> msgs[i].version]]
  BY <1>5 DEF Closes, Nothing
<1>7. /\ Steps(i) /\ tasks'[i].at = "logs"
      /\ tasks'[i].content = tasks[i].content /\ tasks'[i].left = tasks[i].left
  BY <1>1, <1>2, <1>4, <1>5, MoveSteps
<1>8. /\ HadInOrder' /\ DocumentsTell' /\ EditorTells' /\ EditIds' = EditIds
      /\ documents' \in [Uris -> Document]
  BY <1>1, <1>2, <1>5, <1>6, <1>7, DocumentTakes
<1>9. LocksTell'
  <2>0. /\ WaitDocs' = WaitDocs \ {i} /\ WantDocs' = WantDocs \cup {i}
        /\ WaitSymbols' = WaitSymbols \ {i} /\ WantSymbols' = WantSymbols \ {i}
    BY <1>2, <1>7, WhoAfter
  <2>1. /\ WaitDocs' = WaitDocs \ {i} /\ WantDocs' = WantDocs
        /\ WaitSymbols' = WaitSymbols /\ WantSymbols' = WantSymbols
    BY <1>3, <2>0
  <2>2. Queue(docsLock, WantDocs, WaitDocs \ {i})
    BY <1>1, <1>2, QueueStays DEF LocksTell
  <2>. QED
    BY <1>1, <1>2, <2>1, <2>2 DEF LocksTell
<1>10. TasksTell'
  <2>1. TaskTells(i)'
    BY <1>1, <1>2, <1>3, <1>7 DEF TaskTells, TasksTell
  <2>. QED
    BY <1>1, <1>7, <2>1, TellsAfter
<1>11. WaitInOrder'
  BY <1>1, <1>2, <1>8, WaitStays
<1>12. Types'
  <2>1. shown' \in [Uris -> Document] /\ symbols' \in [Uris -> Nat]
    BY <1>1, <1>2 DEF Types
  <2>. QED
    BY <1>1, <1>7, <1>8, <1>9, <2>1, TypesAfter
<1>13. VersionsMatch'
  BY <1>1, <1>2 DEF VersionsMatch
<1>. QED
  BY <1>8, <1>9, <1>10, <1>11, <1>12, <1>13 DEF ServerInv

LEMMA SavesKeeps ==
    ASSUME ServerInv, NEW i, Saves(i)
    PROVE  ServerInv'
<1>1. /\ Types /\ LocksTell /\ TasksTell /\ HadInOrder /\ WaitInOrder /\ DocumentsTell /\ EditorTells
      /\ VersionsMatch
  BY DEF ServerInv
<1>. DEFINE left == {<<u, documents[u]>> : u \in {x \in Uris : documents[x].version # 0}}
<1>2. /\ At(i, "documents") /\ docsLock[1] = i /\ msgs[i].kind = "save"
      /\ tasks' = [tasks EXCEPT ![i].at = "publishes", ![i].left = left]
      /\ docsLock' = Tail(docsLock)
      /\ UNCHANGED <<editor, fresh, msgs, documents, symbols, symbolsLock, shown>>
  BY DEF Saves, HasDocuments, LeavesDocuments
<1>3. /\ i \in 1..Len(tasks) /\ i \in WaitDocs /\ i \in WantDocs
      /\ i \notin WaitSymbols /\ i \notin WantSymbols /\ docsLock # <<>>
  BY <1>1, <1>2, HasDocs
<1>4. i \in 1..Len(msgs) /\ msgs[i] \in Message /\ i \in DOMAIN tasks
  BY <1>1, <1>3, TaskType
<1>5. i \notin EditIds /\ "publishes" \in Places
  BY <1>2 DEF EditIds, Editing, Places
<1>6. left \subseteq Uris \X Document /\ \A d \in left : d[2].version = d[2].content
  <2>1. \A u \in Uris : documents[u] \in Document /\ documents[u].version = documents[u].content
    BY <1>1 DEF Types, DocumentsTell
  <2>. QED
    BY <2>1
<1>7. Steps(i) /\ tasks'[i].at = "publishes" /\ tasks'[i].left = left
  <2>. HIDE DEF left
  <2>1. PICK t : t = [tasks[i] EXCEPT !.at = "publishes", !.left = left]
    OBVIOUS
  <2>2. t \in Task /\ t.at = "publishes" /\ t.left = left
    BY <1>1, <1>3, <1>5, <1>6, <2>1, TaskType DEF Task
  <2>3. tasks' = [tasks EXCEPT ![i] = t]
    BY <1>1, <1>2, <1>3, <2>1, TaskType
  <2>4. /\ tasks' \in Seq(Task) /\ Len(tasks') = Len(tasks) /\ tasks'[i] = t
        /\ \A j \in 1..Len(tasks) : j # i => tasks'[j] = tasks[j]
    BY <1>1, <1>3, <2>2, <2>3, TaskChanges DEF Types
  <2>. QED
    BY <1>2, <1>3, <2>2, <2>4 DEF Steps
<1>8. HadInOrder' /\ DocumentsTell' /\ EditorTells' /\ EditIds' = EditIds
  BY <1>1, <1>2, <1>5, <1>7, HadAfter, EditorAfter
<1>9. LocksTell'
  <2>1. /\ WaitDocs' = WaitDocs \ {i} /\ WantDocs' = WantDocs \ {i}
        /\ WaitSymbols' = WaitSymbols \ {i} /\ WantSymbols' = WantSymbols \ {i}
    BY <1>7, WhoAfter
  <2>2. WaitSymbols' = WaitSymbols /\ WantSymbols' = WantSymbols
    BY <1>3, <2>1
  <2>3. Queue(Tail(docsLock), WantDocs \ {i}, WaitDocs \ {i})
    BY <1>1, <1>2, <1>3, QueueLeft DEF LocksTell
  <2>. QED
    BY <1>1, <1>2, <2>1, <2>2, <2>3 DEF LocksTell
<1>10. TasksTell'
  <2>1. TaskTells(i)'
    BY <1>2, <1>6, <1>7 DEF TaskTells
  <2>. QED
    BY <1>1, <1>7, <2>1, TellsAfter
<1>11. WaitInOrder'
  BY <1>1, <1>2, <1>3, <1>8, WaitLeft
<1>12. Types'
  <2>1. /\ shown' \in [Uris -> Document] /\ symbols' \in [Uris -> Nat]
        /\ documents' \in [Uris -> Document]
    BY <1>1, <1>2 DEF Types
  <2>. QED
    BY <1>1, <1>7, <1>9, <2>1, TypesAfter
<1>13. VersionsMatch'
  BY <1>1, <1>2 DEF VersionsMatch
<1>. QED
  BY <1>8, <1>9, <1>10, <1>11, <1>12, <1>13 DEF ServerInv

LEMMA AsksKeeps ==
    ASSUME ServerInv, NEW i, Asks(i)
    PROVE  ServerInv'
<1>1. /\ Types /\ LocksTell /\ TasksTell /\ HadInOrder /\ WaitInOrder /\ DocumentsTell /\ EditorTells
      /\ VersionsMatch
  BY DEF ServerInv
<1>2. /\ At(i, "documents") /\ docsLock[1] = i /\ msgs[i].kind = "query"
      /\ docsLock' = Tail(docsLock)
      /\ \/ Moves(i, "end") /\ symbolsLock' = symbolsLock
         \/ Moves(i, "symbols") /\ symbolsLock' = Append(symbolsLock, i)
      /\ UNCHANGED <<editor, fresh, msgs, documents, symbols, shown>>
  BY DEF Asks, HasDocuments, LeavesDocuments
<1>3. /\ i \in 1..Len(tasks) /\ i \in WaitDocs /\ i \in WantDocs
      /\ i \notin WaitSymbols /\ i \notin WantSymbols /\ docsLock # <<>>
  BY <1>1, <1>2, HasDocs
<1>4. i \in DOMAIN tasks /\ i \in Nat
  <2>1. i \in DOMAIN tasks
    BY <1>1, <1>3, TaskType
  <2>. QED
    BY <1>3, <2>1
<1>5. i \notin EditIds /\ "end" \in Places /\ "symbols" \in Places
  BY <1>2 DEF EditIds, Editing, Places
<1>6. /\ Steps(i) /\ tasks'[i].left = tasks[i].left
      /\ \/ tasks'[i].at = "end" /\ symbolsLock' = symbolsLock
         \/ tasks'[i].at = "symbols" /\ symbolsLock' = Append(symbolsLock, i)
  BY <1>1, <1>2, <1>4, <1>5, MoveSteps
<1>7. HadInOrder' /\ DocumentsTell' /\ EditorTells' /\ EditIds' = EditIds
  BY <1>1, <1>2, <1>5, <1>6, HadAfter, EditorAfter
<1>8. LocksTell'
  <2>1. WaitDocs' = WaitDocs \ {i} /\ WantDocs' = WantDocs \ {i}
    BY <1>6, WhoAfter
  <2>2. Queue(docsLock, WantDocs, WaitDocs)'
    BY <1>1, <1>2, <1>3, <2>1, QueueLeft DEF LocksTell
  <2>3. CASE tasks'[i].at = "end" /\ symbolsLock' = symbolsLock
    <3>1. WaitSymbols' = WaitSymbols \ {i} /\ WantSymbols' = WantSymbols \ {i}
      BY <1>6, <2>3, WhoAfter
    <3>2. WaitSymbols' = WaitSymbols /\ WantSymbols' = WantSymbols
      BY <1>3, <3>1
    <3>. QED
      BY <1>1, <2>2, <2>3, <3>2 DEF LocksTell
  <2>4. CASE tasks'[i].at = "symbols" /\ symbolsLock' = Append(symbolsLock, i)
    <3>1. WaitSymbols' = WaitSymbols \cup {i} /\ WantSymbols' = WantSymbols \cup {i}
      BY <1>6, <2>4, WhoAfter
    <3>2. Queue(Append(symbolsLock, i), WantSymbols \cup {i}, WaitSymbols \cup {i})
      BY <1>1, <1>3, <1>4, QueueJoined DEF LocksTell
    <3>. QED
      BY <2>2, <2>4, <3>1, <3>2 DEF LocksTell
  <2>. QED
    BY <1>6, <2>3, <2>4
<1>9. TasksTell'
  <2>1. TaskTells(i)'
    BY <1>1, <1>2, <1>3, <1>6 DEF TaskTells, TasksTell
  <2>. QED
    BY <1>1, <1>6, <2>1, TellsAfter
<1>10. WaitInOrder'
  BY <1>1, <1>2, <1>3, <1>7, WaitLeft
<1>11. Types'
  <2>1. /\ shown' \in [Uris -> Document] /\ symbols' \in [Uris -> Nat]
        /\ documents' \in [Uris -> Document]
    BY <1>1, <1>2 DEF Types
  <2>. QED
    BY <1>1, <1>6, <1>8, <2>1, TypesAfter
<1>12. VersionsMatch'
  BY <1>1, <1>2 DEF VersionsMatch
<1>. QED
  BY <1>7, <1>8, <1>9, <1>10, <1>11, <1>12 DEF ServerInv

-----------------------------------------------------------------------------
(* log_message is through: one lemma for each kind of handler that logs.   *)
LEMMA LogsIs ==
    ASSUME Types, LocksTell, TasksTell, NEW i, Logged(i)
    PROVE  /\ i \in 1..Len(tasks) /\ i \in DOMAIN tasks /\ i \in Nat /\ tasks[i].at = "logs"
           /\ i \notin WaitDocs /\ i \notin WaitSymbols /\ i \notin WantSymbols
           /\ i \in WantDocs <=> msgs[i].kind \in {"open", "close"}
           /\ i \in WantDocs => docsLock # <<>> /\ docsLock[1] = i
           /\ msgs[i].kind \in {"open", "close", "change", "save"}
           /\ msgs[i].kind \in {"open", "change"} => tasks[i].content = msgs[i].version
<1>1. i \in 1..Len(tasks) /\ tasks[i].at = "logs" /\ TaskTells(i)
  BY DEF Logged, At, Types, TasksTell
<1>2. msgs[i] \in Message /\ i \in DOMAIN tasks
  BY <1>1, TaskType
<1>3. /\ i \notin WaitDocs /\ i \notin WaitSymbols /\ i \notin WantSymbols
      /\ i \in WantDocs <=> msgs[i].kind \in {"open", "close"}
  BY <1>1, WhoNow
<1>4. i \in WantDocs => docsLock # <<>> /\ docsLock[1] = i
  BY <1>3, FirstIs DEF LocksTell
<1>. QED
  BY <1>1, <1>2, <1>3, <1>4 DEF TaskTells, Message, Kinds, Editing

LEMMA LoggedKeeps ==
    ASSUME ServerInv, NEW i, Logged(i)
    PROVE  ServerInv'
<1>1. /\ Types /\ LocksTell /\ TasksTell /\ HadInOrder /\ WaitInOrder /\ DocumentsTell /\ EditorTells
      /\ VersionsMatch
  BY DEF ServerInv
<1>2. /\ i \in 1..Len(tasks) /\ i \in DOMAIN tasks /\ i \in Nat /\ tasks[i].at = "logs"
      /\ i \notin WaitDocs /\ i \notin WaitSymbols /\ i \notin WantSymbols
      /\ i \in WantDocs <=> msgs[i].kind \in {"open", "close"}
      /\ i \in WantDocs => docsLock # <<>> /\ docsLock[1] = i
      /\ msgs[i].kind \in {"open", "close", "change", "save"}
      /\ msgs[i].kind \in {"open", "change"} => tasks[i].content = msgs[i].version
  BY <1>1, LogsIs
<1>3. UNCHANGED <<editor, fresh, msgs, documents, symbols, shown>>
  BY DEF Logged
<1>4. /\ msgs[i].kind = "close" => /\ docsLock' = Tail(docsLock) /\ symbolsLock' = symbolsLock
                                   /\ Moves(i, "end")
      /\ msgs[i].kind = "open" => /\ docsLock' = Tail(docsLock) /\ symbolsLock' = Append(symbolsLock, i)
                                  /\ Moves(i, "symbols")
      /\ msgs[i].kind = "change" => /\ docsLock' = docsLock /\ symbolsLock' = Append(symbolsLock, i)
                                    /\ Moves(i, "symbols")
      /\ msgs[i].kind = "save" => /\ docsLock' = Append(docsLock, i) /\ symbolsLock' = symbolsLock
                                  /\ Moves(i, "documents")
  BY DEF Logged
<1>5. "end" \in Places /\ "symbols" \in Places /\ "documents" \in Places
  BY DEF Places
<1>6. /\ Steps(i) /\ tasks'[i].content = tasks[i].content /\ tasks'[i].left = tasks[i].left
      /\ msgs[i].kind = "close" => tasks'[i].at = "end"
      /\ msgs[i].kind \in {"open", "change"} => tasks'[i].at = "symbols"
      /\ msgs[i].kind = "save" => tasks'[i].at = "documents"
  BY <1>1, <1>2, <1>3, <1>4, <1>5, MoveSteps
<1>7. i \in EditIds => msgs[i].kind # "save"
  BY DEF EditIds, Editing
<1>8. HadInOrder' /\ DocumentsTell' /\ EditorTells' /\ EditIds' = EditIds
  <2>1. /\ i \in EditIds => (tasks[i].at = "documents" <=> tasks'[i].at = "documents")
        /\ tasks'[i].at \in Places
    BY <1>2, <1>5, <1>6, <1>7
  <2>. QED
    BY <1>1, <1>3, <1>6, <2>1, HadAfter, EditorAfter
<1>9. LocksTell' /\ WaitInOrder'
  <2>1. CASE msgs[i].kind = "close"
    <3>1. /\ WaitDocs' = WaitDocs \ {i} /\ WantDocs' = WantDocs \ {i}
          /\ WaitSymbols' = WaitSymbols \ {i} /\ WantSymbols' = WantSymbols \ {i}
      BY <1>6, <2>1, WhoAfter
    <3>2. WaitSymbols' = WaitSymbols /\ WantSymbols' = WantSymbols
      BY <1>2, <3>1
    <3>3. docsLock # <<>> /\ docsLock[1] = i
      BY <1>2, <2>1
    <3>4. Queue(Tail(docsLock), WantDocs \ {i}, WaitDocs \ {i})
      BY <1>1, <3>3, QueueLeft DEF LocksTell
    <3>. QED
      BY <1>1, <1>4, <1>8, <2>1, <3>1, <3>2, <3>3, <3>4, WaitLeft DEF LocksTell
  <2>2. CASE msgs[i].kind = "open"
    <3>1. /\ WaitDocs' = WaitDocs \ {i} /\ WantDocs' = WantDocs \ {i}
          /\ WaitSymbols' = WaitSymbols \cup {i} /\ WantSymbols' = WantSymbols \cup {i}
      BY <1>6, <2>2, WhoAfter
    <3>2. Queue(Append(symbolsLock, i), WantSymbols \cup {i}, WaitSymbols \cup {i})
      BY <1>1, <1>2, QueueJoined DEF LocksTell
    <3>3. docsLock # <<>> /\ docsLock[1] = i
      BY <1>2, <2>2
    <3>4. Queue(Tail(docsLock), WantDocs \ {i}, WaitDocs \ {i})
      BY <1>1, <3>3, QueueLeft DEF LocksTell
    <3>. QED
      BY <1>1, <1>4, <1>8, <2>2, <3>1, <3>2, <3>3, <3>4, WaitLeft DEF LocksTell
  <2>3. CASE msgs[i].kind = "change"
    <3>1. /\ WaitDocs' = WaitDocs \ {i} /\ WantDocs' = WantDocs \ {i}
          /\ WaitSymbols' = WaitSymbols \cup {i} /\ WantSymbols' = WantSymbols \cup {i}
      BY <1>6, <2>3, WhoAfter
    <3>2. Queue(Append(symbolsLock, i), WantSymbols \cup {i}, WaitSymbols \cup {i})
      BY <1>1, <1>2, QueueJoined DEF LocksTell
    <3>3. WaitDocs' = WaitDocs /\ WantDocs' = WantDocs
      BY <1>2, <2>3, <3>1
    <3>. QED
      BY <1>1, <1>4, <1>8, <2>3, <3>1, <3>2, <3>3, WaitStays DEF LocksTell
  <2>4. CASE msgs[i].kind = "save"
    <3>1. /\ WaitDocs' = WaitDocs \cup {i} /\ WantDocs' = WantDocs \cup {i}
          /\ WaitSymbols' = WaitSymbols \ {i} /\ WantSymbols' = WantSymbols \ {i}
      BY <1>6, <2>4, WhoAfter
    <3>2. WaitSymbols' = WaitSymbols /\ WantSymbols' = WantSymbols
      BY <1>2, <3>1
    <3>3. Queue(Append(docsLock, i), WantDocs \cup {i}, WaitDocs \cup {i})
      BY <1>1, <1>2, <2>4, QueueJoined DEF LocksTell
    <3>4. WaitInOrder'
      BY <1>1, <1>2, <1>4, <1>7, <1>8, <2>4, WaitJoined
    <3>. QED
      BY <1>1, <1>4, <2>4, <3>1, <3>2, <3>3, <3>4 DEF LocksTell
  <2>. QED
    BY <1>2, <2>1, <2>2, <2>3, <2>4
<1>10. TasksTell'
  <2>1. TaskTells(i)'
    BY <1>1, <1>2, <1>3, <1>6 DEF TaskTells, TasksTell
  <2>. QED
    BY <1>1, <1>6, <2>1, TellsAfter
<1>11. Types'
  <2>1. /\ shown' \in [Uris -> Document] /\ symbols' \in [Uris -> Nat]
        /\ documents' \in [Uris -> Document]
    BY <1>1, <1>3 DEF Types
  <2>. QED
    BY <1>1, <1>6, <1>9, <2>1, TypesAfter
<1>12. VersionsMatch'
  BY <1>1, <1>3 DEF VersionsMatch
<1>. QED
  BY <1>8, <1>9, <1>10, <1>11, <1>12 DEF ServerInv

-----------------------------------------------------------------------------
(* The steps of a handler that leaves the documents alone.                 *)
LEMMA DocsAlone ==
    ASSUME Types, LocksTell, NEW i, Steps(i), tasks[i].at \notin {"documents", "logs"},
           tasks'[i].at \notin {"documents", "logs"}, tasks'[i].at \in Places,
           HadInOrder, WaitInOrder, DocumentsTell, EditorTells,
           UNCHANGED <<documents, docsLock>>
    PROVE  /\ WaitDocs' = WaitDocs /\ WantDocs' = WantDocs /\ EditIds' = EditIds
           /\ HadInOrder' /\ WaitInOrder' /\ DocumentsTell' /\ EditorTells'
<1>1. i \in 1..Len(tasks) /\ msgs' = msgs /\ editor' = editor
  BY DEF Steps
<1>2. WaitDocs' = WaitDocs \ {i} /\ WantDocs' = WantDocs \ {i}
  BY WhoAfter
<1>3. i \notin WaitDocs /\ i \notin WantDocs
  BY <1>1, WhoNow
<1>4. HadInOrder' /\ DocumentsTell' /\ EditorTells' /\ EditIds' = EditIds
  BY <1>1, HadAfter, EditorAfter
<1>5. WaitInOrder'
  BY <1>4, WaitStays
<1>. QED
  BY <1>2, <1>3, <1>4, <1>5

LEMMA IndexesKeeps ==
    ASSUME ServerInv, NEW i, Indexes(i)
    PROVE  ServerInv'
<1>1. /\ Types /\ LocksTell /\ TasksTell /\ HadInOrder /\ WaitInOrder /\ DocumentsTell /\ EditorTells
      /\ VersionsMatch
  BY DEF ServerInv
<1>2. /\ At(i, "symbols") /\ symbolsLock[1] = i /\ msgs[i].kind # "query" /\ Moves(i, "published")
      /\ symbols' = [symbols EXCEPT ![msgs[i].uri] = tasks[i].content]
      /\ Publishes(msgs[i].uri, msgs[i].version, tasks[i].content)
      /\ UNCHANGED <<editor, fresh, msgs, documents, docsLock, symbolsLock>>
  BY DEF Indexes
<1>3. i \in 1..Len(tasks) /\ tasks[i].at = "symbols" /\ TaskTells(i)
  <2>1. i \in DOMAIN tasks /\ tasks[i].at = "symbols"
    BY <1>2 DEF At
  <2>2. tasks \in Seq(Task)
    BY <1>1 DEF Types
  <2>3. i \in 1..Len(tasks)
    BY <2>1, <2>2
  <2>. QED
    BY <1>1, <2>1, <2>3 DEF TasksTell
<1>4. i \in DOMAIN tasks /\ msgs[i] \in Message /\ tasks[i] \in Task
  BY <1>1, <1>3, TaskType
<1>5. msgs[i].kind \in {"open", "change"} /\ tasks[i].content = msgs[i].version
  BY <1>2, <1>3 DEF TaskTells
<1>6. "published" \in Places
  BY DEF Places
<1>7. /\ Steps(i) /\ tasks'[i].at = "published"
      /\ tasks'[i].content = tasks[i].content /\ tasks'[i].left = tasks[i].left
  BY <1>1, <1>2, <1>4, <1>6, MoveSteps
<1>8. /\ WaitDocs' = WaitDocs /\ WantDocs' = WantDocs
      /\ HadInOrder' /\ WaitInOrder' /\ DocumentsTell' /\ EditorTells'
  BY <1>1, <1>2, <1>3, <1>6, <1>7, DocsAlone
<1>9. LocksTell'
  <2>1. WaitSymbols' = WaitSymbols \ {i} /\ WantSymbols' = WantSymbols \cup {i}
    BY <1>7, WhoAfter
  <2>2. i \in WantSymbols
    BY <1>3, WhoNow
  <2>3. WantSymbols' = WantSymbols
    BY <2>1, <2>2
  <2>4. Queue(symbolsLock, WantSymbols, WaitSymbols \ {i})
    BY <1>1, <1>2, QueueStays DEF LocksTell
  <2>. QED
    BY <1>1, <1>2, <1>8, <2>1, <2>3, <2>4 DEF LocksTell
<1>10. TasksTell'
  <2>1. TaskTells(i)'
    BY <1>2, <1>3, <1>5, <1>7 DEF TaskTells
  <2>. QED
    BY <1>1, <1>7, <2>1, TellsAfter
<1>11. msgs[i].uri \in Uris /\ msgs[i].version \in Nat
  BY <1>4 DEF Message
<1>12. shown' = [shown EXCEPT ![msgs[i].uri] =
                     [version |-> msgs[i].version, content |-> msgs[i].version]]
  BY <1>2, <1>5 DEF Publishes
<1>13. Types'
  <2>1. /\ shown' \in [Uris -> Document] /\ symbols' \in [Uris -> Nat]
        /\ documents' \in [Uris -> Document]
    BY <1>1, <1>2, <1>5, <1>11, <1>12 DEF Types, Document
  <2>. QED
    BY <1>1, <1>7, <1>9, <2>1, TypesAfter
<1>14. VersionsMatch'
  BY <1>1, <1>11, <1>12 DEF VersionsMatch, Types
<1>. QED
  BY <1>8, <1>9, <1>10, <1>13, <1>14 DEF ServerInv

LEMMA LeavesSymbolsKeeps ==
    ASSUME ServerInv, NEW i, Answers(i) \/ Published(i)
    PROVE  ServerInv'
<1>1. /\ Types /\ LocksTell /\ TasksTell /\ HadInOrder /\ WaitInOrder /\ DocumentsTell /\ EditorTells
      /\ VersionsMatch
  BY DEF ServerInv
<1>2. /\ i \in DOMAIN tasks /\ tasks[i].at \in {"symbols", "published"}
      /\ tasks[i].at = "symbols" => symbolsLock[1] = i
      /\ symbolsLock' = Tail(symbolsLock) /\ Moves(i, "end")
      /\ UNCHANGED <<editor, fresh, msgs, documents, symbols, docsLock, shown>>
  BY DEF Answers, Published, At
<1>3. i \in 1..Len(tasks) /\ i \in WantSymbols /\ (tasks[i].at = "published" => i \notin WaitSymbols)
  <2>1. i \in 1..Len(tasks)
    BY <1>1, <1>2 DEF Types
  <2>. QED
    BY <1>2, <2>1, WhoNow
<1>4. symbolsLock # <<>> /\ symbolsLock[1] = i
  BY <1>1, <1>2, <1>3, FirstIs DEF LocksTell
<1>5. "end" \in Places
  BY DEF Places
<1>6. /\ Steps(i) /\ tasks'[i].at = "end"
      /\ tasks'[i].content = tasks[i].content /\ tasks'[i].left = tasks[i].left
  BY <1>1, <1>2, <1>5, MoveSteps
<1>7. /\ WaitDocs' = WaitDocs /\ WantDocs' = WantDocs
      /\ HadInOrder' /\ WaitInOrder' /\ DocumentsTell' /\ EditorTells'
  BY <1>1, <1>2, <1>5, <1>6, DocsAlone
<1>8. LocksTell'
  <2>1. WaitSymbols' = WaitSymbols \ {i} /\ WantSymbols' = WantSymbols \ {i}
    BY <1>6, WhoAfter
  <2>2. Queue(Tail(symbolsLock), WantSymbols \ {i}, WaitSymbols \ {i})
    BY <1>1, <1>4, QueueLeft DEF LocksTell
  <2>. QED
    BY <1>1, <1>2, <1>7, <2>1, <2>2 DEF LocksTell
<1>9. TasksTell'
  <2>1. TaskTells(i)'
    BY <1>1, <1>2, <1>3, <1>6 DEF TaskTells, TasksTell
  <2>. QED
    BY <1>1, <1>6, <2>1, TellsAfter
<1>10. Types'
  <2>1. /\ shown' \in [Uris -> Document] /\ symbols' \in [Uris -> Nat]
        /\ documents' \in [Uris -> Document]
    BY <1>1, <1>2 DEF Types
  <2>. QED
    BY <1>1, <1>6, <1>8, <2>1, TypesAfter
<1>11. VersionsMatch'
  BY <1>1, <1>2 DEF VersionsMatch
<1>. QED
  BY <1>7, <1>8, <1>9, <1>10, <1>11 DEF ServerInv

LEMMA PublishesNextKeeps ==
    ASSUME ServerInv, NEW i, PublishesNext(i)
    PROVE  ServerInv'
<1>1. /\ Types /\ LocksTell /\ TasksTell /\ HadInOrder /\ WaitInOrder /\ DocumentsTell /\ EditorTells
      /\ VersionsMatch
  BY DEF ServerInv
<1>2. /\ i \in DOMAIN tasks /\ tasks[i].at = "publishes"
      /\ UNCHANGED <<editor, fresh, msgs, documents, symbols, docsLock, symbolsLock>>
  BY DEF PublishesNext, At
<1>3. i \in 1..Len(tasks) /\ TaskTells(i) /\ tasks[i] \in Task /\ tasks[i].left \subseteq Uris \X Document
  <2>1. i \in 1..Len(tasks)
    BY <1>1, <1>2 DEF Types
  <2>2. tasks[i] \in Task
    BY <1>1, <2>1, TaskType
  <2>. QED
    BY <1>1, <2>1, <2>2 DEF TasksTell, Task
<1>4. "end" \in Places /\ "publishes" \in Places
  BY DEF Places
<1>5. /\ Steps(i) /\ tasks'[i].at \in {"end", "publishes"}
      /\ tasks'[i].content = tasks[i].content /\ tasks'[i].left \subseteq tasks[i].left
      /\ shown' \in [Uris -> Document] /\ VersionsMatch'
  <2>1. CASE tasks[i].left = {}
    <3>1. Moves(i, "end") /\ shown' = shown
      BY <2>1 DEF PublishesNext
    <3>2. /\ Steps(i) /\ tasks'[i].at = "end"
          /\ tasks'[i].content = tasks[i].content /\ tasks'[i].left = tasks[i].left
      BY <1>1, <1>2, <1>4, <3>1, MoveSteps
    <3>. QED
      BY <1>1, <3>1, <3>2 DEF Types, VersionsMatch
  <2>2. CASE tasks[i].left # {}
    <3>1. PICK d \in tasks[i].left :
              /\ Publishes(d[1], d[2].version, d[2].content)
              /\ tasks' = [tasks EXCEPT ![i].left = @ \ {d}]
      BY <2>2 DEF PublishesNext
    <3>2. /\ d[1] \in Uris /\ d[2].version \in Nat /\ d[2].content \in Nat
          /\ d[2].version = d[2].content
      BY <1>3 DEF TaskTells, Document
    <3>3. PICK t : t = [tasks[i] EXCEPT !.left = @ \ {d}]
      OBVIOUS
    <3>4. /\ t \in Task /\ t.at = "publishes" /\ t.content = tasks[i].content
          /\ t.left = tasks[i].left \ {d}
      BY <1>1, <1>2, <1>3, <3>3, TaskType DEF Task
    <3>5. tasks' = [tasks EXCEPT ![i] = t]
      BY <3>1, <3>3
    <3>6. /\ tasks' \in Seq(Task) /\ Len(tasks') = Len(tasks) /\ tasks'[i] = t
          /\ \A j \in 1..Len(tasks) : j # i => tasks'[j] = tasks[j]
      BY <1>1, <1>3, <3>4, <3>5, TaskChanges DEF Types
    <3>7. Steps(i) /\ tasks'[i].left \subseteq tasks[i].left
      BY <1>2, <1>3, <3>4, <3>6 DEF Steps
    <3>8. shown' \in [Uris -> Document] /\ VersionsMatch'
      BY <1>1, <3>1, <3>2 DEF Publishes, Types, Document, VersionsMatch
    <3>. QED
      BY <3>4, <3>6, <3>7, <3>8
  <2>. QED
    BY <2>1, <2>2
<1>6. /\ WaitDocs' = WaitDocs /\ WantDocs' = WantDocs
      /\ HadInOrder' /\ WaitInOrder' /\ DocumentsTell' /\ EditorTells'
  BY <1>1, <1>2, <1>4, <1>5, DocsAlone
<1>7. LocksTell'
  <2>1. WaitSymbols' = WaitSymbols \ {i} /\ WantSymbols' = WantSymbols \ {i}
    BY <1>5, WhoAfter
  <2>2. i \notin WaitSymbols /\ i \notin WantSymbols
    BY <1>2, <1>3, WhoNow
  <2>3. WaitSymbols' = WaitSymbols /\ WantSymbols' = WantSymbols
    BY <2>1, <2>2
  <2>. QED
    BY <1>1, <1>2, <1>6, <2>3 DEF LocksTell
<1>8. TasksTell'
  <2>1. TaskTells(i)'
    BY <1>2, <1>3, <1>5 DEF TaskTells
  <2>. QED
    BY <1>1, <1>5, <2>1, TellsAfter
<1>9. Types'
  <2>1. symbols' \in [Uris -> Nat] /\ documents' \in [Uris -> Document]
    BY <1>1, <1>2 DEF Types
  <2>. QED
    BY <1>1, <1>5, <1>7, <2>1, TypesAfter
<1>. QED
  BY <1>5, <1>6, <1>7, <1>8, <1>9 DEF ServerInv

-----------------------------------------------------------------------------
(* The editor sends a message, which no handler has taken yet.             *)
LEMMA MessagesAfter ==
    ASSUME NEW m, msgs \in Seq(Message), msgs' = Append(msgs, m), m \in Message
    PROVE  /\ msgs' \in Seq(Message) /\ Len(msgs) \in Nat /\ Len(msgs') = Len(msgs) + 1
           /\ \A i \in 1..Len(msgs) : msgs'[i] = msgs[i] /\ i \in 1..Len(msgs') /\ i < Len(msgs')
           /\ msgs'[Len(msgs')] = m /\ Len(msgs') \in 1..Len(msgs')
           /\ \A i \in 1..Len(msgs') : i \in 1..Len(msgs) \/ i = Len(msgs')
<1>1. /\ Append(msgs, m) \in Seq(Message) /\ Len(msgs) \in Nat /\ Len(Append(msgs, m)) = Len(msgs) + 1
      /\ Append(msgs, m)[Len(msgs) + 1] = m
      /\ \A i \in 1..Len(msgs) : Append(msgs, m)[i] = msgs[i]
  BY AppendIs
<1>. QED
  BY <1>1

(* What it sends: it changes and closes only what it has open.             *)
LEMMA EditsIs ==
    ASSUME Types, Edits
    PROVE  \E u \in Uris, m \in Message :
               /\ m.uri = u /\ msgs' = Append(msgs, m)
               /\ editor' \in [Uris -> Nat] /\ fresh' \in Nat
               /\ \A x \in Uris : x # u => editor'[x] = editor[x]
               /\ IF m.kind \in Editing THEN editor'[u] = m.version ELSE editor'[u] = editor[u]
               /\ m.kind = "close" => m.version = 0
               /\ m.kind = "change" => editor[u] # 0
<1>1. editor \in [Uris -> Nat] /\ fresh \in Nat
  BY DEF Types
<1>2. PICK u \in Uris :
         \/ /\ fresh' = fresh + 1 /\ editor' = [editor EXCEPT ![u] = fresh']
            /\ Sends(IF editor[u] = 0 THEN "open" ELSE "change", u, fresh')
         \/ /\ editor[u] # 0 /\ editor' = [editor EXCEPT ![u] = 0]
            /\ Sends("close", u, 0) /\ UNCHANGED fresh
         \/ \E kind \in {"save", "query"} :
              editor[u] # 0 /\ Sends(kind, u, 0) /\ UNCHANGED <<editor, fresh>>
  BY DEF Edits
<1>3. CASE /\ fresh' = fresh + 1 /\ editor' = [editor EXCEPT ![u] = fresh']
           /\ Sends(IF editor[u] = 0 THEN "open" ELSE "change", u, fresh')
  <2>1. PICK kind : kind = IF editor[u] = 0 THEN "open" ELSE "change"
    OBVIOUS
  <2>2. PICK m : m = [kind |-> kind, uri |-> u, version |-> fresh']
    OBVIOUS
  <2>3. kind \in {"open", "change"} /\ (kind = "change" => editor[u] # 0)
    BY <2>1
  <2>4. m \in Message
    BY <1>1, <1>3, <2>2, <2>3 DEF Message, Kinds, Editing
  <2>5. /\ m.uri = u /\ msgs' = Append(msgs, m) /\ m.version = fresh' /\ m.kind = kind
        /\ m.kind \in Editing
    BY <1>3, <2>1, <2>2, <2>3 DEF Sends, Editing
  <2>6. /\ editor' \in [Uris -> Nat] /\ fresh' \in Nat /\ editor'[u] = fresh'
        /\ \A x \in Uris : x # u => editor'[x] = editor[x]
    BY <1>1, <1>3
  <2>. QED
    BY <2>3, <2>4, <2>5, <2>6
<1>4. CASE /\ editor[u] # 0 /\ editor' = [editor EXCEPT ![u] = 0]
           /\ Sends("close", u, 0) /\ UNCHANGED fresh
  <2>1. PICK m : m = [kind |-> "close", uri |-> u, version |-> 0]
    OBVIOUS
  <2>2. m \in Message /\ m.kind \in Editing
    BY <2>1 DEF Message, Kinds, Editing
  <2>3. m.uri = u /\ msgs' = Append(msgs, m) /\ m.version = 0 /\ m.kind = "close"
    BY <1>4, <2>1 DEF Sends
  <2>4. /\ editor' \in [Uris -> Nat] /\ fresh' \in Nat /\ editor'[u] = 0
        /\ \A x \in Uris : x # u => editor'[x] = editor[x]
    BY <1>1, <1>4
  <2>. QED
    BY <2>2, <2>3, <2>4
<1>5. CASE \E kind \in {"save", "query"} :
              editor[u] # 0 /\ Sends(kind, u, 0) /\ UNCHANGED <<editor, fresh>>
  <2>1. PICK kind \in {"save", "query"} : Sends(kind, u, 0) /\ UNCHANGED <<editor, fresh>>
    BY <1>5
  <2>2. PICK m : m = [kind |-> kind, uri |-> u, version |-> 0]
    OBVIOUS
  <2>3. m \in Message /\ m.kind \notin Editing /\ m.kind \in {"save", "query"}
    BY <2>2 DEF Message, Kinds, Editing
  <2>4. m.uri = u /\ msgs' = Append(msgs, m)
    BY <2>1, <2>2 DEF Sends
  <2>. QED
    BY <1>1, <2>1, <2>3, <2>4
<1>. QED
  BY <1>2, <1>3, <1>4, <1>5

LEMMA EditsKeeps ==
    ASSUME ServerInv, Edits
    PROVE  ServerInv'
<1>1. /\ Types /\ LocksTell /\ TasksTell /\ HadInOrder /\ WaitInOrder /\ DocumentsTell /\ EditorTells
      /\ VersionsMatch
  BY DEF ServerInv
<1>2. PICK u \in Uris, m \in Message :
               /\ m.uri = u /\ msgs' = Append(msgs, m)
               /\ editor' \in [Uris -> Nat] /\ fresh' \in Nat
               /\ \A x \in Uris : x # u => editor'[x] = editor[x]
               /\ IF m.kind \in Editing THEN editor'[u] = m.version ELSE editor'[u] = editor[u]
               /\ m.kind = "close" => m.version = 0
               /\ m.kind = "change" => editor[u] # 0
  BY <1>1, EditsIs
<1>3. UNCHANGED <<tasks, documents, symbols, docsLock, symbolsLock, shown>>
  BY DEF Edits
<1>4. PICK k : k = Len(msgs')
  OBVIOUS
<1>5. /\ msgs' \in Seq(Message) /\ Len(msgs) \in Nat /\ k = Len(msgs) + 1
      /\ \A i \in 1..Len(msgs) : msgs'[i] = msgs[i] /\ i \in 1..Len(msgs') /\ i < k
      /\ msgs'[k] = m /\ k \in 1..Len(msgs')
      /\ \A i \in 1..Len(msgs') : i \in 1..Len(msgs) \/ i = k
  <2>1. msgs \in Seq(Message)
    BY <1>1 DEF Types
  <2>. QED
    BY <1>2, <1>4, <2>1, MessagesAfter
<1>6. /\ Len(tasks) \in Nat /\ Len(tasks) <= Len(msgs)
      /\ \A i \in 1..Len(tasks) : i \in 1..Len(msgs) /\ msgs'[i] = msgs[i] /\ i # k
  <2>1. Len(tasks) \in Nat /\ Len(tasks) <= Len(msgs)
    BY <1>1 DEF Types
  <2>2. \A i \in 1..Len(tasks) : i \in 1..Len(msgs)
    BY <1>5, <2>1
  <2>. QED
    BY <1>5, <2>1, <2>2
<1>7. Types'
  BY <1>1, <1>2, <1>3, <1>5, <1>6 DEF Types
<1>8. LocksTell'
  <2>1. WaitDocs' = WaitDocs /\ WaitSymbols' = WaitSymbols /\ WantSymbols' = WantSymbols
    BY <1>3 DEF WaitDocs, WaitSymbols, WantSymbols, In
  <2>2. WantDocs' = WantDocs
    BY <1>3, <1>6, <2>1 DEF WantDocs, In
  <2>. QED
    BY <1>1, <1>3, <2>1, <2>2 DEF LocksTell
<1>9. TasksTell'
  <2>1. ASSUME NEW i \in 1..Len(tasks) PROVE TaskTells(i)'
    BY <1>1, <1>3, <1>6, <2>1 DEF TasksTell, TaskTells
  <2>. QED
    BY <1>3, <2>1 DEF TasksTell
<1>10. HadDocs' = HadDocs /\ HadDocs \subseteq 1..Len(tasks)
  BY <1>3 DEF HadDocs, In
<1>11. EditIds \subseteq EditIds' /\ \A i \in EditIds' : i \in EditIds \/ i = k
  BY <1>5 DEF EditIds
<1>12. HadInOrder'
  <2>1. ASSUME NEW i \in EditIds', NEW j \in EditIds', j < i, i \in HadDocs PROVE j \in HadDocs
    <3>1. i \in EditIds /\ i < k
      BY <1>5, <1>6, <1>10, <1>11, <2>1
    <3>2. j \in EditIds
      <4>1. i \in Nat /\ k \in Nat
        BY <1>5, <3>1 DEF EditIds
      <4>2. j # k
        BY <2>1, <3>1, <4>1
      <4>. QED
        BY <1>11, <4>2
    <3>. QED
      BY <1>1, <2>1, <3>1, <3>2 DEF HadInOrder
  <2>. QED
    BY <1>10, <2>1 DEF HadInOrder
<1>13. WaitInOrder'
  <2>1. \A n \in 1..Len(docsLock) : docsLock[n] # k
    <3>1. WantDocs \subseteq 1..Len(tasks)
      BY DEF WantDocs, WaitDocs, In
    <3>. QED
      BY <1>1, <1>6, <3>1 DEF LocksTell, Queue
  <2>. QED
    BY <1>1, <1>3, <1>11, <2>1 DEF WaitInOrder
<1>14. \A x : /\ Edited(x) \subseteq Edited(x)' /\ \A i \in Edited(x)' : i \in Edited(x) \/ i = k
              /\ Edited(x) \subseteq 1..Len(msgs)
  BY <1>5 DEF Edited
<1>15. DocumentsTell'
  <2>1. ASSUME NEW x \in Uris
        PROVE  /\ documents'[x].content = documents'[x].version
               /\ LastOf(Followed(x), documents[x].version)'
    <3>1. Followed(x)' = Followed(x) /\ \A i \in Followed(x) : msgs'[i] = msgs[i]
      BY <1>6, <1>10, <1>14 DEF Followed
    <3>2. documents' = documents /\ LastOf(Followed(x), documents[x].version)
      BY <1>1, <1>3 DEF DocumentsTell
    <3>3. LastOf(Followed(x), documents[x].version)'
      BY <3>1, <3>2 DEF LastOf
    <3>. QED
      BY <1>1, <3>2, <3>3 DEF DocumentsTell
  <2>. QED
    BY <2>1 DEF DocumentsTell
<1>16. ASSUME NEW x \in Uris PROVE LastOf(Edited(x), editor[x])'
  <2>1. LastOf(Edited(x), editor[x])
    BY <1>1 DEF EditorTells
  <2>2. CASE x = u /\ m.kind \in Editing
    <3>1. k \in Edited(x)' /\ editor'[x] = msgs'[k].version
      BY <1>2, <1>5, <2>2 DEF Edited
    <3>2. \A i \in Edited(x)' : i <= k
      BY <1>5, <1>14
    <3>. QED
      BY <3>1, <3>2 DEF LastOf
  <2>3. CASE ~(x = u /\ m.kind \in Editing)
    <3>1. k \notin Edited(x)' /\ editor'[x] = editor[x]
      BY <1>2, <1>5, <2>3 DEF Edited
    <3>2. Edited(x)' = Edited(x) /\ \A i \in Edited(x) : msgs'[i] = msgs[i]
      BY <1>5, <1>14, <3>1
    <3>. QED
      BY <2>1, <3>1, <3>2 DEF LastOf
  <2>. QED
    BY <2>2, <2>3
<1>17. \A i \in 1..Len(msgs') : msgs'[i].kind = "close" => msgs'[i].version = 0
  BY <1>1, <1>2, <1>5 DEF EditorTells
<1>18. ASSUME NEW i \in 1..Len(msgs'), msgs'[i].kind = "change"
       PROVE  \E j \in Edited(msgs[i].uri)' :
                  /\ j < i /\ msgs'[j].version # 0
                  /\ \A l \in Edited(msgs[i].uri)' : l < i => l <= j
  <2>1. CASE i = k
    <3>1. msgs'[i].uri = u /\ editor[u] # 0
      BY <1>2, <1>5, <1>18, <2>1
    <3>2. LastOf(Edited(u), editor[u])
      BY <1>1 DEF EditorTells
    <3>3. PICK j \in Edited(u) : (\A l \in Edited(u) : l <= j) /\ editor[u] = msgs[j].version
      BY <3>1, <3>2 DEF LastOf
    <3>4. j \in Edited(u)' /\ j < i /\ msgs'[j].version # 0
      BY <1>5, <1>14, <2>1, <3>1, <3>3
    <3>5. ASSUME NEW l \in Edited(u)', l < i PROVE l <= j
      <4>1. l # k
        BY <1>5, <2>1, <3>5
      <4>. QED
        BY <1>14, <3>3, <4>1
    <3>. QED
      BY <3>1, <3>4, <3>5
  <2>2. CASE i # k
    <3>1. i \in 1..Len(msgs) /\ msgs'[i] = msgs[i]
      BY <1>5, <2>2
    <3>2. PICK x : x = msgs[i].uri
      OBVIOUS
    <3>3. PICK j \in Edited(x) : /\ j < i /\ msgs[j].version # 0
                                 /\ \A l \in Edited(x) : l < i => l <= j
      BY <1>1, <1>18, <3>1, <3>2 DEF EditorTells
    <3>4. j \in Edited(x)' /\ msgs'[j].version # 0
      BY <1>5, <1>14, <3>3
    <3>5. ASSUME NEW l \in Edited(x)', l < i PROVE l <= j
      <4>1. l # k
        BY <1>5, <3>1, <3>5
      <4>. QED
        BY <1>14, <3>3, <3>5, <4>1
    <3>. QED
      BY <3>1, <3>2, <3>3, <3>4, <3>5
  <2>. QED
    BY <2>1, <2>2
<1>19. EditorTells'
  BY <1>16, <1>17, <1>18 DEF EditorTells
<1>20. VersionsMatch'
  BY <1>1, <1>3 DEF VersionsMatch
<1>. QED
  BY <1>7, <1>8, <1>9, <1>12, <1>13, <1>15, <1>19, <1>20 DEF ServerInv

-----------------------------------------------------------------------------
(* The handler of the next message starts.                                 *)
LEMMA StartsKeeps ==
    ASSUME ServerInv, Starts
    PROVE  ServerInv'
<1>1. /\ Types /\ LocksTell /\ TasksTell /\ HadInOrder /\ WaitInOrder /\ DocumentsTell /\ EditorTells
      /\ VersionsMatch
  BY DEF ServerInv
<1>2. PICK i : i = Len(tasks) + 1
  OBVIOUS
<1>3. PICK at : at = IF msgs[i].kind = "save" THEN "logs" ELSE "documents"
  OBVIOUS
<1>4. PICK t : t = [at |-> at, content |-> 0, left |-> {}]
  OBVIOUS
<1>5. /\ i <= Len(msgs) /\ tasks' = Append(tasks, t)
      /\ docsLock' = IF at = "documents" THEN Append(docsLock, i) ELSE docsLock
      /\ UNCHANGED <<editor, fresh, msgs, documents, symbols, symbolsLock, shown>>
  BY <1>2, <1>3, <1>4 DEF Starts
<1>6. /\ at \in {"logs", "documents"} /\ (at = "logs" <=> msgs[i].kind = "save")
      /\ at \in Places
  BY <1>3 DEF Places
<1>7. t \in Task /\ t.at = at /\ t.left = {}
  BY <1>4, <1>6 DEF Task
<1>8. tasks \in Seq(Task) /\ Len(msgs) \in Nat /\ docsLock \in Seq(Nat)
  BY <1>1 DEF Types
<1>9. /\ tasks' \in Seq(Task) /\ Len(tasks) \in Nat /\ Len(tasks') = i /\ i \in Nat /\ i \in 1..Len(msgs)
      /\ tasks'[i] = t /\ i \in 1..Len(tasks')
      /\ \A j \in 1..Len(tasks) : j \in 1..Len(tasks') /\ j # i /\ tasks'[j] = tasks[j] /\ j < i
      /\ \A j \in 1..Len(tasks') : j \in 1..Len(tasks) \/ j = i
  <2>1. /\ Append(tasks, t) \in Seq(Task) /\ Len(tasks) \in Nat /\ Len(Append(tasks, t)) = Len(tasks) + 1
        /\ Append(tasks, t)[Len(tasks) + 1] = t
        /\ \A n \in 1..Len(tasks) : Append(tasks, t)[n] = tasks[n]
    BY <1>7, <1>8, AppendIs
  <2>. QED
    BY <1>2, <1>5, <1>8, <2>1
<1>10. /\ WaitSymbols' = WaitSymbols /\ WantSymbols' = WantSymbols
       /\ i \notin WaitDocs /\ i \notin WantDocs
       /\ WantDocs \subseteq 1..Len(tasks)
  <2>1. WaitSymbols' = WaitSymbols /\ WantSymbols' = WantSymbols
    BY <1>6, <1>7, <1>9 DEF WaitSymbols, WantSymbols, In
  <2>2. WantDocs \subseteq 1..Len(tasks) /\ WaitDocs \subseteq WantDocs
    BY DEF WantDocs, WaitDocs, In
  <2>. QED
    BY <1>9, <2>1, <2>2
<1>11. LocksTell'
  <2>1. CASE at = "documents"
    <3>1. WaitDocs' = WaitDocs \cup {i}
      BY <1>7, <1>9, <2>1 DEF WaitDocs, In
    <3>2. WantDocs' = WantDocs \cup {i}
      BY <1>5, <1>7, <1>9, <2>1, <3>1 DEF WantDocs, In
    <3>3. Queue(Append(docsLock, i), WantDocs \cup {i}, WaitDocs \cup {i})
      BY <1>1, <1>9, <1>10, QueueJoined DEF LocksTell
    <3>. QED
      BY <1>1, <1>5, <1>10, <2>1, <3>1, <3>2, <3>3 DEF LocksTell
  <2>2. CASE at = "logs"
    <3>1. WaitDocs' = WaitDocs
      BY <1>7, <1>9, <2>2 DEF WaitDocs, In
    <3>2. WantDocs' = WantDocs
      BY <1>5, <1>6, <1>7, <1>9, <2>2, <3>1 DEF WantDocs, In
    <3>. QED
      BY <1>1, <1>5, <1>10, <2>2, <3>1, <3>2 DEF LocksTell
  <2>. QED
    BY <1>6, <2>1, <2>2
<1>12. Types'
  <2>1. docsLock' \in Seq(Nat)
    BY <1>11 DEF LocksTell, Queue
  <2>. QED
    BY <1>1, <1>5, <1>9, <2>1 DEF Types
<1>13. TasksTell'
  <2>1. ASSUME NEW j \in 1..Len(tasks') PROVE TaskTells(j)'
    <3>1. CASE j = i
      BY <1>5, <1>6, <1>7, <1>9, <3>1 DEF TaskTells
    <3>2. CASE j # i
      BY <1>1, <1>5, <1>9, <3>2 DEF TasksTell, TaskTells
    <3>. QED
      BY <3>1, <3>2
  <2>. QED
    BY <2>1 DEF TasksTell
<1>14. EditIds' = EditIds /\ EditorTells'
  BY <1>1, <1>5, EditorAfter
<1>15. i \in EditIds => at = "documents"
  BY <1>6 DEF EditIds, Editing
<1>16. \A j \in EditIds : j \in HadDocs' <=> j \in HadDocs
  <2>1. ASSUME NEW j \in EditIds PROVE j \in HadDocs' <=> j \in HadDocs
    <3>1. CASE j = i
      BY <1>7, <1>9, <1>15, <3>1 DEF HadDocs, In
    <3>2. CASE j # i
      BY <1>9, <3>2 DEF HadDocs, In
    <3>. QED
      BY <3>1, <3>2
  <2>. QED
    BY <2>1
<1>17. HadInOrder'
  BY <1>1, <1>14, <1>16 DEF HadInOrder
<1>18. WaitInOrder'
  <2>1. \A n \in 1..Len(docsLock) : docsLock[n] < i
    BY <1>1, <1>9, <1>10 DEF LocksTell, Queue
  <2>2. CASE at = "documents"
    BY <1>1, <1>5, <1>9, <1>14, <2>1, <2>2, WaitJoined
  <2>3. CASE at # "documents"
    BY <1>1, <1>5, <1>14, <2>3, WaitStays
  <2>. QED
    BY <2>2, <2>3
<1>19. DocumentsTell'
  <2>1. \A u : Edited(u)' = Edited(u) /\ Edited(u) \subseteq EditIds
    BY <1>5 DEF Edited, EditIds
  <2>2. \A u : Followed(u)' = Followed(u)
    BY <1>16, <2>1 DEF Followed
  <2>. QED
    BY <1>1, <1>5, <2>2 DEF DocumentsTell, LastOf
<1>20. VersionsMatch'
  BY <1>1, <1>5 DEF VersionsMatch
<1>. QED
  BY <1>11, <1>12, <1>13, <1>14, <1>17, <1>18, <1>19, <1>20 DEF ServerInv

-----------------------------------------------------------------------------
LEMMA ServerStarts == ServerInit => ServerInv
<1>. SUFFICES ASSUME ServerInit PROVE ServerInv
  OBVIOUS
<1>1. /\ editor = [u \in Uris |-> 0] /\ fresh = 0 /\ msgs = <<>> /\ tasks = <<>>
      /\ documents = [u \in Uris |-> [version |-> 0, content |-> 0]]
      /\ symbols = [u \in Uris |-> 0] /\ docsLock = <<>> /\ symbolsLock = <<>>
      /\ shown = [u \in Uris |-> [version |-> 0, content |-> 0]]
  BY DEF ServerInit, Nothing
<1>2. Types
  BY <1>1 DEF Types, Document
<1>3. 1..Len(msgs) = {} /\ 1..Len(tasks) = {} /\ 1..Len(docsLock) = {} /\ 1..Len(symbolsLock) = {}
  BY <1>1
<1>4. LocksTell
  BY <1>1, <1>3 DEF LocksTell, Queue, WaitDocs, WantDocs, WaitSymbols, WantSymbols, In
<1>5. TasksTell /\ WaitInOrder
  BY <1>3 DEF TasksTell, WaitInOrder
<1>6. EditIds = {} /\ \A u : Edited(u) = {} /\ Followed(u) = {}
  BY <1>3 DEF EditIds, Edited, Followed
<1>7. HadInOrder
  BY <1>6 DEF HadInOrder
<1>8. DocumentsTell /\ VersionsMatch
  BY <1>1, <1>6 DEF DocumentsTell, LastOf, VersionsMatch
<1>9. EditorTells
  BY <1>1, <1>3, <1>6 DEF EditorTells, LastOf
<1>. QED
  BY <1>2, <1>4, <1>5, <1>7, <1>8, <1>9 DEF ServerInv

LEMMA ServerStays == ServerInv /\ [ServerNext]_serverVars => ServerInv'
<1>. SUFFICES ASSUME ServerInv, [ServerNext]_serverVars PROVE ServerInv'
  OBVIOUS
<1>1. CASE Edits
  BY <1>1, EditsKeeps
<1>2. CASE Starts
  BY <1>2, StartsKeeps
<1>3. ASSUME NEW i \in DOMAIN tasks, Proceeds(i) PROVE ServerInv'
  <2>1. CASE Opens(i)
    BY <2>1, OpensKeeps
  <2>2. CASE Changes(i)
    BY <2>2, ChangesKeeps
  <2>3. CASE Closes(i)
    BY <2>3, ClosesKeeps
  <2>4. CASE Saves(i)
    BY <2>4, SavesKeeps
  <2>5. CASE Asks(i)
    BY <2>5, AsksKeeps
  <2>6. CASE Logged(i)
    BY <2>6, LoggedKeeps
  <2>7. CASE Indexes(i)
    BY <2>7, IndexesKeeps
  <2>8. CASE Answers(i) \/ Published(i)
    BY <2>8, LeavesSymbolsKeeps
  <2>9. CASE PublishesNext(i)
    BY <2>9, PublishesNextKeeps
  <2>. QED
    BY <1>3, <2>1, <2>2, <2>3, <2>4, <2>5, <2>6, <2>7, <2>8, <2>9 DEF Proceeds
<1>4. CASE UNCHANGED serverVars
  <2>1. /\ editor' = editor /\ fresh' = fresh /\ msgs' = msgs /\ tasks' = tasks
        /\ documents' = documents /\ symbols' = symbols
        /\ docsLock' = docsLock /\ symbolsLock' = symbolsLock /\ shown' = shown
    BY <1>4 DEF serverVars
  <2>2. /\ WaitDocs' = WaitDocs /\ WantDocs' = WantDocs /\ HadDocs' = HadDocs
        /\ WaitSymbols' = WaitSymbols /\ WantSymbols' = WantSymbols
        /\ EditIds' = EditIds /\ \A u : Edited(u)' = Edited(u)
    BY <2>1 DEF WaitDocs, WantDocs, HadDocs, WaitSymbols, WantSymbols, In, EditIds, Edited
  <2>3. \A u : Followed(u)' = Followed(u)
    BY <2>2 DEF Followed
  <2>4. Types' /\ LocksTell' /\ VersionsMatch'
    BY <2>1, <2>2 DEF ServerInv, Types, LocksTell, VersionsMatch
  <2>5. TasksTell'
    BY <2>1 DEF ServerInv, TasksTell, TaskTells
  <2>6. HadInOrder' /\ WaitInOrder'
    BY <2>1, <2>2 DEF ServerInv, HadInOrder, WaitInOrder
  <2>7. DocumentsTell'
    BY <2>1, <2>3 DEF ServerInv, DocumentsTell, LastOf
  <2>8. EditorTells'
    BY <2>1, EditorAfter DEF ServerInv
  <2>. QED
    BY <2>4, <2>5, <2>6, <2>7, <2>8 DEF ServerInv
<1>. QED
  BY <1>1, <1>2, <1>3, <1>4 DEF ServerNext

(* Two numbers that are what the last of the same messages made them are   *)
(* the same number.                                                        *)
LEMMA LastIsOne ==
    ASSUME NEW M \in SUBSET Nat, NEW v, NEW w, LastOf(M, v), LastOf(M, w)
    PROVE  v = w
<1>1. CASE M = {}
  BY <1>1 DEF LastOf
<1>2. CASE M # {}
  <2>1. PICK i \in M : (\A j \in M : j <= i) /\ v = msgs[i].version
    BY <1>2 DEF LastOf
  <2>2. PICK k \in M : (\A j \in M : j <= k) /\ w = msgs[k].version
    BY <1>2 DEF LastOf
  <2>3. i <= k /\ k <= i /\ i \in Nat /\ k \in Nat
    BY <2>1, <2>2
  <2>. QED
    BY <2>1, <2>2, <2>3
<1>. QED
  BY <1>1, <1>2

LEMMA ServerTells == ServerInv => DiagnosticsMatch
<1>. SUFFICES ASSUME ServerInv PROVE DiagnosticsMatch
  OBVIOUS
<1>1. /\ Types /\ LocksTell /\ TasksTell /\ HadInOrder /\ WaitInOrder /\ DocumentsTell /\ EditorTells
      /\ VersionsMatch
  BY DEF ServerInv
<1>2. DocumentsFollow
  <2>1. SUFFICES ASSUME Len(tasks) = Len(msgs), ~\E i \in DOMAIN tasks : At(i, "documents"),
                        NEW u \in Uris
                 PROVE  documents[u] = [version |-> editor[u], content |-> editor[u]]
    BY DEF DocumentsFollow
  <2>2. \A i \in 1..Len(msgs) : i \in HadDocs
    <3>1. ASSUME NEW i \in 1..Len(msgs) PROVE i \in HadDocs
      <4>1. i \in 1..Len(tasks)
        BY <2>1
      <4>2. tasks[i].at \in Places /\ i \in DOMAIN tasks
        BY <1>1, <4>1, TaskType DEF Task
      <4>3. tasks[i].at # "documents"
        BY <2>1, <4>2 DEF At
      <4>. QED
        BY <4>1, <4>2, <4>3 DEF HadDocs, In
    <3>. QED
      BY <3>1
  <2>3. Followed(u) = Edited(u) /\ Edited(u) \in SUBSET Nat
    BY <2>2 DEF Followed, Edited
  <2>4. documents[u].content = documents[u].version /\ documents[u] \in Document
    BY <1>1 DEF DocumentsTell, Types
  <2>5. LastOf(Edited(u), documents[u].version) /\ LastOf(Edited(u), editor[u])
    BY <1>1, <2>3 DEF DocumentsTell, EditorTells
  <2>6. documents[u].version = editor[u]
    BY <2>3, <2>5, LastIsOne
  <2>. QED
    BY <2>4, <2>6 DEF Document
<1>3. NobodyIsStuck
  <2>1. ASSUME docsLock # <<>> PROVE tasks[docsLock[1]].at \in {"documents", "logs"}
    <3>1. 1 \in 1..Len(docsLock)
      BY <1>1, <2>1, TailIs DEF Types
    <3>2. docsLock[1] \in WantDocs
      BY <1>1, <3>1 DEF LocksTell, Queue
    <3>. QED
      BY <3>2 DEF WantDocs, WaitDocs, In
  <2>2. ASSUME symbolsLock # <<>> PROVE tasks[symbolsLock[1]].at \in {"symbols", "published"}
    <3>1. 1 \in 1..Len(symbolsLock)
      BY <1>1, <2>2, TailIs DEF Types
    <3>2. symbolsLock[1] \in WantSymbols
      BY <1>1, <3>1 DEF LocksTell, Queue
    <3>. QED
      BY <3>2 DEF WantSymbols, In
  <2>. QED
    BY <2>1, <2>2 DEF NobodyIsStuck
<1>. QED
  BY <1>1, <1>2, <1>3 DEF DiagnosticsMatch

(* However many documents the editor has open, messages it sends and        *)
(* handlers the server polls together: diagnostics are of the text of the   *)
(* version they are sent with, the server's documents follow the editor's,  *)
(* and no holder of a lock waits for one.                                   *)
THEOREM DiagnosticsAlwaysMatch == ServerSpec => []DiagnosticsMatch
<1>1. ServerInv /\ [ServerNext]_serverVars => ServerInv'
  BY ServerStays
<1>. QED
  BY <1>1, ServerStarts, ServerTells, PTL DEF ServerSpec

=============================================================================
