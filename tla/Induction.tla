------------------------------ MODULE Induction ------------------------------
(***************************************************************************)
(* Induction and recursion over the natural numbers, stated of sets and    *)
(* functions: what is proved of all numbers is the set of those it holds   *)
(* of, and a step of a recursion is a function applied to the value before *)
(* it.                                                                     *)
(***************************************************************************)
EXTENDS WellFoundedInduction, TLAPS

(* A set of numbers that is not empty has a least one.                     *)
LEMMA LeastNumber ==
    ASSUME NEW T \in SUBSET Nat, T # {}
    PROVE  \E x \in T : \A y \in T : x <= y
<1> DEFINE R == OpToRel(<, Nat)
<1>1. IsWellFoundedOn(R, Nat)
  BY NatLessThanWellFounded
<1>2. PICK x \in T : \A y \in T : <<y, x>> \notin R
  <2> HIDE DEF R
  <2> QED BY <1>1, WFMin
<1>3. \A y \in T : y < x => <<y, x>> \in R
  BY DEF OpToRel
<1>4. \A y \in T : ~(y < x)
  BY <1>2, <1>3
<1>5. ASSUME NEW y \in T PROVE x <= y
  BY <1>4, x \in Nat, y \in Nat
<1> QED BY <1>5

(* One that is bounded has a greatest.                                     *)
LEMMA GreatestNumber ==
    ASSUME NEW T \in SUBSET Nat, T # {}, NEW b \in Nat, \A x \in T : x <= b
    PROVE  \E x \in T : \A y \in T : y <= x
<1> DEFINE U == {n \in Nat : b - n \in T}
<1>1. PICK x \in T : TRUE
  OBVIOUS
<1>2. \A y \in T : b - y \in U
  <2> SUFFICES ASSUME NEW y \in T PROVE b - y \in U
    OBVIOUS
  <2>1. y \in Nat /\ y <= b
    OBVIOUS
  <2>2. b - y \in Nat /\ b - (b - y) = y
    BY <2>1
  <2> QED BY <2>2
<1>3. PICK n \in U : \A m \in U : n <= m
  <2>1. U \in SUBSET Nat /\ U # {}
    BY <1>1, <1>2
  <2> HIDE DEF U
  <2> QED BY <2>1, LeastNumber
<1>4. ASSUME NEW y \in T PROVE y <= b - n
  <2>1. n <= b - y
    BY <1>2, <1>3
  <2> QED BY <2>1, y \in Nat, n \in Nat
<1>5. b - n \in T
  BY <1>3
<1> QED BY <1>4, <1>5

(* Induction: a set that has 0 and with each number the next has all.      *)
LEMMA Inducts ==
    ASSUME NEW P, 0 \in P, \A n \in Nat : n \in P => n + 1 \in P
    PROVE  \A n \in Nat : n \in P
<1> DEFINE T == {n \in Nat : n \notin P}
<1> SUFFICES ASSUME T # {} PROVE FALSE
  OBVIOUS
<1>1. PICK x \in T : \A y \in T : x <= y
  <2>1. T \in SUBSET Nat
    OBVIOUS
  <2> HIDE DEF T
  <2> QED BY <2>1, LeastNumber
<1>2. x \in Nat /\ x # 0 /\ x \notin P
  OBVIOUS
<1>3. x - 1 \in Nat /\ x - 1 \notin T
  <2>1. x - 1 \in Nat /\ ~(x <= x - 1)
    BY <1>2
  <2> QED BY <1>1, <2>1
<1>4. x - 1 \in P
  BY <1>3
<1>5. (x - 1) + 1 = x
  BY <1>2
<1> QED BY <1>2, <1>3, <1>4, <1>5

(* The same over 0..m.                                                     *)
LEMMA InductsTo ==
    ASSUME NEW m \in Nat, NEW P, 0 \in P, \A n \in 0 .. m - 1 : n \in P => n + 1 \in P
    PROVE  \A n \in 0..m : n \in P
<1> DEFINE Q == {n \in Nat : n <= m => n \in P}
<1>1. 0 \in Q
  OBVIOUS
<1>2. ASSUME NEW n \in Nat, n \in Q PROVE n + 1 \in Q
  <2> SUFFICES ASSUME n + 1 <= m PROVE n + 1 \in P
    OBVIOUS
  <2>1. n \in 0 .. m - 1 /\ n <= m
    OBVIOUS
  <2> QED BY <1>2, <2>1
<1>3. \A n \in Nat : n \in Q
  <2> HIDE DEF Q
  <2> QED BY <1>1, <1>2, Inducts
<1> QED BY <1>3

(* f begins with b and goes on by F, for ever or up to m.                  *)
Follows(f, S, b, F) ==
    f \in [Nat -> S] /\ \A n \in Nat : f[n] = IF n = 0 THEN b ELSE F[n][f[n - 1]]
FollowsTo(m, f, S, b, F) ==
    f \in [0..m -> S] /\ \A n \in 0..m : f[n] = IF n = 0 THEN b ELSE F[n][f[n - 1]]

(* Recursion: there is such a function.                                    *)
LEMMA Recurs ==
    ASSUME NEW S, NEW b \in S, NEW F \in [Nat -> [S -> S]]
    PROVE  \E f : Follows(f, S, b, F)
<1> DEFINE Begins(g, n) == /\ g \in [0..n -> S]
                           /\ g[0] = b
                           /\ \A i \in 1..n : g[i] = F[i][g[i - 1]]
           P == {n \in Nat : \E g \in [0..n -> S] : Begins(g, n)}
<1>1. 0 \in P
  <2>1. Begins([i \in 0..0 |-> b], 0)
    OBVIOUS
  <2> QED BY <2>1
<1>2. ASSUME NEW n \in Nat, n \in P PROVE n + 1 \in P
  <2>1. PICK g \in [0..n -> S] : Begins(g, n)
    BY <1>2
  <2> DEFINE h == [i \in 0 .. n + 1 |-> IF i <= n THEN g[i] ELSE F[n + 1][g[n]]]
  <2>2. F[n + 1][g[n]] \in S
    OBVIOUS
  <2>3. h \in [0 .. n + 1 -> S]
    BY <2>2
  <2>4. ASSUME NEW i \in 1 .. n + 1 PROVE h[i] = F[i][h[i - 1]]
    <3>1. CASE i <= n
      BY <2>1, <3>1
    <3>2. CASE i = n + 1
      BY <3>2
    <3> QED BY <3>1, <3>2
  <2>5. h[0] = b
    BY <2>1
  <2> HIDE DEF h
  <2>6. Begins(h, n + 1)
    BY <2>3, <2>4, <2>5
  <2> QED BY <2>3, <2>6
<1>3. \A n \in Nat : n \in P
  <2> HIDE DEF P
  <2> QED BY <1>1, <1>2, Inducts
<1> DEFINE G == [n \in Nat |-> CHOOSE g \in [0..n -> S] : Begins(g, n)]
<1>4. \A n \in Nat : Begins(G[n], n) /\ G[n] \in [0..n -> S]
  BY <1>3
<1>5. \A n \in Nat : \A m \in Nat : \A i \in 0..n : i <= m => G[n][i] = G[m][i]
  <2> SUFFICES ASSUME NEW n \in Nat, NEW m \in Nat PROVE \A i \in 0..n : i <= m => G[n][i] = G[m][i]
    OBVIOUS
  <2> DEFINE Q == {i \in Nat : i <= n /\ i <= m => G[n][i] = G[m][i]}
  <2>1. 0 \in Q
    BY <1>4
  <2>2. ASSUME NEW i \in Nat, i \in Q PROVE i + 1 \in Q
    <3> SUFFICES ASSUME i + 1 <= n, i + 1 <= m PROVE G[n][i + 1] = G[m][i + 1]
      OBVIOUS
    <3> HIDE DEF G
    <3>1. G[n][i] = G[m][i]
      BY <2>2
    <3>2. i + 1 \in 1..n /\ i + 1 \in 1..m /\ (i + 1) - 1 = i
      OBVIOUS
    <3>3. G[n][i + 1] = F[i + 1][G[n][(i + 1) - 1]]
      BY <1>4, <3>2
    <3>4. G[m][i + 1] = F[i + 1][G[m][(i + 1) - 1]]
      BY <1>4, <3>2
    <3> QED BY <3>1, <3>2, <3>3, <3>4
  <2>3. \A i \in Nat : i \in Q
    <3> HIDE DEF Q
    <3> QED BY <2>1, <2>2, Inducts
  <2>4. ASSUME NEW i \in 0..n, i <= m PROVE G[n][i] = G[m][i]
    <3>1. i \in Q
      <4> HIDE DEF Q
      <4> QED BY <2>3
    <3> HIDE DEF G
    <3> QED BY <2>4, <3>1
  <2> HIDE DEF G
  <2> QED BY <2>4
<1> DEFINE f == [n \in Nat |-> G[n][n]]
<1> HIDE DEF G
<1>6. f \in [Nat -> S]
  BY <1>4
<1>7. ASSUME NEW n \in Nat PROVE f[n] = IF n = 0 THEN b ELSE F[n][f[n - 1]]
  <2>1. CASE n = 0
    BY <1>4, <2>1
  <2>2. CASE n # 0
    <3>1. n - 1 \in Nat /\ n \in 1..n
      BY <2>2
    <3>2. G[n][n] = F[n][G[n][n - 1]]
      BY <1>4, <3>1
    <3>3. G[n][n - 1] = G[n - 1][n - 1]
      BY <1>5, <3>1
    <3> QED BY <2>2, <3>1, <3>2, <3>3
  <2> QED BY <2>1, <2>2
<1> HIDE DEF f
<1> QED BY <1>6, <1>7 DEF Follows

(* The same over 0..m.                                                     *)
LEMMA RecursTo ==
    ASSUME NEW m \in Nat, NEW S, NEW b \in S, NEW F \in [1..m -> [S -> S]]
    PROVE  \E f : FollowsTo(m, f, S, b, F)
<1> DEFINE H == [n \in Nat |-> IF n \in 1..m THEN F[n] ELSE [x \in S |-> x]]
<1>1. H \in [Nat -> [S -> S]]
  OBVIOUS
<1>2. PICK g : Follows(g, S, b, H)
  <2> HIDE DEF H
  <2> QED BY <1>1, Recurs
<1> DEFINE f == [n \in 0..m |-> g[n]]
<1>3. f \in [0..m -> S]
  BY <1>2 DEF Follows
<1>4. ASSUME NEW n \in 0..m PROVE f[n] = IF n = 0 THEN b ELSE F[n][f[n - 1]]
  <2>1. CASE n = 0
    BY <1>2, <2>1 DEF Follows
  <2>2. CASE n # 0
    <3>1. n \in 1..m /\ n - 1 \in 0..m /\ n \in Nat
      BY <2>2
    <3>2. H[n] = F[n]
      BY <3>1
    <3>3. g[n] = H[n][g[n - 1]]
      <4> HIDE DEF H, f
      <4> QED BY <1>2, <3>1, <2>2 DEF Follows
    <3> HIDE DEF H
    <3> QED BY <2>2, <3>1, <3>2, <3>3
  <2> QED BY <2>1, <2>2
<1> HIDE DEF f
<1> QED BY <1>3, <1>4 DEF FollowsTo
=============================================================================
