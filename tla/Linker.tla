------------------------------- MODULE Linker -------------------------------
(***************************************************************************)
(* The files of a package become one IR module: hc-tools/src/pkg/mod.rs.   *)
(* The entry file keeps its tables; the functions and the closures of each *)
(* sibling are appended behind them, and what refers to them by index (the *)
(* name table func_index, every MakeClosure instruction, in functions and  *)
(* in closures) is moved along.  For a test run the siblings' tests are    *)
(* taken out first, and their name tables renumbered.                      *)
(*                                                                         *)
(* A function is what it makes a closure of, if anything, and the names it *)
(* is called by; a closure may make one more inside.  Indices start at 0.  *)
(***************************************************************************)
EXTENDS Integers, Sequences

CONSTANTS MaxFuncs,   \* bound: functions of the entry, and of each sibling
          MaxDepth,   \* bound: closures inside each other
          Siblings    \* number of sibling files

VARIABLES merged,     \* the module being built, the entry's at first
          rest,       \* the siblings that are still to come
          strip,      \* strip_sibling_tests
          stripped    \* the first of rest has lost its tests

linkVars == <<merged, rest, strip, stripped>>

ASSUME LinkAssumption == MaxFuncs \in Nat /\ MaxDepth \in Nat /\ Siblings \in Nat

NoClosure == -1
FuncKinds == {"private", "namespace", "test"}
\* A function of a namespace is called by its bare name or its qualified one.
NamesOf == [private |-> {"f"}, namespace |-> {"f", "N.f"}, test |-> {"t"}]
Qualified == {"N.f"}
FuncNames == {"f", "N.f", "t"}
Shapes    == [kind : FuncKinds, depth : 0..MaxDepth]

\* The members of a sequence that are in a set, in order.
Only(s, P) ==
    LET only[i \in 0..Len(s)] ==
            IF i = 0 THEN <<>>
            ELSE IF s[i] \in P THEN Append(only[i - 1], s[i]) ELSE only[i - 1]
    IN  only[Len(s)]

\* The functions of the table a name stands for, in order.
Find(funcs, n) ==
    Only([i \in 1..Len(funcs) |-> i - 1],
         {i \in 0 .. Len(funcs) - 1 : n \in NamesOf[funcs[i + 1].kind]})

\* What lowering makes of a file: the inner closure is put into the table
\* before the one that makes it.
Closures(id, k, depth, offset) ==
    [d \in 1..depth |-> [of |-> <<id, k, d>>, makes |-> IF d = 1 THEN NoClosure ELSE offset + d - 2]]
ClosureTable(id, file) ==
    LET table[k \in 0..Len(file)] ==
            IF k = 0 THEN <<>>
            ELSE table[k - 1] \o Closures(id, k, file[k].depth, Len(table[k - 1]))
    IN  table
Module(id, file) ==
    LET table == ClosureTable(id, file)
        funcs == [k \in 1..Len(file) |->
                    [of |-> <<id, k>>, kind |-> file[k].kind, depth |-> file[k].depth,
                     makes |-> IF file[k].depth = 0 THEN NoClosure ELSE Len(table[k]) - 1]]
    IN  [funcs    |-> funcs,
         closures |-> table[Len(file)],
         index    |-> [n \in FuncNames |-> Find(funcs, n)]]

Files(max) == UNION {[1..n -> Shapes] : n \in 0..max}

LinkInit ==
    /\ \E file \in Files(1) : merged = Module(0, file)
    /\ \E files \in [1..Siblings -> Files(MaxFuncs)] :
            rest = [i \in 1..Siblings |-> Module(i, files[i])]
    /\ strip \in BOOLEAN
    /\ stripped = FALSE

-----------------------------------------------------------------------------
\* strip_test_funcs_in_place: the closures of a test stay, nobody's now.
Stripped(m) ==
    LET kept == Only([i \in 1..Len(m.funcs) |-> i], {i \in 1..Len(m.funcs) : m.funcs[i].kind # "test"})
        new(old) == CHOOSE i \in 0 .. Len(kept) - 1 : kept[i + 1] = old + 1
        stays    == {kept[i] - 1 : i \in 1..Len(kept)}
    IN  [m EXCEPT !.funcs = [i \in 1..Len(kept) |-> m.funcs[kept[i]]],
                  !.index = [n \in FuncNames |->
                      LET old == Only(@[n], stays) IN [i \in 1..Len(old) |-> new(old[i])]]]

Strip ==
    /\ strip /\ ~stripped /\ rest # <<>>
    /\ rest' = [rest EXCEPT ![1] = Stripped(@)]
    /\ stripped' = TRUE
    /\ UNCHANGED <<merged, strip>>

\* Each entry of a table, what it makes moved by an offset.
Moved(table, by) ==
    [i \in 1..Len(table) |-> [table[i] EXCEPT !.makes = IF @ = NoClosure THEN NoClosure ELSE @ + by]]

\* Mutant: closures that are made in closures are forgotten.
AppendedShallow(a, m) ==
    [funcs    |-> a.funcs \o Moved(m.funcs, Len(a.closures)),
     closures |-> a.closures \o m.closures,
     index    |-> [n \in FuncNames |->
                    IF n \in Qualified
                    THEN a.index[n] \o [i \in 1..Len(m.index[n]) |-> m.index[n][i] + Len(a.funcs)]
                    ELSE a.index[n]]]

\* One round of merge_modules.  Only a sibling's qualified names are exported.
Appended(a, m) ==
    [funcs    |-> a.funcs \o Moved(m.funcs, Len(a.closures)),
     closures |-> a.closures \o Moved(m.closures, Len(a.closures)),
     index    |-> [n \in FuncNames |->
                    IF n \in Qualified
                    THEN a.index[n] \o [i \in 1..Len(m.index[n]) |-> m.index[n][i] + Len(a.funcs)]
                    ELSE a.index[n]]]

Merge ==
    /\ rest # <<>> /\ stripped = strip
    /\ merged' = Appended(merged, Head(rest))
    /\ rest' = Tail(rest)
    /\ stripped' = FALSE
    /\ UNCHANGED strip

LinkNext == Strip \/ Merge

LinkSpec == LinkInit /\ [][LinkNext]_linkVars

-----------------------------------------------------------------------------
Row(table, i) == table[i + 1]
Made(m, x) == IF x.makes = NoClosure THEN <<>> ELSE Row(m.closures, x.makes).of

\* Linking keeps every reference: whatever was appended, in whatever order
\* and with whatever tests taken out, a function still makes its own
\* closure, a closure its own inner one; a name stands for functions that
\* have it, each once; a qualified name for those of every file so far, a
\* bare one for those of the entry only, so that no private function of a
\* sibling takes a call of the entry's.
LinkKeepsReferences ==
    LET file(f) == f.of[1]
        Called(n) == {i \in 0 .. Len(merged.funcs) - 1 :
                        /\ n \in NamesOf[Row(merged.funcs, i).kind]
                        /\ file(Row(merged.funcs, i)) = 0 \/ n \in Qualified}
    IN  /\ \A i \in 1..Len(merged.funcs) :
               LET f == merged.funcs[i]
               IN  Made(merged, f) = IF f.depth = 0 THEN <<>> ELSE Append(f.of, f.depth)
        /\ \A i \in 1..Len(merged.closures) :
               LET c == merged.closures[i]
               IN  Made(merged, c) = IF c.of[3] = 1 THEN <<>> ELSE [c.of EXCEPT ![3] = @ - 1]
        /\ \A n \in FuncNames :
               /\ {merged.index[n][i] : i \in 1..Len(merged.index[n])} = Called(n)
               /\ \A i, j \in 1..Len(merged.index[n]) :
                      merged.index[n][i] = merged.index[n][j] => i = j
=============================================================================
