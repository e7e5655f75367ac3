----------------------------- MODULE ErrorCodes -----------------------------
(***************************************************************************)
(* The numbers of error names.  Each file numbers the names it mentions in *)
(* the order they occur, and the built-in ones behind them                 *)
(* (hc/src/runtime/errorcodes.rs).  The interpreter records the tables of  *)
(* the files of a package, siblings first, and gives a number to a name it *)
(* meets at run time only (hc-rt/src/interp/loader.rs); two error values   *)
(* are equal when their numbers are (hc-rt/src/value/compare.rs).  A       *)
(* compiled package has one table for all files                            *)
(* (hc-tools/src/pkg/mod.rs, merge_error_tables).                          *)
(***************************************************************************)
EXTENDS Naturals, Sequences, FiniteSets

CONSTANTS UserNames,     \* error names that occur in sources
          RuntimeNames,  \* names only the runtime raises
          MaxMentions,   \* bound: error names mentioned in a file
          Packages,      \* the numbers of files packages have
          CodeSize       \* the number of indices, 2^16 in the code

BUILTIN_ERRORS == <<"OutOfMemory">>
ErrorNames == UserNames \cup RuntimeNames \cup {"OutOfMemory"}
NoCode == CodeSize

\* No more names than there are numbers for them.
ASSUME CodesAssumption ==
    /\ MaxMentions \in Nat /\ CodeSize \in Nat
    /\ Packages \subseteq Nat \ {0}
    /\ IsFiniteSet(ErrorNames) /\ Cardinality(ErrorNames) <= CodeSize

VARIABLES files,     \* the names each file mentions, siblings first, entry last
          loaded,    \* the number of files recorded so far
          codes,     \* Interp::error_codes
          slots,     \* the length of Interp::error_names
          values     \* history: the error values made, as <<name, code>>

codeVars == <<files, loaded, codes, slots, values>>

NamesIn(s) == {s[i] : i \in 1..Len(s)}

-----------------------------------------------------------------------------
\* ErrorCodeTable::register: a name that is there keeps its place.
register(table, n) == IF n \in NamesIn(table) THEN table ELSE Append(table, n)

registerAll(table, ns) ==
    LET first[k \in 0..Len(ns)] == IF k = 0 THEN table ELSE register(first[k - 1], ns[k])
    IN  first[Len(ns)]

\* collect: the names of a file in the order they occur, then the built-in ones.
collect(file) == registerAll(registerAll(<<>>, file), BUILTIN_ERRORS)

\* encode, of package 0; the index is cut to its width.
CodeIn(table, n) ==
    IF n \in NamesIn(table)
    THEN ((CHOOSE i \in 1..Len(table) : table[i] = n) - 1) % CodeSize
    ELSE NoCode

\* merge_error_tables: entry first, each table in the order of its codes.
merge_error_tables ==
    LET file(k)  == IF k = 1 THEN files[Len(files)] ELSE files[k - 1]
        first[k \in 0..Len(files)] ==
            IF k = 0 THEN <<>> ELSE registerAll(first[k - 1], collect(file(k)))
    IN  first[Len(files)]

\* error_names is stretched to the largest index.
Stretched(known) ==
    LET used == {0, slots} \cup {known[n] + 1 : n \in {m \in ErrorNames : known[m] # NoCode}}
    IN  CHOOSE k \in used : \A i \in used : i <= k

-----------------------------------------------------------------------------
CodesInit ==
    /\ \E n \in Packages :
            files \in [1..n -> UNION {[1..k -> UserNames] : k \in 0..MaxMentions}]
    /\ loaded = 0
    /\ codes = [n \in ErrorNames |-> NoCode]
    /\ slots = 0
    /\ values = {}

\* Mutant: the last file that mentions a name numbers it.
RecordErrorLocsLast ==
    /\ loaded < Len(files)
    /\ LET table == collect(files[loaded + 1])
       IN  codes' = [n \in ErrorNames |-> IF CodeIn(table, n) # NoCode THEN CodeIn(table, n) ELSE codes[n]]
    /\ slots' = Stretched(codes')
    /\ loaded' = loaded + 1
    /\ UNCHANGED <<files, values>>

\* record_error_locs of the next file: a name that has a number keeps it.
RecordErrorLocs ==
    /\ loaded < Len(files)
    /\ LET table == collect(files[loaded + 1])
       IN  codes' = [n \in ErrorNames |-> IF codes[n] # NoCode THEN codes[n] ELSE CodeIn(table, n)]
    /\ slots' = Stretched(codes')
    /\ loaded' = loaded + 1
    /\ UNCHANGED <<files, values>>

\* err_val: an error value is made, by a literal or by the runtime; a name
\* without a number gets the next free one.  Code runs once all siblings are
\* recorded (the initialisers of their globals), and after the entry.
ErrVal(n) ==
    /\ loaded >= 1 /\ loaded >= Len(files) - 1
    /\ codes' = IF codes[n] # NoCode THEN codes ELSE [codes EXCEPT ![n] = slots % CodeSize]
    /\ slots' = IF codes[n] # NoCode THEN slots ELSE slots + 1
    /\ values' = values \cup {<<n, codes'[n]>>}
    /\ UNCHANGED <<files, loaded>>

CodesNext == RecordErrorLocs \/ \E n \in ErrorNames : ErrVal(n)

CodesSpec == CodesInit /\ [][CodesNext]_codeVars

-----------------------------------------------------------------------------
\* "The code is globally unique" (hc-rt/src/value/models/value.rs:46): two
\* error values compare equal, by their numbers, just when they have the
\* same name.
ErrorsAreTheirNames == \A v, w \in values : v[2] = w[2] <=> v[1] = w[1]

\* What does hold of numbers: of a program of one file, that errors are
\* their names, those only the runtime raises included; of every program,
\* that a name keeps the number it had when the first value was made, in
\* whatever order files and values come, and that the one table of the
\* compiled program tells all names of all files apart.
ErrorCodesHold ==
    /\ Len(files) = 1 => ErrorsAreTheirNames
    /\ \A v, w \in values : v[1] = w[1] => v[2] = w[2]
    /\ LET table == merge_error_tables
       IN  /\ NamesIn(table) = (UNION {NamesIn(files[i]) : i \in 1..Len(files)}) \cup {"OutOfMemory"}
           /\ \A m, n \in NamesIn(table) : CodeIn(table, m) = CodeIn(table, n) => m = n
=============================================================================
