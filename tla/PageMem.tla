------------------------------ MODULE PageMem ------------------------------
(***************************************************************************)
(* The page memory of the standard library, `io.pagemem.init(n)`: a stack  *)
(* of free page numbers.  The same text stands in the interpreter, the IR  *)
(* runtime and hc::runtime.  A program may free any number, twice or       *)
(* without having been given it.                                           *)
(***************************************************************************)
EXTENDS Naturals, Sequences

CONSTANTS Totals   \* the sizes a program asks for, any integers

VARIABLES free,    \* the stack of free pages, its top last
          total,   \* number of pages, fixed by init
          pageLast \* the latest call with its argument and answer

pageVars == <<free, total, pageLast>>

IsFree(p) == \E i \in DOMAIN free : free[i] = p

PageInit ==
    /\ total \in Totals \cap Nat   \* a negative one is error.InvalidArgument
    /\ free = [i \in 1..total |-> total - i]
    /\ pageLast = <<"init", "null", "null">>

Alloc ==
    /\ IF free = <<>>
       THEN free' = free /\ pageLast' = <<"alloc", "null", "null">>
       ELSE /\ free' = SubSeq(free, 1, Len(free) - 1)
            /\ pageLast' = <<"alloc", "null", free[Len(free)]>>
    /\ UNCHANGED total

\* Mutant: a page that is free is put back again.
FreeAgain(p) ==
    /\ free' = IF p < total THEN Append(free, p) ELSE free
    /\ pageLast' = <<"free", p, "null">>
    /\ UNCHANGED total

Free(p) ==
    /\ free' = IF p < total /\ ~IsFree(p) THEN Append(free, p) ELSE free
    /\ pageLast' = <<"free", p, "null">>
    /\ UNCHANGED total

PageNext == Alloc \/ \E p \in 0..total : Free(p)

PageSpec == PageInit /\ [][PageNext]_pageVars

\* The stack holds pages of the pool, none of them twice.
FreeOnce ==
    /\ total \in Nat
    /\ free \in Seq(0 .. total - 1)
    /\ \A i, j \in DOMAIN free : free[i] = free[j] => i = j

Pool == INSTANCE PagePool WITH held <- {p \in 0 .. total - 1 : ~IsFree(p)}, last <- pageLast

\* No page has two holders, whatever a program frees, and no page is lost.
ImplementsPool == Pool!Spec
=============================================================================
