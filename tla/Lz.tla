--------------------------------- MODULE Lz ---------------------------------
(***************************************************************************)
(* `io.archive.compress` and `decompress`: literal runs, back references   *)
(* and repeated runs.  A token's length is one byte, so it must wrap for   *)
(* nothing the compressor emits; a byte here has Width values instead of   *)
(* 256, and Window is scaled down from 4096 with it.                       *)
(***************************************************************************)
EXTENDS Naturals, Sequences, FiniteSetsExt

CONSTANTS Width,    \* values of a byte, in what a token says
          Window,   \* how far back a reference may reach
          Scan,     \* how far back the search looks (256 in the source)
          Bytes,    \* the bytes of the data
          MaxData   \* bound on its length

ASSUME LzAssumption ==
    /\ Width \in Nat \ {0} /\ Window \in Nat /\ Scan \in Nat
    /\ Window < Width * Width  \* 4096 fits in the two bytes of a distance
    /\ "error" \notin Bytes   \* no data is taken for Err

VARIABLE data   \* what is compressed

MinMatch == 3
MaxMatchLonger == Width + 3   \* mutant
MaxMatch == Width + 2
Err == <<"error">>
Byte(n) == n % Width
TwoBytes(n) == n % (Width * Width)

Least(a, b) == IF a < b THEN a ELSE b
\* The length of the longest common part of d from i and from j on, at most n.
Common(d, i, j, n) ==
    CHOOSE k \in 0..n : /\ \A x \in 0 .. k - 1 : d[i + x] = d[j + x]
                        /\ k = n \/ d[i + k] # d[j + k]

\* Length of the run of equal bytes at i, as long as a token can say.
RunAt(d, i) ==
    LET most == Least(Width, Len(d) - i + 1)
    IN  CHOOSE k \in 1..most : /\ \A x \in 0 .. k - 1 : d[i + x] = d[i]
                               /\ k = most \/ d[i + k] # d[i]

\* <<length, distance>> of the longest match for d[i..] that ends before i, the
\* furthest of them when several are as long; <<0, 0>> when the first byte has none.
LongestMatch(d, i) ==
    LET ahead == Least(Len(d) - i + 1, MaxMatch)
        from  == IF Least(i - 1, Window) > Scan THEN i - Scan ELSE i - Least(i - 1, Window)
        at(j) == Common(d, j, i, Least(ahead, i - j))
        best  == CHOOSE j \in from .. i - 1 : \A k \in from .. i - 1 : at(k) < at(j) \/ (at(k) = at(j) /\ j <= k)
    IN  IF from = i \/ at(best) = 0 THEN <<0, 0>> ELSE <<at(best), i - best>>

\* A literal run may not go on at i: a cheaper token starts there.
Cheaper(d, i) == Len(d) - i + 1 >= MinMatch /\ (RunAt(d, i) >= MinMatch \/ LongestMatch(d, i)[1] >= MinMatch)
Literals(d, i) ==
    LET most == Least(Width, Len(d) - i + 1)
        stops == {k \in 0 .. most - 1 : Cheaper(d, i + k)} \cup {most}
        n == Min(stops)
    IN  IF n = 0 THEN 1 ELSE n

\* The token for d[i..], and how many bytes it stands for.
TokenAt(d, i) ==
    LET run == RunAt(d, i)
        m   == LongestMatch(d, i)
        lit == Literals(d, i)
    IN  IF run >= MinMatch THEN [of |-> run, token |-> <<"run", Byte(run - 1), d[i]>>]
        ELSE IF Len(d) - i + 1 >= MinMatch /\ m[1] >= MinMatch
        THEN [of |-> m[1], token |-> <<"back", Byte(m[1] - 3), TwoBytes(m[2])>>]
        ELSE [of |-> lit, token |-> <<"lit", Byte(lit - 1), SubSeq(d, i, i + lit - 1)>>]

\* The loop of compress: what is out and where it stands after n rounds.
Rounds(d) ==
    LET round[n \in 0..Len(d)] ==
            IF n = 0 THEN [out |-> <<>>, at |-> 1]
            ELSE LET r == round[n - 1]
                     t == TokenAt(d, r.at)
                 IN  IF r.at > Len(d) THEN r ELSE [out |-> Append(r.out, t.token), at |-> r.at + t.of]
    IN  round
Tokens(d) == Rounds(d)[Len(d)].out

\* n bytes from `dist` back on, each read after the one before it is written.
Copied(out, dist, n) ==
    LET copied[x \in 0..n] ==
            IF x = 0 THEN out ELSE Append(copied[x - 1], copied[x - 1][Len(out) - dist + x])
    IN  copied[n]

Decoded(out, t) ==
    IF out = Err THEN Err
    ELSE CASE t[1] = "lit"  -> IF t[2] + 1 > Len(t[3]) THEN Err ELSE out \o SubSeq(t[3], 1, t[2] + 1)
           [] t[1] = "back" -> IF t[3] = 0 \/ t[3] > Len(out) THEN Err ELSE Copied(out, t[3], t[2] + MinMatch)
           [] t[1] = "run"  -> out \o [x \in 1 .. t[2] + 1 |-> t[3]]

Decompress(tokens) ==
    LET out[k \in 0..Len(tokens)] == IF k = 0 THEN <<>> ELSE Decoded(out[k - 1], tokens[k])
    IN  out[Len(tokens)]

LzInit == data = <<>>
LzNext == Len(data) < MaxData /\ \E b \in Bytes : data' = Append(data, b)
LzSpec == LzInit /\ [][LzNext]_data

\* Nothing is lost for any input (the doc comment of compress): runs, matches and
\* literals as long as a byte can tell, and longer, included.
LzRoundTrip == Decompress(Tokens(data)) = data
=============================================================================
