--------------------------- MODULE MCSecurityMaster ---------------------------
(* Two requests about two securities that may use one identifier, and an   *)
(* index that may be the benchmark of either.                              *)
EXTENDS SecurityMaster, TLC

CONSTANTS s1, s2, idx, X, I, plain, mic

MCMatches == (plain :> {plain, mic}) @@ (mic :> {mic})

MCRow(s, name, space, valid, benchmark) ==
    [security |-> s, name |-> name, space |-> space, valid |-> valid, benchmark |-> benchmark]

Always == [from |-> 0, to |-> None]
First  == [from |-> 0, to |-> 1]

\* A security alone, a security before the index it is measured by, the same
\* identifier on one exchange, an index that is dropped after the first day,
\* and an index that is made its own benchmark.
MCUploads ==
    { <<MCRow(s, X, plain, v, I)>> : s \in {s1, s2}, v \in Interval }
    \cup { <<MCRow(s1, X, plain, Always, I), MCRow(idx, I, plain, Always, None)>>,
            <<MCRow(s2, X, mic, Always, None)>>,
            <<MCRow(idx, I, plain, First, None)>>, <<MCRow(idx, I, plain, Always, I)>> }

MCSymmetry == Permutations(Clients)
=============================================================================
