--------------------------- MODULE MCPortfolioImport ---------------------------
(* Instances of PortfolioImport for TLC: two securities, the first with    *)
(* two references and a thesis, and an index as the default benchmark.     *)
EXTENDS PortfolioImport, TLC

CONSTANTS s1, s2, idx, X, XM, Y, I, k1, n1, n2, main, fresh

\* X with and without its exchange is s1.
MCMeans == (X :> {s1}) @@ (XM :> {s1}) @@ (Y :> {s2}) @@ (I :> {idx})

MCSectorBenchmark == [s \in Securities |-> None]
MCMarketMapping == [s \in Securities |-> None]
MCThesisOwner == [k \in ThesisKeys |-> s1]

MCIdentifierOf == [r \in References |-> IF r = XM THEN X ELSE r]

Row(ref, thesis, note) ==
    [ref |-> ref, wellFormed |-> TRUE, thesis |-> thesis, benchmark |-> None, note |-> note]

FileOf(kind, rows) == [kind |-> kind, columns |-> TRUE, rows |-> rows]

\* Holdings: two contents for one snapshot, one of them with a thesis, and a
\* file the parser refuses.  Coverage: two securities in either order and in
\* two contexts, a security of a new list under its other reference and with a
\* thesis, and another file the parser refuses.
MCUploads ==
    { [file |-> FileOf("holdings", rows), target |-> main] :
        rows \in { <<Row(X, k1, n1)>>, <<Row(X, None, n2)>>,
                   <<Row(X, None, n1), Row(X, None, n1)>> } }
    \cup { [file |-> FileOf("coverage", rows), target |-> main] :
             rows \in { <<Row(X, None, n1), Row(Y, None, n1)>>,
                        <<Row(Y, None, n2), Row(X, None, n2)>> } }
    \cup { [file |-> FileOf("coverage", rows), target |-> fresh] :
             rows \in { <<Row(XM, k1, n2)>>, <<Row(X, None, n1), Row(X, None, n2)>> } }

\* The index has been in the first list all along.
MCCovered == (main :> {idx}) @@ (fresh :> {})
=============================================================================
