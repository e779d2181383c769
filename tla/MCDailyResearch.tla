--------------------------- MODULE MCDailyResearch ---------------------------
(***************************************************************************)
(* Instances of DailyResearch for TLC.                                     *)
(***************************************************************************)
EXTENDS DailyResearch, TLC

CONSTANTS s1, s2, k1

\* s1 carries a thesis, or s2 is the benchmark of s1.
ThesisOnFirst == [s \in Securities |-> IF s = s1 THEN k1 ELSE None]
NoThesis == [s \in Securities |-> None]
SecondIsBenchmark == [s \in Securities |-> IF s = s1 THEN s2 ELSE None]
NoBenchmark == [s \in Securities |-> None]

ClientSymmetry == Permutations(Clients)

=============================================================================
