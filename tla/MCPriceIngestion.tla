--------------------------- MODULE MCPriceIngestion ---------------------------
(***************************************************************************)
(* The instance of PriceIngestion for TLC: Yahoo is asked, and asked       *)
(* again, for two securities at once; the fixture by two requests for the  *)
(* same security.                                                          *)
(***************************************************************************)
EXTENDS PriceIngestion, TLC

CONSTANTS yahoo, fixture, y1, f1, f2, s1, s2

BothProviders == (y1 :> yahoo) @@ (f1 :> fixture) @@ (f2 :> fixture)
AskedItems == (y1 :> {s1, s2}) @@ (f1 :> {s1}) @@ (f2 :> {s1})

IngestionSymmetry == Permutations(Clients) \cup Permutations(Values)

=============================================================================
