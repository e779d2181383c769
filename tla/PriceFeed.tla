------------------------------- MODULE PriceFeed -------------------------------
(***************************************************************************)
(* What price ingestion promises its readers: a growing set of bars,       *)
(* published one whole provider response at a time, in which a vintage is  *)
(* never changed and never ambiguous.  PriceIngestion is shown to          *)
(* implement it, and daily research is checked over it.                    *)
(***************************************************************************)
EXTENDS PriceVintages

CONSTANTS
    BarRow,     \* every bar there may be
    Batches     \* batch identities

VARIABLE bars   \* the published bars

Init == bars = {}

(* A response is published: some bars of one batch, all new vintages.      *)
Publish(batch, response) ==
    /\ response # {} /\ response \subseteq BarRow
    /\ \A b \in response : b.batch = batch
    /\ \A b \in response : \A d \in bars \cup response :
          SameVintage(b, d) => b = d /\ d \notin bars
    /\ bars' = bars \cup response

\* What is published is what is new: a step determines its response.
Next == \E batch \in Batches : Publish(batch, bars' \ bars)

Spec == Init /\ [][Next]_bars

=============================================================================
