----------------------------- MODULE PriceVintages -----------------------------
(***************************************************************************)
(* Point-in-time reading of price bars.  A bar carries its security, the   *)
(* close of its session (effective_at), the instant it became knowable     *)
(* (available_at), its numbers (value) and its ingestion batch.  Frequency *)
(* and source are fixed.                                                   *)
(***************************************************************************)
EXTENDS Integers

\* The natural key of a bar: a correction has a later available_at.
SameVintage(b, d) ==
    /\ b.security = d.security
    /\ b.effective_at = d.effective_at
    /\ b.available_at = d.available_at

-----------------------------------------------------------------------------
Knowable(bars, known) == { b \in bars : b.available_at <= known }

(* price_history_as_of: per security and session the newest vintage that   *)
(* was knowable at the cutoff.                                             *)
PriceHistoryAsOf(bars, known) ==
    { b \in Knowable(bars, known) :
         \A d \in Knowable(bars, known) :
            d.security = b.security /\ d.effective_at = b.effective_at
               => d.available_at <= b.available_at }

=============================================================================
