------------------------------ MODULE PointInTime ------------------------------
(***************************************************************************)
(* The point-in-time readers over one clock: features are calculated,      *)
(* vendor tables grow, and screens, backtests and vendor studies read what *)
(* was known at a cutoff.                                                  *)
(***************************************************************************)
EXTENDS Backtest, VendorVintages

CONSTANT VendorBatches   \* what a vendor may deliver, each of Tables

ASSUME BatchAssumption == VendorBatches \subseteq Tables

VARIABLE tables   \* the vendor's rows as they arrived

pitVars == <<now, features, runs, tables>>

Init ==
    /\ PanelInit
    /\ tables = [estimates |-> <<>>, transactions |-> <<>>, ownership |-> <<>>]

\* Rows arrive once they are known; a delivery counts as a run.
Deliver ==
    /\ runs < MaxRuns
    /\ runs' = runs + 1
    /\ \E batch \in VendorBatches :
         /\ \A k \in DOMAIN batch : \A i \in DOMAIN batch[k] : batch[k][i].available <= now
         /\ tables' = [k \in DOMAIN tables |-> tables[k] \o batch[k]]
    /\ UNCHANGED <<now, features>>

Next == (PanelNext /\ UNCHANGED tables) \/ Deliver

Spec == Init /\ [][Next]_pitVars

TypeOK == PanelTypeOK /\ tables \in Tables

-----------------------------------------------------------------------------
\* The rows a step adds to a table.
Arrived(k) == { i \in DOMAIN tables'[k] : i > Len(tables[k]) }

(* What a vendor delivers later changes no earlier answer: not the rows    *)
(* that became known after the cutoff, and not, in the newest estimates, a *)
(* backfilled row that an estimate known by then has superseded.           *)
VendorAnswersReplay ==
    [][\A t \in Times :
         /\ (\A k \in DOMAIN tables : \A i \in Arrived(k) : tables'[k][i].available > t) =>
              VendorAnswers(tables', t) = VendorAnswers(tables, t)
         /\ (\A i \in Arrived("estimates") :
               \E q \in LatestEstimates(tables.estimates, t) :
                 /\ q.series = tables'.estimates[i].series
                 /\ q.available > tables'.estimates[i].available) =>
              LatestEstimates(tables'.estimates, t) = LatestEstimates(tables.estimates, t)]_pitVars
=============================================================================
