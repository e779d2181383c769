---------------------------- MODULE VendorVintages ----------------------------
(***************************************************************************)
(* What the quantitative methods read from a vendor's tables at a cutoff:  *)
(* consensus and contributor estimates, insider transactions and ownership *)
(* snapshots.  A table is the sequence of its rows as they arrived, every  *)
(* row dated by when it became known; vintages may arrive out of order.    *)
(*                                                                         *)
(* Ratios are pairs of a numerator and a denominator.                      *)
(***************************************************************************)
EXTENDS Integers, Sequences, FiniteSets, Functions

CONSTANTS
    Missing,     \* an absent number: null, NaN, infinite or not a number
    Series,      \* what an estimate is about: security, metric and period
    Contributors,
    Amounts,     \* the numbers in the tables
    WholeFloat,  \* the number that stands for all of the float
    Lookback     \* length of the windows

Amount == Amounts \cup {Missing}

Estimate == [series : Series, contributor : Contributors, value : Amount, available : Nat]

\* Gifts, grants, exercises and the like are classified as neither.
Transaction == [action : {"buy", "sell", "neither"}, value : Amount, available : Nat]

Ownership == [series : Series, short : Amount, percent : Amount, cover : Amount, prior : Amount,
              available : Nat]

Tables == [estimates : Seq(Estimate), transactions : Seq(Transaction), ownership : Seq(Ownership)]

ASSUME VendorAssumption ==
    /\ Amounts \subseteq Nat /\ Missing \notin Int
    /\ WholeFloat \in Nat /\ Lookback \in Nat \ {0}

-----------------------------------------------------------------------------
\* Defect: the rows are not sorted, the last to arrive wins.
Newer_Arrival(table, j, i) == j > i

\* Among equal availabilities the sort is stable and the last one wins.
Newer(table, j, i) ==
    \/ table[j].available > table[i].available
    \/ table[j].available = table[i].available /\ j > i

\* The newest row known at t of every key.
NewestRows(table, key(_), t) ==
    LET known == { i \in DOMAIN table : table[i].available <= t }
    IN  { table[i] : i \in { k \in known : \A j \in known :
                               key(table[j]) = key(table[k]) => ~Newer(table, j, k) } }

SeriesOf(row) == row.series

ByContributor(row) == <<row.series, row.contributor>>

\* latest_estimates_as_of
LatestEstimates(table, t) == NewestRows(table, SeriesOf, t)

\* latest_ownership_snapshots_as_of
LatestOwnership(table, t) == NewestRows(table, SeriesOf, t)

\* The value a row of one series has, Missing without such a row.
ValueIn(rows, series) ==
    LET own == { r \in rows : r.series = series }
    IN  IF own = {} THEN Missing ELSE (CHOOSE r \in own : TRUE).value

\* estimate_revisions: no ratio to an estimate that is missing or zero.
Revisions(table, t) ==
    { LET ago == ValueIn(LatestEstimates(table, t - Lookback), r.series)
      IN  [series |-> r.series, now |-> r.value, ago |-> ago,
           revision |-> IF Missing \in {r.value, ago} \/ ago = 0 THEN Missing
                        ELSE <<r.value - ago, ago>>] :
      r \in LatestEstimates(table, t) }

\* The contributors with a number at the cutoff and one a window before.
Paired(table, t) ==
    { p \in NewestRows(table, ByContributor, t) \X NewestRows(table, ByContributor, t - Lookback) :
        /\ ByContributor(p[1]) = ByContributor(p[2])
        /\ Missing \notin {p[1].value, p[2].value} }

\* revision_breadth: raises minus cuts, over the contributors that changed.
Breadth(table, t) ==
    { LET own == { p \in Paired(table, t) : p[1].series = series }
          raises == Cardinality({ p \in own : p[1].value > p[2].value })
          cuts == Cardinality({ p \in own : p[1].value < p[2].value })
      IN  [series |-> series, raises |-> raises, cuts |-> cuts, paired |-> Cardinality(own),
           breadth |-> IF raises + cuts = 0 THEN Missing ELSE <<raises - cuts, raises + cuts>>] :
      series \in { p[1].series : p \in Paired(table, t) } }

(* insider_activity: nothing is known without a classified transaction     *)
(* that has a value, and only a part of it where some are unclassified or  *)
(* without one.                                                            *)
InsiderActivity(table, t) ==
    LET window == { i \in DOMAIN table : table[i].available \in (t - Lookback)..t }
        classified == { i \in window : table[i].action # "neither" }
        valued(action) == { i \in window : table[i].action = action /\ table[i].value # Missing }
        total(action) == SumFunction([i \in valued(action) |-> table[i].value])
        unvalued == { i \in classified : table[i].value = Missing }
    IN  IF valued("buy") \cup valued("sell") = {}
        THEN [status |-> "UNKNOWN", buy |-> Missing, sell |-> Missing]
        ELSE [status |-> IF unvalued # {} \/ classified # window THEN "PARTIAL" ELSE "OK",
              buy |-> total("buy"), sell |-> total("sell")]

\* short_interest_metrics of the newest snapshot of every series.
ShortInterest(table, t) ==
    { LET percent == IF r.percent # Missing /\ r.percent > WholeFloat THEN Missing ELSE r.percent
          numbers == <<r.short, percent, r.cover, r.prior>>
          known == Cardinality({ i \in 1..4 : numbers[i] # Missing })
      IN  [series |-> r.series, numbers |-> numbers,
           change |-> IF Missing \in {r.short, r.prior} THEN Missing ELSE r.short - r.prior,
           status |-> IF known = 0 THEN "UNKNOWN" ELSE IF known < 4 THEN "PARTIAL" ELSE "OK"] :
      r \in LatestOwnership(table, t) }

\* Everything the methods say at a cutoff.
VendorAnswers(tables, t) ==
    [revisions |-> Revisions(tables.estimates, t), breadth |-> Breadth(tables.estimates, t),
     insiders |-> InsiderActivity(tables.transactions, t),
     short |-> ShortInterest(tables.ownership, t)]
=============================================================================
