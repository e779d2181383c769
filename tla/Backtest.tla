------------------------------- MODULE Backtest -------------------------------
(***************************************************************************)
(* The cross-sectional backtest over the panels of the feature store: at   *)
(* every decision the panel is ranked, one tail is bought and the other    *)
(* sold, and the weights are executed a row of the returns later.          *)
(*                                                                         *)
(* Weights are whole multiples of 1/Unit.                                  *)
(***************************************************************************)
EXTENDS Screens, Functions, TLC

CONSTANTS
    Unit,       \* divisible by the size of every tail
    Decisions,  \* the instants at which a panel is taken
    Calendar,   \* the instants of the returns
    Period,     \* the week or the month of an instant
    Specs       \* the backtests run, each a BacktestSpec

BacktestSpec ==
    [feature : FeatureNames, version : Versions, config : Configs,
     start : Times, end : Times, quantiles : 2..20, high : BOOLEAN,
     rebalance : {"daily", "last of period"}, minimumNames : Nat]

ASSUME BacktestAssumption ==
    /\ Decisions \subseteq Times /\ Calendar \subseteq Times
    /\ Period \in [Times -> Nat]
    /\ Specs \subseteq BacktestSpec
    /\ \A spec \in Specs : spec.start < spec.end /\ spec.minimumNames >= 4
    /\ IsFiniteSet(Securities) /\ Unit \in Nat
    /\ \A k \in 1..Cardinality(Securities) : Unit % k = 0

-----------------------------------------------------------------------------
(* The frame a backtest is given: the panels at the decisions, without the *)
(* rows that have no value.                                                *)
CrossSections(stored, spec) ==
    [t \in Decisions |->
       { r \in PanelAsOf(stored, spec.feature :> spec.version, spec.config, t) : r.value # None }]

\* The guard of the engine; every row of a panel passes it.
PointInTime(frame) == \A t \in Decisions : \A r \in frame[t] : r.available <= t

\* One row per security and decision.
NoDuplicates(frame) ==
    \A t \in Decisions : \A r, q \in frame[t] : r.security = q.security => r = q

BacktestRefused(stored, spec) ==
    \/ \E t \in Decisions : PanelRefused(stored, spec.feature :> spec.version, spec.config, t)
    \/ ~PointInTime(CrossSections(stored, spec))
    \/ ~NoDuplicates(CrossSections(stored, spec))

\* The decisions with a cross-section that the window of the spec holds.
Decided(spec, frame) ==
    { t \in Decisions : spec.start <= t /\ t <= spec.end /\ frame[t] # {} }

\* All decisions, or the last one of every period.
Selected(spec, frame) ==
    LET decided == Decided(spec, frame)
    IN  IF spec.rebalance = "daily" THEN decided
        ELSE { t \in decided : \A u \in decided : Period[u] = Period[t] => u <= t }

-----------------------------------------------------------------------------
\* Twice the average rank of a row, which ties share.
TwiceRank(rows, r) ==
    2 * Cardinality({ q \in rows : q.value < r.value })
      + Cardinality({ q \in rows : q.value = r.value }) + 1

\* Defect: the upper tail begins at its boundary.
High_Closed(spec, rows) ==
    { r.security : r \in { q \in rows : spec.quantiles * TwiceRank(rows, q)
                             >= 2 * (spec.quantiles - 1) * Cardinality(rows) } }

\* The percentile of the rank is above 1 - 1/quantiles, or at most 1/quantiles.
High(spec, rows) ==
    { r.security : r \in { q \in rows : spec.quantiles * TwiceRank(rows, q)
                             > 2 * (spec.quantiles - 1) * Cardinality(rows) } }

Low(spec, rows) ==
    { r.security : r \in { q \in rows :
                             spec.quantiles * TwiceRank(rows, q) <= 2 * Cardinality(rows) } }

\* Too few names, or a tail without any.
Skipped(spec, rows) ==
    \/ Cardinality(rows) < spec.minimumNames
    \/ High(spec, rows) = {} \/ Low(spec, rows) = {}

\* The short side is assigned after the long one.
Target(spec, rows) ==
    LET long  == IF spec.high THEN High(spec, rows) ELSE Low(spec, rows)
        short == IF spec.high THEN Low(spec, rows) ELSE High(spec, rows)
    IN  [s \in Securities |-> IF s \in short THEN -(Unit \div Cardinality(short))
                              ELSE IF s \in long THEN Unit \div Cardinality(long)
                              ELSE 0]

\* The targets of the decisions that are not skipped.
Targets(stored, spec) ==
    LET frame == CrossSections(stored, spec)
    IN  [t \in { u \in Selected(spec, frame) : ~Skipped(spec, frame[u]) } |->
           Target(spec, frame[t])]

-----------------------------------------------------------------------------
Flat == [s \in Securities |-> 0]

Rows(spec) == { t \in Calendar : spec.start <= t /\ t <= spec.end }

NewestOf(instants) == CHOOSE t \in instants : \A u \in instants : u <= t

\* The newest target up to an instant, cash before the first.
CarriedForward(targets, t) ==
    LET earlier == { u \in DOMAIN targets : u <= t }
    IN  IF earlier = {} THEN Flat ELSE targets[NewestOf(earlier)]

(* The target in force at each row of the returns.  The targets are        *)
(* aligned with these rows before they are carried forward, so a decision  *)
(* beside the calendar is not among them.                                  *)
InForce(stored, spec) ==
    LET aligned == Restrict(Targets(stored, spec), DOMAIN Targets(stored, spec) \cap Rows(spec))
    IN  [t \in Rows(spec) |-> CarriedForward(aligned, t)]

\* Defect: weights trade at the close they were calculated from.
Executed_SameRow(stored, spec) == InForce(stored, spec)

\* The weights of a row are the targets of the row before.
Executed(stored, spec) ==
    LET inForce == InForce(stored, spec)
        before(t) == { u \in Rows(spec) : u < t }
    IN  [t \in Rows(spec) |-> IF before(t) = {} THEN Flat ELSE inForce[NewestOf(before(t))]]

Magnitude(x) == IF x < 0 THEN -x ELSE x

\* Twice the turnover of a row: the absolute change since the row before.
TwiceTurnover(spec, weights, t) ==
    LET before == { u \in Rows(spec) : u < t }
        previous == IF before = {} THEN Flat ELSE weights[NewestOf(before)]
    IN  SumFunction([s \in Securities |-> Magnitude(weights[t][s] - previous[s])])

-----------------------------------------------------------------------------
(* The strategy is dollar neutral and fully invested or in cash: ties and  *)
(* small cross-sections never put a name in both tails or empty one.  So a *)
(* rebalance turns over twice the capital at the most.                     *)
NeutralOrFlat ==
    \A spec \in Specs : ~BacktestRefused(features, spec) =>
      LET weights == Executed(features, spec)
      IN  \A t \in Rows(spec) :
            /\ SumFunction(weights[t]) = 0
            /\ SumFunction([s \in Securities |-> Magnitude(weights[t][s])]) \in {0, 2 * Unit}
            /\ TwiceTurnover(spec, weights, t) <= 4 * Unit

(* No look-ahead: what only becomes known after an instant leaves the      *)
(* weights up to the first row after it as they are - except where the     *)
(* last decision of a period replaces an earlier one of the same period,   *)
(* whose rows then lose the target they would have traded on.              *)
NoLookAhead ==
    [][\A spec \in Specs :
         (~BacktestRefused(features, spec) /\ ~BacktestRefused(features', spec)) =>
           LET old == Executed(features, spec)
               new == Executed(features', spec)
               selected == Selected(spec, CrossSections(features, spec))
               reselected == Selected(spec, CrossSections(features', spec))
           IN  \A t \in Times : (\A r \in Added : r.available > t) =>
                 \/ selected \ reselected # {}
                 \/ \A u \in Rows(spec) :
                      (\A v \in Rows(spec) : v < u => v <= t) => new[u] = old[u]]_panelVars

(* "Between rebalance dates the previous target remains in force", from    *)
(* the row after its decision on, whatever instant the decision was made   *)
(* at.                                                                     *)
TargetRemainsInForce ==
    \A spec \in Specs : ~BacktestRefused(features, spec) =>
      LET weights == Executed(features, spec)
      IN  \A t \in Rows(spec) :
            \E v \in Rows(spec) \cup {-1} :
              /\ v < t /\ \A u \in Rows(spec) : u < t => u <= v
              /\ weights[t] = CarriedForward(Targets(features, spec), v)
=============================================================================
