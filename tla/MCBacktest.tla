------------------------------ MODULE MCBacktest ------------------------------
(* Four securities, the fewest a backtest accepts, and two features: one   *)
(* that is screened and ranked and one that is only required.              *)
EXTENDS PointInTime

f == 1
g == 2

Of(values) == [s \in 1..Len(values) |-> values[s]]

SectionOf(name, version, values) ==
    [name |-> name, version |-> version, config |-> "v0", values |-> Of(values)]

\* Distinct values, ties across the middle, one value missing, the second
\* feature for some of the securities, and another version of the first.
MCSections ==
    { SectionOf(f, "a", <<1, 2, 3, 4>>), SectionOf(f, "a", <<3, 2, 2, 1>>),
      SectionOf(f, "a", <<1, 2, None, 3>>), SectionOf(f, "b", <<4, 3, 2, 1>>),
      SectionOf(g, "a", <<1, 1>>) }

MCRegistry == {<<f, "a">>, <<f, "b">>, <<g, "a">>}

Bounds(feature, least, most) == [feature |-> feature, least |-> least, most |-> most]

ScreenOf(criteria, requires, missing) ==
    [criteria |-> criteria, requires |-> requires, rank |-> f, ascending |-> FALSE, limit |-> 2,
     missing |-> missing, enabled |-> TRUE, config |-> "v0",
     versions |-> [n \in {f} \cup requires |-> "a"]]

MCDefinitions ==
    { ScreenOf({Bounds(f, 2, None)}, {}, "exclude"), ScreenOf({Bounds(f, None, 3)}, {g}, "exclude"),
      ScreenOf({Bounds(f, None, None)}, {}, "fail") }

SpecOf(rebalance, quantiles) ==
    [feature |-> f, version |-> "a", config |-> "v0", start |-> 0, end |-> MaxTime,
     quantiles |-> quantiles, high |-> TRUE, rebalance |-> rebalance, minimumNames |-> 4]

MCHistories == {<<t>> : t \in Times} \cup {<<0, MaxTime>>}

MCSpecs == { SpecOf("daily", 2), SpecOf("last of period", 4) }

\* Two periods of two instants.
MCPeriod == [t \in Times |-> t \div 2]

Quote(contributor, value, available) ==
    [series |-> "eps", contributor |-> contributor, value |-> value, available |-> available]

Trade(action, value, available) == [action |-> action, value |-> value, available |-> available]

Owned(short, percent, available) ==
    [series |-> "eps", short |-> short, percent |-> percent, cover |-> 1, prior |-> 2,
     available |-> available]

Batch(estimates, transactions, ownership) ==
    [estimates |-> estimates, transactions |-> transactions, ownership |-> ownership]

\* First estimates; revisions, one of them a withdrawal; a backfill with
\* ties; transactions of every kind and a restated ownership snapshot.
MCVendorBatches ==
    { Batch(<<Quote("x", 1, 0), Quote("y", 2, 0)>>, <<Trade("buy", 2, 0)>>, <<>>),
      Batch(<<Quote("x", 3, 2), Quote("y", None, 2)>>, <<Trade("sell", None, 2)>>,
            <<Owned(3, 9, 2)>>),
      Batch(<<Quote("x", 2, 1), Quote("y", 1, 1)>>, <<Trade("neither", 1, 1)>>,
            <<Owned(None, 4, 1)>>),
      Batch(<<Quote("x", 0, 1), Quote("x", 1, 1)>>, <<>>, <<Owned(1, 1, 3)>>) }
=============================================================================
