--------------------------- MODULE MCResearchCards ---------------------------
(* Two securities, two findings in all, and the default weights.           *)
EXTENDS ResearchCards, TLC

MCComponents ==
    [c \in {"abnormal_price", "abnormal_volume", "factor_change", "event_novelty",
            "thesis_relevance", "other"} |->
       CASE c \in {"abnormal_price", "thesis_relevance"} -> 15
         [] c = "other" -> 40
         [] OTHER -> 10]

Label(tier, minimum) == [tier |-> tier, minimum |-> minimum]

\* Closer together than the default, whose higher tiers prices do not reach.
MCLabels == {Label(3, 50), Label(2, 40), Label(1, 30), Label(0, 0)}

MCImpacts ==
    { [name |-> "high", minimum |-> 3], [name |-> "moderate", minimum |-> 2],
      [name |-> "low", minimum |-> 0] }

Watch(id, kind, names) == [id |-> id, kind |-> kind, features |-> names]

Rule(id, name, comparator, warning, breach) ==
    [id |-> id, kind |-> "invalidation_rule", feature |-> name, comparator |-> comparator,
     warning |-> warning, breach |-> breach]

\* A driver and a risk; a rule each way, one on a feature that is no
\* signal; and a content without any node.
MCContents ==
    { {Watch(1, "driver", {"relative"}), Watch(2, "risk", {"volume", "residual"})},
      {Rule(1, "beta", "gte", 1, 3), Rule(2, "relative", "lte", 0, -2), Watch(3, "risk", {"volume"})},
      {} }

MCWeights == {None, -4, 9}

Some(name, values) == { [n \in {name} |-> v] : v \in values } \cup { [n \in {} |-> 0] }

MCSnapshots ==
    { [values |-> r @@ v @@ q @@ b, session |-> Cardinality(DOMAIN r),
       observations |-> 126 + 126 * Cardinality(DOMAIN v)] :
      r \in Some("residual", {-5}), v \in Some("volume", {2}), q \in Some("relative", {-4}),
      b \in Some("beta", {3}) }
=============================================================================
