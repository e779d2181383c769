--------------------------- MODULE ThesisRelevance ---------------------------
(***************************************************************************)
(* How much what a security did matters to the thesis held about it: every *)
(* driver, risk and invalidation rule of the selected version contributes, *)
(* and the largest contribution is the relevance.                          *)
(*                                                                         *)
(* Scores are whole multiples of 1/Unit.                                   *)
(***************************************************************************)
EXTENDS Integers, FiniteSets, FiniteSetsExt

CONSTANTS
    None,
    Unit,      \* the score of one
    Features,  \* names of features
    Impacts,   \* the labels of the configuration, each [name, minimum]
    Contents   \* contents of thesis versions, each a set of nodes

SignalNode == [id : Nat, kind : {"driver", "risk"}, features : SUBSET Features]

RuleNode == [id : Nat, kind : {"invalidation_rule"}, feature : Features,
             comparator : {"gte", "lte"}, warning : Int, breach : Int]

\* ThesisInvalidationRule: a breach lies beyond the warning.
ThresholdsOrdered(rule) ==
    IF rule.comparator = "gte" THEN rule.warning < rule.breach ELSE rule.breach < rule.warning

Magnitude(x) == IF x < 0 THEN -x ELSE x

\* Every label but "none" once, from the highest minimum down to zero.
ValidImpacts ==
    /\ \A i \in Impacts : i.name # "none" /\ i.minimum \in 0..Unit
    /\ \A i, j \in Impacts : i # j => i.name # j.name /\ i.minimum # j.minimum
    /\ \E i \in Impacts : i.minimum = 0

ASSUME RelevanceAssumption ==
    /\ Unit \in Nat \ {0} /\ ValidImpacts
    /\ \A content \in Contents :
         /\ \A n \in content : n \in SignalNode \/ n \in RuleNode
         /\ \A n, m \in content : n # m => n.id # m.id
         /\ \A n \in content : n.kind = "invalidation_rule" =>
              ThresholdsOrdered(n) /\ Unit % Magnitude(n.breach - n.warning) = 0

-----------------------------------------------------------------------------
LargestOr(scores, default) == IF scores = {} THEN default ELSE Max(scores)

\* A driver or a risk contributes the strongest of its signals, none is 0.
SignalContribution(node, strengths) ==
    LET matched == node.features \cap DOMAIN strengths
    IN  [node |-> node.id, score |-> LargestOr({ strengths[n] : n \in matched }, 0),
         matched |-> matched]

Clamped(x) == IF x < 0 THEN 0 ELSE IF x > Unit THEN Unit ELSE x

\* Defect: the comparator of the rule is ignored.
Proximity_Upwards(rule, value) ==
    ((value - rule.warning) * Unit) \div Magnitude(rule.breach - rule.warning)

\* How far a value has come from the warning to the breach.
Proximity(rule, value) ==
    (IF rule.comparator = "gte" THEN (value - rule.warning) * Unit
                                ELSE (rule.warning - value) * Unit)
      \div Magnitude(rule.breach - rule.warning)

\* A rule without its feature is not evaluated.
RuleContribution(rule, values) ==
    IF rule.feature \in DOMAIN values
    THEN [node |-> rule.id, score |-> Clamped(Proximity(rule, values[rule.feature])),
          matched |-> {rule.feature}]
    ELSE [node |-> rule.id, score |-> None, matched |-> {}]

Contributions(content, strengths, values) ==
    { SignalContribution(n, strengths) : n \in { m \in content : m.kind # "invalidation_rule" } }
      \cup { RuleContribution(n, values) : n \in { m \in content : m.kind = "invalidation_rule" } }

ImpactFor(score) ==
    IF score = 0 THEN "none"
    ELSE LET met == { i \in Impacts : i.minimum <= score }
         IN  (CHOOSE i \in met : \A j \in met : j.minimum <= i.minimum).name

\* Among equal scores the first node wins.
FirstBest(contributions) ==
    LET best == { c \in contributions : \A d \in contributions : d.score <= c.score }
    IN  CHOOSE c \in best : \A d \in best : c.node <= d.node

\* Defect: a node without a matched feature may be the primary one.
Primary_Unmatched(contributions) ==
    LET scored == { c \in contributions : c.score # None }
    IN  IF scored = {} THEN None ELSE FirstBest(scored).node

Primary(contributions) ==
    LET matched == { c \in contributions : c.matched # {} }
    IN  IF matched = {} THEN None ELSE FirstBest(matched).node

Assess(content, strengths, values) ==
    LET contributions == Contributions(content, strengths, values)
        score == LargestOr({ c.score : c \in { d \in contributions : d.score # None } }, 0)
    IN  [contributions |-> contributions, score |-> score, impact |-> ImpactFor(score),
         primary |-> Primary(contributions)]

ThesisNodeContribution ==
    [node : Nat, score : 0..Unit \cup {None}, matched : SUBSET Features]

ThesisRelevanceAssessment ==
    [contributions : SUBSET ThesisNodeContribution, score : 0..Unit,
     impact : {"none"} \cup { i.name : i \in Impacts }, primary : Nat \cup {None}]

\* None is a value of its own.
ASSUME NoneAssumption ==
    None \notin Int /\ None \notin Contents /\ None \notin ThesisRelevanceAssessment

(* The validators of ThesisRelevanceAssessment and of the contributions.   *)
AssessmentAccepted(a) ==
    LET scored == { c \in a.contributions : c.score # None }
        matched == { c \in scored : c.matched # {} }
    IN  /\ \A c \in scored : c.score \in 0..Unit
        /\ \A c, d \in a.contributions : c # d => c.node # d.node
        /\ a.score = LargestOr({ c.score : c \in scored }, 0)
        /\ a.primary = IF matched = {} THEN None ELSE FirstBest(matched).node
=============================================================================
