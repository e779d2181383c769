---------------------------- MODULE ResearchCards ----------------------------
(***************************************************************************)
(* From the numbers of a security to the morning brief: signals, thesis    *)
(* relevance and materiality become findings, the findings of a security   *)
(* one card, and the cards that are more than routine the brief.           *)
(*                                                                         *)
(* A full anomaly, four standard deviations or a fifth of relative return, *)
(* is FullScore steps; position weights are squares of hundredths, so that *)
(* the modifier is a whole number of tenths.                               *)
(***************************************************************************)
EXTENDS ThesisRelevance, Sequences

CONSTANTS
    FullScore,    \* steps of a full anomaly
    Components,   \* the weight of every component, in hundredths
    Labels,       \* thresholds of the base score, each [tier, minimum]
    Securities,   \* ordered
    Snapshots,    \* what a day may bring, each a PriceResearchSnapshot
    Weights,      \* position weights, None if it is not held
    Limit,        \* the cards a brief shows
    MaxFindings   \* bound: findings in all

(* The value of every feature that could be calculated, the session it is  *)
(* about and the number of returns behind it.                              *)
PriceResearchSnapshot(x) ==
    /\ DOMAIN x.values \subseteq Features /\ \A n \in DOMAIN x.values : x.values[n] \in Int
    /\ x.session \in Nat /\ x.observations \in Nat

SignalFeatures == {"residual", "volume", "relative"}

ASSUME CardAssumption ==
    /\ SignalFeatures \subseteq Features
    /\ FullScore \in Nat \ {0} /\ Unit % FullScore = 0
    /\ Components \in [{"abnormal_price", "abnormal_volume", "factor_change",
                        "event_novelty", "thesis_relevance", "other"} -> Nat]
    /\ MapThenSumSet(LAMBDA c : Components[c], DOMAIN Components) = 100
    /\ \A l \in Labels : l.tier \in 0..3 /\ l.minimum \in 0..100
    /\ \E l \in Labels : l.minimum = 0
    /\ \A x \in Snapshots : PriceResearchSnapshot(x)
    /\ \A w \in Weights \ {None} : \E r \in 0..10 : Magnitude(w) = r * r
    /\ Securities \subseteq Nat /\ IsFiniteSet(Securities)
    /\ Limit \in Nat \ {0} /\ MaxFindings \in Nat

VARIABLES
    thesis,    \* the content selected for each security, None without one
    held,      \* the weight of each security
    findings,  \* the snapshots behind the findings of each security
    cards      \* the card of each security, None before it is built

cardVars == <<thesis, held, findings, cards>>

-----------------------------------------------------------------------------
Capped(x) == IF x > Unit THEN Unit ELSE x

\* price_signal_strengths: the size of each anomaly, capped at one.
Strengths(snapshot) ==
    [n \in SignalFeatures \cap DOMAIN snapshot.values |->
       Capped(Magnitude(snapshot.values[n]) * (Unit \div FullScore))]

Assessment(content, snapshot) ==
    IF content = None THEN None ELSE Assess(content, Strengths(snapshot), snapshot.values)

\* The components that are present: rarity stands for novelty.
Scores(content, snapshot) ==
    LET strengths == Strengths(snapshot)
        of(component, names) ==
          { [component |-> component, score |-> Max({ strengths[n] : n \in names \cap DOMAIN strengths })] :
            x \in { 1 : n \in names \cap DOMAIN strengths } }
    IN  of("abnormal_price", {"residual"}) \cup of("abnormal_volume", {"volume"})
          \cup of("factor_change", {"relative"}) \cup of("event_novelty", {"residual", "volume"})
          \cup (IF content = None THEN {}
                ELSE { [component |-> "thesis_relevance",
                        score |-> Assessment(content, snapshot).score] })

Completeness(scores) == MapThenSumSet(LAMBDA s : Components[s.component], scores)

\* Defect: the weights of the components present are made to sum to one.
RawScore_Renormalized(scores) ==
    IF scores = {} THEN 0
    ELSE (100 * MapThenSumSet(LAMBDA s : s.score * Components[s.component], scores))
           \div Completeness(scores)

\* Hundredths of a score: a missing component contributes zero.
RawScore(scores) == MapThenSumSet(LAMBDA s : s.score * Components[s.component], scores)

\* Tenths: short positions count like long ones, unheld ones not.
Modifier(weight) ==
    10 + (IF weight = None THEN 0 ELSE CHOOSE r \in 0..10 : r * r = Magnitude(weight))

\* The first label whose inclusive lower bound is met.
TierOf(raw) ==
    LET met == { l \in Labels : l.minimum * Unit <= raw }
    IN  (CHOOSE l \in met : \A m \in met : m.minimum <= l.minimum).tier

\* Defect: the tier is read off the priority.
TierScore_Priority(raw, weight) == (raw * Modifier(weight)) \div 10

\* What the tier is read off.
TierScore(raw, weight) == raw

Category(snapshot) ==
    LET large(n) == n \in DOMAIN snapshot.values /\ 2 * Magnitude(snapshot.values[n]) >= FullScore
    IN  IF large("residual") THEN "price_anomaly"
        ELSE IF large("volume") THEN "volume_anomaly" ELSE "other"

\* 0 low, 1 medium, 2 high.
Confidence(snapshot, scores) ==
    IF snapshot.observations >= 252 /\ Completeness(scores) >= 35 THEN 2
    ELSE IF snapshot.observations >= 126 THEN 1 ELSE 0

\* build_price_finding
FindingOf(content, weight, snapshot) ==
    LET scores == Scores(content, snapshot)
        raw == RawScore(scores)
    IN  [snapshot |-> snapshot, category |-> Category(snapshot), raw |-> raw,
         completeness |-> Completeness(scores), priority |-> raw * Modifier(weight),
         tier |-> TierOf(TierScore(raw, weight)), confidence |-> Confidence(snapshot, scores),
         assessment |-> Assessment(content, snapshot)]

FindingsOf(s) == { FindingOf(thesis[s], held[s], x) : x \in findings[s] }

-----------------------------------------------------------------------------
\* By relevance, assessments without a primary node last, then by node.
LeadingAssessment(assessments) ==
    LET best == { a \in assessments : \A b \in assessments : b.score <= a.score }
        named == { a \in best : a.primary # None }
    IN  IF named = {} THEN CHOOSE a \in best : TRUE
        ELSE CHOOSE a \in named : \A b \in named : a.primary <= b.primary

\* The lead has the highest priority; equal ones are told apart by key.
LeadCategories(found) ==
    { f.category : f \in { g \in found : \A h \in found : h.priority <= g.priority } }

(* build_research_card over the findings of one security.                  *)
CardOf(found) ==
    LET assessments == { f.assessment : f \in found } \ {None}
        matched == { c \in UNION { a.contributions : a \in assessments } : c.matched # {} }
        primary == LeadingAssessment(assessments)
    IN  [session |-> Max({ f.snapshot.session : f \in found }),
         tier |-> Max({ f.tier : f \in found }),
         confidence |-> Min({ f.confidence : f \in found }),
         leads |-> LeadCategories(found),
         impact |-> IF assessments = {} THEN "none" ELSE primary.impact,
         node |-> IF assessments = {} THEN None ELSE primary.primary,
         nodes |-> { c.node : c \in matched }]

\* The brief's order: tier, then session, then security.
Precedes(s, u) ==
    \/ cards[s].tier > cards[u].tier
    \/ cards[s].tier = cards[u].tier /\ cards[s].session < cards[u].session
    \/ cards[s].tier = cards[u].tier /\ cards[s].session = cards[u].session /\ s < u

\* Cards that are more than routine.
Shown == { s \in Securities : cards[s] # None /\ cards[s].tier > 0 }

\* Defect: the limit is applied to the cards as they come.
Brief_Unsorted ==
    { s \in Shown : Cardinality({ u \in Shown : u < s }) < Limit }

\* build_morning_brief: the securities whose cards it shows.
Brief == { s \in Shown : Cardinality({ u \in Shown : Precedes(u, s) }) < Limit }

-----------------------------------------------------------------------------
Init ==
    /\ thesis \in [Securities -> Contents \cup {None}]
    /\ held \in [Securities -> Weights]
    /\ findings = [s \in Securities |-> {}]
    /\ cards = [s \in Securities |-> None]

Find(s) ==
    /\ cards[s] = None
    /\ MapThenSumSet(LAMBDA u : Cardinality(findings[u]), Securities) < MaxFindings
    /\ \E x \in Snapshots \ findings[s] :
         findings' = [findings EXCEPT ![s] = @ \cup {x}]
    /\ UNCHANGED <<thesis, held, cards>>

BuildCard(s) ==
    /\ cards[s] = None /\ findings[s] # {}
    /\ cards' = [cards EXCEPT ![s] = CardOf(FindingsOf(s))]
    /\ UNCHANGED <<thesis, held, findings>>

Next == \E s \in Securities : Find(s) \/ BuildCard(s)

Spec == Init /\ [][Next]_cardVars

TypeOK ==
    /\ thesis \in [Securities -> Contents \cup {None}]
    /\ held \in [Securities -> Weights]
    /\ findings \in [Securities -> SUBSET Snapshots]
    /\ \A s \in Securities : IsFiniteSet(findings[s])
    /\ cards = [s \in Securities |-> cards[s]]

-----------------------------------------------------------------------------
\* The validators of ResearchFinding and its MaterialityScore.
FindingAccepted(f) ==
    /\ f.raw \in 0..(100 * Unit) /\ f.completeness \in 0..100
    /\ f.assessment # None => AssessmentAccepted(f.assessment)

\* The validators of ResearchCard, given whether it has a thesis version.
CardAccepted(card, hasThesis) ==
    /\ card.node # None => card.node \in card.nodes
    /\ ~hasThesis => card.node = None /\ card.nodes = {}
    /\ card.impact # "none" => hasThesis /\ card.node # None

(* What the pipeline builds, the domain objects accept, whatever is        *)
(* missing: the score and the completeness of a finding are at most one,   *)
(* its assessment has the lineage it needs, and a card that reports an     *)
(* impact names the matched node it comes from.                            *)
PipelineAccepted ==
    /\ \A s \in Securities : \A f \in FindingsOf(s) : FindingAccepted(f)
    /\ \A s \in { u \in Securities : cards[u] # None } :
         CardAccepted(cards[s], thesis[s] # None)

\* x has every value of y and perhaps more.
Extends(x, y) ==
    \A n \in DOMAIN y.values : n \in DOMAIN x.values /\ x.values[n] = y.values[n]

(* "Renormalizing available components would make a sparse finding appear  *)
(* more material than a fully observed one": a finding with more of the    *)
(* features has at least the base score, the tier, the relevance and the   *)
(* completeness of one with fewer.                                         *)
EvidenceOnlyAdds ==
    \A s \in Securities : \A f, g \in FindingsOf(s) :
      Extends(f.snapshot, g.snapshot) =>
        /\ f.raw >= g.raw /\ f.tier >= g.tier /\ f.completeness >= g.completeness
        /\ f.assessment # None => f.assessment.score >= g.assessment.score

(* "Portfolio weight modifies priority, not underlying research            *)
(* materiality": the same findings about the same thesis give the same     *)
(* card, lead included, however large or small, long or short the position.*)
WeightOnlyPrioritizes ==
    \A s, u \in Securities :
      (/\ cards[s] # None /\ cards[u] # None
       /\ thesis[s] = thesis[u] /\ findings[s] = findings[u]) => cards[s] = cards[u]

Breached(rule, snapshot) ==
    /\ rule.feature \in DOMAIN snapshot.values
    /\ IF rule.comparator = "gte" THEN snapshot.values[rule.feature] >= rule.breach
                                  ELSE snapshot.values[rule.feature] <= rule.breach

(* A breach of an invalidation rule reaches the card: whatever else its    *)
(* findings say, it reports the highest impact and lists the rule.  And a  *)
(* card reports no impact only if nothing that is watched has moved.       *)
BreachReachesCard ==
    \A s \in { u \in Securities : cards[u] # None /\ thesis[u] # None } :
      /\ \A n \in thesis[s] : \A x \in findings[s] :
           (n.kind = "invalidation_rule" /\ Breached(n, x)) =>
             cards[s].impact = ImpactFor(Unit) /\ n.id \in cards[s].nodes
      /\ cards[s].impact = "none" =>
           \A n \in { m \in thesis[s] : m.kind # "invalidation_rule" }, x \in findings[s] :
             \A q \in n.features \cap DOMAIN Strengths(x) : x.values[q] = 0

(* The limit never hides a card behind one of a lower tier, and the brief  *)
(* has as many cards as there are, up to the limit.                        *)
BriefKeepsTiers ==
    /\ \A s \in Shown \ Brief, u \in Brief : cards[s].tier <= cards[u].tier
    /\ Cardinality(Brief) = Min({Limit, Cardinality(Shown)})
=============================================================================
