------------------------- MODULE ResearchCardsProofs -------------------------
(***************************************************************************)
(* Proofs about ThesisRelevance and ResearchCards, for any securities,     *)
(* snapshots, thesis contents, weights and limits.                         *)
(***************************************************************************)
EXTENDS ResearchCards, FiniteLemmas, TLAPS

-----------------------------------------------------------------------------
(* A non-empty finite set of naturals is bounded, so Max finds its largest *)
(* element.                                                                *)
LEMMA MaxOfFinite ==
  ASSUME NEW S \in SUBSET Nat, IsFiniteSet(S), S # {}
  PROVE  Max(S) \in S /\ \A k \in S : Max(S) >= k
<1> DEFINE Good == { T \in SUBSET S : \E n \in Nat : \A k \in T : k <= n }
<1>1. {} \in Good
  OBVIOUS
<1>2. ASSUME NEW T \in Good, NEW x \in S \ T PROVE T \cup {x} \in Good
  <2>1. PICK n \in Nat : \A k \in T : k <= n
    OBVIOUS
  <2>2. n + x \in Nat /\ \A k \in T \cup {x} : k <= n + x
    BY <2>1
  <2>3. QED
    BY <2>2
<1>3. Good = SUBSET S
  <2>1. Good \in SUBSET (SUBSET S)
    OBVIOUS
  <2> HIDE DEF Good
  <2>2. QED
    BY <1>1, <1>2, <2>1, SubsetInduction
<1>4. PICK n \in Nat : \A k \in S : k <= n
  BY <1>3
<1>5. S \in SUBSET (0..n)
  BY <1>4
<1>6. \E m \in S : \A k \in S : m >= k
  BY <1>5, Largest
<1>7. QED
  BY <1>6 DEF Max

LEMMA MaxOfBounded ==
  ASSUME NEW n \in Nat, NEW S \in SUBSET (0..n), S # {}
  PROVE  Max(S) \in S /\ \A k \in S : Max(S) >= k
<1>1. \E m \in S : \A k \in S : m >= k
  BY Largest
<1>2. QED
  BY <1>1 DEF Max

LEMMA LargestOrDefault ==
  ASSUME NEW n \in Nat, NEW S \in SUBSET (0..n)
  PROVE  /\ LargestOr(S, 0) \in 0..n
         /\ \A k \in S : LargestOr(S, 0) >= k
         /\ S # {} => LargestOr(S, 0) \in S
         /\ S = {} => LargestOr(S, 0) = 0
<1>1. CASE S = {}
  BY <1>1 DEF LargestOr
<1>2. CASE S # {}
  BY <1>2, MaxOfBounded DEF LargestOr
<1>3. QED
  BY <1>1, <1>2

(* More scores have at least the same largest one.                         *)
LEMMA LargestOrMonotone ==
  ASSUME NEW n \in Nat, NEW S \in SUBSET (0..n), NEW T \in SUBSET (0..n), S \subseteq T
  PROVE  LargestOr(S, 0) <= LargestOr(T, 0)
<1>1. LargestOr(S, 0) \in 0..n /\ LargestOr(T, 0) \in 0..n
  BY LargestOrDefault
<1>2. CASE S = {}
  BY <1>1, <1>2, LargestOrDefault
<1>3. CASE S # {}
  <2>1. LargestOr(S, 0) \in T
    BY <1>3, LargestOrDefault
  <2>2. QED
    BY <1>1, <2>1, LargestOrDefault
<1>4. QED
  BY <1>2, <1>3

-----------------------------------------------------------------------------
(* Relevance: what the nodes of a content contribute.                      *)

\* What Assess is called with.
Evidence(strengths, values) ==
    /\ DOMAIN strengths \subseteq Features
    /\ \A n \in DOMAIN strengths : strengths[n] \in 0..Unit
    /\ \A n \in DOMAIN values : values[n] \in Int

Signals(content) == { n \in content : n.kind # "invalidation_rule" }

Rules(content) == { n \in content : n.kind = "invalidation_rule" }

LEMMA NodeKinds ==
  ASSUME NEW content \in Contents
  PROVE  /\ \A n \in Signals(content) : n \in SignalNode
         /\ \A n \in Rules(content) : n \in RuleNode /\ ThresholdsOrdered(n)
         /\ \A n \in content : n.id \in Nat
         /\ \A n, m \in content : n.id = m.id => n = m
BY RelevanceAssumption DEF Signals, Rules, SignalNode, RuleNode

LEMMA SignalContributes ==
  ASSUME NEW n \in SignalNode, NEW strengths, NEW values, Evidence(strengths, values)
  PROVE  LET c == SignalContribution(n, strengths)
         IN  /\ c \in ThesisNodeContribution /\ c.node = n.id /\ c.score \in 0..Unit
             /\ c.matched = n.features \cap DOMAIN strengths
             /\ c.matched = {} => c.score = 0
             /\ \A q \in c.matched : c.score >= strengths[q]
             /\ c.score = LargestOr({ strengths[q] : q \in n.features \cap DOMAIN strengths }, 0)
<1> DEFINE matched == n.features \cap DOMAIN strengths
           scores == { strengths[q] : q \in matched }
           c == SignalContribution(n, strengths)
<1>1. c = [node |-> n.id, score |-> LargestOr(scores, 0), matched |-> matched]
  BY DEF SignalContribution
<1>2. scores \in SUBSET (0..Unit) /\ Unit \in Nat
  BY RelevanceAssumption DEF Evidence
<1>3. \A q \in matched : strengths[q] \in scores
  OBVIOUS
<1>4. matched = {} => scores = {}
  OBVIOUS
<1>5. n.id \in Nat /\ matched \in SUBSET Features
  BY DEF SignalNode, Evidence
<1> HIDE DEF matched, scores, c
<1>6. /\ LargestOr(scores, 0) \in 0..Unit
      /\ \A k \in scores : LargestOr(scores, 0) >= k
      /\ scores = {} => LargestOr(scores, 0) = 0
  BY <1>2, LargestOrDefault
<1>7. c.node = n.id /\ c.score = LargestOr(scores, 0) /\ c.matched = matched
  BY <1>1
<1>8. c \in ThesisNodeContribution
  BY <1>1, <1>5, <1>6 DEF ThesisNodeContribution
<1>9. \A q \in matched : c.score >= strengths[q]
  BY <1>3, <1>6, <1>7
<1>10. matched = {} => c.score = 0
  BY <1>4, <1>6, <1>7
<1>11. QED
  BY <1>6, <1>7, <1>8, <1>9, <1>10 DEF c, matched, scores

LEMMA RuleContributes ==
  ASSUME NEW n \in RuleNode, ThresholdsOrdered(n),
         NEW strengths, NEW values, Evidence(strengths, values)
  PROVE  LET c == RuleContribution(n, values)
         IN  /\ c \in ThesisNodeContribution /\ c.node = n.id
             /\ n.feature \in DOMAIN values =>
                  /\ c.matched = {n.feature} /\ c.score \in 0..Unit
                  /\ c.score = Clamped(Proximity(n, values[n.feature]))
             /\ n.feature \notin DOMAIN values => c.matched = {} /\ c.score = None
<1> DEFINE c == RuleContribution(n, values)
<1>1. n.id \in Nat /\ n.feature \in Features
  BY DEF RuleNode
<1>2. CASE n.feature \in DOMAIN values
  <2> DEFINE p == Proximity(n, values[n.feature])
  <2>1. p \in Int
    <3> DEFINE d == Magnitude(n.breach - n.warning)
               v == values[n.feature]
    <3>1. v \in Int /\ n.warning \in Int /\ n.breach \in Int /\ Unit \in Nat
      BY <1>2, RelevanceAssumption DEF Evidence, RuleNode
    <3>2. d \in Nat /\ d > 0
      BY <3>1 DEF Magnitude, ThresholdsOrdered
    <3>3. (v - n.warning) * Unit \in Int /\ (n.warning - v) * Unit \in Int
      BY <3>1
    <3> HIDE DEF d, v
    <3>4. \A a \in Int : a \div d \in Int
      BY <3>2
    <3>5. QED
      BY <3>3, <3>4 DEF Proximity, d, v
  <2> HIDE DEF p
  <2>2. Clamped(p) \in 0..Unit
    BY <2>1, RelevanceAssumption DEF Clamped
  <2>3. c = [node |-> n.id, score |-> Clamped(p), matched |-> {n.feature}]
    BY <1>2 DEF RuleContribution, p
  <2>4. c \in ThesisNodeContribution
    BY <1>1, <2>2, <2>3 DEF ThesisNodeContribution
  <2> HIDE DEF c
  <2>5. c.node = n.id /\ c.score = Clamped(p) /\ c.matched = {n.feature}
    BY <2>3
  <2>6. QED
    BY <1>2, <2>2, <2>4, <2>5 DEF c, p
<1>3. CASE n.feature \notin DOMAIN values
  <2>1. c = [node |-> n.id, score |-> None, matched |-> {}]
    BY <1>3 DEF RuleContribution
  <2>2. c \in ThesisNodeContribution
    BY <1>1, <2>1 DEF ThesisNodeContribution
  <2> HIDE DEF c
  <2>3. c.node = n.id /\ c.score = None /\ c.matched = {}
    BY <2>1
  <2>4. QED
    BY <1>3, <2>2, <2>3 DEF c
<1>4. QED
  BY <1>2, <1>3

(* Contributions are well formed, one for a node, and what is matched or   *)
(* positive is scored.                                                     *)
LEMMA ContributionsSound ==
  ASSUME NEW content \in Contents, NEW strengths, NEW values, Evidence(strengths, values)
  PROVE  LET all == Contributions(content, strengths, values)
         IN  /\ all \in SUBSET ThesisNodeContribution
             /\ \A c \in all : c.node \in Nat /\ (c.score \in 0..Unit \/ c.score = None)
             /\ \A c, d \in all : c.node = d.node => c = d
             /\ \A c \in all : c.matched # {} => c.score # None
             /\ \A c \in all : c.score # None /\ c.score # 0 => c.matched # {}
<1> DEFINE all == Contributions(content, strengths, values)
<1>0. None \notin Int
  BY NoneAssumption
<1>1. \A c \in all : \/ \E n \in Signals(content) : c = SignalContribution(n, strengths)
                     \/ \E n \in Rules(content) : c = RuleContribution(n, values)
  BY DEF Contributions, Signals, Rules
<1>2. ASSUME NEW n \in Signals(content)
      PROVE  LET c == SignalContribution(n, strengths)
             IN  /\ c \in ThesisNodeContribution /\ c.node = n.id /\ c.score \in 0..Unit
                 /\ c.matched = {} => c.score = 0
  <2>1. n \in SignalNode
    BY NodeKinds
  <2>2. QED
    BY <2>1, SignalContributes
<1>3. ASSUME NEW n \in Rules(content)
      PROVE  LET c == RuleContribution(n, values)
             IN  /\ c \in ThesisNodeContribution /\ c.node = n.id
                 /\ \/ c.matched # {} /\ c.score \in 0..Unit
                    \/ c.matched = {} /\ c.score = None
  <2>1. n \in RuleNode /\ ThresholdsOrdered(n)
    BY NodeKinds
  <2>2. QED
    BY <2>1, RuleContributes
<1>4. Signals(content) \subseteq content /\ Rules(content) \subseteq content
      /\ \A n \in Signals(content) : n \notin Rules(content)
  BY DEF Signals, Rules
<1> HIDE DEF all
<1>5. all \in SUBSET ThesisNodeContribution
  BY <1>1, <1>2, <1>3
<1>6. \A c \in all : c.node \in Nat /\ (c.score \in 0..Unit \/ c.score = None)
  BY <1>5 DEF ThesisNodeContribution
<1>7. ASSUME NEW c \in all, NEW d \in all, c.node = d.node PROVE c = d
  <2>1. PICK n \in content : /\ c.node = n.id
                             /\ \/ n \in Signals(content) /\ c = SignalContribution(n, strengths)
                                \/ n \in Rules(content) /\ c = RuleContribution(n, values)
    BY <1>1, <1>2, <1>3, <1>4
  <2>2. PICK m \in content : /\ d.node = m.id
                             /\ \/ m \in Signals(content) /\ d = SignalContribution(m, strengths)
                                \/ m \in Rules(content) /\ d = RuleContribution(m, values)
    BY <1>1, <1>2, <1>3, <1>4
  <2>3. n = m
    BY <1>7, <2>1, <2>2, NodeKinds
  <2>4. QED
    BY <1>4, <2>1, <2>2, <2>3
<1>8. \A c \in all : c.matched # {} => c.score # None
  BY <1>0, <1>1, <1>2, <1>3
<1>9. \A c \in all : c.score # None /\ c.score # 0 => c.matched # {}
  BY <1>1, <1>2, <1>3
<1>10. QED
  BY <1>5, <1>6, <1>7, <1>8, <1>9 DEF all

-----------------------------------------------------------------------------
(* The assessment of a content.                                            *)

\* The largest score has a first node.
LEMMA FirstBestExists ==
  ASSUME NEW all, all # {}, \A c \in all : c.node \in Nat /\ c.score \in 0..Unit
  PROVE  /\ FirstBest(all) \in all
         /\ \A c \in all : FirstBest(all).score >= c.score
<1> DEFINE best == { c \in all : \A d \in all : d.score <= c.score }
           scores == { c.score : c \in all }
           nodes == { c.node : c \in best }
<1>1. scores \in SUBSET (0..Unit) /\ scores # {} /\ Unit \in Nat
  BY RelevanceAssumption
<1>2. \A c \in all : c.score \in scores
  OBVIOUS
<1>3. \A x \in scores : \E c \in all : c.score = x
  OBVIOUS
<1> HIDE DEF scores
<1>4. PICK x \in scores : \A y \in scores : x >= y
  BY <1>1, Largest
<1>5. PICK c \in all : c.score = x
  BY <1>3
<1>6. c \in best
  BY <1>2, <1>4, <1>5
<1>7. nodes \in SUBSET Nat /\ nodes # {}
  BY <1>6
<1>8. \A d \in best : d.node \in nodes
  OBVIOUS
<1>9. \A k \in nodes : \E d \in best : d.node = k
  OBVIOUS
<1> HIDE DEF nodes
<1>10. PICK k \in nodes : \A l \in nodes : k <= l
  BY <1>7, LeastNatural
<1>11. \E d \in best : \A e \in best : d.node <= e.node
  BY <1>8, <1>9, <1>10
<1> DEFINE chosen == CHOOSE d \in best : \A e \in best : d.node <= e.node
<1>12. FirstBest(all) = chosen
  BY DEF FirstBest
<1>13. chosen \in best
  <2> HIDE DEF best
  <2>1. QED
    BY <1>11
<1> HIDE DEF chosen
<1>14. chosen \in all /\ \A d \in all : d.score <= chosen.score
  BY <1>13
<1>15. QED
  BY <1>12, <1>14

LEMMA ImpactsOfScores ==
  ASSUME NEW score \in 0..Unit
  PROVE  /\ ImpactFor(score) \in {"none"} \cup { i.name : i \in Impacts }
         /\ ImpactFor(score) = "none" <=> score = 0
<1> DEFINE met == { i \in Impacts : i.minimum <= score }
           minima == { i.minimum : i \in met }
<1>1. /\ \A i \in Impacts : i.name # "none" /\ i.minimum \in 0..Unit
      /\ \E i \in Impacts : i.minimum = 0
      /\ Unit \in Nat
  BY RelevanceAssumption DEF ValidImpacts
<1>2. minima \in SUBSET (0..Unit) /\ minima # {}
  BY <1>1
<1>3. PICK x \in minima : \A y \in minima : x >= y
  BY <1>1, <1>2, Largest
<1>4. PICK i \in met : \A j \in met : j.minimum <= i.minimum
  BY <1>1, <1>3
<1> DEFINE chosen == CHOOSE k \in met : \A j \in met : j.minimum <= k.minimum
<1>5. chosen \in met
  <2> HIDE DEF met
  <2>1. QED
    BY <1>4
<1>6. score # 0 => ImpactFor(score) = chosen.name
  BY DEF ImpactFor
<1>7. score = 0 => ImpactFor(score) = "none"
  BY DEF ImpactFor
<1> HIDE DEF chosen
<1>8. QED
  BY <1>1, <1>5, <1>6, <1>7

\* What an assessment reports, it names the matched node of.
Reports(a) ==
    /\ a.impact = ImpactFor(a.score)
    /\ a.impact # "none" => a.primary # None
    /\ a.primary # None => \E c \in a.contributions : c.matched # {} /\ c.node = a.primary
    /\ \A c \in a.contributions : c.score # None => a.score >= c.score

LEMMA AssessSound ==
  ASSUME NEW content \in Contents, NEW strengths, NEW values, Evidence(strengths, values),
         NEW a, a = Assess(content, strengths, values)
  PROVE  /\ a \in ThesisRelevanceAssessment
         /\ AssessmentAccepted(a)
         /\ a.contributions = Contributions(content, strengths, values)
         /\ a.score = LargestOr({ c.score : c \in { d \in a.contributions : d.score # None } }, 0)
         /\ a.score \in 0..Unit
         /\ Reports(a)
<1> DEFINE all == Contributions(content, strengths, values)
           scored == { c \in all : c.score # None }
           scores == { c.score : c \in scored }
           matched == { c \in all : c.matched # {} }
<1>1. /\ all \in SUBSET ThesisNodeContribution
      /\ \A c \in all : c.node \in Nat /\ (c.score \in 0..Unit \/ c.score = None)
      /\ \A c, d \in all : c.node = d.node => c = d
      /\ \A c \in all : c.matched # {} => c.score # None
      /\ \A c \in all : c.score # None /\ c.score # 0 => c.matched # {}
  BY ContributionsSound
<1>2. a = [contributions |-> all, score |-> LargestOr(scores, 0),
           impact |-> ImpactFor(LargestOr(scores, 0)), primary |-> Primary(all)]
  BY DEF Assess
<1> HIDE DEF all
<1>3. scores \in SUBSET (0..Unit) /\ Unit \in Nat
  BY <1>1, RelevanceAssumption
<1>4. /\ LargestOr(scores, 0) \in 0..Unit
      /\ \A k \in scores : LargestOr(scores, 0) >= k
      /\ scores # {} => LargestOr(scores, 0) \in scores
      /\ scores = {} => LargestOr(scores, 0) = 0
  BY <1>3, LargestOrDefault
<1>5. \A c \in matched : c.node \in Nat /\ c.score \in 0..Unit
  BY <1>1
<1>6. Primary(all) = IF matched = {} THEN None ELSE FirstBest(matched).node
  BY DEF Primary
<1>7. matched # {} => FirstBest(matched) \in matched
  BY <1>5, FirstBestExists
<1>8. matched = { c \in scored : c.matched # {} }
  BY <1>1
<1>9. /\ a.contributions = all /\ a.score = LargestOr(scores, 0)
      /\ a.impact = ImpactFor(a.score) /\ a.primary = Primary(all)
  BY <1>2
<1>10. /\ a.impact \in {"none"} \cup { i.name : i \in Impacts }
       /\ a.impact = "none" <=> a.score = 0
  BY <1>4, <1>9, ImpactsOfScores
<1>11. None \notin Int
  BY NoneAssumption
<1>12. a.primary # None => a.primary \in Nat /\ \E c \in all : c.matched # {} /\ c.node = a.primary
  BY <1>1, <1>6, <1>7, <1>9
<1>13. a \in ThesisRelevanceAssessment
  <2> DEFINE labels == {"none"} \cup { i.name : i \in Impacts }
  <2>1. ImpactFor(LargestOr(scores, 0)) \in labels
    BY <1>9, <1>10
  <2>2. Primary(all) \in Nat \cup {None}
    BY <1>9, <1>12
  <2> HIDE DEF labels, scores
  <2>3. a \in [contributions : SUBSET ThesisNodeContribution, score : 0..Unit,
               impact : labels, primary : Nat \cup {None}]
    BY <1>1, <1>2, <1>4, <2>1, <2>2
  <2>4. QED
    BY <2>3 DEF ThesisRelevanceAssessment, labels
<1>14. a.impact # "none" => a.primary # None
  <2> SUFFICES ASSUME a.impact # "none" PROVE a.primary # None
    OBVIOUS
  <2>1. a.score # 0
    BY <1>10
  <2>2. PICK c \in scored : c.score # 0
    BY <1>4, <1>9, <2>1
  <2>3. matched # {}
    BY <1>1, <2>2
  <2>4. FirstBest(matched).node \in Nat
    BY <1>5, <1>7, <2>3
  <2> HIDE DEF matched
  <2>5. a.primary \in Nat
    BY <1>6, <1>9, <2>3, <2>4
  <2>6. QED
    BY <1>11, <2>5
<1>15. \A c \in all : c.score # None => a.score >= c.score
  BY <1>4, <1>9
<1>16. AssessmentAccepted(a)
  <2>1. \A c \in scored : c.score \in 0..Unit
    BY <1>1
  <2>2. \A c, d \in all : c # d => c.node # d.node
    BY <1>1
  <2>3. a.primary = IF matched = {} THEN None ELSE FirstBest(matched).node
    BY <1>6, <1>9
  <2>4. QED
    BY <1>8, <1>9, <2>1, <2>2, <2>3 DEF AssessmentAccepted
<1>17. a.score = LargestOr({ c.score : c \in { d \in a.contributions : d.score # None } }, 0)
  BY <1>9
<1>18. a.score \in 0..Unit /\ a.impact = ImpactFor(a.score)
  BY <1>4, <1>9
<1>19. a.contributions = Contributions(content, strengths, values)
  BY <1>9 DEF all
<1>20. Reports(a)
  BY <1>9, <1>12, <1>14, <1>15, <1>18 DEF Reports
<1> HIDE DEF scores, scored, matched
<1>21. QED
  BY <1>13, <1>16, <1>17, <1>18, <1>19, <1>20

-----------------------------------------------------------------------------
(* The sums of the model are sums.                                         *)
LEMMA ComponentWeights ==
  /\ IsFiniteSet(DOMAIN Components)
  /\ \A c \in DOMAIN Components : Components[c] \in Nat
<1> DEFINE one == {"abnormal_price"}
           two == one \cup {"abnormal_volume"}
           three == two \cup {"factor_change"}
           four == three \cup {"event_novelty"}
           five == four \cup {"thesis_relevance"}
           six == five \cup {"other"}
<1>1. DOMAIN Components = six /\ \A c \in six : Components[c] \in Nat
  BY CardAssumption
<1>2. \A T, x : IsFiniteSet(T) => IsFiniteSet(T \cup {x})
  BY FS_AddElement
<1>3. IsFiniteSet(one)
  BY FS_Singleton
<1>4. IsFiniteSet(two)
  BY <1>2, <1>3
<1>5. IsFiniteSet(three)
  <2> HIDE DEF two
  <2>1. QED
    BY <1>2, <1>4
<1>6. IsFiniteSet(four)
  <2> HIDE DEF three
  <2>1. QED
    BY <1>2, <1>5
<1>7. IsFiniteSet(five)
  <2> HIDE DEF four
  <2>1. QED
    BY <1>2, <1>6
<1>8. IsFiniteSet(six)
  <2> HIDE DEF five
  <2>1. QED
    BY <1>2, <1>7
<1> HIDE DEF six
<1>9. QED
  BY <1>1, <1>8

LEMMA TotalIsSum ==
  \E sum : Adds(sum, Components, DOMAIN Components) /\ sum[DOMAIN Components] = 100
<1> DEFINE S == DOMAIN Components
           P(sum) == sum = [T \in SUBSET S |->
                       IF T = {} THEN 0
                       ELSE LET x == CHOOSE y \in T : TRUE IN Components[x] + sum[T \ {x}]]
<1>1. IsFiniteSet(S) /\ \A c \in S : Components[c] \in Int
  BY ComponentWeights
<1>2. \A sum : P(sum) <=> IsSum(sum, Components, S)
  BY DEF IsSum, Picked
<1>3. 100 = (CHOOSE sum : P(sum))[S]
  BY CardAssumption DEF MapThenSumSet, MapThenFoldSet
<1> HIDE DEF P, S
<1>4. P(CHOOSE sum : P(sum))
  BY <1>1, <1>2, SumExists
<1>5. Adds(CHOOSE sum : P(sum), Components, S)
  BY <1>1, <1>2, <1>4, SumSplit
<1>6. QED
  BY <1>3, <1>5 DEF S

\* Scores of distinct components of the configuration.
Scored(S) ==
    /\ \A s \in S : s.component \in DOMAIN Components /\ s.score \in 0..Unit
    /\ \A s, t \in S : s.component = t.component => s = t

Summands(S) == [s \in S |-> s.score * Components[s.component]]

WeightsOf(S) == [s \in S |-> Components[s.component]]

LEMMA ScoredFinite ==
  ASSUME NEW S, Scored(S)
  PROVE  /\ IsFiniteSet(S) /\ Unit \in Nat
         /\ \A s \in S : s.score \in Nat /\ s.score <= Unit /\ Components[s.component] \in Nat
         /\ \A s \in S : Summands(S)[s] \in Nat /\ WeightsOf(S)[s] \in Nat
         /\ [s \in S |-> s.component] \in Injection(S, DOMAIN Components)
<1> DEFINE place == [s \in S |-> s.component]
<1>1. /\ \A s \in S : s.component \in DOMAIN Components /\ s.score \in 0..Unit
      /\ \A s, t \in S : s.component = t.component => s = t
  BY DEF Scored
<1>2. place \in Injection(S, DOMAIN Components)
  BY <1>1 DEF Injection, IsInjective
<1>3. IsFiniteSet(S)
  BY <1>2, ComponentWeights, FS_Injection
<1>4. Unit \in Nat
  BY RelevanceAssumption
<1>5. \A s \in S : s.score \in Nat /\ s.score <= Unit /\ Components[s.component] \in Nat
  BY <1>1, <1>4, ComponentWeights
<1>6. ASSUME NEW s \in S
      PROVE  s.score * Components[s.component] \in Nat
  <2>1. s.score \in Nat /\ Components[s.component] \in Nat
    BY <1>5
  <2>2. QED
    BY <2>1
<1>7. \A s \in S : Summands(S)[s] \in Nat /\ WeightsOf(S)[s] \in Nat
  BY <1>5, <1>6 DEF Summands, WeightsOf
<1>8. QED
  BY <1>2, <1>3, <1>4, <1>5, <1>7

LEMMA RawScoreIsSum ==
  ASSUME NEW S, Scored(S)
  PROVE  \E sum : Adds(sum, Summands(S), S) /\ RawScore(S) = sum[S]
<1> DEFINE P(sum) == sum = [T \in SUBSET S |->
                       IF T = {} THEN 0
                       ELSE LET x == CHOOSE y \in T : TRUE
                            IN  x.score * Components[x.component] + sum[T \ {x}]]
<1>1. IsFiniteSet(S) /\ \A s \in S : Summands(S)[s] \in Int
  <2>1. IsFiniteSet(S) /\ \A s \in S : Summands(S)[s] \in Nat
    BY ScoredFinite
  <2>2. QED
    BY <2>1
<1>2. \A sum : P(sum) <=> IsSum(sum, Summands(S), S)
  BY DEF IsSum, Picked, Summands
<1>3. RawScore(S) = (CHOOSE sum : P(sum))[S]
  BY DEF RawScore, MapThenSumSet, MapThenFoldSet
<1> HIDE DEF P
<1>4. P(CHOOSE sum : P(sum))
  BY <1>1, <1>2, SumExists
<1>5. Adds(CHOOSE sum : P(sum), Summands(S), S)
  BY <1>1, <1>2, <1>4, SumSplit
<1>6. QED
  BY <1>3, <1>5

LEMMA CompletenessIsSum ==
  ASSUME NEW S, Scored(S)
  PROVE  \E sum : Adds(sum, WeightsOf(S), S) /\ Completeness(S) = sum[S]
<1> DEFINE P(sum) == sum = [T \in SUBSET S |->
                       IF T = {} THEN 0
                       ELSE LET x == CHOOSE y \in T : TRUE
                            IN  Components[x.component] + sum[T \ {x}]]
<1>1. IsFiniteSet(S) /\ \A s \in S : WeightsOf(S)[s] \in Int
  <2>1. IsFiniteSet(S) /\ \A s \in S : WeightsOf(S)[s] \in Nat
    BY ScoredFinite
  <2>2. QED
    BY <2>1
<1>2. \A sum : P(sum) <=> IsSum(sum, WeightsOf(S), S)
  BY DEF IsSum, Picked, WeightsOf
<1>3. Completeness(S) = (CHOOSE sum : P(sum))[S]
  BY DEF Completeness, MapThenSumSet, MapThenFoldSet
<1> HIDE DEF P
<1>4. P(CHOOSE sum : P(sum))
  BY <1>1, <1>2, SumExists
<1>5. Adds(CHOOSE sum : P(sum), WeightsOf(S), S)
  BY <1>1, <1>2, <1>4, SumSplit
<1>6. QED
  BY <1>3, <1>5

LEMMA SumNotNegative ==
  ASSUME NEW S, IsFiniteSet(S), NEW f, \A x \in S : f[x] \in Nat, NEW sum, Adds(sum, f, S)
  PROVE  0 <= sum[S] /\ sum[S] \in Int
<1>1. /\ sum[{}] = 0 /\ \A T \in SUBSET S : sum[T] \in Int
      /\ \A T \in SUBSET S : \A x \in T : sum[T] = f[x] + sum[T \ {x}]
  BY DEF Adds
<1> DEFINE Good == { T \in SUBSET S : 0 <= sum[T] }
<1>2. {} \in Good
  BY <1>1
<1>3. ASSUME NEW T \in Good, NEW x \in S \ T PROVE T \cup {x} \in Good
  <2>1. (T \cup {x}) \ {x} = T /\ T \cup {x} \in SUBSET S
    OBVIOUS
  <2>2. sum[T \cup {x}] = f[x] + sum[T] /\ f[x] \in Nat /\ sum[T] \in Int /\ 0 <= sum[T]
    BY <1>1, <2>1
  <2>3. 0 <= sum[T \cup {x}]
    BY <2>2
  <2>4. QED
    BY <2>1, <2>3
<1>4. Good \in SUBSET (SUBSET S)
  OBVIOUS
<1>5. Good = SUBSET S
  <2> HIDE DEF Good
  <2>1. QED
    BY <1>2, <1>3, <1>4, SubsetInduction
<1>6. QED
  BY <1>1, <1>5

(* The base score is at most one, and so is the completeness.              *)
LEMMA SumsBounded ==
  ASSUME NEW S, Scored(S)
  PROVE  RawScore(S) \in 0..(100 * Unit) /\ Completeness(S) \in 0..100
<1> DEFINE place == [s \in S |-> s.component]
           full == [c \in DOMAIN Components |-> Unit * Components[c]]
<1>1. /\ IsFiniteSet(S) /\ Unit \in Nat
      /\ \A s \in S : s.score \in Nat /\ s.score <= Unit /\ Components[s.component] \in Nat
      /\ \A s \in S : Summands(S)[s] \in Nat /\ WeightsOf(S)[s] \in Nat
      /\ place \in Injection(S, DOMAIN Components)
  BY ScoredFinite
<1>2. IsFiniteSet(DOMAIN Components) /\ \A c \in DOMAIN Components : Components[c] \in Nat
  BY ComponentWeights
<1>3. PICK raw : Adds(raw, Summands(S), S) /\ RawScore(S) = raw[S]
  BY RawScoreIsSum
<1>4. PICK weight : Adds(weight, WeightsOf(S), S) /\ Completeness(S) = weight[S]
  BY CompletenessIsSum
<1>5. PICK total : Adds(total, Components, DOMAIN Components) /\ total[DOMAIN Components] = 100
  BY TotalIsSum
<1>6. \A s \in S : place[s] = s.component /\ s.component \in DOMAIN Components
  BY <1>1 DEF Injection
<1>7. ASSUME NEW c \in DOMAIN Components
      PROVE  full[c] \in Nat /\ full[c] \in Int /\ full[c] = Unit * Components[c]
  <2>1. Components[c] \in Nat
    BY <1>2
  <2>2. full[c] = Unit * Components[c]
    OBVIOUS
  <2> HIDE DEF full
  <2>3. QED
    BY <1>1, <2>1, <2>2
<1>8. PICK most : Adds(most, full, DOMAIN Components)
  <2>1. \A c \in DOMAIN Components : full[c] \in Int
    BY <1>7
  <2> HIDE DEF full
  <2>2. PICK most : IsSum(most, full, DOMAIN Components)
    BY <1>2, SumExists
  <2>3. QED
    BY <1>2, <2>1, <2>2, SumSplit
<1>9. \A s \in S : Summands(S)[s] <= full[place[s]] /\ WeightsOf(S)[s] <= Components[place[s]]
  <2> SUFFICES ASSUME NEW s \in S
               PROVE  /\ Summands(S)[s] <= full[place[s]]
                      /\ WeightsOf(S)[s] <= Components[place[s]]
    OBVIOUS
  <2>1. Summands(S)[s] = s.score * Components[s.component]
    BY DEF Summands
  <2>2. WeightsOf(S)[s] = Components[s.component]
    BY DEF WeightsOf
  <2>3. full[place[s]] = Unit * Components[s.component]
    BY <1>6, <1>7
  <2>4. s.score * Components[s.component] <= Unit * Components[s.component]
    BY <1>1, ProductGrows
  <2>5. Components[s.component] <= Components[s.component]
    BY <1>1
  <2>6. QED
    BY <1>6, <2>1, <2>2, <2>3, <2>4, <2>5
<1> HIDE DEF full, place
<1>10. \A c \in DOMAIN Components : full[c] \in Nat /\ full[c] = Unit * Components[c]
  BY <1>7
<1>11. \A s \in S : Summands(S)[s] \in Int /\ WeightsOf(S)[s] \in Int
  BY <1>1
<1>12. \A c \in DOMAIN Components : Components[c] \in Int
  BY <1>2
<1>13. raw[S] <= most[DOMAIN Components] /\ raw[S] \in Int
  BY <1>1, <1>2, <1>3, <1>8, <1>9, <1>10, <1>11, SumDominated
<1>14. weight[S] <= total[DOMAIN Components] /\ weight[S] \in Int
  BY <1>1, <1>2, <1>4, <1>5, <1>9, <1>11, SumDominated
<1>15. most[DOMAIN Components] = Unit * total[DOMAIN Components]
  <2>1. Unit \in Int
    BY <1>1
  <2>2. \A c \in DOMAIN Components : full[c] = Unit * Components[c]
    BY <1>10
  <2>3. IsFiniteSet(DOMAIN Components) /\ Adds(total, Components, DOMAIN Components)
    BY <1>2, <1>5
  <2>4. QED
    BY <1>8, <1>12, <2>1, <2>2, <2>3, SumScaled
<1>16. 0 <= raw[S] /\ 0 <= weight[S]
  BY <1>1, <1>3, <1>4, SumNotNegative
<1>17. Unit * 100 = 100 * Unit
  BY <1>1
<1>18. QED
  BY <1>1, <1>3, <1>4, <1>5, <1>13, <1>14, <1>15, <1>16, <1>17

(* Every score kept or raised, and perhaps more of them: neither sum falls.*)
LEMMA SumsGrow ==
  ASSUME NEW S, Scored(S), NEW T, Scored(T),
         \A s \in S : \E t \in T : t.component = s.component /\ s.score <= t.score
  PROVE  RawScore(S) <= RawScore(T) /\ Completeness(S) <= Completeness(T)
<1> DEFINE match == [s \in S |-> CHOOSE t \in T : t.component = s.component /\ s.score <= t.score]
<1>1. \A s \in S : /\ match[s] \in T /\ match[s].component = s.component
                   /\ s.score <= match[s].score
  OBVIOUS
<1>2. match \in [S -> T]
  BY <1>1
<1> HIDE DEF match
<1>3. match \in Injection(S, T)
  BY <1>1, <1>2 DEF Injection, IsInjective, Scored
<1>4. /\ IsFiniteSet(S)
      /\ \A s \in S : s.score \in Nat /\ Components[s.component] \in Nat
      /\ \A s \in S : Summands(S)[s] \in Nat /\ WeightsOf(S)[s] \in Nat
  BY ScoredFinite
<1>5. /\ IsFiniteSet(T)
      /\ \A t \in T : t.score \in Nat /\ Components[t.component] \in Nat
      /\ \A t \in T : Summands(T)[t] \in Nat /\ WeightsOf(T)[t] \in Nat
  BY ScoredFinite
<1>6. PICK rawS : Adds(rawS, Summands(S), S) /\ RawScore(S) = rawS[S]
  BY RawScoreIsSum
<1>7. PICK rawT : Adds(rawT, Summands(T), T) /\ RawScore(T) = rawT[T]
  BY RawScoreIsSum
<1>8. PICK weightS : Adds(weightS, WeightsOf(S), S) /\ Completeness(S) = weightS[S]
  BY CompletenessIsSum
<1>9. PICK weightT : Adds(weightT, WeightsOf(T), T) /\ Completeness(T) = weightT[T]
  BY CompletenessIsSum
<1>10. ASSUME NEW s \in S
       PROVE  /\ Summands(S)[s] <= Summands(T)[match[s]]
              /\ WeightsOf(S)[s] <= WeightsOf(T)[match[s]]
  <2>1. Summands(S)[s] = s.score * Components[s.component]
    BY DEF Summands
  <2>2. WeightsOf(S)[s] = Components[s.component]
    BY DEF WeightsOf
  <2>3. Summands(T)[match[s]] = match[s].score * Components[s.component]
    BY <1>1 DEF Summands
  <2>4. WeightsOf(T)[match[s]] = Components[s.component]
    BY <1>1 DEF WeightsOf
  <2>5. s.score * Components[s.component] <= match[s].score * Components[s.component]
    <3>1. match[s].score \in Nat /\ s.score \in Nat /\ Components[s.component] \in Nat
      BY <1>1, <1>4, <1>5
    <3>2. QED
      BY <1>1, <3>1, ProductGrows
  <2>6. Components[s.component] <= Components[s.component]
    BY <1>4
  <2>7. QED
    BY <2>1, <2>2, <2>3, <2>4, <2>5, <2>6
<1>11. \A s \in S : Summands(S)[s] \in Int /\ WeightsOf(S)[s] \in Int
  BY <1>4
<1>12. rawS[S] <= rawT[T]
  BY <1>3, <1>4, <1>5, <1>6, <1>7, <1>10, <1>11, SumDominated
<1>13. weightS[S] <= weightT[T]
  BY <1>3, <1>4, <1>5, <1>8, <1>9, <1>10, <1>11, SumDominated
<1>14. QED
  BY <1>6, <1>7, <1>8, <1>9, <1>12, <1>13

-----------------------------------------------------------------------------
(* The strengths and the scores of a snapshot.                             *)
LEMMA StrengthsSound ==
  ASSUME NEW x \in Snapshots
  PROVE  /\ Evidence(Strengths(x), x.values)
         /\ DOMAIN Strengths(x) = SignalFeatures \cap DOMAIN x.values
         /\ \A n \in DOMAIN Strengths(x) : Strengths(x)[n] = 0 => x.values[n] = 0
<1> DEFINE k == Unit \div FullScore
<1>1. /\ Unit \in Nat \ {0} /\ FullScore \in Nat \ {0} /\ Unit % FullScore = 0
      /\ SignalFeatures \subseteq Features
  BY RelevanceAssumption, CardAssumption
<1>2. k \in Nat /\ k > 0
  <2>1. k \in Nat /\ Unit = k * FullScore + (Unit % FullScore)
    BY <1>1
  <2> HIDE DEF k
  <2>2. k = 0 => Unit = 0
    BY <1>1, <2>1
  <2>3. QED
    BY <1>1, <2>1, <2>2
<1>3. DOMAIN x.values \subseteq Features /\ \A n \in DOMAIN x.values : x.values[n] \in Int
  BY CardAssumption DEF PriceResearchSnapshot
<1> DEFINE D == SignalFeatures \cap DOMAIN x.values
<1>4. Strengths(x) = [n \in D |-> Capped(Magnitude(x.values[n]) * k)]
  BY DEF Strengths
<1> HIDE DEF k
<1>5. ASSUME NEW n \in D
      PROVE  /\ Strengths(x)[n] \in 0..Unit
             /\ Strengths(x)[n] = 0 => x.values[n] = 0
  <2> DEFINE v == Magnitude(x.values[n])
  <2>1. v \in Nat /\ (v = 0 => x.values[n] = 0)
    BY <1>3 DEF Magnitude
  <2> HIDE DEF v
  <2>2. v * k \in Nat
    BY <1>2, <2>1
  <2>3. v # 0 => v * k # 0
    <3>1. SUFFICES ASSUME v # 0 PROVE v * k # 0
      OBVIOUS
    <3>2. v >= 1 /\ 1 * k <= v * k
      BY <1>2, <2>1, <3>1, ProductGrows
    <3>3. QED
      BY <1>2, <2>2, <3>2
  <2>4. Strengths(x)[n] = Capped(v * k)
    BY <1>4 DEF v
  <2>5. Capped(v * k) \in 0..Unit /\ (Capped(v * k) = 0 => v * k = 0)
    <3> DEFINE p == v * k
    <3> HIDE DEF p
    <3>1. p \in Nat => Capped(p) \in 0..Unit /\ (Capped(p) = 0 => p = 0)
      BY <1>1 DEF Capped
    <3>2. QED
      BY <2>2, <3>1 DEF p
  <2>6. QED
    BY <2>1, <2>3, <2>4, <2>5
<1>6. DOMAIN Strengths(x) = D
  BY <1>4
<1> HIDE DEF D
<1>7. \A n \in D : Strengths(x)[n] \in 0..Unit /\ (Strengths(x)[n] = 0 => x.values[n] = 0)
  BY <1>5
<1>8. D \subseteq Features
  BY <1>1 DEF D
<1>9. Evidence(Strengths(x), x.values)
  BY <1>3, <1>6, <1>7, <1>8 DEF Evidence
<1>10. QED
  BY <1>6, <1>7, <1>9 DEF D

LEMMA StrengthsGrow ==
  ASSUME NEW x \in Snapshots, NEW y \in Snapshots, Extends(x, y),
         NEW n \in DOMAIN Strengths(y)
  PROVE  n \in DOMAIN Strengths(x) /\ Strengths(x)[n] = Strengths(y)[n]
<1>1. n \in SignalFeatures \cap DOMAIN y.values
  BY StrengthsSound
<1>2. n \in DOMAIN x.values /\ x.values[n] = y.values[n]
  BY <1>1 DEF Extends
<1>3. QED
  BY <1>1, <1>2 DEF Strengths

\* The components of the price signals, each with its features.
Sources ==
    [c \in {"abnormal_price", "abnormal_volume", "factor_change", "event_novelty"} |->
       CASE c = "abnormal_price" -> {"residual"}
         [] c = "abnormal_volume" -> {"volume"}
         [] c = "factor_change" -> {"relative"}
         [] c = "event_novelty" -> {"residual", "volume"}]

SourceScores(c, x) == { Strengths(x)[n] : n \in Sources[c] \cap DOMAIN Strengths(x) }

SignalScore(c, x) == [component |-> c, score |-> Max(SourceScores(c, x))]

RelevanceScore(content, x) ==
    [component |-> "thesis_relevance", score |-> Assessment(content, x).score]

LEMMA ScoresAre ==
  ASSUME NEW content, NEW x
  PROVE  /\ \A s \in Scores(content, x) :
              \/ \E c \in DOMAIN Sources : s = SignalScore(c, x) /\ SourceScores(c, x) # {}
              \/ content # None /\ s = RelevanceScore(content, x)
         /\ \A c \in DOMAIN Sources :
              SourceScores(c, x) # {} => SignalScore(c, x) \in Scores(content, x)
         /\ content # None => RelevanceScore(content, x) \in Scores(content, x)
<1> DEFINE of(component, names) ==
             { [component |-> component,
                score |-> Max({ Strengths(x)[n] : n \in names \cap DOMAIN Strengths(x) })] :
               z \in { 1 : n \in names \cap DOMAIN Strengths(x) } }
           relevance == IF content = None THEN {} ELSE {RelevanceScore(content, x)}
<1>1. Scores(content, x) =
        of("abnormal_price", {"residual"}) \cup of("abnormal_volume", {"volume"})
          \cup of("factor_change", {"relative"}) \cup of("event_novelty", {"residual", "volume"})
          \cup relevance
  BY DEF Scores, RelevanceScore
<1>2. /\ Sources["abnormal_price"] = {"residual"} /\ Sources["abnormal_volume"] = {"volume"}
      /\ Sources["factor_change"] = {"relative"}
      /\ Sources["event_novelty"] = {"residual", "volume"}
      /\ DOMAIN Sources = {"abnormal_price", "abnormal_volume", "factor_change", "event_novelty"}
  BY DEF Sources
<1>3. \A c \in DOMAIN Sources : \A s :
        s \in of(c, Sources[c]) <=> s = SignalScore(c, x) /\ SourceScores(c, x) # {}
  BY Zenon DEF SignalScore, SourceScores
<1>4. \A s : s \in relevance <=> content # None /\ s = RelevanceScore(content, x)
  OBVIOUS
<1> HIDE DEF of, relevance
<1>5. \A s : s \in Scores(content, x) <=>
               \/ \E c \in DOMAIN Sources : s \in of(c, Sources[c])
               \/ s \in relevance
  BY <1>1, <1>2
<1>6. QED
  BY <1>3, <1>4, <1>5

LEMMA SourceScoresBounded ==
  ASSUME NEW x \in Snapshots, NEW c \in DOMAIN Sources
  PROVE  /\ SourceScores(c, x) \in SUBSET (0..Unit) /\ Unit \in Nat
         /\ SourceScores(c, x) # {} => SignalScore(c, x).score = LargestOr(SourceScores(c, x), 0)
<1>1. Unit \in Nat
  BY RelevanceAssumption
<1>2. \A n \in DOMAIN Strengths(x) : Strengths(x)[n] \in 0..Unit
  BY StrengthsSound DEF Evidence
<1>3. QED
  BY <1>1, <1>2 DEF SourceScores, SignalScore, LargestOr

LEMMA AssessmentSound ==
  ASSUME NEW content \in Contents, NEW x \in Snapshots
  PROVE  /\ Assessment(content, x) = Assess(content, Strengths(x), x.values)
         /\ Evidence(Strengths(x), x.values)
         /\ Assessment(content, x) \in ThesisRelevanceAssessment
         /\ Assessment(content, x) # None
         /\ AssessmentAccepted(Assessment(content, x))
         /\ Assessment(content, x).score \in 0..Unit
         /\ Reports(Assessment(content, x))
<1>1. content # None /\ None \notin ThesisRelevanceAssessment
  BY NoneAssumption
<1>2. Assessment(content, x) = Assess(content, Strengths(x), x.values)
  BY <1>1 DEF Assessment
<1>3. Evidence(Strengths(x), x.values)
  BY StrengthsSound
<1> DEFINE a == Assessment(content, x)
<1> HIDE DEF a
<1>4. a = Assess(content, Strengths(x), x.values)
  BY <1>2 DEF a
<1>5. a \in ThesisRelevanceAssessment /\ AssessmentAccepted(a) /\ a.score \in 0..Unit
  BY <1>3, <1>4, AssessSound
<1>6. Reports(a)
  BY <1>3, <1>4, AssessSound
<1>7. QED
  BY <1>1, <1>2, <1>3, <1>5, <1>6 DEF a

LEMMA ScoresScored ==
  ASSUME NEW content \in Contents \cup {None}, NEW x \in Snapshots
  PROVE  Scored(Scores(content, x))
<1>1. DOMAIN Sources = {"abnormal_price", "abnormal_volume", "factor_change", "event_novelty"}
  BY DEF Sources
<1>2. "thesis_relevance" \in DOMAIN Components /\ DOMAIN Sources \subseteq DOMAIN Components
  BY <1>1, CardAssumption
<1>3. ASSUME NEW c \in DOMAIN Sources, SourceScores(c, x) # {}
      PROVE  SignalScore(c, x).component = c /\ SignalScore(c, x).score \in 0..Unit
  BY <1>3, SourceScoresBounded, LargestOrDefault DEF SignalScore
<1>4. ASSUME content # None
      PROVE  /\ RelevanceScore(content, x).component = "thesis_relevance"
             /\ RelevanceScore(content, x).score \in 0..Unit
  BY <1>4, AssessmentSound DEF RelevanceScore
<1>5. ASSUME NEW s \in Scores(content, x)
      PROVE  /\ s.component \in DOMAIN Components /\ s.score \in 0..Unit
             /\ \/ s.component \in DOMAIN Sources /\ s = SignalScore(s.component, x)
                \/ s.component = "thesis_relevance" /\ s = RelevanceScore(content, x)
  <2>1. CASE \E c \in DOMAIN Sources : s = SignalScore(c, x) /\ SourceScores(c, x) # {}
    BY <1>2, <1>3, <2>1
  <2>2. CASE content # None /\ s = RelevanceScore(content, x)
    BY <1>2, <1>4, <2>2
  <2>3. QED
    BY <2>1, <2>2, ScoresAre
<1>6. "thesis_relevance" \notin DOMAIN Sources
  BY <1>1
<1>7. QED
  BY <1>5, <1>6 DEF Scored

-----------------------------------------------------------------------------
(* More evidence.                                                          *)
LEMMA LargestOrDominated ==
  ASSUME NEW n \in Nat, NEW S \in SUBSET (0..n), NEW T \in SUBSET (0..n),
         \A k \in S : \E l \in T : k <= l
  PROVE  LargestOr(S, 0) <= LargestOr(T, 0)
<1>1. LargestOr(S, 0) \in 0..n /\ LargestOr(T, 0) \in 0..n
  BY LargestOrDefault
<1>2. CASE S = {}
  BY <1>1, <1>2, LargestOrDefault
<1>3. CASE S # {}
  <2>1. PICK l \in T : LargestOr(S, 0) <= l
    BY <1>3, LargestOrDefault
  <2>2. l <= LargestOr(T, 0) /\ l \in 0..n
    BY <2>1, LargestOrDefault
  <2>3. QED
    BY <1>1, <2>1, <2>2
<1>4. QED
  BY <1>2, <1>3

\* A node that contributes with less evidence contributes with more.
LEMMA ContributionsGrow ==
  ASSUME NEW content \in Contents, NEW x \in Snapshots, NEW y \in Snapshots, Extends(x, y),
         NEW c \in Contributions(content, Strengths(y), y.values), c.score # None
  PROVE  \E d \in Contributions(content, Strengths(x), x.values) :
           d.score # None /\ c.score <= d.score
<1>1. Evidence(Strengths(x), x.values) /\ Evidence(Strengths(y), y.values)
  BY StrengthsSound
<1>2. Unit \in Nat /\ None \notin Int
  BY RelevanceAssumption, NoneAssumption
<1>3. CASE \E n \in Signals(content) : c = SignalContribution(n, Strengths(y))
  <2>1. PICK n \in Signals(content) : c = SignalContribution(n, Strengths(y))
    BY <1>3
  <2> DEFINE d == SignalContribution(n, Strengths(x))
             less == { Strengths(y)[q] : q \in n.features \cap DOMAIN Strengths(y) }
             more == { Strengths(x)[q] : q \in n.features \cap DOMAIN Strengths(x) }
  <2>2. n \in SignalNode
    BY NodeKinds
  <2>3. d.score = LargestOr(more, 0) /\ d.score \in 0..Unit
    BY <1>1, <2>2, SignalContributes
  <2>4. c.score = LargestOr(less, 0) /\ c.score \in 0..Unit
    BY <1>1, <2>1, <2>2, SignalContributes
  <2>5. less \subseteq more
    BY StrengthsGrow
  <2>6. more \in SUBSET (0..Unit)
    BY <1>1 DEF Evidence
  <2>7. d \in Contributions(content, Strengths(x), x.values)
    BY DEF Contributions, Signals
  <2> HIDE DEF d, less, more
  <2>8. LargestOr(less, 0) <= LargestOr(more, 0)
    BY <1>2, <2>5, <2>6, LargestOrMonotone
  <2>9. d.score # None /\ c.score <= d.score
    BY <1>2, <2>3, <2>4, <2>8
  <2>10. QED
    BY <2>7, <2>9
<1>4. CASE \E n \in Rules(content) : c = RuleContribution(n, y.values)
  <2>1. PICK n \in Rules(content) : c = RuleContribution(n, y.values)
    BY <1>4
  <2> DEFINE d == RuleContribution(n, x.values)
  <2>2. n \in RuleNode /\ ThresholdsOrdered(n)
    BY NodeKinds
  <2>3. n.feature \in DOMAIN y.values /\ c.score \in 0..Unit
    BY <1>1, <2>1, <2>2, RuleContributes
  <2>4. n.feature \in DOMAIN x.values /\ x.values[n.feature] = y.values[n.feature]
    BY <2>3 DEF Extends
  <2>5. d = c
    BY <2>1, <2>3, <2>4 DEF RuleContribution
  <2>6. d \in Contributions(content, Strengths(x), x.values)
    BY DEF Contributions, Rules
  <2> HIDE DEF d
  <2>7. c.score <= d.score
    BY <1>2, <2>3, <2>5
  <2>8. QED
    BY <2>5, <2>6, <2>7
<1>5. QED
  BY <1>3, <1>4 DEF Contributions, Signals, Rules

LEMMA AssessmentGrows ==
  ASSUME NEW content \in Contents, NEW x \in Snapshots, NEW y \in Snapshots, Extends(x, y)
  PROVE  Assessment(content, y).score <= Assessment(content, x).score
<1> DEFINE all(z) == Contributions(content, Strengths(z), z.values)
           scores(z) == { c.score : c \in { d \in all(z) : d.score # None } }
<1>1. Unit \in Nat
  BY RelevanceAssumption
<1>2. ASSUME NEW z \in Snapshots
      PROVE  /\ Assessment(content, z).score = LargestOr(scores(z), 0)
             /\ scores(z) \in SUBSET (0..Unit)
  <2>1. /\ Assessment(content, z) = Assess(content, Strengths(z), z.values)
        /\ Evidence(Strengths(z), z.values)
    BY AssessmentSound
  <2>2. Assessment(content, z).score = LargestOr(scores(z), 0)
    BY <2>1 DEF Assess
  <2>3. \A c \in all(z) : c.score \in 0..Unit \/ c.score = None
    BY <2>1, ContributionsSound
  <2> HIDE DEF all
  <2>4. scores(z) \in SUBSET (0..Unit)
    BY <2>3
  <2>5. QED
    BY <2>2, <2>4
<1>3. \A c \in all(y) : c.score # None => \E d \in all(x) : d.score # None /\ c.score <= d.score
  BY ContributionsGrow
<1> HIDE DEF all
<1>4. \A k \in scores(y) : \E l \in scores(x) : k <= l
  BY <1>3
<1> HIDE DEF scores
<1>5. LargestOr(scores(y), 0) <= LargestOr(scores(x), 0)
  BY <1>1, <1>2, <1>4, LargestOrDominated
<1>6. QED
  BY <1>2, <1>5

LEMMA ScoresGrow ==
  ASSUME NEW content \in Contents \cup {None}, NEW x \in Snapshots, NEW y \in Snapshots,
         Extends(x, y), NEW s \in Scores(content, y)
  PROVE  \E t \in Scores(content, x) : t.component = s.component /\ s.score <= t.score
<1>1. CASE \E c \in DOMAIN Sources : s = SignalScore(c, y) /\ SourceScores(c, y) # {}
  <2>1. PICK c \in DOMAIN Sources : s = SignalScore(c, y) /\ SourceScores(c, y) # {}
    BY <1>1
  <2>2. SourceScores(c, y) \subseteq SourceScores(c, x)
    BY StrengthsGrow DEF SourceScores
  <2>3. SourceScores(c, x) # {}
    BY <2>1, <2>2
  <2>4. /\ SourceScores(c, x) \in SUBSET (0..Unit) /\ Unit \in Nat
        /\ SignalScore(c, x).score = LargestOr(SourceScores(c, x), 0)
    BY <2>3, SourceScoresBounded
  <2>5. SignalScore(c, y).score = LargestOr(SourceScores(c, y), 0)
    BY <2>1, SourceScoresBounded
  <2>6. s.score <= SignalScore(c, x).score
    BY <2>1, <2>2, <2>4, <2>5, LargestOrMonotone
  <2>7. s.component = c /\ SignalScore(c, x).component = c
    BY <2>1 DEF SignalScore
  <2>8. SignalScore(c, x) \in Scores(content, x)
    BY <2>3, ScoresAre
  <2>9. QED
    BY <2>6, <2>7, <2>8
<1>2. CASE content # None /\ s = RelevanceScore(content, y)
  <2>1. Assessment(content, y).score <= Assessment(content, x).score
    BY <1>2, AssessmentGrows
  <2>2. RelevanceScore(content, x) \in Scores(content, x)
    BY <1>2, ScoresAre
  <2>3. QED
    BY <1>2, <2>1, <2>2 DEF RelevanceScore
<1>3. QED
  BY <1>1, <1>2, ScoresAre

-----------------------------------------------------------------------------
(* Findings.                                                               *)

\* The tier labels ascend with their bounds, as in the shipped
\* configuration; MaterialityConfig does not validate it.
LabelsAscend == \A l, m \in Labels : l.minimum <= m.minimum => l.tier <= m.tier

LEMMA TierTaken ==
  ASSUME NEW raw \in Nat
  PROVE  \E l \in Labels : /\ l.minimum * Unit <= raw /\ TierOf(raw) = l.tier
                           /\ \A m \in Labels : m.minimum * Unit <= raw => m.minimum <= l.minimum
<1> DEFINE met == { l \in Labels : l.minimum * Unit <= raw }
           minima == { l.minimum : l \in met }
           chosen == CHOOSE l \in met : \A m \in met : m.minimum <= l.minimum
<1>1. /\ Unit \in Nat /\ \A l \in Labels : l.minimum \in 0..100
      /\ \E l \in Labels : l.minimum = 0
  BY RelevanceAssumption, CardAssumption
<1>2. 0 * Unit <= raw
  BY <1>1
<1>3. minima \in SUBSET (0..100) /\ minima # {}
  BY <1>1, <1>2
<1>4. PICK k \in minima : \A j \in minima : k >= j
  BY <1>3, Largest
<1>5. PICK l \in met : \A m \in met : m.minimum <= l.minimum
  <2>1. PICK l \in met : l.minimum = k
    OBVIOUS
  <2>2. \A m \in met : m.minimum \in minima
    OBVIOUS
  <2> HIDE DEF minima
  <2>3. \A m \in met : m.minimum <= l.minimum
    BY <1>4, <2>1, <2>2
  <2>4. QED
    BY <2>3
<1>6. chosen \in met /\ \A m \in met : m.minimum <= chosen.minimum
  <2> HIDE DEF met
  <2>1. QED
    BY <1>5
<1>7. TierOf(raw) = chosen.tier
  BY DEF TierOf
<1> HIDE DEF chosen
<1>8. QED
  BY <1>6, <1>7

LEMMA TiersSound ==
  ASSUME NEW raw \in Nat
  PROVE  TierOf(raw) \in 0..3
BY TierTaken, CardAssumption

LEMMA TierGrows ==
  ASSUME LabelsAscend, NEW low \in Nat, NEW high \in Nat, low <= high
  PROVE  TierOf(low) <= TierOf(high)
<1>1. PICK l \in Labels : l.minimum * Unit <= low /\ TierOf(low) = l.tier
  BY TierTaken
<1>2. PICK h \in Labels : /\ TierOf(high) = h.tier
                          /\ \A m \in Labels : m.minimum * Unit <= high => m.minimum <= h.minimum
  BY TierTaken
<1>3. l.minimum * Unit \in Nat
  <2>1. l.minimum \in Nat /\ Unit \in Nat
    BY CardAssumption, RelevanceAssumption
  <2>2. QED
    BY <2>1
<1>4. l.minimum * Unit <= high
  BY <1>1, <1>3
<1>5. QED
  BY <1>1, <1>2, <1>4 DEF LabelsAscend

LEMMA ModifierPositive ==
  ASSUME NEW weight \in Weights
  PROVE  Modifier(weight) \in Nat /\ Modifier(weight) > 0
<1>1. weight # None => \E r \in 0..10 : r * r = Magnitude(weight)
  BY CardAssumption
<1> DEFINE root == CHOOSE r \in 0..10 : r * r = Magnitude(weight)
<1>2. weight # None => root \in 0..10
  BY <1>1
<1>3. Modifier(weight) = 10 + (IF weight = None THEN 0 ELSE root)
  BY DEF Modifier
<1> HIDE DEF root
<1>4. QED
  BY <1>2, <1>3

LEMMA ProductOrder ==
  ASSUME NEW a \in Nat, NEW b \in Nat, NEW k \in Nat, k > 0
  PROVE  a * k <= b * k <=> a <= b
<1>1. a <= b => a * k <= b * k
  BY ProductGrows
<1>2. ASSUME b < a PROVE b * k < a * k
  <2>1. b + 1 <= a /\ b + 1 \in Nat
    BY <1>2
  <2>2. (b + 1) * k <= a * k
    BY <2>1, ProductGrows
  <2>3. (b + 1) * k = b * k + k /\ b * k \in Nat /\ a * k \in Nat
    OBVIOUS
  <2>4. QED
    BY <2>2, <2>3
<1>3. a * k \in Nat /\ b * k \in Nat
  OBVIOUS
<1>4. QED
  BY <1>1, <1>2, <1>3

\* The base score of a finding, which no weight enters.
Raw(content, x) == RawScore(Scores(content, x))

LEMMA RawBounded ==
  ASSUME NEW content \in Contents \cup {None}, NEW x \in Snapshots
  PROVE  Raw(content, x) \in 0..(100 * Unit) /\ Raw(content, x) \in Nat
<1>1. Raw(content, x) \in 0..(100 * Unit)
  BY ScoresScored, SumsBounded DEF Raw
<1>2. QED
  BY <1>1

LEMMA FindingFields ==
  ASSUME NEW content, NEW weight, NEW x, NEW f, f = FindingOf(content, weight, x)
  PROVE  /\ f.snapshot = x /\ f.category = Category(x) /\ f.raw = Raw(content, x)
         /\ f.completeness = Completeness(Scores(content, x))
         /\ f.priority = Raw(content, x) * Modifier(weight)
         /\ f.tier = TierOf(Raw(content, x))
         /\ f.confidence = Confidence(x, Scores(content, x))
         /\ f.assessment = Assessment(content, x)
<1> DEFINE category == Category(x)
           completeness == Completeness(Scores(content, x))
           priority == Raw(content, x) * Modifier(weight)
           tier == TierOf(Raw(content, x))
           confidence == Confidence(x, Scores(content, x))
           assessment == Assessment(content, x)
<1>1. f = [snapshot |-> x, category |-> category, raw |-> Raw(content, x),
           completeness |-> completeness, priority |-> priority, tier |-> tier,
           confidence |-> confidence, assessment |-> assessment]
  BY DEF FindingOf, Raw, TierScore
<1> HIDE DEF category, completeness, priority, tier, confidence, assessment
<1>2. /\ f.snapshot = x /\ f.category = category /\ f.raw = Raw(content, x)
      /\ f.completeness = completeness /\ f.priority = priority /\ f.tier = tier
      /\ f.confidence = confidence /\ f.assessment = assessment
  BY <1>1
<1>3. QED
  BY <1>2 DEF category, completeness, priority, tier, confidence, assessment

\* A finding with more evidence has at least the score and the tier.
LEMMA FindingsGrow ==
  ASSUME LabelsAscend, NEW content \in Contents \cup {None}, NEW weight,
         NEW x \in Snapshots, NEW y \in Snapshots, Extends(x, y),
         NEW f, f = FindingOf(content, weight, x), NEW g, g = FindingOf(content, weight, y)
  PROVE  /\ f.raw >= g.raw /\ f.tier >= g.tier /\ f.completeness >= g.completeness
         /\ f.assessment # None => f.assessment.score >= g.assessment.score
<1>1. Scored(Scores(content, x)) /\ Scored(Scores(content, y))
  BY ScoresScored
<1>2. \A s \in Scores(content, y) : \E t \in Scores(content, x) :
        t.component = s.component /\ s.score <= t.score
  BY ScoresGrow
<1>3. /\ RawScore(Scores(content, y)) <= RawScore(Scores(content, x))
      /\ Completeness(Scores(content, y)) <= Completeness(Scores(content, x))
  BY <1>1, <1>2, SumsGrow
<1>4. Raw(content, x) \in Nat /\ Raw(content, y) \in Nat
  BY RawBounded
<1>5. Raw(content, y) <= Raw(content, x)
  BY <1>3 DEF Raw
<1>6. TierOf(Raw(content, y)) <= TierOf(Raw(content, x))
  BY <1>4, <1>5, TierGrows
<1>7. content # None => Assessment(content, y).score <= Assessment(content, x).score
  BY AssessmentGrows
<1>8. content = None => Assessment(content, x) = None
  BY DEF Assessment
<1>9. /\ f.raw = Raw(content, x) /\ f.completeness = Completeness(Scores(content, x))
      /\ f.tier = TierOf(Raw(content, x)) /\ f.assessment = Assessment(content, x)
  BY FindingFields
<1>10. /\ g.raw = Raw(content, y) /\ g.completeness = Completeness(Scores(content, y))
       /\ g.tier = TierOf(Raw(content, y)) /\ g.assessment = Assessment(content, y)
  BY FindingFields
<1>11. f.assessment # None => f.assessment.score >= g.assessment.score
  BY <1>7, <1>8, <1>9, <1>10
<1>12. f.raw >= g.raw /\ f.tier >= g.tier /\ f.completeness >= g.completeness
  BY <1>3, <1>5, <1>6, <1>9, <1>10
<1>13. QED
  BY <1>11, <1>12

-----------------------------------------------------------------------------
(* Cards.                                                                  *)

\* The card of the snapshots X about a content: the card of their findings,
\* without a weight.
AssessmentsOf(content, X) == { Assessment(content, x) : x \in X } \ {None}

LeadingSnapshots(content, X) ==
    { x \in X : \A y \in X : Raw(content, y) <= Raw(content, x) }

CardBy(content, X) ==
    LET assessments == AssessmentsOf(content, X)
        matched == { c \in UNION { a.contributions : a \in assessments } : c.matched # {} }
        primary == LeadingAssessment(assessments)
    IN  [session |-> Max({ x.session : x \in X }),
         tier |-> Max({ TierOf(Raw(content, x)) : x \in X }),
         confidence |-> Min({ Confidence(x, Scores(content, x)) : x \in X }),
         leads |-> { Category(x) : x \in LeadingSnapshots(content, X) },
         impact |-> IF assessments = {} THEN "none" ELSE primary.impact,
         node |-> IF assessments = {} THEN None ELSE primary.primary,
         nodes |-> { c.node : c \in matched }]

\* The weight scales the priority of every finding of a security alike.
LEMMA CardsIgnoreWeight ==
  ASSUME NEW content \in Contents \cup {None}, NEW weight \in Weights,
         NEW X \in SUBSET Snapshots
  PROVE  CardOf({ FindingOf(content, weight, x) : x \in X }) = CardBy(content, X)
<1> DEFINE found == { FindingOf(content, weight, x) : x \in X }
           assessments == { f.assessment : f \in found } \ {None}
           sessions == { f.snapshot.session : f \in found }
           tiers == { f.tier : f \in found }
           confidences == { f.confidence : f \in found }
           leads == { f.category :
                      f \in { g \in found : \A h \in found : h.priority <= g.priority } }
<1>1. \A x \in X : /\ FindingOf(content, weight, x).snapshot = x
                   /\ FindingOf(content, weight, x).category = Category(x)
                   /\ FindingOf(content, weight, x).priority = Raw(content, x) * Modifier(weight)
                   /\ FindingOf(content, weight, x).tier = TierOf(Raw(content, x))
                   /\ FindingOf(content, weight, x).confidence = Confidence(x, Scores(content, x))
                   /\ FindingOf(content, weight, x).assessment = Assessment(content, x)
  BY FindingFields
<1>2. assessments = AssessmentsOf(content, X)
  BY <1>1 DEF AssessmentsOf
<1>3. sessions = { x.session : x \in X }
  BY <1>1
<1>4. tiers = { TierOf(Raw(content, x)) : x \in X }
  BY <1>1
<1>5. confidences = { Confidence(x, Scores(content, x)) : x \in X }
  BY <1>1
<1>6. leads = { Category(x) : x \in LeadingSnapshots(content, X) }
  <2> DEFINE first == { g \in found : \A h \in found : h.priority <= g.priority }
  <2>1. \A x, y \in X : FindingOf(content, weight, y).priority
                            <= FindingOf(content, weight, x).priority
                          <=> Raw(content, y) <= Raw(content, x)
    <3> SUFFICES ASSUME NEW x \in X, NEW y \in X
                 PROVE  FindingOf(content, weight, y).priority
                            <= FindingOf(content, weight, x).priority
                          <=> Raw(content, y) <= Raw(content, x)
      OBVIOUS
    <3>1. Raw(content, x) \in Nat /\ Raw(content, y) \in Nat
      BY RawBounded
    <3>2. Modifier(weight) \in Nat /\ Modifier(weight) > 0
      BY ModifierPositive
    <3>3. Raw(content, y) * Modifier(weight) <= Raw(content, x) * Modifier(weight)
            <=> Raw(content, y) <= Raw(content, x)
      BY <3>1, <3>2, ProductOrder
    <3>4. QED
      BY <1>1, <3>3
  <2>2. \A x \in X : FindingOf(content, weight, x) \in first
                       <=> x \in LeadingSnapshots(content, X)
    BY <2>1 DEF LeadingSnapshots
  <2>3. \A f \in first : \E x \in LeadingSnapshots(content, X) : f = FindingOf(content, weight, x)
    BY <2>2
  <2>4. LeadingSnapshots(content, X) \subseteq X
    BY DEF LeadingSnapshots
  <2> HIDE DEF first
  <2>5. leads = { f.category : f \in first }
    BY DEF first
  <2> HIDE DEF leads
  <2>6. QED
    BY <1>1, <2>2, <2>3, <2>4, <2>5
<1>7. LeadCategories(found) = leads
  BY DEF LeadCategories
<1> HIDE DEF found, assessments, sessions, tiers, confidences, leads
<1>8. CardOf(found) =
        LET matched == { c \in UNION { a.contributions : a \in assessments } : c.matched # {} }
            primary == LeadingAssessment(assessments)
        IN  [session |-> Max(sessions), tier |-> Max(tiers), confidence |-> Min(confidences),
             leads |-> LeadCategories(found),
             impact |-> IF assessments = {} THEN "none" ELSE primary.impact,
             node |-> IF assessments = {} THEN None ELSE primary.primary,
             nodes |-> { c.node : c \in matched }]
  BY DEF CardOf, assessments, sessions, tiers, confidences
<1>9. QED
  BY <1>2, <1>3, <1>4, <1>5, <1>6, <1>7, <1>8, Zenon DEF CardBy, found

\* The leading assessment is one of them, and none has a larger score.
LEMMA LeadingExists ==
  ASSUME NEW A \in SUBSET ThesisRelevanceAssessment, A # {}
  PROVE  /\ LeadingAssessment(A) \in A
         /\ \A a \in A : a.score <= LeadingAssessment(A).score
<1> DEFINE best == { a \in A : \A b \in A : b.score <= a.score }
           named == { a \in best : a.primary # None }
           scores == { a.score : a \in A }
           nodes == { a.primary : a \in named }
           any == CHOOSE a \in best : TRUE
           first == CHOOSE a \in named : \A b \in named : a.primary <= b.primary
<1>1. \A a \in A : a.score \in 0..Unit /\ a.primary \in Nat \cup {None}
  BY DEF ThesisRelevanceAssessment
<1>2. scores \in SUBSET (0..Unit) /\ scores # {} /\ Unit \in Nat
  BY <1>1, RelevanceAssumption
<1>3. \E a \in A : \A b \in A : b.score <= a.score
  <2>1. PICK k \in scores : \A j \in scores : k >= j
    BY <1>2, Largest
  <2>2. PICK a \in A : a.score = k
    OBVIOUS
  <2>3. \A b \in A : b.score \in scores
    OBVIOUS
  <2> HIDE DEF scores
  <2>4. \A b \in A : b.score <= a.score
    BY <1>1, <2>1, <2>2, <2>3
  <2>5. QED
    BY <2>4
<1>4. any \in best
  <2>1. best # {}
    BY <1>3
  <2> HIDE DEF best
  <2>2. QED
    BY <2>1
<1>5. named # {} => first \in named
  <2> SUFFICES ASSUME named # {} PROVE first \in named
    OBVIOUS
  <2>1. nodes \in SUBSET Nat /\ nodes # {}
    BY <1>1
  <2>2. PICK k \in nodes : \A j \in nodes : k <= j
    BY <2>1, LeastNatural
  <2>3. PICK a \in named : a.primary = k
    OBVIOUS
  <2>4. \A b \in named : b.primary \in nodes
    OBVIOUS
  <2> HIDE DEF named, nodes
  <2>5. \A b \in named : a.primary <= b.primary
    BY <2>2, <2>3, <2>4
  <2>6. QED
    BY <2>3, <2>5
<1>6. LeadingAssessment(A) = IF named = {} THEN any ELSE first
  BY DEF LeadingAssessment
<1> HIDE DEF any, first
<1>7. named \subseteq best
  OBVIOUS
<1> HIDE DEF named
<1>8. LeadingAssessment(A) \in best
  BY <1>4, <1>5, <1>6, <1>7
<1>9. QED
  BY <1>8

LEMMA AssessmentsSound ==
  ASSUME NEW content \in Contents \cup {None}, NEW X \in SUBSET Snapshots
  PROVE  /\ content = None => AssessmentsOf(content, X) = {}
         /\ content # None => /\ AssessmentsOf(content, X) = { Assessment(content, x) : x \in X }
                              /\ X # {} => AssessmentsOf(content, X) # {}
         /\ AssessmentsOf(content, X) \in SUBSET ThesisRelevanceAssessment
<1>1. CASE content = None
  <2>1. \A x \in X : Assessment(content, x) = None
    BY <1>1 DEF Assessment
  <2>2. AssessmentsOf(content, X) = {}
    BY <2>1 DEF AssessmentsOf
  <2>3. QED
    BY <1>1, <2>2
<1>2. CASE content # None
  <2>1. \A x \in X : Assessment(content, x) \in ThesisRelevanceAssessment
                     /\ Assessment(content, x) # None
    BY <1>2, AssessmentSound
  <2>2. AssessmentsOf(content, X) = { Assessment(content, x) : x \in X }
    BY <2>1 DEF AssessmentsOf
  <2>3. QED
    BY <1>2, <2>1, <2>2
<1>3. QED
  BY <1>1, <1>2

\* The ids of the nodes with a matched feature.
MatchedNodes(A) ==
    { c.node : c \in { d \in UNION { a.contributions : a \in A } : d.matched # {} } }

CardImpact(A) == IF A = {} THEN "none" ELSE LeadingAssessment(A).impact

CardNode(A) == IF A = {} THEN None ELSE LeadingAssessment(A).primary

TiersOf(content, X) == { TierOf(Raw(content, x)) : x \in X }

LEMMA CardFields ==
  ASSUME NEW content, NEW X, NEW card, card = CardBy(content, X)
  PROVE  /\ card.session = Max({ x.session : x \in X })
         /\ card.tier = Max(TiersOf(content, X))
         /\ card.impact = CardImpact(AssessmentsOf(content, X))
         /\ card.node = CardNode(AssessmentsOf(content, X))
         /\ card.nodes = MatchedNodes(AssessmentsOf(content, X))
<1> DEFINE A == AssessmentsOf(content, X)
           nodes == MatchedNodes(A)
           session == Max({ x.session : x \in X })
           tier == Max(TiersOf(content, X))
           confidence == Min({ Confidence(x, Scores(content, x)) : x \in X })
           leads == { Category(x) : x \in LeadingSnapshots(content, X) }
           impact == CardImpact(A)
           node == CardNode(A)
<1>1. card = [session |-> session, tier |-> tier, confidence |-> confidence, leads |-> leads,
              impact |-> impact, node |-> node, nodes |-> nodes]
  BY DEF CardBy, CardImpact, CardNode, MatchedNodes, TiersOf
<1> HIDE DEF nodes, session, tier, confidence, leads, impact, node
<1>2. /\ card.session = session /\ card.tier = tier /\ card.impact = impact
      /\ card.node = node /\ card.nodes = nodes
  BY <1>1
<1>3. QED
  BY <1>2 DEF nodes, session, tier, impact, node

LEMMA CardsAccepted ==
  ASSUME NEW content \in Contents \cup {None}, NEW X \in SUBSET Snapshots, X # {},
         NEW card, card = CardBy(content, X)
  PROVE  CardAccepted(card, content # None)
<1> DEFINE A == AssessmentsOf(content, X)
<1>1. /\ card.impact = CardImpact(A) /\ card.node = CardNode(A)
      /\ card.nodes = MatchedNodes(A)
  BY CardFields
<1>2. CASE content = None
  <2>1. A = {}
    BY <1>2, AssessmentsSound
  <2>2. card.impact = "none" /\ card.node = None /\ card.nodes = {}
    BY <1>1, <2>1 DEF CardImpact, CardNode, MatchedNodes
  <2>3. QED
    BY <1>2, <2>2 DEF CardAccepted
<1>3. CASE content # None
  <2> DEFINE a == LeadingAssessment(A)
  <2>1. A = { Assessment(content, x) : x \in X } /\ A # {}
        /\ A \in SUBSET ThesisRelevanceAssessment
    BY <1>3, AssessmentsSound
  <2>2. a \in A
    BY <2>1, LeadingExists
  <2> HIDE DEF A, a
  <2>3. PICK x \in X : a = Assessment(content, x)
    BY <2>1, <2>2
  <2>4. content \in Contents
    BY <1>3
  <2>5. /\ a.impact # "none" => a.primary # None
        /\ a.primary # None => \E c \in a.contributions : c.matched # {} /\ c.node = a.primary
    BY <2>3, <2>4, AssessmentSound DEF Reports
  <2>6. card.impact = a.impact /\ card.node = a.primary
    BY <1>1, <2>1 DEF a, CardImpact, CardNode
  <2>7. a.primary # None => a.primary \in MatchedNodes(A)
    BY <2>2, <2>5 DEF MatchedNodes
  <2>8. QED
    BY <1>1, <1>3, <2>5, <2>6, <2>7 DEF CardAccepted
<1>4. QED
  BY <1>2, <1>3

\* A breached rule contributes the whole score.
LEMMA BreachContributes ==
  ASSUME NEW content \in Contents, NEW x \in Snapshots, NEW n \in content,
         n.kind = "invalidation_rule", Breached(n, x)
  PROVE  \E c \in Assessment(content, x).contributions :
           c.score = Unit /\ c.node = n.id /\ c.matched # {}
<1> DEFINE c == RuleContribution(n, x.values)
           v == x.values[n.feature]
           d == Magnitude(n.breach - n.warning)
<1>1. /\ Assessment(content, x) = Assess(content, Strengths(x), x.values)
      /\ Evidence(Strengths(x), x.values)
  BY AssessmentSound
<1>2. n \in Rules(content)
  BY DEF Rules
<1>3. n \in RuleNode /\ ThresholdsOrdered(n)
  BY <1>2, NodeKinds
<1>4. n.feature \in DOMAIN x.values
  BY DEF Breached
<1>5. /\ c.node = n.id /\ c.matched = {n.feature}
      /\ c.score = Clamped(Proximity(n, v))
  BY <1>1, <1>3, <1>4, RuleContributes
<1>6. v \in Int /\ n.warning \in Int /\ n.breach \in Int /\ Unit \in Nat /\ Unit > 0
      /\ n.comparator \in {"gte", "lte"}
  BY <1>1, <1>3, <1>4, RelevanceAssumption DEF Evidence, RuleNode
<1>7. d \in Nat /\ d > 0
  BY <1>3, <1>6 DEF Magnitude, ThresholdsOrdered
<1>8. ASSUME n.comparator = "gte"
      PROVE  Proximity(n, v) \in Int /\ Proximity(n, v) >= Unit
  <2>1. d = n.breach - n.warning /\ v - n.warning \in Nat /\ d <= v - n.warning
    BY <1>3, <1>4, <1>6, <1>8 DEF Magnitude, ThresholdsOrdered, Breached
  <2>2. Unit * d <= (v - n.warning) * Unit /\ (v - n.warning) * Unit \in Int
    <3> DEFINE e == v - n.warning
    <3>1. e \in Nat /\ d <= e
      BY <2>1
    <3> HIDE DEF e, d
    <3>2. Unit * d <= Unit * e /\ Unit * e = e * Unit /\ e * Unit \in Int
      BY <1>6, <1>7, <3>1, ProductGrows
    <3>3. QED
      BY <3>2 DEF e
  <2> DEFINE num == (v - n.warning) * Unit
  <2>3. Proximity(n, v) = num \div d
    BY <1>8 DEF Proximity
  <2> HIDE DEF num, d
  <2>4. num \div d >= Unit /\ num \div d \in Int
    <3>1. num \in Int /\ Unit * d <= num
      BY <2>2 DEF num
    <3>2. num \div d >= Unit
      BY <1>6, <1>7, <3>1, QuotientAtLeast
    <3>3. QED
      BY <1>7, <3>1, <3>2
  <2>5. QED
    BY <2>3, <2>4
<1>9. ASSUME n.comparator = "lte"
      PROVE  Proximity(n, v) \in Int /\ Proximity(n, v) >= Unit
  <2>1. d = n.warning - n.breach /\ n.warning - v \in Nat /\ d <= n.warning - v
    BY <1>3, <1>4, <1>6, <1>9 DEF Magnitude, ThresholdsOrdered, Breached
  <2>2. Unit * d <= (n.warning - v) * Unit /\ (n.warning - v) * Unit \in Int
    <3> DEFINE e == n.warning - v
    <3>1. e \in Nat /\ d <= e
      BY <2>1
    <3> HIDE DEF e, d
    <3>2. Unit * d <= Unit * e /\ Unit * e = e * Unit /\ e * Unit \in Int
      BY <1>6, <1>7, <3>1, ProductGrows
    <3>3. QED
      BY <3>2 DEF e
  <2> DEFINE num == (n.warning - v) * Unit
  <2>3. Proximity(n, v) = num \div d
    BY <1>9 DEF Proximity
  <2> HIDE DEF num, d
  <2>4. num \div d >= Unit /\ num \div d \in Int
    <3>1. num \in Int /\ Unit * d <= num
      BY <2>2 DEF num
    <3>2. num \div d >= Unit
      BY <1>6, <1>7, <3>1, QuotientAtLeast
    <3>3. QED
      BY <1>7, <3>1, <3>2
  <2>5. QED
    BY <2>3, <2>4
<1>10. Proximity(n, v) \in Int /\ Proximity(n, v) >= Unit
  <2>1. CASE n.comparator = "gte"
    BY <1>8, <2>1
  <2>2. CASE n.comparator = "lte"
    BY <1>9, <2>2
  <2>3. QED
    BY <1>6, <2>1, <2>2
<1>11. Clamped(Proximity(n, v)) = Unit
  <2> DEFINE p == Proximity(n, v)
  <2> HIDE DEF p
  <2>1. p \in Int /\ p >= Unit => Clamped(p) = Unit
    BY <1>6 DEF Clamped
  <2>2. QED
    BY <1>10, <2>1 DEF p
<1>12. c \in Assessment(content, x).contributions
  BY <1>1, <1>2 DEF Assess, Contributions, Rules
<1> HIDE DEF c
<1>13. QED
  BY <1>5, <1>11, <1>12

\* A breach outranks everything else on the card.
LEMMA BreachOnCard ==
  ASSUME NEW content \in Contents, NEW X \in SUBSET Snapshots,
         NEW card, card = CardBy(content, X), NEW n \in content, NEW x \in X,
         n.kind = "invalidation_rule", Breached(n, x)
  PROVE  card.impact = ImpactFor(Unit) /\ n.id \in card.nodes
<1> DEFINE A == AssessmentsOf(content, X)
           a == LeadingAssessment(A)
           own == Assessment(content, x)
<1>1. content # None /\ None \notin Int /\ Unit \in Nat
  BY NoneAssumption, RelevanceAssumption
<1>2. A = { Assessment(content, y) : y \in X } /\ A \in SUBSET ThesisRelevanceAssessment
  BY <1>1, AssessmentsSound
<1>3. own \in A
  BY <1>2
<1>4. card.impact = IF A = {} THEN "none" ELSE a.impact
  BY CardFields DEF CardImpact
<1>5. card.nodes = MatchedNodes(A)
  BY CardFields
<1>6. PICK c \in own.contributions : c.score = Unit /\ c.node = n.id /\ c.matched # {}
  BY BreachContributes
<1>7. n.id \in MatchedNodes(A)
  <2> HIDE DEF own, A
  <2>1. c \in UNION { b.contributions : b \in A }
    BY <1>3, <1>6
  <2>2. QED
    BY <1>6, <2>1 DEF MatchedNodes
<1>8. own.score >= Unit /\ own.score \in 0..Unit
  <2>1. \A d \in own.contributions : d.score # None => own.score >= d.score
    BY AssessmentSound DEF Reports
  <2>2. own.score \in 0..Unit
    BY AssessmentSound
  <2> HIDE DEF own
  <2>3. QED
    BY <1>1, <1>6, <2>1, <2>2
<1> HIDE DEF own
<1>9. a \in A /\ a.score >= own.score
  BY <1>2, <1>3, LeadingExists
<1>10. PICK y \in X : a = Assessment(content, y)
  BY <1>2, <1>9
<1>11. a.score \in 0..Unit /\ a.impact = ImpactFor(a.score)
  BY <1>10, AssessmentSound DEF Reports
<1> HIDE DEF A, a
<1>12. a.score = Unit
  BY <1>1, <1>8, <1>9, <1>11
<1>13. QED
  BY <1>3, <1>4, <1>5, <1>7, <1>11, <1>12

\* A card without an impact: no assessment has a score, so no signal that
\* a node watches has a strength.
LEMMA SilentCard ==
  ASSUME NEW content \in Contents, NEW X \in SUBSET Snapshots,
         NEW card, card = CardBy(content, X), card.impact = "none",
         NEW n \in Signals(content), NEW x \in X,
         NEW q \in n.features \cap DOMAIN Strengths(x)
  PROVE  x.values[q] = 0
<1> DEFINE A == AssessmentsOf(content, X)
           a == LeadingAssessment(A)
           own == Assessment(content, x)
           c == SignalContribution(n, Strengths(x))
<1>1. content # None /\ None \notin Int /\ Unit \in Nat
  BY NoneAssumption, RelevanceAssumption
<1>2. A = { Assessment(content, y) : y \in X } /\ A \in SUBSET ThesisRelevanceAssessment
  BY <1>1, AssessmentsSound
<1>3. own \in A
  BY <1>2
<1>4. card.impact = IF A = {} THEN "none" ELSE a.impact
  BY CardFields DEF CardImpact
<1>5. /\ own = Assess(content, Strengths(x), x.values) /\ Evidence(Strengths(x), x.values)
      /\ Reports(own) /\ own.score \in 0..Unit
  BY AssessmentSound
<1>6. n \in SignalNode
  BY NodeKinds
<1>7. c \in own.contributions
  BY <1>5 DEF Assess, Contributions, Signals
<1>8. c.score \in 0..Unit /\ c.score >= Strengths(x)[q]
  <2>1. /\ c.matched = n.features \cap DOMAIN Strengths(x)
        /\ \A p \in c.matched : c.score >= Strengths(x)[p]
    BY <1>5, <1>6, SignalContributes
  <2>2. c.score \in 0..Unit
    BY <1>5, <1>6, SignalContributes
  <2> HIDE DEF c
  <2>3. QED
    BY <2>1, <2>2
<1> HIDE DEF c, own
<1>9. own.score >= c.score
  BY <1>1, <1>5, <1>7, <1>8 DEF Reports
<1>10. a \in A /\ a.score >= own.score
  BY <1>2, <1>3, LeadingExists
<1>11. PICK y \in X : a = Assessment(content, y)
  BY <1>2, <1>10
<1>12. a.score \in 0..Unit /\ a.impact = ImpactFor(a.score)
  BY <1>11, AssessmentSound DEF Reports
<1> HIDE DEF A, a
<1>13. a.impact = "none"
  BY <1>3, <1>4
<1>14. a.score = 0
  BY <1>12, <1>13, ImpactsOfScores
<1>15. Strengths(x)[q] \in 0..Unit
  BY <1>5 DEF Evidence
<1>16. Strengths(x)[q] = 0
  BY <1>1, <1>5, <1>8, <1>9, <1>10, <1>14, <1>15
<1>17. QED
  BY <1>16, StrengthsSound

-----------------------------------------------------------------------------
(* The places of a finite set under a strict total order.                  *)
TotalOrder(R, S) ==
    /\ R \subseteq S \X S
    /\ \A s \in S : <<s, s>> \notin R
    /\ \A s, u \in S : s # u => <<s, u>> \in R \/ <<u, s>> \in R
    /\ \A s, u, v \in S : <<s, u>> \in R /\ <<u, v>> \in R => <<s, v>> \in R

Place(R, S, s) == Cardinality({ u \in S : <<u, s>> \in R })

LEMMA PlacesOrdered ==
  ASSUME NEW S, IsFiniteSet(S), NEW R, TotalOrder(R, S)
  PROVE  /\ Cardinality(S) \in Nat
         /\ \A s \in S : Place(R, S, s) \in Nat /\ Place(R, S, s) < Cardinality(S)
         /\ \A s, u \in S : <<s, u>> \in R => Place(R, S, s) < Place(R, S, u)
<1> DEFINE Before(s) == { u \in S : <<u, s>> \in R }
<1>1. \A s \in S : s \notin Before(s)
  BY DEF TotalOrder
<1>2. \A s \in S : Before(s) \subseteq S /\ IsFiniteSet(Before(s))
  BY FS_Subset
<1>3. ASSUME NEW s \in S PROVE Place(R, S, s) \in Nat /\ Place(R, S, s) < Cardinality(S)
  <2>1. Before(s) \in SUBSET S /\ Before(s) # S
    BY <1>1
  <2>2. Place(R, S, s) = Cardinality(Before(s))
    BY DEF Place
  <2> HIDE DEF Before
  <2>3. QED
    BY <2>1, <2>2, ProperSubsetSmaller
<1>4. ASSUME NEW s \in S, NEW u \in S, <<s, u>> \in R
      PROVE  Place(R, S, s) < Place(R, S, u)
  <2>1. Before(s) \subseteq Before(u)
    BY <1>4 DEF TotalOrder
  <2>2. s \in Before(u)
    BY <1>4
  <2>3. Place(R, S, s) = Cardinality(Before(s)) /\ Place(R, S, u) = Cardinality(Before(u))
    BY DEF Place
  <2> HIDE DEF Before
  <2>4. Before(s) # Before(u)
    BY <1>1, <2>2
  <2>5. QED
    BY <1>2, <2>1, <2>3, <2>4, ProperSubsetSmaller
<1>5. Cardinality(S) \in Nat
  BY FS_CardinalityType
<1>6. QED
  BY <1>3, <1>4, <1>5

\* As many have a place below k as there are, up to k.
LEMMA PlacesCounted ==
  ASSUME NEW S, IsFiniteSet(S), NEW R, TotalOrder(R, S), NEW k \in Nat,
         NEW m \in Nat, m = IF k <= Cardinality(S) THEN k ELSE Cardinality(S)
  PROVE  Cardinality({ s \in S : Place(R, S, s) < k }) = m
<1> DEFINE n == Cardinality(S)
           top == { s \in S : Place(R, S, s) < k }
           place == [s \in S |-> Place(R, S, s)]
           short == [s \in top |-> Place(R, S, s)]
<1>1. /\ n \in Nat
      /\ \A s \in S : Place(R, S, s) \in Nat /\ Place(R, S, s) < n
      /\ \A s, u \in S : <<s, u>> \in R => Place(R, S, s) < Place(R, S, u)
  BY PlacesOrdered
<1> HIDE DEF n
<1>2. \A s, u \in S : Place(R, S, s) = Place(R, S, u) => s = u
  <2> SUFFICES ASSUME NEW s \in S, NEW u \in S, Place(R, S, s) = Place(R, S, u), s # u
               PROVE  FALSE
    OBVIOUS
  <2>1. <<s, u>> \in R \/ <<u, s>> \in R
    BY DEF TotalOrder
  <2>2. QED
    BY <1>1, <2>1
<1>3. \A s \in S : Place(R, S, s) \in 0..(n - 1)
  BY <1>1
<1>4. place \in Injection(S, 0..(n - 1))
  BY <1>2, <1>3 DEF Injection, IsInjective
<1>5. IsFiniteSet(0..(n - 1)) /\ Cardinality(0..(n - 1)) = n
  <2>1. 0 \in Int /\ n - 1 \in Int
    BY <1>1
  <2>2. /\ IsFiniteSet(0..(n - 1))
        /\ Cardinality(0..(n - 1)) = IF 0 > n - 1 THEN 0 ELSE (n - 1) - 0 + 1
    BY <2>1, FS_Interval
  <2>3. QED
    BY <1>1, <2>2
<1>6. place \in Surjection(S, 0..(n - 1))
  BY <1>4, <1>5, FS_Injection DEF n
<1>7. \A j \in 0..(n - 1) : \E s \in S : Place(R, S, s) = j
  BY <1>6 DEF Surjection
<1>8. m <= n /\ m <= k
  BY <1>1 DEF n
<1>9. \A s \in top : Place(R, S, s) \in 0..(m - 1)
  BY <1>1 DEF n
<1>10. \A j \in 0..(m - 1) : \E s \in top : Place(R, S, s) = j
  <2> SUFFICES ASSUME NEW j \in 0..(m - 1) PROVE \E s \in top : Place(R, S, s) = j
    OBVIOUS
  <2>1. j \in 0..(n - 1) /\ j < k
    BY <1>1, <1>8
  <2>2. PICK s \in S : Place(R, S, s) = j
    BY <1>7, <2>1
  <2>3. QED
    BY <2>1, <2>2
<1>11. top \subseteq S
  OBVIOUS
<1> HIDE DEF top, place
<1>12. short \in Injection(top, 0..(m - 1))
  BY <1>2, <1>9, <1>11 DEF Injection, IsInjective
<1>13. short \in Surjection(top, 0..(m - 1))
  <2>1. short \in [top -> 0..(m - 1)]
    BY <1>9
  <2>2. \A j \in 0..(m - 1) : \E s \in top : short[s] = j
    BY <1>10
  <2>3. QED
    BY <2>1, <2>2 DEF Surjection
<1>14. IsFiniteSet(0..(m - 1)) /\ Cardinality(0..(m - 1)) = m
  <2>1. 0 \in Int /\ m - 1 \in Int
    OBVIOUS
  <2>2. /\ IsFiniteSet(0..(m - 1))
        /\ Cardinality(0..(m - 1)) = IF 0 > m - 1 THEN 0 ELSE (m - 1) - 0 + 1
    BY <2>1, FS_Interval
  <2>3. QED
    BY <2>2
<1> HIDE DEF short
<1>15. Cardinality(top) = m
  BY <1>12, <1>13, <1>14, FS_Injection
<1>16. QED
  BY <1>15 DEF top

-----------------------------------------------------------------------------
(* The invariant: a card is the one of the findings its security has, of   *)
(* which there is at least one.  No finding is made after the card is.     *)
CardsClosed ==
    \A s \in Securities :
      cards[s] # None => findings[s] # {} /\ cards[s] = CardOf(FindingsOf(s))

IInv == TypeOK /\ CardsClosed

LEMMA InvariantInitial ==
  ASSUME Init
  PROVE  IInv
<1>1. \A s \in Securities : IsFiniteSet(findings[s])
  BY FS_EmptySet DEF Init
<1>2. TypeOK
  BY <1>1 DEF Init, TypeOK
<1>3. CardsClosed
  BY DEF Init, CardsClosed
<1>4. QED
  BY <1>2, <1>3 DEF IInv

LEMMA FindKeeps ==
  ASSUME IInv, NEW s \in Securities, Find(s)
  PROVE  IInv'
<1>1. PICK x \in Snapshots \ findings[s] : findings' = [findings EXCEPT ![s] = @ \cup {x}]
  BY DEF Find
<1>2. cards[s] = None /\ UNCHANGED <<thesis, held, cards>>
  BY DEF Find
<1>3. /\ findings \in [Securities -> SUBSET Snapshots]
      /\ \A u \in Securities : IsFiniteSet(findings[u])
  BY DEF IInv, TypeOK
<1>4. /\ findings'[s] = findings[s] \cup {x}
      /\ \A u \in Securities : u # s => findings'[u] = findings[u]
  BY <1>1, <1>3
<1>5. TypeOK'
  <2>1. findings' \in [Securities -> SUBSET Snapshots]
    BY <1>1, <1>3
  <2>2. \A u \in Securities : IsFiniteSet(findings'[u])
    BY <1>3, <1>4, FS_AddElement
  <2>3. QED
    BY <1>2, <2>1, <2>2 DEF IInv, TypeOK
<1>6. CardsClosed'
  <2> SUFFICES ASSUME NEW u \in Securities, cards'[u] # None
               PROVE  findings'[u] # {} /\ cards'[u] = CardOf(FindingsOf(u)')
    BY DEF CardsClosed
  <2>1. u # s /\ cards[u] # None
    BY <1>2
  <2>2. findings[u] # {} /\ cards[u] = CardOf(FindingsOf(u))
    BY <2>1 DEF IInv, CardsClosed
  <2>3. FindingsOf(u)' = FindingsOf(u)
    BY <1>2, <1>4, <2>1 DEF FindingsOf
  <2>4. QED
    BY <1>2, <1>4, <2>1, <2>2, <2>3
<1>7. QED
  BY <1>5, <1>6 DEF IInv

LEMMA BuildCardKeeps ==
  ASSUME IInv, NEW s \in Securities, BuildCard(s)
  PROVE  IInv'
<1>1. /\ cards[s] = None /\ findings[s] # {}
      /\ cards' = [cards EXCEPT ![s] = CardOf(FindingsOf(s))]
      /\ UNCHANGED <<thesis, held, findings>>
  BY DEF BuildCard
<1>2. cards = [u \in Securities |-> cards[u]]
  BY DEF IInv, TypeOK
<1>3. /\ cards'[s] = CardOf(FindingsOf(s))
      /\ \A u \in Securities : u # s => cards'[u] = cards[u]
      /\ cards' = [u \in Securities |-> cards'[u]]
  BY <1>1, <1>2
<1>4. TypeOK'
  BY <1>1, <1>3 DEF IInv, TypeOK
<1>5. \A u \in Securities : FindingsOf(u)' = FindingsOf(u)
  BY <1>1 DEF FindingsOf
<1>6. CardsClosed'
  BY <1>1, <1>3, <1>5 DEF IInv, CardsClosed
<1>7. QED
  BY <1>4, <1>6 DEF IInv

LEMMA InvariantKept ==
  ASSUME IInv, [Next]_cardVars
  PROVE  IInv'
<1>1. CASE Next
  BY <1>1, FindKeeps, BuildCardKeeps DEF Next
<1>2. CASE UNCHANGED cardVars
  BY <1>2 DEF cardVars, IInv, TypeOK, CardsClosed, FindingsOf
<1>3. QED
  BY <1>1, <1>2

(* Every state satisfies the invariant: cards belong to the findings their *)
(* securities have (BuildCard closes them).                                *)
THEOREM InvariantHolds == Spec => []IInv
<1>1. Init => IInv
  BY InvariantInitial
<1>2. IInv /\ [Next]_cardVars => IInv'
  BY InvariantKept
<1>3. QED
  BY <1>1, <1>2, PTL DEF Spec

(* The state keeps its types, findings of a security finite among them     *)
(* (Find and BuildCard).                                                   *)
THEOREM TypeCorrect == Spec => []TypeOK
<1>1. IInv => TypeOK
  BY DEF IInv
<1>2. QED
  BY <1>1, InvariantHolds, PTL

LEMMA SecuritiesSound ==
  ASSUME IInv, NEW s \in Securities
  PROVE  /\ thesis[s] \in Contents \cup {None} /\ held[s] \in Weights
         /\ findings[s] \in SUBSET Snapshots /\ IsFiniteSet(findings[s])
         /\ FindingsOf(s) = { FindingOf(thesis[s], held[s], x) : x \in findings[s] }
         /\ cards[s] # None => findings[s] # {} /\ cards[s] = CardBy(thesis[s], findings[s])
<1>1. /\ thesis[s] \in Contents \cup {None} /\ held[s] \in Weights
      /\ findings[s] \in SUBSET Snapshots /\ IsFiniteSet(findings[s])
  BY DEF IInv, TypeOK
<1>2. FindingsOf(s) = { FindingOf(thesis[s], held[s], x) : x \in findings[s] }
  BY DEF FindingsOf
<1>3. CardOf(FindingsOf(s)) = CardBy(thesis[s], findings[s])
  BY <1>1, <1>2, CardsIgnoreWeight
<1>4. QED
  BY <1>1, <1>2, <1>3 DEF IInv, CardsClosed

LEMMA CardNumbers ==
  ASSUME IInv, NEW s \in Securities, cards[s] # None
  PROVE  cards[s].tier \in 0..3 /\ cards[s].session \in Nat
<1> DEFINE content == thesis[s]
           X == findings[s]
           card == cards[s]
           tiers == TiersOf(content, X)
           sessions == { x.session : x \in X }
<1>1. /\ content \in Contents \cup {None} /\ X \in SUBSET Snapshots /\ IsFiniteSet(X) /\ X # {}
      /\ card = CardBy(content, X)
  BY SecuritiesSound
<1> HIDE DEF content, X, card
<1>2. card.session = Max(sessions) /\ card.tier = Max(tiers)
  BY <1>1, CardFields
<1>3. \A x \in X : TierOf(Raw(content, x)) \in 0..3 /\ x.session \in Nat
  BY <1>1, RawBounded, TiersSound, CardAssumption DEF PriceResearchSnapshot
<1>4. tiers \in SUBSET (0..3) /\ tiers # {} /\ 3 \in Nat
  BY <1>1, <1>3 DEF TiersOf
<1>5. sessions \in SUBSET Nat /\ sessions # {}
  BY <1>1, <1>3
<1>6. IsFiniteSet(sessions)
  <2> DEFINE at == [x \in X |-> x.session]
  <2>1. at \in Surjection(X, sessions)
    BY DEF Surjection
  <2>2. QED
    BY <1>1, <2>1, FS_Surjection
<1> HIDE DEF tiers, sessions
<1>7. Max(tiers) \in tiers /\ Max(sessions) \in sessions
  BY <1>4, <1>5, <1>6, MaxOfBounded, MaxOfFinite
<1>8. QED
  BY <1>2, <1>4, <1>5, <1>7 DEF card

-----------------------------------------------------------------------------
(* The properties.                                                         *)

(* What the pipeline builds, the validators of ResearchFinding,            *)
(* MaterialityScore and ResearchCard accept: build_price_finding and       *)
(* build_research_card never fail on what they are given.                  *)
THEOREM DomainAcceptsPipeline == Spec => []PipelineAccepted
<1>1. ASSUME IInv PROVE PipelineAccepted
  <2>1. ASSUME NEW s \in Securities, NEW f \in FindingsOf(s) PROVE FindingAccepted(f)
    <3>1. PICK x \in findings[s] : f = FindingOf(thesis[s], held[s], x)
      BY <1>1, SecuritiesSound
    <3>2. thesis[s] \in Contents \cup {None} /\ x \in Snapshots
      BY <1>1, SecuritiesSound
    <3>3. /\ f.raw = Raw(thesis[s], x)
          /\ f.completeness = Completeness(Scores(thesis[s], x))
          /\ f.assessment = Assessment(thesis[s], x)
      BY <3>1, FindingFields
    <3>4. f.raw \in 0..(100 * Unit)
      BY <3>2, <3>3, RawBounded
    <3>5. f.completeness \in 0..100
      BY <3>2, <3>3, ScoresScored, SumsBounded
    <3>6. f.assessment # None => AssessmentAccepted(f.assessment)
      <4>1. thesis[s] = None => f.assessment = None
        BY <3>3 DEF Assessment
      <4>2. thesis[s] # None => AssessmentAccepted(f.assessment)
        BY <3>2, <3>3, AssessmentSound
      <4>3. QED
        BY <4>1, <4>2
    <3>7. QED
      BY <3>4, <3>5, <3>6 DEF FindingAccepted
  <2>2. ASSUME NEW s \in Securities, cards[s] # None
        PROVE  CardAccepted(cards[s], thesis[s] # None)
    <3>1. /\ thesis[s] \in Contents \cup {None} /\ findings[s] \in SUBSET Snapshots
          /\ findings[s] # {} /\ cards[s] = CardBy(thesis[s], findings[s])
      BY <1>1, <2>2, SecuritiesSound
    <3>2. QED
      BY <3>1, CardsAccepted
  <2>3. QED
    BY <2>1, <2>2 DEF PipelineAccepted
<1>2. QED
  BY <1>1, InvariantHolds, PTL

(* A missing component never raises a score, a tier, a relevance or a      *)
(* completeness (missing_component_policy zero), provided that the tier    *)
(* labels ascend with their bounds.                                        *)
THEOREM SparseNeverRises ==
  ASSUME LabelsAscend PROVE Spec => []EvidenceOnlyAdds
<1>1. ASSUME IInv PROVE EvidenceOnlyAdds
  <2> SUFFICES ASSUME NEW s \in Securities, NEW f \in FindingsOf(s), NEW g \in FindingsOf(s),
                      Extends(f.snapshot, g.snapshot)
               PROVE  /\ f.raw >= g.raw /\ f.tier >= g.tier /\ f.completeness >= g.completeness
                      /\ f.assessment # None => f.assessment.score >= g.assessment.score
    BY DEF EvidenceOnlyAdds
  <2>1. PICK x \in findings[s] : f = FindingOf(thesis[s], held[s], x)
    BY <1>1, SecuritiesSound
  <2>2. PICK y \in findings[s] : g = FindingOf(thesis[s], held[s], y)
    BY <1>1, SecuritiesSound
  <2>3. thesis[s] \in Contents \cup {None} /\ x \in Snapshots /\ y \in Snapshots
    BY <1>1, SecuritiesSound
  <2>4. f.snapshot = x /\ g.snapshot = y
    BY <2>1, <2>2, FindingFields
  <2>5. QED
    BY <1>1, <2>1, <2>2, <2>3, <2>4, FindingsGrow
<1>2. QED
  BY <1>1, InvariantHolds, PTL

(* The position weight enters the order of a security's findings alone: it *)
(* scales them all alike, so that no card depends on it (priority_score).  *)
THEOREM WeightLeavesCards == Spec => []WeightOnlyPrioritizes
<1>1. ASSUME IInv PROVE WeightOnlyPrioritizes
  <2> SUFFICES ASSUME NEW s \in Securities, NEW u \in Securities,
                      cards[s] # None, cards[u] # None,
                      thesis[s] = thesis[u], findings[s] = findings[u]
               PROVE  cards[s] = cards[u]
    BY DEF WeightOnlyPrioritizes
  <2>1. /\ cards[s] = CardBy(thesis[s], findings[s])
        /\ cards[u] = CardBy(thesis[u], findings[u])
    BY <1>1, SecuritiesSound
  <2>2. QED
    BY <2>1
<1>2. QED
  BY <1>1, InvariantHolds, PTL

(* A breach of an invalidation rule is the highest impact of its card and  *)
(* among its nodes, and a silent card has nothing that moved               *)
(* (assess_thesis_relevance, build_research_card).                         *)
THEOREM BreachIsReported == Spec => []BreachReachesCard
<1>1. ASSUME IInv PROVE BreachReachesCard
  <2> SUFFICES ASSUME NEW s \in Securities, cards[s] # None, thesis[s] # None
               PROVE  /\ \A n \in thesis[s] : \A x \in findings[s] :
                           (n.kind = "invalidation_rule" /\ Breached(n, x)) =>
                             cards[s].impact = ImpactFor(Unit) /\ n.id \in cards[s].nodes
                      /\ cards[s].impact = "none" =>
                           \A n \in { m \in thesis[s] : m.kind # "invalidation_rule" },
                              x \in findings[s] :
                             \A q \in n.features \cap DOMAIN Strengths(x) : x.values[q] = 0
    BY DEF BreachReachesCard
  <2> DEFINE content == thesis[s]
             X == findings[s]
             card == cards[s]
  <2>1. /\ content \in Contents /\ X \in SUBSET Snapshots
        /\ card = CardBy(content, X)
    BY <1>1, SecuritiesSound
  <2> HIDE DEF content, X, card
  <2>2. ASSUME NEW n \in content, NEW x \in X, n.kind = "invalidation_rule", Breached(n, x)
        PROVE  card.impact = ImpactFor(Unit) /\ n.id \in card.nodes
    BY <2>1, <2>2, BreachOnCard
  <2>3. ASSUME card.impact = "none", NEW n \in Signals(content), NEW x \in X,
               NEW q \in n.features \cap DOMAIN Strengths(x)
        PROVE  x.values[q] = 0
    BY <2>1, <2>3, SilentCard
  <2>4. QED
    BY <2>2, <2>3 DEF content, X, card, Signals
<1>2. QED
  BY <1>1, InvariantHolds, PTL

(* The brief takes the first cards of its order: none of a lower tier than *)
(* one it leaves out, and as many as there are up to the limit             *)
(* (build_morning_brief).                                                  *)
THEOREM BriefShowsFirst == Spec => []BriefKeepsTiers
<1>1. ASSUME IInv PROVE BriefKeepsTiers
  <2> DEFINE R == { p \in Shown \X Shown : Precedes(p[1], p[2]) }
             n == Cardinality(Shown)
             m == IF Limit <= n THEN Limit ELSE n
  <2>1. Limit \in Nat /\ Securities \subseteq Nat /\ IsFiniteSet(Securities)
    BY CardAssumption
  <2>2. \A s \in Shown : s \in Nat /\ cards[s].tier \in 0..3 /\ cards[s].session \in Nat
    BY <1>1, <2>1, CardNumbers DEF Shown
  <2>3. IsFiniteSet(Shown)
    BY <2>1, FS_Subset DEF Shown
  <2>4. \A s, u \in Shown : <<s, u>> \in R <=> Precedes(s, u)
    OBVIOUS
  <2>5. R \subseteq Shown \X Shown
    OBVIOUS
  <2> HIDE DEF R
  <2>6. \A s \in Shown : <<s, s>> \notin R
    BY <2>2, <2>4 DEF Precedes
  <2>7. \A s, u \in Shown : s # u => <<s, u>> \in R \/ <<u, s>> \in R
    BY <2>2, <2>4 DEF Precedes
  <2>8. ASSUME NEW s \in Shown, NEW u \in Shown, NEW v \in Shown, <<s, u>> \in R, <<u, v>> \in R
        PROVE  <<s, v>> \in R
    BY <2>2, <2>4, <2>8 DEF Precedes
  <2>9. TotalOrder(R, Shown)
    BY <2>5, <2>6, <2>7, <2>8 DEF TotalOrder
  <2>10. \A s \in Shown : Place(R, Shown, s) = Cardinality({ u \in Shown : Precedes(u, s) })
    BY <2>4 DEF Place
  <2>11. Brief = { s \in Shown : Place(R, Shown, s) < Limit }
    BY <2>10 DEF Brief
  <2>12. /\ n \in Nat
         /\ \A s \in Shown : Place(R, Shown, s) \in Nat
         /\ \A s, u \in Shown : <<s, u>> \in R => Place(R, Shown, s) < Place(R, Shown, u)
    BY <2>3, <2>9, PlacesOrdered
  <2>13. Cardinality(Brief) = Min({Limit, n})
    <3>1. m \in Nat
      BY <2>1, <2>12
    <3>2. Cardinality(Brief) = m
      BY <2>1, <2>3, <2>9, <2>11, <3>1, PlacesCounted
    <3>3. m \in {Limit, n} /\ \A y \in {Limit, n} : m <= y
      BY <2>1, <2>12
    <3> HIDE DEF n, m
    <3>4. \A z \in {Limit, n} : (\A y \in {Limit, n} : z <= y) => z = m
      BY <2>1, <2>12, <3>1, <3>3
    <3>5. Min({Limit, n}) = m
      BY <3>3, <3>4 DEF Min
    <3>6. QED
      BY <3>2, <3>5
  <2>14. ASSUME NEW s \in Shown \ Brief, NEW u \in Brief
         PROVE  cards[s].tier <= cards[u].tier
    <3>1. u \in Shown
      BY <2>11
    <3>2. /\ Place(R, Shown, u) \in Nat /\ Place(R, Shown, u) < Limit
          /\ Place(R, Shown, s) \in Nat /\ ~ (Place(R, Shown, s) < Limit)
      BY <2>11, <2>12, <3>1
    <3>3. <<s, u>> \notin R
      <4>1. <<s, u>> \in R => Place(R, Shown, s) < Place(R, Shown, u)
        BY <2>12, <3>1
      <4>2. QED
        BY <2>1, <3>2, <4>1
    <3>4. ~ Precedes(s, u)
      BY <2>4, <3>1, <3>3
    <3>5. QED
      BY <2>2, <3>1, <3>4 DEF Precedes
  <2>15. QED
    BY <2>13, <2>14 DEF BriefKeepsTiers
<1>2. QED
  BY <1>1, InvariantHolds, PTL

=============================================================================
