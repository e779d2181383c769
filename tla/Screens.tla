------------------------------- MODULE Screens -------------------------------
(***************************************************************************)
(* Declarative screens over the feature panel at a cutoff, for today's     *)
(* answer and for the replay of a past one: both take the same path.       *)
(***************************************************************************)
EXTENDS FeaturePanel, Sequences

CONSTANTS
    Registry,     \* the pairs of feature and version the registry knows
    Definitions,  \* the screens evaluated, each a ScreenDefinition
    Histories     \* the cutoffs a screen is replayed at, at least one each

Criterion == [feature : FeatureNames, least : Values, most : Values]

ScreenDefinition ==
    [criteria : SUBSET Criterion, requires : SUBSET FeatureNames,
     rank : FeatureNames \cup {None}, ascending : BOOLEAN, limit : Nat \ {0},
     missing : {"exclude", "fail"}, enabled : BOOLEAN, config : Configs,
     versions : UNION { [F -> Versions] : F \in SUBSET FeatureNames }]

ASSUME ScreenAssumption ==
    /\ Registry \subseteq FeatureNames \X Versions
    /\ Definitions \subseteq ScreenDefinition
    /\ \A d \in Definitions : d.criteria # {}
    /\ Histories \subseteq Seq(Times) \ {<<>>}

-----------------------------------------------------------------------------
ReferencedFeatures(d) ==
    { c.feature : c \in d.criteria } \cup d.requires \cup ({d.rank} \ {None})

(* Every referenced feature is pinned, to a version the registry knows,    *)
(* and nothing else is.                                                    *)
ValidPins(d) ==
    /\ DOMAIN d.versions = ReferencedFeatures(d)
    /\ \A n \in DOMAIN d.versions : <<n, d.versions[n]>> \in Registry

(* The frame of a screen: a value for every security and feature.  A       *)
(* security without any row has a placeholder row, whose value is missing  *)
(* like that of an absent row.                                             *)
Frame(stored, d, t) ==
    LET panel == PanelAsOf(stored, d.versions, d.config, t)
        rows(s, n) == { r \in panel : r.security = s /\ r.name = n }
        value(found) == IF found = {} THEN None ELSE (CHOOSE r \in found : TRUE).value
    IN  [s \in Securities |-> [n \in ReferencedFeatures(d) |-> value(rows(s, n))]]

(* The six comparisons as an interval of whole numbers: a bound left out   *)
(* is None, an open one is moved by one, and no bound asks for a number.   *)
Meets(value, c) ==
    /\ value # None
    /\ c.least = None \/ value >= c.least
    /\ c.most = None \/ value <= c.most

Excluded(frame) == { s \in Securities : \E n \in DOMAIN frame[s] : frame[s][n] = None }

Matching(d, frame) ==
    { s \in Securities : \A c \in d.criteria : Meets(frame[s][c.feature], c) }

RankValue(d, frame, s) == IF d.rank = None THEN None ELSE frame[s][d.rank]

(* The order of the result: by rank, a missing one last whatever the       *)
(* direction, and ties by id.                                              *)
Before(d, a, b, s, u) ==
    \/ a = b /\ s < u
    \/ a # None /\ b = None
    \/ a # None /\ b # None /\ (IF d.ascending THEN a < b ELSE a > b)

\* The sequence of a set in which the i-th element comes after i - 1 others.
InOrder(S, comesBefore(_, _)) ==
    [i \in 1..Cardinality(S) |->
       CHOOSE s \in S : Cardinality({ u \in S : comesBefore(u, s) }) = i - 1]

FirstOf(seq, n) == SubSeq(seq, 1, IF Len(seq) < n THEN Len(seq) ELSE n)

Ranked(d, frame) ==
    FirstOf(InOrder(Matching(d, frame),
                    LAMBDA s, u : Before(d, RankValue(d, frame, s), RankValue(d, frame, u), s, u)),
            d.limit)

Refused == [refused |-> TRUE, matches |-> <<>>, excluded |-> {}]

(* evaluate: refused are a disabled screen, wrong pins, an ambiguous panel *)
(* and, under the policy "fail", a missing value.                          *)
Evaluate(stored, d, t) ==
    LET frame == Frame(stored, d, t)
    IN  IF \/ ~d.enabled \/ ~ValidPins(d)
           \/ PanelRefused(stored, d.versions, d.config, t)
           \/ d.missing = "fail" /\ Excluded(frame) # {}
        THEN Refused
        ELSE [refused |-> FALSE, matches |-> Ranked(d, frame), excluded |-> Excluded(frame)]

(* evaluate_history: one evaluation for each of strictly increasing        *)
(* cutoffs, all or nothing.                                                *)
EvaluateHistory(stored, d, cutoffs) ==
    LET answers == [i \in DOMAIN cutoffs |-> Evaluate(stored, d, cutoffs[i])]
    IN  IF \/ \E i \in 1..(Len(cutoffs) - 1) : cutoffs[i] >= cutoffs[i + 1]
           \/ \E i \in DOMAIN cutoffs : answers[i].refused
        THEN <<>>
        ELSE answers

-----------------------------------------------------------------------------
Added == features' \ features

Repeats(r) == \E q \in features : r = [q EXCEPT !.run = r.run]

(* Rows whose inputs were known only after the last cutoff of a history,   *)
(* and rows that repeat what another run has stored, change nothing in it: *)
(* not the matches, not their order, not what is excluded, and not whether *)
(* it is refused.  The same holds of a security's latest features.         *)
AnswersReplay ==
    [][/\ \A d \in Definitions, cutoffs \in Histories :
            (\A r \in Added : r.available > cutoffs[Len(cutoffs)] \/ Repeats(r)) =>
              EvaluateHistory(features', d, cutoffs) = EvaluateHistory(features, d, cutoffs)
       /\ \A s \in Securities, n \in FeatureNames, t \in Times :
            (\A r \in Added : r.available > t \/ Repeats(r)) =>
              /\ LatestAsOf(features', s, n, t) = LatestAsOf(features, s, n, t)
              /\ LatestRefused(features', s, n, t) = LatestRefused(features, s, n, t)]_panelVars
=============================================================================
