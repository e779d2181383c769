----------------------------- MODULE FeaturePanel -----------------------------
(***************************************************************************)
(* The feature store as its readers see it.  Runs append snapshots of      *)
(* features; a snapshot says which instant it is about (effective), when   *)
(* its inputs were known (available) and when it was calculated.  A panel  *)
(* is the newest snapshot of every pinned feature of every security that   *)
(* was known at a cutoff.                                                  *)
(***************************************************************************)
EXTENDS Clock, Integers, FiniteSets

CONSTANTS
    Securities,    \* canonical ids, which are ordered
    FeatureNames,  \* ordered too
    Versions,      \* semantic versions of the calculations
    Configs,       \* versions of the configuration
    Numbers,       \* what a feature may be worth
    Sections,      \* what a run may calculate, each a Section
    MaxTime,       \* bound: instants are 0..MaxTime
    MaxRuns        \* bound: runs that store something

Times == 0..MaxTime

Run == 1..MaxRuns

Values == Numbers \cup {None}

(* One feature over the securities in the domain of values.                *)
Section == [name : FeatureNames, version : Versions, config : Configs,
            values : UNION { [S -> Values] : S \in SUBSET Securities }]

Snapshot == [security : Securities, name : FeatureNames, version : Versions, config : Configs,
             effective : Times, available : Times, calculated : Times, value : Values, run : Run]

ASSUME PanelAssumption ==
    /\ Securities \subseteq Nat /\ FeatureNames \subseteq Nat
    /\ Numbers \subseteq Int /\ None \notin Int
    /\ MaxTime \in Nat /\ MaxRuns \in Nat
    /\ Sections \subseteq Section

VARIABLES
    features,  \* stored feature_snapshot rows
    runs       \* number of runs that have stored features

panelVars == <<now, features, runs>>

\* No snapshot is known before it takes effect or after it is calculated.
PanelTypeOK ==
    /\ now \in Times /\ runs \in 0..MaxRuns
    /\ features \subseteq Snapshot
    /\ \A r \in features :
         r.effective <= r.available /\ r.available <= r.calculated /\ r.calculated <= now

PanelInit == now = 0 /\ features = {} /\ runs = 0

-----------------------------------------------------------------------------
(* A run stores one section, about an instant and from inputs known at     *)
(* another, neither of them later than its own clock.                      *)
Calculate ==
    /\ runs < MaxRuns
    /\ runs' = runs + 1
    /\ \E section \in Sections, available \in 0..now : \E effective \in 0..available :
         features' = features \cup
           { [security |-> s, name |-> section.name, version |-> section.version,
              config |-> section.config, effective |-> effective, available |-> available,
              calculated |-> now, value |-> section.values[s], run |-> runs + 1] :
             s \in DOMAIN section.values }
    /\ UNCHANGED now

Tick == now < MaxTime /\ now' = now + 1 /\ UNCHANGED <<features, runs>>

PanelNext == Calculate \/ Tick

-----------------------------------------------------------------------------
(* The reads take the rows that are stored, so that an answer before a     *)
(* step can be compared with the one after it.                             *)

(* The precedence of vintages: effective, then available, then calculated. *)
Supersedes(a, b) ==
    \/ a.effective > b.effective
    \/ a.effective = b.effective /\ a.available > b.available
    \/ a.effective = b.effective /\ a.available = b.available /\ a.calculated > b.calculated

Latest(rows) == { r \in rows : \A q \in rows : ~Supersedes(q, r) }

\* Defect: the run a row came from is part of its content.
Content_WithRun(r) == r

\* All of a row but its identity.
Content(r) == [r EXCEPT !.run = 0]

\* Several latest rows are one answer only if they say the same.
Ambiguous(rows) == \E r, q \in Latest(rows) : Content(r) # Content(q)

Candidates(stored, s, n, version, config, t) ==
    { r \in stored : /\ r.security = s /\ r.name = n /\ r.version = version
                       /\ r.config = config /\ r.effective <= t /\ r.available <= t }

(* panel_as_of: refused if any pair is ambiguous.                          *)
PanelRefused(stored, versions, config, t) ==
    \E s \in Securities, n \in DOMAIN versions :
      Ambiguous(Candidates(stored, s, n, versions[n], config, t))

PanelAsOf(stored, versions, config, t) ==
    { Content(r) : r \in UNION { Latest(Candidates(stored, s, n, versions[n], config, t)) :
                                 s \in Securities, n \in DOMAIN versions } }

(* latest_as_of: the same choice for one security, whatever the version.   *)
Known(stored, s, n, effective, known) ==
    { r \in stored : /\ r.security = s /\ r.name = n
                       /\ r.effective <= effective /\ r.available <= known }

LatestRefused(stored, s, n, t) == Ambiguous(Known(stored, s, n, t, t))

LatestAsOf(stored, s, n, t) == { Content(r) : r \in Latest(Known(stored, s, n, t, t)) }
=============================================================================
