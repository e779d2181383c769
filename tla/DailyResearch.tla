----------------------------- MODULE DailyResearch -----------------------------
(***************************************************************************)
(* DailyResearchService.run, the end-of-day job: concurrent and repeated   *)
(* runs over prices, theses and coverage that change beside them.          *)
(*                                                                         *)
(*   Start          a cutoff is chosen, the active coverage is read;       *)
(*   ReadBars       the price history known at the cutoff is read;         *)
(*   FindRun        the run key follows from the batches read; a stored    *)
(*                  run under it lends its timestamps;                     *)
(*   Assess         each member becomes a card or a failure;               *)
(*   StoreRun, StoreEvidence, StoreFeatures, StoreCards                    *)
(*                  each compares with the stored rows and inserts;        *)
(*   Commit         the caller commits.                                    *)
(*                                                                         *)
(* Prices enter as PriceFeed and theses as ThesisLog promise them.  A      *)
(* finding and its card are one row: both are keyed and compared alike.    *)
(* started_at stands for completed_at too, which follows the same rule.    *)
(* Position weights and versions of code and configuration are fixed: they *)
(* are part of the run key.                                                *)
(***************************************************************************)
EXTENDS PriceVintages, ThesisSelection, Sequences

CONSTANTS
    Clients,     \* concurrent jobs
    Securities,
    Benchmark,   \* the benchmark of each security, or None
    ThesisOf,    \* the thesis key its coverage row names, or None
    Keys,        \* thesis keys
    Batches,     \* ingestion batches
    Sessions,    \* closes of the sessions within the lookback
    AsOf,        \* the as-of instant all runs ask for
    Cutoffs,     \* the data cutoffs they ask for
    MinBars,     \* bars a security needs (21 in the code)
    Sqlite,      \* TRUE: SQLite, whose outermost SAVEPOINT commits on release
    MaxVersions, \* bound: versions of a thesis
    MaxTime      \* bound: the clock stops here

Times == 0..MaxTime

ASSUME ResearchAssumption ==
    /\ MaxTime \in Nat /\ MaxVersions \in Nat /\ MinBars \in Nat \ {0}
    /\ AsOf \in Times /\ Sessions \subseteq Times
    /\ Cutoffs \subseteq { t \in Times : t >= AsOf }
    /\ Sqlite \in BOOLEAN
    /\ None \notin Securities \cup Keys \cup Times
    /\ Benchmark \in [Securities -> Securities \cup {None}]
    /\ \A s \in Securities : Benchmark[s] # s
    /\ ThesisOf \in [Securities -> Keys \cup {None}]

VARIABLES
    now,           \* the clock
    bars,          \* published price bars
    log, archived, \* theses: versions and archive times
    coverage,      \* by security, when it was added, None if it is not covered
    runs, evidence, features, cards,   \* committed research rows
    jobs           \* the run each client has in progress

inputs == <<bars, log, archived, coverage>>
outputs == <<runs, evidence, features, cards>>
vars == <<now, inputs, outputs, jobs>>

BarRow == [security : Securities, effective_at : Sessions, available_at : Times,
           batch : Batches]

Feed == INSTANCE PriceFeed
Log == INSTANCE ThesisLog

-----------------------------------------------------------------------------
RunKey == [cutoff : Cutoffs, batches : SUBSET Batches]

Statuses == {"failed", "partial", "succeeded"}

\* error_message lists the failed members.
RunRow == [key : RunKey, started_at : Times, status : Statuses,
           failed : SUBSET Securities]

ASSUME NoneIsNoRun == None \notin RunRow

CardRow == [key : RunKey, security : Securities, effective_at : Sessions,
            inputs : SUBSET BarRow, version : 1..MaxVersions \cup {None},
            created_at : Times]

FeatureRow == [key : RunKey, security : Securities, inputs : SUBSET BarRow,
               calculated_at : Times]

Phases == {"idle", "covered", "priced", "keyed", "assessed", "run stored",
           "evidence stored", "features stored", "cards stored", "refused"}

(* existing: a stored run was found under the key.  writing: the           *)
(* transaction has inserted a row and is still open.                       *)
Job == [phase : Phases, cutoff : Cutoffs \cup {None}, members : SUBSET Securities,
        history : SUBSET BarRow, existing : BOOLEAN,
        run : RunRow \cup {None}, cards : SUBSET CardRow, writing : BOOLEAN]

Idle == [phase |-> "idle", cutoff |-> None, members |-> {}, history |-> {},
         existing |-> FALSE, run |-> None, cards |-> {}, writing |-> FALSE]

Init ==
    /\ now = 0
    /\ Feed!Init /\ Log!Init
    /\ coverage = [s \in Securities |-> None]
    /\ runs = {} /\ evidence = {} /\ features = {} /\ cards = {}
    /\ jobs = [c \in Clients |-> Idle]

-----------------------------------------------------------------------------
(* The inputs change beside the jobs.                                      *)

\* Bars date their availability at the latest at their publication.
PublishBars ==
    /\ \E batch \in Batches : \E response \in SUBSET { b \in BarRow : b.batch = batch } :
          /\ \A b \in response : b.effective_at <= b.available_at /\ b.available_at <= now
          /\ Feed!Publish(batch, response)
    /\ UNCHANGED <<now, log, archived, coverage, outputs, jobs>>

\* Approvals and archives carry the clock their request read.
EditThesis ==
    /\ Log!Next
    /\ \A k \in Keys :
          /\ Len(log'[k]) <= MaxVersions
          /\ \A i \in 1..Len(log'[k]) : log'[k][i].approved_at <= now
          /\ archived'[k] # None => archived'[k] <= now
    /\ UNCHANGED <<now, bars, coverage, outputs, jobs>>

ThesisRow(k) == [created_at |-> log[k][1].approved_at, archived_at |-> archived[k]]

(* import_coverage: the caller chooses the instant the membership starts   *)
(* at, the thesis it names must exist and be open then.                    *)
ImportCoverage(s) ==
    /\ coverage[s] = None
    /\ \E at \in Times :
          /\ ThesisOf[s] # None =>
                /\ log[ThesisOf[s]] # <<>>
                /\ ThesisRow(ThesisOf[s]).created_at <= at
                /\ ~ ArchivedBy(ThesisRow(ThesisOf[s]), at)
          /\ coverage' = [coverage EXCEPT ![s] = at]
    /\ UNCHANGED <<now, bars, log, archived, outputs, jobs>>

Tick ==
    /\ now < MaxTime
    /\ now' = now + 1
    /\ UNCHANGED <<inputs, outputs, jobs>>

-----------------------------------------------------------------------------
(* Reading and computing.                                                  *)

\* active_coverage_members: memberships are never closed.
Members == { s \in Securities : coverage[s] # None /\ coverage[s] <= AsOf }

\* An empty coverage list is refused.
Start(c) ==
    /\ jobs[c].phase = "idle"
    /\ Members # {}
    /\ \E cutoff \in Cutoffs :
          jobs' = [jobs EXCEPT ![c].phase = "covered", ![c].cutoff = cutoff,
                               ![c].members = Members]
    /\ UNCHANGED <<now, inputs, outputs>>

Requested(c) ==
    jobs[c].members \cup ({ Benchmark[s] : s \in jobs[c].members } \ {None})

ReadBars(c) ==
    /\ jobs[c].phase = "covered"
    /\ LET asked == { b \in bars : b.security \in Requested(c) /\ b.effective_at <= AsOf }
       IN  jobs' = [jobs EXCEPT ![c].phase = "priced",
                       ![c].history = PriceHistoryAsOf(asked, jobs[c].cutoff)]
    /\ UNCHANGED <<now, inputs, outputs>>

\* _run_key
KeyOf(c) == [cutoff |-> jobs[c].cutoff, batches |-> { b.batch : b \in jobs[c].history }]

StoredUnder(key) == { r \in runs : r.key = key }

Later(s, t) == IF s < t THEN t ELSE s

\* Defect: a rerun takes a new start time.
StartedAt_Clock(c) == Later(now, jobs[c].cutoff)

\* A stored run lends its start time, a new one takes the clock.
StartedAt(c) ==
    IF StoredUnder(KeyOf(c)) # {}
    THEN (CHOOSE r \in StoredUnder(KeyOf(c)) : TRUE).started_at
    ELSE Later(now, jobs[c].cutoff)

FindRun(c) ==
    /\ jobs[c].phase = "priced"
    /\ jobs' = [jobs EXCEPT ![c].phase = "keyed",
                  ![c].existing = StoredUnder(KeyOf(c)) # {},
                  ![c].run = [key |-> KeyOf(c), started_at |-> StartedAt(c),
                              status |-> "failed", failed |-> {}]]
    /\ UNCHANGED <<now, inputs, outputs>>

BarsOf(c, s) == { b \in jobs[c].history : b.security = s }

VersionRows(k) ==
    { [version |-> i, valid_from |-> log[k][i].valid_from, valid_to |-> None,
       approved_at |-> log[k][i].approved_at] : i \in 1..Len(log[k]) }

\* version_as_of at the as-of instant and the cutoff; None without a version.
SelectedVersion(c, k) ==
    LET v == SelectThesisVersion(ThesisRow(k), VersionRows(k), AsOf, jobs[c].cutoff).version
    IN  IF v = None THEN None ELSE v.version

\* _assess_thesis: a thesis without a selected version fails the member.
ThesisFails(c, s) ==
    LET k == ThesisOf[s]
    IN  k # None /\ (log[k] = <<>> \/ SelectedVersion(c, k) = None)

Fails(c, s) == Cardinality(BarsOf(c, s)) < MinBars \/ ThesisFails(c, s)

LatestSession(S) ==
    CHOOSE t \in { b.effective_at : b \in S } : \A b \in S : b.effective_at <= t

\* _calculate_security, build_price_finding and build_research_card.
CardOf(c, s) ==
    [key          |-> jobs[c].run.key,
     security     |-> s,
     effective_at |-> LatestSession(BarsOf(c, s)),
     inputs       |-> BarsOf(c, s) \cup (IF Benchmark[s] = None THEN {}
                                         ELSE BarsOf(c, Benchmark[s])),
     version      |-> IF ThesisOf[s] = None THEN None ELSE SelectedVersion(c, ThesisOf[s]),
     created_at   |-> jobs[c].run.started_at]

RunStatus(succeeded, failed) ==
    IF succeeded = {} THEN "failed" ELSE IF failed # {} THEN "partial" ELSE "succeeded"

Assess(c) ==
    LET failed    == { s \in jobs[c].members : Fails(c, s) }
        succeeded == jobs[c].members \ failed
    IN  /\ jobs[c].phase = "keyed"
        /\ jobs' = [jobs EXCEPT ![c].phase = "assessed",
              ![c].members = {}, ![c].history = {},
              ![c].cards = { CardOf(c, s) : s \in succeeded },
              ![c].run.status = RunStatus(succeeded, failed),
              ![c].run.failed = failed]
        /\ UNCHANGED <<now, inputs, outputs>>

-----------------------------------------------------------------------------
(* Storing.  A row another open transaction has inserted under the same    *)
(* key holds an insert back.  A flush that loses such a race fails like a  *)
(* crash does (Abort).                                                     *)

FeatureOf(card) == [key |-> card.key, security |-> card.security,
                    inputs |-> card.inputs, calculated_at |-> card.created_at]

Evidence(c) == UNION { card.inputs : card \in jobs[c].cards }
Features(c) == { FeatureOf(card) : card \in jobs[c].cards }

\* The phases from each of the stores on.
CardsStored == {"cards stored"}
FeaturesStored == {"features stored"} \cup CardsStored
EvidenceStored == {"evidence stored"} \cup FeaturesStored
RunStored == {"run stored"} \cup EvidenceStored

\* The rows d has inserted and not yet committed.
Pending(d) ==
    [runs     |-> IF jobs[d].phase \in RunStored THEN {jobs[d].run} \ runs ELSE {},
     evidence |-> IF jobs[d].phase \in EvidenceStored THEN Evidence(d) \ evidence ELSE {},
     features |-> IF jobs[d].phase \in FeaturesStored THEN Features(d) \ features ELSE {},
     cards    |-> IF jobs[d].phase \in CardsStored THEN jobs[d].cards \ cards ELSE {}]

\* Defect: no unique index on the run key.
RunBlocked_Never(c) == FALSE

RunBlocked(c) ==
    \E d \in Clients \ {c} : \E r \in Pending(d).runs : r.key = jobs[c].run.key

EvidenceBlocked(c) ==
    \E d \in Clients \ {c} : Pending(d).evidence \cap Evidence(c) # {}

FeaturesBlocked(c) ==
    \E d \in Clients \ {c} : \E f \in Pending(d).features, g \in Features(c) :
       f.key = g.key /\ f.security = g.security

CardsBlocked(c) ==
    \E d \in Clients \ {c} : \E x \in Pending(d).cards, y \in jobs[c].cards :
       x.key = y.key /\ x.security = y.security

\* SQLite has one writer at a time.
WriterFree(c) == Sqlite => \A d \in Clients \ {c} : ~ jobs[d].writing

\* RepositoryConflictError leaves the service, the caller rolls back.
Refuse(c) ==
    /\ jobs' = [jobs EXCEPT ![c].phase = "refused", ![c].writing = FALSE]
    /\ UNCHANGED <<now, inputs, outputs>>

\* One store: fresh says that it inserts a row.
Store(c, phase, fresh) ==
    /\ fresh => WriterFree(c)
    /\ jobs' = [jobs EXCEPT ![c].phase = phase, ![c].writing = @ \/ fresh]

\* Defect: the stored run is recognised by its key alone.
RunDiffers_KeyOnly(c) == FALSE

RunDiffers(c) == \E r \in StoredUnder(jobs[c].run.key) : r # jobs[c].run

\* add_run
StoreRun(c) ==
    /\ jobs[c].phase = "assessed"
    /\ ~ RunBlocked(c)
    /\ \/ RunDiffers(c) /\ Refuse(c)
       \/ /\ ~ RunDiffers(c)
          /\ Store(c, "run stored", StoredUnder(jobs[c].run.key) = {})
          /\ UNCHANGED <<now, inputs, outputs>>

\* add_evidence, one bar at a time
StoreEvidence(c) ==
    /\ jobs[c].phase = "run stored"
    /\ ~ EvidenceBlocked(c)
    /\ Store(c, "evidence stored", ~ Evidence(c) \subseteq evidence)
    /\ UNCHANGED <<now, inputs, outputs>>

FeaturesDiffer(c) ==
    \E f \in Features(c), g \in features :
       f.key = g.key /\ f.security = g.security /\ f # g

\* Defect: the features are committed on their own.
Released_OnEveryDatabase(c) == ~ jobs[c].writing

(* upsert_many writes inside a savepoint.  On SQLite a savepoint opened    *)
(* while no transaction is open is committed by its release.               *)
Released(c) == Sqlite /\ ~ jobs[c].writing

StoreFeatures(c) ==
    LET fresh == ~ Features(c) \subseteq features IN
    /\ jobs[c].phase = "evidence stored"
    /\ ~ FeaturesBlocked(c)
    /\ \/ FeaturesDiffer(c) /\ Refuse(c)
       \/ /\ ~ FeaturesDiffer(c)
          /\ fresh => WriterFree(c)
          /\ Store(c, "features stored", fresh /\ ~ Released(c))
          /\ features' = IF Released(c) THEN features \cup Features(c) ELSE features
          /\ UNCHANGED <<now, inputs, runs, evidence, cards>>

CardsDiffer(c) ==
    \E x \in jobs[c].cards, y \in cards :
       /\ x.key = y.key /\ x.security = y.security /\ x.effective_at = y.effective_at
       /\ x # y

\* add_finding and add_card
StoreCards(c) ==
    /\ jobs[c].phase = "features stored"
    /\ ~ CardsBlocked(c)
    /\ \/ CardsDiffer(c) /\ Refuse(c)
       \/ /\ ~ CardsDiffer(c)
          /\ Store(c, "cards stored", ~ jobs[c].cards \subseteq cards)
          /\ UNCHANGED <<now, inputs, outputs>>

Commit(c) ==
    /\ jobs[c].phase = "cards stored"
    /\ runs' = runs \cup {jobs[c].run}
    /\ evidence' = evidence \cup Evidence(c)
    /\ features' = features \cup Features(c)
    /\ cards' = cards \cup jobs[c].cards
    /\ jobs' = [jobs EXCEPT ![c] = Idle]
    /\ UNCHANGED <<now, inputs>>

\* The job ends without committing: a crash, a lost race, a refusal.
Abort(c) ==
    /\ jobs[c].phase # "idle"
    /\ jobs' = [jobs EXCEPT ![c] = Idle]
    /\ UNCHANGED <<now, inputs, outputs>>

Next ==
    \/ PublishBars \/ EditThesis \/ Tick
    \/ \E s \in Securities : ImportCoverage(s)
    \/ \E c \in Clients :
          \/ Start(c) \/ ReadBars(c) \/ FindRun(c) \/ Assess(c)
          \/ StoreRun(c) \/ StoreEvidence(c) \/ StoreFeatures(c) \/ StoreCards(c)
          \/ Commit(c) \/ Abort(c)

Spec == Init /\ [][Next]_vars

-----------------------------------------------------------------------------
(* Every row and every job has its shape, and a card names a thesis        *)
(* version exactly when its security has a thesis.                         *)
TypeOK ==
    /\ now \in Times
    /\ coverage \in [Securities -> Times \cup {None}]
    /\ bars \subseteq BarRow /\ evidence \subseteq bars
    /\ runs \subseteq RunRow /\ features \subseteq FeatureRow /\ cards \subseteq CardRow
    /\ \A x \in cards : x.version = None <=> ThesisOf[x.security] = None
    /\ jobs \in [Clients -> Job]

(* A stored run is what one job computed: one row per key, a status that   *)
(* agrees with its cards and failures, one card per security, all dated    *)
(* as the run.                                                             *)
RunsConsistent ==
    /\ \A x \in cards : StoredUnder(x.key) # {}
    /\ \A r \in runs :
          LET own == { x \in cards : x.key = r.key }
          IN  /\ StoredUnder(r.key) = {r}
              /\ r.status = "failed" <=> own = {}
              /\ r.status = "succeeded" <=> r.failed = {}
              /\ \A x \in own : x.created_at = r.started_at /\ x.security \notin r.failed
              /\ \A x, y \in own : x.security = y.security => x = y

(* "the run, features, findings, and cards [are] one atomic transaction":  *)
(* a committed feature belongs to a committed card of its run.             *)
RunAtomic == \A f \in features : \E x \in cards : FeatureOf(x) = f

SameResearch(x, y) ==
    x.key = y.key /\ x.security = y.security /\ x.inputs = y.inputs /\ x.version = y.version

(* "Re-running unchanged inputs must be idempotent": a rerun is refused    *)
(* only when what it computed, times aside, is not what is stored.         *)
RefusalJustified ==
    [][\A c \in Clients :
          jobs'[c].phase = "refused" /\ jobs[c].phase # "refused" /\ jobs[c].existing
          => ~ /\ \A r \in StoredUnder(jobs[c].run.key) :
                      r.failed = jobs[c].run.failed /\ r.status = jobs[c].run.status
               /\ \A x \in jobs[c].cards : \E y \in cards : SameResearch(x, y)]_vars

\* The first runs in progress started after t.
Settled(t) ==
    /\ t < now
    /\ \A c \in Clients :
          jobs[c].run # None /\ ~ jobs[c].existing => t < jobs[c].run.started_at

CardsAsOf(rows, t) == { x \in rows : x.key.cutoff <= t /\ x.created_at <= t }

(* The inbox as it was at a past instant keeps its cards.  What a rerun    *)
(* adds to it are members imported after the run, never a member the run   *)
(* reported as failed nor a second card.                                   *)
PastInboxStable ==
    [][\A t \in Times : Settled(t) =>
          /\ CardsAsOf(cards, t) \subseteq CardsAsOf(cards', t)
          /\ \A x \in CardsAsOf(cards', t) \ cards :
                \E r \in StoredUnder(x.key) :
                   /\ x.security \notin r.failed
                   /\ \A y \in cards : y.key = x.key => y.security # x.security]_vars

(* "Rerunning the same as-of snapshot is idempotent": a job that finds its *)
(* run stored is not refused.                                              *)
RerunNeverRefused ==
    \A c \in Clients : ~ (jobs[c].phase = "refused" /\ jobs[c].existing)

=============================================================================
