# Quant RaaS: a TLA+ model of the research platform

Quant RaaS stores what a research desk knew and when it knew it: prices with the
instant they became available, investment theses as versioned documents, the
security master with identifiers that are valid for a time, and once a day a run
of research that turns all of that into dated cards. Its promises are about time
("re-running unchanged inputs must be idempotent", "adding records with
available_at > as_of cannot change an earlier result") and are kept by short
transactions over PostgreSQL or SQLite. This directory models those transactions,
checks them with TLC and proves the central invariants with TLAPS.

Contents: [inventory](#inventory), [plan](#plan), [modules](#modules),
[runs](#runs), [fairness](#fairness), [proofs](#proofs),
[findings](#findings), [limits](#limits).

To check a run: `tlc -config <cfg> <module>.tla`; the tables under *runs* and
*findings* pair them. To check the proofs: `tlapm` on each of FiniteLemmas, ThesisProofs,
PriceIngestionProofs, DailyResearchProofs, SecurityMasterProofs, PortfolioImportProofs,
PointInTimeProofs and ResearchCardsProofs.

## Inventory

Paths are below `src/src/quant_raas/` unless they start with `apps` or
`migrations`, which are below `src/`. `PROJECT.json` lists the same components
with their sources and the hazards at their lines.

**Thesis service and repository** (`services/theses.py`, `storage/repositories.py`
1086-1260). State: a thesis row per key (owner security, creation and archive
times) and its version rows (number, activation, approval). Operations: `create`
(identity and version 1), `append_version` (the author names the version number
they saw), `archive`, and reads as of an effective date and a knowledge cutoff.
Called from HTTP requests and from the dashboard, each in its own session; read by
daily research and by the coverage import. Hard: everything is check-then-write
over rows another request may change. PostgreSQL serializes writers of a thesis
with `SELECT ... FOR UPDATE`, SQLite ignores it. Correct means: histories are
gapless and their activations monotone, no edit overwrites one its author has not
seen, an archive closes the history once, a historical read repeats, requests end.

**Thesis selection** (`research/thesis.py` 95-165). Pure: which version was in
force at a date as known at a cutoff, or why there is none. Hard: four time axes
(activation, expiry, approval, archive) and two cutoffs with closed and open ends;
legacy rows without approval. Correct means: exactly the design note's contract,
no fact recorded after the cutoff shows, knowledge never regresses as cutoffs
advance, an expired version is not replaced by an older one.

**Price ingestion** (`ingestion/prices.py`, `ingestion/quality.py`,
`connectors/`, `storage/repositories.py` 530-640). State: batch rows by batch key,
bar rows by vintage (security, effective time, availability). Operations: fetch
from Yahoo (a bar is available when fetched) or the fixture (the bar says when),
validate, find or insert the batch, compare with stored vintages, insert, commit;
`price_history_as_of`. Hard: retries of one logical request share its batch; two
jobs race for batch row and vintages; corrections are new rows; a crash anywhere.
Correct means: one row per vintage, no bars without batch, settled history repeats,
later vintages are invisible to earlier cutoffs, batch status agrees with its bars.

**Daily research** (`services/daily_research.py`, `services/close_workflow.py`,
`research/findings.py`, `research/cards.py`, `research/evidence.py`,
`services/research_inbox.py`). State: run, evidence, feature, finding and card
rows. One operation: read coverage and prices, derive the run key, reuse the start
time of a stored run, assess every member (bars, benchmark, thesis), then compare
with the stored rows and insert, all for the caller to commit. Hard: reruns while
inputs change, two jobs for one key, a key made of batch ids rather than bars, a
savepoint around the features, a member failing while others succeed. Correct
means: a stored run is what one job computed, reruns of unchanged inputs are
accepted, the past inbox keeps its cards, a run is atomic.

**Security master** (`security_master/service.py`, `storage/repositories.py`
198-385, `domain/security.py`). State: securities, identifiers and benchmark
mappings, both valid for half-open intervals. Operations: register, import a
universe in two passes, configure a benchmark, resolve a reference, benchmark as
of. Hard: no constraint backs the interval checks; a row may refer to a later row;
a reference with blank fields matches several scopes. Correct means: identifiers
become ambiguous at most by requests side by side, mappings are justified, later
rows resolve, benchmark answers repeat.

**Portfolio and coverage import** (`security_master/service.py` 179-310,
`security_master/importer.py`, `services/portfolio_import.py`,
`storage/repositories.py` 387-527). State: coverage lists and memberships, holdings
snapshots and positions. Operations: parse an upload, resolve every row (security,
thesis, benchmark), then look up and insert snapshot and positions, or list and
memberships. Hard: concurrent uploads of one list or instant, retried uploads,
a thesis that is archived between its check and the commit, inserts that wait for
each other's unique keys. Correct means: an upload is stored whole or not at all,
an instant has one content, memberships overlap only by a race, uploads end.

**Feature store** (`feature_store/`, `storage/repositories.py` 806-1081). State:
feature rows by run, security and name. Operations: `upsert_many` in a savepoint,
`latest_as_of`, `panel_as_of` with its precedence among vintages. Hard: several runs
at one instant, restated and repeated rows. Correct means: later knowledge and
repetition change no past panel, nor whether it is refused.

**Screens** (`screens/`). Pure: criteria, missing policy, rank and limit over the
panel, today and replayed over a history of cutoffs. **Backtest** (`backtest/`).
Pure: guards, rebalancing, tails of ranks, lagged execution, turnover. Hard: ties,
small cross-sections, decisions beside the calendar of returns, the last decision of
a period. Correct means: dollar neutral or in cash, no look-ahead, a target stays in
force until the next.

**Events and corporate actions** (`storage/repositories.py` 677-801) and the
**event study** (`quant/event_study.py`). State: event and action rows by source
record and availability. Operations: two upserts, `events_as_of`; pure: alignment of
an event to the session that responds, windows, overlaps. Hard: events at the close,
on weekends and beside missing bars, rescheduled events, reports that arrive late or
twice. Correct means: the first session that could react is found, eligible windows
are disjoint, a study repeats. Only tests call them so far.

**Quantitative methods** (`quant/`). Pure; the discrete ones select the newest
vintages known at a cutoff and count over them (`estimates.py`, `ownership.py`, and
the same selection in `normalization/snapshots.py` and `backtest/validation.py`).
Hard: vintages out of order, backfills, missing numbers. The rest is statistics.

**Thesis relevance** (`research/thesis.py` 31-98, 159-281), **materiality, findings,
cards and reports** (`research/materiality.py`, `findings.py`, `cards.py`,
`reports.py`). Pure, called by daily research: contributions of the nodes of a thesis,
a weighted score with missing components, tier and priority, the lead among findings,
the brief. Hard: what is missing, ties, several findings of one security. Correct
means: evidence only adds, positions change priority alone, a breach reaches the
card, the domain objects accept what is built, the brief keeps the highest tiers.

**Normalization**, **AI guardrails**: pure functions of one row or request.
**Licensed and filing connectors**: placeholders that raise.
**Storage sessions and schema** (`storage/session.py`, `models.py`): commit on
success, rollback on an exception, unique constraints, SQLite settings.
**HTTP API** (`apps/api`), **dashboard** (`apps/dashboard`), **command line and
worker**, **demo data**, **schema migrations**, **configuration and domain
types**: callers and plumbing of the above.

Components interact through the database alone; there are no queues, callbacks or
threads of their own. Every interaction below is therefore one transaction's
statements falling between another's:

    ingestion --bars, batches--> daily research --cards--> inbox, dashboard
    dashboard, API --theses-->   daily research            ^
    imports --coverage, weights--> daily research          |
    daily research --features--> feature store --panels--> screens, backtest
    security master --identifiers, benchmarks--> imports, daily research

## Plan

Each step is a component module, an abstract specification where another
component relies on it, an instance for TLC, then proofs.

| Step | Modules | State |
|---|---|---|
| A theses | ThesisSelection, ThesisStore, ThesisLog (abstract), ThesisReads; ThesisProofs | done |
| B prices | PriceVintages, PriceFeed (abstract), PriceIngestion, PriceIngestionProofs | done |
| C daily research, over PriceFeed and ThesisLog | DailyResearch, DailyResearchProofs | done |
| D security master | SecurityMaster, SecurityMasterProofs | done |
| E portfolio and coverage import, over identifiers and theses | PortfolioImport, PortfolioImportProofs | done |
| F feature panel, screens, backtest, vendor vintages | Clock, FeaturePanel, Screens, Backtest, VendorVintages, composed in PointInTime; PointInTimeProofs | done |
| G events and the event study | Events, EventStudy; PointInTimeProofs | done |
| H thesis relevance, materiality, cards, brief | ThesisRelevance, ResearchCards, ResearchCardsProofs | done |

Every safety invariant, action property and refinement that a passing run checks is
stated by a theorem. Still worth modelling: the second session of a price history in
DailyResearch and the dashboard's drafts, keyed by the version they were opened on.

## Modules

In every module a client is one request or job with its own database
transaction; its record holds the phase it has reached and what it has read,
computed or flushed. Committed rows are the tables' variables. An action runs from
one point where another transaction can come between to the next; a check that
fails, a lost race for a unique key and a crash all discard the record. A row
flushed by another open transaction under the same unique key holds an insert
back, as PostgreSQL does. Instants are small naturals; a clock is a variable that
ticks. "Defect" operators are plausible mistakes kept beside the definition they
would replace: they show that each property can fail (`mutants` in PROJECT.json).

**ThesisSelection** is `select_thesis_version` and `active_thesis_version` as
operators over a thesis row and a set of version rows. MCThesisSelection generates
every small history, legacy rows and expiries included, and replays reads while
the two cutoffs advance (ReplaySpec).

**ThesisStore** cuts a request where the code meets the database: Begin (the
service reads its clock), Read (its own lookups and checks), Lock (the repository's
`FOR UPDATE` and the checks repeated under it), Write (flush), Commit. RowLocks
tells PostgreSQL from SQLite, whose only lock is the write lock from first flush to
commit. **ThesisLog** is what the service promises: per key an append-only log and
an archive mark, changed one whole operation at a time; `ImplementsLog` is the
refinement. **ThesisReads** adds a reader that takes identity and versions in two
statements while writers run.

**PriceVintages** has the vintage key and `price_history_as_of`, shared by the
next three. **PriceIngestion** is a job from fetch to commit; a retry is a second
job with the same request. Which provider is configured is chosen once. A bar's
open, high, low, close and volume are one value, since the code only asks whether
they are equal. **PriceFeed** is the promise to readers: responses are published
whole and a vintage never changes; `ImplementsFeed` is the refinement.

**DailyResearch** composes: PriceFeed's Publish and ThesisLog's operations are
actions of its environment, through INSTANCE, coverage is imported beside, and
jobs run through the steps of `DailyResearchService.run`. What a card says is
abstracted to what it was computed from: bars and thesis version. Finding and card
are one row because they are keyed and compared alike. Sqlite selects the
savepoint behaviour of pysqlite.

**SecurityMaster** takes an upload (a sequence of rows) through two passes:
security and identifier of every row, then the benchmark of every row. The check
and the insert of an identifier or mapping are separate actions. An identifier's
scheme, provider and MIC are one "space"; Matches says which spaces a reference
with the fields of one space matches, as a blank field matches anything. The
record's `base` is history: the rows that were committed when the request began.

**PortfolioImport** runs two uploads side by side with a thesis that is created and
archived. An upload is parsed (an identical row twice, or one malformed row, refuses
it), its rows are resolved one by one, then the statements of the repository follow,
one action each. The two ways an insert can wait (for the same unique key of an open
transaction) are guards, and BreakDeadlock is what the database does about a cycle.
`answers` is history: what a finished import was told.

**FeaturePanel** stores sections (one feature over some securities) under an
effective, an availability and a calculation time and reads them back as
`latest_as_of` and `panel_as_of` do. **Screens** evaluates definitions over the
panel: bounds are intervals of whole numbers, so each of the six comparisons is one.
**Backtest** takes the panels at its decisions, ranks them, and executes the weights
a row later; weights are multiples of 1/Unit. **VendorVintages** holds what the
quantitative methods read from vendors' tables. **PointInTime** composes the four over
one clock (**Clock**, shared with Events): runs and vendors add rows, and every answer is
a function of the stored rows and a cutoff, so replaying a past answer is comparing it
across a step.

**Events** upserts vintages of events and corporate actions; **EventStudy** adds
sessions whose bars arrive late or never, and aligns, cuts and flags windows. A day
has four slots: before the open, in session, the close itself, the evening. Its
specification is StudySpec.

**ThesisRelevance** and **ResearchCards** are the numbers of daily research, which
DailyResearch leaves out: from the values that could be calculated to a card and the
brief. Scores are steps of 1/Unit and weights hundredths, chosen so that products,
square roots and thresholds stay exact; rounding of floating-point numbers is out of
the model.

## Runs

| Run | What it asks | Instance |
|---|---|---|
| thesis_selection | Does the selection meet the design note on every history, and do replays at advancing cutoffs never see the future or fall back? | 2 versions, instants 0..2 |
| thesis_store | With row locks, do interleaved creates, appends, archives and two-statement reads keep the log? Do settled reads repeat, is ThesisLog implemented, does every request end? | 2 clients, 1 key, instants 0..1, 2 versions, no symmetry |
| price_ingestion | Batches, repeatability, PriceFeed, under races and retries. | 2 jobs, Yahoo request for two securities or two fixture requests for one, 1 session, 2 values, instants 0..1 |
| daily_research_reruns | One job at a time, rerun while bars, thesis and coverage change. | 2 securities, a thesis on one, instants 0..1 |
| daily_research_concurrent | Two jobs for one key. | 2 securities, one the benchmark of the other, 2 jobs |
| daily_research_savepoint | "One atomic transaction", on SQLite. *Violated.* | 2 securities, Sqlite TRUE |
| security_master | Overlaps, justification, later rows, repeatable benchmarks, for two concurrent uploads. | 3 securities, 2 identifiers, 3 intervals, 10 uploads |
| portfolio_import | Atomic uploads, one content per instant, overlaps only by a race, theses known, uploads end. | 2 clients, 3 securities, 1 thesis, instants 0..1, 2 imports |
| backtest | Do panels, screens, backtests and vendor studies replay, without look-ahead, and does the strategy stay neutral? | 4 securities, 2 features, 5 sections, instants 0..3, 2 runs or deliveries |
| backtest_calendar | "Between rebalance dates the previous target remains in force." *Violated.* | same |
| event_study | Alignment, disjoint windows, newest vintages, repeatable studies. | 2 records, 3 days of 4 slots, 5 event batches |
| research_cards | Do scores, relevance, cards and brief keep what their comments and validators say? | 2 securities, 2 findings, 3 contents, 3 weights |

Why the bounds are enough. The hazards of the transactional modules are races of two
transactions and the order of a few instants: a lost update, a check overtaken by a
commit or a rollback needs two clients, and the third writer only repeats what the
second can do to the first. Two versions let one be the base, the rival or the
predecessor of the other. Instants 0..1 give "before" and "after" one cutoff and equal
stamps; what needs more of them in ThesisStore is proved for every bound. Ingestion
needs two values (a correction or a disagreement) and two securities (a partly failed
request). In SecurityMaster the intervals [0,1), [0,oo) and [1,oo) are disjoint, nested
and touching pairs. Uploads in PortfolioImport include a repetition, a changed note, a
second list order, a list not yet there and a thesis of another security. A backtest
needs four names (the code's minimum) and two periods of two instants, one of them no
row of the returns; two runs suffice for a restatement, a repetition or an ambiguity,
and four sections hold distinct values, ties across the middle and a missing value. An
event study needs two events, a day without a bar and a vintage that moves an event. A
card of two findings has a lead and another; which features are missing is every subset.

Named bounds: MaxTime and MaxDay stop a clock, MaxVersions keeps an append from
beginning on a full history, MaxImports and MaxRuns (features and deliveries together)
count what arrives, MaxFindings the findings in all, Delays how long a bar may be late,
Histories the cutoffs a screen is replayed at, Uploads, Requests, Sections, EventBatches,
VendorBatches and Snapshots are the inputs. Symmetry is used for clients (and bar values)
in safety runs only, where no definition names a particular one.

CHECK_DEADLOCK FALSE is set where a bounded clock with all inputs used up leaves nothing
to do: the selection, DailyResearch, PortfolioImport, PointInTime, EventStudy and
ResearchCards. Elsewhere deadlock is checked, so no set of requests waits for ever without
the abort a database gives them; in PortfolioImport `ImportsEnd` says the same.

Each module states its TypeOK (ReplayTypeOK in MCThesisSelection, StudyTypeOK in
EventStudy); the proofs establish every one (in DailyResearch as a part of IInv), and it
can be added to any cfg.

Some answers need their context:

- thesis_store, `SettledReadsRepeat`: a cutoff is settled once the clock and every
  request in progress have passed it. `approved_at` is the start of a request, so a read
  at a cutoff not yet settled may change; this is the code's design and the property says
  exactly when it is over.
- The thesis history is contiguous, monotone and without lost edits on SQLite too. No
  run repeats these there: the proofs cover both values of RowLocks.
- daily_research_*, `PastInboxStable`: cards of the past never change, but a rerun may
  add the card of a member imported since with a start date in the past.
- security_master, `LaterRowsResolve`: its exception is real. A row whose identifier is
  already stored with the same start keeps the stored end.
- backtest, `NoLookAhead`: its exception is real too. With weekly or monthly
  rebalancing a new last decision of a period replaces an earlier one of the same period,
  whose rows then lose the target they would have traded on. That is a look ahead of
  "which decision was the last", not of values.
- event_study, `NewestUnlessMoved`: a rescheduled event still shows in its old window,
  because the window of effective times is applied before vintages are chosen.

## Fairness

Two runs ask for liveness. In thesis_store (`RequestsEnd`: a request that begins is
answered or rolled back) strong fairness of each client's Progress, the steps of its
handler without Abort, is assumed. Handlers are ordinary synchronous code that runs to
its answer, which is weak fairness of the steps that stay enabled; it is strong where a
statement waits for the thesis row, a unique key or the write lock, because the lock may
be taken and released by others repeatedly, and a database queues its waiters rather than
pass one over for ever. In portfolio_import (`ImportsEnd`) weak fairness of each client's
Step is enough: uploads are few, so whoever waits is let in or the cycle is broken, and
a database detects deadlocks. Nothing is assumed of Begin (users may stop), of Tick, of
readers or of crashes.

## Proofs

All theorems hold for any sets of clients, keys, securities, events, snapshots and names
and any bounds, from the named assumptions of the modules (StoreAssumption,
IngestionAssumption, ResearchAssumption, MasterAssumption, ImportAssumption,
PanelAssumption, ScreenAssumption, BacktestAssumption, VendorAssumption, BatchAssumption,
EventAssumption, StudyAssumption, RelevanceAssumption, CardAssumption, and those about
None). They say that the bounds are naturals, that None is no ordinary value, that inputs
have their types, that a request, a definition or a universe names finitely many items, and
what the validators of the configuration ask for: impact labels down to zero, weights that
sum to one. One is about the model's own unit: the Unit of a backtest is divisible by the
size of every tail, which makes equal shares exact. TLC evaluates all of them.

**FiniteLemmas** has what the others share. Where a set is finite, induction over it is
done by hand: a claim is a set of subsets, and the smallest subset outside it is impossible
(SizeInduction, SubsetInduction). A fold of TLC's library is the unique sum (SumExists,
SumSplit); sums are compared, scaled and split (SumDominated, SumScaled, SumApart,
SumBelow, SumConstant), and bounded sets have a greatest element (Largest, GreatestNumber).

**ThesisProofs, the selection.** The key of the code's `max` is a linear order on the versions
of one thesis, because numbers are unique (GreatestIs), and a non-empty finite set has a
greatest element under it (GreatestExists). Hence SelectionMeetsContract, against the
sentences of the design note, and the three action properties: LaterFactsStayHidden,
KnowledgeAdvances and ExpiryIsFinal. They need no invariant but the types, since the
history is fixed and the cutoffs advance.

**ThesisProofs, the store.** `InvariantHolds` proves the inductive invariant IInv of
ThesisStore: types; Requests, that a request's draft still is what its checks
accepted (DraftShape, DraftFollows) and that what it has flushed is new
(FlushedIsNew); WritesExclusive, that two requests never have flushed rows of one
thesis; LocksExclusive, that with row locks the holder's thesis is open; and
History. History alone is not inductive: that a commit extends a history by the next
number holds because the drafts of others cannot be committed meanwhile, which is
FlushedIsNew with WritesExclusive. From it follow TypeCorrect,
HistoryIsContiguous, ActivationsAreMonotone, NoEditIsLost on both databases, and
with RowLocks ArchivedThesisIsClosed, ArchiveTimeIsSetOnce and
HistoricalReadsRepeat. The assumption RowLocks is needed: without it TLC has the
counterexample of ThesisStoreArchiveRace.cfg (finding 3).

`StoreImplementsLog`: with RowLocks every step of ThesisStore is
a whole operation of ThesisLog, or a stutter, under the mapping that reads the log off
the rows. It adds to IInv that a history has one row for each number up to its size
(Counted): then what a commit inserts is entry n + 1 (CommitsNext, LogAppended), and
LocksExclusive says that the thesis is open. `ReadsAnswerOneState`: only an archive changes the identity row a reader holds, and versions rest from then on,
so the answer is one that some state between the two statements would have given.

**PriceIngestionProofs.** The inductive invariant says that a job holds a response of its
own request, one bar for a vintage and stamped when it was fetched where the provider
does so (ResponseValid), that past the look-up it brings its batch row or relies on a
stored one (BatchKnown), and that what it has flushed is apart from the stored vintages
(FlushedIsNew) and from what others have flushed (FlushedApart). VintagesUnique alone is
not inductive: the last two are what lets a check made before another's commit still hold
at one's own. From it follow TypeCorrect, VintagesAreUnique, EveryBarHasBatch,
HistoryRepeats and `IngestionImplementsFeed`, the refinement of PriceFeed.

**DailyResearchProofs.** The inductive invariant says that the run and cards of a job are
one computation (Computed), that what it has stored contradicts no committed row (Agrees)
and no row another job has stored (Apart). Jobs meet only over equal keys. A run or card
stored by one keeps others with its key waiting or is equal to theirs, because a rerun
reuses the stored start time; equal features are computed from equal inputs, so comparing
them suffices. On both databases it gives RunsAreConsistent, RefusalsAreJustified and
PastInboxIsStable. RunIsAtomic assumes PostgreSQL: without that TLC has finding 1.

**SecurityMasterProofs.** `OverlapIsSharedInstant`: the overlap query of two
intervals is true exactly when some instant lies in both. The inductive invariant
adds to the properties what a request knows between check and insert: a checked
identifier or mapping is apart from the request's own rows and from those stored
when it began (IdentifierFree, MappingFree), a draft is justified by what its
request sees (OwnJustified), and a registered row stays in sight (RowsSeen). From it
follow TypeCorrect, SequentiallyUnambiguous, MappingsJustified, LaterRowsFound and
the action property BenchmarkAnswersRepeatAlways.

**PortfolioImportProofs.** The properties are about committed rows, the invariant is about
the uploads that may still commit. Each upload is Identified (its fresh ids are no one
else's) and Settled: what it resolved still resolves (Resolves), its flushed rows are of
its file and of one content (Fits, Flushed), the snapshot or list it found is still there
(SnapshotFound, MembersFound), and the memberships it may add overlap none that were
committed before it began, unless another upload ran beside it (Unraced). Uploads are
Apart under every unique key. Tables says the same of the committed rows, and from it
follow TypeCorrect, Atomic, OneContent, OverlapRace and KnownThesis. An archive in
between leaves KnownThesis true because a reference is judged at the import's instant.

**PointInTimeProofs, the event study.** The invariant (StudyInv) is that stored vintages are distinct in their key
(VintagesApart), which an upsert keeps because it inserts only keys not stored. The
alignment and the windows are functions of one state: AlignedToFirstReaction compares the
slots of a day with the closes of the sessions (ClosesAfter), EligibleShareNoSession
follows from the span of a window reaching from its least to its greatest offset
(WindowsSpanned). NewestIsAnswered uses the invariant; StudiesReplay that an upsert adds
no row a settled cutoff can see.

**PointInTimeProofs, the readers at a cutoff.** Stored snapshots and delivered rows are
never changed or dropped (FeaturesGrow, TablesGrow), and TypeCorrect says that they are
well formed; no stronger invariant is needed, since an answer is a function of the rows.
ReadsReplay: rows that repeat others leave the latest contents and their ambiguity as they
are (LatestRepeats), hence the panel, the frame of a screen, its evaluation and a history
of them, whose last cutoff is its latest (LastCutoff). BacktestReplays: the cross-sections
up to an instant are the same, and if no selected decision is lost, neither is one gained
there (SelectionRepeats): a decision that is the last of its period now was so before,
because the last one before is still selected. So the exception in NoLookAhead is exactly
what the argument needs. VendorReplays: appended rows known later are outside every window,
and a superseded estimate displaces nothing that is newest (BackfillRepeats).
DollarNeutral: a name in both tails would have a rank above 2(q - 1)n and at most 2n
(TailsApart, which needs one row per name, the engine's guard against duplicates), so a
target is equal shares of two disjoint tails, each adding up to the Unit (SharesBalance);
weights are such targets or flat, and the turnover is a triangle inequality under the sum
(TurnoverBounded).

**ResearchCardsProofs.** The invariant is small (a card is the one of the findings its
security has); the work is in what the operators compute: contributions
and assessments are well formed and report what they name (AssessSound); more evidence
raises each score and so both sums (ScoresGrow, SumsGrow), which is SparseNeverRises; the
priorities of a security's findings are its base scores times one positive number, so its
card does not depend on the weight (CardsIgnoreWeight, WeightLeavesCards); a breach is
worth the whole score (BreachContributes, BreachIsReported); and the brief's order is a
strict total order, in which as many cards have a place below the limit as there are, up to
the limit (PlacesCounted, BriefShowsFirst). DomainAcceptsPipeline collects the bounds.
SparseNeverRises assumes LabelsAscend, that a label with a higher bound has at least the
tier: the shipped configuration has it, `MaterialityConfig.validate_labels` checks the
order of the bounds and not that of the names, and a configuration that calls 0.3
"critical" and 0.8 "watch" is accepted and does lower a tier when evidence is added.

Only model-checked: the two liveness properties (RequestsEnd, ImportsEnd), since liveness
under fairness and ENABLED are out of the prover's reach. Not proved either: what the
violated runs and the configurations under *findings* refute, and what is not a property
of a run, such as that CHOOSE finds an element at every position of InOrder.

## Findings

Two runs are expected to be violated and PROJECT.json quotes what they contradict.

1. *Features without cards on SQLite* (daily_research_savepoint). With pysqlite the
   savepoint of the feature write can be the outermost transaction of a rerun, so its
   release commits features whose cards never come.
2. *A target is lost beside the calendar* (backtest_calendar). Targets are reindexed to
   the rows of the returns before they are carried forward (`backtest/engine.py:114`): a
   decision at an instant that is no row never trades, although the comment says that the
   previous target remains in force.

Five more disagreements have a configuration each; TLC finds the counterexample.

| | Command | What it shows |
|---|---|---|
| 3 | `tlc -config ThesisStoreArchiveRace.cfg ThesisStore.tla` | *An append slips past an archive on SQLite.* "Archiving timestamps the identity and prevents new versions" (docs/superpowers/specs/2026-08-20-thesis-versioning-relevance-design.md:147) relies on `FOR UPDATE`, which SQLite, the default database (`config.py:28`), ignores. Two archives can both pass for the same reason. On PostgreSQL neither happens, proved for all bounds. |
| 4 | `tlc -config PriceIngestionFailedBatch.cfg MCPriceIngestion.tla` | *A failed batch can own bars.* `ingestion/quality.py:25` refuses that; a retry finds the batch row of the failed attempt (`repositories.py:537`) and stores its bars under it without updating status or count. |
| 5 | `tlc -config DailyResearchRetriedBatch.cfg MCDailyResearch.tla` | *A retried batch blocks reruns.* "Rerunning the same as-of snapshot is idempotent" (docs/data_contracts.md:230), but the run key holds batch ids, not bars: bars a retry adds change the snapshot and not the key, and the rerun ends in a conflict. |
| 6 | `tlc -config SecurityMasterOverlap.cfg MCSecurityMaster.tla` | *An identifier can name two securities.* docs/data_contracts.md:65-66 excludes it; two registrations with different starts both pass the overlap query (`repositories.py:263`) and both commit. |
| 7 | `tlc -config PortfolioImportRerun.cfg MCPortfolioImport.tla` | *A close can change afterwards.* "Adding records with available_at > as_of cannot change an earlier result" (docs/data_contracts.md:231), but the close takes the newest snapshot dated at or before its instant, whenever it was uploaded (`close_workflow.py:63`). |

Remarks, each visible in a module and promised otherwise by no document or by one that
leaves room:

- Two closes of one day without an explicit cutoff have different keys and leave two
  cards for the same research (PLAN.md:2152 wants one; docs/data_contracts.md promises it
  per snapshot). Cards are keyed by the latest session of their security, features by run.
- Registering an identifier again to close its open interval is accepted and changes
  nothing. A row with a MIC and one without never conflict.
- An upload row that is its own benchmark aborts the whole universe import instead of
  becoming an issue.
- A retried holdings upload is answered with the stored snapshot and its own new
  positions, whose snapshot_id is that of no stored snapshot (`repositories.py:500`).
- An event submitted again under its vintage with other times is silently ignored, since
  only the payload is compared (`repositories.py:688`); a rescheduled event shows in its
  old and its new window.
- A screen's match may be listed among the excluded: a security without a required or a
  rank feature can still meet every criterion (`screens/engine.py:81-90`; PLAN.md:1959).
- The brief orders by tier, then by session, oldest first, then by id
  (`research/reports.py:30`); docs call it ranked by priority.
- A client whose connection breaks after the commit may repeat what is stored; requests
  repeat in every module, what the client is told is not modelled.

## Limits

Left out of the modelled components: thesis content in ThesisStore, descriptive fields of
securities and positions, wording of findings and reports; the second session of a price
history beside theses and coverage, which exceeds what TLC explores; several benchmark
kinds and frequencies; foreign keys, which the modelled order of inserts respects; the
single shared connection of an in-memory SQLite database, which only tests use. Except in
PortfolioImport, database deadlocks are represented by the abort the database answers
them with. Numbers are exact where the code has floating-point ones, so a threshold met
only by rounding is out of the model. In DailyResearch a card is its inputs; what the
numbers say is ResearchCards, and the two are not composed.

Not modelled: statistics over floating-point frames (the rest of `quant/`, backtest
metrics), `members_as_of` (called by nothing), text checks of language-model output,
rendering, argument parsing, placeholders, one-off migrations, demo data (a script that
calls the services once, in order), dashboard layout and the stand-alone AAPL report; they
hold no state shared with the rest. `PROJECT.json` gives each with its reason.
