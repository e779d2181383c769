----------------------------- MODULE PriceIngestion -----------------------------
(***************************************************************************)
(* PriceIngestionService.ingest over a provider and the market-data        *)
(* repository, inside a transaction its caller commits or rolls back.      *)
(*                                                                         *)
(*   Fetch        the provider answers with bars and a batch whose         *)
(*                identity a retry of the same request shares;             *)
(*   LookUpBatch  the batch row is looked up by its key;                   *)
(*   StoreBatch   a new batch row is flushed, an existing one is kept;     *)
(*   CompareBars  each bar is compared with the committed vintage;         *)
(*   StoreBars    the new bars are flushed, the unique constraint decides; *)
(*   Commit       the caller commits.                                      *)
(*                                                                         *)
(* The statements interleave as on PostgreSQL (READ COMMITTED).  The write *)
(* lock of SQLite allows a subset of these behaviours.                     *)
(***************************************************************************)
EXTENDS PriceVintages, FiniteSets

CONSTANTS
    None,
    Clients,         \* concurrent ingestion jobs
    Providers,       \* the providers that may be configured
    FetchStamping,   \* those whose bars become available when fetched (Yahoo);
                     \* the others say when (fixture)
    Requests,        \* requests; a batch is identified by provider and request
    ProviderOf,      \* the provider each request is made of
    Items,           \* the securities each request asks for
    Sessions,        \* the closes of the sessions asked for, as instants
    Values,          \* the numbers a bar may carry
    MaxTime          \* bound: the clock stops here

Times == 0..MaxTime

ASSUME IngestionAssumption ==
    /\ MaxTime \in Nat
    /\ Sessions \subseteq Times
    /\ FetchStamping \subseteq Providers
    /\ ProviderOf \in [Requests -> Providers]
    /\ \A r \in Requests : IsFiniteSet(Items[r])
    /\ None \notin Requests \cup Values

VARIABLES
    now,        \* the clock
    provider,   \* the configured provider
    batches,    \* committed ingestion_batch rows by request, None if absent
    bars,       \* committed price_bar rows
    jobs        \* the ingestion each client has in progress

vars == <<now, provider, batches, bars, jobs>>

-----------------------------------------------------------------------------
Securities == UNION { Items[r] : r \in Requests }

BarRow == [security : Securities, effective_at : Sessions, available_at : Times,
           value : Values, batch : Requests]

Statuses == {"succeeded", "partial", "failed"}

BatchRow == [status : Statuses, row_count : Nat]

ASSUME NoneAssumption == None \notin BatchRow

Phases == {"idle", "fetched", "looked up", "stored", "compared", "flushed"}

(* batch is None once the row is known to exist.  response is what was     *)
(* fetched, and from the comparison on what is to be inserted of it.       *)
Job == [phase : Phases, request : Requests \cup {None}, clock : Times,
        batch : BatchRow \cup {None}, response : SUBSET BarRow]

Idle == [phase |-> "idle", request |-> None, clock |-> 0, batch |-> None,
         response |-> {}]

Init ==
    /\ now = 0
    /\ provider \in Providers
    /\ batches = [r \in Requests |-> None]
    /\ bars = {}
    /\ jobs = [c \in Clients |-> Idle]

-----------------------------------------------------------------------------
\* Defect: a bar is stamped with the close of its session.
AvailableAt_SessionClose(session) == {session}

(* Yahoo reports a request that yielded nothing as failed; the fixture     *)
(* reports missing items as partial whatever else it found.                *)
Status(failed, response) ==
    IF failed = {} THEN "succeeded"
    ELSE IF provider \in FetchStamping /\ response = {} THEN "failed"
    ELSE "partial"

\* effective_at <= available_at <= ingested_at, the fetch time.
AvailableAt(session) == IF provider \in FetchStamping THEN {now} ELSE session..now

\* A response has at most one bar per security and session.
Responses(r, answered) ==
    LET asked == answered \X { e \in Sessions : e <= now }
        offered(p) == [available_at : AvailableAt(p[2]), value : Values]
        Chosen == { f \in [asked -> UNION { offered(p) : p \in asked } \cup {None}] :
                      \A p \in asked : f[p] # None => f[p] \in offered(p) }
    IN  { { [security |-> p[1], effective_at |-> p[2],
             available_at |-> f[p].available_at, value |-> f[p].value, batch |-> r] :
               p \in { q \in asked : f[q] # None } } : f \in Chosen }

\* validate_price_result: the batch agrees with the bars it encloses.
ValidResult(r, batch, response) ==
    /\ batch.row_count = Cardinality(response)
    /\ \A b \in response : b.security \in Items[r] /\ b.batch = r
    /\ batch.status = "failed" => response = {}
    /\ \A b, d \in response : SameVintage(b, d) => b = d

-----------------------------------------------------------------------------
Rollback(c) ==
    /\ jobs' = [jobs EXCEPT ![c] = Idle]
    /\ UNCHANGED <<now, provider, batches, bars>>

(* fetch_daily_bars: some items fail; Yahoo treats an item without rows as *)
(* failed.  The result is validated before anything is stored.             *)
Fetch(c) ==
    /\ jobs[c].phase = "idle"
    /\ \E r \in { q \in Requests : ProviderOf[q] = provider } :
       \E failed \in SUBSET Items[r] :
       \E response \in Responses(r, Items[r] \ failed) :
          LET batch == [status |-> Status(failed, response),
                        row_count |-> Cardinality(response)]
          IN  /\ provider \in FetchStamping =>
                    \A s \in Items[r] \ failed : \E b \in response : b.security = s
              /\ ValidResult(r, batch, response)
              /\ jobs' = [jobs EXCEPT ![c] =
                    [Idle EXCEPT !.phase = "fetched", !.request = r, !.clock = now,
                                 !.batch = batch, !.response = response]]
    /\ UNCHANGED <<now, provider, batches, bars>>

\* d has flushed the batch row of c's request and not yet committed.
BatchPending(c) ==
    \E d \in Clients \ {c} :
       /\ jobs[d].batch # None /\ jobs[d].request = jobs[c].request
       /\ jobs[d].phase \in {"stored", "compared", "flushed"}

\* Defect: a batch another job is still storing counts as existing.
LookUpBatch_Uncommitted(c) ==
    /\ jobs[c].phase = "fetched"
    /\ jobs' = [jobs EXCEPT ![c].phase = "looked up",
                            ![c].batch = IF batches[jobs[c].request] = None
                                            /\ ~ BatchPending(c)
                                         THEN @ ELSE None]
    /\ UNCHANGED <<now, provider, batches, bars>>

\* add_ingestion_batch: an existing row is returned as it is.
LookUpBatch(c) ==
    /\ jobs[c].phase = "fetched"
    /\ jobs' = [jobs EXCEPT ![c].phase = "looked up",
                            ![c].batch = IF batches[jobs[c].request] = None
                                         THEN @ ELSE None]
    /\ UNCHANGED <<now, provider, batches, bars>>

\* The unique batch key refuses a row another job committed meanwhile.
StoreBatch(c) ==
    LET t == jobs[c] IN
    /\ t.phase = "looked up"
    /\ t.batch # None => ~ BatchPending(c)
    /\ IF t.batch # None /\ batches[t.request] # None
       THEN Rollback(c)
       ELSE /\ jobs' = [jobs EXCEPT ![c].phase = "stored"]
            /\ UNCHANGED <<now, provider, batches, bars>>

\* The provider changed the numbers of a vintage that is already stored.
Revised(c) ==
    \E b \in jobs[c].response, d \in bars : SameVintage(b, d) /\ b.value # d.value

\* upsert_price_bars, its lookups: a stored vintage must be identical.
CompareBars(c) ==
    /\ jobs[c].phase = "stored"
    /\ IF Revised(c) THEN Rollback(c)
       ELSE /\ jobs' = [jobs EXCEPT ![c].phase = "compared",
                  ![c].response = { b \in @ : ~ \E d \in bars : SameVintage(b, d) }]
            /\ UNCHANGED <<now, provider, batches, bars>>

BarsPending(c) ==
    \E d \in Clients \ {c} :
       /\ jobs[d].phase = "flushed"
       /\ \E b \in jobs[c].response, e \in jobs[d].response : SameVintage(b, e)

\* uq_price_bar_vintage.
Duplicate(c) == \E b \in jobs[c].response, d \in bars : SameVintage(b, d)

\* upsert_price_bars, its inserts.
StoreBars(c) ==
    /\ jobs[c].phase = "compared"
    /\ ~ BarsPending(c)
    /\ IF Duplicate(c) THEN Rollback(c)
       ELSE /\ jobs' = [jobs EXCEPT ![c].phase = "flushed"]
            /\ UNCHANGED <<now, provider, batches, bars>>

\* Defect: a correction replaces the vintage it corrects.
Commit_Replacing(c) ==
    LET t == jobs[c] IN
    /\ t.phase = "flushed"
    /\ bars' = t.response \cup { b \in bars : ~ \E d \in t.response :
                  b.security = d.security /\ b.effective_at = d.effective_at }
    /\ batches' = IF t.batch # None THEN [batches EXCEPT ![t.request] = t.batch] ELSE batches
    /\ jobs' = [jobs EXCEPT ![c] = Idle]
    /\ UNCHANGED <<now, provider>>

Commit(c) ==
    LET t == jobs[c] IN
    /\ t.phase = "flushed"
    /\ bars' = bars \cup t.response
    /\ batches' = IF t.batch # None THEN [batches EXCEPT ![t.request] = t.batch] ELSE batches
    /\ jobs' = [jobs EXCEPT ![c] = Idle]
    /\ UNCHANGED <<now, provider>>

\* The job is cut short: nothing it flushed survives, a retry starts over.
Abort(c) ==
    /\ jobs[c].phase # "idle"
    /\ Rollback(c)

Tick ==
    /\ now < MaxTime
    /\ now' = now + 1
    /\ UNCHANGED <<provider, batches, bars, jobs>>

Next ==
    \/ \E c \in Clients :
          \/ Fetch(c) \/ LookUpBatch(c) \/ StoreBatch(c)
          \/ CompareBars(c) \/ StoreBars(c) \/ Commit(c) \/ Abort(c)
    \/ Tick

Spec == Init /\ [][Next]_vars

-----------------------------------------------------------------------------
(* Every row and every job in progress has its shape.                      *)
TypeOK ==
    /\ now \in Times /\ provider \in Providers
    /\ batches \in [Requests -> BatchRow \cup {None}]
    /\ bars \subseteq BarRow
    /\ jobs \in [Clients -> Job]

(* A vintage has one set of numbers, whichever of two overlapping requests *)
(* or retries stored it first.                                             *)
VintagesUnique == \A b, d \in bars : SameVintage(b, d) => b = d

(* Every stored bar belongs to a stored batch: a lost race for the batch   *)
(* row takes the bars with it.                                             *)
BarsHaveBatch == \A b \in bars : batches[b.batch] # None

\* Every bar of a job in progress, or to come, becomes available after t.
Settled(t) ==
    /\ t < now
    /\ \A c \in Clients : jobs[c].phase # "idle" => t < jobs[c].clock

(* Where bars become available when fetched, the history read at a cutoff  *)
(* in the past of every fetch in progress never changes again, retries and *)
(* corrections included.                                                   *)
SettledHistoryRepeats ==
    [][\A t \in Times :
          provider \in FetchStamping /\ Settled(t)
             => PriceHistoryAsOf(bars', t) = PriceHistoryAsOf(bars, t)]_vars

(* "a failed price ingestion cannot contain persisted bars": the status of *)
(* a stored batch agrees with the bars stored under it.                    *)
FailedBatchHasNoBars ==
    \A r \in Requests : batches[r] # None /\ batches[r].status = "failed"
       => \A b \in bars : b.batch # r

(* The committed bars are those of the abstract feed.                      *)
Feed == INSTANCE PriceFeed WITH Batches <- Requests

ImplementsFeed == Feed!Spec

=============================================================================
