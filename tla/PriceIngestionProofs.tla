------------------------- MODULE PriceIngestionProofs -------------------------
(***************************************************************************)
(* Proofs about PriceIngestion, for any clients, providers, requests,      *)
(* sessions, numbers and clock bound.  The argument is the inductive       *)
(* invariant IInv: a job holds what one valid response of its request      *)
(* said, knows that its batch exists or brings it (JobsSound), and no two  *)
(* jobs have flushed one vintage (FlushedApart).                           *)
(***************************************************************************)
EXTENDS PriceIngestion, FiniteSetTheorems, TLAPS

\* Past the look-up a job without a batch of its own relies on a stored one.
Looked == {"looked up", "stored", "compared", "flushed"}

BatchKnown(t) ==
    /\ t.phase = "fetched" => t.batch # None
    /\ t.phase \in Looked /\ t.batch = None => batches[t.request] # None

ResponseValid(t) ==
    /\ t.phase # "idle" => t.request \in Requests /\ t.clock <= now
    /\ \A b \in t.response : b.batch = t.request
    /\ provider \in FetchStamping => \A b \in t.response : b.available_at = t.clock
    /\ \A b, d \in t.response : SameVintage(b, d) => b = d

Apart(R, S) == \A b \in R, d \in S : ~ SameVintage(b, d)

FlushedIsNew(t) == t.phase = "flushed" => Apart(t.response, bars)

Sound(t) == BatchKnown(t) /\ ResponseValid(t) /\ FlushedIsNew(t)

JobsSound == \A c \in Clients : Sound(jobs[c])

FlushedApart == \A c, d \in Clients :
    c # d /\ jobs[c].phase = "flushed" /\ jobs[d].phase = "flushed"
       => Apart(jobs[c].response, jobs[d].response)

IInv == TypeOK /\ JobsSound /\ FlushedApart /\ VintagesUnique /\ BarsHaveBatch

-----------------------------------------------------------------------------
(* Whatever is asked, a response is a finite set of bars of the securities *)
(* asked for, stamped no later than now.                                   *)
LEMMA ResponsesAreBars ==
  ASSUME now \in Times, NEW r \in Requests, NEW answered \in SUBSET Items[r],
         NEW response \in Responses(r, answered)
  PROVE  /\ response \subseteq BarRow
         /\ IsFiniteSet(response)
         /\ \A b \in response : b.available_at \in AvailableAt(b.effective_at)
<1> DEFINE asked == answered \X { e \in Sessions : e <= now }
           offered(p) == [available_at : AvailableAt(p[2]), value : Values]
           Told(f) == { q \in asked : f[q] # None }
           bar(f, p) == [security |-> p[1], effective_at |-> p[2],
                         available_at |-> f[p].available_at, value |-> f[p].value,
                         batch |-> r]
<1>1. PICK f \in [asked -> UNION { offered(p) : p \in asked } \cup {None}] :
         /\ \A p \in asked : f[p] # None => f[p] \in offered(p)
         /\ response = { bar(f, p) : p \in Told(f) }
  BY Zenon DEF Responses
<1>2. ASSUME NEW e \in Sessions, e <= now PROVE AvailableAt(e) \subseteq Times
  BY <1>2, IngestionAssumption DEF AvailableAt, Times
<1>3. ASSUME NEW p \in Told(f)
      PROVE  bar(f, p) \in BarRow /\ bar(f, p).available_at \in AvailableAt(p[2])
  <2>1. p[1] \in Items[r] /\ p[2] \in Sessions /\ p[2] <= now
    OBVIOUS
  <2>2. f[p].available_at \in AvailableAt(p[2]) /\ f[p].value \in Values
    BY <1>1
  <2>3. p[1] \in Securities
    BY <2>1 DEF Securities
  <2>4. f[p].available_at \in Times
    BY <2>1, <2>2, <1>2
  <2>5. QED
    BY <2>1, <2>2, <2>3, <2>4 DEF BarRow
<1>4. IsFiniteSet(Told(f))
  <2>1. IsFiniteSet(Items[r]) /\ IsFiniteSet(0..MaxTime)
    BY IngestionAssumption, FS_Interval
  <2>2. IsFiniteSet(answered) /\ IsFiniteSet({ e \in Sessions : e <= now })
    BY <2>1, FS_Subset, IngestionAssumption DEF Times
  <2>3. IsFiniteSet(asked)
    BY <2>2, FS_Product
  <2>4. QED
    BY <2>3, FS_Subset
<1>5. IsFiniteSet({ bar(f, p) : p \in Told(f) })
  <2> DEFINE T == { bar(f, p) : p \in Told(f) }
             g == [p \in Told(f) |-> bar(f, p)]
  <2>1. g \in [Told(f) -> T] /\ \A t \in T : \E p \in Told(f) : g[p] = t
    OBVIOUS
  <2>2. g \in Surjection(Told(f), T)
    BY <2>1 DEF Surjection
  <2>3. QED
    BY <1>4, <2>2, FS_Surjection
<1>6. QED
  BY <1>1, <1>3, <1>5

(* A fetched job holds a valid response and the batch that encloses it.    *)
LEMMA FetchedJob ==
  ASSUME TypeOK, NEW c \in Clients, Fetch(c)
  PROVE  \E t \in Job : /\ jobs' = [jobs EXCEPT ![c] = t]
                        /\ t.phase = "fetched"
                        /\ BatchKnown(t) /\ ResponseValid(t)
<1>1. PICK r \in { q \in Requests : ProviderOf[q] = provider } :
       \E failed \in SUBSET Items[r] :
       \E response \in Responses(r, Items[r] \ failed) :
          LET batch == [status |-> Status(failed, response),
                        row_count |-> Cardinality(response)]
          IN  /\ ValidResult(r, batch, response)
              /\ jobs' = [jobs EXCEPT ![c] =
                    [Idle EXCEPT !.phase = "fetched", !.request = r, !.clock = now,
                                 !.batch = batch, !.response = response]]
  BY Zenon DEF Fetch
<1>2. PICK failed \in SUBSET Items[r] :
       \E response \in Responses(r, Items[r] \ failed) :
          LET batch == [status |-> Status(failed, response),
                        row_count |-> Cardinality(response)]
          IN  /\ ValidResult(r, batch, response)
              /\ jobs' = [jobs EXCEPT ![c] =
                    [Idle EXCEPT !.phase = "fetched", !.request = r, !.clock = now,
                                 !.batch = batch, !.response = response]]
  BY <1>1, Zenon
<1>3. PICK response \in Responses(r, Items[r] \ failed) :
         LET batch == [status |-> Status(failed, response),
                       row_count |-> Cardinality(response)]
         IN  /\ ValidResult(r, batch, response)
             /\ jobs' = [jobs EXCEPT ![c] =
                   [Idle EXCEPT !.phase = "fetched", !.request = r, !.clock = now,
                                !.batch = batch, !.response = response]]
  BY <1>2, Zenon
<1> DEFINE batch == [status |-> Status(failed, response),
                     row_count |-> Cardinality(response)]
           t == [Idle EXCEPT !.phase = "fetched", !.request = r, !.clock = now,
                             !.batch = batch, !.response = response]
<1>4. /\ response \subseteq BarRow /\ IsFiniteSet(response)
      /\ \A b \in response : b.available_at \in AvailableAt(b.effective_at)
  BY ResponsesAreBars DEF TypeOK
<1>5. batch \in BatchRow
  BY <1>4, FS_CardinalityType DEF Status, BatchRow, Statuses
<1> HIDE DEF batch
<1>6. /\ t.phase = "fetched" /\ t.request = r /\ t.clock = now
      /\ t.batch = batch /\ t.response = response
  BY DEF Idle
<1>7. t \in Job
  BY <1>4, <1>5 DEF Idle, Job, Phases, TypeOK
<1>8. jobs' = [jobs EXCEPT ![c] = t]
  BY <1>3, Zenon DEF batch
<1> HIDE DEF t
<1>9. BatchKnown(t)
  BY <1>5, <1>6, NoneAssumption DEF BatchKnown, Looked
<1>10. ResponseValid(t)
  <2>1. /\ \A b \in response : b.batch = r
        /\ \A b, d \in response : SameVintage(b, d) => b = d
    BY <1>3 DEF ValidResult
  <2>2. provider \in FetchStamping => \A b \in response : b.available_at = now
    BY <1>4 DEF AvailableAt
  <2>3. now <= now
    BY IngestionAssumption DEF TypeOK, Times
  <2>4. QED
    BY <1>6, <2>1, <2>2, <2>3 DEF ResponseValid
<1>11. QED
  BY <1>6, <1>7, <1>8, <1>9, <1>10

(* Every other step of a job ends it, or moves it on with some of its      *)
(* response; only a commit publishes.                                      *)
Moves(c, from, t) ==
    /\ jobs[c].phase = from
    /\ jobs' = [jobs EXCEPT ![c] = t]
    /\ t.request = jobs[c].request /\ t.clock = jobs[c].clock
    /\ t.response \subseteq jobs[c].response
    /\ UNCHANGED <<now, provider, batches, bars>>

LEMMA StepKinds ==
  ASSUME TypeOK, NEW c \in Clients, ~ Rollback(c),
         \/ LookUpBatch(c) \/ StoreBatch(c) \/ CompareBars(c) \/ StoreBars(c)
         \/ Abort(c)
  PROVE  \E t \in Job :
           \/ /\ Moves(c, "fetched", t) /\ t.phase = "looked up"
              /\ batches[t.request] = None => t.batch = jobs[c].batch
           \/ /\ Moves(c, "looked up", t) /\ t.phase = "stored"
              /\ t.batch = jobs[c].batch
           \/ /\ Moves(c, "stored", t) /\ t.phase = "compared"
              /\ t.batch = jobs[c].batch
           \/ /\ Moves(c, "compared", t) /\ t.phase = "flushed"
              /\ t.batch = jobs[c].batch
              /\ t.response = jobs[c].response
              /\ ~ BarsPending(c) /\ ~ Duplicate(c)
<1> DEFINE j == jobs[c]
<1>0. /\ j \in Job
      /\ j = [phase |-> j.phase, request |-> j.request, clock |-> j.clock,
              batch |-> j.batch, response |-> j.response]
  BY DEF TypeOK, Job
<1>1. CASE LookUpBatch(c)
  <2> DEFINE t == [j EXCEPT !.phase = "looked up",
                            !.batch = IF batches[j.request] = None THEN j.batch
                                      ELSE None]
  <2>1. t \in Job
    BY <1>0 DEF Job, Phases
  <2>2. Moves(c, "fetched", t) /\ t.phase = "looked up"
    BY <1>0, <1>1 DEF LookUpBatch, Moves, Job, TypeOK
  <2>3. batches[t.request] = None => t.batch = j.batch
    BY <1>0 DEF Job
  <2>4. QED
    BY <2>1, <2>2, <2>3
<1>2. CASE StoreBatch(c)
  <2> DEFINE t == [j EXCEPT !.phase = "stored"]
  <2>1. t \in Job
    BY <1>0 DEF Job, Phases
  <2>2. Moves(c, "looked up", t) /\ t.phase = "stored" /\ t.batch = j.batch
    BY <1>0, <1>2 DEF StoreBatch, Moves, Job, TypeOK
  <2>3. QED
    BY <2>1, <2>2
<1>3. CASE CompareBars(c)
  <2> DEFINE t == [j EXCEPT !.phase = "compared",
                            !.response = { b \in j.response :
                                ~ \E d \in bars : SameVintage(b, d) }]
  <2>1. t \in Job
    BY <1>0 DEF Job, Phases
  <2>2. Moves(c, "stored", t) /\ t.phase = "compared" /\ t.batch = j.batch
    BY <1>0, <1>3 DEF CompareBars, Moves, Job, TypeOK
  <2>3. QED
    BY <2>1, <2>2
<1>4. CASE StoreBars(c)
  <2> DEFINE t == [j EXCEPT !.phase = "flushed"]
  <2>1. t \in Job
    BY <1>0 DEF Job, Phases
  <2>2. /\ Moves(c, "compared", t) /\ t.phase = "flushed" /\ t.batch = j.batch
        /\ t.response = j.response /\ ~ BarsPending(c) /\ ~ Duplicate(c)
    BY <1>0, <1>4 DEF StoreBars, Moves, Job, TypeOK
  <2>3. QED
    BY <2>1, <2>2
<1>5. CASE Abort(c)
  BY <1>5 DEF Abort
<1>6. QED
  BY <1>1, <1>2, <1>3, <1>4, <1>5

(* The steps of the system, sorted by what they change.                    *)
LEMMA Steps ==
  ASSUME TypeOK, [Next]_vars
  PROVE  \/ \E c \in Clients : Rollback(c)
         \/ \E c \in Clients : Fetch(c)
         \/ \E c \in Clients : ~ Rollback(c) /\ (\/ LookUpBatch(c) \/ StoreBatch(c)
                                             \/ CompareBars(c) \/ StoreBars(c))
         \/ \E c \in Clients : Commit(c)
         \/ now <= now' /\ now' \in Times /\ UNCHANGED <<provider, batches, bars, jobs>>
<1>1. CASE Next
  <2>1. CASE Tick
    BY <2>1, IngestionAssumption DEF Tick, TypeOK, Times
  <2>2. CASE \E c \in Clients :
               \/ Fetch(c) \/ LookUpBatch(c) \/ StoreBatch(c)
               \/ CompareBars(c) \/ StoreBars(c) \/ Commit(c) \/ Abort(c)
    BY <2>2 DEF Abort
  <2>3. QED
    BY <1>1, <2>1, <2>2 DEF Next
<1>2. CASE UNCHANGED vars
  BY <1>2, IngestionAssumption DEF vars, TypeOK, Times
<1>3. QED
  BY <1>1, <1>2

(* Every operation leaves each row and each job well formed.               *)
LEMMA TypePreserved == TypeOK /\ [Next]_vars => TypeOK'
<1> SUFFICES ASSUME TypeOK, [Next]_vars PROVE TypeOK'
  OBVIOUS
<1>0. Idle \in Job
  BY IngestionAssumption DEF Idle, Job, Phases, Times
<1>a. ASSUME NEW c \in Clients, NEW t \in Job, jobs' = [jobs EXCEPT ![c] = t],
             UNCHANGED <<now, provider, batches, bars>>
      PROVE  TypeOK'
  BY <1>a DEF TypeOK
<1>1. CASE \E c \in Clients : Rollback(c)
  BY <1>0, <1>1, <1>a DEF Rollback
<1>2. CASE \E c \in Clients : Fetch(c)
  BY <1>2, <1>a, FetchedJob DEF Fetch
<1>3. ASSUME NEW c \in Clients, ~ Rollback(c),
             \/ LookUpBatch(c) \/ StoreBatch(c) \/ CompareBars(c) \/ StoreBars(c)
      PROVE  TypeOK'
  BY <1>3, <1>a, StepKinds DEF Moves
<1>4. ASSUME NEW c \in Clients, Commit(c) PROVE TypeOK'
  <2>1. jobs[c] \in Job
    BY DEF TypeOK
  <2>2. jobs' \in [Clients -> Job]
    BY <1>0, <1>4 DEF Commit, TypeOK
  <2>3. bars' \subseteq BarRow
    BY <1>4, <2>1 DEF Commit, TypeOK, Job
  <2>4. batches' \in [Requests -> BatchRow \cup {None}]
    BY <1>4, <2>1 DEF Commit, TypeOK, Job
  <2>5. QED
    BY <1>4, <2>2, <2>3, <2>4 DEF Commit, TypeOK
<1>5. CASE now <= now' /\ now' \in Times /\ UNCHANGED <<provider, batches, bars, jobs>>
  BY <1>5 DEF TypeOK
<1>6. QED
  BY <1>1, <1>2, <1>3, <1>4, <1>5, Steps

-----------------------------------------------------------------------------
(* A commit adds the bars of one request, all new vintages, stores its     *)
(* batch, and takes nothing away.                                          *)
LEMMA CommitPublishes ==
  ASSUME IInv, NEW c \in Clients, Commit(c)
  PROVE  /\ bars' = bars \cup jobs[c].response
         /\ jobs[c].response \subseteq BarRow
         /\ \A b \in jobs[c].response : b.batch = jobs[c].request
         /\ \A b, d \in jobs[c].response : SameVintage(b, d) => b = d
         /\ Apart(jobs[c].response, bars)
         /\ jobs[c].request \in Requests
         /\ batches'[jobs[c].request] # None
         /\ \A r \in Requests : batches[r] # None => batches'[r] # None
<1> DEFINE t == jobs[c]
<1>1. /\ t.phase = "flushed" /\ t \in Job
      /\ BatchKnown(t) /\ ResponseValid(t) /\ FlushedIsNew(t)
  BY DEF Commit, IInv, TypeOK, JobsSound, Sound
<1>2. t.request \in Requests
  BY <1>1 DEF ResponseValid
<1>3. /\ batches'[t.request] # None
      /\ \A r \in Requests : batches[r] # None => batches'[r] # None
  <2>1. CASE t.batch # None
    BY <1>2, <2>1 DEF Commit, IInv, TypeOK
  <2>2. CASE t.batch = None
    BY <1>1, <2>2 DEF Commit, BatchKnown, Looked
  <2>3. QED
    BY <2>1, <2>2
<1>4. QED
  BY <1>1, <1>2, <1>3 DEF Commit, ResponseValid, FlushedIsNew, Job

(* A client without a job has nothing to be unsound.                       *)
LEMMA IdleSound == Sound(Idle)
BY DEF Sound, BatchKnown, ResponseValid, FlushedIsNew, Apart, Idle, Looked

(* A job stays sound while nothing is committed, and so does its follower. *)
LEMMA JobsSoundPreserved == IInv /\ [Next]_vars => JobsSound'
<1> SUFFICES ASSUME IInv, [Next]_vars PROVE JobsSound'
  OBVIOUS
<1> USE DEF IInv
<1>0. \A c \in Clients : jobs[c] \in Job /\ Sound(jobs[c])
  BY DEF TypeOK, JobsSound
<1>a. ASSUME NEW c \in Clients, NEW t, Sound(t), jobs' = [jobs EXCEPT ![c] = t],
             UNCHANGED <<now, provider, batches, bars>>
      PROVE  JobsSound'
  <2>1. ASSUME NEW d \in Clients PROVE Sound(jobs'[d])
    BY <1>0, <1>a DEF TypeOK
  <2>2. QED
    BY <1>a, <2>1 DEF JobsSound, Sound, BatchKnown, ResponseValid, FlushedIsNew
<1>1. CASE \E c \in Clients : Rollback(c)
  BY <1>1, <1>a, IdleSound DEF Rollback
<1>2. CASE \E c \in Clients : Fetch(c)
  <2>1. PICK c \in Clients : Fetch(c)
    BY <1>2
  <2>2. PICK t \in Job : /\ jobs' = [jobs EXCEPT ![c] = t] /\ t.phase = "fetched"
                         /\ BatchKnown(t) /\ ResponseValid(t)
    BY <2>1, FetchedJob
  <2>3. Sound(t)
    BY <2>2 DEF Sound, FlushedIsNew
  <2>4. QED
    BY <2>1, <2>2, <2>3, <1>a DEF Fetch
<1>3. ASSUME NEW c \in Clients, ~ Rollback(c),
             \/ LookUpBatch(c) \/ StoreBatch(c) \/ CompareBars(c) \/ StoreBars(c)
      PROVE  JobsSound'
  <2>1. PICK t \in Job :
           \/ /\ Moves(c, "fetched", t) /\ t.phase = "looked up"
              /\ batches[t.request] = None => t.batch = jobs[c].batch
           \/ /\ Moves(c, "looked up", t) /\ t.phase = "stored"
              /\ t.batch = jobs[c].batch
           \/ /\ Moves(c, "stored", t) /\ t.phase = "compared"
              /\ t.batch = jobs[c].batch
           \/ /\ Moves(c, "compared", t) /\ t.phase = "flushed"
              /\ t.batch = jobs[c].batch
              /\ t.response = jobs[c].response
              /\ ~ BarsPending(c) /\ ~ Duplicate(c)
    BY <1>3, StepKinds
  <2>2. BatchKnown(t)
    BY <1>0, <2>1 DEF Sound, BatchKnown, Moves, Looked
  <2>3. ResponseValid(t)
    BY <1>0, <2>1 DEF Sound, ResponseValid, Moves
  <2>4. FlushedIsNew(t)
    BY <2>1 DEF FlushedIsNew, Apart, Duplicate
  <2>5. QED
    BY <2>1, <2>2, <2>3, <2>4, <1>a DEF Moves, Sound
<1>4. ASSUME NEW c \in Clients, Commit(c) PROVE JobsSound'
  <2>1. ASSUME NEW d \in Clients, d # c PROVE Sound(jobs[d])'
    <3>1. /\ jobs'[d] = jobs[d] /\ now' = now /\ provider' = provider
      BY <1>4, <2>1 DEF Commit, TypeOK
    <3>2. BatchKnown(jobs[d])'
      BY <1>0, <1>4, <3>1, CommitPublishes
         DEF Sound, BatchKnown, ResponseValid, Looked
    <3>3. ResponseValid(jobs[d])'
      BY <1>0, <3>1 DEF Sound, ResponseValid
    <3>4. FlushedIsNew(jobs[d])'
      <4> SUFFICES ASSUME jobs[d].phase = "flushed"
                   PROVE  Apart(jobs[d].response, bars \cup jobs[c].response)
        BY <1>4, <3>1 DEF FlushedIsNew, Commit
      <4>1. Apart(jobs[d].response, bars)
        BY <1>0 DEF Sound, FlushedIsNew
      <4>2. Apart(jobs[d].response, jobs[c].response)
        BY <1>4, <2>1 DEF FlushedApart, Commit
      <4>3. QED
        BY <4>1, <4>2 DEF Apart
    <3>5. QED
      BY <3>2, <3>3, <3>4 DEF Sound
  <2>2. Sound(jobs[c])'
    <3>1. jobs'[c] = Idle
      BY <1>4 DEF Commit, TypeOK
    <3>2. QED
      BY <3>1 DEF Sound, BatchKnown, ResponseValid, FlushedIsNew, Apart, Idle, Looked
  <2>3. QED
    BY <2>1, <2>2 DEF JobsSound
<1>5. CASE now <= now' /\ now' \in Times /\ UNCHANGED <<provider, batches, bars, jobs>>
  <2>1. ASSUME NEW c \in Clients PROVE Sound(jobs[c])'
    <3>1. /\ now \in Int /\ now' \in Int /\ jobs[c].clock \in Int
      BY <1>0, <1>5, IngestionAssumption DEF TypeOK, Job, Times
    <3>2. QED
      BY <1>0, <1>5, <3>1 DEF Sound, BatchKnown, ResponseValid, FlushedIsNew
  <2>2. QED
    BY <2>1 DEF JobsSound
<1>6. QED
  BY <1>1, <1>2, <1>3, <1>4, <1>5, Steps

(* The unique constraint keeps the flushed responses of two jobs apart.    *)
LEMMA FlushedApartPreserved == IInv /\ [Next]_vars => FlushedApart'
<1> SUFFICES ASSUME IInv, [Next]_vars PROVE FlushedApart'
  OBVIOUS
<1> USE DEF IInv
<1>a. ASSUME NEW c \in Clients, NEW t, jobs' = [jobs EXCEPT ![c] = t],
             t.phase = "flushed" => \A d \in Clients \ {c} :
                jobs[d].phase = "flushed" => Apart(t.response, jobs[d].response)
      PROVE  FlushedApart'
  <2>1. \A d \in Clients : jobs'[d] = IF d = c THEN t ELSE jobs[d]
    BY <1>a DEF TypeOK
  <2>2. QED
    BY <1>a, <2>1 DEF FlushedApart, Apart, SameVintage
<1>1. CASE \E c \in Clients : Rollback(c)
  BY <1>1, <1>a DEF Rollback, Idle
<1>2. CASE \E c \in Clients : Fetch(c)
  BY <1>2, <1>a, FetchedJob
<1>3. ASSUME NEW c \in Clients, ~ Rollback(c),
             \/ LookUpBatch(c) \/ StoreBatch(c) \/ CompareBars(c) \/ StoreBars(c)
      PROVE  FlushedApart'
  BY <1>3, <1>a, StepKinds DEF Moves, BarsPending, Apart
<1>4. ASSUME NEW c \in Clients, Commit(c) PROVE FlushedApart'
  BY <1>4, <1>a DEF Commit, Idle
<1>5. CASE UNCHANGED jobs
  BY <1>5 DEF FlushedApart
<1>6. QED
  BY <1>1, <1>2, <1>3, <1>4, <1>5, Steps

(* What is stored stays unambiguous and stays under a stored batch.        *)
LEMMA BarsPreserved == IInv /\ [Next]_vars => VintagesUnique' /\ BarsHaveBatch'
<1> SUFFICES ASSUME IInv, [Next]_vars PROVE VintagesUnique' /\ BarsHaveBatch'
  OBVIOUS
<1>1. CASE UNCHANGED <<batches, bars>>
  BY <1>1 DEF IInv, VintagesUnique, BarsHaveBatch
<1>2. ASSUME NEW c \in Clients, Commit(c) PROVE VintagesUnique' /\ BarsHaveBatch'
  <2>1. VintagesUnique'
    BY <1>2, CommitPublishes DEF IInv, VintagesUnique, Apart, SameVintage
  <2>2. \A b \in bars : b.batch \in Requests
    BY DEF IInv, TypeOK, BarRow
  <2>3. BarsHaveBatch'
    BY <1>2, <2>2, CommitPublishes DEF IInv, BarsHaveBatch
  <2>4. QED
    BY <2>1, <2>3
<1>3. QED
  BY <1>1, <1>2, Steps, StepKinds DEF IInv, Rollback, Fetch, Moves

-----------------------------------------------------------------------------
(* The conjunction of shapes, sound jobs and unique vintages is inductive, *)
(* for any clients, providers, requests and clock bound.                   *)
THEOREM InvariantHolds == Spec => []IInv
<1>1. Init => IInv
  <2> SUFFICES ASSUME Init PROVE IInv
    OBVIOUS
  <2>1. TypeOK
    BY IngestionAssumption DEF Init, TypeOK, Idle, Job, Phases, Times
  <2>2. \A c \in Clients : jobs[c] = Idle
    BY DEF Init
  <2>3. JobsSound /\ FlushedApart
    <3>1. Sound(Idle)
      BY IdleSound
    <3>2. Idle.phase # "flushed"
      BY DEF Idle
    <3>3. QED
      BY <2>2, <3>1, <3>2 DEF JobsSound, FlushedApart
  <2>4. VintagesUnique /\ BarsHaveBatch
    BY DEF Init, VintagesUnique, BarsHaveBatch
  <2>5. QED
    BY <2>1, <2>3, <2>4 DEF IInv
<1>2. IInv /\ [Next]_vars => IInv'
  BY TypePreserved, JobsSoundPreserved, FlushedApartPreserved, BarsPreserved DEF IInv
<1>3. QED
  BY <1>1, <1>2, PTL DEF Spec

(* Every row and every job keeps its shape.                                *)
THEOREM TypeCorrect == Spec => []TypeOK
<1>1. IInv => TypeOK
  BY DEF IInv
<1>2. QED
  BY <1>1, InvariantHolds, PTL

(* A vintage has one set of numbers, whichever job stored it first.        *)
THEOREM VintagesAreUnique == Spec => []VintagesUnique
<1>1. IInv => VintagesUnique
  BY DEF IInv
<1>2. QED
  BY <1>1, InvariantHolds, PTL

(* No stored bar is without its batch, whoever won the race for the row.   *)
THEOREM EveryBarHasBatch == Spec => []BarsHaveBatch
<1>1. IInv => BarsHaveBatch
  BY DEF IInv
<1>2. QED
  BY <1>1, InvariantHolds, PTL

(* With bars stamped when fetched, the history at a cutoff in the past of  *)
(* every fetch in progress never changes again.                            *)
THEOREM HistoryRepeats == Spec => SettledHistoryRepeats
<1> DEFINE Repeats == \A t \in Times :
             provider \in FetchStamping /\ Settled(t)
                => PriceHistoryAsOf(bars', t) = PriceHistoryAsOf(bars, t)
<1>1. IInv /\ [Next]_vars => [Repeats]_vars
  <2> SUFFICES ASSUME IInv, [Next]_vars, NEW t \in Times,
                      provider \in FetchStamping, Settled(t)
               PROVE  PriceHistoryAsOf(bars', t) = PriceHistoryAsOf(bars, t)
    OBVIOUS
  <2>1. CASE bars' = bars
    BY <2>1
  <2>2. ASSUME NEW c \in Clients, Commit(c)
        PROVE  PriceHistoryAsOf(bars', t) = PriceHistoryAsOf(bars, t)
    <3>1. /\ jobs[c] \in Job /\ ResponseValid(jobs[c]) /\ jobs[c].phase = "flushed"
      BY <2>2 DEF Commit, IInv, TypeOK, JobsSound, Sound
    <3>2. t < jobs[c].clock /\ t \in Int /\ jobs[c].clock \in Int
      BY <3>1, IngestionAssumption DEF Settled, Job, Times
    <3>3. \A b \in jobs[c].response : ~ (b.available_at <= t)
      BY <3>1, <3>2 DEF ResponseValid
    <3>4. Knowable(bars', t) = Knowable(bars, t)
      BY <2>2, <3>3 DEF Commit, Knowable
    <3>5. QED
      BY <3>4 DEF PriceHistoryAsOf
  <2>3. QED
    BY <2>1, <2>2, Steps, StepKinds DEF IInv, Rollback, Fetch, Moves
<1>2. QED
  BY <1>1, InvariantHolds, PTL DEF Spec, SettledHistoryRepeats

(* The committed bars are those of the abstract feed: a commit publishes   *)
(* one whole response of new vintages, every other step is invisible.      *)
THEOREM IngestionImplementsFeed == Spec => ImplementsFeed
<1>1. Init => Feed!Init
  BY DEF Init, Feed!Init
<1>2. IInv /\ [Next]_vars => [Feed!Next]_bars
  <2> SUFFICES ASSUME IInv, [Next]_vars, bars' # bars PROVE Feed!Next
    OBVIOUS
  <2>1. PICK c \in Clients : Commit(c)
    BY Steps, StepKinds DEF IInv, Rollback, Fetch, Moves
  <2> DEFINE R == jobs[c].response
  <2>2. /\ bars' = bars \cup R /\ R \subseteq BarRow /\ Apart(R, bars)
        /\ \A b \in R : b.batch = jobs[c].request
        /\ \A b, d \in R : SameVintage(b, d) => b = d
        /\ jobs[c].request \in Requests
    BY <2>1, CommitPublishes
  <2>3. bars' \ bars = R
    BY <2>2 DEF Apart, SameVintage
  <2>4. Feed!Publish(jobs[c].request, R)
    BY <2>2 DEF Feed!Publish, Feed!SameVintage, SameVintage, Apart
  <2>5. QED
    BY <2>2, <2>3, <2>4 DEF Feed!Next
<1>3. QED
  BY <1>1, <1>2, InvariantHolds, PTL DEF Spec, ImplementsFeed, Feed!Spec

=============================================================================
