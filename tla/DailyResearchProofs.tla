-------------------------- MODULE DailyResearchProofs --------------------------
(***************************************************************************)
(* Proofs about DailyResearch, for any clients, securities, benchmarks,    *)
(* theses, batches, sessions, cutoffs and bounds, on both databases where  *)
(* nothing else is said.  The argument is the inductive invariant IInv:    *)
(* what a job has stored agrees with the tables (Agrees) and with what     *)
(* every other job has stored (Apart), so a commit adds nothing that       *)
(* contradicts a row.                                                      *)
(***************************************************************************)
EXTENDS DailyResearch, TLAPS

Early == {"covered", "priced", "keyed"}
Assessed == {"assessed"} \cup RunStored

\* A job is a record with these fields.
IsJob(j) ==
    j = [phase |-> j.phase, cutoff |-> j.cutoff, members |-> j.members,
         history |-> j.history, existing |-> j.existing, run |-> j.run,
         cards |-> j.cards, writing |-> j.writing]

JobShape(j) ==
    /\ IsJob(j) /\ j.phase \in Phases
    /\ j.members \subseteq Securities /\ j.history \subseteq BarRow
    /\ j.phase # "idle" => j.cutoff \in Cutoffs
    /\ j.phase \in Early => j.members # {}
    /\ j.phase \in Assessed \cup {"keyed"} => j.run \in RunRow
    /\ j.phase \in {"idle", "covered", "priced"} => ~ j.existing

Shape ==
    /\ now \in Times /\ bars \subseteq BarRow /\ runs \subseteq RunRow
    /\ jobs = [c \in Clients |-> jobs[c]]
    /\ \A c \in Clients : JobShape(jobs[c])

\* The latest session of a card is that of its own bars among its inputs.
IsCard(x) ==
    /\ x = [key |-> x.key, security |-> x.security, effective_at |-> x.effective_at,
            inputs |-> x.inputs, version |-> x.version, created_at |-> x.created_at]
    /\ x.effective_at = LatestSession({ b \in x.inputs : b.security = x.security })

SameSubject(x, y) == x.key = y.key /\ x.security = y.security

\* The run and the cards of a job are one computation.
Computed(j) ==
    j.phase \in Assessed =>
       /\ \A x \in j.cards : /\ IsCard(x)
                             /\ x.key = j.run.key /\ x.created_at = j.run.started_at
                             /\ x.security \notin j.run.failed
       /\ \A x, y \in j.cards : x.security = y.security => x = y
       /\ j.run.status = "failed" <=> j.cards = {}
       /\ j.run.status = "succeeded" <=> j.run.failed = {}

\* What the job has compared with the tables still is no contradiction.
Agrees(j) ==
    /\ j.existing => \E r \in runs : r.key = j.run.key /\ r.started_at = j.run.started_at
    /\ j.phase \in RunStored => \A r \in runs : r.key = j.run.key => r = j.run
    /\ j.phase \in FeaturesStored =>
          \A x \in j.cards, g \in features : SameSubject(g, x) => g = FeatureOf(x)
    /\ j.phase \in CardsStored =>
          \A x \in j.cards, y \in cards : SameSubject(x, y) => x = y

Sound(j) == Computed(j) /\ Agrees(j)

\* What two jobs have stored is no contradiction either.
Apart(j, i) ==
    /\ j.phase \in RunStored /\ i.phase \in RunStored =>
          (j.run.key = i.run.key => j.run = i.run)
    /\ j.phase \in FeaturesStored /\ i.phase \in FeaturesStored =>
          \A x \in j.cards, y \in i.cards : SameSubject(x, y) => FeatureOf(x) = FeatureOf(y)
    /\ j.phase \in CardsStored /\ i.phase \in CardsStored =>
          \A x \in j.cards, y \in i.cards : SameSubject(x, y) => x = y

JobsSound == \A c \in Clients : Sound(jobs[c])
JobsApart == \A c, d \in Clients : c # d => Apart(jobs[c], jobs[d])

\* The tables: rows are unique under their keys and cards fit their run.
Tables ==
    /\ \A r, s \in runs : r.key = s.key => r = s
    /\ \A f, g \in features : SameSubject(f, g) => f = g
    /\ \A x, y \in cards : SameSubject(x, y) => x = y
    /\ \A x \in cards : IsCard(x) /\ FeatureOf(x) \in features
    /\ \A x \in cards : \E r \in runs : r.key = x.key
    /\ \A r \in runs : \A x \in cards : x.key = r.key =>
          x.created_at = r.started_at /\ x.security \notin r.failed
    /\ \A r \in runs : r.status = "failed" <=> \A x \in cards : x.key # r.key
    /\ \A r \in runs : r.status = "succeeded" <=> r.failed = {}

IInv == Shape /\ JobsSound /\ JobsApart /\ Tables

-----------------------------------------------------------------------------
(* The steps of job c leave the records of all others alone.               *)
Only(c) ==
    /\ jobs' = [d \in Clients |-> jobs'[d]]
    /\ \A d \in Clients \ {c} : jobs'[d] = jobs[d]
    /\ IsJob(jobs'[c])

SameWork(c) ==
    /\ jobs'[c].cutoff = jobs[c].cutoff /\ jobs'[c].members = jobs[c].members
    /\ jobs'[c].history = jobs[c].history /\ jobs'[c].existing = jobs[c].existing
    /\ jobs'[c].run = jobs[c].run /\ jobs'[c].cards = jobs[c].cards

(* A job that stores keeps what it computed and moves on, or is refused.   *)
LEMMA Moved ==
  ASSUME Shape, NEW c \in Clients, NEW phase, NEW writing,
         jobs' = [jobs EXCEPT ![c].phase = phase, ![c].writing = writing]
  PROVE  Only(c) /\ SameWork(c) /\ jobs'[c].phase = phase
<1>1. IsJob(jobs[c]) /\ jobs = [d \in Clients |-> jobs[d]]
  BY DEF Shape, JobShape
<1> DEFINE j == jobs[c]
           i == [j EXCEPT !.phase = phase]
           t == [i EXCEPT !.writing = writing]
<1>2. jobs' = [jobs EXCEPT ![c] = t]
  BY <1>1
<1>3. IsJob(i) /\ i.phase = phase /\ i.cutoff = j.cutoff /\ i.members = j.members
      /\ i.history = j.history /\ i.existing = j.existing /\ i.run = j.run
      /\ i.cards = j.cards
  BY <1>1 DEF IsJob
<1> HIDE DEF i
<1>4. IsJob(t) /\ t.phase = i.phase /\ t.cutoff = i.cutoff /\ t.members = i.members
      /\ t.history = i.history /\ t.existing = i.existing /\ t.run = i.run
      /\ t.cards = i.cards
  BY <1>3 DEF IsJob
<1> HIDE DEF t
<1>5. jobs'[c] = t /\ \A d \in Clients \ {c} : jobs'[d] = jobs[d]
  BY <1>1, <1>2
<1>6. jobs' = [d \in Clients |-> jobs'[d]]
  BY <1>1, <1>2
<1>7. QED
  BY <1>3, <1>4, <1>5, <1>6 DEF Only, SameWork

LEMMA Refused ==
  ASSUME Shape, NEW c \in Clients, Refuse(c)
  PROVE  Only(c) /\ SameWork(c) /\ jobs'[c].phase = "refused" /\ UNCHANGED <<now, bars, outputs>>
BY Moved DEF Refuse, inputs

LEMMA Stored ==
  ASSUME Shape, NEW c \in Clients, NEW phase, NEW fresh, Store(c, phase, fresh)
  PROVE  Only(c) /\ SameWork(c) /\ jobs'[c].phase = phase
<1> DEFINE writing == jobs[c].writing \/ fresh
<1>1. jobs' = [jobs EXCEPT ![c].phase = phase, ![c].writing = writing]
  BY DEF Store
<1> HIDE DEF writing
<1>2. QED
  BY <1>1, Moved

(* The reading steps, field by field.                                      *)
LEMMA Started ==
  ASSUME Shape, NEW c \in Clients, Start(c)
  PROVE  /\ Only(c) /\ UNCHANGED <<now, bars, outputs>>
         /\ jobs[c].phase = "idle" /\ jobs'[c].phase = "covered"
         /\ jobs'[c].cutoff \in Cutoffs
         /\ jobs'[c].members \subseteq Securities /\ jobs'[c].members # {}
         /\ jobs'[c].history = jobs[c].history
         /\ jobs'[c].existing = jobs[c].existing /\ jobs'[c].run = jobs[c].run
<1>1. IsJob(jobs[c]) /\ jobs = [d \in Clients |-> jobs[d]]
  BY DEF Shape, JobShape
<1>2. PICK cutoff \in Cutoffs :
         jobs' = [jobs EXCEPT ![c].phase = "covered", ![c].cutoff = cutoff,
                              ![c].members = Members]
  BY DEF Start
<1> DEFINE j == jobs[c]
           i == [j EXCEPT !.phase = "covered"]
           h == [i EXCEPT !.cutoff = cutoff]
           t == [h EXCEPT !.members = Members]
<1>3. jobs' = [jobs EXCEPT ![c] = t]
  BY <1>1, <1>2
<1>4. IsJob(i) /\ i.phase = "covered" /\ i.history = j.history
      /\ i.existing = j.existing /\ i.run = j.run
  BY <1>1 DEF IsJob
<1> HIDE DEF i
<1>5. IsJob(h) /\ h.phase = i.phase /\ h.cutoff = cutoff /\ h.history = i.history
      /\ h.existing = i.existing /\ h.run = i.run
  BY <1>4 DEF IsJob
<1> HIDE DEF h
<1>6. IsJob(t) /\ t.phase = h.phase /\ t.cutoff = h.cutoff /\ t.members = Members
      /\ t.history = h.history /\ t.existing = h.existing /\ t.run = h.run
  BY <1>5 DEF IsJob
<1> HIDE DEF t
<1>7. Only(c) /\ jobs'[c] = t
  BY <1>1, <1>3, <1>6 DEF Only
<1>8. Members \subseteq Securities /\ Members # {}
  BY DEF Members, Start
<1>9. QED
  BY <1>4, <1>5, <1>6, <1>7, <1>8 DEF Start, inputs

LEMMA BarsRead ==
  ASSUME Shape, NEW c \in Clients, ReadBars(c)
  PROVE  /\ Only(c) /\ UNCHANGED <<now, bars, outputs>>
         /\ jobs[c].phase = "covered" /\ jobs'[c].phase = "priced"
         /\ jobs'[c].cutoff = jobs[c].cutoff /\ jobs'[c].members = jobs[c].members
         /\ jobs'[c].history \subseteq BarRow
         /\ jobs'[c].existing = jobs[c].existing /\ jobs'[c].run = jobs[c].run
<1>1. IsJob(jobs[c]) /\ jobs = [d \in Clients |-> jobs[d]]
  BY DEF Shape, JobShape
<1> DEFINE asked == { b \in bars : b.security \in Requested(c) /\ b.effective_at <= AsOf }
           read == PriceHistoryAsOf(asked, jobs[c].cutoff)
<1>2. read \subseteq BarRow
  BY DEF PriceHistoryAsOf, Knowable, Shape
<1>3. jobs' = [jobs EXCEPT ![c].phase = "priced", ![c].history = read]
  BY DEF ReadBars
<1> HIDE DEF read
<1> DEFINE j == jobs[c]
           i == [j EXCEPT !.phase = "priced"]
           t == [i EXCEPT !.history = read]
<1>4. jobs' = [jobs EXCEPT ![c] = t]
  BY <1>1, <1>3
<1>5. IsJob(i) /\ i.phase = "priced" /\ i.cutoff = j.cutoff /\ i.members = j.members
      /\ i.existing = j.existing /\ i.run = j.run
  BY <1>1 DEF IsJob
<1> HIDE DEF i
<1>6. IsJob(t) /\ t.phase = i.phase /\ t.cutoff = i.cutoff /\ t.members = i.members
      /\ t.history = read /\ t.existing = i.existing /\ t.run = i.run
  BY <1>5 DEF IsJob
<1> HIDE DEF t
<1>7. Only(c) /\ jobs'[c] = t
  BY <1>1, <1>4, <1>6 DEF Only
<1>8. QED
  BY <1>2, <1>5, <1>6, <1>7 DEF ReadBars, inputs

LEMMA RunFound ==
  ASSUME Shape, NEW c \in Clients, FindRun(c)
  PROVE  /\ Only(c) /\ UNCHANGED <<now, bars, outputs>>
         /\ jobs[c].phase = "priced" /\ jobs'[c].phase = "keyed"
         /\ jobs'[c].cutoff = jobs[c].cutoff /\ jobs'[c].members = jobs[c].members
         /\ jobs'[c].history = jobs[c].history
         /\ jobs'[c].existing = (StoredUnder(KeyOf(c)) # {})
         /\ jobs'[c].run.key = KeyOf(c) /\ jobs'[c].run.started_at = StartedAt(c)
         /\ jobs'[c].run \in RunRow
<1>1. IsJob(jobs[c]) /\ jobs = [d \in Clients |-> jobs[d]]
  BY DEF Shape, JobShape
<1> DEFINE existing == StoredUnder(KeyOf(c)) # {}
           run == [key |-> KeyOf(c), started_at |-> StartedAt(c), status |-> "failed",
                   failed |-> {}]
<1>2. jobs' = [jobs EXCEPT ![c].phase = "keyed", ![c].existing = existing, ![c].run = run]
  BY DEF FindRun
<1>3. run \in RunRow /\ run.key = KeyOf(c) /\ run.started_at = StartedAt(c)
  <2>1. jobs[c].cutoff \in Cutoffs /\ jobs[c].history \subseteq BarRow
    BY DEF FindRun, Shape, JobShape
  <2>2. KeyOf(c) \in RunKey
    BY <2>1 DEF KeyOf, RunKey, BarRow
  <2>3. StartedAt(c) \in Times
    <3>1. CASE StoredUnder(KeyOf(c)) # {}
      <4>1. (CHOOSE r \in StoredUnder(KeyOf(c)) : TRUE) \in runs
        BY <3>1 DEF StoredUnder
      <4>2. QED
        BY <3>1, <4>1 DEF StartedAt, Shape, RunRow
    <3>2. CASE StoredUnder(KeyOf(c)) = {}
      BY <2>1, <3>2, ResearchAssumption DEF StartedAt, Later, Shape, Times
    <3>3. QED
      BY <3>1, <3>2
  <2>4. QED
    BY <2>2, <2>3 DEF RunRow, Statuses
<1> HIDE DEF existing, run
<1> DEFINE j == jobs[c]
           i == [j EXCEPT !.phase = "keyed"]
           h == [i EXCEPT !.existing = existing]
           t == [h EXCEPT !.run = run]
<1>4. jobs' = [jobs EXCEPT ![c] = t]
  BY <1>1, <1>2
<1>5. IsJob(i) /\ i.phase = "keyed" /\ i.cutoff = j.cutoff /\ i.members = j.members
      /\ i.history = j.history
  BY <1>1 DEF IsJob
<1> HIDE DEF i
<1>6. IsJob(h) /\ h.phase = i.phase /\ h.cutoff = i.cutoff /\ h.members = i.members
      /\ h.history = i.history /\ h.existing = existing
  BY <1>5 DEF IsJob
<1> HIDE DEF h
<1>7. IsJob(t) /\ t.phase = h.phase /\ t.cutoff = h.cutoff /\ t.members = h.members
      /\ t.history = h.history /\ t.existing = h.existing /\ t.run = run
  BY <1>6 DEF IsJob
<1> HIDE DEF t
<1>8. Only(c) /\ jobs'[c] = t
  BY <1>1, <1>4, <1>7 DEF Only
<1>9. QED
  BY <1>3, <1>5, <1>6, <1>7, <1>8 DEF FindRun, inputs, existing

(* A benchmark is another security: a card's own bars are told apart.      *)
LEMMA CardFits ==
  ASSUME NEW c \in Clients, NEW s \in Securities
  PROVE  /\ IsCard(CardOf(c, s)) /\ CardOf(c, s).security = s
         /\ CardOf(c, s).key = jobs[c].run.key
         /\ CardOf(c, s).created_at = jobs[c].run.started_at
<1> DEFINE x == CardOf(c, s)
           own == { b \in x.inputs : b.security = x.security }
<1>1. /\ x.security = s /\ x.key = jobs[c].run.key
      /\ x.created_at = jobs[c].run.started_at
      /\ x.effective_at = LatestSession(BarsOf(c, s))
      /\ x.inputs = BarsOf(c, s) \cup (IF Benchmark[s] = None THEN {}
                                       ELSE BarsOf(c, Benchmark[s]))
      /\ x = [key |-> x.key, security |-> x.security, effective_at |-> x.effective_at,
              inputs |-> x.inputs, version |-> x.version, created_at |-> x.created_at]
  BY DEF CardOf
<1> HIDE DEF x
<1>2. own = BarsOf(c, s)
  BY <1>1, ResearchAssumption DEF BarsOf
<1>3. QED
  BY <1>1, <1>2 DEF IsCard, x

(* Assessing computes a run and its cards as one.                          *)
LEMMA RunAssessed ==
  ASSUME Shape, NEW c \in Clients, Assess(c)
  PROVE  /\ Only(c) /\ UNCHANGED <<now, bars, outputs>>
         /\ jobs[c].phase = "keyed" /\ jobs'[c].phase = "assessed"
         /\ jobs'[c].cutoff = jobs[c].cutoff
         /\ jobs'[c].members = {} /\ jobs'[c].history = {}
         /\ jobs'[c].existing = jobs[c].existing
         /\ jobs'[c].run \in RunRow
         /\ jobs'[c].run.key = jobs[c].run.key
         /\ jobs'[c].run.started_at = jobs[c].run.started_at
         /\ Computed(jobs'[c])
<1> DEFINE failed == { s \in jobs[c].members : Fails(c, s) }
           succeeded == jobs[c].members \ failed
           status == RunStatus(succeeded, failed)
           made == { CardOf(c, s) : s \in succeeded }
           j == jobs[c]
<1>1. /\ IsJob(j) /\ jobs = [d \in Clients |-> jobs[d]]
      /\ j.members \subseteq Securities /\ j.members # {} /\ j.run \in RunRow
      /\ j.phase = "keyed"
  BY DEF Shape, JobShape, Assess, Early
<1>2. jobs' = [jobs EXCEPT ![c].phase = "assessed", ![c].members = {}, ![c].history = {},
                           ![c].cards = made, ![c].run.status = status,
                           ![c].run.failed = failed]
  BY DEF Assess
<1>3. /\ failed \subseteq Securities /\ status \in Statuses
      /\ status = "failed" <=> made = {}
      /\ status = "succeeded" <=> failed = {}
  BY <1>1 DEF RunStatus, Statuses
<1>4. \A x \in made : /\ IsCard(x) /\ x.key = j.run.key
                      /\ x.created_at = j.run.started_at /\ x.security \notin failed
  BY <1>1, CardFits
<1>5. \A x, y \in made : x.security = y.security => x = y
  BY <1>1, CardFits
<1> HIDE DEF failed, succeeded, status, made
<1> DEFINE r1 == [j.run EXCEPT !.status = status]
           r2 == [r1 EXCEPT !.failed = failed]
<1>6. r1 \in RunRow /\ r1.status = status /\ r1.key = j.run.key
      /\ r1.started_at = j.run.started_at
  BY <1>1, <1>3 DEF RunRow
<1>7. r2 \in RunRow /\ r2.status = status /\ r2.key = j.run.key
      /\ r2.started_at = j.run.started_at /\ r2.failed = failed
  BY <1>3, <1>6 DEF RunRow
<1> HIDE DEF r1, r2
<1> DEFINE Table(J) == J = [d \in Clients |-> J[d]] /\ IsJob(J[c])
                       /\ \A d \in Clients \ {c} : J[d] = jobs[d]
           J1 == [jobs EXCEPT ![c].phase = "assessed"]
           J2 == [J1 EXCEPT ![c].members = {}]
           J3 == [J2 EXCEPT ![c].history = {}]
           J4 == [J3 EXCEPT ![c].cards = made]
           J5 == [J4 EXCEPT ![c].run.status = status]
           J6 == [J5 EXCEPT ![c].run.failed = failed]
<1>8. jobs' = J6
  BY <1>2, Zenon
<1>9. Table(J1) /\ J1[c].phase = "assessed" /\ J1[c].cutoff = j.cutoff
      /\ J1[c].existing = j.existing /\ J1[c].run = j.run
  BY <1>1 DEF IsJob
<1> HIDE DEF J1
<1>10. Table(J2) /\ J2[c].phase = "assessed" /\ J2[c].cutoff = j.cutoff
       /\ J2[c].existing = j.existing /\ J2[c].run = j.run /\ J2[c].members = {}
  BY <1>9 DEF IsJob
<1> HIDE DEF J2
<1>11. Table(J3) /\ J3[c].phase = "assessed" /\ J3[c].cutoff = j.cutoff
       /\ J3[c].existing = j.existing /\ J3[c].run = j.run /\ J3[c].members = {}
       /\ J3[c].history = {}
  BY <1>10 DEF IsJob
<1> HIDE DEF J3
<1>12. Table(J4) /\ J4[c].phase = "assessed" /\ J4[c].cutoff = j.cutoff
       /\ J4[c].existing = j.existing /\ J4[c].run = j.run /\ J4[c].members = {}
       /\ J4[c].history = {} /\ J4[c].cards = made
  BY <1>11 DEF IsJob
<1> HIDE DEF J4
<1>13. Table(J5) /\ J5[c].phase = "assessed" /\ J5[c].cutoff = j.cutoff
       /\ J5[c].existing = j.existing /\ J5[c].run = r1 /\ J5[c].members = {}
       /\ J5[c].history = {} /\ J5[c].cards = made
  BY <1>12 DEF IsJob, r1
<1> HIDE DEF J5
<1>14. Table(J6) /\ J6[c].phase = "assessed" /\ J6[c].cutoff = j.cutoff
       /\ J6[c].existing = j.existing /\ J6[c].run = r2 /\ J6[c].members = {}
       /\ J6[c].history = {} /\ J6[c].cards = made
  BY <1>13 DEF IsJob, r2
<1> HIDE DEF J6
<1>15. Only(c)
  BY <1>8, <1>14 DEF Only
<1>16. Computed(jobs'[c])
  BY <1>3, <1>4, <1>5, <1>7, <1>8, <1>14 DEF Computed
<1>17. UNCHANGED <<now, bars, outputs>>
  BY DEF Assess, inputs
<1>18. QED
  BY <1>1, <1>7, <1>8, <1>14, <1>15, <1>16, <1>17

LEMMA Ended ==
  ASSUME Shape, NEW c \in Clients, jobs' = [jobs EXCEPT ![c] = Idle]
  PROVE  Only(c) /\ jobs'[c] = Idle
BY DEF Shape, Only, IsJob, Idle

(* The inputs change beside the jobs and leave the results alone.          *)
Outside ==
    /\ UNCHANGED <<outputs, jobs>>
    /\ now' \in Times /\ bars' \subseteq BarRow

LEMMA InputsChange ==
  ASSUME Shape,
         \/ PublishBars \/ EditThesis \/ Tick \/ UNCHANGED vars
         \/ \E s \in Securities : ImportCoverage(s)
  PROVE  Outside
<1>1. CASE PublishBars
  <2>1. PICK batch \in Batches, response \in SUBSET BarRow : Feed!Publish(batch, response)
    BY <1>1 DEF PublishBars
  <2>2. bars' \subseteq BarRow
    BY <2>1 DEF Feed!Publish, Shape
  <2>3. QED
    BY <1>1, <2>2 DEF PublishBars, Outside, Shape
<1>2. CASE EditThesis
  BY <1>2 DEF EditThesis, Outside, Shape
<1>3. CASE Tick
  BY <1>3, ResearchAssumption DEF Tick, Outside, Shape, Times, inputs
<1>4. CASE UNCHANGED vars
  BY <1>4 DEF vars, inputs, Outside, Shape
<1>5. CASE \E s \in Securities : ImportCoverage(s)
  BY <1>5 DEF ImportCoverage, Outside, Shape
<1>6. QED
  BY <1>1, <1>2, <1>3, <1>4, <1>5

-----------------------------------------------------------------------------
(* Every step leaves clocks, bars, runs and jobs well formed.              *)
LEMMA ShapePreserved == Shape /\ [Next]_vars => Shape'
<1> SUFFICES ASSUME Shape, [Next]_vars PROVE Shape'
  OBVIOUS
<1>0. \A c \in Clients : JobShape(jobs[c])
  BY DEF Shape
<1>a. ASSUME NEW c \in Clients, Only(c), JobShape(jobs'[c]),
             UNCHANGED <<now, bars>>, runs' \subseteq RunRow
      PROVE  Shape'
  <2>1. ASSUME NEW d \in Clients PROVE JobShape(jobs'[d])
    BY <1>0, <1>a DEF Only
  <2>2. QED
    BY <1>a, <2>1 DEF Shape, Only, JobShape, IsJob
<1>b. ASSUME NEW c \in Clients, Only(c), SameWork(c), UNCHANGED <<now, bars, runs>>,
             jobs[c].phase \in Assessed, jobs'[c].phase \in Assessed \cup {"refused"}
      PROVE  Shape'
  <2>1. JobShape(jobs'[c])
    BY <1>0, <1>b DEF JobShape, Only, SameWork, Assessed, RunStored, EvidenceStored,
                      FeaturesStored, CardsStored, Early, Phases
  <2>2. QED
    BY <1>a, <1>b, <2>1 DEF Shape
<1>1. CASE Outside
  BY <1>1 DEF Outside, outputs, Shape, JobShape, IsJob
<1>2. ASSUME NEW c \in Clients, Start(c) PROVE Shape'
  <2>1. JobShape(jobs'[c])
    BY <1>0, <1>2, Started DEF JobShape, Only, Assessed, RunStored, EvidenceStored,
                      FeaturesStored, CardsStored, Early, Phases
  <2>2. QED
    BY <1>2, <1>a, <2>1, Started DEF Shape, outputs
<1>3. ASSUME NEW c \in Clients, ReadBars(c) PROVE Shape'
  <2>1. JobShape(jobs'[c])
    BY <1>0, <1>3, BarsRead DEF JobShape, Only, Assessed, RunStored, EvidenceStored,
                      FeaturesStored, CardsStored, Early, Phases
  <2>2. QED
    BY <1>3, <1>a, <2>1, BarsRead DEF Shape, outputs
<1>4. ASSUME NEW c \in Clients, FindRun(c) PROVE Shape'
  <2>1. JobShape(jobs'[c])
    BY <1>0, <1>4, RunFound DEF JobShape, Only, Assessed, RunStored, EvidenceStored,
                      FeaturesStored, CardsStored, Early, Phases
  <2>2. QED
    BY <1>4, <1>a, <2>1, RunFound DEF Shape, outputs
<1>5. ASSUME NEW c \in Clients, Assess(c) PROVE Shape'
  <2>1. JobShape(jobs'[c])
    BY <1>0, <1>5, RunAssessed DEF JobShape, Only, Assessed, RunStored, EvidenceStored,
                      FeaturesStored, CardsStored, Early, Phases
  <2>2. QED
    BY <1>5, <1>a, <2>1, RunAssessed DEF Shape, outputs
<1>6. ASSUME NEW c \in Clients,
             StoreRun(c) \/ StoreEvidence(c) \/ StoreFeatures(c) \/ StoreCards(c)
      PROVE  Shape'
  <2> USE DEF Assessed, RunStored, EvidenceStored, FeaturesStored, CardsStored
  <2>1. CASE StoreRun(c)
    BY <1>b, <2>1, Refused, Stored DEF StoreRun, inputs, outputs
  <2>2. CASE StoreEvidence(c)
    BY <1>b, <2>2, Stored DEF StoreEvidence, inputs, outputs
  <2>3. CASE StoreFeatures(c)
    BY <1>b, <2>3, Refused, Stored DEF StoreFeatures, inputs, outputs
  <2>4. CASE StoreCards(c)
    BY <1>b, <2>4, Refused, Stored DEF StoreCards, inputs, outputs
  <2>5. QED
    BY <1>6, <2>1, <2>2, <2>3, <2>4
<1>7. ASSUME NEW c \in Clients, Commit(c) \/ Abort(c) PROVE Shape'
  <2>1. Only(c) /\ jobs'[c] = Idle
    BY <1>7, Ended DEF Commit, Abort
  <2>2. JobShape(Idle)
    BY DEF JobShape, IsJob, Idle, Phases, Early, Assessed, RunStored, EvidenceStored,
           FeaturesStored, CardsStored
  <2>3. runs' \subseteq RunRow
    BY <1>0, <1>7 DEF Commit, Abort, outputs, Shape, JobShape, Assessed, RunStored,
                      EvidenceStored, FeaturesStored, CardsStored
  <2>4. QED
    BY <1>7, <1>a, <2>1, <2>2, <2>3 DEF Commit, Abort, inputs
<1>8. QED
  BY <1>1, <1>2, <1>3, <1>4, <1>5, <1>6, <1>7, InputsChange DEF Next

-----------------------------------------------------------------------------
Consistent == JobsSound /\ JobsApart /\ Tables

LEMMA ApartSymmetric == \A j, i : Apart(j, i) => Apart(i, j)
BY DEF Apart, SameSubject

(* A job that moves on without touching the tables keeps them consistent   *)
(* if it is sound itself and apart from all others.                        *)
LEMMA MovedConsistently ==
  ASSUME IInv, NEW c \in Clients, Only(c), UNCHANGED outputs, Sound(jobs'[c]),
         \A d \in Clients \ {c} : Apart(jobs'[c], jobs[d])
  PROVE  Consistent'
<1>1. \A d \in Clients : Sound(jobs'[d])
  BY DEF IInv, JobsSound, Only
<1>2. JobsSound'
  BY <1>1 DEF JobsSound, Sound, Computed, Agrees, outputs
<1>3. \A d, e \in Clients : d # e => Apart(jobs'[d], jobs'[e])
  BY ApartSymmetric DEF IInv, JobsApart, Only
<1>4. JobsApart'
  BY <1>3 DEF JobsApart, Apart
<1>5. Tables'
  BY DEF IInv, Tables, outputs
<1>6. QED
  BY <1>2, <1>4, <1>5 DEF Consistent

(* A job that has stored nothing is apart from every other.                *)
LEMMA NothingStored ==
  ASSUME NEW j, NEW i, j.phase \notin RunStored
  PROVE  Apart(j, i)
BY DEF Apart, RunStored, EvidenceStored, FeaturesStored, CardsStored

(* Reading, assessing, being refused and ending store nothing.             *)
LEMMA ReadingConsistent ==
  ASSUME IInv, NEW c \in Clients,
         Start(c) \/ ReadBars(c) \/ FindRun(c) \/ Assess(c) \/ Refuse(c) \/ Abort(c)
  PROVE  Consistent'
<1> USE DEF IInv
<1>0. Sound(jobs[c]) /\ JobShape(jobs[c])
  BY DEF JobsSound, Shape
<1>a. ASSUME Only(c), UNCHANGED outputs, Sound(jobs'[c]), jobs'[c].phase \notin RunStored
      PROVE  Consistent'
  BY <1>a, MovedConsistently, NothingStored
<1> USE DEF Assessed, RunStored, EvidenceStored, FeaturesStored, CardsStored
<1>1. CASE Start(c)
  <2>1. ~ jobs'[c].existing
    BY <1>0, <1>1, Started DEF JobShape
  <2>2. Sound(jobs'[c])
    BY <1>1, <2>1, Started DEF Sound, Computed, Agrees
  <2>3. QED
    BY <1>1, <1>a, <2>2, Started
<1>2. CASE ReadBars(c)
  <2>1. ~ jobs'[c].existing
    BY <1>0, <1>2, BarsRead DEF JobShape
  <2>2. Sound(jobs'[c])
    BY <1>2, <2>1, BarsRead DEF Sound, Computed, Agrees
  <2>3. QED
    BY <1>2, <1>a, <2>2, BarsRead
<1>3. CASE FindRun(c)
  <2>1. ASSUME StoredUnder(KeyOf(c)) # {}
        PROVE  \E r \in runs : r.key = KeyOf(c) /\ r.started_at = StartedAt(c)
    <3> DEFINE r == CHOOSE r \in StoredUnder(KeyOf(c)) : TRUE
    <3>1. r \in StoredUnder(KeyOf(c)) /\ StartedAt(c) = r.started_at
      BY <2>1 DEF StartedAt
    <3>2. QED
      BY <3>1 DEF StoredUnder
  <2>2. Sound(jobs'[c])
    BY <1>3, <2>1, RunFound DEF Sound, Computed, Agrees
  <2>3. QED
    BY <1>3, <1>a, <2>2, RunFound
<1>4. CASE Assess(c)
  <2>1. Agrees(jobs'[c])
    BY <1>0, <1>4, RunAssessed DEF Sound, Agrees
  <2>2. QED
    BY <1>4, <1>a, <2>1, RunAssessed DEF Sound
<1>5. CASE Refuse(c)
  <2>1. Sound(jobs'[c])
    BY <1>0, <1>5, Refused DEF Sound, Computed, Agrees, SameWork
  <2>2. QED
    BY <1>5, <1>a, <2>1, Refused
<1>6. CASE Abort(c)
  <2>1. Only(c) /\ jobs'[c] = Idle /\ UNCHANGED outputs
    BY <1>6, Ended DEF Abort
  <2>2. Sound(Idle) /\ Idle.phase \notin RunStored
    BY DEF Sound, Computed, Agrees, Idle
  <2>3. QED
    BY <1>a, <2>1, <2>2
<1>7. QED
  BY <1>1, <1>2, <1>3, <1>4, <1>5, <1>6

(* The unique run key: whoever stores a run second finds the first.        *)
LEMMA StoreRunConsistent ==
  ASSUME IInv, NEW c \in Clients, StoreRun(c)
  PROVE  Consistent'
<1> USE DEF IInv
<1>0. Sound(jobs[c]) /\ JobShape(jobs[c])
  BY DEF JobsSound, Shape
<1>1. CASE Refuse(c)
  BY <1>1, ReadingConsistent
<1>2. CASE ~ Refuse(c)
  <2> DEFINE run == jobs[c].run
  <2>1. /\ ~ RunDiffers(c) /\ ~ RunBlocked(c) /\ jobs[c].phase = "assessed"
        /\ Only(c) /\ SameWork(c) /\ jobs'[c].phase = "run stored"
        /\ UNCHANGED outputs
    BY <1>2, Stored DEF StoreRun
  <2>2. \A r \in runs : r.key = run.key => r = run
    BY <2>1 DEF RunDiffers, StoredUnder
  <2>3. Sound(jobs'[c])
    BY <1>0, <2>1, <2>2 DEF Sound, Computed, Agrees, SameWork, Assessed, RunStored,
                            EvidenceStored, FeaturesStored, CardsStored
  <2>4. ASSUME NEW d \in Clients \ {c}, jobs[d].phase \in RunStored,
               jobs[d].run.key = run.key
        PROVE  jobs[d].run = run
    <3>1. Pending(d).runs = {jobs[d].run} \ runs
      BY <2>4 DEF Pending
    <3>2. jobs[d].run \in runs
      BY <2>1, <2>4, <3>1 DEF RunBlocked
    <3>3. QED
      BY <2>2, <2>4, <3>2
  <2>5. \A d \in Clients \ {c} : Apart(jobs'[c], jobs[d])
    BY <2>1, <2>4 DEF Apart, SameWork, FeaturesStored, CardsStored
  <2>6. QED
    BY <2>1, <2>3, <2>5, MovedConsistently
<1>3. QED
  BY <1>1, <1>2

LEMMA StoreEvidenceConsistent ==
  ASSUME IInv, NEW c \in Clients, StoreEvidence(c)
  PROVE  Consistent'
<1> USE DEF IInv, Assessed, RunStored, EvidenceStored, FeaturesStored, CardsStored
<1>1. /\ Only(c) /\ SameWork(c) /\ jobs[c].phase = "run stored"
      /\ jobs'[c].phase = "evidence stored" /\ UNCHANGED outputs
  BY Stored DEF StoreEvidence
<1>2. Sound(jobs'[c])
  <2>1. Sound(jobs[c])
    BY DEF JobsSound
  <2>2. Computed(jobs'[c])
    BY <1>1, <2>1 DEF Sound, Computed, SameWork
  <2>3. Agrees(jobs'[c])
    BY <1>1, <2>1 DEF Sound, Agrees, SameWork
  <2>4. QED
    BY <2>2, <2>3 DEF Sound
<1>3. \A d \in Clients \ {c} : Apart(jobs'[c], jobs[d])
  BY <1>1 DEF JobsApart, Apart, SameWork
<1>4. QED
  BY <1>1, <1>2, <1>3, MovedConsistently

LEMMA FeatureFields ==
  \A x : /\ FeatureOf(x).key = x.key /\ FeatureOf(x).security = x.security
         /\ FeatureOf(x).inputs = x.inputs
         /\ FeatureOf(x).calculated_at = x.created_at
BY DEF FeatureOf

(* What is computed stays so while the job stores it.                      *)
LEMMA StillComputed ==
  ASSUME NEW j, NEW t, Computed(j), j.phase \in Assessed, t.run = j.run, t.cards = j.cards
  PROVE  Computed(t)
BY DEF Computed

(* The unique feature vintage, whether the savepoint commits or not.       *)
LEMMA StoreFeaturesConsistent ==
  ASSUME IInv, NEW c \in Clients, StoreFeatures(c)
  PROVE  Consistent'
<1> USE DEF IInv
<1>0. /\ \A d \in Clients : Computed(jobs[d]) /\ Agrees(jobs[d])
      /\ \A d, e \in Clients : d # e => Apart(jobs[d], jobs[e])
  BY DEF JobsSound, Sound, JobsApart
<1>1. CASE Refuse(c)
  BY <1>1, ReadingConsistent
<1>2. CASE ~ Refuse(c)
  <2> DEFINE made == jobs[c].cards
  <2>1. /\ ~ FeaturesDiffer(c) /\ ~ FeaturesBlocked(c)
        /\ jobs[c].phase = "evidence stored" /\ jobs'[c].phase = "features stored"
        /\ Only(c) /\ SameWork(c)
        /\ features' = features \/ features' = features \cup Features(c)
        /\ UNCHANGED <<runs, cards>>
    BY <1>2, Stored DEF StoreFeatures
  <2>2. /\ \A x \in made : x.key = jobs[c].run.key
        /\ \A x, y \in made : x.security = y.security => x = y
    BY <1>0, <2>1 DEF Computed, Assessed, RunStored, EvidenceStored
  <2>3. \A g \in Features(c) : \E x \in made : g = FeatureOf(x)
    BY DEF Features
  <2>4. ASSUME NEW x \in made, NEW g \in features, SameSubject(g, x)
        PROVE  g = FeatureOf(x)
    <3>1. FeatureOf(x) \in Features(c)
      BY DEF Features
    <3>2. FeatureOf(x).key = g.key /\ FeatureOf(x).security = g.security
      BY <2>4, FeatureFields DEF SameSubject
    <3>3. QED
      BY <2>1, <3>1, <3>2 DEF FeaturesDiffer
  <2>5. ASSUME NEW x \in made, NEW g \in features', SameSubject(g, x)
        PROVE  g = FeatureOf(x)
    <3>1. CASE g \in features
      BY <2>4, <2>5, <3>1
    <3>2. CASE g \in Features(c)
      <4>1. PICK y \in made : g = FeatureOf(y)
        BY <2>3, <3>2
      <4>2. y.security = x.security
        BY <2>5, <4>1, FeatureFields DEF SameSubject
      <4>3. QED
        BY <2>2, <4>1, <4>2
    <3>3. QED
      BY <2>1, <3>1, <3>2
  <2>6. ASSUME NEW d \in Clients \ {c}, jobs[d].phase \in FeaturesStored,
               NEW x \in made, NEW y \in jobs[d].cards, SameSubject(x, y)
        PROVE  FeatureOf(x) = FeatureOf(y)
    <3>1. CASE FeatureOf(y) \in features
      BY <2>4, <2>6, <3>1, FeatureFields DEF SameSubject
    <3>2. CASE FeatureOf(y) \notin features
      <4>1. Pending(d).features = Features(d) \ features
        BY <2>6 DEF Pending
      <4>2. FeatureOf(y) \in Pending(d).features /\ FeatureOf(x) \in Features(c)
        BY <2>6, <3>2, <4>1 DEF Features
      <4>3. QED
        BY <2>1, <2>6, <4>2, FeatureFields DEF FeaturesBlocked, SameSubject
    <3>3. QED
      BY <3>1, <3>2
  <2>7. \A d \in Clients \ {c} : Apart(jobs'[c], jobs[d])
    BY <1>0, <2>1, <2>6 DEF Apart, SameWork, RunStored, EvidenceStored,
                            FeaturesStored, CardsStored
  <2>8. JobsApart'
    <3>1. \A d, e \in Clients : d # e => Apart(jobs'[d], jobs'[e])
      BY <1>0, <2>1, <2>7, ApartSymmetric DEF Only
    <3>2. QED
      BY <3>1 DEF JobsApart, Apart
  <2>9. ASSUME NEW d \in Clients PROVE Computed(jobs'[d]) /\ Agrees(jobs[d])'
    <3>1. CASE d = c
      <4>1. Computed(jobs'[c])
        BY <1>0, <2>1, StillComputed DEF SameWork, Assessed, RunStored, EvidenceStored
      <4>2. Agrees(jobs[c])
        BY <1>0
      <4>3. jobs[c].phase \in RunStored /\ jobs'[c].phase \notin CardsStored
        BY <2>1 DEF RunStored, EvidenceStored, CardsStored
      <4>4. Agrees(jobs[c])'
        BY <2>1, <2>5, <4>2, <4>3 DEF Agrees, SameWork
      <4>5. QED
        BY <3>1, <4>1, <4>4
    <3>2. CASE d # c
      <4>1. jobs'[d] = jobs[d]
        BY <2>1, <3>2 DEF Only
      <4>2. ASSUME jobs[d].phase \in FeaturesStored, NEW y \in jobs[d].cards,
                   NEW g \in features', SameSubject(g, y)
            PROVE  g = FeatureOf(y)
        <5>1. CASE g \in features
          BY <1>0, <4>2, <5>1 DEF Agrees
        <5>2. CASE g \in Features(c)
          <6>1. PICK x \in made : g = FeatureOf(x)
            BY <2>3, <5>2
          <6>2. SameSubject(x, y)
            BY <4>2, <6>1, FeatureFields DEF SameSubject
          <6>3. QED
            BY <2>6, <3>2, <4>2, <6>1, <6>2
        <5>3. QED
          BY <2>1, <5>1, <5>2
      <4>3. Agrees(jobs[d])
        BY <1>0
      <4>4. Agrees(jobs[d])'
        BY <2>1, <4>1, <4>2, <4>3 DEF Agrees
      <4>5. QED
        BY <1>0, <4>1, <4>4
    <3>3. QED
      BY <3>1, <3>2
  <2>10. JobsSound'
    <3>1. \A d \in Clients : Computed(jobs[d])'
      BY <2>9 DEF Computed
    <3>2. QED
      BY <2>9, <3>1 DEF JobsSound, Sound
  <2>11. Tables'
    <3>1. ASSUME NEW f \in features', NEW g \in features', SameSubject(f, g)
          PROVE  f = g
      <4>1. CASE f \in features /\ g \in features
        BY <3>1, <4>1 DEF Tables
      <4>2. CASE f \in Features(c)
        <5>1. PICK x \in made : f = FeatureOf(x)
          BY <2>3, <4>2
        <5>2. SameSubject(g, x)
          BY <3>1, <5>1, FeatureFields DEF SameSubject
        <5>3. QED
          BY <2>5, <5>1, <5>2
      <4>3. CASE g \in Features(c)
        <5>1. PICK x \in made : g = FeatureOf(x)
          BY <2>3, <4>3
        <5>2. SameSubject(f, x)
          BY <3>1, <5>1, FeatureFields DEF SameSubject
        <5>3. QED
          BY <2>5, <5>1, <5>2
      <4>4. QED
        BY <2>1, <4>1, <4>2, <4>3
    <3>2. features \subseteq features'
      BY <2>1
    <3>3. QED
      BY <2>1, <3>1, <3>2 DEF Tables
  <2>12. QED
    BY <2>8, <2>10, <2>11 DEF Consistent
<1>3. QED
  BY <1>1, <1>2

(* The unique card key: equal features make equal inputs, equal inputs the *)
(* same session, so what the comparison by session lets through is equal.  *)
LEMMA StoreCardsConsistent ==
  ASSUME IInv, NEW c \in Clients, StoreCards(c)
  PROVE  Consistent'
<1> USE DEF IInv
<1>0. /\ \A d \in Clients : Computed(jobs[d]) /\ Agrees(jobs[d])
      /\ \A d, e \in Clients : d # e => Apart(jobs[d], jobs[e])
  BY DEF JobsSound, Sound, JobsApart
<1>1. CASE Refuse(c)
  BY <1>1, ReadingConsistent
<1>2. CASE ~ Refuse(c)
  <2> DEFINE made == jobs[c].cards
  <2>1. /\ ~ CardsDiffer(c) /\ ~ CardsBlocked(c)
        /\ jobs[c].phase = "features stored" /\ jobs'[c].phase = "cards stored"
        /\ Only(c) /\ SameWork(c) /\ UNCHANGED outputs
    BY <1>2, Stored DEF StoreCards
  <2>2. \A x \in made : IsCard(x)
    BY <1>0, <2>1 DEF Computed, Assessed, RunStored, EvidenceStored, FeaturesStored
  <2>3. ASSUME NEW x \in made, NEW y \in cards, SameSubject(x, y)
        PROVE  x = y
    <3>1. IsCard(x) /\ IsCard(y) /\ FeatureOf(y) \in features
      BY <2>2 DEF Tables
    <3>2. FeatureOf(y) = FeatureOf(x)
      BY <1>0, <2>1, <2>3, <3>1, FeatureFields
         DEF Agrees, FeaturesStored, SameSubject
    <3>3. x.inputs = y.inputs /\ x.security = y.security /\ x.key = y.key
      BY <2>3, <3>2, FeatureFields DEF SameSubject
    <3>4. x.effective_at = y.effective_at
      BY <3>1, <3>3 DEF IsCard
    <3>5. QED
      BY <2>1, <3>3, <3>4 DEF CardsDiffer
  <2>4. ASSUME NEW d \in Clients \ {c}, jobs[d].phase \in CardsStored,
               NEW x \in made, NEW y \in jobs[d].cards, SameSubject(x, y)
        PROVE  x = y
    <3>1. CASE y \in cards
      BY <2>3, <2>4, <3>1
    <3>2. CASE y \notin cards
      <4>1. Pending(d).cards = jobs[d].cards \ cards
        BY <2>4 DEF Pending
      <4>2. QED
        BY <2>1, <2>4, <3>2, <4>1 DEF CardsBlocked, SameSubject
    <3>3. QED
      BY <3>1, <3>2
  <2>5. \A d \in Clients \ {c} : Apart(jobs'[c], jobs[d])
    <3>1. \A d \in Clients \ {c} : Apart(jobs[c], jobs[d])
      BY <1>0
    <3>2. jobs[c].phase \in RunStored /\ jobs[c].phase \in FeaturesStored
      BY <2>1 DEF RunStored, EvidenceStored, FeaturesStored
    <3>3. QED
      BY <2>1, <2>4, <3>1, <3>2 DEF Apart, SameWork
  <2>6. Sound(jobs'[c])
    <3>1. Computed(jobs'[c])
      BY <1>0, <2>1, StillComputed
         DEF SameWork, Assessed, RunStored, EvidenceStored, FeaturesStored
    <3>2. jobs[c].phase \in RunStored /\ jobs[c].phase \in FeaturesStored
      BY <2>1 DEF RunStored, EvidenceStored, FeaturesStored
    <3>3. Agrees(jobs[c])
      BY <1>0
    <3>4. Agrees(jobs'[c])
      BY <2>1, <2>3, <3>2, <3>3 DEF Agrees, SameWork
    <3>5. QED
      BY <3>1, <3>4 DEF Sound
  <2>7. QED
    BY <2>1, <2>5, <2>6, MovedConsistently
<1>3. QED
  BY <1>1, <1>2

(* A commit adds a run and cards that agree with every row and every job.  *)
LEMMA CommitConsistent ==
  ASSUME IInv, NEW c \in Clients, Commit(c)
  PROVE  Consistent'
<1> USE DEF IInv
<1> DEFINE run == jobs[c].run
           made == jobs[c].cards
<1>0. /\ \A d \in Clients : Computed(jobs[d]) /\ Agrees(jobs[d])
      /\ \A d \in Clients : d # c => Apart(jobs[c], jobs[d])
      /\ \A d, e \in Clients : d # e => Apart(jobs[d], jobs[e])
  BY DEF JobsSound, Sound, JobsApart
<1>1. /\ jobs[c].phase \in CardsStored /\ jobs[c].phase \in FeaturesStored
      /\ jobs[c].phase \in RunStored /\ jobs[c].phase \in Assessed
      /\ runs' = runs \cup {run} /\ features' = features \cup Features(c)
      /\ cards' = cards \cup made
      /\ Only(c) /\ jobs'[c] = Idle
  BY Ended DEF Commit, Assessed, RunStored, EvidenceStored, FeaturesStored, CardsStored
<1>2. /\ \A x \in made : /\ IsCard(x) /\ x.key = run.key /\ x.created_at = run.started_at
                         /\ x.security \notin run.failed
      /\ \A x, y \in made : x.security = y.security => x = y
      /\ run.status = "failed" <=> made = {}
      /\ run.status = "succeeded" <=> run.failed = {}
  BY <1>0, <1>1 DEF Computed
<1>3. /\ \A r \in runs : r.key = run.key => r = run
      /\ \A x \in made, g \in features : SameSubject(g, x) => g = FeatureOf(x)
      /\ \A x \in made, y \in cards : SameSubject(x, y) => x = y
  BY <1>0, <1>1 DEF Agrees
<1>4. \A g \in Features(c) : \E x \in made : g = FeatureOf(x)
  BY DEF Features
<1>5. JobsApart'
  <2>1. Idle.phase \notin RunStored
    BY DEF Idle, RunStored, EvidenceStored, FeaturesStored, CardsStored
  <2>2. \A d, e \in Clients : d # e => Apart(jobs'[d], jobs'[e])
    BY <1>0, <1>1, <2>1, NothingStored, ApartSymmetric DEF Only
  <2>3. QED
    BY <2>2 DEF JobsApart, Apart
<1>6. JobsSound'
  <2>1. ASSUME NEW d \in Clients, d # c PROVE Agrees(jobs[d])'
    <3>1. jobs'[d] = jobs[d] /\ Agrees(jobs[d]) /\ Apart(jobs[c], jobs[d])
      BY <1>0, <1>1, <2>1 DEF Only
    <3>2. ASSUME jobs[d].phase \in FeaturesStored, NEW y \in jobs[d].cards,
                 NEW g \in features', SameSubject(g, y)
          PROVE  g = FeatureOf(y)
      <4>1. CASE g \in features
        BY <3>1, <3>2, <4>1 DEF Agrees
      <4>2. CASE g \in Features(c)
        <5>1. PICK x \in made : g = FeatureOf(x)
          BY <1>4, <4>2
        <5>2. SameSubject(x, y)
          BY <3>2, <5>1, FeatureFields DEF SameSubject
        <5>3. QED
          BY <1>1, <3>1, <3>2, <5>1, <5>2 DEF Apart
      <4>3. QED
        BY <1>1, <4>1, <4>2
    <3>3. jobs[d].phase \in RunStored => \A r \in runs' : r.key = jobs[d].run.key => r = jobs[d].run
      BY <1>1, <3>1 DEF Agrees, Apart
    <3>4. ASSUME jobs[d].phase \in CardsStored, NEW y \in jobs[d].cards,
                 NEW x \in cards', SameSubject(y, x)
          PROVE  y = x
      BY <1>1, <3>1, <3>4 DEF Agrees, Apart, SameSubject, CardsStored
    <3>5. jobs[d].existing => \E r \in runs' : /\ r.key = jobs[d].run.key
                                              /\ r.started_at = jobs[d].run.started_at
      BY <1>1, <3>1 DEF Agrees
    <3>6. QED
      BY <3>1, <3>2, <3>3, <3>4, <3>5 DEF Agrees
  <2>2. Agrees(jobs[c])' /\ Computed(jobs[c])'
    <3>1. Idle.phase = "idle" /\ ~ Idle.existing
      BY DEF Idle
    <3>2. jobs'[c].phase = "idle" /\ ~ jobs'[c].existing
      BY <1>1, <3>1
    <3>3. QED
      BY <3>2 DEF Agrees, Computed, Assessed, RunStored, EvidenceStored,
                  FeaturesStored, CardsStored
  <2>3. ASSUME NEW d \in Clients, d # c PROVE Computed(jobs[d])'
    <3>1. jobs'[d] = jobs[d] /\ Computed(jobs[d])
      BY <1>0, <1>1, <2>3 DEF Only
    <3>2. QED
      BY <3>1 DEF Computed
  <2>4. QED
    BY <2>1, <2>2, <2>3 DEF JobsSound, Sound
<1>7. Tables'
  <2>1. \A r, s \in runs' : r.key = s.key => r = s
    BY <1>1, <1>3 DEF Tables
  <2>2. ASSUME NEW f \in features', NEW g \in features', SameSubject(f, g)
        PROVE  f = g
    <3>1. ASSUME NEW x \in made, NEW h \in features', SameSubject(h, x)
          PROVE  h = FeatureOf(x)
      <4>1. CASE h \in features
        BY <1>3, <3>1, <4>1
      <4>2. CASE h \in Features(c)
        <5>1. PICK y \in made : h = FeatureOf(y)
          BY <1>4, <4>2
        <5>2. y.security = x.security
          BY <3>1, <5>1, FeatureFields DEF SameSubject
        <5>3. QED
          BY <1>2, <5>1, <5>2
      <4>3. QED
        BY <1>1, <4>1, <4>2
    <3>2. CASE f \in features /\ g \in features
      BY <2>2, <3>2 DEF Tables
    <3>3. CASE f \in Features(c)
      <4>1. PICK x \in made : f = FeatureOf(x)
        BY <1>4, <3>3
      <4>2. SameSubject(g, x)
        BY <2>2, <4>1, FeatureFields DEF SameSubject
      <4>3. QED
        BY <3>1, <4>1, <4>2
    <3>4. CASE g \in Features(c)
      <4>1. PICK x \in made : g = FeatureOf(x)
        BY <1>4, <3>4
      <4>2. SameSubject(f, x)
        BY <2>2, <4>1, FeatureFields DEF SameSubject
      <4>3. QED
        BY <3>1, <4>1, <4>2
    <3>5. QED
      BY <1>1, <3>2, <3>3, <3>4
  <2>3. \A x, y \in cards' : SameSubject(x, y) => x = y
    BY <1>1, <1>2, <1>3 DEF Tables, SameSubject
  <2>4. \A x \in cards' : IsCard(x) /\ FeatureOf(x) \in features'
    BY <1>1, <1>2 DEF Tables, Features
  <2>5. \A x \in cards' : \E r \in runs' : r.key = x.key
    BY <1>1, <1>2 DEF Tables
  <2>6. ASSUME NEW x \in cards, x.key = run.key PROVE run \in runs
    BY <1>3, <2>6 DEF Tables
  <2>7. \A r \in runs' : \A x \in cards' : x.key = r.key =>
           x.created_at = r.started_at /\ x.security \notin r.failed
    BY <1>1, <1>2, <1>3, <2>6 DEF Tables
  <2>8. ASSUME NEW r \in runs'
        PROVE  r.status = "failed" <=> \A x \in cards' : x.key # r.key
    <3>1. CASE r = run
      <4>1. CASE run \in runs
        BY <1>1, <1>2, <3>1, <4>1 DEF Tables
      <4>2. CASE run \notin runs
        BY <1>1, <1>2, <2>6, <3>1, <4>2
      <4>3. QED
        BY <4>1, <4>2
    <3>2. CASE r # run
      <4>1. r \in runs /\ r.key # run.key
        BY <1>1, <1>3, <3>2
      <4>2. QED
        BY <1>1, <1>2, <4>1 DEF Tables
    <3>3. QED
      BY <3>1, <3>2
  <2>9. \A r \in runs' : r.status = "succeeded" <=> r.failed = {}
    BY <1>1, <1>2 DEF Tables
  <2>10. QED
    BY <2>1, <2>2, <2>3, <2>4, <2>5, <2>7, <2>8, <2>9 DEF Tables
<1>8. QED
  BY <1>5, <1>6, <1>7 DEF Consistent

LEMMA OutsideConsistent == IInv /\ Outside => Consistent'
<1> SUFFICES ASSUME IInv, Outside PROVE Consistent'
  OBVIOUS
<1> USE DEF IInv, Outside, outputs
<1>1. JobsSound'
  BY DEF JobsSound, Sound, Computed, Agrees
<1>2. JobsApart'
  BY DEF JobsApart, Apart
<1>3. Tables'
  BY DEF Tables
<1>4. QED
  BY <1>1, <1>2, <1>3 DEF Consistent

-----------------------------------------------------------------------------
(* Shapes, sound jobs that do not contradict each other and tables without *)
(* contradiction are inductive, on both databases.                         *)
THEOREM InvariantHolds == Spec => []IInv
<1>1. Init => IInv
  <2> SUFFICES ASSUME Init PROVE IInv
    OBVIOUS
  <2> USE DEF Assessed, RunStored, EvidenceStored, FeaturesStored, CardsStored
  <2>1. \A c \in Clients : jobs[c] = Idle
    BY DEF Init
  <2>2. JobShape(Idle)
    BY DEF JobShape, IsJob, Idle, Phases, Early
  <2>3. Shape
    <3>1. \A c \in Clients : JobShape(jobs[c])
      BY <2>1, <2>2
    <3>2. now \in Times /\ bars = {} /\ runs = {} /\ jobs = [c \in Clients |-> jobs[c]]
      BY ResearchAssumption DEF Init, Feed!Init, Times
    <3>3. QED
      BY <3>1, <3>2 DEF Shape
  <2>4. Computed(Idle) /\ Agrees(Idle) /\ Idle.phase \notin RunStored
    BY DEF Computed, Agrees, Idle
  <2>5. JobsSound /\ JobsApart
    BY <2>1, <2>4, NothingStored DEF JobsSound, JobsApart, Sound
  <2>6. Tables
    BY DEF Init, Tables
  <2>7. QED
    BY <2>3, <2>5, <2>6 DEF IInv
<1>2. IInv /\ [Next]_vars => IInv'
  <2> SUFFICES ASSUME IInv, [Next]_vars PROVE IInv'
    OBVIOUS
  <2>1. Shape'
    BY ShapePreserved DEF IInv
  <2>2. Consistent'
    BY OutsideConsistent, InputsChange, ReadingConsistent, StoreRunConsistent,
       StoreEvidenceConsistent, StoreFeaturesConsistent, StoreCardsConsistent,
       CommitConsistent DEF IInv, Next
  <2>3. QED
    BY <2>1, <2>2 DEF IInv, Consistent
<1>3. QED
  BY <1>1, <1>2, PTL DEF Spec

(* However jobs race and rerun, a stored run is what one job computed.     *)
THEOREM RunsAreConsistent == Spec => []RunsConsistent
<1>1. IInv => RunsConsistent
  <2> SUFFICES ASSUME IInv PROVE RunsConsistent
    OBVIOUS
  <2>1. \A x \in cards : StoredUnder(x.key) # {}
    BY DEF IInv, Tables, StoredUnder
  <2>2. ASSUME NEW r \in runs PROVE StoredUnder(r.key) = {r}
    BY DEF IInv, Tables, StoredUnder
  <2>3. \A x, y \in cards : x.key = y.key /\ x.security = y.security => x = y
    BY DEF IInv, Tables, SameSubject
  <2>4. QED
    BY <2>1, <2>2, <2>3 DEF IInv, Tables, RunsConsistent
<1>2. QED
  BY <1>1, InvariantHolds, PTL

(* Where a savepoint never commits, no feature is without its card.        *)
THEOREM RunIsAtomic == ASSUME ~ Sqlite PROVE Spec => []RunAtomic
<1>1. Init => RunAtomic
  BY DEF Init, RunAtomic
<1>2. RunAtomic /\ [Next]_vars => RunAtomic'
  <2> SUFFICES ASSUME RunAtomic, [Next]_vars PROVE RunAtomic'
    OBVIOUS
  <2>1. CASE UNCHANGED <<features, cards>>
    BY <2>1 DEF RunAtomic
  <2>2. ASSUME NEW c \in Clients, Commit(c) PROVE RunAtomic'
    BY <2>2 DEF Commit, RunAtomic, Features
  <2>3. ASSUME NEW c \in Clients, StoreFeatures(c) PROVE UNCHANGED <<features, cards>>
    BY <2>3 DEF StoreFeatures, Refuse, Released, outputs
  <2>4. QED
    BY <2>1, <2>2, <2>3 DEF Next, PublishBars, EditThesis, ImportCoverage, Tick, Start,
       ReadBars, FindRun, Assess, StoreRun, StoreEvidence, StoreCards, Refuse, Abort,
       outputs, vars
<1>3. QED
  BY <1>1, <1>2, PTL DEF Spec

-----------------------------------------------------------------------------
(* A step that refuses a job is one of its three comparisons.              *)
LEMMA WhyRefused ==
  ASSUME IInv, [Next]_vars, NEW c \in Clients,
         jobs'[c].phase = "refused", jobs[c].phase # "refused"
  PROVE  \/ jobs[c].phase = "assessed" /\ RunDiffers(c)
         \/ jobs[c].phase = "evidence stored" /\ FeaturesDiffer(c)
         \/ jobs[c].phase = "features stored" /\ CardsDiffer(c)
<1>0. Shape
  BY DEF IInv
<1>1. jobs' # jobs /\ ~ Outside
  BY DEF Outside
<1>2. PICK d \in Clients :
         \/ Start(d) \/ ReadBars(d) \/ FindRun(d) \/ Assess(d)
         \/ StoreRun(d) \/ StoreEvidence(d) \/ StoreFeatures(d) \/ StoreCards(d)
         \/ Commit(d) \/ Abort(d)
  BY <1>0, <1>1, InputsChange DEF Next
<1>a. ASSUME Only(d) PROVE d = c
  BY <1>a DEF Only
<1>3. ~ Start(d)
  BY <1>0, <1>a, Started
<1>4. ~ ReadBars(d)
  BY <1>0, <1>a, BarsRead
<1>5. ~ FindRun(d)
  BY <1>0, <1>a, RunFound
<1>6. ~ Assess(d)
  BY <1>0, <1>a, RunAssessed
<1>7. ~ Commit(d) /\ ~ Abort(d)
  <2> SUFFICES ASSUME jobs' = [jobs EXCEPT ![d] = Idle] PROVE FALSE
    BY DEF Commit, Abort
  <2>1. Only(d) /\ jobs'[d] = Idle
    BY <1>0, Ended
  <2>2. Idle.phase = "idle"
    BY DEF Idle
  <2>3. QED
    BY <1>a, <2>1, <2>2
<1>8. ASSUME NEW phase, NEW fresh, phase # "refused" PROVE ~ Store(d, phase, fresh)
  BY <1>0, <1>8, <1>a, Stored
<1>9. CASE StoreRun(d)
  <2>1. Refuse(d) /\ RunDiffers(d) /\ jobs[d].phase = "assessed"
    BY <1>8, <1>9 DEF StoreRun
  <2>2. QED
    BY <1>0, <1>a, <2>1, Refused
<1>10. CASE StoreEvidence(d)
  BY <1>8, <1>10 DEF StoreEvidence
<1>11. CASE StoreFeatures(d)
  <2>1. Refuse(d) /\ FeaturesDiffer(d) /\ jobs[d].phase = "evidence stored"
    BY <1>8, <1>11 DEF StoreFeatures
  <2>2. QED
    BY <1>0, <1>a, <2>1, Refused
<1>12. CASE StoreCards(d)
  <2>1. Refuse(d) /\ CardsDiffer(d) /\ jobs[d].phase = "features stored"
    BY <1>8, <1>12 DEF StoreCards
  <2>2. QED
    BY <1>0, <1>a, <2>1, Refused
<1>13. QED
  BY <1>2, <1>3, <1>4, <1>5, <1>6, <1>7, <1>9, <1>10, <1>11, <1>12

(* A rerun is refused only when what it computed, times aside, is not what *)
(* is stored: the times a rerun reuses make the rest of its rows equal.    *)
THEOREM RefusalsAreJustified == Spec => RefusalJustified
<1> DEFINE Same(c) ==
             /\ \A r \in StoredUnder(jobs[c].run.key) :
                   r.failed = jobs[c].run.failed /\ r.status = jobs[c].run.status
             /\ \A x \in jobs[c].cards : \E y \in cards : SameResearch(x, y)
           Justified == \A c \in Clients :
             jobs'[c].phase = "refused" /\ jobs[c].phase # "refused" /\ jobs[c].existing
             => ~ Same(c)
<1>1. IInv /\ [Next]_vars => [Justified]_vars
  <2> SUFFICES ASSUME IInv, [Next]_vars, NEW c \in Clients, jobs'[c].phase = "refused",
                      jobs[c].phase # "refused", jobs[c].existing, Same(c)
               PROVE  FALSE
    OBVIOUS
  <2> DEFINE run == jobs[c].run
  <2>1. /\ Shape /\ Tables /\ Computed(jobs[c]) /\ Agrees(jobs[c])
    BY DEF IInv, JobsSound, Sound
  <2>2. PICK stored \in runs : stored.key = run.key /\ stored.started_at = run.started_at
    BY <2>1 DEF Agrees
  <2>3. \A r \in runs : r.key = run.key => r = stored
    BY <2>1, <2>2 DEF Tables
  <2>4. CASE jobs[c].phase = "assessed" /\ RunDiffers(c)
    <3>1. stored \in RunRow /\ run \in RunRow
      BY <2>1, <2>4 DEF Shape, JobShape, Assessed
    <3>2. stored.failed = run.failed /\ stored.status = run.status
      BY <2>2 DEF StoredUnder
    <3>3. stored = run
      BY <2>2, <3>1, <3>2 DEF RunRow
    <3>4. QED
      BY <2>3, <2>4, <3>3 DEF RunDiffers, StoredUnder
  <2>5. ASSUME jobs[c].phase \in Assessed, NEW x \in jobs[c].cards
        PROVE  \E y \in cards : SameResearch(x, y) /\ x.created_at = y.created_at
    <3>1. PICK y \in cards : SameResearch(x, y)
      OBVIOUS
    <3>2. x.key = run.key /\ x.created_at = run.started_at
      BY <2>1, <2>5 DEF Computed
    <3>3. y.created_at = stored.started_at
      <4>1. y.key = stored.key
        BY <2>2, <3>1, <3>2 DEF SameResearch
      <4>2. QED
        BY <2>1, <4>1 DEF Tables
    <3>4. QED
      BY <2>2, <3>1, <3>2, <3>3
  <2>6. CASE jobs[c].phase = "evidence stored" /\ FeaturesDiffer(c)
    <3>1. PICK x \in jobs[c].cards, g \in features :
             SameSubject(g, x) /\ g # FeatureOf(x)
      <4>1. PICK f \in Features(c), g \in features :
               f.key = g.key /\ f.security = g.security /\ f # g
        BY <2>6 DEF FeaturesDiffer
      <4>2. PICK x \in jobs[c].cards : f = FeatureOf(x)
        BY DEF Features
      <4>3. SameSubject(g, x)
        BY <4>1, <4>2, FeatureFields DEF SameSubject
      <4>4. QED
        BY <4>1, <4>2, <4>3
    <3>2. jobs[c].phase \in Assessed
      BY <2>6 DEF Assessed, RunStored, EvidenceStored
    <3>3. PICK y \in cards : SameResearch(x, y) /\ x.created_at = y.created_at
      BY <2>5, <3>2
    <3>4. FeatureOf(y) \in features /\ FeatureOf(x) = FeatureOf(y)
      BY <2>1, <3>3 DEF Tables, SameResearch, FeatureOf
    <3>5. g = FeatureOf(y)
      <4>1. SameSubject(g, FeatureOf(y))
        BY <3>1, <3>4, FeatureFields DEF SameSubject
      <4>2. QED
        BY <2>1, <3>4, <4>1 DEF Tables
    <3>6. QED
      BY <3>1, <3>4, <3>5
  <2>7. CASE jobs[c].phase = "features stored" /\ CardsDiffer(c)
    <3>1. PICK x \in jobs[c].cards, z \in cards : SameSubject(x, z) /\ x # z
      BY <2>7 DEF CardsDiffer, SameSubject
    <3>2. jobs[c].phase \in Assessed
      BY <2>7 DEF Assessed, RunStored, EvidenceStored, FeaturesStored
    <3>3. PICK y \in cards : SameResearch(x, y) /\ x.created_at = y.created_at
      BY <2>5, <3>2
    <3>4. y = z
      <4>1. SameSubject(y, z)
        BY <3>1, <3>3 DEF SameSubject, SameResearch
      <4>2. QED
        BY <2>1, <4>1 DEF Tables
    <3>5. IsCard(x) /\ IsCard(y)
      BY <2>1, <3>2 DEF Computed, Tables
    <3>6. x.effective_at = y.effective_at
      BY <3>3, <3>5 DEF IsCard, SameResearch
    <3>7. x = y
      BY <3>3, <3>5, <3>6 DEF IsCard, SameResearch
    <3>8. QED
      BY <3>1, <3>4, <3>7
  <2>8. QED
    BY <2>4, <2>6, <2>7, WhyRefused
<1>2. QED
  BY <1>1, InvariantHolds, PTL DEF Spec, RefusalJustified

(* Only a commit adds cards.                                               *)
LEMMA CardsCommitted ==
  ASSUME IInv, [Next]_vars, cards' # cards
  PROVE  \E c \in Clients : Commit(c)
BY DEF Next, PublishBars, EditThesis, ImportCoverage, Tick, Start, ReadBars, FindRun,
       Assess, StoreRun, StoreEvidence, StoreFeatures, StoreCards, Refuse, Abort,
       outputs, vars

(* The inbox of a past instant keeps its cards; a rerun adds only members  *)
(* that its stored run neither failed nor carded.                          *)
THEOREM PastInboxIsStable == Spec => PastInboxStable
<1> DEFINE Stable == \A t \in Times : Settled(t) =>
          /\ CardsAsOf(cards, t) \subseteq CardsAsOf(cards', t)
          /\ \A x \in CardsAsOf(cards', t) \ cards :
                \E r \in StoredUnder(x.key) :
                   /\ x.security \notin r.failed
                   /\ \A y \in cards : y.key = x.key => y.security # x.security
<1>1. IInv /\ [Next]_vars => [Stable]_vars
  <2> SUFFICES ASSUME IInv, [Next]_vars, NEW t \in Times, Settled(t), cards' # cards
               PROVE  /\ CardsAsOf(cards, t) \subseteq CardsAsOf(cards', t)
                      /\ \A x \in CardsAsOf(cards', t) \ cards :
                            \E r \in StoredUnder(x.key) :
                               /\ x.security \notin r.failed
                               /\ \A y \in cards : y.key = x.key
                                                      => y.security # x.security
    BY DEF CardsAsOf
  <2>1. PICK c \in Clients : Commit(c)
    BY CardsCommitted
  <2> DEFINE run == jobs[c].run
  <2>2. /\ Computed(jobs[c]) /\ Agrees(jobs[c]) /\ JobShape(jobs[c])
        /\ jobs[c].phase \in CardsStored /\ jobs[c].phase \in RunStored
        /\ jobs[c].phase \in Assessed
    BY <2>1 DEF IInv, JobsSound, Sound, Shape, Commit, Assessed, RunStored,
                EvidenceStored, FeaturesStored, CardsStored
  <2>3. cards' = cards \cup jobs[c].cards
    BY <2>1 DEF Commit
  <2>4. ASSUME NEW x \in CardsAsOf(cards', t) \ cards
        PROVE  \E r \in StoredUnder(x.key) :
                  /\ x.security \notin r.failed
                  /\ \A y \in cards : y.key = x.key => y.security # x.security
    <3>1. x \in jobs[c].cards /\ x.created_at <= t
      BY <2>3 DEF CardsAsOf
    <3>2. x.key = run.key /\ x.created_at = run.started_at /\ x.security \notin run.failed
      BY <2>2, <3>1 DEF Computed
    <3>3. run \in RunRow /\ run # None /\ run.started_at \in Times
      BY <2>2, NoneIsNoRun DEF JobShape, RunRow
    <3>4. ~ (t < run.started_at)
      BY <3>1, <3>2, <3>3, ResearchAssumption DEF Times
    <3>5. jobs[c].existing
      BY <3>3, <3>4 DEF Settled
    <3>6. run \in runs
      BY <2>2, <3>5 DEF Agrees
    <3>7. \A y \in cards : SameSubject(x, y) => x = y
      BY <2>2, <3>1 DEF Agrees
    <3>8. \A y \in cards : y.key = x.key => y.security # x.security
      BY <3>7 DEF SameSubject
    <3>9. QED
      BY <3>2, <3>6, <3>8 DEF StoredUnder
  <2>5. CardsAsOf(cards, t) \subseteq CardsAsOf(cards', t)
    BY <2>3 DEF CardsAsOf
  <2>6. QED
    BY <2>4, <2>5
<1>2. QED
  BY <1>1, InvariantHolds, PTL DEF Spec, PastInboxStable

=============================================================================
