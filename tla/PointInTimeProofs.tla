--------------------------- MODULE PointInTimeProofs ---------------------------
(***************************************************************************)
(* Proofs about the readers at a cutoff: EventStudy, for any records,      *)
(* payloads, times of day, calendars, batches and specifications, and      *)
(* PointInTime, for any securities, features, runs, screens, backtests and *)
(* vendor tables.  The invariants say little more than what the tables     *)
(* hold; the arguments are about the definitions: when a session closes,   *)
(* what the windows of a study span, and what a cutoff lets through.       *)
(***************************************************************************)
EXTENDS PointInTime, EventStudy, FiniteLemmas, TLAPS

-----------------------------------------------------------------------------
(* Events and the event study.                                             *)

\* A stored vintage is stored once.
VintagesApart(stored) == \A r, q \in stored : SameVintage(r, q) => r = q

StudyInv ==
    /\ StudyTypeOK
    /\ VintagesApart(events) /\ VintagesApart(actions)

-----------------------------------------------------------------------------
(* Upserts: what a batch adds.                                             *)
LEMMA InsertedAdds ==
  ASSUME NEW contents, NEW stored \in SUBSET Vintage(contents),
         NEW batch \in Seq(Vintage(contents))
  PROVE  /\ stored \subseteq Inserted(stored, batch)
         /\ Inserted(stored, batch) \subseteq Vintage(contents)
         /\ \A r \in Inserted(stored, batch) \ stored :
              \A q \in stored : ~ SameVintage(q, r)
         /\ VintagesApart(stored) => VintagesApart(Inserted(stored, batch))
<1> DEFINE New == { j \in DOMAIN batch :
                      \A r \in stored \cup Earlier(batch, j) : ~ SameVintage(r, batch[j]) }
           Fresh == { batch[i] : i \in New }
<1>1. Inserted(stored, batch) = stored \cup Fresh
  BY DEF Inserted
<1>2. \A i \in New : /\ i \in DOMAIN batch
                     /\ \A r \in stored \cup Earlier(batch, i) : ~ SameVintage(r, batch[i])
  OBVIOUS
<1>3. \A i \in DOMAIN batch : batch[i] \in Vintage(contents)
  OBVIOUS
<1>4. Fresh \subseteq Vintage(contents)
  BY <1>2, <1>3
<1>5. \A r \in Fresh : \A q \in stored : ~ SameVintage(q, r)
  BY <1>2
<1>6. \A r, q \in Fresh : SameVintage(r, q) => r = q
  <2> SUFFICES ASSUME NEW i \in New, NEW j \in New, SameVintage(batch[i], batch[j])
               PROVE  batch[i] = batch[j]
    OBVIOUS
  <2>1. i \in Nat /\ j \in Nat /\ 1 <= i /\ 1 <= j
    BY <1>2
  <2>2. ~ (i < j)
    <3> SUFFICES ASSUME i < j PROVE FALSE
      OBVIOUS
    <3>1. i \in 1..(j - 1)
      BY <2>1
    <3>2. batch[i] \in Earlier(batch, j)
      BY <3>1 DEF Earlier
    <3>3. QED
      BY <1>2, <3>2
  <2>3. ~ (j < i)
    <3> SUFFICES ASSUME j < i PROVE FALSE
      OBVIOUS
    <3>1. j \in 1..(i - 1)
      BY <2>1
    <3>2. batch[j] \in Earlier(batch, i)
      BY <3>1 DEF Earlier
    <3>3. SameVintage(batch[j], batch[i])
      BY DEF SameVintage
    <3>4. QED
      BY <1>2, <3>2, <3>3
  <2>4. i = j
    BY <2>1, <2>2, <2>3
  <2>5. QED
    BY <2>4
<1> HIDE DEF Fresh
<1>7. ASSUME VintagesApart(stored) PROVE VintagesApart(stored \cup Fresh)
  <2>1. \A r \in Fresh, q \in stored : ~ SameVintage(r, q)
    BY <1>5 DEF SameVintage
  <2>2. QED
    BY <1>5, <1>6, <1>7, <2>1 DEF VintagesApart
<1>8. QED
  BY <1>1, <1>4, <1>5, <1>7

-----------------------------------------------------------------------------
(* The invariant.                                                          *)
LEMMA FirstInstant == 0 \in Instants
<1>1. MaxDay + 1 \in Nat /\ MaxDay + 1 >= 1 /\ SlotsPerDay \in Nat /\ SlotsPerDay >= 1
  BY EventAssumption
<1>2. \A m, n \in Nat : m >= 1 /\ n >= 1 => m * n >= 1
  OBVIOUS
<1>3. (MaxDay + 1) * SlotsPerDay >= 1 /\ (MaxDay + 1) * SlotsPerDay \in Nat
  BY <1>1, <1>2
<1>4. QED
  BY <1>3 DEF Instants

LEMMA StudyInitially == StudyInit => StudyInv
BY FirstInstant DEF StudyInit, EventsInit, StudyInv, StudyTypeOK, VintagesApart

LEMMA StudyPreserved == StudyInv /\ [StudyNext]_studyVars => StudyInv'
<1> SUFFICES ASSUME StudyInv, [StudyNext]_studyVars PROVE StudyInv'
  OBVIOUS
<1> USE DEF StudyInv, StudyTypeOK
<1>1. CASE UpsertEvents /\ UNCHANGED bars
  <2>1. PICK batch \in EventBatches : events' = Inserted(events, batch)
    BY <1>1 DEF UpsertEvents
  <2>2. batch \in Seq(Vintage(Payloads))
    BY EventAssumption
  <2>3. events' \subseteq Vintage(Payloads) /\ VintagesApart(events')
    BY <2>1, <2>2, InsertedAdds
  <2>4. VintagesApart(events)'
    BY <2>3 DEF VintagesApart
  <2>5. now' = now /\ actions' = actions /\ bars' = bars
    BY <1>1 DEF UpsertEvents
  <2>6. QED
    BY <2>3, <2>4, <2>5 DEF VintagesApart
<1>2. CASE UpsertActions /\ UNCHANGED bars
  <2>1. PICK batch \in ActionBatches : actions' = Inserted(actions, batch)
    BY <1>2 DEF UpsertActions
  <2>2. batch \in Seq(Vintage(Terms))
    BY EventAssumption
  <2>3. actions' \subseteq Vintage(Terms) /\ VintagesApart(actions')
    BY <2>1, <2>2, InsertedAdds
  <2>4. VintagesApart(actions)'
    BY <2>3 DEF VintagesApart
  <2>5. now' = now /\ events' = events /\ bars' = bars
    BY <1>2 DEF UpsertActions
  <2>6. QED
    BY <2>3, <2>4, <2>5 DEF VintagesApart
<1>3. CASE StoreSession
  <2>1. PICK d \in Days, missing \in BOOLEAN :
           /\ \A b \in bars : b.day # d
           /\ bars' = bars \cup {[day |-> d, available |-> now, missing |-> missing]}
    BY <1>3 DEF StoreSession
  <2>2. now' = now /\ events' = events /\ actions' = actions
    BY <1>3 DEF StoreSession, eventVars
  <2>3. bars' \subseteq [day : Days, available : Instants, missing : BOOLEAN]
    BY <2>1
  <2>4. \A b, q \in bars' : b.day = q.day => b = q
    BY <2>1
  <2>5. QED
    BY <2>2, <2>3, <2>4 DEF VintagesApart
<1>4. CASE StudyTick
  BY <1>4 DEF StudyTick, VintagesApart
<1>5. CASE UNCHANGED studyVars
  BY <1>5 DEF studyVars, VintagesApart
<1>6. QED
  BY <1>1, <1>2, <1>3, <1>4, <1>5 DEF StudyNext

(* The tables of events, actions and sessions are well formed, and a       *)
(* vintage is stored once (company_event, corporate_action).               *)
THEOREM StudyInvariantHolds == StudySpec => []StudyInv
BY StudyInitially, StudyPreserved, PTL DEF StudySpec

(* Every stored event, action and session has its type.                    *)
THEOREM StudyTypeCorrect == StudySpec => []StudyTypeOK
<1>1. StudyInv => StudyTypeOK
  BY DEF StudyInv
<1>2. QED
  BY <1>1, StudyInvariantHolds, PTL

-----------------------------------------------------------------------------
(* Days and the times in them.                                             *)
LEMMA DayAndTime ==
  ASSUME NEW t \in Nat
  PROVE  /\ DayOf(t) \in Nat /\ t % SlotsPerDay \in 0..(SlotsPerDay - 1)
         /\ t = DayOf(t) * SlotsPerDay + (t % SlotsPerDay)
<1>1. SlotsPerDay \in Nat /\ SlotsPerDay > 0
  BY EventAssumption
<1>2. \A a, n \in Nat : n > 0 =>
         a \div n \in Nat /\ a % n \in 0..(n - 1) /\ a = (a \div n) * n + (a % n)
  OBVIOUS
<1>3. QED
  BY <1>1, <1>2 DEF DayOf

(* A session closes after an instant if it is of a later date, or of the   *)
(* same date and the instant is before the close.                          *)
LEMMA ClosesAfter ==
  ASSUME NEW t \in Nat, NEW d \in Nat
  PROVE  CloseOf(d) > t <=> \/ d > DayOf(t)
                            \/ d = DayOf(t) /\ t % SlotsPerDay < Close
<1> DEFINE n == DayOf(t)
           r == t % SlotsPerDay
<1>1. /\ n \in Nat /\ r \in 0..(SlotsPerDay - 1) /\ t = n * SlotsPerDay + r
  BY DayAndTime
<1>2. SlotsPerDay \in Nat /\ Close \in 0..(SlotsPerDay - 1)
  BY EventAssumption, StudyAssumption
<1> HIDE DEF n, r
<1>3. \A a, b, s \in Nat : a >= b + 1 => a * s >= b * s + s
  <2> SUFFICES ASSUME NEW a \in Nat, NEW b \in Nat, NEW s \in Nat, a >= b + 1
               PROVE  a * s >= b * s + s
    OBVIOUS
  <2>1. PICK k \in Nat : a = b + 1 + k
    <3>1. a - (b + 1) \in Nat /\ a = b + 1 + (a - (b + 1))
      OBVIOUS
    <3>2. QED
      BY <3>1
  <2>2. a * s = b * s + s + k * s
    BY <2>1
  <2>3. k * s >= 0
    OBVIOUS
  <2>4. b * s \in Nat /\ k * s \in Nat
    OBVIOUS
  <2>5. QED
    BY <2>2, <2>3, <2>4
<1>4. n * SlotsPerDay \in Nat /\ d * SlotsPerDay \in Nat
  BY <1>1, <1>2
<1>5. ASSUME d > n PROVE CloseOf(d) > t
  <2>1. d * SlotsPerDay >= n * SlotsPerDay + SlotsPerDay
    BY <1>1, <1>2, <1>3, <1>5
  <2>2. QED
    BY <1>1, <1>2, <1>4, <2>1 DEF CloseOf
<1>6. ASSUME d < n PROVE ~ (CloseOf(d) > t)
  <2>1. n * SlotsPerDay >= d * SlotsPerDay + SlotsPerDay
    BY <1>1, <1>2, <1>3, <1>6
  <2>2. QED
    BY <1>1, <1>2, <1>4, <2>1 DEF CloseOf
<1>7. ASSUME d = n PROVE CloseOf(d) > t <=> r < Close
  BY <1>1, <1>2, <1>4, <1>7 DEF CloseOf
<1>8. QED
  BY <1>1, <1>5, <1>6, <1>7 DEF n, r

(* The timing derived from an instant lets exactly the sessions respond    *)
(* that close after it.                                                    *)
LEMMA RespondingClosesAfter ==
  ASSUME StudyTypeOK, NEW e \in events, TimingOf[e.content] = None
  PROVE  Responding(e, bars) = { b \in bars : CloseOf(b.day) > e.effective }
<1>1. e.effective \in Nat
  BY DEF StudyTypeOK, Vintage, Instants
<1>2. \A b \in bars : b.day \in Nat
  BY DEF StudyTypeOK, Days
<1>3. /\ DayOf(e.effective) \in Nat /\ e.effective % SlotsPerDay \in Nat
  <2>1. e.effective % SlotsPerDay \in 0..(SlotsPerDay - 1) /\ DayOf(e.effective) \in Nat
    BY <1>1, DayAndTime
  <2>2. SlotsPerDay \in Nat
    BY EventAssumption
  <2>3. QED
    BY <2>1, <2>2
<1>4. Open \in Nat /\ Close \in Nat /\ Open < Close
  BY StudyAssumption, EventAssumption
<1>5. Timing(e) = "AMC" <=> ~ (e.effective % SlotsPerDay < Close)
  BY <1>3, <1>4 DEF Timing
<1>6. ASSUME NEW b \in bars
      PROVE  (IF Timing(e) = "AMC" THEN b.day > DayOf(e.effective)
              ELSE b.day >= DayOf(e.effective)) <=> CloseOf(b.day) > e.effective
  BY <1>1, <1>2, <1>3, <1>5, ClosesAfter
<1>7. QED
  BY <1>6 DEF Responding

(* An event without an explicit timing is aligned to the first session on  *)
(* record that closes after it (align_event_session).                      *)
THEOREM AlignedToFirstReaction == StudySpec => []FirstReaction
<1>1. StudyTypeOK => FirstReaction
  BY RespondingClosesAfter DEF FirstReaction, ResponseSession
<1>2. QED
  BY <1>1, StudyTypeCorrect, PTL

-----------------------------------------------------------------------------
(* The windows of a specification lie between its two offsets.             *)
LEMMA WindowsSpanned ==
  ASSUME NEW spec \in Studies
  PROVE  /\ MinimumOffset(spec) \in Int /\ MaximumOffset(spec) \in Int
         /\ \A w \in spec.windows : /\ w.start \in Int /\ w.end \in Int
                                    /\ MinimumOffset(spec) <= w.start
                                    /\ w.end <= MaximumOffset(spec)
<1> DEFINE W == spec.windows
           Starts == { w.start : w \in W }
           Ends == { w.end : w \in W }
<1>1. W \subseteq EventWindow /\ IsFiniteSet(W) /\ W # {}
  BY StudyAssumption DEF EventStudySpec
<1> HIDE DEF W
<1>2. \A w \in W : w.start \in Int /\ w.end \in Int
  BY <1>1 DEF EventWindow
<1>3. Starts \subseteq Int /\ Starts # {} /\ Ends \subseteq Int /\ Ends # {}
  BY <1>1, <1>2
<1>4. IsFiniteSet(Starts)
  <2>1. [w \in W |-> w.start] \in Surjection(W, Starts)
    BY DEF Surjection
  <2>2. QED
    BY <1>1, <2>1, FS_Surjection
<1>5. IsFiniteSet(Ends)
  <2>1. [w \in W |-> w.end] \in Surjection(W, Ends)
    BY DEF Surjection
  <2>2. QED
    BY <1>1, <2>1, FS_Surjection
<1>6. \E o \in Starts : \A w \in W : o <= w.start
  <2>1. PICK o \in Starts : \A k \in Starts : o <= k
    BY <1>3, <1>4, Least
  <2>2. QED
    BY <2>1
<1>7. \E o \in Ends : \A w \in W : o >= w.end
  <2>1. PICK o \in Ends : \A k \in Ends : o >= k
    BY <1>3, <1>5, GreatestNumber
  <2>2. QED
    BY <2>1
<1>8. /\ MinimumOffset(spec) \in Starts
      /\ \A w \in W : MinimumOffset(spec) <= w.start
  BY <1>6 DEF MinimumOffset, W
<1>9. /\ MaximumOffset(spec) \in Ends
      /\ \A w \in W : MaximumOffset(spec) >= w.end
  BY <1>7 DEF MaximumOffset, W
<1>10. QED
  BY <1>2, <1>3, <1>8, <1>9 DEF W

(* An event's windows lie within the sessions it occupies.                 *)
LEMMA AroundWithinOccupied ==
  ASSUME NEW spec \in Studies, NEW w \in spec.windows, NEW returns, IsFiniteSet(returns), NEW b
  PROVE  Around(w, b, returns) \subseteq Occupied(spec, b, returns)
<1> DEFINE p == Position(b, returns)
<1>1. p \in Nat
  <2>1. IsFiniteSet({ q \in returns : q.day < b.day })
    BY FS_Subset
  <2>2. QED
    BY <2>1, FS_CardinalityType DEF Position
<1> HIDE DEF p
<1>2. /\ MinimumOffset(spec) \in Int /\ MaximumOffset(spec) \in Int
      /\ w.start \in Int /\ w.end \in Int
      /\ MinimumOffset(spec) <= w.start /\ w.end <= MaximumOffset(spec)
  BY WindowsSpanned
<1>3. \A o \in Offsets(w) : p + o \in (p + MinimumOffset(spec))..(p + MaximumOffset(spec))
  BY <1>1, <1>2 DEF Offsets
<1>4. QED
  BY <1>3 DEF p, Around, Occupied

(* There is at most one stored session for a day.                          *)
LEMMA SessionsFinite ==
  ASSUME StudyTypeOK
  PROVE  IsFiniteSet(bars)
<1> DEFINE D == { b.day : b \in bars }
           f == [d \in D |-> CHOOSE b \in bars : b.day = d]
<1>1. \A b \in bars : b.day \in 0..MaxDay
  BY DEF StudyTypeOK, Days
<1>2. IsFiniteSet(D)
  <2>1. IsFiniteSet(0..MaxDay)
    BY FS_Interval, EventAssumption
  <2>2. D \subseteq 0..MaxDay
    BY <1>1
  <2>3. QED
    BY <2>1, <2>2, FS_Subset
<1>3. \A d \in D : f[d] \in bars /\ f[d].day = d
  OBVIOUS
<1>4. \A b \in bars : b.day \in D /\ f[b.day] = b
  <2> SUFFICES ASSUME NEW b \in bars PROVE b.day \in D /\ f[b.day] = b
    OBVIOUS
  <2>1. b.day \in D
    OBVIOUS
  <2>2. f[b.day] \in bars /\ f[b.day].day = b.day
    BY <1>3, <2>1
  <2>3. QED
    BY <2>1, <2>2 DEF StudyTypeOK
<1>5. f \in Surjection(D, bars)
  <2>1. f \in [D -> bars]
    BY <1>3
  <2> HIDE DEF f
  <2>2. QED
    BY <1>4, <2>1 DEF Surjection
<1>6. QED
  BY <1>2, <1>5, FS_Surjection

(* Under "exclude" the eligible events share no session, so their returns  *)
(* can be averaged as a sample (extract_event_windows).                    *)
THEOREM EligibleShareNoSession == StudySpec => []EligibleDisjoint
<1>1. StudyTypeOK => EligibleDisjoint
  <2> SUFFICES ASSUME StudyTypeOK,
                      NEW spec \in { x \in Studies : x.policy = "exclude" }, NEW t \in 0..now
               PROVE  LET returns == ReturnsAsOf(bars, t)
                          eligible == { o \in Observations(spec, events, bars, t) : o.eligible }
                          used(o) == UNION { Around(w, b, returns) :
                                               w \in spec.windows, b \in o.response }
                      IN  \A o, p \in eligible : o # p => used(o) \cap used(p) = {}
    BY DEF EligibleDisjoint
  <2> DEFINE returns == ReturnsAsOf(bars, t)
             known == EventsAsOf(events, 0, CloseOf(MaxDay), t)
             Seen(e) == [event |-> e, response |-> ResponseSession(e, returns),
                         overlaps |-> Overlaps(spec, e, known, returns),
                         complete |-> { w \in spec.windows :
                                          \E b \in ResponseSession(e, returns) :
                                            Complete(w, b, returns) },
                         eligible |-> Eligible(spec, e, known, returns)]
             used(o) == UNION { Around(w, b, returns) : w \in spec.windows, b \in o.response }
  <2>1. Observations(spec, events, bars, t) = { Seen(e) : e \in known }
    BY DEF Observations
  <2>2. IsFiniteSet(returns)
    BY SessionsFinite, FS_Subset DEF ReturnsAsOf
  <2> HIDE DEF returns, known
  <2>3. ASSUME NEW e \in known, NEW f \in known, Seen(e) # Seen(f),
               Seen(e).eligible, Seen(f).eligible
        PROVE  used(Seen(e)) \cap used(Seen(f)) = {}
    <3>1. f \in known \ {e}
      BY <2>3
    <3>2. ~ Overlaps(spec, e, known, returns)
      BY <2>3 DEF Eligible
    <3>3. \A b \in ResponseSession(e, returns), q \in ResponseSession(f, returns) :
             Occupied(spec, b, returns) \cap Occupied(spec, q, returns) = {}
      BY <3>1, <3>2 DEF Overlaps
    <3>4. \A w \in spec.windows : \A b : Around(w, b, returns) \subseteq Occupied(spec, b, returns)
      BY <2>2, AroundWithinOccupied
    <3>5. Seen(e).response = ResponseSession(e, returns)
          /\ Seen(f).response = ResponseSession(f, returns)
      OBVIOUS
    <3> HIDE DEF Seen
    <3>6. ASSUME NEW x \in used(Seen(e)), x \in used(Seen(f)) PROVE FALSE
      <4>1. PICK b \in ResponseSession(e, returns) : x \in Occupied(spec, b, returns)
        BY <3>4, <3>5, <3>6
      <4>2. PICK q \in ResponseSession(f, returns) : x \in Occupied(spec, q, returns)
        BY <3>4, <3>5, <3>6
      <4>3. QED
        BY <3>3, <4>1, <4>2
    <3>7. QED
      BY <3>6
  <2> HIDE DEF Seen, used
  <2>4. \A o, p \in { x \in Observations(spec, events, bars, t) : x.eligible } :
           o # p => used(o) \cap used(p) = {}
    BY <2>1, <2>3
  <2>5. QED
    BY <2>4 DEF used, returns
<1>2. QED
  BY <1>1, StudyTypeCorrect, PTL

-----------------------------------------------------------------------------
(* A window of dates answers the newest vintage known of a record, or one  *)
(* that a later vintage moved out of the window (events_as_of).            *)
THEOREM NewestIsAnswered == StudySpec => []NewestUnlessMoved
<1>1. StudyTypeOK => NewestUnlessMoved
  <2> SUFFICES ASSUME StudyTypeOK, NEW d \in Days, NEW e \in Days, NEW t \in 0..now,
                      NEW r \in EventsAsOf(events, StartOf(d), StartOf(e + 1) - 1, t),
                      NEW q \in events, q.record = r.record, q.available <= t,
                      q.available > r.available,
                      q.effective \in StartOf(d)..(StartOf(e + 1) - 1)
               PROVE  FALSE
    BY DEF NewestUnlessMoved
  <2>1. q \in KnownWithin(events, StartOf(d), StartOf(e + 1) - 1, t)
    BY DEF KnownWithin
  <2>2. q.available <= r.available /\ r \in events
    BY <2>1 DEF EventsAsOf, KnownWithin
  <2>3. q.available \in Int /\ r.available \in Int
    BY <2>2 DEF StudyTypeOK, Vintage, Instants
  <2>4. QED
    BY <2>2, <2>3
<1>2. QED
  BY <1>1, StudyTypeCorrect, PTL

(* Only what was known at a cutoff is read there, so what becomes known    *)
(* after it changes no observation, and neither does a vintage that is     *)
(* submitted again.  Corporate actions are only added.                     *)
THEOREM StudiesReplay == StudySpec => StudyReplays
<1>1. StudyInv /\ [StudyNext]_studyVars =>
        [/\ \A spec \in Studies, t \in 0..now :
              (/\ \A r \in events' \ events :
                    r.available > t \/ \E q \in events : SameVintage(q, r)
               /\ \A b \in bars' \ bars : b.available > t) =>
                 Observations(spec, events', bars', t) = Observations(spec, events, bars, t)
         /\ actions \subseteq actions']_studyVars
  <2> SUFFICES ASSUME StudyInv, [StudyNext]_studyVars
               PROVE  /\ \A spec \in Studies, t \in 0..now :
                           (/\ \A r \in events' \ events :
                                 r.available > t \/ \E q \in events : SameVintage(q, r)
                            /\ \A b \in bars' \ bars : b.available > t) =>
                              Observations(spec, events', bars', t)
                                = Observations(spec, events, bars, t)
                      /\ actions \subseteq actions'
    OBVIOUS
  <2> USE DEF StudyInv, StudyTypeOK
  <2>1. /\ events \subseteq events'
        /\ \A r \in events' \ events : \A q \in events : ~ SameVintage(q, r)
    <3>1. CASE UpsertEvents
      <4>1. PICK batch \in EventBatches : events' = Inserted(events, batch)
        BY <3>1 DEF UpsertEvents
      <4>2. batch \in Seq(Vintage(Payloads))
        BY EventAssumption
      <4>3. QED
        BY <4>1, <4>2, InsertedAdds
    <3>2. CASE events' = events
      BY <3>2
    <3>3. QED
      BY <3>1, <3>2 DEF StudyNext, UpsertActions, StoreSession, StudyTick, eventVars, studyVars
  <2>2. actions \subseteq actions'
    <3>1. CASE UpsertActions
      <4>1. PICK batch \in ActionBatches : actions' = Inserted(actions, batch)
        BY <3>1 DEF UpsertActions
      <4>2. batch \in Seq(Vintage(Terms))
        BY EventAssumption
      <4>3. QED
        BY <4>1, <4>2, InsertedAdds
    <3>2. CASE actions' = actions
      BY <3>2
    <3>3. QED
      BY <3>1, <3>2 DEF StudyNext, UpsertEvents, StoreSession, StudyTick, eventVars, studyVars
  <2>3. bars \subseteq bars'
    BY DEF StudyNext, UpsertEvents, UpsertActions, StoreSession, StudyTick, studyVars
  <2>4. /\ \A r \in events' : r.available \in Int
        /\ \A b \in bars' : b.available \in Int
    <3>1. StudyInv'
      BY StudyPreserved
    <3>2. QED
      BY <3>1 DEF Vintage, Instants
  <2>5. ASSUME NEW spec \in Studies, NEW t \in 0..now,
               \A r \in events' \ events :
                 r.available > t \/ \E q \in events : SameVintage(q, r),
               \A b \in bars' \ bars : b.available > t
        PROVE  Observations(spec, events', bars', t) = Observations(spec, events, bars, t)
    <3>1. t \in Int
      OBVIOUS
    <3>2. ReturnsAsOf(bars', t) = ReturnsAsOf(bars, t)
      BY <2>3, <2>4, <2>5, <3>1 DEF ReturnsAsOf
    <3>3. \A r \in events' \ events : r.available > t
      BY <2>1, <2>5
    <3>4. KnownWithin(events', 0, CloseOf(MaxDay), t)
            = KnownWithin(events, 0, CloseOf(MaxDay), t)
      BY <2>1, <2>4, <3>1, <3>3 DEF KnownWithin
    <3>5. EventsAsOf(events', 0, CloseOf(MaxDay), t)
            = EventsAsOf(events, 0, CloseOf(MaxDay), t)
      BY <3>4 DEF EventsAsOf
    <3>6. QED
      BY <3>2, <3>5 DEF Observations
  <2>6. QED
    BY <2>2, <2>5
<1>2. QED
  BY <1>1, StudyInvariantHolds, PTL DEF StudySpec, StudyReplays

-----------------------------------------------------------------------------
(* The feature panel, and the types of PointInTime.                        *)

LEMMA PanelInitially == PanelInit => PanelTypeOK
BY PanelAssumption DEF PanelInit, PanelTypeOK, Times

LEMMA PanelPreserved == PanelTypeOK /\ [PanelNext]_panelVars => PanelTypeOK'
<1> SUFFICES ASSUME PanelTypeOK, [PanelNext]_panelVars PROVE PanelTypeOK'
  OBVIOUS
<1>0. MaxTime \in Nat /\ MaxRuns \in Nat /\ now \in 0..MaxTime /\ runs \in 0..MaxRuns
  BY PanelAssumption DEF PanelTypeOK, Times
<1>1. CASE Calculate
  <2>1. PICK section \in Sections, available \in 0..now : \E effective \in 0..available :
          features' = features \cup
            { [security |-> s, name |-> section.name, version |-> section.version,
               config |-> section.config, effective |-> effective, available |-> available,
               calculated |-> now, value |-> section.values[s], run |-> runs + 1] :
              s \in DOMAIN section.values }
    BY <1>1 DEF Calculate
  <2>2. PICK effective \in 0..available :
          features' = features \cup
            { [security |-> s, name |-> section.name, version |-> section.version,
               config |-> section.config, effective |-> effective, available |-> available,
               calculated |-> now, value |-> section.values[s], run |-> runs + 1] :
              s \in DOMAIN section.values }
    BY <2>1
  <2>3. section \in Section
    BY PanelAssumption
  <2>4. PICK S \in SUBSET Securities : section.values \in [S -> Values]
    BY <2>3 DEF Section
  <2>5. now \in Times /\ available \in Times /\ effective \in Times
    BY <1>0 DEF Times
  <2>6. runs + 1 \in Run /\ runs' = runs + 1 /\ now' = now
    BY <1>0, <1>1 DEF Calculate, Run
  <2>7. section.name \in FeatureNames /\ section.version \in Versions /\ section.config \in Configs
    BY <2>3 DEF Section
  <2>8. ASSUME NEW r \in features' \ features
        PROVE  /\ r \in Snapshot
               /\ r.effective <= r.available /\ r.available <= r.calculated /\ r.calculated <= now
    <3>1. PICK s \in S :
            r = [security |-> s, name |-> section.name, version |-> section.version,
                 config |-> section.config, effective |-> effective, available |-> available,
                 calculated |-> now, value |-> section.values[s], run |-> runs + 1]
      BY <2>2, <2>4
    <3>2. s \in Securities /\ section.values[s] \in Values
      BY <2>4
    <3>3. r \in Snapshot
      BY <2>5, <2>6, <2>7, <3>1, <3>2 DEF Snapshot
    <3>4. effective <= available /\ available <= now /\ now <= now
      BY <1>0
    <3>5. QED
      BY <3>1, <3>3, <3>4
  <2>9. \A r \in features' : r \in features \/ r \in features' \ features
    OBVIOUS
  <2>10. runs' \in 0..MaxRuns /\ now' \in Times
    BY <1>0, <2>5, <2>6 DEF Run
  <2> HIDE <2>2, <2>1
  <2>11. QED
    BY <2>6, <2>8, <2>9, <2>10 DEF PanelTypeOK
<1>2. CASE Tick
  <2>1. now' \in 0..MaxTime /\ now <= now' /\ features' = features /\ runs' = runs
    BY <1>0, <1>2 DEF Tick
  <2>2. \A r \in features : r.calculated \in Int
    BY DEF PanelTypeOK, Snapshot, Times
  <2>3. \A r \in features : r.calculated <= now'
    BY <1>0, <2>1, <2>2 DEF PanelTypeOK
  <2>4. QED
    BY <2>1, <2>3 DEF PanelTypeOK, Times
<1>3. CASE UNCHANGED panelVars
  BY <1>3 DEF panelVars, PanelTypeOK
<1>4. QED
  BY <1>1, <1>2, <1>3 DEF PanelNext

\* A delivery is appended to the vendor's tables.
LEMMA DeliveryAppends ==
  ASSUME tables \in Tables, Deliver
  PROVE  /\ UNCHANGED <<now, features>>
         /\ tables' \in Tables
         /\ \E batch \in Tables :
              /\ tables'.estimates = tables.estimates \o batch.estimates
              /\ tables'.transactions = tables.transactions \o batch.transactions
              /\ tables'.ownership = tables.ownership \o batch.ownership
<1>1. PICK batch \in VendorBatches : tables' = [k \in DOMAIN tables |-> tables[k] \o batch[k]]
  BY DEF Deliver
<1>2. batch \in Tables
  BY BatchAssumption
<1>3. DOMAIN tables = {"estimates", "transactions", "ownership"}
  BY DEF Tables
<1>4. tables' = [estimates |-> tables.estimates \o batch.estimates,
                 transactions |-> tables.transactions \o batch.transactions,
                 ownership |-> tables.ownership \o batch.ownership]
  BY <1>1, <1>3
<1>5. /\ tables.estimates \o batch.estimates \in Seq(Estimate)
      /\ tables.transactions \o batch.transactions \in Seq(Transaction)
      /\ tables.ownership \o batch.ownership \in Seq(Ownership)
  <2>1. /\ tables.estimates \in Seq(Estimate) /\ batch.estimates \in Seq(Estimate)
        /\ tables.transactions \in Seq(Transaction) /\ batch.transactions \in Seq(Transaction)
        /\ tables.ownership \in Seq(Ownership) /\ batch.ownership \in Seq(Ownership)
    BY <1>2 DEF Tables
  <2>2. QED
    BY <2>1
<1>6. tables' \in Tables
  BY <1>4, <1>5 DEF Tables
<1>7. QED
  BY <1>2, <1>4, <1>6 DEF Deliver

(* The stored features and the vendor's tables are well formed: what a     *)
(* snapshot is about, when it was known and when it was calculated follow  *)
(* each other, and nothing is of the future (feature_snapshot).            *)
THEOREM TypeCorrect == Spec => []TypeOK
<1>1. Init => TypeOK
  <2> SUFFICES ASSUME Init PROVE TypeOK
    OBVIOUS
  <2>1. tables \in Tables
    BY DEF Init, Tables
  <2>2. QED
    BY <2>1, PanelInitially DEF Init, TypeOK
<1>2. TypeOK /\ [Next]_pitVars => TypeOK'
  <2> SUFFICES ASSUME TypeOK, [Next]_pitVars PROVE TypeOK'
    OBVIOUS
  <2>1. CASE PanelNext /\ UNCHANGED tables
    BY <2>1, PanelPreserved DEF TypeOK
  <2>2. CASE Deliver
    <3>1. tables' \in Tables /\ UNCHANGED <<now, features>>
      BY <2>2, DeliveryAppends DEF TypeOK
    <3>2. runs' \in 0..MaxRuns
      BY <2>2, PanelAssumption DEF Deliver, TypeOK, PanelTypeOK
    <3>3. QED
      BY <3>1, <3>2 DEF TypeOK, PanelTypeOK
  <2>3. CASE UNCHANGED pitVars
    BY <2>3 DEF pitVars, TypeOK, PanelTypeOK
  <2>4. QED
    BY <2>1, <2>2, <2>3 DEF Next
<1>3. QED
  BY <1>1, <1>2, PTL DEF Spec

(* No step changes or drops a stored feature.                              *)
LEMMA FeaturesGrow == TypeOK /\ [Next]_pitVars => features \subseteq features'
<1> SUFFICES ASSUME TypeOK, [Next]_pitVars PROVE features \subseteq features'
  OBVIOUS
<1>1. CASE PanelNext
  BY <1>1 DEF PanelNext, Calculate, Tick
<1>2. CASE Deliver
  BY <1>2 DEF Deliver
<1>3. CASE UNCHANGED pitVars
  BY <1>3 DEF pitVars
<1>4. QED
  BY <1>1, <1>2, <1>3 DEF Next

-----------------------------------------------------------------------------
(* Screens and the latest features: AnswersReplay.                         *)

\* The rows of new that old lacks are only known after t, or repeat one.
Extends(old, new, t) ==
    /\ old \subseteq new /\ new \subseteq Snapshot
    /\ \A r \in new \ old : r.available > t \/ \E q \in old : r = [q EXCEPT !.run = r.run]

\* Rows of the same content agree on everything but the run.
LEMMA SameContent ==
  ASSUME NEW r \in Snapshot, NEW q \in Snapshot, Content(r) = Content(q)
  PROVE  /\ r.security = q.security /\ r.name = q.name /\ r.version = q.version
         /\ r.config = q.config /\ r.value = q.value
         /\ r.effective = q.effective /\ r.available = q.available
         /\ r.calculated = q.calculated
<1>1. /\ Content(r).security = r.security /\ Content(q).security = q.security
      /\ Content(r).name = r.name /\ Content(q).name = q.name
      /\ Content(r).version = r.version /\ Content(q).version = q.version
      /\ Content(r).config = r.config /\ Content(q).config = q.config
      /\ Content(r).value = r.value /\ Content(q).value = q.value
      /\ Content(r).effective = r.effective /\ Content(q).effective = q.effective
      /\ Content(r).available = r.available /\ Content(q).available = q.available
      /\ Content(r).calculated = r.calculated /\ Content(q).calculated = q.calculated
  BY DEF Content, Snapshot
<1>2. QED
  BY <1>1

\* A repeated row has the content of the first.
LEMMA RepeatsContent ==
  ASSUME NEW r \in Snapshot, NEW q \in Snapshot, r = [q EXCEPT !.run = r.run]
  PROVE  Content(r) = Content(q)
BY DEF Content, Snapshot

(* Rows that repeat others change neither what the latest ones say nor     *)
(* whether they agree.                                                     *)
LEMMA LatestRepeats ==
  ASSUME NEW T \in SUBSET Snapshot, NEW S \in SUBSET T,
         \A r \in T : \E q \in S : Content(r) = Content(q)
  PROVE  /\ { Content(r) : r \in Latest(T) } = { Content(r) : r \in Latest(S) }
         /\ Ambiguous(T) = Ambiguous(S)
<1>1. \A a, b, c \in Snapshot : Content(a) = Content(b) =>
        (Supersedes(a, c) <=> Supersedes(b, c)) /\ (Supersedes(c, a) <=> Supersedes(c, b))
  BY SameContent DEF Supersedes
<1>2. Latest(S) \subseteq Latest(T)
  <2> SUFFICES ASSUME NEW r \in Latest(S), NEW q \in T PROVE r \in T /\ ~ Supersedes(q, r)
    BY DEF Latest
  <2>1. r \in S /\ \A p \in S : ~ Supersedes(p, r)
    BY DEF Latest
  <2>2. PICK p \in S : Content(q) = Content(p)
    OBVIOUS
  <2>3. r \in Snapshot /\ q \in Snapshot /\ p \in Snapshot
    BY <2>1
  <2>4. QED
    BY <1>1, <2>1, <2>2, <2>3
<1>3. \A r \in Latest(T) : \E q \in Latest(S) : Content(r) = Content(q)
  <2> SUFFICES ASSUME NEW r \in Latest(T) PROVE \E q \in Latest(S) : Content(r) = Content(q)
    OBVIOUS
  <2>1. r \in T /\ \A p \in T : ~ Supersedes(p, r)
    BY DEF Latest
  <2>2. PICK q \in S : Content(r) = Content(q)
    BY <2>1
  <2>3. r \in Snapshot /\ q \in Snapshot /\ \A p \in S : p \in Snapshot /\ p \in T
    BY <2>1
  <2>4. \A p \in S : ~ Supersedes(p, q)
    BY <1>1, <2>1, <2>2, <2>3
  <2>5. QED
    BY <2>2, <2>4 DEF Latest
<1>4. QED
  BY <1>2, <1>3 DEF Ambiguous

\* So the answers of both reads are the same at every cutoff up to t.
LEMMA CandidatesRepeat ==
  ASSUME NEW old, NEW new, NEW t \in Times, Extends(old, new, t), NEW u \in Times, u <= t,
         NEW s, NEW n, NEW version, NEW config
  PROVE  LET before == Candidates(old, s, n, version, config, u)
             after == Candidates(new, s, n, version, config, u)
         IN  /\ { Content(r) : r \in Latest(after) } = { Content(r) : r \in Latest(before) }
             /\ Ambiguous(after) = Ambiguous(before)
<1> DEFINE before == Candidates(old, s, n, version, config, u)
           after == Candidates(new, s, n, version, config, u)
<1>1. after \in SUBSET Snapshot /\ before \in SUBSET after
  BY DEF Candidates, Extends
<1>2. ASSUME NEW r \in after PROVE \E q \in before : Content(r) = Content(q)
  <2>1. r \in new /\ r \in Snapshot /\ r.available <= u
    BY <1>1 DEF Candidates
  <2>2. CASE r \in old
    BY <2>2 DEF Candidates
  <2>3. CASE r \notin old
    <3>1. r.available \in Int /\ u \in Int /\ t \in Int
      BY <2>1, PanelAssumption DEF Snapshot, Times
    <3>2. PICK q \in old : r = [q EXCEPT !.run = r.run]
      BY <2>1, <2>3, <3>1 DEF Extends
    <3>3. q \in Snapshot
      BY DEF Extends
    <3>4. Content(r) = Content(q)
      BY <2>1, <3>2, <3>3, RepeatsContent
    <3>5. q \in before
      BY <2>1, <3>3, <3>4, SameContent DEF Candidates
    <3>6. QED
      BY <3>4, <3>5
  <2>4. QED
    BY <2>2, <2>3
<1> HIDE DEF before, after
<1>3. QED
  BY <1>1, <1>2, LatestRepeats DEF before, after

LEMMA KnownRepeat ==
  ASSUME NEW old, NEW new, NEW t \in Times, Extends(old, new, t), NEW s, NEW n
  PROVE  /\ LatestAsOf(new, s, n, t) = LatestAsOf(old, s, n, t)
         /\ LatestRefused(new, s, n, t) = LatestRefused(old, s, n, t)
<1> DEFINE before == Known(old, s, n, t, t)
           after == Known(new, s, n, t, t)
<1>1. after \in SUBSET Snapshot /\ before \in SUBSET after
  BY DEF Known, Extends
<1>2. ASSUME NEW r \in after PROVE \E q \in before : Content(r) = Content(q)
  <2>1. r \in new /\ r \in Snapshot /\ r.available <= t
    BY <1>1 DEF Known
  <2>2. CASE r \in old
    BY <2>2 DEF Known
  <2>3. CASE r \notin old
    <3>1. r.available \in Int /\ t \in Int
      BY <2>1, PanelAssumption DEF Snapshot, Times
    <3>2. PICK q \in old : r = [q EXCEPT !.run = r.run]
      BY <2>1, <2>3, <3>1 DEF Extends
    <3>3. q \in Snapshot
      BY DEF Extends
    <3>4. Content(r) = Content(q)
      BY <2>1, <3>2, <3>3, RepeatsContent
    <3>5. q \in before
      BY <2>1, <3>3, <3>4, SameContent DEF Known
    <3>6. QED
      BY <3>4, <3>5
  <2>4. QED
    BY <2>2, <2>3
<1> HIDE DEF before, after
<1>3. QED
  BY <1>1, <1>2, LatestRepeats DEF before, after, LatestAsOf, LatestRefused

(* A panel that is taken up to t is the same, and so is what is made of    *)
(* it: the frame of a screen, its evaluation, and a history of them.       *)
LEMMA PanelRepeats ==
  ASSUME NEW old, NEW new, NEW t \in Times, Extends(old, new, t), NEW u \in Times, u <= t,
         NEW versions, NEW config
  PROVE  /\ PanelAsOf(new, versions, config, u) = PanelAsOf(old, versions, config, u)
         /\ PanelRefused(new, versions, config, u) = PanelRefused(old, versions, config, u)
<1> DEFINE Of(rows) == { Content(r) : r \in Latest(rows) }
           Pair(stored, s, n) == Candidates(stored, s, n, versions[n], config, u)
<1>1. \A s \in Securities, n \in DOMAIN versions :
        /\ Of(Pair(new, s, n)) = Of(Pair(old, s, n))
        /\ Ambiguous(Pair(new, s, n)) = Ambiguous(Pair(old, s, n))
  BY CandidatesRepeat
<1>2. ASSUME NEW stored, NEW x
      PROVE  x \in PanelAsOf(stored, versions, config, u)
               <=> \E s \in Securities, n \in DOMAIN versions : x \in Of(Pair(stored, s, n))
  <2> DEFINE Chosen(s, n) == Latest(Pair(stored, s, n))
             All == UNION { Chosen(s, n) : s \in Securities, n \in DOMAIN versions }
  <2>1. PanelAsOf(stored, versions, config, u) = { Content(r) : r \in All }
    BY DEF PanelAsOf
  <2>2. \A r : r \in All <=> \E s \in Securities, n \in DOMAIN versions : r \in Chosen(s, n)
    <3> HIDE DEF Chosen
    <3>1. QED
      OBVIOUS
  <2>3. \A s, n : x \in Of(Pair(stored, s, n)) <=> \E r \in Chosen(s, n) : x = Content(r)
    OBVIOUS
  <2> HIDE DEF Chosen, All, Of, Pair
  <2>4. QED
    BY <2>1, <2>2, <2>3
<1>3. ASSUME NEW stored
      PROVE  PanelRefused(stored, versions, config, u)
               = \E s \in Securities, n \in DOMAIN versions : Ambiguous(Pair(stored, s, n))
  BY DEF PanelRefused
<1> HIDE DEF Of, Pair
<1>4. PanelAsOf(new, versions, config, u) = PanelAsOf(old, versions, config, u)
  <2>1. \A x : x \in PanelAsOf(new, versions, config, u)
                 <=> x \in PanelAsOf(old, versions, config, u)
    BY <1>1, <1>2
  <2>2. QED
    BY <2>1
<1>5. PanelRefused(new, versions, config, u) = PanelRefused(old, versions, config, u)
  BY <1>1, <1>3
<1>6. QED
  BY <1>4, <1>5

LEMMA EvaluateRepeats ==
  ASSUME NEW old, NEW new, NEW t \in Times, Extends(old, new, t), NEW u \in Times, u <= t,
         NEW d
  PROVE  Evaluate(new, d, u) = Evaluate(old, d, u)
<1> DEFINE value(found) == IF found = {} THEN None ELSE (CHOOSE r \in found : TRUE).value
           Framed(panel) ==
             [s \in Securities |-> [n \in ReferencedFeatures(d) |->
                value({ r \in panel : r.security = s /\ r.name = n })]]
           Evaluated(frame, refused) ==
             IF \/ ~d.enabled \/ ~ValidPins(d)
                \/ refused
                \/ d.missing = "fail" /\ Excluded(frame) # {}
             THEN Refused
             ELSE [refused |-> FALSE, matches |-> Ranked(d, frame), excluded |-> Excluded(frame)]
<1>1. ASSUME NEW stored PROVE Frame(stored, d, u) = Framed(PanelAsOf(stored, d.versions, d.config, u))
  BY DEF Frame
<1>2. ASSUME NEW stored
      PROVE  Evaluate(stored, d, u)
               = Evaluated(Frame(stored, d, u), PanelRefused(stored, d.versions, d.config, u))
  BY DEF Evaluate
<1> HIDE DEF Framed, Evaluated
<1>3. /\ PanelAsOf(new, d.versions, d.config, u) = PanelAsOf(old, d.versions, d.config, u)
      /\ PanelRefused(new, d.versions, d.config, u) = PanelRefused(old, d.versions, d.config, u)
  BY PanelRepeats
<1>4. Frame(new, d, u) = Frame(old, d, u)
  BY <1>1, <1>3
<1>5. QED
  BY <1>2, <1>3, <1>4

\* Of increasing cutoffs the last one is the latest.
LEMMA LastCutoff ==
  ASSUME NEW cutoffs \in Seq(Times), \A i \in 1..(Len(cutoffs) - 1) : cutoffs[i] < cutoffs[i + 1],
         NEW k \in DOMAIN cutoffs
  PROVE  cutoffs[k] <= cutoffs[Len(cutoffs)]
<1> DEFINE n == Len(cutoffs)
           Later == { i \in 1..n : cutoffs[i] > cutoffs[n] }
<1>1. n \in Nat /\ DOMAIN cutoffs = 1..n /\ \A i \in 1..n : cutoffs[i] \in Int
  BY PanelAssumption DEF Times
<1>2. /\ \A i \in 1..(n - 1) : cutoffs[i] < cutoffs[i + 1]
      /\ k \in 1..n
  BY <1>1
<1> HIDE DEF n
<1>3. ASSUME Later # {} PROVE FALSE
  <2>1. Later \in SUBSET (0..n)
    BY <1>1
  <2>2. PICK m \in Later : \A i \in Later : m >= i
    BY <1>1, <1>3, <2>1, Largest
  <2>3. m \in 1..n /\ cutoffs[m] > cutoffs[n]
    OBVIOUS
  <2>4. m # n /\ n \in 1..n
    BY <1>1, <2>3
  <2>5. m \in 1..(n - 1) /\ m + 1 \in 1..n
    BY <1>1, <2>3, <2>4
  <2>6. cutoffs[m + 1] > cutoffs[n]
    BY <1>1, <1>2, <2>3, <2>4, <2>5
  <2>7. QED
    BY <2>2, <2>3, <2>5, <2>6
<1>4. QED
  <2>1. n \in 1..n
    BY <1>1, <1>2
  <2>2. ~ (cutoffs[k] > cutoffs[n])
    BY <1>2, <1>3
  <2>3. cutoffs[k] <= cutoffs[n]
    BY <1>1, <1>2, <2>1, <2>2
  <2>4. QED
    BY <2>3 DEF n

LEMMA HistoryRepeats ==
  ASSUME NEW old, NEW new, NEW cutoffs \in Seq(Times) \ {<<>>},
         Extends(old, new, cutoffs[Len(cutoffs)]), NEW d
  PROVE  EvaluateHistory(new, d, cutoffs) = EvaluateHistory(old, d, cutoffs)
<1> DEFINE answers(stored) == [i \in DOMAIN cutoffs |-> Evaluate(stored, d, cutoffs[i])]
           Disordered == \E i \in 1..(Len(cutoffs) - 1) : cutoffs[i] >= cutoffs[i + 1]
           Answered(given) ==
             IF \/ Disordered
                \/ \E i \in DOMAIN cutoffs : given[i].refused
             THEN <<>>
             ELSE given
<1>1. ASSUME NEW stored PROVE EvaluateHistory(stored, d, cutoffs) = Answered(answers(stored))
  BY DEF EvaluateHistory
<1>2. CASE Disordered
  BY <1>1, <1>2
<1>3. CASE ~ Disordered
  <2>1. /\ Len(cutoffs) \in Nat \ {0} /\ DOMAIN cutoffs = 1..Len(cutoffs)
        /\ \A i \in 1..Len(cutoffs) : cutoffs[i] \in Times /\ cutoffs[i] \in Int
    BY PanelAssumption DEF Times
  <2>2. \A i \in 1..(Len(cutoffs) - 1) : cutoffs[i] < cutoffs[i + 1]
    BY <1>3, <2>1
  <2>3. \A i \in DOMAIN cutoffs : cutoffs[i] <= cutoffs[Len(cutoffs)]
    BY <2>2, LastCutoff
  <2>4. cutoffs[Len(cutoffs)] \in Times
    BY <2>1
  <2>5. \A i \in DOMAIN cutoffs : Evaluate(new, d, cutoffs[i]) = Evaluate(old, d, cutoffs[i])
    BY <2>1, <2>3, <2>4, EvaluateRepeats
  <2>6. answers(new) = answers(old)
    BY <2>5
  <2> HIDE DEF Answered, answers
  <2>7. QED
    BY <1>1, <2>6
<1>4. QED
  BY <1>2, <1>3

(* Rows whose inputs became known only after a cutoff, and rows that       *)
(* repeat what another run has stored, change no answer at it: not those   *)
(* of a history of a screen, and not a security's latest features          *)
(* (FeatureStore.panel_as_of and latest_as_of, ScreenService).             *)
THEOREM ReadsReplay == Spec => AnswersReplay
<1> DEFINE Replay ==
      /\ \A d \in Definitions, cutoffs \in Histories :
           (\A r \in Added : r.available > cutoffs[Len(cutoffs)] \/ Repeats(r)) =>
             EvaluateHistory(features', d, cutoffs) = EvaluateHistory(features, d, cutoffs)
      /\ \A s \in Securities, n \in FeatureNames, t \in Times :
           (\A r \in Added : r.available > t \/ Repeats(r)) =>
             /\ LatestAsOf(features', s, n, t) = LatestAsOf(features, s, n, t)
             /\ LatestRefused(features', s, n, t) = LatestRefused(features, s, n, t)
<1>1. TypeOK /\ TypeOK' /\ [Next]_pitVars => [Replay]_panelVars
  <2> SUFFICES ASSUME TypeOK, TypeOK', [Next]_pitVars PROVE Replay
    OBVIOUS
  <2>1. features \subseteq features' /\ features' \subseteq Snapshot
    BY FeaturesGrow DEF TypeOK, PanelTypeOK
  <2>2. \A t : (\A r \in Added : r.available > t \/ Repeats(r)) => Extends(features, features', t)
    BY <2>1 DEF Added, Repeats, Extends
  <2>3. \A d \in Definitions, cutoffs \in Histories :
          (\A r \in Added : r.available > cutoffs[Len(cutoffs)] \/ Repeats(r)) =>
            EvaluateHistory(features', d, cutoffs) = EvaluateHistory(features, d, cutoffs)
    BY <2>2, HistoryRepeats, ScreenAssumption
  <2>4. \A s \in Securities, n \in FeatureNames, t \in Times :
          (\A r \in Added : r.available > t \/ Repeats(r)) =>
            /\ LatestAsOf(features', s, n, t) = LatestAsOf(features, s, n, t)
            /\ LatestRefused(features', s, n, t) = LatestRefused(features, s, n, t)
    BY <2>2, KnownRepeat
  <2>5. QED
    BY <2>3, <2>4
<1>2. QED
  BY <1>1, TypeCorrect, PTL DEF Spec, AnswersReplay

-----------------------------------------------------------------------------
(* The backtest: NoLookAhead.                                              *)

\* NewestOf picks the newest of instants.
LEMMA NewestIsLast ==
  ASSUME NEW S \in SUBSET Times, S # {}
  PROVE  NewestOf(S) \in S /\ \A u \in S : u <= NewestOf(S)
<1>1. PICK m \in S : \A u \in S : m >= u
  BY PanelAssumption, Largest DEF Times
<1>2. m \in Int /\ \A u \in S : u \in Int
  BY PanelAssumption DEF Times
<1>3. \A u \in S : u <= m
  BY <1>1, <1>2
<1>4. QED
  BY <1>3 DEF NewestOf

\* The cross-sections up to t are the same.
LEMMA CrossSectionsRepeat ==
  ASSUME NEW old, NEW new, NEW t \in Times, Extends(old, new, t), NEW spec \in Specs,
         NEW u \in Decisions, u <= t
  PROVE  CrossSections(new, spec)[u] = CrossSections(old, spec)[u]
<1> DEFINE versions == spec.feature :> spec.version
           Valued(panel) == { r \in panel : r.value # None }
<1>1. u \in Times
  BY BacktestAssumption
<1>2. ASSUME NEW stored
      PROVE  CrossSections(stored, spec)[u] = Valued(PanelAsOf(stored, versions, spec.config, u))
  BY DEF CrossSections
<1> HIDE DEF versions, Valued
<1>3. PanelAsOf(new, versions, spec.config, u) = PanelAsOf(old, versions, spec.config, u)
  BY <1>1, PanelRepeats
<1>4. QED
  BY <1>2, <1>3

(* If no selected decision is lost, the decisions up to t are selected as  *)
(* before: one that is the last of its period now was so then, as the last *)
(* one then is still selected.                                             *)
LEMMA SelectionRepeats ==
  ASSUME NEW old, NEW new, NEW t \in Times, NEW spec \in Specs,
         \A u \in Decisions : u <= t => new[u] = old[u],
         Selected(spec, old) \subseteq Selected(spec, new),
         NEW u \in Decisions, u <= t
  PROVE  u \in Selected(spec, new) <=> u \in Selected(spec, old)
<1>1. ASSUME u \in Selected(spec, new) PROVE u \in Selected(spec, old)
  <2>1. u \in Decided(spec, new)
    BY <1>1 DEF Selected
  <2>2. u \in Decided(spec, old)
    BY <2>1 DEF Decided
  <2>3. CASE spec.rebalance = "daily"
    BY <2>2, <2>3 DEF Selected
  <2>4. CASE spec.rebalance # "daily"
    <3>1. \A v \in Decided(spec, new) : Period[v] = Period[u] => v <= u
      BY <1>1, <2>4 DEF Selected
    <3>2. \A v \in Decided(spec, old) : v \in Decisions /\ v \in Times /\ v \in Int
      <4>1. \A v \in Decisions : v \in Times
        BY BacktestAssumption
      <4>2. Times \subseteq Int
        BY PanelAssumption DEF Times
      <4>3. QED
        BY <4>1, <4>2 DEF Decided
    <3>3. u \in Int /\ t \in Int
      BY <2>2, <3>2, PanelAssumption DEF Times
    <3> DEFINE Same == { v \in Decided(spec, old) : Period[v] = Period[u] }
    <3>4. Same \in SUBSET Times /\ u \in Same
      BY <2>2, <3>2
    <3>5. PICK m \in Same : \A v \in Same : v <= m
      BY <3>4, NewestIsLast
    <3>6. m \in Decided(spec, old) /\ Period[m] = Period[u]
      OBVIOUS
    <3>7. \A v \in Decided(spec, old) : Period[v] = Period[m] => v <= m
      BY <3>5, <3>6
    <3>8. m \in Selected(spec, old)
      BY <2>4, <3>6, <3>7 DEF Selected
    <3>9. m \in Decided(spec, new)
      BY <3>8 DEF Selected
    <3>10. m <= u /\ u <= m
      BY <3>1, <3>4, <3>5, <3>6, <3>9
    <3>11. m = u
      BY <3>2, <3>3, <3>6, <3>10
    <3>12. QED
      BY <3>8, <3>11
  <2>5. QED
    BY <2>3, <2>4
<1>2. QED
  BY <1>1

\* The targets up to t are then the same, and so is what they carry forward.
LEMMA InForceRepeats ==
  ASSUME NEW old, NEW new, NEW t \in Times, Extends(old, new, t), NEW spec \in Specs,
         Selected(spec, CrossSections(old, spec)) \subseteq Selected(spec, CrossSections(new, spec)),
         NEW w \in Rows(spec), w <= t
  PROVE  InForce(new, spec)[w] = InForce(old, spec)[w]
<1> DEFINE frame(stored) == CrossSections(stored, spec)
           targets(stored) == Targets(stored, spec)
           aligned(stored) == Restrict(targets(stored), DOMAIN targets(stored) \cap Rows(spec))
           earlier(stored) == { u \in DOMAIN aligned(stored) : u <= w }
<1>1. w \in Times /\ Rows(spec) \subseteq Times
  BY BacktestAssumption DEF Rows
<1>2. \A u \in Decisions : u \in Times
  BY BacktestAssumption
<1>3. \A u \in Decisions : u <= t => frame(new)[u] = frame(old)[u]
  BY CrossSectionsRepeat
<1>4. ASSUME NEW stored
      PROVE  /\ DOMAIN targets(stored)
                  = { u \in Selected(spec, frame(stored)) : ~ Skipped(spec, frame(stored)[u]) }
             /\ \A u \in DOMAIN targets(stored) :
                  targets(stored)[u] = Target(spec, frame(stored)[u])
             /\ DOMAIN targets(stored) \subseteq Decisions
  <2>1. Selected(spec, frame(stored)) \subseteq Decisions
    BY DEF Selected, Decided
  <2>2. QED
    BY <2>1 DEF Targets
<1>5. ASSUME NEW stored
      PROVE  /\ DOMAIN aligned(stored) = DOMAIN targets(stored) \cap Rows(spec)
             /\ \A u \in DOMAIN aligned(stored) : aligned(stored)[u] = targets(stored)[u]
  BY DEF Restrict
<1>6. \A u \in Decisions : u <= t =>
        (u \in Selected(spec, frame(new)) <=> u \in Selected(spec, frame(old)))
  <2> HIDE DEF frame
  <2>1. Selected(spec, frame(old)) \subseteq Selected(spec, frame(new))
    BY DEF frame
  <2>2. QED
    BY <1>3, <2>1, SelectionRepeats
<1> HIDE DEF targets, frame
<1>7. \A u \in Decisions : u <= t =>
        /\ u \in DOMAIN targets(new) <=> u \in DOMAIN targets(old)
        /\ u \in DOMAIN targets(new) => targets(new)[u] = targets(old)[u]
  <2> SUFFICES ASSUME NEW u \in Decisions, u <= t
               PROVE  /\ u \in DOMAIN targets(new) <=> u \in DOMAIN targets(old)
                      /\ u \in DOMAIN targets(new) => targets(new)[u] = targets(old)[u]
    OBVIOUS
  <2>1. frame(new)[u] = frame(old)[u]
    BY <1>3
  <2>2. Skipped(spec, frame(new)[u]) <=> Skipped(spec, frame(old)[u])
    BY <2>1 DEF Skipped
  <2>3. u \in DOMAIN targets(new) <=> u \in DOMAIN targets(old)
    BY <1>4, <1>6, <2>2
  <2>4. u \in DOMAIN targets(new) => targets(new)[u] = targets(old)[u]
    BY <1>4, <2>1, <2>3
  <2>5. QED
    BY <2>3, <2>4
<1>8. \A u \in Decisions : u <= w => u <= t
  BY <1>1, <1>2, PanelAssumption DEF Times
<1> HIDE DEF aligned
<1>9. earlier(new) = earlier(old)
  BY <1>4, <1>5, <1>7, <1>8
<1>10. earlier(old) \in SUBSET Times
  BY <1>1, <1>5
<1>11. \A u \in earlier(old) : aligned(new)[u] = aligned(old)[u]
  BY <1>4, <1>5, <1>7, <1>8, <1>9
<1>12. ASSUME NEW stored PROVE InForce(stored, spec)[w] = CarriedForward(aligned(stored), w)
  BY DEF InForce, aligned, targets
<1>13. ASSUME NEW stored
       PROVE  CarriedForward(aligned(stored), w)
                = IF earlier(stored) = {} THEN Flat ELSE aligned(stored)[NewestOf(earlier(stored))]
  BY DEF CarriedForward
<1> HIDE DEF earlier
<1>14. earlier(old) # {} => NewestOf(earlier(old)) \in earlier(old)
  BY <1>10, NewestIsLast
<1>15. CarriedForward(aligned(new), w) = CarriedForward(aligned(old), w)
  BY <1>9, <1>11, <1>13, <1>14
<1>16. QED
  BY <1>12, <1>15

(* The weights of a row are those in force at the row before it.           *)
LEMMA ExecutedRepeats ==
  ASSUME NEW old, NEW new, NEW t \in Times, Extends(old, new, t), NEW spec \in Specs,
         Selected(spec, CrossSections(old, spec)) \subseteq Selected(spec, CrossSections(new, spec)),
         NEW u \in Rows(spec), \A v \in Rows(spec) : v < u => v <= t
  PROVE  Executed(new, spec)[u] = Executed(old, spec)[u]
<1> DEFINE before == { v \in Rows(spec) : v < u }
<1>1. before \in SUBSET Times
  BY BacktestAssumption DEF Rows
<1>2. ASSUME NEW stored
      PROVE  Executed(stored, spec)[u]
               = IF before = {} THEN Flat ELSE InForce(stored, spec)[NewestOf(before)]
  BY DEF Executed
<1>3. ASSUME before # {}
      PROVE  InForce(new, spec)[NewestOf(before)] = InForce(old, spec)[NewestOf(before)]
  <2>1. NewestOf(before) \in before
    BY <1>1, <1>3, NewestIsLast
  <2>2. NewestOf(before) \in Rows(spec) /\ NewestOf(before) <= t
    BY <2>1
  <2>3. QED
    BY <2>2, InForceRepeats
<1> HIDE DEF before
<1>4. QED
  BY <1>2, <1>3

(* No look-ahead in the backtest: what becomes known after an instant      *)
(* leaves the weights up to the first row after it as they are, unless the *)
(* last decision of a period replaces an earlier one                       *)
(* (run_cross_sectional_backtest).                                         *)
THEOREM BacktestReplays == Spec => NoLookAhead
<1> DEFINE Replay ==
      \A spec \in Specs :
         (~BacktestRefused(features, spec) /\ ~BacktestRefused(features', spec)) =>
           LET old == Executed(features, spec)
               new == Executed(features', spec)
               selected == Selected(spec, CrossSections(features, spec))
               reselected == Selected(spec, CrossSections(features', spec))
           IN  \A t \in Times : (\A r \in Added : r.available > t) =>
                 \/ selected \ reselected # {}
                 \/ \A u \in Rows(spec) :
                      (\A v \in Rows(spec) : v < u => v <= t) => new[u] = old[u]
<1>1. TypeOK /\ TypeOK' /\ [Next]_pitVars => [Replay]_panelVars
  <2> SUFFICES ASSUME TypeOK, TypeOK', [Next]_pitVars PROVE Replay
    OBVIOUS
  <2>1. features \subseteq features' /\ features' \subseteq Snapshot
    BY FeaturesGrow DEF TypeOK, PanelTypeOK
  <2>2. \A t : (\A r \in Added : r.available > t) => Extends(features, features', t)
    BY <2>1 DEF Added, Extends
  <2>3. QED
    BY <2>2, ExecutedRepeats
<1>2. QED
  BY <1>1, TypeCorrect, PTL DEF Spec, NoLookAhead

-----------------------------------------------------------------------------
(* The vendor's tables: VendorAnswersReplay.                               *)

\* A table that rows have been appended to.
Grown(old, new) ==
    /\ Len(old) \in Nat /\ DOMAIN old = 1..Len(old)
    /\ Len(new) \in Nat /\ DOMAIN new = 1..Len(new)
    /\ Len(old) <= Len(new)
    /\ \A i \in 1..Len(old) : new[i] = old[i]
    /\ \A i \in 1..Len(new) : new[i].available \in Int

\* The rows that are appended are only known after t.
GrownAfter(old, new, t) ==
    Grown(old, new) /\ \A i \in DOMAIN new : i > Len(old) => new[i].available > t

\* The newest row of every series, and of every contributor to one.
BySeries(table, u) == NewestRows(table, SeriesOf, u)

ByAuthor(table, u) == NewestRows(table, ByContributor, u)

\* The same, with the positions of the rows named.
LEMMA NewestBySeries ==
  ASSUME NEW table, NEW u
  PROVE  BySeries(table, u) =
           { table[i] : i \in { k \in DOMAIN table :
               /\ table[k].available <= u
               /\ \A j \in DOMAIN table :
                    table[j].available <= u /\ table[j].series = table[k].series =>
                      ~ Newer(table, j, k) } }
BY DEF BySeries, NewestRows, SeriesOf

LEMMA NewestByAuthor ==
  ASSUME NEW table, NEW u
  PROVE  ByAuthor(table, u) =
           { table[i] : i \in { k \in DOMAIN table :
               /\ table[k].available <= u
               /\ \A j \in DOMAIN table :
                    (/\ table[j].available <= u
                     /\ <<table[j].series, table[j].contributor>>
                          = <<table[k].series, table[k].contributor>>) =>
                      ~ Newer(table, j, k) } }
BY DEF ByAuthor, NewestRows, ByContributor

\* A table is read up to t as if nothing had been appended.
LEMMA NewestRepeat ==
  ASSUME NEW t \in Int, NEW old, NEW new, GrownAfter(old, new, t), NEW u \in Int, u <= t
  PROVE  BySeries(new, u) = BySeries(old, u) /\ ByAuthor(new, u) = ByAuthor(old, u)
<1>1. \A i : i \in DOMAIN new /\ new[i].available <= u <=> i \in DOMAIN old /\ old[i].available <= u
  BY DEF GrownAfter, Grown
<1>2. \A i \in DOMAIN old : new[i] = old[i]
  BY DEF GrownAfter, Grown
<1>3. \A i, j \in DOMAIN old : Newer(new, j, i) <=> Newer(old, j, i)
  BY <1>2 DEF Newer
<1>4. BySeries(new, u) = BySeries(old, u)
  <2> DEFINE Top(table) == { k \in DOMAIN table :
               /\ table[k].available <= u
               /\ \A j \in DOMAIN table :
                    table[j].available <= u /\ table[j].series = table[k].series =>
                      ~ Newer(table, j, k) }
  <2>1. Top(new) = Top(old)
    BY <1>1, <1>2, <1>3
  <2>2. \A i \in Top(old) : new[i] = old[i]
    BY <1>2
  <2>3. \A table : BySeries(table, u) = { table[i] : i \in Top(table) }
    BY NewestBySeries
  <2> HIDE DEF Top
  <2>4. { new[i] : i \in Top(new) } = { old[i] : i \in Top(old) }
    BY <2>1, <2>2
  <2>5. QED
    BY <2>3, <2>4
<1>5. ByAuthor(new, u) = ByAuthor(old, u)
  <2> DEFINE Top(table) == { k \in DOMAIN table :
               /\ table[k].available <= u
               /\ \A j \in DOMAIN table :
                    (/\ table[j].available <= u
                     /\ <<table[j].series, table[j].contributor>>
                          = <<table[k].series, table[k].contributor>>) =>
                      ~ Newer(table, j, k) }
  <2>1. Top(new) = Top(old)
    BY <1>1, <1>2, <1>3
  <2>2. \A i \in Top(old) : new[i] = old[i]
    BY <1>2
  <2>3. \A table : ByAuthor(table, u) = { table[i] : i \in Top(table) }
    BY NewestByAuthor
  <2> HIDE DEF Top
  <2>4. { new[i] : i \in Top(new) } = { old[i] : i \in Top(old) }
    BY <2>1, <2>2
  <2>5. QED
    BY <2>3, <2>4
<1>6. QED
  BY <1>4, <1>5

\* The answers from the newest estimates and the newest snapshots.
LEMMA NewestAnswersRepeat ==
  ASSUME NEW t \in Int, NEW old, NEW new, GrownAfter(old, new, t)
  PROVE  /\ Revisions(new, t) = Revisions(old, t)
         /\ Breadth(new, t) = Breadth(old, t)
         /\ ShortInterest(new, t) = ShortInterest(old, t)
<1>1. t - Lookback \in Int /\ t - Lookback <= t /\ t <= t
  BY VendorAssumption
<1>2. /\ BySeries(new, t) = BySeries(old, t)
      /\ BySeries(new, t - Lookback) = BySeries(old, t - Lookback)
      /\ ByAuthor(new, t) = ByAuthor(old, t)
      /\ ByAuthor(new, t - Lookback) = ByAuthor(old, t - Lookback)
  BY <1>1, NewestRepeat
<1>3. Revisions(new, t) = Revisions(old, t)
  <2> DEFINE Revised(newest, ago) ==
               { [series |-> r.series, now |-> r.value, ago |-> ValueIn(ago, r.series),
                  revision |-> IF \/ Missing \in {r.value, ValueIn(ago, r.series)}
                                  \/ ValueIn(ago, r.series) = 0
                               THEN Missing
                               ELSE <<r.value - ValueIn(ago, r.series), ValueIn(ago, r.series)>>] :
                 r \in newest }
  <2>1. ASSUME NEW table
        PROVE  Revisions(table, t) = Revised(BySeries(table, t), BySeries(table, t - Lookback))
    BY DEF Revisions, LatestEstimates, BySeries
  <2> HIDE DEF Revised
  <2>2. QED
    BY <1>2, <2>1
<1>4. Breadth(new, t) = Breadth(old, t)
  <2> DEFINE Pairs(newest, ago) ==
               { p \in newest \X ago : /\ ByContributor(p[1]) = ByContributor(p[2])
                                       /\ Missing \notin {p[1].value, p[2].value} }
             Counted(own, series, raises, cuts) ==
               [series |-> series, raises |-> raises, cuts |-> cuts, paired |-> Cardinality(own),
                breadth |-> IF raises + cuts = 0 THEN Missing
                            ELSE <<raises - cuts, raises + cuts>>]
             Own(paired, series) == { p \in paired : p[1].series = series }
             Broad(paired) ==
               { Counted(Own(paired, series), series,
                         Cardinality({ p \in Own(paired, series) : p[1].value > p[2].value }),
                         Cardinality({ p \in Own(paired, series) : p[1].value < p[2].value })) :
                 series \in { p[1].series : p \in paired } }
  <2>1. ASSUME NEW table
        PROVE  Paired(table, t) = Pairs(ByAuthor(table, t), ByAuthor(table, t - Lookback))
    BY DEF Paired, ByAuthor
  <2>2. ASSUME NEW table PROVE Breadth(table, t) = Broad(Paired(table, t))
    BY DEF Breadth
  <2> HIDE DEF Pairs, Broad
  <2>3. Paired(new, t) = Paired(old, t)
    BY <1>2, <2>1
  <2>4. QED
    BY <2>2, <2>3
<1>5. ShortInterest(new, t) = ShortInterest(old, t)
  <2> DEFINE Of(newest) ==
               { LET percent == IF r.percent # Missing /\ r.percent > WholeFloat THEN Missing
                                ELSE r.percent
                     numbers == <<r.short, percent, r.cover, r.prior>>
                     known == Cardinality({ i \in 1..4 : numbers[i] # Missing })
                 IN  [series |-> r.series, numbers |-> numbers,
                      change |-> IF Missing \in {r.short, r.prior} THEN Missing
                                 ELSE r.short - r.prior,
                      status |-> IF known = 0 THEN "UNKNOWN" ELSE IF known < 4 THEN "PARTIAL"
                                 ELSE "OK"] :
                 r \in newest }
  <2>1. ASSUME NEW table PROVE ShortInterest(table, t) = Of(BySeries(table, t))
    BY DEF ShortInterest, LatestOwnership, BySeries
  <2> HIDE DEF Of
  <2>2. QED
    BY <1>2, <2>1
<1>6. QED
  BY <1>3, <1>4, <1>5

\* The answer from the transactions of the window.
LEMMA InsidersRepeat ==
  ASSUME NEW t \in Int, NEW old, NEW new, GrownAfter(old, new, t)
  PROVE  InsiderActivity(new, t) = InsiderActivity(old, t)
<1> DEFINE window(table) == { i \in DOMAIN table : table[i].available \in (t - Lookback)..t }
           classified(table) == { i \in window(table) : table[i].action # "neither" }
           valued(table, action) ==
             { i \in window(table) : table[i].action = action /\ table[i].value # Missing }
           values(table, action) == [i \in valued(table, action) |-> table[i].value]
           unvalued(table) == { i \in classified(table) : table[i].value = Missing }
           Says(of, those, none, bought, sold, buys, sells) ==
             IF bought \cup sold = {}
             THEN [status |-> "UNKNOWN", buy |-> Missing, sell |-> Missing]
             ELSE [status |-> IF none # {} \/ those # of THEN "PARTIAL" ELSE "OK",
                   buy |-> SumFunction(buys), sell |-> SumFunction(sells)]
<1>1. ASSUME NEW table
      PROVE  InsiderActivity(table, t) =
               Says(window(table), classified(table), unvalued(table), valued(table, "buy"),
                    valued(table, "sell"), values(table, "buy"), values(table, "sell"))
  BY DEF InsiderActivity
<1>2. t - Lookback \in Int
  BY VendorAssumption
<1>3. \A i \in DOMAIN old : i \in DOMAIN new /\ new[i] = old[i]
  BY DEF GrownAfter, Grown
<1>4. \A i \in DOMAIN new : new[i].available <= t => i \in DOMAIN old
  BY DEF GrownAfter, Grown
<1>5. window(new) = window(old) /\ window(old) \subseteq DOMAIN old
  BY <1>2, <1>3, <1>4
<1>6. \A i \in window(old) : new[i] = old[i]
  BY <1>3, <1>5
<1> HIDE DEF Says, window
<1>7. classified(new) = classified(old)
  BY <1>5, <1>6
<1>8. valued(new, "buy") = valued(old, "buy") /\ valued(new, "sell") = valued(old, "sell")
  BY <1>5, <1>6
<1>9. \A action : valued(old, action) \subseteq window(old)
  OBVIOUS
<1>10. unvalued(new) = unvalued(old)
  BY <1>5, <1>6
<1> HIDE DEF classified, valued, unvalued
<1>11. values(new, "buy") = values(old, "buy") /\ values(new, "sell") = values(old, "sell")
  BY <1>6, <1>8, <1>9
<1> HIDE DEF values
<1>12. QED
  BY <1>1, <1>5, <1>7, <1>8, <1>10, <1>11

(* A backfilled estimate that one known by the cutoff supersedes is not    *)
(* among the newest, and displaces none of them.                           *)
LEMMA BackfillRepeats ==
  ASSUME NEW t \in Int, NEW old, NEW new, Grown(old, new),
         \A i \in DOMAIN new : i > Len(old) =>
           \E q \in LatestEstimates(old, t) :
             q.series = new[i].series /\ q.available > new[i].available
  PROVE  LatestEstimates(new, t) = LatestEstimates(old, t)
<1> DEFINE Top(table) == { k \in DOMAIN table :
             /\ table[k].available <= t
             /\ \A j \in DOMAIN table :
                  table[j].available <= t /\ table[j].series = table[k].series =>
                    ~ Newer(table, j, k) }
<1>1. ASSUME NEW table PROVE LatestEstimates(table, t) = { table[i] : i \in Top(table) }
  BY NewestBySeries DEF LatestEstimates, BySeries
<1>2. /\ \A i \in DOMAIN old : i \in DOMAIN new /\ new[i] = old[i] /\ new[i].available \in Int
      /\ \A i \in DOMAIN new : i \in DOMAIN old \/ i > Len(old)
      /\ \A i \in DOMAIN new : i \in Int /\ new[i].available \in Int
  BY DEF Grown
<1>3. \A i, j \in DOMAIN old : Newer(new, j, i) <=> Newer(old, j, i)
  BY <1>2 DEF Newer
<1>4. ASSUME NEW i \in DOMAIN new, i > Len(old)
      PROVE  \E m \in Top(old) : /\ new[m].series = new[i].series
                                 /\ new[m].available > new[i].available
  <2>1. PICK q \in LatestEstimates(old, t) :
          q.series = new[i].series /\ q.available > new[i].available
    BY <1>4
  <2>2. PICK m \in Top(old) : q = old[m]
    BY <1>1, <2>1
  <2>3. QED
    BY <1>2, <2>1, <2>2
<1>5. Top(new) \subseteq Top(old)
  <2> SUFFICES ASSUME NEW i \in Top(new) PROVE i \in Top(old)
    OBVIOUS
  <2>1. i \in DOMAIN old
    <3> SUFFICES ASSUME i > Len(old) PROVE FALSE
      BY <1>2
    <3>1. PICK m \in Top(old) : /\ new[m].series = new[i].series
                                /\ new[m].available > new[i].available
      BY <1>4
    <3>2. m \in DOMAIN new /\ new[m].available <= t
      BY <1>2
    <3>3. Newer(new, m, i)
      BY <3>1 DEF Newer
    <3>4. QED
      BY <3>1, <3>2, <3>3
  <2>2. QED
    BY <1>2, <1>3, <2>1
<1>6. Top(old) \subseteq Top(new)
  <2> SUFFICES ASSUME NEW i \in Top(old), NEW j \in DOMAIN new,
                      new[j].available <= t, new[j].series = new[i].series
               PROVE  ~ Newer(new, j, i)
    BY <1>2
  <2>1. CASE j \in DOMAIN old
    BY <1>2, <1>3, <2>1
  <2>2. CASE j > Len(old)
    <3>1. PICK m \in Top(old) : /\ new[m].series = new[j].series
                                /\ new[m].available > new[j].available
      BY <1>4, <2>2
    <3>2. ~ Newer(old, m, i)
      BY <1>2, <3>1
    <3>3. ~ (new[m].available > new[i].available)
      BY <1>2, <3>2 DEF Newer
    <3>4. new[j].available < new[i].available
      BY <1>2, <3>1, <3>3
    <3>5. QED
      BY <1>2, <3>4 DEF Newer
  <2>3. QED
    BY <1>2, <2>1, <2>2
<1>7. \A i \in Top(old) : new[i] = old[i]
  BY <1>2
<1> HIDE DEF Top
<1>8. { new[i] : i \in Top(new) } = { old[i] : i \in Top(old) }
  BY <1>5, <1>6, <1>7
<1>9. QED
  BY <1>1, <1>8

\* Every step leaves the tables or appends to them.
LEMMA TablesGrow ==
  ASSUME TypeOK, TypeOK', [Next]_pitVars
  PROVE  /\ Grown(tables.estimates, tables'.estimates)
         /\ Grown(tables.transactions, tables'.transactions)
         /\ Grown(tables.ownership, tables'.ownership)
<1>1. /\ tables.estimates \in Seq(Estimate) /\ tables'.estimates \in Seq(Estimate)
      /\ tables.transactions \in Seq(Transaction) /\ tables'.transactions \in Seq(Transaction)
      /\ tables.ownership \in Seq(Ownership) /\ tables'.ownership \in Seq(Ownership)
  BY DEF TypeOK, Tables
<1>2. /\ \A r \in Estimate : r.available \in Int
      /\ \A r \in Transaction : r.available \in Int
      /\ \A r \in Ownership : r.available \in Int
  BY DEF Estimate, Transaction, Ownership
<1>3. ASSUME NEW R, \A r \in R : r.available \in Int, NEW old \in Seq(R), NEW batch \in Seq(R)
      PROVE  Grown(old, old \o batch) /\ Grown(old, old)
  <2>1. \A i \in 1..Len(old) : (old \o batch)[i] = old[i]
    OBVIOUS
  <2>2. old \o batch \in Seq(R) /\ Len(old) <= Len(old \o batch)
    OBVIOUS
  <2>3. \A seq \in Seq(R) : /\ Len(seq) \in Nat /\ DOMAIN seq = 1..Len(seq)
                            /\ \A i \in 1..Len(seq) : seq[i].available \in Int
    BY <1>3
  <2>4. QED
    BY <2>1, <2>2, <2>3 DEF Grown
<1>4. CASE Deliver
  <2>1. PICK batch \in Tables :
          /\ tables'.estimates = tables.estimates \o batch.estimates
          /\ tables'.transactions = tables.transactions \o batch.transactions
          /\ tables'.ownership = tables.ownership \o batch.ownership
    BY <1>4, DeliveryAppends DEF TypeOK
  <2>2. /\ batch.estimates \in Seq(Estimate) /\ batch.transactions \in Seq(Transaction)
        /\ batch.ownership \in Seq(Ownership)
    BY DEF Tables
  <2>3. QED
    BY <1>1, <1>2, <1>3, <2>1, <2>2
<1>5. CASE tables' = tables
  BY <1>1, <1>2, <1>3, <1>5
<1>6. QED
  BY <1>4, <1>5 DEF Next, pitVars

(* What a vendor delivers later changes no earlier answer: neither the     *)
(* rows that became known after the cutoff nor, in the newest estimates, a *)
(* backfilled row that an estimate known by then has superseded            *)
(* (latest_estimates_as_of and the methods that read it).                  *)
THEOREM VendorReplays == Spec => VendorAnswersReplay
<1> DEFINE Replay ==
      \A t \in Times :
         /\ (\A k \in DOMAIN tables : \A i \in Arrived(k) : tables'[k][i].available > t) =>
              VendorAnswers(tables', t) = VendorAnswers(tables, t)
         /\ (\A i \in Arrived("estimates") :
               \E q \in LatestEstimates(tables.estimates, t) :
                 /\ q.series = tables'.estimates[i].series
                 /\ q.available > tables'.estimates[i].available) =>
              LatestEstimates(tables'.estimates, t) = LatestEstimates(tables.estimates, t)
<1>1. TypeOK /\ TypeOK' /\ [Next]_pitVars => [Replay]_pitVars
  <2> SUFFICES ASSUME TypeOK, TypeOK', [Next]_pitVars, NEW t \in Times
               PROVE  /\ (\A k \in DOMAIN tables :
                            \A i \in Arrived(k) : tables'[k][i].available > t) =>
                           VendorAnswers(tables', t) = VendorAnswers(tables, t)
                      /\ (\A i \in Arrived("estimates") :
                            \E q \in LatestEstimates(tables.estimates, t) :
                              /\ q.series = tables'.estimates[i].series
                              /\ q.available > tables'.estimates[i].available) =>
                           LatestEstimates(tables'.estimates, t)
                             = LatestEstimates(tables.estimates, t)
    OBVIOUS
  <2>1. t \in Int
    BY PanelAssumption DEF Times
  <2>2. /\ Grown(tables.estimates, tables'.estimates)
        /\ Grown(tables.transactions, tables'.transactions)
        /\ Grown(tables.ownership, tables'.ownership)
    BY TablesGrow
  <2>3. DOMAIN tables = {"estimates", "transactions", "ownership"}
    BY DEF TypeOK, Tables
  <2>4. ASSUME \A k \in DOMAIN tables : \A i \in Arrived(k) : tables'[k][i].available > t
        PROVE  VendorAnswers(tables', t) = VendorAnswers(tables, t)
    <3>1. /\ GrownAfter(tables.estimates, tables'.estimates, t)
          /\ GrownAfter(tables.transactions, tables'.transactions, t)
          /\ GrownAfter(tables.ownership, tables'.ownership, t)
      BY <2>2, <2>3, <2>4 DEF Arrived, GrownAfter
    <3>2. /\ Revisions(tables'.estimates, t) = Revisions(tables.estimates, t)
          /\ Breadth(tables'.estimates, t) = Breadth(tables.estimates, t)
          /\ InsiderActivity(tables'.transactions, t) = InsiderActivity(tables.transactions, t)
          /\ ShortInterest(tables'.ownership, t) = ShortInterest(tables.ownership, t)
      BY <2>1, <3>1, NewestAnswersRepeat, InsidersRepeat
    <3>3. QED
      BY <3>2 DEF VendorAnswers
  <2>5. ASSUME \A i \in Arrived("estimates") :
                 \E q \in LatestEstimates(tables.estimates, t) :
                   /\ q.series = tables'.estimates[i].series
                   /\ q.available > tables'.estimates[i].available
        PROVE  LatestEstimates(tables'.estimates, t) = LatestEstimates(tables.estimates, t)
    <3>1. \A i \in DOMAIN tables'.estimates : i > Len(tables.estimates) =>
            \E q \in LatestEstimates(tables.estimates, t) :
              /\ q.series = tables'.estimates[i].series
              /\ q.available > tables'.estimates[i].available
      BY <2>5 DEF Arrived
    <3>2. QED
      BY <2>1, <2>2, <3>1, BackfillRepeats
  <2>6. QED
    BY <2>4, <2>5
<1>2. QED
  BY <1>1, TypeCorrect, PTL DEF Spec, VendorAnswersReplay

-----------------------------------------------------------------------------
(* The weights of the backtest: NeutralOrFlat.                             *)

\* What a fold over a function adds up.
LEMMA FoldIsSum ==
  ASSUME NEW f, IsFiniteSet(DOMAIN f), \A x \in DOMAIN f : f[x] \in Int
  PROVE  \E sum : Adds(sum, f, DOMAIN f) /\ SumFunction(f) = sum[DOMAIN f]
<1> DEFINE S == DOMAIN f
           P(sum) == sum = [T \in SUBSET S |->
                       IF T = {} THEN 0
                       ELSE LET x == CHOOSE y \in T : TRUE IN f[x] + sum[T \ {x}]]
<1>1. \A sum : P(sum) <=> IsSum(sum, f, S)
  BY DEF IsSum, Picked
<1>2. SumFunction(f) = (CHOOSE sum : P(sum))[S]
  BY DEF SumFunction, SumFunctionOnSet, FoldFunctionOnSet, MapThenFoldSet
<1> HIDE DEF P, S
<1>3. IsFiniteSet(S) /\ \A x \in S : f[x] \in Int
  BY DEF S
<1>4. P(CHOOSE sum : P(sum))
  BY <1>1, <1>3, SumExists
<1>5. Adds(CHOOSE sum : P(sum), f, S)
  BY <1>1, <1>3, <1>4, SumSplit
<1>6. QED
  BY <1>2, <1>5 DEF S

\* Equal shares of Unit, bought and sold.
Share(S) == Unit \div Cardinality(S)

Shares(long, short) ==
    [s \in Securities |-> IF s \in short THEN -Share(short) ELSE IF s \in long THEN Share(long)
                          ELSE 0]

\* Weights that are flat, or long and short by the same amount.
Balanced(weights) ==
    \/ weights = Flat
    \/ \E long, short \in SUBSET Securities :
         long # {} /\ short # {} /\ long \cap short = {} /\ weights = Shares(long, short)

\* The shares of a tail add up to the Unit: it is divisible by their number.
LEMMA SharesAddUp ==
  ASSUME NEW S \in SUBSET Securities, S # {}
  PROVE  Share(S) \in Nat /\ Share(S) * Cardinality(S) = Unit
<1> DEFINE n == Cardinality(S)
<1>1. /\ IsFiniteSet(S) /\ Cardinality(S) \in Nat /\ Cardinality(S) # 0
      /\ Cardinality(S) <= Cardinality(Securities) /\ Cardinality(Securities) \in Nat
  BY BacktestAssumption, FS_Subset, FS_CardinalityType, FS_EmptySet
<1>2. Unit \in Nat /\ Unit % n = 0
  <2>1. n \in 1..Cardinality(Securities)
    BY <1>1
  <2>2. QED
    BY <2>1, BacktestAssumption
<1>3. n \in Nat /\ n > 0
  BY <1>1
<1> HIDE DEF n
<1>4. Unit \div n \in Nat /\ Unit = n * (Unit \div n) + (Unit % n)
  BY <1>2, <1>3
<1>5. Unit \div n \in Nat /\ n * (Unit \div n) = Unit
  BY <1>2, <1>3, <1>4
<1>6. n * (Unit \div n) = (Unit \div n) * n
  BY <1>3, <1>5
<1>7. QED
  BY <1>5, <1>6 DEF Share, n

\* A sum over two disjoint tails and the securities in neither.
LEMMA SumOfTails ==
  ASSUME NEW f, \A s \in Securities : f[s] \in Int, NEW sum, Adds(sum, f, Securities),
         NEW long \in SUBSET Securities, NEW short \in SUBSET Securities, long \cap short = {}
  PROVE  sum[Securities] = sum[long] + sum[short] + sum[Securities \ (long \cup short)]
<1> DEFINE both == long \cup short
           rest == Securities \ both
<1>1. IsFiniteSet(Securities)
  BY BacktestAssumption
<1>2. sum[long \cup short] = sum[long] + sum[short]
  BY <1>1, SumApart
<1>3. both \in SUBSET Securities /\ rest \in SUBSET Securities /\ both \cap rest = {}
  OBVIOUS
<1>4. both \cup rest = Securities
  OBVIOUS
<1> HIDE DEF both, rest
<1>5. sum[both \cup rest] = sum[both] + sum[rest]
  BY <1>1, <1>3, SumApart
<1>6. sum[Securities] = sum[both] + sum[rest]
  BY <1>4, <1>5
<1>7. QED
  BY <1>2, <1>6 DEF both, rest

Absolute(weights) == [s \in Securities |-> Magnitude(weights[s])]

(* Shares of two tails that have no security in common and each have one   *)
(* add up to nothing, and their magnitudes to twice the Unit.              *)
LEMMA SharesBalance ==
  ASSUME NEW long \in SUBSET Securities, NEW short \in SUBSET Securities,
         long # {}, short # {}, long \cap short = {}
  PROVE  /\ Shares(long, short) \in [Securities -> Int]
         /\ SumFunction(Shares(long, short)) = 0
         /\ SumFunction(Absolute(Shares(long, short))) = 2 * Unit
<1> DEFINE w == Shares(long, short)
           a == Absolute(w)
           rest == Securities \ (long \cup short)
<1>1. /\ Share(long) \in Nat /\ Share(long) * Cardinality(long) = Unit
      /\ Share(short) \in Nat /\ Share(short) * Cardinality(short) = Unit
  BY SharesAddUp
<1>2. IsFiniteSet(Securities) /\ Unit \in Nat
  BY BacktestAssumption
<1>3. /\ DOMAIN w = Securities
      /\ \A s \in long : w[s] = Share(long)
      /\ \A s \in short : w[s] = -Share(short)
      /\ \A s \in rest : w[s] = 0
  BY DEF Shares
<1>4. Cardinality(long) \in Nat /\ Cardinality(short) \in Nat /\ Cardinality(rest) \in Nat
  BY <1>2, FS_Subset, FS_CardinalityType
<1>5. w \in [Securities -> Int]
  BY <1>1 DEF Shares
<1>6. /\ DOMAIN a = Securities
      /\ \A s \in long : a[s] = Share(long)
      /\ \A s \in short : a[s] = Share(short)
      /\ \A s \in rest : a[s] = 0
  <2>1. \A s \in Securities : a[s] = Magnitude(w[s])
    BY DEF Absolute
  <2>2. \A n \in Nat : Magnitude(n) = n /\ Magnitude(-n) = n
    BY DEF Magnitude
  <2> HIDE DEF w
  <2>3. QED
    BY <1>1, <1>3, <2>1, <2>2 DEF Absolute
<1> HIDE DEF w, a
<1>7. /\ \A s \in Securities : w[s] \in Int
      /\ \A s \in Securities : a[s] \in Int
  <2>1. \A s \in Securities : s \in long \/ s \in short \/ s \in rest
    OBVIOUS
  <2>2. QED
    BY <1>1, <1>5, <1>6, <2>1
<1>8. rest \in SUBSET Securities
  OBVIOUS
<1>9. -Share(short) \in Int /\ 0 \in Int /\ Share(long) \in Int /\ Share(short) \in Int
  BY <1>1
<1> HIDE DEF rest
<1>10. SumFunction(w) = 0
  <2>1. PICK sum : Adds(sum, w, Securities) /\ SumFunction(w) = sum[Securities]
    BY <1>2, <1>3, <1>7, FoldIsSum
  <2>2. /\ sum[long] = Share(long) * Cardinality(long)
        /\ sum[short] = (-Share(short)) * Cardinality(short)
        /\ sum[rest] = 0 * Cardinality(rest)
    BY <1>2, <1>3, <1>8, <1>9, <2>1, SumConstant
  <2>3. sum[long] = Unit /\ sum[short] = -Unit /\ sum[rest] = 0
    <3>1. \A n, k \in Nat : (-n) * k = -(n * k) /\ 0 * k = 0
      OBVIOUS
    <3>2. QED
      BY <1>1, <1>4, <2>2, <3>1
  <2>4. sum[Securities] = sum[long] + sum[short] + sum[rest]
    BY <1>7, <2>1, SumOfTails DEF rest
  <2>5. QED
    BY <1>2, <2>1, <2>3, <2>4
<1>11. SumFunction(a) = 2 * Unit
  <2>1. PICK sum : Adds(sum, a, Securities) /\ SumFunction(a) = sum[Securities]
    BY <1>2, <1>6, <1>7, FoldIsSum
  <2>2. /\ sum[long] = Share(long) * Cardinality(long)
        /\ sum[short] = Share(short) * Cardinality(short)
        /\ sum[rest] = 0 * Cardinality(rest)
    BY <1>2, <1>6, <1>8, <1>9, <2>1, SumConstant
  <2>3. sum[long] = Unit /\ sum[short] = Unit /\ sum[rest] = 0
    BY <1>1, <1>4, <2>2
  <2>4. sum[Securities] = sum[long] + sum[short] + sum[rest]
    BY <1>7, <2>1, SumOfTails DEF rest
  <2>5. QED
    BY <1>2, <2>1, <2>3, <2>4
<1>12. QED
  BY <1>5, <1>10, <1>11 DEF w, a

\* So balanced weights are dollar neutral, and fully invested or in cash.
LEMMA BalancedWeights ==
  ASSUME NEW weights, Balanced(weights)
  PROVE  /\ weights \in [Securities -> Int]
         /\ SumFunction(weights) = 0
         /\ SumFunction(Absolute(weights)) \in {0, 2 * Unit}
<1>1. CASE weights = Flat
  <2>1. Flat \in [Securities -> Int] /\ DOMAIN Flat = Securities /\ \A s \in Securities : Flat[s] = 0
    BY DEF Flat
  <2>2. Absolute(Flat) = Flat
    BY DEF Absolute, Flat, Magnitude
  <2>3. IsFiniteSet(Securities)
    BY BacktestAssumption
  <2>4. SumFunction(Flat) = 0
    <3>1. PICK sum : Adds(sum, Flat, Securities) /\ SumFunction(Flat) = sum[Securities]
      BY <2>1, <2>3, FoldIsSum
    <3>2. sum[Securities] = 0 * Cardinality(Securities)
      BY <2>1, <2>3, <3>1, SumConstant
    <3>3. Cardinality(Securities) \in Nat
      BY <2>3, FS_CardinalityType
    <3>4. QED
      BY <3>1, <3>2, <3>3
  <2>5. QED
    BY <1>1, <2>1, <2>2, <2>4
<1>2. CASE weights # Flat
  <2>1. PICK long \in SUBSET Securities, short \in SUBSET Securities :
          long # {} /\ short # {} /\ long \cap short = {} /\ weights = Shares(long, short)
    BY <1>2 DEF Balanced
  <2>2. QED
    BY <2>1, SharesBalance
<1>3. QED
  BY <1>1, <1>2

\* From one such book to another, at most twice the capital is turned over.
LEMMA TurnoverBounded ==
  ASSUME NEW weights, Balanced(weights), NEW previous, Balanced(previous)
  PROVE  SumFunction([s \in Securities |-> Magnitude(weights[s] - previous[s])]) <= 4 * Unit
<1> DEFINE f == Absolute(weights)
           g == Absolute(previous)
           h == [s \in Securities |-> Magnitude(weights[s] - previous[s])]
<1>1. /\ weights \in [Securities -> Int] /\ SumFunction(f) \in {0, 2 * Unit}
      /\ previous \in [Securities -> Int] /\ SumFunction(g) \in {0, 2 * Unit}
  BY BalancedWeights
<1>2. IsFiniteSet(Securities) /\ Unit \in Nat
  BY BacktestAssumption
<1>3. \A x, y \in Int : /\ Magnitude(x) \in Int /\ Magnitude(y) \in Int /\ Magnitude(x - y) \in Int
                        /\ Magnitude(x - y) <= Magnitude(x) + Magnitude(y)
  BY DEF Magnitude
<1>4. /\ DOMAIN f = Securities /\ DOMAIN g = Securities /\ DOMAIN h = Securities
      /\ \A s \in Securities : /\ f[s] = Magnitude(weights[s]) /\ g[s] = Magnitude(previous[s])
                               /\ h[s] = Magnitude(weights[s] - previous[s])
  BY DEF Absolute
<1>5. \A s \in Securities : weights[s] \in Int /\ previous[s] \in Int
  BY <1>1
<1> HIDE DEF f, g, h
<1>6. \A s \in Securities : f[s] \in Int /\ g[s] \in Int /\ h[s] \in Int /\ h[s] <= f[s] + g[s]
  BY <1>3, <1>4, <1>5
<1>7. PICK first : Adds(first, f, Securities) /\ SumFunction(f) = first[Securities]
  BY <1>2, <1>4, <1>6, FoldIsSum
<1>8. PICK second : Adds(second, g, Securities) /\ SumFunction(g) = second[Securities]
  BY <1>2, <1>4, <1>6, FoldIsSum
<1>9. PICK sum : Adds(sum, h, Securities) /\ SumFunction(h) = sum[Securities]
  BY <1>2, <1>4, <1>6, FoldIsSum
<1>10. sum[Securities] <= first[Securities] + second[Securities]
  BY <1>2, <1>6, <1>7, <1>8, <1>9, SumBelow
<1>11. sum[Securities] \in Int
  BY <1>9 DEF Adds
<1>12. SumFunction(h) <= 4 * Unit
  BY <1>1, <1>2, <1>7, <1>8, <1>9, <1>10, <1>11
<1>13. QED
  BY <1>12 DEF h

\* What the rows of a cross-section are.
CrossSection(rows) ==
    /\ \A r \in rows : r.security \in Securities /\ r.value \in Int
    /\ \A r, q \in rows : r.security = q.security => r = q

LEMMA CrossSectionsTyped ==
  ASSUME NEW stored \in SUBSET Snapshot, NEW spec \in Specs, ~ BacktestRefused(stored, spec),
         NEW u \in Decisions
  PROVE  CrossSection(CrossSections(stored, spec)[u])
<1> DEFINE rows == CrossSections(stored, spec)[u]
           versions == spec.feature :> spec.version
<1>1. rows = { r \in PanelAsOf(stored, versions, spec.config, u) : r.value # None }
  BY DEF CrossSections
<1>2. \A r, q \in rows : r.security = q.security => r = q
  BY DEF BacktestRefused, NoDuplicates
<1> HIDE DEF rows, versions
<1>3. ASSUME NEW r \in rows PROVE r.security \in Securities /\ r.value \in Int
  <2>1. r \in PanelAsOf(stored, versions, spec.config, u) /\ r.value # None
    BY <1>1
  <2>2. \E x \in Snapshot : r = Content(x)
    <3> DEFINE Pair(s, n) == Latest(Candidates(stored, s, n, versions[n], spec.config, u))
               All == UNION { Pair(s, n) : s \in Securities, n \in DOMAIN versions }
    <3>1. PICK x \in All : r = Content(x)
      BY <2>1 DEF PanelAsOf
    <3>2. \A s, n : Pair(s, n) \subseteq Snapshot
      BY DEF Latest, Candidates
    <3> HIDE DEF Pair
    <3>3. x \in Snapshot
      BY <3>2
    <3>4. QED
      BY <3>1, <3>3
  <2>3. PICK x \in Snapshot : r = Content(x)
    BY <2>2
  <2>4. r.security = x.security /\ r.value = x.value
    BY <2>3 DEF Content, Snapshot
  <2>5. x.security \in Securities /\ x.value \in Values
    BY DEF Snapshot
  <2>6. r.value # None /\ r.value \in Numbers \cup {None}
    BY <2>1, <2>4, <2>5 DEF Values
  <2>7. QED
    BY <2>4, <2>5, <2>6, PanelAssumption
<1>4. QED
  BY <1>2, <1>3 DEF CrossSection, rows

\* A cross-section is finite, and so are its tails, which have no name in common.
LEMMA TailsApart ==
  ASSUME NEW rows, CrossSection(rows), NEW spec \in Specs
  PROVE  /\ High(spec, rows) \in SUBSET Securities
         /\ Low(spec, rows) \in SUBSET Securities
         /\ High(spec, rows) \cap Low(spec, rows) = {}
<1>1. IsFiniteSet(rows)
  <2> DEFINE place == [r \in rows |-> r.security]
  <2>1. place \in Injection(rows, Securities)
    BY DEF CrossSection, Injection, IsInjective
  <2>2. QED
    BY <2>1, BacktestAssumption, FS_Injection
<1>2. Cardinality(rows) \in Nat
  BY <1>1, FS_CardinalityType
<1>3. \A r \in rows : TwiceRank(rows, r) \in Nat
  <2> SUFFICES ASSUME NEW r \in rows PROVE TwiceRank(rows, r) \in Nat
    OBVIOUS
  <2> DEFINE below == { q \in rows : q.value < r.value }
             level == { q \in rows : q.value = r.value }
  <2>1. Cardinality(below) \in Nat /\ Cardinality(level) \in Nat
    BY <1>1, FS_Subset, FS_CardinalityType
  <2> HIDE DEF below, level
  <2>2. 2 * Cardinality(below) + Cardinality(level) + 1 \in Nat
    BY <2>1
  <2>3. QED
    BY <2>2 DEF TwiceRank, below, level
<1>4. spec.quantiles \in 2..20
  BY BacktestAssumption DEF BacktestSpec
<1>5. High(spec, rows) \in SUBSET Securities /\ Low(spec, rows) \in SUBSET Securities
  BY DEF High, Low, CrossSection
<1>6. ASSUME NEW s \in High(spec, rows), s \in Low(spec, rows) PROVE FALSE
  <2>1. PICK r \in rows : /\ s = r.security
                          /\ spec.quantiles * TwiceRank(rows, r)
                               > 2 * (spec.quantiles - 1) * Cardinality(rows)
    BY DEF High
  <2>2. PICK q \in rows : /\ s = q.security
                          /\ spec.quantiles * TwiceRank(rows, q) <= 2 * Cardinality(rows)
    BY <1>6 DEF Low
  <2>3. r = q
    BY <2>1, <2>2 DEF CrossSection
  <2> DEFINE rank == spec.quantiles * TwiceRank(rows, r)
             others == 2 * (spec.quantiles - 1)
             n == Cardinality(rows)
  <2>4. rank \in Nat /\ others \in Nat /\ 2 <= others
    BY <1>3, <1>4
  <2>5. 2 * n <= others * n
    BY <1>2, <2>4, ProductGrows
  <2>6. rank > others * n /\ rank <= 2 * n
    BY <2>1, <2>2, <2>3
  <2>7. n \in Nat /\ others * n \in Nat /\ 2 * n \in Nat
    BY <1>2, <2>4
  <2> HIDE DEF rank, others, n
  <2>8. QED
    BY <2>4, <2>5, <2>6, <2>7
<1>7. QED
  BY <1>5, <1>6

\* So a target is balanced, whichever tail is bought.
LEMMA TargetBalanced ==
  ASSUME NEW rows, CrossSection(rows), NEW spec \in Specs, ~ Skipped(spec, rows)
  PROVE  Balanced(Target(spec, rows))
<1> DEFINE high == High(spec, rows)
           low == Low(spec, rows)
<1>1. /\ high \in SUBSET Securities /\ low \in SUBSET Securities
      /\ high \cap low = {} /\ low \cap high = {}
      /\ high # {} /\ low # {}
  BY TailsApart DEF Skipped
<1>2. CASE spec.high
  <2>1. Target(spec, rows) = Shares(high, low)
    BY <1>2 DEF Target, Shares, Share
  <2> HIDE DEF high, low
  <2>2. QED
    BY <1>1, <2>1 DEF Balanced
<1>3. CASE ~ spec.high
  <2>1. Target(spec, rows) = Shares(low, high)
    BY <1>3 DEF Target, Shares, Share
  <2> HIDE DEF high, low
  <2>2. QED
    BY <1>1, <2>1 DEF Balanced
<1>4. QED
  BY <1>2, <1>3

\* And so are the weights: flat, or a target that was carried forward.
LEMMA ExecutedBalanced ==
  ASSUME NEW stored \in SUBSET Snapshot, NEW spec \in Specs, ~ BacktestRefused(stored, spec),
         NEW t \in Rows(spec)
  PROVE  Balanced(Executed(stored, spec)[t])
<1> DEFINE frame == CrossSections(stored, spec)
           targets == Targets(stored, spec)
           aligned == Restrict(targets, DOMAIN targets \cap Rows(spec))
           before == { u \in Rows(spec) : u < t }
           v == NewestOf(before)
           earlier == { u \in DOMAIN aligned : u <= v }
<1>1. Rows(spec) \in SUBSET Times
  BY BacktestAssumption DEF Rows
<1>2. before \in SUBSET Times
  BY <1>1
<1>3. Executed(stored, spec)[t] = IF before = {} THEN Flat ELSE InForce(stored, spec)[v]
  BY DEF Executed
<1>4. Balanced(Flat)
  BY DEF Balanced
<1>5. CASE before = {}
  BY <1>3, <1>4, <1>5
<1>6. CASE before # {}
  <2>1. v \in Rows(spec)
    <3> HIDE DEF before
    <3>1. v \in before
      BY <1>2, <1>6, NewestIsLast
    <3>2. QED
      BY <3>1 DEF before
  <2>2. \A u \in DOMAIN targets : Balanced(targets[u])
    <3> SUFFICES ASSUME NEW u \in DOMAIN targets PROVE Balanced(targets[u])
      OBVIOUS
    <3>1. /\ u \in Selected(spec, frame) /\ ~ Skipped(spec, frame[u])
          /\ targets[u] = Target(spec, frame[u])
      BY DEF Targets
    <3>2. u \in Decisions
      BY <3>1 DEF Selected, Decided
    <3>3. CrossSection(frame[u])
      BY <3>2, CrossSectionsTyped
    <3> HIDE DEF frame, targets
    <3>4. QED
      BY <3>1, <3>3, TargetBalanced
  <2>3. \A u \in DOMAIN aligned : u \in DOMAIN targets /\ u \in Rows(spec) /\ aligned[u] = targets[u]
    BY DEF Restrict
  <2>4. InForce(stored, spec)[v] = CarriedForward(aligned, v)
    <3> HIDE DEF v
    <3>1. QED
      BY <2>1 DEF InForce
  <2> HIDE DEF aligned, targets, v, before, frame
  <2>5. CarriedForward(aligned, v) = IF earlier = {} THEN Flat ELSE aligned[NewestOf(earlier)]
    BY DEF CarriedForward
  <2>6. earlier \in SUBSET Times
    BY <1>1, <2>3
  <2>7. earlier # {} => NewestOf(earlier) \in DOMAIN aligned
    <3>1. earlier # {} => NewestOf(earlier) \in earlier
      <4> HIDE DEF earlier
      <4>1. QED
        BY <2>6, NewestIsLast
    <3>2. QED
      BY <3>1
  <2> HIDE DEF earlier
  <2>8. Balanced(CarriedForward(aligned, v))
    <3>1. CASE earlier = {}
      BY <1>4, <2>5, <3>1
    <3>2. CASE earlier # {}
      <4>1. /\ CarriedForward(aligned, v) = aligned[NewestOf(earlier)]
            /\ NewestOf(earlier) \in DOMAIN aligned
        BY <2>5, <2>7, <3>2
      <4>2. CarriedForward(aligned, v) = targets[NewestOf(earlier)]
        BY <2>3, <4>1
      <4>3. QED
        BY <2>2, <2>3, <4>1, <4>2
    <3>3. QED
      BY <3>1, <3>2
  <2>9. QED
    BY <1>3, <1>6, <2>4, <2>8
<1>7. QED
  BY <1>5, <1>6

(* The strategy is dollar neutral and fully invested or in cash, whatever  *)
(* ties and small cross-sections there are, so a rebalance turns over      *)
(* twice the capital at the most (build_cross_sectional_weights,           *)
(* run_cross_sectional_backtest).                                          *)
THEOREM DollarNeutral == Spec => []NeutralOrFlat
<1>1. TypeOK => NeutralOrFlat
  <2> SUFFICES ASSUME TypeOK, NEW spec \in Specs, ~ BacktestRefused(features, spec),
                      NEW t \in Rows(spec)
               PROVE  LET weights == Executed(features, spec)
                      IN  /\ SumFunction(weights[t]) = 0
                          /\ SumFunction([s \in Securities |-> Magnitude(weights[t][s])])
                               \in {0, 2 * Unit}
                          /\ TwiceTurnover(spec, weights, t) <= 4 * Unit
    BY DEF NeutralOrFlat
  <2> DEFINE weights == Executed(features, spec)
             before == { u \in Rows(spec) : u < t }
             previous == IF before = {} THEN Flat ELSE weights[NewestOf(before)]
  <2>1. features \in SUBSET Snapshot
    BY DEF TypeOK, PanelTypeOK
  <2>2. \A u \in Rows(spec) : Balanced(weights[u])
    BY <2>1, ExecutedBalanced
  <2>3. Balanced(previous)
    <3>1. CASE before = {}
      BY <3>1 DEF Balanced
    <3>2. CASE before # {}
      <4>1. before \in SUBSET Times
        BY BacktestAssumption DEF Rows
      <4>2. NewestOf(before) \in before
        <5> HIDE DEF before
        <5>1. QED
          BY <3>2, <4>1, NewestIsLast
      <4>3. NewestOf(before) \in Rows(spec)
        BY <4>2
      <4> HIDE DEF weights, before
      <4>4. QED
        BY <2>2, <3>2, <4>3
    <3>3. QED
      BY <3>1, <3>2
  <2>4. /\ SumFunction(weights[t]) = 0
        /\ SumFunction(Absolute(weights[t])) \in {0, 2 * Unit}
    BY <2>2, BalancedWeights
  <2>5. TwiceTurnover(spec, weights, t)
          = SumFunction([s \in Securities |-> Magnitude(weights[t][s] - previous[s])])
    BY DEF TwiceTurnover
  <2> HIDE DEF weights, previous
  <2>6. SumFunction([s \in Securities |-> Magnitude(weights[t][s] - previous[s])]) <= 4 * Unit
    BY <2>2, <2>3, TurnoverBounded
  <2>7. TwiceTurnover(spec, weights, t) <= 4 * Unit
    BY <2>5, <2>6
  <2>8. SumFunction([s \in Securities |-> Magnitude(weights[t][s])]) \in {0, 2 * Unit}
    BY <2>4 DEF Absolute
  <2>9. QED
    BY <2>4, <2>7, <2>8 DEF weights
<1>2. QED
  BY <1>1, TypeCorrect, PTL

=============================================================================
