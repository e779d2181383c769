------------------------------ MODULE EventStudy ------------------------------
(***************************************************************************)
(* The event study over the events known at a cutoff and the returns of    *)
(* the sessions whose bars were: every event is aligned to the session     *)
(* that responds to it, and the windows of sessions around that one are    *)
(* its observation.                                                        *)
(***************************************************************************)
EXTENDS Events

CONSTANTS
    Open, Close,  \* times of day
    Timings,      \* the explicit timings, and None: derive it from the time
    TimingOf,     \* the timing a payload states
    Studies,      \* the specifications, each an EventStudySpec
    Delays        \* bound: how long after its close a bar may arrive

EventWindow == [start : Int, end : Int]

EventStudySpec == [windows : SUBSET EventWindow, policy : {"flag", "exclude", "allow"}]

Offsets(w) == w.start..w.end

ASSUME StudyAssumption ==
    /\ Open \in 0..(SlotsPerDay - 1) /\ Close \in 0..(SlotsPerDay - 1) /\ Open < Close
    /\ Timings = {"BMO", "AMC", "INTRADAY", "DATE_ONLY", None}
    /\ TimingOf \in [Payloads -> Timings]
    /\ Delays \subseteq Nat
    /\ Studies \subseteq EventStudySpec
    /\ \A spec \in Studies :
         /\ IsFiniteSet(spec.windows) /\ spec.windows # {}
         /\ \A w \in spec.windows : w.start <= w.end
         /\ \A w, x \in spec.windows : w # x => Offsets(w) \cap Offsets(x) = {}

VARIABLE bars   \* stored sessions: [day, available, missing], missing a return

studyVars == <<now, events, actions, bars>>

DayOf(t) == t \div SlotsPerDay

CloseOf(d) == d * SlotsPerDay + Close

StudyInit == EventsInit /\ bars = {}

\* A session's bar arrives after its close, in any order, if at all.
StoreSession ==
    /\ \E d \in Days, missing \in BOOLEAN :
         /\ now - CloseOf(d) \in Delays /\ \A b \in bars : b.day # d
         /\ bars' = bars \cup {[day |-> d, available |-> now, missing |-> missing]}
    /\ UNCHANGED eventVars

StudyTick ==
    /\ now + 1 \in Instants /\ now' = now + 1
    /\ UNCHANGED <<events, actions, bars>>

StudyNext ==
    \/ UpsertEvents /\ UNCHANGED bars
    \/ UpsertActions /\ UNCHANGED bars
    \/ StoreSession \/ StudyTick

StudySpec == StudyInit /\ [][StudyNext]_studyVars

StudyTypeOK ==
    /\ now \in Instants
    /\ events \subseteq Vintage(Payloads) /\ actions \subseteq Vintage(Terms)
    /\ bars \subseteq [day : Days, available : Instants, missing : BOOLEAN]
    /\ \A b, q \in bars : b.day = q.day => b = q

-----------------------------------------------------------------------------
\* The returns a caller may supply at a cutoff.
ReturnsAsOf(stored, t) == { b \in stored : b.available <= t }

\* Defect: an event at the close still moves the session that closes.
Timing_AfterClose(e) ==
    IF TimingOf[e.content] # None THEN TimingOf[e.content]
    ELSE IF e.effective % SlotsPerDay < Open THEN "BMO"
    ELSE IF e.effective % SlotsPerDay > Close THEN "AMC" ELSE "INTRADAY"

Timing(e) ==
    IF TimingOf[e.content] # None THEN TimingOf[e.content]
    ELSE IF e.effective % SlotsPerDay < Open THEN "BMO"
    ELSE IF e.effective % SlotsPerDay >= Close THEN "AMC" ELSE "INTRADAY"

\* The sessions that can respond: after the close only a later date's.
Responding(e, returns) ==
    { b \in returns : IF Timing(e) = "AMC" THEN b.day > DayOf(e.effective)
                      ELSE b.day >= DayOf(e.effective) }

\* The response session, as a set that is empty if there is none yet.
ResponseSession(e, returns) ==
    { b \in Responding(e, returns) : \A q \in Responding(e, returns) : b.day <= q.day }

\* A session's position in the returns, from 0.
Position(b, returns) == Cardinality({ q \in returns : q.day < b.day })

\* Positions of a window around a response, inside the returns or not.
Around(w, b, returns) == { Position(b, returns) + o : o \in Offsets(w) }

\* A window is complete if all its sessions are there and have a return.
Complete(w, b, returns) ==
    \A p \in Around(w, b, returns) :
      \E q \in returns : Position(q, returns) = p /\ ~q.missing

MinimumOffset(spec) == CHOOSE o \in { w.start : w \in spec.windows } :
                         \A w \in spec.windows : o <= w.start
MaximumOffset(spec) == CHOOSE o \in { w.end : w \in spec.windows } :
                         \A w \in spec.windows : o >= w.end

\* Defect: windows that meet in one session do not overlap.
Occupied_Open(spec, b, returns) ==
    (Position(b, returns) + MinimumOffset(spec))..(Position(b, returns) + MaximumOffset(spec) - 1)

\* From the first session of the first window to the last of the last one.
Occupied(spec, b, returns) ==
    (Position(b, returns) + MinimumOffset(spec))..(Position(b, returns) + MaximumOffset(spec))

Overlaps(spec, e, others, returns) ==
    \E f \in others \ {e} :
      \E b \in ResponseSession(e, returns), q \in ResponseSession(f, returns) :
        Occupied(spec, b, returns) \cap Occupied(spec, q, returns) # {}

Eligible(spec, e, others, returns) ==
    /\ \E b \in ResponseSession(e, returns) : \A w \in spec.windows : Complete(w, b, returns)
    /\ spec.policy = "exclude" => ~Overlaps(spec, e, others, returns)

(* extract_event_windows at a cutoff, over every event known then: what    *)
(* each is aligned to, the sessions of its complete windows and the flags. *)
Observations(spec, stored, sessions, t) ==
    LET known == EventsAsOf(stored, 0, CloseOf(MaxDay), t)
        returns == ReturnsAsOf(sessions, t)
    IN  { [event |-> e, response |-> ResponseSession(e, returns),
           overlaps |-> Overlaps(spec, e, known, returns),
           complete |-> { w \in spec.windows : \E b \in ResponseSession(e, returns) :
                                                 Complete(w, b, returns) },
           eligible |-> Eligible(spec, e, known, returns)] : e \in known }

-----------------------------------------------------------------------------
(* What becomes known after a cutoff changes no observation made at it:    *)
(* not a new event, not a vintage that moves one, not a late bar.  A       *)
(* vintage submitted again, with other times perhaps, changes none at all, *)
(* nor any corporate action.                                               *)
StudyReplays ==
    [][/\ \A spec \in Studies, t \in 0..now :
            (/\ \A r \in events' \ events :
                  r.available > t \/ \E q \in events : SameVintage(q, r)
             /\ \A b \in bars' \ bars : b.available > t) =>
               Observations(spec, events', bars', t) = Observations(spec, events, bars, t)
       /\ actions \subseteq actions']_studyVars

(* Without an explicit timing an event is aligned to the first session on  *)
(* record that closes after it, so no window from offset 0 on holds a      *)
(* return that was complete before the event, and none before it a return  *)
(* that was not: at the close, over a weekend, over a missing bar.         *)
FirstReaction ==
    \A e \in { r \in events : TimingOf[r.content] = None } :
      ResponseSession(e, bars) =
        { b \in bars : /\ CloseOf(b.day) > e.effective
                       /\ \A q \in bars : CloseOf(q.day) > e.effective => b.day <= q.day }

(* Under the policy "exclude" the eligible events share no session, so     *)
(* their returns can be averaged as a sample.                              *)
EligibleDisjoint ==
    \A spec \in { x \in Studies : x.policy = "exclude" }, t \in 0..now :
      LET returns == ReturnsAsOf(bars, t)
          eligible == { o \in Observations(spec, events, bars, t) : o.eligible }
          used(o) == UNION { Around(w, b, returns) : w \in spec.windows, b \in o.response }
      IN  \A o, p \in eligible : o # p => used(o) \cap used(p) = {}

StartOf(d) == d * SlotsPerDay

(* A window of dates answers the newest vintage known of every   *)
(* record in it - or, where the newest moved the event out of the window,  *)
(* the last one that had not: a rescheduled event shows in both places.    *)
NewestUnlessMoved ==
    \A d, e \in Days, t \in 0..now :
      \A r \in EventsAsOf(events, StartOf(d), StartOf(e + 1) - 1, t) :
        \A q \in events :
          (q.record = r.record /\ q.available <= t /\ q.available > r.available) =>
            q.effective \notin StartOf(d)..(StartOf(e + 1) - 1)
=============================================================================
