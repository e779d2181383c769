-------------------------------- MODULE Events --------------------------------
(***************************************************************************)
(* Company events and corporate actions as their sources report them:      *)
(* vintages of a record, told apart by when they became known.  An event   *)
(* may be known before it takes effect and may be rescheduled by a later   *)
(* vintage.                                                                *)
(*                                                                         *)
(* An instant is a date and a time of day, counted in SlotsPerDay.         *)
(***************************************************************************)
EXTENDS Clock, Integers, FiniteSets, Sequences

CONSTANTS
    Records,      \* record ids of a source, the source included
    Payloads,     \* what an event says besides its times
    Terms,        \* ratio and cash amount of a corporate action
    SlotsPerDay,  \* times of day told apart
    MaxDay,       \* bound: dates are 0..MaxDay
    EventBatches, \* what is submitted: sequences of Vintage over Payloads
    ActionBatches \* and over Terms

Days == 0..MaxDay

Instants == 0..((MaxDay + 1) * SlotsPerDay - 1)

Vintage(contents) ==
    [record : Records, effective : Instants, available : Instants, content : contents]

ASSUME EventAssumption ==
    /\ MaxDay \in Nat /\ SlotsPerDay \in Nat \ {0}
    /\ EventBatches \subseteq Seq(Vintage(Payloads))
    /\ ActionBatches \subseteq Seq(Vintage(Terms))

VARIABLES
    events,   \* stored company_event rows
    actions   \* stored corporate_action rows

eventVars == <<now, events, actions>>

EventsInit == now = 0 /\ events = {} /\ actions = {}

-----------------------------------------------------------------------------
\* The natural key of a vintage.
SameVintage(a, b) == a.record = b.record /\ a.available = b.available

Earlier(batch, i) == { batch[j] : j \in 1..(i - 1) }

(* A vintage that is stored, or stands earlier in the batch, with another  *)
(* content refuses the batch.  Only the content is compared.               *)
Conflicts(stored, batch) ==
    \E i \in DOMAIN batch : \E r \in stored \cup Earlier(batch, i) :
      SameVintage(r, batch[i]) /\ r.content # batch[i].content

\* Defect: a vintage already stored is replaced.
Inserted_Replaced(stored, batch) ==
    LET new == { batch[i] : i \in DOMAIN batch }
    IN  { r \in stored : \A q \in new : ~SameVintage(q, r) } \cup new

\* The first of a key is kept, whatever the times of the others are.
Inserted(stored, batch) ==
    stored \cup { batch[i] : i \in { j \in DOMAIN batch :
                      \A r \in stored \cup Earlier(batch, j) : ~SameVintage(r, batch[j]) } }

\* No vintage is ingested before it is available.
Ingestible(batch) == \A i \in DOMAIN batch : batch[i].available <= now

UpsertEvents ==
    /\ \E batch \in EventBatches :
         /\ Ingestible(batch) /\ ~Conflicts(events, batch)
         /\ events' = Inserted(events, batch)
    /\ UNCHANGED <<now, actions>>

UpsertActions ==
    /\ \E batch \in ActionBatches :
         /\ Ingestible(batch) /\ ~Conflicts(actions, batch)
         /\ actions' = Inserted(actions, batch)
    /\ UNCHANGED <<now, events>>

-----------------------------------------------------------------------------
\* Defect: an event is known when it takes effect.
KnownWithin_Effective(stored, first, last, t) ==
    { r \in stored : r.effective \in first..last /\ r.effective <= t }

\* The window of effective times is applied before vintages are chosen.
KnownWithin(stored, first, last, t) ==
    { r \in stored : r.effective \in first..last /\ r.available <= t }

\* events_as_of: the newest of these vintages of every record.
EventsAsOf(stored, first, last, t) ==
    LET known == KnownWithin(stored, first, last, t)
    IN  { r \in known : \A q \in known : q.record = r.record => q.available <= r.available }
=============================================================================
