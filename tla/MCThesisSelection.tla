-------------------------- MODULE MCThesisSelection --------------------------
(***************************************************************************)
(* Replays of the selection: every small thesis, with legacy rows (finite  *)
(* valid_to, activations in any order), read at every pair of cutoffs.  A  *)
(* replay moves one cutoff forward, or records a fact that becomes known   *)
(* after the knowledge cutoff it reads at.                                 *)
(***************************************************************************)
EXTENDS ThesisSelection

CONSTANTS
    LastInstant,   \* bound: instants are 0..LastInstant
    LastNumber     \* bound: version numbers are 1..LastNumber

ASSUME ReplayBounds == LastInstant \in Nat /\ LastNumber \in Nat \ {0}

VARIABLES thesis, history, effective, known

replayVars == <<thesis, history, effective, known>>

Instants == 0..LastInstant

\* ThesisVersion.validate_thesis_version: valid_to is later than valid_from.
Rows == { v \in [version : 1..LastNumber, valid_from : Instants,
                 valid_to : Instants \cup {None}, approved_at : Instants] :
             v.valid_to # None => v.valid_to > v.valid_from }

\* Thesis.validate_archive_state: archived_at is not before created_at.
Identities == { t \in [created_at : Instants, archived_at : Instants \cup {None}] :
                   t.archived_at # None => t.archived_at >= t.created_at }

\* None is neither a timestamp nor a row.
ASSUME ReplayNone == None \notin Nat /\ None \notin Rows

\* The unique constraint on (thesis_id, version).
UniqueNumbers(S) == \A v, w \in S : v.version = w.version => v = w

ReplayInit ==
    /\ thesis \in Identities
    /\ \/ history = {}
       \/ \E v, w \in Rows : UniqueNumbers({v, w}) /\ history = {v, w}
    /\ effective = 0
    /\ known = 0

AdvanceKnown ==
    /\ known < LastInstant
    /\ known' = known + 1
    /\ UNCHANGED <<thesis, history, effective>>

AdvanceEffective ==
    /\ effective < LastInstant
    /\ effective' = effective + 1
    /\ UNCHANGED <<thesis, history, known>>

\* A version approved after the cutoff, or an archive after it, is recorded.
LearnLater ==
    /\ \/ /\ \E v \in Rows :
                /\ v.approved_at > known
                /\ UniqueNumbers(history \cup {v})
                /\ history' = history \cup {v}
          /\ UNCHANGED thesis
       \/ /\ thesis.archived_at = None
          /\ \E t \in Instants :
                /\ t > known /\ t >= thesis.created_at
                /\ thesis' = [thesis EXCEPT !.archived_at = t]
          /\ UNCHANGED history
    /\ UNCHANGED <<effective, known>>

ReplayNext == AdvanceKnown \/ AdvanceEffective \/ LearnLater

ReplaySpec == ReplayInit /\ [][ReplayNext]_replayVars

-----------------------------------------------------------------------------
Answer == SelectThesisVersion(thesis, history, effective, known)

ReplayTypeOK ==
    /\ thesis \in Identities
    /\ history \subseteq Rows /\ UniqueNumbers(history)
    /\ effective \in Instants /\ known \in Instants
    /\ Answer.version \in IF Answer.status = "selected" THEN history ELSE {None}

(* The reference the code is compared with is the contract of the design   *)
(* note, stated on the answer: a version is answered exactly when the      *)
(* thesis is open at the knowledge cutoff and that version is approved,    *)
(* effective, unexpired and not superseded by another approved, effective  *)
(* version with a later activation (or the same one and a higher number).  *)
Selectable(v) ==
    /\ thesis.created_at <= known
    /\ thesis.archived_at = None \/ known < thesis.archived_at
    /\ v.approved_at <= known
    /\ v.valid_from <= effective
    /\ v.valid_to = None \/ effective < v.valid_to
    /\ \A w \in history \ {v} :
          w.approved_at <= known /\ w.valid_from <= effective =>
             \/ w.valid_from < v.valid_from
             \/ w.valid_from = v.valid_from /\ w.version < v.version

AnswerMeetsContract == \A v \in history : Answer.version = v <=> Selectable(v)

(* A fact that becomes known after the knowledge cutoff never changes the  *)
(* answer at that cutoff, neither a version nor an archive.                *)
LaterFactsChangeNothing ==
    [][LearnLater => Answer' = Answer]_replayVars

(* Moving only the knowledge cutoff forward never returns to an older      *)
(* version: what is selected is replaced, if at all, by a greater one.     *)
KnowledgeNeverRegresses ==
    [][AdvanceKnown /\ Answer.status = "selected" /\ Answer'.status = "selected"
          => Answer'.version = Answer.version
             \/ Answer'.version.valid_from > Answer.version.valid_from
             \/ /\ Answer'.version.valid_from = Answer.version.valid_from
                /\ Answer'.version.version > Answer.version.version]_replayVars

(* Advancing only the effective cutoff selects a version that was not yet  *)
(* effective, or keeps the one it had: when the greatest version expires,  *)
(* an older open-ended version is never resurrected.                       *)
ExpiryNeverResurrects ==
    [][AdvanceEffective /\ Answer'.status = "selected"
          => Answer'.version = Answer.version
             \/ Answer'.version.valid_from > effective]_replayVars

=============================================================================
