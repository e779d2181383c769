--------------------------- MODULE ThesisSelection ---------------------------
(***************************************************************************)
(* Point-in-time selection of a thesis version (research/thesis.py).       *)
(*                                                                         *)
(* A thesis row carries created_at and archived_at (None while active);    *)
(* a version row carries its number, the instant it takes effect           *)
(* (valid_from), the legacy end of its interval (valid_to, None for every  *)
(* row the current service writes) and the instant it was approved.  The   *)
(* author, the content and the identifiers play no part in the choice.     *)
(***************************************************************************)
EXTENDS Integers, FiniteSets

CONSTANT None    \* Python's None: an absent timestamp, row or version

-----------------------------------------------------------------------------
\* Defect: recency decided by version number alone.
Precedes_ByNumberOnly(v, w) == v.version < w.version

(* The key of max(): (valid_from, version, approved_at), compared          *)
(* lexicographically.                                                      *)
Precedes(v, w) ==
    \/ v.valid_from < w.valid_from
    \/ /\ v.valid_from = w.valid_from
       /\ \/ v.version < w.version
          \/ v.version = w.version /\ v.approved_at < w.approved_at

\* The greatest version of a non-empty set under that key.
Greatest(S) == CHOOSE v \in S : \A w \in S : ~ Precedes(v, w)

\* Defect: the knowledge cutoff is forgotten.
Approved_AtAnyTime(versions, known) == versions

Approved(versions, known) == { v \in versions : v.approved_at <= known }

Effective(versions, effective) == { v \in versions : v.valid_from <= effective }

ArchivedBy(thesis, known) ==
    thesis.archived_at # None /\ thesis.archived_at <= known

\* Defect: a legacy end date is not honoured.
Expired_Never(v, effective) == FALSE

Expired(v, effective) == v.valid_to # None /\ v.valid_to <= effective

Outcome(status, version) == [status |-> status, version |-> version]

(* Defect: expired rows are filtered out before the greatest is chosen, so *)
(* an older open-ended version comes back.                                 *)
SelectThesisVersion_Resurrecting(thesis, versions, effective, known) ==
    LET approved   == Approved(versions, known)
        candidates == { v \in Effective(approved, effective) : ~ Expired(v, effective) }
    IN  IF thesis.created_at > known      THEN Outcome("not_known_at_cutoff", None)
        ELSE IF ArchivedBy(thesis, known) THEN Outcome("archived_at_cutoff", None)
        ELSE IF approved = {}             THEN Outcome("not_yet_approved", None)
        ELSE IF candidates = {}           THEN Outcome("expired_at_cutoff", None)
        ELSE Outcome("selected", Greatest(candidates))

(* select_thesis_version: the early returns in the order the code takes    *)
(* them.  An expired greatest version is never replaced by an older one.   *)
SelectThesisVersion(thesis, versions, effective, known) ==
    LET approved   == Approved(versions, known)
        candidates == Effective(approved, effective)
        selected   == Greatest(candidates)
    IN  IF thesis.created_at > known      THEN Outcome("not_known_at_cutoff", None)
        ELSE IF ArchivedBy(thesis, known) THEN Outcome("archived_at_cutoff", None)
        ELSE IF approved = {}             THEN Outcome("not_yet_approved", None)
        ELSE IF candidates = {}           THEN Outcome("not_yet_effective", None)
        ELSE IF Expired(selected, effective)
                                          THEN Outcome("expired_at_cutoff", None)
        ELSE Outcome("selected", selected)

\* active_thesis_version: only the version of the two-time result.
ActiveThesisVersion(thesis, versions, effective, known) ==
    SelectThesisVersion(thesis, versions, effective, known).version

=============================================================================
