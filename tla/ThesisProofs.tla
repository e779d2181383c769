----------------------------- MODULE ThesisProofs -----------------------------
(***************************************************************************)
(* Proofs about the selection of a thesis version, for any history of a    *)
(* thesis, any instants and any numbers, and about ThesisStore and the     *)
(* reader of ThesisReads beside it, for any clients, keys, securities,     *)
(* clock bound and history bound.                                          *)
(*                                                                         *)
(* Selection: select_thesis_version answers what its contract says, and    *)
(* replays at advancing cutoffs neither see the future nor fall back,      *)
(* because the key of max() is a linear order on the versions of one       *)
(* thesis (GreatestIs).                                                    *)
(*                                                                         *)
(* Store: the argument is the inductive invariant IInv: a request's draft  *)
(* stays the row its checks accepted (Requests), no two requests flush     *)
(* rows of one thesis (WritesExclusive), and with row locks the holder's   *)
(* thesis stays open (LocksExclusive).  With row locks ThesisStore         *)
(* implements ThesisLog: the committed log of a thesis has an entry for    *)
(* each of its rows, and a commit appends to it because a flushed draft    *)
(* carries the number after the last (Counted).                            *)
(***************************************************************************)
EXTENDS ThesisReads, MCThesisSelection, FiniteLemmas, SequenceTheorems, TLAPS

-----------------------------------------------------------------------------
(* The selection.                                                          *)

\* Every field of the state has its type; TypeOK adds that of the answer.
StateOK ==
    /\ thesis \in Identities
    /\ history \subseteq Rows /\ UniqueNumbers(history)
    /\ effective \in Instants /\ known \in Instants

LEMMA RowFields ==
  ASSUME NEW v \in Rows
  PROVE  /\ v.version \in 1..LastNumber /\ v.valid_from \in 0..LastInstant
         /\ v.approved_at \in 0..LastInstant
         /\ v.version \in Int /\ v.valid_from \in Int /\ v.approved_at \in Int
         /\ v.valid_to # None => v.valid_to \in Int
BY ReplayBounds DEF Rows, Instants

-----------------------------------------------------------------------------
(* max() of a non-empty set of versions is one that no other precedes:     *)
(* the latest activation, among those the highest number, and among those  *)
(* the latest approval.                                                    *)
LEMMA GreatestExists ==
  ASSUME NEW S \in SUBSET Rows, S # {}
  PROVE  Greatest(S) \in S /\ \A w \in S : ~ Precedes(Greatest(S), w)
<1>1. LastInstant \in Nat /\ LastNumber \in Nat
  BY ReplayBounds
<1>2. PICK f \in S : \A w \in S : w.valid_from <= f.valid_from
  <2> DEFINE T == { v.valid_from : v \in S }
  <2>1. T \in SUBSET (0..LastInstant) /\ T # {}
    BY RowFields
  <2> HIDE DEF T
  <2>2. PICK m \in T : \A k \in T : k <= m
    BY <1>1, <2>1, Largest
  <2>3. QED
    BY <2>2 DEF T
<1> DEFINE A == { v \in S : v.valid_from = f.valid_from }
<1>3. PICK g \in A : \A w \in A : w.version <= g.version
  <2> DEFINE T == { v.version : v \in A }
  <2>1. T \in SUBSET (0..LastNumber) /\ T # {}
    <3>1. \A v \in S : v.version \in 0..LastNumber
      BY <1>1, RowFields
    <3>2. f \in A
      OBVIOUS
    <3>3. QED
      BY <3>1, <3>2
  <2> HIDE DEF T
  <2>2. PICK m \in T : \A k \in T : k <= m
    BY <1>1, <2>1, Largest
  <2>3. QED
    BY <2>2 DEF T
<1> DEFINE B == { v \in A : v.version = g.version }
<1>4. PICK h \in B : \A w \in B : w.approved_at <= h.approved_at
  <2> DEFINE T == { v.approved_at : v \in B }
  <2>1. T \in SUBSET (0..LastInstant) /\ T # {}
    <3>1. \A v \in S : v.approved_at \in 0..LastInstant
      BY RowFields
    <3>2. g \in B
      OBVIOUS
    <3>3. QED
      BY <3>1, <3>2
  <2> HIDE DEF T
  <2>2. PICK m \in T : \A k \in T : k <= m
    BY <1>1, <2>1, Largest
  <2>3. QED
    BY <2>2 DEF T
<1>5. h \in S /\ h.valid_from = f.valid_from /\ h.version = g.version
  OBVIOUS
<1>6. \A w \in S : w.valid_from = h.valid_from => w.version <= h.version
  BY <1>3, <1>5
<1>7. \A w \in S : w.valid_from = h.valid_from /\ w.version = h.version
                     => w.approved_at <= h.approved_at
  BY <1>4, <1>5
<1> HIDE DEF A, B
<1>8. \A w \in S : ~ Precedes(h, w)
  <2> SUFFICES ASSUME NEW w \in S PROVE ~ Precedes(h, w)
    OBVIOUS
  <2>1. w \in Rows /\ h \in Rows
    BY <1>5
  <2>2. w.valid_from <= h.valid_from
    BY <1>2, <1>5
  <2>3. QED
    BY <1>6, <1>7, <2>1, <2>2, RowFields DEF Precedes
<1>9. QED
  BY <1>5, <1>8 DEF Greatest

\* The order of two versions of one thesis, whose numbers differ.
Succeeds(v, w) ==
    \/ w.valid_from < v.valid_from
    \/ w.valid_from = v.valid_from /\ w.version < v.version

(* The greatest version of a thesis is the one that succeeds all others.   *)
LEMMA GreatestIs ==
  ASSUME NEW S \in SUBSET Rows, UniqueNumbers(S), NEW v \in S
  PROVE  v = Greatest(S) <=> \A w \in S \ {v} : Succeeds(v, w)
<1>1. Greatest(S) \in S /\ \A w \in S : ~ Precedes(Greatest(S), w)
  BY GreatestExists
<1>2. ASSUME NEW g \in S, NEW w \in S \ {g}
      PROVE  (~ Precedes(g, w)) <=> Succeeds(g, w)
  <2>1. g.version # w.version
    BY DEF UniqueNumbers
  <2>2. g \in Rows /\ w \in Rows
    OBVIOUS
  <2>3. QED
    BY <2>1, <2>2, RowFields DEF Precedes, Succeeds
<1>3. ASSUME v = Greatest(S) PROVE \A w \in S \ {v} : Succeeds(v, w)
  BY <1>1, <1>2, <1>3
<1>4. ASSUME v # Greatest(S), \A w \in S \ {v} : Succeeds(v, w) PROVE FALSE
  <2> DEFINE g == Greatest(S)
  <2>1. Succeeds(v, g) /\ Succeeds(g, v)
    BY <1>1, <1>2, <1>4
  <2>2. g \in Rows /\ v \in Rows
    BY <1>1
  <2>3. QED
    BY <2>1, <2>2, RowFields DEF Succeeds
<1>5. QED
  BY <1>3, <1>4

-----------------------------------------------------------------------------
(* The rows a selection chooses among.                                     *)
Candidates(rows, at, cutoff) == Effective(Approved(rows, cutoff), at)

Chosen(t, rows, at, cutoff) ==
    /\ t.created_at <= cutoff /\ ~ ArchivedBy(t, cutoff)
    /\ Candidates(rows, at, cutoff) # {}
    /\ ~ Expired(Greatest(Candidates(rows, at, cutoff)), at)

(* What is selected, and when: the greatest candidate, if there is one and *)
(* it has not expired.                                                     *)
LEMMA SelectionOutcome ==
  ASSUME NEW t \in Identities, NEW rows, NEW at, NEW cutoff \in Instants,
         NEW answer, answer = SelectThesisVersion(t, rows, at, cutoff)
  PROVE  /\ Chosen(t, rows, at, cutoff) =>
              /\ answer.status = "selected"
              /\ answer.version = Greatest(Candidates(rows, at, cutoff))
         /\ ~ Chosen(t, rows, at, cutoff) =>
              answer.status # "selected" /\ answer.version = None
<1>1. t.created_at \in Int /\ cutoff \in Int
  BY ReplayBounds DEF Identities, Instants
<1>2. Candidates(rows, at, cutoff) # {} => Approved(rows, cutoff) # {}
  BY DEF Candidates, Effective
<1>3. ASSUME Chosen(t, rows, at, cutoff)
      PROVE  /\ answer.status = "selected"
             /\ answer.version = Greatest(Candidates(rows, at, cutoff))
  <2>1. answer = Outcome("selected", Greatest(Candidates(rows, at, cutoff)))
    BY <1>1, <1>2, <1>3 DEF SelectThesisVersion, Candidates, Chosen
  <2>2. QED
    BY <2>1 DEF Outcome
<1>4. ASSUME ~ Chosen(t, rows, at, cutoff)
      PROVE  answer.status # "selected" /\ answer.version = None
  <2>1. \E status \in {"not_known_at_cutoff", "archived_at_cutoff", "not_yet_approved",
                       "not_yet_effective", "expired_at_cutoff"} :
           answer = Outcome(status, None)
    BY <1>1, <1>4 DEF SelectThesisVersion, Candidates, Chosen
  <2>2. QED
    BY <2>1 DEF Outcome
<1>5. QED
  BY <1>3, <1>4

(* The candidates are versions of the thesis, and the greatest is one.     *)
LEMMA GreatestCandidate ==
  ASSUME NEW rows \in SUBSET Rows, NEW at, NEW cutoff, Candidates(rows, at, cutoff) # {}
  PROVE  /\ Candidates(rows, at, cutoff) \in SUBSET Rows
         /\ Greatest(Candidates(rows, at, cutoff)) \in Candidates(rows, at, cutoff)
         /\ Greatest(Candidates(rows, at, cutoff)) \in rows
<1>1. Candidates(rows, at, cutoff) \in SUBSET rows
  BY DEF Candidates, Effective, Approved
<1>2. QED
  BY <1>1, GreatestExists

-----------------------------------------------------------------------------
(* The state has its types, and so has the answer.                         *)
LEMMA StateTyped == ReplaySpec => []StateOK
<1>1. ReplayInit => StateOK
  <2> SUFFICES ASSUME ReplayInit PROVE StateOK
    OBVIOUS
  <2>1. 0 \in Instants
    BY ReplayBounds DEF Instants
  <2>2. history \subseteq Rows /\ UniqueNumbers(history)
    BY DEF ReplayInit, UniqueNumbers
  <2>3. QED
    BY <2>1, <2>2 DEF ReplayInit, StateOK
<1>2. StateOK /\ [ReplayNext]_replayVars => StateOK'
  <2> SUFFICES ASSUME StateOK, [ReplayNext]_replayVars PROVE StateOK'
    OBVIOUS
  <2>1. CASE AdvanceKnown
    <3>1. known' \in Instants
      BY <2>1, ReplayBounds DEF AdvanceKnown, StateOK, Instants
    <3>2. QED
      BY <2>1, <3>1 DEF AdvanceKnown, StateOK, UniqueNumbers
  <2>2. CASE AdvanceEffective
    <3>1. effective' \in Instants
      BY <2>2, ReplayBounds DEF AdvanceEffective, StateOK, Instants
    <3>2. QED
      BY <2>2, <3>1 DEF AdvanceEffective, StateOK, UniqueNumbers
  <2>3. CASE LearnLater
    <3>1. history' \subseteq Rows /\ UniqueNumbers(history')
      BY <2>3 DEF LearnLater, StateOK
    <3>2. thesis' \in Identities
      <4>1. CASE thesis' = thesis
        BY <4>1 DEF StateOK
      <4>2. CASE thesis' # thesis
        <5>1. PICK t \in Instants : /\ t >= thesis.created_at
                                 /\ thesis' = [thesis EXCEPT !.archived_at = t]
          BY <2>3, <4>2 DEF LearnLater
        <5>2. QED
          BY <5>1 DEF StateOK, Identities
      <4>3. QED
        BY <4>1, <4>2
    <3>3. effective' = effective /\ known' = known
      BY <2>3 DEF LearnLater
    <3>4. QED
      BY <3>1, <3>2, <3>3 DEF StateOK, UniqueNumbers
  <2>4. CASE UNCHANGED replayVars
    BY <2>4 DEF replayVars, StateOK, UniqueNumbers
  <2>5. QED
    BY <2>1, <2>2, <2>3, <2>4 DEF ReplayNext
<1>3. QED
  BY <1>1, <1>2, PTL DEF ReplaySpec

(* Histories, cutoffs and answers are well formed: a version is answered   *)
(* if and only if the status is "selected".                                *)
THEOREM ReplayTypeCorrect == ReplaySpec => []ReplayTypeOK
<1>1. StateOK => ReplayTypeOK
  <2> SUFFICES ASSUME StateOK PROVE ReplayTypeOK
    OBVIOUS
  <2>1. /\ Chosen(thesis, history, effective, known) =>
             /\ Answer.status = "selected"
             /\ Answer.version = Greatest(Candidates(history, effective, known))
        /\ ~ Chosen(thesis, history, effective, known) =>
             Answer.status # "selected" /\ Answer.version = None
    BY SelectionOutcome DEF StateOK, Answer
  <2>2. Chosen(thesis, history, effective, known) =>
          Greatest(Candidates(history, effective, known)) \in history
    BY GreatestCandidate DEF StateOK, Chosen
  <2>3. QED
    BY <2>1, <2>2 DEF StateOK, ReplayTypeOK
<1>2. QED
  BY <1>1, StateTyped, PTL

(* select_thesis_version answers a version exactly when the design note's  *)
(* contract selects it.                                                    *)
THEOREM SelectionMeetsContract == ReplaySpec => []AnswerMeetsContract
<1>1. StateOK => AnswerMeetsContract
  <2> SUFFICES ASSUME StateOK, NEW v \in history PROVE Answer.version = v <=> Selectable(v)
    BY DEF AnswerMeetsContract
  <2> DEFINE rows == Candidates(history, effective, known)
  <2>1. /\ thesis \in Identities /\ history \in SUBSET Rows /\ UniqueNumbers(history)
        /\ effective \in Instants /\ known \in Instants
    BY DEF StateOK
  <2>2. v # None
    BY <2>1, ReplayNone
  <2>3. \A w \in history : w \in rows <=> w.approved_at <= known /\ w.valid_from <= effective
    BY DEF Candidates, Effective, Approved
  <2>4. rows \subseteq history /\ UniqueNumbers(rows)
    BY <2>1 DEF Candidates, Effective, Approved, UniqueNumbers
  <2>5. /\ effective \in Int
        /\ v.valid_to # None => v.valid_to \in Int
        /\ known \in Int /\ thesis.created_at \in Int
        /\ thesis.archived_at # None => thesis.archived_at \in Int
    BY <2>1, RowFields, ReplayBounds DEF Instants, Identities
  <2>6. Expired(v, effective) <=> ~ (v.valid_to = None \/ effective < v.valid_to)
    BY <2>5 DEF Expired
  <2>7. ArchivedBy(thesis, known) <=> ~ (thesis.archived_at = None \/ known < thesis.archived_at)
    BY <2>5 DEF ArchivedBy
  <2> HIDE DEF rows
  <2>8. ASSUME v \in rows
        PROVE  v = Greatest(rows) <=>
                 \A w \in history \ {v} :
                    w.approved_at <= known /\ w.valid_from <= effective => Succeeds(v, w)
    BY <2>1, <2>3, <2>4, <2>8, GreatestIs
  <2>9. ASSUME Answer.version = v PROVE Selectable(v)
    <3>1. Chosen(thesis, history, effective, known)
      BY <2>1, <2>2, <2>9, SelectionOutcome DEF Answer
    <3>2. v = Greatest(rows)
      BY <2>1, <2>9, <3>1, SelectionOutcome DEF Answer, rows
    <3>3. v \in rows
      BY <2>1, <3>1, <3>2, GreatestCandidate DEF Chosen, rows
    <3>4. thesis.created_at <= known /\ ~ ArchivedBy(thesis, known) /\ ~ Expired(v, effective)
      BY <3>1, <3>2 DEF Chosen, rows
    <3>5. QED
      BY <2>3, <2>6, <2>7, <2>8, <3>2, <3>3, <3>4 DEF Selectable, Succeeds
  <2>10. ASSUME Selectable(v) PROVE Answer.version = v
    <3>1. v \in rows
      BY <2>3, <2>10 DEF Selectable
    <3>2. v = Greatest(rows)
      BY <2>8, <2>10, <3>1 DEF Selectable, Succeeds
    <3>3. thesis.created_at <= known /\ ~ ArchivedBy(thesis, known) /\ ~ Expired(v, effective)
      BY <2>6, <2>7, <2>10 DEF Selectable
    <3>4. Chosen(thesis, history, effective, known)
      BY <3>1, <3>2, <3>3 DEF Chosen, rows
    <3>5. QED
      BY <2>1, <3>2, <3>4, SelectionOutcome DEF Answer, rows
  <2>11. QED
    BY <2>9, <2>10
<1>2. QED
  BY <1>1, StateTyped, PTL

-----------------------------------------------------------------------------
(* A version approved, or an archive made, after the knowledge cutoff does *)
(* not change the answer there.                                            *)
THEOREM LaterFactsStayHidden == ReplaySpec => LaterFactsChangeNothing
<1>1. StateOK => [LearnLater => Answer' = Answer]_replayVars
  <2> SUFFICES ASSUME StateOK, LearnLater PROVE Answer' = Answer
    OBVIOUS
  <2>1. effective' = effective /\ known' = known /\ known \in Int
    BY ReplayBounds DEF LearnLater, StateOK, Instants
  <2>2. CASE thesis' = thesis /\ \E v \in Rows : v.approved_at > known
                                               /\ history' = history \cup {v}
    <3>1. PICK v \in Rows : v.approved_at > known /\ history' = history \cup {v}
      BY <2>2
    <3>2. v \notin Approved(history', known) /\ ~ (v.approved_at <= known)
      BY <2>1, <3>1, RowFields DEF Approved
    <3>3. Approved(history', known) = Approved(history, known)
      BY <3>1, <3>2 DEF Approved
    <3>4. QED
      BY <2>1, <2>2, <3>3 DEF Answer, SelectThesisVersion
  <2>3. CASE history' = history /\ thesis.archived_at = None /\
             \E t \in Instants : t > known /\ thesis' = [thesis EXCEPT !.archived_at = t]
    <3>1. PICK t \in Instants : t > known /\ thesis' = [thesis EXCEPT !.archived_at = t]
      BY <2>3
    <3>2. thesis'.created_at = thesis.created_at /\ thesis'.archived_at = t
      BY <3>1 DEF StateOK, Identities
    <3>3. ~ ArchivedBy(thesis', known) /\ ~ ArchivedBy(thesis, known)
      BY <2>1, <2>3, <3>1, <3>2, ReplayBounds DEF ArchivedBy, Instants
    <3>4. QED
      BY <2>1, <2>3, <3>2, <3>3 DEF Answer, SelectThesisVersion
  <2>4. QED
    BY <2>2, <2>3 DEF LearnLater
<1>2. QED
  BY <1>1, StateTyped, PTL DEF LaterFactsChangeNothing

(* With a later knowledge cutoff a version is replaced, if at all, by a    *)
(* greater one.                                                            *)
THEOREM KnowledgeAdvances == ReplaySpec => KnowledgeNeverRegresses
<1>1. StateOK /\ [ReplayNext]_replayVars =>
        [AdvanceKnown /\ Answer.status = "selected" /\ Answer'.status = "selected"
          => Answer'.version = Answer.version
             \/ Answer'.version.valid_from > Answer.version.valid_from
             \/ /\ Answer'.version.valid_from = Answer.version.valid_from
                /\ Answer'.version.version > Answer.version.version]_replayVars
  <2> SUFFICES ASSUME StateOK, AdvanceKnown, Answer.status = "selected",
                      Answer'.status = "selected"
               PROVE  \/ Answer'.version = Answer.version
                      \/ Answer'.version.valid_from > Answer.version.valid_from
                      \/ /\ Answer'.version.valid_from = Answer.version.valid_from
                         /\ Answer'.version.version > Answer.version.version
    OBVIOUS
  <2>1. /\ thesis' = thesis /\ history' = history /\ effective' = effective
        /\ known' = known + 1 /\ known \in Int /\ known' \in Instants
    BY ReplayBounds DEF AdvanceKnown, StateOK, Instants
  <2> DEFINE before == Candidates(history, effective, known)
             after == Candidates(history, effective, known')
  <2>2. before # {} /\ Answer.version = Greatest(before)
    BY SelectionOutcome DEF StateOK, Answer, Chosen
  <2>3. after # {} /\ Answer'.version = Greatest(after)
    <3>1. Answer' = SelectThesisVersion(thesis, history, effective, known')
      BY <2>1 DEF Answer
    <3>2. Chosen(thesis, history, effective, known')
      BY <2>1, <3>1, SelectionOutcome DEF StateOK
    <3>3. Answer'.version = Greatest(after)
      BY <2>1, <3>1, <3>2, SelectionOutcome DEF StateOK
    <3>4. QED
      BY <3>2, <3>3 DEF Chosen
  <2>4. before \subseteq after /\ after \subseteq history
    <3>1. \A v \in history : v.approved_at \in Int
      BY RowFields DEF StateOK
    <3>2. QED
      BY <2>1, <3>1 DEF Candidates, Effective, Approved
  <2>5. after \subseteq Rows /\ UniqueNumbers(after)
    BY <2>4 DEF StateOK, UniqueNumbers
  <2> HIDE DEF before, after
  <2>6. Greatest(before) \in after /\ Greatest(after) \in after
    BY <2>2, <2>3, <2>4, <2>5, GreatestExists
  <2>7. \/ Greatest(before) = Greatest(after)
        \/ Succeeds(Greatest(after), Greatest(before))
    BY <2>5, <2>6, GreatestIs
  <2>8. \A v \in after : v.valid_from \in Int /\ v.version \in Int
    BY <2>5, RowFields
  <2>9. QED
    BY <2>2, <2>3, <2>6, <2>7, <2>8 DEF Succeeds
<1>2. QED
  BY <1>1, StateTyped, PTL DEF ReplaySpec, KnowledgeNeverRegresses

(* A later effective cutoff selects the same version or one that was not   *)
(* yet effective: an older version does not return when a newer expires.   *)
THEOREM ExpiryIsFinal == ReplaySpec => ExpiryNeverResurrects
<1>1. StateOK =>
        [AdvanceEffective /\ Answer'.status = "selected"
          => Answer'.version = Answer.version
             \/ Answer'.version.valid_from > effective]_replayVars
  <2> SUFFICES ASSUME StateOK, AdvanceEffective, Answer'.status = "selected",
                      ~ (Answer'.version.valid_from > effective)
               PROVE  Answer'.version = Answer.version
    OBVIOUS
  <2>1. /\ thesis' = thesis /\ history' = history /\ known' = known
        /\ effective' = effective + 1 /\ effective \in Int /\ effective' \in Instants
    BY ReplayBounds DEF AdvanceEffective, StateOK, Instants
  <2> DEFINE before == Candidates(history, effective, known)
             after == Candidates(history, effective', known)
             g == Greatest(after)
  <2>2. /\ after # {} /\ Answer'.version = g
        /\ thesis.created_at <= known /\ ~ ArchivedBy(thesis, known) /\ ~ Expired(g, effective')
    <3>1. Answer' = SelectThesisVersion(thesis, history, effective', known)
      BY <2>1 DEF Answer
    <3>2. Chosen(thesis, history, effective', known)
      BY <2>1, <3>1, SelectionOutcome DEF StateOK
    <3>3. Answer'.version = g
      BY <2>1, <3>1, <3>2, SelectionOutcome DEF StateOK
    <3>4. QED
      BY <3>2, <3>3 DEF Chosen
  <2>3. /\ before \subseteq after /\ after \subseteq Rows
        /\ \A v \in after : v.valid_from <= effective => v \in before
    <3>1. \A v \in history : v \in Rows /\ v.valid_from \in Int
      BY RowFields DEF StateOK
    <3>2. QED
      BY <2>1, <3>1 DEF Candidates, Effective, Approved
  <2>4. UniqueNumbers(after) /\ UniqueNumbers(before)
    BY DEF StateOK, UniqueNumbers, Candidates, Effective, Approved
  <2> HIDE DEF before, after
  <2>5. g \in after
    BY <2>2, <2>3, GreatestExists
  <2>6. g \in before
    BY <2>1, <2>2, <2>3, <2>5, RowFields
  <2>7. g = Greatest(before)
    BY <2>3, <2>4, <2>5, <2>6, GreatestIs
  <2>8. ~ Expired(g, effective)
    <3>1. g.valid_to # None => g.valid_to \in Int
      BY <2>3, <2>5, RowFields
    <3>2. QED
      BY <2>1, <2>2, <3>1 DEF Expired
  <2>9. Answer.version = g
    <3>1. Chosen(thesis, history, effective, known)
      BY <2>2, <2>6, <2>7, <2>8 DEF Chosen, before
    <3>2. QED
      BY <2>7, <3>1, SelectionOutcome DEF StateOK, Answer, before
  <2>10. QED
    BY <2>2, <2>9
<1>2. QED
  BY <1>1, StateTyped, PTL DEF ExpiryNeverResurrects

-----------------------------------------------------------------------------
(* The store.                                                              *)

(* Every operation leaves each row and each request well formed, given     *)
(* that the rows a commit publishes are.                                   *)
LEMMA TypePreserved == TypeOK /\ Requests /\ [Next]_vars => TypeOK'
<1> USE StoreAssumption DEF TypeOK, Times
<1> SUFFICES ASSUME TypeOK, Requests, [Next]_vars PROVE TypeOK'
  OBVIOUS
<1>a. ASSUME NEW c \in Clients, NEW phase \in Phases, Advance(c, phase) PROVE TypeOK'
  BY <1>a DEF Advance, Transaction
<1>b. ASSUME NEW c \in Clients, Rollback(c) PROVE TypeOK'
  BY <1>b DEF Rollback, Transaction, Idle, Phases
<1>1. ASSUME NEW c \in Clients, Begin(c) PROVE TypeOK'
  <2>1. PICK op \in Operations, k \in Keys :
           txns' = [txns EXCEPT ![c] = [Idle EXCEPT !.phase = "begun", !.op = op,
                                                    !.key = k, !.clock = now]]
    BY <1>1 DEF Begin
  <2>2. [Idle EXCEPT !.phase = "begun", !.op = op, !.key = k, !.clock = now]
           \in Transaction
    BY DEF Idle, Transaction, Phases
  <2>3. QED
    BY <1>1, <2>1, <2>2 DEF Begin
<1>2. ASSUME NEW c \in Clients, ReadForCreate(c) PROVE TypeOK'
  <2>1. CASE Rollback(c)
    BY <2>1, <1>b
  <2>2. CASE ~ Rollback(c)
    <3> DEFINE Checked(security, activation) ==
                 [txns[c] EXCEPT !.phase = "checked",
                                 !.identity = Thesis(security, txns[c].clock),
                                 !.draft = Version(1, activation, txns[c].clock, 0)]
    <3>1. PICK security \in Securities, activation \in Times :
             /\ txns' = [txns EXCEPT ![c] = Checked(security, activation)]
             /\ UNCHANGED <<now, theses, versions>>
      BY <1>2, <2>2 DEF ReadForCreate
    <3>2. txns[c].clock \in Times
      BY DEF Transaction
    <3>3. Thesis(security, txns[c].clock) \in ThesisRow
      BY <3>2 DEF Thesis, ThesisRow
    <3>4. Version(1, activation, txns[c].clock, 0) \in VersionRow
      BY <3>2 DEF Version, VersionRow
    <3>5. Checked(security, activation) \in Transaction
      BY <3>3, <3>4 DEF Transaction, Phases
    <3>6. QED
      BY <3>1, <3>5
  <2>3. QED
    BY <2>1, <2>2
<1>3. ASSUME NEW c \in Clients, ReadForAppend(c) PROVE TypeOK'
  <2>1. CASE Rollback(c)
    BY <2>1, <1>b
  <2>2. CASE ~ Rollback(c)
    <3>1. /\ txns[c] \in Transaction
          /\ txns[c].phase = "begun" /\ txns[c].op = "append"
          /\ txns[c].key \in Keys
      BY <1>3 DEF ReadForAppend, Requests, Request, DraftShape
    <3> DEFINE Drafted(latest, activation, expected) ==
                 [txns[c] EXCEPT !.phase = "read",
                                 !.draft = Version(latest.version + 1, activation,
                                                   txns[c].clock, expected)]
    <3>2. PICK latest \in versions[txns[c].key], activation \in Times,
               expected \in 1..MaxVersions :
             /\ txns' = [txns EXCEPT ![c] = Drafted(latest, activation, expected)]
             /\ UNCHANGED <<now, theses, versions>>
      BY <1>3, <2>2 DEF ReadForAppend
    <3>3. latest.version \in Nat \ {0}
      BY <3>1, <3>2 DEF VersionRow
    <3>4. Version(latest.version + 1, activation, txns[c].clock, expected)
             \in VersionRow
      BY <3>1, <3>3 DEF Version, VersionRow, Transaction
    <3>5. Drafted(latest, activation, expected) \in Transaction
      BY <3>1, <3>4 DEF Transaction, Phases
    <3>6. QED
      BY <3>2, <3>5
  <2>3. QED
    BY <2>1, <2>2
<1>4. ASSUME NEW c \in Clients, ReadForArchive(c) PROVE TypeOK'
  BY <1>4, <1>a, <1>b DEF ReadForArchive, Phases
<1>5. ASSUME NEW c \in Clients, LockForAppend(c) PROVE TypeOK'
  BY <1>5, <1>a, <1>b DEF LockForAppend, Phases
<1>6. ASSUME NEW c \in Clients, LockForArchive(c) PROVE TypeOK'
  BY <1>6, <1>a, <1>b DEF LockForArchive, Phases
<1>7. ASSUME NEW c \in Clients, Write(c) PROVE TypeOK'
  BY <1>7, <1>a, <1>b DEF Write, Phases
<1>8. ASSUME NEW c \in Clients, Commit(c) PROVE TypeOK'
  <2> DEFINE t == txns[c]
  <2>1. t \in Transaction /\ t.phase = "written" /\ DraftShape(c) /\ DraftFollows(c)
    BY <1>8 DEF Commit, Requests, Request
  <2>2. t.key \in Keys /\ t.op \in Operations
    BY <2>1 DEF DraftShape
  <2>3. theses' \in [Keys -> ThesisRow \cup {None}]
    <3>1. CASE t.op = "create"
      BY <1>8, <2>1, <2>2, <3>1 DEF Commit, DraftShape
    <3>2. CASE t.op = "archive"
      <4>1. theses[t.key] \in ThesisRow /\ t.clock \in Times
        BY <2>1, <2>2, <3>2 DEF DraftFollows, Transaction
      <4>2. [theses[t.key] EXCEPT !.archived_at = t.clock] \in ThesisRow
        BY <4>1 DEF ThesisRow
      <4>3. QED
        BY <1>8, <2>2, <3>2, <4>2 DEF Commit
    <3>3. CASE t.op = "append"
      BY <1>8, <3>3 DEF Commit
    <3>4. QED
      BY <2>2, <3>1, <3>2, <3>3 DEF Operations
  <2>4. versions' \in [Keys -> SUBSET VersionRow]
    BY <1>8, <2>1, <2>2 DEF Commit, DraftShape, Operations
  <2>5. QED
    BY <1>8, <2>3, <2>4 DEF Commit, Transaction, Idle, Phases
<1>9. ASSUME NEW c \in Clients, Abort(c) PROVE TypeOK'
  BY <1>9, <1>b DEF Abort
<1>10. CASE Tick
  BY <1>10 DEF Tick
<1>11. CASE UNCHANGED vars
  BY <1>11 DEF vars
<1>12. QED
  BY <1>1, <1>2, <1>3, <1>4, <1>5, <1>6, <1>7, <1>8, <1>9, <1>10, <1>11
     DEF Next, Progress

-----------------------------------------------------------------------------
(* A request is as sound as before when neither it nor the tables change.  *)
LEMMA RequestKept ==
  ASSUME NEW d \in Clients, Request(d), txns'[d] = txns[d],
         UNCHANGED <<theses, versions>>
  PROVE  Request(d)'
BY DEF Request, DraftShape, DraftFollows, FlushedIsNew

(* A request that has ended or has only begun has nothing to keep.         *)
LEMMA RequestFresh ==
  ASSUME NEW c \in Clients, UNCHANGED <<theses, versions>>,
         \/ txns'[c] = Idle
         \/ /\ txns'[c].phase = "begun"
            /\ txns'[c].op \in Operations /\ txns'[c].key \in Keys
  PROVE  Request(c)'
BY DEF Request, DraftShape, DraftFollows, FlushedIsNew, Idle

(* An append's draft passes the repository's checks only if it follows the *)
(* latest committed version.                                               *)
LEMMA AllowedFollows ==
  ASSUME TypeOK, HistoryContiguous, NEW k \in Keys, theses[k] # None,
         NEW draft \in VersionRow, AppendAllowed(k, draft)
  PROVE  /\ draft.version = draft.base + 1
         /\ \E v \in versions[k] : v.version = draft.base /\ v.valid_from <= draft.valid_from
<1>1. versions[k] # {} /\ versions[k] \subseteq VersionRow
  BY DEF TypeOK, HistoryContiguous
<1>2. IsLatestNumber(versions[k], draft.base) /\ draft.version = draft.base + 1
  BY DEF AppendAllowed
<1>3. PICK v \in versions[k] : v.version = draft.base
  BY <1>1, <1>2 DEF IsLatestNumber, Numbers
<1>4. ~ (draft.valid_from < v.valid_from)
  BY <1>2, <1>3 DEF AppendAllowed, PrecedesLatest
<1>5. v.valid_from \in Int /\ draft.valid_from \in Int
  BY <1>1, <1>3, StoreAssumption DEF VersionRow, Times
<1>6. QED
  BY <1>2, <1>3, <1>4, <1>5

(* A commit only adds rows, to the one thesis of its request.              *)
LEMMA CommitAdds ==
  ASSUME TypeOK, Requests, NEW c \in Clients, Commit(c)
  PROVE  /\ txns[c].phase = "written" /\ txns[c].key \in Keys
         /\ txns' = [txns EXCEPT ![c] = Idle]
         /\ \A k \in Keys : versions[k] \subseteq versions'[k]
         /\ \A k \in Keys : theses[k] # None => theses'[k] # None
         /\ \A k \in Keys \ {txns[c].key} :
               theses'[k] = theses[k] /\ versions'[k] = versions[k]
<1> DEFINE t == txns[c]
<1>1. /\ t.phase = "written" /\ t.key \in Keys /\ t.op \in Operations
      /\ t.op = "create" => t.identity \in ThesisRow
      /\ txns' = [txns EXCEPT ![c] = Idle]
  BY DEF Commit, Requests, Request, DraftShape
<1>2. \A k \in Keys : versions[k] \subseteq versions'[k]
  BY <1>1 DEF Commit, TypeOK
<1>3. \A k \in Keys \ {t.key} : theses'[k] = theses[k] /\ versions'[k] = versions[k]
  BY <1>1 DEF Commit, TypeOK, Operations
<1>4. theses[t.key] # None => theses'[t.key] # None
  <2>1. CASE t.op = "create"
    BY <1>1, <2>1, NoneAssumption DEF Commit, TypeOK
  <2>2. CASE t.op = "append"
    BY <2>2 DEF Commit
  <2>3. CASE t.op = "archive"
    <3>1. SUFFICES ASSUME theses[t.key] # None PROVE theses'[t.key] # None
      OBVIOUS
    <3>2. theses[t.key] \in ThesisRow /\ t.clock \in Times
      BY <1>1, <3>1 DEF TypeOK, Transaction
    <3>3. [theses[t.key] EXCEPT !.archived_at = t.clock] \in ThesisRow
      BY <3>2 DEF ThesisRow
    <3>4. theses'[t.key] = [theses[t.key] EXCEPT !.archived_at = t.clock]
      BY <1>1, <2>3 DEF Commit, TypeOK
    <3>5. QED
      BY <3>3, <3>4, NoneAssumption
  <2>4. QED
    BY <1>1, <2>1, <2>2, <2>3 DEF Operations
<1>5. QED
  BY <1>1, <1>2, <1>3, <1>4

(* No step of one request spoils what another has read, checked or         *)
(* flushed, and each step leaves its own request sound.                    *)
LEMMA RequestsPreserved ==
    TypeOK /\ Requests /\ WritesExclusive /\ HistoryContiguous /\ [Next]_vars => Requests'
<1> SUFFICES ASSUME TypeOK, Requests, WritesExclusive, HistoryContiguous, [Next]_vars,
                    NEW d \in Clients
             PROVE  Request(d)'
  BY DEF Requests
<1>t. Request(d) /\ txns[d] \in Transaction /\ txns \in [Clients -> Transaction]
  BY DEF Requests, TypeOK
<1>a. ASSUME NEW c \in Clients, c # d, NEW new, txns' = [txns EXCEPT ![c] = new],
             UNCHANGED <<theses, versions>>
      PROVE  Request(d)'
  BY <1>a, <1>t, RequestKept
<1>b. ASSUME NEW c \in Clients, Rollback(c) PROVE Request(d)'
  <2>1. CASE c = d
    BY <1>b, <1>t, <2>1, RequestFresh DEF Rollback
  <2>2. CASE c # d
    BY <1>b, <1>a, <2>2 DEF Rollback
  <2>3. QED
    BY <2>1, <2>2
<1>1. ASSUME NEW c \in Clients, Begin(c) PROVE Request(d)'
  <2>1. PICK op \in Operations, k \in Keys :
           txns' = [txns EXCEPT ![c] = [Idle EXCEPT !.phase = "begun", !.op = op,
                                                    !.key = k, !.clock = now]]
    BY <1>1 DEF Begin
  <2>2. UNCHANGED <<theses, versions>>
    BY <1>1 DEF Begin
  <2>3. CASE c = d
    BY <1>t, <2>1, <2>2, <2>3, RequestFresh DEF Idle
  <2>4. CASE c # d
    BY <1>a, <2>1, <2>2, <2>4
  <2>5. QED
    BY <2>3, <2>4
<1>2. ASSUME NEW c \in Clients, ReadForCreate(c) PROVE Request(d)'
  <2> DEFINE Checked(security, activation) ==
               [txns[c] EXCEPT !.phase = "checked",
                               !.identity = Thesis(security, txns[c].clock),
                               !.draft = Version(1, activation, txns[c].clock, 0)]
  <2>1. SUFFICES ASSUME ~ Rollback(c) PROVE Request(d)'
    BY <1>b
  <2>2. PICK security \in Securities, activation \in Times :
           /\ txns' = [txns EXCEPT ![c] = Checked(security, activation)]
           /\ UNCHANGED <<now, theses, versions>>
    BY <1>2, <2>1 DEF ReadForCreate
  <2>3. CASE c = d
    <3>1. txns[c] \in Transaction /\ txns[c].op = "create" /\ txns[c].key \in Keys
      BY <1>2, <1>t, <2>3 DEF ReadForCreate, Request, DraftShape
    <3>2. /\ txns'[c] = Checked(security, activation)
          /\ txns'[c].phase = "checked" /\ txns'[c].op = "create"
          /\ txns'[c].key = txns[c].key /\ txns'[c].clock = txns[c].clock
          /\ txns'[c].identity = Thesis(security, txns[c].clock)
          /\ txns'[c].draft = Version(1, activation, txns[c].clock, 0)
      BY <1>t, <2>2, <3>1 DEF Transaction
    <3>3. txns[c].clock \in Times
      BY <3>1 DEF Transaction
    <3>4. Thesis(security, txns[c].clock) \in ThesisRow
      BY <3>3 DEF Thesis, ThesisRow
    <3>5. Version(1, activation, txns[c].clock, 0) \in VersionRow
      BY <3>3 DEF Version, VersionRow
    <3>6. QED
      BY <2>3, <3>1, <3>2, <3>4, <3>5
         DEF Request, DraftShape, DraftFollows, FlushedIsNew, Operations, Thesis, Version
  <2>4. CASE c # d
    BY <1>a, <2>2, <2>4
  <2>5. QED
    BY <2>3, <2>4
<1>3. ASSUME NEW c \in Clients, ReadForAppend(c) PROVE Request(d)'
  <2> DEFINE Drafted(latest, activation, expected) ==
               [txns[c] EXCEPT !.phase = "read",
                               !.draft = Version(latest.version + 1, activation,
                                                 txns[c].clock, expected)]
  <2>1. SUFFICES ASSUME ~ Rollback(c) PROVE Request(d)'
    BY <1>b
  <2>2. PICK latest \in versions[txns[c].key], activation \in Times,
             expected \in 1..MaxVersions :
           /\ txns' = [txns EXCEPT ![c] = Drafted(latest, activation, expected)]
           /\ UNCHANGED <<now, theses, versions>>
           /\ theses[txns[c].key] # None
    BY <1>3, <2>1 DEF ReadForAppend
  <2>3. CASE c = d
    <3>1. txns[c] \in Transaction /\ txns[c].op = "append" /\ txns[c].key \in Keys
      BY <1>3, <1>t, <2>3 DEF ReadForAppend, Request, DraftShape
    <3>2. /\ txns'[c].phase = "read" /\ txns'[c].op = "append"
          /\ txns'[c].key = txns[c].key /\ txns'[c].clock = txns[c].clock
          /\ txns'[c].draft = Version(latest.version + 1, activation,
                                      txns[c].clock, expected)
      BY <1>t, <2>2, <3>1 DEF Transaction
    <3>3. latest.version \in Nat \ {0} /\ txns[c].clock \in Times
      BY <2>2, <3>1 DEF VersionRow, TypeOK, Transaction
    <3>4. Version(latest.version + 1, activation, txns[c].clock, expected) \in VersionRow
      BY <3>3, StoreAssumption DEF Version, VersionRow
    <3>5. QED
      BY <2>2, <2>3, <3>1, <3>2, <3>4
         DEF Request, DraftShape, DraftFollows, FlushedIsNew, Operations, Version
  <2>4. CASE c # d
    BY <1>a, <2>2, <2>4
  <2>5. QED
    BY <2>3, <2>4
<1>4. ASSUME NEW c \in Clients, ReadForArchive(c) PROVE Request(d)'
  <2>1. SUFFICES ASSUME Advance(c, "read"), theses[txns[c].key] # None PROVE Request(d)'
    BY <1>4, <1>b DEF ReadForArchive
  <2>2. CASE c = d
    BY <1>4, <1>t, <2>1, <2>2
       DEF ReadForArchive, Advance, Transaction, Request, DraftShape, DraftFollows,
           FlushedIsNew
  <2>3. CASE c # d
    BY <1>t, <2>1, <2>3, RequestKept DEF Advance
  <2>4. QED
    BY <2>2, <2>3
<1>5. ASSUME NEW c \in Clients, LockForAppend(c) PROVE Request(d)'
  <2>1. SUFFICES ASSUME Advance(c, "checked"), AppendAllowed(txns[c].key, txns[c].draft)
                 PROVE  Request(d)'
    BY <1>5, <1>b DEF LockForAppend
  <2>2. CASE c = d
    <3>1. /\ txns[c].phase = "read" /\ txns[c].op = "append" /\ txns[c].key \in Keys
          /\ txns[c].draft \in VersionRow /\ txns[c].draft.approved_at = txns[c].clock
          /\ theses[txns[c].key] # None
      BY <1>5, <1>t, <2>2 DEF LockForAppend, Request, DraftShape, DraftFollows
    <3>2. /\ txns[c].draft.version = txns[c].draft.base + 1
          /\ \E v \in versions[txns[c].key] :
                /\ v.version = txns[c].draft.base
                /\ v.valid_from <= txns[c].draft.valid_from
      BY <2>1, <3>1, AllowedFollows
    <3>3. QED
      BY <1>t, <2>1, <2>2, <3>1, <3>2
         DEF Advance, Transaction, Request, DraftShape, DraftFollows, FlushedIsNew,
             Operations
  <2>3. CASE c # d
    BY <1>t, <2>1, <2>3, RequestKept DEF Advance
  <2>4. QED
    BY <2>2, <2>3
<1>6. ASSUME NEW c \in Clients, LockForArchive(c) PROVE Request(d)'
  <2>1. SUFFICES ASSUME Advance(c, "checked") PROVE Request(d)'
    BY <1>6, <1>b DEF LockForArchive
  <2>2. CASE c = d
    BY <1>6, <1>t, <2>1, <2>2
       DEF LockForArchive, Advance, Transaction, Request, DraftShape, DraftFollows,
           FlushedIsNew
  <2>3. CASE c # d
    BY <1>t, <2>1, <2>3, RequestKept DEF Advance
  <2>4. QED
    BY <2>2, <2>3
<1>7. ASSUME NEW c \in Clients, Write(c) PROVE Request(d)'
  <2>1. SUFFICES ASSUME Advance(c, "written"), ~ Duplicate(c) PROVE Request(d)'
    BY <1>7, <1>b DEF Write
  <2>2. CASE c = d
    BY <1>7, <1>t, <2>1, <2>2
       DEF Write, Duplicate, Advance, Transaction, Request, DraftShape, DraftFollows,
           FlushedIsNew
  <2>3. CASE c # d
    BY <1>t, <2>1, <2>3, RequestKept DEF Advance
  <2>4. QED
    BY <2>2, <2>3
<1>8. ASSUME NEW c \in Clients, Commit(c) PROVE Request(d)'
  <2>1. /\ txns[c].phase = "written" /\ txns[c].key \in Keys
        /\ txns' = [txns EXCEPT ![c] = Idle]
        /\ \A k \in Keys : versions[k] \subseteq versions'[k]
        /\ \A k \in Keys : theses[k] # None => theses'[k] # None
        /\ \A k \in Keys \ {txns[c].key} :
              theses'[k] = theses[k] /\ versions'[k] = versions[k]
    BY <1>8, CommitAdds
  <2>2. CASE c = d
    BY <1>t, <2>1, <2>2 DEF Idle, Request, DraftShape, DraftFollows, FlushedIsNew
  <2>3. CASE c # d
    <3>1. txns'[d] = txns[d] /\ (txns[d].phase # "idle" => txns[d].key \in Keys)
      BY <1>t, <2>1, <2>3 DEF Request, DraftShape
    <3>2. txns[d].phase = "written" => txns[d].key # txns[c].key
      BY <2>1, <2>3 DEF WritesExclusive
    <3>3. DraftShape(d)'
      BY <1>t, <3>1 DEF Request, DraftShape
    <3>4. DraftFollows(d)'
      BY <1>t, <2>1, <3>1 DEF Request, DraftFollows
    <3>5. FlushedIsNew(d)'
      BY <1>t, <2>1, <3>1, <3>2 DEF Request, FlushedIsNew
    <3>6. QED
      BY <3>3, <3>4, <3>5 DEF Request
  <2>4. QED
    BY <2>2, <2>3
<1>9. ASSUME NEW c \in Clients, Abort(c) PROVE Request(d)'
  BY <1>9, <1>b DEF Abort
<1>10. CASE Tick
  BY <1>10, <1>t, RequestKept DEF Tick
<1>11. CASE UNCHANGED vars
  BY <1>11, <1>t, RequestKept DEF vars
<1>12. QED
  BY <1>1, <1>2, <1>3, <1>4, <1>5, <1>6, <1>7, <1>8, <1>9, <1>10, <1>11
     DEF Next, Progress

-----------------------------------------------------------------------------
(* The steps as the locks see them: c is left without a lock or a flushed  *)
(* row, or passes its checks, or flushes, or commits.                      *)
Unlocked(c) ==
    /\ \A d \in Clients \ {c} : txns'[d] = txns[d]
    /\ \/ txns'[c].phase \in {"idle", "begun", "read"}
       \/ txns'[c].phase = "checked" /\ txns'[c].op = "create"
    /\ UNCHANGED <<theses, versions>>

Locked(c) ==
    /\ txns[c].phase = "read" /\ txns[c].op \in {"append", "archive"}
    /\ RowFree(c) /\ ~ Archived(txns[c].key)
    /\ Advance(c, "checked")

Flushed(c) ==
    /\ txns[c].phase = "checked"
    /\ ~ FlushBlocked(c) /\ ~ Duplicate(c)
    /\ Advance(c, "written")

(* Every step is one of these, or leaves requests and tables alone.        *)
LEMMA StepKinds ==
  ASSUME TypeOK, [Next]_vars
  PROVE  \/ UNCHANGED <<theses, versions, txns>>
         \/ \E c \in Clients : Unlocked(c) \/ Locked(c) \/ Flushed(c) \/ Commit(c)
<1> DEFINE Kind(c) == Unlocked(c) \/ Locked(c) \/ Flushed(c) \/ Commit(c)
<1>t. txns \in [Clients -> Transaction]
  BY DEF TypeOK
<1>b. ASSUME NEW c \in Clients, Rollback(c) PROVE Kind(c)
  BY <1>b, <1>t DEF Rollback, Idle, Unlocked
<1>1. ASSUME NEW c \in Clients, Begin(c) PROVE Kind(c)
  <2>1. PICK op \in Operations, k \in Keys :
           txns' = [txns EXCEPT ![c] = [Idle EXCEPT !.phase = "begun", !.op = op,
                                                    !.key = k, !.clock = now]]
    BY <1>1 DEF Begin
  <2>2. [Idle EXCEPT !.phase = "begun", !.op = op, !.key = k, !.clock = now].phase
           = "begun"
    BY DEF Idle
  <2>3. QED
    BY <1>1, <1>t, <2>1, <2>2 DEF Begin, Unlocked
<1>2. ASSUME NEW c \in Clients, ReadForCreate(c) PROVE Kind(c)
  <2> DEFINE Checked(security, activation) ==
               [txns[c] EXCEPT !.phase = "checked",
                               !.identity = Thesis(security, txns[c].clock),
                               !.draft = Version(1, activation, txns[c].clock, 0)]
  <2>1. SUFFICES ASSUME ~ Rollback(c) PROVE Kind(c)
    BY <1>b
  <2>2. PICK security \in Securities, activation \in Times :
           /\ txns' = [txns EXCEPT ![c] = Checked(security, activation)]
           /\ UNCHANGED <<now, theses, versions>>
    BY <1>2, <2>1 DEF ReadForCreate
  <2>3. txns[c] \in Transaction /\ txns[c].op = "create"
    BY <1>2, <1>t DEF ReadForCreate
  <2>4. /\ Checked(security, activation).phase = "checked"
        /\ Checked(security, activation).op = "create"
    BY <2>3 DEF Transaction
  <2>5. QED
    BY <1>t, <2>2, <2>4 DEF Unlocked
<1>3. ASSUME NEW c \in Clients, ReadForAppend(c) PROVE Kind(c)
  <2> DEFINE Drafted(latest, activation, expected) ==
               [txns[c] EXCEPT !.phase = "read",
                               !.draft = Version(latest.version + 1, activation,
                                                 txns[c].clock, expected)]
  <2>1. SUFFICES ASSUME ~ Rollback(c) PROVE Kind(c)
    BY <1>b
  <2>2. PICK latest \in versions[txns[c].key], activation \in Times,
             expected \in 1..MaxVersions :
           /\ txns' = [txns EXCEPT ![c] = Drafted(latest, activation, expected)]
           /\ UNCHANGED <<now, theses, versions>>
    BY <1>3, <2>1 DEF ReadForAppend
  <2>3. Drafted(latest, activation, expected).phase = "read"
    BY <1>t DEF Transaction
  <2>4. QED
    BY <1>t, <2>2, <2>3 DEF Unlocked
<1>4. ASSUME NEW c \in Clients, ReadForArchive(c) PROVE Kind(c)
  <2>1. SUFFICES ASSUME Advance(c, "read") PROVE Kind(c)
    BY <1>4, <1>b DEF ReadForArchive
  <2>2. [txns[c] EXCEPT !.phase = "read"].phase = "read"
    BY <1>t DEF Transaction
  <2>3. QED
    BY <1>t, <2>1, <2>2 DEF Advance, Unlocked
<1>5. ASSUME NEW c \in Clients, LockForAppend(c) PROVE Kind(c)
  BY <1>5, <1>b DEF LockForAppend, Locked, AppendAllowed
<1>6. ASSUME NEW c \in Clients, LockForArchive(c) PROVE Kind(c)
  BY <1>6, <1>b DEF LockForArchive, Locked
<1>7. ASSUME NEW c \in Clients, Write(c) PROVE Kind(c)
  BY <1>7, <1>b DEF Write, Flushed
<1>8. ASSUME NEW c \in Clients, Abort(c) PROVE Kind(c)
  BY <1>8, <1>b DEF Abort
<1>9. QED
  BY <1>1, <1>2, <1>3, <1>4, <1>5, <1>6, <1>7, <1>8 DEF Next, Progress, Tick, vars

(* Two requests never have rows of one thesis flushed at once.             *)
LEMMA WritesExclusivePreserved ==
    TypeOK /\ Requests /\ WritesExclusive /\ LocksExclusive /\ [Next]_vars
       => WritesExclusive'
<1> SUFFICES ASSUME TypeOK, Requests, WritesExclusive, LocksExclusive, [Next]_vars
             PROVE  WritesExclusive'
  OBVIOUS
<1>t. txns \in [Clients -> Transaction]
  BY DEF TypeOK
<1>1. CASE UNCHANGED <<theses, versions, txns>>
  BY <1>1 DEF WritesExclusive
<1>2. ASSUME NEW x \in Clients, Unlocked(x) PROVE WritesExclusive'
  BY <1>2, <1>t DEF Unlocked, WritesExclusive
<1>3. ASSUME NEW x \in Clients, Locked(x) PROVE WritesExclusive'
  BY <1>3, <1>t DEF Locked, Advance, WritesExclusive, Transaction
<1>4. ASSUME NEW x \in Clients, Flushed(x) PROVE WritesExclusive'
  <2>1. ASSUME NEW d \in Clients, d # x, txns[d].phase = "written"
        PROVE  RowLocks /\ txns[d].key # txns[x].key
    <3>1. /\ RowLocks
          /\ ~ (txns[x].op = "create" /\ txns[d].op = "create" /\ txns[x].key = txns[d].key)
      BY <1>4, <2>1 DEF Flushed, FlushBlocked
    <3>2. /\ txns[x].op \in Operations /\ txns[d].op \in Operations
          /\ txns[d].op = "create" => theses[txns[d].key] = None
          /\ txns[d].op # "create" => theses[txns[d].key] # None
          /\ txns[x].op = "create" => theses[txns[x].key] = None
          /\ txns[x].op # "create" => theses[txns[x].key] # None
      BY <1>4, <2>1 DEF Requests, Request, DraftShape, DraftFollows, FlushedIsNew,
                        Flushed, Duplicate, Operations
    <3>3. txns[x].op # "create" /\ txns[d].op # "create" => txns[d].key # txns[x].key
      BY <1>4, <2>1, <3>1, <3>2 DEF LocksExclusive, HoldsRow, Flushed, Operations
    <3>4. QED
      BY <3>1, <3>2, <3>3
  <2>2. \A d \in Clients : txns'[d].key = txns[d].key
    BY <1>4, <1>t DEF Flushed, Advance, Transaction
  <2>3. \A d \in Clients \ {x} : txns'[d] = txns[d]
    BY <1>4, <1>t DEF Flushed, Advance
  <2>4. QED
    BY <2>1, <2>2, <2>3 DEF WritesExclusive
<1>5. ASSUME NEW x \in Clients, Commit(x) PROVE WritesExclusive'
  BY <1>5, <1>t DEF Commit, Idle, WritesExclusive
<1>6. QED
  BY <1>1, <1>2, <1>3, <1>4, <1>5, StepKinds

(* With row locks, a held thesis has one holder and stays open.            *)
LEMMA LocksExclusivePreserved ==
    TypeOK /\ Requests /\ LocksExclusive /\ [Next]_vars => LocksExclusive'
<1> SUFFICES ASSUME TypeOK, Requests, LocksExclusive, [Next]_vars, RowLocks
             PROVE  LocksExclusive'
  BY DEF LocksExclusive
<1>t. txns \in [Clients -> Transaction]
  BY DEF TypeOK
<1>h. /\ \A c, d \in Clients : c # d /\ HoldsRow(c) /\ HoldsRow(d)
            => txns[c].key # txns[d].key
      /\ \A c \in Clients : HoldsRow(c) => ~ Archived(txns[c].key)
  BY DEF LocksExclusive
<1>1. CASE UNCHANGED <<theses, versions, txns>>
  BY <1>1, <1>h DEF LocksExclusive, HoldsRow, Archived
<1>2. ASSUME NEW x \in Clients, Unlocked(x) PROVE LocksExclusive'
  <2>1. ~ HoldsRow(x)'
    BY <1>2 DEF Unlocked, HoldsRow
  <2>2. \A d \in Clients \ {x} : txns'[d] = txns[d]
    BY <1>2, <1>t DEF Unlocked
  <2>3. QED
    BY <1>2, <1>h, <2>1, <2>2 DEF Unlocked, LocksExclusive, HoldsRow, Archived
<1>3. ASSUME NEW x \in Clients, Locked(x) PROVE LocksExclusive'
  <2>1. \A d \in Clients \ {x} : HoldsRow(d) => txns[d].key # txns[x].key
    BY <1>3 DEF Locked, RowFree, HoldsRow
  <2>2. \A d \in Clients : txns'[d].key = txns[d].key /\ txns'[d].op = txns[d].op
    BY <1>3, <1>t DEF Locked, Advance, Transaction
  <2>3. \A d \in Clients \ {x} : txns'[d] = txns[d]
    BY <1>3, <1>t DEF Locked, Advance
  <2>4. ~ Archived(txns[x].key) /\ UNCHANGED theses
    BY <1>3 DEF Locked, Advance
  <2>5. QED
    BY <1>h, <2>1, <2>2, <2>3, <2>4 DEF LocksExclusive, HoldsRow, Archived
<1>4. ASSUME NEW x \in Clients, Flushed(x) PROVE LocksExclusive'
  <2>1. \A d \in Clients : txns'[d].key = txns[d].key /\ txns'[d].op = txns[d].op
    BY <1>4, <1>t DEF Flushed, Advance, Transaction
  <2>2. \A d \in Clients : HoldsRow(d)' => HoldsRow(d)
    BY <1>4, <1>t, <2>1 DEF Flushed, Advance, HoldsRow
  <2>3. UNCHANGED theses
    BY <1>4 DEF Flushed, Advance
  <2>4. QED
    BY <1>h, <2>1, <2>2, <2>3 DEF LocksExclusive, Archived
<1>5. ASSUME NEW x \in Clients, Commit(x) PROVE LocksExclusive'
  <2>1. txns[x].op \in Operations
    BY <1>5 DEF Commit, Requests, Request, DraftShape
  <2>2. ~ HoldsRow(x)' /\ \A d \in Clients \ {x} : txns'[d] = txns[d]
    BY <1>5, <1>t DEF Commit, HoldsRow, Idle
  <2>3. ASSUME NEW d \in Clients, d # x, HoldsRow(d)
        PROVE  ~ Archived(txns[d].key)'
    <3>1. txns[d].key \in Keys /\ theses[txns[d].key] # None
      BY <2>3 DEF HoldsRow, Requests, Request, DraftShape, DraftFollows
    <3>2. ~ Archived(txns[d].key)
      BY <1>h, <2>3
    <3>3. theses'[txns[d].key] = theses[txns[d].key]
      <4>1. txns[d].key # txns[x].key
        <5>1. CASE txns[x].op = "create"
          BY <1>5, <3>1, <5>1 DEF Commit, Requests, Request, FlushedIsNew
        <5>2. CASE txns[x].op # "create"
          BY <1>5, <1>h, <2>1, <2>3, <5>2 DEF Commit, HoldsRow, Operations
        <5>3. QED
          BY <5>1, <5>2
      <4>2. QED
        BY <1>5, <3>1, <4>1, CommitAdds
    <3>4. QED
      BY <2>2, <2>3, <3>2, <3>3 DEF Archived
  <2>4. QED
    BY <1>h, <2>2, <2>3 DEF LocksExclusive, HoldsRow
<1>6. QED
  BY <1>1, <1>2, <1>3, <1>4, <1>5, StepKinds

-----------------------------------------------------------------------------
(* What a commit does to the history of its thesis.                        *)
LEMMA CommittedHistory ==
  ASSUME TypeOK, Requests, NEW c \in Clients, Commit(c)
  PROVE  \/ UNCHANGED versions
         \/ /\ txns[c].op \in {"create", "append"}
            /\ txns[c].draft \in VersionRow
            /\ versions' = [versions EXCEPT ![txns[c].key] = @ \cup {txns[c].draft}]
BY DEF Commit, Requests, Request, DraftShape, Operations

(* Committing a draft extends the history by exactly the next version, not *)
(* activated before the ones it follows.                                   *)
LEMMA HistoryExtended ==
  ASSUME NEW S \in SUBSET VersionRow, NEW draft \in VersionRow,
         \A v, w \in S : v.version = w.version => v = w,
         \A v \in S : 1..v.version \subseteq Numbers(S),
         \A v, w \in S : v.version < w.version => v.valid_from <= w.valid_from,
         draft.version \notin Numbers(S),
         draft.version = draft.base + 1,
         \/ S = {} /\ draft.base = 0
         \/ \E v \in S : v.version = draft.base /\ v.valid_from <= draft.valid_from
  PROVE  LET T == S \cup {draft} IN
         /\ \A v, w \in T : v.version = w.version => v = w
         /\ \A v \in T : 1..v.version \subseteq Numbers(T)
         /\ \A v, w \in T : v.version < w.version => v.valid_from <= w.valid_from
<1> DEFINE T == S \cup {draft}
<1>t. \A v \in T : v.version \in Nat \ {0} /\ v.base \in Nat /\ v.valid_from \in Int
  BY StoreAssumption DEF VersionRow, Times
<1>1. \A v, w \in T : v.version = w.version => v = w
  BY DEF Numbers
<1>2. Numbers(S) \subseteq Numbers(T) /\ draft.version \in Numbers(T)
  BY DEF Numbers
<1>3. 1..draft.base \subseteq Numbers(S)
  BY <1>t
<1>4. ASSUME NEW v \in T PROVE 1..v.version \subseteq Numbers(T)
  <2>1. CASE v \in S
    BY <1>2, <2>1
  <2>2. CASE v = draft
    BY <1>2, <1>3, <1>t, <2>2
  <2>3. QED
    BY <2>1, <2>2
<1>5. ASSUME NEW v \in S PROVE v.version <= draft.base
  <2>1. draft.version \notin 1..v.version
    BY <1>5
  <2>2. QED
    BY <1>t, <2>1
<1>6. ASSUME NEW v \in S PROVE v.valid_from <= draft.valid_from
  <2>1. PICK u \in S : u.version = draft.base /\ u.valid_from <= draft.valid_from
    BY <1>6
  <2>2. v.version < u.version \/ v.version = u.version
    BY <1>5, <1>6, <1>t, <2>1
  <2>3. v.valid_from <= u.valid_from
    BY <1>6, <1>t, <2>1, <2>2
  <2>4. QED
    BY <1>6, <1>t, <2>1, <2>3
<1>7. ASSUME NEW v \in T, NEW w \in T, v.version < w.version
      PROVE  v.valid_from <= w.valid_from
  <2>1. CASE w \in S /\ v = draft
    BY <1>5, <1>7, <1>t, <2>1
  <2>2. CASE w = draft /\ v \in S
    BY <1>6, <2>2
  <2>3. CASE w = draft /\ v = draft
    BY <1>7, <1>t, <2>3
  <2>4. CASE v \in S /\ w \in S
    BY <1>7, <2>4
  <2>5. QED
    BY <2>1, <2>2, <2>3, <2>4
<1>8. QED
  BY <1>1, <1>4, <1>7

(* Versions stay numbered from 1, activated in order, each accepted        *)
(* against the version before it.                                          *)
LEMMA HistoryPreserved == IInv /\ [Next]_vars => History'
<1> SUFFICES ASSUME IInv, [Next]_vars PROVE History'
  OBVIOUS
<1>i. /\ TypeOK /\ Requests /\ HistoryContiguous /\ ActivationsMonotone /\ EditsNotLost
  BY DEF IInv, History
<1>1. CASE UNCHANGED <<theses, versions>>
  BY <1>1, <1>i DEF History, HistoryContiguous, ActivationsMonotone, EditsNotLost, Numbers
<1>2. ASSUME NEW c \in Clients, Commit(c) PROVE History'
  <2> DEFINE t == txns[c]
             T == versions[t.key] \cup {t.draft}
  <2>1. /\ t.key \in Keys /\ t.op \in Operations /\ t.phase = "written"
        /\ versions \in [Keys -> SUBSET VersionRow]
        /\ theses \in [Keys -> ThesisRow \cup {None}]
    BY <1>i, <1>2 DEF Commit, Requests, Request, DraftShape, TypeOK
  <2>2. CASE t.op = "archive"
    <3>1. UNCHANGED versions
      BY <1>2, <2>2 DEF Commit
    <3>2. theses[t.key] # None /\ theses'[t.key] # None
      BY <1>i, <1>2, <2>1, <2>2, CommitAdds DEF Requests, Request, DraftFollows
    <3>3. \A k \in Keys : theses'[k] = None <=> theses[k] = None
      BY <1>i, <1>2, <3>2, CommitAdds
    <3>4. QED
      BY <1>i, <3>1, <3>3
         DEF History, HistoryContiguous, ActivationsMonotone, EditsNotLost, Numbers
  <2>3. CASE t.op # "archive"
    <3>1. /\ t.draft \in VersionRow
          /\ versions' = [versions EXCEPT ![t.key] = T]
      BY <1>i, <1>2, <2>1, <2>3 DEF Commit, Requests, Request, DraftShape, Operations
    <3>2. /\ t.draft.version = t.draft.base + 1
          /\ t.draft.version \notin Numbers(versions[t.key])
          /\ \/ versions[t.key] = {} /\ t.draft.base = 0
             \/ \E v \in versions[t.key] :
                   v.version = t.draft.base /\ v.valid_from <= t.draft.valid_from
      <4>1. CASE t.op = "create"
        <5>1. /\ theses[t.key] = None
              /\ t.draft.version = 1 /\ t.draft.base = 0
          BY <1>i, <2>1, <4>1 DEF Requests, Request, DraftShape, FlushedIsNew
        <5>2. versions[t.key] = {}
          BY <1>i, <2>1, <5>1 DEF HistoryContiguous
        <5>3. QED
          BY <5>1, <5>2 DEF Numbers
      <4>2. CASE t.op = "append"
        BY <1>i, <2>1, <4>2 DEF Requests, Request, DraftFollows, FlushedIsNew
      <4>3. QED
        BY <2>1, <2>3, <4>1, <4>2 DEF Operations
    <3>3. /\ \A v, w \in T : v.version = w.version => v = w
          /\ \A v \in T : 1..v.version \subseteq Numbers(T)
          /\ \A v, w \in T : v.version < w.version => v.valid_from <= w.valid_from
      <4>1. /\ versions[t.key] \in SUBSET VersionRow
            /\ \A v, w \in versions[t.key] : v.version = w.version => v = w
            /\ \A v \in versions[t.key] : 1..v.version \subseteq Numbers(versions[t.key])
            /\ \A v, w \in versions[t.key] :
                  v.version < w.version => v.valid_from <= w.valid_from
        BY <1>i, <2>1 DEF HistoryContiguous, ActivationsMonotone
      <4>2. QED
        BY <3>1, <3>2, <4>1, HistoryExtended
    <3>4. theses'[t.key] # None
      <4>1. CASE t.op = "create"
        BY <1>i, <1>2, <2>1, <4>1, NoneAssumption
           DEF Commit, Requests, Request, DraftShape
      <4>2. CASE t.op = "append"
        BY <1>i, <1>2, <2>1, <4>2, CommitAdds DEF Requests, Request, DraftFollows
      <4>3. QED
        BY <2>1, <2>3, <4>1, <4>2 DEF Operations
    <3>5. /\ versions'[t.key] = T
          /\ \A k \in Keys \ {t.key} : theses'[k] = theses[k] /\ versions'[k] = versions[k]
      BY <1>i, <1>2, <2>1, <3>1, CommitAdds
    <3>6. HistoryContiguous'
      BY <1>i, <3>3, <3>4, <3>5 DEF HistoryContiguous, Numbers
    <3>7. ActivationsMonotone'
      BY <1>i, <3>3, <3>5 DEF ActivationsMonotone
    <3>8. EditsNotLost'
      BY <1>i, <3>2, <3>5 DEF EditsNotLost
    <3>9. QED
      BY <3>6, <3>7, <3>8 DEF History
  <2>4. QED
    BY <2>2, <2>3
<1>3. QED
  BY <1>1, <1>2, <1>i, StepKinds DEF Unlocked, Locked, Flushed, Advance

-----------------------------------------------------------------------------
(* IInv holds throughout, on either database.                              *)
THEOREM InvariantHolds == Spec => []IInv
<1>1. Init => IInv
  <2> SUFFICES ASSUME Init PROVE IInv
    OBVIOUS
  <2>1. TypeOK
    BY StoreAssumption DEF Init, TypeOK, Idle, Transaction, Phases, Times
  <2>2. Requests
    BY DEF Init, Requests, Request, DraftShape, DraftFollows, FlushedIsNew, Idle
  <2>3. WritesExclusive /\ LocksExclusive
    BY DEF Init, WritesExclusive, LocksExclusive, HoldsRow, Idle
  <2>4. History
    BY DEF Init, History, HistoryContiguous, ActivationsMonotone, EditsNotLost
  <2>5. QED
    BY <2>1, <2>2, <2>3, <2>4 DEF IInv
<1>2. IInv /\ [Next]_vars => IInv'
  BY TypePreserved, RequestsPreserved, WritesExclusivePreserved,
     LocksExclusivePreserved, HistoryPreserved DEF IInv, History
<1>3. QED
  BY <1>1, <1>2, PTL DEF Spec

(* Rows and requests keep their shape.                                     *)
THEOREM TypeCorrect == Spec => []TypeOK
<1>1. IInv => TypeOK
  BY DEF IInv
<1>2. QED
  BY <1>1, InvariantHolds, PTL

(* Version numbers run from 1 without gap or repetition, on either         *)
(* database and whatever the interleaving.                                 *)
THEOREM HistoryIsContiguous == Spec => []HistoryContiguous
<1>1. IInv => HistoryContiguous
  BY DEF IInv, History
<1>2. QED
  BY <1>1, InvariantHolds, PTL

(* Activation times never go back along a history.                         *)
THEOREM ActivationsAreMonotone == Spec => []ActivationsMonotone
<1>1. IInv => ActivationsMonotone
  BY DEF IInv, History
<1>2. QED
  BY <1>1, InvariantHolds, PTL

(* Every version was accepted against the version it directly follows.     *)
THEOREM NoEditIsLost == Spec => []EditsNotLost
<1>1. IInv => EditsNotLost
  BY DEF IInv, History
<1>2. QED
  BY <1>1, InvariantHolds, PTL

-----------------------------------------------------------------------------
(* A commit leaves the rows of an archived thesis alone, with row locks.   *)
LEMMA CommitSparesArchived ==
  ASSUME RowLocks, IInv, NEW c \in Clients, Commit(c), NEW k \in Keys, Archived(k)
  PROVE  theses'[k] = theses[k] /\ versions'[k] = versions[k]
<1>1. txns[c].phase = "written" /\ txns[c].key \in Keys /\ txns[c].op \in Operations
  BY DEF Commit, IInv, Requests, Request, DraftShape
<1>2. txns[c].key # k
  <2>1. CASE txns[c].op = "create"
    BY <1>1, <2>1 DEF IInv, Requests, Request, FlushedIsNew, Archived
  <2>2. CASE txns[c].op # "create"
    BY <1>1, <2>2 DEF IInv, LocksExclusive, HoldsRow, Operations
  <2>3. QED
    BY <2>1, <2>2
<1>3. QED
  BY <1>1, <1>2, CommitAdds DEF IInv

(* With row locks, no version joins an archived thesis.                    *)
THEOREM ArchivedThesisIsClosed ==
  ASSUME RowLocks PROVE Spec => NoVersionAfterArchive
<1>1. IInv /\ [Next]_vars
        => [\A k \in Keys : Archived(k) => versions'[k] = versions[k]]_vars
  BY StepKinds, CommitSparesArchived
     DEF IInv, Unlocked, Locked, Flushed, Advance
<1>2. QED
  BY <1>1, InvariantHolds, PTL DEF Spec, NoVersionAfterArchive

(* With row locks, the archive time is set once.                           *)
THEOREM ArchiveTimeIsSetOnce ==
  ASSUME RowLocks PROVE Spec => ArchiveSetOnce
<1>1. IInv /\ [Next]_vars
        => [\A k \in Keys : Archived(k) => theses'[k] = theses[k]]_vars
  BY StepKinds, CommitSparesArchived
     DEF IInv, Unlocked, Locked, Flushed, Advance
<1>2. QED
  BY <1>1, InvariantHolds, PTL DEF Spec, ArchiveSetOnce

(* A commit whose clock is past the knowledge cutoff adds nothing a read   *)
(* at that cutoff may use.                                                 *)
LEMMA CommitInvisible ==
  ASSUME RowLocks, IInv, NEW c \in Clients, Commit(c), NEW k \in Keys,
         NEW at \in Times, NEW cutoff \in Times, cutoff < txns[c].clock
  PROVE  Selected(k, at, cutoff)' = Selected(k, at, cutoff)
<1> DEFINE t == txns[c]
<1>1. /\ t.phase = "written" /\ t.key \in Keys /\ t.op \in Operations
      /\ t.clock \in Int /\ cutoff \in Int
      /\ theses \in [Keys -> ThesisRow \cup {None}]
      /\ versions \in [Keys -> SUBSET VersionRow]
  BY StoreAssumption
     DEF Commit, IInv, Requests, Request, DraftShape, TypeOK, Transaction, Times
<1>2. CASE k # t.key
  BY <1>1, <1>2, CommitAdds DEF IInv, Selected
<1>3. CASE k = t.key /\ t.op = "create"
  <2>1. theses[k] = None
    BY <1>1, <1>3 DEF IInv, Requests, Request, FlushedIsNew
  <2>2. /\ t.identity \in ThesisRow /\ t.identity.created_at = t.clock
        /\ theses'[k] = t.identity
    BY <1>1, <1>3 DEF IInv, Requests, Request, DraftShape, Commit
  <2>3. theses'[k].created_at > cutoff
    BY <1>1, <2>2
  <2>4. Selected(k, at, cutoff)' = None
    BY <2>3 DEF Selected, ActiveThesisVersion, SelectThesisVersion, Outcome
  <2>5. QED
    BY <2>1, <2>4 DEF Selected
<1>4. CASE k = t.key /\ t.op = "append"
  <2>1. /\ theses' = theses
        /\ versions'[k] = versions[k] \cup {t.draft}
        /\ t.draft.approved_at = t.clock
    BY <1>1, <1>4 DEF IInv, Requests, Request, DraftShape, Commit
  <2>2. Approved(versions'[k], cutoff) = Approved(versions[k], cutoff)
    BY <1>1, <2>1 DEF Approved
  <2>3. QED
    BY <2>1, <2>2 DEF Selected, ActiveThesisVersion, SelectThesisVersion
<1>5. CASE k = t.key /\ t.op = "archive"
  <2>1. theses[k] \in ThesisRow /\ ~ Archived(k)
    BY <1>1, <1>5 DEF IInv, Requests, Request, DraftFollows, LocksExclusive, HoldsRow
  <2>2. theses[k].archived_at = None
    BY <2>1, NoneAssumption DEF Archived
  <2>3. /\ theses'[k] = [theses[k] EXCEPT !.archived_at = t.clock]
        /\ versions' = versions
    BY <1>1, <1>5 DEF Commit
  <2>4. theses'[k].archived_at = t.clock /\ theses'[k].created_at = theses[k].created_at
    BY <2>1, <2>3 DEF ThesisRow
  <2>5. ~ ArchivedBy(theses[k], cutoff) /\ ~ ArchivedBy(theses'[k], cutoff)
    BY <1>1, <2>2, <2>4 DEF ArchivedBy
  <2>6. theses[k] # None /\ theses'[k] # None
    BY <1>1, <1>5, <2>1, CommitAdds, NoneAssumption DEF IInv
  <2>7. QED
    BY <2>3, <2>4, <2>5, <2>6 DEF Selected, ActiveThesisVersion, SelectThesisVersion
<1>6. QED
  BY <1>1, <1>2, <1>3, <1>4, <1>5 DEF Operations

(* With row locks, a historical read at a settled cutoff is repeatable.    *)
THEOREM HistoricalReadsRepeat ==
  ASSUME RowLocks PROVE Spec => SettledReadsRepeat
<1> DEFINE Repeats == \A k \in Keys, at, cutoff \in Times :
             Settled(cutoff) =>
                Selected(k, at, cutoff)' = Selected(k, at, cutoff)
<1>1. IInv /\ [Next]_vars => [Repeats]_vars
  <2> SUFFICES ASSUME IInv, [Next]_vars, NEW k \in Keys, NEW at \in Times,
                      NEW cutoff \in Times, Settled(cutoff)
               PROVE  Selected(k, at, cutoff)' = Selected(k, at, cutoff)
    OBVIOUS
  <2>1. CASE UNCHANGED <<theses, versions>>
    BY <2>1 DEF Selected
  <2>2. ASSUME NEW c \in Clients, Commit(c)
        PROVE  Selected(k, at, cutoff)' = Selected(k, at, cutoff)
    BY <2>2, CommitInvisible DEF Settled, Commit
  <2>3. QED
    BY <2>1, <2>2, StepKinds DEF IInv, Unlocked, Locked, Flushed, Advance
<1>2. QED
  BY <1>1, InvariantHolds, PTL DEF Spec, SettledReadsRepeat

-----------------------------------------------------------------------------
(* The refinement of ThesisLog.                                            *)
EntryOf(v) == [valid_from |-> v.valid_from, approved_at |-> v.approved_at]

\* The log of a thesis with the version rows S.
LogOf(S) == [n \in 1..Cardinality(S) |-> EntryOf(CHOOSE v \in S : v.version = n)]

Distinct(S) == \A v, w \in S : v.version = w.version => v = w

\* S has one row for each number up to its size.
Numbered(S) == IsFiniteSet(S) /\ Numbers(S) = 1..Cardinality(S)

Counted == \A k \in Keys : Numbered(versions[k])

-----------------------------------------------------------------------------
(* The row with the next number keeps a history numbered up to its size.   *)
LEMMA NumberedExtended ==
  ASSUME NEW S, Numbered(S), NEW e, e.version = Cardinality(S) + 1
  PROVE  /\ Numbered(S \cup {e})
         /\ Cardinality(S \cup {e}) = Cardinality(S) + 1
<1>1. Cardinality(S) \in Nat
  BY FS_CardinalityType DEF Numbered
<1>2. e.version \notin Numbers(S)
  BY <1>1 DEF Numbered
<1>3. e \notin S
  BY <1>2 DEF Numbers
<1>4. /\ IsFiniteSet(S \cup {e})
      /\ Cardinality(S \cup {e}) = Cardinality(S) + 1
  BY <1>3, FS_AddElement DEF Numbered
<1>5. Numbers(S \cup {e}) = Numbers(S) \cup {e.version}
  BY DEF Numbers
<1>6. Numbers(S \cup {e}) = 1..(Cardinality(S) + 1)
  <2>1. \A n \in Nat : 1..(n + 1) = (1..n) \cup {n + 1}
    OBVIOUS
  <2>2. QED
    BY <1>1, <1>5, <2>1 DEF Numbered
<1>7. QED
  BY <1>4, <1>6 DEF Numbered

(* The entry at n is that of the row with number n.                        *)
LEMMA EntryFound ==
  ASSUME NEW S \in SUBSET VersionRow, Numbered(S), Distinct(S), NEW v \in S
  PROVE  v.version \in 1..Cardinality(S) /\ LogOf(S)[v.version] = EntryOf(v)
<1>1. v.version \in 1..Cardinality(S)
  BY DEF Numbered, Numbers
<1>2. v = CHOOSE w \in S : w.version = v.version
  BY DEF Distinct
<1>3. LogOf(S)[v.version] = EntryOf(CHOOSE w \in S : w.version = v.version)
  BY <1>1 DEF LogOf
<1>4. QED
  BY <1>1, <1>2, <1>3

(* The log of a history is a sequence of entries.                          *)
LEMMA LogIsSequence ==
  ASSUME NEW S \in SUBSET VersionRow, Numbered(S)
  PROVE  /\ LogOf(S) \in Seq(Promise!Entry)
         /\ Len(LogOf(S)) = Cardinality(S)
         /\ Cardinality(S) \in Nat
<1>1. Cardinality(S) \in Nat
  BY FS_CardinalityType DEF Numbered
<1>2. ASSUME NEW n \in 1..Cardinality(S)
      PROVE  EntryOf(CHOOSE v \in S : v.version = n) \in Promise!Entry
  <2>1. \E v \in S : v.version = n
    BY <1>2 DEF Numbered, Numbers
  <2>2. PICK v \in S : v = CHOOSE w \in S : w.version = n
    BY <2>1
  <2>3. EntryOf(v) \in Promise!Entry
    BY DEF EntryOf, Promise!Entry, VersionRow
  <2>4. QED
    BY <2>2, <2>3
<1>3. LogOf(S) \in [1..Cardinality(S) -> Promise!Entry]
  BY <1>2 DEF LogOf
<1>4. QED
  BY <1>1, <1>3

(* A row with the next number is appended to the log.                      *)
LEMMA LogAppended ==
  ASSUME NEW S \in SUBSET VersionRow, Numbered(S), NEW e \in VersionRow,
         e.version = Cardinality(S) + 1, Distinct(S \cup {e})
  PROVE  LogOf(S \cup {e}) = Append(LogOf(S), EntryOf(e))
<1> DEFINE T == S \cup {e}
           n == Cardinality(S)
<1>1. /\ n \in Nat
      /\ T \in SUBSET VersionRow /\ Numbered(T) /\ Cardinality(T) = n + 1
      /\ LogOf(S) \in Seq(Promise!Entry) /\ Len(LogOf(S)) = n
      /\ Distinct(S)
  BY NumberedExtended, LogIsSequence DEF Distinct
<1>2. LogOf(T) \in Seq(Promise!Entry) /\ Len(LogOf(T)) = n + 1
  BY <1>1, LogIsSequence
<1>3. LogOf(T)[n + 1] = EntryOf(e)
  BY <1>1, EntryFound
<1>4. ASSUME NEW i \in 1..n PROVE LogOf(T)[i] = LogOf(S)[i]
  <2>1. PICK v \in S : v.version = i
    BY <1>1 DEF Numbered, Numbers
  <2>2. LogOf(S)[v.version] = EntryOf(v)
    BY <1>1, EntryFound
  <2>3. LogOf(T)[v.version] = EntryOf(v)
    BY <1>1, EntryFound
  <2>4. QED
    BY <2>1, <2>2, <2>3
<1>5. EntryOf(e) \in Promise!Entry
  BY DEF EntryOf, Promise!Entry, VersionRow
<1> DEFINE s == LogOf(S)
           u == LogOf(T)
           x == EntryOf(e)
<1>6. u = Append(s, x)
  <2> HIDE DEF s, u, x, n
  <2>1. /\ s \in Seq(Promise!Entry) /\ u \in Seq(Promise!Entry) /\ x \in Promise!Entry
        /\ Len(s) = n /\ Len(u) = n + 1 /\ n \in Nat
        /\ u[n + 1] = x /\ \A i \in 1..n : u[i] = s[i]
    BY <1>1, <1>2, <1>3, <1>4, <1>5 DEF s, u, x, n
  <2>2. QED
    BY <2>1
<1>7. QED
  BY <1>6

-----------------------------------------------------------------------------
(* What a create or an append commits is the version after the last.       *)
LEMMA CommitsNext ==
  ASSUME IInv, Counted, NEW c \in Clients, Commit(c), txns[c].op # "archive"
  PROVE  LET t == txns[c]  S == versions[t.key] IN
         /\ t.key \in Keys /\ t.draft \in VersionRow
         /\ versions' = [versions EXCEPT ![t.key] = S \cup {t.draft}]
         /\ t.draft.version = Cardinality(S) + 1
         /\ t.op = "create" <=> S = {}
         /\ \A v \in S : v.valid_from <= t.draft.valid_from
<1> DEFINE t == txns[c]
           S == versions[t.key]
<1>1. /\ TypeOK /\ Requests /\ HistoryContiguous
      /\ t.phase = "written" /\ t.key \in Keys /\ t.op \in {"create", "append"}
      /\ DraftShape(c) /\ DraftFollows(c) /\ FlushedIsNew(c)
  BY DEF IInv, History, Commit, Requests, Request, DraftShape, Operations
<1>2. t.draft \in VersionRow /\ S \in SUBSET VersionRow /\ S \cup {t.draft} \in SUBSET VersionRow
  BY <1>1 DEF TypeOK, DraftShape
<1>3. versions' = [versions EXCEPT ![t.key] = S \cup {t.draft}]
  BY <1>1 DEF Commit
<1>4. Numbered(S) /\ Cardinality(S) \in Nat
  BY <1>1, FS_CardinalityType DEF Counted, Numbered
<1>5. CASE t.op = "create"
  <2>1. S = {}
    BY <1>1, <1>5 DEF FlushedIsNew, HistoryContiguous
  <2>2. Cardinality(S) = 0
    BY <2>1, FS_EmptySet
  <2>3. t.draft.version = 1
    BY <1>1, <1>5 DEF DraftShape
  <2>4. QED
    BY <1>1, <1>2, <1>3, <1>5, <2>1, <2>2, <2>3
<1>6. CASE t.op = "append"
  <2>1. PICK w \in S : w.version = t.draft.base /\ t.draft.version = t.draft.base + 1
    BY <1>1, <1>6 DEF DraftFollows
  <2>2. t.draft.base \in 1..Cardinality(S) /\ t.draft.version \notin 1..Cardinality(S)
    BY <1>1, <1>4, <1>6, <2>1 DEF FlushedIsNew, Numbered, Numbers
  <2>3. t.draft.version = Cardinality(S) + 1
    BY <1>4, <2>1, <2>2
  <2>4. ActivationsMonotone'
    BY HistoryPreserved DEF Next, Progress, History
  <2>5. versions'[t.key] = S \cup {t.draft}
    BY <1>1, <1>3 DEF TypeOK
  <2>6. ASSUME NEW v \in S PROVE v.valid_from <= t.draft.valid_from
    <3>1. v.version \in 1..Cardinality(S)
      BY <1>4, <2>6 DEF Numbered, Numbers
    <3>2. v.version < t.draft.version
      BY <1>4, <2>3, <3>1
    <3>3. QED
      BY <1>1, <2>4, <2>5, <3>2 DEF ActivationsMonotone
  <2>7. QED
    BY <1>1, <1>2, <1>3, <1>6, <2>1, <2>3, <2>6
<1>7. QED
  BY <1>1, <1>5, <1>6

(* Every history stays numbered up to its size.                            *)
LEMMA CountedPreserved == IInv /\ Counted /\ [Next]_vars => Counted'
<1> SUFFICES ASSUME IInv, Counted, [Next]_vars PROVE Counted'
  OBVIOUS
<1>1. CASE UNCHANGED versions
  BY <1>1 DEF Counted
<1>2. ASSUME NEW c \in Clients, Commit(c), txns[c].op # "archive" PROVE Counted'
  <2> DEFINE t == txns[c]
             S == versions[t.key]
  <2>1. /\ t.key \in Keys /\ t.draft.version = Cardinality(S) + 1
        /\ versions' = [versions EXCEPT ![t.key] = S \cup {t.draft}]
    BY <1>2, CommitsNext
  <2>2. Numbered(S \cup {t.draft})
    BY <2>1, NumberedExtended DEF Counted
  <2>3. ASSUME NEW k \in Keys PROVE Numbered(versions'[k])
    <3>1. versions'[k] = versions[k] \/ versions'[k] = S \cup {t.draft}
      BY <2>1 DEF IInv, TypeOK
    <3>2. QED
      BY <2>2, <3>1 DEF Counted
  <2>4. QED
    BY <2>3 DEF Counted
<1>3. ASSUME NEW c \in Clients, Commit(c), txns[c].op = "archive" PROVE Counted'
  BY <1>1, <1>3 DEF Commit
<1>4. QED
  BY <1>1, <1>2, <1>3, StepKinds DEF IInv, Unlocked, Locked, Flushed, Advance

-----------------------------------------------------------------------------
(* The committed log is the log of each thesis' rows.                      *)
LEMMA CommittedLogs ==
    /\ CommittedLog = [k \in Keys |-> LogOf(versions[k])]
    /\ CommittedLog' = [k \in Keys |-> LogOf(versions'[k])]
BY DEF CommittedLog, LogOf, EntryOf, RowNumbered

(* A commit is a whole operation of the log.                               *)
LEMMA CommitImplements ==
  ASSUME RowLocks, IInv, Counted, NEW c \in Clients, Commit(c)
  PROVE  Promise!Next
<1> DEFINE t == txns[c]
           S == versions[t.key]
<1>1. /\ TypeOK /\ Requests /\ HistoryContiguous
      /\ t.phase = "written" /\ t.key \in Keys /\ t.op \in Operations
      /\ DraftShape(c) /\ DraftFollows(c) /\ FlushedIsNew(c)
      /\ versions \in [Keys -> SUBSET VersionRow]
      /\ theses \in [Keys -> ThesisRow \cup {None}]
  BY DEF IInv, History, Commit, Requests, Request, DraftShape, TypeOK
<1>l. /\ CommittedLog = [k \in Keys |-> LogOf(versions[k])]
      /\ CommittedLog' = [k \in Keys |-> LogOf(versions'[k])]
  BY CommittedLogs
<1>n. Numbered(S) /\ S \in SUBSET VersionRow
  BY <1>1 DEF Counted
<1>s. /\ LogOf(S) \in Seq(Promise!Entry) /\ Len(LogOf(S)) = Cardinality(S)
      /\ CommittedLog[t.key] = LogOf(S)
  BY <1>1, <1>l, <1>n, LogIsSequence
<1>2. ASSUME t.op # "archive"
      PROVE  /\ CommittedLog' = [CommittedLog EXCEPT
                  ![t.key] = Append(LogOf(S), EntryOf(t.draft))]
             /\ EntryOf(t.draft) \in Promise!Entry
  <2>1. /\ t.draft \in VersionRow /\ t.draft.version = Cardinality(S) + 1
        /\ versions' = [versions EXCEPT ![t.key] = S \cup {t.draft}]
    BY <1>2, CommitsNext
  <2>2. Distinct(S \cup {t.draft})
    <3>1. HistoryContiguous'
      BY HistoryPreserved DEF Next, Progress, History
    <3>2. QED
      BY <1>1, <2>1, <3>1 DEF HistoryContiguous, Distinct
  <2>3. LogOf(S \cup {t.draft}) = Append(LogOf(S), EntryOf(t.draft))
    BY <1>n, <2>1, <2>2, LogAppended
  <2>4. EntryOf(t.draft) \in Promise!Entry
    BY <2>1 DEF EntryOf, Promise!Entry, VersionRow
  <2>5. QED
    BY <1>1, <1>l, <2>1, <2>3, <2>4
<1>3. CASE t.op = "create"
  <2>1. S = {} /\ theses[t.key] = None
    BY <1>1, <1>3 DEF FlushedIsNew, HistoryContiguous
  <2>2. LogOf(S) = <<>>
    BY <1>s, <2>1, FS_EmptySet
  <2>3. Append(LogOf(S), EntryOf(t.draft)) = <<EntryOf(t.draft)>>
    BY <2>2
  <2>4. UNCHANGED CommittedArchive
    <3>1. /\ theses' = [theses EXCEPT ![t.key] = t.identity]
          /\ t.identity \in ThesisRow /\ t.identity.archived_at = None
      BY <1>1, <1>3 DEF Commit, DraftShape
    <3>2. QED
      BY <1>1, <2>1, <3>1 DEF CommittedArchive
  <2>5. Promise!Create(t.key)
    BY <1>2, <1>3, <1>s, <2>2, <2>3, <2>4 DEF Promise!Create
  <2>6. QED
    BY <1>1, <2>5 DEF Promise!Next
<1>o. ASSUME t.op # "create"
      PROVE  /\ CommittedLog[t.key] # <<>>
             /\ theses[t.key] \in ThesisRow /\ theses[t.key].archived_at = None
             /\ CommittedArchive[t.key] = None
  <2>1. theses[t.key] \in ThesisRow
    BY <1>1, <1>o DEF DraftFollows, Operations
  <2>2. S # {}
    BY <1>1, <2>1, NoneAssumption DEF HistoryContiguous
  <2>3. Cardinality(S) # 0
    BY <1>n, <2>2, FS_EmptySet DEF Numbered
  <2>4. ~ Archived(t.key)
    BY <1>1, <1>o DEF IInv, LocksExclusive, HoldsRow, Operations
  <2>5. theses[t.key].archived_at = None
    BY <2>1, <2>4, NoneAssumption DEF Archived
  <2>6. CommittedArchive[t.key] = None
    BY <1>1, <2>5 DEF CommittedArchive
  <2>7. QED
    BY <1>s, <2>1, <2>3, <2>5, <2>6
<1>4. CASE t.op = "append"
  <2>1. CommittedLog[t.key] # <<>> /\ CommittedArchive[t.key] = None
    BY <1>4, <1>o
  <2>2. UNCHANGED CommittedArchive
    BY <1>4 DEF Commit, CommittedArchive
  <2>3. LogOf(S)[Len(LogOf(S))].valid_from <= t.draft.valid_from
    <3>1. Cardinality(S) \in Nat \ {0}
      BY <1>n, <1>s, <2>1, FS_CardinalityType, FS_EmptySet DEF Numbered
    <3>2. PICK v \in S : v.version = Cardinality(S)
      BY <1>n, <3>1 DEF Numbered, Numbers
    <3>3. Distinct(S)
      BY <1>1 DEF HistoryContiguous, Distinct
    <3>4. LogOf(S)[Cardinality(S)] = EntryOf(v)
      BY <1>n, <3>2, <3>3, EntryFound
    <3>5. v.valid_from <= t.draft.valid_from
      BY <1>4, CommitsNext
    <3>6. QED
      BY <1>s, <3>4, <3>5 DEF EntryOf
  <2>4. Promise!AppendVersion(t.key)
    <3>1. t.draft.valid_from = EntryOf(t.draft).valid_from
      BY DEF EntryOf
    <3>2. QED
      BY <1>2, <1>4, <1>s, <2>1, <2>2, <2>3, <3>1 DEF Promise!AppendVersion
  <2>5. QED
    BY <1>1, <2>4 DEF Promise!Next
<1>5. CASE t.op = "archive"
  <2>1. CommittedLog[t.key] # <<>> /\ CommittedArchive[t.key] = None
    BY <1>5, <1>o
  <2>2. UNCHANGED CommittedLog
    BY <1>5, <1>l DEF Commit
  <2>3. t.clock \in Times
    BY <1>1 DEF TypeOK, Transaction
  <2>4. CommittedArchive' = [CommittedArchive EXCEPT ![t.key] = t.clock]
    <3>1. theses' = [theses EXCEPT ![t.key].archived_at = t.clock]
      BY <1>5 DEF Commit
    <3>2. /\ theses'[t.key] = [theses[t.key] EXCEPT !.archived_at = t.clock]
          /\ theses[t.key] \in ThesisRow
          /\ \A k \in Keys \ {t.key} : theses'[k] = theses[k]
      BY <1>1, <1>5, <1>o, <3>1
    <3>3. theses'[t.key] \in ThesisRow /\ theses'[t.key].archived_at = t.clock
      BY <2>3, <3>2 DEF ThesisRow
    <3>4. QED
      BY <3>2, <3>3, NoneAssumption DEF CommittedArchive
  <2>5. Promise!Archive(t.key)
    BY <2>1, <2>2, <2>3, <2>4 DEF Promise!Archive
  <2>6. QED
    BY <1>1, <2>5 DEF Promise!Next
<1>6. QED
  BY <1>1, <1>3, <1>4, <1>5 DEF Operations

(* With row locks the committed rows are at every instant the log of       *)
(* ThesisLog, and every step is one of its operations or changes nothing.  *)
THEOREM StoreImplementsLog ==
  ASSUME RowLocks PROVE Spec => ImplementsLog
<1>1. Init => Promise!Init /\ Counted
  <2> SUFFICES ASSUME Init PROVE Promise!Init /\ Counted
    OBVIOUS
  <2>1. \A k \in Keys : versions[k] = {} /\ theses[k] = None
    BY DEF Init
  <2>2. Numbered({})
    BY FS_EmptySet DEF Numbered, Numbers
  <2>3. LogOf({}) = <<>>
    BY <2>2, LogIsSequence, FS_EmptySet
  <2>4. CommittedLog = [k \in Keys |-> <<>>]
    BY <2>1, <2>3, CommittedLogs
  <2>5. CommittedArchive = [k \in Keys |-> None]
    BY <2>1 DEF CommittedArchive
  <2>6. QED
    BY <2>1, <2>2, <2>4, <2>5 DEF Promise!Init, Counted
<1>2. IInv /\ Counted /\ [Next]_vars => [Promise!Next]_(Promise!vars)
  <2> SUFFICES ASSUME IInv, Counted, [Next]_vars PROVE [Promise!Next]_(Promise!vars)
    OBVIOUS
  <2>1. CASE UNCHANGED <<theses, versions>>
    <3>1. CommittedLog' = CommittedLog
      BY <2>1, CommittedLogs
    <3>2. CommittedArchive' = CommittedArchive
      BY <2>1 DEF CommittedArchive
    <3>3. QED
      BY <3>1, <3>2 DEF Promise!vars
  <2>2. ASSUME NEW c \in Clients, Commit(c) PROVE Promise!Next
    BY <2>2, CommitImplements
  <2>3. QED
    BY <2>1, <2>2, StepKinds DEF IInv, Unlocked, Locked, Flushed, Advance
<1>3. QED
  BY <1>1, <1>2, InvariantHolds, CountedPreserved, PTL DEF Spec, ImplementsLog, Promise!Spec

-----------------------------------------------------------------------------
(* The reader of ThesisReads.  With row locks a read in two statements     *)
(* answers as one in a single state would: only an archive can change the  *)
(* identity row it holds, and versions rest once that is there.            *)
\* What the versions of now would make of the identity read before.
Pending ==
    SelectThesisVersion(read.identity, versions[read.key], read.effective, read.known)

\* read is a record of NoRead's fields.
ReadShape ==
    \E phase, key, at, cutoff, identity, seen, answer :
       read = [phase |-> phase, key |-> key, effective |-> at, known |-> cutoff,
               identity |-> identity, seen |-> seen, answer |-> answer]

(* The identity in hand is the committed one until the thesis is archived, *)
(* and the answer it would get now is one that was seen.                   *)
ReadFollows ==
    /\ ReadShape
    /\ read.phase = "identified" =>
         /\ read.key \in Keys /\ theses[read.key] # None
         /\ ~ Archived(read.key) => read.identity = theses[read.key]
         /\ Pending \in read.seen
    /\ ReadsAreAtomic

-----------------------------------------------------------------------------
(* Readers leave the store alone.                                          *)
LEMMA ReadsRefineStore == SpecReads => Spec
<1>1. InitReads => Init
  BY DEF InitReads
<1>2. [NextReads]_readVars => [Next]_vars
  BY DEF NextReads, ReadIdentity, ReadVersions, EndRead, WriterStep, readVars, vars
<1>3. QED
  BY <1>1, <1>2, PTL DEF SpecReads, Spec

(* A step of a writer changes a thesis that exists in one way: its         *)
(* versions while its identity stays, or its identity, by archiving it,    *)
(* while its versions stay.                                                *)
LEMMA WriterChanges ==
  ASSUME RowLocks, IInv, [Next]_vars, NEW k \in Keys, theses[k] # None
  PROVE  /\ theses'[k] # None
         /\ \/ theses'[k] = theses[k] /\ ~ Archived(k)
            \/ theses'[k] = theses[k] /\ versions'[k] = versions[k]
            \/ Archived(k)' /\ versions'[k] = versions[k]
<1>1. CASE UNCHANGED <<theses, versions>>
  BY <1>1
<1>2. ASSUME NEW c \in Clients, Commit(c) PROVE theses'[k] # None
  BY <1>2, CommitAdds DEF IInv
<1>3. ASSUME NEW c \in Clients, Commit(c), Archived(k)
      PROVE  theses'[k] = theses[k] /\ versions'[k] = versions[k]
  BY <1>3, CommitSparesArchived
<1>4. ASSUME NEW c \in Clients, Commit(c), ~ Archived(k)
      PROVE  \/ theses'[k] = theses[k]
             \/ Archived(k)' /\ versions'[k] = versions[k]
  <2> DEFINE t == txns[c]
  <2>1. /\ t.phase = "written" /\ t.key \in Keys /\ t.op \in Operations
        /\ t.clock \in Times /\ FlushedIsNew(c)
        /\ theses \in [Keys -> ThesisRow \cup {None}]
    BY <1>4 DEF Commit, IInv, Requests, Request, DraftShape, TypeOK, Transaction
  <2>2. CASE k # t.key
    BY <1>4, <2>2, CommitAdds DEF IInv
  <2>3. CASE k = t.key /\ t.op = "create"
    BY <2>1, <2>3 DEF FlushedIsNew
  <2>4. CASE k = t.key /\ t.op = "append"
    BY <1>4, <2>4 DEF Commit
  <2>5. CASE k = t.key /\ t.op = "archive"
    <3>1. theses[k] \in ThesisRow
      BY <2>1
    <3>2. /\ theses'[k] = [theses[k] EXCEPT !.archived_at = t.clock]
          /\ versions' = versions
      BY <1>4, <2>1, <2>5 DEF Commit
    <3>3. theses'[k].archived_at = t.clock
      BY <3>1, <3>2 DEF ThesisRow
    <3>4. QED
      BY <1>2, <1>4, <2>1, <3>2, <3>3, NoneAssumption DEF Archived
  <2>6. QED
    BY <2>1, <2>2, <2>3, <2>4, <2>5 DEF Operations
<1>5. QED
  BY <1>1, <1>2, <1>3, <1>4, StepKinds DEF IInv, Unlocked, Locked, Flushed, Advance

(* No step of a reader or a writer spoils the read in progress.            *)
LEMMA ReadFollowsPreserved ==
  ASSUME RowLocks, IInv, ReadFollows, [NextReads]_readVars
  PROVE  ReadFollows'
<1>1. CASE ReadIdentity
  <2>1. PICK k \in Keys, at \in Times, cutoff \in Times :
          /\ theses[k] # None
          /\ read' = [phase |-> "identified", key |-> k, effective |-> at,
                      known |-> cutoff, identity |-> theses[k],
                      seen |-> {CommittedOutcome(k, at, cutoff)},
                      answer |-> None]
          /\ UNCHANGED vars
    BY <1>1 DEF ReadIdentity
  <2>2. ReadShape'
    BY <2>1, Zenon DEF ReadShape
  <2>3. /\ read'.phase = "identified" /\ read'.key = k
        /\ read'.identity = theses[k] /\ theses' = theses
        /\ Pending' \in read'.seen
    BY <2>1 DEF Pending, CommittedOutcome, vars
  <2>4. QED
    BY <2>1, <2>2, <2>3 DEF ReadFollows, ReadsAreAtomic
<1>2. CASE ReadVersions
  <2>1. read.phase = "identified" /\ Pending \in read.seen
    BY <1>2 DEF ReadVersions, ReadFollows
  <2>2. read' = [read EXCEPT !.phase = "answered", !.answer = Pending]
    BY <1>2 DEF ReadVersions, Pending
  <2>3. /\ ReadShape' /\ read'.phase = "answered"
        /\ read'.answer = Pending /\ read'.seen = read.seen
    BY <2>2 DEF ReadFollows, ReadShape
  <2>4. QED
    BY <2>1, <2>3 DEF ReadFollows, ReadsAreAtomic
<1>3. CASE EndRead
  <2>1. ReadShape'
    BY <1>3, Zenon DEF EndRead, NoRead, ReadShape
  <2>2. QED
    BY <1>3, <2>1 DEF EndRead, NoRead, ReadFollows, ReadsAreAtomic
<1>4. CASE WriterStep
  <2>1. CASE read.phase # "identified"
    BY <1>4, <2>1 DEF WriterStep, ReadFollows, ReadShape, ReadsAreAtomic
  <2>2. CASE read.phase = "identified"
    <3>0. PICK k \in Keys : k = read.key
      BY <2>2 DEF ReadFollows
    <3> DEFINE outcome == SelectThesisVersion(theses'[k], versions'[k],
                                              read.effective, read.known)
    <3>1. /\ theses[k] # None /\ Pending \in read.seen
          /\ ~ Archived(k) => read.identity = theses[k]
          /\ ReadsAreAtomic
      BY <2>2, <3>0 DEF ReadFollows, Archived
    <3>2. read' = [read EXCEPT !.seen = @ \cup {outcome}]
      BY <1>4, <2>2, <3>0 DEF WriterStep
    <3>3. /\ ReadShape'
          /\ read'.phase = "identified" /\ read'.key = k
          /\ read'.identity = read.identity /\ read'.effective = read.effective
          /\ read'.known = read.known /\ read'.seen = read.seen \cup {outcome}
      <4> HIDE DEF outcome
      <4>1. PICK phase, key, at, cutoff, identity, seen, answer :
               read = [phase |-> phase, key |-> key, effective |-> at, known |-> cutoff,
                       identity |-> identity, seen |-> seen, answer |-> answer]
        BY DEF ReadFollows, ReadShape
      <4>2. read' = [phase |-> phase, key |-> key, effective |-> at, known |-> cutoff,
                     identity |-> identity, seen |-> seen \cup {outcome}, answer |-> answer]
        BY <3>2, <4>1
      <4>3. ReadShape'
        BY <4>2, Zenon DEF ReadShape
      <4>4. QED
        BY <2>2, <3>0, <4>1, <4>2, <4>3
    <3>4. /\ theses'[k] # None
          /\ \/ theses'[k] = theses[k] /\ ~ Archived(k)
             \/ theses'[k] = theses[k] /\ versions'[k] = versions[k]
             \/ Archived(k)' /\ versions'[k] = versions[k]
      BY <1>4, <3>1, WriterChanges DEF WriterStep
    <3>5. Pending' = SelectThesisVersion(read.identity, versions'[k],
                                         read.effective, read.known)
      BY <3>3 DEF Pending
    <3>6. Pending' \in read'.seen
      <4>1. CASE theses'[k] = theses[k] /\ ~ Archived(k)
        <5>1. Pending' = outcome
          BY <3>1, <3>5, <4>1
        <5>2. QED
          BY <3>3, <5>1
      <4>2. CASE versions'[k] = versions[k]
        <5>1. Pending' = Pending
          BY <3>0, <3>5, <4>2 DEF Pending
        <5>2. QED
          BY <3>1, <3>3, <5>1
      <4>3. QED
        BY <3>4, <4>1, <4>2
    <3>7. ~ Archived(k)' => read.identity = theses'[k]
      BY <3>1, <3>4 DEF Archived
    <3>8. QED
      BY <3>1, <3>3, <3>4, <3>6, <3>7 DEF Archived, ReadFollows, ReadsAreAtomic
  <2>3. QED
    BY <2>1, <2>2
<1>5. CASE UNCHANGED readVars
  BY <1>5 DEF readVars, ReadFollows, ReadShape, Pending, ReadsAreAtomic, Archived
<1>6. QED
  BY <1>1, <1>2, <1>3, <1>4, <1>5 DEF NextReads

(* With row locks, a read is answered as some committed state would have   *)
(* answered it while it ran.                                               *)
THEOREM ReadsAnswerOneState ==
  ASSUME RowLocks PROVE SpecReads => []ReadsAreAtomic
<1>1. InitReads => ReadFollows
  <2>1. InitReads => ReadShape
    BY Zenon DEF InitReads, NoRead, ReadShape
  <2>2. QED
    BY <2>1 DEF InitReads, NoRead, ReadFollows, ReadsAreAtomic
<1>2. IInv /\ ReadFollows /\ [NextReads]_readVars => ReadFollows'
  BY ReadFollowsPreserved
<1>3. ReadFollows => ReadsAreAtomic
  BY DEF ReadFollows
<1>4. QED
  BY <1>1, <1>2, <1>3, ReadsRefineStore, InvariantHolds, PTL DEF SpecReads

=============================================================================
