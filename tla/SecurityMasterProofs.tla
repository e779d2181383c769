------------------------- MODULE SecurityMasterProofs -------------------------
(***************************************************************************)
(* Proofs about SecurityMaster, for any clients, securities, identifiers,  *)
(* uploads and instants.  A request's rows stay apart from each other and  *)
(* from what was stored when it began (Apart) because what it has checked  *)
(* and not yet inserted is (IdentifierFree, MappingFree); a mapping is     *)
(* justified by what its request can see (DraftJustified), and a row that  *)
(* has been registered is seen by its request (RowsSeen).                  *)
(***************************************************************************)
EXTENDS SecurityMaster, TLAPS

(* The overlap query of two intervals finds exactly the intervals that     *)
(* have an instant in common.                                              *)
LEMMA OverlapIsSharedInstant ==
    ASSUME NEW a \in Interval, NEW b \in Interval
    PROVE  Overlap(a, b) <=> ShareAnInstant(a, b)
<1> USE MasterAssumption DEF Interval, Times
<1>1. ASSUME Overlap(a, b) PROVE ShareAnInstant(a, b)
  <2>1. CASE a.from <= b.from
    <3>1. Covers(a, b.from) /\ Covers(b, b.from)
      BY <1>1, <2>1 DEF Overlap, Covers
    <3>2. QED
      BY <3>1 DEF ShareAnInstant
  <2>2. CASE b.from < a.from
    <3>1. Covers(a, a.from) /\ Covers(b, a.from)
      BY <1>1, <2>2 DEF Overlap, Covers
    <3>2. QED
      BY <3>1 DEF ShareAnInstant
  <2>3. QED
    BY <2>1, <2>2
<1>2. ASSUME ShareAnInstant(a, b) PROVE Overlap(a, b)
  BY <1>2 DEF ShareAnInstant, Covers, Overlap
<1>3. QED
  BY <1>1, <1>2

-----------------------------------------------------------------------------
(* The inductive invariant, in parts.                                      *)

\* A request has a draft from the resolution of a benchmark to its insert.
DraftShape ==
    \A c \in Clients :
        /\ txns[c].phase = "resolved" => txns[c].step.kind = "benchmark"
        /\ txns[c].phase \in {"resolved", "checked"} /\ txns[c].step.kind = "benchmark"
              => txns[c].draft \in MappingRow

\* Stored rows stay stored.
BaseStored ==
    \A c \in Clients : /\ txns[c].base.identifiers \subseteq identifiers
                       /\ txns[c].base.mappings \subseteq mappings

\* What c must keep apart from: its own rows and those of its beginning.
NearIdentifiers(c) == txns[c].own.identifiers \cup txns[c].base.identifiers
NearMappings(c) == txns[c].own.mappings \cup txns[c].base.mappings

\* A checked identifier, a checked mapping, is apart from the others.
IdentifierFree ==
    \A c \in Clients :
        Doing(c, "checked", "identifier") =>
            \A x \in NearIdentifiers(c) : ~ Ambiguous(x, IdentifierOf(Row(c)))

MappingFree ==
    \A c \in Clients :
        Doing(c, "checked", "benchmark") =>
            \A m \in NearMappings(c) : ~ Rivals(m, txns[c].draft)

\* Among these identifiers, both securities of the mapping had one.
JustifiedBy(m, rows) ==
    \A s \in {m.security, m.benchmark} :
        \E x \in rows : x.security = s /\ Covers(x.valid, m.valid.from)

OwnJustified ==
    \A c \in Clients :
        /\ \A m \in txns[c].own.mappings : JustifiedBy(m, VisibleIdentifiers(c))
        /\ txns[c].draft # None => JustifiedBy(txns[c].draft, VisibleIdentifiers(c))

\* The rows of the upload that have been registered.
Behind(c, i) == txns[c].step.kind = "benchmark" \/ i < txns[c].step.row

RowsSeen ==
    \A c \in Clients : \A i \in 1..Len(txns[c].upload) :
        Behind(c, i) =>
            \E x \in VisibleIdentifiers(c) :
                /\ SameIdentifierVintage(x, IdentifierOf(txns[c].upload[i]))
                /\ x.security = txns[c].upload[i].security

IInv == /\ TypeOK /\ DraftShape /\ BaseStored
        /\ IdentifierFree /\ MappingFree /\ OverlapNeedsConcurrency
        /\ OwnJustified /\ MappingJustified /\ RowsSeen

-----------------------------------------------------------------------------
(* The row at hand is a row of the upload.                                 *)
LEMMA RowTyped ==
    ASSUME TypeOK, NEW c \in Clients, ~ Complete(c)
    PROVE  Row(c) \in UploadRow /\ IdentifierOf(Row(c)) \in IdentifierRow
<1>1. Row(c) \in UploadRow
  BY DEF TypeOK, Txn, Complete, Row
<1>2. QED
  BY <1>1 DEF UploadRow, IdentifierOf, IdentifierRow

(* The task after a task is a task.                                        *)
LEMMA AfterTyped ==
    ASSUME NEW step \in [kind : Kinds, row : Nat \ {0}], NEW n \in Nat
    PROVE  After(step, n) \in [kind : Kinds, row : Nat \ {0}]
BY DEF After, Kinds

-----------------------------------------------------------------------------
(* Every operation leaves the tables and the requests well formed.         *)
LEMMA TypePreserved == TypeOK /\ DraftShape /\ [Next]_vars => TypeOK'
<1> SUFFICES ASSUME TypeOK, DraftShape, [Next]_vars PROVE TypeOK'
  OBVIOUS
<1>a. ASSUME NEW c \in Clients
      PROVE  /\ txns[c] \in Txn /\ Len(txns[c].upload) \in Nat
             /\ After(txns[c].step, Len(txns[c].upload)) \in [kind : Kinds, row : Nat \ {0}]
             /\ Idle \in Txn
  <2>1. txns[c] \in Txn /\ Len(txns[c].upload) \in Nat
    BY DEF TypeOK, Txn
  <2>2. Idle \in Txn
    BY DEF Idle, Txn, Phases, Kinds, Rows, NoRows
  <2>3. QED
    BY <2>1, <2>2, AfterTyped DEF Txn
<1>b. ASSUME NEW c \in Clients, Refuse(c) PROVE TypeOK'
  BY <1>a, <1>b DEF Refuse, TypeOK, Txn, Phases
<1>c. ASSUME NEW c \in Clients, NEW own \in Rows, Finish(c, own) PROVE TypeOK'
  <2>1. [txns[c] EXCEPT !.phase = "reading", !.draft = None, !.own = own,
                        !.step = After(txns[c].step, Len(txns[c].upload))] \in Txn
    BY <1>a DEF Txn, Phases
  <2>2. QED
    BY <1>c, <2>1 DEF Finish, TypeOK
<1>d. ASSUME NEW c \in Clients,
             txns' = [txns EXCEPT ![c].phase = "checked"],
             UNCHANGED <<securities, identifiers, mappings>>
      PROVE  TypeOK'
  BY <1>a, <1>d DEF TypeOK, Txn, Phases
<1>1. ASSUME NEW c \in Clients, Begin(c) PROVE TypeOK'
  <2>1. PICK upload \in Uploads :
           txns' = [txns EXCEPT ![c] = [Idle EXCEPT !.phase = "reading", !.upload = upload,
                      !.base = [identifiers |-> identifiers, mappings |-> mappings]]]
    BY <1>1 DEF Begin
  <2>2. [Idle EXCEPT !.phase = "reading", !.upload = upload,
           !.base = [identifiers |-> identifiers, mappings |-> mappings]] \in Txn
    <3>1. upload \in Seq(UploadRow)
      BY MasterAssumption
    <3>2. [identifiers |-> identifiers, mappings |-> mappings] \in Rows
      BY DEF TypeOK, Rows
    <3>3. QED
      BY <1>a, <3>1, <3>2 DEF Txn, Phases
  <2>3. QED
    BY <1>1, <2>1, <2>2 DEF Begin, TypeOK
<1>2. ASSUME NEW c \in Clients, RegisterSecurity(c) PROVE TypeOK'
  <2>1. Row(c).security \in Securities
    BY <1>2, RowTyped DEF RegisterSecurity, Doing, UploadRow
  <2>2. [txns[c] EXCEPT !.registered = @ \cup {Row(c).security},
                        !.step = After(@, Len(txns[c].upload))] \in Txn
    BY <1>a, <2>1 DEF Txn
  <2>3. QED
    BY <1>2, <2>2 DEF RegisterSecurity, TypeOK
<1>3. ASSUME NEW c \in Clients, CheckIdentifier(c) PROVE TypeOK'
  BY <1>3, <1>a, <1>b, <1>c, <1>d DEF CheckIdentifier, Txn
<1>4. ASSUME NEW c \in Clients, InsertIdentifier(c) PROVE TypeOK'
  <2>1. IdentifierOf(Row(c)) \in IdentifierRow
    BY <1>4, RowTyped DEF InsertIdentifier, Doing
  <2>2. [txns[c].own EXCEPT !.identifiers = @ \cup {IdentifierOf(Row(c))}] \in Rows
    BY <1>a, <2>1 DEF Txn, Rows
  <2>3. QED
    BY <1>4, <2>2, <1>b, <1>c DEF InsertIdentifier
<1>5. ASSUME NEW c \in Clients, ResolveBenchmark(c) PROVE TypeOK'
  <2>1. CASE Refuse(c)
    BY <2>1, <1>b
  <2>2. CASE Finish(c, txns[c].own)
    BY <2>2, <1>a, <1>c DEF Txn
  <2>3. CASE ~ Refuse(c) /\ ~ Finish(c, txns[c].own)
    <3>1. PICK s \in Securities, b \in Securities :
             txns' = [txns EXCEPT ![c].phase = "resolved",
                ![c].draft = [security |-> s, benchmark |-> b, valid |-> Row(c).valid]]
      BY <1>5, <2>3 DEF ResolveBenchmark
    <3>2. Row(c).valid \in Interval
      BY <1>5, RowTyped DEF ResolveBenchmark, Doing, UploadRow
    <3>3. [security |-> s, benchmark |-> b, valid |-> Row(c).valid] \in MappingRow
      BY <3>2 DEF MappingRow
    <3>4. [txns[c] EXCEPT !.phase = "resolved",
             !.draft = [security |-> s, benchmark |-> b, valid |-> Row(c).valid]] \in Txn
      BY <1>a, <3>3 DEF Txn, Phases
    <3>5. UNCHANGED <<securities, identifiers, mappings>>
      BY <1>5, <2>3 DEF ResolveBenchmark
    <3>6. QED
      BY <3>1, <3>4, <3>5 DEF TypeOK
  <2>4. QED
    BY <2>1, <2>2, <2>3
<1>6. ASSUME NEW c \in Clients, CheckBenchmark(c) PROVE TypeOK'
  BY <1>6, <1>a, <1>c, <1>d DEF CheckBenchmark, Txn
<1>7. ASSUME NEW c \in Clients, InsertBenchmark(c) PROVE TypeOK'
  <2>1. txns[c].draft \in MappingRow
    BY <1>7 DEF InsertBenchmark, Doing, DraftShape
  <2>2. [txns[c].own EXCEPT !.mappings = @ \cup {txns[c].draft}] \in Rows
    BY <1>a, <2>1 DEF Txn, Rows
  <2>3. QED
    BY <1>7, <2>2, <1>b, <1>c DEF InsertBenchmark
<1>8. ASSUME NEW c \in Clients, Commit(c) PROVE TypeOK'
  BY <1>8, <1>a DEF Commit, TypeOK, Txn, Rows
<1>9. ASSUME NEW c \in Clients, Abort(c) PROVE TypeOK'
  BY <1>9, <1>a DEF Abort, TypeOK
<1>10. CASE UNCHANGED vars
  BY <1>10 DEF vars, TypeOK
<1>11. QED
  BY <1>1, <1>2, <1>3, <1>4, <1>5, <1>6, <1>7, <1>8, <1>9, <1>10 DEF Next

-----------------------------------------------------------------------------
(* Rows are only added, and an operation leaves the other requests alone.  *)
LEMMA RowsOnlyAdded ==
    [Next]_vars => identifiers \subseteq identifiers' /\ mappings \subseteq mappings'
<1> DEFINE Added == identifiers \subseteq identifiers' /\ mappings \subseteq mappings'
<1> SUFFICES ASSUME [Next]_vars PROVE Added
  OBVIOUS
<1> USE DEF Refuse, Finish
<1>1. ASSUME NEW c \in Clients, Begin(c) \/ RegisterSecurity(c) PROVE Added
  BY <1>1 DEF Begin, RegisterSecurity
<1>2. ASSUME NEW c \in Clients, CheckIdentifier(c) PROVE Added
  BY <1>2 DEF CheckIdentifier
<1>3. ASSUME NEW c \in Clients, InsertIdentifier(c) PROVE Added
  BY <1>3 DEF InsertIdentifier
<1>4. ASSUME NEW c \in Clients, ResolveBenchmark(c) PROVE Added
  BY <1>4 DEF ResolveBenchmark
<1>5. ASSUME NEW c \in Clients, CheckBenchmark(c) \/ InsertBenchmark(c) PROVE Added
  BY <1>5 DEF CheckBenchmark, InsertBenchmark
<1>6. ASSUME NEW c \in Clients, Commit(c) \/ Abort(c) PROVE Added
  BY <1>6 DEF Commit, Abort
<1>7. CASE UNCHANGED vars
  BY <1>7 DEF vars
<1>8. QED
  BY <1>1, <1>2, <1>3, <1>4, <1>5, <1>6, <1>7 DEF Next

(* A refused request, and one that is over, has nothing left.              *)
LEMMA Cleared ==
    ASSUME TypeOK, NEW c \in Clients, Refuse(c) \/ Abort(c) \/ Commit(c)
    PROVE  /\ \A d \in Clients \ {c} : txns'[d] = txns[d]
           /\ txns'[c].phase \in {"idle", "refused"} /\ txns'[c].draft = None
           /\ txns'[c].own = NoRows /\ txns'[c].base = NoRows
           /\ txns'[c].upload = <<>>
           /\ txns'[c].step = [kind |-> "security", row |-> 1]
BY DEF Refuse, Abort, Commit, Idle, TypeOK, Txn

(* A task that is done.                                                    *)
LEMMA Finished ==
    ASSUME TypeOK, NEW c \in Clients, NEW own, Finish(c, own)
    PROVE  /\ \A d \in Clients \ {c} : txns'[d] = txns[d]
           /\ txns'[c].phase = "reading" /\ txns'[c].draft = None
           /\ txns'[c].own = own /\ txns'[c].base = txns[c].base
           /\ txns'[c].upload = txns[c].upload
           /\ txns'[c].step = After(txns[c].step, Len(txns[c].upload))
BY DEF Finish, TypeOK, Txn

(* A task that has been checked.                                           *)
LEMMA Checked ==
    ASSUME TypeOK, NEW c \in Clients, txns' = [txns EXCEPT ![c].phase = "checked"]
    PROVE  /\ \A d \in Clients \ {c} : txns'[d] = txns[d]
           /\ txns'[c].phase = "checked" /\ txns'[c].draft = txns[c].draft
           /\ txns'[c].own = txns[c].own /\ txns'[c].base = txns[c].base
           /\ txns'[c].upload = txns[c].upload /\ txns'[c].step = txns[c].step
BY DEF TypeOK, Txn

(* A request that begins.                                                  *)
LEMMA Begun ==
    ASSUME TypeOK, NEW c \in Clients, Begin(c)
    PROVE  /\ \A d \in Clients \ {c} : txns'[d] = txns[d]
           /\ txns'[c].phase = "reading" /\ txns'[c].draft = None
           /\ txns'[c].own = NoRows
           /\ txns'[c].base = [identifiers |-> identifiers, mappings |-> mappings]
           /\ txns'[c].step = [kind |-> "security", row |-> 1]
           /\ UNCHANGED <<identifiers, mappings>>
BY DEF Begin, Idle, TypeOK, Txn

(* A security that is registered.                                          *)
LEMMA Registered ==
    ASSUME TypeOK, NEW c \in Clients, RegisterSecurity(c)
    PROVE  /\ \A d \in Clients \ {c} : txns'[d] = txns[d]
           /\ txns'[c].phase = "reading" /\ txns'[c].draft = txns[c].draft
           /\ txns'[c].own = txns[c].own /\ txns'[c].base = txns[c].base
           /\ txns'[c].upload = txns[c].upload
           /\ txns[c].step.kind = "security"
           /\ txns'[c].step = [kind |-> "identifier", row |-> txns[c].step.row]
           /\ UNCHANGED <<identifiers, mappings>>
<1>1. txns[c].step.kind = "security"
  BY DEF RegisterSecurity, Doing
<1>2. After(txns[c].step, Len(txns[c].upload)) = [kind |-> "identifier", row |-> txns[c].step.row]
  BY <1>1 DEF After, TypeOK, Txn
<1>3. /\ \A d \in Clients \ {c} : txns'[d] = txns[d]
      /\ txns'[c].phase = "reading" /\ txns'[c].draft = txns[c].draft
      /\ txns'[c].own = txns[c].own /\ txns'[c].base = txns[c].base
      /\ txns'[c].upload = txns[c].upload
      /\ txns'[c].step = After(txns[c].step, Len(txns[c].upload))
      /\ UNCHANGED <<identifiers, mappings>>
  BY DEF RegisterSecurity, Doing, TypeOK, Txn
<1>4. QED
  BY <1>1, <1>2, <1>3

(* A benchmark row whose references have been resolved.                    *)
Resolved(c) ==
    /\ Doing(c, "reading", "benchmark")
    /\ \A d \in Clients \ {c} : txns'[d] = txns[d]
    /\ txns'[c].phase = "resolved"
    /\ txns'[c].own = txns[c].own /\ txns'[c].base = txns[c].base
    /\ txns'[c].upload = txns[c].upload /\ txns'[c].step = txns[c].step
    /\ txns'[c].draft \in MappingRow
    /\ JustifiedBy(txns'[c].draft, VisibleIdentifiers(c))
    /\ UNCHANGED <<identifiers, mappings>>

(* What one operation does to the request of its client.                   *)
LEMMA Outcomes ==
    ASSUME TypeOK, NEW c \in Clients, ResolveBenchmark(c)
    PROVE  Refuse(c) \/ Finish(c, txns[c].own) \/ Resolved(c)
<1> SUFFICES ASSUME ~ Refuse(c), ~ Finish(c, txns[c].own) PROVE Resolved(c)
  OBVIOUS
<1> DEFINE row == Row(c)
           subjects == Candidates(VisibleIdentifiers(c), row.name, Matches[row.space],
                                  row.valid.from)
           targets == Candidates(VisibleIdentifiers(c), row.benchmark, Spaces,
                                 row.valid.from)
<1>1. PICK s \in Securities, b \in Securities :
         /\ subjects = {s} /\ targets = {b}
         /\ txns' = [txns EXCEPT ![c].phase = "resolved",
              ![c].draft = [security |-> s, benchmark |-> b, valid |-> row.valid]]
  BY DEF ResolveBenchmark
<1>2. row.valid \in Interval
  BY RowTyped DEF ResolveBenchmark, Doing, UploadRow
<1> DEFINE m == [security |-> s, benchmark |-> b, valid |-> row.valid]
<1>3. m \in MappingRow
  BY <1>2 DEF MappingRow
<1>4. JustifiedBy(m, VisibleIdentifiers(c))
  BY <1>1 DEF JustifiedBy, Candidates
<1>5. /\ \A d \in Clients \ {c} : txns'[d] = txns[d]
      /\ txns'[c].phase = "resolved" /\ txns'[c].draft = m
      /\ txns'[c].own = txns[c].own /\ txns'[c].base = txns[c].base
      /\ txns'[c].upload = txns[c].upload /\ txns'[c].step = txns[c].step
  BY <1>1 DEF TypeOK, Txn
<1>6. QED
  BY <1>3, <1>4, <1>5 DEF ResolveBenchmark, Resolved

-----------------------------------------------------------------------------
(* A draft is there when it is needed.                                     *)
LEMMA DraftShapePreserved == TypeOK /\ DraftShape /\ [Next]_vars => DraftShape'
<1> USE DEF DraftShape
<1> SUFFICES ASSUME TypeOK, DraftShape, [Next]_vars PROVE DraftShape'
  OBVIOUS
<1>a. ASSUME NEW c \in Clients, Refuse(c) \/ Abort(c) \/ Commit(c) PROVE DraftShape'
  BY <1>a, Cleared
<1>b. ASSUME NEW c \in Clients, NEW own, Finish(c, own) PROVE DraftShape'
  BY <1>b, Finished
<1>1. ASSUME NEW c \in Clients, Begin(c) PROVE DraftShape'
  BY <1>1, Begun
<1>2. ASSUME NEW c \in Clients, RegisterSecurity(c) PROVE DraftShape'
  BY <1>2, Registered
<1>3. ASSUME NEW c \in Clients, CheckIdentifier(c) PROVE DraftShape'
  BY <1>3, <1>a, <1>b, Checked DEF CheckIdentifier, Doing
<1>4. ASSUME NEW c \in Clients, InsertIdentifier(c) PROVE DraftShape'
  BY <1>4, <1>a, <1>b DEF InsertIdentifier
<1>5. ASSUME NEW c \in Clients, ResolveBenchmark(c) PROVE DraftShape'
  BY <1>5, <1>a, <1>b, Outcomes DEF Resolved, Doing
<1>6. ASSUME NEW c \in Clients, CheckBenchmark(c) PROVE DraftShape'
  BY <1>6, <1>b, Checked DEF CheckBenchmark, Doing
<1>7. ASSUME NEW c \in Clients, InsertBenchmark(c) PROVE DraftShape'
  BY <1>7, <1>a, <1>b DEF InsertBenchmark
<1>8. CASE UNCHANGED vars
  BY <1>8 DEF vars
<1>9. QED
  BY <1>1, <1>2, <1>3, <1>4, <1>5, <1>6, <1>7, <1>8, <1>a DEF Next

(* What was stored when a request began is stored.                         *)
LEMMA BaseStoredPreserved == TypeOK /\ BaseStored /\ [Next]_vars => BaseStored'
<1> USE RowsOnlyAdded DEF BaseStored
<1> SUFFICES ASSUME TypeOK, BaseStored, [Next]_vars PROVE BaseStored'
  OBVIOUS
<1>a. ASSUME NEW c \in Clients, Refuse(c) \/ Abort(c) \/ Commit(c) PROVE BaseStored'
  BY <1>a, Cleared DEF NoRows
<1>b. ASSUME NEW c \in Clients, NEW own, Finish(c, own) PROVE BaseStored'
  BY <1>b, Finished
<1>1. ASSUME NEW c \in Clients, Begin(c) PROVE BaseStored'
  BY <1>1, Begun
<1>2. ASSUME NEW c \in Clients, RegisterSecurity(c) PROVE BaseStored'
  BY <1>2, Registered
<1>3. ASSUME NEW c \in Clients, CheckIdentifier(c) PROVE BaseStored'
  BY <1>3, <1>a, <1>b, Checked DEF CheckIdentifier
<1>4. ASSUME NEW c \in Clients, InsertIdentifier(c) PROVE BaseStored'
  BY <1>4, <1>a, <1>b DEF InsertIdentifier
<1>5. ASSUME NEW c \in Clients, ResolveBenchmark(c) PROVE BaseStored'
  BY <1>5, <1>a, <1>b, Outcomes DEF Resolved
<1>6. ASSUME NEW c \in Clients, CheckBenchmark(c) PROVE BaseStored'
  BY <1>6, <1>b, Checked DEF CheckBenchmark
<1>7. ASSUME NEW c \in Clients, InsertBenchmark(c) PROVE BaseStored'
  BY <1>7, <1>a, <1>b DEF InsertBenchmark
<1>8. CASE UNCHANGED vars
  BY <1>8 DEF vars
<1>9. QED
  BY <1>1, <1>2, <1>3, <1>4, <1>5, <1>6, <1>7, <1>8, <1>a DEF Next

(* A checked identifier is apart from the request's own rows and from those*)
(* that were stored when it began: the overlap query saw them all.         *)
LEMMA IdentifierFreePreserved ==
    TypeOK /\ BaseStored /\ IdentifierFree /\ [Next]_vars => IdentifierFree'
<1> USE DEF IdentifierFree, NearIdentifiers, Doing, Complete, Row
<1> SUFFICES ASSUME TypeOK, BaseStored, IdentifierFree, [Next]_vars PROVE IdentifierFree'
  OBVIOUS
<1>a. ASSUME NEW c \in Clients, Refuse(c) \/ Abort(c) \/ Commit(c) PROVE IdentifierFree'
  BY <1>a, Cleared
<1>b. ASSUME NEW c \in Clients, NEW own, Finish(c, own) PROVE IdentifierFree'
  BY <1>b, Finished
<1>1. ASSUME NEW c \in Clients, Begin(c) PROVE IdentifierFree'
  BY <1>1, Begun
<1>2. ASSUME NEW c \in Clients, RegisterSecurity(c) PROVE IdentifierFree'
  BY <1>2, Registered
<1>3. ASSUME NEW c \in Clients, CheckIdentifier(c) PROVE IdentifierFree'
  <2> DEFINE new == IdentifierOf(Row(c))
             overlapping == { x \in VisibleIdentifiers(c) :
                                 SameIdentifier(x, new) /\ Overlap(x.valid, new.valid) }
  <2>1. CASE Refuse(c) \/ Finish(c, txns[c].own)
    BY <2>1, <1>a, <1>b
  <2>2. CASE ~ Refuse(c) /\ ~ Finish(c, txns[c].own)
    <3>1. overlapping = {} /\ txns' = [txns EXCEPT ![c].phase = "checked"]
      BY <1>3, <2>2 DEF CheckIdentifier
    <3>2. NearIdentifiers(c) \subseteq VisibleIdentifiers(c)
      BY DEF VisibleIdentifiers, BaseStored
    <3>3. \A x \in NearIdentifiers(c) : x \in IdentifierRow
      BY DEF TypeOK, Txn, Rows
    <3>4. new \in IdentifierRow
      BY <1>3, RowTyped DEF CheckIdentifier
    <3>5. \A x \in NearIdentifiers(c) : ~ Ambiguous(x, new)
      BY <3>1, <3>2, <3>3, <3>4, OverlapIsSharedInstant DEF Ambiguous, IdentifierRow
    <3>6. QED
      BY <3>1, <3>5, Checked
  <2>3. QED
    BY <2>1, <2>2
<1>4. ASSUME NEW c \in Clients, InsertIdentifier(c) PROVE IdentifierFree'
  BY <1>4, <1>a, <1>b DEF InsertIdentifier
<1>5. ASSUME NEW c \in Clients, ResolveBenchmark(c) PROVE IdentifierFree'
  BY <1>5, <1>a, <1>b, Outcomes DEF Resolved
<1>6. ASSUME NEW c \in Clients, CheckBenchmark(c) PROVE IdentifierFree'
  BY <1>6, <1>b, Checked DEF CheckBenchmark
<1>7. ASSUME NEW c \in Clients, InsertBenchmark(c) PROVE IdentifierFree'
  BY <1>7, <1>a, <1>b DEF InsertBenchmark
<1>8. CASE UNCHANGED vars
  BY <1>8 DEF vars
<1>9. QED
  BY <1>1, <1>2, <1>3, <1>4, <1>5, <1>6, <1>7, <1>8, <1>a DEF Next

(* A checked mapping is apart from the request's own mappings and from     *)
(* those that were stored when it began.                                   *)
LEMMA MappingFreePreserved ==
    TypeOK /\ DraftShape /\ BaseStored /\ MappingFree /\ [Next]_vars => MappingFree'
<1> USE DEF MappingFree, NearMappings, Doing, Complete
<1> SUFFICES ASSUME TypeOK, DraftShape, BaseStored, MappingFree, [Next]_vars
             PROVE  MappingFree'
  OBVIOUS
<1>a. ASSUME NEW c \in Clients, Refuse(c) \/ Abort(c) \/ Commit(c) PROVE MappingFree'
  BY <1>a, Cleared
<1>b. ASSUME NEW c \in Clients, NEW own, Finish(c, own) PROVE MappingFree'
  BY <1>b, Finished
<1>1. ASSUME NEW c \in Clients, Begin(c) PROVE MappingFree'
  BY <1>1, Begun
<1>2. ASSUME NEW c \in Clients, RegisterSecurity(c) PROVE MappingFree'
  BY <1>2, Registered
<1>3. ASSUME NEW c \in Clients, CheckIdentifier(c) PROVE MappingFree'
  BY <1>3, <1>a, <1>b, Checked DEF CheckIdentifier
<1>4. ASSUME NEW c \in Clients, InsertIdentifier(c) PROVE MappingFree'
  BY <1>4, <1>a, <1>b DEF InsertIdentifier
<1>5. ASSUME NEW c \in Clients, ResolveBenchmark(c) PROVE MappingFree'
  BY <1>5, <1>a, <1>b, Outcomes DEF Resolved
<1>6. ASSUME NEW c \in Clients, CheckBenchmark(c) PROVE MappingFree'
  <2> DEFINE new == txns[c].draft
             rivals == { x \in VisibleMappings(c) :
                            /\ x.security = new.security
                            /\ SameMappingVintage(x, new) \/ Overlap(x.valid, new.valid) }
  <2>1. CASE Finish(c, txns[c].own)
    BY <2>1, <1>b
  <2>2. CASE ~ Finish(c, txns[c].own)
    <3>1. rivals = {} /\ txns' = [txns EXCEPT ![c].phase = "checked"]
      BY <1>6, <2>2 DEF CheckBenchmark
    <3>2. NearMappings(c) \subseteq VisibleMappings(c)
      BY DEF VisibleMappings, BaseStored
    <3>3. \A x \in NearMappings(c) : x \in MappingRow
      BY DEF TypeOK, Txn, Rows
    <3>4. new \in MappingRow
      BY <1>6 DEF CheckBenchmark, DraftShape
    <3>5. \A x \in NearMappings(c) : ~ Rivals(x, new)
      BY <3>1, <3>2, <3>3, <3>4, OverlapIsSharedInstant DEF Rivals, MappingRow
    <3>6. QED
      BY <3>1, <3>5, Checked
  <2>3. QED
    BY <2>1, <2>2
<1>7. ASSUME NEW c \in Clients, InsertBenchmark(c) PROVE MappingFree'
  BY <1>7, <1>a, <1>b DEF InsertBenchmark
<1>8. CASE UNCHANGED vars
  BY <1>8 DEF vars
<1>9. QED
  BY <1>1, <1>2, <1>3, <1>4, <1>5, <1>6, <1>7, <1>8, <1>a DEF Next

(* A request's own rows stay apart: it inserts what it has checked.        *)
LEMMA ApartPreserved ==
    /\ TypeOK /\ IdentifierFree /\ MappingFree
    /\ OverlapNeedsConcurrency /\ [Next]_vars
    => OverlapNeedsConcurrency'
<1> USE DEF OverlapNeedsConcurrency
<1> SUFFICES ASSUME TypeOK, IdentifierFree, MappingFree,
                    OverlapNeedsConcurrency, [Next]_vars
             PROVE  OverlapNeedsConcurrency'
  OBVIOUS
<1>a. ASSUME NEW c \in Clients, Refuse(c) \/ Abort(c) \/ Commit(c)
      PROVE  OverlapNeedsConcurrency'
  BY <1>a, Cleared DEF NoRows
<1>b. ASSUME NEW c \in Clients, Finish(c, txns[c].own) PROVE OverlapNeedsConcurrency'
  BY <1>b, Finished
<1>1. ASSUME NEW c \in Clients, Begin(c) PROVE OverlapNeedsConcurrency'
  BY <1>1, Begun DEF NoRows
<1>2. ASSUME NEW c \in Clients, RegisterSecurity(c) PROVE OverlapNeedsConcurrency'
  BY <1>2, Registered
<1>3. ASSUME NEW c \in Clients, CheckIdentifier(c) PROVE OverlapNeedsConcurrency'
  BY <1>3, <1>a, <1>b, Checked DEF CheckIdentifier
<1>4. ASSUME NEW c \in Clients, InsertIdentifier(c) PROVE OverlapNeedsConcurrency'
  <2>1. CASE Refuse(c)
    BY <2>1, <1>a
  <2>2. CASE ~ Refuse(c)
    <3> DEFINE new == IdentifierOf(Row(c))
               own == [txns[c].own EXCEPT !.identifiers = @ \cup {new}]
    <3>1. Finish(c, own)
      BY <1>4, <2>2 DEF InsertIdentifier
    <3>2. \A x \in NearIdentifiers(c) : ~ Ambiguous(x, new) /\ ~ Ambiguous(new, x)
      BY <1>4 DEF InsertIdentifier, IdentifierFree, Ambiguous, SameIdentifier, ShareAnInstant
    <3>3. own.identifiers = txns[c].own.identifiers \cup {new}
          /\ own.mappings = txns[c].own.mappings
      BY DEF TypeOK, Txn, Rows
    <3>4. \A y \in own.identifiers, x \in own.identifiers \cup txns[c].base.identifiers :
             x # y => ~ Ambiguous(x, y)
      BY <3>2, <3>3 DEF NearIdentifiers
    <3>5. /\ \A d \in Clients \ {c} : txns'[d] = txns[d]
          /\ txns'[c].own = own /\ txns'[c].base = txns[c].base
      BY <3>1, Finished
    <3>6. QED
      BY <3>3, <3>4, <3>5
  <2>3. QED
    BY <2>1, <2>2
<1>5. ASSUME NEW c \in Clients, ResolveBenchmark(c) PROVE OverlapNeedsConcurrency'
  BY <1>5, <1>a, <1>b, Outcomes DEF Resolved
<1>6. ASSUME NEW c \in Clients, CheckBenchmark(c) PROVE OverlapNeedsConcurrency'
  BY <1>6, <1>b, Checked DEF CheckBenchmark
<1>7. ASSUME NEW c \in Clients, InsertBenchmark(c) PROVE OverlapNeedsConcurrency'
  <2>1. CASE Refuse(c)
    BY <2>1, <1>a
  <2>2. CASE ~ Refuse(c)
    <3> DEFINE new == txns[c].draft
               own == [txns[c].own EXCEPT !.mappings = @ \cup {new}]
    <3>1. Finish(c, own)
      BY <1>7, <2>2 DEF InsertBenchmark
    <3>2. \A m \in NearMappings(c) : ~ Rivals(m, new) /\ ~ Rivals(new, m)
      BY <1>7 DEF InsertBenchmark, MappingFree, Rivals, ShareAnInstant
    <3>3. own.mappings = txns[c].own.mappings \cup {new}
          /\ own.identifiers = txns[c].own.identifiers
      BY DEF TypeOK, Txn, Rows
    <3>4. \A n \in own.mappings, m \in own.mappings \cup txns[c].base.mappings :
             m # n => ~ Rivals(m, n)
      BY <3>2, <3>3 DEF NearMappings
    <3>5. /\ \A d \in Clients \ {c} : txns'[d] = txns[d]
          /\ txns'[c].own = own /\ txns'[c].base = txns[c].base
      BY <3>1, Finished
    <3>6. QED
      BY <3>3, <3>4, <3>5
  <2>3. QED
    BY <2>1, <2>2
<1>8. CASE UNCHANGED vars
  BY <1>8 DEF vars
<1>9. QED
  BY <1>1, <1>2, <1>3, <1>4, <1>5, <1>6, <1>7, <1>8, <1>a DEF Next

-----------------------------------------------------------------------------
(* A request keeps seeing what it saw, and stores what it has inserted.    *)
LEMMA StillVisible ==
    ASSUME [Next]_vars, NEW d \in Clients, txns'[d].own = txns[d].own
    PROVE  VisibleIdentifiers(d) \subseteq VisibleIdentifiers(d)'
BY RowsOnlyAdded DEF VisibleIdentifiers

LEMMA JustifiedByMore ==
    ASSUME NEW m, NEW rows, NEW more, rows \subseteq more, JustifiedBy(m, rows)
    PROVE  JustifiedBy(m, more)
BY DEF JustifiedBy

(* The mappings of a request are justified by identifiers that it sees.    *)
LEMMA OwnJustifiedPreserved ==
    TypeOK /\ DraftShape /\ OwnJustified /\ [Next]_vars => OwnJustified'
<1> SUFFICES ASSUME TypeOK, DraftShape, OwnJustified, [Next]_vars PROVE OwnJustified'
  OBVIOUS
<1> DEFINE Fine(d) ==
      /\ \A m \in txns[d].own.mappings : JustifiedBy(m, VisibleIdentifiers(d))
      /\ txns[d].draft # None => JustifiedBy(txns[d].draft, VisibleIdentifiers(d))
<1>k. ASSUME NEW d \in Clients, txns'[d].own = txns[d].own,
             txns'[d].draft \in {txns[d].draft, None}
      PROVE  Fine(d)'
  BY <1>k, StillVisible, JustifiedByMore DEF OwnJustified
<1>e. ASSUME NEW d \in Clients, txns'[d].own = NoRows, txns'[d].draft = None
      PROVE  Fine(d)'
  BY <1>e DEF NoRows
<1> HIDE DEF Fine
<1>f. ASSUME \A d \in Clients : Fine(d)' PROVE OwnJustified'
  BY <1>f DEF Fine, OwnJustified
<1>a. ASSUME NEW c \in Clients, Refuse(c) \/ Abort(c) \/ Commit(c) PROVE OwnJustified'
  BY <1>a, <1>e, <1>f, <1>k, Cleared
<1>b. ASSUME NEW c \in Clients, Finish(c, txns[c].own) PROVE OwnJustified'
  BY <1>b, <1>f, <1>k, Finished
<1>1. ASSUME NEW c \in Clients, Begin(c) PROVE OwnJustified'
  BY <1>1, <1>e, <1>f, <1>k, Begun
<1>2. ASSUME NEW c \in Clients, RegisterSecurity(c) PROVE OwnJustified'
  BY <1>2, <1>f, <1>k, Registered
<1>3. ASSUME NEW c \in Clients, CheckIdentifier(c) PROVE OwnJustified'
  BY <1>3, <1>a, <1>b, <1>f, <1>k, Checked DEF CheckIdentifier
<1>4. ASSUME NEW c \in Clients, InsertIdentifier(c) PROVE OwnJustified'
  <2>1. CASE Refuse(c)
    BY <2>1, <1>a
  <2>2. CASE ~ Refuse(c)
    <3> DEFINE own == [txns[c].own EXCEPT !.identifiers = @ \cup {IdentifierOf(Row(c))}]
    <3>1. Finish(c, own)
      BY <1>4, <2>2 DEF InsertIdentifier
    <3>2. /\ txns'[c].own.identifiers =
                txns[c].own.identifiers \cup {IdentifierOf(Row(c))}
          /\ txns'[c].own.mappings = txns[c].own.mappings
          /\ txns'[c].draft = None
      <4>1. /\ own.identifiers = txns[c].own.identifiers \cup {IdentifierOf(Row(c))}
            /\ own.mappings = txns[c].own.mappings
        BY DEF TypeOK, Txn, Rows
      <4>2. txns'[c].own = own /\ txns'[c].draft = None
        BY <3>1, Finished
      <4>3. QED
        BY <4>1, <4>2
    <3>3. VisibleIdentifiers(c) \subseteq VisibleIdentifiers(c)'
      BY <3>2, RowsOnlyAdded DEF VisibleIdentifiers
    <3>4. \A m \in txns[c].own.mappings : JustifiedBy(m, VisibleIdentifiers(c)')
      BY <3>3, JustifiedByMore DEF OwnJustified
    <3>5. Fine(c)'
      BY <3>2, <3>4 DEF Fine
    <3>6. QED
      BY <3>1, <3>5, <1>f, <1>k, Finished
  <2>3. QED
    BY <2>1, <2>2
<1>5. ASSUME NEW c \in Clients, ResolveBenchmark(c) PROVE OwnJustified'
  <2>1. CASE Resolved(c)
    <3>1. Fine(c)'
      BY <2>1, StillVisible, JustifiedByMore DEF Resolved, Fine, OwnJustified
    <3>2. QED
      BY <2>1, <3>1, <1>f, <1>k DEF Resolved
  <2>2. QED
    BY <1>5, <2>1, <1>a, <1>b, Outcomes
<1>6. ASSUME NEW c \in Clients, CheckBenchmark(c) PROVE OwnJustified'
  BY <1>6, <1>b, <1>f, <1>k, Checked DEF CheckBenchmark
<1>7. ASSUME NEW c \in Clients, InsertBenchmark(c) PROVE OwnJustified'
  <2>1. CASE Refuse(c)
    BY <2>1, <1>a
  <2>2. CASE ~ Refuse(c)
    <3> DEFINE own == [txns[c].own EXCEPT !.mappings = @ \cup {txns[c].draft}]
    <3>1. Finish(c, own)
      BY <1>7, <2>2 DEF InsertBenchmark
    <3>2. /\ txns'[c].own.identifiers = txns[c].own.identifiers
          /\ txns'[c].own.mappings = txns[c].own.mappings \cup {txns[c].draft}
          /\ txns'[c].draft = None
      <4>1. /\ own.mappings = txns[c].own.mappings \cup {txns[c].draft}
            /\ own.identifiers = txns[c].own.identifiers
        BY DEF TypeOK, Txn, Rows
      <4>2. txns'[c].own = own /\ txns'[c].draft = None
        BY <3>1, Finished
      <4>3. QED
        BY <4>1, <4>2
    <3>3. VisibleIdentifiers(c) \subseteq VisibleIdentifiers(c)'
      BY <3>2, RowsOnlyAdded DEF VisibleIdentifiers
    <3>4. txns[c].draft # None
      BY <1>7, MasterAssumption DEF InsertBenchmark, Doing, DraftShape
    <3>5. \A m \in txns[c].own.mappings \cup {txns[c].draft} :
             JustifiedBy(m, VisibleIdentifiers(c)')
      BY <3>3, <3>4, JustifiedByMore DEF OwnJustified
    <3>6. Fine(c)'
      BY <3>2, <3>5 DEF Fine
    <3>7. QED
      BY <3>1, <3>6, <1>f, <1>k, Finished
  <2>3. QED
    BY <2>1, <2>2
<1>8. CASE UNCHANGED vars
  BY <1>8, <1>f, <1>k DEF vars
<1>9. QED
  BY <1>1, <1>2, <1>3, <1>4, <1>5, <1>6, <1>7, <1>8, <1>a DEF Next

(* A commit stores the mappings of a request with the identifiers that     *)
(* justify them.                                                           *)
LEMMA MappingJustifiedPreserved ==
    OwnJustified /\ MappingJustified /\ [Next]_vars => MappingJustified'
<1> SUFFICES ASSUME OwnJustified, MappingJustified, [Next]_vars PROVE MappingJustified'
  OBVIOUS
<1>1. \A m \in mappings : JustifiedBy(m, identifiers')
  BY RowsOnlyAdded, JustifiedByMore DEF MappingJustified, JustifiedBy
<1>2. CASE mappings' = mappings
  BY <1>1, <1>2 DEF MappingJustified, JustifiedBy
<1>3. CASE mappings' # mappings
  <2>1. PICK c \in Clients : Commit(c)
    BY <1>3 DEF Next, vars, Begin, RegisterSecurity, CheckIdentifier, InsertIdentifier,
                ResolveBenchmark, CheckBenchmark, InsertBenchmark, Abort, Refuse, Finish
  <2>2. \A m \in txns[c].own.mappings : JustifiedBy(m, identifiers')
    BY <2>1 DEF Commit, OwnJustified, VisibleIdentifiers
  <2>3. mappings' = mappings \cup txns[c].own.mappings
    BY <2>1 DEF Commit
  <2>4. QED
    BY <1>1, <2>2, <2>3 DEF MappingJustified, JustifiedBy
<1>4. QED
  BY <1>2, <1>3

LEMMA AfterBehind ==
    ASSUME NEW step \in [kind : Kinds, row : Nat \ {0}], NEW n \in Nat, NEW i \in 1..n,
           step.kind # "security",
           After(step, n).kind = "benchmark" \/ i < After(step, n).row
    PROVE  step.kind = "benchmark" \/ i <= step.row
<1> SUFFICES ASSUME step.kind = "identifier" PROVE i <= step.row
  BY DEF Kinds
<1>1. After(step, n) = IF step.row < n THEN [kind |-> "security", row |-> step.row + 1]
                       ELSE [kind |-> "benchmark", row |-> 1]
  BY DEF After
<1>2. CASE step.row < n
  BY <1>1, <1>2
<1>3. CASE ~ (step.row < n)
  BY <1>3
<1>4. QED
  BY <1>2, <1>3

(* A row that has been registered stays in sight of its request.           *)
LEMMA RowsSeenPreserved ==
    TypeOK /\ DraftShape /\ RowsSeen /\ [Next]_vars => RowsSeen'
<1> SUFFICES ASSUME TypeOK, DraftShape, RowsSeen, [Next]_vars PROVE RowsSeen'
  OBVIOUS
<1> DEFINE Seen(d, i) ==
             \E x \in VisibleIdentifiers(d) :
                /\ SameIdentifierVintage(x, IdentifierOf(txns[d].upload[i]))
                /\ x.security = txns[d].upload[i].security
           Fine(d) == \A i \in 1..Len(txns[d].upload) : Behind(d, i) => Seen(d, i)
<1>f. ASSUME \A d \in Clients : Fine(d)' PROVE RowsSeen'
  BY <1>f DEF RowsSeen
<1>k. ASSUME NEW d \in Clients,
             VisibleIdentifiers(d) \subseteq VisibleIdentifiers(d)',
             txns'[d].upload = txns[d].upload,
             \A i \in 1..Len(txns[d].upload) : Behind(d, i)' => Behind(d, i) \/ Seen(d, i)'
      PROVE  Fine(d)'
  BY <1>k DEF RowsSeen
<1>o. ASSUME NEW d \in Clients, txns'[d] = txns[d] PROVE Fine(d)'
  BY <1>o, <1>k, StillVisible DEF Behind
<1>e. ASSUME NEW d \in Clients, txns'[d].upload = <<>> PROVE Fine(d)'
  BY <1>e
<1> HIDE DEF Fine
<1>a. ASSUME NEW c \in Clients, Refuse(c) \/ Abort(c) \/ Commit(c) PROVE RowsSeen'
  BY <1>a, <1>e, <1>f, <1>o, Cleared
<1>n. ASSUME NEW c \in Clients, NEW own, Finish(c, own), txns[c].step.kind # "security",
             VisibleIdentifiers(c) \subseteq VisibleIdentifiers(c)',
             \/ txns[c].step.kind = "benchmark"
             \/ \A i \in 1..Len(txns[c].upload) : i = txns[c].step.row => Seen(c, i)'
      PROVE  RowsSeen'
  <2>1. /\ \A d \in Clients \ {c} : txns'[d] = txns[d]
        /\ txns'[c].upload = txns[c].upload
        /\ txns'[c].step = After(txns[c].step, Len(txns[c].upload))
    BY <1>n, Finished
  <2>2. ASSUME NEW i \in 1..Len(txns[c].upload), Behind(c, i)' PROVE Behind(c, i) \/ Seen(c, i)'
    <3>1. txns[c].step \in [kind : Kinds, row : Nat \ {0}] /\ Len(txns[c].upload) \in Nat
      BY DEF TypeOK, Txn
    <3>2. txns[c].step.kind = "benchmark" \/ i <= txns[c].step.row
      BY <1>n, <2>1, <2>2, <3>1, AfterBehind DEF Behind
    <3>3. CASE txns[c].step.kind = "benchmark" \/ i < txns[c].step.row
      BY <3>3 DEF Behind
    <3>4. CASE txns[c].step.kind # "benchmark" /\ i = txns[c].step.row
      BY <1>n, <3>4
    <3>5. QED
      BY <3>1, <3>2, <3>3, <3>4
  <2>3. Fine(c)'
    BY <1>n, <1>k, <2>1, <2>2
  <2>4. QED
    BY <2>1, <2>3, <1>f, <1>o
<1>1. ASSUME NEW c \in Clients, Begin(c) PROVE RowsSeen'
  <2>1. txns'[c].upload \in Seq(UploadRow)
    BY <1>1, TypePreserved DEF TypeOK, Txn
  <2>2. Fine(c)'
    BY <1>1, <2>1, Begun DEF Fine, Behind
  <2>3. QED
    BY <1>1, <2>2, <1>f, <1>o, Begun
<1>2. ASSUME NEW c \in Clients, RegisterSecurity(c) PROVE RowsSeen'
  <2>1. \A i \in 1..Len(txns[c].upload) : Behind(c, i)' => Behind(c, i)
    <3>1. txns'[c].step = [kind |-> "identifier", row |-> txns[c].step.row]
      BY <1>2, Registered
    <3>2. txns'[c].step.kind = "identifier" /\ txns'[c].step.row = txns[c].step.row
      BY <3>1
    <3>3. QED
      BY <3>2 DEF Behind
  <2>2. Fine(c)'
    BY <1>2, <1>k, <2>1, Registered, StillVisible
  <2>3. QED
    BY <1>2, <2>2, <1>f, <1>o, Registered
<1>c. ASSUME NEW c \in Clients, txns' = [txns EXCEPT ![c].phase = "checked"] PROVE RowsSeen'
  <2>1. Fine(c)'
    BY <1>c, <1>k, Checked, StillVisible DEF Behind
  <2>2. QED
    BY <1>c, <2>1, <1>f, <1>o, Checked
<1>3. ASSUME NEW c \in Clients, CheckIdentifier(c) PROVE RowsSeen'
  <2>1. CASE Refuse(c)
    BY <2>1, <1>a
  <2>2. CASE Finish(c, txns[c].own)
    <3>1. CASE txns' = [txns EXCEPT ![c].phase = "checked"]
      BY <3>1, <1>c
    <3>2. CASE Refuse(c)
      BY <3>2, <1>a
    <3>3. CASE ~ Refuse(c) /\ txns' # [txns EXCEPT ![c].phase = "checked"]
      <4>1. /\ Doing(c, "reading", "identifier")
            /\ \E x \in VisibleIdentifiers(c) :
                  /\ SameIdentifierVintage(x, IdentifierOf(Row(c)))
                  /\ x.security = IdentifierOf(Row(c)).security
        BY <1>3, <3>3 DEF CheckIdentifier
      <4>2. VisibleIdentifiers(c) \subseteq VisibleIdentifiers(c)' /\ txns'[c].upload = txns[c].upload
        BY <2>2, Finished, StillVisible
      <4>3. ASSUME NEW i \in 1..Len(txns[c].upload), i = txns[c].step.row PROVE Seen(c, i)'
        <5>1. txns'[c].upload[i] = Row(c)
          BY <4>2, <4>3 DEF Row
        <5>2. QED
          BY <4>1, <4>2, <5>1 DEF IdentifierOf
      <4>4. QED
        BY <2>2, <4>1, <4>2, <4>3, <1>n DEF Doing
    <3>4. QED
      BY <3>1, <3>2, <3>3
  <2>3. QED
    BY <1>3, <2>1, <2>2, <1>c DEF CheckIdentifier
<1>4. ASSUME NEW c \in Clients, InsertIdentifier(c) PROVE RowsSeen'
  <2>1. CASE Refuse(c)
    BY <2>1, <1>a
  <2>2. CASE ~ Refuse(c)
    <3> DEFINE new == IdentifierOf(Row(c))
               own == [txns[c].own EXCEPT !.identifiers = @ \cup {new}]
    <3>1. Finish(c, own) /\ txns[c].step.kind = "identifier"
      BY <1>4, <2>2 DEF InsertIdentifier, Doing
    <3>2. /\ txns'[c].own.identifiers = txns[c].own.identifiers \cup {new}
          /\ txns'[c].upload = txns[c].upload
      BY <3>1, Finished DEF TypeOK, Txn, Rows
    <3>3. VisibleIdentifiers(c) \subseteq VisibleIdentifiers(c)' /\ new \in VisibleIdentifiers(c)'
      BY <3>2, RowsOnlyAdded DEF VisibleIdentifiers
    <3>4. ASSUME NEW i \in 1..Len(txns[c].upload), i = txns[c].step.row PROVE Seen(c, i)'
      <4>1. txns'[c].upload[i] = Row(c)
        BY <3>2, <3>4 DEF Row
      <4>2. SameIdentifierVintage(new, new) /\ new.security = Row(c).security
        BY DEF SameIdentifierVintage, SameIdentifier, IdentifierOf
      <4>3. QED
        BY <3>3, <4>1, <4>2
    <3>5. QED
      BY <3>1, <3>3, <3>4, <1>n
  <2>3. QED
    BY <2>1, <2>2
<1>m. ASSUME NEW c \in Clients, Finish(c, txns[c].own), txns[c].step.kind = "benchmark"
      PROVE  RowsSeen'
  BY <1>m, <1>n, Finished, StillVisible
<1>5. ASSUME NEW c \in Clients, ResolveBenchmark(c) PROVE RowsSeen'
  <2>1. CASE Resolved(c)
    <3>1. Fine(c)'
      BY <2>1, <1>k, StillVisible DEF Resolved, Behind
    <3>2. QED
      BY <2>1, <3>1, <1>f, <1>o DEF Resolved
  <2>2. QED
    BY <1>5, <2>1, <1>a, <1>m, Outcomes DEF ResolveBenchmark, Doing
<1>6. ASSUME NEW c \in Clients, CheckBenchmark(c) PROVE RowsSeen'
  BY <1>6, <1>c, <1>m DEF CheckBenchmark, Doing
<1>7. ASSUME NEW c \in Clients, InsertBenchmark(c) PROVE RowsSeen'
  <2>1. CASE Refuse(c)
    BY <2>1, <1>a
  <2>2. CASE ~ Refuse(c)
    <3> DEFINE own == [txns[c].own EXCEPT !.mappings = @ \cup {txns[c].draft}]
    <3>1. Finish(c, own) /\ txns[c].step.kind = "benchmark"
      BY <1>7, <2>2 DEF InsertBenchmark, Doing
    <3>2. txns'[c].own.identifiers = txns[c].own.identifiers
      BY <3>1, Finished DEF TypeOK, Txn, Rows
    <3>3. VisibleIdentifiers(c) \subseteq VisibleIdentifiers(c)'
      BY <3>2, RowsOnlyAdded DEF VisibleIdentifiers
    <3>4. QED
      BY <3>1, <3>3, <1>n
  <2>3. QED
    BY <2>1, <2>2
<1>8. CASE UNCHANGED vars
  BY <1>8, <1>f, <1>o DEF vars
<1>9. QED
  BY <1>1, <1>2, <1>3, <1>4, <1>5, <1>6, <1>7, <1>8, <1>a DEF Next

-----------------------------------------------------------------------------
(* The inductive invariant.                                                *)
LEMMA InvariantHolds == Spec => []IInv
<1>1. Init => IInv
  <2> SUFFICES ASSUME Init PROVE IInv
    OBVIOUS
  <2>1. TypeOK
    BY DEF Init, TypeOK, Txn, Idle, Phases, Kinds, Rows, NoRows
  <2>2. \A c \in Clients : txns[c] = Idle
    BY DEF Init
  <2>3. DraftShape /\ BaseStored /\ IdentifierFree /\ MappingFree /\ OverlapNeedsConcurrency
    BY <2>2 DEF DraftShape, BaseStored, IdentifierFree, MappingFree, Doing,
                OverlapNeedsConcurrency, Idle, NoRows
  <2>4. OwnJustified /\ MappingJustified /\ RowsSeen
    BY <2>2 DEF Init, OwnJustified, MappingJustified, RowsSeen, Idle, NoRows
  <2>5. QED
    BY <2>1, <2>3, <2>4 DEF IInv
<1>2. IInv /\ [Next]_vars => IInv'
  BY TypePreserved, DraftShapePreserved, BaseStoredPreserved, IdentifierFreePreserved,
     MappingFreePreserved, ApartPreserved, OwnJustifiedPreserved, MappingJustifiedPreserved,
     RowsSeenPreserved DEF IInv
<1>3. QED
  BY <1>1, <1>2, PTL DEF Spec

(* The tables and the requests in progress are well formed at all times.   *)
THEOREM TypeCorrect == Spec => []TypeOK
<1>1. IInv => TypeOK
  BY DEF IInv
<1>2. QED
  BY <1>1, InvariantHolds, PTL

(* Whatever is uploaded, one request cannot make an identifier ambiguous   *)
(* nor give a security two benchmarks at an instant: add_identifier's and  *)
(* add_benchmark_mapping's checks suffice but for requests side by side.   *)
THEOREM SequentiallyUnambiguous == Spec => []OverlapNeedsConcurrency
<1>1. IInv => OverlapNeedsConcurrency
  BY DEF IInv
<1>2. QED
  BY <1>1, InvariantHolds, PTL

(* No stored mapping is without the identifiers configure_benchmark        *)
(* resolved for it.                                                        *)
THEOREM MappingsJustified == Spec => []MappingJustified
<1>1. IInv => MappingJustified
  BY DEF IInv
<1>2. QED
  BY <1>1, InvariantHolds, PTL

(* import_security_universe's promise that a row may name a benchmark that *)
(* appears later in the upload.                                            *)
THEOREM LaterRowsFound == Spec => []LaterRowsResolve
<1>1. IInv => LaterRowsResolve
  <2> SUFFICES ASSUME IInv, NEW c \in Clients, Doing(c, "reading", "benchmark"),
                      NEW i \in 1..Len(txns[c].upload),
                      IdentifierOf(txns[c].upload[i]).name = Row(c).benchmark,
                      Covers(IdentifierOf(txns[c].upload[i]).valid, Row(c).valid.from)
               PROVE  LET later == IdentifierOf(txns[c].upload[i])
                          t == Row(c).valid.from
                      IN  \/ later.security \in Candidates(VisibleIdentifiers(c), later.name,
                                                           Spaces, t)
                          \/ \E x \in VisibleIdentifiers(c) :
                                SameIdentifierVintage(x, later) /\ x.valid.to # later.valid.to
    BY DEF LaterRowsResolve
  <2> DEFINE later == IdentifierOf(txns[c].upload[i])
  <2>1. PICK x \in VisibleIdentifiers(c) :
           SameIdentifierVintage(x, later) /\ x.security = txns[c].upload[i].security
    BY DEF IInv, RowsSeen, Behind, Doing
  <2>2. x \in IdentifierRow
    BY DEF IInv, TypeOK, Txn, Rows, VisibleIdentifiers
  <2>3. x.security = later.security
    BY <2>1 DEF IdentifierOf
  <2>4. CASE x.valid.to = later.valid.to
    <3>1. Covers(x.valid, Row(c).valid.from)
      BY <2>1, <2>4 DEF Covers, SameIdentifierVintage
    <3>2. QED
      BY <2>1, <2>2, <2>3, <3>1 DEF Candidates, SameIdentifierVintage, SameIdentifier,
                                    IdentifierRow
  <2>5. QED
    BY <2>1, <2>4
<1>2. QED
  BY <1>1, InvariantHolds, PTL

(* benchmark_as_of repeats its answers, unless a request stored a mapping  *)
(* without seeing the one it hides: a single request's checks keep its     *)
(* mappings apart from every mapping that was stored when it began.        *)
THEOREM BenchmarkAnswersRepeatAlways == Spec => BenchmarkAnswersRepeat
<1> DEFINE Repeats(s, t) ==
      \/ BenchmarkAsOf(mappings, s, t) \subseteq BenchmarkAsOf(mappings', s, t)
      \/ \E c \in Clients :
            \E m \in mappings \ txns[c].base.mappings, n \in txns[c].own.mappings : Rivals(m, n)
<1>1. ASSUME IInv, [Next]_vars, NEW s \in Securities, NEW t \in Times PROVE Repeats(s, t)
  <2>1. CASE BenchmarkAsOf(mappings, s, t) \subseteq BenchmarkAsOf(mappings', s, t)
    BY <2>1
  <2>2. CASE ~ (BenchmarkAsOf(mappings, s, t) \subseteq BenchmarkAsOf(mappings', s, t))
    <3>1. PICK m \in BenchmarkAsOf(mappings, s, t) : m \notin BenchmarkAsOf(mappings', s, t)
      BY <2>2
    <3>2. m \in mappings /\ m \in mappings' /\ m.security = s /\ Covers(m.valid, t)
      BY <1>1, <3>1, RowsOnlyAdded DEF BenchmarkAsOf
    <3>3. PICK n \in mappings' : /\ n.security = s /\ Covers(n.valid, t)
                                /\ ~ (n.valid.from <= m.valid.from)
      BY <3>1, <3>2 DEF BenchmarkAsOf
    <3>4. n \notin mappings
      BY <3>1, <3>3 DEF BenchmarkAsOf
    <3>5. PICK c \in Clients : Commit(c)
      BY <1>1, <3>3, <3>4 DEF Next, vars, Begin, RegisterSecurity, CheckIdentifier,
           InsertIdentifier, ResolveBenchmark, CheckBenchmark, InsertBenchmark, Abort,
           Refuse, Finish
    <3>6. n \in txns[c].own.mappings
      BY <3>3, <3>4, <3>5 DEF Commit
    <3>7. Rivals(m, n) /\ m # n
      BY <3>2, <3>3, <3>4 DEF Rivals, ShareAnInstant
    <3>8. m \notin txns[c].base.mappings
      BY <1>1, <3>6, <3>7 DEF IInv, OverlapNeedsConcurrency
    <3>9. QED
      BY <3>2, <3>6, <3>7, <3>8
  <2>3. QED
    BY <2>1, <2>2
<1>2. IInv /\ [Next]_vars => [\A s \in Securities, t \in Times : Repeats(s, t)]_vars
  BY <1>1
<1>3. QED
  BY <1>2, InvariantHolds, PTL DEF Spec, BenchmarkAnswersRepeat
=============================================================================
