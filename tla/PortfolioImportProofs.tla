------------------------- MODULE PortfolioImportProofs -------------------------
(***************************************************************************)
(* Proofs about PortfolioImport, for any clients, securities, references,  *)
(* theses, uploads and bounds.  The argument is the inductive invariant    *)
(* IInv: an upload holds what its file means (Resolves), what it has       *)
(* flushed is its own and new (Flushed, Unraced), no two uploads flush one *)
(* snapshot (Apart), and the tables are what answered uploads said.        *)
(***************************************************************************)
EXTENDS PortfolioImport, FiniteLemmas, TLAPS

Answered == { a.id : a \in answers }

-----------------------------------------------------------------------------
(* What an upload, in progress or answered, has resolved.                  *)

\* The resolved row is what the row says, whatever the theses are.
ResolvedAs(row, r) ==
    /\ Means[row.ref] = {r.security}
    /\ BenchmarkCandidates(row, r.security) = {r.benchmark}
    /\ r.thesis = row.thesis /\ r.note = row.note /\ r.source = SourceOf(row)

Follows(u) == \A i \in DOMAIN u.resolved : ResolvedAs(u.file.rows[i], u.resolved[i])

ThesisFits(r, at, began) ==
    r.thesis # None =>
       /\ theses[r.thesis] # None
       /\ ThesisOwner[r.thesis] = r.security
       /\ theses[r.thesis].created <= at
       /\ theses[r.thesis].archived # None =>
            theses[r.thesis].archived > at \/ theses[r.thesis].archived >= began

Fits(u) == u.began <= now /\ \A i \in DOMAIN u.resolved : ThesisFits(u.resolved[i], u.asOf, u.began)

Contents(u) == { u.resolved[i] : i \in DOMAIN u.resolved }

\* The row at i is among these members, stored by this upload or found.
MemberFound(rows, u, i) ==
    \E m \in rows : /\ m.list = u.target /\ m.security = u.resolved[i].security
                    /\ m.added <= u.asOf /\ SameContext(m, u.resolved[i])

-----------------------------------------------------------------------------
(* An upload in progress.                                                  *)

Identified(t) ==
    t.phase # "idle" =>
       /\ t.id \in 1..imports /\ t.id \notin Answered /\ t.base \subseteq Answered
       /\ t.file \in Files /\ t.target \in Targets /\ Len(t.file.rows) >= 1

Coverage == {"naming", "members", "adding"}

Resolves(t) ==
    /\ ~ t.issues => Follows(t)
    /\ t.phase = "resolving" => /\ t.row \in DOMAIN t.file.rows
                                /\ ~ t.issues => Len(t.resolved) = t.row - 1
    /\ t.phase \notin {"idle", "resolving"} => /\ ~ t.issues
                                               /\ Len(t.resolved) = Len(t.file.rows)
    /\ t.phase \in {"resolved", "naming"} => t.row = 1
    /\ t.phase \in {"members", "adding"} => t.row \in DOMAIN t.resolved
    /\ t.phase = "absent" => t.file.kind = "holdings"
    /\ t.phase \in Coverage => t.file.kind = "coverage"

SameInstant(s, r) == s.portfolio = r.portfolio /\ s.asOf = r.asOf

\* The rows of an upload are its own, and its snapshot is new.
Flushed(t) ==
    /\ t.phase \notin {"members", "adding", "written"} => t.own = NoRows
    /\ t.phase \in Coverage => t.own.snapshots = {} /\ t.own.positions = {}
    /\ t.phase = "written" /\ t.file.kind = "coverage" => t.own.snapshots = {}
    /\ t.own.snapshots = {} => t.own.positions = {}
    /\ \A s \in t.own.snapshots :
         /\ s.id = t.id /\ s.portfolio = t.target /\ s.asOf = t.asOf /\ s.hash = t.file
         /\ t.own.positions = PositionsOf(t)
         /\ \A r \in snapshots : ~ SameInstant(r, s)
    /\ \A s, r \in t.own.snapshots : s = r
    /\ \A m \in t.own.members : m.by = t.id

\* The snapshot of holdings is flushed or found.
SnapshotFound(t) ==
    t.phase = "written" /\ t.file.kind = "holdings" =>
       \E s \in snapshots \cup t.own.snapshots :
          s.portfolio = t.target /\ s.asOf = t.asOf /\ s.hash = t.file

\* So are the members of the rows that have been dealt with.
MembersFound(t) ==
    /\ t.phase \in {"members", "adding"} =>
         \A i \in 1..(t.row - 1) : MemberFound(members \cup t.own.members, t, i)
    /\ t.phase = "written" /\ t.file.kind = "coverage" =>
         \A i \in DOMAIN t.resolved : MemberFound(members \cup t.own.members, t, i)

\* Whoever covers what this upload adds was not answered when it began.
Fresh(t, n) ==
    \A m \in members : m.list = n.list /\ m.security = n.security => m.by \notin t.base

Unraced(t) ==
    /\ \A n \in t.own.members : Fresh(t, n)
    /\ t.phase = "adding" => Fresh(t, MemberOf(t, t.row))

Settled(t) ==
    /\ Resolves(t) /\ Fits(t) /\ Flushed(t)
    /\ SnapshotFound(t) /\ MembersFound(t) /\ Unraced(t)

Sound(t) == Identified(t) /\ Settled(t)

Apart(t, u) ==
    /\ t.phase # "idle" /\ u.phase # "idle" => t.id # u.id
    /\ \A s \in t.own.snapshots, r \in u.own.snapshots : ~ SameInstant(s, r)

TxnsSound == \A c \in Clients : Sound(txns[c])
TxnsApart == \A c, d \in Clients : c # d => Apart(txns[c], txns[d])

-----------------------------------------------------------------------------
(* The tables and the answers.                                             *)

\* An upload answered with success resolved all its rows and has an id.
AnswerSound(a) ==
    /\ a.id \in 1..imports /\ a.base \subseteq Answered \ {a.id}
    /\ Len(a.resolved) = Len(a.file.rows)
    /\ Follows(a) /\ Fits(a)
    /\ a.file.kind = "holdings" =>
         \E s \in snapshots : s.portfolio = a.target /\ s.asOf = a.asOf /\ s.hash = a.file
    /\ a.file.kind = "coverage" => \A i \in DOMAIN a.resolved : MemberFound(members, a, i)

\* What the positions of a snapshot say.
Held(rows, id) ==
    { [security |-> p.security, thesis |-> p.thesis, benchmark |-> p.benchmark,
       note |-> p.note, source |-> p.source] : p \in { q \in rows : q.snapshot = id } }

\* A snapshot and its positions are those of the upload that wrote it.
SnapshotSound(s) ==
    \E a \in answers : a.id = s.id /\ a.file = s.hash /\ Contents(a) = Held(positions, s.id)

Tables ==
    /\ \A a \in answers : AnswerSound(a)
    /\ \A a, b \in answers : a.id = b.id => a = b
    /\ \A s \in snapshots : SnapshotSound(s)
    /\ \A s, r \in snapshots : SameInstant(s, r) => s = r
    /\ \A p \in positions : p.snapshot \in Answered
    /\ \A m \in members : m.by \in Answered \cup {0}

Consistent == TxnsSound /\ TxnsApart /\ Tables /\ OverlapNeedsRace

IInv == TypeOK /\ Consistent

-----------------------------------------------------------------------------
\* Members that can be compared at all have a newest one.
LEMMA NewestExists ==
  ASSUME NEW rows \in SUBSET MemberRow, rows # {}
  PROVE  Newest(rows) # {}
<1> DEFINE S == { o.added : o \in rows }
<1>1. S \in SUBSET (0..MaxTime)
  BY DEF MemberRow, Times
<1>2. S # {}
  OBVIOUS
<1>3. MaxTime \in Nat
  BY ImportAssumption
<1> HIDE DEF S
<1>4. PICK m \in S : \A k \in S : k <= m
  BY <1>1, <1>2, <1>3, Largest
<1>5. PICK n \in rows : m = n.added
  BY <1>4 DEF S
<1>6. \A o \in rows : o.added <= n.added
  BY <1>4, <1>5 DEF S
<1>7. n \in Newest(rows)
  BY <1>6 DEF Newest
<1>8. QED
  BY <1>7

-----------------------------------------------------------------------------
(* Resolution gives what the row says, with a thesis that is accepted.     *)
LEMMA ResolutionSound ==
  ASSUME NEW row \in RawRow, NEW at, NEW r \in Resolution(row, at)
  PROVE  /\ r \in ResolvedRow /\ ResolvedAs(row, r)
         /\ ThesisAccepted(r.thesis, r.security, at)
<1> DEFINE found == { x \in Means[row.ref] : /\ Cardinality(Means[row.ref]) = 1
                                             /\ ThesisAccepted(row.thesis, x, at)
                                             /\ Cardinality(BenchmarkCandidates(row, x)) = 1 }
           benchmarks == UNION { BenchmarkCandidates(row, x) : x \in Means[row.ref] }
<1>1. PICK s \in found, b \in benchmarks :
         r = [security |-> s, thesis |-> row.thesis, benchmark |-> b, note |-> row.note,
              source |-> SourceOf(row)]
  BY DEF Resolution
<1>2. row.ref \in References /\ Means[row.ref] \subseteq Securities
      /\ IsFiniteSet(Means[row.ref])
  BY ImportAssumption DEF RawRow
<1>3. Means[row.ref] = {s}
  <2>1. Cardinality(Means[row.ref]) = 1 /\ s \in Means[row.ref]
    BY <1>1
  <2>2. PICK x : Means[row.ref] = {x}
    BY <1>2, <2>1, FS_Singleton
  <2>3. QED
    BY <2>1, <2>2
<1>4. b \in BenchmarkCandidates(row, s) /\ Cardinality(BenchmarkCandidates(row, s)) = 1
  BY <1>1, <1>3
<1>5. BenchmarkReference(row, s) \in References \cup {None}
  BY <1>2, <1>3, ImportAssumption DEF BenchmarkReference, Given, RawRow
<1>6. /\ IsFiniteSet(BenchmarkCandidates(row, s))
      /\ BenchmarkCandidates(row, s) \subseteq Securities \cup {None}
  <2>1. CASE BenchmarkReference(row, s) = None
    <3>1. BenchmarkCandidates(row, s) = {MarketMapping[s]}
      BY <2>1 DEF BenchmarkCandidates
    <3>2. MarketMapping[s] \in Securities \cup {None}
      BY <1>2, <1>3, ImportAssumption
    <3>3. QED
      BY <3>1, <3>2, FS_Singleton
  <2>2. CASE BenchmarkReference(row, s) # None
    <3>1. BenchmarkCandidates(row, s) = Means[BenchmarkReference(row, s)]
      BY <2>2 DEF BenchmarkCandidates
    <3>2. QED
      BY <1>5, <2>2, <3>1, ImportAssumption
  <2>3. QED
    BY <2>1, <2>2
<1>7. BenchmarkCandidates(row, s) = {b}
  <2>1. PICK x : BenchmarkCandidates(row, s) = {x}
    BY <1>4, <1>6, FS_Singleton
  <2>2. QED
    BY <1>4, <2>1
<1>8. SourceOf(row) \in Identifiers
  BY <1>2, ImportAssumption DEF SourceOf
<1>9. r \in ResolvedRow
  <2>1. s \in Securities /\ b \in Securities \cup {None}
    BY <1>2, <1>3, <1>6, <1>7
  <2>2. row.thesis \in ThesisKeys \cup {None} /\ row.note \in Notes
    BY DEF RawRow
  <2>3. QED
    BY <1>1, <1>8, <2>1, <2>2 DEF ResolvedRow
<1>10. ResolvedAs(row, r)
  BY <1>1, <1>3, <1>7 DEF ResolvedAs
<1>11. ThesisAccepted(r.thesis, r.security, at)
  BY <1>1
<1>12. QED
  BY <1>9, <1>10, <1>11

-----------------------------------------------------------------------------
(* What the operations do to the transaction of their client.              *)

\* The transactions of the other clients stay as they are.
Only(c) == /\ txns' \in [Clients -> Txn]
           /\ \A d \in Others(c) : txns'[d] = txns[d]

SameUpload(c) ==
    /\ txns'[c].id = txns[c].id /\ txns'[c].file = txns[c].file
    /\ txns'[c].target = txns[c].target /\ txns'[c].asOf = txns[c].asOf
    /\ txns'[c].base = txns[c].base /\ txns'[c].began = txns[c].began

SameRows(c) ==
    /\ SameUpload(c)
    /\ txns'[c].resolved = txns[c].resolved /\ txns'[c].issues = txns[c].issues

LEMMA IdleTyped == Idle \in Txn
<1>1. NoRows \in Rows
  BY DEF NoRows, Rows
<1>2. 0 \in Times
  BY ImportAssumption DEF Times
<1>3. QED
  BY <1>1, <1>2 DEF Idle, Txn, Phases

LEMMA RolledBack ==
  ASSUME TypeOK, NEW c \in Clients, Rollback(c)
  PROVE  Only(c) /\ txns'[c] = Idle
BY IdleTyped DEF TypeOK, Rollback, Only, Others

LEMMA Moved ==
  ASSUME TypeOK, NEW c \in Clients, NEW phase \in Phases, Goto(c, phase)
  PROVE  /\ Only(c) /\ SameRows(c) /\ txns'[c].phase = phase
         /\ txns'[c].own = txns[c].own /\ txns'[c].row = txns[c].row
<1> DEFINE u == [txns[c] EXCEPT !.phase = phase]
<1>1. txns[c] \in Txn
  BY DEF TypeOK
<1>2. u \in Txn
  BY <1>1 DEF Txn
<1>3. txns' = [txns EXCEPT ![c] = u]
  BY DEF Goto
<1>4. /\ u.phase = phase /\ u.own = txns[c].own /\ u.row = txns[c].row
      /\ u.id = txns[c].id /\ u.file = txns[c].file /\ u.target = txns[c].target
      /\ u.asOf = txns[c].asOf /\ u.base = txns[c].base /\ u.began = txns[c].began
      /\ u.resolved = txns[c].resolved /\ u.issues = txns[c].issues
  BY <1>1 DEF Txn
<1> HIDE DEF u
<1>5. Only(c) /\ txns'[c] = u
  BY <1>2, <1>3 DEF TypeOK, Only, Others
<1>6. QED
  BY <1>4, <1>5 DEF SameRows, SameUpload

\* An upload that has passed the parser.
LEMMA Begun ==
  ASSUME TypeOK, NEW c \in Clients, Begin(c)
  PROVE  /\ Only(c) /\ imports' = imports + 1 /\ imports < MaxImports
         /\ UNCHANGED <<now, theses, stored, answers>>
         /\ txns'[c].phase = "resolving" /\ txns'[c].id = imports + 1
         /\ txns'[c].row = 1 /\ txns'[c].resolved = <<>> /\ ~ txns'[c].issues
         /\ txns'[c].own = NoRows /\ txns'[c].base = Answered /\ txns'[c].began = now
         /\ txns'[c].file \in Files /\ txns'[c].target \in Targets
         /\ txns'[c].file.rows # <<>>
<1>1. PICK f \in Uploads, at \in Times :
         /\ ParsesCleanly(f.file)
         /\ txns' = [txns EXCEPT ![c] =
              [Idle EXCEPT !.phase = "resolving", !.id = imports + 1, !.file = f.file,
                           !.target = f.target, !.asOf = at, !.base = Answered,
                           !.began = now]]
  BY DEF Begin, Answered
<1>2. f.file \in Files /\ f.target \in Targets /\ f.file.rows # <<>>
  BY <1>1, ImportAssumption DEF Files, Upload, ParsesCleanly
<1>3. imports < MaxImports /\ imports + 1 \in Import /\ Answered \in SUBSET Import
  BY ImportAssumption DEF Begin, TypeOK, Import, Answered, Answer
<1>4. NoRows \in Rows /\ now \in Times
  BY DEF NoRows, Rows, TypeOK
<1> DEFINE u1 == [Idle EXCEPT !.phase = "resolving"]
           u2 == [u1 EXCEPT !.id = imports + 1]
           u3 == [u2 EXCEPT !.file = f.file]
           u4 == [u3 EXCEPT !.target = f.target]
           u5 == [u4 EXCEPT !.asOf = at]
           u6 == [u5 EXCEPT !.base = Answered]
           u == [u6 EXCEPT !.began = now]
           Shape(v) == v \in Txn /\ v.row = 1 /\ v.resolved = <<>> /\ ~ v.issues
                       /\ v.own = NoRows /\ v.phase = "resolving"
<1>5. txns' = [txns EXCEPT ![c] = u]
  BY <1>1, Zenon
<1>6. Shape(u1)
  BY IdleTyped DEF Idle, Txn, Phases
<1> HIDE DEF u1
<1>7. Shape(u2) /\ u2.id = imports + 1
  BY <1>3, <1>6 DEF Txn
<1> HIDE DEF u2
<1>8. Shape(u3) /\ u3.id = imports + 1 /\ u3.file = f.file
  BY <1>2, <1>7 DEF Txn
<1> HIDE DEF u3
<1>9. Shape(u4) /\ u4.id = imports + 1 /\ u4.file = f.file /\ u4.target = f.target
  BY <1>2, <1>8 DEF Txn
<1> HIDE DEF u4
<1>10. Shape(u5) /\ u5.id = imports + 1 /\ u5.file = f.file /\ u5.target = f.target
  BY <1>9 DEF Txn
<1> HIDE DEF u5
<1>11. Shape(u6) /\ u6.id = imports + 1 /\ u6.file = f.file /\ u6.target = f.target
       /\ u6.base = Answered
  BY <1>3, <1>10 DEF Txn
<1> HIDE DEF u6
<1>12. Shape(u) /\ u.id = imports + 1 /\ u.file = f.file /\ u.target = f.target
       /\ u.base = Answered /\ u.began = now
  BY <1>4, <1>11 DEF Txn
<1> HIDE DEF u
<1>13. Only(c) /\ txns'[c] = u
  BY <1>5, <1>12 DEF TypeOK, Only, Others
<1>14. imports' = imports + 1 /\ UNCHANGED <<now, theses, stored, answers>>
  BY DEF Begin
<1>15. QED
  BY <1>2, <1>3, <1>12, <1>13, <1>14

\* What an upload in progress is made of.
LEMMA InProgress ==
  ASSUME TypeOK, NEW c \in Clients, Identified(txns[c]), txns[c].phase # "idle"
  PROVE  /\ txns[c] \in Txn /\ txns[c].id \in Import /\ txns[c].target \in Targets
         /\ txns[c].file \in File /\ txns[c].file.rows \in Seq(RawRow)
         /\ Len(txns[c].file.rows) \in Nat
<1>1. txns[c] \in Txn
  BY DEF TypeOK
<1>2. txns[c].id \in Import
  BY ImportAssumption DEF Identified, TypeOK, Import
<1>3. txns[c].target \in Targets /\ txns[c].file \in Files
  BY DEF Identified
<1>4. txns[c].file \in File
  BY <1>3, ImportAssumption DEF Files, Upload
<1>5. txns[c].file.rows \in Seq(RawRow)
  BY <1>4 DEF File
<1>6. QED
  BY <1>1, <1>2, <1>3, <1>4, <1>5

\* A row that has been resolved, or reported as an issue.
RowDone(c) ==
    LET t == txns[c]
        u == txns'[c]
    IN  /\ Only(c) /\ SameUpload(c) /\ u.own = t.own
        /\ LastRow(t) => u.row = 1 /\ u.phase = "resolved" /\ ~ u.issues
        /\ ~ LastRow(t) => u.row = t.row + 1 /\ u.phase = "resolving"
        /\ \/ u.issues /\ u.resolved = t.resolved
           \/ /\ u.issues = t.issues
              /\ \E r \in Resolution(t.file.rows[t.row], t.asOf) :
                    u.resolved = Append(t.resolved, r)

LEMMA RowResolved ==
  ASSUME TypeOK, NEW c \in Clients, Identified(txns[c]), Resolves(txns[c]),
         ResolveRow(c), ~ Rollback(c)
  PROVE  RowDone(c)
<1> DEFINE t == txns[c]
           resolution == Resolution(t.file.rows[t.row], t.asOf)
           last == LastRow(t)
           issues == t.issues \/ resolution = {}
           chosen == CHOOSE r \in resolution : TRUE
           row == IF last THEN 1 ELSE t.row + 1
           phase == IF last THEN "resolved" ELSE t.phase
           resolved == IF resolution = {} THEN t.resolved ELSE Append(t.resolved, chosen)
           T1 == [txns EXCEPT ![c].row = row]
           T2 == [T1 EXCEPT ![c].phase = phase]
           T3 == [T2 EXCEPT ![c].issues = issues]
           T4 == [T3 EXCEPT ![c].resolved = resolved]
           Table(T) == T \in [Clients -> Txn] /\ \A d \in Others(c) : T[d] = txns[d]
           Same(v) == /\ v.id = t.id /\ v.file = t.file /\ v.target = t.target
                      /\ v.asOf = t.asOf /\ v.base = t.base /\ v.began = t.began
                      /\ v.own = t.own
<1>1. t.phase = "resolving" /\ t \in Txn /\ t.row \in Nat \ {0}
  BY DEF ResolveRow, TypeOK, Txn
<1>2. t.file.rows[t.row] \in RawRow
  <2>1. t.row \in DOMAIN t.file.rows /\ t.file.rows \in Seq(RawRow)
    BY <1>1, InProgress DEF Resolves
  <2>2. QED
    BY <2>1
<1>3. ASSUME resolution # {}
      PROVE  chosen \in resolution /\ chosen \in ResolvedRow
  BY <1>2, <1>3, ResolutionSound
<1>4. txns' = T4 /\ (last => ~ issues)
  <2>1. \/ Rollback(c)
        \/ ~ (last /\ (issues \/ (t.file.kind = "holdings" /\ now < t.asOf))) /\ txns' = T4
    BY Zenon DEF ResolveRow
  <2>2. QED
    BY <2>1
<1>5. /\ issues \in BOOLEAN /\ row \in Nat \ {0} /\ phase \in Phases
      /\ last => row = 1 /\ phase = "resolved"
      /\ ~ last => row = t.row + 1 /\ phase = "resolving"
  BY <1>1 DEF Phases
<1>6. /\ resolved \in Seq(ResolvedRow)
      /\ resolution = {} => resolved = t.resolved
      /\ resolution # {} => resolved = Append(t.resolved, chosen)
  <2>1. t.resolved \in Seq(ResolvedRow)
    BY <1>1 DEF Txn
  <2>2. QED
    BY <1>3, <2>1
<1> HIDE DEF resolution, last, issues, chosen, row, phase, resolved
<1>7. Table(T1) /\ Same(T1[c]) /\ T1[c].row = row
  BY <1>5 DEF TypeOK, Txn, Others
<1> HIDE DEF T1
<1>8. Table(T2) /\ Same(T2[c]) /\ T2[c].row = row /\ T2[c].phase = phase
  BY <1>5, <1>7 DEF Txn, Others
<1> HIDE DEF T2
<1>9. Table(T3) /\ Same(T3[c]) /\ T3[c].row = row /\ T3[c].phase = phase
      /\ T3[c].issues = issues
  BY <1>5, <1>8 DEF Txn, Others
<1> HIDE DEF T3
<1>10. Table(T4) /\ Same(T4[c]) /\ T4[c].row = row /\ T4[c].phase = phase
       /\ T4[c].issues = issues /\ T4[c].resolved = resolved
  BY <1>6, <1>9 DEF Txn, Others
<1> HIDE DEF T4
<1>11. Only(c) /\ SameUpload(c) /\ txns'[c].own = t.own
  BY <1>4, <1>10 DEF Only, SameUpload
<1>12. /\ last => txns'[c].row = 1 /\ txns'[c].phase = "resolved" /\ ~ txns'[c].issues
       /\ ~ last => txns'[c].row = t.row + 1 /\ txns'[c].phase = "resolving"
  BY <1>4, <1>5, <1>10
<1>13. CASE resolution = {}
  <2>1. txns'[c].issues /\ txns'[c].resolved = t.resolved
    BY <1>4, <1>6, <1>10, <1>13 DEF issues
  <2>2. QED
    BY <1>11, <1>12, <2>1 DEF RowDone, last
<1>14. CASE resolution # {}
  <2>1. txns'[c].issues = t.issues
    BY <1>1, <1>4, <1>10, <1>14 DEF issues, Txn
  <2>2. \E r \in resolution : txns'[c].resolved = Append(t.resolved, r)
    BY <1>3, <1>4, <1>6, <1>10, <1>14
  <2>3. QED
    BY <1>11, <1>12, <2>1, <2>2 DEF RowDone, last, resolution
<1>15. QED
  BY <1>13, <1>14

\* The rows an upload writes are rows of the tables.
LEMMA WrittenTyped ==
  ASSUME TypeOK, NEW c \in Clients, Identified(txns[c]), txns[c].phase # "idle"
  PROVE  /\ SnapshotOf(txns[c]) \in SnapshotRow
         /\ PositionsOf(txns[c]) \subseteq PositionRow
         /\ \A i \in DOMAIN txns[c].resolved : MemberOf(txns[c], i) \in MemberRow
<1> DEFINE t == txns[c]
<1>1. /\ t.id \in Import /\ t.target \in Targets /\ t.asOf \in Times /\ t.file \in Files
      /\ t.resolved \in Seq(ResolvedRow) /\ now \in Times
  BY InProgress DEF Identified, Txn, TypeOK
<1> HIDE DEF t
<1>2. \A i \in DOMAIN t.resolved : t.resolved[i] \in ResolvedRow
  BY <1>1
<1>3. SnapshotOf(t) \in SnapshotRow
  BY <1>1 DEF SnapshotOf, SnapshotRow
<1>4. PositionsOf(t) \subseteq PositionRow
  BY <1>1, <1>2 DEF PositionsOf, PositionRow, ResolvedRow
<1>5. \A i \in DOMAIN t.resolved : MemberOf(t, i) \in MemberRow
  BY <1>1, <1>2 DEF MemberOf, MemberRow, ResolvedRow
<1>6. QED
  BY <1>3, <1>4, <1>5 DEF t

\* Holdings that have been flushed.
HoldingsFlushed(c) ==
    LET t == txns[c]
        u == txns'[c]
    IN  /\ Only(c) /\ SameRows(c) /\ u.phase = "written"
        /\ u.own.snapshots = {SnapshotOf(t)} /\ u.own.positions = PositionsOf(t)
        /\ u.own.members = t.own.members /\ u.own.lists = t.own.lists
        /\ SnapshotsAt(snapshots, t.target, t.asOf) = {}

LEMMA SnapshotInserted ==
  ASSUME TypeOK, NEW c \in Clients, Identified(txns[c]), InsertSnapshot(c), ~ Rollback(c)
  PROVE  HoldingsFlushed(c)
<1> DEFINE t == txns[c]
           S == {SnapshotOf(t)}
           P == PositionsOf(t)
           T1 == [txns EXCEPT ![c].phase = "written"]
           T2 == [T1 EXCEPT ![c].own.snapshots = S]
           T3 == [T2 EXCEPT ![c].own.positions = P]
           o1 == [t.own EXCEPT !.snapshots = S]
           o2 == [o1 EXCEPT !.positions = P]
           Table(T) == T \in [Clients -> Txn] /\ \A d \in Others(c) : T[d] = txns[d]
           Same(v) == /\ v.id = t.id /\ v.file = t.file /\ v.target = t.target
                      /\ v.asOf = t.asOf /\ v.base = t.base /\ v.began = t.began
                      /\ v.resolved = t.resolved /\ v.issues = t.issues
                      /\ v.phase = "written"
<1>1. t.phase = "absent" /\ t \in Txn /\ t.own \in Rows
  BY DEF InsertSnapshot, TypeOK, Txn
<1>2. S \subseteq SnapshotRow /\ P \subseteq PositionRow
  BY <1>1, WrittenTyped
<1>3. txns' = T3 /\ SnapshotsAt(snapshots, t.target, t.asOf) = {}
  <2>1. \/ Rollback(c)
        \/ ~ (SnapshotsAt(snapshots, t.target, t.asOf) # {} \/ ~OnePerSecurity(t))
           /\ txns' = T3
    BY Zenon DEF InsertSnapshot
  <2>2. QED
    BY <2>1
<1> HIDE DEF S, P
<1>4. o1 \in Rows /\ o1.snapshots = S /\ o1.members = t.own.members /\ o1.lists = t.own.lists
  BY <1>1, <1>2 DEF Rows
<1>5. o2 \in Rows /\ o2.snapshots = S /\ o2.members = t.own.members /\ o2.lists = t.own.lists
      /\ o2.positions = P
  BY <1>2, <1>4 DEF Rows
<1> HIDE DEF o1, o2
<1>6. Table(T1) /\ Same(T1[c]) /\ T1[c].own = t.own
  BY <1>1 DEF TypeOK, Txn, Others, Phases
<1> HIDE DEF T1
<1>7. Table(T2) /\ Same(T2[c]) /\ T2[c].own = o1
  <2> DEFINE v == [T1[c] EXCEPT !.own = o1]
  <2>1. T2 = [T1 EXCEPT ![c] = v]
    BY <1>6 DEF o1
  <2>2. v \in Txn /\ Same(v) /\ v.own = o1
    BY <1>4, <1>6 DEF Txn
  <2> HIDE DEF v
  <2>3. QED
    BY <1>6, <2>1, <2>2 DEF Others
<1> HIDE DEF T2
<1>8. Table(T3) /\ Same(T3[c]) /\ T3[c].own = o2
  <2> DEFINE v == [T2[c] EXCEPT !.own = o2]
  <2>1. T3 = [T2 EXCEPT ![c] = v]
    BY <1>7 DEF o2
  <2>2. v \in Txn /\ Same(v) /\ v.own = o2
    BY <1>5, <1>7 DEF Txn
  <2> HIDE DEF v
  <2>3. QED
    BY <1>7, <2>1, <2>2 DEF Others
<1> HIDE DEF T3
<1>9. Only(c) /\ SameRows(c) /\ txns'[c].phase = "written" /\ txns'[c].own = o2
  BY <1>3, <1>8 DEF Only, SameRows, SameUpload
<1>10. QED
  BY <1>3, <1>5, <1>9 DEF HoldingsFlushed, S, P

\* A list that has been flushed.
ListFlushed(c) ==
    LET t == txns[c]
        u == txns'[c]
    IN  /\ Only(c) /\ SameRows(c) /\ u.phase = "members" /\ u.row = t.row
        /\ u.own.snapshots = t.own.snapshots /\ u.own.positions = t.own.positions
        /\ u.own.members = t.own.members

LEMMA ListInserted ==
  ASSUME TypeOK, NEW c \in Clients, Identified(txns[c]), InsertList(c), ~ Rollback(c)
  PROVE  ListFlushed(c)
<1> DEFINE t == txns[c]
           L == {[name |-> t.target, created |-> now]}
           T1 == [txns EXCEPT ![c].phase = "members"]
           T2 == [T1 EXCEPT ![c].own.lists = L]
           o1 == [t.own EXCEPT !.lists = L]
           Table(T) == T \in [Clients -> Txn] /\ \A d \in Others(c) : T[d] = txns[d]
           Same(v) == /\ v.id = t.id /\ v.file = t.file /\ v.target = t.target
                      /\ v.asOf = t.asOf /\ v.base = t.base /\ v.began = t.began
                      /\ v.resolved = t.resolved /\ v.issues = t.issues
                      /\ v.phase = "members" /\ v.row = t.row
<1>1. t.phase = "naming" /\ t \in Txn /\ t.own \in Rows
  BY DEF InsertList, TypeOK, Txn
<1>2. L \subseteq ListRow
  BY <1>1, InProgress DEF ListRow, TypeOK
<1>3. txns' = T2
  BY Zenon DEF InsertList
<1> HIDE DEF L
<1>4. /\ o1 \in Rows /\ o1.snapshots = t.own.snapshots
      /\ o1.positions = t.own.positions /\ o1.members = t.own.members
  BY <1>1, <1>2 DEF Rows
<1> HIDE DEF o1
<1>5. Table(T1) /\ Same(T1[c]) /\ T1[c].own = t.own
  BY <1>1 DEF TypeOK, Txn, Others, Phases
<1> HIDE DEF T1
<1>6. Table(T2) /\ Same(T2[c]) /\ T2[c].own = o1
  BY <1>4, <1>5 DEF Txn, Others, o1
<1> HIDE DEF T2
<1>7. Only(c) /\ SameRows(c) /\ txns'[c].phase = "members" /\ txns'[c].row = t.row
      /\ txns'[c].own = o1
  BY <1>3, <1>6 DEF Only, SameRows, SameUpload
<1>8. QED
  BY <1>4, <1>7 DEF ListFlushed

\* A member that has been dealt with, and the upload goes on to the next.
WentOn(c) ==
    LET t == txns[c]
        u == txns'[c]
    IN  /\ Only(c) /\ SameRows(c)
        /\ t.row = Len(t.resolved) => u.phase = "written"
        /\ t.row # Len(t.resolved) => u.phase = "members" /\ u.row = t.row + 1

LEMMA NextTaken ==
  ASSUME TypeOK, NEW c \in Clients, NEW t \in Txn, txns' = [txns EXCEPT ![c] = NextMember(t)],
         t.id = txns[c].id, t.file = txns[c].file, t.target = txns[c].target,
         t.asOf = txns[c].asOf, t.base = txns[c].base, t.began = txns[c].began,
         t.resolved = txns[c].resolved, t.issues = txns[c].issues, t.row = txns[c].row
  PROVE  WentOn(c) /\ txns'[c].own = t.own
<1> DEFINE u1 == [t EXCEPT !.row = @ + 1]
           phase == IF t.row = Len(t.resolved) THEN "written" ELSE "members"
           u == [u1 EXCEPT !.phase = phase]
           Same(v) == /\ v.id = t.id /\ v.file = t.file /\ v.target = t.target
                      /\ v.asOf = t.asOf /\ v.base = t.base /\ v.began = t.began
                      /\ v.resolved = t.resolved /\ v.issues = t.issues
                      /\ v.own = t.own /\ v.row = t.row + 1
<1>1. NextMember(t) = u
  BY Zenon DEF NextMember
<1>2. phase \in Phases
  BY DEF Phases
<1> HIDE DEF phase
<1>3. u1 \in Txn /\ Same(u1)
  BY DEF Txn
<1> HIDE DEF u1
<1>4. u \in Txn /\ Same(u) /\ u.phase = phase
  BY <1>2, <1>3 DEF Txn
<1> HIDE DEF u
<1>5. Only(c) /\ txns'[c] = u
  BY <1>1, <1>4 DEF TypeOK, Only, Others
<1>6. QED
  BY <1>4, <1>5 DEF WentOn, SameRows, SameUpload, phase

\* A member that has been flushed.
LEMMA MemberInserted ==
  ASSUME TypeOK, NEW c \in Clients, Identified(txns[c]), Resolves(txns[c]),
         InsertMember(c), ~ Rollback(c)
  PROVE  /\ WentOn(c)
         /\ txns'[c].own.snapshots = txns[c].own.snapshots
         /\ txns'[c].own.positions = txns[c].own.positions
         /\ txns'[c].own.members = txns[c].own.members \cup {MemberOf(txns[c], txns[c].row)}
<1> DEFINE t == txns[c]
           m == MemberOf(t, t.row)
           M == t.own.members \cup {m}
           o == [t.own EXCEPT !.members = M]
           v == [t EXCEPT !.own = o]
<1>1. t.phase = "adding" /\ t \in Txn /\ t.own \in Rows
  BY DEF InsertMember, TypeOK, Txn
<1>2. m \in MemberRow
  BY <1>1, WrittenTyped DEF Resolves
<1>3. txns' = [txns EXCEPT ![c] = NextMember([t EXCEPT !.own.members = @ \cup {m}])]
  BY DEF InsertMember
<1>4. [t EXCEPT !.own.members = @ \cup {m}] = v
  OBVIOUS
<1>5. M \subseteq MemberRow
  BY <1>1, <1>2 DEF Rows
<1> HIDE DEF M, m
<1>6. o \in Rows /\ o.snapshots = t.own.snapshots /\ o.positions = t.own.positions
      /\ o.members = M
  BY <1>1, <1>5 DEF Rows
<1> HIDE DEF o
<1>7. /\ v \in Txn /\ v.id = t.id /\ v.file = t.file /\ v.target = t.target
      /\ v.asOf = t.asOf /\ v.base = t.base /\ v.began = t.began
      /\ v.resolved = t.resolved /\ v.issues = t.issues /\ v.row = t.row /\ v.own = o
  BY <1>1, <1>6 DEF Txn
<1>8. txns' = [txns EXCEPT ![c] = NextMember(v)]
  BY <1>3, <1>4
<1> HIDE DEF v
<1>9. WentOn(c) /\ txns'[c].own = v.own
  BY <1>7, <1>8, NextTaken
<1>10. QED
  BY <1>6, <1>7, <1>9 DEF M, m

\* A member of which no stored one is in the way, or that is found stored.
MemberMissing(c) ==
    LET t == txns[c]
    IN  Goto(c, "adding") /\ Overlapping(members \cup t.own.members, MemberOf(t, t.row)) = {}

MemberStored(c) ==
    LET t == txns[c]
    IN  /\ WentOn(c) /\ txns'[c].own = t.own
        /\ MemberFound(members \cup t.own.members, t, t.row)

LEMMA MemberChecked ==
  ASSUME TypeOK, NEW c \in Clients, Identified(txns[c]), Resolves(txns[c]), CheckMember(c)
  PROVE  Rollback(c) \/ MemberMissing(c) \/ MemberStored(c)
<1> DEFINE t == txns[c]
           m == MemberOf(t, t.row)
           rows == members \cup t.own.members
           newest == Newest(Overlapping(rows, m))
<1>1. t.phase = "members" /\ t \in Txn /\ t.own \in Rows
  BY DEF CheckMember, TypeOK, Txn
<1>2. \/ newest = {} /\ Goto(c, "adding")
      \/ \E n \in newest : /\ SameContext(n, m) /\ n.added <= m.added
                           /\ txns' = [txns EXCEPT ![c] = NextMember(t)]
      \/ Rollback(c)
  BY DEF CheckMember
<1>3. rows \in SUBSET MemberRow
  BY <1>1 DEF TypeOK, Rows
<1>4. CASE newest = {} /\ Goto(c, "adding")
  <2>1. Overlapping(rows, m) \in SUBSET MemberRow
    BY <1>3 DEF Overlapping
  <2> HIDE DEF rows, m
  <2>2. Overlapping(rows, m) = {}
    BY <1>4, <2>1, NewestExists
  <2>3. QED
    BY <1>4, <2>2 DEF MemberMissing, rows, m
<1>5. ASSUME NEW n \in newest, SameContext(n, m), n.added <= m.added,
             txns' = [txns EXCEPT ![c] = NextMember(t)]
      PROVE  MemberStored(c)
  <2>1. n \in rows /\ n.list = m.list /\ n.security = m.security
    BY <1>5 DEF Newest, Overlapping
  <2>2. MemberFound(rows, t, t.row)
    BY <1>5, <2>1 DEF MemberFound, SameContext, MemberOf
  <2>3. WentOn(c) /\ txns'[c].own = t.own
    BY <1>1, <1>5, NextTaken
  <2>4. QED
    BY <2>2, <2>3 DEF MemberStored
<1>6. QED
  BY <1>2, <1>4, <1>5

\* Theses and the clock change beside the uploads.
Beside ==
    /\ UNCHANGED <<stored, txns, imports, answers>>
    /\ now \in Times /\ now' \in Times /\ now <= now'
    /\ theses' \in [ThesisKeys -> ThesisRow \cup {None}]
    /\ \A k \in ThesisKeys : theses[k] # None =>
         /\ theses'[k] # None /\ theses'[k].created = theses[k].created
         /\ \/ theses'[k].archived = theses[k].archived
            \/ theses'[k].archived = now

LEMMA BesideUploads ==
  ASSUME TypeOK,
         \/ \E k \in ThesisKeys : CreateThesis(k) \/ ArchiveThesis(k)
         \/ Tick \/ UNCHANGED vars
  PROVE  Beside
<1>0. now \in Nat /\ MaxTime \in Nat
  BY ImportAssumption DEF TypeOK, Times
<1>1. ASSUME NEW k \in ThesisKeys, CreateThesis(k) PROVE Beside
  <2>1. [created |-> now, archived |-> None] \in ThesisRow
    BY DEF TypeOK, ThesisRow
  <2>2. QED
    BY <1>0, <1>1, <2>1 DEF CreateThesis, TypeOK, Beside
<1>2. ASSUME NEW k \in ThesisKeys, ArchiveThesis(k) PROVE Beside
  <2> DEFINE r == [theses[k] EXCEPT !.archived = now]
  <2>1. theses[k] \in ThesisRow
    BY <1>2 DEF ArchiveThesis, TypeOK
  <2>2. r \in ThesisRow /\ r.created = theses[k].created /\ r.archived = now
    BY <2>1 DEF TypeOK, ThesisRow
  <2>3. theses' = [theses EXCEPT ![k] = r]
    BY <1>2 DEF ArchiveThesis
  <2>4. r # None
    BY <2>2, NoneAssumption
  <2> HIDE DEF r
  <2>5. QED
    BY <1>0, <1>2, <2>2, <2>3, <2>4 DEF ArchiveThesis, TypeOK, Beside
<1>3. CASE Tick
  BY <1>0, <1>3 DEF Tick, TypeOK, Beside, Times
<1>4. CASE UNCHANGED vars
  BY <1>0, <1>4 DEF vars, TypeOK, Beside
<1>5. QED
  BY <1>1, <1>2, <1>3, <1>4

-----------------------------------------------------------------------------
(* Every operation leaves clocks, theses, tables and transactions well     *)
(* formed.                                                                 *)
LEMMA TypePreserved == TypeOK /\ TxnsSound /\ [Next]_vars => TypeOK'
<1> SUFFICES ASSUME TypeOK, TxnsSound, [Next]_vars PROVE TypeOK'
  OBVIOUS
<1>0. \A c \in Clients : Identified(txns[c]) /\ Resolves(txns[c])
  BY DEF TxnsSound, Sound, Settled
<1>a. ASSUME NEW c \in Clients, Only(c), UNCHANGED <<now, theses, stored, imports, answers>>
      PROVE  TypeOK'
  BY <1>a DEF TypeOK, Only, stored
<1>b. ASSUME NEW c \in Clients, Rollback(c),
             UNCHANGED <<now, theses, stored, imports, answers>>
      PROVE  TypeOK'
  BY <1>a, <1>b, RolledBack
<1>c. ASSUME NEW c \in Clients, NEW phase \in Phases, Goto(c, phase),
             UNCHANGED <<now, theses, stored, imports, answers>>
      PROVE  TypeOK'
  BY <1>a, <1>c, Moved
<1>1. CASE Beside
  BY <1>1 DEF Beside, TypeOK, stored
<1>2. ASSUME NEW c \in Clients, Begin(c) PROVE TypeOK'
  <2>1. Only(c) /\ UNCHANGED <<now, theses, stored, answers>>
    BY <1>2, Begun
  <2>2. imports' \in 0..MaxImports
    BY <1>2, Begun, ImportAssumption DEF TypeOK
  <2>3. QED
    BY <2>1, <2>2 DEF TypeOK, Only, stored
<1>3. ASSUME NEW c \in Clients, ResolveRow(c) PROVE TypeOK'
  <2>1. Rollback(c) \/ Only(c)
    BY <1>0, <1>3, RowResolved DEF RowDone
  <2>2. QED
    BY <1>3, <1>a, <1>b, <2>1 DEF ResolveRow
<1>4. ASSUME NEW c \in Clients, LookupSnapshot(c) PROVE TypeOK'
  <2>1. \/ Rollback(c)
        \/ \E phase \in {"absent", "written"} : Goto(c, phase)
    BY <1>4 DEF LookupSnapshot
  <2>2. QED
    BY <1>4, <1>b, <1>c, <2>1 DEF LookupSnapshot, Phases
<1>5. ASSUME NEW c \in Clients, InsertSnapshot(c) PROVE TypeOK'
  <2>1. Rollback(c) \/ Only(c)
    BY <1>0, <1>5, SnapshotInserted DEF HoldingsFlushed
  <2>2. QED
    BY <1>5, <1>a, <1>b, <2>1 DEF InsertSnapshot
<1>6. ASSUME NEW c \in Clients, LookupList(c) PROVE TypeOK'
  BY <1>6, <1>c DEF LookupList, Phases
<1>7. ASSUME NEW c \in Clients, InsertList(c) PROVE TypeOK'
  <2>1. Rollback(c) \/ Only(c)
    BY <1>0, <1>7, ListInserted DEF ListFlushed
  <2>2. QED
    BY <1>7, <1>a, <1>b, <2>1 DEF InsertList
<1>8. ASSUME NEW c \in Clients, CheckMember(c) PROVE TypeOK'
  <2>1. \/ Rollback(c) \/ Goto(c, "adding") \/ Only(c)
    BY <1>0, <1>8, MemberChecked DEF MemberMissing, MemberStored, WentOn
  <2>2. QED
    BY <1>8, <1>a, <1>b, <1>c, <2>1 DEF CheckMember, Phases
<1>9. ASSUME NEW c \in Clients, InsertMember(c) PROVE TypeOK'
  <2>1. Rollback(c) \/ Only(c)
    BY <1>0, <1>9, MemberInserted DEF WentOn
  <2>2. QED
    BY <1>9, <1>a, <1>b, <2>1 DEF InsertMember
<1>10. ASSUME NEW c \in Clients, BreakDeadlock(c) \/ Abandon(c) PROVE TypeOK'
  BY <1>10, <1>b DEF BreakDeadlock, Abandon
<1>11. ASSUME NEW c \in Clients, Commit(c) PROVE TypeOK'
  <2> DEFINE t == txns[c]
             a == [id |-> t.id, file |-> t.file, target |-> t.target, asOf |-> t.asOf,
                   resolved |-> t.resolved, base |-> t.base, began |-> t.began]
  <2>1. t \in Txn /\ t.own \in Rows /\ t.phase = "written"
    BY <1>11 DEF Commit, TypeOK, Txn
  <2>2. a \in Answer
    BY <1>0, <2>1, InProgress DEF Answer, Identified, Txn
  <2> HIDE DEF a
  <2>3. answers' = answers \cup {a}
    BY <1>11 DEF Commit, a
  <2>4. txns' \in [Clients -> Txn]
    BY <1>11, IdleTyped DEF Commit, TypeOK
  <2>5. /\ snapshots' = snapshots \cup t.own.snapshots
        /\ positions' = positions \cup t.own.positions
        /\ lists' = lists \cup t.own.lists /\ members' = members \cup t.own.members
        /\ UNCHANGED <<now, theses, imports>>
    BY <1>11 DEF Commit
  <2>6. QED
    BY <2>1, <2>2, <2>3, <2>4, <2>5 DEF TypeOK, Rows
<1>12. QED
  BY <1>1, <1>2, <1>3, <1>4, <1>5, <1>6, <1>7, <1>8, <1>9, <1>10, <1>11, BesideUploads
     DEF Next, Step

-----------------------------------------------------------------------------
(* Consistency.                                                            *)
LEMMA InvParts ==
  ASSUME IInv
  PROVE  /\ TypeOK /\ TxnsSound /\ TxnsApart /\ Tables /\ OverlapNeedsRace
         /\ \A c \in Clients : /\ txns[c] \in Txn /\ txns[c].own \in Rows
                               /\ Identified(txns[c]) /\ Settled(txns[c])
                               /\ Resolves(txns[c]) /\ Fits(txns[c]) /\ Flushed(txns[c])
                               /\ SnapshotFound(txns[c]) /\ MembersFound(txns[c])
                               /\ Unraced(txns[c])
BY DEF IInv, Consistent, TypeOK, TxnsSound, Sound, Settled, Txn

(* An operation that writes nothing to the tables keeps them consistent if *)
(* its own transaction is sound and apart from all others.                 *)
LEMMA MovedConsistently ==
  ASSUME IInv, NEW c \in Clients, Only(c), UNCHANGED <<now, theses, stored, answers>>,
         imports' \in {imports, imports + 1},
         Identified(txns[c])', Settled(txns'[c]),
         \A d \in Others(c) : Apart(txns'[c], txns[d])
  PROVE  Consistent'
<1> USE InvParts DEF stored
<1>1. \A d \in Clients : Settled(txns'[d])
  BY DEF Only, Others
<1>2. \A d \in Clients : Identified(txns[d])'
  <2>1. ASSUME NEW d \in Others(c) PROVE Identified(txns[d])'
    <3>1. txns'[d] = txns[d] /\ Identified(txns[d]) /\ imports \in Nat
      BY ImportAssumption DEF Only, Others, TypeOK
    <3>2. QED
      BY <3>1 DEF Identified, Answered
  <2>2. QED
    BY <2>1 DEF Others
<1>3. \A d \in Clients : Settled(txns[d])'
  <2> TAKE d \in Clients
  <2>1. Resolves(txns'[d])
    BY <1>1 DEF Settled
  <2>2. Fits(txns[d])'
    BY <1>1 DEF Settled, Fits, ThesisFits
  <2>3. Flushed(txns[d])'
    BY <1>1 DEF Settled, Flushed
  <2>4. SnapshotFound(txns[d])'
    BY <1>1 DEF Settled, SnapshotFound
  <2>5. MembersFound(txns[d])'
    BY <1>1 DEF Settled, MembersFound
  <2>6. Unraced(txns[d])'
    BY <1>1 DEF Settled, Unraced, Fresh
  <2>7. QED
    BY <2>1, <2>2, <2>3, <2>4, <2>5, <2>6 DEF Settled
<1>4. TxnsSound'
  BY <1>2, <1>3 DEF TxnsSound, Sound
<1>5. TxnsApart'
  <2>1. \A t, u : Apart(t, u) => Apart(u, t)
    BY DEF Apart, SameInstant
  <2>2. \A d, e \in Clients : d # e => Apart(txns'[d], txns'[e])
    BY <2>1 DEF TxnsApart, Only, Others
  <2>3. QED
    BY <2>2 DEF TxnsApart
<1>6. Tables'
  <2>1. \A a \in answers : AnswerSound(a)'
    <3> TAKE a \in answers
    <3>1. AnswerSound(a) /\ imports \in Nat
      BY DEF Tables, TypeOK
    <3>2. QED
      BY <3>1 DEF AnswerSound, Answered, Fits, ThesisFits
  <2>2. \A s \in snapshots : SnapshotSound(s)'
    BY DEF Tables, SnapshotSound
  <2>3. QED
    BY <2>1, <2>2 DEF Tables, Answered
<1>7. OverlapNeedsRace'
  BY DEF OverlapNeedsRace
<1>8. QED
  BY <1>4, <1>5, <1>6, <1>7 DEF Consistent

\* The same for an operation of an upload in progress.
LEMMA StepConsistently ==
  ASSUME IInv, NEW c \in Clients, Only(c),
         UNCHANGED <<now, theses, stored, imports, answers>>,
         Sound(txns'[c]), \A d \in Others(c) : Apart(txns'[c], txns[d])
  PROVE  Consistent'
<1>1. Identified(txns[c])'
  BY DEF Sound, Identified, Answered
<1>2. QED
  BY <1>1, MovedConsistently DEF Sound

\* The upload keeps its identity, its file and its cutoff.
LEMMA StillIdentified ==
  ASSUME IInv, NEW c \in Clients, Only(c), SameUpload(c), txns[c].phase # "idle"
  PROVE  Identified(txns'[c])
BY InvParts DEF SameUpload, Identified

\* What it has flushed is still apart from what others have.
LEMMA StillApart ==
  ASSUME IInv, NEW c \in Clients, SameUpload(c), txns[c].phase # "idle",
         txns'[c].own.snapshots \subseteq txns[c].own.snapshots
  PROVE  \A d \in Others(c) : Apart(txns'[c], txns[d])
BY InvParts DEF SameUpload, TxnsApart, Apart, Others

\* So is one that has nothing.
LEMMA IdleConsistent ==
  ASSUME IInv, NEW c \in Clients, Rollback(c),
         UNCHANGED <<now, theses, stored, imports, answers>>
  PROVE  Consistent'
<1>1. Only(c) /\ txns'[c] = Idle
  BY RolledBack, InvParts
<1>2. Sound(Idle)
  <2>1. /\ Idle.phase = "idle" /\ Idle.resolved = <<>> /\ Idle.own = NoRows
        /\ Idle.began = 0 /\ now \in Nat
    BY InvParts, ImportAssumption DEF Idle, TypeOK, Times
  <2>2. Resolves(Idle)
    BY <2>1 DEF Resolves, Follows, Coverage
  <2>3. Fits(Idle)
    BY <2>1 DEF Fits
  <2>4. Flushed(Idle) /\ Unraced(Idle)
    BY <2>1 DEF Flushed, Unraced, Coverage, NoRows
  <2>5. SnapshotFound(Idle) /\ MembersFound(Idle)
    BY <2>1 DEF SnapshotFound, MembersFound
  <2>6. QED
    BY <2>1, <2>2, <2>3, <2>4, <2>5 DEF Sound, Settled, Identified
<1>3. \A u : Apart(Idle, u)
  BY DEF Apart, Idle, NoRows
<1>4. QED
  BY <1>1, <1>2, <1>3, StepConsistently

LEMMA BeginConsistent ==
  ASSUME IInv, NEW c \in Clients, Begin(c)
  PROVE  Consistent'
<1> USE InvParts
<1> DEFINE u == txns'[c]
<1>1. /\ Only(c) /\ imports' = imports + 1 /\ UNCHANGED <<now, theses, stored, answers>>
      /\ u.phase = "resolving" /\ u.id = imports + 1 /\ u.row = 1 /\ u.resolved = <<>>
      /\ u.own = NoRows /\ u.base = Answered /\ u.began = now
      /\ u.file \in Files /\ u.target \in Targets /\ u.file.rows # <<>>
  BY Begun
<1>2. imports \in Nat /\ now \in Nat
  BY ImportAssumption DEF TypeOK, Times
<1>3. u.file.rows \in Seq(RawRow)
  BY <1>1, ImportAssumption DEF Files, Upload, File
<1>4. Len(u.file.rows) \in Nat /\ Len(u.file.rows) >= 1
  BY <1>1, <1>3
<1>5. \A i \in Answered : i <= imports
  BY <1>2 DEF Tables, AnswerSound, Answered
<1> HIDE DEF u
<1>6. Identified(txns[c])'
  <2>1. u.id \in 1..imports' /\ u.id \notin Answered
    BY <1>1, <1>2, <1>5
  <2>2. Answered' = Answered
    BY <1>1 DEF Answered
  <2>3. QED
    BY <1>1, <1>4, <2>1, <2>2 DEF Identified, u
<1>7. Settled(u)
  <2>1. Resolves(u)
    BY <1>1, <1>3, <1>4 DEF Resolves, Follows, Coverage
  <2>2. Fits(u)
    BY <1>1, <1>2 DEF Fits
  <2>3. Flushed(u) /\ Unraced(u)
    BY <1>1 DEF Flushed, Unraced, Coverage, NoRows
  <2>4. SnapshotFound(u) /\ MembersFound(u)
    BY <1>1 DEF SnapshotFound, MembersFound
  <2>5. QED
    BY <2>1, <2>2, <2>3, <2>4 DEF Settled
<1>8. \A d \in Others(c) : Apart(u, txns[d])
  <2> TAKE d \in Others(c)
  <2>1. txns[d].phase # "idle" => txns[d].id \in 1..imports
    BY DEF Others, Identified
  <2>2. QED
    BY <1>1, <1>2, <2>1 DEF Apart, NoRows
<1>9. QED
  BY <1>1, <1>6, <1>7, <1>8, MovedConsistently DEF u

\* A resolved row is what its row says and names an accepted thesis.
LEMMA ResolveConsistent ==
  ASSUME IInv, NEW c \in Clients, ResolveRow(c)
  PROVE  Consistent'
<1> USE InvParts
<1> DEFINE t == txns[c]
           u == txns'[c]
           raw == t.file.rows[t.row]
<1>1. UNCHANGED <<now, theses, stored, imports, answers>>
  BY DEF ResolveRow
<1>2. CASE Rollback(c)
  BY <1>1, <1>2, IdleConsistent
<1>3. CASE ~ Rollback(c)
  <2>1. /\ t.phase = "resolving" /\ t.file.rows \in Seq(RawRow) /\ Len(t.file.rows) \in Nat
        /\ t.row \in 1..Len(t.file.rows) /\ t.resolved \in Seq(ResolvedRow)
        /\ t.own = NoRows
    <3>1. t.phase = "resolving"
      BY DEF ResolveRow
    <3>2. t.file.rows \in Seq(RawRow) /\ Len(t.file.rows) \in Nat
      BY <3>1, InProgress
    <3>3. t.row \in DOMAIN t.file.rows
      BY <3>1 DEF Resolves
    <3>4. t.own = NoRows /\ t.resolved \in Seq(ResolvedRow)
      BY <3>1 DEF Flushed, Txn
    <3>5. QED
      BY <3>1, <3>2, <3>3, <3>4
  <2>2. RowDone(c)
    BY <1>3, RowResolved
  <2>3. /\ Only(c) /\ SameUpload(c) /\ u.own = t.own
        /\ t.row = Len(t.file.rows) => u.row = 1 /\ u.phase = "resolved" /\ ~ u.issues
        /\ t.row # Len(t.file.rows) => u.row = t.row + 1 /\ u.phase = "resolving"
        /\ \/ u.issues /\ u.resolved = t.resolved
           \/ /\ u.issues = t.issues
              /\ \E r \in Resolution(raw, t.asOf) : u.resolved = Append(t.resolved, r)
    BY <2>2 DEF RowDone, LastRow
  <2>4. u.file = t.file /\ u.asOf = t.asOf /\ u.began = t.began
    BY <2>3 DEF SameUpload
  <2>5. ASSUME ~ u.issues
        PROVE  /\ ~ t.issues /\ Len(t.resolved) = t.row - 1
               /\ \E r \in ResolvedRow : /\ u.resolved = Append(t.resolved, r)
                                         /\ ResolvedAs(raw, r)
    <3>1. ~ t.issues /\ Len(t.resolved) = t.row - 1
      BY <2>1, <2>3, <2>5 DEF Resolves
    <3>2. PICK r \in Resolution(raw, t.asOf) : u.resolved = Append(t.resolved, r)
      BY <2>3, <2>5
    <3>3. raw \in RawRow
      BY <2>1
    <3>4. r \in ResolvedRow /\ ResolvedAs(raw, r)
      BY <3>2, <3>3, ResolutionSound
    <3>5. QED
      BY <3>1, <3>2, <3>4
  <2>6. ~ u.issues => Len(u.resolved) = t.row
    BY <2>1, <2>5
  <2>7. ~ u.issues => Follows(u)
    <3> SUFFICES ASSUME ~ u.issues, NEW i \in DOMAIN u.resolved
                 PROVE  ResolvedAs(u.file.rows[i], u.resolved[i])
      BY DEF Follows
    <3>1. PICK r \in ResolvedRow : u.resolved = Append(t.resolved, r) /\ ResolvedAs(raw, r)
      BY <2>5
    <3>2. Follows(t) /\ Len(t.resolved) = t.row - 1
      BY <2>5 DEF Resolves
    <3> HIDE DEF t, u
    <3>3. CASE i = t.row
      <4>1. u.resolved[i] = r
        BY <2>1, <3>1, <3>2, <3>3
      <4>2. QED
        BY <2>4, <3>1, <3>3, <4>1
    <3>4. CASE i # t.row
      <4>1. i \in DOMAIN t.resolved /\ u.resolved[i] = t.resolved[i]
        BY <2>1, <3>1, <3>2, <3>4
      <4>2. QED
        BY <2>4, <3>2, <4>1 DEF Follows
    <3>5. QED
      BY <3>3, <3>4
  <2>8. Resolves(u)
    <3> HIDE DEF t, u
    <3>1. u.phase = "resolving" => u.row \in DOMAIN u.file.rows
      BY <2>1, <2>3, <2>4
    <3>2. u.phase = "resolving" /\ ~ u.issues => Len(u.resolved) = u.row - 1
      BY <2>1, <2>3, <2>6
    <3>3. u.phase = "resolved" => ~ u.issues /\ Len(u.resolved) = Len(u.file.rows) /\ u.row = 1
      BY <2>3, <2>4, <2>6
    <3>4. u.phase \in {"resolving", "resolved"}
      BY <2>3
    <3>5. QED
      BY <2>7, <3>1, <3>2, <3>3, <3>4 DEF Resolves, Coverage
  <2>9. Fits(u)
    <3>1. Fits(t) /\ raw \in RawRow
      BY <2>1
    <3>2. ASSUME NEW r \in Resolution(raw, t.asOf) PROVE ThesisFits(r, t.asOf, t.began)
      <4>1. ThesisAccepted(r.thesis, r.security, t.asOf)
        BY <3>1, ResolutionSound
      <4>2. QED
        BY <4>1 DEF ThesisAccepted, ThesisFits
    <3> HIDE DEF t, u
    <3>3. CASE u.resolved = t.resolved
      BY <2>4, <3>1, <3>3 DEF Fits
    <3>4. ASSUME NEW r \in Resolution(raw, t.asOf), u.resolved = Append(t.resolved, r)
          PROVE  Fits(u)
      <4>1. \A i \in DOMAIN u.resolved : \/ u.resolved[i] = r
                                         \/ /\ i \in DOMAIN t.resolved
                                            /\ u.resolved[i] = t.resolved[i]
        BY <2>1, <3>4
      <4>2. QED
        BY <2>4, <3>1, <3>2, <4>1 DEF Fits
    <3>5. QED
      BY <2>3, <3>3, <3>4
  <2>10. u.phase \in {"resolving", "resolved"} /\ u.own = NoRows
    BY <2>1, <2>3
  <2> HIDE DEF u
  <2>11. Flushed(u) /\ Unraced(u) /\ SnapshotFound(u) /\ MembersFound(u)
    BY <2>10 DEF Flushed, Unraced, SnapshotFound, MembersFound, NoRows, Coverage
  <2>12. Identified(u)
    BY <2>1, <2>3, StillIdentified DEF u
  <2>13. \A d \in Others(c) : Apart(u, txns[d])
    BY <2>1, <2>3, StillApart DEF u
  <2>14. Sound(u)
    BY <2>8, <2>9, <2>11, <2>12 DEF Sound, Settled
  <2>15. QED
    BY <1>1, <2>3, <2>13, <2>14, StepConsistently DEF u
<1>4. QED
  BY <1>2, <1>3

\* An upload that keeps its rows keeps what follows from them.
LEMMA SameRowsMean ==
  ASSUME IInv, NEW c \in Clients, SameRows(c)
  PROVE  LET t == txns[c]
             u == txns'[c]
         IN  /\ ~ u.issues => Follows(u)
             /\ Fits(u) /\ PositionsOf(u) = PositionsOf(t)
             /\ \A i : MemberOf(u, i) = MemberOf(t, i)
             /\ \A rows, i : MemberFound(rows, u, i) <=> MemberFound(rows, t, i)
             /\ \A n : Fresh(u, n) <=> Fresh(t, n)
<1> USE InvParts DEF SameRows, SameUpload
<1> DEFINE t == txns[c]
           u == txns'[c]
<1>1. ~ u.issues => Follows(u)
  BY DEF Resolves, Follows
<1>2. Fits(u)
  BY DEF Fits
<1>3. PositionsOf(u) = PositionsOf(t) /\ \A i : MemberOf(u, i) = MemberOf(t, i)
  BY DEF PositionsOf, MemberOf
<1>4. \A rows, i : MemberFound(rows, u, i) <=> MemberFound(rows, t, i)
  BY DEF MemberFound
<1>5. \A n : Fresh(u, n) <=> Fresh(t, n)
  BY DEF Fresh
<1>6. QED
  BY <1>1, <1>2, <1>3, <1>4, <1>5

LEMMA LookupSnapshotConsistent ==
  ASSUME IInv, NEW c \in Clients, LookupSnapshot(c)
  PROVE  Consistent'
<1> USE InvParts
<1> DEFINE t == txns[c]
           u == txns'[c]
           existing == SnapshotsAt(snapshots, t.target, t.asOf)
<1>1. /\ UNCHANGED <<now, theses, stored, imports, answers>>
      /\ t.phase = "resolved" /\ t.file.kind = "holdings"
      /\ \/ Goto(c, "absent")
         \/ Goto(c, "written") /\ \E s \in existing : s.hash = t.file
         \/ Rollback(c)
  BY DEF LookupSnapshot
<1>2. CASE Rollback(c)
  BY <1>1, <1>2, IdleConsistent
<1>3. ASSUME NEW phase \in {"absent", "written"}, Goto(c, phase),
             phase = "written" => \E s \in existing : s.hash = t.file
      PROVE  Consistent'
  <2>1. /\ Only(c) /\ SameRows(c) /\ u.phase = phase
        /\ u.own = t.own /\ u.row = t.row
    BY <1>3, Moved DEF Phases
  <2>2. t.own = NoRows
    BY <1>1 DEF Flushed
  <2>3. u.file = t.file /\ u.target = t.target /\ u.asOf = t.asOf
        /\ u.resolved = t.resolved /\ u.issues = t.issues
    BY <2>1 DEF SameRows, SameUpload
  <2>4. Resolves(u)
    <3>1. ~ u.issues /\ Len(u.resolved) = Len(u.file.rows) /\ u.file.kind = "holdings"
      BY <1>1, <2>3 DEF Resolves
    <3>2. Follows(u)
      BY <2>1, <3>1, SameRowsMean
    <3>3. QED
      BY <1>3, <2>1, <3>1, <3>2 DEF Resolves, Coverage
  <2>5. Fits(u)
    BY <2>1, SameRowsMean
  <2>6. SnapshotFound(u)
    BY <1>3, <2>1, <2>3 DEF SnapshotFound, SnapshotsAt
  <2>7. Flushed(u) /\ MembersFound(u) /\ Unraced(u)
    BY <1>1, <1>3, <2>1, <2>2, <2>3 DEF Flushed, MembersFound, Unraced, NoRows, Coverage
  <2>8. Identified(u)
    BY <1>1, <2>1, StillIdentified DEF SameRows
  <2>9. \A d \in Others(c) : Apart(u, txns[d])
    BY <1>1, <2>1, StillApart DEF SameRows
  <2>10. QED
    BY <1>1, <2>1, <2>4, <2>5, <2>6, <2>7, <2>8, <2>9, StepConsistently DEF Sound, Settled
<1>4. QED
  BY <1>1, <1>2, <1>3

\* The unique key of a snapshot: nobody else has it, stored or flushed.
LEMMA InsertSnapshotConsistent ==
  ASSUME IInv, NEW c \in Clients, InsertSnapshot(c)
  PROVE  Consistent'
<1> USE InvParts
<1> DEFINE t == txns[c]
           u == txns'[c]
<1>1. /\ UNCHANGED <<now, theses, stored, imports, answers>>
      /\ t.phase = "absent"
      /\ \A d \in Others(c) : SnapshotsAt(txns[d].own.snapshots, t.target, t.asOf) = {}
  BY DEF InsertSnapshot
<1>2. CASE Rollback(c)
  BY <1>1, <1>2, IdleConsistent
<1>3. CASE ~ Rollback(c)
  <2>1. HoldingsFlushed(c)
    BY <1>3, SnapshotInserted
  <2>2. /\ Only(c) /\ SameRows(c) /\ u.phase = "written"
        /\ u.own.snapshots = {SnapshotOf(t)} /\ u.own.positions = PositionsOf(t)
        /\ u.own.members = t.own.members /\ SnapshotsAt(snapshots, t.target, t.asOf) = {}
    BY <2>1 DEF HoldingsFlushed
  <2>3. u.id = t.id /\ u.file = t.file /\ u.target = t.target /\ u.asOf = t.asOf
        /\ u.resolved = t.resolved /\ u.issues = t.issues
    BY <2>2 DEF SameRows, SameUpload
  <2>4. /\ SnapshotOf(t).id = t.id /\ SnapshotOf(t).portfolio = t.target
        /\ SnapshotOf(t).asOf = t.asOf /\ SnapshotOf(t).hash = t.file
    BY DEF SnapshotOf
  <2>5. t.own.members = {} /\ t.file.kind = "holdings"
    BY <1>1 DEF Flushed, NoRows, Resolves
  <2>6. Resolves(u)
    <3>1. ~ u.issues /\ Len(u.resolved) = Len(u.file.rows)
      BY <1>1, <2>3 DEF Resolves
    <3>2. Follows(u)
      BY <2>2, <3>1, SameRowsMean
    <3>3. QED
      BY <2>2, <3>1, <3>2 DEF Resolves, Coverage
  <2>7. Fits(u)
    BY <2>2, SameRowsMean
  <2>8. Flushed(u)
    <3>1. PositionsOf(u) = PositionsOf(t)
      BY <2>2, SameRowsMean
    <3>2. \A r \in snapshots : ~ SameInstant(r, SnapshotOf(t))
      BY <2>2, <2>4 DEF SnapshotsAt, SameInstant
    <3>3. QED
      BY <2>2, <2>3, <2>4, <2>5, <3>1, <3>2 DEF Flushed, Coverage
  <2>9. SnapshotFound(u)
    BY <2>2, <2>3, <2>4 DEF SnapshotFound
  <2>10. MembersFound(u) /\ Unraced(u)
    BY <2>2, <2>3, <2>5 DEF MembersFound, Unraced
  <2>11. Identified(u)
    BY <1>1, <2>2, StillIdentified DEF SameRows
  <2>12. \A d \in Others(c) : Apart(u, txns[d])
    <3> TAKE d \in Others(c)
    <3>1. txns[d].phase # "idle" => u.id # txns[d].id
      BY <1>1, <2>3 DEF TxnsApart, Apart, Others
    <3>2. \A s \in u.own.snapshots, r \in txns[d].own.snapshots : ~ SameInstant(s, r)
      BY <1>1, <2>2, <2>4 DEF SameInstant, SnapshotsAt
    <3>3. QED
      BY <3>1, <3>2 DEF Apart
  <2>13. QED
    BY <1>1, <2>2, <2>6, <2>7, <2>8, <2>9, <2>10, <2>11, <2>12, StepConsistently
       DEF Sound, Settled
<1>4. QED
  BY <1>2, <1>3

\* On to the members, of a list that is there or has been flushed.
LEMMA ToMembersConsistent ==
  ASSUME IInv, NEW c \in Clients, LookupList(c) \/ InsertList(c)
  PROVE  Consistent'
<1> USE InvParts
<1> DEFINE t == txns[c]
           u == txns'[c]
<1>1. /\ UNCHANGED <<now, theses, stored, imports, answers>>
      /\ t.phase \in {"resolved", "naming"} /\ t.file.kind = "coverage"
  BY DEF LookupList, InsertList, Resolves, Coverage
<1>2. CASE Rollback(c)
  BY <1>1, <1>2, IdleConsistent
<1>3. CASE ~ Rollback(c)
  <2>1. /\ Only(c) /\ SameRows(c) /\ u.phase \in {"members", "naming"} /\ u.row = t.row
        /\ u.own.snapshots = t.own.snapshots /\ u.own.positions = t.own.positions
        /\ u.own.members = t.own.members
        /\ u.phase = "naming" => u.own = t.own
    <3>1. CASE LookupList(c)
      <4>1. PICK phase \in {"members", "naming"} : Goto(c, phase)
        BY <3>1 DEF LookupList
      <4>2. QED
        BY <4>1, Moved DEF Phases
    <3>2. CASE InsertList(c)
      BY <1>3, <3>2, ListInserted DEF ListFlushed
    <3>3. QED
      BY <3>1, <3>2
  <2>2. t.own = NoRows
    BY <1>1 DEF Flushed
  <2>3. u.file = t.file /\ u.target = t.target /\ u.asOf = t.asOf
        /\ u.resolved = t.resolved /\ u.issues = t.issues
    BY <2>1 DEF SameRows, SameUpload
  <2>4. Resolves(u)
    <3>1. /\ ~ u.issues /\ Len(u.resolved) = Len(u.file.rows) /\ u.file.kind = "coverage"
          /\ u.row = 1
      BY <1>1, <2>1, <2>3 DEF Resolves
    <3>2. Follows(u)
      BY <2>1, <3>1, SameRowsMean
    <3>3. u.row \in DOMAIN u.resolved
      <4>1. Len(u.file.rows) >= 1 /\ Len(u.file.rows) \in Nat
        BY <1>1, <2>3, InProgress DEF Identified
      <4>2. u.resolved \in Seq(ResolvedRow)
        BY <2>3 DEF Txn
      <4>3. QED
        BY <3>1, <4>1, <4>2
    <3>4. QED
      BY <2>1, <3>1, <3>2, <3>3 DEF Resolves, Coverage
  <2>5. Fits(u)
    BY <2>1, SameRowsMean
  <2>6. Flushed(u) /\ SnapshotFound(u) /\ Unraced(u)
    BY <2>1, <2>2 DEF Flushed, SnapshotFound, Unraced, NoRows, Coverage
  <2>7. MembersFound(u)
    <3>1. u.row = 1
      BY <1>1, <2>1 DEF Resolves
    <3>2. QED
      BY <2>1, <3>1 DEF MembersFound
  <2>8. Identified(u)
    BY <1>1, <2>1, StillIdentified DEF SameRows
  <2>9. \A d \in Others(c) : Apart(u, txns[d])
    BY <1>1, <2>1, StillApart DEF SameRows
  <2>10. QED
    BY <1>1, <2>1, <2>4, <2>5, <2>6, <2>7, <2>8, <2>9, StepConsistently DEF Sound, Settled
<1>4. QED
  BY <1>2, <1>3

\* A row that is found among the members stays found as they grow.
LEMMA FoundAmongMore ==
  ASSUME NEW rows, NEW more, rows \subseteq more, NEW u, NEW i, MemberFound(rows, u, i)
  PROVE  MemberFound(more, u, i)
BY DEF MemberFound

\* The next member, after one that is found or flushed.
LEMMA WentOnConsistent ==
  ASSUME IInv, NEW c \in Clients, WentOn(c), txns[c].phase \in {"members", "adding"},
         UNCHANGED <<now, theses, stored, imports, answers>>,
         txns'[c].own.snapshots = txns[c].own.snapshots,
         txns'[c].own.positions = txns[c].own.positions,
         txns[c].own.members \subseteq txns'[c].own.members,
         \A n \in txns'[c].own.members : n.by = txns[c].id /\ Fresh(txns[c], n),
         MemberFound(members \cup txns'[c].own.members, txns[c], txns[c].row)
  PROVE  Consistent'
<1> USE InvParts
<1> DEFINE t == txns[c]
           u == txns'[c]
           rows == members \cup u.own.members
<1>1. /\ Only(c) /\ SameRows(c)
      /\ t.row = Len(t.resolved) => u.phase = "written"
      /\ t.row # Len(t.resolved) => u.phase = "members" /\ u.row = t.row + 1
  BY DEF WentOn
<1>2. u.id = t.id /\ u.file = t.file /\ u.target = t.target /\ u.asOf = t.asOf
      /\ u.resolved = t.resolved /\ u.issues = t.issues
  BY <1>1 DEF SameRows, SameUpload
<1>3. /\ t.resolved \in Seq(ResolvedRow) /\ t.row \in 1..Len(t.resolved)
      /\ Len(t.resolved) \in Nat /\ t.file.kind = "coverage"
      /\ t.own.snapshots = {} /\ t.own.positions = {}
  <2>1. t.resolved \in Seq(ResolvedRow) /\ t.row \in DOMAIN t.resolved
    BY DEF Txn, Resolves
  <2>2. QED
    BY <2>1 DEF Resolves, Coverage, Flushed
<1>4. Resolves(u)
  <2>1. ~ u.issues /\ Len(u.resolved) = Len(u.file.rows) /\ u.file.kind = "coverage"
    BY <1>2, <1>3 DEF Resolves
  <2>2. Follows(u)
    BY <1>1, <2>1, SameRowsMean
  <2>3. u.phase = "members" => u.row \in DOMAIN u.resolved
    <3> HIDE DEF t, u
    <3>1. QED
      BY <1>1, <1>2, <1>3
  <2>4. QED
    BY <1>1, <2>1, <2>2, <2>3 DEF Resolves, Coverage
<1>5. Fits(u)
  BY <1>1, SameRowsMean
<1>6. Flushed(u) /\ SnapshotFound(u)
  BY <1>1, <1>2, <1>3 DEF Flushed, SnapshotFound, Coverage
<1>7. Unraced(u)
  <2>1. \A n \in u.own.members : Fresh(u, n)
    BY <1>1, SameRowsMean
  <2>2. QED
    BY <1>1, <2>1 DEF Unraced
<1>8. MembersFound(u)
  <2>1. \A i \in 1..(t.row - 1) : MemberFound(members \cup t.own.members, t, i)
    BY DEF MembersFound
  <2>2. ASSUME NEW i \in 1..t.row PROVE MemberFound(rows, t, i)
    <3>1. CASE i = t.row
      BY <3>1
    <3>2. CASE i # t.row
      <4>1. i \in 1..(t.row - 1)
        BY <1>3, <3>2
      <4>2. members \cup t.own.members \subseteq rows
        OBVIOUS
      <4>3. QED
        BY <2>1, <4>1, <4>2, FoundAmongMore
    <3>3. QED
      BY <3>1, <3>2
  <2>3. \A i \in 1..t.row : MemberFound(rows, u, i)
    BY <1>1, <2>2, SameRowsMean
  <2> HIDE DEF t
  <2>4. CASE t.row = Len(t.resolved)
    <3>1. DOMAIN u.resolved = 1..t.row
      BY <1>2, <1>3, <2>4
    <3>2. \A i \in DOMAIN u.resolved : MemberFound(rows, u, i)
      BY <2>3, <3>1
    <3>3. u.phase = "written"
      BY <1>1, <2>4
    <3>4. QED
      BY <3>2, <3>3 DEF MembersFound
  <2>5. CASE t.row # Len(t.resolved)
    <3>1. u.row - 1 = t.row
      BY <1>1, <1>3, <2>5
    <3>2. QED
      BY <1>1, <2>3, <2>5, <3>1 DEF MembersFound
  <2>6. QED
    BY <2>4, <2>5
<1>9. Identified(u)
  BY <1>1, StillIdentified DEF SameRows
<1>10. \A d \in Others(c) : Apart(u, txns[d])
  BY <1>1, StillApart DEF SameRows
<1>11. QED
  BY <1>1, <1>4, <1>5, <1>6, <1>7, <1>8, <1>9, <1>10, StepConsistently DEF Sound, Settled

LEMMA CheckMemberConsistent ==
  ASSUME IInv, NEW c \in Clients, CheckMember(c)
  PROVE  Consistent'
<1> USE InvParts
<1> DEFINE t == txns[c]
           u == txns'[c]
           m == MemberOf(t, t.row)
<1>1. UNCHANGED <<now, theses, stored, imports, answers>> /\ t.phase = "members"
  BY DEF CheckMember
<1>2. CASE Rollback(c)
  BY <1>1, <1>2, IdleConsistent
<1>3. CASE MemberMissing(c)
  <2>1. /\ Only(c) /\ SameRows(c) /\ u.phase = "adding" /\ u.own = t.own /\ u.row = t.row
    BY <1>3, Moved DEF MemberMissing, Phases
  <2>2. u.id = t.id /\ u.file = t.file /\ u.target = t.target /\ u.asOf = t.asOf
        /\ u.resolved = t.resolved /\ u.issues = t.issues
    BY <2>1 DEF SameRows, SameUpload
  <2>3. Resolves(u)
    <3>1. ~ u.issues /\ Len(u.resolved) = Len(u.file.rows) /\ u.file.kind = "coverage"
          /\ u.row \in DOMAIN u.resolved
      BY <1>1, <2>1, <2>2 DEF Resolves, Coverage
    <3>2. Follows(u)
      BY <2>1, <3>1, SameRowsMean
    <3>3. QED
      BY <2>1, <3>1, <3>2 DEF Resolves, Coverage
  <2>4. Fits(u)
    BY <2>1, SameRowsMean
  <2>5. Flushed(u) /\ SnapshotFound(u)
    BY <1>1, <2>1, <2>2 DEF Flushed, SnapshotFound, Coverage
  <2>6. Unraced(u)
    <3>1. Fresh(t, m)
      BY <1>3 DEF MemberMissing, Overlapping, Fresh
    <3>2. Fresh(u, MemberOf(u, u.row))
      BY <2>1, <3>1, SameRowsMean
    <3>3. \A n \in u.own.members : Fresh(u, n)
      BY <2>1, SameRowsMean DEF Unraced
    <3>4. QED
      BY <3>2, <3>3 DEF Unraced
  <2>7. MembersFound(u)
    <3>1. \A i \in 1..(u.row - 1) : MemberFound(members \cup u.own.members, t, i)
      BY <1>1, <2>1 DEF MembersFound
    <3>2. \A i \in 1..(u.row - 1) : MemberFound(members \cup u.own.members, u, i)
      BY <2>1, <3>1, SameRowsMean
    <3>3. QED
      BY <2>1, <3>2 DEF MembersFound
  <2>8. Identified(u)
    BY <1>1, <2>1, StillIdentified DEF SameRows
  <2>9. \A d \in Others(c) : Apart(u, txns[d])
    BY <1>1, <2>1, StillApart DEF SameRows
  <2>10. QED
    BY <1>1, <2>1, <2>3, <2>4, <2>5, <2>6, <2>7, <2>8, <2>9, StepConsistently
       DEF Sound, Settled
<1>4. CASE MemberStored(c)
  <2>1. \A n \in t.own.members : n.by = t.id /\ Fresh(t, n)
    BY DEF Flushed, Unraced
  <2>2. QED
    BY <1>1, <1>4, <2>1, WentOnConsistent DEF MemberStored
<1>5. QED
  BY <1>2, <1>3, <1>4, MemberChecked

LEMMA InsertMemberConsistent ==
  ASSUME IInv, NEW c \in Clients, InsertMember(c)
  PROVE  Consistent'
<1> USE InvParts
<1> DEFINE t == txns[c]
           u == txns'[c]
           m == MemberOf(t, t.row)
<1>1. UNCHANGED <<now, theses, stored, imports, answers>> /\ t.phase = "adding"
  BY DEF InsertMember
<1>2. CASE Rollback(c)
  BY <1>1, <1>2, IdleConsistent
<1>3. CASE ~ Rollback(c)
  <2>1. /\ WentOn(c)
        /\ u.own.snapshots = t.own.snapshots /\ u.own.positions = t.own.positions
        /\ u.own.members = t.own.members \cup {m}
    BY <1>3, MemberInserted
  <2>2. m.by = t.id /\ Fresh(t, m)
    BY <1>1 DEF MemberOf, Unraced
  <2>3. \A n \in u.own.members : n.by = t.id /\ Fresh(t, n)
    BY <2>1, <2>2 DEF Flushed, Unraced
  <2>4. MemberFound(members \cup u.own.members, t, t.row)
    <3>1. /\ m.list = t.target /\ m.security = t.resolved[t.row].security
          /\ m.added = t.asOf /\ SameContext(m, t.resolved[t.row])
      BY DEF MemberOf, SameContext
    <3>2. t.asOf <= t.asOf
      BY ImportAssumption DEF Txn, Times
    <3> HIDE DEF m
    <3>3. QED
      BY <2>1, <3>1, <3>2 DEF MemberFound
  <2>5. QED
    BY <1>1, <2>1, <2>3, <2>4, WentOnConsistent
<1>4. QED
  BY <1>2, <1>3

\* What is stored when t is committed, and what is answered.
AnswerOf(t) == [id |-> t.id, file |-> t.file, target |-> t.target, asOf |-> t.asOf,
                resolved |-> t.resolved, base |-> t.base, began |-> t.began]

LEMMA AnswerOfFields ==
  ASSUME NEW t
  PROVE  /\ AnswerOf(t).id = t.id /\ AnswerOf(t).file = t.file
         /\ AnswerOf(t).target = t.target /\ AnswerOf(t).asOf = t.asOf
         /\ AnswerOf(t).resolved = t.resolved /\ AnswerOf(t).base = t.base
         /\ AnswerOf(t).began = t.began
BY DEF AnswerOf

Committed(c) ==
    LET t == txns[c]
    IN  /\ t.phase = "written" /\ Only(c) /\ txns'[c] = Idle
        /\ snapshots' = snapshots \cup t.own.snapshots
        /\ positions' = positions \cup t.own.positions
        /\ members' = members \cup t.own.members
        /\ answers' = answers \cup {AnswerOf(t)} /\ Answered' = Answered \cup {t.id}
        /\ UNCHANGED <<now, theses, imports>>

LEMMA CommitEffect ==
  ASSUME TypeOK, NEW c \in Clients, Commit(c)
  PROVE  Committed(c)
<1> DEFINE t == txns[c]
<1>1. t.phase = "written" /\ Rollback(c)
  BY DEF Commit, Rollback
<1>2. answers' = answers \cup {AnswerOf(t)}
  BY DEF Commit, AnswerOf
<1>3. Answered' = Answered \cup {t.id}
  <2>1. \A x : x \in Answered' <=> \E a \in answers \cup {AnswerOf(t)} : x = a.id
    BY <1>2 DEF Answered
  <2>2. \A x : x \in Answered' <=> x \in Answered \/ x = t.id
    BY <2>1, AnswerOfFields DEF Answered
  <2>3. QED
    BY <2>2
<1>4. QED
  BY <1>1, <1>2, <1>3, RolledBack DEF Commit, Committed

\* The other uploads stay sound: what is new is no rival of theirs.
LEMMA CommitKeepsOthers ==
  ASSUME IInv, NEW c \in Clients, Committed(c), NEW d \in Others(c)
  PROVE  Sound(txns[d])'
<1> USE InvParts DEF Others
<1> DEFINE t == txns[c]
           v == txns[d]
<1>1. /\ t.phase = "written" /\ txns'[d] = v
      /\ snapshots' = snapshots \cup t.own.snapshots
      /\ members' = members \cup t.own.members
      /\ answers' = answers \cup {AnswerOf(t)} /\ Answered' = Answered \cup {t.id}
      /\ UNCHANGED <<now, theses, imports>>
  BY DEF Committed, Only
<1>2. Apart(t, v) /\ Identified(t) /\ Identified(v) /\ Settled(v)
  BY DEF TxnsApart
<1>3. Identified(txns[d])'
  BY <1>1, <1>2 DEF Identified, Apart
<1>4. Resolves(txns'[d])
  BY <1>1, <1>2 DEF Settled
<1>5. Fits(txns[d])'
  BY <1>1, <1>2 DEF Settled, Fits, ThesisFits
<1>6. Flushed(txns[d])'
  <2>1. Flushed(v) /\ \A s \in v.own.snapshots : \A r \in t.own.snapshots : ~ SameInstant(r, s)
    BY <1>2 DEF Settled, Apart
  <2>2. \A s \in v.own.snapshots : \A r \in snapshots' : ~ SameInstant(r, s)
    BY <1>1, <2>1 DEF Flushed
  <2>3. QED
    BY <1>1, <2>1, <2>2 DEF Flushed
<1>7. SnapshotFound(txns[d])'
  BY <1>1, <1>2 DEF Settled, SnapshotFound
<1>8. MembersFound(txns[d])'
  <2>1. members \cup v.own.members \subseteq members' \cup v.own.members
    BY <1>1
  <2>2. \A i : MemberFound(members \cup v.own.members, v, i)
                 => MemberFound(members' \cup v.own.members, v, i)
    BY <2>1, FoundAmongMore
  <2>3. QED
    BY <1>1, <1>2, <2>2 DEF Settled, MembersFound
<1>9. Unraced(txns[d])'
  <2>1. ASSUME NEW n, Fresh(v, n), v.phase # "idle"
        PROVE  \A m \in members' : m.list = n.list /\ m.security = n.security
                                     => m.by \notin v.base
    <3>1. \A m \in t.own.members : m.by = t.id
      BY DEF Flushed
    <3>2. t.id \notin v.base
      BY <1>1, <1>2, <2>1 DEF Identified
    <3>3. QED
      BY <1>1, <2>1, <3>1, <3>2 DEF Fresh
  <2>2. v.phase = "idle" => v.own.members = {}
    BY DEF Flushed, NoRows
  <2>3. (\A n \in v.own.members : Fresh(v, n))
        /\ (v.phase = "adding" => Fresh(v, MemberOf(v, v.row)))
    BY <1>2 DEF Settled, Unraced
  <2>4. QED
    BY <1>1, <2>1, <2>2, <2>3 DEF Unraced, Fresh
<1>10. QED
  BY <1>3, <1>4, <1>5, <1>6, <1>7, <1>8, <1>9 DEF Sound, Settled

\* The committed upload is answered soundly.
LEMMA CommitAnswers ==
  ASSUME IInv, NEW c \in Clients, Committed(c)
  PROVE  \A a \in answers' : AnswerSound(a)'
<1> USE InvParts
<1> DEFINE t == txns[c]
<1>1. /\ t.phase = "written"
      /\ snapshots' = snapshots \cup t.own.snapshots
      /\ members' = members \cup t.own.members
      /\ answers' = answers \cup {AnswerOf(t)} /\ Answered' = Answered \cup {t.id}
      /\ UNCHANGED <<now, theses, imports>>
  BY DEF Committed
<1>2. Identified(t) /\ Settled(t)
  OBVIOUS
<1>3. ASSUME NEW a, AnswerSound(a) PROVE AnswerSound(a)'
  <2>1. a.id \in 1..imports' /\ a.base \subseteq Answered' \ {a.id}
    BY <1>1, <1>3 DEF AnswerSound
  <2>2. Len(a.resolved) = Len(a.file.rows) /\ Follows(a)
    BY <1>3 DEF AnswerSound
  <2>3. Fits(a)'
    BY <1>1, <1>3 DEF AnswerSound, Fits, ThesisFits
  <2>4. a.file.kind = "holdings" =>
          \E s \in snapshots' : s.portfolio = a.target /\ s.asOf = a.asOf /\ s.hash = a.file
    BY <1>1, <1>3 DEF AnswerSound
  <2>5. a.file.kind = "coverage" => \A i \in DOMAIN a.resolved : MemberFound(members', a, i)
    BY <1>1, <1>3, FoundAmongMore DEF AnswerSound
  <2>6. QED
    BY <2>1, <2>2, <2>3, <2>4, <2>5 DEF AnswerSound
<1>4. ASSUME NEW a, a = AnswerOf(t) PROVE AnswerSound(a)'
  <2>0. a.id = t.id /\ a.file = t.file /\ a.target = t.target /\ a.asOf = t.asOf
        /\ a.resolved = t.resolved /\ a.base = t.base /\ a.began = t.began
    BY <1>4, AnswerOfFields
  <2>1. a.id \in 1..imports' /\ a.base \subseteq Answered' \ {a.id}
    BY <1>1, <1>2, <2>0 DEF Identified
  <2>2. Len(a.resolved) = Len(a.file.rows) /\ Follows(a)
    BY <1>1, <1>2, <2>0 DEF Settled, Resolves, Follows
  <2>3. Fits(a)'
    BY <1>1, <1>2, <2>0 DEF Settled, Fits, ThesisFits
  <2>4. a.file.kind = "holdings" =>
          \E s \in snapshots' : s.portfolio = a.target /\ s.asOf = a.asOf /\ s.hash = a.file
    BY <1>1, <1>2, <2>0 DEF Settled, SnapshotFound
  <2>5. a.file.kind = "coverage" => \A i \in DOMAIN a.resolved : MemberFound(members', a, i)
    BY <1>1, <1>2, <2>0 DEF Settled, MembersFound, MemberFound
  <2>6. QED
    BY <2>1, <2>2, <2>3, <2>4, <2>5 DEF AnswerSound
<1>5. QED
  <2>1. \A a \in answers : AnswerSound(a)'
    BY <1>3 DEF Tables
  <2>2. QED
    BY <1>1, <1>4, <2>1

\* The positions of a committed snapshot say what its upload says.
LEMMA CommitSnapshots ==
  ASSUME IInv, NEW c \in Clients, Committed(c)
  PROVE  /\ \A s \in snapshots' : SnapshotSound(s)'
         /\ \A s, r \in snapshots' : SameInstant(s, r) => s = r
<1> USE InvParts
<1> DEFINE t == txns[c]
<1>1. /\ t.phase = "written"
      /\ snapshots' = snapshots \cup t.own.snapshots
      /\ positions' = positions \cup t.own.positions
      /\ answers' = answers \cup {AnswerOf(t)}
  BY DEF Committed
<1>2. /\ t.id \notin Answered
      /\ \A s \in t.own.snapshots : s.id = t.id /\ s.hash = t.file
                                    /\ t.own.positions = PositionsOf(t)
      /\ t.own.snapshots = {} => t.own.positions = {}
  BY <1>1 DEF Identified, Flushed
<1>3. \A p \in PositionsOf(t) : p.snapshot = t.id
  BY DEF PositionsOf
<1>4. ASSUME NEW s \in snapshots PROVE SnapshotSound(s)'
  <2>1. PICK a \in answers : a.id = s.id /\ a.file = s.hash /\ Contents(a) = Held(positions, s.id)
    BY DEF Tables, SnapshotSound
  <2>2. \A p \in t.own.positions : p.snapshot # s.id
    BY <1>2, <1>3, <2>1 DEF Answered
  <2>3. { q \in positions' : q.snapshot = s.id } = { q \in positions : q.snapshot = s.id }
    BY <1>1, <2>2
  <2>4. Held(positions', s.id) = Held(positions, s.id)
    BY <2>3 DEF Held
  <2>5. QED
    BY <1>1, <2>1, <2>4 DEF SnapshotSound
<1>5. ASSUME NEW s \in t.own.snapshots PROVE SnapshotSound(s)'
  <2>1. s.id = t.id /\ s.hash = t.file /\ t.own.positions = PositionsOf(t)
    BY <1>2
  <2>2. \A p \in positions : p.snapshot # t.id
    BY <1>2 DEF Tables
  <2>3. { q \in positions' : q.snapshot = t.id } = PositionsOf(t)
    BY <1>1, <1>3, <2>1, <2>2
  <2> DEFINE said(p) == [security |-> p.security, thesis |-> p.thesis,
                         benchmark |-> p.benchmark, note |-> p.note, source |-> p.source]
             position(r) == [snapshot |-> t.id, security |-> r.security, thesis |-> r.thesis,
                             benchmark |-> r.benchmark, note |-> r.note, source |-> r.source]
  <2>4. Held(positions', t.id) = { said(p) : p \in PositionsOf(t) }
    BY <2>3 DEF Held
  <2>5. PositionsOf(t) = { position(r) : r \in Contents(t) }
    BY DEF PositionsOf, Contents
  <2>6. \A r \in Contents(t) : said(position(r)) = r
    <3>1. Contents(t) \subseteq ResolvedRow
      BY DEF Contents, Txn
    <3>2. ASSUME NEW r \in ResolvedRow PROVE said(position(r)) = r
      BY DEF ResolvedRow
    <3>3. QED
      BY <3>1, <3>2
  <2> HIDE DEF said, position
  <2>7. { said(p) : p \in PositionsOf(t) } = Contents(t)
    BY <2>5, <2>6
  <2>8. Contents(AnswerOf(t)) = Contents(t)
    BY AnswerOfFields DEF Contents
  <2>9. PICK a : a = AnswerOf(t)
    OBVIOUS
  <2>10. a \in answers' /\ a.id = s.id /\ a.file = s.hash /\ Contents(a) = Held(positions', s.id)
    BY <1>1, <2>1, <2>4, <2>7, <2>8, <2>9, AnswerOfFields
  <2>11. QED
    BY <2>10 DEF SnapshotSound
<1>6. \A s, r \in snapshots' : SameInstant(s, r) => s = r
  <2>1. \A s, r : SameInstant(s, r) => SameInstant(r, s)
    BY DEF SameInstant
  <2>2. \A s, r \in snapshots : SameInstant(s, r) => s = r
    BY DEF Tables
  <2>3. \A s, r \in t.own.snapshots : s = r
    BY DEF Flushed
  <2>4. \A s \in t.own.snapshots : \A r \in snapshots : ~ SameInstant(r, s)
    BY DEF Flushed
  <2>5. QED
    BY <1>1, <2>1, <2>2, <2>3, <2>4
<1>7. QED
  BY <1>1, <1>4, <1>5, <1>6

\* A member beside one of an earlier upload needs a race.
LEMMA CommitOverlaps ==
  ASSUME IInv, NEW c \in Clients, Committed(c)
  PROVE  OverlapNeedsRace'
<1> USE InvParts
<1> DEFINE t == txns[c]
<1>1. /\ t.phase = "written"
      /\ members' = members \cup t.own.members
      /\ answers' = answers \cup {AnswerOf(t)}
  BY DEF Committed
<1>2. /\ t.id \notin Answered /\ t.base \subseteq Answered
      /\ \A m \in t.own.members : m.by = t.id /\ Fresh(t, m)
      /\ t.id # 0
  BY <1>1 DEF Identified, Flushed, Unraced
<1>3. /\ \A a \in answers : a.id \in Answered /\ a.base \subseteq Answered /\ a.id # t.id
      /\ \A m \in members : m.by # t.id
  BY <1>2 DEF Tables, AnswerSound, Answered
<1>4. \A a \in answers' : a \in answers \/ (a.id = t.id /\ a.base = t.base)
  BY <1>1, AnswerOfFields
<1> SUFFICES ASSUME NEW a \in answers', NEW b \in answers', NEW m \in members', NEW n \in members',
                    m.by = a.id, n.by = b.id, m # n, m.list = n.list, m.security = n.security
             PROVE  a.id \notin b.base /\ b.id \notin a.base
  BY DEF OverlapNeedsRace
<1>5. CASE m \in members /\ n \in members
  <2>1. a \in answers /\ b \in answers
    BY <1>3, <1>4, <1>5
  <2>2. QED
    BY <1>5, <2>1 DEF OverlapNeedsRace
<1>6. CASE m \in members /\ n \in t.own.members
  <2>1. b.id = t.id /\ b.base = t.base /\ a \in answers
    BY <1>2, <1>3, <1>4, <1>6
  <2>2. m.by \notin t.base
    BY <1>2, <1>6 DEF Fresh
  <2>3. QED
    BY <1>2, <1>3, <2>1, <2>2
<1>7. CASE m \in t.own.members /\ n \in members
  <2>1. a.id = t.id /\ a.base = t.base /\ b \in answers
    BY <1>2, <1>3, <1>4, <1>7
  <2>2. n.by \notin t.base
    BY <1>2, <1>7 DEF Fresh
  <2>3. QED
    BY <1>2, <1>3, <2>1, <2>2
<1>8. CASE m \in t.own.members /\ n \in t.own.members
  <2>1. a.id = t.id /\ b.id = t.id /\ a.base = t.base /\ b.base = t.base
    BY <1>2, <1>3, <1>4, <1>8
  <2>2. QED
    BY <1>2, <2>1
<1>9. QED
  BY <1>1, <1>5, <1>6, <1>7, <1>8

LEMMA CommitConsistent ==
  ASSUME IInv, NEW c \in Clients, Commit(c)
  PROVE  Consistent'
<1> USE InvParts
<1> DEFINE t == txns[c]
<1>1. Committed(c)
  BY CommitEffect
<1>2. /\ t.phase = "written" /\ Only(c) /\ txns'[c] = Idle
      /\ positions' = positions \cup t.own.positions
      /\ members' = members \cup t.own.members
      /\ answers' = answers \cup {AnswerOf(t)} /\ Answered' = Answered \cup {t.id}
  BY <1>1 DEF Committed
<1>3. TxnsSound'
  <2>1. Sound(txns[c])'
    <3>1. /\ txns'[c].phase = "idle" /\ txns'[c].resolved = <<>> /\ txns'[c].own = NoRows
          /\ txns'[c].began = 0 /\ now \in Nat /\ now' = now
      BY <1>1, <1>2, ImportAssumption DEF Idle, TypeOK, Times, Committed
    <3>2. Resolves(txns'[c])
      BY <3>1 DEF Resolves, Follows, Coverage
    <3>3. Fits(txns[c])'
      BY <3>1 DEF Fits
    <3>4. Flushed(txns[c])' /\ Unraced(txns[c])'
      BY <3>1 DEF Flushed, Unraced, Coverage, NoRows
    <3>5. SnapshotFound(txns[c])' /\ MembersFound(txns[c])'
      BY <3>1 DEF SnapshotFound, MembersFound
    <3>6. QED
      BY <3>1, <3>2, <3>3, <3>4, <3>5 DEF Sound, Settled, Identified
  <2>2. ASSUME NEW d \in Others(c) PROVE Sound(txns[d])'
    BY <1>1, CommitKeepsOthers
  <2>3. ASSUME NEW d \in Clients PROVE Sound(txns[d])'
    BY <2>1, <2>2 DEF Others
  <2>4. QED
    BY <2>3 DEF TxnsSound
<1>4. TxnsApart'
  <2>1. \A u : Apart(Idle, u) /\ Apart(u, Idle)
    BY DEF Apart, Idle, NoRows
  <2>2. \A d, e \in Clients : d # e => Apart(txns'[d], txns'[e])
    BY <1>2, <2>1 DEF TxnsApart, Only, Others
  <2>3. QED
    BY <2>2 DEF TxnsApart
<1>5. Tables'
  <2>1. \A a \in answers' : AnswerSound(a)'
    BY <1>1, CommitAnswers
  <2>2. \A a, b \in answers' : a.id = b.id => a = b
    <3>1. t.id \notin Answered
      BY <1>2 DEF Identified
    <3>2. \A a \in answers : a.id # t.id
      BY <3>1 DEF Answered
    <3>3. QED
      BY <1>2, <3>2, AnswerOfFields DEF Tables
  <2>3. /\ \A s \in snapshots' : SnapshotSound(s)'
        /\ \A s, r \in snapshots' : SameInstant(s, r) => s = r
    BY <1>1, CommitSnapshots
  <2>4. \A p \in positions' : p.snapshot \in Answered'
    <3>1. \A p \in t.own.positions : p.snapshot = t.id
      BY DEF Flushed, PositionsOf
    <3>2. QED
      BY <1>2, <3>1 DEF Tables
  <2>5. \A m \in members' : m.by \in Answered' \cup {0}
    BY <1>2 DEF Tables, Flushed
  <2>6. QED
    BY <2>1, <2>2, <2>3, <2>4, <2>5 DEF Tables
<1>6. OverlapNeedsRace'
  BY <1>1, CommitOverlaps
<1>7. QED
  BY <1>3, <1>4, <1>5, <1>6 DEF Consistent

\* A thesis that is archived beside an upload is archived after it began.
LEMMA BesideConsistent ==
  ASSUME IInv, Beside
  PROVE  Consistent'
<1> USE InvParts DEF Beside, stored
<1>1. ASSUME NEW u, Fits(u), u.resolved \in Seq(ResolvedRow), u.began \in Times
      PROVE  Fits(u)'
  <2>1. u.began <= now'
    BY <1>1, ImportAssumption DEF Fits, Times
  <2>2. ASSUME NEW i \in DOMAIN u.resolved, u.resolved[i].thesis # None
        PROVE  ThesisFits(u.resolved[i], u.asOf, u.began)'
    <3> DEFINE r == u.resolved[i]
               k == u.resolved[i].thesis
    <3>1. k \in ThesisKeys
      <4>1. u.resolved[i] \in ResolvedRow
        BY <1>1
      <4>2. QED
        BY <2>2, <4>1 DEF ResolvedRow
    <3>2. ThesisFits(r, u.asOf, u.began) /\ u.began <= now
      BY <1>1 DEF Fits
    <3>3. /\ theses[k] # None /\ ThesisOwner[k] = r.security
          /\ theses[k].created <= u.asOf
          /\ theses[k].archived # None =>
               theses[k].archived > u.asOf \/ theses[k].archived >= u.began
      BY <2>2, <3>2 DEF ThesisFits
    <3>4. /\ theses'[k] # None /\ theses'[k].created = theses[k].created
          /\ \/ theses'[k].archived = theses[k].archived
             \/ theses'[k].archived = now
      BY <3>1, <3>3
    <3>5. now >= u.began
      BY <1>1, <3>2, ImportAssumption DEF Times
    <3> HIDE DEF k
    <3>6. theses'[k].archived # None =>
             theses'[k].archived > u.asOf \/ theses'[k].archived >= u.began
      BY <3>3, <3>4, <3>5
    <3>7. QED
      BY <3>3, <3>4, <3>6 DEF ThesisFits, k
  <2>3. QED
    BY <2>1, <2>2 DEF Fits, ThesisFits
<1>2. TxnsSound'
  <2> SUFFICES ASSUME NEW d \in Clients PROVE Sound(txns[d])'
    BY DEF TxnsSound
  <2>1. Identified(txns[d])'
    BY DEF Identified, Answered
  <2>2. Resolves(txns'[d])
    OBVIOUS
  <2>3. Fits(txns[d])'
    <3>1. PICK u : u = txns[d]
      OBVIOUS
    <3>2. Fits(u)'
      BY <1>1, <3>1 DEF Txn
    <3>3. QED
      BY <3>1, <3>2 DEF Fits, ThesisFits
  <2>4. Flushed(txns[d])' /\ SnapshotFound(txns[d])' /\ MembersFound(txns[d])'
    BY DEF Flushed, SnapshotFound, MembersFound
  <2>5. Unraced(txns[d])'
    BY DEF Unraced, Fresh
  <2>6. QED
    BY <2>1, <2>2, <2>3, <2>4, <2>5 DEF Sound, Settled
<1>3. TxnsApart'
  BY DEF TxnsApart
<1>4. Tables'
  <2>1. ASSUME NEW a \in answers PROVE AnswerSound(a)'
    <3>1. AnswerSound(a)
      BY DEF Tables
    <3>2. a.resolved \in Seq(ResolvedRow) /\ a.began \in Times
      BY DEF TypeOK, Answer
    <3>3. Fits(a)'
      BY <1>1, <3>1, <3>2 DEF AnswerSound
    <3>4. QED
      BY <3>1, <3>3 DEF AnswerSound, Answered
  <2>2. \A s \in snapshots : SnapshotSound(s)'
    BY DEF Tables, SnapshotSound
  <2>3. QED
    BY <2>1, <2>2 DEF Tables, Answered
<1>5. OverlapNeedsRace'
  BY DEF OverlapNeedsRace
<1>6. QED
  BY <1>2, <1>3, <1>4, <1>5 DEF Consistent

-----------------------------------------------------------------------------
LEMMA Initially == Init => IInv
<1> SUFFICES ASSUME Init PROVE IInv
  OBVIOUS
<1>1. /\ now = 0 /\ imports = 0 /\ answers = {} /\ snapshots = {} /\ positions = {}
      /\ theses = [k \in ThesisKeys |-> None] /\ txns = [c \in Clients |-> Idle]
      /\ lists = { [name |-> l, created |-> 0] : l \in { x \in Targets : Covered[x] # {} } }
      /\ members = UNION { { MemberBefore(l, s) : s \in Covered[l] } : l \in Targets }
  BY DEF Init
<1>2. 0 \in Times /\ MaxImports \in Nat
  BY ImportAssumption DEF Times
<1>3. lists \subseteq ListRow
  BY <1>1, <1>2 DEF ListRow
<1>4. members \subseteq MemberRow /\ \A m \in members : m.by = 0
  <2>1. ASSUME NEW l \in Targets, NEW s \in Covered[l]
        PROVE  MemberBefore(l, s) \in MemberRow /\ MemberBefore(l, s).by = 0
    <3>1. s \in Securities /\ None \in Notes
      BY ImportAssumption
    <3>2. QED
      BY <1>2, <3>1 DEF MemberBefore, MemberRow
  <2>2. \A m \in members : \E l \in Targets : \E s \in Covered[l] : m = MemberBefore(l, s)
    BY <1>1
  <2>3. QED
    BY <2>1, <2>2
<1>5. TypeOK
  BY <1>1, <1>2, <1>3, <1>4, IdleTyped DEF TypeOK
<1>6. \A c \in Clients : txns[c] = Idle
  BY <1>1
<1>7. Sound(Idle)
  <2>1. /\ Idle.phase = "idle" /\ Idle.resolved = <<>> /\ Idle.own = NoRows
        /\ Idle.began = 0 /\ now = 0
    BY <1>1 DEF Idle
  <2>2. Resolves(Idle)
    BY <2>1 DEF Resolves, Follows, Coverage
  <2>3. Fits(Idle)
    BY <2>1 DEF Fits
  <2>4. Flushed(Idle) /\ Unraced(Idle)
    BY <2>1 DEF Flushed, Unraced, Coverage, NoRows
  <2>5. SnapshotFound(Idle) /\ MembersFound(Idle)
    BY <2>1 DEF SnapshotFound, MembersFound
  <2>6. QED
    BY <2>1, <2>2, <2>3, <2>4, <2>5 DEF Sound, Settled, Identified
<1>8. Apart(Idle, Idle)
  BY DEF Apart, Idle, NoRows
<1>9. TxnsSound /\ TxnsApart
  BY <1>6, <1>7, <1>8 DEF TxnsSound, TxnsApart
<1>10. Tables /\ OverlapNeedsRace
  BY <1>1, <1>4 DEF Tables, OverlapNeedsRace
<1>11. QED
  BY <1>5, <1>9, <1>10 DEF IInv, Consistent

LEMMA Inductive == IInv /\ [Next]_vars => IInv'
<1> SUFFICES ASSUME IInv, [Next]_vars PROVE IInv'
  OBVIOUS
<1>1. TypeOK'
  BY InvParts, TypePreserved
<1>2. ASSUME \/ \E k \in ThesisKeys : CreateThesis(k) \/ ArchiveThesis(k)
             \/ Tick \/ UNCHANGED vars
      PROVE  Consistent'
  BY <1>2, InvParts, BesideUploads, BesideConsistent
<1>3. ASSUME NEW c \in Clients, Begin(c) PROVE Consistent'
  BY <1>3, BeginConsistent
<1>4. ASSUME NEW c \in Clients, ResolveRow(c) PROVE Consistent'
  BY <1>4, ResolveConsistent
<1>5. ASSUME NEW c \in Clients, LookupSnapshot(c) PROVE Consistent'
  BY <1>5, LookupSnapshotConsistent
<1>6. ASSUME NEW c \in Clients, InsertSnapshot(c) PROVE Consistent'
  BY <1>6, InsertSnapshotConsistent
<1>7. ASSUME NEW c \in Clients, LookupList(c) \/ InsertList(c) PROVE Consistent'
  BY <1>7, ToMembersConsistent
<1>8. ASSUME NEW c \in Clients, CheckMember(c) PROVE Consistent'
  BY <1>8, CheckMemberConsistent
<1>9. ASSUME NEW c \in Clients, InsertMember(c) PROVE Consistent'
  BY <1>9, InsertMemberConsistent
<1>10. ASSUME NEW c \in Clients, BreakDeadlock(c) \/ Abandon(c) PROVE Consistent'
  BY <1>10, IdleConsistent DEF BreakDeadlock, Abandon
<1>11. ASSUME NEW c \in Clients, Commit(c) PROVE Consistent'
  BY <1>11, CommitConsistent
<1>12. Consistent'
  BY <1>2, <1>3, <1>4, <1>5, <1>6, <1>7, <1>8, <1>9, <1>10, <1>11 DEF Next, Step
<1>13. QED
  BY <1>1, <1>12 DEF IInv

LEMMA Invariant == Spec => []IInv
BY Initially, Inductive, PTL DEF Spec

-----------------------------------------------------------------------------
(* One file means one list of rows, whenever it is resolved.               *)
LEMMA SameFileSameRows ==
  ASSUME NEW a \in Answer, NEW b \in Answer, Follows(a), Follows(b), a.file = b.file,
         Len(a.resolved) = Len(a.file.rows), Len(b.resolved) = Len(b.file.rows)
  PROVE  Contents(a) = Contents(b)
<1>1. a.resolved \in Seq(ResolvedRow) /\ b.resolved \in Seq(ResolvedRow)
  BY DEF Answer
<1>2. DOMAIN a.resolved = DOMAIN b.resolved
  BY <1>1
<1>3. ASSUME NEW i \in DOMAIN a.resolved PROVE a.resolved[i] = b.resolved[i]
  <2> DEFINE r == a.resolved[i]
             q == b.resolved[i]
  <2>1. r \in ResolvedRow /\ q \in ResolvedRow
    BY <1>1, <1>2
  <2>2. ResolvedAs(a.file.rows[i], r) /\ ResolvedAs(a.file.rows[i], q)
    BY <1>2 DEF Follows
  <2>3. r.security = q.security
    BY <2>2 DEF ResolvedAs
  <2>4. r.benchmark = q.benchmark /\ r.thesis = q.thesis /\ r.note = q.note
        /\ r.source = q.source
    BY <2>2, <2>3 DEF ResolvedAs
  <2> HIDE DEF r, q
  <2>5. r = q
    BY <2>1, <2>3, <2>4 DEF ResolvedRow
  <2>6. QED
    BY <2>5 DEF r, q
<1>4. QED
  BY <1>2, <1>3 DEF Contents

-----------------------------------------------------------------------------
(* Whatever the interleaving, clocks, theses, tables, transactions and     *)
(* answers keep the form the code gives them.                              *)
THEOREM TypeCorrect == Spec => []TypeOK
<1>1. IInv => TypeOK
  BY DEF IInv
<1>2. QED
  BY <1>1, Invariant, PTL

(* An upload answered with success is stored whole, row by row of its      *)
(* file, and nothing is stored of an upload that was not: the file is one  *)
(* transaction, whoever else writes at the same time.                      *)
THEOREM Atomic == Spec => []ImportAtomic
<1>1. ASSUME IInv PROVE ImportAtomic
  <2> USE <1>1, InvParts
  <2>1. ASSUME NEW a \in answers PROVE Len(a.resolved) = Len(a.file.rows) /\ RowsStored(a)
    <3>1. AnswerSound(a) /\ a \in Answer
      BY DEF Tables, TypeOK
    <3>2. ASSUME a.file.kind = "holdings" PROVE RowsStored(a)
      <4>1. PICK s \in snapshots : s.portfolio = a.target /\ s.asOf = a.asOf /\ s.hash = a.file
        BY <3>1, <3>2 DEF AnswerSound
      <4>2. PICK b \in answers : b.file = s.hash /\ Contents(b) = Held(positions, s.id)
        BY DEF Tables, SnapshotSound
      <4>3. AnswerSound(b) /\ b \in Answer
        BY DEF Tables, TypeOK
      <4>4. Contents(a) = Contents(b)
        BY <3>1, <4>1, <4>2, <4>3, SameFileSameRows DEF AnswerSound
      <4>5. s \in SnapshotsAt(snapshots, a.target, a.asOf)
        BY <4>1 DEF SnapshotsAt
      <4>6. QED
        BY <3>2, <4>2, <4>4, <4>5 DEF RowsStored, Contents, Held
    <3>3. ASSUME a.file.kind # "holdings" PROVE RowsStored(a)
      <4>1. a.file.kind = "coverage"
        <5>1. a.file \in File
          BY <3>1, ImportAssumption DEF Answer, Files, Upload
        <5>2. QED
          BY <3>3, <5>1 DEF File
      <4>2. \A i \in DOMAIN a.resolved : MemberFound(members, a, i)
        BY <3>1, <4>1 DEF AnswerSound
      <4>3. QED
        BY <3>3, <4>2 DEF RowsStored, MemberFound
    <3>4. QED
      BY <3>1, <3>2, <3>3 DEF AnswerSound
  <2>2. \A s \in snapshots : s.id \in Answered
    BY DEF Tables, SnapshotSound, Answered
  <2>3. \A m \in members : m.by \in Answered \cup {0}
    BY DEF Tables
  <2>4. QED
    BY <2>1, <2>2, <2>3 DEF ImportAtomic, Answered
<1>2. QED
  BY <1>1, Invariant, PTL

(* One portfolio has one content at one instant: of two uploads that       *)
(* differ the unique key of the snapshot and the comparison of the hashes  *)
(* leave one to be answered with success.                                  *)
THEOREM OneContent == Spec => []OneContentPerSnapshot
<1>1. ASSUME IInv PROVE OneContentPerSnapshot
  <2>1. SUFFICES ASSUME NEW a \in answers, NEW b \in answers,
                        a.file.kind = "holdings", b.file.kind = "holdings",
                        a.target = b.target, a.asOf = b.asOf
                 PROVE  a.file = b.file
    BY DEF OneContentPerSnapshot
  <2>2. Tables
    BY <1>1, InvParts
  <2>3. PICK s \in snapshots : s.portfolio = a.target /\ s.asOf = a.asOf /\ s.hash = a.file
    BY <2>1, <2>2 DEF Tables, AnswerSound
  <2>4. PICK r \in snapshots : r.portfolio = b.target /\ r.asOf = b.asOf /\ r.hash = b.file
    BY <2>1, <2>2 DEF Tables, AnswerSound
  <2>5. s = r
    BY <2>1, <2>2, <2>3, <2>4 DEF Tables, SameInstant
  <2>6. QED
    BY <2>3, <2>4, <2>5
<1>2. QED
  BY <1>1, Invariant, PTL

(* Two open-ended memberships of one security in one list need two uploads *)
(* that ran at the same time: the search for overlaps finds the member of  *)
(* every upload that was answered before.                                  *)
THEOREM OverlapRace == Spec => []OverlapNeedsRace
<1>1. IInv => OverlapNeedsRace
  BY DEF IInv, Consistent
<1>2. QED
  BY <1>1, Invariant, PTL

(* A stored row names a thesis about its own security that existed at the  *)
(* cutoff and was not archived by then, but for an archive that came after *)
(* the upload began.                                                       *)
THEOREM KnownThesis == Spec => []ThesisKnownAtCutoff
<1>1. ASSUME IInv PROVE ThesisKnownAtCutoff
  <2>1. \A a \in answers : Fits(a)
    BY <1>1, InvParts DEF Tables, AnswerSound
  <2>2. QED
    BY <2>1 DEF ThesisKnownAtCutoff, Fits, ThesisFits
<1>2. QED
  BY <1>1, Invariant, PTL
=============================================================================
