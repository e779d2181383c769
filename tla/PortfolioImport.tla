---------------------------- MODULE PortfolioImport ----------------------------
(***************************************************************************)
(* Uploads of holdings and of coverage lists, the theses that change       *)
(* beside them, and the close workflow that reads what they stored.        *)
(*                                                                         *)
(* An upload is parsed without touching the database, then resolved row by *)
(* row, then written, in one transaction.  The statements of transactions  *)
(* interleave as on PostgreSQL (READ COMMITTED): each reads what has been  *)
(* committed and its own rows, and an insert whose unique key another open *)
(* transaction holds waits for it.  Identifiers, benchmark mappings and    *)
(* the benchmark configuration are fixed; SecurityMaster lets them change. *)
(***************************************************************************)
EXTENDS Integers, Sequences, FiniteSets

CONSTANTS
    None,
    Clients,           \* concurrent requests
    Securities,
    References,        \* what a row may name: identifier, scheme, provider, MIC
    Identifiers,
    IdentifierOf,      \* the identifier in a reference, which is all a row keeps of it
    Means,             \* the securities a reference resolves to
    SectorBenchmark,   \* the reference configured for the sector of a security
    DefaultBenchmark,  \* the configured default reference, or None
    MarketMapping,     \* the stored market benchmark of a security, or None
    ThesisKeys,
    ThesisOwner,       \* the security a key's thesis is about
    Notes,             \* weights of holdings, peer groups of coverage
    Targets,           \* names of portfolios and coverage lists
    Uploads,           \* the uploads that may be sent, each an Upload
    Covered,           \* the securities each list covers at first, {} for no such list
    MaxTime,           \* bound: instants are 0..MaxTime
    MaxImports         \* bound: uploads that get past the parser

Times == 0..MaxTime

RawRow == [ref : References, wellFormed : BOOLEAN, thesis : ThesisKeys \cup {None},
           benchmark : References \cup {None}, note : Notes]

File == [kind : {"holdings", "coverage"}, columns : BOOLEAN, rows : Seq(RawRow)]

Upload == [file : File, target : Targets]

Files == { u.file : u \in Uploads }

ASSUME ImportAssumption ==
    /\ MaxTime \in Nat /\ MaxImports \in Nat
    /\ None \notin Times \cup Securities \cup References \cup ThesisKeys \cup Targets
    /\ IdentifierOf \in [References -> Identifiers]
    /\ Means \in [References -> SUBSET Securities]
    /\ \A r \in References : IsFiniteSet(Means[r])
    /\ SectorBenchmark \in [Securities -> References \cup {None}]
    /\ DefaultBenchmark \in References \cup {None}
    /\ MarketMapping \in [Securities -> Securities \cup {None}]
    /\ ThesisOwner \in [ThesisKeys -> Securities]
    /\ Uploads \subseteq Upload
    /\ Covered \in [Targets -> SUBSET Securities]
    /\ None \in Notes

VARIABLES
    now,        \* the clock
    theses,     \* thesis rows by key, None where there is none
    snapshots,  \* committed portfolio_snapshot rows
    positions,  \* committed portfolio_position rows
    lists,      \* committed coverage_list rows
    members,    \* committed coverage_member rows
    txns,       \* the upload each client has in progress
    imports,    \* history: number of uploads accepted by the parser
    answers     \* history: uploads that were answered with success

stored == <<snapshots, positions, lists, members>>
vars == <<now, theses, stored, txns, imports, answers>>

Import == 1..MaxImports

ThesisRow == [created : Times, archived : Times \cup {None}]

\* None is a value of its own.
ASSUME NoneAssumption == None \notin ThesisRow

SnapshotRow == [id : Import, portfolio : Targets, asOf : Times, created : Times, hash : Files]

PositionRow == [snapshot : Import, security : Securities, thesis : ThesisKeys \cup {None},
                benchmark : Securities \cup {None}, note : Notes, source : Identifiers]

ListRow == [name : Targets, created : Times]

\* An upload leaves removed_at open; by is history: the upload that wrote the row.
MemberRow == [list : Targets, security : Securities, added : Times,
              thesis : ThesisKeys \cup {None}, benchmark : Securities \cup {None},
              note : Notes, source : Identifiers \cup {None}, by : Import \cup {0}]

ResolvedRow == [security : Securities, thesis : ThesisKeys \cup {None},
                benchmark : Securities \cup {None}, note : Notes, source : Identifiers]

-----------------------------------------------------------------------------
(* The parser.                                                             *)

Duplicate(rows, i) ==
    \E j \in 1..(i - 1) : rows[j].wellFormed /\ rows[j].ref = rows[i].ref

(* An upload is valid if its required columns are there, every row parses, *)
(* no reference occurs twice and some row is left.  A column nobody uses   *)
(* is a warning and changes nothing.                                       *)
ParsesCleanly(file) ==
    /\ file.columns
    /\ file.rows # <<>>
    /\ \A i \in DOMAIN file.rows : file.rows[i].wellFormed /\ ~Duplicate(file.rows, i)

-----------------------------------------------------------------------------
(* Resolution of one row at the instant of the upload.                     *)

\* Defect: an archived thesis may be named.
ThesisAccepted_Archived(key, security, at) ==
    \/ key = None
    \/ /\ theses[key] # None
       /\ ThesisOwner[key] = security
       /\ theses[key].created <= at

\* _validate_thesis_reference
ThesisAccepted(key, security, at) ==
    \/ key = None
    \/ /\ theses[key] # None
       /\ ThesisOwner[key] = security
       /\ theses[key].created <= at
       /\ theses[key].archived = None \/ theses[key].archived > at

Given(reference, fallback) == IF reference = None THEN fallback ELSE reference

\* The row's own benchmark, else that of the sector, else the default.
BenchmarkReference(row, security) ==
    Given(row.benchmark, Given(SectorBenchmark[security], DefaultBenchmark))

\* _resolve_benchmark: the values it may return; it refuses unless there is one.
BenchmarkCandidates(row, security) ==
    LET reference == BenchmarkReference(row, security)
    IN  IF reference = None THEN {MarketMapping[security]} ELSE Means[reference]

SourceOf(row) == IdentifierOf[row.ref]

\* The resolved row as a set: empty if the row is reported as an issue.
Resolution(row, at) ==
    { [security |-> s, thesis |-> row.thesis, benchmark |-> b, note |-> row.note,
       source |-> SourceOf(row)] :
         s \in { x \in Means[row.ref] : /\ Cardinality(Means[row.ref]) = 1
                                        /\ ThesisAccepted(row.thesis, x, at)
                                        /\ Cardinality(BenchmarkCandidates(row, x)) = 1 },
         b \in UNION { BenchmarkCandidates(row, x) : x \in Means[row.ref] } }

-----------------------------------------------------------------------------
Phases == {"idle", "resolving", "resolved", "absent", "naming", "members", "adding", "written"}

NoRows == [snapshots |-> {}, positions |-> {}, lists |-> {}, members |-> {}]

Rows == [snapshots : SUBSET SnapshotRow, positions : SUBSET PositionRow,
         lists : SUBSET ListRow, members : SUBSET MemberRow]

(* row is the row in hand, resolved the rows resolved so far, issues tells *)
(* whether one could not be.  The rows in own are flushed and not          *)
(* committed.  base and began are history: the uploads committed when this *)
(* one began, and the instant it did.                                      *)
Idle == [phase |-> "idle", id |-> 0, file |-> None, target |-> None, asOf |-> 0, row |-> 1,
         resolved |-> <<>>, issues |-> FALSE, own |-> NoRows, base |-> {}, began |-> 0]

Txn == [phase : Phases, id : Import \cup {0}, file : Files \cup {None},
        target : Targets \cup {None}, asOf : Times, row : Nat \ {0},
        resolved : Seq(ResolvedRow), issues : BOOLEAN, own : Rows,
        base : SUBSET Import, began : Times]

Answer == [id : Import, file : Files, target : Targets, asOf : Times,
           resolved : Seq(ResolvedRow), base : SUBSET Import, began : Times]

TypeOK ==
    /\ now \in Times
    /\ theses \in [ThesisKeys -> ThesisRow \cup {None}]
    /\ snapshots \subseteq SnapshotRow /\ positions \subseteq PositionRow
    /\ lists \subseteq ListRow /\ members \subseteq MemberRow
    /\ txns \in [Clients -> Txn]
    /\ imports \in 0..MaxImports
    /\ answers \subseteq Answer

\* A member that was there before, with nothing but its security.
MemberBefore(l, s) == [list |-> l, security |-> s, added |-> 0, thesis |-> None,
                       benchmark |-> None, note |-> None, source |-> None, by |-> 0]

Init ==
    /\ now = 0
    /\ theses = [k \in ThesisKeys |-> None]
    /\ snapshots = {} /\ positions = {}
    /\ lists = { [name |-> l, created |-> 0] : l \in { x \in Targets : Covered[x] # {} } }
    /\ members = UNION { { MemberBefore(l, s) : s \in Covered[l] } : l \in Targets }
    /\ txns = [c \in Clients |-> Idle]
    /\ imports = 0 /\ answers = {}

Others(c) == Clients \ {c}

Goto(c, phase) == txns' = [txns EXCEPT ![c].phase = phase]

Rollback(c) == txns' = [txns EXCEPT ![c] = Idle]

-----------------------------------------------------------------------------
(* Theses change in transactions of their own; ThesisStore models them.    *)

CreateThesis(k) ==
    /\ theses[k] = None
    /\ theses' = [theses EXCEPT ![k] = [created |-> now, archived |-> None]]
    /\ UNCHANGED <<now, stored, txns, imports, answers>>

ArchiveThesis(k) ==
    /\ theses[k] # None /\ theses[k].archived = None
    /\ theses' = [theses EXCEPT ![k].archived = now]
    /\ UNCHANGED <<now, stored, txns, imports, answers>>

Tick ==
    /\ now < MaxTime /\ now' = now + 1
    /\ UNCHANGED <<theses, stored, txns, imports, answers>>

-----------------------------------------------------------------------------
(* An upload that parses; one that does not is answered at once.  The      *)
(* caller chooses the instant, which may be past or yet to come.           *)
Begin(c) ==
    /\ txns[c].phase = "idle" /\ imports < MaxImports
    /\ \E u \in Uploads, at \in Times :
         /\ ParsesCleanly(u.file)
         /\ txns' = [txns EXCEPT ![c] =
              [Idle EXCEPT !.phase = "resolving", !.id = imports + 1, !.file = u.file,
                           !.target = u.target, !.asOf = at, !.base = { a.id : a \in answers },
                           !.began = now]]
    /\ imports' = imports + 1
    /\ UNCHANGED <<now, theses, stored, answers>>

LastRow(t) == t.row = Len(t.file.rows)

(* After the last row any issue refuses the upload, and so does the clock  *)
(* where it has not reached the instant of a snapshot.                     *)
ResolveRow(c) ==
    LET t == txns[c]
        resolution == Resolution(t.file.rows[t.row], t.asOf)
        issues == t.issues \/ resolution = {}
    IN  /\ t.phase = "resolving"
        /\ IF LastRow(t) /\ (issues \/ (t.file.kind = "holdings" /\ now < t.asOf))
           THEN Rollback(c)
           ELSE txns' = [txns EXCEPT ![c].row = IF LastRow(t) THEN 1 ELSE @ + 1,
                           ![c].phase = IF LastRow(t) THEN "resolved" ELSE @,
                           ![c].issues = issues,
                           ![c].resolved = IF resolution = {} THEN @
                                           ELSE Append(@, CHOOSE r \in resolution : TRUE)]
        /\ UNCHANGED <<now, theses, stored, imports, answers>>

-----------------------------------------------------------------------------
(* Holdings: add_portfolio_snapshot.                                       *)

SnapshotsAt(rows, portfolio, at) == { s \in rows : s.portfolio = portfolio /\ s.asOf = at }

LookupSnapshot(c) ==
    LET t == txns[c]
        existing == SnapshotsAt(snapshots, t.target, t.asOf)
    IN  /\ t.phase = "resolved" /\ t.file.kind = "holdings"
        /\ CASE existing = {} -> Goto(c, "absent")
             [] \E s \in existing : s.hash = t.file -> Goto(c, "written")
             [] OTHER -> Rollback(c)
        /\ UNCHANGED <<now, theses, stored, imports, answers>>

SnapshotOf(t) == [id |-> t.id, portfolio |-> t.target, asOf |-> t.asOf,
                  created |-> now, hash |-> t.file]

PositionsOf(t) == { [snapshot |-> t.id, security |-> r.security, thesis |-> r.thesis,
                     benchmark |-> r.benchmark, note |-> r.note, source |-> r.source] :
                    r \in { t.resolved[i] : i \in DOMAIN t.resolved } }

\* Two references of one file may mean one security.
OnePerSecurity(t) ==
    \A i, j \in DOMAIN t.resolved : i # j => t.resolved[i].security # t.resolved[j].security

\* Defect: the key of a snapshot is not unique.
InsertSnapshot_NoConstraint(c) ==
    LET t == txns[c]
    IN  /\ t.phase = "absent"
        /\ IF ~OnePerSecurity(t)
           THEN Rollback(c)
           ELSE txns' = [txns EXCEPT ![c].phase = "written",
                           ![c].own.snapshots = {SnapshotOf(t)},
                           ![c].own.positions = PositionsOf(t)]
        /\ UNCHANGED <<now, theses, stored, imports, answers>>

InsertSnapshot(c) ==
    LET t == txns[c]
    IN  /\ t.phase = "absent"
        /\ \A d \in Others(c) : SnapshotsAt(txns[d].own.snapshots, t.target, t.asOf) = {}
        /\ IF SnapshotsAt(snapshots, t.target, t.asOf) # {} \/ ~OnePerSecurity(t)
           THEN Rollback(c)
           ELSE txns' = [txns EXCEPT ![c].phase = "written",
                           ![c].own.snapshots = {SnapshotOf(t)},
                           ![c].own.positions = PositionsOf(t)]
        /\ UNCHANGED <<now, theses, stored, imports, answers>>

-----------------------------------------------------------------------------
(* Coverage: add_coverage_list, then add_coverage_members row by row.      *)

LookupList(c) ==
    LET t == txns[c]
    IN  /\ t.phase = "resolved" /\ t.file.kind = "coverage"
        /\ Goto(c, IF \E l \in lists : l.name = t.target THEN "members" ELSE "naming")
        /\ UNCHANGED <<now, theses, stored, imports, answers>>

InsertList(c) ==
    LET t == txns[c]
    IN  /\ t.phase = "naming"
        /\ \A d \in Others(c) : \A l \in txns[d].own.lists : l.name # t.target
        /\ IF \E l \in lists : l.name = t.target
           THEN Rollback(c)
           ELSE txns' = [txns EXCEPT ![c].phase = "members",
                           ![c].own.lists = {[name |-> t.target, created |-> now]}]
        /\ UNCHANGED <<now, theses, stored, imports, answers>>

MemberOf(t, i) == [list |-> t.target, security |-> t.resolved[i].security, added |-> t.asOf,
                   thesis |-> t.resolved[i].thesis, benchmark |-> t.resolved[i].benchmark,
                   note |-> t.resolved[i].note, source |-> t.resolved[i].source, by |-> t.id]

\* On to the next member, or to the commit after the last.
NextMember(t) == [t EXCEPT !.row = @ + 1,
                           !.phase = IF t.row = Len(t.resolved) THEN "written" ELSE "members"]

SameContext(m, n) == /\ m.thesis = n.thesis /\ m.benchmark = n.benchmark
                     /\ m.note = n.note /\ m.source = n.source

\* Defect: only a member that begins at the same instant is looked for.
Overlapping_SameInstant(rows, m) ==
    { n \in rows : n.list = m.list /\ n.security = m.security /\ n.added = m.added }

(* The stored members a new one overlaps, both open-ended; the newest of   *)
(* them decides.                                                           *)
Overlapping(rows, m) == { n \in rows : n.list = m.list /\ n.security = m.security }

Newest(rows) == { n \in rows : \A o \in rows : o.added <= n.added }

CheckMember(c) ==
    LET t == txns[c]
    IN  /\ t.phase = "members"
        /\ LET m == MemberOf(t, t.row)
               newest == Newest(Overlapping(members \cup t.own.members, m))
           IN  \/ /\ newest = {} /\ Goto(c, "adding")
               \/ \E n \in newest :
                    /\ SameContext(n, m) /\ n.added <= m.added
                    /\ txns' = [txns EXCEPT ![c] = NextMember(t)]
               \/ \E n \in newest :
                    /\ ~(SameContext(n, m) /\ n.added <= m.added)
                    /\ Rollback(c)
        /\ UNCHANGED <<now, theses, stored, imports, answers>>

SameKey(m, n) == m.list = n.list /\ m.security = n.security /\ m.added = n.added

\* The open transactions that hold the unique key c is about to insert.
Holders(c) ==
    LET t == txns[c]
    IN  IF t.phase # "adding" THEN {}
        ELSE { d \in Others(c) : \E n \in txns[d].own.members : SameKey(n, MemberOf(t, t.row)) }

InsertMember(c) ==
    LET t == txns[c]
    IN  /\ t.phase = "adding" /\ Holders(c) = {}
        /\ LET m == MemberOf(t, t.row)
           IN  IF \E n \in members \cup t.own.members : SameKey(n, m)
               THEN Rollback(c)
               ELSE txns' = [txns EXCEPT ![c] =
                          NextMember([t EXCEPT !.own.members = @ \cup {m}])]
        /\ UNCHANGED <<now, theses, stored, imports, answers>>

\* Defect: nothing ends a wait of two uploads for each other.
BreakDeadlock_Never(c) == FALSE /\ UNCHANGED vars

\* Two uploads that wait for each other's members: PostgreSQL refuses one.
BreakDeadlock(c) ==
    /\ \E d \in Holders(c) : c \in Holders(d)
    /\ Rollback(c)
    /\ UNCHANGED <<now, theses, stored, imports, answers>>

-----------------------------------------------------------------------------
\* Defect: the session commits what it holds when the handler raises.
Abandon_Commits(c) ==
    LET t == txns[c]
    IN  /\ t.phase # "idle"
        /\ snapshots' = snapshots \cup t.own.snapshots
        /\ positions' = positions \cup t.own.positions
        /\ lists' = lists \cup t.own.lists
        /\ members' = members \cup t.own.members
        /\ Rollback(c)
        /\ UNCHANGED <<now, theses, imports, answers>>

\* The process, the connection or the client goes away before the commit.
Abandon(c) ==
    /\ txns[c].phase # "idle"
    /\ Rollback(c)
    /\ UNCHANGED <<now, theses, stored, imports, answers>>

Commit(c) ==
    LET t == txns[c]
    IN  /\ t.phase = "written"
        /\ snapshots' = snapshots \cup t.own.snapshots
        /\ positions' = positions \cup t.own.positions
        /\ lists' = lists \cup t.own.lists
        /\ members' = members \cup t.own.members
        /\ answers' = answers \cup
             {[id |-> t.id, file |-> t.file, target |-> t.target, asOf |-> t.asOf,
               resolved |-> t.resolved, base |-> t.base, began |-> t.began]}
        /\ txns' = [txns EXCEPT ![c] = Idle]
        /\ UNCHANGED <<now, theses, imports>>

-----------------------------------------------------------------------------
(* The close workflow takes its weights from the newest snapshot at or     *)
(* before the instant it runs for, whosever portfolio it is and whenever   *)
(* it was uploaded; the database may return any of several.                *)
LatestSnapshots(at) ==
    { s \in snapshots : s.asOf <= at /\ \A r \in snapshots : r.asOf <= at => r.asOf <= s.asOf }

\* What a close run for an instant may take for the weights.
CloseWeights(at) ==
    IF LatestSnapshots(at) = {} THEN {{}}
    ELSE { { p \in positions : p.snapshot = s.id } : s \in LatestSnapshots(at) }

Step(c) ==
    \/ ResolveRow(c)
    \/ LookupSnapshot(c) \/ InsertSnapshot(c)
    \/ LookupList(c) \/ InsertList(c) \/ CheckMember(c) \/ InsertMember(c)
    \/ BreakDeadlock(c) \/ Commit(c)

Next ==
    \/ \E k \in ThesisKeys : CreateThesis(k) \/ ArchiveThesis(k)
    \/ Tick
    \/ \E c \in Clients : Begin(c) \/ Step(c) \/ Abandon(c)

\* A request that can go on does: the server runs its handler to the end.
Fairness == \A c \in Clients : WF_vars(Step(c))

Spec == Init /\ [][Next]_vars /\ Fairness

-----------------------------------------------------------------------------
RowsStored(a) ==
    LET contents == { a.resolved[i] : i \in DOMAIN a.resolved }
    IN  IF a.file.kind = "holdings"
        THEN \E s \in SnapshotsAt(snapshots, a.target, a.asOf) :
               contents = { [security |-> p.security, thesis |-> p.thesis,
                             benchmark |-> p.benchmark, note |-> p.note, source |-> p.source] :
                            p \in { q \in positions : q.snapshot = s.id } }
        ELSE \A r \in contents :
               \E m \in members : /\ m.list = a.target /\ m.security = r.security
                                  /\ m.added <= a.asOf /\ SameContext(m, r)

(* An import is atomic: an upload answered with success has resolved every *)
(* row of its file and stored it, or found it stored; and whatever is      *)
(* stored belongs to an upload that was answered.                          *)
ImportAtomic ==
    /\ \A a \in answers : Len(a.resolved) = Len(a.file.rows) /\ RowsStored(a)
    /\ { s.id : s \in snapshots } \cup { m.by : m \in members } 
         \subseteq { a.id : a \in answers } \cup {0}

(* No two uploads of different content are both answered with success for  *)
(* one portfolio at one instant, however their statements interleave.      *)
OneContentPerSnapshot ==
    \A a, b \in answers :
      (a.file.kind = "holdings" /\ b.file.kind = "holdings" /\ a.target = b.target
         /\ a.asOf = b.asOf) => a.file = b.file

(* A security is covered twice by one list only if the two uploads that    *)
(* say so ran at the same time: neither had been answered when the other   *)
(* began.                                                                  *)
OverlapNeedsRace ==
    \A a, b \in answers : \A m, n \in members :
      (m.by = a.id /\ n.by = b.id /\ m # n /\ m.list = n.list /\ m.security = n.security)
        => a.id \notin b.base /\ b.id \notin a.base

(* A stored row names a thesis about its own security that was known at    *)
(* the instant of the upload, and that was not archived by then - unless   *)
(* it was archived after the upload began, beside it, at an instant the    *)
(* upload had dated itself ahead to.                                       *)
ThesisKnownAtCutoff ==
    \A a \in answers : \A i \in DOMAIN a.resolved :
      LET r == a.resolved[i]
      IN  r.thesis # None =>
            /\ theses[r.thesis] # None
            /\ ThesisOwner[r.thesis] = r.security
            /\ theses[r.thesis].created <= a.asOf
            /\ theses[r.thesis].archived # None =>
                 theses[r.thesis].archived > a.asOf \/ theses[r.thesis].archived >= a.began

(* Every upload comes to an answer, although uploads wait for the unique   *)
(* keys of one another, in either order: MaxImports bounds the uploads, so *)
(* none is left in progress for ever if time and again there is none.      *)
ImportsEnd == []<>(\A c \in Clients : txns[c].phase = "idle")

(* A close run again for an instant reads the weights it read before:      *)
(* "Rerunning the same as-of snapshot is idempotent. Adding records with   *)
(* available_at > as_of cannot change an earlier result."                  *)
CloseRepeats == [][\A at \in 0..(now - 1) : CloseWeights(at)' = CloseWeights(at)]_vars
=============================================================================
