---------------------------- MODULE SecurityMaster ----------------------------
(***************************************************************************)
(* The security master: registration of securities under identifiers that  *)
(* are valid for an interval of time, benchmark mappings configured for an *)
(* interval, and the resolution of a reference at an instant.              *)
(*                                                                         *)
(* A request is a universe upload, or a registration, which is an upload   *)
(* without benchmarks.  In one transaction it goes through its rows twice: *)
(* first every security and its identifier, then every benchmark.  It      *)
(* looks at the rows it can see (Check), then inserts (Insert), and        *)
(* another request may commit between the two: the statements interleave   *)
(* as on PostgreSQL (READ COMMITTED).  SQLite's write lock, which a        *)
(* request takes with its first security, allows a subset of this.         *)
(***************************************************************************)
EXTENDS Integers, Sequences

CONSTANTS
    None,
    Clients,     \* concurrent requests
    Securities,  \* canonical ids
    Names,       \* identifier values
    Spaces,      \* what else an identifier is scoped by: scheme, provider, MIC
    Matches,     \* the spaces a reference with the fields of one space matches:
                 \* a field left blank matches anything
    Uploads,     \* the uploads that may be sent, sequences of UploadRow
    MaxTime      \* bound: instants are 0..MaxTime

Times == 0..MaxTime

\* Half-open intervals; to is None for an open end.
Interval == { i \in [from : Times, to : Times \cup {None}] : i.to # None => i.to > i.from }

UploadRow == [security : Securities, name : Names, space : Spaces,
              valid : Interval, benchmark : Names \cup {None}]

IdentifierRow == [security : Securities, name : Names, space : Spaces, valid : Interval]

MappingRow == [security : Securities, benchmark : Securities, valid : Interval]

ASSUME MasterAssumption ==
    /\ MaxTime \in Nat
    /\ None \notin Times \cup Names \cup MappingRow
    /\ Matches \in [Spaces -> SUBSET Spaces]
    /\ \A p \in Spaces : p \in Matches[p]
    /\ Uploads \subseteq Seq(UploadRow)

VARIABLES
    securities,   \* committed security ids
    identifiers,  \* committed security_identifier rows
    mappings,     \* committed benchmark_mapping rows, of the kind MARKET
    txns          \* the request each client has in progress

vars == <<securities, identifiers, mappings, txns>>

-----------------------------------------------------------------------------
Rows == [identifiers : SUBSET IdentifierRow, mappings : SUBSET MappingRow]

NoRows == [identifiers |-> {}, mappings |-> {}]

Kinds == {"security", "identifier", "benchmark"}

Phases == {"idle", "reading", "resolved", "checked", "refused"}

(* step is the task at hand: what of which row of the upload.  draft is    *)
(* the mapping whose references have been resolved.  The rows in own are   *)
(* flushed and not committed.  base is history: the rows that were         *)
(* committed when the request began.                                       *)
Txn == [phase : Phases, upload : Seq(UploadRow), step : [kind : Kinds, row : Nat \ {0}],
        draft : MappingRow \cup {None}, registered : SUBSET Securities,
        own : Rows, base : Rows]

Idle == [phase |-> "idle", upload |-> <<>>, step |-> [kind |-> "security", row |-> 1],
         draft |-> None, registered |-> {}, own |-> NoRows, base |-> NoRows]

Init ==
    /\ securities = {} /\ identifiers = {} /\ mappings = {}
    /\ txns = [c \in Clients |-> Idle]

-----------------------------------------------------------------------------
\* Defect: an interval without an end overlaps nothing.
Overlap_ClosedOnly(a, b) ==
    /\ a.to # None /\ a.to > b.from
    /\ b.to # None => a.from < b.to

\* The overlap query: stored interval a, new interval b.
Overlap(a, b) ==
    /\ a.to = None \/ a.to > b.from
    /\ b.to = None \/ a.from < b.to

Covers(interval, t) == interval.from <= t /\ (interval.to = None \/ t < interval.to)

SameIdentifier(a, b) == a.name = b.name /\ a.space = b.space

SameIdentifierVintage(a, b) == SameIdentifier(a, b) /\ a.valid.from = b.valid.from

SameMappingVintage(a, b) == a.security = b.security /\ a.valid.from = b.valid.from

\* Defect: any identifier the security ever had counts.
Candidates_AtAnyTime(rows, name, spaces, t) ==
    { x.security : x \in { y \in rows : y.name = name /\ y.space \in spaces } }

(* resolve: the securities a reference may mean at an instant.  None is    *)
(* IdentifierNotFoundError, several are AmbiguousIdentifierError.          *)
Candidates(rows, name, spaces, t) ==
    { x.security : x \in { y \in rows : /\ y.name = name /\ y.space \in spaces
                                        /\ Covers(y.valid, t) } }

\* benchmark_as_of: the mapping in force that began last.
BenchmarkAsOf(rows, s, t) ==
    { m \in rows : /\ m.security = s /\ Covers(m.valid, t)
                   /\ \A n \in rows : n.security = s /\ Covers(n.valid, t)
                         => n.valid.from <= m.valid.from }

-----------------------------------------------------------------------------
IdentifierOf(row) ==
    [security |-> row.security, name |-> row.name, space |-> row.space, valid |-> row.valid]

\* Defect: each row is finished before the next is registered.
After_RowByRow(step, n) ==
    CASE step.kind = "security"   -> [step EXCEPT !.kind = "identifier"]
      [] step.kind = "identifier" -> [step EXCEPT !.kind = "benchmark"]
      [] step.kind = "benchmark"  -> IF step.row < n
                                     THEN [kind |-> "security", row |-> step.row + 1]
                                     ELSE [step EXCEPT !.row = n + 1]

(* register_security for every row of n, then configure_benchmark for      *)
(* every row.  Beyond the last benchmark the request is complete.          *)
After(step, n) ==
    CASE step.kind = "security"   -> [step EXCEPT !.kind = "identifier"]
      [] step.kind = "identifier" -> IF step.row < n
                                     THEN [kind |-> "security", row |-> step.row + 1]
                                     ELSE [kind |-> "benchmark", row |-> 1]
      [] step.kind = "benchmark"  -> [step EXCEPT !.row = step.row + 1]

Begin(c) ==
    /\ txns[c].phase = "idle"
    /\ \E upload \in Uploads :
          txns' = [txns EXCEPT ![c] =
                     [Idle EXCEPT !.phase = "reading", !.upload = upload,
                        !.base = [identifiers |-> identifiers, mappings |-> mappings]]]
    /\ UNCHANGED <<securities, identifiers, mappings>>

Complete(c) == txns[c].step.row > Len(txns[c].upload)

Doing(c, phase, kind) ==
    /\ txns[c].phase = phase
    /\ txns[c].step.kind = kind /\ ~ Complete(c)

Row(c) == txns[c].upload[txns[c].step.row]

\* What c reads: the committed rows and its own.
VisibleIdentifiers(c) == identifiers \cup txns[c].own.identifiers
VisibleMappings(c) == mappings \cup txns[c].own.mappings

\* The task is done and has left the request with its own rows.
Finish(c, own) ==
    /\ txns' = [txns EXCEPT ![c].phase = "reading", ![c].draft = None, ![c].own = own,
                            ![c].step = After(@, Len(txns[c].upload))]
    /\ UNCHANGED <<securities, identifiers, mappings>>

\* An exception leaves the service, the caller rolls back.
Refuse(c) ==
    /\ txns' = [txns EXCEPT ![c] = [Idle EXCEPT !.phase = "refused"]]
    /\ UNCHANGED <<securities, identifiers, mappings>>

-----------------------------------------------------------------------------
\* add_security: insert, or update what is not the id.  The insert waits for
\* the same id of an open transaction.
RegisterSecurity(c) ==
    LET id == Row(c).security
    IN  /\ Doing(c, "reading", "security")
        /\ \A d \in Clients \ {c} : id \notin txns[d].registered \ securities
        /\ txns' = [txns EXCEPT ![c].registered = @ \cup {id},
                                ![c].step = After(@, Len(txns[c].upload))]
        /\ UNCHANGED <<securities, identifiers, mappings>>

\* add_identifier, its lookups: a stored vintage of the same security is kept
\* as it is, one of another security and an overlap are refused.
CheckIdentifier(c) ==
    LET new  == IdentifierOf(Row(c))
        same == { x \in VisibleIdentifiers(c) : SameIdentifierVintage(x, new) }
        overlapping == { x \in VisibleIdentifiers(c) :
                            SameIdentifier(x, new) /\ Overlap(x.valid, new.valid) }
    IN  /\ Doing(c, "reading", "identifier")
        /\ \/ /\ \E x \in same : x.security # new.security
              /\ Refuse(c)
           \/ /\ same # {} /\ \A x \in same : x.security = new.security
              /\ Finish(c, txns[c].own)
           \/ /\ same = {} /\ overlapping # {}
              /\ Refuse(c)
           \/ /\ same = {} /\ overlapping = {}
              /\ txns' = [txns EXCEPT ![c].phase = "checked"]
              /\ UNCHANGED <<securities, identifiers, mappings>>

\* uq_security_identifier_natural
IdentifierTaken(c) ==
    \E x \in VisibleIdentifiers(c) : SameIdentifierVintage(x, IdentifierOf(Row(c)))

\* An insert waits for the same key of an open transaction.
InsertIdentifier(c) ==
    /\ Doing(c, "checked", "identifier")
    /\ \A d \in Clients \ {c} : \A x \in txns[d].own.identifiers :
          ~ SameIdentifierVintage(x, IdentifierOf(Row(c)))
    /\ IF IdentifierTaken(c) THEN Refuse(c)
       ELSE Finish(c, [txns[c].own EXCEPT !.identifiers = @ \cup {IdentifierOf(Row(c))}])

-----------------------------------------------------------------------------
\* configure_benchmark, for a row that names a benchmark: a reference that means none or
\* several is an issue of the row, a security that is its own benchmark is a
\* ValidationError, which import_security_universe does not catch.
ResolveBenchmark(c) ==
    LET row      == Row(c)
        subjects == Candidates(VisibleIdentifiers(c), row.name, Matches[row.space],
                               row.valid.from)
        targets  == Candidates(VisibleIdentifiers(c), row.benchmark, Spaces, row.valid.from)
    IN  /\ Doing(c, "reading", "benchmark")
        /\ \/ /\ row.benchmark = None \/ ~ \E s, b \in Securities :
                                              subjects = {s} /\ targets = {b}
              /\ Finish(c, txns[c].own)
           \/ /\ row.benchmark # None
              /\ \E s \in Securities : subjects = {s} /\ targets = {s}
              /\ Refuse(c)
           \/ /\ row.benchmark # None
              /\ \E s, b \in Securities :
                    /\ subjects = {s} /\ targets = {b} /\ s # b
                    /\ txns' = [txns EXCEPT ![c].phase = "resolved",
                          ![c].draft = [security |-> s, benchmark |-> b, valid |-> row.valid]]
              /\ UNCHANGED <<securities, identifiers, mappings>>

\* add_benchmark_mapping, its lookups.  A stored mapping is kept; a conflict
\* or an overlap is an issue of the row and does not stop the import.
CheckBenchmark(c) ==
    LET new    == txns[c].draft
        rivals == { x \in VisibleMappings(c) :
                       /\ x.security = new.security
                       /\ SameMappingVintage(x, new) \/ Overlap(x.valid, new.valid) }
    IN  /\ Doing(c, "resolved", "benchmark")
        /\ \/ /\ rivals # {}
              /\ Finish(c, txns[c].own)
           \/ /\ rivals = {}
              /\ txns' = [txns EXCEPT ![c].phase = "checked"]
              /\ UNCHANGED <<securities, identifiers, mappings>>

\* uq_benchmark_mapping_natural: IntegrityError is not caught either.
InsertBenchmark(c) ==
    /\ Doing(c, "checked", "benchmark")
    /\ \A d \in Clients \ {c} : \A x \in txns[d].own.mappings :
          ~ SameMappingVintage(x, txns[c].draft)
    /\ IF \E x \in VisibleMappings(c) : SameMappingVintage(x, txns[c].draft)
       THEN Refuse(c)
       ELSE Finish(c, [txns[c].own EXCEPT !.mappings = @ \cup {txns[c].draft}])

-----------------------------------------------------------------------------
\* The caller accepts the result, whatever its issues, and commits.
Commit(c) ==
    /\ txns[c].phase = "reading" /\ Complete(c)
    /\ securities' = securities \cup txns[c].registered
    /\ identifiers' = identifiers \cup txns[c].own.identifiers
    /\ mappings' = mappings \cup txns[c].own.mappings
    /\ txns' = [txns EXCEPT ![c] = Idle]

\* A crash, a lost race, or a caller that does not accept the issues.
Abort(c) ==
    /\ txns[c].phase # "idle"
    /\ txns' = [txns EXCEPT ![c] = Idle]
    /\ UNCHANGED <<securities, identifiers, mappings>>

Next ==
    \E c \in Clients :
       \/ Begin(c) \/ RegisterSecurity(c)
       \/ CheckIdentifier(c) \/ InsertIdentifier(c)
       \/ ResolveBenchmark(c) \/ CheckBenchmark(c) \/ InsertBenchmark(c)
       \/ Commit(c) \/ Abort(c)

Spec == Init /\ [][Next]_vars

-----------------------------------------------------------------------------
(* Every row and every request in progress has its shape.                  *)
TypeOK ==
    /\ securities \subseteq Securities
    /\ identifiers \subseteq IdentifierRow /\ mappings \subseteq MappingRow
    /\ txns \in [Clients -> Txn]

\* The reference for Overlap: there is an instant at which both are valid.
ShareAnInstant(a, b) == \E t \in Times : Covers(a, t) /\ Covers(b, t)

Ambiguous(x, y) == SameIdentifier(x, y) /\ ShareAnInstant(x.valid, y.valid)

Rivals(m, n) == m.security = n.security /\ ShareAnInstant(m.valid, n.valid)

(* A request never stores an identifier that is valid at the same time as  *)
(* another of its own rows, or as a row that was committed when it began;  *)
(* nor a second benchmark.  Only two requests side by side can.            *)
OverlapNeedsConcurrency ==
    \A c \in Clients :
        LET own == txns[c].own  base == txns[c].base
        IN  /\ \A y \in own.identifiers, x \in own.identifiers \cup base.identifiers :
                  x # y => ~ Ambiguous(x, y)
            /\ \A n \in own.mappings, m \in own.mappings \cup base.mappings :
                  m # n => ~ Rivals(m, n)

(* No benchmark without identifiers: the security and the benchmark of a   *)
(* stored mapping had an identifier on the day the mapping begins.         *)
MappingJustified ==
    \A m \in mappings : \A s \in {m.security, m.benchmark} :
        \E x \in identifiers : x.security = s /\ Covers(x.valid, m.valid.from)

(* A row may name a benchmark that appears later in the same upload: when  *)
(* its benchmark is resolved, that later row is found, unless its vintage  *)
(* was already stored with another end.                                    *)
LaterRowsResolve ==
    \A c \in Clients :
        Doing(c, "reading", "benchmark") =>
            \A i \in 1..Len(txns[c].upload) :
                LET later == IdentifierOf(txns[c].upload[i])
                    t     == Row(c).valid.from
                IN  later.name = Row(c).benchmark /\ Covers(later.valid, t) =>
                       \/ later.security \in Candidates(VisibleIdentifiers(c), later.name, Spaces, t)
                       \/ \E x \in VisibleIdentifiers(c) :
                             SameIdentifierVintage(x, later) /\ x.valid.to # later.valid.to

(* What benchmark_as_of answers about a security and an instant stays the  *)
(* answer, unless a mapping is stored by a request that ran side by side   *)
(* with the one whose mapping it hides.                                    *)
BenchmarkAnswersRepeat ==
    [][\A s \in Securities, t \in Times :
          \/ BenchmarkAsOf(mappings, s, t) \subseteq BenchmarkAsOf(mappings', s, t)
          \/ \E c \in Clients :
                \E m \in mappings \ txns[c].base.mappings, n \in txns[c].own.mappings :
                   Rivals(m, n)]_vars

(* "The same provider/scheme/value may not map to two securities over an   *)
(* overlapping validity interval" (docs/data_contracts.md).  The check     *)
(* before the insert cannot see another request's row.                     *)
IdentifierNamesOneSecurity ==
    \A x, y \in identifiers : Ambiguous(x, y) => x.security = y.security

=============================================================================
