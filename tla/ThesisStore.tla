----------------------------- MODULE ThesisStore -----------------------------
(***************************************************************************)
(* Concurrent thesis authoring: ThesisService.create, append_version and   *)
(* archive over the thesis repository, each inside a transaction its       *)
(* caller commits or rolls back.                                           *)
(*                                                                         *)
(* A request is cut where another request can come between:                *)
(*   Begin   the service reads its clock;                                  *)
(*   Read    it reads committed rows and applies its own checks;           *)
(*   Lock    the repository selects the thesis row FOR UPDATE and applies  *)
(*           its checks to what it reads then;                             *)
(*   Write   the rows are flushed, the unique constraints decide;          *)
(*   Commit  the caller commits and the rows become visible.               *)
(* A check that fails raises, and the caller rolls back.                   *)
(*                                                                         *)
(* RowLocks tells the two databases apart.  PostgreSQL (TRUE, READ         *)
(* COMMITTED) holds the row lock to the end of the transaction.  SQLite    *)
(* (FALSE) ignores FOR UPDATE and reads outside a transaction; its only    *)
(* lock is the database's write lock, from the first flush to the commit.  *)
(***************************************************************************)
EXTENDS ThesisSelection

CONSTANTS
    Clients,        \* concurrent requests: API calls and dashboard saves
    Keys,           \* thesis keys
    Securities,     \* securities a create request may name
    Registered,     \* those the security master knows
    RowLocks,       \* TRUE on PostgreSQL, FALSE on SQLite
    MaxTime,        \* bound: the clock stops here
    MaxVersions     \* bound: no append begins on a history this long

ASSUME StoreAssumption ==
    /\ Registered \subseteq Securities
    /\ RowLocks \in BOOLEAN
    /\ MaxTime \in Nat
    /\ MaxVersions \in Nat \ {0}

VARIABLES
    now,        \* the server clock
    theses,     \* committed thesis rows by key, None where there is none
    versions,   \* committed version rows by thesis
    txns        \* the request each client has in progress

vars == <<now, theses, versions, txns>>

-----------------------------------------------------------------------------
Times == 0..MaxTime

Operations == {"create", "append", "archive"}

(* Status and archived_by change together with archived_at.                *)
ThesisRow == [security : Securities, created_at : Times,
              archived_at : Times \cup {None}]

(* base is history: the version whose author's request was accepted        *)
(* against, expected_version.                                              *)
VersionRow == [version : Nat \ {0}, valid_from : Times, valid_to : {None},
               approved_at : Times, base : Nat]

\* None is a value of its own.
ASSUME NoneAssumption == None \notin ThesisRow \cup VersionRow \cup Times

Phases == {"idle", "begun", "read", "checked", "written"}

Transaction == [phase : Phases, op : Operations \cup {None},
                key : Keys \cup {None}, clock : Times,
                identity : ThesisRow \cup {None}, draft : VersionRow \cup {None}]

Idle == [phase |-> "idle", op |-> None, key |-> None, clock |-> 0,
         identity |-> None, draft |-> None]

Init ==
    /\ now = 0
    /\ theses = [k \in Keys |-> None]
    /\ versions = [k \in Keys |-> {}]
    /\ txns = [c \in Clients |-> Idle]

-----------------------------------------------------------------------------
Archived(k) == theses[k] # None /\ theses[k].archived_at # None

Numbers(S) == { v.version : v \in S }

\* coalesce(max(version), 0): n is the number of the latest version.
IsLatestNumber(S, n) ==
    IF S = {} THEN n = 0 ELSE n \in Numbers(S) /\ \A m \in Numbers(S) : m <= n

\* Defect: activation times are not compared.
PrecedesLatest_Never(S, instant) == FALSE

\* An activation before that of the latest version, which the service and
\* the repository both refuse.
PrecedesLatest(S, instant) ==
    \E v \in S : IsLatestNumber(S, v.version) /\ instant < v.valid_from

Thesis(security, created_at) ==
    [security |-> security, created_at |-> created_at, archived_at |-> None]

\* Defect: the approval time follows the activation the client asked for.
Version_Backdated(number, activation, approved_at, base) ==
    [version |-> number, valid_from |-> activation, valid_to |-> None,
     approved_at |-> activation, base |-> base]

Version(number, activation, approved_at, base) ==
    [version |-> number, valid_from |-> activation, valid_to |-> None,
     approved_at |-> approved_at, base |-> base]

-----------------------------------------------------------------------------
Rollback(c) ==
    /\ txns' = [txns EXCEPT ![c] = Idle]
    /\ UNCHANGED <<now, theses, versions>>

Advance(c, phase) ==
    /\ txns' = [txns EXCEPT ![c].phase = phase]
    /\ UNCHANGED <<now, theses, versions>>

(* A handler is entered: every operation reads the clock first.  No append *)
(* begins on a history of MaxVersions versions.                            *)
Begin(c) ==
    /\ txns[c].phase = "idle"
    /\ \E op \in Operations, k \in Keys :
          /\ op = "append" => MaxVersions \notin Numbers(versions[k])
          /\ txns' = [txns EXCEPT ![c] = [Idle EXCEPT !.phase = "begun", !.op = op,
                                                      !.key = k, !.clock = now]]
    /\ UNCHANGED <<now, theses, versions>>

(* ThesisService.create up to add_thesis' INSERT: the security and the key *)
(* are looked up; the activation is the client's or the clock.             *)
ReadForCreate(c) ==
    LET k == txns[c].key  clock == txns[c].clock IN
    /\ txns[c].phase = "begun" /\ txns[c].op = "create"
    /\ \E security \in Securities, activation \in Times :
          IF security \in Registered /\ theses[k] = None
          THEN /\ txns' = [txns EXCEPT ![c] =
                             [@ EXCEPT !.phase = "checked",
                                       !.identity = Thesis(security, clock),
                                       !.draft = Version(1, activation, clock, 0)]]
               /\ UNCHANGED <<now, theses, versions>>
          ELSE Rollback(c)

(* ThesisService.append_version up to add_version: the thesis and its      *)
(* history are read and the next version is drafted from the latest one.   *)
ReadForAppend(c) ==
    LET k == txns[c].key  clock == txns[c].clock IN
    /\ txns[c].phase = "begun" /\ txns[c].op = "append"
    /\ \/ /\ theses[k] = None \/ versions[k] = {}
          /\ Rollback(c)
       \/ /\ theses[k] # None
          /\ \E latest \in versions[k], activation \in Times,
                expected \in 1..MaxVersions :
                /\ IsLatestNumber(versions[k], latest.version)
                /\ IF PrecedesLatest(versions[k], activation)
                   THEN Rollback(c)
                   ELSE /\ txns' = [txns EXCEPT ![c] =
                              [@ EXCEPT !.phase = "read",
                                        !.draft = Version(latest.version + 1,
                                                     activation, clock, expected)]]
                        /\ UNCHANGED <<now, theses, versions>>

(* ThesisService.archive up to the repository: the key must exist.         *)
ReadForArchive(c) ==
    /\ txns[c].phase = "begun" /\ txns[c].op = "archive"
    /\ IF theses[txns[c].key] = None THEN Rollback(c) ELSE Advance(c, "read")

-----------------------------------------------------------------------------
\* Defect: the row lock is not taken.
RowFree_Always(c) == TRUE

\* Defect: requests that have only read the row already exclude each other.
RowFree_SharedThenUpgraded(c) ==
    \A d \in Clients \ {c} :
       ~ (txns[d].phase \in {"read", "checked", "written"} /\ txns[d].key = txns[c].key)

\* FOR UPDATE waits while another transaction holds the thesis row.
RowFree(c) ==
    RowLocks => \A d \in Clients \ {c} :
                   ~ /\ txns[d].phase \in {"checked", "written"}
                     /\ txns[d].op \in {"append", "archive"}
                     /\ txns[d].key = txns[c].key

\* Defect: an archived thesis accepts versions.
AppendAllowed_ThoughArchived(k, draft) ==
    /\ IsLatestNumber(versions[k], draft.base)
    /\ draft.version = draft.base + 1
    /\ ~ PrecedesLatest(versions[k], draft.valid_from)

\* Defect: expected_version is not compared with the latest version.
AppendAllowed_AnyExpected(k, draft) ==
    /\ ~ Archived(k)
    /\ ~ PrecedesLatest(versions[k], draft.valid_from)

\* add_version's checks on the rows it reads under the lock.
AppendAllowed(k, draft) ==
    /\ ~ Archived(k)
    /\ IsLatestNumber(versions[k], draft.base)
    /\ draft.version = draft.base + 1
    /\ ~ PrecedesLatest(versions[k], draft.valid_from)

LockForAppend(c) ==
    /\ txns[c].phase = "read" /\ txns[c].op = "append"
    /\ RowFree(c)
    /\ IF AppendAllowed(txns[c].key, txns[c].draft)
       THEN Advance(c, "checked")
       ELSE Rollback(c)

(* The repository's archive: an archived row is returned as it is, and an  *)
(* archive time before the creation is refused by the domain object.       *)
LockForArchive(c) ==
    LET k == txns[c].key IN
    /\ txns[c].phase = "read" /\ txns[c].op = "archive"
    /\ RowFree(c)
    /\ IF Archived(k) \/ txns[c].clock < theses[k].created_at
       THEN Rollback(c)
       ELSE Advance(c, "checked")

-----------------------------------------------------------------------------
(* A flush waits for the uncommitted key of another create (PostgreSQL's   *)
(* unique index) or for the database's write lock (SQLite).                *)
FlushBlocked(c) ==
    \E d \in Clients \ {c} :
       /\ txns[d].phase = "written"
       /\ RowLocks => /\ txns[c].op = "create" /\ txns[d].op = "create"
                      /\ txns[c].key = txns[d].key

\* The unique constraints: thesis_key, and (thesis_id, version).
Duplicate(c) ==
    LET k == txns[c].key IN
    \/ txns[c].op = "create" /\ theses[k] # None
    \/ txns[c].op = "append" /\ txns[c].draft.version \in Numbers(versions[k])

Write(c) ==
    /\ txns[c].phase = "checked"
    /\ ~ FlushBlocked(c)
    /\ IF Duplicate(c) THEN Rollback(c) ELSE Advance(c, "written")

Commit(c) ==
    LET t == txns[c] IN
    /\ t.phase = "written"
    /\ theses' = CASE t.op = "create"  -> [theses EXCEPT ![t.key] = t.identity]
                   [] t.op = "archive" -> [theses EXCEPT ![t.key].archived_at = t.clock]
                   [] OTHER            -> theses
    /\ versions' = IF t.op = "archive" THEN versions
                   ELSE [versions EXCEPT ![t.key] = @ \cup {t.draft}]
    /\ txns' = [txns EXCEPT ![c] = Idle]
    /\ UNCHANGED now

\* The request is cut short at any point: a lost connection, a lock
\* timeout, a deadlock victim, a crash.  Nothing flushed survives.
Abort(c) ==
    /\ txns[c].phase # "idle"
    /\ Rollback(c)

Tick ==
    /\ now < MaxTime
    /\ now' = now + 1
    /\ UNCHANGED <<theses, versions, txns>>

-----------------------------------------------------------------------------
\* The steps that take a request to its answer.
Progress(c) ==
    \/ ReadForCreate(c) \/ ReadForAppend(c) \/ ReadForArchive(c)
    \/ LockForAppend(c) \/ LockForArchive(c)
    \/ Write(c) \/ Commit(c)

Next ==
    \/ \E c \in Clients : Begin(c) \/ Progress(c) \/ Abort(c)
    \/ Tick

Spec == Init /\ [][Next]_vars

(* The handler of a request runs to its answer, and neither database keeps *)
(* a waiter off a lock that is free again and again.                       *)
FairSpec == Spec /\ \A c \in Clients : SF_vars(Progress(c))

-----------------------------------------------------------------------------
(* Every row and every request in progress has its shape.                  *)
TypeOK ==
    /\ now \in Times
    /\ theses \in [Keys -> ThesisRow \cup {None}]
    /\ versions \in [Keys -> SUBSET VersionRow]
    /\ txns \in [Clients -> Transaction]

(* A thesis and its first version are committed together, and whatever the *)
(* race between creates and appends its numbers run from 1 without a gap   *)
(* or a repetition ("(thesis_id, version) remains the final concurrency    *)
(* guard").                                                                *)
HistoryContiguous ==
    \A k \in Keys :
       /\ theses[k] = None <=> versions[k] = {}
       /\ \A v, w \in versions[k] : v.version = w.version => v = w
       /\ \A v \in versions[k] : 1..v.version \subseteq Numbers(versions[k])

(* "Activation times must be monotonic for the thesis": also for versions  *)
(* drafted from a history that changed before they were inserted.          *)
ActivationsMonotone ==
    \A k \in Keys : \A v, w \in versions[k] :
       v.version < w.version => v.valid_from <= w.valid_from

(* No edit is lost: each version was accepted against the version it       *)
(* directly follows, however the requests overlapped.                      *)
EditsNotLost ==
    \A k \in Keys : \A v \in versions[k] : v.base + 1 = v.version

(* "Archiving ... prevents new versions": once an archive is committed no  *)
(* request, whenever it began, adds a version to the thesis.               *)
NoVersionAfterArchive ==
    [][\A k \in Keys : Archived(k) => versions'[k] = versions[k]]_vars

(* "Repeating the same archive request is idempotent": the archive time    *)
(* that historical reads depend on is set once, whoever else archives.     *)
ArchiveSetOnce ==
    [][\A k \in Keys : Archived(k) => theses'[k] = theses[k]]_vars

\* No request in progress, and none to come, has a clock at or before t.
Settled(t) ==
    /\ t < now
    /\ \A c \in Clients : txns[c].phase # "idle" => t < txns[c].clock

\* What a historical read of thesis k answers with, None for no version.
Selected(k, effective, known) ==
    IF theses[k] = None THEN None
    ELSE ActiveThesisVersion(theses[k], versions[k], effective, known)

(* Historical reads are repeatable: once the knowledge cutoff is in the    *)
(* past of every request in progress, no commit changes the version        *)
(* selected at it, although approval and archive times are read from the   *)
(* clock long before they are committed.                                   *)
SettledReadsRepeat ==
    [][\A k \in Keys, at, cutoff \in Times :
          Settled(cutoff) => Selected(k, at, cutoff)' = Selected(k, at, cutoff)]_vars

(* Every request that has begun is answered: no combination of the row     *)
(* lock, the unique index and the write lock blocks one for ever.          *)
RequestsEnd == \A c \in Clients : txns[c].phase # "idle" ~> txns[c].phase = "idle"

-----------------------------------------------------------------------------
(* The promise: the committed rows are, at every instant, the log of       *)
(* ThesisLog, and every commit is one of its whole operations.             *)
RowNumbered(k, n) == CHOOSE v \in versions[k] : v.version = n

CommittedLog ==
    [k \in Keys |-> [n \in 1..Cardinality(versions[k]) |->
        [valid_from |-> RowNumbered(k, n).valid_from,
         approved_at |-> RowNumbered(k, n).approved_at]]]

CommittedArchive ==
    [k \in Keys |-> IF theses[k] = None THEN None ELSE theses[k].archived_at]

Promise == INSTANCE ThesisLog WITH log <- CommittedLog, archived <- CommittedArchive

(* The store, on PostgreSQL, implements the append-only log.               *)
ImplementsLog == Promise!Spec

-----------------------------------------------------------------------------
(* The inductive invariant behind the properties above.                    *)

\* c has the row of its thesis locked, where there are row locks.
HoldsRow(c) ==
    txns[c].op \in {"append", "archive"} /\ txns[c].phase \in {"checked", "written"}

\* What c is about to insert is the row its request and its clock call for.
DraftShape(c) ==
    LET t == txns[c] IN
    /\ t.phase # "idle" => t.op \in Operations /\ t.key \in Keys
    /\ t.op = "create" => t.phase # "read"
    /\ t.op = "create" /\ t.phase \in {"checked", "written"} =>
          /\ t.identity \in ThesisRow /\ t.draft \in VersionRow
          /\ t.identity.created_at = t.clock /\ t.identity.archived_at = None
          /\ t.draft.version = 1 /\ t.draft.base = 0
    /\ t.op = "append" /\ t.phase \in {"read", "checked", "written"} =>
          t.draft \in VersionRow /\ t.draft.approved_at = t.clock

\* A thesis that was read stays; an accepted draft still follows its base.
DraftFollows(c) ==
    LET t == txns[c] IN
    /\ t.op \in {"append", "archive"} /\ t.phase \in {"read", "checked", "written"} =>
          theses[t.key] # None
    /\ t.op = "append" /\ t.phase \in {"checked", "written"} =>
          /\ t.draft.version = t.draft.base + 1
          /\ \E v \in versions[t.key] :
                v.version = t.draft.base /\ v.valid_from <= t.draft.valid_from

\* A flushed row is still unique among the committed ones.
FlushedIsNew(c) ==
    LET t == txns[c] IN
    /\ t.phase = "written" /\ t.op = "create" => theses[t.key] = None
    /\ t.phase = "written" /\ t.op = "append" =>
          t.draft.version \notin Numbers(versions[t.key])

\* Two flushed requests never concern the same thesis.
WritesExclusive ==
    \A c, d \in Clients : c # d /\ txns[c].phase = "written" /\ txns[d].phase = "written"
       => RowLocks /\ txns[c].key # txns[d].key

\* With row locks, a locked thesis has one holder and is not archived.
LocksExclusive ==
    RowLocks =>
       /\ \A c, d \in Clients : c # d /\ HoldsRow(c) /\ HoldsRow(d)
             => txns[c].key # txns[d].key
       /\ \A c \in Clients : HoldsRow(c) => ~ Archived(txns[c].key)

Request(c) == DraftShape(c) /\ DraftFollows(c) /\ FlushedIsNew(c)

Requests == \A c \in Clients : Request(c)

History == HistoryContiguous /\ ActivationsMonotone /\ EditsNotLost

IInv == TypeOK /\ Requests /\ WritesExclusive /\ LocksExclusive /\ History

=============================================================================
