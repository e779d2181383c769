----------------------------- MODULE ThesisReads -----------------------------
(***************************************************************************)
(* A historical read beside the writers of ThesisStore: ThesisService's    *)
(* detail, and the thesis lookup of daily research, read the identity row  *)
(* and the version rows in two statements, and on both databases a commit  *)
(* can fall between them.                                                  *)
(***************************************************************************)
EXTENDS ThesisStore

VARIABLE read    \* the read in progress, or the one just answered

readVars == <<now, theses, versions, txns, read>>

NoRead == [phase |-> "none", key |-> None, effective |-> 0, known |-> 0,
           identity |-> None, seen |-> {}, answer |-> None]

\* The outcome a reader of one consistent state would be given.
CommittedOutcome(k, effective, known) ==
    SelectThesisVersion(theses[k], versions[k], effective, known)

InitReads == Init /\ read = NoRead

-----------------------------------------------------------------------------
(* _get: the identity row is read.  A missing key is answered by not found *)
(* and leaves nothing to follow.                                           *)
ReadIdentity ==
    /\ read.phase = "none"
    /\ \E k \in Keys, effective, known \in Times :
          /\ theses[k] # None
          /\ read' = [phase |-> "identified", key |-> k, effective |-> effective,
                      known |-> known, identity |-> theses[k],
                      seen |-> {CommittedOutcome(k, effective, known)},
                      answer |-> None]
    /\ UNCHANGED vars

(* version_as_of: the history is listed and the selection applied to the   *)
(* identity read before.                                                   *)
ReadVersions ==
    /\ read.phase = "identified"
    /\ read' = [read EXCEPT !.phase = "answered",
                  !.answer = SelectThesisVersion(read.identity, versions[read.key],
                                                 read.effective, read.known)]
    /\ UNCHANGED vars

EndRead ==
    /\ read.phase = "answered"
    /\ read' = NoRead
    /\ UNCHANGED vars

\* A step of a writer; seen is history: the outcomes of the states it passes.
WriterStep ==
    /\ Next
    /\ read' = IF read.phase # "identified" THEN read
               ELSE [read EXCEPT !.seen = @ \cup
                       {SelectThesisVersion(theses'[read.key], versions'[read.key],
                                            read.effective, read.known)}]

NextReads == ReadIdentity \/ ReadVersions \/ EndRead \/ WriterStep

SpecReads == InitReads /\ [][NextReads]_readVars

\* The handlers of ThesisStore are as fair as there, whatever is read beside.
FairSpecReads == SpecReads /\ \A c \in Clients : SF_vars(Progress(c))

-----------------------------------------------------------------------------
(* A read mixes rows of two instants, yet its answer is the answer some    *)
(* committed state gave while it ran: an identity read before an archive   *)
(* is never joined to a version committed after it.                        *)
ReadsAreAtomic == read.phase = "answered" => read.answer \in read.seen

=============================================================================
