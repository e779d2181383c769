----------------------------- MODULE MCEventStudy -----------------------------
(* Two records over three dates of four times: before the open, the        *)
(* session, the close itself and the evening.                              *)
EXTENDS EventStudy

CONSTANTS r1, r2, plain, early

Event(r, effective, available, content) ==
    [record |-> r, effective |-> effective, available |-> available, content |-> content]

\* Announced, moved, moved at once with the same vintage, moved
\* later with another event, at the close, reported late, and a second record.
MCEventBatches ==
    { <<Event(r1, 4, 0, plain)>>, <<Event(r1, 6, 0, plain)>>,
      <<Event(r2, 2, 2, plain), Event(r2, 2, 2, plain)>>,
      <<Event(r2, 5, 5, early), Event(r1, 9, 5, plain)>>, <<Event(r1, 5, 9, early)>> }

MCActionBatches ==
    { <<Event(r1, 4, 1, "split")>>, <<Event(r1, 4, 1, "dividend")>> }

MCTimingOf == [p \in Payloads |-> IF p = early THEN "BMO" ELSE None]

Study(pre, post, policy) ==
    [policy |-> policy,
     windows |-> { [start |-> -pre, end |-> -1], [start |-> 0, end |-> 0],
                   [start |-> 1, end |-> post] }]

MCStudies == { [windows |-> {[start |-> -1, end |-> 0]}, policy |-> "exclude"],
               Study(1, 1, "flag") }
=============================================================================
