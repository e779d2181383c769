------------------------------ MODULE ThesisLog ------------------------------
(***************************************************************************)
(* What the thesis service promises its clients: per key an append-only    *)
(* log of versions and an archive mark, changed one whole operation at a   *)
(* time.  ThesisStore is shown to implement it.                            *)
(***************************************************************************)
EXTENDS Integers, Sequences

CONSTANTS Keys, Times, None

VARIABLES
    log,        \* by key, the approved versions in order
    archived    \* by key, the archive time or None

vars == <<log, archived>>

\* An entry: when the version takes effect and when it was approved.
Entry == [valid_from : Times, approved_at : Times]

Init ==
    /\ log = [k \in Keys |-> <<>>]
    /\ archived = [k \in Keys |-> None]

(* Creation writes the identity and version 1 in one step.                 *)
Create(k) ==
    /\ log[k] = <<>>
    /\ \E e \in Entry : log' = [log EXCEPT ![k] = <<e>>]
    /\ UNCHANGED archived

(* An update appends exactly one version after the latest, to an open      *)
(* thesis, with a monotonic activation.                                    *)
AppendVersion(k) ==
    /\ log[k] # <<>> /\ archived[k] = None
    /\ \E e \in Entry :
          /\ log[k][Len(log[k])].valid_from <= e.valid_from
          /\ log' = [log EXCEPT ![k] = Append(@, e)]
    /\ UNCHANGED archived

(* Archiving happens once, to a thesis that exists.                        *)
Archive(k) ==
    /\ log[k] # <<>> /\ archived[k] = None
    /\ \E t \in Times : archived' = [archived EXCEPT ![k] = t]
    /\ UNCHANGED log

Next == \E k \in Keys : Create(k) \/ AppendVersion(k) \/ Archive(k)

Spec == Init /\ [][Next]_vars

=============================================================================
