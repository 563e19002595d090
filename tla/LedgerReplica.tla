---------------------------- MODULE LedgerReplica ---------------------------
(***************************************************************************)
(* What the streams promise a node: while it is connected, its copy of the *)
(* ledger is a snapshot that this control-plane process really published,  *)
(* and the copy only moves forward.  A node that loses its connection has  *)
(* no claim on its copy until it has synchronised again, and a control     *)
(* plane that restarts starts numbering anew.                              *)
(***************************************************************************)
EXTENDS Naturals, Sequences

CONSTANTS Replicas,  \* the copies
          Values,    \* the contents of the ledger
          Empty,     \* the contents it starts with
          Offline    \* a copy without a connection

VARIABLES log,  \* the contents published so far, by version
          copy  \* replica -> version and contents, or Offline

At(v) == [version |-> v, entries |-> IF v = 0 THEN Empty ELSE log[v]]

Init ==
    /\ log = <<>>
    /\ copy = [r \in Replicas |-> Offline]

Publish ==
    /\ \E x \in Values : log' = Append(log, x)
    /\ UNCHANGED copy

(* A new connection starts from any published version. *)
Synchronise(r) ==
    /\ copy[r] = Offline
    /\ \E v \in 0 .. Len(log) : copy' = [copy EXCEPT ![r] = At(v)]
    /\ UNCHANGED log

Advance(r) ==
    /\ copy[r] # Offline
    /\ \E v \in copy[r].version + 1 .. Len(log) : copy' = [copy EXCEPT ![r] = At(v)]
    /\ UNCHANGED log

Disconnect(R) ==
    /\ copy' = [r \in Replicas |-> IF r \in R THEN Offline ELSE copy[r]]
    /\ UNCHANGED log

Restart ==
    /\ log' = <<>>
    /\ copy' = [r \in Replicas |-> Offline]

Next ==
    \/ Publish
    \/ \E r \in Replicas : Synchronise(r) \/ Advance(r)
    \/ \E R \in SUBSET Replicas : Disconnect(R)
    \/ Restart

Spec == Init /\ [][Next]_<<log, copy>>
=============================================================================
