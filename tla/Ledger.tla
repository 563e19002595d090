------------------------------- MODULE Ledger -------------------------------
(***************************************************************************)
(* The ownership ledger (pkg/control_plane/ledger.go): which master owns   *)
(* which overlay /32, and the version that counts its mutations.           *)
(*                                                                         *)
(* Each critical section of Ledger is one step.  The listener is called    *)
(* after the mutex is released: that call is not part of these steps, it   *)
(* is a step of its own of the handler that mutated (module Fanout).       *)
(* Timestamps, reasons, the previous owner and the per-entry version are   *)
(* carried along by the code and decide nothing; they are left out.        *)
(***************************************************************************)
EXTENDS Mesh

CONSTANT ValidOverlays  \* the addresses net.ParseIP accepts as IPv4

VARIABLES entries,  \* overlay -> owning master, or Nil
          version   \* bumped on every mutation

ASSUME LedgerAssumption == ValidOverlays \subseteq Overlays

ledgerVars == <<entries, version>>

LedgerTypeOK ==
    /\ entries \in [Overlays -> Names \cup {Nil}]
    /\ version \in Nat

NewLedger ==
    /\ entries = [o \in Overlays |-> Nil]
    /\ version = 0

(* The locked part of reassign, for an address that parses. *)
Reassign(o, owner) ==
    /\ entries' = [entries EXCEPT ![o] = owner]
    /\ version' = version + 1

(* Mutant of ReassignExpecting: checkOwner is ignored. *)
ReassignExpecting_Unchecked(o, expected, owner) == Reassign(o, owner)

(* reassign with checkOwner: a no-op when the owner has changed or the     *)
(* entry is gone.                                                          *)
ReassignExpecting(o, expected, owner) ==
    IF entries[o] = expected THEN Reassign(o, owner) ELSE UNCHANGED ledgerVars

OwnedBy(m) == {o \in Overlays : entries[o] = m}

=============================================================================
