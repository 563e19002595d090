-------------------------------- MODULE Mesh --------------------------------
(***************************************************************************)
(* The names every component of the control plane shares.                  *)
(*                                                                         *)
(* Node names and overlay addresses are numbers: the code orders both as   *)
(* strings, and only that order matters.                                   *)
(***************************************************************************)
EXTENDS Integers

CONSTANTS Names,     \* node names, numbered in their sort order
          Overlays,  \* overlay addresses, numbered in their sort order
          Nil        \* the empty string, the empty slice, the absent entry

ASSUME MeshAssumption ==
    /\ Names \subseteq Nat
    /\ Overlays \subseteq Nat
    /\ Nil \notin Names \cup Overlays

=============================================================================
