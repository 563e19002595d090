------------------------------ MODULE MCClientd -----------------------------
(***************************************************************************)
(* Small instances of module Clientd.                                      *)
(***************************************************************************)
EXTENDS Clientd, TLC

CONSTANTS w1, w2, n1, n2

WriterSymmetry == Permutations(Writers)
=============================================================================
