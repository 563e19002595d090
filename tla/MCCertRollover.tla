--------------------------- MODULE MCCertRollover ---------------------------
(***************************************************************************)
(* Two small instances of module CertRollover in one: short times with     *)
(* faults and crashes in any order, and (prompt) ten rollovers in a row of *)
(* handlers that are scheduled at once, without faults.  The variable      *)
(* prompt says which of them a behaviour is of.                            *)
(***************************************************************************)
EXTENDS CertRollover, TLC

CONSTANTS h1, h2

VARIABLE prompt

Long == INSTANCE CertRollover WITH
          ValidFor <- 6, RenewBefore <- 3, PollInterval <- 2, MaxTime <- 30, Certs <- 1 .. 10,
          MaxFaults <- 0, MaxFileFaults <- 0, MaxCrashes <- 0, Prompt <- TRUE

RolloverInit == (prompt = FALSE /\ Init) \/ (prompt = TRUE /\ Long!Init)

RolloverNext == UNCHANGED prompt /\ ((~prompt /\ Next) \/ (prompt /\ Long!Next))

RolloverSpec == RolloverInit /\ [][RolloverNext]_<<prompt, vars>>

HandlerSymmetry == Permutations(Handlers)

-----------------------------------------------------------------------------
(* With short times, every variable holds a value of its shape, and no     *)
(* handler sleeps longer than the poll interval (DelayUntilDue).           *)
RolloverTypeOK == prompt \/ TypeOK

(* Time is kept: no handler oversleeps, and a node that stays connected to *)
(* handlers that are scheduled at once never runs on an expired            *)
(* certificate (NextDueUpdate, RegisterNode).                              *)
PinnedInTime == RolloverTypeOK /\ (prompt => PinnedFresh)
=============================================================================
