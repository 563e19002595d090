---------------------------- MODULE MCOperations ----------------------------
(***************************************************************************)
(* The operator's long operations: key rotation with the admin-state lock, *)
(* the upgrade driver, and the rotation of an endpoint's parameters.       *)
(*                                                                         *)
(* They share no state. A behaviour runs one of them, named by part, and   *)
(* the others stay in an initial state, so that the state space is the sum *)
(* of theirs.                                                              *)
(***************************************************************************)
EXTENDS KeyRotation, EndpointRotation, Upgrade

CONSTANTS m1, m2        \* masters

VARIABLE part

TwoMasters == <<m1, m2>>

allVars == <<part, vars, uvars, evars>>

OperationsInit ==
  /\ part \in {"rotate", "upgrade", "endpoint"}
  /\ Init /\ (part # "rotate" => platform = "unix")
  /\ UpgradeInit /\ (part # "upgrade" => ssh /\ live = container)
  /\ EndpointInit

RotateStep ==
  part = "rotate" /\ Next /\ UNCHANGED <<part, uvars, evars>>
UpgradeStep ==
  part = "upgrade" /\ UpgradeNext /\ UNCHANGED <<part, vars, evars>>
EndpointStep ==
  part = "endpoint" /\ EndpointNext /\ UNCHANGED <<part, vars, uvars>>

OperationsNext == RotateStep \/ UpgradeStep \/ EndpointStep

(* The fairness of each part's own specification. *)
Fairness ==
  /\ \A o \in Ops : WF_vars(part = "rotate" /\ Rotation(o))
  /\ WF_uvars(part = "upgrade" /\ DriverStep)

OperationsSpec == OperationsInit /\ [][OperationsNext]_allVars /\ Fairness
=============================================================================
