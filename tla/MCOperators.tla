----------------------------- MODULE MCOperators ----------------------------
(***************************************************************************)
(* What operators run and what it leaves behind: commands that edit the    *)
(* topology file, prepare and register nodes, back up and restore, keep    *)
(* the upgrade state and rotate the mesh, the certificate and token caches *)
(* that read the files they write, and the functions that plan addresses   *)
(* and upgrades.                                                           *)
(*                                                                         *)
(* They share no state. A behaviour runs one of them, named by part, and   *)
(* the others stay in an initial state, so that the state space is the sum *)
(* of theirs.                                                              *)
(***************************************************************************)
EXTENDS CertCache, UpgradeState, MeshRotation, Backup, NodeSetup, TopologyFile, TLC

CONSTANT Overrides  \* PlanningFunctions

VARIABLES part, fnCall

(* Two ranges in one half of the addresses each and every command on them:
   ranges that overlap, that nodes are in, and with a balancer inside, outside
   or in the mapped spelling. *)
Cidr(a, b) == [addr |-> a, bits |-> b]
Cmd(op, name, cidr, bal) ==
  [op |-> op, name |-> name, newName |-> name, cidr |-> cidr, bal |-> bal, force |-> op = "migrate"]
Rename(name, newName) == [Cmd("rename", name, NoText, NoText) EXCEPT !.newName = newName]
RangeCommands ==
  {Cmd("add", "a", Cidr(0, 2), NoText), Cmd("add", "b", Cidr(5, 2), Plain(4)),
   Cmd("add", "c", Cidr(6, 2), [val |-> 6, mapped |-> TRUE]), Cmd("add", "c", Cidr(6, 3), NoText),
   Cmd("resize", "a", Cidr(0, 1), NoText), Cmd("resize", "b", Cidr(4, 1), NoText),
   Cmd("resize", "b", Cidr(5, 3), NoText), Cmd("resize", "a", Cidr(2, 3), NoText),
   Rename("a", "b"), Rename("b", "d"), Cmd("delete", "a", NoText, NoText), Cmd("delete", "b", NoText, NoText),
   Cmd("set-balancer", "a", NoText, Plain(1)), Cmd("set-balancer", "a", NoText, Plain(5)),
   Cmd("schedule", "s", NoText, NoText), Cmd("migrate", "s", NoText, NoText)}
Files ==
  {[kind |-> "v1", nodes |-> {Plain(1)},
    ranges |-> <<[name |-> "a", cidr |-> Cidr(0, 2), bal |-> NoText],
                 [name |-> "b", cidr |-> Cidr(4, 2), bal |-> NoText]>>],
   [kind |-> "v2", nodes |-> {Plain(1)}, ranges |-> <<>>]}

(* One address in two spellings, an address outside, and none. *)
UsedSets == SUBSET {0, 1, 2, 5, 6}
Texts == {Plain(1), [val |-> 1, mapped |-> TRUE], Plain(6), NoText}
Orders == {<<>>, <<1>>, <<3, 1>>, <<1, 1>>, <<9>>}

ThreeRoles == <<{"client"}, {"client", "egress"}, {"master"}>>

(* Every part but the certificates has one set of actors, the same two. *)
Symmetry == Permutations(Ops) \cup Permutations(Handshakes) \cup Permutations(Calls)

Planning == INSTANCE PlanningFunctions WITH call <- fnCall

planned == <<fnCall>>
allVars == <<part, tvars, planned, setupVars, bvars, uvars,
             rotvars, cvars>>

OperatorsInit ==
  /\ part \in {"topology", "functions", "setup", "backup", "upgrades", "rotation", "certs"}
  /\ FileInit /\ (part # "topology" => topologyFile.kind = "v1")
  /\ Planning!FunctionsInit
  /\ SetupInit
  /\ BackupInit /\ (part # "backup" => place = "outside")
  /\ UpgradeStateInit /\ (part # "upgrades" => stateFile = Nil)
  /\ RotationInit /\ (part # "rotation" => registered = {})
  /\ CertCacheInit

TopologyStep ==
  part = "topology" /\ FileNext /\ UNCHANGED <<part, planned, setupVars, bvars, uvars, rotvars, cvars>>
FunctionsStep ==
  part = "functions" /\ Planning!FunctionsNext /\ UNCHANGED <<part, tvars, setupVars, bvars, uvars, rotvars, cvars>>
SetupStep ==
  part = "setup" /\ SetupNext /\ UNCHANGED <<part, tvars, planned, bvars, uvars, rotvars, cvars>>
BackupStep ==
  part = "backup" /\ BackupNext /\ UNCHANGED <<part, tvars, planned, setupVars, uvars, rotvars, cvars>>
UpgradesStep ==
  part = "upgrades" /\ UpgradeStateNext /\ UNCHANGED <<part, tvars, planned, setupVars, bvars, rotvars, cvars>>
RotationStep ==
  part = "rotation" /\ RotationNext /\ UNCHANGED <<part, tvars, planned, setupVars, bvars, uvars, cvars>>
CertsStep ==
  part = "certs" /\ CertCacheNext /\ UNCHANGED <<part, tvars, planned, setupVars, bvars, uvars, rotvars>>

OperatorsNext == TopologyStep \/ FunctionsStep \/ SetupStep \/ BackupStep \/
  UpgradesStep \/ RotationStep \/ CertsStep

OperatorsSpec == OperatorsInit /\ [][OperatorsNext]_allVars

-----------------------------------------------------------------------------
(* The properties of the parts, under the names they have there; those of  *)
(* CertCache, UpgradeState, MeshRotation, Backup, NodeSetup and            *)
(* TopologyFile are inherited.                                             *)

(* The functions on addresses meet their reference definitions: allocation,*)
(* validation, balancers, migration and AllowedIPs (pkg/topology).         *)
AddressesPlanned == Planning!AddressesPlanned

(* The functions on upgrades do: the order and images of a plan, and the   *)
(* migration of compose files (pkg/upgrade).                               *)
UpgradesPlanned == Planning!UpgradesPlanned
=============================================================================
