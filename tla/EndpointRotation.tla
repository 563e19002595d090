-------------------------- MODULE EndpointRotation --------------------------
(***************************************************************************)
(* mesh-ctl rotate for one endpoint (tiers 1 and 2): the agents of the       *)
(* endpoint's masters get new parameters, tier 1 one master after the other, *)
(* tier 2 all at once after a preflight.  Tier 3 is module KeyRotation.      *)
(***************************************************************************)
EXTENDS Naturals

CONSTANTS EndpointMasters  \* the masters of the endpoint

VARIABLES
  cmd,    \* the command: its tier, phase, masters left, failures, result
  agent   \* master -> the parameters its agent uses

evars == <<cmd, agent>>

None == "none"
Old == "old"
New == "new"
IdleCommand ==
  [tier |-> 0, pc |-> "new", left |-> EndpointMasters, failed |-> {}, fit |-> {}, result |-> None]

EndpointTypeOK ==
  /\ agent \in [EndpointMasters -> {Old, New}]
  /\ cmd.tier \in 0..2 /\ cmd.left \subseteq EndpointMasters /\ cmd.failed \subseteq EndpointMasters
  /\ cmd.pc \in {"new", "connect", "preflight", "rotate", "done"}

EndpointInit == cmd = IdleCommand /\ agent = [m \in EndpointMasters |-> Old]

-----------------------------------------------------------------------------
(* mesh-ctl rotate: tier 1 visits the masters one by one, tier 2 connects to
   all, asks all for their health and only then sends to all at once. *)
rotateCommand ==
  /\ cmd.pc = "new"
  /\ \/ cmd' = [cmd EXCEPT !.tier = 1, !.pc = "rotate"]
     \/ cmd' = [cmd EXCEPT !.tier = 2, !.pc = "connect"]
  /\ UNCHANGED agent

(* executeTier2Rotation: every master is tried, one failure ends the command. *)
connectMaster(m) ==
  /\ cmd.pc = "connect" /\ m \in cmd.left
  /\ \E ok \in BOOLEAN :
       cmd' = [cmd EXCEPT !.left = @ \ {m}, !.failed = IF ok THEN @ ELSE @ \cup {m}]
  /\ UNCHANGED agent

AllFine_OneIsEnough == cmd.failed # EndpointMasters

AllFine == cmd.failed = {}

phaseDone ==
  /\ cmd.pc \in {"connect", "preflight"} /\ cmd.left = {}
  /\ IF ~AllFine THEN cmd' = [cmd EXCEPT !.pc = "done", !.result = "error"]
     ELSE cmd' = [cmd EXCEPT !.pc = IF @ = "connect" THEN "preflight" ELSE "rotate",
                             !.left = EndpointMasters, !.failed = {}]
  /\ UNCHANGED agent

preflight(m) ==
  /\ cmd.pc = "preflight" /\ m \in cmd.left
  /\ \E healthy \in BOOLEAN :
       cmd' = [cmd EXCEPT !.left = @ \ {m}, !.fit = IF healthy THEN @ \cup {m} ELSE @,
                          !.failed = IF healthy THEN @ ELSE @ \cup {m}]
  /\ UNCHANGED agent

(* RotateParams at one master: refused or unreachable, done, or done with the
   answer lost.  Tier 1 works through the masters, tier 2 in any order. *)
RotateParams(m) ==
  /\ cmd.pc = "rotate" /\ m \in cmd.left
  /\ \/ /\ agent' = [agent EXCEPT ![m] = New]
        /\ cmd' = [cmd EXCEPT !.left = @ \ {m}]
     \/ /\ agent' \in {agent, [agent EXCEPT ![m] = New]}
        /\ cmd' = [cmd EXCEPT !.left = @ \ {m}, !.failed = @ \cup {m}]

NoFailures == cmd.failed = {}

rotateDone ==
  /\ cmd.pc = "rotate" /\ cmd.left = {}
  /\ cmd' = [cmd EXCEPT !.pc = "done", !.result = IF NoFailures THEN "ok" ELSE "error"]
  /\ UNCHANGED agent

EndpointNext ==
  \/ rotateCommand \/ phaseDone \/ rotateDone
  \/ \E m \in EndpointMasters : connectMaster(m) \/ preflight(m) \/ RotateParams(m)

EndpointSpec == EndpointInit /\ [][EndpointNext]_evars

-----------------------------------------------------------------------------
(* Tier 2 parameters reach a master only after every master could be connected
   to and has answered the preflight as healthy. *)
PreflightFirst == cmd.tier = 2 /\ (\E m \in EndpointMasters : agent[m] = New) => cmd.fit = EndpointMasters

(* A rotation that reports success has changed every master of the endpoint,
   whichever tier, order or lost answer. *)
RotatedEverywhere == cmd.result = "ok" => \A m \in EndpointMasters : agent[m] = New

(* Neither tier leaves the endpoint's masters apart without saying so: no  *)
(* parameters before a whole preflight, no success before all have them    *)
(* (executeTier2Rotation, rotateCommand).                                  *)
TiersSafe == EndpointTypeOK /\ PreflightFirst /\ RotatedEverywhere
=============================================================================
