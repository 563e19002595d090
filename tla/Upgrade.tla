------------------------------ MODULE Upgrade -------------------------------
(***************************************************************************)
(* The per-node upgrade pipeline and its rollback (pkg/upgrade: driver.go, *)
(* rollback.go, sftp.go, log.go), run again and again on the same nodes.   *)
(*                                                                         *)
(* A compose file is abstracted to the image it names: an element of       *)
(* Images, NoFile when there is none, TornFile when a write was cut short. *)
(* Four files matter for a node: the live one and the .bak on the          *)
(* operator's machine, and their copies on the node's host.  container is  *)
(* the image the node runs.  The driver works on one node at a time; the   *)
(* command that calls it may call it again after a failure, with the same  *)
(* or with another version.                                                *)
(***************************************************************************)
EXTENDS Naturals

CONSTANTS Nodes, Endpoints,  \* the nodes, and the ones phaseInit works on
          Images,            \* images; First is what the nodes run at first
          First,
          InvalidRefs,       \* targets validateImageRef refuses
          Budget,            \* polls that fit in DowntimeBudget
          MaxAttempts,       \* verifyMaxAttempts
          MaxUpgrades,       \* bound: calls of UpgradeNode
          MaxUpgradeFaults,  \* bound: failures of files, SSH, RPCs, probes
          NoFile, TornFile

ASSUME UpgradeAssumption ==
    /\ {NoFile, TornFile} \cap Images = {} /\ NoFile # TornFile /\ First \in Images
    /\ {Budget, MaxUpgrades, MaxUpgradeFaults} \subseteq Nat /\ MaxAttempts \in Nat \ {0}

VARIABLES ssh,            \* SSHOpts.Enabled; otherwise the operator deploys
          live, bak,      \* compose files on the operator's machine
          rlive, rbak,    \* compose files on the node's host
          container,      \* image the node runs
          upc, cur,       \* the driver: phase, step.Name, step.NewImage
          target,
          polls, attempt, \* loops of waitReady and phaseVerify
          cancelled,      \* the context is done
          status,         \* step.Status of the node's last step
          log,            \* last entry of the upgrade log about the node
          before, matched,\* history: container when the step began, and whether
                          \* the live file named that image and could be read
          upgrades, ufaults

files == <<live, bak, rlive, rbak>>
loops == <<polls, attempt>>
history == <<before, matched>>
uvars == <<ssh, files, container, upc, cur, target, loops, cancelled, status, log, history,
           upgrades, ufaults>>

Runnable == Images \ InvalidRefs      \* no registry serves the other references
NoStep == "none"                      \* the driver has no node and no target
Content == Images \cup {NoFile, TornFile}
Phases == {"snapshot", "render", "deploy", "wait_ready", "init", "verify",
           "restore", "redeploy", "recover", "reconcile"}

(* Every variable holds a value of its shape; the driver has a node and a  *)
(* target exactly while it works.                                          *)
UpgradeTypeOK ==
    /\ ssh \in BOOLEAN
    /\ live \in [Nodes -> Content] /\ bak \in [Nodes -> Content]
    /\ rlive \in [Nodes -> Content] /\ rbak \in [Nodes -> Content]
    /\ container \in [Nodes -> Images]
    /\ upc \in Phases \cup {"idle"}
    /\ upc # "idle" => cur \in Nodes /\ target \in Images
    /\ polls \in 0 .. Budget /\ attempt \in 1 .. MaxAttempts
    /\ cancelled \in BOOLEAN
    /\ status \in [Nodes -> {"planned", "running", "done", "failed", "rolled_back"}]
    /\ log \in [Nodes -> (Phases \cup {"none", "rollback"}) \X {"none", "running", "ok", "failed"}]
    /\ before \in [Nodes -> Images] /\ matched \in [Nodes -> BOOLEAN]
    /\ upgrades \in 0 .. MaxUpgrades /\ ufaults \in 0 .. MaxUpgradeFaults

(* The first compose file of a node is on the operator's machine, unless   *)
(* it was deployed from elsewhere.                                         *)
UpgradeInit ==
    /\ ssh \in BOOLEAN
    /\ live \in [Nodes -> {First, NoFile}]
    /\ bak = [n \in Nodes |-> NoFile]
    /\ rlive = live /\ rbak = bak
    /\ container = [n \in Nodes |-> First]
    /\ upc = "idle" /\ cur = NoStep /\ target = NoStep
    /\ polls = 0 /\ attempt = 1 /\ cancelled = FALSE
    /\ status = [n \in Nodes |-> "planned"]
    /\ log = [n \in Nodes |-> <<"none", "none">>]
    /\ before = container /\ matched = [n \in Nodes |-> live[n] = First]
    /\ upgrades = 0 /\ ufaults = 0

-----------------------------------------------------------------------------
UpgradeFault == ufaults < MaxUpgradeFaults /\ ufaults' = ufaults + 1

(* phaseWithLog: the next phase begins, or the step ends. *)
LogPhase(p) ==
    CASE p \in {"snapshot", "render"} -> "snapshot"
      [] p \in {"restore", "redeploy", "recover", "reconcile"} -> "rollback"
      [] OTHER -> p

GoTo(p) ==
    /\ upc' = p
    /\ log' = [log EXCEPT ![cur] = <<LogPhase(p), "running">>]
    /\ polls' = 0 /\ attempt' = 1
    /\ UNCHANGED <<cur, target, cancelled, status>>

Finish(st, outcome) ==
    /\ upc' = "idle" /\ cur' = NoStep /\ target' = NoStep
    /\ status' = [status EXCEPT ![cur] = st]
    /\ log' = [log EXCEPT ![cur] = <<LogPhase(upc), outcome>>]
    /\ polls' = 0 /\ attempt' = 1 /\ cancelled' = FALSE

(* A phase before verify fails: the step ends there, nothing is undone. *)
Fail == Finish("failed", "failed")

Idle == UNCHANGED <<ssh, history, upgrades>>

(* UpgradeNode begins. *)
UpgradeNode(n, image) ==
    /\ upc = "idle"
    /\ upgrades < MaxUpgrades
    /\ upgrades' = upgrades + 1
    /\ upc' = "snapshot" /\ cur' = n /\ target' = image
    /\ status' = [status EXCEPT ![n] = "running"]
    /\ log' = [log EXCEPT ![n] = <<"snapshot", "running">>]
    /\ before' = [before EXCEPT ![n] = container[n]]
    /\ matched' = [matched EXCEPT ![n] = live[n] = container[n]]
    /\ UNCHANGED <<ssh, files, container, loops, cancelled, ufaults>>

(* A file of the operator's machine is written, or it cannot be opened, or *)
(* the write fails half way.                                               *)
Written(file, content) == file' = [file EXCEPT ![cur] = content]
HalfWritten(file) == UpgradeFault /\ \E c \in {file[cur], TornFile} : Written(file, c)

(* Mutant of phasePrepareSnapshot: an existing .bak is kept. *)
phasePrepareSnapshot_KeepsOld ==
    /\ upc = "snapshot"
    /\ GoTo("render")
    /\ bak' = IF bak[cur] = NoFile THEN [bak EXCEPT ![cur] = live[cur]] ELSE bak
    /\ UNCHANGED <<live, rlive, rbak, container, ufaults>> /\ Idle

(* phasePrepare, first half: the live file is copied to .bak, if there is  *)
(* one; whatever an earlier upgrade saved there is overwritten.  A live    *)
(* file that cannot be read is passed over like one that is not there.     *)
phasePrepareSnapshot ==
    /\ upc = "snapshot"
    /\ \/ /\ \/ live[cur] = NoFile /\ GoTo("render") /\ UNCHANGED <<bak, ufaults>>
             \/ live[cur] # NoFile /\ Written(bak, live[cur]) /\ GoTo("render") /\ UNCHANGED ufaults
             \/ live[cur] # NoFile /\ HalfWritten(bak) /\ Fail
          /\ UNCHANGED matched
       \/ /\ live[cur] # NoFile /\ UpgradeFault /\ GoTo("render") /\ UNCHANGED bak
          /\ Written(matched, FALSE)
    /\ UNCHANGED <<live, rlive, rbak, container, ssh, before, upgrades>>

(* phasePrepare, second half: the live file is rendered for the target. *)
phasePrepareRender ==
    /\ upc = "render"
    /\ \/ Written(live, target) /\ GoTo("deploy") /\ UNCHANGED ufaults
       \/ HalfWritten(live) /\ Fail
    /\ UNCHANGED <<bak, rlive, rbak, container>> /\ Idle

(* UploadComposeFile followed by `docker compose up -d` on the uploaded    *)
(* file.  It fails before the remote file is created, while it is copied   *)
(* (the size check catches a short copy), once the file is there (the      *)
(* check itself, the pull, the start of the container), or when the        *)
(* connection is lost with the container started.                          *)
Upload(remote, p) ==
    \/ /\ live[cur] \in Runnable
       /\ Written(remote, live[cur])
       /\ Written(container, live[cur])
       /\ GoTo(p)
       /\ UNCHANGED ufaults
    \/ /\ live[cur] \notin Runnable
       /\ Written(remote, live[cur])
       /\ Fail
       /\ UNCHANGED <<container, ufaults>>
    \/ /\ UpgradeFault
       /\ \/ /\ \E c \in {remote[cur], TornFile, live[cur]} : Written(remote, c)
             /\ UNCHANGED container
          \/ /\ live[cur] \in Runnable
             /\ Written(remote, live[cur])
             /\ Written(container, live[cur])
       /\ Fail

(* phaseDeploy: over SSH the reference is validated, then the file goes to *)
(* the host; otherwise the path is printed for the operator.               *)
phaseDeploy ==
    /\ upc = "deploy"
    /\ \/ ~ssh /\ GoTo("wait_ready") /\ UNCHANGED <<rlive, container, ufaults>>
       \/ ssh /\ target \in InvalidRefs /\ Fail /\ UNCHANGED <<rlive, container, ufaults>>
       \/ ssh /\ target \notin InvalidRefs /\ Upload(rlive, "wait_ready")
    /\ UNCHANGED <<live, bak, rbak>> /\ Idle

(* The operator runs the printed command, at any time. *)
ManualDeploy(n) ==
    /\ ~ssh
    /\ live[n] \in Runnable
    /\ container[n] # live[n]
    /\ rlive' = [rlive EXCEPT ![n] = live[n]]
    /\ container' = [container EXCEPT ![n] = live[n]]
    /\ UNCHANGED <<ssh, live, bak, rbak, upc, cur, target, loops, cancelled, status, log,
                   history, upgrades, ufaults>>

(* One poll of waitReady that is not answered. *)
PollAgain ==
    /\ polls < Budget /\ ~cancelled
    /\ polls' = polls + 1
    /\ UNCHANGED <<upc, cur, target, attempt, cancelled, status, log, ufaults>>

(* waitReady, in phaseWaitReady and in rollbackNode: GetStatus is answered *)
(* (by whatever container runs), or the context ends, or the budget does;  *)
(* or the node's token cannot be read and nothing is polled.               *)
waitReady(p, next) ==
    /\ upc = p
    /\ \/ polls < Budget /\ ~cancelled /\ GoTo(next) /\ UNCHANGED ufaults
       \/ PollAgain
       \/ (polls = Budget \/ cancelled) /\ Fail /\ UNCHANGED ufaults
       \/ polls = 0 /\ UpgradeFault /\ Fail
    /\ UNCHANGED <<files, container>> /\ Idle

(* phaseInit: nothing for a master; for an endpoint a certificate and the  *)
(* Init RPC, any part of which may fail.                                   *)
phaseInit ==
    /\ upc = "init"
    /\ \/ (cur \in Endpoints => ~cancelled) /\ GoTo("verify") /\ UNCHANGED ufaults
       \/ cur \in Endpoints /\ cancelled /\ Fail /\ UNCHANGED ufaults
       \/ cur \in Endpoints /\ ~cancelled /\ UpgradeFault /\ Fail
    /\ UNCHANGED <<files, container>> /\ Idle

(* Mutant of phaseVerify: the attempts are counted anew after the last. *)
phaseVerify_Again ==
    /\ upc = "verify"
    /\ \/ Finish("done", "ok")
       \/ /\ attempt' = (attempt % MaxAttempts) + 1
          /\ UNCHANGED <<upc, cur, target, polls, cancelled, status, log>>
    /\ UNCHANGED <<files, container, ufaults>> /\ Idle

(* phaseVerify: the probes of the node's pairs pass, or a pair is broken   *)
(* in every attempt; then the rollback begins.  The context is not asked.  *)
phaseVerify ==
    /\ upc = "verify"
    /\ \/ Finish("done", "ok") /\ UNCHANGED ufaults
       \/ /\ attempt < MaxAttempts
          /\ attempt' = attempt + 1
          /\ UNCHANGED <<upc, cur, target, polls, cancelled, status, log, ufaults>>
       \/ attempt = MaxAttempts /\ GoTo("restore") /\ UpgradeFault
    /\ UNCHANGED <<files, container>> /\ Idle

(* rollbackNode, step 1: .bak goes over the live file; without a .bak the  *)
(* live file, rendered for the target, stays.                              *)
rollbackRestore ==
    /\ upc = "restore"
    /\ \/ bak[cur] = NoFile /\ GoTo("redeploy") /\ UNCHANGED <<live, ufaults>>
       \/ bak[cur] # NoFile /\ Written(live, bak[cur]) /\ GoTo("redeploy") /\ UNCHANGED ufaults
       \/ bak[cur] # NoFile /\ HalfWritten(live) /\ Fail
    /\ UNCHANGED <<bak, rlive, rbak, container>> /\ Idle

(* rollbackNode, step 2: over SSH the live file goes to the host's .bak    *)
(* path and is started from there; the host's live file is left alone.     *)
sshRollback ==
    /\ upc = "redeploy"
    /\ \/ ssh /\ Upload(rbak, "recover")
       \/ ~ssh /\ GoTo("recover") /\ UNCHANGED <<rbak, container, ufaults>>
    /\ UNCHANGED <<live, bak, rlive>> /\ Idle

(* rollbackNode, step 4: Reconcile. *)
rollbackReconcile ==
    /\ upc = "reconcile"
    /\ \/ Finish("rolled_back", "ok") /\ UNCHANGED ufaults
       \/ UpgradeFault /\ Fail
    /\ UNCHANGED <<files, container>> /\ Idle

(* The operator interrupts the command: the context ends, no phase but     *)
(* waitReady and Init looks at it.                                         *)
Cancel ==
    /\ upc # "idle" /\ ~cancelled
    /\ UpgradeFault
    /\ cancelled' = TRUE
    /\ UNCHANGED <<ssh, files, container, upc, cur, target, loops, status, log, history, upgrades>>

(* The process dies.  The status was in memory; a file being written is    *)
(* left torn.                                                              *)
UpgradeCrash ==
    /\ upc # "idle"
    /\ UpgradeFault
    /\ \/ UNCHANGED files
       \/ /\ upc = "snapshot" /\ live[cur] # NoFile
          /\ Written(bak, TornFile) /\ UNCHANGED <<live, rlive, rbak>>
       \/ upc = "render" /\ Written(live, TornFile) /\ UNCHANGED <<bak, rlive, rbak>>
       \/ /\ upc = "restore" /\ bak[cur] # NoFile
          /\ Written(live, TornFile) /\ UNCHANGED <<bak, rlive, rbak>>
       \/ /\ upc = "deploy" /\ ssh /\ target \in Runnable
          /\ Written(rlive, TornFile) /\ UNCHANGED <<live, bak, rbak>>
       \/ upc = "redeploy" /\ ssh /\ Written(rbak, TornFile) /\ UNCHANGED <<live, bak, rlive>>
    /\ upc' = "idle" /\ cur' = NoStep /\ target' = NoStep
    /\ polls' = 0 /\ attempt' = 1 /\ cancelled' = FALSE
    /\ status' = [status EXCEPT ![cur] = "planned"]
    /\ UNCHANGED <<container, log>> /\ Idle

DriverStep ==
    \/ phasePrepareSnapshot \/ phasePrepareRender \/ phaseDeploy
    \/ waitReady("wait_ready", "init") \/ phaseInit \/ phaseVerify
    \/ rollbackRestore \/ sshRollback \/ waitReady("recover", "reconcile") \/ rollbackReconcile

UpgradeNext ==
    \/ \E n \in Nodes, image \in Images : UpgradeNode(n, image)
    \/ DriverStep
    \/ \E n \in Nodes : ManualDeploy(n)
    \/ Cancel \/ UpgradeCrash

UpgradeSpec == UpgradeInit /\ [][UpgradeNext]_uvars

(* Every loop of the driver is bounded by a budget or a number of          *)
(* attempts, and the driver never waits for anybody else.                  *)
UpgradeFairSpec == UpgradeSpec /\ WF_uvars(DriverStep)

-----------------------------------------------------------------------------
(* A step that ended well leaves the node running the image of the         *)
(* operator's live compose file: after an upgrade that verified, and after *)
(* a rollback (UpgradeNode, sshRollback).  Over SSH, where the driver      *)
(* deploys.                                                                *)
SettledRunsLive ==
    ssh => \A n \in Nodes : status[n] \in {"done", "rolled_back"} => container[n] = live[n]

(* What UpgradeNode's message promises, "node rolled back to previous      *)
(* version": after a rollback the node runs what it ran before the step.   *)
(* The code keeps this only as far as CleanRollbackRestores says.          *)
RolledBackRunsPrevious ==
    ssh => \A n \in Nodes : status[n] = "rolled_back" => container[n] = before[n]

(* The promise holds when the live compose file named the running image as *)
(* the step began and could be read: the last step ended well, the file    *)
(* existed, and the snapshot was taken from it.                            *)
CleanRollbackRestores ==
    ssh => \A n \in Nodes :
             status[n] = "rolled_back" /\ matched[n] => container[n] = before[n]

(* From such a start, whatever fails and wherever the process dies, the    *)
(* compose file of the previous image is still on the operator's machine,  *)
(* as the live file or as the snapshot the error message points to.        *)
PreviousComposeKept ==
    \A n \in Nodes : matched[n] => before[n] \in {live[n], bak[n]}

(* UpgradeNode returns: no phase, retry loop or rollback runs for ever. *)
UpgradeEnds == upc # "idle" ~> upc = "idle"

(* Upgrade and rollback together: a node that settled runs its live file,  *)
(* a clean rollback brings back the image from before, and the file that   *)
(* names this image is never lost, whatever fails or dies in whatever      *)
(* phase (UpgradeNode, sshRollback).                                       *)
UpgradeSafe == UpgradeTypeOK /\ SettledRunsLive /\ CleanRollbackRestores /\ PreviousComposeKept
=============================================================================
