-------------------------- MODULE Operations_proofs -------------------------
(***************************************************************************)
(* Proofs about what an operator does to a running mesh: modules           *)
(* KeyRotation and EndpointRotation, and, in the second part, module       *)
(* Upgrade, for any nodes, images, budgets and number of operations and    *)
(* failures.                                                               *)
(***************************************************************************)
EXTENDS KeyRotation, EndpointRotation, Upgrade, TLAPS

USE ZenonT(60)

-----------------------------------------------------------------------------
(* Tiers 1 and 2. *)

CommandRecord ==
  cmd = [tier |-> cmd.tier, pc |-> cmd.pc, left |-> cmd.left, failed |-> cmd.failed,
         fit |-> cmd.fit, result |-> cmd.result]

(* Until the masters are sent to, every agent is old; a preflight leaves no *)
(* master unaccounted for; and a master that was sent to is new unless its  *)
(* failure is recorded.                                                     *)
EndpointInv ==
  /\ CommandRecord /\ cmd.fit \subseteq EndpointMasters
  /\ agent \in [EndpointMasters -> {Old, New}]
  /\ cmd.pc \in {"new", "connect", "preflight"} => \A m \in EndpointMasters : agent[m] = Old
  /\ cmd.pc = "new" => cmd.left = EndpointMasters
  /\ cmd.pc = "preflight" => EndpointMasters \subseteq cmd.left \cup cmd.failed \cup cmd.fit
  /\ cmd.pc \in {"connect", "preflight"} => cmd.tier = 2
  /\ cmd.pc = "rotate" /\ cmd.tier = 2 => cmd.fit = EndpointMasters
  /\ cmd.pc = "rotate" => \A m \in EndpointMasters \ (cmd.left \cup cmd.failed) : agent[m] = New
  /\ cmd.result = "ok" => cmd.pc = "done"
  /\ PreflightFirst
  /\ RotatedEverywhere

USE DEF EndpointInv, CommandRecord, PreflightFirst, RotatedEverywhere, Old, New, None

-----------------------------------------------------------------------------
(* It holds before the command. *)
LEMMA EndpointInitInv ==
  ASSUME EndpointInit
  PROVE  EndpointInv
  BY DEF EndpointInit, IdleCommand

(* The steps of the command that end a phase. *)
LEMMA PhaseStep ==
  ASSUME EndpointInv, rotateCommand \/ phaseDone \/ rotateDone
  PROVE  EndpointInv'
<1>1. CASE rotateCommand
  <2>1. cmd.pc = "new" /\ cmd.result # "ok" /\ UNCHANGED agent
    BY <1>1 DEF rotateCommand
  <2>2. CASE cmd' = [cmd EXCEPT !.tier = 1, !.pc = "rotate"]
    <3>1. cmd' = [tier |-> 1, pc |-> "rotate", left |-> EndpointMasters, failed |-> cmd.failed,
                  fit |-> cmd.fit, result |-> cmd.result]
      BY <2>1, <2>2
    <3>2. PreflightFirst' /\ RotatedEverywhere'
      BY <2>1, <3>1
    <3>3. \A m \in EndpointMasters \ (cmd'.left \cup cmd'.failed) : agent'[m] = New
      BY <3>1
    <3> QED BY <2>1, <3>1, <3>2, <3>3, SMTT(30)
  <2>3. CASE cmd' = [cmd EXCEPT !.tier = 2, !.pc = "connect"]
    BY <2>1, <2>3
  <2> QED BY <1>1, <2>2, <2>3 DEF rotateCommand
<1>2. CASE phaseDone
  <2>1. CASE AllFine
    BY <1>2, <2>1 DEF phaseDone, AllFine
  <2>2. CASE ~AllFine
    BY <1>2, <2>2 DEF phaseDone
  <2> QED BY <2>1, <2>2
<1>3. CASE rotateDone
  BY <1>3 DEF rotateDone, NoFailures
<1> QED BY <1>1, <1>2, <1>3

(* The steps at one master. *)
LEMMA MasterStep ==
  ASSUME EndpointInv, NEW m \in EndpointMasters, connectMaster(m) \/ preflight(m) \/ RotateParams(m)
  PROVE  EndpointInv'
<1>1. CASE connectMaster(m)
  BY <1>1 DEF connectMaster
<1>2. CASE preflight(m)
  <2>0. PICK healthy \in BOOLEAN :
         cmd' = [cmd EXCEPT !.left = @ \ {m}, !.fit = IF healthy THEN @ \cup {m} ELSE @,
                            !.failed = IF healthy THEN @ ELSE @ \cup {m}]
    BY <1>2 DEF preflight
  <2>1. cmd' = [tier |-> cmd.tier, pc |-> cmd.pc, left |-> cmd.left \ {m},
                failed |-> IF healthy THEN cmd.failed ELSE cmd.failed \cup {m},
                fit |-> IF healthy THEN cmd.fit \cup {m} ELSE cmd.fit, result |-> cmd.result]
    BY <2>0
  <2>2. cmd.pc = "preflight" /\ UNCHANGED agent
    BY <1>2 DEF preflight
  <2>3. CASE healthy
    BY <2>1, <2>2, <2>3
  <2>4. CASE ~healthy
    BY <2>1, <2>2, <2>4
  <2> QED BY <2>3, <2>4
<1>3. CASE RotateParams(m)
  <2>1. cmd.pc = "rotate" /\ cmd.result # "ok"
    BY <1>3 DEF RotateParams
  <2>2. agent' \in [EndpointMasters -> {Old, New}] /\ (\A n \in EndpointMasters : agent[n] = New => agent'[n] = New)
    BY <1>3 DEF RotateParams
  <2>3. CASE cmd' = [cmd EXCEPT !.left = @ \ {m}] /\ agent' = [agent EXCEPT ![m] = New]
    <3>1. cmd' = [tier |-> cmd.tier, pc |-> cmd.pc, left |-> cmd.left \ {m},
                  failed |-> cmd.failed, fit |-> cmd.fit, result |-> cmd.result]
      BY <2>3
    <3>2. agent'[m] = New
      BY <2>3
    <3> QED BY <2>1, <2>2, <3>1, <3>2
  <2>4. CASE cmd' = [cmd EXCEPT !.left = @ \ {m}, !.failed = @ \cup {m}]
    <3>1. cmd' = [tier |-> cmd.tier, pc |-> cmd.pc, left |-> cmd.left \ {m},
                  failed |-> cmd.failed \cup {m}, fit |-> cmd.fit, result |-> cmd.result]
      BY <2>4
    <3> QED BY <2>1, <2>2, <3>1
  <2> QED BY <1>3, <2>3, <2>4 DEF RotateParams
<1> QED BY <1>1, <1>2, <1>3

HIDE DEF EndpointInv

(* It holds throughout. *)
LEMMA EndpointInvariance == EndpointSpec => []EndpointInv
<1>1. EndpointInit => EndpointInv
  BY EndpointInitInv
<1>2. EndpointInv /\ [EndpointNext]_evars => EndpointInv'
  <2> SUFFICES ASSUME EndpointInv, [EndpointNext]_evars PROVE EndpointInv'
    OBVIOUS
  <2>1. CASE UNCHANGED evars
    BY <2>1 DEF evars, EndpointInv
  <2>2. CASE EndpointNext
    BY <2>2, PhaseStep, MasterStep DEF EndpointNext
  <2> QED BY <2>1, <2>2
<1> QED BY <1>1, <1>2, PTL DEF EndpointSpec

(* The command's record keeps its shape. *)
LEMMA EndpointTyping == EndpointSpec => []EndpointTypeOK
<1>1. EndpointInit => EndpointTypeOK
  BY SMTT(30) DEF EndpointInit, IdleCommand, EndpointTypeOK
<1>2. EndpointInv /\ EndpointTypeOK /\ [EndpointNext]_evars => EndpointTypeOK'
  <2> SUFFICES ASSUME CommandRecord, EndpointTypeOK, [EndpointNext]_evars PROVE EndpointTypeOK'
    BY DEF EndpointInv
  <2> USE DEF EndpointTypeOK
  <2>1. CASE UNCHANGED evars
    BY <2>1 DEF evars
  <2>2. CASE rotateCommand
    <3>1. UNCHANGED agent /\ 1 \in 0..2 /\ 2 \in 0..2
      BY <2>2, SMTT(30) DEF rotateCommand
    <3>2. CASE cmd' = [cmd EXCEPT !.tier = 1, !.pc = "rotate"]
      <4>1. cmd' = [tier |-> 1, pc |-> "rotate", left |-> cmd.left, failed |-> cmd.failed,
                    fit |-> cmd.fit, result |-> cmd.result]
        BY <3>2
      <4> QED BY <3>1, <4>1
    <3>3. CASE cmd' = [cmd EXCEPT !.tier = 2, !.pc = "connect"]
      <4>1. cmd' = [tier |-> 2, pc |-> "connect", left |-> cmd.left, failed |-> cmd.failed,
                    fit |-> cmd.fit, result |-> cmd.result]
        BY <3>3
      <4> QED BY <3>1, <4>1
    <3> QED BY <2>2, <3>2, <3>3 DEF rotateCommand
  <2>3. CASE phaseDone
    BY <2>3 DEF phaseDone
  <2>4. CASE rotateDone
    BY <2>4 DEF rotateDone
  <2>5. ASSUME NEW m \in EndpointMasters, connectMaster(m) \/ preflight(m) \/ RotateParams(m)
        PROVE  EndpointTypeOK'
    <3>1. agent' \in [EndpointMasters -> {Old, New}]
      BY <2>5 DEF connectMaster, preflight, RotateParams
    <3>2. cmd'.tier = cmd.tier /\ cmd'.pc = cmd.pc
      BY <2>5 DEF connectMaster, preflight, RotateParams
    <3>3. cmd'.left = cmd.left \ {m}
      BY <2>5 DEF connectMaster, preflight, RotateParams
    <3>4. cmd'.failed \subseteq cmd.failed \cup {m}
      <4>1. CASE connectMaster(m)
        BY <4>1 DEF connectMaster
      <4>2. CASE preflight(m)
        BY <4>2 DEF preflight
      <4>3. CASE RotateParams(m)
        BY <4>3 DEF RotateParams
      <4> QED BY <2>5, <4>1, <4>2, <4>3
    <3> QED BY <3>1, <3>2, <3>3, <3>4
  <2> QED BY <2>1, <2>2, <2>3, <2>4, <2>5 DEF EndpointNext
<1> QED BY <1>1, <1>2, EndpointInvariance, PTL DEF EndpointSpec

HIDE DEF PreflightFirst, RotatedEverywhere
-----------------------------------------------------------------------------
(* executeTier2Rotation sends to no master before all were found healthy.   *)
THEOREM Tier2Preflight == EndpointSpec => []PreflightFirst
<1>1. EndpointInv => PreflightFirst
  BY DEF EndpointInv
<1> QED BY <1>1, EndpointInvariance, PTL

(* A rotation that reports success changed every master of the endpoint.    *)
THEOREM RotationReachesAll == EndpointSpec => []RotatedEverywhere
<1>1. EndpointInv => RotatedEverywhere
  BY DEF EndpointInv
<1> QED BY <1>1, EndpointInvariance, PTL

(* Neither tier leaves the masters apart without saying so: the run's       *)
(* property of executeTier2Rotation and the rotate command, for any number  *)
(* of masters.                                                              *)
THEOREM TiersSafety == EndpointSpec => []TiersSafe
<1>1. EndpointTypeOK /\ PreflightFirst /\ RotatedEverywhere => TiersSafe
  BY DEF TiersSafe
<1> QED BY <1>1, EndpointTyping, Tier2Preflight, RotationReachesAll, PTL

HIDE DEF CommandRecord, Old, New, None

-----------------------------------------------------------------------------
(* Tier 3. *)

AllPcs == Ended \cup LockPcs \cup TxnPcs \cup {"endpoint", "fanout", "revert", "commit", "refused"}
WindowsPcs == {"record", "inspect", "retry", "reclaim", "recreate"}
Critical == TxnPcs \cup {"commit", "record"}

Sound == ~(platform = "windows" /\ reclaimed)
Held(o) == IF platform = "unix" THEN flock = o ELSE lockfile = o

PcInv ==
  /\ pc \in [Ops -> AllPcs] /\ platform \in {"unix", "windows"}
  /\ platform = "unix" => \A o \in Ops : pc[o] \notin WindowsPcs

(* Who is in the transaction, or about to write the record of the lock it   *)
(* created, holds the lock.                                                 *)
LockInv == Sound => \A o \in Ops : pc[o] \in Critical => Held(o)

(* The file is whole, and so is pubkey.tmp when it is to be renamed.        *)
FileInv == Sound => pubkey # Torn /\ \A o \in Ops : pc[o] = "rename" => tmp # Torn

RotInv == PcInv /\ LockInv /\ FileInv

USE DEF PcInv, LockInv, FileInv, Sound, Held, AllPcs, WindowsPcs, Critical,
        Ended, LockPcs, TxnPcs, storeVars, lockVars

-----------------------------------------------------------------------------
(* The distinguished values are none of the keys rotations write.           *)
LEMMA Values == Nil \notin Ops /\ Torn \notin Ops /\ K0 # Torn
  BY AdminStateAssumption

(* In the transaction there is one operation at most. *)
LEMMA Alone ==
  ASSUME RotInv, Sound, NEW o \in Ops, NEW p \in Ops, pc[o] \in Critical, pc[p] \in Critical
  PROVE  o = p
  BY DEF RotInv

LEMMA RotInitInv ==
  ASSUME Init
  PROVE  RotInv
  BY Values DEF Init, AdminInit, RotInv

(* A step that leaves lock and file alone and moves one operation to a step *)
(* outside of the transaction.                                              *)
LEMMA OutsideStep ==
  ASSUME RotInv, NEW o \in Ops, NEW x \in AllPcs \ (Critical \cup WindowsPcs),
         pc' = [pc EXCEPT ![o] = x], UNCHANGED <<platform, storeVars, lockVars>>
  PROVE  RotInv'
<1>1. PcInv'
  BY DEF RotInv
<1>2. LockInv' /\ FileInv'
  BY DEF RotInv
<1> QED BY <1>1, <1>2 DEF RotInv

(* A step that changes none of what the invariant speaks of. *)
LEMMA StutterStep ==
  ASSUME RotInv, UNCHANGED <<platform, pubkey, tmp, flock, lockfile, reclaimed, pc>>
  PROVE  RotInv'
  BY DEF RotInv

(* LOCK_EX|LOCK_NB is granted to one. *)
LEMMA FlockStep ==
  ASSUME RotInv, NEW o \in Ops, acquireFlock(o), platform' = platform
  PROVE  RotInv'
<1>1. CASE flock = Nil
  BY <1>1, Values DEF RotInv, acquireFlock, At, Go
<1>2. CASE flock # Nil
  BY <1>2, OutsideStep DEF acquireFlock, At, Go
<1> QED BY <1>1, <1>2

(* O_EXCL creates a lock only where none is. *)
LEMMA CreateStep ==
  ASSUME RotInv, NEW o \in Ops, NEW here, NEW otherwise \in {"inspect", "refused"},
         tryAdminLockCreate(o, here, otherwise), platform' = platform
  PROVE  RotInv'
<1>1. platform = "windows" /\ UNCHANGED <<storeVars, flock, reclaimed>>
  BY DEF tryAdminLockCreate
<1>2. CASE lockfile = Nil /\ lockfile' = o /\ pc' = [pc EXCEPT ![o] = "record"]
  BY <1>1, <1>2, Values DEF RotInv
<1>3. CASE UNCHANGED lockfile /\ pc' = [pc EXCEPT ![o] = otherwise]
  BY <1>1, <1>3 DEF RotInv
<1> QED BY <1>2, <1>3 DEF tryAdminLockCreate, Go

(* The record is written; the lock is inspected or reclaimed.               *)
LEMMA RecordStep ==
  ASSUME RotInv, NEW o \in Ops, writeRecord(o) \/ inspectLock(o) \/ reclaimLock(o),
         platform' = platform
  PROVE  RotInv'
<1>1. platform = "windows"
  BY DEF RotInv, writeRecord, inspectLock, reclaimLock, At
<1>2. CASE writeRecord(o)
  BY <1>1, <1>2 DEF RotInv, writeRecord, At, Go
<1>3. CASE inspectLock(o)
  <2> PICK x \in {"retry", "reclaim", "refused"} : pc' = [pc EXCEPT ![o] = x]
    BY <1>3 DEF inspectLock, Go
  <2> QED BY <1>1, <1>3 DEF RotInv, inspectLock
<1>4. CASE reclaimLock(o)
  <2>1. reclaimed'
    BY <1>4 DEF reclaimLock
  <2>2. PICK x \in {"recreate", "refused"} : pc' = [pc EXCEPT ![o] = x]
    BY <1>4 DEF reclaimLock, Go
  <2> QED BY <1>1, <2>1, <2>2 DEF RotInv
<1> QED BY <1>2, <1>3, <1>4

(* The transaction: only its one operation touches pubkey.tmp and the file. *)
LEMMA TransactionStep ==
  ASSUME RotInv, NEW o \in Ops, openTmp(o) \/ writeTmp(o) \/ renameTmp(o), platform' = platform
  PROVE  RotInv'
<1>1. pc[o] \in {"open", "write", "rename"} /\ UNCHANGED lockVars
  BY DEF openTmp, writeTmp, renameTmp, At
<1>2. PICK x \in {"write", "rename", "release", "commit"} : pc' = [pc EXCEPT ![o] = x]
  BY DEF openTmp, writeTmp, renameTmp, Go
<1>3. PcInv'
  BY <1>2 DEF RotInv
<1>4. LockInv'
  BY <1>1, <1>2 DEF RotInv
<1>5. FileInv'
  <2> SUFFICES ASSUME Sound PROVE FileInv'
    BY <1>1
  <2>1. \A p \in Ops : p # o => pc'[p] # "rename"
    BY <1>1, <1>2, Alone DEF RotInv
  <2>2. pubkey' # Torn
    BY DEF RotInv, openTmp, writeTmp, renameTmp, At
  <2>3. pc'[o] = "rename" => tmp' # Torn
    BY <1>1, <1>2, Values DEF RotInv, openTmp, writeTmp, renameTmp, At, Go
  <2> QED BY <2>1, <2>2, <2>3
<1> QED BY <1>3, <1>4, <1>5 DEF RotInv

(* The lock is dropped by the one who holds it, or with its process.        *)
LEMMA ReleaseStep ==
  ASSUME RotInv, NEW o \in Ops, CommitDone(o) \/ Crash(o)
  PROVE  RotInv'
<1>1. /\ flock' = (IF flock = o THEN Nil ELSE flock)
      /\ UNCHANGED <<platform, pubkey, tmp, reclaimed>>
  BY DEF CommitDone, Crash, releaseLock, adminCrash, End
<1>2. PICK x \in {"ok", "error", "crashed"} : pc' = [pc EXCEPT ![o] = x]
  BY DEF CommitDone, Crash, End, Go
<1>3. PcInv'
  BY <1>1, <1>2 DEF RotInv
<1>4. LockInv'
  <2> SUFFICES ASSUME Sound, NEW p \in Ops, pc'[p] \in Critical PROVE Held(p)'
    BY <1>1
  <2>1. p # o /\ pc[p] \in Critical
    BY <1>2 DEF RotInv
  <2>2. Held(p)
    BY <2>1 DEF RotInv
  <2>3. CASE CommitDone(o)
    BY <2>1, <2>3, Alone DEF CommitDone
  <2>4. CASE Crash(o)
    BY <1>1, <2>1, <2>2, <2>4 DEF Crash, adminCrash
  <2> QED BY <2>3, <2>4
<1>5. FileInv'
  BY <1>1, <1>2 DEF RotInv
<1> QED BY <1>3, <1>4, <1>5 DEF RotInv

(* The steps of a rotation away from the admin-state file.                  *)
LEMMA ClusterStep ==
  ASSUME RotInv, NEW o \in Ops,
         \/ Start(o) \/ RotateKeypair(o) \/ UpdateTunnelPeer(o) \/ FanoutDone(o)
         \/ Revert(o) \/ RevertDone(o) \/ CommitRefused(o)
  PROVE  RotInv'
<1>1. UNCHANGED <<platform, storeVars, lockVars>>
  BY DEF Start, RotateKeypair, UpdateTunnelPeer, FanoutDone, Revert, RevertDone, CommitRefused, End
<1>2. CASE Start(o) \/ RotateKeypair(o) \/ FanoutDone(o) \/ RevertDone(o) \/ CommitRefused(o)
  <2> PICK x \in {"endpoint", "error", "fanout", "revert", "acquire"} : pc' = [pc EXCEPT ![o] = x]
    BY <1>2 DEF Start, RotateKeypair, FanoutDone, RevertDone, CommitRefused, End, Go
  <2> QED BY <1>1, OutsideStep
<1>3. CASE UpdateTunnelPeer(o) \/ Revert(o)
  BY <1>1, <1>3, StutterStep DEF UpdateTunnelPeer, Revert, Settle
<1> QED BY <1>2, <1>3

(* Every step keeps it. *)
LEMMA RotNextStep ==
  ASSUME RotInv, [Next]_vars
  PROVE  RotInv'
<1>1. CASE UNCHANGED vars
  BY <1>1, StutterStep DEF vars
<1>2. ASSUME NEW o \in Ops, Commit(o) PROVE RotInv'
  BY <1>2, FlockStep, CreateStep, RecordStep, TransactionStep
  DEF Commit, SetPubkey, createLock, retryLock, recreateLock
<1>3. ASSUME NEW o \in Ops, Start(o) \/ Rotation(o) \/ Crash(o) PROVE RotInv'
  BY <1>2, <1>3, ClusterStep, ReleaseStep DEF Rotation
<1>4. CASE LateRequest \/ Aging
  BY <1>4, StutterStep DEF LateRequest, Aging, LockAges, rotationVars
<1> QED BY <1>1, <1>3, <1>4 DEF Next

(* It holds throughout. *)
LEMMA RotInvariance == Spec => []RotInv
<1>1. Init => RotInv
  BY RotInitInv
<1>2. RotInv /\ [Next]_vars => RotInv'
  BY RotNextStep
<1> QED BY <1>1, <1>2, PTL DEF Spec

-----------------------------------------------------------------------------
(* Store.SetPubkey: two operations are in the transaction only after a      *)
(* windows lock was reclaimed by its age.                                   *)
THEOREM AdminOneWriter == Spec => []OneWriter
<1>1. RotInv => OneWriter
  BY Alone DEF RotInv, OneWriter
<1> QED BY <1>1, RotInvariance, PTL

(* The admin-state file is a whole key, crashes included, unless a windows  *)
(* lock was reclaimed by its age.                                           *)
THEOREM AdminPubkeyWhole == Spec => []PubkeyWhole
<1>1. RotInv => PubkeyWhole
  BY DEF RotInv, PubkeyWhole
<1> QED BY <1>1, RotInvariance, PTL

(* The admin-state file is written by one operation at a time and never     *)
(* seen half written, unless a windows lock was reclaimed by its age.       *)
THEOREM AdminFileSafety == Spec => []AdminFileSafe
<1>1. OneWriter /\ PubkeyWhole => AdminFileSafe
  BY DEF AdminFileSafe
<1> QED BY <1>1, AdminOneWriter, AdminPubkeyWhole, PTL

-----------------------------------------------------------------------------
(* What a rotation reports.  Every variable has its shape; a rotation that  *)
(* met no other is the only one that runs, and from what it recorded about  *)
(* each master follows what that master's key is, whatever timed-out        *)
(* requests are still under way.                                            *)
N == Len(Masters)
CommitPcs == LockPcs \cup TxnPcs \cup {"commit", "refused"}

Fresh(o) == i[o] = 1 /\ \A m \in M : result[o][m] = "none"

(* Late requests go to masters whose failure is recorded. *)
Owed(o) == \A r \in late : r.to \in M /\ result[o][r.to] \in {"FAILED", "REVERT_FAILED"}

Fanning(o) ==
  /\ endKey = o /\ pubkey = old[o] /\ Owed(o)
  /\ \A k \in 1 .. N : result[o][Masters[k]] \in IF k < i[o] THEN {"ROTATED", "FAILED"} ELSE {"none"}
  /\ \A m \in M : result[o][m] = "ROTATED" => peer[m] = o

Reverting(o) ==
  /\ pubkey = old[o] /\ Owed(o)
  /\ \A k \in 1 .. N :
       result[o][Masters[k]] \in IF k < i[o] THEN {"FAILED", "REVERTED", "REVERT_FAILED"}
                                             ELSE {"ROTATED", "FAILED"}
  /\ \A m \in M : result[o][m] = "REVERTED" => peer[m] = old[o]

Agreed(o) == endKey = o /\ late = {} /\ \A m \in M : result[o][m] = "ROTATED" /\ peer[m] = o

Reverted(o) ==
  /\ pubkey = old[o] /\ Owed(o)
  /\ \A m \in M : result[o][m] \in {"FAILED", "REVERTED", "REVERT_FAILED"}
  /\ \A m \in M : result[o][m] = "REVERTED" => peer[m] = old[o]

Phase(o) ==
  /\ pc[o] = "endpoint" => late = {} /\ pubkey = old[o] /\ Fresh(o)
  /\ pc[o] = "fanout" => Fanning(o)
  /\ pc[o] = "revert" => Reverting(o)
  /\ pc[o] \in CommitPcs \cup {"ok"} => Agreed(o)
  /\ pc[o] = "rename" => tmp = o
  /\ pc[o] \in {"commit", "ok"} => pubkey = o
  /\ pc[o] = "error" => \/ \A m \in M : result[o][m] = "none"
                        \/ \A m \in M : result[o][m] = "ROTATED"
                        \/ Reverted(o)

Account(o) ==
  /\ pc[o] = "idle" => Fresh(o)
  /\ alone[o] /\ Running(o) => \A p \in Ops : Running(p) => p = o
  /\ alone[o] /\ (Running(o) \/ (Quiet /\ last = o)) => Phase(o)

OutcomeInv == TypeOK /\ \A o \in Ops : Account(o)

HIDE DEF PcInv, LockInv, FileInv, Sound, Held, AllPcs, WindowsPcs, Critical, LockPcs, TxnPcs
USE DEF clusterVars, rotationVars

(* The masters, counted. *)
LEMMA Counted ==
  /\ N \in Nat /\ N >= 1 /\ DOMAIN Masters = 1 .. N
  /\ \A k \in 1 .. N : Masters[k] \in M
  /\ \A m \in M : \E k \in 1 .. N : m = Masters[k]
<1>1. Masters \in Seq(M) /\ Masters # <<>>
  BY MastersAssumption
<1>2. N \in Nat /\ N >= 1 /\ DOMAIN Masters = 1 .. N
  BY <1>1, SMTT(30) DEF N
<1> QED BY <1>2 DEF M

-----------------------------------------------------------------------------
(* The shapes: the agents' side, ... *)
LEMMA CarryTypes ==
  ASSUME TypeOK, NEW r \in [to : M \cup {"endpoint"}, key : Keys], Carry(r)
  PROVE  endKey' \in Keys /\ peer' \in [M -> Keys]
  BY DEF Carry, TypeOK

LEMMA RequestTypes ==
  ASSUME TypeOK, NEW r \in [to : M \cup {"endpoint"}, key : Keys], Answered(r) \/ Errored(r)
  PROVE  /\ endKey' \in Keys /\ peer' \in [M -> Keys]
         /\ late' \subseteq [to : M \cup {"endpoint"}, key : Keys]
         /\ faults' \in 0 .. MaxFaults
<1>1. faults' \in 0 .. MaxFaults
  BY AdminStateAssumption, SMTT(30) DEF TypeOK, AdminTypeOK, Answered, Errored, Fault
<1>2. CASE Answered(r)
  BY <1>1, <1>2, CarryTypes DEF Answered, TypeOK
<1>3. CASE Errored(r)
  BY <1>1, <1>3 DEF Errored, TypeOK
<1> QED BY <1>2, <1>3

(* ... the store's, ... *)
LEMMA CommitTypes ==
  ASSUME TypeOK, NEW o \in Ops, Commit(o)
  PROVE  TypeOK'
<1> USE DEF Commit, SetPubkey, acquireFlock, createLock, retryLock, recreateLock,
            tryAdminLockCreate, writeRecord, inspectLock, reclaimLock, openTmp, writeTmp, renameTmp
<1>1. faults' \in 0 .. MaxFaults
  <2>1. UNCHANGED faults \/ Fault
    OBVIOUS
  <2> HIDE DEF Commit
  <2> QED BY <2>1, AdminStateAssumption, SMTT(30) DEF TypeOK, AdminTypeOK, Fault
<1>2. \E x \in LockPcs \cup TxnPcs \cup {"commit", "refused"} : pc' = [pc EXCEPT ![o] = x]
  BY DEF Go, LockPcs, TxnPcs
<1>3. UNCHANGED <<platform, clusterVars, rotationVars>>
  OBVIOUS
<1>4. pubkey' \in Keys \cup {Torn} /\ tmp' \in Keys \cup {Nil, Torn} /\ writers' \subseteq Ops
  <2>1. pubkey' = pubkey \/ (tmp # Nil /\ pubkey' = tmp)
    OBVIOUS
  <2>2. tmp' \in {tmp, Nil, Torn, o}
    OBVIOUS
  <2>3. writers' \subseteq writers \cup {o}
    OBVIOUS
  <2> HIDE DEF Commit
  <2> QED BY <2>1, <2>2, <2>3 DEF TypeOK, AdminTypeOK, Keys
<1>5. /\ flock' \in Ops \cup {Nil} /\ lockfile' \in Ops \cup {Nil}
      /\ record' \in {"empty", "fresh", "stale"} /\ reclaimed' \in BOOLEAN
  <2>1. flock' \in {flock, o} /\ lockfile' \in {lockfile, o, Nil}
    OBVIOUS
  <2>2. record' \in {record, "empty", "fresh"} /\ reclaimed' \in {reclaimed, TRUE}
    OBVIOUS
  <2> HIDE DEF Commit
  <2> QED BY <2>1, <2>2 DEF TypeOK, AdminTypeOK
<1> HIDE DEF Commit
<1> QED BY <1>1, <1>2, <1>3, <1>4, <1>5 DEF TypeOK, AdminTypeOK

(* ... and the loops': a master is settled and the next one is up.          *)
LEMMA SettleTypes ==
  ASSUME TypeOK, NEW o \in Ops, NEW st \in Statuses, i[o] <= N, Settle(o, st)
  PROVE  i' \in [Ops -> 1 .. N + 1] /\ result' \in [Ops -> [M -> Statuses]] /\ UNCHANGED <<pc, last>>
<1>1. i[o] \in 1 .. N /\ i[o] + 1 \in 1 .. N + 1
  BY Counted, SMTT(30) DEF TypeOK, N
<1>2. Masters[i[o]] \in M
  BY <1>1, Counted
<1> QED BY <1>1, <1>2 DEF Settle, TypeOK, N

(* Together. *)
LEMMA TypesStep ==
  ASSUME TypeOK, [Next]_vars
  PROVE  TypeOK'
<1> USE DEF N
<1>1. CASE UNCHANGED vars
  BY <1>1 DEF vars, TypeOK, AdminTypeOK
<1>2. ASSUME NEW o \in Ops, Start(o) PROVE TypeOK'
  <2>1. pc' \in [Ops -> Ended \cup LockPcs \cup TxnPcs
                        \cup {"endpoint", "fanout", "revert", "commit", "refused"}]
    BY <1>2 DEF Start, Go, TypeOK
  <2>2. old' \in [Ops -> Keys]
    BY <1>2 DEF Start, TypeOK
  <2>3. alone' \in [Ops -> BOOLEAN]
    <3>1. \A p \in Ops : (late = {} /\ \A q \in Ops : ~Running(q)) \in BOOLEAN
                          /\ (alone[p] /\ ~Running(p)) \in BOOLEAN
      OBVIOUS
    <3> QED BY <1>2, <3>1 DEF Start
  <2> QED BY <1>2, <2>1, <2>2, <2>3 DEF Start, TypeOK, AdminTypeOK
<1>3. ASSUME NEW o \in Ops, RotateKeypair(o) PROVE TypeOK'
  <2> DEFINE r == [to |-> "endpoint", key |-> o]
  <2>1. r \in [to : M \cup {"endpoint"}, key : Keys]
    BY DEF Keys
  <2>2. Answered(r) \/ Errored(r)
    BY <1>3 DEF RotateKeypair
  <2>3. \E x \in {"fanout", "error"} : pc' = [pc EXCEPT ![o] = x]
    BY <1>3 DEF RotateKeypair, Go
  <2>4. last' \in {last, o} /\ UNCHANGED <<platform, storeVars, lockVars, old, i, result, alone>>
    BY <1>3 DEF RotateKeypair
  <2> HIDE DEF r
  <2>5. AdminTypeOK'
    BY <2>1, <2>2, <2>4, RequestTypes DEF TypeOK, AdminTypeOK
  <2> QED BY <2>1, <2>2, <2>3, <2>4, <2>5, RequestTypes DEF TypeOK
<1>4. ASSUME NEW o \in Ops, UpdateTunnelPeer(o) PROVE TypeOK'
  <2> DEFINE r == [to |-> Masters[i[o]], key |-> o]
  <2>0. i[o] \in 1 .. N
    BY <1>4, Counted, SMTT(30) DEF UpdateTunnelPeer, TypeOK
  <2>1. r \in [to : M \cup {"endpoint"}, key : Keys] /\ i[o] <= N
    BY <1>4, <2>0, Counted DEF Keys, UpdateTunnelPeer
  <2>2. (Answered(r) \/ Errored(r)) /\ \E st \in Statuses : Settle(o, st)
    BY <1>4 DEF UpdateTunnelPeer, Statuses
  <2>3. UNCHANGED <<platform, storeVars, lockVars, old, alone>>
    BY <1>4 DEF UpdateTunnelPeer
  <2> HIDE DEF r
  <2> QED BY <2>1, <2>2, <2>3, RequestTypes, SettleTypes DEF TypeOK, AdminTypeOK
<1>5. ASSUME NEW o \in Ops, Revert(o) PROVE TypeOK'
  <2> DEFINE r == [to |-> Masters[i[o]], key |-> old[o]]
  <2>0. i[o] \in 1 .. N
    BY <1>5, Counted, SMTT(30) DEF Revert, TypeOK
  <2>1. r \in [to : M \cup {"endpoint"}, key : Keys] /\ i[o] <= N /\ Masters[i[o]] \in M
    BY <1>5, <2>0, Counted DEF Revert, TypeOK
  <2>2. \E st \in Statuses : Settle(o, st)
    <3>0. result[o] \in [M -> Statuses]
      BY DEF TypeOK
    <3>1. result[o][Masters[i[o]]] \in Statuses
      BY <2>1, <3>0
    <3>2. "REVERTED" \in Statuses /\ "REVERT_FAILED" \in Statuses
      BY DEF Statuses
    <3> QED BY <1>5, <3>1, <3>2 DEF Revert
  <2>3. UNCHANGED <<clusterVars, faults>> \/ Answered(r) \/ Errored(r)
    BY <1>5 DEF Revert
  <2>4. UNCHANGED <<platform, storeVars, lockVars, old, alone>>
    BY <1>5 DEF Revert
  <2> HIDE DEF r
  <2>5. i' \in [Ops -> 1 .. N + 1] /\ result' \in [Ops -> [M -> Statuses]] /\ UNCHANGED <<pc, last>>
    BY <2>1, <2>2, SettleTypes
  <2>6. /\ endKey' \in Keys /\ peer' \in [M -> Keys] /\ faults' \in 0 .. MaxFaults
        /\ late' \subseteq [to : M \cup {"endpoint"}, key : Keys]
    BY <2>1, <2>3, RequestTypes DEF TypeOK, AdminTypeOK
  <2> QED BY <2>4, <2>5, <2>6 DEF TypeOK, AdminTypeOK
<1>6. ASSUME NEW o \in Ops, FanoutDone(o) PROVE TypeOK'
  <2>1. 1 \in 1 .. N + 1
    BY Counted, SMTT(30)
  <2>2. pc' \in [Ops -> Ended \cup LockPcs \cup TxnPcs
                        \cup {"endpoint", "fanout", "revert", "commit", "refused"}]
    BY <1>6 DEF FanoutDone, Go, TypeOK, LockPcs
  <2> QED BY <1>6, <2>1, <2>2 DEF FanoutDone, TypeOK, AdminTypeOK
<1>7. ASSUME NEW o \in Ops, RevertDone(o) \/ CommitDone(o) \/ CommitRefused(o) \/ Crash(o)
      PROVE  TypeOK'
  <2>1. faults' \in 0 .. MaxFaults
    <3>1. UNCHANGED faults \/ Fault
      BY <1>7 DEF RevertDone, CommitDone, CommitRefused, Crash
    <3> QED BY <3>1, AdminStateAssumption, SMTT(30) DEF TypeOK, AdminTypeOK, Fault
  <2>2. PICK x \in {"ok", "error", "crashed"} : End(o, x)
    BY <1>7 DEF RevertDone, CommitDone, CommitRefused, Crash
  <2>3. /\ flock' \in {flock, Nil} /\ lockfile' \in {lockfile, Nil} /\ writers' \subseteq writers
        /\ UNCHANGED <<pubkey, tmp, record, reclaimed>>
    BY <1>7 DEF RevertDone, CommitDone, CommitRefused, Crash, releaseLock, adminCrash
  <2> QED BY <2>1, <2>2, <2>3 DEF End, Go, TypeOK, AdminTypeOK
<1>8. CASE LateRequest
  <2> PICK r \in late : Carry(r) /\ late' = late \ {r}
    BY <1>8 DEF LateRequest
  <2>1. r \in [to : M \cup {"endpoint"}, key : Keys]
    BY DEF TypeOK
  <2> QED BY <1>8, <2>1, CarryTypes DEF LateRequest, TypeOK, AdminTypeOK
<1>9. CASE Aging
  BY <1>9 DEF Aging, LockAges, TypeOK, AdminTypeOK
<1> QED BY <1>1, <1>2, <1>3, <1>4, <1>5, <1>6, <1>7, <1>8, <1>9, CommitTypes DEF Next, Rotation

-----------------------------------------------------------------------------
(* A step of one rotation leaves the account of every other in order: one   *)
(* that met no other does not run beside it, and is not the last to end.    *)
LEMMA ActorStep ==
  ASSUME OutcomeInv, TypeOK', NEW o \in Ops, Running(o), NEW x,
         pc' = [pc EXCEPT ![o] = x], x # "idle", x \in Ended => last' = o, alone' = alone,
         \A p \in Ops : p # o => result'[p] = result[p] /\ i'[p] = i[p],
         alone[o] => Phase(o)'
  PROVE  OutcomeInv'
<1>1. pc \in [Ops -> Ended \cup LockPcs \cup TxnPcs
                     \cup {"endpoint", "fanout", "revert", "commit", "refused"}]
  BY DEF OutcomeInv, TypeOK
<1>2. \A p \in Ops : pc'[p] = IF p = o THEN x ELSE pc[p]
  BY <1>1
<1>3. \A p \in Ops : Running(p)' => Running(p)
  BY <1>2 DEF Running
<1>4. ASSUME NEW p \in Ops PROVE Account(p)'
  <2>1. Account(p) /\ Account(o)
    BY DEF OutcomeInv
  <2>2. CASE p = o
    <3>1. pc'[p] # "idle"
      BY <1>2, <2>2
    <3>2. alone[p] => \A q \in Ops : Running(q)' => q = p
      BY <1>3, <2>1, <2>2 DEF Account
    <3> QED BY <2>2, <3>1, <3>2 DEF Account
  <2>3. CASE p # o
    <3>1. pc'[p] = "idle" => Fresh(p)'
      BY <1>2, <2>1, <2>3 DEF Account, Fresh
    <3>2. ~(alone[p] /\ Running(p)')
      BY <1>3, <2>1, <2>3 DEF Account
    <3>3. ~(Quiet' /\ last' = p)
      BY <1>2, <2>3 DEF Quiet, Running
    <3> QED BY <3>1, <3>2, <3>3 DEF Account
  <2> QED BY <2>2, <2>3
<1> QED BY <1>4 DEF OutcomeInv

(* A late request reaches a master whose failure is recorded, so nothing    *)
(* that is said of the others changes.                                      *)
LEMMA LatePhase ==
  ASSUME TypeOK, NEW o \in Ops, pc[o] \notin {"idle", "crashed"}, Phase(o), LateRequest,
         pc[o] = "error" => Reverted(o)
  PROVE  Phase(o)'
<1>1. PICK r \in late : Carry(r) /\ late' = late \ {r}
  BY DEF LateRequest
<1>2. late # {} /\ UNCHANGED <<storeVars, pc, old, i, result>>
  BY DEF LateRequest
<1>3. pc[o] \in {"fanout", "revert", "error"}
  BY <1>2 DEF Phase, Agreed, TypeOK, CommitPcs, LockPcs, TxnPcs
<1>4. Owed(o)
  BY <1>3 DEF Phase, Fanning, Reverting, Reverted
<1>5. r.to \in M /\ result[o][r.to] \in {"FAILED", "REVERT_FAILED"} /\ r.to # "endpoint"
  BY <1>4, MastersAssumption DEF Owed
<1>6. endKey' = endKey /\ \A m \in M : m # r.to => peer'[m] = peer[m]
  BY <1>1, <1>5 DEF Carry, TypeOK
<1>7. Owed(o)'
  BY <1>1, <1>2, <1>4 DEF Owed
<1>8. \A m \in M : result[o][m] \in {"ROTATED", "REVERTED"} => peer'[m] = peer[m]
  BY <1>5, <1>6
<1>9. CASE pc[o] = "fanout"
  <2>1. Fanning(o)'
    BY <1>2, <1>6, <1>7, <1>8, <1>9 DEF Phase, Fanning
  <2> QED BY <1>2, <1>9, <2>1 DEF Phase, CommitPcs, LockPcs, TxnPcs
<1>10. CASE pc[o] = "revert"
  <2>1. Reverting(o)'
    BY <1>2, <1>7, <1>8, <1>10 DEF Phase, Reverting
  <2> QED BY <1>2, <1>10, <2>1 DEF Phase, CommitPcs, LockPcs, TxnPcs
<1>11. CASE pc[o] = "error"
  <2>1. Reverted(o)'
    BY <1>2, <1>7, <1>8, <1>11 DEF Reverted
  <2> QED BY <1>2, <1>11, <2>1 DEF Phase, CommitPcs, LockPcs, TxnPcs
<1> QED BY <1>3, <1>9, <1>10, <1>11

LEMMA LateStep ==
  ASSUME OutcomeInv, TypeOK', LateRequest
  PROVE  OutcomeInv'
<1> SUFFICES ASSUME NEW o \in Ops PROVE Account(o)'
  BY DEF OutcomeInv
<1>1. UNCHANGED <<storeVars, pc, old, i, result, alone, last>>
  BY DEF LateRequest
<1>2. Account(o) /\ TypeOK
  BY DEF OutcomeInv
<1>3. Phase(o) => Phase(o)'
  <2>1. CASE pc[o] \in {"idle", "crashed"}
    BY <1>1, <2>1 DEF Phase, CommitPcs, LockPcs, TxnPcs
  <2>2. CASE pc[o] = "error" /\ ~Reverted(o)
    BY <1>1, <2>2 DEF Phase, CommitPcs, LockPcs, TxnPcs
  <2>3. CASE pc[o] \notin {"idle", "crashed"} /\ (pc[o] = "error" => Reverted(o))
    BY <1>2, <2>3, LatePhase
  <2> QED BY <2>1, <2>2, <2>3
<1>4. (pc[o] = "idle" => Fresh(o)) => (pc[o] = "idle" => Fresh(o))'
  BY <1>1 DEF Fresh
<1> QED BY <1>1, <1>2, <1>3, <1>4 DEF Account, Quiet, Running

(* A step that touches none of this. *)
LEMMA RestStep ==
  ASSUME OutcomeInv, TypeOK', UNCHANGED <<pubkey, tmp, pc, clusterVars, rotationVars>>
  PROVE  OutcomeInv'
<1> SUFFICES ASSUME NEW o \in Ops PROVE Account(o)'
  BY DEF OutcomeInv
<1>1. Account(o)
  BY DEF OutcomeInv
<1>2. Phase(o) => Phase(o)'
  BY DEF Phase, Fresh, Fanning, Reverting, Agreed, Reverted, Owed
<1> QED BY <1>1, <1>2 DEF Account, Quiet, Running, Fresh

(* A rotation that starts while none runs has the cluster to itself. *)
LEMMA StartsAlone ==
  ASSUME OutcomeInv, TypeOK', NEW o \in Ops, Start(o)
  PROVE  OutcomeInv'
<1> SUFFICES ASSUME NEW p \in Ops PROVE Account(p)'
  BY DEF OutcomeInv
<1>1. /\ UNCHANGED <<storeVars, clusterVars, i, result, last>> /\ pc[o] = "idle"
      /\ old' = IF pubkey \in Keys THEN [old EXCEPT ![o] = pubkey] ELSE old
      /\ pc' = [pc EXCEPT ![o] = IF pubkey \in Keys THEN "endpoint" ELSE "error"]
      /\ \A q \in Ops : alone'[q] = IF q = o THEN late = {} /\ \A w \in Ops : ~Running(w)
                                    ELSE alone[q] /\ ~Running(q)
  BY DEF Start, At, Go
<1>2. Account(p) /\ Account(o) /\ TypeOK
  BY DEF OutcomeInv
<1>3. \A q \in Ops : q # o => pc'[q] = pc[q] /\ old'[q] = old[q]
  BY <1>1, <1>2 DEF TypeOK
<1>4. pc'[o] \in {"endpoint", "error"} /\ (pc'[o] = "endpoint" => old'[o] = pubkey)
  BY <1>1, <1>2 DEF TypeOK
<1>5. CASE p = o
  <2>1. Fresh(o)'
    BY <1>1, <1>2 DEF Account, Fresh
  <2>2. alone'[o] => late' = {} /\ \A q \in Ops : Running(q)' => q = o
    BY <1>1, <1>3 DEF Running
  <2>3. alone'[o] => Phase(o)'
    BY <1>1, <1>4, <2>1, <2>2 DEF Phase, Fresh, CommitPcs, LockPcs, TxnPcs
  <2> QED BY <1>4, <1>5, <2>2, <2>3 DEF Account
<1>6. CASE p # o
  <2>1. pc'[p] = "idle" => Fresh(p)'
    BY <1>1, <1>2, <1>3, <1>6 DEF Account, Fresh
  <2>2. ~(alone'[p] /\ Running(p)')
    BY <1>1, <1>3, <1>6 DEF Running
  <2>3. Quiet' => Quiet
    BY <1>1, <1>3 DEF Quiet, Running, Ended
  <2>4. Phase(p) => Phase(p)'
    BY <1>1, <1>3, <1>6 DEF Phase, Fresh, Fanning, Reverting, Agreed, Reverted, Owed
  <2> QED BY <1>1, <1>2, <1>6, <2>1, <2>2, <2>3, <2>4 DEF Account
<1> QED BY <1>5, <1>6

(* What is known of the rotation that takes a step. *)
LEMMA ActorKnows ==
  ASSUME OutcomeInv, NEW o \in Ops, Running(o)
  PROVE  TypeOK /\ (alone[o] => Phase(o))
  BY DEF OutcomeInv, Account

(* The endpoint takes the new key, or the rotation ends before any master.  *)
LEMMA RotateKeypairStep ==
  ASSUME OutcomeInv, TypeOK', NEW o \in Ops, RotateKeypair(o)
  PROVE  OutcomeInv'
<1> DEFINE r == [to |-> "endpoint", key |-> o]
<1>1. pc[o] = "endpoint" /\ Running(o) /\ UNCHANGED <<storeVars, old, i, result, alone>>
  BY DEF RotateKeypair, At, Running
<1>2. TypeOK /\ (alone[o] => Phase(o))
  BY <1>1, ActorKnows
<1>3. alone[o] => late = {} /\ pubkey = old[o] /\ Fresh(o)
  BY <1>1, <1>2 DEF Phase
<1>4. CASE Answered(r) /\ Go(o, "fanout")
  <2>1. pc' = [pc EXCEPT ![o] = "fanout"] /\ pc'[o] = "fanout"
    BY <1>2, <1>4 DEF Go, TypeOK
  <2>2. endKey' = o /\ late' = late
    BY <1>4 DEF Answered, Carry
  <2>3. \A k \in 1 .. N : ~(k < 1) /\ Masters[k] \in M
    BY Counted, SMTT(30)
  <2>4. alone[o] => Fanning(o)'
    BY <1>1, <1>3, <2>2, <2>3 DEF Fresh, Fanning, Owed
  <2>5. alone[o] => Phase(o)'
    BY <2>1, <2>4 DEF Phase, CommitPcs, LockPcs, TxnPcs
  <2> QED BY <1>1, <2>1, <2>5, ActorStep
<1>5. CASE Go(o, "error") /\ last' = o
  <2>1. pc' = [pc EXCEPT ![o] = "error"] /\ pc'[o] = "error"
    BY <1>2, <1>5 DEF Go, TypeOK
  <2>2. alone[o] => Phase(o)'
    BY <1>1, <1>3, <2>1 DEF Phase, Fresh, CommitPcs, LockPcs, TxnPcs
  <2> QED BY <1>1, <1>5, <2>1, <2>2, ActorStep
<1> QED BY <1>4, <1>5 DEF RotateKeypair

(* One round of a loop: the status of one master is recorded. *)
LEMMA Settled ==
  ASSUME TypeOK, TypeOK', NEW o \in Ops, NEW st, i[o] <= N, Settle(o, st)
  PROVE  /\ i[o] \in 1 .. N /\ i'[o] = i[o] + 1
         /\ \A k \in 1 .. N : k < i'[o] <=> k < i[o] \/ k = i[o]
         /\ ~(i[o] < i[o]) /\ i[o] < i'[o]
         /\ result'[o][Masters[i[o]]] = st
         /\ \A m \in M : m # Masters[i[o]] => result'[o][m] = result[o][m]
         /\ \A k \in 1 .. N : k # i[o] => Masters[k] # Masters[i[o]]
         /\ \A p \in Ops : p # o => result'[p] = result[p] /\ i'[p] = i[p]
         /\ pc' = pc
<1>1. i[o] \in 1 .. N
  BY Counted, SMTT(30) DEF TypeOK, N
<1>2. i'[o] = i[o] + 1 /\ \A p \in Ops : p # o => result'[p] = result[p] /\ i'[p] = i[p]
  BY DEF Settle, TypeOK
<1>3. /\ \A k \in 1 .. N : k < i'[o] <=> k < i[o] \/ k = i[o]
      /\ ~(i[o] < i[o]) /\ i[o] < i'[o]
  BY <1>1, <1>2, Counted, SMTT(30)
<1>4. Masters[i[o]] \in M
  BY <1>1, Counted
<1>5. result[o] \in [M -> Statuses] /\ result'[o] = [result[o] EXCEPT ![Masters[i[o]]] = st]
  BY DEF Settle, TypeOK
<1>6. /\ result'[o][Masters[i[o]]] = st
      /\ \A m \in M : m # Masters[i[o]] => result'[o][m] = result[o][m]
  BY <1>4, <1>5
<1>7. \A k \in 1 .. N : k # i[o] => Masters[k] # Masters[i[o]]
  BY <1>1, Counted, MastersAssumption
<1> QED BY <1>1, <1>2, <1>3, <1>6, <1>7 DEF Settle

(* One RPC to one master: only its key, or what it may still be sent.       *)
LEMMA Requested ==
  ASSUME TypeOK, NEW r, r.to \in M, Answered(r) \/ Errored(r)
  PROVE  /\ endKey' = endKey /\ \A m \in M : m # r.to => peer'[m] = peer[m]
         /\ Answered(r) => peer'[r.to] = r.key /\ late' = late
         /\ Errored(r) => late' \subseteq late \cup {r} /\ UNCHANGED peer
<1>1. r.to # "endpoint"
  BY MastersAssumption
<1>2. Answered(r) => endKey' = endKey /\ peer' = [peer EXCEPT ![r.to] = r.key] /\ late' = late
  BY <1>1 DEF Answered, Carry
<1>3. Errored(r) => UNCHANGED <<endKey, peer>> /\ late' \subseteq late \cup {r}
  BY DEF Errored
<1>4. peer \in [M -> Keys]
  BY DEF TypeOK
<1> QED BY <1>2, <1>3, <1>4

(* A master gets the new key; one that did not answer may get it later.     *)
LEMMA UpdateTunnelPeerStep ==
  ASSUME OutcomeInv, TypeOK', NEW o \in Ops, UpdateTunnelPeer(o)
  PROVE  OutcomeInv'
<1> DEFINE c == Masters[i[o]]
           r == [to |-> c, key |-> o]
<1>1. /\ pc[o] = "fanout" /\ Running(o) /\ i[o] <= N
      /\ UNCHANGED <<storeVars, old, alone>>
  BY DEF UpdateTunnelPeer, At, Running, N
<1>2. TypeOK /\ (alone[o] => Fanning(o))
  BY <1>1, ActorKnows DEF Phase
<1>3. PICK st \in {"ROTATED", "FAILED"} :
        Settle(o, st) /\ (st = "ROTATED" => Answered(r)) /\ (st = "FAILED" => Errored(r))
  BY DEF UpdateTunnelPeer
<1>4. c \in M
  BY <1>1, <1>2, <1>3, Settled, Counted
<1>5. /\ endKey' = endKey /\ \A m \in M : m # c => peer'[m] = peer[m]
      /\ st = "ROTATED" => peer'[c] = o /\ late' = late
      /\ st = "FAILED" => late' \subseteq late \cup {r}
  <2>1. r.to = c /\ r.key = o
    OBVIOUS
  <2> HIDE DEF c, r
  <2> QED BY <1>2, <1>3, <1>4, <2>1, Requested
<1>6. /\ i[o] \in 1 .. N /\ i[o] < i'[o] /\ ~(i[o] < i[o])
      /\ \A k \in 1 .. N : k < i'[o] <=> k < i[o] \/ k = i[o]
      /\ result'[o][c] = st /\ \A m \in M : m # c => result'[o][m] = result[o][m]
      /\ \A k \in 1 .. N : k # i[o] => Masters[k] # c
      /\ \A p \in Ops : p # o => result'[p] = result[p] /\ i'[p] = i[p]
      /\ pc' = pc
  BY <1>1, <1>2, <1>3, Settled
<1> HIDE DEF r, c
<1>7. alone[o] => Fanning(o)'
  <2> SUFFICES ASSUME alone[o] PROVE Fanning(o)'
    OBVIOUS
  <2>0. Fanning(o) /\ i[o] \in 1 .. N /\ ~(i[o] < i[o])
    BY <1>2, <1>6
  <2>1. Fanning(o) /\ result[o][c] = "none"
    BY <2>0 DEF Fanning, c
  <2>2. \A x \in late : x.to \in M /\ x.to # c /\ result'[o][x.to] \in {"FAILED", "REVERT_FAILED"}
    BY <1>6, <2>1 DEF Fanning, Owed
  <2>3. Owed(o)'
    <3> SUFFICES ASSUME NEW x \in late'
                 PROVE  x.to \in M /\ result'[o][x.to] \in {"FAILED", "REVERT_FAILED"}
      BY DEF Owed
    <3>1. CASE x \in late
      BY <2>2, <3>1
    <3>2. CASE x \notin late
      <4>1. st = "FAILED" /\ x = r
        BY <1>3, <1>5, <3>2
      <4>2. x.to = c
        BY <4>1 DEF r
      <4> QED BY <1>4, <1>6, <4>1, <4>2
    <3> QED BY <3>1, <3>2
  <2>4. \A k \in 1 .. N :
          result'[o][Masters[k]] \in IF k < i'[o] THEN {"ROTATED", "FAILED"} ELSE {"none"}
    <3> TAKE k \in 1 .. N
    <3>1. CASE k = i[o]
      BY <1>3, <1>6, <3>1 DEF c
    <3>2. CASE k # i[o]
      BY <1>6, <2>1, <3>2, Counted DEF Fanning
    <3> QED BY <3>1, <3>2
  <2>5. \A m \in M : result'[o][m] = "ROTATED" => peer'[m] = o
    <3> TAKE m \in M
    <3>1. CASE m = c
      BY <1>5, <1>6, <3>1
    <3>2. CASE m # c
      BY <1>5, <1>6, <2>1, <3>2 DEF Fanning
    <3> QED BY <3>1, <3>2
  <2> QED BY <1>1, <1>5, <2>1, <2>3, <2>4, <2>5 DEF Fanning
<1>8. alone[o] => Phase(o)'
  BY <1>1, <1>6, <1>7 DEF Phase, CommitPcs, LockPcs, TxnPcs
<1>9. pc' = [pc EXCEPT ![o] = "fanout"]
  BY <1>1, <1>2, <1>6 DEF TypeOK
<1>10. \A p \in Ops : p # o => result'[p] = result[p] /\ i'[p] = i[p]
  BY <1>6
<1> QED BY <1>1, <1>8, <1>9, <1>10, ActorStep

(* The rotation goes on to commit when every master took the key, and to    *)
(* revert otherwise.                                                        *)
LEMMA FanoutDoneStep ==
  ASSUME OutcomeInv, TypeOK', NEW o \in Ops, FanoutDone(o)
  PROVE  OutcomeInv'
<1>1. /\ pc[o] = "fanout" /\ Running(o) /\ i[o] > N
      /\ UNCHANGED <<storeVars, clusterVars, old, result, alone>> /\ i' = [i EXCEPT ![o] = 1]
      /\ pc' = [pc EXCEPT ![o] = IF \E m \in M : result[o][m] = "FAILED" THEN "revert" ELSE "acquire"]
  BY DEF FanoutDone, At, Go, Running, N
<1>2. TypeOK /\ (alone[o] => Fanning(o))
  BY <1>1, ActorKnows DEF Phase
<1>3. i'[o] = 1 /\ \A p \in Ops : p # o => i'[p] = i[p]
  BY <1>1, <1>2 DEF TypeOK
<1>4. \A k \in 1 .. N : k < i[o] /\ ~(k < 1)
  <2>1. i[o] \in 1 .. N + 1
    BY <1>2 DEF TypeOK, N
  <2> QED BY <1>1, <2>1, Counted, SMTT(30)
<1>5. alone[o] => \A k \in 1 .. N : result[o][Masters[k]] \in {"ROTATED", "FAILED"}
  BY <1>2, <1>4 DEF Fanning
<1>6. CASE \E m \in M : result[o][m] = "FAILED"
  <2>1. pc' = [pc EXCEPT ![o] = "revert"] /\ pc'[o] = "revert"
    BY <1>1, <1>2, <1>6 DEF TypeOK
  <2>2. alone[o] => \A m \in M : result[o][m] # "REVERTED"
    BY <1>5, Counted
  <2>3. alone[o] => Reverting(o)'
    BY <1>1, <1>2, <1>3, <1>4, <1>5, <2>2 DEF Fanning, Reverting, Owed
  <2>4. alone[o] => Phase(o)'
    BY <2>1, <2>3 DEF Phase, CommitPcs, LockPcs, TxnPcs
  <2> QED BY <1>1, <1>3, <2>1, <2>4, ActorStep
<1>7. CASE ~ \E m \in M : result[o][m] = "FAILED"
  <2>1. pc' = [pc EXCEPT ![o] = "acquire"] /\ pc'[o] = "acquire"
    BY <1>1, <1>2, <1>7 DEF TypeOK
  <2>2. alone[o] => \A m \in M : result[o][m] = "ROTATED"
    BY <1>5, <1>7, Counted
  <2>3. alone[o] => late = {}
    BY <1>2, <1>7, <2>2 DEF Fanning, Owed
  <2>4. alone[o] => Agreed(o)'
    BY <1>1, <1>2, <2>2, <2>3 DEF Fanning, Agreed
  <2>5. alone[o] => Phase(o)'
    BY <2>1, <2>4 DEF Phase
  <2> QED BY <1>1, <1>3, <2>1, <2>5, ActorStep
<1> QED BY <1>6, <1>7

(* A master that took the new key is sent the old one; one that did not is  *)
(* passed over.                                                             *)
LEMMA RevertStep ==
  ASSUME OutcomeInv, TypeOK', NEW o \in Ops, Revert(o)
  PROVE  OutcomeInv'
<1> DEFINE c == Masters[i[o]]
           r == [to |-> c, key |-> old[o]]
<1>1. /\ pc[o] = "revert" /\ Running(o) /\ i[o] <= N
      /\ UNCHANGED <<storeVars, old, alone>>
  BY DEF Revert, At, Running, N
<1>2. TypeOK /\ (alone[o] => Reverting(o))
  BY <1>1, ActorKnows DEF Phase
<1>3. PICK st \in {result[o][c], "REVERTED", "REVERT_FAILED"} :
        /\ Settle(o, st)
        /\ \/ result[o][c] # "ROTATED" /\ st = result[o][c] /\ UNCHANGED clusterVars
           \/ result[o][c] = "ROTATED" /\ st = "REVERTED" /\ Answered(r)
           \/ result[o][c] = "ROTATED" /\ st = "REVERT_FAILED" /\ Errored(r)
  BY DEF Revert
<1>4. c \in M
  BY <1>1, <1>2, <1>3, Settled, Counted
<1>5. /\ \A m \in M : m # c => peer'[m] = peer[m]
      /\ Answered(r) => peer'[c] = old[o] /\ late' = late
      /\ Errored(r) => late' \subseteq late \cup {r}
  <2>1. r.to = c /\ r.key = old[o]
    OBVIOUS
  <2> HIDE DEF c, r
  <2>2. Answered(r) \/ Errored(r) \/ UNCHANGED clusterVars
    BY <1>3
  <2>3. CASE Answered(r) \/ Errored(r)
    BY <1>2, <1>4, <2>1, <2>3, Requested
  <2>4. CASE ~(Answered(r) \/ Errored(r))
    BY <2>2, <2>4
  <2> QED BY <2>3, <2>4
<1>6. /\ i[o] \in 1 .. N /\ i[o] < i'[o] /\ ~(i[o] < i[o])
      /\ \A k \in 1 .. N : k < i'[o] <=> k < i[o] \/ k = i[o]
      /\ result'[o][c] = st /\ \A m \in M : m # c => result'[o][m] = result[o][m]
      /\ \A k \in 1 .. N : k # i[o] => Masters[k] # c
      /\ \A p \in Ops : p # o => result'[p] = result[p] /\ i'[p] = i[p]
      /\ pc' = pc
  BY <1>1, <1>2, <1>3, Settled
<1> HIDE DEF r, c
<1>7. alone[o] => Reverting(o)'
  <2> SUFFICES ASSUME alone[o] PROVE Reverting(o)'
    OBVIOUS
  <2>0. Reverting(o) /\ i[o] \in 1 .. N /\ ~(i[o] < i[o])
    BY <1>2, <1>6
  <2>1. result[o][c] \in {"ROTATED", "FAILED"}
    BY <2>0 DEF Reverting, c
  <2>2. CASE result[o][c] = "FAILED"
    <3>1. st = "FAILED" /\ UNCHANGED clusterVars
      BY <1>3, <2>2
    <3>2. \A m \in M : result'[o][m] = result[o][m]
      BY <1>6, <2>2, <3>1
    <3>3. Owed(o)' /\ \A m \in M : result'[o][m] = "REVERTED" => peer'[m] = old'[o]
      BY <1>1, <2>0, <3>1, <3>2 DEF Reverting, Owed
    <3>4. \A k \in 1 .. N :
            result'[o][Masters[k]] \in IF k < i'[o] THEN {"FAILED", "REVERTED", "REVERT_FAILED"}
                                                    ELSE {"ROTATED", "FAILED"}
      <4> TAKE k \in 1 .. N
      <4>1. CASE k = i[o]
        BY <1>6, <3>1, <4>1 DEF c
      <4>2. CASE k # i[o]
        BY <1>6, <2>0, <4>2, Counted DEF Reverting
      <4> QED BY <4>1, <4>2
    <3> QED BY <1>1, <2>0, <3>3, <3>4 DEF Reverting
  <2>3. CASE result[o][c] = "ROTATED"
    <3>1. \/ st = "REVERTED" /\ peer'[c] = old[o] /\ late' = late
          \/ st = "REVERT_FAILED" /\ late' \subseteq late \cup {r}
      BY <1>3, <1>5, <2>3
    <3>2. \A x \in late : x.to \in M /\ result'[o][x.to] \in {"FAILED", "REVERT_FAILED"}
      <4> TAKE x \in late
      <4>1. x.to \in M /\ result[o][x.to] \in {"FAILED", "REVERT_FAILED"}
        BY <2>0 DEF Reverting, Owed
      <4>2. x.to # c
        BY <2>3, <4>1
      <4> QED BY <1>6, <4>1, <4>2
    <3>3. Owed(o)'
      <4> SUFFICES ASSUME NEW x \in late', x \notin late
                   PROVE  x.to \in M /\ result'[o][x.to] \in {"FAILED", "REVERT_FAILED"}
        BY <3>2 DEF Owed
      <4>1. st = "REVERT_FAILED" /\ x = r
        BY <3>1
      <4>2. x.to = c
        BY <4>1 DEF r
      <4> QED BY <1>4, <1>6, <4>1, <4>2
    <3>4. \A m \in M : result'[o][m] = "REVERTED" => peer'[m] = old'[o]
      <4> TAKE m \in M
      <4>1. CASE m = c
        BY <1>1, <1>6, <3>1, <4>1
      <4>2. CASE m # c
        <5>1. result'[o][m] = result[o][m] /\ peer'[m] = peer[m]
          BY <1>5, <1>6, <4>2
        <5> QED BY <1>1, <2>0, <5>1 DEF Reverting
      <4> QED BY <4>1, <4>2
    <3>5. \A k \in 1 .. N :
            result'[o][Masters[k]] \in IF k < i'[o] THEN {"FAILED", "REVERTED", "REVERT_FAILED"}
                                                    ELSE {"ROTATED", "FAILED"}
      <4> TAKE k \in 1 .. N
      <4>1. CASE k = i[o]
        BY <1>6, <3>1, <4>1 DEF c
      <4>2. CASE k # i[o]
        BY <1>6, <2>0, <4>2, Counted DEF Reverting
      <4> QED BY <4>1, <4>2
    <3> QED BY <1>1, <2>0, <3>3, <3>4, <3>5 DEF Reverting
  <2> QED BY <2>1, <2>2, <2>3
<1>8. alone[o] => Phase(o)'
  BY <1>1, <1>6, <1>7 DEF Phase, CommitPcs, LockPcs, TxnPcs
<1>9. pc' = [pc EXCEPT ![o] = "revert"]
  BY <1>1, <1>2, <1>6 DEF TypeOK
<1>10. \A p \in Ops : p # o => result'[p] = result[p] /\ i'[p] = i[p]
  BY <1>6
<1> QED BY <1>1, <1>8, <1>9, <1>10, ActorStep

(* The commit leaves the cluster alone, and what it renames into place is   *)
(* the rotation's own key.                                                  *)
LEMMA CommitStep ==
  ASSUME OutcomeInv, TypeOK', NEW o \in Ops, Commit(o)
  PROVE  OutcomeInv'
<1> USE DEF Commit, SetPubkey, acquireFlock, createLock, retryLock, recreateLock,
            tryAdminLockCreate, writeRecord, inspectLock, reclaimLock, openTmp, writeTmp, renameTmp
<1>1. pc[o] \in CommitPcs /\ Running(o) /\ UNCHANGED <<clusterVars, rotationVars>>
  BY DEF At, CommitPcs, LockPcs, TxnPcs, Running
<1>2. PICK x \in LockPcs \cup TxnPcs \cup {"commit", "refused"} : pc' = [pc EXCEPT ![o] = x]
  BY DEF Go, LockPcs, TxnPcs
<1>3. TypeOK /\ (alone[o] => Agreed(o) /\ (pc[o] = "rename" => tmp = o))
  BY <1>1, ActorKnows DEF Phase
<1>4. pc'[o] = x
  BY <1>2, <1>3 DEF TypeOK
<1>5. x = "rename" => tmp' = o
  <2>1. writeTmp(o) \/ x # "rename"
    BY <1>3, <1>4 DEF Go, TypeOK
  <2> QED BY <1>3, <1>4, <2>1 DEF Go, TypeOK
<1>6. x = "commit" => pc[o] = "rename" /\ pubkey' = tmp
  BY <1>3, <1>4 DEF At, Go, TypeOK
<1> HIDE DEF Commit
<1>7. x \in CommitPcs /\ x \notin {"endpoint", "fanout", "revert", "ok", "error", "idle", "crashed"}
  BY <1>2 DEF CommitPcs, LockPcs, TxnPcs
<1>8. alone[o] => Agreed(o)'
  BY <1>1, <1>3 DEF Agreed
<1>9. alone[o] => Phase(o)'
  BY <1>3, <1>4, <1>5, <1>6, <1>7, <1>8 DEF Phase
<1> QED BY <1>1, <1>2, <1>7, <1>9, ActorStep

(* A rotation ends.  After the commit everybody has its key; without one    *)
(* the masters it turned back have the old key.                             *)
LEMMA EndStep ==
  ASSUME OutcomeInv, TypeOK', NEW o \in Ops,
         RevertDone(o) \/ CommitDone(o) \/ CommitRefused(o) \/ Crash(o)
  PROVE  OutcomeInv'
<1>1. PICK x \in {"ok", "error", "crashed"} : End(o, x)
  BY DEF RevertDone, CommitDone, CommitRefused, Crash
<1>2. Running(o) /\ UNCHANGED <<pubkey, tmp>>
  BY DEF RevertDone, CommitDone, CommitRefused, Crash, Running, At, adminCrash, releaseLock
<1>3. TypeOK /\ (alone[o] => Phase(o))
  BY <1>2, ActorKnows
<1>4. /\ pc' = [pc EXCEPT ![o] = x] /\ pc'[o] = x /\ last' = o
      /\ UNCHANGED <<clusterVars, old, i, result, alone>>
  BY <1>1, <1>3 DEF End, Go, TypeOK
<1>5. alone[o] => Phase(o)'
  <2> SUFFICES ASSUME alone[o] PROVE Phase(o)'
    OBVIOUS
  <2>1. CASE x = "crashed"
    BY <1>4, <2>1 DEF Phase, CommitPcs, LockPcs, TxnPcs
  <2>2. CASE x = "ok"
    <3>1. pc[o] = "commit"
      BY <1>3, <1>4, <2>2 DEF RevertDone, CommitDone, CommitRefused, Crash, End, Go, At, TypeOK
    <3>2. Agreed(o) /\ pubkey = o
      BY <1>3, <3>1 DEF Phase, CommitPcs
    <3>3. Agreed(o)'
      BY <1>4, <3>2 DEF Agreed
    <3> QED BY <1>2, <1>4, <2>2, <3>2, <3>3 DEF Phase
  <2>3. CASE x = "error"
    <3>1. \/ pc[o] = "revert" /\ i[o] > N
          \/ pc[o] \in {"release", "refused"}
      BY <1>3, <1>4, <2>3 DEF RevertDone, CommitDone, CommitRefused, Crash, End, Go, At, TypeOK, N
    <3>2. CASE pc[o] \in {"release", "refused"}
      <4>1. Agreed(o)
        BY <1>3, <3>2 DEF Phase, CommitPcs, TxnPcs
      <4> QED BY <1>4, <2>3, <4>1 DEF Phase, Agreed, CommitPcs, LockPcs, TxnPcs
    <3>3. CASE pc[o] = "revert" /\ i[o] > N
      <4>1. Reverting(o)
        BY <1>3, <3>3 DEF Phase
      <4>2. \A k \in 1 .. N : k < i[o]
        <5>1. i[o] \in 1 .. N + 1
          BY <1>3 DEF TypeOK, N
        <5> QED BY <3>3, <5>1, Counted, SMTT(30)
      <4>3. \A m \in M : result[o][m] \in {"FAILED", "REVERTED", "REVERT_FAILED"}
        <5> TAKE m \in M
        <5>1. PICK k \in 1 .. N : m = Masters[k]
          BY Counted
        <5> QED BY <4>1, <4>2, <5>1 DEF Reverting
      <4>4. Reverted(o)'
        BY <1>2, <1>4, <4>1, <4>3 DEF Reverting, Reverted, Owed
      <4> QED BY <1>4, <2>3, <4>4 DEF Phase, CommitPcs, LockPcs, TxnPcs
    <3> QED BY <3>1, <3>2, <3>3
  <2> QED BY <2>1, <2>2, <2>3
<1> QED BY <1>2, <1>4, <1>5, ActorStep

(* It holds throughout. *)
LEMMA OutcomeInvariance == Spec => []OutcomeInv
<1>1. Init => OutcomeInv
  <2> SUFFICES ASSUME Init PROVE OutcomeInv
    OBVIOUS
  <2>1. 0 \in 0 .. MaxFaults /\ 1 \in 1 .. N + 1
    BY AdminStateAssumption, Counted, SMTT(30)
  <2>2. AdminTypeOK
    BY <2>1 DEF Init, AdminInit, AdminTypeOK, Keys
  <2>3. TypeOK
    BY <2>1, <2>2 DEF Init, TypeOK, Keys, Statuses, N
  <2>4. ASSUME NEW o \in Ops PROVE Account(o)
    <3>1. pc[o] = "idle" /\ ~Running(o) /\ last # o
      BY AdminStateAssumption DEF Init, Running
    <3>2. Fresh(o)
      BY DEF Init, Fresh
    <3> QED BY <3>1, <3>2 DEF Account
  <2> QED BY <2>3, <2>4 DEF OutcomeInv
<1>2. OutcomeInv /\ [Next]_vars => OutcomeInv'
  <2> SUFFICES ASSUME OutcomeInv, [Next]_vars PROVE OutcomeInv'
    OBVIOUS
  <2>1. TypeOK'
    BY TypesStep DEF OutcomeInv
  <2>2. CASE UNCHANGED vars
    BY <2>1, <2>2, RestStep DEF vars
  <2>3. CASE Aging
    BY <2>1, <2>3, RestStep DEF Aging, LockAges
  <2>4. CASE LateRequest
    BY <2>1, <2>4, LateStep
  <2>5. ASSUME NEW o \in Ops, Start(o) \/ Rotation(o) \/ Crash(o) PROVE OutcomeInv'
    BY <2>1, <2>5, StartsAlone, RotateKeypairStep, UpdateTunnelPeerStep, FanoutDoneStep, RevertStep,
       CommitStep, EndStep DEF Rotation
  <2> QED BY <2>2, <2>3, <2>4, <2>5 DEF Next
<1> QED BY <1>1, <1>2, PTL DEF Spec

(* What executeTier3Rotation reports is true of the keys, for any number of *)
(* rotations, masters and faults: after a success of a rotation that met no *)
(* other everybody has the new key, after a failure the file and the        *)
(* masters it turned back have the old one, whatever requests that timed    *)
(* out are carried out late.                                                *)
THEOREM RotationReportsTruth == Spec => []RotationOutcome
<1>1. OutcomeInv => RotationOutcome
  <2> SUFFICES ASSUME OutcomeInv PROVE RotationOutcome
    OBVIOUS
  <2>1. \A o \in Ops : Quiet /\ last = o /\ alone[o] => Phase(o)
    BY DEF OutcomeInv, Account
  <2>2. SuccessMeansAgreement
    BY <2>1 DEF SuccessMeansAgreement, At, Phase, Agreed
  <2>3. FailureKeepsOldKey
    <3> SUFFICES ASSUME NEW o \in Ops, Quiet, last = o, At(o, "error"), alone[o],
                        NEW m \in M, result[o][m] \in {"FAILED", "REVERTED"}
                 PROVE  /\ pubkey = old[o]
                        /\ \A n \in M : result[o][n] = "REVERTED" => peer[n] = old[o]
                        /\ \A n \in M : result[o][n] # "ROTATED"
      BY DEF FailureKeepsOldKey
    <3>1. Reverted(o)
      BY <2>1 DEF At, Phase
    <3> QED BY <3>1 DEF Reverted
  <2> QED BY <2>2, <2>3 DEF OutcomeInv, RotationOutcome
<1> QED BY <1>1, OutcomeInvariance, PTL

-----------------------------------------------------------------------------
(* Module Upgrade. *)
USE DEF files, loops, history, Idle, Fail

(* The node at work is neither done nor rolled back, and what the node runs *)
(* and what the files hold follows from the phase: the snapshot is the file *)
(* of the image from before, from the moment it is taken; past a deployment *)
(* over SSH the node runs the live file; past the restore the live file is  *)
(* the one from before again.                                               *)
AtWork ==
  /\ status[cur] = "running"
  /\ matched[cur] => before[cur] = IF upc = "snapshot" THEN live[cur] ELSE bak[cur]
  /\ ssh /\ upc \in {"wait_ready", "init", "verify", "recover", "reconcile"} => container[cur] = live[cur]
  /\ upc \in {"redeploy", "recover", "reconcile"} /\ matched[cur] => before[cur] = live[cur]

(* What the three promises say of one node. *)
Kept(n) ==
  /\ ssh /\ status[n] \in {"done", "rolled_back"} => container[n] = live[n]
  /\ ssh /\ status[n] = "rolled_back" /\ matched[n] => container[n] = before[n]
  /\ matched[n] => before[n] \in {live[n], bak[n]}

UpgradeInv ==
  /\ UpgradeTypeOK
  /\ \A n \in Nodes : Kept(n)
  /\ upc # "idle" => AtWork

-----------------------------------------------------------------------------
(* Shapes.  What a step writes has the shape of a file, ... *)
LEMMA WrittenTypes ==
  ASSUME NEW S, NEW f \in [Nodes -> S], NEW g, NEW c \in S, cur \in Nodes,
         g = [f EXCEPT ![cur] = c]
  PROVE  g \in [Nodes -> S] /\ g[cur] = c /\ \A n \in Nodes : n # cur => g[n] = f[n]
  OBVIOUS

(* ... the driver's phase and log have theirs, ... *)
ControlTypes ==
  /\ upc \in Phases \cup {"idle"}
  /\ upc # "idle" => cur \in Nodes /\ target \in Images
  /\ polls \in 0 .. Budget /\ attempt \in 1 .. MaxAttempts
  /\ cancelled \in BOOLEAN
  /\ status \in [Nodes -> {"planned", "running", "done", "failed", "rolled_back"}]
  /\ log \in [Nodes -> (Phases \cup {"none", "rollback"}) \X {"none", "running", "ok", "failed"}]

FileTypes ==
  /\ live \in [Nodes -> Content] /\ bak \in [Nodes -> Content]
  /\ rlive \in [Nodes -> Content] /\ rbak \in [Nodes -> Content]
  /\ container \in [Nodes -> Images]

LEMMA Bounds == 0 \in 0 .. Budget /\ 1 \in 1 .. MaxAttempts
  BY UpgradeAssumption, SMTT(30)

LEMMA LogPhaseTypes ==
  ASSUME NEW p \in Phases
  PROVE  LogPhase(p) \in Phases \cup {"none", "rollback"}
  BY DEF LogPhase, Phases

LEMMA LogTypes ==
  ASSUME ControlTypes, cur \in Nodes, NEW p \in Phases, NEW st \in {"none", "running", "ok", "failed"},
         log' = [log EXCEPT ![cur] = <<LogPhase(p), st>>]
  PROVE  log' \in [Nodes -> (Phases \cup {"none", "rollback"}) \X {"none", "running", "ok", "failed"}]
<1>1. <<LogPhase(p), st>> \in (Phases \cup {"none", "rollback"}) \X {"none", "running", "ok", "failed"}
  BY LogPhaseTypes
<1> QED BY <1>1 DEF ControlTypes

LEMMA GoToTypes ==
  ASSUME ControlTypes, upc # "idle", NEW p \in Phases, GoTo(p)
  PROVE  ControlTypes' /\ cur' = cur /\ upc' = p /\ UNCHANGED status
<1>1. log' \in [Nodes -> (Phases \cup {"none", "rollback"}) \X {"none", "running", "ok", "failed"}]
  BY LogTypes DEF ControlTypes, GoTo
<1> QED BY <1>1, Bounds DEF ControlTypes, GoTo

LEMMA FinishTypes ==
  ASSUME ControlTypes, upc # "idle", NEW st \in {"done", "failed", "rolled_back"},
         NEW outcome \in {"ok", "failed"}, Finish(st, outcome)
  PROVE  /\ ControlTypes' /\ upc' = "idle" /\ status'[cur] = st
         /\ \A n \in Nodes : n # cur => status'[n] = status[n]
<1>1. log' \in [Nodes -> (Phases \cup {"none", "rollback"}) \X {"none", "running", "ok", "failed"}]
  BY LogTypes DEF ControlTypes, Finish
<1>2. status' = [status EXCEPT ![cur] = st] /\ cur \in Nodes
  BY DEF ControlTypes, Finish
<1>3. upc' = "idle" /\ polls' = 0 /\ attempt' = 1 /\ cancelled' = FALSE
  BY DEF Finish
<1> QED BY <1>1, <1>2, <1>3, Bounds DEF ControlTypes

(* ... and so has the count of the failures. *)
LEMMA FaultTypes ==
  ASSUME ufaults \in 0 .. MaxUpgradeFaults, UpgradeFault \/ UNCHANGED ufaults
  PROVE  ufaults' \in 0 .. MaxUpgradeFaults
  BY UpgradeAssumption, SMTT(30) DEF UpgradeFault

-----------------------------------------------------------------------------
(* A step of the driver touches its node c only; what is left to show is    *)
(* that c, which the step may have finished, is in order.                   *)
LEMMA DriverFrame ==
  ASSUME UpgradeInv, upc # "idle", NEW c \in Nodes, c = cur,
         ControlTypes', FileTypes', UpgradeFault \/ UNCHANGED ufaults,
         UNCHANGED <<ssh, before, upgrades>>, matched' \in [Nodes -> BOOLEAN],
         \A n \in Nodes : n # c => /\ live'[n] = live[n] /\ bak'[n] = bak[n]
                                   /\ container'[n] = container[n]
                                   /\ matched'[n] = matched[n] /\ status'[n] = status[n],
         Kept(c)', upc' # "idle" => AtWork'
  PROVE  UpgradeInv'
<1>0. /\ ssh \in BOOLEAN /\ before \in [Nodes -> Images] /\ upgrades \in 0 .. MaxUpgrades
      /\ ufaults' \in 0 .. MaxUpgradeFaults
  BY FaultTypes DEF UpgradeInv, UpgradeTypeOK
<1>1. UpgradeTypeOK'
  BY <1>0 DEF UpgradeTypeOK, ControlTypes, FileTypes
<1>2. ASSUME NEW n \in Nodes PROVE Kept(n)'
  <2>1. CASE n = c
    BY <2>1
  <2>2. CASE n # c
    BY <2>2 DEF UpgradeInv, Kept
  <2> QED BY <2>1, <2>2
<1> QED BY <1>1, <1>2 DEF UpgradeInv

(* Of a node that did not settle only the previous file is promised. *)
LEMMA Unsettled ==
  ASSUME NEW c \in Nodes, status'[c] \notin {"done", "rolled_back"},
         matched'[c] => before'[c] \in {live'[c], bak'[c]}
  PROVE  Kept(c)'
  BY DEF Kept

(* What is known when the driver takes a step. *)
LEMMA Working ==
  ASSUME UpgradeInv, upc # "idle"
  PROVE  /\ ControlTypes /\ FileTypes /\ cur \in Nodes /\ target \in Images /\ AtWork /\ Kept(cur)
         /\ matched \in [Nodes -> BOOLEAN] /\ before \in [Nodes -> Images]
         /\ before[cur] # NoFile
<1>1. ControlTypes /\ FileTypes /\ matched \in [Nodes -> BOOLEAN] /\ before \in [Nodes -> Images]
  BY DEF UpgradeInv, UpgradeTypeOK, ControlTypes, FileTypes
<1>2. cur \in Nodes /\ target \in Images
  BY <1>1 DEF ControlTypes
<1>3. before[cur] # NoFile
  BY <1>1, <1>2, UpgradeAssumption
<1> QED BY <1>1, <1>2, <1>3 DEF UpgradeInv

(* phasePrepare: the snapshot is the live file, which the rendering then    *)
(* may overwrite.                                                           *)
LEMMA SnapshotStep ==
  ASSUME UpgradeInv, phasePrepareSnapshot
  PROVE  UpgradeInv'
<1>1. upc = "snapshot" /\ UNCHANGED <<live, rlive, rbak, container, ssh, before, upgrades>>
  BY DEF phasePrepareSnapshot
<1>2. PICK c \in Nodes : c = cur
  BY <1>1, Working
<1>3. /\ ControlTypes /\ FileTypes /\ AtWork /\ matched \in [Nodes -> BOOLEAN]
      /\ before[c] # NoFile /\ status[c] = "running" /\ (matched[c] => before[c] = live[c])
  BY <1>1, <1>2, Working DEF AtWork
<1>4. CASE live[cur] = NoFile /\ GoTo("render") /\ UNCHANGED <<bak, ufaults, matched>>
  <2>1. ControlTypes' /\ cur' = c /\ upc' = "render" /\ UNCHANGED status
    BY <1>1, <1>2, <1>3, <1>4, GoToTypes DEF Phases
  <2>2. FileTypes' /\ ~matched[c]
    BY <1>1, <1>2, <1>3, <1>4 DEF FileTypes
  <2>3. AtWork' /\ Kept(c)'
    BY <1>1, <1>3, <1>4, <2>1, <2>2 DEF AtWork, Kept
  <2> QED BY <1>1, <1>2, <1>3, <1>4, <2>1, <2>2, <2>3, DriverFrame
<1>5. CASE Written(bak, live[cur]) /\ GoTo("render") /\ UNCHANGED <<ufaults, matched>>
  <2>1. ControlTypes' /\ cur' = c /\ upc' = "render" /\ UNCHANGED status
    BY <1>1, <1>2, <1>3, <1>5, GoToTypes DEF Phases
  <2>2. /\ bak' \in [Nodes -> Content] /\ bak'[c] = live[c]
        /\ \A n \in Nodes : n # c => bak'[n] = bak[n]
    BY <1>2, <1>3, <1>5 DEF FileTypes, Written
  <2>3. FileTypes'
    BY <1>1, <1>3, <2>2 DEF FileTypes
  <2>4. AtWork' /\ Kept(c)'
    BY <1>1, <1>3, <1>5, <2>1, <2>2 DEF AtWork, Kept
  <2> QED BY <1>1, <1>2, <1>3, <1>5, <2>1, <2>2, <2>3, <2>4, DriverFrame
<1>6. CASE HalfWritten(bak) /\ Fail /\ UNCHANGED matched
  <2>1. /\ ControlTypes' /\ upc' = "idle" /\ status'[c] = "failed"
        /\ \A n \in Nodes : n # c => status'[n] = status[n]
    BY <1>1, <1>2, <1>3, <1>6, FinishTypes
  <2>2. PICK x \in {bak[c], TornFile} : bak' = [bak EXCEPT ![c] = x]
    BY <1>2, <1>6 DEF HalfWritten, Written
  <2>3. bak' \in [Nodes -> Content] /\ \A n \in Nodes : n # c => bak'[n] = bak[n]
    BY <1>3, <2>2 DEF FileTypes, Content
  <2>4. FileTypes' /\ UpgradeFault
    BY <1>1, <1>3, <1>6, <2>3 DEF FileTypes, HalfWritten
  <2>5. Kept(c)'
    BY <1>1, <1>3, <1>6, <2>1, Unsettled
  <2> QED BY <1>1, <1>2, <1>3, <1>6, <2>1, <2>3, <2>4, <2>5, DriverFrame
<1>7. CASE UpgradeFault /\ GoTo("render") /\ UNCHANGED bak /\ Written(matched, FALSE)
  <2>1. ControlTypes' /\ cur' = c /\ upc' = "render" /\ UNCHANGED status
    BY <1>1, <1>2, <1>3, <1>7, GoToTypes DEF Phases
  <2>2. /\ matched' \in [Nodes -> BOOLEAN] /\ ~matched'[c]
        /\ \A n \in Nodes : n # c => matched'[n] = matched[n]
    BY <1>2, <1>3, <1>7 DEF Written
  <2>3. FileTypes'
    BY <1>1, <1>3, <1>7 DEF FileTypes
  <2>4. AtWork' /\ Kept(c)'
    BY <1>1, <1>3, <2>1, <2>2 DEF AtWork, Kept
  <2> QED BY <1>1, <1>2, <1>3, <1>7, <2>1, <2>2, <2>3, <2>4, DriverFrame
<1> QED BY <1>4, <1>5, <1>6, <1>7 DEF phasePrepareSnapshot

LEMMA RenderStep ==
  ASSUME UpgradeInv, phasePrepareRender
  PROVE  UpgradeInv'
<1>1. upc = "render" /\ UNCHANGED <<bak, rlive, rbak, container, ssh, before, matched, upgrades>>
  BY DEF phasePrepareRender
<1>2. PICK c \in Nodes : c = cur
  BY <1>1, Working
<1>3. /\ ControlTypes /\ FileTypes /\ AtWork /\ matched \in [Nodes -> BOOLEAN] /\ target \in Images
      /\ status[c] = "running" /\ (matched[c] => before[c] = bak[c])
  BY <1>1, <1>2, Working DEF AtWork
<1>4. CASE Written(live, target) /\ GoTo("deploy") /\ UNCHANGED ufaults
  <2>1. ControlTypes' /\ cur' = c /\ upc' = "deploy" /\ UNCHANGED status
    BY <1>1, <1>2, <1>3, <1>4, GoToTypes DEF Phases
  <2>2. live' \in [Nodes -> Content] /\ \A n \in Nodes : n # c => live'[n] = live[n]
    BY <1>2, <1>3, <1>4 DEF FileTypes, Written, Content
  <2>3. FileTypes'
    BY <1>1, <1>3, <2>2 DEF FileTypes
  <2>4. AtWork' /\ Kept(c)'
    BY <1>1, <1>3, <2>1 DEF AtWork, Kept
  <2> QED BY <1>1, <1>2, <1>3, <1>4, <2>1, <2>2, <2>3, <2>4, DriverFrame
<1>5. CASE HalfWritten(live) /\ Fail
  <2>1. /\ ControlTypes' /\ upc' = "idle" /\ status'[c] = "failed"
        /\ \A n \in Nodes : n # c => status'[n] = status[n]
    BY <1>1, <1>2, <1>3, <1>5, FinishTypes
  <2>2. PICK x \in {live[c], TornFile} : live' = [live EXCEPT ![c] = x]
    BY <1>2, <1>5 DEF HalfWritten, Written
  <2>3. live' \in [Nodes -> Content] /\ \A n \in Nodes : n # c => live'[n] = live[n]
    BY <1>3, <2>2 DEF FileTypes, Content
  <2>4. FileTypes' /\ UpgradeFault
    BY <1>1, <1>3, <1>5, <2>3 DEF FileTypes, HalfWritten
  <2>5. Kept(c)'
    BY <1>1, <1>3, <2>1, Unsettled
  <2> QED BY <1>1, <1>2, <1>3, <2>1, <2>3, <2>4, <2>5, DriverFrame
<1> QED BY <1>4, <1>5 DEF phasePrepareRender

(* UploadComposeFile and docker compose up: whichever remote file is        *)
(* written, the node runs the live file when the next phase begins, and     *)
(* runs an image whatever happens.                                          *)
LEMMA Uploaded ==
  ASSUME FileTypes, ControlTypes, upc # "idle", NEW c \in Nodes, c = cur,
         NEW remote \in [Nodes -> Content], NEW remote2,
         NEW p \in Phases,
         \/ /\ remote2 = [remote EXCEPT ![cur] = live[cur]]
            /\ live[cur] \in Runnable /\ Written(container, live[cur]) /\ GoTo(p) /\ UNCHANGED ufaults
         \/ /\ remote2 = [remote EXCEPT ![cur] = live[cur]]
            /\ Fail /\ UNCHANGED <<container, ufaults>>
         \/ /\ \E x \in {remote[cur], TornFile, live[cur]} : remote2 = [remote EXCEPT ![cur] = x]
            /\ UpgradeFault /\ Fail
            /\ UNCHANGED container \/ (live[cur] \in Runnable /\ Written(container, live[cur]))
  PROVE  /\ remote2 \in [Nodes -> Content] /\ container' \in [Nodes -> Images]
         /\ \A n \in Nodes : n # c => container'[n] = container[n] /\ status'[n] = status[n]
         /\ UpgradeFault \/ UNCHANGED ufaults
         /\ ControlTypes'
         /\ \/ upc' = p /\ cur' = c /\ UNCHANGED status /\ container'[c] = live[c]
            \/ upc' = "idle" /\ status'[c] = "failed"
<1>1. remote2 \in [Nodes -> Content]
  BY DEF FileTypes, Content
<1>2. /\ container' \in [Nodes -> Images] /\ \A n \in Nodes : n # c => container'[n] = container[n]
      /\ Written(container, live[cur]) => container'[c] = live[c]
  <2>1. CASE UNCHANGED container
    <3>1. container \in [Nodes -> Images] /\ (container' = [container EXCEPT ![c] = live[c]] => container'[c] = live[c])
      BY DEF FileTypes
    <3> QED BY <2>1, <3>1 DEF Written
  <2>2. CASE live[cur] \in Runnable /\ Written(container, live[cur])
    BY <2>2 DEF FileTypes, Written, Runnable
  <2> QED BY <2>1, <2>2
<1>3. CASE GoTo(p) /\ Written(container, live[cur])
  BY <1>1, <1>2, <1>3, GoToTypes
<1>4. CASE Fail
  <2>1. /\ ControlTypes' /\ upc' = "idle" /\ status'[c] = "failed"
        /\ \A n \in Nodes : n # c => status'[n] = status[n]
    BY <1>4, FinishTypes
  <2> QED BY <1>1, <1>2, <2>1
<1> QED BY <1>3, <1>4

(* phaseDeploy leaves the operator's files alone. *)
LEMMA DeployStep ==
  ASSUME UpgradeInv, phaseDeploy
  PROVE  UpgradeInv'
<1>1. upc = "deploy" /\ UNCHANGED <<live, bak, rbak, ssh, before, matched, upgrades>>
  BY DEF phaseDeploy
<1>2. PICK c \in Nodes : c = cur
  BY <1>1, Working
<1>3. /\ ControlTypes /\ FileTypes /\ AtWork /\ matched \in [Nodes -> BOOLEAN]
      /\ status[c] = "running" /\ (matched[c] => before[c] = bak[c])
  BY <1>1, <1>2, Working DEF AtWork
<1>4. CASE ~ssh /\ GoTo("wait_ready") /\ UNCHANGED <<rlive, container, ufaults>>
  <2>1. ControlTypes' /\ cur' = c /\ upc' = "wait_ready" /\ UNCHANGED status
    BY <1>1, <1>2, <1>3, <1>4, GoToTypes DEF Phases
  <2>2. AtWork' /\ Kept(c)' /\ FileTypes'
    BY <1>1, <1>3, <1>4, <2>1 DEF AtWork, Kept, FileTypes
  <2> QED BY <1>1, <1>2, <1>3, <1>4, <2>1, <2>2, DriverFrame
<1>5. CASE Fail /\ UNCHANGED <<rlive, container, ufaults>>
  <2>1. /\ ControlTypes' /\ upc' = "idle" /\ status'[c] = "failed"
        /\ \A n \in Nodes : n # c => status'[n] = status[n]
    BY <1>1, <1>2, <1>3, <1>5, FinishTypes
  <2>2. Kept(c)' /\ FileTypes'
    BY <1>1, <1>3, <1>5, <2>1, Unsettled DEF FileTypes
  <2> QED BY <1>1, <1>2, <1>3, <1>5, <2>1, <2>2, DriverFrame
<1>6. CASE Upload(rlive, "wait_ready")
  <2>1. /\ rlive' \in [Nodes -> Content] /\ container' \in [Nodes -> Images]
        /\ \A n \in Nodes : n # c => container'[n] = container[n] /\ status'[n] = status[n]
        /\ UpgradeFault \/ UNCHANGED ufaults
        /\ ControlTypes'
        /\ \/ upc' = "wait_ready" /\ cur' = c /\ UNCHANGED status /\ container'[c] = live[c]
           \/ upc' = "idle" /\ status'[c] = "failed"
    <3>1. rlive \in [Nodes -> Content] /\ "wait_ready" \in Phases /\ upc # "idle"
      BY <1>1, <1>3 DEF FileTypes, Phases
    <3> QED BY <1>2, <1>3, <1>6, <3>1, Uploaded DEF Upload, Written
  <2>2. FileTypes'
    BY <1>1, <1>3, <2>1 DEF FileTypes
  <2>3. Kept(c)'
    BY <1>1, <1>3, <2>1, Unsettled
  <2>4. upc' # "idle" => AtWork'
    BY <1>1, <1>3, <2>1 DEF AtWork
  <2> QED BY <1>1, <1>2, <1>3, <2>1, <2>2, <2>3, <2>4, DriverFrame
<1> QED BY <1>4, <1>5, <1>6 DEF phaseDeploy

(* The phases that touch no file: one passes on to the next, fails, or goes *)
(* another round.                                                           *)
LEMMA PassStep ==
  ASSUME UpgradeInv, upc # "idle", UNCHANGED <<files, container, ssh, history, upgrades>>,
         UpgradeFault \/ UNCHANGED ufaults, NEW q \in Phases, GoTo(q), q # "snapshot", upc # "snapshot",
         ssh /\ q \in {"wait_ready", "init", "verify", "recover", "reconcile"} => container[cur] = live[cur],
         q \in {"redeploy", "recover", "reconcile"} /\ matched[cur] => before[cur] = live[cur]
  PROVE  UpgradeInv'
<1>1. PICK c \in Nodes : c = cur
  BY Working
<1>2. /\ ControlTypes /\ FileTypes /\ matched \in [Nodes -> BOOLEAN]
      /\ status[c] = "running" /\ (matched[c] => before[c] = bak[c])
  BY <1>1, Working DEF AtWork
<1>3. ControlTypes' /\ cur' = c /\ upc' = q /\ UNCHANGED status
  BY <1>1, <1>2, GoToTypes
<1>4. AtWork' /\ Kept(c)' /\ FileTypes'
  BY <1>1, <1>2, <1>3 DEF AtWork, Kept, FileTypes
<1> QED BY <1>1, <1>2, <1>3, <1>4, DriverFrame

LEMMA FailStep ==
  ASSUME UpgradeInv, upc # "idle", UNCHANGED <<files, container, ssh, history, upgrades>>,
         UpgradeFault \/ UNCHANGED ufaults, Fail
  PROVE  UpgradeInv'
<1>1. PICK c \in Nodes : c = cur
  BY Working
<1>2. /\ ControlTypes /\ FileTypes /\ matched \in [Nodes -> BOOLEAN]
      /\ (matched[c] => before[c] \in {live[c], bak[c]})
  BY <1>1, Working DEF Kept
<1>3. /\ ControlTypes' /\ upc' = "idle" /\ status'[c] = "failed"
      /\ \A n \in Nodes : n # c => status'[n] = status[n]
  BY <1>1, <1>2, FinishTypes
<1>4. Kept(c)' /\ FileTypes'
  BY <1>2, <1>3, Unsettled DEF FileTypes
<1> QED BY <1>1, <1>2, <1>3, <1>4, DriverFrame

LEMMA RoundStep ==
  ASSUME UpgradeInv, upc # "idle", UNCHANGED <<files, container, ssh, history, upgrades>>,
         UNCHANGED <<upc, cur, target, status, log>>, UpgradeFault \/ UNCHANGED ufaults,
         polls' \in 0 .. Budget, attempt' \in 1 .. MaxAttempts, cancelled' \in BOOLEAN
  PROVE  UpgradeInv'
<1>1. PICK c \in Nodes : c = cur
  BY Working
<1>2. ControlTypes /\ FileTypes /\ matched \in [Nodes -> BOOLEAN] /\ AtWork /\ Kept(c)
  BY <1>1, Working
<1>3. ControlTypes' /\ FileTypes'
  BY <1>2 DEF ControlTypes, FileTypes
<1>4. AtWork' /\ Kept(c)'
  BY <1>2 DEF AtWork, Kept
<1> QED BY <1>1, <1>2, <1>3, <1>4, DriverFrame

(* waitReady, in both its places. *)
LEMMA WaitReadyStep ==
  ASSUME UpgradeInv, waitReady("wait_ready", "init") \/ waitReady("recover", "reconcile")
  PROVE  UpgradeInv'
<1>1. upc \in {"wait_ready", "recover"} /\ UNCHANGED <<files, container, ssh, history, upgrades>>
  BY DEF waitReady
<1>2. ControlTypes /\ AtWork
  BY <1>1, Working
<1>3. CASE upc = "wait_ready" /\ GoTo("init") /\ UNCHANGED ufaults
  BY <1>1, <1>2, <1>3, PassStep DEF AtWork, Phases
<1>4. CASE upc = "recover" /\ GoTo("reconcile") /\ UNCHANGED ufaults
  BY <1>1, <1>2, <1>4, PassStep DEF AtWork, Phases
<1>5. CASE PollAgain
  <2>1. polls' \in 0 .. Budget
    BY <1>2, <1>5, UpgradeAssumption, SMTT(30) DEF PollAgain, ControlTypes
  <2> QED BY <1>1, <1>2, <1>5, <2>1, RoundStep DEF PollAgain, ControlTypes
<1>6. CASE Fail /\ (UpgradeFault \/ UNCHANGED ufaults)
  BY <1>1, <1>6, FailStep
<1> QED BY <1>1, <1>3, <1>4, <1>5, <1>6 DEF waitReady

LEMMA InitPhaseStep ==
  ASSUME UpgradeInv, phaseInit
  PROVE  UpgradeInv'
<1>1. upc = "init" /\ UNCHANGED <<files, container, ssh, history, upgrades>>
  BY DEF phaseInit
<1>2. AtWork
  BY <1>1, Working
<1>3. CASE GoTo("verify") /\ UNCHANGED ufaults
  BY <1>1, <1>2, <1>3, PassStep DEF AtWork, Phases
<1>4. CASE Fail /\ (UpgradeFault \/ UNCHANGED ufaults)
  BY <1>1, <1>4, FailStep
<1> QED BY <1>3, <1>4 DEF phaseInit

(* A step that ends well: the node runs the live file, and after a rollback *)
(* this is the file from before.                                            *)
LEMMA SettleStep ==
  ASSUME UpgradeInv, upc \in {"verify", "reconcile"},
         UNCHANGED <<files, container, ssh, history, upgrades, ufaults>>,
         NEW st \in {"done", "rolled_back"}, st = "rolled_back" => upc = "reconcile", Finish(st, "ok")
  PROVE  UpgradeInv'
<1>1. PICK c \in Nodes : c = cur
  BY Working
<1>2. /\ ControlTypes /\ FileTypes /\ matched \in [Nodes -> BOOLEAN]
      /\ matched[c] => before[c] = bak[c]
      /\ ssh => container[c] = live[c]
      /\ upc = "reconcile" /\ matched[c] => before[c] = live[c]
  BY <1>1, Working DEF AtWork
<1>3. /\ ControlTypes' /\ upc' = "idle" /\ status'[c] = st
      /\ \A n \in Nodes : n # c => status'[n] = status[n]
  BY <1>1, <1>2, FinishTypes
<1>4. Kept(c)' /\ FileTypes'
  BY <1>2, <1>3 DEF Kept, FileTypes
<1> QED BY <1>1, <1>2, <1>3, <1>4, DriverFrame

LEMMA VerifyStep ==
  ASSUME UpgradeInv, phaseVerify
  PROVE  UpgradeInv'
<1>1. upc = "verify" /\ UNCHANGED <<files, container, ssh, history, upgrades>>
  BY DEF phaseVerify
<1>2. CASE Finish("done", "ok") /\ UNCHANGED ufaults
  BY <1>1, <1>2, SettleStep
<1>3. CASE GoTo("restore") /\ UpgradeFault
  BY <1>1, <1>3, PassStep DEF Phases
<1>4. CASE /\ attempt < MaxAttempts /\ attempt' = attempt + 1
           /\ UNCHANGED <<upc, cur, target, polls, cancelled, status, log, ufaults>>
  <2>1. ControlTypes
    BY <1>1, Working
  <2>2. attempt' \in 1 .. MaxAttempts
    BY <1>4, <2>1, UpgradeAssumption, SMTT(30) DEF ControlTypes
  <2> QED BY <1>1, <1>4, <2>1, <2>2, RoundStep DEF ControlTypes
<1> QED BY <1>2, <1>3, <1>4 DEF phaseVerify

LEMMA ReconcileStep ==
  ASSUME UpgradeInv, rollbackReconcile
  PROVE  UpgradeInv'
<1>1. upc = "reconcile" /\ UNCHANGED <<files, container, ssh, history, upgrades>>
  BY DEF rollbackReconcile
<1>2. CASE Finish("rolled_back", "ok") /\ UNCHANGED ufaults
  BY <1>1, <1>2, SettleStep
<1>3. CASE UpgradeFault /\ Fail
  BY <1>1, <1>3, FailStep
<1> QED BY <1>2, <1>3 DEF rollbackReconcile

(* rollbackNode: the snapshot goes over the live file, ... *)
LEMMA RestoreStep ==
  ASSUME UpgradeInv, rollbackRestore
  PROVE  UpgradeInv'
<1>1. upc = "restore" /\ UNCHANGED <<bak, rlive, rbak, container, ssh, before, matched, upgrades>>
  BY DEF rollbackRestore
<1>2. PICK c \in Nodes : c = cur
  BY <1>1, Working
<1>3. /\ ControlTypes /\ FileTypes /\ AtWork /\ matched \in [Nodes -> BOOLEAN] /\ before[c] # NoFile
      /\ status[c] = "running" /\ (matched[c] => before[c] = bak[c])
  BY <1>1, <1>2, Working DEF AtWork
<1>4. CASE bak[cur] = NoFile /\ GoTo("redeploy") /\ UNCHANGED <<live, ufaults>>
  BY <1>1, <1>2, <1>3, <1>4, PassStep DEF Phases
<1>5. CASE Written(live, bak[cur]) /\ GoTo("redeploy") /\ UNCHANGED ufaults
  <2>1. ControlTypes' /\ cur' = c /\ upc' = "redeploy" /\ UNCHANGED status
    BY <1>1, <1>2, <1>3, <1>5, GoToTypes DEF Phases
  <2>2. /\ live' \in [Nodes -> Content] /\ live'[c] = bak[c]
        /\ \A n \in Nodes : n # c => live'[n] = live[n]
    BY <1>2, <1>3, <1>5 DEF FileTypes, Written
  <2>3. FileTypes'
    BY <1>1, <1>3, <2>2 DEF FileTypes
  <2>4. AtWork' /\ Kept(c)'
    BY <1>1, <1>3, <2>1, <2>2 DEF AtWork, Kept
  <2> QED BY <1>1, <1>2, <1>3, <1>5, <2>1, <2>2, <2>3, <2>4, DriverFrame
<1>6. CASE HalfWritten(live) /\ Fail
  <2>1. /\ ControlTypes' /\ upc' = "idle" /\ status'[c] = "failed"
        /\ \A n \in Nodes : n # c => status'[n] = status[n]
    BY <1>1, <1>2, <1>3, <1>6, FinishTypes
  <2>2. PICK x \in {live[c], TornFile} : live' = [live EXCEPT ![c] = x]
    BY <1>2, <1>6 DEF HalfWritten, Written
  <2>3. live' \in [Nodes -> Content] /\ \A n \in Nodes : n # c => live'[n] = live[n]
    BY <1>3, <2>2 DEF FileTypes, Content
  <2>4. FileTypes' /\ UpgradeFault
    BY <1>1, <1>3, <1>6, <2>3 DEF FileTypes, HalfWritten
  <2>5. Kept(c)'
    BY <1>1, <1>3, <2>1, Unsettled
  <2> QED BY <1>1, <1>2, <1>3, <2>1, <2>3, <2>4, <2>5, DriverFrame
<1> QED BY <1>4, <1>5, <1>6 DEF rollbackRestore

(* ... and from there to the host. *)
LEMMA RedeployStep ==
  ASSUME UpgradeInv, sshRollback
  PROVE  UpgradeInv'
<1>1. upc = "redeploy" /\ UNCHANGED <<live, bak, rlive, ssh, before, matched, upgrades>>
  BY DEF sshRollback
<1>2. PICK c \in Nodes : c = cur
  BY <1>1, Working
<1>3. /\ ControlTypes /\ FileTypes /\ AtWork /\ matched \in [Nodes -> BOOLEAN]
      /\ status[c] = "running" /\ (matched[c] => before[c] = bak[c] /\ before[c] = live[c])
  BY <1>1, <1>2, Working DEF AtWork
<1>4. CASE ~ssh /\ GoTo("recover") /\ UNCHANGED <<rbak, container, ufaults>>
  BY <1>1, <1>2, <1>3, <1>4, PassStep DEF Phases
<1>5. CASE Upload(rbak, "recover")
  <2>1. /\ rbak' \in [Nodes -> Content] /\ container' \in [Nodes -> Images]
        /\ \A n \in Nodes : n # c => container'[n] = container[n] /\ status'[n] = status[n]
        /\ UpgradeFault \/ UNCHANGED ufaults
        /\ ControlTypes'
        /\ \/ upc' = "recover" /\ cur' = c /\ UNCHANGED status /\ container'[c] = live[c]
           \/ upc' = "idle" /\ status'[c] = "failed"
    <3>1. rbak \in [Nodes -> Content] /\ "recover" \in Phases /\ upc # "idle"
      BY <1>1, <1>3 DEF FileTypes, Phases
    <3> QED BY <1>2, <1>3, <1>5, <3>1, Uploaded DEF Upload, Written
  <2>2. FileTypes'
    BY <1>1, <1>3, <2>1 DEF FileTypes
  <2>3. Kept(c)'
    BY <1>1, <1>3, <2>1, Unsettled
  <2>4. upc' # "idle" => AtWork'
    BY <1>1, <1>3, <2>1 DEF AtWork
  <2> QED BY <1>1, <1>2, <1>3, <2>1, <2>2, <2>3, <2>4, DriverFrame
<1> QED BY <1>4, <1>5 DEF sshRollback

(* The process dies in any phase, with the file it is writing torn. *)
LEMMA CrashStep ==
  ASSUME UpgradeInv, UpgradeCrash
  PROVE  UpgradeInv'
<1>1. upc # "idle" /\ UpgradeFault /\ UNCHANGED <<container, ssh, before, matched, upgrades>>
  BY DEF UpgradeCrash
<1>2. PICK c \in Nodes : c = cur
  BY <1>1, Working
<1>3. /\ ControlTypes /\ FileTypes /\ AtWork /\ matched \in [Nodes -> BOOLEAN] /\ Kept(c)
  BY <1>1, <1>2, Working
<1>4. /\ ControlTypes' /\ upc' = "idle" /\ status'[c] = "planned"
      /\ \A n \in Nodes : n # c => status'[n] = status[n]
  <2>1. /\ upc' = "idle" /\ polls' = 0 /\ attempt' = 1 /\ cancelled' = FALSE /\ log' = log
        /\ status' = [status EXCEPT ![c] = "planned"]
    BY <1>2 DEF UpgradeCrash
  <2> QED BY <1>3, <2>1, Bounds DEF ControlTypes
<1>5. TornFile \in Content
  BY DEF Content
<1>6. FileTypes' /\ \A n \in Nodes : n # c => live'[n] = live[n] /\ bak'[n] = bak[n]
  <2>1. /\ live' = live \/ live' = [live EXCEPT ![c] = TornFile]
        /\ bak' = bak \/ bak' = [bak EXCEPT ![c] = TornFile]
    BY <1>2 DEF UpgradeCrash, Written
  <2>2. /\ rlive' = rlive \/ rlive' = [rlive EXCEPT ![c] = TornFile]
        /\ rbak' = rbak \/ rbak' = [rbak EXCEPT ![c] = TornFile]
    BY <1>2 DEF UpgradeCrash, Written
  <2>3. FileTypes'
    <3>1. live' \in [Nodes -> Content] /\ bak' \in [Nodes -> Content]
      BY <1>3, <1>5, <2>1 DEF FileTypes
    <3>2. rlive' \in [Nodes -> Content] /\ rbak' \in [Nodes -> Content]
      BY <1>3, <1>5, <2>2 DEF FileTypes
    <3> QED BY <1>1, <1>3, <3>1, <3>2 DEF FileTypes
  <2>4. \A n \in Nodes : n # c => live'[n] = live[n] /\ bak'[n] = bak[n]
    BY <1>3, <2>1 DEF FileTypes
  <2> QED BY <2>3, <2>4
<1>7. \/ UNCHANGED <<live, bak>>
      \/ upc = "snapshot" /\ UNCHANGED live
      \/ upc # "snapshot" /\ UNCHANGED bak
  BY DEF UpgradeCrash
<1>8. matched[c] => before[c] \in {live'[c], bak'[c]}
  BY <1>2, <1>3, <1>7 DEF AtWork, Kept
<1>9. Kept(c)'
  BY <1>1, <1>4, <1>8, Unsettled
<1> QED BY <1>1, <1>2, <1>3, <1>4, <1>6, <1>9, DriverFrame

LEMMA CancelStep ==
  ASSUME UpgradeInv, Cancel
  PROVE  UpgradeInv'
<1>1. ControlTypes
  BY Working DEF Cancel
<1> QED BY <1>1, RoundStep DEF Cancel, ControlTypes

(* UpgradeNode begins: the history is of this step from now on. *)
LEMMA BeginStep ==
  ASSUME UpgradeInv, NEW c \in Nodes, NEW image \in Images, UpgradeNode(c, image)
  PROVE  UpgradeInv'
<1>0. UpgradeTypeOK
  BY DEF UpgradeInv
<1>1. /\ upc' = "snapshot" /\ cur' = c /\ target' = image /\ upgrades < MaxUpgrades
      /\ upgrades' = upgrades + 1 /\ status' = [status EXCEPT ![c] = "running"]
      /\ log' = [log EXCEPT ![c] = <<"snapshot", "running">>]
      /\ before' = [before EXCEPT ![c] = container[c]]
      /\ matched' = [matched EXCEPT ![c] = live[c] = container[c]]
      /\ UNCHANGED <<ssh, files, container, loops, cancelled, ufaults>>
  BY DEF UpgradeNode
<1>2. upgrades' \in 0 .. MaxUpgrades
  BY <1>0, <1>1, UpgradeAssumption, SMTT(30) DEF UpgradeTypeOK
<1>3. /\ before' \in [Nodes -> Images] /\ before'[c] = container[c]
      /\ \A n \in Nodes : n # c => before'[n] = before[n]
  BY <1>0, <1>1 DEF UpgradeTypeOK
<1>4. /\ matched' \in [Nodes -> BOOLEAN] /\ (matched'[c] => live[c] = container[c])
      /\ \A n \in Nodes : n # c => matched'[n] = matched[n]
  <2>1. (live[c] = container[c]) \in BOOLEAN
    OBVIOUS
  <2> QED BY <1>0, <1>1, <2>1 DEF UpgradeTypeOK
<1>5. /\ status'[c] = "running" /\ \A n \in Nodes : n # c => status'[n] = status[n]
      /\ status' \in [Nodes -> {"planned", "running", "done", "failed", "rolled_back"}]
  BY <1>0, <1>1 DEF UpgradeTypeOK
<1>6. log' \in [Nodes -> (Phases \cup {"none", "rollback"}) \X {"none", "running", "ok", "failed"}]
  <2>1. <<"snapshot", "running">>
          \in (Phases \cup {"none", "rollback"}) \X {"none", "running", "ok", "failed"}
    BY DEF Phases
  <2> QED BY <1>0, <1>1, <2>1 DEF UpgradeTypeOK
<1>7. UpgradeTypeOK'
  BY <1>0, <1>1, <1>2, <1>3, <1>4, <1>5, <1>6 DEF UpgradeTypeOK, Phases
<1>8. ASSUME NEW n \in Nodes PROVE Kept(n)'
  <2>1. CASE n = c
    BY <1>1, <1>3, <1>4, <1>5, <2>1, Unsettled
  <2>2. CASE n # c
    BY <1>1, <1>3, <1>4, <1>5, <2>2 DEF UpgradeInv, Kept
  <2> QED BY <2>1, <2>2
<1>9. AtWork'
  BY <1>1, <1>3, <1>4, <1>5 DEF AtWork
<1> QED BY <1>7, <1>8, <1>9 DEF UpgradeInv

(* The operator deploys by hand, which nothing is promised about. *)
LEMMA ManualStep ==
  ASSUME UpgradeInv, NEW c \in Nodes, ManualDeploy(c)
  PROVE  UpgradeInv'
<1>0. UpgradeTypeOK
  BY DEF UpgradeInv
<1>1. /\ ~ssh /\ live[c] \in Runnable /\ rlive' = [rlive EXCEPT ![c] = live[c]]
      /\ container' = [container EXCEPT ![c] = live[c]]
      /\ UNCHANGED <<ssh, live, bak, rbak, upc, cur, target, loops, cancelled, status, log,
                     history, upgrades, ufaults>>
  BY DEF ManualDeploy
<1>2. rlive' \in [Nodes -> Content] /\ container' \in [Nodes -> Images]
  BY <1>0, <1>1 DEF UpgradeTypeOK, Runnable
<1>3. UpgradeTypeOK'
  BY <1>0, <1>1, <1>2 DEF UpgradeTypeOK
<1>4. \A n \in Nodes : Kept(n)'
  BY <1>1 DEF UpgradeInv, Kept
<1>5. upc' # "idle" => AtWork'
  BY <1>1 DEF UpgradeInv, AtWork
<1> QED BY <1>3, <1>4, <1>5 DEF UpgradeInv

-----------------------------------------------------------------------------
(* It holds throughout. *)
LEMMA UpgradeInvariance == UpgradeSpec => []UpgradeInv
<1>1. UpgradeInit => UpgradeInv
  <2> SUFFICES ASSUME UpgradeInit PROVE UpgradeInv
    OBVIOUS
  <2>1. First \in Images /\ 0 \in 0 .. MaxUpgrades /\ 0 \in 0 .. MaxUpgradeFaults
    BY UpgradeAssumption, SMTT(30)
  <2>2. live \in [Nodes -> Content] /\ bak \in [Nodes -> Content] /\ container \in [Nodes -> Images]
    BY <2>1 DEF UpgradeInit, Content
  <2>3. matched \in [Nodes -> BOOLEAN] /\ \A n \in Nodes : matched[n] => live[n] = First
    <3>1. \A n \in Nodes : (live[n] = First) \in BOOLEAN
      OBVIOUS
    <3> QED BY <3>1 DEF UpgradeInit
  <2>4. log \in [Nodes -> (Phases \cup {"none", "rollback"}) \X {"none", "running", "ok", "failed"}]
    BY DEF UpgradeInit
  <2>5. UpgradeTypeOK
    BY <2>1, <2>2, <2>3, <2>4, Bounds DEF UpgradeInit, UpgradeTypeOK
  <2>6. \A n \in Nodes : Kept(n)
    BY <2>3 DEF UpgradeInit, Kept
  <2> QED BY <2>5, <2>6 DEF UpgradeInit, UpgradeInv
<1>2. UpgradeInv /\ [UpgradeNext]_uvars => UpgradeInv'
  <2> SUFFICES ASSUME UpgradeInv, [UpgradeNext]_uvars PROVE UpgradeInv'
    OBVIOUS
  <2>1. CASE UNCHANGED uvars
    <3>1. UNCHANGED <<ssh, files, container, upc, cur, target, loops, cancelled, status, log, history,
                      upgrades, ufaults>>
      BY <2>1 DEF uvars
    <3>2. UpgradeTypeOK'
      BY <3>1 DEF UpgradeInv, UpgradeTypeOK
    <3> QED BY <3>1, <3>2 DEF UpgradeInv, Kept, AtWork
  <2>2. CASE DriverStep
    BY <2>2, SnapshotStep, RenderStep, DeployStep, WaitReadyStep, InitPhaseStep, VerifyStep,
       RestoreStep, RedeployStep, ReconcileStep DEF DriverStep
  <2> QED BY <2>1, <2>2, BeginStep, ManualStep, CancelStep, CrashStep DEF UpgradeNext
<1> QED BY <1>1, <1>2, PTL DEF UpgradeSpec

(* UpgradeNode and rollbackNode, whatever fails or dies in whatever phase,  *)
(* for any nodes, images, budgets and number of upgrades: a node that       *)
(* settled over SSH runs its live file, a clean rollback brings back the    *)
(* image from before, and the file that names this image is never lost.     *)
THEOREM UpgradesAreSafe == UpgradeSpec => []UpgradeSafe
<1>1. UpgradeInv => UpgradeSafe
  BY DEF UpgradeInv, Kept, UpgradeSafe, SettledRunsLive, CleanRollbackRestores, PreviousComposeKept
<1> QED BY <1>1, UpgradeInvariance, PTL
=============================================================================
