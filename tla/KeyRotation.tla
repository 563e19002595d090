---------------------------- MODULE KeyRotation -----------------------------
(***************************************************************************)
(* Tier-3 rotation (executeTier3Rotation of cmd/mesh-ctl/cmd/rotate.go):   *)
(* a fresh key pair goes to the endpoint, its public key to every master,  *)
(* and at the end into the admin-state file.  Each rotation is a process;  *)
(* it may die anywhere, and an RPC may succeed, fail, or time out and be   *)
(* carried out by the agent later.                                         *)
(***************************************************************************)
EXTENDS AdminState, Sequences

CONSTANT Masters        \* resolveRotationMasters: the masters, in order

M == {Masters[k] : k \in DOMAIN Masters}

ASSUME MastersAssumption ==
    /\ Masters \in Seq(M) /\ Masters # <<>> /\ "endpoint" \notin M
    /\ \A j, k \in DOMAIN Masters : Masters[j] = Masters[k] => j = k

VARIABLES endKey, peer, \* the endpoint's key, each master's peer key for it
          late,         \* timed-out requests the agents may still carry out
          old,          \* oldPubKey read in step 0
          i,            \* master the loop of a rotation is at
          result,       \* results[..].status
          alone,        \* history: the rotation met no other and no late
                        \* request of an earlier one
          last          \* history: the rotation that ended last

clusterVars == <<endKey, peer, late>>
rotationVars == <<old, i, result, alone, last>>
vars == <<platform, storeVars, lockVars, pc, faults, clusterVars, rotationVars>>

Statuses == {"none", "ROTATED", "FAILED", "REVERTED", "REVERT_FAILED"}
Ended == {"idle", "ok", "error", "crashed"}

(* Every variable holds a value of its shape.                              *)
TypeOK ==
    /\ AdminTypeOK
    /\ pc \in [Ops -> Ended \cup LockPcs \cup TxnPcs
                      \cup {"endpoint", "fanout", "revert", "commit", "refused"}]
    /\ endKey \in Keys /\ peer \in [M -> Keys]
    /\ late \subseteq [to : M \cup {"endpoint"}, key : Keys]
    /\ old \in [Ops -> Keys] /\ i \in [Ops -> 1 .. Len(Masters) + 1]
    /\ result \in [Ops -> [M -> Statuses]]
    /\ alone \in [Ops -> BOOLEAN] /\ last \in Ops \cup {Nil}

Init ==
    /\ AdminInit
    /\ pc = [o \in Ops |-> "idle"]
    /\ endKey = K0 /\ peer = [m \in M |-> K0] /\ late = {}
    /\ old = [o \in Ops |-> K0] /\ i = [o \in Ops |-> 1]
    /\ result = [o \in Ops |-> [m \in M |-> "none"]]
    /\ alone = [o \in Ops |-> TRUE] /\ last = Nil

Running(o) == pc[o] \notin Ended

-----------------------------------------------------------------------------
(* The agents' side: RotateKeypair and UpdateTunnelPeer. *)
Carry(request) ==
    IF request.to = "endpoint" THEN endKey' = request.key /\ UNCHANGED peer
                               ELSE peer' = [peer EXCEPT ![request.to] = request.key] /\ UNCHANGED endKey

(* One RPC: carried out and answered, failed, or timed out. *)
Answered(request) == Carry(request) /\ UNCHANGED <<late, faults>>
Errored(request) ==
    /\ Fault
    /\ late' \in {late, late \cup {request}}
    /\ UNCHANGED <<endKey, peer>>

(* Steps 0 and 1: the old key is read and decoded, a key pair generated. *)
Start(o) ==
    /\ At(o, "idle")
    /\ old' = IF pubkey \in Keys THEN [old EXCEPT ![o] = pubkey] ELSE old
    /\ alone' = [p \in Ops |-> IF p = o THEN late = {} /\ \A q \in Ops : ~Running(q)
                               ELSE alone[p] /\ ~Running(p)]
    /\ Go(o, IF pubkey \in Keys THEN "endpoint" ELSE "error")
    /\ UNCHANGED <<platform, storeVars, lockVars, faults, clusterVars, i, result, last>>

(* Step 2: any error of RotateKeypair ends the rotation. *)
RotateKeypair(o) ==
    /\ At(o, "endpoint")
    /\ LET request == [to |-> "endpoint", key |-> o]
       IN  \/ Answered(request) /\ Go(o, "fanout") /\ UNCHANGED last
           \/ Errored(request) /\ Go(o, "error") /\ last' = o
    /\ UNCHANGED <<platform, storeVars, lockVars, old, i, result, alone>>

(* Step 3: UpdateTunnelPeer on every master, failures included; then the   *)
(* masters that were rotated are reverted if any other failed.             *)
Settle(o, st) ==
    /\ result' = [result EXCEPT ![o][Masters[i[o]]] = st]
    /\ i' = [i EXCEPT ![o] = @ + 1]
    /\ UNCHANGED <<pc, last>>

UpdateTunnelPeer(o) ==
    /\ At(o, "fanout") /\ i[o] <= Len(Masters)
    /\ LET request == [to |-> Masters[i[o]], key |-> o]
       IN  \/ Answered(request) /\ Settle(o, "ROTATED")
           \/ Errored(request) /\ Settle(o, "FAILED")
    /\ UNCHANGED <<platform, storeVars, lockVars, old, alone>>

FanoutDone_OffByOne(o) ==
    /\ At(o, "fanout") /\ i[o] >= Len(Masters)
    /\ Go(o, IF \E m \in M : result[o][m] = "FAILED" THEN "revert" ELSE "acquire")
    /\ i' = [i EXCEPT ![o] = 1]
    /\ UNCHANGED <<platform, storeVars, lockVars, faults, clusterVars, old, result, alone, last>>

FanoutDone(o) ==
    /\ At(o, "fanout") /\ i[o] > Len(Masters)
    /\ LET anyFailure == \E m \in M : result[o][m] = "FAILED"
       IN  Go(o, IF anyFailure THEN "revert" ELSE "acquire")
    /\ i' = [i EXCEPT ![o] = 1]
    /\ UNCHANGED <<platform, storeVars, lockVars, faults, clusterVars, old, result, alone, last>>

Revert(o) ==
    /\ At(o, "revert") /\ i[o] <= Len(Masters)
    /\ LET m == Masters[i[o]]
           request == [to |-> m, key |-> old[o]]
       IN  IF result[o][m] # "ROTATED"
           THEN Settle(o, result[o][m]) /\ UNCHANGED <<clusterVars, faults>>
           ELSE \/ Answered(request) /\ Settle(o, "REVERTED")
                \/ Errored(request) /\ Settle(o, "REVERT_FAILED")
    /\ UNCHANGED <<platform, storeVars, lockVars, old, alone>>

End(o, outcome) ==
    /\ Go(o, outcome) /\ last' = o
    /\ UNCHANGED <<platform, clusterVars, old, i, result, alone>>

RevertDone(o) ==
    /\ At(o, "revert") /\ i[o] > Len(Masters)
    /\ End(o, "error")
    /\ UNCHANGED <<storeVars, lockVars, faults>>

(* Step 4: SetPubkey, whose callback only returns the new key. *)
Commit(o) ==
    /\ SetPubkey(o)
    /\ UNCHANGED <<platform, clusterVars, rotationVars>>

CommitDone(o) ==
    /\ pc[o] \in {"commit", "release"}
    /\ releaseLock(o)
    /\ End(o, IF At(o, "commit") THEN "ok" ELSE "error")
    /\ UNCHANGED <<storeVars, faults>>

CommitRefused(o) ==
    /\ At(o, "refused")
    /\ End(o, "error")
    /\ UNCHANGED <<storeVars, lockVars, faults>>

(* A request that timed out at its caller is carried out after all. *)
LateRequest ==
    \E request \in late :
        /\ Carry(request) /\ late' = late \ {request}
        /\ UNCHANGED <<platform, storeVars, lockVars, pc, faults, rotationVars>>

Crash(o) ==
    /\ Running(o) /\ Fault
    /\ adminCrash(o)
    /\ End(o, "crashed")

Aging == LockAges /\ UNCHANGED <<platform, clusterVars, rotationVars>>

Rotation(o) ==
    \/ RotateKeypair(o) \/ UpdateTunnelPeer(o) \/ FanoutDone(o) \/ Revert(o) \/ RevertDone(o)
    \/ Commit(o) \/ CommitDone(o) \/ CommitRefused(o)

Next == (\E o \in Ops : Start(o) \/ Rotation(o) \/ Crash(o)) \/ LateRequest \/ Aging

Spec == Init /\ [][Next]_vars

(* A command that was started runs on until it ends. *)
FairSpec == Spec /\ \A o \in Ops : WF_vars(Rotation(o))

-----------------------------------------------------------------------------
Quiet == \A o \in Ops : ~Running(o)

(* A rotation that met no other and reports success leaves the endpoint,   *)
(* every master and the admin-state file on its key, whatever failed       *)
(* rotations before it left behind (rotate.go: no idempotency              *)
(* short-circuit, admin-state last).                                       *)
SuccessMeansAgreement ==
    \A o \in Ops : Quiet /\ last = o /\ At(o, "ok") /\ alone[o]
                   => endKey = o /\ pubkey = o /\ \A m \in M : peer[m] = o

(* A rotation that met no other and fails before its commit leaves the     *)
(* file on the old key, and so is every master it reports REVERTED: with   *)
(* the endpoint already rekeyed, the masters and the file agree with each  *)
(* other and not with the endpoint.                                        *)
FailureKeepsOldKey ==
    \A o \in Ops : /\ Quiet /\ last = o /\ At(o, "error") /\ alone[o]
                   /\ \E m \in M : result[o][m] \in {"FAILED", "REVERTED"}
                   => /\ pubkey = old[o]
                      /\ \A m \in M : result[o][m] = "REVERTED" => peer[m] = old[o]
                      /\ \A m \in M : result[o][m] # "ROTATED"

(* Readers of the file see a whole key, never a partial write (state.go:   *)
(* write to pubkey.tmp, then rename), crashes included, unless a windows   *)
(* lock reclaimed by its age let two writers share pubkey.tmp.             *)
PubkeyWhole == pubkey = Torn => platform = "windows" /\ reclaimed

(* The lock: two operations are in the transaction at once only after a    *)
(* windows lock was reclaimed by its age.                                  *)
OneWriter ==
    \A o, p \in Ops : o # p /\ {pc[o], pc[p]} \subseteq TxnPcs \cup {"commit"}
                      => platform = "windows" /\ reclaimed

(* Every rotation ends: no wait of it is without a limit, the lock         *)
(* included, which is refused and not waited for.                          *)
RotationEnds == \A o \in Ops : []<>(~Running(o))

(* What rotate.go says of the file: it reflects the state of the cluster   *)
(* once no rotation runs and the last one reported success.  The code does *)
(* not keep this when two rotations overlap.                               *)
AdminStateReflectsCluster ==
    Quiet /\ last # Nil /\ (\A o \in Ops : pc[o] \in {"idle", "ok"})
    => pubkey = endKey

(* What the command reports about a rotation is true of the keys: after a  *)
(* success everybody has the new one, after a failure the file and the     *)
(* masters it names have the old one (executeTier3Rotation).               *)
RotationOutcome == TypeOK /\ SuccessMeansAgreement /\ FailureKeepsOldKey

(* The admin-state file is written by one operation at a time and never    *)
(* seen half written, crashes included, as long as no windows lock was     *)
(* reclaimed by its age (Store.SetPubkey).                                 *)
AdminFileSafe == OneWriter /\ PubkeyWhole
=============================================================================
