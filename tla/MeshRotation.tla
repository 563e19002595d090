---------------------------- MODULE MeshRotation ----------------------------
(***************************************************************************)
(* Mesh-wide rotation of the obfuscation parameters: the control plane's     *)
(* RotateAWGParamsMeshWide, whose orchestrator plans a request against the   *)
(* registry and applies it to one target after the other.  Handlers may      *)
(* overlap with each other and with changes of the registry.                 *)
(***************************************************************************)
EXTENDS Integers, Sequences

CONSTANTS
  MeshNodes,      \* node names, numbered in the order sort.Slice gives them
  MeshRoles,      \* node -> its roles
  Rotations,      \* mesh-wide requests; each carries its own parameters
  MaxRegistry     \* bound: changes of the registry

VARIABLES
  registered,  \* the registry: a set of nodes
  changes,
  rpc,         \* rotation -> where its handler stands
  targets,     \* rotation -> the plan's targets
  tried,       \* rotation -> the targets that have a result
  acked,       \* rotation -> those whose result is an acknowledgement
  sent,        \* rotation -> those whose result was streamed
  applied,     \* MemoryApplier: node -> the rotation applied last
  records,     \* History: records in the order they were appended
  answered,    \* rotation -> what the caller was told
  failing      \* MemoryApplier.failures

handlers == <<rpc, targets, tried, acked, sent>>
rotvars == <<registered, changes, handlers, applied, records, answered, failing>>

None == "none"

ASSUME MeshRotationAssumption ==
  MeshNodes \subseteq Nat /\ None \notin Rotations /\ MaxRegistry \in Nat

(* isMeshInternal, MeshInternalTargets: filtered, then sorted by name, which
   is the order First takes them in. *)
isMeshInternal(n) == MeshRoles[n] \cap {"master", "egress", "ingress", "balancer"} # {}

MeshInternalTargets(nodes) == {n \in nodes : isMeshInternal(n)}

First(n, nodes) == n \in nodes /\ \A m \in nodes : n <= m

Records == [rotation : Rotations, targets : SUBSET MeshNodes, acked : SUBSET MeshNodes]

RotationTypeOK ==
  /\ registered \subseteq MeshNodes /\ changes \in 0..MaxRegistry
  /\ rpc \in [Rotations -> {"new", "apply", "stream", "done"}]
  /\ targets \in [Rotations -> SUBSET MeshNodes] /\ tried \in [Rotations -> SUBSET MeshNodes]
  /\ acked \in [Rotations -> SUBSET MeshNodes] /\ sent \in [Rotations -> SUBSET MeshNodes]
  /\ \A r \in Rotations :
       acked[r] \subseteq tried[r] /\ tried[r] \subseteq targets[r] /\ sent[r] \subseteq tried[r]
  /\ applied \in [MeshNodes -> Rotations \cup {None}]
  /\ records \in Seq(Records)
  /\ answered \in [Rotations -> {None, "ok", "aborted", "refused", "broken"}]
  /\ failing \subseteq MeshNodes

RotationInit ==
  /\ registered \in SUBSET MeshNodes /\ changes = 0
  /\ rpc = [r \in Rotations |-> "new"] /\ targets = [r \in Rotations |-> {}]
  /\ tried = [r \in Rotations |-> {}] /\ acked = [r \in Rotations |-> {}]
  /\ sent = [r \in Rotations |-> {}]
  /\ applied = [n \in MeshNodes |-> None] /\ records = <<>>
  /\ answered = [r \in Rotations |-> None] /\ failing = {}

-----------------------------------------------------------------------------
Proceed(r, l) == rpc' = [rpc EXCEPT ![r] = l]
Answer(r, a) == Proceed(r, "done") /\ answered' = [answered EXCEPT ![r] = a]

(* RotateAWGParamsMeshWide up to Orchestrator.Plan: a request without targets,
   or one whose tier, parameters or time Plan refuses, is answered with an
   error. *)
Plan(r) ==
  /\ rpc[r] = "new"
  /\ \/ /\ MeshInternalTargets(registered) # {}
        /\ targets' = [targets EXCEPT ![r] = MeshInternalTargets(registered)]
        /\ Proceed(r, "apply") /\ UNCHANGED answered
     \/ Answer(r, "refused") /\ UNCHANGED targets
  /\ UNCHANGED <<registered, changes, tried, acked, sent, applied, records, failing>>

(* Orchestrator.Execute: one target per step; a failure is noted and the next
   target follows.  A cancelled stream context fails all that remain. *)
ApplyRotation(r, n) ==
  /\ rpc[r] = "apply" /\ First(n, targets[r] \ tried[r])
  /\ tried' = [tried EXCEPT ![r] = @ \cup {n}]
  /\ \/ /\ n \notin failing
        /\ acked' = [acked EXCEPT ![r] = @ \cup {n}]
        /\ applied' = [applied EXCEPT ![n] = r]
     \/ UNCHANGED <<acked, applied>>
  /\ UNCHANGED <<registered, changes, rpc, targets, sent, records, answered, failing>>

(* The record is appended whatever the status. *)
Succeeded(r) == acked[r] = targets[r]

RecordOf(r) == [rotation |-> r, targets |-> targets[r], acked |-> acked[r]]

Recorded_Successes(r) == IF Succeeded(r) THEN Append(records, RecordOf(r)) ELSE records

Recorded(r) == Append(records, RecordOf(r))

AppendRecord(r) ==
  /\ rpc[r] = "apply" /\ tried[r] = targets[r]
  /\ records' = Recorded(r)
  /\ Proceed(r, "stream")
  /\ UNCHANGED <<registered, changes, targets, tried, acked, sent, applied, answered, failing>>

Unsent(r) == tried[r] \ sent[r]

(* streamRotationResults: one answer per target, then the status; a broken
   stream ends the handler. *)
streamRotationResults(r) ==
  /\ rpc[r] = "stream"
  /\ \/ /\ \E n \in Unsent(r) : First(n, Unsent(r)) /\ sent' = [sent EXCEPT ![r] = @ \cup {n}]
        /\ UNCHANGED <<rpc, answered>>
     \/ /\ Unsent(r) = {}
        /\ Answer(r, IF Succeeded(r) THEN "ok" ELSE "aborted") /\ UNCHANGED sent
     \/ Answer(r, "broken") /\ UNCHANGED sent
  /\ UNCHANGED <<registered, changes, targets, tried, acked, applied, records, failing>>

(* The registry changes, and a target's failure is set or cleared. *)
ChangeRegistry(n) ==
  /\ changes < MaxRegistry /\ changes' = changes + 1
  /\ registered' = IF n \in registered THEN registered \ {n} ELSE registered \cup {n}
  /\ UNCHANGED <<handlers, applied, records, answered, failing>>

SetFailure(n) ==
  /\ changes < MaxRegistry /\ changes' = changes + 1
  /\ failing' = IF n \in failing THEN failing \ {n} ELSE failing \cup {n}
  /\ UNCHANGED <<registered, handlers, applied, records, answered>>

RotationNext ==
  \/ \E r \in Rotations : \/ Plan(r) \/ AppendRecord(r) \/ streamRotationResults(r)
                          \/ \E n \in MeshNodes : ApplyRotation(r, n)
  \/ \E n \in MeshNodes : ChangeRegistry(n) \/ SetFailure(n)

RotationSpec == RotationInit /\ [][RotationNext]_rotvars

-----------------------------------------------------------------------------
(* A caller that is told "ok" had every target of its plan acknowledged, and
   each of them has these parameters or those of another request that was
   acknowledged there too; one that is told "aborted" was not. *)
OkMeansApplied ==
  \A r \in Rotations :
    /\ answered[r] = "ok" =>
         \A n \in targets[r] : applied[n] # None /\ n \in acked[applied[n]]
    /\ answered[r] = "aborted" => acked[r] # targets[r]

(* The history has exactly one record for every request whose plan was applied,
   complete or not, also when the caller's stream broke: what was done to the
   mesh can always be read back. *)
HistoryComplete ==
  /\ \A r \in Rotations :
       (rpc[r] \in {"stream", "done"} /\ targets[r] # {}) <=>
         \E i \in DOMAIN records : records[i].rotation = r
  /\ \A i, j \in DOMAIN records : records[i].rotation = records[j].rotation => i = j
  /\ \A i \in DOMAIN records : records[i] = RecordOf(records[i].rotation)

(* What the caller is told and what the history records is what was done   *)
(* to the mesh, with overlapping requests and broken streams               *)
(* (RotateAWGParamsMeshWide).                                              *)
MeshRotationSafe == RotationTypeOK /\ OkMeansApplied /\ HistoryComplete
=============================================================================
