------------------------ MODULE CertRollover_proofs -------------------------
(***************************************************************************)
(* Proofs about module CertRollover, for any clock, any windows, any       *)
(* number of handlers, certificates, faults and crashes.                   *)
(***************************************************************************)
EXTENDS CertRollover, TLAPS

USE ZenonT(60) DEF registry, handlerVars, files, agentVars, bounds, InstallFrame, Install, FileFault, Return, EndStream

HandlerStep(h) == NextDueUpdate(h) \/ AllowUpdate(h) \/ SendUpdate(h) \/ Wake(h)

NodeStep ==
    \/ \E h \in Handlers : StreamCertUpdate(h)
    \/ Connect \/ Disconnect \/ Start \/ RegisterNode \/ Unavailable

InstallStep ==
    \/ ReceiveUpdate
    \/ BackupKey \/ BackupCert \/ RenameKey \/ RenameCert \/ Cleanup
    \/ RestoreCert \/ RemoveKey \/ RestoreKey

Places == {"down", "register", "stream", "live", "backupKey", "backupCert", "renameKey",
           "renameCert", "cleanup", "reregister", "restoreCert", "removeKey",
           "restoreKey", "exited"}

(* A handler of the control plane touches nothing of the node. *)
LEMMA HandlerFrame ==
  ASSUME NEW h \in Handlers, HandlerStep(h)
  PROVE  UNCHANGED <<now, agentVars, files, bounds, late>>
<1>1. CASE NextDueUpdate(h)
  BY <1>1 DEF NextDueUpdate
<1>2. CASE AllowUpdate(h)
  BY <1>2 DEF AllowUpdate
<1>3. CASE SendUpdate(h)
  BY <1>3 DEF SendUpdate
<1>4. CASE Wake(h)
  BY <1>4 DEF Wake
<1> QED BY <1>1, <1>2, <1>3, <1>4 DEF HandlerStep

(* What is at the head of the stream is a certificate. *)
LEMMA HeadIsCert ==
  ASSUME TypeOK, link # Nil, wire[link] # <<>>
  PROVE  link \in Handlers /\ Head(wire[link]) \in Certs /\ Tail(wire[link]) \in Seq(Certs)
<1>1. link \in Handlers
  BY DEF TypeOK
<1>2. wire[link] \in Seq(Certs)
  BY <1>1 DEF TypeOK
<1> QED BY <1>1, <1>2, SMTT(30)

-----------------------------------------------------------------------------
(* Typing.                                                                 *)

(* A handler that offers an update has one. *)
UpdatesIssued ==
    \A h \in Handlers : hpc[h] \in {"allow", "send"} => update[h] \in Certs

LEMMA TypeInit == Init => TypeOK
<1> SUFFICES ASSUME Init PROVE TypeOK
  OBVIOUS
<1>1. RegistryTypeOK
  BY DEF Init, NewRegistry, RegistryTypeOK
<1>2. wire \in [Handlers -> Seq(Certs)]
  <2>1. <<>> \in Seq(Certs)
    BY SMTT(30)
  <2> QED BY <2>1 DEF Init
<1>3. /\ now \in 0 .. MaxTime /\ notAfter \in [Certs -> Nat] /\ overlapUntil \in [Handlers -> Nat]
      /\ wakeAt \in [Handlers -> 0 .. now + PollInterval]
      /\ faults \in 0 .. MaxFaults /\ fileFaults \in 0 .. MaxFileFaults /\ crashes \in 0 .. MaxCrashes
  BY CertRolloverAssumption, SMTT(30) DEF Init
<1>4. /\ hpc \in [Handlers -> {"off", "lookup", "allow", "send", "wait"}]
      /\ update \in [Handlers -> Certs \cup {Nil}]
  BY DEF Init
<1> QED BY <1>1, <1>2, <1>3, <1>4, CertRolloverAssumption DEF Init, TypeOK

LEMMA DelayBounded ==
  ASSUME TypeOK, Registered(n)
  PROVE  DelayUntilDue(byName[n]) \in 0 .. PollInterval
<1>1. byName[n] \in RegisteredNode /\ byName[n].cert \in Certs
  BY CertRolloverAssumption DEF TypeOK, RegistryTypeOK, Registered, RegisteredNode
<1>2. notAfter[byName[n].cert] \in Nat /\ now \in Nat
  BY <1>1, SMTT(30) DEF TypeOK
<1> HIDE DEF hasActivePendingCert
<1> QED BY <1>2, CertRolloverAssumption, SMTT(30) DEF DelayUntilDue, RenewTime

(* The registry keeps its type when it accepts a replacement, ... *)
LEMMA AllowTypeOK ==
  ASSUME RegistryTypeOK, NEW c \in Certs \cup {Nil}, NEW t \in Nat, AllowCertRollover(n, c, t),
         Registered(n)
  PROVE  RegistryTypeOK'
<1>1. byName[n] \in RegisteredNode /\ n \in Names
  BY CertRolloverAssumption DEF RegistryTypeOK, Registered
<1>2. [byName[n] EXCEPT !.pending = c, !.overlapUntil = t] \in RegisteredNode
  BY <1>1 DEF RegisteredNode
<1>3. byName' = [byName EXCEPT ![n] = [byName[n] EXCEPT !.pending = c, !.overlapUntil = t]]
  BY <1>1 DEF AllowCertRollover, RegistryTypeOK
<1> QED BY <1>2, <1>3 DEF RegistryTypeOK, AllowCertRollover

(* The node's entry once a replacement is accepted, ... *)
LEMMA AllowEntry ==
  ASSUME RegistryTypeOK, NEW c \in Certs \cup {Nil}, NEW t \in Nat, AllowCertRollover(n, c, t),
         Registered(n)
  PROVE  /\ Registered(n)'
         /\ byName'[n].cert = byName[n].cert /\ byName'[n].overlay = byName[n].overlay
         /\ byName'[n].pending = c /\ byName'[n].overlapUntil = t
<1>1. byName[n] \in RegisteredNode /\ n \in Names
  BY CertRolloverAssumption DEF RegistryTypeOK, Registered
<1>2. byName'[n] = [byName[n] EXCEPT !.pending = c, !.overlapUntil = t]
  BY <1>1 DEF AllowCertRollover, RegistryTypeOK
<1>3. [byName[n] EXCEPT !.pending = c, !.overlapUntil = t] \in RegisteredNode
  BY <1>1 DEF RegisteredNode
<1>4. Registered(n)'
  BY <1>2, <1>3, RegistryAssumption DEF Registered
<1> QED BY <1>1, <1>2, <1>4 DEF RegisteredNode

(* ... taken back, ... *)
LEMMA ClearEntry ==
  ASSUME RegistryTypeOK, NEW c \in Certs \cup {Nil}, ClearCertRollover(n, c), Registered(n)
  PROVE  /\ Registered(n)'
         /\ byName'[n].cert = byName[n].cert /\ byName'[n].overlay = byName[n].overlay
         /\ byName[n].pending = c => byName'[n].pending = Nil
         /\ byName[n].pending # c => byName' = byName
<1>1. CASE byName[n].pending = c
  <2>1. AllowCertRollover(n, Nil, 0)
    BY <1>1 DEF AllowCertRollover, ClearCertRollover
  <2> QED BY <1>1, <2>1, AllowEntry
<1> QED BY <1>1 DEF ClearCertRollover, registryVars, Registered

(* ... when it takes it back, ... *)
LEMMA ClearTypeOK ==
  ASSUME RegistryTypeOK, NEW c \in Certs \cup {Nil}, ClearCertRollover(n, c)
  PROVE  RegistryTypeOK'
<1>1. CASE Registered(n) /\ byName[n].pending = c
  <2>1. AllowCertRollover(n, Nil, 0)
    BY <1>1 DEF AllowCertRollover, ClearCertRollover
  <2> QED BY <1>1, <2>1, AllowTypeOK
<1> QED BY <1>1 DEF ClearCertRollover, RegistryTypeOK, registryVars

(* The node's new entry is one. *)
LEMMA StoredOK ==
  ASSUME RegistryTypeOK, mem \in Certs \cup {Nil}, now \in Nat, CanRegister(Request, now)
  PROVE  StoredNode(Request, now) \in RegisteredNode /\ mem # Nil
<1>1. mem \in Certs /\ mem # Nil /\ n \in Names /\ n \in Overlays
  BY CertRolloverAssumption DEF CanRegister, Request
<1> QED BY <1>1, SMTT(30) DEF StoredNode, Request, RegisteredNode, RegistryTypeOK, Roles, Registered

(* ... and when the node registers. *)
LEMMA RegisterTypeOK ==
  ASSUME RegistryTypeOK, mem \in Certs \cup {Nil}, now \in Nat, CanRegister(Request, now),
         Register(Request, now)
  PROVE  RegistryTypeOK'
<1>1. n \in Names /\ n \in Overlays
  BY CertRolloverAssumption
<1>2. StoredNode(Request, now) \in RegisteredNode
  BY StoredOK
<1>3. /\ byName' = [byName EXCEPT ![n] = StoredNode(Request, now)]
      /\ byOverlay' = [byOverlay EXCEPT ![n] = n]
  BY DEF Register, Request
<1> QED BY <1>1, <1>2, <1>3 DEF RegistryTypeOK

(* The node's entry once it registered: the certificate is the one shown,  *)
(* and a replacement is kept when the pinned one was shown.                *)
LEMMA RegisterEntry ==
  ASSUME RegistryTypeOK, mem \in Certs \cup {Nil}, now \in Nat, CanRegister(Request, now),
         Register(Request, now)
  PROVE  /\ Registered(n)' /\ mem # Nil
         /\ byName'[n].cert = mem /\ byName'[n].overlay = n /\ byOverlay'[n] = n
         /\ Registered(n) /\ byName[n].cert = mem =>
              /\ byName'[n].pending = byName[n].pending
              /\ byName'[n].overlapUntil = byName[n].overlapUntil
         /\ Registered(n) /\ byName[n].cert # mem =>
              byName[n].pending = mem /\ byName'[n].pending = Nil
         /\ ~Registered(n) => byName'[n].pending = Nil
<1> DEFINE s == StoredNode(Request, now)
<1>1. byName'[n] = s /\ byOverlay'[n] = n
  BY CertRolloverAssumption DEF Register, Request, RegistryTypeOK
<1>2. Registered(n)' /\ mem # Nil
  BY <1>1, StoredOK, RegistryAssumption DEF Registered
<1>3. s.cert = mem /\ s.overlay = n
  BY DEF StoredNode, Request
<1>4. Registered(n) /\ byName[n].cert = mem =>
        s.pending = byName[n].pending /\ s.overlapUntil = byName[n].overlapUntil
  BY DEF StoredNode, Request, Registered
<1>5. ~(Registered(n) /\ byName[n].cert = mem) => s.pending = Nil
  BY DEF StoredNode, Request, Registered
<1>6. Registered(n) /\ byName[n].cert # mem => byName[n].pending = mem
  BY DEF CanRegister, Request, canPromotePendingCert
<1> HIDE DEF s
<1> QED BY <1>1, <1>2, <1>3, <1>4, <1>5, <1>6

(* The handlers keep their types. *)
LEMMA TypeHandler ==
  ASSUME TypeOK, UpdatesIssued, NEW h \in Handlers, HandlerStep(h)
  PROVE  TypeOK'
<1>0. /\ UNCHANGED <<now, agentVars, files, bounds, late>>
      /\ now \in Nat /\ wakeAt \in [Handlers -> 0 .. now + PollInterval] /\ PollInterval \in Nat
      /\ 0 \in 0 .. now + PollInterval
  <2>1. UNCHANGED <<now, agentVars, files, bounds, late>>
    BY HandlerFrame
  <2>2. now \in Nat /\ PollInterval \in Nat
    BY CertRolloverAssumption, SMTT(30) DEF TypeOK
  <2>3. 0 \in 0 .. now + PollInterval
    BY <2>2, SMTT(30)
  <2> QED BY <2>1, <2>2, <2>3 DEF TypeOK
<1> SUFFICES /\ RegistryTypeOK'
             /\ notAfter' \in [Certs -> Nat]
             /\ hpc' \in [Handlers -> {"off", "lookup", "allow", "send", "wait"}]
             /\ update' \in [Handlers -> Certs \cup {Nil}]
             /\ overlapUntil' \in [Handlers -> Nat]
             /\ wakeAt' \in [Handlers -> 0 .. now + PollInterval]
             /\ wire' \in [Handlers -> Seq(Certs)]
  BY <1>0 DEF TypeOK
<1>1. CASE EndStream(h) /\ UNCHANGED <<notAfter, wire>> /\ RegistryTypeOK'
  BY <1>0, <1>1 DEF TypeOK
<1>2. CASE NextDueUpdate(h)
  <2>1. RegistryTypeOK' /\ UNCHANGED wire
    BY <1>2 DEF NextDueUpdate, RegistryTypeOK, TypeOK
  <2>2. CASE Registered(n) /\ Due(byName[n])
    <3> PICK c \in Certs : /\ notAfter' = [notAfter EXCEPT ![c] = now + ValidFor]
                           /\ update' = [update EXCEPT ![h] = c]
      BY <1>2, <2>2 DEF NextDueUpdate
    <3>1. now + ValidFor \in Nat /\ now + Grace \in Nat
      BY <1>0, CertRolloverAssumption, SMTT(30)
    <3>2. byName[n].cert \in Certs
      BY <2>2, CertRolloverAssumption DEF TypeOK, RegistryTypeOK, Registered, RegisteredNode
    <3>3. PromotionDeadline(byName[n]) \in Nat
      BY <3>1, <3>2 DEF PromotionDeadline, TypeOK
    <3>4. /\ hpc' = [hpc EXCEPT ![h] = "allow"] /\ UNCHANGED wakeAt
          /\ overlapUntil' = [overlapUntil EXCEPT ![h] = PromotionDeadline(byName[n])]
      BY <1>2, <2>2 DEF NextDueUpdate
    <3> QED BY <1>0, <2>1, <3>1, <3>3, <3>4 DEF TypeOK
  <2>3. CASE Registered(n) /\ ~Due(byName[n])
    <3>1. now + DelayUntilDue(byName[n]) \in 0 .. now + PollInterval
      BY <1>0, <2>3, DelayBounded, SMTT(30)
    <3> QED BY <1>2, <2>1, <2>3, <3>1 DEF NextDueUpdate, TypeOK
  <2> QED BY <1>1, <1>2, <2>1, <2>2, <2>3 DEF NextDueUpdate
<1>3. CASE AllowUpdate(h)
  <2>1. update[h] \in Certs \cup {Nil} /\ overlapUntil[h] \in Nat
    BY DEF TypeOK
  <2>2. CASE CanAllowCertRollover(n, update[h], overlapUntil[h], now)
    <3>1. RegistryTypeOK'
      BY <1>3, <2>1, <2>2, AllowTypeOK DEF AllowUpdate, TypeOK, CanAllowCertRollover
    <3> QED BY <1>3, <2>2, <3>1 DEF AllowUpdate, TypeOK
  <2> QED BY <1>1, <1>3, <2>2 DEF AllowUpdate, TypeOK, RegistryTypeOK
<1>4. CASE SendUpdate(h)
  <2>1. hpc[h] = "send" /\ update[h] \in Certs /\ UNCHANGED notAfter
    BY <1>4 DEF SendUpdate, UpdatesIssued
  <2>2. Append(wire[h], update[h]) \in Seq(Certs)
    BY <2>1, SMTT(30) DEF TypeOK
  <2>3. CASE ClearCertRollover(n, update[h]) /\ EndStream(h) /\ UNCHANGED wire
    BY <1>1, <2>1, <2>3, ClearTypeOK DEF TypeOK
  <2>4. CASE /\ wire' = [wire EXCEPT ![h] = IF link = h THEN Append(@, update[h]) ELSE @]
             /\ hpc' = [hpc EXCEPT ![h] = "lookup"]
             /\ update' = [update EXCEPT ![h] = Nil]
             /\ overlapUntil' = [overlapUntil EXCEPT ![h] = 0]
             /\ UNCHANGED <<registry, wakeAt>>
    BY <1>0, <2>1, <2>2, <2>4 DEF TypeOK, RegistryTypeOK
  <2> QED BY <1>4, <2>3, <2>4 DEF SendUpdate
<1>5. CASE Wake(h)
  <2>1. RegistryTypeOK' /\ UNCHANGED <<notAfter, wire>>
    BY <1>5 DEF Wake, TypeOK, RegistryTypeOK
  <2>2. CASE EndStream(h)
    BY <1>1, <2>1, <2>2
  <2>3. CASE ~EndStream(h)
    BY <1>0, <1>5, <2>1, <2>3 DEF Wake, TypeOK
  <2> QED BY <2>2, <2>3
<1> QED BY <1>2, <1>3, <1>4, <1>5 DEF HandlerStep

(* A counter below its bound may count one more. *)
LEMMA CountUp ==
  ASSUME NEW m \in Nat, NEW k \in 0 .. m, k < m
  PROVE  k + 1 \in 0 .. m
  BY SMTT(30)

(* The node keeps its types, outside an installation ... *)
LEMMA TypeNode ==
  ASSUME TypeOK, NodeStep
  PROVE  TypeOK'
<1> USE DEF NodeStep, StreamCertUpdate, Connect, Disconnect, Start, RegisterNode, Unavailable
<1>1. mem \in Certs \cup {Nil} /\ now \in Nat
  BY SMTT(30) DEF TypeOK
<1>2. RegistryTypeOK'
  <2>1. CASE CanRegister(Request, now) /\ Register(Request, now)
    BY <1>1, <2>1, RegisterTypeOK DEF TypeOK
  <2>2. CASE UNCHANGED registry
    BY <2>2 DEF RegistryTypeOK, TypeOK
  <2> QED BY <2>1, <2>2
<1>3. UNCHANGED <<now, notAfter, update, overlapUntil, wakeAt, files, fileFaults, crashes, late>>
  OBVIOUS
<1>4. hpc' \in [Handlers -> {"off", "lookup", "allow", "send", "wait"}]
  BY DEF TypeOK
<1>5. wire' \in [Handlers -> Seq(Certs)]
  <2>1. <<>> \in Seq(Certs)
    BY SMTT(30)
  <2>2. wire' = wire \/ (link # Nil /\ wire' = [wire EXCEPT ![link] = <<>>])
    OBVIOUS
  <2> QED BY <2>1, <2>2 DEF TypeOK
<1>6. run' \in Places
  BY DEF TypeOK, Places
<1>7. link' \in Handlers \cup {Nil} /\ connected' \in BOOLEAN
  BY DEF TypeOK
<1>8. mem' \in Certs \cup {Nil} /\ received' \in Certs \cup {Nil}
  BY DEF TypeOK
<1>9. faults' \in 0 .. MaxFaults
  <2>1. faults' = faults \/ (faults < MaxFaults /\ faults' = faults + 1)
    OBVIOUS
  <2>2. MaxFaults \in Nat /\ faults \in 0 .. MaxFaults
    BY CertRolloverAssumption DEF TypeOK
  <2> QED BY <2>1, <2>2, SMTT(30)
<1> QED BY <1>2, <1>3, <1>4, <1>5, <1>6, <1>7, <1>8, <1>9 DEF TypeOK, Places

(* ... and in it. *)
LEMMA TypeInstall ==
  ASSUME TypeOK, InstallStep
  PROVE  TypeOK'
<1> USE DEF InstallStep, ReceiveUpdate, BackupKey, BackupCert, RenameKey, RenameCert, Cleanup,
            RestoreCert, RemoveKey, RestoreKey
<1>1. UNCHANGED <<registry, now, notAfter, handlerVars, connected, faults, crashes, late>>
  OBVIOUS
<1>2. RegistryTypeOK'
  BY <1>1 DEF TypeOK, RegistryTypeOK
<1>3. wire' \in [Handlers -> Seq(Certs)]
  <2>1. <<>> \in Seq(Certs)
    BY SMTT(30)
  <2>2. \/ wire' = wire
        \/ link # Nil /\ wire' = [wire EXCEPT ![link] = <<>>]
        \/ link # Nil /\ wire[link] # <<>> /\ wire' = [wire EXCEPT ![link] = Tail(@)]
    OBVIOUS
  <2> QED BY <2>1, <2>2, HeadIsCert DEF TypeOK
<1>4. run' \in Places
  BY DEF Places
<1>5. link' \in Handlers \cup {Nil}
  BY DEF TypeOK
<1>6. received' \in Certs \cup {Nil}
  <2>1. received' \in {received, Nil} \/ (link # Nil /\ wire[link] # <<>> /\ received' = Head(wire[link]))
    OBVIOUS
  <2> QED BY <2>1, HeadIsCert DEF TypeOK
<1>7. mem' \in {mem, received}
  OBVIOUS
<1>8. certFile' \in {certFile, received, certBackup, Nil} /\ certBackup' \in {certBackup, certFile, Nil}
  OBVIOUS
<1>9. keyFile' \in {keyFile, received, keyBackup, Nil} /\ keyBackup' \in {keyBackup, keyFile, Nil}
  OBVIOUS
<1>10. fileFaults' \in 0 .. MaxFileFaults
  <2>1. fileFaults' = fileFaults \/ (fileFaults < MaxFileFaults /\ fileFaults' = fileFaults + 1)
    OBVIOUS
  <2>2. MaxFileFaults \in Nat /\ fileFaults \in 0 .. MaxFileFaults
    BY CertRolloverAssumption DEF TypeOK
  <2> QED BY <2>1, <2>2, SMTT(30)
<1> HIDE DEF InstallStep
<1>11. {mem', received', certFile', keyFile', certBackup', keyBackup'} \subseteq Certs \cup {Nil}
  <2>1. {mem, received, certFile, keyFile, certBackup, keyBackup} \subseteq Certs \cup {Nil}
    BY DEF TypeOK
  <2>2. {mem', certFile', certBackup'} \subseteq Certs \cup {Nil}
    BY <1>7, <1>8, <2>1, SMTT(30)
  <2>3. {keyFile', keyBackup'} \subseteq Certs \cup {Nil}
    BY <1>9, <2>1, SMTT(30)
  <2> QED BY <1>6, <2>2, <2>3
<1> QED BY <1>1, <1>2, <1>3, <1>4, <1>5, <1>10, <1>11 DEF TypeOK, Places

(* A crash, a restart of the daemon and the clock keep the types. *)
LEMMA TypeRest ==
  ASSUME TypeOK, Crash \/ RestartControlPlane \/ Tick
  PROVE  TypeOK'
<1>1. <<>> \in Seq(Certs)
  BY SMTT(30)
<1>2. now \in Nat /\ PollInterval \in Nat
  BY CertRolloverAssumption, SMTT(30) DEF TypeOK
<1>3. CASE Crash
  <2>1. crashes' \in 0 .. MaxCrashes
    BY <1>3, CertRolloverAssumption, CountUp DEF Crash, TypeOK
  <2>2. wire' \in [Handlers -> Seq(Certs)] /\ RegistryTypeOK' /\ run' \in Places
    BY <1>1, <1>3 DEF Crash, TypeOK, RegistryTypeOK, Places
  <2> QED BY <1>3, <2>1, <2>2 DEF Crash, TypeOK, Places
<1>4. CASE RestartControlPlane
  <2>1. faults' \in 0 .. MaxFaults
    BY <1>4, CertRolloverAssumption, CountUp DEF RestartControlPlane, TypeOK
  <2>2. 0 \in 0 .. now + PollInterval
    BY <1>2, SMTT(30)
  <2>3. RegistryTypeOK'
    BY <1>4 DEF RestartControlPlane, RegistryTypeOK
  <2> QED BY <1>1, <1>4, <2>1, <2>2, <2>3 DEF RestartControlPlane, TypeOK
<1>5. CASE Tick
  <2>1. now' \in 0 .. MaxTime
    BY <1>5, CertRolloverAssumption, CountUp DEF Tick, TypeOK
  <2>2. 0 .. now + PollInterval \subseteq 0 .. now' + PollInterval
    BY <1>2, <1>5, SMTT(30) DEF Tick
  <2>3. wakeAt' \in [Handlers -> 0 .. now' + PollInterval]
    BY <1>5, <2>2 DEF Tick, TypeOK
  <2>4. late' \in BOOLEAN /\ RegistryTypeOK'
    BY <1>5 DEF Tick, TypeOK, RegistryTypeOK
  <2> QED BY <1>5, <2>1, <2>3, <2>4 DEF Tick, TypeOK
<1> QED BY <1>3, <1>4, <1>5

(* Nobody but a handler changes what it offers. *)
LEMMA IssuedStep ==
  ASSUME TypeOK, UpdatesIssued, Next
  PROVE  UpdatesIssued'
<1>1. CASE \E h \in Handlers : NextDueUpdate(h) \/ AllowUpdate(h)
  <2> PICK h \in Handlers : NextDueUpdate(h) \/ AllowUpdate(h)
    BY <1>1
  <2>1. \/ /\ hpc' \in {[hpc EXCEPT ![h] = "off"], [hpc EXCEPT ![h] = "wait"]}
           /\ \A g \in Handlers : g # h => update'[g] = update[g]
        \/ \E c \in Certs : hpc' = [hpc EXCEPT ![h] = "allow"] /\ update' = [update EXCEPT ![h] = c]
        \/ hpc[h] = "allow" /\ hpc' = [hpc EXCEPT ![h] = "send"] /\ UNCHANGED update
    BY DEF NextDueUpdate, AllowUpdate, TypeOK
  <2> QED BY <2>1 DEF UpdatesIssued, TypeOK
<1>2. CASE \E h \in Handlers : SendUpdate(h) \/ Wake(h)
  BY <1>2 DEF SendUpdate, Wake, UpdatesIssued, TypeOK
<1>3. CASE NodeStep
  BY <1>3 DEF NodeStep, StreamCertUpdate, Connect, Disconnect, Start, RegisterNode, Unavailable,
              UpdatesIssued, TypeOK
<1>4. CASE InstallStep
  <2>1. UNCHANGED <<hpc, update>>
    BY <1>4 DEF InstallStep, ReceiveUpdate, BackupKey, BackupCert, RenameKey, RenameCert, Cleanup,
            RestoreCert, RemoveKey, RestoreKey
  <2> QED BY <2>1 DEF UpdatesIssued
<1>5. CASE Crash \/ RestartControlPlane \/ Tick
  BY <1>5 DEF Crash, RestartControlPlane, Tick, UpdatesIssued
<1> QED BY <1>1, <1>2, <1>3, <1>4, <1>5 DEF Next, NodeStep, InstallStep

(* Every variable keeps its type, and no handler sleeps longer than a poll. *)
LEMMA TypeStep ==
  ASSUME TypeOK, UpdatesIssued, [Next]_vars
  PROVE  TypeOK' /\ UpdatesIssued'
<1>1. CASE Next
  BY <1>1, TypeHandler, TypeNode, TypeInstall, TypeRest, IssuedStep
  DEF Next, HandlerStep, NodeStep, InstallStep
<1>2. CASE UNCHANGED vars
  BY <1>2 DEF vars, TypeOK, UpdatesIssued, RegistryTypeOK
<1> QED BY <1>1, <1>2

-----------------------------------------------------------------------------
(* The files of the node.                                                  *)

(* What the files hold at each place of an installation.  At the places of *)
(* restoreCertKeyPair a failure has been counted already.                  *)
FilesAt ==
    /\ ~Installing => certFile # Nil /\ certFile = keyFile
    /\ run = "backupKey" => certFile # Nil /\ certFile = keyFile /\ certBackup = Nil
    /\ run = "backupCert" => certFile # Nil /\ keyBackup = certFile /\ certBackup = Nil
    /\ run \in {"renameKey", "renameCert"} => certBackup # Nil /\ certBackup = keyBackup
    /\ run \in {"renameCert", "cleanup"} => keyFile = received
    /\ run = "cleanup" => certFile = received
    /\ run = "restoreCert" =>
         /\ keyBackup # Nil
         /\ certBackup = keyBackup \/ (certBackup = Nil /\ certFile = keyBackup)
    /\ run \in {"removeKey", "restoreKey"} => keyBackup # Nil /\ certFile = keyBackup
    /\ Installing => received # Nil
    /\ run \in {"restoreCert", "removeKey", "restoreKey"} => fileFaults # 0

FilesInv == fileFaults <= 1 /\ crashes = 0 => FilesAt

(* The first pair is complete. *)
LEMMA FilesInit == Init => FilesInv
  BY CertRolloverAssumption, RegistryAssumption, SMTT(30) DEF Init, FilesInv, FilesAt, Installing

(* Every step keeps what the files hold. *)
LEMMA FilesStep ==
  ASSUME FilesInv, TypeOK, Next
  PROVE  FilesInv'
<1> USE DEF FilesInv, FilesAt, Installing
<1>0. fileFaults \in Nat /\ crashes \in Nat
  BY SMTT(30) DEF TypeOK
<1>1. CASE \E h \in Handlers : HandlerStep(h)
  BY <1>1, HandlerFrame
<1>2. CASE \E h \in Handlers : StreamCertUpdate(h)
  BY <1>2 DEF StreamCertUpdate
<1>3. CASE Connect \/ Start \/ Tick \/ RestartControlPlane
  BY <1>3 DEF Connect, Start, Tick, RestartControlPlane
<1>4. CASE Disconnect \/ Unavailable \/ RegisterNode
  BY <1>4 DEF Disconnect, Unavailable, RegisterNode
<1>5. CASE ReceiveUpdate
  <2>1. CASE Return /\ UNCHANGED <<files, bounds>>
    BY <1>5, <2>1 DEF ReceiveUpdate
  <2>2. CASE run' = "backupKey" /\ received' \in Certs /\ UNCHANGED <<certFile, keyFile, bounds>>
    BY <1>5, <2>2, RegistryAssumption DEF ReceiveUpdate
  <2> QED BY <1>5, <2>1, <2>2, HeadIsCert DEF ReceiveUpdate
<1>6. CASE BackupKey \/ BackupCert \/ RenameKey
  BY <1>0, <1>6, SMTT(30) DEF BackupKey, BackupCert, RenameKey
<1>7. CASE RenameCert \/ Cleanup
  BY <1>0, <1>7, SMTT(30) DEF RenameCert, Cleanup
<1>8. CASE RestoreCert \/ RemoveKey \/ RestoreKey
  BY <1>0, <1>8, SMTT(30) DEF RestoreCert, RemoveKey, RestoreKey
<1>9. CASE Crash
  BY <1>0, <1>9, SMTT(30) DEF Crash
<1> QED
  BY <1>1, <1>2, <1>3, <1>4, <1>5, <1>6, <1>7, <1>8, <1>9 DEF Next, HandlerStep

(* Spec keeps every variable in its type; no handler oversleeps. *)
THEOREM RolloverTypes == Spec => []TypeOK
<1>1. Init => TypeOK /\ UpdatesIssued
  BY TypeInit DEF Init, UpdatesIssued
<1> QED BY <1>1, TypeStep, PTL DEF Spec

(* A failed installation puts the old pair back (replaceCertKeyPair and    *)
(* restoreCertKeyPair): PairIntact holds for any number of rollovers.      *)
THEOREM PairStaysIntact == Spec => []PairIntact
<1>1. Init => TypeOK /\ UpdatesIssued /\ FilesInv
  BY TypeInit, FilesInit DEF Init, UpdatesIssued
<1>2. TypeOK /\ UpdatesIssued /\ FilesInv /\ [Next]_vars => TypeOK' /\ UpdatesIssued' /\ FilesInv'
  <2>1. FilesInv /\ UNCHANGED vars => FilesInv'
    BY DEF vars, FilesInv, FilesAt, Installing
  <2> QED BY <2>1, FilesStep, TypeStep
<1>3. FilesInv => PairIntact
  BY DEF FilesInv, FilesAt, PairIntact
<1> QED BY <1>1, <1>2, <1>3, PTL DEF Spec

-----------------------------------------------------------------------------
(* The certificate the registry accepts.                                   *)

Entry == byName[n]
AtNode == {certFile, certBackup, received} \ {Nil}
Unsent(h) == hpc[h] \in {"allow", "send"}
InHand == Installing \/ run = "reregister"

(* The agent registers with the certificate of its file.  A replacement    *)
(* that is offered or under way is one for a registered node.              *)
HandInv ==
    /\ run \in {"register", "reregister"} => mem = certFile
    /\ run = "cleanup" => certFile = received
    /\ InHand => received # Nil
    /\ \A h \in Handlers : Unsent(h) \/ wire[h] # <<>> => Registered(n)

(* A certificate that was never issued is nowhere. *)
FreshInv ==
    \A c \in Certs : notAfter[c] = 0 =>
      /\ c \notin AtNode
      /\ Registered(n) => c \notin {Entry.cert, Entry.pending}
      /\ \A h \in Handlers : Unsent(h) => update[h] # c

(* As long as no window closed unused, a replacement is active, ... *)
ActiveInv == Entry.pending # Nil => Entry.overlapUntil > now

(* ... what the node has in its files or may restore is accepted, ... *)
AcceptedInv ==
    /\ certFile # Nil => certFile \in {Entry.cert, Entry.pending}
    /\ Installing /\ certBackup # Nil => certBackup \in {Entry.cert, Entry.pending}
    /\ InHand => received = Entry.pending

(* ... a replacement not sent is not at the node, and is the accepted one  *)
(* from "send" on, ...                                                     *)
UnsentInv ==
    /\ \A h \in Handlers : Unsent(h) => update[h] \notin AtNode \cup {Entry.cert}
    /\ \A h \in Handlers : hpc[h] = "allow" => update[h] # Entry.pending
    /\ \A h \in Handlers : hpc[h] = "send" =>
         update[h] = Entry.pending /\ \A g \in Handlers : wire[g] = <<>>
    /\ \A g, h \in Handlers : Unsent(g) /\ Unsent(h) /\ g # h => update[g] # update[h]

(* ... and one under way is the accepted one, sent once. *)
WireInv ==
    /\ \A h \in Handlers : wire[h] # <<>> =>
         wire[h] = <<Entry.pending>> /\ Entry.pending \notin AtNode \cup {Entry.cert, Nil}
    /\ \A g, h \in Handlers : wire[g] # <<>> /\ wire[h] # <<>> => g = h

RegisteredInv == ActiveInv /\ AcceptedInv /\ UnsentInv /\ WireInv

CredInv == ~late => FreshInv /\ (Registered(n) => RegisteredInv)

(* The first certificate is issued, and nobody is registered. *)
LEMMA CredInit == Init => HandInv /\ CredInv
<1> SUFFICES ASSUME Init PROVE HandInv /\ CredInv
  OBVIOUS
<1>1. ~Registered(n)
  BY CertRolloverAssumption DEF Init, NewRegistry, Registered
<1>2. \A c \in Certs : notAfter[c] = 0 => c # 1 /\ c # Nil
  BY CertRolloverAssumption, RegistryAssumption, SMTT(30) DEF Init
<1> QED BY <1>1, <1>2 DEF Init, HandInv, CredInv, FreshInv, AtNode, Unsent, InHand, Installing

(* A replacement is offered or under way only for a registered node. *)
LEMMA HandlerHand ==
  ASSUME TypeOK, HandInv, NEW h \in Handlers, HandlerStep(h)
  PROVE  HandInv'
<1>1. UNCHANGED <<run, mem, certFile, received>>
  BY HandlerFrame
<1>2. CASE NextDueUpdate(h)
  <2>1. UNCHANGED <<byName, wire>>
    BY <1>2 DEF NextDueUpdate
  <2>2. \A g \in Handlers : hpc'[g] = hpc[g] \/ hpc'[g] \in {"off", "wait"} \/ Registered(n)
    BY <1>2 DEF NextDueUpdate, TypeOK
  <2> QED BY <1>1, <2>1, <2>2 DEF HandInv, Unsent, InHand, Installing, Registered
<1>3. CASE AllowUpdate(h)
  <2>1. Registered(n) /\ UNCHANGED wire
    BY <1>3 DEF AllowUpdate, HandInv, Unsent
  <2>2. Registered(n)'
    <3>1. CASE UNCHANGED registry
      BY <2>1, <3>1 DEF Registered
    <3>2. CASE AllowCertRollover(n, update[h], overlapUntil[h])
      BY <2>1, <3>2, AllowEntry DEF TypeOK
    <3> QED BY <1>3, <3>1, <3>2 DEF AllowUpdate
  <2> QED BY <1>1, <2>1, <2>2 DEF HandInv, Unsent, InHand, Installing
<1>4. CASE SendUpdate(h)
  <2>1. Registered(n)
    BY <1>4 DEF SendUpdate, HandInv, Unsent
  <2>2. Registered(n)'
    BY <1>4, <2>1, ClearEntry DEF SendUpdate, Registered, TypeOK
  <2> QED BY <1>1, <2>2 DEF HandInv, Unsent, InHand, Installing
<1>5. CASE Wake(h)
  <2>1. UNCHANGED <<byName, wire>>
    BY <1>5 DEF Wake
  <2>2. \A g \in Handlers : hpc'[g] = hpc[g] \/ hpc'[g] \in {"off", "lookup"}
    BY <1>5 DEF Wake, TypeOK
  <2> QED BY <1>1, <2>1, <2>2 DEF HandInv, Unsent, InHand, Installing, Registered
<1> QED BY <1>2, <1>3, <1>4, <1>5 DEF HandlerStep

(* Outside an installation, too. *)
LEMMA NodeHand ==
  ASSUME TypeOK, HandInv, NodeStep
  PROVE  HandInv'
<1>1. CASE \E h \in Handlers : StreamCertUpdate(h)
  BY <1>1 DEF StreamCertUpdate, HandInv, Unsent, InHand, Installing, Registered, TypeOK
<1>2. CASE Connect \/ Start
  BY <1>2 DEF Connect, Start, HandInv, Unsent, InHand, Installing, Registered
<1>3. CASE Disconnect \/ Unavailable
  <2>1. \A h \in Handlers : wire'[h] # <<>> => wire[h] # <<>>
    BY <1>3 DEF Disconnect, Unavailable, TypeOK
  <2> QED BY <1>3, <2>1 DEF Disconnect, Unavailable, HandInv, Unsent, InHand, Installing, Registered
<1>4. CASE RegisterNode
  <2>1. CASE ~CanRegister(Request, now)
    <3>1. \A h \in Handlers : wire'[h] # <<>> => wire[h] # <<>>
      BY <1>4, <2>1 DEF RegisterNode, TypeOK
    <3> QED BY <1>4, <2>1, <3>1 DEF RegisterNode, HandInv, Unsent, InHand, Installing, Registered
  <2>2. CASE CanRegister(Request, now)
    <3>1. Registered(n)'
      <4>1. RegistryTypeOK /\ mem \in Certs \cup {Nil} /\ now \in Nat
        BY SMTT(30) DEF TypeOK
      <4> QED BY <1>4, <2>2, <4>1, RegisterEntry DEF RegisterNode
    <3> QED BY <1>4, <2>2, <3>1 DEF RegisterNode, HandInv, InHand, Installing
  <2> QED BY <2>1, <2>2
<1> QED BY <1>1, <1>2, <1>3, <1>4 DEF NodeStep

(* And in it. *)
LEMMA InstallHand ==
  ASSUME TypeOK, HandInv, InstallStep
  PROVE  HandInv'
<1>1. UNCHANGED <<byName, hpc>>
  BY DEF InstallStep, ReceiveUpdate, BackupKey, BackupCert, RenameKey, RenameCert, Cleanup,
         RestoreCert, RemoveKey, RestoreKey
<1>2. \A h \in Handlers : wire'[h] # <<>> => wire[h] # <<>>
  <2>1. CASE ReceiveUpdate
    <3>1. \/ wire' = wire
          \/ link # Nil /\ wire' = [wire EXCEPT ![link] = <<>>]
          \/ link # Nil /\ wire[link] # <<>> /\ wire' = [wire EXCEPT ![link] = Tail(@)]
      BY <2>1 DEF ReceiveUpdate
    <3> QED BY <3>1, HeadIsCert DEF TypeOK
  <2>2. CASE ~ReceiveUpdate
    BY <2>2 DEF InstallStep, BackupKey, BackupCert, RenameKey, RenameCert, Cleanup,
                RestoreCert, RemoveKey, RestoreKey, TypeOK
  <2> QED BY <2>1, <2>2
<1>3. \A h \in Handlers : Unsent(h)' \/ wire'[h] # <<>> => Registered(n)'
  BY <1>1, <1>2 DEF HandInv, Unsent, Registered
<1>4. CASE ReceiveUpdate
  <2>1. run' \in {"down", "backupKey"} /\ (run' = "backupKey" => received' # Nil)
    BY <1>4, HeadIsCert, RegistryAssumption DEF ReceiveUpdate
  <2> QED BY <1>3, <2>1 DEF HandInv, InHand, Installing
<1>5. CASE ~ReceiveUpdate
  BY <1>3, <1>5 DEF InstallStep, BackupKey, BackupCert, RenameKey, RenameCert, Cleanup,
                RestoreCert, RemoveKey, RestoreKey, HandInv, InHand, Installing
<1> QED BY <1>4, <1>5

(* Every step keeps what is known of the agent's hands. *)
LEMMA HandKept ==
  ASSUME TypeOK, HandInv, [Next]_vars
  PROVE  HandInv'
<1>1. CASE UNCHANGED vars
  BY <1>1 DEF vars, HandInv, Unsent, InHand, Installing, Registered
<1>2. CASE Crash
  <2>1. \A h \in Handlers : wire'[h] # <<>> => wire[h] # <<>>
    BY <1>2 DEF Crash, TypeOK
  <2> QED BY <1>2, <2>1 DEF Crash, HandInv, Unsent, InHand, Installing, Registered
<1>3. CASE RestartControlPlane
  BY <1>3 DEF RestartControlPlane, HandInv, Unsent, InHand, Installing
<1>4. CASE Tick
  BY <1>4 DEF Tick, HandInv, Unsent, InHand, Installing, Registered
<1> QED
  BY <1>1, <1>2, <1>3, <1>4, HandlerHand, NodeHand, InstallHand
  DEF Next, HandlerStep, NodeStep, InstallStep

(* A step of the node that brings it no certificate keeps the rest. *)
LEMMA NodeKeeps ==
  ASSUME CredInv, UNCHANGED <<byName, now, notAfter, hpc, update, late>>,
         AtNode' \subseteq AtNode,
         \A h \in Handlers : wire'[h] \in {wire[h], <<>>},
         AcceptedInv => AcceptedInv'
  PROVE  CredInv'
<1> SUFFICES ASSUME ~late PROVE FreshInv' /\ (Registered(n)' => RegisteredInv')
  BY DEF CredInv
<1>1. FreshInv'
  <2>1. FreshInv
    BY DEF CredInv
  <2> QED BY <2>1 DEF FreshInv, Registered, Unsent, Entry
<1>2. ASSUME Registered(n)' PROVE RegisteredInv'
  <2>1. RegisteredInv
    BY <1>2 DEF CredInv, Registered
  <2>2. ActiveInv' /\ AcceptedInv'
    BY <2>1 DEF RegisteredInv, ActiveInv, Entry
  <2>3. UnsentInv'
    BY <2>1 DEF RegisteredInv, UnsentInv, Unsent, Entry
  <2>4. WireInv'
    BY <2>1 DEF RegisteredInv, WireInv, Entry
  <2> QED BY <2>2, <2>3, <2>4 DEF RegisteredInv
<1> QED BY <1>1, <1>2

(* A handler that offers nothing any more keeps everything. *)
LEMMA HandlerRests ==
  ASSUME TypeOK, CredInv, NEW h \in Handlers, NEW p, p \notin {"allow", "send"},
         hpc' = [hpc EXCEPT ![h] = p],
         \A g \in Handlers : g # h => update'[g] = update[g],
         UNCHANGED <<byName, now, notAfter, wire, late, certFile, certBackup, received>>,
         AcceptedInv => AcceptedInv'
  PROVE  CredInv'
<1> SUFFICES ASSUME ~late PROVE FreshInv' /\ (Registered(n)' => RegisteredInv')
  BY DEF CredInv
<1>0. \A g \in Handlers : g # h => hpc'[g] = hpc[g]
  BY DEF TypeOK
<1>1. \A g \in Handlers : Unsent(g)' => g # h /\ Unsent(g) /\ update'[g] = update[g] /\ hpc'[g] = hpc[g]
  BY <1>0 DEF TypeOK, Unsent
<1>2. AtNode' = AtNode
  BY DEF AtNode
<1>3. FreshInv'
  <2>1. FreshInv
    BY DEF CredInv
  <2> QED BY <1>1, <1>2, <2>1 DEF FreshInv, Registered, Entry
<1>4. ASSUME Registered(n)' PROVE RegisteredInv'
  <2>1. RegisteredInv
    BY <1>4 DEF CredInv, Registered
  <2>2. ActiveInv' /\ AcceptedInv' /\ WireInv'
    BY <1>2, <2>1 DEF RegisteredInv, ActiveInv, WireInv, Entry
  <2>3. \A g \in Handlers : hpc'[g] \in {"allow", "send"} => Unsent(g)'
    BY DEF Unsent
  <2>4. UnsentInv'
    BY <1>1, <1>2, <2>1, <2>3 DEF RegisteredInv, UnsentInv, Entry
  <2> QED BY <2>2, <2>4 DEF RegisteredInv
<1> QED BY <1>3, <1>4

(* NextDueUpdate offers a certificate nobody has seen. *)
LEMMA NextDueCred ==
  ASSUME TypeOK, CredInv, NEW h \in Handlers, NextDueUpdate(h)
  PROVE  CredInv'
<1>1. UNCHANGED <<byName, now, wire, run, certFile, certBackup, received, late>>
  BY DEF NextDueUpdate
<1>2. AcceptedInv => AcceptedInv'
  BY <1>1 DEF AcceptedInv, Entry, Installing, InHand
<1>3. CASE \E p \in {"off", "wait"} : hpc' = [hpc EXCEPT ![h] = p]
  <2>1. UNCHANGED notAfter /\ \A g \in Handlers : g # h => update'[g] = update[g]
    <3>1. hpc' # [hpc EXCEPT ![h] = "allow"]
      BY <1>3 DEF TypeOK
    <3> QED BY <3>1 DEF NextDueUpdate, TypeOK
  <2> QED BY <1>1, <1>2, <1>3, <2>1, HandlerRests
<1>4. CASE \E c \in Certs : /\ notAfter[c] = 0
                            /\ notAfter' = [notAfter EXCEPT ![c] = now + ValidFor]
                            /\ update' = [update EXCEPT ![h] = c]
                            /\ hpc' = [hpc EXCEPT ![h] = "allow"]
                            /\ Registered(n)
  <2> SUFFICES ASSUME ~late PROVE FreshInv' /\ RegisteredInv'
    BY <1>1 DEF CredInv
  <2> PICK c \in Certs : /\ notAfter[c] = 0
                         /\ notAfter' = [notAfter EXCEPT ![c] = now + ValidFor]
                         /\ update' = [update EXCEPT ![h] = c]
                         /\ hpc' = [hpc EXCEPT ![h] = "allow"]
    BY <1>4
  <2>1. FreshInv /\ RegisteredInv /\ Registered(n)
    BY <1>4 DEF CredInv
  <2>2. /\ c \notin AtNode /\ c # Entry.cert /\ c # Entry.pending
        /\ \A g \in Handlers : Unsent(g) => update[g] # c
    BY <2>1 DEF FreshInv
  <2>3. AtNode' = AtNode /\ Entry' = Entry
    BY <1>1 DEF AtNode, Entry
  <2>4. \A g \in Handlers : g # h => hpc'[g] = hpc[g] /\ update'[g] = update[g]
    BY DEF TypeOK
  <2>5. hpc'[h] = "allow" /\ update'[h] = c
    BY DEF TypeOK
  <2>6. \A d \in Certs : notAfter'[d] = 0 => notAfter[d] = 0 /\ d # c
    <3>1. now \in Nat /\ ValidFor \in Nat \ {0}
      <4>1. now \in 0 .. MaxTime /\ ValidFor \in Nat \ {0}
        BY CertRolloverAssumption DEF TypeOK
      <4> QED BY <4>1, SMTT(30)
    <3>2. now + ValidFor # 0
      BY <3>1, SMTT(30)
    <3> QED BY <3>2 DEF TypeOK
  <2>7. \A g \in Handlers : Unsent(g)' =>
          \/ g # h /\ Unsent(g) /\ update'[g] = update[g]
          \/ g = h /\ update'[g] = c
    BY <2>4, <2>5 DEF Unsent
  <2>8. FreshInv'
    <3>1. \A d \in Certs : notAfter'[d] = 0 => \A g \in Handlers : Unsent(g)' => update'[g] # d
      BY <2>1, <2>6, <2>7 DEF FreshInv
    <3> QED BY <2>1, <2>3, <2>6, <3>1 DEF FreshInv
  <2>9. ActiveInv' /\ AcceptedInv' /\ WireInv'
    BY <1>1, <1>2, <2>1, <2>3 DEF RegisteredInv, ActiveInv, WireInv
  <2>10. UnsentInv'
    <3>1. UnsentInv
      BY <2>1 DEF RegisteredInv
    <3>3. \A g \in Handlers : Unsent(g)' => update'[g] \notin AtNode' \cup {Entry'.cert}
      <4> TAKE g \in Handlers
      <4>1. CASE g = h
        <5>1. update'[g] = c /\ c \notin AtNode \cup {Entry.cert}
          BY <2>2, <2>5, <4>1
        <5> QED BY <2>3, <5>1
      <4>2. CASE g # h
        BY <2>3, <2>7, <3>1, <4>2 DEF UnsentInv
      <4> QED BY <4>1, <4>2
    <3>4. \A g \in Handlers : hpc'[g] = "allow" => update'[g] # Entry'.pending
      BY <2>2, <2>3, <2>4, <2>5, <3>1 DEF UnsentInv
    <3>5. \A g \in Handlers : hpc'[g] = "send" =>
            update'[g] = Entry'.pending /\ \A f \in Handlers : wire'[f] = <<>>
      BY <1>1, <2>3, <2>4, <2>5, <3>1 DEF UnsentInv
    <3>6. \A f, g \in Handlers : Unsent(f)' /\ Unsent(g)' /\ f # g => update'[f] # update'[g]
      BY <2>2, <2>7, <3>1 DEF UnsentInv
    <3> QED BY <3>3, <3>4, <3>5, <3>6 DEF UnsentInv
  <2> QED BY <2>8, <2>9, <2>10 DEF RegisteredInv
<1> QED BY <1>3, <1>4 DEF NextDueUpdate

(* While no window closed unused, AllowCertRollover overwrites nothing. *)
LEMMA AllowCred ==
  ASSUME TypeOK, UpdatesIssued, HandInv, CredInv, NEW h \in Handlers, AllowUpdate(h)
  PROVE  CredInv'
<1>1. UNCHANGED <<now, notAfter, wire, run, certFile, certBackup, received, late>>
  BY DEF AllowUpdate
<1>2. CASE EndStream(h) /\ UNCHANGED registry
  <2>1. AcceptedInv => AcceptedInv'
    BY <1>1, <1>2 DEF AcceptedInv, Entry, Installing, InHand
  <2>2. \A g \in Handlers : g # h => update'[g] = update[g]
    BY <1>2 DEF TypeOK
  <2> QED BY <1>1, <1>2, <2>1, <2>2, HandlerRests
<1>3. CASE /\ CanAllowCertRollover(n, update[h], overlapUntil[h], now)
           /\ AllowCertRollover(n, update[h], overlapUntil[h])
           /\ hpc' = [hpc EXCEPT ![h] = "send"]
           /\ UNCHANGED update
  <2> SUFFICES ASSUME ~late PROVE FreshInv' /\ RegisteredInv'
    BY <1>1 DEF CredInv
  <2>0. hpc[h] = "allow" /\ Unsent(h) /\ update[h] \in Certs /\ update[h] # Nil
    BY RegistryAssumption DEF AllowUpdate, Unsent, UpdatesIssued
  <2>1. FreshInv /\ RegisteredInv /\ Registered(n) /\ overlapUntil[h] > now
    BY <1>3 DEF CredInv, CanAllowCertRollover
  <2>2. Entry.pending = Nil
    BY <1>3, <2>0, <2>1
    DEF CanAllowCertRollover, hasActivePendingCert, RegisteredInv, ActiveInv, UnsentInv, Entry
  <2>3. /\ Registered(n)' /\ Entry'.cert = Entry.cert
        /\ Entry'.pending = update[h] /\ Entry'.overlapUntil = overlapUntil[h]
    BY <1>3, <2>0, <2>1, AllowEntry DEF Entry, TypeOK
  <2>4. AtNode' = AtNode
    BY <1>1 DEF AtNode
  <2>5. hpc'[h] = "send" /\ \A g \in Handlers : g # h => hpc'[g] = hpc[g]
    BY <1>3 DEF TypeOK
  <2>6. \A g \in Handlers : wire[g] = <<>>
    BY <2>1, <2>2 DEF RegisteredInv, WireInv
  <2>7. \A g \in Handlers : hpc[g] # "send"
    BY <2>1, <2>2, RegistryAssumption DEF RegisteredInv, UnsentInv, UpdatesIssued
  <2>8. FreshInv'
    <3>1. \A g \in Handlers : Unsent(g)' => Unsent(g)
      BY <2>0, <2>5 DEF Unsent
    <3> QED BY <1>1, <1>3, <2>0, <2>1, <2>3, <2>4, <3>1 DEF FreshInv
  <2>9. ActiveInv' /\ WireInv'
    BY <1>1, <2>1, <2>3, <2>6 DEF ActiveInv, WireInv
  <2>10. AcceptedInv'
    BY <1>1, <2>1, <2>2, <2>3 DEF RegisteredInv, AcceptedInv, HandInv, InHand, Installing
  <2>11. UnsentInv'
    <3>1. \A g \in Handlers : g # h /\ Unsent(g)' => hpc'[g] = "allow" /\ Unsent(g) /\ update[g] # update[h]
      BY <2>0, <2>1, <2>5, <2>7 DEF RegisteredInv, UnsentInv, Unsent
    <3>2. \A g \in Handlers : Unsent(g)' => Unsent(g)
      BY <2>0, <2>5 DEF Unsent
    <3>3. \A g \in Handlers : Unsent(g)' => update'[g] \notin AtNode' \cup {Entry'.cert}
      BY <1>3, <2>1, <2>3, <2>4, <3>2 DEF RegisteredInv, UnsentInv
    <3>4. \A g \in Handlers : hpc'[g] = "allow" => update'[g] # Entry'.pending
      BY <1>3, <2>3, <2>5, <3>1 DEF Unsent
    <3>5. \A g \in Handlers : hpc'[g] = "send" => update'[g] = Entry'.pending
      BY <1>3, <2>3, <2>5, <2>7
    <3>6. \A f, g \in Handlers : Unsent(f)' /\ Unsent(g)' /\ f # g => update'[f] # update'[g]
      BY <1>3, <2>1, <3>2 DEF RegisteredInv, UnsentInv
    <3> QED BY <1>1, <2>6, <3>3, <3>4, <3>5, <3>6 DEF UnsentInv
  <2> QED BY <2>8, <2>9, <2>10, <2>11 DEF RegisteredInv
<1> QED BY <1>2, <1>3 DEF AllowUpdate

(* A replacement is sent once; one that cannot be sent is taken back, and  *)
(* the node has it nowhere.                                                *)
LEMMA SendCred ==
  ASSUME TypeOK, UpdatesIssued, HandInv, CredInv, NEW h \in Handlers, SendUpdate(h)
  PROVE  CredInv'
<1>1. UNCHANGED <<now, notAfter, run, certFile, certBackup, received, late>>
  BY DEF SendUpdate
<1> SUFFICES ASSUME ~late PROVE FreshInv' /\ (Registered(n)' => RegisteredInv')
  BY <1>1 DEF CredInv
<1> DEFINE u == update[h]
<1>2. hpc[h] = "send" /\ Unsent(h) /\ u \in Certs /\ u # Nil /\ Registered(n)
  BY RegistryAssumption DEF SendUpdate, Unsent, UpdatesIssued, HandInv
<1>3. FreshInv /\ RegisteredInv
  BY <1>2 DEF CredInv
<1>4. Entry.pending = u /\ u \notin AtNode \cup {Entry.cert} /\ \A g \in Handlers : wire[g] = <<>>
  BY <1>2, <1>3 DEF RegisteredInv, UnsentInv
<1>5. \A g \in Handlers : g # h => hpc'[g] = hpc[g] /\ update'[g] = update[g]
  BY DEF SendUpdate, TypeOK
<1>6. ~Unsent(h)' /\ hpc'[h] \notin {"allow", "send"}
  BY DEF SendUpdate, TypeOK, Unsent
<1>7. \A g \in Handlers : Unsent(g)' =>
        g # h /\ Unsent(g) /\ hpc'[g] = "allow" /\ update'[g] = update[g] /\ update[g] # u
  BY <1>2, <1>3, <1>4, <1>5, <1>6 DEF RegisteredInv, UnsentInv, Unsent
<1>8. AtNode' = AtNode
  BY <1>1 DEF AtNode
<1>9. Entry'.cert = Entry.cert /\ Entry'.pending \in {Entry.pending, Nil}
  BY <1>2, <1>4, ClearEntry DEF SendUpdate, TypeOK, Entry
<1>10. FreshInv'
  BY <1>1, <1>2, <1>3, <1>7, <1>8, <1>9, RegistryAssumption DEF FreshInv
<1>11. UnsentInv'
  <2>1. \A g \in Handlers : Unsent(g)' => update'[g] # Entry'.pending /\ update'[g] # Nil
    BY <1>4, <1>7, <1>9, RegistryAssumption DEF UpdatesIssued, Unsent
  <2>2. \A g \in Handlers : Unsent(g)' => update'[g] \notin AtNode' \cup {Entry'.cert}
    BY <1>3, <1>7, <1>8, <1>9 DEF RegisteredInv, UnsentInv
  <2>3. \A f, g \in Handlers : Unsent(f)' /\ Unsent(g)' /\ f # g => update'[f] # update'[g]
    BY <1>3, <1>7 DEF RegisteredInv, UnsentInv
  <2>4. \A g \in Handlers : hpc'[g] # "send"
    BY <1>7 DEF Unsent
  <2>5. \A g \in Handlers : hpc'[g] = "allow" => Unsent(g)'
    BY DEF Unsent
  <2> QED BY <2>1, <2>2, <2>3, <2>4, <2>5 DEF UnsentInv
<1>12. ActiveInv' /\ AcceptedInv' /\ WireInv'
  <2>1. CASE UNCHANGED registry /\ wire' = [wire EXCEPT ![h] = IF link = h THEN Append(@, u) ELSE @]
    <3>1. Entry' = Entry
      BY <2>1 DEF Entry
    <3>2. Append(<<>>, u) = <<u>>
      BY SMTT(30)
    <3>3. \A g \in Handlers : wire'[g] = <<>> \/ (g = h /\ wire'[g] = <<Entry.pending>>)
      BY <1>4, <2>1, <3>2 DEF TypeOK
    <3>4. WireInv'
      BY <1>2, <1>4, <1>8, <3>1, <3>3 DEF WireInv
    <3> QED
      BY <1>1, <1>3, <3>1, <3>4 DEF RegisteredInv, ActiveInv, AcceptedInv, Installing, InHand
  <2>2. CASE ClearCertRollover(n, u) /\ UNCHANGED wire
    <3>1. Entry'.pending = Nil
      BY <1>2, <1>4, <2>2, ClearEntry DEF TypeOK, Entry
    <3>2. {certFile, certBackup} \cap {u} = {} /\ ~InHand
      BY <1>2, <1>3, <1>4 DEF AtNode, RegisteredInv, AcceptedInv, HandInv
    <3>3. AcceptedInv'
      BY <1>1, <1>3, <1>4, <1>9, <3>2 DEF RegisteredInv, AcceptedInv, Installing, InHand
    <3> QED BY <1>4, <2>2, <3>1, <3>3 DEF ActiveInv, WireInv
  <2> QED BY <2>1, <2>2 DEF SendUpdate
<1> QED BY <1>10, <1>11, <1>12 DEF RegisteredInv

(* A registration leaves the certificate of the file pinned. *)
LEMMA RegisterCred ==
  ASSUME TypeOK, UpdatesIssued, HandInv, CredInv, RegisterNode, CanRegister(Request, now)
  PROVE  CredInv'
<1>1. UNCHANGED <<now, notAfter, hpc, update, wire, mem, certFile, certBackup, late>>
  BY DEF RegisterNode
<1>2. /\ run' \in {"stream", "live"} /\ received' = Nil /\ ~Installing' /\ ~InHand'
      /\ mem = certFile
  BY DEF RegisterNode, Installing, InHand, HandInv
<1> SUFFICES ASSUME ~late PROVE FreshInv' /\ RegisteredInv'
  BY <1>1 DEF CredInv
<1>3. RegistryTypeOK /\ mem \in Certs \cup {Nil} /\ now \in Nat /\ Register(Request, now)
  <2>1. now \in Nat
    BY SMTT(30) DEF TypeOK
  <2> QED BY <2>1 DEF TypeOK, RegisterNode
<1>4. /\ Registered(n)' /\ certFile # Nil /\ Entry'.cert = certFile
      /\ Registered(n) /\ Entry.cert = certFile =>
           Entry'.pending = Entry.pending /\ Entry'.overlapUntil = Entry.overlapUntil
      /\ Registered(n) /\ Entry.cert # certFile => Entry.pending = certFile /\ Entry'.pending = Nil
      /\ ~Registered(n) => Entry'.pending = Nil
  BY <1>2, <1>3, RegisterEntry DEF Entry
<1>5. AtNode' \subseteq AtNode /\ certFile \in AtNode
  BY <1>1, <1>2, <1>4 DEF AtNode
<1>6. FreshInv /\ (Registered(n) => RegisteredInv)
  BY DEF CredInv
<1>7. FreshInv'
  <2>1. \A c \in Certs : notAfter[c] = 0 => c # certFile /\ c # Nil /\ c # Entry'.pending
    BY <1>4, <1>5, <1>6, RegistryAssumption DEF FreshInv
  <2> QED BY <1>1, <1>4, <1>5, <1>6, <2>1 DEF FreshInv, Unsent
<1>8. AcceptedInv'
  BY <1>1, <1>2, <1>4 DEF AcceptedInv
<1>9. CASE Registered(n) /\ Entry.cert = certFile
  <2>1. ActiveInv' /\ WireInv'
    BY <1>1, <1>4, <1>5, <1>6, <1>9 DEF RegisteredInv, ActiveInv, WireInv
  <2>2. UnsentInv'
    BY <1>1, <1>4, <1>5, <1>6, <1>9 DEF RegisteredInv, UnsentInv, Unsent
  <2> QED BY <1>7, <1>8, <2>1, <2>2 DEF RegisteredInv
<1>10. CASE ~(Registered(n) /\ Entry.cert = certFile)
  <2>1. Entry'.pending = Nil /\ ActiveInv'
    BY <1>4, <1>10 DEF ActiveInv
  <2>2. \A h \in Handlers : wire[h] = <<>>
    BY <1>4, <1>5, <1>6, <1>10 DEF HandInv, RegisteredInv, WireInv
  <2>3. \A h \in Handlers : Unsent(h) =>
          hpc[h] # "send" /\ update[h] # Nil /\ update[h] \notin AtNode /\ Registered(n)
    BY <1>4, <1>5, <1>6, <1>10, RegistryAssumption
    DEF HandInv, RegisteredInv, UnsentInv, UpdatesIssued, Unsent
  <2>4. WireInv'
    BY <1>1, <2>2 DEF WireInv
  <2>5. UnsentInv'
    <3>1. \A h \in Handlers : Unsent(h)' => update'[h] \notin AtNode' \cup {Entry'.cert}
      BY <1>1, <1>4, <1>5, <2>3 DEF Unsent
    <3>2. \A h \in Handlers : hpc'[h] \in {"allow", "send"} => Unsent(h)
      BY <1>1 DEF Unsent
    <3>3. \A f, g \in Handlers : Unsent(f)' /\ Unsent(g)' /\ f # g => update'[f] # update'[g]
      BY <1>1, <1>6, <2>3 DEF RegisteredInv, UnsentInv, Unsent
    <3> QED BY <1>1, <2>1, <2>3, <3>1, <3>2, <3>3 DEF UnsentInv
  <2> QED BY <1>7, <1>8, <2>1, <2>4, <2>5 DEF RegisteredInv
<1> QED BY <1>9, <1>10

(* The replacement that arrives is the accepted one, and was sent once. *)
LEMMA ReceiveCred ==
  ASSUME TypeOK, HandInv, CredInv, ReceiveUpdate
  PROVE  CredInv'
<1>1. UNCHANGED <<byName, now, notAfter, hpc, update, certFile, late>>
  BY DEF ReceiveUpdate
<1>2. link \in Handlers /\ wire[link] # <<>> /\ Registered(n)
  BY HeadIsCert DEF ReceiveUpdate, HandInv
<1>3. CASE Return /\ UNCHANGED certBackup
  <2>1. AtNode' \subseteq AtNode
    BY <1>1, <1>3 DEF AtNode
  <2>2. \A h \in Handlers : wire'[h] \in {wire[h], <<>>}
    BY <1>3 DEF TypeOK
  <2>3. AcceptedInv => AcceptedInv'
    BY <1>1, <1>3 DEF AcceptedInv, Entry, Installing, InHand
  <2> QED BY <1>1, <2>1, <2>2, <2>3, NodeKeeps
<1>4. CASE /\ received' = Head(wire[link]) /\ run' = "backupKey"
           /\ wire' = [wire EXCEPT ![link] = Tail(@)] /\ certBackup' = Nil
  <2> SUFFICES ASSUME ~late PROVE FreshInv' /\ RegisteredInv'
    BY <1>1 DEF CredInv
  <2>1. FreshInv /\ RegisteredInv /\ Entry' = Entry
    BY <1>1, <1>2 DEF CredInv, Entry
  <2>2. wire[link] = <<Entry.pending>> /\ \A g \in Handlers : g # link => wire[g] = <<>>
    BY <1>2, <2>1 DEF RegisteredInv, WireInv
  <2>3. Head(<<Entry.pending>>) = Entry.pending /\ Tail(<<Entry.pending>>) = <<>>
    BY SMTT(30)
  <2>4. received' = Entry.pending /\ \A g \in Handlers : wire'[g] = <<>>
    BY <1>2, <1>4, <2>2, <2>3 DEF TypeOK
  <2>5. AtNode' \subseteq AtNode \cup {Entry.pending}
    BY <1>1, <1>4, <2>4 DEF AtNode
  <2>6. FreshInv'
    <3>1. \A c \in Certs : notAfter[c] = 0 => c \notin AtNode'
      BY <1>2, <2>1, <2>5 DEF FreshInv
    <3> QED BY <1>1, <2>1, <3>1 DEF FreshInv, Unsent, Registered
  <2>7. \A g \in Handlers : Unsent(g) => hpc[g] = "allow" /\ update[g] # Entry.pending
    BY <1>2, <2>1 DEF RegisteredInv, UnsentInv, Unsent
  <2>8. UnsentInv'
    BY <1>1, <2>1, <2>4, <2>5, <2>7 DEF RegisteredInv, UnsentInv, Unsent
  <2>9. AcceptedInv'
    BY <1>1, <1>4, <2>1, <2>4 DEF RegisteredInv, AcceptedInv
  <2>10. ActiveInv' /\ WireInv'
    BY <1>1, <2>1, <2>4 DEF RegisteredInv, ActiveInv, WireInv
  <2> QED BY <2>6, <2>8, <2>9, <2>10 DEF RegisteredInv
<1> QED BY <1>3, <1>4 DEF ReceiveUpdate

(* The renames only move certificates the node has. *)
LEMMA InstallCred ==
  ASSUME TypeOK, HandInv, CredInv, InstallStep, ~ReceiveUpdate
  PROVE  CredInv'
<1> USE DEF InstallStep, BackupKey, BackupCert, RenameKey, RenameCert, Cleanup,
            RestoreCert, RemoveKey, RestoreKey
<1>1. UNCHANGED <<byName, now, notAfter, hpc, update, late>>
  OBVIOUS
<1>2. \A h \in Handlers : wire'[h] \in {wire[h], <<>>}
  BY DEF TypeOK
<1>3. certFile' \in {certFile, received, certBackup, Nil} /\ certBackup' \in {certBackup, certFile, Nil}
  OBVIOUS
<1>4. received' \in {received, Nil}
  OBVIOUS
<1>5. /\ certFile' = received => certFile' = certFile \/ InHand
      /\ certFile' # certFile => Installing
      /\ InHand' => InHand /\ received' = received
      /\ Installing' => Installing
  BY DEF InHand, Installing
<1> HIDE DEF InstallStep
<1>6. AtNode' \subseteq AtNode
  BY <1>3, <1>4 DEF AtNode
<1>7. AcceptedInv => AcceptedInv'
  <2> SUFFICES ASSUME AcceptedInv PROVE AcceptedInv'
    OBVIOUS
  <2>0. Entry' = Entry
    BY <1>1 DEF Entry
  <2>1. certFile' # Nil => certFile' \in {Entry.cert, Entry.pending}
    BY <1>3, <1>5 DEF AcceptedInv, InHand
  <2>2. Installing' /\ certBackup' # Nil => certBackup' \in {Entry.cert, Entry.pending}
    BY <1>3, <1>5 DEF AcceptedInv
  <2>3. InHand' => received' = Entry.pending
    BY <1>5 DEF AcceptedInv
  <2> QED BY <2>0, <2>1, <2>2, <2>3 DEF AcceptedInv
<1> QED BY <1>1, <1>2, <1>6, <1>7, NodeKeeps

(* The other steps of the node, and of everybody else. *)
LEMMA OtherCred ==
  ASSUME TypeOK, CredInv,
         \/ Connect \/ Disconnect \/ Start \/ Unavailable \/ Crash
         \/ RegisterNode /\ ~CanRegister(Request, now)
  PROVE  CredInv'
<1> USE DEF Connect, Disconnect, Start, Unavailable, Crash, RegisterNode
<1>1. UNCHANGED <<byName, now, notAfter, hpc, update, late, certFile, certBackup>>
  OBVIOUS
<1>2. \A h \in Handlers : wire'[h] \in {wire[h], <<>>}
  BY DEF TypeOK
<1>3. received' \in {received, Nil}
  OBVIOUS
<1>4. Installing' => Installing /\ received' = received
  BY DEF Installing
<1>5. run' = "reregister" => run = "reregister" /\ received' = received
  OBVIOUS
<1>6. AtNode' \subseteq AtNode
  BY <1>1, <1>3 DEF AtNode
<1>7. AcceptedInv => AcceptedInv'
  BY <1>1, <1>4, <1>5 DEF AcceptedInv, Entry, InHand
<1> QED BY <1>1, <1>2, <1>6, <1>7, NodeKeeps

(* A new stream starts with a handler that offers nothing. *)
LEMMA StreamCred ==
  ASSUME TypeOK, CredInv, NEW h \in Handlers, StreamCertUpdate(h)
  PROVE  CredInv'
<1>1. AcceptedInv => AcceptedInv'
  BY DEF StreamCertUpdate, AcceptedInv, Entry, Installing, InHand
<1> QED BY <1>1, HandlerRests DEF StreamCertUpdate

(* A handler that wakes up offers nothing yet. *)
LEMMA WakeCred ==
  ASSUME TypeOK, CredInv, NEW h \in Handlers, Wake(h)
  PROVE  CredInv'
<1>1. AcceptedInv => AcceptedInv'
  BY DEF Wake, AcceptedInv, Entry, Installing, InHand
<1>2. \A g \in Handlers : g # h => update'[g] = update[g]
  BY DEF Wake, TypeOK
<1> QED BY <1>1, <1>2, HandlerRests DEF Wake

(* A restarted control plane knows nobody. *)
LEMMA RestartCred ==
  ASSUME CredInv, RestartControlPlane
  PROVE  CredInv'
<1>1. ~Registered(n)' /\ \A h \in Handlers : ~Unsent(h)'
  BY CertRolloverAssumption DEF RestartControlPlane, Registered, Unsent
<1>2. AtNode' = AtNode
  BY DEF RestartControlPlane, AtNode
<1> QED BY <1>1, <1>2 DEF RestartControlPlane, CredInv, FreshInv

(* A window that closes unused is noted. *)
LEMMA TickCred ==
  ASSUME TypeOK, CredInv, Tick
  PROVE  CredInv'
<1> SUFFICES ASSUME ~late' PROVE FreshInv' /\ (Registered(n)' => RegisteredInv')
  BY DEF CredInv
<1>1. UNCHANGED <<byName, notAfter, hpc, update, wire, run, received, certFile, certBackup>> /\ ~late
  BY DEF Tick
<1>2. FreshInv'
  BY <1>1 DEF CredInv, FreshInv, AtNode, Unsent, Registered, Entry
<1>3. ASSUME Registered(n)' PROVE RegisteredInv'
  <2>1. RegisteredInv /\ Registered(n)
    BY <1>1, <1>3 DEF CredInv, Registered
  <2>2. Entry.pending # Nil => ~(Entry.overlapUntil <= now + 1)
    BY <2>1 DEF Tick, Entry
  <2>3. Entry.overlapUntil \in Nat /\ now \in Nat /\ now' = now + 1
    BY <2>1, CertRolloverAssumption, SMTT(30)
    DEF Tick, TypeOK, RegistryTypeOK, RegisteredNode, Registered, Entry
  <2>4. ActiveInv'
    <3>1. Entry' = Entry
      BY <1>1 DEF Entry
    <3> QED BY <2>2, <2>3, <3>1, SMTT(30) DEF ActiveInv
  <2>5. AcceptedInv' /\ UnsentInv' /\ WireInv'
    BY <1>1, <2>1
    DEF RegisteredInv, AcceptedInv, UnsentInv, WireInv, Unsent, Entry, AtNode, Installing, InHand
  <2> QED BY <2>4, <2>5 DEF RegisteredInv
<1> QED BY <1>2, <1>3

(* Every step keeps the accounting of replacements. *)
LEMMA CredKept ==
  ASSUME TypeOK, UpdatesIssued, HandInv, CredInv, [Next]_vars
  PROVE  CredInv'
<1>1. CASE UNCHANGED vars
  <2>1. AtNode' = AtNode /\ (AcceptedInv => AcceptedInv')
    BY <1>1 DEF vars, AtNode, AcceptedInv, Entry, Installing, InHand
  <2> QED BY <1>1, <2>1, NodeKeeps DEF vars
<1>2. CASE \E h \in Handlers : HandlerStep(h) \/ StreamCertUpdate(h)
  BY <1>2, NextDueCred, AllowCred, SendCred, WakeCred, StreamCred DEF HandlerStep
<1>3. CASE InstallStep
  BY <1>3, ReceiveCred, InstallCred
<1>4. CASE RestartControlPlane \/ Tick
  BY <1>4, RestartCred, TickCred
<1>5. CASE Connect \/ Disconnect \/ Start \/ Unavailable \/ Crash \/ RegisterNode
  BY <1>5, OtherCred, RegisterCred
<1> QED BY <1>1, <1>2, <1>3, <1>4, <1>5 DEF Next, HandlerStep, InstallStep

(* A node is never locked out (StreamCertUpdate, Register, ApplyCertUpdate): *)
(* CredentialAccepted holds for any number of handlers, faults and crashes.  *)
THEOREM CredentialStaysAccepted == Spec => []CredentialAccepted
<1> DEFINE Inv == TypeOK /\ UpdatesIssued /\ HandInv /\ CredInv
<1>1. Init => Inv
  BY TypeInit, CredInit DEF Init, UpdatesIssued
<1>2. Inv /\ [Next]_vars => Inv'
  BY TypeStep, HandKept, CredKept
<1>3. Inv => CredentialAccepted
  BY DEF CredInv, RegisteredInv, AcceptedInv, CredentialAccepted, Entry
<1> HIDE DEF Inv
<1> QED BY <1>1, <1>2, <1>3, PTL DEF Spec

-----------------------------------------------------------------------------
(* Certificates replaced in time.                                          *)

(* Nothing fails, and everybody does at once what there is to do.  A       *)
(* certificate outlives a poll interval: an hour by default, against       *)
(* rotation periods of days.                                               *)
FaultFree ==
    /\ Prompt
    /\ MaxFaults = 0 /\ MaxFileFaults = 0 /\ MaxCrashes = 0
    /\ PollInterval < ValidFor

Quiet(h) == hpc[h] = "off" /\ wire[h] = <<>>

(* The node on its way to its first stream. *)
Joining ==
    /\ link = Nil
    /\ \A h \in Handlers : Quiet(h)
    /\ \/ /\ run \in {"down", "register"} /\ ~Registered(n)
          /\ certFile # Nil /\ now < notAfter[certFile]
          /\ run = "register" => mem = certFile
       \/ run = "stream" /\ connected /\ Registered(n) /\ Entry.pending = Nil

(* On its stream: the handler will wake up before the certificate ends, ... *)
Waiting ==
    /\ Entry.pending = Nil /\ run = "live" /\ wire[link] = <<>>
    /\ hpc[link] \in {"lookup", "allow", "wait"}
    /\ hpc[link] = "wait" => wakeAt[link] < notAfter[Entry.cert]
    /\ hpc[link] = "allow" =>
         /\ update[link] \in Certs /\ update[link] # Entry.cert
         /\ overlapUntil[link] > now /\ notAfter[update[link]] = now + ValidFor

(* ... or a replacement is about to be sent, under way or being installed, *)
(* and no time has passed since it was issued.                             *)
Replacing ==
    /\ Entry.pending \in Certs /\ Entry.pending # Entry.cert
    /\ notAfter[Entry.pending] = now + ValidFor /\ Entry.overlapUntil > now
    /\ \/ run = "live" /\ wire[link] = <<>> /\ hpc[link] = "send" /\ update[link] = Entry.pending
       \/ run = "live" /\ wire[link] = <<Entry.pending>> /\ hpc[link] \in {"lookup", "wait"}
       \/ /\ run \in {"backupKey", "backupCert", "renameKey", "renameCert", "cleanup", "reregister"}
          /\ wire[link] = <<>> /\ hpc[link] \in {"lookup", "wait"}
          /\ received = Entry.pending
          /\ run = "reregister" => mem = received
    /\ hpc[link] = "wait" => wakeAt[link] < notAfter[Entry.pending]

Serving ==
    /\ connected /\ Registered(n) /\ link \in Handlers
    /\ \A h \in Handlers : h # link => Quiet(h)
    /\ Waiting \/ Replacing

EntryFresh == Registered(n) => Entry.overlay = n /\ now < notAfter[Entry.cert]

PromptInv == byOverlay[n] \in {Nil, n} /\ EntryFresh /\ (Joining \/ Serving)

(* The first certificate is valid when the node starts. *)
LEMMA PromptInit == Init => PromptInv
<1> SUFFICES ASSUME Init PROVE PromptInv
  OBVIOUS
<1>1. ~Registered(n) /\ byOverlay[n] = Nil
  BY CertRolloverAssumption DEF Init, NewRegistry, Registered
<1>2. certFile # Nil /\ now < notAfter[certFile]
  BY CertRolloverAssumption, RegistryAssumption, SMTT(30) DEF Init
<1> QED BY <1>1, <1>2 DEF Init, PromptInv, EntryFresh, Joining, Quiet

(* Without faults nothing breaks and nothing is put back. *)
LEMMA NoFault ==
  ASSUME FaultFree, TypeOK, Next
  PROVE  ~Disconnect /\ ~Crash /\ ~RestartControlPlane /\ fileFaults' = fileFaults
<1>1. faults = 0 /\ fileFaults = 0 /\ crashes = 0
  BY SMTT(30) DEF FaultFree, TypeOK
<1>2. ~(0 < 0)
  BY SMTT(30)
<1>3. ~Disconnect /\ ~Crash /\ ~RestartControlPlane /\ ~(fileFaults < MaxFileFaults)
  BY <1>1, <1>2 DEF FaultFree, Disconnect, Crash, RestartControlPlane
<1>4. CASE \E h \in Handlers : HandlerStep(h)
  BY <1>3, <1>4, HandlerFrame
<1>5. CASE InstallStep
  BY <1>3, <1>5 DEF InstallStep, ReceiveUpdate, BackupKey, BackupCert, RenameKey, RenameCert,
                    Cleanup, RestoreCert, RemoveKey, RestoreKey
<1>6. CASE NodeStep \/ Tick
  BY <1>3, <1>6 DEF NodeStep, StreamCertUpdate, Connect, Start, RegisterNode, Unavailable, Tick
<1> QED BY <1>3, <1>4, <1>5, <1>6 DEF Next, HandlerStep, InstallStep, NodeStep

(* The clock is a number, and so are the ends of the certificates. *)
LEMMA Times ==
  ASSUME TypeOK
  PROVE  /\ now \in Nat
         /\ Registered(n) => /\ Entry.cert \in Certs /\ notAfter[Entry.cert] \in Nat
                             /\ Entry.overlapUntil \in Nat
         /\ {ValidFor, RenewBefore, PollInterval, Grace} \subseteq Nat \ {0}
<1>1. now \in 0 .. MaxTime /\ notAfter \in [Certs -> Nat]
  BY DEF TypeOK
<1>2. now \in Nat
  BY <1>1, SMTT(30)
<1>3. Registered(n) => Entry.cert \in Certs /\ Entry.overlapUntil \in Nat
  BY CertRolloverAssumption DEF TypeOK, RegistryTypeOK, RegisteredNode, Registered, Entry
<1> QED BY <1>1, <1>2, <1>3, CertRolloverAssumption

(* A sleep that starts with no replacement under way ends at the renewal   *)
(* time or before; one that starts with one ends after a poll interval.    *)
LEMMA SleepEnds ==
  ASSUME TypeOK, FaultFree, Registered(n), EntryFresh, ~Due(Entry)
  PROVE  /\ Entry.pending = Nil => now + DelayUntilDue(Entry) < notAfter[Entry.cert]
         /\ Entry.pending # Nil /\ Entry.overlapUntil > now =>
              now + DelayUntilDue(Entry) < now + ValidFor
<1>1. /\ now \in Nat /\ notAfter[Entry.cert] \in Nat
      /\ ValidFor \in Nat /\ PollInterval \in Nat /\ RenewBefore \in Nat \ {0}
  BY Times
<1>2. ASSUME Entry.pending = Nil PROVE now + DelayUntilDue(Entry) < notAfter[Entry.cert]
  <2>1. ~hasActivePendingCert(Entry, now) /\ ~(now >= notAfter[Entry.cert] - RenewBefore)
    BY <1>2 DEF Due, hasActivePendingCert, RenewTime
  <2> QED BY <1>1, <2>1, SMTT(30) DEF DelayUntilDue, RenewTime
<1>3. ASSUME Entry.pending # Nil, Entry.overlapUntil > now
      PROVE  now + DelayUntilDue(Entry) < now + ValidFor
  <2>1. DelayUntilDue(Entry) = PollInterval
    BY <1>3 DEF DelayUntilDue, hasActivePendingCert
  <2> QED BY <1>1, <2>1, SMTT(30) DEF FaultFree
<1> QED BY <1>2, <1>3

(* On the way to the stream, ... *)
LEMMA JoiningStep ==
  ASSUME TypeOK, FaultFree, PromptInv, Joining, Next
  PROVE  PromptInv'
<1>0. ~Disconnect /\ ~Crash /\ ~RestartControlPlane
  BY NoFault
<1>1. \A h \in Handlers : hpc[h] = "off" /\ wire[h] = <<>>
  BY DEF Joining, Quiet
<1>2. ~(\E h \in Handlers : HandlerStep(h))
  BY <1>1 DEF HandlerStep, NextDueUpdate, AllowUpdate, SendUpdate, Wake
<1>3. ~InstallStep
  BY DEF Joining, InstallStep, ReceiveUpdate, BackupKey, BackupCert, RenameKey, RenameCert,
         Cleanup, RestoreCert, RemoveKey, RestoreKey
<1>4. ~Tick
  BY DEF Joining, Tick, FaultFree, Idle
<1>5. CASE Connect
  BY <1>5 DEF Connect, PromptInv, EntryFresh, Joining, Quiet, Registered, Entry
<1>6. CASE Start
  BY <1>6 DEF Start, PromptInv, EntryFresh, Joining, Quiet, Registered, Entry
<1>7. CASE Unavailable
  BY <1>7 DEF Unavailable, PromptInv, EntryFresh, Joining, Quiet, Registered, Entry
<1>8. CASE RegisterNode /\ ~CanRegister(Request, now)
  BY <1>8 DEF RegisterNode, PromptInv, EntryFresh, Joining, Quiet, Registered, Entry
<1>9. CASE RegisterNode /\ CanRegister(Request, now)
  <2>1. /\ run = "register" /\ run' = "stream" /\ connected' /\ Register(Request, now)
        /\ UNCHANGED <<now, notAfter, hpc, wire, link>>
    BY <1>9 DEF RegisterNode, Joining
  <2>2. mem = certFile /\ now < notAfter[mem] /\ ~Registered(n)
    BY <2>1 DEF Joining
  <2>3. RegistryTypeOK /\ mem \in Certs \cup {Nil} /\ now \in Nat
    BY Times DEF TypeOK
  <2>4. /\ Registered(n)' /\ Entry'.cert = mem /\ Entry'.overlay = n /\ byOverlay'[n] = n
        /\ Entry'.pending = Nil
    BY <1>9, <2>1, <2>2, <2>3, RegisterEntry DEF Entry
  <2> QED BY <2>1, <2>2, <2>4 DEF PromptInv, EntryFresh, Joining, Quiet
<1>10. CASE \E h \in Handlers : StreamCertUpdate(h)
  <2> PICK h \in Handlers : StreamCertUpdate(h)
    BY <1>10
  <2>1. /\ run = "stream" /\ run' = "live" /\ link' = h /\ connected' /\ Registered(n)
        /\ Entry.pending = Nil
        /\ hpc' = [hpc EXCEPT ![h] = "lookup"]
        /\ UNCHANGED <<byName, byOverlay, now, notAfter, wire>>
    BY DEF StreamCertUpdate, Joining
  <2>2. hpc'[h] = "lookup" /\ \A g \in Handlers : g # h => hpc'[g] = hpc[g]
    BY <2>1 DEF TypeOK
  <2>3. Waiting'
    BY <1>1, <2>1, <2>2 DEF Waiting, Entry
  <2> QED BY <1>1, <2>1, <2>2, <2>3 DEF PromptInv, EntryFresh, Serving, Quiet, Registered, Entry
<1> QED
  BY <1>0, <1>2, <1>3, <1>4, <1>5, <1>6, <1>7, <1>8, <1>9, <1>10
  DEF Next, HandlerStep, InstallStep

(* ... on it, the handler, ... *)
LEMMA ServingHandler ==
  ASSUME TypeOK, FaultFree, PromptInv, Serving, NEW h \in Handlers, HandlerStep(h)
  PROVE  PromptInv'
<1>0. UNCHANGED <<now, run, link, connected, mem, received>>
  BY HandlerFrame
<1>1. h = link /\ Registered(n) /\ EntryFresh /\ byOverlay[n] \in {Nil, n}
  BY DEF Serving, Quiet, HandlerStep, NextDueUpdate, AllowUpdate, SendUpdate, Wake, PromptInv
<1>2. \A g \in Handlers : g # link => hpc'[g] = hpc[g] /\ wire'[g] = wire[g]
  <2>1. CASE NextDueUpdate(h)
    BY <1>1, <2>1 DEF NextDueUpdate, TypeOK
  <2>2. CASE AllowUpdate(h)
    BY <1>1, <2>2 DEF AllowUpdate, TypeOK
  <2>3. CASE SendUpdate(h)
    BY <1>1, <2>3 DEF SendUpdate, TypeOK
  <2>4. CASE Wake(h)
    BY <1>1, <2>4 DEF Wake, TypeOK
  <2> QED BY <2>1, <2>2, <2>3, <2>4 DEF HandlerStep
<1> SUFFICES Registered(n)' /\ EntryFresh' /\ byOverlay'[n] \in {Nil, n} /\ (Waiting' \/ Replacing')
  BY <1>0, <1>1, <1>2 DEF PromptInv, Serving, Quiet
<1>3. /\ now \in Nat /\ Entry.cert \in Certs /\ notAfter[Entry.cert] \in Nat
      /\ ValidFor \in Nat \ {0} /\ Grace \in Nat \ {0}
  BY <1>1, Times
<1>4. CASE NextDueUpdate(h)
  <2>0. UNCHANGED <<byName, byOverlay, wire>> /\ Entry' = Entry /\ Registered(n)'
    BY <1>1, <1>4 DEF NextDueUpdate, Entry, Registered
  <2>1. hpc[link] = "lookup"
    BY <1>1, <1>4 DEF NextDueUpdate
  <2>2. CASE Due(Entry)
    <3>1. Waiting
      BY <2>1, <2>2, RegistryAssumption DEF Serving, Replacing, Due, hasActivePendingCert
    <3> PICK c \in Certs : /\ notAfter[c] = 0
                           /\ notAfter' = [notAfter EXCEPT ![c] = now + ValidFor]
                           /\ update' = [update EXCEPT ![link] = c]
      BY <1>1, <1>4, <2>2 DEF NextDueUpdate, Entry
    <3>2. /\ hpc' = [hpc EXCEPT ![link] = "allow"]
          /\ overlapUntil' = [overlapUntil EXCEPT ![link] = PromotionDeadline(Entry)]
      BY <1>1, <1>4, <2>2 DEF NextDueUpdate, Entry
    <3>3. PromotionDeadline(Entry) > now
      BY <1>3, SMTT(30) DEF PromotionDeadline
    <3>4. Entry.cert # c
      BY <1>1, <1>3, SMTT(30) DEF EntryFresh
    <3>5. notAfter'[Entry.cert] = notAfter[Entry.cert] /\ notAfter'[c] = now + ValidFor
      BY <1>3, <3>4 DEF TypeOK
    <3>6. hpc'[link] = "allow" /\ update'[link] = c /\ overlapUntil'[link] > now
      BY <1>1, <3>2, <3>3 DEF TypeOK
    <3>7. EntryFresh'
      BY <1>0, <1>1, <2>0, <3>5 DEF EntryFresh
    <3>8. Waiting'
      BY <1>0, <2>0, <3>1, <3>4, <3>5, <3>6 DEF Waiting
    <3> QED BY <1>1, <2>0, <3>7, <3>8
  <2>3. CASE ~Due(Entry)
    <3>1. /\ hpc' = [hpc EXCEPT ![link] = "wait"] /\ UNCHANGED <<notAfter, update, overlapUntil>>
          /\ wakeAt' = [wakeAt EXCEPT ![link] = now + DelayUntilDue(Entry)]
      BY <1>1, <1>4, <2>3 DEF NextDueUpdate, Entry
    <3>2. hpc'[link] = "wait" /\ wakeAt'[link] = now + DelayUntilDue(Entry)
      BY <1>1, <3>1 DEF TypeOK
    <3>3. EntryFresh'
      BY <1>0, <1>1, <2>0, <3>1 DEF EntryFresh
    <3>4. CASE Waiting
      <4>1. now + DelayUntilDue(Entry) < notAfter[Entry.cert]
        BY <1>1, <2>3, <3>4, SleepEnds DEF Waiting
      <4>2. Waiting'
        BY <1>0, <2>0, <3>1, <3>2, <3>4, <4>1 DEF Waiting
      <4> QED BY <1>1, <2>0, <3>3, <4>2
    <3>5. CASE Replacing
      <4>1. now + DelayUntilDue(Entry) < notAfter[Entry.pending]
        BY <1>1, <2>3, <3>5, SleepEnds, RegistryAssumption DEF Replacing
      <4>2. Replacing'
        BY <1>0, <2>0, <2>1, <3>1, <3>2, <3>5, <4>1 DEF Replacing
      <4> QED BY <1>1, <2>0, <3>3, <4>2
    <3> QED BY <3>4, <3>5 DEF Serving
  <2> QED BY <2>2, <2>3
<1>5. CASE AllowUpdate(h)
  <2>1. hpc[link] = "allow" /\ UNCHANGED <<notAfter, wire>>
    BY <1>1, <1>5 DEF AllowUpdate
  <2>2. Waiting
    BY <2>1 DEF Serving, Replacing
  <2>3. update[link] \in Certs /\ overlapUntil[link] > now /\ overlapUntil[link] \in Nat
    BY <1>1, <2>1, <2>2 DEF Waiting, TypeOK
  <2>4. CanAllowCertRollover(n, update[link], overlapUntil[link], now)
    BY <1>1, <2>2, <2>3 DEF CanAllowCertRollover, hasActivePendingCert, Waiting, Entry
  <2>5. /\ AllowCertRollover(n, update[link], overlapUntil[link])
        /\ hpc' = [hpc EXCEPT ![link] = "send"]
        /\ UNCHANGED <<update, byOverlay>>
    BY <1>1, <1>5, <2>4 DEF AllowUpdate, AllowCertRollover
  <2>6. /\ Registered(n)' /\ Entry'.cert = Entry.cert /\ Entry'.overlay = Entry.overlay
        /\ Entry'.pending = update[link] /\ Entry'.overlapUntil = overlapUntil[link]
    BY <1>1, <2>3, <2>5, AllowEntry DEF TypeOK, Entry
  <2>7. hpc'[link] = "send"
    BY <1>1, <2>5 DEF TypeOK
  <2>8. EntryFresh'
    BY <1>0, <1>1, <2>1, <2>6 DEF EntryFresh
  <2>9. Replacing'
    BY <1>0, <2>1, <2>2, <2>3, <2>5, <2>6, <2>7 DEF Waiting, Replacing
  <2> QED BY <1>1, <2>5, <2>6, <2>8, <2>9
<1>6. CASE SendUpdate(h)
  <2>1. /\ hpc[link] = "send" /\ UNCHANGED <<byName, byOverlay, notAfter>>
        /\ wire' = [wire EXCEPT ![link] = Append(@, update[link])]
        /\ hpc' = [hpc EXCEPT ![link] = "lookup"]
    BY <1>1, <1>6 DEF SendUpdate
  <2>2. Replacing /\ run = "live" /\ wire[link] = <<>> /\ update[link] = Entry.pending
    BY <2>1 DEF Serving, Waiting, Replacing
  <2>3. Append(<<>>, Entry.pending) = <<Entry.pending>>
    BY SMTT(30)
  <2>4. wire'[link] = <<Entry.pending>> /\ hpc'[link] = "lookup"
    BY <1>1, <2>1, <2>2, <2>3 DEF TypeOK
  <2>5. Entry' = Entry /\ Registered(n)' /\ EntryFresh'
    BY <1>0, <1>1, <2>1 DEF Entry, Registered, EntryFresh
  <2>6. Replacing'
    BY <1>0, <2>1, <2>2, <2>4, <2>5 DEF Replacing
  <2> QED BY <1>1, <2>1, <2>5, <2>6
<1>7. CASE Wake(h)
  <2>1. /\ hpc[link] = "wait" /\ UNCHANGED <<byName, byOverlay, notAfter, wire, update, overlapUntil>>
        /\ hpc' = [hpc EXCEPT ![link] = "lookup"]
    BY <1>1, <1>7 DEF Wake
  <2>2. hpc'[link] = "lookup"
    BY <1>1, <2>1 DEF TypeOK
  <2>3. Entry' = Entry /\ Registered(n)' /\ EntryFresh'
    BY <1>0, <1>1, <2>1 DEF Entry, Registered, EntryFresh
  <2>4. Waiting' \/ Replacing'
    BY <1>0, <2>1, <2>2, <2>3 DEF Serving, Waiting, Replacing
  <2> QED BY <1>1, <2>1, <2>3, <2>4
<1> QED BY <1>4, <1>5, <1>6, <1>7 DEF HandlerStep

(* ... the installation, ... *)
LEMMA ServingInstall ==
  ASSUME TypeOK, FaultFree, PromptInv, Serving, InstallStep, fileFaults' = fileFaults
  PROVE  PromptInv'
<1>1. UNCHANGED <<byName, byOverlay, now, notAfter, hpc, update, overlapUntil, wakeAt, connected>>
  BY DEF InstallStep, ReceiveUpdate, BackupKey, BackupCert, RenameKey, RenameCert,
         Cleanup, RestoreCert, RemoveKey, RestoreKey
<1>2. Entry' = Entry /\ Registered(n)' /\ EntryFresh' /\ byOverlay'[n] \in {Nil, n}
  BY <1>1 DEF Entry, Registered, EntryFresh, PromptInv, Serving
<1>3. Replacing /\ link \in Handlers
  BY DEF Serving, Waiting, InstallStep, ReceiveUpdate, BackupKey, BackupCert, RenameKey,
         RenameCert, Cleanup, RestoreCert, RemoveKey, RestoreKey
<1>4. CASE ReceiveUpdate
  <2>1. wire[link] = <<Entry.pending>> /\ hpc[link] \in {"lookup", "wait"}
    BY <1>3, <1>4 DEF ReceiveUpdate, Replacing
  <2>2. Head(<<Entry.pending>>) = Entry.pending /\ Tail(<<Entry.pending>>) = <<>>
    BY SMTT(30)
  <2>3. ~(notAfter[Entry.pending] <= now)
    <3>1. notAfter[Entry.pending] = now + ValidFor /\ now \in Nat /\ ValidFor \in Nat \ {0}
      BY <1>3, Times DEF Replacing
    <3> QED BY <3>1, SMTT(30)
  <2>4. /\ run' = "backupKey" /\ received' = Entry.pending /\ UNCHANGED link
        /\ wire' = [wire EXCEPT ![link] = <<>>]
    BY <1>4, <2>1, <2>2, <2>3 DEF ReceiveUpdate
  <2>5. wire'[link] = <<>> /\ \A h \in Handlers : h # link => wire'[h] = wire[h]
    BY <1>3, <2>4 DEF TypeOK
  <2>6. Replacing'
    BY <1>1, <1>2, <1>3, <2>1, <2>4, <2>5 DEF Replacing
  <2> QED BY <1>1, <1>2, <2>4, <2>5, <2>6 DEF PromptInv, Serving, Quiet
<1>5. CASE ~ReceiveUpdate
  <2>1. fileFaults + 1 # fileFaults
    BY SMTT(30) DEF TypeOK
  <2>2. /\ run \in {"backupKey", "backupCert", "renameKey", "renameCert", "cleanup"}
        /\ run' \in {"backupCert", "renameKey", "renameCert", "cleanup", "reregister"}
        /\ UNCHANGED <<wire, link, received>>
        /\ run' = "reregister" => mem' = received
    BY <1>3, <1>5, <2>1 DEF Replacing, InstallStep, BackupKey, BackupCert, RenameKey, RenameCert,
         Cleanup, RestoreCert, RemoveKey, RestoreKey
  <2>3. Replacing'
    BY <1>1, <1>2, <1>3, <2>2 DEF Replacing
  <2> QED BY <1>1, <1>2, <2>2, <2>3 DEF PromptInv, Serving, Quiet
<1> QED BY <1>4, <1>5

(* ... the registration that promotes the replacement, ... *)
LEMMA ServingRegister ==
  ASSUME TypeOK, FaultFree, PromptInv, Serving, RegisterNode
  PROVE  PromptInv'
<1>1. run = "reregister" /\ Replacing /\ mem = Entry.pending /\ Registered(n)
  BY DEF RegisterNode, Serving, Waiting, Replacing
<1>2. /\ RegistryTypeOK /\ mem \in Certs \cup {Nil} /\ now \in Nat /\ mem # Nil
  BY <1>1, Times, RegistryAssumption DEF TypeOK, Replacing
<1>3. CanRegister(Request, now)
  <2>1. n # Nil /\ ValidateComposability({"client"})
    BY CertRolloverAssumption, MeshAssumption DEF ValidateComposability
  <2>2. Entry.overlay = n /\ byOverlay[n] \in {Nil, n}
    BY <1>1 DEF PromptInv, EntryFresh
  <2>3. canPromotePendingCert(Entry, mem, now)
    BY <1>1, <1>2 DEF canPromotePendingCert, Replacing
  <2> QED BY <1>2, <2>1, <2>2, <2>3 DEF CanRegister, Request, Entry
<1>4. /\ Register(Request, now) /\ run' = "live" /\ UNCHANGED <<link, wire, now, notAfter, connected>>
      /\ UNCHANGED <<hpc, update, overlapUntil, wakeAt>>
  BY <1>1, <1>3 DEF RegisterNode
<1>5. /\ Registered(n)' /\ Entry'.cert = mem /\ Entry'.overlay = n /\ byOverlay'[n] = n
      /\ Entry.cert = mem => Entry'.pending = Entry.pending /\ Entry'.overlapUntil = Entry.overlapUntil
      /\ Entry.cert # mem => Entry'.pending = Nil
  BY <1>1, <1>2, <1>3, <1>4, RegisterEntry DEF Entry
<1>6. notAfter[mem] = now + ValidFor /\ now < notAfter[mem]
  <2>1. notAfter[mem] = now + ValidFor /\ now \in Nat /\ ValidFor \in Nat \ {0}
    BY <1>1, Times DEF Replacing
  <2> QED BY <2>1, SMTT(30)
<1>7. EntryFresh'
  BY <1>4, <1>5, <1>6 DEF EntryFresh
<1>8. Waiting'
  BY <1>1, <1>4, <1>5, <1>6 DEF Replacing, Waiting
<1> QED BY <1>1, <1>4, <1>5, <1>7, <1>8 DEF PromptInv, Serving, Quiet

(* ... and the clock, which ticks only when the handler sleeps. *)
LEMMA ServingTick ==
  ASSUME TypeOK, FaultFree, PromptInv, Serving, Tick
  PROVE  PromptInv'
<1>1. Idle /\ now' = now + 1
  BY DEF Tick, FaultFree
<1>2. Waiting /\ hpc[link] = "wait" /\ wakeAt[link] > now /\ wakeAt[link] < notAfter[Entry.cert]
  <2>0. <<Entry.pending>> # <<>>
    BY SMTT(30)
  <2>1. Waiting
    BY <1>1, <2>0 DEF Serving, Idle, Replacing
  <2> QED BY <1>1, <2>1 DEF Idle, Waiting
<1>3. now' < notAfter[Entry.cert]
  <2>1. now \in Nat /\ notAfter[Entry.cert] \in Nat
    BY Times DEF Serving
  <2>2. wakeAt[link] \in Int
    BY SMTT(30) DEF TypeOK, Serving
  <2> QED BY <1>1, <1>2, <2>1, <2>2, SMTT(30)
<1>4. UNCHANGED <<byName, byOverlay, notAfter, hpc, wakeAt, wire, run, link, connected>>
  BY DEF Tick
<1>5. Entry' = Entry /\ Registered(n)' /\ EntryFresh'
  BY <1>3, <1>4 DEF Entry, Registered, EntryFresh, PromptInv, Serving
<1>6. Waiting'
  BY <1>2, <1>4, <1>5 DEF Waiting
<1> QED BY <1>4, <1>5, <1>6 DEF PromptInv, Serving, Quiet

(* Every step keeps the schedule. *)
LEMMA PromptStep ==
  ASSUME TypeOK, FaultFree, PromptInv, [Next]_vars
  PROVE  PromptInv'
<1>1. CASE UNCHANGED vars
  BY <1>1 DEF vars, PromptInv, EntryFresh, Joining, Serving, Waiting, Replacing, Quiet, Registered, Entry
<1>2. CASE Next /\ Serving
  <2>1. ~Connect /\ ~Start /\ ~Unavailable /\ ~(\E h \in Handlers : StreamCertUpdate(h))
    BY <1>2, CertRolloverAssumption
    DEF Connect, Start, Unavailable, StreamCertUpdate, Serving, Waiting, Replacing
  <2> QED
    BY <1>2, <2>1, NoFault, ServingHandler, ServingInstall, ServingRegister, ServingTick
    DEF Next, HandlerStep, InstallStep
<1> QED BY <1>1, <1>2, JoiningStep DEF PromptInv

(* A node that stays connected never runs on an expired certificate        *)
(* (NextDueUpdate, DelayUntilDue): for every validity, renewal time and    *)
(* poll interval, as long as a certificate outlives a poll interval.       *)
THEOREM PinnedStaysFresh == FaultFree => (Spec => []PinnedFresh)
<1> SUFFICES ASSUME FaultFree PROVE Spec => []PinnedFresh
  OBVIOUS
<1> DEFINE Inv == TypeOK /\ UpdatesIssued /\ PromptInv
<1>1. Init => Inv
  BY TypeInit, PromptInit DEF Init, UpdatesIssued
<1>2. Inv /\ [Next]_vars => Inv'
  BY TypeStep, PromptStep
<1>3. Inv => PinnedFresh
  BY DEF PromptInv, EntryFresh, PinnedFresh, Entry
<1> HIDE DEF Inv
<1> QED BY <1>1, <1>2, <1>3, PTL DEF Spec

=============================================================================
