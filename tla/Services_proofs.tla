-------------------------- MODULE Services_proofs --------------------------
(***************************************************************************)
(* Proofs about the long-running services: the master's run                *)
(* (MasterRuntime), for any number of failing calls; the DNS server        *)
(* (DnsServer), for any nodes and any number of updates; the audit log     *)
(* (AuditLog), for any capacity and any number of writers; the forwarders  *)
(* of Ingress, for any routes and connections; and the end of the ingress  *)
(* and balancer runtimes (ServiceRuntime).  And about the files that       *)
(* operators' commands share: UpgradeState, for any number of commands and *)
(* saves; and Backup, for any files, edits and crashes.                    *)
(***************************************************************************)
EXTENDS MasterRuntime, DnsServer, AuditLog, Ingress, ServiceRuntime, UpgradeState, Backup, TLAPS

Unheld == {"client", "mesh", "returned", "killed"}
BeforeDaemon == {"client", "mesh", "links", "self", "begin"}

(* What Master.Run owns at each of its steps. *)
RunInv ==
  /\ rpc \in RunPcs
  /\ rpc \in {"client", "returned"} => open = {}
  /\ rpc \in {"client", "mesh", "returned"} => ~held
  /\ rpc \notin Unheld => held
  /\ rpc \in BeforeDaemon \cup {"ready", "await", "close", "returned"} => ~started
  /\ rpc \in {"self", "begin", "ready", "await", "stop", "stopwait"} => coord
  /\ started => coord
  /\ rpc \in {"self", "begin"} => links
  /\ rpc = "begin" => selfReg
  /\ ret = "ok" => ctxDone

(* What the daemon's goroutine and the gRPC server may do meanwhile.  The   *)
(* heart of it: once Run is at "close", the server is stopped for good or   *)
(* its goroutine never ran or has ended, so nothing can still be served.    *)
DaemonInv ==
  /\ dpc \in DaemonPcs
  /\ rpc \in BeforeDaemon => dpc = "idle"
  /\ ~coord => dpc \in {"idle", "gone"}
  /\ rpc \in {"ready", "await", "stop", "stopwait"} => dpc # "idle"
  /\ rpc = "serve" /\ coord => dpc # "idle"
  /\ dpc = "idle" => grpc = "new"
  /\ rpc = "stopwait" => grpc = "stopped"
  /\ rpc \in {"close", "returned", "killed"} => grpc = "stopped" \/ dpc \in {"idle", "gone"}
  /\ dpc \in {"listen", "grace"} => grpc # "serving"
  /\ dpc = "flush" => grpc = "stopped"
  /\ dpc \in {"setStopped", "send", "gone"} => ~(grpc = "serving" /\ bound)
  /\ chan \in {"ok", "err"} => dpc = "gone"
  /\ dpc \notin {"idle", "gone"} => selfReg /\ links
  /\ spawned => selfReg /\ links /\ dpc \notin {"idle", "listen", "grace"}
  /\ spawned => grpc # "serving"
  /\ spawned /\ dpc \in {"setStopped", "send", "gone"} => grpc = "stopped"
  /\ grpc = "serving" => selfReg /\ links

(* Registrations come only after the server has served. *)
RegInv ==
  /\ reg # "idle" => grpc # "new"
  /\ reg = "refused" => rpc \in {"returned", "killed"}

MasterInv == RunInv /\ DaemonInv /\ RegInv

USE ZenonT(60) DEF MasterInv, RunInv, DaemonInv, RegInv, RunPcs, DaemonPcs, Unheld, BeforeDaemon,
        run, asked, device, daemon, adapter

-----------------------------------------------------------------------------
(* It holds when the process starts. *)
LEMMA InitInv ==
  ASSUME MasterInit
  PROVE  MasterInv
  BY DEF MasterInit

(* The steps of Run up to the select it serves in. *)
LEMMA StartStep ==
  ASSUME MasterInv,
         \/ StartClient \/ StartMesh \/ configureLinks \/ selfRegisterCoordination
         \/ begin \/ readyCheck
  PROVE  MasterInv'
<1>1. CASE StartClient
  BY <1>1 DEF StartClient, Return
<1>2. CASE StartMesh
  BY <1>2, SMTT(30) DEF StartMesh, Return
<1>3. CASE configureLinks
  BY <1>3 DEF configureLinks, CloseListener, Return
<1>4. CASE selfRegisterCoordination
  BY <1>4 DEF selfRegisterCoordination, CloseListener, Return
<1>5. CASE begin
  BY <1>5 DEF begin
<1>6. CASE readyCheck
  BY <1>6 DEF readyCheck
<1> QED BY <1>1, <1>2, <1>3, <1>4, <1>5, <1>6

(* The steps of Run from there to its return. *)
LEMMA EndStep ==
  ASSUME MasterInv,
         \/ awaitDone \/ awaitAborts \/ awaitTick \/ serveCancelled \/ serveDone
         \/ Stop \/ StopReturns \/ CloseTransports
  PROVE  MasterInv'
<1>1. CASE awaitDone
  BY <1>1 DEF awaitDone, CloseListener, Return
<1>2. CASE awaitAborts
  BY <1>2 DEF awaitAborts
<1>3. CASE awaitTick
  BY <1>3 DEF awaitTick
<1>4. CASE serveCancelled
  BY <1>4 DEF serveCancelled, Close
<1>5. CASE serveDone
  BY <1>5 DEF serveDone, Close
<1>6. CASE Stop
  BY <1>6 DEF Stop
<1>7. CASE StopReturns
  BY <1>7 DEF StopReturns
<1>8. CASE CloseTransports
  BY <1>8 DEF CloseTransports, CloseListener
<1> QED BY <1>1, <1>2, <1>3, <1>4, <1>5, <1>6, <1>7, <1>8

(* The steps of the daemon's goroutine. *)
LEMMA GoroutineStep ==
  ASSUME MasterInv, DaemonStep
  PROVE  MasterInv'
<1> USE DEF others
<1>1. CASE Listen
  BY <1>1 DEF Listen
<1>0. CASE spawnServe
  BY <1>0 DEF spawnServe
<1>2. CASE Serve
  BY <1>2, SMTT(30) DEF Serve
<1>3. CASE DaemonSelect
  BY <1>3 DEF DaemonSelect
<1>4. CASE ServeFails
  BY <1>4 DEF ServeFails
<1>5. CASE shutdown
  BY <1>5 DEF shutdown
<1>6. CASE flushAudit
  BY <1>6 DEF flushAudit
<1>7. CASE setStopped
  BY <1>7 DEF setStopped
<1>8. CASE sendDone
  BY <1>8 DEF sendDone
<1> QED BY <1>0, <1>1, <1>2, <1>3, <1>4, <1>5, <1>6, <1>7, <1>8 DEF DaemonStep

(* Registrations, and the requests to stop. *)
LEMMA OutsideStep ==
  ASSUME MasterInv,
         RegisterNode \/ AddMeshPeer \/ RouteReplaceLinkWithSrc \/ Cancel \/ Signal
  PROVE  MasterInv'
<1>1. CASE RegisterNode
  BY <1>1 DEF RegisterNode, hkeep
<1>2. CASE AddMeshPeer
  BY <1>2, SMTT(30) DEF AddMeshPeer, hkeep
<1>3. CASE RouteReplaceLinkWithSrc
  BY <1>3, SMTT(30) DEF RouteReplaceLinkWithSrc, hkeep
<1>4. CASE Cancel
  BY <1>4, SMTT(30) DEF Cancel
<1>5. CASE Signal
  BY <1>5 DEF Signal, CloseListener
<1> QED BY <1>1, <1>2, <1>3, <1>4, <1>5

(* Every step keeps it. *)
LEMMA NextStep ==
  ASSUME MasterInv, [MasterNext]_mvars
  PROVE  MasterInv'
<1>1. CASE UNCHANGED mvars
  BY <1>1, SMTT(30) DEF mvars
<1>2. CASE MasterNext
  BY <1>2, StartStep, EndStep, GoroutineStep, OutsideStep DEF MasterNext, RunStep
<1> QED BY <1>1, <1>2

HIDE DEF MasterInv

(* It holds throughout. *)
LEMMA Invariance == MasterSpec => []MasterInv
<1>1. MasterInit => MasterInv
  BY InitInv
<1>2. MasterInv /\ [MasterNext]_mvars => MasterInv'
  BY NextStep
<1> QED BY <1>1, <1>2, PTL DEF MasterSpec

(* A failing call counts up to the bound. *)
LEMMA CallCounts ==
  ASSUME MaxFailures \in Nat, failures \in 0..MaxFailures, CallFails
  PROVE  failures' \in 0..MaxFailures
  BY SMTT(30) DEF CallFails

(* Every variable keeps its shape. *)
LEMMA Typing ==
  ASSUME MaxFailures \in Nat
  PROVE  MasterSpec => []MasterTypeOK
<1> USE DEF MasterTypeOK
<1>1. MasterInit => MasterTypeOK
  <2>1. 0 \in 0..MaxFailures
    BY SMTT(30)
  <2> QED BY <2>1 DEF MasterInit
<1>2. MasterTypeOK /\ [MasterNext]_mvars => MasterTypeOK'
  <2> SUFFICES ASSUME MasterTypeOK, [MasterNext]_mvars PROVE MasterTypeOK'
    OBVIOUS
  <2> USE DEF MasterNext, RunStep, DaemonStep, StartClient, StartMesh, configureLinks,
              selfRegisterCoordination, begin, readyCheck, awaitDone, awaitAborts, awaitTick,
              serveCancelled, serveDone, Stop, StopReturns, CloseTransports, Listen, Serve,
              spawnServe, DaemonSelect, ServeFails, shutdown, flushAudit, setStopped, sendDone, RegisterNode,
              AddMeshPeer, RouteReplaceLinkWithSrc, Cancel, Signal, CloseListener, Close, Return,
              others, hkeep, mvars
  <2>1. rpc' \in RunPcs
    OBVIOUS
  <2>2. ret' \in {"none", "ok", "error"}
    OBVIOUS
  <2>3. coord' \in BOOLEAN
    OBVIOUS
  <2>4. ctxDone' \in BOOLEAN
    OBVIOUS
  <2>5. sig' \in BOOLEAN
    OBVIOUS
  <2>6. held' \in BOOLEAN
    OBVIOUS
  <2>7. links' \in BOOLEAN
    OBVIOUS
  <2>8. selfReg' \in BOOLEAN
    OBVIOUS
  <2>9. listener' \in BOOLEAN
    OBVIOUS
  <2>10. bound' \in BOOLEAN
    OBVIOUS
  <2>11. cleared' \in BOOLEAN
    OBVIOUS
  <2>12. started' \in BOOLEAN
    OBVIOUS
  <2>13. open' \in SUBSET {"client", "mesh"}
    OBVIOUS
  <2>14. dpc' \in DaemonPcs
    OBVIOUS
  <2>15. derr' \in {"ok", "err"}
    OBVIOUS
  <2>16. grpc' \in {"new", "serving", "stopped"}
    OBVIOUS
  <2>17. chan' \in {"none", "empty", "ok", "err", "taken"}
    OBVIOUS
  <2>18. reg' \in {"idle", "adding", "routing", "refused"}
    OBVIOUS
  <2>20. spawned' \in BOOLEAN
    OBVIOUS
  <2>19. failures' \in 0..MaxFailures
    BY CallCounts
  <2> QED BY <2>1, <2>2, <2>3, <2>4, <2>5, <2>6, <2>7, <2>8, <2>9, <2>10,
             <2>11, <2>12, <2>13, <2>14, <2>15, <2>16, <2>17, <2>18, <2>19, <2>20
<1> HIDE DEF MasterTypeOK
<1> QED BY <1>1, <1>2, PTL DEF MasterSpec

-----------------------------------------------------------------------------
(* Every way out of Master.Run closes both devices and clears what refers   *)
(* to them.                                                                 *)
THEOREM MasterCloses == MasterSpec => []ClosedWhenReturned
<1>1. MasterInv => ClosedWhenReturned
  BY DEF MasterInv, ClosedWhenReturned
<1> QED BY <1>1, Invariance, PTL

(* DualListener is never given up under a server that accepts nodes: no     *)
(* registration is refused for want of it.                                  *)
THEOREM MasterRefusesLate == MasterSpec => []RefusedOnlyAfterStop
<1>1. MasterInv => RefusedOnlyAfterStop
  BY DEF MasterInv, RefusedOnlyAfterStop
<1> QED BY <1>1, Invariance, PTL

(* The server serves only after selfRegisterCoordination and the links.     *)
THEOREM MasterServesReady == MasterSpec => []ServesOnlyWhenReady
<1>1. MasterInv => ServesOnlyWhenReady
  BY DEF MasterInv, ServesOnlyWhenReady
<1> QED BY <1>1, Invariance, PTL

(* Run returns nil only when its context was cancelled.                     *)
THEOREM MasterCleanExit == MasterSpec => []CleanExitMeansCancelled
<1>1. MasterInv => CleanExitMeansCancelled
  BY DEF MasterInv, CleanExitMeansCancelled
<1> QED BY <1>1, Invariance, PTL

(* All that Master.Run promises during its start, service and end, whatever *)
(* fails, and however often.                                                *)
THEOREM MasterSafety ==
  ASSUME MaxFailures \in Nat
  PROVE  MasterSpec => []MasterSafe
<1>1. MasterTypeOK /\ ClosedWhenReturned /\ RefusedOnlyAfterStop /\ ServesOnlyWhenReady
        /\ CleanExitMeansCancelled => MasterSafe
  BY DEF MasterSafe
<1> QED BY <1>1, Typing, MasterCloses, MasterRefusesLate, MasterServesReady, MasterCleanExit, PTL

HIDE DEF RunInv, DaemonInv, RegInv, RunPcs, DaemonPcs, Unheld, BeforeDaemon, run, asked, device, daemon, adapter

-----------------------------------------------------------------------------
(* The DNS server: both maps always come from one call of loadRecords, so  *)
(* from the records of one node map.                                       *)
ZonesAgree ==
  \E nodes \in NodeMaps :
    aMap \in AMaps(BuildZoneRecords(nodes)) /\ ptrMap \in PtrMaps(BuildZoneRecords(nodes))

DnsInv ==
  /\ ZonesAgree
  /\ start \in {"idle", "waiting", "returned"} /\ dnsSrv \in {"new", "listening", "down"}
  /\ zones \in 0..MaxZones
  /\ start = "returned" /\ ~dnsEarly => dnsSrv = "down"

LEMMA DnsInitInv == DnsInit => DnsInv
  <1>1. ASSUME DnsInit PROVE ZonesAgree
    BY <1>1 DEF DnsInit, ZonesAgree
  <1>2. 0 \in 0..MaxZones
    BY DnsAssumption, SMTT(30)
  <1> QED
    BY <1>1, <1>2 DEF DnsInit, DnsInv

LEMMA DnsInvariance == DnsInv /\ [DnsNext]_dvars => DnsInv'
  <1> SUFFICES ASSUME DnsInv, [DnsNext]_dvars PROVE DnsInv'
    OBVIOUS
  <1>same. aMap' = aMap /\ ptrMap' = ptrMap => ZonesAgree'
    BY DEF DnsInv, ZonesAgree
  <1>1. ASSUME NEW nodes \in NodeMaps, UpdateRecords(nodes) PROVE DnsInv'
    <2>1. ZonesAgree'
      BY <1>1 DEF UpdateRecords, loadRecords, ZonesAgree
    <2>2. zones + 1 \in 0..MaxZones
      BY <1>1, DnsAssumption, SMTT(30) DEF UpdateRecords, DnsInv
    <2> QED
      BY <1>1, <2>1, <2>2 DEF UpdateRecords, server, DnsInv
  <1>2. CASE Start
    BY <1>2, <1>same DEF Start, DnsInv
  <1>3. CASE ListenAndServe
    BY <1>3, <1>same DEF ListenAndServe, DnsInv
  <1>4. CASE serverFails
    BY <1>4, <1>same DEF serverFails, DnsInv
  <1>5. CASE cancel
    BY <1>5, <1>same DEF cancel, DnsInv
  <1>6. CASE shutdownDns
    BY <1>6, <1>same DEF shutdownDns, DnsInv
  <1>7. CASE UNCHANGED dvars
    BY <1>7, <1>same DEF dvars, DnsInv
  <1> QED
    BY <1>1, <1>2, <1>3, <1>4, <1>5, <1>6, <1>7 DEF DnsNext

(* An address of a record has a PTR entry, and the name of a PTR entry an A entry. *)
LEMMA RecordsMatch ==
  ASSUME NEW rs, NEW f \in AMaps(rs), NEW g \in PtrMaps(rs)
  PROVE  /\ \A n \in DOMAIN f : f[n] \in DOMAIN g
         /\ \A a \in DOMAIN g : Lower(g[a]) \in DOMAIN f
  <1>1. DOMAIN f = {Lower(r[1]) : r \in rs} /\ \A n \in DOMAIN f : \E r \in rs : f[n] = r[2]
    BY DEF AMaps
  <1>2. DOMAIN g = {r[2] : r \in rs} /\ \A a \in DOMAIN g : <<g[a], a>> \in rs
    BY DEF PtrMaps
  <1>3. ASSUME NEW a \in DOMAIN g PROVE Lower(g[a]) \in DOMAIN f
    <2>1. <<g[a], a>> \in rs /\ <<g[a], a>>[1] = g[a]
      BY <1>2
    <2> QED
      BY <1>1, <2>1
  <1> QED
    BY <1>1, <1>2, <1>3

LEMMA DnsInvSafe == DnsInv => DnsSafe
  <1> SUFFICES ASSUME DnsInv PROVE DnsSafe
    OBVIOUS
  <1>1. PICK nodes \in NodeMaps :
          aMap \in AMaps(BuildZoneRecords(nodes)) /\ ptrMap \in PtrMaps(BuildZoneRecords(nodes))
    BY DEF DnsInv, ZonesAgree
  <1>2. ReverseResolves
    BY <1>1, RecordsMatch DEF ReverseResolves, handleZone, handlePTR
  <1>3. DOMAIN ptrMap = {r[2] : r \in BuildZoneRecords(nodes)}
    BY <1>1 DEF PtrMaps
  <1>4. DOMAIN ptrMap \subseteq {"10.0.0.1", "10.0.0.2"}
    <2> SUFFICES ASSUME NEW r \in BuildZoneRecords(nodes) PROVE IsIPv4(r[2])
      BY <1>3 DEF IsIPv4
    <2>1. PICK n \in DOMAIN nodes : IsIPv4(nodes[n]) /\ r = <<Trim(n), nodes[n]>>
      BY DEF BuildZoneRecords
    <2> QED
      BY <2>1
  <1> QED
    BY <1>2, <1>4 DEF DnsInv, DnsSafe, DnsTypeOK, StoppedWhenReturned

(* For any node maps, names and number of updates: the forward and the     *)
(* reverse zone agree after every UpdateRecords, and nothing listens once  *)
(* Start has returned, unless Shutdown came before the listener.           *)
THEOREM DnsStaysSafe == DnsSpec => []DnsSafe
  <1>1. DnsSpec => []DnsInv
    BY DnsInitInv, DnsInvariance, PTL DEF DnsSpec
  <1> QED
    BY <1>1, DnsInvSafe, PTL

-----------------------------------------------------------------------------
(* The audit log: where in the history the event of slot j comes from.  A  *)
(* ring that is not full starts at slot 0; a full one has its newest event *)
(* just before wcursor and its oldest at wcursor.                          *)
Origin(j) ==
  IF j < wcursor THEN Len(logged) - wcursor + j + 1
                 ELSE Len(logged) - wcursor - Capacity + j + 1

Ring ==
  /\ ~full => Len(logged) = wcursor /\ \A i \in 1..wcursor : buf[i - 1] = logged[i]
  /\ full => Len(logged) >= Capacity /\ \A j \in 0..(Capacity - 1) : buf[j] = logged[Origin(j)]

AuditInv == AuditTypeOK /\ Ring

LEMMA AuditInitInv == AuditInit => AuditInv
  <1> SUFFICES ASSUME AuditInit PROVE AuditInv
    OBVIOUS
  <1>1. NoEvent \in Events
    BY AuditAssumption, SMTT(30) DEF NoEvent, Events
  <1>2. 0 \in 0..(Capacity - 1) /\ 0 \in 0..MaxEvents /\ 1..0 = {}
    BY AuditAssumption, SMTT(30)
  <1>3. <<>> \in Seq(Events) /\ Len(<<>>) = 0
    BY SMTT(30)
  <1> QED
    BY <1>1, <1>2, <1>3 DEF AuditInit, AuditInv, AuditTypeOK, Ring

LEMMA StampStep ==
  ASSUME AuditInv, NEW w \in Writers, Stamp(w)
  PROVE  AuditInv'
  <1>1. PICK t \in {now, now + 1} \ {0} : pending' = [pending EXCEPT ![w] = [time |-> t, id |-> now + 1]]
    BY DEF Stamp
  <1>2. now + 1 \in 0..MaxEvents /\ t \in 0..MaxEvents
    BY AuditAssumption, SMTT(30) DEF Stamp, AuditInv, AuditTypeOK
  <1>3. [time |-> t, id |-> now + 1] \in Events
    BY <1>2 DEF Events
  <1>4. pending' \in [Writers -> Events]
    BY <1>1, <1>3 DEF AuditInv, AuditTypeOK
  <1>5. Ring'
    BY DEF Stamp, AuditInv, Ring, Origin
  <1> QED
    BY <1>2, <1>4, <1>5 DEF Stamp, AuditInv, AuditTypeOK

(* The slot after wcursor, without the modulus. *)
LEMMA Slots ==
  ASSUME AuditTypeOK
  PROVE  /\ NextSlot = IF wcursor = Capacity - 1 THEN 0 ELSE wcursor + 1
         /\ Fills <=> wcursor = Capacity - 1
  <1>1. wcursor \in 0..(Capacity - 1) /\ Capacity \in Nat \ {0}
    BY AuditAssumption DEF AuditTypeOK
  <1>2. CASE wcursor = Capacity - 1
    <2>1. wcursor + 1 \in Capacity..(2 * Capacity - 1) /\ wcursor + 1 - Capacity = 0
      BY <1>1, <1>2, SMTT(30)
    <2>2. (wcursor + 1) % Capacity = wcursor + 1 - Capacity
      BY <1>1, <2>1, SMTT(30)
    <2> QED
      BY <1>2, <2>1, <2>2 DEF NextSlot, Fills
  <1>3. CASE wcursor # Capacity - 1
    <2>1. wcursor + 1 \in 0..(Capacity - 1) /\ wcursor + 1 # 0
      BY <1>1, <1>3, SMTT(30)
    <2>2. (wcursor + 1) % Capacity = wcursor + 1
      BY <1>1, <2>1, SMTT(30)
    <2> QED
      BY <1>3, <2>1, <2>2 DEF NextSlot, Fills
  <1> QED
    BY <1>2, <1>3

LEMMA AppendStep ==
  ASSUME AuditInv, NEW w \in Writers, AppendEvent(w)
  PROVE  AuditInv'
  <1> DEFINE e == pending[w]
  <1>1. /\ wcursor \in 0..(Capacity - 1) /\ Capacity \in Nat \ {0} /\ full \in BOOLEAN
        /\ buf \in [0..(Capacity - 1) -> Events] /\ logged \in Seq(Events) /\ e \in Events
    BY AuditAssumption DEF AuditInv, AuditTypeOK
  <1>2. /\ buf' = [buf EXCEPT ![wcursor] = e] /\ logged' = Append(logged, e)
        /\ full' = (full \/ wcursor = Capacity - 1)
        /\ wcursor' = IF wcursor = Capacity - 1 THEN 0 ELSE wcursor + 1
    BY Slots DEF AppendEvent, AuditInv
  <1> HIDE DEF e
  <1>3. /\ Len(logged) \in Nat /\ Len(logged') = Len(logged) + 1 /\ logged' \in Seq(Events)
        /\ logged'[Len(logged) + 1] = e
        /\ \A i \in 1..Len(logged) : logged'[i] = logged[i]
    BY <1>1, <1>2, SMTT(30)
  <1>4. AuditTypeOK'
    <2>1. NoEvent \in Events
      BY AuditAssumption, SMTT(30) DEF NoEvent, Events
    <2>2. wcursor' \in 0..(Capacity - 1)
      BY <1>1, <1>2, SMTT(30)
    <2> QED
      BY <1>1, <1>2, <1>3, <2>1, <2>2 DEF AppendEvent, AuditInv, AuditTypeOK
  <1>5. buf'[wcursor] = e /\ \A j \in 0..(Capacity - 1) : j # wcursor => buf'[j] = buf[j]
    BY <1>1, <1>2
  <1>6. CASE ~full'
    <2>1. ~full /\ wcursor # Capacity - 1 /\ wcursor' = wcursor + 1
      BY <1>2, <1>6
    <2>2. Len(logged) = wcursor /\ \A i \in 1..wcursor : buf[i - 1] = logged[i]
      BY <2>1 DEF AuditInv, Ring
    <2>3. ASSUME NEW i \in 1..(wcursor + 1) PROVE buf'[i - 1] = logged'[i]
      <3>1. CASE i = wcursor + 1
        BY <1>1, <1>3, <1>5, <2>2, <3>1, SMTT(30)
      <3>2. CASE i # wcursor + 1
        <4>1. i \in 1..wcursor /\ i - 1 \in 0..(Capacity - 1) /\ i - 1 # wcursor
          BY <1>1, <3>2, SMTT(30)
        <4> QED
          BY <1>3, <1>5, <2>2, <4>1
      <3> QED
        BY <3>1, <3>2
    <2> QED
      BY <1>3, <1>4, <1>6, <2>1, <2>2, <2>3 DEF AuditInv, Ring
  <1>7. CASE full'
    <2> DEFINE o(j) == IF j < wcursor' THEN Len(logged') - wcursor' + j + 1
                                      ELSE Len(logged') - wcursor' - Capacity + j + 1
    <2>1. Len(logged) >= Capacity - 1 /\ Len(logged') >= Capacity
      BY <1>1, <1>2, <1>3, <1>7, SMTT(30) DEF AuditInv, Ring
    <2>2. ASSUME NEW j \in 0..(Capacity - 1) PROVE buf'[j] = logged'[o(j)]
      <3>1. CASE j = wcursor
        <4>1. o(j) = Len(logged) + 1
          BY <1>1, <1>2, <1>3, <3>1, SMTT(30)
        <4> QED
          BY <1>3, <1>5, <3>1, <4>1
      <3>2. CASE j # wcursor
        <4>1. buf'[j] = buf[j]
          BY <1>5, <3>2
        <4>2. CASE full
          <5>1. buf[j] = logged[Origin(j)] /\ Len(logged) >= Capacity
            BY <4>2 DEF AuditInv, Ring
          <5>2. o(j) = Origin(j)
            <6>1. CASE wcursor = Capacity - 1
              BY <1>1, <1>2, <1>3, <3>2, <6>1, SMTT(30) DEF Origin
            <6>2. CASE wcursor # Capacity - 1
              BY <1>1, <1>2, <1>3, <3>2, <6>2, SMTT(30) DEF Origin
            <6> QED
              BY <6>1, <6>2
          <5>3. Origin(j) \in 1..Len(logged)
            BY <1>1, <1>3, <5>1, SMTT(30) DEF Origin
          <5> QED
            BY <1>3, <4>1, <5>1, <5>2, <5>3
        <4>3. CASE ~full
          <5>1. wcursor = Capacity - 1 /\ wcursor' = 0 /\ Len(logged) = wcursor
            BY <1>2, <1>7, <4>3 DEF AuditInv, Ring
          <5>2. o(j) = j + 1 /\ j + 1 \in 1..wcursor /\ (j + 1) - 1 = j
            BY <1>1, <1>3, <3>2, <5>1, SMTT(30)
          <5>3. buf[j] = logged[j + 1]
            BY <4>3, <5>2 DEF AuditInv, Ring
          <5> QED
            BY <1>3, <4>1, <5>1, <5>2, <5>3
        <4> QED
          BY <1>1, <4>2, <4>3
      <3> QED
        BY <3>1, <3>2
    <2> QED
      BY <1>4, <1>7, <2>1, <2>2 DEF AuditInv, Ring, Origin
  <1> QED
    BY <1>6, <1>7

LEMMA AuditInvariance == AuditInv /\ [AuditNext]_avars => AuditInv'
  <1> SUFFICES ASSUME AuditInv, [AuditNext]_avars PROVE AuditInv'
    OBVIOUS
  <1>1. ASSUME NEW w \in Writers, Stamp(w) PROVE AuditInv'
    BY <1>1, StampStep
  <1>2. ASSUME NEW w \in Writers, AppendEvent(w) PROVE AuditInv'
    BY <1>2, AppendStep
  <1>3. CASE flushAuditLog
    BY <1>3 DEF flushAuditLog, AuditInv, AuditTypeOK, Ring, Origin
  <1>4. CASE UNCHANGED avars
    BY <1>4 DEF avars, AuditInv, AuditTypeOK, Ring, Origin
  <1> QED
    BY <1>1, <1>2, <1>3, <1>4 DEF AuditNext

(* Read from the oldest slot on, the ring is the end of the history. *)
LEMMA RingIsLatest == AuditInv => RingKeepsLatest
  <1> SUFFICES ASSUME AuditInv PROVE Stored = LastOf(logged, Capacity)
    BY DEF RingKeepsLatest
  <1>1. /\ wcursor \in 0..(Capacity - 1) /\ Capacity \in Nat \ {0} /\ full \in BOOLEAN
        /\ Len(logged) \in Nat
    <2>1. logged \in Seq(Events) => Len(logged) \in Nat
      BY SMTT(30)
    <2> QED
      BY <2>1, AuditAssumption DEF AuditInv, AuditTypeOK
  <1> DEFINE skip == IF Len(logged) > Capacity THEN Len(logged) - Capacity ELSE 0
  <1>2. LastOf(logged, Capacity) = [i \in 1..(Len(logged) - skip) |-> logged[skip + i]]
    BY DEF LastOf
  <1>3. CASE ~full
    <2>1. Len(logged) = wcursor /\ \A i \in 1..wcursor : buf[i - 1] = logged[i]
      BY <1>3 DEF AuditInv, Ring
    <2>2. skip = 0 /\ Len(logged) - skip = wcursor /\ \A i \in 1..wcursor : skip + i = i
      BY <1>1, <2>1, SMTT(30)
    <2> QED
      BY <1>2, <1>3, <2>1, <2>2 DEF Stored
  <1>4. CASE full
    <2>1. Len(logged) >= Capacity /\ \A j \in 0..(Capacity - 1) : buf[j] = logged[Origin(j)]
      BY <1>4 DEF AuditInv, Ring
    <2>2. skip = Len(logged) - Capacity /\ Len(logged) - skip = Capacity
      BY <1>1, <2>1, SMTT(30)
    <2> HIDE DEF skip
    <2>3. ASSUME NEW i \in 1..Capacity
          PROVE  buf[(wcursor + i - 1) % Capacity] = logged[skip + i]
      <3>1. CASE wcursor + i - 1 < Capacity
        <4>1. wcursor + i - 1 \in 0..(Capacity - 1)
          BY <1>1, <3>1, SMTT(30)
        <4>2. (wcursor + i - 1) % Capacity = wcursor + i - 1
          BY <1>1, <4>1, SMTT(30)
        <4>3. Origin(wcursor + i - 1) = skip + i
          BY <1>1, <2>2, SMTT(30) DEF Origin
        <4> QED
          BY <2>1, <4>1, <4>2, <4>3
      <3>2. CASE ~(wcursor + i - 1 < Capacity)
        <4>1. /\ wcursor + i - 1 \in Capacity..(2 * Capacity - 1)
              /\ wcursor + i - 1 - Capacity \in 0..(Capacity - 1)
          BY <1>1, <3>2, SMTT(30)
        <4>2. (wcursor + i - 1) % Capacity = wcursor + i - 1 - Capacity
          BY <1>1, <4>1, SMTT(30)
        <4>3. Origin(wcursor + i - 1 - Capacity) = skip + i
          BY <1>1, <2>2, SMTT(30) DEF Origin
        <4> QED
          BY <2>1, <4>1, <4>2, <4>3
      <3> QED
        BY <3>1, <3>2
    <2> QED
      BY <1>2, <1>4, <2>2, <2>3 DEF Stored
  <1> QED
    BY <1>1, <1>3, <1>4

(* What Query returns: the first m of the n hits by their times. *)
LEMMA QueryShape ==
  ASSUME NEW since, NEW until, NEW limit \in Nat, NEW q \in Query(since, until, limit)
  PROVE  \E n \in 0..Capacity : \E f \in Sorted(Hits(since, until), n) : \E m \in 0..n :
           (limit = 0 => m = n) /\ q = [k \in 1..m |-> Stored[f[k]]]
  <1> DEFINE cut(n) == IF limit > 0 /\ n > limit THEN limit ELSE n
             R(n) == {[k \in 1..cut(n) |-> Stored[f[k]]] : f \in Sorted(Hits(since, until), n)}
  <1>1. PICK n \in 0..Capacity : q \in R(n)
    BY DEF Query
  <1>2. PICK f \in Sorted(Hits(since, until), n) : q = [k \in 1..cut(n) |-> Stored[f[k]]]
    BY <1>1
  <1>3. cut(n) \in 0..n /\ (limit = 0 => cut(n) = n)
    BY AuditAssumption, SMTT(30)
  <1> QED
    BY <1>2, <1>3

LEMMA QuerySorted ==
  ASSUME RingKeepsLatest, NEW since, NEW until, NEW limit \in Nat,
         NEW q \in Query(since, until, limit)
  PROVE  /\ \A i, j \in DOMAIN q : i < j => q[i].time <= q[j].time
         /\ limit = 0 => Elements(q) = {e \in Elements(LastOf(logged, Capacity)) : matches(e, since, until)}
         /\ limit > 0 => \A e \in Elements(Stored) \ Elements(q) :
                           matches(e, since, until) => \A i \in DOMAIN q : q[i].time <= e.time
  <1> DEFINE hits == Hits(since, until)
  <1>0. PICK n \in 0..Capacity : \E f \in Sorted(hits, n) :
          \E m \in 0..n : (limit = 0 => m = n) /\ q = [k \in 1..m |-> Stored[f[k]]]
    BY QueryShape, SMTT(30)
  <1>1. PICK f \in Sorted(hits, n) :
          \E m \in 0..n : (limit = 0 => m = n) /\ q = [k \in 1..m |-> Stored[f[k]]]
    BY <1>0
  <1>2. PICK m \in 0..n : (limit = 0 => m = n) /\ q = [k \in 1..m |-> Stored[f[k]]]
    BY <1>1
  <1>3. /\ f \in [1..n -> hits] /\ \A i \in hits : \E k \in 1..n : f[k] = i
        /\ \A k, l \in 1..n : k < l => Stored[f[k]].time <= Stored[f[l]].time
    BY DEF Sorted
  <1>4. \A k \in 1..m : k \in 1..n
    BY <1>1, AuditAssumption, SMTT(30)
  <1>5. DOMAIN q = 1..m /\ \A k \in 1..m : q[k] = Stored[f[k]]
    BY <1>2
  <1>6. \A e : e \in Elements(Stored) /\ matches(e, since, until) => \E k \in 1..n : Stored[f[k]] = e
    <2> TAKE e
    <2> HAVE e \in Elements(Stored) /\ matches(e, since, until)
    <2>1. PICK i \in DOMAIN Stored : e = Stored[i]
      BY DEF Elements
    <2>2. i \in hits
      BY <2>1 DEF Hits
    <2> QED
      BY <1>3, <2>1, <2>2
  <1>7. \A k \in 1..n : Stored[f[k]] \in Elements(Stored) /\ matches(Stored[f[k]], since, until)
    BY <1>3 DEF Elements, Hits
  <1>8. ASSUME limit = 0
        PROVE  Elements(q) = {e \in Elements(LastOf(logged, Capacity)) : matches(e, since, until)}
    <2>1. Elements(q) = {e \in Elements(Stored) : matches(e, since, until)}
      BY <1>2, <1>5, <1>6, <1>7, <1>8 DEF Elements
    <2> QED
      BY <2>1 DEF RingKeepsLatest
  <1>9. ASSUME NEW e \in Elements(Stored) \ Elements(q), matches(e, since, until), NEW i \in DOMAIN q
        PROVE  q[i].time <= e.time
    <2>1. PICK k \in 1..n : Stored[f[k]] = e
      BY <1>6, <1>9
    <2>2. k \notin 1..m
      BY <1>5, <1>9, <2>1 DEF Elements
    <2>3. i < k
      BY <1>1, <1>5, <2>2, AuditAssumption, SMTT(30)
    <2> QED
      BY <1>3, <1>4, <1>5, <2>1, <2>3
  <1>10. \A i, j \in DOMAIN q : i < j => q[i].time <= q[j].time
    <2> SUFFICES ASSUME NEW i \in DOMAIN q, NEW j \in DOMAIN q, i < j PROVE q[i].time <= q[j].time
      OBVIOUS
    <2>1. i \in 1..n /\ j \in 1..n /\ q[i] = Stored[f[i]] /\ q[j] = Stored[f[j]]
      BY <1>4, <1>5
    <2> QED
      BY <1>3, <2>1
  <1> QED
    BY <1>8, <1>9, <1>10

(* For any capacity and any number of writers: the ring holds exactly the  *)
(* last events that AuditLog.Append took, before and after it wraps, and   *)
(* AuditLog.Query returns those of its range oldest first, a limit cutting *)
(* the newest, although events may enter the ring out of their times.      *)
THEOREM AuditStaysSafe == AuditSpec => []AuditSafe
  <1>1. AuditSpec => []AuditInv
    BY AuditInitInv, AuditInvariance, PTL DEF AuditSpec
  <1>2. AuditInv => AuditSafe
    <2> SUFFICES ASSUME AuditInv PROVE QueryInOrder
      BY RingIsLatest DEF AuditSafe, AuditInv
    <2>1. \A limit \in 0..Capacity : limit \in Nat
      BY AuditAssumption, SMTT(30)
    <2> QED
      BY <2>1, RingIsLatest, QuerySorted DEF QueryInOrder
  <1> QED
    BY <1>1, <1>2, PTL

-----------------------------------------------------------------------------
(* The ingress (module Ingress). *)

Bounded == time \in 0..MaxTime /\ requests \in 0..MaxRequests /\ updates \in 0..MaxUpdates

(* A request past the lookup has a route of a protocol its handler accepts. *)
RequestInv ==
  /\ cpc \in [Conns -> {"idle", "found", "checked", "accepted", "bridge", "closing"}]
  /\ cKind \in [Conns -> {"http", "websocket"}] /\ cRoute \in [Conns -> AllRoutes \cup {NoRoute}]
  /\ ends \in [Conns -> SUBSET Sides] /\ copiers \in [Conns -> SUBSET Ways]
  /\ \A c \in Conns : cpc[c] # "idle" => cRoute[c] # NoRoute /\ cRoute[c].protocol \in Accepts(cKind[c])

(* A flow goes to the target in its key and was last seen after it began. *)
FlowOK(flow, key) ==
  /\ flow.target = key[3]
  /\ flow.createdAt \in 0..time /\ flow.lastSeen \in flow.createdAt..time
FlowsInv ==
  /\ \A k \in DOMAIN flowTable : FlowOK(flowTable[k], k)
  /\ FlowNamesTarget

RegistryInv ==
  /\ routes \in RouteLists /\ NewSnapshot(routes)
  /\ verdict \in [Hosts -> {"unknown", "up", "down"}]

IngressInv == Bounded /\ RequestInv /\ FlowsInv /\ RegistryInv

(* A route that a lookup finds is one of the routes and has that hostname. *)
LEMMA LookupFinds ==
  ASSUME RegistryInv, NEW h, NEW r \in Lookup(h)
  PROVE  r \in AllRoutes /\ r.hostname = h
  BY DEF Lookup, RegistryInv, AllRoutes

(* The mark of no route has a protocol that no handler accepts. *)
LEMMA NoRouteRefused ==
  ASSUME NEW r, NEW how, r.protocol \in Accepts(how)
  PROVE  r # NoRoute
<1>1. NoRoute.protocol = "none"
  BY SMTT(30) DEF NoRoute
<1>2. "none" \notin Accepts(how)
  BY DEF Accepts
<1> QED BY <1>1, <1>2

(* The step of a handler that returns. *)
LEMMA ReturnKeeps ==
  ASSUME RequestInv, NEW c \in Conns, Returns(c)
  PROVE  RequestInv'
<1>1. /\ cpc' = [cpc EXCEPT ![c] = "idle"] /\ cKind' = [cKind EXCEPT ![c] = "http"]
      /\ cRoute' = [cRoute EXCEPT ![c] = NoRoute]
      /\ ends' = [ends EXCEPT ![c] = {}] /\ copiers' = [copiers EXCEPT ![c] = {}]
  BY DEF Returns, Goes
<1> QED
  BY <1>1 DEF RequestInv

(* The step of a handler that stays with its request. *)
LEMMA StayKeeps ==
  ASSUME RequestInv, NEW c \in Conns,
         NEW to \in {"checked", "accepted", "bridge", "closing"}, cpc[c] # "idle",
         cpc' = [cpc EXCEPT ![c] = to], UNCHANGED <<cKind, cRoute>>,
         ends' \in [Conns -> SUBSET Sides], copiers' \in [Conns -> SUBSET Ways]
  PROVE  RequestInv'
  BY DEF RequestInv

(* A request comes in. *)
LEMMA ServeKeeps ==
  ASSUME IngressInv, NEW c \in Conns, NEW how \in {"http", "websocket"}, NEW host, ServeHTTP(c, how, host)
  PROVE  RequestInv'
<1>1. CASE UNCHANGED conns
  BY <1>1 DEF IngressInv, RequestInv, conns
<1>2. CASE ~UNCHANGED conns
  <2>1. PICK r \in Lookup(host) :
          /\ r.protocol \in Accepts(how)
          /\ cpc' = [cpc EXCEPT ![c] = "found"]
          /\ cKind' = [cKind EXCEPT ![c] = how] /\ cRoute' = [cRoute EXCEPT ![c] = r]
          /\ UNCHANGED <<ends, copiers>>
    BY <1>2 DEF ServeHTTP, Goes
  <2>2. r \in AllRoutes /\ r # NoRoute
    BY <2>1, LookupFinds, NoRouteRefused DEF IngressInv
  <2> QED BY <2>1, <2>2 DEF IngressInv, RequestInv
<1> QED BY <1>1, <1>2

(* The steps of a handler and of the peers of a bridge. *)
LEMMA HandlerKeeps ==
  ASSUME RequestInv, NEW c \in Conns,
         \/ handler(c)
         \/ \E side \in Sides : peerCloses(c, side)
         \/ \E way \in Ways : copyWriteFails(c, way)
  PROVE  RequestInv'
<1>0. ends \in [Conns -> SUBSET Sides] /\ copiers \in [Conns -> SUBSET Ways] /\ cRoute \in [Conns -> AllRoutes \cup {NoRoute}]
  BY DEF RequestInv
<1>1. CASE checkHealth(c)
  <2>1. [cRoute EXCEPT ![c] = cRoute[c]] = cRoute
    BY <1>0
  <2>2. CASE Returns(c)
    BY <2>2, ReturnKeeps
  <2>3. CASE ~Returns(c)
    BY <1>0, <1>1, <2>1, <2>3, StayKeeps DEF checkHealth, RouteOf, Goes
  <2> QED BY <2>2, <2>3
<1>2. CASE proxyServe(c) \/ wsGone(c)
  BY <1>2, ReturnKeeps DEF proxyServe, wsGone
<1>3. CASE wsAccept(c)
  BY <1>0, <1>3, ReturnKeeps, StayKeeps DEF wsAccept, Goes
<1>4. CASE wsDial(c)
  <2>1. CASE Returns(c)
    BY <2>1, ReturnKeeps
  <2>2. CASE ~Returns(c)
    <3>1. /\ cpc[c] = "accepted" /\ cpc' = [cpc EXCEPT ![c] = "bridge"] /\ UNCHANGED <<cKind, cRoute>>
          /\ ends' = [ends EXCEPT ![c] = Sides] /\ copiers' = [copiers EXCEPT ![c] = Ways]
      BY <1>4, <2>2 DEF wsDial, Goes
    <3>2. ends' \in [Conns -> SUBSET Sides] /\ copiers' \in [Conns -> SUBSET Ways]
      BY <1>0, <3>1
    <3> QED BY <3>1, <3>2, StayKeeps
  <2> QED BY <2>1, <2>2
<1>5. CASE \E side \in Sides : peerCloses(c, side)
  <2>1. ends' \in [Conns -> SUBSET Sides] /\ UNCHANGED <<cpc, cKind, cRoute, copiers>>
    BY <1>0, <1>5 DEF peerCloses
  <2> QED BY <2>1 DEF RequestInv
<1>6. CASE \E way \in Ways : copyWebSocket(c, way) \/ copyWriteFails(c, way)
  <2>1. copiers' \in [Conns -> SUBSET Ways] /\ UNCHANGED <<cpc, cKind, cRoute, ends>>
    BY <1>0, <1>6 DEF copyWebSocket, copyWriteFails
  <2> QED BY <2>1 DEF RequestInv
<1>7. CASE wsReturn(c)
  <2>1. ends' \in [Conns -> SUBSET Sides]
    BY <1>0, <1>7 DEF wsReturn
  <2> QED BY <1>0, <1>7, <2>1, StayKeeps DEF wsReturn, Goes
<1> QED
  BY <1>1, <1>2, <1>3, <1>4, <1>5, <1>6, <1>7 DEF handler

(* A packet: its flow is made or refreshed, and goes to its target. *)
LEMMA ForwardKeeps ==
  ASSUME IngressInv, NEW a, NEW host, Forward(a, host)
  PROVE  FlowsInv'
<1>0. UNCHANGED time /\ FlowsInv /\ time \in Nat
  BY SMTT(30) DEF Forward, IngressInv, Bounded
<1>1. CASE UNCHANGED udp
  BY <1>0, <1>1 DEF FlowsInv, FlowOK, FlowNamesTarget, udp
<1>2. CASE ~UNCHANGED udp
  <2>1. PICK r \in Lookup(host) :
          /\ flowTable' = [k \in DOMAIN flowTable \cup {udpFlowKey(a, r)} |->
               IF k = udpFlowKey(a, r) THEN Resolve(a, r) ELSE flowTable[k]]
          /\ \/ sent' = {[to |-> r.target, flow |-> Resolve(a, r).target]}
             \/ sent' = {}
    BY <1>2 DEF Forward
  <2> DEFINE key == udpFlowKey(a, r)
             flow == Resolve(a, r)
  <2>2. key[3] = r.target
    BY SMTT(30) DEF udpFlowKey
  <2>3. FlowOK(flow, key)
    <3>1. CASE key \in DOMAIN flowTable
      <4>1. FlowOK(flowTable[key], key)
        BY <1>0, <3>1 DEF FlowsInv
      <4>2. flow = [target |-> flowTable[key].target, lastSeen |-> time, createdAt |-> flowTable[key].createdAt]
        BY <3>1 DEF Resolve
      <4> HIDE DEF flow, key
      <4>3. flow.target = flowTable[key].target /\ flow.lastSeen = time /\ flow.createdAt = flowTable[key].createdAt
        BY <4>2, SMTT(30)
      <4>4. time \in flowTable[key].createdAt..time
        BY <1>0, <4>1, SMTT(30) DEF FlowOK
      <4> QED BY <4>1, <4>3, <4>4 DEF FlowOK
    <3>2. CASE key \notin DOMAIN flowTable
      <4>1. flow = [target |-> r.target, lastSeen |-> time, createdAt |-> time]
        BY <3>2 DEF Resolve
      <4> HIDE DEF flow, key
      <4>2. flow.target = r.target /\ flow.lastSeen = time /\ flow.createdAt = time
        BY <4>1, SMTT(30)
      <4>3. time \in 0..time /\ time \in time..time
        BY <1>0, SMTT(30)
      <4> QED BY <2>2, <4>2, <4>3 DEF FlowOK
    <3> QED BY <3>1, <3>2
  <2> HIDE DEF key, flow
  <2>4. \A k \in DOMAIN flowTable' : FlowOK(flowTable'[k], k)
    BY <1>0, <2>1, <2>3 DEF FlowsInv, key, flow
  <2>5. FlowNamesTarget'
    <3>1. flow.target = r.target
      BY <2>2, <2>3 DEF FlowOK
    <3>2. \A p \in {[to |-> r.target, flow |-> flow.target]} : p.to = p.flow
      BY <3>1, SMTT(30)
    <3> QED BY <2>1, <3>2 DEF FlowNamesTarget, flow
  <2> QED BY <1>0, <2>4, <2>5 DEF FlowsInv, FlowOK
<1> QED BY <1>1, <1>2

(* Flows that stay keep what is known of them while time passes. *)
LEMMA FlowsKeep ==
  ASSUME IngressInv, DOMAIN flowTable' \subseteq DOMAIN flowTable,
         \A k \in DOMAIN flowTable' : flowTable'[k] = flowTable[k],
         UNCHANGED sent, UNCHANGED time \/ time' = time + 1
  PROVE  FlowsInv'
<1>1. \A k \in DOMAIN flowTable' : FlowOK(flowTable[k], k)
  BY DEF IngressInv, FlowsInv
<1>2. \A x \in 0..time : x \in 0..time' /\ x..time \subseteq x..time'
  BY SMTT(30) DEF IngressInv, Bounded
<1>3. \A k \in DOMAIN flowTable' : FlowOK(flowTable[k], k)'
  BY <1>1, <1>2 DEF FlowOK
<1> QED
  BY <1>3 DEF IngressInv, FlowsInv, FlowNamesTarget

(* Every step keeps the registry and the tracker in order. *)
LEMMA RegistryKeeps ==
  ASSUME RegistryInv,
         \/ UNCHANGED <<routes, verdict>> \/ \E r \in {"up", "down"} : Set(r)
         \/ \E l \in RouteLists : Replace(l)
  PROVE  RegistryInv'
<1>1. CASE \E r \in {"up", "down"} : Set(r)
  BY <1>1 DEF RegistryInv, Set
<1>2. CASE \E l \in RouteLists : Replace(l)
  <2>1. PICK l \in RouteLists : Replace(l)
    BY <1>2
  <2>2. UNCHANGED verdict /\ routes' = IF NewSnapshot(l) THEN l ELSE routes
    BY <2>1 DEF Replace
  <2> QED BY <2>2 DEF RegistryInv
<1>3. CASE UNCHANGED <<routes, verdict>>
  BY <1>3 DEF RegistryInv
<1> QED BY <1>1, <1>2, <1>3

(* What every step of the ingress is, by the variables it touches. *)
LEMMA IngressSteps ==
  ASSUME IngressInv, IngressNext
  PROVE  IngressInv' /\ KeepsActiveFlows
<1> USE DEF rest, bounds, conns, udp
<1>0. RequestInv /\ FlowsInv /\ RegistryInv /\ Bounded
  BY DEF IngressInv
<1>1. ASSUME NEW c \in Conns, NEW how \in {"http", "websocket"}, NEW h, ServeHTTP(c, how, h)
      PROVE  IngressInv' /\ KeepsActiveFlows
  <2>1. Bounded'
    BY <1>0, <1>1, IngressAssumption, SMTT(30) DEF Bounded, ServeHTTP
  <2>2. UNCHANGED <<routes, verdict, walk, flowTable, sent, time>>
    BY <1>1 DEF ServeHTTP
  <2> QED BY <1>0, <1>1, <2>1, <2>2, ServeKeeps, FlowsKeep, RegistryKeeps DEF IngressInv, KeepsActiveFlows
<1>2. ASSUME NEW c \in Conns,
         \/ handler(c)
         \/ \E side \in Sides : peerCloses(c, side)
         \/ \E way \in Ways : copyWriteFails(c, way)
      PROVE  IngressInv' /\ KeepsActiveFlows
  <2>1. UNCHANGED <<routes, verdict, walk, flowTable, sent, time, requests, updates>>
    BY <1>2 DEF handler, checkHealth, proxyServe, wsAccept, wsDial, copyWebSocket, wsReturn, wsGone, peerCloses, copyWriteFails
  <2>2. Bounded' /\ RequestInv'
    BY <1>0, <1>2, <2>1, HandlerKeeps DEF Bounded
  <2> QED BY <1>0, <2>1, <2>2, FlowsKeep, RegistryKeeps DEF IngressInv, KeepsActiveFlows
<1>3. ASSUME NEW a, NEW h, Forward(a, h)
      PROVE  IngressInv' /\ KeepsActiveFlows
  <2>1. Bounded'
    BY <1>0, <1>3, IngressAssumption, SMTT(30) DEF Bounded, Forward
  <2>2. RequestInv' /\ RegistryInv'
    BY <1>0, <1>3 DEF Forward, RequestInv, RegistryInv
  <2>3. DOMAIN flowTable \subseteq DOMAIN flowTable'
    BY <1>3 DEF Forward
  <2> QED BY <1>3, <2>1, <2>2, <2>3, ForwardKeeps DEF IngressInv, KeepsActiveFlows
<1>4. CASE Expire
  <2>1. /\ DOMAIN flowTable' = {j \in DOMAIN flowTable : ~Expired(flowTable[j])}
        /\ \A k \in DOMAIN flowTable' : flowTable'[k] = flowTable[k]
        /\ UNCHANGED <<routes, verdict, walk, cpc, cKind, cRoute, ends, copiers, sent, time, requests, updates>>
    BY <1>4 DEF Expire
  <2>2. KeepsActiveFlows
    BY <2>1 DEF KeepsActiveFlows, Expired
  <2>3. Bounded' /\ RequestInv' /\ RegistryInv'
    BY <1>0, <2>1 DEF Bounded, RequestInv, RegistryInv
  <2> QED BY <2>1, <2>2, <2>3, FlowsKeep DEF IngressInv
<1>5. CASE ProbeOnce \/ (\E r \in {"up", "down"} : Set(r)) \/ (\E l \in RouteLists : Replace(l)) \/ Pass
  <2>1. UNCHANGED <<cpc, cKind, cRoute, ends, copiers, flowTable, sent>>
    BY <1>5 DEF ProbeOnce, Set, Replace, Pass
  <2>2. Bounded'
    BY <1>0, <1>5, IngressAssumption, SMTT(30) DEF Bounded, ProbeOnce, Set, Replace, Pass
  <2>3. RequestInv' /\ KeepsActiveFlows
    BY <1>0, <2>1 DEF RequestInv, KeepsActiveFlows
  <2>4. RegistryInv'
    BY <1>0, <1>5, RegistryKeeps DEF ProbeOnce, Pass
  <2>5. UNCHANGED time \/ time' = time + 1
    BY <1>5 DEF ProbeOnce, Set, Replace, Pass
  <2> QED BY <2>1, <2>2, <2>3, <2>4, <2>5, FlowsKeep DEF IngressInv
<1> QED
  BY <1>1, <1>2, <1>3, <1>4, <1>5 DEF IngressNext

(* However routes are replaced and probes end while requests and packets   *)
(* are on their way (HTTPProxy, WebSocketProxy, UDPForwarder): a hostname  *)
(* has one owner, a request stays with the route and protocol it was       *)
(* checked for, a packet goes where its flow says, and no flow in use      *)
(* expires - for any routes, requests, clients and timeout.                *)
THEOREM ForwardingStaysSafe == IngressSpec => ForwardingSafe
<1>1. IngressInit => IngressInv
  <2> SUFFICES ASSUME IngressInit PROVE IngressInv
    OBVIOUS
  <2>1. Bounded
    BY IngressAssumption, SMTT(30) DEF IngressInit, Bounded
  <2>2. RequestInv
    BY DEF IngressInit, RequestInv
  <2>3. RegistryInv
    BY DEF IngressInit, RegistryInv
  <2>4. DOMAIN flowTable = {}
    BY SMTT(30) DEF IngressInit
  <2>5. FlowsInv
    BY <2>4 DEF IngressInit, FlowsInv, FlowNamesTarget
  <2> QED BY <2>1, <2>2, <2>3, <2>5 DEF IngressInv
<1>2. IngressInv /\ [IngressNext]_ivars => IngressInv' /\ [KeepsActiveFlows]_ivars
  <2>1. ASSUME IngressInv, UNCHANGED ivars PROVE IngressInv'
    BY <2>1 DEF ivars, IngressInv, Bounded, RequestInv, FlowsInv, FlowOK, FlowNamesTarget, RegistryInv
  <2> QED BY <2>1, IngressSteps
<1>3. IngressInv => IngressTypeOK /\ OneOwner /\ ProtocolKept /\ FlowNamesTarget
  <2> SUFFICES ASSUME IngressInv PROVE IngressTypeOK /\ OneOwner /\ ProtocolKept /\ FlowNamesTarget
    OBVIOUS
  <2>1. \A k \in DOMAIN flowTable : flowTable[k].lastSeen \in flowTable[k].createdAt..MaxTime
    BY IngressAssumption, SMTT(30) DEF IngressInv, FlowsInv, FlowOK, Bounded
  <2>2. IngressTypeOK
    BY <2>1 DEF IngressInv, Bounded, RequestInv, RegistryInv, IngressTypeOK
  <2>3. OneOwner
    BY DEF IngressInv, RegistryInv, NewSnapshot, OneOwner, RoutesOf
  <2>4. ProtocolKept /\ FlowNamesTarget
    BY DEF IngressInv, RequestInv, FlowsInv, ProtocolKept
  <2> QED BY <2>2, <2>3, <2>4
<1> QED
  BY <1>1, <1>2, <1>3, PTL DEF IngressSpec, ForwardingSafe, ActiveFlowsKept

-----------------------------------------------------------------------------
(* The upgrade state.  Torn and Nil stand for a file that does not decode   *)
(* and for no file: neither is a decoded state.                             *)

Distinct == Torn \notin States /\ Torn # Nil /\ MaxSaves \in Nat

TypeInv ==
  /\ stateFile \in States \cup {Nil, Torn}
  /\ tmpFile \in States \cup {Nil, Torn}
  /\ upc \in [Ops -> {"idle", "write", "fill", "rename"}]
  /\ plan \in [Ops -> States \cup {Nil}]
  /\ \A o \in Ops : upc[o] # "idle" => plan[o] \in States
  /\ holds \in [Ops -> {"tmp", "state", "none"}]
  /\ saves \in Nat

(* While no two commands overlap, one command alone is under way, and the  *)
(* temporary file is whole when it comes to be renamed.                    *)
WholeInv ==
  ~overlap =>
    /\ stateFile # Torn
    /\ \A o, p \in Ops : upc[o] # "idle" /\ upc[p] # "idle" => o = p
    /\ \A o \in Ops : upc[o] = "fill" => holds[o] = "tmp" /\ tmpFile = Torn
    /\ \A o \in Ops : upc[o] = "rename" => tmpFile # Torn

OwnState(s) == s \in {Nil, Torn} \/ (s.status = "blocked" /\ ~s.paused)

(* On a mesh of this program, every copy of the state is a blocked one.    *)
BlockedInv ==
  ~foreign => OwnState(stateFile) /\ OwnState(tmpFile) /\ \A o \in Ops : OwnState(plan[o])

UpInv == TypeInv /\ WholeInv /\ BlockedInv

-----------------------------------------------------------------------------
(* It holds whatever state file is found. *)
LEMMA UpInitInv ==
  ASSUME Distinct, UpgradeStateInit
  PROVE  UpInv
<1>0. ASSUME NEW s \in Statuses, stateFile = [version |-> 0, status |-> s, paused |-> s = "paused"]
      PROVE  stateFile \in States /\ (~foreign => OwnState(stateFile))
  <2>1. (s = "paused") \in BOOLEAN /\ 0 \in 0 .. MaxSaves
    BY SMTT(30) DEF Distinct
  <2>2. stateFile \in States
    BY <1>0, <2>1 DEF States
  <2>3. ~foreign => stateFile = Nil \/ stateFile.status = "blocked"
    BY DEF UpgradeStateInit
  <2>4. s = "blocked" => ~stateFile.paused
    BY <1>0
  <2> QED BY <1>0, <2>2, <2>3, <2>4 DEF OwnState
<1>1. stateFile \in States \cup {Nil} /\ stateFile # Torn
  BY <1>0 DEF UpgradeStateInit, Distinct
<1>2. TypeInv
  BY <1>1 DEF UpgradeStateInit, TypeInv, Distinct
<1>3. WholeInv
  BY <1>1 DEF UpgradeStateInit, WholeInv
<1>4. ~foreign => OwnState(stateFile)
  BY <1>0 DEF UpgradeStateInit, OwnState
<1>5. BlockedInv
  BY <1>4 DEF UpgradeStateInit, BlockedInv, OwnState
<1> QED BY <1>2, <1>3, <1>5 DEF UpInv

(* A save begins with a state of the right form. *)
LEMMA SaveStep ==
  ASSUME Distinct, UpInv, NEW o \in Ops, NEW s \in States, ~foreign => OwnState(s), Save(o, s)
  PROVE  UpInv'
<1>1. TypeInv'
  BY SMTT(30) DEF UpInv, TypeInv, Save, Goto, Distinct
<1>2. WholeInv'
  <2> SUFFICES ASSUME ~overlap' PROVE WholeInv'
    BY DEF WholeInv
  <2>1. ~overlap /\ \A p \in Ops \ {o} : upc[p] = "idle"
    BY DEF Save
  <2> QED BY <2>1 DEF UpInv, TypeInv, WholeInv, Save, Goto
<1>3. BlockedInv'
  BY DEF UpInv, TypeInv, BlockedInv, Save
<1> QED BY <1>1, <1>2, <1>3 DEF UpInv

(* The three commands: a blocked state is stored only by runUpgradeCommand, *)
(* and pause and resume find none of their own to change.                   *)
LEMMA CommandStep ==
  ASSUME Distinct, UpInv, NEW o \in Ops,
         runUpgradeCommand(o) \/ runUpgradePauseCommand(o) \/ runUpgradeResumeCommand(o)
  PROVE  UpInv'
<1>1. CASE runUpgradeCommand(o)
  <2> DEFINE s == [version |-> saves + 1, status |-> "blocked", paused |-> FALSE]
  <2>1. s \in States
    BY <1>1, SMTT(30) DEF runUpgradeCommand, Save, States, Statuses, UpInv, TypeInv, Distinct
  <2>2. OwnState(s)
    BY DEF OwnState
  <2>3. Save(o, s)
    BY <1>1 DEF runUpgradeCommand
  <2> HIDE DEF s
  <2> QED BY <2>1, <2>2, <2>3, SaveStep
<1>2. CASE runUpgradePauseCommand(o)
  <2> DEFINE s == [stateFile EXCEPT !.paused = TRUE, !.status = "paused"]
  <2>1. foreign /\ stateFile \in States
    BY <1>2 DEF runUpgradePauseCommand, Loaded, UpInv, TypeInv, BlockedInv, OwnState
  <2>2. s \in States
    BY <2>1 DEF States, Statuses
  <2>3. Save(o, s)
    BY <1>2 DEF runUpgradePauseCommand
  <2> HIDE DEF s
  <2> QED BY <2>1, <2>2, <2>3, SaveStep
<1>3. CASE runUpgradeResumeCommand(o)
  <2> DEFINE s == [stateFile EXCEPT !.paused = FALSE, !.status = "running"]
  <2>1. foreign /\ stateFile \in States
    BY <1>3 DEF runUpgradeResumeCommand, Loaded, UpInv, TypeInv, BlockedInv, OwnState
  <2>2. s \in States
    BY <2>1 DEF States, Statuses
  <2>3. Save(o, s)
    BY <1>3 DEF runUpgradeResumeCommand
  <2> HIDE DEF s
  <2> QED BY <2>1, <2>2, <2>3, SaveStep
<1> QED BY <1>1, <1>2, <1>3

(* saveUpgradeState truncates the temporary file. *)
LEMMA OpenStep ==
  ASSUME Distinct, UpInv, NEW o \in Ops, openTmp(o)
  PROVE  UpInv'
<1>1. TypeInv'
  BY DEF UpInv, TypeInv, openTmp, Goto
<1>2. WholeInv'
  BY DEF UpInv, TypeInv, WholeInv, openTmp, Goto
<1>3. BlockedInv'
  BY DEF UpInv, BlockedInv, OwnState, openTmp
<1> QED BY <1>1, <1>2, <1>3 DEF UpInv

(* It fills the file it has opened. *)
LEMMA FillStep ==
  ASSUME Distinct, UpInv, NEW o \in Ops, fillTmp(o)
  PROVE  UpInv'
<1>1. /\ plan[o] \in States /\ upc[o] = "fill" /\ upc' = [upc EXCEPT ![o] = "rename"]
      /\ tmpFile' \in {tmpFile, plan[o], Torn} /\ stateFile' \in {stateFile, plan[o], Torn}
      /\ UNCHANGED <<plan, saves, overlap, foreign, holds>>
  BY DEF UpInv, TypeInv, fillTmp, Goto, Filled
<1>2. TypeInv'
  BY <1>1 DEF UpInv, TypeInv
<1>3. WholeInv'
  <2> SUFFICES ASSUME ~overlap PROVE WholeInv'
    BY <1>1 DEF WholeInv
  <2>1. holds[o] = "tmp" /\ tmpFile = Torn
    BY <1>1 DEF UpInv, WholeInv
  <2>2. tmpFile' = plan[o] /\ stateFile' = stateFile
    BY <2>1 DEF fillTmp, Filled
  <2>3. tmpFile' # Torn
    BY <1>1, <2>2 DEF Distinct
  <2> QED BY <1>1, <2>2, <2>3 DEF UpInv, TypeInv, WholeInv
<1>4. BlockedInv'
  BY <1>1 DEF UpInv, BlockedInv, OwnState
<1> QED BY <1>2, <1>3, <1>4 DEF UpInv

(* It renames it onto the state file. *)
LEMMA RenameStep ==
  ASSUME Distinct, UpInv, NEW o \in Ops, renameTmp(o)
  PROVE  UpInv'
<1>1. /\ upc[o] = "rename" /\ upc' = [upc EXCEPT ![o] = "idle"] /\ tmpFile' = Nil
      /\ stateFile' = (IF tmpFile = Nil THEN stateFile ELSE tmpFile)
      /\ UNCHANGED <<plan, saves, overlap, foreign>>
  BY DEF renameTmp, Goto
<1>2. holds' \in [Ops -> {"tmp", "state", "none"}]
  BY DEF UpInv, TypeInv, renameTmp
<1>3. TypeInv'
  BY <1>1, <1>2 DEF UpInv, TypeInv
<1>4. WholeInv'
  BY <1>1, <1>3 DEF UpInv, TypeInv, WholeInv, Distinct
<1>5. BlockedInv'
  BY <1>1 DEF UpInv, BlockedInv, OwnState
<1> QED BY <1>3, <1>4, <1>5 DEF UpInv

(* A command is killed. *)
LEMMA CrashStep ==
  ASSUME Distinct, UpInv, NEW o \in Ops, upgradeStateCrash(o)
  PROVE  UpInv'
<1>1. TypeInv'
  BY DEF UpInv, TypeInv, upgradeStateCrash, Goto
<1>2. WholeInv'
  BY DEF UpInv, TypeInv, WholeInv, upgradeStateCrash, Goto
<1>3. BlockedInv'
  BY DEF UpInv, BlockedInv, upgradeStateCrash
<1> QED BY <1>1, <1>2, <1>3 DEF UpInv

(* It holds throughout. *)
LEMMA UpInvariance ==
  ASSUME Distinct
  PROVE  UpgradeStateSpec => []UpInv
<1>1. UpgradeStateInit => UpInv
  BY UpInitInv
<1>2. UpInv /\ [UpgradeStateNext]_uvars => UpInv'
  <2> SUFFICES ASSUME UpInv, [UpgradeStateNext]_uvars PROVE UpInv'
    OBVIOUS
  <2>1. CASE UNCHANGED uvars
    BY <2>1 DEF uvars, UpInv, TypeInv, WholeInv, BlockedInv
  <2>2. CASE UpgradeStateNext
    BY <2>2, CommandStep, OpenStep, FillStep, RenameStep, CrashStep DEF UpgradeStateNext
  <2> QED BY <2>1, <2>2
<1> QED BY <1>1, <1>2, PTL DEF UpgradeStateSpec


(* The count of saves keeps its bound, and the two histories are Booleans. *)
Counted == saves \in 0 .. MaxSaves /\ overlap \in BOOLEAN /\ foreign \in BOOLEAN

(* They hold throughout. *)
LEMMA Counting ==
  ASSUME Distinct
  PROVE  UpgradeStateSpec => []Counted
<1>1. UpgradeStateInit => Counted
  <2> SUFFICES ASSUME UpgradeStateInit PROVE Counted
    OBVIOUS
  <2>1. saves \in 0 .. MaxSaves
    BY SMTT(30) DEF UpgradeStateInit, Distinct
  <2>2. overlap \in BOOLEAN
    BY DEF UpgradeStateInit
  <2>3. foreign \in BOOLEAN
    BY DEF UpgradeStateInit
  <2> QED BY <2>1, <2>2, <2>3 DEF Counted
<1>2. Counted /\ [UpgradeStateNext]_uvars => Counted'
  <2> SUFFICES ASSUME Counted, [UpgradeStateNext]_uvars PROVE Counted'
    OBVIOUS
  <2> USE DEF Counted, UpgradeStateNext, uvars, Distinct, runUpgradeCommand,
              runUpgradePauseCommand, runUpgradeResumeCommand, Save, openTmp, fillTmp, renameTmp,
              upgradeStateCrash
  <2>1. saves' \in 0 .. MaxSaves
    BY SMTT(30)
  <2>2. overlap' \in BOOLEAN
    OBVIOUS
  <2>3. foreign' \in BOOLEAN
    OBVIOUS
  <2> QED BY <2>1, <2>2, <2>3
<1> QED BY <1>1, <1>2, PTL DEF UpgradeStateSpec

-----------------------------------------------------------------------------
(* Without overlapping commands no crash tears the state file               *)
(* (saveUpgradeState).                                                      *)
THEOREM UpgradeFileWhole ==
  ASSUME Distinct
  PROVE  UpgradeStateSpec => []StateFileWhole
<1>1. UpInv => StateFileWhole
  BY DEF UpInv, WholeInv, StateFileWhole
<1> QED BY <1>1, UpInvariance, PTL

(* pause and resume never change a state this program wrote, whatever the   *)
(* interleaving and the crashes.                                            *)
THEOREM UpgradeStaysBlocked ==
  ASSUME Distinct
  PROVE  UpgradeStateSpec => []BlockedStays
<1>1. UpInv => BlockedStays
  BY DEF UpInv, BlockedInv, OwnState, BlockedStays
<1> QED BY <1>1, UpInvariance, PTL

(* The upgrade state file survives crashes whole and keeps its verdict, for *)
(* any number of commands and saves.                                        *)
THEOREM StateFileSafety ==
  ASSUME Distinct
  PROVE  UpgradeStateSpec => []StateFileSafe
<1>1. UpInv /\ Counted => UpgradeStateTypeOK
  BY DEF UpInv, TypeInv, Counted, UpgradeStateTypeOK
<1>2. UpgradeStateTypeOK /\ StateFileWhole /\ BlockedStays => StateFileSafe
  BY DEF StateFileSafe
<1> QED BY <1>1, <1>2, UpInvariance, Counting, UpgradeFileWhole, UpgradeStaysBlocked, PTL

-----------------------------------------------------------------------------
(* Backup and restore (module Backup). *)

SoFar == [DirFiles -> 0 .. backupEdits \cup {Missing}]
Restoring == {"extract", "remove", "rename"}

(* A file as a backup copied it: not missing if the backup began with it,  *)
(* no older than that, and the same if nothing changed.                    *)
FaithfulCopy(f) ==
  /\ began[f] # Missing => copied[f] # Missing /\ copied[f] >= began[f]
  /\ quiet => copied[f] = began[f]

(* Versions are those of the edits so far; while a backup runs, the files  *)
(* are no older than when it began and those it passed are copied; a       *)
(* restore runs on an archive that is complete and lies outside, and what  *)
(* it is about to put in place is the archive's.                           *)
BackupInv ==
  /\ BackupTypeOK
  /\ live \in SoFar /\ copied \in SoFar /\ temp \in SoFar /\ began \in SoFar
  /\ ArchiveFaithful
  /\ bpc \in {"copy", "manifest"} =>
       /\ \A f \in DirFiles :
            /\ began[f] = Missing <=> live[f] = Missing
            /\ live[f] # Missing => live[f] >= began[f]
            /\ quiet => live[f] = began[f]
       /\ \A k \in 1 .. 4 : k < item => FaithfulCopy(Items[k])
       /\ archive = "partial"
  /\ bpc = "copy" => item \in 1 .. 4
  /\ bpc = "manifest" => item = 5
  /\ bpc \in Restoring => place = "outside" /\ archive = "complete"
  /\ bpc \in {"remove", "rename"} => \A f \in Dirs[target] : temp[f] = copied[f]
  /\ bpc = "rename" => \A f \in Dirs[target] : live[f] = Missing

(* The files in the order of the walk, and the targets of a restore. *)
LEMMA ItemsAndDirs ==
  /\ Len(Items) = 4 /\ Len(Dirs) = 3
  /\ \A k \in 1 .. 4 : Items[k] \in DirFiles
  /\ \A f \in DirFiles : \E k \in 1 .. 4 : Items[k] = f
  /\ \A i \in 1 .. 3 : Dirs[i] \subseteq DirFiles
  /\ \A i, j \in 1 .. 3 : i # j => Dirs[i] \cap Dirs[j] = {}
<1>1. Items[1] = "ca.crt" /\ Items[2] = "ca.key" /\ Items[3] = "topology" /\ Items[4] = "control-plane"
  BY SMTT(30) DEF Items
<1>2. Dirs[1] = {"ca.crt", "ca.key"} /\ Dirs[2] = {"topology"} /\ Dirs[3] = {"control-plane"}
  BY SMTT(30) DEF Dirs
<1>3. Len(Items) = 4 /\ Len(Dirs) = 3
  BY SMTT(30) DEF Items, Dirs
<1>4. \A k \in 1 .. 4 : k = 1 \/ k = 2 \/ k = 3 \/ k = 4
  BY SMTT(30)
<1>5. \A k \in 1 .. 3 : k = 1 \/ k = 2 \/ k = 3
  BY SMTT(30)
<1>6. 1 \in 1 .. 4 /\ 2 \in 1 .. 4 /\ 3 \in 1 .. 4 /\ 4 \in 1 .. 4
  BY SMTT(30)
<1>7. \A k \in 1 .. 4 : Items[k] \in DirFiles
  BY <1>1, <1>4 DEF DirFiles
<1>8. \A f \in DirFiles : \E k \in 1 .. 4 : Items[k] = f
  BY <1>1, <1>6 DEF DirFiles
<1>9. \A i \in 1 .. 3 : Dirs[i] \subseteq DirFiles
  BY <1>2, <1>5 DEF DirFiles
<1>10. \A i, j \in 1 .. 3 : i # j => Dirs[i] \cap Dirs[j] = {}
  BY <1>2, <1>5
<1> QED
  BY <1>3, <1>7, <1>8, <1>9, <1>10

(* What the step of a backup or a restore must keep of the typing. *)
LEMMA BackupTyping ==
  ASSUME BackupInv, backupEdits' = backupEdits, UNCHANGED place,
         live' \in SoFar, copied' \in SoFar, temp' \in SoFar, began' \in SoFar,
         archive' \in Closed, bpc' \in {"idle", "copy", "manifest"} \cup Restoring,
         item' \in 1 .. 5, target' \in 1 .. 3, quiet' \in BOOLEAN,
         UNCHANGED backupFaults \/ BackupFault
  PROVE  BackupTypeOK' /\ live' \in SoFar' /\ copied' \in SoFar' /\ temp' \in SoFar' /\ began' \in SoFar'
<1>1. backupEdits \in 0 .. MaxArchiveEdits /\ backupFaults \in 0 .. MaxBackupFaults
  BY DEF BackupInv, BackupTypeOK
<1>2. backupFaults' \in 0 .. MaxBackupFaults
  BY <1>1, BackupAssumption, SMTT(30) DEF BackupFault
<1>3. 0 .. backupEdits \subseteq 0 .. MaxArchiveEdits
  BY <1>1, BackupAssumption, SMTT(30)
<1>4. SoFar \subseteq Content /\ SoFar' = SoFar
  BY <1>3 DEF SoFar, Content
<1>5. BackupTypeOK'
  BY <1>1, <1>2, <1>4, ItemsAndDirs, SMTT(30) DEF BackupTypeOK, BackupInv, Restoring
<1> QED BY <1>4, <1>5

(* Another process changes a file: it becomes newer than all there was. *)
LEMMA EditKeeps ==
  ASSUME BackupInv, NEW f \in DirFiles, Edit(f)
  PROVE  BackupInv'
<1>1. /\ backupEdits \in Nat /\ backupEdits < MaxArchiveEdits /\ backupEdits' = backupEdits + 1
      /\ live[f] # Missing /\ live' = [live EXCEPT ![f] = backupEdits'] /\ quiet' = FALSE
      /\ UNCHANGED <<archive, copied, place, bpc, item, target, temp, began, backupFaults>>
  BY BackupAssumption, SMTT(30) DEF Edit, BackupInv, BackupTypeOK
<1>2. /\ 0 .. backupEdits \subseteq 0 .. backupEdits' /\ backupEdits' \in 0 .. backupEdits'
      /\ backupEdits' \in 0 .. MaxArchiveEdits
      /\ 0 .. backupEdits' \subseteq 0 .. MaxArchiveEdits
  BY <1>1, BackupAssumption, SMTT(30)
<1>3. live' \in SoFar' /\ copied' \in SoFar' /\ temp' \in SoFar' /\ began' \in SoFar'
  <2>1. SoFar \subseteq SoFar'
    BY <1>2 DEF SoFar
  <2>2. live \in SoFar /\ copied \in SoFar /\ temp \in SoFar /\ began \in SoFar
    BY DEF BackupInv
  <2>3. live' \in SoFar'
    BY <1>1, <1>2, <2>1, <2>2 DEF SoFar
  <2> QED BY <1>1, <2>1, <2>2, <2>3
<1>4. SoFar' \subseteq Content
  BY <1>2 DEF SoFar, Content
<1>5. BackupTypeOK'
  BY <1>1, <1>2, <1>3, <1>4 DEF BackupTypeOK, BackupInv
<1>6. ArchiveFaithful'
  BY <1>1 DEF ArchiveFaithful, BackupInv
<1>7. \A g \in DirFiles :
        /\ live'[g] = IF g = f THEN backupEdits' ELSE live[g]
        /\ live'[g] = Missing <=> live[g] = Missing
        /\ began[g] # Missing => backupEdits' >= began[g]
  <2> TAKE g \in DirFiles
  <2>1. live'[g] = IF g = f THEN backupEdits' ELSE live[g]
    BY <1>1 DEF BackupInv, SoFar
  <2>2. backupEdits' # Missing
    BY <1>1, BackupAssumption, SMTT(30)
  <2>3. began[g] \in 0 .. backupEdits \cup {Missing}
    BY DEF BackupInv, SoFar
  <2>4. began[g] # Missing => backupEdits' >= began[g]
    BY <1>1, <2>3, SMTT(30)
  <2> QED BY <1>1, <2>1, <2>2, <2>4
<1>8. bpc' \in {"copy", "manifest"} =>
       /\ \A g \in DirFiles :
            /\ began'[g] = Missing <=> live'[g] = Missing
            /\ live'[g] # Missing => live'[g] >= began'[g]
            /\ quiet' => live'[g] = began'[g]
       /\ \A k \in 1 .. 4 : k < item' => FaithfulCopy(Items[k])'
       /\ archive' = "partial"
  <2> SUFFICES ASSUME bpc' \in {"copy", "manifest"}
               PROVE  /\ \A g \in DirFiles :
                           /\ began'[g] = Missing <=> live'[g] = Missing
                           /\ live'[g] # Missing => live'[g] >= began'[g]
                           /\ quiet' => live'[g] = began'[g]
                      /\ \A k \in 1 .. 4 : k < item' => FaithfulCopy(Items[k])'
                      /\ archive' = "partial"
    OBVIOUS
  <2>1. /\ \A g \in DirFiles : /\ began[g] = Missing <=> live[g] = Missing
                               /\ live[g] # Missing => live[g] >= began[g]
        /\ \A k \in 1 .. 4 : k < item => FaithfulCopy(Items[k])
        /\ archive = "partial"
    BY <1>1 DEF BackupInv
  <2>2. \A g \in DirFiles : /\ began[g] = Missing <=> live'[g] = Missing
                            /\ live'[g] # Missing => live'[g] >= began[g]
    BY <1>7, <2>1
  <2>3. \A k \in 1 .. 4 : k < item' => FaithfulCopy(Items[k])'
    BY <1>1, <2>1 DEF FaithfulCopy
  <2>4. began' = began /\ ~quiet' /\ archive' = "partial"
    BY <1>1, <2>1
  <2>5. \A g \in DirFiles : /\ began'[g] = Missing <=> live'[g] = Missing
                            /\ live'[g] # Missing => live'[g] >= began'[g]
                            /\ quiet' => live'[g] = began'[g]
    BY <2>2, <2>4
  <2> QED BY <2>3, <2>4, <2>5
<1>9. target \in 1 .. 3 /\ Dirs[target] \subseteq DirFiles
  BY ItemsAndDirs DEF BackupInv, BackupTypeOK
<1>10. bpc' = "rename" => \A g \in Dirs[target'] : live'[g] = Missing
  BY <1>1, <1>7, <1>9 DEF BackupInv
<1>11. /\ bpc' = "copy" => item' \in 1 .. 4
       /\ bpc' = "manifest" => item' = 5
       /\ bpc' \in Restoring => place' = "outside" /\ archive' = "complete"
       /\ bpc' \in {"remove", "rename"} => \A g \in Dirs[target'] : temp'[g] = copied'[g]
  BY <1>1 DEF BackupInv
<1> QED
  BY <1>3, <1>5, <1>6, <1>8, <1>10, <1>11 DEF BackupInv

(* A backup begins: the files are those it begins with. *)
LEMMA OpenKeeps ==
  ASSUME BackupInv, OpenArchive
  PROVE  BackupInv'
<1> USE DEF OpenArchive
<1>0. live \in SoFar /\ temp \in SoFar
  BY DEF BackupInv
<1>1. NoFiles \in SoFar
  BY DEF NoFiles, SoFar
<1>2. BackupTypeOK' /\ live' \in SoFar' /\ copied' \in SoFar' /\ temp' \in SoFar' /\ began' \in SoFar'
  <2>1. item' \in 1 .. 5 /\ target' \in 1 .. 3
    BY ItemsAndDirs, SMTT(30) DEF BackupInv, BackupTypeOK
  <2> QED
    BY <1>0, <1>1, <2>1, BackupTyping DEF Closed
<1>3. ArchiveFaithful'
  BY DEF ArchiveFaithful
<1>4. \A g \in DirFiles : live'[g] # Missing => live'[g] >= began'[g]
  <2> TAKE g \in DirFiles
  <2>1. live[g] \in 0 .. backupEdits \cup {Missing} /\ backupEdits \in Int
    BY <1>0, SMTT(30) DEF SoFar, BackupInv, BackupTypeOK
  <2> QED BY <2>1, SMTT(30)
<1>5. item' = 1 /\ 1 \in 1 .. 4 /\ \A k \in 1 .. 4 : ~(k < 1)
  BY SMTT(30)
<1> QED
  BY <1>2, <1>3, <1>4, <1>5 DEF BackupInv, Restoring

(* The next file is copied as it is now. *)
LEMMA CopyKeeps ==
  ASSUME BackupInv, addZipFile
  PROVE  BackupInv'
<1>0. PICK f \in DirFiles : f = Items[item]
  BY ItemsAndDirs DEF addZipFile, BackupInv
<1>1. /\ bpc = "copy" /\ copied' = [copied EXCEPT ![f] = live[f]] /\ item' = item + 1
      /\ bpc' = IF item = 4 THEN "manifest" ELSE "copy"
      /\ UNCHANGED <<live, archive, place, target, temp, began, quiet, backupEdits, backupFaults>>
  BY <1>0, ItemsAndDirs DEF addZipFile
<1>2. /\ item \in 1 .. 4 /\ archive = "partial"
      /\ live \in SoFar /\ copied \in SoFar /\ temp \in SoFar /\ began \in SoFar
  BY <1>1 DEF BackupInv
<1>3. copied' \in SoFar
  BY <1>1, <1>2 DEF SoFar
<1>4. /\ item' \in 1 .. 5 /\ (item # 4 => item' \in 1 .. 4) /\ (item = 4 => item' = 5)
      /\ \A k \in 1 .. 4 : k < item' => k < item \/ k = item
  BY <1>1, <1>2, SMTT(30)
<1>5. BackupTypeOK' /\ live' \in SoFar' /\ copied' \in SoFar' /\ temp' \in SoFar' /\ began' \in SoFar'
  <2>1. target' \in 1 .. 3 /\ quiet' \in BOOLEAN /\ archive' \in Closed
    BY <1>1, ItemsAndDirs DEF BackupInv, BackupTypeOK
  <2> QED BY <1>1, <1>2, <1>3, <1>4, <2>1, BackupTyping
<1>6. \A g \in DirFiles : copied'[g] = IF g = f THEN live[g] ELSE copied[g]
  BY <1>1, <1>2 DEF SoFar
<1>7. FaithfulCopy(f)'
  BY <1>1, <1>2, <1>6 DEF BackupInv, FaithfulCopy
<1>8. \A k \in 1 .. 4 : k < item' => FaithfulCopy(Items[k])'
  <2> SUFFICES ASSUME NEW k \in 1 .. 4, k < item' PROVE FaithfulCopy(Items[k])'
    OBVIOUS
  <2>1. CASE Items[k] = f
    BY <1>7, <2>1
  <2>2. CASE Items[k] # f
    <3>1. k < item
      BY <1>0, <1>4, <2>2
    <3>2. FaithfulCopy(Items[k]) /\ Items[k] \in DirFiles
      BY <3>1, <1>1, ItemsAndDirs DEF BackupInv
    <3>3. copied'[Items[k]] = copied[Items[k]]
      BY <3>2, <2>2, <1>6
    <3> QED BY <3>2, <3>3, <1>1 DEF FaithfulCopy
  <2> QED BY <2>1, <2>2
<1>9. ArchiveFaithful'
  BY <1>1, <1>2 DEF ArchiveFaithful
<1> QED
  BY <1>1, <1>2, <1>4, <1>5, <1>8, <1>9 DEF BackupInv, Restoring

(* The manifest is written when every file was copied. *)
LEMMA ManifestKeeps ==
  ASSUME BackupInv, writeBackupManifest
  PROVE  BackupInv'
<1>1. /\ bpc = "manifest" /\ archive' = "complete" /\ bpc' = "idle" /\ item' = 1
      /\ UNCHANGED <<live, copied, place, target, temp, began, quiet, backupEdits, backupFaults>>
  BY DEF writeBackupManifest
<1>2. live \in SoFar /\ copied \in SoFar /\ temp \in SoFar /\ began \in SoFar /\ item = 5
  BY <1>1 DEF BackupInv
<1>3. 1 \in 1 .. 5 /\ \A k \in 1 .. 4 : k < 5
  BY SMTT(30)
<1>4. BackupTypeOK' /\ live' \in SoFar' /\ copied' \in SoFar' /\ temp' \in SoFar' /\ began' \in SoFar'
  <2>1. target' \in 1 .. 3 /\ quiet' \in BOOLEAN /\ archive' \in Closed
    BY <1>1, ItemsAndDirs DEF BackupInv, BackupTypeOK, Closed
  <2> QED BY <1>1, <1>2, <1>3, <2>1, BackupTyping
<1>5. \A f \in DirFiles : FaithfulCopy(f)
  BY <1>1, <1>2, <1>3, ItemsAndDirs DEF BackupInv
<1>6. quiet => copied = began
  <2>1. quiet => \A f \in DirFiles : copied[f] = began[f]
    BY <1>5 DEF FaithfulCopy
  <2> QED BY <1>2, <2>1, SMTT(30) DEF SoFar
<1>7. ArchiveFaithful'
  BY <1>1, <1>5, <1>6 DEF ArchiveFaithful, FaithfulCopy
<1> QED
  BY <1>1, <1>4, <1>7 DEF BackupInv, Restoring

(* A backup that fails leaves an archive without a manifest; a crash or a  *)
(* restore that fails, the archive as it was.                              *)
LEMMA StopKeeps ==
  ASSUME BackupInv, bpc' = "idle", item' \in 1 .. 5, target' \in 1 .. 3, temp' \in SoFar, live' \in SoFar,
         UNCHANGED <<copied, place, began, quiet, backupEdits>>,
         UNCHANGED archive \/ archive' = "no manifest",
         UNCHANGED backupFaults \/ BackupFault
  PROVE  BackupInv'
<1>1. copied \in SoFar /\ began \in SoFar
  BY DEF BackupInv
<1>2. BackupTypeOK' /\ live' \in SoFar' /\ copied' \in SoFar' /\ temp' \in SoFar' /\ began' \in SoFar'
  <2>1. quiet' \in BOOLEAN /\ archive' \in Closed
    BY DEF BackupInv, BackupTypeOK, Closed
  <2> QED BY <1>1, <2>1, BackupTyping
<1>3. ArchiveFaithful'
  BY DEF BackupInv, ArchiveFaithful
<1> QED
  BY <1>2, <1>3 DEF BackupInv, Restoring

(* The commands that stop. *)
LEMMA StopsKeep ==
  ASSUME BackupInv, BackupFails \/ RestoreFails \/ BackupCrash
  PROVE  BackupInv'
<1>1. live \in SoFar /\ temp \in SoFar /\ item \in 1 .. 5 /\ target \in 1 .. 3
  BY ItemsAndDirs, SMTT(30) DEF BackupInv, BackupTypeOK
<1>2. NoFiles \in SoFar /\ 1 \in 1 .. 5 /\ 1 \in 1 .. 3
  BY SMTT(30) DEF NoFiles, SoFar
<1>3. CASE BackupFails
  BY <1>1, <1>2, <1>3, StopKeeps DEF BackupFails
<1>4. CASE BackupCrash
  BY <1>1, <1>2, <1>4, StopKeeps DEF BackupCrash
<1>5. CASE RestoreFails
  <2>1. bpc \in Restoring /\ place = "outside"
    BY <1>5 DEF RestoreFails, Restoring, BackupInv
  <2>2. live' \in SoFar /\ UNCHANGED <<archive, copied>>
    <3>1. CASE bpc = "remove"
      <4>1. PICK fs \in SUBSET Dirs[target] : Removed(fs)
        BY <1>5, <3>1 DEF RestoreFails
      <4> QED BY <4>1, <2>1, <1>1 DEF Removed, SoFar
    <3>2. CASE bpc # "remove"
      BY <1>1, <1>5, <3>2 DEF RestoreFails
    <3> QED BY <3>1, <3>2
  <2> QED BY <1>1, <1>2, <1>5, <2>2, StopKeeps DEF RestoreFails
<1> QED BY <1>3, <1>4, <1>5

(* The steps of a restore up to its end. *)
LEMMA RestoreKeeps ==
  ASSUME BackupInv, StartRestore \/ extractZipFile \/ RemoveAll \/ RenameTemp
  PROVE  BackupInv'
<1>1. /\ live \in SoFar /\ copied \in SoFar /\ temp \in SoFar /\ began \in SoFar
      /\ item \in 1 .. 5 /\ target \in 1 .. 3 /\ quiet \in BOOLEAN /\ archive \in Closed
  BY ItemsAndDirs, SMTT(30) DEF BackupInv, BackupTypeOK
<1>2. NoFiles \in SoFar /\ 1 \in 1 .. 5 /\ 1 \in 1 .. 3
  BY SMTT(30) DEF NoFiles, SoFar
<1>3. CASE StartRestore
  <2>1. BackupTypeOK' /\ live' \in SoFar' /\ copied' \in SoFar' /\ temp' \in SoFar' /\ began' \in SoFar'
    BY <1>1, <1>2, <1>3, BackupTyping DEF StartRestore, Restoring
  <2>2. place = "outside"
    BY <1>3 DEF StartRestore, pathWithinDirectory, BackupInv, BackupTypeOK
  <2> QED
    BY <1>3, <2>1, <2>2 DEF BackupInv, StartRestore, validateBackupArchive, ArchiveFaithful
<1>4. CASE extractZipFile
  <2>1. temp' \in SoFar
    BY <1>1, <1>4 DEF extractZipFile, SoFar
  <2>2. BackupTypeOK' /\ live' \in SoFar' /\ copied' \in SoFar' /\ temp' \in SoFar' /\ began' \in SoFar'
    BY <1>1, <1>4, <2>1, BackupTyping DEF extractZipFile, Restoring
  <2>3. \A f \in Dirs[target] : temp'[f] = copied[f]
    BY <1>1, <1>4, ItemsAndDirs DEF extractZipFile
  <2> QED
    BY <1>4, <2>2, <2>3 DEF BackupInv, extractZipFile, Restoring, ArchiveFaithful
<1>5. CASE RemoveAll
  <2>1. place = "outside" /\ archive = "complete"
    BY <1>5 DEF RemoveAll, BackupInv, Restoring
  <2>2. live' \in SoFar /\ UNCHANGED <<archive, copied>> /\ \A f \in Dirs[target] : live'[f] = Missing
    BY <1>1, <1>5, <2>1, ItemsAndDirs DEF RemoveAll, Removed, SoFar
  <2>3. BackupTypeOK' /\ live' \in SoFar' /\ copied' \in SoFar' /\ temp' \in SoFar' /\ began' \in SoFar'
    BY <1>1, <1>5, <2>2, BackupTyping DEF RemoveAll, Restoring
  <2> QED
    BY <1>5, <2>1, <2>2, <2>3 DEF BackupInv, RemoveAll, Restoring, ArchiveFaithful
<1>6. CASE RenameTemp
  <2>1. live' \in SoFar
    BY <1>1, <1>6 DEF RenameTemp, SoFar
  <2>2. target' \in 1 .. 3 /\ bpc' \in {"idle", "extract"}
    BY <1>1, <1>6, ItemsAndDirs, SMTT(30) DEF RenameTemp
  <2>3. BackupTypeOK' /\ live' \in SoFar' /\ copied' \in SoFar' /\ temp' \in SoFar' /\ began' \in SoFar'
    BY <1>1, <1>2, <1>6, <2>1, <2>2, BackupTyping DEF RenameTemp, Restoring
  <2> QED
    BY <1>6, <2>2, <2>3 DEF BackupInv, RenameTemp, Restoring, ArchiveFaithful
<1> QED BY <1>3, <1>4, <1>5, <1>6

(* No step of a restore, and none beside it, changes its archive. *)
LEMMA ArchiveStays ==
  ASSUME BackupInv, BackupNext
  PROVE  KeepsArchive
<1> SUFFICES ASSUME bpc \in Restoring PROVE UNCHANGED <<archive, copied>>
  BY DEF KeepsArchive, Restoring
<1>1. place = "outside"
  BY DEF BackupInv
<1>2. ASSUME NEW fs, Removed(fs) PROVE UNCHANGED <<archive, copied>>
  BY <1>1, <1>2 DEF Removed
<1>3. CASE RestoreFails
  BY <1>2, <1>3 DEF RestoreFails
<1>4. CASE RemoveAll
  BY <1>2, <1>4 DEF RemoveAll
<1> QED
  BY <1>3, <1>4 DEF BackupNext, Edit, OpenArchive, addZipFile, BackupFails, writeBackupManifest,
    StartRestore, extractZipFile, RenameTemp, BackupCrash, Restoring

(* A step of a restore takes files away, or brings a directory back whole. *)
LEMMA WholeReplaced ==
  ASSUME BackupInv, BackupNext
  PROVE  ReplacesWhole
<1> SUFFICES ASSUME bpc \in Restoring, bpc' # bpc, NEW i \in 1 .. 3
             PROVE  \/ \A f \in Dirs[i] : live'[f] \in {live[f], Missing}
                    \/ \A f \in Dirs[i] : live[f] = Missing /\ live'[f] = copied[f]
  BY DEF ReplacesWhole, Restoring
<1>1. target \in 1 .. 3 /\ Dirs[i] \subseteq DirFiles
  BY ItemsAndDirs DEF BackupInv, BackupTypeOK
<1>2. ASSUME NEW fs, Removed(fs) PROVE \A f \in Dirs[i] : live'[f] \in {live[f], Missing}
  BY <1>1, <1>2 DEF Removed
<1>3. CASE RestoreFails
  BY <1>2, <1>3 DEF RestoreFails
<1>4. CASE RemoveAll
  BY <1>2, <1>4 DEF RemoveAll
<1>5. CASE RenameTemp
  <2>1. CASE i = target
    BY <1>1, <1>5, <2>1 DEF RenameTemp, BackupInv
  <2>2. CASE i # target
    <3>1. \A f \in Dirs[i] : f \notin Dirs[target]
      BY <1>1, <2>2, ItemsAndDirs
    <3> QED BY <1>1, <1>5, <3>1 DEF RenameTemp
  <2> QED BY <2>1, <2>2
<1> QED
  BY <1>3, <1>4, <1>5 DEF BackupNext, Edit, OpenArchive, addZipFile, BackupFails, writeBackupManifest,
    StartRestore, extractZipFile, BackupCrash, Restoring

(* Whatever other processes change while mesh-ctl backup or restore runs,  *)
(* and wherever it fails or dies (runBackupCommand, runRestoreCommand): a  *)
(* complete archive holds what was on disk, a restore never loses its own  *)
(* archive, and it puts a directory back whole - for any number of changes *)
(* and failures.                                                           *)
THEOREM BackupsAreSafe == BackupSpec => BackupSafe
<1>1. BackupInit => BackupInv
  <2> SUFFICES ASSUME BackupInit PROVE BackupInv
    OBVIOUS
  <2>1. /\ 0 \in 0 .. MaxArchiveEdits /\ 0 \in 0 .. MaxBackupFaults /\ 1 \in 1 .. 4 + 1 /\ 1 \in 1 .. 3
        /\ 0 \in 0 .. 0
    BY BackupAssumption, SMTT(30)
  <2>2. live \in SoFar /\ copied \in SoFar /\ temp \in SoFar /\ began \in SoFar
    BY <2>1 DEF BackupInit, SoFar, NoFiles
  <2>3. live \in Content /\ copied \in Content /\ temp \in Content /\ began \in Content
    BY <2>1 DEF BackupInit, Content, NoFiles
  <2>4. BackupTypeOK
    BY <2>1, <2>3, ItemsAndDirs DEF BackupInit, BackupTypeOK, Closed
  <2> QED
    BY <2>2, <2>4 DEF BackupInit, BackupInv, ArchiveFaithful, Restoring
<1>2. BackupInv /\ [BackupNext]_bvars => BackupInv' /\ [KeepsArchive /\ ReplacesWhole]_bvars
  <2>1. ASSUME BackupInv, BackupNext PROVE BackupInv' /\ KeepsArchive /\ ReplacesWhole
    BY <2>1, EditKeeps, OpenKeeps, CopyKeeps, ManifestKeeps, StopsKeep, RestoreKeeps, ArchiveStays, WholeReplaced
      DEF BackupNext
  <2>2. ASSUME BackupInv, UNCHANGED bvars PROVE BackupInv'
    BY <2>2 DEF bvars, BackupInv, BackupTypeOK, SoFar, ArchiveFaithful, FaithfulCopy
  <2> QED BY <2>1, <2>2
<1>3. BackupInv => BackupTypeOK /\ ArchiveFaithful
  BY DEF BackupInv
<1> QED
  BY <1>1, <1>2, <1>3, PTL DEF BackupSpec, BackupSafe, RestoreKeepsArchive, RestoreReplacesWhole


-----------------------------------------------------------------------------
(* The ingress and balancer runtimes.  A Close works through a queue of    *)
(* servers; those it has passed are not left alive, and once it is through *)
(* none is.                                                                *)
Queues == {Off, Order, <<"http3", "metrics">>, <<"metrics">>, <<>>}
Ahead(q) == {q[i] : i \in DOMAIN q}
Closers == {"run", "other"}
NoneLive == \A s \in Servers : srv[s] \notin Live
AllClosed == \A w \in Closers : closer[w] = Off

(* What only a Close brings about: a server shut down, its nil on the      *)
(* channel, the return of Run.                                             *)
SaysNil(q) == \E i \in DOMAIN q : q[i] = "nil"
Touched == runPc = "returned" \/ (\E s \in Servers : srv[s] = "closed") \/ SaysNil(errCh)

ServiceTypes ==
  /\ srv \in [Servers -> {"none", "made", "serving", "closed", "ended"}]
  /\ closer \in [Closers -> Queues]
  /\ errCh \in Seq({"nil", "error"})
  /\ runPc \in {"new", "select", "closing", "returned"}

NotBegun == ~early /\ NoneLive /\ ~Touched
Passed(w) == closer[w] # Off => \A s \in Servers : s \notin Ahead(closer[w]) => srv[s] \notin Live

ServiceInv ==
  /\ ServiceTypes
  /\ runPc = "new" => NotBegun
  /\ closer["run"] # Off => runPc = "closing"
  /\ runPc = "returned" => runCtx = "cancelled"
  /\ ~early /\ runPc # "new" =>
       /\ \A w \in Closers : Passed(w)
       /\ Touched /\ AllClosed => NoneLive /\ ~isStarted

(* A queue gets shorter by its first server, and a new one has them all.   *)
LEMMA QueueStep ==
  ASSUME NEW q \in Queues, q # Off, q # <<>>
  PROVE  /\ Tail(q) \in Queues /\ Tail(q) # Off /\ Head(q) \in Servers
         /\ \A s \in Servers : s \notin Ahead(Tail(q)) => s \notin Ahead(q) \/ s = Head(q)
<1>1. CASE q = Order
  BY <1>1, SMTT(30) DEF Queues, Ahead, Servers, Order, Off
<1>2. CASE q = <<"http3", "metrics">>
  BY <1>2, SMTT(30) DEF Queues, Ahead, Servers, Order, Off
<1>3. CASE q = <<"metrics">>
  BY <1>3, SMTT(30) DEF Queues, Ahead, Servers, Order, Off
<1> QED BY <1>1, <1>2, <1>3 DEF Queues

LEMMA QueueEnds ==
  /\ Order \in Queues /\ Off \in Queues /\ <<>> \in Queues /\ Order # Off /\ <<>> # Off
  /\ \A s \in Servers : s \in Ahead(Order)
  /\ \A s : s \notin Ahead(<<>>)
<1>1. Order \in Queues /\ Off \in Queues /\ <<>> \in Queues
  BY DEF Queues
<1>2. Order # Off /\ <<>> # Off
  BY SMTT(30) DEF Order, Off
<1>3. \A s \in Servers : s \in Ahead(Order)
  BY SMTT(30) DEF Servers, Ahead, Order
<1>4. \A s : s \notin Ahead(<<>>)
  BY SMTT(30) DEF Ahead
<1> QED BY <1>1, <1>2, <1>3, <1>4

(* Sending and receiving on the channel. *)
LEMMA ChannelStep ==
  ASSUME NEW q \in Seq({"nil", "error"})
  PROVE  /\ \A x \in {"nil", "error"} :
              /\ Append(q, x) \in Seq({"nil", "error"})
              /\ SaysNil(Append(q, x)) => SaysNil(q) \/ x = "nil"
         /\ q # <<>> => /\ Tail(q) \in Seq({"nil", "error"})
                        /\ SaysNil(Tail(q)) => SaysNil(q)
                        /\ Head(q) = "nil" => SaysNil(q)
BY SMTT(30) DEF SaysNil


(* A step that brings no server to life, and of which nothing follows that *)
(* only a Close brings about, keeps the invariant.                         *)
LEMMA ServersOnly ==
  ASSUME ServiceInv, ServiceTypes', UNCHANGED <<runPc, closer, isStarted, early>>,
         runCtx' \in {runCtx, "cancelled"},
         \A s \in Servers : srv'[s] \in Live => srv[s] \in Live,
         Touched' => Touched
  PROVE  ServiceInv'
<1>1. NoneLive => NoneLive'
  BY DEF NoneLive
<1>2. \A w \in Closers : Passed(w) => Passed(w)'
  BY DEF Passed
<1>3. AllClosed' <=> AllClosed
  BY DEF AllClosed
<1>4. early' <=> early
  BY SMTT(30)
<1>5. isStarted' <=> isStarted
  BY SMTT(30)
<1> QED BY <1>1, <1>2, <1>3, <1>4, <1>5 DEF ServiceInv, NotBegun

(* A server binds, fails, or returns after its shutdown. *)
LEMMA ServerStep ==
  ASSUME ServiceInv, NEW s \in Servers, serve(s) \/ serveFails(s) \/ serveHTTP(s)
  PROVE  ServiceInv'
<1>1. srv \in [Servers -> {"none", "made", "serving", "closed", "ended"}] /\ errCh \in Seq({"nil", "error"})
  BY DEF ServiceInv, ServiceTypes
<1>2. UNCHANGED <<runPc, closer, isStarted, early, runCtx>>
  BY DEF serve, serveFails, serveHTTP
<1>3. CASE serve(s)
  <2>1. srv' = [srv EXCEPT ![s] = "serving"] /\ srv[s] = "made" /\ errCh' = errCh
    BY <1>3 DEF serve
  <2>2. ServiceTypes'
    BY <1>1, <1>2, <2>1 DEF ServiceInv, ServiceTypes
  <2>3. \A x \in Servers : (srv'[x] \in Live => srv[x] \in Live) /\ (srv'[x] = "closed" => srv[x] = "closed")
    BY <1>1, <2>1 DEF Live
  <2>4. Touched' => Touched
    BY <1>2, <2>1, <2>3 DEF Touched, SaysNil
  <2> QED BY <1>2, <2>2, <2>3, <2>4, ServersOnly
<1>4. CASE serveFails(s)
  <2>1. srv' = [srv EXCEPT ![s] = "ended"] /\ errCh' = Append(errCh, "error")
    BY <1>4 DEF serveFails
  <2>2. errCh' \in Seq({"nil", "error"}) /\ (SaysNil(errCh') => SaysNil(errCh))
    BY <1>1, <2>1, ChannelStep
  <2>3. ServiceTypes'
    BY <1>1, <1>2, <2>1, <2>2 DEF ServiceInv, ServiceTypes
  <2>4. \A x \in Servers : (srv'[x] \in Live => srv[x] \in Live) /\ (srv'[x] = "closed" => srv[x] = "closed")
    BY <1>1, <2>1 DEF Live
  <2>5. Touched' => Touched
    BY <1>2, <2>2, <2>4 DEF Touched, SaysNil
  <2> QED BY <1>2, <2>3, <2>4, <2>5, ServersOnly
<1>5. CASE serveHTTP(s)
  <2>1. srv' = [srv EXCEPT ![s] = "ended"] /\ srv[s] = "closed"
    BY <1>5 DEF serveHTTP
  <2>2. errCh' = Append(errCh, "error") \/ errCh' = Append(errCh, "nil")
    BY <1>5 DEF serveHTTP
  <2>3. errCh' \in Seq({"nil", "error"})
    BY <1>1, <2>2, ChannelStep
  <2>4. ServiceTypes'
    BY <1>1, <1>2, <2>1, <2>3 DEF ServiceInv, ServiceTypes
  <2>5. \A x \in Servers : srv'[x] \in Live => srv[x] \in Live
    BY <1>1, <2>1 DEF Live
  <2>6. Touched
    BY <2>1 DEF Touched
  <2> QED BY <1>2, <2>4, <2>5, <2>6, ServersOnly
<1> QED BY <1>3, <1>4, <1>5

(* Run makes its servers: no Close that began before is under way, unless  *)
(* early says so.                                                          *)
LEMMA StartKeeps ==
  ASSUME ServiceInv, startServers
  PROVE  ServiceInv'
<1>1. /\ runPc = "new" /\ runPc' = "select" /\ closer' = closer /\ errCh' = errCh
      /\ srv' = [s \in Servers |-> IF s \in enabled THEN "made" ELSE "none"]
  BY DEF startServers
<1>2. ServiceTypes'
  BY <1>1 DEF ServiceInv, ServiceTypes
<1>3. ~Touched'
  <2>1. ~SaysNil(errCh)
    BY <1>1 DEF ServiceInv, NotBegun, Touched
  <2>2. \A s \in Servers : srv'[s] # "closed"
    BY <1>1
  <2> QED BY <1>1, <2>1, <2>2 DEF Touched, SaysNil
<1>4. closer["run"] = Off
  BY <1>1 DEF ServiceInv
<1>5. early' \/ closer["other"] = Off
  BY DEF startServers
<1>6. ~early' => \A w \in Closers : Passed(w)'
  BY <1>1, <1>4, <1>5 DEF Passed, Closers
<1> QED BY <1>1, <1>2, <1>3, <1>4, <1>6 DEF ServiceInv


(* A Close begins with every server before it. *)
LEMMA BeginKeeps ==
  ASSUME ServiceInv, ServiceTypes', NEW w \in Closers, CloseBegins(w),
         runPc = "new" => w = "other" /\ runPc' = "new", runPc # "new" => runPc' # "new",
         runPc' = "returned" => runPc = "returned" /\ runCtx' = runCtx,
         w = "run" => runPc' = "closing", w = "other" => runPc' = runPc,
         UNCHANGED <<srv, early>>, Touched' => Touched
  PROVE  ServiceInv'
<1>1. closer \in [Closers -> Queues]
  BY DEF ServiceInv, ServiceTypes
<1>2. closer' = [closer EXCEPT ![w] = Order]
  BY DEF CloseBegins
<1>3. closer'[w] = Order /\ \A x \in Closers : x # w => closer'[x] = closer[x]
  BY <1>1, <1>2
<1>4. Passed(w)'
  BY <1>3, QueueEnds DEF Passed
<1>5. \A x \in Closers : Passed(x) => Passed(x)'
  BY <1>3, <1>4 DEF Passed
<1>6. ~AllClosed'
  BY <1>3, QueueEnds DEF AllClosed
<1>7. closer'["run"] # Off => runPc' = "closing"
  BY <1>3 DEF ServiceInv, Closers
<1>8. early' <=> early
  BY SMTT(30)
<1>9. NotBegun => NotBegun'
  BY <1>8 DEF NotBegun, NoneLive
<1> QED BY <1>5, <1>6, <1>7, <1>8, <1>9 DEF ServiceInv

LEMMA RunStepKeeps ==
  ASSUME ServiceInv, runCancelled \/ runServerEnds \/ OtherClose
  PROVE  ServiceInv'
<1>1. closer \in [Closers -> Queues] /\ errCh \in Seq({"nil", "error"})
  BY DEF ServiceInv, ServiceTypes
<1>2. \A w \in Closers : [closer EXCEPT ![w] = Order] \in [Closers -> Queues]
  BY <1>1, QueueEnds
<1>3. "run" \in Closers /\ "other" \in Closers
  BY DEF Closers
<1>4. CASE runCancelled
  <2>1. /\ runPc = "select" /\ runPc' = "closing" /\ CloseBegins("run")
        /\ UNCHANGED <<srv, early, errCh>>
    BY <1>4 DEF runCancelled
  <2>2. ServiceTypes'
    BY <1>2, <1>3, <2>1 DEF ServiceInv, ServiceTypes, CloseBegins
  <2>3. Touched' => Touched
    BY <2>1 DEF Touched, SaysNil
  <2> QED BY <1>3, <2>1, <2>2, <2>3, BeginKeeps
<1>5. CASE OtherClose
  <2>1. CloseBegins("other") /\ UNCHANGED <<srv, early, errCh, runPc, runCtx>>
    BY <1>5 DEF OtherClose
  <2>2. ServiceTypes'
    BY <1>2, <1>3, <2>1 DEF ServiceInv, ServiceTypes, CloseBegins
  <2>3. Touched' => Touched
    BY <2>1 DEF Touched, SaysNil
  <2> QED BY <1>3, <2>1, <2>2, <2>3, BeginKeeps
<1>6. CASE runServerEnds
  <2>1. runPc = "select" /\ errCh # <<>> /\ errCh' = Tail(errCh) /\ UNCHANGED <<srv, early, isStarted>>
    BY <1>6 DEF runServerEnds
  <2>2. /\ errCh' \in Seq({"nil", "error"}) /\ (SaysNil(errCh') => SaysNil(errCh))
        /\ Head(errCh) = "nil" => SaysNil(errCh)
    BY <1>1, <2>1, ChannelStep
  <2>3. CASE runPc' = "closing" /\ CloseBegins("run")
    <3>1. ServiceTypes'
      BY <1>2, <1>3, <2>1, <2>2, <2>3 DEF ServiceInv, ServiceTypes, CloseBegins
    <3>2. Touched' => Touched
      BY <2>1, <2>2, <2>3 DEF Touched, SaysNil
    <3> QED BY <1>3, <2>1, <2>3, <3>1, <3>2, BeginKeeps
  <2>4. CASE Head(errCh) = "nil" /\ OnNil /\ UNCHANGED closer
    <3>1. runPc' = "returned" /\ runCtx' = "cancelled" /\ closer' = closer
      BY <2>4 DEF OnNil
    <3>2. ServiceTypes'
      BY <2>1, <2>2, <3>1 DEF ServiceInv, ServiceTypes
    <3>3. Touched
      BY <2>2, <2>4 DEF Touched
    <3>4. (early' <=> early) /\ (isStarted' <=> isStarted)
      BY <2>1, SMTT(30)
    <3>5. closer["run"] = Off
      BY <2>1 DEF ServiceInv
    <3>6. (NoneLive => NoneLive') /\ (AllClosed' => AllClosed) /\ \A w \in Closers : Passed(w) => Passed(w)'
      BY <2>1, <3>1 DEF NoneLive, AllClosed, Passed
    <3> QED BY <2>1, <3>1, <3>2, <3>3, <3>4, <3>5, <3>6 DEF ServiceInv
  <2> QED BY <1>6, <2>3, <2>4 DEF runServerEnds
<1> QED BY <1>4, <1>5, <1>6


(* One server less ahead of a Close, and that one not alive. *)
LEMMA ShutdownKeeps ==
  ASSUME ServiceInv, NEW w \in Closers, Shutdown(w)
  PROVE  ServiceInv'
<1>1. /\ closer \in [Closers -> Queues]
      /\ srv \in [Servers -> {"none", "made", "serving", "closed", "ended"}]
  BY DEF ServiceInv, ServiceTypes
<1> DEFINE q == closer[w]
<1>2. q \in Queues /\ q # Off /\ q # <<>>
  BY <1>1 DEF Shutdown
<1>3. /\ Tail(q) \in Queues /\ Tail(q) # Off /\ Head(q) \in Servers
      /\ \A s \in Servers : s \notin Ahead(Tail(q)) => s \notin Ahead(q) \/ s = Head(q)
  BY <1>2, QueueStep
<1>4. /\ srv' = IF srv[Head(q)] \in Live THEN [srv EXCEPT ![Head(q)] = "closed"] ELSE srv
      /\ closer' = [closer EXCEPT ![w] = Tail(q)]
      /\ UNCHANGED <<runPc, errCh, isStarted, runCtx, early>>
  BY DEF Shutdown, AfterShutdown
<1>5. /\ closer'[w] = Tail(q) /\ closer' \in [Closers -> Queues]
      /\ \A x \in Closers : x # w => closer'[x] = closer[x]
  BY <1>1, <1>3, <1>4
<1>6. /\ srv' \in [Servers -> {"none", "made", "serving", "closed", "ended"}]
      /\ srv'[Head(q)] \notin Live
      /\ \A s \in Servers : srv'[s] \in Live => srv[s] \in Live
  BY <1>1, <1>3, <1>4 DEF Live
<1>7. ServiceTypes'
  BY <1>4, <1>5, <1>6 DEF ServiceInv, ServiceTypes
<1>8. Passed(w) => Passed(w)'
  BY <1>2, <1>3, <1>5, <1>6 DEF Passed
<1>9. \A x \in Closers : Passed(x) => Passed(x)'
  BY <1>5, <1>6, <1>8 DEF Passed
<1>10. ~AllClosed'
  BY <1>3, <1>5 DEF AllClosed
<1>11. closer'["run"] # Off => runPc' = "closing"
  BY <1>2, <1>4, <1>5 DEF ServiceInv, Closers
<1>12. (early' <=> early) /\ (isStarted' <=> isStarted)
  BY <1>4, SMTT(30)
<1>13. NotBegun => NotBegun'
  <2> SUFFICES ASSUME NotBegun PROVE NotBegun'
    OBVIOUS
  <2>1. srv' = srv
    BY <1>3, <1>4 DEF NotBegun, NoneLive
  <2> QED BY <1>4, <1>12, <2>1 DEF NotBegun, NoneLive, Touched, SaysNil
<1> QED BY <1>4, <1>7, <1>9, <1>10, <1>11, <1>12, <1>13 DEF ServiceInv

(* The end of a Close by w, whatever it means for Run. *)
LEMMA CloseThrough ==
  ASSUME ServiceInv, NEW w \in Closers, closer[w] = <<>>, closer' = [closer EXCEPT ![w] = Off],
         UNCHANGED <<srv, errCh, early>>, ~isStarted',
         \/ w = "run" /\ runPc = "closing" /\ runPc' = "returned" /\ runCtx' = "cancelled"
         \/ w = "other" /\ UNCHANGED <<runPc, runCtx>>
  PROVE  ServiceInv'
<1>1. closer \in [Closers -> Queues]
  BY DEF ServiceInv, ServiceTypes
<1>2. /\ closer'[w] = Off /\ closer' \in [Closers -> Queues]
      /\ \A x \in Closers : x # w => closer'[x] = closer[x]
  BY <1>1, QueueEnds
<1>3. ServiceTypes'
  BY <1>2 DEF ServiceInv, ServiceTypes
<1>4. early' <=> early
  BY SMTT(30)
<1>5. \A x \in Closers : Passed(x) => Passed(x)'
  BY <1>2 DEF Passed
<1>6. Passed(w) => NoneLive'
  BY QueueEnds DEF Passed, NoneLive
<1>7. closer'["run"] # Off => runPc' = "closing"
  BY <1>2 DEF ServiceInv, Closers
<1>8. runPc' = "returned" => runCtx' = "cancelled"
  BY DEF ServiceInv
<1>9. runPc' = "new" => runPc = "new" /\ w = "other" /\ runPc' = runPc
  OBVIOUS
<1>10. runPc' = "new" /\ NotBegun => NotBegun'
  BY <1>4, <1>9 DEF NotBegun, NoneLive, Touched, SaysNil
<1>11. runPc = "new" => runPc' = "new"
  OBVIOUS
<1> QED BY <1>3, <1>4, <1>5, <1>6, <1>7, <1>8, <1>9, <1>10, <1>11 DEF ServiceInv

(* A Close that has passed every server leaves none alive. *)
LEMMA CloseEndsKeeps ==
  ASSUME ServiceInv, NEW w \in Closers, CloseEnds(w)
  PROVE  ServiceInv'
<1>1. closer \in [Closers -> Queues]
  BY DEF ServiceInv, ServiceTypes
<1>2. closer[w] = <<>> /\ closer' = [closer EXCEPT ![w] = Off] /\ UNCHANGED <<srv, errCh, early>>
  BY DEF CloseEnds
<1>3. ~isStarted'
  BY DEF CloseEnds
<1>4. CASE w = "run"
  <2>1. runPc' = "returned" /\ runCtx' = "cancelled"
    BY <1>4 DEF CloseEnds
  <2>2. runPc = "closing"
    BY <1>2, <1>4, QueueEnds DEF ServiceInv
  <2> QED BY <1>1, <1>2, <1>3, <1>4, <2>1, <2>2, CloseThrough
<1>5. CASE w = "other"
  <2>1. runPc' = runPc /\ runCtx' = runCtx
    BY <1>5 DEF CloseEnds
  <2> QED BY <1>1, <1>2, <1>3, <1>5, <2>1, CloseThrough
<1> QED BY <1>4, <1>5 DEF Closers

(* Every step of a runtime keeps the invariant. *)
LEMMA ServiceSteps ==
  ASSUME ServiceInv, [ServiceNext]_svars
  PROVE  ServiceInv'
<1>1. CASE runSteps \/ OtherClose
  BY <1>1, StartKeeps, RunStepKeeps DEF runSteps, ingressRun, balancerRun
<1>2. CASE serverSteps \/ \E s \in Servers : serveFails(s)
  BY <1>2, ServerStep DEF serverSteps
<1>3. CASE \E w \in {"run", "other"} : closeSteps(w)
  BY <1>3, ShutdownKeeps, CloseEndsKeeps DEF closeSteps, ingressClose, balancerClose, Closers
<1>4. CASE CancelContext \/ UNCHANGED svars
  <2>1. /\ UNCHANGED <<srv, runPc, errCh, closer, isStarted, early>> /\ runCtx' \in {runCtx, "cancelled"}
    BY <1>4 DEF CancelContext, svars
  <2>2. ServiceTypes' /\ (Touched' => Touched)
    BY <2>1 DEF ServiceInv, ServiceTypes, Touched, SaysNil
  <2> QED BY <2>1, <2>2, ServersOnly
<1> QED BY <1>1, <1>2, <1>3, <1>4 DEF ServiceNext

(* When Run of the ingress or balancer runtime has returned and no Close   *)
(* is under way, no server listens and the prober is cancelled, whichever  *)
(* shutdowns failed and whoever else called Close, unless that call        *)
(* overlapped Run's start.                                                 *)
THEOREM RuntimeLeavesNothing == ServiceSpec => []NothingLeftRunning
<1>1. NewRuntime => ServiceInv
  <2> SUFFICES ASSUME NewRuntime PROVE ServiceInv
    OBVIOUS
  <2>1. /\ srv = [s \in Servers |-> "none"] /\ runPc = "new" /\ errCh = <<>> /\ ~early
        /\ closer = [w \in Closers |-> Off]
    BY DEF NewRuntime, Closers
  <2>2. errCh \in Seq({"nil", "error"}) /\ ~SaysNil(errCh)
    BY <2>1, SMTT(30) DEF SaysNil
  <2>3. ServiceTypes
    BY <2>1, <2>2, QueueEnds DEF ServiceTypes
  <2>4. NotBegun
    BY <2>1, <2>2 DEF NotBegun, NoneLive, Live, Touched
  <2>5. closer["run"] = Off
    BY <2>1 DEF Closers
  <2> QED BY <2>1, <2>3, <2>4, <2>5 DEF ServiceInv
<1>2. ServiceInv => NothingLeftRunning
  <2> SUFFICES ASSUME ServiceInv, ~early, runPc = "returned", closer = [w \in {"run", "other"} |-> Off]
               PROVE  (\A s \in Servers : srv[s] \notin Live) /\ runCtx = "cancelled" /\ ~isStarted
    BY DEF NothingLeftRunning
  <2>1. Touched /\ AllClosed
    BY DEF Touched, AllClosed, Closers
  <2> QED BY <2>1 DEF ServiceInv, NoneLive
<1> QED BY <1>1, <1>2, ServiceSteps, PTL DEF ServiceSpec

=============================================================================
