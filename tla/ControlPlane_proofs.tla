------------------------ MODULE ControlPlane_proofs -------------------------
(***************************************************************************)
(* Proofs about module ControlPlane, for any set of names, addresses,      *)
(* handlers and requests.                                                  *)
(*                                                                         *)
(* The steps are first-order and go to Zenon; the few that need facts      *)
(* about numbers, tuples or records, or many instances, cite SMTT.         *)
(***************************************************************************)
EXTENDS ControlPlane, TLAPS

USE ZenonT(60) DEF Registered, HasMasterRole

(* The local variables of the handlers hold values of their shapes. *)
LocalTypeOK ==
    /\ pc \in [Handlers -> PCs]
    /\ op \in [Handlers -> {"none", "register", "heartbeat", "decommission"}]
    /\ name \in [Handlers -> Names \cup {Nil}]
    /\ overlay \in [Handlers -> Overlays \cup {Nil}]
    /\ saved \in [Handlers -> RegisteredNode \cup {Nil}]
    /\ list \in [Handlers -> SUBSET (Names \X Overlays)]
    /\ scan \in [Handlers -> SUBSET (Overlays \X Names)]
    /\ owner \in [Handlers -> Names \cup {Nil}]
    /\ cands \in [Handlers -> SUBSET Names]
    /\ drain \in [Handlers -> SUBSET Overlays]
    /\ turn \in [Handlers -> Nat]

(* The stores the handlers share hold values of their shapes. *)
StoreTypeOK ==
    /\ RegistryTypeOK
    /\ LedgerTypeOK
    /\ meshPeers \in [Overlays -> Keys \cup {Nil}]
    /\ serving \in BOOLEAN

(* TypeOK is about the shared stores and the locals. *)
LEMMA TypeSplit == TypeOK <=> StoreTypeOK /\ LocalTypeOK
  BY DEF TypeOK, StoreTypeOK, LocalTypeOK

(* Returning from a call keeps the locals well formed. *)
LEMMA ReturnType ==
  ASSUME NEW p \in Handlers, LocalTypeOK, Return(p)
  PROVE  LocalTypeOK'
  BY DEF LocalTypeOK, Return, Goto, PCs

(* Going on to another label keeps the locals well formed. *)
LEMMA ContinueType ==
  ASSUME NEW p \in Handlers, NEW l \in PCs, LocalTypeOK, Continue(p, l)
  PROVE  LocalTypeOK'
  BY DEF LocalTypeOK, Continue, Goto, callVars, seedVars, drainVars

(* A failing call keeps the locals well formed. *)
LEMMA FailType ==
  ASSUME NEW p \in Handlers, LocalTypeOK, Fail(p)
  PROVE  LocalTypeOK'
  BY ReturnType, ContinueType DEF Fail, PCs

(* registry.Remove keeps the registry well formed. *)
LEMMA RemoveType ==
  ASSUME NEW n \in Names, RegistryTypeOK, Remove(n)
  PROVE  RegistryTypeOK'
  BY DEF RegistryTypeOK, Remove, registryVars, RegisteredNode

(* registry.Register stores a well-formed node. *)
LEMMA RegisterType ==
  ASSUME NEW req \in RegisterRequest, RegistryTypeOK, CanRegister(req, 0), Register(req, 0)
  PROVE  RegistryTypeOK'
<1>1. req.overlay \in Overlays /\ req.name \in Names
  BY DEF CanRegister, RegisterRequest
<1>2. StoredNode(req, 0) \in RegisteredNode
  BY <1>1 DEF CanRegister, RegisterRequest, RegisteredNode, StoredNode, RegistryTypeOK
<1> QED
  BY <1>1, <1>2 DEF Register, RegistryTypeOK

(* ledger.Reassign keeps the ledger well formed. *)
LEMMA ReassignType ==
  ASSUME NEW o \in Overlays, NEW m \in Names, LedgerTypeOK, Reassign(o, m)
  PROVE  LedgerTypeOK'
  BY SMTT(30) DEF LedgerTypeOK, Reassign

(* A step that leaves the shared stores alone keeps them well formed. *)
LEMMA StoresUnchanged ==
  ASSUME StoreTypeOK, UNCHANGED stores
  PROVE  StoreTypeOK'
  BY DEF StoreTypeOK, RegistryTypeOK, LedgerTypeOK, stores

(* Every step keeps every variable well formed. *)
LEMMA TypeStep ==
  ASSUME TypeOK, LocalsOK, [Next]_vars
  PROVE  TypeOK'
<1> USE MeshAssumption, RegistryAssumption, LedgerAssumption, ControlPlaneAssumption
<1>t. /\ StoreTypeOK
      /\ LocalTypeOK
      /\ RegistryTypeOK
      /\ LedgerTypeOK
  BY TypeSplit DEF StoreTypeOK
<1> SUFFICES StoreTypeOK' /\ LocalTypeOK'
  BY DEF TypeOK, StoreTypeOK, LocalTypeOK
<1>0. CASE UNCHANGED vars
  BY <1>0, <1>t, StoresUnchanged DEF vars, LocalTypeOK, callVars, seedVars, drainVars
<1>1. CASE SelfRegister
  <2>1. Self \in RegisterRequest /\ Self.overlay \in Overlays /\ Self.name \in Names
    BY <1>1 DEF SelfRegister, LocalsOK, HandlerOK, RegisterRequest
  <2>2. RegistryTypeOK' /\ LedgerTypeOK'
    BY <1>1, <1>t, <2>1, RegisterType, ReassignType DEF SelfRegister
  <2>3. LocalTypeOK'
    BY <1>1, <1>t DEF SelfRegister, LocalTypeOK, callVars, seedVars, drainVars
  <2> QED
    BY <1>1, <1>t, <2>2, <2>3 DEF SelfRegister, StoreTypeOK
<1>2. ASSUME NEW p \in Handlers, NEW req \in Requests, RegisterNode(p, req)
      PROVE  StoreTypeOK' /\ LocalTypeOK'
  <2>1. req \in RegisterRequest /\ req.overlay \in Overlays /\ req.name \in Names
    BY <1>2 DEF RegisterNode, CanRegister, RegisterRequest
  <2>2. RegistryTypeOK'
    BY <1>2, <1>t, <2>1, RegisterType DEF RegisterNode
  <2>3. LocalTypeOK'
    BY <1>2, <1>t, <2>1 DEF RegisterNode, Start, Goto, LocalTypeOK, PCs, drainVars
  <2> QED
    BY <1>2, <1>t, <2>2, <2>3 DEF RegisterNode, StoreTypeOK, LedgerTypeOK
<1>3. ASSUME NEW p \in Handlers, ReassignOwn(p)
      PROVE  StoreTypeOK' /\ LocalTypeOK'
  <2>1. name[p] \in Names
    BY <1>3 DEF ReassignOwn, LocalsOK, HandlerOK
  <2>2. LedgerTypeOK'
    BY <1>3, <1>t, <2>1, ReassignType DEF ReassignOwn, LedgerTypeOK, ledgerVars
  <2>3. LocalTypeOK'
    BY <1>3, <1>t, ContinueType DEF ReassignOwn, PCs
  <2> QED
    BY <1>3, <1>t, <2>2, <2>3 DEF ReassignOwn, StoreTypeOK, RegistryTypeOK
<1>4. ASSUME NEW p \in Handlers, NEW n \in Names, NEW key \in HeartbeatKeys, Heartbeat(p, n, key)
      PROVE  StoreTypeOK' /\ LocalTypeOK'
  <2>1. RegistryTypeOK'
    BY <1>4, <1>t, SMTT(30) DEF Heartbeat, HeartbeatIdentity, RegistryTypeOK, RegisteredNode
  <2>2. LocalTypeOK'
    BY <1>4, <1>t DEF Heartbeat, Start, Goto, LocalTypeOK, PCs, seedVars, drainVars
  <2> QED
    BY <1>4, <1>t, <2>1, <2>2 DEF Heartbeat, StoreTypeOK, LedgerTypeOK
<1>5. ASSUME NEW p \in Handlers, LookupSaved(p)
      PROVE  StoreTypeOK' /\ LocalTypeOK'
  <2>1. name[p] \in Names
    BY <1>5 DEF LookupSaved, LocalsOK, HandlerOK
  <2>2. CASE byName[name[p]] = Nil
    BY <1>5, <1>t, <2>2, ReturnType, StoresUnchanged DEF LookupSaved
  <2>3. CASE byName[name[p]] # Nil
    <3>1. byName[name[p]] \in RegisteredNode
      BY <1>t, <2>1, <2>3 DEF RegistryTypeOK
    <3>2. byName[name[p]].overlay \in Overlays
      BY <3>1 DEF RegisteredNode
    <3>3. LocalTypeOK'
      BY <1>5, <1>t, <2>1, <2>3, <3>1, <3>2, SMTT(30) DEF LookupSaved, Goto, LocalTypeOK, PCs, drainVars
    <3> QED
      BY <1>5, <1>t, <3>3, StoresUnchanged DEF LookupSaved
  <2> QED BY <2>2, <2>3
<1>6. ASSUME NEW p \in Handlers, ListNodes(p)
      PROVE  StoreTypeOK' /\ LocalTypeOK'
  <2>1. \A n \in Names : byName[n] # Nil => byName[n].overlay \in Overlays
    BY <1>t DEF RegistryTypeOK, RegisteredNode
  <2>2. {<<n, byName[n].overlay>> :
           n \in {m \in Names : byName[m] # Nil /\ ~("master" \in byName[m].roles)}}
          \in SUBSET (Names \X Overlays)
    <3>1. \A n \in Names : byName[n] # Nil => <<n, byName[n].overlay>> \in Names \X Overlays
      BY <2>1
    <3> QED
      BY <3>1
  <2>3. LocalTypeOK'
    BY <1>6, <1>t, <2>2 DEF ListNodes, Goto, LocalTypeOK, PCs, callVars, drainVars
  <2> QED
    BY <1>6, <1>t, <2>3, StoresUnchanged DEF ListNodes
<1>7. ASSUME NEW p \in Handlers, SeedSnapshot(p)
      PROVE  StoreTypeOK' /\ LocalTypeOK'
  <2>1. {<<o, entries[o]>> : o \in {q \in Overlays : entries[q] # Nil}}
          \in SUBSET (Overlays \X Names)
    BY <1>t, SMTT(30) DEF LedgerTypeOK
  <2>2. PICK node \in list[p] : /\ overlay' = [overlay EXCEPT ![p] = node[2]]
                                /\ list' = [list EXCEPT ![p] = @ \ {node}]
    BY <1>7 DEF SeedSnapshot
  <2>3. node[2] \in Overlays
    BY <1>t, <2>2, SMTT(30) DEF LocalTypeOK
  <2>4. LocalTypeOK'
    BY <1>7, <1>t, <2>1, <2>2, <2>3 DEF SeedSnapshot, Goto, LocalTypeOK, PCs, callVars, drainVars
  <2> QED
    BY <1>7, <1>t, <2>4, StoresUnchanged DEF SeedSnapshot
<1>8. ASSUME NEW p \in Handlers, ScanEntry(p)
      PROVE  StoreTypeOK' /\ LocalTypeOK'
  <2>1. PICK entry \in scan[p] :
           LET counts == /\ byName[entry[2]] # Nil
                         /\ "master" \in byName[entry[2]].roles
                         /\ byName[entry[2]].overlay = entry[1]
           IN \/ /\ scan' = [scan EXCEPT ![p] = {}]
                 /\ owner' = [owner EXCEPT ![p] = Nil]
                 /\ Goto(p, "seed")
              \/ /\ scan' = [scan EXCEPT ![p] = @ \ {entry}]
                 /\ owner' = [owner EXCEPT ![p] = IF counts THEN entry[2] ELSE @]
                 /\ UNCHANGED pc
    BY <1>8 DEF ScanEntry
  <2>2. entry[2] \in Names
    BY <1>t, <2>1, SMTT(30) DEF LocalTypeOK
  <2>3. LocalTypeOK'
    BY <1>8, <1>t, <2>1, <2>2, SMTT(30) DEF ScanEntry, Goto, LocalTypeOK, PCs, callVars, drainVars
  <2> QED
    BY <1>8, <1>t, <2>3, StoresUnchanged DEF ScanEntry
<1>9. ASSUME NEW p \in Handlers, SeedLookup(p)
      PROVE  StoreTypeOK' /\ LocalTypeOK'
  BY <1>9, <1>t, ContinueType, StoresUnchanged DEF SeedLookup, PCs
<1>10. ASSUME NEW p \in Handlers, SeedAssign(p)
       PROVE  StoreTypeOK' /\ LocalTypeOK'
  <2>1. owner[p] \in Names
    BY <1>10 DEF SeedAssign, LocalsOK, HandlerOK
  <2>2. LedgerTypeOK'
    BY <1>10, <1>t, <2>1, ReassignType DEF SeedAssign, LedgerTypeOK, ledgerVars
  <2>3. LocalTypeOK'
    BY <1>10, <1>t, ContinueType, FailType DEF SeedAssign, PCs
  <2> QED
    BY <1>10, <1>t, <2>2, <2>3 DEF SeedAssign, StoreTypeOK, RegistryTypeOK
<1>11. ASSUME NEW p \in Handlers, NotifyRegistrationObserver(p)
       PROVE  StoreTypeOK' /\ LocalTypeOK'
  <2>1. saved[p].overlay \in Overlays /\ saved[p].pubkey \in Keys \cup {Nil}
    BY <1>11 DEF NotifyRegistrationObserver, LocalsOK, HandlerOK, RegisteredNode
  <2>2. meshPeers' \in [Overlays -> Keys \cup {Nil}]
    BY <1>11, <1>t, <2>1 DEF NotifyRegistrationObserver, StoreTypeOK
  <2>3. LocalTypeOK'
    BY <1>11, <1>t, ReturnType, FailType DEF NotifyRegistrationObserver
  <2> QED
    BY <1>11, <1>t, <2>2, <2>3 DEF NotifyRegistrationObserver, StoreTypeOK, RegistryTypeOK, LedgerTypeOK
<1>12. ASSUME NEW p \in Handlers, Rollback(p)
       PROVE  StoreTypeOK' /\ LocalTypeOK'
  <2>1. name[p] \in Names
    BY <1>12 DEF Rollback, LocalsOK, HandlerOK
  <2> QED
    BY <1>12, <1>t, <2>1, RemoveType, ReturnType DEF Rollback, StoreTypeOK, LedgerTypeOK
<1>13. ASSUME NEW p \in Handlers, NEW n \in Names, DecommissionNode(p, n)
       PROVE  StoreTypeOK' /\ LocalTypeOK'
  <2>1. LocalTypeOK'
    BY <1>13, <1>t DEF DecommissionNode, Start, Goto, LocalTypeOK, RegistryTypeOK, PCs, seedVars, drainVars
  <2> QED
    BY <1>13, <1>t, <2>1, StoresUnchanged DEF DecommissionNode
<1>14. ASSUME NEW p \in Handlers, CheckOwned(p)
       PROVE  StoreTypeOK' /\ LocalTypeOK'
  BY <1>14, <1>t, ContinueType, StoresUnchanged DEF CheckOwned, PCs
<1>15. ASSUME NEW p \in Handlers, RegionCandidates(p)
       PROVE  StoreTypeOK' /\ LocalTypeOK'
  <2>1. LocalTypeOK'
    BY <1>15, <1>t DEF RegionCandidates, MastersInRegion, Goto, LocalTypeOK, PCs, callVars, seedVars
  <2> QED
    BY <1>15, <1>t, <2>1, StoresUnchanged DEF RegionCandidates
<1>16. ASSUME NEW p \in Handlers, AnyCandidates(p)
       PROVE  StoreTypeOK' /\ LocalTypeOK'
  <2>1. LocalTypeOK'
    BY <1>16, <1>t, ReturnType, SMTT(30) DEF AnyCandidates, MastersInRegion, Goto, LocalTypeOK, PCs, callVars, seedVars
  <2> QED
    BY <1>16, <1>t, <2>1, StoresUnchanged DEF AnyCandidates
<1>17. ASSUME NEW p \in Handlers, DrainOwned(p)
       PROVE  StoreTypeOK' /\ LocalTypeOK'
  <2>1. LocalTypeOK'
    BY <1>17, <1>t, ReturnType, SMTT(30) DEF DrainOwned, OwnedBy, Goto, LocalTypeOK, PCs, callVars, seedVars
  <2> QED
    BY <1>17, <1>t, <2>1, StoresUnchanged DEF DrainOwned
<1>18. ASSUME NEW p \in Handlers, MoveEntry(p)
       PROVE  StoreTypeOK' /\ LocalTypeOK'
  <2>1. PICK o \in drain[p], m \in cands[p] :
           /\ ReassignExpecting(o, name[p], m)
           /\ drain' = [drain EXCEPT ![p] = @ \ {o}]
    BY <1>18 DEF MoveEntry
  <2>2. o \in Overlays /\ m \in Names
    BY <1>t, <2>1 DEF LocalTypeOK
  <2>3. LedgerTypeOK'
    BY <1>t, <2>1, <2>2, ReassignType DEF ReassignExpecting, LedgerTypeOK, ledgerVars
  <2>4. LocalTypeOK'
    BY <1>18, <1>t, <2>1, SMTT(30) DEF MoveEntry, LocalTypeOK, callVars, seedVars
  <2> QED
    BY <1>18, <1>t, <2>3, <2>4 DEF MoveEntry, StoreTypeOK, RegistryTypeOK
<1>19. ASSUME NEW p \in Handlers, RemoveNode(p)
       PROVE  StoreTypeOK' /\ LocalTypeOK'
  <2>1. name[p] \in Names
    BY <1>19 DEF RemoveNode, LocalsOK, HandlerOK
  <2> QED
    BY <1>19, <1>t, <2>1, RemoveType, ReturnType DEF RemoveNode, StoreTypeOK, LedgerTypeOK
<1> QED
  BY <1>0, <1>1, <1>2, <1>3, <1>4, <1>5, <1>6, <1>7, <1>8, <1>9, <1>10, <1>11,
     <1>12, <1>13, <1>14, <1>15, <1>16, <1>17, <1>18, <1>19 DEF Next

(* A step of handler p leaves the locals of every other handler alone. *)
OthersKept(p) ==
    \A q \in Handlers \ {p} :
        /\ pc'[q] = pc[q]
        /\ name'[q] = name[q]
        /\ overlay'[q] = overlay[q]
        /\ saved'[q] = saved[q]
        /\ list'[q] = list[q]
        /\ owner'[q] = owner[q]

(* A handler that returned is well formed and touched no other. *)
LEMMA ReturnLocals ==
  ASSUME NEW p \in Handlers, LocalTypeOK, Return(p)
  PROVE  HandlerOK(p)' /\ OthersKept(p)
  BY DEF LocalTypeOK, Return, Goto, HandlerOK, OthersKept

(* A handler that goes on keeps its locals. *)
LEMMA ContinueLocals ==
  ASSUME NEW p \in Handlers, NEW l, LocalTypeOK, Continue(p, l)
  PROVE  /\ OthersKept(p)
         /\ pc'[p] = l
         /\ name'[p] = name[p]
         /\ overlay'[p] = overlay[p]
         /\ saved'[p] = saved[p]
         /\ list'[p] = list[p]
         /\ owner'[p] = owner[p]
  BY DEF LocalTypeOK, Continue, Goto, OthersKept, callVars, seedVars, drainVars

(* So does a call that fails. *)
LEMMA FailLocals ==
  ASSUME NEW p \in Handlers, LocalTypeOK, HandlerOK(p), pc[p] # "idle", Fail(p)
  PROVE  HandlerOK(p)' /\ OthersKept(p)
  BY ReturnLocals, ContinueLocals DEF Fail, HandlerOK

(* Every step leaves every handler with the locals its next step reads. *)
LEMMA LocalsStep ==
  ASSUME TypeOK, LocalsOK, [Next]_vars
  PROVE  LocalsOK'
<1> USE MeshAssumption, RegistryAssumption, LedgerAssumption, ControlPlaneAssumption
<1>t. /\ StoreTypeOK
      /\ LocalTypeOK
      /\ RegistryTypeOK
      /\ LedgerTypeOK
  BY TypeSplit DEF StoreTypeOK
<1>s. ASSUME NEW p \in Handlers, HandlerOK(p)', OthersKept(p), serving' = serving
      PROVE  LocalsOK'
  BY <1>s DEF LocalsOK, HandlerOK, OthersKept
<1>0. CASE UNCHANGED vars
  BY <1>0 DEF vars, stores, callVars, seedVars, LocalsOK, HandlerOK
<1>1. CASE SelfRegister
  BY <1>1 DEF SelfRegister, callVars, seedVars, LocalsOK, HandlerOK
<1>2. ASSUME NEW p \in Handlers, NEW req \in Requests, RegisterNode(p, req)
      PROVE  LocalsOK'
  <2>1. req.overlay \in Overlays /\ req.name \in Names
    BY <1>2 DEF RegisterNode, CanRegister, RegisterRequest
  <2> QED
    BY <1>2, <1>t, <1>s, <2>1 DEF RegisterNode, Start, Goto, LocalTypeOK, HandlerOK, OthersKept
<1>3. ASSUME NEW p \in Handlers, ReassignOwn(p)
      PROVE  LocalsOK'
  BY <1>3, <1>t, <1>s, ContinueLocals, SMTT(30) DEF ReassignOwn, HandlerOK, LocalsOK
<1>4. ASSUME NEW p \in Handlers, NEW n \in Names, NEW key \in HeartbeatKeys, Heartbeat(p, n, key)
      PROVE  LocalsOK'
  BY <1>4, <1>t, <1>s DEF Heartbeat, Start, Goto, LocalTypeOK, HandlerOK, OthersKept, seedVars
<1>5. ASSUME NEW p \in Handlers, LookupSaved(p)
      PROVE  LocalsOK'
  <2>1. name[p] \in Names
    BY <1>5 DEF LookupSaved, LocalsOK, HandlerOK
  <2>2. CASE byName[name[p]] = Nil
    BY <1>5, <1>t, <1>s, <2>2, ReturnLocals DEF LookupSaved, stores
  <2>3. CASE byName[name[p]] # Nil
    <3>1. byName[name[p]] \in RegisteredNode
      BY <1>t, <2>1, <2>3 DEF RegistryTypeOK
    <3>2. HandlerOK(p)' /\ OthersKept(p)
      BY <1>5, <1>t, <2>1, <2>3, <3>1, SMTT(30) DEF LookupSaved, Goto, LocalTypeOK, HandlerOK, OthersKept
    <3> QED
      BY <1>5, <1>s, <3>2 DEF LookupSaved, stores
  <2> QED BY <2>2, <2>3
<1>6. ASSUME NEW p \in Handlers, ListNodes(p)
      PROVE  LocalsOK'
  <2>1. HandlerOK(p)' /\ OthersKept(p)
    BY <1>6, <1>t DEF ListNodes, Goto, LocalTypeOK, LocalsOK, HandlerOK, OthersKept, callVars
  <2> QED
    BY <1>6, <1>s, <2>1 DEF ListNodes, stores
<1>7. ASSUME NEW p \in Handlers, SeedSnapshot(p)
      PROVE  LocalsOK'
  <2>2. PICK node \in list[p] : /\ overlay' = [overlay EXCEPT ![p] = node[2]]
                                /\ list' = [list EXCEPT ![p] = @ \ {node}]
    BY <1>7 DEF SeedSnapshot
  <2>3. node[2] \in Overlays
    BY <1>t, <2>2, SMTT(30) DEF LocalTypeOK
  <2>4. HandlerOK(p)' /\ OthersKept(p)
    BY <1>7, <1>t, <2>2, <2>3, SMTT(30) DEF SeedSnapshot, Goto, LocalTypeOK, LocalsOK, HandlerOK, OthersKept, callVars
  <2> QED
    BY <1>7, <1>s, <2>4 DEF SeedSnapshot, stores
<1>8. ASSUME NEW p \in Handlers, ScanEntry(p)
      PROVE  LocalsOK'
  <2>1. HandlerOK(p)' /\ OthersKept(p)
    BY <1>8, <1>t, SMTT(30) DEF ScanEntry, Goto, LocalTypeOK, LocalsOK, HandlerOK, OthersKept, callVars
  <2> QED
    BY <1>8, <1>s, <2>1 DEF ScanEntry, stores
<1>9. ASSUME NEW p \in Handlers, SeedLookup(p)
      PROVE  LocalsOK'
  <2>1. OthersKept(p) /\ HandlerOK(p)'
    BY <1>9, <1>t, ContinueLocals, SMTT(30) DEF SeedLookup, LocalTypeOK, LocalsOK, HandlerOK
  <2> QED
    BY <1>9, <1>s, <2>1 DEF SeedLookup, stores
<1>10. ASSUME NEW p \in Handlers, SeedAssign(p)
       PROVE  LocalsOK'
  BY <1>10, <1>t, <1>s, ContinueLocals, FailLocals DEF SeedAssign, LocalsOK, HandlerOK
<1>11. ASSUME NEW p \in Handlers, NotifyRegistrationObserver(p)
       PROVE  LocalsOK'
  BY <1>11, <1>t, <1>s, ReturnLocals, FailLocals DEF NotifyRegistrationObserver, LocalsOK
<1>12. ASSUME NEW p \in Handlers, Rollback(p)
       PROVE  LocalsOK'
  BY <1>12, <1>t, <1>s, ReturnLocals DEF Rollback
<1>13. ASSUME NEW p \in Handlers, NEW n \in Names, DecommissionNode(p, n)
       PROVE  LocalsOK'
  <2>1. byName[n] \in RegisteredNode
    BY <1>13, <1>t DEF DecommissionNode, RegistryTypeOK
  <2>2. HandlerOK(p)' /\ OthersKept(p)
    BY <1>13, <1>t, <2>1 DEF DecommissionNode, Start, Goto, LocalTypeOK, HandlerOK, OthersKept, seedVars
  <2> QED
    BY <1>13, <1>s, <2>2 DEF DecommissionNode, stores
<1>14. ASSUME NEW p \in Handlers, CheckOwned(p)
       PROVE  LocalsOK'
  BY <1>14, <1>t, <1>s, ContinueLocals, SMTT(30) DEF CheckOwned, LocalsOK, HandlerOK, stores
<1>15. ASSUME NEW p \in Handlers, RegionCandidates(p)
       PROVE  LocalsOK'
  <2>1. HandlerOK(p)' /\ OthersKept(p)
    BY <1>15, <1>t DEF RegionCandidates, Goto, LocalTypeOK, LocalsOK, HandlerOK, OthersKept, callVars, seedVars
  <2> QED
    BY <1>15, <1>s, <2>1 DEF RegionCandidates, stores
<1>16. ASSUME NEW p \in Handlers, AnyCandidates(p)
       PROVE  LocalsOK'
  <2>1. HandlerOK(p)' /\ OthersKept(p)
    BY <1>16, <1>t, ReturnLocals DEF AnyCandidates, Goto, LocalTypeOK, LocalsOK, HandlerOK, OthersKept, callVars, seedVars
  <2> QED
    BY <1>16, <1>s, <2>1 DEF AnyCandidates, stores
<1>17. ASSUME NEW p \in Handlers, DrainOwned(p)
       PROVE  LocalsOK'
  <2>1. HandlerOK(p)' /\ OthersKept(p)
    BY <1>17, <1>t, ReturnLocals DEF DrainOwned, Goto, LocalTypeOK, LocalsOK, HandlerOK, OthersKept, callVars, seedVars
  <2> QED
    BY <1>17, <1>s, <2>1 DEF DrainOwned, stores
<1>18. ASSUME NEW p \in Handlers, MoveEntry(p)
       PROVE  LocalsOK'
  BY <1>18 DEF MoveEntry, callVars, seedVars, LocalsOK, HandlerOK
<1>19. ASSUME NEW p \in Handlers, RemoveNode(p)
       PROVE  LocalsOK'
  BY <1>19, <1>t, <1>s, ReturnLocals DEF RemoveNode
<1> QED
  BY <1>0, <1>1, <1>2, <1>3, <1>4, <1>5, <1>6, <1>7, <1>8, <1>9, <1>10, <1>11,
     <1>12, <1>13, <1>14, <1>15, <1>16, <1>17, <1>18, <1>19 DEF Next

(* Register keeps the two indexes inverse to each other: the address is    *)
(* free or already the node's own, and a known node cannot change it.      *)
LEMMA RegisterIndex ==
  ASSUME NEW req \in RegisterRequest, RegistryTypeOK, RegistryIndexesAgree,
         CanRegister(req, 0), Register(req, 0)
  PROVE  RegistryIndexesAgree'
<1> DEFINE n == req.name
           o == req.overlay
<1>1. n \in Names /\ o \in Overlays /\ n # Nil
  BY MeshAssumption DEF CanRegister, RegisterRequest
<1>2. StoredNode(req, 0).overlay = o /\ StoredNode(req, 0) # Nil
  <2>1. StoredNode(req, 0) \in RegisteredNode
    BY <1>1 DEF CanRegister, RegisterRequest, RegisteredNode, StoredNode, RegistryTypeOK
  <2> QED
    BY <2>1, RegistryAssumption DEF StoredNode
<1>3. \A m \in Names \ {n} : byName'[m] = byName[m] /\ (byName[m] # Nil => byName[m].overlay # o)
  <2>1. byName' = [byName EXCEPT ![n] = StoredNode(req, 0)]
    BY DEF Register
  <2>2. byOverlay[o] \in {Nil, n}
    BY DEF CanRegister
  <2>3. \A m \in Names : byName[m] # Nil => byOverlay[byName[m].overlay] = m
    BY DEF RegistryIndexesAgree
  <2> HIDE DEF n, o
  <2> QED
    BY <1>1, <2>1, <2>2, <2>3, MeshAssumption DEF RegistryTypeOK
<1>4. \A q \in Overlays \ {o} : byOverlay'[q] = byOverlay[q] /\ byOverlay[q] # n
  BY <1>1, MeshAssumption DEF Register, RegistryTypeOK, RegistryIndexesAgree, CanRegister
<1>5. byName'[n] = StoredNode(req, 0) /\ byOverlay'[o] = n
  BY <1>1 DEF Register, RegistryTypeOK
<1>6. \A m \in Names : byName[m] # Nil => byName[m].overlay \in Overlays
  BY DEF RegistryTypeOK, RegisteredNode
<1>7. \A q \in Overlays : byOverlay[q] \in Names \cup {Nil}
  BY DEF RegistryTypeOK
<1> HIDE DEF n, o
<1> QED
  BY <1>1, <1>2, <1>3, <1>4, <1>5, <1>6, <1>7, SMTT(30) DEF RegistryIndexesAgree

(* Remove takes a node out of both indexes. *)
LEMMA RemoveIndex ==
  ASSUME NEW n \in Names, RegistryTypeOK, RegistryIndexesAgree, Remove(n)
  PROVE  RegistryIndexesAgree'
<1>1. \A m \in Names : byName[m] # Nil => byName[m].overlay \in Overlays
  BY DEF RegistryTypeOK, RegisteredNode
<1>2. \A q \in Overlays : byOverlay[q] \in Names \cup {Nil}
  BY DEF RegistryTypeOK
<1>3. CASE byName[n] = Nil
  BY <1>3 DEF Remove, registryVars, RegistryIndexesAgree
<1>4. CASE byName[n] # Nil
  <2>1. byName' = [byName EXCEPT ![n] = Nil]
    BY <1>4 DEF Remove
  <2>2. byOverlay' = [byOverlay EXCEPT ![byName[n].overlay] = Nil]
    BY <1>4 DEF Remove
  <2> DEFINE o == byName[n].overlay
  <2>3. o \in Overlays /\ byOverlay[o] = n
    BY <1>1, <1>4 DEF RegistryIndexesAgree
  <2>4. byName'[n] = Nil /\ byOverlay'[o] = Nil
    BY <2>1, <2>2, <2>3 DEF RegistryTypeOK
  <2>5. \A m \in Names \ {n} : byName'[m] = byName[m] /\ (byName[m] # Nil => byName[m].overlay # o)
    BY <2>1, <2>3 DEF RegistryIndexesAgree, RegistryTypeOK
  <2>6. \A q \in Overlays \ {o} : byOverlay'[q] = byOverlay[q] /\ byOverlay[q] # n
    BY <1>4, <2>2, <2>3, MeshAssumption DEF RegistryIndexesAgree, RegistryTypeOK
  <2> HIDE DEF o
  <2> QED
    BY <1>1, <1>2, <2>3, <2>4, <2>5, <2>6, SMTT(30) DEF RegistryIndexesAgree
<1> QED BY <1>3, <1>4

(* A heartbeat touches neither names nor addresses. *)
LEMMA HeartbeatKeeps ==
  ASSUME NEW n \in Names, NEW key \in Keys, RegistryTypeOK, byName[n] # Nil,
         HeartbeatIdentity(n, key)
  PROVE  /\ byOverlay' = byOverlay
         /\ \A m \in Names : (byName'[m] # Nil) <=> (byName[m] # Nil)
         /\ \A m \in Names : byName[m] # Nil => byName'[m].overlay = byName[m].overlay
         /\ \A m \in Names : byName[m] # Nil => byName'[m].roles = byName[m].roles
<1>1. byName[n] \in RegisteredNode
  BY DEF RegistryTypeOK
<1>2. [byName[n] EXCEPT !.pubkey = IF key = Nil THEN byName[n].pubkey ELSE key] \in RegisteredNode
  BY <1>1 DEF RegisteredNode
<1> QED
  BY <1>1, <1>2, RegistryAssumption DEF HeartbeatIdentity, RegistryTypeOK, RegisteredNode

(* The steps that leave the registry alone. *)
QuietStep(p) ==
    \/ ReassignOwn(p) \/ LookupSaved(p) \/ ListNodes(p) \/ SeedSnapshot(p)
    \/ ScanEntry(p) \/ SeedLookup(p) \/ SeedAssign(p)
    \/ NotifyRegistrationObserver(p) \/ CheckOwned(p) \/ RegionCandidates(p)
    \/ AnyCandidates(p) \/ DrainOwned(p) \/ MoveEntry(p)
    \/ \E n \in Names : DecommissionNode(p, n)

(* They do leave it alone. *)
LEMMA QuietKeeps ==
  ASSUME NEW p \in Handlers, QuietStep(p)
  PROVE  byName' = byName /\ byOverlay' = byOverlay
<1>1. CASE ReassignOwn(p) \/ SeedAssign(p) \/ NotifyRegistrationObserver(p) \/ MoveEntry(p)
  BY <1>1 DEF ReassignOwn, SeedAssign, NotifyRegistrationObserver, MoveEntry
<1>2. CASE LookupSaved(p) \/ ListNodes(p) \/ SeedSnapshot(p) \/ ScanEntry(p) \/ SeedLookup(p)
  BY <1>2 DEF LookupSaved, ListNodes, SeedSnapshot, ScanEntry, SeedLookup, stores
<1>3. CASE CheckOwned(p) \/ RegionCandidates(p) \/ AnyCandidates(p) \/ DrainOwned(p)
  BY <1>3 DEF CheckOwned, RegionCandidates, AnyCandidates, DrainOwned, stores
<1>4. CASE \E n \in Names : DecommissionNode(p, n)
  BY <1>4 DEF DecommissionNode, stores
<1> QED
  BY <1>1, <1>2, <1>3, <1>4 DEF QuietStep

(* Every step keeps the two indexes of the registry inverse. *)
LEMMA IndexStep ==
  ASSUME TypeOK, LocalsOK, RegistryIndexesAgree, [Next]_vars
  PROVE  RegistryIndexesAgree'
<1> USE ControlPlaneAssumption
<1>t. RegistryTypeOK
  BY DEF TypeOK
<1>0. CASE UNCHANGED vars
  BY <1>0 DEF vars, stores, RegistryIndexesAgree
<1>1. CASE SelfRegister
  BY <1>1, <1>t, RegisterIndex DEF SelfRegister, LocalsOK
<1>2. ASSUME NEW p \in Handlers, NEW req \in Requests, RegisterNode(p, req)
      PROVE  RegistryIndexesAgree'
  BY <1>2, <1>t, RegisterIndex DEF RegisterNode
<1>3. ASSUME NEW p \in Handlers, NEW n \in Names, NEW key \in HeartbeatKeys, Heartbeat(p, n, key)
      PROVE  RegistryIndexesAgree'
  <2>1. key \in Keys
    OBVIOUS
  <2>2. byName[n] # Nil /\ HeartbeatIdentity(n, key)
    BY <1>3 DEF Heartbeat
  <2>3. \A q \in Overlays : byOverlay[q] \in Names \cup {Nil}
    BY <1>t DEF RegistryTypeOK
  <2>4. /\ byOverlay' = byOverlay
        /\ \A m \in Names : (byName'[m] # Nil) <=> (byName[m] # Nil)
        /\ \A m \in Names : byName[m] # Nil => byName'[m].overlay = byName[m].overlay
    BY <1>t, <2>1, <2>2, HeartbeatKeeps
  <2>5. \A m \in Names : byName'[m] # Nil => byOverlay'[byName'[m].overlay] = m
    BY <2>4 DEF RegistryIndexesAgree
  <2>6. ASSUME NEW q \in Overlays, byOverlay'[q] # Nil
        PROVE  byName'[byOverlay'[q]] # Nil /\ byName'[byOverlay'[q]].overlay = q
    <3>1. /\ byOverlay'[q] = byOverlay[q]
          /\ byOverlay[q] \in Names
      BY <2>3, <2>4, <2>6
    <3>2. byName[byOverlay[q]] # Nil /\ byName[byOverlay[q]].overlay = q
      BY <2>6, <3>1 DEF RegistryIndexesAgree
    <3> QED
      BY <2>4, <3>1, <3>2
  <2> QED
    BY <2>5, <2>6 DEF RegistryIndexesAgree
<1>4. ASSUME NEW p \in Handlers, Rollback(p) \/ RemoveNode(p)
      PROVE  RegistryIndexesAgree'
  <2>1. name[p] \in Names /\ Remove(name[p])
    BY <1>4 DEF Rollback, RemoveNode, LocalsOK, HandlerOK
  <2> QED
    BY <1>t, <2>1, RemoveIndex
<1>5. ASSUME NEW p \in Handlers, QuietStep(p)
      PROVE  RegistryIndexesAgree'
  BY <1>5, QuietKeeps DEF RegistryIndexesAgree
<1> QED
  BY <1>0, <1>1, <1>2, <1>3, <1>4, <1>5 DEF Next, QuietStep

(* What the registry stores is what a request said. *)
LEMMA RegisterIdentity ==
  ASSUME NEW req \in Identities, req \in RegisterRequest, RegistryTypeOK,
         CanRegister(req, 0), Register(req, 0), \A n \in Names : NodeIdentityOK(n)
  PROVE  /\ \A n \in Names : NodeIdentityOK(n)'
         /\ \A n \in Names \ {req.name} : byName'[n] = byName[n]
         /\ byName'[req.name].overlay = req.overlay
         /\ byName'[req.name].roles = req.roles
<1>1. req.name \in Names
  BY DEF RegisterRequest
<1>2. \A n \in Names \ {req.name} : byName'[n] = byName[n]
  BY DEF Register, RegistryTypeOK
<1>3. byName'[req.name] = StoredNode(req, 0)
  BY <1>1 DEF Register, RegistryTypeOK
<1>4. /\ byName'[req.name].overlay = req.overlay
      /\ byName'[req.name].roles = req.roles
  BY <1>3, SMTT(30) DEF StoredNode
<1> QED
  BY <1>1, <1>2, <1>4, SMTT(30) DEF NodeIdentityOK, Identities

(* A handler about to seed, or that listed what to seed, holds addresses   *)
(* of nodes that are not masters.                                          *)
LEMMA HandlerIdentityStep ==
  ASSUME TypeOK, LocalsOK, IdentitiesOK, [Next]_vars
  PROVE  \A q \in Handlers : HandlerIdentityOK(q)'
<1> USE MeshAssumption, RegistryAssumption, ControlPlaneAssumption
<1>t. LocalTypeOK /\ RegistryTypeOK
  BY TypeSplit DEF StoreTypeOK
<1>i. \A n \in Names : byName[n] # Nil /\ ~("master" \in byName[n].roles)
                         => NonMasterAddress(byName[n].overlay)
  BY DEF IdentitiesOK, NodeIdentityOK, NonMasterAddress
<1>s. ASSUME NEW p \in Handlers, HandlerIdentityOK(p)', OthersKept(p)
      PROVE  \A q \in Handlers : HandlerIdentityOK(q)'
  BY <1>s, SMTT(30) DEF IdentitiesOK, HandlerIdentityOK, OthersKept, NonMasterAddress
<1>r. ASSUME NEW p \in Handlers, Return(p)
      PROVE  \A q \in Handlers : HandlerIdentityOK(q)'
  <2>1. HandlerIdentityOK(p)'
    BY <1>r, <1>t DEF Return, Goto, LocalTypeOK, HandlerIdentityOK
  <2> QED
    BY <1>r, <1>t, <1>s, <2>1, ReturnLocals
<1>c. ASSUME NEW p \in Handlers, NEW l, Continue(p, l), l # "reassign",
             l \in {"scan", "assign"} => pc[p] \in {"scan", "assign"}
      PROVE  \A q \in Handlers : HandlerIdentityOK(q)'
  <2>1. HandlerIdentityOK(p)'
    BY <1>c, <1>t, ContinueLocals, SMTT(30) DEF IdentitiesOK, HandlerIdentityOK, NonMasterAddress
  <2> QED
    BY <1>c, <1>t, <1>s, <2>1, ContinueLocals
<1>f. ASSUME NEW p \in Handlers, Fail(p)
      PROVE  \A q \in Handlers : HandlerIdentityOK(q)'
  BY <1>f, <1>r, <1>c DEF Fail
<1>0. CASE UNCHANGED vars
  BY <1>0 DEF vars, callVars, seedVars, IdentitiesOK, HandlerIdentityOK, NonMasterAddress
<1>1. CASE SelfRegister
  BY <1>1 DEF SelfRegister, callVars, seedVars, IdentitiesOK, HandlerIdentityOK, NonMasterAddress
<1>2. ASSUME NEW p \in Handlers, NEW req \in Requests, RegisterNode(p, req)
      PROVE  \A q \in Handlers : HandlerIdentityOK(q)'
  <2>1. HandlerIdentityOK(p)' /\ OthersKept(p)
    BY <1>2, <1>t, SMTT(30) DEF RegisterNode, Start, Goto, LocalTypeOK, IdentitiesOK, Identities,
                      HandlerIdentityOK, NonMasterAddress, OthersKept
  <2> QED
    BY <1>s, <2>1
<1>3. ASSUME NEW p \in Handlers, ReassignOwn(p)
      PROVE  \A q \in Handlers : HandlerIdentityOK(q)'
  BY <1>3, <1>c DEF ReassignOwn
<1>4. ASSUME NEW p \in Handlers, NEW n \in Names, NEW key \in HeartbeatKeys, Heartbeat(p, n, key)
      PROVE  \A q \in Handlers : HandlerIdentityOK(q)'
  <2>1. HandlerIdentityOK(p)' /\ OthersKept(p)
    BY <1>4, <1>t DEF Heartbeat, Start, Goto, LocalTypeOK, IdentitiesOK, HandlerIdentityOK,
                      NonMasterAddress, OthersKept, seedVars
  <2> QED
    BY <1>s, <2>1
<1>5. ASSUME NEW p \in Handlers, LookupSaved(p)
      PROVE  \A q \in Handlers : HandlerIdentityOK(q)'
  <2>1. name[p] \in Names
    BY <1>5 DEF LookupSaved, LocalsOK, HandlerOK
  <2>2. CASE byName[name[p]] = Nil
    BY <1>5, <1>r, <2>2 DEF LookupSaved
  <2>3. CASE byName[name[p]] # Nil
    <3>1. \/ list'[p] = list[p] /\ pc'[p] = "list"
          \/ /\ pc'[p] = "seed"
             /\ list'[p] = {<<name[p], byName[name[p]].overlay>>}
             /\ NonMasterAddress(byName[name[p]].overlay)
      BY <1>5, <1>t, <1>i, <2>1, <2>3 DEF LookupSaved, Goto, LocalTypeOK
    <3>2. OthersKept(p)
      BY <1>5, <1>t, <2>3, SMTT(30) DEF LookupSaved, Goto, LocalTypeOK, OthersKept
    <3>3. HandlerIdentityOK(p)'
      BY <3>1, SMTT(30) DEF IdentitiesOK, HandlerIdentityOK, NonMasterAddress
    <3> QED
      BY <1>s, <3>2, <3>3
  <2> QED BY <2>2, <2>3
<1>6. ASSUME NEW p \in Handlers, ListNodes(p)
      PROVE  \A q \in Handlers : HandlerIdentityOK(q)'
  <2>1. list'[p] = {<<n, byName[n].overlay>> :
           n \in {m \in Names : byName[m] # Nil /\ ~("master" \in byName[m].roles)}}
    BY <1>6, <1>t DEF ListNodes, LocalTypeOK
  <2>2. ASSUME NEW node \in list'[p]
        PROVE  NonMasterAddress(node[2])
    <3>1. PICK n \in Names : /\ byName[n] # Nil
                             /\ ~("master" \in byName[n].roles)
                             /\ node = <<n, byName[n].overlay>>
      BY <2>1
    <3>2. node[2] = byName[n].overlay
      BY <3>1
    <3> QED
      BY <1>i, <3>1, <3>2
  <2>3. pc'[p] = "seed" /\ OthersKept(p)
    BY <1>6, <1>t DEF ListNodes, Goto, LocalTypeOK, OthersKept, callVars
  <2>4. HandlerIdentityOK(p)'
    BY <2>2, <2>3 DEF HandlerIdentityOK, NonMasterAddress
  <2> QED
    BY <1>s, <2>3, <2>4
<1>7. ASSUME NEW p \in Handlers, SeedSnapshot(p)
      PROVE  \A q \in Handlers : HandlerIdentityOK(q)'
  <2>1. PICK node \in list[p] : /\ overlay' = [overlay EXCEPT ![p] = node[2]]
                                /\ list' = [list EXCEPT ![p] = @ \ {node}]
    BY <1>7 DEF SeedSnapshot
  <2>2. /\ pc'[p] = "scan" /\ overlay'[p] = node[2] /\ list'[p] = list[p] \ {node}
        /\ OthersKept(p)
    BY <1>7, <1>t, <2>1, SMTT(30) DEF SeedSnapshot, Goto, LocalTypeOK, OthersKept, callVars
  <2>3. HandlerIdentityOK(p)'
    BY <2>2, SMTT(30) DEF IdentitiesOK, HandlerIdentityOK, NonMasterAddress
  <2> QED
    BY <1>s, <2>2, <2>3
<1>8. ASSUME NEW p \in Handlers, ScanEntry(p)
      PROVE  \A q \in Handlers : HandlerIdentityOK(q)'
  <2>1. /\ pc'[p] \in {"scan", "seed"} /\ overlay'[p] = overlay[p] /\ list'[p] = list[p]
        /\ OthersKept(p)
    BY <1>8, <1>t, SMTT(30) DEF ScanEntry, Goto, LocalTypeOK, OthersKept, callVars
  <2>2. HandlerIdentityOK(p)'
    BY <1>8, <2>1 DEF ScanEntry, IdentitiesOK, HandlerIdentityOK, NonMasterAddress
  <2> QED
    BY <1>s, <2>1, <2>2
<1>9. ASSUME NEW p \in Handlers, SeedLookup(p) \/ SeedAssign(p)
      PROVE  \A q \in Handlers : HandlerIdentityOK(q)'
  BY <1>9, <1>c, <1>f DEF SeedLookup, SeedAssign
<1>10. ASSUME NEW p \in Handlers, NotifyRegistrationObserver(p) \/ Rollback(p) \/ RemoveNode(p)
       PROVE  \A q \in Handlers : HandlerIdentityOK(q)'
  BY <1>10, <1>r, <1>f DEF NotifyRegistrationObserver, Rollback, RemoveNode
<1>11. ASSUME NEW p \in Handlers, NEW n \in Names, DecommissionNode(p, n)
       PROVE  \A q \in Handlers : HandlerIdentityOK(q)'
  <2>1. HandlerIdentityOK(p)' /\ OthersKept(p)
    BY <1>11, <1>t DEF DecommissionNode, Start, Goto, LocalTypeOK, IdentitiesOK, HandlerIdentityOK,
                       NonMasterAddress, OthersKept, seedVars
  <2> QED
    BY <1>s, <2>1
<1>12. ASSUME NEW p \in Handlers, CheckOwned(p)
       PROVE  \A q \in Handlers : HandlerIdentityOK(q)'
  BY <1>12, <1>c DEF CheckOwned
<1>13. ASSUME NEW p \in Handlers, RegionCandidates(p) \/ AnyCandidates(p) \/ DrainOwned(p)
       PROVE  \A q \in Handlers : HandlerIdentityOK(q)'
  <2>1. \/ Return(p)
        \/ /\ pc'[p] \in {"any", "drain", "move"} /\ list'[p] = list[p]
           /\ OthersKept(p)
    BY <1>13, <1>t DEF RegionCandidates, AnyCandidates, DrainOwned, Goto, LocalTypeOK,
                       OthersKept, callVars, seedVars
  <2>2. CASE Return(p)
    BY <1>r, <2>2
  <2>3. CASE pc'[p] \in {"any", "drain", "move"} /\ list'[p] = list[p] /\ OthersKept(p)
    <3>1. HandlerIdentityOK(p)'
      BY <2>3, SMTT(30) DEF IdentitiesOK, HandlerIdentityOK, NonMasterAddress
    <3> QED
      BY <1>s, <2>3, <3>1
  <2> QED BY <2>1, <2>2, <2>3
<1>14. ASSUME NEW p \in Handlers, MoveEntry(p)
       PROVE  \A q \in Handlers : HandlerIdentityOK(q)'
  BY <1>14 DEF MoveEntry, callVars, seedVars, IdentitiesOK, HandlerIdentityOK, NonMasterAddress
<1> QED
  BY <1>0, <1>1, <1>2, <1>3, <1>4, <1>5, <1>6, <1>7, <1>8, <1>9, <1>10, <1>11,
     <1>12, <1>13, <1>14 DEF Next

(* Every step keeps the identities those of the requests. *)
LEMMA IdentitiesStep ==
  ASSUME TypeOK, LocalsOK, IdentitiesOK, [Next]_vars
  PROVE  IdentitiesOK'
<1> USE ControlPlaneAssumption
<1>t. RegistryTypeOK
  BY DEF TypeOK
<1>i. \A n \in Names : NodeIdentityOK(n)
  BY DEF IdentitiesOK
<1> SUFFICES \A n \in Names : NodeIdentityOK(n)'
  BY HandlerIdentityStep DEF IdentitiesOK
<1>0. CASE UNCHANGED vars
  BY <1>0, <1>i DEF vars, stores, NodeIdentityOK
<1>1. CASE SelfRegister
  <2>1. Self \in Identities /\ Self \in RegisterRequest
    BY <1>1 DEF SelfRegister, LocalsOK, Identities
  <2> QED
    BY <1>1, <1>t, <1>i, <2>1, RegisterIdentity DEF SelfRegister
<1>2. ASSUME NEW p \in Handlers, NEW req \in Requests, RegisterNode(p, req)
      PROVE  \A n \in Names : NodeIdentityOK(n)'
  <2>1. req \in Identities /\ req \in RegisterRequest
    BY DEF Identities
  <2> QED
    BY <1>2, <1>t, <1>i, <2>1, RegisterIdentity DEF RegisterNode
<1>3. ASSUME NEW p \in Handlers, NEW n \in Names, NEW key \in HeartbeatKeys, Heartbeat(p, n, key)
      PROVE  \A m \in Names : NodeIdentityOK(m)'
  <2>1. key \in Keys /\ byName[n] # Nil /\ HeartbeatIdentity(n, key)
    BY <1>3 DEF Heartbeat
  <2>2. /\ \A m \in Names : (byName'[m] # Nil) <=> (byName[m] # Nil)
        /\ \A m \in Names : byName[m] # Nil => byName'[m].overlay = byName[m].overlay
        /\ \A m \in Names : byName[m] # Nil => byName'[m].roles = byName[m].roles
    BY <1>t, <2>1, HeartbeatKeeps
  <2> QED
    BY <1>i, <2>2, SMTT(30) DEF NodeIdentityOK
<1>4. ASSUME NEW p \in Handlers, Rollback(p) \/ RemoveNode(p)
      PROVE  \A n \in Names : NodeIdentityOK(n)'
  <2>1. name[p] \in Names /\ Remove(name[p])
    BY <1>4 DEF Rollback, RemoveNode, LocalsOK, HandlerOK
  <2>2. \A n \in Names : byName'[n] \in {byName[n], Nil}
    BY <1>t, <2>1 DEF Remove, registryVars, RegistryTypeOK
  <2> QED
    BY <1>i, <2>2, SMTT(30) DEF NodeIdentityOK
<1>5. ASSUME NEW p \in Handlers, QuietStep(p)
      PROVE  \A n \in Names : NodeIdentityOK(n)'
  BY <1>5, <1>i, QuietKeeps, SMTT(30) DEF NodeIdentityOK
<1> QED
  BY <1>0, <1>1, <1>2, <1>3, <1>4, <1>5 DEF Next, QuietStep

(* What MasterOwnsItself says of one node. *)
OwnsItself(n) ==
    Registered(n) /\ HasMasterRole(byName[n]) =>
      \/ entries[byName[n].overlay] = n
      \/ byName[n].overlay \notin ValidOverlays
      \/ \E p \in Handlers : name[p] = n /\ pc[p] \in {"reassign", "move"}

(* Two requests for one name or one address are for the same node, so a    *)
(* registered node agrees with any request that shares its address.        *)
LEMMA OneIdentity ==
  ASSUME StableIdentities, NEW n \in Names, Registered(n), NodeIdentityOK(n),
         NEW r \in Identities
  PROVE  /\ r.overlay = byName[n].overlay => r.name = n /\ r.roles = byName[n].roles
         /\ r.name = n => r.overlay = byName[n].overlay
  BY DEF StableIdentities, NodeIdentityOK

(* Every step keeps the masters owners of their own addresses. *)
LEMMA MasterStep ==
  ASSUME TypeOK, LocalsOK, IdentitiesOK, StableIdentities,
         \A n \in Names : OwnsItself(n), [Next]_vars
  PROVE  \A n \in Names : OwnsItself(n)'
<1> SUFFICES ASSUME NEW n \in Names
             PROVE  OwnsItself(n)'
  OBVIOUS
<1> USE ControlPlaneAssumption
<1>t. RegistryTypeOK /\ LedgerTypeOK /\ LocalTypeOK /\ StoreTypeOK
  BY TypeSplit DEF TypeOK
<1>i. NodeIdentityOK(n) /\ OwnsItself(n)
  BY DEF IdentitiesOK
<1>0. CASE UNCHANGED vars
  BY <1>0, <1>i DEF vars, stores, callVars, OwnsItself
<1>1. CASE SelfRegister
  <2>1. Self \in Identities /\ Self \in RegisterRequest /\ Self.overlay \in Overlays
    BY <1>1 DEF SelfRegister, LocalsOK, Identities, CanRegister, RegisterRequest
  <2>2. /\ \A m \in Names \ {Self.name} : byName'[m] = byName[m]
        /\ byName'[Self.name].overlay = Self.overlay
    BY <1>1, <1>t, <2>1, RegisterIdentity DEF SelfRegister, IdentitiesOK
  <2>3. /\ entries' = [entries EXCEPT ![Self.overlay] = Self.name]
        /\ pc' = pc /\ name' = name
    BY <1>1 DEF SelfRegister, Reassign, callVars
  <2>4. CASE n = Self.name
    BY <1>t, <2>1, <2>2, <2>3, <2>4 DEF OwnsItself, LedgerTypeOK
  <2>5. CASE n # Self.name
    <3>1. byName'[n] = byName[n]
      BY <2>2, <2>5
    <3>2. Registered(n) => byName[n].overlay # Self.overlay
      BY <1>i, <2>1, <2>5, OneIdentity
    <3> QED
      BY <1>t, <1>i, <2>3, <3>1, <3>2, SMTT(30) DEF OwnsItself, LedgerTypeOK, RegistryTypeOK, RegisteredNode
  <2> QED
    BY <2>4, <2>5
<1>2. ASSUME NEW p \in Handlers, NEW req \in Requests, RegisterNode(p, req)
      PROVE  OwnsItself(n)'
  <2>1. req \in Identities /\ req \in RegisterRequest
    BY DEF Identities
  <2>2. /\ \A m \in Names \ {req.name} : byName'[m] = byName[m]
        /\ byName'[req.name].roles = req.roles
    BY <1>2, <1>t, <2>1, RegisterIdentity DEF RegisterNode, IdentitiesOK
  <2>3. /\ entries' = entries
        /\ pc[p] = "idle"
        /\ name'[p] = req.name
        /\ HasMasterRole(req) => pc'[p] = "reassign"
        /\ \A q \in Handlers \ {p} : pc'[q] = pc[q] /\ name'[q] = name[q]
    BY <1>2, <1>t DEF RegisterNode, Start, Goto, LocalTypeOK
  <2>4. CASE n = req.name
    BY <2>2, <2>3, <2>4 DEF OwnsItself
  <2>5. CASE n # req.name
    BY <1>i, <2>2, <2>3, <2>5 DEF OwnsItself
  <2> QED
    BY <2>4, <2>5
<1>3. ASSUME NEW p \in Handlers, NEW k \in Names, NEW key \in HeartbeatKeys, Heartbeat(p, k, key)
      PROVE  OwnsItself(n)'
  <2>1. key \in Keys /\ byName[k] # Nil /\ HeartbeatIdentity(k, key)
    BY <1>3 DEF Heartbeat
  <2>2. /\ (byName'[n] # Nil) <=> (byName[n] # Nil)
        /\ byName[n] # Nil => byName'[n].overlay = byName[n].overlay
        /\ byName[n] # Nil => byName'[n].roles = byName[n].roles
    BY <1>t, <2>1, HeartbeatKeeps
  <2>3. /\ entries' = entries
        /\ pc[p] = "idle"
        /\ \A q \in Handlers \ {p} : pc'[q] = pc[q] /\ name'[q] = name[q]
    BY <1>3, <1>t DEF Heartbeat, Start, Goto, LocalTypeOK
  <2> QED
    BY <1>i, <2>2, <2>3 DEF OwnsItself
<1>4. ASSUME NEW p \in Handlers, Rollback(p) \/ RemoveNode(p)
      PROVE  OwnsItself(n)'
  <2>1. name[p] \in Names /\ Remove(name[p]) /\ Return(p) /\ entries' = entries
    BY <1>4 DEF Rollback, RemoveNode, LocalsOK, HandlerOK
  <2>2. OthersKept(p)
    BY <1>t, <2>1, ReturnLocals
  <2>3. CASE n = name[p]
    BY <1>t, <2>1, <2>3 DEF OwnsItself, Remove, registryVars, RegistryTypeOK
  <2>4. CASE n # name[p]
    <3>1. byName'[n] = byName[n]
      BY <1>t, <2>1, <2>4 DEF Remove, registryVars, RegistryTypeOK
    <3> QED
      BY <1>i, <2>1, <2>2, <2>4, <3>1 DEF OwnsItself, OthersKept
  <2> QED
    BY <2>3, <2>4
<1>5. ASSUME NEW p \in Handlers, ReassignOwn(p)
      PROVE  OwnsItself(n)'
  <2>1. PICK r \in Identities : HasMasterRole(r) /\ r.name = name[p] /\ r.overlay = overlay[p]
    BY <1>5 DEF ReassignOwn, IdentitiesOK, HandlerIdentityOK
  <2>2. byName' = byName /\ pc[p] = "reassign" /\ OthersKept(p) /\ overlay[p] \in Overlays
    BY <1>5, <1>t, ContinueLocals DEF ReassignOwn, LocalsOK, HandlerOK
  <2>3. CASE overlay[p] \in ValidOverlays
    <3>1. entries' = [entries EXCEPT ![overlay[p]] = name[p]]
      BY <1>5, <2>3 DEF ReassignOwn, Reassign
    <3>2. CASE n = name[p]
      <4>1. Registered(n) => byName[n].overlay = overlay[p]
        BY <1>i, <2>1, <3>2, OneIdentity
      <4> QED
        BY <1>t, <2>2, <3>1, <3>2, <4>1 DEF OwnsItself, LedgerTypeOK
    <3>3. CASE n # name[p]
      <4>1. Registered(n) => byName[n].overlay # overlay[p]
        BY <1>i, <2>1, <3>3, OneIdentity
      <4>2. Registered(n) => entries'[byName[n].overlay] = entries[byName[n].overlay]
        BY <1>t, <3>1, <4>1 DEF LedgerTypeOK, RegistryTypeOK, RegisteredNode
      <4> QED
        BY <1>i, <2>2, <3>3, <4>2, SMTT(30) DEF OwnsItself, OthersKept
    <3> QED
      BY <3>2, <3>3
  <2>4. CASE overlay[p] \notin ValidOverlays
    <3>1. entries' = entries
      BY <1>5, <2>4 DEF ReassignOwn, ledgerVars
    <3>2. CASE n = name[p]
      <4>1. Registered(n) => byName[n].overlay = overlay[p]
        BY <1>i, <2>1, <3>2, OneIdentity
      <4> QED
        BY <2>2, <2>4, <4>1 DEF OwnsItself
    <3>3. CASE n # name[p]
      BY <1>i, <2>2, <3>1, <3>3, SMTT(30) DEF OwnsItself, OthersKept
    <3> QED
      BY <3>2, <3>3
  <2> QED
    BY <2>3, <2>4
<1>6. ASSUME NEW p \in Handlers, SeedAssign(p)
      PROVE  OwnsItself(n)'
  <2>1. PICK r \in Identities : ~HasMasterRole(r) /\ r.overlay = overlay[p]
    BY <1>6 DEF SeedAssign, IdentitiesOK, HandlerIdentityOK, NonMasterAddress
  <2>2. byName' = byName /\ pc[p] = "assign" /\ OthersKept(p) /\ overlay[p] \in Overlays
    <3>1. HandlerOK(p) /\ pc[p] = "assign" /\ byName' = byName
      BY <1>6 DEF SeedAssign, LocalsOK
    <3>2. OthersKept(p)
      BY <1>6, <1>t, <3>1, ContinueLocals, FailLocals DEF SeedAssign
    <3> QED
      BY <3>1, <3>2 DEF HandlerOK
  <2>3. entries' = entries \/ entries' = [entries EXCEPT ![overlay[p]] = owner[p]]
    BY <1>6 DEF SeedAssign, Reassign, ledgerVars
  <2>4. Registered(n) /\ HasMasterRole(byName[n]) => byName[n].overlay # overlay[p]
    BY <1>i, <2>1, OneIdentity, SMTT(30)
  <2>5. Registered(n) /\ HasMasterRole(byName[n]) =>
          entries'[byName[n].overlay] = entries[byName[n].overlay]
    BY <1>t, <2>3, <2>4 DEF LedgerTypeOK, RegistryTypeOK, RegisteredNode
  <2> QED
    BY <1>i, <2>2, <2>5, SMTT(30) DEF OwnsItself, OthersKept
<1>7. ASSUME NEW p \in Handlers, MoveEntry(p)
      PROVE  OwnsItself(n)'
  <2>1. PICK o \in drain[p], m \in cands[p] : ReassignExpecting(o, name[p], m)
    BY <1>7 DEF MoveEntry
  <2>2. byName' = byName /\ pc' = pc /\ name' = name /\ pc[p] = "move"
    BY <1>7 DEF MoveEntry, callVars
  <2>3. \A q \in Overlays : entries'[q] = entries[q] \/ entries[q] = name[p]
    BY <1>t, <2>1 DEF ReassignExpecting, Reassign, ledgerVars, LedgerTypeOK
  <2> QED
    BY <1>t, <1>i, <2>2, <2>3, SMTT(30) DEF OwnsItself, RegistryTypeOK, RegisteredNode
<1>8. ASSUME NEW p \in Handlers,
             \/ LookupSaved(p) \/ ListNodes(p) \/ SeedSnapshot(p) \/ ScanEntry(p)
             \/ SeedLookup(p) \/ NotifyRegistrationObserver(p)
             \/ \E k \in Names : DecommissionNode(p, k)
             \/ CheckOwned(p) \/ RegionCandidates(p) \/ AnyCandidates(p) \/ DrainOwned(p)
      PROVE  OwnsItself(n)'
  <2>1. byName' = byName /\ entries' = entries
    BY <1>8 DEF LookupSaved, ListNodes, SeedSnapshot, ScanEntry, SeedLookup,
          NotifyRegistrationObserver, DecommissionNode, CheckOwned,
          RegionCandidates, AnyCandidates, DrainOwned, stores
  <2>2. pc[p] \notin {"reassign", "move"}
    <3>1. CASE LookupSaved(p) \/ ListNodes(p) \/ SeedSnapshot(p) \/ ScanEntry(p)
               \/ SeedLookup(p) \/ NotifyRegistrationObserver(p)
      BY <3>1 DEF LookupSaved, ListNodes, SeedSnapshot, ScanEntry, SeedLookup,
            NotifyRegistrationObserver
    <3>2. CASE \/ \E k \in Names : DecommissionNode(p, k)
               \/ CheckOwned(p) \/ RegionCandidates(p) \/ AnyCandidates(p) \/ DrainOwned(p)
      BY <3>2 DEF DecommissionNode, Start, CheckOwned, RegionCandidates,
            AnyCandidates, DrainOwned
    <3> QED BY <1>8, <3>1, <3>2
  <2>3. \A q \in Handlers \ {p} : pc'[q] = pc[q] /\ name'[q] = name[q]
    <3>1. CASE Return(p) \/ \E l \in PCs : Continue(p, l)
      BY <1>t, <3>1 DEF Return, Continue, Goto, callVars, LocalTypeOK
    <3>2. CASE LookupSaved(p) \/ ListNodes(p) \/ SeedSnapshot(p) \/ ScanEntry(p)
      BY <1>t, <3>1, <3>2 DEF LookupSaved, ListNodes, SeedSnapshot, ScanEntry, Goto,
            callVars, LocalTypeOK
    <3>3. CASE SeedLookup(p) \/ NotifyRegistrationObserver(p) \/ CheckOwned(p)
      BY <3>1, <3>3 DEF SeedLookup, NotifyRegistrationObserver, CheckOwned, Fail, PCs
    <3>4. CASE \/ \E k \in Names : DecommissionNode(p, k)
               \/ RegionCandidates(p) \/ AnyCandidates(p) \/ DrainOwned(p)
      BY <1>t, <3>1, <3>4 DEF DecommissionNode, Start, RegionCandidates, AnyCandidates,
            DrainOwned, Goto, callVars, LocalTypeOK
    <3> QED BY <1>8, <3>1, <3>2, <3>3, <3>4
  <2> QED
    BY <1>i, <2>1, <2>2, <2>3 DEF OwnsItself
<1> QED
  BY <1>0, <1>1, <1>2, <1>3, <1>4, <1>5, <1>6, <1>7, <1>8 DEF Next

(* Nothing is served, and nothing owned, before the master's own entry. *)
LEMMA StartupStep ==
  ASSUME TypeOK, StartupOK, [Next]_vars
  PROVE  StartupOK'
<1>0. CASE UNCHANGED vars
  BY <1>0 DEF vars, stores, StartupOK
<1>1. CASE SelfRegister
  BY <1>1 DEF SelfRegister, StartupOK
<1>2. ASSUME NEW p \in Handlers, pc[p] # "idle" \/ serving, serving' = serving
      PROVE  StartupOK'
  BY <1>2 DEF StartupOK
<1>3. ASSUME NEW p \in Handlers,
             \/ \E req \in Requests : RegisterNode(p, req)
             \/ \E n \in Names, key \in HeartbeatKeys : Heartbeat(p, n, key)
             \/ \E n \in Names : DecommissionNode(p, n)
      PROVE  (pc[p] # "idle" \/ serving) /\ serving' = serving
  BY <1>3 DEF RegisterNode, Heartbeat, DecommissionNode, Start, stores
<1>4. ASSUME NEW p \in Handlers,
             \/ ReassignOwn(p) \/ LookupSaved(p) \/ ListNodes(p) \/ SeedSnapshot(p)
             \/ ScanEntry(p) \/ SeedLookup(p) \/ SeedAssign(p)
             \/ NotifyRegistrationObserver(p) \/ Rollback(p) \/ CheckOwned(p)
             \/ RegionCandidates(p) \/ AnyCandidates(p) \/ DrainOwned(p)
             \/ MoveEntry(p) \/ RemoveNode(p)
      PROVE  (pc[p] # "idle" \/ serving) /\ serving' = serving
  BY <1>4 DEF ReassignOwn, LookupSaved, ListNodes, SeedSnapshot, ScanEntry,
        SeedLookup, SeedAssign, NotifyRegistrationObserver, Rollback, CheckOwned,
        RegionCandidates, AnyCandidates, DrainOwned, MoveEntry, RemoveNode, stores
<1> QED
  BY <1>0, <1>1, <1>2, <1>3, <1>4 DEF Next

(* The empty control plane satisfies the inductive invariant. *)
LEMMA InitIndInv ==
  ASSUME Init
  PROVE  IndInv
<1> USE MeshAssumption, RegistryAssumption, LedgerAssumption, ControlPlaneAssumption
<1>1. TypeOK
  BY DEF Init, NewRegistry, NewLedger, TypeOK, RegistryTypeOK, LedgerTypeOK, PCs
<1>2. LocalsOK
  BY DEF Init, LocalsOK, HandlerOK
<1>3. StartupOK
  BY DEF Init, NewLedger, NewRegistry, StartupOK
<1>4. RegistryIndexesAgree
  BY DEF Init, NewRegistry, RegistryIndexesAgree
<1>5. IdentitiesOK
  BY DEF Init, NewRegistry, IdentitiesOK, NodeIdentityOK, HandlerIdentityOK
<1>6. MasterOwnsItself
  BY DEF Init, NewRegistry, MasterOwnsItself
<1> QED
  BY <1>1, <1>2, <1>3, <1>4, <1>5, <1>6 DEF IndInv

(* Every step keeps it. *)
LEMMA StepIndInv ==
  ASSUME IndInv, [Next]_vars
  PROVE  IndInv'
<1>0. TypeOK /\ LocalsOK /\ StartupOK /\ RegistryIndexesAgree /\ IdentitiesOK
  BY DEF IndInv
<1>1. TypeOK'
  BY <1>0, TypeStep
<1>2. LocalsOK'
  BY <1>0, LocalsStep
<1>3. StartupOK'
  BY <1>0, StartupStep
<1>4. RegistryIndexesAgree'
  BY <1>0, IndexStep
<1>5. IdentitiesOK'
  BY <1>0, IdentitiesStep
<1>6. MasterOwnsItself'
  <2>1. StableIdentities' <=> StableIdentities
    BY DEF StableIdentities, Identities
  <2>2. CASE StableIdentities
    <3>1. \A n \in Names : OwnsItself(n)
      BY <2>2 DEF IndInv, MasterOwnsItself, OwnsItself
    <3>2. \A n \in Names : OwnsItself(n)'
      BY <1>0, <2>2, <3>1, MasterStep
    <3> QED
      BY <3>2 DEF MasterOwnsItself, OwnsItself
  <2> QED
    BY <2>1, <2>2 DEF MasterOwnsItself
<1> QED
  BY <1>1, <1>2, <1>3, <1>4, <1>5, <1>6 DEF IndInv

(* The invariant holds in every reachable state of the control plane. *)
LEMMA Inductive ==
  Spec => []IndInv
<1>1. Init => IndInv
  BY InitIndInv
<1>2. IndInv /\ [Next]_vars => IndInv'
  BY StepIndInv
<1> QED
  BY <1>1, <1>2, PTL DEF Spec

(* An owned address changes hands only in the three ways NoOwnerRobbed     *)
(* lists.                                                                  *)
LEMMA RobbedStep ==
  ASSUME IndInv, Next, NEW o \in Overlays, entries[o] # Nil, entries'[o] # entries[o]
  PROVE  \E p \in Handlers :
           \/ pc[p] = "move" /\ name[p] = entries[o]
           \/ pc[p] = "reassign" /\ overlay[p] = o
           \/ pc[p] = "assign" /\ overlay[p] = o
<1>t. LedgerTypeOK /\ TypeOK /\ LocalsOK /\ StartupOK
  BY DEF IndInv, TypeOK
<1>1. ~SelfRegister
  BY <1>t DEF SelfRegister, StartupOK
<1>2. ASSUME NEW p \in Handlers, ReassignOwn(p) \/ SeedAssign(p)
      PROVE  pc[p] \in {"reassign", "assign"} /\ overlay[p] = o
  BY <1>2, <1>t DEF ReassignOwn, SeedAssign, Reassign, ledgerVars, LedgerTypeOK
<1>3. ASSUME NEW p \in Handlers, MoveEntry(p)
      PROVE  pc[p] = "move" /\ name[p] = entries[o]
  <2>1. PICK q \in drain[p], m \in cands[p] : ReassignExpecting(q, name[p], m)
    BY <1>3 DEF MoveEntry
  <2> QED
    BY <1>3, <1>t, <2>1 DEF MoveEntry, ReassignExpecting, Reassign, ledgerVars, LedgerTypeOK
<1>4. ASSUME NEW p \in Handlers,
             \/ \E req \in Requests : RegisterNode(p, req)
             \/ \E n \in Names, key \in HeartbeatKeys : Heartbeat(p, n, key)
             \/ \E n \in Names : DecommissionNode(p, n)
             \/ LookupSaved(p) \/ ListNodes(p) \/ SeedSnapshot(p)
             \/ ScanEntry(p) \/ SeedLookup(p)
             \/ NotifyRegistrationObserver(p) \/ Rollback(p) \/ CheckOwned(p)
             \/ RegionCandidates(p) \/ AnyCandidates(p) \/ DrainOwned(p)
             \/ RemoveNode(p)
      PROVE  FALSE
  BY <1>4 DEF RegisterNode, Heartbeat, DecommissionNode, LookupSaved, ListNodes,
        SeedSnapshot, ScanEntry, SeedLookup, NotifyRegistrationObserver, Rollback,
        CheckOwned, RegionCandidates, AnyCandidates, DrainOwned, RemoveNode, stores
<1> QED
  BY <1>1, <1>2, <1>3, <1>4 DEF Next

-----------------------------------------------------------------------------
(* Seeding (NobodyLeftUnseeded).  Whoever is registered and unowned while  *)
(* the one master m is registered waits for a handler that is going to     *)
(* seed it or to take m or the node itself out again.                      *)

TheMaster(m) == \A r \in Identities : HasMasterRole(r) => r.name = m

IsMaster(n) == Registered(n) /\ HasMasterRole(byName[n])

Waiting(m, n) == IsMaster(m) /\ Registered(n) /\ entries[byName[n].overlay] = Nil

(* p is the RegisterNode of m or of n.  Until m owns its own address only  *)
(* the registration of m counts; after that the snapshot of the ledger     *)
(* that p takes shows m, and p has n still on its list or in its hands.    *)
WillSeed(p, m, n) ==
    /\ op[p] = "register"
    /\ name[p] \in {m, n}
    /\ \/ pc[p] = "reassign" /\ name[p] = m /\ overlay[p] = byName[m].overlay
       \/ pc[p] = "rollback"
       \/ /\ entries[byName[m].overlay] = m
          /\ \/ pc[p] \in {"lookup", "list"}
             \/ pc[p] \in {"seed", "scan", "assign"} /\ <<n, byName[n].overlay>> \in list[p]
             \/ /\ pc[p] = "scan" /\ overlay[p] = byName[n].overlay
                /\ owner[p] = m \/ <<byName[m].overlay, m>> \in scan[p]
             \/ pc[p] = "assign" /\ overlay[p] = byName[n].overlay

Awaited(m, n) == Waiting(m, n) => \E p \in Handlers : WillSeed(p, m, n)

(* With one master nobody else owns, is found as owner or is a successor. *)
SoleHandler(p, m) ==
    scan[p] \subseteq Overlays \X {m} /\ owner[p] \in {Nil, m} /\ cands[p] \subseteq {m}

SoleOwner(m) ==
    /\ \A o \in Overlays : entries[o] \in {Nil, m}
    /\ \A p \in Handlers : SoleHandler(p, m)

SeedInv == \A m \in Names : TheMaster(m) => SoleOwner(m) /\ \A n \in Names : Awaited(m, n)

(* A step of p changes the locals of no other handler. *)
HandlerStep(p) ==
    \/ QuietStep(p)
    \/ \E req \in Requests : RegisterNode(p, req)
    \/ \E n \in Names, key \in HeartbeatKeys : Heartbeat(p, n, key)
    \/ Rollback(p) \/ RemoveNode(p)

Kept(p) ==
    \A q \in Handlers \ {p} :
        /\ pc'[q] = pc[q] /\ op'[q] = op[q] /\ name'[q] = name[q]
        /\ overlay'[q] = overlay[q] /\ saved'[q] = saved[q] /\ list'[q] = list[q]
        /\ scan'[q] = scan[q] /\ owner'[q] = owner[q]
        /\ cands'[q] = cands[q] /\ drain'[q] = drain[q]

LEMMA ReturnKeeps ==
  ASSUME NEW p \in Handlers, LocalTypeOK, Return(p)
  PROVE  /\ Kept(p)
         /\ pc'[p] = "idle" /\ scan'[p] = {} /\ owner'[p] = Nil
         /\ cands'[p] = {} /\ drain'[p] = {} /\ list'[p] = {}
  BY DEF LocalTypeOK, Return, Goto, Kept

LEMMA ContinueKeeps ==
  ASSUME NEW p \in Handlers, NEW l, LocalTypeOK, Continue(p, l)
  PROVE  /\ Kept(p)
         /\ pc'[p] = l /\ op' = op /\ name' = name /\ overlay' = overlay /\ saved' = saved
         /\ list' = list /\ scan' = scan /\ owner' = owner /\ cands' = cands /\ drain' = drain
  BY DEF LocalTypeOK, Continue, Goto, Kept, callVars, seedVars, drainVars

LEMMA StepKeeps ==
  ASSUME NEW p \in Handlers, LocalTypeOK, HandlerStep(p)
  PROVE  Kept(p)
<1>f. ASSUME Fail(p) PROVE Kept(p)
  BY <1>f, ReturnKeeps, ContinueKeeps DEF Fail
<1>1. CASE ReassignOwn(p) \/ SeedLookup(p) \/ SeedAssign(p) \/ CheckOwned(p)
  BY <1>1, <1>f, ContinueKeeps DEF ReassignOwn, SeedLookup, SeedAssign, CheckOwned
<1>2. CASE NotifyRegistrationObserver(p) \/ Rollback(p) \/ RemoveNode(p)
  BY <1>2, <1>f, ReturnKeeps DEF NotifyRegistrationObserver, Rollback, RemoveNode
<1>3. CASE LookupSaved(p)
  <2>1. CASE Return(p)
    BY <2>1, ReturnKeeps
  <2>2. CASE ~Return(p)
    BY <1>3, <2>2, SMTT(30) DEF LookupSaved, Goto, LocalTypeOK, Kept, drainVars
  <2> QED BY <2>1, <2>2
<1>4. CASE ListNodes(p)
  BY <1>4 DEF ListNodes, Goto, LocalTypeOK, Kept, callVars, drainVars
<1>5. CASE SeedSnapshot(p)
  BY <1>5 DEF SeedSnapshot, Goto, LocalTypeOK, Kept, callVars, drainVars
<1>6. CASE ScanEntry(p)
  BY <1>6 DEF ScanEntry, Goto, LocalTypeOK, Kept, callVars, drainVars
<1>7. CASE RegionCandidates(p) \/ AnyCandidates(p) \/ DrainOwned(p)
  BY <1>7, ReturnKeeps DEF RegionCandidates, AnyCandidates, DrainOwned, Goto, LocalTypeOK,
                           Kept, callVars, seedVars
<1>8. CASE MoveEntry(p)
  BY <1>8 DEF MoveEntry, LocalTypeOK, Kept, callVars, seedVars
<1>9. CASE \E n \in Names : DecommissionNode(p, n)
  BY <1>9 DEF DecommissionNode, Start, Goto, LocalTypeOK, Kept, seedVars, drainVars
<1>10. CASE \E req \in Requests : RegisterNode(p, req)
  BY <1>10 DEF RegisterNode, Start, Goto, LocalTypeOK, Kept, drainVars
<1>11. CASE \E n \in Names, key \in HeartbeatKeys : Heartbeat(p, n, key)
  BY <1>11 DEF Heartbeat, Start, Goto, LocalTypeOK, Kept, seedVars, drainVars
<1> QED
  BY <1>1, <1>2, <1>3, <1>4, <1>5, <1>6, <1>7, <1>8, <1>9, <1>10, <1>11 DEF HandlerStep, QuietStep

(* Every registered master is the one of the deployment, and so is whoever *)
(* is about to take its own address.                                       *)
LEMMA MasterIsSole ==
  ASSUME IdentitiesOK, NEW m \in Names, TheMaster(m)
  PROVE  /\ \A n \in Names : IsMaster(n) => n = m
         /\ \A p \in Handlers : pc[p] = "reassign" => name[p] = m
  BY DEF IdentitiesOK, NodeIdentityOK, HandlerIdentityOK, TheMaster, IsMaster

(* With one master, nobody else becomes an owner, and no owned address is  *)
(* lost.                                                                   *)
SoleNext(m) == SoleOwner(m)' /\ \A o \in Overlays : entries[o] = m => entries'[o] = m

LEMMA SoleStep ==
  ASSUME TypeOK, LocalsOK, IdentitiesOK, NEW m \in Names, TheMaster(m), SoleOwner(m), [Next]_vars
  PROVE  SoleNext(m)
<1> USE MeshAssumption, RegistryAssumption, ControlPlaneAssumption, LedgerAssumption
<1>t. LocalTypeOK /\ RegistryTypeOK /\ LedgerTypeOK /\ m # Nil
  BY TypeSplit DEF TypeOK
<1>h. \A p \in Handlers : SoleHandler(p, m)
  BY DEF SoleOwner
<1>e. \A o \in Overlays : entries[o] \in {Nil, m}
  BY DEF SoleOwner
<1>w. ASSUME \/ entries' = entries
             \/ \E o \in Overlays : entries' = [entries EXCEPT ![o] = m]
      PROVE  \A o \in Overlays : entries'[o] \in {Nil, m} /\ (entries[o] = m => entries'[o] = m)
  BY <1>w, <1>t, <1>e DEF LedgerTypeOK
<1>o. ASSUME NEW p \in Handlers, HandlerStep(p), SoleHandler(p, m)'
      PROVE  \A q \in Handlers : SoleHandler(q, m)'
  <2>1. Kept(p)
    BY <1>o, <1>t, StepKeeps
  <2>2. ASSUME NEW q \in Handlers, q # p PROVE SoleHandler(q, m)'
    BY <1>h, <2>1, <2>2 DEF Kept, SoleHandler
  <2> QED
    BY <1>o, <2>2
<1>r. ASSUME NEW p \in Handlers, Return(p) PROVE SoleHandler(p, m)'
  BY <1>r, <1>t, ReturnKeeps DEF SoleHandler
<1>c. ASSUME NEW p \in Handlers, NEW l, Continue(p, l) PROVE SoleHandler(p, m)'
  BY <1>c, <1>t, <1>h, ContinueKeeps DEF SoleHandler
<1>f. ASSUME NEW p \in Handlers, Fail(p) PROVE SoleHandler(p, m)'
  BY <1>f, <1>r, <1>c DEF Fail
<1>s. ASSUME NEW p \in Handlers, scan'[p] = scan[p], owner'[p] = owner[p], cands'[p] = cands[p]
      PROVE  SoleHandler(p, m)'
  BY <1>s, <1>h DEF SoleHandler
<1>0. CASE UNCHANGED vars
  BY <1>0, <1>h, <1>e DEF vars, stores, seedVars, drainVars, SoleNext, SoleOwner, SoleHandler
<1>1. CASE SelfRegister
  <2>1. Self.name = m /\ Self.overlay \in Overlays
    BY <1>1 DEF SelfRegister, LocalsOK, TheMaster, Identities
  <2>2. \E o \in Overlays : entries' = [entries EXCEPT ![o] = m]
    BY <1>1, <2>1 DEF SelfRegister, Reassign
  <2>3. \A p \in Handlers : SoleHandler(p, m)'
    BY <1>1, <1>h DEF SelfRegister, seedVars, drainVars, SoleHandler
  <2> QED
    BY <1>w, <2>2, <2>3 DEF SoleNext, SoleOwner
<1>2. ASSUME NEW p \in Handlers, ReassignOwn(p)
      PROVE  SoleNext(m)
  <2>1. name[p] = m
    BY <1>2, MasterIsSole DEF ReassignOwn
  <2>2. SoleHandler(p, m)'
    BY <1>2, <1>c DEF ReassignOwn
  <2>3. entries' = entries \/ \E o \in Overlays : entries' = [entries EXCEPT ![o] = m]
    BY <1>2, <2>1 DEF ReassignOwn, Reassign, ledgerVars
  <2> QED
    BY <1>2, <1>o, <1>w, <2>2, <2>3 DEF SoleNext, SoleOwner, HandlerStep, QuietStep
<1>3. ASSUME NEW p \in Handlers, SeedAssign(p)
      PROVE  SoleNext(m)
  <2>1. owner[p] = m
    BY <1>3, <1>h DEF SeedAssign, LocalsOK, HandlerOK, SoleHandler
  <2>2. SoleHandler(p, m)'
    BY <1>3, <1>c, <1>f DEF SeedAssign
  <2>3. entries' = entries \/ \E o \in Overlays : entries' = [entries EXCEPT ![o] = m]
    BY <1>3, <2>1 DEF SeedAssign, Reassign, ledgerVars
  <2> QED
    BY <1>3, <1>o, <1>w, <2>2, <2>3 DEF SoleNext, SoleOwner, HandlerStep, QuietStep
<1>4. ASSUME NEW p \in Handlers, MoveEntry(p)
      PROVE  SoleNext(m)
  <2>1. PICK o \in drain[p], k \in cands[p] : ReassignExpecting(o, name[p], k)
    BY <1>4 DEF MoveEntry
  <2>2. k = m /\ o \in Overlays
    BY <1>h, <1>t DEF SoleHandler, LocalTypeOK
  <2>3. SoleHandler(p, m)'
    BY <1>4, <1>s DEF MoveEntry, seedVars
  <2>4. entries' = entries \/ \E q \in Overlays : entries' = [entries EXCEPT ![q] = m]
    BY <2>1, <2>2 DEF ReassignExpecting, Reassign, ledgerVars
  <2> QED
    BY <1>4, <1>o, <1>w, <2>3, <2>4 DEF SoleNext, SoleOwner, HandlerStep, QuietStep
<1>q. ASSUME NEW p \in Handlers, HandlerStep(p), entries' = entries, SoleHandler(p, m)'
      PROVE  SoleNext(m)
  BY <1>q, <1>o, <1>w DEF SoleNext, SoleOwner
<1>5. ASSUME NEW p \in Handlers,
             \/ \E req \in Requests : RegisterNode(p, req)
             \/ \E n \in Names, key \in HeartbeatKeys : Heartbeat(p, n, key)
             \/ \E n \in Names : DecommissionNode(p, n)
             \/ ListNodes(p)
      PROVE  SoleNext(m)
  <2>1. scan' = scan /\ owner' = owner /\ cands' = cands /\ entries' = entries
    BY <1>5 DEF RegisterNode, Heartbeat, DecommissionNode, ListNodes, stores, seedVars, drainVars
  <2> QED
    BY <1>5, <1>q, <1>s, <2>1 DEF HandlerStep, QuietStep
<1>6. ASSUME NEW p \in Handlers, LookupSaved(p)
      PROVE  SoleNext(m)
  <2>1. Return(p) \/ (scan' = scan /\ owner' = owner /\ cands' = cands)
    BY <1>6 DEF LookupSaved, drainVars
  <2>2. entries' = entries
    BY <1>6 DEF LookupSaved, stores
  <2> QED
    BY <1>6, <1>q, <1>r, <1>s, <2>1, <2>2 DEF HandlerStep, QuietStep
<1>7. ASSUME NEW p \in Handlers, SeedSnapshot(p)
      PROVE  SoleNext(m)
  <2>1. /\ scan'[p] = {<<o, entries[o]>> : o \in {q \in Overlays : entries[q] # Nil}}
        /\ owner'[p] = Nil /\ cands' = cands /\ entries' = entries
    BY <1>7, <1>t DEF SeedSnapshot, LocalTypeOK, drainVars, stores
  <2>2. scan'[p] \subseteq Overlays \X {m}
    BY <1>e, <2>1, SMTT(30)
  <2>3. SoleHandler(p, m)'
    BY <1>h, <2>1, <2>2 DEF SoleHandler
  <2> QED
    BY <1>7, <1>q, <2>1, <2>3 DEF HandlerStep, QuietStep
<1>8. ASSUME NEW p \in Handlers, ScanEntry(p)
      PROVE  SoleNext(m)
  <2>1. PICK entry \in scan[p] :
          /\ scan' = [scan EXCEPT ![p] = {}] \/ scan' = [scan EXCEPT ![p] = @ \ {entry}]
          /\ \/ owner' = [owner EXCEPT ![p] = Nil]
             \/ owner' = [owner EXCEPT ![p] = entry[2]]
             \/ owner' = [owner EXCEPT ![p] = @]
    BY <1>8 DEF ScanEntry
  <2>2. entry[2] = m
    BY <1>h DEF SoleHandler
  <2>3. scan'[p] \subseteq scan[p] /\ owner'[p] \in {Nil, m, owner[p]}
    BY <1>t, <2>1, <2>2, SMTT(30) DEF LocalTypeOK
  <2>4. cands' = cands /\ entries' = entries
    BY <1>8 DEF ScanEntry, drainVars, stores
  <2>5. SoleHandler(p, m)'
    BY <1>h, <2>3, <2>4 DEF SoleHandler
  <2> QED
    BY <1>8, <1>q, <2>4, <2>5 DEF HandlerStep, QuietStep
<1>9. ASSUME NEW p \in Handlers, SeedLookup(p) \/ CheckOwned(p)
      PROVE  SoleNext(m)
  <2>1. entries' = entries /\ SoleHandler(p, m)'
    BY <1>9, <1>c DEF SeedLookup, CheckOwned, stores
  <2> QED
    BY <1>9, <1>q, <2>1 DEF HandlerStep, QuietStep
<1>10. ASSUME NEW p \in Handlers, NotifyRegistrationObserver(p) \/ Rollback(p) \/ RemoveNode(p)
       PROVE  SoleNext(m)
  <2>1. entries' = entries /\ SoleHandler(p, m)'
    BY <1>10, <1>r, <1>f DEF NotifyRegistrationObserver, Rollback, RemoveNode
  <2> QED
    BY <1>10, <1>q, <2>1 DEF HandlerStep, QuietStep
<1>11. ASSUME NEW p \in Handlers, RegionCandidates(p) \/ AnyCandidates(p) \/ DrainOwned(p)
       PROVE  SoleNext(m)
  <2>1. \A region : MastersInRegion(region) \subseteq {m}
    BY MasterIsSole DEF MastersInRegion, IsMaster
  <2>2. entries' = entries
    BY <1>11 DEF RegionCandidates, AnyCandidates, DrainOwned, stores
  <2>3. Return(p) \/ (scan' = scan /\ owner' = owner /\ cands'[p] \subseteq {m})
    <3>1. cands[p] \subseteq {m}
      BY <1>h DEF SoleHandler
    <3>2. CASE RegionCandidates(p)
      BY <1>t, <2>1, <3>2 DEF RegionCandidates, LocalTypeOK, seedVars
    <3>3. CASE AnyCandidates(p)
      <4>1. CASE Return(p)
        BY <4>1
      <4>2. CASE ~Return(p)
        <5>1. /\ cands' = [cands EXCEPT ![p] = MastersInRegion(Nil) \ {name[p]}]
              /\ scan' = scan /\ owner' = owner
          BY <3>3, <4>2 DEF AnyCandidates, seedVars
        <5> QED
          BY <1>t, <2>1, <5>1 DEF LocalTypeOK
      <4> QED BY <4>1, <4>2
    <3>4. CASE DrainOwned(p)
      BY <3>1, <3>4 DEF DrainOwned, seedVars
    <3> QED BY <1>11, <3>2, <3>3, <3>4
  <2>4. SoleHandler(p, m)'
    BY <1>h, <1>r, <2>3 DEF SoleHandler
  <2> QED
    BY <1>11, <1>q, <2>2, <2>4 DEF HandlerStep, QuietStep
<1> QED
  BY <1>0, <1>1, <1>2, <1>3, <1>4, <1>5, <1>6, <1>7, <1>8, <1>9, <1>10, <1>11 DEF Next

(* What waits after a step of p waited before it, and who served it does.  *)
LEMMA WaitFrame ==
  ASSUME NEW m \in Names, NEW n \in Names, NEW p \in Handlers, Kept(p), Awaited(m, n),
         Waiting(m, n)' => /\ Waiting(m, n)
                           /\ byName'[m].overlay = byName[m].overlay
                           /\ byName'[n].overlay = byName[n].overlay
                           /\ entries[byName[m].overlay] = m => entries'[byName[m].overlay] = m,
         Waiting(m, n)' /\ WillSeed(p, m, n) => WillSeed(p, m, n)'
  PROVE  Awaited(m, n)'
<1> SUFFICES ASSUME Waiting(m, n)' PROVE \E q \in Handlers : WillSeed(q, m, n)'
  BY DEF Awaited
<1>1. PICK q \in Handlers : WillSeed(q, m, n)
  BY DEF Awaited
<1>2. CASE q = p
  BY <1>1, <1>2
<1>3. CASE q # p
  <2>1. WillSeed(q, m, n)'
    BY <1>1, <1>3 DEF WillSeed, Kept
  <2> QED BY <2>1
<1> QED BY <1>2, <1>3

(* The facts every step of the seeding proof starts from. *)
SeedFacts(m) ==
    /\ TypeOK /\ LocalsOK /\ StartupOK /\ IdentitiesOK
    /\ m \in Names /\ TheMaster(m) /\ SoleOwner(m)
    /\ \A n \in Names : Awaited(m, n)

(* A step that leaves the registry alone keeps who waits. *)
LEMMA QuietWait ==
  ASSUME NEW m, SeedFacts(m), SoleNext(m), NEW n \in Names, NEW p \in Handlers, QuietStep(p),
         Waiting(m, n) /\ Waiting(m, n)' /\ WillSeed(p, m, n) => WillSeed(p, m, n)'
  PROVE  Awaited(m, n)'
<1>1. byName' = byName /\ Kept(p)
  BY QuietKeeps, StepKeeps, TypeSplit DEF HandlerStep, SeedFacts
<1>2. \A k \in Names : byName[k] # Nil => byName[k].overlay \in Overlays
  BY DEF SeedFacts, TypeOK, RegistryTypeOK, RegisteredNode
<1>3. \A o \in Overlays : entries'[o] = Nil => entries[o] = Nil
  BY MeshAssumption DEF SeedFacts, SoleOwner, SoleNext
<1>4. \A o \in Overlays : entries[o] = m => entries'[o] = m
  BY DEF SoleNext
<1>5. Waiting(m, n)' => Waiting(m, n)
  BY <1>1, <1>2, <1>3 DEF Waiting, IsMaster
<1>6. Waiting(m, n)' => (entries[byName[m].overlay] = m => entries'[byName[m].overlay] = m)
  BY <1>2, <1>4, <1>5 DEF Waiting, IsMaster, SeedFacts
<1>7. m \in Names /\ Awaited(m, n)
  BY DEF SeedFacts
<1> QED
  BY <1>1, <1>5, <1>6, <1>7, WaitFrame

LEMMA ReassignOwnWait ==
  ASSUME NEW m, SeedFacts(m), SoleNext(m), NEW n \in Names, NEW p \in Handlers, ReassignOwn(p)
  PROVE  Awaited(m, n)'
<1> SUFFICES ASSUME Waiting(m, n), WillSeed(p, m, n) PROVE WillSeed(p, m, n)'
  BY QuietWait DEF QuietStep
<1>1. pc[p] = "reassign" /\ overlay[p] = byName[m].overlay /\ name[p] = m
  BY DEF WillSeed, ReassignOwn
<1>2. LocalTypeOK /\ LedgerTypeOK /\ overlay[p] \in Overlays /\ byName' = byName
  BY <1>1, TypeSplit DEF SeedFacts, TypeOK, LocalsOK, HandlerOK, ReassignOwn
<1>3. CASE overlay[p] \in ValidOverlays
  <2>1. Continue(p, "lookup") /\ entries'[overlay[p]] = m
    BY <1>1, <1>2, <1>3 DEF ReassignOwn, Reassign, LedgerTypeOK
  <2> QED
    BY <1>1, <1>2, <2>1, ContinueKeeps DEF WillSeed
<1>4. CASE overlay[p] \notin ValidOverlays
  BY <1>2, <1>4, ContinueKeeps DEF ReassignOwn, WillSeed
<1> QED BY <1>3, <1>4

LEMMA LookupWait ==
  ASSUME NEW m, SeedFacts(m), SoleNext(m), NEW n \in Names, NEW p \in Handlers, LookupSaved(p)
  PROVE  Awaited(m, n)'
<1> SUFFICES ASSUME Waiting(m, n), WillSeed(p, m, n) PROVE WillSeed(p, m, n)'
  BY QuietWait DEF QuietStep
<1>t. LocalTypeOK
  BY TypeSplit DEF SeedFacts
<1>1. /\ op[p] = "register" /\ name[p] \in {m, n} /\ entries[byName[m].overlay] = m
      /\ Registered(name[p])
  BY DEF WillSeed, LookupSaved, Waiting, IsMaster
<1>2. /\ byName' = byName /\ entries' = entries /\ op' = op /\ name' = name
      /\ IF HasMasterRole(byName[name[p]])
         THEN pc'[p] = "list"
         ELSE pc'[p] = "seed" /\ list'[p] = {<<name[p], byName[name[p]].overlay>>}
  BY <1>t, <1>1 DEF LookupSaved, stores, Goto, LocalTypeOK
<1>3. CASE HasMasterRole(byName[name[p]])
  BY <1>1, <1>2, <1>3 DEF WillSeed
<1>4. CASE ~HasMasterRole(byName[name[p]])
  <2>1. name[p] = n
    BY <1>1, <1>4 DEF Waiting, IsMaster
  <2> QED
    BY <1>1, <1>2, <1>4, <2>1 DEF WillSeed
<1> QED BY <1>3, <1>4

LEMMA ListWait ==
  ASSUME NEW m, SeedFacts(m), SoleNext(m), NEW n \in Names, NEW p \in Handlers, ListNodes(p)
  PROVE  Awaited(m, n)'
<1> SUFFICES ASSUME Waiting(m, n), WillSeed(p, m, n) PROVE WillSeed(p, m, n)'
  BY QuietWait DEF QuietStep
<1>1. /\ op[p] = "register" /\ name[p] \in {m, n} /\ entries[byName[m].overlay] = m
      /\ LocalTypeOK
  BY TypeSplit DEF WillSeed, ListNodes, SeedFacts
<1>2. ~HasMasterRole(byName[n])
  BY <1>1, MasterIsSole, MeshAssumption DEF Waiting, IsMaster, SeedFacts
<1>3. /\ byName' = byName /\ entries' = entries /\ op' = op /\ name' = name /\ pc'[p] = "seed"
      /\ <<n, byName[n].overlay>> \in list'[p]
  BY <1>1, <1>2 DEF ListNodes, stores, callVars, Goto, LocalTypeOK, Waiting
<1> QED
  BY <1>1, <1>3 DEF WillSeed

LEMMA SnapshotWait ==
  ASSUME NEW m, SeedFacts(m), SoleNext(m), NEW n \in Names, NEW p \in Handlers, SeedSnapshot(p)
  PROVE  Awaited(m, n)'
<1> SUFFICES ASSUME Waiting(m, n), WillSeed(p, m, n) PROVE WillSeed(p, m, n)'
  BY QuietWait DEF QuietStep
<1>t. LocalTypeOK /\ m # Nil /\ byName[m].overlay \in Overlays
  BY TypeSplit, MeshAssumption DEF SeedFacts, TypeOK, RegistryTypeOK, RegisteredNode, Waiting, IsMaster
<1>1. /\ op[p] = "register" /\ name[p] \in {m, n} /\ entries[byName[m].overlay] = m
      /\ <<n, byName[n].overlay>> \in list[p]
  BY DEF WillSeed, SeedSnapshot
<1>2. PICK node \in list[p] : overlay' = [overlay EXCEPT ![p] = node[2]]
                              /\ list' = [list EXCEPT ![p] = @ \ {node}]
  BY DEF SeedSnapshot
<1>3. /\ byName' = byName /\ entries' = entries /\ op' = op /\ name' = name /\ pc'[p] = "scan"
      /\ overlay'[p] = node[2] /\ list'[p] = list[p] \ {node}
  BY <1>t, <1>2 DEF SeedSnapshot, stores, callVars, Goto, LocalTypeOK
<1>6. <<byName[m].overlay, m>> \in scan'[p]
  <2>1. scan'[p] = {<<o, entries[o]>> : o \in {q \in Overlays : entries[q] # Nil}}
    BY <1>t DEF SeedSnapshot, LocalTypeOK
  <2> QED
    BY <1>t, <1>1, <2>1, SMTT(30)
<1>4. CASE node = <<n, byName[n].overlay>>
  <2>1. overlay'[p] = byName[n].overlay
    BY <1>3, <1>4
  <2> QED
    BY <1>1, <1>3, <1>6, <2>1 DEF WillSeed
<1>5. CASE node # <<n, byName[n].overlay>>
  BY <1>1, <1>3, <1>5 DEF WillSeed
<1> QED BY <1>4, <1>5

LEMMA ScanWait ==
  ASSUME NEW m, SeedFacts(m), SoleNext(m), NEW n \in Names, NEW p \in Handlers, ScanEntry(p)
  PROVE  Awaited(m, n)'
<1> SUFFICES ASSUME Waiting(m, n), WillSeed(p, m, n) PROVE WillSeed(p, m, n)'
  BY QuietWait DEF QuietStep
<1>t. LocalTypeOK /\ SoleHandler(p, m) /\ pc[p] = "scan"
  BY TypeSplit DEF SeedFacts, SoleOwner, ScanEntry
<1>1. /\ op[p] = "register" /\ name[p] \in {m, n} /\ entries[byName[m].overlay] = m
      /\ \/ <<n, byName[n].overlay>> \in list[p]
         \/ /\ overlay[p] = byName[n].overlay
            /\ owner[p] = m \/ <<byName[m].overlay, m>> \in scan[p]
  BY <1>t DEF WillSeed
<1>2. /\ byName' = byName /\ entries' = entries /\ op' = op /\ name' = name
      /\ overlay' = overlay /\ list' = list
  BY DEF ScanEntry, stores, callVars
<1>3. PICK entry \in scan[p] :
        LET counts == /\ Registered(entry[2])
                      /\ HasMasterRole(byName[entry[2]])
                      /\ byName[entry[2]].overlay = entry[1]
        IN \/ owner[p] \notin {Nil, entry[2]} /\ pc'[p] = "seed"
           \/ /\ pc' = pc
              /\ scan'[p] = scan[p] \ {entry}
              /\ owner'[p] = IF counts THEN entry[2] ELSE owner[p]
  BY <1>t DEF ScanEntry, Goto, LocalTypeOK
<1>4. entry[2] = m /\ entry = <<entry[1], m>> /\ owner[p] \in {Nil, m}
  BY <1>t, SMTT(30) DEF SoleHandler
<1>5. /\ pc'[p] = "scan" /\ scan'[p] = scan[p] \ {entry}
      /\ owner'[p] = IF byName[m].overlay = entry[1] THEN m ELSE owner[p]
  BY <1>t, <1>3, <1>4 DEF Waiting, IsMaster
<1>6. owner[p] = m \/ <<byName[m].overlay, m>> \in scan[p]
        => owner'[p] = m \/ <<byName[m].overlay, m>> \in scan'[p]
  <2>1. CASE entry = <<byName[m].overlay, m>>
    <3>1. entry[1] = byName[m].overlay
      BY <2>1
    <3> QED
      BY <1>5, <3>1
  <2>2. CASE entry # <<byName[m].overlay, m>>
    BY <1>5, <2>2
  <2> QED BY <2>1, <2>2
<1> QED
  BY <1>1, <1>2, <1>5, <1>6 DEF WillSeed

LEMMA SeedLookupWait ==
  ASSUME NEW m, SeedFacts(m), SoleNext(m), NEW n \in Names, NEW p \in Handlers, SeedLookup(p)
  PROVE  Awaited(m, n)'
<1> SUFFICES ASSUME Waiting(m, n), WillSeed(p, m, n) PROVE WillSeed(p, m, n)'
  BY QuietWait DEF QuietStep
<1>t. LocalTypeOK /\ m # Nil /\ pc[p] = "scan" /\ scan[p] = {}
  BY TypeSplit, MeshAssumption DEF SeedFacts, SeedLookup
<1>1. /\ op[p] = "register" /\ name[p] \in {m, n} /\ entries[byName[m].overlay] = m
      /\ \/ <<n, byName[n].overlay>> \in list[p]
         \/ overlay[p] = byName[n].overlay /\ owner[p] = m
  BY <1>t DEF WillSeed
<1>2. /\ byName' = byName /\ entries' = entries /\ op' = op /\ name' = name
      /\ overlay' = overlay /\ list' = list
      /\ pc'[p] = IF owner[p] # Nil /\ entries[overlay[p]] = Nil THEN "assign" ELSE "seed"
  BY <1>t, ContinueKeeps DEF SeedLookup, stores
<1> QED
  BY <1>t, <1>1, <1>2 DEF WillSeed, Waiting

LEMMA SeedAssignWait ==
  ASSUME NEW m, SeedFacts(m), SoleNext(m), NEW n \in Names, NEW p \in Handlers, SeedAssign(p)
  PROVE  Awaited(m, n)'
<1> SUFFICES ASSUME Waiting(m, n), Waiting(m, n)', WillSeed(p, m, n) PROVE WillSeed(p, m, n)'
  BY QuietWait DEF QuietStep
<1>t. /\ LocalTypeOK /\ LedgerTypeOK /\ m # Nil /\ pc[p] = "assign"
      /\ owner[p] = m /\ overlay[p] \in Overlays /\ byName' = byName
  BY TypeSplit, MeshAssumption
     DEF SeedFacts, TypeOK, SoleOwner, SoleHandler, LocalsOK, HandlerOK, SeedAssign
<1>1. /\ op[p] = "register" /\ name[p] \in {m, n} /\ entries[byName[m].overlay] = m
      /\ <<n, byName[n].overlay>> \in list[p] \/ overlay[p] = byName[n].overlay
  BY <1>t DEF WillSeed
<1>2. CASE overlay[p] \in ValidOverlays
  <2>1. Continue(p, "seed") /\ entries' = [entries EXCEPT ![overlay[p]] = m]
    BY <1>t, <1>2 DEF SeedAssign, Reassign
  <2>2. overlay[p] # byName[n].overlay
    BY <1>t, <2>1 DEF Waiting, LedgerTypeOK
  <2>3. entries'[byName[m].overlay] = m
    <3>1. byName[m].overlay \in Overlays
      BY DEF SeedFacts, TypeOK, RegistryTypeOK, RegisteredNode, Waiting, IsMaster
    <3> QED
      BY <1>1, <3>1 DEF SoleNext
  <2> QED
    BY <1>t, <1>1, <2>1, <2>2, <2>3, ContinueKeeps DEF WillSeed
<1>3. CASE overlay[p] \notin ValidOverlays
  <2>1. Continue(p, "rollback")
    BY <1>1, <1>3 DEF SeedAssign, Fail
  <2> QED
    BY <1>t, <1>1, <2>1, ContinueKeeps DEF WillSeed
<1> QED BY <1>2, <1>3

(* The other steps that leave the registry alone are not those of a        *)
(* handler that still has somebody to seed.                                *)
LEMMA OtherQuietWait ==
  ASSUME NEW m, SeedFacts(m), SoleNext(m), NEW n \in Names, NEW p \in Handlers,
         \/ NotifyRegistrationObserver(p) \/ CheckOwned(p) \/ RegionCandidates(p)
         \/ AnyCandidates(p) \/ DrainOwned(p) \/ MoveEntry(p)
         \/ \E k \in Names : DecommissionNode(p, k)
  PROVE  Awaited(m, n)'
<1>1. \/ pc[p] \in {"owned", "region", "any", "drain", "move", "idle"}
      \/ pc[p] = "seed" /\ list[p] = {}
  BY DEF NotifyRegistrationObserver, CheckOwned, RegionCandidates, AnyCandidates,
         DrainOwned, MoveEntry, DecommissionNode, Start
<1>2. ~WillSeed(p, m, n)
  BY <1>1 DEF WillSeed
<1> QED
  BY <1>2, QuietWait DEF QuietStep

(* A registration of m starts a handler that serves all who wait; one of   *)
(* another node n waits for that handler, if m does not own its address    *)
(* yet, and else serves itself.                                            *)
LEMMA RegisterWait ==
  ASSUME NEW m, SeedFacts(m), SoleNext(m), NEW n \in Names, NEW p \in Handlers,
         NEW req \in Requests, RegisterNode(p, req)
  PROVE  Awaited(m, n)'
<1>t. LocalTypeOK /\ RegistryTypeOK /\ m \in Names /\ m # Nil /\ Awaited(m, n) /\ Awaited(m, m)
  BY TypeSplit, MeshAssumption DEF SeedFacts, TypeOK
<1>k. Kept(p)
  BY <1>t, StepKeeps DEF HandlerStep
<1>1. req \in Identities /\ req \in RegisterRequest
  BY ControlPlaneAssumption DEF Identities
<1>2. /\ \A k \in Names \ {req.name} : byName'[k] = byName[k]
      /\ byName'[req.name].overlay = req.overlay
      /\ byName'[req.name].roles = req.roles
  BY <1>t, <1>1, RegisterIdentity DEF SeedFacts, IdentitiesOK, RegisterNode
<1>3. /\ pc[p] = "idle" /\ op'[p] = "register" /\ name'[p] = req.name
      /\ overlay'[p] = req.overlay /\ entries' = entries
      /\ pc'[p] = IF HasMasterRole(req) THEN "reassign" ELSE "lookup"
  BY <1>t DEF RegisterNode, Start, Goto, LocalTypeOK
<1>4. HasMasterRole(req) => req.name = m
  BY <1>1 DEF SeedFacts, TheMaster
<1>5. CASE req.name = m
  <2>1. Waiting(m, n)' => WillSeed(p, m, n)'
    BY <1>2, <1>3, <1>5 DEF Waiting, IsMaster, WillSeed
  <2> QED
    BY <2>1 DEF Awaited
<1>6. CASE req.name # m /\ req.name = n
  <2> SUFFICES ASSUME Waiting(m, n)' PROVE \E q \in Handlers : WillSeed(q, m, n)'
    BY DEF Awaited
  <2>1. byName'[m] = byName[m] /\ IsMaster(m) /\ byName[m].overlay \in Overlays
    BY <1>t, <1>2, <1>6 DEF Waiting, IsMaster, RegistryTypeOK, RegisteredNode
  <2>2. CASE entries[byName[m].overlay] = m
    BY <1>3, <1>4, <1>6, <2>1, <2>2 DEF WillSeed
  <2>3. CASE entries[byName[m].overlay] # m
    <3>1. entries[byName[m].overlay] = Nil
      BY <2>1, <2>3 DEF SeedFacts, SoleOwner
    <3>2. PICK q \in Handlers : WillSeed(q, m, m)
      BY <1>t, <2>1, <3>1 DEF Awaited, Waiting, IsMaster
    <3>3. /\ op[q] = "register" /\ name[q] = m
          /\ \/ pc[q] = "reassign" /\ overlay[q] = byName[m].overlay
             \/ pc[q] = "rollback"
      BY <2>3, <3>2 DEF WillSeed
    <3>4. WillSeed(q, m, n)'
      BY <1>3, <1>k, <2>1, <3>3 DEF WillSeed, Kept
    <3> QED BY <3>4
  <2> QED BY <2>2, <2>3
<1>7. CASE req.name # m /\ req.name # n
  <2>1. byName'[m] = byName[m] /\ byName'[n] = byName[n]
    BY <1>t, <1>2, <1>7
  <2>2. Waiting(m, n)' => Waiting(m, n)
    BY <1>3, <2>1 DEF Waiting, IsMaster
  <2>3. ~WillSeed(p, m, n)
    BY <1>3 DEF WillSeed
  <2> QED
    BY <1>t, <1>3, <1>k, <2>1, <2>2, <2>3, WaitFrame
<1> QED BY <1>5, <1>6, <1>7

LEMMA HeartbeatWait ==
  ASSUME NEW m, SeedFacts(m), NEW n \in Names, NEW p \in Handlers,
         NEW k \in Names, NEW key \in HeartbeatKeys, Heartbeat(p, k, key)
  PROVE  Awaited(m, n)'
<1>t. LocalTypeOK /\ RegistryTypeOK /\ m \in Names /\ Awaited(m, n)
  BY TypeSplit DEF SeedFacts, TypeOK
<1>1. key \in Keys /\ byName[k] # Nil /\ HeartbeatIdentity(k, key)
  BY ControlPlaneAssumption DEF Heartbeat
<1>2. /\ \A j \in Names : (byName'[j] # Nil) <=> (byName[j] # Nil)
      /\ \A j \in Names : byName[j] # Nil => byName'[j].overlay = byName[j].overlay
      /\ \A j \in Names : byName[j] # Nil => byName'[j].roles = byName[j].roles
  BY <1>t, <1>1, HeartbeatKeeps
<1>3. entries' = entries /\ Kept(p) /\ ~WillSeed(p, m, n)
  BY <1>t, StepKeeps DEF HandlerStep, Heartbeat, Start, WillSeed
<1>4. Waiting(m, n)' => Waiting(m, n)
  BY <1>t, <1>2, <1>3 DEF Waiting, IsMaster
<1>5. Waiting(m, n)' => byName'[m].overlay = byName[m].overlay /\ byName'[n].overlay = byName[n].overlay
  BY <1>t, <1>2, <1>4 DEF Waiting, IsMaster
<1> QED
  BY <1>t, <1>3, <1>4, <1>5, WaitFrame

(* A node that is removed was neither m nor n, if they still wait. *)
LEMMA RemoveWait ==
  ASSUME NEW m, SeedFacts(m), NEW n \in Names, NEW p \in Handlers, Rollback(p) \/ RemoveNode(p)
  PROVE  Awaited(m, n)'
<1>t. LocalTypeOK /\ RegistryTypeOK /\ m \in Names /\ Awaited(m, n)
  BY TypeSplit DEF SeedFacts, TypeOK
<1>1. name[p] \in Names /\ Remove(name[p]) /\ entries' = entries /\ Kept(p)
  BY <1>t, StepKeeps DEF HandlerStep, Rollback, RemoveNode, SeedFacts, LocalsOK, HandlerOK
<1>2. /\ byName'[name[p]] = Nil
      /\ \A k \in Names \ {name[p]} : byName'[k] = byName[k]
  BY <1>t, <1>1 DEF Remove, registryVars, RegistryTypeOK
<1>3. Waiting(m, n)' => m # name[p] /\ n # name[p]
  BY <1>2 DEF Waiting, IsMaster
<1>4. Waiting(m, n)' => byName'[m] = byName[m] /\ byName'[n] = byName[n]
  BY <1>t, <1>2, <1>3
<1>5. Waiting(m, n)' => Waiting(m, n)
  BY <1>1, <1>4 DEF Waiting, IsMaster
<1>6. Waiting(m, n)' => ~WillSeed(p, m, n)
  BY <1>3 DEF WillSeed
<1> QED
  BY <1>t, <1>1, <1>4, <1>5, <1>6, WaitFrame

(* When the master registers itself nobody else is registered. *)
LEMMA SelfWait ==
  ASSUME NEW m, SeedFacts(m), NEW n \in Names, SelfRegister
  PROVE  Awaited(m, n)'
<1> USE ControlPlaneAssumption, LedgerAssumption
<1>1. /\ Self \in RegisterRequest /\ Self \in Identities /\ Self.name = m /\ m # Nil
      /\ Self.overlay \in Overlays /\ ~Registered(n)
  BY MeshAssumption
     DEF SeedFacts, LocalsOK, StartupOK, SelfRegister, Identities, TheMaster
<1>2. /\ \A k \in Names \ {m} : byName'[k] = byName[k]
      /\ byName'[m].overlay = Self.overlay
  BY <1>1, RegisterIdentity DEF SeedFacts, TypeOK, IdentitiesOK, SelfRegister
<1>3. entries'[Self.overlay] = m
  BY <1>1 DEF SelfRegister, Reassign, SeedFacts, TypeOK, LedgerTypeOK
<1>4. ~Waiting(m, n)'
  <2>1. CASE n = m
    BY <1>1, <1>2, <1>3, <2>1 DEF Waiting
  <2>2. CASE n # m
    BY <1>1, <1>2, <2>2 DEF Waiting
  <2> QED BY <2>1, <2>2
<1> QED
  BY <1>4 DEF Awaited

LEMMA SeedStep ==
  ASSUME IndInv, SeedInv, [Next]_vars
  PROVE  SeedInv'
<1> SUFFICES ASSUME NEW m \in Names, TheMaster(m)
             PROVE  SoleOwner(m)' /\ \A n \in Names : Awaited(m, n)'
  BY DEF SeedInv, TheMaster, Identities
<1>1. SeedFacts(m)
  BY DEF SeedInv, IndInv, SeedFacts
<1>2. SoleNext(m)
  BY <1>1, SoleStep DEF SeedFacts
<1>3. ASSUME NEW n \in Names PROVE Awaited(m, n)'
  <2>0. CASE UNCHANGED vars
    BY <1>1, <2>0 DEF vars, stores, callVars, seedVars, SeedFacts, Awaited, Waiting, IsMaster, WillSeed
  <2>1. CASE SelfRegister
    BY <1>1, <2>1, SelfWait
  <2>2. ASSUME NEW p \in Handlers, NEW req \in Requests, RegisterNode(p, req)
        PROVE  Awaited(m, n)'
    BY <1>1, <1>2, <2>2, RegisterWait
  <2>3. ASSUME NEW p \in Handlers, NEW k \in Names, NEW key \in HeartbeatKeys, Heartbeat(p, k, key)
        PROVE  Awaited(m, n)'
    BY <1>1, <2>3, HeartbeatWait
  <2>4. ASSUME NEW p \in Handlers, Rollback(p) \/ RemoveNode(p) PROVE Awaited(m, n)'
    BY <1>1, <2>4, RemoveWait
  <2>5. ASSUME NEW p \in Handlers, QuietStep(p) PROVE Awaited(m, n)'
    BY <1>1, <1>2, <2>5, ReassignOwnWait, LookupWait, ListWait, SnapshotWait, ScanWait,
       SeedLookupWait, SeedAssignWait, OtherQuietWait DEF QuietStep
  <2> QED
    BY <2>0, <2>1, <2>2, <2>3, <2>4, <2>5 DEF Next, QuietStep
<1> QED
  BY <1>2, <1>3 DEF SoleNext

-----------------------------------------------------------------------------
(* Calls that do not overlap: what a handler has read is still so when it  *)
(* uses it.                                                                *)

OneAtATime == \A p, q \in Handlers : p = q

SeedingPCs == {"list", "seed", "scan", "assign"}

(* The node that the handler looked up is what the registry holds. *)
SavedOK == \A p \in Handlers : pc[p] \in SeedingPCs => saved[p] = byName[name[p]]

LEMMA SavedStep ==
  ASSUME OneAtATime, TypeOK, StartupOK, SavedOK, [Next]_vars
  PROVE  SavedOK'
<1>t. LocalTypeOK
  BY TypeSplit
<1>o. ASSUME NEW p \in Handlers, pc'[p] \in SeedingPCs => saved'[p] = byName'[name'[p]]
      PROVE  SavedOK'
  BY <1>o DEF OneAtATime, SavedOK
<1>r. ASSUME NEW p \in Handlers, Return(p) PROVE SavedOK'
  BY <1>r, <1>t, <1>o, ReturnKeeps DEF SeedingPCs
<1>c. ASSUME NEW p \in Handlers, NEW l, Continue(p, l), byName' = byName,
             l \in SeedingPCs => pc[p] \in SeedingPCs
      PROVE  SavedOK'
  <2>1. pc'[p] = l /\ saved' = saved /\ name' = name
    BY <1>c, <1>t, ContinueKeeps
  <2> QED
    BY <1>c, <1>o, <2>1 DEF SavedOK
<1>0. CASE UNCHANGED vars
  BY <1>0 DEF vars, stores, callVars, SavedOK
<1>1. CASE SelfRegister
  <2>1. ASSUME NEW p \in Handlers PROVE pc'[p] = pc[p]
    BY <1>1 DEF SelfRegister
  <2>2. CASE \A p \in Handlers : pc[p] = "idle"
    BY <2>1, <2>2 DEF SavedOK, SeedingPCs
  <2> QED
    BY <1>1, <2>2 DEF SelfRegister, StartupOK
<1>2. ASSUME NEW p \in Handlers,
             \/ \E req \in Requests : RegisterNode(p, req)
             \/ \E n \in Names, key \in HeartbeatKeys : Heartbeat(p, n, key)
             \/ \E n \in Names : DecommissionNode(p, n)
             \/ RegionCandidates(p) \/ AnyCandidates(p) \/ DrainOwned(p) \/ MoveEntry(p)
      PROVE  SavedOK'
  <2>1. pc'[p] \notin SeedingPCs
    <3>1. CASE \/ \E req \in Requests : RegisterNode(p, req)
               \/ \E n \in Names, key \in HeartbeatKeys : Heartbeat(p, n, key)
               \/ \E n \in Names : DecommissionNode(p, n)
      BY <1>t, <3>1 DEF RegisterNode, Heartbeat, DecommissionNode, Start, Goto, SeedingPCs, LocalTypeOK
    <3>2. CASE RegionCandidates(p) \/ AnyCandidates(p) \/ DrainOwned(p) \/ MoveEntry(p)
      BY <1>t, <3>2, ReturnKeeps
         DEF RegionCandidates, AnyCandidates, DrainOwned, MoveEntry, Goto, SeedingPCs, LocalTypeOK
    <3> QED BY <1>2, <3>1, <3>2
  <2> QED
    BY <1>o, <2>1
<1>3. ASSUME NEW p \in Handlers, ReassignOwn(p) \/ CheckOwned(p) PROVE SavedOK'
  BY <1>3, <1>c DEF ReassignOwn, CheckOwned, stores, SeedingPCs
<1>4. ASSUME NEW p \in Handlers, LookupSaved(p) PROVE SavedOK'
  <2>1. CASE Return(p)
    BY <1>r, <2>1
  <2>2. CASE ~Return(p)
    <3>1. saved' = [saved EXCEPT ![p] = byName[name[p]]] /\ name' = name /\ byName' = byName
      BY <1>4, <2>2 DEF LookupSaved, stores
    <3> QED
      BY <1>t, <1>o, <3>1 DEF LocalTypeOK
  <2> QED BY <2>1, <2>2
<1>5. ASSUME NEW p \in Handlers, ListNodes(p) \/ SeedSnapshot(p) \/ ScanEntry(p) PROVE SavedOK'
  <2>1. saved' = saved /\ name' = name /\ byName' = byName /\ pc[p] \in SeedingPCs
    BY <1>5 DEF ListNodes, SeedSnapshot, ScanEntry, callVars, stores, SeedingPCs
  <2> QED
    BY <1>o, <2>1 DEF SavedOK
<1>f. ASSUME NEW p \in Handlers, Fail(p), byName' = byName PROVE SavedOK'
  BY <1>f, <1>r, <1>c DEF Fail, SeedingPCs
<1>6. ASSUME NEW p \in Handlers, SeedLookup(p) \/ SeedAssign(p) PROVE SavedOK'
  <2>1. byName' = byName /\ pc[p] \in SeedingPCs
    BY <1>6 DEF SeedLookup, SeedAssign, stores, SeedingPCs
  <2> QED
    BY <1>6, <1>c, <1>f, <2>1 DEF SeedLookup, SeedAssign
<1>7. ASSUME NEW p \in Handlers, NotifyRegistrationObserver(p) PROVE SavedOK'
  BY <1>7, <1>r, <1>f DEF NotifyRegistrationObserver
<1>8. ASSUME NEW p \in Handlers, Rollback(p) \/ RemoveNode(p) PROVE SavedOK'
  BY <1>8, <1>r DEF Rollback, RemoveNode
<1> QED
  BY <1>0, <1>1, <1>2, <1>3, <1>4, <1>5, <1>6, <1>7, <1>8 DEF Next

(* OwnersAreRegisteredMasters: in such a deployment it holds at every      *)
(* step, given what the handler has in hand.                               *)
SerialDeployment == OneAtATime /\ ValidOverlays = Overlays /\ StableIdentities

OwnersMasters == \A o \in Overlays : entries[o] # Nil => IsMaster(entries[o])

HandOK(p) ==
    /\ pc[p] = "reassign" => IsMaster(name[p])
    /\ pc[p] \in {"scan", "assign"} /\ owner[p] # Nil => IsMaster(owner[p])
    /\ pc[p] = "rollback" => ~IsMaster(name[p])
    /\ pc[p] \notin {"drain", "move"} => cands[p] = {}
    /\ \A m \in cands[p] : IsMaster(m) /\ m # name[p]
    /\ pc[p] = "move" => OwnedBy(name[p]) \subseteq drain[p]

OwnersInv == OwnersMasters /\ \A p \in Handlers : HandOK(p)

OwnersFacts ==
    SerialDeployment /\ TypeOK /\ LocalsOK /\ StartupOK /\ IdentitiesOK /\ SavedOK /\ OwnersInv

(* One handler: what it has in hand is all there is to check. *)
LEMMA OwnersBy ==
  ASSUME OneAtATime, NEW p \in Handlers, OwnersMasters', HandOK(p)'
  PROVE  OwnersInv'
  BY DEF OneAtATime, OwnersInv

(* A step that changes neither registry nor ledger keeps the owners. *)
LEMMA OwnersQuiet ==
  ASSUME OwnersFacts, byName' = byName, entries' = entries
  PROVE  OwnersMasters'
  BY DEF OwnersFacts, OwnersInv, OwnersMasters, IsMaster

LEMMA OwnersReturn ==
  ASSUME OwnersFacts, NEW p \in Handlers, Return(p), OwnersMasters'
  PROVE  OwnersInv'
<1>1. pc'[p] = "idle" /\ cands'[p] = {}
  BY ReturnKeeps, TypeSplit DEF OwnersFacts
<1>2. HandOK(p)'
  BY <1>1 DEF HandOK
<1> QED
  BY <1>2, OwnersBy DEF OwnersFacts, SerialDeployment

(* A successful Register leaves the node registered. *)
LEMMA RegisterStores ==
  ASSUME NEW req \in RegisterRequest, RegistryTypeOK, CanRegister(req, 0), Register(req, 0)
  PROVE  byName'[req.name] # Nil /\ req.name \in Names
<1>1. byName'[req.name] = StoredNode(req, 0) /\ req.name \in Names
  BY DEF Register, RegistryTypeOK, RegisterRequest
<1>2. StoredNode(req, 0) \in RegisteredNode
  BY DEF CanRegister, RegisterRequest, RegisteredNode, StoredNode, RegistryTypeOK
<1> QED
  BY <1>1, <1>2, RegistryAssumption

LEMMA OwnersStart ==
  ASSUME OwnersFacts,
         \/ SelfRegister
         \/ \E p \in Handlers : \/ \E req \in Requests : RegisterNode(p, req)
                                \/ \E n \in Names, key \in HeartbeatKeys : Heartbeat(p, n, key)
                                \/ \E n \in Names : DecommissionNode(p, n)
  PROVE  OwnersInv'
<1> USE MeshAssumption, ControlPlaneAssumption, LedgerAssumption
<1>t. LocalTypeOK /\ RegistryTypeOK /\ LedgerTypeOK /\ StableIdentities /\ OwnersInv
  BY TypeSplit DEF OwnersFacts, TypeOK, SerialDeployment
<1>i. \A n \in Names : NodeIdentityOK(n)
  BY DEF OwnersFacts, IdentitiesOK
<1>1. CASE SelfRegister
  <2>1. /\ Self \in RegisterRequest /\ Self \in Identities /\ HasMasterRole(Self)
        /\ \A q \in Handlers : pc[q] = "idle"
        /\ \A o \in Overlays : entries[o] = Nil
    BY <1>1 DEF OwnersFacts, LocalsOK, StartupOK, SelfRegister, Identities
  <2>2. byName'[Self.name].roles = Self.roles /\ byName'[Self.name] # Nil /\ Self.name \in Names
    BY <1>1, <1>t, <1>i, <2>1, RegisterIdentity, RegisterStores DEF SelfRegister
  <2>3. OwnersMasters'
    BY <1>1, <1>t, <2>1, <2>2 DEF SelfRegister, Reassign, LedgerTypeOK, OwnersMasters, IsMaster
  <2>4. ASSUME NEW p \in Handlers PROVE HandOK(p)'
    BY <1>1, <1>t, <2>1 DEF SelfRegister, drainVars, OwnersInv, HandOK
  <2> QED
    BY <2>3, <2>4 DEF OwnersInv
<1>2. ASSUME NEW p \in Handlers, NEW req \in Requests, RegisterNode(p, req) PROVE OwnersInv'
  <2>1. req \in Identities /\ req \in RegisterRequest /\ req.name \in Names
    BY DEF Identities, RegisterRequest
  <2>2. /\ \A n \in Names \ {req.name} : byName'[n] = byName[n]
        /\ byName'[req.name].roles = req.roles
    BY <1>2, <1>t, <1>i, <2>1, RegisterIdentity DEF RegisterNode
  <2>3. byName'[req.name] # Nil
    BY <1>2, <1>t, <2>1, RegisterStores DEF RegisterNode
  <2>4. byName[req.name] # Nil => byName[req.name].roles = req.roles
    BY <1>t, <1>i, <2>1 DEF StableIdentities, NodeIdentityOK
  <2>5. \A n \in Names : IsMaster(n) => IsMaster(n)'
    BY <2>2, <2>3, <2>4 DEF IsMaster
  <2>6. OwnersMasters'
    BY <1>2, <1>t, <2>5 DEF RegisterNode, OwnersInv, OwnersMasters, LedgerTypeOK
  <2>7. /\ pc[p] = "idle" /\ name'[p] = req.name /\ cands' = cands
        /\ pc'[p] = IF HasMasterRole(req) THEN "reassign" ELSE "lookup"
    BY <1>2, <1>t DEF RegisterNode, Start, Goto, LocalTypeOK, drainVars
  <2>8. HandOK(p)'
    BY <1>t, <2>2, <2>3, <2>7 DEF OwnersInv, HandOK, IsMaster
  <2> QED
    BY <2>6, <2>8, OwnersBy DEF OwnersFacts, SerialDeployment
<1>3. ASSUME NEW p \in Handlers, NEW n \in Names, NEW key \in HeartbeatKeys, Heartbeat(p, n, key)
      PROVE  OwnersInv'
  <2>1. key \in Keys /\ byName[n] # Nil /\ HeartbeatIdentity(n, key)
    BY <1>3 DEF Heartbeat
  <2>2. \A k \in Names : IsMaster(k) => IsMaster(k)'
    BY <1>t, <2>1, HeartbeatKeeps DEF IsMaster
  <2>3. OwnersMasters'
    BY <1>3, <1>t, <2>2 DEF Heartbeat, OwnersInv, OwnersMasters, LedgerTypeOK
  <2>4. pc[p] = "idle" /\ pc'[p] = "lookup" /\ cands' = cands
    BY <1>3, <1>t DEF Heartbeat, Start, Goto, LocalTypeOK, drainVars
  <2>5. HandOK(p)'
    BY <1>t, <2>4 DEF OwnersInv, HandOK
  <2> QED
    BY <2>3, <2>5, OwnersBy DEF OwnersFacts, SerialDeployment
<1>4. ASSUME NEW p \in Handlers, NEW n \in Names, DecommissionNode(p, n) PROVE OwnersInv'
  <2>1. pc[p] = "idle" /\ pc'[p] = "owned" /\ cands' = cands /\ byName' = byName /\ entries' = entries
    BY <1>4, <1>t DEF DecommissionNode, Start, Goto, LocalTypeOK, drainVars, stores
  <2>2. HandOK(p)'
    BY <1>t, <2>1 DEF OwnersInv, HandOK
  <2> QED
    BY <2>1, <2>2, OwnersQuiet, OwnersBy DEF OwnersFacts, SerialDeployment
<1> QED
  BY <1>1, <1>2, <1>3, <1>4

(* The steps of a registration. *)
LEMMA OwnersSeeding ==
  ASSUME OwnersFacts, NEW p \in Handlers,
         \/ ReassignOwn(p) \/ LookupSaved(p) \/ ListNodes(p) \/ SeedSnapshot(p) \/ ScanEntry(p)
         \/ SeedLookup(p) \/ SeedAssign(p) \/ NotifyRegistrationObserver(p) \/ Rollback(p)
  PROVE  OwnersInv'
<1> USE MeshAssumption
<1>t. /\ LocalTypeOK /\ RegistryTypeOK /\ LedgerTypeOK /\ ValidOverlays = Overlays
      /\ HandlerOK(p) /\ HandOK(p) /\ OwnersMasters
  BY TypeSplit DEF OwnersFacts, TypeOK, SerialDeployment, LocalsOK, OwnersInv
<1>o. ASSUME OwnersMasters', HandOK(p)' PROVE OwnersInv'
  BY <1>o, OwnersBy DEF OwnersFacts, SerialDeployment
<1>c. ASSUME NEW l \in {"lookup", "seed", "assign"}, Continue(p, l), byName' = byName,
             pc[p] \notin {"drain", "move"}, l = "assign" => pc[p] = "scan"
      PROVE  HandOK(p)'
  <2>1. pc'[p] = l /\ owner' = owner /\ cands' = cands /\ name' = name
    BY <1>c, <1>t, ContinueKeeps
  <2> QED
    BY <1>c, <1>t, <2>1 DEF HandOK, IsMaster
<1>w. ASSUME NEW o \in Overlays, NEW m \in Names, IsMaster(m), byName' = byName,
             entries' = [entries EXCEPT ![o] = m]
      PROVE  OwnersMasters'
  BY <1>w, <1>t DEF OwnersMasters, IsMaster, LedgerTypeOK
<1>1. CASE ReassignOwn(p)
  <2>1. /\ Continue(p, "lookup") /\ byName' = byName /\ pc[p] = "reassign"
        /\ overlay[p] \in Overlays /\ name[p] \in Names /\ IsMaster(name[p])
        /\ entries' = [entries EXCEPT ![overlay[p]] = name[p]]
    BY <1>1, <1>t DEF ReassignOwn, Reassign, HandlerOK, HandOK
  <2> QED
    BY <1>c, <1>w, <1>o, <2>1
<1>2. CASE LookupSaved(p)
  <2>1. byName' = byName /\ entries' = entries /\ pc[p] = "lookup"
    BY <1>2 DEF LookupSaved, stores
  <2>2. CASE Return(p)
    BY <2>1, <2>2, OwnersQuiet, OwnersReturn
  <2>3. CASE ~Return(p)
    <3>1. pc'[p] \in {"list", "seed"} /\ cands' = cands
      BY <1>2, <1>t, <2>3 DEF LookupSaved, Goto, LocalTypeOK, drainVars
    <3>2. HandOK(p)'
      BY <1>t, <2>1, <3>1 DEF HandOK
    <3> QED
      BY <1>o, <2>1, <3>2, OwnersQuiet
  <2> QED BY <2>2, <2>3
<1>3. CASE ListNodes(p) \/ SeedSnapshot(p)
  <2>1. /\ byName' = byName /\ entries' = entries /\ cands' = cands /\ pc[p] \in {"list", "seed"}
        /\ pc'[p] = "seed" \/ (pc'[p] = "scan" /\ owner'[p] = Nil)
    <3>1. CASE ListNodes(p)
      <4>1. pc'[p] = "seed" /\ pc[p] = "list"
        BY <1>t, <3>1 DEF ListNodes, Goto, LocalTypeOK
      <4> QED
        BY <3>1, <4>1 DEF ListNodes, stores, drainVars
    <3>2. CASE SeedSnapshot(p)
      BY <1>t, <3>2 DEF SeedSnapshot, Goto, LocalTypeOK, stores, drainVars
    <3> QED BY <1>3, <3>1, <3>2
  <2>2. HandOK(p)'
    BY <1>t, <2>1 DEF HandOK
  <2> QED
    BY <1>o, <2>1, <2>2, OwnersQuiet
<1>4. CASE ScanEntry(p)
  <2>1. /\ byName' = byName /\ entries' = entries /\ cands' = cands /\ pc[p] = "scan"
        /\ pc'[p] \in {"scan", "seed"}
    BY <1>4, <1>t DEF ScanEntry, Goto, LocalTypeOK, stores, drainVars
  <2>2. owner'[p] \in {Nil, owner[p]} \/ IsMaster(owner'[p])
    BY <1>4, <1>t DEF ScanEntry, LocalTypeOK, IsMaster
  <2>3. HandOK(p)'
    BY <1>t, <2>1, <2>2 DEF HandOK, IsMaster
  <2> QED
    BY <1>o, <2>1, <2>3, OwnersQuiet
<1>5. CASE SeedLookup(p)
  <2>1. byName' = byName /\ entries' = entries /\ pc[p] = "scan"
    BY <1>5 DEF SeedLookup, stores
  <2> QED
    BY <1>5, <1>c, <1>o, <2>1, OwnersQuiet DEF SeedLookup
<1>6. CASE SeedAssign(p)
  <2>1. /\ Continue(p, "seed") /\ byName' = byName /\ pc[p] = "assign"
        /\ overlay[p] \in Overlays /\ owner[p] \in Names /\ owner[p] # Nil
        /\ entries' = [entries EXCEPT ![overlay[p]] = owner[p]]
    BY <1>6, <1>t DEF SeedAssign, Reassign, HandlerOK
  <2>2. IsMaster(owner[p])
    BY <1>t, <2>1 DEF HandOK
  <2> QED
    BY <1>c, <1>w, <1>o, <2>1, <2>2
<1>7. CASE NotifyRegistrationObserver(p)
  <2>1. byName' = byName /\ entries' = entries /\ pc[p] = "seed"
    BY <1>7 DEF NotifyRegistrationObserver
  <2>2. CASE Return(p)
    BY <2>1, <2>2, OwnersQuiet, OwnersReturn
  <2>3. CASE ~Return(p)
    <3>1. Continue(p, "rollback") /\ ~HasMasterRole(saved[p])
      BY <1>7, <2>3 DEF NotifyRegistrationObserver, Fail
    <3>2. saved[p] = byName[name[p]]
      BY <2>1 DEF OwnersFacts, SavedOK, SeedingPCs
    <3>3. pc'[p] = "rollback" /\ cands' = cands /\ name' = name
      BY <1>t, <3>1, ContinueKeeps
    <3>4. HandOK(p)'
      BY <1>t, <2>1, <3>1, <3>2, <3>3 DEF HandOK, IsMaster
    <3> QED
      BY <1>o, <2>1, <3>4, OwnersQuiet
  <2> QED BY <2>2, <2>3
<1>8. CASE Rollback(p)
  <2>1. /\ ~IsMaster(name[p]) /\ name[p] \in Names /\ Remove(name[p]) /\ Return(p)
        /\ entries' = entries
    BY <1>8, <1>t DEF Rollback, HandOK, HandlerOK
  <2>2. \A n \in Names \ {name[p]} : byName'[n] = byName[n]
    BY <1>t, <2>1 DEF Remove, registryVars, RegistryTypeOK
  <2>3. OwnersMasters'
    BY <1>t, <2>1, <2>2 DEF OwnersMasters, IsMaster, LedgerTypeOK
  <2> QED
    BY <2>1, <2>3, OwnersReturn
<1> QED
  BY <1>1, <1>2, <1>3, <1>4, <1>5, <1>6, <1>7, <1>8

(* The steps of a decommission. *)
LEMMA OwnersDraining ==
  ASSUME OwnersFacts, NEW p \in Handlers,
         \/ CheckOwned(p) \/ RegionCandidates(p) \/ AnyCandidates(p) \/ DrainOwned(p)
         \/ MoveEntry(p) \/ RemoveNode(p)
  PROVE  OwnersInv'
<1> USE MeshAssumption
<1>t. /\ LocalTypeOK /\ RegistryTypeOK /\ LedgerTypeOK
      /\ HandlerOK(p) /\ HandOK(p) /\ OwnersMasters
  BY TypeSplit DEF OwnersFacts, TypeOK, LocalsOK, OwnersInv
<1>o. ASSUME OwnersMasters', HandOK(p)' PROVE OwnersInv'
  BY <1>o, OwnersBy DEF OwnersFacts, SerialDeployment
<1>m. \A region : \A n \in MastersInRegion(region) : IsMaster(n)
  BY DEF MastersInRegion, IsMaster
<1>r. ASSUME Return(p), byName' = byName, entries' = entries PROVE OwnersInv'
  BY <1>r, OwnersQuiet, OwnersReturn
<1>1. CASE CheckOwned(p)
  <2>1. /\ byName' = byName /\ entries' = entries /\ pc[p] = "owned"
        /\ pc'[p] \in {"drain", "region"} /\ cands' = cands
    BY <1>1, <1>t, ContinueKeeps DEF CheckOwned, stores
  <2>2. HandOK(p)'
    BY <1>t, <2>1 DEF HandOK
  <2> QED
    BY <1>o, <2>1, <2>2, OwnersQuiet
<1>2. CASE RegionCandidates(p) \/ AnyCandidates(p)
  <2>1. byName' = byName /\ entries' = entries
    BY <1>2 DEF RegionCandidates, AnyCandidates, stores
  <2>2. \/ Return(p)
        \/ /\ name' = name
           /\ \A n \in cands'[p] : IsMaster(n) /\ n # name[p]
           /\ pc'[p] = "drain" \/ (pc'[p] = "any" /\ cands'[p] = {})
    <3>1. CASE RegionCandidates(p)
      <4>1. /\ name' = name /\ cands'[p] = MastersInRegion(saved[p].region) \ {name[p]}
            /\ pc'[p] = IF cands'[p] = {} THEN "any" ELSE "drain"
        BY <1>t, <3>1 DEF RegionCandidates, Goto, LocalTypeOK, callVars
      <4>2. \A n \in cands'[p] : IsMaster(n) /\ n # name[p]
        BY <1>m, <4>1
      <4> QED BY <4>1, <4>2
    <3>2. CASE AnyCandidates(p) /\ ~Return(p)
      <4>1. /\ name' = name /\ cands'[p] = MastersInRegion(Nil) \ {name[p]} /\ pc'[p] = "drain"
        BY <1>t, <3>2 DEF AnyCandidates, Goto, LocalTypeOK, callVars
      <4>2. \A n \in cands'[p] : IsMaster(n) /\ n # name[p]
        BY <1>m, <4>1
      <4> QED BY <4>1, <4>2
    <3> QED BY <1>2, <3>1, <3>2
  <2>3. CASE Return(p)
    BY <1>r, <2>1, <2>3
  <2>4. CASE ~Return(p)
    <3>1. HandOK(p)'
      BY <2>1, <2>2, <2>4 DEF HandOK, IsMaster
    <3> QED
      BY <1>o, <2>1, <3>1, OwnersQuiet
  <2> QED BY <2>3, <2>4
<1>3. CASE DrainOwned(p)
  <2>1. byName' = byName /\ entries' = entries
    BY <1>3 DEF DrainOwned, stores
  <2>2. CASE Return(p)
    BY <1>r, <2>1, <2>2
  <2>3. CASE ~Return(p)
    <3>1. /\ name' = name /\ cands' = cands /\ pc'[p] = "move" /\ drain'[p] = OwnedBy(name[p])
      BY <1>3, <1>t, <2>3 DEF DrainOwned, Goto, LocalTypeOK, callVars
    <3>2. HandOK(p)'
      BY <1>t, <2>1, <3>1 DEF HandOK, IsMaster, OwnedBy
    <3> QED
      BY <1>o, <2>1, <3>2, OwnersQuiet
  <2> QED BY <2>2, <2>3
<1>4. CASE MoveEntry(p)
  <2>1. PICK o \in drain[p], m \in cands[p] :
          ReassignExpecting(o, name[p], m) /\ drain' = [drain EXCEPT ![p] = @ \ {o}]
    BY <1>4 DEF MoveEntry
  <2>2. o \in Overlays /\ m \in Names /\ IsMaster(m) /\ m # name[p]
    BY <1>t DEF LocalTypeOK, HandOK
  <2>3. /\ byName' = byName /\ name' = name /\ pc' = pc /\ cands' = cands /\ pc[p] = "move"
        /\ drain'[p] = drain[p] \ {o}
    BY <1>4, <1>t, <2>1 DEF MoveEntry, callVars, LocalTypeOK
  <2>4. /\ entries'[o] = IF entries[o] = name[p] THEN m ELSE entries[o]
        /\ \A q \in Overlays \ {o} : entries'[q] = entries[q]
    BY <1>t, <2>1, <2>2 DEF ReassignExpecting, Reassign, ledgerVars, LedgerTypeOK
  <2>5. OwnersMasters'
    BY <1>t, <2>2, <2>3, <2>4 DEF OwnersMasters, IsMaster
  <2>6. OwnedBy(name[p])' \subseteq drain'[p]
    BY <1>t, <2>2, <2>3, <2>4 DEF OwnedBy, HandOK
  <2>7. HandOK(p)'
    BY <1>t, <2>3, <2>6 DEF HandOK, IsMaster
  <2> QED
    BY <1>o, <2>5, <2>7
<1>5. CASE RemoveNode(p)
  <2>1. /\ name[p] \in Names /\ Remove(name[p]) /\ Return(p) /\ entries' = entries
        /\ OwnedBy(name[p]) = {}
    BY <1>5, <1>t DEF RemoveNode, HandOK, HandlerOK
  <2>2. \A n \in Names \ {name[p]} : byName'[n] = byName[n]
    BY <1>t, <2>1 DEF Remove, registryVars, RegistryTypeOK
  <2>3. OwnersMasters'
    BY <1>t, <2>1, <2>2 DEF OwnersMasters, IsMaster, LedgerTypeOK, OwnedBy
  <2> QED
    BY <2>1, <2>3, OwnersReturn
<1> QED
  BY <1>1, <1>2, <1>3, <1>4, <1>5

(* DeviceFollowsRegistry: only the node whose registration is under way    *)
(* may be ahead of the master's mesh device.                               *)
RoutesTo(n) ==
    /\ Registered(n) /\ Self # Nil /\ ~HasMasterRole(byName[n]) /\ byName[n].pubkey # Nil
    => meshPeers[byName[n].overlay] = byName[n].pubkey

DrainingPCs == {"owned", "region", "any", "drain", "move"}

(* Without heartbeats that carry an identity every other call is a         *)
(* registration or a decommission.                                         *)
CallOK(p) ==
    pc[p] # "idle" => op[p] = IF pc[p] \in DrainingPCs THEN "decommission" ELSE "register"

RegisteringNode(n) == \E p \in Handlers : pc[p] \notin DrainingPCs \cup {"idle"} /\ name[p] = n

DeviceInv ==
    /\ \A p \in Handlers : CallOK(p)
    /\ \A n \in Names : RoutesTo(n) \/ RegisteringNode(n)

DeviceFacts ==
    /\ OneAtATime /\ HeartbeatKeys = {}
    /\ TypeOK /\ LocalsOK /\ StartupOK /\ RegistryIndexesAgree /\ IdentitiesOK /\ SavedOK /\ DeviceInv

(* A call that ends has the device in step. *)
LEMMA DeviceReturn ==
  ASSUME DeviceFacts, NEW p \in Handlers, Return(p), \A n \in Names : RoutesTo(n)'
  PROVE  DeviceInv'
<1>1. pc'[p] = "idle"
  BY ReturnKeeps, TypeSplit DEF DeviceFacts
<1>2. \A q \in Handlers : CallOK(q)'
  BY <1>1 DEF DeviceFacts, OneAtATime, CallOK
<1> QED
  BY <1>2 DEF DeviceInv

(* A call that goes on leaves registry and device as they are. *)
LEMMA DeviceOn ==
  ASSUME DeviceFacts, NEW p \in Handlers, byName' = byName, meshPeers' = meshPeers,
         name'[p] = name[p], op'[p] = op[p], pc[p] # "idle", pc'[p] # "idle",
         pc'[p] \in DrainingPCs <=> pc[p] \in DrainingPCs
  PROVE  DeviceInv'
<1>1. CallOK(p) /\ \A q \in Handlers : q = p
  BY DEF DeviceFacts, OneAtATime, DeviceInv
<1>2. \A q \in Handlers : CallOK(q)'
  BY <1>1 DEF CallOK
<1>3. ASSUME NEW n \in Names PROVE RoutesTo(n)' \/ RegisteringNode(n)'
  BY <1>1 DEF DeviceFacts, DeviceInv, RoutesTo, RegisteringNode
<1> QED
  BY <1>2, <1>3 DEF DeviceInv

(* Before a call and during a decommission the device is in step. *)
LEMMA DeviceInStep ==
  ASSUME DeviceFacts, NEW p \in Handlers, pc[p] \in DrainingPCs \cup {"idle"}
  PROVE  \A n \in Names : RoutesTo(n)
  BY DEF DeviceFacts, OneAtATime, DeviceInv, RegisteringNode

(* So it is, during a registration, for every node but the one registered. *)
LEMMA DeviceElsewhere ==
  ASSUME DeviceFacts, NEW p \in Handlers, NEW n \in Names, n # name[p]
  PROVE  RoutesTo(n)
<1>1. \A q \in Handlers : q = p
  BY DEF DeviceFacts, OneAtATime
<1>2. ~RegisteringNode(n)
  BY <1>1 DEF RegisteringNode
<1> QED
  BY <1>2 DEF DeviceFacts, DeviceInv

LEMMA DeviceStart ==
  ASSUME DeviceFacts,
         \/ SelfRegister
         \/ \E p \in Handlers : \/ \E req \in Requests : RegisterNode(p, req)
                                \/ \E n \in Names : DecommissionNode(p, n)
  PROVE  DeviceInv'
<1> USE MeshAssumption, ControlPlaneAssumption
<1>t. LocalTypeOK /\ RegistryTypeOK
  BY TypeSplit DEF DeviceFacts, TypeOK
<1>i. \A n \in Names : NodeIdentityOK(n)
  BY DEF DeviceFacts, IdentitiesOK
<1>1. CASE SelfRegister
  <2>1. /\ Self \in RegisterRequest /\ Self \in Identities /\ HasMasterRole(Self)
        /\ \A q \in Handlers : pc[q] = "idle"
        /\ \A n \in Names : ~Registered(n)
    BY <1>1 DEF DeviceFacts, LocalsOK, StartupOK, SelfRegister, Identities
  <2>2. /\ \A n \in Names \ {Self.name} : byName'[n] = byName[n]
        /\ byName'[Self.name].roles = Self.roles
    BY <1>1, <1>t, <1>i, <2>1, RegisterIdentity DEF SelfRegister
  <2>3. \A n \in Names : RoutesTo(n)'
    BY <2>1, <2>2 DEF RoutesTo
  <2>4. \A q \in Handlers : CallOK(q)'
    BY <1>1, <2>1 DEF SelfRegister, CallOK
  <2> QED
    BY <2>3, <2>4 DEF DeviceInv
<1>2. ASSUME NEW p \in Handlers, NEW req \in Requests, RegisterNode(p, req) PROVE DeviceInv'
  <2>1. req \in Identities /\ req \in RegisterRequest
    BY DEF Identities
  <2>2. \A n \in Names \ {req.name} : byName'[n] = byName[n]
    BY <1>2, <1>t, <1>i, <2>1, RegisterIdentity DEF RegisterNode
  <2>3. /\ pc[p] = "idle" /\ name'[p] = req.name /\ meshPeers' = meshPeers /\ op'[p] = "register"
        /\ pc'[p] \in {"reassign", "lookup"}
    BY <1>2, <1>t DEF RegisterNode, Start, Goto, LocalTypeOK
  <2>4. \A n \in Names : RoutesTo(n)
    BY <2>3, DeviceInStep
  <2>5. ASSUME NEW n \in Names PROVE RoutesTo(n)' \/ RegisteringNode(n)'
    <3>1. CASE n = req.name
      BY <2>3, <3>1 DEF RegisteringNode, DrainingPCs
    <3>2. CASE n # req.name
      BY <2>2, <2>3, <2>4, <3>2 DEF RoutesTo
    <3> QED BY <3>1, <3>2
  <2>6. \A q \in Handlers : CallOK(q)'
    BY <2>3 DEF DeviceFacts, OneAtATime, CallOK, DrainingPCs
  <2> QED
    BY <2>5, <2>6 DEF DeviceInv
<1>3. ASSUME NEW p \in Handlers, NEW n \in Names, DecommissionNode(p, n) PROVE DeviceInv'
  <2>1. /\ pc[p] = "idle" /\ pc'[p] = "owned" /\ op'[p] = "decommission"
        /\ byName' = byName /\ meshPeers' = meshPeers
    BY <1>3, <1>t DEF DecommissionNode, Start, Goto, LocalTypeOK, stores
  <2>2. \A k \in Names : RoutesTo(k)'
    BY <2>1, DeviceInStep DEF RoutesTo
  <2>3. \A q \in Handlers : CallOK(q)'
    BY <2>1 DEF DeviceFacts, OneAtATime, CallOK, DrainingPCs
  <2> QED
    BY <2>2, <2>3 DEF DeviceInv
<1> QED
  BY <1>1, <1>2, <1>3

(* The steps of a call that change neither registry nor device. *)
LEMMA DeviceQuiet ==
  ASSUME DeviceFacts, NEW p \in Handlers,
         \/ ReassignOwn(p) \/ LookupSaved(p) \/ ListNodes(p) \/ SeedSnapshot(p) \/ ScanEntry(p)
         \/ SeedLookup(p) \/ SeedAssign(p) \/ CheckOwned(p) \/ RegionCandidates(p)
         \/ AnyCandidates(p) \/ DrainOwned(p) \/ MoveEntry(p)
  PROVE  DeviceInv'
<1>t. LocalTypeOK /\ CallOK(p)
  BY TypeSplit DEF DeviceFacts, DeviceInv
<1>1. byName' = byName /\ meshPeers' = meshPeers
  BY DEF ReassignOwn, LookupSaved, ListNodes, SeedSnapshot, ScanEntry, SeedLookup, SeedAssign,
         CheckOwned, RegionCandidates, AnyCandidates, DrainOwned, MoveEntry, stores
<1>c. ASSUME NEW l, Continue(p, l), pc[p] # "idle", l # "idle", l \in DrainingPCs <=> pc[p] \in DrainingPCs
      PROVE  DeviceInv'
  <2>1. pc'[p] = l /\ name' = name /\ op' = op
    BY <1>c, <1>t, ContinueKeeps
  <2> QED
    BY <1>1, <1>c, <2>1, DeviceOn
<1>2. CASE ReassignOwn(p) \/ SeedLookup(p) \/ CheckOwned(p)
  BY <1>2, <1>c DEF ReassignOwn, SeedLookup, CheckOwned, DrainingPCs
<1>3. CASE SeedAssign(p)
  <2>1. op[p] = "register" /\ pc[p] = "assign"
    BY <1>3, <1>t DEF SeedAssign, CallOK, DrainingPCs
  <2>2. Continue(p, "seed") \/ Continue(p, "rollback")
    BY <1>3, <2>1 DEF SeedAssign, Fail
  <2> QED
    BY <1>c, <2>1, <2>2 DEF DrainingPCs
<1>4. CASE LookupSaved(p)
  <2>1. CASE Return(p)
    <3>1. ~Registered(name[p]) /\ pc[p] = "lookup"
      <4>1. pc'[p] = "idle"
        BY <1>t, <2>1, ReturnKeeps
      <4> QED
        BY <1>4, <1>t, <4>1 DEF LookupSaved, Goto, LocalTypeOK
    <3>2. \A n \in Names : RoutesTo(n)
      BY <3>1 DEF DeviceFacts, OneAtATime, DeviceInv, RoutesTo, RegisteringNode
    <3> QED
      BY <1>1, <2>1, <3>2, DeviceReturn DEF RoutesTo
  <2>2. CASE ~Return(p)
    <3>1. pc[p] = "lookup" /\ pc'[p] \in {"list", "seed"} /\ op' = op /\ name' = name
      BY <1>4, <1>t, <2>2 DEF LookupSaved, Goto, LocalTypeOK
    <3> QED
      BY <1>1, <3>1, DeviceOn DEF DrainingPCs
  <2> QED BY <2>1, <2>2
<1>5. CASE ListNodes(p) \/ SeedSnapshot(p) \/ ScanEntry(p)
  <2>1. op' = op /\ name' = name
    BY <1>5 DEF ListNodes, SeedSnapshot, ScanEntry, callVars
  <2>2. pc[p] \in SeedingPCs /\ pc'[p] \in SeedingPCs
    BY <1>5, <1>t DEF ListNodes, SeedSnapshot, ScanEntry, Goto, LocalTypeOK, SeedingPCs
  <2> QED
    BY <1>1, <2>1, <2>2, DeviceOn DEF SeedingPCs, DrainingPCs
<1>6. CASE RegionCandidates(p) \/ AnyCandidates(p) \/ DrainOwned(p) \/ MoveEntry(p)
  <2>1. pc[p] \in DrainingPCs
    BY <1>6 DEF RegionCandidates, AnyCandidates, DrainOwned, MoveEntry, DrainingPCs
  <2>2. CASE Return(p)
    BY <1>1, <2>1, <2>2, DeviceInStep, DeviceReturn DEF RoutesTo
  <2>3. CASE ~Return(p)
    <3>1. op' = op /\ name' = name
      BY <1>6, <2>3 DEF RegionCandidates, AnyCandidates, DrainOwned, MoveEntry, callVars
    <3>2. pc'[p] \in DrainingPCs
      BY <1>6, <1>t, <2>1, <2>3
         DEF RegionCandidates, AnyCandidates, DrainOwned, MoveEntry, Goto, LocalTypeOK, DrainingPCs
    <3> QED
      BY <1>1, <2>1, <3>1, <3>2, DeviceOn DEF DrainingPCs
  <2> QED BY <2>2, <2>3
<1> QED
  BY <1>2, <1>3, <1>4, <1>5, <1>6

(* The observer brings the device up to date, or the registration fails.   *)
LEMMA DeviceNotify ==
  ASSUME DeviceFacts, NEW p \in Handlers, NotifyRegistrationObserver(p)
  PROVE  DeviceInv'
<1>t. LocalTypeOK /\ RegistryTypeOK /\ CallOK(p) /\ name[p] \in Names /\ saved[p] \in RegisteredNode
  BY TypeSplit DEF DeviceFacts, TypeOK, LocalsOK, HandlerOK, DeviceInv, NotifyRegistrationObserver
<1>1. /\ pc[p] = "seed" /\ op[p] = "register" /\ byName' = byName
      /\ saved[p] = byName[name[p]] /\ byName[name[p]] # Nil
  BY <1>t, RegistryAssumption
     DEF DeviceFacts, SavedOK, SeedingPCs, NotifyRegistrationObserver, CallOK, DrainingPCs
<1> DEFINE node == byName[name[p]]
           applies == Self # Nil /\ ~HasMasterRole(node) /\ node.pubkey # Nil
           applied == [meshPeers EXCEPT ![node.overlay] = node.pubkey]
<1>2. meshPeers \in [Overlays -> Keys \cup {Nil}] /\ node.overlay \in Overlays
  BY <1>t, <1>1 DEF DeviceFacts, TypeOK, RegisteredNode
<1>3. \/ meshPeers' = (IF applies THEN applied ELSE meshPeers) /\ Return(p)
      \/ meshPeers' \in {meshPeers, applied} /\ Fail(p)
  BY <1>1 DEF NotifyRegistrationObserver
<1>4. ASSUME NEW n \in Names, n # name[p] PROVE RoutesTo(n)'
  <2>1. RoutesTo(n)
    BY <1>4, DeviceElsewhere
  <2>2. Registered(n) => byName[n].overlay # node.overlay /\ byName[n].overlay \in Overlays
    BY <1>t, <1>1, <1>4 DEF DeviceFacts, RegistryIndexesAgree, RegistryTypeOK, RegisteredNode
  <2>3. Registered(n) => meshPeers'[byName[n].overlay] = meshPeers[byName[n].overlay]
    BY <1>2, <1>3, <2>2
  <2> QED
    BY <1>1, <2>1, <2>3 DEF RoutesTo
<1>5. CASE Return(p) /\ meshPeers' = (IF applies THEN applied ELSE meshPeers)
  <2>1. ASSUME NEW n \in Names, n = name[p] PROVE RoutesTo(n)'
    <3>1. CASE applies
      BY <1>1, <1>2, <1>5, <2>1, <3>1 DEF RoutesTo
    <3>2. CASE ~applies
      BY <1>1, <2>1, <3>2 DEF RoutesTo
    <3> QED BY <3>1, <3>2
  <2>2. \A n \in Names : RoutesTo(n)'
    BY <1>4, <2>1
  <2> QED
    BY <1>5, <2>2, DeviceReturn
<1>6. CASE Fail(p)
  <2>1. Continue(p, "rollback")
    BY <1>1, <1>6 DEF Fail
  <2>2. pc'[p] = "rollback" /\ name' = name /\ op' = op
    BY <1>t, <2>1, ContinueKeeps
  <2>3. \A q \in Handlers : CallOK(q)'
    BY <1>1, <2>2 DEF DeviceFacts, OneAtATime, CallOK, DrainingPCs
  <2>4. RegisteringNode(name[p])'
    BY <2>2 DEF RegisteringNode, DrainingPCs
  <2>5. ASSUME NEW n \in Names PROVE RoutesTo(n)' \/ RegisteringNode(n)'
    BY <1>4, <2>2, <2>4 DEF RegisteringNode, DrainingPCs
  <2> QED
    BY <2>3, <2>5 DEF DeviceInv
<1> QED BY <1>3, <1>5, <1>6

LEMMA DeviceRemove ==
  ASSUME DeviceFacts, NEW p \in Handlers, Rollback(p) \/ RemoveNode(p)
  PROVE  DeviceInv'
<1>t. LocalTypeOK /\ RegistryTypeOK /\ name[p] \in Names
  BY TypeSplit DEF DeviceFacts, TypeOK, LocalsOK, HandlerOK, Rollback, RemoveNode
<1>1. Remove(name[p]) /\ Return(p) /\ meshPeers' = meshPeers
  BY DEF Rollback, RemoveNode
<1>2. byName'[name[p]] = Nil /\ \A n \in Names \ {name[p]} : byName'[n] = byName[n]
  BY <1>t, <1>1 DEF Remove, registryVars, RegistryTypeOK
<1>3. ASSUME NEW n \in Names PROVE RoutesTo(n)'
  <2>1. CASE n = name[p]
    BY <1>2, <2>1 DEF RoutesTo
  <2>2. CASE n # name[p]
    <3>1. RoutesTo(n)
      BY <2>2, DeviceElsewhere
    <3> QED
      BY <1>1, <1>2, <2>2, <3>1 DEF RoutesTo
  <2> QED BY <2>1, <2>2
<1> QED
  BY <1>1, <1>3, DeviceReturn

-----------------------------------------------------------------------------

(* Registry, ledger, device and the locals of the handlers keep their      *)
(* types, for any mesh and any number of concurrent calls.                 *)
THEOREM TypeCorrect ==
  Spec => []TypeOK
<1>1. IndInv => TypeOK
  BY DEF IndInv
<1> QED
  BY <1>1, Inductive, PTL

(* The two indexes of the registry never disagree: registry.Register's     *)
(* checks and Remove's two deletes suffice for any mesh and any number of  *)
(* racing RegisterNode, Heartbeat and DecommissionNode calls.              *)
THEOREM IndexesAgree ==
  Spec => []RegistryIndexesAgree
<1>1. IndInv => RegistryIndexesAgree
  BY DEF IndInv
<1> QED
  BY <1>1, Inductive, PTL

(* A registered master owns its own overlay address: nothing that races    *)
(* with it, neither a seeding nor a drain, takes the address away, save    *)
(* the decommissioning of that very master.                                *)
THEOREM MastersOwnThemselves ==
  Spec => []MasterOwnsItself
<1>1. IndInv => MasterOwnsItself
  BY DEF IndInv
<1> QED
  BY <1>1, Inductive, PTL

(* No step takes an owned address from a master that is not being          *)
(* decommissioned, except a registration or a seeding that writes that     *)
(* very address.                                                           *)
THEOREM OwnersNotRobbed ==
  Spec => NoOwnerRobbed
<1>1. IndInv /\ [Next]_vars =>
        [\A o \in Overlays :
           entries[o] # Nil /\ entries'[o] # entries[o] =>
             \E p \in Handlers :
               \/ pc[p] = "move" /\ name[p] = entries[o]
               \/ pc[p] = "reassign" /\ overlay[p] = o
               \/ pc[p] = "assign" /\ overlay[p] = o]_vars
  BY RobbedStep
<1> QED
  BY <1>1, Inductive, PTL DEF Spec, NoOwnerRobbed

(* Seeding leaves nobody out: in a deployment with one master, whatever    *)
(* registrations, heartbeats and decommissions overlap and fail, once no   *)
(* call is under way every registered node's address has an owner.         *)
THEOREM NobodyForgotten ==
  Spec => []NobodyLeftUnseeded
<1>1. Init => SeedInv
  <2> SUFFICES ASSUME Init, NEW m \in Names PROVE SoleOwner(m) /\ \A n \in Names : Awaited(m, n)
    BY DEF SeedInv
  <2>1. SoleOwner(m)
    BY DEF Init, NewLedger, SoleOwner, SoleHandler
  <2>2. byName[m] = Nil
    BY DEF Init, NewRegistry
  <2> QED
    BY <2>1, <2>2 DEF Awaited, Waiting, IsMaster
<1>2. IndInv /\ SeedInv /\ [Next]_vars => SeedInv'
  BY SeedStep
<1>3. ASSUME IndInv, SeedInv PROVE NobodyLeftUnseeded
  <2> SUFFICES ASSUME Quiescent, OneMasterDeployment, NEW m \in Names, IsMaster(m),
                      NEW n \in Names, Registered(n)
               PROVE  entries[byName[n].overlay] # Nil
    BY DEF NobodyLeftUnseeded, IsMaster
  <2>1. PICK r \in Identities : r.name = m /\ r.roles = byName[m].roles
    BY <1>3 DEF IndInv, IdentitiesOK, NodeIdentityOK, IsMaster
  <2>2. TheMaster(m)
    BY <2>1 DEF OneMasterDeployment, TheMaster, IsMaster
  <2>3. \A p \in Handlers : ~WillSeed(p, m, n)
    BY DEF Quiescent, WillSeed
  <2> QED
    BY <1>3, <2>2, <2>3 DEF SeedInv, Awaited, Waiting
<1> QED
  BY <1>1, <1>2, <1>3, Inductive, PTL DEF Spec

(* With calls one after the other, valid addresses and stable identities,  *)
(* whoever owns an address is registered as a master once the call is      *)
(* over: DecommissionNode drains all that its node owns, and Drain and the *)
(* seeding choose registered masters.                                      *)
THEOREM OwnersStayMasters ==
  SerialDeployment => (Spec => []OwnersAreRegisteredMasters)
<1> SUFFICES ASSUME SerialDeployment PROVE Spec => []OwnersAreRegisteredMasters
  OBVIOUS
<1>1. Init => SavedOK /\ OwnersInv
  BY DEF Init, NewLedger, SavedOK, SeedingPCs, OwnersInv, OwnersMasters, HandOK
<1>2. IndInv /\ SavedOK /\ OwnersInv /\ [Next]_vars => SavedOK' /\ OwnersInv'
  <2> SUFFICES ASSUME IndInv, SavedOK, OwnersInv, [Next]_vars PROVE SavedOK' /\ OwnersInv'
    OBVIOUS
  <2>1. OwnersFacts
    BY DEF OwnersFacts, IndInv
  <2>2. SavedOK'
    BY <2>1, SavedStep DEF OwnersFacts, SerialDeployment
  <2>3. CASE UNCHANGED vars
    BY <2>2, <2>3 DEF vars, stores, callVars, seedVars, drainVars, OwnersInv, OwnersMasters,
                      HandOK, IsMaster, OwnedBy
  <2>4. CASE Next
    BY <2>1, <2>2, <2>4, OwnersStart, OwnersSeeding, OwnersDraining DEF Next
  <2> QED BY <2>3, <2>4
<1>3. OwnersInv => OwnersAreRegisteredMasters
  BY DEF OwnersInv, OwnersMasters, IsMaster, OwnersAreRegisteredMasters
<1> QED
  BY <1>1, <1>2, <1>3, Inductive, PTL DEF Spec

(* With calls one after the other and heartbeats that carry no identity,   *)
(* the master's mesh device routes every registered node's address to its  *)
(* registered key whenever no call is under way: Register's observer runs  *)
(* before the reply, and a registration it fails is rolled back. (After a  *)
(* heartbeat whose observer fails the device does stay behind.)            *)
THEOREM DeviceKeepsUp ==
  OneAtATime /\ HeartbeatKeys = {} => (Spec => []DeviceFollowsRegistry)
<1> SUFFICES ASSUME OneAtATime, HeartbeatKeys = {} PROVE Spec => []DeviceFollowsRegistry
  OBVIOUS
<1>1. Init => SavedOK /\ DeviceInv
  <2> SUFFICES ASSUME Init PROVE SavedOK /\ DeviceInv
    OBVIOUS
  <2>1. (\A p \in Handlers : pc[p] = "idle") /\ \A n \in Names : ~Registered(n)
    BY DEF Init, NewRegistry, Registered
  <2> QED
    BY <2>1 DEF SavedOK, SeedingPCs, DeviceInv, CallOK, RoutesTo
<1>2. IndInv /\ SavedOK /\ DeviceInv /\ [Next]_vars => SavedOK' /\ DeviceInv'
  <2> SUFFICES ASSUME IndInv, SavedOK, DeviceInv, [Next]_vars PROVE SavedOK' /\ DeviceInv'
    OBVIOUS
  <2>1. DeviceFacts
    BY DEF DeviceFacts, IndInv
  <2>2. SavedOK'
    BY <2>1, SavedStep DEF DeviceFacts
  <2>3. CASE UNCHANGED vars
    BY <2>2, <2>3 DEF vars, stores, callVars, seedVars, drainVars, DeviceInv, CallOK, RoutesTo,
                      RegisteringNode
  <2>4. CASE Next
    <3>1. \A p \in Handlers : ~ \E n \in Names, key \in HeartbeatKeys : Heartbeat(p, n, key)
      OBVIOUS
    <3> QED
      BY <2>1, <2>2, <2>4, <3>1, DeviceStart, DeviceQuiet, DeviceNotify, DeviceRemove DEF Next
  <2> QED BY <2>3, <2>4
<1>3. TypeOK /\ DeviceInv => DeviceFollowsRegistry
  BY DEF DeviceInv, RegisteringNode, RoutesTo, DeviceFollowsRegistry, Quiescent
<1>4. IndInv => TypeOK
  BY DEF IndInv
<1> QED
  BY <1>1, <1>2, <1>3, <1>4, Inductive, PTL DEF Spec

=============================================================================
