---------------------------- MODULE ControlPlane ----------------------------
(***************************************************************************)
(* The registration, heartbeat and decommission RPCs of the control plane  *)
(* (pkg/control_plane/server.go) over the registry and the ledger they     *)
(* share, with the registration observer of the embedding master           *)
(* (pkg/node/master_v2.go).                                                *)
(*                                                                         *)
(* gRPC runs every call in its own goroutine.  A handler holds no lock of  *)
(* its own: it is atomic only within one method of Registry or Ledger.     *)
(* Handlers is a pool of goroutines; pc[p] is where one of them stands.    *)
(* One action is one locked call.                                          *)
(* Calls that are refused before they change anything are stutters and     *)
(* have no action.  What the handlers write to the audit log decides       *)
(* nothing and is left out.                                                *)
(***************************************************************************)
EXTENDS Registry, Ledger, FiniteSets

CONSTANTS Handlers,       \* goroutines that may serve RPCs at the same time
          Requests,       \* the RegisterNode requests nodes may send
          HeartbeatKeys,  \* the identities nodes may send in heartbeats
          Self,           \* the embedding master's own request, or Nil (standalone)
          MaxVersion      \* bound: no new call once the ledger reached this version

VARIABLES meshPeers,  \* overlay -> key the master's mesh device routes it to
          serving,    \* the gRPC server accepts calls
          \* where each handler stands, and its local variables
          pc, op, name, overlay, saved,
          list,   \* what is left of registry.List: names with their addresses
          scan,   \* what is left of singleSelfRegisteredMaster's snapshot
          owner,  \* the single master found so far
          cands,  \* the successors of a decommissioned node
          drain,  \* what is left of the entries that Drain read
          turn    \* calls of roundRobinChooser

ASSUME ControlPlaneAssumption ==
    /\ Requests \subseteq RegisterRequest
    /\ Self # Nil => /\ Self \in RegisterRequest
                     /\ HasMasterRole(Self)
                     /\ ValidateComposability(Self.roles)
                     /\ Self.cert # Nil
                     /\ Self.overlay \in ValidOverlays
    /\ HeartbeatKeys \subseteq Keys
    /\ MaxVersion \in Nat

stores == <<byName, byOverlay, entries, version, meshPeers, serving>>
callVars == <<op, name, saved>>
seedVars == <<overlay, list, scan, owner>>
drainVars == <<cands, drain, turn>>
vars == <<stores, pc, callVars, seedVars, drainVars>>

PCs == {"idle", "reassign", "lookup", "list", "seed", "scan", "assign",
        "rollback", "owned", "region", "any", "drain", "move"}

(* Every variable holds a value of its shape. *)
TypeOK ==
    /\ RegistryTypeOK
    /\ LedgerTypeOK
    /\ meshPeers \in [Overlays -> Keys \cup {Nil}]
    /\ serving \in BOOLEAN
    /\ pc \in [Handlers -> PCs]
    /\ op \in [Handlers -> {"none", "register", "heartbeat", "decommission"}]
    /\ name \in [Handlers -> Names \cup {Nil}]
    /\ overlay \in [Handlers -> Overlays \cup {Nil}]
    /\ saved \in [Handlers -> RegisteredNode \cup {Nil}]
    /\ list \in [Handlers -> SUBSET (Names \X Overlays)]
    /\ scan \in [Handlers -> SUBSET (Overlays \X Names)]
    /\ owner \in [Handlers -> Names \cup {Nil}]
    /\ cands \in [Handlers -> SUBSET Names]
    /\ drain \in [Handlers -> SUBSET Overlays]
    /\ turn \in [Handlers -> Nat]

Init ==
    /\ NewRegistry
    /\ NewLedger
    /\ meshPeers = [o \in Overlays |-> Nil]
    /\ serving = (Self = Nil)
    /\ pc = [p \in Handlers |-> "idle"]
    /\ op = [p \in Handlers |-> "none"]
    /\ name = [p \in Handlers |-> Nil]
    /\ overlay = [p \in Handlers |-> Nil]
    /\ saved = [p \in Handlers |-> Nil]
    /\ list = [p \in Handlers |-> {}]
    /\ scan = [p \in Handlers |-> {}]
    /\ owner = [p \in Handlers |-> Nil]
    /\ cands = [p \in Handlers |-> {}]
    /\ drain = [p \in Handlers |-> {}]
    /\ turn = [p \in Handlers |-> 0]

-----------------------------------------------------------------------------

Goto(p, l) == pc' = [pc EXCEPT ![p] = l]

(* The handler returns: its local variables are gone. *)
Return(p) ==
    /\ Goto(p, "idle")
    /\ op' = [op EXCEPT ![p] = "none"]
    /\ name' = [name EXCEPT ![p] = Nil]
    /\ overlay' = [overlay EXCEPT ![p] = Nil]
    /\ saved' = [saved EXCEPT ![p] = Nil]
    /\ list' = [list EXCEPT ![p] = {}]
    /\ scan' = [scan EXCEPT ![p] = {}]
    /\ owner' = [owner EXCEPT ![p] = Nil]
    /\ cands' = [cands EXCEPT ![p] = {}]
    /\ drain' = [drain EXCEPT ![p] = {}]
    /\ turn' = [turn EXCEPT ![p] = 0]

(* The handler goes on, with the same request. *)
Continue(p, l) == Goto(p, l) /\ UNCHANGED <<callVars, seedVars, drainVars>>

(* A call is accepted by an idle goroutine of the serving daemon. *)
Start(p, call, n, l) ==
    /\ serving
    /\ pc[p] = "idle"
    /\ version < MaxVersion
    /\ Goto(p, l)
    /\ op' = [op EXCEPT ![p] = call]
    /\ name' = [name EXCEPT ![p] = n]

(* Daemon.SelfRegister, called by Master.Run before the server is started; *)
(* with nothing registered yet the seeding that follows finds no node.     *)
SelfRegister ==
    /\ ~serving
    /\ CanRegister(Self, 0)
    /\ Register(Self, 0)
    /\ Reassign(Self.overlay, Self.name)
    /\ serving' = TRUE
    /\ UNCHANGED <<meshPeers, pc, callVars, seedVars, drainVars>>

(* RegisterNode up to registry.Register. *)
RegisterNode(p, req) ==
    /\ Start(p, "register", req.name,
             IF HasMasterRole(req) THEN "reassign" ELSE "lookup")
    /\ CanRegister(req, 0)
    /\ Register(req, 0)
    /\ overlay' = [overlay EXCEPT ![p] = req.overlay]
    /\ UNCHANGED <<entries, version, meshPeers, serving, saved, list, scan,
                   owner, drainVars>>

(* Mutant of ReassignOwn: an address that has an owner already keeps it. *)
ReassignOwn_KeepsOwner(p) ==
    /\ pc[p] = "reassign"
    /\ IF overlay[p] \in ValidOverlays /\ entries[overlay[p]] = Nil
       THEN Reassign(overlay[p], name[p])
       ELSE UNCHANGED ledgerVars
    /\ Continue(p, IF overlay[p] \in ValidOverlays THEN "lookup" ELSE "rollback")
    /\ UNCHANGED <<byName, byOverlay, meshPeers, serving>>

(* A master takes ownership of its own address; an address that is not     *)
(* IPv4 makes the handler undo the registration.                           *)
ReassignOwn(p) ==
    /\ pc[p] = "reassign"
    /\ IF overlay[p] \in ValidOverlays
       THEN Reassign(overlay[p], name[p]) /\ Continue(p, "lookup")
       ELSE UNCHANGED ledgerVars /\ Continue(p, "rollback")
    /\ UNCHANGED <<byName, byOverlay, meshPeers, serving>>

(* registry.Heartbeat of a message that carries an identity. *)
Heartbeat(p, n, key) ==
    /\ Registered(n)
    /\ Start(p, "heartbeat", n, "lookup")
    /\ HeartbeatIdentity(n, key)
    /\ UNCHANGED <<entries, version, meshPeers, serving, saved, seedVars,
                   drainVars>>

(* registry.Lookup of the node just written.  seedRegistrationOwnership    *)
(* then goes on with every registered node for a master, with the node     *)
(* itself otherwise.                                                       *)
LookupSaved(p) ==
    /\ pc[p] = "lookup"
    /\ LET node == byName[name[p]] IN
         \/ /\ ~Registered(name[p])
            /\ Return(p)
         \/ /\ Registered(name[p])
            /\ saved' = [saved EXCEPT ![p] = node]
            /\ IF HasMasterRole(node)
               THEN Goto(p, "list") /\ UNCHANGED list
               ELSE /\ Goto(p, "seed")
                    /\ list' = [list EXCEPT ![p] = {<<name[p], node.overlay>>}]
            /\ UNCHANGED <<op, name, overlay, scan, owner, drainVars>>
    /\ UNCHANGED stores

(* Mutant of ListNodes: a new master does not seed the nodes before it. *)
ListNodes_NoBackfill(p) ==
    /\ pc[p] = "list"
    /\ Goto(p, "seed")
    /\ list' = [list EXCEPT ![p] = {}]
    /\ UNCHANGED <<stores, callVars, overlay, scan, owner, drainVars>>

(* registry.List; masters are skipped by seedRegisteredNodeOwnership. *)
ListNodes(p) ==
    /\ pc[p] = "list"
    /\ Goto(p, "seed")
    /\ list' = [list EXCEPT ![p] =
                  {<<n, byName[n].overlay>> :
                     n \in {m \in Names : /\ Registered(m)
                                          /\ ~HasMasterRole(byName[m])}}]
    /\ UNCHANGED <<stores, callVars, overlay, scan, owner, drainVars>>

(* The next listed node, by name: singleSelfRegisteredMaster takes its     *)
(* snapshot of the ledger.                                                 *)
SeedSnapshot(p) ==
    /\ pc[p] = "seed"
    /\ \E node \in list[p] :
         /\ \A other \in list[p] : node[1] <= other[1]
         /\ overlay' = [overlay EXCEPT ![p] = node[2]]
         /\ list' = [list EXCEPT ![p] = @ \ {node}]
    /\ scan' = [scan EXCEPT ![p] =
                  {<<o, entries[o]>> : o \in {q \in Overlays : entries[q] # Nil}}]
    /\ owner' = [owner EXCEPT ![p] = Nil]
    /\ Goto(p, "scan")
    /\ UNCHANGED <<stores, callVars, drainVars>>

(* The next snapshot entry, by address: its owner counts when it is        *)
(* registered, now, as a master with this very address; a second such      *)
(* owner makes the answer "none".                                          *)
ScanEntry(p) ==
    /\ pc[p] = "scan"
    /\ \E entry \in scan[p] :
         LET m == entry[2]
             counts == /\ Registered(m)
                       /\ HasMasterRole(byName[m])
                       /\ byName[m].overlay = entry[1]
         IN /\ \A other \in scan[p] : entry[1] <= other[1]
            /\ \/ /\ counts /\ owner[p] \notin {Nil, m}
                  /\ scan' = [scan EXCEPT ![p] = {}]
                  /\ owner' = [owner EXCEPT ![p] = Nil]
                  /\ Goto(p, "seed")
               \/ /\ counts => owner[p] \in {Nil, m}
                  /\ scan' = [scan EXCEPT ![p] = @ \ {entry}]
                  /\ owner' = [owner EXCEPT ![p] = IF counts THEN m ELSE @]
                  /\ UNCHANGED pc
    /\ UNCHANGED <<stores, callVars, overlay, list, drainVars>>

(* The scan is over: ledger.Lookup, when there is a single owner. *)
SeedLookup(p) ==
    /\ pc[p] = "scan"
    /\ scan[p] = {}
    /\ Continue(p, IF owner[p] # Nil /\ entries[overlay[p]] = Nil
                   THEN "assign" ELSE "seed")
    /\ UNCHANGED stores

(* How a failed RegisterNode or Heartbeat goes on. *)
Fail(p) ==
    \/ op[p] = "register" /\ Continue(p, "rollback")
    \/ op[p] = "heartbeat" /\ Return(p)

(* ledger.Reassign of the unowned address to the single owner found. *)
SeedAssign(p) ==
    /\ pc[p] = "assign"
    /\ IF overlay[p] \in ValidOverlays
       THEN Reassign(overlay[p], owner[p]) /\ Continue(p, "seed")
       ELSE UNCHANGED ledgerVars /\ Fail(p)
    /\ UNCHANGED <<byName, byOverlay, meshPeers, serving>>

(* Mutant of NotifyRegistrationObserver: a known peer is left as it is. *)
NotifyRegistrationObserver_Once(p) ==
    LET node == saved[p]
        applies == Self # Nil /\ ~HasMasterRole(node) /\ node.pubkey # Nil
        applied == [meshPeers EXCEPT ![node.overlay] = node.pubkey]
    IN /\ pc[p] = "seed"
       /\ list[p] = {}
       /\ meshPeers' = (IF applies /\ meshPeers[node.overlay] = Nil
                        THEN applied ELSE meshPeers)
       /\ Return(p)
       /\ UNCHANGED <<byName, byOverlay, entries, version, serving>>

(* Nothing left to seed: the observer, applyRegisteredMeshPeer, adds the   *)
(* node to the master's mesh device and routes its address there.  Masters *)
(* and nodes without a usable key are skipped; either call may fail, and   *)
(* so may the parsing of an address that is not IPv4.                      *)
NotifyRegistrationObserver(p) ==
    LET node == saved[p]
        applies == Self # Nil /\ ~HasMasterRole(node) /\ node.pubkey # Nil
        applied == [meshPeers EXCEPT ![node.overlay] = node.pubkey]
    IN /\ pc[p] = "seed"
       /\ list[p] = {}
       /\ \/ meshPeers' = (IF applies THEN applied ELSE meshPeers) /\ Return(p)
          \/ applies /\ meshPeers' \in {meshPeers, applied} /\ Fail(p)
       /\ UNCHANGED <<byName, byOverlay, entries, version, serving>>

(* The rejected registration is removed again; the ledger is left alone. *)
Rollback(p) ==
    /\ pc[p] = "rollback"
    /\ Remove(name[p])
    /\ Return(p)
    /\ UNCHANGED <<entries, version, meshPeers, serving>>

-----------------------------------------------------------------------------

(* DecommissionNode: registry.Lookup of the target. *)
DecommissionNode(p, n) ==
    /\ Registered(n)
    /\ Start(p, "decommission", n, "owned")
    /\ saved' = [saved EXCEPT ![p] = byName[n]]
    /\ UNCHANGED <<stores, seedVars, drainVars>>

(* ledger.OwnedBy decides whether successors are needed at all. *)
CheckOwned(p) ==
    /\ pc[p] = "owned"
    /\ Continue(p, IF OwnedBy(name[p]) = {} THEN "drain" ELSE "region")
    /\ UNCHANGED stores

(* Successors in the region of the target; filterOut drops the target. *)
RegionCandidates(p) ==
    /\ pc[p] = "region"
    /\ cands' = [cands EXCEPT ![p] =
                   MastersInRegion(saved[p].region) \ {name[p]}]
    /\ Goto(p, IF cands'[p] = {} THEN "any" ELSE "drain")
    /\ UNCHANGED <<stores, callVars, seedVars, drain, turn>>

(* No successor in the region: any master of the mesh. *)
AnyCandidates(p) ==
    /\ pc[p] = "any"
    /\ LET masters == MastersInRegion(Nil) \ {name[p]} IN
         \/ masters = {} /\ Return(p)
         \/ /\ masters # {}
            /\ cands' = [cands EXCEPT ![p] = masters]
            /\ Goto(p, "drain")
            /\ UNCHANGED <<callVars, seedVars, drain, turn>>
    /\ UNCHANGED stores

(* Mutant of DrainOwned: only the target's own address is moved. *)
DrainOwned_OwnAddressOnly(p) ==
    /\ pc[p] = "drain"
    /\ drain' = [drain EXCEPT ![p] = OwnedBy(name[p]) \cap {saved[p].overlay}]
    /\ Goto(p, "move")
    /\ UNCHANGED <<callVars, seedVars, cands, turn>>
    /\ UNCHANGED stores

(* Drain reads OwnedBy again; without a chooser it fails on any entry. *)
DrainOwned(p) ==
    /\ pc[p] = "drain"
    /\ \/ /\ OwnedBy(name[p]) # {} /\ cands[p] = {}
          /\ Return(p)
       \/ /\ OwnedBy(name[p]) = {} \/ cands[p] # {}
          /\ drain' = [drain EXCEPT ![p] = OwnedBy(name[p])]
          /\ Goto(p, "move")
          /\ UNCHANGED <<callVars, seedVars, cands, turn>>
    /\ UNCHANGED stores

(* One turn of Drain's loop: the next entry, by address, goes to the next  *)
(* successor of roundRobinChooser, by name, if the target still owns it.   *)
MoveEntry(p) ==
    /\ pc[p] = "move"
    /\ \E o \in drain[p], m \in cands[p] :
         /\ \A q \in drain[p] : o <= q
         /\ Cardinality({k \in cands[p] : k < m}) =
              turn[p] % Cardinality(cands[p])
         /\ ReassignExpecting(o, name[p], m)
         /\ drain' = [drain EXCEPT ![p] = @ \ {o}]
    /\ turn' = [turn EXCEPT ![p] = @ + 1]
    /\ UNCHANGED <<byName, byOverlay, meshPeers, serving, pc, callVars,
                   seedVars, cands>>

(* Drained: registry.Remove. *)
RemoveNode(p) ==
    /\ pc[p] = "move"
    /\ drain[p] = {}
    /\ Remove(name[p])
    /\ Return(p)
    /\ UNCHANGED <<entries, version, meshPeers, serving>>

-----------------------------------------------------------------------------

Next ==
    \/ SelfRegister
    \/ \E p \in Handlers :
         \/ \E req \in Requests : RegisterNode(p, req)
         \/ ReassignOwn(p)
         \/ \E n \in Names, key \in HeartbeatKeys : Heartbeat(p, n, key)
         \/ LookupSaved(p)
         \/ ListNodes(p)
         \/ SeedSnapshot(p)
         \/ ScanEntry(p)
         \/ SeedLookup(p)
         \/ SeedAssign(p)
         \/ NotifyRegistrationObserver(p)
         \/ Rollback(p)
         \/ \E n \in Names : DecommissionNode(p, n)
         \/ CheckOwned(p)
         \/ RegionCandidates(p)
         \/ AnyCandidates(p)
         \/ DrainOwned(p)
         \/ MoveEntry(p)
         \/ RemoveNode(p)

Spec == Init /\ [][Next]_vars

-----------------------------------------------------------------------------

Quiescent == \A p \in Handlers : pc[p] = "idle"

(* The deployment gives every node one address of its own and fixed roles, *)
(* as a topology file does.                                                *)
Identities == Requests \cup ({Self} \ {Nil})

StableIdentities ==
    \A r, q \in Identities :
        /\ r.name = q.name => r.roles = q.roles /\ r.overlay = q.overlay
        /\ r.overlay = q.overlay => r.name = q.name

(* Register and Remove keep the two indexes of the registry inverse to     *)
(* each other, whatever calls race: byOverlay names the node that holds    *)
(* an address in byName, and no two names hold the same address.           *)
RegistryIndexesAgree ==
    /\ \A n \in Names :
         Registered(n) => byOverlay[byName[n].overlay] = n
    /\ \A o \in Overlays :
         byOverlay[o] # Nil => /\ Registered(byOverlay[o])
                               /\ byName[byOverlay[o]].overlay = o

(* A registered master owns its own address, except while the RegisterNode *)
(* that is about to write it, or a DecommissionNode that is going to       *)
(* remove the master, is under way.                                        *)
MasterOwnsItself ==
    StableIdentities =>
      \A n \in Names :
        Registered(n) /\ HasMasterRole(byName[n]) =>
          \/ entries[byName[n].overlay] = n
          \/ byName[n].overlay \notin ValidOverlays
          \/ \E p \in Handlers :
               name[p] = n /\ pc[p] \in {"reassign", "move"}

(* No master is robbed: an owned address changes hands only when its owner *)
(* is being decommissioned at that moment, when a master registers it as   *)
(* its own, or in the last step of a seeding that found it unowned.  Drain *)
(* works on a list that other calls may have made stale.                   *)
NoOwnerRobbed ==
    [][\A o \in Overlays :
         entries[o] # Nil /\ entries'[o] # entries[o] =>
           \E p \in Handlers :
             \/ pc[p] = "move" /\ name[p] = entries[o]
             \/ pc[p] = "reassign" /\ overlay[p] = o
             \/ pc[p] = "assign" /\ overlay[p] = o]_vars

OneMasterDeployment ==
    \A r, q \in Identities :
        HasMasterRole(r) /\ HasMasterRole(q) => r.name = q.name

(* Seeding leaves nobody out: with one master in the deployment and no     *)
(* call under way, every registered node's address has an owner, although  *)
(* the node and the master write registry and ledger and read each other's *)
(* writes without a common lock.                                           *)
NobodyLeftUnseeded ==
    /\ Quiescent
    /\ OneMasterDeployment
    /\ \E m \in Names : Registered(m) /\ HasMasterRole(byName[m])
    => \A n \in Names : Registered(n) => entries[byName[n].overlay] # Nil

(* Once no call is under way, whoever owns an address is registered as a   *)
(* master: DecommissionNode drained the others.                            *)
OwnersAreRegisteredMasters ==
    Quiescent => \A o \in Overlays :
        entries[o] # Nil => /\ Registered(entries[o])
                            /\ HasMasterRole(byName[entries[o]])

(* Once no call is under way and some master is registered, the address of *)
(* every registered node has an owner (FR-5 HA-2).  The code does not keep *)
(* this: seeding stops as soon as there are two masters.                   *)
EveryOverlayOwned ==
    /\ Quiescent
    /\ \E m \in Names : Registered(m) /\ HasMasterRole(byName[m])
    => \A n \in Names : Registered(n) => entries[byName[n].overlay] # Nil

(* Once no call is under way, the master's mesh device routes the address  *)
(* of a registered node to the key the registry holds for that node.       *)
DeviceFollowsRegistry ==
    Quiescent => \A n \in Names :
        LET node == byName[n] IN
        /\ Registered(n)
        /\ Self # Nil
        /\ ~HasMasterRole(node)
        /\ node.pubkey # Nil
        => meshPeers[node.overlay] = node.pubkey

-----------------------------------------------------------------------------
(* What makes the invariants inductive (module ControlPlane_proofs).       *)

(* A handler holds the locals that its next step reads. *)
HandlerOK(p) ==
    /\ pc[p] # "idle" => name[p] \in Names
    /\ pc[p] \in {"reassign", "scan", "assign"} => overlay[p] \in Overlays
    /\ pc[p] \in {"list", "seed", "scan", "assign", "owned", "region", "any"}
         => saved[p] \in RegisteredNode
    /\ pc[p] = "assign" => owner[p] \in Names

LocalsOK ==
    /\ ~serving => Self # Nil
    /\ \A p \in Handlers : HandlerOK(p)

(* Every identity in the registry and in a handler's hands comes from a    *)
(* request; only addresses of nodes that are not masters are seeded.       *)
NodeIdentityOK(n) ==
    Registered(n) => \E r \in Identities : /\ r.name = n
                                           /\ r.roles = byName[n].roles
                                           /\ r.overlay = byName[n].overlay

NonMasterAddress(o) ==
    \E r \in Identities : ~HasMasterRole(r) /\ r.overlay = o

HandlerIdentityOK(p) ==
    /\ pc[p] = "reassign" =>
         \E r \in Identities : /\ HasMasterRole(r)
                               /\ r.name = name[p]
                               /\ r.overlay = overlay[p]
    /\ \A node \in list[p] : NonMasterAddress(node[2])
    /\ pc[p] \in {"scan", "assign"} => NonMasterAddress(overlay[p])

IdentitiesOK ==
    /\ \A n \in Names : NodeIdentityOK(n)
    /\ \A p \in Handlers : HandlerIdentityOK(p)

(* Until the master has registered itself no handler runs and the stores   *)
(* are empty.                                                              *)
StartupOK ==
    ~serving => /\ \A p \in Handlers : pc[p] = "idle"
                /\ \A o \in Overlays : entries[o] = Nil
                /\ \A n \in Names : ~Registered(n)

IndInv ==
    /\ TypeOK
    /\ LocalsOK
    /\ StartupOK
    /\ RegistryIndexesAgree
    /\ IdentitiesOK
    /\ MasterOwnsItself

=============================================================================
