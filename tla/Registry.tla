------------------------------ MODULE Registry ------------------------------
(***************************************************************************)
(* The identity registry of the control plane                              *)
(* (pkg/control_plane/registry.go): which nodes exist, which overlay       *)
(* address each one holds and which certificate its name is pinned to.     *)
(*                                                                         *)
(* Every method of Registry takes the registry's mutex for its whole body, *)
(* so each one is a single step here.  A method that can fail is split     *)
(* into its guard (CanRegister, ...) and its effect (Register, ...); the   *)
(* RPC handlers that call it choose between effect and error path.         *)
(*                                                                         *)
(* pubkey stands for the three identity fields Pubkey, EndpointHost and    *)
(* Protocol, which the code treats alike.  Heartbeat times, health         *)
(* indicators and node versions are written and never read by the code,    *)
(* and are left out.                                                       *)
(***************************************************************************)
EXTENDS Mesh

CONSTANTS Regions,  \* region labels other than the empty one
          Certs,    \* node certificates (PEM blobs)
          Keys      \* peer identities (public key, endpoint, protocol)

VARIABLES byName,    \* name -> RegisteredNode, or Nil
          byOverlay  \* overlay -> name, or Nil

Roles == {"client", "master", "balancer", "egress", "ingress"}

RegisteredNode ==
    [roles        : SUBSET Roles,
     overlay      : Overlays,
     region       : Regions \cup {Nil},
     cert         : Certs,
     pending      : Certs \cup {Nil},
     overlapUntil : Nat,
     registeredAt : Nat,
     pubkey       : Keys \cup {Nil}]

RegisterRequest ==
    [name    : Names,
     roles   : SUBSET Roles,
     overlay : Overlays \cup {Nil},
     region  : Regions \cup {Nil},
     cert    : Certs \cup {Nil},
     pubkey  : Keys \cup {Nil}]

ASSUME RegistryAssumption ==
    /\ Nil \notin Regions \cup Certs \cup Keys
    /\ Nil \notin RegisteredNode

registryVars == <<byName, byOverlay>>

RegistryTypeOK ==
    /\ byName \in [Names -> RegisteredNode \cup {Nil}]
    /\ byOverlay \in [Overlays -> Names \cup {Nil}]

NewRegistry ==
    /\ byName = [n \in Names |-> Nil]
    /\ byOverlay = [o \in Overlays |-> Nil]

-----------------------------------------------------------------------------

Registered(n) == byName[n] # Nil

HasMasterRole(node) == "master" \in node.roles

(* role.ValidateComposability: the client role is exclusive. *)
ValidateComposability(roles) ==
    roles # {} /\ ("client" \in roles => roles = {"client"})

(* A pending certificate is active until its overlap window closes. *)
hasActivePendingCert(node, now) ==
    node.pending # Nil /\ node.overlapUntil > now

canPromotePendingCert(prev, cert, now) ==
    /\ prev.pending # Nil
    /\ prev.pending = cert
    /\ prev.overlapUntil > now

(* Mutants of CanRegister: a certificate is not required, ... *)
CanRegister_NoCert(req, now) ==
    /\ ValidateComposability(req.roles)
    /\ req.overlay # Nil
    /\ byOverlay[req.overlay] \in {Nil, req.name}
    /\ Registered(req.name) => byName[req.name].overlay = req.overlay

(* ... a known name may come back with another address. *)
CanRegister_AddressMoves(req, now) ==
    /\ ValidateComposability(req.roles)
    /\ req.cert # Nil
    /\ req.overlay # Nil
    /\ byOverlay[req.overlay] \in {Nil, req.name}

(* Register succeeds: the arguments are well formed, the address is not    *)
(* held by another name, and a known name shows the pinned certificate (or *)
(* the pending one, in time) and the address it already has.               *)
CanRegister(req, now) ==
    /\ ValidateComposability(req.roles)
    /\ req.cert # Nil
    /\ req.overlay # Nil
    /\ byOverlay[req.overlay] \in {Nil, req.name}
    /\ Registered(req.name) =>
         LET prev == byName[req.name] IN
         /\ prev.cert = req.cert \/ canPromotePendingCert(prev, req.cert, now)
         /\ prev.overlay = req.overlay

(* What Register stores: a re-registration keeps the pending certificate   *)
(* when the pinned one was shown, the identity fields it leaves empty, and *)
(* the time of the first registration.                                     *)
StoredNode(req, now) ==
    LET prev == byName[req.name]
        known == prev # Nil
        keep == known /\ prev.cert = req.cert
    IN [roles        |-> req.roles,
        overlay      |-> req.overlay,
        region       |-> req.region,
        cert         |-> req.cert,
        pending      |-> IF keep THEN prev.pending ELSE Nil,
        overlapUntil |-> IF keep THEN prev.overlapUntil ELSE 0,
        registeredAt |-> IF known THEN prev.registeredAt ELSE now,
        pubkey       |-> IF known /\ req.pubkey = Nil THEN prev.pubkey
                                                      ELSE req.pubkey]

Register(req, now) ==
    /\ byName' = [byName EXCEPT ![req.name] = StoredNode(req, now)]
    /\ byOverlay' = [byOverlay EXCEPT ![req.overlay] = req.name]

(* Heartbeat of a registered node: a non-empty identity replaces the old.  *)
HeartbeatIdentity(n, key) ==
    /\ byName' = [byName EXCEPT ![n].pubkey = IF key = Nil THEN @ ELSE key]
    /\ UNCHANGED byOverlay

(* Mutant of CanAllowCertRollover: an active replacement is replaced. *)
CanAllowCertRollover_Overwrites(n, cert, until, now) ==
    /\ until > now
    /\ Registered(n)

(* AllowCertRollover accepts a replacement certificate: the deadline lies  *)
(* ahead and no other replacement is active.                               *)
CanAllowCertRollover(n, cert, until, now) ==
    /\ until > now
    /\ Registered(n)
    /\ hasActivePendingCert(byName[n], now) => byName[n].pending = cert

AllowCertRollover(n, cert, until) ==
    /\ byName' = [byName EXCEPT ![n].pending = cert, ![n].overlapUntil = until]
    /\ UNCHANGED byOverlay

(* ClearCertRollover forgets the replacement if it is still this one. *)
ClearCertRollover(n, cert) ==
    IF Registered(n) /\ byName[n].pending = cert
    THEN /\ byName' = [byName EXCEPT ![n].pending = Nil, ![n].overlapUntil = 0]
         /\ UNCHANGED byOverlay
    ELSE UNCHANGED registryVars

(* Remove; absent names are reported and change nothing. *)
Remove(n) ==
    IF Registered(n)
    THEN /\ byName' = [byName EXCEPT ![n] = Nil]
         /\ byOverlay' = [byOverlay EXCEPT ![byName[n].overlay] = Nil]
    ELSE UNCHANGED registryVars

(* MastersInRegion; the empty region selects every master. *)
MastersInRegion(region) ==
    {n \in Names : /\ Registered(n)
                   /\ region = Nil \/ byName[n].region = region
                   /\ HasMasterRole(byName[n])}

=============================================================================
