----------------------------- MODULE PeerReload -----------------------------
(***************************************************************************)
(* How clientd brings a peer list onto its WireGuard device                  *)
(* (pkg/clientd/peer_reload.go) and how the command around it keeps running  *)
(* (pkg/clientd/command.go): the transport is created by the first Apply and *)
(* outlives the agent, whose runs follow each other with a growing pause.    *)
(***************************************************************************)
EXTENDS Naturals, Sequences

CONSTANTS
  PeerLists,   \* peer lists the coordinator may send: sequences of entries
  Own,         \* the node's own overlay prefix
  MaxApplies,  \* bound: calls of Apply
  MaxBackoff   \* reconnectMaxBackoff, in seconds

VARIABLES
  phase,      \* where the command is: "boot", "run", "wait" or "returned"
  backoff,    \* the next pause
  apply,      \* where Apply is, with the list it was given
  transport,  \* "none", "open" or "closed"
  device,     \* the peers configured on the device
  addr, up,   \* the overlay address is assigned, the link is up
  table,      \* prefixes routed to the device
  stopped,    \* the context is cancelled
  want,       \* history: lists Apply was given since the device was last configured
  applies

rvars == <<phase, backoff, apply, transport, device, addr, up, table, stopped, want, applies>>
loop == <<phase, backoff, stopped, applies>>
os == <<device, addr, up, table>>

NoApply == [pc |-> "idle", list |-> <<>>, left |-> {}]

(* PeerEntryToWGConfig: an entry without a key is skipped, any other flaw
   refuses the whole list; so does an explicit non-master role. *)
BuildFails(list) == \E i \in DOMAIN list : list[i].role \notin {"", "master"} \/ list[i].flawed

BuildPeerConfigs(list) ==
  {[key |-> list[i].key, allowed |-> list[i].allowed] : i \in {j \in DOMAIN list : list[j].key # ""}}

(* installPeerRoutes: every allowed prefix once, the node's own left out. *)
Prefixes(peers) == (UNION {p.allowed : p \in peers}) \ {Own}

AllPeers == UNION {BuildPeerConfigs(l) : l \in PeerLists}
AllPrefixes == UNION {Prefixes(BuildPeerConfigs(l)) : l \in PeerLists}

ReloadTypeOK ==
  /\ phase \in {"boot", "run", "wait", "returned"}
  /\ backoff \in 1..MaxBackoff
  /\ apply.pc \in {"idle", "build", "configure", "addr", "up", "routes"}
  /\ apply.list \in PeerLists \cup {<<>>}
  /\ transport \in {"none", "open", "closed"}
  /\ device \subseteq AllPeers
  /\ addr \in BOOLEAN /\ up \in BOOLEAN /\ stopped \in BOOLEAN
  /\ table \subseteq AllPrefixes /\ apply.left \subseteq AllPrefixes
  /\ applies \in 0..MaxApplies

ReloadInit ==
  /\ phase = "boot" /\ backoff = 1 /\ apply = NoApply
  /\ transport = "none" /\ device = {} /\ addr = FALSE /\ up = FALSE /\ table = {}
  /\ stopped = FALSE /\ want = {} /\ applies = 0

-----------------------------------------------------------------------------
(* runWithConfig: credentials, key, address and the certificate are read; then
   an agent is made and runs. *)
Boot ==
  /\ phase = "boot"
  /\ phase' \in {"run", "returned"}
  /\ UNCHANGED <<backoff, apply, transport, os, stopped, want, applies>>

(* Agent.Run returns.  nil or a cancelled context ends the command, and its
   deferred Close the device; otherwise the loop pauses.  A run of at least
   reconnectStableAfter resets the pause. *)
Close ==
  /\ transport' = IF transport = "open" THEN "closed" ELSE transport
  /\ device' = {} /\ addr' = FALSE /\ up' = FALSE /\ table' = {}

runEnds(nil, stable) ==
  /\ phase = "run" /\ apply.pc = "idle"
  /\ IF nil \/ stopped
     THEN phase' = "returned" /\ Close /\ UNCHANGED backoff
     ELSE /\ phase' = "wait" /\ backoff' = IF stable THEN 1 ELSE backoff
          /\ UNCHANGED <<transport, os>>
  /\ UNCHANGED <<apply, stopped, want, applies>>

Doubled == IF backoff * 2 > MaxBackoff THEN MaxBackoff ELSE backoff * 2

(* The pause is over, the certificate is read again and an agent made; a
   missing certificate file ends the command. *)
reconnect ==
  /\ phase = "wait"
  /\ \/ phase' = "run" /\ UNCHANGED <<transport, os>>
     \/ phase' = "returned" /\ Close
  /\ backoff' = Doubled
  /\ UNCHANGED <<apply, stopped, want, applies>>

waitCancelled ==
  /\ phase = "wait" /\ stopped
  /\ phase' = "returned" /\ Close
  /\ UNCHANGED <<backoff, apply, stopped, want, applies>>

CancelCommand ==
  /\ ~stopped /\ phase # "returned" /\ stopped' = TRUE
  /\ UNCHANGED <<phase, backoff, apply, transport, os, want, applies>>

-----------------------------------------------------------------------------
(* lazyTransportConfigurator.Apply, called by the running agent. *)
transportForApply(list) ==
  /\ phase = "run" /\ apply.pc = "idle" /\ applies < MaxApplies
  /\ applies' = applies + 1
  /\ \/ /\ transport' = "open"
        /\ apply' = [pc |-> "build", list |-> list, left |-> {}]
        /\ want' = want \cup {list}
     \/ /\ transport = "none"  \* the factory fails
        /\ UNCHANGED <<transport, apply, want>>
  /\ UNCHANGED <<phase, backoff, os, stopped>>

Abandon == apply' = NoApply
At(pc) == apply.pc = pc

(* TransportConfigurator.Apply: nothing is touched while the list is read. *)
Build ==
  /\ At("build")
  /\ IF stopped \/ BuildFails(apply.list) THEN Abandon
     ELSE apply' = [apply EXCEPT !.pc = "configure"]
  /\ UNCHANGED <<loop, transport, os, want>>

(* Transport.Configure with ReplacePeers: the device takes the peers line by
   line, so a failure leaves it as it was or with some of the new ones. *)
Configured_Merged(list) == device \cup BuildPeerConfigs(list)

Configured(list) == BuildPeerConfigs(list)

Configure ==
  /\ At("configure")
  /\ \/ /\ device' = Configured(apply.list) /\ want' = {apply.list}
        /\ apply' = [apply EXCEPT !.pc = "addr"]
     \/ /\ device' \in (SUBSET Configured(apply.list)) \cup {device}
        /\ Abandon /\ UNCHANGED want
  /\ UNCHANGED <<loop, transport, addr, up, table>>

AddrAdd ==
  /\ At("addr")
  /\ \/ addr' = TRUE /\ apply' = [apply EXCEPT !.pc = "up"]
     \/ Abandon /\ UNCHANGED addr
  /\ UNCHANGED <<loop, transport, device, up, table, want>>

LinkSetUp ==
  /\ At("up")
  /\ \/ /\ up' = TRUE
        /\ apply' = [apply EXCEPT !.pc = "routes", !.left = Prefixes(BuildPeerConfigs(apply.list))]
     \/ Abandon /\ UNCHANGED up
  /\ UNCHANGED <<loop, transport, device, addr, table, want>>

(* One route per step, in the order of the list; the first failure ends it. *)
installPeerRoutes ==
  /\ At("routes")
  /\ \/ /\ apply.left = {} /\ Abandon /\ UNCHANGED table
     \/ \E p \in apply.left :
          \/ table' = table \cup {p} /\ apply' = [apply EXCEPT !.left = @ \ {p}]
          \/ Abandon /\ UNCHANGED table
  /\ UNCHANGED <<loop, transport, device, addr, up, want>>

ReloadNext ==
  \/ Boot \/ \E nil, stable \in BOOLEAN : runEnds(nil, stable)
  \/ reconnect \/ waitCancelled \/ CancelCommand
  \/ \E l \in PeerLists : transportForApply(l)
  \/ Build \/ Configure \/ AddrAdd \/ LinkSetUp \/ installPeerRoutes

ReloadSpec == ReloadInit /\ [][ReloadNext]_rvars

-----------------------------------------------------------------------------
(* The device never mixes the peers of two lists, and never holds a peer of a
   list that was refused, whatever failed on the way and however lists follow
   each other. *)
DeviceIsOneList ==
  device # {} => \E l \in want : ~BuildFails(l) /\ device \subseteq BuildPeerConfigs(l)

(* An Apply that ends without an error leaves the device with all the peers of
   its list and every prefix of theirs routed, whatever an earlier,
   half-finished Apply had left. *)
CompletesApply ==
  (apply.pc = "routes" /\ apply.left = {}) =>
    /\ device = BuildPeerConfigs(apply.list)
    /\ UNION {p.allowed : p \in device} \subseteq table \cup {Own}
ApplyComplete == [][CompletesApply]_rvars

(* When the command has returned, its device is closed and no peer, address or
   route of it is left, at whatever point it was ended. *)
DeviceReleased == phase = "returned" => transport # "open" /\ device = {} /\ table = {}

(* Through every failure and restart the device has the peers of one list, *)
(* gets all of a list that is applied, and is released at the end          *)
(* (lazyTransportConfigurator).                                            *)
ReloadSafe ==
  /\ [](ReloadTypeOK /\ DeviceIsOneList /\ DeviceReleased)
  /\ ApplyComplete
=============================================================================
