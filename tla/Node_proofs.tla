---------------------------- MODULE Node_proofs -----------------------------
(***************************************************************************)
(* Proofs about what a node does to its host: module PeerReload, for any   *)
(* peer lists and any number of calls of Apply; module PolicyRouting, for  *)
(* any policies, nexthops, interfaces and number of calls; and module      *)
(* Firewall, for any owners, interfaces, ranges and number of calls.  And  *)
(* about how it starts: module NodeStart, for any flags and changes of the *)
(* files on the way.                                                       *)
(***************************************************************************)
EXTENDS PeerReload, PolicyRouting, Firewall, NodeStart, TLAPS

USE ZenonT(60)

Ready == {"configure", "addr", "up", "routes"}

(* Where the Apply under way got its list from and how far it is: the list *)
(* is one of those given since the device was last configured, it was read *)
(* without a flaw from "configure" on, its peers are on the device from    *)
(* "addr" on, and at "routes" what is left are the prefixes not routed.    *)
ApplyInv ==
  /\ apply = [pc |-> apply.pc, list |-> apply.list, left |-> apply.left]
  /\ apply.pc # "idle" => phase = "run" /\ apply.list \in want
  /\ apply.pc \in Ready => ~BuildFails(apply.list)
  /\ apply.pc \in {"addr", "up", "routes"} => device = BuildPeerConfigs(apply.list)
  /\ apply.pc = "routes" => Prefixes(BuildPeerConfigs(apply.list)) \subseteq table \cup apply.left

(* Before the first agent there is no device; after the command, no more. *)
DeviceInv ==
  /\ phase \in {"boot", "run", "wait", "returned"}
  /\ phase = "boot" => transport = "none" /\ device = {} /\ table = {}
  /\ DeviceReleased
  /\ DeviceIsOneList

LoopStep ==
  \/ Boot \/ \E nil, stable \in BOOLEAN : runEnds(nil, stable)
  \/ reconnect \/ waitCancelled \/ CancelCommand

-----------------------------------------------------------------------------
(* Nothing is under way, and there is no device, when the command begins. *)
LEMMA InitInv ==
  ASSUME ReloadInit
  PROVE  ApplyInv /\ DeviceInv
  BY DEF ReloadInit, ApplyInv, DeviceInv, NoApply, Ready, DeviceReleased, DeviceIsOneList

(* Steps of the command loop: they touch the device only to close it. *)
LEMMA LoopKeeps ==
  ASSUME ApplyInv, DeviceInv, LoopStep
  PROVE  ApplyInv' /\ DeviceInv'
<1> USE DEF ApplyInv, DeviceInv, Ready, DeviceReleased, DeviceIsOneList, os
<1>1. CASE Boot
  BY <1>1 DEF Boot
<1>2. CASE \E nil, stable \in BOOLEAN : runEnds(nil, stable)
  BY <1>2 DEF runEnds, Close
<1>3. CASE reconnect
  BY <1>3 DEF reconnect, Close
<1>4. CASE waitCancelled
  BY <1>4 DEF waitCancelled, Close
<1>5. CASE CancelCommand
  BY <1>5 DEF CancelCommand
<1> QED BY <1>1, <1>2, <1>3, <1>4, <1>5 DEF LoopStep

(* Giving up an Apply keeps what is known of the device. *)
LEMMA AbandonKeeps ==
  ASSUME Abandon
  PROVE  ApplyInv'
  BY DEF Abandon, NoApply, ApplyInv, Ready

(* A new Apply adds its list to those the device may come from. *)
LEMMA BeginKeeps ==
  ASSUME ApplyInv, DeviceInv, NEW l \in PeerLists, transportForApply(l)
  PROVE  ApplyInv' /\ DeviceInv'
  BY SMTT(30) DEF transportForApply, ApplyInv, DeviceInv, Ready, DeviceReleased, DeviceIsOneList, os

(* Reading the list touches nothing. *)
LEMMA BuildKeeps ==
  ASSUME ApplyInv, DeviceInv, Build
  PROVE  ApplyInv' /\ DeviceInv'
<1>1. DeviceInv'
  BY DEF Build, DeviceInv, loop, os, DeviceReleased, DeviceIsOneList
<1>2. CASE Abandon
  BY <1>1, <1>2, AbandonKeeps
<1>3. CASE ~Abandon
  BY <1>1, <1>3 DEF Build, At, ApplyInv, Ready, loop, os
<1> QED BY <1>2, <1>3

(* Configure leaves the device as it was, or with peers of its list only. *)
LEMMA ConfigureKeeps ==
  ASSUME ApplyInv, DeviceInv, Configure
  PROVE  ApplyInv' /\ DeviceInv'
<1> USE DEF Configure, At, Configured
<1>1. /\ apply.list \in want /\ ~BuildFails(apply.list) /\ phase = "run"
      /\ UNCHANGED <<phase, transport, table>>
  BY DEF ApplyInv, Ready, loop
<1>2. DeviceInv'
  BY <1>1 DEF DeviceInv, DeviceReleased, DeviceIsOneList
<1>3. CASE Abandon
  BY <1>2, <1>3, AbandonKeeps
<1>4. CASE ~Abandon
  BY <1>1, <1>2, <1>4 DEF ApplyInv, Ready
<1> QED BY <1>3, <1>4

(* The address and the link leave peers and routes alone. *)
LEMMA LinkKeeps ==
  ASSUME ApplyInv, DeviceInv, AddrAdd \/ LinkSetUp
  PROVE  ApplyInv' /\ DeviceInv'
<1>1. DeviceInv'
  BY DEF AddrAdd, LinkSetUp, DeviceInv, loop, DeviceReleased, DeviceIsOneList
<1>2. CASE Abandon
  BY <1>1, <1>2, AbandonKeeps
<1>3. CASE ~Abandon
  BY <1>1, <1>3 DEF AddrAdd, LinkSetUp, At, ApplyInv, Ready, loop
<1> QED BY <1>2, <1>3

(* A route that is added is one of those that were left. *)
LEMMA RoutesKeep ==
  ASSUME ApplyInv, DeviceInv, installPeerRoutes
  PROVE  ApplyInv' /\ DeviceInv'
<1>1. apply.pc = "routes" /\ phase = "run" /\ UNCHANGED <<phase, transport, device, want>>
  BY DEF installPeerRoutes, At, ApplyInv, loop
<1>2. DeviceInv'
  BY <1>1 DEF DeviceInv, DeviceReleased, DeviceIsOneList
<1>3. CASE Abandon
  BY <1>2, <1>3, AbandonKeeps
<1>4. CASE ~Abandon
  <2> PICK p \in apply.left : table' = table \cup {p} /\ apply' = [apply EXCEPT !.left = @ \ {p}]
    BY <1>4 DEF installPeerRoutes
  <2>1. apply' = [pc |-> apply.pc, list |-> apply.list, left |-> apply.left \ {p}]
    BY DEF ApplyInv
  <2> QED BY <1>1, <1>2, <2>1 DEF ApplyInv, Ready
<1> QED BY <1>3, <1>4

(* When nothing is left at "routes", the Apply is complete. *)
LEMMA RoutesComplete ==
  ASSUME ApplyInv
  PROVE  CompletesApply
<1> SUFFICES ASSUME apply.pc = "routes", apply.left = {}
             PROVE  /\ device = BuildPeerConfigs(apply.list)
                    /\ UNION {p.allowed : p \in device} \subseteq table \cup {Own}
  BY DEF CompletesApply
<1>1. device = BuildPeerConfigs(apply.list) /\ Prefixes(device) \subseteq table
  BY DEF ApplyInv
<1>2. UNION {p.allowed : p \in device} \subseteq Prefixes(device) \cup {Own}
  BY DEF Prefixes
<1> QED BY <1>1, <1>2

(* Every step keeps both. *)
LEMMA NextKeeps ==
  ASSUME ApplyInv, DeviceInv, [ReloadNext]_rvars
  PROVE  ApplyInv' /\ DeviceInv'
<1>1. CASE UNCHANGED rvars
  BY <1>1 DEF rvars, ApplyInv, DeviceInv, DeviceReleased, DeviceIsOneList
<1>2. CASE ReloadNext
  BY <1>2, LoopKeeps, BeginKeeps, BuildKeeps, ConfigureKeeps, LinkKeeps, RoutesKeep
  DEF ReloadNext, LoopStep
<1> QED BY <1>1, <1>2

-----------------------------------------------------------------------------
(* Both hold throughout. *)
LEMMA Invariance == ReloadSpec => [](ApplyInv /\ DeviceInv)
<1>1. ReloadInit => ApplyInv /\ DeviceInv
  BY InitInv
<1>2. ApplyInv /\ DeviceInv /\ [ReloadNext]_rvars => (ApplyInv /\ DeviceInv)'
  BY NextKeeps
<1> QED BY <1>1, <1>2, PTL DEF ReloadSpec

(* The doubled pause stays within its bound, and so does one more call. *)
LEMMA DoubledInside ==
  ASSUME MaxBackoff \in Nat \ {0}, backoff \in 1..MaxBackoff
  PROVE  1 \in 1..MaxBackoff /\ Doubled \in 1..MaxBackoff
  BY SMTT(30) DEF Doubled

LEMMA OneMore ==
  ASSUME MaxApplies \in Nat, applies \in 0..MaxApplies, applies < MaxApplies
  PROVE  applies + 1 \in 0..MaxApplies
  BY SMTT(30)

(* Every variable keeps its shape. *)
LEMMA Typing ==
  ASSUME MaxBackoff \in Nat \ {0}, MaxApplies \in Nat
  PROVE  ReloadSpec => []ReloadTypeOK
<1> USE DEF ReloadTypeOK
<1>1. ReloadInit => ReloadTypeOK
  <2> SUFFICES ASSUME ReloadInit PROVE ReloadTypeOK
    OBVIOUS
  <2>1. 1 \in 1..MaxBackoff /\ 0 \in 0..MaxApplies
    BY SMTT(30)
  <2>2. apply.pc = "idle" /\ apply.list = <<>> /\ apply.left = {}
    BY DEF ReloadInit, NoApply
  <2> QED BY <2>1, <2>2 DEF ReloadInit
<1>2. ApplyInv /\ ReloadTypeOK /\ [ReloadNext]_rvars => ReloadTypeOK'
  <2> SUFFICES ASSUME ApplyInv, ReloadTypeOK, [ReloadNext]_rvars PROVE ReloadTypeOK'
    OBVIOUS
  <2>0. /\ BuildPeerConfigs(apply.list) \subseteq AllPeers
        /\ Prefixes(BuildPeerConfigs(apply.list)) \subseteq AllPrefixes
    <3>1. BuildPeerConfigs(<<>>) = {}
      BY SMTT(30) DEF BuildPeerConfigs
    <3>2. Prefixes({}) = {}
      BY DEF Prefixes
    <3> QED BY <3>1, <3>2 DEF AllPeers, AllPrefixes
  <2> USE DEF ReloadNext, rvars, loop, os, Boot, runEnds, reconnect, waitCancelled, CancelCommand,
              transportForApply, Build, Configure, AddrAdd, LinkSetUp, installPeerRoutes, Close
  <2>1. phase' \in {"boot", "run", "wait", "returned"}
    OBVIOUS
  <2>2. backoff' \in 1..MaxBackoff
    <3>1. backoff' \in {backoff, 1, Doubled}
      OBVIOUS
    <3>2. backoff \in 1..MaxBackoff
      OBVIOUS
    <3> HIDE DEF ReloadNext
    <3>3. 1 \in 1..MaxBackoff /\ Doubled \in 1..MaxBackoff
      BY <3>2, DoubledInside
    <3> QED BY <3>1, <3>2, <3>3
  <2>3. \/ apply' = apply \/ apply' = NoApply
        \/ \E l \in PeerLists : apply' = [pc |-> "build", list |-> l, left |-> {}]
        \/ \E pc \in {"configure", "addr", "up", "routes"} : apply' = [apply EXCEPT !.pc = pc]
        \/ apply' = [apply EXCEPT !.pc = "routes", !.left = Prefixes(BuildPeerConfigs(apply.list))]
        \/ \E p \in apply.left : apply' = [apply EXCEPT !.left = apply.left \ {p}]
    BY DEF Abandon
  <2>4. /\ apply'.pc \in {"idle", "build", "configure", "addr", "up", "routes"}
        /\ apply'.list \in PeerLists \cup {<<>>}
        /\ apply'.left \subseteq AllPrefixes
    <3> HIDE DEF ReloadNext
    <3>1. CASE apply' = apply \/ apply' = NoApply
      BY <3>1, SMTT(30) DEF NoApply
    <3>2. CASE \E l \in PeerLists : apply' = [pc |-> "build", list |-> l, left |-> {}]
      BY <3>2, SMTT(30)
    <3>3. CASE \E pc \in {"configure", "addr", "up", "routes"} : apply' = [apply EXCEPT !.pc = pc]
      BY <3>3 DEF ApplyInv
    <3>4. CASE apply' = [apply EXCEPT !.pc = "routes",
                                      !.left = Prefixes(BuildPeerConfigs(apply.list))]
      BY <2>0, <3>4 DEF ApplyInv
    <3>5. CASE \E p \in apply.left : apply' = [apply EXCEPT !.left = apply.left \ {p}]
      BY <3>5 DEF ApplyInv
    <3> QED BY <2>3, <3>1, <3>2, <3>3, <3>4, <3>5
  <2>5. transport' \in {"none", "open", "closed"}
    OBVIOUS
  <2>6. device' \subseteq AllPeers
    BY <2>0 DEF Configured
  <2>7. addr' \in BOOLEAN
    OBVIOUS
  <2>8. up' \in BOOLEAN
    OBVIOUS
  <2>9. stopped' \in BOOLEAN
    OBVIOUS
  <2>10. applies' \in 0..MaxApplies
    <3>1. applies' = applies \/ (applies < MaxApplies /\ applies' = applies + 1)
      OBVIOUS
    <3>2. applies \in 0..MaxApplies
      OBVIOUS
    <3> HIDE DEF ReloadNext
    <3> QED BY <3>1, <3>2, OneMore
  <2>11. table' \subseteq AllPrefixes
    <3>1. table' = table \/ table' = {} \/ \E p \in apply.left : table' = table \cup {p}
      OBVIOUS
    <3>2. table \subseteq AllPrefixes /\ apply.left \subseteq AllPrefixes
      OBVIOUS
    <3> QED BY <3>1, <3>2
  <2> QED BY <2>1, <2>2, <2>4, <2>5, <2>6, <2>7, <2>8, <2>9, <2>10, <2>11
<1> HIDE DEF ReloadTypeOK
<1> QED BY <1>1, <1>2, Invariance, PTL DEF ReloadSpec

(* The device never mixes the peers of two lists and never holds a peer of  *)
(* a refused one (TransportConfigurator.Apply).                             *)
THEOREM ReloadOneList == ReloadSpec => []DeviceIsOneList
<1>1. DeviceInv => DeviceIsOneList
  BY DEF DeviceInv
<1> QED BY <1>1, Invariance, PTL

(* After the command has returned nothing of its device is left             *)
(* (lazyTransportConfigurator.Close).                                       *)
THEOREM ReloadReleases == ReloadSpec => []DeviceReleased
<1>1. DeviceInv => DeviceReleased
  BY DEF DeviceInv
<1> QED BY <1>1, Invariance, PTL

(* An Apply that ends well leaves all of its list configured and routed     *)
(* (installPeerRoutes).                                                     *)
THEOREM ReloadCompletes == ReloadSpec => ApplyComplete
<1>1. ApplyInv => [CompletesApply]_rvars
  BY RoutesComplete
<1> QED BY <1>1, Invariance, PTL DEF ApplyComplete

(* Through every failure and restart the device has the peers of one list,  *)
(* gets all of a list that is applied, and is released at the end.          *)
THEOREM ReloadSafety ==
  ASSUME MaxBackoff \in Nat \ {0}, MaxApplies \in Nat
  PROVE  ReloadSpec => ReloadSafe
  BY Typing, ReloadOneList, ReloadReleases, ReloadCompletes, PTL DEF ReloadSafe

-----------------------------------------------------------------------------
(* Policy routing.  Beside what PolicySafe says, an induction needs that   *)
(* the policies that stand were valid, and that no counter of marking      *)
(* rules is ahead of the calls.                                            *)
PolicyInv ==
  /\ marks \in [DSCPs -> Nat] /\ connmark \in [{"restore", "save"} -> Nat]
  /\ pcalls \in 0..MaxPolicyCalls
  /\ \A d \in DSCPs : marks[d] <= pcalls
  /\ \A c \in {"restore", "save"} : connmark[c] <= pcalls
  /\ connmark["restore"] = connmark["save"]
  /\ DOMAIN ptables = dscpPriorityBase..(dscpPriorityBase + 63)
  /\ links \subseteq Links /\ addrs \in [Links -> BOOLEAN]

StandingValid == setUp \in PolicyLists \cup {<<>>} /\ Valid(setUp)

(* The counters: a call adds at most one copy of a rule. *)
LEMMA CountersStep ==
  ASSUME PolicyInv, PolicyNext
  PROVE  PolicyInv'
<1>m. MaxPolicyCalls \in Nat
  BY PolicyAssumption
<1>1. ASSUME NEW ps \in PolicyLists, SetupDSCPPolicyRouting(ps)
      PROVE  PolicyInv'
  <2>1. pcalls' \in 0..MaxPolicyCalls /\ pcalls' = pcalls + 1
    BY <1>1, <1>m, SMTT(30) DEF SetupDSCPPolicyRouting, Call, PolicyInv
  <2>2. marks' \in [DSCPs -> Nat] /\ \A d \in DSCPs : marks'[d] <= pcalls'
    <3>1. \/ marks' = marks
          \/ marks' = [d \in DSCPs |-> IF \E i \in DOMAIN ps : ps[i].dscp = d THEN marks[d] + 1 ELSE marks[d]]
      BY <1>1 DEF SetupDSCPPolicyRouting
    <3>2. \A d \in DSCPs : marks'[d] = marks[d] \/ marks'[d] = marks[d] + 1
      BY <3>1
    <3>3. \A d \in DSCPs : marks[d] \in Nat /\ marks[d] <= pcalls
      BY DEF PolicyInv
    <3>4. \A d \in DSCPs : marks'[d] \in Nat /\ marks'[d] <= pcalls'
      <4> SUFFICES ASSUME NEW d \in DSCPs PROVE marks'[d] \in Nat /\ marks'[d] <= pcalls'
        OBVIOUS
      <4>1. marks'[d] = marks[d] \/ marks'[d] = marks[d] + 1
        BY <3>2
      <4>2. marks[d] \in Nat /\ marks[d] <= pcalls
        BY <3>3
      <4>3. pcalls \in Nat
        BY SMTT(30) DEF PolicyInv
      <4> QED
        BY <2>1, <4>1, <4>2, <4>3, SMTT(30)
    <3>5. marks' = [d \in DSCPs |-> marks'[d]]
      BY <3>1 DEF PolicyInv
    <3> QED
      BY <3>4, <3>5
  <2>3. /\ connmark' \in [{"restore", "save"} -> Nat]
        /\ \A c \in {"restore", "save"} : connmark'[c] <= pcalls'
        /\ connmark'["restore"] = connmark'["save"]
    <3>1. DOMAIN connmark = {"restore", "save"}
      BY DEF PolicyInv
    <3>2. connmark' = connmark \/ connmark' = [c \in {"restore", "save"} |-> connmark[c] + 1]
      BY <1>1, <3>1 DEF SetupDSCPPolicyRouting
    <3> QED
      BY <2>1, <3>2, SMTT(30) DEF PolicyInv
  <2>4. DOMAIN ptables' = DOMAIN ptables
    BY <1>1 DEF SetupDSCPPolicyRouting
  <2>5. links' = links /\ addrs' = addrs
    BY <1>1 DEF SetupDSCPPolicyRouting
  <2> QED
    BY <2>1, <2>2, <2>3, <2>4, <2>5 DEF PolicyInv
<1>2. CASE TeardownDSCPPolicyRouting
  BY <1>2, <1>m, SMTT(30) DEF TeardownDSCPPolicyRouting, Call, PolicyInv
<1>3. ASSUME NEW l \in Links, LinkGone(l) \/ LinkBack(l) \/ RouterAddrAdd(l)
      PROVE  PolicyInv'
  <2>1. pcalls' \in 0..MaxPolicyCalls /\ pcalls' = pcalls + 1
    BY <1>3, <1>m, SMTT(30) DEF LinkGone, LinkBack, RouterAddrAdd, Call, PolicyInv
  <2>2. marks' = marks /\ connmark' = connmark
    BY <1>3 DEF LinkGone, LinkBack, RouterAddrAdd
  <2>3. DOMAIN ptables' = DOMAIN ptables
    BY <1>3 DEF LinkGone, LinkBack, RouterAddrAdd
  <2>4. links' \subseteq Links /\ addrs' \in [Links -> BOOLEAN]
    BY <1>3 DEF LinkGone, LinkBack, RouterAddrAdd, PolicyInv
  <2> QED
    BY <2>1, <2>2, <2>3, <2>4, SMTT(30) DEF PolicyInv
<1>4. CASE \/ \E ps \in PolicyLists : SetupRefused(ps)
           \/ RouteDelete
           \/ \E hops \in HopLists : SetECMPRoute(hops)
           \/ \E l \in Links : RouteAdd(l) \/ RouteReplace(l)
  <2>1. pcalls' = pcalls + 1 /\ pcalls < MaxPolicyCalls
    BY <1>4 DEF SetupRefused, RouteDelete, SetECMPRoute, RouteAdd, RouteReplace, Call
  <2>2. UNCHANGED <<marks, connmark, ptables, links, addrs>>
    BY <1>4 DEF SetupRefused, RouteDelete, SetECMPRoute, RouteAdd, RouteReplace
  <2> QED
    BY <1>m, <2>1, <2>2, SMTT(30) DEF PolicyInv
<1> QED
  BY <1>1, <1>2, <1>3, <1>4 DEF PolicyNext

(* Every ip rule the teardown may delete has the shape of a policy's, and  *)
(* no foreign rule has.                                                    *)
LEMMA ForeignStep ==
  ASSUME ForeignRulesKept, PolicyNext
  PROVE  ForeignRulesKept'
<1>1. CASE TeardownDSCPPolicyRouting
  BY <1>1, PolicyAssumption DEF TeardownDSCPPolicyRouting, ForeignRulesKept
<1>2. CASE \E ps \in PolicyLists : SetupDSCPPolicyRouting(ps)
  <2>1. iprules \subseteq iprules'
    BY <1>2 DEF SetupDSCPPolicyRouting
  <2> QED
    BY <2>1 DEF ForeignRulesKept
<1>3. CASE \/ \E ps \in PolicyLists : SetupRefused(ps)
           \/ RouteDelete
           \/ \E hops \in HopLists : SetECMPRoute(hops)
           \/ \E l \in Links : \/ RouteAdd(l) \/ RouteReplace(l) \/ RouterAddrAdd(l)
                               \/ LinkGone(l) \/ LinkBack(l)
  BY <1>3 DEF SetupRefused, RouteDelete, SetECMPRoute, RouteAdd, RouteReplace, RouterAddrAdd,
              LinkGone, LinkBack, ForeignRulesKept
<1> QED
  BY <1>1, <1>2, <1>3 DEF PolicyNext

LEMMA ElementOf ==
  ASSUME NEW S, NEW s \in Seq(S), NEW i \in DOMAIN s
  PROVE  s[i] \in S
  BY SMTT(30)

(* A hop is installed only on an interface that is there, with a clamped   *)
(* weight, and goes with its interface.                                    *)
LEMMA HopsStep ==
  ASSUME HopsSound, PolicyNext
  PROVE  HopsSound'
<1>1. ASSUME NEW hops \in HopLists, SetECMPRoute(hops)
      PROVE  HopsSound'
  <2>1. ASSUME NEW i \in DOMAIN hops
        PROVE  Hops(hops[i].weight) >= 0
    <3>1. hops[i].weight \in Int
      <4>1. hops \in Seq([dev : STRING, via : Int, weight : Int])
        BY PolicyAssumption
      <4>2. hops[i] \in [dev : STRING, via : Int, weight : Int]
        BY <4>1, ElementOf
      <4> QED
        BY <4>2
    <3> QED
      BY <3>1, SMTT(30) DEF Hops
  <2> QED
    BY <1>1, <2>1, SMTT(30) DEF SetECMPRoute, HopsSound
<1>2. ASSUME NEW l \in Links, RouteAdd(l) \/ RouteReplace(l)
      PROVE  HopsSound'
  BY <1>2, SMTT(30) DEF RouteAdd, RouteReplace, HopsSound
<1>3. ASSUME NEW l \in Links, LinkGone(l) \/ LinkBack(l)
      PROVE  HopsSound'
  BY <1>3 DEF LinkGone, LinkBack, HopsSound
<1>4. CASE RouteDelete
  BY <1>4 DEF RouteDelete, HopsSound
<1>5. CASE \/ \E ps \in PolicyLists : SetupDSCPPolicyRouting(ps) \/ SetupRefused(ps)
           \/ TeardownDSCPPolicyRouting
           \/ \E l \in Links : RouterAddrAdd(l)
  BY <1>5 DEF SetupDSCPPolicyRouting, SetupRefused, TeardownDSCPPolicyRouting, RouterAddrAdd, HopsSound
<1> QED
  BY <1>1, <1>2, <1>3, <1>4, <1>5 DEF PolicyNext


(* An empty list has no policy; a list has as many as its length. *)
LEMMA EmptyStands == DOMAIN <<>> = {}
  BY SMTT(30)

LEMMA OneLength ==
  ASSUME NEW ps \in PolicyLists
  PROVE  Len(ps) \in Nat /\ DOMAIN ps = 1..Len(ps)
<1>1. ps \in Seq([dscp : Int, fwmark : Int, table : Int, gateway : Int, device : STRING])
  BY PolicyAssumption
<1> QED
  BY <1>1, SMTT(30)


(* In a valid list a table belongs to one policy. *)
LEMMA OneTableEach ==
  ASSUME NEW ps \in PolicyLists, Valid(ps), NEW i \in DOMAIN ps
  PROVE  /\ i \in 1..Len(ps) /\ Len(ps) \in Nat
         /\ ps[i].dscp \in DSCPs /\ ps[i].table \in dscpPriorityBase..(dscpPriorityBase + 63)
         /\ \A j \in DOMAIN ps : ps[j].table = ps[i].table => j = i
<1> DEFINE Policies == [dscp : Int, fwmark : Int, table : Int, gateway : Int, device : STRING]
<1>1. ps \in Seq(Policies)
  BY PolicyAssumption
<1>2. DOMAIN ps = 1..Len(ps) /\ Len(ps) \in Nat
  BY <1>1, SMTT(30)
<1>3. ps[i].dscp \in 1..63 /\ ps[i].table = 100 + ps[i].dscp
  BY DEF Valid, dscpPriorityBase
<1>4. ps[i].dscp \in DSCPs /\ ps[i].table \in dscpPriorityBase..(dscpPriorityBase + 63)
  BY <1>3, SMTT(30) DEF DSCPs, dscpPriorityBase
<1>5. ASSUME NEW j \in DOMAIN ps, ps[j].table = ps[i].table
      PROVE  j = i
  <2>1. ps[j].dscp \in 1..63 /\ ps[j].table = 100 + ps[j].dscp
    BY DEF Valid, dscpPriorityBase
  <2>2. ps[j].dscp = ps[i].dscp
    BY <1>3, <1>5, <2>1, SMTT(30)
  <2>3. \A k \in 1..(i - 1) : ps[k].dscp # ps[i].dscp
    BY DEF Valid
  <2>4. \A k \in 1..(j - 1) : ps[k].dscp # ps[j].dscp
    BY DEF Valid
  <2>5. ~(j < i) /\ ~(i < j)
    BY <1>2, <2>2, <2>3, <2>4, SMTT(30)
  <2> QED
    BY <1>2, <2>5, SMTT(30)
<1> QED
  BY <1>2, <1>4, <1>5

(* A setup that runs to its end marks, selects and routes every policy of  *)
(* its list.                                                               *)
LEMMA SetupWhole ==
  ASSUME PolicyInv, PolicyRoutedWhole, StandingValid,
         NEW ps \in PolicyLists, SetupDSCPPolicyRouting(ps)
  PROVE  PolicyRoutedWhole' /\ StandingValid'
<1>1. CASE UNCHANGED <<marks, connmark, iprules, ptables, setUp>>
  BY <1>1 DEF PolicyRoutedWhole, StandingValid, Valid
<1>2. CASE setUp' = <<>>
  BY <1>2, EmptyStands DEF PolicyRoutedWhole, StandingValid, Valid
<1>3. CASE ~UNCHANGED <<marks, connmark, iprules, ptables, setUp>> /\ setUp' # <<>>
  <2>1. PICK done \in Completed(ps), half \in BOOLEAN :
          LET ruled == 1..(IF half /\ done < Len(ps) THEN done + 1 ELSE done)
          IN /\ iprules' = iprules \cup {ipRule(ps[i]) : i \in ruled}
             /\ ptables' = [t \in DOMAIN ptables |->
                  IF \E i \in 1..done : ps[i].table = t /\ WantsRoute(ps[i]) /\ RouteWorks(ps[i])
                  THEN LET p == ps[CHOOSE i \in 1..done : ps[i].table = t]
                       IN [gw |-> p.gateway, dev |-> p.device]
                  ELSE ptables[t]]
             /\ setUp' = IF done = Len(ps) THEN ps ELSE <<>>
    BY <1>3 DEF SetupDSCPPolicyRouting
  <2>2. setUp' = ps /\ done = Len(ps) /\ Valid(ps)
    BY <1>3, <2>1 DEF SetupDSCPPolicyRouting
  <2>3. marks' = [d \in DSCPs |-> IF \E i \in DOMAIN ps : ps[i].dscp = d THEN marks[d] + 1 ELSE marks[d]]
    BY <1>3 DEF SetupDSCPPolicyRouting
  <2>4. iprules' = iprules \cup {ipRule(ps[i]) : i \in 1..Len(ps)}
    <3>1. ~(done < Len(ps))
      BY <2>2, OneLength, SMTT(30)
    <3> QED
      BY <2>1, <2>2, <3>1
  <2>5. ASSUME NEW i \in DOMAIN ps
        PROVE  /\ marks'[ps[i].dscp] > 0
               /\ ipRule(ps[i]) \in iprules'
               /\ WantsRoute(ps[i]) =>
                    ptables'[ps[i].table] = [gw |-> ps[i].gateway, dev |-> ps[i].device]
    <3>1. /\ i \in 1..Len(ps) /\ ps[i].dscp \in DSCPs
          /\ ps[i].table \in DOMAIN ptables
          /\ \A j \in DOMAIN ps : ps[j].table = ps[i].table => j = i
      BY <2>2, OneTableEach DEF PolicyInv
    <3>2. marks'[ps[i].dscp] = marks[ps[i].dscp] + 1 /\ marks[ps[i].dscp] \in Nat
      BY <2>3, <3>1 DEF PolicyInv
    <3>3. marks'[ps[i].dscp] > 0
      BY <3>2, SMTT(30)
    <3>4. ipRule(ps[i]) \in iprules'
      BY <2>4, <3>1
    <3>5. ASSUME WantsRoute(ps[i])
          PROVE  ptables'[ps[i].table] = [gw |-> ps[i].gateway, dev |-> ps[i].device]
      <4>1. RouteWorks(ps[i])
        BY <2>2, <3>1, <3>5 DEF Completed
      <4>2. (CHOOSE j \in 1..done : ps[j].table = ps[i].table) = i
        <5>1. 1..done = DOMAIN ps
          BY <2>2, OneLength
        <5> QED
          BY <3>1, <5>1
      <4> QED
        BY <2>1, <2>2, <3>1, <3>5, <4>1, <4>2
    <3> QED
      BY <3>3, <3>4, <3>5
  <2>6. PolicyRoutedWhole'
    BY <2>2, <2>5 DEF PolicyRoutedWhole, ipRule, WantsRoute
  <2>7. StandingValid'
    BY <2>2 DEF StandingValid, Valid
  <2> QED
    BY <2>6, <2>7
<1> QED
  BY <1>1, <1>2, <1>3

(* What the other calls leave of a setup that stands. *)
LEMMA WholeStep ==
  ASSUME PolicyInv, PolicyRoutedWhole, StandingValid, PolicyNext
  PROVE  PolicyRoutedWhole' /\ StandingValid'
<1>1. CASE \E ps \in PolicyLists : SetupDSCPPolicyRouting(ps)
  BY <1>1, SetupWhole
<1>2. CASE TeardownDSCPPolicyRouting \/ \E l \in Links : LinkGone(l)
  <2>1. setUp' = <<>>
    BY <1>2 DEF TeardownDSCPPolicyRouting, LinkGone
  <2> QED
    BY <2>1, EmptyStands DEF PolicyRoutedWhole, StandingValid, Valid
<1>3. CASE \/ \E ps \in PolicyLists : SetupRefused(ps)
           \/ RouteDelete
           \/ \E hops \in HopLists : SetECMPRoute(hops)
           \/ \E l \in Links : RouteAdd(l) \/ RouteReplace(l) \/ RouterAddrAdd(l) \/ LinkBack(l)
  <2>1. UNCHANGED <<marks, iprules, ptables, setUp>>
    BY <1>3 DEF SetupRefused, RouteDelete, SetECMPRoute, RouteAdd, RouteReplace, RouterAddrAdd, LinkBack
  <2> QED
    BY <2>1 DEF PolicyRoutedWhole, StandingValid, Valid
<1> QED
  BY <1>1, <1>2, <1>3 DEF PolicyNext

(* Setups, teardowns, routes and interfaces that come and go (dscp.go,     *)
(* netlink.go): no ip rule of another program is removed, each policy of a *)
(* setup that stands is marked, selected and routed, and no route leads    *)
(* through an interface that is gone or has a negative hop count - for any *)
(* policies, nexthops and interfaces.                                      *)
THEOREM PoliciesStaySafe == PolicySpec => []PolicySafe
<1> DEFINE Inv == PolicyInv /\ ForeignRulesKept /\ HopsSound /\ PolicyRoutedWhole /\ StandingValid
<1>1. PolicyInit => Inv
  <2> SUFFICES ASSUME PolicyInit PROVE Inv
    OBVIOUS
  <2>1. PolicyInv
    BY PolicyAssumption, SMTT(30) DEF PolicyInit, PolicyInv
  <2>2. ForeignRulesKept /\ HopsSound
    BY DEF PolicyInit, ForeignRulesKept, HopsSound
  <2>3. PolicyRoutedWhole /\ StandingValid
    BY EmptyStands DEF PolicyInit, PolicyRoutedWhole, StandingValid, Valid
  <2> QED
    BY <2>1, <2>2, <2>3
<1>2. Inv /\ [PolicyNext]_pvars => Inv'
  <2>1. ASSUME Inv, PolicyNext PROVE Inv'
    BY <2>1, CountersStep, ForeignStep, HopsStep, WholeStep
  <2>2. ASSUME Inv, UNCHANGED pvars PROVE Inv'
    BY <2>2 DEF pvars, PolicyInv, ForeignRulesKept, HopsSound, PolicyRoutedWhole, StandingValid, Valid
  <2> QED
    BY <2>1, <2>2
<1>3. Inv => PolicySafe
  <2> SUFFICES ASSUME PolicyInv PROVE PolicyTypeOK
    BY DEF PolicySafe
  <2>1. MaxPolicyCalls \in Nat
    BY PolicyAssumption
  <2>2. marks \in [DSCPs -> 0..MaxPolicyCalls] /\ connmark \in [{"restore", "save"} -> 0..MaxPolicyCalls]
    BY <2>1, SMTT(30) DEF PolicyInv
  <2> QED
    BY <2>2 DEF PolicyInv, PolicyTypeOK
<1> QED
  BY <1>1, <1>2, <1>3, PTL DEF PolicySpec

-----------------------------------------------------------------------------
(* Firewall rules.  A call between its listing and its adding: it adds     *)
(* only what was not there, and leaves out only what is there, unless      *)
(* something was missed (blind) or taken away (torn); an egress role that  *)
(* is being applied is in such a call for its own interface.               *)
CallsInv ==
  \A p \in Procs :
    /\ fcall[p] # None =>
         /\ ~blind /\ fcall[p].add => fcall[p].saw = 0
         /\ ~torn /\ ~fcall[p].add => rules[fcall[p].rule] > 0
    /\ role[p] = "applying" => fcall[p] # None /\ fcall[p].rule = <<"masq", internet[p]>>

FwInv == FirewallTypeOK /\ CallsInv /\ NoDuplicateRules /\ EgressBehindNAT /\ StickyPaired

(* Which rules there are: those of the idempotent calls and the pairs of a *)
(* balancer range are apart.                                               *)
LEMMA RuleSets ==
  /\ InTable \subseteq Rules /\ Idempotent \subseteq Rules
  /\ \A i \in Ifaces : <<"masq", i>> \in Idempotent
  /\ <<"mss", 0>> \in Idempotent /\ <<"fwd", 0>> \in Idempotent
  /\ \A c \in CIDRs : <<"pre", c>> \in InTable /\ <<"post", c>> \in InTable
  /\ \A r \in Idempotent : r[1] \notin {"pre", "post"} /\ r # None.rule
  /\ \A r \in Idempotent : \A c \in CIDRs : r # <<"pre", c>> /\ r # <<"post", c>>
<1> USE DEF Rules, InTable, Idempotent, StickyRules
<1>1. InTable \subseteq Rules /\ Idempotent \subseteq Rules
  OBVIOUS
<1>2. ASSUME NEW i \in Ifaces PROVE <<"masq", i>> \in Idempotent
  BY SMTT(30)
<1>3. <<"mss", 0>> \in Idempotent /\ <<"fwd", 0>> \in Idempotent
  BY SMTT(30)
<1>4. ASSUME NEW c \in CIDRs PROVE <<"pre", c>> \in InTable /\ <<"post", c>> \in InTable
  BY SMTT(30)
<1>5. ASSUME NEW r \in Idempotent PROVE r[1] \notin {"pre", "post"} /\ r # None.rule
  BY SMTT(30) DEF None
<1>6. ASSUME NEW r \in Idempotent, NEW c \in CIDRs PROVE r # <<"pre", c>> /\ r # <<"post", c>>
  <2>1. r[1] \notin {"pre", "post"}
    BY <1>5
  <2> QED
    BY <2>1, SMTT(30)
<1> QED
  BY <1>1, <1>2, <1>3, <1>4, <1>5, <1>6

(* A call under way is a record of its rule, what it found and will do. *)
LEMMA CallUnderWay ==
  ASSUME FirewallTypeOK, NEW p \in Procs, fcall[p] # None
  PROVE  fcall[p].rule \in Idempotent /\ fcall[p].add \in BOOLEAN /\ fcall[p].saw \in Nat
BY DEF FirewallTypeOK

(* What listRules and iptables -C leave behind, whether or not they could  *)
(* be read: the call is under way; it leaves the rule out only if it is    *)
(* there, and adds it only if it is not, or something was missed.          *)
LEMMA ListOutcome ==
  ASSUME FirewallTypeOK, NEW p \in Procs, NEW r \in Idempotent, listRules(p, r)
  PROVE  \E add \in BOOLEAN :
           /\ fcall' = [fcall EXCEPT ![p] = [rule |-> r, add |-> add, saw |-> rules[r]]]
           /\ ~add => rules[r] > 0
           /\ blind' \in BOOLEAN
           /\ ~blind' => ~blind /\ (add => rules[r] = 0)
<1>1. PICK listed \in BOOLEAN :
        /\ fcall' = [fcall EXCEPT ![p] = [rule |-> r, add |-> ~(listed /\ Matching(r)), saw |-> rules[r]]]
        /\ blind' = (blind \/ (~listed /\ rules[r] > 0))
  BY DEF listRules
<1>2. rules[r] \in Nat
  BY RuleSets DEF FirewallTypeOK
<1>3. Matching(r) <=> rules[r] > 0
  <2>1. r = <<r[1], r[2]>> /\ (r[1] = "mss" => r[2] = 0)
    BY SMTT(30) DEF Idempotent, Rules, InTable, StickyRules
  <2> QED
    BY <2>1 DEF Matching, ruleMatchesMasqOnIface, ruleMatchesMSSClamp
<1>4. ~(rules[r] > 0) => rules[r] = 0
  BY <1>2, SMTT(30)
<1> DEFINE add == ~(listed /\ Matching(r))
<1>5. blind' \in BOOLEAN
  BY <1>1
<1>6. ASSUME ~blind' PROVE ~blind /\ (add => rules[r] = 0)
  BY <1>1, <1>3, <1>4, <1>6
<1>7. add \in BOOLEAN /\ (~add => rules[r] > 0)
  BY <1>3
<1>8. fcall' = [fcall EXCEPT ![p] = [rule |-> r, add |-> add, saw |-> rules[r]]]
  BY <1>1
<1> HIDE DEF add
<1> QED
  BY <1>5, <1>6, <1>7, <1>8

(* A step that lists the rules of a chain and writes none. *)
LEMMA ListingKeeps ==
  ASSUME FwInv, NEW p \in Procs, NEW r \in Idempotent, fcall[p] = None, listRules(p, r),
         UNCHANGED <<rules, internet, torn, skipped>>,
         fwTable' \in BOOLEAN, fwTable => fwTable', handle' \in [Procs -> BOOLEAN],
         calls' \in 0..MaxCalls,
         \/ role' = role
         \/ role' = [role EXCEPT ![p] = "applying"] /\ r = <<"masq", internet[p]>>
  PROVE  FwInv'
<1> USE DEF FwInv
<1>1. PICK add \in BOOLEAN :
        /\ fcall' = [fcall EXCEPT ![p] = [rule |-> r, add |-> add, saw |-> rules[r]]]
        /\ ~add => rules[r] > 0
        /\ blind' \in BOOLEAN
        /\ ~blind' => ~blind /\ (add => rules[r] = 0)
  BY ListOutcome
<1>2. rules[r] \in Nat
  BY RuleSets DEF FirewallTypeOK
<1>3. FirewallTypeOK'
  <2>1. fcall' \in [Procs -> {None} \cup [rule : Idempotent, add : BOOLEAN, saw : Nat]]
    <3>1. [rule |-> r, add |-> add, saw |-> rules[r]] \in [rule : Idempotent, add : BOOLEAN, saw : Nat]
      BY <1>2
    <3> QED
      BY <1>1, <3>1 DEF FirewallTypeOK
  <2>2. role' \in [Procs -> {"new", "applying", "running", "returned"}]
    BY DEF FirewallTypeOK
  <2> QED
    BY <1>1, <2>1, <2>2 DEF FirewallTypeOK
<1>4. CallsInv'
  <2> SUFFICES ASSUME NEW q \in Procs
               PROVE  /\ fcall'[q] # None =>
                           /\ ~blind' /\ fcall'[q].add => fcall'[q].saw = 0
                           /\ ~torn' /\ ~fcall'[q].add => rules'[fcall'[q].rule] > 0
                      /\ role'[q] = "applying" => fcall'[q] # None /\ fcall'[q].rule = <<"masq", internet'[q]>>
    BY DEF CallsInv
  <2>1. CASE q = p
    <3>1. fcall'[q] = [rule |-> r, add |-> add, saw |-> rules[r]]
      BY <1>1, <2>1 DEF FirewallTypeOK
    <3>2. fcall'[q].rule = r /\ fcall'[q].add = add /\ fcall'[q].saw = rules[r]
      BY <3>1, SMTT(30)
    <3>3. fcall'[q] # None
      BY <3>2, RuleSets
    <3>4. role[p] # "applying"
      BY DEF CallsInv
    <3> QED
      BY <1>1, <2>1, <3>2, <3>3, <3>4
  <2>2. CASE q # p
    <3>1. fcall'[q] = fcall[q] /\ role'[q] = role[q]
      BY <1>1, <2>2 DEF FirewallTypeOK
    <3> QED
      BY <1>1, <3>1 DEF CallsInv
  <2> QED
    BY <2>1, <2>2
<1>5. NoDuplicateRules'
  BY <1>1 DEF NoDuplicateRules
<1>6. EgressBehindNAT'
  <2> SUFFICES ASSUME ~torn, NEW q \in Procs, role'[q] = "running"
               PROVE  rules[<<"masq", internet[q]>>] > 0
    BY DEF EgressBehindNAT
  <2>1. role[q] = "running"
    BY DEF FirewallTypeOK
  <2> QED
    BY <2>1 DEF EgressBehindNAT
<1>7. StickyPaired'
  BY DEF StickyPaired
<1> QED
  BY <1>3, <1>4, <1>5, <1>6, <1>7

(* A step that ends or gives up a call without touching a rule. *)
LEMMA EndKeeps ==
  ASSUME FwInv, NEW p \in Procs,
         UNCHANGED <<rules, internet, blind, torn, skipped>>,
         fwTable' \in BOOLEAN, fwTable => fwTable', handle' \in [Procs -> BOOLEAN],
         calls' \in 0..MaxCalls,
         fcall' = [fcall EXCEPT ![p] = None],
         \/ role' = role /\ fcall[p] = None
         \/ \E s \in {"new", "returned"} : role' = [role EXCEPT ![p] = s]
  PROVE  FwInv'
<1> USE DEF FwInv
<1>1. FirewallTypeOK'
  <2>1. role' \in [Procs -> {"new", "applying", "running", "returned"}]
    BY DEF FirewallTypeOK
  <2> QED
    BY <2>1 DEF FirewallTypeOK
<1>2. ASSUME NEW q \in Procs, role'[q] \in {"applying", "running"}
      PROVE  role[q] = role'[q] /\ (role[q] = "applying" => q # p)
  BY <1>2 DEF FirewallTypeOK, CallsInv
<1>3. \A q \in Procs : fcall'[q] # None => fcall'[q] = fcall[q]
  BY DEF FirewallTypeOK
<1>4. CallsInv'
  <2> SUFFICES ASSUME NEW q \in Procs
               PROVE  /\ fcall'[q] # None =>
                           /\ ~blind' /\ fcall'[q].add => fcall'[q].saw = 0
                           /\ ~torn' /\ ~fcall'[q].add => rules'[fcall'[q].rule] > 0
                      /\ role'[q] = "applying" => fcall'[q] # None /\ fcall'[q].rule = <<"masq", internet'[q]>>
    BY DEF CallsInv
  <2>1. ASSUME fcall'[q] # None
        PROVE  /\ ~blind' /\ fcall'[q].add => fcall'[q].saw = 0
               /\ ~torn' /\ ~fcall'[q].add => rules'[fcall'[q].rule] > 0
    BY <1>3, <2>1 DEF CallsInv
  <2>2. ASSUME role'[q] = "applying"
        PROVE  fcall'[q] # None /\ fcall'[q].rule = <<"masq", internet'[q]>>
    <3>1. role[q] = "applying" /\ q # p
      BY <1>2, <2>2
    <3>2. fcall'[q] = fcall[q]
      BY <3>1 DEF FirewallTypeOK
    <3> QED
      BY <3>1, <3>2 DEF CallsInv
  <2> QED
    BY <2>1, <2>2
<1>5. NoDuplicateRules' /\ StickyPaired'
  BY DEF NoDuplicateRules, StickyPaired
<1>6. EgressBehindNAT'
  BY <1>2 DEF EgressBehindNAT
<1> QED
  BY <1>1, <1>4, <1>5, <1>6

(* A process makes one call at a time, and calls are counted. *)
LEMMA CountsCalls ==
  ASSUME FirewallTypeOK, NEW p \in Procs, NEW name, NEW arg, Calls(p, name, arg)
  PROVE  fcall[p] = None /\ calls' \in 0..MaxCalls
<1>1. MaxCalls \in Nat /\ calls \in 0..MaxCalls /\ calls < MaxCalls /\ calls' = calls + 1
  BY FirewallAssumption DEF Calls, FirewallTypeOK
<1> QED
  BY <1>1, SMTT(30) DEF Calls

(* The first half of SetupNAT and ClampMSSToPMTU: the chain is made and    *)
(* listed, or the call fails.                                              *)
LEMMA SetupKeeps ==
  ASSUME FwInv, NEW p \in Procs, NEW r \in Idempotent, fcall[p] = None, setupRule(p, r),
         calls' \in 0..MaxCalls, UNCHANGED <<internet, torn, skipped>>,
         \/ role' = role
         \/ /\ r = <<"masq", internet[p]>>
            /\ role' = [role EXCEPT ![p] = IF fcall'[p] = None THEN "returned" ELSE "applying"]
  PROVE  FwInv'
<1>1. handle' \in [Procs -> BOOLEAN]
  BY DEF setupRule, FwInv, FirewallTypeOK
<1>2. CASE fwTable' = TRUE /\ listRules(p, r) /\ UNCHANGED rules
  <2>1. fcall'[p] # None
    <3>1. PICK add \in BOOLEAN : fcall' = [fcall EXCEPT ![p] = [rule |-> r, add |-> add, saw |-> rules[r]]]
      BY <1>2, ListOutcome DEF FwInv
    <3>2. fcall'[p].rule = r
      BY <3>1, SMTT(30) DEF FwInv, FirewallTypeOK
    <3> QED
      BY <3>2, RuleSets
  <2> QED
    BY <1>1, <1>2, <2>1, ListingKeeps
<1>3. CASE Fails(p, None) /\ UNCHANGED blind
  <2>1. fcall'[p] = None
    BY <1>3 DEF Fails, FwInv, FirewallTypeOK
  <2>2. fwTable' \in BOOLEAN /\ (fwTable => fwTable')
    BY <1>3 DEF Fails, FwInv, FirewallTypeOK
  <2> QED
    BY <1>1, <1>3, <2>1, <2>2, EndKeeps DEF Fails
<1> QED
  BY <1>2, <1>3 DEF setupRule

(* ClampMSSToPMTU, EnableWGCrossTunnelForward and the start of an egress   *)
(* role, up to the listing.                                                *)
LEMMA StartsKeep ==
  ASSUME FwInv, NEW p \in Procs,
         ClampMSSToPMTU(p) \/ EnableWGCrossTunnelForward(p) \/ EgressRun(p)
  PROVE  FwInv'
<1>1. CASE ClampMSSToPMTU(p)
  BY <1>1, CountsCalls, SetupKeeps, RuleSets DEF ClampMSSToPMTU, FwInv
<1>2. CASE EnableWGCrossTunnelForward(p)
  <2>1. handle' \in [Procs -> BOOLEAN] /\ fwTable' \in BOOLEAN /\ (fwTable => fwTable')
    BY <1>2 DEF EnableWGCrossTunnelForward, FwInv, FirewallTypeOK
  <2> QED
    BY <1>2, <2>1, CountsCalls, ListingKeeps, RuleSets DEF EnableWGCrossTunnelForward, FwInv
<1>3. CASE EgressRun(p)
  <2>1. fcall[p] = None /\ calls' \in 0..MaxCalls /\ UNCHANGED <<internet, torn, skipped>>
    BY <1>3, CountsCalls DEF EgressRun, FwInv
  <2>2. CASE /\ setupRule(p, <<"masq", internet[p]>>)
             /\ role' = [role EXCEPT ![p] = IF fcall'[p] = None THEN "returned" ELSE "applying"]
    <3>1. <<"masq", internet[p]>> \in Idempotent
      BY RuleSets DEF FwInv, FirewallTypeOK
    <3> QED
      BY <2>1, <2>2, <3>1, SetupKeeps
  <2>3. CASE role' = [role EXCEPT ![p] = "returned"] /\ UNCHANGED <<fwTable, rules, handle, fcall, blind>>
    <3>1. fcall' = [fcall EXCEPT ![p] = None] /\ handle' \in [Procs -> BOOLEAN] /\ fwTable' \in BOOLEAN /\ (fwTable => fwTable')
      BY <2>1, <2>3 DEF FwInv, FirewallTypeOK
    <3> QED
      BY <2>1, <2>3, <3>1, EndKeeps
  <2> QED
    BY <1>3, <2>2, <2>3 DEF EgressRun
<1> QED
  BY <1>1, <1>2, <1>3

(* The agent of an egress role ends, and a process restarts. *)
LEMMA LeavesKeep ==
  ASSUME FwInv, NEW p \in Procs, egressEnds(p) \/ Restart(p)
  PROVE  FwInv'
<1> USE DEF FwInv
<1>1. CASE egressEnds(p)
  <2>1. FirewallTypeOK'
    BY <1>1 DEF egressEnds, FirewallTypeOK
  <2>2. \A q \in Procs : role'[q] \in {"applying", "running"} => role'[q] = role[q]
    BY <1>1 DEF egressEnds, FirewallTypeOK
  <2>3. CallsInv'
    BY <1>1, <2>2 DEF egressEnds, CallsInv
  <2>4. NoDuplicateRules' /\ StickyPaired'
    BY <1>1 DEF egressEnds, NoDuplicateRules, StickyPaired
  <2>5. EgressBehindNAT'
    BY <1>1, <2>2 DEF egressEnds, EgressBehindNAT
  <2> QED
    BY <2>1, <2>3, <2>4, <2>5
<1>2. CASE Restart(p)
  <2>1. calls' \in 0..MaxCalls
    <3>1. MaxCalls \in Nat /\ calls \in 0..MaxCalls /\ calls < MaxCalls /\ calls' = calls + 1
      BY <1>2, FirewallAssumption DEF Restart, FirewallTypeOK
    <3> QED
      BY <3>1, SMTT(30)
  <2>2. handle' \in [Procs -> BOOLEAN] /\ fwTable' \in BOOLEAN /\ (fwTable => fwTable')
    BY <1>2 DEF Restart, FirewallTypeOK
  <2> QED
    BY <1>2, <2>1, <2>2, EndKeeps DEF Restart
<1> QED
  BY <1>1, <1>2

(* The second half of an idempotent call: if the rule is added although    *)
(* there is one by now, something was missed; an egress role runs only     *)
(* with its rule in place.                                                 *)
LEMMA AddKeeps ==
  ASSUME FwInv, NEW p \in Procs, addRule(p)
  PROVE  FwInv'
<1> USE DEF FwInv
<1> DEFINE r == fcall[p].rule
<1>0. fcall[p] # None /\ UNCHANGED <<fwTable, handle, internet, torn, skipped, lastCall, calls>>
      /\ fcall' = [fcall EXCEPT ![p] = None]
  BY DEF addRule
<1>1. r \in Idempotent /\ r \in Rules /\ fcall[p].add \in BOOLEAN /\ fcall[p].saw \in Nat /\ rules[r] \in Nat
  BY <1>0, CallUnderWay, RuleSets DEF FirewallTypeOK
<1>2. PICK added \in BOOLEAN :
        /\ ~fcall[p].add => added
        /\ added /\ fcall[p].add => r \notin InTable \/ fwTable
        /\ rules' = [rules EXCEPT ![r] = @ + (IF fcall[p].add /\ added THEN 1 ELSE 0)]
        /\ blind' = (blind \/ (fcall[p].add /\ rules[r] > fcall[p].saw))
        /\ role' \in IF role[p] = "applying" /\ r[1] = "masq"
                     THEN {[role EXCEPT ![p] = s] : s \in AfterSetup(added)} ELSE {role}
  BY <1>1 DEF addRule
<1> HIDE DEF r
<1>3. /\ rules'[r] \in Nat
      /\ rules'[r] = rules[r] + (IF fcall[p].add /\ added THEN 1 ELSE 0)
      /\ \A q \in Rules : q # r => rules'[q] = rules[q]
      /\ DOMAIN rules' = Rules
  <2>1. rules'[r] = rules[r] + (IF fcall[p].add /\ added THEN 1 ELSE 0)
    BY <1>1, <1>2 DEF FirewallTypeOK
  <2>2. rules'[r] \in Nat
    BY <1>1, <2>1, SMTT(30)
  <2> QED
    BY <1>1, <1>2, <2>1, <2>2 DEF FirewallTypeOK
<1>4. \A q \in Rules : rules[q] > 0 => rules'[q] > 0
  <2>1. rules[r] > 0 => rules'[r] > 0
    BY <1>1, <1>3, SMTT(30)
  <2> QED
    BY <1>3, <2>1
<1>5. fcall[p].add /\ added => rules'[r] > 0
  BY <1>1, <1>3, SMTT(30)
<1>6. \A q \in Procs : fcall'[q] # None => q # p /\ fcall'[q] = fcall[q]
  BY <1>0 DEF FirewallTypeOK
<1>7. \A q \in Procs : q # p => role'[q] = role[q] /\ fcall'[q] = fcall[q]
  BY <1>0, <1>2 DEF FirewallTypeOK
<1>8. role' \in [Procs -> {"new", "applying", "running", "returned"}] /\ role'[p] # "applying"
      /\ (role'[p] = "running" => role[p] = "running" \/ (role[p] = "applying" /\ added))
  <2>1. role[p] = "applying" => r[1] = "masq"
    <3>1. role[p] = "applying" => r = <<"masq", internet[p]>>
      BY DEF CallsInv, r
    <3> QED
      BY <3>1, SMTT(30)
  <2>2. CASE role[p] = "applying"
    <3>1. PICK s \in {"running", "returned"} : role' = [role EXCEPT ![p] = s] /\ (s = "running" => added)
      BY <1>2, <2>1, <2>2 DEF AfterSetup
    <3> QED
      BY <2>2, <3>1 DEF FirewallTypeOK
  <2>3. CASE role[p] # "applying"
    BY <1>2, <2>3 DEF FirewallTypeOK
  <2> QED
    BY <2>2, <2>3
<1>9. FirewallTypeOK'
  <2>1. rules' \in [Rules -> Nat]
    <3>1. \A q \in Rules : rules'[q] \in Nat
      BY <1>3 DEF FirewallTypeOK
    <3> QED
      BY <1>2, <1>3, <3>1 DEF FirewallTypeOK
  <2>2. ~fwTable' => \A q \in InTable : rules'[q] = 0
    <3> SUFFICES ASSUME ~fwTable, NEW q \in InTable PROVE rules'[q] = 0
      BY <1>0
    <3>1. rules[q] = 0 /\ q \in Rules
      BY RuleSets DEF FirewallTypeOK
    <3>2. q = r => ~(fcall[p].add /\ added)
      BY <1>2
    <3> QED
      BY <1>1, <1>3, <3>1, <3>2, SMTT(30)
  <2>3. blind' \in BOOLEAN
    BY <1>2
  <2> QED
    BY <1>0, <1>8, <2>1, <2>2, <2>3 DEF FirewallTypeOK
<1>10. CallsInv'
  <2>0. ~blind' => ~blind
    BY <1>2
  <2> SUFFICES ASSUME NEW q \in Procs
               PROVE  /\ fcall'[q] # None =>
                           /\ ~blind' /\ fcall'[q].add => fcall'[q].saw = 0
                           /\ ~torn' /\ ~fcall'[q].add => rules'[fcall'[q].rule] > 0
                      /\ role'[q] = "applying" => fcall'[q] # None /\ fcall'[q].rule = <<"masq", internet'[q]>>
    BY DEF CallsInv
  <2>1. ASSUME fcall'[q] # None
        PROVE  /\ ~blind' /\ fcall'[q].add => fcall'[q].saw = 0
               /\ ~torn' /\ ~fcall'[q].add => rules'[fcall'[q].rule] > 0
    <3>1. fcall'[q] = fcall[q] /\ fcall[q] # None
      BY <1>6, <2>1
    <3>2. fcall[q].rule \in Rules
      BY <3>1, CallUnderWay, RuleSets
    <3> QED
      BY <1>0, <1>4, <2>0, <3>1, <3>2 DEF CallsInv
  <2>2. ASSUME role'[q] = "applying"
        PROVE  fcall'[q] # None /\ fcall'[q].rule = <<"masq", internet'[q]>>
    BY <1>0, <1>7, <1>8, <2>2 DEF CallsInv
  <2> QED
    BY <2>1, <2>2
<1>11. NoDuplicateRules'
  <2> SUFFICES ASSUME ~blind', NEW q \in Idempotent PROVE rules'[q] <= 1
    BY DEF NoDuplicateRules
  <2>1. ~blind /\ ~(fcall[p].add /\ rules[r] > fcall[p].saw)
    BY <1>2
  <2>2. q \in Rules /\ rules[q] <= 1
    BY <2>1, RuleSets DEF NoDuplicateRules
  <2>3. fcall[p].add => fcall[p].saw = 0
    BY <1>0, <2>1 DEF CallsInv
  <2>4. q # r => rules'[q] <= 1
    BY <1>3, <2>2
  <2>5. q = r => rules'[q] <= 1
    BY <1>1, <1>3, <2>1, <2>2, <2>3, SMTT(30)
  <2> QED
    BY <2>4, <2>5
<1>12. EgressBehindNAT'
  <2> SUFFICES ASSUME ~torn, NEW q \in Procs, role'[q] = "running"
               PROVE  rules'[<<"masq", internet[q]>>] > 0
    BY <1>0 DEF EgressBehindNAT
  <2>1. <<"masq", internet[q]>> \in Rules
    BY RuleSets DEF FirewallTypeOK
  <2>2. CASE role[q] = "running"
    BY <1>4, <2>1, <2>2 DEF EgressBehindNAT
  <2>3. CASE role[q] # "running"
    <3>1. q = p /\ role[p] = "applying" /\ added
      BY <1>7, <1>8, <2>3
    <3>2. r = <<"masq", internet[p]>>
      BY <3>1 DEF CallsInv, r
    <3>3. ~fcall[p].add => rules[r] > 0
      BY <1>0 DEF CallsInv, r
    <3> QED
      BY <1>1, <1>4, <1>5, <3>1, <3>2, <3>3
  <2> QED
    BY <2>2, <2>3
<1>13. StickyPaired'
  <2>1. \A c \in CIDRs : rules'[<<"pre", c>>] = rules[<<"pre", c>>] /\ rules'[<<"post", c>>] = rules[<<"post", c>>]
    BY <1>1, <1>3, RuleSets
  <2> QED
    BY <1>0, <2>1 DEF StickyPaired
<1> QED
  BY <1>9, <1>10, <1>11, <1>12, <1>13

(* What is left of the invariant when a step adds or removes pairs of a    *)
(* balancer range, or the whole table, and touches no call of a process.   *)
LEMMA RangeStepKeeps ==
  ASSUME FwInv, rules' \in [Rules -> Nat],
         \A r \in Idempotent : rules'[r] = rules[r] \/ (torn' /\ rules'[r] = 0),
         UNCHANGED <<fcall, role, internet, blind>>, torn' \in BOOLEAN, torn => torn', skipped' \in BOOLEAN,
         fwTable' \in BOOLEAN, ~fwTable' => \A r \in InTable : rules'[r] = 0,
         handle' \in [Procs -> BOOLEAN], calls' \in 0..MaxCalls, StickyPaired'
  PROVE  FwInv'
<1> USE DEF FwInv
<1>1. FirewallTypeOK'
  BY DEF FirewallTypeOK
<1>2. CallsInv'
  <2> SUFFICES ASSUME NEW q \in Procs
               PROVE  fcall[q] # None /\ ~torn' /\ ~fcall[q].add => rules'[fcall[q].rule] > 0
    BY DEF CallsInv
  <2>1. fcall[q] # None => fcall[q].rule \in Idempotent
    BY CallUnderWay
  <2> QED
    BY <2>1 DEF CallsInv
<1>3. NoDuplicateRules'
  <2> SUFFICES ASSUME ~blind, NEW q \in Idempotent PROVE rules'[q] <= 1
    BY DEF NoDuplicateRules
  <2>1. rules[q] <= 1
    BY DEF NoDuplicateRules
  <2>2. CASE rules'[q] = rules[q]
    BY <2>1, <2>2
  <2>3. CASE rules'[q] = 0
    BY <2>3, SMTT(30)
  <2> QED
    BY <2>2, <2>3
<1>4. EgressBehindNAT'
  <2> SUFFICES ASSUME ~torn', NEW q \in Procs, role[q] = "running"
               PROVE  rules'[<<"masq", internet[q]>>] > 0
    BY DEF EgressBehindNAT
  <2>1. <<"masq", internet[q]>> \in Idempotent
    BY RuleSets DEF FirewallTypeOK
  <2> QED
    BY <2>1 DEF EgressBehindNAT
<1> QED
  BY <1>1, <1>2, <1>3, <1>4

(* A call that fails leaves everything as it is. *)
LEMMA FailKeeps ==
  ASSUME FwInv, NEW p \in Procs, fcall[p] = None, Fails(p, None), calls' \in 0..MaxCalls,
         UNCHANGED <<role, internet, blind, torn, skipped>>, handle' \in [Procs -> BOOLEAN]
  PROVE  FwInv'
<1>1. fwTable' \in BOOLEAN /\ (fwTable => fwTable')
  BY DEF Fails, FwInv, FirewallTypeOK
<1> QED
  BY <1>1, EndKeeps DEF Fails

(* EnableStickyECMP adds one rule to either chain of the range. *)
LEMMA EnableKeeps ==
  ASSUME FwInv, NEW p \in Procs, NEW c \in CIDRs, EnableStickyECMP(p, c)
  PROVE  FwInv'
<1> USE DEF FwInv
<1>1. fcall[p] = None /\ calls' \in 0..MaxCalls /\ UNCHANGED <<role, internet, blind, torn, skipped>>
  BY CountsCalls DEF EnableStickyECMP
<1>2. handle' \in [Procs -> BOOLEAN]
  BY DEF EnableStickyECMP, FirewallTypeOK
<1>3. CASE Fails(p, None)
  BY <1>1, <1>2, <1>3, FailKeeps
<1>4. CASE /\ fwTable' = TRUE /\ UNCHANGED fcall
           /\ rules' = [rules EXCEPT ![<<"pre", c>>] = @ + 1, ![<<"post", c>>] = @ + 1]
  <2>1. /\ <<"pre", c>> \in Rules /\ <<"post", c>> \in Rules /\ <<"pre", c>> # <<"post", c>>
        /\ rules[<<"pre", c>>] \in Nat /\ rules[<<"post", c>>] \in Nat
    BY RuleSets, SMTT(30) DEF FirewallTypeOK
  <2>2. /\ rules'[<<"pre", c>>] = rules[<<"pre", c>>] + 1 /\ rules'[<<"post", c>>] = rules[<<"post", c>>] + 1
        /\ \A r \in Rules : r # <<"pre", c>> /\ r # <<"post", c>> => rules'[r] = rules[r]
    BY <1>4, <2>1 DEF FirewallTypeOK
  <2>3. rules' \in [Rules -> Nat]
    <3>1. rules[<<"pre", c>>] + 1 \in Nat /\ rules[<<"post", c>>] + 1 \in Nat
      BY <2>1, SMTT(30)
    <3>2. \A r \in Rules : rules'[r] \in Nat
      BY <2>2, <3>1 DEF FirewallTypeOK
    <3> QED
      BY <1>4, <3>2 DEF FirewallTypeOK
  <2>4. \A r \in Idempotent : rules'[r] = rules[r]
    BY <2>2, RuleSets
  <2>5. StickyPaired'
    <3> SUFFICES ASSUME ~skipped, NEW d \in CIDRs PROVE rules'[<<"pre", d>>] = rules'[<<"post", d>>]
      BY <1>1 DEF StickyPaired
    <3>1. rules[<<"pre", d>>] = rules[<<"post", d>>] /\ rules[<<"pre", c>>] = rules[<<"post", c>>]
      BY DEF StickyPaired
    <3>2. CASE d = c
      BY <2>2, <3>1, <3>2
    <3>3. CASE d # c
      <4>1. /\ <<"pre", d>> \in Rules /\ <<"post", d>> \in Rules
            /\ <<"pre", d>> # <<"pre", c>> /\ <<"pre", d>> # <<"post", c>>
            /\ <<"post", d>> # <<"pre", c>> /\ <<"post", d>> # <<"post", c>>
        BY <3>3, RuleSets, SMTT(30)
      <4> QED
        BY <2>2, <3>1, <4>1
    <3> QED
      BY <3>2, <3>3
  <2> QED
    BY <1>1, <1>2, <1>4, <2>3, <2>4, <2>5, RangeStepKeeps DEF FirewallTypeOK
<1> QED
  BY <1>3, <1>4 DEF EnableStickyECMP

(* DisableStickyECMP takes the rules of a range out of both chains, unless *)
(* it could not list one.                                                  *)
LEMMA DisableKeeps ==
  ASSUME FwInv, NEW p \in Procs, NEW c \in CIDRs, DisableStickyECMP(p, c)
  PROVE  FwInv'
<1> USE DEF FwInv
<1>1. fcall[p] = None /\ calls' \in 0..MaxCalls /\ UNCHANGED <<handle, role, internet, blind, torn>>
      /\ handle' \in [Procs -> BOOLEAN]
  BY CountsCalls DEF DisableStickyECMP, FirewallTypeOK
<1>2. CASE Fails(p, None) /\ UNCHANGED skipped
  BY <1>1, <1>2, FailKeeps
<1>3. ASSUME NEW unlisted \in SUBSET chainNames, UNCHANGED <<fwTable, fcall>>,
             rules' = [r \in Rules |-> IF r[1] \in chainNames \ unlisted /\ ruleMatchesCIDR(r, c)
                                       THEN 0 ELSE rules[r]],
             skipped' = (skipped \/ unlisted # {})
      PROVE  FwInv'
  <2>1. rules' \in [Rules -> Nat]
    BY <1>3, SMTT(30) DEF FirewallTypeOK
  <2>2. \A r \in Idempotent : rules'[r] = rules[r]
    BY <1>3, RuleSets DEF chainNames
  <2>3. ~fwTable' => \A r \in InTable : rules'[r] = 0
    BY <1>3, RuleSets DEF FirewallTypeOK
  <2>4. StickyPaired'
    <3> SUFFICES ASSUME ~skipped', NEW d \in CIDRs PROVE rules'[<<"pre", d>>] = rules'[<<"post", d>>]
      BY DEF StickyPaired
    <3>1. ~skipped /\ unlisted = {}
      BY <1>3
    <3>2. rules[<<"pre", d>>] = rules[<<"post", d>>]
      BY <3>1 DEF StickyPaired
    <3>3. <<"pre", d>> \in Rules /\ <<"post", d>> \in Rules
      BY RuleSets
    <3>4. /\ rules'[<<"pre", d>>] = IF ruleMatchesCIDR(<<"pre", d>>, c) THEN 0 ELSE rules[<<"pre", d>>]
          /\ rules'[<<"post", d>>] = IF ruleMatchesCIDR(<<"post", d>>, c) THEN 0 ELSE rules[<<"post", d>>]
      BY <1>3, <3>1, <3>3, SMTT(30) DEF chainNames
    <3>5. ruleMatchesCIDR(<<"pre", d>>, c) <=> ruleMatchesCIDR(<<"post", d>>, c)
      BY SMTT(30) DEF ruleMatchesCIDR
    <3> QED
      BY <3>2, <3>4, <3>5
  <2>5. skipped' \in BOOLEAN
    BY <1>3
  <2> QED
    BY <1>1, <1>3, <2>1, <2>2, <2>3, <2>4, <2>5, RangeStepKeeps DEF FirewallTypeOK
<1> QED
  BY <1>2, <1>3 DEF DisableStickyECMP

(* TeardownNAT takes all rules of the table, so both of every pair. *)
LEMMA TeardownKeeps ==
  ASSUME FwInv, NEW p \in Procs, TeardownNAT(p)
  PROVE  FwInv'
<1> USE DEF FwInv
<1>1. fcall[p] = None /\ calls' \in 0..MaxCalls /\ UNCHANGED <<role, internet, blind, skipped>>
  BY CountsCalls DEF TeardownNAT
<1>2. CASE Fails(p, None) /\ UNCHANGED <<handle, torn>>
  BY <1>1, <1>2, FailKeeps DEF FirewallTypeOK
<1>3. CASE /\ fwTable' = FALSE
           /\ rules' = [r \in Rules |-> IF r \in InTable THEN 0 ELSE rules[r]]
           /\ handle' = [handle EXCEPT ![p] = FALSE] /\ torn' = TRUE /\ UNCHANGED fcall
  <2>1. rules' \in [Rules -> Nat]
    BY <1>3, SMTT(30) DEF FirewallTypeOK
  <2>2. \A r \in Idempotent : rules'[r] = rules[r] \/ rules'[r] = 0
    BY <1>3, RuleSets
  <2>3. \A r \in InTable : rules'[r] = 0
    BY <1>3, RuleSets
  <2>4. StickyPaired'
    BY <2>3, RuleSets DEF StickyPaired
  <2>5. handle' \in [Procs -> BOOLEAN]
    BY <1>3 DEF FirewallTypeOK
  <2> QED
    BY <1>1, <1>3, <2>1, <2>2, <2>3, <2>4, <2>5, RangeStepKeeps DEF FirewallTypeOK
<1> QED
  BY <1>2, <1>3 DEF TeardownNAT

(* Every step keeps the invariant. *)
LEMMA FirewallStep ==
  ASSUME FwInv, FirewallNext
  PROVE  FwInv'
BY StartsKeep, LeavesKeep, AddKeeps, EnableKeeps, DisableKeeps, TeardownKeeps DEF FirewallNext

(* Only TeardownNAT and a DisableStickyECMP of the same range, network and *)
(* mask, take a rule of a balancer range away.                             *)
LEMMA RangeStep ==
  ASSUME FwInv, FirewallNext
  PROVE  DisablesItsOwn
<1> USE DEF FwInv
<1> SUFFICES ASSUME NEW d \in CIDRs, rules'[<<"pre", d>>] < rules[<<"pre", d>>]
             PROVE  lastCall' \in {<<"teardown", 0>>, <<"disable", d>>}
  BY DEF DisablesItsOwn
<1>0. <<"pre", d>> \in Rules /\ rules[<<"pre", d>>] \in Nat
  BY RuleSets DEF FirewallTypeOK
<1>1. rules'[<<"pre", d>>] # rules[<<"pre", d>>]
  BY <1>0, SMTT(30)
<1>2. PICK p \in Procs :
        \/ ClampMSSToPMTU(p) \/ EnableWGCrossTunnelForward(p) \/ EgressRun(p) \/ addRule(p)
        \/ egressEnds(p) \/ TeardownNAT(p) \/ Restart(p)
        \/ \E c \in CIDRs : EnableStickyECMP(p, c) \/ DisableStickyECMP(p, c)
  BY DEF FirewallNext
<1>3. CASE ClampMSSToPMTU(p) \/ EnableWGCrossTunnelForward(p) \/ EgressRun(p) \/ egressEnds(p) \/ Restart(p)
  <2>1. UNCHANGED rules
    BY <1>3 DEF ClampMSSToPMTU, EnableWGCrossTunnelForward, EgressRun, egressEnds, Restart, setupRule, Fails
  <2> QED
    BY <1>1, <2>1
<1>4. CASE addRule(p)
  <2>1. fcall[p].rule \in Idempotent
    BY <1>4, CallUnderWay DEF addRule
  <2>2. <<"pre", d>> # fcall[p].rule
    BY <2>1, RuleSets
  <2>3. rules'[<<"pre", d>>] = rules[<<"pre", d>>]
    BY <1>0, <1>4, <2>2 DEF addRule, FirewallTypeOK
  <2> QED
    BY <1>1, <2>3
<1>5. CASE TeardownNAT(p)
  BY <1>5 DEF TeardownNAT, Calls
<1>6. ASSUME NEW c \in CIDRs, EnableStickyECMP(p, c)
      PROVE  FALSE
  <2>1. rules' = [rules EXCEPT ![<<"pre", c>>] = @ + 1, ![<<"post", c>>] = @ + 1]
    BY <1>1, <1>6 DEF EnableStickyECMP, Fails
  <2>2. <<"pre", d>> # <<"post", c>> /\ <<"pre", c>> # <<"post", c>>
    BY SMTT(30)
  <2>3. rules'[<<"pre", d>>] = rules[<<"pre", d>>] \/ rules'[<<"pre", d>>] = rules[<<"pre", d>>] + 1
    BY <1>0, <2>1, <2>2 DEF FirewallTypeOK
  <2> QED
    BY <1>0, <2>3, SMTT(30)
<1>7. ASSUME NEW c \in CIDRs, DisableStickyECMP(p, c)
      PROVE  lastCall' = <<"disable", d>>
  <2>1. PICK unlisted \in SUBSET chainNames :
          rules' = [r \in Rules |-> IF r[1] \in chainNames \ unlisted /\ ruleMatchesCIDR(r, c)
                                    THEN 0 ELSE rules[r]]
    BY <1>1, <1>7 DEF DisableStickyECMP, Fails
  <2>2. ruleMatchesCIDR(<<"pre", d>>, c)
    BY <1>0, <1>1, <2>1
  <2>3. d.ip = c.ip /\ d.mask = c.mask
    BY <2>2, SMTT(30) DEF ruleMatchesCIDR
  <2>4. d = c
    BY <2>3, FirewallAssumption
  <2> QED
    BY <1>7, <2>4 DEF DisableStickyECMP, Calls
<1> QED
  BY <1>2, <1>3, <1>4, <1>5, <1>6, <1>7

(* Whatever processes of a host call the firewall package (nftables.go,    *)
(* Egress.Run), fail or restart between any two kernel calls: the          *)
(* idempotent calls leave one copy of a rule unless a listing was missed,  *)
(* an egress agent runs behind its masquerade unless the table was torn    *)
(* down, mark rules come and go in pairs, and a range loses its rules to   *)
(* no other range - for any processes, interfaces, ranges and calls.       *)
THEOREM FirewallStaysSafe == FirewallSpec => FirewallSafe
<1>1. FirewallInit => FwInv
  <2> SUFFICES ASSUME FirewallInit PROVE FwInv
    OBVIOUS
  <2>1. FirewallTypeOK
    <3>1. 0 \in 0..MaxCalls /\ 0 \in Nat
      BY FirewallAssumption, SMTT(30)
    <3>2. rules \in [Rules -> Nat] /\ \A r \in InTable : rules[r] = 0
      BY <3>1, RuleSets DEF FirewallInit
    <3> QED
      BY <3>1, <3>2 DEF FirewallInit, FirewallTypeOK
  <2>2. CallsInv
    BY DEF FirewallInit, CallsInv
  <2>3. NoDuplicateRules
    <3>1. 0 <= 1
      BY SMTT(30)
    <3>2. \A r \in Idempotent : rules[r] = 0
      BY RuleSets DEF FirewallInit
    <3> QED BY <3>1, <3>2 DEF NoDuplicateRules
  <2>4. EgressBehindNAT /\ StickyPaired
    BY RuleSets DEF FirewallInit, EgressBehindNAT, StickyPaired
  <2> QED
    BY <2>1, <2>2, <2>3, <2>4 DEF FwInv
<1>2. FwInv /\ [FirewallNext]_fvars => FwInv' /\ [DisablesItsOwn]_fvars
  <2>1. ASSUME FwInv, FirewallNext PROVE FwInv' /\ DisablesItsOwn
    BY <2>1, FirewallStep, RangeStep
  <2>2. ASSUME FwInv, UNCHANGED fvars PROVE FwInv'
    BY <2>2 DEF fvars, FwInv, FirewallTypeOK, CallsInv, NoDuplicateRules, EgressBehindNAT, StickyPaired
  <2> QED
    BY <2>1, <2>2
<1>3. FwInv => FirewallTypeOK /\ NoDuplicateRules /\ EgressBehindNAT /\ StickyPaired
  BY DEF FwInv
<1> QED
  BY <1>1, <1>2, <1>3, PTL DEF FirewallSpec, FirewallSafe, DisableScoped

-----------------------------------------------------------------------------
(* What the start of a node decides (module NodeStart). *)

ClientModes == {"client", "clientd", "egress", "endpoint"}
DaemonModes == {"control-plane", "master"}
ClientFields == {"allowInsecure", "controlPlane", "caCert", "endpoint"}

(* Where a start may be for each mode, and what holds of its configuration *)
(* there: a client's keeps what decides the credentials, and a daemon      *)
(* about to look again at the CA had leave for its address.                *)
WayInv ==
  /\ flags \in FlagsFor(mode)
  /\ npc = "validated" =>
       /\ mode \in ClientModes /\ ClientFields \subseteq DOMAIN held
       /\ held.allowInsecure = flags.allowInsecure /\ held.controlPlane = flags.controlPlane
  /\ npc = "secondLook" =>
       /\ mode \in DaemonModes
       /\ validateListenAddr(flags.listen, moved \/ flags.insecure \/ CompleteCA)

(* The conclusions of StartSafe, before the process runs. *)
FixedInv ==
  held # Nil =>
    /\ mode = "ingress" => IngressNormalizeConfig(held) = held
    /\ mode = "balancer" => BalancerNormalizeConfig(held) = held
ListenersInv ==
  (mode = "master" /\ npc \in {"secondLook", "planned", "running"}) =>
    /\ held.clientIface # held.meshIface /\ held.clientPort # held.meshPort
    /\ ValidPort(held.clientPort) /\ ValidPort(held.meshPort)
BindInv ==
  (mode \in DaemonModes /\ secure = "insecure") =>
    moved \/ flags.insecure \/ (Splits(flags.listen) /\ IsLoopback(Host(flags.listen)))

StartInv ==
  NodeTypeOK /\ WayInv /\ FixedInv /\ LabelsAgree /\ ListenersInv /\ DialSecured /\ BindInv

(* Trimming and lowering a text again changes nothing. *)
LEMMA TrimAgain ==
  /\ \A s : Trim(Trim(s)) = Trim(s)
  /\ \A s : Lower(Trim(Lower(Trim(s)))) = Lower(Trim(s))
<1>1. \A s : Trim(s) = s \/ Trim(s) \in {"", "n", "10.0.0.1", "10.0.0.1:80", "Web.example"}
  BY DEF Trim
<1>2. \A s \in {"", "n", "10.0.0.1", "10.0.0.1:80", "Web.example", "web.example"} : Trim(s) = s
  BY DEF Trim
<1>3. \A s : Lower(s) = s \/ Lower(s) = "web.example"
  BY DEF Lower
<1>4. Lower("web.example") = "web.example"
  BY DEF Lower
<1>5. ASSUME NEW s PROVE Trim(Trim(s)) = Trim(s)
  BY <1>1, <1>2
<1>6. ASSUME NEW s PROVE Lower(Trim(Lower(Trim(s)))) = Lower(Trim(s))
  <2>1. CASE Lower(Trim(s)) = Trim(s)
    BY <1>5, <2>1
  <2>2. CASE Lower(Trim(s)) = "web.example"
    BY <1>2, <1>4, <2>2
  <2> QED BY <1>3, <2>1, <2>2
<1> QED BY <1>5, <1>6

(* A hostname that was accepted is accepted as it is. *)
LEMMA HostAgain ==
  ASSUME NEW h, normalizeHostname(h) # Nil
  PROVE  normalizeHostname(normalizeHostname(h)) = normalizeHostname(h)
<1> DEFINE host == Lower(Trim(h))
<1>1. Lower(Trim(host)) = host
  BY TrimAgain
<1>2. normalizeHostname(h) = host /\ host \notin {"", ".web", "web.", "web..", "-web", "we b"}
  BY DEF normalizeHostname
<1> QED
  BY <1>1, <1>2 DEF normalizeHostname

(* A route that was accepted is accepted as it is. *)
LEMMA RouteAgain ==
  ASSUME NEW r, NormalizeRoute(r) # Nil
  PROVE  NormalizeRoute(NormalizeRoute(r)) = NormalizeRoute(r)
<1> DEFINE tlsMode == IF r.mode = "" THEN "tls_terminate" ELSE r.mode
           protocol == IF r.protocol = "" THEN protocolForMode(tlsMode) ELSE r.protocol
           tenant == IF Trim(r.tenant) = "" THEN "default" ELSE Trim(r.tenant)
           host == normalizeHostname(r.hostname)
           target == Trim(r.target)
           n == [hostname |-> host, target |-> target, mode |-> tlsMode, protocol |-> protocol,
                 tenant |-> tenant]
<1>1. /\ NormalizeRoute(r) = n /\ host # Nil /\ validateTarget(target)
      /\ tlsMode \in TLSModes /\ protocol \in Protocols
  BY DEF NormalizeRoute
<1>2. tlsMode # "" /\ protocol # ""
  <2>1. \A x \in TLSModes \cup Protocols : x # ""
    BY DEF TLSModes, Protocols
  <2> QED BY <1>1, <2>1
<1>3. /\ normalizeHostname(host) = host /\ Trim(target) = target
      /\ Trim(tenant) = tenant /\ tenant # ""
  <2>1. Trim("default") = "default" /\ "default" # ""
    BY SMTT(30) DEF Trim
  <2> QED BY <1>1, <2>1, HostAgain, TrimAgain
<1> HIDE DEF tlsMode, protocol, tenant, host, target
<1>4. /\ n.hostname = host /\ n.target = target /\ n.mode = tlsMode /\ n.protocol = protocol
      /\ n.tenant = tenant
  BY SMTT(30)
<1> HIDE DEF n
<1>5. NormalizeRoute(n) = [hostname |-> host, target |-> target, mode |-> tlsMode,
                           protocol |-> protocol, tenant |-> tenant]
  BY <1>1, <1>2, <1>3, <1>4 DEF NormalizeRoute
<1> QED
  BY <1>1, <1>5 DEF n

(* Routes that a snapshot accepts are normalised once and for all. *)
LEMMA RoutesAgain ==
  ASSUME NEW rs, SnapshotAccepts(rs)
  PROVE  NormalizeRoutes(NormalizeRoutes(rs)) = NormalizeRoutes(rs)
<1> DEFINE ns == NormalizeRoutes(rs)
<1>1. ns = [i \in DOMAIN rs |-> NormalizeRoute(rs[i])]
  BY DEF NormalizeRoutes
<1>2. \A i \in DOMAIN rs : NormalizeRoute(ns[i]) = ns[i]
  BY <1>1, RouteAgain DEF SnapshotAccepts, NormalizeRoutes
<1> QED
  BY <1>1, <1>2 DEF NormalizeRoutes

(* NormalizeConfig of the ingress changes nothing the second time. *)
LEMMA IngressAgain ==
  ASSUME NEW c, IngressNormalizeConfig(c) # Nil
  PROVE  IngressNormalizeConfig(IngressNormalizeConfig(c)) = IngressNormalizeConfig(c)
<1> DEFINE name == Trim(c.name)
           overlay == Trim(c.overlay)
           public == Trim(c.public)
           health == IF c.health <= 0 THEN 5 ELSE c.health
           routes == NormalizeRoutes(c.routes)
           n == [name |-> name, overlay |-> overlay, public |-> public, health |-> health,
                 routes |-> routes]
<1>1. /\ IngressNormalizeConfig(c) = n /\ name # "" /\ overlay # "" /\ IsAddr(overlay)
      /\ validateListenAddress(public) /\ SnapshotAccepts(c.routes) /\ SnapshotAccepts(routes)
  BY DEF IngressNormalizeConfig
<1>2. /\ Trim(name) = name /\ Trim(overlay) = overlay /\ Trim(public) = public
      /\ NormalizeRoutes(routes) = routes
  BY <1>1, TrimAgain, RoutesAgain
<1>3. (IF health <= 0 THEN 5 ELSE health) = health
  BY SMTT(30)
<1> HIDE DEF name, overlay, public, health, routes
<1>4. /\ n.name = name /\ n.overlay = overlay /\ n.public = public /\ n.health = health
      /\ n.routes = routes
  BY SMTT(30)
<1> HIDE DEF n
<1>5. IngressNormalizeConfig(n) = [name |-> name, overlay |-> overlay, public |-> public,
                                   health |-> health, routes |-> routes]
  BY <1>1, <1>2, <1>3, <1>4 DEF IngressNormalizeConfig
<1> QED
  BY <1>1, <1>5 DEF n

(* An egress or a label that was accepted is accepted as it is. *)
LEMMA EgressAgain ==
  ASSUME NEW e, NormalizeEgressTarget(e) # Nil
  PROVE  /\ NormalizeEgressTarget(NormalizeEgressTarget(e)) = NormalizeEgressTarget(e)
         /\ NormalizeEgressTarget(e).id = Trim(e.id)
         /\ Trim(NormalizeEgressTarget(e).id) = Trim(e.id)
<1> DEFINE id == Trim(e.id)
           target == Trim(e.target)
           weight == e.weight
           n == [id |-> id, target |-> target, weight |-> weight]
<1>1. /\ NormalizeEgressTarget(e) = n /\ id \notin {"", "a b", "a=b"} /\ validateTarget(target)
      /\ weight > 0
  BY DEF NormalizeEgressTarget
<1>2. Trim(id) = id /\ Trim(target) = target
  BY TrimAgain
<1> HIDE DEF id, target, weight
<1>3. n.id = id /\ n.target = target /\ n.weight = weight
  BY SMTT(30)
<1> HIDE DEF n
<1>4. NormalizeEgressTarget(n) = [id |-> id, target |-> target, weight |-> weight]
  BY <1>1, <1>2, <1>3 DEF NormalizeEgressTarget
<1> QED
  BY <1>1, <1>2, <1>3, <1>4 DEF n, id

(* The same for a label. *)
LEMMA LabelAgain ==
  ASSUME NEW l, NormalizeLabelMapping(l) # Nil
  PROVE  NormalizeLabelMapping(NormalizeLabelMapping(l)) = NormalizeLabelMapping(l)
<1> DEFINE type == l.type
           value == l.value
           egress == Trim(l.egress)
           n == [type |-> type, value |-> value, egress |-> egress]
<1>1. /\ NormalizeLabelMapping(l) = n /\ type \in {"dscp", "fwmark"} /\ value > 0 /\ egress # ""
      /\ type = "dscp" => value <= 63
      /\ type = "fwmark" => value <= MaxFWMark
  BY DEF NormalizeLabelMapping
<1>2. Trim(egress) = egress
  BY TrimAgain
<1> HIDE DEF type, value, egress
<1>3. n.type = type /\ n.value = value /\ n.egress = egress
  BY SMTT(30)
<1> HIDE DEF n
<1>4. NormalizeLabelMapping(n) = [type |-> type, value |-> value, egress |-> egress]
  BY <1>1, <1>2, <1>3 DEF NormalizeLabelMapping
<1> QED
  BY <1>1, <1>4 DEF n

(* NormalizeConfig of the balancer changes nothing the second time. *)
LEMMA BalancerAgain ==
  ASSUME NEW c, BalancerNormalizeConfig(c) # Nil
  PROVE  BalancerNormalizeConfig(BalancerNormalizeConfig(c)) = BalancerNormalizeConfig(c)
<1> DEFINE name == Trim(c.name)
           overlay == Trim(c.overlay)
           kind == IF c.mode = "" THEN "dumb" ELSE c.mode
           health == IF c.health <= 0 THEN 5 ELSE c.health
           es == [i \in DOMAIN c.egresses |-> NormalizeEgressTarget(c.egresses[i])]
           ls == [i \in DOMAIN c.labels |-> NormalizeLabelMapping(c.labels[i])]
           n == [name |-> name, overlay |-> overlay, mode |-> kind, egresses |-> es,
                 labels |-> ls, health |-> health]
<1>1. /\ BalancerNormalizeConfig(c) = n /\ name # "" /\ overlay # "" /\ IsAddr(overlay)
      /\ c.mode \in {"", "dumb", "labeled"}
      /\ egressesAccepted(c.egresses) /\ labelsAccepted(c.labels, c.egresses)
  BY DEF BalancerNormalizeConfig
<1>2. /\ Trim(name) = name /\ Trim(overlay) = overlay
      /\ kind # "" /\ kind \in {"", "dumb", "labeled"}
  BY <1>1, TrimAgain
<1>3. (IF health <= 0 THEN 5 ELSE health) = health
  BY SMTT(30)
<1>4. \A i \in DOMAIN es : es[i] # Nil /\ NormalizeEgressTarget(es[i]) = es[i] /\ Trim(es[i].id) = Trim(c.egresses[i].id)
  BY <1>1, EgressAgain DEF egressesAccepted
<1>5. \A i \in DOMAIN ls : ls[i] # Nil /\ NormalizeLabelMapping(ls[i]) = ls[i]
  BY <1>1, LabelAgain DEF labelsAccepted
<1>6. /\ [i \in DOMAIN es |-> NormalizeEgressTarget(es[i])] = es
      /\ [i \in DOMAIN ls |-> NormalizeLabelMapping(ls[i])] = ls
  BY <1>4, <1>5
<1>7. egressesAccepted(es)
  <2>1. /\ DOMAIN es # {} /\ \A i \in DOMAIN es : es[i] # Nil
        /\ \A i, j \in DOMAIN es : i # j => es[i].id # es[j].id
    BY <1>1 DEF egressesAccepted
  <2> HIDE DEF es
  <2> QED BY <2>1, <1>4, <1>6, SMTT(30) DEF egressesAccepted
<1>8. labelsAccepted(ls, es)
  <2>1. /\ \A i \in DOMAIN ls : ls[i] # Nil /\ \E k \in DOMAIN es : Trim(es[k].id) = ls[i].egress
        /\ \A i, j \in DOMAIN ls : i # j => <<ls[i].type, ls[i].value>> # <<ls[j].type, ls[j].value>>
    <3>1. /\ \A i \in DOMAIN ls : ls[i] # Nil /\ \E k \in DOMAIN c.egresses : Trim(c.egresses[k].id) = ls[i].egress
          /\ \A i, j \in DOMAIN ls : i # j => <<ls[i].type, ls[i].value>> # <<ls[j].type, ls[j].value>>
      BY <1>1 DEF labelsAccepted
    <3>2. DOMAIN es = DOMAIN c.egresses
      OBVIOUS
    <3> HIDE DEF es, ls
    <3> QED BY <3>1, <3>2, <1>4
  <2> HIDE DEF es, ls
  <2> QED BY <2>1, <1>5, <1>6, SMTT(30) DEF labelsAccepted
<1> HIDE DEF name, overlay, kind, health, es, ls
<1>9. /\ n.name = name /\ n.overlay = overlay /\ n.mode = kind /\ n.health = health
      /\ n.egresses = es /\ n.labels = ls
  BY SMTT(30)
<1> HIDE DEF n
<1>10. BalancerNormalizeConfig(n) = [name |-> name, overlay |-> overlay, mode |-> kind, egresses |-> es,
                                     labels |-> ls, health |-> health]
  <2>1. /\ Trim(n.name) = name /\ Trim(n.overlay) = overlay /\ (IF n.mode = "" THEN "dumb" ELSE n.mode) = kind
        /\ (IF n.health <= 0 THEN 5 ELSE n.health) = health
    BY <1>2, <1>3, <1>9
  <2>2. /\ [i \in DOMAIN n.egresses |-> NormalizeEgressTarget(n.egresses[i])] = es
        /\ [i \in DOMAIN n.labels |-> NormalizeLabelMapping(n.labels[i])] = ls
    BY <1>6, <1>9
  <2>3. /\ Trim(n.name) # "" /\ Trim(n.overlay) # "" /\ IsAddr(Trim(n.overlay)) /\ n.mode \in {"", "dumb", "labeled"}
        /\ egressesAccepted(n.egresses) /\ labelsAccepted(n.labels, n.egresses)
    BY <1>1, <1>2, <1>7, <1>8, <1>9
  <2> QED BY <2>1, <2>2, <2>3 DEF BalancerNormalizeConfig
<1> QED
  BY <1>1, <1>10 DEF n

(* The labels of a parsed balancer configuration are a sequence. *)
LEMMA LabelsInOrder ==
  ASSUME NEW f \in BalancerFlags, buildBalancerConfig(f) # Nil
  PROVE  DOMAIN buildBalancerConfig(f).labels \subseteq Int
<1> DEFINE d == [i \in DOMAIN f.dscp |-> parseBalancerLabel("dscp", f.dscp[i])]
           w == [i \in DOMAIN f.fwmark |-> parseBalancerLabel("fwmark", f.fwmark[i])]
           Any == {d[i] : i \in DOMAIN d} \cup {w[i] : i \in DOMAIN w}
<1>1. f.dscp \in Seq(LabelFlag) /\ f.fwmark \in Seq(LabelFlag)
  BY FlagsAssumption, SMTT(30)
<1>2. d \in Seq(Any) /\ w \in Seq(Any)
  <2>1. /\ Len(f.dscp) \in Nat /\ DOMAIN f.dscp = 1..Len(f.dscp)
        /\ Len(f.fwmark) \in Nat /\ DOMAIN f.fwmark = 1..Len(f.fwmark)
    BY <1>1, SMTT(30)
  <2>2. d \in [1..Len(f.dscp) -> Any] /\ w \in [1..Len(f.fwmark) -> Any]
    BY <2>1
  <2> HIDE DEF d, w, Any
  <2> QED BY <2>1, <2>2, SMTT(30)
<1>3. buildBalancerConfig(f).labels = d \o w
  <2> DEFINE es == [i \in DOMAIN f.egresses |-> parseBalancerEgress(f.egresses[i])]
             ls == d \o w
  <2>1. buildBalancerConfig(f) = [name |-> f.name, overlay |-> f.overlay, mode |-> f.mode,
                                  egresses |-> es, labels |-> ls, health |-> f.health]
    BY DEF buildBalancerConfig
  <2> HIDE DEF es, ls
  <2>2. buildBalancerConfig(f).labels = ls
    BY <2>1, SMTT(30)
  <2> QED BY <2>2 DEF ls
<1> HIDE DEF d, w, Any
<1>4. DOMAIN (d \o w) = 1..Len(d) + Len(w) /\ Len(d) \in Nat /\ Len(w) \in Nat
  BY <1>2, SMTT(30)
<1> QED
  BY <1>3, <1>4, SMTT(30)

(* Where no two labels have the same key, the map of NewEngine has the     *)
(* egress of each.                                                         *)
LEMMA MapOfLabels ==
  ASSUME NEW ls, DOMAIN ls \subseteq Int,
         \A i, j \in DOMAIN ls : i # j => <<ls[i].type, ls[i].value>> # <<ls[j].type, ls[j].value>>,
         NEW i \in DOMAIN ls
  PROVE  LabelMap(ls)[<<ls[i].type, ls[i].value>>] = ls[i].egress
<1> DEFINE key(j) == <<ls[j].type, ls[j].value>>
           Last(k) == CHOOSE j \in DOMAIN ls : key(j) = k /\ \A h \in DOMAIN ls : key(h) = k => h <= j
<1>1. LabelMap(ls)[key(i)] = ls[Last(key(i))].egress
  <2>1. key(i) \in {key(j) : j \in DOMAIN ls}
    OBVIOUS
  <2> QED BY <2>1 DEF LabelMap
<1>2. \A h \in DOMAIN ls : key(h) = key(i) => h = i
  OBVIOUS
<1> HIDE DEF key
<1>3. i <= i
  BY SMTT(30)
<1>4. \A h \in DOMAIN ls : key(h) = key(i) => h <= i
  BY <1>2, <1>3
<1>5. Last(key(i)) \in DOMAIN ls /\ key(Last(key(i))) = key(i)
  BY <1>4
<1>6. Last(key(i)) = i
  BY <1>2, <1>5
<1> HIDE DEF Last
<1> QED
  BY <1>1, <1>6 DEF key

(* The engine's map agrees with the configuration NewRuntime accepted. *)
LEMMA EngineAgrees ==
  ASSUME NEW f \in BalancerFlags, buildBalancerConfig(f) # Nil,
         NEW n, n = BalancerNormalizeConfig(buildBalancerConfig(f)), n # Nil, NEW i \in DOMAIN n.labels
  PROVE  LabelMap(n.labels)[<<n.labels[i].type, n.labels[i].value>>] = n.labels[i].egress
<1> DEFINE c == buildBalancerConfig(f)
           ls == [j \in DOMAIN c.labels |-> NormalizeLabelMapping(c.labels[j])]
<1> HIDE DEF c
<1>1. c # Nil /\ DOMAIN c.labels \subseteq Int /\ n = BalancerNormalizeConfig(c)
  BY LabelsInOrder DEF c
<1>2. n.labels = ls /\ labelsAccepted(c.labels, c.egresses)
  <2> DEFINE name == Trim(c.name)
             overlay == Trim(c.overlay)
             kind == IF c.mode = "" THEN "dumb" ELSE c.mode
             health == IF c.health <= 0 THEN 5 ELSE c.health
             es == [j \in DOMAIN c.egresses |-> NormalizeEgressTarget(c.egresses[j])]
  <2>1. /\ n = [name |-> name, overlay |-> overlay, mode |-> kind, egresses |-> es,
                labels |-> ls, health |-> health]
        /\ labelsAccepted(c.labels, c.egresses)
    BY <1>1 DEF BalancerNormalizeConfig
  <2> HIDE DEF name, overlay, kind, health, es, ls
  <2> QED BY <2>1, SMTT(30)
<1>3. \A j, k \in DOMAIN ls : j # k => <<ls[j].type, ls[j].value>> # <<ls[k].type, ls[k].value>>
  BY <1>2 DEF labelsAccepted
<1>4. DOMAIN ls = DOMAIN c.labels
  OBVIOUS
<1> HIDE DEF ls
<1> QED
  BY <1>1, <1>2, <1>3, <1>4, MapOfLabels

(* A start that is refused, or ends, keeps what is known. *)
LEMMA ExitKeeps ==
  ASSUME StartInv, NEW code \in {0, 1, 2}, Exit(code), UNCHANGED <<env, held, labelMap2, secure, opened>>
  PROVE  StartInv'
<1>1. code \in {-1, 0, 1, 2} /\ code # -1
  BY SMTT(30)
<1> QED
  BY <1>1 DEF StartInv, NodeTypeOK, WayInv, FixedInv, LabelsAgree, ListenersInv, DialSecured, BindInv, Exit, env

(* Ingress and balancer: what they accept is fixed. *)
LEMMA ServicesKeep ==
  ASSUME StartInv, startIngress \/ startBalancer
  PROVE  StartInv'
<1>1. CASE startIngress
  <2> DEFINE c == buildIngressConfig(flags)
             n == IF c = Nil THEN Nil ELSE IngressNormalizeConfig(c)
  <2>1. CASE n = Nil
    BY <1>1, <2>1, ExitKeeps DEF startIngress
  <2>2. CASE n # Nil
    <3>1. /\ npc = "start" /\ mode = "ingress" /\ Goes("planned") /\ held' = n
          /\ UNCHANGED <<env, labelMap2, secure, opened>>
      BY <1>1, <2>2 DEF startIngress
    <3>2. IngressNormalizeConfig(n) = n
      BY <2>2, IngressAgain
    <3> HIDE DEF n
    <3> QED
      BY <3>1, <3>2 DEF StartInv, NodeTypeOK, WayInv, FixedInv, LabelsAgree, ListenersInv, DialSecured,
        BindInv, Goes, env
  <2> QED BY <2>1, <2>2
<1>2. CASE startBalancer
  <2> DEFINE c == buildBalancerConfig(flags)
             n == IF c = Nil THEN Nil ELSE BalancerNormalizeConfig(c)
  <2>1. CASE n = Nil
    BY <1>2, <2>1, ExitKeeps DEF startBalancer
  <2>2. CASE n # Nil
    <3>1. /\ npc = "start" /\ mode = "balancer" /\ Goes("planned") /\ held' = n
          /\ labelMap2' = LabelMap(n.labels) /\ UNCHANGED <<env, secure, opened>>
      BY <1>2, <2>2 DEF startBalancer
    <3>2. BalancerNormalizeConfig(n) = n
      BY <2>2, BalancerAgain
    <3>3. flags \in BalancerFlags
      BY <3>1 DEF StartInv, WayInv, FlagsFor
    <3>4. \A i \in DOMAIN n.labels :
            LabelMap(n.labels)[<<n.labels[i].type, n.labels[i].value>>] = n.labels[i].egress
      BY <2>2, <3>3, EngineAgrees
    <3> HIDE DEF n
    <3> QED
      BY <3>1, <3>2, <3>4 DEF StartInv, NodeTypeOK, WayInv, FixedInv, LabelsAgree, ListenersInv, DialSecured,
        BindInv, Goes, env
  <2> QED BY <2>1, <2>2
<1> QED BY <1>1, <1>2

(* Control plane and master: the first look, the listeners and the second  *)
(* look.                                                                   *)
LEMMA DaemonsKeep ==
  ASSUME StartInv, startControlPlane \/ startMaster \/ secondLook
  PROVE  StartInv'
<1> USE DEF NodeTypeOK, WayInv, FixedInv, LabelsAgree, ListenersInv, DialSecured, BindInv, Goes, env
<1>1. CASE startControlPlane
  <2>1. CASE FirstLookPasses(flags)
    BY <1>1, <2>1 DEF startControlPlane, StartInv, FirstLookPasses, CompleteCA, validateListenAddr, DaemonModes, ClientModes
  <2>2. CASE ~FirstLookPasses(flags)
    BY <1>1, <2>2, ExitKeeps DEF startControlPlane
  <2> QED BY <2>1, <2>2
<1>2. CASE startMaster
  <2> DEFINE coordination == buildMasterCoordinationConfig(flags)
             listener == NewDualListener(flags)
  <2>1. CASE Exit(2) /\ UNCHANGED held
    BY <1>2, <2>1, ExitKeeps DEF startMaster
  <2>2. CASE ~(Exit(2) /\ UNCHANGED held)
    <3>1. /\ npc = "start" /\ mode = "master" /\ listener # Nil
          /\ coordination = "on" => FirstLookPasses(flags)
          /\ Goes(IF coordination = "on" THEN "secondLook" ELSE "planned") /\ held' = listener
          /\ UNCHANGED <<env, labelMap2, secure, opened>>
      BY <1>2, <2>2 DEF startMaster
    <3>2. /\ listener.clientIface # listener.meshIface /\ listener.clientPort # listener.meshPort
          /\ ValidPort(listener.clientPort) /\ ValidPort(listener.meshPort)
      BY <3>1 DEF NewDualListener, validateDualListenerConfig
    <3> HIDE DEF coordination, listener
    <3> QED
      BY <3>1, <3>2 DEF StartInv, FirstLookPasses, CompleteCA, validateListenAddr, DaemonModes, ClientModes
  <2> QED BY <2>1, <2>2
<1>3. CASE secondLook
  <2>1. PICK kind \in configureDaemonCertLifecycle(held) :
          IF kind = Nil THEN Exit(IF mode = "master" THEN 2 ELSE 1) /\ UNCHANGED <<secure, opened>>
          ELSE /\ secure' = kind
               /\ IF mode = "master" THEN Goes("planned") /\ UNCHANGED opened
                  ELSE Goes("running") /\ opened' = TRUE
    BY <1>3 DEF secondLook
  <2>2. CASE kind = Nil
    BY <1>3, <2>1, <2>2, ExitKeeps DEF secondLook
  <2>3. CASE kind # Nil
    <3>1. kind \in {"insecure", "mtls"} /\ (kind = "insecure" => ~CompleteCA)
      BY <2>3 DEF configureDaemonCertLifecycle
    <3>2. /\ npc = "secondLook" /\ UNCHANGED <<env, held, labelMap2>>
          /\ secure' = kind /\ npc' \in {"planned", "running"} /\ UNCHANGED exit /\ opened' \in {opened, TRUE}
      BY <1>3, <2>1, <2>3 DEF secondLook
    <3>3. mode \in DaemonModes /\ (moved \/ flags.insecure \/ CompleteCA \/ (Splits(flags.listen) /\ IsLoopback(Host(flags.listen))))
      BY <3>2 DEF StartInv, validateListenAddr
    <3> QED BY <3>1, <3>2, <3>3 DEF StartInv, DaemonModes, ClientModes
  <2> QED BY <2>2, <2>3
<1> QED BY <1>1, <1>2, <1>3

(* The flags of a client or an egress have the fields that decide. *)
LEMMA ClientFlagFields ==
  ASSUME WayInv, mode \in ClientModes
  PROVE  ClientFields \subseteq DOMAIN flags
<1>1. flags \in ClientFlags \cup EgressFlags
  BY DEF WayInv, FlagsFor, ClientModes
<1> QED
  BY <1>1, FlagsAssumption, SMTT(30) DEF ClientFields

(* The configuration passed to the agent keeps them. *)
LEMMA ConfigKeepsFields ==
  ASSUME ClientFields \subseteq DOMAIN flags, ClientdConfig(flags) # Nil
  PROVE  /\ ClientFields \subseteq DOMAIN ClientdConfig(flags)
         /\ ClientdConfig(flags).allowInsecure = flags.allowInsecure
         /\ ClientdConfig(flags).controlPlane = flags.controlPlane
<1> DEFINE endpoint == advertisedMeshEndpoint(flags.endpoint, flags.publicIP, flags.listenPort)
           port == IF mode \in {"client", "clientd"} /\ flags.listenPort <= 0 THEN 51821
                   ELSE flags.listenPort
<1>1. ClientdConfig(flags) = [flags EXCEPT !.endpoint = endpoint, !.listenPort = port]
  BY SMTT(30) DEF ClientdConfig
<1> HIDE DEF endpoint, port
<1> QED
  BY <1>1, SMTT(30) DEF ClientFields

(* So does the validation, which lets no insecure target through that is   *)
(* neither allowed nor loopback.                                           *)
LEMMA ValidationKeepsFields ==
  ASSUME NEW c, ClientFields \subseteq DOMAIN c, ValidateCommandConfig(c) # Nil
  PROVE  /\ ClientFields \subseteq DOMAIN ValidateCommandConfig(c)
         /\ ValidateCommandConfig(c).allowInsecure = c.allowInsecure
         /\ ValidateCommandConfig(c).controlPlane = c.controlPlane
         /\ \/ Trim(ValidateCommandConfig(c).caCert) # ""
            \/ c.allowInsecure \/ isLoopbackControlPlaneTarget(c.controlPlane)
<1> DEFINE caPath == IF Trim(c.caCert) = "" /\ regularFile(defaultCACertPath(c.cert))
                     THEN defaultCACertPath(c.cert) ELSE c.caCert
           endpoint == Trim(c.endpoint)
<1>1. /\ ValidateCommandConfig(c) = WithPaths(c, caPath, endpoint)
      /\ Trim(caPath) # "" \/ c.allowInsecure \/ isLoopbackControlPlaneTarget(c.controlPlane)
  BY DEF ValidateCommandConfig
<1> HIDE DEF caPath, endpoint
<1>2. /\ ClientFields \subseteq DOMAIN ValidateCommandConfig(c)
      /\ ValidateCommandConfig(c).allowInsecure = c.allowInsecure
      /\ ValidateCommandConfig(c).controlPlane = c.controlPlane
      /\ ValidateCommandConfig(c).caCert = caPath
  <2> DEFINE w == WithPaths(c, caPath, endpoint)
  <2>1. /\ DOMAIN w = DOMAIN c /\ w.caCert = caPath
        /\ w.allowInsecure = c.allowInsecure /\ w.controlPlane = c.controlPlane
    BY SMTT(30) DEF ClientFields, WithPaths
  <2> QED BY <2>1, <1>1
<1> QED
  BY <1>1, <1>2

(* Client and egress: the first validation, and the one before the dial. *)
LEMMA ClientsKeep ==
  ASSUME StartInv, startClient \/ startEgress \/ runWithConfig
  PROVE  StartInv'
<1> USE DEF NodeTypeOK, WayInv, FixedInv, LabelsAgree, ListenersInv, DialSecured, BindInv, Goes, env
<1>1. CASE startClient \/ startEgress
  <2> DEFINE c == ClientdConfig(flags)
             v == ValidateCommandConfig(c)
  <2>1. \/ \E code \in {0, 1, 2} : Exit(code) /\ UNCHANGED <<env, held, labelMap2, secure, opened>>
        \/ /\ npc = "start" /\ mode \in ClientModes /\ c # Nil /\ v # Nil
           /\ Goes("validated") /\ held' = v /\ UNCHANGED <<env, labelMap2, secure, opened>>
    BY <1>1 DEF startClient, startEgress, ClientModes
  <2>2. CASE \E code \in {0, 1, 2} : Exit(code) /\ UNCHANGED <<env, held, labelMap2, secure, opened>>
    BY <2>2, ExitKeeps
  <2>3. CASE /\ npc = "start" /\ mode \in ClientModes /\ c # Nil /\ v # Nil
             /\ Goes("validated") /\ held' = v /\ UNCHANGED <<env, labelMap2, secure, opened>>
    <3>1. ClientFields \subseteq DOMAIN flags
      BY <2>3, ClientFlagFields DEF StartInv
    <3>2. ClientFields \subseteq DOMAIN c /\ c.allowInsecure = flags.allowInsecure /\ c.controlPlane = flags.controlPlane
      BY <3>1, <2>3, ConfigKeepsFields
    <3> HIDE DEF c
    <3>3. ClientFields \subseteq DOMAIN v /\ v.allowInsecure = flags.allowInsecure /\ v.controlPlane = flags.controlPlane
      BY <3>2, <2>3, ValidationKeepsFields
    <3> HIDE DEF v
    <3> QED BY <2>3, <3>3 DEF StartInv, ClientModes
  <2> QED BY <2>1, <2>2, <2>3
<1>2. CASE runWithConfig
  <2> DEFINE v == ValidateCommandConfig(held)
  <2>1. PICK kind \in IF v = Nil THEN {Nil} ELSE Credentials(v) :
          IF kind = Nil \/ ~loadWireGuardPrivateKey \/ ~parseOverlayAddress(v.overlay)
          THEN Exit(1) /\ UNCHANGED <<held, secure, opened>>
          ELSE Goes("running") /\ held' = v /\ secure' = kind /\ opened' = TRUE
    BY <1>2 DEF runWithConfig
  <2>2. CASE Exit(1) /\ UNCHANGED <<held, secure, opened>>
    BY <1>2, <2>2, ExitKeeps DEF runWithConfig
  <2>3. CASE ~(Exit(1) /\ UNCHANGED <<held, secure, opened>>)
    <3>1. /\ npc = "validated" /\ mode \in ClientModes /\ UNCHANGED <<env, labelMap2>>
          /\ Goes("running") /\ held' = v /\ secure' = kind /\ opened' = TRUE /\ kind # Nil
      BY <1>2, <2>1, <2>3 DEF runWithConfig, StartInv
    <3>2. v # Nil /\ kind \in Credentials(v)
      BY <3>1, <2>1
    <3>3. kind \in {"insecure", "mtls"} /\ (kind = "insecure" => Trim(v.caCert) = "")
      BY <3>1, <3>2 DEF Credentials
    <3>4. kind = "insecure" => flags.allowInsecure \/ isLoopbackControlPlaneTarget(flags.controlPlane)
      <4>1. ClientFields \subseteq DOMAIN held /\ held.allowInsecure = flags.allowInsecure /\ held.controlPlane = flags.controlPlane
        BY <3>1 DEF StartInv
      <4> QED BY <4>1, <3>2, <3>3, ValidationKeepsFields
    <3> HIDE DEF v
    <3> QED BY <3>1, <3>3, <3>4 DEF StartInv, ClientModes, DaemonModes
  <2> QED BY <2>2, <2>3
<1> QED BY <1>1, <1>2

(* A process that runs on its plan, and files that change on the way. *)
LEMMA PlansKeep ==
  ASSUME StartInv, runMaster \/ runIngress \/ runBalancer \/ changeFiles
  PROVE  StartInv'
<1> USE DEF NodeTypeOK, WayInv, FixedInv, LabelsAgree, ListenersInv, DialSecured, BindInv
<1>1. ASSUME NEW m \in {"master", "ingress", "balancer"}, Planned(m) PROVE StartInv'
  <2>1. CASE dry
    BY <1>1, <2>1, ExitKeeps DEF Planned
  <2>2. CASE ~dry
    BY <1>1, <2>2 DEF Planned, Goes, env, StartInv, ClientModes
  <2> QED BY <2>1, <2>2
<1>2. CASE changeFiles
  <2>1. /\ UNCHANGED <<mode, dry, flags, wgKey, npc, exit, held, labelMap2, secure, opened>>
        /\ moved => moved'
        /\ npc = "secondLook" => moved'
    BY <1>2 DEF changeFiles
  <2>2. NodeTypeOK'
    BY <1>2 DEF changeFiles, StartInv
  <2>3. WayInv'
    BY <2>1 DEF StartInv, validateListenAddr
  <2>4. FixedInv' /\ LabelsAgree' /\ ListenersInv' /\ DialSecured' /\ BindInv'
    BY <2>1 DEF StartInv
  <2> QED BY <2>2, <2>3, <2>4 DEF StartInv
<1> QED BY <1>1, <1>2 DEF runMaster, runIngress, runBalancer

(* However the files of a node change while it starts (runCommand, the     *)
(* start functions and NewDaemon's two looks): the configuration a role    *)
(* runs with is a fixed point of its normalisation and its engine agrees   *)
(* with it, a master's listeners do not collide, and no role dials or      *)
(* listens without TLS unless it was allowed to or stays on loopback - for *)
(* any flags.                                                              *)
THEOREM StartStaysSafe == NodeSpec => []StartSafe
<1>1. NodeInit => StartInv
  <2> SUFFICES ASSUME NodeInit PROVE StartInv
    OBVIOUS
  <2>1. exit \in {-1, 0, 1, 2} /\ ~(exit # -1) /\ opened \in BOOLEAN
    BY DEF NodeInit
  <2> QED
    BY <2>1 DEF NodeInit, StartInv, NodeTypeOK, WayInv, FixedInv, LabelsAgree, ListenersInv, DialSecured, BindInv
<1>2. StartInv /\ [NodeNext]_nvars => StartInv'
  <2>1. ASSUME StartInv, runCommand PROVE StartInv'
    BY <2>1, ExitKeeps DEF runCommand
  <2>2. ASSUME StartInv, NodeNext PROVE StartInv'
    BY <2>1, <2>2, ServicesKeep, DaemonsKeep, ClientsKeep, PlansKeep DEF NodeNext
  <2>3. ASSUME StartInv, UNCHANGED nvars PROVE StartInv'
    <3>1. NodeTypeOK' /\ WayInv'
      BY <2>3 DEF nvars, StartInv, NodeTypeOK, WayInv, CompleteCA, validateListenAddr
    <3>2. FixedInv' /\ LabelsAgree' /\ ListenersInv' /\ DialSecured' /\ BindInv'
      BY <2>3 DEF nvars, StartInv, FixedInv, LabelsAgree, ListenersInv, DialSecured, BindInv
    <3> QED BY <3>1, <3>2 DEF StartInv
  <2> QED BY <2>2, <2>3
<1>3. StartInv => StartSafe
  BY DEF StartInv, StartSafe, FixedInv, NormalizedIsFixed, ListenersInv, ListenersDistinct, BindInv, BindSecured, DaemonModes
<1> QED
  BY <1>1, <1>2, <1>3, PTL DEF NodeSpec

=============================================================================
