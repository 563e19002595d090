---------------------------- MODULE PolicyRouting ----------------------------
(***************************************************************************)
(* DSCP policy routing (pkg/routing/dscp.go) and the routes and addresses of *)
(* NetlinkRouter (pkg/routing/netlink.go) over the kernel state they share:  *)
(* the marking rules of table awg_dscp, the ip rules, the routing tables and *)
(* the main table.  Interfaces come and go, and other programs own ip rules. *)
(***************************************************************************)
EXTENDS Integers, Sequences

CONSTANTS
  PolicyLists,   \* argument lists: sequences of [dscp, fwmark, table, gateway, device]
  ForeignRules,  \* ip rules of other programs: records [mark, table, priority]
  HopLists,      \* nexthop lists: sequences of [dev, via, weight]
  Links,         \* interface names
  MaxPolicyCalls \* bound: calls

VARIABLES
  marks,     \* awg_dscp: DSCP value -> copies of its marking rule
  connmark,  \* awg_dscp: copies of the restore rule and of the save rule
  iprules,   \* ip rules
  ptables,   \* routing table -> its default route [gw, dev], or NoRoute
  names,     \* ids in rt_tables.d/awg-mesh.conf
  main,      \* the main table's route to one destination: a set of hops, {} for none
  addrs,     \* link -> it has the overlay address
  links,     \* interfaces that exist
  setUp,     \* history: the policies of the last setup, while it still stands
  pcalls     \* calls made

pvars == <<marks, connmark, iprules, ptables, names, main, addrs, links, setUp, pcalls>>

dscpPriorityBase == 100
DSCPs == 0..64
NoRoute == [gw |-> 0, dev |-> ""]
Call == pcalls < MaxPolicyCalls /\ pcalls' = pcalls + 1

shouldCleanupDSCPRule(r) ==
  /\ r.mark \in 1..63
  /\ r.priority = dscpPriorityBase + r.mark /\ r.table = dscpPriorityBase + r.mark

(* The arguments have the types of the code, and a rule of another program is not
   one of a DSCP policy in mark, table and priority: such a rule would be this
   program's. *)
ASSUME PolicyAssumption ==
  /\ PolicyLists \subseteq Seq([dscp : Int, fwmark : Int, table : Int, gateway : Int, device : STRING])
  /\ HopLists \subseteq Seq([dev : STRING, via : Int, weight : Int])
  /\ \A r \in ForeignRules : ~shouldCleanupDSCPRule(r)
  /\ MaxPolicyCalls \in Nat

PolicyTypeOK ==
  /\ marks \in [DSCPs -> 0..MaxPolicyCalls] /\ connmark \in [{"restore", "save"} -> 0..MaxPolicyCalls]
  /\ DOMAIN ptables = dscpPriorityBase..(dscpPriorityBase + 63)
  /\ links \subseteq Links /\ addrs \in [Links -> BOOLEAN]
  /\ connmark["restore"] = connmark["save"]

PolicyInit ==
  /\ marks = [d \in DSCPs |-> 0] /\ connmark = [c \in {"restore", "save"} |-> 0]
  /\ iprules = ForeignRules /\ names = {}
  /\ ptables = [t \in dscpPriorityBase..(dscpPriorityBase + 63) |-> NoRoute]
  /\ main = {} /\ addrs = [l \in Links |-> FALSE] /\ links = Links
  /\ setUp = <<>> /\ pcalls = 0

(* SetupDSCPPolicyRouting checks every policy before anything reaches the kernel. *)
Valid(ps) ==
  \A i \in DOMAIN ps :
    /\ ps[i].dscp \in 1..63 /\ ps[i].fwmark = ps[i].dscp
    /\ ps[i].table = dscpPriorityBase + ps[i].dscp
    /\ \A j \in 1..(i - 1) : ps[j].dscp # ps[i].dscp

ipRule(p) == [mark |-> p.fwmark, table |-> p.table, priority |-> dscpPriorityBase + p.dscp]

(* A route is asked for when gateway and device are given; gateway -1 does not
   parse and an absent device has no link. *)
WantsRoute(p) == p.gateway # 0 /\ p.device # ""
RouteWorks(p) == p.gateway > 0 /\ p.device \in links

(* writeRtTables: the file names the table of every policy by its DSCP value. *)
writeRtTables(ps) == {dscpPriorityBase + ps[i].dscp : i \in DOMAIN ps}

(* All marking rules go in with one Flush; then rule and route of each policy in
   turn.  The call stops after `done` of those pairs, and then perhaps with the
   next ip rule in place and not its route. *)
Completed_All(ps) == {Len(ps)}

Completed(ps) ==
  {n \in 0..Len(ps) : \A i \in 1..n : WantsRoute(ps[i]) => RouteWorks(ps[i])}

SetupDSCPPolicyRouting(ps) ==
  /\ Call /\ ps # <<>> /\ Valid(ps)
  /\ names' \in {names, writeRtTables(ps)}   \* a failure is not fatal
  /\ \/ /\ marks' = [d \in DSCPs |-> IF \E i \in DOMAIN ps : ps[i].dscp = d THEN marks[d] + 1 ELSE marks[d]]
        /\ connmark' = [c \in DOMAIN connmark |-> connmark[c] + 1]
        /\ \E done \in Completed(ps), half \in BOOLEAN :
             LET ruled == 1..(IF half /\ done < Len(ps) THEN done + 1 ELSE done)
             IN /\ iprules' = iprules \cup {ipRule(ps[i]) : i \in ruled}
                /\ ptables' = [t \in DOMAIN ptables |->
                     IF \E i \in 1..done : ps[i].table = t /\ WantsRoute(ps[i]) /\ RouteWorks(ps[i])
                     THEN LET p == ps[CHOOSE i \in 1..done : ps[i].table = t]
                          IN [gw |-> p.gateway, dev |-> p.device]
                     ELSE ptables[t]]
                /\ setUp' = IF done = Len(ps) THEN ps ELSE <<>>
     \/ UNCHANGED <<marks, connmark, iprules, ptables, setUp>>          \* the Flush failed
  /\ UNCHANGED <<main, addrs, links>>

(* An empty list, or one that is not valid, changes nothing. *)
SetupRefused(ps) ==
  /\ Call /\ (ps = <<>> \/ ~Valid(ps))
  /\ UNCHANGED <<marks, connmark, iprules, ptables, names, main, addrs, links, setUp>>

(* TeardownDSCPPolicyRouting: the table goes, or its Flush fails and the ip
   rules are cleaned up all the same; a listing that fails ends the call, and
   a rule that cannot be deleted stays.  The routes stay. *)
TeardownDSCPPolicyRouting ==
  /\ Call
  /\ \/ marks' = [d \in DSCPs |-> 0] /\ connmark' = [c \in DOMAIN connmark |-> 0]
     \/ UNCHANGED <<marks, connmark>>
  /\ \E kept \in SUBSET iprules :
       iprules' = {r \in iprules : shouldCleanupDSCPRule(r) => r \in kept}
  /\ setUp' = <<>>
  /\ UNCHANGED <<ptables, names, main, addrs, links>>

(* NetlinkRouter.SetECMPRoute: every nexthop resolves, or nothing is installed;
   netlink counts a weight's extra hops. *)
Hops(w) == (IF w < 1 THEN 1 ELSE w) - 1

SetECMPRoute(hops) ==
  /\ Call
  /\ \/ /\ hops # <<>> /\ \A i \in DOMAIN hops : hops[i].dev \in links /\ hops[i].via = 4
        /\ main' = {[dev |-> hops[i].dev, hops |-> Hops(hops[i].weight)] : i \in DOMAIN hops}
     \/ UNCHANGED main
  /\ UNCHANGED <<marks, connmark, iprules, ptables, names, addrs, links, setUp>>

(* RouteAdd fails on an existing route; RouteReplace and
   RouteReplaceLinkWithSrc overwrite it. *)
RouteAdd(dev) ==
  /\ Call
  /\ \/ main = {} /\ dev \in links /\ main' = {[dev |-> dev, hops |-> 0]}
     \/ UNCHANGED main
  /\ UNCHANGED <<marks, connmark, iprules, ptables, names, addrs, links, setUp>>

RouteReplace(dev) ==
  /\ Call
  /\ \/ dev \in links /\ main' = {[dev |-> dev, hops |-> 0]}
     \/ UNCHANGED main
  /\ UNCHANGED <<marks, connmark, iprules, ptables, names, addrs, links, setUp>>

(* RouteDelete, RemoveECMPRoute: an absent route is a success. *)
RouteDelete ==
  /\ Call /\ main' \in {{}, main}
  /\ UNCHANGED <<marks, connmark, iprules, ptables, names, addrs, links, setUp>>

(* NetlinkRouter.AddrAdd: an address that is there already is a success. *)
RouterAddrAdd(l) ==
  /\ Call /\ addrs' \in {addrs} \cup (IF l \in links THEN {[addrs EXCEPT ![l] = TRUE]} ELSE {})
  /\ UNCHANGED <<marks, connmark, iprules, ptables, names, main, links, setUp>>

(* An interface disappears, with its addresses and the routes through it, or
   comes back bare.  The kernel drops a multipath route's dead hop. *)
LinkGone(l) ==
  /\ Call /\ l \in links /\ links' = links \ {l}
  /\ addrs' = [addrs EXCEPT ![l] = FALSE]
  /\ ptables' = [t \in DOMAIN ptables |-> IF ptables[t].dev = l THEN NoRoute ELSE ptables[t]]
  /\ main' = {h \in main : h.dev # l}
  /\ setUp' = <<>>
  /\ UNCHANGED <<marks, connmark, iprules, names>>

LinkBack(l) ==
  /\ Call /\ l \notin links /\ links' = links \cup {l}
  /\ UNCHANGED <<marks, connmark, iprules, ptables, names, main, addrs, setUp>>

PolicyNext ==
  \/ \E ps \in PolicyLists : SetupDSCPPolicyRouting(ps) \/ SetupRefused(ps)
  \/ TeardownDSCPPolicyRouting \/ RouteDelete
  \/ \E hops \in HopLists : SetECMPRoute(hops)
  \/ \E l \in Links : RouteAdd(l) \/ RouteReplace(l) \/ RouterAddrAdd(l) \/ LinkGone(l) \/ LinkBack(l)

PolicySpec == PolicyInit /\ [][PolicyNext]_pvars

-----------------------------------------------------------------------------
(* "This stricter predicate prevents deleting foreign rules": no sequence of
   setups and teardowns removes an ip rule of another program, also one whose
   mark lies in the DSCP range. *)
ForeignRulesKept == ForeignRules \subseteq iprules

(* While the last complete setup stands, each of its policies is routed as a
   whole: packets of its class are marked, their mark selects its table, and the
   table leads through its gateway when one was given.  A setup that stopped in
   the middle, a teardown and a vanished interface end that. *)
PolicyRoutedWhole ==
  \A i \in DOMAIN setUp :
    /\ marks[setUp[i].dscp] > 0
    /\ ipRule(setUp[i]) \in iprules
    /\ WantsRoute(setUp[i]) =>
         ptables[setUp[i].table] = [gw |-> setUp[i].gateway, dev |-> setUp[i].device]

(* A route never names an interface that is gone, and a weight of zero or below
   never becomes a negative hop count, which netlink would cut to 255. *)
HopsSound == \A h \in main : h.dev \in links /\ h.hops >= 0

(* Setups and teardowns keep the rules of other programs, route a policy   *)
(* as a whole, and leave no route the kernel would misread                 *)
(* (SetupDSCPPolicyRouting, TeardownDSCPPolicyRouting, SetECMPRoute).      *)
PolicySafe == PolicyTypeOK /\ ForeignRulesKept /\ PolicyRoutedWhole /\ HopsSound
=============================================================================
