------------------------------- MODULE MCNode -------------------------------
(***************************************************************************)
(* One node: how its command line becomes a running role, and what the     *)
(* role does to the host: peers on the device through the coordinator's    *)
(* lists, the WireGuard socket and configuration file, firewall rules,     *)
(* policy routing, and the choice of an egress for each flow.              *)
(*                                                                         *)
(* They share no state. A behaviour runs one of them, named by part, and   *)
(* the others stay in an initial state, so that the state space is the sum *)
(* of theirs.                                                              *)
(***************************************************************************)
EXTENDS PeerReload, PolicyRouting, Firewall, NodeStart, Balancer, TLC

CONSTANTS
  MaxOps  \* WgDevice

VARIABLES
  part,
  itf, tun, listener, dev, op, wire, asked, before, acc, file, answer,
  parsed, ops

(* Command lines of every role: an accepted one and single faults around it. *)
Cut(h, t) == [cut |-> TRUE, hostname |-> h, target |-> t]
AnIngress ==
  [name |-> " n ", overlay |-> " 10.0.0.1 ", public |-> ":443", health |-> 0, mode |-> "", protocol |-> "",
   routes |-> <<Cut(" Web.example ", " 10.0.0.1:80 ")>>, tenant |-> " "]
Ingresses ==
  {[AnIngress EXCEPT !.name = n] : n \in {" ", "n"}}
    \cup {[AnIngress EXCEPT !.overlay = o] : o \in {"", "bad"}}
    \cup {[AnIngress EXCEPT !.public = a] : a \in {"", "a/b:443", "10.0.0.1:0", "m1:51820"}}
    \cup {[AnIngress EXCEPT !.health = h, !.protocol = q, !.mode = m] :
            h \in {0, 3}, q \in {"", "udp", "x"}, m \in {"", "udp_forward", "sni_passthrough", "x"}}
    \cup {[AnIngress EXCEPT !.routes = rs] :
            rs \in {<<>>, <<[cut |-> FALSE, hostname |-> "web", target |-> ""]>>}
               \cup {<<Cut(h, t)>> : h \in {"web", "web.", "web..", "-web", " "},
                                     t \in {"10.0.0.1:80", "web:80", "10.0.0.1:http"}}
               \cup {<<Cut("web", "10.0.0.1:80"), Cut(h, "10.0.0.1:80")>> :
                        h \in {"web", "web..", "Web.example"}}}
Egress(i, t, o, w) == [cut |-> TRUE, id |-> i, target |-> t, option |-> o, weight |-> w]
Label(n, e) == [cut |-> TRUE, number |-> n, egress |-> e]
ABalancer ==
  [name |-> "n", overlay |-> " 10.0.0.1 ", mode |-> "labeled", health |-> 3, dscp |-> <<>>, fwmark |-> <<>>,
   egresses |-> <<Egress("a", "10.0.0.1:80", "weight", 2), Egress(" n ", " 10.0.0.1:80 ", "", 0)>>]
Balancers ==
  {[ABalancer EXCEPT !.mode = m, !.health = h] : m \in {"", "labeled", "x"}, h \in {-1, 3}}
    \cup {[ABalancer EXCEPT !.egresses = es] :
            es \in {<<>>, <<Egress("n", "10.0.0.1:80", "", 0), Egress(" n ", "10.0.0.1:80", "", 0)>>,
                    <<Egress("a", "10.0.0.1:80", "weight", 0)>>, <<Egress("a", "10.0.0.1:80", "size", 1)>>}}
    \cup {[ABalancer EXCEPT !.dscp = d, !.fwmark = f] :
            d \in {<<>>, <<Label(63, "a")>>, <<Label(1, "a"), Label(1, " n ")>>, <<Label(64, "a")>>,
                   <<Label(-1, "a")>>},
            f \in {<<>>, <<Label(1, "n"), Label(MaxFWMark, "a")>>, <<Label(MaxFWMark + 1, "a")>>}}
Daemons ==
  [listen : {"", ":443", "127.0.0.1:51820", "m1:51820", "0.0.0.0:51820"}, stateDir : {"", "st"},
   caDir : {"", "ca"}, insecure : BOOLEAN]
Peer(k, a) == [cut |-> TRUE, key |-> k, allowed |-> a]
AMaster ==
  [listen |-> ":443", stateDir |-> "st", caDir |-> "", insecure |-> FALSE, keyFile |-> "k",
   peers |-> <<Peer("k", <<"", "10/8">>)>>, endpoint |-> "", publicIP |-> "198.51.100.7", name |-> "n",
   overlay |-> "10.0.0.1", clientIface |-> "", meshIface |-> "m", clientPort |-> 0, meshPort |-> 51821]
Masters ==
  {[AMaster EXCEPT !.listen = d.listen, !.stateDir = d.stateDir, !.caDir = d.caDir, !.insecure = d.insecure] :
     d \in Daemons}
    \cup {[AMaster EXCEPT !.peers = ps] :
            ps \in {<<>>, <<Peer("bad", <<"10/8">>)>>, <<Peer("k", <<"">>)>>, <<Peer("k", <<"bad">>)>>}}
    \cup {[AMaster EXCEPT !.endpoint = e, !.publicIP = q, !.meshPort = x] :
            e \in {"", "198.51.100.7:51821", "198.51.100.7:65536"},
            q \in {"", "198.51.100.7", "[]", "m1:51820"}, x \in {0, 51821}}
    \cup {[AMaster EXCEPT !.endpoint = "198.51.100.7:51821", !.clientIface = a, !.meshIface = b,
                          !.clientPort = x, !.meshPort = y] :
            a \in {"", "wg-mesh"}, b \in {"", "wg-clients", "a/b"}, x \in {0, 51821}, y \in {0, 51820}}
AClient ==
  [controlPlane |-> "m1:51820", name |-> "n", overlay |-> "10.0.0.1", region |-> "r",
   cert |-> "nodes/n/node.crt", caCert |-> "", protocol |-> "amneziawg", iface |-> "w", listenPort |-> 51821,
   endpoint |-> "", publicIP |-> "", allowInsecure |-> FALSE, internet |-> "eth0"]
ClientNodes ==
  {[AClient EXCEPT !.controlPlane = t, !.cert = k, !.caCert = c, !.allowInsecure = a] :
     t \in {"", "m1:51820", "127.0.0.1:51820"}, k \in {"", "n.crt", "nodes/n/node.crt"}, c \in {"", "ca.crt"},
     a \in BOOLEAN}
    \cup {[AClient EXCEPT !.listenPort = p, !.publicIP = q] :
            p \in {-1, 0, 51821, 65536}, q \in {"", "198.51.100.7"}}
    \cup {[AClient EXCEPT !.overlay = "bad"], [AClient EXCEPT !.internet = "wg-mesh"],
          [AClient EXCEPT !.iface = "a..b"]}

(* Two egresses with different weights; a list that moves one to another
   address, and one that is refused.  Labels for both kinds of marks. *)
E1(t) == [id |-> "a", target |-> t, weight |-> 2]
E2 == [id |-> "b", target |-> 1, weight |-> 1]
ThreeEgresses == {E1(1), E1(2), E2}
ThreeEgressLists == {<<E1(1), E2>>, <<E2, E1(2)>>, <<E2, E2>>}
BothModes == {"dumb", "labeled"}
BothLabels == {(<<"dscp", 1>> :> "a") @@ (<<"fwmark", 1>> :> "b")}
TwoRequests ==
  {[flow |-> "f", dscp |-> 1, fwmark |-> 0], [flow |-> "", dscp |-> 0, fwmark |-> 1]}

(* Lists whose peers overlap in prefixes, without a key, in another role and
   with a flaw. *)
Entry(k, r, f, a) == [key |-> k, role |-> r, flawed |-> f, allowed |-> a]
FourLists ==
  {<<Entry("k1", "master", FALSE, {Own, "p1"})>>,
   <<Entry("k2", "", FALSE, {"p1", "p2"}), Entry("", "master", FALSE, {"p3"})>>,
   <<Entry("k1", "master", FALSE, {"p3"}), Entry("k2", "client", FALSE, {"p2"})>>,
   <<Entry("k1", "master", TRUE, {"p1"})>>}

(* Two ranges at one network address. *)
TwoIfaces == {"eth0", "wg-m1"}
TwoRanges == [ip : {1}, mask : {16, 24}]

(* Accepted and refused policies, and foreign rules that resemble their rules. *)
Marked(d, g, v) == [dscp |-> d, fwmark |-> d, table |-> 100 + d, gateway |-> g, device |-> v]
FivePolicies ==
  {<<Marked(1, 1, "wg0"), Marked(63, 2, "wg1")>>, <<Marked(63, 0, "")>>,
   <<Marked(1, 1, "wg1"), Marked(2, -1, "wg0")>>, <<Marked(1, 1, "wg0"), Marked(1, 2, "wg0")>>,
   <<Marked(0, 1, "wg0")>>}
TwoForeignRules ==
  {[mark |-> 1, table |-> 254, priority |-> 101], [mark |-> 64, table |-> 164, priority |-> 164]}
Hop(d, v, w) == [dev |-> d, via |-> v, weight |-> w]
ThreeHopLists == {<<>>, <<Hop("wg0", 4, 0), Hop("wg1", 4, 3)>>, <<Hop("wg0", 6, 1)>>}

(* Sets that replace everything, add, remove, update only, and one whose second
   peer has no key. *)
WgPeer(k, r, u, ka, rep, al) ==
  [key |-> k, psk |-> IF ka = Nil THEN Nil ELSE "s", keepalive |-> ka, allowed |-> al, remove |-> r,
   updateOnly |-> u, replaceAllowed |-> rep]
WgConfig(key, port, rp, awg, ps) ==
  [key |-> key, port |-> port, mark |-> port, awg |-> awg, s3 |-> awg, replacePeers |-> rp, peers |-> ps]
WgConfigs ==
  {WgConfig("s1", 1, TRUE, 3, <<WgPeer("k1", FALSE, FALSE, 25500, TRUE, <<"10.0.0.1/8">>),
                                WgPeer("k2", FALSE, FALSE, Nil, TRUE, <<"10.0.0.0/8", "10.1.0.0/16">>)>>),
   WgConfig(Nil, Nil, FALSE, Nil, <<WgPeer("k1", FALSE, FALSE, Nil, FALSE, <<"10.1.0.0/16">>)>>),
   WgConfig("s2", 0, FALSE, Nil, <<WgPeer("k1", TRUE, FALSE, Nil, FALSE, <<>>),
                                   WgPeer("k2", FALSE, TRUE, 1000, TRUE, <<"10.1.0.0/16">>)>>),
   WgConfig("s1", 1, TRUE, Nil, <<WgPeer("k2", FALSE, FALSE, Nil, TRUE, <<>>),
                                  WgPeer("zero", FALSE, FALSE, Nil, TRUE, <<>>),
                                  WgPeer("k1", FALSE, FALSE, Nil, TRUE, <<>>)>>)}

Wg == INSTANCE WgDevice WITH Configs <- WgConfigs

wgVars == <<itf, tun, listener, dev, op, wire, asked, before, acc, file,
            answer, parsed, ops>>
allVars == <<part, nvars, lbvars, rvars, fvars, pvars,
             wgVars>>

HostInit ==
  /\ part \in {"start", "balancer", "reload", "firewall", "policy", "device"}
  /\ NodeInit /\ (part # "start" => mode = "" /\ dry /\ wgKey = "good" /\ ca["crt"] = "no" /\ ca["key"] = "no")
  /\ NewEngine /\ (part # "balancer" => lbMode = "dumb" /\ current[1].id = "a")
  /\ ReloadInit
  /\ FirewallInit
  /\ PolicyInit
  /\ Wg!WgInit

StartStep ==
  part = "start" /\ NodeNext /\ UNCHANGED <<part, lbvars, rvars, fvars, pvars, wgVars>>
BalancerStep ==
  part = "balancer" /\ BalancerNext /\ UNCHANGED <<part, nvars, rvars, fvars, pvars, wgVars>>
ReloadStep ==
  part = "reload" /\ ReloadNext /\ UNCHANGED <<part, nvars, lbvars, fvars, pvars, wgVars>>
FirewallStep ==
  part = "firewall" /\ FirewallNext /\ UNCHANGED <<part, nvars, lbvars, rvars, pvars, wgVars>>
PolicyStep ==
  part = "policy" /\ PolicyNext /\ UNCHANGED <<part, nvars, lbvars, rvars, fvars, wgVars>>
DeviceStep ==
  part = "device" /\ Wg!WgNext /\ UNCHANGED <<part, nvars, lbvars, rvars, fvars, pvars>>

HostNext == StartStep \/ BalancerStep \/ ReloadStep \/ FirewallStep \/
  PolicyStep \/ DeviceStep

HostSpec == HostInit /\ [][HostNext]_allVars

-----------------------------------------------------------------------------
(* The properties of the parts, under the names they have there; those of  *)
(* PeerReload, PolicyRouting, Firewall, NodeStart and Balancer are         *)
(* inherited.                                                              *)

(* The conversation with a device and its file loses nothing on the way:   *)
(* what is set is on the device, what is read is what it has, what is      *)
(* saved can be loaded, and an interface that failed or was closed leaves  *)
(* nothing behind (pkg/wg).                                                *)
WgSafe == Wg!WgSafe
=============================================================================
