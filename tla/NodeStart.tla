------------------------------ MODULE NodeStart ------------------------------
(***************************************************************************)
(* The start of the node binary (cmd/awg-mesh-node/main.go runCommand): flag *)
(* checks, the two looks at the CA directory when a daemon is built          *)
(* (pkg/control_plane/daemon.go NewDaemon), the two validations of a         *)
(* clientd's configuration (pkg/clientd/command.go), and what the process    *)
(* then opens.  Files may appear or vanish between any two steps.            *)
(*                                                                           *)
(* First what it does to the configuration of its roles before anything      *)
(* runs: the parsing of flags and the normalisation of the ingress,          *)
(* balancer and dual-listener configurations.  Texts are samples; the tables *)
(* say what the string and net functions of Go make of them.  A refused      *)
(* input is Nil.                                                             *)
(***************************************************************************)
EXTENDS Integers, Sequences

CONSTANTS
  Nil,             \* a refused input
  MaxFWMark,       \* bound: stands for 2^32 - 1
  IngressFlags, BalancerFlags, MasterFlags, DaemonFlags, ClientFlags, EgressFlags,
  MaxFileChanges   \* bound: changes of the files

LabelFlag == [cut : BOOLEAN, number : Int, egress : STRING]
EgressFlag == [cut : BOOLEAN, id : STRING, target : STRING, option : STRING, weight : Int]

ASSUME FlagsAssumption ==
  /\ BalancerFlags \subseteq
       [name : STRING, overlay : STRING, mode : STRING, health : Int, egresses : Seq(EgressFlag),
        dscp : Seq(LabelFlag), fwmark : Seq(LabelFlag)]
  /\ ClientFlags \cup EgressFlags \subseteq
       [controlPlane : STRING, name : STRING, overlay : STRING, region : STRING, cert : STRING,
        caCert : STRING, protocol : STRING, iface : STRING, listenPort : Int, endpoint : STRING,
        publicIP : STRING, allowInsecure : BOOLEAN, internet : STRING]

VARIABLES
  mode, dry, flags,  \* the command line
  ca,                \* file -> "no", "yes" or "dir": ca.crt and ca.key
  wgKey,             \* contents of the WireGuard key file
  npc, exit,         \* where runCommand is, and its exit code
  held,              \* the configuration as normalised so far
  labelMap2,         \* labels of the balancer's engine
  secure,            \* credentials chosen for the connection or the listener
  opened,            \* history: network resources were opened
  moved,             \* history: the CA directory changed between the two looks
  changes            \* file changes made

nvars == <<mode, dry, flags, ca, wgKey, npc, exit, held, labelMap2, secure, opened, moved, changes>>
env == <<mode, dry, flags, ca, wgKey, moved, changes>>

-----------------------------------------------------------------------------
(* strings.TrimSpace and strings.ToLower on the samples that change. *)
Trim(s) ==
  IF s = " " THEN "" ELSE IF s = " n " THEN "n" ELSE IF s = " 10.0.0.1 " THEN "10.0.0.1"
  ELSE IF s = " 10.0.0.1:80 " THEN "10.0.0.1:80" ELSE IF s = " Web.example " THEN "Web.example" ELSE s
Lower(s) == IF s = "Web.example" THEN "web.example" ELSE s

(* net.SplitHostPort with strconv.Atoi of the port (-1: not a number), and
   netip.ParseAddr. *)
HostPorts ==
  {<<"10.0.0.1:80", "10.0.0.1", 80>>, <<"10.0.0.1:0", "10.0.0.1", 0>>, <<"10.0.0.1:http", "10.0.0.1", -1>>,
   <<"web:80", "web", 80>>, <<":443", "", 443>>, <<"a/b:443", "a/b", 443>>,
   <<"0.0.0.0:51820", "0.0.0.0", 51820>>, <<"127.0.0.1:51820", "127.0.0.1", 51820>>,
   <<"localhost:51820", "localhost", 51820>>, <<"m1:51820", "m1", 51820>>,
   <<"198.51.100.7:65536", "198.51.100.7", 65536>>, <<"198.51.100.7:51820", "198.51.100.7", 51820>>,
   <<"198.51.100.7:51821", "198.51.100.7", 51821>>}
Texts == {e[1] : e \in HostPorts}
HostPort == [s \in Texts |-> CHOOSE e \in HostPorts : e[1] = s]
Splits(s) == s \in Texts
Host(s) == HostPort[s][2]
Port(s) == HostPort[s][3]
JoinHostPort(h, p) == CHOOSE s \in Texts : HostPort[s] = <<s, h, p>>
IsAddr(s) == s \in {"10.0.0.1", "0.0.0.0", "127.0.0.1", "198.51.100.7"}
MaxPort == 65535
ValidPort(p) == p \in 1..MaxPort

(* validateTarget of pkg/ingress; pkg/balancer has the same in both packages. *)
validateTarget(t) == t # "" /\ Splits(t) /\ IsAddr(Host(t)) /\ ValidPort(Port(t))

-----------------------------------------------------------------------------
(* Ingress. *)

(* The samples that break one of its rules: empty, too long or empty label, dot
   or hyphen at an end, a character outside [a-z0-9-.]. *)
normalizeHostname(h) ==
  LET host == Lower(Trim(h))
  IN IF host \in {"", ".web", "web.", "web..", "-web", "we b"} THEN Nil ELSE host

TLSModes == {"sni_passthrough", "tls_terminate", "tcp_forward", "udp_forward"}
Protocols == {"http", "websocket", "tcp", "udp"}

protocolForMode(m) ==
  CASE m = "udp_forward" -> "udp" [] m \in {"sni_passthrough", "tcp_forward"} -> "tcp"
    [] OTHER -> "http"

NormalizeRoute(r) ==
  LET tlsMode == IF r.mode = "" THEN "tls_terminate" ELSE r.mode
      protocol == IF r.protocol = "" THEN protocolForMode(tlsMode) ELSE r.protocol
      tenant == IF Trim(r.tenant) = "" THEN "default" ELSE Trim(r.tenant)
      host == normalizeHostname(r.hostname)
  IN IF host # Nil /\ validateTarget(Trim(r.target)) /\ tlsMode \in TLSModes /\ protocol \in Protocols
     THEN [hostname |-> host, target |-> Trim(r.target), mode |-> tlsMode, protocol |-> protocol,
           tenant |-> tenant]
     ELSE Nil

NormalizeRoutes(rs) == [i \in DOMAIN rs |-> NormalizeRoute(rs[i])]

(* NewSnapshot: at least one route, and one per hostname. *)
SnapshotAccepts(rs) ==
  LET ns == NormalizeRoutes(rs)
  IN /\ DOMAIN rs # {} /\ \A i \in DOMAIN ns : ns[i] # Nil
     /\ \A i, j \in DOMAIN ns : i # j => ns[i].hostname # ns[j].hostname

validateListenAddress(a) ==
  Trim(a) # "" /\ Splits(a) /\ Host(a) # "a/b" /\ ValidPort(Port(a))

IngressNormalizeConfig(c) ==
  IF /\ Trim(c.name) # "" /\ Trim(c.overlay) # "" /\ IsAddr(Trim(c.overlay))
     /\ validateListenAddress(Trim(c.public)) /\ SnapshotAccepts(c.routes)
     /\ SnapshotAccepts(NormalizeRoutes(c.routes))
  THEN [name |-> Trim(c.name), overlay |-> Trim(c.overlay), public |-> Trim(c.public),
        health |-> IF c.health <= 0 THEN 5 ELSE c.health, routes |-> NormalizeRoutes(c.routes)]
  ELSE Nil

(* buildIngressConfig: every --ingress-route is hostname=target; one without a
   "=" refuses them all. *)
buildIngressConfig(f) ==
  IF \E i \in DOMAIN f.routes : ~f.routes[i].cut THEN Nil
  ELSE [name |-> f.name, overlay |-> f.overlay, public |-> f.public, health |-> f.health,
        routes |-> [i \in DOMAIN f.routes |->
          [hostname |-> f.routes[i].hostname, target |-> f.routes[i].target,
           mode |-> f.mode, protocol |-> f.protocol, tenant |-> f.tenant]]]

-----------------------------------------------------------------------------
(* Balancer. *)
NormalizeEgressTarget(e) ==
  IF Trim(e.id) \notin {"", "a b", "a=b"} /\ validateTarget(Trim(e.target)) /\ e.weight > 0
  THEN [id |-> Trim(e.id), target |-> Trim(e.target), weight |-> e.weight]
  ELSE Nil

NormalizeLabelMapping(l) ==
  IF /\ l.type \in {"dscp", "fwmark"} /\ l.value > 0 /\ Trim(l.egress) # ""
     /\ l.type = "dscp" => l.value <= 63
     /\ l.type = "fwmark" => l.value <= MaxFWMark
  THEN [type |-> l.type, value |-> l.value, egress |-> Trim(l.egress)]
  ELSE Nil

egressesAccepted(es) ==
  LET ns == [i \in DOMAIN es |-> NormalizeEgressTarget(es[i])]
  IN /\ DOMAIN es # {} /\ \A i \in DOMAIN ns : ns[i] # Nil
     /\ \A i, j \in DOMAIN ns : i # j => ns[i].id # ns[j].id

(* normalizeLabels: labels name known egresses, each (type, value) once. *)
labelsAccepted(ls, es) ==
  LET ns == [i \in DOMAIN ls |-> NormalizeLabelMapping(ls[i])]
  IN /\ \A i \in DOMAIN ns : ns[i] # Nil /\ \E k \in DOMAIN es : Trim(es[k].id) = ns[i].egress
     /\ \A i, j \in DOMAIN ns : i # j => <<ns[i].type, ns[i].value>> # <<ns[j].type, ns[j].value>>

BalancerNormalizeConfig(c) ==
  IF /\ Trim(c.name) # "" /\ Trim(c.overlay) # "" /\ IsAddr(Trim(c.overlay))
     /\ c.mode \in {"", "dumb", "labeled"}
     /\ egressesAccepted(c.egresses) /\ labelsAccepted(c.labels, c.egresses)
  THEN [name |-> Trim(c.name), overlay |-> Trim(c.overlay), mode |-> IF c.mode = "" THEN "dumb" ELSE c.mode,
        egresses |-> [i \in DOMAIN c.egresses |-> NormalizeEgressTarget(c.egresses[i])],
        labels |-> [i \in DOMAIN c.labels |-> NormalizeLabelMapping(c.labels[i])],
        health |-> IF c.health <= 0 THEN 5 ELSE c.health]
  ELSE Nil

(* parseBalancerEgress: id=target[,weight=N]; the weight defaults to 1.
   parseBalancerLabel: number=egress; -1 stands for a number that does not parse. *)
parseBalancerEgress(v) ==
  IF v.cut /\ Trim(v.target) # "" /\ v.option \in {"", "weight"}
  THEN [id |-> v.id, target |-> Trim(v.target), weight |-> IF v.option = "" THEN 1 ELSE v.weight]
  ELSE Nil

parseBalancerLabel(type, v) ==
  IF v.cut /\ v.number # -1
  THEN [type |-> type, value |-> v.number, egress |-> Trim(v.egress)] ELSE Nil

buildBalancerConfig(f) ==
  LET es == [i \in DOMAIN f.egresses |-> parseBalancerEgress(f.egresses[i])]
      ls == [i \in DOMAIN f.dscp |-> parseBalancerLabel("dscp", f.dscp[i])]
              \o [i \in DOMAIN f.fwmark |-> parseBalancerLabel("fwmark", f.fwmark[i])]
  IN IF (\A i \in DOMAIN es : es[i] # Nil) /\ (\A i \in DOMAIN ls : ls[i] # Nil)
     THEN [name |-> f.name, overlay |-> f.overlay, mode |-> f.mode, egresses |-> es,
           labels |-> ls, health |-> f.health]
     ELSE Nil

-----------------------------------------------------------------------------
(* Dual listener of the master role. *)
normalizeDualListenerConfig(c) ==
  [c EXCEPT !.clientIface = IF @ = "" THEN "wg-clients" ELSE @,
            !.meshIface = IF @ = "" THEN "wg-mesh" ELSE @,
            !.clientPort = IF @ = 0 THEN 51820 ELSE @, !.meshPort = IF @ = 0 THEN 51821 ELSE @]

ValidateInterfaceName(n) == n \notin {"", "a..b", "a/b"}

validateDualListenerConfig(c) ==
  /\ ValidateInterfaceName(c.clientIface) /\ ValidateInterfaceName(c.meshIface)
  /\ c.clientIface # c.meshIface
  /\ ValidPort(c.clientPort) /\ ValidPort(c.meshPort) /\ c.clientPort # c.meshPort

NewDualListener(c) ==
  LET n == normalizeDualListenerConfig(c) IN IF validateDualListenerConfig(n) THEN n ELSE Nil

(* parseMasterClientPeers: --client-peer is key=cidr[,cidr]; empty parts are
   skipped, and at least one network is left. *)
parseAllowedCIDRs(parts) ==
  (\A i \in DOMAIN parts : parts[i] # "bad") /\ \E i \in DOMAIN parts : Trim(parts[i]) # ""

parseMasterClientPeers(peers) ==
  \A i \in DOMAIN peers : peers[i].cut /\ peers[i].key # "bad" /\ parseAllowedCIDRs(peers[i].allowed)

(* advertisedMeshEndpoint: the explicit endpoint, or public IP and listen port. *)
validateEndpointAddress(e) == Splits(e) /\ Trim(Host(e)) # "" /\ ValidPort(Port(e))

advertisedMeshEndpoint(explicit, publicIP, port) ==
  IF Trim(explicit) # "" THEN IF validateEndpointAddress(Trim(explicit)) THEN Trim(explicit) ELSE Nil
  ELSE IF Trim(publicIP) = "" THEN ""
  ELSE IF Splits(Trim(publicIP)) \/ Trim(publicIP) = "[]" \/ ~ValidPort(port) THEN Nil
  ELSE JoinHostPort(Trim(publicIP), port)

-----------------------------------------------------------------------------
supportedModes ==
  {"control-plane", "master", "endpoint", "client", "clientd", "egress", "ingress", "balancer"}

FlagsFor(m) ==
  CASE m = "ingress" -> IngressFlags [] m = "balancer" -> BalancerFlags
    [] m = "master" -> MasterFlags [] m = "control-plane" -> DaemonFlags
    [] m \in {"client", "clientd"} -> ClientFlags
    [] m \in {"endpoint", "egress"} -> EgressFlags [] OTHER -> {Nil}

NodeTypeOK ==
  /\ npc \in {"start", "secondLook", "planned", "validated", "running", "done"}
  /\ exit \in {-1, 0, 1, 2} /\ (exit # -1 <=> npc = "done")
  /\ secure \in {"none", "insecure", "mtls"} /\ opened \in BOOLEAN

NodeInit ==
  /\ mode \in supportedModes \cup {"", "router"} /\ dry \in BOOLEAN /\ flags \in FlagsFor(mode)
  /\ ca \in [{"crt", "key"} -> {"no", "yes", "dir"}] /\ wgKey \in {"good", "zero", "garbage", "absent"}
  /\ npc = "start" /\ exit = -1 /\ held = Nil /\ labelMap2 = <<>>
  /\ secure = "none" /\ opened = FALSE /\ moved = FALSE /\ changes = 0

Exit(code) == npc' = "done" /\ exit' = code
Goes(pc) == npc' = pc /\ UNCHANGED exit

(* runCommand: an empty or unknown mode. *)
runCommand ==
  /\ npc = "start" /\ mode \notin supportedModes /\ Exit(2)
  /\ UNCHANGED <<env, held, labelMap2, secure, opened>>

-----------------------------------------------------------------------------
(* Ingress and balancer: NewRuntime normalises the parsed configuration, plans
   it and builds registry or engine from it. *)
startIngress ==
  /\ npc = "start" /\ mode = "ingress"
  /\ LET c == buildIngressConfig(flags)
         n == IF c = Nil THEN Nil ELSE IngressNormalizeConfig(c)
     IN IF n = Nil THEN Exit(2) /\ UNCHANGED held ELSE Goes("planned") /\ held' = n
  /\ UNCHANGED <<env, labelMap2, secure, opened>>

(* NewEngine: a map from (type, value) to egress; the last label wins. *)
LabelMap(ls) ==
  [k \in {<<ls[i].type, ls[i].value>> : i \in DOMAIN ls} |->
     ls[CHOOSE i \in DOMAIN ls :
          /\ <<ls[i].type, ls[i].value>> = k
          /\ \A j \in DOMAIN ls : <<ls[j].type, ls[j].value>> = k => j <= i].egress]

startBalancer ==
  /\ npc = "start" /\ mode = "balancer"
  /\ LET c == buildBalancerConfig(flags)
         n == IF c = Nil THEN Nil ELSE BalancerNormalizeConfig(c)
     IN IF n = Nil THEN Exit(2) /\ UNCHANGED <<held, labelMap2>>
        ELSE Goes("planned") /\ held' = n /\ labelMap2' = LabelMap(n.labels)
  /\ UNCHANGED <<env, secure, opened>>

-----------------------------------------------------------------------------
(* Daemon: the control-plane mode and the coordination of a master. *)
IsDir == "dir" \in {ca["crt"], ca["key"]}
CompleteCA == ca["crt"] = "yes" /\ ca["key"] = "yes"
AnyCA == "yes" \in {ca["crt"], ca["key"]}

IsLoopback(host) == host \in {"localhost", "127.0.0.1"}

(* validateListenAddr: without leave to be public the host is a loopback name or
   address; an empty host is every address. *)
validateListenAddr(addr, allowed) == allowed \/ (Splits(addr) /\ IsLoopback(Host(addr)))

(* NewDaemon's first look decides whether the address may be public. *)
FirstLookPasses(f) ==
  f.listen # "" /\ f.stateDir # "" /\ ~IsDir /\ validateListenAddr(f.listen, f.insecure \/ CompleteCA)

(* configureDaemonCertLifecycle looks again: mTLS with a complete CA, nothing
   without any in the state directory, an error otherwise. *)
configureDaemonCertLifecycle(f) ==
  IF IsDir THEN {Nil}
  ELSE IF CompleteCA THEN {"mtls", Nil}
  ELSE IF f.caDir = "" /\ ~AnyCA THEN {"insecure"} ELSE {Nil}

secondLook ==
  /\ npc = "secondLook"
  /\ \E kind \in configureDaemonCertLifecycle(held) :
       IF kind = Nil THEN Exit(IF mode = "master" THEN 2 ELSE 1) /\ UNCHANGED <<secure, opened>>
       ELSE /\ secure' = kind
            /\ IF mode = "master" THEN Goes("planned") /\ UNCHANGED opened
               ELSE Goes("running") /\ opened' = TRUE   \* runControlPlane has no dry run
  /\ UNCHANGED <<env, held, labelMap2>>

startControlPlane ==
  /\ npc = "start" /\ mode = "control-plane"
  /\ IF FirstLookPasses(flags) THEN Goes("secondLook") /\ held' = flags
     ELSE Exit(1) /\ UNCHANGED held
  /\ UNCHANGED <<env, labelMap2, secure, opened>>

(* Master: key files, static peers, coordination flags, endpoint, NewMaster. *)
loadOptionalWGPrivateKey(path) == Trim(path) = "" \/ wgKey = "good"

buildMasterCoordinationConfig(f) ==
  IF Trim(f.listen) = ""
  THEN IF Trim(f.stateDir) # "" \/ Trim(f.caDir) # "" \/ f.insecure THEN Nil ELSE "off"
  ELSE IF Trim(f.stateDir) = "" THEN Nil ELSE "on"

parseMasterOverlayAddress(o) == IsAddr(Trim(o))

validateAdvertisedMeshEndpoint(e) == e # "" /\ validateEndpointAddress(e)

startMaster ==
  /\ npc = "start" /\ mode = "master"
  /\ LET coordination == buildMasterCoordinationConfig(flags)
         endpoint == advertisedMeshEndpoint(flags.endpoint, flags.publicIP, flags.meshPort)
         listener == NewDualListener(flags)
     IN IF /\ loadOptionalWGPrivateKey(flags.keyFile) /\ parseMasterClientPeers(flags.peers)
           /\ coordination # Nil /\ endpoint # Nil
           /\ Trim(flags.name) # "" /\ parseMasterOverlayAddress(flags.overlay)
           /\ coordination = "on" => validateAdvertisedMeshEndpoint(endpoint)
           /\ listener # Nil
           /\ coordination = "on" => FirstLookPasses(flags)
        THEN Goes(IF coordination = "on" THEN "secondLook" ELSE "planned") /\ held' = listener
        ELSE Exit(2) /\ UNCHANGED held
  /\ UNCHANGED <<env, labelMap2, secure, opened>>

(* runMaster, runIngress, runBalancer: a dry run prints the plan and ends. *)
Planned(m) ==
  /\ npc = "planned" /\ mode = m
  /\ IF dry THEN Exit(0) /\ UNCHANGED opened ELSE Goes("running") /\ opened' = TRUE
  /\ UNCHANGED <<env, held, labelMap2, secure>>

runMaster == Planned("master")
runIngress == Planned("ingress")
runBalancer == Planned("balancer")

-----------------------------------------------------------------------------
(* clientd, alone or as the agent of an egress: ValidateCommandConfig fills in
   the CA path when the CA file is there, and refuses an insecure target that is
   neither loopback nor allowed. *)
isLoopbackControlPlaneTarget(t) == Splits(t) /\ IsLoopback(Host(t))

(* The CA of a node whose certificate is <dir>/nodes/<name>/node.crt. *)
defaultCACertPath(cert) == IF cert = "nodes/n/node.crt" THEN "ca.crt" ELSE ""

regularFile(path) == path = "ca.crt" /\ ca["crt"] = "yes"

WithPaths(c, caPath, endpoint) == [c EXCEPT !.caCert = caPath, !.endpoint = endpoint]

ValidateCommandConfig(c) ==
  LET caPath == IF Trim(c.caCert) = "" /\ regularFile(defaultCACertPath(c.cert))
                THEN defaultCACertPath(c.cert) ELSE c.caCert
  IN IF /\ Trim(c.controlPlane) # "" /\ Trim(c.name) # "" /\ Trim(c.overlay) # "" /\ Trim(c.region) # ""
        /\ Trim(c.cert) # ""
        /\ c.protocol \in {"vanilla-wg", "amneziawg"}
        /\ ValidateInterfaceName(c.iface) /\ c.listenPort \in 0..MaxPort
        /\ Trim(c.endpoint) = "" \/ Splits(Trim(c.endpoint))
        /\ Trim(caPath) # "" \/ c.allowInsecure \/ isLoopbackControlPlaneTarget(c.controlPlane)
     THEN WithPaths(c, caPath, Trim(c.endpoint))
     ELSE Nil

(* The clientd configuration of runCommand.  The client modes pass a listen port
   only when positive, so zero becomes the default. *)
ClientdConfig(f) ==
  LET endpoint == advertisedMeshEndpoint(f.endpoint, f.publicIP, f.listenPort)
  IN IF endpoint = Nil THEN Nil
     ELSE [f EXCEPT !.endpoint = endpoint,
                    !.listenPort = IF mode \in {"client", "clientd"} /\ f.listenPort <= 0 THEN 51821 ELSE f.listenPort]

(* The first validation: RunCommand parses, runEgress checks the egress and then
   the agent's configuration.  Only the egress has a dry run, before it. *)
startClient ==
  /\ npc = "start" /\ mode \in {"client", "clientd"}
  /\ LET c == ClientdConfig(flags)
         v == IF c = Nil THEN Nil ELSE ValidateCommandConfig(c)
     IN IF v = Nil THEN Exit(2) /\ UNCHANGED held ELSE Goes("validated") /\ held' = v
  /\ UNCHANGED <<env, labelMap2, secure, opened>>

(* The internet interface is named and is not a mesh interface. *)
normalizeInternetInterface(i) == Trim(i) \notin {"", "a/b", "wg-mesh"}

NewEgress(f) == Trim(f.name) # "" /\ IsAddr(f.overlay) /\ normalizeInternetInterface(f.internet)

startEgress ==
  /\ npc = "start" /\ mode \in {"endpoint", "egress"}
  /\ IF ClientdConfig(flags) = Nil \/ ~NewEgress(flags) THEN Exit(2) /\ UNCHANGED held
     ELSE IF dry THEN Exit(0) /\ UNCHANGED held
     ELSE LET v == ValidateCommandConfig(ClientdConfig(flags))
          IN IF v = Nil THEN Exit(2) /\ UNCHANGED held ELSE Goes("validated") /\ held' = v
  /\ UNCHANGED <<env, labelMap2, secure, opened>>

(* controlPlaneTransportCredentials: the validated path decides. *)
Credentials_ByFile(c) == IF ca["crt"] # "yes" THEN {"insecure"} ELSE {"mtls", Nil}

Credentials(c) ==
  IF Trim(c.caCert) = "" THEN {"insecure"}
  ELSE IF ca["crt"] = "yes" THEN {"mtls", Nil} ELSE {Nil}

loadWireGuardPrivateKey == wgKey = "good"

parseOverlayAddress(o) == IsAddr(Trim(o))

(* runWithConfig: validation again, credentials, key, overlay address, dial. *)
runWithConfig ==
  /\ npc = "validated"
  /\ LET v == ValidateCommandConfig(held)
     IN \E kind \in IF v = Nil THEN {Nil} ELSE Credentials(v) :
          IF kind = Nil \/ ~loadWireGuardPrivateKey \/ ~parseOverlayAddress(v.overlay)
          THEN Exit(1) /\ UNCHANGED <<held, secure, opened>>
          ELSE Goes("running") /\ held' = v /\ secure' = kind /\ opened' = TRUE
  /\ UNCHANGED <<env, labelMap2>>

(* A file appears, vanishes or is replaced by a directory. *)
changeFiles ==
  /\ changes < MaxFileChanges /\ npc \notin {"running", "done"}
  /\ \E f \in {"crt", "key"}, s \in {"no", "yes", "dir"} : s # ca[f] /\ ca' = [ca EXCEPT ![f] = s]
  /\ moved' = (moved \/ npc = "secondLook") /\ changes' = changes + 1
  /\ UNCHANGED <<mode, dry, flags, wgKey, npc, exit, held, labelMap2, secure, opened>>

NodeNext ==
  \/ runCommand \/ startIngress \/ startBalancer \/ startControlPlane \/ startMaster \/ startClient
  \/ startEgress \/ secondLook \/ runMaster \/ runIngress \/ runBalancer \/ runWithConfig \/ changeFiles

NodeSpec == NodeInit /\ [][NodeNext]_nvars

-----------------------------------------------------------------------------
(* A configuration NewRuntime accepted is a fixed point of the normalisation:
   PlanConfig, NewRegistry and NewEngine normalise it again, and none of them
   may refuse it or change what the plan printed. *)
NormalizedIsFixed ==
  (held # Nil /\ npc \in {"planned", "running"}) =>
    /\ mode = "ingress" => IngressNormalizeConfig(held) = held
    /\ mode = "balancer" => BalancerNormalizeConfig(held) = held

(* The engine's label map sends every label of the accepted configuration to the
   egress the plan shows for it: no later label overrides it. *)
LabelsAgree ==
  (mode = "balancer" /\ held # Nil) =>
    \A i \in DOMAIN held.labels :
      labelMap2[<<held.labels[i].type, held.labels[i].value>>] = held.labels[i].egress

(* The two listeners of a master that starts have different interfaces and
   different ports, also where a default met an explicit value. *)
ListenersDistinct ==
  (mode = "master" /\ npc \in {"planned", "running"}) =>
    /\ held.clientIface # held.meshIface /\ held.clientPort # held.meshPort
    /\ ValidPort(held.clientPort) /\ ValidPort(held.meshPort)

(* A clientd or egress that dials without TLS has a loopback target or
   --allow-insecure-control-plane, whatever happened to the CA file between the
   two validations and the loading of credentials. *)
DialSecured ==
  (npc = "running" /\ mode \in {"client", "clientd", "egress", "endpoint"} /\ secure = "insecure") =>
    flags.allowInsecure \/ isLoopbackControlPlaneTarget(flags.controlPlane)

(* A daemon that listens without mTLS is bound to loopback or has leave to be
   public, unless the CA directory changed between NewDaemon's two looks. *)
BindSecured ==
  (npc = "running" /\ mode \in {"control-plane", "master"} /\ secure = "insecure") =>
    moved \/ flags.insecure \/ (Splits(flags.listen) /\ IsLoopback(Host(flags.listen)))

(* "validate selected mode and print runtime plan without opening network
   resources" (the --dry-run flag).  The code does not keep this for the roles
   without a dry run, control plane and client. *)
DryRunOpensNothing == dry => ~opened

(* What a role that starts relies on: its configuration stays as it was    *)
(* accepted, its listeners do not collide, and it neither dials nor        *)
(* listens unsecured without leave (runCommand and the start functions).   *)
StartSafe ==
  /\ NodeTypeOK /\ NormalizedIsFixed /\ LabelsAgree /\ ListenersDistinct
  /\ DialSecured /\ BindSecured
=============================================================================
