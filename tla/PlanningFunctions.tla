-------------------------- MODULE PlanningFunctions -------------------------
(***************************************************************************)
(* The pure functions of the topology (pkg/topology: ranges.go,            *)
(* validate.go, allowedips.go, topology_v2.go, migrate.go and              *)
(* migrate_v1_to_v2.go), of an upgrade, the order and the plan             *)
(* (pkg/upgrade/plan.go, cmd/mesh-ctl/cmd/upgrade.go), and of the          *)
(* migration of old compose files (pkg/upgrade/compose_migrate.go), each   *)
(* against a reference definition.                                         *)
(*                                                                         *)
(* Names and regions are numbers, ordered as the strings are.  A compose   *)
(* file is what its readers find in it: env and flags map a key to a value *)
(* or NoText, style tells how the environment is written, command how the  *)
(* command block is.  call is one call: the function, its arguments and    *)
(* its answer.  Every behaviour makes one call, from the sets of arguments *)
(* below.                                                                  *)
(***************************************************************************)
EXTENDS Topology, FiniteSets, SequencesExt, FiniteSetsExt

CONSTANTS
  UsedSets,    \* addresses taken before AllocateIP
  Texts,       \* addresses of nodes, as texts
  Overrides    \* manual orders of an upgrade

VARIABLE call

None == [fn |-> "none"]

-----------------------------------------------------------------------------
(* AvailableIPs and AllocateIP skip the network and the last address, and  *)
(* so everything of a /31 and a /32.                                       *)
AvailableIPs(net) ==
    LET first == Network(net) + 1
    IN  IF first > Pow2[W] - 1 THEN {} ELSE first .. (prefixLastAddr(net) - 1)

AllocateIP(nets, existing) ==
    LET used == {ip.val : ip \in existing}
        free(i) == AvailableIPs(nets[i]) \ used
        i == SelectInSeq([j \in DOMAIN nets |-> free(j)], LAMBDA s : s # {})
    IN  IF i = 0 THEN NoText ELSE Min(free(i))

BalancerIPForAddr(ranges, ip) ==
    LET i == SelectInSeq(ranges, LAMBDA r : PrefixContains(r.net, ip.val))
    IN  IF i = 0 THEN NoText ELSE ranges[i].bal

isRangeWithinOverlay(overlay, net) ==
    PrefixContains(overlay, Network(net)) /\ PrefixContains(overlay, prefixLastAddr(net))

-----------------------------------------------------------------------------
(* ValidateTopology: the kinds of its findings of severity "error".  A     *)
(* topology is [doc, space, ranges, masters, endpoints, clients], doc what *)
(* DetectSchemaVersion sees of the file; a node is                         *)
(* [name, ip, refs]; a master also has exit, a client the dscp values of   *)
(* its policies and its storage root, BadText if refused.                  *)
AllNodes(t) == t.masters \o t.endpoints \o t.clients

ValidateDSCP(dscp) == dscp \in 1 .. 63

RangeFindings(t) ==
    LET parsed == {i \in DOMAIN t.ranges : ParseRangeOk(t.ranges[i])}
        net(i) == Masked(t.ranges[i].cidr)
    IN  UNION {
        IF Duplicate(NamesOf(t.ranges)) THEN {"range name"} ELSE {},
        IF parsed # DOMAIN t.ranges THEN {"range cidr"} ELSE {},
        IF Parses(t.space) /\ \E i \in parsed : ~isRangeWithinOverlay(Masked(t.space), net(i))
            THEN {"range outside"} ELSE {},
        IF \E i \in parsed : t.ranges[i].bal # NoText /\ ~PrefixContains(net(i), t.ranges[i].bal.val)
            THEN {"balancer"} ELSE {},
        IF \E i, j \in parsed : i < j /\ RangesOverlap(net(i), net(j)) THEN {"overlap"} ELSE {} }

(* Mutant of validateUniqueOverlayIPs: the texts are compared. *)
validateUniqueOverlayIPs_ByText(t) ==
    LET ips == SelectSeq([i \in DOMAIN AllNodes(t) |-> AllNodes(t)[i].ip], LAMBDA ip : Parses(ip))
    IN  (IF Len(ips) < Len(AllNodes(t)) THEN {"overlay ip"} ELSE {})
        \cup (IF Duplicate(ips) THEN {"overlay ip used"} ELSE {})

validateUniqueOverlayIPs(t) ==
    LET ips == SelectSeq([i \in DOMAIN AllNodes(t) |-> AllNodes(t)[i].ip], LAMBDA ip : Parses(ip))
    IN  (IF Len(ips) < Len(AllNodes(t)) THEN {"overlay ip"} ELSE {})
        \cup (IF Duplicate([i \in DOMAIN ips |-> ips[i].val]) THEN {"overlay ip used"} ELSE {})

ValidateTopology(t) ==
    RangeFindings(t) \cup validateUniqueOverlayIPs(t) \cup UNION {
        IF Parses(t.space) THEN {} ELSE {"space"},
        IF \E s \in {t.masters, t.endpoints, t.clients} : Duplicate(NamesOf(s)) THEN {"name"} ELSE {},
        IF \E c \in ToSet(t.clients) : \E d \in c.dscp : ~ValidateDSCP(d) THEN {"dscp"} ELSE {},
        IF \E c \in ToSet(t.clients) : c.root = BadText THEN {"storage root"} ELSE {} }

-----------------------------------------------------------------------------
(* AllowedIPs lists, as sequences of CIDRs; the addresses are plain ones   *)
(* ("IPv4 only").                                                          *)
Host(v) == [addr |-> v, bits |-> W]

(* dedup keeps the first of equal entries. *)
dedup(s) == FoldLeft(LAMBDA out, x : IF x \in ToSet(out) THEN out ELSE Append(out, x), <<>>, s)

(* For an endpoint: transport subnet, the master, every overlay range;     *)
(* BadText stands for an error.                                            *)
BuildAllowedIPsForEndpoint(t, masterIP, transport) ==
    LET cidrs == SelectSeq([i \in DOMAIN t.ranges |-> t.ranges[i].cidr], LAMBDA c : c # NoText)
    IN  IF ~Parses(masterIP) \/ ~Parses(transport) \/ BadText \in ToSet(cidrs) THEN BadText
        ELSE dedup(<<transport, Host(masterIP.val)>> \o cidrs)

BuildMinimalAllowedIPsForEndpointPeer(masterIP, transport) ==
    IF ~Parses(masterIP) \/ ~Parses(transport) THEN BadText ELSE <<transport, Host(masterIP.val)>>

(* For one endpoint peer of a master: transport, its overlay address, and  *)
(* the range called "endpoints" or else every other endpoint's address.    *)
BuildAllowedIPsForMasterPeer(t, name, ip, transport) ==
    LET own == <<Masked(transport), Host(ip.val)>>
        ranges == SelectSeq(t.ranges, LAMBDA r : r.name = "endpoints" /\ r.cidr # NoText)
        others == SelectSeq(t.endpoints, LAMBDA e : e.name # name /\ e.ip # NoText)
    IN  CASE ~Parses(ip) \/ ~Parses(transport) -> BadText
          [] OTHER ->
             CASE ranges # <<>> -> IF ranges[1].cidr = BadText THEN BadText ELSE dedup(Append(own, ranges[1].cidr))
               [] OTHER -> IF \E e \in ToSet(others) : e.ip = BadText THEN BadText
                           ELSE dedup(own \o [i \in DOMAIN others |-> Host(others[i].ip.val)])

-----------------------------------------------------------------------------
(* role.ValidateComposability: known roles only, and client alone. *)
Roles == {"client", "master", "egress", "ingress", "balancer"}
ValidateComposability(roles) ==
    roles # {} /\ roles \subseteq Roles /\ ("client" \in roles => roles = {"client"})

(* ValidateV2, in the order it looks: the first fault it reports, or "ok". *)
(* It compares the texts of the addresses.  endpoint stands for the node's *)
(* mesh_endpoint, mesh_listen_port and public_ip, BadText when one of them *)
(* is malformed.                                                           *)
ValidateV2(t) ==
    LET fault(i) ==
            LET n == t.nodes[i] IN
            IF n.name = NoText THEN "name"
            ELSE IF n.roles = {} THEN "roles"
            ELSE IF ~ValidateComposability(n.roles) THEN "composability"
            ELSE IF n.endpoint = BadText THEN "mesh endpoint"
            ELSE IF n.ip = NoText THEN "overlay missing"
            ELSE IF n.ip = BadText THEN "overlay invalid"
            ELSE IF ~PrefixContains(t.supernet, n.ip.val) THEN "overlay out of range"
            ELSE IF \E j \in 1 .. i - 1 : t.nodes[j].ip = n.ip THEN "overlay duplicate"
            ELSE "ok"
        bad == {i \in DOMAIN t.nodes : fault(i) # "ok"}
    IN  IF t.supernet = NoText THEN "supernet missing"
        ELSE IF t.supernet = BadText THEN "supernet invalid"
        ELSE IF t.nodes = <<>> THEN "no nodes"
        ELSE IF bad = {} THEN "ok" ELSE fault(Min(bad))

(* DetectSchemaVersion on the keys of a document, schema_version first. *)
DetectSchemaVersion(doc) ==
    CASE doc.keys = {} -> "error"
      [] "schema_version" \in doc.keys -> IF doc.version = 2 THEN "v2" ELSE "error"
      [] OTHER -> IF doc.keys \cap {"masters", "endpoints", "transport.pool", "transport.prefix_length"} # {}
                  THEN "v1" ELSE "error"

(* MigrateV1ToV2WithReport: a v1 document only; masters, then endpoints,   *)
(* then clients; a name that is missing or taken is an error, and the      *)
(* result must be valid.                                                   *)
migratedOverlaySupernet(t) ==
    IF t.space # NoText THEN t.space
    ELSE IF t.ranges # <<>> THEN t.ranges[1].cidr
    ELSE NoText

MasterRoles(m) == {"master", "balancer"} \cup (IF m.exit THEN {"egress"} ELSE {})
appendMigratedNode(x, roles) ==
    [name |-> x.name, ip |-> x.ip, roles |-> roles, endpoint |-> NoText]

MigrateV1ToV2WithReport(t) ==
    LET nodes == [i \in DOMAIN t.masters |-> appendMigratedNode(t.masters[i], MasterRoles(t.masters[i]))]
                 \o [i \in DOMAIN t.endpoints |-> appendMigratedNode(t.endpoints[i], {"egress"})]
                 \o [i \in DOMAIN t.clients |-> appendMigratedNode(t.clients[i], {"client"})]
        v2 == [supernet |-> migratedOverlaySupernet(t), nodes |-> nodes]
    IN  IF \/ DetectSchemaVersion(t.doc) # "v1"
           \/ \E n \in ToSet(nodes) : n.name = NoText
           \/ Duplicate(NamesOf(nodes))
           \/ ValidateV2(v2) # "ok"
        THEN BadText ELSE v2

-----------------------------------------------------------------------------
Names(s) == [i \in DOMAIN s |-> s[i].name]
Repeats(s) == \E i, j \in DOMAIN s : i < j /\ s[i] = s[j]
SortedBy(s, Less(_, _)) ==
    LET p == SetToSortSeq(DOMAIN s, LAMBDA i, j : Less(s[i], s[j]) \/ (s[i] = s[j] /\ i < j))
    IN  [k \in DOMAIN s |-> s[p[k]]]

(* validateAndReturnOverride: known names, none twice; <<>> is an error. *)
validateAndReturnOverride(override, known) ==
    IF ToSet(override) \subseteq known /\ ~Repeats(override) THEN override ELSE <<>>

(* defaultOrder: endpoints by region and name, then masters by name. *)
defaultOrder(t) ==
    Names(SortedBy(t.endpoints, LAMBDA a, b : a.region < b.region \/ (a.region = b.region /\ a.name < b.name)))
    \o Names(SortedBy(t.masters, LAMBDA a, b : a.name < b.name))

ComputeOrder(t, override) ==
    IF override # <<>> THEN validateAndReturnOverride(override, ToSet(Names(t.masters \o t.endpoints)))
    ELSE defaultOrder(t)

(* stripImageTag cuts at the digest if there is one, else at the tag. *)
stripImageTag(ref) ==
    IF ref.digest # NoText THEN [ref EXCEPT !.digest = NoText] ELSE [ref EXCEPT !.tag = NoText]

(* ComputePlan: a name that is a master's is a master's step; the version  *)
(* becomes the tag of the stripped default image.                          *)
ComputePlan(t, override) ==
    LET order == ComputeOrder(t, override)
        masters == ToSet(Names(t.masters))
    IN  [i \in DOMAIN order |-> [name |-> order[i],
                                 role |-> IF order[i] \in masters THEN "master" ELSE "endpoint",
                                 image |-> stripImageTag(t.image)]]

(* buildMeshUpgradePlan: the v2 plan has masters first, then the other     *)
(* mesh roles, then clients; a manual order is one phase per node.         *)
hasUpgradeRole(n, r) == r \in n.roles

buildMeshUpgradePlan(nodes, manual) ==
    LET byName == SortedBy(nodes, LAMBDA a, b : a.name < b.name)
        phase(k, s) == [i \in DOMAIN s |-> [phase |-> k, name |-> s[i].name, parallel |-> k > 1]]
        rest == SelectSeq(byName, LAMBDA n : ~hasUpgradeRole(n, "master"))
        valid == validateAndReturnOverride(manual, ToSet(Names(nodes)))
    IN  IF manual # <<>>
        THEN [i \in DOMAIN valid |-> [phase |-> i, name |-> valid[i], parallel |-> FALSE]]
        ELSE phase(1, SelectSeq(byName, LAMBDA n : hasUpgradeRole(n, "master")))
             \o phase(2, SelectSeq(rest, LAMBDA n : ~hasUpgradeRole(n, "client")))
             \o phase(3, SelectSeq(rest, LAMBDA n : hasUpgradeRole(n, "client")))

-----------------------------------------------------------------------------
(* containsEnvKey and extractEnvValue find a key in a list or a map, not   *)
(* in a list whose items are quoted.                                       *)
containsEnvKey(doc, key) == doc.style # "quoted" /\ doc.env[key] # NoText
extractEnvValue(doc, key) == IF containsEnvKey(doc, key) THEN doc.env[key] ELSE NoText

(* hasCommandBlock: null, "" and [] count as absent. *)
hasCommandBlock(doc) == doc.command = "flags"

(* extractCommandFlag; a command that is not there has no flags. *)
extractCommandFlag(doc, key) == IF hasCommandBlock(doc) THEN doc.flags[key] ELSE NoText

DetectSchema(doc) ==
    LET hash == containsEnvKey(doc, "MESH_TOKEN_HASH")
    IN  CASE containsEnvKey(doc, "MESH_TOKEN") /\ ~hash -> "v1.5.1"
          [] hash /\ hasCommandBlock(doc) -> "v1.6.0"
          [] hash /\ ~hasCommandBlock(doc) /\ ~containsEnvKey(doc, "MESH_CONFIG_DIR") -> "v1.9.0"
          [] hash /\ ~hasCommandBlock(doc) /\ containsEnvKey(doc, "MESH_CONFIG_DIR") -> "current"
          [] OTHER -> "unknown"

Identity == {"MESH_NAME", "MESH_MODE"}
Keys == Identity \cup {"MESH_TOKEN", "MESH_TOKEN_HASH", "MESH_CONFIG_DIR"}

(* extractFields: the environment first, then, for the two oldest schemas, *)
(* the command's flags.                                                    *)
extractFields(doc, from) ==
    [key \in Keys |-> IF extractEnvValue(doc, key) = NoText /\ from \in {"v1.5.1", "v1.6.0"} /\ key \in Identity
                      THEN extractCommandFlag(doc, key) ELSE extractEnvValue(doc, key)]

(* Mutant of renderCurrentSchema: the directory is only copied. *)
renderCurrentSchema_NoConfigDir(f) ==
    [style |-> "list", command |-> "none", flags |-> [key \in Identity |-> NoText],
     env |-> [f EXCEPT !["MESH_TOKEN"] = NoText,
                       !["MESH_TOKEN_HASH"] = IF @ # NoText THEN @ ELSE "REPLACE_WITH_HASH"]]

(* renderCurrentSchema: a list, no command, a default mode, and a          *)
(* placeholder when only the plain token was known.                        *)
renderCurrentSchema(f) ==
    [style |-> "list", command |-> "none", flags |-> [key \in Identity |-> NoText],
     env |-> [key \in Keys |->
        CASE key = "MESH_TOKEN" -> NoText
          [] key = "MESH_CONFIG_DIR" -> "/config"
          [] key = "MESH_TOKEN_HASH" -> IF f[key] # NoText THEN f[key] ELSE "REPLACE_WITH_HASH"
          [] key = "MESH_MODE" -> IF f[key] # NoText THEN f[key] ELSE "endpoint"
          [] OTHER -> f[key]]]

(* MigrateCompose; NoText is an error. *)
MigrateCompose(doc, from) ==
    CASE from = "current" -> doc
      [] from = "unknown" -> NoText
      [] OTHER -> LET f == extractFields(doc, from)
                  IN  IF f["MESH_NAME"] = NoText THEN NoText ELSE renderCurrentSchema(f)

-----------------------------------------------------------------------------
(* The arguments.                                                          *)
Nets == {p \in CIDRs : Masked(p) = p}
NetLists == {<<p>> : p \in Nets} \cup (Nets \X Nets)

RangeLists ==
  LET r(name, cidr, b) == [name |-> name, cidr |-> cidr, bal |-> b]
  IN {<<>>} \cup {<<r("endpoints", p, b), r("b", q, NoText)>>
                    : p, q \in {x \in Nets : x.bits \in {2, W}}, b \in {NoText, Plain(5)}}

OneOf(names) == [name : names, ip : Texts, refs : {{}}]
Documents ==
  {[keys |-> {"masters"}, version |-> NoText], [keys |-> {"clients"}, version |-> NoText],
   [keys |-> {"masters", "schema_version"}, version |-> 2]}

V1Topologies ==
  [doc : Documents,
   space : {NoText, [addr |-> 0, bits |-> 0], [addr |-> 0, bits |-> 1]},
   ranges : {<<>>, <<[name |-> "a", cidr |-> [addr |-> 0, bits |-> 1], bal |-> NoText]>>},
   masters : {<<[name |-> 1, ip |-> ip, refs |-> {}, exit |-> e]>> : ip \in Texts, e \in BOOLEAN},
   endpoints : {<<>>} \cup {<<x>> : x \in OneOf({1, 2})},
   clients : {<<>>} \cup {<<[name |-> x.name, ip |-> x.ip, refs |-> {}, dscp |-> {}, root |-> NoText]>>
                            : x \in OneOf({2, 3})}]

RangedTopologies ==
  {[space |-> [addr |-> 0, bits |-> 0], ranges |-> l, masters |-> <<>>, clients |-> <<>>,
    endpoints |-> <<[name |-> 1, ip |-> i, refs |-> {}], [name |-> 2, ip |-> j, refs |-> {}]>>]
     : l \in RangeLists, i, j \in Texts}

Perms(n) == {f \in [1 .. n -> 1 .. n] : IsInjective(f)}
V1Fleets ==
  {[masters |-> <<[name |-> f[1]], [name |-> f[2]]>>,
    endpoints |-> <<[name |-> f[3], region |-> r], [name |-> f[4], region |-> s]>>,
    image |-> image]
     : f \in Perms(4), r, s \in {1, 2}, image \in [tag : {NoText, "t"}, digest : {NoText, "d"}]}

V2Fleets ==
  {[i \in 1 .. 3 |-> [name |-> f[i], roles |-> g[i]]]
     : f \in Perms(3), g \in [1 .. 3 -> {{"master"}, {"master", "egress"}, {"egress"}, {"client"}}]}

Composes ==
  [style : {"list", "quoted"}, command : {"none", "flags"},
   env : [Keys -> {NoText, "v"}], flags : [Identity -> {NoText, "f"}]]

-----------------------------------------------------------------------------
Allocate(nets, used) ==
  call' = [fn |-> "allocate", nets |-> nets, used |-> used,
           answer |-> AllocateIP(nets, {Plain(v) : v \in used})]

Validate(t) == call' = [fn |-> "validate", t |-> t, answer |-> ValidateTopology(t)]

Migrate(t) == call' = [fn |-> "migrate", t |-> t, answer |-> MigrateV1ToV2WithReport(t)]

Allowed(t, transport) ==
  LET ip == t.endpoints[1].ip
  IN call' = [fn |-> "allowed", t |-> t, transport |-> transport,
              answer |-> [peer |-> BuildAllowedIPsForMasterPeer(t, 1, ip, transport),
                          full |-> BuildAllowedIPsForEndpoint(t, ip, transport),
                          minimal |-> BuildMinimalAllowedIPsForEndpointPeer(ip, transport)]]

Balancer(t, ip) ==
  /\ ip # NoText /\ ValidateTopology(t) = {}
  /\ call' = [fn |-> "balancer", t |-> t, ip |-> ip,
              answer |-> BalancerIPForAddr([i \in DOMAIN t.ranges |-> ParseRange(t.ranges[i])], ip)]

PlanV1(t, override) ==
  call' = [fn |-> "plan", t |-> t, override |-> override,
           answer |-> ComputePlan(t, override)]

PlanV2(nodes, manual) ==
  call' = [fn |-> "plan v2", nodes |-> nodes, override |-> manual,
           answer |-> buildMeshUpgradePlan(nodes, manual)]

Compose(doc) ==
  call' = [fn |-> "compose", doc |-> doc,
           answer |-> MigrateCompose(doc, DetectSchema(doc))]

FunctionsInit == call = None

FunctionsNext ==
  /\ call = None
  /\ \/ \E nets \in NetLists, used \in UsedSets : Allocate(nets, used)
     \/ \E t \in RangedTopologies : Validate(t)
     \/ \E t \in V1Topologies : Migrate(t)
     \/ \E t \in RangedTopologies, p \in {[addr |-> 1, bits |-> W], [addr |-> 0, bits |-> 2]} : Allowed(t, p)
     \/ \E t \in RangedTopologies, ip \in Texts : Balancer(t, ip)
     \/ \E t \in V1Fleets, o \in Overrides : PlanV1(t, o)
     \/ \E nodes \in V2Fleets, o \in Overrides : PlanV2(nodes, o)
     \/ \E doc \in Composes : Compose(doc)

-----------------------------------------------------------------------------
Hosts(p) == Network(p) .. Network(p) + Size(p) - 1
Usable(p) == Hosts(p) \ {Min(Hosts(p)), Max(Hosts(p))}

(* AllocateIP hands out the lowest address that is free in the first range *)
(* with one, never the first or last address of a range, and gives up only *)
(* when every usable address of every range is taken, also in ranges of    *)
(* one or two addresses and at the end of the address space.               *)
AllocatesFirstFree ==
  call.fn = "allocate" =>
    LET free(i) == Usable(call.nets[i]) \ call.used
        some == {i \in DOMAIN call.nets : free(i) # {}}
    IN call.answer = IF some = {} THEN NoText ELSE Min(free(Min(some)))

(* A topology that ValidateTopology finds no error in gives every address  *)
(* to at most one range, and no host, in whatever spelling, to two nodes.  *)
ValidMeansDisjoint ==
  call.fn = "validate" /\ call.answer = {} =>
    /\ \A i, j \in DOMAIN call.t.ranges :
         i # j => Hosts(call.t.ranges[i].cidr) \cap Hosts(call.t.ranges[j].cidr) = {}
    /\ call.t.endpoints[1].ip.val # call.t.endpoints[2].ip.val

(* In such a topology the balancer BalancerIPForAddr finds for an address  *)
(* is in the address's own range.                                          *)
BalancerInRange ==
  call.fn = "balancer" /\ call.answer # NoText =>
    \E r \in ToSet(call.t.ranges) : {call.ip.val, call.answer.val} \subseteq Hosts(r.cidr)

(* Every v1 topology without errors, with an address space that holds its  *)
(* nodes and with names used once, can be migrated, and the result has     *)
(* each node once, with its address; a schema 2 document never is.         *)
ValidTopologyMigrates ==
  call.fn = "migrate" =>
    LET nodes == AllNodes(call.t)
        fine == /\ call.t.doc.keys = {"masters"}
                /\ call.t.space # NoText /\ ValidateTopology(call.t) = {}
                /\ ~Duplicate(NamesOf(nodes))
                /\ \A n \in ToSet(nodes) : PrefixContains(call.t.space, n.ip.val)
    IN /\ call.t.doc.version # NoText => call.answer = BadText
       /\ fine => /\ call.answer # BadText /\ Len(call.answer.nodes) = Len(nodes)
                  /\ \A n \in ToSet(nodes) :
                       \E x \in ToSet(call.answer.nodes) : x.name = n.name /\ x.ip = n.ip

(* The AllowedIPs lists name no prefix twice; all three cover the peer and *)
(* the transport subnet, the master's list for a peer also every other     *)
(* endpoint, by range or by address, and the full list every range.        *)
AllowedIPsCover ==
  call.fn = "allowed" =>
    LET covered(list) == UNION {Hosts(p) : p \in ToSet(list)}
    IN /\ \A list \in {call.answer.peer, call.answer.full, call.answer.minimal} \ {BadText} :
            Hosts(call.transport) \cup {call.t.endpoints[1].ip.val} \subseteq covered(list)
       /\ call.answer.peer # BadText =>
            /\ IsInjective(call.answer.peer)
            /\ call.t.ranges = <<>> /\ Parses(call.t.endpoints[2].ip) =>
                 call.t.endpoints[2].ip.val \in covered(call.answer.peer)
       /\ call.answer.full # BadText =>
            /\ IsInjective(call.answer.full)
            /\ \A r \in ToSet(call.t.ranges) : Hosts(r.cidr) \subseteq covered(call.answer.full)

(* A plan upgrades every node exactly once, an override only the nodes it  *)
(* names; without one, v1 plans do the endpoints before any master         *)
(* (ComputePlan) and v2 plans the masters before everybody else and the    *)
(* clients last (buildMeshUpgradePlan).  No other tag is left before the   *)
(* new one, unless the default image had both a tag and a digest.          *)
PlansInOrder ==
  LET names == [i \in DOMAIN call.answer |-> call.answer[i].name]
      default == call.override = <<>>
      before(P(_), Q(_)) == \A i, j \in DOMAIN names : P(names[i]) /\ Q(names[j]) => i < j
      has(n, r) == \E x \in ToSet(call.nodes) : x.name = n /\ r \in x.roles
  IN /\ call.fn \in {"plan", "plan v2"} => IsInjective(names)
     /\ call.fn = "plan" /\ default =>
          /\ ToSet(names) = 1 .. 4
          /\ NoText \in {call.t.image.tag, call.t.image.digest} =>
               \A s \in ToSet(call.answer) : s.image = [tag |-> NoText, digest |-> NoText]
          /\ before(LAMBDA n : n \in {x.name : x \in ToSet(call.t.endpoints)},
                    LAMBDA n : n \in {x.name : x \in ToSet(call.t.masters)})
     /\ call.fn = "plan v2" /\ default =>
          /\ ToSet(names) = 1 .. 3
          /\ before(LAMBDA n : has(n, "master"), LAMBDA n : ~has(n, "master"))
          /\ before(LAMBDA n : ~has(n, "client"), LAMBDA n : has(n, "client"))

(* A compose file that MigrateCompose accepts is in the current schema     *)
(* afterwards, so that migrating again changes nothing, and keeps the      *)
(* node's name, its token hash and, where the old file gave one, its mode. *)
ComposeSettles ==
  call.fn = "compose" /\ call.answer # NoText =>
    /\ DetectSchema(call.answer) = "current"
    /\ MigrateCompose(call.answer, "current") = call.answer
    /\ call.doc.env["MESH_TOKEN_HASH"] # NoText =>
         call.answer.env["MESH_TOKEN_HASH"] = call.doc.env["MESH_TOKEN_HASH"]
    /\ \A key \in Identity :
         call.doc.env[key] # NoText => call.answer.env[key] = call.doc.env[key]

(* The functions on addresses meet their reference definitions: allocation,*)
(* validation, balancers, migration and AllowedIPs (pkg/topology).         *)
AddressesPlanned ==
  /\ AllocatesFirstFree /\ ValidMeansDisjoint /\ BalancerInRange
  /\ ValidTopologyMigrates /\ AllowedIPsCover

(* The functions on upgrades do: the order and images of a plan, and the   *)
(* migration of compose files (pkg/upgrade).                               *)
UpgradesPlanned == PlansInOrder /\ ComposeSettles
=============================================================================
