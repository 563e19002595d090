------------------------------- MODULE Ingress -------------------------------
(***************************************************************************)
(* The ingress proxies: HTTP requests, bridged WebSockets and UDP packets    *)
(* are looked up in a copy-on-write route registry, checked against the      *)
(* health tracker and handed to the route's target.  Lookup, health check    *)
(* and hand-over are separate steps: the registry may be replaced and a      *)
(* probe may finish between them.                                            *)
(***************************************************************************)
EXTENDS Integers, Sequences

CONSTANTS
  RouteLists,   \* the lists of routes Replace may be called with
  Conns,        \* requests in progress at a time
  Clients,      \* UDP client addresses
  IdleTimeout,  \* UDPIdleTimeout, in ticks
  MaxTime,      \* bound: clock ticks
  MaxRequests,  \* bound: requests and packets
  MaxUpdates    \* bound: calls of Replace

ASSUME IngressAssumption == MaxTime \in Nat /\ MaxRequests \in Nat /\ MaxUpdates \in Nat

VARIABLES
  routes,    \* the registry's snapshot: a sequence of routes
  verdict,   \* tracker: hostname -> "unknown", "up" or "down"
  walk,      \* the routes ProbeOnce still has to probe
  cpc,       \* where the handler of each request is
  cKind, cRoute,  \* its protocol, and the route it looked up
  ends, copiers,  \* of a bridged WebSocket: open connections and copying goroutines
  flowTable, \* UDPFlowTable: flow key -> [target, lastSeen, createdAt]
  sent,      \* the last packet sent and the flow Forward returned for it
  time, requests, updates

ivars == <<routes, verdict, walk, cpc, cKind, cRoute, ends, copiers, flowTable, sent, time, requests, updates>>
conns == <<cpc, cKind, cRoute, ends, copiers>>
udp == <<flowTable, sent>>
bounds == <<time, requests, updates>>

RoutesOf(list) == {list[i] : i \in DOMAIN list}
AllRoutes == UNION {RoutesOf(l) : l \in RouteLists}
Hosts == {r.hostname : r \in AllRoutes}
NoHost == "unknown.example"

(* NewSnapshot: at least one route, and one owner for each hostname. *)
NewSnapshot(list) ==
  /\ list # <<>>
  /\ \A i, j \in DOMAIN list : list[i].hostname = list[j].hostname => i = j

Lookup(host) == {r \in RoutesOf(routes) : r.hostname = host}

IsHealthy(route) == verdict[route.hostname] # "down"

NoRoute == [hostname |-> NoHost, target |-> 0, protocol |-> "none"]
Sides == {"client", "target"}
Ways == {"c2t", "t2c"}

IngressTypeOK ==
  /\ routes \in RouteLists
  /\ verdict \in [Hosts -> {"unknown", "up", "down"}]
  /\ cpc \in [Conns -> {"idle", "found", "checked", "accepted", "bridge", "closing"}]
  /\ cKind \in [Conns -> {"http", "websocket"}] /\ cRoute \in [Conns -> AllRoutes \cup {NoRoute}]
  /\ ends \in [Conns -> SUBSET Sides] /\ copiers \in [Conns -> SUBSET Ways]
  /\ \A c \in Conns : cRoute[c] = NoRoute => cpc[c] = "idle"
  /\ \A k \in DOMAIN flowTable : flowTable[k].lastSeen \in flowTable[k].createdAt..MaxTime
  /\ time \in 0..MaxTime /\ requests \in 0..MaxRequests /\ updates \in 0..MaxUpdates

IngressInit ==
  /\ routes \in {l \in RouteLists : NewSnapshot(l)}
  /\ verdict = [h \in Hosts |-> "unknown"] /\ walk = <<>>
  /\ cpc = [c \in Conns |-> "idle"] /\ cKind = [c \in Conns |-> "http"]
  /\ cRoute = [c \in Conns |-> NoRoute]
  /\ ends = [c \in Conns |-> {}] /\ copiers = [c \in Conns |-> {}]
  /\ flowTable = <<>> /\ sent = {}
  /\ time = 0 /\ requests = 0 /\ updates = 0

-----------------------------------------------------------------------------
Goes(c, to) == cpc' = [cpc EXCEPT ![c] = to]
rest == <<routes, verdict, walk, udp, time, updates>>

(* The handler returns: nothing of the request is left. *)
Returns(c) ==
  /\ Goes(c, "idle")
  /\ cKind' = [cKind EXCEPT ![c] = "http"] /\ cRoute' = [cRoute EXCEPT ![c] = NoRoute]
  /\ ends' = [ends EXCEPT ![c] = {}] /\ copiers' = [copiers EXCEPT ![c] = {}]

(* The two ServeHTTP handlers up to the protocol check: an unknown host and a
   route of another protocol are refused. *)
Accepts(kind) == IF kind = "websocket" THEN {"websocket"} ELSE {"http", "websocket", "tcp"}

ServeHTTP(c, kind, host) ==
  /\ cpc[c] = "idle" /\ requests < MaxRequests
  /\ requests' = requests + 1
  /\ \/ /\ \A r \in Lookup(host) : r.protocol \notin Accepts(kind)
        /\ UNCHANGED conns
     \/ \E r \in Lookup(host) :
          /\ r.protocol \in Accepts(kind)
          /\ Goes(c, "found")
          /\ cKind' = [cKind EXCEPT ![c] = kind] /\ cRoute' = [cRoute EXCEPT ![c] = r]
          /\ UNCHANGED <<ends, copiers>>
  /\ UNCHANGED rest

(* The route of a request is the one looked up, not the registry's present one. *)
RouteOf_LookedUpAgain(c) ==
  CHOOSE r \in Lookup(cRoute[c].hostname) \cup {cRoute[c]} :
    Lookup(cRoute[c].hostname) # {} => r \in Lookup(cRoute[c].hostname)

RouteOf(c) == cRoute[c]

checkHealth(c) ==
  /\ cpc[c] = "found"
  /\ IF IsHealthy(RouteOf(c))
     THEN /\ Goes(c, "checked") /\ cRoute' = [cRoute EXCEPT ![c] = RouteOf(c)]
          /\ UNCHANGED <<cKind, ends, copiers>>
     ELSE Returns(c)
  /\ UNCHANGED <<rest, requests>>

(* HTTPProxy: the reverse proxy answers, or its ErrorHandler does. *)
proxyServe(c) ==
  /\ cpc[c] = "checked" /\ cKind[c] = "http"
  /\ Returns(c)
  /\ UNCHANGED <<rest, requests>>

(* WebSocketProxy: accept the client, dial the target, copy both ways. *)
wsAccept(c) ==
  /\ cpc[c] = "checked" /\ cKind[c] = "websocket"
  /\ \/ Goes(c, "accepted") /\ UNCHANGED <<cKind, cRoute, ends, copiers>>
     \/ Returns(c)
  /\ UNCHANGED <<rest, requests>>

wsDial(c) ==
  /\ cpc[c] = "accepted"
  /\ \/ /\ Goes(c, "bridge")
        /\ ends' = [ends EXCEPT ![c] = Sides] /\ copiers' = [copiers EXCEPT ![c] = Ways]
        /\ UNCHANGED <<cKind, cRoute>>
     \/ Returns(c)
  /\ UNCHANGED <<rest, requests>>

(* A peer goes away. *)
peerCloses(c, side) ==
  /\ cpc[c] \in {"bridge", "closing"} /\ side \in ends[c]
  /\ ends' = [ends EXCEPT ![c] = @ \ {side}]
  /\ UNCHANGED <<cpc, cKind, cRoute, copiers, rest, requests>>

(* copyWebSocket: a copier ends when its read fails, as it does once the end it
   reads from is closed or the context is cancelled ... *)
Reads(way) == IF way = "c2t" THEN "client" ELSE "target"
Writes(way) == IF way = "c2t" THEN "target" ELSE "client"

copyWebSocket(c, way) ==
  /\ cpc[c] \in {"bridge", "closing"} /\ way \in copiers[c]
  /\ Reads(way) \notin ends[c] \/ cpc[c] = "closing"
  /\ copiers' = [copiers EXCEPT ![c] = @ \ {way}]
  /\ UNCHANGED <<cpc, cKind, cRoute, ends, rest, requests>>

(* ... or when a message it has read cannot be written, which needs a message. *)
copyWriteFails(c, way) ==
  /\ cpc[c] \in {"bridge", "closing"} /\ way \in copiers[c]
  /\ Writes(way) \notin ends[c]
  /\ copiers' = [copiers EXCEPT ![c] = @ \ {way}]
  /\ UNCHANGED <<cpc, cKind, cRoute, ends, rest, requests>>

(* The handler waits for the FIRST copier, cancels the other and closes both
   connections on its way out. *)
BridgeDone_BothCopiers(c) == copiers[c] = {}

BridgeDone(c) == copiers[c] # Ways

wsReturn(c) ==
  /\ cpc[c] = "bridge" /\ BridgeDone(c)
  /\ Goes(c, "closing") /\ ends' = [ends EXCEPT ![c] = {}]
  /\ UNCHANGED <<cKind, cRoute, copiers, rest, requests>>

wsGone(c) ==
  /\ cpc[c] = "closing" /\ copiers[c] = {}
  /\ Returns(c)
  /\ UNCHANGED <<rest, requests>>

-----------------------------------------------------------------------------
(* UDPFlowTable.Resolve: the flow's entry is made or refreshed. *)
udpFlowKey(client, route) == <<client, route.hostname, route.target>>

Resolve(client, route) ==
  LET key == udpFlowKey(client, route)
  IN IF key \in DOMAIN flowTable
     THEN [target |-> flowTable[key].target, lastSeen |-> time, createdAt |-> flowTable[key].createdAt]
     ELSE [target |-> route.target, lastSeen |-> time, createdAt |-> time]

(* UDPForwarder.Forward: the flow is recorded before the packet is sent and
   stays when sending fails.  A library entry point: one call is one step. *)
Forward(client, host) ==
  /\ requests < MaxRequests /\ requests' = requests + 1
  /\ \/ /\ \A r \in Lookup(host) : r.protocol # "udp" \/ ~IsHealthy(r)
        /\ UNCHANGED udp
     \/ \E r \in Lookup(host) :
          /\ r.protocol = "udp" /\ IsHealthy(r)
          /\ flowTable' = [k \in DOMAIN flowTable \cup {udpFlowKey(client, r)} |->
               IF k = udpFlowKey(client, r) THEN Resolve(client, r) ELSE flowTable[k]]
          /\ \/ sent' = {[to |-> r.target, flow |-> Resolve(client, r).target]}
             \/ sent' = {}
  /\ UNCHANGED <<routes, verdict, walk, conns, time, updates>>

(* UDPFlowTable.Expire. *)
Expired(flow) == time - flow.lastSeen > IdleTimeout

Expire ==
  /\ flowTable' = [k \in {j \in DOMAIN flowTable : ~Expired(flowTable[j])} |-> flowTable[k]]
  /\ UNCHANGED <<routes, verdict, walk, conns, sent, bounds>>

-----------------------------------------------------------------------------
(* HealthTracker.Run: the verdict is kept by hostname. *)
ProbeOnce ==
  /\ walk = <<>> /\ walk' = routes
  /\ UNCHANGED <<routes, verdict, conns, udp, bounds>>

Set(result) ==
  /\ walk # <<>> /\ walk' = Tail(walk)
  /\ verdict' = [verdict EXCEPT ![Head(walk).hostname] = result]
  /\ UNCHANGED <<routes, conns, udp, bounds>>

Replace(list) ==
  /\ updates < MaxUpdates /\ updates' = updates + 1
  /\ routes' = IF NewSnapshot(list) THEN list ELSE routes
  /\ UNCHANGED <<verdict, walk, conns, udp, time, requests>>

Pass ==
  /\ time < MaxTime /\ time' = time + 1
  /\ UNCHANGED <<routes, verdict, walk, conns, udp, requests, updates>>

handler(c) ==
  \/ checkHealth(c) \/ proxyServe(c) \/ wsAccept(c) \/ wsDial(c)
  \/ \E way \in Ways : copyWebSocket(c, way)
  \/ wsReturn(c) \/ wsGone(c)

IngressNext ==
  \/ \E c \in Conns, kind \in {"http", "websocket"}, h \in Hosts \cup {NoHost} : ServeHTTP(c, kind, h)
  \/ \E c \in Conns : handler(c)
  \/ \E c \in Conns, side \in Sides : peerCloses(c, side)
  \/ \E c \in Conns, way \in Ways : copyWriteFails(c, way)
  \/ \E a \in Clients, h \in Hosts : Forward(a, h)
  \/ Expire \/ ProbeOnce \/ \E r \in {"up", "down"} : Set(r)
  \/ \E l \in RouteLists : Replace(l)
  \/ Pass

IngressSpec == IngressInit /\ [][IngressNext]_ivars

(* A handler's own steps are taken by a running goroutine. *)
IngressFairSpec == IngressSpec /\ \A c \in Conns : WF_ivars(handler(c))

-----------------------------------------------------------------------------
(* One hostname has one owner at every moment: a list that gives it to two
   tenants never replaces the routes in use. *)
OneOwner == \A r, s \in RoutesOf(routes) : r.hostname = s.hostname => r = s

(* A request ends up at a route whose protocol its handler checked, although
   the registry may be replaced between the check and the hand-over. *)
ProtocolKept ==
  \A c \in Conns :
    cpc[c] \in {"checked", "accepted", "bridge"} => cRoute[c].protocol \in Accepts(cKind[c])

(* Forward sends a packet to the target that the flow it returns names, also
   for a client whose flow began before the route got its present target. *)
FlowNamesTarget == \A p \in sent : p.to = p.flow

(* A flow leaves the table only after a whole idle timeout without a packet,
   however long ago it was created. *)
KeepsActiveFlows ==
  \A k \in DOMAIN flowTable \ DOMAIN flowTable' : time - flowTable[k].lastSeen > IdleTimeout
ActiveFlowsKept == [][KeepsActiveFlows]_ivars

(* When one end of a bridged WebSocket goes away the bridge comes down: the
   other connection is closed and both copying goroutines end. *)
BridgeCollapses ==
  \A c \in Conns :
    (cpc[c] = "bridge" /\ ends[c] # Sides) ~> cpc[c] = "idle"

(* Requests and packets go where the routes that were looked up for them   *)
(* say, although routes are replaced meanwhile, and no flow in use is      *)
(* forgotten (HTTPProxy, WebSocketProxy, UDPForwarder).                    *)
ForwardingSafe ==
  /\ [](IngressTypeOK /\ OneOwner /\ ProtocolKept /\ FlowNamesTarget)
  /\ ActiveFlowsKept
=============================================================================
