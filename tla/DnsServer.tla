----------------------------- MODULE DnsServer -----------------------------
(***************************************************************************)
(* The overlay DNS server (pkg/dns/server.go, zone.go): records built from   *)
(* the nodes of the mesh, swapped as a whole while queries are answered, and *)
(* the server's start and end.                                               *)
(***************************************************************************)
EXTENDS Integers

CONSTANTS
  NodeMaps,    \* what BuildZoneRecords is called with: name -> overlay address
  Asked,       \* names clients ask for
  MaxZones     \* bound: calls of UpdateRecords

ASSUME DnsAssumption == MaxZones \in Nat

VARIABLES
  aMap, ptrMap,   \* name -> address, address -> name
  start,          \* where Start is
  dnsSrv,         \* the miekg server: "new", "listening" or "down"
  cancelled,      \* the context of Start
  dnsEarly,       \* history: Shutdown found a server that was not listening yet
  zones           \* calls of UpdateRecords so far

dvars == <<aMap, ptrMap, start, dnsSrv, cancelled, dnsEarly, zones>>
server == <<start, dnsSrv, cancelled, dnsEarly>>

(* strings.TrimSpace and ToLower, and the addresses net.ParseIP reads as IPv4. *)
Trim(s) == IF s = " n1 " THEN "n1" ELSE s
Lower(s) == IF s = "N1" THEN "n1" ELSE s
IsIPv4(ip) == ip \in {"10.0.0.1", "10.0.0.2"}

(* BuildZoneRecords: an A and a PTR record for every named node with an IPv4
   address, in the order of a Go map. *)
BuildZoneRecords(nodes) ==
  {<<Trim(n), nodes[n]>> : n \in {x \in DOMAIN nodes : Trim(x) # "" /\ IsIPv4(nodes[x])}}

(* loadRecords: the last record of a name or address wins; both maps are new. *)
AMaps(rs) ==
  LET names == {Lower(r[1]) : r \in rs}
  IN {f \in [names -> {r[2] : r \in rs}] : \A n \in names : \E r \in rs : Lower(r[1]) = n /\ f[n] = r[2]}

PtrMaps(rs) ==
  LET addresses == {r[2] : r \in rs}
  IN {f \in [addresses -> {r[1] : r \in rs}] : \A a \in addresses : <<f[a], a>> \in rs}

loadRecords_KeepsReverse(nodes) ==
  /\ aMap' \in AMaps(BuildZoneRecords(nodes))
  /\ \E f \in PtrMaps(BuildZoneRecords(nodes)) :
       ptrMap' = [a \in DOMAIN f \cup DOMAIN ptrMap |-> IF a \in DOMAIN f THEN f[a] ELSE ptrMap[a]]

loadRecords(nodes) ==
  aMap' \in AMaps(BuildZoneRecords(nodes)) /\ ptrMap' \in PtrMaps(BuildZoneRecords(nodes))

DnsTypeOK ==
  /\ start \in {"idle", "waiting", "returned"} /\ dnsSrv \in {"new", "listening", "down"}
  /\ zones \in 0..MaxZones /\ DOMAIN ptrMap \subseteq {"10.0.0.1", "10.0.0.2"}

(* NewServer with the records of the first node map. *)
DnsInit ==
  /\ \E nodes \in NodeMaps : aMap \in AMaps(BuildZoneRecords(nodes)) /\ ptrMap \in PtrMaps(BuildZoneRecords(nodes))
  /\ start = "idle" /\ dnsSrv = "new" /\ cancelled = FALSE /\ dnsEarly = FALSE
  /\ zones = 0

UpdateRecords(nodes) ==
  /\ zones < MaxZones /\ loadRecords(nodes) /\ zones' = zones + 1 /\ UNCHANGED server

(* Start: the listener runs in a goroutine; Start waits for it or the context. *)
Start ==
  /\ start = "idle" /\ start' = "waiting" /\ UNCHANGED <<aMap, ptrMap, dnsSrv, cancelled, dnsEarly, zones>>

ListenAndServe ==
  /\ start # "idle" /\ dnsSrv = "new" /\ dnsSrv' \in {"listening", "down"}
  /\ UNCHANGED <<aMap, ptrMap, start, cancelled, dnsEarly, zones>>

serverFails ==
  /\ start = "waiting" /\ dnsSrv = "down" /\ start' = "returned"
  /\ UNCHANGED <<aMap, ptrMap, dnsSrv, cancelled, dnsEarly, zones>>

cancel ==
  /\ ~cancelled /\ cancelled' = TRUE /\ UNCHANGED <<aMap, ptrMap, start, dnsSrv, dnsEarly, zones>>

(* Shutdown refuses a server that is not listening yet; Start drops its error. *)
shutdownDns ==
  /\ start = "waiting" /\ cancelled /\ start' = "returned"
  /\ dnsSrv' = (IF dnsSrv = "listening" THEN "down" ELSE dnsSrv) /\ dnsEarly' = (dnsEarly \/ dnsSrv = "new")
  /\ UNCHANGED <<aMap, ptrMap, cancelled, zones>>

(* The handlers look up one question at a time under the read lock; the zone is
   matched without regard to case. *)
handleZone(name) == IF Lower(name) \in DOMAIN aMap THEN {aMap[Lower(name)]} ELSE {}

handlePTR(address) == IF address \in DOMAIN ptrMap THEN {ptrMap[address]} ELSE {}

DnsNext ==
  \/ \E nodes \in NodeMaps : UpdateRecords(nodes)
  \/ Start \/ ListenAndServe \/ serverFails \/ cancel \/ shutdownDns

DnsSpec == DnsInit /\ [][DnsNext]_dvars

-----------------------------------------------------------------------------
(* Forward and reverse zone belong together after every update: an address that
   is given out has a name, and the name of every address resolves, in the
   spelling the PTR record has. *)
ReverseResolves ==
  /\ \A n \in Asked : \A a \in handleZone(n) : handlePTR(a) # {}
  /\ \A a \in DOMAIN ptrMap : \A n \in handlePTR(a) : handleZone(n) # {}

(* After Start has returned nothing listens, unless the context ended before the
   goroutine listened: then Shutdown came too early. *)
StoppedWhenReturned == (start = "returned" /\ ~dnsEarly) => dnsSrv # "listening"

(* The zones agree while they are replaced under queries, and the server   *)
(* is down when Start has returned (UpdateRecords, Server.Start).          *)
DnsSafe == DnsTypeOK /\ ReverseResolves /\ StoppedWhenReturned
=============================================================================
