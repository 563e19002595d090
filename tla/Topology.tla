------------------------------ MODULE Topology ------------------------------
(***************************************************************************)
(* Addresses, prefixes and ranges of the topology file, as pkg/topology    *)
(* and net/netip handle them (ranges.go, validate.go).                     *)
(*                                                                         *)
(* Addresses have W bits instead of 32.  The text of an address is a       *)
(* record: mapped tells the IPv4-mapped IPv6 spelling ::ffff:a.b.c.d, the  *)
(* same host in another text, from the plain one.  A CIDR is [addr, bits]  *)
(* and need not be masked.  NoText is a text that is empty, BadText one    *)
(* that does not parse.                                                    *)
(***************************************************************************)
EXTENDS Integers, Sequences

CONSTANTS W, NoText, BadText

Pow2[k \in 0 .. W] == IF k = 0 THEN 1 ELSE 2 * Pow2[k - 1]

Space == 0 .. Pow2[W] - 1
AddrTexts == [val : Space, mapped : BOOLEAN]
Plain(v) == [val |-> v, mapped |-> FALSE]
CIDRs == [addr : Space, bits : 0 .. W]
Parses(text) == text \notin {NoText, BadText}

ASSUME TopologyAssumption ==
    /\ W \in Nat /\ NoText # BadText
    /\ {NoText, BadText} \cap (CIDRs \cup AddrTexts) = {}

-----------------------------------------------------------------------------
(* netip.Prefix *)
Size(p) == Pow2[W - p.bits]
Network(p) == p.addr - (p.addr % Size(p))
Masked(p) == [addr |-> Network(p), bits |-> p.bits]
prefixLastAddr(p) == Network(p) + (Size(p) - 1)
PrefixContains(p, v) == Network(p) <= v /\ v <= prefixLastAddr(p)

(* ParseRange: the CIDR is masked, a mapped balancer address is unmapped. *)
ParseRangeOk(r) == Parses(r.cidr) /\ r.bal # BadText
ParseRange(r) == [name |-> r.name, net |-> Masked(r.cidr),
                  bal |-> IF r.bal = NoText THEN NoText ELSE Plain(r.bal.val)]

(* Range.Contains: netip finds no mapped address in an IPv4 prefix. *)
RangeContains(net, ip) == ~ip.mapped /\ PrefixContains(net, ip.val)

RangesOverlap(a, b) ==
    PrefixContains(a, Network(b)) \/ PrefixContains(b, Network(a))

Duplicate(s) == \E i, j \in DOMAIN s : i < j /\ s[i] = s[j]
NamesOf(s) == [i \in DOMAIN s |-> s[i].name]
=============================================================================
