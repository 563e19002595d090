------------------------------ MODULE Firewall ------------------------------
(***************************************************************************)
(* The nftables/iptables rules of a host (pkg/routing/nftables.go) and the   *)
(* egress role that depends on them (pkg/node/egress_v2.go,                  *)
(* pkg/nftables/masquerade.go).  Processes with their own connection share   *)
(* the kernel's table awg_mesh; the three idempotent operations list the     *)
(* rules of a chain and add theirs when it is missing, in two kernel calls.  *)
(***************************************************************************)
EXTENDS Integers

CONSTANTS
  Procs,    \* processes using the package: containers in one network namespace
  Ifaces,   \* interface names egress roles may be given
  CIDRs,    \* balancer ranges: records [ip, mask]
  MaxCalls  \* bound: calls into the package

ASSUME FirewallAssumption ==
  /\ MaxCalls \in Nat
  /\ \A c, d \in CIDRs : c.ip = d.ip /\ c.mask = d.mask => c = d

VARIABLES
  fwTable,   \* kernel: awg_mesh exists
  rules,     \* kernel: rule -> number of copies of it
  handle,    \* process -> f.table # nil
  fcall,     \* process -> the call it is in, after its first kernel call
  role,      \* process -> state of its egress role
  internet,  \* process -> interface that role masquerades on
  blind,     \* history: some idempotent call added without a true listing
  torn,      \* history: some TeardownNAT removed the table
  skipped,   \* history: a DisableStickyECMP skipped a chain it could not list
  lastCall,  \* the call made last
  calls      \* calls made

fvars == <<fwTable, rules, handle, fcall, role, internet, blind, torn, skipped, lastCall, calls>>

(* Rules the package writes.  "fwd" is the iptables FORWARD rule, outside the
   table; "pre" and "post" are the two connmark rules of a balancer range. *)
StickyRules == {"pre", "post"} \X CIDRs
InTable == {<<"masq", i>> : i \in Ifaces} \cup {<<"mss", 0>>} \cup StickyRules
Rules == InTable \cup {<<"fwd", 0>>}
Idempotent == {r \in Rules : r[1] \in {"masq", "mss", "fwd"}}

None == [rule |-> <<"none", 0>>, add |-> FALSE, saw |-> 0]

FirewallTypeOK ==
  /\ fwTable \in BOOLEAN /\ rules \in [Rules -> Nat]
  /\ handle \in [Procs -> BOOLEAN]
  /\ fcall \in [Procs -> {None} \cup [rule : Idempotent, add : BOOLEAN, saw : Nat]]
  /\ role \in [Procs -> {"new", "applying", "running", "returned"}]
  /\ internet \in [Procs -> Ifaces] /\ calls \in 0..MaxCalls
  /\ {blind, torn, skipped} \subseteq BOOLEAN
  /\ ~fwTable => \A r \in InTable : rules[r] = 0

(* Masquerading belongs on an internet interface, never on a tunnel. *)
isMeshInterfaceName(name) == name \in {"wg-m1", "awg0", "tun0", "wg"}

(* NewEgress plans the masquerade; a process without an accepted interface
   never gets an egress role. *)
FirewallInit ==
  /\ fwTable = FALSE /\ rules = [r \in Rules |-> 0]
  /\ handle = [p \in Procs |-> FALSE] /\ fcall = [p \in Procs |-> None]
  /\ role = [p \in Procs |-> "new"]
  /\ internet \in [Procs -> {i \in Ifaces : i # "" /\ ~isMeshInterfaceName(i)}]
  /\ blind = FALSE /\ torn = FALSE /\ skipped = FALSE
  /\ lastCall = <<"none", 0>> /\ calls = 0

Calls(p, name, arg) ==
  /\ fcall[p] = None /\ calls < MaxCalls /\ calls' = calls + 1 /\ lastCall' = <<name, arg>>

Fails(p, call) == UNCHANGED <<fwTable, rules>> /\ fcall' = [fcall EXCEPT ![p] = call]

(* ensureTable queues the fwTable's creation once per process; the queue reaches
   the kernel with the next Flush.  A Flush that names a table that is neither
   there nor queued fails, and so may any other. *)
Reachable(p) == fwTable \/ ~handle[p]

(* SetupNAT, ClampMSSToPMTU: create table and chain, then list the chain.  A
   listing that fails counts as an empty one. *)
ruleMatchesMasqOnIface(i) == rules[<<"masq", i>>] > 0

ruleMatchesMSSClamp == rules[<<"mss", 0>>] > 0

Matching(r) ==
  IF r[1] = "masq" THEN ruleMatchesMasqOnIface(r[2])
  ELSE IF r[1] = "mss" THEN ruleMatchesMSSClamp
  ELSE rules[r] > 0

listRules(p, r) ==
  \E listed \in BOOLEAN :
    /\ fcall' = [fcall EXCEPT ![p] = [rule |-> r, add |-> ~(listed /\ Matching(r)),
                                          saw |-> rules[r]]]
    /\ blind' = (blind \/ (~listed /\ rules[r] > 0))

setupRule(p, r) ==
  /\ handle' = [handle EXCEPT ![p] = TRUE]
  /\ \/ Reachable(p) /\ fwTable' = TRUE /\ listRules(p, r) /\ UNCHANGED rules
     \/ Fails(p, None) /\ UNCHANGED blind

ClampMSSToPMTU(p) ==
  /\ Calls(p, "mss", 0) /\ setupRule(p, <<"mss", 0>>)
  /\ UNCHANGED <<role, internet, torn, skipped>>

(* EnableWGCrossTunnelForward: iptables -C, then -I; a failing -C counts as a
   missing rule. *)
EnableWGCrossTunnelForward(p) ==
  /\ Calls(p, "fwd", 0) /\ listRules(p, <<"fwd", 0>>)
  /\ UNCHANGED <<fwTable, rules, handle, role, internet, torn, skipped>>

(* Egress.Run up to the first kernel calls of SetupNAT, and a cancelled context
   before it. *)
EgressRun(p) ==
  /\ role[p] = "new" /\ Calls(p, "nat", internet[p])
  /\ \/ /\ setupRule(p, <<"masq", internet[p]>>)
        /\ role' = [role EXCEPT ![p] = IF fcall'[p] = None THEN "returned" ELSE "applying"]
     \/ role' = [role EXCEPT ![p] = "returned"] /\ UNCHANGED <<fwTable, rules, handle, fcall, blind>>
  /\ UNCHANGED <<internet, torn, skipped>>

(* The second half of an idempotent call: the rule is added unless it was
   found.  The egress role starts when SetupNAT succeeded and its context
   still stands. *)
AfterSetup(added) == IF added THEN {"running", "returned"} ELSE {"returned"}

addRule(p) ==
  /\ fcall[p] # None
  /\ LET r == fcall[p].rule
         ok == r \notin InTable \/ fwTable
     IN \E added \in (IF ~fcall[p].add THEN {TRUE} ELSE {FALSE, ok}) :
          /\ rules' = [rules EXCEPT ![r] = @ + (IF fcall[p].add /\ added THEN 1 ELSE 0)]
          /\ blind' = (blind \/ (fcall[p].add /\ rules[r] > fcall[p].saw))
          /\ role' \in IF role[p] = "applying" /\ r[1] = "masq"
                       THEN {[role EXCEPT ![p] = s] : s \in AfterSetup(added)}
                       ELSE {role}
  /\ fcall' = [fcall EXCEPT ![p] = None]
  /\ UNCHANGED <<fwTable, handle, internet, torn, skipped, lastCall, calls>>

(* The agent of a running egress ends; Close and the end leave the rule in place. *)
egressEnds(p) ==
  /\ role[p] = "running" /\ role' = [role EXCEPT ![p] = "returned"]
  /\ UNCHANGED <<fwTable, rules, handle, fcall, internet, blind, torn, skipped, lastCall, calls>>

(* EnableStickyECMP: both rules in one Flush, without looking for earlier ones. *)
EnableStickyECMP(p, c) ==
  /\ Calls(p, "enable", c) /\ handle' = [handle EXCEPT ![p] = TRUE]
  /\ \/ /\ Reachable(p) /\ fwTable' = TRUE /\ UNCHANGED fcall
        /\ rules' = [rules EXCEPT ![<<"pre", c>>] = @ + 1, ![<<"post", c>>] = @ + 1]
     \/ Fails(p, None)
  /\ UNCHANGED <<role, internet, blind, torn, skipped>>

(* DisableStickyECMP: the rules of every chain that could be listed and that
   match the range's network and mask, deleted in one Flush. *)
ruleMatchesCIDR_Network(r, c) == r[2].ip = c.ip

ruleMatchesCIDR(r, c) == r[2].ip = c.ip /\ r[2].mask = c.mask

chainNames == {"pre", "post"}

DisableStickyECMP(p, c) ==
  /\ Calls(p, "disable", c)
  /\ \/ ~handle[p] /\ Fails(p, None) /\ UNCHANGED skipped
     \/ /\ handle[p] /\ UNCHANGED <<fwTable, fcall>>
        /\ \E unlisted \in SUBSET chainNames :
             /\ rules' = [r \in Rules |->
                            IF r[1] \in chainNames \ unlisted /\ ruleMatchesCIDR(r, c)
                            THEN 0 ELSE rules[r]]
             /\ skipped' = (skipped \/ unlisted # {})
     \/ handle[p] /\ Fails(p, None) /\ UNCHANGED skipped
  /\ UNCHANGED <<handle, role, internet, blind, torn>>

(* TeardownNAT: the whole table goes; without a handle, or when the Flush
   fails, nothing does. *)
TeardownNAT(p) ==
  /\ Calls(p, "teardown", 0)
  /\ \/ /\ handle[p] /\ fwTable /\ fwTable' = FALSE
        /\ rules' = [r \in Rules |-> IF r \in InTable THEN 0 ELSE rules[r]]
        /\ handle' = [handle EXCEPT ![p] = FALSE] /\ torn' = TRUE /\ UNCHANGED fcall
     \/ Fails(p, None) /\ UNCHANGED <<handle, torn>>
  /\ UNCHANGED <<role, internet, blind, skipped>>

(* A process is restarted at any point: the kernel keeps its state, the new
   process starts without a handle. *)
Restart(p) ==
  /\ calls < MaxCalls /\ calls' = calls + 1 /\ lastCall' = <<"restart", 0>>
  /\ handle' = [handle EXCEPT ![p] = FALSE] /\ fcall' = [fcall EXCEPT ![p] = None]
  /\ role' = [role EXCEPT ![p] = "new"]
  /\ UNCHANGED <<fwTable, rules, internet, blind, torn, skipped>>

FirewallNext ==
  \E p \in Procs :
    \/ ClampMSSToPMTU(p) \/ EnableWGCrossTunnelForward(p) \/ EgressRun(p) \/ addRule(p)
    \/ egressEnds(p) \/ TeardownNAT(p) \/ Restart(p)
    \/ \E c \in CIDRs : EnableStickyECMP(p, c) \/ DisableStickyECMP(p, c)

FirewallSpec == FirewallInit /\ [][FirewallNext]_fvars

-----------------------------------------------------------------------------
(* The idempotent calls leave one copy of their rule however often processes
   start ("Without this dedupe every startup and every new peer would accumulate
   duplicate kernel rules"), except after a listing that failed or two
   processes between listing and adding at the same time. *)
NoDuplicateRules == blind \/ \A r \in Idempotent : rules[r] <= 1

(* While an egress role runs its agent the masquerade rule of its interface is
   in the kernel: Egress.Run does not start on a failed Apply, and nothing but
   TeardownNAT removes the rule. *)
EgressBehindNAT ==
  torn \/ \A p \in Procs : role[p] = "running" => rules[<<"masq", internet[p]>>] > 0

(* A balancer range has as many rules that restore a connection's mark as rules
   that save it: EnableStickyECMP adds both in one Flush and DisableStickyECMP
   deletes both, unless it skipped a chain it could not list. *)
StickyPaired == skipped \/ \A c \in CIDRs : rules[<<"pre", c>>] = rules[<<"post", c>>]

(* DisableStickyECMP removes rules of its own range only, also when another
   range has the same network address and another mask. *)
DisablesItsOwn ==
  \A c \in CIDRs :
    rules'[<<"pre", c>>] < rules[<<"pre", c>>]
      => lastCall' \in {<<"teardown", 0>>, <<"disable", c>>}
DisableScoped == [][DisablesItsOwn]_fvars

(* The rules of processes that share one kernel table: none twice, none    *)
(* half of a pair, none missing under a running egress, and none removed   *)
(* for another range (pkg/routing/nftables.go, Egress.Run).                *)
FirewallSafe ==
  /\ [](FirewallTypeOK /\ NoDuplicateRules /\ EgressBehindNAT /\ StickyPaired)
  /\ DisableScoped
=============================================================================
