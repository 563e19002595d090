------------------------------ MODULE Balancer ------------------------------
(***************************************************************************)
(* The balancer's decision engine: Engine.Select against a registry that    *)
(* may be replaced and a health tracker whose prober runs beside it.        *)
(* Select holds the engine's lock from its first to its last step, but      *)
(* neither the registry's nor the tracker's, so both may change while it    *)
(* looks for a target.                                                      *)
(***************************************************************************)
EXTENDS Integers, Sequences, FiniteSets

CONSTANTS
  Egresses,    \* egress records: an id, a target address and a weight
  EgressLists, \* sequences of them that Replace may be called with
  Modes,       \* the modes a configuration may choose
  LabelMaps,   \* the label mappings: functions from <<type, value>> to ids
  Requests,    \* requests: a flow key (or Empty), a DSCP value and a mark
  FlowIdle,    \* idle timeout of a flow, in ticks
  MaxNow,      \* bound: clock ticks
  MaxSelects,  \* bound: calls of Select
  MaxReplaces  \* bound: calls of Replace

ASSUME BalancerAssumption ==
  /\ EgressLists \subseteq Seq(Egresses) /\ \A e \in Egresses : e.weight \in Int
  /\ FlowIdle \in Nat /\ MaxNow \in Nat /\ MaxSelects \in Nat /\ MaxReplaces \in Nat

VARIABLES
  lbMode, labelMap,  \* the engine's configuration
  current,         \* the registry's snapshot: a sequence of egress records
  status,          \* tracker: id -> "unknown", "up" or "down"
  probing,         \* the rest of the snapshot that ProbeOnce is walking
  flowEntries,     \* flow key -> [egressID, expiresAt] for the keys that have one
  cursor,          \* rrCursor
  clock,           \* the time Select is called with
  selPc,           \* the step of Select that comes next
  sel,             \* its request, the snapshot it took and the time
  tried,           \* candidates of the weighted list it has found down
  decided, chosen, \* the kind and the egress of the last decision
  steady,          \* history: targets present and not down during all of sel
  seen,            \* history: targets in the registry at some time during sel
  recent,          \* history: round-robin choices since the last disturbance
  selects, replaces

config == <<lbMode, labelMap>>
history == <<steady, seen, recent>>
engine == <<flowEntries, cursor, selPc, sel, tried, decided, chosen, selects>>
lbvars == <<config, current, status, probing, engine, clock, replaces, history>>

Empty == ""
FlowKeys == {r.flow : r \in Requests} \ {Empty}
Ids == {e.id : e \in Egresses}

(* normalizeEgresses: what NewSnapshot accepts. *)
normalizeEgresses(es) ==
  /\ es # <<>>
  /\ \A i \in DOMAIN es : es[i].id # Empty /\ es[i].weight > 0
  /\ \A i, j \in DOMAIN es : es[i].id = es[j].id => i = j

(* The weights of the first i egresses, added up. *)
WeightUpTo(es) ==
  LET sum[i \in 0..Len(es)] == IF i = 0 THEN 0 ELSE sum[i - 1] + es[i].weight IN sum

(* Every egress as often as its weight says, in the order of the list. *)
Weighted(es) ==
  [n \in 1..WeightUpTo(es)[Len(es)] |->
     es[CHOOSE i \in DOMAIN es : WeightUpTo(es)[i - 1] < n /\ n <= WeightUpTo(es)[i]]]

Targets(es) == {es[i] : i \in DOMAIN es}

Found(es, id) == {es[i] : i \in {j \in DOMAIN es : es[j].id = id}}

(* HealthTracker.IsHealthy: a target nobody has probed counts as healthy. *)
IsHealthy(e) == status[e.id] # "down"

(* normalizeLabels: every label names a configured egress. *)
normalizeLabels(map, es) == \A l \in DOMAIN map : Found(es, map[l]) # {}

NoCall == [req |-> Empty, snapshot |-> <<>>, now |-> 0]

BalancerTypeOK ==
  /\ lbMode \in Modes /\ labelMap \in LabelMaps
  /\ current \in EgressLists /\ normalizeEgresses(current)
  /\ status \in [Ids -> {"unknown", "up", "down"}]
  /\ DOMAIN flowEntries \subseteq FlowKeys
  /\ \A f \in DOMAIN flowEntries :
       flowEntries[f].egressID \in Ids /\ flowEntries[f].expiresAt \in 0..(MaxNow + FlowIdle)
  /\ selPc \in {"idle", "sticky", "label", "dumb"}
  /\ selPc = "dumb" => tried \in 0..Len(Weighted(sel.snapshot))
  /\ decided \in {"none", "sticky", "label", "dumb", "error"}
  /\ clock \in 0..MaxNow /\ selects \in 0..MaxSelects /\ replaces \in 0..MaxReplaces

NewEngine ==
  /\ lbMode \in Modes /\ current \in {c \in EgressLists : normalizeEgresses(c)}
  /\ labelMap \in {l \in LabelMaps : normalizeLabels(l, current)}
  /\ status = [i \in Ids |-> "unknown"] /\ probing = <<>>
  /\ flowEntries = <<>> /\ cursor = 0 /\ clock = 0
  /\ selPc = "idle" /\ sel = NoCall /\ tried = 0 /\ decided = "none" /\ chosen = Empty
  /\ steady = {} /\ seen = {} /\ recent = <<>> /\ selects = 0 /\ replaces = 0

-----------------------------------------------------------------------------
(* expireFlowsLocked: the flows that are still alive. *)
expireFlowsLocked == {f \in DOMAIN flowEntries : clock < flowEntries[f].expiresAt}

(* Engine.Select: lock, take the snapshot, expire old flows. *)
Select(req) ==
  /\ selPc = "idle" /\ selects < MaxSelects
  /\ selects' = selects + 1
  /\ flowEntries' = [f \in expireFlowsLocked |-> flowEntries[f]]
  /\ selPc' = "sticky" /\ sel' = [req |-> req, snapshot |-> current, now |-> clock] /\ UNCHANGED tried
  /\ steady' = {e \in Targets(current) : IsHealthy(e)} /\ seen' = Targets(current)
  /\ decided' = "none" /\ chosen' = Empty
  /\ UNCHANGED <<config, current, status, probing, cursor, clock, replaces, recent>>

Return(kind, e) ==
  /\ decided' = kind /\ chosen' = e
  /\ selPc' = "idle" /\ sel' = NoCall /\ tried' = 0

recordDecisionLocked(e, kind) ==
  /\ Return(kind, e)
  /\ flowEntries' = IF sel.req.flow = Empty THEN flowEntries
       ELSE [f \in DOMAIN flowEntries \cup {sel.req.flow} |->
              IF f = sel.req.flow THEN [egressID |-> e.id, expiresAt |-> sel.now + FlowIdle]
                                  ELSE flowEntries[f]]

(* The target that a flow's entry names, if the snapshot still has it. *)
StickyTarget_Cached ==
  IF sel.req.flow \in DOMAIN flowEntries
  THEN {[id |-> flowEntries[sel.req.flow].egressID, target |-> 1, weight |-> 1]} ELSE {}

StickyTarget ==
  IF sel.req.flow \in DOMAIN flowEntries
  THEN Found(sel.snapshot, flowEntries[sel.req.flow].egressID) ELSE {}

selectSticky ==
  /\ selPc = "sticky"
  /\ \/ \E e \in StickyTarget : IsHealthy(e) /\ recordDecisionLocked(e, "sticky")
     \/ /\ \A e \in StickyTarget : ~IsHealthy(e)
        /\ selPc' = "label"
        /\ flowEntries' = [f \in DOMAIN flowEntries \ {sel.req.flow} |-> flowEntries[f]]
        /\ UNCHANGED <<sel, tried, decided, chosen>>
  /\ UNCHANGED <<config, current, status, probing, cursor, clock, selects, replaces, history>>

mappedEgress(req) ==
  LET dscp == <<"dscp", req.dscp>>
      mark == <<"fwmark", req.fwmark>>
  IN IF req.dscp > 0 /\ dscp \in DOMAIN labelMap THEN {labelMap[dscp]}
     ELSE IF req.fwmark > 0 /\ mark \in DOMAIN labelMap THEN {labelMap[mark]}
     ELSE {}

LabelTarget ==
  IF lbMode = "dumb" THEN {}
  ELSE UNION {Found(sel.snapshot, id) : id \in mappedEgress(sel.req)}

selectLabel ==
  /\ selPc = "label"
  /\ \/ \E e \in LabelTarget : IsHealthy(e) /\ recordDecisionLocked(e, "label")
     \/ /\ \A e \in LabelTarget : ~IsHealthy(e)
        /\ selPc' = "dumb"
        /\ UNCHANGED <<flowEntries, sel, tried, decided, chosen>>
  /\ UNCHANGED <<config, current, status, probing, cursor, clock, selects, replaces, history>>

(* nextHealthyDumb: one candidate per step, as the tracker is asked each time;
   the loop ends after one turn through the weighted list. *)
Candidate == Weighted(sel.snapshot)[(cursor % Len(Weighted(sel.snapshot))) + 1]

Turns == Len(Weighted(sel.snapshot))

LastTurn(s) == IF Len(s) > Turns THEN Tail(s) ELSE s

nextHealthyDumb ==
  /\ selPc = "dumb"
  /\ IF tried = Turns
     THEN /\ Return("error", Empty)
          /\ UNCHANGED <<flowEntries, cursor, recent>>
     ELSE /\ cursor' = cursor + 1
          /\ IF IsHealthy(Candidate)
             THEN /\ recordDecisionLocked(Candidate, "dumb")
                  /\ recent' = IF sel.snapshot # current THEN <<>>
                               ELSE LastTurn(Append(recent, Candidate.id))
             ELSE /\ tried' = tried + 1 /\ recent' = <<>>
                  /\ UNCHANGED <<flowEntries, selPc, sel, decided, chosen>>
  /\ UNCHANGED <<config, current, status, probing, clock, selects, replaces, steady, seen>>

-----------------------------------------------------------------------------
(* HealthTracker.Run: ProbeOnce walks the snapshot it was given; a result is
   stored under the egress's ID whatever the registry holds by then. *)
ProbeOnce ==
  /\ probing = <<>> /\ probing' = current
  /\ UNCHANGED <<config, current, status, engine, clock, replaces, history>>

Set(result) ==
  /\ probing # <<>>
  /\ probing' = Tail(probing)
  /\ status' = [status EXCEPT ![Head(probing).id] = result]
  /\ steady' = {e \in steady : ~(e.id = Head(probing).id /\ result = "down")}
  /\ UNCHANGED <<config, current, engine, clock, replaces, seen, recent>>

(* Registry.Replace: refused unless the list can be normalised. *)
Replace(es) ==
  /\ replaces < MaxReplaces /\ replaces' = replaces + 1
  /\ IF normalizeEgresses(es)
     THEN /\ current' = es /\ recent' = <<>>
          /\ steady' = steady \cap Targets(es) /\ seen' = seen \cup Targets(es)
     ELSE UNCHANGED <<current, history>>
  /\ UNCHANGED <<config, status, probing, engine, clock>>

Tick ==
  /\ clock < MaxNow /\ clock' = clock + 1
  /\ UNCHANGED <<config, current, status, probing, engine, replaces, history>>

BalancerNext ==
  \/ \E req \in Requests : Select(req)
  \/ selectSticky \/ selectLabel \/ nextHealthyDumb
  \/ ProbeOnce \/ \E r \in {"up", "down"} : Set(r)
  \/ \E es \in EgressLists : Replace(es)
  \/ Tick

BalancerSpec == NewEngine /\ [][BalancerNext]_lbvars

-----------------------------------------------------------------------------
(* Select reports "no healthy egress targets" only if no target stayed in the
   registry and healthy from its first step to its last: flapping targets may
   all be missed, a steady one never. *)
NoFalseOutage == decided = "error" /\ selPc = "idle" => steady = {}

(* A decision names a target the registry held, with this address and weight,
   at some moment of the call: neither a flow entry nor a label brings a
   removed or re-addressed egress back. *)
DecisionWasCurrent ==
  decided \notin {"none", "error"} => chosen \in seen

(* Until a target is found down or the registry is replaced, any run of as
   many round-robin decisions as the weights add up to picks every egress
   exactly as often as its weight says, whatever sticky and labelled decisions
   come in between. *)
RoundRobinFair ==
  Len(recent) = Len(Weighted(current)) =>
    \A i \in DOMAIN current :
      Cardinality({k \in DOMAIN recent : recent[k] = current[i].id}) = current[i].weight

(* In labelled mode a request whose label names a target that is steady during
   the call goes there, unless its flow is already bound elsewhere: the other
   outcomes are the sticky one and the labelled one. *)
LabelHonoured ==
  \A e \in steady :
    lbMode = "labeled" /\ selPc = "dumb" => e.id \notin mappedEgress(sel.req)

(* A flow keeps its target: its entry is dropped or changed only when it has
   been idle for the timeout, or its target is down, or the registry held no
   such target when the call began. *)
KeepsFlows ==
  \A f \in DOMAIN flowEntries :
    \/ f \in DOMAIN flowEntries' /\ flowEntries'[f].egressID = flowEntries[f].egressID
    \/ clock >= flowEntries[f].expiresAt
    \/ status[flowEntries[f].egressID] = "down"
    \/ selPc # "idle" /\ Found(sel.snapshot, flowEntries[f].egressID) = {}
FlowsStick == [][KeepsFlows]_lbvars

(* What Select may answer beside the prober and a replaced registry: an    *)
(* outage only when there is one, a current target, the labelled one, a    *)
(* fair share, and the same for the same flow (Engine.Select).             *)
SelectionSafe ==
  /\ [](BalancerTypeOK /\ NoFalseOutage /\ DecisionWasCurrent /\ RoundRobinFair /\ LabelHonoured)
  /\ FlowsStick
=============================================================================
