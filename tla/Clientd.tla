------------------------------- MODULE Clientd ------------------------------
(***************************************************************************)
(* The node agent (pkg/clientd/agent.go) over the control plane's streams  *)
(* (module Fanout), with the reconnect loop of pkg/clientd/command.go.     *)
(*                                                                         *)
(* Agent.Run loads the cached state, registers, applies the cache, opens   *)
(* the streams and folds what arrives into its state: the first message of *)
(* a stream whatever its version, a later one only if it is newer.  Each   *)
(* change is saved, then applied to the device.  Any error ends Run, and   *)
(* the loop starts it again.                                               *)
(*                                                                         *)
(* The state is kept per kind of stream, as State does.  The registration  *)
(* is module ControlPlane's; what it does to the ledger is a Mutate here.  *)
(* The certificate stream is module CertRollover's.                        *)
(***************************************************************************)
EXTENDS Fanout

CONSTANTS MaxRestarts,  \* bound: restarts of the control plane
          MaxCrashes    \* bound: crashes of a node

VARIABLES run,       \* node -> where Agent.Run stands
          state,     \* node -> kind -> the message held in memory
          seen,      \* node -> kinds whose first message has arrived
          cache,     \* node -> kind -> the message in the state file
          device,    \* node -> kind -> the message last applied to the device
          good,      \* history: node -> the cached state has been applied
          restarts, crashes

clientVars == <<run, state, seen, cache, device, good>>
vars == <<fanoutVars, clientVars, restarts, crashes>>

Zero == [version |-> 0, entries |-> [o \in Overlays |-> Nil]]
ZeroState == [k \in Kinds |-> Zero]

(* Every variable holds a value of its shape, and the channels never       *)
(* exceed their capacity.                                                  *)
TypeOK ==
    /\ FanoutTypeOK
    /\ \A s \in Streams : Len(ch[s]) <= subscriberBuffer
    /\ run \in [Nodes -> {"down", "restore", "connect", "live", "save", "apply"}]
    /\ state \in [Nodes -> [Kinds -> Message]]
    /\ seen \in [Nodes -> SUBSET Kinds]
    /\ cache \in [Nodes -> [Kinds -> Message]]
    /\ device \in [Nodes -> [Kinds -> Message]]
    /\ good \in [Nodes -> BOOLEAN]
    /\ restarts \in Nat
    /\ crashes \in Nat

Init ==
    /\ FanoutInit
    /\ run = [n \in Nodes |-> "down"]
    /\ state = [n \in Nodes |-> ZeroState]
    /\ seen = [n \in Nodes |-> {}]
    /\ cache = [n \in Nodes |-> ZeroState]
    /\ device = [n \in Nodes |-> ZeroState]
    /\ good = [n \in Nodes |-> TRUE]
    /\ restarts = 0
    /\ crashes = 0

-----------------------------------------------------------------------------

Goto(n, l) == run' = [run EXCEPT ![n] = l]

(* Run returns: its context is cancelled, which ends the node's streams on *)
(* the server and drops what was on its way; the state is forgotten.       *)
Return(n) ==
    LET mine == {n} \X Kinds IN
    /\ Goto(n, "down")
    /\ state' = [state EXCEPT ![n] = ZeroState]
    /\ seen' = [seen EXCEPT ![n] = {}]
    /\ handler' = [s \in Streams |-> IF s \in mine THEN "off" ELSE handler[s]]
    /\ subscribers' = subscribers \ mine
    /\ ch' = [s \in Streams |-> IF s \in mine THEN <<>> ELSE ch[s]]
    /\ closed' = [s \in Streams |-> closed[s] /\ s \notin mine]
    /\ wire' = [s \in Streams |-> IF s \in mine THEN <<>> ELSE wire[s]]
    /\ subAt' = [s \in Streams |-> IF s \in mine THEN 0 ELSE subAt[s]]
    /\ UNCHANGED <<entries, version, owed, left, log>>

(* Load, and a registration that is accepted. *)
Start(n) ==
    /\ run[n] = "down"
    /\ state' = [state EXCEPT ![n] = cache[n]]
    /\ Goto(n, IF cache[n] = ZeroState THEN "connect" ELSE "restore")
    /\ UNCHANGED <<fanoutVars, seen, cache, device, good>>

(* The cached state is applied before any stream is opened. *)
Restore(n) ==
    /\ run[n] = "restore"
    /\ device' = [device EXCEPT ![n] = state[n]]
    /\ good' = [good EXCEPT ![n] = TRUE]
    /\ Goto(n, "connect")
    /\ UNCHANGED <<fanoutVars, state, seen, cache>>

Connect(n) ==
    /\ run[n] = "connect"
    /\ handler' = [s \in Streams |-> IF s[1] = n THEN "opened" ELSE handler[s]]
    /\ Goto(n, "live")
    /\ UNCHANGED <<entries, version, owed, left, subscribers, ch, closed, subAt,
                   wire, log, state, seen, cache, device, good>>

(* Mutant of Accepts: a stream's first message is compared like any other. *)
Accepts_NewerOnly(n, k, msg) == msg.version > state[n][k].version

(* WithOwnershipSnapshot for the first message of a stream, WithOwnership  *)
(* for the others; likewise for the peer list.                             *)
Accepts(n, k, msg) == k \notin seen[n] \/ msg.version > state[n][k].version

(* One turn of Run's loop, up to the decision whether anything changed. *)
Receive(n, k) ==
    LET s == <<n, k>>
        msg == Head(wire[s])
    IN /\ run[n] = "live"
       /\ wire[s] # <<>>
       /\ \/ /\ msg = Nil
             /\ Return(n)
          \/ /\ msg # Nil
             /\ wire' = [wire EXCEPT ![s] = Tail(@)]
             /\ seen' = [seen EXCEPT ![n] = @ \cup {k}]
             /\ IF Accepts(n, k, msg)
                THEN /\ state' = [state EXCEPT ![n][k] = msg]
                     /\ Goto(n, "save")
                ELSE UNCHANGED <<run, state>>
             /\ UNCHANGED <<entries, version, owed, left, serverVars, log>>
       /\ UNCHANGED <<cache, device, good>>

(* StateCache.Save replaces the file by a rename. *)
Save(n) ==
    /\ run[n] = "save"
    /\ cache' = [cache EXCEPT ![n] = state[n]]
    /\ good' = [good EXCEPT ![n] = @ /\ cache[n] = state[n]]
    /\ Goto(n, "apply")
    /\ UNCHANGED <<fanoutVars, state, seen, device>>

Apply(n) ==
    /\ run[n] = "apply"
    /\ device' = [device EXCEPT ![n] = state[n]]
    /\ good' = [good EXCEPT ![n] = TRUE]
    /\ Goto(n, "live")
    /\ UNCHANGED <<fanoutVars, state, seen, cache>>

(* Opening a stream, saving or applying fails, the last before or after    *)
(* the device took the state.                                              *)
Fail(n) ==
    /\ run[n] \in {"restore", "connect", "save", "apply"}
    /\ \/ UNCHANGED device
       \/ run[n] \in {"restore", "apply"} /\ device' = [device EXCEPT ![n] = state[n]]
    /\ Return(n)
    /\ UNCHANGED <<cache, good>>

(* The process dies, and its userspace device with it. *)
Crash(n) ==
    /\ run[n] # "down"
    /\ crashes < MaxCrashes
    /\ crashes' = crashes + 1
    /\ device' = [device EXCEPT ![n] = ZeroState]
    /\ Return(n)
    /\ UNCHANGED <<cache, good, restarts>>

RestartControlPlane ==
    /\ restarts < MaxRestarts
    /\ restarts' = restarts + 1
    /\ Restart
    /\ UNCHANGED <<clientVars, crashes>>

ServerStep == FanoutNext /\ UNCHANGED <<clientVars, restarts, crashes>>

AgentStep(n) ==
    /\ \/ Start(n) \/ Restore(n) \/ Connect(n) \/ Save(n) \/ Apply(n) \/ Fail(n)
       \/ \E k \in Kinds : Receive(n, k)
    /\ UNCHANGED <<restarts, crashes>>

Next ==
    \/ ServerStep
    \/ RestartControlPlane
    \/ \E n \in Nodes : AgentStep(n) \/ Crash(n)

Spec == Init /\ [][Next]_vars

(* Goroutines are scheduled, timers of the reconnect loop fire, and what   *)
(* may fail (calls, files, device) does not fail for ever.  The two streams *)
(* share Run's channel, which serves blocked senders in turn.              *)
Serve(s) ==
    /\ SendSnapshot(s) \/ Subscribe(s) \/ Forward(s) \/ Abort(s)
    /\ UNCHANGED <<clientVars, restarts, crashes>>

Listen(w) ==
    /\ \E k \in Kinds : Broadcast(w, k)
    /\ UNCHANGED <<clientVars, restarts, crashes>>

Fairness ==
    /\ \A w \in Writers : WF_vars(Listen(w))
    /\ \A s \in Streams : WF_vars(Serve(s))
    /\ \A n \in Nodes :
         /\ WF_vars(Start(n) /\ UNCHANGED <<restarts, crashes>>)
         /\ SF_vars(Connect(n) /\ UNCHANGED <<restarts, crashes>>)
         /\ SF_vars(Restore(n) /\ UNCHANGED <<restarts, crashes>>)
         /\ SF_vars(Save(n) /\ UNCHANGED <<restarts, crashes>>)
         /\ SF_vars(Apply(n) /\ UNCHANGED <<restarts, crashes>>)
         /\ \A k \in Kinds : SF_vars(Receive(n, k) /\ UNCHANGED <<restarts, crashes>>)

FairSpec == Spec /\ Fairness

-----------------------------------------------------------------------------

(* No update is lost once a stream has subscribed: the newest version of   *)
(* the ledger is still with the writer that made it, in the channel, on    *)
(* the wire, or it is what the agent holds, even though writers broadcast  *)
(* out of order and the agent drops what looks old.                        *)
NothingLostAfterSubscribe ==
    \A n \in Nodes, k \in Kinds :
        LET s == <<n, k>> IN
        s \in subscribers /\ version > subAt[s] =>
          \/ \E w \in Writers : /\ owed[w] # Nil
                                /\ k \in left[w]
                                /\ owed[w].version = version
          \/ \E i \in 1 .. Len(ch[s]) : ch[s][i].version = version
          \/ \E i \in 1 .. Len(wire[s]) : wire[s][i] = Snapshot
          \/ k \in seen[n] /\ state[n][k] = Snapshot

(* The streams keep their shape, no channel holds more than its capacity,  *)
(* and none of them loses the newest update (Broadcast).                   *)
StreamsSafe == TypeOK /\ NothingLostAfterSubscribe

(* The copy of a stream: what its agent keeps of it while it is connected. *)
Copy ==
    [s \in Streams |->
       IF handler[s] # "off" /\ s[2] \in seen[s[1]] THEN state[s[1]][s[2]] ELSE Nil]

Replica == INSTANCE LedgerReplica WITH
    Replicas <- Streams, Values <- Snapshots, Empty <- Zero.entries,
    Offline <- Nil, copy <- Copy

(* What a node keeps of a connected stream is a snapshot this daemon       *)
(* process published, and only ever moves forward: the agent implements    *)
(* LedgerReplica, across restarts of either side.                          *)
ImplementsReplica == Replica!Spec

(* The stream is up, and the agent holds less than the ledger had when the *)
(* stream subscribed: the update fell between Snapshot and Subscribe.      *)
MissedBeforeSubscribe(n, k) ==
    /\ handler[<<n, k>>] = "live"
    /\ version = subAt[<<n, k>>]
    /\ device[n][k].version < version

(* Whatever is dropped, reordered, crashed or restarted on the way, every  *)
(* device ends up with the ledger's final contents, unless an update fell  *)
(* between the Snapshot and the Subscribe of its stream.                   *)
OnlyTheGapLosesUpdates ==
    <>[](\A n \in Nodes, k \in Kinds :
           device[n][k] = Snapshot \/ MissedBeforeSubscribe(n, k))

(* Every device ends up with the ledger's final contents. *)
UpdatesArrive ==
    <>[](\A n \in Nodes, k \in Kinds : device[n][k] = Snapshot)

(* While Run is not active, the state file holds a state that was applied  *)
(* successfully: the last known good one.  The code does not keep this: it *)
(* saves a state before it applies it.                                     *)
CacheIsLastKnownGood ==
    \A n \in Nodes : run[n] = "down" => good[n]

=============================================================================
