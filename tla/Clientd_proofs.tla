--------------------------- MODULE Clientd_proofs ---------------------------
(***************************************************************************)
(* The proofs that module Clientd implements module LedgerReplica and that *)
(* its streams lose nothing after they have subscribed, for any nodes,     *)
(* writers, buffer sizes, crashes and restarts.                            *)
(***************************************************************************)
EXTENDS Clientd, SequenceTheorems, TLAPS

USE ZenonT(60)

(* The messages this daemon process has published, version 0 included. *)
Published == {Replica!At(v) : v \in 0 .. Len(log)}

(* Whatever the server has in hand is a published message. *)
ServerInv ==
  /\ log \in Seq(Snapshots) /\ entries \in Snapshots /\ version = Len(log)
  /\ Snapshot \in Published
  /\ owed \in [Writers -> Published \cup {Nil}]
  /\ handler \in [Streams -> {"off", "opened", "sent", "live"}]
  /\ ch \in [Streams -> Seq(Published)]
  /\ wire \in [Streams -> Seq(Message \cup {Nil})]
  /\ \A s \in Streams : handler[s] # "off" => wire[s] \in Seq(Published)

Fresh == {"down", "restore", "connect"}

(* While its streams are not open an agent has received nothing and nothing is *)
(* on its way; what it keeps of an open stream is a published message.      *)
AgentInv ==
  /\ run \in [Nodes -> {"down", "restore", "connect", "live", "save", "apply"}]
  /\ seen \in [Nodes -> SUBSET Kinds]
  /\ state \in [Nodes -> [Kinds -> Message]] /\ cache \in [Nodes -> [Kinds -> Message]]
  /\ \A n \in Nodes : run[n] \in Fresh =>
       seen[n] = {} /\ \A k \in Kinds : handler[<<n, k>>] = "off" /\ wire[<<n, k>>] = <<>>
  /\ \A n \in Nodes, k \in Kinds :
       handler[<<n, k>>] # "off" /\ k \in seen[n] => state[n][k] \in Published

CInv == ServerInv /\ AgentInv

-----------------------------------------------------------------------------
(* Published messages are messages. *)
LEMMA PublishedMessages ==
  ASSUME log \in Seq(Snapshots)
  PROVE  /\ Published \subseteq Message /\ Nil \notin Published
         /\ \A m \in Published : m.version \in 0 .. Len(log) /\ m = Replica!At(m.version)
<1>1. Zero.entries \in Snapshots
  BY DEF Zero, Snapshots
<1>2. ASSUME NEW v \in 0 .. Len(log)
      PROVE  Replica!At(v) \in Message /\ Replica!At(v).version = v
  <2>1. v = 0 \/ log[v] \in Snapshots
    BY ElementOfSeq, LenProperties, SMTT(30)
  <2> QED BY <1>1, <2>1, SMTT(30) DEF Replica!At, Message
<1>3. Nil \notin Message
  BY FanoutAssumption
<1> QED BY <1>2, <1>3 DEF Published

(* A mutation leaves what was published before it as it was. *)
LEMMA PublishedGrows ==
  ASSUME log \in Seq(Snapshots), NEW e \in Snapshots, log' = Append(log, e)
  PROVE  /\ Published \subseteq Published'
         /\ [version |-> Len(log) + 1, entries |-> e] \in Published'
         /\ log' \in Seq(Snapshots) /\ Len(log') = Len(log) + 1
<1>1. /\ log' \in Seq(Snapshots) /\ Len(log') = Len(log) + 1 /\ Len(log) \in Nat
      /\ \A i \in 1 .. Len(log) : log'[i] = log[i]
      /\ log'[Len(log) + 1] = e
  BY AppendProperties, LenProperties, SMTT(30)
<1>2. \A v \in 0 .. Len(log) : Replica!At(v)' = Replica!At(v)
  BY <1>1, SMTT(30) DEF Replica!At, Zero
<1>3. Published \subseteq Published'
  BY <1>1, <1>2, SMTT(30) DEF Published
<1>4. Replica!At(Len(log))' = [version |-> Len(log) + 1, entries |-> e]
  BY <1>1, SMTT(30) DEF Replica!At
<1> QED BY <1>1, <1>3, <1>4, SMTT(30) DEF Published

-----------------------------------------------------------------------------
(* What a step does to the copies: nothing while it leaves open streams open *)
(* and the agents' states alone; a step that ends streams disconnects them.  *)
LEMMA SameCopies ==
  ASSUME UNCHANGED <<seen, state>>,
         \A s \in Streams : (handler'[s] # "off") <=> (handler[s] # "off")
  PROVE  Copy' = Copy
  BY DEF Copy

LEMMA EndedCopies ==
  ASSUME NEW R \in SUBSET Streams, log' = log,
         \A s \in R : handler'[s] = "off",
         \A s \in Streams \ R : /\ (handler'[s] # "off") <=> (handler[s] # "off")
                              /\ seen'[s[1]] = seen[s[1]] /\ state'[s[1]] = state[s[1]]
  PROVE  Replica!Next
<1>1. Copy' = [r \in Streams |-> IF r \in R THEN Nil ELSE Copy[r]]
  BY DEF Copy
<1>2. Replica!Disconnect(R)
  BY <1>1 DEF Replica!Disconnect
<1> QED BY <1>2 DEF Replica!Next

-----------------------------------------------------------------------------
(* Ledger.reassign publishes. *)
LEMMA MutateStep ==
  ASSUME CInv, NEW w \in Writers, NEW o \in Overlays, NEW m \in Names, Mutate(w, o, m),
         UNCHANGED clientVars
  PROVE  CInv' /\ Replica!Next
<1>1. entries' \in Snapshots /\ log' = Append(log, entries') /\ version' = Len(log) + 1
  BY DEF CInv, ServerInv, Mutate, Reassign, Snapshots
<1>2. /\ Published \subseteq Published' /\ log' \in Seq(Snapshots) /\ Len(log') = Len(log) + 1
      /\ [version |-> Len(log) + 1, entries |-> entries'] \in Published'
  BY <1>1, PublishedGrows DEF CInv, ServerInv
<1>3. UNCHANGED <<handler, ch, wire, run, seen, state, cache>>
  BY DEF Mutate, serverVars, clientVars
<1>4. owed' \in [Writers -> Published' \cup {Nil}]
  BY <1>1, <1>2 DEF CInv, ServerInv, Mutate
<1>5. Snapshot' \in Published'
  BY <1>1, <1>2 DEF Snapshot
<1>6. Seq(Published) \subseteq Seq(Published')
  BY <1>2, SeqMonotonic
<1>7. ServerInv'
  BY <1>1, <1>2, <1>3, <1>4, <1>5, <1>6 DEF CInv, ServerInv
<1>8. AgentInv'
  BY <1>2, <1>3 DEF CInv, AgentInv
<1>9. Copy' = Copy
  BY <1>3, SameCopies
<1>10. Replica!Publish
  BY <1>1, <1>9 DEF Replica!Publish
<1> QED BY <1>7, <1>8, <1>10 DEF CInv, Replica!Next

(* A broadcast moves published messages to the channels. *)
LEMMA BroadcastStep ==
  ASSUME CInv, NEW w \in Writers, NEW k \in Kinds, Broadcast(w, k), UNCHANGED clientVars
  PROVE  CInv' /\ UNCHANGED <<log, Copy>>
<1>1. UNCHANGED <<log, entries, version, handler, wire, run, seen, state, cache>>
  BY DEF Broadcast, clientVars
<1>2. Published' = Published /\ Snapshot' = Snapshot
  BY <1>1 DEF Published, Replica!At, Snapshot
<1>3. owed[w] \in Published
  BY DEF CInv, ServerInv, Broadcast
<1>4. ch' \in [Streams -> Seq(Published)]
  BY <1>3, AppendProperties DEF CInv, ServerInv, Broadcast
<1>5. owed' \in [Writers -> Published \cup {Nil}]
  BY DEF CInv, ServerInv, Broadcast
<1>6. ServerInv'
  BY <1>1, <1>2, <1>4, <1>5 DEF CInv, ServerInv
<1>7. AgentInv'
  BY <1>1, <1>2 DEF CInv, AgentInv
<1> QED BY <1>1, <1>6, <1>7, SameCopies DEF CInv

(* The handler of a stream sends what it has, or subscribes. *)
LEMMA HandlerStep ==
  ASSUME CInv, NEW s \in Streams, SendSnapshot(s) \/ Subscribe(s) \/ Forward(s),
         UNCHANGED clientVars
  PROVE  CInv' /\ UNCHANGED <<log, Copy>>
<1>1. UNCHANGED <<log, entries, version, owed, run, seen, state, cache>>
  BY DEF SendSnapshot, Subscribe, Forward, clientVars
<1>2. Published' = Published /\ Snapshot' = Snapshot
  BY <1>1 DEF Published, Replica!At, Snapshot
<1>3. handler[s] # "off" /\ wire[s] \in Seq(Published)
  BY DEF CInv, ServerInv, SendSnapshot, Subscribe, Forward
<1>4. PICK h \in {"sent", "live"} : handler' = [handler EXCEPT ![s] = h]
  BY DEF CInv, ServerInv, SendSnapshot, Subscribe, Forward
<1>5. ch' \in [Streams -> Seq(Published)]
  <2>1. CASE Forward(s)
    <3>1. Tail(ch[s]) \in Seq(Published)
      BY <2>1, HeadTailProperties DEF CInv, ServerInv, Forward
    <3> QED BY <2>1, <3>1 DEF CInv, ServerInv, Forward
  <2>2. CASE ~Forward(s)
    BY <2>2 DEF CInv, ServerInv, SendSnapshot, Subscribe
  <2> QED BY <2>1, <2>2
<1>6. wire' = wire \/ \E m \in Published : wire' = [wire EXCEPT ![s] = Append(@, m)]
  <2>1. CASE SendSnapshot(s)
    BY <2>1 DEF CInv, ServerInv, SendSnapshot
  <2>2. CASE Subscribe(s)
    BY <2>2 DEF Subscribe
  <2>3. CASE Forward(s)
    <3>1. Head(ch[s]) \in Published
      BY <2>3, HeadTailProperties DEF CInv, ServerInv, Forward
    <3> QED BY <2>3, <3>1 DEF Forward
  <2> QED BY <2>1, <2>2, <2>3
<1>7. PICK q \in Seq(Published) : wire' = [wire EXCEPT ![s] = q]
  BY <1>3, <1>6, AppendProperties DEF CInv, ServerInv
<1>8. q \in Seq(Message \cup {Nil})
  BY PublishedMessages, SeqMonotonic DEF CInv, ServerInv
<1>9. ServerInv'
  BY <1>1, <1>2, <1>4, <1>5, <1>7, <1>8 DEF CInv, ServerInv
<1>10. run[s[1]] \notin Fresh /\ s = <<s[1], s[2]>> /\ s[1] \in Nodes /\ s[2] \in Kinds
  BY <1>3, SMTT(30) DEF CInv, AgentInv, Streams
<1>11. AgentInv'
  BY <1>1, <1>2, <1>3, <1>4, <1>7, <1>10, SMTT(30) DEF CInv, ServerInv, AgentInv, Streams
<1>12. Copy' = Copy
  BY <1>1, <1>3, <1>4, SameCopies DEF CInv, ServerInv
<1> QED BY <1>1, <1>9, <1>11, <1>12 DEF CInv

(* The server ends a stream: its last message is Nil. *)
LEMMA AbortStep ==
  ASSUME CInv, NEW s \in Streams, Abort(s), UNCHANGED clientVars
  PROVE  CInv' /\ Replica!Next
<1>1. UNCHANGED <<log, entries, version, owed, ch, run, seen, state, cache>>
  BY DEF Abort, clientVars
<1>2. Published' = Published /\ Snapshot' = Snapshot
  BY <1>1 DEF Published, Replica!At, Snapshot
<1>3. /\ handler[s] = "live" /\ handler' = [handler EXCEPT ![s] = "off"]
      /\ wire' = [wire EXCEPT ![s] = Append(@, Nil)]
  BY DEF Abort
<1>4. Append(wire[s], Nil) \in Seq(Message \cup {Nil})
  BY AppendProperties DEF CInv, ServerInv
<1>5. ServerInv'
  BY <1>1, <1>2, <1>3, <1>4 DEF CInv, ServerInv
<1>6. run[s[1]] \notin Fresh /\ s = <<s[1], s[2]>> /\ s[1] \in Nodes /\ s[2] \in Kinds
  BY <1>3, SMTT(30) DEF CInv, AgentInv, Streams
<1>7. AgentInv'
  BY <1>1, <1>2, <1>3, <1>6 DEF CInv, ServerInv, AgentInv, Streams
<1>8. Replica!Next
  <2>1. /\ {s} \in SUBSET Streams /\ \A r \in {s} : handler'[r] = "off"
        /\ \A r \in Streams \ {s} : handler'[r] = handler[r]
    BY <1>3 DEF CInv, ServerInv
  <2> QED BY <1>1, <2>1, EndedCopies
<1> QED BY <1>5, <1>7, <1>8 DEF CInv

(* The control plane restarts: what is still on its way counts no more. *)
LEMMA RestartStep ==
  ASSUME CInv, Restart, UNCHANGED clientVars
  PROVE  CInv' /\ Replica!Next
<1>1. /\ UNCHANGED <<run, seen, state, cache>> /\ log' = <<>> /\ version' = 0
      /\ entries' = [o \in Overlays |-> Nil] /\ owed' = [w \in Writers |-> Nil]
      /\ handler' = [s \in Streams |-> "off"] /\ ch' = [s \in Streams |-> <<>>]
  BY DEF Restart, clientVars
<1>2. PICK kept \in [Streams -> 0 .. MaxVersion + 1] :
         wire' = [s \in Streams |-> IF handler[s] = "off" THEN wire[s]
                                   ELSE Append(SelectPrefix(wire[s], kept[s]), Nil)]
  BY DEF Restart
<1>3. ASSUME NEW s \in Streams
      PROVE  Append(SelectPrefix(wire[s], kept[s]), Nil) \in Seq(Message \cup {Nil})
  <2>1. wire[s] \in Seq(Message \cup {Nil}) /\ Len(wire[s]) \in Nat /\ kept[s] \in Nat
    BY LenProperties, FanoutAssumption, SMTT(30) DEF CInv, ServerInv
  <2> DEFINE len == IF kept[s] < Len(wire[s]) THEN kept[s] ELSE Len(wire[s])
  <2>2. len \in Int /\ \A i \in 1 .. len : wire[s][i] \in Message \cup {Nil}
    BY <2>1, ElementOfSeq, SMTT(30)
  <2>3. SubSeq(wire[s], 1, len) \in Seq(Message \cup {Nil})
    <3> HIDE DEF len
    <3> QED BY <2>2, SubSeqProperties, SMTT(30)
  <2> QED BY <2>3, AppendProperties DEF SelectPrefix
<1>4. wire' \in [Streams -> Seq(Message \cup {Nil})]
  BY <1>2, <1>3 DEF CInv, ServerInv
<1>5. log' \in Seq(Snapshots) /\ Len(log') = 0 /\ entries' \in Snapshots
  BY <1>1, EmptySeq DEF Snapshots
<1>6. Snapshot' \in Published'
  BY <1>1, <1>5, SMTT(30) DEF Published, Replica!At, Snapshot, Zero
<1>7. ServerInv'
  BY <1>1, <1>4, <1>5, <1>6, EmptySeq DEF CInv, ServerInv
<1>8. AgentInv'
  BY <1>1, <1>2 DEF CInv, AgentInv, Streams
<1>9. Copy' = [s \in Streams |-> Nil]
  BY <1>1 DEF Copy
<1>10. Replica!Restart
  BY <1>1, <1>9 DEF Replica!Restart
<1> QED BY <1>7, <1>8, <1>10 DEF CInv, Replica!Next

-----------------------------------------------------------------------------
(* Run returns: the streams of the node end and its state is forgotten. *)
LEMMA ReturnStep ==
  ASSUME CInv, NEW n \in Nodes, Return(n), cache' = cache
  PROVE  CInv' /\ Replica!Next
<1> DEFINE mine == {n} \X Kinds
<1>1. /\ UNCHANGED <<entries, version, owed, log>>
      /\ run' = [run EXCEPT ![n] = "down"] /\ seen' = [seen EXCEPT ![n] = {}]
      /\ state' = [state EXCEPT ![n] = ZeroState]
      /\ handler' = [s \in Streams |-> IF s \in mine THEN "off" ELSE handler[s]]
      /\ ch' = [s \in Streams |-> IF s \in mine THEN <<>> ELSE ch[s]]
      /\ wire' = [s \in Streams |-> IF s \in mine THEN <<>> ELSE wire[s]]
  BY DEF Return, Goto
<1>2. Published' = Published /\ Snapshot' = Snapshot
  BY <1>1 DEF Published, Replica!At, Snapshot
<1>3. mine \subseteq Streams /\ \A s \in Streams : s \in mine <=> s[1] = n
  BY DEF Streams
<1> HIDE DEF mine
<1>4. ServerInv'
  BY <1>1, <1>2, EmptySeq DEF CInv, ServerInv
<1>5. ZeroState \in [Kinds -> Message]
  BY DEF ZeroState, Zero, Message, Snapshots
<1>6. /\ run' \in [Nodes -> {"down", "restore", "connect", "live", "save", "apply"}]
      /\ seen' \in [Nodes -> SUBSET Kinds] /\ state' \in [Nodes -> [Kinds -> Message]]
  BY <1>1, <1>5 DEF CInv, AgentInv
<1>7. ASSUME NEW p \in Nodes, NEW k \in Kinds
      PROVE  IF p = n
             THEN handler'[<<p, k>>] = "off" /\ wire'[<<p, k>>] = <<>> /\ seen'[p] = {}
             ELSE /\ handler'[<<p, k>>] = handler[<<p, k>>] /\ wire'[<<p, k>>] = wire[<<p, k>>]
                  /\ seen'[p] = seen[p] /\ run'[p] = run[p] /\ state'[p] = state[p]
  <2>1. <<p, k>> \in Streams /\ (<<p, k>> \in mine <=> p = n)
    BY <1>3 DEF Streams
  <2> QED BY <1>1, <2>1 DEF CInv, AgentInv
<1>8. \A p \in Nodes : run'[p] \in Fresh => seen'[p] = {}
  BY <1>1 DEF CInv, AgentInv
<1>9. AgentInv'
  <2>1. \A p \in Nodes, k \in Kinds :
          run'[p] \in Fresh => handler'[<<p, k>>] = "off" /\ wire'[<<p, k>>] = <<>>
    BY <1>7, SMTT(30) DEF CInv, AgentInv
  <2>2. \A p \in Nodes, k \in Kinds :
          handler'[<<p, k>>] # "off" /\ k \in seen'[p] => state'[p][k] \in Published
    BY <1>7, SMTT(30) DEF CInv, AgentInv
  <2>3. cache' \in [Nodes -> [Kinds -> Message]]
    BY DEF CInv, AgentInv
  <2> QED BY <1>2, <1>6, <1>8, <2>1, <2>2, <2>3 DEF AgentInv
<1>10. Replica!Next
  <2>1. \A s \in mine : handler'[s] = "off"
    BY <1>1, <1>3
  <2>2. \A s \in Streams \ mine : /\ handler'[s] = handler[s] /\ s[1] \in Nodes \ {n}
                                /\ seen'[s[1]] = seen[s[1]] /\ state'[s[1]] = state[s[1]]
    BY <1>1, <1>3 DEF CInv, AgentInv, Streams
  <2> QED BY <1>1, <1>3, <2>1, <2>2, EndedCopies
<1> QED BY <1>4, <1>9, <1>10 DEF CInv

(* The agent's steps that receive nothing. *)
LEMMA LocalStep ==
  ASSUME CInv, NEW n \in Nodes, Start(n) \/ Restore(n) \/ Save(n) \/ Apply(n)
  PROVE  CInv' /\ UNCHANGED <<log, Copy>>
<1>1. UNCHANGED <<log, entries, version, owed, handler, ch, wire, seen>>
  BY DEF Start, Restore, Save, Apply, fanoutVars, serverVars
<1>2. Published' = Published /\ Snapshot' = Snapshot
  BY <1>1 DEF Published, Replica!At, Snapshot
<1>3. ServerInv'
  BY <1>1, <1>2 DEF CInv, ServerInv
<1>4. CASE Start(n)
  <2>1. run[n] = "down" /\ seen[n] = {} /\ state' = [state EXCEPT ![n] = cache[n]] /\ cache' = cache
    BY <1>4 DEF Start, CInv, AgentInv, Fresh
  <2>2. PICK l \in {"connect", "restore"} : run' = [run EXCEPT ![n] = l]
    BY <1>4 DEF Start, Goto
  <2>3. AgentInv'
    BY <1>1, <1>2, <2>1, <2>2 DEF CInv, AgentInv, Fresh
  <2>4. \A p \in Nodes : state'[p] = state[p] \/ seen[p] = {}
    BY <2>1 DEF CInv, AgentInv
  <2>5. Copy' = Copy
    BY <1>1, <2>4 DEF Copy, Streams
  <2> QED BY <1>1, <1>3, <2>3, <2>5 DEF CInv
<1>5. CASE Restore(n) \/ Save(n) \/ Apply(n)
  <2>1. state' = state /\ run[n] \in {"restore", "save", "apply"}
    BY <1>5 DEF Restore, Save, Apply
  <2>2. cache' \in [Nodes -> [Kinds -> Message]]
    BY <1>5 DEF Restore, Save, Apply, CInv, AgentInv
  <2>3. PICK l \in {"connect", "live", "apply"} :
           run' = [run EXCEPT ![n] = l] /\ (l = "connect" => run[n] = "restore")
    BY <1>5 DEF Restore, Save, Apply, Goto
  <2>4. AgentInv'
    BY <1>1, <1>2, <2>1, <2>2, <2>3 DEF CInv, AgentInv, Fresh
  <2> QED BY <1>1, <1>3, <2>1, <2>4, SameCopies DEF CInv
<1> QED BY <1>4, <1>5

(* The streams are opened; nothing has arrived on them yet. *)
LEMMA ConnectStep ==
  ASSUME CInv, NEW n \in Nodes, Connect(n)
  PROVE  CInv' /\ UNCHANGED <<log, Copy>>
<1>1. /\ UNCHANGED <<log, entries, version, owed, ch, wire, seen, state, cache>>
      /\ handler' = [s \in Streams |-> IF s[1] = n THEN "opened" ELSE handler[s]]
      /\ run' = [run EXCEPT ![n] = "live"]
  BY DEF Connect, Goto
<1>2. Published' = Published /\ Snapshot' = Snapshot
  BY <1>1 DEF Published, Replica!At, Snapshot
<1>3. run[n] = "connect" /\ seen[n] = {} /\ \A k \in Kinds : wire[<<n, k>>] = <<>>
  BY DEF Connect, CInv, AgentInv, Fresh
<1>4. \A s \in Streams : s[1] = n => wire[s] \in Seq(Published)
  <2> SUFFICES ASSUME NEW s \in Streams, s[1] = n PROVE wire[s] \in Seq(Published)
    OBVIOUS
  <2>1. s = <<n, s[2]>> /\ s[2] \in Kinds
    BY SMTT(30) DEF Streams
  <2>2. wire[s] = <<>>
    BY <1>3, <2>1
  <2> QED BY <2>2, EmptySeq
<1>5. ServerInv'
  BY <1>1, <1>2, <1>4 DEF CInv, ServerInv
<1>6. \A p \in Nodes, k \in Kinds : p # n => handler'[<<p, k>>] = handler[<<p, k>>]
  BY <1>1 DEF Streams
<1>7. AgentInv'
  <2>1. /\ run' \in [Nodes -> {"down", "restore", "connect", "live", "save", "apply"}]
        /\ \A p \in Nodes : run'[p] \in Fresh => p # n /\ run[p] \in Fresh
    BY <1>1 DEF CInv, AgentInv, Fresh
  <2>2. \A p \in Nodes : run'[p] \in Fresh =>
          seen'[p] = {} /\ \A k \in Kinds : handler'[<<p, k>>] = "off" /\ wire'[<<p, k>>] = <<>>
    BY <1>1, <1>6, <2>1, SMTT(30) DEF CInv, AgentInv
  <2>3. \A p \in Nodes, k \in Kinds :
          handler'[<<p, k>>] # "off" /\ k \in seen'[p] => state'[p][k] \in Published
    BY <1>1, <1>3, <1>6 DEF CInv, AgentInv
  <2> QED BY <1>1, <1>2, <2>1, <2>2, <2>3 DEF CInv, AgentInv
<1>8. Copy' = Copy
  BY <1>1, <1>3 DEF Copy
<1> QED BY <1>1, <1>5, <1>7, <1>8 DEF CInv

(* A message arrives: kept as a first one, kept as a newer one, or dropped. *)
LEMMA ReceiveStep ==
  ASSUME CInv, NEW n \in Nodes, NEW k \in Kinds, Receive(n, k)
  PROVE  CInv' /\ [Replica!Next]_<<log, Copy>>
<1> DEFINE s == <<n, k>>
           msg == Head(wire[s])
<1>0. s \in Streams /\ s[1] = n /\ s[2] = k /\ run[n] = "live" /\ wire[s] # <<>> /\ cache' = cache
  BY DEF Streams, Receive
<1>1. CASE msg = Nil
  BY <1>0, <1>1, ReturnStep DEF Receive
<1>2. CASE msg # Nil
  <2>1. /\ UNCHANGED <<log, entries, version, owed, handler, ch, cache>>
        /\ wire' = [wire EXCEPT ![s] = Tail(@)] /\ seen' = [seen EXCEPT ![n] = @ \cup {k}]
        /\ IF Accepts(n, k, msg)
           THEN state' = [state EXCEPT ![n][k] = msg] /\ run' = [run EXCEPT ![n] = "save"]
           ELSE UNCHANGED <<run, state>>
    BY <1>0, <1>2 DEF Receive, Return, Goto, serverVars
  <2>2. Published' = Published /\ Snapshot' = Snapshot
    BY <2>1 DEF Published, Replica!At, Snapshot
  <2>3. msg \in Message /\ Tail(wire[s]) \in Seq(Message \cup {Nil})
    BY <1>0, <1>2, HeadTailProperties, SMTT(30) DEF CInv, ServerInv
  <2>4. handler[s] # "off" => msg \in Published /\ Tail(wire[s]) \in Seq(Published)
    BY <1>0, HeadTailProperties DEF CInv, ServerInv
  <2> HIDE DEF s, msg
  <2>5. ServerInv'
    BY <1>0, <2>1, <2>2, <2>3, <2>4 DEF CInv, ServerInv
  <2>6. \A p \in Nodes, j \in Kinds : <<p, j>> # s => wire'[<<p, j>>] = wire[<<p, j>>]
    BY <2>1 DEF CInv, ServerInv, Streams
  <2>7. run'[n] \notin Fresh /\ \A p \in Nodes : run'[p] \in Fresh => p # n /\ run[p] \in Fresh
    BY <1>0, <2>1 DEF CInv, AgentInv, Fresh
  <2>8. state' \in [Nodes -> [Kinds -> Message]] /\ seen' \in [Nodes -> SUBSET Kinds]
    <3>1. seen' \in [Nodes -> SUBSET Kinds]
      BY <2>1 DEF CInv, AgentInv
    <3>2. CASE Accepts(n, k, msg)
      <4>1. [state[n] EXCEPT ![k] = msg] \in [Kinds -> Message]
        BY <2>3 DEF CInv, AgentInv
      <4>2. state' = [state EXCEPT ![n] = [state[n] EXCEPT ![k] = msg]]
        BY <2>1, <3>2
      <4> QED BY <3>1, <4>1, <4>2 DEF CInv, AgentInv
    <3>3. CASE ~Accepts(n, k, msg)
      BY <2>1, <3>1, <3>3 DEF CInv, AgentInv
    <3> QED BY <3>2, <3>3
  <2>9. run' \in [Nodes -> {"down", "restore", "connect", "live", "save", "apply"}]
    BY <2>1 DEF CInv, AgentInv
  <2>10. \A p \in Nodes, j \in Kinds : <<p, j>> # s =>
           state'[p][j] = state[p][j] /\ (j \in seen'[p] <=> j \in seen[p])
    BY <2>1, SMTT(30) DEF CInv, AgentInv, s
  <2>11. k \in seen'[n] /\ state'[n][k] = (IF Accepts(n, k, msg) THEN msg ELSE state[n][k])
    BY <2>1, SMTT(30) DEF CInv, AgentInv
  <2>12. ~Accepts(n, k, msg) => k \in seen[n]
    BY DEF Accepts
  <2>13. \A p \in Nodes, j \in Kinds :
           handler[<<p, j>>] # "off" /\ j \in seen'[p] => state'[p][j] \in Published
    <3> SUFFICES ASSUME NEW p \in Nodes, NEW j \in Kinds,
                        handler[<<p, j>>] # "off", j \in seen'[p]
                 PROVE  state'[p][j] \in Published
      OBVIOUS
    <3>1. CASE <<p, j>> # s
      BY <2>10, <3>1 DEF CInv, AgentInv
    <3>2. CASE <<p, j>> = s
      <4>1. p = n /\ j = k
        BY <3>2 DEF s
      <4> QED BY <2>4, <2>11, <2>12, <3>2, <4>1 DEF CInv, AgentInv
    <3> QED BY <3>1, <3>2
  <2>14. \A p \in Nodes : run'[p] \in Fresh => seen'[p] = {}
    BY <2>1, <2>7 DEF CInv, AgentInv
  <2>15. \A p \in Nodes, j \in Kinds :
           run'[p] \in Fresh => handler[<<p, j>>] = "off" /\ wire'[<<p, j>>] = <<>>
    BY <2>6, <2>7, SMTT(30) DEF CInv, AgentInv, s
  <2>16. AgentInv'
    BY <2>1, <2>2, <2>8, <2>9, <2>13, <2>14, <2>15 DEF CInv, AgentInv
  <2>17. \A r \in Streams : r # s => Copy'[r] = Copy[r]
    <3> SUFFICES ASSUME NEW r \in Streams, r # s PROVE Copy'[r] = Copy[r]
      OBVIOUS
    <3>1. r = <<r[1], r[2]>> /\ r[1] \in Nodes /\ r[2] \in Kinds
      BY SMTT(30) DEF Streams
    <3> QED BY <2>1, <2>10, <3>1 DEF Copy
  <2>18. Copy'[s] = (IF handler[s] # "off" THEN state'[n][k] ELSE Nil)
    BY <1>0, <2>1, <2>11 DEF Copy
  <2>19. Copy[s] = (IF handler[s] # "off" /\ k \in seen[n] THEN state[n][k] ELSE Nil)
    BY <1>0 DEF Copy
  <2>20. Copy' = [Copy EXCEPT ![s] = Copy'[s]]
    BY <1>0, <2>17 DEF Copy
  <2>21. CASE handler[s] = "off" \/ ~Accepts(n, k, msg)
    <3>1. Copy'[s] = Copy[s]
      BY <2>11, <2>12, <2>18, <2>19, <2>21
    <3>2. Copy' = Copy
      BY <2>17, <3>1 DEF Copy
    <3> QED BY <2>1, <2>5, <2>16, <3>2 DEF CInv
  <2>22. CASE handler[s] # "off" /\ Accepts(n, k, msg)
    <3>1. msg.version \in 0 .. Len(log) /\ msg = Replica!At(msg.version) /\ Len(log) \in Nat
      BY <2>4, <2>22, PublishedMessages, LenProperties DEF CInv, ServerInv
    <3>2. Copy' = [Copy EXCEPT ![s] = Replica!At(msg.version)]
      BY <2>11, <2>18, <2>20, <2>22, <3>1
    <3>3. CASE k \notin seen[n]
      <4>1. Replica!Synchronise(s)
        BY <2>1, <2>19, <3>1, <3>2, <3>3 DEF Replica!Synchronise
      <4> QED BY <1>0, <2>5, <2>16, <4>1 DEF CInv, Replica!Next
    <3>4. CASE k \in seen[n]
      <4>1. Copy[s] = state[n][k] /\ state[n][k] \in Published /\ msg.version > state[n][k].version
        BY <2>19, <2>22, <3>4 DEF Accepts, CInv, AgentInv, s
      <4>2. Copy[s] # Nil /\ Copy[s].version \in 0 .. Len(log)
        BY <4>1, PublishedMessages DEF CInv, ServerInv
      <4>3. Replica!Advance(s)
        <5>1. msg.version \in Copy[s].version + 1 .. Len(log)
          BY <3>1, <4>1, <4>2, SMTT(30)
        <5> QED BY <2>1, <3>2, <4>2, <5>1 DEF Replica!Advance
      <4> QED BY <1>0, <2>5, <2>16, <4>3 DEF CInv, Replica!Next
    <3> QED BY <3>3, <3>4
  <2> QED BY <2>21, <2>22
<1> QED BY <1>1, <1>2

-----------------------------------------------------------------------------
(* Every step keeps the invariant and is a step of LedgerReplica or leaves  *)
(* log and copies alone.                                                    *)
LEMMA StepSimulation ==
  ASSUME CInv, [Next]_vars
  PROVE  CInv' /\ [Replica!Next]_<<log, Copy>>
<1>1. CASE UNCHANGED vars
  <2>1. /\ UNCHANGED <<log, entries, version, owed, handler, ch, wire>>
        /\ UNCHANGED <<run, seen, state, cache>>
    BY <1>1 DEF vars, fanoutVars, serverVars, clientVars
  <2>2. Published' = Published /\ Snapshot' = Snapshot
    BY <2>1 DEF Published, Replica!At, Snapshot
  <2>3. ServerInv'
    BY <2>1, <2>2 DEF CInv, ServerInv
  <2>4. AgentInv'
    BY <2>1, <2>2 DEF CInv, AgentInv
  <2> QED BY <2>1, <2>3, <2>4, SameCopies DEF CInv
<1>2. CASE ServerStep
  BY <1>2, MutateStep, BroadcastStep, HandlerStep, AbortStep DEF ServerStep, FanoutNext
<1>3. CASE RestartControlPlane
  BY <1>3, RestartStep DEF RestartControlPlane
<1>4. ASSUME NEW n \in Nodes, AgentStep(n) \/ Crash(n)
      PROVE  CInv' /\ [Replica!Next]_<<log, Copy>>
  <2>1. CASE Fail(n) \/ Crash(n)
    BY <2>1, ReturnStep DEF Fail, Crash
  <2>2. CASE ~(Fail(n) \/ Crash(n))
    BY <1>4, <2>2, LocalStep, ConnectStep, ReceiveStep DEF AgentStep
  <2> QED BY <2>1, <2>2
<1> QED BY <1>1, <1>2, <1>3, <1>4 DEF Next

(* A new control plane with stopped agents is where LedgerReplica starts. *)
LEMMA InitSimulation ==
  ASSUME Init
  PROVE  CInv /\ Replica!Init
<1>1. log \in Seq(Snapshots) /\ Len(log) = 0 /\ entries \in Snapshots
  BY EmptySeq DEF Init, FanoutInit, NewLedger, Snapshots
<1>2. Snapshot \in Published
  BY <1>1, SMTT(30) DEF Init, FanoutInit, NewLedger, Published, Replica!At, Snapshot, Zero
<1>3. ServerInv
  BY <1>1, <1>2, EmptySeq DEF Init, FanoutInit, NewLedger, ServerInv
<1>4. ZeroState \in [Kinds -> Message]
  BY DEF ZeroState, Zero, Message, Snapshots
<1>5. AgentInv
  BY <1>4 DEF Init, FanoutInit, AgentInv, Streams
<1>6. Copy = [s \in Streams |-> Nil]
  BY DEF Init, FanoutInit, Copy
<1> QED BY <1>3, <1>5, <1>6 DEF CInv, Init, FanoutInit, Replica!Init

(* The agents implement LedgerReplica: what a node keeps of a connected     *)
(* stream was published by this control plane and only moves forward,       *)
(* whatever is reordered, dropped, crashed or restarted (Agent.Run,         *)
(* Broadcast, StreamPeerList, StreamOwnership).                             *)
THEOREM AgentsImplementReplica == Spec => ImplementsReplica
<1>1. Init => CInv /\ Replica!Init
  BY InitSimulation
<1>2. CInv /\ [Next]_vars => CInv' /\ [Replica!Next]_<<log, Copy>>
  BY StepSimulation
<1> QED BY <1>1, <1>2, PTL DEF Spec, ImplementsReplica, Replica!Spec

-----------------------------------------------------------------------------
(* What the refinement does not speak of: the shape of the other variables, *)
(* the capacity of the channels, who is subscribed, and the newest update.  *)
OtherTypes ==
  /\ left \in [Writers -> SUBSET Kinds]
  /\ subscribers \subseteq Streams
  /\ closed \in [Streams -> BOOLEAN]
  /\ subAt \in [Streams -> Nat]
  /\ device \in [Nodes -> [Kinds -> Message]]
  /\ good \in [Nodes -> BOOLEAN]
  /\ restarts \in Nat /\ crashes \in Nat

WithinCapacity == \A s \in Streams : Len(ch[s]) <= subscriberBuffer

(* A subscribed stream is live and its channel open; a channel is open      *)
(* until its stream has subscribed.                                         *)
SubscribedLive ==
  /\ \A s \in subscribers : handler[s] = "live" /\ ~closed[s]
  /\ \A s \in Streams : handler[s] \in {"opened", "sent"} \/ run[s[1]] \in Fresh => ~closed[s]

Elements(q) == {q[i] : i \in 1 .. Len(q)}

(* Where the newest version may be on its way to the agent of a stream. *)
WithWriter(k) == \E w \in Writers : owed[w] # Nil /\ k \in left[w] /\ owed[w].version = version
InChannel(s) == \E m \in Elements(ch[s]) : m.version = version
OnWire(s) == Snapshot \in Elements(wire[s])
Kept(n, k) == k \in seen[n] /\ state[n][k] = Snapshot

Held(n, k) ==
  <<n, k>> \in subscribers /\ version > subAt[<<n, k>>] =>
    WithWriter(k) \/ InChannel(<<n, k>>) \/ OnWire(<<n, k>>) \/ Kept(n, k)

StreamInv ==
  /\ OtherTypes /\ WithinCapacity /\ SubscribedLive
  /\ \A n \in Nodes, k \in Kinds : Held(n, k)

LEMMA AppendElements ==
  ASSUME NEW S, NEW q \in Seq(S), NEW e \in S
  PROVE  Elements(Append(q, e)) = Elements(q) \cup {e}
<1>1. /\ Len(Append(q, e)) = Len(q) + 1 /\ Len(q) \in Nat
      /\ \A i \in 1 .. Len(q) : Append(q, e)[i] = q[i]
      /\ Append(q, e)[Len(q) + 1] = e
  BY AppendProperties, LenProperties, SMTT(30)
<1>2. \A i : i \in 1 .. Len(q) + 1 <=> i \in 1 .. Len(q) \/ i = Len(q) + 1
  BY <1>1, SMTT(30)
<1> QED BY <1>1, <1>2 DEF Elements

LEMMA TailElements ==
  ASSUME NEW S, NEW q \in Seq(S), q # <<>>
  PROVE  Elements(q) \subseteq {Head(q)} \cup Elements(Tail(q))
<1>1. /\ Len(Tail(q)) = Len(q) - 1 /\ Len(q) \in Nat /\ Head(q) = q[1]
      /\ \A i \in 1 .. Len(q) - 1 : Tail(q)[i] = q[i + 1]
  BY HeadTailProperties, LenProperties, SMTT(30)
<1>2. ASSUME NEW i \in 1 .. Len(q) PROVE q[i] \in {Head(q)} \cup Elements(Tail(q))
  <2>1. CASE i = 1
    BY <1>1, <2>1
  <2>2. CASE i # 1
    <3>1. i - 1 \in 1 .. Len(Tail(q)) /\ Tail(q)[i - 1] = q[i]
      BY <1>1, <2>2, SMTT(30)
    <3> QED BY <3>1 DEF Elements
  <2> QED BY <2>1, <2>2
<1> QED BY <1>2 DEF Elements

(* Of one version one message is published: of the newest, the snapshot. *)
LEMMA NewestIsSnapshot ==
  ASSUME CInv, NEW m \in Published
  PROVE  /\ m.version \in Nat /\ version \in Nat /\ m.version <= version
         /\ m.version = version => m = Snapshot
<1>1. /\ m.version \in 0 .. Len(log) /\ m = Replica!At(m.version)
      /\ Snapshot.version \in 0 .. Len(log) /\ Snapshot = Replica!At(Snapshot.version)
  BY PublishedMessages DEF CInv, ServerInv
<1>2. Snapshot.version = version /\ version = Len(log) /\ Len(log) \in Nat
  BY LenProperties DEF Snapshot, CInv, ServerInv
<1>3. m.version \in Nat /\ version \in Nat /\ m.version <= version
  BY <1>1, <1>2, SMTT(30)
<1> QED BY <1>1, <1>2, <1>3

-----------------------------------------------------------------------------
LEMMA TypesStep ==
  ASSUME CInv, OtherTypes, [Next]_vars
  PROVE  OtherTypes'
<1>z. ZeroState \in [Kinds -> Message] /\ version \in Nat
  BY LenProperties DEF ZeroState, Zero, Message, Snapshots, CInv, ServerInv
<1>1. CASE UNCHANGED vars
  BY <1>1 DEF vars, fanoutVars, serverVars, clientVars, OtherTypes
<1>2. CASE ServerStep
  <2>0. UNCHANGED <<device, good, restarts, crashes>>
    BY <1>2 DEF ServerStep, clientVars
  <2>1. ASSUME NEW w \in Writers, NEW o \in Overlays, NEW m \in Names, Mutate(w, o, m)
        PROVE  OtherTypes'
    BY <2>0, <2>1 DEF Mutate, serverVars, OtherTypes
  <2>2. ASSUME NEW w \in Writers, NEW k \in Kinds, Broadcast(w, k) PROVE OtherTypes'
    BY <2>0, <2>2 DEF Broadcast, OtherTypes
  <2>3. ASSUME NEW s \in Streams, SendSnapshot(s) \/ Forward(s) \/ Abort(s) PROVE OtherTypes'
    BY <2>0, <2>3 DEF SendSnapshot, Forward, Abort, OtherTypes
  <2>4. ASSUME NEW s \in Streams, Subscribe(s) PROVE OtherTypes'
    BY <2>0, <2>4, <1>z DEF Subscribe, OtherTypes
  <2> QED BY <1>2, <2>1, <2>2, <2>3, <2>4 DEF ServerStep, FanoutNext
<1>3. CASE RestartControlPlane
  <2>1. restarts + 1 \in Nat
    BY SMTT(30) DEF OtherTypes
  <2> QED BY <1>3, <2>1 DEF RestartControlPlane, Restart, clientVars, OtherTypes
<1>4. ASSUME NEW n \in Nodes, AgentStep(n) \/ Crash(n) PROVE OtherTypes'
  <2>1. ASSUME Return(n) PROVE /\ left' = left /\ subscribers' \subseteq Streams
                              /\ closed' \in [Streams -> BOOLEAN] /\ subAt' \in [Streams -> Nat]
    BY <2>1 DEF Return, OtherTypes
  <2>2. /\ restarts' \in Nat /\ crashes' \in Nat
        /\ good' \in [Nodes -> BOOLEAN]
    <3>1. crashes + 1 \in Nat
      BY SMTT(30) DEF OtherTypes
    <3>2. restarts' \in Nat /\ crashes' \in Nat
      BY <1>4, <3>1 DEF AgentStep, Crash, OtherTypes
    <3>3. good' \in [Nodes -> BOOLEAN]
      BY <1>4 DEF AgentStep, Start, Restore, Connect, Save, Apply, Fail, Receive, Crash, OtherTypes
    <3> QED BY <3>2, <3>3
  <2>3. device' \in [Nodes -> [Kinds -> Message]]
    <3>1. \/ device' = device
          \/ device' = [device EXCEPT ![n] = state[n]]
          \/ device' = [device EXCEPT ![n] = ZeroState]
      BY <1>4 DEF AgentStep, Start, Restore, Connect, Save, Apply, Fail, Receive, Crash
    <3> QED BY <3>1, <1>z DEF CInv, AgentInv, OtherTypes
  <2>4. Return(n) \/ UNCHANGED <<left, subscribers, closed, subAt>>
    BY <1>4 DEF AgentStep, Start, Restore, Connect, Save, Apply, Fail, Receive, Crash,
                fanoutVars, serverVars
  <2> QED BY <2>1, <2>2, <2>3, <2>4 DEF OtherTypes
<1> QED BY <1>1, <1>2, <1>3, <1>4 DEF Next

(* Broadcast sends to a channel that has room; nothing else fills one. *)
LEMMA CapacityStep ==
  ASSUME CInv, WithinCapacity, [Next]_vars
  PROVE  WithinCapacity'
<1>b. subscriberBuffer \in Nat /\ Len(<<>>) = 0
  BY FanoutAssumption, SMTT(30)
<1>t. \A s \in Streams : ch[s] \in Seq(Published) /\ Len(ch[s]) \in Nat
  BY LenProperties DEF CInv, ServerInv
<1>1. ASSUME ch' = ch PROVE WithinCapacity'
  BY <1>1 DEF WithinCapacity
<1>2. ASSUME NEW w \in Writers, NEW k \in Kinds, Broadcast(w, k) PROVE WithinCapacity'
  <2> SUFFICES ASSUME NEW s \in Streams PROVE Len(ch'[s]) <= subscriberBuffer
    BY DEF WithinCapacity
  <2>1. ch'[s] = ch[s] \/ (ch'[s] = Append(ch[s], owed[w]) /\ ~Full(s))
    BY <1>2 DEF Broadcast
  <2>2. owed[w] \in Published
    BY <1>2 DEF CInv, ServerInv, Broadcast
  <2>3. CASE ch'[s] = Append(ch[s], owed[w]) /\ ~Full(s)
    <3>1. Len(Append(ch[s], owed[w])) = Len(ch[s]) + 1
      BY <1>t, <2>2, AppendProperties
    <3>2. Len(ch[s]) + 1 <= subscriberBuffer
      BY <1>b, <1>t, <2>3, SMTT(30) DEF Full
    <3> QED BY <2>3, <3>1, <3>2
  <2> QED BY <2>1, <2>3 DEF WithinCapacity
<1>3. ASSUME NEW s \in Streams, Forward(s) PROVE WithinCapacity'
  <2>1. Len(Tail(ch[s])) <= subscriberBuffer
    <3>1. Len(Tail(ch[s])) = Len(ch[s]) - 1
      BY <1>3, <1>t, HeadTailProperties DEF Forward
    <3>2. Len(ch[s]) <= subscriberBuffer
      BY DEF WithinCapacity
    <3> QED BY <1>b, <1>t, <3>1, <3>2, SMTT(30)
  <2>2. \A r \in Streams : ch'[r] = IF r = s THEN Tail(ch[s]) ELSE ch[r]
    BY <1>3 DEF Forward, CInv, ServerInv
  <2> QED BY <2>1, <2>2 DEF WithinCapacity
<1>4. ASSUME NEW n \in Nodes, Return(n) PROVE WithinCapacity'
  <2>1. \A s \in Streams : ch'[s] = ch[s] \/ ch'[s] = <<>>
    BY <1>4 DEF Return
  <2>2. Len(<<>>) <= subscriberBuffer
    BY <1>b, SMTT(30)
  <2> QED BY <2>1, <2>2 DEF WithinCapacity
<1>5. CASE RestartControlPlane
  <2>1. Len(<<>>) <= subscriberBuffer
    BY <1>b, SMTT(30)
  <2> QED BY <1>5, <2>1 DEF RestartControlPlane, Restart, WithinCapacity
<1>6. CASE ServerStep
  BY <1>1, <1>2, <1>3, <1>6
     DEF ServerStep, FanoutNext, Mutate, SendSnapshot, Subscribe, Abort, serverVars
<1>7. ASSUME NEW n \in Nodes, AgentStep(n) \/ Crash(n) PROVE WithinCapacity'
  BY <1>1, <1>4, <1>7 DEF AgentStep, Start, Restore, Connect, Save, Apply, Fail, Receive, Crash,
                          fanoutVars, serverVars
<1>8. CASE UNCHANGED vars
  BY <1>1, <1>8 DEF vars, fanoutVars, serverVars
<1> QED BY <1>5, <1>6, <1>7, <1>8 DEF Next

LEMMA SubscribedStep ==
  ASSUME CInv, OtherTypes, SubscribedLive, [Next]_vars
  PROVE  SubscribedLive'
<1>t. /\ handler \in [Streams -> {"off", "opened", "sent", "live"}]
      /\ run \in [Nodes -> {"down", "restore", "connect", "live", "save", "apply"}]
      /\ \A s \in Streams : s[1] \in Nodes /\ s[2] \in Kinds /\ s = <<s[1], s[2]>>
  <2>1. \A s \in Streams : s[1] \in Nodes /\ s[2] \in Kinds /\ s = <<s[1], s[2]>>
    BY SMTT(30) DEF Streams
  <2> QED BY <2>1 DEF CInv, ServerInv, AgentInv
<1>f. ASSUME NEW s \in Streams, run[s[1]] \in Fresh PROVE handler[s] = "off" /\ s \notin subscribers
  <2>1. handler[<<s[1], s[2]>>] = "off"
    BY <1>f, <1>t DEF CInv, AgentInv
  <2>2. handler[s] = "off"
    BY <1>t, <2>1
  <2> QED BY <2>2 DEF SubscribedLive
<1>1. ASSUME UNCHANGED <<handler, subscribers, closed>>,
             \A n \in Nodes : run'[n] \in Fresh => run[n] \in Fresh
      PROVE  SubscribedLive'
  BY <1>1, <1>t DEF SubscribedLive
<1>2. ASSUME NEW n \in Nodes, Return(n) PROVE SubscribedLive'
  <2>1. /\ run' = [run EXCEPT ![n] = "down"]
        /\ \A s \in Streams : s[1] # n =>
             handler'[s] = handler[s] /\ (closed'[s] <=> closed[s]) /\ run'[s[1]] = run[s[1]]
        /\ \A s \in Streams : s[1] = n => handler'[s] = "off" /\ ~closed'[s] /\ s \notin subscribers'
        /\ subscribers' \subseteq subscribers
    <3>1. \A s \in Streams : s \in {n} \X Kinds <=> s[1] = n
      BY SMTT(30) DEF Streams
    <3> QED BY <1>2, <1>t, <3>1 DEF Return, Goto
  <2>2. \A s \in subscribers' : handler'[s] = "live" /\ ~closed'[s]
    BY <2>1 DEF SubscribedLive, OtherTypes
  <2>3. \A s \in Streams : handler'[s] \in {"opened", "sent"} \/ run'[s[1]] \in Fresh => ~closed'[s]
    BY <2>1 DEF SubscribedLive
  <2> QED BY <2>2, <2>3 DEF SubscribedLive
<1>3. ASSUME NEW w \in Writers, NEW k \in Kinds, Broadcast(w, k), run' = run PROVE SubscribedLive'
  <2>1. handler' = handler /\ subscribers' \subseteq subscribers
    BY <1>3 DEF Broadcast
  <2>2. \A s \in Streams : closed'[s] <=> closed[s] \/ (s \in subscribers /\ s \notin subscribers')
    BY <1>3 DEF Broadcast
  <2>3. \A s \in subscribers' : handler'[s] = "live" /\ ~closed'[s]
    BY <2>1, <2>2 DEF SubscribedLive, OtherTypes
  <2>4. ASSUME NEW s \in Streams, handler'[s] \in {"opened", "sent"} \/ run'[s[1]] \in Fresh
        PROVE  ~closed'[s]
    <3>1. ~closed[s]
      BY <1>3, <2>1, <2>4 DEF SubscribedLive
    <3>2. handler[s] # "live"
      BY <1>3, <1>f, <2>1, <2>4
    <3> QED BY <2>2, <3>1, <3>2 DEF SubscribedLive
  <2> QED BY <2>3, <2>4 DEF SubscribedLive
<1>4. ASSUME NEW s \in Streams, SendSnapshot(s) \/ Subscribe(s) \/ Forward(s), run' = run
      PROVE  SubscribedLive'
  <2>1. /\ closed' = closed
        /\ \A r \in Streams : r # s => handler'[r] = handler[r] /\ (r \in subscribers' <=> r \in subscribers)
        /\ handler'[s] \in {"sent", "live"} /\ subscribers' \subseteq Streams
        /\ s \in subscribers' => s \in subscribers \/ handler[s] = "sent"
        /\ s \in subscribers' => handler'[s] = "live"
        /\ handler'[s] = "sent" => handler[s] = "opened"
    BY <1>4, <1>t DEF SendSnapshot, Subscribe, Forward, OtherTypes, SubscribedLive
  <2>2. \A r \in subscribers' : handler'[r] = "live" /\ ~closed'[r]
    BY <2>1 DEF SubscribedLive
  <2>3. \A r \in Streams : handler'[r] \in {"opened", "sent"} \/ run'[r[1]] \in Fresh => ~closed'[r]
    BY <1>4, <2>1 DEF SubscribedLive
  <2> QED BY <2>2, <2>3 DEF SubscribedLive
<1>5. ASSUME NEW s \in Streams, Abort(s), run' = run PROVE SubscribedLive'
  <2>1. /\ closed' = closed /\ subscribers' = subscribers /\ closed[s]
        /\ \A r \in Streams : handler'[r] = IF r = s THEN "off" ELSE handler[r]
    BY <1>5, <1>t DEF Abort
  <2> QED BY <1>5, <2>1 DEF SubscribedLive, OtherTypes
<1>6. CASE RestartControlPlane
  BY <1>6 DEF RestartControlPlane, Restart, clientVars, SubscribedLive
<1>7. ASSUME NEW n \in Nodes, Connect(n) PROVE SubscribedLive'
  <2>1. /\ closed' = closed /\ subscribers' = subscribers /\ run[n] \in Fresh
        /\ \A r \in Streams : handler'[r] = IF r[1] = n THEN "opened" ELSE handler[r]
        /\ \A p \in Nodes : run'[p] \in Fresh => run[p] \in Fresh
    BY <1>7, <1>t DEF Connect, Goto, Fresh
  <2>2. \A r \in subscribers : r[1] # n
    BY <1>f, <2>1 DEF OtherTypes
  <2>3. \A r \in subscribers' : handler'[r] = "live" /\ ~closed'[r]
    BY <2>1, <2>2 DEF SubscribedLive, OtherTypes
  <2>4. ASSUME NEW r \in Streams, handler'[r] \in {"opened", "sent"} \/ run'[r[1]] \in Fresh
        PROVE  ~closed'[r]
    BY <1>t, <2>1, <2>4 DEF SubscribedLive
  <2> QED BY <2>3, <2>4 DEF SubscribedLive
<1>8. CASE ServerStep
  <2>1. run' = run
    BY <1>8 DEF ServerStep, clientVars
  <2>2. ASSUME NEW w \in Writers, NEW o \in Overlays, NEW m \in Names, Mutate(w, o, m)
        PROVE  SubscribedLive'
    BY <1>1, <2>1, <2>2 DEF Mutate, serverVars
  <2> QED BY <1>3, <1>4, <1>5, <1>8, <2>1, <2>2 DEF ServerStep, FanoutNext
<1>9. ASSUME NEW n \in Nodes, AgentStep(n) \/ Crash(n) PROVE SubscribedLive'
  <2>1. CASE Start(n) \/ Restore(n) \/ Save(n) \/ Apply(n)
    <3>1. UNCHANGED <<handler, subscribers, closed>>
      BY <2>1 DEF Start, Restore, Save, Apply, fanoutVars, serverVars
    <3>2. \A p \in Nodes : run'[p] \in Fresh => run[p] \in Fresh
      BY <1>t, <2>1 DEF Start, Restore, Save, Apply, Goto, Fresh
    <3> QED BY <1>1, <3>1, <3>2
  <2>2. ASSUME NEW k \in Kinds, Receive(n, k) PROVE SubscribedLive'
    <3>1. CASE Return(n)
      BY <1>2, <3>1
    <3>2. CASE ~Return(n)
      <4>1. UNCHANGED <<handler, subscribers, closed>> /\ (run' = run \/ run' = [run EXCEPT ![n] = "save"])
        BY <2>2, <3>2 DEF Receive, serverVars, Goto
      <4>2. \A p \in Nodes : run'[p] \in Fresh => run[p] \in Fresh
        BY <1>t, <4>1 DEF Fresh
      <4> QED BY <1>1, <4>1, <4>2
    <3> QED BY <3>1, <3>2
  <2> QED BY <1>2, <1>7, <1>9, <2>1, <2>2 DEF AgentStep, Fail, Crash
<1>10. CASE UNCHANGED vars
  BY <1>1, <1>10 DEF vars, fanoutVars, serverVars, clientVars
<1> QED BY <1>6, <1>8, <1>9, <1>10 DEF Next

-----------------------------------------------------------------------------
(* A step that moves the newest version nowhere keeps it. *)
LEMMA HeldFrame ==
  ASSUME NEW n \in Nodes, NEW k \in Kinds, Held(n, k), UNCHANGED <<entries, version>>,
         <<n, k>> \in subscribers' => <<n, k>> \in subscribers /\ subAt'[<<n, k>>] = subAt[<<n, k>>],
         WithWriter(k) => WithWriter(k)' \/ InChannel(<<n, k>>)' \/ <<n, k>> \notin subscribers',
         InChannel(<<n, k>>) => InChannel(<<n, k>>)' \/ OnWire(<<n, k>>)',
         OnWire(<<n, k>>) => OnWire(<<n, k>>)' \/ Kept(n, k)',
         Kept(n, k) => Kept(n, k)'
  PROVE  Held(n, k)'
  BY DEF Held

(* A new version is with its writer, for both kinds of streams. *)
LEMMA HeldMutate ==
  ASSUME CInv, OtherTypes, NEW w \in Writers, NEW o \in Overlays, NEW m \in Names, Mutate(w, o, m),
         NEW n \in Nodes, NEW k \in Kinds
  PROVE  Held(n, k)'
<1>1. owed'[w] = [version |-> version', entries |-> entries'] /\ left'[w] = Kinds
  BY DEF Mutate, CInv, ServerInv, OtherTypes
<1>2. version' \in Nat /\ entries' \in Snapshots
  <2>1. version + 1 \in Nat
    BY LenProperties, SMTT(30) DEF CInv, ServerInv
  <2> QED BY <2>1 DEF Mutate, Reassign, CInv, ServerInv, Snapshots
<1>3. owed'[w] # Nil /\ owed'[w].version = version'
  <2>1. owed'[w] \in Message
    BY <1>1, <1>2, SMTT(30) DEF Message
  <2>2. owed'[w] # Nil
    BY <2>1, FanoutAssumption
  <2> QED BY <1>1, <2>2, SMTT(30)
<1> QED BY <1>1, <1>3 DEF Held, WithWriter

(* Broadcast hands the version to every subscriber's channel, or drops the  *)
(* subscriber.                                                              *)
LEMMA HeldBroadcast ==
  ASSUME CInv, OtherTypes, NEW w \in Writers, NEW j \in Kinds, Broadcast(w, j), UNCHANGED clientVars,
         NEW n \in Nodes, NEW k \in Kinds, Held(n, k)
  PROVE  Held(n, k)'
<1> DEFINE s == <<n, k>>
<1>0. s \in Streams /\ s[2] = k
  BY DEF Streams
<1>1. UNCHANGED <<entries, version, wire, subAt, seen, state>> /\ subscribers' \subseteq subscribers
  BY DEF Broadcast, clientVars
<1>2. owed[w] \in Published /\ ch[s] \in Seq(Published)
  BY <1>0 DEF Broadcast, CInv, ServerInv
<1>3. /\ ch'[s] = ch[s] \/ ch'[s] = Append(ch[s], owed[w])
      /\ j = k /\ s \in subscribers' => ch'[s] = Append(ch[s], owed[w])
  BY <1>0 DEF Broadcast
<1>4. Elements(Append(ch[s], owed[w])) = Elements(ch[s]) \cup {owed[w]}
  BY <1>2, AppendElements, SMTT(30)
<1> HIDE DEF s
<1>5. InChannel(s) => InChannel(s)'
  BY <1>1, <1>3, <1>4 DEF InChannel
<1>6. WithWriter(k) => WithWriter(k)' \/ InChannel(s)' \/ s \notin subscribers'
  <2> SUFFICES ASSUME NEW v \in Writers, owed[v] # Nil, k \in left[v], owed[v].version = version,
                      s \in subscribers'
               PROVE  WithWriter(k)' \/ InChannel(s)'
    BY DEF WithWriter
  <2>1. CASE v = w /\ j = k
    BY <1>1, <1>3, <1>4, <2>1 DEF InChannel
  <2>2. CASE v # w \/ j # k
    <3>1. owed'[v] = owed[v] /\ k \in left'[v]
      BY <2>2 DEF Broadcast, CInv, ServerInv, OtherTypes
    <3> QED BY <1>1, <3>1 DEF WithWriter
  <2> QED BY <2>1, <2>2
<1>7. (OnWire(s) => OnWire(s)') /\ (Kept(n, k) => Kept(n, k)')
  BY <1>1 DEF OnWire, Kept, Snapshot
<1> QED BY <1>1, <1>5, <1>6, <1>7, HeldFrame DEF s

(* The stream's handler: the head of the channel goes on the wire. *)
LEMMA HeldHandler ==
  ASSUME CInv, OtherTypes, NEW r \in Streams, SendSnapshot(r) \/ Subscribe(r) \/ Forward(r) \/ Abort(r),
         UNCHANGED clientVars, NEW n \in Nodes, NEW k \in Kinds, Held(n, k)
  PROVE  Held(n, k)'
<1> DEFINE s == <<n, k>>
<1>0. s \in Streams
  BY DEF Streams
<1>1. UNCHANGED <<entries, version, owed, left, seen, state>> /\ Snapshot' = Snapshot
  BY DEF SendSnapshot, Subscribe, Forward, Abort, clientVars, Snapshot
<1>2. /\ ch[s] \in Seq(Published) /\ wire[s] \in Seq(Message \cup {Nil})
      /\ Snapshot \in Message \cup {Nil} /\ Published \subseteq Message \cup {Nil}
  BY <1>0, PublishedMessages DEF CInv, ServerInv
<1> HIDE DEF s
<1>3. CASE Subscribe(r) /\ r = s
  <2>1. subAt'[s] = version /\ version \in Nat
    BY <1>0, <1>3, LenProperties DEF Subscribe, OtherTypes, CInv, ServerInv
  <2>2. ~(version' > subAt'[s])
    BY <1>1, <2>1, SMTT(30)
  <2> QED BY <2>2 DEF Held, s
<1>4. CASE ~(Subscribe(r) /\ r = s)
  <2>1. s \in subscribers' => s \in subscribers /\ subAt'[s] = subAt[s]
    BY <1>0, <1>4 DEF SendSnapshot, Subscribe, Forward, Abort, OtherTypes
  <2>2. ASSUME NEW e \in Message \cup {Nil}, wire'[s] = Append(wire[s], e)
        PROVE  (OnWire(s) => OnWire(s)') /\ (e = Snapshot => OnWire(s)')
    <3>1. Elements(Append(wire[s], e)) = Elements(wire[s]) \cup {e}
      BY <1>2, AppendElements, SMTT(30)
    <3> QED BY <1>1, <2>2, <3>1 DEF OnWire
  <2>3. \/ wire'[s] = wire[s]
        \/ \E e \in Message \cup {Nil} : wire'[s] = Append(wire[s], e)
    <3>1. Forward(r) /\ r = s => Head(ch[s]) \in Message \cup {Nil}
      BY <1>2, HeadTailProperties DEF Forward
    <3>2. \/ wire' = wire
          \/ wire' = [wire EXCEPT ![r] = Append(@, Snapshot)]
          \/ wire' = [wire EXCEPT ![r] = Append(@, Nil)]
          \/ Forward(r) /\ wire' = [wire EXCEPT ![r] = Append(@, Head(ch[r]))]
      BY DEF SendSnapshot, Subscribe, Forward, Abort
    <3> QED BY <1>0, <1>2, <3>1, <3>2 DEF CInv, ServerInv
  <2>4. OnWire(s) => OnWire(s)'
    BY <1>1, <2>2, <2>3 DEF OnWire
  <2>5. InChannel(s) => InChannel(s)' \/ OnWire(s)'
    <3>1. CASE Forward(r) /\ r = s
      <4>1. /\ Head(ch[s]) \in Published /\ wire'[s] = Append(wire[s], Head(ch[s]))
            /\ ch'[s] = Tail(ch[s]) /\ ch[s] # <<>>
        BY <1>0, <1>2, <3>1, HeadTailProperties DEF Forward, CInv, ServerInv
      <4>2. Head(ch[s]).version = version => OnWire(s)'
        BY <1>2, <2>2, <4>1, NewestIsSnapshot
      <4>3. Elements(ch[s]) \subseteq {Head(ch[s])} \cup Elements(Tail(ch[s]))
        BY <1>2, <4>1, TailElements
      <4> QED BY <1>1, <4>1, <4>2, <4>3 DEF InChannel
    <3>2. CASE ~(Forward(r) /\ r = s)
      <4>1. ch'[s] = ch[s]
        BY <1>0, <3>2 DEF SendSnapshot, Subscribe, Forward, Abort, CInv, ServerInv
      <4> QED BY <1>1, <4>1 DEF InChannel
    <3> QED BY <3>1, <3>2
  <2>6. (WithWriter(k) => WithWriter(k)') /\ (Kept(n, k) => Kept(n, k)')
    BY <1>1 DEF WithWriter, Kept
  <2> QED BY <1>1, <2>1, <2>4, <2>5, <2>6, HeldFrame DEF s
<1> QED BY <1>3, <1>4

(* A stream that ends is not subscribed, the others are left alone. *)
LEMMA HeldReturn ==
  ASSUME CInv, OtherTypes, NEW p \in Nodes, Return(p), NEW n \in Nodes, NEW k \in Kinds, Held(n, k)
  PROVE  Held(n, k)'
<1>0. <<n, k>> \in Streams /\ (<<n, k>> \in {p} \X Kinds <=> n = p)
  BY DEF Streams
<1>1. CASE n = p
  <2>1. <<n, k>> \notin subscribers'
    BY <1>0, <1>1 DEF Return
  <2> QED BY <2>1 DEF Held
<1>2. CASE n # p
  <2>1. /\ UNCHANGED <<entries, version, owed, left>>
        /\ <<n, k>> \in subscribers' <=> <<n, k>> \in subscribers
        /\ subAt'[<<n, k>>] = subAt[<<n, k>>]
        /\ ch'[<<n, k>>] = ch[<<n, k>>] /\ wire'[<<n, k>>] = wire[<<n, k>>]
        /\ seen'[n] = seen[n] /\ state'[n] = state[n]
    BY <1>0, <1>2 DEF Return, CInv, AgentInv
  <2>2. (WithWriter(k) => WithWriter(k)') /\ (Kept(n, k) => Kept(n, k)')
    BY <2>1 DEF WithWriter, Kept, Snapshot
  <2>3. (InChannel(<<n, k>>) => InChannel(<<n, k>>)') /\ (OnWire(<<n, k>>) => OnWire(<<n, k>>)')
    BY <2>1 DEF InChannel, OnWire, Snapshot
  <2> QED BY <2>1, <2>2, <2>3, HeldFrame
<1> QED BY <1>1, <1>2

(* Before its streams are open an agent is not subscribed, afterwards only  *)
(* Receive changes its state.                                               *)
LEMMA HeldLocal ==
  ASSUME CInv, OtherTypes, SubscribedLive, NEW p \in Nodes,
         Start(p) \/ Restore(p) \/ Connect(p) \/ Save(p) \/ Apply(p),
         NEW n \in Nodes, NEW k \in Kinds, Held(n, k)
  PROVE  Held(n, k)'
<1>1. UNCHANGED <<entries, version, owed, left, subscribers, subAt, ch, wire, seen>>
  BY DEF Start, Restore, Connect, Save, Apply, fanoutVars, serverVars
<1>2. state'[n] = state[n] \/ (n = p /\ run[p] = "down")
  BY DEF Start, Restore, Connect, Save, Apply, CInv, AgentInv
<1>3. CASE n = p /\ run[p] = "down"
  <2>1. handler[<<n, k>>] = "off"
    BY <1>3 DEF CInv, AgentInv, Fresh
  <2>2. <<n, k>> \notin subscribers
    BY <2>1 DEF SubscribedLive
  <2> QED BY <1>1, <2>2 DEF Held
<1>4. CASE state'[n] = state[n]
  <2>1. (WithWriter(k) => WithWriter(k)') /\ (Kept(n, k) => Kept(n, k)')
    BY <1>1, <1>4 DEF WithWriter, Kept, Snapshot
  <2>2. (InChannel(<<n, k>>) => InChannel(<<n, k>>)') /\ (OnWire(<<n, k>>) => OnWire(<<n, k>>)')
    BY <1>1 DEF InChannel, OnWire, Snapshot
  <2> QED BY <1>1, <2>1, <2>2, HeldFrame
<1> QED BY <1>2, <1>3, <1>4

(* The agent keeps the newest version when it arrives, and drops it only    *)
(* when it has it already.                                                  *)
LEMMA HeldReceive ==
  ASSUME CInv, OtherTypes, SubscribedLive, NEW p \in Nodes, NEW j \in Kinds, Receive(p, j),
         NEW n \in Nodes, NEW k \in Kinds, Held(n, k)
  PROVE  Held(n, k)'
<1> DEFINE r == <<p, j>>
           s == <<n, k>>
           msg == Head(wire[r])
<1>0. /\ r \in Streams /\ s \in Streams /\ wire[r] # <<>>
      /\ r = s <=> p = n /\ j = k
  BY DEF Streams, Receive
<1>1. CASE Return(p)
  BY <1>1, HeldReturn
<1>2. CASE ~Return(p)
  <2>1. /\ UNCHANGED <<entries, version, owed, left, subscribers, subAt, ch>>
        /\ wire' = [wire EXCEPT ![r] = Tail(@)] /\ seen' = [seen EXCEPT ![p] = @ \cup {j}]
        /\ IF Accepts(p, j, msg) THEN state' = [state EXCEPT ![p][j] = msg] ELSE state' = state
    BY <1>0, <1>2 DEF Receive, serverVars
  <2>2. Snapshot' = Snapshot
    BY <2>1 DEF Snapshot
  <2>3. /\ wire[r] \in Seq(Message \cup {Nil})
        /\ \A q \in Streams : wire'[q] = IF q = r THEN Tail(wire[r]) ELSE wire[q]
    BY <1>0, <2>1 DEF CInv, ServerInv
  <2>4. Elements(wire[r]) \subseteq {msg} \cup Elements(Tail(wire[r]))
    BY <1>0, <2>3, TailElements, SMTT(30)
  <2>5. /\ state'[n][k] = IF r = s /\ Accepts(p, j, msg) THEN msg ELSE state[n][k]
        /\ k \in seen'[n] <=> k \in seen[n] \/ r = s
    BY <2>1, SMTT(30) DEF CInv, AgentInv
  <2>6. (WithWriter(k) => WithWriter(k)') /\ (InChannel(s) => InChannel(s)')
    BY <2>1 DEF WithWriter, InChannel
  <2>7. CASE r # s
    <3>1. (OnWire(s) => OnWire(s)') /\ (Kept(n, k) => Kept(n, k)')
      BY <1>0, <2>2, <2>3, <2>5, <2>7 DEF OnWire, Kept
    <3> QED BY <2>1, <2>6, <3>1, HeldFrame
  <2>8. CASE s \notin subscribers
    BY <2>1, <2>8 DEF Held
  <2>9. CASE r = s /\ s \in subscribers
    <3>1. handler[s] # "off" /\ p = n /\ j = k
      BY <1>0, <2>9 DEF SubscribedLive
    <3>2. msg \in Published /\ (k \in seen[n] => state[n][k] \in Published)
      BY <1>0, <2>9, <3>1, HeadTailProperties DEF CInv, ServerInv, AgentInv
    <3>3. msg.version \in Nat /\ version \in Nat /\ msg.version <= version
      BY <3>2, NewestIsSnapshot
    <3>4. k \in seen[n] => /\ state[n][k].version \in Nat /\ state[n][k].version <= version
                           /\ state[n][k].version = version => state[n][k] = Snapshot
      BY <3>2, NewestIsSnapshot
    <3>5. Snapshot.version = version
      BY DEF Snapshot
    <3>6. Kept(n, k) => ~Accepts(p, j, msg)
      <4> SUFFICES ASSUME k \in seen[n], state[n][k] = Snapshot PROVE ~Accepts(p, j, msg)
        BY DEF Kept
      <4>1. ~(msg.version > state[n][k].version)
        BY <3>3, <3>5, SMTT(30)
      <4> QED BY <3>1, <4>1 DEF Accepts
    <3>7. Kept(n, k) => Kept(n, k)'
      BY <2>2, <2>5, <3>6 DEF Kept
    <3>8. msg = Snapshot => Kept(n, k)'
      <4>1. CASE Accepts(p, j, msg)
        BY <2>2, <2>5, <2>9, <4>1 DEF Kept
      <4>2. CASE ~Accepts(p, j, msg) /\ msg = Snapshot
        <5>1. k \in seen[n] /\ ~(version > state[n][k].version)
          BY <3>1, <3>5, <4>2 DEF Accepts
        <5>2. state[n][k].version = version
          BY <3>3, <3>4, <5>1, SMTT(30)
        <5> QED BY <2>2, <2>5, <3>4, <4>2, <5>1, <5>2 DEF Kept
      <4> QED BY <4>1, <4>2
    <3>9. OnWire(s) => OnWire(s)' \/ Kept(n, k)'
      BY <1>0, <2>2, <2>3, <2>4, <2>9, <3>8 DEF OnWire
    <3> QED BY <2>1, <2>6, <3>7, <3>9, HeldFrame
  <2> QED BY <2>7, <2>8, <2>9
<1> QED BY <1>1, <1>2

LEMMA HeldStep ==
  ASSUME CInv, StreamInv, [Next]_vars, NEW n \in Nodes, NEW k \in Kinds
  PROVE  Held(n, k)'
<1>0. OtherTypes /\ SubscribedLive /\ Held(n, k)
  BY DEF StreamInv
<1>1. CASE UNCHANGED vars
  BY <1>0, <1>1 DEF vars, fanoutVars, serverVars, clientVars, Held, WithWriter, InChannel, OnWire,
                    Kept, Snapshot
<1>2. CASE ServerStep
  BY <1>0, <1>2, HeldMutate, HeldBroadcast, HeldHandler DEF ServerStep, FanoutNext
<1>3. CASE RestartControlPlane
  BY <1>3 DEF RestartControlPlane, Restart, Held
<1>4. ASSUME NEW p \in Nodes, AgentStep(p) \/ Crash(p) PROVE Held(n, k)'
  <2>1. CASE Fail(p) \/ Crash(p)
    BY <1>0, <2>1, HeldReturn DEF Fail, Crash
  <2>2. CASE ~(Fail(p) \/ Crash(p))
    BY <1>0, <1>4, <2>2, HeldLocal, HeldReceive DEF AgentStep
  <2> QED BY <2>1, <2>2
<1> QED BY <1>1, <1>2, <1>3, <1>4 DEF Next

LEMMA InitStreams ==
  ASSUME Init
  PROVE  StreamInv
<1>1. OtherTypes
  <2>1. ZeroState \in [Kinds -> Message]
    BY DEF ZeroState, Zero, Message, Snapshots
  <2> QED BY <2>1 DEF Init, FanoutInit, OtherTypes
<1>2. WithinCapacity
  <2>1. Len(<<>>) <= subscriberBuffer
    BY FanoutAssumption, SMTT(30)
  <2> QED BY <2>1 DEF Init, FanoutInit, WithinCapacity
<1>3. SubscribedLive /\ \A n \in Nodes, k \in Kinds : Held(n, k)
  BY DEF Init, FanoutInit, SubscribedLive, Held
<1> QED BY <1>1, <1>2, <1>3 DEF StreamInv

LEMMA SafeStreams ==
  ASSUME CInv, StreamInv
  PROVE  StreamsSafe
<1>1. Published \subseteq Message /\ Seq(Published) \subseteq Seq(Message) /\ version \in Nat
  BY PublishedMessages, SeqMonotonic, LenProperties DEF CInv, ServerInv
<1>2. TypeOK
  BY <1>1 DEF CInv, ServerInv, AgentInv, StreamInv, OtherTypes, WithinCapacity, TypeOK, FanoutTypeOK,
              LedgerTypeOK, Snapshots
<1>3. NothingLostAfterSubscribe
  <2> SUFFICES ASSUME NEW n \in Nodes, NEW k \in Kinds,
                      <<n, k>> \in subscribers, version > subAt[<<n, k>>]
               PROVE  \/ \E w \in Writers : owed[w] # Nil /\ k \in left[w] /\ owed[w].version = version
                      \/ \E i \in 1 .. Len(ch[<<n, k>>]) : ch[<<n, k>>][i].version = version
                      \/ \E i \in 1 .. Len(wire[<<n, k>>]) : wire[<<n, k>>][i] = Snapshot
                      \/ k \in seen[n] /\ state[n][k] = Snapshot
    BY DEF NothingLostAfterSubscribe
  <2>1. WithWriter(k) \/ InChannel(<<n, k>>) \/ OnWire(<<n, k>>) \/ Kept(n, k)
    BY DEF StreamInv, Held
  <2> QED BY <2>1 DEF WithWriter, InChannel, OnWire, Kept, Elements
<1> QED BY <1>2, <1>3 DEF StreamsSafe

(* No update is lost once a stream has subscribed, and no channel exceeds   *)
(* its capacity: the newest version is with its writer, in the channel, on  *)
(* the wire or with the agent, whatever is reordered, dropped, crashed or   *)
(* restarted (Broadcast, StreamPeerList, StreamOwnership, Agent.Run).       *)
THEOREM StreamsLoseNothing == Spec => []StreamsSafe
<1>1. Init => CInv /\ StreamInv
  BY InitSimulation, InitStreams
<1>2. CInv /\ StreamInv /\ [Next]_vars => CInv' /\ StreamInv'
  BY StepSimulation, TypesStep, CapacityStep, SubscribedStep, HeldStep DEF StreamInv
<1>3. CInv /\ StreamInv => StreamsSafe
  BY SafeStreams
<1> QED BY <1>1, <1>2, <1>3, PTL DEF Spec

=============================================================================
