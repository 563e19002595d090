------------------------------- MODULE Fanout -------------------------------
(***************************************************************************)
(* How a ledger mutation reaches the nodes: the ledger's listener, the two *)
(* broadcasters (pkg/control_plane/fanout.go) and the two server-streaming *)
(* handlers StreamPeerList and StreamOwnership                             *)
(* (pkg/control_plane/server.go).                                          *)
(*                                                                         *)
(* The listener runs after the ledger's mutex is released, so the          *)
(* goroutines that mutated (Writers) broadcast in any order.  A stream is  *)
(* a node and the kind of update it asked for; its handler takes a         *)
(* snapshot, sends it, and only then subscribes.                           *)
(*                                                                         *)
(* A message is a version and the ledger snapshot it stands for.  What     *)
(* buildPeerListUpdate adds from the registry (keys, endpoints) is left    *)
(* out: no decision of either side depends on it.                          *)
(***************************************************************************)
EXTENDS Ledger, Sequences

CONSTANTS Writers,           \* goroutines that mutate the ledger
          Nodes,             \* nodes that run clientd
          Kinds,             \* the streams a node opens
          subscriberBuffer,  \* capacity of a subscriber's channel
          MaxVersion         \* bound: mutations of one daemon process

VARIABLES owed,        \* writer -> the message it has still to broadcast, or Nil
          left,        \* writer -> the broadcasters that have not seen it yet
          handler,     \* stream -> where its handler stands
          subscribers, \* the streams registered with their broadcaster
          ch,          \* stream -> its channel
          closed,      \* stream -> its channel is closed
          wire,        \* stream -> what was sent and not yet received, in order
          log,         \* history: the snapshots of this daemon process, by version
          subAt        \* history: stream -> ledger version when it subscribed

Streams == Nodes \X Kinds
Snapshots == [Overlays -> Names \cup {Nil}]
Message == [version : Nat, entries : Snapshots]

ASSUME FanoutAssumption ==
    /\ Kinds \subseteq {"ownership", "peers"}
    /\ subscriberBuffer \in Nat \ {0}
    /\ MaxVersion \in Nat
    /\ Nil \notin Message

serverVars == <<handler, subscribers, ch, closed, subAt>>
fanoutVars == <<entries, version, owed, left, serverVars, wire, log>>

FanoutTypeOK ==
    /\ LedgerTypeOK
    /\ owed \in [Writers -> Message \cup {Nil}]
    /\ left \in [Writers -> SUBSET Kinds]
    /\ handler \in [Streams -> {"off", "opened", "sent", "live"}]
    /\ subscribers \subseteq Streams
    /\ ch \in [Streams -> Seq(Message)]
    /\ closed \in [Streams -> BOOLEAN]
    /\ wire \in [Streams -> Seq(Message \cup {Nil})]
    /\ log \in Seq(Snapshots)
    /\ subAt \in [Streams -> Nat]

FanoutInit ==
    /\ NewLedger
    /\ owed = [w \in Writers |-> Nil]
    /\ left = [w \in Writers |-> {}]
    /\ handler = [s \in Streams |-> "off"]
    /\ subscribers = {}
    /\ ch = [s \in Streams |-> <<>>]
    /\ closed = [s \in Streams |-> FALSE]
    /\ wire = [s \in Streams |-> <<>>]
    /\ log = <<>>
    /\ subAt = [s \in Streams |-> 0]

SelectPrefix(seq, n) == SubSeq(seq, 1, IF n < Len(seq) THEN n ELSE Len(seq))

Snapshot == [version |-> version, entries |-> entries]

-----------------------------------------------------------------------------

(* The locked part of Ledger.reassign, which keeps its snapshot for the    *)
(* listener.                                                               *)
Mutate(w, o, m) ==
    /\ owed[w] = Nil
    /\ version < MaxVersion
    /\ o \in ValidOverlays
    /\ Reassign(o, m)
    /\ owed' = [owed EXCEPT ![w] = [version |-> version', entries |-> entries']]
    /\ left' = [left EXCEPT ![w] = Kinds]
    /\ log' = Append(log, entries')
    /\ UNCHANGED <<serverVars, wire>>

(* A send to this channel would block. *)
Full(s) == Len(ch[s]) >= subscriberBuffer

(* Mutant of Broadcast: a full channel loses the message and stays open. *)
Broadcast_SkipsFull(w, k) ==
    /\ owed[w] # Nil
    /\ k \in left[w]
    /\ ch' = [s \in Streams |->
                IF s \in subscribers /\ s[2] = k /\ ~Full(s)
                THEN Append(ch[s], owed[w]) ELSE ch[s]]
    /\ left' = [left EXCEPT ![w] = @ \ {k}]
    /\ owed' = [owed EXCEPT ![w] = IF left[w] = {k} THEN Nil ELSE @]
    /\ UNCHANGED <<entries, version, handler, subscribers, closed, wire, log, subAt>>

(* Broadcast of one of the two broadcasters: every subscriber gets the     *)
(* message, one with a full channel is closed and dropped instead.  The    *)
(* listener serves the ownership broadcaster first.                        *)
Broadcast(w, k) ==
    LET subs == {s \in subscribers : s[2] = k}
        full == {s \in subs : Full(s)}
    IN /\ owed[w] # Nil
       /\ k \in left[w]
       /\ k = "peers" => "ownership" \notin left[w]
       /\ ch' = [s \in Streams |->
                   IF s \in subs \ full THEN Append(ch[s], owed[w]) ELSE ch[s]]
       /\ closed' = [s \in Streams |-> closed[s] \/ s \in full]
       /\ subscribers' = subscribers \ full
       /\ left' = [left EXCEPT ![w] = @ \ {k}]
       /\ owed' = [owed EXCEPT ![w] = IF left[w] = {k} THEN Nil ELSE @]
       /\ UNCHANGED <<entries, version, handler, wire, log, subAt>>

(* The handler's first message is a snapshot of the ledger. *)
SendSnapshot(s) ==
    /\ handler[s] = "opened"
    /\ wire' = [wire EXCEPT ![s] = Append(@, Snapshot)]
    /\ handler' = [handler EXCEPT ![s] = "sent"]
    /\ UNCHANGED <<entries, version, owed, left, subscribers, ch, closed, log, subAt>>

Subscribe(s) ==
    /\ handler[s] = "sent"
    /\ handler' = [handler EXCEPT ![s] = "live"]
    /\ subscribers' = subscribers \cup {s}
    /\ subAt' = [subAt EXCEPT ![s] = version]
    /\ UNCHANGED <<entries, version, owed, left, ch, closed, wire, log>>

(* The handler passes on what its channel holds; a closed channel still    *)
(* yields what it had.                                                     *)
Forward(s) ==
    /\ handler[s] = "live"
    /\ ch[s] # <<>>
    /\ wire' = [wire EXCEPT ![s] = Append(@, Head(ch[s]))]
    /\ ch' = [ch EXCEPT ![s] = Tail(@)]
    /\ UNCHANGED <<entries, version, owed, left, handler, subscribers, closed, log, subAt>>

(* Mutant of Abort: the handler does not notice that its channel is closed. *)
Abort_Unnoticed(s) ==
    /\ handler[s] = "live"
    /\ closed[s]
    /\ ch[s] = <<>>
    /\ UNCHANGED fanoutVars

(* The slow consumer is told by an error that ends its stream. *)
Abort(s) ==
    /\ handler[s] = "live"
    /\ closed[s]
    /\ ch[s] = <<>>
    /\ wire' = [wire EXCEPT ![s] = Append(@, Nil)]
    /\ handler' = [handler EXCEPT ![s] = "off"]
    /\ UNCHANGED <<entries, version, owed, left, subscribers, ch, closed, log, subAt>>

(* The daemon process dies and starts again: ledger, versions, writers and *)
(* subscriptions are gone, and every open stream ends in an error, after   *)
(* some of what was on its way.                                            *)
Restart ==
    /\ entries' = [o \in Overlays |-> Nil]
    /\ version' = 0
    /\ owed' = [w \in Writers |-> Nil]
    /\ left' = [w \in Writers |-> {}]
    /\ handler' = [s \in Streams |-> "off"]
    /\ subscribers' = {}
    /\ ch' = [s \in Streams |-> <<>>]
    /\ closed' = [s \in Streams |-> FALSE]
    /\ log' = <<>>
    /\ subAt' = [s \in Streams |-> 0]
    /\ \E kept \in [Streams -> 0 .. MaxVersion + 1] :
         wire' = [s \in Streams |->
                    IF handler[s] = "off"
                    THEN wire[s]
                    ELSE Append(SelectPrefix(wire[s], kept[s]), Nil)]

FanoutNext ==
    \/ \E w \in Writers, o \in Overlays, m \in Names : Mutate(w, o, m)
    \/ \E w \in Writers, k \in Kinds : Broadcast(w, k)
    \/ \E s \in Streams : SendSnapshot(s) \/ Subscribe(s) \/ Forward(s) \/ Abort(s)

=============================================================================
