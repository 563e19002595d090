------------------------------ MODULE WgDevice ------------------------------
(***************************************************************************)
(* A userspace WireGuard/AmneziaWG interface: its creation and release       *)
(* (pkg/wg/interface.go), the UAPI socket over which it is configured and    *)
(* read line by line (pkg/wg/uapi.go), and the configuration file            *)
(* (pkg/wg/config.go).  The device behind the socket is the amneziawg-go     *)
(* library: it applies every line of a set as it reads it.  A line is a pair *)
(* of key and value; the AmneziaWG numbers are one field, awg, and s3 stands *)
(* for the two that the device does not know.                                *)
(***************************************************************************)
EXTENDS Integers, Sequences, FiniteSets, SequencesExt

CONSTANTS
  Nil,      \* a field that is not set
  Configs,  \* configurations callers pass
  MaxOps    \* bound: socket and file operations

VARIABLES
  itf,            \* where NewInterface is, or what became of the interface
  tun, listener,  \* the TUN device and the UAPI listener exist
  dev,            \* the device
  op, wire,       \* operation under way and the lines not yet read
  asked, before,  \* its configuration, and the device when it started
  acc,            \* the parser's variables
  file,           \* lines of the configuration file, and the configuration written
  answer, parsed, \* outcome of the last operation and what it returned
  ops             \* operations started

wvars == <<itf, tun, listener, dev, op, wire, asked, before, acc, file, answer, parsed, ops>>
ends == <<itf, tun, listener>>

Zero == "zero"   \* the zero key

NoAnswer == <<"none", "none">>
NoPeers == [k \in {} |-> Nil]
NoDevice == [key |-> Nil, port |-> 0, mark |-> 0, awg |-> FALSE, peers |-> NoPeers, at |-> Nil, created |-> FALSE]
NewPeer == [psk |-> Nil, keepalive |-> 0, allowed |-> {}, handshake |-> 0]

(* net.ParseCIDR: the network of an address with a prefix length. *)
Network(cidr) == IF cidr = "10.0.0.1/8" THEN "10.0.0.0/8" ELSE cidr

With(f, k, v) == [x \in DOMAIN f \cup {k} |-> IF x = k THEN v ELSE f[x]]
Without(f, k) == [x \in DOMAIN f \ {k} |-> f[x]]

-----------------------------------------------------------------------------
(* writeConfig: device lines, then the lines of each peer; a peer without a key
   stops it, after the lines before have been sent. *)
Opt(key, v) == IF v = Nil THEN <<>> ELSE <<<<key, v>>>>
Flag(key, set) == IF set THEN <<<<key, TRUE>>>> ELSE <<>>
Seconds(duration) == IF duration = Nil THEN Nil ELSE duration \div 1000

deviceLines(c) ==
  Opt("private_key", c.key) \o Opt("listen_port", c.port) \o Opt("fwmark", c.mark)
    \o Flag("replace_peers", c.replacePeers) \o Opt("jc", c.awg)

allowedLines(p) == [i \in DOMAIN p.allowed |-> <<"allowed_ip", p.allowed[i]>>]

peerLines_ReplacesLast(p) ==
  <<<<"public_key", p.key>>>> \o Flag("remove", p.remove) \o Flag("update_only", p.updateOnly)
    \o Opt("preshared_key", p.psk) \o Opt("persistent_keepalive_interval", Seconds(p.keepalive))
    \o allowedLines(p) \o Flag("replace_allowed_ips", p.replaceAllowed)

peerLines(p) ==
  <<<<"public_key", p.key>>>> \o Flag("remove", p.remove) \o Flag("update_only", p.updateOnly)
    \o Opt("preshared_key", p.psk) \o Opt("persistent_keepalive_interval", Seconds(p.keepalive))
    \o Flag("replace_allowed_ips", p.replaceAllowed) \o allowedLines(p)

Keyless(c) == {i \in DOMAIN c.peers : c.peers[i].key = Zero}

writeConfig(c) ==
  deviceLines(c) \o FlattenSeq([i \in 1..(IF Keyless(c) = {} THEN Len(c.peers) ELSE Min(Keyless(c)) - 1)
                                  |-> peerLines(c.peers[i])])

(* The device on one line of a set (amneziawg-go).  An allowed network belongs
   to one peer at a time. *)
applyLine(d, l) ==
  LET v == l[2]
      peer(f) == IF d.at = Nil THEN d ELSE [d EXCEPT !.peers = With(@, d.at, f)]
      mine == IF d.at = Nil THEN NewPeer ELSE d.peers[d.at]
  IN CASE l[1] = "private_key" -> [d EXCEPT !.key = v]
       [] l[1] = "listen_port" -> [d EXCEPT !.port = v]
       [] l[1] = "fwmark" -> [d EXCEPT !.mark = v]
       [] l[1] = "replace_peers" -> [d EXCEPT !.peers = NoPeers]
       [] l[1] = "jc" -> [d EXCEPT !.awg = TRUE]
       [] l[1] = "public_key" ->
            [d EXCEPT !.at = v, !.created = v \notin DOMAIN d.peers,
                      !.peers = IF v \in DOMAIN @ THEN @ ELSE With(@, v, NewPeer)]
       [] l[1] = "remove" -> [d EXCEPT !.peers = Without(@, d.at), !.at = Nil]
       [] l[1] = "update_only" ->
            IF d.created THEN [d EXCEPT !.peers = Without(@, d.at), !.at = Nil] ELSE d
       [] l[1] = "preshared_key" -> peer([mine EXCEPT !.psk = v])
       [] l[1] = "persistent_keepalive_interval" -> peer([mine EXCEPT !.keepalive = v])
       [] l[1] = "replace_allowed_ips" -> peer([mine EXCEPT !.allowed = {}])
       [] l[1] = "allowed_ip" ->
            IF d.at = Nil THEN d
            ELSE [d EXCEPT !.peers = [k \in DOMAIN @ |->
                    [@[k] EXCEPT !.allowed = IF k = d.at THEN @ \cup {Network(v)} ELSE @ \ {Network(v)}]]]

DeviceKeys ==
  {"private_key", "listen_port", "fwmark", "replace_peers", "jc", "public_key", "remove", "update_only",
   "preshared_key", "persistent_keepalive_interval", "replace_allowed_ips", "allowed_ip"}

-----------------------------------------------------------------------------
(* parseDevice.  Every public_key line starts a peer; the peer before it is
   committed then, the last one at errno. *)
PublicKey(key) == IF key = Nil THEN Nil ELSE <<"public", key>>
StartParse == [dev |-> [key |-> Nil, pub |-> Nil, port |-> 0, mark |-> 0, awg |-> FALSE], peers |-> <<>>, cur |-> Nil, sec |-> 0]

commitPeer(a) ==
  IF a.cur = Nil THEN a
  ELSE [a EXCEPT !.peers = Append(@, IF a.sec # 0 THEN [a.cur EXCEPT !.handshake = a.sec] ELSE a.cur),
                 !.cur = Nil, !.sec = 0]

opensPeer(a, key) == [commitPeer(a) EXCEPT !.cur = With(NewPeer, "key", key)]

parseLine(a, l) ==
  LET v == l[2] IN
  CASE l[1] = "private_key" -> [a EXCEPT !.dev.key = v]
    [] l[1] = "listen_port" -> [a EXCEPT !.dev.port = v]
    [] l[1] = "fwmark" -> [a EXCEPT !.dev.mark = v]
    [] l[1] = "jc" -> [a EXCEPT !.dev.awg = TRUE]
    [] l[1] = "public_key" -> opensPeer(a, v)
    [] l[1] = "errno" -> [commitPeer(a) EXCEPT !.dev.pub = PublicKey(a.dev.key)]
    [] OTHER ->
       IF a.cur = Nil THEN a ELSE
       CASE l[1] = "preshared_key" -> [a EXCEPT !.cur.psk = v]
         [] l[1] = "persistent_keepalive_interval" -> [a EXCEPT !.cur.keepalive = v]
         [] l[1] = "last_handshake_time_sec" -> [a EXCEPT !.sec = v]
         [] l[1] = "allowed_ip" -> [a EXCEPT !.cur.allowed = @ \cup {Network(v)}]

(* What the device answers to a get, its peers in any order. *)
dumpPeer(k, p) ==
  <<<<"public_key", k>>>> \o Opt("preshared_key", p.psk) \o <<<<"last_handshake_time_sec", p.handshake>>>>
    \o <<<<"persistent_keepalive_interval", p.keepalive>>>>
    \o SetToSeq({<<"allowed_ip", c>> : c \in p.allowed})

dump(d, order) ==
  Opt("private_key", d.key) \o <<<<"listen_port", d.port>>>> \o <<<<"fwmark", d.mark>>>>
    \o (IF d.awg THEN <<<<"jc", 1>>>> ELSE <<>>)
    \o FlattenSeq([i \in DOMAIN order |-> dumpPeer(order[i], d.peers[order[i]])]) \o <<<<"errno", 0>>>>

-----------------------------------------------------------------------------
(* The configuration file. *)
filePeer(p) ==
  <<<<"section", "peer">>>> \o <<<<"publickey", p.key>>>> \o Opt("presharedkey", p.psk)
    \o Opt("persistentkeepalive", Seconds(p.keepalive))
    \o (IF p.allowed = <<>> THEN <<>> ELSE <<<<"allowedips", p.allowed>>>>)

GenerateConfig(c) ==
  <<<<"section", "interface">>>> \o Opt("privatekey", c.key) \o Opt("listenport", c.port)
    \o Opt("jc", c.awg) \o Opt("s3", c.s3)
    \o FlattenSeq([i \in DOMAIN c.peers |-> filePeer(c.peers[i])])

EmptyPeer ==
  [key |-> Zero, psk |-> Nil, keepalive |-> Nil, allowed |-> <<>>, remove |-> FALSE, updateOnly |-> FALSE,
   replaceAllowed |-> FALSE]
StartFile ==
  [section |-> "", cur |-> Nil, cfg |-> [key |-> Nil, port |-> Nil, mark |-> Nil, awg |-> Nil, s3 |-> Nil,
                                         replacePeers |-> FALSE, peers |-> <<>>]]

flushPeer(a) ==
  IF a.cur = Nil THEN a ELSE [a EXCEPT !.cfg.peers = Append(@, a.cur), !.cur = Nil]

endOfFile(a) == flushPeer(a)

parseInterfaceKV(c, key, v) ==
  CASE key = "privatekey" -> [c EXCEPT !.key = v]
    [] key = "listenport" -> [c EXCEPT !.port = v]
    [] key = "fwmark" -> [c EXCEPT !.mark = v]
    [] key = "jc" -> [c EXCEPT !.awg = v]
    [] key = "s3" -> [c EXCEPT !.s3 = v]

parsePeerKV(p, key, v) ==
  CASE key = "publickey" -> [p EXCEPT !.key = v]
    [] key = "presharedkey" -> [p EXCEPT !.psk = v]
    [] key = "persistentkeepalive" -> [p EXCEPT !.keepalive = v * 1000]
    [] key = "allowedips" -> [p EXCEPT !.allowed = [i \in DOMAIN v |-> Network(v[i])]]

parseFileLine(a, l) ==
  IF l[1] = "section" THEN
    [flushPeer(a) EXCEPT !.section = l[2], !.cur = IF l[2] = "peer" THEN EmptyPeer ELSE Nil]
  ELSE IF a.section = "interface" THEN [a EXCEPT !.cfg = parseInterfaceKV(@, l[1], l[2])]
  ELSE [a EXCEPT !.cur = parsePeerKV(@, l[1], l[2])]

-----------------------------------------------------------------------------
WgTypeOK ==
  /\ itf \in {"absent", "created", "opened", "accepting", "up", "failed", "closed"}
  /\ tun \in BOOLEAN /\ listener \in BOOLEAN /\ op \in {"none", "set", "get", "load"}
  /\ answer \in {"none", "set", "get", "load"} \X {"none", "ok", "error"} /\ ops \in 0..MaxOps /\ (op = "none" => wire = <<>>)

WgInit ==
  /\ itf = "absent" /\ tun = FALSE /\ listener = FALSE /\ dev = NoDevice /\ op = "none" /\ wire = <<>>
  /\ asked = Nil /\ before = NoDevice /\ acc = Nil /\ file = Nil /\ answer = NoAnswer /\ parsed = Nil /\ ops = 0

sockets == <<dev, op, wire, asked, before, acc, file, answer, parsed, ops>>

(* NewInterface: TUN and device, the socket file, the listener on it, the close
   of the file.  dev.Close releases the TUN device. *)
createTUN ==
  /\ itf = "absent"
  /\ \/ itf' = "created" /\ tun' = TRUE
     \/ itf' = "failed" /\ UNCHANGED tun
  /\ UNCHANGED <<listener, sockets>>

UAPIOpen ==
  /\ itf = "created"
  /\ \/ itf' = "opened" /\ UNCHANGED tun
     \/ itf' = "failed" /\ tun' = FALSE
  /\ UNCHANGED <<listener, sockets>>

FileListener ==
  /\ itf = "opened"
  /\ \/ itf' = "accepting" /\ listener' = TRUE /\ UNCHANGED tun
     \/ itf' = "failed" /\ tun' = FALSE /\ UNCHANGED listener
  /\ UNCHANGED sockets

closeFile ==
  /\ itf = "accepting"
  /\ \/ itf' = "up" /\ UNCHANGED <<tun, listener>>
     \/ itf' = "failed" /\ tun' = FALSE /\ listener' = FALSE
  /\ UNCHANGED sockets

(* Close, by the owner of the interface, which makes no other call then. *)
Close ==
  /\ itf = "up" /\ op = "none" /\ itf' = "closed" /\ tun' = FALSE /\ listener' = FALSE /\ dev' = NoDevice
  /\ asked' = Nil /\ UNCHANGED <<op, wire, before, acc, file, answer, parsed, ops>>

-----------------------------------------------------------------------------
Starts == op = "none" /\ ops < MaxOps /\ ops' = ops + 1
Ends(result) == op' = "none" /\ wire' = <<>> /\ answer' = <<op, result>>

ConfigureDevice(c) ==
  /\ Starts /\ asked' = c /\ before' = dev
  /\ IF listener THEN op' = "set" /\ wire' = writeConfig(c) /\ dev' = [dev EXCEPT !.at = Nil] /\ answer' = NoAnswer
     ELSE Ends("error") /\ UNCHANGED dev
  /\ UNCHANGED <<ends, acc, file, parsed>>

deviceReads ==
  /\ op = "set" /\ wire # <<>>
  /\ IF Head(wire)[1] \in DeviceKeys
     THEN dev' = applyLine(dev, Head(wire)) /\ wire' = Tail(wire) /\ UNCHANGED <<op, answer>>
     ELSE Ends("error") /\ UNCHANGED dev
  /\ UNCHANGED <<ends, asked, before, acc, file, parsed, ops>>

(* readErrno, unless writeConfig had failed. *)
readErrno ==
  /\ op = "set" /\ wire = <<>> /\ Ends(IF Keyless(asked) = {} THEN "ok" ELSE "error")
  /\ UNCHANGED <<ends, dev, asked, before, acc, file, parsed, ops>>

(* The connection breaks: writes fail or the answer has no errno. *)
connectionCut ==
  /\ op \in {"set", "get"} /\ Ends("error") /\ asked' = Nil
  /\ UNCHANGED <<ends, dev, before, acc, file, parsed, ops>>

GetDevice ==
  /\ Starts /\ before' = dev /\ acc' = StartParse /\ parsed' = Nil /\ asked' = Nil
  /\ IF listener
     THEN /\ op' = "get" /\ answer' = NoAnswer
          /\ \E order \in SetToAllKPermutations(DOMAIN dev.peers) :
               Len(order) = Cardinality(DOMAIN dev.peers) /\ wire' = dump(dev, order)
     ELSE Ends("error")
  /\ UNCHANGED <<ends, dev, file>>

parseDevice ==
  /\ op = "get" /\ wire # <<>> /\ acc' = parseLine(acc, Head(wire))
  /\ IF Head(wire)[1] = "errno" THEN Ends("ok") /\ parsed' = acc'
     ELSE wire' = Tail(wire) /\ UNCHANGED <<op, answer, parsed>>
  /\ UNCHANGED <<ends, dev, asked, before, file, ops>>

(* A peer completes a handshake. *)
handshake ==
  /\ op = "none" /\ \E k \in DOMAIN dev.peers : dev.peers[k].handshake = 0 /\ dev' = [dev EXCEPT !.peers[k].handshake = 5]
  /\ asked' = Nil /\ UNCHANGED <<ends, op, wire, before, acc, file, answer, parsed, ops>>

saveConfig(c) ==
  /\ Starts /\ file' = [lines |-> GenerateConfig(c), of |-> c] /\ asked' = Nil /\ answer' = NoAnswer
  /\ UNCHANGED <<ends, dev, op, wire, before, acc, parsed>>

ParseConfigFile ==
  /\ Starts /\ file # Nil /\ op' = "load" /\ wire' = file.lines /\ acc' = StartFile /\ answer' = NoAnswer /\ parsed' = Nil
  /\ UNCHANGED <<ends, dev, asked, before, file>>

scanFile ==
  /\ op = "load"
  /\ IF wire # <<>> THEN acc' = parseFileLine(acc, Head(wire)) /\ wire' = Tail(wire) /\ UNCHANGED <<op, answer, parsed>>
     ELSE acc' = endOfFile(acc) /\ parsed' = acc'.cfg /\ Ends("ok")
  /\ UNCHANGED <<ends, dev, asked, before, file, ops>>

WgNext ==
  \/ createTUN \/ UAPIOpen \/ FileListener \/ closeFile \/ Close
  \/ \E c \in Configs : ConfigureDevice(c) \/ saveConfig(c)
  \/ deviceReads \/ readErrno \/ connectionCut \/ GetDevice \/ parseDevice \/ handshake
  \/ ParseConfigFile \/ scanFile

WgSpec == WgInit /\ [][WgNext]_wvars

-----------------------------------------------------------------------------
(* An interface that was closed, or whose creation failed at any step, keeps
   neither TUN device nor listener. *)
InterfaceReleased == itf \in {"failed", "closed"} => ~tun /\ ~listener

Networks(p) == {Network(p.allowed[i]) : i \in DOMAIN p.allowed}

(* A set that succeeded left the device as the configuration says: the peers it
   names last, and no other if it replaces them; the networks of a peer that
   replaces them, less what later peers of the same configuration claim. *)
SetApplied ==
  (answer = <<"set", "ok">> /\ asked # Nil) =>
    /\ asked.key # Nil => dev.key = asked.key
    /\ asked.port # Nil => dev.port = asked.port
    /\ asked.replacePeers => DOMAIN dev.peers \subseteq {asked.peers[i].key : i \in DOMAIN asked.peers}
    /\ \A i \in DOMAIN asked.peers :
         LET p == asked.peers[i]
             later == {asked.peers[j] : j \in (i + 1)..Len(asked.peers)}
         IN (\A q \in later : q.key # p.key) =>
              /\ p.remove => p.key \notin DOMAIN dev.peers
              /\ (~p.remove /\ ~p.updateOnly) =>
                   /\ p.key \in DOMAIN dev.peers
                   /\ (p.replaceAllowed /\ \A q \in later : ~q.updateOnly) =>
                        dev.peers[p.key].allowed =
                          Networks(p) \ UNION {Networks(q) : q \in {x \in later : ~x.remove}}

(* A configuration whose peers all have keys is refused only when the connection
   breaks: writeConfig sends no line the device does not know. *)
WellFormedSetSucceeds == (answer = <<"set", "error">> /\ asked # Nil) => Keyless(asked) # {}

(* What Device returns is the device when it answered: every peer once, also the
   only one and the last one, each with its own fields. *)
ReadBack ==
  answer = <<"get", "ok">> =>
    /\ parsed.dev = [key |-> before.key, pub |-> PublicKey(before.key), port |-> before.port,
                     mark |-> before.mark, awg |-> before.awg]
    /\ Len(parsed.peers) = Cardinality(DOMAIN before.peers)
    /\ \A i \in DOMAIN parsed.peers : parsed.peers[i].key \in DOMAIN before.peers
                                      /\ Without(parsed.peers[i], "key") = before.peers[parsed.peers[i].key]

(* ParseConfigFile returns what GenerateConfig was given, but for the firewall
   mark and the update flags, which a file does not hold, whole seconds and
   networks in place of addresses. *)
FileKept ==
  answer = <<"load", "ok">> =>
    parsed = [file.of EXCEPT !.mark = Nil, !.replacePeers = FALSE,
                !.peers = [i \in DOMAIN @ |->
                   [@[i] EXCEPT !.remove = FALSE, !.updateOnly = FALSE, !.replaceAllowed = FALSE,
                                !.keepalive = IF @ = Nil THEN Nil ELSE (@ \div 1000) * 1000,
                                !.allowed = [j \in DOMAIN @ |-> Network(@[j])]]]]

(* The conversation with a device and its file loses nothing on the way:   *)
(* what is set is on the device, what is read is what it has, what is      *)
(* saved can be loaded, and an interface that failed or was closed leaves  *)
(* nothing behind (pkg/wg).                                                *)
WgSafe ==
  /\ WgTypeOK /\ InterfaceReleased
  /\ SetApplied /\ WellFormedSetSucceeds
  /\ ReadBack /\ FileKept
=============================================================================
