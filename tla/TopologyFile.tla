---------------------------- MODULE TopologyFile ----------------------------
(***************************************************************************)
(* The mesh-ctl commands that rewrite the topology file: ip range add,     *)
(* resize, rename, delete and set-balancer (cmd/ip.go), capture schedule   *)
(* (cmd/capture.go) and migrate (cmd/migrate.go).  Each loads the file,    *)
(* edits its copy and writes the whole file back; no lock is held between. *)
(*                                                                         *)
(* The range commands replace the file by a rename.  capture schedule uses *)
(* os.WriteFile, which truncates first: for a while, and for good after a  *)
(* crash, the file is empty.  LoadTopology decodes leniently: an empty     *)
(* file, and a file of schema 2, load as a topology without ranges and     *)
(* without nodes, and no error.                                            *)
(***************************************************************************)
EXTENDS Topology

CONSTANTS
    Editors,   \* invocations of mesh-ctl
    Commands,  \* commands with their arguments
    File0,     \* files to start from
    MaxEdits   \* bound: commands that are begun

VARIABLES
    topologyFile,  \* kind of the file, its ranges, its nodes' addresses
    tpc, cmd,      \* step and command of an editor
    mem,           \* its copy of the topology
    rawKind,       \* kind of the bytes it read
    fresh,         \* history: nobody wrote the file since it read it
    edits,
    blindRead      \* history: a file that was not of schema 1 was read as one

tvars == <<topologyFile, tpc, cmd, mem, rawKind, fresh, edits, blindRead>>

Kinds == {"v1", "v2", "empty"}
Contents(kind, ranges, nodes) == [kind |-> kind, ranges |-> ranges, nodes |-> nodes]
EmptyTopology == Contents("v1", <<>>, {})
WithRanges(t, ranges) == Contents(t.kind, ranges, t.nodes)
RangeTexts == [name : STRING, cidr : CIDRs, bal : AddrTexts \cup {NoText}]

(* No two ranges of one name, no two that overlap, every balancer inside. *)
SoundRanges(rs) ==
    /\ ~Duplicate(NamesOf(rs))
    /\ \A i, j \in DOMAIN rs :
         i < j => {v \in Space : PrefixContains(rs[i].cidr, v) /\ PrefixContains(rs[j].cidr, v)} = {}
    /\ \A i \in DOMAIN rs : rs[i].bal # NoText => PrefixContains(rs[i].cidr, rs[i].bal.val)

ASSUME FileAssumption ==
    /\ \A c \in Commands : /\ c.name \in STRING /\ c.newName \in STRING
                           /\ c.cidr \in CIDRs \cup {NoText, BadText}
                           /\ c.bal \in AddrTexts \cup {NoText, BadText}
    /\ \A f \in File0 : /\ f = Contents(f.kind, f.ranges, f.nodes)
                        /\ f.kind \in {"v1", "v2"} /\ f.nodes # {}
                        /\ f.ranges \in Seq(RangeTexts) /\ SoundRanges(f.ranges)
    /\ NoText \notin Commands /\ MaxEdits \in Nat

FileTypeOK ==
    /\ topologyFile.kind \in Kinds
    /\ tpc \in [Editors -> {"idle", "loaded", "truncated"}]
    /\ cmd \in [Editors -> Commands \cup {NoText}]
    /\ rawKind \in [Editors -> Kinds]
    /\ fresh \in [Editors -> BOOLEAN]
    /\ edits \in 0 .. MaxEdits
    /\ blindRead \in BOOLEAN

FileInit ==
    /\ topologyFile \in File0
    /\ tpc = [o \in Editors |-> "idle"]
    /\ cmd = [o \in Editors |-> NoText]
    /\ mem = [o \in Editors |-> EmptyTopology]
    /\ rawKind = [o \in Editors |-> "v1"]
    /\ fresh = [o \in Editors |-> FALSE]
    /\ edits = 0
    /\ blindRead = FALSE

-----------------------------------------------------------------------------
(* LoadTopology; migrate reads the raw bytes, so rawKind keeps their kind. *)
LoadTopology(o) ==
    /\ tpc[o] = "idle" /\ edits < MaxEdits
    /\ \E c \in Commands : cmd' = [cmd EXCEPT ![o] = c]
    /\ mem' = [mem EXCEPT ![o] = IF topologyFile.kind = "v1" THEN topologyFile ELSE EmptyTopology]
    /\ rawKind' = [rawKind EXCEPT ![o] = topologyFile.kind]
    /\ fresh' = [fresh EXCEPT ![o] = TRUE]
    /\ tpc' = [tpc EXCEPT ![o] = "loaded"]
    /\ edits' = edits + 1
    /\ blindRead' = (blindRead \/ topologyFile.kind # "v1")
    /\ UNCHANGED topologyFile

-----------------------------------------------------------------------------
(* What each command makes of its copy t; {} is an error, before any write.*)
Named(t, name) == {i \in DOMAIN t.ranges : t.ranges[i].name = name}
findRangeIndex(t, name) ==
    IF Named(t, name) = {} THEN 0
    ELSE CHOOSE i \in Named(t, name) : \A j \in Named(t, name) : i <= j

OverlapsOther(t, net, idx) ==
    \E i \in DOMAIN t.ranges \ {idx} :
        ParseRangeOk(t.ranges[i]) /\ RangesOverlap(net, Masked(t.ranges[i].cidr))

BalancerInside(net, bal) == bal = NoText \/ (bal # BadText /\ RangeContains(net, bal))

RangeText(name, cidr, bal) == [name |-> name, cidr |-> cidr, bal |-> bal]
Put(t, idx, r) == WithRanges(t, [t.ranges EXCEPT ![idx] = r])

ipRangeAdd(t, c) ==
    LET r == RangeText(c.name, c.cidr, c.bal)
    IN  IF /\ findRangeIndex(t, c.name) = 0
           /\ ParseRangeOk(r)
           /\ ~OverlapsOther(t, Masked(c.cidr), 0)
           /\ BalancerInside(Masked(c.cidr), c.bal)
        THEN {WithRanges(t, Append(t.ranges, r))} ELSE {}

ipRangeResize(t, c) ==
    LET idx == findRangeIndex(t, c.name)
        r == t.ranges[idx]
    IN  IF idx = 0 THEN {}
        ELSE IF /\ Parses(c.cidr) /\ r.bal # BadText
                /\ ~OverlapsOther(t, Masked(c.cidr), idx)
                /\ BalancerInside(Masked(c.cidr), r.bal)
             THEN {Put(t, idx, RangeText(r.name, c.cidr, r.bal))} ELSE {}

ipRangeRename(t, c) ==
    LET idx == findRangeIndex(t, c.name)
        r == t.ranges[idx]
    IN  IF idx # 0 /\ \A i \in DOMAIN t.ranges \ {idx} : t.ranges[i].name # c.newName
        THEN {Put(t, idx, RangeText(c.newName, r.cidr, r.bal))} ELSE {}

checkNodesUseRange(t, net) == \E ip \in t.nodes : Parses(ip) /\ RangeContains(net, ip)

(* Mutant of ipRangeDelete: the last range is cut off instead. *)
ipRangeDelete_DropsLast(t, c) ==
    LET idx == findRangeIndex(t, c.name)
    IN  IF idx # 0 /\ ParseRangeOk(t.ranges[idx]) /\ ~checkNodesUseRange(t, Masked(t.ranges[idx].cidr))
        THEN {WithRanges(t, [i \in 1 .. Len(t.ranges) - 1 |-> t.ranges[i]])} ELSE {}

(* The last range takes the deleted one's place. *)
ipRangeDelete(t, c) ==
    LET idx == findRangeIndex(t, c.name)
        last == Len(t.ranges)
    IN  IF idx # 0 /\ ParseRangeOk(t.ranges[idx]) /\ ~checkNodesUseRange(t, Masked(t.ranges[idx].cidr))
        THEN {WithRanges(t, [i \in 1 .. last - 1 |-> IF i = idx THEN t.ranges[last] ELSE t.ranges[i]])}
        ELSE {}

ipRangeSetBalancer(t, c) ==
    LET idx == findRangeIndex(t, c.name)
        r == t.ranges[idx]
    IN  IF idx = 0 THEN {}
        ELSE IF ParseRangeOk(r) /\ c.bal # NoText /\ BalancerInside(Masked(r.cidr), c.bal)
             THEN {Put(t, idx, RangeText(r.name, r.cidr, c.bal))} ELSE {}

(* migrate --from and --to the topology file; a node without an address in *)
(* the supernet is an error (ValidateV2).                                  *)
MigrateFile(t, kind, c) ==
    IF /\ kind = "v1" /\ c.force
       /\ t.nodes # {} /\ t.ranges # <<>> /\ Parses(t.ranges[1].cidr)
       /\ \A ip \in t.nodes : Parses(ip) /\ PrefixContains(t.ranges[1].cidr, ip.val)
    THEN {Contents("v2", <<>>, t.nodes)} ELSE {}

Edited(o) ==
    LET c == cmd[o] t == mem[o] IN
    IF c.op = "add" THEN ipRangeAdd(t, c)
    ELSE IF c.op = "resize" THEN ipRangeResize(t, c)
    ELSE IF c.op = "rename" THEN ipRangeRename(t, c)
    ELSE IF c.op = "delete" THEN ipRangeDelete(t, c)
    ELSE IF c.op = "set-balancer" THEN ipRangeSetBalancer(t, c)
    ELSE IF c.op = "migrate" THEN MigrateFile(t, rawKind[o], c)
    ELSE {t}

-----------------------------------------------------------------------------
Done(o) ==
    /\ tpc' = [tpc EXCEPT ![o] = "idle"]
    /\ cmd' = [cmd EXCEPT ![o] = NoText]
    /\ mem' = [mem EXCEPT ![o] = EmptyTopology]
    /\ rawKind' = [rawKind EXCEPT ![o] = "v1"]
Others(o) == [p \in Editors |-> IF p = o THEN fresh[p] ELSE FALSE]

Refuse(o) ==
    /\ tpc[o] = "loaded" /\ Edited(o) = {}
    /\ Done(o)
    /\ UNCHANGED <<topologyFile, fresh, edits, blindRead>>

(* SaveTopology and SaveTopologyV2: a temporary file of a unique name, then*)
(* a rename.                                                               *)
SaveTopology(o) ==
    /\ tpc[o] = "loaded" /\ cmd[o].op # "schedule"
    /\ topologyFile' \in Edited(o)
    /\ fresh' = Others(o)
    /\ Done(o)
    /\ UNCHANGED <<edits, blindRead>>

(* A failure before the rename removes the temporary file; a crash leaves  *)
(* one that nobody reads.                                                  *)
SaveFails(o) ==
    /\ tpc[o] = "loaded"
    /\ Done(o)
    /\ UNCHANGED <<topologyFile, fresh, edits, blindRead>>

(* capture schedule: os.WriteFile truncates, then writes. *)
scheduleTruncate(o) ==
    /\ tpc[o] = "loaded" /\ cmd[o].op = "schedule"
    /\ topologyFile' = Contents("empty", <<>>, {})
    /\ fresh' = Others(o)
    /\ tpc' = [tpc EXCEPT ![o] = "truncated"]
    /\ UNCHANGED <<cmd, mem, rawKind, edits, blindRead>>

scheduleWrite(o) ==
    /\ tpc[o] = "truncated"
    /\ topologyFile' = mem[o]
    /\ fresh' = Others(o)
    /\ Done(o)
    /\ UNCHANGED <<edits, blindRead>>

scheduleCrash(o) ==
    /\ tpc[o] = "truncated"
    /\ Done(o)
    /\ UNCHANGED <<topologyFile, fresh, edits, blindRead>>

FileNext ==
    \E o \in Editors : \/ LoadTopology(o) \/ Refuse(o) \/ SaveTopology(o) \/ SaveFails(o)
                        \/ scheduleTruncate(o) \/ scheduleWrite(o) \/ scheduleCrash(o)

FileSpec == FileInit /\ [][FileNext]_tvars

-----------------------------------------------------------------------------
Entries(f) == {f.ranges[i] : i \in DOMAIN f.ranges}

Covered(f, ip) ==
    \E i \in DOMAIN f.ranges : ParseRangeOk(f.ranges[i]) /\ PrefixContains(Masked(f.ranges[i].cidr), ip.val)

(* Whatever commands run side by side, no version of the file has two      *)
(* ranges of one name, two that overlap, or a balancer outside its range:  *)
(* the commands check their own copy, and replace the whole file.          *)
RangesSound == SoundRanges(topologyFile.ranges)

(* The nodes of the topology disappear from a v1 file only when a command  *)
(* loaded it while capture schedule had truncated it (capture.go:258), or  *)
(* loaded a schema 2 file with the v1 decoder.                             *)
NodesKept ==
    topologyFile.kind = "v1" /\ topologyFile.nodes = {} => blindRead

(* A command that nobody overtook changes no range but the one it names:   *)
(* deleting by swapping in the last element loses none.                    *)
EditsOneRange ==
    [][\A o \in Editors : SaveTopology(o) /\ fresh[o] /\ topologyFile.kind = "v1" /\ topologyFile'.kind = "v1" =>
         LET kept(f) == {r \in Entries(f) : r.name \notin {cmd[o].name, cmd[o].newName}}
         IN  kept(topologyFile) = kept(topologyFile') /\ topologyFile'.nodes = topologyFile.nodes]_tvars

(* A node's address is left without a range only by a resize, which does   *)
(* not look at the nodes, or by a command that another one overtook: delete*)
(* refuses while a node is inside (addresses in plain spelling).           *)
OnlyResizeUncovers ==
    [][\A o \in Editors : SaveTopology(o) /\ fresh[o] /\ topologyFile.kind = "v1" /\ topologyFile'.kind = "v1" =>
         \A ip \in topologyFile.nodes :
            Parses(ip) /\ ~ip.mapped /\ Covered(topologyFile, ip) /\ ~Covered(topologyFile', ip) => cmd[o].op = "resize"]_tvars

(* Commands side by side keep the topology file sound: its ranges stay     *)
(* disjoint, its nodes stay, and each command changes what it names        *)
(* (ip.go, capture.go).                                                    *)
FileSafe ==
    /\ [](FileTypeOK /\ RangesSound /\ NodesKept)
    /\ EditsOneRange /\ OnlyResizeUncovers
=============================================================================
