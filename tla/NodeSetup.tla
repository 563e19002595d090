----------------------------- MODULE NodeSetup ------------------------------
(***************************************************************************)
(* mesh-ctl node prepare, node init, node remove and token rotate on one   *)
(* configuration directory (cmd/mesh-ctl/cmd: node.go, node_mikrotik.go,   *)
(* token.go, onboarding.go, controlplane_client.go; pkg/tls: ca.go,        *)
(* cert.go, token.go).  Every command is a process; several may run at     *)
(* once, fail, or be killed.  Nothing locks the directory.                 *)
(*                                                                         *)
(* What a file holds is named by the command that generated it: the CA o,  *)
(* the certificate [id |-> o, ca |-> the CA that signed it], the token o.  *)
(* os.WriteFile truncates and then writes, so others may see a file that   *)
(* is HalfWritten.                                                         *)
(***************************************************************************)
EXTENDS Integers

CONSTANTS Cmds, Nodes, Absent, HalfWritten,
          MaxSetupFaults     \* bound: failed writes and RPCs, lost replies, kills

ConfigFiles == {"ca.crt", "ca.key", "admin.crt", "admin.key"}
NodeFiles == {"node.crt", "node.key", "token", "mesh.token", "mesh.token.tmp",
              "wg.priv", "wg.pub", "script"}
In(dir, name) == <<dir, name>>
Path == {In(Absent, f) : f \in ConfigFiles} \cup {In(n, f) : n \in Nodes, f \in NodeFiles}

Certs == [id : Cmds, ca : Cmds]
Script == [crt : Certs \cup {HalfWritten}, key : Cmds \cup {HalfWritten},
           ca : Cmds \cup {HalfWritten}, hash : Cmds]

(* No generated content reads as a missing or a half-written file. *)
ASSUME SetupAssumption ==
    /\ MaxSetupFaults \in Nat
    /\ Absent \notin Nodes /\ Absent # HalfWritten
    /\ \A x \in {Absent, HalfWritten} : x \notin Cmds /\ x \notin Certs /\ x \notin Script

VARIABLES nodeFile,    \* what each file of the directory holds
          command, node,
          pc, half,    \* where a command is, and whether its write is half done
          ca,          \* the CA a command loaded or created
          cert,        \* the certificate node init read
          agent,       \* token hash of each node's agent, Absent before it runs
          pinned,      \* certificate each registered node is pinned to
          trusted,     \* CA the coordination target was started with
          creators,    \* history: commands that found no CA and made one
          alone,       \* history: no other command ran during this one
          last,        \* history: command that ended last
          setupFaults

memory == <<command, node, ca, cert>>
remote == <<agent, pinned, trusted>>
history == <<creators, alone, last>>
setupVars == <<nodeFile, pc, half, memory, remote, history, setupFaults>>

SetupCommands == {"prepare", "mikrotik", "init", "remove", "rotate"}
Preparing == {"prepare", "mikrotik"}
Ended == {"idle", "ok", "error", "killed"}
Running(o) == pc[o] \notin Ended

(* Every variable holds a value of its shape.                              *)
SetupTypeOK ==
    /\ DOMAIN nodeFile = Path
    /\ \A p \in Path : nodeFile[p] \in Cmds \cup Certs \cup Script \cup {Absent, HalfWritten}
    /\ command \in [Cmds -> SetupCommands \cup {Absent}] /\ node \in [Cmds -> Nodes \cup {Absent}]
    /\ half \in [Cmds -> BOOLEAN] /\ ca \in [Cmds -> Cmds \cup {Absent}]
    /\ cert \in [Cmds -> Certs \cup {Absent, HalfWritten}]
    /\ agent \in [Nodes -> Cmds \cup {Absent}] /\ pinned \in [Nodes -> Certs \cup {Absent}]
    /\ trusted \in Cmds \cup {Absent}
    /\ creators \subseteq Cmds /\ alone \in [Cmds -> BOOLEAN]
    /\ last \in Cmds \cup {Absent} /\ setupFaults \in 0 .. MaxSetupFaults

SetupInit ==
    /\ nodeFile = [p \in Path |-> Absent]
    /\ command = [o \in Cmds |-> Absent] /\ node = [o \in Cmds |-> Absent]
    /\ pc = [o \in Cmds |-> "idle"] /\ half = [o \in Cmds |-> FALSE]
    /\ ca = [o \in Cmds |-> Absent] /\ cert = [o \in Cmds |-> Absent]
    /\ agent = [n \in Nodes |-> Absent] /\ pinned = [n \in Nodes |-> Absent] /\ trusted = Absent
    /\ creators = {} /\ alone = [o \in Cmds |-> TRUE] /\ last = Absent /\ setupFaults = 0

-----------------------------------------------------------------------------
SetupFault == setupFaults < MaxSetupFaults /\ setupFaults' = setupFaults + 1
At(o, here) == pc[o] = here
Conf(name) == nodeFile[In(Absent, name)]
Dir(o, name) == In(node[o], name)
Of(o, name) == nodeFile[Dir(o, name)]
Has(p) == nodeFile[p] \notin {Absent, HalfWritten}

Go(o, to) ==
    /\ pc' = [pc EXCEPT ![o] = to]
    /\ last' = IF to \in Ended THEN o ELSE last
    /\ UNCHANGED <<creators, alone>>

Only(o, here, to) == At(o, here) /\ Go(o, to)
KeepFiles == UNCHANGED <<nodeFile, half>>
KeepRest == UNCHANGED <<memory, remote>>

(* os.WriteFile: truncate, then write; the write may fail. *)
WriteFile(o, here, p, content, to) ==
    /\ At(o, here)
    /\ \/ /\ ~half[o]
          /\ nodeFile' = [nodeFile EXCEPT ![p] = HalfWritten] /\ half' = [half EXCEPT ![o] = TRUE]
          /\ UNCHANGED <<pc, history, setupFaults>>
       \/ /\ half[o] /\ half' = [half EXCEPT ![o] = FALSE]
          /\ \/ nodeFile' = [nodeFile EXCEPT ![p] = content] /\ Go(o, to) /\ UNCHANGED setupFaults
             \/ SetupFault /\ UNCHANGED nodeFile /\ Go(o, "error")
    /\ KeepRest

FirstStep(c) ==
    IF c \in Preparing THEN "ca" ELSE IF c = "init" THEN "pair" ELSE IF c = "remove" THEN "admin" ELSE "agent"

Start(o, c, n) ==
    /\ At(o, "idle")
    /\ command' = [command EXCEPT ![o] = c] /\ node' = [node EXCEPT ![o] = n]
    /\ alone' = [q \in Cmds |-> IF q = o THEN \A r \in Cmds : ~Running(r)
                               ELSE alone[q] /\ ~Running(q)]
    /\ pc' = [pc EXCEPT ![o] = FirstStep(c)]
    /\ KeepFiles /\ UNCHANGED <<ca, cert, remote, creators, last, setupFaults>>

Killed(o) ==
    /\ Running(o) /\ SetupFault
    /\ Go(o, "killed")
    /\ half' = [half EXCEPT ![o] = FALSE] /\ UNCHANGED nodeFile /\ KeepRest

-----------------------------------------------------------------------------
(* loadOrCreateMeshCA: two missing files are created, one is an error.     *)
(* LoadCA parses both; IssueCert refuses a key that is not the CA's.       *)
NoCA == Conf("ca.crt") = Absent /\ Conf("ca.key") = Absent
WholeCA == Has(In(Absent, "ca.crt")) /\ Conf("ca.crt") = Conf("ca.key")

loadOrCreateMeshCA_Trusts(o) ==
    /\ At(o, "ca")
    /\ IF NoCA
       THEN /\ ca' = [ca EXCEPT ![o] = o] /\ creators' = creators \cup {o}
            /\ pc' = [pc EXCEPT ![o] = "ca.crt"]
            /\ UNCHANGED <<alone, last>>
       ELSE /\ ca' = [ca EXCEPT ![o] = IF Has(In(Absent, "ca.crt")) THEN Conf("ca.crt") ELSE Absent]
            /\ Go(o, IF ca'[o] # Absent THEN "node.crt" ELSE "error")
    /\ KeepFiles /\ UNCHANGED <<command, node, cert, remote, setupFaults>>

loadOrCreateMeshCA(o) ==
    /\ At(o, "ca")
    /\ IF NoCA
       THEN /\ ca' = [ca EXCEPT ![o] = o] /\ creators' = creators \cup {o}
            /\ pc' = [pc EXCEPT ![o] = "ca.crt"]
            /\ UNCHANGED <<alone, last>>
       ELSE /\ ca' = [ca EXCEPT ![o] = IF WholeCA THEN Conf("ca.crt") ELSE Absent]
            /\ Go(o, IF WholeCA THEN "node.crt" ELSE "error")
    /\ KeepFiles /\ UNCHANGED <<command, node, cert, remote, setupFaults>>

SaveCA(o) ==
    \/ WriteFile(o, "ca.crt", In(Absent, "ca.crt"), o, "ca.key")
    \/ WriteFile(o, "ca.key", In(Absent, "ca.key"), o, "node.crt")

SaveCertKey(o) ==
    \/ WriteFile(o, "node.crt", Dir(o, "node.crt"), [id |-> o, ca |-> ca[o]], "node.key")
    \/ WriteFile(o, "node.key", Dir(o, "node.key"), o, "token")

(* saveToken; node prepare runs it before SaveTokenHash, token rotate after. *)
saveToken(o) ==
    WriteFile(o, "token", Dir(o, "token"), o, IF command[o] = "rotate" THEN "ok" ELSE "hash")

(* SaveTokenHash writes mesh.token.tmp and renames it. *)
SaveTokenHash(o) ==
    \/ WriteFile(o, "hash", Dir(o, "mesh.token.tmp"), o, "rename")
    \/ /\ At(o, "rename")
       /\ IF Of(o, "mesh.token.tmp") = Absent
          THEN UNCHANGED nodeFile /\ Go(o, "error")
          ELSE /\ nodeFile' = [nodeFile EXCEPT ![Dir(o, "mesh.token")] = Of(o, "mesh.token.tmp"),
                                       ![Dir(o, "mesh.token.tmp")] = Absent]
               /\ Go(o, IF command[o] = "prepare" THEN "wg.priv"
                        ELSE IF command[o] = "mikrotik" THEN "script" ELSE "token")
       /\ KeepRest /\ UNCHANGED <<half, setupFaults>>

(* writeFileExclusive writes a temporary file and links it: the new name   *)
(* appears whole, and only if there is none.                               *)
writeFileExclusive(p, content) ==
    nodeFile' = IF nodeFile[p] = Absent THEN [nodeFile EXCEPT ![p] = content] ELSE nodeFile

(* loadOrCreatePrivateWGKey and syncPublicWGKey read, create what is       *)
(* missing, and read again; a public key that is not the private key's is  *)
(* an error.                                                               *)
loadOrCreateWireGuardKeyPair(o) ==
    /\ \/ /\ Only(o, "wg.priv", IF Of(o, "wg.priv") = Absent THEN "link priv" ELSE "wg.pub")
          /\ UNCHANGED nodeFile
       \/ /\ Only(o, "link priv", "wg.priv")
          /\ writeFileExclusive(Dir(o, "wg.priv"), o)
       \/ /\ Only(o, "wg.pub", IF Of(o, "wg.pub") = Absent THEN "link pub"
                               ELSE IF Of(o, "wg.pub") = Of(o, "wg.priv") THEN "ok"
                               ELSE "error")
          /\ UNCHANGED nodeFile
       \/ /\ Only(o, "link pub", "wg.pub")
          /\ writeFileExclusive(Dir(o, "wg.pub"), Of(o, "wg.priv"))
    /\ KeepRest /\ UNCHANGED <<half, setupFaults>>

(* --platform mikrotik: a missing --control-plane or role is found only    *)
(* now; the script carries the certificate, the key and the CA as they are *)
(* read back, and the token hash in memory.                                *)
prepareMikrotikRouterOS(o) ==
    \/ /\ At(o, "script") /\ ~half[o] /\ SetupFault
       /\ Go(o, "error") /\ KeepFiles /\ KeepRest
    \/ WriteFile(o, "script", Dir(o, "script"),
                 [crt |-> Of(o, "node.crt"), key |-> Of(o, "node.key"),
                  ca |-> Conf("ca.crt"), hash |-> o], "ok")

runNodePrepareCommand(o) ==
    \/ loadOrCreateMeshCA(o) \/ SaveCA(o) \/ SaveCertKey(o)
    \/ saveToken(o) \/ SaveTokenHash(o)
    \/ loadOrCreateWireGuardKeyPair(o) \/ prepareMikrotikRouterOS(o)

-----------------------------------------------------------------------------
(* node init loads the prepared pair, then reads the certificate again. *)
loadPrepared(o) ==
    /\ At(o, "pair")
    /\ LET crt == Of(o, "node.crt")
       IN  IF crt \in Certs /\ crt.id = Of(o, "node.key")
           THEN cert' = [cert EXCEPT ![o] = crt] /\ Go(o, "reread")
           ELSE UNCHANGED cert /\ Go(o, "error")
    /\ KeepFiles /\ UNCHANGED <<command, node, ca, remote, setupFaults>>

rereadCert(o) ==
    /\ At(o, "reread")
    /\ cert' = [cert EXCEPT ![o] = Of(o, "node.crt")]
    /\ Go(o, "admin")
    /\ KeepFiles /\ UNCHANGED <<command, node, ca, remote, setupFaults>>

(* loadOrCreateControlPlaneAdminCert, for node init and node remove. *)
adminFiles == {Conf("admin.crt"), Conf("admin.key")}
loadOrCreateControlPlaneAdminCert(o) ==
    \/ /\ At(o, "admin")
       /\ ca' = [ca EXCEPT ![o] = IF WholeCA THEN Conf("ca.crt") ELSE Absent]
       /\ Go(o, IF adminFiles = {Absent} /\ WholeCA THEN "admin.crt"
                ELSE IF Absent \in adminFiles THEN "error" ELSE "dial")
       /\ KeepFiles /\ UNCHANGED <<command, node, cert, remote, setupFaults>>
    \/ WriteFile(o, "admin.crt", In(Absent, "admin.crt"), [id |-> o, ca |-> ca[o]], "admin.key")
    \/ WriteFile(o, "admin.key", In(Absent, "admin.key"), o, "dial")

(* The pair and ca.crt must load, and both ends must trust the same CA. *)
Handshake ==
    LET crt == Conf("admin.crt")
    IN  crt \in Certs /\ crt.id = Conf("admin.key") /\ trusted = crt.ca /\ trusted = Conf("ca.crt")

(* RegisterNode pins the certificate of a new node and accepts a known one *)
(* only with the same; DecommissionNode forgets the node.                  *)
callCoordination(o) ==
    /\ At(o, "dial")
    /\ LET n == node[o]
           accepted == IF command[o] = "init" THEN pinned[n] \in {Absent, cert[o]} /\ cert[o] \in Certs
                                              ELSE pinned[n] # Absent
           applied == [pinned EXCEPT ![n] = IF command[o] = "init" THEN cert[o] ELSE Absent]
       IN  \/ /\ Handshake /\ accepted
              /\ pinned' = applied
              /\ \/ Go(o, "ok") /\ UNCHANGED setupFaults
                 \/ SetupFault /\ Go(o, "error")
           \/ /\ ~(Handshake /\ accepted)
              /\ Go(o, "error") /\ UNCHANGED <<pinned, setupFaults>>
    /\ KeepFiles /\ UNCHANGED <<memory, agent, trusted>>

-----------------------------------------------------------------------------
(* token rotate: the agent checks the old token and stores the new hash;   *)
(* only then are the hash and the token saved here.                        *)
rotateToken(o) ==
    /\ At(o, "agent")
    /\ LET accepted == Of(o, "token") # Absent /\ agent[node[o]] = Of(o, "token")
       IN  \/ /\ accepted
              /\ agent' = [agent EXCEPT ![node[o]] = o]
              /\ \/ Go(o, "hash") /\ UNCHANGED setupFaults
                 \/ SetupFault /\ Go(o, "error")
           \/ /\ ~accepted
              /\ Go(o, "error") /\ UNCHANGED <<agent, setupFaults>>
    /\ KeepFiles /\ UNCHANGED <<memory, pinned, trusted>>

(* The operator starts the coordination target with the CA, or a node with *)
(* its token hash.                                                         *)
Deploy ==
    /\ \/ /\ trusted = Absent /\ WholeCA
          /\ trusted' = Conf("ca.crt") /\ UNCHANGED agent
       \/ \E n \in Nodes :
             /\ agent[n] = Absent /\ Has(In(n, "mesh.token"))
             /\ agent' = [agent EXCEPT ![n] = nodeFile[In(n, "mesh.token")]] /\ UNCHANGED trusted
    /\ KeepFiles /\ UNCHANGED <<pc, memory, pinned, history, setupFaults>>

Command(o) ==
    \/ runNodePrepareCommand(o)
    \/ loadPrepared(o) \/ rereadCert(o)
    \/ loadOrCreateControlPlaneAdminCert(o) \/ callCoordination(o)
    \/ rotateToken(o)

SetupNext ==
    \/ \E o \in Cmds : Command(o) \/ Killed(o) \/ (\E c \in SetupCommands, n \in Nodes : Start(o, c, n))
    \/ Deploy

SetupSpec == SetupInit /\ [][SetupNext]_setupVars

-----------------------------------------------------------------------------
(* The WireGuard public key that is registered for a node is the one of    *)
(* its private key, at every moment and however many node prepare commands *)
(* run (node_mikrotik.go: link, never overwrite, read back).               *)
WGPairMatches ==
    \A n \in Nodes : nodeFile[In(n, "wg.pub")] # Absent => nodeFile[In(n, "wg.pub")] = nodeFile[In(n, "wg.priv")]

(* node prepare never replaces the WireGuard keys of a node: masters have  *)
(* the public key.                                                         *)
KeepsWGKeys ==
    \A n \in Nodes : nodeFile[In(n, "wg.priv")] # Absent => nodeFile'[In(n, "wg.priv")] = nodeFile[In(n, "wg.priv")]
WGKeyKept == [][KeepsWGKeys]_setupVars

(* A command that ran alone and ended last did what it reports: node       *)
(* prepare left a whole pair signed by the CA on disk, a token with its    *)
(* hash, and a script that carries them; node init registered that         *)
(* certificate; token rotate left the agent with the token on disk.        *)
Usable(o) ==
    LET n == node[o]
    IN  /\ command[o] \in Preparing =>
               /\ WholeCA
               /\ Of(o, "node.crt") = [id |-> o, ca |-> Conf("ca.crt")] /\ Of(o, "node.key") = o
               /\ Of(o, "token") = o /\ Of(o, "mesh.token") = o
        /\ command[o] = "mikrotik" =>
               Of(o, "script") = [crt |-> Of(o, "node.crt"), key |-> o, ca |-> Conf("ca.crt"), hash |-> o]
        /\ command[o] = "init" =>
               pinned[n] = Of(o, "node.crt") /\ pinned[n].id = Of(o, "node.key")
        /\ command[o] = "remove" => pinned[n] = Absent
        /\ command[o] = "rotate" =>
               agent[n] = o /\ Of(o, "token") = o /\ Of(o, "mesh.token") = o

SuccessIsUsable ==
    \A o \in Cmds :
        At(o, "ok") /\ alone[o] /\ last = o /\ (\A q \in Cmds : ~Running(q)) => Usable(o)

(* Every certificate a successful node prepare wrote is signed by the CA   *)
(* on disk, unless two commands each found no CA and made one              *)
(* (loadOrCreateMeshCA checks first and writes later).                     *)
OneCreator == \A o, q \in creators : o = q
OneCA ==
    OneCreator =>
    \A o \in Cmds : At(o, "ok") /\ command[o] \in Preparing => ca[o] = Conf("ca.crt") /\ WholeCA

(* Whatever onboarding commands run, fail or die side by side: keys match  *)
(* and stay, success means usable, and certificates have one CA            *)
(* (node.go, node_mikrotik.go, token.go).                                  *)
SetupSafe ==
    /\ [](SetupTypeOK /\ WGPairMatches /\ SuccessIsUsable /\ OneCA)
    /\ WGKeyKept
=============================================================================
