---------------------------- MODULE CertRollover ----------------------------
(***************************************************************************)
(* Replacing a node's mTLS certificate while it is in use:                 *)
(*   - StreamCertUpdate (pkg/control_plane/server.go) issues a replacement *)
(*     (pkg/control_plane/cert_lifecycle.go), lets the registry accept it  *)
(*     beside the pinned one for an overlap window, and sends it;          *)
(*   - the agent (pkg/clientd/agent.go, cert_update.go) replaces its two   *)
(*     files by renames and registers again, which promotes the            *)
(*     replacement;                                                        *)
(*   - the reconnect loop (pkg/clientd/command.go) starts from the files.  *)
(*                                                                         *)
(* One node n.  A stream that broke may keep its handler for a while, so   *)
(* several handlers serve the node; link is the one it listens to.         *)
(* Certificates are numbered in the order they are issued; a certificate   *)
(* and its key have the same number.  Parsing and the checks on the name   *)
(* in a certificate are left out: certificates are well formed here.       *)
(***************************************************************************)
EXTENDS Registry, Sequences

CONSTANTS n,            \* the node
          Handlers,     \* StreamCertUpdate handlers
          ValidFor,     \* validity of an issued certificate
          RenewBefore,  \* how long before its end it is replaced
          PollInterval, \* longest sleep of a handler
          Grace,        \* shortest overlap window (defaultCertPromotionGrace)
          MaxTime,      \* bound: the clock
          MaxFaults,    \* bound: connections lost, control planes restarted
          MaxFileFaults,\* bound: file operations failed
          MaxCrashes,   \* bound: crashes of the node's process
          Prompt        \* time passes only when nobody has anything to do

VARIABLES now,
          notAfter,   \* certificate -> its end, 0 before it is issued
          \* the handlers: place, replacement issued, deadline, end of sleep
          hpc, update, overlapUntil, wakeAt,
          wire,       \* handler -> replacements sent and not received
          \* the node
          run,        \* where Agent.Run stands
          link,       \* the handler of its stream, or Nil
          connected,  \* its TLS connection is up
          mem,        \* certificate it registers with
          received,   \* replacement being installed
          certFile, keyFile, certBackup, keyBackup,
          faults, fileFaults, crashes,
          late        \* history: an overlap window closed before the promotion

registry == <<byName, byOverlay>>
handlerVars == <<hpc, update, overlapUntil, wakeAt>>
files == <<certFile, keyFile, certBackup, keyBackup>>
agentVars == <<run, link, connected, mem, received>>
bounds == <<faults, fileFaults, crashes>>
vars == <<registry, now, notAfter, handlerVars, wire, agentVars, files, bounds, late>>

ASSUME CertRolloverAssumption ==
    /\ n \in Names \cap Overlays /\ Nil \notin Handlers
    /\ Certs \subseteq Nat \ {0} /\ 1 \in Certs
    /\ {ValidFor, RenewBefore, PollInterval, Grace} \subseteq Nat \ {0}
    /\ {MaxTime, MaxFaults, MaxFileFaults, MaxCrashes} \subseteq Nat
    /\ Prompt \in BOOLEAN

(* Every variable holds a value of its shape, and no handler sleeps longer *)
(* than a poll interval, whatever the dates in the certificates.           *)
TypeOK ==
    /\ RegistryTypeOK
    /\ now \in 0 .. MaxTime
    /\ notAfter \in [Certs -> Nat]
    /\ hpc \in [Handlers -> {"off", "lookup", "allow", "send", "wait"}]
    /\ update \in [Handlers -> Certs \cup {Nil}]
    /\ overlapUntil \in [Handlers -> Nat]
    /\ wakeAt \in [Handlers -> 0 .. now + PollInterval]
    /\ wire \in [Handlers -> Seq(Certs)]
    /\ run \in {"down", "register", "stream", "live", "backupKey", "backupCert", "renameKey",
                "renameCert", "cleanup", "reregister", "restoreCert", "removeKey",
                "restoreKey", "exited"}
    /\ link \in Handlers \cup {Nil}
    /\ connected \in BOOLEAN
    /\ {mem, received, certFile, keyFile, certBackup, keyBackup} \subseteq Certs \cup {Nil}
    /\ faults \in 0 .. MaxFaults
    /\ fileFaults \in 0 .. MaxFileFaults
    /\ crashes \in 0 .. MaxCrashes
    /\ late \in BOOLEAN

Init ==
    /\ NewRegistry
    /\ now = 0
    /\ notAfter = [c \in Certs |-> IF c = 1 THEN ValidFor ELSE 0]
    /\ hpc = [h \in Handlers |-> "off"]
    /\ update = [h \in Handlers |-> Nil]
    /\ overlapUntil = [h \in Handlers |-> 0]
    /\ wakeAt = [h \in Handlers |-> 0]
    /\ wire = [h \in Handlers |-> <<>>]
    /\ run = "down" /\ link = Nil /\ connected = FALSE
    /\ mem = Nil /\ received = Nil
    /\ certFile = 1 /\ keyFile = 1 /\ certBackup = Nil /\ keyBackup = Nil
    /\ faults = 0 /\ fileFaults = 0 /\ crashes = 0 /\ late = FALSE

-----------------------------------------------------------------------------
(* The control plane.                                                      *)

EndStream(h) ==
    /\ hpc' = [hpc EXCEPT ![h] = "off"]
    /\ update' = [update EXCEPT ![h] = Nil]
    /\ overlapUntil' = [overlapUntil EXCEPT ![h] = 0]
    /\ wakeAt' = [wakeAt EXCEPT ![h] = 0]

(* Mutant of RenewTime: a certificate is replaced when it has ended. *)
RenewTime_AtTheEnd(node) == notAfter[node.cert]

RenewTime(node) == notAfter[node.cert] - RenewBefore

(* DelayUntilDue: until the renewal time, but no longer than a poll. *)
DelayUntilDue(node) ==
    LET delay == RenewTime(node) - now IN
    IF hasActivePendingCert(node, now) \/ delay > PollInterval THEN PollInterval
    ELSE IF delay < 0 THEN 0
    ELSE delay

(* NextDueUpdate: a replacement is due within RenewBefore of the end of    *)
(* the pinned certificate, unless one is active already.                   *)
Due(node) ==
    /\ ~hasActivePendingCert(node, now)
    /\ now >= RenewTime(node)

PromotionDeadline(node) ==
    IF notAfter[node.cert] < now + Grace THEN now + Grace ELSE notAfter[node.cert]

(* registry.Lookup, and the next certificate if one is due. *)
NextDueUpdate(h) ==
    /\ hpc[h] = "lookup"
    /\ \/ /\ ~Registered(n)
          /\ EndStream(h)
          /\ UNCHANGED notAfter
       \/ /\ Registered(n) /\ Due(byName[n])
          /\ \E c \in Certs :
               /\ notAfter[c] = 0
               /\ \A d \in Certs : notAfter[d] = 0 => c <= d
               /\ notAfter' = [notAfter EXCEPT ![c] = now + ValidFor]
               /\ update' = [update EXCEPT ![h] = c]
          /\ overlapUntil' = [overlapUntil EXCEPT ![h] = PromotionDeadline(byName[n])]
          /\ hpc' = [hpc EXCEPT ![h] = "allow"]
          /\ UNCHANGED wakeAt
       \/ /\ Registered(n) /\ ~Due(byName[n])
          /\ wakeAt' = [wakeAt EXCEPT ![h] = now + DelayUntilDue(byName[n])]
          /\ hpc' = [hpc EXCEPT ![h] = "wait"]
          /\ UNCHANGED <<notAfter, update, overlapUntil>>
    /\ UNCHANGED <<registry, now, wire, agentVars, files, bounds, late>>

(* The registry accepts the replacement, or the stream ends. *)
AllowUpdate(h) ==
    /\ hpc[h] = "allow"
    /\ IF CanAllowCertRollover(n, update[h], overlapUntil[h], now)
       THEN /\ AllowCertRollover(n, update[h], overlapUntil[h])
            /\ hpc' = [hpc EXCEPT ![h] = "send"]
            /\ UNCHANGED <<update, overlapUntil, wakeAt>>
       ELSE EndStream(h) /\ UNCHANGED registry
    /\ UNCHANGED <<now, notAfter, wire, agentVars, files, bounds, late>>

(* stream.Send.  On a stream that broke it may fail, and the handler takes *)
(* the replacement back, or it may seem to succeed, and nobody receives.   *)
SendUpdate(h) ==
    /\ hpc[h] = "send"
    /\ \/ /\ wire' = [wire EXCEPT ![h] = IF link = h THEN Append(@, update[h]) ELSE @]
          /\ hpc' = [hpc EXCEPT ![h] = "lookup"]
          /\ update' = [update EXCEPT ![h] = Nil]
          /\ overlapUntil' = [overlapUntil EXCEPT ![h] = 0]
          /\ UNCHANGED <<registry, wakeAt>>
       \/ /\ link # h
          /\ ClearCertRollover(n, update[h])
          /\ EndStream(h)
          /\ UNCHANGED wire
    /\ UNCHANGED <<now, notAfter, agentVars, files, bounds, late>>

(* The timer fires, or the handler sees that its stream is gone. *)
Wake(h) ==
    /\ hpc[h] = "wait"
    /\ \/ /\ now >= wakeAt[h]
          /\ hpc' = [hpc EXCEPT ![h] = "lookup"]
          /\ wakeAt' = [wakeAt EXCEPT ![h] = 0]
          /\ UNCHANGED <<update, overlapUntil>>
       \/ link # h /\ EndStream(h)
    /\ UNCHANGED <<registry, now, notAfter, wire, agentVars, files, bounds, late>>

-----------------------------------------------------------------------------
(* The node.                                                               *)

(* The request of Agent.register. *)
Request == [name |-> n, roles |-> {"client"}, overlay |-> n, region |-> Nil,
            cert |-> mem, pubkey |-> Nil]

(* A handshake needs a key pair on disk, in its period of validity. *)
Handshake ==
    /\ certFile # Nil
    /\ certFile = keyFile
    /\ now < notAfter[certFile]

Installing == run \in {"backupKey", "backupCert", "renameKey", "renameCert",
                       "cleanup", "restoreCert", "removeKey", "restoreKey"}

(* Run returns with an error; the loop will start it again. *)
Return ==
    /\ run' = "down"
    /\ link' = Nil
    /\ received' = Nil
    /\ wire' = IF link = Nil THEN wire ELSE [wire EXCEPT ![link] = <<>>]

Connect ==
    /\ ~connected
    /\ run # "exited"
    /\ Handshake
    /\ connected' = TRUE
    /\ UNCHANGED <<registry, now, notAfter, handlerVars, wire, run, link, mem,
                   received, files, bounds, late>>

(* The connection breaks, and the streams on it. *)
Disconnect ==
    /\ connected
    /\ faults < MaxFaults
    /\ faults' = faults + 1
    /\ connected' = FALSE
    /\ IF Installing
       THEN /\ link' = Nil
            /\ wire' = IF link = Nil THEN wire ELSE [wire EXCEPT ![link] = <<>>]
            /\ UNCHANGED <<run, received>>
       ELSE Return
    /\ UNCHANGED <<registry, now, notAfter, handlerVars, mem, files, fileFaults, crashes,
                   late>>

(* A turn of the reconnect loop reads the certificate; without one the     *)
(* command ends.                                                           *)
Start ==
    /\ run = "down"
    /\ run' = IF certFile = Nil THEN "exited" ELSE "register"
    /\ mem' = certFile
    /\ UNCHANGED <<registry, now, notAfter, handlerVars, wire, link, connected,
                   received, files, bounds, late>>

(* RegisterNode: when Run begins, and to promote a replacement. *)
RegisterNode ==
    /\ run \in {"register", "reregister"}
    /\ connected
    /\ \/ /\ CanRegister(Request, now)
          /\ Register(Request, now)
          /\ run' = IF run = "register" THEN "stream" ELSE "live"
          /\ received' = Nil
          /\ UNCHANGED <<link, wire>>
       \/ /\ ~CanRegister(Request, now)
          /\ Return
          /\ UNCHANGED registry
    /\ UNCHANGED <<now, notAfter, handlerVars, connected, mem, files, bounds, late>>

(* StreamCertUpdate starts on a new handler. *)
StreamCertUpdate(h) ==
    /\ run = "stream"
    /\ connected
    /\ hpc[h] = "off"
    /\ hpc' = [hpc EXCEPT ![h] = "lookup"]
    /\ link' = h
    /\ run' = "live"
    /\ UNCHANGED <<registry, now, notAfter, update, overlapUntil, wakeAt, wire,
                   connected, mem, received, files, bounds, late>>

(* No connection, or the stream ended. *)
Unavailable ==
    /\ \/ run \in {"register", "stream", "reregister"} /\ ~connected
       \/ run = "live" /\ link = Nil
       \/ run = "live" /\ link # Nil /\ hpc[link] = "off" /\ wire[link] = <<>>
    /\ Return
    /\ UNCHANGED <<registry, now, notAfter, handlerVars, connected, mem, files,
                   bounds, late>>

(* ApplyCertUpdate refuses an expired replacement; otherwise the files are *)
(* written beside the old ones.  Backups an earlier installation left are  *)
(* removed before they could be read.                                      *)
ReceiveUpdate ==
    /\ run = "live"
    /\ link # Nil
    /\ wire[link] # <<>>
    /\ LET c == Head(wire[link]) IN
         \/ notAfter[c] <= now /\ Return /\ UNCHANGED <<certBackup, keyBackup>>
         \/ /\ notAfter[c] > now
            /\ received' = c
            /\ run' = "backupKey"
            /\ wire' = [wire EXCEPT ![link] = Tail(@)]
            /\ certBackup' = Nil
            /\ keyBackup' = Nil
            /\ UNCHANGED link
    /\ UNCHANGED <<registry, now, notAfter, handlerVars, connected, mem, certFile,
                   keyFile, bounds, late>>

(* A step of the installation: only the files and the place change. *)
InstallFrame ==
    UNCHANGED <<registry, now, notAfter, handlerVars, connected, faults, crashes, late>>

(* A rename fails; the installation goes on, or back, at l. *)
FileFault(l) ==
    /\ fileFaults < MaxFileFaults
    /\ fileFaults' = fileFaults + 1
    /\ run' = l
    /\ UNCHANGED <<files, wire, link, mem, received>>

Install(l) ==
    /\ run' = l
    /\ UNCHANGED <<wire, link, mem, received, fileFaults>>

(* backupExistingFile of the key; nothing has to be restored if it fails. *)
BackupKey ==
    /\ run = "backupKey"
    /\ \/ /\ keyBackup' = keyFile
          /\ keyFile' = Nil
          /\ Install("backupCert")
          /\ UNCHANGED <<certFile, certBackup>>
       \/ /\ fileFaults < MaxFileFaults
          /\ fileFaults' = fileFaults + 1
          /\ Return
          /\ UNCHANGED <<files, mem>>
    /\ InstallFrame

BackupCert ==
    /\ run = "backupCert"
    /\ \/ /\ certBackup' = certFile
          /\ certFile' = Nil
          /\ Install("renameKey")
          /\ UNCHANGED <<keyFile, keyBackup>>
       \/ FileFault("restoreCert")
    /\ InstallFrame

RenameKey ==
    /\ run = "renameKey"
    /\ \/ /\ keyFile' = received
          /\ Install("renameCert")
          /\ UNCHANGED <<certFile, certBackup, keyBackup>>
       \/ FileFault("restoreCert")
    /\ InstallFrame

(* Mutant of RenameCert: its failure is reported without a rollback. *)
RenameCert_NoRollback ==
    /\ run = "renameCert"
    /\ \/ /\ certFile' = received
          /\ Install("cleanup")
          /\ UNCHANGED <<keyFile, certBackup, keyBackup>>
       \/ /\ fileFaults < MaxFileFaults
          /\ fileFaults' = fileFaults + 1
          /\ Return
          /\ UNCHANGED <<files, mem>>
    /\ InstallFrame

RenameCert ==
    /\ run = "renameCert"
    /\ \/ /\ certFile' = received
          /\ Install("cleanup")
          /\ UNCHANGED <<keyFile, certBackup, keyBackup>>
       \/ FileFault("restoreCert")
    /\ InstallFrame

(* The backups go; from now on the agent registers with the replacement. *)
Cleanup ==
    /\ run = "cleanup"
    /\ certBackup' = Nil
    /\ keyBackup' = Nil
    /\ mem' = received
    /\ run' = "reregister"
    /\ UNCHANGED <<certFile, keyFile, wire, link, received, fileFaults>>
    /\ InstallFrame

(* restoreCertKeyPair: the certificate first, then the key, whose new file *)
(* is removed before.                                                      *)
RestoreCert ==
    LET next == IF keyFile # Nil THEN "removeKey" ELSE "restoreKey" IN
    /\ run = "restoreCert"
    /\ \/ /\ certFile' = IF certBackup # Nil THEN certBackup ELSE certFile
          /\ certBackup' = Nil
          /\ Install(next)
          /\ UNCHANGED <<keyFile, keyBackup>>
       \/ certBackup # Nil /\ FileFault(next)
    /\ InstallFrame

RemoveKey ==
    /\ run = "removeKey"
    /\ \/ /\ keyFile' = Nil
          /\ Install("restoreKey")
          /\ UNCHANGED <<certFile, certBackup, keyBackup>>
       \/ FileFault("restoreKey")
    /\ InstallFrame

RestoreKey ==
    /\ run = "restoreKey"
    /\ Return
    /\ \/ /\ keyFile' = keyBackup
          /\ keyBackup' = Nil
          /\ UNCHANGED <<certFile, certBackup, fileFaults>>
       \/ /\ fileFaults < MaxFileFaults
          /\ fileFaults' = fileFaults + 1
          /\ UNCHANGED files
    /\ UNCHANGED mem
    /\ InstallFrame

(* The node's process dies and is started again: it needs a key pair to    *)
(* come up.                                                                *)
Crash ==
    /\ run # "exited"
    /\ crashes < MaxCrashes
    /\ crashes' = crashes + 1
    /\ run' = IF certFile # Nil /\ certFile = keyFile THEN "down" ELSE "exited"
    /\ link' = Nil
    /\ received' = Nil
    /\ mem' = Nil
    /\ connected' = FALSE
    /\ wire' = IF link = Nil THEN wire ELSE [wire EXCEPT ![link] = <<>>]
    /\ UNCHANGED <<registry, now, notAfter, handlerVars, files, faults, fileFaults, late>>

-----------------------------------------------------------------------------

(* The daemon's process dies and starts again; the registry is in memory. *)
RestartControlPlane ==
    /\ faults < MaxFaults
    /\ faults' = faults + 1
    /\ byName' = [m \in Names |-> Nil]
    /\ byOverlay' = [o \in Overlays |-> Nil]
    /\ hpc' = [h \in Handlers |-> "off"]
    /\ update' = [h \in Handlers |-> Nil]
    /\ overlapUntil' = [h \in Handlers |-> 0]
    /\ wakeAt' = [h \in Handlers |-> 0]
    /\ connected' = FALSE
    /\ link' = Nil
    /\ wire' = [h \in Handlers |-> <<>>]
    /\ UNCHANGED <<now, notAfter, run, mem, received, files, fileFaults, crashes, late>>

(* Nobody has anything to do before the next tick. *)
Idle ==
    /\ run = "live"
    /\ link # Nil
    /\ wire[link] = <<>>
    /\ hpc[link] = "wait"
    /\ wakeAt[link] > now

Tick ==
    /\ now < MaxTime
    /\ Prompt => Idle
    /\ now' = now + 1
    /\ late' = (late \/ /\ Registered(n)
                        /\ byName[n].pending # Nil
                        /\ byName[n].overlapUntil <= now + 1)
    /\ UNCHANGED <<registry, notAfter, handlerVars, wire, agentVars, files, bounds>>

Next ==
    \/ \E h \in Handlers : NextDueUpdate(h) \/ AllowUpdate(h) \/ SendUpdate(h) \/ Wake(h)
    \/ \E h \in Handlers : StreamCertUpdate(h)
    \/ Connect \/ Disconnect \/ Start \/ RegisterNode \/ Unavailable
    \/ ReceiveUpdate
    \/ BackupKey \/ BackupCert \/ RenameKey \/ RenameCert \/ Cleanup
    \/ RestoreCert \/ RemoveKey \/ RestoreKey
    \/ Crash \/ RestartControlPlane \/ Tick

Spec == Init /\ [][Next]_vars

-----------------------------------------------------------------------------

(* A node is never locked out: the certificate in its files is the pinned  *)
(* one or the replacement the registry will promote, whichever streams     *)
(* break and whichever handlers linger, unless an overlap window has       *)
(* closed unused.                                                          *)
CredentialAccepted ==
    Registered(n) /\ certFile # Nil /\ ~late =>
      certFile \in {byName[n].cert, byName[n].pending}

(* A failed installation puts the old pair back: whenever the agent is not *)
(* installing, its files hold a certificate with its own key, whichever    *)
(* single file operation failed, as long as the process lives.             *)
PairIntact ==
    ~Installing /\ fileFaults <= 1 /\ crashes = 0
      => certFile # Nil /\ certFile = keyFile

(* A node that stays connected never runs on an expired certificate: the   *)
(* handler wakes up, and the replacement is promoted, in time.             *)
PinnedFresh ==
    Registered(n) => now < notAfter[byName[n].cert]

(* A crash never leaves the node without a usable key pair on disk.  The   *)
(* code does not keep this: a crash between the renames leaves only the    *)
(* backups, which nothing reads.                                           *)
RestartableAfterCrash == run # "exited"

=============================================================================
