------------------------------- MODULE Backup -------------------------------
(***************************************************************************)
(* mesh-ctl backup and restore (cmd/mesh-ctl/cmd/backup.go): one operator  *)
(* at a time makes an archive or restores it, while other processes (the   *)
(* control plane, other commands) go on changing the files.                *)
(*                                                                         *)
(* A file's content is a version number.  The configuration directory has  *)
(* two files, so that a mix of old and new can be told; the topology file  *)
(* and the control-plane state directory are one item each.  The archive   *)
(* may have been put inside the configuration directory.                   *)
(***************************************************************************)
EXTENDS Integers, Sequences

CONSTANTS Missing, MaxArchiveEdits, MaxBackupFaults

ASSUME BackupAssumption ==
    Missing \notin Int /\ MaxArchiveEdits \in Nat /\ MaxBackupFaults \in Nat

VARIABLES
    live,             \* the files on disk
    archive, copied,  \* how far the archive was written, and the files in it
    place,            \* where the archive lies
    bpc, item, target,
    temp,             \* what a restore extracted beside its target
    began, quiet,     \* history: the files when the backup began; nothing changed since
    backupEdits, backupFaults

bvars == <<live, archive, copied, place, bpc, item, target, temp, began, quiet, backupEdits, backupFaults>>

Items == <<"ca.crt", "ca.key", "topology", "control-plane">>
Dirs == <<{"ca.crt", "ca.key"}, {"topology"}, {"control-plane"}>>
DirFiles == {"ca.crt", "ca.key", "topology", "control-plane"}
Content == [DirFiles -> 0 .. MaxArchiveEdits \cup {Missing}]
NoFiles == [f \in DirFiles |-> Missing]
Closed == {"none", "partial", "no manifest", "complete"}

BackupTypeOK ==
    /\ live \in Content /\ copied \in Content /\ temp \in Content /\ began \in Content
    /\ archive \in Closed
    /\ place \in {"outside", "config"}
    /\ bpc \in {"idle", "copy", "manifest", "extract", "remove", "rename"}
    /\ item \in 1 .. Len(Items) + 1 /\ target \in 1 .. Len(Dirs)
    /\ quiet \in BOOLEAN /\ backupEdits \in 0 .. MaxArchiveEdits /\ backupFaults \in 0 .. MaxBackupFaults

BackupInit ==
    /\ live = [f \in DirFiles |-> 0]
    /\ archive = "none" /\ copied = NoFiles
    /\ place \in {"outside", "config"}
    /\ bpc = "idle" /\ item = 1 /\ target = 1
    /\ temp = NoFiles /\ began = NoFiles
    /\ quiet = FALSE /\ backupEdits = 0 /\ backupFaults = 0

BackupFault == backupFaults < MaxBackupFaults /\ backupFaults' = backupFaults + 1

(* Another process replaces one file, each by an atomic rename. *)
Edit(f) ==
    /\ live[f] # Missing /\ backupEdits < MaxArchiveEdits
    /\ backupEdits' = backupEdits + 1
    /\ live' = [live EXCEPT ![f] = backupEdits']
    /\ quiet' = FALSE
    /\ UNCHANGED <<archive, copied, place, bpc, item, target, temp, began, backupFaults>>

-----------------------------------------------------------------------------
(* runBackupCommand: the archive is truncated as soon as the sources are   *)
(* known to exist.                                                         *)
OpenArchive ==
    /\ bpc = "idle"
    /\ live["topology"] # Missing /\ live["ca.crt"] # Missing
    /\ archive' = "partial" /\ copied' = NoFiles
    /\ bpc' = "copy" /\ item' = 1
    /\ began' = live /\ quiet' = TRUE
    /\ UNCHANGED <<live, place, target, temp, backupEdits, backupFaults>>

(* addDirectory, addFile: the walk copies one file after the other and     *)
(* passes over the archive itself.                                         *)
addZipFile ==
    /\ bpc = "copy"
    /\ LET f == Items[item] IN
       /\ live[f] # Missing \/ f \in Dirs[1]
       /\ copied' = [copied EXCEPT ![f] = live[f]]
       /\ item' = item + 1
       /\ bpc' = IF item = Len(Items) THEN "manifest" ELSE "copy"
    /\ UNCHANGED <<live, archive, place, target, temp, began, quiet, backupEdits, backupFaults>>

(* On an error, and when the control-plane directory or by now the         *)
(* topology file does not exist, the zip is closed without a manifest.     *)
SourceGone == bpc = "copy" /\ Items[item] \notin Dirs[1] /\ live[Items[item]] = Missing

BackupFails ==
    /\ bpc \in {"copy", "manifest"}
    /\ BackupFault \/ (SourceGone /\ UNCHANGED backupFaults)
    /\ archive' = "no manifest"
    /\ bpc' = "idle" /\ item' = 1
    /\ UNCHANGED <<live, copied, place, target, temp, began, quiet, backupEdits>>

writeBackupManifest ==
    /\ bpc = "manifest"
    /\ archive' = "complete"
    /\ bpc' = "idle" /\ item' = 1
    /\ UNCHANGED <<live, copied, place, target, temp, began, quiet, backupEdits, backupFaults>>

-----------------------------------------------------------------------------
(* runRestoreCommand up to the first change: the archive must have its     *)
(* manifest, and must not lie inside a directory that will be replaced.    *)
validateBackupArchive == archive = "complete"
pathWithinDirectory == place = "config"

StartRestore_AnyPlace ==
    /\ bpc = "idle"
    /\ validateBackupArchive
    /\ bpc' = "extract" /\ target' = 1
    /\ UNCHANGED <<live, archive, copied, place, item, temp, began, quiet, backupEdits, backupFaults>>

StartRestore ==
    /\ bpc = "idle"
    /\ validateBackupArchive /\ ~pathWithinDirectory
    /\ bpc' = "extract" /\ target' = 1
    /\ UNCHANGED <<live, archive, copied, place, item, temp, began, quiet, backupEdits, backupFaults>>

(* restoreDirectoryPrefix and restoreTopologyFile, for one target after    *)
(* the other: extract beside the target, remove the target, rename.        *)
extractZipFile ==
    /\ bpc = "extract"
    /\ temp' = [f \in DirFiles |-> IF f \in Dirs[target] THEN copied[f] ELSE Missing]
    /\ bpc' = "remove"
    /\ UNCHANGED <<live, archive, copied, place, item, target, began, quiet, backupEdits, backupFaults>>

Removed(fs) ==
    /\ live' = [f \in DirFiles |-> IF f \in fs THEN Missing ELSE live[f]]
    /\ IF place = "config" /\ target = 1 /\ fs # {}
       THEN archive' = "none" /\ copied' = NoFiles
       ELSE UNCHANGED <<archive, copied>>

RemoveAll ==
    /\ bpc = "remove"
    /\ Removed(Dirs[target])
    /\ bpc' = "rename"
    /\ UNCHANGED <<place, item, target, temp, began, quiet, backupEdits, backupFaults>>

RenameTemp ==
    /\ bpc = "rename"
    /\ live' = [f \in DirFiles |-> IF f \in Dirs[target] THEN temp[f] ELSE live[f]]
    /\ temp' = NoFiles
    /\ bpc' = IF target = Len(Dirs) THEN "idle" ELSE "extract"
    /\ target' = IF target = Len(Dirs) THEN 1 ELSE target + 1
    /\ UNCHANGED <<archive, copied, place, item, began, quiet, backupEdits, backupFaults>>

(* The deferred clean-up removes the temporary copy whatever failed, also  *)
(* a rename after the target is gone; a removal may fail half way.         *)
RestoreFails ==
    /\ bpc \in {"extract", "remove", "rename"} /\ BackupFault
    /\ IF bpc = "remove" THEN \E fs \in SUBSET Dirs[target] : Removed(fs) ELSE UNCHANGED <<live, archive, copied>>
    /\ temp' = NoFiles
    /\ bpc' = "idle" /\ target' = 1
    /\ UNCHANGED <<place, item, began, quiet, backupEdits>>

(* A crash leaves everything where it is; no command looks at the          *)
(* temporary copy again.                                                   *)
BackupCrash ==
    /\ bpc # "idle" /\ BackupFault
    /\ bpc' = "idle" /\ item' = 1 /\ target' = 1 /\ temp' = NoFiles
    /\ UNCHANGED <<live, archive, copied, place, began, quiet, backupEdits>>

BackupNext ==
    \/ \E f \in DirFiles : Edit(f)
    \/ OpenArchive \/ addZipFile \/ BackupFails \/ writeBackupManifest
    \/ StartRestore \/ extractZipFile \/ RemoveAll \/ RenameTemp \/ RestoreFails
    \/ BackupCrash

BackupSpec == BackupInit /\ [][BackupNext]_bvars

-----------------------------------------------------------------------------
(* A complete archive holds, of every file, a version that was in place at *)
(* some time during the backup (the copy is not a snapshot), and exactly   *)
(* the files the backup began with if nothing changed while it ran.        *)
ArchiveFaithful ==
    archive = "complete" =>
        /\ \A f \in DirFiles : began[f] # Missing => copied[f] # Missing /\ copied[f] >= began[f]
        /\ quiet => copied = began

(* A restore never takes its own archive away: whatever fails or crashes   *)
(* while it runs, the archive stays complete and can be restored again.    *)
KeepsArchive ==
    (bpc \in {"extract", "remove", "rename"}) => UNCHANGED <<archive, copied>>
RestoreKeepsArchive == [][KeepsArchive]_bvars

(* A restore replaces a directory as a whole: one step takes files away,   *)
(* and one step brings back every file of the directory, each as archived; *)
(* no file is overwritten in place.                                        *)
ReplacesWhole ==
    (bpc \in {"extract", "remove", "rename"} /\ bpc' # bpc) =>
      \A d \in {Dirs[i] : i \in 1 .. 3} :
         \/ \A f \in d : live'[f] \in {live[f], Missing}
         \/ \A f \in d : live[f] = Missing /\ live'[f] = copied[f]
RestoreReplacesWhole == [][ReplacesWhole]_bvars

(* An archive is what was on disk, and a restore neither loses it nor      *)
(* mixes it with what it replaces (runBackupCommand, runRestoreCommand).   *)
BackupSafe ==
    /\ [](BackupTypeOK /\ ArchiveFaithful)
    /\ RestoreKeepsArchive /\ RestoreReplacesWhole
=============================================================================
