----------------------------- MODULE AdminState -----------------------------
(***************************************************************************)
(* The operator's admin-state file of one endpoint, nodes/<node>/pubkey,   *)
(* and the per-node lock that guards its transaction (cmd/mesh-ctl/        *)
(* internal/adminstate: state.go, lock_unix.go, lock_windows.go).          *)
(*                                                                         *)
(* Every operation is a process of its own, so the mutex of Store excludes *)
(* nobody and only the cross-process lock counts: flock on unix, which the *)
(* kernel drops with the process; a record in a file created O_EXCL on     *)
(* windows, which a dead process leaves behind and the next one reclaims   *)
(* by its age.  The key an operation writes is named by the operation.     *)
(***************************************************************************)
EXTENDS Naturals

CONSTANTS Ops,          \* operations, each a process
          K0,           \* the key of the file before the first of them
          Nil, Torn,
          MaxFaults     \* bound: failed file operations, RPCs and crashes

ASSUME AdminStateAssumption ==
    /\ {K0, Nil, Torn} \cap Ops = {} /\ K0 # Nil /\ K0 # Torn /\ Nil # Torn
    /\ MaxFaults \in Nat

Keys == Ops \cup {K0}

VARIABLES platform,     \* the build: lock_unix.go or lock_windows.go
          pubkey, tmp,  \* pubkey and pubkey.tmp
          writers,      \* processes that have pubkey.tmp open
          flock,        \* unix: the process that holds the advisory lock
          lockfile,     \* windows: the process whose record .lock is, or Nil
          record,       \* what the record says: "empty", "fresh", "stale"
          pc,           \* where each operation is
          reclaimed,    \* history: some lock was removed as stale
          faults

storeVars == <<pubkey, tmp, writers>>
lockVars == <<flock, lockfile, record, reclaimed>>

LockPcs == {"acquire", "record", "inspect", "retry", "reclaim", "recreate"}
TxnPcs == {"open", "write", "rename", "release"}

AdminTypeOK ==
    /\ platform \in {"unix", "windows"}
    /\ pubkey \in Keys \cup {Torn} /\ tmp \in Keys \cup {Nil, Torn}
    /\ writers \subseteq Ops
    /\ flock \in Ops \cup {Nil} /\ lockfile \in Ops \cup {Nil}
    /\ record \in {"empty", "fresh", "stale"}
    /\ reclaimed \in BOOLEAN /\ faults \in 0 .. MaxFaults

AdminInit ==
    /\ platform \in {"unix", "windows"}
    /\ pubkey = K0 /\ tmp = Nil /\ writers = {}
    /\ flock = Nil /\ lockfile = Nil /\ record = "empty"
    /\ reclaimed = FALSE /\ faults = 0

Fault == faults < MaxFaults /\ faults' = faults + 1
At(o, p) == pc[o] = p
Go(o, p) == pc' = [pc EXCEPT ![o] = p]

-----------------------------------------------------------------------------
acquireFlock_Unchecked(o) ==
    /\ At(o, "acquire") /\ platform = "unix"
    /\ flock' = o /\ Go(o, "open")
    /\ UNCHANGED <<storeVars, lockfile, record, reclaimed, faults>>

(* acquireLock on unix: LOCK_EX|LOCK_NB, so a held lock is an error. *)
acquireFlock(o) ==
    /\ At(o, "acquire") /\ platform = "unix"
    /\ IF flock = Nil THEN flock' = o /\ Go(o, "open")
                      ELSE UNCHANGED flock /\ Go(o, "refused")
    /\ UNCHANGED <<storeVars, lockfile, record, reclaimed, faults>>

(* tryAdminLockCreate opens O_CREATE|O_EXCL; a file it cannot create, or   *)
(* whose record it cannot write, is a failed attempt, and what follows     *)
(* depends on which attempt it was.                                        *)
tryAdminLockCreate(o, here, otherwise) ==
    /\ At(o, here) /\ platform = "windows"
    /\ \/ /\ lockfile = Nil
          /\ lockfile' = o /\ record' = "empty" /\ Go(o, "record")
          /\ UNCHANGED faults
       \/ /\ IF lockfile = Nil THEN Fault ELSE UNCHANGED faults
          /\ UNCHANGED <<lockfile, record>> /\ Go(o, otherwise)
    /\ UNCHANGED <<storeVars, flock, reclaimed>>

createLock(o) == tryAdminLockCreate(o, "acquire", "inspect")
retryLock(o) == tryAdminLockCreate(o, "retry", "refused")
recreateLock(o) == tryAdminLockCreate(o, "recreate", "refused")

(* ... and writes the record into the new file. *)
writeRecord(o) ==
    /\ At(o, "record")
    /\ record' = "fresh" /\ Go(o, "open")
    /\ UNCHANGED <<storeVars, flock, lockfile, reclaimed, faults>>

inspectLock_Waits(o) ==
    /\ At(o, "inspect")
    /\ Go(o, IF lockfile # Nil /\ record = "stale" THEN "reclaim" ELSE "acquire")
    /\ UNCHANGED <<storeVars, lockVars, faults>>

(* The lock exists: what its record says decides.  One that cannot be read *)
(* (it vanished, or it was not written yet) is tried once more.            *)
inspectLock(o) ==
    /\ At(o, "inspect")
    /\ Go(o, CASE lockfile = Nil \/ record = "empty" -> "retry"
               [] lockfile # Nil /\ record = "stale" -> "reclaim"
               [] OTHER -> "refused")
    /\ UNCHANGED <<storeVars, lockVars, faults>>

(* Windows removes no file that is open: .lock is, until its creator has   *)
(* written the record.                                                     *)
Removable == \A p \in Ops : ~(lockfile = p /\ At(p, "record"))

(* The record read was stale: whatever .lock is by now is removed. *)
reclaimLock(o) ==
    /\ At(o, "reclaim")
    /\ IF Removable
       THEN lockfile' = Nil /\ Go(o, "recreate")
       ELSE UNCHANGED lockfile /\ Go(o, "refused")
    /\ reclaimed' = TRUE
    /\ UNCHANGED <<storeVars, flock, record, faults>>

(* Five minutes pass (adminLockTTL). *)
LockAges ==
    /\ lockfile # Nil /\ record = "fresh"
    /\ record' = "stale"
    /\ UNCHANGED <<storeVars, flock, lockfile, reclaimed, faults, pc>>

-----------------------------------------------------------------------------
(* SetPubkey under the lock.  pubkey.tmp is opened O_TRUNC, written and    *)
(* closed, and renamed; every error after that removes it.  On windows a   *)
(* file another process has open can be neither renamed nor removed.       *)
Busy(o) == platform = "windows" /\ writers \ {o} # {}

openTmp(o) ==
    /\ At(o, "open")
    /\ \/ tmp' = Torn /\ writers' = writers \cup {o} /\ Go(o, "write") /\ UNCHANGED faults
       \/ Fault /\ Go(o, "release") /\ UNCHANGED <<tmp, writers>>
    /\ UNCHANGED <<pubkey, lockVars>>

writeTmp(o) ==
    /\ At(o, "write")
    /\ writers' = writers \ {o}
    /\ \/ tmp' = o /\ Go(o, "rename") /\ UNCHANGED faults
       \/ Fault /\ tmp' = (IF Busy(o) THEN Torn ELSE Nil) /\ Go(o, "release")
    /\ UNCHANGED <<pubkey, lockVars>>

renameTmp(o) ==
    /\ At(o, "rename")
    /\ IF tmp = Nil \/ Busy(o)
       THEN UNCHANGED <<pubkey, tmp>> /\ Go(o, "release")
       ELSE pubkey' = tmp /\ tmp' = Nil /\ Go(o, "commit")
    /\ UNCHANGED <<writers, lockVars, faults>>

(* The deferred release: flock is dropped; on windows .lock is removed,    *)
(* whoever's record it is.                                                 *)
releaseLock(o) ==
    /\ flock' = IF flock = o THEN Nil ELSE flock
    /\ lockfile' = IF Removable THEN Nil ELSE lockfile
    /\ UNCHANGED <<record, reclaimed>>

(* The process is killed: the kernel closes its files and drops its flock, *)
(* and leaves .lock and pubkey.tmp as they are.                            *)
adminCrash(o) ==
    /\ flock' = IF flock = o THEN Nil ELSE flock
    /\ writers' = writers \ {o}
    /\ UNCHANGED <<pubkey, tmp, lockfile, record, reclaimed>>

SetPubkey(o) ==
    \/ acquireFlock(o) \/ createLock(o) \/ retryLock(o) \/ recreateLock(o)
    \/ writeRecord(o) \/ inspectLock(o) \/ reclaimLock(o)
    \/ openTmp(o) \/ writeTmp(o) \/ renameTmp(o)
=============================================================================
