---------------------------- MODULE UpgradeState ----------------------------
(***************************************************************************)
(* The state file of mesh-ctl upgrade (cmd/mesh-ctl/cmd/upgrade.go): the   *)
(* command writes it, pause and resume read, change and write it.  All     *)
(* writers share one temporary name and take no lock.                      *)
(*                                                                         *)
(* Torn is a file that does not decode.  The program itself only ever      *)
(* stores the status "blocked"; a file of another program version may be   *)
(* "running" or "paused".                                                  *)
(***************************************************************************)
EXTENDS Naturals

CONSTANTS Ops, Nil, Torn, MaxSaves

VARIABLES stateFile, tmpFile, upc, plan, saves, overlap, foreign, holds

uvars == <<stateFile, tmpFile, upc, plan, saves, overlap, foreign, holds>>

Statuses == {"blocked", "running", "paused"}
States == [version : 0 .. MaxSaves, status : Statuses, paused : BOOLEAN]

UpgradeStateTypeOK ==
    /\ stateFile \in States \cup {Nil, Torn}
    /\ tmpFile \in States \cup {Nil, Torn}
    /\ upc \in [Ops -> {"idle", "write", "fill", "rename"}]
    /\ plan \in [Ops -> States \cup {Nil}]
    /\ holds \in [Ops -> {"tmp", "state", "none"}]
    /\ saves \in 0 .. MaxSaves /\ overlap \in BOOLEAN /\ foreign \in BOOLEAN

UpgradeStateInit ==
    /\ stateFile \in {Nil} \cup {[version |-> 0, status |-> s, paused |-> s = "paused"] : s \in Statuses}
    /\ tmpFile = Nil
    /\ upc = [o \in Ops |-> "idle"]
    /\ plan = [o \in Ops |-> Nil]
    /\ holds = [o \in Ops |-> "none"]
    /\ saves = 0 /\ overlap = FALSE
    /\ foreign = (stateFile # Nil /\ stateFile.status # "blocked")

Goto(o, l) == upc' = [upc EXCEPT ![o] = l]

Save(o, s) ==
    /\ upc[o] = "idle" /\ saves < MaxSaves
    /\ saves' = saves + 1
    /\ plan' = [plan EXCEPT ![o] = s]
    /\ Goto(o, "write")
    /\ overlap' = (overlap \/ \E p \in Ops \ {o} : upc[p] # "idle")
    /\ UNCHANGED <<stateFile, tmpFile, foreign, holds>>

(* runUpgradeCommand does not read the file. *)
runUpgradeCommand(o) ==
    Save(o, [version |-> saves + 1, status |-> "blocked", paused |-> FALSE])

(* loadUpgradeState fails on a missing and on a torn file; a blocked       *)
(* upgrade is neither paused nor resumed.                                  *)
Loaded == stateFile \notin {Nil, Torn} /\ stateFile.status # "blocked"

runUpgradePauseCommand(o) ==
    Loaded /\ Save(o, [stateFile EXCEPT !.paused = TRUE, !.status = "paused"])

runUpgradeResumeCommand(o) ==
    Loaded /\ Save(o, [stateFile EXCEPT !.paused = FALSE, !.status = "running"])

(* saveUpgradeState: os.WriteFile truncates and fills the shared temporary *)
(* file, then a rename; a rename of a file another writer has already      *)
(* renamed fails.                                                          *)
openTmp_InPlace(o) ==
    /\ upc[o] = "write"
    /\ tmpFile' = Torn /\ stateFile' = Torn
    /\ Goto(o, "fill")
    /\ UNCHANGED <<plan, saves, overlap, foreign, holds>>

openTmp(o) ==
    /\ upc[o] = "write"
    /\ tmpFile' = Torn
    /\ holds' = [holds EXCEPT ![o] = "tmp"]
    /\ Goto(o, "fill")
    /\ UNCHANGED <<stateFile, plan, saves, overlap, foreign>>

(* The bytes go to the file that was opened, which another writer may have *)
(* filled with a longer text, renamed onto the state file, or replaced     *)
(* there.                                                                  *)
Filled(f, s) == IF f = Torn THEN {s} ELSE {s, Torn}

fillTmp(o) ==
    /\ upc[o] = "fill"
    /\ IF holds[o] = "tmp" THEN tmpFile' \in Filled(tmpFile, plan[o]) ELSE UNCHANGED tmpFile
    /\ IF holds[o] = "state" THEN stateFile' \in Filled(stateFile, plan[o]) ELSE UNCHANGED stateFile
    /\ Goto(o, "rename")
    /\ UNCHANGED <<plan, saves, overlap, foreign, holds>>

renameTmp(o) ==
    /\ upc[o] = "rename"
    /\ IF tmpFile = Nil THEN UNCHANGED <<stateFile, holds>>
       ELSE /\ stateFile' = tmpFile
            /\ holds' = [p \in Ops |-> IF holds[p] = "tmp" THEN "state" ELSE "none"]
    /\ tmpFile' = Nil
    /\ Goto(o, "idle")
    /\ UNCHANGED <<plan, saves, overlap, foreign>>

upgradeStateCrash(o) ==
    /\ upc[o] # "idle"
    /\ Goto(o, "idle")
    /\ UNCHANGED <<stateFile, tmpFile, plan, saves, overlap, foreign, holds>>

UpgradeStateNext ==
    \E o \in Ops : \/ runUpgradeCommand(o) \/ runUpgradePauseCommand(o) \/ runUpgradeResumeCommand(o)
                   \/ openTmp(o) \/ fillTmp(o) \/ renameTmp(o) \/ upgradeStateCrash(o)

UpgradeStateSpec == UpgradeStateInit /\ [][UpgradeStateNext]_uvars

-----------------------------------------------------------------------------
(* A crash alone never leaves a state file that does not decode: only two  *)
(* commands that ran at the same time, through the temporary name they     *)
(* share, can (upgrade.go:402).                                            *)
StateFileWhole == stateFile = Torn => overlap

(* "blocked" is final for pause and resume: a mesh whose state file is     *)
(* this program's own never becomes paused or running.                     *)
BlockedStays == ~foreign /\ stateFile \notin {Nil, Torn} => stateFile.status = "blocked" /\ ~stateFile.paused

(* The upgrade state file survives crashes whole, and keeps the verdict    *)
(* "blocked" (saveUpgradeState, runUpgradeResumeCommand).                  *)
StateFileSafe == UpgradeStateTypeOK /\ StateFileWhole /\ BlockedStays
=============================================================================
