------------------------------ MODULE Promotion ------------------------------
(***************************************************************************)
(* The apply path of scripts/promote-quality-db.mjs: it replaces the       *)
(* primary SQLite database by a staged copy of the quality database, and   *)
(* puts a backup back when a check after the rename fails.                 *)
(*                                                                         *)
(* Nothing locks the destination.  Other processes may open it, commit,    *)
(* close it and crash between any two steps of the script, which relies on *)
(* comparing contents, on lsof and on looking for sidecars.  So the model  *)
(* keeps what SQLite keeps: a commit goes to the log of its connection,    *)
(* the last connection of a file folds the log into the file, and a log    *)
(* that was unlinked while a process had it open belongs to that process.  *)
(***************************************************************************)
EXTENDS Naturals, FiniteSets

CONSTANTS
  Writers,   \* the processes that may open the destination
  Commits,   \* the transactions they may commit
  Ledger,    \* commits to the ledgers that the source must already contain
  Merged,    \* commits to the tables that staging copies from the destination
  None       \* no value

Inodes == {"old", "new", "back"}

(* The inode a process has open, and whether its log is still at the path. *)
Connections == [inode : Inodes, linked : BOOLEAN]

ASSUME PromotionAssumption ==
  /\ Ledger \subseteq Commits /\ Merged \subseteq Commits /\ Ledger \cap Merged = {}
  /\ None \notin Connections
  /\ \A S \in SUBSET Commits : S # None

VARIABLES
  stage,    \* the next step of the script
  result,   \* what it reported
  path,     \* the inode that the destination path names
  durable,  \* the inode it names after a power loss
  file,     \* the commits in the main file of each inode
  wal,      \* the log at <destination>-wal: None or its commits
  cut,      \* for each inode the commits that only unlinked logs hold
  conn,     \* the connection of each writer, or None
  source,   \* the ledger commits that the quality database contains
  first,    \* the destination snapshot that staging used
  final,    \* the final destination snapshot
  backup,   \* the rollback backup: None or its commits
  synced,   \* the backup was flushed
  acked,    \* history: the commits that succeeded
  prior,    \* history: those of them at the first inspection of the destination
  verified, \* history: those of them at the last comparison before the swap
  torn      \* history: the commits that were lost with an unlinked log

script  == <<stage, result>>
disk    == <<path, durable, file>>
logs    == <<wal, cut, conn>>
copies  == <<source, first, final, backup, synced>>
history == <<acked, prior, verified, torn>>
vars    == <<script, disk, logs, copies, history>>

BeforeSwap ==
  {"inspect", "snapshot", "stage", "revalidate", "final", "checkpoint", "unlink", "compare",
   "clear", "quiet", "backup", "sync", "verify", "clearAgain", "holders", "boundary", "swap"}
AfterSwap == {"fsync", "after", "bare", "installed", "success", "lock"}
RollingBack ==
  {"rbInspect", "rbUnlink", "rbActivity", "rbUnlinkAgain", "rbBuild", "rbRename", "rbCheck",
   "rbHolders", "rbClear"}

Results == {"running", "success", "refused", "unchanged", "restored", "incomplete", "killed"}

(* Type invariant: a log at the path is there while a connection uses it. *)
TypeOK ==
  /\ stage \in BeforeSwap \cup AfterSwap \cup RollingBack \cup {"done"}
  /\ result \in Results /\ (result = "running") = (stage # "done")
  /\ path \in Inodes /\ durable \in Inodes /\ file \in [Inodes -> SUBSET Commits]
  /\ wal \in {None} \cup SUBSET Commits
  /\ cut \in [Inodes -> SUBSET Commits]
  /\ conn \in [Writers -> {None} \cup Connections]
  /\ source \subseteq Ledger /\ first \subseteq Commits /\ final \subseteq Commits
  /\ backup \in {None} \cup SUBSET Commits /\ synced \in BOOLEAN
  /\ acked \subseteq Commits /\ prior \subseteq acked /\ verified \subseteq acked
  /\ torn \subseteq acked
  /\ \A w \in Writers : conn[w] # None /\ conn[w].linked => wal # None

Init ==
  /\ stage = "inspect" /\ result = "running"
  /\ path = "old" /\ durable = "old" /\ file = [i \in Inodes |-> {}]
  /\ wal = None /\ cut = [i \in Inodes |-> {}] /\ conn = [w \in Writers |-> None]
  /\ source \in SUBSET Ledger
  /\ first = {} /\ final = {} /\ backup = None /\ synced = FALSE
  /\ acked = {} /\ prior = {} /\ verified = {} /\ torn = {}

Logged == IF wal = None THEN {} ELSE wal

(* What a process that opens the destination now reads. *)
Content == file[path] \cup Logged

OpenOn(inode) == {w \in Writers : conn[w] # None /\ conn[w].inode = inode}
Linked(w) == conn[w] # None /\ conn[w].linked

(* The staged database: the source with the merged tables of the first snapshot. *)
Staged == source \cup (first \cap Merged)

(***************************************************************************)
(* The writers, with SQLite's write-ahead log.                             *)
(***************************************************************************)

(* <destination>-wal is unlinked: a connection that uses it keeps the log. *)
Unlink ==
  /\ wal' = None
  /\ conn' = [w \in Writers |-> IF Linked(w) THEN [conn[w] EXCEPT !.linked = FALSE]
                                ELSE conn[w]]
  /\ IF \E w \in Writers : Linked(w)
     THEN /\ \E w \in Writers :
               Linked(w) /\ cut' = [cut EXCEPT ![conn[w].inode] = @ \cup Logged]
          /\ UNCHANGED torn
     ELSE torn' = torn \cup Logged /\ UNCHANGED cut

Open(w) ==
  /\ conn[w] = None
  /\ conn' = [conn EXCEPT ![w] = [inode |-> path, linked |-> TRUE]]
  /\ wal' = Logged
  /\ UNCHANGED <<script, disk, cut, copies, history>>

Commit(w) ==
  /\ conn[w] # None
  /\ \E c \in Commits \ acked :
       /\ acked' = acked \cup {c}
       /\ IF Linked(w) THEN wal' = wal \cup {c} /\ UNCHANGED cut
                       ELSE cut' = [cut EXCEPT ![conn[w].inode] = @ \cup {c}] /\ UNCHANGED wal
  /\ UNCHANGED <<script, disk, conn, copies, prior, verified, torn>>

(* The last connection of a file folds its log into the file and removes the log. *)
CloseLinked(w) ==
  /\ Linked(w)
  /\ IF OpenOn(conn[w].inode) = {w}
     THEN /\ file' = [file EXCEPT ![conn[w].inode] = @ \cup wal]
          /\ wal' = None
          /\ conn' = [v \in Writers |->
                        CASE v = w -> None
                          [] v # w /\ Linked(v) -> [conn[v] EXCEPT !.linked = FALSE]
                          [] OTHER -> conn[v]]
     ELSE conn' = [conn EXCEPT ![w] = None] /\ UNCHANGED <<file, wal>>
  /\ UNCHANGED <<script, path, durable, cut, copies, history>>

(* A log that was unlinked goes with the last process that has it open.  SQLite may fold
   it into the file when that process closes the file as its last user. *)
LeaveCut(w, orderly) ==
  LET i == conn[w].inode
      shared == \E v \in OpenOn(i) \ {w} : ~Linked(v) IN
  /\ conn[w] # None /\ ~Linked(w)
  /\ conn' = [conn EXCEPT ![w] = None]
  /\ \/ shared /\ UNCHANGED <<file, cut, torn>>
     \/ /\ ~shared /\ cut' = [cut EXCEPT ![i] = {}]
        /\ torn' = torn \cup cut[i] /\ UNCHANGED file
     \/ /\ ~shared /\ orderly /\ OpenOn(i) = {w} /\ cut' = [cut EXCEPT ![i] = {}]
        /\ file' = [file EXCEPT ![i] = @ \cup cut[i]] /\ UNCHANGED torn
  /\ UNCHANGED <<script, path, durable, wal, copies, acked, prior, verified>>

Close(w) == CloseLinked(w) \/ LeaveCut(w, TRUE)

(* A writer crashes: a log at the path stays there for the next process. *)
CrashLinked(w) ==
  /\ Linked(w)
  /\ conn' = [conn EXCEPT ![w] = None]
  /\ UNCHANGED <<script, disk, wal, cut, copies, history>>

Crash(w) == CrashLinked(w) \/ LeaveCut(w, FALSE)

(***************************************************************************)
(* The checks of the script.                                               *)
(***************************************************************************)
At(here, next) == stage = here /\ stage' = next /\ UNCHANGED result

(* lsof on the destination, its -wal, -shm and -journal. *)
Holders == OpenOn(path) \cup {w \in Writers : Linked(w)}

(* Mutant: nobody looks for processes that still use the replaced inode. *)
OldWritersIgnored == {}

(* lsof by the inode that was replaced; the file and its log are both named. *)
OldWriters == OpenOn("old")

NoSidecars == wal = None

(* A nonempty log is refused, an empty one is unlinked. *)
ClearInspectionSidecars == Logged = {} /\ Unlink

(* Mutant: only the ledgers are compared with the snapshot that staging used. *)
NoDriftOfLedgers(now) == now \cap Ledger = first \cap Ledger

(* The merged tables and the ledgers did not change while the promotion was staged. *)
NoDrift(now) == now \cap (Ledger \cup Merged) = first \cap (Ledger \cup Merged)

(* Every ledger row of the destination is in the source. *)
LedgersContained(snapshot) == snapshot \cap Ledger \subseteq source

SameContents(expected) == Content = expected

(***************************************************************************)
(* The steps before the swap.                                              *)
(***************************************************************************)
InspectDestination ==
  /\ At("inspect", "snapshot") /\ Holders = {}
  /\ prior' = acked
  /\ UNCHANGED <<disk, logs, copies, acked, verified, torn>>

SnapshotDestination ==
  /\ At("snapshot", "stage")
  /\ first' = Content
  /\ UNCHANGED <<disk, logs, source, final, backup, synced, history>>

(* The source and the staged database pass every gate, or the script refuses. *)
StagePromotion ==
  /\ At("stage", "revalidate") /\ LedgersContained(first)
  /\ UNCHANGED <<disk, logs, copies, history>>

RevalidateActivity ==
  /\ At("revalidate", "final") /\ Holders = {}
  /\ UNCHANGED <<disk, logs, copies, history>>

SnapshotFinal ==
  /\ At("final", "checkpoint")
  /\ NoDrift(Content) /\ LedgersContained(Content)
  /\ final' = Content
  /\ UNCHANGED <<disk, logs, source, first, backup, synced, history>>

(* wal_checkpoint(TRUNCATE); a checkpoint that stays busy is refused.  The close of the
   script's own connection removes the log when nobody else has the file open. *)
CheckpointDestination ==
  /\ At("checkpoint", "unlink")
  /\ file' = [file EXCEPT ![path] = @ \cup Logged]
  /\ wal' = IF Holders = {} THEN None ELSE {}
  /\ UNCHANGED <<path, durable, cut, conn, copies, history>>

(* The sidecars are removed whatever they hold. *)
RemoveSidecars ==
  /\ At("unlink", "compare") /\ Unlink
  /\ UNCHANGED <<disk, copies, acked, prior, verified>>

CompareCheckpointed ==
  /\ At("compare", "clear") /\ NoSidecars /\ SameContents(final)
  /\ UNCHANGED <<disk, logs, copies, history>>

ClearAfterCheckpoint ==
  /\ At("clear", "quiet") /\ ClearInspectionSidecars
  /\ UNCHANGED <<disk, copies, acked, prior, verified>>

InspectAfterCheckpoint ==
  /\ At("quiet", "backup") /\ Holders = {} /\ NoSidecars
  /\ UNCHANGED <<disk, logs, copies, history>>

(* Mutant: the backup is written from the snapshot that staging used. *)
PrepareEarlyBackup ==
  /\ At("backup", "sync")
  /\ backup' = first
  /\ UNCHANGED <<disk, logs, source, first, final, synced, history>>

(* The backup is written from the final snapshot and verified against it. *)
PrepareBackup ==
  /\ At("backup", "sync")
  /\ backup' = final
  /\ UNCHANGED <<disk, logs, source, first, final, synced, history>>

(* The backup and its directory are flushed; the staged install is built and verified. *)
SyncBackup ==
  /\ At("sync", "verify")
  /\ synced' = TRUE
  /\ file' = [file EXCEPT !["new"] = Staged]
  /\ UNCHANGED <<path, durable, logs, source, first, final, backup, history>>

(* Mutant: the contents are not compared once more after the backup was made. *)
VerifyNoMore ==
  /\ At("verify", "clearAgain")
  /\ verified' = acked
  /\ UNCHANGED <<disk, logs, copies, acked, prior, torn>>

VerifyImmediately ==
  /\ At("verify", "clearAgain") /\ SameContents(final)
  /\ verified' = acked
  /\ UNCHANGED <<disk, logs, copies, acked, prior, torn>>

ClearBeforeSwap ==
  /\ At("clearAgain", "holders") /\ ClearInspectionSidecars
  /\ UNCHANGED <<disk, copies, acked, prior, verified>>

InspectBeforeSwap ==
  /\ At("holders", "boundary") /\ Holders = {}
  /\ UNCHANGED <<disk, logs, copies, history>>

(* The deployment lock and the source are checked again at this boundary. *)
ClearAtBoundary ==
  /\ At("boundary", "swap") /\ ClearInspectionSidecars
  /\ UNCHANGED <<disk, copies, acked, prior, verified>>

(***************************************************************************)
(* The swap, and the steps after it.                                       *)
(***************************************************************************)
Swap ==
  /\ At("swap", "fsync")
  /\ path' = "new"
  /\ UNCHANGED <<durable, file, logs, copies, history>>

(* rename() reports an error.  Whether it took effect is read back from the inode at
   the destination, and an inode that cannot be read counts as the old one: then nothing
   is rolled back, whatever is installed (fileMatchesIdentity). *)
SwapFails ==
  /\ stage = "swap"
  /\ path' \in {path, "new"}
  /\ \/ path' = "new" /\ stage' = "rbInspect" /\ UNCHANGED result
     \/ stage' = "done" /\ result' = "unchanged"
  /\ UNCHANGED <<durable, file, logs, copies, history>>

SyncSwap ==
  /\ At("fsync", "after")
  /\ durable' = path
  /\ UNCHANGED <<path, file, logs, copies, history>>

InspectAfterSwap ==
  /\ At("after", "bare") /\ Holders = {} /\ OldWriters = {}
  /\ UNCHANGED <<disk, logs, copies, history>>

NoSidecarsAfterSwap ==
  /\ At("bare", "installed") /\ NoSidecars
  /\ UNCHANGED <<disk, logs, copies, history>>

VerifyInstalled ==
  /\ At("installed", "success") /\ SameContents(Staged) /\ NoSidecars
  /\ UNCHANGED <<disk, logs, copies, history>>

InspectBeforeSuccess ==
  /\ At("success", "lock") /\ Holders = {} /\ OldWriters = {}
  /\ UNCHANGED <<disk, logs, copies, history>>

Succeed ==
  /\ stage = "lock" /\ ClearInspectionSidecars
  /\ stage' = "done" /\ result' = "success"
  /\ UNCHANGED <<disk, copies, acked, prior, verified>>

(***************************************************************************)
(* A check that fails.                                                     *)
(***************************************************************************)

(* Before the swap nothing is undone; the temporary files are removed. *)
Refuse ==
  /\ stage \in BeforeSwap
  /\ stage' = "done" /\ result' = "refused"
  /\ UNCHANGED <<disk, logs, copies, history>>

FailAfterSwap ==
  /\ stage \in AfterSwap
  /\ stage' = "rbInspect" /\ UNCHANGED result
  /\ UNCHANGED <<disk, logs, copies, history>>

FailRollback ==
  /\ stage \in RollingBack
  /\ stage' = "done" /\ result' = "incomplete"
  /\ UNCHANGED <<disk, logs, copies, history>>

(***************************************************************************)
(* attemptAutomaticRollback.                                               *)
(***************************************************************************)
InspectBeforeRollback ==
  /\ \/ At("rbInspect", "rbUnlink")
     \/ At("rbActivity", "rbUnlinkAgain")
  /\ Holders = {}
  /\ UNCHANGED <<disk, logs, copies, history>>

RemoveSidecarsForRollback ==
  /\ \/ At("rbUnlink", "rbActivity")
     \/ At("rbUnlinkAgain", "rbBuild")
  /\ Unlink
  /\ UNCHANGED <<disk, copies, acked, prior, verified>>

(* The candidate is a clone of the backup, verified against it. *)
BuildRollback ==
  /\ At("rbBuild", "rbRename")
  /\ file' = [file EXCEPT !["back"] = backup]
  /\ UNCHANGED <<path, durable, logs, copies, history>>

RestoreRename ==
  /\ At("rbRename", "rbCheck")
  /\ path' = "back"
  /\ UNCHANGED <<durable, file, logs, copies, history>>

VerifyRestored ==
  /\ At("rbCheck", "rbHolders")
  /\ durable' = path
  /\ NoSidecars /\ SameContents(backup)
  /\ UNCHANGED <<path, file, logs, copies, history>>

InspectRestored ==
  /\ At("rbHolders", "rbClear") /\ Holders = {}
  /\ UNCHANGED <<disk, logs, copies, history>>

FinishRollback ==
  /\ stage = "rbClear" /\ ClearInspectionSidecars
  /\ stage' = "done" /\ result' = "restored"
  /\ UNCHANGED <<disk, copies, acked, prior, verified>>

(***************************************************************************)
(* Faults.                                                                 *)
(***************************************************************************)

(* The script is killed: no later step and no rollback runs. *)
Kill ==
  /\ stage # "done"
  /\ stage' = "done" /\ result' = "killed"
  /\ UNCHANGED <<disk, logs, copies, history>>

(* The machine loses power while the script runs: processes and the logs that only they
   hold are gone, and so are a backup and a rename that were not flushed. *)
PowerLoss ==
  /\ stage # "done"
  /\ stage' = "done" /\ result' = "killed"
  /\ path' \in {path, durable} /\ durable' = path'
  /\ conn' = [w \in Writers |-> None]
  /\ cut' = [i \in Inodes |-> {}] /\ torn' = torn \cup UNION {cut[i] : i \in Inodes}
  /\ backup' = IF synced THEN backup ELSE None
  /\ UNCHANGED <<file, wal, source, first, final, synced, acked, prior, verified>>

Script ==
  \/ InspectDestination \/ SnapshotDestination \/ StagePromotion \/ RevalidateActivity
  \/ SnapshotFinal \/ CheckpointDestination \/ RemoveSidecars \/ CompareCheckpointed
  \/ ClearAfterCheckpoint \/ InspectAfterCheckpoint \/ PrepareBackup \/ SyncBackup
  \/ VerifyImmediately \/ ClearBeforeSwap \/ InspectBeforeSwap \/ ClearAtBoundary
  \/ Swap \/ SwapFails \/ SyncSwap \/ InspectAfterSwap \/ NoSidecarsAfterSwap
  \/ VerifyInstalled \/ InspectBeforeSuccess \/ Succeed
  \/ Refuse \/ FailAfterSwap \/ FailRollback
  \/ InspectBeforeRollback \/ RemoveSidecarsForRollback \/ BuildRollback
  \/ RestoreRename \/ VerifyRestored \/ InspectRestored \/ FinishRollback

Next ==
  \/ Script
  \/ \E w \in Writers : Open(w) \/ Commit(w) \/ Close(w) \/ Crash(w)
  \/ Kill \/ PowerLoss

Spec == Init /\ [][Next]_vars

(***************************************************************************)
(* Properties.                                                             *)
(***************************************************************************)

Kept == prior \cup (verified \ torn)
Retained == Content \cup (IF backup = None THEN {} ELSE backup)

(* Every commit that succeeded before the first inspection, the log of a writer that
   crashed included, and every commit that the last comparison before the swap covers,
   stays in the database or in the backup, whatever check fails, whoever opens the
   database and wherever the script or the machine stops (checkpointAndClearSidecars, the
   comparisons, the backup and its flush, the automatic rollback).  A commit that a
   writer made in a log that was unlinked under it is not covered by a comparison. *)
VerifiedCommitsSurvive == Kept \subseteq Retained

(* A promotion that succeeds carries the ledgers and the merged tables of the
   destination into the new database (containment, the merge and the drift checks). *)
SuccessCarriesLedgers ==
  result = "success" => Kept \cap (Ledger \cup Merged) \subseteq file["new"]

(* When success is reported, no process has the replaced file open, so nobody can commit
   into what nobody reads (the inspections of the old inode after the swap). *)
SuccessLeavesNoOldWriter ==
  result = "success" => OpenOn("old") = {} /\ cut["old"] = {}

(* What is reported is what is installed.  After a success the staged contents are; after
   a refusal or an automatic restoration they are not, and the database itself holds
   every commit that the script has promised to keep, without a look at the backup.  The
   report that the destination is unchanged is true in the same sense when the inode at
   the destination could be told: it promises nothing of what is installed otherwise. *)
ReportIsTrue ==
  /\ result = "success" => path = "new" /\ Staged \subseteq Content
  /\ result \in {"refused", "restored"} => path # "new"
  /\ result \in {"refused", "unchanged", "restored"} /\ path # "new" => Kept \subseteq Content
=============================================================================
