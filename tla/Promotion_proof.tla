--------------------------- MODULE Promotion_proof ---------------------------
(***************************************************************************)
(* Proofs about Promotion for any set of writers and commits.              *)
(***************************************************************************)
EXTENDS Promotion, TLAPS

USE PromotionAssumption

(* Stages before the sidecars are first unlinked, between the inspection   *)
(* and the comparison of the checkpointed file, after the final snapshot,  *)
(* with a backup, and with a flushed backup.                               *)
Early == {"inspect", "snapshot", "stage", "revalidate", "final", "checkpoint"}
Calm == {"backup", "sync", "verify"}
Synced == {"verify", "clearAgain", "holders", "boundary", "swap"} \cup AfterSwap
            \cup RollingBack
Backed == {"sync"} \cup Synced
Snapshotted ==
  {"checkpoint", "unlink", "compare", "clear", "quiet", "backup"} \cup Backed
Restored == {"rbCheck", "rbHolders", "rbClear"}

(* Logs hold commits that succeeded, and an unlinked one has a process.    *)
LogsSound ==
  /\ Logged \subseteq acked
  /\ \A i \in Inodes : cut[i] \subseteq acked
  /\ \A i \in Inodes : cut[i] # {} =>
       \E w \in Writers : conn[w] # None /\ conn[w].inode = i /\ ~conn[w].linked

AllLinked == \A w \in Writers : conn[w] # None => conn[w].linked

(* Before the swap everybody uses the old inode, and every commit that     *)
(* succeeded is in it, in a log, or lost with one.                         *)
BeforeInv ==
  /\ stage \in BeforeSwap =>
       /\ path = "old" /\ durable = "old"
       /\ \A w \in Writers : conn[w] # None => conn[w].inode = "old"
       /\ acked \subseteq file["old"] \cup Logged \cup torn \cup cut["old"]
  /\ stage \in Early => torn = {} /\ AllLinked
  /\ stage \in Calm => AllLinked

(* The commits of the first inspection: no log was unlinked yet, or the    *)
(* checkpoint has moved them into the old file.                            *)
Untouched ==
  /\ path = "old" /\ durable = "old" /\ AllLinked
  /\ \A w \in Writers : conn[w] # None => conn[w].inode = "old"
  /\ prior \subseteq Content

PriorKept ==
  /\ Untouched \/ prior \subseteq file["old"]
  /\ stage \notin Early \cup {"done"} => prior \subseteq file["old"]

CopiesInv ==
  /\ stage \in Snapshotted =>
       /\ prior \subseteq final
       /\ final \cap (Ledger \cup Merged) = first \cap (Ledger \cup Merged)
       /\ final \cap Ledger \subseteq source
  /\ stage \in Backed => backup = final
  /\ stage \notin Backed \cup {"done"} => backup = None
  /\ stage \in Synced => synced
  /\ backup # None => prior \subseteq backup
  /\ synced => backup # None /\ verified \ torn \subseteq backup
  /\ path # "old" \/ durable # "old" \/ verified # {} => synced

Installed ==
  /\ stage \in Synced \/ result = "success" => Staged \subseteq file["new"]
  /\ stage \in AfterSwap \/ result = "success" => path = "new"
  /\ stage = "lock" \/ result = "success" => OpenOn("old") = {}
  /\ stage \in Restored \/ result = "restored" => path = "back"
  /\ stage \in Restored \cup {"rbRename"} \/ result = "restored" =>
       backup \subseteq file["back"]
  /\ result = "refused" => path = "old"
  /\ result = "unchanged" => path # "back"

(* The old file keeps what was compared with it and what the backup holds. *)
OldKept ==
  /\ stage \in {"clear", "quiet", "backup"} => final \subseteq file["old"]
  /\ backup # None => backup \subseteq file["old"]

IInv ==
  /\ TypeOK /\ LogsSound /\ BeforeInv /\ PriorKept /\ CopiesInv /\ OldKept /\ Installed
  /\ SuccessCarriesLedgers

LEMMA PromotionInitially == Init => IInv
<1> SUFFICES ASSUME Init PROVE IInv
  OBVIOUS
<1>1. TypeOK
  BY DEF Init, TypeOK, BeforeSwap, Results, Inodes
<1>2. LogsSound /\ BeforeInv /\ PriorKept
  BY DEF Init, LogsSound, Logged, BeforeInv, AllLinked, PriorKept, Early, Inodes
<1>3. CopiesInv /\ OldKept /\ Installed /\ SuccessCarriesLedgers
  BY DEF Init, CopiesInv, OldKept, Snapshotted, Backed, Synced, AfterSwap, RollingBack,
         Installed, Restored, SuccessCarriesLedgers
<1> QED BY <1>1, <1>2, <1>3 DEF IInv

-----------------------------------------------------------------------------
(* Types *)

LEMMA UnlinkKeepsType ==
  ASSUME TypeOK, Logged \subseteq acked, Unlink
  PROVE  /\ wal' = None
         /\ cut' \in [Inodes -> SUBSET Commits]
         /\ conn' \in [Writers -> {None} \cup Connections]
         /\ torn' \subseteq acked
         /\ \A w \in Writers : conn'[w] # None => ~conn'[w].linked
<1>1. Logged \subseteq Commits
  BY DEF TypeOK, Logged
<1>2. ASSUME NEW w \in Writers, Linked(w)
      PROVE  /\ [conn[w] EXCEPT !.linked = FALSE] \in Connections
             /\ [conn[w] EXCEPT !.linked = FALSE].linked = FALSE
             /\ conn[w].inode \in Inodes
  BY <1>2 DEF Linked, TypeOK, Connections
<1>3. conn' \in [Writers -> {None} \cup Connections]
  BY <1>2 DEF Unlink, TypeOK
<1>4. cut' \in [Inodes -> SUBSET Commits]
  BY <1>1, <1>2 DEF Unlink, TypeOK
<1>5. \A w \in Writers : conn'[w] # None => ~conn'[w].linked
  BY <1>2 DEF Unlink, Linked
<1> QED BY <1>3, <1>4, <1>5 DEF Unlink, TypeOK

LEMMA WritersKeepType ==
  ASSUME TypeOK, LogsSound, NEW w \in Writers,
         Open(w) \/ Commit(w) \/ Close(w) \/ Crash(w)
  PROVE  TypeOK'
<1> USE DEF TypeOK, script, disk, logs, copies, history
<1>0. /\ Logged \subseteq Commits
      /\ conn[w] # None => conn[w] \in Connections
  BY DEF Logged
<1>00. conn[w] # None => conn[w].inode \in Inodes /\ conn[w].linked \in BOOLEAN
  BY <1>0 DEF Connections
<1>1. CASE Open(w)
  <2>1. [inode |-> path, linked |-> TRUE] \in Connections
    BY DEF Connections
  <2>2. wal' # None /\ wal' \in SUBSET Commits
    BY <1>0, <1>1 DEF Open
  <2> QED BY <1>1, <2>1, <2>2 DEF Open
<1>2. CASE Commit(w)
  <2>1. PICK c \in Commits \ acked :
          /\ acked' = acked \cup {c}
          /\ IF Linked(w) THEN wal' = wal \cup {c} /\ UNCHANGED cut
             ELSE cut' = [cut EXCEPT ![conn[w].inode] = @ \cup {c}] /\ UNCHANGED wal
    BY <1>2 DEF Commit
  <2>2. CASE Linked(w)
    <3>1. wal # None
      BY <2>2 DEF Linked
    <3>2. wal' \in SUBSET Commits /\ wal' # None
      BY <2>1, <2>2, <3>1
    <3> QED BY <1>2, <2>1, <2>2, <3>2 DEF Commit
  <2>3. CASE ~Linked(w)
    <3>1. cut' \in [Inodes -> SUBSET Commits]
      BY <1>00, <1>2, <2>1, <2>3 DEF Commit
    <3> QED BY <1>2, <2>1, <2>3, <3>1 DEF Commit
  <2> QED BY <2>2, <2>3
<1>3. CASE CloseLinked(w)
  <2>0. conn[w] # None /\ conn[w].linked /\ wal # None
    BY <1>3 DEF CloseLinked, Linked
  <2>1. CASE OpenOn(conn[w].inode) = {w}
    <3>1. file' \in [Inodes -> SUBSET Commits]
      BY <1>00, <1>3, <2>0, <2>1 DEF CloseLinked
    <3>2. conn' = [v \in Writers |->
                     CASE v = w -> None
                       [] v # w /\ Linked(v) -> [conn[v] EXCEPT !.linked = FALSE]
                       [] OTHER -> conn[v]]
      BY <1>3, <2>1 DEF CloseLinked
    <3>3. ASSUME NEW v \in Writers
          PROVE  /\ conn'[v] \in {None} \cup Connections
                 /\ conn'[v] # None => ~conn'[v].linked
      <4>1. CASE v = w
        BY <3>2, <4>1
      <4>2. CASE v # w /\ Linked(v)
        <5>1. conn'[v] = [conn[v] EXCEPT !.linked = FALSE]
          BY <3>2, <4>2
        <5>2. conn[v] \in Connections
          BY <4>2 DEF Linked
        <5> QED BY <5>1, <5>2 DEF Connections
      <4>3. CASE v # w /\ ~Linked(v)
        BY <3>2, <4>3 DEF Linked
      <4> QED BY <4>1, <4>2, <4>3
    <3>4. conn' \in [Writers -> {None} \cup Connections]
      BY <3>2, <3>3
    <3> QED BY <1>3, <2>1, <3>1, <3>3, <3>4 DEF CloseLinked
  <2>2. CASE OpenOn(conn[w].inode) # {w}
    BY <1>3, <2>0, <2>2 DEF CloseLinked
  <2> QED BY <2>1, <2>2
<1>4. ASSUME NEW b \in BOOLEAN, LeaveCut(w, b)
      PROVE  TypeOK'
  <2>0. conn[w] # None /\ conn[w].inode \in Inodes
    BY <1>00, <1>4 DEF LeaveCut
  <2>1. /\ conn' \in [Writers -> {None} \cup Connections]
        /\ \A v \in Writers : conn'[v] # None => conn'[v] = conn[v]
    BY <1>4 DEF LeaveCut
  <2>2. file' \in [Inodes -> SUBSET Commits] /\ cut' \in [Inodes -> SUBSET Commits]
    BY <1>4, <2>0 DEF LeaveCut
  <2>3. torn' \subseteq acked
    BY <1>4, <2>0 DEF LeaveCut, LogsSound
  <2> QED BY <1>4, <2>1, <2>2, <2>3 DEF LeaveCut
<1>5. CASE CrashLinked(w)
  BY <1>5 DEF CrashLinked
<1> QED BY <1>1, <1>2, <1>3, <1>4, <1>5 DEF Close, Crash

(* The steps of the script, by what they change. *)
Looks ==
  \/ StagePromotion \/ RevalidateActivity \/ CompareCheckpointed
  \/ InspectAfterCheckpoint \/ InspectBeforeSwap \/ InspectAfterSwap
  \/ NoSidecarsAfterSwap \/ VerifyInstalled \/ InspectBeforeSuccess
  \/ InspectBeforeRollback \/ InspectRestored
  \/ Refuse \/ FailAfterSwap \/ FailRollback \/ Kill
Unlinks ==
  \/ RemoveSidecars \/ ClearAfterCheckpoint \/ ClearBeforeSwap
  \/ ClearAtBoundary \/ Succeed \/ RemoveSidecarsForRollback \/ FinishRollback

LEMMA PromotionSteps ==
  ASSUME Script \/ Kill
  PROVE  \/ Looks /\ UNCHANGED <<disk, logs, copies, history>>
         \/ Unlinks /\ Unlink /\ UNCHANGED <<disk, copies, acked, prior, verified>>
         \/ InspectDestination \/ SnapshotDestination \/ SnapshotFinal
         \/ CheckpointDestination \/ PrepareBackup \/ SyncBackup
         \/ VerifyImmediately \/ Swap \/ SwapFails \/ SyncSwap
         \/ BuildRollback \/ RestoreRename \/ VerifyRestored
<1>1. Looks => UNCHANGED <<disk, logs, copies, history>>
  BY DEF Looks, StagePromotion, RevalidateActivity, CompareCheckpointed,
         InspectAfterCheckpoint, InspectBeforeSwap, InspectAfterSwap,
         NoSidecarsAfterSwap, VerifyInstalled, InspectBeforeSuccess,
         InspectBeforeRollback, InspectRestored, Refuse, FailAfterSwap,
         FailRollback, Kill
<1>2. Unlinks => Unlink /\ UNCHANGED <<disk, copies, acked, prior, verified>>
  BY DEF Unlinks, RemoveSidecars, ClearAfterCheckpoint, ClearBeforeSwap,
         ClearAtBoundary, Succeed, RemoveSidecarsForRollback, FinishRollback,
         ClearInspectionSidecars
<1> QED BY <1>1, <1>2 DEF Script, Looks, Unlinks

(* Every step of the script goes to a stage or reports. *)
LEMMA ScriptMoves ==
  ASSUME TypeOK, Script \/ Kill \/ PowerLoss
  PROVE  /\ stage' \in BeforeSwap \cup AfterSwap \cup RollingBack \cup {"done"}
         /\ result' \in Results /\ (result' = "running") = (stage' # "done")
<1> USE DEF TypeOK, At, Results, BeforeSwap, AfterSwap, RollingBack
<1>1. CASE Looks
  BY <1>1 DEF Looks, StagePromotion, RevalidateActivity, CompareCheckpointed,
         InspectAfterCheckpoint, InspectBeforeSwap, InspectAfterSwap,
         NoSidecarsAfterSwap, VerifyInstalled, InspectBeforeSuccess,
         InspectBeforeRollback, InspectRestored, Refuse, FailAfterSwap,
         FailRollback, Kill
<1>2. CASE Unlinks
  BY <1>2 DEF Unlinks, RemoveSidecars, ClearAfterCheckpoint, ClearBeforeSwap,
         ClearAtBoundary, Succeed, RemoveSidecarsForRollback, FinishRollback
<1>3. CASE InspectDestination \/ SnapshotDestination \/ SnapshotFinal
           \/ CheckpointDestination \/ PrepareBackup \/ SyncBackup
  BY <1>3 DEF InspectDestination, SnapshotDestination, SnapshotFinal,
         CheckpointDestination, PrepareBackup, SyncBackup
<1>4. CASE VerifyImmediately \/ Swap \/ SwapFails \/ SyncSwap
           \/ BuildRollback \/ RestoreRename \/ VerifyRestored \/ PowerLoss
  BY <1>4 DEF VerifyImmediately, Swap, SwapFails, SyncSwap, BuildRollback,
         RestoreRename, VerifyRestored, PowerLoss
<1> QED BY <1>1, <1>2, <1>3, <1>4, PromotionSteps

LEMMA PromotionTypeStep == IInv /\ [Next]_vars => TypeOK'
<1> SUFFICES ASSUME IInv, [Next]_vars PROVE TypeOK'
  OBVIOUS
<1>0. TypeOK /\ LogsSound /\ CopiesInv
  BY DEF IInv
<1> USE DEF script, disk, logs, copies, history
<1>1. ASSUME NEW w \in Writers, Open(w) \/ Commit(w) \/ Close(w) \/ Crash(w)
      PROVE  TypeOK'
  BY <1>0, <1>1, WritersKeepType
<1>2. CASE UNCHANGED vars
  BY <1>0, <1>2 DEF vars, TypeOK
<1>3. CASE PowerLoss
  <2>1. /\ torn' \subseteq acked
        /\ cut' \in [Inodes -> SUBSET Commits]
        /\ conn' = [w \in Writers |-> None]
    BY <1>0, <1>3 DEF PowerLoss, TypeOK, LogsSound
  <2>2. /\ stage' \in BeforeSwap \cup AfterSwap \cup RollingBack \cup {"done"}
        /\ result' \in Results /\ (result' = "running") = (stage' # "done")
    BY <1>0, <1>3, ScriptMoves
  <2> QED BY <1>0, <1>3, <2>1, <2>2 DEF PowerLoss, TypeOK
<1>4. CASE Script \/ Kill
  <2>0. /\ stage' \in BeforeSwap \cup AfterSwap \cup RollingBack \cup {"done"}
        /\ result' \in Results /\ (result' = "running") = (stage' # "done")
    BY <1>0, <1>4, ScriptMoves
  <2>00. Logged \subseteq Commits /\ Content \subseteq Commits
    BY <1>0 DEF Logged, Content, TypeOK
  <2>1. CASE UNCHANGED <<disk, logs, copies, history>>
    BY <1>0, <2>0, <2>1 DEF TypeOK
  <2>2. CASE Unlink /\ UNCHANGED <<disk, copies, acked, prior, verified>>
    <3>1. /\ wal' = None
          /\ cut' \in [Inodes -> SUBSET Commits]
          /\ conn' \in [Writers -> {None} \cup Connections]
          /\ torn' \subseteq acked
          /\ \A w \in Writers : conn'[w] # None => ~conn'[w].linked
      BY <1>0, <2>2, UnlinkKeepsType DEF LogsSound
    <3> QED BY <1>0, <2>0, <2>2, <3>1 DEF TypeOK
  <2>3. CASE InspectDestination \/ SnapshotDestination \/ SnapshotFinal
    BY <1>0, <2>0, <2>00, <2>3
    DEF TypeOK, InspectDestination, SnapshotDestination, SnapshotFinal
  <2>4. CASE CheckpointDestination
    <3>1. file' \in [Inodes -> SUBSET Commits]
      BY <1>0, <2>00, <2>4 DEF CheckpointDestination, TypeOK
    <3>2. \A w \in Writers : conn[w] # None /\ conn[w].linked => wal' # None
      BY <2>4 DEF CheckpointDestination, Holders, Linked
    <3>3. wal' \in {None} \cup SUBSET Commits
      BY <2>4 DEF CheckpointDestination
    <3> QED BY <1>0, <2>0, <2>4, <3>1, <3>2, <3>3 DEF CheckpointDestination, TypeOK
  <2>5. CASE PrepareBackup \/ VerifyImmediately \/ Swap \/ SwapFails \/ SyncSwap
             \/ RestoreRename \/ VerifyRestored
    BY <1>0, <2>0, <2>5
    DEF TypeOK, PrepareBackup, VerifyImmediately, Swap, SwapFails, SyncSwap,
        RestoreRename, VerifyRestored, Inodes
  <2>6. CASE SyncBackup
    <3>1. Staged \subseteq Commits
      BY <1>0 DEF Staged, TypeOK
    <3> QED BY <1>0, <2>0, <2>6, <3>1 DEF TypeOK, SyncBackup
  <2>7. CASE BuildRollback
    <3>1. backup \in SUBSET Commits
      BY <1>0, <2>7 DEF BuildRollback, At, CopiesInv, Synced, RollingBack, TypeOK
    <3> QED BY <1>0, <2>0, <2>7, <3>1 DEF TypeOK, BuildRollback
  <2> QED BY <1>4, <2>1, <2>2, <2>3, <2>4, <2>5, <2>6, <2>7, PromotionSteps
<1> QED BY <1>1, <1>2, <1>3, <1>4 DEF Next

-----------------------------------------------------------------------------
(* Logs *)

(* What unlinking does to the logs: the commits of the log that was at the *)
(* path are lost, or with a process that still has it open.                *)
LEMMA UnlinkMovesLog ==
  ASSUME TypeOK, Unlink
  PROVE  /\ wal' = None
         /\ \A w \in Writers : /\ (conn'[w] # None) = (conn[w] # None)
                               /\ conn[w] # None => conn'[w].inode = conn[w].inode
                               /\ conn[w] # None => ~conn'[w].linked
         /\ \/ /\ torn' = torn
               /\ \E w \in Writers :
                    Linked(w) /\ cut' = [cut EXCEPT ![conn[w].inode] = @ \cup Logged]
            \/ /\ cut' = cut /\ torn' = torn \cup Logged
               /\ \A w \in Writers : ~Linked(w)
<1>1. ASSUME NEW w \in Writers, Linked(w)
      PROVE  /\ [conn[w] EXCEPT !.linked = FALSE] # None
             /\ [conn[w] EXCEPT !.linked = FALSE].linked = FALSE
             /\ [conn[w] EXCEPT !.linked = FALSE].inode = conn[w].inode
  <2>1. conn[w] \in Connections
    BY <1>1 DEF Linked, TypeOK
  <2>2. [conn[w] EXCEPT !.linked = FALSE] \in Connections
    BY <2>1 DEF Connections
  <2> QED BY <2>1, <2>2 DEF Connections
<1>2. \A w \in Writers : /\ (conn'[w] # None) = (conn[w] # None)
                         /\ conn[w] # None => conn'[w].inode = conn[w].inode
                         /\ conn[w] # None => ~conn'[w].linked
  <2> TAKE w \in Writers
  <2>1. CASE Linked(w)
    <3>1. conn'[w] = [conn[w] EXCEPT !.linked = FALSE]
      BY <2>1 DEF Unlink
    <3> QED BY <1>1, <2>1, <3>1 DEF Linked
  <2>2. CASE ~Linked(w)
    <3>1. conn'[w] = conn[w]
      BY <2>2 DEF Unlink
    <3> QED BY <2>2, <3>1 DEF Linked
  <2> QED BY <2>1, <2>2
<1> QED BY <1>2 DEF Unlink

(* What a log that loses a process leaves behind. *)
LEMMA LeavingMovesLog ==
  ASSUME TypeOK, NEW w \in Writers, NEW b \in BOOLEAN, LeaveCut(w, b)
  PROVE  /\ conn[w] # None /\ ~conn[w].linked /\ conn[w].inode \in Inodes
         /\ conn' = [conn EXCEPT ![w] = None]
         /\ UNCHANGED <<script, path, durable, wal, copies, acked, prior, verified>>
         /\ \A i \in Inodes \ {conn[w].inode} : cut'[i] = cut[i] /\ file'[i] = file[i]
         /\ \/ /\ cut' = cut /\ file' = file /\ torn' = torn
               /\ \E v \in Writers \ {w} :
                    conn[v] # None /\ conn[v].inode = conn[w].inode /\ ~conn[v].linked
            \/ /\ cut'[conn[w].inode] = {}
               /\ \/ /\ torn' = torn \cup cut[conn[w].inode]
                     /\ file' = file
                  \/ /\ torn' = torn
                     /\ file'[conn[w].inode] = file[conn[w].inode] \cup cut[conn[w].inode]
<1>1. conn[w] # None /\ ~conn[w].linked
  BY DEF LeaveCut, Linked
<1>2. conn[w].inode \in Inodes
  BY <1>1 DEF TypeOK, Connections
<1>3. (\E v \in OpenOn(conn[w].inode) \ {w} : ~Linked(v)) =>
        \E v \in Writers \ {w} :
          conn[v] # None /\ conn[v].inode = conn[w].inode /\ ~conn[v].linked
  BY DEF OpenOn, Linked
<1> QED BY <1>1, <1>2, <1>3 DEF LeaveCut, TypeOK

LEMMA LogsStep == IInv /\ [Next]_vars => LogsSound'
<1> SUFFICES ASSUME IInv, [Next]_vars PROVE LogsSound'
  OBVIOUS
<1>0. TypeOK /\ LogsSound
  BY DEF IInv
<1> USE DEF script, disk, logs, copies, history
<1>1. CASE UNCHANGED logs /\ acked' = acked
  BY <1>0, <1>1 DEF LogsSound, Logged
<1>2. CASE Unlink /\ acked' = acked
  <2>1. /\ wal' = None
        /\ \A w \in Writers : /\ (conn'[w] # None) = (conn[w] # None)
                              /\ conn[w] # None => conn'[w].inode = conn[w].inode
                              /\ conn[w] # None => ~conn'[w].linked
    BY <1>0, <1>2, UnlinkMovesLog
  <2>2. Logged' = {}
    BY <2>1 DEF Logged
  <2>3. CASE cut' = cut
    BY <1>0, <1>2, <2>1, <2>2, <2>3 DEF LogsSound
  <2>4. ASSUME NEW w \in Writers, Linked(w),
               cut' = [cut EXCEPT ![conn[w].inode] = @ \cup Logged]
        PROVE  LogsSound'
    <3>1. conn[w] # None /\ conn[w].inode \in Inodes
      BY <1>0, <2>4 DEF Linked, TypeOK, Connections
    <3>2. \A i \in Inodes :
            cut'[i] = IF i = conn[w].inode THEN cut[i] \cup Logged ELSE cut[i]
      BY <1>0, <2>4 DEF TypeOK
    <3>3. \A i \in Inodes : cut'[i] \subseteq acked'
      BY <1>0, <1>2, <3>2 DEF LogsSound
    <3>4. ASSUME NEW i \in Inodes, cut'[i] # {}
          PROVE  \E v \in Writers : conn'[v] # None /\ conn'[v].inode = i /\ ~conn'[v].linked
      <4>1. CASE i = conn[w].inode
        BY <2>1, <3>1, <4>1
      <4>2. CASE i # conn[w].inode
        <5>1. PICK v \in Writers : conn[v] # None /\ conn[v].inode = i
          BY <1>0, <3>2, <3>4, <4>2 DEF LogsSound
        <5> QED BY <2>1, <5>1
      <4> QED BY <4>1, <4>2
    <3> QED BY <2>2, <3>3, <3>4 DEF LogsSound
  <2> QED BY <1>0, <1>2, <2>3, <2>4, UnlinkMovesLog
<1>3. CASE PowerLoss
  BY <1>0, <1>3 DEF PowerLoss, LogsSound, Logged
<1>4. CASE CheckpointDestination
  BY <1>0, <1>4 DEF CheckpointDestination, LogsSound, Logged
<1>5. CASE Script \/ Kill
  <2>1. CASE \/ InspectDestination \/ SnapshotDestination \/ SnapshotFinal
             \/ PrepareBackup \/ SyncBackup \/ VerifyImmediately \/ Swap
             \/ SwapFails \/ SyncSwap \/ BuildRollback \/ RestoreRename
             \/ VerifyRestored
    BY <1>1, <2>1
    DEF InspectDestination, SnapshotDestination, SnapshotFinal, PrepareBackup,
        SyncBackup, VerifyImmediately, Swap, SwapFails, SyncSwap, BuildRollback,
        RestoreRename, VerifyRestored
  <2> QED BY <1>1, <1>2, <1>4, <1>5, <2>1, PromotionSteps
<1>6. ASSUME NEW w \in Writers, Open(w) \/ Commit(w) \/ Close(w) \/ Crash(w)
      PROVE  LogsSound'
  <2>0. conn[w] # None => conn[w] \in Connections /\ conn[w].inode \in Inodes
    BY <1>0 DEF TypeOK, Connections
  <2>1. CASE Open(w)
    <3>1. /\ Logged' = Logged /\ UNCHANGED <<cut, acked>>
          /\ \A v \in Writers : conn[v] # None => conn'[v] = conn[v]
      BY <1>0, <2>1 DEF Open, Logged, TypeOK
    <3> QED BY <1>0, <3>1 DEF LogsSound
  <2>2. CASE Commit(w)
    <3>1. PICK c \in Commits \ acked :
            /\ acked' = acked \cup {c}
            /\ IF Linked(w) THEN wal' = wal \cup {c} /\ UNCHANGED cut
               ELSE cut' = [cut EXCEPT ![conn[w].inode] = @ \cup {c}] /\ UNCHANGED wal
      BY <2>2 DEF Commit
    <3>2. conn[w] # None /\ conn' = conn
      BY <2>2 DEF Commit
    <3>3. CASE Linked(w)
      <4>1. wal # None
        BY <1>0, <3>3 DEF Linked, TypeOK
      <4>2. Logged' \subseteq Logged \cup {c}
        BY <3>1, <3>3, <4>1 DEF Logged
      <4> QED BY <1>0, <3>1, <3>2, <3>3, <4>2 DEF LogsSound
    <3>4. CASE ~Linked(w)
      <4>1. ~conn[w].linked
        BY <3>2, <3>4 DEF Linked
      <4>2. \A i \in Inodes :
              cut'[i] = IF i = conn[w].inode THEN cut[i] \cup {c} ELSE cut[i]
        BY <1>0, <3>1, <3>4 DEF TypeOK
      <4>3. Logged' = Logged
        BY <3>1, <3>4 DEF Logged
      <4> QED BY <1>0, <2>0, <3>1, <3>2, <4>1, <4>2, <4>3 DEF LogsSound
    <3> QED BY <3>3, <3>4
  <2>3. CASE CloseLinked(w)
    <3>1. Linked(w) /\ UNCHANGED <<cut, acked>>
      BY <2>3 DEF CloseLinked
    <3>2. Logged' \subseteq Logged
      BY <2>3 DEF CloseLinked, Logged
    <3>3. \A v \in Writers : conn[v] # None /\ ~conn[v].linked => conn'[v] = conn[v]
      <4> SUFFICES ASSUME NEW v \in Writers, conn[v] # None, ~conn[v].linked
                   PROVE  conn'[v] = conn[v]
        OBVIOUS
      <4>1. v # w /\ ~Linked(v)
        BY <3>1 DEF Linked
      <4>2. CASE OpenOn(conn[w].inode) = {w}
        <5>1. conn' = [u \in Writers |->
                         CASE u = w -> None
                           [] u # w /\ Linked(u) -> [conn[u] EXCEPT !.linked = FALSE]
                           [] OTHER -> conn[u]]
          BY <2>3, <4>2 DEF CloseLinked
        <5> QED BY <4>1, <5>1
      <4>3. CASE OpenOn(conn[w].inode) # {w}
        BY <1>0, <2>3, <4>1, <4>3 DEF CloseLinked, TypeOK
      <4> QED BY <4>2, <4>3
    <3> QED BY <1>0, <3>1, <3>2, <3>3 DEF LogsSound
  <2>4. ASSUME NEW b \in BOOLEAN, LeaveCut(w, b)
        PROVE  LogsSound'
    <3> DEFINE i == conn[w].inode
    <3>1. /\ i \in Inodes /\ conn[w] # None
          /\ conn' = [conn EXCEPT ![w] = None]
          /\ acked' = acked /\ wal' = wal
          /\ \A j \in Inodes \ {i} : cut'[j] = cut[j]
          /\ \/ /\ cut' = cut
                /\ \E v \in Writers \ {w} :
                     conn[v] # None /\ conn[v].inode = i /\ ~conn[v].linked
             \/ cut'[i] = {}
      BY <1>0, <2>4, LeavingMovesLog
    <3>2. Logged' = Logged
      BY <3>1 DEF Logged
    <3>3. \A v \in Writers \ {w} : conn'[v] = conn[v]
      BY <1>0, <3>1 DEF TypeOK
    <3>4. \A j \in Inodes : cut'[j] \subseteq acked'
      BY <1>0, <3>1 DEF LogsSound
    <3>5. ASSUME NEW j \in Inodes, cut'[j] # {}
          PROVE  \E v \in Writers : conn'[v] # None /\ conn'[v].inode = j /\ ~conn'[v].linked
      <4>1. CASE j = i
        BY <3>1, <3>3, <3>5, <4>1
      <4>2. CASE j # i
        <5>1. PICK v \in Writers : conn[v] # None /\ conn[v].inode = j /\ ~conn[v].linked
          BY <1>0, <3>1, <3>5, <4>2 DEF LogsSound
        <5>2. v # w
          BY <4>2, <5>1
        <5> QED BY <3>3, <5>1, <5>2
      <4> QED BY <4>1, <4>2
    <3> QED BY <1>0, <3>1, <3>2, <3>4, <3>5 DEF LogsSound
  <2>5. CASE CrashLinked(w)
    <3>1. Linked(w) /\ UNCHANGED <<cut, acked, wal>> /\ conn' = [conn EXCEPT ![w] = None]
      BY <2>5 DEF CrashLinked
    <3>2. \A v \in Writers : conn[v] # None /\ ~conn[v].linked => conn'[v] = conn[v]
      BY <1>0, <3>1 DEF Linked, TypeOK
    <3> QED BY <1>0, <3>1, <3>2 DEF LogsSound, Logged
  <2> QED BY <1>6, <2>1, <2>2, <2>3, <2>4, <2>5 DEF Close, Crash
<1>7. CASE UNCHANGED vars
  BY <1>1, <1>7 DEF vars
<1> QED BY <1>3, <1>5, <1>6, <1>7 DEF Next

-----------------------------------------------------------------------------
(* Where the commits are *)

OnOld == \A w \in Writers : conn[w] # None => conn[w].inode = "old"

(* Closing a log at the path, on a machine where all use one inode. *)
LEMMA ClosingLastFolds ==
  ASSUME TypeOK, path = "old", OnOld, NEW w \in Writers, CloseLinked(w)
  PROVE  /\ OnOld' /\ path' = "old" /\ cut' = cut /\ torn' = torn /\ acked' = acked
         /\ prior' = prior /\ durable' = durable /\ stage' = stage
         /\ file["old"] \subseteq file'["old"]
         /\ Content' = Content
         /\ AllLinked => AllLinked'
<1>0. /\ Linked(w) /\ wal # None /\ Logged = wal /\ conn[w].inode = "old"
      /\ UNCHANGED <<script, path, durable, cut, copies, history>>
  BY DEF CloseLinked, Linked, TypeOK, OnOld, Logged
<1>1. CASE OpenOn("old") = {w}
  <2>1. /\ file' = [file EXCEPT !["old"] = @ \cup wal]
        /\ wal' = None
        /\ conn' = [v \in Writers |->
                      CASE v = w -> None
                        [] v # w /\ Linked(v) -> [conn[v] EXCEPT !.linked = FALSE]
                        [] OTHER -> conn[v]]
    BY <1>0, <1>1 DEF CloseLinked
  <2>2. \A v \in Writers \ {w} : conn[v] = None
    BY <1>1 DEF OpenOn, OnOld
  <2>3. \A v \in Writers : conn'[v] = None
    BY <2>1, <2>2 DEF Linked
  <2>4. file'["old"] = file["old"] \cup wal /\ Logged' = {}
    BY <2>1 DEF TypeOK, Inodes, Logged
  <2> QED BY <1>0, <2>3, <2>4 DEF OnOld, AllLinked, Content, script, history
<1>2. CASE OpenOn("old") # {w}
  <2>1. conn' = [conn EXCEPT ![w] = None] /\ UNCHANGED <<file, wal>>
    BY <1>0, <1>2 DEF CloseLinked
  <2>2. \A v \in Writers : conn'[v] # None => conn'[v] = conn[v]
    BY <2>1 DEF TypeOK
  <2> QED
    BY <1>0, <2>1, <2>2 DEF OnOld, AllLinked, Content, Logged, script, history
<1> QED BY <1>1, <1>2

LEMMA WritersKeepPlace ==
  ASSUME TypeOK, LogsSound, path = "old", OnOld, NEW w \in Writers,
         Open(w) \/ Commit(w) \/ Close(w) \/ Crash(w)
  PROVE  /\ path' = "old" /\ durable' = durable /\ stage' = stage /\ prior' = prior
         /\ OnOld'
         /\ file["old"] \subseteq file'["old"]
         /\ acked \subseteq file["old"] \cup Logged \cup torn \cup cut["old"] =>
              acked' \subseteq (file["old"] \cup Logged \cup torn \cup cut["old"])'
         /\ AllLinked => /\ AllLinked' /\ torn' = torn
                         /\ Content \subseteq Content'
<1> USE DEF script, disk, logs, copies, history
<1>0. conn[w] # None => conn[w] \in Connections /\ conn[w].inode = "old"
  BY DEF TypeOK, OnOld
<1>1. CASE Open(w)
  <2>1. /\ Logged' = Logged
        /\ conn' = [conn EXCEPT ![w] = [inode |-> "old", linked |-> TRUE]]
        /\ UNCHANGED <<script, disk, cut, copies, history>>
    BY <1>1 DEF Open, Logged, TypeOK
  <2>2. /\ \A v \in Writers \ {w} : conn'[v] = conn[v]
        /\ conn'[w].inode = "old" /\ conn'[w].linked
    BY <2>1 DEF TypeOK
  <2> QED BY <2>1, <2>2 DEF OnOld, AllLinked, Content
<1>2. CASE Commit(w)
  <2>1. PICK c \in Commits \ acked :
          /\ acked' = acked \cup {c}
          /\ IF Linked(w) THEN wal' = wal \cup {c} /\ UNCHANGED cut
             ELSE cut' = [cut EXCEPT ![conn[w].inode] = @ \cup {c}] /\ UNCHANGED wal
    BY <1>2 DEF Commit
  <2>2. conn[w] # None /\ UNCHANGED <<script, disk, conn, copies, prior, verified, torn>>
    BY <1>2 DEF Commit
  <2>3. CASE Linked(w)
    <3>1. wal # None
      BY <2>3 DEF Linked, TypeOK
    <3>2. wal' # None
      BY <2>1, <2>3, <3>1 DEF TypeOK
    <3>3. Logged' = Logged \cup {c}
      BY <2>1, <2>3, <3>1, <3>2 DEF Logged
    <3> QED BY <2>1, <2>2, <2>3, <3>3 DEF OnOld, AllLinked, Content
  <2>4. CASE ~Linked(w)
    <3>1. cut'["old"] = cut["old"] \cup {c} /\ Logged' = Logged
      BY <1>0, <2>1, <2>2, <2>4 DEF TypeOK, Inodes, Logged
    <3>2. ~AllLinked
      BY <2>2, <2>4 DEF Linked, AllLinked
    <3> QED BY <2>1, <2>2, <3>1, <3>2 DEF OnOld
  <2> QED BY <2>3, <2>4
<1>3. CASE CloseLinked(w)
  <2>1. /\ OnOld' /\ path' = "old" /\ cut' = cut /\ torn' = torn /\ acked' = acked
        /\ prior' = prior /\ durable' = durable /\ stage' = stage
        /\ file["old"] \subseteq file'["old"]
        /\ Content' = Content
        /\ AllLinked => AllLinked'
    BY <1>3, ClosingLastFolds
  <2> QED BY <2>1 DEF Content
<1>4. ASSUME NEW b \in BOOLEAN, LeaveCut(w, b)
      PROVE  /\ path' = "old" /\ durable' = durable /\ stage' = stage /\ prior' = prior
             /\ OnOld' /\ ~AllLinked
             /\ file["old"] \subseteq file'["old"]
             /\ acked \subseteq file["old"] \cup Logged \cup torn \cup cut["old"] =>
                  acked' \subseteq (file["old"] \cup Logged \cup torn \cup cut["old"])'
  <2>1. /\ conn[w] # None /\ ~conn[w].linked /\ conn[w].inode = "old"
        /\ conn' = [conn EXCEPT ![w] = None]
        /\ UNCHANGED <<script, path, durable, wal, copies, acked, prior, verified>>
        /\ \/ cut' = cut /\ file' = file /\ torn' = torn
           \/ /\ cut'["old"] = {}
              /\ \/ torn' = torn \cup cut["old"] /\ file' = file
                 \/ /\ torn' = torn
                    /\ file'["old"] = file["old"] \cup cut["old"]
    BY <1>0, <1>4, LeavingMovesLog
  <2>2. OnOld' /\ ~AllLinked
    BY <2>1 DEF OnOld, AllLinked, TypeOK
  <2>3. Logged' = Logged
    BY <2>1 DEF Logged
  <2> QED BY <2>1, <2>2, <2>3
<1>5. CASE CrashLinked(w)
  <2>1. conn' = [conn EXCEPT ![w] = None] /\ UNCHANGED <<script, disk, wal, cut, copies, history>>
    BY <1>5 DEF CrashLinked
  <2>2. \A v \in Writers : conn'[v] # None => conn'[v] = conn[v]
    BY <2>1 DEF TypeOK
  <2> QED BY <2>1, <2>2 DEF OnOld, AllLinked, Content, Logged
<1> QED BY <1>1, <1>2, <1>3, <1>4, <1>5 DEF Close, Crash

LEMMA BeforeStep == IInv /\ [Next]_vars => BeforeInv'
<1> SUFFICES ASSUME IInv, [Next]_vars PROVE BeforeInv'
  OBVIOUS
<1>0. TypeOK /\ LogsSound /\ BeforeInv
  BY DEF IInv
<1> USE DEF script, disk, logs, copies, history
<1>1. ASSUME NEW w \in Writers, Open(w) \/ Commit(w) \/ Close(w) \/ Crash(w)
      PROVE  BeforeInv'
  <2>1. stage' = stage
    BY <1>1 DEF Open, Commit, Close, Crash, CloseLinked, LeaveCut, CrashLinked
  <2>2. CASE stage \in BeforeSwap
    <3>1. path = "old" /\ durable = "old" /\ OnOld
      BY <1>0, <2>2 DEF BeforeInv, OnOld
    <3>2. /\ path' = "old" /\ durable' = durable /\ OnOld'
          /\ acked \subseteq file["old"] \cup Logged \cup torn \cup cut["old"] =>
               acked' \subseteq (file["old"] \cup Logged \cup torn \cup cut["old"])'
          /\ AllLinked => AllLinked' /\ torn' = torn
      BY <1>0, <1>1, <3>1, WritersKeepPlace
    <3> QED BY <1>0, <2>1, <2>2, <3>1, <3>2 DEF BeforeInv, OnOld
  <2>3. CASE stage \notin BeforeSwap
    BY <2>1, <2>3 DEF BeforeInv, BeforeSwap, Early, Calm
  <2> QED BY <2>2, <2>3
<1>2. CASE UNCHANGED vars
  BY <1>0, <1>2 DEF vars, BeforeInv, AllLinked, Logged
<1>3. ASSUME stage' \notin BeforeSwap
      PROVE  BeforeInv'
  BY <1>3 DEF BeforeInv, BeforeSwap, Early, Calm
<1>4. CASE PowerLoss
  BY <1>3, <1>4 DEF PowerLoss, BeforeSwap
<1>5. CASE Looks /\ UNCHANGED <<disk, logs, copies, history>>
  <2>1. CASE InspectAfterCheckpoint
    <3>1. OnOld /\ Holders = {} /\ path = "old" /\ stage' = "backup" /\ stage = "quiet"
      BY <1>0, <2>1 DEF InspectAfterCheckpoint, At, BeforeInv, OnOld, BeforeSwap
    <3>2. \A w \in Writers : conn[w] = None
      BY <3>1 DEF Holders, OpenOn, OnOld
    <3> QED BY <1>0, <1>5, <3>1, <3>2
            DEF BeforeInv, BeforeSwap, Early, Calm, AllLinked, Logged
  <2>2. CASE ~InspectAfterCheckpoint
    <3>1. /\ stage' \in BeforeSwap => stage \in BeforeSwap
          /\ stage' \in Early => stage \in Early
          /\ stage' \in Calm => stage \in Calm
      BY <1>5, <2>2
      DEF Looks, StagePromotion, RevalidateActivity, CompareCheckpointed,
          InspectBeforeSwap, InspectAfterSwap, NoSidecarsAfterSwap,
          VerifyInstalled, InspectBeforeSuccess, InspectBeforeRollback,
          InspectRestored, Refuse, FailAfterSwap, FailRollback, Kill,
          At, BeforeSwap, Early, Calm
    <3> QED BY <1>0, <1>5, <3>1 DEF BeforeInv, AllLinked, Logged
  <2> QED BY <2>1, <2>2
<1>6. CASE Unlinks /\ Unlink /\ UNCHANGED <<disk, copies, acked, prior, verified>>
  <2>1. stage' \notin Early \cup Calm /\ (stage' \in BeforeSwap => stage \in BeforeSwap)
    BY <1>6
    DEF Unlinks, RemoveSidecars, ClearAfterCheckpoint, ClearBeforeSwap,
        ClearAtBoundary, Succeed, RemoveSidecarsForRollback, FinishRollback,
        At, BeforeSwap, Early, Calm
  <2>2. CASE stage' \in BeforeSwap
    <3>1. /\ path = "old" /\ durable = "old" /\ OnOld
          /\ acked \subseteq file["old"] \cup Logged \cup torn \cup cut["old"]
      BY <1>0, <2>1, <2>2 DEF BeforeInv, OnOld
    <3>2. /\ \A w \in Writers : /\ (conn'[w] # None) = (conn[w] # None)
                                /\ conn[w] # None => conn'[w].inode = conn[w].inode
          /\ \/ /\ torn' = torn
                /\ \E w \in Writers :
                     Linked(w) /\ cut' = [cut EXCEPT ![conn[w].inode] = @ \cup Logged]
             \/ cut' = cut /\ torn' = torn \cup Logged
      BY <1>0, <1>6, UnlinkMovesLog
    <3>3. OnOld'
      BY <3>1, <3>2 DEF OnOld
    <3>4. \A w \in Writers : Linked(w) => conn[w].inode = "old"
      BY <3>1 DEF OnOld, Linked
    <3>5. Logged \cup torn \cup cut["old"] \subseteq (torn \cup cut["old"])'
      <4>1. CASE torn' = torn /\ cut' = [cut EXCEPT !["old"] = @ \cup Logged]
        BY <1>0, <4>1 DEF TypeOK, Inodes
      <4>2. CASE cut' = cut /\ torn' = torn \cup Logged
        BY <4>2
      <4> QED BY <3>2, <3>4, <4>1, <4>2
    <3> QED BY <1>6, <2>1, <2>2, <3>1, <3>3, <3>5 DEF BeforeInv, OnOld
  <2> QED BY <1>3, <2>2
<1>7. CASE InspectDestination \/ SnapshotDestination \/ SnapshotFinal
           \/ PrepareBackup \/ VerifyImmediately
  <2>1. /\ UNCHANGED <<disk, logs, acked, torn>>
        /\ stage' \in BeforeSwap /\ stage \in BeforeSwap
        /\ stage' \in Early => stage \in Early
        /\ stage' \in Calm => stage \in Calm
    BY <1>7 DEF InspectDestination, SnapshotDestination, SnapshotFinal,
                PrepareBackup, VerifyImmediately, At, BeforeSwap, Early, Calm
  <2> QED BY <1>0, <2>1 DEF BeforeInv, AllLinked, Logged
<1>8. CASE CheckpointDestination
  <2>1. /\ stage = "checkpoint" /\ stage' = "unlink"
        /\ file' = [file EXCEPT ![path] = @ \cup Logged]
        /\ UNCHANGED <<path, durable, cut, conn, copies, history>>
    BY <1>8 DEF CheckpointDestination, At
  <2>2. /\ path = "old" /\ durable = "old"
        /\ acked \subseteq file["old"] \cup Logged \cup torn \cup cut["old"]
        /\ \A w \in Writers : conn[w] # None => conn[w].inode = "old"
    BY <1>0, <2>1 DEF BeforeInv, BeforeSwap
  <2>3. file'["old"] = file["old"] \cup Logged
    BY <1>0, <2>1, <2>2 DEF TypeOK, Inodes
  <2> QED BY <2>1, <2>2, <2>3 DEF BeforeInv, Early, Calm
<1>9. CASE SyncBackup
  <2>1. /\ stage = "sync" /\ stage' = "verify" /\ file'["old"] = file["old"]
        /\ UNCHANGED <<path, durable, logs, history>>
    BY <1>0, <1>9 DEF SyncBackup, At, TypeOK, Inodes
  <2> QED BY <1>0, <2>1 DEF BeforeInv, BeforeSwap, Early, Calm, AllLinked, Logged
<1>10. CASE Swap \/ SwapFails \/ SyncSwap \/ BuildRollback \/ RestoreRename \/ VerifyRestored
  <2>1. stage' \notin BeforeSwap
    BY <1>10 DEF Swap, SwapFails, SyncSwap, BuildRollback, RestoreRename,
                 VerifyRestored, At, BeforeSwap
  <2> QED BY <1>3, <2>1
<1>11. CASE Script \/ Kill
  BY <1>5, <1>6, <1>7, <1>8, <1>9, <1>10, <1>11, PromotionSteps
<1> QED BY <1>1, <1>2, <1>4, <1>11 DEF Next


(* A file only grows under its writers. *)
LEMMA WritersGrowFiles ==
  ASSUME TypeOK, NEW w \in Writers, Open(w) \/ Commit(w) \/ Close(w) \/ Crash(w)
  PROVE  /\ \A i \in Inodes : file[i] \subseteq file'[i]
         /\ UNCHANGED <<script, path, durable, copies, prior, verified>>
         /\ torn \subseteq torn'
<1> USE DEF script, disk, logs, copies, history
<1>1. CASE CloseLinked(w)
  <2>1. \/ file' = [file EXCEPT ![conn[w].inode] = @ \cup wal]
        \/ file' = file
    BY <1>1 DEF CloseLinked
  <2> QED BY <1>1, <2>1 DEF CloseLinked, TypeOK
<1>2. ASSUME NEW b \in BOOLEAN, LeaveCut(w, b)
      PROVE  /\ \A i \in Inodes : file[i] \subseteq file'[i]
             /\ UNCHANGED <<script, path, durable, copies, prior, verified>>
             /\ torn \subseteq torn'
  BY <1>2, LeavingMovesLog
<1>3. CASE Open(w) \/ Commit(w) \/ CrashLinked(w)
  BY <1>3 DEF Open, Commit, CrashLinked
<1> QED BY <1>1, <1>2, <1>3 DEF Close, Crash

LEMMA EarlyIsUntouched ==
  ASSUME TypeOK, LogsSound, BeforeInv, stage \in Early
  PROVE  Untouched /\ path = "old"
<1>1. /\ path = "old" /\ durable = "old" /\ AllLinked /\ torn = {}
      /\ \A w \in Writers : conn[w] # None => conn[w].inode = "old"
      /\ acked \subseteq file["old"] \cup Logged \cup torn \cup cut["old"]
  BY DEF BeforeInv, Early, BeforeSwap
<1>2. cut["old"] = {}
  BY <1>1 DEF LogsSound, AllLinked, Inodes
<1> QED BY <1>1, <1>2 DEF Untouched, TypeOK, Content

LEMMA PriorStep == IInv /\ [Next]_vars => PriorKept'
<1> SUFFICES ASSUME IInv, [Next]_vars PROVE PriorKept'
  OBVIOUS
<1>0. TypeOK /\ LogsSound /\ BeforeInv /\ PriorKept
  BY DEF IInv
<1> USE DEF script, disk, logs, copies, history
<1>1. ASSUME NEW w \in Writers, Open(w) \/ Commit(w) \/ Close(w) \/ Crash(w)
      PROVE  PriorKept'
  <2>1. stage' = stage /\ prior' = prior /\ durable' = durable
        /\ file["old"] \subseteq file'["old"]
    BY <1>0, <1>1, WritersGrowFiles DEF Inodes
  <2>2. ASSUME Untouched PROVE Untouched'
    <3>1. /\ path' = "old" /\ OnOld' /\ AllLinked' /\ Content \subseteq Content'
      BY <1>0, <1>1, <2>2, WritersKeepPlace DEF Untouched, OnOld
    <3> QED BY <2>1, <2>2, <3>1 DEF Untouched, OnOld
  <2> QED BY <1>0, <2>1, <2>2 DEF PriorKept
<1>2. ASSUME UNCHANGED <<disk, logs, prior>>,
             \/ stage' \in {stage, "done"} \cup Early
             \/ stage \notin Early \cup {"done"}
      PROVE  PriorKept'
  <2>1. Untouched' = Untouched
    BY <1>2 DEF Untouched, AllLinked, Content, Logged
  <2> QED BY <1>0, <1>2, <2>1 DEF PriorKept
<1>3. CASE UNCHANGED vars
  BY <1>2, <1>3 DEF vars
<1>4. CASE PowerLoss
  <2>1. stage' = "done" /\ UNCHANGED <<file, wal, prior>> /\ path' \in {path, durable}
        /\ durable' = path' /\ conn' = [w \in Writers |-> None]
    BY <1>4 DEF PowerLoss
  <2>2. Untouched => Untouched'
    BY <2>1 DEF Untouched, AllLinked, Content, Logged
  <2> QED BY <1>0, <2>1, <2>2 DEF PriorKept
<1>5. ASSUME prior \subseteq file["old"], prior' = prior, file'["old"] = file["old"]
      PROVE  PriorKept'
  BY <1>5 DEF PriorKept
<1>6. CASE Looks /\ UNCHANGED <<disk, logs, copies, history>>
  <2>1. stage' \in {stage, "done"} \cup Early \/ stage \notin Early \cup {"done"}
    BY <1>6
    DEF Looks, StagePromotion, RevalidateActivity, CompareCheckpointed,
        InspectAfterCheckpoint, InspectBeforeSwap, InspectAfterSwap,
        NoSidecarsAfterSwap, VerifyInstalled, InspectBeforeSuccess,
        InspectBeforeRollback, InspectRestored, Refuse, FailAfterSwap,
        FailRollback, Kill, At, Early, AfterSwap
  <2> QED BY <1>2, <1>6, <2>1
<1>7. CASE Unlinks /\ Unlink /\ UNCHANGED <<disk, copies, acked, prior, verified>>
  <2>1. stage \notin Early \cup {"done"}
    BY <1>7
    DEF Unlinks, RemoveSidecars, ClearAfterCheckpoint, ClearBeforeSwap,
        ClearAtBoundary, Succeed, RemoveSidecarsForRollback, FinishRollback,
        At, Early
  <2> QED BY <1>0, <1>5, <1>7, <2>1 DEF PriorKept
<1>8. CASE InspectDestination
  <2>1. /\ stage = "inspect" /\ stage' = "snapshot" /\ prior' = acked
        /\ UNCHANGED <<disk, logs, copies, acked, verified, torn>>
    BY <1>8 DEF InspectDestination, At
  <2>2. Untouched
    BY <1>0, <2>1, EarlyIsUntouched DEF Early
  <2>3. acked \subseteq Content
    BY <1>0, <2>1, <2>2
    DEF BeforeInv, Early, BeforeSwap, LogsSound, Untouched, AllLinked, Inodes, Content
  <2>4. Untouched'
    BY <2>1, <2>2, <2>3 DEF Untouched, AllLinked, Content, Logged
  <2> QED BY <2>1, <2>4 DEF PriorKept, Early
<1>9. CASE SnapshotDestination \/ SnapshotFinal \/ PrepareBackup \/ VerifyImmediately
  BY <1>2, <1>9 DEF SnapshotDestination, SnapshotFinal, PrepareBackup, VerifyImmediately,
                    At, Early
<1>10. CASE CheckpointDestination
  <2>1. stage = "checkpoint" /\ prior' = prior
        /\ file' = [file EXCEPT ![path] = @ \cup Logged]
    BY <1>10 DEF CheckpointDestination, At
  <2>2. Untouched /\ path = "old"
    BY <1>0, <2>1, EarlyIsUntouched DEF Early
  <2>3. file'["old"] = file["old"] \cup Logged
    BY <1>0, <2>1, <2>2 DEF TypeOK, Inodes
  <2> QED BY <2>1, <2>2, <2>3 DEF Untouched, Content, PriorKept
<1>11. CASE SyncBackup \/ BuildRollback
  <2>1. stage \notin Early \cup {"done"} /\ file'["old"] = file["old"] /\ prior' = prior
    BY <1>0, <1>11 DEF SyncBackup, BuildRollback, At, Early, TypeOK, Inodes
  <2> QED BY <1>0, <1>5, <2>1 DEF PriorKept
<1>12. CASE Swap \/ SwapFails \/ SyncSwap \/ RestoreRename \/ VerifyRestored
  <2>1. stage \notin Early \cup {"done"} /\ file' = file /\ prior' = prior
    BY <1>12 DEF Swap, SwapFails, SyncSwap, RestoreRename, VerifyRestored, At, Early
  <2> QED BY <1>0, <1>5, <2>1 DEF PriorKept
<1>13. CASE Script \/ Kill
  BY <1>6, <1>7, <1>8, <1>9, <1>10, <1>11, <1>12, <1>13, PromotionSteps
<1> QED BY <1>1, <1>3, <1>4, <1>13 DEF Next

-----------------------------------------------------------------------------
(* The copies *)

(* A step that leaves the copies alone and goes on through the stages. *)
LEMMA CopiesCarryOver ==
  ASSUME TypeOK, CopiesInv,
         UNCHANGED <<copies, prior, verified>>, torn \subseteq torn',
         \A S \in {Snapshotted, Backed, Synced} : stage' \in S => stage \in S,
         stage' \notin Backed \cup {"done"} => stage \notin Backed \cup {"done"},
         path' # "old" \/ durable' # "old" =>
           path # "old" \/ durable # "old" \/ stage \in Synced
  PROVE  CopiesInv'
BY DEF CopiesInv, copies

LEMMA CopiesStep == IInv /\ [Next]_vars => CopiesInv'
<1> SUFFICES ASSUME IInv, [Next]_vars PROVE CopiesInv'
  OBVIOUS
<1>0. TypeOK /\ LogsSound /\ BeforeInv /\ PriorKept /\ CopiesInv
  BY DEF IInv
<1> USE DEF script, disk, logs, copies, history
<1>1. ASSUME NEW w \in Writers, Open(w) \/ Commit(w) \/ Close(w) \/ Crash(w)
      PROVE  CopiesInv'
  <2>1. UNCHANGED <<script, path, durable, copies, prior, verified>> /\ torn \subseteq torn'
    BY <1>0, <1>1, WritersGrowFiles
  <2> QED BY <1>0, <2>1, CopiesCarryOver
<1>2. CASE UNCHANGED vars
  BY <1>0, <1>2, CopiesCarryOver DEF vars
<1>3. CASE PowerLoss
  BY <1>0, <1>3 DEF PowerLoss, CopiesInv, Snapshotted, Backed, Synced, AfterSwap, RollingBack
<1>4. CASE Looks /\ UNCHANGED <<disk, logs, copies, history>>
  <2>1. /\ \A S \in {Snapshotted, Backed, Synced} : stage' \in S => stage \in S
        /\ stage' \notin Backed \cup {"done"} => stage \notin Backed \cup {"done"}
    BY <1>4
    DEF Looks, StagePromotion, RevalidateActivity, CompareCheckpointed,
        InspectAfterCheckpoint, InspectBeforeSwap, InspectAfterSwap,
        NoSidecarsAfterSwap, VerifyInstalled, InspectBeforeSuccess,
        InspectBeforeRollback, InspectRestored, Refuse, FailAfterSwap,
        FailRollback, Kill, At, Snapshotted, Backed, Synced, AfterSwap, RollingBack
  <2> QED BY <1>0, <1>4, <2>1, CopiesCarryOver
<1>5. CASE Unlinks /\ Unlink /\ UNCHANGED <<disk, copies, acked, prior, verified>>
  <2>1. /\ \A S \in {Snapshotted, Backed, Synced} : stage' \in S => stage \in S
        /\ stage' \notin Backed \cup {"done"} => stage \notin Backed \cup {"done"}
    BY <1>5
    DEF Unlinks, RemoveSidecars, ClearAfterCheckpoint, ClearBeforeSwap,
        ClearAtBoundary, Succeed, RemoveSidecarsForRollback, FinishRollback,
        At, Snapshotted, Backed, Synced, AfterSwap, RollingBack
  <2>2. torn \subseteq torn'
    BY <1>0, <1>5, UnlinkMovesLog
  <2> QED BY <1>0, <1>5, <2>1, <2>2, CopiesCarryOver
<1>6. CASE InspectDestination
  <2>1. /\ stage = "inspect" /\ stage' = "snapshot"
        /\ UNCHANGED <<disk, copies, verified, torn>>
    BY <1>6 DEF InspectDestination, At
  <2>2. backup = None
    BY <1>0, <2>1 DEF CopiesInv, Backed, Synced, AfterSwap, RollingBack
  <2> QED BY <1>0, <2>1, <2>2
          DEF CopiesInv, Snapshotted, Backed, Synced, AfterSwap, RollingBack
<1>7. CASE SnapshotDestination
  <2>1. /\ stage = "snapshot" /\ stage' = "stage"
        /\ UNCHANGED <<disk, final, source, backup, synced, history>>
    BY <1>7 DEF SnapshotDestination, At
  <2> QED BY <1>0, <2>1
          DEF CopiesInv, Snapshotted, Backed, Synced, AfterSwap, RollingBack
<1>8. CASE SnapshotFinal
  <2>1. /\ stage = "final" /\ stage' = "checkpoint"
        /\ NoDrift(Content) /\ LedgersContained(Content) /\ final' = Content
        /\ UNCHANGED <<disk, source, first, backup, synced, history>>
    BY <1>8 DEF SnapshotFinal, At
  <2>2. prior \subseteq Content
    BY <1>0, <2>1, EarlyIsUntouched DEF Early, Untouched
  <2> QED BY <1>0, <2>1, <2>2
          DEF CopiesInv, NoDrift, LedgersContained,
              Snapshotted, Backed, Synced, AfterSwap, RollingBack
<1>9. CASE CheckpointDestination
  <2>1. /\ stage = "checkpoint" /\ stage' = "unlink"
        /\ UNCHANGED <<path, durable, copies, history>>
    BY <1>9 DEF CheckpointDestination, At
  <2> QED BY <1>0, <2>1, CopiesCarryOver
          DEF Snapshotted, Backed, Synced, AfterSwap, RollingBack
<1>10. CASE PrepareBackup
  <2>1. /\ stage = "backup" /\ stage' = "sync" /\ backup' = final
        /\ UNCHANGED <<disk, source, first, final, synced, history>>
    BY <1>10 DEF PrepareBackup, At
  <2>2. final # None
    BY <1>0 DEF TypeOK
  <2>3. backup = None
    BY <1>0, <2>1 DEF CopiesInv, Backed, Synced, AfterSwap, RollingBack
  <2> QED BY <1>0, <2>1, <2>2, <2>3
          DEF CopiesInv, Snapshotted, Backed, Synced, AfterSwap, RollingBack
<1>11. CASE SyncBackup
  <2>1. /\ stage = "sync" /\ stage' = "verify" /\ synced' = TRUE
        /\ UNCHANGED <<path, durable, source, first, final, backup, history>>
    BY <1>11 DEF SyncBackup, At
  <2>2. backup = final /\ final # None /\ prior \subseteq final
    BY <1>0, <2>1 DEF CopiesInv, Backed, Snapshotted, TypeOK
  <2>3. synced \/ verified = {}
    BY <1>0 DEF CopiesInv
  <2> QED BY <1>0, <2>1, <2>2, <2>3
          DEF CopiesInv, Snapshotted, Backed, Synced, AfterSwap, RollingBack
<1>12. CASE VerifyImmediately
  <2>1. /\ stage = "verify" /\ stage' = "clearAgain" /\ Content = final /\ verified' = acked
        /\ UNCHANGED <<disk, logs, copies, acked, prior, torn>>
    BY <1>12 DEF VerifyImmediately, At, SameContents
  <2>2. /\ path = "old" /\ AllLinked
        /\ acked \subseteq file["old"] \cup Logged \cup torn \cup cut["old"]
    BY <1>0, <2>1 DEF BeforeInv, BeforeSwap, Calm
  <2>3. cut["old"] = {}
    BY <1>0, <2>2 DEF LogsSound, AllLinked, Inodes
  <2>4. acked \ torn \subseteq final
    BY <2>1, <2>2, <2>3 DEF Content
  <2>5. backup = final /\ synced
    BY <1>0, <2>1 DEF CopiesInv, Backed, Synced
  <2> QED BY <1>0, <2>1, <2>4, <2>5
          DEF CopiesInv, Snapshotted, Backed, Synced, AfterSwap, RollingBack
<1>13. CASE Swap \/ SwapFails \/ SyncSwap \/ BuildRollback \/ RestoreRename \/ VerifyRestored
  <2>1. /\ stage \in Synced /\ stage \in Backed /\ stage \in Snapshotted
        /\ stage' \in Backed \cup {"done"}
        /\ UNCHANGED <<copies, history>>
    BY <1>13
    DEF Swap, SwapFails, SyncSwap, BuildRollback, RestoreRename, VerifyRestored, At,
        Snapshotted, Backed, Synced, AfterSwap, RollingBack
  <2> QED BY <1>0, <2>1, CopiesCarryOver
<1>14. CASE Script \/ Kill
  BY <1>4, <1>5, <1>6, <1>7, <1>8, <1>9, <1>10, <1>11, <1>12, <1>13, <1>14, PromotionSteps
<1> QED BY <1>1, <1>2, <1>3, <1>14 DEF Next

-----------------------------------------------------------------------------
(* The old file *)

LEMMA OldKeptStep == IInv /\ [Next]_vars => OldKept'
<1> SUFFICES ASSUME IInv, [Next]_vars PROVE OldKept'
  OBVIOUS
<1>0. TypeOK /\ BeforeInv /\ CopiesInv /\ OldKept
  BY DEF IInv
<1> USE DEF script, disk, logs, copies, history
<1>1. ASSUME NEW w \in Writers, Open(w) \/ Commit(w) \/ Close(w) \/ Crash(w)
      PROVE  OldKept'
  <2>1. file["old"] \subseteq file'["old"] /\ UNCHANGED <<script, copies>>
    BY <1>0, <1>1, WritersGrowFiles DEF Inodes
  <2> QED BY <1>0, <2>1 DEF OldKept
<1>2. CASE UNCHANGED vars
  BY <1>0, <1>2 DEF vars, OldKept
<1>3. CASE CompareCheckpointed
  <2>1. /\ stage = "compare" /\ NoSidecars /\ Content = final
        /\ UNCHANGED <<disk, copies>>
    BY <1>3 DEF CompareCheckpointed, At, SameContents
  <2>2. path = "old" /\ file["old"] = final
    BY <1>0, <2>1 DEF BeforeInv, BeforeSwap, NoSidecars, Content, Logged
  <2> QED BY <1>0, <2>1, <2>2 DEF OldKept
<1>4. CASE PrepareBackup
  <2>1. /\ stage = "backup" /\ stage' = "sync" /\ backup' = final
        /\ UNCHANGED <<disk, final>>
    BY <1>4 DEF PrepareBackup, At
  <2> QED BY <1>0, <2>1 DEF OldKept
<1>5. ASSUME Script \/ Kill \/ PowerLoss, ~CompareCheckpointed, ~PrepareBackup
      PROVE  /\ stage' \in {"clear", "quiet", "backup"} =>
                  stage \in {"clear", "quiet", "backup"} /\ final' = final
             /\ backup' \in {backup, None}
             /\ file["old"] \subseteq file'["old"]
  <2> USE DEF At
  <2>1. CASE (Looks \/ Unlinks) /\ UNCHANGED <<disk, copies>>
    BY <1>5, <2>1
    DEF Looks, StagePromotion, RevalidateActivity,
        InspectAfterCheckpoint, InspectBeforeSwap, InspectAfterSwap,
        NoSidecarsAfterSwap, VerifyInstalled, InspectBeforeSuccess,
        InspectBeforeRollback, InspectRestored, Refuse, FailAfterSwap,
        FailRollback, Kill, Unlinks, RemoveSidecars, ClearAfterCheckpoint,
        ClearBeforeSwap, ClearAtBoundary, Succeed, RemoveSidecarsForRollback,
        FinishRollback, BeforeSwap, AfterSwap, RollingBack
  <2>2. CASE \/ InspectDestination \/ SnapshotDestination \/ SnapshotFinal
             \/ VerifyImmediately \/ Swap \/ SwapFails \/ SyncSwap
             \/ RestoreRename \/ VerifyRestored \/ PowerLoss
    BY <2>2 DEF InspectDestination, SnapshotDestination, SnapshotFinal,
       VerifyImmediately, Swap, SwapFails, SyncSwap, RestoreRename,
       VerifyRestored, PowerLoss
  <2>3. CASE CheckpointDestination
    BY <1>0, <2>3 DEF CheckpointDestination, TypeOK, Inodes
  <2>4. CASE SyncBackup \/ BuildRollback
    BY <1>0, <2>4 DEF SyncBackup, BuildRollback, TypeOK, Inodes
  <2> QED BY <1>5, <2>1, <2>2, <2>3, <2>4, PromotionSteps
<1>6. CASE (Script \/ Kill \/ PowerLoss) /\ ~CompareCheckpointed /\ ~PrepareBackup
  BY <1>0, <1>5, <1>6 DEF OldKept
<1> QED BY <1>1, <1>2, <1>3, <1>4, <1>6 DEF Next

-----------------------------------------------------------------------------
(* What is installed *)

(* A connection keeps its inode, and a new one is to the file at the path. *)
LEMMA WritersKeepInodes ==
  ASSUME TypeOK, NEW w \in Writers, Open(w) \/ Commit(w) \/ Close(w) \/ Crash(w)
  PROVE  \A v \in Writers : conn'[v] # None =>
           \/ conn[v] # None /\ conn'[v].inode = conn[v].inode
           \/ conn'[v].inode = path
<1>1. CASE CloseLinked(w) /\ OpenOn(conn[w].inode) = {w}
  <2>1. conn' = [v \in Writers |->
                   CASE v = w -> None
                     [] v # w /\ Linked(v) -> [conn[v] EXCEPT !.linked = FALSE]
                     [] OTHER -> conn[v]]
    BY <1>1 DEF CloseLinked
  <2>2. ASSUME NEW v \in Writers, conn'[v] # None
        PROVE  conn[v] # None /\ conn'[v].inode = conn[v].inode
    <3>1. CASE v # w /\ Linked(v)
      <4>1. conn[v] # None /\ conn[v] \in Connections
            /\ conn'[v] = [conn[v] EXCEPT !.linked = FALSE]
        BY <2>1, <3>1 DEF Linked, TypeOK
      <4> QED BY <4>1 DEF Connections
    <3>2. CASE v = w \/ ~Linked(v)
      <4>1. v # w
        BY <2>1, <2>2
      <4> QED BY <2>1, <2>2, <3>2, <4>1
    <3> QED BY <3>1, <3>2
  <2> QED BY <2>2
<1>2. CASE CloseLinked(w) /\ OpenOn(conn[w].inode) # {w}
  BY <1>2 DEF CloseLinked, TypeOK
<1>3. ASSUME NEW b \in BOOLEAN, LeaveCut(w, b)
      PROVE  \A v \in Writers : conn'[v] # None => conn'[v] = conn[v]
  BY <1>3 DEF LeaveCut, TypeOK
<1>4. CASE Open(w) \/ Commit(w) \/ CrashLinked(w)
  BY <1>4 DEF Open, Commit, CrashLinked, TypeOK
<1> QED BY <1>1, <1>2, <1>3, <1>4 DEF Close, Crash

LEMMA InstalledStep == IInv /\ [Next]_vars => Installed'
<1> SUFFICES ASSUME IInv, [Next]_vars PROVE Installed'
  OBVIOUS
<1>0. TypeOK /\ LogsSound /\ BeforeInv /\ CopiesInv /\ Installed
  BY DEF IInv
<1> USE DEF script, disk, logs, copies, history
<1>1. ASSUME NEW w \in Writers, Open(w) \/ Commit(w) \/ Close(w) \/ Crash(w)
      PROVE  Installed'
  <2>1. /\ \A i \in Inodes : file[i] \subseteq file'[i]
        /\ UNCHANGED <<script, path, durable, copies>>
    BY <1>0, <1>1, WritersGrowFiles
  <2>2. ASSUME stage = "lock" \/ result = "success"
        PROVE  OpenOn("old")' = {}
    <3>1. path = "new" /\ \A v \in Writers : conn[v] # None => conn[v].inode # "old"
      BY <1>0, <2>2 DEF Installed, AfterSwap, OpenOn
    <3> QED BY <1>0, <1>1, <3>1, WritersKeepInodes DEF OpenOn
  <2> QED BY <1>0, <2>1, <2>2 DEF Installed, Staged, Inodes
<1>2. CASE UNCHANGED vars
  BY <1>0, <1>2 DEF vars, Installed, OpenOn, Staged
<1>3. CASE PowerLoss
  BY <1>3 DEF PowerLoss, Installed, Synced, AfterSwap, RollingBack, Restored
<1>4. CASE Looks /\ UNCHANGED <<disk, logs, copies, history>>
  <2>1. CASE InspectBeforeSuccess
    BY <1>0, <1>4, <2>1
    DEF InspectBeforeSuccess, At, OldWriters, OpenOn, Staged, Installed,
        Synced, AfterSwap, RollingBack, Restored
  <2>2. CASE Refuse
    BY <1>0, <1>4, <2>2
    DEF Refuse, BeforeInv, Installed, Synced, AfterSwap, RollingBack, Restored
  <2>3. CASE ~InspectBeforeSuccess /\ ~Refuse
    <3>1. /\ stage' \in Synced => stage \in Synced
          /\ stage' \in AfterSwap => stage \in AfterSwap
          /\ stage' \in Restored => stage \in Restored
          /\ stage' \in Restored \cup {"rbRename"} => stage \in Restored \cup {"rbRename"}
          /\ stage' # "lock"
          /\ result' \notin {"success", "restored", "refused", "unchanged"}
      BY <1>0, <1>4, <2>3
      DEF Looks, StagePromotion, RevalidateActivity, CompareCheckpointed,
          InspectAfterCheckpoint, InspectBeforeSwap, InspectAfterSwap,
          NoSidecarsAfterSwap, VerifyInstalled, InspectBeforeRollback,
          InspectRestored, FailAfterSwap, FailRollback, Kill, At,
          Synced, AfterSwap, RollingBack, Restored, TypeOK, BeforeSwap
    <3> QED BY <1>0, <1>4, <3>1 DEF Installed, Staged
  <2> QED BY <2>1, <2>2, <2>3
<1>5. CASE Unlinks /\ Unlink /\ UNCHANGED <<disk, copies, acked, prior, verified>>
  <2>1. /\ stage' \in Synced => stage \in Synced
        /\ stage' \in AfterSwap => stage \in AfterSwap
        /\ stage' \in Restored => stage \in Restored
        /\ stage' \in Restored \cup {"rbRename"} => stage \in Restored \cup {"rbRename"}
        /\ stage' # "lock"
        /\ result' = "success" => stage = "lock"
        /\ result' = "restored" => stage \in Restored
        /\ result' \notin {"refused", "unchanged"}
    BY <1>0, <1>5
    DEF Unlinks, RemoveSidecars, ClearAfterCheckpoint, ClearBeforeSwap,
        ClearAtBoundary, Succeed, RemoveSidecarsForRollback, FinishRollback,
        At, Synced, AfterSwap, RollingBack, Restored, TypeOK, BeforeSwap
  <2>2. OpenOn("old") = {} => OpenOn("old")' = {}
    BY <1>0, <1>5, UnlinkMovesLog DEF OpenOn
  <2>3. stage = "lock" => stage \in Synced /\ stage \in AfterSwap
    BY DEF Synced, AfterSwap
  <2> QED BY <1>0, <1>5, <2>1, <2>2, <2>3 DEF Installed, Staged
<1>6. CASE \/ InspectDestination \/ SnapshotDestination \/ SnapshotFinal
           \/ CheckpointDestination \/ PrepareBackup
  <2>1. stage # "done" /\ stage' \in BeforeSwap \ Synced /\ result' = result
    BY <1>6
    DEF InspectDestination, SnapshotDestination, SnapshotFinal,
        CheckpointDestination, PrepareBackup, At, BeforeSwap, Synced, AfterSwap, RollingBack
  <2>2. result' = "running" /\ stage' \notin Restored \cup AfterSwap \cup {"rbRename", "lock"}
    BY <1>0, <2>1 DEF TypeOK, BeforeSwap, AfterSwap, Restored
  <2> QED BY <2>1, <2>2 DEF Installed
<1>7. CASE SyncBackup
  <2>1. /\ stage = "sync" /\ stage' = "verify" /\ result' = result
        /\ file' = [file EXCEPT !["new"] = Staged]
        /\ UNCHANGED <<source, first>>
    BY <1>7 DEF SyncBackup, At
  <2>2. file'["new"] = Staged /\ Staged' = Staged /\ result' = "running"
    BY <1>0, <2>1 DEF TypeOK, Inodes, Staged
  <2> QED BY <2>1, <2>2 DEF Installed, AfterSwap, Restored
<1>8. CASE VerifyImmediately
  <2>1. /\ stage = "verify" /\ stage' = "clearAgain" /\ result' = "running"
        /\ UNCHANGED <<disk, copies>>
    BY <1>0, <1>8 DEF VerifyImmediately, At, TypeOK
  <2> QED BY <1>0, <2>1 DEF Installed, Synced, AfterSwap, Restored, Staged
<1>9. CASE Swap \/ SwapFails \/ SyncSwap
  <2>1. /\ stage \in {"swap", "fsync"} /\ result = "running"
        /\ stage' \in {"fsync", "after", "rbInspect", "done"}
        /\ stage' \in {"fsync", "after"} => path' = "new"
        /\ result' \in {"running", "unchanged"}
        /\ result' = "unchanged" => path' \in {path, "new"}
        /\ UNCHANGED <<file, copies>>
    BY <1>0, <1>9 DEF Swap, SwapFails, SyncSwap, At, TypeOK, Installed, AfterSwap
  <2>2. result' = "unchanged" => path = "old"
    BY <1>0, <1>9, <2>1 DEF Swap, SwapFails, SyncSwap, At, BeforeInv, BeforeSwap
  <2> QED BY <1>0, <2>1, <2>2 DEF Installed, Synced, AfterSwap, Restored, Staged
<1>10. CASE BuildRollback
  <2>1. /\ stage = "rbBuild" /\ stage' = "rbRename" /\ result' = "running"
        /\ file' = [file EXCEPT !["back"] = backup]
        /\ UNCHANGED copies
    BY <1>0, <1>10 DEF BuildRollback, At, TypeOK
  <2>2. file'["back"] = backup /\ file'["new"] = file["new"]
    BY <1>0, <2>1 DEF TypeOK, Inodes
  <2>3. Staged \subseteq file["new"]
    BY <1>0, <2>1 DEF Installed, Synced, RollingBack
  <2> QED BY <2>1, <2>2, <2>3 DEF Installed, AfterSwap, Restored, Staged
<1>11. CASE RestoreRename
  <2>1. /\ stage = "rbRename" /\ stage' = "rbCheck" /\ result' = "running" /\ path' = "back"
        /\ UNCHANGED <<file, copies>>
    BY <1>0, <1>11 DEF RestoreRename, At, TypeOK
  <2> QED BY <1>0, <2>1 DEF Installed, Synced, AfterSwap, RollingBack, Restored, Staged
<1>12. CASE VerifyRestored
  <2>1. /\ stage = "rbCheck" /\ stage' = "rbHolders" /\ result' = "running"
        /\ UNCHANGED <<path, file, copies>>
    BY <1>0, <1>12 DEF VerifyRestored, At, TypeOK
  <2> QED BY <1>0, <2>1 DEF Installed, Synced, AfterSwap, RollingBack, Restored, Staged
<1>13. CASE Script \/ Kill
  BY <1>4, <1>5, <1>6, <1>7, <1>8, <1>9, <1>10, <1>11, <1>12, <1>13, PromotionSteps
<1> QED BY <1>1, <1>2, <1>3, <1>13 DEF Next

LEMMA CarriesStep == IInv /\ [Next]_vars => SuccessCarriesLedgers'
<1> SUFFICES ASSUME IInv, [Next]_vars PROVE SuccessCarriesLedgers'
  OBVIOUS
<1>0. TypeOK /\ CopiesInv /\ Installed /\ SuccessCarriesLedgers
  BY DEF IInv
<1> USE DEF script, disk, logs, copies, history
<1>1. ASSUME NEW w \in Writers, Open(w) \/ Commit(w) \/ Close(w) \/ Crash(w)
      PROVE  SuccessCarriesLedgers'
  <2>1. /\ \A i \in Inodes : file[i] \subseteq file'[i]
        /\ UNCHANGED <<script, prior, verified>> /\ torn \subseteq torn'
    BY <1>0, <1>1, WritersGrowFiles
  <2> QED BY <1>0, <2>1 DEF SuccessCarriesLedgers, Kept, Inodes
<1>2. CASE UNCHANGED vars
  BY <1>0, <1>2 DEF vars, SuccessCarriesLedgers, Kept
<1>3. CASE Succeed
  <2>1. /\ stage = "lock" /\ Unlink /\ UNCHANGED <<file, prior, verified>>
    BY <1>3 DEF Succeed, ClearInspectionSidecars
  <2>2. torn \subseteq torn'
    BY <1>0, <2>1, UnlinkMovesLog
  <2>3. stage \in Synced /\ stage \in Backed /\ stage \in Snapshotted
    BY <2>1 DEF Snapshotted, Backed, Synced, AfterSwap
  <2>4. /\ prior \cup (verified \ torn) \subseteq final
        /\ final \cap (Ledger \cup Merged) = first \cap (Ledger \cup Merged)
        /\ final \cap Ledger \subseteq source
    BY <1>0, <2>3 DEF CopiesInv
  <2>5. final \cap (Ledger \cup Merged) \subseteq Staged
    BY <2>4 DEF Staged
  <2>6. Staged \subseteq file["new"]
    BY <1>0, <2>3 DEF Installed
  <2> QED BY <2>1, <2>2, <2>4, <2>5, <2>6 DEF SuccessCarriesLedgers, Kept
<1>4. CASE (Script \/ Kill \/ PowerLoss) /\ ~Succeed
  <2>1. CASE Looks \/ Unlinks
    BY <1>0, <1>4, <2>1
    DEF Looks, StagePromotion, RevalidateActivity, CompareCheckpointed,
        InspectAfterCheckpoint, InspectBeforeSwap, InspectAfterSwap,
        NoSidecarsAfterSwap, VerifyInstalled, InspectBeforeSuccess,
        InspectBeforeRollback, InspectRestored, Refuse, FailAfterSwap,
        FailRollback, Kill, Unlinks, RemoveSidecars, ClearAfterCheckpoint,
        ClearBeforeSwap, ClearAtBoundary, RemoveSidecarsForRollback,
        FinishRollback, At, BeforeSwap, AfterSwap, RollingBack, TypeOK,
        SuccessCarriesLedgers, Kept
  <2>2. CASE \/ InspectDestination \/ SnapshotDestination \/ SnapshotFinal
             \/ CheckpointDestination \/ PrepareBackup \/ SyncBackup
             \/ VerifyImmediately \/ Swap \/ SwapFails \/ SyncSwap
             \/ BuildRollback \/ RestoreRename \/ VerifyRestored \/ PowerLoss
    <3>1. result' # "success"
      BY <1>0, <2>2
      DEF InspectDestination, SnapshotDestination, SnapshotFinal,
          CheckpointDestination, PrepareBackup, SyncBackup, VerifyImmediately,
          Swap, SwapFails, SyncSwap, BuildRollback, RestoreRename,
          VerifyRestored, PowerLoss, At, TypeOK
    <3> QED BY <3>1 DEF SuccessCarriesLedgers, Kept
  <2> QED BY <1>4, <2>1, <2>2, PromotionSteps
<1> QED BY <1>1, <1>2, <1>3, <1>4 DEF Next

-----------------------------------------------------------------------------
(* Theorems *)

(* The conjunction of the type invariant, of where the commits are in each *)
(* stage, and of what the snapshots, the backup and the new file hold is   *)
(* kept by every step of the script, of the writers and of the faults.     *)
THEOREM PromotionInvariant == Spec => []IInv
<1>1. IInv /\ [Next]_vars => IInv'
  BY PromotionTypeStep, LogsStep, BeforeStep, PriorStep, CopiesStep, OldKeptStep,
     InstalledStep, CarriesStep DEF IInv
<1> QED BY <1>1, PromotionInitially, PTL DEF Spec

(* Type correctness of the apply path; a log at the path is there while a  *)
(* connection uses it.                                                     *)
THEOREM PromotionTypes == Spec => []TypeOK
<1>1. IInv => TypeOK
  BY DEF IInv
<1> QED BY <1>1, PromotionInvariant, PTL

(* Whatever check fails, whoever opens the database and wherever the       *)
(* script or the machine stops, the commits of the first inspection and    *)
(* those that the last comparison covers stay in the database or in the    *)
(* backup: before the first unlink they are in what is at the path, after  *)
(* the checkpoint in the old file, and the old file is replaced only when  *)
(* a flushed backup holds them.                                            *)
THEOREM VerifiedCommitsAreKept == Spec => []VerifiedCommitsSurvive
<1>1. IInv => VerifiedCommitsSurvive
  <2> SUFFICES ASSUME IInv PROVE VerifiedCommitsSurvive
    OBVIOUS
  <2>1. PriorKept /\ CopiesInv
    BY DEF IInv
  <2>2. verified \ torn \subseteq Retained
    BY <2>1 DEF CopiesInv, Retained
  <2>3. prior \subseteq Retained
    <3>1. CASE synced
      BY <2>1, <3>1 DEF CopiesInv, Retained
    <3>2. CASE ~synced
      <4>1. path = "old"
        BY <2>1, <3>2 DEF CopiesInv
      <4> QED BY <2>1, <4>1 DEF PriorKept, Untouched, Retained, Content
    <3> QED BY <3>1, <3>2
  <2> QED BY <2>2, <2>3 DEF VerifiedCommitsSurvive, Kept
<1> QED BY <1>1, PromotionInvariant, PTL

(* A promotion that succeeds has carried the ledgers and the merged tables *)
(* over: containment and the drift check relate the final snapshot, which  *)
(* holds those commits, to the snapshot that staging used.                 *)
THEOREM SuccessCarries == Spec => []SuccessCarriesLedgers
<1>1. IInv => SuccessCarriesLedgers
  BY DEF IInv
<1> QED BY <1>1, PromotionInvariant, PTL

(* No process has the replaced file open when success is reported: after   *)
(* the last inspection nobody can open it any more.                        *)
THEOREM SuccessIsAlone == Spec => []SuccessLeavesNoOldWriter
<1>1. IInv => SuccessLeavesNoOldWriter
  BY DEF IInv, Installed, LogsSound, OpenOn, SuccessLeavesNoOldWriter, Inodes
<1> QED BY <1>1, PromotionInvariant, PTL

(* What a promotion reports is what is installed, and after a refusal, a   *)
(* restoration or a rename that is known not to have happened the database *)
(* itself holds the commits that were to be kept: the old file never loses *)
(* what the backup was written from, and the file put back is the backup.  *)
THEOREM ReportsAreTrue == Spec => []ReportIsTrue
<1>1. IInv => ReportIsTrue
  <2> SUFFICES ASSUME IInv PROVE ReportIsTrue
    OBVIOUS
  <2>0. TypeOK /\ PriorKept /\ CopiesInv /\ OldKept /\ Installed
    BY DEF IInv
  <2>1. result = "success" => path = "new" /\ Staged \subseteq Content
    BY <2>0 DEF Installed, Content
  <2>2. result \in {"refused", "restored"} => path # "new"
    BY <2>0 DEF Installed
  <2>3. ASSUME path = "old" PROVE Kept \subseteq Content
    <3>1. prior \subseteq Content
      BY <2>0, <2>3 DEF PriorKept, Untouched, Content
    <3>2. verified \ torn \subseteq file["old"]
      BY <2>0 DEF CopiesInv, OldKept
    <3> QED BY <2>3, <3>1, <3>2 DEF Kept, Content
  <2>4. ASSUME result = "restored" PROVE Kept \subseteq Content
    <3>1. path = "back" /\ backup \subseteq file["back"]
      BY <2>0, <2>4 DEF Installed
    <3>2. synced
      BY <2>0, <3>1 DEF CopiesInv
    <3>3. prior \cup (verified \ torn) \subseteq backup
      BY <2>0, <3>2 DEF CopiesInv
    <3> QED BY <3>1, <3>3 DEF Kept, Content
  <2>5. result \in {"refused", "unchanged"} /\ path # "new" => path = "old"
    BY <2>0 DEF Installed, TypeOK, Inodes
  <2> QED BY <2>1, <2>2, <2>3, <2>4, <2>5 DEF ReportIsTrue
<1> QED BY <1>1, PromotionInvariant, PTL
=============================================================================
